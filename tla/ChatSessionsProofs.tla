------------------------- MODULE ChatSessionsProofs -------------------------
(***************************************************************************)
(* Proofs about ChatSessions, for any number of requests and sessions and  *)
(* any HistoryLimit, and that it implements Transcript.                    *)
(***************************************************************************)
EXTENDS ChatSessions, FiniteSetTheorems, TLAPS

-----------------------------------------------------------------------------
(* What a transaction writes.                                              *)

(* Two different elements make a finite set of cardinality 2. *)
LEMMA PairCardinality ==
  ASSUME NEW a, NEW b, a # b
  PROVE  IsFiniteSet({a, b}) /\ Cardinality({a, b}) = 2
<1>1. IsFiniteSet({a}) /\ Cardinality({a}) = 1
  BY FS_Singleton
<1>2. {a, b} = {a} \cup {b} /\ b \notin {a}
  OBVIOUS
<1>3. /\ IsFiniteSet({a} \cup {b})
      /\ Cardinality({a} \cup {b}) = Cardinality({a}) + 1
  BY <1>1, <1>2, FS_AddElement
<1> QED
  BY <1>1, <1>2, <1>3

(* A transaction writes one message for each of its roles, which are one   *)
(* or two.                                                                 *)
LEMMA PendingCount ==
  ASSUME NEW r
  PROVE  /\ IsFiniteSet(Pending(r))
         /\ Cardinality(Pending(r)) = Cardinality(Roles(r))
         /\ Cardinality(Roles(r)) \in {1, 2}
<1> DEFINE user == NewMessage(r, "user")
           reply == NewMessage(r, "assistant")
<1>1. user # reply
  BY DEF NewMessage
<1>2. CASE Roles(r) = {"user", "assistant"}
  <2>1. Pending(r) = {user, reply}
    BY <1>2 DEF Pending
  <2> HIDE DEF user, reply
  <2>2. IsFiniteSet({user, reply}) /\ Cardinality({user, reply}) = 2
    BY <1>1, PairCardinality
  <2>3. Cardinality({"user", "assistant"}) = 2
    BY PairCardinality
  <2> QED
    BY <1>2, <2>1, <2>2, <2>3
<1>3. ASSUME NEW role, Roles(r) = {role}
      PROVE  /\ IsFiniteSet(Pending(r))
             /\ Cardinality(Pending(r)) = 1 /\ Cardinality(Roles(r)) = 1
  <2>1. Pending(r) = {NewMessage(r, role)}
    BY <1>3 DEF Pending
  <2> QED
    BY <1>3, <2>1, FS_Singleton
<1> QED
  BY <1>2, <1>3 DEF Roles

LEMMA RolesType ==
  ASSUME NEW r
  PROVE  Roles(r) \subseteq {"user", "assistant"}
BY DEF Roles

-----------------------------------------------------------------------------
(* Types.                                                                  *)

(* A request that has arrived names a session. *)
Named == \A r \in Requests : pc[r] # Idle => sess[r] \in Sessions

Typed == TypeOK /\ Named

LEMMA TypedInit == Init => Typed
<1> SUFFICES ASSUME Init PROVE Typed
  OBVIOUS
<1>1. IsFiniteSet({})
  BY FS_EmptySet
<1> QED
  BY <1>1 DEF Init, Typed, TypeOK, Named, Row, Message, NoObject, Idle, Active, Ended, InTxn

(* The effect of Store on rows and messages. *)
LEMMA StoreTyped ==
  ASSUME Typed, NEW r \in Requests, pc[r] = "commit", Store(r)
  PROVE  /\ rows' \in [Sessions -> Row]
         /\ messages' \subseteq Message /\ IsFiniteSet(messages')
<1>1. /\ sess[r] \in Sessions /\ began[r] \in Nat /\ orm[r].count \in Nat
      /\ rows \in [Sessions -> Row]
      /\ messages \subseteq Message /\ IsFiniteSet(messages)
  BY DEF Typed, TypeOK, Named, Idle
<1>2. CountAfter(r) \in Nat
  BY <1>1, PendingCount DEF CountAfter
<1>3. RowAfter(r, rows[sess[r]]) \in Row
  BY <1>1, <1>2 DEF RowAfter, Row
<1>4. rows' \in [Sessions -> Row]
  BY <1>1, <1>3 DEF Store
<1>5. Pending(r) \subseteq Message
  BY <1>1, RolesType DEF Pending, NewMessage, Message
<1>6. IsFiniteSet(messages \cup Pending(r))
  BY <1>1, PendingCount, FS_Union
<1> QED
  BY <1>1, <1>4, <1>5, <1>6 DEF Store

(* The effect of EndTxn. *)
LEMMA EndTxnTyped ==
  ASSUME Typed, NEW r \in Requests, NEW to \in Active \cup Ended, EndTxn(r, to),
         pc[r] # Idle, sess' = sess
  PROVE  /\ lock' \in [Sessions -> Requests \cup {Nobody}]
         /\ pc' \in [Requests -> {Idle} \cup Active \cup Ended]
         /\ orm' \in [Requests -> [fresh: BOOLEAN, count: Nat]]
         /\ began' \in [Requests -> Nat]
         /\ Named'
BY DEF Typed, TypeOK, Named, EndTxn, Unlock, NoObject

LEMMA TypedNext == Typed /\ [Next]_vars => Typed'
<1> SUFFICES ASSUME Typed, [Next]_vars PROVE Typed'
  OBVIOUS
<1> USE DEF Typed
<1>1. ASSUME NEW r \in Requests, NEW s \in Sessions, Start(r, s) PROVE Typed'
  BY <1>1 DEF Start, TypeOK, Named, Active
<1>2. ASSUME NEW r \in Requests, BuildContext(r) PROVE Typed'
  <2>1. PICK w \in RecentWindows(sess[r]) :
          \E kept \in Newest(w) : prompt' = [prompt EXCEPT ![r] = kept]
    BY <1>2 DEF BuildContext
  <2>2. prompt' \in [Requests -> SUBSET Message]
    BY <2>1 DEF RecentWindows, Newest, MessagesOf, TypeOK
  <2> QED
    BY <1>2, <2>1, <2>2
    DEF BuildContext, TypeOK, Named, Active, Idle, requestVars, txnVars
<1>3. ASSUME NEW r \in Requests, EngineReply(r) PROVE Typed'
  BY <1>3 DEF EngineReply, TypeOK, Named, Active, Idle, requestVars, txnVars
<1>4. ASSUME NEW r \in Requests, Select(r) PROVE Typed'
  <2>1. rows[sess[r]] \in Row
    BY <1>4 DEF Select, TypeOK, Named, Idle
  <2> QED
    BY <1>4, <2>1 DEF Select, TypeOK, Named, Active, InTxn, Idle, requestVars, Row
<1>5. ASSUME NEW r \in Requests, Flush(r) PROVE Typed'
  BY <1>5 DEF Flush, TypeOK, Named, Active, InTxn, Idle, requestVars, txnVars
<1>6. ASSUME NEW r \in Requests, Conflict(r) PROVE Typed'
  <2>1. pc[r] # Idle /\ EndTxn(r, "failed") /\ sess' = sess
    BY <1>6 DEF Conflict, Idle, requestVars
  <2> QED
    BY <1>6, <2>1, EndTxnTyped DEF Conflict, TypeOK, Ended, requestVars
<1>7. ASSUME NEW r \in Requests, Commit(r) PROVE Typed'
  <2> DEFINE to == IF r \in Streams /\ ~asked[r] THEN "engine" ELSE "closing"
  <2>1. to \in Active \cup Ended
    BY DEF Active
  <2>2. pc[r] # Idle /\ EndTxn(r, to) /\ sess' = sess
    BY <1>7 DEF Commit, Idle
  <2>3. Store(r) /\ pc[r] = "commit"
    BY <1>7 DEF Commit
  <2>4. asked' \in [Requests -> BOOLEAN] /\ clock' \in Nat
        /\ prompt' \in [Requests -> SUBSET Message]
        /\ sess' \in [Requests -> Sessions \cup {Nowhere}]
    BY <1>7 DEF Commit, TypeOK
  <2> HIDE DEF to
  <2> QED
    BY <2>1, <2>2, <2>3, <2>4, EndTxnTyped, StoreTyped DEF TypeOK
<1>8. ASSUME NEW r \in Requests, CommitUnacknowledged(r) PROVE Typed'
  <2>1. pc[r] # Idle /\ EndTxn(r, "failed") /\ sess' = sess
    BY <1>8 DEF CommitUnacknowledged, Idle, requestVars
  <2>2. Store(r) /\ pc[r] = "commit"
    BY <1>8 DEF CommitUnacknowledged
  <2>3. asked' \in [Requests -> BOOLEAN] /\ clock' \in Nat
        /\ prompt' \in [Requests -> SUBSET Message]
        /\ sess' \in [Requests -> Sessions \cup {Nowhere}]
    BY <1>8 DEF CommitUnacknowledged, TypeOK, requestVars
  <2> QED
    BY <2>1, <2>2, <2>3, EndTxnTyped, StoreTyped DEF TypeOK, Ended
<1>9. ASSUME NEW r \in Requests, Finish(r) PROVE Typed'
  BY <1>9 DEF Finish, TypeOK, Named, Ended, Idle, requestVars, txnVars
<1>10. ASSUME NEW r \in Requests, Fail(r) PROVE Typed'
  <2>1. pc[r] # Idle /\ EndTxn(r, "failed") /\ sess' = sess
    BY <1>10 DEF Fail, Idle, Active, InTxn, requestVars
  <2> QED
    BY <1>10, <2>1, EndTxnTyped DEF Fail, TypeOK, Ended, requestVars
<1>11. ASSUME NEW r \in Requests, Disconnect(r) PROVE Typed'
  <2>1. pc[r] # Idle /\ EndTxn(r, "gone") /\ sess' = sess
    BY <1>11 DEF Disconnect, Idle, Active, InTxn, requestVars
  <2> QED
    BY <1>11, <2>1, EndTxnTyped DEF Disconnect, TypeOK, Ended, requestVars
<1>12. CASE Crash
  BY <1>12 DEF Crash, TypeOK, Named, NoObject, Ended, Active, InTxn, Idle, requestVars
<1>13. ASSUME NEW s \in Sessions, CreateSession(s) PROVE Typed'
  BY <1>13 DEF CreateSession, TypeOK, Named, Row, requestVars, txnVars
<1>14. ASSUME NEW s \in Sessions, DeleteSession(s) PROVE Typed'
  BY <1>14 DEF DeleteSession, TypeOK, Named, Row, requestVars, txnVars
<1>15. CASE UNCHANGED vars
  BY <1>15 DEF vars, TypeOK, Named
<1> QED
  BY <1>1, <1>2, <1>3, <1>4, <1>5, <1>6, <1>7, <1>8, <1>9, <1>10, <1>11,
     <1>12, <1>13, <1>14, <1>15 DEF Next, Work, Stop

(* TypeOK for every instance. *)
THEOREM Typing == Spec => []TypeOK
<1>1. Typed => TypeOK
  BY DEF Typed
<1> QED
  BY TypedInit, TypedNext, <1>1, PTL DEF Spec

-----------------------------------------------------------------------------
(* The stored messages and the counts.                                     *)

(* Where a request may still store something. *)
Before == {Idle, "context", "engine", "select", "flush", "commit"}

(* A request that may still store something has stored nothing, but for a  *)
(* stream's question once the first transaction is over.                   *)
NotYetStored ==
  \A r \in Requests : pc[r] \in Before =>
    \A m \in messages : m.req = r => r \in Streams /\ asked[r] /\ m.role = "user"

(* The count an open transaction has read is not above the messages there  *)
(* are now: messages are only ever added.                                  *)
ReadCountNotAbove ==
  \A r \in Requests : pc[r] \in InTxn =>
    orm[r].count <= Cardinality(MessagesOf(sess[r]))

(* The inductive invariant. *)
Safe ==
  /\ NotYetStored
  /\ MessagesHaveSession
  /\ ChatAllOrNothing
  /\ CountNotAboveMessages
  /\ ReadCountNotAbove

LEMMA MessagesOfFinite ==
  ASSUME TypeOK, NEW s
  PROVE  IsFiniteSet(MessagesOf(s)) /\ Cardinality(MessagesOf(s)) \in Nat
<1>1. IsFiniteSet(MessagesOf(s))
  BY FS_Subset DEF MessagesOf, TypeOK
<1> QED
  BY <1>1, FS_CardinalityType

LEMMA SafeInit == Init => Safe
<1> SUFFICES ASSUME Init PROVE Safe
  OBVIOUS
<1>1. ASSUME NEW s PROVE MessagesOf(s) = {} /\ Cardinality(MessagesOf(s)) = 0
  BY FS_EmptySet DEF Init, MessagesOf
<1> QED
  BY <1>1 DEF Init, Safe, NotYetStored, MessagesHaveSession, ChatAllOrNothing,
     CountNotAboveMessages, ReadCountNotAbove, InTxn, Idle, Stored

(* A step that stores nothing preserves Safe if it keeps the rows' counts, *)
(* lets no request back to where it may store, and starts no transaction.  *)
LEMMA QuietStep ==
  ASSUME Safe,
         messages' = messages,
         \A s \in Sessions : /\ rows'[s].count = rows[s].count
                             /\ rows[s].exists => rows'[s].exists,
         messages \subseteq Message,
         \A r \in Requests : pc'[r] \in Before => pc[r] \in Before /\ asked'[r] = asked[r],
         \A r \in Requests : pc'[r] \in InTxn =>
           pc[r] \in InTxn /\ orm'[r] = orm[r] /\ sess'[r] = sess[r]
  PROVE  Safe'
<1>1. \A s : MessagesOf(s)' = MessagesOf(s)
  BY DEF MessagesOf
<1>2. NotYetStored'
  BY DEF Safe, NotYetStored
<1>3. MessagesHaveSession'
  BY DEF Safe, MessagesHaveSession, Message
<1>4. ChatAllOrNothing'
  BY DEF Safe, ChatAllOrNothing, Stored
<1>5. CountNotAboveMessages'
  BY <1>1 DEF Safe, CountNotAboveMessages
<1>6. ReadCountNotAbove'
  BY <1>1 DEF Safe, ReadCountNotAbove
<1> QED
  BY <1>2, <1>3, <1>4, <1>5, <1>6 DEF Safe

(* What a commit adds to the messages of each session. *)
LEMMA StoreCounts ==
  ASSUME Typed, NotYetStored, NEW r \in Requests, pc[r] = "commit", Store(r)
  PROVE  /\ Pending(r) \cap messages = {}
         /\ \A s \in Sessions :
              Cardinality(MessagesOf(s)') =
                IF s = sess[r] THEN Cardinality(MessagesOf(s)) + Cardinality(Roles(r))
                ELSE Cardinality(MessagesOf(s))
<1>1. Pending(r) \cap messages = {}
  <2> SUFFICES ASSUME NEW role \in Roles(r), NewMessage(r, role) \in messages
               PROVE  FALSE
    BY DEF Pending
  <2>1. r \in Streams /\ asked[r] /\ role = "user"
    BY DEF NotYetStored, Before, NewMessage
  <2> QED
    BY <2>1, ChatSessionsAssumption DEF Roles
<1>2. ASSUME NEW s \in Sessions, s # sess[r] PROVE MessagesOf(s)' = MessagesOf(s)
  BY <1>2 DEF MessagesOf, Store, Pending, NewMessage
<1>3. ASSUME NEW s \in Sessions, s = sess[r]
      PROVE  Cardinality(MessagesOf(s)') = Cardinality(MessagesOf(s)) + Cardinality(Roles(r))
  <2>1. MessagesOf(s)' = MessagesOf(s) \cup Pending(r)
    BY <1>3 DEF MessagesOf, Store, Pending, NewMessage
  <2>2. MessagesOf(s) \cap Pending(r) = {}
    BY <1>1 DEF MessagesOf
  <2>3. IsFiniteSet(MessagesOf(s)) /\ Cardinality(MessagesOf(s)) \in Nat
    BY MessagesOfFinite DEF Typed
  <2>4. /\ IsFiniteSet(Pending(r))
        /\ Cardinality(Pending(r)) = Cardinality(Roles(r))
        /\ Cardinality(Roles(r)) \in Nat
    BY PendingCount
  <2>5. Cardinality(MessagesOf(s) \cup Pending(r)) =
          Cardinality(MessagesOf(s)) + Cardinality(Pending(r)) - Cardinality({})
    BY <2>2, <2>3, <2>4, FS_Union
  <2>6. Cardinality({}) = 0
    BY FS_EmptySet
  <2> QED
    BY <2>1, <2>3, <2>4, <2>5, <2>6
<1> QED
  BY <1>1, <1>2, <1>3

(* A commit preserves Safe, acknowledged or not. *)
LEMMA StoreStep ==
  ASSUME Typed, Safe, NEW r \in Requests, pc[r] = "commit", Store(r),
         NEW to \in {"engine", "closing", "failed"}, EndTxn(r, to),
         sess' = sess,
         asked' \in {asked, [asked EXCEPT ![r] = TRUE]},
         to = "engine" => r \in Streams /\ ~asked[r] /\ asked'[r]
  PROVE  Safe'
<1>1. /\ sess[r] \in Sessions
      /\ rows \in [Sessions -> Row]
      /\ pc \in [Requests -> {Idle} \cup Active \cup Ended]
      /\ asked \in [Requests -> BOOLEAN]
      /\ orm \in [Requests -> [fresh: BOOLEAN, count: Nat]]
      /\ messages \subseteq Message
  BY DEF Typed, TypeOK, Named, Idle
<1>2. rows' = [rows EXCEPT ![sess[r]] = RowAfter(r, rows[sess[r]])]
      /\ messages' = messages \cup Pending(r)
  BY DEF Store
<1>3. \A m \in Pending(r) : /\ m.req = r /\ m.sess = sess[r]
                             /\ m.role \in Roles(r)
  BY DEF Pending, NewMessage
<1>4. pc' = [pc EXCEPT ![r] = to] /\ orm' = [orm EXCEPT ![r] = NoObject]
  BY DEF EndTxn
<1>5. NotYetStored'
  <2> SUFFICES ASSUME NEW q \in Requests, pc'[q] \in Before,
                      NEW m \in messages', m.req = q
               PROVE  q \in Streams /\ asked'[q] /\ m.role = "user"
    BY DEF NotYetStored
  <2>1. CASE q # r
    <3>1. pc[q] \in Before /\ m \in messages /\ asked'[q] = asked[q]
      BY <1>1, <1>2, <1>3, <1>4, <2>1
    <3> QED
      BY <3>1 DEF Safe, NotYetStored
  <2>2. CASE q = r
    <3>1. to = "engine"
      BY <1>1, <1>4, <2>2 DEF Before, Idle
    <3>2. r \in Streams /\ ~asked[r] /\ asked'[r]
      BY <3>1
    <3>3. Roles(r) = {"user"}
      BY <3>2, ChatSessionsAssumption DEF Roles
    <3>4. m \notin messages
      BY <2>2, <3>2 DEF Safe, NotYetStored, Before
    <3> QED
      BY <1>2, <1>3, <2>2, <3>2, <3>3, <3>4
  <2> QED
    BY <2>1, <2>2
<1>6. MessagesHaveSession'
  <2>1. \A s \in Sessions : rows[s].exists \/ s = sess[r] => rows'[s].exists
    BY <1>1, <1>2 DEF RowAfter, Row
  <2> QED
    BY <1>1, <1>2, <1>3, <2>1 DEF Safe, MessagesHaveSession, Message
<1>7. ChatAllOrNothing'
  <2> SUFFICES ASSUME NEW q \in Chats
               PROVE  Stored(q, "user")' <=> Stored(q, "assistant")'
    BY DEF ChatAllOrNothing
  <2>1. CASE q # r
    <3>1. \A role : Stored(q, role)' <=> Stored(q, role)
      BY <1>2, <1>3, <2>1 DEF Stored
    <3> QED
      BY <3>1 DEF Safe, ChatAllOrNothing
  <2>2. CASE q = r
    <3>1. Roles(r) = {"user", "assistant"}
      BY <2>2 DEF Roles
    <3>2. \A role \in Roles(r) : NewMessage(r, role) \in messages'
      BY <1>2 DEF Pending
    <3>3. \A role : NewMessage(r, role).req = r /\ NewMessage(r, role).role = role
      BY DEF NewMessage
    <3> QED
      BY <2>2, <3>1, <3>2, <3>3 DEF Stored
  <2> QED
    BY <2>1, <2>2
<1>8. ASSUME NEW s \in Sessions
      PROVE  /\ Cardinality(MessagesOf(s)) \in Nat
             /\ Cardinality(MessagesOf(s)') =
                  IF s = sess[r] THEN Cardinality(MessagesOf(s)) + Cardinality(Roles(r))
                  ELSE Cardinality(MessagesOf(s))
  BY MessagesOfFinite, StoreCounts DEF Safe, Typed
<1>9. Cardinality(Roles(r)) \in Nat
  BY PendingCount
<1>10. CountNotAboveMessages'
  <2> SUFFICES ASSUME NEW s \in Sessions
               PROVE  rows'[s].count <= Cardinality(MessagesOf(s)')
    BY DEF CountNotAboveMessages, MessagesOf
  <2>1. CASE s = sess[r]
    <3>1. orm[r].count <= Cardinality(MessagesOf(s)) /\ orm[r].count \in Nat
      BY <1>1, <2>1 DEF Safe, ReadCountNotAbove, InTxn
    <3>2. rows'[s].count = orm[r].count + Cardinality(Roles(r))
      BY <1>1, <1>2, <2>1 DEF RowAfter, CountAfter, Row
    <3> QED
      BY <1>8, <1>9, <2>1, <3>1, <3>2
  <2>2. CASE s # sess[r]
    BY <1>1, <1>2, <1>8, <2>2 DEF Safe, CountNotAboveMessages
  <2> QED
    BY <2>1, <2>2
<1>11. ReadCountNotAbove'
  <2> SUFFICES ASSUME NEW q \in Requests, pc'[q] \in InTxn
               PROVE  orm'[q].count <= Cardinality(MessagesOf(sess[q])')
    BY DEF ReadCountNotAbove, MessagesOf
  <2>1. q # r /\ pc[q] \in InTxn /\ orm'[q] = orm[q]
    BY <1>1, <1>4 DEF InTxn
  <2>2. sess[q] \in Sessions /\ orm[q].count \in Nat
    BY <1>1, <2>1 DEF Typed, Named, InTxn, Idle
  <2>3. orm[q].count <= Cardinality(MessagesOf(sess[q]))
    BY <2>1 DEF Safe, ReadCountNotAbove
  <2> QED
    BY <1>8, <1>9, <2>1, <2>2, <2>3
<1> QED
  BY <1>5, <1>6, <1>7, <1>10, <1>11 DEF Safe

(* The step of Select: the count that is read is the committed one. *)
LEMMA SelectStep ==
  ASSUME Typed, Safe, NEW r \in Requests, Select(r)
  PROVE  Safe'
<1>1. /\ messages' = messages /\ rows' = rows /\ asked' = asked /\ sess' = sess
      /\ pc \in [Requests -> {Idle} \cup Active \cup Ended]
      /\ pc[r] = "select" /\ pc' = [pc EXCEPT ![r] = "flush"]
      /\ orm \in [Requests -> [fresh: BOOLEAN, count: Nat]]
      /\ orm' = [orm EXCEPT ![r] = [fresh |-> ~rows[sess[r]].exists,
                                    count |-> rows[sess[r]].count]]
      /\ sess[r] \in Sessions
  BY DEF Select, requestVars, Typed, TypeOK, Named, Idle
<1>2. \A s : MessagesOf(s)' = MessagesOf(s)
  BY <1>1 DEF MessagesOf
<1>3. NotYetStored'
  BY <1>1 DEF Safe, NotYetStored, Before
<1>4. MessagesHaveSession' /\ ChatAllOrNothing' /\ CountNotAboveMessages'
  BY <1>1, <1>2
  DEF Safe, MessagesHaveSession, ChatAllOrNothing, CountNotAboveMessages, Stored
<1>5. ReadCountNotAbove'
  <2> SUFFICES ASSUME NEW q \in Requests, pc'[q] \in InTxn
               PROVE  orm'[q].count <= Cardinality(MessagesOf(sess[q]))
    BY <1>1, <1>2 DEF ReadCountNotAbove
  <2>1. CASE q = r
    BY <1>1, <2>1 DEF Safe, CountNotAboveMessages
  <2>2. CASE q # r
    BY <1>1, <2>2 DEF Safe, ReadCountNotAbove
  <2> QED
    BY <2>1, <2>2
<1> QED
  BY <1>3, <1>4, <1>5 DEF Safe

LEMMA SafeNext == Typed /\ Safe /\ [Next]_vars => Safe'
<1> SUFFICES ASSUME Typed, Safe, [Next]_vars PROVE Safe'
  OBVIOUS
<1>0. /\ pc \in [Requests -> {Idle} \cup Active \cup Ended]
      /\ lock \in [Sessions -> Requests \cup {Nobody}]
      /\ rows \in [Sessions -> Row]
      /\ messages \subseteq Message
      /\ asked \in [Requests -> BOOLEAN]
      /\ orm \in [Requests -> [fresh: BOOLEAN, count: Nat]]
      /\ sess \in [Requests -> Sessions \cup {Nowhere}]
  BY DEF Typed, TypeOK
<1> USE DEF Before, InTxn, Idle
<1>1. ASSUME NEW r \in Requests, NEW s \in Sessions, Start(r, s) PROVE Safe'
  BY <1>0, <1>1, QuietStep DEF Start
<1>2. ASSUME NEW r \in Requests, BuildContext(r) PROVE Safe'
  BY <1>0, <1>2, QuietStep DEF BuildContext, requestVars, txnVars
<1>3. ASSUME NEW r \in Requests, EngineReply(r) PROVE Safe'
  BY <1>0, <1>3, QuietStep DEF EngineReply, requestVars, txnVars
<1>4. ASSUME NEW r \in Requests, Select(r) PROVE Safe'
  BY <1>4, SelectStep
<1>5. ASSUME NEW r \in Requests, Flush(r) PROVE Safe'
  BY <1>0, <1>5, QuietStep DEF Flush, requestVars, txnVars
<1>6. ASSUME NEW r \in Requests, NEW to \in {"failed", "gone"}, EndTxn(r, to),
             UNCHANGED <<rows, messages, requestVars>>
      PROVE  Safe'
  BY <1>0, <1>6, QuietStep DEF EndTxn, requestVars
<1>7. ASSUME NEW r \in Requests, Commit(r) PROVE Safe'
  <2> DEFINE to == IF r \in Streams /\ ~asked[r] THEN "engine" ELSE "closing"
  <2>1. /\ pc[r] = "commit" /\ Store(r) /\ EndTxn(r, to) /\ sess' = sess
        /\ asked' = [asked EXCEPT ![r] = TRUE]
    BY <1>7 DEF Commit
  <2>2. to = "engine" => r \in Streams /\ ~asked[r] /\ asked'[r]
    BY <1>0, <2>1
  <2>3. to \in {"engine", "closing", "failed"}
    OBVIOUS
  <2> HIDE DEF to
  <2> QED
    BY <2>1, <2>2, <2>3, StoreStep
<1>8. ASSUME NEW r \in Requests, CommitUnacknowledged(r) PROVE Safe'
  BY <1>8, StoreStep DEF CommitUnacknowledged, requestVars
<1>9. ASSUME NEW r \in Requests, Finish(r) PROVE Safe'
  BY <1>0, <1>9, QuietStep DEF Finish, requestVars, txnVars
<1>10. CASE Crash
  BY <1>0, <1>10, QuietStep DEF Crash, Active, requestVars
<1>11. ASSUME NEW s \in Sessions, CreateSession(s) PROVE Safe'
  BY <1>0, <1>11, QuietStep DEF CreateSession, requestVars, txnVars, Row
<1>12. ASSUME NEW s \in Sessions, DeleteSession(s) PROVE Safe'
  BY <1>0, <1>12, QuietStep DEF DeleteSession, requestVars, txnVars, Row
<1>13. CASE UNCHANGED vars
  BY <1>0, <1>13, QuietStep DEF vars
<1>14. ASSUME NEW r \in Requests, Conflict(r) \/ Fail(r) \/ Disconnect(r) PROVE Safe'
  BY <1>6, <1>14 DEF Conflict, Fail, Disconnect
<1> QED
  BY <1>1, <1>2, <1>3, <1>4, <1>5, <1>7, <1>8, <1>9, <1>10, <1>11, <1>12,
     <1>13, <1>14 DEF Next, Work, Stop

THEOREM SafeAlways == Spec => [](Typed /\ Safe)
BY TypedInit, TypedNext, SafeInit, SafeNext, PTL DEF Spec

(* A plain chat's two messages are stored together or not at all, for any  *)
(* number of concurrent requests, failures and crashes.                    *)
THEOREM AllOrNothing == Spec => []ChatAllOrNothing
<1>1. Safe => ChatAllOrNothing
  BY DEF Safe
<1> QED
  BY SafeAlways, <1>1, PTL

(* Lost updates only ever make message_count too small. *)
THEOREM CountNotAbove == Spec => []CountNotAboveMessages
<1>1. Safe => CountNotAboveMessages
  BY DEF Safe
<1> QED
  BY SafeAlways, <1>1, PTL

(* No message is stored for a session that has no row. *)
THEOREM NoOrphanMessages == Spec => []MessagesHaveSession
<1>1. Safe => MessagesHaveSession
  BY DEF Safe
<1> QED
  BY SafeAlways, <1>1, PTL

(* A deleted session stays deleted, whatever a chat that had read its row  *)
(* before the deletion writes after it.                                    *)
THEOREM DeletionForEver == Spec => DeletionLasts
<1>1. Typed /\ [Next]_vars
        => [\A s \in Sessions : rows[s].deleted => rows'[s].deleted]_vars
  <2> SUFFICES ASSUME Typed, Next, NEW s \in Sessions, rows[s].deleted
               PROVE  rows'[s].deleted
    BY DEF vars
  <2>1. rows \in [Sessions -> Row]
    BY DEF Typed, TypeOK
  <2>2. ASSUME NEW r \in Requests, Store(r) PROVE rows'[s].deleted
    BY <2>1, <2>2 DEF Store, RowAfter, Row
  <2>3. ASSUME NEW t \in Sessions, CreateSession(t) \/ DeleteSession(t)
        PROVE  rows'[s].deleted
    BY <2>1, <2>3 DEF CreateSession, DeleteSession, Row
  <2>4. CASE rows' = rows
    BY <2>4
  <2> QED
    BY <2>2, <2>3, <2>4
    DEF Next, Start, Work, Stop, BuildContext, EngineReply, Select, Flush,
        Conflict, Commit, Finish, CommitUnacknowledged, Fail, Disconnect, Crash
<1> QED
  BY SafeAlways, <1>1, PTL DEF Spec, DeletionLasts

-----------------------------------------------------------------------------
(* The row locks and the end of a request.                                 *)

(* A row is locked by the one request that has written it and is about to  *)
(* commit, and by no other.                                                *)
RowLocks ==
  \A r \in Requests, s \in Sessions :
    lock[s] = r <=> pc[r] = "commit" /\ sess[r] = s

(* Who waits for a row waits for a request that can commit or roll back,   *)
(* and itself waits for nothing.                                           *)
WaitsForCommit ==
  \A r \in Requests :
    pc[r] = "flush" /\ lock[sess[r]] # Nobody =>
      \E q \in Requests : q # r /\ lock[sess[r]] = q /\ pc[q] = "commit"

LEMMA EndTxnLocks ==
  ASSUME Typed, RowLocks, NEW r \in Requests, NEW to \in Ended \cup {"engine", "closing"},
         EndTxn(r, to), UNCHANGED sess
  PROVE  RowLocks'
<1> SUFFICES ASSUME NEW q \in Requests, NEW s \in Sessions
             PROVE  lock'[s] = q <=> pc'[q] = "commit" /\ sess'[q] = s
  BY DEF RowLocks
<1>1. /\ lock'[s] = IF lock[s] = r THEN Nobody ELSE lock[s]
      /\ pc'[q] = IF q = r THEN to ELSE pc[q]
  BY DEF EndTxn, Unlock, Typed, TypeOK
<1>2. to # "commit"
  BY DEF Ended
<1> QED
  BY <1>1, <1>2, ChatSessionsAssumption DEF RowLocks

LEMMA RowLocksNext == Typed /\ RowLocks /\ [Next]_vars => RowLocks'
<1> SUFFICES ASSUME Typed, RowLocks, [Next]_vars PROVE RowLocks'
  OBVIOUS
<1>0. pc \in [Requests -> {Idle} \cup Active \cup Ended] /\ Nobody \notin Requests
  BY ChatSessionsAssumption DEF Typed, TypeOK
<1>1. ASSUME NEW r \in Requests, NEW s \in Sessions, Start(r, s) PROVE RowLocks'
  <2>1. /\ lock' = lock /\ pc[r] = Idle /\ pc'[r] = "context"
        /\ \A q \in Requests : q # r => pc'[q] = pc[q] /\ sess'[q] = sess[q]
    BY <1>0, <1>1 DEF Start, Typed, TypeOK
  <2> QED
    BY <2>1 DEF RowLocks, Idle
<1>2. ASSUME NEW r \in Requests,
             BuildContext(r) \/ EngineReply(r) \/ Select(r) \/ Finish(r)
      PROVE  RowLocks'
  <2>1. /\ UNCHANGED <<lock, sess>> /\ pc[r] # "commit" /\ pc'[r] # "commit"
        /\ \A q \in Requests : q # r => pc'[q] = pc[q]
    BY <1>0, <1>2 DEF BuildContext, EngineReply, Select, Finish, requestVars
  <2> QED
    BY <2>1 DEF RowLocks
<1>3. ASSUME NEW r \in Requests, Flush(r) PROVE RowLocks'
  <2>1. /\ sess' = sess /\ pc[r] = "flush" /\ lock[sess[r]] = Nobody
        /\ pc' = [pc EXCEPT ![r] = "commit"]
        /\ lock' = [lock EXCEPT ![sess[r]] = r]
        /\ sess[r] \in Sessions /\ lock \in [Sessions -> Requests \cup {Nobody}]
    BY <1>3 DEF Flush, requestVars, Typed, TypeOK, Named, Idle
  <2> SUFFICES ASSUME NEW q \in Requests, NEW s \in Sessions
               PROVE  lock'[s] = q <=> pc'[q] = "commit" /\ sess[q] = s
    BY <2>1 DEF RowLocks
  <2>2. lock[s] = q <=> pc[q] = "commit" /\ sess[q] = s
    BY DEF RowLocks
  <2>3. /\ lock'[s] = IF s = sess[r] THEN r ELSE lock[s]
        /\ pc'[q] = IF q = r THEN "commit" ELSE pc[q]
    BY <1>0, <2>1
  <2> QED
    BY <1>0, <2>1, <2>2, <2>3
<1>4. ASSUME NEW r \in Requests,
             Conflict(r) \/ CommitUnacknowledged(r) \/ Fail(r) \/ Disconnect(r)
      PROVE  RowLocks'
  BY <1>4, EndTxnLocks
  DEF Conflict, CommitUnacknowledged, Fail, Disconnect, requestVars, Ended
<1>5. ASSUME NEW r \in Requests, Commit(r) PROVE RowLocks'
  BY <1>5, EndTxnLocks DEF Commit
<1>6. CASE Crash
  <2>1. /\ sess' = sess /\ \A s \in Sessions : lock'[s] = Nobody
        /\ \A q \in Requests : pc'[q] # "commit"
    BY <1>6 DEF Crash, requestVars, Active, InTxn
  <2> QED
    BY <1>0, <2>1 DEF RowLocks
<1>7. ASSUME NEW s \in Sessions, CreateSession(s) \/ DeleteSession(s) PROVE RowLocks'
  BY <1>7 DEF CreateSession, DeleteSession, requestVars, RowLocks
<1>8. CASE UNCHANGED vars
  BY <1>8 DEF vars, RowLocks
<1> QED
  BY <1>1, <1>2, <1>3, <1>4, <1>5, <1>6, <1>7, <1>8 DEF Next, Work, Stop

(* At most one request is between its flush and its commit on a session,   *)
(* its row is locked exactly for that long, whatever fails or crashes, and *)
(* a request that waits for the row waits for that one.                    *)
THEOREM WritersTakeTurns == Spec => [](RowLocks /\ WaitsForCommit)
<1>1. Init => RowLocks
  BY ChatSessionsAssumption DEF Init, RowLocks, Idle
<1>2. Typed /\ RowLocks => WaitsForCommit
  <2> SUFFICES ASSUME Typed, RowLocks, NEW r \in Requests,
                      pc[r] = "flush", lock[sess[r]] # Nobody
               PROVE  \E q \in Requests : q # r /\ lock[sess[r]] = q /\ pc[q] = "commit"
    BY DEF WaitsForCommit
  <2>1. sess[r] \in Sessions /\ lock[sess[r]] \in Requests
    BY DEF Typed, TypeOK, Named, Idle
  <2> QED
    BY <2>1 DEF RowLocks
<1> QED
  BY <1>1, <1>2, TypedInit, TypedNext, RowLocksNext, PTL DEF Spec

(* The steps a request has left at most: a stream whose question is not    *)
(* stored yet has a second transaction before it, and the engine's answer. *)
StepsLeft(r) ==
  CASE pc[r] = "closing" -> 1
    [] pc[r] = "commit"  -> IF r \in Streams /\ ~asked[r] THEN 6 ELSE 2
    [] pc[r] = "flush"   -> IF r \in Streams /\ ~asked[r] THEN 7 ELSE 3
    [] pc[r] = "select"  -> IF r \in Streams /\ ~asked[r] THEN 8 ELSE 4
    [] pc[r] = "engine"  -> 5
    [] pc[r] = "context" -> 9
    [] pc[r] = Idle      -> 10
    [] OTHER             -> 0

(* A stream is with the engine only once its question is stored. *)
AskedFirst == \A r \in Streams : pc[r] = "engine" => asked[r]

LEMMA AskedFirstNext == Typed /\ AskedFirst /\ [Next]_vars => AskedFirst'
<1> SUFFICES ASSUME Typed, AskedFirst, [Next]_vars, NEW r \in Streams, pc'[r] = "engine"
             PROVE  asked'[r]
  BY DEF AskedFirst
<1>1. /\ r \in Requests /\ r \notin Chats /\ asked \in [Requests -> BOOLEAN]
      /\ pc \in [Requests -> {Idle} \cup Active \cup Ended]
  BY ChatSessionsAssumption DEF Requests, Typed, TypeOK
<1>2. ASSUME NEW q \in Requests, Commit(q) PROVE asked'[r]
  <2>1. CASE q = r
    BY <1>1, <1>2, <2>1 DEF Commit
  <2>2. CASE q # r
    <3>1. pc'[r] = pc[r] /\ asked'[r] = asked[r]
      BY <1>1, <1>2, <2>2 DEF Commit, EndTxn
    <3> QED
      BY <3>1 DEF AskedFirst
  <2> QED
    BY <2>1, <2>2
<1>3. ASSUME asked' = asked, pc'[r] = pc[r] PROVE asked'[r]
  BY <1>3 DEF AskedFirst
<1>4. ASSUME NEW q \in Requests, NEW t \in Sessions, Start(q, t) PROVE asked'[r]
  BY <1>1, <1>3, <1>4 DEF Start
<1>5. ASSUME NEW q \in Requests,
             \/ BuildContext(q) \/ EngineReply(q) \/ Select(q) \/ Flush(q) \/ Finish(q)
             \/ Conflict(q) \/ CommitUnacknowledged(q) \/ Fail(q) \/ Disconnect(q)
      PROVE  asked'[r]
  BY <1>1, <1>3, <1>5
  DEF BuildContext, EngineReply, Select, Flush, Finish, Conflict,
      CommitUnacknowledged, Fail, Disconnect, EndTxn, requestVars
<1>6. CASE Crash
  BY <1>1, <1>3, <1>6 DEF Crash, requestVars
<1>7. ASSUME NEW t \in Sessions, CreateSession(t) \/ DeleteSession(t) PROVE asked'[r]
  BY <1>3, <1>7 DEF CreateSession, DeleteSession, requestVars
<1>8. CASE UNCHANGED vars
  BY <1>3, <1>8 DEF vars
<1> QED
  BY <1>2, <1>4, <1>5, <1>6, <1>7, <1>8 DEF Next, Work, Stop

LEMMA StepsLeftNat ==
  ASSUME Typed, NEW r \in Requests
  PROVE  StepsLeft(r) \in Nat /\ (StepsLeft(r) = 0 <=> pc[r] \in Ended)
BY DEF StepsLeft, Typed, TypeOK, Active, InTxn, Ended, Idle

(* A request that ends has nothing left. *)
LEMMA EndingLowers ==
  ASSUME Typed, NEW r \in Requests, pc[r] \in Active, pc'[r] \in Ended
  PROVE  StepsLeft(r)' < StepsLeft(r)
<1>1. StepsLeft(r)' = 0
  BY DEF StepsLeft, Ended, Idle
<1>2. StepsLeft(r) \in Nat /\ StepsLeft(r) # 0
  BY StepsLeftNat DEF Active, InTxn, Ended
<1> QED
  BY <1>1, <1>2

(* The steps of a request that do not end it. *)
LEMMA WorkLowers ==
  ASSUME Typed, AskedFirst, NEW r \in Requests,
         \/ \E s \in Sessions : Start(r, s)
         \/ BuildContext(r) \/ EngineReply(r) \/ Select(r) \/ Flush(r) \/ Commit(r)
  PROVE  /\ StepsLeft(r)' < StepsLeft(r)
         /\ \A q \in Requests : q # r => pc'[q] = pc[q]
<1>1. /\ pc \in [Requests -> {Idle} \cup Active \cup Ended]
      /\ asked \in [Requests -> BOOLEAN]
  BY DEF Typed, TypeOK
<1>2. CASE \E s \in Sessions : Start(r, s)
  BY <1>1, <1>2 DEF Start, StepsLeft, Idle
<1>3. CASE BuildContext(r)
  <2>1. asked' = asked
    BY <1>3 DEF BuildContext, requestVars
  <2> QED
    BY <1>1, <1>3, <2>1 DEF BuildContext, StepsLeft, Idle
<1>4. CASE EngineReply(r)
  <2>1. asked' = asked /\ (r \in Streams => asked[r])
    BY <1>4 DEF EngineReply, requestVars, AskedFirst
  <2> QED
    BY <1>1, <1>4, <2>1 DEF EngineReply, StepsLeft, Idle
<1>5. CASE Select(r)
  <2>1. asked' = asked
    BY <1>5 DEF Select, requestVars
  <2> QED
    BY <1>1, <1>5, <2>1 DEF Select, StepsLeft, Idle
<1>6. CASE Flush(r)
  <2>1. asked' = asked
    BY <1>6 DEF Flush, requestVars
  <2> QED
    BY <1>1, <1>6, <2>1 DEF Flush, StepsLeft, Idle
<1>7. CASE Commit(r)
  <2>1. pc[r] = "commit" /\ EndTxn(r, IF r \in Streams /\ ~asked[r] THEN "engine" ELSE "closing")
    BY <1>7 DEF Commit
  <2> QED
    BY <1>1, <2>1 DEF EndTxn, StepsLeft, Idle
<1> QED
  BY <1>2, <1>3, <1>4, <1>5, <1>6, <1>7

(* The steps that end a request. *)
LEMMA EndLowers ==
  ASSUME Typed, NEW r \in Requests,
         \/ Finish(r) \/ Conflict(r) \/ CommitUnacknowledged(r)
         \/ Fail(r) \/ Disconnect(r)
  PROVE  /\ StepsLeft(r)' < StepsLeft(r)
         /\ \A q \in Requests : q # r => pc'[q] = pc[q]
<1>1. pc \in [Requests -> {Idle} \cup Active \cup Ended]
  BY DEF Typed, TypeOK
<1>2. pc[r] \in Active /\ pc'[r] \in Ended /\ \A q \in Requests : q # r => pc'[q] = pc[q]
  BY <1>1 DEF Finish, Conflict, CommitUnacknowledged, Fail, Disconnect, EndTxn,
              Active, InTxn, Ended
<1> QED
  BY <1>2, EndingLowers

(* The steps a request has left are none exactly when it has ended, and    *)
(* each of its steps leaves fewer: it runs each of its transactions once,  *)
(* and nothing that another request, a conflict or a crash does makes it   *)
(* start one again.                                                        *)
THEOREM RequestsAdvance ==
  Spec => /\ [](\A r \in Requests :
                  StepsLeft(r) \in Nat /\ (StepsLeft(r) = 0 <=> pc[r] \in Ended))
          /\ [][\A r \in Requests :
                  pc'[r] = pc[r] \/ StepsLeft(r)' < StepsLeft(r)]_vars
<1>1. Init => AskedFirst
  BY DEF Init, AskedFirst, Idle, Requests
<1>2. Typed => \A r \in Requests :
                 StepsLeft(r) \in Nat /\ (StepsLeft(r) = 0 <=> pc[r] \in Ended)
  BY StepsLeftNat
<1>3. Typed /\ AskedFirst /\ [Next]_vars =>
        [\A r \in Requests : pc'[r] = pc[r] \/ StepsLeft(r)' < StepsLeft(r)]_vars
  <2> SUFFICES ASSUME Typed, AskedFirst, Next, NEW r \in Requests
               PROVE  pc'[r] = pc[r] \/ StepsLeft(r)' < StepsLeft(r)
    OBVIOUS
  <2>1. ASSUME NEW q \in Requests,
               \/ \E s \in Sessions : Start(q, s)
               \/ Work(q) \/ Stop(q)
        PROVE  pc'[r] = pc[r] \/ StepsLeft(r)' < StepsLeft(r)
    BY <2>1, WorkLowers, EndLowers DEF Work, Stop
  <2>2. CASE Crash
    <3>1. pc'[r] = IF pc[r] \in Active THEN "gone" ELSE pc[r]
      BY <2>2 DEF Crash
    <3> QED
      BY <3>1, EndingLowers DEF Ended
  <2>3. ASSUME NEW s \in Sessions, CreateSession(s) \/ DeleteSession(s)
        PROVE  pc'[r] = pc[r]
    BY <2>3 DEF CreateSession, DeleteSession
  <2> QED
    BY <2>1, <2>2, <2>3 DEF Next
<1> QED
  BY <1>1, <1>2, <1>3, AskedFirstNext, TypedInit, TypedNext, PTL DEF Spec

-----------------------------------------------------------------------------
(* The prompts.                                                            *)

(* A message of a chat has its counterpart beside it.                      *)
TurnsTogether ==
  \A m \in messages : m.req \in Chats =>
    \E n \in messages :
      n.req = m.req /\ n.role # m.role /\ n.sess = m.sess /\ n.at = m.at

(* A request that has no prompt yet has committed nothing.                 *)
Unasked == \A r \in Requests : pc[r] \in {Idle, "context"} => ~asked[r]

Shows == TurnsTogether /\ Unasked /\ PromptShowsHistory

(* The budget's cut of a window is a cut of the whole session.             *)
LEMMA CutsCompose ==
  ASSUME NEW s, NEW w \in RecentWindows(s), NEW kept \in Newest(w)
  PROVE  kept \in Newest(MessagesOf(s))
BY DEF RecentWindows, Newest

(* What is left of a session cuts a turn only at its oldest end.           *)
LEMMA CutShowsTurns ==
  ASSUME TurnsTogether, NEW s, NEW w \in Newest(MessagesOf(s)),
         NEW m \in w, m.req \in Chats,
         ~(\E n \in w : n.req = m.req /\ n.role # m.role)
  PROVE  \A n \in w : m.at <= n.at
<1>1. m \in messages /\ m.sess = s /\ w \subseteq MessagesOf(s)
  BY DEF Newest, MessagesOf
<1>2. PICK n \in messages :
        n.req = m.req /\ n.role # m.role /\ n.sess = m.sess /\ n.at = m.at
  BY <1>1 DEF TurnsTogether
<1>3. n \in MessagesOf(s) \ w
  BY <1>1, <1>2 DEF MessagesOf
<1> QED
  BY <1>2, <1>3 DEF Newest

LEMMA ShowsInit == Init => Shows
BY DEF Init, Shows, TurnsTogether, Unasked, PromptShowsHistory,
       PromptShowsWholeTurns, PromptWithoutOwnQuestion

(* A step that stores nothing and shows no new prompt. *)
LEMMA QuietShows ==
  ASSUME Shows, messages' = messages,
         \A r \in Requests : prompt'[r] \in {prompt[r], {}},
         \A r \in Requests : pc'[r] \in {Idle, "context"} =>
           pc[r] \in {Idle, "context"} /\ asked'[r] = asked[r]
  PROVE  Shows'
<1>1. TurnsTogether'
  BY DEF Shows, TurnsTogether
<1>2. Unasked'
  BY DEF Shows, Unasked
<1>3. PromptShowsWholeTurns'
  <2> SUFFICES ASSUME NEW r \in Requests, NEW m \in prompt'[r], m.req \in Chats,
                      ~(\E n \in prompt'[r] : n.req = m.req /\ n.role # m.role)
               PROVE  \A n \in prompt'[r] : m.at <= n.at
    BY DEF PromptShowsWholeTurns
  <2>1. prompt'[r] = prompt[r]
    OBVIOUS
  <2> QED
    BY <2>1 DEF Shows, PromptShowsHistory, PromptShowsWholeTurns
<1>4. PromptWithoutOwnQuestion'
  BY DEF Shows, PromptShowsHistory, PromptWithoutOwnQuestion
<1> QED
  BY <1>1, <1>2, <1>3, <1>4 DEF Shows, PromptShowsHistory

(* A commit adds whole turns of chats. *)
LEMMA StoreShows ==
  ASSUME Typed, Shows, NEW r \in Requests, Store(r),
         \A q \in Requests : prompt'[q] \in {prompt[q], {}},
         \A q \in Requests : pc'[q] \in {Idle, "context"} =>
           pc[q] \in {Idle, "context"} /\ asked'[q] = asked[q]
  PROVE  Shows'
<1>1. messages' = messages \cup Pending(r)
  BY DEF Store
<1>2. TurnsTogether'
  <2> SUFFICES ASSUME NEW m \in messages', m.req \in Chats
               PROVE  \E n \in messages' :
                        n.req = m.req /\ n.role # m.role /\ n.sess = m.sess /\ n.at = m.at
    BY DEF TurnsTogether
  <2>1. CASE m \in messages
    BY <1>1, <2>1 DEF Shows, TurnsTogether
  <2>2. CASE m \in Pending(r)
    <3>1. PICK role \in Roles(r) : m = NewMessage(r, role)
      BY <2>2 DEF Pending
    <3>2. m.req = r /\ m.role = role /\ m.sess = sess[r] /\ m.at = began[r]
      BY <3>1 DEF NewMessage
    <3>3. Roles(r) = {"user", "assistant"}
      BY <3>2 DEF Roles
    <3>4. PICK other \in Roles(r) : other # role
      BY <3>3
    <3>5. NewMessage(r, other) \in messages'
      BY <1>1 DEF Pending
    <3>6. /\ NewMessage(r, other).req = r /\ NewMessage(r, other).role = other
          /\ NewMessage(r, other).sess = sess[r] /\ NewMessage(r, other).at = began[r]
      BY DEF NewMessage
    <3> QED
      BY <3>2, <3>4, <3>5, <3>6
  <2> QED
    BY <1>1, <2>1, <2>2
<1>3. Unasked'
  BY DEF Shows, Unasked
<1>4. PromptShowsWholeTurns'
  <2> SUFFICES ASSUME NEW q \in Requests, NEW m \in prompt'[q], m.req \in Chats,
                      ~(\E n \in prompt'[q] : n.req = m.req /\ n.role # m.role)
               PROVE  \A n \in prompt'[q] : m.at <= n.at
    BY DEF PromptShowsWholeTurns
  <2>1. prompt'[q] = prompt[q]
    OBVIOUS
  <2> QED
    BY <2>1 DEF Shows, PromptShowsHistory, PromptShowsWholeTurns
<1>5. PromptWithoutOwnQuestion'
  BY DEF Shows, PromptShowsHistory, PromptWithoutOwnQuestion
<1> QED
  BY <1>2, <1>3, <1>4, <1>5 DEF Shows, PromptShowsHistory

(* The prompt is built before anything of the request is stored. *)
LEMMA BuildShows ==
  ASSUME Typed, Safe, Shows, NEW r \in Requests, BuildContext(r)
  PROVE  Shows'
<1>1. PICK w \in Newest(MessagesOf(sess[r])) : prompt' = [prompt EXCEPT ![r] = w]
  BY CutsCompose DEF BuildContext
<1>2. /\ messages' = messages /\ asked' = asked /\ pc[r] = "context"
      /\ \A q \in Requests : pc'[q] \in {Idle, "context"} => pc[q] = pc'[q]
      /\ \A q \in Requests : prompt'[q] = IF q = r THEN w ELSE prompt[q]
  BY <1>1 DEF BuildContext, requestVars, Typed, TypeOK, Idle
<1>3. TurnsTogether' /\ Unasked'
  BY <1>2 DEF Shows, TurnsTogether, Unasked
<1>4. PromptShowsWholeTurns'
  <2> SUFFICES ASSUME NEW q \in Requests, NEW m \in prompt'[q], m.req \in Chats,
                      ~(\E n \in prompt'[q] : n.req = m.req /\ n.role # m.role)
               PROVE  \A n \in prompt'[q] : m.at <= n.at
    BY DEF PromptShowsWholeTurns
  <2>1. CASE q = r
    <3>1. prompt'[q] = w
      BY <1>2, <2>1
    <3> QED
      BY <3>1, CutShowsTurns DEF Shows
  <2>2. CASE q # r
    <3>1. prompt'[q] = prompt[q]
      BY <1>2, <2>2
    <3> QED
      BY <3>1 DEF Shows, PromptShowsHistory, PromptShowsWholeTurns
  <2> QED
    BY <2>1, <2>2
<1>5. PromptWithoutOwnQuestion'
  <2>1. \A m \in w : m.req # r
    <3>1. ~asked[r]
      BY <1>2 DEF Shows, Unasked
    <3> QED
      BY <1>2, <3>1 DEF Newest, MessagesOf, Safe, NotYetStored, Before
  <2> QED
    BY <1>2, <2>1 DEF Shows, PromptShowsHistory, PromptWithoutOwnQuestion
<1> QED
  BY <1>3, <1>4, <1>5 DEF Shows, PromptShowsHistory

LEMMA ShowsNext == Typed /\ Safe /\ Shows /\ [Next]_vars => Shows'
<1> SUFFICES ASSUME Typed, Safe, Shows, [Next]_vars PROVE Shows'
  OBVIOUS
<1>0. /\ pc \in [Requests -> {Idle} \cup Active \cup Ended]
      /\ asked \in [Requests -> BOOLEAN]
      /\ prompt \in [Requests -> SUBSET Message]
  BY DEF Typed, TypeOK
<1> USE DEF Idle
<1>1. ASSUME NEW r \in Requests, NEW s \in Sessions, Start(r, s) PROVE Shows'
  BY <1>0, <1>1, QuietShows DEF Start
<1>2. ASSUME NEW r \in Requests, BuildContext(r) PROVE Shows'
  BY <1>2, BuildShows
<1>3. ASSUME NEW r \in Requests, EngineReply(r) \/ Select(r) \/ Flush(r) \/ Finish(r)
      PROVE  Shows'
  BY <1>0, <1>3, QuietShows
  DEF EngineReply, Select, Flush, Finish, requestVars, txnVars
<1>4. ASSUME NEW r \in Requests, Conflict(r) \/ Fail(r) \/ Disconnect(r) PROVE Shows'
  BY <1>0, <1>4, QuietShows DEF Conflict, Fail, Disconnect, EndTxn, requestVars
<1>5. ASSUME NEW r \in Requests, Commit(r) PROVE Shows'
  BY <1>0, <1>5, StoreShows DEF Commit, EndTxn
<1>6. ASSUME NEW r \in Requests, CommitUnacknowledged(r) PROVE Shows'
  BY <1>0, <1>6, StoreShows DEF CommitUnacknowledged, EndTxn, requestVars
<1>7. CASE Crash
  BY <1>0, <1>7, QuietShows DEF Crash, requestVars
<1>8. ASSUME NEW s \in Sessions, CreateSession(s) \/ DeleteSession(s) PROVE Shows'
  BY <1>0, <1>8, QuietShows DEF CreateSession, DeleteSession, requestVars, txnVars
<1>9. CASE UNCHANGED vars
  BY <1>0, <1>9, QuietShows DEF vars
<1> QED
  BY <1>1, <1>2, <1>3, <1>4, <1>5, <1>6, <1>7, <1>8, <1>9 DEF Next, Work, Stop

(* Whatever requests, failures and commits come in between, the history a  *)
(* request sends shows whole turns of plain chats, but for the oldest one  *)
(* shown, and nothing of the request itself, wherever the limit or the     *)
(* token budget cuts.                                                      *)
THEOREM HistoryShown == Spec => []PromptShowsHistory
<1>1. Spec => []Shows
  BY SafeAlways, ShowsInit, ShowsNext, PTL DEF Spec
<1>2. Shows => PromptShowsHistory
  BY DEF Shows
<1> QED
  BY <1>1, <1>2, PTL

-----------------------------------------------------------------------------
(* ChatSessions implements Transcript: its transactions, row locks, lost   *)
(* connections and crashes leave a conversation in which every turn is     *)
(* stored as Transcript says.                                              *)

(* What a request relies on having stored: a stream past its first         *)
(* transaction its question, in its session; a request about to answer     *)
(* both its messages.                                                      *)
StoredSoFar ==
  \A r \in Requests :
    /\ asked[r] => pc[r] # Idle
    /\ asked[r] /\ r \in Streams =>
         \E m \in messages : m.req = r /\ m.role = "user" /\ m.sess = sess[r]
    /\ pc[r] = "closing" => Stored(r, "user") /\ Stored(r, "assistant")

(* A step that stores nothing and leaves sess and asked alone. *)
LEMMA StoredSoFarQuiet ==
  ASSUME StoredSoFar, messages' = messages, asked' = asked,
         \A r \in Requests : /\ asked[r] => sess'[r] = sess[r]
                             /\ pc'[r] = Idle => pc[r] = Idle
                             /\ pc'[r] = "closing" => pc[r] = "closing"
  PROVE  StoredSoFar'
BY DEF StoredSoFar, Stored

(* The messages of a transaction are there once it has committed. *)
LEMMA StoredAfter ==
  ASSUME NEW r, Store(r), NEW role \in Roles(r)
  PROVE  \E m \in messages' : m.req = r /\ m.role = role /\ m.sess = sess[r]
<1>1. NewMessage(r, role) \in messages'
  BY DEF Store, Pending
<1> QED
  BY <1>1 DEF NewMessage

LEMMA StoredSoFarCommit ==
  ASSUME Typed, Safe, StoredSoFar, NEW r \in Requests, Commit(r)
  PROVE  StoredSoFar'
<1>1. /\ Store(r) /\ sess' = sess /\ messages \subseteq messages'
      /\ asked' = [asked EXCEPT ![r] = TRUE] /\ asked \in [Requests -> BOOLEAN]
      /\ pc[r] = "commit" /\ pc \in [Requests -> {Idle} \cup Active \cup Ended]
      /\ pc' = [pc EXCEPT ![r] = IF r \in Streams /\ ~asked[r] THEN "engine" ELSE "closing"]
  BY DEF Commit, Store, EndTxn, Typed, TypeOK
<1>2. ASSUME NEW q \in Requests, q # r
      PROVE  /\ asked'[q] = asked[q] /\ pc'[q] = pc[q] /\ sess'[q] = sess[q]
             /\ \A role : Stored(q, role) => Stored(q, role)'
  BY <1>1, <1>2 DEF Stored
<1>3. CASE r \in Chats
  <2>1. Roles(r) = {"user", "assistant"} /\ r \notin Streams
    BY <1>3, ChatSessionsAssumption DEF Roles
  <2>2. Stored(r, "user")' /\ Stored(r, "assistant")'
    BY <1>1, <2>1, StoredAfter DEF Stored
  <2> QED
    BY <1>1, <1>2, <2>1, <2>2 DEF StoredSoFar, Idle
<1>4. CASE r \in Streams /\ ~asked[r]
  <2>1. Roles(r) = {"user"}
    BY <1>4, ChatSessionsAssumption DEF Roles
  <2>2. \E m \in messages' : m.req = r /\ m.role = "user" /\ m.sess = sess[r]
    BY <1>1, <2>1, StoredAfter
  <2> QED
    BY <1>1, <1>2, <1>4, <2>2 DEF StoredSoFar, Idle
<1>5. CASE r \in Streams /\ asked[r]
  <2>1. Roles(r) = {"assistant"}
    BY <1>5, ChatSessionsAssumption DEF Roles
  <2>2. \E m \in messages' : m.req = r /\ m.role = "user" /\ m.sess = sess[r]
    BY <1>1, <1>5 DEF StoredSoFar
  <2>3. Stored(r, "user")' /\ Stored(r, "assistant")'
    BY <1>1, <2>1, <2>2, StoredAfter DEF Stored
  <2> QED
    BY <1>1, <1>2, <1>5, <2>2, <2>3 DEF StoredSoFar, Idle
<1> QED
  BY <1>3, <1>4, <1>5 DEF Requests

LEMMA StoredSoFarNext == Typed /\ Safe /\ StoredSoFar /\ [Next]_vars => StoredSoFar'
<1> SUFFICES ASSUME Typed, Safe, StoredSoFar, [Next]_vars PROVE StoredSoFar'
  OBVIOUS
<1>0. /\ pc \in [Requests -> {Idle} \cup Active \cup Ended]
      /\ sess \in [Requests -> Sessions \cup {Nowhere}]
      /\ asked \in [Requests -> BOOLEAN]
  BY DEF Typed, TypeOK
<1> USE DEF Idle
<1>1. ASSUME NEW r \in Requests, NEW s \in Sessions, Start(r, s) PROVE StoredSoFar'
  <2>1. ~asked[r]
    BY <1>1 DEF Start, StoredSoFar
  <2> QED
    BY <1>0, <1>1, <2>1, StoredSoFarQuiet DEF Start
<1>2. ASSUME NEW r \in Requests, Commit(r) PROVE StoredSoFar'
  BY <1>2, StoredSoFarCommit
<1>3. ASSUME NEW r \in Requests, CommitUnacknowledged(r) PROVE StoredSoFar'
  <2>1. /\ messages \subseteq messages' /\ asked' = asked /\ sess' = sess
        /\ pc' = [pc EXCEPT ![r] = "failed"]
    BY <1>3 DEF CommitUnacknowledged, Store, EndTxn, requestVars
  <2> QED
    BY <1>0, <2>1 DEF StoredSoFar, Stored
<1>4. ASSUME NEW r \in Requests,
             BuildContext(r) \/ EngineReply(r) \/ Select(r) \/ Flush(r) \/ Finish(r)
      PROVE  StoredSoFar'
  BY <1>0, <1>4, StoredSoFarQuiet
  DEF BuildContext, EngineReply, Select, Flush, Finish, requestVars
<1>5. ASSUME NEW r \in Requests, Conflict(r) \/ Fail(r) \/ Disconnect(r)
      PROVE  StoredSoFar'
  BY <1>0, <1>5, StoredSoFarQuiet DEF Conflict, Fail, Disconnect, EndTxn, requestVars
<1>6. CASE Crash
  BY <1>0, <1>6, StoredSoFarQuiet DEF Crash, requestVars
<1>7. ASSUME NEW s \in Sessions, CreateSession(s) \/ DeleteSession(s)
      PROVE  StoredSoFar'
  BY <1>7, StoredSoFarQuiet DEF CreateSession, DeleteSession, requestVars
<1>8. CASE UNCHANGED vars
  BY <1>8, StoredSoFarQuiet DEF vars
<1> QED
  BY <1>1, <1>2, <1>3, <1>4, <1>5, <1>6, <1>7, <1>8 DEF Next, Work, Stop

LEMMA StoredSoFarInit == Init => StoredSoFar
BY DEF Init, StoredSoFar, Idle

-----------------------------------------------------------------------------
(* The mapping of states and of steps.                                     *)

LEMMA RefinesInit == Init => T!TInit
<1> SUFFICES ASSUME Init PROVE T!TInit
  OBVIOUS
<1>1. Entries = {}
  BY DEF Init, Entries
<1>2. [r \in Requests |-> StateAt(pc[r])] = [r \in Requests |-> "new"]
  BY DEF Init, StateAt
<1> QED
  BY <1>1, <1>2 DEF T!TInit, T!Requests, Requests

(* A request's messages and its entries say the same of it. *)
LEMMA EntriesHas ==
  ASSUME Typed, NEW r \in Requests, NEW role
  PROVE  T!Has(r, role) <=> Stored(r, role)
BY DEF Typed, TypeOK, Message, T!Has, T!Entry, Entries, Stored

(* The entries a commit of r adds. *)
LEMMA EntriesAfter ==
  ASSUME NEW r, Store(r)
  PROVE  Entries' = Entries \cup {T!Entry(sess[r], r, role) : role \in Roles(r)}
<1>1. ASSUME NEW e \in Entries'
      PROVE  e \in Entries \cup {T!Entry(sess[r], r, role) : role \in Roles(r)}
  <2>1. PICK m \in messages' : e = [sess |-> m.sess, req |-> m.req, role |-> m.role]
    BY DEF Entries
  <2>2. CASE m \in messages
    BY <2>1, <2>2 DEF Entries
  <2>3. CASE m \in Pending(r)
    <3>1. PICK role \in Roles(r) : m = NewMessage(r, role)
      BY <2>3 DEF Pending
    <3>2. e = T!Entry(sess[r], r, role)
      BY <2>1, <3>1 DEF NewMessage, T!Entry
    <3> QED
      BY <3>1, <3>2
  <2> QED
    BY <2>2, <2>3 DEF Store
<1>2. ASSUME NEW e \in Entries PROVE e \in Entries'
  BY <1>2 DEF Entries, Store
<1>3. ASSUME NEW role \in Roles(r) PROVE T!Entry(sess[r], r, role) \in Entries'
  <2>1. NewMessage(r, role) \in messages'
    BY <1>3 DEF Store, Pending
  <2> QED
    BY <2>1 DEF Entries, NewMessage, T!Entry
<1> QED
  BY <1>1, <1>2, <1>3

(* The mapped state of the requests, and how it follows pc. *)
State == [q \in Requests |-> StateAt(pc[q])]

LEMMA StateStep ==
  ASSUME NEW r \in Requests, NEW to,
         pc \in [Requests -> {Idle} \cup Active \cup Ended],
         pc' = [pc EXCEPT ![r] = to]
  PROVE  State' = [State EXCEPT ![r] = StateAt(to)]
<1>1. State' = [q \in Requests |-> StateAt(pc'[q])]
  BY DEF State
<1>2. \A q \in Requests : pc'[q] = IF q = r THEN to ELSE pc[q]
  OBVIOUS
<1>3. \A q \in Requests : StateAt(pc'[q]) = IF q = r THEN StateAt(to) ELSE StateAt(pc[q])
  BY <1>2
<1> QED
  BY <1>1, <1>3 DEF State

LEMMA StateAtValues ==
  /\ StateAt(Idle) = "new" /\ StateAt("done") = "answered"
  /\ StateAt("failed") = "lost" /\ StateAt("gone") = "lost"
  /\ \A p \in Active : StateAt(p) = "open"
BY DEF StateAt, Idle, Active, InTxn

(* The steps that Transcript does not see. *)
LEMMA QuietRefines ==
  ASSUME messages' = messages,
         \A q \in Requests : StateAt(pc'[q]) = StateAt(pc[q])
  PROVE  UNCHANGED T!tvars
<1>1. Entries' = Entries
  BY DEF Entries
<1>2. State' = State
  BY DEF State
<1> QED
  BY <1>1, <1>2 DEF T!tvars, State

(* The steps that lose open requests, one or all of them. *)
LEMMA LossRefines ==
  ASSUME messages' = messages,
         \A q \in Requests :
           \/ StateAt(pc'[q]) = StateAt(pc[q])
           \/ StateAt(pc[q]) = "open" /\ StateAt(pc'[q]) = "lost"
  PROVE  T!Lose
<1> DEFINE gone == {q \in Requests : StateAt(pc[q]) = "open" /\ StateAt(pc'[q]) = "lost"}
<1>1. Entries' = Entries
  BY DEF Entries
<1>2. gone \in SUBSET {q \in Requests : State[q] = "open"}
  BY DEF State
<1>3. State' = [q \in Requests |-> IF q \in gone THEN "lost" ELSE State[q]]
  BY DEF State
<1>4. T!Requests = Requests
  BY DEF T!Requests, Requests
<1> HIDE DEF gone
<1> QED
  BY <1>1, <1>2, <1>3, <1>4 DEF T!Lose, State

(* A transaction that commits, whether or not its request lives on. *)
LEMMA StoreRefines ==
  ASSUME Typed, Safe, StoredSoFar, NEW r \in Requests, pc[r] = "commit", Store(r),
         State' \in {State, [State EXCEPT ![r] = "lost"]}
  PROVE  T!StoreTurn(r, sess[r]) \/ T!StoreQuestion(r, sess[r])
           \/ T!StoreReply(r, sess[r])
<1>1. State[r] = "open" /\ T!MayLose(r)
  BY StateAtValues DEF State, T!MayLose, Active, InTxn
<1>2. Entries' = Entries \cup {T!Entry(sess[r], r, role) : role \in Roles(r)}
  BY EntriesAfter
<1>3. \A m \in messages : m.req = r => r \in Streams /\ asked[r] /\ m.role = "user"
  BY DEF Safe, NotYetStored, Before
<1>4. ~T!Has(r, "assistant")
  BY <1>3, EntriesHas DEF Stored
<1>5. ~(r \in Streams /\ asked[r]) => ~T!Has(r, "user")
  BY <1>3, EntriesHas DEF Stored
<1>6. CASE r \in Chats
  <2>1. Roles(r) = {"user", "assistant"} /\ r \notin Streams
    BY <1>6, ChatSessionsAssumption DEF Roles
  <2>2. Entries' = Entries \cup {T!Entry(sess[r], r, "user"), T!Entry(sess[r], r, "assistant")}
    BY <1>2, <2>1
  <2> QED
    BY <1>1, <1>4, <1>5, <1>6, <2>1, <2>2 DEF T!StoreTurn, State
<1>7. CASE r \in Streams /\ ~asked[r]
  <2>1. Roles(r) = {"user"}
    BY <1>7, ChatSessionsAssumption DEF Roles
  <2>2. Entries' = Entries \cup {T!Entry(sess[r], r, "user")}
    BY <1>2, <2>1
  <2> QED
    BY <1>1, <1>4, <1>5, <1>7, <2>2 DEF T!StoreQuestion, State
<1>8. CASE r \in Streams /\ asked[r]
  <2>1. Roles(r) = {"assistant"}
    BY <1>8, ChatSessionsAssumption DEF Roles
  <2>2. Entries' = Entries \cup {T!Entry(sess[r], r, "assistant")}
    BY <1>2, <2>1
  <2>3. T!Entry(sess[r], r, "user") \in Entries
    BY <1>8 DEF StoredSoFar, Entries, T!Entry
  <2> QED
    BY <1>1, <1>4, <1>8, <2>2, <2>3 DEF T!StoreReply, State
<1> QED
  BY <1>6, <1>7, <1>8 DEF Requests

LEMMA StepRefines == Typed /\ Safe /\ StoredSoFar /\ [Next]_vars => [T!TNext]_(T!tvars)
<1> SUFFICES ASSUME Typed, Safe, StoredSoFar, [Next]_vars
             PROVE  T!TNext \/ UNCHANGED T!tvars
  OBVIOUS
<1>0. pc \in [Requests -> {Idle} \cup Active \cup Ended]
  BY DEF Typed, TypeOK
<1>r. T!Requests = Requests
  BY DEF T!Requests, Requests
<1>1. ASSUME NEW r \in Requests, NEW s \in Sessions, Start(r, s) PROVE T!TNext
  <2>1. Entries' = Entries /\ State[r] = "new"
    BY <1>1, StateAtValues DEF Start, Entries, State
  <2>2. State' = [State EXCEPT ![r] = "open"]
    <3>1. pc' = [pc EXCEPT ![r] = "context"]
      BY <1>1 DEF Start
    <3>2. State' = [State EXCEPT ![r] = StateAt("context")]
      BY <1>0, <3>1, StateStep
    <3> QED
      BY <3>2, StateAtValues DEF Active
  <2>3. T!Open(r)
    BY <2>1, <2>2 DEF T!Open, State
  <2> QED
    BY <1>r, <2>3 DEF T!TNext
<1>2. ASSUME NEW r \in Requests, pc[r] = "commit", Store(r), NEW to \in Active \cup {"failed"},
             pc' = [pc EXCEPT ![r] = to]
      PROVE  T!TNext
  <2>1. State' = [State EXCEPT ![r] = StateAt(to)]
    BY <1>0, <1>2, StateStep
  <2>2. State[r] = "open" /\ State = [State EXCEPT ![r] = State[r]]
    BY <1>2, StateAtValues DEF State, Active, InTxn
  <2>3. State' \in {State, [State EXCEPT ![r] = "lost"]}
    BY <2>1, <2>2, StateAtValues
  <2>4. sess[r] \in Sessions
    BY <1>2 DEF Typed, Named, Idle
  <2> QED
    BY <1>2, <1>r, <2>3, <2>4, StoreRefines DEF T!TNext
<1>3. ASSUME NEW r \in Requests, Commit(r) PROVE T!TNext
  BY <1>2, <1>3 DEF Commit, EndTxn, Active
<1>4. ASSUME NEW r \in Requests, CommitUnacknowledged(r) PROVE T!TNext
  BY <1>2, <1>4 DEF CommitUnacknowledged, EndTxn
<1>5. ASSUME NEW r \in Requests, Finish(r) PROVE T!TNext
  <2>1. Entries' = Entries /\ State[r] = "open"
    BY <1>5, StateAtValues DEF Finish, Entries, State, Active
  <2>2. State' = [State EXCEPT ![r] = "answered"]
    <3>1. pc' = [pc EXCEPT ![r] = "done"]
      BY <1>5 DEF Finish
    <3>2. State' = [State EXCEPT ![r] = StateAt("done")]
      BY <1>0, <3>1, StateStep
    <3> QED
      BY <3>2, StateAtValues
  <2>3. T!Has(r, "user") /\ T!Has(r, "assistant")
    BY <1>5, EntriesHas DEF Finish, StoredSoFar
  <2>4. T!Answer(r)
    BY <2>1, <2>2, <2>3 DEF T!Answer, State
  <2> QED
    BY <1>r, <2>4 DEF T!TNext
<1>6. ASSUME NEW r \in Requests,
             BuildContext(r) \/ EngineReply(r) \/ Select(r) \/ Flush(r)
      PROVE  UNCHANGED T!tvars
  <2>1. messages' = messages /\ pc[r] \in Active
    BY <1>6 DEF BuildContext, EngineReply, Select, Flush, Active, InTxn
  <2>2. PICK to \in Active : pc' = [pc EXCEPT ![r] = to]
    BY <1>6 DEF BuildContext, EngineReply, Select, Flush, Active, InTxn
  <2>3. \A q \in Requests : StateAt(pc'[q]) = StateAt(pc[q])
    BY <1>0, <2>1, <2>2, StateAtValues
  <2> QED
    BY <2>1, <2>3, QuietRefines
<1>7. ASSUME NEW r \in Requests, Conflict(r) \/ Fail(r) \/ Disconnect(r) PROVE T!TNext
  <2>1. messages' = messages /\ pc[r] \in Active
    BY <1>7 DEF Conflict, Fail, Disconnect, Active, InTxn
  <2>2. PICK to \in {"failed", "gone"} : pc' = [pc EXCEPT ![r] = to]
    BY <1>7 DEF Conflict, Fail, Disconnect, EndTxn
  <2>3. \A q \in Requests :
          \/ StateAt(pc'[q]) = StateAt(pc[q])
          \/ StateAt(pc[q]) = "open" /\ StateAt(pc'[q]) = "lost"
    BY <1>0, <2>1, <2>2, StateAtValues
  <2> QED
    BY <2>1, <2>3, LossRefines DEF T!TNext
<1>8. CASE Crash
  <2>1. messages' = messages
    BY <1>8 DEF Crash
  <2>2. \A q \in Requests :
          \/ StateAt(pc'[q]) = StateAt(pc[q])
          \/ StateAt(pc[q]) = "open" /\ StateAt(pc'[q]) = "lost"
    BY <1>8, StateAtValues DEF Crash
  <2> QED
    BY <2>1, <2>2, LossRefines DEF T!TNext
<1>9. ASSUME NEW s \in Sessions, CreateSession(s) \/ DeleteSession(s)
      PROVE  UNCHANGED T!tvars
  BY <1>9, QuietRefines DEF CreateSession, DeleteSession
<1>10. CASE UNCHANGED vars
  BY <1>10, QuietRefines DEF vars
<1> QED
  BY <1>1, <1>3, <1>4, <1>5, <1>6, <1>7, <1>8, <1>9, <1>10 DEF Next, Work, Stop

(* Every behaviour of the concurrent requests, with their transactions,    *)
(* failures, disconnections and crashes, is a behaviour of Transcript.     *)
THEOREM Refinement == Spec => ImplementsTranscript
<1>1. Spec => [](Typed /\ Safe /\ StoredSoFar)
  BY TypedInit, TypedNext, SafeInit, SafeNext, StoredSoFarInit, StoredSoFarNext, PTL
  DEF Spec
<1>2. Spec => T!TSpec
  BY <1>1, RefinesInit, StepRefines, PTL DEF Spec, T!TSpec
<1> QED
  BY <1>2 DEF ImplementsTranscript
=============================================================================
