---------------------------- MODULE ChatSessions ----------------------------
(***************************************************************************)
(* Concurrent chat requests over the shared tables "sessions" and          *)
(* "messages" (backend/app/orchestration/chat.py, storage/database.py,     *)
(* api/compat/sessions.py, context/service.py).                            *)
(*                                                                         *)
(* A plain request (ChatOrchestrator.chat) reads the recent messages,      *)
(* calls the AI engine and then stores the question and the reply in one   *)
(* transaction.  A streaming request (chat_stream) stores the question in  *)
(* a transaction of its own before it calls the engine, and the reply in a *)
(* second one when the engine has finished.                                *)
(*                                                                         *)
(* A transaction runs at READ COMMITTED, as the engine is created with no  *)
(* isolation level, and takes three steps of the event loop:               *)
(*   Select   _get_or_create_session reads the session row (no lock) into  *)
(*            an ORM object, and the message and the new count are pending *)
(*   Flush    the pending row is written, by the autoflush of the second   *)
(*            _persist_message or by commit(): the row lock is taken       *)
(*   Commit   the writes become visible and the lock is released.          *)
(* SQLAlchemy writes message_count as the number it computed, and does not *)
(* refresh an object it has already loaded: what Select read is what       *)
(* Commit stores, whatever was committed in between.                       *)
(***************************************************************************)
EXTENDS Naturals, FiniteSets

CONSTANTS
  Chats,        \* plain requests
  Streams,      \* streaming requests
  Sessions,     \* session ids
  Nobody,       \* no request holds the row lock
  Nowhere,      \* the session of a request that has not arrived
  HistoryLimit  \* how many recent messages a prompt holds (20 in the code)

Requests == Chats \cup Streams

ASSUME ChatSessionsAssumption ==
  /\ Chats \cap Streams = {}
  /\ IsFiniteSet(Requests)
  /\ Nobody \notin Requests
  /\ Nowhere \notin Sessions
  /\ HistoryLimit \in Nat \ {0}

VARIABLES
  rows,     \* committed session rows
  messages, \* committed messages
  lock,     \* the request whose open transaction has written the row
  clock,    \* transactions begun, the order of CURRENT_TIMESTAMP
  pc,       \* where each request stands
  sess,     \* the session each request names
  asked,    \* streams: the question's transaction is over
  orm,      \* the ORM object of the request's open transaction
  began,    \* when the open transaction began
  prompt    \* the recent messages the request will send to the engine

vars == <<rows, messages, lock, clock, pc, sess, asked, orm, began, prompt>>
requestVars == <<sess, asked>>
txnVars == <<orm, began>>

Idle     == "idle"
Ended    == {"done", "failed", "gone"}
InTxn    == {"flush", "commit"}
Active   == {"context", "engine", "select", "closing"} \cup InTxn
Row      == [exists: BOOLEAN, deleted: BOOLEAN, count: Nat]
Message  == [sess: Sessions, req: Requests, role: {"user", "assistant"}, at: Nat]
NoObject == [fresh |-> FALSE, count |-> 0]

MessagesOf(s) == {m \in messages : m.sess = s}

Init ==
  /\ rows = [s \in Sessions |-> [exists |-> FALSE, deleted |-> FALSE, count |-> 0]]
  /\ messages = {}
  /\ lock = [s \in Sessions |-> Nobody]
  /\ clock = 0
  /\ pc = [r \in Requests |-> Idle]
  /\ sess = [r \in Requests |-> Nowhere]
  /\ asked = [r \in Requests |-> FALSE]
  /\ orm = [r \in Requests |-> NoObject]
  /\ began = [r \in Requests |-> 0]
  /\ prompt = [r \in Requests |-> {}]

-----------------------------------------------------------------------------
(* The requests.                                                           *)

(* A request arrives and names its session. *)
Start(r, s) ==
  /\ pc[r] = Idle
  /\ pc' = [pc EXCEPT ![r] = "context"]
  /\ sess' = [sess EXCEPT ![r] = s]
  /\ UNCHANGED <<rows, messages, lock, clock, asked, orm, began, prompt>>

(* A buggy variant: any messages of the session, in no order. *)
UnorderedWindows(s) ==
  {w \in SUBSET MessagesOf(s) : Cardinality(w) <= HistoryLimit}

(* What is left of some messages when they are cut at the oldest end.  The *)
(* messages of one transaction have the same created_at, and a cut that    *)
(* falls among them takes any of them.                                     *)
Newest(ms) == {w \in SUBSET ms : \A m \in w, n \in ms \ w : n.at <= m.at}

(* ORDER BY created_at DESC LIMIT n. *)
RecentWindows(s) ==
  {w \in Newest(MessagesOf(s)) :
     \/ Cardinality(w) = HistoryLimit
     \/ Cardinality(w) < HistoryLimit /\ w = MessagesOf(s)}

(* The context bundle, before anything of this request is stored: the      *)
(* window, of which the token budget may leave less, or nothing.           *)
BuildContext(r) ==
  /\ pc[r] = "context"
  /\ \E w \in RecentWindows(sess[r]) : \E kept \in Newest(w) :
       prompt' = [prompt EXCEPT ![r] = kept]
  /\ pc' = [pc EXCEPT ![r] = IF r \in Chats THEN "engine" ELSE "select"]
  /\ UNCHANGED <<rows, messages, lock, clock, requestVars, txnVars>>

(* The engine's last answer, tool rounds included (see ToolLoop). *)
EngineReply(r) ==
  /\ pc[r] = "engine"
  /\ pc' = [pc EXCEPT ![r] = "select"]
  /\ prompt' = [prompt EXCEPT ![r] = {}]
  /\ UNCHANGED <<rows, messages, lock, clock, requestVars, txnVars>>

-----------------------------------------------------------------------------
(* The transactions.                                                       *)

(* Buggy variants: the reply of a chat is never added to the transaction;  *)
(* a question is stored with a reply that has not come.                    *)
RolesQuestionOnly(r) == IF asked[r] THEN {"assistant"} ELSE {"user"}
RolesBoth(r) == {"user", "assistant"}

(* The messages the open transaction of r stores. *)
Roles(r) ==
  IF r \in Chats THEN {"user", "assistant"}
  ELSE IF asked[r] THEN {"assistant"} ELSE {"user"}

NewMessage(r, role) == [sess |-> sess[r], req |-> r, role |-> role, at |-> began[r]]

Pending(r) == {NewMessage(r, role) : role \in Roles(r)}

(* Buggy variants: the count also foresees the reply; the count goes down. *)
CountForesees(r) == orm[r].count + 2
CountDown(r) == orm[r].count - Cardinality(Roles(r))

(* message_count += 1 for each message, on the value that Select read. *)
CountAfter(r) == orm[r].count + Cardinality(Roles(r))

(* Buggy variants: the whole row is saved, deleted_at included; the new    *)
(* session object is never added to the transaction.                       *)
RowSaved(r, row) == [exists |-> TRUE, deleted |-> FALSE, count |-> CountAfter(r)]
RowUpdatedOnly(r, row) == [row EXCEPT !.count = CountAfter(r)]

(* INSERT of a new row, or UPDATE of the columns that changed. *)
RowAfter(r, row) == [row EXCEPT !.exists = TRUE, !.count = CountAfter(r)]

(* A buggy variant: a rollback that keeps the row locked. *)
KeepLock(r) == lock

(* A transaction that ends releases the lock it holds. *)
Unlock(r) == [s \in Sessions |-> IF lock[s] = r THEN Nobody ELSE lock[s]]

(* BEGIN and the SELECT of _get_or_create_session. *)
Select(r) ==
  /\ pc[r] = "select"
  /\ clock' = clock + 1
  /\ began' = [began EXCEPT ![r] = clock + 1]
  /\ orm' = [orm EXCEPT ![r] = [fresh |-> ~rows[sess[r]].exists,
                                count |-> rows[sess[r]].count]]
  /\ pc' = [pc EXCEPT ![r] = "flush"]
  /\ UNCHANGED <<rows, messages, lock, prompt, requestVars>>

(* The row is written once no other open transaction holds it.  A row that *)
(* was absent for Select is inserted.                                      *)
Flush(r) ==
  /\ pc[r] = "flush"
  /\ lock[sess[r]] = Nobody
  /\ orm[r].fresh => ~rows[sess[r]].exists
  /\ lock' = [lock EXCEPT ![sess[r]] = r]
  /\ pc' = [pc EXCEPT ![r] = "commit"]
  /\ UNCHANGED <<rows, messages, clock, prompt, requestVars, txnVars>>

(* The transaction of r is over and the request leaves for "to". *)
EndTxn(r, to) ==
  /\ pc' = [pc EXCEPT ![r] = to]
  /\ lock' = Unlock(r)
  /\ orm' = [orm EXCEPT ![r] = NoObject]
  /\ began' = [began EXCEPT ![r] = 0]

(* Another transaction has inserted the row since Select: IntegrityError,  *)
(* rollback, and the exception ends the request.                           *)
Conflict(r) ==
  /\ pc[r] = "flush"
  /\ lock[sess[r]] = Nobody
  /\ orm[r].fresh /\ rows[sess[r]].exists
  /\ EndTxn(r, "failed")
  /\ prompt' = [prompt EXCEPT ![r] = {}]
  /\ UNCHANGED <<rows, messages, clock, requestVars>>

(* What a COMMIT that reaches the database stores. *)
Store(r) ==
  /\ rows' = [rows EXCEPT ![sess[r]] = RowAfter(r, @)]
  /\ messages' = messages \cup Pending(r)

Commit(r) ==
  /\ pc[r] = "commit"
  /\ Store(r)
  /\ EndTxn(r, IF r \in Streams /\ ~asked[r] THEN "engine" ELSE "closing")
  /\ asked' = [asked EXCEPT ![r] = TRUE]
  /\ UNCHANGED <<clock, sess, prompt>>

(* COMMIT is applied, its acknowledgement is lost: the request fails. *)
CommitUnacknowledged(r) ==
  /\ pc[r] = "commit"
  /\ Store(r)
  /\ EndTxn(r, "failed")
  /\ prompt' = [prompt EXCEPT ![r] = {}]
  /\ UNCHANGED <<clock, requestVars>>

(* The response, or the stream's [DONE], is handed to the client. *)
Finish(r) ==
  /\ pc[r] = "closing"
  /\ pc' = [pc EXCEPT ![r] = "done"]
  /\ UNCHANGED <<rows, messages, lock, clock, prompt, requestVars, txnVars>>

-----------------------------------------------------------------------------
(* What can end a request early.                                           *)

(* An exception: unknown personality, engine error, database error.  The   *)
(* open transaction is rolled back and the exception raised again.         *)
Fail(r) ==
  /\ pc[r] \in Active \ {"closing"}
  /\ EndTxn(r, "failed")
  /\ prompt' = [prompt EXCEPT ![r] = {}]
  /\ UNCHANGED <<rows, messages, clock, requestVars>>

(* The client of a stream leaves: the generator is closed or cancelled at  *)
(* any of its suspension points, and the session's exit rolls back.        *)
Disconnect(r) ==
  /\ r \in Streams /\ pc[r] \in Active
  /\ EndTxn(r, "gone")
  /\ prompt' = [prompt EXCEPT ![r] = {}]
  /\ UNCHANGED <<rows, messages, clock, requestVars>>

(* The process dies: every request in flight is gone and the database      *)
(* rolls every open transaction back.                                      *)
Crash ==
  /\ \E r \in Requests : pc[r] \in Active
  /\ pc' = [r \in Requests |-> IF pc[r] \in Active THEN "gone" ELSE pc[r]]
  /\ lock' = [s \in Sessions |-> Nobody]
  /\ orm' = [r \in Requests |-> NoObject]
  /\ began' = [r \in Requests |-> 0]
  /\ prompt' = [r \in Requests |-> {}]
  /\ UNCHANGED <<rows, messages, clock, requestVars>>

-----------------------------------------------------------------------------
(* The session endpoints: one statement each, and one commit.              *)

(* A session created by its endpoint has an id no request has named yet. *)
CreateSession(s) ==
  /\ ~rows[s].exists
  /\ \A r \in Requests : sess[r] # s
  /\ rows' = [rows EXCEPT ![s].exists = TRUE]
  /\ UNCHANGED <<messages, lock, clock, pc, prompt, requestVars, txnVars>>

(* The soft delete, which waits for the row like any other UPDATE. *)
DeleteSession(s) ==
  /\ rows[s].exists /\ ~rows[s].deleted
  /\ lock[s] = Nobody
  /\ rows' = [rows EXCEPT ![s].deleted = TRUE]
  /\ UNCHANGED <<messages, lock, clock, pc, prompt, requestVars, txnVars>>

Work(r) ==
  \/ BuildContext(r) \/ EngineReply(r)
  \/ Select(r) \/ Flush(r) \/ Conflict(r) \/ Commit(r)
  \/ Finish(r)

Stop(r) == CommitUnacknowledged(r) \/ Fail(r) \/ Disconnect(r)

Next ==
  \/ \E r \in Requests, s \in Sessions : Start(r, s)
  \/ \E r \in Requests : Work(r) \/ Stop(r)
  \/ \E s \in Sessions : CreateSession(s) \/ DeleteSession(s)
  \/ Crash

Spec == Init /\ [][Next]_vars

(* The event loop runs every task that is ready, the engine answers or     *)
(* times out, and the database grants a row lock that is free.             *)
FairSpec == Spec /\ \A r \in Requests : WF_vars(Work(r))

-----------------------------------------------------------------------------
Stored(r, role) == \E m \in messages : m.req = r /\ m.role = role

(* Every variable has its type: rows with a count that is never negative,  *)
(* as CHECK (message_count >= 0) demands.                                  *)
TypeOK ==
  /\ rows \in [Sessions -> Row]
  /\ messages \subseteq Message /\ IsFiniteSet(messages)
  /\ lock \in [Sessions -> Requests \cup {Nobody}]
  /\ clock \in Nat
  /\ pc \in [Requests -> {Idle} \cup Active \cup Ended]
  /\ sess \in [Requests -> Sessions \cup {Nowhere}]
  /\ asked \in [Requests -> BOOLEAN]
  /\ orm \in [Requests -> [fresh: BOOLEAN, count: Nat]]
  /\ began \in [Requests -> Nat]
  /\ prompt \in [Requests -> SUBSET Message]

(* A plain chat leaves both its messages or none, whatever fails or dies   *)
(* and wherever: its two inserts share one transaction (chat.py:186-205).  *)
ChatAllOrNothing ==
  \A r \in Chats : Stored(r, "user") <=> Stored(r, "assistant")

(* message_count never exceeds the messages of the session: an update may  *)
(* be lost between requests, never invented.                               *)
CountNotAboveMessages ==
  \A s \in Sessions : rows[s].count <= Cardinality(MessagesOf(s))

(* No message refers to a session that does not exist.  The schema has no  *)
(* foreign key: only the order of the code's steps assures it.             *)
MessagesHaveSession ==
  \A m \in messages : rows[m.sess].exists

(* A prompt shows a plain chat's question and its reply together: one of   *)
(* them alone only where the history is cut, with nothing older shown.     *)
(* (The limit of the query and the token budget both cut there, and        *)
(* neither looks at turns.)                                                *)
PromptShowsWholeTurns ==
  \A r \in Requests : \A m \in prompt[r] :
    m.req \in Chats /\ ~(\E n \in prompt[r] : n.req = m.req /\ n.role # m.role)
      => \A n \in prompt[r] : m.at <= n.at

(* The history a request sends to the engine does not hold its own         *)
(* question, which to_messages appends to it.                              *)
PromptWithoutOwnQuestion ==
  \A r \in Requests : \A m \in prompt[r] : m.req # r

(* The history a request sends shows the turns of others whole, the oldest *)
(* one shown excepted, and nothing of its own: plain chats commit a turn   *)
(* at once, and every cut is at the oldest end.                            *)
PromptShowsHistory == PromptShowsWholeTurns /\ PromptWithoutOwnQuestion

(* A soft delete lasts: a chat that read the row before it, and commits    *)
(* after it, does not bring the session back.                              *)
DeletionLasts ==
  [][\A s \in Sessions : rows[s].deleted => rows'[s].deleted]_vars

(* A request that has arrived is answered, fails, or loses its client: it  *)
(* never waits for ever, for a row lock included.                          *)
RequestsEnd ==
  \A r \in Requests : pc[r] \in Active ~> pc[r] \in Ended

(* What the schema documents of sessions.message_count, a redundant field  *)
(* that spares a COUNT query: it is the number of the session's messages.  *)
CountIsMessageCount ==
  \A s \in Sessions : rows[s].count = Cardinality(MessagesOf(s))

-----------------------------------------------------------------------------
(* The conversation as Transcript describes it: the messages without their *)
(* times, and what has become of each request.                             *)
Entries == {[sess |-> m.sess, req |-> m.req, role |-> m.role] : m \in messages}

StateAt(p) ==
  IF p = Idle THEN "new"
  ELSE IF p = "done" THEN "answered"
  ELSE IF p \in Active THEN "open" ELSE "lost"

T == INSTANCE Transcript WITH
       stored <- Entries,
       state  <- [r \in Requests |-> StateAt(pc[r])]

(* Every behaviour of the requests and their transactions is one of the    *)
(* conversation Transcript describes: a turn is stored in one step, a      *)
(* stream's reply after its question, nothing by a request that has ended, *)
(* and only a request with both its messages stored is answered.           *)
ImplementsTranscript == T!TSpec
=============================================================================
