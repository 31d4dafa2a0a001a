----------------------------- MODULE Transcript -----------------------------
(***************************************************************************)
(* What the orchestrator promises of the stored conversation, with no      *)
(* transactions, rows or locks: a plain request stores its question and    *)
(* its reply in one step, a streaming request its question and, later, its *)
(* reply; nothing is stored twice, nothing by a request that has ended,    *)
(* and a request is answered only when both its messages are stored.       *)
(***************************************************************************)
EXTENDS Naturals, FiniteSets

CONSTANTS Chats, Streams, Sessions

Requests == Chats \cup Streams

VARIABLES
  stored, \* the messages, as [sess, req, role] records
  state   \* of each request: "new", "open", "answered" or "lost"

tvars == <<stored, state>>

Entry(s, r, role) == [sess |-> s, req |-> r, role |-> role]
Has(r, role) == \E s \in Sessions : Entry(s, r, role) \in stored

TInit ==
  /\ stored = {}
  /\ state = [r \in Requests |-> "new"]

Open(r) ==
  /\ state[r] = "new"
  /\ state' = [state EXCEPT ![r] = "open"]
  /\ UNCHANGED stored

(* A step that stores may also be the last of its request: the caller may  *)
(* never learn that it succeeded.                                          *)
MayLose(r) == state' \in {state, [state EXCEPT ![r] = "lost"]}

StoreTurn(r, s) ==
  /\ r \in Chats /\ state[r] = "open"
  /\ ~Has(r, "user") /\ ~Has(r, "assistant")
  /\ stored' = stored \cup {Entry(s, r, "user"), Entry(s, r, "assistant")}
  /\ MayLose(r)

StoreQuestion(r, s) ==
  /\ r \in Streams /\ state[r] = "open"
  /\ ~Has(r, "user") /\ ~Has(r, "assistant")
  /\ stored' = stored \cup {Entry(s, r, "user")}
  /\ MayLose(r)

StoreReply(r, s) ==
  /\ r \in Streams /\ state[r] = "open"
  /\ Entry(s, r, "user") \in stored /\ ~Has(r, "assistant")
  /\ stored' = stored \cup {Entry(s, r, "assistant")}
  /\ MayLose(r)

Answer(r) ==
  /\ state[r] = "open"
  /\ Has(r, "user") /\ Has(r, "assistant")
  /\ state' = [state EXCEPT ![r] = "answered"]
  /\ UNCHANGED stored

(* Any number of open requests are lost at once: one that fails, or all of *)
(* them when the process dies.                                             *)
Lose ==
  /\ \E gone \in SUBSET {r \in Requests : state[r] = "open"} :
       state' = [r \in Requests |-> IF r \in gone THEN "lost" ELSE state[r]]
  /\ UNCHANGED stored

TNext ==
  \/ \E r \in Requests : Open(r) \/ Answer(r)
  \/ \E r \in Requests, s \in Sessions :
       StoreTurn(r, s) \/ StoreQuestion(r, s) \/ StoreReply(r, s)
  \/ Lose

TSpec == TInit /\ [][TNext]_tvars
=============================================================================
