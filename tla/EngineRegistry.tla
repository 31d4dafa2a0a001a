---------------------------- MODULE EngineRegistry ----------------------------
(***************************************************************************)
(* EngineRegistry (backend/app/engines/registry.py): one cache and one     *)
(* lock for each key, the four get_or_create methods the chat uses, and    *)
(* close_all.                                                              *)
(*                                                                         *)
(* initialize() is awaited under the lock and may suspend, fail or be      *)
(* cancelled there, as the engines' interface allows; an engine that does  *)
(* not suspend runs StartCreation and Initialized back to back.            *)
(***************************************************************************)
EXTENDS Naturals, Sequences

CONSTANTS
  Requests,
  Specs,      \* what an engine is asked for: [kind, type, model]
  Creatable,  \* the specs for which _create_engine and its like do not raise
  None,
  Failed      \* what a call that raised leaves its caller with

(* The kinds, each with caches of its own, in the order close_all walks. *)
KindOrder == <<"ai", "knowledge", "user_profile", "chat_memory">>

VARIABLES
  cache,    \* the engine cached under each key, or None
  made,     \* ghost: how many engines were cached under each key
  holder,   \* the request that holds the lock of each key, or None
  waiters,  \* the requests that wait for the lock, the first one first
  making,   \* the calls that await initialize(): pairs of request and spec
  got,      \* what each call gave: an engine, Failed, or None so far
  closed    \* the engines whose close() was called

(* The dictionary an engine is kept in and its key there. *)
CacheKey(s) == <<s.kind, s.type, IF s.kind = "ai" THEN s.model ELSE None>>

Keys == {CacheKey(s) : s \in Specs}
Engines == [spec : Specs, number : Nat]

(* What is assumed of the constants: a context engine has no model. *)
RegistryConstants ==
  /\ \A s \in Specs : \E i \in 1 .. 4 : s.kind = KindOrder[i]
  /\ \A s, t \in Specs :
       (s.kind = t.kind /\ s.type = t.type /\ (s.kind = "ai" => s.model = t.model))
         => s = t
  /\ Creatable \subseteq Specs
  /\ None \notin Requests
  /\ None # Failed /\ None \notin Engines /\ Failed \notin Engines

Init ==
  /\ cache = [k \in Keys |-> None] /\ made = [k \in Keys |-> 0]
  /\ holder = [k \in Keys |-> None] /\ waiters = [k \in Keys |-> <<>>]
  /\ making = {}
  /\ got = [r \in Requests |-> [s \in Specs |-> None]]
  /\ closed = {}

-----------------------------------------------------------------------------
(* get_or_create and get_or_create_knowledge, _user_profile, _chat_memory. *)

Waits(r, k) == \E i \in 1 .. Len(waiters[k]) : waiters[k][i] = r

(* The call is under way. *)
Calling(r, s) == holder[CacheKey(s)] = r \/ Waits(r, CacheKey(s))

(* The lock is taken without waiting. *)
LockFree(k) == holder[k] = None /\ waiters[k] = <<>>

Gives(r, s, result) == got' = [got EXCEPT ![r][s] = result]

(* The body under the lock, when it ends there: an engine that is cached,  *)
(* or one that cannot be created.  The lock is taken and released.         *)
FindCached(r, s) ==
  /\ cache[CacheKey(s)] # None
  /\ Gives(r, s, cache[CacheKey(s)])
  /\ UNCHANGED <<cache, made, holder, making, closed>>

CreateRaises(r, s) ==
  /\ cache[CacheKey(s)] = None /\ s \notin Creatable
  /\ Gives(r, s, Failed)
  /\ UNCHANGED <<cache, made, holder, making, closed>>

(* A buggy variant: the cache is looked up before the lock is asked for. *)
CreateUnchecked(r, s) ==
  /\ s \in Creatable
  /\ holder' = [holder EXCEPT ![CacheKey(s)] = r]
  /\ making' = making \cup {<<r, s>>}
  /\ UNCHANGED <<cache, made, got, closed>>

(* The body that goes on to await initialize(). *)
StartCreation(r, s) ==
  /\ cache[CacheKey(s)] = None /\ s \in Creatable
  /\ holder' = [holder EXCEPT ![CacheKey(s)] = r]
  /\ making' = making \cup {<<r, s>>}
  /\ UNCHANGED <<cache, made, got, closed>>

UnderLock(r, s) == FindCached(r, s) \/ CreateRaises(r, s) \/ StartCreation(r, s)

GetOrCreate(r, s) ==
  /\ got[r][s] = None /\ ~Calling(r, s)
  /\ LockFree(CacheKey(s))
  /\ UnderLock(r, s) /\ UNCHANGED waiters

AwaitLock(r, s) ==
  /\ got[r][s] = None /\ ~Calling(r, s)
  /\ ~LockFree(CacheKey(s))
  /\ waiters' = [waiters EXCEPT ![CacheKey(s)] = Append(@, r)]
  /\ UNCHANGED <<cache, made, holder, making, got, closed>>

(* The lock was released and wakes the first of those that wait. *)
LockGranted(r, s) ==
  LET k == CacheKey(s) IN
  /\ holder[k] = None /\ waiters[k] # <<>> /\ Head(waiters[k]) = r
  /\ waiters' = [waiters EXCEPT ![k] = Tail(@)]
  /\ UnderLock(r, s)

Released(r, s) ==
  /\ holder' = [holder EXCEPT ![CacheKey(s)] = None]
  /\ making' = making \ {<<r, s>>}

(* initialize() returns: the engine is cached and handed out. *)
Initialized(r, s) ==
  LET k == CacheKey(s)
      engine == [spec |-> s, number |-> made[k] + 1]
  IN
  /\ <<r, s>> \in making
  /\ cache' = [cache EXCEPT ![k] = engine]
  /\ made' = [made EXCEPT ![k] = @ + 1]
  /\ Gives(r, s, engine) /\ Released(r, s)
  /\ UNCHANGED <<waiters, closed>>

(* A buggy variant: the lock is not released when initialize() raises. *)
InitializeFailsLocked(r, s) ==
  /\ <<r, s>> \in making
  /\ making' = making \ {<<r, s>>}
  /\ Gives(r, s, Failed)
  /\ UNCHANGED <<cache, made, holder, waiters, closed>>

(* A buggy variant: what a failed creation gave is cached. *)
InitializeFailsCached(r, s) ==
  /\ <<r, s>> \in making
  /\ cache' = [cache EXCEPT ![CacheKey(s)] = Failed]
  /\ Gives(r, s, Failed) /\ Released(r, s)
  /\ UNCHANGED <<made, waiters, closed>>

(* initialize() raises: nothing is cached, the lock is released. *)
InitializeFails(r, s) ==
  /\ <<r, s>> \in making
  /\ Gives(r, s, Failed) /\ Released(r, s)
  /\ UNCHANGED <<cache, made, waiters, closed>>

(* A queue that r has left. *)
Without(queue, r) ==
  LET place == CHOOSE i \in 1 .. Len(queue) : queue[i] = r
  IN  [i \in 1 .. Len(queue) - 1 |-> queue[IF i < place THEN i ELSE i + 1]]

(* The request ends, by itself or cancelled: its calls are cancelled where *)
(* they are, and a lock they held or were to be given is passed on.        *)
Forget(r) ==
  /\ holder' = [k \in Keys |-> IF \E s \in Specs : <<r, s>> \in making /\ CacheKey(s) = k
                                THEN None ELSE holder[k]]
  /\ waiters' = [k \in Keys |-> IF Waits(r, k) THEN Without(waiters[k], r) ELSE waiters[k]]
  /\ making' = {call \in making : call[1] # r}
  /\ got' = [got EXCEPT ![r] = [s \in Specs |-> None]]
  /\ UNCHANGED <<cache, made, closed>>

-----------------------------------------------------------------------------
(* close_all.                                                              *)

Open(k) == cache[k] # None /\ cache[k] \notin closed

Rank(k) == CHOOSE i \in 1 .. 4 : KindOrder[i] = k[1]

(* The next engine is closed, kind by kind.  If its close() raises, the    *)
(* error is logged and the walk goes on.                                   *)
CloseEngine(k) ==
  /\ Open(k) /\ \A other \in Keys : Open(other) => Rank(k) <= Rank(other)
  /\ closed' = closed \cup {cache[k]}
  /\ UNCHANGED <<cache, made, holder, waiters, making, got>>

(* The four dictionaries are cleared. *)
ClearAll ==
  /\ \A k \in Keys : ~Open(k)
  /\ cache' = [k \in Keys |-> None]
  /\ UNCHANGED <<made, holder, waiters, making, got, closed>>
===============================================================================
