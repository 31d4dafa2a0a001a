---------------------------- MODULE RemoteEngine ----------------------------
(***************************************************************************)
(* One remote engine (knowledge, user profile or chat memory) and the      *)
(* calls that share it: its circuit breaker, its cache in memory (L1) and  *)
(* the cache in Redis (L2), which other processes share                    *)
(* (backend/app/engines/base_remote.py).                                   *)
(*                                                                         *)
(* A call runs until it awaits Redis, the remote service or Redis again;   *)
(* between two awaits it is one step.  The caller may cancel it at any     *)
(* await, as the timeouts of context/service.py do.                        *)
(*                                                                         *)
(* Time is counted from the events that matter: since the last failure,    *)
(* since a value was fetched, since it was stored.  The counters stop one  *)
(* past the last value that is compared.  Redis answers or times out       *)
(* within one unit of time (its socket timeout is 5 s, the TTL 300 s).     *)
(***************************************************************************)
EXTENDS Naturals, Sequences

CONSTANTS
  Calls,     \* concurrent callers
  Keys,      \* cache keys
  NoKey,     \* the key of a call that is not cached (_safe_call)
  NoValue,   \* None
  Threshold, \* failure_threshold (5 in the code)
  Recovery,  \* recovery_timeout (30 s)
  TTL,       \* cache_ttl (300 s), of both caches
  Capacity   \* entries of the L1 cache (100)

ASSUME RemoteEngineAssumption ==
  /\ NoKey \notin Keys
  /\ Threshold \in Nat \ {0} /\ Recovery \in Nat
  /\ TTL \in Nat /\ Capacity \in Nat \ {0}
  /\ NoValue \notin [key: Keys, age: Nat]

VARIABLES
  redis,    \* whether the process has a Redis client
  breaker,  \* state, failure_count, and the time since the last failure
  l1,       \* the OrderedDict: entries, least recently used first
  l2,       \* for each key, what Redis holds of it
  pc,       \* where each call stands
  key,      \* the key it was called with
  returned  \* what its last call returned

vars == <<redis, breaker, l1, l2, pc, key, returned>>

Value == [key: Keys, age: Nat]          \* age: time since it was fetched
Entry == [key: Keys, age: Nat, life: Nat] \* life: time since it was stored

Busy == {"l2", "remote", "store"}

NoFailures == [state |-> "CLOSED", failures |-> 0, since |-> Recovery + 1]

Init ==
  /\ redis \in BOOLEAN
  /\ breaker = NoFailures
  /\ l1 = <<>> /\ l2 = [k \in Keys |-> NoValue]
  /\ pc = [c \in Calls |-> "idle"]
  /\ key = [c \in Calls |-> NoKey]
  /\ returned = [c \in Calls |-> NoValue]

-----------------------------------------------------------------------------
(* L1Cache.                                                                *)

(* The entry of the key, of which there is at most one, is taken out. *)
Without(cache, k) ==
  LET place == CHOOSE i \in DOMAIN cache : cache[i].key = k
  IN  IF \E i \in DOMAIN cache : cache[i].key = k
      THEN [i \in 1 .. Len(cache) - 1 |-> cache[IF i < place THEN i ELSE i + 1]]
      ELSE cache

EntriesOf(cache, k) == {cache[i] : i \in {j \in DOMAIN cache : cache[j].key = k}}
Live(e) == e.life <= TTL

(* A buggy variant: the cache is never trimmed. *)
PutUntrimmed(cache, v) ==
  Append(Without(cache, v.key), [key |-> v.key, age |-> v.age, life |-> 0])

(* L1Cache.set: the key moves to the end, the least recently used goes. *)
Put(cache, v) ==
  LET grown == Append(Without(cache, v.key),
                      [key |-> v.key, age |-> v.age, life |-> 0])
  IN  IF Len(grown) > Capacity THEN Tail(grown) ELSE grown

(* A buggy variant: reading an entry renews it. *)
TouchRenewing(cache, e) == Append(Without(cache, e.key), [e EXCEPT !.life = 0])

(* L1Cache.get, hit: the entry moves to the end and keeps its expiry. *)
Touch(cache, e) == Append(Without(cache, e.key), e)

-----------------------------------------------------------------------------
(* CircuitBreaker.                                                         *)

(* A buggy variant of allow_request: half open comes at once. *)
AllowsAlways(b) == TRUE

Allows(b) == b.state = "OPEN" => b.since > Recovery

Asked(b) == IF b.state = "OPEN" THEN [b EXCEPT !.state = "HALF_OPEN"] ELSE b

RecordSuccess(b) == [b EXCEPT !.failures = 0, !.state = "CLOSED"]

(* failure_count is only compared with the threshold: it stops there. *)
Counted(n) == IF n < Threshold THEN n + 1 ELSE n

(* A buggy variant: a failed probe leaves the breaker half open. *)
RecordFailureOfClosed(b) ==
  [state    |-> IF b.state = "CLOSED" /\ Counted(b.failures) >= Threshold
                THEN "OPEN" ELSE b.state,
   failures |-> Counted(b.failures),
   since    |-> 0]

RecordFailure(b) ==
  [state    |-> IF Counted(b.failures) >= Threshold THEN "OPEN" ELSE b.state,
   failures |-> Counted(b.failures),
   since    |-> 0]

-----------------------------------------------------------------------------
(* The calls.                                                              *)

Return(c, v) ==
  /\ pc' = [pc EXCEPT ![c] = "idle"]
  /\ returned' = [returned EXCEPT ![c] = v]

(* A buggy variant: a refused call waits for the breaker. *)
GoOutWaiting(c) ==
  /\ pc' = IF Allows(breaker) THEN [pc EXCEPT ![c] = "remote"] ELSE pc
  /\ returned' = [returned EXCEPT ![c] = NoValue]
  /\ breaker' = IF Allows(breaker) THEN Asked(breaker) ELSE breaker

(* The breaker is asked, and the call goes out or is refused. *)
GoOut(c) ==
  IF Allows(breaker)
  THEN /\ breaker' = Asked(breaker)
       /\ pc' = [pc EXCEPT ![c] = "remote"]
       /\ returned' = [returned EXCEPT ![c] = NoValue]
  ELSE /\ Return(c, NoValue)
       /\ UNCHANGED breaker

(* _safe_call: no caching. *)
CallPlain(c) ==
  /\ pc[c] = "idle"
  /\ key' = [key EXCEPT ![c] = NoKey]
  /\ GoOut(c)
  /\ UNCHANGED <<redis, l1, l2>>

(* _safe_cached_call, the value in memory. *)
CallHit(c, k) ==
  /\ pc[c] = "idle"
  /\ key' = [key EXCEPT ![c] = k]
  /\ \E e \in EntriesOf(l1, k) :
       /\ Live(e)
       /\ l1' = Touch(l1, e)
       /\ Return(c, [key |-> e.key, age |-> e.age])
  /\ UNCHANGED <<redis, breaker, l2>>

(* Not in memory, or expired and deleted: Redis is asked if there is one. *)
CallMiss(c, k) ==
  /\ pc[c] = "idle"
  /\ key' = [key EXCEPT ![c] = k]
  /\ \A e \in EntriesOf(l1, k) : ~Live(e)
  /\ l1' = Without(l1, k)
  /\ IF redis
     THEN /\ pc' = [pc EXCEPT ![c] = "l2"]
          /\ returned' = [returned EXCEPT ![c] = NoValue]
          /\ UNCHANGED breaker
     ELSE GoOut(c)
  /\ UNCHANGED <<redis, l2>>

(* Redis has the value: it enters L1 with a full TTL of its own. *)
RedisHit(c) ==
  /\ pc[c] = "l2" /\ l2[key[c]] # NoValue
  /\ LET v == [key |-> key[c], age |-> l2[key[c]].age]
     IN  l1' = Put(l1, v) /\ Return(c, v)
  /\ UNCHANGED <<redis, breaker, l2, key>>

(* Redis has no value, or it failed. *)
RedisMiss(c) ==
  /\ pc[c] = "l2"
  /\ GoOut(c)
  /\ UNCHANGED <<redis, l1, l2, key>>

(* The remote service answers.  The value enters L1 and, if it can be      *)
(* written as JSON, Redis.                                                 *)
Succeed(c) ==
  /\ pc[c] = "remote"
  /\ breaker' = RecordSuccess(breaker)
  /\ IF key[c] = NoKey
     THEN Return(c, NoValue) /\ UNCHANGED l1
     ELSE LET v == [key |-> key[c], age |-> 0]
          IN  /\ l1' = Put(l1, v)
              /\ \/ Return(c, v)
                 \/ redis /\ pc' = [pc EXCEPT ![c] = "store"] /\ UNCHANGED returned
  /\ UNCHANGED <<redis, l2, key>>

(* A timeout, a 5xx answer or any other exception. *)
FailRemote(c) ==
  /\ pc[c] = "remote"
  /\ breaker' = RecordFailure(breaker)
  /\ Return(c, NoValue)
  /\ UNCHANGED <<redis, l1, l2, key>>

(* A 4xx answer says nothing of the service's health. *)
RefuseRemote(c) ==
  /\ pc[c] = "remote"
  /\ Return(c, NoValue)
  /\ UNCHANGED <<redis, breaker, l1, l2, key>>

InRedis(v) == [age |-> v.age, life |-> 0]

(* The value is in Redis, or Redis failed, and the call returns it. *)
StoreRedis(c) ==
  /\ pc[c] = "store"
  /\ LET v == [key |-> key[c], age |-> 0]
     IN  /\ l2' \in {l2, [l2 EXCEPT ![key[c]] = InRedis(v)]}
         /\ Return(c, v)
  /\ UNCHANGED <<redis, breaker, l1, key>>

(* The caller gives up: CancelledError passes every handler, and the       *)
(* breaker learns nothing.  What Redis was sent may still be stored.       *)
Cancel(c) ==
  /\ pc[c] \in Busy
  /\ Return(c, NoValue)
  /\ l2' \in IF pc[c] = "store"
             THEN {l2, [l2 EXCEPT ![key[c]] = InRedis([key |-> key[c], age |-> 0])]}
             ELSE {l2}
  /\ UNCHANGED <<redis, breaker, l1, key>>

-----------------------------------------------------------------------------
(* The environment.                                                        *)

(* Another process stores the value it has just fetched. *)
OtherProcessStores(k) ==
  /\ redis
  /\ l2' = [l2 EXCEPT ![k] = [age |-> 0, life |-> 0]]
  /\ UNCHANGED <<redis, breaker, l1, pc, key, returned>>

(* The process restarts: memory is lost, Redis is not. *)
Restart ==
  /\ breaker' = NoFailures /\ l1' = <<>>
  /\ pc' = [c \in Calls |-> "idle"]
  /\ key' = [c \in Calls |-> NoKey]
  /\ returned' = [c \in Calls |-> NoValue]
  /\ UNCHANGED <<redis, l2>>

UpTo(n, last) == IF n < last THEN n + 1 ELSE n
OlderAge(n) == UpTo(n, 2 * TTL + 1)

(* A key that reaches its expiry is gone. *)
AgedInRedis(v) ==
  IF v = NoValue \/ v.life >= TTL THEN NoValue
  ELSE [age |-> OlderAge(v.age), life |-> v.life + 1]

(* One unit of time passes. *)
Tick ==
  /\ \A c \in Calls : pc[c] \notin {"l2", "store"}
  /\ breaker' = [breaker EXCEPT !.since = UpTo(@, Recovery + 1)]
  /\ l1' = [i \in DOMAIN l1 |-> [l1[i] EXCEPT !.age = OlderAge(@),
                                              !.life = UpTo(@, TTL + 1)]]
  /\ l2' = [k \in Keys |-> AgedInRedis(l2[k])]
  /\ UNCHANGED <<redis, pc, key, returned>>

Answer(c) ==
  \/ RedisHit(c) \/ RedisMiss(c) \/ StoreRedis(c)
  \/ Succeed(c) \/ FailRemote(c) \/ RefuseRemote(c)

Next ==
  \/ \E c \in Calls : CallPlain(c) \/ Answer(c) \/ Cancel(c)
  \/ \E c \in Calls, k \in Keys : CallHit(c, k) \/ CallMiss(c, k)
  \/ \E k \in Keys : OtherProcessStores(k)
  \/ Restart \/ Tick

Spec == Init /\ [][Next]_vars

(* Redis and the HTTP client answer or time out. *)
FairSpec == Spec /\ \A c \in Calls : WF_vars(Answer(c))

-----------------------------------------------------------------------------
(* Every variable has its type; the L1 cache holds at most Capacity        *)
(* entries, one for each key.                                              *)
TypeOK ==
  /\ redis \in BOOLEAN
  /\ breaker \in [state: {"CLOSED", "OPEN", "HALF_OPEN"}, failures: Nat, since: Nat]
  /\ l1 \in Seq(Entry) /\ Len(l1) <= Capacity
  /\ \A i, j \in DOMAIN l1 : l1[i].key = l1[j].key => i = j
  /\ l2 \in [Keys -> {NoValue} \cup [age: Nat, life: Nat]]
  /\ pc \in [Calls -> Busy \cup {"idle"}]
  /\ key \in [Calls -> Keys \cup {NoKey}]
  /\ returned \in [Calls -> Value \cup {NoValue}]

(* The breaker is closed exactly while the failures since the last success *)
(* are fewer than the threshold, and half open only when no call has       *)
(* failed for longer than the pause: answers that arrive late, after the   *)
(* breaker has moved on, do not leave it in a state its counters deny.     *)
BreakerConsistent ==
  /\ breaker.state = "CLOSED" <=> breaker.failures < Threshold
  /\ breaker.state = "HALF_OPEN" => breaker.since > Recovery

(* While the last Threshold answers were failures a call goes out only     *)
(* when the last of them is longer ago than the pause, however many calls  *)
(* were in flight when the breaker opened.                                 *)
RespectsPause ==
  [][\A c \in Calls :
       pc[c] # "remote" /\ pc'[c] = "remote" /\ breaker.failures >= Threshold
         => breaker.since > Recovery]_vars

(* A call that has returned a value returned one of its own key, fetched   *)
(* no longer ago than the TTL, or than twice the TTL where Redis may hand  *)
(* it to L1 near the end of its first life.                                *)
ServedFresh ==
  \A c \in Calls :
    pc[c] = "idle" /\ returned[c] # NoValue
      => /\ returned[c].key = key[c]
         /\ returned[c].age <= IF redis THEN 2 * TTL ELSE TTL

(* Every call returns: none waits for ever on a cache, on the service or   *)
(* on the breaker.                                                         *)
CallsReturn == \A c \in Calls : pc[c] \in Busy ~> pc[c] = "idle"
=============================================================================
