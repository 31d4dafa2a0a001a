------------------------- MODULE RemoteEngineProofs -------------------------
(***************************************************************************)
(* Proofs about RemoteEngine, for any number of concurrent calls and keys, *)
(* any threshold, pause, TTL and capacity: the circuit breaker agrees with *)
(* its counters and respects its pause, the caches stay well formed, and   *)
(* no call is served a value older than the caches may keep it.            *)
(***************************************************************************)
EXTENDS RemoteEngine, SequenceTheorems, TLAPS

BreakerTyped ==
  breaker \in [state: {"CLOSED", "OPEN", "HALF_OPEN"}, failures: Nat, since: Nat]

(* The inductive invariant of the breaker. *)
Guarded == BreakerTyped /\ BreakerConsistent /\ pc \in [Calls -> Busy \cup {"idle"}]

LEMMA GuardedInit == Init => Guarded
BY RemoteEngineAssumption
DEF Init, Guarded, BreakerTyped, BreakerConsistent, NoFailures

(* A call that goes out may find the breaker open and make it half open. *)
LEMMA GoOutGuarded ==
  ASSUME Guarded, NEW c \in Calls, GoOut(c)
  PROVE  Guarded'
BY DEF Guarded, BreakerTyped, BreakerConsistent, GoOut, Allows, Asked, Return, Busy

LEMMA GuardedNext == Guarded /\ [Next]_vars => Guarded'
<1> SUFFICES ASSUME Guarded, [Next]_vars PROVE Guarded'
  OBVIOUS
<1> USE RemoteEngineAssumption DEF Guarded, BreakerTyped, BreakerConsistent, Busy
<1>1. ASSUME NEW c \in Calls, CallPlain(c) \/ RedisMiss(c) PROVE Guarded'
  BY <1>1, GoOutGuarded DEF CallPlain, RedisMiss
<1>2. ASSUME NEW c \in Calls, NEW k \in Keys, CallMiss(c, k) PROVE Guarded'
  BY <1>2, GoOutGuarded DEF CallMiss
<1>3. ASSUME NEW c \in Calls, NEW k \in Keys, CallHit(c, k) PROVE Guarded'
  BY <1>3 DEF CallHit, Return
<1>4. ASSUME NEW c \in Calls,
             RedisHit(c) \/ StoreRedis(c) \/ RefuseRemote(c) \/ Cancel(c)
      PROVE  Guarded'
  BY <1>4 DEF RedisHit, StoreRedis, RefuseRemote, Cancel, Return
<1>5. ASSUME NEW c \in Calls, Succeed(c) PROVE Guarded'
  <2>1. breaker' = [state |-> "CLOSED", failures |-> 0, since |-> breaker.since]
    BY <1>5 DEF Succeed, RecordSuccess
  <2>2. pc' \in [Calls -> Busy \cup {"idle"}]
    BY <1>5 DEF Succeed, Return
  <2> QED
    BY <2>1, <2>2
<1>6. ASSUME NEW c \in Calls, FailRemote(c) PROVE Guarded'
  <2>1. breaker' = RecordFailure(breaker) /\ pc' = [pc EXCEPT ![c] = "idle"]
    BY <1>6 DEF FailRemote, Return
  <2>2. RecordFailure(breaker) \in
          [state: {"CLOSED", "OPEN", "HALF_OPEN"}, failures: Nat, since: Nat]
    BY DEF RecordFailure, Counted
  <2>3. CASE Counted(breaker.failures) >= Threshold
    BY <2>1, <2>2, <2>3 DEF RecordFailure, Counted
  <2>4. CASE Counted(breaker.failures) < Threshold
    BY <2>1, <2>2, <2>4 DEF RecordFailure, Counted
  <2> QED
    BY <2>3, <2>4 DEF Counted
<1>7. ASSUME NEW k \in Keys, OtherProcessStores(k) PROVE Guarded'
  BY <1>7 DEF OtherProcessStores
<1>8. CASE Restart
  BY <1>8 DEF Restart, NoFailures
<1>9. CASE Tick
  <2>1. breaker' = [breaker EXCEPT !.since = UpTo(@, Recovery + 1)] /\ pc' = pc
    BY <1>9 DEF Tick
  <2>2. UpTo(breaker.since, Recovery + 1) \in Nat
        /\ UpTo(breaker.since, Recovery + 1) >= breaker.since
    BY DEF UpTo
  <2> QED
    BY <2>1, <2>2
<1>10. CASE UNCHANGED vars
  BY <1>10 DEF vars
<1> QED
  BY <1>1, <1>2, <1>3, <1>4, <1>5, <1>6, <1>7, <1>8, <1>9, <1>10 DEF Next, Answer

(* The breaker's state always agrees with its counters, late answers       *)
(* included.                                                               *)
THEOREM StateAgrees == Spec => []BreakerConsistent
<1>1. Guarded => BreakerConsistent
  BY DEF Guarded
<1> QED
  BY GuardedInit, GuardedNext, <1>1, PTL DEF Spec

(* A call goes out after Threshold failures only when the pause since the  *)
(* last one is over.                                                       *)
THEOREM PauseRespected == Spec => RespectsPause
<1>1. Guarded /\ [Next]_vars
        => [\A c \in Calls :
              pc[c] # "remote" /\ pc'[c] = "remote" /\ breaker.failures >= Threshold
                => breaker.since > Recovery]_vars
  <2> SUFFICES ASSUME Guarded, Next, NEW c \in Calls, pc[c] # "remote",
                      pc'[c] = "remote", breaker.failures >= Threshold
               PROVE  breaker.since > Recovery
    BY DEF vars
  <2> USE RemoteEngineAssumption DEF Guarded, BreakerTyped, BreakerConsistent
  <2>1. ASSUME NEW d \in Calls, GoOut(d) PROVE breaker.since > Recovery
    <3>1. Allows(breaker)
      BY <2>1 DEF GoOut, Return
    <3> QED
      BY <3>1 DEF Allows
  <2>2. ASSUME NEW d \in Calls, CallPlain(d) \/ RedisMiss(d) PROVE breaker.since > Recovery
    BY <2>1, <2>2 DEF CallPlain, RedisMiss
  <2>3. ASSUME NEW d \in Calls, NEW k \in Keys, CallMiss(d, k)
        PROVE  breaker.since > Recovery
    BY <2>1, <2>3 DEF CallMiss
  <2>4. ASSUME NEW d \in Calls, NEW k \in Keys, CallHit(d, k) PROVE FALSE
    BY <2>4 DEF CallHit, Return
  <2>5. ASSUME NEW d \in Calls,
               RedisHit(d) \/ StoreRedis(d) \/ Succeed(d) \/ FailRemote(d)
                 \/ RefuseRemote(d) \/ Cancel(d)
        PROVE  FALSE
    BY <2>5 DEF RedisHit, StoreRedis, Succeed, FailRemote, RefuseRemote, Cancel, Return
  <2>6. ASSUME Restart \/ Tick \/ \E k \in Keys : OtherProcessStores(k) PROVE FALSE
    BY <2>6 DEF Restart, Tick, OtherProcessStores
  <2> QED
    BY <2>2, <2>3, <2>4, <2>5, <2>6 DEF Next, Answer
<1> QED
  BY GuardedInit, GuardedNext, <1>1, PTL DEF Spec, RespectsPause

-----------------------------------------------------------------------------
(* The L1 cache as a sequence.                                             *)

(* One entry at most for a key. *)
Keyed(w) == \A i, j \in DOMAIN w : w[i].key = w[j].key => i = j

(* How much older than its stay in L1 a value may be: it may have spent    *)
(* its first life in Redis.                                                *)
Slack == IF redis THEN TTL ELSE 0

(* No live entry is older than its stay explains. *)
Young(e, slack) == e.life <= TTL => e.age <= e.life + slack

Cache(w, slack) ==
  /\ w \in Seq(Entry) /\ Keyed(w)
  /\ \A i \in DOMAIN w : Young(w[i], slack)

LEMMA CacheWithout ==
  ASSUME NEW slack, NEW w, Cache(w, slack), NEW k
  PROVE  /\ Cache(Without(w, k), slack) /\ Len(Without(w, k)) <= Len(w)
         /\ \A i \in DOMAIN Without(w, k) : Without(w, k)[i].key # k
         /\ (\E i \in DOMAIN w : w[i].key = k) => Len(Without(w, k)) = Len(w) - 1
<1> DEFINE place == CHOOSE i \in DOMAIN w : w[i].key = k
           o == Without(w, k)
<1> USE DEF Cache, Keyed
<1>1. Len(w) \in Nat /\ DOMAIN w = 1 .. Len(w) /\ \A i \in 1 .. Len(w) : w[i] \in Entry
  BY LenProperties, ElementOfSeq
<1>2. CASE \E i \in DOMAIN w : w[i].key = k
  <2>1. place \in 1 .. Len(w) /\ w[place].key = k
    BY <1>1, <1>2
  <2>2. o = [i \in 1 .. Len(w) - 1 |-> w[IF i < place THEN i ELSE i + 1]]
    BY <1>2 DEF Without
  <2> HIDE DEF place, o
  <2>3. ASSUME NEW i \in 1 .. Len(w) - 1
        PROVE  /\ o[i] \in Entry /\ o[i].key # k /\ Young(o[i], slack)
               /\ \A j \in 1 .. Len(w) - 1 : o[i].key = o[j].key => i = j
    <3> DEFINE at(j) == IF j < place THEN j ELSE j + 1
    <3>1. \A j \in 1 .. Len(w) - 1 :
            at(j) \in 1 .. Len(w) /\ at(j) # place /\ o[j] = w[at(j)]
      BY <1>1, <2>1, <2>2
    <3>2. \A j \in 1 .. Len(w) - 1 : at(i) = at(j) => i = j
      BY <1>1, <2>1
    <3> HIDE DEF at
    <3>3. o[i] \in Entry /\ Young(o[i], slack)
      BY <1>1, <3>1
    <3>4. o[i].key # k
      BY <1>1, <2>1, <3>1
    <3>5. \A j \in 1 .. Len(w) - 1 : o[i].key = o[j].key => at(i) = at(j)
      BY <1>1, <3>1
    <3> QED
      BY <3>2, <3>3, <3>4, <3>5
  <2>4. o \in Seq(Entry) /\ Len(o) = Len(w) - 1 /\ DOMAIN o = 1 .. Len(w) - 1
    <3>1. Len(w) - 1 \in Nat
      BY <1>1, <2>1
    <3>2. o \in [1 .. Len(w) - 1 -> Entry]
      BY <2>2, <2>3
    <3> QED
      BY <3>1, <3>2, IsASeq, LenProperties
  <2>5. Cache(o, slack) /\ \A i \in DOMAIN o : o[i].key # k
    BY <2>3, <2>4
  <2> QED
    BY <1>1, <2>4, <2>5 DEF o
<1>3. CASE ~\E i \in DOMAIN w : w[i].key = k
  <2>1. o = w
    BY <1>3 DEF Without
  <2>2. Len(w) <= Len(w)
    BY <1>1
  <2> HIDE DEF o
  <2>3. Cache(o, slack) /\ Len(o) <= Len(w) /\ \A i \in DOMAIN o : o[i].key # k
    BY <1>3, <2>1, <2>2
  <2> QED
    BY <1>3, <2>3 DEF o
<1> QED
  BY <1>2, <1>3

LEMMA CacheAppend ==
  ASSUME NEW slack, NEW w, Cache(w, slack), NEW e \in Entry, Young(e, slack),
         \A i \in DOMAIN w : w[i].key # e.key
  PROVE  Cache(Append(w, e), slack) /\ Len(Append(w, e)) = Len(w) + 1
<1> DEFINE a == Append(w, e)
<1> USE DEF Cache, Keyed
<1>1. /\ a \in Seq(Entry) /\ Len(a) = Len(w) + 1 /\ a[Len(w) + 1] = e
      /\ \A i \in 1 .. Len(w) : a[i] = w[i]
  BY AppendProperties
<1>2. /\ Len(w) \in Nat /\ DOMAIN w = 1 .. Len(w) /\ DOMAIN a = 1 .. Len(w) + 1
  BY <1>1, LenProperties
<1> HIDE DEF a
<1>3. \A i \in DOMAIN a : Young(a[i], slack)
  BY <1>1, <1>2
<1>4. ASSUME NEW i \in DOMAIN a, NEW j \in DOMAIN a, a[i].key = a[j].key
      PROVE  i = j
  <2>1. CASE i = Len(w) + 1 /\ j # Len(w) + 1
    BY <1>1, <1>2, <1>4, <2>1
  <2>2. CASE i # Len(w) + 1 /\ j = Len(w) + 1
    BY <1>1, <1>2, <1>4, <2>2
  <2>3. CASE i # Len(w) + 1 /\ j # Len(w) + 1
    <3>1. a[i] = w[i] /\ a[j] = w[j] /\ i \in DOMAIN w /\ j \in DOMAIN w
      BY <1>1, <1>2, <2>3
    <3> QED
      BY <1>4, <3>1
  <2> QED
    BY <2>1, <2>2, <2>3
<1> QED
  BY <1>1, <1>3, <1>4 DEF a

LEMMA CacheTail ==
  ASSUME NEW slack, NEW w, Cache(w, slack), Len(w) # 0
  PROVE  Cache(Tail(w), slack) /\ Len(Tail(w)) = Len(w) - 1
<1> DEFINE t == Tail(w)
<1> USE DEF Cache, Keyed
<1>1. Len(w) \in Nat \ {0} /\ DOMAIN w = 1 .. Len(w) /\ w # <<>>
  BY LenProperties, EmptySeq
<1>2. /\ t \in Seq(Entry) /\ Len(t) = Len(w) - 1
      /\ \A i \in 1 .. Len(t) : t[i] = w[i + 1]
  BY <1>1, HeadTailProperties
<1>3. DOMAIN t = 1 .. Len(w) - 1
  BY <1>2, LenProperties
<1> HIDE DEF t
<1>4. \A i \in DOMAIN t : i + 1 \in DOMAIN w /\ t[i] = w[i + 1]
  BY <1>1, <1>2, <1>3
<1>5. \A i \in DOMAIN t : Young(t[i], slack)
  BY <1>4
<1>6. ASSUME NEW i \in DOMAIN t, NEW j \in DOMAIN t, t[i].key = t[j].key
      PROVE  i = j
  <2>1. i + 1 = j + 1
    BY <1>4, <1>6
  <2> QED
    BY <1>1, <1>3, <2>1
<1> QED
  BY <1>2, <1>5, <1>6 DEF t

(* L1Cache.set keeps the cache within its capacity. *)
LEMMA CachePut ==
  ASSUME NEW slack \in Nat, NEW w, Cache(w, slack), Len(w) <= Capacity,
         NEW v \in Value, v.age <= slack
  PROVE  Cache(Put(w, v), slack) /\ Len(Put(w, v)) <= Capacity
<1> DEFINE o == Without(w, v.key)
           e == [key |-> v.key, age |-> v.age, life |-> 0]
           grown == Append(o, e)
<1>1. Cache(o, slack) /\ Len(o) <= Len(w) /\ \A i \in DOMAIN o : o[i].key # v.key
  BY CacheWithout
<1>2. e \in Entry /\ e.key = v.key /\ Young(e, slack)
  BY DEF Entry, Value, Young
<1> HIDE DEF o, e
<1>3. Cache(grown, slack) /\ Len(grown) = Len(o) + 1
  BY <1>1, <1>2, CacheAppend
<1>4. Len(w) \in Nat /\ Len(o) \in Nat /\ Len(grown) \in Nat
  BY <1>1, <1>3, LenProperties DEF Cache
<1> HIDE DEF grown
<1>5. Put(w, v) = IF Len(grown) > Capacity THEN Tail(grown) ELSE grown
  BY DEF Put, grown, o, e
<1>6. CASE Len(grown) > Capacity
  <2>1. Cache(Tail(grown), slack) /\ Len(Tail(grown)) = Len(grown) - 1
    BY <1>3, <1>4, CacheTail
  <2> QED
    BY <1>1, <1>3, <1>4, <1>5, <1>6, <2>1, RemoteEngineAssumption
<1>7. CASE ~(Len(grown) > Capacity)
  BY <1>3, <1>4, <1>5, <1>7, RemoteEngineAssumption
<1> QED
  BY <1>6, <1>7

(* L1Cache.get, hit: the order changes and nothing else. *)
LEMMA CacheTouch ==
  ASSUME NEW slack, NEW w, Cache(w, slack), Len(w) <= Capacity,
         NEW i \in DOMAIN w
  PROVE  Cache(Touch(w, w[i]), slack) /\ Len(Touch(w, w[i])) <= Capacity
<1> DEFINE e == w[i]
           o == Without(w, e.key)
<1>1. /\ Cache(o, slack) /\ Len(o) = Len(w) - 1
      /\ \A j \in DOMAIN o : o[j].key # e.key
  BY CacheWithout
<1>2. e \in Entry /\ Young(e, slack) /\ Len(w) \in Nat
  BY ElementOfSeq, LenProperties DEF Cache
<1> HIDE DEF o, e
<1>3. Cache(Append(o, e), slack) /\ Len(Append(o, e)) = Len(o) + 1
  BY <1>1, <1>2, CacheAppend
<1> QED
  BY <1>1, <1>2, <1>3 DEF Touch, o, e

LEMMA EmptyCache ==
  ASSUME NEW slack
  PROVE  Cache(<<>>, slack) /\ Len(<<>>) <= Capacity
<1>1. <<>> \in Seq(Entry) /\ Len(<<>>) = 0 /\ DOMAIN <<>> = {}
  BY EmptySeq
<1> QED
  BY <1>1, RemoteEngineAssumption DEF Cache, Keyed

Aged(e) == [e EXCEPT !.age = OlderAge(@), !.life = UpTo(@, TTL + 1)]

(* A live entry's age and its stay grow together. *)
LEMMA AgedYoung ==
  ASSUME NEW slack \in Nat, NEW e \in Entry, Young(e, slack)
  PROVE  Aged(e) \in Entry /\ Aged(e).key = e.key /\ Young(Aged(e), slack)
<1>1. e = [key |-> e.key, age |-> e.age, life |-> e.life]
      /\ e.key \in Keys /\ e.age \in Nat /\ e.life \in Nat
  BY DEF Entry
<1>2. /\ OlderAge(e.age) \in Nat /\ OlderAge(e.age) <= e.age + 1
      /\ UpTo(e.life, TTL + 1) \in Nat
      /\ UpTo(e.life, TTL + 1) <= TTL => UpTo(e.life, TTL + 1) = e.life + 1
  BY <1>1, RemoteEngineAssumption DEF OlderAge, UpTo
<1> DEFINE older == OlderAge(e.age)
           longer == UpTo(e.life, TTL + 1)
<1>3. Aged(e) = [e EXCEPT !.age = older, !.life = longer]
  BY DEF Aged
<1>u. older \in Nat /\ longer \in Nat
  BY <1>2
<1> HIDE DEF older, longer
<1>4. /\ Aged(e) \in Entry /\ Aged(e).key = e.key
      /\ Aged(e).age = older /\ Aged(e).life = longer
  BY <1>3, <1>u DEF Entry
<1>5. ASSUME UpTo(e.life, TTL + 1) <= TTL
      PROVE  OlderAge(e.age) <= UpTo(e.life, TTL + 1) + slack
  <2>1. UpTo(e.life, TTL + 1) = e.life + 1
    BY <1>2, <1>5
  <2>2. e.age <= e.life + slack
    BY <1>1, <1>5, <2>1, RemoteEngineAssumption DEF Young
  <2> QED
    BY <1>1, <1>2, <2>1, <2>2
<1>6. Young(Aged(e), slack)
  BY <1>4, <1>5 DEF Young, older, longer
<1> QED
  BY <1>4, <1>6

LEMMA CacheAged ==
  ASSUME NEW slack \in Nat, NEW w, Cache(w, slack)
  PROVE  LET a == [i \in DOMAIN w |-> Aged(w[i])]
         IN  Cache(a, slack) /\ Len(a) = Len(w)
<1> DEFINE a == [i \in DOMAIN w |-> Aged(w[i])]
<1> USE DEF Cache, Keyed
<1>1. Len(w) \in Nat /\ DOMAIN w = 1 .. Len(w) /\ \A i \in 1 .. Len(w) : w[i] \in Entry
  BY LenProperties, ElementOfSeq
<1>2. \A i \in 1 .. Len(w) :
        Aged(w[i]) \in Entry /\ Aged(w[i]).key = w[i].key /\ Young(Aged(w[i]), slack)
  BY <1>1, AgedYoung
<1>3. a \in [1 .. Len(w) -> Entry]
  BY <1>1, <1>2
<1>4. a \in Seq(Entry) /\ Len(a) = Len(w) /\ DOMAIN a = 1 .. Len(w)
  BY <1>1, <1>3, IsASeq, LenProperties
<1>5. \A i \in 1 .. Len(w) : a[i] = Aged(w[i])
  BY <1>1
<1> HIDE DEF a
<1>6. \A i \in DOMAIN a : a[i].key = w[i].key /\ Young(a[i], slack)
  BY <1>2, <1>4, <1>5
<1>7. Keyed(a)
  BY <1>1, <1>4, <1>6
<1> QED
  BY <1>4, <1>6, <1>7 DEF a

-----------------------------------------------------------------------------
(* The invariant of the caches and of the calls.                           *)

(* What Redis holds lives for one TTL and is as old as its stay there.     *)
CachesFresh ==
  /\ redis \in BOOLEAN
  /\ Cache(l1, Slack) /\ Len(l1) <= Capacity
  /\ l2 \in [Keys -> {NoValue} \cup [age: Nat, life: Nat]]
  /\ \A k \in Keys : l2[k] # NoValue => l2[k].life <= TTL /\ l2[k].age <= l2[k].life

(* A call asks Redis only for a key, and only where there is a Redis.      *)
CallsFit ==
  /\ pc \in [Calls -> Busy \cup {"idle"}]
  /\ key \in [Calls -> Keys \cup {NoKey}]
  /\ returned \in [Calls -> Value \cup {NoValue}]
  /\ \A c \in Calls : pc[c] \in {"l2", "store"} => redis /\ key[c] \in Keys
  /\ ServedFresh

RInv == Guarded /\ CachesFresh /\ CallsFit

LEMMA SlackNat == CachesFresh => Slack \in Nat /\ (redis => Slack = TTL)
BY RemoteEngineAssumption DEF CachesFresh, Slack

LEMMA RInvInit == Init => RInv
<1> SUFFICES ASSUME Init PROVE RInv
  OBVIOUS
<1>1. CachesFresh
  BY EmptyCache DEF Init, CachesFresh
<1>2. CallsFit
  BY DEF Init, CallsFit, ServedFresh, Busy
<1> QED
  BY <1>1, <1>2, GuardedInit DEF RInv

(* A call that returns returns nothing, or a value of its key that is      *)
(* fresh enough.                                                           *)
LEMMA ReturnFits ==
  ASSUME CallsFit, NEW c \in Calls, NEW v, Return(c, v), redis' = redis,
         NEW k \in Keys \cup {NoKey}, key' = [key EXCEPT ![c] = k],
         v \in Value \cup {NoValue},
         v # NoValue => v.key = k /\ v.age <= IF redis THEN 2 * TTL ELSE TTL
  PROVE  CallsFit'
<1> USE DEF CallsFit, Return, Busy
<1>1. /\ pc' \in [Calls -> Busy \cup {"idle"}]
      /\ key' \in [Calls -> Keys \cup {NoKey}]
      /\ returned' \in [Calls -> Value \cup {NoValue}]
  OBVIOUS
<1>2. pc'[c] = "idle" /\ key'[c] = k /\ returned'[c] = v
  OBVIOUS
<1>3. \A d \in Calls \ {c} :
        pc'[d] = pc[d] /\ key'[d] = key[d] /\ returned'[d] = returned[d]
  OBVIOUS
<1>4. \A d \in Calls : pc'[d] \in {"l2", "store"} => redis' /\ key'[d] \in Keys
  BY <1>2, <1>3
<1>5. ServedFresh'
  BY <1>2, <1>3 DEF ServedFresh
<1> QED
  BY <1>1, <1>4, <1>5

(* A call that waits waits with its key.                                   *)
LEMMA WaitFits ==
  ASSUME CallsFit, NEW c \in Calls, NEW p \in Busy, NEW k \in Keys \cup {NoKey},
         pc' = [pc EXCEPT ![c] = p], key' = [key EXCEPT ![c] = k],
         returned' \in {returned, [returned EXCEPT ![c] = NoValue]},
         redis' = redis, p \in {"l2", "store"} => redis /\ k \in Keys
  PROVE  CallsFit'
<1> USE DEF CallsFit, Busy
<1>1. /\ pc' \in [Calls -> Busy \cup {"idle"}]
      /\ key' \in [Calls -> Keys \cup {NoKey}]
      /\ returned' \in [Calls -> Value \cup {NoValue}]
  OBVIOUS
<1>2. pc'[c] = p /\ key'[c] = k
  OBVIOUS
<1>3. \A d \in Calls \ {c} :
        pc'[d] = pc[d] /\ key'[d] = key[d] /\ returned'[d] = returned[d]
  OBVIOUS
<1>4. \A d \in Calls : pc'[d] \in {"l2", "store"} => redis' /\ key'[d] \in Keys
  BY <1>2, <1>3
<1>5. ServedFresh'
  BY <1>2, <1>3 DEF ServedFresh
<1> QED
  BY <1>1, <1>4, <1>5

LEMMA GoOutFits ==
  ASSUME CallsFit, NEW c \in Calls, GoOut(c), redis' = redis,
         NEW k \in Keys \cup {NoKey}, key' = [key EXCEPT ![c] = k]
  PROVE  CallsFit'
<1>1. CASE Allows(breaker)
  BY <1>1, WaitFits DEF GoOut, Busy
<1>2. CASE ~Allows(breaker)
  BY <1>2, ReturnFits DEF GoOut
<1> QED
  BY <1>1, <1>2

(* A step that keeps the key of its call. *)
LEMMA SameKey ==
  ASSUME CallsFit, NEW c \in Calls, key' = key
  PROVE  key[c] \in Keys \cup {NoKey} /\ key' = [key EXCEPT ![c] = key[c]]
BY DEF CallsFit

LEMMA RInvNext == RInv /\ [Next]_vars => RInv'
<1> SUFFICES ASSUME RInv, [Next]_vars PROVE CachesFresh' /\ CallsFit'
  BY GuardedNext DEF RInv
<1>a. CachesFresh /\ CallsFit /\ Slack \in Nat /\ (redis => Slack = TTL)
  BY SlackNat DEF RInv
<1>b. redis' = redis => Slack' = Slack
  BY DEF Slack
<1>t. TTL \in Nat /\ TTL <= 2 * TTL
  BY RemoteEngineAssumption
<1>1. ASSUME NEW c \in Calls, CallPlain(c) PROVE CachesFresh' /\ CallsFit'
  <2>1. CachesFresh'
    BY <1>a, <1>b, <1>1 DEF CallPlain, CachesFresh
  <2>2. CallsFit'
    BY <1>a, <1>1, GoOutFits DEF CallPlain
  <2> QED
    BY <2>1, <2>2
<1>2. ASSUME NEW c \in Calls, NEW k \in Keys, CallHit(c, k)
      PROVE  CachesFresh' /\ CallsFit'
  <2>1. PICK i \in DOMAIN l1 :
          /\ l1[i].key = k /\ Live(l1[i])
          /\ l1' = Touch(l1, l1[i])
          /\ Return(c, [key |-> l1[i].key, age |-> l1[i].age])
    BY <1>2 DEF CallHit, EntriesOf
  <2>2. Cache(Touch(l1, l1[i]), Slack) /\ Len(Touch(l1, l1[i])) <= Capacity
    BY <1>a, CacheTouch DEF CachesFresh
  <2>3. CachesFresh'
    BY <1>a, <1>b, <1>2, <2>1, <2>2 DEF CallHit, CachesFresh
  <2>4. l1[i] \in Entry /\ l1[i].age <= l1[i].life + Slack /\ l1[i].life <= TTL
    BY <1>a, <2>1, ElementOfSeq, LenProperties DEF CachesFresh, Cache, Young, Live
  <2>5. l1[i].key \in Keys /\ l1[i].age \in Nat /\ l1[i].life \in Nat
    BY <2>4 DEF Entry
  <2>6. l1[i].age <= IF redis THEN 2 * TTL ELSE TTL
    BY <1>t, <2>4, <2>5 DEF Slack
  <2> DEFINE v == [key |-> l1[i].key, age |-> l1[i].age]
  <2>7. v \in Value /\ v.key = k /\ v.age <= IF redis THEN 2 * TTL ELSE TTL
    BY <2>1, <2>5, <2>6 DEF Value
  <2>8. Return(c, v) /\ redis' = redis /\ key' = [key EXCEPT ![c] = k]
    BY <1>2, <2>1 DEF CallHit
  <2> HIDE DEF v
  <2>9. CallsFit'
    BY <1>a, <2>7, <2>8, ReturnFits
  <2> QED
    BY <2>3, <2>9
<1>3. ASSUME NEW c \in Calls, NEW k \in Keys, CallMiss(c, k)
      PROVE  CachesFresh' /\ CallsFit'
  <2>1. Cache(Without(l1, k), Slack) /\ Len(Without(l1, k)) <= Len(l1)
    BY <1>a, CacheWithout DEF CachesFresh
  <2>2. Len(Without(l1, k)) \in Nat /\ Len(l1) \in Nat
    BY <1>a, <2>1, LenProperties DEF CachesFresh, Cache
  <2>3. CachesFresh'
    BY <1>a, <1>b, <1>3, <2>1, <2>2, RemoteEngineAssumption DEF CallMiss, CachesFresh
  <2>4. CASE redis
    BY <1>a, <1>3, <2>3, <2>4, WaitFits DEF CallMiss, Busy
  <2>5. CASE ~redis
    BY <1>a, <1>3, <2>3, <2>5, GoOutFits DEF CallMiss
  <2> QED
    BY <2>3, <2>4, <2>5
<1>4. ASSUME NEW c \in Calls, RedisHit(c) PROVE CachesFresh' /\ CallsFit'
  <2> DEFINE v == [key |-> key[c], age |-> l2[key[c]].age]
  <2>1. redis /\ key[c] \in Keys /\ l2[key[c]] # NoValue
    BY <1>a, <1>4 DEF RedisHit, CallsFit
  <2>2. /\ l2[key[c]].age \in Nat /\ l2[key[c]].life \in Nat
        /\ l2[key[c]].life <= TTL /\ l2[key[c]].age <= l2[key[c]].life
    BY <1>a, <2>1 DEF CachesFresh
  <2>3. v \in Value /\ v.key = key[c] /\ v.age <= TTL /\ v.age \in Nat
    BY <1>t, <2>1, <2>2 DEF Value
  <2>4. l1' = Put(l1, v) /\ Return(c, v) /\ redis' = redis /\ l2' = l2 /\ key' = key
    BY <1>4 DEF RedisHit
  <2> HIDE DEF v
  <2>5. Cache(Put(l1, v), Slack) /\ Len(Put(l1, v)) <= Capacity
    BY <1>a, <2>1, <2>3, CachePut DEF CachesFresh
  <2>6. CachesFresh'
    BY <1>a, <1>b, <2>4, <2>5 DEF CachesFresh
  <2>7. v.age <= IF redis THEN 2 * TTL ELSE TTL
    BY <1>t, <2>1, <2>3
  <2>8. CallsFit'
    BY <1>a, <2>3, <2>4, <2>7, SameKey, ReturnFits
  <2> QED
    BY <2>6, <2>8
<1>5. ASSUME NEW c \in Calls, RedisMiss(c) PROVE CachesFresh' /\ CallsFit'
  <2>1. CachesFresh'
    BY <1>a, <1>b, <1>5 DEF RedisMiss, CachesFresh
  <2>2. CallsFit'
    BY <1>a, <1>5, SameKey, GoOutFits DEF RedisMiss
  <2> QED
    BY <2>1, <2>2
<1>6. ASSUME NEW c \in Calls, Succeed(c) PROVE CachesFresh' /\ CallsFit'
  <2>1. redis' = redis /\ l2' = l2 /\ key' = key /\ key[c] \in Keys \cup {NoKey}
        /\ key' = [key EXCEPT ![c] = key[c]]
    BY <1>a, <1>6, SameKey DEF Succeed
  <2>2. CASE key[c] = NoKey
    <3>1. l1' = l1 /\ Return(c, NoValue)
      BY <1>6, <2>2 DEF Succeed
    <3>2. CachesFresh'
      BY <1>a, <1>b, <2>1, <3>1 DEF CachesFresh
    <3>3. CallsFit'
      BY <1>a, <2>1, <3>1, ReturnFits
    <3> QED
      BY <3>2, <3>3
  <2>3. CASE key[c] # NoKey
    <3> DEFINE v == [key |-> key[c], age |-> 0]
    <3>1. l1' = Put(l1, v)
          /\ \/ Return(c, v)
             \/ redis /\ pc' = [pc EXCEPT ![c] = "store"] /\ returned' = returned
      BY <1>6, <2>3 DEF Succeed
    <3>2. v \in Value /\ v.key = key[c] /\ v.age = 0
      BY <2>1, <2>3 DEF Value
    <3>3. v.age <= Slack /\ v.age <= IF redis THEN 2 * TTL ELSE TTL
      BY <1>a, <1>t, <3>2
    <3> HIDE DEF v
    <3>4. Cache(Put(l1, v), Slack) /\ Len(Put(l1, v)) <= Capacity
      BY <1>a, <3>2, <3>3, CachePut DEF CachesFresh
    <3>5. CachesFresh'
      BY <1>a, <1>b, <2>1, <3>1, <3>4 DEF CachesFresh
    <3>6. CASE Return(c, v)
      BY <1>a, <2>1, <3>2, <3>3, <3>5, <3>6, ReturnFits
    <3>7. CASE redis /\ pc' = [pc EXCEPT ![c] = "store"] /\ returned' = returned
      BY <1>a, <2>1, <2>3, <3>5, <3>7, WaitFits DEF Busy
    <3> QED
      BY <3>1, <3>5, <3>6, <3>7
  <2> QED
    BY <2>2, <2>3
<1>7. ASSUME NEW c \in Calls, FailRemote(c) \/ RefuseRemote(c)
      PROVE  CachesFresh' /\ CallsFit'
  <2>1. /\ redis' = redis /\ l1' = l1 /\ l2' = l2 /\ key' = key
        /\ Return(c, NoValue)
    BY <1>7 DEF FailRemote, RefuseRemote
  <2>2. CachesFresh'
    BY <1>a, <1>b, <2>1 DEF CachesFresh
  <2>3. CallsFit'
    BY <1>a, <2>1, SameKey, ReturnFits
  <2> QED
    BY <2>2, <2>3
<1>8. ASSUME NEW c \in Calls, StoreRedis(c) \/ Cancel(c)
      PROVE  CachesFresh' /\ CallsFit'
  <2> DEFINE v == [key |-> key[c], age |-> 0]
             fresh == [age |-> 0, life |-> 0]
  <2>1. /\ redis' = redis /\ l1' = l1 /\ key' = key
        /\ key' = [key EXCEPT ![c] = key[c]] /\ key[c] \in Keys \cup {NoKey}
    BY <1>a, <1>8, SameKey DEF StoreRedis, Cancel
  <2>2. l2' \in {l2, [l2 EXCEPT ![key[c]] = fresh]}
    BY <1>8 DEF StoreRedis, Cancel, InRedis
  <2>3. fresh \in [age: Nat, life: Nat] /\ fresh.life <= TTL /\ fresh.age <= fresh.life
    BY <1>t
  <2> HIDE DEF fresh
  <2>4. CachesFresh'
    BY <1>a, <1>b, <2>1, <2>2, <2>3 DEF CachesFresh
  <2>5. CASE StoreRedis(c)
    <3>1. Return(c, v) /\ key[c] \in Keys
      BY <1>a, <2>5 DEF StoreRedis, CallsFit
    <3>2. v \in Value /\ v.key = key[c] /\ v.age <= IF redis THEN 2 * TTL ELSE TTL
      BY <1>t, <3>1 DEF Value
    <3> HIDE DEF v
    <3> QED
      BY <1>a, <2>1, <2>4, <3>1, <3>2, ReturnFits
  <2>6. CASE Cancel(c)
    <3>1. Return(c, NoValue)
      BY <2>6 DEF Cancel
    <3> QED
      BY <1>a, <2>1, <2>4, <3>1, ReturnFits
  <2> QED
    BY <1>8, <2>5, <2>6
<1>9. ASSUME NEW k \in Keys, OtherProcessStores(k) PROVE CachesFresh' /\ CallsFit'
  <2> DEFINE fresh == [age |-> 0, life |-> 0]
  <2>1. /\ redis' = redis /\ l1' = l1 /\ l2' = [l2 EXCEPT ![k] = fresh]
        /\ pc' = pc /\ key' = key /\ returned' = returned
    BY <1>9 DEF OtherProcessStores
  <2>2. fresh \in [age: Nat, life: Nat] /\ fresh.life <= TTL /\ fresh.age <= fresh.life
    BY <1>t
  <2> HIDE DEF fresh
  <2>3. CachesFresh'
    BY <1>a, <1>b, <2>1, <2>2 DEF CachesFresh
  <2>4. CallsFit'
    BY <1>a, <2>1 DEF CallsFit, ServedFresh
  <2> QED
    BY <2>3, <2>4
<1>10. CASE Restart
  <2>1. CachesFresh'
    BY <1>a, <1>b, <1>10, EmptyCache DEF Restart, CachesFresh
  <2>2. CallsFit'
    BY <1>a, <1>10 DEF Restart, CallsFit, ServedFresh, Busy
  <2> QED
    BY <2>1, <2>2
<1>11. CASE Tick
  <2>1. /\ redis' = redis /\ pc' = pc /\ key' = key /\ returned' = returned
        /\ l1' = [i \in DOMAIN l1 |-> Aged(l1[i])]
        /\ l2' = [k \in Keys |-> AgedInRedis(l2[k])]
    BY <1>11 DEF Tick, Aged
  <2>2. Cache(l1', Slack) /\ Len(l1') = Len(l1)
    BY <1>a, <2>1, CacheAged DEF CachesFresh
  <2>3. ASSUME NEW k \in Keys
        PROVE  /\ l2'[k] \in {NoValue} \cup [age: Nat, life: Nat]
               /\ l2'[k] # NoValue => l2'[k].life <= TTL /\ l2'[k].age <= l2'[k].life
    <3>1. l2'[k] = AgedInRedis(l2[k])
      BY <2>1
    <3>2. CASE l2[k] = NoValue \/ l2[k].life >= TTL
      BY <3>1, <3>2 DEF AgedInRedis
    <3>3. CASE ~(l2[k] = NoValue \/ l2[k].life >= TTL)
      <4>1. /\ l2[k].age \in Nat /\ l2[k].life \in Nat
            /\ l2[k].life < TTL /\ l2[k].age <= l2[k].life
        BY <1>a, <1>t, <3>3 DEF CachesFresh
      <4>2. OlderAge(l2[k].age) \in Nat /\ OlderAge(l2[k].age) <= l2[k].age + 1
        BY <1>t, <4>1 DEF OlderAge, UpTo
      <4>3. l2'[k] = [age |-> OlderAge(l2[k].age), life |-> l2[k].life + 1]
        BY <3>1, <3>3 DEF AgedInRedis
      <4> QED
        BY <1>t, <4>1, <4>2, <4>3
    <3> QED
      BY <3>2, <3>3
  <2>4. l2' \in [Keys -> {NoValue} \cup [age: Nat, life: Nat]]
    BY <2>1, <2>3
  <2>5. CachesFresh'
    BY <1>a, <1>b, <2>1, <2>2, <2>3, <2>4 DEF CachesFresh
  <2>6. CallsFit'
    BY <1>a, <2>1 DEF CallsFit, ServedFresh
  <2> QED
    BY <2>5, <2>6
<1>12. CASE UNCHANGED vars
  <2>1. CachesFresh'
    BY <1>a, <1>b, <1>12 DEF vars, CachesFresh
  <2>2. CallsFit'
    BY <1>a, <1>12 DEF vars, CallsFit, ServedFresh
  <2> QED
    BY <2>1, <2>2
<1> QED
  BY <1>1, <1>2, <1>3, <1>4, <1>5, <1>6, <1>7, <1>8, <1>9, <1>10, <1>11, <1>12
  DEF Next, Answer

LEMMA RInvAlways == Spec => []RInv
BY RInvInit, RInvNext, PTL DEF Spec

(* Every variable has its type; the L1 cache holds at most Capacity        *)
(* entries, one for each key.                                              *)
THEOREM EngineTyped == Spec => []TypeOK
<1>1. RInv => TypeOK
  BY DEF RInv, Guarded, BreakerTyped, CachesFresh, Cache, Keyed, CallsFit, TypeOK
<1> QED
  BY RInvAlways, <1>1, PTL

(* No call is served a value of another key, or one fetched longer ago     *)
(* than the TTL, or than twice the TTL where Redis may hand it to L1.      *)
THEOREM FreshServed == Spec => []ServedFresh
<1>1. RInv => ServedFresh
  BY DEF RInv, CallsFit
<1> QED
  BY RInvAlways, <1>1, PTL
=============================================================================
