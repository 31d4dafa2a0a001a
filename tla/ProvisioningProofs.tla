-------------------------- MODULE ProvisioningProofs --------------------------
(***************************************************************************)
(* Proofs about Provisioning, for every number of requests, engines, files *)
(* and personalities: type correctness, that the registry shares engines   *)
(* as SharedEngines says, that every engine is closed in the end and none  *)
(* while a request runs, what a reload leaves of the personalities, and    *)
(* that no request waits for what will not come.                           *)
(***************************************************************************)
EXTENDS Provisioning, SequenceTheorems, TLAPS

In(q, w) == \E i \in 1 .. Len(w) : w[i] = q
Distinct(w) == \A i, j \in 1 .. Len(w) : w[i] = w[j] => i = j

(* Nobody waits twice for a lock. *)
NoDuplicates == \A k \in Engine!Keys : Distinct(waiters[k])

(* A call that waits is one the request planned, and has given nothing. *)
WaitersPlanned ==
  \A r \in Requests, s \in Specs :
    In(r, waiters[Engine!CacheKey(s)]) =>
      s \in Plan(r) /\ got[r][s] = None /\ holder[Engine!CacheKey(s)] # r

(* Mutual exclusion: who makes an engine holds the lock of its key, and    *)
(* nothing is cached there until it has done.                              *)
MakersHoldLock ==
  \A r \in Requests, s \in Specs :
    <<r, s>> \in making =>
      /\ holder[Engine!CacheKey(s)] = r /\ cache[Engine!CacheKey(s)] = None
      /\ s \in Plan(r) /\ got[r][s] = None

(* A request has been given only what it planned, and what is cached. *)
GivenIsCached ==
  \A r \in Requests, s \in Specs :
    /\ got[r][s] # None => s \in Plan(r)
    /\ got[r][s] \notin {None, Failed} => got[r][s] = cache[Engine!CacheKey(s)]

(* What is cached under a key was made for a spec of that key. *)
CachedFits ==
  \A k \in Engine!Keys : cache[k] # None => Engine!CacheKey(cache[k].spec) = k

IdleWhenClosing ==
  life \in {"closing", "closed"} => \A r \in Requests : ~Running(r)

(* One engine at most is made for a key, and it is closed in the end. *)
EnginesCounted ==
  /\ life # "closed" => \A k \in Engine!Keys :
       \/ cache[k] = None /\ made[k] = 0
       \/ cache[k] # None /\ cache[k].number = 1 /\ made[k] = 1
  /\ life = "closed" => \A k \in Engine!Keys : \A n \in 1 .. made[k] :
       \E e \in closed : Engine!CacheKey(e.spec) = k /\ e.number = n
  /\ closed # {} => life \in {"closing", "closed"}

PInv ==
  /\ TypeOK
  /\ NoDuplicates /\ WaitersPlanned
  /\ MakersHoldLock /\ GivenIsCached /\ CachedFits
  /\ IdleWhenClosing /\ EnginesCounted

-----------------------------------------------------------------------------
(* Queues.                                                                 *)

LEMMA QueueAppend ==
  ASSUME NEW w \in Seq(Requests), NEW r \in Requests, Distinct(w), ~In(r, w)
  PROVE  /\ Append(w, r) \in Seq(Requests) /\ Distinct(Append(w, r))
         /\ \A q \in Requests : In(q, Append(w, r)) => In(q, w) \/ q = r
<1> DEFINE a == Append(w, r)
<1>1. /\ a \in Seq(Requests) /\ Len(a) = Len(w) + 1 /\ a[Len(w) + 1] = r
      /\ \A i \in 1 .. Len(w) : a[i] = w[i]
  BY AppendProperties
<1>2. Len(w) \in Nat
  BY LenProperties
<1> HIDE DEF a
<1>3. Distinct(a)
  BY <1>1, <1>2 DEF Distinct, In
<1>4. \A q \in Requests : In(q, a) => In(q, w) \/ q = r
  BY <1>1, <1>2 DEF In
<1> QED
  BY <1>1, <1>3, <1>4 DEF a

LEMMA QueueTail ==
  ASSUME NEW w \in Seq(Requests), Distinct(w), w # <<>>
  PROVE  /\ Tail(w) \in Seq(Requests) /\ Distinct(Tail(w))
         /\ In(Head(w), w) /\ ~In(Head(w), Tail(w))
         /\ \A q \in Requests : In(q, Tail(w)) => In(q, w)
<1> DEFINE t == Tail(w)
<1>1. /\ t \in Seq(Requests) /\ Len(t) = Len(w) - 1 /\ Head(w) = w[1]
      /\ \A i \in 1 .. Len(t) : t[i] = w[i + 1]
  BY HeadTailProperties
<1>2. Len(w) \in Nat \ {0}
  BY LenProperties, EmptySeq
<1> HIDE DEF t
<1>3. Distinct(t)
  BY <1>1, <1>2 DEF Distinct
<1>4. In(Head(w), w) /\ ~In(Head(w), t)
  BY <1>1, <1>2 DEF In, Distinct
<1>5. \A q \in Requests : In(q, t) => In(q, w)
  BY <1>1, <1>2 DEF In
<1> QED
  BY <1>1, <1>3, <1>4, <1>5 DEF t

LEMMA QueueWithout ==
  ASSUME NEW w \in Seq(Requests), Distinct(w), NEW r \in Requests, In(r, w)
  PROVE  /\ Engine!Without(w, r) \in Seq(Requests) /\ Distinct(Engine!Without(w, r))
         /\ \A q \in Requests : In(q, Engine!Without(w, r)) => In(q, w) /\ q # r
<1> DEFINE place == CHOOSE i \in 1 .. Len(w) : w[i] = r
           o == Engine!Without(w, r)
<1>1. place \in 1 .. Len(w) /\ w[place] = r
  BY DEF In
<1>2. Len(w) \in Nat \ {0}
  BY <1>1, LenProperties
<1>3. o = [i \in 1 .. Len(w) - 1 |-> w[IF i < place THEN i ELSE i + 1]]
  BY DEF Engine!Without
<1>4. \A i \in 1 .. Len(w) : w[i] \in Requests
  BY ElementOfSeq
<1> HIDE DEF place, o
<1>5. o \in Seq(Requests) /\ Len(o) = Len(w) - 1
  <2>1. \A i \in 1 .. Len(w) - 1 : o[i] \in Requests
    BY <1>1, <1>2, <1>3, <1>4
  <2>2. Len(w) - 1 \in Nat
    BY <1>2
  <2>3. o \in [1 .. Len(w) - 1 -> Requests]
    BY <1>3, <2>1
  <2> QED
    BY <2>2, <2>3, IsASeq, LenProperties
<1>6. \A i \in 1 .. Len(o) : o[i] = w[IF i < place THEN i ELSE i + 1]
  BY <1>3, <1>5
<1>7. Distinct(o)
  <2> SUFFICES ASSUME NEW i \in 1 .. Len(o), NEW j \in 1 .. Len(o), o[i] = o[j]
               PROVE  i = j
    BY DEF Distinct
  <2> DEFINE from(n) == IF n < place THEN n ELSE n + 1
  <2>1. from(i) \in 1 .. Len(w) /\ from(j) \in 1 .. Len(w)
    BY <1>1, <1>2, <1>5
  <2>2. w[from(i)] = w[from(j)]
    BY <1>6
  <2>3. from(i) = from(j)
    <3> HIDE DEF from
    <3> QED
      BY <2>1, <2>2 DEF Distinct
  <2> QED
    BY <1>1, <1>5, <2>3
<1>8. ASSUME NEW i \in 1 .. Len(o)
      PROVE  /\ o[i] # r
             /\ \E j \in 1 .. Len(w) : w[j] = o[i]
  <2> DEFINE j == IF i < place THEN i ELSE i + 1
  <2>1. j \in 1 .. Len(w) /\ j # place
    BY <1>1, <1>2, <1>5
  <2>2. o[i] = w[j]
    BY <1>6
  <2> HIDE DEF j
  <2>3. w[j] # w[place]
    BY <1>1, <2>1 DEF Distinct
  <2> QED
    BY <1>1, <2>1, <2>2, <2>3
<1>9. \A q \in Requests : In(q, o) => In(q, w) /\ q # r
  BY <1>8 DEF In
<1> QED
  BY <1>5, <1>7, <1>9 DEF o

-----------------------------------------------------------------------------
(* Keys and plans.                                                         *)

LEMMA KeyTyped == \A s \in Specs : Engine!CacheKey(s) \in Engine!Keys
BY DEF Engine!Keys

(* The key tells apart what is to be told apart. *)
LEMMA KeyInjective ==
  \A s, t \in Specs : Engine!CacheKey(s) = Engine!CacheKey(t) => s = t
<1> SUFFICES ASSUME NEW s \in Specs, NEW t \in Specs,
                    Engine!CacheKey(s) = Engine!CacheKey(t)
             PROVE  s = t
  OBVIOUS
<1>1. s.kind = t.kind /\ s.type = t.type /\ (s.kind = "ai" => s.model = t.model)
  BY DEF Engine!CacheKey
<1> QED
  BY <1>1, ProvisioningAssumption DEF Engine!RegistryConstants

LEMMA NoneIsNone ==
  /\ None \notin Requests /\ None # Failed /\ None \notin Definitions
  /\ None \notin Engine!Engines /\ Failed \notin Engine!Engines
BY ProvisioningAssumption
   DEF Engine!RegistryConstants, Personality!PersonalitiesConstants

LEMMA PlanTyped ==
  ASSUME TypeOK, NEW r \in Requests
  PROVE  Plan(r) \subseteq Specs /\ (Running(r) => with[r].ai \in Plan(r))
<1>1. with[r] \in Definitions \cup {None}
  BY DEF TypeOK
<1>2. ContextOf(with[r]) \subseteq Specs
  BY ProvisioningAssumption DEF ContextOf
<1> QED
  BY <1>1, <1>2, ProvisioningAssumption DEF Plan, Running

-----------------------------------------------------------------------------
(* The invariant.                                                          *)

LEMMA PInvInit == Init => PInv
<1> SUFFICES ASSUME Init PROVE PInv
  OBVIOUS
<1> USE DEF Init, Engine!Init, Personality!Init
<1>1. \A k \in Engine!Keys : waiters[k] = <<>> /\ Len(waiters[k]) = 0
  BY EmptySeq
<1>2. TypeOK
  BY EmptySeq DEF TypeOK, EnginesOrNone
<1>3. NoDuplicates /\ WaitersPlanned
  BY <1>1, KeyTyped DEF NoDuplicates, WaitersPlanned, In, Distinct
<1>4. MakersHoldLock /\ GivenIsCached /\ CachedFits
  BY DEF MakersHoldLock, GivenIsCached, CachedFits
<1>5. IdleWhenClosing /\ EnginesCounted
  BY DEF IdleWhenClosing, EnginesCounted
<1> QED
  BY <1>2, <1>3, <1>4, <1>5 DEF PInv

(* The body of get_or_create under a lock that was free. *)
LEMMA UnderLockInv ==
  ASSUME PInv, NEW r \in Requests, NEW s \in Specs,
         holder[Engine!CacheKey(s)] = None, s \in Plan(r), got[r][s] = None,
         Engine!UnderLock(r, s),
         waiters' \in [Engine!Keys -> Seq(Requests)], NoDuplicates',
         \A q \in Requests, k \in Engine!Keys : In(q, waiters'[k]) => In(q, waiters[k]),
         ~In(r, waiters'[Engine!CacheKey(s)]),
         UNCHANGED <<registry, with, life>>
  PROVE  PInv'
<1> DEFINE k0 == Engine!CacheKey(s)
<1> USE NoneIsNone
<1>1. k0 \in Engine!Keys
  BY KeyTyped
<1>2. \A q \in Requests : Plan(q)' = Plan(q)
  BY DEF Plan, Running, ContextOf
<1>3. /\ UNCHANGED <<cache, made, closed>>
      /\ \/ /\ UNCHANGED <<holder, making>>
            /\ got' = [got EXCEPT ![r][s] = IF cache[k0] = None THEN Failed ELSE cache[k0]]
         \/ /\ holder' = [holder EXCEPT ![k0] = r] /\ cache[k0] = None
            /\ making' = making \cup {<<r, s>>} /\ UNCHANGED got
  BY DEF Engine!UnderLock, Engine!FindCached, Engine!CreateRaises, Engine!StartCreation,
         Engine!Gives
<1>4. TypeOK'
  <2> USE DEF PInv, TypeOK
  <2>1. got' \in [Requests -> [Specs -> EnginesOrNone \cup {Failed}]]
    <3>1. cache[k0] \in EnginesOrNone
      BY <1>1
    <3>2. CASE got' = [got EXCEPT ![r][s] = IF cache[k0] = None THEN Failed ELSE cache[k0]]
      <4>1. (IF cache[k0] = None THEN Failed ELSE cache[k0]) \in EnginesOrNone \cup {Failed}
        BY <3>1
      <4> HIDE DEF k0
      <4> QED
        BY <3>2, <4>1
    <3> QED
      BY <1>3, <3>2
  <2>2. holder' \in [Engine!Keys -> Requests \cup {None}] /\ making' \subseteq Requests \X Specs
    <3>1. making \cup {<<r, s>>} \subseteq Requests \X Specs
      OBVIOUS
    <3>2. [holder EXCEPT ![k0] = r] \in [Engine!Keys -> Requests \cup {None}]
      BY <1>1
    <3> QED
      BY <1>3, <3>1, <3>2
  <2> QED
    BY <1>3, <2>1, <2>2 DEF PInv, TypeOK, EnginesOrNone
<1>5. \A q \in Requests, t \in Specs :
        /\ got[q][t] # got'[q][t] => /\ q = r /\ t = s /\ <<r, s>> \notin making'
                                     /\ got'[q][t] \in {Failed, cache[k0]}
        /\ <<q, t>> \in making' \ making => /\ q = r /\ t = s /\ cache[k0] = None
                                             /\ holder'[k0] = r
  <2>1. <<r, s>> \notin making
    BY DEF PInv, MakersHoldLock
  <2> QED
    BY <1>1, <1>3, <2>1 DEF PInv, TypeOK
<1>6. WaitersPlanned'
  <2> SUFFICES ASSUME NEW q \in Requests, NEW t \in Specs,
                      In(q, waiters'[Engine!CacheKey(t)])
               PROVE  /\ t \in Plan(q)' /\ got'[q][t] = None
                      /\ holder'[Engine!CacheKey(t)] # q
    BY DEF WaitersPlanned, In
  <2>1. In(q, waiters[Engine!CacheKey(t)])
    BY KeyTyped
  <2>2. t \in Plan(q) /\ got[q][t] = None /\ holder[Engine!CacheKey(t)] # q
    BY <2>1 DEF PInv, WaitersPlanned
  <2>3. ~(q = r /\ Engine!CacheKey(t) = k0)
    OBVIOUS
  <2>4. holder'[Engine!CacheKey(t)] # q
    BY <1>1, <1>3, <2>2, <2>3, KeyTyped DEF PInv, TypeOK
  <2> QED
    BY <1>2, <1>5, <2>2, <2>3, <2>4
<1>7. MakersHoldLock'
  <2> SUFFICES ASSUME NEW q \in Requests, NEW t \in Specs, <<q, t>> \in making'
               PROVE  /\ holder'[Engine!CacheKey(t)] = q /\ cache'[Engine!CacheKey(t)] = None
                      /\ t \in Plan(q)' /\ got'[q][t] = None
    BY DEF MakersHoldLock
  <2>1. CASE <<q, t>> \in making
    <3>1. /\ holder[Engine!CacheKey(t)] = q /\ cache[Engine!CacheKey(t)] = None
          /\ t \in Plan(q) /\ got[q][t] = None
      BY <2>1 DEF PInv, MakersHoldLock
    <3>2. Engine!CacheKey(t) # k0
      BY <3>1
    <3> QED
      BY <1>1, <1>2, <1>3, <1>5, <3>1, <3>2, KeyTyped DEF PInv, TypeOK
  <2>2. CASE <<q, t>> \notin making
    BY <1>2, <1>3, <1>5, <2>2
  <2> QED
    BY <2>1, <2>2
<1>8. GivenIsCached'
  <2> SUFFICES ASSUME NEW q \in Requests, NEW t \in Specs
               PROVE  /\ got'[q][t] # None => t \in Plan(q)'
                      /\ got'[q][t] \notin {None, Failed} =>
                           got'[q][t] = cache'[Engine!CacheKey(t)]
    BY DEF GivenIsCached
  <2>1. CASE got'[q][t] = got[q][t]
    <3>1. /\ got[q][t] # None => t \in Plan(q)
          /\ got[q][t] \notin {None, Failed} => got[q][t] = cache[Engine!CacheKey(t)]
      BY DEF PInv, GivenIsCached
    <3>2. cache' = cache /\ Plan(q)' = Plan(q)
      BY <1>2, <1>3
    <3> QED
      BY <2>1, <3>1, <3>2
  <2>2. CASE got'[q][t] # got[q][t]
    <3>1. q = r /\ t = s /\ got'[q][t] \in {Failed, cache[k0]}
      BY <1>5, <2>2
    <3>2. cache' = cache /\ Plan(q)' = Plan(q)
      BY <1>2, <1>3
    <3> QED
      BY <3>1, <3>2
  <2> QED
    BY <2>1, <2>2
<1>9. CachedFits' /\ IdleWhenClosing' /\ EnginesCounted'
  BY <1>3 DEF PInv, CachedFits, IdleWhenClosing, EnginesCounted, Running
<1> QED
  BY <1>4, <1>6, <1>7, <1>8, <1>9 DEF PInv

(* A call under way is one that holds the lock or waits for it. *)
LEMMA CallingIn ==
  ASSUME NEW r \in Requests, NEW s \in Specs
  PROVE  Engine!Calling(r, s) <=> \/ holder[Engine!CacheKey(s)] = r
                                  \/ In(r, waiters[Engine!CacheKey(s)])
BY DEF Engine!Calling, Engine!Waits, In

LEMMA ReadyPlanned ==
  ASSUME PInv, NEW r \in Requests, NEW s \in Specs, Ready(r, s)
  PROVE  s \in Plan(r)
BY DEF Ready, Plan

LEMMA AskInv ==
  ASSUME PInv, NEW r \in Requests, NEW s \in Specs, Ask(r, s)
  PROVE  PInv'
<1> DEFINE k0 == Engine!CacheKey(s)
<1>1. k0 \in Engine!Keys /\ s \in Plan(r)
  BY KeyTyped, ReadyPlanned DEF Ask
<1>2. CASE Engine!GetOrCreate(r, s)
  <2>1. /\ UNCHANGED <<waiters, registry, with, life>>
        /\ holder[k0] = None /\ got[r][s] = None /\ ~In(r, waiters[k0])
        /\ Engine!UnderLock(r, s)
    BY <1>2, CallingIn DEF Ask, Engine!GetOrCreate, Engine!LockFree
  <2>2. waiters' \in [Engine!Keys -> Seq(Requests)] /\ NoDuplicates'
    BY <2>1 DEF PInv, TypeOK, NoDuplicates
  <2> QED
    BY <1>1, <2>1, <2>2, UnderLockInv
<1>3. CASE Engine!AwaitLock(r, s)
  <2>1. /\ UNCHANGED <<cache, made, holder, making, got, closed, registry, with, life>>
        /\ waiters' = [waiters EXCEPT ![k0] = Append(waiters[k0], r)]
        /\ got[r][s] = None /\ ~In(r, waiters[k0]) /\ holder[k0] # r
    BY <1>3, CallingIn DEF Ask, Engine!AwaitLock
  <2>2. \A q \in Requests : Plan(q)' = Plan(q)
    BY <2>1 DEF Plan, Running, ContextOf
  <2>3. waiters[k0] \in Seq(Requests) /\ Distinct(waiters[k0])
    BY <1>1 DEF PInv, TypeOK, NoDuplicates
  <2>4. /\ Append(waiters[k0], r) \in Seq(Requests) /\ Distinct(Append(waiters[k0], r))
        /\ \A q \in Requests : In(q, Append(waiters[k0], r)) => In(q, waiters[k0]) \/ q = r
    BY <2>1, <2>3, QueueAppend
  <2>5. \A k \in Engine!Keys : /\ k = k0 => waiters'[k] = Append(waiters[k0], r)
                               /\ k # k0 => waiters'[k] = waiters[k]
    BY <1>1, <2>1 DEF PInv, TypeOK
  <2>6. TypeOK'
    BY <2>1, <2>4 DEF PInv, TypeOK, EnginesOrNone
  <2>7. NoDuplicates'
    BY <2>4, <2>5 DEF PInv, NoDuplicates
  <2>8. WaitersPlanned'
    <3> SUFFICES ASSUME NEW q \in Requests, NEW t \in Specs,
                        In(q, waiters'[Engine!CacheKey(t)])
                 PROVE  /\ t \in Plan(q)' /\ got'[q][t] = None
                        /\ holder'[Engine!CacheKey(t)] # q
      BY DEF WaitersPlanned, In
    <3>1. CASE In(q, waiters[Engine!CacheKey(t)])
      BY <2>1, <2>2, <3>1 DEF PInv, WaitersPlanned
    <3>2. CASE ~In(q, waiters[Engine!CacheKey(t)])
      <4>1. Engine!CacheKey(t) = k0 /\ q = r
        BY <2>4, <2>5, <3>2, KeyTyped
      <4>2. t = s
        BY <4>1, KeyInjective
      <4> QED
        BY <1>1, <2>1, <2>2, <4>1, <4>2
    <3> QED
      BY <3>1, <3>2
  <2>9. MakersHoldLock'
    BY <2>1 DEF PInv, MakersHoldLock, Plan, Running, ContextOf
  <2>10. GivenIsCached'
    BY <2>1 DEF PInv, GivenIsCached, Plan, Running, ContextOf
  <2>11. CachedFits' /\ IdleWhenClosing' /\ EnginesCounted'
    BY <2>1 DEF PInv, CachedFits, IdleWhenClosing, EnginesCounted, Running
  <2> QED
    BY <2>6, <2>7, <2>8, <2>9, <2>10, <2>11 DEF PInv
<1> QED
  BY <1>2, <1>3 DEF Ask

LEMMA GrantedInv ==
  ASSUME PInv, NEW r \in Requests, NEW s \in Specs, Engine!LockGranted(r, s),
         UNCHANGED <<registry, with, life>>
  PROVE  /\ PInv'
         /\ s \in Plan(r) /\ got[r][s] = None /\ holder[Engine!CacheKey(s)] = None
<1> DEFINE k0 == Engine!CacheKey(s)
<1>1. k0 \in Engine!Keys
  BY KeyTyped
<1>2. /\ holder[k0] = None /\ waiters[k0] # <<>> /\ Head(waiters[k0]) = r
      /\ waiters' = [waiters EXCEPT ![k0] = Tail(waiters[k0])]
      /\ Engine!UnderLock(r, s)
  BY DEF Engine!LockGranted
<1>3. waiters[k0] \in Seq(Requests) /\ Distinct(waiters[k0])
  BY <1>1 DEF PInv, TypeOK, NoDuplicates
<1>4. /\ Tail(waiters[k0]) \in Seq(Requests) /\ Distinct(Tail(waiters[k0]))
      /\ In(r, waiters[k0]) /\ ~In(r, Tail(waiters[k0]))
      /\ \A q \in Requests : In(q, Tail(waiters[k0])) => In(q, waiters[k0])
  BY <1>2, <1>3, QueueTail
<1>5. s \in Plan(r) /\ got[r][s] = None
  BY <1>4 DEF PInv, WaitersPlanned
<1>6. \A k \in Engine!Keys : /\ k = k0 => waiters'[k] = Tail(waiters[k0])
                             /\ k # k0 => waiters'[k] = waiters[k]
  BY <1>1, <1>2 DEF PInv, TypeOK
<1>7. waiters' \in [Engine!Keys -> Seq(Requests)]
  BY <1>2, <1>4 DEF PInv, TypeOK
<1>8. NoDuplicates'
  BY <1>4, <1>6 DEF PInv, NoDuplicates
<1>9. /\ \A q \in Requests, k \in Engine!Keys : In(q, waiters'[k]) => In(q, waiters[k])
      /\ ~In(r, waiters'[k0])
  BY <1>1, <1>4, <1>6
<1>10. PInv'
  BY <1>2, <1>5, <1>7, <1>8, <1>9, UnderLockInv
<1> QED
  BY <1>2, <1>5, <1>10

(* initialize() has ended, and the lock is released. *)
LEMMA CreationEndsInv ==
  ASSUME PInv, NEW r \in Requests, NEW s \in Specs,
         Engine!Initialized(r, s) \/ Engine!InitializeFails(r, s),
         UNCHANGED <<registry, with, life>>
  PROVE  PInv'
<1> USE NoneIsNone
<1> DEFINE k0 == Engine!CacheKey(s)
           e == [spec |-> s, number |-> made[k0] + 1]
<1>1. k0 \in Engine!Keys
  BY KeyTyped
<1>2. /\ <<r, s>> \in making
      /\ holder' = [holder EXCEPT ![k0] = None] /\ making' = making \ {<<r, s>>}
      /\ UNCHANGED <<waiters, closed, registry, with, life>>
      /\ \/ /\ cache' = [cache EXCEPT ![k0] = e] /\ made' = [made EXCEPT ![k0] = made[k0] + 1]
            /\ got' = [got EXCEPT ![r][s] = e]
         \/ UNCHANGED <<cache, made>> /\ got' = [got EXCEPT ![r][s] = Failed]
  BY DEF Engine!Initialized, Engine!InitializeFails, Engine!Released, Engine!Gives
<1>3. /\ holder[k0] = r /\ cache[k0] = None /\ s \in Plan(r) /\ got[r][s] = None
  BY <1>2 DEF PInv, MakersHoldLock
<1>4. \A q \in Requests : Plan(q)' = Plan(q)
  BY <1>2 DEF Plan, Running, ContextOf
<1>5. e \in Engine!Engines /\ e # None /\ e # Failed /\ Engine!CacheKey(e.spec) = k0
  <2>1. made[k0] \in Nat
    BY <1>1 DEF PInv, TypeOK
  <2> QED
    BY <2>1 DEF Engine!Engines
<1>6. \A k \in Engine!Keys :
        /\ k # k0 => cache'[k] = cache[k] /\ made'[k] = made[k] /\ holder'[k] = holder[k]
        /\ k = k0 => \/ cache'[k] = None /\ made'[k] = made[k]
                     \/ cache'[k] = e /\ made'[k] = made[k] + 1
  BY <1>1, <1>2, <1>3 DEF PInv, TypeOK
<1> HIDE DEF e
<1>7. \A q \in Requests, t \in Specs :
        \/ got'[q][t] = got[q][t] /\ ~(q = r /\ t = s)
        \/ q = r /\ t = s /\ (got'[q][t] = Failed \/ (got'[q][t] = e /\ cache'[k0] = e))
  <2> HIDE DEF k0
  <2>1. cache' = [cache EXCEPT ![k0] = e] => cache'[k0] = e
    BY <1>1 DEF PInv, TypeOK
  <2>2. got \in [Requests -> [Specs -> EnginesOrNone \cup {Failed}]]
    BY DEF PInv, TypeOK
  <2>3. CASE got' = [got EXCEPT ![r][s] = e] /\ cache'[k0] = e
    BY <2>2, <2>3
  <2>4. CASE got' = [got EXCEPT ![r][s] = Failed]
    <3>1. \A q \in Requests, t \in Specs :
            got'[q][t] = IF q = r /\ t = s THEN Failed ELSE got[q][t]
      BY <2>2, <2>4
    <3> QED
      BY <3>1
  <2> QED
    BY <1>2, <2>1, <2>3, <2>4
<1>8. TypeOK'
  <2> USE DEF PInv, TypeOK
  <2>1. cache' \in [Engine!Keys -> EnginesOrNone] /\ made' \in [Engine!Keys -> Nat]
    <3>1. e \in EnginesOrNone
      BY <1>5 DEF EnginesOrNone
    <3>2. made[k0] + 1 \in Nat
      BY <1>1
    <3> HIDE DEF k0
    <3>3. CASE UNCHANGED <<cache, made>>
      BY <3>3
    <3>4. CASE /\ cache' = [cache EXCEPT ![k0] = e]
               /\ made' = [made EXCEPT ![k0] = made[k0] + 1]
      BY <3>1, <3>2, <3>4
    <3> QED
      BY <1>2, <3>3, <3>4
  <2>2. holder' \in [Engine!Keys -> Requests \cup {None}] /\ making' \subseteq Requests \X Specs
    BY <1>1, <1>2
  <2>3. got' \in [Requests -> [Specs -> EnginesOrNone \cup {Failed}]]
    <3>1. e \in EnginesOrNone
      BY <1>5 DEF EnginesOrNone
    <3> HIDE DEF k0
    <3>2. [got EXCEPT ![r][s] = e] \in [Requests -> [Specs -> EnginesOrNone \cup {Failed}]]
      BY <3>1
    <3>3. [got EXCEPT ![r][s] = Failed] \in [Requests -> [Specs -> EnginesOrNone \cup {Failed}]]
      OBVIOUS
    <3> QED
      BY <1>2, <3>2, <3>3
  <2> QED
    BY <1>2, <2>1, <2>2, <2>3
<1>9. WaitersPlanned'
  <2> SUFFICES ASSUME NEW q \in Requests, NEW t \in Specs,
                      In(q, waiters'[Engine!CacheKey(t)])
               PROVE  /\ t \in Plan(q)' /\ got'[q][t] = None
                      /\ holder'[Engine!CacheKey(t)] # q
    BY DEF WaitersPlanned, In
  <2>1. t \in Plan(q) /\ got[q][t] = None /\ holder[Engine!CacheKey(t)] # q
    BY <1>2 DEF PInv, WaitersPlanned
  <2>2. ~(q = r /\ t = s)
    BY <1>3, <2>1
  <2>3. holder'[Engine!CacheKey(t)] # q
    BY <1>1, <1>2, <2>1, KeyTyped DEF PInv, TypeOK
  <2> QED
    BY <1>4, <1>7, <2>1, <2>2, <2>3
<1>10. MakersHoldLock'
  <2> SUFFICES ASSUME NEW q \in Requests, NEW t \in Specs, <<q, t>> \in making'
               PROVE  /\ holder'[Engine!CacheKey(t)] = q /\ cache'[Engine!CacheKey(t)] = None
                      /\ t \in Plan(q)' /\ got'[q][t] = None
    BY DEF MakersHoldLock
  <2>1. /\ holder[Engine!CacheKey(t)] = q /\ cache[Engine!CacheKey(t)] = None
        /\ t \in Plan(q) /\ got[q][t] = None /\ ~(q = r /\ t = s)
    BY <1>2 DEF PInv, MakersHoldLock
  <2>2. Engine!CacheKey(t) # k0
    BY <1>3, <2>1, KeyInjective
  <2> QED
    BY <1>4, <1>6, <1>7, <2>1, <2>2, KeyTyped
<1>11. GivenIsCached'
  <2> SUFFICES ASSUME NEW q \in Requests, NEW t \in Specs
               PROVE  /\ got'[q][t] # None => t \in Plan(q)'
                      /\ got'[q][t] \notin {None, Failed} =>
                           got'[q][t] = cache'[Engine!CacheKey(t)]
    BY DEF GivenIsCached
  <2>1. CASE q = r /\ t = s
    BY <1>3, <1>4, <1>7, <2>1
  <2>2. CASE ~(q = r /\ t = s)
    <3>1. /\ got[q][t] # None => t \in Plan(q)
          /\ got[q][t] \notin {None, Failed} => got[q][t] = cache[Engine!CacheKey(t)]
      BY DEF PInv, GivenIsCached
    <3>2. got'[q][t] = got[q][t]
      BY <1>7, <2>2
    <3>3. got[q][t] \notin {None, Failed} => Engine!CacheKey(t) # k0
      BY <1>3, <3>1
    <3> QED
      BY <1>4, <1>6, <3>1, <3>2, <3>3, KeyTyped
  <2> QED
    BY <2>1, <2>2
<1>12. CachedFits'
  BY <1>5, <1>6 DEF PInv, CachedFits
<1>13. NoDuplicates' /\ IdleWhenClosing'
  BY <1>2 DEF PInv, NoDuplicates, IdleWhenClosing, Running
<1>14. EnginesCounted'
  <2>1. life \notin {"closing", "closed"} /\ UNCHANGED <<closed, life>>
    BY <1>2, <1>3 DEF PInv, IdleWhenClosing, Plan
  <2>2. made[k0] = 0 /\ e.number = 1 /\ made[k0] + 1 = 1
    BY <1>1, <1>3, <2>1 DEF PInv, EnginesCounted, e
  <2> QED
    BY <1>5, <1>6, <2>1, <2>2 DEF PInv, EnginesCounted
<1> QED
  BY <1>8, <1>9, <1>10, <1>11, <1>12, <1>13, <1>14 DEF PInv

(* A request ends: its calls, locks and places in queues are gone. *)
LEMMA ForgetInv ==
  ASSUME PInv, NEW r \in Requests, Engine!Forget(r),
         with' = [with EXCEPT ![r] = None], UNCHANGED <<registry, life>>
  PROVE  PInv'
<1> USE NoneIsNone
<1>1. /\ UNCHANGED <<cache, made, closed>>
      /\ holder' = [k \in Engine!Keys |->
                      IF \E s \in Specs : <<r, s>> \in making /\ Engine!CacheKey(s) = k
                      THEN None ELSE holder[k]]
      /\ waiters' = [k \in Engine!Keys |-> IF Engine!Waits(r, k) THEN Engine!Without(waiters[k], r)
                                           ELSE waiters[k]]
      /\ making' = {call \in making : call[1] # r}
      /\ got' = [got EXCEPT ![r] = [s \in Specs |-> None]]
  BY DEF Engine!Forget
<1>2. \A q \in Requests : /\ q # r => with'[q] = with[q] /\ got'[q] = got[q] /\ Plan(q)' = Plan(q)
                          /\ q = r => with'[q] = None /\ \A s \in Specs : got'[q][s] = None
  BY <1>1 DEF PInv, TypeOK, Plan, Running, ContextOf
<1>3. \A k \in Engine!Keys :
        /\ waiters'[k] \in Seq(Requests) /\ Distinct(waiters'[k])
        /\ \A q \in Requests : In(q, waiters'[k]) => In(q, waiters[k]) /\ q # r
  <2> SUFFICES ASSUME NEW k \in Engine!Keys
               PROVE  /\ waiters'[k] \in Seq(Requests) /\ Distinct(waiters'[k])
                      /\ \A q \in Requests : In(q, waiters'[k]) => In(q, waiters[k]) /\ q # r
    OBVIOUS
  <2>1. waiters[k] \in Seq(Requests) /\ Distinct(waiters[k])
    BY DEF PInv, TypeOK, NoDuplicates
  <2>2. CASE In(r, waiters[k])
    <3>1. waiters'[k] = Engine!Without(waiters[k], r)
      BY <1>1, <2>2 DEF Engine!Waits, In
    <3> QED
      BY <2>1, <2>2, <3>1, QueueWithout
  <2>3. CASE ~In(r, waiters[k])
    <3>1. waiters'[k] = waiters[k]
      BY <1>1, <2>3 DEF Engine!Waits, In
    <3> QED
      BY <2>1, <2>3, <3>1
  <2> QED
    BY <2>2, <2>3
<1>4. TypeOK'
  <2> USE DEF PInv, TypeOK
  <2>1. waiters' \in [Engine!Keys -> Seq(Requests)]
    BY <1>1, <1>3
  <2>2. holder' \in [Engine!Keys -> Requests \cup {None}] /\ making' \subseteq Requests \X Specs
    BY <1>1
  <2>3. got' \in [Requests -> [Specs -> EnginesOrNone \cup {Failed}]]
    BY <1>1 DEF EnginesOrNone
  <2>4. with' \in [Requests -> Definitions \cup {None}]
    OBVIOUS
  <2> QED
    BY <1>1, <2>1, <2>2, <2>3, <2>4 DEF EnginesOrNone
<1>5. NoDuplicates'
  BY <1>3 DEF NoDuplicates
<1>6. \A k \in Engine!Keys : \/ holder'[k] = holder[k]
                             \/ holder[k] = r /\ holder'[k] = None
  <2>1. \A s \in Specs : <<r, s>> \in making => holder[Engine!CacheKey(s)] = r
    BY DEF PInv, MakersHoldLock
  <2> QED
    BY <1>1, <2>1
<1>7. WaitersPlanned'
  <2> SUFFICES ASSUME NEW q \in Requests, NEW t \in Specs,
                      In(q, waiters'[Engine!CacheKey(t)])
               PROVE  /\ t \in Plan(q)' /\ got'[q][t] = None
                      /\ holder'[Engine!CacheKey(t)] # q
    BY DEF WaitersPlanned, In
  <2>1. q # r /\ In(q, waiters[Engine!CacheKey(t)])
    BY <1>3, KeyTyped
  <2>2. t \in Plan(q) /\ got[q][t] = None /\ holder[Engine!CacheKey(t)] # q
    BY <2>1 DEF PInv, WaitersPlanned
  <2>3. holder'[Engine!CacheKey(t)] # q
    BY <1>6, <2>2, KeyTyped
  <2> QED
    BY <1>2, <2>1, <2>2, <2>3
<1>8. MakersHoldLock'
  <2> SUFFICES ASSUME NEW q \in Requests, NEW t \in Specs, <<q, t>> \in making'
               PROVE  /\ holder'[Engine!CacheKey(t)] = q /\ cache'[Engine!CacheKey(t)] = None
                      /\ t \in Plan(q)' /\ got'[q][t] = None
    BY DEF MakersHoldLock
  <2>1. <<q, t>> \in making /\ q # r
    BY <1>1
  <2>2. /\ holder[Engine!CacheKey(t)] = q /\ cache[Engine!CacheKey(t)] = None
        /\ t \in Plan(q) /\ got[q][t] = None
    BY <2>1 DEF PInv, MakersHoldLock
  <2> QED
    BY <1>1, <1>2, <1>6, <2>1, <2>2, KeyTyped
<1>9. GivenIsCached'
  <2> SUFFICES ASSUME NEW q \in Requests, NEW t \in Specs
               PROVE  /\ got'[q][t] # None => t \in Plan(q)'
                      /\ got'[q][t] \notin {None, Failed} =>
                           got'[q][t] = cache'[Engine!CacheKey(t)]
    BY DEF GivenIsCached
  <2>1. CASE q = r
    BY <1>2, <2>1
  <2>2. CASE q # r
    <3>1. got'[q] = got[q] /\ Plan(q)' = Plan(q) /\ cache' = cache
      BY <1>1, <1>2, <2>2
    <3> QED
      BY <3>1 DEF PInv, GivenIsCached
  <2> QED
    BY <2>1, <2>2
<1>10. CachedFits' /\ EnginesCounted'
  BY <1>1 DEF PInv, CachedFits, EnginesCounted
<1>11. IdleWhenClosing'
  BY <1>2 DEF PInv, IdleWhenClosing, Running
<1> QED
  BY <1>4, <1>5, <1>7, <1>8, <1>9, <1>10, <1>11 DEF PInv

LEMMA BeginInv ==
  ASSUME PInv, NEW r \in Requests, NEW id \in Ids, Begin(r, id)
  PROVE  PInv'
<1> USE NoneIsNone
<1>1. /\ UNCHANGED <<cache, made, holder, waiters, making, got, closed, registry, life>>
      /\ with' = [with EXCEPT ![r] = registry[id]] /\ registry[id] \in Definitions
      /\ with[r] = None /\ life = "up"
  BY DEF Begin, engineVars, Running, PInv, TypeOK
<1>2. \A q \in Requests : q # r => Plan(q)' = Plan(q)
  BY <1>1 DEF PInv, TypeOK, Plan, Running, ContextOf
<1>3. Plan(r) = {}
  BY <1>1 DEF Plan, Running
<1>4. TypeOK'
  BY <1>1 DEF PInv, TypeOK, EnginesOrNone
<1>5. WaitersPlanned'
  <2> SUFFICES ASSUME NEW q \in Requests, NEW t \in Specs,
                      In(q, waiters[Engine!CacheKey(t)])
               PROVE  /\ t \in Plan(q)' /\ got[q][t] = None
                      /\ holder[Engine!CacheKey(t)] # q
    BY <1>1 DEF WaitersPlanned, In
  <2> QED
    BY <1>2, <1>3 DEF PInv, WaitersPlanned
<1>6. MakersHoldLock'
  <2> SUFFICES ASSUME NEW q \in Requests, NEW t \in Specs, <<q, t>> \in making
               PROVE  /\ holder[Engine!CacheKey(t)] = q /\ cache[Engine!CacheKey(t)] = None
                      /\ t \in Plan(q)' /\ got[q][t] = None
    BY <1>1 DEF MakersHoldLock
  <2> QED
    BY <1>2, <1>3 DEF PInv, MakersHoldLock
<1>7. GivenIsCached'
  <2> SUFFICES ASSUME NEW q \in Requests, NEW t \in Specs
               PROVE  /\ got[q][t] # None => t \in Plan(q)'
                      /\ got[q][t] \notin {None, Failed} =>
                           got[q][t] = cache[Engine!CacheKey(t)]
    BY <1>1 DEF GivenIsCached
  <2> QED
    BY <1>2, <1>3 DEF PInv, GivenIsCached
<1>8. NoDuplicates' /\ CachedFits' /\ IdleWhenClosing' /\ EnginesCounted'
  BY <1>1 DEF PInv, NoDuplicates, CachedFits, IdleWhenClosing, EnginesCounted
<1> QED
  BY <1>4, <1>5, <1>6, <1>7, <1>8 DEF PInv

(* What a load makes of the registry, whatever the files hold. *)
LEMMA LoadResult ==
  ASSUME PInv, NEW dir \in Personality!Directories, Personality!LoadAll(dir)
  PROVE  /\ registry' \in [Ids -> Definitions \cup {None}]
         /\ \A id \in Ids : \/ registry'[id] = registry[id]
                            \/ registry'[id] \in Definitions /\ registry'[id].id = id
<1> SUFFICES ASSUME NEW id \in Ids
             PROVE  \/ registry'[id] = registry[id]
                    \/ registry'[id] \in Definitions /\ registry'[id].id = id
  BY DEF Personality!LoadAll, PInv, TypeOK
<1>1. CASE Personality!LastOf(id, dir) = {}
  BY <1>1 DEF Personality!LoadAll
<1>2. CASE Personality!LastOf(id, dir) # {}
  <2> DEFINE f == CHOOSE g \in Personality!LastOf(id, dir) : TRUE
  <2>1. f \in Personality!LastOf(id, dir)
    BY <1>2
  <2>2. /\ f \in Personality!Files /\ dir[f] # Absent /\ dir[f].id = id
        /\ \A g \in 1 .. f : dir[g] # Broken
    BY <2>1 DEF Personality!LastOf, Personality!FilesOf
  <2>3. dir[f] # Broken
    BY <2>2, ProvisioningAssumption DEF Personality!Files, Personality!PersonalitiesConstants
  <2>4. registry'[id] = dir[f]
    BY <1>2 DEF Personality!LoadAll
  <2> HIDE DEF f
  <2> QED
    BY <2>2, <2>3, <2>4 DEF Personality!Directories
<1> QED
  BY <1>1, <1>2

(* The steps that touch no engine and no request. *)
LEMMA ProcessInv ==
  ASSUME PInv, Reload \/ Start \/ Shutdown \/ Drained
  PROVE  PInv'
<1>1. UNCHANGED <<cache, made, holder, waiters, making, got, closed, with>>
  BY DEF Reload, Start, Shutdown, Drained, engineVars
<1>2. registry' \in [Ids -> Definitions \cup {None}]
  <2>1. CASE Reload \/ Start
    BY <2>1, LoadResult DEF Reload, Start
  <2>2. CASE Shutdown \/ Drained
    BY <2>2 DEF Shutdown, Drained, PInv, TypeOK
  <2> QED
    BY <2>1, <2>2
<1>3. /\ life' \in {"off", "failed", "up", "draining", "closing", "closed"}
      /\ life # "closed" /\ life' # "closed" /\ (life = "closing" => life' = "closing")
      /\ life' = "closing" => \A r \in Requests : ~Running(r)
  BY DEF Reload, Start, Shutdown, Drained, PInv, TypeOK
<1>4. TypeOK'
  BY <1>1, <1>2, <1>3 DEF PInv, TypeOK, EnginesOrNone
<1>5. \A r \in Requests : Plan(r)' = Plan(r)
  BY <1>1 DEF Plan, Running, ContextOf
<1>6. NoDuplicates' /\ CachedFits'
  BY <1>1 DEF PInv, NoDuplicates, CachedFits
<1>7. WaitersPlanned' /\ MakersHoldLock' /\ GivenIsCached'
  BY <1>1 DEF PInv, WaitersPlanned, MakersHoldLock, GivenIsCached, Plan, Running, ContextOf
<1>8. IdleWhenClosing' /\ EnginesCounted'
  BY <1>1, <1>3 DEF PInv, IdleWhenClosing, EnginesCounted, Running
<1> QED
  BY <1>4, <1>6, <1>7, <1>8 DEF PInv

LEMMA CloseInv ==
  ASSUME PInv, NEW k \in Engine!Keys, Close(k)
  PROVE  PInv'
<1>1. /\ UNCHANGED <<cache, made, holder, waiters, making, got, registry, with, life>>
      /\ life = "closing" /\ closed' = closed \cup {cache[k]} /\ cache[k] # None
  BY DEF Close, Engine!CloseEngine, Engine!Open
<1>2. TypeOK'
  BY <1>1 DEF PInv, TypeOK, EnginesOrNone
<1>3. NoDuplicates' /\ CachedFits'
  BY <1>1 DEF PInv, NoDuplicates, CachedFits
<1>4. WaitersPlanned' /\ MakersHoldLock' /\ GivenIsCached'
  BY <1>1 DEF PInv, WaitersPlanned, MakersHoldLock, GivenIsCached, Plan, Running, ContextOf
<1>5. IdleWhenClosing' /\ EnginesCounted'
  BY <1>1 DEF PInv, IdleWhenClosing, EnginesCounted, Running
<1> QED
  BY <1>2, <1>3, <1>4, <1>5 DEF PInv

(* Nobody runs: no call is under way and none has given anything. *)
LEMMA ClosedInv ==
  ASSUME PInv, Closed
  PROVE  PInv' /\ \A r \in Requests : Plan(r) = {}
<1> USE NoneIsNone
<1>1. /\ UNCHANGED <<made, holder, waiters, making, got, closed, registry, with>>
      /\ life = "closing" /\ life' = "closed" /\ cache' = [k \in Engine!Keys |-> None]
      /\ \A k \in Engine!Keys : cache[k] = None \/ cache[k] \in closed
  BY DEF Closed, Engine!ClearAll, Engine!Open
<1>2. \A r \in Requests : Plan(r) = {} /\ Plan(r)' = {}
  BY <1>1 DEF PInv, IdleWhenClosing, Plan, Running
<1>3. TypeOK'
  BY <1>1 DEF PInv, TypeOK, EnginesOrNone
<1>4. NoDuplicates' /\ CachedFits'
  BY <1>1 DEF PInv, NoDuplicates, CachedFits
<1>5. making = {}
  BY <1>2 DEF PInv, MakersHoldLock, TypeOK
<1>6. \A r \in Requests, s \in Specs :
        /\ got'[r][s] = None /\ ~In(r, waiters'[Engine!CacheKey(s)]) /\ <<r, s>> \notin making'
  <2> SUFFICES ASSUME NEW r \in Requests, NEW s \in Specs
               PROVE  /\ got[r][s] = None /\ ~In(r, waiters[Engine!CacheKey(s)])
                      /\ <<r, s>> \notin making
    BY <1>1
  <2> QED
    BY <1>2, <1>5 DEF PInv, GivenIsCached, WaitersPlanned
<1>7. WaitersPlanned' /\ MakersHoldLock' /\ GivenIsCached'
  BY <1>6 DEF WaitersPlanned, MakersHoldLock, GivenIsCached, In
<1>8. IdleWhenClosing'
  BY <1>1 DEF PInv, IdleWhenClosing, Running
<1>9. EnginesCounted'
  <2>1. \A k \in Engine!Keys : \A n \in 1 .. made[k] :
          \E e \in closed : Engine!CacheKey(e.spec) = k /\ e.number = n
    <3> SUFFICES ASSUME NEW k \in Engine!Keys, NEW n \in 1 .. made[k]
                 PROVE  /\ cache[k] \in closed /\ Engine!CacheKey(cache[k].spec) = k
                        /\ cache[k].number = n
      OBVIOUS
    <3>1. cache[k] # None /\ cache[k].number = 1 /\ made[k] = 1
      BY <1>1 DEF PInv, EnginesCounted
    <3> QED
      BY <1>1, <3>1 DEF PInv, CachedFits
  <2> QED
    BY <1>1, <2>1 DEF EnginesCounted
<1> QED
  BY <1>2, <1>3, <1>4, <1>7, <1>8, <1>9 DEF PInv

LEMMA PInvStutters == PInv /\ UNCHANGED vars => PInv'
<1> SUFFICES ASSUME PInv, UNCHANGED vars PROVE PInv'
  OBVIOUS
<1> USE DEF vars
<1>1. TypeOK' /\ NoDuplicates' /\ CachedFits'
  BY DEF PInv, TypeOK, EnginesOrNone, NoDuplicates, CachedFits
<1>2. WaitersPlanned' /\ MakersHoldLock' /\ GivenIsCached'
  BY DEF PInv, WaitersPlanned, MakersHoldLock, GivenIsCached, Plan, Running, ContextOf
<1>3. IdleWhenClosing' /\ EnginesCounted'
  BY DEF PInv, IdleWhenClosing, EnginesCounted, Running
<1> QED
  BY <1>1, <1>2, <1>3 DEF PInv

LEMMA PInvNext == PInv /\ [Next]_vars => PInv'
<1> SUFFICES ASSUME PInv, [Next]_vars PROVE PInv'
  OBVIOUS
<1>1. ASSUME NEW r \in Requests, NEW s \in Specs, Ask(r, s) PROVE PInv'
  BY <1>1, AskInv
<1>2. ASSUME NEW r \in Requests, NEW s \in Specs, Resume(r, s) PROVE PInv'
  <2>1. UNCHANGED <<registry, with, life>>
    BY <1>2 DEF Resume
  <2> QED
    BY <1>2, <2>1, GrantedInv, CreationEndsInv DEF Resume
<1>3. ASSUME NEW r \in Requests, End(r) \/ Cancel(r) PROVE PInv'
  BY <1>3, ForgetInv DEF End, Cancel
<1>4. ASSUME NEW r \in Requests, NEW id \in Ids, Begin(r, id) PROVE PInv'
  BY <1>4, BeginInv
<1>5. CASE Reload \/ Start \/ Shutdown \/ Drained
  BY <1>5, ProcessInv
<1>6. ASSUME NEW k \in Engine!Keys, Close(k) PROVE PInv'
  BY <1>6, CloseInv
<1>7. CASE Closed
  BY <1>7, ClosedInv
<1>8. CASE UNCHANGED vars
  BY <1>8, PInvStutters
<1> QED
  BY <1>1, <1>2, <1>3, <1>4, <1>5, <1>6, <1>7, <1>8 DEF Next, RequestStep, ClosingStep

(* The inductive invariant holds in every behaviour. *)
THEOREM ProvisioningInvariant == Spec => []PInv
<1>1. Init => PInv
  BY PInvInit
<1>2. PInv /\ [Next]_vars => PInv'
  BY PInvNext
<1> QED
  BY <1>1, <1>2, PTL DEF Spec

(* Type correctness of the registry, the requests and the process. *)
THEOREM ProvisioningTyped == Spec => []TypeOK
<1>1. PInv => TypeOK
  BY DEF PInv
<1> QED
  BY <1>1, ProvisioningInvariant, PTL

(* close_all closes every engine that was ever handed out, whatever the    *)
(* close() of another does, and closes none under a running request.       *)
THEOREM EnginesClosedOnceIdle == Spec => []ClosedOnceIdle
<1>1. PInv => ClosedOnceIdle
  BY DEF PInv, EnginesCounted, IdleWhenClosing, ClosedOnceIdle
<1> QED
  BY <1>1, ProvisioningInvariant, PTL

(* A reload, failed or not, leaves each id what it served or gives it a    *)
(* definition some file has for it.                                        *)
THEOREM ReloadsKeepServing == Spec => ReloadKeepsServing
<1>1. PInv /\ [Next]_vars => [LoadStep]_registry
  <2> SUFFICES ASSUME PInv, Next, registry' # registry PROVE LoadStep
    BY DEF vars
  <2>1. Reload \/ Start
    <3>1. \A r \in Requests, s \in Specs : Ask(r, s) \/ Resume(r, s) => registry' = registry
      BY DEF Ask, Resume
    <3>2. \A r \in Requests : End(r) \/ Cancel(r) => registry' = registry
      BY DEF End, Cancel
    <3>3. \A r \in Requests, id \in Ids : Begin(r, id) => registry' = registry
      BY DEF Begin
    <3>4. Shutdown \/ ClosingStep => registry' = registry
      BY DEF Shutdown, ClosingStep, Drained, Closed, Close
    <3> QED
      BY <3>1, <3>2, <3>3, <3>4 DEF Next, RequestStep
  <2>2. PICK dir \in Personality!Directories : Personality!LoadAll(dir)
    BY <2>1 DEF Reload, Start
  <2> QED
    BY <2>2, LoadResult DEF LoadStep
<1> QED
  BY <1>1, ProvisioningInvariant, PTL DEF Spec, ReloadKeepsServing

-----------------------------------------------------------------------------
(* Nobody waits for what will not come.                                    *)

(* A lock is held only while its holder makes the engine of its key.       *)
HoldersMake ==
  \A k \in Engine!Keys :
    holder[k] # None =>
      \E s \in Specs : Engine!CacheKey(s) = k /\ <<holder[k], s>> \in making

(* One of a request's own steps has its guards: it ends, asks for its next *)
(* engine, has its initialize() to end, or is the first at a free lock.    *)
CanStep(r) ==
  \/ Running(r) /\ got[r][with[r].ai] # None
  \/ \E s \in Specs :
       \/ Ready(r, s) /\ got[r][s] = None /\ ~Engine!Calling(r, s)
       \/ <<r, s>> \in making
       \/ /\ holder[Engine!CacheKey(s)] = None
          /\ waiters[Engine!CacheKey(s)] # <<>>
          /\ Head(waiters[Engine!CacheKey(s)]) = r

(* r waits for the lock of s, and it is q's turn: q makes the engine, or   *)
(* is the first at the free lock.                                          *)
WaitsFor(r, s, q) ==
  LET k == Engine!CacheKey(s) IN
  /\ In(r, waiters[k])
  /\ \/ holder[k] = q /\ <<q, s>> \in making
     \/ holder[k] = None /\ Head(waiters[k]) = q

(* Whoever runs can go on, or waits for one who runs and can go on: no     *)
(* chain of waiting is longer than that.                                   *)
NobodyStuck ==
  \A r \in Requests : Running(r) =>
    \/ CanStep(r)
    \/ \E s \in Specs, q \in Requests :
         q # r /\ WaitsFor(r, s, q) /\ Running(q) /\ CanStep(q)

LEMMA CreationMakes ==
  ASSUME PInv, HoldersMake, NEW r \in Requests, NEW s \in Specs,
         Engine!UnderLock(r, s)
  PROVE  HoldersMake'
<1>1. CASE Engine!FindCached(r, s) \/ Engine!CreateRaises(r, s)
  BY <1>1 DEF Engine!FindCached, Engine!CreateRaises, HoldersMake
<1>2. CASE Engine!StartCreation(r, s)
  <2> SUFFICES ASSUME NEW k \in Engine!Keys, holder'[k] # None
               PROVE  \E t \in Specs : Engine!CacheKey(t) = k /\ <<holder'[k], t>> \in making'
    BY DEF HoldersMake
  <2>1. /\ holder' = [holder EXCEPT ![Engine!CacheKey(s)] = r]
        /\ making' = making \cup {<<r, s>>}
    BY <1>2 DEF Engine!StartCreation
  <2>2. CASE k = Engine!CacheKey(s)
    <3>1. holder'[k] = r
      BY <2>1, <2>2, KeyTyped DEF PInv, TypeOK
    <3> QED
      BY <2>1, <2>2, <3>1
  <2>3. CASE k # Engine!CacheKey(s)
    <3>1. holder'[k] = holder[k]
      BY <2>1, <2>3 DEF PInv, TypeOK
    <3> QED
      BY <2>1, <3>1 DEF HoldersMake
  <2> QED
    BY <2>2, <2>3
<1> QED
  BY <1>1, <1>2 DEF Engine!UnderLock

LEMMA ReleaseMakes ==
  ASSUME PInv, HoldersMake, NEW r \in Requests, NEW s \in Specs,
         Engine!Released(r, s)
  PROVE  HoldersMake'
<1> SUFFICES ASSUME NEW k \in Engine!Keys, holder'[k] # None
             PROVE  \E t \in Specs : Engine!CacheKey(t) = k /\ <<holder'[k], t>> \in making'
  BY DEF HoldersMake
<1>1. /\ holder' = [holder EXCEPT ![Engine!CacheKey(s)] = None]
      /\ making' = making \ {<<r, s>>}
  BY DEF Engine!Released
<1>2. k # Engine!CacheKey(s) /\ holder'[k] = holder[k]
  BY <1>1 DEF PInv, TypeOK
<1>3. PICK t \in Specs : Engine!CacheKey(t) = k /\ <<holder[k], t>> \in making
  BY <1>2 DEF HoldersMake
<1>4. t # s
  BY <1>2, <1>3
<1> QED
  BY <1>1, <1>2, <1>3, <1>4

LEMMA ForgetMakes ==
  ASSUME PInv, HoldersMake, NEW r \in Requests, Engine!Forget(r)
  PROVE  HoldersMake'
<1> SUFFICES ASSUME NEW k \in Engine!Keys, holder'[k] # None
             PROVE  \E t \in Specs : Engine!CacheKey(t) = k /\ <<holder'[k], t>> \in making'
  BY DEF HoldersMake
<1>1. /\ holder'[k] = IF \E s \in Specs : <<r, s>> \in making /\ Engine!CacheKey(s) = k
                      THEN None ELSE holder[k]
      /\ making' = {call \in making : call[1] # r}
  BY DEF Engine!Forget
<1>2. holder'[k] = holder[k] /\ \A s \in Specs : <<r, s>> \in making => Engine!CacheKey(s) # k
  BY <1>1
<1>3. PICK t \in Specs : Engine!CacheKey(t) = k /\ <<holder[k], t>> \in making
  BY <1>2 DEF HoldersMake
<1>4. holder[k] # r
  BY <1>2, <1>3
<1> QED
  BY <1>1, <1>2, <1>3, <1>4

LEMMA HoldersMakeNext == PInv /\ HoldersMake /\ [Next]_vars => HoldersMake'
<1> SUFFICES ASSUME PInv, HoldersMake, [Next]_vars PROVE HoldersMake'
  OBVIOUS
<1>1. ASSUME NEW r \in Requests, NEW s \in Specs, Ask(r, s) PROVE HoldersMake'
  <2>1. CASE Engine!GetOrCreate(r, s)
    BY <2>1, CreationMakes DEF Engine!GetOrCreate
  <2>2. CASE Engine!AwaitLock(r, s)
    BY <2>2 DEF Engine!AwaitLock, HoldersMake
  <2> QED
    BY <1>1, <2>1, <2>2 DEF Ask
<1>2. ASSUME NEW r \in Requests, NEW s \in Specs, Resume(r, s) PROVE HoldersMake'
  <2>1. CASE Engine!LockGranted(r, s)
    BY <2>1, CreationMakes DEF Engine!LockGranted
  <2>2. CASE Engine!Initialized(r, s) \/ Engine!InitializeFails(r, s)
    BY <2>2, ReleaseMakes DEF Engine!Initialized, Engine!InitializeFails
  <2> QED
    BY <1>2, <2>1, <2>2 DEF Resume
<1>3. ASSUME NEW r \in Requests, End(r) \/ Cancel(r) PROVE HoldersMake'
  BY <1>3, ForgetMakes DEF End, Cancel
<1>4. ASSUME NEW r \in Requests, NEW id \in Ids, Begin(r, id) PROVE HoldersMake'
  BY <1>4 DEF Begin, engineVars, HoldersMake
<1>5. CASE Reload \/ Start \/ Shutdown \/ Drained
  BY <1>5 DEF Reload, Start, Shutdown, Drained, engineVars, HoldersMake
<1>6. ASSUME NEW k \in Engine!Keys, Close(k) PROVE HoldersMake'
  BY <1>6 DEF Close, Engine!CloseEngine, HoldersMake
<1>7. CASE Closed
  BY <1>7 DEF Closed, Engine!ClearAll, HoldersMake
<1>8. CASE UNCHANGED vars
  BY <1>8 DEF vars, HoldersMake
<1> QED
  BY <1>1, <1>2, <1>3, <1>4, <1>5, <1>6, <1>7, <1>8 DEF Next, RequestStep, ClosingStep

(* A request whose call for s is in a queue can go on, or waits for one    *)
(* that can.                                                               *)
LEMMA QueueMoves ==
  ASSUME PInv, HoldersMake, NEW r \in Requests, NEW s \in Specs,
         In(r, waiters[Engine!CacheKey(s)])
  PROVE  \/ CanStep(r)
         \/ \E q \in Requests :
              q # r /\ WaitsFor(r, s, q) /\ Running(q) /\ CanStep(q)
<1> DEFINE k == Engine!CacheKey(s)
<1>1. k \in Engine!Keys /\ waiters[k] \in Seq(Requests)
  BY KeyTyped DEF PInv, TypeOK
<1>2. CASE holder[k] # None
  <2> DEFINE q == holder[k]
  <2>1. PICK t \in Specs : Engine!CacheKey(t) = k /\ <<q, t>> \in making
    BY <1>1, <1>2 DEF HoldersMake
  <2>2. t = s
    BY <2>1, KeyInjective
  <2>3. q \in Requests /\ <<q, s>> \in making
    BY <1>1, <1>2, <2>1, <2>2 DEF PInv, TypeOK
  <2>4. s \in Plan(q)
    BY <2>3 DEF PInv, MakersHoldLock
  <2>5. Running(q) /\ CanStep(q)
    BY <2>3, <2>4 DEF Plan, CanStep
  <2>6. q # r
    BY DEF PInv, WaitersPlanned
  <2> QED
    BY <2>3, <2>5, <2>6 DEF WaitsFor
<1>3. CASE holder[k] = None
  <2> DEFINE q == Head(waiters[k])
  <2>1. waiters[k] # <<>>
    BY <1>1 DEF In
  <2>2. q \in Requests /\ In(q, waiters[k])
    <3>1. 1 \in 1 .. Len(waiters[k]) /\ q = waiters[k][1]
      BY <1>1, <2>1, LenProperties, EmptySeq
    <3> QED
      BY <1>1, <3>1, ElementOfSeq DEF In
  <2>3. s \in Plan(q)
    BY <2>2 DEF PInv, WaitersPlanned
  <2>4. Running(q) /\ CanStep(q)
    BY <1>3, <2>1, <2>3 DEF Plan, CanStep
  <2>5. CASE q = r
    BY <2>4, <2>5
  <2>6. CASE q # r
    BY <1>3, <2>2, <2>4, <2>6 DEF WaitsFor
  <2> QED
    BY <2>5, <2>6
<1> QED
  BY <1>2, <1>3

(* No request is ever left waiting for a lock that nobody will release, or *)
(* behind a queue that nobody was told to move on: not when an             *)
(* initialize() fails, nor when a request is cancelled as it holds the     *)
(* lock, waits for it or was just to be given it.                          *)
THEOREM NobodyIsStuck == Spec => []NobodyStuck
<1>1. Init => HoldersMake
  BY DEF Init, Engine!Init, HoldersMake
<1>2. PInv /\ HoldersMake => NobodyStuck
  <2> SUFFICES ASSUME PInv, HoldersMake, NEW r \in Requests, Running(r)
               PROVE  \/ CanStep(r)
                      \/ \E s \in Specs, q \in Requests :
                           q # r /\ WaitsFor(r, s, q) /\ Running(q) /\ CanStep(q)
    BY DEF NobodyStuck
  <2>1. CASE got[r][with[r].ai] # None
    BY <2>1 DEF CanStep
  <2>2. CASE got[r][with[r].ai] = None
    <3>1. PICK s \in Plan(r) : Ready(r, s) /\ got[r][s] = None
      BY <2>2 DEF Ready, Plan
    <3>2. s \in Specs
      BY PlanTyped DEF PInv
    <3>3. CASE ~Engine!Calling(r, s)
      BY <3>1, <3>2, <3>3 DEF CanStep
    <3>4. CASE holder[Engine!CacheKey(s)] = r
      <4>1. PICK t \in Specs : <<r, t>> \in making
        BY <3>2, <3>4, KeyTyped, NoneIsNone DEF HoldersMake
      <4> QED
        BY <4>1 DEF CanStep
    <3>5. CASE In(r, waiters[Engine!CacheKey(s)])
      BY <3>2, <3>5, QueueMoves
    <3> QED
      BY <3>2, <3>3, <3>4, <3>5, CallingIn
  <2> QED
    BY <2>1, <2>2
<1> QED
  BY <1>1, <1>2, HoldersMakeNext, ProvisioningInvariant, PTL DEF Spec

-----------------------------------------------------------------------------
(* The refinement: each step shares an engine, begins or ends a request,   *)
(* gives the engines up, or is invisible.                                  *)

sharedBar == [s \in Specs |-> cache[Engine!CacheKey(s)]]
wantsBar == [r \in Requests |-> Plan(r)]
hasBar == [r \in Requests |-> [s \in Specs |-> IF got[r][s] = Failed THEN None ELSE got[r][s]]]

LEMMA BarsKept ==
  ASSUME UNCHANGED <<cache, got, with>>
  PROVE  UNCHANGED <<sharedBar, wantsBar, hasBar>>
BY DEF sharedBar, wantsBar, hasBar, Plan, Running, ContextOf

(* A call is given the engine e, cached now if it was not. *)
LEMMA GivingShares ==
  ASSUME PInv, PInv', NEW r \in Requests, NEW s \in Specs, NEW e \in Engine!Engines,
         s \in Plan(r), got[r][s] = None, UNCHANGED with,
         got' = [got EXCEPT ![r][s] = e],
         cache' = [cache EXCEPT ![Engine!CacheKey(s)] = e],
         cache[Engine!CacheKey(s)] \in {None, e}
  PROVE  Shared!Next
<1> DEFINE k0 == Engine!CacheKey(s)
<1> USE NoneIsNone
<1>1. k0 \in Engine!Keys
  BY KeyTyped
<1>2. cache'[k0] = e
  BY <1>1 DEF PInv, TypeOK
<1>3. e.spec = s
  <2>1. Engine!CacheKey(e.spec) = k0
    BY <1>1, <1>2 DEF PInv, CachedFits
  <2>2. e.spec \in Specs
    BY DEF Engine!Engines
  <2> QED
    BY <2>1, <2>2, KeyInjective
<1>4. sharedBar' = [sharedBar EXCEPT ![s] = e] /\ sharedBar'[s] = e
  <2>1. \A t \in Specs : cache'[Engine!CacheKey(t)] =
                           IF t = s THEN e ELSE cache[Engine!CacheKey(t)]
    BY <1>1, <1>2, KeyInjective, KeyTyped DEF PInv, TypeOK
  <2> QED
    BY <2>1 DEF sharedBar
<1>5. hasBar' = [hasBar EXCEPT ![r][s] = e]
  <2>1. \A q \in Requests, t \in Specs :
          got'[q][t] = IF q = r /\ t = s THEN e ELSE got[q][t]
    BY DEF PInv, TypeOK
  <2>2. e # Failed
    OBVIOUS
  <2>3. \A q \in Requests, t \in Specs :
          hasBar'[q][t] = IF q = r /\ t = s THEN e ELSE hasBar[q][t]
    BY <2>1, <2>2 DEF hasBar
  <2>4. /\ hasBar' = [q \in Requests |-> [t \in Specs |-> hasBar'[q][t]]]
        /\ hasBar = [q \in Requests |-> [t \in Specs |-> hasBar[q][t]]]
    BY DEF hasBar
  <2> QED
    BY <2>3, <2>4
<1>6. wantsBar' = wantsBar
  BY DEF wantsBar, Plan, Running, ContextOf
<1>7. /\ s \in wantsBar[r] /\ hasBar[r][s] = None /\ sharedBar[s] \in {None, e}
  BY DEF wantsBar, hasBar, sharedBar
<1>8. Shared!Share(r, s)
  BY <1>3, <1>4, <1>5, <1>6, <1>7 DEF Shared!Share, sharedBar, wantsBar, hasBar
<1> QED
  BY <1>8 DEF Shared!Next

(* A call that raised has given nothing. *)
LEMMA FailingShows ==
  ASSUME PInv, NEW r \in Requests, NEW s \in Specs, got[r][s] = None,
         got' = [got EXCEPT ![r][s] = Failed], UNCHANGED <<cache, with>>
  PROVE  UNCHANGED <<sharedBar, wantsBar, hasBar>>
<1>1. \A q \in Requests, t \in Specs :
        got'[q][t] = IF q = r /\ t = s THEN Failed ELSE got[q][t]
  BY DEF PInv, TypeOK
<1>2. hasBar' = hasBar
  BY <1>1, NoneIsNone DEF hasBar
<1> QED
  BY <1>2 DEF sharedBar, wantsBar, Plan, Running, ContextOf

(* What get_or_create does to the abstract state. *)
LEMMA CallShares ==
  ASSUME PInv, PInv', NEW r \in Requests, NEW s \in Specs,
         s \in Plan(r), got[r][s] = None, UNCHANGED with,
         Engine!UnderLock(r, s)
  PROVE  Shared!Next \/ UNCHANGED <<sharedBar, wantsBar, hasBar>>
<1> DEFINE k0 == Engine!CacheKey(s)
<1>1. k0 \in Engine!Keys
  BY KeyTyped
<1>2. CASE Engine!FindCached(r, s)
  <2>1. cache[k0] # None /\ got' = [got EXCEPT ![r][s] = cache[k0]] /\ cache' = cache
    BY <1>2 DEF Engine!FindCached, Engine!Gives
  <2>2. cache[k0] \in Engine!Engines /\ cache' = [cache EXCEPT ![k0] = cache[k0]]
    BY <1>1, <2>1 DEF PInv, TypeOK, EnginesOrNone
  <2> QED
    BY <2>1, <2>2, GivingShares
<1>3. CASE Engine!CreateRaises(r, s)
  <2>1. cache' = cache /\ got' = [got EXCEPT ![r][s] = Failed]
    BY <1>3 DEF Engine!CreateRaises, Engine!Gives
  <2> QED
    BY <2>1, FailingShows
<1>4. CASE Engine!StartCreation(r, s)
  BY <1>4, BarsKept DEF Engine!StartCreation
<1> QED
  BY <1>2, <1>3, <1>4 DEF Engine!UnderLock

LEMMA CreationShares ==
  ASSUME PInv, PInv', NEW r \in Requests, NEW s \in Specs, UNCHANGED with,
         Engine!Initialized(r, s) \/ Engine!InitializeFails(r, s)
  PROVE  Shared!Next \/ UNCHANGED <<sharedBar, wantsBar, hasBar>>
<1> DEFINE k0 == Engine!CacheKey(s)
           e == [spec |-> s, number |-> made[k0] + 1]
<1>1. <<r, s>> \in making
  BY DEF Engine!Initialized, Engine!InitializeFails
<1>2. cache[k0] = None /\ s \in Plan(r) /\ got[r][s] = None
  BY <1>1 DEF PInv, MakersHoldLock
<1>3. CASE Engine!Initialized(r, s)
  <2>1. got' = [got EXCEPT ![r][s] = e] /\ cache' = [cache EXCEPT ![k0] = e]
    BY <1>3 DEF Engine!Initialized, Engine!Gives
  <2>2. e \in Engine!Engines
    <3>1. made[k0] \in Nat
      BY KeyTyped DEF PInv, TypeOK
    <3> QED
      BY <3>1 DEF Engine!Engines
  <2> HIDE DEF e
  <2> QED
    BY <1>2, <2>1, <2>2, GivingShares
<1>4. CASE Engine!InitializeFails(r, s)
  <2>1. cache' = cache /\ got' = [got EXCEPT ![r][s] = Failed]
    BY <1>4 DEF Engine!InitializeFails, Engine!Gives
  <2> QED
    BY <1>2, <2>1, FailingShows
<1> QED
  BY <1>3, <1>4

LEMMA EndLeaves ==
  ASSUME PInv, NEW r \in Requests, Running(r), Engine!Forget(r),
         with' = [with EXCEPT ![r] = None]
  PROVE  Shared!Next
<1> USE NoneIsNone
<1>1. cache' = cache /\ got' = [got EXCEPT ![r] = [s \in Specs |-> None]]
  BY DEF Engine!Forget
<1>2. \A q \in Requests : Plan(q)' = IF q = r THEN {} ELSE Plan(q)
  BY DEF PInv, TypeOK, Plan, Running, ContextOf
<1>3. wantsBar' = [wantsBar EXCEPT ![r] = {}]
  BY <1>2 DEF wantsBar
<1>4. hasBar' = [hasBar EXCEPT ![r] = [s \in Specs |-> None]]
  <2> DEFINE Bar(g) == [s \in Specs |-> IF g[s] = Failed THEN None ELSE g[s]]
             none == [s \in Specs |-> None]
  <2>1. \A q \in Requests : got'[q] = IF q = r THEN none ELSE got[q]
    BY <1>1 DEF PInv, TypeOK
  <2>2. Bar(none) = none
    OBVIOUS
  <2>3. hasBar = [q \in Requests |-> Bar(got[q])] /\ hasBar' = [q \in Requests |-> Bar(got'[q])]
    BY DEF hasBar
  <2> HIDE DEF Bar, none
  <2>4. hasBar' = [hasBar EXCEPT ![r] = none]
    BY <2>1, <2>2, <2>3
  <2> QED
    BY <2>4 DEF none
<1>5. sharedBar' = sharedBar
  BY <1>1 DEF sharedBar
<1>6. wantsBar[r] # {}
  BY PlanTyped DEF wantsBar, PInv
<1>7. Shared!Leave(r)
  BY <1>3, <1>4, <1>5, <1>6 DEF Shared!Leave, sharedBar, wantsBar, hasBar
<1> QED
  BY <1>7 DEF Shared!Next

LEMMA BeginBegins ==
  ASSUME PInv, PInv', NEW r \in Requests, NEW id \in Ids, Begin(r, id)
  PROVE  Shared!Next
<1> USE NoneIsNone
<1>1. /\ UNCHANGED <<cache, got>> /\ with[r] = None
      /\ with' = [with EXCEPT ![r] = registry[id]] /\ registry[id] \in Definitions
  BY DEF Begin, engineVars, Running, PInv, TypeOK
<1>2. Plan(r) = {} /\ Plan(r)' \subseteq Specs /\ Plan(r)' # {}
  <2>1. with'[r] = registry[id]
    BY <1>1 DEF PInv, TypeOK
  <2>2. registry[id].ai \in Specs
    BY <1>1, ProvisioningAssumption
  <2> QED
    BY <1>1, <2>1, <2>2, ProvisioningAssumption DEF Plan, Running, ContextOf
<1>3. \A q \in Requests : q # r => Plan(q)' = Plan(q)
  BY <1>1 DEF PInv, TypeOK, Plan, Running, ContextOf
<1>4. wantsBar' = [wantsBar EXCEPT ![r] = Plan(r)'] /\ wantsBar[r] = {}
  BY <1>2, <1>3 DEF wantsBar
<1>5. sharedBar' = sharedBar /\ hasBar' = hasBar
  BY <1>1 DEF sharedBar, hasBar
<1>6. Shared!Begin(r)
  <2> SUFFICES /\ wantsBar[r] = {}
               /\ \E w \in SUBSET Specs : w # {} /\ wantsBar' = [wantsBar EXCEPT ![r] = w]
               /\ UNCHANGED <<sharedBar, hasBar>>
    BY DEF Shared!Begin, sharedBar, wantsBar, hasBar
  <2>1. Plan(r)' \in SUBSET Specs
    BY <1>2
  <2> QED
    BY <1>2, <1>4, <1>5, <2>1
<1> QED
  BY <1>6 DEF Shared!Next

(* Requests share one engine for each provider and model, made for it.     *)
THEOREM RequestsShareEngines == Spec => SharesEngines
<1>1. Init => Shared!Init
  BY NoneIsNone DEF Init, Engine!Init, Engine!Keys, Shared!Init, Plan, Running
<1>2. PInv /\ PInv' /\ [Next]_vars => [Shared!Next]_<<sharedBar, wantsBar, hasBar>>
  <2> SUFFICES ASSUME PInv, PInv', [Next]_vars
               PROVE  Shared!Next \/ UNCHANGED <<sharedBar, wantsBar, hasBar>>
    OBVIOUS
  <2>1. ASSUME NEW r \in Requests, NEW s \in Specs, Ask(r, s)
        PROVE  Shared!Next \/ UNCHANGED <<sharedBar, wantsBar, hasBar>>
    <3>1. s \in Plan(r) /\ UNCHANGED with
      BY <2>1, ReadyPlanned DEF Ask
    <3>2. CASE Engine!GetOrCreate(r, s)
      BY <3>1, <3>2, CallShares DEF Engine!GetOrCreate
    <3>3. CASE Engine!AwaitLock(r, s)
      BY <3>1, <3>3, BarsKept DEF Engine!AwaitLock
    <3> QED
      BY <2>1, <3>2, <3>3 DEF Ask
  <2>2. ASSUME NEW r \in Requests, NEW s \in Specs, Resume(r, s)
        PROVE  Shared!Next \/ UNCHANGED <<sharedBar, wantsBar, hasBar>>
    <3>1. UNCHANGED <<registry, with, life>>
      BY <2>2 DEF Resume
    <3>2. CASE Engine!LockGranted(r, s)
      <4>1. s \in Plan(r) /\ got[r][s] = None
        BY <3>1, <3>2, GrantedInv
      <4>2. Engine!UnderLock(r, s)
        BY <3>2 DEF Engine!LockGranted
      <4> QED
        BY <3>1, <4>1, <4>2, CallShares
    <3> QED
      BY <2>2, <3>1, <3>2, CreationShares DEF Resume
  <2>3. ASSUME NEW r \in Requests, End(r) \/ Cancel(r) PROVE Shared!Next
    BY <2>3, EndLeaves DEF End, Cancel
  <2>4. ASSUME NEW r \in Requests, NEW id \in Ids, Begin(r, id) PROVE Shared!Next
    BY <2>4, BeginBegins
  <2>5. CASE Reload \/ Start \/ Shutdown \/ Drained
    BY <2>5, BarsKept DEF Reload, Start, Shutdown, Drained, engineVars
  <2>6. ASSUME NEW k \in Engine!Keys, Close(k) PROVE UNCHANGED <<sharedBar, wantsBar, hasBar>>
    BY <2>6, BarsKept DEF Close, Engine!CloseEngine
  <2>7. CASE Closed
    <3>1. /\ \A r \in Requests : Plan(r) = {}
          /\ UNCHANGED <<got, with>> /\ cache' = [k \in Engine!Keys |-> None]
      BY <2>7, ClosedInv DEF Closed, Engine!ClearAll
    <3>2. sharedBar' = [s \in Specs |-> None]
      BY <3>1, KeyTyped DEF sharedBar
    <3>3. wantsBar' = wantsBar /\ hasBar' = hasBar /\ \A r \in Requests : wantsBar[r] = {}
      BY <3>1 DEF wantsBar, hasBar, Plan, Running, ContextOf
    <3>4. Shared!Retire
      BY <3>2, <3>3 DEF Shared!Retire, sharedBar, wantsBar, hasBar
    <3> QED
      BY <3>4 DEF Shared!Next
  <2>8. CASE UNCHANGED vars
    BY <2>8, BarsKept DEF vars
  <2> QED
    BY <2>1, <2>2, <2>3, <2>4, <2>5, <2>6, <2>7, <2>8 DEF Next, RequestStep, ClosingStep
<1>3. PInv /\ PInv' /\ [Next]_vars => [Shared!Next]_Shared!vars
  BY <1>2 DEF Shared!vars, sharedBar, wantsBar, hasBar
<1> QED
  BY <1>1, <1>3, ProvisioningInvariant, PTL DEF Spec, SharesEngines, Shared!Spec
===============================================================================
