---------------------------- MODULE WriteBackProofs ----------------------------
(***************************************************************************)
(* Proofs about WriteBack, for any processes, tasks, queues and number of  *)
(* starts: type correctness, that no loop runs while its process closes,   *)
(* that write-backs are carried out at most once, and in the order of      *)
(* sending as far as the queues promise it.                                *)
(***************************************************************************)
EXTENDS WriteBack, SequenceTheorems, TLAPS

(* Redis stored t, in the order s of sending; it stored a before b.        *)
(* (Nothing comes before itself.)                                          *)
Stored(s, t) == \E m \in 1 .. Len(s) : s[m] = t

Before(s, a, b) ==
  \A m, n \in 1 .. Len(s) : s[m] = a /\ s[n] = b => m < n

(* Only what was sent is in a list or was popped; only what was popped is  *)
(* in hand, called or performed.                                           *)
Provenance ==
  /\ \A m \in 1 .. Len(sent) : sent[m] \in offered
  /\ \A q \in Queues : \A k \in 1 .. Len(list[q]) :
       list[q][k] \in Tasks /\ Stored(sent, list[q][k]) /\ QueueOf[list[q][k]] = q
  /\ \A t \in Tasks : took[t] # None => Stored(sent, t)
  /\ \A p \in Processes : hand[p] # None => took[hand[p]] = p
  /\ \A t \in pending : took[t] # None
  /\ \A i \in 1 .. Len(performed) : performed[i] \in Tasks /\ took[performed[i]] # None

(* What was popped comes before what waits in its list, and that is in the *)
(* order of sending.                                                       *)
TakenBeforeList ==
  \A t \in Tasks, q \in Queues : \A k \in 1 .. Len(list[q]) :
    took[t] # None /\ QueueOf[t] = q => Before(sent, t, list[q][k])

ListInOrder ==
  \A q \in Queues : \A k, l \in 1 .. Len(list[q]) :
    k < l => Before(sent, list[q][k], list[q][l])

(* What a process has in hand is the last of its queue that it took.       *)
HandLast ==
  \A p \in Processes, t \in Tasks :
    /\ hand[p] # None /\ took[t] = p /\ t # hand[p]
    /\ QueueOf[t] = QueueOf[hand[p]]
    => Before(sent, t, hand[p])

(* A call may still take effect only if it is awaited or was given up, and *)
(* only if it has not.                                                     *)
PendingHeld ==
  \A t \in pending : t \in unanswered \/ hand[took[t]] = t

PendingUndone ==
  \A t \in pending : \A i \in 1 .. Len(performed) : performed[i] # t

PerformedInOrder ==
  \A i, j \in 1 .. Len(performed) : i < j =>
    /\ performed[i] # performed[j]
    /\ /\ QueueOf[performed[i]] = QueueOf[performed[j]]
       /\ took[performed[i]] = took[performed[j]]
       /\ performed[j] \notin unanswered
       => Before(sent, performed[i], performed[j])

Ordered ==
  /\ Provenance
  /\ TakenBeforeList /\ ListInOrder /\ HandLast
  /\ PendingHeld /\ PendingUndone /\ PerformedInOrder

-----------------------------------------------------------------------------
(* The shutdown.                                                           *)

LEMMA QuietNext == TypeOK /\ QuietWhenClosing /\ [Next]_vars => QuietWhenClosing'
<1> SUFFICES ASSUME TypeOK, QuietWhenClosing, [Next]_vars PROVE QuietWhenClosing'
  OBVIOUS
<1>0. /\ DOMAIN process = Processes /\ DOMAIN worker = Processes
  BY DEF TypeOK
<1>1. ASSUME NEW p \in Processes, NEW t \in Tasks, Enqueue(p, t) \/ EnqueueRefused(p, t)
      PROVE  QuietWhenClosing'
  BY <1>1 DEF Enqueue, EnqueueRefused, QuietWhenClosing, lives
<1>2. ASSUME NEW p \in Processes, LoopStep(p) PROVE QuietWhenClosing'
  <2>1. worker[p] # "off"
    BY <1>2 DEF LoopStep, Dequeue, DequeueNothing, EndCall, Loop, Queues, Calling
  <2>2. process' = process
    BY <1>2 DEF LoopStep, Dequeue, DequeueNothing, EndCall, Loop, lives
  <2>3. \A r \in Processes : r # p => worker'[r] = worker[r]
    BY <1>0, <1>2 DEF LoopStep, Dequeue, DequeueNothing, EndCall, Loop, Call, Goes
  <2> QED
    BY <2>1, <2>2, <2>3 DEF QuietWhenClosing
<1>3. ASSUME NEW p \in Processes,
             Start(p) \/ Stop(p) \/ CancelWorker(p) \/ Stopped(p) \/ Closed(p) \/ Crash(p)
      PROVE  QuietWhenClosing'
  <2>1. CASE Start(p)
    BY <1>0, <2>1 DEF Start, Becomes, Goes, QuietWhenClosing
  <2>2. CASE CancelWorker(p)
    BY <1>0, <2>2 DEF CancelWorker, Goes, lives, QuietWhenClosing
  <2>3. CASE Crash(p)
    BY <1>0, <2>3 DEF Crash, Becomes, Goes, QuietWhenClosing
  <2>4. CASE Stop(p) \/ Stopped(p) \/ Closed(p)
    BY <1>0, <2>4 DEF Stop, Stopped, Closed, Becomes, QuietWhenClosing
  <2> QED
    BY <1>3, <2>1, <2>2, <2>3, <2>4
<1>4. ASSUME NEW t \in Tasks, Perform(t) PROVE QuietWhenClosing'
  BY <1>4 DEF Perform, lives, QuietWhenClosing
<1>5. CASE UNCHANGED vars
  BY <1>5 DEF vars, lives, QuietWhenClosing
<1> QED
  BY <1>1, <1>2, <1>3, <1>4, <1>5 DEF Next

-----------------------------------------------------------------------------
(* Types.                                                                  *)

LEMMA TypeInit == Init => TypeOK
<1> SUFFICES ASSUME Init PROVE TypeOK
  OBVIOUS
<1>1. <<>> \in Seq(Tasks)
  OBVIOUS
<1>2. list \in [Queues -> Seq(Tasks)]
  BY <1>1 DEF Init
<1>3. MaxStarts \in Nat /\ starts \in 0 .. MaxStarts
  BY WriteBackAssumption DEF Init
<1>4. /\ hand \in [Processes -> Tasks \cup {None}]
      /\ worker \in [Processes -> {"off", "sleep"} \cup Waiting \cup Calling]
      /\ \A p \in Processes : hand[p] # None <=> worker[p] \in Calling
  BY DEF Init, Calling
<1>5. /\ process \in [Processes -> {"down", "up", "stopping", "closing"}]
      /\ client \in [Processes -> BOOLEAN] /\ took \in [Tasks -> Processes \cup {None}]
  BY DEF Init
<1> QED
  BY <1>1, <1>2, <1>3, <1>4, <1>5 DEF Init, TypeOK

(* A list that lost its head is a list of tasks. *)
LEMMA TailTyped ==
  ASSUME NEW f \in [Queues -> Seq(Tasks)], NEW q \in Queues, f[q] # <<>>
  PROVE  /\ Head(f[q]) \in Tasks
         /\ [f EXCEPT ![q] = Tail(@)] \in [Queues -> Seq(Tasks)]
<1>1. f[q] \in Seq(Tasks)
  OBVIOUS
<1>2. Head(f[q]) \in Tasks /\ Tail(f[q]) \in Seq(Tasks)
  BY <1>1, HeadTailProperties
<1> QED
  BY <1>2

LEMMA PopTyped ==
  ASSUME TypeOK, NEW q \in Queues, Pop(q)
  PROVE  list' \in [Queues -> Seq(Tasks)] /\ Head(list[q]) \in Tasks
<1>1. list \in [Queues -> Seq(Tasks)]
  BY DEF TypeOK
<1> QED
  BY <1>1, TailTyped DEF Pop

(* Where the loop is and what is in hand go together. *)
LEMMA LoopTyped ==
  ASSUME TypeOK, NEW p \in Processes,
         NEW w \in {"off", "sleep"} \cup Waiting \cup Calling,
         NEW h \in Tasks \cup {None}, h # None <=> w \in Calling,
         worker' = [worker EXCEPT ![p] = w], hand' = [hand EXCEPT ![p] = h]
  PROVE  /\ worker' \in [Processes -> {"off", "sleep"} \cup Waiting \cup Calling]
         /\ hand' \in [Processes -> Tasks \cup {None}]
         /\ \A r \in Processes : hand'[r] # None <=> worker'[r] \in Calling
  BY DEF TypeOK

(* A call is given up by a process whose loop leaves it. *)
LEMMA GiveUpTyped ==
  ASSUME TypeOK, NEW p \in Processes, GiveUp(p)
  PROVE  /\ unanswered' \subseteq Tasks /\ pending' \subseteq Tasks
         /\ performed' \in Seq(Tasks) /\ hand' = [hand EXCEPT ![p] = None]
  BY DEF TypeOK, GiveUp, Drop, remote

(* A loop that starts must not find a task in hand, so that the types rest *)
(* on QuietWhenClosing.                                                    *)
LEMMA TypeNext == TypeOK /\ QuietWhenClosing /\ [Next]_vars => TypeOK'
<1> SUFFICES ASSUME TypeOK, QuietWhenClosing, [Next]_vars PROVE TypeOK'
  OBVIOUS
<1> USE WriteBackAssumption
<1> DEFINE Places == {"off", "sleep"} \cup Waiting \cup Calling
<1> DEFINE Looped == /\ worker' \in [Processes -> Places]
                     /\ hand' \in [Processes -> Tasks \cup {None}]
                     /\ \A p \in Processes : hand'[p] # None <=> worker'[p] \in Calling
<1>0. /\ \A q \in Queues : CallOf(q) \in Calling /\ After(q) \in Places \ Calling
      /\ \A w \in Calling : After(w) \in Places \ Calling
      /\ Waiting \cap Calling = {}
      /\ Waiting = Queues
      /\ "off" \notin Calling /\ "sleep" \notin Calling
  BY DEF CallOf, After, Queues, Waiting, Calling
<1>00. \A p \in Processes : worker[p] \notin Calling => hand = [hand EXCEPT ![p] = None]
  BY DEF TypeOK
<1>1. ASSUME NEW p \in Processes, NEW t \in Tasks, Enqueue(p, t) PROVE TypeOK'
  <2>1. QueueOf[t] \in Queues
    OBVIOUS
  <2>2. /\ Pushed(QueueOf[t], t) \in Seq(Tasks)
        /\ Append(sent, t) \in Seq(Tasks)
    BY <2>1, AppendProperties DEF TypeOK, Pushed
  <2>3. list' \in [Queues -> Seq(Tasks)] /\ sent' \in Seq(Tasks) /\ offered' \subseteq Tasks
    BY <1>1, <2>1, <2>2 DEF Enqueue, TypeOK
  <2> QED
    BY <1>1, <2>3 DEF Enqueue, TypeOK, lives, remote
<1>2. ASSUME NEW p \in Processes, NEW t \in Tasks, EnqueueRefused(p, t) PROVE TypeOK'
  BY <1>2 DEF EnqueueRefused, TypeOK, lives, remote
<1>3. ASSUME NEW p \in Processes, NEW q \in Queues, Dequeue(p, q) PROVE TypeOK'
  <2>1. Head(list[q]) \in Tasks /\ list' \in [Queues -> Seq(Tasks)]
    BY <1>3, PopTyped DEF Dequeue
  <2>2. worker[p] \notin Calling
    BY <1>0, <1>3 DEF Dequeue
  <2>3. took' \in [Tasks -> Processes \cup {None}]
    BY <1>3, <2>1 DEF Dequeue, TypeOK
  <2>4. CASE Call(p, Head(list[q]))
    <3>1. Looped
      <4>1. QueueOf[Head(list[q])] \in Queues
        BY <2>1
      <4>2. CallOf(QueueOf[Head(list[q])]) \in Calling
        BY <1>0, <4>1
      <4> QED
        BY <2>1, <2>4, <4>2, LoopTyped DEF Call, Goes
    <3>2. pending' \subseteq Tasks
      BY <2>1, <2>4 DEF Call, TypeOK
    <3> QED
      BY <1>3, <2>1, <2>3, <3>1, <3>2 DEF Dequeue, TypeOK, lives
  <2>5. CASE Goes(p, After(q)) /\ UNCHANGED <<hand, pending>>
    <3>1. Looped
      BY <1>0, <1>00, <2>2, <2>5, LoopTyped DEF Goes
    <3> QED
      BY <1>3, <2>1, <2>3, <2>5, <3>1 DEF Dequeue, TypeOK, lives
  <2> QED
    BY <1>3, <2>4, <2>5 DEF Dequeue
<1>4. ASSUME NEW p \in Processes, NEW q \in Queues, DequeueNothing(p, q) PROVE TypeOK'
  <2>1. list' \in [Queues -> Seq(Tasks)]
    BY <1>4, PopTyped DEF DequeueNothing, TypeOK
  <2>2. worker[p] \notin Calling
    BY <1>0, <1>4 DEF DequeueNothing
  <2>3. Looped
    BY <1>0, <1>00, <1>4, <2>2, LoopTyped DEF DequeueNothing, Goes
  <2> QED
    BY <1>4, <2>1, <2>3 DEF DequeueNothing, TypeOK, lives, remote
<1>5. ASSUME NEW p \in Processes, EndCall(p) PROVE TypeOK'
  <2>1. worker[p] \in Calling /\ worker' = [worker EXCEPT ![p] = After(worker[p])]
    BY <1>5 DEF EndCall, Goes
  <2>2. hand' = [hand EXCEPT ![p] = None]
    BY <1>5 DEF EndCall, Drop, GiveUp
  <2>3. Looped
    BY <1>0, <2>1, <2>2, LoopTyped
  <2>4. /\ unanswered' \subseteq Tasks /\ pending' \subseteq Tasks
        /\ performed' \in Seq(Tasks)
    BY <1>5, GiveUpTyped DEF EndCall, TypeOK
  <2> QED
    BY <1>5, <2>3, <2>4 DEF EndCall, TypeOK, queues, lives
<1>6. ASSUME NEW p \in Processes, Loop(p) PROVE TypeOK'
  <2>1. worker[p] \notin Calling
    BY <1>0, <1>6 DEF Loop
  <2>2. Looped
    <3>1. (IF process[p] = "up" THEN "profile" ELSE "off") \in Places \ Calling
      BY DEF Waiting, Calling
    <3> QED
      BY <1>00, <1>6, <2>1, <3>1, LoopTyped DEF Loop, Goes
  <2> QED
    BY <1>6, <2>2 DEF Loop, TypeOK, queues, lives, remote
<1>7. ASSUME NEW p \in Processes, Start(p) PROVE TypeOK'
  <2>1. starts' \in 0 .. MaxStarts /\ client' \in [Processes -> BOOLEAN]
        /\ process' \in [Processes -> {"down", "up", "stopping", "closing"}]
    BY <1>7 DEF Start, Becomes, TypeOK
  <2>2. Looped
    <3>1. worker[p] \notin Calling
      BY <1>0, <1>7 DEF Start, QuietWhenClosing
    <3>2. "profile" \in Places \ Calling
      BY DEF Waiting, Calling
    <3> QED
      BY <1>00, <1>7, <3>1, <3>2, LoopTyped DEF Start, Goes
  <2> QED
    BY <1>7, <2>1, <2>2 DEF Start, TypeOK, queues, remote
<1>8. ASSUME NEW p \in Processes, CancelWorker(p) PROVE TypeOK'
  <2>1. list' \in [Queues -> Seq(Tasks)]
    BY <1>0, <1>8, PopTyped DEF CancelWorker, TypeOK
  <2>2. Looped
    BY <1>0, <1>8, GiveUpTyped, LoopTyped DEF CancelWorker, Goes
  <2> QED
    BY <1>8, <2>1, <2>2, GiveUpTyped DEF CancelWorker, TypeOK, lives
<1>9. ASSUME NEW p \in Processes, Crash(p) PROVE TypeOK'
  <2>1. Looped
    BY <1>0, <1>9, GiveUpTyped, LoopTyped DEF Crash, Goes
  <2>2. /\ process' \in [Processes -> {"down", "up", "stopping", "closing"}]
        /\ client' \in [Processes -> BOOLEAN]
    BY <1>9 DEF Crash, Becomes, LosesClient, TypeOK
  <2> QED
    BY <1>9, <2>1, <2>2, GiveUpTyped DEF Crash, TypeOK, queues
<1>10. ASSUME NEW p \in Processes, Stop(p) \/ Stopped(p) \/ Closed(p) PROVE TypeOK'
  <2>1. /\ process' \in [Processes -> {"down", "up", "stopping", "closing"}]
        /\ client' \in [Processes -> BOOLEAN]
    BY <1>10 DEF Stop, Stopped, Closed, Becomes, LosesClient, TypeOK
  <2> QED
    BY <1>10, <2>1 DEF Stop, Stopped, Closed, TypeOK, queues, remote
<1>11. ASSUME NEW t \in Tasks, Perform(t) PROVE TypeOK'
  <2>1. performed' \in Seq(Tasks) /\ pending' \subseteq Tasks
    BY <1>11, AppendProperties DEF Perform, TypeOK
  <2> QED
    BY <1>11, <2>1 DEF Perform, TypeOK, queues, lives
<1>12. CASE UNCHANGED vars
  BY <1>12 DEF vars, TypeOK, queues, lives, remote
<1> QED
  BY <1>1, <1>2, <1>3, <1>4, <1>5, <1>6, <1>7, <1>8, <1>9, <1>10, <1>11, <1>12
     DEF Next, LoopStep

LEMMA TypedAndQuiet == Spec => [](TypeOK /\ QuietWhenClosing)
<1>1. Init => QuietWhenClosing
  BY DEF Init, QuietWhenClosing
<1> QED
  BY <1>1, TypeInit, TypeNext, QuietNext, PTL DEF Spec

(* Every variable has its type, and a process has a task in hand exactly   *)
(* during its engine call, whatever is lost, cancelled or crashed.         *)
THEOREM WriteBackTyped == Spec => []TypeOK
  BY TypedAndQuiet, PTL

(* No worker loop is left when the engines, Redis and the database of its  *)
(* process are being closed, wherever the shutdown met it (main.py:        *)
(* lifespan awaits stop() before it closes anything).                      *)
THEOREM NoLoopWhileClosing == Spec => []QuietWhenClosing
  BY TypedAndQuiet, PTL

-----------------------------------------------------------------------------
(* The order.                                                              *)

(* What is sent now comes after everything that was. *)
LEMMA SentLast ==
  ASSUME NEW s \in Seq(Tasks), NEW t \in Tasks,
         \A m \in 1 .. Len(s) : s[m] # t
  PROVE  /\ \A a, b \in Tasks : a # t /\ b # t /\ Before(s, a, b) => Before(Append(s, t), a, b)
         /\ \A a \in Tasks : a # t => Before(Append(s, t), a, t)
         /\ \A m \in 1 .. Len(s) : Append(s, t)[m] = s[m]
         /\ Append(s, t)[Len(s) + 1] = t
         /\ Len(Append(s, t)) = Len(s) + 1
<1> DEFINE x == Append(s, t)
<1>1. /\ Len(x) = Len(s) + 1 /\ x[Len(s) + 1] = t
      /\ \A m \in 1 .. Len(s) : x[m] = s[m]
  BY AppendProperties
<1>2. Len(s) \in Nat
  BY LenProperties
<1> HIDE DEF x
<1>3. ASSUME NEW a \in Tasks, NEW b \in Tasks, a # t, b # t, Before(s, a, b)
      PROVE  Before(x, a, b)
  BY <1>1, <1>2, <1>3 DEF Before
<1>4. ASSUME NEW a \in Tasks, a # t PROVE Before(x, a, t)
  BY <1>1, <1>2, <1>4 DEF Before
<1> QED
  BY <1>1, <1>3, <1>4 DEF x

(* A list is as it was, or has lost its head. *)
Shortened(q) ==
  \E d \in {0, 1} :
    /\ Len(list'[q]) \in Nat /\ Len(list[q]) = Len(list'[q]) + d
    /\ \A k \in 1 .. Len(list'[q]) : list'[q][k] = list[q][k + d]

LEMMA PopShortens ==
  ASSUME TypeOK, NEW p \in Queues, Pop(p)
  PROVE  /\ Head(list[p]) = list[p][1] /\ 1 \in 1 .. Len(list[p])
         /\ Len(list'[p]) \in Nat /\ Len(list[p]) = Len(list'[p]) + 1
         /\ \A k \in 1 .. Len(list'[p]) : list'[p][k] = list[p][k + 1]
         /\ \A q \in Queues : q # p => list'[q] = list[q]
         /\ \A q \in Queues : Shortened(q)
<1>1. list \in [Queues -> Seq(Tasks)]
  BY DEF TypeOK
<1>2. list[p] \in Seq(Tasks) /\ list'[p] = Tail(list[p]) /\ list[p] # <<>>
  BY <1>1 DEF Pop
<1>3. /\ Len(list[p]) \in Nat /\ Len(list[p]) # 0 /\ Head(list[p]) = list[p][1]
      /\ Len(list'[p]) = Len(list[p]) - 1
      /\ \A k \in 1 .. Len(list'[p]) : list'[p][k] = list[p][k + 1]
  <2>1. Len(list[p]) \in Nat /\ Head(list[p]) = list[p][1]
    BY <1>2, LenProperties
  <2>2. Len(list[p]) # 0
    BY <1>2, EmptySeq
  <2>3. /\ Len(Tail(list[p])) = Len(list[p]) - 1
        /\ \A k \in 1 .. Len(Tail(list[p])) : Tail(list[p])[k] = list[p][k + 1]
    BY <1>2, HeadTailProperties
  <2> QED
    BY <1>2, <2>1, <2>2, <2>3
<1>4. \A q \in Queues : q # p => list'[q] = list[q]
  BY <1>1 DEF Pop
<1>5. \A q \in Queues : q # p => Shortened(q)
  BY <1>1, <1>4, LenProperties DEF Shortened
<1>6. Shortened(p)
  BY <1>3 DEF Shortened
<1> QED
  BY <1>3, <1>4, <1>5, <1>6

LEMMA SameShortens ==
  ASSUME TypeOK, UNCHANGED list
  PROVE  \A q \in Queues : Shortened(q)
  BY LenProperties DEF TypeOK, Shortened

LEMMA OrderedEnqueue ==
  ASSUME TypeOK, Ordered, NEW r \in Processes, NEW t \in Tasks, Enqueue(r, t)
  PROVE  Ordered'
<1> DEFINE p == QueueOf[t]
<1>1. /\ list \in [Queues -> Seq(Tasks)] /\ sent \in Seq(Tasks) /\ p \in Queues
      /\ t \notin offered
  BY WriteBackAssumption DEF TypeOK, Enqueue
<1>2. \A m \in 1 .. Len(sent) : sent[m] # t
  BY <1>1 DEF Ordered, Provenance
<1>3. /\ sent' = Append(sent, t) /\ offered' = offered \cup {t}
      /\ UNCHANGED <<hand, took, pending, unanswered, performed>>
  BY DEF Enqueue, remote
<1>4. /\ Len(sent) \in Nat /\ Len(sent') = Len(sent) + 1
      /\ \A m \in 1 .. Len(sent) : sent'[m] = sent[m]
      /\ sent'[Len(sent) + 1] = t
  BY <1>1, <1>2, <1>3, SentLast, LenProperties
<1>5. \A a, b \in Tasks : a # t /\ b # t /\ Before(sent, a, b) => Before(sent', a, b)
  BY <1>1, <1>2, <1>3, SentLast
<1>6. \A a \in Tasks : a # t => Before(sent', a, t)
  BY <1>1, <1>2, <1>3, SentLast
<1>7. \A a : Stored(sent, a) => Stored(sent', a) /\ a # t
  BY <1>2, <1>4 DEF Stored
<1>8. Stored(sent', t)
  BY <1>4 DEF Stored
<1>9. \A q \in Queues : \A k \in 1 .. Len(list'[q]) :
        \/ k \in 1 .. Len(list[q]) /\ list'[q][k] = list[q][k]
        \/ q = p /\ k = Len(list[q]) + 1 /\ list'[q][k] = t
  <2>1. SUFFICES ASSUME NEW q \in Queues
        PROVE  \A k \in 1 .. Len(list'[q]) :
                 \/ k \in 1 .. Len(list[q]) /\ list'[q][k] = list[q][k]
                 \/ q = p /\ k = Len(list[q]) + 1 /\ list'[q][k] = t
    OBVIOUS
  <2>2. CASE q # p
    BY <1>1, <2>2 DEF Enqueue
  <2>3. CASE q = p
    <3>1. list[q] \in Seq(Tasks) /\ list'[q] = Append(list[q], t)
      BY <1>1, <2>3 DEF Enqueue, Pushed
    <3>2. /\ Len(list'[q]) = Len(list[q]) + 1 /\ list'[q][Len(list[q]) + 1] = t
          /\ \A k \in 1 .. Len(list[q]) : list'[q][k] = list[q][k]
          /\ Len(list[q]) \in Nat
      BY <3>1, AppendProperties, LenProperties
    <3> QED
      BY <2>3, <3>2
  <2> QED
    BY <2>2, <2>3
<1>10. \A q \in Queues : Len(list[q]) \in Nat
  BY <1>1, LenProperties
<1>11. \A a \in Tasks : took[a] # None => a # t
  BY <1>7 DEF Ordered, Provenance
<1> HIDE DEF p
<1>12. Provenance'
  <2>1. \A m \in 1 .. Len(sent') : sent'[m] \in offered'
    BY <1>3, <1>4 DEF Ordered, Provenance
  <2>2. \A q \in Queues : \A k \in 1 .. Len(list'[q]) :
          list'[q][k] \in Tasks /\ Stored(sent', list'[q][k]) /\ QueueOf[list'[q][k]] = q
    BY <1>7, <1>8, <1>9 DEF Ordered, Provenance, p
  <2>3. \A a \in Tasks : took'[a] # None => Stored(sent', a)
    BY <1>3, <1>7 DEF Ordered, Provenance
  <2> QED
    BY <1>3, <2>1, <2>2, <2>3 DEF Ordered, Provenance
<1>121. \A q \in Queues : \A k \in 1 .. Len(list[q]) : list[q][k] \in Tasks /\ list[q][k] # t
  BY <1>7 DEF Ordered, Provenance
<1>13. TakenBeforeList'
  <2> SUFFICES ASSUME NEW a \in Tasks, NEW q \in Queues, NEW k \in 1 .. Len(list'[q]),
                      took[a] # None, QueueOf[a] = q
               PROVE  Before(sent', a, list'[q][k])
    BY <1>3 DEF TakenBeforeList
  <2>1. CASE k \in 1 .. Len(list[q]) /\ list'[q][k] = list[q][k]
    <3>1. Before(sent, a, list[q][k])
      BY <2>1 DEF Ordered, TakenBeforeList
    <3> QED
      BY <1>5, <1>11, <1>121, <2>1, <3>1
  <2>2. CASE list'[q][k] = t
    BY <1>6, <1>11, <2>2
  <2> QED
    BY <1>9, <2>1, <2>2
<1>14. ListInOrder'
  <2> SUFFICES ASSUME NEW q \in Queues, NEW k \in 1 .. Len(list'[q]),
                      NEW l \in 1 .. Len(list'[q]), k < l
               PROVE  Before(sent', list'[q][k], list'[q][l])
    BY DEF ListInOrder
  <2>1. k \in 1 .. Len(list[q]) /\ list'[q][k] = list[q][k]
    BY <1>9, <1>10
  <2>2. CASE l \in 1 .. Len(list[q]) /\ list'[q][l] = list[q][l]
    <3>1. Before(sent, list[q][k], list[q][l])
      BY <2>1, <2>2 DEF Ordered, ListInOrder
    <3> QED
      BY <1>5, <1>121, <2>1, <2>2, <3>1
  <2>3. CASE list'[q][l] = t
    BY <1>6, <1>121, <2>1, <2>3
  <2> QED
    BY <1>9, <2>2, <2>3
<1>15. HandLast'
  <2> SUFFICES ASSUME NEW o \in Processes, NEW a \in Tasks, hand[o] # None, took[a] = o,
                      a # hand[o], QueueOf[a] = QueueOf[hand[o]]
               PROVE  Before(sent', a, hand[o])
    BY <1>3 DEF HandLast
  <2>1. hand[o] \in Tasks /\ took[hand[o]] = o /\ o # None
    BY WriteBackAssumption DEF TypeOK, Ordered, Provenance
  <2>2. a # t /\ hand[o] # t
    BY <1>11, <2>1
  <2> QED
    BY <1>5, <2>1, <2>2 DEF Ordered, HandLast
<1>16. PendingHeld' /\ PendingUndone'
  BY <1>3 DEF Ordered, PendingHeld, PendingUndone
<1>17. PerformedInOrder'
  <2>1. \A i \in 1 .. Len(performed) : performed[i] \in Tasks /\ performed[i] # t
    BY <1>11 DEF Ordered, Provenance
  <2> QED
    BY <1>3, <1>5, <2>1 DEF Ordered, PerformedInOrder
<1> QED
  BY <1>12, <1>13, <1>14, <1>15, <1>16, <1>17 DEF Ordered

(* The elements of a list that may have lost its head were in it, in the   *)
(* same order.                                                             *)
LEMMA ShorterList ==
  ASSUME NEW q \in Queues, Shortened(q)
  PROVE  \E d \in {0, 1} : \A k \in 1 .. Len(list'[q]) :
           /\ k + d \in 1 .. Len(list[q]) /\ list'[q][k] = list[q][k + d]
           /\ \A l \in 1 .. Len(list'[q]) : k < l => k + d < l + d
  BY DEF Shortened

LEMMA ListsKeep ==
  ASSUME Ordered, \A q \in Queues : Shortened(q), UNCHANGED sent
  PROVE  /\ \A q \in Queues : \A k \in 1 .. Len(list'[q]) :
              \E i \in 1 .. Len(list[q]) : list'[q][k] = list[q][i]
         /\ \A q \in Queues : \A k \in 1 .. Len(list'[q]) :
              list'[q][k] \in Tasks /\ Stored(sent', list'[q][k]) /\ QueueOf[list'[q][k]] = q
         /\ ListInOrder'
<1>1. \A q \in Queues : \A k \in 1 .. Len(list'[q]) :
        \E i \in 1 .. Len(list[q]) : list'[q][k] = list[q][i]
  BY ShorterList
<1>2. ASSUME NEW q \in Queues, NEW k \in 1 .. Len(list'[q])
      PROVE  list'[q][k] \in Tasks /\ Stored(sent', list'[q][k]) /\ QueueOf[list'[q][k]] = q
  <2>1. PICK i \in 1 .. Len(list[q]) : list'[q][k] = list[q][i]
    BY <1>1
  <2>2. list[q][i] \in Tasks /\ Stored(sent, list[q][i]) /\ QueueOf[list[q][i]] = q
    BY DEF Ordered, Provenance
  <2> QED
    BY <2>1, <2>2
<1>3. ListInOrder'
  <2> SUFFICES ASSUME NEW q \in Queues, NEW k \in 1 .. Len(list'[q]),
                      NEW l \in 1 .. Len(list'[q]), k < l
               PROVE  Before(sent, list'[q][k], list'[q][l])
    BY DEF ListInOrder
  <2>1. PICK d \in {0, 1} : \A m \in 1 .. Len(list'[q]) :
          /\ m + d \in 1 .. Len(list[q]) /\ list'[q][m] = list[q][m + d]
          /\ \A n \in 1 .. Len(list'[q]) : m < n => m + d < n + d
    BY ShorterList
  <2> QED
    BY <2>1 DEF Ordered, ListInOrder
<1> QED
  BY <1>1, <1>2, <1>3

(* Tasks are lost from the lists, calls end, are given up or turn out to   *)
(* come to nothing; none is taken and none performed.                      *)
LEMMA OrderedLosing ==
  ASSUME TypeOK, Ordered, UNCHANGED <<sent, took, performed>>,
         offered \subseteq offered', \A q \in Queues : Shortened(q),
         \A p \in Processes : hand'[p] = hand[p] \/ hand'[p] = None,
         pending' \subseteq pending, unanswered \subseteq unanswered', PendingHeld'
  PROVE  Ordered'
<1>1. Provenance'
  <2>1. \A q \in Queues : \A k \in 1 .. Len(list'[q]) :
          list'[q][k] \in Tasks /\ Stored(sent', list'[q][k]) /\ QueueOf[list'[q][k]] = q
    BY ListsKeep
  <2>2. /\ \A m \in 1 .. Len(sent') : sent'[m] \in offered'
        /\ \A t \in Tasks : took'[t] # None => Stored(sent', t)
        /\ \A p \in Processes : hand'[p] # None => took'[hand'[p]] = p
        /\ \A t \in pending' : took'[t] # None
        /\ \A i \in 1 .. Len(performed') : performed'[i] \in Tasks /\ took'[performed'[i]] # None
    BY DEF Ordered, Provenance
  <2> QED
    BY <2>1, <2>2 DEF Provenance
<1>2. TakenBeforeList'
  <2> SUFFICES ASSUME NEW t \in Tasks, NEW q \in Queues, NEW k \in 1 .. Len(list'[q]),
                      took[t] # None, QueueOf[t] = q
               PROVE  Before(sent, t, list'[q][k])
    BY DEF TakenBeforeList
  <2>1. PICK i \in 1 .. Len(list[q]) : list'[q][k] = list[q][i]
    BY ListsKeep
  <2> QED
    BY <2>1 DEF Ordered, TakenBeforeList
<1>3. ListInOrder'
  BY ListsKeep
<1>4. HandLast'
  BY DEF Ordered, HandLast
<1>5. PendingUndone' /\ PerformedInOrder'
  BY DEF Ordered, PendingUndone, PerformedInOrder
<1> QED
  BY <1>1, <1>2, <1>3, <1>4, <1>5 DEF Ordered

LEMMA GivenUpHeld ==
  ASSUME TypeOK, Ordered, NEW p \in Processes, GiveUp(p), UNCHANGED took
  PROVE  /\ PendingHeld' /\ UNCHANGED <<pending, performed>>
         /\ unanswered \subseteq unanswered'
         /\ \A r \in Processes : hand'[r] = hand[r] \/ hand'[r] = None
<1>1. /\ hand' = [hand EXCEPT ![p] = None] /\ pending' = pending
      /\ performed' = performed /\ unanswered' = unanswered \cup ({hand[p]} \ {None})
      /\ DOMAIN hand = Processes
  BY DEF GiveUp, Drop, remote, TypeOK
<1>2. ASSUME NEW t \in pending, t \notin unanswered' PROVE hand'[took[t]] = t
  <2>1. hand[took[t]] = t /\ took[t] \in Processes /\ t # None
    BY <1>1, <1>2, WriteBackAssumption DEF Ordered, PendingHeld, Provenance, TypeOK
  <2>2. took[t] # p
    BY <1>1, <1>2, <2>1
  <2> QED
    BY <1>1, <2>1, <2>2
<1> QED
  BY <1>1, <1>2 DEF PendingHeld

(* A process takes the head of a list. *)
LEMMA OrderedTake ==
  ASSUME TypeOK, Ordered, UNCHANGED <<sent, offered, performed, unanswered>>,
         NEW p \in Processes, NEW q \in Queues, Pop(q), hand[p] = None,
         took' = [took EXCEPT ![Head(list[q])] = p],
         \/ UNCHANGED <<hand, pending>>
         \/ /\ hand' = [hand EXCEPT ![p] = Head(list[q])]
            /\ pending' = pending \cup {Head(list[q])}
  PROVE  Ordered'
<1> DEFINE h == Head(list[q])
<1>1. /\ h = list[q][1] /\ 1 \in 1 .. Len(list[q])
      /\ \A k \in 1 .. Len(list'[q]) : list'[q][k] = list[q][k + 1] /\ k + 1 \in 1 .. Len(list[q])
      /\ \A o \in Queues : Shortened(o)
  <2>1. /\ Len(list'[q]) \in Nat /\ Len(list[q]) = Len(list'[q]) + 1
        /\ \A k \in 1 .. Len(list'[q]) : list'[q][k] = list[q][k + 1]
    BY PopShortens
  <2> QED
    BY <2>1, PopShortens
<1>2. h \in Tasks /\ Stored(sent, h) /\ QueueOf[h] = q /\ p # None
  BY <1>1, WriteBackAssumption DEF Ordered, Provenance
<1>3. took[h] = None
  <2>1. took[h] # None => Before(sent, h, h)
    BY <1>1, <1>2 DEF Ordered, TakenBeforeList
  <2>2. ~Before(sent, h, h)
    <3>1. PICK m \in 1 .. Len(sent) : sent[m] = h
      BY <1>2 DEF Stored
    <3> QED
      BY <3>1 DEF Before
  <2> QED
    BY <2>1, <2>2
<1>4. /\ took'[h] = p /\ \A t \in Tasks : t # h => took'[t] = took[t]
      /\ \A t \in Tasks : took[t] # None => took'[t] = took[t]
  BY <1>2, <1>3 DEF TypeOK
<1>5. /\ \A r \in Processes : r # p => hand'[r] = hand[r]
      /\ hand'[p] = None \/ hand'[p] = h
      /\ pending' \subseteq pending \cup {h} /\ (h \in pending' => h \in pending \/ hand'[p] = h)
      /\ sent' = sent /\ offered' = offered /\ performed' = performed
      /\ unanswered' = unanswered
  BY DEF TypeOK
<1>6. \A i \in 1 .. Len(performed) :
        performed[i] \in Tasks /\ performed[i] # h /\ took'[performed[i]] = took[performed[i]]
                     /\ took[performed[i]] # None
  BY <1>3, <1>4 DEF Ordered, Provenance
<1>7. \A r \in Processes : hand[r] # None => hand[r] \in Tasks /\ took[hand[r]] = r /\ r # None
  BY WriteBackAssumption DEF Ordered, Provenance, TypeOK
<1>8. \A t \in pending : t \in Tasks /\ took[t] # None /\ t # h
  BY <1>3 DEF Ordered, Provenance, TypeOK
<1> HIDE DEF h
<1>9. Provenance'
  <2>1. \A o \in Queues : \A k \in 1 .. Len(list'[o]) :
          list'[o][k] \in Tasks /\ Stored(sent', list'[o][k]) /\ QueueOf[list'[o][k]] = o
    BY <1>1, ListsKeep
  <2>2. \A t \in Tasks : took'[t] # None => Stored(sent', t)
    BY <1>2, <1>4, <1>5 DEF Ordered, Provenance
  <2>3. \A r \in Processes : hand'[r] # None => took'[hand'[r]] = r
    BY <1>4, <1>5, <1>7
  <2>4. /\ \A m \in 1 .. Len(sent') : sent'[m] \in offered'
        /\ \A t \in pending' : took'[t] # None
        /\ \A i \in 1 .. Len(performed') : performed'[i] \in Tasks /\ took'[performed'[i]] # None
    BY <1>2, <1>4, <1>5, <1>6, <1>8 DEF Ordered, Provenance
  <2> QED
    BY <2>1, <2>2, <2>3, <2>4 DEF Provenance
<1>10. TakenBeforeList'
  <2> SUFFICES ASSUME NEW t \in Tasks, NEW o \in Queues, NEW k \in 1 .. Len(list'[o]),
                      took'[t] # None, QueueOf[t] = o
               PROVE  Before(sent, t, list'[o][k])
    BY <1>5 DEF TakenBeforeList
  <2>1. CASE t = h
    <3>1. o = q /\ k + 1 \in 1 .. Len(list[q]) /\ list'[q][k] = list[q][k + 1] /\ 1 < k + 1
      BY <1>1, <1>2, <2>1
    <3> QED
      BY <1>1, <2>1, <3>1 DEF Ordered, ListInOrder
  <2>2. CASE t # h
    <3>1. PICK i \in 1 .. Len(list[o]) : list'[o][k] = list[o][i]
      BY <1>1, ListsKeep
    <3> QED
      BY <1>4, <2>2, <3>1 DEF Ordered, TakenBeforeList
  <2> QED
    BY <2>1, <2>2
<1>11. ListInOrder'
  BY <1>1, ListsKeep
<1>12. HandLast'
  <2> SUFFICES ASSUME NEW r \in Processes, NEW t \in Tasks, hand'[r] # None, took'[t] = r,
                      t # hand'[r], QueueOf[t] = QueueOf[hand'[r]]
               PROVE  Before(sent, t, hand'[r])
    BY <1>5 DEF HandLast
  <2>1. CASE r = p
    <3>1. hand'[p] = h /\ t # h /\ took[t] = p
      BY <1>4, <1>5, <2>1
    <3> QED
      BY <1>1, <1>2, <2>1, <3>1 DEF Ordered, TakenBeforeList
  <2>2. CASE r # p
    <3>1. hand'[r] = hand[r] /\ took[t] = r
      BY <1>4, <1>5, <2>2
    <3> QED
      BY <3>1 DEF Ordered, HandLast
  <2> QED
    BY <2>1, <2>2
<1>13. PendingHeld'
  <2> SUFFICES ASSUME NEW t \in pending', t \notin unanswered PROVE hand'[took'[t]] = t
    BY <1>5 DEF PendingHeld
  <2>1. CASE t \in pending
    <3>1. hand[took[t]] = t /\ took[t] \in Processes /\ took'[t] = took[t] /\ t \in Tasks
      BY <1>4, <1>8, <2>1 DEF Ordered, PendingHeld, TypeOK
    <3>2. took[t] # p
      BY <3>1, WriteBackAssumption
    <3> QED
      BY <1>5, <3>1, <3>2
  <2>2. CASE t \notin pending
    BY <1>4, <1>5, <2>2
  <2> QED
    BY <2>1, <2>2
<1>14. PendingUndone'
  BY <1>5, <1>6 DEF Ordered, PendingUndone
<1>15. PerformedInOrder'
  BY <1>5, <1>6 DEF Ordered, PerformedInOrder
<1> QED
  BY <1>9, <1>10, <1>11, <1>12, <1>13, <1>14, <1>15 DEF Ordered

(* The service carries out a call that is awaited or was given up.         *)
LEMMA OrderedPerform ==
  ASSUME TypeOK, Ordered, NEW t \in Tasks, Perform(t)
  PROVE  Ordered'
<1>1. /\ UNCHANGED <<list, sent, offered, hand, took, unanswered>>
      /\ t \in pending /\ pending' = pending \ {t}
  BY DEF Perform, queues
<1>2. /\ Len(performed) \in Nat /\ Len(performed') = Len(performed) + 1
      /\ performed'[Len(performed) + 1] = t
      /\ \A i \in 1 .. Len(performed) : performed'[i] = performed[i]
  <2>1. performed \in Seq(Tasks) /\ Len(performed) \in Nat
    BY LenProperties DEF TypeOK
  <2> QED
    BY <2>1, AppendProperties DEF Perform
<1>3. \A i \in 1 .. Len(performed') :
        \/ i \in 1 .. Len(performed) /\ performed'[i] = performed[i]
        \/ i = Len(performed) + 1 /\ performed'[i] = t
  BY <1>2
<1>4. took[t] # None /\ \A i \in 1 .. Len(performed) : performed[i] # t
  BY <1>1 DEF Ordered, Provenance, PendingUndone
<1>5. Provenance'
  BY <1>1, <1>3, <1>4 DEF Ordered, Provenance
<1>6. TakenBeforeList' /\ ListInOrder' /\ HandLast' /\ PendingHeld'
  BY <1>1 DEF Ordered, TakenBeforeList, ListInOrder, HandLast, PendingHeld
<1>7. PendingUndone'
  BY <1>1, <1>3 DEF Ordered, PendingUndone
<1>8. PerformedInOrder'
  <2> SUFFICES ASSUME NEW i \in 1 .. Len(performed'), NEW j \in 1 .. Len(performed'), i < j
               PROVE  /\ performed'[i] # performed'[j]
                      /\ /\ QueueOf[performed'[i]] = QueueOf[performed'[j]]
                         /\ took[performed'[i]] = took[performed'[j]]
                         /\ performed'[j] \notin unanswered
                         => Before(sent, performed'[i], performed'[j])
    BY <1>1 DEF PerformedInOrder
  <2>1. CASE j \in 1 .. Len(performed)
    <3>1. i \in 1 .. Len(performed)
      BY <1>2, <2>1
    <3> QED
      BY <1>2, <2>1, <3>1 DEF Ordered, PerformedInOrder
  <2>2. CASE j = Len(performed) + 1
    <3>1. i \in 1 .. Len(performed) /\ performed'[i] = performed[i] /\ performed'[j] = t
      BY <1>2, <2>2
    <3>2. performed[i] \in Tasks /\ performed[i] # t /\ took[t] \in Processes
      BY <1>4, <3>1 DEF Ordered, Provenance, TypeOK
    <3>3. t \notin unanswered => hand[took[t]] = t
      BY <1>1 DEF Ordered, PendingHeld
    <3>4. t # None
      BY WriteBackAssumption
    <3> QED
      BY <3>1, <3>2, <3>3, <3>4 DEF Ordered, HandLast
  <2> QED
    BY <1>3, <2>1, <2>2
<1> QED
  BY <1>5, <1>6, <1>7, <1>8 DEF Ordered

LEMMA OrderedNext == TypeOK /\ Ordered /\ [Next]_vars => Ordered'
<1> SUFFICES ASSUME TypeOK, Ordered, [Next]_vars PROVE Ordered'
  OBVIOUS
<1>1. ASSUME NEW p \in Processes, NEW t \in Tasks, Enqueue(p, t) PROVE Ordered'
  BY <1>1, OrderedEnqueue
<1>2. ASSUME NEW p \in Processes, NEW q \in Queues, Dequeue(p, q) PROVE Ordered'
  <2>1. hand[p] = None /\ Pop(q)
    BY <1>2 DEF Dequeue, TypeOK, Queues, Calling
  <2>2. UNCHANGED <<sent, offered, performed, unanswered>>
    BY <1>2 DEF Dequeue
  <2> QED
    BY <1>2, <2>1, <2>2, OrderedTake DEF Dequeue, Call
<1>3. ASSUME NEW p \in Processes, NEW q \in Queues, DequeueNothing(p, q) PROVE Ordered'
  <2>1. \A o \in Queues : Shortened(o)
    BY <1>3, PopShortens, SameShortens DEF DequeueNothing
  <2>2. UNCHANGED <<sent, offered, took, performed, hand, pending, unanswered>> /\ PendingHeld'
    BY <1>3 DEF DequeueNothing, remote, Ordered, PendingHeld
  <2> QED
    BY <2>1, <2>2, OrderedLosing
<1>4. ASSUME NEW p \in Processes, EndCall(p) PROVE Ordered'
  <2>1. UNCHANGED <<list, sent, offered, took>> /\ \A o \in Queues : Shortened(o)
    BY <1>4, SameShortens DEF EndCall, queues
  <2>2. CASE GiveUp(p)
    BY <2>1, <2>2, GivenUpHeld, OrderedLosing
  <2>3. CASE Drop(p) /\ pending' = pending \ {hand[p]} /\ UNCHANGED <<unanswered, performed>>
    <3>1. \A r \in Processes : r # p => hand'[r] = hand[r]
      BY <2>3 DEF Drop, TypeOK
    <3>2. hand'[p] = None
      BY <2>3 DEF Drop, TypeOK
    <3>3. PendingHeld'
      <4> SUFFICES ASSUME NEW t \in pending', t \notin unanswered PROVE hand'[took[t]] = t
        BY <2>1, <2>3 DEF PendingHeld
      <4>1. hand[took[t]] = t /\ took[t] \in Processes /\ took[t] # p
        BY <2>3 DEF Ordered, PendingHeld, Provenance, TypeOK
      <4> QED
        BY <3>1, <4>1
    <3> QED
      BY <2>1, <2>3, <3>1, <3>2, <3>3, OrderedLosing
  <2> QED
    BY <1>4, <2>2, <2>3 DEF EndCall
<1>5. ASSUME NEW p \in Processes, CancelWorker(p) PROVE Ordered'
  <2>1. UNCHANGED <<sent, offered, took>> /\ GiveUp(p)
    BY <1>5 DEF CancelWorker
  <2>2. \A o \in Queues : Shortened(o)
    <3>1. worker[p] \in Waiting => worker[p] \in Queues
      BY DEF Waiting, Queues
    <3> QED
      BY <1>5, <3>1, PopShortens, SameShortens DEF CancelWorker
  <2> QED
    BY <2>1, <2>2, GivenUpHeld, OrderedLosing
<1>6. ASSUME NEW p \in Processes, Crash(p) PROVE Ordered'
  BY <1>6, SameShortens, GivenUpHeld, OrderedLosing DEF Crash, queues
<1>7. ASSUME NEW t \in Tasks, Perform(t) PROVE Ordered'
  BY <1>7, OrderedPerform
<1>8. ASSUME UNCHANGED <<list, sent, took, hand, unanswered, pending, performed>>,
             offered \subseteq offered'
      PROVE  Ordered'
  <2>1. PendingHeld'
    BY <1>8 DEF Ordered, PendingHeld
  <2> QED
    BY <1>8, <2>1, SameShortens, OrderedLosing
<1>9. ASSUME NEW p \in Processes,
             \/ \E t \in Tasks : EnqueueRefused(p, t)
             \/ Loop(p) \/ Start(p) \/ Stop(p) \/ Stopped(p) \/ Closed(p)
      PROVE  Ordered'
  BY <1>8, <1>9 DEF EnqueueRefused, Loop, Start, Stop, Stopped, Closed, queues, remote
<1>10. CASE UNCHANGED vars
  BY <1>8, <1>10 DEF vars, queues, remote
<1> QED
  BY <1>1, <1>2, <1>3, <1>4, <1>5, <1>6, <1>7, <1>9, <1>10 DEF Next, LoopStep

LEMMA OrderedInit == Init => Ordered
  BY DEF Init, Ordered, Provenance, TakenBeforeList, ListInOrder, HandLast,
     PendingHeld, PendingUndone, PerformedInOrder

(* No write-back is carried out twice, whatever answers are lost, wherever *)
(* a worker is cancelled or a process crashes, however late a call takes   *)
(* effect and however many processes take from the lists.  Of two of one   *)
(* queue that one process took the newer comes first only if the older's   *)
(* call was given up without an answer.                                    *)
THEOREM PerformedOnceInOrder == Spec => []OnceInOrder
<1>1. TypeOK /\ Ordered => OnceInOrder
  <2>1. TypeOK => DOMAIN performed = 1 .. Len(performed) /\ DOMAIN sent = 1 .. Len(sent)
    BY LenProperties DEF TypeOK
  <2> QED
    BY <2>1 DEF Ordered, PerformedInOrder, Before, OnceInOrder
<1> QED
  BY <1>1, OrderedInit, OrderedNext, WriteBackTyped, PTL DEF Spec

(* Nothing is made up: whatever the service carried out was stored in      *)
(* Redis by enqueue and popped by the loop of some process.                *)
THEOREM PerformedWasSent ==
  Spec => [](\A i \in 1 .. Len(performed) :
               /\ \E m \in 1 .. Len(sent) : sent[m] = performed[i]
               /\ took[performed[i]] \in Processes)
<1>1. TypeOK /\ Ordered =>
        \A i \in 1 .. Len(performed) :
          /\ \E m \in 1 .. Len(sent) : sent[m] = performed[i]
          /\ took[performed[i]] \in Processes
  BY DEF Ordered, Provenance, Stored, TypeOK
<1> QED
  BY <1>1, OrderedInit, OrderedNext, WriteBackTyped, PTL DEF Spec

=============================================================================
