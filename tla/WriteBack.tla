------------------------------ MODULE WriteBack ------------------------------
(***************************************************************************)
(* The asynchronous write-back of profiles and memories: the Redis lists,  *)
(* TaskQueueService (backend/app/storage/queue.py), the worker loop        *)
(* (services/worker.py), the engines' queued calls                         *)
(* (engines/user_profile/memobase.py, engines/chat_memory/mem0.py) and the *)
(* start and stop of a process (lifespan in main.py).                      *)
(*                                                                         *)
(* Several processes (the workers of the server) run the same program on   *)
(* the same two lists, each with a loop of its own.  LPUSH and BRPOP are   *)
(* atomic in Redis, but their answers may be lost: the caller then takes a *)
(* stored task for refused (which nobody asks), or a popped one for none.  *)
(* A call that has left a process is out of its reach: the remote service  *)
(* may carry it out after the caller gave it up, was cancelled or died, at *)
(* any later time.                                                         *)
(***************************************************************************)
EXTENDS Naturals, Sequences

CONSTANTS
  Processes, \* the server's worker processes
  Tasks,     \* write-backs, each enqueued at most once
  QueueOf,   \* the queue of each task: "profile" or "memory"
  Lookups,   \* whether the registry may give the worker its engine: {FALSE}
             \* for the registry as it is, with TRUE for the one the tests patch
  MaxStarts, \* bound: starts of processes
  None       \* no task in hand, no process

Queues == {"profile", "memory"}

ASSUME WriteBackAssumption ==
  /\ QueueOf \in [Tasks -> Queues]
  /\ Lookups \in (SUBSET BOOLEAN) \ {{}}
  /\ MaxStarts \in Nat
  /\ None \notin Tasks \cup Processes

VARIABLES
  list,       \* the Redis list of each queue, the oldest task first
  sent,       \* ghost: the tasks Redis has stored, in order
  offered,    \* the tasks enqueue was called with
  process,    \* of each process: "down", "up", "stopping", "closing"
  starts,     \* starts so far, of all of them
  client,     \* the process has a Redis client
  worker,     \* where its loop stands
  hand,       \* the task whose engine call it awaits
  took,       \* ghost: the process whose loop popped the task
  pending,    \* the tasks with a call the remote service may still carry out
  unanswered, \* ghost: the tasks whose call was given up without an answer
  performed   \* the tasks the remote service has carried out, in order

queues == <<list, sent, offered>>
lives == <<process, starts, client>>
remote == <<pending, performed>>
vars == <<queues, lives, worker, hand, took, unanswered, remote>>

Waiting == {"profile", "memory"}     \* in dequeue, of that queue
Calling == {"profiling", "remembering"} \* in the engine, for that queue

Init ==
  /\ list = [q \in Queues |-> <<>>] /\ sent = <<>>
  /\ offered = {}
  /\ process = [p \in Processes |-> "down"] /\ starts = 0
  /\ client = [p \in Processes |-> FALSE]
  /\ worker = [p \in Processes |-> "off"]
  /\ hand = [p \in Processes |-> None] /\ took = [t \in Tasks |-> None]
  /\ pending = {} /\ unanswered = {} /\ performed = <<>>

-----------------------------------------------------------------------------
(* The callers, in any process: update_profile and add_memory.             *)

Pushed(q, t) == Append(list[q], t)

(* LPUSH is carried out, though the answer may be lost. *)
Enqueue(p, t) ==
  /\ process[p] = "up" /\ client[p] /\ t \notin offered
  /\ list' = [list EXCEPT ![QueueOf[t]] = Pushed(QueueOf[t], t)]
  /\ sent' = Append(sent, t) /\ offered' = offered \cup {t}
  /\ UNCHANGED <<lives, worker, hand, took, unanswered, remote>>

(* No client, or Redis refuses: the task is dropped. *)
EnqueueRefused(p, t) ==
  /\ process[p] = "up" /\ t \notin offered
  /\ offered' = offered \cup {t}
  /\ UNCHANGED <<list, sent, lives, worker, hand, took, unanswered, remote>>

-----------------------------------------------------------------------------
(* The worker's loop: profile, memory, sleep.                              *)

CallOf(q) == IF q = "profile" THEN "profiling" ELSE "remembering"

(* A buggy variant: the loop never comes to the second queue. *)
AfterProfileSleep(w) == "sleep"

(* Where the loop goes when it has done with a queue. *)
After(w) == IF w \in {"profile", "profiling"} THEN "memory" ELSE "sleep"

Goes(p, w) == worker' = [worker EXCEPT ![p] = w]

Pop(q) == list[q] # <<>> /\ list' = [list EXCEPT ![q] = Tail(@)]

(* The process calls its engine with the task, and awaits the answer. *)
Call(p, t) ==
  /\ Goes(p, CallOf(QueueOf[t]))
  /\ hand' = [hand EXCEPT ![p] = t]
  /\ pending' = pending \cup {t}

(* A buggy variant: a task whose engine is not found stays in hand. *)
DequeueHolding(p, q) ==
  /\ worker[p] = q /\ client[p] /\ Pop(q)
  /\ took' = [took EXCEPT ![Head(list[q])] = p]
  /\ hand' = [hand EXCEPT ![p] = Head(list[q])]
  /\ \E found \in Lookups : Goes(p, IF found THEN CallOf(q) ELSE After(q))
  /\ UNCHANGED <<sent, offered, lives, unanswered, remote>>

(* A task is popped.  The handler asks the registry for the engine before  *)
(* it awaits anything; a failure is logged and the task consumed.          *)
Dequeue(p, q) ==
  /\ worker[p] = q /\ client[p] /\ Pop(q)
  /\ took' = [took EXCEPT ![Head(list[q])] = p]
  /\ \E found \in Lookups :
       IF found THEN Call(p, Head(list[q]))
       ELSE Goes(p, After(q)) /\ UNCHANGED <<hand, pending>>
  /\ UNCHANGED <<sent, offered, lives, unanswered, performed>>

(* BRPOP times out on an empty list, there is no client, or Redis fails:   *)
(* with or without having popped a task.                                   *)
DequeueNothing(p, q) ==
  /\ worker[p] = q
  /\ UNCHANGED list \/ (client[p] /\ Pop(q))
  /\ Goes(p, After(q))
  /\ UNCHANGED <<sent, offered, lives, hand, took, unanswered, remote>>

(* The process no longer awaits its call. *)
Drop(p) == hand' = [hand EXCEPT ![p] = None]

(* It has given it up, wherever the call is. *)
GiveUp(p) ==
  /\ Drop(p)
  /\ unanswered' = unanswered \cup ({hand[p]} \ {None})
  /\ UNCHANGED remote

(* A buggy variant: a task whose call fails is queued again. *)
EndCallRequeuing(p) ==
  /\ worker[p] \in Calling
  /\ Goes(p, After(worker[p]))
  /\ GiveUp(p)
  /\ list' \in {list, [list EXCEPT ![QueueOf[hand[p]]] = <<hand[p]>> \o @]}
  /\ UNCHANGED <<sent, offered, lives, took>>

(* _perform_update or _perform_add returns: with the service's answer, or  *)
(* a refusal of the breaker, that there is nothing more to come of the     *)
(* call; or without, after a timeout or a lost connection.  A success and  *)
(* a failure are no different to the worker.                               *)
EndCall(p) ==
  /\ worker[p] \in Calling
  /\ Goes(p, After(worker[p]))
  /\ \/ /\ Drop(p) /\ pending' = pending \ {hand[p]}
        /\ UNCHANGED <<unanswered, performed>>
     \/ GiveUp(p)
  /\ UNCHANGED <<queues, lives, took>>

(* The remote service carries out a call that was made, once. *)
Perform(t) ==
  /\ t \in pending
  /\ pending' = pending \ {t} /\ performed' = Append(performed, t)
  /\ UNCHANGED <<queues, lives, worker, hand, took, unanswered>>

(* The sleep is over and the loop's condition is evaluated. *)
Loop(p) ==
  /\ worker[p] = "sleep"
  /\ Goes(p, IF process[p] = "up" THEN "profile" ELSE "off")
  /\ UNCHANGED <<queues, lives, hand, took, unanswered, remote>>

-----------------------------------------------------------------------------
(* The life of a process.                                                  *)

Becomes(p, phase) == process' = [process EXCEPT ![p] = phase]
LosesClient(p) == client' = [client EXCEPT ![p] = FALSE]

Start(p) ==
  /\ process[p] = "down" /\ starts < MaxStarts
  /\ Becomes(p, "up") /\ starts' = starts + 1
  /\ \E connected \in BOOLEAN : client' = [client EXCEPT ![p] = connected]
  /\ Goes(p, "profile")
  /\ UNCHANGED <<queues, hand, took, unanswered, remote>>

(* stop() clears running and waits for the loop. *)
Stop(p) ==
  /\ process[p] = "up"
  /\ Becomes(p, "stopping")
  /\ UNCHANGED <<queues, starts, client, worker, hand, took, unanswered, remote>>

(* After 5 s wait_for cancels the loop, wherever it is, and waits for it.  *)
CancelWorker(p) ==
  /\ process[p] = "stopping" /\ worker[p] # "off"
  /\ Goes(p, "off") /\ GiveUp(p)
  /\ UNCHANGED list \/ (worker[p] \in Waiting /\ client[p] /\ Pop(worker[p]))
  /\ UNCHANGED <<sent, offered, lives, took>>

(* A buggy variant: stop() does not wait for the loop. *)
StoppedAtOnce(p) ==
  /\ process[p] = "stopping"
  /\ Becomes(p, "closing")
  /\ UNCHANGED <<queues, starts, client, worker, hand, took, unanswered, remote>>

(* stop() returns; the engines, Redis and the database are closed. *)
Stopped(p) ==
  /\ process[p] = "stopping" /\ worker[p] = "off"
  /\ Becomes(p, "closing")
  /\ UNCHANGED <<queues, starts, client, worker, hand, took, unanswered, remote>>

Closed(p) ==
  /\ process[p] = "closing"
  /\ Becomes(p, "down") /\ LosesClient(p)
  /\ UNCHANGED <<queues, starts, worker, hand, took, unanswered, remote>>

(* The process dies with whatever it has in hand. *)
Crash(p) ==
  /\ process[p] # "down"
  /\ Becomes(p, "down") /\ LosesClient(p)
  /\ Goes(p, "off") /\ GiveUp(p)
  /\ UNCHANGED <<queues, starts, took>>

LoopStep(p) ==
  (\E q \in Queues : Dequeue(p, q) \/ DequeueNothing(p, q)) \/ EndCall(p) \/ Loop(p)

Next ==
  \/ \E p \in Processes, t \in Tasks : Enqueue(p, t) \/ EnqueueRefused(p, t)
  \/ \E p \in Processes :
       \/ LoopStep(p)
       \/ Start(p) \/ Stop(p) \/ CancelWorker(p) \/ Stopped(p) \/ Closed(p) \/ Crash(p)
  \/ \E t \in Tasks : Perform(t)

Spec == Init /\ [][Next]_vars

(* The event loop of each process runs its worker, Redis answers or times  *)
(* out, and stop() cancels what does not end.                              *)
FairSpec ==
  /\ Spec
  /\ \A p \in Processes :
       /\ WF_vars(LoopStep(p)) /\ WF_vars(CancelWorker(p))
       /\ WF_vars(Stopped(p)) /\ WF_vars(Closed(p))
       /\ \A q \in Queues : SF_vars(Dequeue(p, q))

-----------------------------------------------------------------------------
(* Every variable has its type; a process has a task in hand exactly       *)
(* during its call.                                                        *)
TypeOK ==
  /\ list \in [Queues -> Seq(Tasks)] /\ sent \in Seq(Tasks)
  /\ offered \subseteq Tasks
  /\ process \in [Processes -> {"down", "up", "stopping", "closing"}]
  /\ starts \in 0..MaxStarts /\ client \in [Processes -> BOOLEAN]
  /\ worker \in [Processes -> {"off", "sleep"} \cup Waiting \cup Calling]
  /\ hand \in [Processes -> Tasks \cup {None}]
  /\ \A p \in Processes : hand[p] # None <=> worker[p] \in Calling
  /\ took \in [Tasks -> Processes \cup {None}]
  /\ pending \subseteq Tasks /\ unanswered \subseteq Tasks
  /\ performed \in Seq(Tasks)

(* What the queues promise of the write-backs the remote service carries   *)
(* out.  None is carried out twice, whatever is lost, cancelled, late or   *)
(* crashed, and however many processes take from the lists: a memory is    *)
(* not added twice.  And of two of one queue that one process took, the    *)
(* newer is not carried out before the older, unless the older's call was  *)
(* given up without an answer.  (Otherwise there is no order: a call given *)
(* up may take effect late, and processes do not wait for one another, so  *)
(* that an older profile update may still come after a newer one.)         *)
OnceInOrder ==
  \A i, j \in DOMAIN performed : i < j =>
    /\ performed[i] # performed[j]
    /\ \A m, n \in DOMAIN sent :
         /\ sent[m] = performed[i] /\ sent[n] = performed[j]
         /\ QueueOf[performed[i]] = QueueOf[performed[j]]
         /\ took[performed[i]] = took[performed[j]]
         /\ performed[j] \notin unanswered
         => m < n

(* When the engines, Redis and the database of a process are being closed  *)
(* no loop is left that uses them (lifespan awaits stop() first).          *)
QuietWhenClosing ==
  \A p \in Processes : process[p] \in {"closing", "down"} => worker[p] = "off"

(* A stored task does not wait for ever if some process stays up with a    *)
(* working Redis: the loop comes back to each of its queues, whatever the  *)
(* handlers do.                                                            *)
QueuesDrain ==
  \A p \in Processes, q \in Queues :
    (<>[](process[p] = "up" /\ client[p])) => []<>(list[q] = <<>>)

(* What the engines document of the queued update: it is executed by the   *)
(* worker, so that a task popped is a task whose engine is called.         *)
ConsumedIsCalled ==
  [][\A p \in Processes, q \in Queues :
       worker[p] = q /\ Dequeue(p, q) => hand'[p] = Head(list[q])]_vars
=============================================================================
