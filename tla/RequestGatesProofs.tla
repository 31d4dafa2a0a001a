------------------------- MODULE RequestGatesProofs -------------------------
(***************************************************************************)
(* Proofs about RequestGates: the bound of the sliding window, for every   *)
(* limit, window and number of clients and tools, and that no exception of *)
(* a handler passes the error layer.                                       *)
(***************************************************************************)
EXTENDS RequestGates, FiniteSetTheorems, TLAPS

RestTyped == client \in [Requests -> Clients] /\ refused \in Tools \cup {Nobody}

GatesTyped ==
  /\ now \in Nat
  /\ recent \in [Subjects -> SUBSET Admission]
  /\ count \in [Subjects -> Nat]
  /\ admitted \in [Subjects -> SUBSET Admission]

(* The lists are finite and within the limit; they hold every admission of *)
(* the window that ends now; admissions are numbered and not in the future.*)
ListsKept ==
  \A s \in Subjects :
    /\ IsFiniteSet(recent[s])
    /\ Cardinality(recent[s]) <= Limit[s]
    /\ \A a \in admitted[s] : a.time <= now /\ a.number <= count[s]
    /\ AdmittedUntil(s, now) \subseteq recent[s]

(* The inductive invariant of the window. *)
WInv == RestTyped /\ GatesTyped /\ ListsKept /\ WindowBound

LEMMA WInvInit == Init => WInv
<1> SUFFICES ASSUME Init PROVE WInv
  OBVIOUS
<1> USE RequestGatesAssumption, FS_EmptySet
<1>1. RestTyped /\ GatesTyped
  BY DEF Init, RestTyped, GatesTyped
<1>2. \A s \in Subjects, t \in Nat : AdmittedUntil(s, t) = {}
  BY DEF Init, AdmittedUntil
<1>3. \A s \in Subjects : Limit[s] \in Nat
  OBVIOUS
<1>4. ListsKept
  BY <1>2, <1>3 DEF Init, ListsKept
<1>5. WindowBound
  <2> SUFFICES ASSUME NEW s \in Subjects, NEW t \in 0..now
               PROVE  Cardinality(AdmittedUntil(s, t)) <= Limit[s]
    BY DEF WindowBound
  <2>1. AdmittedUntil(s, t) = {}
    BY <1>2 DEF Init
  <2> QED
    BY <1>3, <2>1
<1> QED
  BY <1>1, <1>4, <1>5 DEF WInv

(* Pruning keeps the window that ends now and grows nothing. *)
LEMMA PrunedKept ==
  ASSUME WInv, NEW s \in Subjects
  PROVE  /\ Pruned(s) \subseteq recent[s] /\ IsFiniteSet(Pruned(s))
         /\ Cardinality(Pruned(s)) \in Nat
         /\ Cardinality(Pruned(s)) <= Limit[s]
         /\ AdmittedUntil(s, now) \subseteq Pruned(s)
<1>1. Pruned(s) \subseteq recent[s]
  BY DEF Pruned
<1>2. IsFiniteSet(recent[s]) /\ Cardinality(recent[s]) <= Limit[s]
  BY DEF WInv, ListsKept
<1>3. /\ IsFiniteSet(Pruned(s)) /\ Cardinality(Pruned(s)) <= Cardinality(recent[s])
      /\ Cardinality(Pruned(s)) \in Nat /\ Cardinality(recent[s]) \in Nat
  BY <1>1, <1>2, FS_Subset, FS_CardinalityType
<1>4. AdmittedUntil(s, now) \subseteq Pruned(s)
  BY DEF WInv, ListsKept, AdmittedUntil, Pruned, InWindow
<1>5. Limit[s] \in Nat
  BY RequestGatesAssumption
<1> QED
  BY <1>1, <1>2, <1>3, <1>4, <1>5

(* A step of the lists is an admission or a refusal of one subject. *)
LEMMA GateSteps ==
  ASSUME WInv, [Next]_vars
  PROVE  /\ RestTyped'
         /\ \/ UNCHANGED <<now, gates>>
            \/ Tick
            \/ \E s \in Subjects : (Admit(s) \/ Refuse(s)) /\ UNCHANGED now
<1>1. ASSUME NEW r \in Requests, NEW c \in Clients, Arrive(r, c)
      PROVE  RestTyped' /\ UNCHANGED <<now, gates>>
  BY <1>1 DEF Arrive, NoGate, gates, WInv, RestTyped
<1>2. ASSUME NEW r \in Requests, RateLimit(r)
      PROVE  /\ RestTyped'
             /\ \E s \in Subjects : (Admit(s) \/ Refuse(s)) /\ UNCHANGED now
  BY <1>2 DEF RateLimit, WInv, RestTyped, Subjects
<1>3. ASSUME NEW r \in Requests,
             \/ Preflight(r) \/ PassIn(r) \/ Handle(r) \/ HandleErrors(r)
             \/ PassOut(r) \/ Send(r)
      PROVE  RestTyped' /\ UNCHANGED <<now, gates>>
  BY <1>3 DEF Preflight, PassIn, Handle, HandleErrors, PassOut, Send,
              NoGate, gates, WInv, RestTyped
<1>4. ASSUME NEW t \in Tools, Invoke(t)
      PROVE  /\ RestTyped'
             /\ \/ UNCHANGED <<now, gates>>
                \/ \E s \in Subjects : (Admit(s) \/ Refuse(s)) /\ UNCHANGED now
  BY <1>4 DEF Invoke, NoGate, gates, WInv, RestTyped, Subjects
<1>5. CASE Tick
  BY <1>5 DEF Tick, NoGate, gates, WInv, RestTyped
<1>6. CASE UNCHANGED vars
  BY <1>6 DEF vars, gates, WInv, RestTyped
<1> QED
  BY <1>1, <1>2, <1>3, <1>4, <1>5, <1>6 DEF Next

(* A subject is admitted. *)
LEMMA AdmitKeeps ==
  ASSUME WInv, RestTyped', NEW s \in Subjects, Admit(s), UNCHANGED now
  PROVE  WInv'
<1> USE RequestGatesAssumption
<1> DEFINE a == [number |-> count[s] + 1, time |-> now]
<1>1. /\ recent' = [recent EXCEPT ![s] = Pruned(s) \cup {a}]
      /\ admitted' = [admitted EXCEPT ![s] = @ \cup {a}]
      /\ count' = [count EXCEPT ![s] = @ + 1]
  BY DEF Admit
<1>2. a \in Admission
  BY DEF WInv, GatesTyped, Admission
<1>3. GatesTyped'
  BY <1>1, <1>2, PrunedKept DEF WInv, GatesTyped
<1>4. /\ IsFiniteSet(recent'[s])
      /\ Cardinality(recent'[s]) \in Nat /\ Cardinality(recent'[s]) <= Limit[s]
  <2>1. /\ IsFiniteSet(Pruned(s)) /\ Cardinality(Pruned(s)) \in Nat
        /\ Cardinality(Pruned(s)) < Limit[s]
    <3>1. ~(Cardinality(Pruned(s)) >= Limit[s])
      BY DEF Admit, Full
    <3> QED
      BY <3>1, PrunedKept
  <2>2. recent'[s] = Pruned(s) \cup {a}
    BY <1>1 DEF WInv, GatesTyped
  <2>3. /\ IsFiniteSet(Pruned(s) \cup {a})
        /\ \/ Cardinality(Pruned(s) \cup {a}) = Cardinality(Pruned(s))
           \/ Cardinality(Pruned(s) \cup {a}) = Cardinality(Pruned(s)) + 1
    BY <2>1, FS_AddElement
  <2> QED
    BY <2>1, <2>2, <2>3
<1>5. \A q \in Subjects : AdmittedUntil(q, now)' \subseteq recent'[q]
  <2>1. AdmittedUntil(s, now)' \subseteq AdmittedUntil(s, now) \cup {a}
    BY <1>1 DEF AdmittedUntil, WInv, GatesTyped
  <2>2. AdmittedUntil(s, now)' \subseteq recent'[s]
    BY <1>1, <2>1, PrunedKept DEF WInv, GatesTyped
  <2>3. ASSUME NEW q \in Subjects, q # s
        PROVE  AdmittedUntil(q, now)' \subseteq recent'[q]
    BY <1>1, <2>3 DEF AdmittedUntil, WInv, GatesTyped, ListsKept
  <2> QED
    BY <2>2, <2>3
<1>6. ListsKept'
  <2>1. ASSUME NEW q \in Subjects, q # s
        PROVE  IsFiniteSet(recent'[q]) /\ Cardinality(recent'[q]) <= Limit[q]
    BY <1>1, <2>1 DEF WInv, GatesTyped, ListsKept
  <2>2. \A q \in Subjects : \A b \in admitted'[q] : b.time <= now /\ b.number <= count'[q]
    BY <1>1 DEF WInv, GatesTyped, ListsKept, Admission
  <2> QED
    BY <1>4, <1>5, <2>1, <2>2 DEF ListsKept
<1>7. WindowBound'
  <2> SUFFICES ASSUME NEW q \in Subjects, NEW t \in 0..now
               PROVE  Cardinality(AdmittedUntil(q, t)') <= Limit[q]
    BY DEF WindowBound, AdmittedUntil
  <2>1. CASE q # s \/ t # now
    <3>1. AdmittedUntil(q, t)' = AdmittedUntil(q, t)
      BY <1>1, <2>1 DEF AdmittedUntil, WInv, GatesTyped
    <3> QED
      BY <3>1 DEF WInv, WindowBound
  <2>2. CASE q = s /\ t = now
    <3>1. AdmittedUntil(q, t)' \subseteq recent'[s]
      BY <1>5, <2>2 DEF AdmittedUntil
    <3> QED
      BY <1>4, <2>2, <3>1, FS_Subset, FS_CardinalityType
  <2> QED
    BY <2>1, <2>2
<1> QED
  BY <1>3, <1>6, <1>7 DEF WInv

(* A subject is refused: its list is only pruned. *)
LEMMA RefuseKeeps ==
  ASSUME WInv, RestTyped', NEW s \in Subjects, Refuse(s), UNCHANGED now
  PROVE  WInv'
<1>1. /\ recent' = [recent EXCEPT ![s] = Pruned(s)]
      /\ UNCHANGED <<count, admitted>>
  BY DEF Refuse
<1>2. GatesTyped'
  BY <1>1, PrunedKept DEF WInv, GatesTyped
<1>3. \A q \in Subjects, t \in Nat : AdmittedUntil(q, t)' = AdmittedUntil(q, t)
  BY <1>1 DEF AdmittedUntil
<1>4. ListsKept'
  BY <1>1, <1>3, PrunedKept DEF WInv, GatesTyped, ListsKept
<1>5. WindowBound'
  BY <1>1, <1>3 DEF WInv, GatesTyped, WindowBound
<1> QED
  BY <1>2, <1>4, <1>5 DEF WInv

(* Time passes: the window that ends now lies in the one before. *)
LEMMA TickKeeps ==
  ASSUME WInv, RestTyped', Tick
  PROVE  WInv'
<1>1. now' = now + 1 /\ UNCHANGED <<recent, count, admitted>>
  BY DEF Tick, NoGate, gates
<1>2. GatesTyped'
  BY <1>1 DEF WInv, GatesTyped
<1>3. ASSUME NEW s \in Subjects
      PROVE  AdmittedUntil(s, now)' \subseteq AdmittedUntil(s, now)
  BY <1>1, <1>3, RequestGatesAssumption
  DEF AdmittedUntil, WInv, GatesTyped, ListsKept, Admission
<1>4. ListsKept'
  BY <1>1, <1>3 DEF WInv, GatesTyped, ListsKept, Admission
<1>5. WindowBound'
  <2> SUFFICES ASSUME NEW s \in Subjects, NEW t \in 0..(now + 1)
               PROVE  Cardinality(AdmittedUntil(s, t)') <= Limit[s]
    BY <1>1 DEF WindowBound, AdmittedUntil
  <2>1. CASE t \in 0..now
    BY <1>1, <2>1 DEF WInv, WindowBound, AdmittedUntil
  <2>2. CASE t = now + 1
    <3>1. AdmittedUntil(s, t)' \subseteq recent[s]
      BY <1>1, <1>3, <2>2 DEF WInv, ListsKept, AdmittedUntil
    <3> QED
      BY <3>1, FS_Subset, FS_CardinalityType, RequestGatesAssumption
      DEF WInv, ListsKept
  <2> QED
    BY <2>1, <2>2 DEF WInv, GatesTyped
<1> QED
  BY <1>2, <1>4, <1>5 DEF WInv

LEMMA WInvNext == WInv /\ [Next]_vars => WInv'
<1> SUFFICES ASSUME WInv, [Next]_vars PROVE WInv'
  OBVIOUS
<1>1. CASE UNCHANGED <<now, gates>>
  BY <1>1, GateSteps
  DEF gates, WInv, GatesTyped, ListsKept, WindowBound, AdmittedUntil
<1> QED
  BY <1>1, GateSteps, AdmitKeeps, RefuseKeeps, TickKeeps

(* Whatever the interleaving of requests and tool calls, no window of time *)
(* holds more admissions of a client or a tool than its limit              *)
(* (RateLimitMiddleware.dispatch, BasicToolsEngine._check_rate_limit).     *)
THEOREM WindowBounded == Spec => []WindowBound
<1>1. WInv => WindowBound
  BY DEF WInv
<1> QED
  BY <1>1, WInvInit, WInvNext, PTL DEF Spec

-----------------------------------------------------------------------------
(* The stack.                                                              *)

StackTyped ==
  /\ layer \in [Requests -> 0..Router]
  /\ heading \in [Requests -> {"in", "out"}]
  /\ outcome \in [Requests -> Outcome]

(* An exception is on its way out, and one of a handler is not yet past    *)
(* the error layer.                                                        *)
ErrorsInside ==
  \A r \in Requests : outcome[r].kind = "error" =>
    /\ heading[r] = "out"
    /\ outcome[r].error # "rate_limit" => layer[r] >= 3

Envelope(o) ==
  o.kind = "response" /\ o.error # "rate_limit"
    => /\ o.envelope
       /\ o.error \in {"business", "unexpected"} => o.status = StatusOf(o.error)

(* The inductive invariant of the stack. *)
SInv == StackTyped /\ ErrorsInside /\ \A r \in Requests : Envelope(outcome[r])

LEMMA StackLayers ==
  /\ Depth = 5 /\ Router = 6
  /\ Stack(1) = "cors" /\ Stack(2) = "rate_limit" /\ Stack(3) = "errors"
  /\ Stack(4) = "security" /\ Stack(5) = "context"
BY DEF Stack, Depth, Added, Router

LEMMA SInvInit == Init => SInv
BY StackLayers
DEF Init, SInv, StackTyped, ErrorsInside, Envelope, Outcome, None

(* What turns back, goes on or is sent is an outcome with its envelope. *)
LEMMA Responses ==
  /\ Response(200, "none", TRUE) \in Outcome /\ Envelope(Response(200, "none", TRUE))
  /\ Response(404, "http", TRUE) \in Outcome /\ Envelope(Response(404, "http", TRUE))
  /\ \A e \in {"rate_limit", "business", "unexpected"} :
       /\ Error(e) \in Outcome /\ Envelope(Error(e))
       /\ Response(StatusOf(e), e, TRUE) \in Outcome
       /\ Envelope(Response(StatusOf(e), e, TRUE))
BY DEF Response, Error, Outcome, Envelope, StatusOf

(* The request of a step that goes one layer inward. *)
LEMMA InwardKeeps ==
  ASSUME SInv, NEW r \in Requests, heading[r] = "in", layer[r] <= Depth, Inward(r)
  PROVE  SInv'
BY StackLayers DEF SInv, StackTyped, ErrorsInside, Inward

(* A request turns back, or goes one layer outward, with the outcome o. *)
Leaves(r, o) ==
  /\ o \in Outcome /\ Envelope(o)
  /\ layer[r] >= 1
  /\ o.kind = "error" /\ o.error # "rate_limit" => layer[r] >= 4
  /\ layer' = [layer EXCEPT ![r] = @ - 1]
  /\ heading' = [heading EXCEPT ![r] = "out"]
  /\ outcome' = [outcome EXCEPT ![r] = o]

LEMMA OutwardKeeps ==
  ASSUME SInv, NEW r \in Requests, NEW o, Leaves(r, o)
  PROVE  SInv'
<1> USE DEF Leaves
<1>1. StackTyped'
  BY StackLayers DEF SInv, StackTyped
<1>2. ErrorsInside'
  BY DEF SInv, StackTyped, ErrorsInside
<1>3. \A q \in Requests : Envelope(outcome'[q])
  BY DEF SInv, StackTyped
<1> QED
  BY <1>1, <1>2, <1>3 DEF SInv, Envelope

LEMMA SInvNext == SInv /\ [Next]_vars => SInv'
<1> SUFFICES ASSUME SInv, [Next]_vars PROVE SInv'
  OBVIOUS
<1> USE StackLayers
<1>1. ASSUME NEW r \in Requests, NEW c \in Clients, Arrive(r, c) PROVE SInv'
  <2>1. /\ layer' = [layer EXCEPT ![r] = 1] /\ UNCHANGED heading
        /\ outcome' = [outcome EXCEPT ![r] = None] /\ heading[r] = "in"
    BY <1>1 DEF Arrive, Outside
  <2>2. None \in Outcome /\ None.kind = "none"
    BY DEF None, Outcome
  <2>3. Envelope(None)
    BY <2>2 DEF Envelope
  <2> HIDE DEF None
  <2>4. \A q \in Requests :
          /\ layer'[q] = IF q = r THEN 1 ELSE layer[q]
          /\ outcome'[q] = IF q = r THEN None ELSE outcome[q]
    BY <2>1 DEF SInv, StackTyped
  <2>5. StackTyped'
    BY <2>1, <2>2 DEF SInv, StackTyped
  <2>6. ErrorsInside'
    BY <2>1, <2>2, <2>4 DEF SInv, ErrorsInside
  <2>7. \A q \in Requests : Envelope(outcome'[q])
    BY <2>3, <2>4 DEF SInv
  <2> QED
    BY <2>5, <2>6, <2>7 DEF SInv, Envelope
<1>2. ASSUME NEW r \in Requests, Preflight(r) PROVE SInv'
  <2>1. Leaves(r, Response(200, "none", TRUE))
    BY <1>2, Responses DEF Preflight, GoesIn, TurnBack, Response, Leaves
  <2> QED
    BY <2>1, OutwardKeeps
<1>3. ASSUME NEW r \in Requests, RateLimit(r) PROVE SInv'
  <2>1. CASE Inward(r)
    BY <1>3, <2>1, InwardKeeps DEF RateLimit, GoesIn
  <2>2. CASE TurnBack(r, Error("rate_limit"))
    <3>1. layer[r] >= 1
      BY <1>3 DEF RateLimit, GoesIn
    <3>2. Error("rate_limit").error = "rate_limit"
      BY DEF Error
    <3>3. Leaves(r, Error("rate_limit"))
      BY <2>2, <3>1, <3>2, Responses DEF TurnBack, Leaves
    <3> QED
      BY <3>3, OutwardKeeps
  <2> QED
    BY <1>3, <2>1, <2>2 DEF RateLimit
<1>4. ASSUME NEW r \in Requests, PassIn(r) PROVE SInv'
  BY <1>4, InwardKeeps DEF PassIn, GoesIn
<1>5. ASSUME NEW r \in Requests, Handle(r) PROVE SInv'
  <2>1. PICK o \in {Response(200, "none", TRUE), Response(404, "http", TRUE),
                    Error("business"), Error("unexpected")} : TurnBack(r, o)
    BY <1>5 DEF Handle
  <2>2. o \in Outcome /\ Envelope(o)
    <3>1. Error("business") \in Outcome /\ Envelope(Error("business"))
      BY Responses, Zenon
    <3>2. Error("unexpected") \in Outcome /\ Envelope(Error("unexpected"))
      BY Responses, Zenon
    <3>3. \/ o = Response(200, "none", TRUE) \/ o = Response(404, "http", TRUE)
          \/ o = Error("business") \/ o = Error("unexpected")
      OBVIOUS
    <3>4. /\ Response(200, "none", TRUE) \in Outcome /\ Envelope(Response(200, "none", TRUE))
          /\ Response(404, "http", TRUE) \in Outcome /\ Envelope(Response(404, "http", TRUE))
      BY Responses, Zenon
    <3>5. ASSUME o = Response(200, "none", TRUE) \/ o = Response(404, "http", TRUE)
          PROVE  o \in Outcome /\ Envelope(o)
      BY <3>4, <3>5, Zenon
    <3>6. ASSUME o = Error("business") \/ o = Error("unexpected")
          PROVE  o \in Outcome /\ Envelope(o)
      BY <3>1, <3>2, <3>6, Zenon
    <3> QED
      BY <3>3, <3>5, <3>6
  <2>3. layer[r] = 6
    BY <1>5 DEF Handle
  <2>4. Leaves(r, o)
    BY <2>1, <2>2, <2>3 DEF TurnBack, Leaves
  <2> QED
    BY <2>4, OutwardKeeps
<1>6. ASSUME NEW r \in Requests, HandleErrors(r) PROVE SInv'
  <2> DEFINE o == Answer(outcome[r])
  <2>1. outcome[r] \in Outcome /\ Envelope(outcome[r])
    BY DEF SInv, StackTyped
  <2>2. o \in Outcome /\ Envelope(o) /\ o.kind # "error"
    <3>1. CASE outcome[r].kind = "error"
      <4>1. outcome[r].error \in {"rate_limit", "business", "unexpected"}
        BY <2>1, <3>1 DEF Outcome, None
      <4>2. o = Response(StatusOf(outcome[r].error), outcome[r].error, TRUE)
        BY <3>1 DEF Answer
      <4>3. o.kind = "response"
        BY <4>2 DEF Response
      <4> QED
        BY <4>1, <4>2, <4>3, Responses
    <3>2. CASE outcome[r].kind # "error"
      BY <2>1, <3>2 DEF Answer
    <3> QED
      BY <3>1, <3>2
  <2>3. /\ layer' = [layer EXCEPT ![r] = @ - 1] /\ layer[r] >= 1
        /\ heading' = [heading EXCEPT ![r] = "out"]
        /\ outcome' = [outcome EXCEPT ![r] = o]
    BY <1>6 DEF HandleErrors, GoesOut, Outward, SInv, StackTyped
  <2> HIDE DEF o
  <2>4. Leaves(r, o)
    BY <2>2, <2>3 DEF Leaves
  <2> QED
    BY <2>4, OutwardKeeps
<1>7. ASSUME NEW r \in Requests, PassOut(r) PROVE SInv'
  <2>1. /\ layer' = [layer EXCEPT ![r] = @ - 1] /\ layer[r] \in {1, 2, 4, 5}
        /\ heading[r] = "out" /\ outcome' = [outcome EXCEPT ![r] = outcome[r]]
        /\ UNCHANGED heading
    BY <1>7 DEF PassOut, GoesOut, Outward
  <2>2. outcome[r].kind = "error" /\ outcome[r].error # "rate_limit" => layer[r] >= 4
    BY <2>1 DEF SInv, ErrorsInside
  <2>3. heading' = [heading EXCEPT ![r] = "out"]
    BY <2>1 DEF SInv, StackTyped
  <2>4. outcome[r] \in Outcome /\ Envelope(outcome[r])
    BY DEF SInv, StackTyped
  <2>5. layer' = [layer EXCEPT ![r] = @ - 1] /\ layer[r] >= 1
    BY <2>1
  <2>6. outcome' = [outcome EXCEPT ![r] = outcome[r]]
    BY <2>1
  <2>7. Leaves(r, outcome[r])
    BY <2>2, <2>3, <2>4, <2>5, <2>6 DEF Leaves
  <2> QED
    BY <2>7, OutwardKeeps
<1>9. ASSUME NEW r \in Requests, Send(r) PROVE SInv'
  <2> DEFINE o == Sent(outcome[r])
  <2>1. outcome[r] \in Outcome /\ Envelope(outcome[r])
    BY DEF SInv, StackTyped
  <2>2. o \in Outcome /\ Envelope(o) /\ o.kind # "error"
    <3>1. CASE outcome[r].kind = "error"
      <4>1. layer[r] = 0
        BY <1>9 DEF Send
      <4>2. outcome[r].error = "rate_limit"
        BY <3>1, <4>1 DEF SInv, ErrorsInside
      <4>3. o = Response(500, "rate_limit", FALSE)
        BY <3>1, <4>2 DEF Sent
      <4> QED
        BY <4>3 DEF Response, Outcome, Envelope
    <3>2. CASE outcome[r].kind # "error"
      BY <2>1, <3>2 DEF Sent
    <3> QED
      BY <3>1, <3>2
  <2>3. /\ layer' = layer /\ heading' = [heading EXCEPT ![r] = "in"]
        /\ outcome' = [outcome EXCEPT ![r] = o]
    BY <1>9 DEF Send
  <2> HIDE DEF o
  <2> QED
    BY <2>2, <2>3 DEF SInv, StackTyped, ErrorsInside, Envelope
<1>10. ASSUME NEW t \in Tools, Invoke(t) PROVE SInv'
  BY <1>10 DEF Invoke, SInv, StackTyped, ErrorsInside, Envelope
<1>11. CASE Tick
  BY <1>11 DEF Tick, SInv, StackTyped, ErrorsInside, Envelope
<1>12. CASE UNCHANGED vars
  BY <1>12 DEF vars, SInv, StackTyped, ErrorsInside, Envelope
<1> QED
  BY <1>1, <1>2, <1>3, <1>4, <1>5, <1>6, <1>7, <1>9, <1>10, <1>11, <1>12
  DEF Next

(* No exception of a handler leaves the stack without its envelope and its *)
(* status (ErrorHandlerMiddleware.dispatch, below the layers added to      *)
(* main.py after it).                                                      *)
THEOREM HandlersEnveloped == Spec => []HandlerErrorsEnveloped
<1>1. SInv => HandlerErrorsEnveloped
  BY DEF SInv, HandlerErrorsEnveloped, Envelope
<1> QED
  BY <1>1, SInvInit, SInvNext, PTL DEF Spec

(* Every variable keeps its type; each list stays within the limit. *)
THEOREM Typing == Spec => []TypeOK
<1>1. WInv /\ SInv => TypeOK
  BY DEF WInv, SInv, TypeOK, RestTyped, GatesTyped, ListsKept, StackTyped
<1> QED
  BY <1>1, WInvInit, WInvNext, SInvInit, SInvNext, PTL DEF Spec

-----------------------------------------------------------------------------
(* Refusals.                                                               *)

(* The lists hold admissions and nothing else. *)
ListsAdmitted == \A s \in Subjects : recent[s] \subseteq admitted[s]

LEMMA AdmittedNext == WInv /\ ListsAdmitted /\ [Next]_vars => ListsAdmitted'
<1> SUFFICES ASSUME WInv, ListsAdmitted, [Next]_vars PROVE ListsAdmitted'
  OBVIOUS
<1>1. CASE UNCHANGED <<now, gates>> \/ Tick
  BY <1>1 DEF ListsAdmitted, NoGate, gates, Tick
<1>2. ASSUME NEW s \in Subjects, Admit(s) \/ Refuse(s)
      PROVE  ListsAdmitted'
  <2>1. Pruned(s) \subseteq admitted[s]
    BY DEF Pruned, ListsAdmitted
  <2>2. CASE Refuse(s)
    BY <2>1, <2>2 DEF Refuse, ListsAdmitted, WInv, GatesTyped
  <2>3. CASE Admit(s)
    <3> DEFINE a == [number |-> count[s] + 1, time |-> now]
    <3>1. /\ recent' = [recent EXCEPT ![s] = Pruned(s) \cup {a}]
          /\ admitted' = [admitted EXCEPT ![s] = @ \cup {a}]
      BY <2>3 DEF Admit
    <3> HIDE DEF a
    <3> QED
      BY <2>1, <3>1 DEF ListsAdmitted, WInv, GatesTyped
  <2> QED
    BY <1>2, <2>2, <2>3
<1> QED
  BY <1>1, <1>2, GateSteps

(* A full list holds the admissions of the window that ends now. *)
LEMMA FullIsUsedUp ==
  ASSUME WInv, ListsAdmitted, NEW s \in Subjects, Full(s)
  PROVE  Cardinality(AdmittedUntil(s, now)) >= Limit[s]
<1>1. Pruned(s) \subseteq AdmittedUntil(s, now)
  BY DEF Pruned, InWindow, AdmittedUntil, ListsAdmitted, WInv, ListsKept
<1>2. Pruned(s) = AdmittedUntil(s, now)
  BY <1>1, PrunedKept
<1> QED
  BY <1>2 DEF Full

(* Only the rate limit's own step, on a full list, refuses a request. *)
LEMMA RefusedIsFull ==
  ASSUME SInv, [Next]_vars, NEW r \in Requests,
         outcome[r] # Error("rate_limit"), outcome'[r] = Error("rate_limit")
  PROVE  Full(client[r])
<1>1. Error("rate_limit").kind = "error" /\ Error("rate_limit").error = "rate_limit"
  BY DEF Error
<1>2. outcome' # outcome /\ outcome \in [Requests -> Outcome]
  BY DEF SInv, StackTyped
<1>3. ASSUME NEW q \in Requests, NEW o, outcome' = [outcome EXCEPT ![q] = o]
      PROVE  q = r /\ o = Error("rate_limit")
  BY <1>2, <1>3
<1>4. ASSUME NEW q \in Requests, NEW o, outcome' = [outcome EXCEPT ![q] = o],
             o.kind = "response" \/ o.error # "rate_limit"
      PROVE  FALSE
  BY <1>1, <1>3, <1>4
<1>5. ASSUME NEW q \in Requests, RateLimit(q) PROVE Full(client[r])
  <2>1. CASE Inward(q)
    BY <1>2, <2>1 DEF Inward
  <2>2. CASE Refuse(client[q]) /\ TurnBack(q, Error("rate_limit"))
    <3>1. q = r
      BY <1>3, <2>2 DEF TurnBack
    <3> QED
      BY <2>2, <3>1 DEF Refuse
  <2> QED
    BY <1>5, <2>1, <2>2 DEF RateLimit
<1>6. ASSUME NEW q \in Requests, PassIn(q) \/ \E c \in Clients : Arrive(q, c)
      PROVE  FALSE
  <2>1. CASE PassIn(q)
    BY <1>2, <2>1 DEF PassIn, Inward
  <2>2. CASE \E c \in Clients : Arrive(q, c)
    <3>1. outcome' = [outcome EXCEPT ![q] = None]
      BY <2>2 DEF Arrive
    <3>2. None = Error("rate_limit")
      BY <1>3, <3>1
    <3> QED
      BY <1>1, <3>2 DEF None
  <2> QED
    BY <1>6, <2>1, <2>2
<1>7. ASSUME NEW q \in Requests, Preflight(q) PROVE FALSE
  <2> DEFINE o == Response(200, "none", TRUE)
  <2>1. o.kind = "response"
    BY DEF Response
  <2>2. outcome' = [outcome EXCEPT ![q] = o]
    BY <1>7 DEF Preflight, TurnBack
  <2> HIDE DEF o
  <2> QED
    BY <1>4, <2>1, <2>2
<1>8. ASSUME NEW q \in Requests, Handle(q) PROVE FALSE
  <2>1. PICK o \in {Response(200, "none", TRUE), Response(404, "http", TRUE),
                    Error("business"), Error("unexpected")} : TurnBack(q, o)
    BY <1>8 DEF Handle
  <2>2. outcome' = [outcome EXCEPT ![q] = o]
    BY <2>1 DEF TurnBack
  <2>3. o.kind = "response" \/ o.error # "rate_limit"
    BY DEF Response, Error
  <2> QED
    BY <1>4, <2>2, <2>3
<1>9. ASSUME NEW q \in Requests, HandleErrors(q) PROVE FALSE
  <2>1. q = r /\ Answer(outcome[r]) = Error("rate_limit")
    BY <1>3, <1>9 DEF HandleErrors, Outward
  <2>2. outcome[r].kind = "error"
    BY <2>1 DEF Answer
  <2>3. Answer(outcome[r]).kind = "response"
    BY <2>2 DEF Answer, Response
  <2> QED
    BY <1>1, <2>1, <2>3
<1>10. ASSUME NEW q \in Requests, PassOut(q) PROVE FALSE
  BY <1>2, <1>10 DEF PassOut, Outward
<1>11. ASSUME NEW q \in Requests, Send(q) PROVE FALSE
  <2>1. Sent(outcome[q]) = Error("rate_limit") /\ q = r
    <3>1. outcome' = [outcome EXCEPT ![q] = Sent(outcome[q])]
      BY <1>11 DEF Send
    <3> QED
      BY <1>3, <3>1
  <2>2. outcome[r].kind = "error"
    BY <2>1 DEF Sent
  <2>3. Sent(outcome[r]).kind = "response"
    BY <2>2 DEF Sent, Response
  <2> QED
    BY <1>1, <2>1, <2>3
<1>12. ASSUME NEW t \in Tools, Invoke(t) PROVE FALSE
  BY <1>2, <1>12 DEF Invoke
<1>13. CASE Tick \/ UNCHANGED vars
  BY <1>2, <1>13 DEF Tick, vars
<1> QED
  BY <1>5, <1>6, <1>7, <1>8, <1>9, <1>10, <1>11, <1>12, <1>13 DEF Next

(* Only a call that meets a full list of its tool is refused. *)
LEMMA RefusedToolIsFull ==
  ASSUME Next, NEW t \in Tools, refused' = t
  PROVE  Full(t)
<1>1. t # Nobody
  BY RequestGatesAssumption
<1>2. \E q \in Tools : Invoke(q)
  BY <1>1 DEF Next, Arrive, Preflight, RateLimit, PassIn, Handle, HandleErrors,
     PassOut, Send, Tick, NoGate
<1>3. PICK q \in Tools : Invoke(q)
  BY <1>2
<1>4. Refuse(q) /\ refused' = q
  BY <1>1, <1>3 DEF Invoke, NoGate
<1> QED
  BY <1>4 DEF Refuse

(* A request or a tool's call is refused only when requests of its own     *)
(* client, or calls of its own tool, let in during the last window, used   *)
(* the limit up (RateLimitMiddleware.dispatch and _check_rate_limit record *)
(* only what they let in, in the list of that client or that tool).        *)
THEOREM RefusalsEarned == Spec => RefusedWhenUsedUp
<1>1. Init => ListsAdmitted
  BY DEF Init, ListsAdmitted
<1>2. WInv /\ SInv /\ ListsAdmitted /\ [Next]_vars =>
        [/\ \A r \in Requests :
              outcome[r] # Error("rate_limit") /\ outcome'[r] = Error("rate_limit")
                => UsedUp(client[r])
         /\ \A t \in Tools : refused' = t => UsedUp(t)]_vars
  <2> SUFFICES ASSUME WInv, SInv, ListsAdmitted, Next
               PROVE  /\ \A r \in Requests :
                           outcome[r] # Error("rate_limit") /\ outcome'[r] = Error("rate_limit")
                             => UsedUp(client[r])
                      /\ \A t \in Tools : refused' = t => UsedUp(t)
    OBVIOUS
  <2>1. ASSUME NEW r \in Requests,
               outcome[r] # Error("rate_limit"), outcome'[r] = Error("rate_limit")
        PROVE  UsedUp(client[r])
    <3>1. client[r] \in Subjects
      BY DEF WInv, RestTyped, Subjects
    <3> QED
      BY <2>1, <3>1, RefusedIsFull, FullIsUsedUp DEF UsedUp
  <2>2. ASSUME NEW t \in Tools, refused' = t
        PROVE  UsedUp(t)
    <3>1. t \in Subjects
      BY DEF Subjects
    <3> QED
      BY <2>2, <3>1, RefusedToolIsFull, FullIsUsedUp DEF UsedUp
  <2> QED
    BY <2>1, <2>2
<1> QED
  BY <1>1, <1>2, WInvInit, WInvNext, SInvInit, SInvNext, AdmittedNext, PTL
  DEF Spec, RefusedWhenUsedUp
=============================================================================
