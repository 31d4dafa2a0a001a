---------------------------- MODULE SharedEngines ----------------------------
(***************************************************************************)
(* What the engine registry promises the requests, apart from how it keeps *)
(* the promise: for each specification there is one engine at a time, made *)
(* for that specification, and every request that gets one gets that one.  *)
(* A request knows what it wants when it begins and wants nothing else     *)
(* until it leaves; engines are given up only when nobody is running.      *)
(***************************************************************************)
CONSTANTS
  Requests,
  Specs,    \* what an engine may be asked for
  Engines,  \* engines, each a record whose spec says what it was made for
  None

VARIABLES
  shared,   \* the engine of each specification, or None
  wants,    \* what each request wants: {} when it is not running
  has       \* the engine each request was given for a specification, or None

vars == <<shared, wants, has>>

Init ==
  /\ shared = [s \in Specs |-> None]
  /\ wants = [r \in Requests |-> {}]
  /\ has = [r \in Requests |-> [s \in Specs |-> None]]

Begin(r) ==
  /\ wants[r] = {}
  /\ \E w \in SUBSET Specs : w # {} /\ wants' = [wants EXCEPT ![r] = w]
  /\ UNCHANGED <<shared, has>>

(* A request is given the engine of what it wants, made now if need be. *)
Share(r, s) ==
  LET engine == shared'[s] IN
  /\ s \in wants[r] /\ has[r][s] = None
  /\ engine \in Engines /\ engine.spec = s
  /\ shared[s] \in {None, engine}
  /\ shared' = [shared EXCEPT ![s] = engine]
  /\ has' = [has EXCEPT ![r][s] = engine]
  /\ UNCHANGED wants

Leave(r) ==
  /\ wants[r] # {}
  /\ wants' = [wants EXCEPT ![r] = {}]
  /\ has' = [has EXCEPT ![r] = [s \in Specs |-> None]]
  /\ UNCHANGED shared

Retire ==
  /\ \A r \in Requests : wants[r] = {}
  /\ shared' = [s \in Specs |-> None]
  /\ UNCHANGED <<wants, has>>

Next ==
  \/ \E r \in Requests : Begin(r) \/ Leave(r) \/ \E s \in Specs : Share(r, s)
  \/ Retire

Spec == Init /\ [][Next]_vars
===============================================================================
