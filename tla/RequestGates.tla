---------------------------- MODULE RequestGates ----------------------------
(***************************************************************************)
(* What stands before the handlers: the middleware stack of main.py, with  *)
(* its rate limit (backend/app/middleware/), and the gates of the tools    *)
(* engine with theirs (backend/app/engines/tools/basic.py).  The two       *)
(* limits are one algorithm, a sliding window over a list of times, here   *)
(* a set of numbered times, for each client and for each tool.             *)
(*                                                                         *)
(* Requests of one event loop interleave between the layers; within a      *)
(* layer, between two awaits, a request runs alone.  Time is that of one   *)
(* process (the lists are in its memory) and is not set back.              *)
(***************************************************************************)
EXTENDS Naturals, Sequences, FiniteSets

CONSTANTS
  Requests,  \* requests under way at a time
  Clients,   \* client ids (addresses)
  Tools,     \* tool names the engine may be asked for
  Known,     \* those it has
  Guarded,   \* those whose definition requires a permission
  ReadOnly,  \* those whose definition says they have no side effect
  Mode,      \* of the whitelist: "off", "strict" or "permissive"
  Allowed,   \* the tools on the whitelist
  Permitting, \* permissions are enabled in the configuration
  Installed, \* of the layers that depend on the configuration, those added
  Nobody,    \* no tool
  Window,    \* 60 s
  Limit,     \* for each subject: requests_per_minute, max_calls_per_minute
  MaxTime    \* bound: units of time

Subjects == Clients \cup Tools

ASSUME RequestGatesAssumption ==
  /\ Clients \cap Tools = {}
  /\ Known \subseteq Tools /\ Guarded \subseteq Tools /\ ReadOnly \subseteq Tools
  /\ Mode \in {"off", "strict", "permissive"} /\ Allowed \subseteq Tools
  /\ Permitting \in BOOLEAN
  /\ Installed \subseteq {"rate_limit", "cors"}
  /\ Nobody \notin Tools
  /\ Window \in Nat /\ MaxTime \in Nat
  /\ Limit \in [Subjects -> Nat]

VARIABLES
  now,      \* time.time()
  recent,   \* the list of each subject
  count,    \* how many were ever admitted, to number them
  admitted, \* ghost: every admission
  refused,  \* ghost: the tool of which the last step refused a call
  layer,    \* the layer each request is in, 0 outside
  heading,  \* "in" or "out"
  client,   \* its client
  outcome   \* what it is carrying out: an error or a response

gates == <<recent, count, admitted>>
NoGate == UNCHANGED gates /\ refused' = Nobody
vars == <<now, recent, count, admitted, refused, layer, heading, client, outcome>>

Admission == [number: Nat, time: Nat]

-----------------------------------------------------------------------------
(* The sliding window.                                                     *)

(* A buggy variant: a record is dropped a unit of time too early. *)
InWindowShort(a) == now - a.time + 1 < Window

InWindow(a) == now - a.time < Window

Pruned(s) == {a \in recent[s] : InWindow(a)}

(* A buggy variant: one list for all clients, and one for all tools. *)
FullTogether(s) ==
  LET alike == IF s \in Clients THEN Clients ELSE Tools
  IN  Cardinality(UNION {{<<q, a>> : a \in Pruned(q)} : q \in alike}) >= Limit[s]

Full(s) == Cardinality(Pruned(s)) >= Limit[s]

Admit(s) ==
  /\ ~Full(s)
  /\ LET a == [number |-> count[s] + 1, time |-> now]
     IN  /\ recent' = [recent EXCEPT ![s] = Pruned(s) \cup {a}]
         /\ admitted' = [admitted EXCEPT ![s] = @ \cup {a}]
  /\ count' = [count EXCEPT ![s] = @ + 1]

(* A buggy variant: what is refused is recorded too. *)
RefuseRecording(s) ==
  /\ Full(s)
  /\ recent' = [recent EXCEPT ![s] =
                  Pruned(s) \cup {[number |-> count[s] + 1, time |-> now]}]
  /\ count' = [count EXCEPT ![s] = @ + 1]
  /\ UNCHANGED admitted

Refuse(s) ==
  /\ Full(s)
  /\ recent' = [recent EXCEPT ![s] = Pruned(s)]
  /\ UNCHANGED <<count, admitted>>

-----------------------------------------------------------------------------
(* The middleware stack.  Starlette puts each added layer around those     *)
(* added before: the last one added is the outermost.  The rate limit and  *)
(* CORS are added if the configuration enables them; a layer that is not   *)
(* Installed lets everything pass.                                         *)

Added == <<"context", "security", "errors", "rate_limit", "cors">>
Depth == Len(Added)
Stack(i) == Added[Depth + 1 - i]

Router == Depth + 1

None == [kind |-> "none"]
Error(e) == [kind |-> "error", error |-> e]

StatusOf(e) ==
  CASE e = "rate_limit" -> 429 [] e = "business" -> 422 [] OTHER -> 500

(* envelope: the body is an ErrorResponse or the handler's own; error: the *)
(* error it answers.                                                       *)
Response(status, e, envelope) ==
  [kind |-> "response", status |-> status, error |-> e, envelope |-> envelope]

Init ==
  /\ now = 0
  /\ recent = [s \in Subjects |-> {}]
  /\ count = [s \in Subjects |-> 0]
  /\ admitted = [s \in Subjects |-> {}] /\ refused = Nobody
  /\ layer = [r \in Requests |-> 0]
  /\ heading = [r \in Requests |-> "in"]
  /\ client \in [Requests -> Clients]
  /\ outcome = [r \in Requests |-> None]

Outside(r) == layer[r] = 0 /\ heading[r] = "in"
GoesIn(r, l) == heading[r] = "in" /\ layer[r] \in 1..Depth /\ Stack(layer[r]) = l
GoesOut(r, l) == heading[r] = "out" /\ layer[r] \in 1..Depth /\ Stack(layer[r]) = l

Inward(r) == layer' = [layer EXCEPT ![r] = @ + 1] /\ UNCHANGED <<heading, outcome>>

(* The request turns back with an outcome, to the layer around. *)
TurnBack(r, o) ==
  /\ layer' = [layer EXCEPT ![r] = @ - 1]
  /\ heading' = [heading EXCEPT ![r] = "out"]
  /\ outcome' = [outcome EXCEPT ![r] = o]

Outward(r, o) ==
  /\ layer' = [layer EXCEPT ![r] = @ - 1]
  /\ outcome' = [outcome EXCEPT ![r] = o]
  /\ UNCHANGED heading

Arrive(r, c) ==
  /\ Outside(r)
  /\ client' = [client EXCEPT ![r] = c]
  /\ layer' = [layer EXCEPT ![r] = 1]
  /\ outcome' = [outcome EXCEPT ![r] = None]
  /\ UNCHANGED heading
  /\ NoGate /\ UNCHANGED now

(* CORS answers a preflight itself. *)
Preflight(r) ==
  /\ GoesIn(r, "cors") /\ "cors" \in Installed
  /\ TurnBack(r, Response(200, "none", TRUE))
  /\ NoGate /\ UNCHANGED <<now, client>>

(* The rate limit: the list is pruned, and the request let in or refused   *)
(* with an exception.                                                      *)
RateLimit(r) ==
  /\ GoesIn(r, "rate_limit") /\ "rate_limit" \in Installed
  /\ \/ Admit(client[r]) /\ Inward(r)
     \/ Refuse(client[r]) /\ TurnBack(r, Error("rate_limit"))
  /\ refused' = Nobody
  /\ UNCHANGED <<now, client>>

PassIn(r) ==
  /\ \E l \in {"cors", "errors", "security", "context"} \cup ({"rate_limit"} \ Installed) :
       GoesIn(r, l)
  /\ Inward(r)
  /\ NoGate /\ UNCHANGED <<now, client>>

(* The router and the handler: a response (an HTTPException is one, made   *)
(* by the exception handlers), or an exception.                            *)
Handle(r) ==
  /\ layer[r] = Router
  /\ \E o \in {Response(200, "none", TRUE), Response(404, "http", TRUE),
               Error("business"), Error("unexpected")} : TurnBack(r, o)
  /\ NoGate /\ UNCHANGED <<now, client>>

(* A buggy variant: only business errors are answered. *)
AnswerBusinessOnly(o) ==
  IF o.kind = "error" /\ o.error = "business"
  THEN Response(StatusOf(o.error), o.error, TRUE) ELSE o

(* ErrorHandlerMiddleware: an exception becomes a response. *)
Answer(o) ==
  IF o.kind = "error" THEN Response(StatusOf(o.error), o.error, TRUE) ELSE o

HandleErrors(r) ==
  /\ GoesOut(r, "errors")
  /\ Outward(r, Answer(outcome[r]))
  /\ NoGate /\ UNCHANGED <<now, client>>

(* The other layers pass on what comes; the headers they add to a response *)
(* are left out.                                                           *)
PassOut(r) ==
  /\ \E l \in {"context", "security", "rate_limit", "cors"} : GoesOut(r, l)
  /\ Outward(r, outcome[r])
  /\ NoGate /\ UNCHANGED <<now, client>>

(* Outside every layer the server answers an exception with a plain 500;   *)
(* the response is sent.                                                   *)
Sent(o) == IF o.kind = "error" THEN Response(500, o.error, FALSE) ELSE o

Send(r) ==
  /\ layer[r] = 0 /\ heading[r] = "out"
  /\ heading' = [heading EXCEPT ![r] = "in"]
  /\ outcome' = [outcome EXCEPT ![r] = Sent(@)]
  /\ NoGate /\ UNCHANGED <<now, layer, client>>

-----------------------------------------------------------------------------
(* BasicToolsEngine.invoke, up to the tool.                                *)

Whitelisted(t) == Mode = "off" \/ (Mode = "permissive" /\ Allowed = {}) \/ t \in Allowed

(* Without a personality only a read-only tool is permitted; with one, the *)
(* code asks Config for a method it does not have, and the error denies    *)
(* the tool whatever the personality's file says.                          *)
Permitted(t, personality) == ~Permitting \/ (~personality /\ t \in ReadOnly)

PassesGates(t, personality) ==
  t \in Known /\ Whitelisted(t) /\ (t \in Guarded => Permitted(t, personality))

(* Only a call that passes the gates before it meets the rate limit. *)
Invoke(t) ==
  /\ \E personality \in BOOLEAN :
       IF PassesGates(t, personality)
       THEN \/ Admit(t) /\ refused' = Nobody
            \/ Refuse(t) /\ refused' = t
       ELSE NoGate
  /\ UNCHANGED <<now, layer, heading, client, outcome>>

Tick ==
  /\ now < MaxTime
  /\ now' = now + 1
  /\ NoGate /\ UNCHANGED <<layer, heading, client, outcome>>

Next ==
  \/ \E r \in Requests :
       \/ \E c \in Clients : Arrive(r, c)
       \/ Preflight(r) \/ RateLimit(r) \/ PassIn(r) \/ Handle(r)
       \/ HandleErrors(r) \/ PassOut(r) \/ Send(r)
  \/ \E t \in Tools : Invoke(t)
  \/ Tick

Spec == Init /\ [][Next]_vars

-----------------------------------------------------------------------------
Outcome ==
  {None} \cup [kind: {"error"}, error: {"rate_limit", "business", "unexpected"}]
  \cup [kind: {"response"}, status: {200, 404, 422, 429, 500},
        error: {"none", "http", "rate_limit", "business", "unexpected"},
        envelope: BOOLEAN]

(* Every variable has its type, and a list holds no more than the limit:   *)
(* memory is bounded for each client, though not in their number.          *)
TypeOK ==
  /\ now \in Nat
  /\ recent \in [Subjects -> SUBSET Admission]
  /\ \A s \in Subjects : Cardinality(recent[s]) <= Limit[s]
  /\ count \in [Subjects -> Nat]
  /\ admitted \in [Subjects -> SUBSET Admission]
  /\ refused \in Tools \cup {Nobody}
  /\ layer \in [Requests -> 0..Router]
  /\ heading \in [Requests -> {"in", "out"}]
  /\ client \in [Requests -> Clients]
  /\ outcome \in [Requests -> Outcome]

(* What was admitted of a subject in the Window that ends at t. *)
AdmittedUntil(s, t) == {a \in admitted[s] : a.time <= t /\ t - a.time < Window}

(* In no window of time, wherever it begins, is a client or a tool         *)
(* admitted more often than its limit.                                     *)
WindowBound ==
  \A s \in Subjects, t \in 0..now : Cardinality(AdmittedUntil(s, t)) <= Limit[s]

UsedUp(s) == Cardinality(AdmittedUntil(s, now)) >= Limit[s]

(* A request or a tool's call is refused only when the limit was used up   *)
(* by requests of the same client, or calls of the same tool, that were    *)
(* let in during the last window: being refused costs nothing, and one     *)
(* client's or one tool's calls cost another's nothing.                    *)
RefusedWhenUsedUp ==
  [][/\ \A r \in Requests :
          outcome[r] # Error("rate_limit") /\ outcome'[r] = Error("rate_limit")
            => UsedUp(client[r])
     /\ \A t \in Tools : refused' = t => UsedUp(t)]_vars

(* Whatever a handler raises is answered in the error envelope, with its   *)
(* own status: no exception of a handler leaves the stack.                 *)
HandlerErrorsEnveloped ==
  \A r \in Requests :
    outcome[r].kind = "response" /\ outcome[r].error # "rate_limit"
      => /\ outcome[r].envelope
         /\ outcome[r].error \in {"business", "unexpected"}
              => outcome[r].status = StatusOf(outcome[r].error)

(* What the tests ask of a refused request: it is answered with 429.       *)
RefusalsAre429 ==
  \A r \in Requests :
    outcome[r].kind = "response" /\ outcome[r].error = "rate_limit"
      => outcome[r].status = 429
=============================================================================
