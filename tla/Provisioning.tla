----------------------------- MODULE Provisioning -----------------------------
(***************************************************************************)
(* How a chat request comes to its engines: the personality it takes from  *)
(* the registry (ChatOrchestrator.chat and chat_stream in                  *)
(* backend/app/orchestration/chat.py), the engines of its context          *)
(* (ContextService.build_context_bundle in context/service.py), the AI     *)
(* engine last, beside reloads of the personalities and the start and stop *)
(* of the process (lifespan in main.py).  The parts are Personalities and  *)
(* EngineRegistry, over the variables of the same names.                   *)
(*                                                                         *)
(* The server (uvicorn) stops accepting requests, lets the running ones    *)
(* end, and only then runs the part of lifespan that closes the engines.   *)
(***************************************************************************)
EXTENDS Naturals, Sequences

CONSTANTS
  Requests, Specs, Creatable, Failed,            \* see EngineRegistry
  NumFiles, Ids, Definitions, Absent, Broken,    \* see Personalities
  ContextSpecs,  \* the context engines the configuration enables
  None

VARIABLES
  cache, made, holder, waiters, making, got, closed,  \* see EngineRegistry
  registry,                                           \* see Personalities
  with,          \* the personality each running request took, or None
  life           \* "off", "failed", "up", "draining", "closing", "closed"

engineVars == <<cache, made, holder, waiters, making, got, closed>>
vars == <<cache, made, holder, waiters, making, got, closed,
          registry, with, life>>

Engine == INSTANCE EngineRegistry
Personality == INSTANCE Personalities

ASSUME ProvisioningAssumption ==
  /\ Engine!RegistryConstants /\ Personality!PersonalitiesConstants
  /\ \A d \in Definitions : d.ai \in Specs /\ d.ai.kind = "ai" /\ d.memory \in BOOLEAN
  /\ ContextSpecs \subseteq Specs
  /\ \A s \in ContextSpecs : s.kind # "ai"

Init ==
  /\ Engine!Init /\ Personality!Init
  /\ with = [r \in Requests |-> None]
  /\ life = "off"

-----------------------------------------------------------------------------
(* A request.                                                              *)

Running(r) == with[r] # None

(* The context engines a personality asks for: memories only if it wants. *)
ContextOf(p) == {s \in ContextSpecs : s.kind = "chat_memory" => p.memory}

Plan(r) == IF Running(r) THEN ContextOf(with[r]) \cup {with[r].ai} ELSE {}

(* 1. and 2. of chat: the personality is looked up, once. *)
Begin(r, id) ==
  /\ life = "up" /\ ~Running(r) /\ registry[id] # None
  /\ with' = [with EXCEPT ![r] = registry[id]]
  /\ UNCHANGED <<engineVars, registry, life>>

(* What the request may ask for next: the context engines all at once, and *)
(* the AI engine when each of those calls has ended, one way or the other. *)
Ready(r, s) ==
  /\ Running(r)
  /\ \/ s \in ContextOf(with[r])
     \/ /\ s = with[r].ai
        /\ \A c \in ContextOf(with[r]) : got[r][c] # None

Ask(r, s) ==
  /\ Ready(r, s)
  /\ Engine!GetOrCreate(r, s) \/ Engine!AwaitLock(r, s)
  /\ UNCHANGED <<registry, with, life>>

Resume(r, s) ==
  /\ Engine!LockGranted(r, s) \/ Engine!Initialized(r, s) \/ Engine!InitializeFails(r, s)
  /\ UNCHANGED <<registry, with, life>>

(* The request is over: answered, or refused for want of its AI engine. *)
End(r) ==
  /\ Running(r) /\ got[r][with[r].ai] # None
  /\ with' = [with EXCEPT ![r] = None]
  /\ Engine!Forget(r)
  /\ UNCHANGED <<registry, life>>

(* The client of a stream has gone: the request is cancelled anywhere. *)
Cancel(r) ==
  /\ Running(r)
  /\ with' = [with EXCEPT ![r] = None]
  /\ Engine!Forget(r)
  /\ UNCHANGED <<registry, life>>

-----------------------------------------------------------------------------
(* The personalities and the process.                                      *)

(* POST /reload: it may fail half way, and what it has loaded stays. *)
Reload ==
  /\ life = "up"
  /\ \E dir \in Personality!Directories : Personality!LoadAll(dir)
  /\ UNCHANGED <<engineVars, with, life>>

(* A file that does not load ends the start. *)
Start ==
  /\ life = "off"
  /\ \E dir \in Personality!Directories :
       /\ Personality!LoadAll(dir)
       /\ life' = IF Personality!LoadFails(dir) THEN "failed" ELSE "up"
  /\ UNCHANGED <<engineVars, with>>

Shutdown ==
  /\ life = "up"
  /\ life' = "draining"
  /\ UNCHANGED <<engineVars, registry, with>>

Drained ==
  /\ life = "draining" /\ \A r \in Requests : ~Running(r)
  /\ life' = "closing"
  /\ UNCHANGED <<engineVars, registry, with>>

(* A buggy variant: an engine whose close() raises ends close_all. *)
CloseMayRaise(k) ==
  /\ life = "closing"
  /\ Engine!CloseEngine(k)
  /\ life' \in {"closing", "closed"}
  /\ UNCHANGED <<registry, with>>

Close(k) ==
  /\ life = "closing"
  /\ Engine!CloseEngine(k)
  /\ UNCHANGED <<registry, with, life>>

Closed ==
  /\ life = "closing"
  /\ Engine!ClearAll
  /\ life' = "closed"
  /\ UNCHANGED <<registry, with>>

RequestStep(r) == End(r) \/ \E s \in Specs : Ask(r, s) \/ Resume(r, s)
ClosingStep == Drained \/ Closed \/ \E k \in Engine!Keys : Close(k)

Next ==
  \/ \E r \in Requests : RequestStep(r) \/ Cancel(r) \/ \E id \in Ids : Begin(r, id)
  \/ Reload \/ Start \/ Shutdown \/ ClosingStep

Spec == Init /\ [][Next]_vars

(* The event loop resumes what can go on: initialize() and the services    *)
(* answer or fail in the end, and so a request that asks for its engines   *)
(* gets on.  Nobody need edit, reload, cancel or shut down.                *)
FairSpec ==
  /\ Spec
  /\ \A r \in Requests : WF_vars(RequestStep(r))
  /\ WF_vars(ClosingStep)

-----------------------------------------------------------------------------
(* Properties.                                                             *)

EnginesOrNone == Engine!Engines \cup {None}

(* Type correctness. *)
TypeOK ==
  /\ cache \in [Engine!Keys -> EnginesOrNone]
  /\ made \in [Engine!Keys -> Nat]
  /\ holder \in [Engine!Keys -> Requests \cup {None}]
  /\ waiters \in [Engine!Keys -> Seq(Requests)]
  /\ making \subseteq Requests \X Specs
  /\ got \in [Requests -> [Specs -> EnginesOrNone \cup {Failed}]]
  /\ closed \subseteq Engine!Engines
  /\ registry \in [Ids -> Definitions \cup {None}]
  /\ with \in [Requests -> Definitions \cup {None}]
  /\ life \in {"off", "failed", "up", "draining", "closing", "closed"}

(* The abstract state: a call that raised has given nothing. *)
Shared == INSTANCE SharedEngines WITH
  Engines <- Engine!Engines,
  shared <- [s \in Specs |-> cache[Engine!CacheKey(s)]],
  wants <- [r \in Requests |-> Plan(r)],
  has <- [r \in Requests |->
            [s \in Specs |-> IF got[r][s] = Failed THEN None ELSE got[r][s]]]

(* However requests race for a key, fail or are cancelled while they hold  *)
(* its lock, and whatever is reloaded meanwhile, they share one engine for *)
(* each provider and model, made for that provider and model, and each     *)
(* keeps to the engines of the personality it began with.                  *)
SharesEngines == Shared!Spec

(* Every engine ever handed out is closed before the process ends, even if *)
(* the close() of another raised, and none while a request may use it.     *)
ClosedOnceIdle ==
  /\ life = "closed" =>
       \A k \in Engine!Keys :
         \A n \in 1 .. made[k] :
           \E e \in closed : Engine!CacheKey(e.spec) = k /\ e.number = n
  /\ closed # {} => \A r \in Requests : ~Running(r)

(* A reload, failed or not, takes no personality away from the clients,    *)
(* though its file is gone, and what it changes is as a file of that id    *)
(* says.                                                                   *)
LoadStep ==
  \A id \in Ids :
    registry'[id] # registry[id] =>
      registry'[id] \in {d \in Definitions : d.id = id}
ReloadKeepsServing == [][LoadStep]_registry

(* Every request ends, whoever fails or is cancelled in the creation of an *)
(* engine it waits for, and so does a shutdown.                            *)
RequestsEnd == \A r \in Requests : Running(r) ~> ~Running(r)
ShutdownEnds == (life = "draining") ~> (life = "closed")
EverythingEnds == RequestsEnd /\ ShutdownEnds
===============================================================================
