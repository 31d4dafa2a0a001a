# CozyEngine in TLA+

A verification project for the CozyEngine backend (`src/backend/app`): TLA+
modules of its core, TLC runs on small instances, and TLAPS proofs of what
matters most. Every definition is translated from the source; PROJECT.json
("map") names the lines each one stands for.

## The system

CozyEngine is a FastAPI service on one asyncio event loop. A chat request goes
through the middleware stack to `ChatOrchestrator`, which builds a context
(recent messages from PostgreSQL, and three remote engines: knowledge, user
profile, chat memory), calls an AI engine in a loop with tools, and stores the
turn. A background worker carries out queued updates of profiles and memories.
The configuration and the personalities come from files, and a registry makes
the engines that requests share.

| Component | State | Operations | Works with | Hard behaviour | What makes it correct |
|---|---|---|---|---|---|
| Chat requests (`orchestration/chat.py`, `storage/`, `api/compat/sessions.py`) | tables `sessions`, `messages`; ORM objects of open transactions | chat, chat_stream, create and delete a session | context, engines, database | interleaved READ COMMITTED transactions, lost COMMIT answers, disconnections, crashes | a plain turn is stored whole or not at all; no orphan message; no deletion undone; prompts split a turn at their oldest end only |
| Tool loop and stream (`orchestration/chat.py`, `api/v1/chat/completions.py`) | iteration, conversation, accumulated text, events sent | engine call, chunk, tool execution, store, end | AI engine, tools, audit | failures of some calls of several, the iteration limit, a client that leaves | every tool call answered in order; bounded; stored text is streamed text; one end event |
| Remote engines (`engines/base_remote.py` and three subclasses) | breaker, L1 cache, Redis keys | cached and plain calls | Redis (shared by processes), HTTP | late answers, cancellation by the caller's timeout, expiry, restarts | state agrees with counters; the pause is kept; nothing is served past its life |
| Write-back (`storage/queue.py`, `services/worker.py`, `main.py` lifespan) | two Redis lists that all processes share, the place of each process's loop | enqueue, dequeue, handle, start, stop | remote engines, Redis | lost LPUSH and BRPOP answers, cancelled worker, crash with a task in hand, calls that take effect late, several processes, shutdown order | at most once; answered tasks of one process in order; queues drain; nothing runs while things close |
| Context assembly (`context/service.py`) | engine calls, profile objects, the cache they share | build_context_bundle, token budget | remote engines, database | failing, slow, parallel calls; a shared mutable object; answers of the wrong type; budgets at and below zero | the bundle leaves room for the completion; newest messages kept; cuts are told; no engine's failure ends a build |
| Middleware and rate limits (`middleware/`, `main.py`) | a list of times for each client | each layer's dispatch | handlers | order of layers, requests crossing each other, window edges | no window above the limit; a refusal is owed to admissions of the same client; handlers' exceptions enveloped |
| Tools engine (`engines/tools/basic.py`) | a list of times for each tool | invoke and its gates | tool loop, configuration | same window as above | same |
| Engine registry (`engines/registry.py`) | an engine and a lock for each key | get_or_create..., close_all | chat, context, lifespan | requests racing for a key, creation that fails or is cancelled under the lock, close() that raises | one engine for each provider and model, shared by all; every one closed, none in use |
| Personalities (`core/personalities/`, `api/compat/personalities.py`) | the definitions by id | load_all, reload, get | files, chat | a reload that stops half way, files gone, two files of one id, reloads beside running requests | none taken away by a reload; a request keeps what it began with |
| Configuration (`core/config/`) | the one Config instance | load and merge of files, overlays and variables; validation; get_config | files, environment | precedence of layers, empty and broken files, a reload that fails | complete, in range, each option from the layer that comes first |
| Built-in tools, voice, realtime, greyscale, sanitizing, health and listings, migrations | none of their own | | | | |

PROJECT.json lists the components with their status, and under "hazards" what in
this code is hard to test, each at its line, with the properties that cover it.

## Modules

Each module names the operation of the code in its actions; the comment at its
head says where the steps are cut. Between two awaits a coroutine runs alone,
so a step is what happens from one await to the next. Operators introduced as
"A buggy variant" are plausible errors: put in place of the definition that
follows them, they break one property. They are in no behaviour of the model.

- **Transcript** - the abstract specification of the stored conversation: a plain
  turn appears in one step, a stream's question and later its reply, nothing by
  a request that has ended, an answer only when both messages are stored.
- **ChatSessions** - concurrent plain and streaming requests over the two tables.
  A transaction is `Select` (the ORM object is loaded, no lock), `Flush` (the row
  lock) and `Commit`; `Conflict` is the IntegrityError of two first requests;
  `CommitUnacknowledged`, `Fail`, `Disconnect` and `Crash` are the ways a request
  ends early. `message_count` is written as the number computed at Select, as
  SQLAlchemy does. A prompt is the window the query reads, or what a cut at its
  oldest end leaves of it: the token budget clears (`service.py:384`) or shortens
  (`service.py:411`) the same list before it is sent, and how far is the matter of
  ContextAssembly. It implements Transcript: `stored` is the messages without
  their times, `state` a function of the request's `pc`.
  *ChatSessionsProofs* holds its theorems.
- **ToolLoop** - one request against an engine that may ask for any tools in
  every answer, plain or streamed in chunks. ChatSessions has it as `EngineReply`.
  A streamed answer may carry tool calls or not, as the engines' interface
  allows; OpenAIProvider's never does. *ToolLoopProofs* holds its theorems.
- **RemoteEngine** - the breaker and both caches, with calls that are cancelled at
  any await, other processes behind the same Redis, and restarts. Time is kept as
  ages of events. *RemoteEngineProofs* holds its theorems.
- **WriteBack** - the lists, and of each server process the loop, its handlers and
  its lifespan. `pending` is the calls the remote service may still carry out: a
  call is there from the moment it is made, also after a timeout, a cancellation
  or a crash, and `Perform` carries it out at any time. `Lookups` are the answers
  a registry may give a handler that looks for its engine: this code's has no such
  method, one that had it would find it or not.
  *WriteBackProofs* holds its theorems.
- **ContextAssembly** - the engine calls of a build, in parallel or in turn, and
  `_apply_token_budget` on texts given by their lengths. Where nobody checks what
  comes in, it may be `Null` or `Odd`, a value of another type: a profile's text, a
  search's findings, the max_tokens of the body, which may also be negative.
  `Build` ends with a bundle, `BuildFails` where the budget raises on such a value
  (`Applies`). It has of RemoteEngine only what a build sees: a value, nothing, an
  exception or no answer, and for the profile whether the object is the one the
  memory cache holds, or a copy of the dict it has from Redis.
  *ContextAssemblyProofs* holds its theorems.
- **RequestGates** - the stack as `main.py` adds it (the last added is the
  outermost), with the two layers that the configuration may leave out
  (`Installed`), a request's way through it, and the sliding window that the
  middleware and the tools engine have in common. The equal floats of one moment
  are told apart by numbering the admissions. "business" stands for every
  CozyEngineError a handler raises. *RequestGatesProofs* holds its theorems.
- **SharedEngines** - the abstract specification of the registry: for each
  provider and model one engine at a time, made for them, given to all who want
  it, and given up only when nobody runs.
- **EngineRegistry** - a cache and a lock with its queue for each key: a request
  finds the engine (`GetOrCreate`), or waits for the lock (`AwaitLock`), holds it
  (`LockGranted`) across the await of initialize() (`Initialized`,
  `InitializeFails`), and leaves it in whatever way it ends (`Forget`).
- **Personalities** - what a load of the directory does to the registry of
  definitions. Nothing in it awaits, so a load is one step.
- **Provisioning** - composes the two with the requests and lifespan: a request
  takes its personality, asks for the context engines that the personality and the
  configuration call for and then for its AI engine, may be cancelled anywhere,
  beside reloads and the process's start, draining and close_all. It implements
  SharedEngines: `shared` is the caches, `wants` the engines of the personality
  taken, `has` what was returned. *ProvisioningProofs* holds its theorems.
- **Configuration** - files of a namespace and their overlay as documents, `Merge`
  (deep_merge), the overrides by variables, the schemas' ranges and defaults as
  tables, the required secrets, and `GetConfig` beside edits of files and
  variables. A document is a function from the paths it has to what is there, a
  mapping or a value, and `IsDocument` says that whatever is there is inside
  mappings. So the merge, which recurs in the code, is one definition: `Kept` is
  what it leaves of the base. MCConfiguration has the recursion as the code
  writes it (`DeepMerge`), and TLC compares the two on all mappings of up to three
  levels (`MergeIsDeepMerge`). The property looks each option up in each layer by
  itself, without merging. *ConfigurationProofs* holds its theorems.

The MC modules give TLC the values a .cfg cannot write.

## Runs

| Run | Shows |
|---|---|
| chat_sessions | two plain chats and a stream on one session, with every failure above: types, the turn stored whole or not at all, the count, no orphans, no deletion undone, the prompts, the refinement of Transcript, and that every request ends |
| tool_loop | both modes, two rounds, two calls an answer, two chunks an answer |
| remote_engine | two callers, two keys, one cache entry, threshold 2, times of one unit |
| write_back | two tasks of a queue and two processes with three starts between them, failing and answering lookups, calls that take effect late |
| context | two builds of one user from six inputs: little, much and no room, and a max_tokens above the context, negative, or no number; a profile with a text or a null, and searches that find texts or what is none |
| request_gates | two requests of either of two clients, and two tools, each client and tool with a limit of one, over three units of time and a window of two |
| provisioning | two requests, two personality files with two ids between them, two models of one provider, a provider the registry does not know and a memory engine; start, reloads and shutdown |
| configuration | seven options, one at a time: one without a variable, one at the root of its namespace, one for each way a variable overrides, one two sections deep, the providers; every document about it as base and as overlay, and one edit |

Four runs end in a violation: they check what a document or a test of the
repository says and the code does not do (PROJECT.json, "findings", quotes both):

| Run | What the code does |
|---|---|
| message_count | of two overlapping chats one increment of message_count is lost |
| write_back_registry | the worker's handlers call registry methods that do not exist: every task popped is lost |
| context_profile | the token budget cuts the profile object in the memory cache, and the next request gets the cut text as if it were whole |
| gates_refusal | the rate limit is outside the error layer, so a refused request is answered with 500 |

Three more findings are about passing runs, which show what the code does:

- configuration, precedence: where a variable overrides, its value, and also the
  default that Settings has for it when nobody set it, goes over the YAML files
  (`manager.py:94-139`). `backend/CONFIG.md:7`, `docs/engine-v2/10` (line 9) and the
  docstring at `manager.py:48` say YAML > environment variables > code defaults;
  `settings.py:13` and `tests/core/test_config.py:57` say what the code does.
  LoadedIsSound is about the code's order, and so is LoadedSound.
- configuration, fail fast: a base file that cannot be read or parsed counts as
  missing and its namespace has the defaults (`loader.py:91`), as does a broken
  overlay (`loader.py:135`); `backend/CONFIG.md:229` says that the system fails
  fast. In the run such a load succeeds.
- context: a profile service that answers a null summary ends the build, and every
  later one that finds the object in a cache (`service.py:421`, `memobase.py:44`),
  where `docs/prd/Product-Spec.md:45` says that one engine's failure must not fail
  the conversation. FailuresContained names the wrong kind of answer as what a
  failure after the calls needs; no failure and no timeout is one.

### Bounds, and why they are enough

- Two plain requests are what a lost update, a conflict of inserts and a wait
  for a row lock take; the stream adds the two-transaction case. One session
  suffices, as requests on different sessions share only the clock.
  HistoryLimit 2 lets a window cut a turn.
- Two tool calls in a round make "one fails, the other runs"; two iterations
  reach the limit and the step before it. The code's limits (10 rounds, 5
  failures, 30 s, 300 s, 100 entries, 60 s) are constants, and no guard
  depends on their size.
- Ages in RemoteEngine stop one past the last value that is compared.
- Lengths of texts lie on both sides of every comparison of the budget,
  with tokens of four characters, and 1 for a text shorter than that. In the
  largest run a search that is answered finds two texts or an odd one, as a search
  that fails or is not made finds nothing.
- MaxTime (RequestGates) allows a full window, its end and one unit beyond.
  Two clients and two tools make a list that is shared, and should not be, refuse
  the one for the other's sake.
- MaxStarts (WriteBack) is three: two processes side by side, and a crash and a
  start after it. Tasks are enqueued once each; two of the second queue are what
  an order takes, and the loop passes the first queue in every round.
- Two requests (Provisioning) make one wait for the other's creation, and be
  there when it fails or is cancelled. Their number is not what the order of a
  longer queue depends on: the proof is for any number of waiters. Two files
  give one id twice, two ids, or a file that breaks after one that was loaded.
- MaxEdits (Configuration) is one: an instance that is older than the files, and
  its reload. Options are looked up one by one, so one that varies at a time
  reaches every case of its own; beside it stand another key of its section and
  the options' defaults.

CHECK_DEADLOCK is FALSE in every run but configuration (whose `GetConfig` is
always possible): each system comes to rest when its requests are done and its
bounds used up. That nobody waits for ever is checked by the liveness properties.

### Fairness

- Requests, calls and builds: weak fairness of their own steps. The event loop
  runs what is ready, `wait_for` and the HTTP client's timeout end what does not
  answer, PostgreSQL grants a lock that is free. No fairness is given to
  arrivals, failures, cancellations, crashes, expiry or the passing of time, nor
  to any engine of ContextAssembly: there the timeouts alone end a build. (There
  it is stated of `Finish`, the part of `Build` that changes `pc`: a step of Next
  finishes a request exactly when it builds its bundle or fails to.)
- WriteBack: weak fairness of the loop and of stop()'s own steps, and strong
  fairness of `Dequeue`: BRPOP may fail or time out in any round, but a Redis
  that has the task does not fail for ever. QueuesDrain is about a process that
  stays up with a client, and has a task that is lost with its answer leave the
  list too. No fairness is given to `Perform`: a remote service need not carry
  out what it received.
- Provisioning: weak fairness of each request's own steps and of the closing.
  asyncio.Lock wakes its first waiter, initialize() returns or raises (the
  repository's engines do not await in it), the calls of a request end, and
  uvicorn runs the second half of lifespan when the requests it drains are done.
  Nobody need reload, cancel or shut down.

## Proofs

TLAPS checks these for every value of the constants, from the ASSUMEs of the
modules alone. (ChatSessions: plain and streaming requests are disjoint and
finite, HistoryLimit is positive. RequestGates: clients and tools are disjoint,
limits and the window are natural numbers; a limit of 0 is allowed.
ContextAssembly: Null and Odd are no numbers, Odd is no list of them. Provisioning:
a specification is told from others by its kind, type and model, a personality
names an AI engine. Configuration: the texts and providers include the code's
defaults, and a document is a tree of mappings, as YAML gives it. The others:
constants have their types.)

- **ChatSessionsProofs**: `Typing`, `AllOrNothing`, `CountNotAbove`,
  `NoOrphanMessages`, `DeletionForEver`, `HistoryShown`. The invariants are not inductive alone:
  that a commit stores a turn once needs that nothing of an open request is
  stored yet (`NotYetStored`), and that the count stays below the messages needs
  the same of the count in the ORM object, which may be stale but is never above
  what is there (`ReadCountNotAbove`). `Typed` adds that a request past its start
  names a session. `Safe` is the conjunction that is inductive. `HistoryShown` adds
  that the two messages of a chat carry one time and one session
  (`TurnsTogether`), so that a list cut by time splits a turn only at its oldest end,
  and that a cut of a cut is one (`CutsCompose`): the query's and the budget's.
  `Refinement` is that ChatSessions implements Transcript. `StoredSoFar` says what a request relies on: a stream past its
  first transaction has its question stored, a request about to answer has
  both messages. With it each action maps to one action of Transcript or to a
  stutter; a crash maps to the loss of all open requests at once. `WritersTakeTurns`
  is the mutual exclusion of the row locks (`RowLocks`) and that who waits for a row
  waits for a request that waits for nothing; `RequestsAdvance` counts the steps a
  request has left.
- **ToolLoopProofs**: all five invariants, for any limits. `ToolLoopTyped` needs
  that the engine was called once for each round (`Rounds`), or the limit on
  rounds would not bound the calls. `CallsAnsweredAlways` keeps the results of a
  round in the order of its calls (`ResultsInOrder`), and with it that the
  conversation so far is answered (`Answered`), which is what Backfill extends.
  `InvokedIsToldAlways` carries that a call handed to the audit is among the
  results of this round or in the conversation (`AuditedIsKept`);
  `StoredIsStreamedAlways` relates text, events and store at every step
  (`TextAgrees`); `StreamEndsOnceAlways` has that no end event is sent before the
  step that ends the stream (`Ending`). `EveryStepLowers` gives a request a bound on
  the steps it has left (`Left`), which a round of tools pays out of the rounds that
  remain (`Budget`): the loop has no endless run even if the engine asks for tools
  in every answer.
- **RemoteEngineProofs**: `StateAgrees`, `PauseRespected`, `EngineTyped` and
  `FreshServed`. `Guarded` carries the breaker's type and `BreakerConsistent`
  through every answer, in whatever order answers come; the pause follows for
  each step that sends a call. For the caches, `CachesFresh` bounds the age of an
  entry by its stay in L1 plus, where there is a Redis, one TTL, and the age of
  what Redis holds by its stay there: only both together survive a value that
  moves from one to the other. `CacheWithout`, `CacheAppend` and `CacheTail` say
  of the OrderedDict that it keeps one entry for a key.
- **WriteBackProofs**: `WriteBackTyped`, `NoLoopWhileClosing`,
  `PerformedOnceInOrder`, and `PerformedWasSent`, that nothing is carried out that
  was not enqueued. For any number of processes: `Ordered` has, for each of them and each
  queue, that what it took was sent before what is in the list
  (`TakenBeforeList`), that what it has in hand is the newest it took (`HandLast`),
  and that a call still pending is in hand or given up (`PendingHeld`); without the
  last an answered task could be followed by an older one. Nothing is sent before
  itself, so these also say that a task is nowhere twice, which at most once rests
  on, with `PendingUndone`: what may still take effect has not.
- **ContextAssemblyProofs**: `BundlesFit`, `BundlesKeepNewest`,
  `TruncationAlwaysTold`, `FailuresAlwaysContained`, `ContextTyped`, for texts,
  histories and budgets of any size. The token count of a sequence is a recursive
  function; that it is a natural number, grows with the sequence and does not
  depend on the direction in which the code reads it is proved by induction,
  stated of a set of numbers (`SetInduction`, from the well-foundedness of < on
  Nat). From there `FitFits` and `FitNewestKeeps` say what a truncation keeps,
  `ApplyProper` what the budget as a whole returns, and `BuiltProperly` carries it
  from the step that builds a bundle to every later state. `FailuresAlwaysContained`
  is not by the shape of the steps, as `BuildFails` ends a build from anywhere its
  calls are over: it needs that what a build counts is nothing, or what a call of
  its own that succeeded returned (`Answered`). `BuildsAdvance` says
  that no build waits for itself, in serial order either, and that each step of a
  call leaves its build fewer.
- **RequestGatesProofs**: `WindowBounded`. The bound on every past window is
  inductive only with the fact that the list holds every admission of the
  window that ends now, and no more than the limit (`ListsKept`): pruning keeps
  both, time passing shrinks the window, and an admission adds to a pruned list
  below its limit. `RefusalsEarned` adds that the list holds nothing else
  (`ListsAdmitted`), so that a full list is a used-up window, and that only the
  rate limit's own step refuses a request (`RefusedIsFull`) and only a tool's own
  gate a call (`RefusedToolIsFull`). `HandlersEnveloped` rests on `SInv`: an exception on its way
  out is the rate limit's, or still inside the error layer (`ErrorsInside`).
  `Typing` combines both.
- **ProvisioningProofs**: `RequestsShareEngines` (the refinement of SharedEngines),
  `EnginesClosedOnceIdle`, `ReloadsKeepServing`, `ProvisioningTyped` and
  `NobodyIsStuck`, for any number of requests, keys and files. `PInv` says that a queue names nobody twice
  (`NoDuplicates`), that who waits or was given an engine is running and wants
  it (`WaitersPlanned`), that only the lock's holder creates (`MakersHoldLock`),
  that an engine given out is the one cached, made for its key (`GivenIsCached`,
  `CachedFits`), that nobody runs while things close (`IdleWhenClosing`), and that
  what is cached is what was made (`EnginesCounted`). Two engines of one key would
  need two creators at once, or an engine given out and no longer cached.
  `NobodyIsStuck` adds that a lock is held only while its holder makes the engine
  (`HoldersMake`): whoever waits, waits for a request that can take a step itself,
  whether it makes the engine or is the first in the queue of a free lock.
  `CanStep` writes out the guards of a request's own steps.

- **ConfigurationProofs**: `ConfigurationTyped` and `LoadedSound`, for any
  documents, texts and providers. `MergeKeepsDocuments`, `MergeSays` and
  `MergeFills` say what a merge is, what it has at a path, and when a section of it
  is filled, in terms of the two documents apart: a section on the way to a path
  is on the way to every path in that section (`SectionsNest`, `SectionsEnd`).
  Blocked paths are excluded, where a value of one layer hides what the other has
  below it; a configuration with one is refused. `TablesFit` is that every option
  of the schemas has a path and a code default in its range, `OverriddenByLayers`
  that a variable goes over the merged document as it would over the layers, and
  `ValueIsWanted` puts them together. `MergeRecurs` is that `Merge` obeys the
  recursion of deep_merge at every key, and `InsideIsDocument` that what is inside
  a key is a document again. `TypeOK` is inductive as it stands: the
  documents it types are what makes the merge one.

Model-checked only: liveness (RequestsEnd, RequestEnds, CallsReturn, BuildsEnd,
QueuesDrain and EverythingEnds: TLAPS proves none under fairness and has no
ENABLED), and the induction from `MergeRecurs`, one level of the recursion, to
documents of any depth (`MergeIsDeepMerge`). Of four liveness properties a part
that is about states and steps is proved: `WritersTakeTurns` and `RequestsAdvance`
(ChatSessions), `EveryStepLowers` (ToolLoop), `BuildsAdvance` (ContextAssembly) and
`NobodyIsStuck` (Provisioning). The fairness that turns them into an end stays with
TLC.

## Assumptions, and what is left out

- The clock is not set back. The rate limits are those of one process, since
  the lists are in its memory; several processes have a limit each.
- Several processes serve one database and Redis (`schemas.py:19` allows 32
  workers). ChatSessions has requests of any of them; a Crash there is of all.
  RemoteEngine has the others as the source of what Redis holds, WriteBack has
  them as `Processes`. A POST that a process gave up may take effect at any later
  time, and nothing in the code orders the processes' calls: an older profile
  update may come after a newer one, which OnceInOrder leaves open for a call
  given up unanswered and between processes, and nowhere else.
- uvicorn ends lifespan only when the requests it drains are done.
- PostgreSQL at READ COMMITTED, its default, as the engine sets no other.
- Out of the models: wording and formats of messages, headers, metadata and
  logs; `dropped_sections`; the summary, which is always empty; the order of
  the two messages of a turn in a prompt, which created_at does not determine.
- The current message, headings and joins are added after the budget was
  computed (`message_builder.py:36`) and count in no section of it: WithinBudget is
  about the bundle, and what is sent may be longer than the context. A negative
  max_tokens, which `completions.py:49` passes on unchecked, asks for less than no
  completion and makes room for a bundle larger than the context by as much; one
  that is no number raises in the budget.
- Out of the values that nobody checks: floats for max_tokens, and lists or
  mappings in place of texts, which the budget counts by their own lengths.
- Provisioning: the context calls of a request are asked for at once, which has
  every order a serial configuration runs them in; a cancellation ends all calls
  of its request in one step; initialize() may suspend, as the interface allows;
  a provider without an API key raises in its creation like an unknown one;
  within close_all the order of the engines is left open.
- Configuration: fractions are counted in tenths; options that no rule looks at
  (flags and texts copied as they are, the namespace greyscale) are left out; the
  providers are the set of their names, each with a valid entry; there are files
  for the namespace of the option that varies, the others have their defaults.
- Not modelled: built-in tools, voice, realtime, greyscale, sanitizing, read-only
  endpoints, migrations. They keep no state and order nothing; PROJECT.json gives
  each one's reason.

Facts read in the code that are data of the models, or outside them:

- The rate limit runs before the layer that sets user_id, so it always keys by
  address (`rate_limit.py:59`), and keeps a list for each address for ever
  (`rate_limit.py:27`).
- `config.get` on the configuration object raises, so a tool that requires a
  permission is denied for every personality while permissions are enabled
  (`basic.py:186`). The whitelist of the shipped tools.yaml is strict and empty:
  every tool is denied. max_concurrent_calls and timeout_per_call are read nowhere
  (`basic.py:112`).
- Plain chat gives the engine the id of an answered call in tool_calls
  (`chat.py:168`), the stream in tool_call_id (`chat.py:408`); ToolLoop tells a
  result by its call either way.
- OpenAIProvider's stream never yields tool_calls, so a stream's tools never run;
  it sends only role and content of a message. A tool call whose arguments do not
  parse is not audited (`chat.py:610`).
- A stream that is sent again after a cut is a new request: no key tells
  (`chat.py:264`). A remote engine that failed counts as "ok" in a bundle
  (`service.py:200`). Nothing bounds the Redis lists (`queue.py:28`).
- The overrides write Settings' code defaults too, so debug and server.reload of
  app.yaml have no effect; the order of precedence that the
  documents name is another one, see above. A default_provider is not checked when no providers are
  given. `Config` has neither `engines.voice` nor `secrets`, which the voice
  endpoints and the registry's voice engines read.
- An engine whose initialize() fails is dropped without close(). Voice engines are
  keyed by type alone (`registry.py:208`); `health_check` looks engines up by type
  while they are stored under type:model (`registry.py:305`).
- A reload never removes the definition of a file that is gone.

## Plan

Composition: ContextAssembly over RemoteEngine's caches, so that the shared
profile object and the breaker meet; an abstract "engine that answers, fails or
hangs" that RemoteEngine implements and ContextAssembly uses. Proofs: the part of
QueuesDrain (WriteBack) that is about states.
