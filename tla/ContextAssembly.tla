--------------------------- MODULE ContextAssembly ---------------------------
(***************************************************************************)
(* ContextService.build_context_bundle (backend/app/context/service.py):   *)
(* the calls of the three engines, each with its own timeout, and the      *)
(* token budget that cuts what they found to what the model can take.      *)
(*                                                                         *)
(* A text is its length in characters.  What a service answers, and the    *)
(* max_tokens of a request's body, nobody checks: where a text belongs     *)
(* there may be a null or a number, and these end a build that counts      *)
(* them.  The requests are of one user: they have the profile's cache key  *)
(* in common, and with it the UserProfileResult object that the engine's   *)
(* memory cache holds, which the token budget cuts in place.  Search       *)
(* results are lists of their own.                                         *)
(*                                                                         *)
(* The summary is always empty in the code; it is left out.                *)
(***************************************************************************)
EXTENDS Integers, Sequences, SequencesExt, FiniteSetsExt

CONSTANTS
  Requests,        \* requests of one user
  Inputs,          \* what a request may bring, see Input
  Findings,        \* what a search may find: sequences of lengths, or Odd
  Profiles,        \* what a profile may hold: a length, Null or Odd
  MaxContext,      \* max_context_tokens
  Reserve,         \* reserve_for_completion
  Personalization, \* personalization_budget
  Null,            \* JSON's null: no text
  Odd,             \* a value of another type than a text, or than a number
  Fresh,           \* an object no other request has: an empty profile
  NoProfile,       \* the memory cache has no profile
  Copies,          \* it has a dict, of which every caller gets a copy
  NoBundle

Searches == {"knowledge", "chat_memory"}
Engines == Searches \cup {"user_profile"}

(* system: the system prompt; max: max_tokens, 0 for none and negative if  *)
(* the body says so; engines: those enabled by the configuration and the   *)
(* personality; history: the recent messages that were read.               *)
Input ==
  [system: Nat, max: Int \cup {Odd}, engines: SUBSET Engines, history: Seq(Nat)]

ASSUME ContextAssemblyAssumption ==
  /\ Inputs \subseteq Input /\ Findings \subseteq Seq(Nat) \cup {Odd}
  /\ Profiles \subseteq Nat \cup {Null, Odd} /\ MaxContext \in Nat
  /\ Reserve \in Nat /\ Personalization \in Nat
  /\ {Fresh, NoProfile, Copies} \cap Requests = {}
  /\ NoProfile # Copies
  /\ {Null, Odd} \cap Int = {} /\ Null # Odd /\ Odd \notin Seq(Nat)

VARIABLES
  parallel, \* parallel_execution.enabled
  pc,       \* "idle", "gathering", "done", "failed"
  ask,      \* the input of each request
  task,     \* where each of its engine calls stands
  found,    \* what its searches found
  profile,  \* the profile object it was given
  text,     \* the text now in the object a request has brought
  cache,    \* what the engine's memory cache holds
  dict,     \* the text in the dict it holds
  bundle    \* the ContextBundle

vars == <<parallel, pc, ask, task, found, profile, text, cache, dict, bundle>>

Nothing == [system |-> 0, max |-> 0, engines |-> {}, history |-> <<>>]

Init ==
  /\ parallel \in BOOLEAN
  /\ pc = [r \in Requests |-> "idle"]
  /\ ask = [r \in Requests |-> Nothing]
  /\ task = [r \in Requests |-> [e \in Engines |-> "off"]]
  /\ found = [r \in Requests |-> [e \in Searches |-> <<>>]]
  /\ profile = [r \in Requests |-> Fresh]
  /\ text = [r \in Requests |-> 0]
  /\ cache = NoProfile /\ dict = 0
  /\ bundle = [r \in Requests |-> NoBundle]

-----------------------------------------------------------------------------
(* Tokens and truncation.                                                  *)

(* _estimate_tokens *)
Tokens(size) == IF size = 0 THEN 0 ELSE IF size < 4 THEN 1 ELSE size \div 4

TokensOf(sizes) ==
  LET sum[n \in 0..Len(sizes)] ==
        IF n = 0 THEN 0 ELSE sum[n - 1] + Tokens(sizes[n])
  IN  sum[Len(sizes)]

(* A buggy variant: the budget may go below zero. *)
LessUnclamped(m, n) == m - n

Less(m, n) == IF m > n THEN m - n ELSE 0

Least(m, n) == IF m < n THEN m ELSE n

(* _truncate_text *)
Cut(size, max) ==
  IF max <= 0 THEN 0 ELSE IF Tokens(size) <= max THEN size ELSE 4 * max

(* A buggy variant: the item that overflows the budget is kept. *)
FitPast(sizes, max) ==
  IF max <= 0 THEN <<>>
  ELSE SubSeq(sizes, 1, Least(Len(sizes),
         1 + Max({n \in 0..Len(sizes) : TokensOf(SubSeq(sizes, 1, n)) <= max})))

(* _truncate_items: the items before the first that does not fit. *)
Fit(sizes, max) ==
  IF max <= 0 THEN <<>>
  ELSE SubSeq(sizes, 1,
         Max({n \in 0..Len(sizes) : TokensOf(SubSeq(sizes, 1, n)) <= max}))

(* A buggy variant: the oldest messages are kept. *)
FitOldest(sizes, max) == Fit(sizes, max)

(* _truncate_messages *)
FitNewest(sizes, max) == Reverse(Fit(Reverse(sizes), max))

-----------------------------------------------------------------------------
(* _apply_token_budget.                                                    *)

Completion(in) == IF in.max = 0 THEN Reserve ELSE in.max

Available(in) == Less(MaxContext, Completion(in))

TextOf(o) == IF o \in Requests THEN text[o] ELSE 0

(* No text has no tokens, and leaves none when it is cut. *)
Length(o) == IF TextOf(o) = Null THEN 0 ELSE TextOf(o)

(* The prompt leaves room for nothing else. *)
SystemOnly(in) ==
  [system |-> in.system, recent |-> <<>>, profile |-> 0, knowledge |-> <<>>,
   memories |-> <<>>, available |-> Available(in), used |-> Tokens(in.system)]

(* Recent messages first, then profile, knowledge and memories in what the *)
(* personalization budget leaves.                                          *)
Budgeted(in, profileText, knowledgeItems, memoryItems) ==
  LET room      == Less(Available(in), Tokens(in.system))
      recent    == FitNewest(in.history, room)
      personal  == Least(Personalization, Less(room, TokensOf(recent)))
      cut       == Cut(profileText, personal)
      left      == Less(personal, Tokens(cut))
      knowledge == Fit(knowledgeItems, left)
      memories  == Fit(memoryItems, Less(left, TokensOf(knowledge)))
  IN  [system |-> in.system, recent |-> recent, profile |-> cut,
       knowledge |-> knowledge, memories |-> memories,
       available |-> Available(in),
       used |-> Tokens(in.system) + TokensOf(recent) + Tokens(cut)
                  + TokensOf(knowledge) + TokensOf(memories)]

(* A buggy variant: a cut of the profile is not recorded. *)
TruncatedLists(b, in, profileText, knowledgeItems, memoryItems) ==
  \/ Len(b.recent) < Len(in.history)
  \/ Len(b.knowledge) < Len(knowledgeItems)
  \/ Len(b.memories) < Len(memoryItems)
  \/ b.used > b.available

Truncated(b, in, profileText, knowledgeItems, memoryItems) ==
  \/ Len(b.recent) < Len(in.history) \/ b.profile < profileText
  \/ Len(b.knowledge) < Len(knowledgeItems)
  \/ Len(b.memories) < Len(memoryItems)
  \/ b.used > b.available

(* The bundle and its "truncated"; given is the profile it was made from,  *)
(* which the code keeps no record of.                                      *)
Apply(in, profileText, knowledgeItems, memoryItems) ==
  LET b == IF Tokens(in.system) > Available(in) THEN SystemOnly(in)
           ELSE Budgeted(in, profileText, knowledgeItems, memoryItems)
  IN  [content |-> b,
       truncated |-> Truncated(b, in, profileText, knowledgeItems, memoryItems),
       given |-> profileText]

(* Every text and number is one the budget can count with. *)
Countable(r) ==
  /\ ask[r].max # Odd /\ TextOf(profile[r]) # Odd
  /\ \A e \in Searches : found[r][e] # Odd

(* The budget raises on what it cannot count, and on a profile without     *)
(* text unless it never comes to cut it.                                   *)
Applies(r) ==
  /\ Countable(r)
  /\ TextOf(profile[r]) = Null => Tokens(ask[r].system) > Available(ask[r])

-----------------------------------------------------------------------------
(* The engine calls.                                                       *)

CreationOrder == <<"knowledge", "user_profile", "chat_memory">>
Before(e) == {CreationOrder[i] : i \in
               {j \in 1..3 : \E k \in 1..3 : CreationOrder[k] = e /\ j < k}}

Ended == {"off", "ok", "degraded"}

(* gather runs the calls together; otherwise each waits for those before. *)
Runs(r, e) ==
  /\ pc[r] = "gathering"
  /\ parallel \/ \A d \in Before(e) : task[r][d] \in Ended

Becomes(r, e, status) == task' = [task EXCEPT ![r][e] = status]

(* The request has read its recent messages and prepares its calls. *)
Begin(r) ==
  /\ pc[r] = "idle"
  /\ \E in \in Inputs :
       /\ ask' = [ask EXCEPT ![r] = in]
       /\ task' = [task EXCEPT ![r] =
            [e \in Engines |-> IF e \in in.engines THEN "waiting" ELSE "off"]]
  /\ pc' = [pc EXCEPT ![r] = "gathering"]
  /\ UNCHANGED <<parallel, found, profile, text, cache, dict, bundle>>

(* The messages cannot be read: the build fails before its calls. *)
FailToRead(r) ==
  /\ pc[r] = "idle"
  /\ pc' = [pc EXCEPT ![r] = "failed"]
  /\ UNCHANGED <<parallel, ask, task, found, profile, text, cache, dict, bundle>>

(* A search returns; a remote engine that failed or whose breaker is open  *)
(* returns nothing, which is no failure here.                              *)
SearchReturns(r, e, items) ==
  /\ Runs(r, e) /\ task[r][e] = "waiting"
  /\ Becomes(r, e, "ok")
  /\ found' = [found EXCEPT ![r][e] = items]
  /\ UNCHANGED <<parallel, pc, ask, profile, text, cache, dict, bundle>>

(* A copy of the dict: an object of the request's own. *)
GiveCopy(r, size) ==
  /\ text' = [text EXCEPT ![r] = size]
  /\ profile' = [profile EXCEPT ![r] = r]

(* get_profile, in the memory cache: the object itself, or a copy. *)
ProfileHit(r) ==
  /\ Runs(r, "user_profile") /\ task[r]["user_profile"] = "waiting"
  /\ cache # NoProfile
  /\ Becomes(r, "user_profile", "ok")
  /\ IF cache = Copies THEN GiveCopy(r, dict)
     ELSE profile' = [profile EXCEPT ![r] = cache] /\ UNCHANGED text
  /\ UNCHANGED <<parallel, pc, ask, found, cache, dict, bundle>>

ProfileMiss(r) ==
  /\ Runs(r, "user_profile") /\ task[r]["user_profile"] = "waiting"
  /\ cache = NoProfile
  /\ Becomes(r, "user_profile", "calling")
  /\ UNCHANGED <<parallel, pc, ask, found, profile, text, cache, dict, bundle>>

(* Redis has it, as JSON: the memory cache gets the dict. *)
ProfileFromRedis(r, size) ==
  /\ pc[r] = "gathering" /\ task[r]["user_profile"] = "calling"
  /\ Becomes(r, "user_profile", "ok")
  /\ GiveCopy(r, size)
  /\ cache' = Copies /\ dict' = size
  /\ UNCHANGED <<parallel, pc, ask, found, bundle>>

(* The service answers: the object is cached and then given to the caller, *)
(* at once or when Redis has it too.                                       *)
ProfileFetched(r, size) ==
  /\ pc[r] = "gathering" /\ task[r]["user_profile"] = "calling"
  /\ text' = [text EXCEPT ![r] = size]
  /\ cache' = r /\ UNCHANGED dict
  /\ \/ Becomes(r, "user_profile", "ok") /\ profile' = [profile EXCEPT ![r] = r]
     \/ Becomes(r, "user_profile", "storing") /\ UNCHANGED profile
  /\ UNCHANGED <<parallel, pc, ask, found, bundle>>

ProfileStored(r) ==
  /\ pc[r] = "gathering" /\ task[r]["user_profile"] = "storing"
  /\ Becomes(r, "user_profile", "ok")
  /\ profile' = [profile EXCEPT ![r] = r]
  /\ UNCHANGED <<parallel, pc, ask, found, text, cache, dict, bundle>>

(* The service failed or the breaker is open: an empty profile, "ok". *)
ProfileUnavailable(r) ==
  /\ pc[r] = "gathering" /\ task[r]["user_profile"] = "calling"
  /\ Becomes(r, "user_profile", "ok")
  /\ UNCHANGED <<parallel, pc, ask, found, profile, text, cache, dict, bundle>>

(* The calls a timeout or an exception may end. *)
InCall(r, e) ==
  /\ Runs(r, e)
  /\ task[r][e] \in IF e \in Searches THEN {"waiting"} ELSE {"calling", "storing"}

(* A buggy variant: the time for Redis is not counted. *)
TimeOutOfService(r, e) ==
  /\ InCall(r, e) /\ task[r][e] # "storing"
  /\ Becomes(r, e, "degraded")
  /\ UNCHANGED <<parallel, pc, ask, found, profile, text, cache, dict, bundle>>

(* wait_for cancels the call: an empty result, "degraded". *)
TimeOut(r, e) ==
  /\ InCall(r, e)
  /\ Becomes(r, e, "degraded")
  /\ UNCHANGED <<parallel, pc, ask, found, profile, text, cache, dict, bundle>>

(* A buggy variant: the exception passes gather. *)
EngineRaises(r, e) ==
  /\ InCall(r, e)
  /\ Becomes(r, e, "degraded")
  /\ pc' = [pc EXCEPT ![r] = "failed"]
  /\ UNCHANGED <<parallel, ask, found, profile, text, cache, dict, bundle>>

(* The registry or the engine raises: an empty result, "degraded". *)
EngineFails(r, e) ==
  /\ InCall(r, e)
  /\ Becomes(r, e, "degraded")
  /\ UNCHANGED <<parallel, pc, ask, found, profile, text, cache, dict, bundle>>

(* The calls are over and the build ends. *)
Finish(r, end) ==
  /\ pc[r] = "gathering" /\ \A e \in Engines : task[r][e] \in Ended
  /\ pc' = [pc EXCEPT ![r] = end]

(* The budget is applied, to the profile in place, and the bundle built. *)
Build(r) ==
  /\ Finish(r, "done") /\ Applies(r)
  /\ LET b == Apply(ask[r], Length(profile[r]), found[r]["knowledge"],
                    found[r]["chat_memory"])
     IN  /\ bundle' = [bundle EXCEPT ![r] = b]
         /\ text' = [o \in Requests |->
                       IF o = profile[r] THEN b.content.profile ELSE text[o]]
  /\ UNCHANGED <<parallel, ask, task, found, profile, cache, dict>>

(* The budget raises, outside every try: the chat fails with the build.    *)
(* The profile stays in the memory cache and in Redis as it was.           *)
BuildFails(r) ==
  /\ Finish(r, "failed") /\ ~Applies(r)
  /\ UNCHANGED <<parallel, ask, task, found, profile, text, cache, dict, bundle>>

(* The cached profile expires or is evicted. *)
Expire ==
  /\ cache # NoProfile
  /\ cache' = NoProfile /\ dict' = 0
  /\ UNCHANGED <<parallel, pc, ask, task, found, profile, text, bundle>>

StartProfile(r) == ProfileHit(r) \/ ProfileMiss(r)

Next ==
  \/ \E r \in Requests :
       \/ Begin(r) \/ FailToRead(r) \/ Build(r) \/ BuildFails(r)
       \/ StartProfile(r) \/ ProfileStored(r) \/ ProfileUnavailable(r)
       \/ \E size \in Profiles : ProfileFromRedis(r, size) \/ ProfileFetched(r, size)
       \/ \E e \in Searches, items \in Findings : SearchReturns(r, e, items)
       \/ \E e \in Engines : TimeOut(r, e) \/ EngineFails(r, e)
  \/ Expire

Spec == Init /\ [][Next]_vars

(* The event loop runs what is ready and its timers fire; no engine need   *)
(* ever answer.  (Finish is what Build and BuildFails do to pc: a step of  *)
(* Next finishes a request exactly when it is one of these.)               *)
FairSpec ==
  /\ Spec
  /\ \A r \in Requests :
       /\ WF_pc(Finish(r, "done") \/ Finish(r, "failed")) /\ WF_vars(StartProfile(r))
       /\ \A e \in Engines : WF_vars(TimeOut(r, e))

-----------------------------------------------------------------------------
Content ==
  [system: Nat, recent: Seq(Nat), profile: Nat, knowledge: Seq(Nat),
   memories: Seq(Nat), available: Nat, used: Nat]

(* Every variable has its type; no count of tokens is negative. *)
TypeOK ==
  /\ parallel \in BOOLEAN
  /\ pc \in [Requests -> {"idle", "gathering", "done", "failed"}]
  /\ ask \in [Requests -> Inputs \cup {Nothing}]
  /\ task \in [Requests -> [Engines -> Ended \cup {"waiting", "calling", "storing"}]]
  /\ found \in [Requests -> [Searches -> Findings \cup {<<>>}]]
  /\ profile \in [Requests -> Requests \cup {Fresh}]
  /\ text \in [Requests -> Nat \cup {Null, Odd}]
  /\ cache \in Requests \cup {NoProfile, Copies} /\ dict \in Nat \cup {Null, Odd}
  /\ DOMAIN bundle = Requests
  /\ \A r \in Requests :
       IF pc[r] = "done"
       THEN bundle[r] \in [content: Content, truncated: BOOLEAN, given: Nat]
       ELSE bundle[r] = NoBundle

Built(r) == pc[r] = "done"

(* The bundle - system prompt, history, profile, knowledge and memories -  *)
(* fits the model's context together with the completion the request asks  *)
(* for, or it is the system prompt alone, which nothing cuts.  The budget  *)
(* counts neither the current message nor the headings that                *)
(* message_builder.py adds, so what is sent may be longer.  A negative     *)
(* max_tokens asks for less than no completion: such a bundle may be       *)
(* larger than the context, by no more than that.                          *)
WithinBudget ==
  \A r \in Requests : Built(r) =>
    LET c     == bundle[r].content
        parts == Tokens(c.system) + TokensOf(c.recent) + Tokens(c.profile)
                   + TokensOf(c.knowledge) + TokensOf(c.memories)
    IN  \/ parts + Completion(ask[r]) <= MaxContext
        \/ parts = Tokens(c.system)

(* Of the history the newest messages are sent, and so many that one more  *)
(* would not fit: no older message is kept in place of a newer one.        *)
NewestKept ==
  \A r \in Requests : Built(r) =>
    LET c == bundle[r].content
        h == ask[r].history
        n == Len(h) - Len(c.recent)
    IN  /\ c.recent = SubSeq(h, n + 1, Len(h))
        /\ n > 0 => \/ Tokens(c.system) + TokensOf(SubSeq(h, n, Len(h))) > c.available
                    \/ Tokens(c.system) >= c.available

(* A bundle that does not say it was truncated has all the history that    *)
(* was read, all that its searches found, and the profile as it was when   *)
(* the bundle was made.  (It may have been cut before, by the bundle of    *)
(* another request that shares the object: see CutProfileTold.)            *)
TruncationTold ==
  \A r \in Requests : Built(r) /\ ~bundle[r].truncated =>
    /\ bundle[r].content.recent = ask[r].history
    /\ bundle[r].content.knowledge = found[r]["knowledge"]
    /\ bundle[r].content.memories = found[r]["chat_memory"]
    /\ bundle[r].content.profile = bundle[r].given

(* No failure and no slowness of an engine ends a build.  What ends one    *)
(* after its calls is a value of the wrong type: in the request's own      *)
(* max_tokens, in what a search that was answered found, or in the profile *)
(* it was given, which with a shared object another request fetched.       *)
FailuresContained ==
  [][\A r \in Requests : pc[r] = "gathering" /\ pc'[r] = "failed" =>
       \/ ask[r].max = Odd
       \/ \E e \in Searches : task[r][e] = "ok" /\ found[r][e] = Odd
       \/ /\ task[r]["user_profile"] = "ok"
          /\ TextOf(profile[r]) \in {Null, Odd}]_vars

(* Every build ends, with a bundle or because it cannot count what it was  *)
(* given, whatever the engines and Redis do not answer.                    *)
BuildsEnd == \A r \in Requests : pc[r] = "gathering" ~> pc[r] \in {"done", "failed"}

(* What the tests ask of "truncated": a bundle whose profile came from the *)
(* service and was cut says so.                                            *)
CutProfileTold ==
  \A r \in Requests : Built(r) /\ profile[r] # Fresh /\ ~bundle[r].truncated =>
    bundle[r].content.profile \in Profiles
=============================================================================
