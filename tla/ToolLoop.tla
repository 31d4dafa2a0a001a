------------------------------ MODULE ToolLoop ------------------------------
(***************************************************************************)
(* The tool loop of one request, plain or streaming: engine calls, tool    *)
(* executions, the messages added to the conversation in between, the      *)
(* events of the response stream and the reply that is stored              *)
(* (ChatOrchestrator.chat, chat_stream and _execute_tool_calls in          *)
(* backend/app/orchestration/chat.py; _stream_response in                  *)
(* backend/app/api/v1/chat/completions.py).                                *)
(*                                                                         *)
(* The engine is the environment: it may ask for tools in every answer,    *)
(* for none of them, or with an empty list.  A text is the engine call     *)
(* that produced it and how many pieces it has; a tool call is the round   *)
(* of tools and its position in the list the engine sent.                  *)
(***************************************************************************)
EXTENDS Naturals, Sequences, FiniteSets

CONSTANTS
  MaxIterations, \* max_tool_iterations (10 in the code)
  MaxCalls,      \* bound: tool calls in one answer
  MaxChunks      \* bound: chunks in one streamed answer

ASSUME ToolLoopAssumption ==
  /\ MaxIterations \in Nat \ {0}
  /\ MaxCalls \in Nat \ {0}
  /\ MaxChunks \in Nat \ {0}

VARIABLES
  mode,        \* "chat" or "stream"
  step,        \* where the request stands
  iteration,   \* rounds of tools so far
  engineCalls, \* calls of the engine so far
  answer,      \* the present answer: pieces of text, finish_reason, tool calls
  progress,    \* chunks received of it, then calls executed of it
  results,     \* the calls of this round that have a result, in order
  thread,      \* messages added to the conversation since the context
  audited,     \* calls handed to the audit service
  reply,       \* the text that will be stored
  saved,       \* the replies stored: none or one
  wire         \* streams: the events sent to the client

vars == <<mode, step, iteration, engineCalls, answer, progress, results,
          thread, audited, reply, saved, wire>>

Over     == {"returned", "failed", "gone"}
Steps    == {"loop", "receive", "execute", "persist", "close"} \cup Over
Finishes == {"none", "stop", "tool_calls"}
Events   == {"text", "blank", "tools", "done", "error"}
NoAnswer == [pieces |-> 0, finish |-> "none", calls |-> 0]
NoText   == [call |-> 0, pieces |-> 0]

Init ==
  /\ mode \in {"chat", "stream"}
  /\ step = "loop"
  /\ iteration = 0 /\ engineCalls = 0
  /\ answer = NoAnswer /\ progress = 0 /\ results = <<>>
  /\ thread = <<>> /\ audited = {}
  /\ reply = NoText /\ saved = <<>> /\ wire = <<>>

-----------------------------------------------------------------------------
(* The engine.                                                             *)

(* A buggy variant: one call too many. *)
MayCallInclusive == iteration <= MaxIterations

(* The loop's condition. *)
MayCall == iteration < MaxIterations

(* Head of the loop: another call of the engine, or out at the limit. *)
CallEngine ==
  /\ step = "loop" /\ MayCall
  /\ step' = "receive"
  /\ engineCalls' = engineCalls + 1
  /\ answer' = NoAnswer /\ progress' = 0
  /\ UNCHANGED <<mode, iteration, results, thread, audited, reply, saved, wire>>

(* A buggy variant: at the limit the loop still waits for an answer that   *)
(* asks for no tools.                                                      *)
LimitWaits ==
  /\ step = "loop" /\ ~MayCall /\ answer.calls = 0
  /\ step' = "persist"
  /\ UNCHANGED <<mode, iteration, engineCalls, answer, progress, results,
                 thread, audited, reply, saved, wire>>

LimitReached ==
  /\ step = "loop" /\ ~MayCall
  /\ step' = "persist"
  /\ UNCHANGED <<mode, iteration, engineCalls, answer, progress, results,
                 thread, audited, reply, saved, wire>>

TextOf(a) == [call |-> engineCalls, pieces |-> a.pieces]

(* After the answer a: run the tools it asks for, or leave the loop.  A    *)
(* plain request will store the last response it got; a stream stores an   *)
(* answer only if it left the loop on it.                                  *)
Decide(a) ==
  IF a.finish = "tool_calls" /\ a.calls > 0
  THEN /\ step' = "execute"
       /\ iteration' = iteration + 1
       /\ reply' = IF mode = "chat" THEN TextOf(a) ELSE reply
  ELSE /\ step' = "persist"
       /\ reply' = TextOf(a)
       /\ UNCHANGED iteration

(* What engine.chat may return: a text or none, the finish_reason and the  *)
(* tool calls the service sent; none is the same as an empty list.         *)
Answers == [pieces: 0..1, finish: {"stop", "tool_calls"}, calls: 0..MaxCalls]

(* engine.chat returns its whole answer. *)
Respond ==
  /\ step = "receive" /\ mode = "chat"
  /\ \E a \in Answers : answer' = a /\ Decide(a)
  /\ progress' = 0 /\ results' = <<>>
  /\ UNCHANGED <<mode, engineCalls, thread, audited, saved, wire>>

(* A buggy variant: the text is that of the last chunk. *)
AppendReplacing(a, c) ==
  [pieces |-> c.pieces, finish |-> c.finish, calls |-> IF c.has THEN c.calls ELSE a.calls]

(* What a chunk adds: text accumulates, finish_reason is the last chunk's, *)
(* tool_calls that of the last chunk with the key.                         *)
AppendChunk(a, c) ==
  [pieces |-> a.pieces + c.pieces,
   finish |-> c.finish,
   calls  |-> IF c.has THEN c.calls ELSE a.calls]

(* The chunks of engine.chat_stream: "has" when the key tool_calls is      *)
(* there, which in OpenAIProvider's it never is.                           *)
Chunks ==
  {c \in [pieces: 0..1, finish: Finishes, has: BOOLEAN, calls: 0..MaxCalls] :
     c.has \/ c.calls = 0}

(* A chunk arrives and is passed to the client. *)
Chunk ==
  /\ step = "receive" /\ mode = "stream" /\ progress < MaxChunks
  /\ \E c \in Chunks :
       /\ answer' = AppendChunk(answer, c)
       /\ wire' = Append(wire, IF c.pieces > 0 THEN "text" ELSE "blank")
  /\ progress' = progress + 1
  /\ UNCHANGED <<mode, step, iteration, engineCalls, results, thread, audited,
                 reply, saved>>

(* engine.chat_stream is exhausted. *)
EndOfStream ==
  /\ step = "receive" /\ mode = "stream"
  /\ Decide(answer)
  /\ progress' = 0 /\ results' = <<>>
  /\ UNCHANGED <<mode, engineCalls, answer, thread, audited, saved, wire>>

-----------------------------------------------------------------------------
(* The tools.                                                              *)

(* How one call ends.  Arguments that do not parse, or a tools engine that *)
(* was never initialized, raise before a tool is invoked ("unparsed"); a   *)
(* result that cannot be rendered raises after the audit ("unusable");     *)
(* both are caught for that call alone.                                    *)
Outcomes == {"success", "refused", "unparsed", "unusable"}

(* A buggy variant: a call that raised has no result. *)
ResultsIfNotRaised(o, k) == IF o \in {"unparsed", "unusable"} THEN <<>> ELSE <<k>>

(* Whatever happens the call has one result for the model. *)
ResultsOf(o, k) == <<k>>

(* _execute_tool_calls takes the next call of the list. *)
Execute ==
  /\ step = "execute" /\ progress < answer.calls
  /\ \E o \in Outcomes :
       /\ results' = results \o ResultsOf(o, progress + 1)
       /\ audited' = IF o = "unparsed" THEN audited
                     ELSE audited \cup {<<iteration, progress + 1>>}
  /\ progress' = progress + 1
  /\ UNCHANGED <<mode, step, iteration, engineCalls, answer, thread, reply, saved, wire>>

(* The message of a result names its call: a plain chat puts the id in     *)
(* tool_calls, a stream in tool_call_id.                                   *)
Asked(n) == [role |-> "assistant", round |-> iteration, n |-> n]
Told(n)  == [role |-> "tool", round |-> iteration, n |-> n]

(* All calls have run: the messages go back as one assistant message and   *)
(* one tool message for each result, and a stream tells its client.        *)
Backfill ==
  /\ step = "execute" /\ progress = answer.calls
  /\ thread' = thread \o <<Asked(answer.calls)>>
                      \o [i \in 1..Len(results) |-> Told(results[i])]
  /\ wire' = IF mode = "stream" THEN Append(wire, "tools") ELSE wire
  /\ step' = "loop"
  /\ UNCHANGED <<mode, iteration, engineCalls, answer, progress, results,
                 audited, reply, saved>>

-----------------------------------------------------------------------------
(* The end of the request.                                                 *)

(* The transaction with the assistant message commits. *)
Persist ==
  /\ step = "persist"
  /\ saved' = Append(saved, reply)
  /\ step' = "close"
  /\ UNCHANGED <<mode, iteration, engineCalls, answer, progress, results,
                 thread, audited, reply, wire>>

(* The response is returned; a stream ends with [DONE]. *)
Close ==
  /\ step = "close"
  /\ wire' = IF mode = "stream" THEN Append(wire, "done") ELSE wire
  /\ step' = "returned"
  /\ UNCHANGED <<mode, iteration, engineCalls, answer, progress, results,
                 thread, audited, reply, saved>>

(* A buggy variant: the error event does not end the stream. *)
FailAndGoOn ==
  /\ step \in {"receive", "persist"}
  /\ wire' = IF mode = "stream" THEN Append(wire, "error") ELSE wire
  /\ step' = "close"
  /\ UNCHANGED <<mode, iteration, engineCalls, answer, progress, results,
                 thread, audited, reply, saved>>

(* The engine or the database raises: a plain request fails with the       *)
(* exception, a stream ends with an error event.                           *)
Fail ==
  /\ step \in {"receive", "persist"}
  /\ wire' = IF mode = "stream" THEN Append(wire, "error") ELSE wire
  /\ step' = "failed"
  /\ UNCHANGED <<mode, iteration, engineCalls, answer, progress, results,
                 thread, audited, reply, saved>>

(* The client of a stream leaves: nothing more is sent, nothing is stored. *)
Disconnect ==
  /\ mode = "stream" /\ step \notin Over
  /\ step' = "gone"
  /\ UNCHANGED <<mode, iteration, engineCalls, answer, progress, results,
                 thread, audited, reply, saved, wire>>

Progress ==
  \/ CallEngine \/ LimitReached \/ Respond \/ Chunk \/ EndOfStream
  \/ Execute \/ Backfill \/ Persist \/ Close

Next == Progress \/ Fail \/ Disconnect

Spec == Init /\ [][Next]_vars

(* Every answer of the engine ends, and the event loop runs what is ready. *)
FairSpec == Spec /\ WF_vars(Progress)

-----------------------------------------------------------------------------
(* Every variable has its type: no more results than calls, and no more    *)
(* engine calls than rounds of tools allow.                                *)
TypeOK ==
  /\ mode \in {"chat", "stream"} /\ step \in Steps
  /\ iteration \in 0..MaxIterations /\ engineCalls \in 0..MaxIterations
  /\ progress \in Nat
  /\ answer \in [pieces: Nat, finish: Finishes, calls: 0..MaxCalls]
  /\ results \in Seq(1..MaxCalls)
  /\ thread \in Seq([role: {"assistant", "tool"}, round: Nat, n: 0..MaxCalls])
  /\ audited \subseteq Nat \X (1..MaxCalls)
  /\ reply \in [call: Nat, pieces: Nat]
  /\ saved \in Seq([call: Nat, pieces: Nat])
  /\ wire \in Seq(Events)

(* Whenever the engine is called, each assistant message that asks for n   *)
(* tools is followed by the n tool messages that answer it, in the order   *)
(* of the calls, and no tool message stands alone (chat.py:156-170).       *)
ToolCallsAnswered ==
  step \in {"loop", "receive"} =>
    \A i \in DOMAIN thread :
      IF thread[i].role = "assistant"
      THEN /\ i + thread[i].n <= Len(thread)
           /\ \A k \in 1..thread[i].n :
                thread[i + k] = [role |-> "tool", round |-> thread[i].round, n |-> k]
      ELSE /\ thread[i].n \in 1..(i - 1)
           /\ thread[i - thread[i].n].role = "assistant"
           /\ thread[i - thread[i].n].n >= thread[i].n

(* No tool runs unseen: when the engine is called again, every call that   *)
(* was invoked, and audited, has the message that tells its result,        *)
(* refused and unusable ones included.                                     *)
InvokedIsTold ==
  step \in {"loop", "receive"} =>
    \A call \in audited :
      \E i \in DOMAIN thread :
        thread[i] = [role |-> "tool", round |-> call[1], n |-> call[2]]

(* What the client was sent since the last tools event. *)
SentText ==
  Cardinality({i \in DOMAIN wire :
                 wire[i] = "text" /\ \A j \in i..Len(wire) : wire[j] # "tools"})

(* A stream that left the loop on an answer stores exactly the text its    *)
(* client was sent of that answer.                                         *)
StoredIsStreamed ==
  mode = "stream" /\ saved # <<>> /\ iteration < MaxIterations
    => saved = <<[call |-> engineCalls, pieces |-> SentText]>>

(* A stream's last event is [DONE] or an error, never both and nothing     *)
(* after it; [DONE] is sent only when the reply is stored.                 *)
StreamEndsOnce ==
  \A i \in DOMAIN wire :
    /\ wire[i] \in {"done", "error"} => i = Len(wire) /\ step \in Over
    /\ wire[i] = "done" => Len(saved) = 1
    /\ wire[i] = "error" => saved = <<>>

(* The loop ends, even if the engine asks for tools in every answer. *)
RequestEnds == <>(step \in Over)
=============================================================================
