---------------------------- MODULE ToolLoopProofs ----------------------------
(***************************************************************************)
(* Proofs about ToolLoop, for any limit of rounds, of calls in an answer   *)
(* and of chunks: types and the bound on engine calls, the end of a        *)
(* stream, the messages that answer tool calls, the text stored, and that  *)
(* every step brings the request nearer to its end.                        *)
(***************************************************************************)
EXTENDS ToolLoop, SequenceTheorems, FiniteSetTheorems, TLAPS

Messages == [role: {"assistant", "tool"}, round: Nat, n: 0..MaxCalls]

(* The engine has been called once for each round, and once more while its *)
(* answer is awaited, which happens below the limit only.                  *)
Rounds ==
  /\ step \in {"loop", "execute"} => engineCalls = iteration
  /\ step = "receive" => engineCalls = iteration + 1 /\ iteration < MaxIterations

-----------------------------------------------------------------------------
(* Types.                                                                  *)

LEMMA WireTyped ==
  ASSUME wire \in Seq(Events), NEW e \in Events
  PROVE  Append(wire, e) \in Seq(Events)
  BY AppendProperties

LEMMA TypeInit == Init => TypeOK /\ Rounds
<1> SUFFICES ASSUME Init PROVE TypeOK /\ Rounds
  OBVIOUS
<1>1. /\ <<>> \in Seq(1..MaxCalls) /\ <<>> \in Seq(Messages)
      /\ <<>> \in Seq([call: Nat, pieces: Nat]) /\ <<>> \in Seq(Events)
  OBVIOUS
<1>2. 0 \in 0..MaxIterations /\ 0 \in 0..MaxCalls
  BY ToolLoopAssumption
<1>3. /\ NoAnswer \in [pieces: Nat, finish: Finishes, calls: 0..MaxCalls]
      /\ NoText \in [call: Nat, pieces: Nat]
  BY <1>2 DEF NoAnswer, NoText, Finishes
<1> QED
  BY <1>1, <1>2, <1>3 DEF Init, TypeOK, Rounds, Steps, Messages

(* Deciding on an answer keeps the types, and the rounds below the limit. *)
LEMMA DecideTyped ==
  ASSUME TypeOK, Rounds, step = "receive",
         NEW a \in [pieces: Nat, finish: Finishes, calls: 0..MaxCalls],
         Decide(a), UNCHANGED <<mode, engineCalls>>
  PROVE  /\ step' \in Steps /\ iteration' \in 0..MaxIterations
         /\ reply' \in [call: Nat, pieces: Nat]
         /\ Rounds'
<1>1. /\ iteration \in Nat /\ iteration < MaxIterations /\ MaxIterations \in Nat
      /\ engineCalls = iteration + 1
  BY ToolLoopAssumption DEF TypeOK, Rounds
<1>2. TextOf(a) \in [call: Nat, pieces: Nat]
  BY <1>1 DEF TextOf
<1>3. CASE a.finish = "tool_calls" /\ a.calls > 0
  BY <1>1, <1>2, <1>3 DEF Decide, TypeOK, Rounds, Steps
<1>4. CASE ~(a.finish = "tool_calls" /\ a.calls > 0)
  BY <1>1, <1>2, <1>4 DEF Decide, TypeOK, Rounds, Steps
<1> QED
  BY <1>3, <1>4

(* What Backfill adds to the conversation. *)
Added ==
  <<Asked(answer.calls)>> \o [i \in 1..Len(results) |-> Told(results[i])]

LEMMA AddedTyped ==
  ASSUME TypeOK
  PROVE  /\ Added \in Seq(Messages) /\ Len(Added) = Len(results) + 1
         /\ Added[1] = Asked(answer.calls)
         /\ \A i \in 1..Len(results) : Added[i + 1] = Told(results[i])
<1>1. /\ results \in Seq(1..MaxCalls) /\ Len(results) \in Nat /\ iteration \in Nat
      /\ \A i \in 1..Len(results) : results[i] \in 1..MaxCalls
      /\ answer.calls \in 0..MaxCalls
  <2>1. results \in Seq(1..MaxCalls) /\ iteration \in Nat /\ answer.calls \in 0..MaxCalls
    BY ToolLoopAssumption DEF TypeOK
  <2>2. Len(results) \in Nat
    BY <2>1, LenProperties
  <2> QED
    BY <2>1, <2>2, ElementOfSeq
<1>2. MaxCalls \in Nat
  BY ToolLoopAssumption
<1> DEFINE told == [i \in 1..Len(results) |-> Told(results[i])]
<1>3. Asked(answer.calls) \in Messages
  BY <1>1 DEF Asked, Messages
<1>4. \A i \in 1..Len(results) : Told(results[i]) \in Messages
  BY <1>1, <1>2 DEF Told, Messages
<1>5. told \in Seq(Messages) /\ Len(told) = Len(results)
  BY <1>1, <1>4, IsASeq
<1>6. /\ <<Asked(answer.calls)>> \in Seq(Messages)
      /\ Len(<<Asked(answer.calls)>>) = 1
      /\ <<Asked(answer.calls)>>[1] = Asked(answer.calls)
  BY <1>3
<1>7. \A i \in 1..Len(results) : told[i] = Told(results[i])
  OBVIOUS
<1>8. Added = <<Asked(answer.calls)>> \o told
  BY DEF Added
<1> HIDE DEF told
<1>9. /\ Added \in Seq(Messages) /\ Len(Added) = 1 + Len(told)
      /\ \A i \in 1..(1 + Len(told)) :
           Added[i] = IF i <= 1 THEN <<Asked(answer.calls)>>[i] ELSE told[i - 1]
  BY <1>5, <1>6, <1>8, ConcatProperties
<1>10. \A i \in 1..Len(results) :
         i + 1 \in 1..(1 + Len(told)) /\ ~(i + 1 <= 1) /\ (i + 1) - 1 = i
  BY <1>1, <1>5
<1> QED
  BY <1>1, <1>5, <1>6, <1>7, <1>9, <1>10

(* Backfill's sequence, in the form the code of the model has. *)
LEMMA BackfillAdds ==
  ASSUME TypeOK, Backfill
  PROVE  thread' = thread \o Added
<1>1. /\ thread \in Seq(Messages) /\ <<Asked(answer.calls)>> \in Seq(Messages)
      /\ Len(results) \in Nat
  BY AddedTyped, LenProperties, ToolLoopAssumption DEF TypeOK, Messages, Asked
<1>2. [i \in 1..Len(results) |-> Told(results[i])] \in Seq(Messages)
  <2>1. \A i \in 1..Len(results) : Told(results[i]) \in Messages
    <3>1. \A i \in 1..Len(results) : results[i] \in 1..MaxCalls
      BY ElementOfSeq DEF TypeOK
    <3>2. iteration \in Nat /\ MaxCalls \in Nat
      BY ToolLoopAssumption DEF TypeOK
    <3> QED
      BY <3>1, <3>2 DEF Told, Messages
  <2> QED
    BY <1>1, <2>1, IsASeq
<1> DEFINE asked == <<Asked(answer.calls)>>
           told  == [i \in 1..Len(results) |-> Told(results[i])]
<1>3. thread' = (thread \o asked) \o told
  BY DEF Backfill
<1>4. Added = asked \o told
  BY DEF Added
<1>5. asked \in Seq(Messages) /\ told \in Seq(Messages)
  BY <1>1, <1>2
<1> HIDE DEF asked, told
<1>6. (thread \o asked) \o told = thread \o (asked \o told)
  BY <1>1, <1>5, ConcatAssociative
<1> QED
  BY <1>3, <1>4, <1>6

LEMMA TypeNext == TypeOK /\ Rounds /\ [Next]_vars => TypeOK' /\ Rounds'
<1> SUFFICES ASSUME TypeOK, Rounds, [Next]_vars PROVE TypeOK' /\ Rounds'
  OBVIOUS
<1>0. MaxIterations \in Nat /\ MaxCalls \in Nat
  BY ToolLoopAssumption
<1>1. CASE CallEngine
  <2>1. engineCalls' \in 0..MaxIterations /\ Rounds'
    BY <1>0, <1>1 DEF CallEngine, MayCall, TypeOK, Rounds
  <2>2. NoAnswer \in [pieces: Nat, finish: Finishes, calls: 0..MaxCalls]
    BY <1>0 DEF NoAnswer, Finishes
  <2> QED
    BY <1>1, <2>1, <2>2 DEF CallEngine, TypeOK, Steps
<1>2. CASE LimitReached
  BY <1>2 DEF LimitReached, TypeOK, Rounds, Steps
<1>3. CASE Respond
  <2>1. PICK a \in Answers : answer' = a /\ Decide(a)
    BY <1>3 DEF Respond
  <2>2. a \in [pieces: Nat, finish: Finishes, calls: 0..MaxCalls]
    BY DEF Answers, Finishes
  <2>3. /\ step' \in Steps /\ iteration' \in 0..MaxIterations
        /\ reply' \in [call: Nat, pieces: Nat] /\ Rounds'
    BY <1>3, <2>1, <2>2, DecideTyped DEF Respond
  <2> QED
    BY <1>3, <2>1, <2>2, <2>3 DEF Respond, TypeOK
<1>4. CASE Chunk
  <2>1. PICK c \in Chunks :
          /\ answer' = AppendChunk(answer, c)
          /\ wire' = Append(wire, IF c.pieces > 0 THEN "text" ELSE "blank")
    BY <1>4 DEF Chunk
  <2>2. answer' \in [pieces: Nat, finish: Finishes, calls: 0..MaxCalls]
    BY <2>1 DEF AppendChunk, Chunks, TypeOK
  <2>3. wire' \in Seq(Events)
    BY <2>1, WireTyped DEF TypeOK, Events
  <2> QED
    BY <1>4, <2>2, <2>3 DEF Chunk, TypeOK, Rounds
<1>5. CASE EndOfStream
  <2>1. /\ step' \in Steps /\ iteration' \in 0..MaxIterations
        /\ reply' \in [call: Nat, pieces: Nat] /\ Rounds'
    BY <1>5, DecideTyped DEF EndOfStream, TypeOK
  <2> QED
    BY <1>5, <2>1 DEF EndOfStream, TypeOK
<1>6. CASE Execute
  <2>1. progress + 1 \in 1..MaxCalls
    BY <1>0, <1>6 DEF Execute, TypeOK
  <2>2. PICK o \in Outcomes :
          /\ results' = results \o <<progress + 1>>
          /\ audited' = IF o = "unparsed" THEN audited
                        ELSE audited \cup {<<iteration, progress + 1>>}
    BY <1>6 DEF Execute, ResultsOf
  <2>3. results' \in Seq(1..MaxCalls)
    BY <2>1, <2>2, ConcatProperties DEF TypeOK
  <2>4. audited' \subseteq Nat \X (1..MaxCalls)
    BY <1>0, <2>1, <2>2 DEF TypeOK
  <2> QED
    BY <1>6, <2>1, <2>3, <2>4 DEF Execute, TypeOK, Rounds
<1>7. CASE Backfill
  <2>1. thread \in Seq(Messages)
    BY DEF TypeOK, Messages
  <2>2. thread' \in Seq(Messages)
    BY <1>7, <2>1, BackfillAdds, AddedTyped, ConcatProperties
  <2>3. wire' \in Seq(Events)
    BY <1>7, WireTyped DEF Backfill, TypeOK, Events
  <2> QED
    BY <1>7, <2>2, <2>3 DEF Backfill, TypeOK, Rounds, Steps, Messages
<1>8. CASE Persist
  <2>1. saved' \in Seq([call: Nat, pieces: Nat])
    BY <1>8, AppendProperties DEF Persist, TypeOK
  <2> QED
    BY <1>8, <2>1 DEF Persist, TypeOK, Rounds, Steps
<1>9. CASE Close \/ Fail
  <2>1. wire' \in Seq(Events)
    BY <1>9, WireTyped DEF Close, Fail, TypeOK, Events
  <2> QED
    BY <1>9, <2>1 DEF Close, Fail, TypeOK, Rounds, Steps, Over
<1>10. CASE Disconnect
  BY <1>10 DEF Disconnect, TypeOK, Rounds, Steps, Over
<1>11. CASE UNCHANGED vars
  BY <1>11 DEF vars, TypeOK, Rounds
<1> QED
  BY <1>1, <1>2, <1>3, <1>4, <1>5, <1>6, <1>7, <1>8, <1>9, <1>10, <1>11
     DEF Next, Progress

(* Every variable has its type; above all the engine is never called more  *)
(* than max_tool_iterations times, whatever it answers.                    *)
THEOREM ToolLoopTyped == Spec => []TypeOK
  BY TypeInit, TypeNext, PTL DEF Spec

-----------------------------------------------------------------------------
(* The end of a stream.                                                    *)

(* Nothing is stored before the transaction, one reply after it; [DONE]    *)
(* and the error event are sent by the steps that end the request.         *)
Ending ==
  /\ step \in {"loop", "receive", "execute", "persist", "failed"} => saved = <<>>
  /\ step \in {"close", "returned"} => Len(saved) = 1
  /\ \A i \in 1..Len(wire) :
       /\ wire[i] = "done" => i = Len(wire) /\ step = "returned"
       /\ wire[i] = "error" => i = Len(wire) /\ step = "failed"

LEMMA EndingNext == TypeOK /\ Ending /\ [Next]_vars => Ending'
<1> SUFFICES ASSUME TypeOK, Ending, [Next]_vars PROVE Ending'
  OBVIOUS
<1>0. \A e \in Events :
        /\ Len(Append(wire, e)) = Len(wire) + 1 /\ Len(wire) \in Nat
        /\ Append(wire, e)[Len(wire) + 1] = e
        /\ \A i \in 1..Len(wire) : Append(wire, e)[i] = wire[i]
  BY AppendProperties, LenProperties DEF TypeOK
<1>1. CASE CallEngine \/ LimitReached \/ Execute
  BY <1>1 DEF CallEngine, LimitReached, Execute, Ending
<1>2. CASE Respond \/ EndOfStream
  BY <1>2 DEF Respond, EndOfStream, Decide, Ending
<1>3. CASE Chunk
  <2>1. PICK e \in {"text", "blank"} : wire' = Append(wire, e)
    BY <1>3 DEF Chunk
  <2>2. \A i \in 1..Len(wire') : wire'[i] \notin {"done", "error"}
    BY <1>0, <1>3, <2>1 DEF Chunk, Ending, Events
  <2> QED
    BY <1>3, <2>2 DEF Chunk, Ending
<1>4. CASE Backfill
  <2>1. \A i \in 1..Len(wire') : wire'[i] \notin {"done", "error"}
    BY <1>0, <1>4 DEF Backfill, Ending, Events
  <2> QED
    BY <1>4, <2>1 DEF Backfill, Ending
<1>5. CASE Persist
  <2>1. Len(saved') = 1
    BY <1>5 DEF Persist, Ending
  <2> QED
    BY <1>5, <2>1 DEF Persist, Ending
<1>6. CASE Close
  <2>1. \A i \in 1..Len(wire') : wire'[i] # "error" /\ (wire'[i] = "done" => i = Len(wire'))
    BY <1>0, <1>6 DEF Close, Ending, Events
  <2> QED
    BY <1>6, <2>1 DEF Close, Ending
<1>7. CASE Fail
  <2>1. \A i \in 1..Len(wire') : wire'[i] # "done" /\ (wire'[i] = "error" => i = Len(wire'))
    BY <1>0, <1>7 DEF Fail, Ending, Events
  <2> QED
    BY <1>7, <2>1 DEF Fail, Ending
<1>8. CASE Disconnect
  BY <1>8 DEF Disconnect, Ending, Over
<1>9. CASE UNCHANGED vars
  BY <1>9 DEF vars, Ending
<1> QED
  BY <1>1, <1>2, <1>3, <1>4, <1>5, <1>6, <1>7, <1>8, <1>9 DEF Next, Progress

LEMMA EndingInit == Init => Ending
  BY DEF Init, Ending

LEMMA AlwaysEnding == Spec => []Ending
  BY EndingInit, EndingNext, ToolLoopTyped, PTL DEF Spec

(* A stream's last event is [DONE] or an error, never both and nothing     *)
(* after it, and [DONE] is sent only when the reply is stored: chat_stream *)
(* persists before it yields [DONE], and yields an error only on the way   *)
(* out of its try.                                                         *)
THEOREM StreamEndsOnceAlways == Spec => []StreamEndsOnce
<1>1. TypeOK /\ Ending => StreamEndsOnce
  <2>1. TypeOK => DOMAIN wire = 1..Len(wire)
    BY LenProperties DEF TypeOK
  <2> QED
    BY <2>1 DEF Ending, StreamEndsOnce, Over
<1> QED
  BY <1>1, ToolLoopTyped, AlwaysEnding, PTL


-----------------------------------------------------------------------------
(* The messages that answer tool calls.                                    *)

(* Each assistant message of h is followed by its answers, in order. *)
Answered(h) ==
  \A i \in 1..Len(h) :
    IF h[i].role = "assistant"
    THEN /\ i + h[i].n <= Len(h)
         /\ \A k \in 1..h[i].n :
              h[i + k] = [role |-> "tool", round |-> h[i].round, n |-> k]
    ELSE /\ h[i].n \in 1..(i - 1)
         /\ h[i - h[i].n].role = "assistant"
         /\ h[i - h[i].n].n >= h[i].n

(* While tools run there is one result for each call made, in order. *)
ResultsInOrder ==
  step = "execute" =>
    /\ progress \in 0..answer.calls /\ Len(results) = progress
    /\ \A i \in 1..progress : results[i] = i

LEMMA ResultsNext == TypeOK /\ ResultsInOrder /\ [Next]_vars => ResultsInOrder'
<1> SUFFICES ASSUME TypeOK, ResultsInOrder, [Next]_vars PROVE ResultsInOrder'
  OBVIOUS
<1>1. CASE Respond \/ EndOfStream
  <2>1. progress' = 0 /\ results' = <<>>
    BY <1>1 DEF Respond, EndOfStream
  <2>2. answer'.calls \in Nat
    BY <1>1, ToolLoopAssumption DEF Respond, EndOfStream, Answers, TypeOK
  <2> QED
    BY <2>1, <2>2 DEF ResultsInOrder
<1>2. CASE Execute
  <2>1. results' = results \o <<progress + 1>> /\ progress' = progress + 1
    BY <1>2 DEF Execute, ResultsOf
  <2>2. progress + 1 \in 1..MaxCalls /\ progress \in Nat
    BY <1>2, ToolLoopAssumption DEF Execute, TypeOK
  <2>3. results \in Seq(1..MaxCalls) /\ <<progress + 1>> \in Seq(1..MaxCalls)
    BY <2>2 DEF TypeOK
  <2>4. /\ Len(results') = Len(results) + 1
        /\ \A i \in 1..(Len(results) + 1) :
             results'[i] = IF i <= Len(results) THEN results[i]
                           ELSE <<progress + 1>>[i - Len(results)]
    BY <2>1, <2>3, ConcatProperties
  <2>5. Len(results) = progress /\ \A i \in 1..progress : results[i] = i
    BY <1>2 DEF Execute, ResultsInOrder
  <2>6. \A i \in 1..(progress + 1) : results'[i] = i
    BY <2>2, <2>4, <2>5
  <2>7. progress + 1 \in 0..answer.calls /\ answer' = answer
    BY <1>2, <2>2, ToolLoopAssumption DEF Execute, TypeOK
  <2> QED
    BY <2>1, <2>2, <2>4, <2>5, <2>6, <2>7 DEF ResultsInOrder
<1>3. CASE CallEngine \/ LimitReached \/ Chunk \/ Backfill \/ Persist \/ Close
  BY <1>3 DEF CallEngine, LimitReached, Chunk, Backfill, Persist, Close, ResultsInOrder
<1>4. CASE Fail \/ Disconnect \/ UNCHANGED vars
  BY <1>4 DEF Fail, Disconnect, vars, ResultsInOrder
<1> QED
  BY <1>1, <1>2, <1>3, <1>4 DEF Next, Progress

(* The messages of one finished round. *)
LEMMA BackfillPlaces ==
  ASSUME TypeOK, ResultsInOrder, Backfill
  PROVE  /\ Len(thread) \in Nat /\ answer.calls \in 0..MaxCalls
         /\ Len(thread') = Len(thread) + 1 + answer.calls
         /\ \A i \in 1..Len(thread) : thread'[i] = thread[i]
         /\ thread'[Len(thread) + 1] = Asked(answer.calls)
         /\ \A k \in 1..answer.calls : thread'[Len(thread) + 1 + k] = Told(k)
<1>1. thread \in Seq(Messages) /\ Len(thread) \in Nat /\ answer.calls \in 0..MaxCalls
  BY LenProperties DEF TypeOK, Messages
<1>2. Len(results) = answer.calls /\ \A k \in 1..answer.calls : results[k] = k
  BY DEF Backfill, ResultsInOrder
<1>3. /\ Added \in Seq(Messages) /\ Len(Added) = answer.calls + 1
      /\ Added[1] = Asked(answer.calls)
      /\ \A k \in 1..answer.calls : Added[k + 1] = Told(k)
  BY <1>2, AddedTyped
<1>4. /\ Len(thread') = Len(thread) + Len(Added)
      /\ \A i \in 1..(Len(thread) + Len(Added)) :
           thread'[i] = IF i <= Len(thread) THEN thread[i] ELSE Added[i - Len(thread)]
  <2>1. thread' = thread \o Added
    BY BackfillAdds
  <2> QED
    BY <1>1, <1>3, <2>1, ConcatProperties
<1>5. answer.calls \in Nat
  BY <1>1, ToolLoopAssumption
<1>6. ASSUME NEW i \in 1..Len(thread)
      PROVE  thread'[i] = thread[i]
  <2>1. i \in 1..(Len(thread) + Len(Added)) /\ i <= Len(thread)
    BY <1>1, <1>3, <1>5
  <2> QED
    BY <1>4, <2>1
<1>7. thread'[Len(thread) + 1] = Asked(answer.calls)
  <2>1. /\ Len(thread) + 1 \in 1..(Len(thread) + Len(Added))
        /\ ~(Len(thread) + 1 <= Len(thread)) /\ Len(thread) + 1 - Len(thread) = 1
    BY <1>1, <1>3, <1>5
  <2> QED
    BY <1>3, <1>4, <2>1
<1>8. ASSUME NEW k \in 1..answer.calls
      PROVE  thread'[Len(thread) + 1 + k] = Told(k)
  <2>1. /\ Len(thread) + 1 + k \in 1..(Len(thread) + Len(Added))
        /\ ~(Len(thread) + 1 + k <= Len(thread))
        /\ Len(thread) + 1 + k - Len(thread) = k + 1
    <3> DEFINE l == Len(thread)
               m == answer.calls
    <3>1. l \in Nat /\ m \in Nat /\ k \in 1..m /\ Len(Added) = m + 1
      BY <1>1, <1>3, <1>5
    <3> HIDE DEF l, m
    <3>2. l + 1 + k \in 1..(l + Len(Added)) /\ ~(l + 1 + k <= l) /\ l + 1 + k - l = k + 1
      BY <3>1
    <3> QED
      BY <3>2 DEF l
  <2>2. thread'[Len(thread) + 1 + k] = Added[Len(thread) + 1 + k - Len(thread)]
    BY <1>4, <2>1
  <2> QED
    BY <1>3, <2>1, <2>2
<1>9. Len(thread') = Len(thread) + 1 + answer.calls
  <2>1. Len(thread') = Len(thread) + Len(Added) /\ Len(Added) = answer.calls + 1
    BY <1>3, <1>4
  <2>2. Len(thread) \in Nat /\ answer.calls \in Nat
    BY <1>1, <1>5
  <2> QED
    BY <2>1, <2>2
<1> QED
  BY <1>1, <1>6, <1>7, <1>8, <1>9

LEMMA AnsweredNext ==
  TypeOK /\ ResultsInOrder /\ Answered(thread) /\ [Next]_vars => Answered(thread')
<1> SUFFICES ASSUME TypeOK, ResultsInOrder, Answered(thread), [Next]_vars
             PROVE  Answered(thread')
  OBVIOUS
<1>1. CASE Backfill
  <2> DEFINE L == Len(thread)
             c == answer.calls
  <2>1. /\ L \in Nat /\ c \in Nat /\ Len(thread') = L + 1 + c
        /\ \A i \in 1..L : thread'[i] = thread[i]
        /\ thread'[L + 1] = Asked(c)
        /\ \A k \in 1..c : thread'[L + 1 + k] = Told(k)
    BY <1>1, BackfillPlaces, ToolLoopAssumption
  <2>2. \A i \in 1..L : thread[i].n \in Nat
    <3>1. \A i \in 1..L : thread[i] \in Messages
      BY ElementOfSeq DEF TypeOK, Messages
    <3> QED
      BY <3>1, ToolLoopAssumption DEF Messages
  <2> HIDE DEF L, c
  <2> SUFFICES ASSUME NEW i \in 1..Len(thread')
               PROVE  IF thread'[i].role = "assistant"
                      THEN /\ i + thread'[i].n <= Len(thread')
                           /\ \A k \in 1..thread'[i].n :
                                thread'[i + k] = [role |-> "tool", round |-> thread'[i].round, n |-> k]
                      ELSE /\ thread'[i].n \in 1..(i - 1)
                           /\ thread'[i - thread'[i].n].role = "assistant"
                           /\ thread'[i - thread'[i].n].n >= thread'[i].n
    BY DEF Answered
  <2>3. CASE i \in 1..L
    <3>1. CASE thread[i].role = "assistant"
      <4>1. /\ i + thread[i].n <= L
            /\ \A k \in 1..thread[i].n :
                 thread[i + k] = [role |-> "tool", round |-> thread[i].round, n |-> k]
        BY <2>3, <3>1 DEF Answered, L
      <4>2. \A k \in 1..thread[i].n : i + k \in 1..L
        BY <2>1, <2>2, <2>3, <4>1
      <4>3. thread'[i] = thread[i] /\ i + thread[i].n <= Len(thread')
        BY <2>1, <2>2, <2>3, <4>1
      <4>4. ASSUME NEW k \in 1..thread[i].n
            PROVE  thread'[i + k] = [role |-> "tool", round |-> thread[i].round, n |-> k]
        <5>1. thread'[i + k] = thread[i + k]
          BY <2>1, <4>2
        <5> QED
          BY <4>1, <5>1
      <4> QED
        BY <3>1, <4>3, <4>4
    <3>2. CASE thread[i].role # "assistant"
      <4>1. /\ thread[i].n \in 1..(i - 1)
            /\ thread[i - thread[i].n].role = "assistant"
            /\ thread[i - thread[i].n].n >= thread[i].n
        BY <2>3, <3>2 DEF Answered, L
      <4>2. i - thread[i].n \in 1..L
        BY <2>1, <2>3, <4>1
      <4> QED
        BY <2>1, <2>3, <3>2, <4>1, <4>2
    <3> QED
      BY <3>1, <3>2
  <2>4. CASE i = L + 1
    BY <2>1, <2>4 DEF Asked, Told
  <2>5. CASE i \in (L + 2)..(L + 1 + c)
    <3>1. PICK k \in 1..c : i = L + 1 + k
      <4>1. i - (L + 1) \in 1..c /\ i = L + 1 + (i - (L + 1))
        BY <2>1, <2>5
      <4> QED
        BY <4>1
    <3>2. thread'[i] = Told(k) /\ i - k = L + 1 /\ k \in 1..(i - 1) /\ c >= k
      BY <2>1, <3>1
    <3> QED
      BY <2>1, <3>2 DEF Asked, Told
  <2> QED
    BY <2>1, <2>3, <2>4, <2>5
<1>2. CASE thread' = thread
  BY <1>2
<1> QED
  BY <1>1, <1>2 DEF Next, Progress, CallEngine, LimitReached, Respond, Chunk,
     EndOfStream, Execute, Persist, Close, Fail, Disconnect, vars

LEMMA AnsweredInit == Init => ResultsInOrder /\ Answered(thread)
  BY DEF Init, ResultsInOrder, Answered

LEMMA AlwaysAnswered == Spec => []ResultsInOrder /\ []Answered(thread)
<1>1. TypeOK /\ ResultsInOrder /\ Answered(thread) /\ [Next]_vars
        => Answered(thread)'
  BY AnsweredNext DEF Answered
<1> QED
  BY <1>1, AnsweredInit, ResultsNext, ToolLoopTyped, PTL DEF Spec

(* Whenever the engine is called, each assistant message that asks for n   *)
(* tools is followed by the n tool messages that answer it, in the order   *)
(* of the calls, however many of them failed.                              *)
THEOREM CallsAnsweredAlways == Spec => []ToolCallsAnswered
<1>1. TypeOK /\ Answered(thread) => ToolCallsAnswered
  <2>1. TypeOK => DOMAIN thread = 1..Len(thread)
    BY LenProperties DEF TypeOK
  <2> QED
    BY <2>1 DEF Answered, ToolCallsAnswered
<1> QED
  BY <1>1, ToolLoopTyped, AlwaysAnswered, PTL


-----------------------------------------------------------------------------
(* No tool runs unseen.                                                    *)

(* A call that was audited has its tool message, or is of the round whose  *)
(* messages Backfill will add.                                             *)
AuditedIsKept ==
  step \notin Over =>
    \A call \in audited :
      \/ \E i \in 1..Len(thread) :
           thread[i] = [role |-> "tool", round |-> call[1], n |-> call[2]]
      \/ step = "execute" /\ call[1] = iteration /\ call[2] \in 1..progress

LEMMA KeptNext ==
  TypeOK /\ ResultsInOrder /\ AuditedIsKept /\ [Next]_vars => AuditedIsKept'
<1> SUFFICES ASSUME TypeOK, ResultsInOrder, AuditedIsKept, [Next]_vars
             PROVE  AuditedIsKept'
  OBVIOUS
<1>1. CASE Execute
  <2>1. /\ step = "execute" /\ UNCHANGED <<step, iteration, thread>>
        /\ progress' = progress + 1 /\ progress \in Nat
        /\ audited' \subseteq audited \cup {<<iteration, progress + 1>>}
    BY <1>1 DEF Execute, TypeOK
  <2>2. \A call \in audited' :
          \/ \E i \in 1..Len(thread) :
               thread[i] = [role |-> "tool", round |-> call[1], n |-> call[2]]
          \/ call[1] = iteration /\ call[2] \in 1..(progress + 1)
    BY <2>1 DEF AuditedIsKept, Over
  <2> QED
    BY <2>1, <2>2 DEF AuditedIsKept
<1>2. CASE Backfill
  <2>1. /\ step = "execute" /\ progress = answer.calls /\ audited' = audited
    BY <1>2 DEF Backfill
  <2>2. /\ Len(thread) \in Nat /\ progress \in Nat
        /\ Len(thread') = Len(thread) + 1 + progress
        /\ \A i \in 1..Len(thread) : thread'[i] = thread[i]
        /\ \A k \in 1..progress : thread'[Len(thread) + 1 + k] = Told(k)
    BY <1>2, <2>1, BackfillPlaces, ToolLoopAssumption
  <2> SUFFICES ASSUME NEW call \in audited
               PROVE  \E i \in 1..Len(thread') :
                        thread'[i] = [role |-> "tool", round |-> call[1], n |-> call[2]]
    BY <2>1 DEF AuditedIsKept
  <2>3. CASE \E i \in 1..Len(thread) :
               thread[i] = [role |-> "tool", round |-> call[1], n |-> call[2]]
    <3>1. PICK i \in 1..Len(thread) :
            thread[i] = [role |-> "tool", round |-> call[1], n |-> call[2]]
      BY <2>3
    <3>2. i \in 1..Len(thread') /\ thread'[i] = thread[i]
      BY <2>2
    <3> QED
      BY <3>1, <3>2
  <2>4. CASE call[1] = iteration /\ call[2] \in 1..progress
    <3>1. /\ Len(thread) + 1 + call[2] \in 1..Len(thread')
          /\ thread'[Len(thread) + 1 + call[2]] = Told(call[2])
      BY <2>2, <2>4
    <3>2. Told(call[2]) = [role |-> "tool", round |-> call[1], n |-> call[2]]
      BY <2>4 DEF Told
    <3> QED
      BY <3>1, <3>2
  <2> QED
    BY <2>1, <2>3, <2>4 DEF AuditedIsKept, Over
<1>3. CASE Respond \/ EndOfStream
  BY <1>3 DEF Respond, EndOfStream, Decide, AuditedIsKept, Over
<1>4. CASE CallEngine \/ LimitReached \/ Chunk \/ Persist \/ Close
  BY <1>4 DEF CallEngine, LimitReached, Chunk, Persist, Close, AuditedIsKept, Over
<1>5. CASE Fail \/ Disconnect \/ UNCHANGED vars
  BY <1>5 DEF Fail, Disconnect, vars, AuditedIsKept, Over
<1> QED
  BY <1>1, <1>2, <1>3, <1>4, <1>5 DEF Next, Progress

(* When the engine is called again, every call that was invoked has the    *)
(* message that tells its result, refused and unusable ones included.      *)
THEOREM InvokedIsToldAlways == Spec => []InvokedIsTold
<1>1. Init => AuditedIsKept
  BY DEF Init, AuditedIsKept
<1>2. TypeOK /\ AuditedIsKept => InvokedIsTold
  <2>1. TypeOK => DOMAIN thread = 1..Len(thread)
    BY LenProperties DEF TypeOK
  <2> QED
    BY <2>1 DEF AuditedIsKept, InvokedIsTold, Over
<1> QED
  BY <1>1, <1>2, KeptNext, ToolLoopTyped, AlwaysAnswered, PTL DEF Spec

-----------------------------------------------------------------------------
(* The text that is stored.                                                *)

(* The text events of w since its last tools event. *)
SentIn(w) == {i \in 1..Len(w) : w[i] = "text" /\ \A j \in i..Len(w) : w[j] # "tools"}

(* How an event changes them. *)
LEMMA SentAppend ==
  ASSUME NEW w \in Seq(Events)
  PROVE  /\ IsFiniteSet(SentIn(w)) /\ Cardinality(SentIn(w)) \in Nat
         /\ Cardinality(SentIn(Append(w, "text"))) = Cardinality(SentIn(w)) + 1
         /\ \A e \in {"blank", "done", "error"} : SentIn(Append(w, e)) = SentIn(w)
         /\ SentIn(Append(w, "tools")) = {}
<1>1. Len(w) \in Nat
  BY LenProperties
<1>2. \A e \in Events :
        /\ Len(Append(w, e)) = Len(w) + 1
        /\ Append(w, e)[Len(w) + 1] = e
        /\ \A i \in 1..Len(w) : Append(w, e)[i] = w[i]
  BY AppendProperties
<1>3. IsFiniteSet(SentIn(w)) /\ Cardinality(SentIn(w)) \in Nat
  <2>1. IsFiniteSet(1..Len(w)) /\ SentIn(w) \subseteq 1..Len(w)
    BY <1>1, FS_Interval DEF SentIn
  <2> QED
    BY <2>1, FS_Subset, FS_CardinalityType
<1>4. ASSUME NEW e \in Events \ {"tools"}
      PROVE  SentIn(Append(w, e)) = IF e = "text" THEN SentIn(w) \cup {Len(w) + 1} ELSE SentIn(w)
  <2> DEFINE x == Append(w, e)
  <2>1. /\ Len(x) = Len(w) + 1 /\ x[Len(w) + 1] = e
        /\ \A i \in 1..Len(w) : x[i] = w[i]
    BY <1>2
  <2> HIDE DEF x
  <2>2. \A i \in 1..Len(w) :
          (\A j \in i..Len(x) : x[j] # "tools") <=> (\A j \in i..Len(w) : w[j] # "tools")
    BY <1>1, <2>1
  <2>3. \A j \in (Len(w) + 1)..Len(x) : x[j] # "tools"
    BY <1>1, <2>1
  <2>4. \A i \in 1..Len(w) : i \in SentIn(x) <=> i \in SentIn(w)
    BY <1>1, <2>1, <2>2 DEF SentIn
  <2>5. Len(w) + 1 \in SentIn(x) <=> e = "text"
    BY <1>1, <2>1, <2>3 DEF SentIn
  <2>6. SentIn(x) \subseteq 1..(Len(w) + 1) /\ SentIn(w) \subseteq 1..Len(w)
    BY <2>1 DEF SentIn
  <2>7. \A i : i \in 1..(Len(w) + 1) <=> i \in 1..Len(w) \/ i = Len(w) + 1
    BY <1>1
  <2>8. SentIn(x) = IF e = "text" THEN SentIn(w) \cup {Len(w) + 1} ELSE SentIn(w)
    <3>1. Len(w) + 1 \notin SentIn(w)
      BY <1>1 DEF SentIn
    <3>2. CASE e = "text"
      BY <2>4, <2>5, <2>6, <2>7, <3>2
    <3>3. CASE e # "text"
      <4>1. SentIn(x) \subseteq 1..Len(w)
        BY <2>5, <2>6, <2>7, <3>3
      <4>2. \A i : i \in SentIn(x) <=> i \in SentIn(w)
        BY <2>4, <2>6, <4>1
      <4>3. SentIn(x) = SentIn(w)
        BY <4>2
      <4> QED
        BY <3>3, <4>3
    <3> QED
      BY <3>2, <3>3
  <2> QED
    BY <2>8 DEF x
<1>5. Cardinality(SentIn(Append(w, "text"))) = Cardinality(SentIn(w)) + 1
  <2>1. SentIn(Append(w, "text")) = SentIn(w) \cup {Len(w) + 1}
    BY <1>4 DEF Events
  <2>2. Len(w) + 1 \notin SentIn(w)
    BY <1>1 DEF SentIn
  <2> QED
    BY <1>3, <2>1, <2>2, FS_AddElement
<1>6. \A e \in {"blank", "done", "error"} : SentIn(Append(w, e)) = SentIn(w)
  BY <1>4 DEF Events
<1>7. SentIn(Append(w, "tools")) = {}
  <2> DEFINE x == Append(w, "tools")
  <2>1. Len(x) = Len(w) + 1 /\ x[Len(w) + 1] = "tools"
    BY <1>2 DEF Events
  <2> HIDE DEF x
  <2>2. \A i \in 1..Len(x) : Len(w) + 1 \in i..Len(x)
    BY <1>1, <2>1
  <2>3. SentIn(x) = {}
    BY <2>1, <2>2 DEF SentIn
  <2> QED
    BY <2>3 DEF x
<1> QED
  BY <1>3, <1>5, <1>6, <1>7

(* A stream has of the present answer what its client was sent. *)
TextAgrees ==
  mode = "stream" =>
    /\ step = "loop" => Cardinality(SentIn(wire)) = 0
    /\ step = "receive" => answer.pieces = Cardinality(SentIn(wire))
    /\ step \in {"persist", "close"} /\ iteration < MaxIterations =>
         reply = [call |-> engineCalls, pieces |-> Cardinality(SentIn(wire))]
    /\ step = "persist" => saved = <<>>
    /\ step = "close" => saved = <<reply>>
    /\ saved # <<>> => step \in {"close", "returned", "gone"}
    /\ saved # <<>> /\ iteration < MaxIterations =>
         saved = <<[call |-> engineCalls, pieces |-> Cardinality(SentIn(wire))]>>

LEMMA TextNext == TypeOK /\ TextAgrees /\ [Next]_vars => TextAgrees'
<1> SUFFICES ASSUME TypeOK, TextAgrees, [Next]_vars PROVE TextAgrees'
  OBVIOUS
<1>a. mode' = mode
  <2>1. CASE CallEngine \/ LimitReached \/ Respond \/ Chunk \/ EndOfStream
    BY <2>1 DEF CallEngine, LimitReached, Respond, Chunk, EndOfStream
  <2>2. CASE Execute \/ Backfill \/ Persist \/ Close
    BY <2>2 DEF Execute, Backfill, Persist, Close
  <2>3. CASE Fail \/ Disconnect \/ UNCHANGED vars
    BY <2>3 DEF Fail, Disconnect, vars
  <2> QED
    BY <2>1, <2>2, <2>3 DEF Next, Progress
<1> SUFFICES ASSUME mode = "stream" PROVE TextAgrees'
  BY <1>a DEF TextAgrees
<1>0. /\ wire \in Seq(Events) /\ answer.pieces \in Nat
      /\ iteration \in Nat /\ MaxIterations \in Nat
  BY ToolLoopAssumption DEF TypeOK
<1>1. CASE CallEngine
  BY <1>1 DEF CallEngine, TextAgrees, NoAnswer
<1>2. CASE LimitReached
  BY <1>0, <1>2 DEF LimitReached, MayCall, TextAgrees
<1>3. CASE Chunk
  <2>1. PICK c \in Chunks :
          /\ answer' = AppendChunk(answer, c)
          /\ wire' = Append(wire, IF c.pieces > 0 THEN "text" ELSE "blank")
    BY <1>3 DEF Chunk
  <2>2. c.pieces \in {0, 1} /\ answer'.pieces = answer.pieces + c.pieces
    BY <2>1 DEF AppendChunk, Chunks
  <2>3. Cardinality(SentIn(wire')) = Cardinality(SentIn(wire)) + c.pieces
    BY <1>0, <2>1, <2>2, SentAppend
  <2>4. answer'.pieces = Cardinality(SentIn(wire'))
    BY <1>3, <2>2, <2>3 DEF Chunk, TextAgrees
  <2> QED
    BY <1>3, <2>4 DEF Chunk, TextAgrees
<1>4. CASE EndOfStream
  BY <1>4 DEF EndOfStream, Decide, TextOf, TextAgrees
<1>5. CASE Execute
  BY <1>5 DEF Execute, TextAgrees
<1>6. CASE Backfill
  <2>1. SentIn(wire') = {}
    BY <1>0, <1>6, SentAppend DEF Backfill
  <2>2. Cardinality(SentIn(wire')) = 0
    BY <2>1, FS_EmptySet
  <2> QED
    BY <1>6, <2>2 DEF Backfill, TextAgrees
<1>7. CASE Persist
  <2>1. saved' = <<reply>>
    BY <1>7 DEF Persist, TextAgrees
  <2> QED
    BY <1>7, <2>1 DEF Persist, TextAgrees
<1>8. CASE Close \/ Fail
  <2>1. SentIn(wire') = SentIn(wire)
    BY <1>0, <1>8, SentAppend DEF Close, Fail
  <2> QED
    BY <1>8, <2>1 DEF Close, Fail, TextAgrees
<1>9. CASE Disconnect \/ UNCHANGED vars
  BY <1>9 DEF Disconnect, vars, TextAgrees, Over
<1>10. CASE Respond
  BY <1>10 DEF Respond
<1> QED
  BY <1>1, <1>2, <1>3, <1>4, <1>5, <1>6, <1>7, <1>8, <1>9, <1>10 DEF Next, Progress

(* A stream that left the loop on an answer stores exactly the text its    *)
(* client was sent of that answer, however it was cut in chunks and        *)
(* whatever tools ran before.                                              *)
THEOREM StoredIsStreamedAlways == Spec => []StoredIsStreamed
<1>1. Init => TextAgrees
  <2>1. ASSUME Init PROVE Cardinality(SentIn(wire)) = 0
    BY <2>1, FS_EmptySet DEF Init, SentIn
  <2> QED
    BY <2>1 DEF Init, TextAgrees
<1>2. TypeOK /\ TextAgrees => StoredIsStreamed
  <2>1. TypeOK => SentText = Cardinality(SentIn(wire))
    BY LenProperties DEF TypeOK, SentText, SentIn
  <2> QED
    BY <2>1 DEF TextAgrees, StoredIsStreamed
<1> QED
  BY <1>1, <1>2, TextNext, ToolLoopTyped, PTL DEF Spec

-----------------------------------------------------------------------------
(* The end of the loop: a bound on the steps that are left, which every    *)
(* step lowers.                                                            *)

(* The steps of one round: the call of the engine, the chunks and the end  *)
(* of its answer, the tools and their messages. *)
Round == MaxChunks + MaxCalls + 3

Budget(i) == (MaxIterations - i) * Round

(* How many steps a request has left at most. *)
Left ==
  CASE step = "loop"    -> Budget(iteration) + 3
    [] step = "receive" -> Budget(iteration) + 2 - progress
    [] step = "execute" -> Budget(iteration) + 4 + MaxCalls - progress
    [] step = "persist" -> 2
    [] step = "close"   -> 1
    [] OTHER             -> 0

(* No more chunks are received than there may be, and no more calls        *)
(* executed than the answer has.                                           *)
InStep ==
  /\ step = "receive" => progress <= MaxChunks
  /\ step = "execute" => progress <= answer.calls

LEMMA BudgetFacts ==
  /\ \A i \in 0..MaxIterations : Budget(i) \in Nat
  /\ \A i \in 0..MaxIterations :
       i < MaxIterations =>
         Budget(i) = Budget(i + 1) + MaxChunks + MaxCalls + 3
<1>1. MaxIterations \in Nat /\ MaxCalls \in Nat /\ MaxChunks \in Nat /\ Round \in Nat
  BY ToolLoopAssumption DEF Round
<1>2. ASSUME NEW i \in 0..MaxIterations PROVE Budget(i) \in Nat
  <2>1. MaxIterations - i \in Nat
    BY <1>1
  <2>2. \A a, b \in Nat : a * b \in Nat
    OBVIOUS
  <2> QED
    BY <1>1, <2>1, <2>2 DEF Budget
<1>3. ASSUME NEW i \in 0..MaxIterations, i < MaxIterations
      PROVE  Budget(i) = Budget(i + 1) + MaxChunks + MaxCalls + 3
  <2>1. \A n, r \in Int : n * r = (n - 1) * r + r
    OBVIOUS
  <2>2. /\ MaxIterations - i \in Int /\ Round \in Int
        /\ MaxIterations - (i + 1) = (MaxIterations - i) - 1
    BY <1>1
  <2>3. (MaxIterations - i) * Round = (MaxIterations - (i + 1)) * Round + Round
    BY <2>1, <2>2
  <2>4. (MaxIterations - (i + 1)) * Round \in Int
    BY <1>1
  <2> QED
    BY <1>1, <2>3, <2>4 DEF Budget, Round
<1> QED
  BY <1>2, <1>3

LEMMA InStepNext == TypeOK /\ InStep /\ [Next]_vars => InStep'
<1> SUFFICES ASSUME TypeOK, InStep, [Next]_vars PROVE InStep'
  OBVIOUS
<1>0. /\ MaxChunks \in Nat /\ MaxCalls \in Nat /\ progress \in Nat
      /\ answer.calls \in 0..MaxCalls
  BY ToolLoopAssumption DEF TypeOK
<1>1. CASE CallEngine
  BY <1>0, <1>1 DEF CallEngine, InStep
<1>2. CASE Respond
  <2>1. PICK a \in Answers : answer' = a /\ Decide(a)
    BY <1>2 DEF Respond
  <2> QED
    BY <1>0, <1>2, <2>1 DEF Respond, Decide, Answers, InStep
<1>3. CASE Chunk
  BY <1>0, <1>3 DEF Chunk, InStep
<1>4. CASE EndOfStream
  BY <1>0, <1>4 DEF EndOfStream, Decide, InStep
<1>5. CASE Execute
  BY <1>0, <1>5 DEF Execute, InStep
<1>6. CASE LimitReached \/ Backfill \/ Persist \/ Close \/ Fail \/ Disconnect
  BY <1>6 DEF LimitReached, Backfill, Persist, Close, Fail, Disconnect, InStep
<1>7. CASE UNCHANGED vars
  BY <1>7 DEF vars, InStep
<1> QED
  BY <1>1, <1>2, <1>3, <1>4, <1>5, <1>6, <1>7 DEF Next, Progress

(* The bound is a natural number, at most what a request starts with. *)
LEMMA LeftFacts ==
  ASSUME TypeOK, Rounds, InStep
  PROVE  /\ Left \in Nat
         /\ step \in Over <=> Left = 0
<1>1. /\ MaxIterations \in Nat /\ MaxCalls \in Nat /\ MaxChunks \in Nat
      /\ iteration \in 0..MaxIterations /\ progress \in Nat /\ step \in Steps
      /\ answer.calls \in 0..MaxCalls
  BY ToolLoopAssumption DEF TypeOK
<1>2. Budget(iteration) \in Nat
  BY <1>1, BudgetFacts
<1>3. CASE step = "receive"
  <2>1. iteration < MaxIterations /\ iteration + 1 \in 0..MaxIterations
    BY <1>1, <1>3 DEF Rounds
  <2>2. /\ Budget(iteration) = Budget(iteration + 1) + MaxChunks + MaxCalls + 3
        /\ Budget(iteration + 1) \in Nat
    BY <1>1, <2>1, BudgetFacts
  <2>3. Left = Budget(iteration) + 2 - progress /\ progress <= MaxChunks
    BY <1>3 DEF Left, InStep
  <2> QED
    BY <1>1, <1>3, <2>2, <2>3 DEF Over
<1>4. CASE step = "execute"
  <2>1. Left = Budget(iteration) + 4 + MaxCalls - progress /\ progress <= answer.calls
    BY <1>4 DEF Left, InStep
  <2> QED
    BY <1>1, <1>2, <1>4, <2>1 DEF Over
<1>5. CASE step = "loop"
  BY <1>2, <1>5 DEF Left, Over
<1>6. CASE step \in {"persist", "close"} \cup Over
  BY <1>6 DEF Left, Over
<1> QED
  BY <1>1, <1>3, <1>4, <1>5, <1>6 DEF Steps, Over

(* Deciding on an answer lowers the bound, whichever way it goes: a round  *)
(* of tools is paid by the rounds that are left.                           *)
LEMMA DecideLowers ==
  ASSUME TypeOK, Rounds, InStep, step = "receive",
         NEW a, Decide(a), progress' = 0
  PROVE  Left' < Left
<1>1. /\ MaxIterations \in Nat /\ MaxCalls \in Nat /\ MaxChunks \in Nat
      /\ iteration \in 0..MaxIterations /\ progress \in Nat
      /\ iteration < MaxIterations /\ progress <= MaxChunks
  BY ToolLoopAssumption DEF TypeOK, Rounds, InStep
<1>2. /\ Budget(iteration) = Budget(iteration + 1) + MaxChunks + MaxCalls + 3
      /\ Budget(iteration + 1) \in Nat
  <2>1. iteration + 1 \in 0..MaxIterations
    BY <1>1
  <2> QED
    BY <1>1, <2>1, BudgetFacts
<1>3. Left = Budget(iteration) + 2 - progress
  BY DEF Left
<1>4. CASE step' = "execute" /\ iteration' = iteration + 1
  <2>1. Budget(iteration)' = Budget(iteration + 1)
    BY <1>4 DEF Budget, Round
  <2>2. Left' = Budget(iteration + 1) + 4 + MaxCalls
    BY <1>1, <1>2, <1>4, <2>1 DEF Left
  <2> QED
    BY <1>1, <1>2, <1>3, <2>2
<1>5. CASE step' = "persist"
  <2>1. Left' = 2
    BY <1>5 DEF Left
  <2> QED
    BY <1>1, <1>2, <1>3, <2>1
<1> QED
  BY <1>4, <1>5 DEF Decide

LEMMA StepLowers ==
  ASSUME TypeOK, Rounds, InStep, Next
  PROVE  Left' < Left
<1>0. /\ MaxIterations \in Nat /\ MaxCalls \in Nat /\ MaxChunks \in Nat
      /\ iteration \in 0..MaxIterations /\ progress \in Nat
      /\ answer.calls \in 0..MaxCalls /\ Budget(iteration) \in Nat
  BY ToolLoopAssumption, BudgetFacts DEF TypeOK
<1>1. iteration' = iteration => Budget(iteration)' = Budget(iteration)
  BY DEF Budget, Round
<1>2. CASE CallEngine
  <2>1. Left = Budget(iteration) + 3 /\ Left' = Budget(iteration) + 2 - 0
    BY <1>1, <1>2 DEF CallEngine, Left
  <2> QED
    BY <1>0, <2>1
<1>3. CASE Respond \/ EndOfStream
  BY <1>3, DecideLowers DEF Respond, EndOfStream
<1>4. CASE Chunk
  <2>1. /\ Left = Budget(iteration) + 2 - progress
        /\ Left' = Budget(iteration) + 2 - (progress + 1)
    BY <1>1, <1>4 DEF Chunk, Left
  <2> QED
    BY <1>0, <2>1
<1>5. CASE Execute
  <2>1. /\ Left = Budget(iteration) + 4 + MaxCalls - progress
        /\ Left' = Budget(iteration) + 4 + MaxCalls - (progress + 1)
    BY <1>1, <1>5 DEF Execute, Left
  <2> QED
    BY <1>0, <2>1
<1>6. CASE Backfill
  <2>1. /\ Left = Budget(iteration) + 4 + MaxCalls - progress
        /\ Left' = Budget(iteration) + 3
        /\ progress = answer.calls
    BY <1>1, <1>6 DEF Backfill, Left
  <2> QED
    BY <1>0, <2>1
<1>7. CASE LimitReached
  <2>1. Left = Budget(iteration) + 3 /\ Left' = 2
    BY <1>7 DEF LimitReached, Left
  <2> QED
    BY <1>0, <2>1
<1>8. CASE Persist \/ Close
  BY <1>8 DEF Persist, Close, Left
<1>9. CASE Fail \/ Disconnect
  <2>1. step \notin Over /\ step' \in Over
    BY <1>9 DEF Fail, Disconnect, Over
  <2>2. Left' = 0
    BY <2>1 DEF Left, Over
  <2>3. Left \in Nat /\ Left # 0
    BY <2>1, LeftFacts
  <2> QED
    BY <2>2, <2>3
<1> QED
  BY <1>2, <1>3, <1>4, <1>5, <1>6, <1>7, <1>8, <1>9 DEF Next, Progress

(* What a request has left to do is a natural number, it is none exactly   *)
(* when the request is over, and every step of it, whatever the engine     *)
(* answers and the tools do, leaves less: a request has no endless run,    *)
(* and ends unless it stops being run.                                     *)
THEOREM EveryStepLowers ==
  Spec => /\ [](Left \in Nat /\ (step \in Over <=> Left = 0))
          /\ [][Left' < Left]_vars
<1>1. Init => InStep
  BY DEF Init, InStep
<1>2. TypeOK /\ Rounds /\ InStep => Left \in Nat /\ (step \in Over <=> Left = 0)
  BY LeftFacts
<1>3. TypeOK /\ Rounds /\ InStep /\ [Next]_vars => [Left' < Left]_vars
  BY StepLowers
<1> QED
  BY <1>1, <1>2, <1>3, TypeInit, TypeNext, InStepNext, PTL DEF Spec

=============================================================================
