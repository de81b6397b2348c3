------------------------------ MODULE AgentLoop ------------------------------
(***************************************************************************)
(* One run of an agent (Agent::run, chudbot-api/src/agent.rs) against a    *)
(* provider: the adapter's requests and retries, the decoding of its       *)
(* stream (ModelStreams), the collection of the step (StepCollector), the  *)
(* text-generation deadline, the concurrent execution of client tools, and *)
(* the transcript, trace, usage and continuation that the run hands over.  *)
(*                                                                         *)
(* The service answers a request with any of the Responses, in events of   *)
(* its choice, and may break off at any point.                             *)
(***************************************************************************)
EXTENDS ModelStreams

CONSTANTS
  Providers,       \* the adapters a run may go through
  Responses,       \* the responses a service may give
  EnabledTools,    \* the tools of the agent's allowlist
  MaxIterations,   \* spec.limits.max_iterations
  MaxAttempts      \* RetryPolicy::max_attempts

\* The adapters that exist; and a response is a list of items, each in parts
\* of which some were sent before its terminal event.  A tool has a name.
ASSUME ProvidersAssumption == Providers \subseteq Adapters
ASSUME ResponsesAssumption ==
  \A r \in Responses :
    /\ r.items \in Seq([type : ItemTypes, size : Nat, sent : Nat, tool : STRING])
    /\ \A i \in DOMAIN r.items : r.items[i].sent <= r.items[i].size /\ r.items[i].tool # NoName
    /\ r.paused \in BOOLEAN
ASSUME MaxIterationsAssumption == MaxIterations \in Nat
ASSUME MaxAttemptsAssumption == MaxAttempts \in Nat \ {0}

ErrorClasses == {"ServerTransient", "Network", "Permanent"}
NoRun == "none"
None == 0

VARIABLES
  provider,    \* the adapter of this run
  pc,          \* head, post, stream, collected, tools, ended
  iteration,   \* the loop's index, from 0; a step's number is iteration + 1
  attempt,     \* the stream's attempt, 'attempts loop of step
  posts,       \* the attempts of the POST, with_retry in post_json_stream
  upstream,    \* the response being streamed and the wire events to come
  decoder,     \* the decoder's state
  emitted,     \* the stream of this step has yielded an event
  deadline,    \* text_generation_deadline is set
  collector,   \* the step's collector
  running,     \* the tools' results so far, by call; "running" until then
  transcript,  \* the turns after the input, each [role, blocks]
  trace,       \* the trace: uses of server tools, and client tools' results
  modelSteps,  \* the kinds of the recorded steps
  usage,       \* the usage records
  continuation,\* final_continuation: the step that gave it, or None
  outcome      \* what the run ended with

request == <<attempt, posts, upstream, decoder, emitted, deadline, collector>>
record == <<transcript, trace, modelSteps, usage, continuation>>
vars == <<provider, pc, iteration, request, running, record, outcome>>

Step == iteration + 1
NoResponse == [items |-> << >>, paused |-> FALSE]
Idle == [response |-> NoResponse, whole |-> TRUE, wire |-> << >>]

Init ==
  /\ provider \in Providers
  /\ pc = "head" /\ iteration = 0
  /\ attempt = 1 /\ posts = 1 /\ upstream = Idle /\ decoder = << >>
  /\ emitted = FALSE /\ deadline = FALSE /\ collector = EmptyCollector
  /\ running = << >>
  /\ transcript = << >> /\ trace = << >> /\ modelSteps = << >> /\ usage = << >>
  /\ continuation = None /\ outcome = NoRun

(***************************************************************************)
(* The provider's stream.                                                  *)
(***************************************************************************)
ShouldRetry(class) == class \in {"ServerTransient", "Network"}

\* The loop's head: the next step's request, or the iteration limit.
StartStep ==
  /\ pc = "head" /\ iteration < MaxIterations
  /\ pc' = "post"
  /\ attempt' = 1 /\ posts' = 1 /\ upstream' = Idle /\ decoder' = << >>
  /\ emitted' = FALSE /\ deadline' = FALSE /\ collector' = EmptyCollector
  /\ UNCHANGED <<provider, iteration, running, record, outcome>>

\* The stream yields an error: the run's stream ends with it, and all that
\* the run has recorded is dropped with the run.
RunErrs ==
  /\ pc' = "ended" /\ outcome' = "Error"
  /\ UNCHANGED <<provider, iteration, attempt, posts, upstream, decoder, emitted, deadline,
                 collector, running, record>>

\* with_retry sends the POST again or gives up.
RetryPost(class) ==
  IF posts < MaxAttempts /\ ShouldRetry(class)
  THEN /\ pc' = "post" /\ posts' = posts + 1 /\ upstream' = Idle /\ decoder' = << >>
       /\ UNCHANGED <<provider, iteration, attempt, emitted, deadline, collector, running, record,
                      outcome>>
  ELSE RunErrs

PostFails(class) == pc = "post" /\ RetryPost(class)

\* The service accepts the request and is about to stream a response.
PostAnswers(r, whole) ==
  /\ pc = "post" /\ MayServe(provider, r)
  /\ pc' = "stream"
  /\ upstream' = [response |-> r, whole |-> whole, wire |-> Wire(provider, r, whole)]
  /\ decoder' = StartOf(provider)
  /\ UNCHANGED <<provider, iteration, attempt, posts, emitted, deadline, collector, running,
                 record, outcome>>

StreamRetries ==
  /\ pc' = "post" /\ attempt' = attempt + 1 /\ posts' = 1
  /\ upstream' = Idle /\ decoder' = << >>
  /\ UNCHANGED <<provider, iteration, emitted, deadline, collector, running, record, outcome>>

\* Mutants: the attempts are not counted up to the limit; output does not rule out a retry.
StreamFailsAtAnyAttempt(class) ==
  IF ~emitted /\ attempt <= MaxAttempts /\ ShouldRetry(class) THEN StreamRetries ELSE RunErrs
StreamFailsAfterOutput(class) ==
  IF attempt < MaxAttempts /\ ShouldRetry(class) THEN StreamRetries ELSE RunErrs

\* A failure of the stream: another attempt if nothing has been yielded yet
\* and the policy allows one.
StreamFails(class) ==
  IF ~emitted /\ attempt < MaxAttempts /\ ShouldRetry(class)
  THEN StreamRetries ELSE RunErrs

\* The decoded events are yielded one by one and pushed into the collector,
\* whose error ends the run.  The first delta sets the deadline.
Yield(out, wire) ==
  LET collected == PushAll(collector, out.events)
  IN IF collected.error # NoError
     THEN /\ collector' = collected
          /\ pc' = "ended" /\ outcome' = "Error"
          /\ UNCHANGED <<provider, iteration, attempt, posts, upstream, decoder, emitted,
                         deadline, running, record>>
     ELSE /\ collector' = collected
          /\ upstream' = [upstream EXCEPT !.wire = wire]
          /\ decoder' = out.state
          /\ emitted' = (emitted \/ out.events # << >>)
          /\ deadline' = (deadline \/ \E k \in DOMAIN out.events : IsDelta(out.events[k]))
          /\ pc' = IF out.finished THEN "collected" ELSE pc
          /\ UNCHANGED <<provider, iteration, attempt, posts, running, record, outcome>>

Receive ==
  /\ pc = "stream" /\ upstream.wire # << >>
  /\ LET out == Decode(provider, decoder, Head(upstream.wire), Step, upstream.response)
     IN IF out.error THEN StreamFails("Permanent") ELSE Yield(out, Tail(upstream.wire))

\* The service's stream is over and no event has ended the step.
StreamEnds ==
  /\ pc = "stream" /\ upstream.wire = << >>
  /\ LET out == AtEnd(provider, decoder, Step, upstream.response)
     IN IF out.error THEN StreamFails("Permanent") ELSE Yield(out, << >>)

\* The connection breaks, or the service sends an error event.  The adapter
\* that does not stream reads the whole answer within with_retry.
StreamBreaks(class) ==
  /\ pc = "stream"
  /\ IF provider = "compat" THEN RetryPost(class) ELSE StreamFails(class)

\* Mutant: reasoning does not count as generation.
DeadlinePassesOnText ==
  /\ pc = "stream" /\ deadline /\ \E k \in DOMAIN collector.slots : collector.slots[k].type = "Text"
  /\ pc' = "ended" /\ outcome' = "Failed"
  /\ UNCHANGED <<provider, iteration, request, running, record>>

\* The deadline passes while the agent awaits the next event: the run ends
\* with what the earlier steps recorded.
DeadlinePasses ==
  /\ pc = "stream" /\ deadline
  /\ pc' = "ended" /\ outcome' = "Failed"
  /\ UNCHANGED <<provider, iteration, request, running, record>>

(***************************************************************************)
(* The collected step is folded into the transcript and the records.       *)
(***************************************************************************)
Collected == StepOf(collector)

TranscriptBlocks(step) == Only(step.items, {"Text", "Call", "Continuation"})
AnswerBlocks(step) == Only(step.items, {"Text"})
CallsIn(blocks) == Only(blocks, {"Call"})
Calls == CallsIn(TranscriptBlocks(Collected))

LastContinuation(step) ==
  LET all == Only(step.items, {"Continuation"})
  IN IF all = << >> THEN None ELSE Last(all).of

AppendTurn(turns, role, blocks) == Append(turns, [role |-> role, blocks |-> blocks])
\* append_assistant_step: an empty step adds no turn.
AppendAssistantStep(turns, step) ==
  IF TranscriptBlocks(step) = << >> THEN turns
  ELSE AppendTurn(turns, "assistant", TranscriptBlocks(step))

\* Mutant: the usage of a step that goes on is not kept.
RecordStepOnceDone(step) ==
  /\ modelSteps' = Append(modelSteps, step.kind)
  /\ usage' = IF step.kind = "Continue" THEN usage ELSE usage \o step.usage
  /\ trace' = trace \o Only(step.items, {"ServerToolUse"})
  /\ continuation' = LastContinuation(step)

\* What every kind of step records.
RecordStep(step) ==
  /\ modelSteps' = Append(modelSteps, step.kind)
  /\ usage' = usage \o step.usage
  /\ trace' = trace \o Only(step.items, {"ServerToolUse"})
  /\ continuation' = LastContinuation(step)

StepReady(kind) ==
  /\ pc = "collected" /\ FinishError(collector) = NoError
  /\ Collected.kind = kind

\* collector.finish refuses the step.
StepRefused ==
  /\ pc = "collected" /\ FinishError(collector) # NoError
  /\ RunErrs

FinalStep ==
  /\ StepReady("Final")
  /\ RecordStep(Collected)
  /\ transcript' = AppendTurn(transcript, "assistant", AnswerBlocks(Collected))
  /\ pc' = "ended" /\ outcome' = "Completed"
  /\ UNCHANGED <<provider, iteration, request, running>>

ContinueStep ==
  /\ StepReady("Continue")
  /\ RecordStep(Collected)
  /\ transcript' = AppendAssistantStep(transcript, Collected)
  /\ pc' = "head" /\ iteration' = iteration + 1
  /\ UNCHANGED <<provider, request, running, outcome>>

\* The calls are dispatched together; one to a tool outside the allowlist is
\* an error that the model is told of.
ClientToolsStep ==
  /\ StepReady("ClientTools")
  /\ RecordStep(Collected)
  /\ transcript' = AppendAssistantStep(transcript, Collected)
  /\ running' = [k \in DOMAIN Calls |-> IF Calls[k].name \in EnabledTools THEN "running" ELSE "error"]
  /\ pc' = "tools"
  /\ UNCHANGED <<provider, iteration, request, outcome>>

\* A tool returns or fails, in any order among the calls.
ToolReturns(k, result) ==
  /\ pc = "tools" /\ k \in DOMAIN running /\ running[k] = "running"
  /\ running' = [running EXCEPT ![k] = result]
  /\ UNCHANGED <<provider, pc, iteration, request, record, outcome>>

\* All have returned: the results become the next user turn, in the order of
\* the calls.
ResultOf(k) == [type |-> "Result", id |-> Calls[k].id, is |-> running[k]]
\* Mutant: failures are not reported to the model.
ResultsOfSuccesses ==
  SelectSeq([k \in DOMAIN Calls |-> ResultOf(k)], LAMBDA result : result.is = "ok")
Results == [k \in DOMAIN Calls |-> ResultOf(k)]

ToolsFinish ==
  /\ pc = "tools" /\ \A k \in DOMAIN running : running[k] # "running"
  /\ trace' = trace \o Results
  /\ transcript' = AppendTurn(transcript, "user", Results)
  /\ pc' = "head" /\ iteration' = iteration + 1
  /\ running' = << >>
  /\ UNCHANGED <<provider, request, modelSteps, usage, continuation, outcome>>

\* Mutant: the limit is reached one step early.
LimitReachedEarly ==
  /\ pc = "head" /\ iteration + 1 >= MaxIterations
  /\ pc' = "ended" /\ outcome' = "IterationLimit"
  /\ UNCHANGED <<provider, iteration, request, running, record>>

LimitReached ==
  /\ pc = "head" /\ iteration = MaxIterations
  /\ pc' = "ended" /\ outcome' = "IterationLimit"
  /\ UNCHANGED <<provider, iteration, request, running, record>>

Next ==
  \/ StartStep
  \/ \E class \in ErrorClasses : PostFails(class) \/ StreamBreaks(class)
  \/ \E r \in Responses, whole \in BOOLEAN : PostAnswers(r, whole)
  \/ Receive \/ StreamEnds \/ DeadlinePasses
  \/ StepRefused \/ FinalStep \/ ContinueStep \/ ClientToolsStep
  \/ \E k \in DOMAIN running, result \in {"ok", "error"} : ToolReturns(k, result)
  \/ ToolsFinish \/ LimitReached
  \/ pc = "ended" /\ UNCHANGED vars

\* Only the timer is promised: the service may stall anywhere.
Spec == Init /\ [][Next]_vars /\ WF_vars(DeadlinePasses)

(***************************************************************************)
(* Properties.                                                             *)
(***************************************************************************)
Kinds == {"Final", "Continue", "ClientTools"}
Outcomes == {"Completed", "IterationLimit", "Failed", "Error"}

\* The types of the loop's own variables: a step is collected by at most
\* MaxAttempts streams of at most MaxAttempts requests each, the deadline is
\* set only once something has been yielded, and only a run that is over has
\* an outcome.
TypeOK ==
  /\ provider \in Providers
  /\ pc \in {"head", "post", "stream", "collected", "tools", "ended"}
  /\ iteration \in 0..MaxIterations
  /\ attempt \in 1..MaxAttempts /\ posts \in 1..MaxAttempts
  /\ emitted \in BOOLEAN /\ deadline \in BOOLEAN /\ (deadline => emitted)
  /\ \A k \in DOMAIN running : running[k] \in {"running", "ok", "error"}
  /\ \A n \in DOMAIN modelSteps : modelSteps[n] \in Kinds
  /\ outcome \in Outcomes \cup {NoRun} /\ (outcome = NoRun <=> pc # "ended")

\* The text and the calls of a collected step, and of a response.
TextIn(step) ==
  LET texts == AnswerBlocks(step) IN FlattenSeq([k \in DOMAIN texts |-> texts[k].data])
Count(s, x) == Cardinality({k \in DOMAIN s : s[k] = x})
CallsSent(r) ==
  [k \in DOMAIN Of(r, "call") |->
     [name |-> r.items[Of(r, "call")[k]].tool, input |-> ArgumentsOf(r, Of(r, "call")[k])]]
CallsCollected == [k \in DOMAIN Calls |-> [name |-> Calls[k].name, input |-> Calls[k].data]]

\* Gemini numbers the calls of each chunk from 0: calls of two chunks share
\* an item id.
SharesItemIds ==
  provider = "gemini" /\ ~upstream.whole /\ Len(Of(upstream.response, "call")) > 1

\* A step that the agent acts on is one response of the service: whatever was
\* retried, and whichever parts were streamed or only came with the terminal
\* event, its text is the response's text, once and in order, and its calls
\* are the response's calls, each once with its whole arguments.
StepIsOneResponse ==
  pc = "collected" /\ FinishError(collector) = NoError /\ ~IsCut(upstream.response) =>
    /\ TextIn(Collected) = TextOf(upstream.response)
    /\ Len(Calls) = Len(Of(upstream.response, "call"))
    /\ \A k \in DOMAIN CallsCollected :
         Count(CallsCollected, CallsCollected[k]) = Count(CallsSent(upstream.response), CallsCollected[k])

Refused == collector.error # NoError \/ (pc = "collected" /\ FinishError(collector) # NoError)

\* A response that the token limit did not cut is never refused by the
\* collector, unless it is Gemini's and has calls in two chunks: these are
\* taken for one item with two ids, or for one call with two inputs.
ResponsesAreAccepted == Refused => SharesItemIds \/ IsCut(upstream.response)

\* In the transcript that a run hands to the next step and to its caller,
\* every client tool call is answered by the turn after it, with one result
\* per call in the order of the calls, failed and disallowed calls included.
IdsOf(blocks) == [k \in DOMAIN blocks |-> blocks[k].id]
CallsAreAnswered ==
  \A n \in DOMAIN transcript :
    LET calls == CallsIn(transcript[n].blocks)
    IN calls # << >> =>
         IF n < Len(transcript)
         THEN /\ transcript[n + 1].role = "user"
              /\ IdsOf(transcript[n + 1].blocks) = IdsOf(calls)
         ELSE pc = "tools" \/ outcome = "Error"

\* The records that are stored with a turn agree with its transcript: a
\* model step and a usage record for every completed step, even when the run
\* ends in the middle of a later one, and the results in the trace are those
\* in the transcript.
StepsDone == iteration + (IF pc = "tools" \/ outcome = "Completed" THEN 1 ELSE 0)
ResultsIn(turns) ==
  FlattenSeq([n \in DOMAIN turns |-> Only(turns[n].blocks, {"Result"})])
AuditMatchesTranscript ==
  /\ Len(modelSteps) = StepsDone
  /\ Len(usage) = StepsDone
  /\ Only(trace, {"Result"}) = ResultsIn(transcript)

\* A run ends with its first final step and is completed only by one; the
\* iteration limit is reported exactly when that many steps went by without
\* one.
OutcomeMatchesSteps ==
  /\ \A n \in DOMAIN modelSteps :
       modelSteps[n] = "Final" => n = Len(modelSteps) /\ outcome = "Completed"
  /\ outcome = "Completed" => modelSteps # << >> /\ Last(modelSteps) = "Final"
  /\ outcome = "IterationLimit" => Len(modelSteps) = MaxIterations

\* Once a step's first text, reasoning or call has arrived, the step is over
\* eventually, even if the service never sends another byte.
GenerationEnds == (pc = "stream" /\ deadline) ~> (pc # "stream")
=============================================================================
