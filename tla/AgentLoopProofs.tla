--------------------------- MODULE AgentLoopProofs ---------------------------
(***************************************************************************)
(* Proofs about the agent loop: the types of its variables; that a run's   *)
(* outcome is the one its recorded steps call for; that every call in its  *)
(* transcript is answered; and that its records agree with the transcript. *)
(*                                                                         *)
(* The last two need to know what any provider's stream makes of a step:   *)
(* its items, then one usage record and the event that finishes it, with   *)
(* no client tool call in a step that is to go on by itself.  Most of this *)
(* module establishes that, decoder by decoder.                            *)
(***************************************************************************)
EXTENDS AgentLoop, SequenceLemmas

(***************************************************************************)
(* What the loop's head relies on: outside of the head and of the end the  *)
(* iterations are not used up, and the recorded steps are exactly those    *)
(* that the loop has gone through.  Only the second makes the outcome      *)
(* IterationLimit truthful, since the head looks at the index alone.       *)
(***************************************************************************)
Unrecorded == {"post", "stream", "collected", "tools"}
StepsInv ==
  /\ modelSteps \in Seq(Kinds)
  /\ pc \in Unrecorded => iteration < MaxIterations
  /\ Len(modelSteps) = StepsDone

IInv == TypeOK /\ StepsInv /\ OutcomeMatchesSteps

LEMMA InitTypes == Init => TypeOK
<1> SUFFICES ASSUME Init PROVE TypeOK
  OBVIOUS
<1>1. iteration \in 0..MaxIterations /\ attempt \in 1..MaxAttempts /\ posts \in 1..MaxAttempts
  BY MaxIterationsAssumption, MaxAttemptsAssumption DEF Init
<1>2. DOMAIN running = {} /\ DOMAIN modelSteps = {}
  BY DEF Init
<1> QED BY <1>1, <1>2 DEF Init, TypeOK, Outcomes, NoRun

LEMMA InitSteps == Init => StepsInv /\ OutcomeMatchesSteps
  BY DEF Init, StepsInv, OutcomeMatchesSteps, StepsDone, Unrecorded, NoRun

\* An outcome of the run while a step is under way: nothing is recorded.
LEMMA AbandonsTheStep ==
  ASSUME IInv, pc \in {"post", "stream", "collected"},
         UNCHANGED <<provider, iteration, attempt, posts, emitted, deadline, running, record>>,
         pc' = "ended", outcome' \in {"Error", "Failed"}
  PROVE  IInv'
  BY DEF IInv, TypeOK, StepsInv, OutcomeMatchesSteps, StepsDone, record, NoRun, Outcomes,
         Unrecorded

\* A move within a step: the stream's own variables change, and the loop goes
\* on, with nothing recorded.
LEMMA StaysInTheStep ==
  ASSUME IInv, pc \in {"head", "post", "stream"}, iteration < MaxIterations,
         pc' \in {"post", "stream", "collected"},
         UNCHANGED <<provider, iteration, running, record, outcome>>,
         attempt' \in 1..MaxAttempts, posts' \in 1..MaxAttempts,
         emitted' \in BOOLEAN, deadline' \in BOOLEAN, deadline' => emitted'
  PROVE  IInv'
  BY DEF IInv, TypeOK, StepsInv, OutcomeMatchesSteps, StepsDone, record, NoRun, Outcomes,
         Unrecorded

LEMMA StartStepKeeps == IInv /\ StartStep => IInv'
<1> SUFFICES ASSUME IInv, StartStep PROVE IInv'
  OBVIOUS
<1>1. 1 \in 1..MaxAttempts
  BY MaxAttemptsAssumption
<1>2. /\ pc = "head" /\ iteration < MaxIterations /\ pc' = "post" /\ attempt' = 1 /\ posts' = 1
      /\ emitted' = FALSE /\ deadline' = FALSE
      /\ UNCHANGED <<provider, iteration, running, record, outcome>>
  BY DEF StartStep
<1>3. emitted' \in BOOLEAN /\ deadline' \in BOOLEAN /\ (deadline' => emitted')
  BY <1>2
<1> QED BY <1>1, <1>2, <1>3, StaysInTheStep

LEMMA RunErrsKeeps == IInv /\ pc \in {"post", "stream", "collected"} /\ RunErrs => IInv'
  BY AbandonsTheStep DEF RunErrs

LEMMA RetryPostKeeps ==
  ASSUME NEW class, IInv, pc \in {"post", "stream"}, RetryPost(class)
  PROVE  IInv'
<1>1. CASE posts < MaxAttempts /\ ShouldRetry(class)
  <2>1. /\ pc' = "post" /\ posts' = posts + 1
        /\ UNCHANGED <<provider, iteration, attempt, emitted, deadline, running, record, outcome>>
    BY <1>1 DEF RetryPost
  <2>2. posts' \in 1..MaxAttempts
    BY <1>1, <2>1, MaxAttemptsAssumption DEF IInv, TypeOK
  <2> QED BY <2>1, <2>2, StaysInTheStep DEF IInv, TypeOK, StepsInv, Unrecorded
<1>2. CASE ~(posts < MaxAttempts /\ ShouldRetry(class))
  BY <1>2, RunErrsKeeps DEF RetryPost
<1> QED BY <1>1, <1>2

LEMMA StreamFailsKeeps ==
  ASSUME NEW class, IInv, pc = "stream", StreamFails(class)
  PROVE  IInv'
<1>1. CASE ~emitted /\ attempt < MaxAttempts /\ ShouldRetry(class)
  BY <1>1, StaysInTheStep, MaxAttemptsAssumption
  DEF StreamFails, StreamRetries, IInv, TypeOK, StepsInv, Unrecorded
<1>2. CASE ~(~emitted /\ attempt < MaxAttempts /\ ShouldRetry(class))
  BY <1>2, RunErrsKeeps DEF StreamFails
<1> QED BY <1>1, <1>2

LEMMA PostAnswersKeeps ==
  ASSUME NEW r, NEW whole, IInv, PostAnswers(r, whole)
  PROVE  IInv'
  BY StaysInTheStep DEF PostAnswers, IInv, TypeOK, StepsInv, Unrecorded

\* A stream that has yielded a delta has yielded something.
LEMMA YieldKeeps ==
  ASSUME NEW out, NEW wire, IInv, pc = "stream", Yield(out, wire)
  PROVE  IInv'
<1> DEFINE collected == PushAll(collector, out.events)
<1> HIDE DEF collected
<1>1. CASE collected.error # NoError
  BY <1>1, AbandonsTheStep DEF Yield, collected
<1>2. CASE collected.error = NoError
  <2>1. /\ emitted' = (emitted \/ out.events # << >>)
        /\ deadline' = (deadline \/ \E k \in DOMAIN out.events : IsDelta(out.events[k]))
        /\ pc' = IF out.finished THEN "collected" ELSE pc
        /\ UNCHANGED <<provider, iteration, attempt, posts, running, record, outcome>>
    BY <1>2 DEF Yield, collected
  <2>2. out.events = << >> => ~\E k \in DOMAIN out.events : IsDelta(out.events[k])
    OBVIOUS
  <2>3. emitted' \in BOOLEAN /\ deadline' \in BOOLEAN /\ (deadline' => emitted')
    BY <2>1, <2>2 DEF IInv, TypeOK
  <2>4. pc' \in {"stream", "collected"}
    BY <2>1
  <2> QED BY <2>1, <2>3, <2>4, StaysInTheStep DEF IInv, TypeOK, StepsInv, Unrecorded
<1> QED BY <1>1, <1>2

LEMMA ReceiveKeeps == IInv /\ (Receive \/ StreamEnds) => IInv'
<1> SUFFICES ASSUME IInv, Receive \/ StreamEnds PROVE IInv'
  OBVIOUS
<1>1. CASE Receive
  BY <1>1, YieldKeeps, StreamFailsKeeps DEF Receive
<1>2. CASE StreamEnds
  BY <1>2, YieldKeeps, StreamFailsKeeps DEF StreamEnds
<1> QED BY <1>1, <1>2

\* A collected step is recorded: its kind is appended.  The run goes on with
\* the tools, with the next iteration, or is over.
LEMMA RecordingKeepsTheSteps ==
  ASSUME NEW kind \in Kinds, IInv, pc = "collected",
         modelSteps' = Append(modelSteps, kind),
         \/ kind = "Final" /\ pc' = "ended" /\ outcome' = "Completed" /\ iteration' = iteration
         \/ kind = "Continue" /\ pc' = "head" /\ outcome' = outcome /\ iteration' = iteration + 1
         \/ kind = "ClientTools" /\ pc' = "tools" /\ outcome' = outcome /\ iteration' = iteration
  PROVE  /\ StepsInv' /\ OutcomeMatchesSteps'
         /\ iteration' \in 0..MaxIterations
         /\ \A n \in DOMAIN modelSteps' : modelSteps'[n] \in Kinds
         /\ pc' \in {"head", "tools", "ended"}
         /\ outcome' \in Outcomes \cup {NoRun} /\ (outcome' = NoRun <=> pc' # "ended")
<1> DEFINE steps == modelSteps
<1>0. steps \in Seq(Kinds) /\ steps' = Append(steps, kind)
  BY DEF IInv, StepsInv
<1>1. /\ steps' \in Seq(Kinds) /\ Len(steps') = Len(steps) + 1
      /\ steps'[Len(steps')] = kind
      /\ \A n \in 1..Len(steps) : steps'[n] = steps[n]
  <2> HIDE DEF steps
  <2> QED BY <1>0
<1>2. iteration \in Nat /\ iteration < MaxIterations /\ outcome = NoRun
  BY MaxIterationsAssumption DEF IInv, TypeOK, StepsInv, Unrecorded
<1>3. \A n \in 1..Len(steps) : steps[n] # "Final"
  BY <1>0, <1>2 DEF IInv, OutcomeMatchesSteps, NoRun
<1>4. Len(steps) = iteration
  BY <1>2 DEF IInv, StepsInv, StepsDone, NoRun
<1>5. StepsInv'
  <2>1. Len(modelSteps') = StepsDone'
    BY <1>1, <1>2, <1>4 DEF StepsDone, NoRun
  <2> QED BY <1>1, <1>2, <2>1 DEF StepsInv, Unrecorded
<1>6. OutcomeMatchesSteps'
  <2>1. ASSUME NEW n \in DOMAIN modelSteps', modelSteps'[n] = "Final"
        PROVE  n = Len(modelSteps') /\ outcome' = "Completed"
    <3>1. n \in 1..Len(steps) + 1
      BY <2>1, <1>1
    <3>2. n = Len(steps')
      BY <1>1, <1>3, <2>1, <3>1
    <3> QED BY <1>1, <2>1, <3>2
  <2>2. outcome' = "Completed" => modelSteps' # << >> /\ Last(modelSteps') = "Final"
    BY <1>1, <1>2 DEF Last, NoRun
  <2>3. outcome' # "IterationLimit"
    BY <1>2 DEF NoRun
  <2> QED BY <2>1, <2>2, <2>3 DEF OutcomeMatchesSteps
<1>7. \A n \in DOMAIN modelSteps' : modelSteps'[n] \in Kinds
  BY <1>1
<1>8. outcome' \in Outcomes \cup {NoRun} /\ (outcome' = NoRun <=> pc' # "ended")
  BY <1>2 DEF Outcomes, NoRun
<1> QED BY <1>2, <1>5, <1>6, <1>7, <1>8, MaxIterationsAssumption

LEMMA FinalStepKeeps == IInv /\ FinalStep => IInv'
<1> SUFFICES ASSUME IInv, FinalStep PROVE IInv'
  OBVIOUS
<1>1. modelSteps' = Append(modelSteps, "Final")
  BY DEF FinalStep, StepReady, RecordStep
<1> QED BY <1>1, RecordingKeepsTheSteps DEF FinalStep, StepReady, Kinds, IInv, TypeOK, request

LEMMA ContinueStepKeeps == IInv /\ ContinueStep => IInv'
<1> SUFFICES ASSUME IInv, ContinueStep PROVE IInv'
  OBVIOUS
<1>1. modelSteps' = Append(modelSteps, "Continue")
  BY DEF ContinueStep, StepReady, RecordStep
<1> QED BY <1>1, RecordingKeepsTheSteps DEF ContinueStep, StepReady, Kinds, IInv, TypeOK, request

LEMMA ClientToolsStepKeeps == IInv /\ ClientToolsStep => IInv'
<1> SUFFICES ASSUME IInv, ClientToolsStep PROVE IInv'
  OBVIOUS
<1>1. modelSteps' = Append(modelSteps, "ClientTools")
  BY DEF ClientToolsStep, StepReady, RecordStep
<1>2. \A k \in DOMAIN running' : running'[k] \in {"running", "ok", "error"}
  BY DEF ClientToolsStep
<1> QED
  BY <1>1, <1>2, RecordingKeepsTheSteps
  DEF ClientToolsStep, StepReady, Kinds, IInv, TypeOK, request

LEMMA ToolReturnsKeeps ==
  ASSUME NEW k \in DOMAIN running, NEW result \in {"ok", "error"}, IInv, ToolReturns(k, result)
  PROVE  IInv'
<1>1. \A j \in DOMAIN running' : running'[j] \in {"running", "ok", "error"}
  BY DEF ToolReturns, IInv, TypeOK
<1> QED
  BY <1>1 DEF ToolReturns, IInv, TypeOK, StepsInv, OutcomeMatchesSteps, StepsDone, request, record

LEMMA ToolsFinishKeeps == IInv /\ ToolsFinish => IInv'
  BY MaxIterationsAssumption
  DEF ToolsFinish, IInv, TypeOK, StepsInv, OutcomeMatchesSteps, StepsDone, request, Unrecorded,
      NoRun

LEMMA LimitReachedKeeps == IInv /\ LimitReached => IInv'
  BY MaxIterationsAssumption
  DEF LimitReached, IInv, TypeOK, StepsInv, OutcomeMatchesSteps, StepsDone, request, record,
      Unrecorded, NoRun, Outcomes

LEMMA DeadlinePassesKeeps == IInv /\ DeadlinePasses => IInv'
  BY AbandonsTheStep DEF DeadlinePasses, request

LEMMA StutterKeeps == IInv /\ UNCHANGED vars => IInv'
  BY DEF vars, request, record, IInv, TypeOK, StepsInv, OutcomeMatchesSteps, StepsDone

LEMMA NextKeeps == IInv /\ [Next]_vars => IInv'
<1> SUFFICES ASSUME IInv, [Next]_vars PROVE IInv'
  OBVIOUS
<1>1. CASE StartStep
  BY <1>1, StartStepKeeps
<1>2. ASSUME NEW class \in ErrorClasses, PostFails(class) \/ StreamBreaks(class) PROVE IInv'
  BY <1>2, RetryPostKeeps, StreamFailsKeeps DEF PostFails, StreamBreaks
<1>3. ASSUME NEW r \in Responses, NEW whole \in BOOLEAN, PostAnswers(r, whole) PROVE IInv'
  BY <1>3, PostAnswersKeeps
<1>4. CASE Receive \/ StreamEnds
  BY <1>4, ReceiveKeeps
<1>5. CASE DeadlinePasses
  BY <1>5, DeadlinePassesKeeps
<1>6. CASE StepRefused
  BY <1>6, RunErrsKeeps DEF StepRefused
<1>7. CASE FinalStep
  BY <1>7, FinalStepKeeps
<1>8. CASE ContinueStep
  BY <1>8, ContinueStepKeeps
<1>9. CASE ClientToolsStep
  BY <1>9, ClientToolsStepKeeps
<1>10. ASSUME NEW k \in DOMAIN running, NEW result \in {"ok", "error"}, ToolReturns(k, result)
       PROVE  IInv'
  BY <1>10, ToolReturnsKeeps
<1>11. CASE ToolsFinish
  BY <1>11, ToolsFinishKeeps
<1>12. CASE LimitReached
  BY <1>12, LimitReachedKeeps
<1>13. CASE UNCHANGED vars
  BY <1>13, StutterKeeps
<1> QED
  BY <1>1, <1>2, <1>3, <1>4, <1>5, <1>6, <1>7, <1>8, <1>9, <1>10, <1>11, <1>12, <1>13 DEF Next

LEMMA Invariance == Spec => []IInv
<1>1. Init => IInv
  BY InitTypes, InitSteps DEF IInv
<1> QED BY <1>1, NextKeeps, PTL DEF Spec

\* The loop's variables keep their types: the attempts stay within the retry
\* policy's limit (with_retry and 'attempts of the adapters), and a deadline
\* is only ever set once the stream has yielded something.
THEOREM TypesHold == Spec => []TypeOK
<1>1. IInv => TypeOK
  BY DEF IInv
<1> QED BY <1>1, Invariance, PTL

\* For every provider, every service and every limit, a run ends with its
\* first final step and is completed only by one, and Agent::run reports the
\* iteration limit exactly when that many steps went by without one.
THEOREM OutcomeHolds == Spec => []OutcomeMatchesSteps
<1>1. IInv => OutcomeMatchesSteps
  BY DEF IInv
<1> QED BY <1>1, Invariance, PTL

(***************************************************************************)
(* The elements of a sequence that are in a set, and the items of some     *)
(* types.                                                                  *)
(***************************************************************************)

Pieces(s, T) == [n \in DOMAIN s |-> IF s[n] \in T THEN <<s[n]>> ELSE << >>]

LEMMA PiecesType ==
  ASSUME NEW S, NEW s \in Seq(S), NEW T
  PROVE  /\ Pieces(s, T) \in Seq(Seq(S \cap T))
         /\ Pieces(s, T) \in Seq(Seq(S))
         /\ Len(Pieces(s, T)) = Len(s)
<1>1. \A n \in 1 .. Len(s) : Pieces(s, T)[n] \in Seq(S \cap T) /\ Pieces(s, T)[n] \in Seq(S)
  <2> SUFFICES ASSUME NEW n \in 1 .. Len(s)
               PROVE  Pieces(s, T)[n] \in Seq(S \cap T) /\ Pieces(s, T)[n] \in Seq(S)
    OBVIOUS
  <2>1. s[n] \in S /\ n \in DOMAIN s
    OBVIOUS
  <2>2. CASE s[n] \in T
    <3>1. Pieces(s, T)[n] = <<s[n]>>
      BY <2>1, <2>2 DEF Pieces
    <3> QED BY <2>1, <2>2, <3>1
  <2>3. CASE s[n] \notin T
    BY <2>1, <2>3 DEF Pieces
  <2> QED BY <2>2, <2>3
<1>2. DOMAIN Pieces(s, T) = 1 .. Len(s) /\ Pieces(s, T) = [n \in 1 .. Len(s) |-> Pieces(s, T)[n]]
  BY DEF Pieces
<1>3. Len(s) \in Nat
  OBVIOUS
<1> DEFINE f == Pieces(s, T)
<1> HIDE DEF f
<1>4. f \in [1 .. Len(s) -> Seq(S \cap T)] /\ f \in [1 .. Len(s) -> Seq(S)]
  BY <1>1, <1>2 DEF f
<1> QED BY <1>3, <1>4 DEF f

LEMMA WithinElements ==
  ASSUME NEW S, NEW s \in Seq(S), NEW T
  PROVE  /\ Within(s, T) \in Seq(S) /\ Within(s, T) \in Seq(S \cap T)
         /\ \A x : x \in ToSet(Within(s, T)) <=> x \in ToSet(s) /\ x \in T
<1>1. Within(s, T) = FlattenSeq(Pieces(s, T))
  BY DEF Within, Pieces
<1>2. Within(s, T) \in Seq(S \cap T)
  BY <1>1, PiecesType, FlattenOf
<1>3. Within(s, T) \in Seq(S)
  BY <1>1, PiecesType, FlattenOf
<1>4. ASSUME NEW x
      PROVE  (\E i \in DOMAIN Pieces(s, T) : x \in ToSet(Pieces(s, T)[i])) <=> x \in ToSet(s) /\ x \in T
  <2>1. ASSUME NEW i \in DOMAIN s PROVE x \in ToSet(Pieces(s, T)[i]) <=> x = s[i] /\ s[i] \in T
    <3>1. CASE s[i] \in T
      <4>1. Pieces(s, T)[i] = <<s[i]>>
        BY <3>1 DEF Pieces
      <4> QED BY <3>1, <4>1 DEF ToSet
    <3>2. CASE s[i] \notin T
      <4>1. Pieces(s, T)[i] = << >>
        BY <3>2 DEF Pieces
      <4> QED BY <3>2, <4>1 DEF ToSet
    <3> QED BY <3>1, <3>2
  <2>2. DOMAIN Pieces(s, T) = DOMAIN s
    BY DEF Pieces
  <2> QED BY <2>1, <2>2 DEF ToSet
<1> QED BY <1>1, <1>2, <1>3, <1>4, PiecesType, FlattenOf

LEMMA WithinConcat ==
  ASSUME NEW S, NEW s \in Seq(S), NEW t \in Seq(S), NEW T
  PROVE  Within(s \o t, T) = Within(s, T) \o Within(t, T)
<1> DEFINE p == Pieces(s, T)
           q == Pieces(t, T)
           r == Pieces(s \o t, T)
<1>1. p \in Seq(Seq(S)) /\ q \in Seq(Seq(S)) /\ Len(p) = Len(s) /\ Len(q) = Len(t)
  BY PiecesType
<1>2. s \o t \in Seq(S) /\ Len(s \o t) = Len(s) + Len(t) /\ Len(s) \in Nat /\ Len(t) \in Nat
      /\ DOMAIN s = 1 .. Len(s) /\ DOMAIN t = 1 .. Len(t) /\ DOMAIN (s \o t) = 1 .. Len(s) + Len(t)
      /\ \A i \in 1 .. Len(s) + Len(t) : (s \o t)[i] = IF i <= Len(s) THEN s[i] ELSE t[i - Len(s)]
  BY ConcatProperties, LenProperties
<1>3. r \in Seq(Seq(S)) /\ Len(r) = Len(s) + Len(t)
  BY <1>2, PiecesType
<1>4. \A i \in 1 .. Len(s) : r[i] = p[i]
  BY <1>2 DEF Pieces
<1>5. \A i \in 1 .. Len(t) : r[i + Len(s)] = q[i]
  <2> SUFFICES ASSUME NEW i \in 1 .. Len(t) PROVE r[i + Len(s)] = q[i]
    OBVIOUS
  <2>1. i + Len(s) \in DOMAIN (s \o t) /\ (s \o t)[i + Len(s)] = t[i]
    BY <1>2
  <2>2. r[i + Len(s)] = IF (s \o t)[i + Len(s)] \in T THEN <<(s \o t)[i + Len(s)]>> ELSE << >>
    BY ONLY <2>1 DEF Pieces, r
  <2>3. q[i] = IF t[i] \in T THEN <<t[i]>> ELSE << >>
    BY ONLY <1>2, <2>1 DEF Pieces, q
  <2> QED BY ONLY <2>1, <2>2, <2>3
<1> HIDE DEF p, q, r
<1>6. r = p \o q
  <2> DEFINE SS == Seq(S)
  <2>0. p \in Seq(SS) /\ q \in Seq(SS) /\ r \in Seq(SS)
    BY <1>1, <1>3
  <2> HIDE DEF SS
  <2>1. p \o q \in Seq(SS) /\ Len(p \o q) = Len(s) + Len(t)
    <3>1. p \o q \in Seq(SS) /\ Len(p \o q) = Len(p) + Len(q)
      BY ONLY <2>0, ConcatProperties
    <3> QED BY ONLY <1>1, <3>1
  <2>2. ASSUME NEW i \in 1 .. Len(s) + Len(t) PROVE r[i] = (p \o q)[i]
    <3>1. CASE i <= Len(s)
      <4>1. i \in 1 .. Len(p) + Len(q) /\ i <= Len(p) /\ i \in 1 .. Len(s)
        BY <1>1, <1>2, <2>2, <3>1
      <4>2. (p \o q)[i] = IF i <= Len(p) THEN p[i] ELSE q[i - Len(p)]
        BY ONLY <2>0, <4>1, ConcatProperties
      <4> QED BY ONLY <1>4, <4>1, <4>2
    <3>2. CASE i > Len(s)
      <4>1. i - Len(s) \in 1 .. Len(t) /\ i - Len(s) + Len(s) = i
        BY <1>2, <3>2
      <4>2. (p \o q)[i] = q[i - Len(s)]
        <5>1. i \in Int /\ Len(s) \in Nat /\ Len(p) = Len(s) /\ ~(i <= Len(p)) /\ i \in 1 .. Len(p) + Len(q)
          BY <1>1, <1>2, <2>2, <3>2
        <5>2. (p \o q)[i] = IF i <= Len(p) THEN p[i] ELSE q[i - Len(p)]
          BY ONLY <2>0, <5>1, ConcatProperties
        <5> QED BY ONLY <5>1, <5>2
      <4>3. r[i - Len(s) + Len(s)] = q[i - Len(s)]
        BY ONLY <1>5, <4>1
      <4> QED BY <4>1, <4>2, <4>3
    <3>3. i <= Len(s) \/ i > Len(s)
      BY <1>2
    <3> QED BY ONLY <3>1, <3>2, <3>3
  <2> QED BY ONLY <1>2, <1>3, <2>0, <2>1, <2>2, SeqEqual
<1>7. FlattenSeq(r) = FlattenSeq(p) \o FlattenSeq(q)
  BY <1>1, <1>6, FlattenConcat
<1> QED BY <1>7 DEF Within, Pieces, p, q, r

\* Only the elements count.
LEMMA WithinSame ==
  ASSUME NEW s, NEW T, NEW U, \A n \in DOMAIN s : s[n] \in T <=> s[n] \in U
  PROVE  Within(s, T) = Within(s, U)
<1>1. Pieces(s, T) = Pieces(s, U)
  BY DEF Pieces
<1> QED BY <1>1 DEF Within, Pieces

LEMMA WithinNone ==
  ASSUME NEW S, NEW s \in Seq(S), NEW T, \A n \in DOMAIN s : s[n] \notin T
  PROVE  Within(s, T) = << >>
<1>1. \A x : x \notin ToSet(Within(s, T))
  <2>1. \A x \in ToSet(s) : x \notin T
    BY DEF ToSet
  <2>2. \A x : x \in ToSet(Within(s, T)) <=> x \in ToSet(s) /\ x \in T
    BY WithinElements
  <2> QED BY ONLY <2>1, <2>2
<1>2. Within(s, T) \in Seq(S)
  BY WithinElements
<1> DEFINE w == Within(s, T)
<1>3. w \in Seq(S) /\ \A x : x \notin ToSet(w)
  BY <1>1, <1>2
<1> HIDE DEF w
<1>4. w # << >> => w[1] \in ToSet(w)
  <2>1. w # << >> => 1 \in DOMAIN w
    BY ONLY <1>3
  <2>2. w[1] \in {w[n] : n \in DOMAIN w} <=> \E n \in DOMAIN w : w[1] = w[n]
    OBVIOUS
  <2> QED BY ONLY <2>1, <2>2 DEF ToSet
<1>5. w = << >>
  BY ONLY <1>3, <1>4
<1> QED BY <1>5 DEF w

LEMMA WithinOne ==
  ASSUME NEW x, NEW T
  PROVE  Within(<<x>>, T) = IF x \in T THEN <<x>> ELSE << >>
<1>1. <<x>> \in Seq({x}) /\ << >> \in Seq({x}) /\ Len(<<x>>) = 1 /\ <<x>>[1] = x /\ DOMAIN <<x>> = 1 .. 1
  OBVIOUS
<1>2. CASE x \in T
  <2>1. Pieces(<<x>>, T) = <<<<x>>>>
    <3>1. Pieces(<<x>>, T) \in Seq(Seq({x})) /\ Len(Pieces(<<x>>, T)) = 1
      BY <1>1, PiecesType
    <3>2. Pieces(<<x>>, T)[1] = <<x>>
      BY <1>1, <1>2 DEF Pieces
    <3> QED BY <3>1, <3>2
  <2>2. Append(<< >>, <<x>>) = <<<<x>>>>
    OBVIOUS
  <2>3. FlattenSeq(Append(<< >>, <<x>>)) = FlattenSeq(<< >>) \o <<x>>
    <3>1. << >> \in Seq(Seq({x})) /\ <<x>> \in Seq({x})
      OBVIOUS
    <3> QED BY ONLY <3>1, FlattenAppend
  <2>4. << >> \o <<x>> = <<x>>
    OBVIOUS
  <2>5. FlattenSeq(<<<<x>>>>) = <<x>>
    BY ONLY <2>2, <2>3, <2>4, FlattenEmpty
  <2>6. Within(<<x>>, T) = FlattenSeq(Pieces(<<x>>, T))
    BY DEF Within, Pieces
  <2> QED BY ONLY <1>2, <2>1, <2>5, <2>6
<1>3. CASE x \notin T
  <2>1. \A n \in DOMAIN <<x>> : <<x>>[n] \notin T
    BY <1>3
  <2>2. Within(<<x>>, T) = << >>
    BY <1>1, <2>1, WithinNone
  <2> QED BY ONLY <1>3, <2>2
<1> QED BY ONLY <1>2, <1>3

LEMMA WithinAppend ==
  ASSUME NEW S, NEW s \in Seq(S), NEW x \in S, NEW T
  PROVE  Within(Append(s, x), T) = IF x \in T THEN Append(Within(s, T), x) ELSE Within(s, T)
<1>1. Append(s, x) = s \o <<x>> /\ <<x>> \in Seq(S)
  OBVIOUS
<1>2. Within(s, T) \in Seq(S)
  BY WithinElements
<1>3. Within(s \o <<x>>, T) = Within(s, T) \o Within(<<x>>, T)
  <2>1. s \in Seq(S) /\ <<x>> \in Seq(S)
    OBVIOUS
  <2> HIDE DEF Within
  <2> DEFINE y == <<x>>
  <2>2. s \in Seq(S) /\ y \in Seq(S)
    BY <2>1
  <2> HIDE DEF y
  <2>3. Within(s \o y, T) = Within(s, T) \o Within(y, T)
    BY ONLY <2>2, WithinConcat
  <2> QED BY <2>3 DEF y
<1>4. Within(s, T) \o <<x>> = Append(Within(s, T), x) /\ Within(s, T) \o << >> = Within(s, T)
  BY <1>2
<1> QED BY ONLY <1>1, <1>3, <1>4, WithinOne

LEMMA WithinAll ==
  ASSUME NEW S, NEW s \in Seq(S), NEW T, \A n \in DOMAIN s : s[n] \in T
  PROVE  Within(s, T) = s
<1> DEFINE m == Len(s)
           P == {n \in Nat : n <= m => Within(Prefix(s, n), T) = Prefix(s, n)}
<1>0. m \in Nat /\ Prefix(s, m) = s /\ DOMAIN s = 1 .. m /\ \A i \in 1 .. m : s[i] \in S /\ s[i] \in T
  BY PrefixWhole
<1>1. 0 \in P
  <2>1. Prefix(s, 0) = << >>
    BY DEF Prefix
  <2>2. Within(<< >>, T) = << >>
    <3>1. << >> \in Seq({}) /\ DOMAIN << >> = {}
      OBVIOUS
    <3> QED BY <3>1, WithinNone
  <2> QED BY <2>1, <2>2
<1>2. ASSUME NEW n \in P PROVE n + 1 \in P
  <2> SUFFICES ASSUME n + 1 <= m PROVE Within(Prefix(s, n + 1), T) = Prefix(s, n + 1)
    OBVIOUS
  <2> DEFINE p == Prefix(s, n)
             k == n + 1
             q == Prefix(s, k)
  <2>1. n \in Nat /\ k \in Nat /\ n <= m /\ k \in 1 .. m /\ Within(p, T) = p
    BY <1>0
  <2>2. p \in Seq(S) /\ Len(p) = n /\ q \in Seq(S) /\ Len(q) = k
        /\ (\A i \in 1 .. n : p[i] = s[i]) /\ \A i \in 1 .. k : q[i] = s[i]
    <3>1. p \in Seq(S) /\ Len(p) = n /\ \A i \in 1 .. n : p[i] = s[i]
      BY <1>0, <2>1, PrefixType
    <3>2. q \in Seq(S) /\ Len(q) = k /\ \A i \in 1 .. k : q[i] = s[i]
      <4> HIDE DEF k
      <4> QED BY <1>0, <2>1, PrefixType
    <3> QED BY <3>1, <3>2
  <2> HIDE DEF p, q
  <2>3. q = Append(p, s[k])
    <3>1. Append(p, s[k]) \in Seq(S) /\ Len(Append(p, s[k])) = k
          /\ \A i \in 1 .. k : Append(p, s[k])[i] = s[i]
      BY <1>0, <2>1, <2>2
    <3> HIDE DEF k
    <3> QED BY <2>2, <3>1, SeqEqual
  <2> HIDE DEF k, P, m
  <2>4. s[k] \in S /\ s[k] \in T
    BY <1>0, <2>1
  <2>5. Within(q, T) = Append(Within(p, T), s[k])
    BY <2>2, <2>3, <2>4, WithinAppend
  <2> QED BY <2>1, <2>3, <2>5 DEF k, q
<1>3. P = Nat
  <2> HIDE DEF P
  <2>1. P \in SUBSET Nat
    BY DEF P
  <2> QED BY <1>1, <1>2, <2>1, Induct
<1>4. m \in P
  BY <1>0, <1>3
<1> QED BY <1>0, <1>4

LEMMA OnlyIsWithin ==
  ASSUME NEW s, NEW T
  PROVE  Only(s, T) = Within(s, {e \in ToSet(s) : e.type \in T})
<1> DEFINE U == {e \in ToSet(s) : e.type \in T}
           f == [n \in DOMAIN s |-> IF s[n].type \in T THEN <<s[n]>> ELSE << >>]
           g == [n \in DOMAIN s |-> IF s[n] \in U THEN <<s[n]>> ELSE << >>]
<1>1. \A n \in DOMAIN s : s[n] \in U <=> s[n].type \in T
  BY DEF ToSet
<1>2. f = g
  <2> HIDE DEF U
  <2> QED BY <1>1
<1>3. Only(s, T) = FlattenSeq(f) /\ Within(s, U) = FlattenSeq(g)
  BY DEF Only, Within
<1> QED BY <1>2, <1>3

LEMMA OnlyElements ==
  ASSUME NEW s, IsSeq(s), NEW T
  PROVE  IsSeq(Only(s, T)) /\ ToSet(Only(s, T)) = {e \in ToSet(s) : e.type \in T}
<1> DEFINE U == {e \in ToSet(s) : e.type \in T}
           S == ToSet(s)
<1>1. Only(s, T) = Within(s, U)
  BY OnlyIsWithin
<1>2. s \in Seq(S)
  BY DEF IsSeq
<1>3. \A x : x \in U <=> x \in ToSet(s) /\ x \in U
  OBVIOUS
<1> HIDE DEF U, S
<1>4. Within(s, U) \in Seq(S) /\ \A x : x \in ToSet(Within(s, U)) <=> x \in ToSet(s) /\ x \in U
  BY ONLY <1>2, WithinElements
<1>5. IsSeq(Within(s, U))
  BY ONLY <1>4, SeqIsSeq
<1>6. ToSet(Within(s, U)) = U
  BY ONLY <1>3, <1>4
<1> QED BY <1>1, <1>5, <1>6 DEF U

LEMMA OnlyConcat ==
  ASSUME NEW s, NEW t, IsSeq(s), IsSeq(t), NEW T
  PROVE  Only(s \o t, T) = Only(s, T) \o Only(t, T)
<1> DEFINE S == ToSet(s \o t)
           U(w) == {e \in ToSet(w) : e.type \in T}
<1>1. s \in Seq(S) /\ t \in Seq(S)
  <2>1. S = ToSet(s) \cup ToSet(t)
    BY ConcatIsSeq
  <2>2. s \in Seq(ToSet(s)) /\ t \in Seq(ToSet(t))
    BY DEF IsSeq
  <2> HIDE DEF S
  <2> QED BY ONLY <2>1, <2>2
<1>2. Only(s \o t, T) = Within(s \o t, U(s \o t))
  BY OnlyIsWithin
<1>3. Within(s \o t, U(s \o t)) = Within(s, U(s \o t)) \o Within(t, U(s \o t))
  <2> DEFINE V == U(s \o t)
  <2> HIDE DEF S, V
  <2>1. Within(s \o t, V) = Within(s, V) \o Within(t, V)
    BY ONLY <1>1, WithinConcat
  <2> QED BY <2>1 DEF V
<1>4. ASSUME NEW w, IsSeq(w), ToSet(w) \subseteq S PROVE Within(w, U(s \o t)) = Only(w, T)
  <2>1. \A n \in DOMAIN w : w[n] \in ToSet(w)
    BY <1>4, IsSeqFacts
  <2>2. \A n \in DOMAIN w : w[n] \in U(s \o t) <=> w[n] \in U(w)
    BY <1>4, <2>1
  <2> DEFINE V == U(s \o t)
             W == U(w)
  <2>3. \A n \in DOMAIN w : w[n] \in V <=> w[n] \in W
    BY <2>2
  <2> HIDE DEF V, W
  <2>4. Within(w, V) = Within(w, W)
    BY ONLY <2>3, WithinSame
  <2> QED BY <2>4, OnlyIsWithin DEF V, W
<1>5. ToSet(s) \subseteq S /\ ToSet(t) \subseteq S
  BY ConcatIsSeq
<1> QED BY <1>2, <1>3, <1>4, <1>5

LEMMA OnlyNone ==
  ASSUME NEW s, IsSeq(s), NEW T, \A e \in ToSet(s) : e.type \notin T
  PROVE  Only(s, T) = << >>
<1>1. \A e \in ToSet(s) : e.type \notin T
  OBVIOUS
<1> DEFINE U == {e \in ToSet(s) : e.type \in T}
           S == ToSet(s)
<1>2. \A n \in DOMAIN s : s[n] \notin U
  BY ONLY <1>1
<1>3. s \in Seq(S)
  BY DEF IsSeq
<1> HIDE DEF U, S
<1>4. Within(s, U) = << >>
  BY ONLY <1>2, <1>3, WithinNone
<1> QED BY <1>4, OnlyIsWithin DEF U

LEMMA OnlyAll ==
  ASSUME NEW s, IsSeq(s), NEW T, \A e \in ToSet(s) : e.type \in T
  PROVE  Only(s, T) = s
<1>1. \A e \in ToSet(s) : e.type \in T
  OBVIOUS
<1> DEFINE U == {e \in ToSet(s) : e.type \in T}
           S == ToSet(s)
<1>2. \A n \in DOMAIN s : s[n] \in U
  BY <1>1, IsSeqFacts
<1>3. s \in Seq(S)
  BY DEF IsSeq
<1> HIDE DEF U, S
<1>4. Within(s, U) = s
  BY ONLY <1>2, <1>3, WithinAll
<1> QED BY <1>4, OnlyIsWithin DEF U

(***************************************************************************)
(* Pushing events into a collector, one after the other.                   *)
(***************************************************************************)

Pushed(c, event) == IF c.error = NoError THEN Push(c, event) ELSE c
IsPushing(f, c, events, n) ==
  f = [m \in 0 .. n |-> IF m = 0 THEN c ELSE Pushed(f[m - 1], events[m])]

LEMMA PushingExists ==
  ASSUME NEW c, NEW events, NEW n \in Nat
  PROVE  \E f : IsPushing(f, c, events, n)
<1> DEFINE P == {m \in Nat : \E f : IsPushing(f, c, events, m)}
<1>1. 0 \in P
  <2>1. IsPushing([m \in 0 .. 0 |-> c], c, events, 0)
    BY DEF IsPushing
  <2> QED BY <2>1
<1>2. ASSUME NEW m \in P PROVE m + 1 \in P
  <2>1. PICK f : IsPushing(f, c, events, m)
    BY <1>2
  <2> DEFINE g == [i \in 0 .. m + 1 |-> IF i <= m THEN f[i] ELSE Pushed(f[m], events[i])]
  <2>2. \A i \in 0 .. m : f[i] = IF i = 0 THEN c ELSE Pushed(f[i - 1], events[i])
    BY <2>1 DEF IsPushing
  <2>3. \A i \in 0 .. m + 1 : g[i] = IF i = 0 THEN c ELSE Pushed(g[i - 1], events[i])
    BY <2>2
  <2>4. IsPushing(g, c, events, m + 1)
    BY <2>3 DEF IsPushing
  <2> QED BY <2>4
<1>3. P = Nat
  <2> HIDE DEF P
  <2>1. P \in SUBSET Nat
    BY DEF P
  <2> QED BY <1>1, <1>2, <2>1, Induct
<1> QED BY <1>3

LEMMA PushAllIsPushing ==
  ASSUME NEW c, NEW events, Len(events) \in Nat
  PROVE  \E f : IsPushing(f, c, events, Len(events)) /\ PushAll(c, events) = f[Len(events)]
<1> DEFINE F == CHOOSE f : IsPushing(f, c, events, Len(events))
<1>1. IsPushing(F, c, events, Len(events))
  BY PushingExists
<1>2. PushAll(c, events) = F[Len(events)]
  BY DEF PushAll, IsPushing, Pushed
<1> QED BY <1>1, <1>2

PlainEvent(e) == "type" \in DOMAIN e /\ e.type \in StepItemTypes
Plain(s) == IsSeq(s) /\ \A e \in ToSet(s) : PlainEvent(e)
NoCall(s) == \A e \in ToSet(s) : e.type # "Call"
IsCollector(c) == {"slots", "finished", "error"} \subseteq DOMAIN c
Collecting(c) == IsCollector(c) /\ Plain(c.slots) /\ c.finished = Unfinished

LEMMA ExtendKeepsTheType ==
  ASSUME NEW slot, "type" \in DOMAIN slot, NEW delta
  PROVE  "type" \in DOMAIN Extend(slot, delta) /\ Extend(slot, delta).type = slot.type
  BY DEF Extend

\* What a collector becomes when one more of the step's items is pushed.
LEMMA PushPlain ==
  ASSUME NEW c, Collecting(c), NEW e, PlainEvent(e)
  PROVE  /\ Collecting(Pushed(c, e))
         /\ NoCall(c.slots) /\ e.type # "Call" => NoCall(Pushed(c, e).slots)
<1>1. CASE Pushed(c, e) = c
  BY <1>1
<1>2. CASE \E error : Pushed(c, e) = [c EXCEPT !.error = error]
  BY <1>2 DEF Collecting, IsCollector
<1>3. CASE Pushed(c, e) = [c EXCEPT !.slots = Append(@, e)]
  <2>1. /\ IsCollector(Pushed(c, e)) /\ Pushed(c, e).slots = Append(c.slots, e)
        /\ Pushed(c, e).finished = c.finished
    BY <1>3 DEF Collecting, IsCollector
  <2>2. IsSeq(Append(c.slots, e)) /\ ToSet(Append(c.slots, e)) = ToSet(c.slots) \cup {e}
    BY AppendIsSeq DEF Collecting, Plain
  <2> QED BY <2>1, <2>2 DEF Collecting, Plain, NoCall
<1>4. CASE \E i \in DOMAIN c.slots : Pushed(c, e) = [c EXCEPT !.slots[i] = Extend(@, e)]
  <2>1. PICK i \in DOMAIN c.slots : Pushed(c, e) = [c EXCEPT !.slots[i] = Extend(@, e)]
    BY <1>4
  <2> DEFINE x == Extend(c.slots[i], e)
             t == [c.slots EXCEPT ![i] = x]
  <2>2. c.slots[i] \in ToSet(c.slots) /\ PlainEvent(c.slots[i])
    BY IsSeqFacts DEF Collecting, Plain
  <2>3. PlainEvent(x) /\ x.type = c.slots[i].type
    BY <2>2, ExtendKeepsTheType DEF PlainEvent
  <2>4. IsCollector(Pushed(c, e)) /\ Pushed(c, e).slots = t /\ Pushed(c, e).finished = c.finished
    BY <2>1 DEF Collecting, IsCollector
  <2> HIDE DEF x
  <2>5. IsSeq(t) /\ ToSet(t) \subseteq ToSet(c.slots) \cup {x}
    BY ReplaceIsSeq DEF Collecting, Plain
  <2> QED BY <2>2, <2>3, <2>4, <2>5 DEF Collecting, Plain, NoCall
<1>5. e.type # "Finished" /\ c.finished = Unfinished
  BY DEF PlainEvent, StepItemTypes, Collecting
<1>6. \/ Pushed(c, e) = c
      \/ \E error : Pushed(c, e) = [c EXCEPT !.error = error]
      \/ Pushed(c, e) = [c EXCEPT !.slots = Append(@, e)]
      \/ \E i \in DOMAIN c.slots : Pushed(c, e) = [c EXCEPT !.slots[i] = Extend(@, e)]
  <2>1. Push(c, e) = IF IsDelta(e) THEN PushDelta(c, e) ELSE [c EXCEPT !.slots = Append(@, e)]
    BY <1>5 DEF Push
  <2> DEFINE pending == {i \in DOMAIN c.slots : IsDelta(c.slots[i]) /\ c.slots[i].item = e.item}
             i0 == CHOOSE i \in pending : TRUE
  <2>2. pending # {} => i0 \in DOMAIN c.slots
    OBVIOUS
  <2>3. PushDelta(c, e) =
          IF pending = {} THEN [c EXCEPT !.slots = Append(@, e)]
          ELSE IF Inconsistent(c.slots[i0], e) THEN [c EXCEPT !.error = "InconsistentItem"]
               ELSE [c EXCEPT !.slots[i0] = Extend(@, e)]
    BY DEF PushDelta
  <2> HIDE DEF pending, i0
  <2> QED BY <2>1, <2>2, <2>3 DEF Pushed
<1> QED BY <1>1, <1>2, <1>3, <1>4, <1>6

\* The first events of a sequence, all of them items of the step.
LEMMA PushingPlain ==
  ASSUME NEW c, Collecting(c), NEW events, NEW n \in Nat, NEW m \in 0 .. n,
         \A i \in 1 .. m : PlainEvent(events[i]), NEW f, IsPushing(f, c, events, n)
  PROVE  /\ Collecting(f[m])
         /\ NoCall(c.slots) /\ (\A i \in 1 .. m : events[i].type # "Call") => NoCall(f[m].slots)
<1> DEFINE Quiet == NoCall(c.slots) /\ \A i \in 1 .. m : events[i].type # "Call"
           P == {i \in Nat : i <= m => Collecting(f[i]) /\ (Quiet => NoCall(f[i].slots))}
<1>0. \A i \in 0 .. n : f[i] = IF i = 0 THEN c ELSE Pushed(f[i - 1], events[i])
  BY DEF IsPushing
<1>1. 0 \in P
  BY <1>0
<1>2. ASSUME NEW i \in P PROVE i + 1 \in P
  <2> SUFFICES ASSUME i + 1 <= m PROVE Collecting(f[i + 1]) /\ (Quiet => NoCall(f[i + 1].slots))
    OBVIOUS
  <2>1. Collecting(f[i]) /\ (Quiet => NoCall(f[i].slots))
    OBVIOUS
  <2>2. f[i + 1] = Pushed(f[i], events[i + 1])
    BY <1>0
  <2>3. PlainEvent(events[i + 1]) /\ (Quiet => events[i + 1].type # "Call")
    OBVIOUS
  <2> HIDE DEF Quiet, P
  <2> QED BY ONLY <2>1, <2>2, <2>3, PushPlain
<1>3. P = Nat
  <2> HIDE DEF P
  <2>1. P \in SUBSET Nat
    BY DEF P
  <2> QED BY <1>1, <1>2, <2>1, Induct
<1>4. m \in P
  BY <1>3
<1> QED BY <1>4

LEMMA PushAllPlain ==
  ASSUME NEW c, Collecting(c), NEW events, Plain(events)
  PROVE  /\ Collecting(PushAll(c, events))
         /\ NoCall(c.slots) /\ NoCall(events) => NoCall(PushAll(c, events).slots)
<1> DEFINE n == Len(events)
<1>1. n \in Nat /\ n \in 0 .. n /\ \A i \in 1 .. n : events[i] \in ToSet(events)
  BY IsSeqFacts DEF Plain
<1>2. PICK f : IsPushing(f, c, events, n) /\ PushAll(c, events) = f[n]
  BY <1>1, PushAllIsPushing
<1>3. /\ \A i \in 1 .. n : PlainEvent(events[i])
      /\ NoCall(events) => \A i \in 1 .. n : events[i].type # "Call"
  BY <1>1 DEF Plain, NoCall
<1> HIDE DEF n
<1>4. /\ Collecting(f[n])
      /\ NoCall(c.slots) /\ (\A i \in 1 .. n : events[i].type # "Call") => NoCall(f[n].slots)
  BY ONLY Collecting(c), <1>1, <1>2, <1>3, PushingPlain
<1> QED BY <1>2, <1>3, <1>4

LEMMA PushAllNone == ASSUME NEW c PROVE PushAll(c, << >>) = c
<1>1. Len(<< >>) = 0
  OBVIOUS
<1>2. PICK f : IsPushing(f, c, << >>, 0) /\ PushAll(c, << >>) = f[0]
  BY <1>1, PushAllIsPushing
<1> QED BY <1>2 DEF IsPushing

\* What the two last events of a step leave behind.
LEMMA PushAllClosing ==
  ASSUME NEW c, Collecting(c), NEW pre, Plain(pre), NEW step, NEW kind,
         NEW d, d = PushAll(c, pre \o <<Usage(step), Finished(kind)>>), d.error = NoError
  PROVE  /\ IsCollector(d) /\ d.finished = kind
         /\ \E p : /\ Plain(p) /\ d.slots = Append(p, Usage(step))
                   /\ NoCall(c.slots) /\ NoCall(pre) => NoCall(p)
<1> DEFINE m == Len(pre)
           last == <<Usage(step), Finished(kind)>>
           events == pre \o last
<1>1. /\ IsSeq(pre) /\ m \in Nat /\ m \in 0 .. m + 2 /\ m + 2 \in Nat
      /\ \A i \in 1 .. m : pre[i] \in ToSet(pre) /\ PlainEvent(pre[i])
  BY IsSeqFacts DEF Plain
<1>2. IsSeq(last) /\ Len(last) = 2 /\ last[1] = Usage(step) /\ last[2] = Finished(kind)
  <2>1. last \in Seq({Usage(step), Finished(kind)})
    OBVIOUS
  <2> QED BY <2>1, SeqIsSeq
<1>3. /\ Len(events) = m + 2 /\ events[m + 1] = Usage(step) /\ events[m + 2] = Finished(kind)
      /\ \A i \in 1 .. m : events[i] = pre[i]
  <2> DEFINE S == ToSet(pre) \cup ToSet(last)
  <2>1. pre \in Seq(S) /\ last \in Seq(S)
    <3>1. pre \in Seq(ToSet(pre)) /\ last \in Seq(ToSet(last))
      BY <1>1, <1>2 DEF IsSeq
    <3> HIDE DEF last
    <3> QED BY <3>1
  <2> HIDE DEF S, last
  <2>2. /\ Len(pre \o last) = Len(pre) + Len(last)
        /\ \A i \in 1 .. Len(pre) + Len(last) :
             (pre \o last)[i] = IF i <= Len(pre) THEN pre[i] ELSE last[i - Len(pre)]
    BY ONLY <2>1, ConcatProperties
  <2>3. m + 1 - m = 1 /\ m + 2 - m = 2 /\ ~(m + 1 <= m) /\ ~(m + 2 <= m)
        /\ m + 1 \in 1 .. m + 2 /\ m + 2 \in 1 .. m + 2 /\ \A i \in 1 .. m : i \in 1 .. m + 2 /\ i <= m
    BY <1>1
  <2> QED BY ONLY <1>2, <2>2, <2>3 DEF m, events
<1> HIDE DEF events, last, m
<1>4. PICK f : IsPushing(f, c, events, m + 2) /\ PushAll(c, events) = f[m + 2]
  BY <1>1, <1>3, PushAllIsPushing
<1>5. /\ Collecting(f[m])
      /\ NoCall(c.slots) /\ NoCall(pre) => NoCall(f[m].slots)
  <2>1. \A i \in 1 .. m : PlainEvent(events[i]) /\ (NoCall(pre) => events[i].type # "Call")
    BY <1>1, <1>3 DEF NoCall
  <2> DEFINE n == m + 2
  <2>2. n \in Nat /\ m \in 0 .. n /\ IsPushing(f, c, events, n)
    BY <1>1, <1>4
  <2> HIDE DEF n
  <2>3. /\ Collecting(f[m])
        /\ NoCall(c.slots) /\ (\A i \in 1 .. m : events[i].type # "Call") => NoCall(f[m].slots)
    BY ONLY Collecting(c), <2>1, <2>2, PushingPlain
  <2> QED BY ONLY <2>1, <2>3
<1>6. f[m + 1] = Pushed(f[m], Usage(step)) /\ f[m + 2] = Pushed(f[m + 1], Finished(kind))
  <2>1. \A i \in 0 .. m + 2 : f[i] = IF i = 0 THEN c ELSE Pushed(f[i - 1], events[i])
    BY <1>4 DEF IsPushing
  <2>2. m + 1 \in 0 .. m + 2 /\ m + 2 \in 0 .. m + 2 /\ m + 1 # 0 /\ m + 2 # 0
        /\ m + 1 - 1 = m /\ m + 2 - 1 = m + 1
    BY <1>1
  <2>3. ASSUME NEW i \in 0 .. m + 2, NEW j, i - 1 = j, i # 0 PROVE f[i] = Pushed(f[j], events[i])
    BY ONLY <2>1, <2>3
  <2>4. f[m + 1] = Pushed(f[m], events[m + 1]) /\ f[m + 2] = Pushed(f[m + 1], events[m + 2])
    <3> DEFINE k == m + 1
               l == m + 2
    <3>1. k \in 0 .. m + 2 /\ l \in 0 .. m + 2 /\ k # 0 /\ l # 0 /\ k - 1 = m /\ l - 1 = k
      BY <1>1
    <3> HIDE DEF k, l
    <3>2. f[k] = Pushed(f[m], events[k]) /\ f[l] = Pushed(f[k], events[l])
      BY ONLY <2>3, <3>1
    <3> QED BY ONLY <3>2 DEF k, l
  <2> QED BY ONLY <1>3, <2>4
<1>7. f[m + 2].error = NoError
  BY <1>4 DEF events, last
<1>8. f[m].error = NoError
  <2> SUFFICES ASSUME f[m].error # NoError PROVE FALSE
    OBVIOUS
  <2> QED BY <1>6, <1>7 DEF Pushed
<1>9. f[m + 1] = [f[m] EXCEPT !.slots = Append(@, Usage(step))]
  BY <1>5, <1>6, <1>8 DEF Pushed, Push, Usage, IsDelta, Collecting
<1>10. /\ IsCollector(f[m + 1]) /\ f[m + 1].error = NoError /\ f[m + 1].finished = Unfinished
       /\ f[m + 1].slots = Append(f[m].slots, Usage(step))
  BY <1>5, <1>8, <1>9 DEF Collecting, IsCollector
<1>11. f[m + 2] = [f[m + 1] EXCEPT !.finished = kind]
  <2> DEFINE b == f[m + 1]
  <2>1. b.error = NoError /\ b.finished = Unfinished /\ f[m + 2] = Pushed(b, Finished(kind))
    BY <1>6, <1>10
  <2> HIDE DEF b
  <2>2. Finished(kind).type = "Finished" /\ Finished(kind).kind = kind
    BY DEF Finished
  <2>3. Pushed(b, Finished(kind)) = [b EXCEPT !.finished = kind]
    <3> DEFINE e == Finished(kind)
    <3>1. b.error = NoError /\ b.finished = Unfinished /\ e.type = "Finished" /\ e.kind = kind
      BY <2>1, <2>2
    <3> HIDE DEF e
    <3>2. Push(b, e) = [b EXCEPT !.finished = e.kind]
      BY ONLY <3>1 DEF Push, IsDelta, PushDelta
    <3> QED BY <3>1, <3>2 DEF Pushed, e
  <2> QED BY <2>1, <2>3 DEF b
<1>12. /\ IsCollector(f[m + 2]) /\ f[m + 2].finished = kind
       /\ f[m + 2].slots = Append(f[m].slots, Usage(step))
  BY <1>10, <1>11 DEF IsCollector
<1>13. d = f[m + 2]
  BY <1>4 DEF events, last
<1> DEFINE p == f[m].slots
<1>14. /\ Plain(p) /\ d.slots = Append(p, Usage(step))
       /\ NoCall(c.slots) /\ NoCall(pre) => NoCall(p)
  BY <1>5, <1>12, <1>13 DEF Collecting
<1>15. IsCollector(d) /\ d.finished = kind
  BY <1>12, <1>13
<1> HIDE DEF p
<1> QED BY ONLY <1>14, <1>15

\* The step that a collector with one usage record makes.
LEMMA ItemsOfClosed ==
  ASSUME NEW c, NEW p, Plain(p), NEW step, c.slots = Append(p, Usage(step))
  PROVE  /\ StepOf(c).usage = <<Usage(step)>> /\ StepOf(c).kind = c.finished
         /\ StepOf(c).items = [i \in DOMAIN p |-> ItemOf(p[i])]
<1> DEFINE u == <<Usage(step)>>
<1>1. c.slots = p \o u /\ IsSeq(p) /\ IsSeq(u) /\ ToSet(u) = {Usage(step)}
  <2>1. IsSeq(p)
    BY DEF Plain
  <2>2. Append(p, Usage(step)) = p \o u
    BY ONLY <2>1, AppendIsSeq DEF u
  <2>3. IsSeq(u) /\ ToSet(u) = {Usage(step)}
    BY ONLY OneIsSeq DEF u
  <2> HIDE DEF u
  <2> QED BY <2>1, <2>2, <2>3
<1>2. Only(p, {"Usage"}) = << >> /\ Only(u, {"Usage"}) = u
  <2>1. \A e \in ToSet(p) : e.type \notin {"Usage"}
    BY DEF Plain, PlainEvent, StepItemTypes
  <2>2. \A e \in ToSet(u) : e.type \in {"Usage"}
    BY <1>1 DEF Usage
  <2> HIDE DEF u
  <2> QED BY <1>1, <2>1, <2>2, OnlyNone, OnlyAll
<1>3. Only(p, StepItemTypes) = p /\ Only(u, StepItemTypes) = << >>
  <2>1. \A e \in ToSet(p) : e.type \in StepItemTypes
    BY DEF Plain, PlainEvent
  <2>2. \A e \in ToSet(u) : e.type \notin StepItemTypes
    BY <1>1 DEF Usage, StepItemTypes
  <2> HIDE DEF u
  <2> QED BY <1>1, <2>1, <2>2, OnlyNone, OnlyAll
<1>4. Len(u) = 1
  OBVIOUS
<1> HIDE DEF u
<1>5. Only(c.slots, {"Usage"}) = << >> \o u /\ Only(c.slots, StepItemTypes) = p \o << >>
  <2>1. \A T : Only(p \o u, T) = Only(p, T) \o Only(u, T)
    BY ONLY <1>1, OnlyConcat
  <2>2. Only(p \o u, {"Usage"}) = Only(p, {"Usage"}) \o Only(u, {"Usage"})
    BY ONLY <2>1
  <2>3. Only(p \o u, StepItemTypes) = Only(p, StepItemTypes) \o Only(u, StepItemTypes)
    BY ONLY <2>1
  <2> QED BY ONLY <1>1, <1>2, <1>3, <2>2, <2>3
<1>6. << >> \o u = u /\ p \o << >> = p
  BY <1>1, ConcatEmptySeq DEF IsSeq
<1> QED BY <1>5, <1>6 DEF StepOf, u

LEMMA StepOfClosed ==
  ASSUME NEW c, NEW p, Plain(p), NEW step, c.slots = Append(p, Usage(step))
  PROVE  /\ IsSeq(StepOf(c).usage) /\ Len(StepOf(c).usage) = 1
         /\ StepOf(c).kind = c.finished
         /\ IsSeq(StepOf(c).items)
         /\ \A e \in ToSet(StepOf(c).items) : e.type \in StepItemTypes
         /\ NoCall(p) => NoCall(StepOf(c).items)
<1>1. IsSeq(p)
  BY DEF Plain
<1>7. /\ StepOf(c).usage = <<Usage(step)>> /\ StepOf(c).kind = c.finished
      /\ StepOf(c).items = [i \in DOMAIN p |-> ItemOf(p[i])]
  BY ItemsOfClosed
<1>8. \A i \in DOMAIN p : ItemOf(p[i]).type = p[i].type /\ p[i] \in ToSet(p)
  <2>1. \A i \in DOMAIN p : p[i] \in ToSet(p) /\ "type" \in DOMAIN p[i]
    BY <1>1, IsSeqFacts DEF Plain, PlainEvent
  <2> QED BY <2>1 DEF ItemOf
<1> DEFINE items == [i \in DOMAIN p |-> ItemOf(p[i])]
<1>9. IsSeq(items) /\ \A e \in ToSet(items) : \E i \in DOMAIN p : e = items[i]
  <2>1. Len(p) \in Nat /\ DOMAIN p = 1 .. Len(p)
    BY <1>1, IsSeqFacts
  <2>2. items = [i \in 1 .. Len(p) |-> items[i]]
    BY <2>1
  <2> HIDE DEF items
  <2> QED BY <2>1, <2>2, FunctionIsSeq
<1>10. \A e \in ToSet(items) : \E i \in DOMAIN p : e.type = p[i].type
  <2>1. \A i \in DOMAIN p : items[i].type = p[i].type
    BY <1>8
  <2> HIDE DEF items
  <2> QED BY ONLY <1>9, <2>1
<1> HIDE DEF items
<1>11. StepOf(c).items = items
  BY <1>7 DEF items
<1>12. /\ \A e \in ToSet(items) : e.type \in StepItemTypes
       /\ NoCall(p) => NoCall(items)
  BY <1>8, <1>10 DEF Plain, PlainEvent, NoCall
<1> QED BY <1>7, <1>9, <1>11, <1>12, OneIsSeq

(***************************************************************************)
(* The events that decoders yield.                                         *)
(***************************************************************************)

LEMMA DeltasPlain ==
  ASSUME NEW item, NEW data
  PROVE  /\ PlainEvent(TextDelta(item, data)) /\ TextDelta(item, data).type # "Call"
         /\ PlainEvent(ReasoningDelta(item, data)) /\ ReasoningDelta(item, data).type # "Call"
  BY DEF PlainEvent, StepItemTypes, TextDelta, ReasoningDelta, Delta

LEMMA CallDeltaPlain ==
  ASSUME NEW item, NEW id, NEW name, NEW data
  PROVE  PlainEvent(CallDelta(item, id, name, data))
  BY DEF PlainEvent, StepItemTypes, CallDelta

LEMMA WholeItemsPlain ==
  ASSUME NEW step
  PROVE  /\ PlainEvent(Continuation(step)) /\ Continuation(step).type # "Call"
         /\ PlainEvent(ServerToolUse(step)) /\ ServerToolUse(step).type # "Call"
  BY DEF PlainEvent, StepItemTypes, Continuation, ServerToolUse

LEMMA PlainEmpty == Plain(<< >>) /\ NoCall(<< >>)
  BY EmptyIsSeq DEF Plain, NoCall

LEMMA PlainOne ==
  ASSUME NEW e, PlainEvent(e)
  PROVE  Plain(<<e>>) /\ (e.type # "Call" => NoCall(<<e>>))
<1>1. IsSeq(<<e>>) /\ ToSet(<<e>>) = {e}
  BY OneIsSeq
<1> QED BY <1>1 DEF Plain, NoCall

LEMMA PlainConcat ==
  ASSUME NEW s, NEW t, Plain(s), Plain(t)
  PROVE  Plain(s \o t) /\ (NoCall(s) /\ NoCall(t) => NoCall(s \o t))
<1>1. IsSeq(s \o t) /\ ToSet(s \o t) = ToSet(s) \cup ToSet(t)
  BY ConcatIsSeq DEF Plain
<1> QED BY <1>1 DEF Plain, NoCall

LEMMA PlainMap ==
  ASSUME NEW x, IsSeq(x), NEW f, f = [k \in DOMAIN x |-> f[k]],
         \A k \in DOMAIN x : PlainEvent(f[k])
  PROVE  /\ Plain(f)
         /\ (\A k \in DOMAIN x : f[k].type # "Call") => NoCall(f)
         /\ x = << >> => NoCall(f)
<1>1. Len(x) \in Nat /\ DOMAIN x = 1 .. Len(x)
  BY IsSeqFacts
<1>2. IsSeq(f) /\ \A e \in ToSet(f) : \E k \in DOMAIN x : e = f[k]
  BY <1>1, FunctionIsSeq
<1>3. x = << >> => DOMAIN x = {}
  OBVIOUS
<1> QED BY <1>2, <1>3 DEF Plain, NoCall

\* A response of the service, as ResponsesAssumption has it.
IsResponse(r) == r.items \in Seq([type : ItemTypes, size : Nat, sent : Nat, tool : STRING])

LEMMA ItemsOf ==
  ASSUME NEW r, IsResponse(r)
  PROVE  /\ IsSeq(r.items) /\ Len(r.items) \in Nat /\ DOMAIN r.items = 1 .. Len(r.items)
         /\ \A i \in DOMAIN r.items : r.items[i].type \in ItemTypes /\ r.items[i].sent \in Nat
<1> DEFINE S == [type : ItemTypes, size : Nat, sent : Nat, tool : STRING]
           s == r.items
<1>1. s \in Seq(S)
  BY DEF IsResponse
<1> HIDE DEF S, s
<1>2. IsSeq(s) /\ Len(s) \in Nat /\ DOMAIN s = 1 .. Len(s) /\ \A i \in DOMAIN s : s[i] \in S
  BY ONLY <1>1, SeqIsSeq
<1> QED BY <1>2 DEF S, s

LEMMA OfIsSeq ==
  ASSUME NEW r, IsResponse(r), NEW type
  PROVE  IsSeq(Of(r, type)) /\ ToSet(Of(r, type)) = Places(r, type)
<1> DEFINE n == Len(r.items)
           all == [i \in DOMAIN r.items |-> i]
           S == 1 .. n
<1>1. n \in Nat /\ DOMAIN r.items = 1 .. n
  BY ItemsOf
<1>2. all \in Seq(S) /\ \A i : i \in ToSet(all) <=> i \in S
  <2>1. all \in [1 .. n -> S] /\ DOMAIN all = 1 .. n /\ \A i \in 1 .. n : all[i] = i
    BY <1>1
  <2> HIDE DEF all, n
  <2>2. ToSet(all) = S
    BY ONLY <2>1 DEF ToSet, S
  <2> HIDE DEF S
  <2> QED BY <1>1, <2>1, <2>2
<1>3. Places(r, type) \subseteq S
  BY <1>1 DEF Places
<1> HIDE DEF S, all
<1>4. /\ Within(all, Places(r, type)) \in Seq(S)
      /\ \A x : x \in ToSet(Within(all, Places(r, type))) <=> x \in ToSet(all) /\ x \in Places(r, type)
  BY ONLY <1>2, WithinElements
<1>5. IsSeq(Within(all, Places(r, type)))
  BY ONLY <1>4, SeqIsSeq
<1>6. ToSet(Within(all, Places(r, type))) = Places(r, type)
  BY ONLY <1>2, <1>3, <1>4
<1> QED BY <1>5, <1>6 DEF Of, all

LEMMA FragmentsIsSeq ==
  ASSUME NEW r, IsResponse(r), NEW i \in DOMAIN r.items, NEW whole
  PROVE  IsSeq(Fragments(r, i, whole))
<1>1. r.items[i].sent \in Nat
  BY ItemsOf
<1>2. CASE whole \/ r.items[i].sent = 0
  BY <1>2, EmptyIsSeq, OneIsSeq DEF Fragments
<1>3. CASE ~(whole \/ r.items[i].sent = 0)
  <2> DEFINE f == [k \in 1..r.items[i].sent |-> <<DataOf(r, i)[k]>>]
  <2>1. Fragments(r, i, whole) = f
    BY <1>3 DEF Fragments
  <2>2. f = [k \in 1..r.items[i].sent |-> f[k]]
    OBVIOUS
  <2> HIDE DEF f
  <2> QED BY <1>1, <2>1, <2>2, FunctionIsSeq
<1> QED BY <1>2, <1>3

LEMMA LateReasoningPlain ==
  ASSUME NEW r, IsResponse(r)
  PROVE  Plain(LateReasoning(r)) /\ NoCall(LateReasoning(r))
<1> DEFINE x == Of(r, "thought")
           f == LateReasoning(r)
<1>1. IsSeq(x)
  BY OfIsSeq
<1>2. f = [k \in DOMAIN x |-> ReasoningDelta(<<"reasoning", k>>, DataOf(r, x[k]))]
  BY DEF LateReasoning
<1>3. f = [k \in DOMAIN x |-> f[k]]
      /\ \A k \in DOMAIN x : PlainEvent(f[k]) /\ f[k].type # "Call"
  <2> HIDE DEF f, x
  <2>1. f = [k \in DOMAIN x |-> f[k]]
    BY <1>2
  <2>2. \A k \in DOMAIN x : f[k] = ReasoningDelta(<<"reasoning", k>>, DataOf(r, x[k]))
    BY <1>2
  <2>3. ASSUME NEW k \in DOMAIN x PROVE PlainEvent(f[k]) /\ f[k].type # "Call"
    <3>1. f[k] = ReasoningDelta(<<"reasoning", k>>, DataOf(r, x[k]))
      BY <2>2
    <3> QED BY <3>1, DeltasPlain
  <2> QED BY ONLY <2>1, <2>3
<1> HIDE DEF f, x
<1>4. Plain(f) /\ NoCall(f)
  BY ONLY <1>1, <1>3, PlainMap
<1> QED BY <1>4 DEF f

LEMMA ServerToolUsesPlain ==
  ASSUME NEW x, IsSeq(x), NEW step
  PROVE  /\ Plain([k \in DOMAIN x |-> ServerToolUse(step)])
         /\ NoCall([k \in DOMAIN x |-> ServerToolUse(step)])
<1> DEFINE f == [k \in DOMAIN x |-> ServerToolUse(step)]
<1>1. f = [k \in DOMAIN x |-> f[k]] /\ \A k \in DOMAIN x : f[k] = ServerToolUse(step)
  OBVIOUS
<1>2. \A k \in DOMAIN x : PlainEvent(f[k]) /\ f[k].type # "Call"
  BY <1>1, WholeItemsPlain
<1> HIDE DEF f
<1>3. Plain(f) /\ NoCall(f)
  BY <1>1, <1>2, PlainMap
<1> QED BY <1>3 DEF f

\* The two events that every step ends with.
LastTwo(step, kind) == <<Usage(step), Finished(kind)>>

LEMMA LastTwoIsSeq == ASSUME NEW step, NEW kind PROVE IsSeq(LastTwo(step, kind))
<1>1. LastTwo(step, kind) \in Seq({Usage(step), Finished(kind)})
  BY DEF LastTwo
<1> QED BY <1>1, SeqIsSeq

LEMMA ClosingShape ==
  ASSUME NEW r, IsResponse(r), NEW step, NEW kind, NEW front, Plain(front)
  PROVE  \E pre : /\ front \o Closing(step, r, kind) = pre \o LastTwo(step, kind)
                  /\ Plain(pre) /\ (NoCall(front) => NoCall(pre))
<1> DEFINE a == IF r.items = << >> THEN << >> ELSE <<Continuation(step)>>
           b == [k \in DOMAIN Of(r, "search") |-> ServerToolUse(step)]
<1>1. Plain(a) /\ NoCall(a)
  BY PlainEmpty, PlainOne, WholeItemsPlain
<1>2. Plain(b) /\ NoCall(b)
  <2> DEFINE x == Of(r, "search")
  <2>1. IsSeq(x)
    BY OfIsSeq
  <2> HIDE DEF x
  <2>2. Plain([k \in DOMAIN x |-> ServerToolUse(step)]) /\ NoCall([k \in DOMAIN x |-> ServerToolUse(step)])
    BY ONLY <2>1, ServerToolUsesPlain
  <2> QED BY <2>2 DEF x
<1>3. Closing(step, r, kind) = (a \o b) \o LastTwo(step, kind)
  BY DEF Closing, LastTwo
<1> HIDE DEF a, b
<1>4. Plain(a \o b) /\ NoCall(a \o b)
  BY <1>1, <1>2, PlainConcat
<1>5. Plain(front \o (a \o b)) /\ (NoCall(front) => NoCall(front \o (a \o b)))
  BY <1>4, PlainConcat
<1>6. IsSeq(front) /\ IsSeq(a \o b) /\ IsSeq(LastTwo(step, kind))
  BY <1>4, LastTwoIsSeq DEF Plain
<1>7. (front \o (a \o b)) \o LastTwo(step, kind) = front \o ((a \o b) \o LastTwo(step, kind))
  BY <1>6, ConcatIsAssociative
<1> QED BY <1>3, <1>5, <1>7

(***************************************************************************)
(* What every decoder's outcome is like. `before' and `after' say whether  *)
(* the decoder's state shows a client tool call; a step that is to go on   *)
(* without one must not have yielded any.                                  *)
(***************************************************************************)

Ends(events, step, after) ==
  \E pre, kind : /\ events = pre \o LastTwo(step, kind)
                 /\ Plain(pre) /\ kind \in Kinds
                 /\ kind = "Continue" => NoCall(pre) /\ ~after
Yields(out, step, before, after) ==
  /\ before => after
  /\ ~out.finished => Plain(out.events) /\ (NoCall(out.events) \/ after)
  /\ out.finished => Ends(out.events, step, after)

LEMMA OutcomeFields ==
  ASSUME NEW d, NEW events
  PROVE  /\ Outcome(d, events).state = d /\ Outcome(d, events).events = events
         /\ ~Outcome(d, events).finished /\ ~Outcome(d, events).error
  BY DEF Outcome

LEMMA OverFields ==
  ASSUME NEW d, NEW events
  PROVE  /\ Over(d, events).state = d /\ Over(d, events).events = events
         /\ Over(d, events).finished /\ ~Over(d, events).error
  BY DEF Over, Outcome

LEMMA BrokenFails == ASSUME NEW d PROVE Broken(d).error
  BY DEF Broken, Outcome

LEMMA KindsOfSteps ==
  ASSUME NEW hasCalls, NEW hasText
  PROVE  /\ Kind(hasCalls, hasText) \in Kinds
         /\ Kind(hasCalls, hasText) = "Continue" => ~hasCalls
  BY DEF Kind, Kinds

LEMMA YieldsEvents ==
  ASSUME NEW d, NEW events, NEW step, NEW before, NEW after, before => after,
         Plain(events), NoCall(events) \/ after
  PROVE  Yields(Outcome(d, events), step, before, after)
<1> DEFINE out == Outcome(d, events)
<1>1. out.events = events /\ ~out.finished
  BY ONLY OutcomeFields
<1> HIDE DEF out
<1>2. Yields(out, step, before, after)
  BY <1>1, Zenon DEF Yields
<1> QED BY <1>2 DEF out

LEMMA YieldsLast ==
  ASSUME NEW d, NEW events, NEW step, NEW before, NEW after, before => after,
         Ends(events, step, after)
  PROVE  Yields(Over(d, events), step, before, after)
<1> DEFINE out == Over(d, events)
<1>1. out.events = events /\ out.finished
  BY ONLY OverFields
<1> HIDE DEF out
<1>2. Yields(out, step, before, after)
  BY <1>1, Zenon DEF Yields
<1> QED BY <1>2 DEF out

(***************************************************************************)
(* OpenAI: a call is known when the response has one.                      *)
(***************************************************************************)

OpenAiState(d, r) == {"text", "reasoning", "calls", "streamed"} \subseteq DOMAIN d
                     /\ d.calls \subseteq Places(r, "call")
OpenAiSends(w, r) ==
  /\ w.type \in {"textDelta", "reasoningDelta", "itemAdded", "argumentsDelta", "completed"}
  /\ w.type = "itemAdded" => w.at \in Places(r, "call")

LEMMA OpenAiEnds ==
  ASSUME NEW r, IsResponse(r), NEW d, NEW step
  PROVE  Ends(OpenAiTerminal(d, step, r), step, Of(r, "call") # << >>)
<1> DEFINE calls == Of(r, "call")
           late == Within(calls, Places(r, "call") \ d.streamed)
           a == IF d.text \/ TextOf(r) = << >> THEN << >>
                ELSE <<TextDelta(<<"terminal text", 0>>, TextOf(r))>>
           b == [k \in DOMAIN late |->
                   CallDelta(<<"tool", k>>, <<step, late[k]>>, r.items[late[k]].tool,
                             TerminalArguments(r, late[k]))]
           c == IF d.reasoning THEN << >> ELSE LateReasoning(r)
           kind == Kind(calls # << >>, TextOf(r) # << >>)
<1>1. Plain(a) /\ NoCall(a)
  BY PlainEmpty, PlainOne, DeltasPlain
<1>2. IsSeq(late) /\ (calls = << >> => late = << >>)
  <2>1. IsSeq(calls)
    BY OfIsSeq
  <2> DEFINE T == Places(r, "call") \ d.streamed
             S == ToSet(calls)
  <2>2. calls \in Seq(S)
    BY <2>1 DEF IsSeq
  <2> HIDE DEF S, T, calls
  <2>3. Within(calls, T) \in Seq(S)
    BY ONLY <2>2, WithinElements
  <2>4. IsSeq(Within(calls, T))
    BY ONLY <2>3, SeqIsSeq
  <2>5. calls = << >> => \A n \in DOMAIN calls : calls[n] \notin T
    OBVIOUS
  <2>6. calls = << >> => Within(calls, T) = << >>
    BY ONLY <2>2, <2>5, WithinNone
  <2> QED BY <2>4, <2>6 DEF T
<1>3. Plain(b) /\ (calls = << >> => NoCall(b))
  <2> HIDE DEF late
  <2>1. b = [k \in DOMAIN late |-> b[k]]
    OBVIOUS
  <2>2. \A k \in DOMAIN late : PlainEvent(b[k])
    BY CallDeltaPlain
  <2> HIDE DEF b
  <2>3. Plain(b) /\ (late = << >> => NoCall(b))
    BY <1>2, <2>1, <2>2, PlainMap
  <2> QED BY <1>2, <2>3
<1>4. Plain(c) /\ NoCall(c)
  BY PlainEmpty, LateReasoningPlain
<1>5. OpenAiTerminal(d, step, r) = ((a \o b) \o c) \o Closing(step, r, kind)
  BY DEF OpenAiTerminal
<1>6. kind \in Kinds /\ (kind = "Continue" => calls = << >>)
  BY KindsOfSteps
<1> HIDE DEF a, b, c, kind, late, calls
<1>7. Plain((a \o b) \o c) /\ (NoCall(b) => NoCall((a \o b) \o c))
  BY <1>1, <1>3, <1>4, PlainConcat
<1>8. \E pre : /\ ((a \o b) \o c) \o Closing(step, r, kind) = pre \o LastTwo(step, kind)
               /\ Plain(pre) /\ (NoCall((a \o b) \o c) => NoCall(pre))
  BY <1>7, ClosingShape
<1>9. Ends(OpenAiTerminal(d, step, r), step, calls # << >>)
  <2> DEFINE known == calls # << >>
  <2>1. known <=> calls # << >>
    OBVIOUS
  <2> HIDE DEF known
  <2>2. PICK pre : /\ OpenAiTerminal(d, step, r) = pre \o LastTwo(step, kind)
                   /\ Plain(pre) /\ (NoCall((a \o b) \o c) => NoCall(pre))
    BY <1>5, <1>8
  <2>3. kind = "Continue" => NoCall(pre) /\ ~known
    BY <1>3, <1>6, <1>7, <2>1, <2>2
  <2>4. Ends(OpenAiTerminal(d, step, r), step, known)
    BY ONLY <1>6, <2>2, <2>3 DEF Ends
  <2> QED BY <2>4 DEF known
<1> QED BY <1>9 DEF calls

LEMMA OpenAiDecodes ==
  ASSUME NEW r, IsResponse(r), NEW d, OpenAiState(d, r), NEW w, OpenAiSends(w, r), NEW step
  PROVE  /\ Yields(OpenAiEvent(d, w, step, r), step, Of(r, "call") # << >>, Of(r, "call") # << >>)
         /\ OpenAiState(OpenAiEvent(d, w, step, r).state, r)
<1> DEFINE known == Of(r, "call") # << >>
           out == OpenAiEvent(d, w, step, r)
           Goal == Yields(out, step, known, known) /\ OpenAiState(out.state, r)
<1>0. Ends(OpenAiTerminal(d, step, r), step, known)
  BY OpenAiEnds
<1>1. w.at \in Places(r, "call") => known
  <2>1. w.at \in Places(r, "call") => w.at \in ToSet(Of(r, "call"))
    BY OfIsSeq
  <2> QED BY <2>1, EmptyIsSeq
<1> HIDE DEF known
<1> SUFFICES Goal
  BY DEF known
<1>2. ASSUME NEW e, NEW events, OpenAiState(e, r), Plain(events), NoCall(events) \/ known,
             out = Outcome(e, events)
      PROVE  Goal
  <2>1. Yields(Outcome(e, events), step, known, known)
    BY <1>2, YieldsEvents
  <2>2. Outcome(e, events).state = e
    BY ONLY OutcomeFields
  <2> QED BY ONLY <1>2, <2>1, <2>2
<1>3. CASE w.type = "textDelta"
  <2> DEFINE e == [d EXCEPT !.text = TRUE]
             events == <<TextDelta(<<"item", w.at>>, w.data)>>
  <2>1. out = Outcome(e, events)
    BY <1>3 DEF OpenAiEvent
  <2>2. OpenAiState(e, r)
    BY DEF OpenAiState
  <2>3. Plain(events) /\ NoCall(events)
    BY PlainOne, DeltasPlain
  <2> HIDE DEF e, events, out
  <2> QED BY <1>2, <2>1, <2>2, <2>3
<1>4. CASE w.type = "reasoningDelta"
  <2> DEFINE e == [d EXCEPT !.reasoning = TRUE]
             events == <<ReasoningDelta(<<"item", w.at>>, w.data)>>
  <2>1. out = Outcome(e, events)
    BY <1>4 DEF OpenAiEvent
  <2>2. OpenAiState(e, r)
    BY DEF OpenAiState
  <2>3. Plain(events) /\ NoCall(events)
    BY PlainOne, DeltasPlain
  <2> HIDE DEF e, events, out
  <2> QED BY <1>2, <2>1, <2>2, <2>3
<1>5. CASE w.type = "itemAdded"
  <2> DEFINE e == [d EXCEPT !.calls = @ \cup {w.at}]
  <2>1. out = Outcome(e, << >>)
    BY <1>5 DEF OpenAiEvent
  <2>2. OpenAiState(e, r)
    BY <1>5 DEF OpenAiState, OpenAiSends
  <2> HIDE DEF e, out
  <2> QED BY <1>2, <2>1, <2>2, PlainEmpty
<1>6. CASE w.type = "argumentsDelta" /\ w.at \notin d.calls
  <2>1. out = Outcome(d, << >>)
    BY <1>6 DEF OpenAiEvent
  <2> HIDE DEF out
  <2> QED BY <1>2, <2>1, PlainEmpty
<1>7. CASE w.type = "argumentsDelta" /\ w.at \in d.calls
  <2> DEFINE call == CallDelta(<<"item", w.at>>, <<step, w.at>>, r.items[w.at].tool, w.data)
             e == [d EXCEPT !.streamed = @ \cup {w.at}]
  <2>1. out = Outcome(e, <<call>>)
    BY <1>7 DEF OpenAiEvent
  <2>2. OpenAiState(e, r)
    BY DEF OpenAiState
  <2>3. Plain(<<call>>)
    BY PlainOne, CallDeltaPlain
  <2>4. known
    BY <1>1, <1>7 DEF OpenAiState
  <2> HIDE DEF e, call, out
  <2> QED BY <1>2, <2>1, <2>2, <2>3, <2>4
<1>8. CASE w.type = "completed"
  <2>1. out = Over(d, OpenAiTerminal(d, step, r))
    BY <1>8 DEF OpenAiEvent
  <2>2. Yields(Over(d, OpenAiTerminal(d, step, r)), step, known, known)
    BY <1>0, YieldsLast
  <2>3. Over(d, OpenAiTerminal(d, step, r)).state = d
    BY ONLY OverFields
  <2> QED BY <2>1, <2>2, <2>3
<1> QED BY <1>3, <1>4, <1>5, <1>6, <1>7, <1>8 DEF OpenAiSends

LEMMA OpenAiItemSends ==
  ASSUME NEW r, IsResponse(r), NEW i \in DOMAIN r.items
  PROVE  IsSeq(OpenAiItemWire(r, i)) /\ \A w \in ToSet(OpenAiItemWire(r, i)) : OpenAiSends(w, r)
<1> DEFINE x == Fragments(r, i, FALSE)
           of(type) == [k \in DOMAIN x |-> [type |-> type, at |-> i, data |-> x[k]]]
<1>1. Len(x) \in Nat /\ DOMAIN x = 1 .. Len(x)
  BY FragmentsIsSeq, IsSeqFacts
<1>2. ASSUME NEW type \in {"textDelta", "reasoningDelta", "argumentsDelta"}
      PROVE  IsSeq(of(type)) /\ \A w \in ToSet(of(type)) : OpenAiSends(w, r)
  <2> DEFINE f == of(type)
  <2>1. f = [k \in 1 .. Len(x) |-> f[k]] /\ \A k \in 1 .. Len(x) : f[k].type = type
    BY <1>1
  <2> HIDE DEF f
  <2>2. /\ IsSeq(f)
        /\ \A w \in ToSet(f) : w.type \in {"textDelta", "reasoningDelta", "argumentsDelta"}
    <3> DEFINE n == Len(x)
    <3>1. n \in Nat /\ f = [k \in 1 .. n |-> f[k]] /\ \A k \in 1 .. n : f[k].type = type
      BY <1>1, <2>1
    <3> HIDE DEF n
    <3>2. IsSeq(f) /\ \A w \in ToSet(f) : \E k \in 1 .. n : w = f[k]
      BY ONLY <3>1, FunctionIsSeq
    <3> QED BY <3>1, <3>2
  <2>3. IsSeq(f) /\ \A w \in ToSet(f) : OpenAiSends(w, r)
    BY <2>2 DEF OpenAiSends
  <2> QED BY <2>3 DEF f
<1>3. CASE r.items[i].type = "text"
  BY <1>2, <1>3 DEF OpenAiItemWire
<1>4. CASE r.items[i].type = "thought"
  BY <1>2, <1>4 DEF OpenAiItemWire
<1>5. CASE r.items[i].type = "call"
  <2> DEFINE added == [type |-> "itemAdded", at |-> i]
  <2>1. OpenAiItemWire(r, i) = <<added>> \o of("argumentsDelta")
    BY <1>5 DEF OpenAiItemWire
  <2>2. OpenAiSends(added, r)
    BY <1>5 DEF OpenAiSends, Places
  <2> HIDE DEF added, of
  <2>3. IsSeq(<<added>>) /\ ToSet(<<added>>) = {added}
    BY OneIsSeq
  <2>4. IsSeq(of("argumentsDelta")) /\ \A w \in ToSet(of("argumentsDelta")) : OpenAiSends(w, r)
    BY <1>2
  <2> QED BY <2>1, <2>2, <2>3, <2>4, ConcatIsSeq
<1>6. CASE r.items[i].type \notin {"text", "thought", "call"}
  <2>1. OpenAiItemWire(r, i) = << >>
    BY <1>6 DEF OpenAiItemWire
  <2> QED BY <2>1, EmptyIsSeq
<1> QED BY <1>3, <1>4, <1>5, <1>6

LEMMA OpenAiWireSends ==
  ASSUME NEW r, IsResponse(r), NEW whole
  PROVE  IsSeq(OpenAiWire(r, whole)) /\ \A w \in ToSet(OpenAiWire(r, whole)) : OpenAiSends(w, r)
<1> DEFINE ss == [i \in DOMAIN r.items |-> OpenAiItemWire(r, i)]
<1>1. \A i \in DOMAIN r.items :
        IsSeq(OpenAiItemWire(r, i)) /\ \A w \in ToSet(OpenAiItemWire(r, i)) : OpenAiSends(w, r)
  BY OpenAiItemSends
<1>2. IsSeq(ss) /\ DOMAIN ss = DOMAIN r.items /\ \A i \in DOMAIN r.items : ss[i] = OpenAiItemWire(r, i)
  <2>1. Len(r.items) \in Nat /\ DOMAIN r.items = 1 .. Len(r.items)
    BY ItemsOf
  <2>2. ss = [k \in 1 .. Len(r.items) |-> ss[k]]
    BY <2>1
  <2>3. DOMAIN ss = DOMAIN r.items /\ \A i \in DOMAIN r.items : ss[i] = OpenAiItemWire(r, i)
    OBVIOUS
  <2> HIDE DEF ss
  <2> QED BY <2>1, <2>2, <2>3, FunctionIsSeq
<1> HIDE DEF ss
<1>3. IsSeq(FlattenSeq(ss)) /\ \A w \in ToSet(FlattenSeq(ss)) : OpenAiSends(w, r)
  BY <1>1, <1>2, FlattenIsSeq
<1> DEFINE last == <<[type |-> "completed"]>>
           front == IF whole THEN << >> ELSE FlattenSeq(ss)
<1>4. IsSeq(last) /\ \A w \in ToSet(last) : OpenAiSends(w, r)
  <2>1. OpenAiSends([type |-> "completed"], r)
    BY DEF OpenAiSends
  <2> QED BY <2>1, OneIsSeq
<1>5. IsSeq(front) /\ \A w \in ToSet(front) : OpenAiSends(w, r)
  BY <1>3, EmptyIsSeq
<1>6. OpenAiWire(r, whole) = front \o last
  BY DEF OpenAiWire, ss
<1> HIDE DEF front, last
<1> QED BY <1>4, <1>5, <1>6, ConcatIsSeq

LEMMA WithinIsSeq ==
  ASSUME NEW s, IsSeq(s), NEW T
  PROVE  IsSeq(Within(s, T)) /\ ToSet(Within(s, T)) = ToSet(s) \cap T
<1> DEFINE S == ToSet(s)
<1>1. s \in Seq(S)
  BY DEF IsSeq
<1> HIDE DEF S
<1>2. Within(s, T) \in Seq(S) /\ \A x : x \in ToSet(Within(s, T)) <=> x \in ToSet(s) /\ x \in T
  BY ONLY <1>1, WithinElements
<1>3. IsSeq(Within(s, T))
  BY ONLY <1>2, SeqIsSeq
<1>4. ToSet(Within(s, T)) = ToSet(s) \cap T
  BY ONLY <1>2
<1> QED BY <1>3, <1>4

(***************************************************************************)
(* Gemini: the decoder remembers that a chunk had a call.                  *)
(***************************************************************************)

GeminiState(d) == d.call \in BOOLEAN
GeminiSends(w) == IsSeq(w.parts)

LEMMA GeminiDecodes ==
  ASSUME NEW r, IsResponse(r), NEW d, GeminiState(d), NEW w, GeminiSends(w), NEW step
  PROVE  /\ Yields(GeminiEvent(d, w, step, r), step, d.call, GeminiEvent(d, w, step, r).state.call)
         /\ GeminiState(GeminiEvent(d, w, step, r).state)
<1> DEFINE of(type) == Within(w.parts, Places(r, type))
           text == FlattenSeq([k \in DOMAIN of("text") |-> DataOf(r, of("text")[k])])
           calls == of("call")
           uses == of("search")
           e == [text |-> d.text \/ text # << >>, call |-> d.call \/ calls # << >>, candidate |-> TRUE]
           a == IF text = << >> THEN << >> ELSE <<TextDelta(<<"text", 0>>, text)>>
           b == [k \in DOMAIN calls |->
                   CallDelta(<<"tool", k>>, <<r.items[calls[k]].tool>>, r.items[calls[k]].tool,
                             ArgumentsOf(r, calls[k]))]
           c == [k \in DOMAIN uses |-> ServerToolUse(step)]
           out == GeminiEvent(d, w, step, r)
<1>1. out = Outcome(e, (a \o b) \o c)
  BY DEF GeminiEvent
<1>2. IsSeq(calls) /\ IsSeq(uses)
  BY WithinIsSeq DEF GeminiSends
<1>3. e.call = (d.call \/ calls # << >>)
  OBVIOUS
<1>4. Plain(a) /\ NoCall(a)
  BY PlainEmpty, PlainOne, DeltasPlain
<1> HIDE DEF calls, uses, e, out, a
<1>5. Plain(b) /\ (calls = << >> => NoCall(b))
  <2>1. b = [k \in DOMAIN calls |-> b[k]]
    OBVIOUS
  <2>2. \A k \in DOMAIN calls : PlainEvent(b[k])
    BY CallDeltaPlain
  <2> HIDE DEF b
  <2> QED BY <1>2, <2>1, <2>2, PlainMap
<1>6. Plain(c) /\ NoCall(c)
  BY <1>2, ServerToolUsesPlain
<1> HIDE DEF b, c
<1> DEFINE events == (a \o b) \o c
           before == d.call
           after == e.call
<1>7. Plain(events) /\ (calls = << >> => NoCall(events))
  <2>1. Plain(a \o b) /\ (calls = << >> => NoCall(a \o b))
    BY <1>4, <1>5, PlainConcat
  <2> QED BY <1>6, <2>1, PlainConcat
<1>8. before \in BOOLEAN /\ after \in BOOLEAN /\ (before => after) /\ (calls # << >> => after)
  BY <1>3 DEF GeminiState
<1> HIDE DEF events, before, after
<1>9. NoCall(events) \/ after
  BY <1>7, <1>8
<1>10. Yields(Outcome(e, events), step, before, after)
  BY ONLY <1>7, <1>8, <1>9, YieldsEvents
<1>11. Outcome(e, events).state = e
  BY ONLY OutcomeFields
<1>12. out.state = e
  BY <1>1, <1>11 DEF events
<1>13. Yields(out, step, before, after)
  BY <1>1, <1>10 DEF events
<1>14. GeminiState(e)
  BY <1>8 DEF GeminiState, after
<1> QED BY ONLY <1>12, <1>13, <1>14 DEF before, after, out

LEMMA GeminiEnds ==
  ASSUME NEW r, NEW d, GeminiState(d), NEW step, ~GeminiEnd(d, step, r).error
  PROVE  Yields(GeminiEnd(d, step, r), step, d.call, d.call)
<1> DEFINE a == IF r.items = << >> THEN << >> ELSE <<Continuation(step)>>
           kind == Kind(d.call, d.text)
           events == a \o LastTwo(step, kind)
           known == d.call
<1>1. GeminiEnd(d, step, r) = Over(d, events)
  BY BrokenFails DEF GeminiEnd, LastTwo
<1>2. Plain(a) /\ NoCall(a)
  BY PlainEmpty, PlainOne, WholeItemsPlain
<1>3. kind \in Kinds /\ (kind = "Continue" => ~known) /\ known \in BOOLEAN
  BY KindsOfSteps DEF GeminiState
<1> HIDE DEF a, kind, known
<1>4. Ends(events, step, known)
  <2>1. kind = "Continue" => NoCall(a) /\ ~known
    BY <1>2, <1>3
  <2>2. events = a \o LastTwo(step, kind)
    OBVIOUS
  <2> HIDE DEF events
  <2> QED BY ONLY <1>2, <1>3, <2>1, <2>2 DEF Ends
<1> HIDE DEF events
<1>5. known => known
  OBVIOUS
<1>6. Yields(Over(d, events), step, known, known)
  BY ONLY <1>4, <1>5, YieldsLast
<1> QED BY <1>1, <1>6 DEF known

LEMMA GeminiWireSends ==
  ASSUME NEW r, IsResponse(r), NEW whole
  PROVE  IsSeq(GeminiWire(r, whole)) /\ \A w \in ToSet(GeminiWire(r, whole)) : GeminiSends(w)
<1> DEFINE n == Len(r.items)
           all == [i \in DOMAIN r.items |-> i]
           chunk(is) == [type |-> "chunk", parts |-> is]
           f == [i \in DOMAIN r.items |-> chunk(<<i>>)]
<1>1. n \in Nat /\ DOMAIN r.items = 1 .. n
  BY ItemsOf
<1>2. \A is : IsSeq(is) => GeminiSends(chunk(is))
  BY DEF GeminiSends
<1>3. IsSeq(<<chunk(all)>>) /\ \A w \in ToSet(<<chunk(all)>>) : GeminiSends(w)
  <2>1. all = [i \in 1 .. n |-> all[i]]
    BY <1>1
  <2> HIDE DEF all, n
  <2>2. IsSeq(all)
    BY <1>1, <2>1, FunctionIsSeq
  <2>3. GeminiSends(chunk(all))
    BY <1>2, <2>2
  <2> DEFINE x == chunk(all)
  <2> HIDE DEF x
  <2>4. IsSeq(<<x>>) /\ ToSet(<<x>>) = {x}
    BY OneIsSeq
  <2> QED BY <2>3, <2>4 DEF x
<1>4. IsSeq(f) /\ \A w \in ToSet(f) : GeminiSends(w)
  <2>1. f = [i \in 1 .. n |-> f[i]] /\ \A i \in 1 .. n : GeminiSends(f[i])
    BY <1>1, <1>2, OneIsSeq
  <2> HIDE DEF f, n
  <2>2. IsSeq(f) /\ \A w \in ToSet(f) : \E i \in 1 .. n : w = f[i]
    BY <1>1, <2>1, FunctionIsSeq
  <2> QED BY <2>1, <2>2
<1>5. IsSeq(<<chunk(<< >>)>>) /\ \A w \in ToSet(<<chunk(<< >>)>>) : GeminiSends(w)
  <2>3. GeminiSends(chunk(<< >>))
    BY <1>2, EmptyIsSeq
  <2> DEFINE x == chunk(<< >>)
  <2> HIDE DEF x
  <2>4. IsSeq(<<x>>) /\ ToSet(<<x>>) = {x}
    BY OneIsSeq
  <2> QED BY <2>3, <2>4 DEF x
<1>6. GeminiWire(r, whole) = IF whole THEN <<chunk(all)>> ELSE f \o <<chunk(<< >>)>>
  BY DEF GeminiWire
<1> DEFINE last == <<chunk(<< >>)>>
           one == <<chunk(all)>>
<1>7. /\ IsSeq(last) /\ \A w \in ToSet(last) : GeminiSends(w)
      /\ IsSeq(one) /\ \A w \in ToSet(one) : GeminiSends(w)
      /\ GeminiWire(r, whole) = IF whole THEN one ELSE f \o last
  BY <1>3, <1>5, <1>6
<1> HIDE DEF f, last, one
<1>8. IsSeq(f \o last) /\ ToSet(f \o last) = ToSet(f) \cup ToSet(last)
  BY <1>4, <1>7, ConcatIsSeq
<1>9. IsSeq(f \o last) /\ \A w \in ToSet(f \o last) : GeminiSends(w)
  BY <1>4, <1>7, <1>8
<1> QED BY ONLY <1>7, <1>9

(***************************************************************************)
(* xAI's chat dialect has no client tools.                                 *)
(***************************************************************************)

LEMMA XaiDecodes ==
  ASSUME NEW r, NEW d, NEW w, NEW step
  PROVE  Yields(XaiChatEvent(d, w, step, r), step, FALSE, FALSE)
<1> DEFINE out == XaiChatEvent(d, w, step, r)
<1>1. CASE w.type = "text"
  <2> DEFINE events == <<TextDelta(<<"text", 0>>, w.data)>>
             e == [text |-> TRUE]
  <2>1. out = Outcome(e, events)
    BY <1>1 DEF XaiChatEvent
  <2>2. Plain(events) /\ NoCall(events)
    BY PlainOne, DeltasPlain
  <2> HIDE DEF e, events, out
  <2>3. Yields(Outcome(e, events), step, FALSE, FALSE)
    BY <2>2, YieldsEvents
  <2> QED BY <2>1, <2>3 DEF out
<1>2. CASE w.type = "thought"
  <2> DEFINE events == <<ReasoningDelta(<<"reasoning", 0>>, w.data)>>
  <2>1. out = Outcome(d, events)
    BY <1>2 DEF XaiChatEvent
  <2>2. Plain(events) /\ NoCall(events)
    BY PlainOne, DeltasPlain
  <2> HIDE DEF events, out
  <2>3. Yields(Outcome(d, events), step, FALSE, FALSE)
    BY <2>2, YieldsEvents
  <2> QED BY <2>1, <2>3 DEF out
<1>3. CASE w.type \notin {"text", "thought"}
  <2> DEFINE kind == Kind(FALSE, d.text)
             events == LastTwo(step, kind)
  <2>1. out = Over(d, events)
    BY <1>3 DEF XaiChatEvent, LastTwo
  <2>2. kind \in Kinds
    BY KindsOfSteps
  <2> HIDE DEF kind, out
  <2>3. events = << >> \o LastTwo(step, kind)
    BY LastTwoIsSeq, ConcatEmptySeq DEF IsSeq
  <2>4. Ends(events, step, FALSE)
    BY <2>2, <2>3, PlainEmpty DEF Ends
  <2> HIDE DEF events
  <2>5. Yields(Over(d, events), step, FALSE, FALSE)
    BY <2>4, YieldsLast
  <2> QED BY <2>1, <2>5 DEF out
<1> QED BY <1>1, <1>2, <1>3

LEMMA XaiWireIsSeq ==
  ASSUME NEW r, IsResponse(r), NEW whole
  PROVE  IsSeq(XaiChatWire(r, whole))
<1> DEFINE g(i) == [k \in DOMAIN Fragments(r, i, whole) |->
                      [type |-> r.items[i].type, data |-> Fragments(r, i, whole)[k]]]
           ss == [i \in DOMAIN r.items |-> g(i)]
           last == <<[type |-> IF whole THEN "done" ELSE "finishReason"]>>
           n == Len(r.items)
<1>1. n \in Nat /\ DOMAIN r.items = 1 .. n
  BY ItemsOf
<1>2. ASSUME NEW i \in DOMAIN r.items PROVE IsSeq(g(i))
  <2> DEFINE m == Len(Fragments(r, i, whole))
             f == g(i)
  <2>1. m \in Nat /\ DOMAIN Fragments(r, i, whole) = 1 .. m
    BY FragmentsIsSeq, IsSeqFacts
  <2>2. f = [k \in 1 .. m |-> f[k]]
    BY <2>1
  <2> HIDE DEF f, m
  <2>3. IsSeq(f)
    BY <2>1, <2>2, FunctionIsSeq
  <2> QED BY <2>3 DEF f
<1>3. IsSeq(ss) /\ DOMAIN ss = DOMAIN r.items /\ \A i \in DOMAIN r.items : ss[i] = g(i)
  <2>1. ss = [i \in 1 .. n |-> ss[i]] /\ DOMAIN ss = DOMAIN r.items
        /\ \A i \in DOMAIN r.items : ss[i] = g(i)
    BY <1>1
  <2> HIDE DEF ss, n
  <2>2. IsSeq(ss)
    BY <1>1, <2>1, FunctionIsSeq
  <2> QED BY <2>1, <2>2
<1>4. XaiChatWire(r, whole) = FlattenSeq(ss) \o last
  BY DEF XaiChatWire
<1>5. IsSeq(last)
  BY OneIsSeq
<1>6. \A i \in DOMAIN ss : IsSeq(ss[i])
  <2> HIDE DEF g, ss
  <2> QED BY <1>2, <1>3
<1> HIDE DEF ss, last
<1>7. IsSeq(FlattenSeq(ss))
  BY <1>3, <1>6, FlattenIsSeq
<1> QED BY <1>4, <1>5, <1>7, ConcatIsSeq

(***************************************************************************)
(* A server that does not stream: one message, and never a step to go on.  *)
(***************************************************************************)

LEMMA CompatDecodes ==
  ASSUME NEW r, IsResponse(r), NEW d, NEW w, NEW step
  PROVE  /\ Yields(CompatEvent(d, w, step, r), step, TRUE, TRUE)
         /\ CompatEvent(d, w, step, r).finished
<1> DEFINE calls == Of(r, "call")
           a == IF TextOf(r) = << >> THEN << >> ELSE <<TextDelta(<<"text", 0>>, TextOf(r))>>
           b == [k \in DOMAIN calls |->
                   CallDelta(<<"tool", k>>, <<step, calls[k]>>, r.items[calls[k]].tool,
                             TerminalArguments(r, calls[k]))]
           c == LateReasoning(r)
           e == IF LateReasoning(r) = << >> THEN << >> ELSE <<Continuation(step)>>
           kind == IF calls = << >> THEN "Final" ELSE "ClientTools"
           pre == ((a \o b) \o c) \o e
           events == pre \o LastTwo(step, kind)
<1>1. CompatEvent(d, w, step, r) = Over(d, events)
  BY DEF CompatEvent, LastTwo
<1>2. Plain(a) /\ Plain(e)
  BY PlainEmpty, PlainOne, DeltasPlain, WholeItemsPlain
<1>3. Plain(c)
  BY LateReasoningPlain
<1>4. Plain(b)
  <2>1. IsSeq(calls)
    BY OfIsSeq
  <2> HIDE DEF calls
  <2>2. b = [k \in DOMAIN calls |-> b[k]]
    OBVIOUS
  <2>3. \A k \in DOMAIN calls : PlainEvent(b[k])
    BY CallDeltaPlain
  <2> HIDE DEF b
  <2> QED BY <2>1, <2>2, <2>3, PlainMap
<1>5. kind \in Kinds /\ kind # "Continue"
  BY DEF Kinds
<1> HIDE DEF a, b, c, e, kind
<1>6. Plain(pre)
  <2>1. Plain(a \o b)
    BY <1>2, <1>4, PlainConcat
  <2>2. Plain((a \o b) \o c)
    BY <1>3, <2>1, PlainConcat
  <2> QED BY <1>2, <2>2, PlainConcat
<1> HIDE DEF pre
<1>7. Ends(events, step, TRUE)
  BY <1>5, <1>6 DEF Ends
<1> HIDE DEF events
<1>8. Yields(Over(d, events), step, TRUE, TRUE)
  BY <1>7, YieldsLast
<1>9. Over(d, events).finished
  BY ONLY OverFields
<1> QED BY <1>1, <1>8, <1>9

(***************************************************************************)
(* Anthropic: block i is the response's item i, so that the decoder always *)
(* finds the block of an event.                                            *)
(***************************************************************************)

AnthropicState(d, r) ==
  /\ {"text", "reasoning", "blocks", "paused"} \subseteq DOMAIN d
  /\ IsSeq(d.blocks)
  /\ \A i \in DOMAIN d.blocks : /\ i \in DOMAIN r.items /\ "type" \in DOMAIN d.blocks[i]
                                /\ d.blocks[i].type = r.items[i].type
AnthropicKnows(d) == \E i \in DOMAIN d.blocks : d.blocks[i].type = "call"
AnthropicEvents == {"blockStart", "blockDelta", "blockStop", "messageDelta", "messageStop"}
AnthropicSends(w, r, top) ==
  /\ w.type \in AnthropicEvents
  /\ w.type = "blockStart" => w.at = top + 1 /\ w.at \in DOMAIN r.items
  /\ w.type \in {"blockDelta", "blockStop"} => w.at \in 1 .. top
  /\ w.type = "blockDelta" => r.items[w.at].type # "search"

LEMMA AnthropicEnds ==
  ASSUME NEW r, IsResponse(r), NEW d, IsSeq(d.blocks), NEW step
  PROVE  Ends(AnthropicTerminal(d, step, r), step, AnthropicKnows(d))
<1> DEFINE blocks(type) == Only(d.blocks, {type})
           text == FlattenSeq([k \in DOMAIN blocks("text") |-> blocks("text")[k].data])
           a == IF d.text \/ text = << >> THEN << >> ELSE <<TextDelta(<<"terminal text", 0>>, text)>>
           b == IF d.reasoning THEN << >> ELSE LateReasoning(r)
           calls == blocks("call")
           kind == Kind(calls # << >>, text # << >> /\ ~d.paused)
           known == AnthropicKnows(d)
<1>1. Plain(a) /\ NoCall(a)
  BY PlainEmpty, PlainOne, DeltasPlain
<1>2. Plain(b) /\ NoCall(b)
  BY PlainEmpty, LateReasoningPlain
<1>3. AnthropicTerminal(d, step, r) = (a \o b) \o Closing(step, r, kind)
  BY DEF AnthropicTerminal
<1>4. kind \in Kinds /\ (kind = "Continue" => calls = << >>)
  BY KindsOfSteps
<1>5. calls = << >> => ~known
  <2> SUFFICES ASSUME known PROVE calls # << >>
    OBVIOUS
  <2>1. PICK i \in DOMAIN d.blocks : d.blocks[i].type = "call"
    BY DEF AnthropicKnows
  <2>2. d.blocks[i] \in ToSet(d.blocks)
    BY IsSeqFacts
  <2>3. d.blocks[i] \in ToSet(calls)
    BY <2>1, <2>2, OnlyElements
  <2> QED BY <2>3, EmptyIsSeq
<1> HIDE DEF a, b, kind, calls, known
<1>6. Plain(a \o b) /\ NoCall(a \o b)
  BY <1>1, <1>2, PlainConcat
<1>7. \E pre : /\ (a \o b) \o Closing(step, r, kind) = pre \o LastTwo(step, kind)
               /\ Plain(pre) /\ (NoCall(a \o b) => NoCall(pre))
  BY <1>6, ClosingShape
<1>8. PICK pre : /\ AnthropicTerminal(d, step, r) = pre \o LastTwo(step, kind)
                 /\ Plain(pre) /\ NoCall(pre)
  BY <1>3, <1>6, <1>7
<1>9. kind = "Continue" => NoCall(pre) /\ ~known
  BY <1>4, <1>5, <1>8
<1>10. Ends(AnthropicTerminal(d, step, r), step, known)
  BY ONLY <1>4, <1>8, <1>9 DEF Ends
<1> QED BY <1>10 DEF known

\* A block that changes keeps its type.
LEMMA BlockChanges ==
  ASSUME NEW r, NEW d, AnthropicState(d, r), NEW i \in DOMAIN d.blocks, NEW x,
         "type" \in DOMAIN x, x.type = d.blocks[i].type,
         NEW e, DOMAIN e = DOMAIN d, e.blocks = [d.blocks EXCEPT ![i] = x]
  PROVE  /\ AnthropicState(e, r) /\ Len(e.blocks) = Len(d.blocks)
         /\ AnthropicKnows(e) <=> AnthropicKnows(d)
<1> DEFINE s == d.blocks
           t == [s EXCEPT ![i] = x]
<1>1. IsSeq(s)
  BY DEF AnthropicState
<1>2. IsSeq(t) /\ DOMAIN t = DOMAIN s
  BY <1>1, ReplaceIsSeq
<1>3. Len(t) = Len(s)
  <2>1. Len(s) \in Nat /\ DOMAIN s = 1 .. Len(s)
    BY <1>1, IsSeqFacts
  <2> DEFINE m == Len(s)
  <2>2. t = [k \in 1 .. m |-> t[k]] /\ m \in Nat
    BY <2>1
  <2> HIDE DEF t, m, s
  <2>3. Len(t) = m
    BY ONLY <2>2, FunctionIsSeq
  <2> QED BY <2>3 DEF m
<1>4. \A k \in DOMAIN s : t[k].type = s[k].type
  OBVIOUS
<1>5. \A k \in DOMAIN s : "type" \in DOMAIN s[k] => "type" \in DOMAIN t[k]
  OBVIOUS
<1>6. e.blocks = t
  OBVIOUS
<1> HIDE DEF t
<1>7. AnthropicState(e, r)
  BY <1>2, <1>4, <1>5, <1>6 DEF AnthropicState
<1>8. AnthropicKnows(e) <=> AnthropicKnows(d)
  BY <1>2, <1>4, <1>6 DEF AnthropicKnows
<1> QED BY <1>3, <1>6, <1>7, <1>8

LEMMA BlockStarts ==
  ASSUME NEW r, NEW d, AnthropicState(d, r), Len(d.blocks) + 1 \in DOMAIN r.items, NEW x,
         "type" \in DOMAIN x, x.type = r.items[Len(d.blocks) + 1].type,
         NEW e, DOMAIN e = DOMAIN d, e.blocks = Append(d.blocks, x)
  PROVE  /\ AnthropicState(e, r) /\ Len(e.blocks) = Len(d.blocks) + 1
         /\ AnthropicKnows(d) => AnthropicKnows(e)
<1> DEFINE s == d.blocks
           t == Append(s, x)
           n == Len(s)
<1>1. IsSeq(s)
  BY DEF AnthropicState
<1>2. n \in Nat /\ DOMAIN s = 1 .. n
  BY <1>1, IsSeqFacts
<1>3. IsSeq(t) /\ Len(t) = n + 1 /\ t[n + 1] = x /\ \A k \in 1 .. n : t[k] = s[k]
  <2> HIDE DEF s
  <2> QED BY ONLY <1>1, AppendIsSeq, ZenonT(30) DEF t, n
<1>4. e.blocks = t
  OBVIOUS
<1> HIDE DEF t
<1>5. DOMAIN t = 1 .. n + 1
  BY <1>3, IsSeqFacts
<1>6. \A k \in 1 .. n + 1 : k \in 1 .. n \/ k = n + 1
  BY <1>2
<1>7. \A k \in DOMAIN t : /\ k \in DOMAIN r.items /\ "type" \in DOMAIN t[k]
                          /\ t[k].type = r.items[k].type
  BY <1>2, <1>3, <1>5, <1>6 DEF AnthropicState
<1>8. AnthropicState(e, r)
  BY <1>3, <1>4, <1>7 DEF AnthropicState
<1>9. AnthropicKnows(d) => AnthropicKnows(e)
  <2>1. \A k \in DOMAIN s : k \in DOMAIN t
    BY <1>2, <1>5
  <2> QED BY <1>2, <1>3, <1>4, <2>1 DEF AnthropicKnows
<1> QED BY <1>3, <1>4, <1>8, <1>9

LEMMA AnthropicDeltaDecodes ==
  ASSUME NEW r, IsResponse(r), NEW d, AnthropicState(d, r), NEW w,
         AnthropicSends(w, r, Len(d.blocks)), NEW step, w.type = "blockDelta"
  PROVE  LET out == AnthropicDelta(d, w, step, r)
         IN /\ Yields(out, step, AnthropicKnows(d), AnthropicKnows(out.state))
            /\ AnthropicState(out.state, r) /\ Len(out.state.blocks) = Len(d.blocks)
<1> DEFINE i == w.at
           out == AnthropicDelta(d, w, step, r)
           Goal == /\ Yields(out, step, AnthropicKnows(d), AnthropicKnows(out.state))
                   /\ AnthropicState(out.state, r) /\ Len(out.state.blocks) = Len(d.blocks)
<1>1. i \in DOMAIN d.blocks /\ d.blocks[i].type \in {"text", "thought", "call"}
  <2>1. i \in DOMAIN d.blocks
    BY IsSeqFacts DEF AnthropicSends, AnthropicState
  <2>2. d.blocks[i].type = r.items[i].type /\ i \in DOMAIN r.items
    BY <2>1 DEF AnthropicState
  <2>3. r.items[i].type \in ItemTypes /\ r.items[i].type # "search"
    BY <2>2, ItemsOf DEF AnthropicSends
  <2> QED BY <2>1, <2>2, <2>3 DEF ItemTypes
<1>2. "type" \in DOMAIN d.blocks[i] /\ {"text", "reasoning", "blocks", "paused"} \subseteq DOMAIN d
  BY <1>1 DEF AnthropicState
<1>3. ASSUME NEW e, NEW x, NEW events, out = Outcome(e, events), Plain(events),
             NoCall(events) \/ AnthropicKnows(d),
             "type" \in DOMAIN x, x.type = d.blocks[i].type,
             DOMAIN e = DOMAIN d, e.blocks = [d.blocks EXCEPT ![i] = x]
      PROVE  Goal
  <2>1. /\ AnthropicState(e, r) /\ Len(e.blocks) = Len(d.blocks)
        /\ AnthropicKnows(e) <=> AnthropicKnows(d)
    BY <1>1, <1>3, BlockChanges
  <2> DEFINE before == AnthropicKnows(d)
             after == AnthropicKnows(e)
  <2>2. (before => after) /\ (NoCall(events) \/ after) /\ Plain(events)
    BY <1>3, <2>1
  <2> HIDE DEF before, after
  <2>3. Yields(Outcome(e, events), step, before, after)
    BY ONLY <2>2, YieldsEvents
  <2>4. Outcome(e, events).state = e
    BY ONLY OutcomeFields
  <2> HIDE DEF out
  <2> QED BY ONLY <1>3, <2>1, <2>3, <2>4 DEF before, after
<1>4. CASE d.blocks[i].type = "text"
  <2> DEFINE x == [d.blocks[i] EXCEPT !.data = @ \o w.data]
             grown == [d EXCEPT !.blocks[w.at].data = @ \o w.data]
             e == [grown EXCEPT !.text = TRUE]
             events == <<TextDelta(<<"item", w.at>>, w.data)>>
  <2>1. out = Outcome(e, events)
    BY <1>4 DEF AnthropicDelta
  <2>2. DOMAIN e = DOMAIN d /\ e.blocks = [d.blocks EXCEPT ![i] = x]
    BY <1>2
  <2>3. "type" \in DOMAIN x /\ x.type = d.blocks[i].type
    BY <1>2
  <2>4. Plain(events) /\ NoCall(events)
    BY PlainOne, DeltasPlain
  <2> HIDE DEF x, e, events, out, Goal
  <2>5. Goal
    BY ONLY <1>3, <2>1, <2>2, <2>3, <2>4
  <2> QED BY <2>5 DEF Goal, out
<1>5. CASE d.blocks[i].type = "thought"
  <2> DEFINE x == [d.blocks[i] EXCEPT !.data = @ \o w.data]
             grown == [d EXCEPT !.blocks[w.at].data = @ \o w.data]
             e == [grown EXCEPT !.reasoning = TRUE]
             events == <<ReasoningDelta(<<"item", w.at>>, w.data)>>
  <2>1. out = Outcome(e, events)
    BY <1>5 DEF AnthropicDelta
  <2>2. DOMAIN e = DOMAIN d /\ e.blocks = [d.blocks EXCEPT ![i] = x]
    BY <1>2
  <2>3. "type" \in DOMAIN x /\ x.type = d.blocks[i].type
    BY <1>2
  <2>4. Plain(events) /\ NoCall(events)
    BY PlainOne, DeltasPlain
  <2> HIDE DEF x, e, events, out, Goal
  <2>5. Goal
    BY ONLY <1>3, <2>1, <2>2, <2>3, <2>4
  <2> QED BY <2>5 DEF Goal, out
<1>6. CASE d.blocks[i].type = "call"
  <2> DEFINE x == [d.blocks[i] EXCEPT !.json = @ \o w.data, !.told = TRUE]
             e == [d EXCEPT !.blocks[w.at].json = @ \o w.data, !.blocks[w.at].told = TRUE]
             events == <<AnthropicCall(step, r, w.at, w.data)>>
  <2>1. out = Outcome(e, events)
    BY <1>6 DEF AnthropicDelta
  <2>2. DOMAIN e = DOMAIN d /\ e.blocks = [d.blocks EXCEPT ![i] = x]
    BY <1>1, <1>2
  <2>3. "type" \in DOMAIN x /\ x.type = d.blocks[i].type
    BY <1>2
  <2>4. Plain(events) /\ AnthropicKnows(d)
    BY <1>1, <1>6, PlainOne, CallDeltaPlain DEF AnthropicKnows, AnthropicCall
  <2> HIDE DEF x, e, events, out, Goal
  <2>5. Goal
    BY ONLY <1>3, <2>1, <2>2, <2>3, <2>4
  <2> QED BY <2>5 DEF Goal, out
<1> QED BY <1>1, <1>4, <1>5, <1>6

LEMMA AnthropicStopDecodes ==
  ASSUME NEW r, NEW d, AnthropicState(d, r), NEW w, w.at \in 1 .. Len(d.blocks), NEW step,
         ~AnthropicStop(d, w, step, r).error
  PROVE  LET out == AnthropicStop(d, w, step, r)
         IN /\ Yields(out, step, AnthropicKnows(d), AnthropicKnows(out.state))
            /\ AnthropicState(out.state, r) /\ Len(out.state.blocks) = Len(d.blocks)
<1> DEFINE i == w.at
           block == d.blocks[i]
           data == IF block.json = << >> THEN block.data ELSE block.json
           x == [block EXCEPT !.data = data]
           e == [d EXCEPT !.blocks[w.at].data = data]
           tells == block.type = "call" /\ ~block.told
           events == IF tells THEN <<AnthropicCall(step, r, w.at, data)>> ELSE << >>
           out == AnthropicStop(d, w, step, r)
<1>1. i \in DOMAIN d.blocks /\ "type" \in DOMAIN block
      /\ {"text", "reasoning", "blocks", "paused"} \subseteq DOMAIN d
  BY IsSeqFacts DEF AnthropicState
<1>2. out = Outcome(e, events)
  BY BrokenFails DEF AnthropicStop
<1>3. DOMAIN e = DOMAIN d /\ e.blocks = [d.blocks EXCEPT ![i] = x]
  BY <1>1
<1>4. "type" \in DOMAIN x /\ x.type = block.type
  BY <1>1
<1>5. Plain(events)
  BY PlainEmpty, PlainOne, CallDeltaPlain DEF AnthropicCall
<1>6. NoCall(events) \/ AnthropicKnows(d)
  BY <1>1, PlainEmpty DEF AnthropicKnows
<1> HIDE DEF x, e, events, out
<1>7. /\ AnthropicState(e, r) /\ Len(e.blocks) = Len(d.blocks)
      /\ AnthropicKnows(e) <=> AnthropicKnows(d)
  BY <1>1, <1>3, <1>4, BlockChanges
<1> DEFINE before == AnthropicKnows(d)
           after == AnthropicKnows(e)
<1>8. (before => after) /\ (NoCall(events) \/ after)
  BY <1>6, <1>7
<1> HIDE DEF before, after
<1>9. Yields(Outcome(e, events), step, before, after)
  BY ONLY <1>5, <1>8, YieldsEvents
<1>10. Outcome(e, events).state = e
  BY ONLY OutcomeFields
<1>11. out.state = e /\ Yields(out, step, before, after)
  BY ONLY <1>2, <1>9, <1>10
<1> QED BY ONLY <1>7, <1>11 DEF before, after, out

LEMMA AnthropicDecodes ==
  ASSUME NEW r, IsResponse(r), NEW d, AnthropicState(d, r), NEW w,
         AnthropicSends(w, r, Len(d.blocks)), NEW step, ~AnthropicEvent(d, w, step, r).error
  PROVE  LET out == AnthropicEvent(d, w, step, r)
         IN /\ Yields(out, step, AnthropicKnows(d), AnthropicKnows(out.state))
            /\ AnthropicState(out.state, r)
            /\ Len(out.state.blocks) = IF w.type = "blockStart" THEN Len(d.blocks) + 1
                                       ELSE Len(d.blocks)
<1> DEFINE out == AnthropicEvent(d, w, step, r)
           Goal == /\ Yields(out, step, AnthropicKnows(d), AnthropicKnows(out.state))
                   /\ AnthropicState(out.state, r)
                   /\ Len(out.state.blocks) = IF w.type = "blockStart" THEN Len(d.blocks) + 1
                                              ELSE Len(d.blocks)
<1> SUFFICES Goal
  OBVIOUS
<1>0. {"text", "reasoning", "blocks", "paused"} \subseteq DOMAIN d /\ IsSeq(d.blocks)
  BY DEF AnthropicState
<1>1. CASE w.type = "blockStart"
  <2> DEFINE starts == r.items[w.at].type = "text" /\ w.data # << >>
             x == [type |-> r.items[w.at].type, data |-> w.data, json |-> << >>, told |-> FALSE]
             e == [d EXCEPT !.blocks = Append(@, x), !.text = @ \/ starts]
             events == IF starts THEN <<TextDelta(<<"item", w.at>>, w.data)>> ELSE << >>
  <2>1. out = Outcome(e, events)
    BY <1>1 DEF AnthropicEvent
  <2>2. Plain(events) /\ NoCall(events)
    BY PlainEmpty, PlainOne, DeltasPlain
  <2>3. DOMAIN e = DOMAIN d /\ e.blocks = Append(d.blocks, x)
    BY <1>0
  <2>4. /\ w.at = Len(d.blocks) + 1 /\ Len(d.blocks) + 1 \in DOMAIN r.items
        /\ "type" \in DOMAIN x /\ x.type = r.items[Len(d.blocks) + 1].type
    BY <1>1 DEF AnthropicSends
  <2> HIDE DEF x, e, events, out
  <2>5. /\ AnthropicState(e, r) /\ Len(e.blocks) = Len(d.blocks) + 1
        /\ AnthropicKnows(d) => AnthropicKnows(e)
    BY ONLY AnthropicState(d, r), <2>3, <2>4, BlockStarts
  <2> DEFINE before == AnthropicKnows(d)
             after == AnthropicKnows(e)
  <2>6. before => after
    BY <2>5
  <2> HIDE DEF before, after
  <2>7. Yields(Outcome(e, events), step, before, after)
    BY ONLY <2>2, <2>6, YieldsEvents
  <2>8. Outcome(e, events).state = e
    BY ONLY OutcomeFields
  <2>9. out.state = e /\ Yields(out, step, before, after)
    BY ONLY <2>1, <2>7, <2>8
  <2> QED BY ONLY <1>1, <2>5, <2>9 DEF before, after
<1>2. CASE w.type = "blockDelta"
  <2>1. out = AnthropicDelta(d, w, step, r)
    BY <1>2 DEF AnthropicEvent
  <2>2. LET o == AnthropicDelta(d, w, step, r)
        IN /\ Yields(o, step, AnthropicKnows(d), AnthropicKnows(o.state))
           /\ AnthropicState(o.state, r) /\ Len(o.state.blocks) = Len(d.blocks)
    BY <1>2, AnthropicDeltaDecodes
  <2> HIDE DEF out
  <2> QED BY ONLY <1>2, <2>1, <2>2
<1>3. CASE w.type = "blockStop"
  <2>1. out = AnthropicStop(d, w, step, r) /\ w.at \in 1 .. Len(d.blocks)
    BY <1>3 DEF AnthropicEvent, AnthropicSends
  <2>2. ~AnthropicStop(d, w, step, r).error
    BY <2>1
  <2>3. LET o == AnthropicStop(d, w, step, r)
        IN /\ Yields(o, step, AnthropicKnows(d), AnthropicKnows(o.state))
           /\ AnthropicState(o.state, r) /\ Len(o.state.blocks) = Len(d.blocks)
    BY <2>1, <2>2, AnthropicStopDecodes
  <2> HIDE DEF out
  <2> QED BY ONLY <1>3, <2>1, <2>3
<1>4. CASE w.type = "messageDelta"
  <2> DEFINE e == [d EXCEPT !.paused = r.paused]
  <2>1. out = Outcome(e, << >>)
    BY <1>4 DEF AnthropicEvent
  <2>2. e.blocks = d.blocks /\ DOMAIN e = DOMAIN d
    BY <1>0
  <2> HIDE DEF e, out
  <2>3. AnthropicState(e, r) /\ (AnthropicKnows(d) <=> AnthropicKnows(e))
    BY ONLY AnthropicState(d, r), <2>2 DEF AnthropicState, AnthropicKnows
  <2> DEFINE before == AnthropicKnows(d)
             after == AnthropicKnows(e)
  <2>4. before => after
    BY <2>3
  <2> HIDE DEF before, after
  <2>5. Yields(Outcome(e, << >>), step, before, after)
    BY ONLY <2>4, PlainEmpty, YieldsEvents
  <2>6. Outcome(e, << >>).state = e
    BY ONLY OutcomeFields
  <2>7. out.state = e /\ Yields(out, step, before, after)
    BY ONLY <2>1, <2>5, <2>6
  <2> QED BY ONLY <1>4, <2>2, <2>3, <2>7 DEF before, after
<1>5. CASE w.type = "messageStop"
  <2> DEFINE events == AnthropicTerminal(d, step, r)
             known == AnthropicKnows(d)
  <2>1. out = Over(d, events)
    BY <1>5 DEF AnthropicEvent
  <2>2. Ends(events, step, known)
    BY <1>0, AnthropicEnds
  <2> HIDE DEF events, known, out
  <2>3. Yields(Over(d, events), step, known, known)
    BY ONLY <2>2, YieldsLast
  <2>4. Over(d, events).state = d
    BY ONLY OverFields
  <2>5. out.state = d /\ Yields(out, step, known, known)
    BY ONLY <2>1, <2>3, <2>4
  <2> QED BY ONLY AnthropicState(d, r), <1>5, <2>5 DEF known
<1> QED BY <1>1, <1>2, <1>3, <1>4, <1>5 DEF AnthropicSends, AnthropicEvents

(***************************************************************************)
(* What is still to come of a message, once `top' blocks have started: the *)
(* blocks start in order, and grow and stop after that.                    *)
(***************************************************************************)

StartsAt(w, i) == w.type = "blockStart" /\ w.at = i
AnthropicFollows(wire, r, top, p) ==
  LET w == wire[p]
      Earlier(i) == \E q \in 1 .. p - 1 : StartsAt(wire[q], i)
  IN /\ w.type \in AnthropicEvents
     /\ w.type = "blockStart" =>
          /\ w.at \in DOMAIN r.items /\ w.at > top
          /\ w.at = top + 1 \/ Earlier(w.at - 1)
          /\ \A q \in 1 .. p - 1 : wire[q].type = "blockStart" => wire[q].at < w.at
     /\ w.type \in {"blockDelta", "blockStop"} => w.at \in 1 .. top \/ Earlier(w.at)
     /\ w.type = "blockDelta" => r.items[w.at].type # "search"
AnthropicStream(wire, r, top) ==
  IsSeq(wire) /\ \A p \in DOMAIN wire : AnthropicFollows(wire, r, top, p)

LEMMA AnthropicTail ==
  ASSUME NEW r, IsResponse(r), NEW top \in Nat, NEW wire, AnthropicStream(wire, r, top), wire # << >>
  PROVE  /\ AnthropicSends(Head(wire), r, top)
         /\ AnthropicStream(Tail(wire), r, IF Head(wire).type = "blockStart" THEN top + 1 ELSE top)
<1> DEFINE t == Tail(wire)
           h == wire[1]
           n == Len(wire)
           next == IF h.type = "blockStart" THEN top + 1 ELSE top
<1>1. /\ IsSeq(t) /\ Head(wire) = h /\ n \in Nat \ {0} /\ Len(t) = n - 1
      /\ (\A i \in 1 .. n - 1 : t[i] = wire[i + 1]) /\ DOMAIN t = 1 .. n - 1
      /\ IsSeq(wire) /\ DOMAIN wire = 1 .. n
  <2>1. IsSeq(wire)
    BY DEF AnthropicStream
  <2>2. /\ IsSeq(t) /\ Head(wire) = h /\ n \in Nat \ {0} /\ Len(t) = n - 1
        /\ \A i \in 1 .. n - 1 : t[i] = wire[i + 1]
    BY <2>1, TailIsSeq
  <2> QED BY <2>1, <2>2, IsSeqFacts
<1>2. AnthropicFollows(wire, r, top, 1)
  <2>1. 1 \in DOMAIN wire
    BY <1>1
  <2> QED BY <2>1 DEF AnthropicStream
<1>3. /\ h.type \in AnthropicEvents
      /\ h.type = "blockStart" => h.at = top + 1 /\ h.at \in DOMAIN r.items
      /\ h.type \in {"blockDelta", "blockStop"} => h.at \in 1 .. top
      /\ h.type = "blockDelta" => r.items[h.at].type # "search"
  BY <1>2 DEF AnthropicFollows
<1>4. ASSUME NEW p \in 1 .. n - 1 PROVE AnthropicFollows(t, r, next, p)
  <2> DEFINE k == p + 1
             w == wire[k]
             Before(i) == \E q \in 1 .. k - 1 : StartsAt(wire[q], i)
             Earlier(i) == \E q \in 1 .. p - 1 : StartsAt(t[q], i)
  <2>1. /\ p \in Nat /\ k \in 1 .. n /\ k - 1 = p /\ t[p] = w /\ 1 \in 1 .. k - 1
        /\ \A q \in 1 .. p - 1 : q \in 1 .. n - 1 /\ q + 1 \in 1 .. k - 1 /\ t[q] = wire[q + 1]
        /\ \A q \in 1 .. k - 1 : q = 1 \/ (q - 1 \in 1 .. p - 1 /\ wire[q] = t[q - 1])
    <3>1. p \in Nat /\ k \in 1 .. n /\ k - 1 = p /\ t[p] = w /\ 1 \in 1 .. k - 1
      BY <1>1
    <3>2. ASSUME NEW q \in 1 .. p - 1
          PROVE  q \in 1 .. n - 1 /\ q + 1 \in 1 .. k - 1 /\ t[q] = wire[q + 1]
      BY <1>1
    <3>3. ASSUME NEW q \in 1 .. k - 1, q # 1
          PROVE  q - 1 \in 1 .. p - 1 /\ wire[q] = t[q - 1]
      <4>1. q - 1 \in 1 .. p - 1 /\ q - 1 \in 1 .. n - 1 /\ q - 1 + 1 = q
        BY <1>1, <3>1, <3>3
      <4>2. t[q - 1] = wire[q - 1 + 1]
        BY ONLY <1>1, <4>1
      <4> QED BY <4>1, <4>2
    <3> QED BY <3>1, <3>2, <3>3
  <2>2. /\ w.type \in AnthropicEvents
        /\ w.type = "blockStart" =>
             /\ w.at \in DOMAIN r.items /\ w.at > top
             /\ w.at = top + 1 \/ Before(w.at - 1)
             /\ \A q \in 1 .. k - 1 : wire[q].type = "blockStart" => wire[q].at < w.at
        /\ w.type \in {"blockDelta", "blockStop"} => w.at \in 1 .. top \/ Before(w.at)
        /\ w.type = "blockDelta" => r.items[w.at].type # "search"
    <3>1. AnthropicFollows(wire, r, top, k)
      BY <1>1, <2>1 DEF AnthropicStream
    <3> QED BY <3>1 DEF AnthropicFollows
  <2>3. \A i : Before(i) => StartsAt(h, i) \/ Earlier(i)
    BY <2>1
  <2>4. DOMAIN r.items \subseteq Nat
    BY ItemsOf
  <2>5. ASSUME w.type = "blockStart"
        PROVE  /\ w.at \in DOMAIN r.items /\ w.at > next
               /\ w.at = next + 1 \/ Earlier(w.at - 1)
               /\ \A q \in 1 .. p - 1 : t[q].type = "blockStart" => t[q].at < w.at
    <3>1. h.type = "blockStart" => h.at < w.at /\ h.at = top + 1
      BY <1>3, <2>1, <2>2, <2>5
    <3>2. w.at \in Nat /\ w.at > next
      BY <2>2, <2>4, <2>5, <3>1
    <3>3. w.at = next + 1 \/ Earlier(w.at - 1)
      <4>1. CASE w.at = top + 1
        BY <3>1, <4>1
      <4>2. CASE StartsAt(h, w.at - 1)
        <5>1. h.type = "blockStart" /\ h.at = w.at - 1 /\ h.at = top + 1
          BY <1>3, <4>2 DEF StartsAt
        <5> QED BY <3>2, <5>1
      <4>3. CASE Earlier(w.at - 1)
        BY <4>3
      <4> HIDE DEF Before, Earlier
      <4> QED BY <2>2, <2>3, <2>5, <4>1, <4>2, <4>3
    <3>4. \A q \in 1 .. p - 1 : t[q].type = "blockStart" => t[q].at < w.at
      BY <2>1, <2>2, <2>5
    <3> QED BY <2>2, <2>5, <3>2, <3>3, <3>4
  <2>6. ASSUME w.type \in {"blockDelta", "blockStop"}
        PROVE  w.at \in 1 .. next \/ Earlier(w.at)
    <3>1. w.at \in 1 .. top => w.at \in 1 .. next
      OBVIOUS
    <3>2. StartsAt(h, w.at) => w.at \in 1 .. next
      BY <1>3 DEF StartsAt
    <3> HIDE DEF Before, Earlier
    <3> QED BY <2>2, <2>3, <2>6, <3>1, <3>2
  <2>7. t[p] = w
    BY <2>1
  <2> HIDE DEF w, next, t
  <2> QED BY ONLY <2>2, <2>5, <2>6, <2>7 DEF AnthropicFollows
<1> HIDE DEF t, next, h
<1>5. AnthropicStream(t, r, next)
  BY <1>1, <1>4 DEF AnthropicStream
<1>6. AnthropicSends(h, r, top)
  BY <1>3 DEF AnthropicSends
<1> QED BY <1>1, <1>5, <1>6 DEF t, next

\* A stream that goes on.
LEMMA AnthropicGoesOn ==
  ASSUME NEW r, NEW s, AnthropicStream(s, r, 0), NEW t, IsSeq(t),
         \A p \in 1 .. Len(t) : AnthropicFollows(s \o t, r, 0, Len(s) + p)
  PROVE  AnthropicStream(s \o t, r, 0)
<1> DEFINE u == s \o t
           m == Len(s)
           n == Len(t)
<1>1. IsSeq(s)
  BY DEF AnthropicStream
<1>2. /\ m \in Nat /\ n \in Nat /\ DOMAIN s = 1 .. m /\ DOMAIN t = 1 .. n /\ DOMAIN u = 1 .. m + n
      /\ \A p \in 1 .. m : u[p] = s[p]
  BY <1>1, ConcatValues
<1>3. IsSeq(u)
  BY <1>1, ConcatIsSeq
<1>4. ASSUME NEW p \in 1 .. m PROVE AnthropicFollows(u, r, 0, p)
  <2>1. AnthropicFollows(s, r, 0, p)
    BY <1>2 DEF AnthropicStream
  <2>2. u[p] = s[p] /\ \A q \in 1 .. p - 1 : u[q] = s[q]
    BY <1>2
  <2> HIDE DEF u
  <2> QED BY ONLY <2>1, <2>2 DEF AnthropicFollows
<1>5. ASSUME NEW p \in 1 .. m + n, ~(p \in 1 .. m) PROVE AnthropicFollows(u, r, 0, p)
  <2> DEFINE k == p - m
  <2>1. k \in 1 .. n /\ m + k = p
    BY <1>2, <1>5
  <2> HIDE DEF k
  <2>2. AnthropicFollows(u, r, 0, m + k)
    BY <2>1
  <2> QED BY <2>1, <2>2
<1> HIDE DEF u, m, n
<1>6. AnthropicStream(u, r, 0)
  BY <1>2, <1>3, <1>4, <1>5 DEF AnthropicStream
<1> QED BY <1>6 DEF u

BlockWire(t, r, i) ==
  /\ IsSeq(t) /\ Len(t) > 0 /\ StartsAt(t[1], i)
  /\ \A p \in 2 .. Len(t) : /\ t[p].type \in {"blockDelta", "blockStop"} /\ t[p].at = i
                            /\ t[p].type = "blockDelta" => r.items[i].type # "search"

LEMMA AnthropicItemIsBlock ==
  ASSUME NEW r, IsResponse(r), NEW i \in DOMAIN r.items, NEW whole
  PROVE  BlockWire(AnthropicItemWire(r, i, whole), r, i)
<1> DEFINE start == [type |-> "blockStart", at |-> i,
                     data |-> IF whole THEN IF r.items[i].type = "call" THEN ArgumentsOf(r, i) ELSE DataOf(r, i)
                              ELSE IF r.items[i].type = "call" THEN EmptyObject ELSE << >>]
           x == Fragments(r, i, FALSE)
           grow == [k \in DOMAIN x |-> [type |-> "blockDelta", at |-> i, data |-> x[k]]]
           middle == IF whole \/ r.items[i].type = "search" THEN << >> ELSE grow
           stop == [type |-> "blockStop", at |-> i]
           a == <<start>>
           c == <<stop>>
<1>1. AnthropicItemWire(r, i, whole) = (a \o middle) \o c
  BY DEF AnthropicItemWire
<1>2. Len(x) \in Nat /\ DOMAIN x = 1 .. Len(x)
  BY FragmentsIsSeq, IsSeqFacts
<1>3. IsSeq(grow) /\ Len(grow) = Len(x) /\ \A k \in 1 .. Len(x) : grow[k].type = "blockDelta" /\ grow[k].at = i
  <2>1. grow = [k \in 1 .. Len(x) |-> grow[k]]
        /\ \A k \in 1 .. Len(x) : grow[k].type = "blockDelta" /\ grow[k].at = i
    BY <1>2
  <2> DEFINE n == Len(x)
  <2>2. grow = [k \in 1 .. n |-> grow[k]] /\ n \in Nat
    BY <1>2, <2>1
  <2> HIDE DEF grow, n
  <2>3. IsSeq(grow) /\ Len(grow) = n
    BY ONLY <2>2, FunctionIsSeq
  <2> QED BY <2>1, <2>3 DEF n
<1>4. /\ IsSeq(middle)
      /\ \A k \in 1 .. Len(middle) : /\ middle[k].type = "blockDelta" /\ middle[k].at = i
                                     /\ r.items[i].type # "search"
  <2> HIDE DEF grow
  <2>1. CASE whole \/ r.items[i].type = "search"
    BY <2>1, EmptyIsSeq
  <2>2. CASE ~(whole \/ r.items[i].type = "search")
    BY <1>3, <2>2
  <2> QED BY <2>1, <2>2
<1>5. /\ IsSeq(a) /\ Len(a) = 1 /\ a[1].type = "blockStart" /\ a[1].at = i
      /\ IsSeq(c) /\ Len(c) = 1 /\ c[1].type = "blockStop" /\ c[1].at = i
  BY OneIsSeq
<1> DEFINE b == a \o middle
           n == Len(middle)
           t == b \o c
<1> HIDE DEF a, c, middle, grow, x, start, stop
<1>6. /\ n \in Nat /\ IsSeq(b) /\ Len(b) = 1 + n /\ DOMAIN b = 1 .. 1 + n /\ b[1] = a[1]
      /\ \A p \in 1 .. n : b[1 + p] = middle[p]
  <2>1. 1 \in 1 .. Len(a)
    BY <1>5
  <2> QED BY <1>4, <1>5, <2>1, ConcatValues, ConcatIsSeq
<1> HIDE DEF b
<1>7. /\ IsSeq(t) /\ Len(t) = 2 + n /\ t[2 + n] = c[1]
      /\ \A p \in 1 .. 1 + n : t[p] = b[p]
  <2>0. IsSeq(b) /\ IsSeq(c) /\ Len(b) = 1 + n /\ Len(c) = 1
    BY <1>5, <1>6
  <2>1. IsSeq(t) /\ Len(t) = 1 + n + 1
    <3>1. IsSeq(b \o c) /\ Len(b \o c) = Len(b) + Len(c)
      BY ONLY <2>0, ConcatIsSeq
    <3> QED BY ONLY <2>0, <3>1
  <2>2. t[1 + n + 1] = c[1]
    <3>1. 1 \in 1 .. Len(c) /\ Len(b) = 1 + n
      BY <1>5, <1>6
    <3>2. t[Len(b) + 1] = c[1]
      <4>1. \A p \in 1 .. Len(c) : (b \o c)[Len(b) + p] = c[p]
        BY ONLY <2>0, ConcatValues
      <4> QED BY ONLY <3>1, <4>1
    <3> QED BY ONLY <3>1, <3>2
  <2>3. 1 + n + 1 = 2 + n
    BY <1>6
  <2>4. \A p \in 1 .. Len(b) : t[p] = b[p]
    BY <1>5, <1>6, ConcatValues
  <2> QED BY <1>6, <2>1, <2>2, <2>3, <2>4
<1> HIDE DEF t
<1>8. t[1].type = "blockStart" /\ t[1].at = i
  BY <1>5, <1>6, <1>7
<1>9. ASSUME NEW p \in 2 .. 2 + n
      PROVE  /\ t[p].type \in {"blockDelta", "blockStop"} /\ t[p].at = i
             /\ t[p].type = "blockDelta" => r.items[i].type # "search"
  <2>1. CASE p = 2 + n
    BY <1>5, <1>7, <2>1
  <2>2. CASE p # 2 + n
    <3> DEFINE k == p - 1
    <3>1. k \in 1 .. n /\ 1 + k = p /\ p \in 1 .. 1 + n
      BY <1>6, <2>2
    <3> HIDE DEF k
    <3>2. b[1 + k] = middle[k] /\ t[p] = b[p]
      BY <1>6, <1>7, <3>1
    <3>3. t[p] = middle[k]
      BY <3>1, <3>2
    <3> QED BY <1>4, <3>1, <3>3
  <2> QED BY <2>1, <2>2
<1>10. BlockWire(t, r, i)
  <2>1. n \in Nat /\ IsSeq(t) /\ Len(t) = 2 + n
    BY <1>6, <1>7
  <2> HIDE DEF n
  <2>2. Len(t) > 0 /\ StartsAt(t[1], i)
    BY <1>8, <2>1 DEF StartsAt
  <2>3. \A p \in 2 .. Len(t) : /\ t[p].type \in {"blockDelta", "blockStop"} /\ t[p].at = i
                               /\ t[p].type = "blockDelta" => r.items[i].type # "search"
    BY ONLY <1>9, <2>1
  <2> QED BY ONLY <2>1, <2>2, <2>3 DEF BlockWire
<1> QED BY <1>1, <1>10 DEF b, t

\* The blocks up to the n-th.
Blocks(s, n) == /\ \A p \in DOMAIN s : /\ s[p].type \in {"blockStart", "blockDelta", "blockStop"}
                                       /\ s[p].at \in 1 .. n
                /\ n # 0 => \E q \in DOMAIN s : StartsAt(s[q], n)

LEMMA AnthropicBlockFollows ==
  ASSUME NEW r, NEW n \in Nat, n + 1 \in DOMAIN r.items, NEW s, AnthropicStream(s, r, 0), Blocks(s, n),
         NEW t, BlockWire(t, r, n + 1)
  PROVE  AnthropicStream(s \o t, r, 0) /\ Blocks(s \o t, n + 1)
<1> DEFINE u == s \o t
           m == Len(s)
           l == Len(t)
           i == n + 1
<1>1. IsSeq(s) /\ IsSeq(t)
  BY DEF AnthropicStream, BlockWire
<1>2. /\ m \in Nat /\ l \in Nat \ {0} /\ DOMAIN s = 1 .. m /\ DOMAIN t = 1 .. l /\ DOMAIN u = 1 .. m + l
      /\ (\A p \in 1 .. m : u[p] = s[p]) /\ \A p \in 1 .. l : u[m + p] = t[p]
  BY <1>1, ConcatValues DEF BlockWire
<1>3. StartsAt(t[1], i) /\ 1 \in 1 .. l
  BY <1>2 DEF BlockWire
<1>4. \A p \in 2 .. l : /\ t[p].type \in {"blockDelta", "blockStop"} /\ t[p].at = i
                        /\ t[p].type = "blockDelta" => r.items[i].type # "search"
  BY DEF BlockWire
<1>5. /\ \A p \in 1 .. m : s[p].type \in {"blockStart", "blockDelta", "blockStop"} /\ s[p].at \in 1 .. n
      /\ n # 0 => \E q \in 1 .. m : StartsAt(s[q], n)
  BY <1>2 DEF Blocks
<1> HIDE DEF u, m, l
<1>6. u[m + 1] = t[1]
  BY <1>2, <1>3
<1>7. AnthropicFollows(u, r, 0, m + 1)
  <2> DEFINE k == m + 1
             w == u[k]
  <2>1. k - 1 = m /\ w.type = "blockStart" /\ w.at = i /\ i \in DOMAIN r.items /\ i > 0
    BY <1>2, <1>3, <1>6 DEF StartsAt
  <2>2. \A q \in 1 .. m : u[q].type = "blockStart" => u[q].at < i
    BY <1>2, <1>5
  <2>3. i = 0 + 1 \/ \E q \in 1 .. m : StartsAt(u[q], i - 1)
    <3>1. i - 1 = n
      OBVIOUS
    <3>2. n # 0 => \E q \in 1 .. m : StartsAt(u[q], n)
      BY <1>2, <1>5
    <3> QED BY <3>1, <3>2
  <2>4. /\ w.type \in AnthropicEvents /\ w.type = "blockStart" /\ w.at \in DOMAIN r.items /\ w.at > 0
        /\ w.at = 0 + 1 \/ \E q \in 1 .. k - 1 : StartsAt(u[q], w.at - 1)
        /\ \A q \in 1 .. k - 1 : u[q].type = "blockStart" => u[q].at < w.at
    <3> HIDE DEF k, i, w
    <3> QED BY ONLY <2>1, <2>2, <2>3 DEF AnthropicEvents
  <2>5. w = u[k]
    OBVIOUS
  <2> HIDE DEF k, w
  <2>6. AnthropicFollows(u, r, 0, k)
    BY ONLY <2>4, <2>5 DEF AnthropicFollows
  <2> QED BY <2>6 DEF k
<1>8. ASSUME NEW p \in 2 .. l PROVE AnthropicFollows(u, r, 0, m + p)
  <2> DEFINE k == m + p
             w == u[k]
  <2>1. m + 1 \in 1 .. k - 1 /\ p \in 1 .. l
    BY <1>2
  <2>2. /\ w.type \in {"blockDelta", "blockStop"} /\ w.at = i
        /\ w.type = "blockDelta" => r.items[i].type # "search"
    BY <1>2, <1>4, <2>1
  <2>3. StartsAt(u[m + 1], i)
    BY <1>3, <1>6
  <2>4. \E q \in 1 .. k - 1 : StartsAt(u[q], i)
    <3> DEFINE q0 == m + 1
    <3>1. q0 \in 1 .. k - 1 /\ StartsAt(u[q0], i)
      BY <2>1, <2>3
    <3> HIDE DEF q0, k
    <3> QED BY <3>1
  <2>5. w = u[k]
    OBVIOUS
  <2> HIDE DEF k, i, w
  <2>6. AnthropicFollows(u, r, 0, k)
    BY ONLY <2>2, <2>4, <2>5 DEF AnthropicFollows, AnthropicEvents
  <2> QED BY <2>6 DEF k
<1>9. \A p \in 1 .. l : AnthropicFollows(u, r, 0, m + p)
  <2>1. \A p \in 1 .. l : p = 1 \/ p \in 2 .. l
    BY <1>2
  <2> QED BY <1>7, <1>8, <2>1
<1>10. AnthropicStream(u, r, 0)
  BY <1>1, <1>9, AnthropicGoesOn DEF u, m, l
<1>11. \A p \in 1 .. l : /\ t[p].type \in {"blockStart", "blockDelta", "blockStop"} /\ t[p].at = i
  <2>1. \A p \in 1 .. l : p = 1 \/ p \in 2 .. l
    BY <1>2
  <2> QED BY <1>3, <1>4, <2>1 DEF StartsAt
<1>12. Blocks(u, i)
  <2>1. ASSUME NEW p \in 1 .. m + l
        PROVE  u[p].type \in {"blockStart", "blockDelta", "blockStop"} /\ u[p].at \in 1 .. i
    <3>1. CASE p \in 1 .. m
      <4>1. u[p] = s[p]
        BY <1>2, <3>1
      <4>2. 1 .. n \subseteq 1 .. i
        OBVIOUS
      <4> QED BY <1>5, <3>1, <4>1, <4>2
    <3>2. CASE p \notin 1 .. m
      <4> DEFINE k == p - m
      <4>1. k \in 1 .. l /\ m + k = p /\ i \in 1 .. i
        BY <1>2, <3>2
      <4> HIDE DEF k, i
      <4>2. u[m + k] = t[k]
        BY <1>2, <4>1
      <4>3. u[p] = t[k]
        BY <4>1, <4>2
      <4> QED BY <1>11, <4>1, <4>3
    <3> QED BY <3>1, <3>2
  <2>2. m + 1 \in 1 .. m + l
    BY <1>2
  <2>3. StartsAt(u[m + 1], i)
    BY <1>3, <1>6
  <2> HIDE DEF i
  <2>4. \E q \in DOMAIN u : StartsAt(u[q], i)
    BY <1>2, <2>2, <2>3
  <2> QED BY <1>2, <2>1, <2>4 DEF Blocks
<1> QED BY <1>10, <1>12 DEF u

LEMMA AnthropicWireStreams ==
  ASSUME NEW r, IsResponse(r), NEW whole
  PROVE  AnthropicStream(AnthropicWire(r, whole), r, 0)
<1> DEFINE n == Len(r.items)
           ss == [i \in DOMAIN r.items |-> AnthropicItemWire(r, i, whole)]
           all(k) == FlattenSeq(Prefix(ss, k))
           P == {k \in Nat : k <= n => AnthropicStream(all(k), r, 0) /\ Blocks(all(k), k)}
<1>1. n \in Nat /\ DOMAIN r.items = 1 .. n
  BY ItemsOf
<1>2. /\ IsSeq(ss) /\ Len(ss) = n /\ DOMAIN ss = 1 .. n
      /\ \A i \in 1 .. n : BlockWire(ss[i], r, i) /\ IsSeq(ss[i])
  <2>1. ss = [i \in 1 .. n |-> ss[i]] /\ \A i \in 1 .. n : ss[i] = AnthropicItemWire(r, i, whole)
    BY <1>1
  <2> HIDE DEF ss, n
  <2>2. IsSeq(ss) /\ Len(ss) = n /\ DOMAIN ss = 1 .. n
    BY ONLY <1>1, <2>1, FunctionIsSeq
  <2>3. \A i \in 1 .. n : BlockWire(ss[i], r, i)
    BY <1>1, <2>1, AnthropicItemIsBlock
  <2> QED BY <2>2, <2>3 DEF BlockWire
<1> HIDE DEF ss, n
<1>3. 0 \in P
  <2>1. all(0) = << >>
    BY FlattenEmpty DEF Prefix
  <2>2. AnthropicStream(<< >>, r, 0) /\ Blocks(<< >>, 0)
    BY EmptyIsSeq DEF AnthropicStream, Blocks
  <2> QED BY <2>1, <2>2
<1>4. ASSUME NEW k \in P PROVE k + 1 \in P
  <2> SUFFICES ASSUME k + 1 <= n
               PROVE  AnthropicStream(all(k + 1), r, 0) /\ Blocks(all(k + 1), k + 1)
    OBVIOUS
  <2>1. k \in Nat /\ k < Len(ss) /\ k + 1 \in 1 .. n /\ k + 1 \in DOMAIN r.items
        /\ AnthropicStream(all(k), r, 0) /\ Blocks(all(k), k)
    BY <1>1, <1>2
  <2>2. all(k + 1) = all(k) \o ss[k + 1]
    BY <1>2, <2>1, FlattenGrows
  <2>3. BlockWire(ss[k + 1], r, k + 1)
    BY <1>2, <2>1
  <2> DEFINE s == all(k)
             t == ss[k + 1]
  <2> HIDE DEF s, t
  <2>4. AnthropicStream(s \o t, r, 0) /\ Blocks(s \o t, k + 1)
    <3>1. k \in Nat /\ k + 1 \in DOMAIN r.items /\ AnthropicStream(s, r, 0) /\ Blocks(s, k)
          /\ BlockWire(t, r, k + 1)
      BY <2>1, <2>3 DEF s, t
    <3> QED BY ONLY <3>1, AnthropicBlockFollows
  <2> QED BY <2>2, <2>4 DEF s, t
<1>5. P = Nat
  <2> HIDE DEF P
  <2>1. P \in SUBSET Nat
    BY DEF P
  <2> QED BY <1>3, <1>4, <2>1, Induct
<1> DEFINE s == FlattenSeq(ss)
           last == <<[type |-> "messageDelta"], [type |-> "messageStop"]>>
<1>6. AnthropicStream(s, r, 0)
  <2>1. Prefix(ss, n) = ss
    BY <1>2, PrefixWhole DEF IsSeq
  <2>2. n \in P
    BY <1>1, <1>5
  <2> QED BY <1>1, <2>1, <2>2
<1>7. AnthropicWire(r, whole) = s \o last
  BY DEF AnthropicWire, ss
<1>8. /\ IsSeq(last) /\ Len(last) = 2
      /\ \A p \in 1 .. 2 : last[p].type \in {"messageDelta", "messageStop"}
  <2>1. last \in Seq({[type |-> "messageDelta"], [type |-> "messageStop"]}) /\ Len(last) = 2
        /\ last[1].type = "messageDelta" /\ last[2].type = "messageStop"
    OBVIOUS
  <2> HIDE DEF last
  <2>2. \A p \in 1 .. 2 : p = 1 \/ p = 2
    OBVIOUS
  <2> QED BY <2>1, <2>2, SeqIsSeq
<1> HIDE DEF s, last
<1>9. \A p \in 1 .. Len(last) : AnthropicFollows(s \o last, r, 0, Len(s) + p)
  <2> TAKE p \in 1 .. Len(last)
  <2>1. IsSeq(s)
    BY <1>6 DEF AnthropicStream
  <2>2. (s \o last)[Len(s) + p] = last[p]
    <3>1. IsSeq(last)
      BY <1>8
    <3>2. \A q \in 1 .. Len(last) : (s \o last)[Len(s) + q] = last[q]
      BY ONLY <2>1, <3>1, ConcatValues
    <3> QED BY <3>2
  <2>3. last[p].type \in {"messageDelta", "messageStop"}
    BY <1>8
  <2> QED BY <2>2, <2>3 DEF AnthropicFollows, AnthropicEvents
<1>10. AnthropicStream(s \o last, r, 0)
  BY <1>6, <1>8, <1>9, AnthropicGoesOn
<1> QED BY <1>7, <1>10

(***************************************************************************)
(* Any provider.                                                           *)
(***************************************************************************)

Knows(p, d, r) ==
  \/ p = "openai" /\ Of(r, "call") # << >>
  \/ p = "anthropic" /\ AnthropicKnows(d)
  \/ p = "gemini" /\ d.call
  \/ p = "compat"
Decoding(p, d, wire, r) ==
  /\ IsSeq(wire)
  /\ p = "openai" => OpenAiState(d, r) /\ \A w \in ToSet(wire) : OpenAiSends(w, r)
  /\ p = "anthropic" => AnthropicState(d, r) /\ AnthropicStream(wire, r, Len(d.blocks))
  /\ p = "gemini" => GeminiState(d) /\ \A w \in ToSet(wire) : GeminiSends(w)

LEMMA DecodingStarts ==
  ASSUME NEW p \in Adapters, NEW r, IsResponse(r), NEW whole
  PROVE  Decoding(p, StartOf(p), Wire(p, r, whole), r)
<1>1. CASE p = "openai"
  <2>1. StartOf(p) = OpenAiStart /\ Wire(p, r, whole) = OpenAiWire(r, whole)
    BY <1>1 DEF StartOf, Wire
  <2>2. OpenAiState(OpenAiStart, r)
    BY DEF OpenAiState, OpenAiStart
  <2> QED BY <1>1, <2>1, <2>2, OpenAiWireSends DEF Decoding
<1>2. CASE p = "anthropic"
  <2>1. StartOf(p) = AnthropicStart /\ Wire(p, r, whole) = AnthropicWire(r, whole)
    BY <1>2 DEF StartOf, Wire
  <2>2. AnthropicStart.blocks = << >> /\ {"text", "reasoning", "blocks", "paused"} \subseteq DOMAIN AnthropicStart
    BY DEF AnthropicStart
  <2>3. AnthropicState(AnthropicStart, r) /\ Len(AnthropicStart.blocks) = 0
    BY <2>2, EmptyIsSeq DEF AnthropicState
  <2>4. AnthropicStream(AnthropicWire(r, whole), r, 0)
    BY AnthropicWireStreams
  <2>5. IsSeq(AnthropicWire(r, whole))
    BY <2>4 DEF AnthropicStream
  <2> QED BY <1>2, <2>1, <2>3, <2>4, <2>5 DEF Decoding
<1>3. CASE p = "gemini"
  <2>1. StartOf(p) = GeminiStart /\ Wire(p, r, whole) = GeminiWire(r, whole)
    BY <1>3 DEF StartOf, Wire
  <2>2. GeminiState(GeminiStart)
    BY DEF GeminiState, GeminiStart
  <2> QED BY <1>3, <2>1, <2>2, GeminiWireSends DEF Decoding
<1>4. CASE p = "xai"
  <2>1. Wire(p, r, whole) = XaiChatWire(r, whole)
    BY <1>4 DEF Wire
  <2> QED BY <1>4, <2>1, XaiWireIsSeq DEF Decoding
<1>5. CASE p = "compat"
  <2> DEFINE x == [type |-> "message"]
  <2>1. Wire(p, r, whole) = <<x>>
    BY <1>5 DEF Wire
  <2> HIDE DEF x
  <2> QED BY <1>5, <2>1, OneIsSeq DEF Decoding
<1> QED BY <1>1, <1>2, <1>3, <1>4, <1>5 DEF Adapters

\* Whatever event of a response an adapter's stream_event decodes, it yields
\* items of the step, or ends it: with items, one usage record and the kind,
\* which is to go on only if no client tool call was yielded.
THEOREM DecodeYields ==
  ASSUME NEW p \in Adapters, NEW r, IsResponse(r), NEW d, NEW wire, Decoding(p, d, wire, r),
         wire # << >>, NEW step, ~Decode(p, d, Head(wire), step, r).error
  PROVE  LET out == Decode(p, d, Head(wire), step, r)
         IN /\ Yields(out, step, Knows(p, d, r), Knows(p, out.state, r))
            /\ Decoding(p, out.state, Tail(wire), r)
            /\ p = "compat" => out.finished
<1> DEFINE h == Head(wire)
           t == Tail(wire)
           out == Decode(p, d, h, step, r)
           before == Knows(p, d, r)
           after == Knows(p, out.state, r)
<1> SUFFICES Yields(out, step, before, after) /\ Decoding(p, out.state, t, r)
             /\ (p = "compat" => out.finished)
  OBVIOUS
<1>0. IsSeq(t) /\ ToSet(t) \subseteq ToSet(wire) /\ h \in ToSet(wire)
  BY TailIsSeq DEF Decoding
<1> HIDE DEF h, t
<1>1. CASE p = "openai"
  <2> DEFINE known == Of(r, "call") # << >>
  <2>1. out = OpenAiEvent(d, h, step, r)
    BY <1>1 DEF Decode
  <2>2. OpenAiState(d, r) /\ \A w \in ToSet(wire) : OpenAiSends(w, r)
    BY <1>1 DEF Decoding
  <2>3. Yields(out, step, known, known) /\ OpenAiState(out.state, r)
    BY <1>0, <2>1, <2>2, OpenAiDecodes
  <2>4. (before <=> known) /\ (after <=> known)
    BY <1>1 DEF Knows
  <2>5. Decoding(p, out.state, t, r)
    BY <1>0, <1>1, <2>2, <2>3 DEF Decoding
  <2> HIDE DEF before, after, known, out
  <2>6. Yields(out, step, before, after)
    BY <2>3, <2>4 DEF Yields, Ends
  <2> QED BY <1>1, <2>5, <2>6
<1>2. CASE p = "anthropic"
  <2> DEFINE b == AnthropicKnows(d)
             a == AnthropicKnows(out.state)
             top == Len(d.blocks)
  <2>1. out = AnthropicEvent(d, h, step, r)
    BY <1>2 DEF Decode
  <2>2. AnthropicState(d, r) /\ AnthropicStream(wire, r, top) /\ top \in Nat
    BY <1>2, IsSeqFacts DEF Decoding, AnthropicState
  <2>3. /\ AnthropicSends(h, r, top)
        /\ AnthropicStream(t, r, IF h.type = "blockStart" THEN top + 1 ELSE top)
    BY <2>2, AnthropicTail DEF h, t
  <2>4. ~AnthropicEvent(d, h, step, r).error
    BY <2>1 DEF h
  <2>5. /\ Yields(out, step, b, a) /\ AnthropicState(out.state, r)
        /\ Len(out.state.blocks) = IF h.type = "blockStart" THEN top + 1 ELSE top
    BY <2>1, <2>2, <2>3, <2>4, AnthropicDecodes
  <2>6. (before <=> b) /\ (after <=> a)
    BY <1>2 DEF Knows
  <2>7. Decoding(p, out.state, t, r)
    <3> HIDE DEF top, out
    <3> QED BY <1>0, <1>2, <2>3, <2>5 DEF Decoding
  <2> HIDE DEF before, after, b, a, out
  <2>8. Yields(out, step, before, after)
    BY <2>5, <2>6 DEF Yields, Ends
  <2> QED BY <1>2, <2>7, <2>8
<1>3. CASE p = "gemini"
  <2> DEFINE b == d.call
             a == out.state.call
  <2>1. out = GeminiEvent(d, h, step, r)
    BY <1>3 DEF Decode
  <2>2. GeminiState(d) /\ \A w \in ToSet(wire) : GeminiSends(w)
    BY <1>3 DEF Decoding
  <2>3. Yields(out, step, b, a) /\ GeminiState(out.state)
    BY <1>0, <2>1, <2>2, GeminiDecodes
  <2>4. (before <=> b) /\ (after <=> a)
    BY <1>3 DEF Knows
  <2>5. Decoding(p, out.state, t, r)
    BY <1>0, <1>3, <2>2, <2>3 DEF Decoding
  <2> HIDE DEF before, after, b, a, out
  <2>6. Yields(out, step, before, after)
    BY <2>3, <2>4 DEF Yields, Ends
  <2> QED BY <1>3, <2>5, <2>6
<1>4. CASE p = "xai"
  <2>1. out = XaiChatEvent(d, h, step, r)
    BY <1>4 DEF Decode
  <2>2. Yields(out, step, FALSE, FALSE)
    BY <2>1, XaiDecodes
  <2>3. ~before /\ ~after
    BY <1>4 DEF Knows
  <2>4. Decoding(p, out.state, t, r)
    BY <1>0, <1>4 DEF Decoding
  <2> HIDE DEF before, after, out
  <2>5. Yields(out, step, before, after)
    BY <2>2, <2>3 DEF Yields, Ends
  <2> QED BY <1>4, <2>4, <2>5
<1>5. CASE p = "compat"
  <2>1. out = CompatEvent(d, h, step, r)
    BY <1>5 DEF Decode
  <2>2. Yields(out, step, TRUE, TRUE) /\ out.finished
    BY <2>1, CompatDecodes
  <2>3. before /\ after
    BY <1>5 DEF Knows
  <2>4. Decoding(p, out.state, t, r)
    BY <1>0, <1>5 DEF Decoding
  <2> HIDE DEF before, after, out
  <2>5. Yields(out, step, before, after)
    BY <2>2, <2>3 DEF Yields, Ends
  <2> QED BY <2>2, <2>4, <2>5
<1> QED BY <1>1, <1>2, <1>3, <1>4, <1>5 DEF Adapters

LEMMA AtEndYields ==
  ASSUME NEW p \in Adapters, NEW r, NEW d, NEW wire, Decoding(p, d, wire, r),
         NEW step, ~AtEnd(p, d, step, r).error
  PROVE  LET out == AtEnd(p, d, step, r)
         IN /\ Yields(out, step, Knows(p, d, r), Knows(p, out.state, r))
            /\ out.finished
<1> DEFINE out == AtEnd(p, d, step, r)
           before == Knows(p, d, r)
           after == Knows(p, out.state, r)
           known == d.call
<1>1. p = "gemini" /\ out = GeminiEnd(d, step, r)
  BY BrokenFails DEF AtEnd
<1>2. GeminiState(d)
  BY <1>1 DEF Decoding
<1>3. Yields(out, step, known, known)
  BY <1>1, <1>2, GeminiEnds
<1>4. out.finished /\ out.state = d
  <2> DEFINE events == (IF r.items = << >> THEN << >> ELSE <<Continuation(step)>>)
                         \o <<Usage(step), Finished(Kind(d.call, d.text))>>
  <2>1. out = Over(d, events)
    BY <1>1, BrokenFails DEF GeminiEnd
  <2> HIDE DEF events, out
  <2> QED BY <2>1, OverFields
<1>5. (before <=> known) /\ (after <=> known)
  BY <1>1, <1>4 DEF Knows
<1> HIDE DEF before, after, known, out
<1>6. Yields(out, step, before, after)
  BY <1>3, <1>5 DEF Yields, Ends
<1> QED BY <1>4, <1>6 DEF before, after, out

(***************************************************************************)
(* The transcript.                                                         *)
(***************************************************************************)

\* Turns of blocks that have types.
Turns(turns) == IsSeq(turns) /\ \A n \in DOMAIN turns : IsSeq(turns[n].blocks)

\* While the tools run, the calls of the last turn wait for their results; the
\* calls of every other turn are answered by the turn after it.
Answered(turns, phase, calls) ==
  \A n \in DOMAIN turns :
    CallsIn(turns[n].blocks) # << >> =>
      IF n < Len(turns)
      THEN /\ turns[n + 1].role = "user"
           /\ IdsOf(turns[n + 1].blocks) = IdsOf(CallsIn(turns[n].blocks))
      ELSE phase = "tools" /\ CallsIn(turns[n].blocks) = calls

LEMMA TurnAdded ==
  ASSUME NEW turns, Turns(turns), NEW t, IsSeq(t.blocks)
  PROVE  /\ Turns(Append(turns, t))
         /\ ResultsIn(Append(turns, t)) = ResultsIn(turns) \o Only(t.blocks, {"Result"})
<1> DEFINE tt == Append(turns, t)
           k == Len(turns)
           m == k + 1
<1>1. /\ IsSeq(tt) /\ Len(tt) = m /\ tt[m] = t /\ \A n \in 1 .. k : tt[n] = turns[n]
  BY AppendIsSeq, ZenonT(30) DEF Turns
<1>2. k \in Nat /\ DOMAIN turns = 1 .. k
  BY IsSeqFacts DEF Turns
<1>3. DOMAIN tt = 1 .. m
  BY ONLY <1>1, IsSeqFacts
<1> HIDE DEF tt
<1>4. \A n \in DOMAIN tt : IsSeq(tt[n].blocks)
  <2> TAKE n \in DOMAIN tt
  <2>1. CASE n = m
    BY <2>1, <1>1
  <2>2. CASE n # m
    <3>1. n \in 1 .. k
      BY <2>2, <1>2, <1>3
    <3> QED BY <3>1, <1>1, <1>2 DEF Turns
  <2> QED BY <2>1, <2>2
<1>5. Turns(tt)
  BY <1>1, <1>4 DEF Turns
<1> DEFINE R == {"Result"}
           ss == [n \in DOMAIN tt |-> Only(tt[n].blocks, R)]
           rr == [n \in DOMAIN turns |-> Only(turns[n].blocks, R)]
<1>6. ResultsIn(tt) = FlattenSeq(ss) /\ ResultsIn(turns) = FlattenSeq(rr)
  BY DEF ResultsIn
<1>7. /\ IsSeq(ss) /\ Len(ss) = m /\ DOMAIN ss = 1 .. m
      /\ ss[m] = Only(t.blocks, R) /\ \A n \in 1 .. k : ss[n] = rr[n]
  <2>1. ss = [n \in 1 .. m |-> ss[n]] /\ m \in Nat
    BY <1>2, <1>3
  <2>2. ss[m] = Only(t.blocks, R)
    BY <1>1, <1>2, <1>3
  <2>3. \A n \in 1 .. k : ss[n] = rr[n]
    BY <1>1, <1>2, <1>3
  <2> HIDE DEF ss, m
  <2>4. IsSeq(ss) /\ Len(ss) = m /\ DOMAIN ss = 1 .. m
    BY ONLY <2>1, FunctionIsSeq
  <2> QED BY <2>2, <2>3, <2>4
<1>8. \A n \in DOMAIN ss : IsSeq(ss[n])
  <2> TAKE n \in DOMAIN ss
  <2>1. IsSeq(tt[n].blocks) /\ ss[n] = Only(tt[n].blocks, R)
    BY <1>4
  <2> QED BY <2>1, OnlyElements
<1>9. FlattenSeq(Prefix(ss, m)) = FlattenSeq(Prefix(ss, k)) \o ss[m]
  <2>1. k < Len(ss)
    BY <1>2, <1>7
  <2> HIDE DEF ss
  <2> QED BY <1>2, <1>7, <1>8, <2>1, FlattenGrows
<1>10. Prefix(ss, m) = ss
  <2>1. ss \in Seq(ToSet(ss))
    BY <1>7 DEF IsSeq
  <2> HIDE DEF ss
  <2> QED BY <2>1, <1>7, PrefixWhole
<1>11. Prefix(ss, k) = rr
  <2>1. rr = [n \in 1 .. k |-> rr[n]]
    BY <1>2
  <2> HIDE DEF rr, ss
  <2> QED BY <2>1, <1>7 DEF Prefix
<1> HIDE DEF ss, rr
<1>12. ResultsIn(tt) = ResultsIn(turns) \o Only(t.blocks, R)
  BY <1>6, <1>7, <1>9, <1>10, <1>11
<1> QED BY <1>5, <1>12 DEF tt

LEMMA ResultsIsSeq == ASSUME NEW turns, Turns(turns) PROVE IsSeq(ResultsIn(turns))
<1> DEFINE R == {"Result"}
           rr == [n \in DOMAIN turns |-> Only(turns[n].blocks, R)]
           k == Len(turns)
<1>1. k \in Nat /\ DOMAIN turns = 1 .. k
  BY IsSeqFacts DEF Turns
<1>2. rr = [n \in 1 .. k |-> rr[n]] /\ \A n \in 1 .. k : rr[n] = Only(turns[n].blocks, R)
  BY <1>1
<1>3. \A n \in 1 .. k : IsSeq(rr[n])
  BY <1>1, <1>2, OnlyElements DEF Turns
<1> HIDE DEF rr, k
<1>4. IsSeq(rr) /\ DOMAIN rr = 1 .. k
  BY <1>1, <1>2, FunctionIsSeq
<1>5. IsSeq(FlattenSeq(rr))
  BY <1>3, <1>4, FlattenIsSeq
<1> QED BY <1>5 DEF ResultsIn, rr

LEMMA TurnWithoutResults ==
  ASSUME NEW turns, Turns(turns), NEW t, IsSeq(t.blocks), Only(t.blocks, {"Result"}) = << >>
  PROVE  Turns(Append(turns, t)) /\ ResultsIn(Append(turns, t)) = ResultsIn(turns)
  BY TurnAdded, ResultsIsSeq, EmptyAtTheEnd

\* A turn that answers what is waiting, and has no calls but those that wait.
LEMMA AnswersGrow ==
  ASSUME NEW turns, Turns(turns), NEW phase, NEW calls, Answered(turns, phase, calls),
         NEW t, phase = "tools" => t.role = "user" /\ IdsOf(t.blocks) = IdsOf(calls),
         NEW then, NEW next,
         CallsIn(t.blocks) # << >> => then = "tools" /\ CallsIn(t.blocks) = next
  PROVE  Answered(Append(turns, t), then, next)
<1> DEFINE tt == Append(turns, t)
           k == Len(turns)
           m == k + 1
<1>1. /\ IsSeq(tt) /\ Len(tt) = m /\ tt[m] = t /\ \A n \in 1 .. k : tt[n] = turns[n]
  BY AppendIsSeq, ZenonT(30) DEF Turns
<1>2. k \in Nat /\ DOMAIN turns = 1 .. k
  BY IsSeqFacts DEF Turns
<1>3. DOMAIN tt = 1 .. m
  BY ONLY <1>1, IsSeqFacts
<1> HIDE DEF tt
<1>4. ASSUME NEW n \in DOMAIN tt, CallsIn(tt[n].blocks) # << >>
      PROVE  IF n < Len(tt)
             THEN /\ tt[n + 1].role = "user"
                  /\ IdsOf(tt[n + 1].blocks) = IdsOf(CallsIn(tt[n].blocks))
             ELSE then = "tools" /\ CallsIn(tt[n].blocks) = next
  <2>1. CASE n = m
    BY <1>1, <1>2, <1>4, <2>1
  <2>2. CASE n = k /\ n # m
    <3>1. n \in 1 .. m
      BY <1>3, <1>4
    <3>2. n = k
      BY <2>2
    <3>3. n \in 1 .. k /\ n + 1 = m /\ n < m /\ ~(n < k)
      BY <1>2, <3>1, <3>2
    <3>4. /\ n < Len(tt) /\ n \in DOMAIN turns /\ ~(n < Len(turns))
          /\ tt[n] = turns[n] /\ tt[n + 1] = t
      BY <1>1, <1>2, <3>3
    <3>5. phase = "tools" /\ CallsIn(turns[n].blocks) = calls
      BY <1>4, <3>4 DEF Answered
    <3> QED BY <3>4, <3>5
  <2>3. CASE n # k /\ n # m
    <3>1. n < Len(tt) /\ n \in DOMAIN turns /\ n < Len(turns) /\ tt[n] = turns[n]
          /\ tt[n + 1] = turns[n + 1]
      BY <1>1, <1>2, <1>3, <1>4, <2>3
    <3>2. /\ turns[n + 1].role = "user"
          /\ IdsOf(turns[n + 1].blocks) = IdsOf(CallsIn(turns[n].blocks))
      BY <1>4, <3>1 DEF Answered
    <3> QED BY <3>1, <3>2
  <2> QED BY <2>1, <2>2, <2>3
<1> QED BY <1>4 DEF Answered, tt

LEMMA NothingWaits ==
  ASSUME NEW turns, NEW phase, phase # "tools", NEW calls, Answered(turns, phase, calls),
         NEW then, NEW next
  PROVE  Answered(turns, then, next)
  BY DEF Answered

(***************************************************************************)
(* The collected step.                                                     *)
(***************************************************************************)

\* A collector whose stream is over: the slots end with the usage, and a step
\* that goes on without tools has no calls.
Closed(c) ==
  /\ IsCollector(c) /\ c.finished \in Kinds
  /\ \E p, step : /\ Plain(p) /\ c.slots = Append(p, Usage(step))
                  /\ c.finished = "Continue" => NoCall(p)

LEMMA ClosedSteps ==
  ASSUME NEW c, Closed(c)
  PROVE  /\ StepOf(c).kind \in Kinds
         /\ IsSeq(StepOf(c).usage) /\ Len(StepOf(c).usage) = 1
         /\ IsSeq(StepOf(c).items)
         /\ \A e \in ToSet(StepOf(c).items) : e.type \in StepItemTypes
         /\ StepOf(c).kind = "Continue" => NoCall(StepOf(c).items)
<1>1. PICK p, step : /\ Plain(p) /\ c.slots = Append(p, Usage(step))
                     /\ c.finished = "Continue" => NoCall(p)
  BY DEF Closed
<1>2. c.finished \in Kinds
  BY DEF Closed
<1> QED BY <1>1, <1>2, StepOfClosed

LEMMA BlocksOfSteps ==
  ASSUME NEW step, IsSeq(step.items), \A e \in ToSet(step.items) : e.type \in StepItemTypes
  PROVE  /\ IsSeq(TranscriptBlocks(step)) /\ Only(TranscriptBlocks(step), {"Result"}) = << >>
         /\ IsSeq(CallsIn(TranscriptBlocks(step)))
         /\ NoCall(step.items) => CallsIn(TranscriptBlocks(step)) = << >>
         /\ IsSeq(AnswerBlocks(step)) /\ Only(AnswerBlocks(step), {"Result"}) = << >>
         /\ CallsIn(AnswerBlocks(step)) = << >>
         /\ IsSeq(Only(step.items, {"ServerToolUse"}))
         /\ Only(Only(step.items, {"ServerToolUse"}), {"Result"}) = << >>
<1> DEFINE items == step.items
           t == TranscriptBlocks(step)
           a == AnswerBlocks(step)
           u == Only(items, {"ServerToolUse"})
<1>1. IsSeq(t) /\ ToSet(t) = {e \in ToSet(items) : e.type \in {"Text", "Call", "Continuation"}}
  BY OnlyElements DEF TranscriptBlocks
<1>2. IsSeq(a) /\ ToSet(a) = {e \in ToSet(items) : e.type \in {"Text"}}
  BY OnlyElements DEF AnswerBlocks
<1>3. IsSeq(u) /\ ToSet(u) = {e \in ToSet(items) : e.type \in {"ServerToolUse"}}
  BY OnlyElements
<1>4. NoCall(items) => \A e \in ToSet(items) : e.type # "Call"
  BY DEF NoCall
<1> HIDE DEF t, a, u, items
<1>5. Only(t, {"Result"}) = << >> /\ IsSeq(Only(t, {"Call"}))
      /\ (NoCall(items) => Only(t, {"Call"}) = << >>)
  <2>1. \A e \in ToSet(t) : e.type \notin {"Result"}
    BY <1>1
  <2>2. NoCall(items) => \A e \in ToSet(t) : e.type \notin {"Call"}
    BY <1>1, <1>4
  <2> QED BY <1>1, <2>1, <2>2, OnlyNone, OnlyElements
<1>6. Only(a, {"Result"}) = << >> /\ Only(a, {"Call"}) = << >>
  <2>1. (\A e \in ToSet(a) : e.type \notin {"Result"}) /\ \A e \in ToSet(a) : e.type \notin {"Call"}
    BY <1>2
  <2> QED BY <1>2, <2>1, OnlyNone
<1>7. Only(u, {"Result"}) = << >>
  <2>1. \A e \in ToSet(u) : e.type \notin {"Result"}
    BY <1>3
  <2> QED BY <1>3, <2>1, OnlyNone
<1> QED BY <1>1, <1>2, <1>3, <1>5, <1>6, <1>7 DEF t, a, u, items, CallsIn

\* The results of calls are no calls, and name the calls they answer.
LEMMA ResultsAnswerTheCalls ==
  ASSUME IsSeq(Calls)
  PROVE  /\ IsSeq(Results) /\ Only(Results, {"Result"}) = Results
         /\ CallsIn(Results) = << >> /\ IdsOf(Results) = IdsOf(Calls)
<1> DEFINE n == Len(Calls)
<1>1. n \in Nat /\ DOMAIN Calls = 1 .. n
  BY IsSeqFacts
<1>2. Results = [k \in 1 .. n |-> Results[k]] /\ \A k \in 1 .. n : Results[k] = ResultOf(k)
  BY <1>1 DEF Results
<1>3. /\ IsSeq(Results) /\ DOMAIN Results = 1 .. n
      /\ \A x \in ToSet(Results) : \E k \in 1 .. n : x = Results[k]
  BY <1>1, <1>2, FunctionIsSeq
<1>4. \A x \in ToSet(Results) : x.type = "Result"
  BY <1>2, <1>3 DEF ResultOf
<1>5. Only(Results, {"Result"}) = Results /\ Only(Results, {"Call"}) = << >>
  <2>1. /\ \A e \in ToSet(Results) : e.type \in {"Result"}
        /\ \A e \in ToSet(Results) : e.type \notin {"Call"}
    BY <1>4
  <2> QED BY <1>3, <2>1, OnlyAll, OnlyNone
<1>6. IdsOf(Results) = IdsOf(Calls)
  BY <1>1, <1>2, <1>3 DEF IdsOf, ResultOf
<1> QED BY <1>3, <1>5, <1>6 DEF CallsIn

(***************************************************************************)
(* The stream of a step.                                                   *)
(***************************************************************************)

Streaming ==
  /\ {"response", "wire"} \subseteq DOMAIN upstream
  /\ IsResponse(upstream.response)
  /\ Decoding(provider, decoder, upstream.wire, upstream.response)
  /\ NoCall(collector.slots) \/ Knows(provider, decoder, upstream.response)
  /\ provider = "compat" => ~emitted

StreamInv ==
  /\ pc \in {"post", "stream"} => Collecting(collector) /\ (emitted \/ collector = EmptyCollector)
  /\ pc = "post" => ~emitted
  /\ pc = "stream" => Streaming
  /\ pc = "collected" => Closed(collector)

LEMMA EmptyIsCollecting == Collecting(EmptyCollector) /\ NoCall(EmptyCollector.slots)
<1>1. EmptyCollector.slots = << >>
  BY DEF EmptyCollector
<1> QED BY <1>1, PlainEmpty DEF Collecting, IsCollector, EmptyCollector

LEMMA LeavesTheStream == ASSUME pc' \in {"head", "tools", "ended"} PROVE StreamInv'
  BY DEF StreamInv

LEMMA PostsAgain ==
  ASSUME pc' = "post", ~emitted', collector' = EmptyCollector
  PROVE  StreamInv'
  BY EmptyIsCollecting DEF StreamInv

LEMMA RetryPostStreams ==
  ASSUME NEW class, StreamInv, pc \in {"post", "stream"}, ~emitted, RetryPost(class)
  PROVE  StreamInv'
<1>1. CASE posts < MaxAttempts /\ ShouldRetry(class)
  BY <1>1, PostsAgain DEF RetryPost, StreamInv
<1>2. CASE ~(posts < MaxAttempts /\ ShouldRetry(class))
  BY <1>2, LeavesTheStream DEF RetryPost, RunErrs
<1> QED BY <1>1, <1>2

LEMMA StreamFailsStreams ==
  ASSUME NEW class, StreamInv, pc = "stream", StreamFails(class)
  PROVE  StreamInv'
<1>1. CASE ~emitted /\ attempt < MaxAttempts /\ ShouldRetry(class)
  BY <1>1, PostsAgain DEF StreamFails, StreamRetries, StreamInv
<1>2. CASE ~(~emitted /\ attempt < MaxAttempts /\ ShouldRetry(class))
  BY <1>2, LeavesTheStream DEF StreamFails, RunErrs
<1> QED BY <1>1, <1>2

LEMMA PostAnswersStreams ==
  ASSUME NEW r \in Responses, NEW whole, TypeOK, StreamInv, PostAnswers(r, whole)
  PROVE  StreamInv'
<1>1. provider \in Adapters /\ IsResponse(r)
  BY ProvidersAssumption, ResponsesAssumption DEF TypeOK, IsResponse
<1>2. Decoding(provider, StartOf(provider), Wire(provider, r, whole), r)
  BY <1>1, DecodingStarts
<1>3. /\ pc = "post" /\ pc' = "stream"
      /\ upstream' = [response |-> r, whole |-> whole, wire |-> Wire(provider, r, whole)]
      /\ decoder' = StartOf(provider)
      /\ UNCHANGED <<provider, emitted, collector>>
  BY DEF PostAnswers
<1>4. collector = EmptyCollector /\ ~emitted
  BY <1>3 DEF StreamInv
<1>5. /\ {"response", "wire"} \subseteq DOMAIN upstream'
      /\ upstream'.response = r /\ upstream'.wire = Wire(provider, r, whole)
  BY <1>3
<1>6. Streaming'
  BY <1>1, <1>2, <1>3, <1>4, <1>5, EmptyIsCollecting DEF Streaming
<1> QED BY <1>3, <1>4, <1>6, EmptyIsCollecting DEF StreamInv

\* What the decoder yields keeps the collector a step's so far, or closes it.
LEMMA YieldStreams ==
  ASSUME NEW out, NEW wire, StreamInv, pc = "stream", Yield(out, wire), NEW step,
         Yields(out, step, Knows(provider, decoder, upstream.response),
                Knows(provider, out.state, upstream.response)),
         out.finished \/ /\ Decoding(provider, out.state, wire, upstream.response)
                         /\ provider # "compat"
  PROVE  StreamInv'
<1> DEFINE collected == PushAll(collector, out.events)
           before == Knows(provider, decoder, upstream.response)
           after == Knows(provider, out.state, upstream.response)
<1>0. /\ Collecting(collector) /\ (emitted \/ collector = EmptyCollector)
      /\ {"response", "wire"} \subseteq DOMAIN upstream /\ IsResponse(upstream.response)
      /\ NoCall(collector.slots) \/ before
  BY DEF StreamInv, Streaming
<1>y. /\ before => after
      /\ ~out.finished => Plain(out.events) /\ (NoCall(out.events) \/ after)
      /\ out.finished => Ends(out.events, step, after)
  BY DEF Yields
<1>a. out.finished \/ /\ Decoding(provider, out.state, wire, upstream.response)
                      /\ provider # "compat"
  OBVIOUS
<1>1. CASE collected.error # NoError
  <2>1. pc' = "ended"
    BY <1>1 DEF Yield
  <2> QED BY <2>1, LeavesTheStream
<1>2. CASE collected.error = NoError
  <2>1. /\ collector' = collected
        /\ upstream' = [upstream EXCEPT !.wire = wire]
        /\ decoder' = out.state
        /\ emitted' = (emitted \/ out.events # << >>)
        /\ pc' = IF out.finished THEN "collected" ELSE pc
        /\ provider' = provider
    BY <1>2 DEF Yield
  <2>2. CASE out.finished
    <3>1. PICK pre, kind : /\ out.events = pre \o LastTwo(step, kind)
                           /\ Plain(pre) /\ kind \in Kinds
                           /\ kind = "Continue" => NoCall(pre) /\ ~after
      BY <1>y, <2>2 DEF Ends
    <3>2. collected = PushAll(collector, pre \o <<Usage(step), Finished(kind)>>)
      BY <3>1 DEF LastTwo
    <3>3. collected.error = NoError /\ Collecting(collector) /\ Plain(pre)
      BY <1>0, <1>2, <3>1
    <3> HIDE DEF collected, before, after
    <3>4. /\ IsCollector(collected) /\ collected.finished = kind
          /\ \E p : /\ Plain(p) /\ collected.slots = Append(p, Usage(step))
                    /\ NoCall(collector.slots) /\ NoCall(pre) => NoCall(p)
      BY ONLY <3>2, <3>3, PushAllClosing, SMTT(30)
    <3>5. kind = "Continue" => NoCall(collector.slots) /\ NoCall(pre)
      BY <1>0, <1>y, <3>1
    <3>6. Closed(collected)
      BY <3>1, <3>4, <3>5 DEF Closed
    <3>7. pc' = "collected" /\ Closed(collector')
      BY <2>1, <2>2, <3>6
    <3> QED BY <3>7 DEF StreamInv
  <2>3. CASE ~out.finished
    <3> DEFINE events == out.events
    <3>1. Plain(events) /\ (NoCall(events) \/ after)
      BY <1>y, <2>3
    <3>2. /\ Collecting(collected)
          /\ NoCall(collector.slots) /\ NoCall(events) => NoCall(collected.slots)
      <4> HIDE DEF events
      <4>1. /\ Collecting(PushAll(collector, events))
            /\ NoCall(collector.slots) /\ NoCall(events)
               => NoCall(PushAll(collector, events).slots)
        BY <1>0, <3>1, PushAllPlain
      <4> QED BY <4>1 DEF events
    <3>3. events = << >> => collected = collector
      BY PushAllNone
    <3>4. emitted' \/ collector' = EmptyCollector
      BY <1>0, <2>1, <3>3
    <3>5. pc' = "stream"
      BY <2>1, <2>3
    <3>6. /\ {"response", "wire"} \subseteq DOMAIN upstream'
          /\ upstream'.response = upstream.response /\ upstream'.wire = wire
      BY <1>0, <2>1
    <3>7. Knows(provider', decoder', upstream'.response) = after
      BY <2>1, <3>6
    <3>8. Decoding(provider', decoder', upstream'.wire, upstream'.response) /\ provider' # "compat"
      BY <1>a, <2>1, <2>3, <3>6
    <3>9. NoCall(collected.slots) \/ after
      <4> HIDE DEF before, after, collected, events
      <4> QED BY <1>0, <1>y, <3>1, <3>2
    <3> HIDE DEF collected, before, after
    <3>10. Streaming'
      BY <1>0, <2>1, <3>6, <3>7, <3>8, <3>9 DEF Streaming
    <3> QED BY <2>1, <3>2, <3>4, <3>5, <3>10 DEF StreamInv
  <2> QED BY <2>2, <2>3
<1> QED BY <1>1, <1>2

LEMMA ReceiveStreams == ASSUME TypeOK, StreamInv, Receive PROVE StreamInv'
<1> DEFINE r == upstream.response
           wire == upstream.wire
           out == Decode(provider, decoder, Head(wire), Step, r)
<1>1. /\ pc = "stream" /\ wire # << >>
      /\ (IF out.error THEN StreamFails("Permanent") ELSE Yield(out, Tail(wire)))
  BY DEF Receive
<1>2. provider \in Adapters /\ IsResponse(r) /\ Decoding(provider, decoder, wire, r)
  BY <1>1, ProvidersAssumption DEF StreamInv, Streaming, TypeOK
<1>3. CASE out.error
  BY <1>1, <1>3, StreamFailsStreams
<1>4. CASE ~out.error
  <2>1. /\ Yields(out, Step, Knows(provider, decoder, r), Knows(provider, out.state, r))
        /\ Decoding(provider, out.state, Tail(wire), r)
        /\ provider = "compat" => out.finished
    BY <1>1, <1>2, <1>4, DecodeYields
  <2>2. Yield(out, Tail(wire))
    BY <1>1, <1>4
  <2> HIDE DEF out
  <2> QED BY <1>1, <2>1, <2>2, YieldStreams
<1> QED BY <1>3, <1>4

LEMMA StreamEndsStreams == ASSUME TypeOK, StreamInv, StreamEnds PROVE StreamInv'
<1> DEFINE r == upstream.response
           wire == upstream.wire
           out == AtEnd(provider, decoder, Step, r)
<1>1. pc = "stream" /\ (IF out.error THEN StreamFails("Permanent") ELSE Yield(out, << >>))
  BY DEF StreamEnds
<1>2. provider \in Adapters /\ Decoding(provider, decoder, wire, r)
  BY <1>1, ProvidersAssumption DEF StreamInv, Streaming, TypeOK
<1>3. CASE out.error
  BY <1>1, <1>3, StreamFailsStreams
<1>4. CASE ~out.error
  <2>1. /\ Yields(out, Step, Knows(provider, decoder, r), Knows(provider, out.state, r))
        /\ out.finished
    BY <1>2, <1>4, AtEndYields
  <2>2. Yield(out, << >>)
    BY <1>1, <1>4
  <2> HIDE DEF out
  <2> QED BY <1>1, <2>1, <2>2, YieldStreams
<1> QED BY <1>3, <1>4

(***************************************************************************)
(* The records.                                                            *)
(***************************************************************************)

RecordInv ==
  /\ IsSeq(usage) /\ Len(usage) = Len(modelSteps)
  /\ IsSeq(trace) /\ Turns(transcript)
  /\ Only(trace, {"Result"}) = ResultsIn(transcript)
  /\ Answered(transcript, pc, Calls)
  /\ pc = "tools" => IsSeq(Calls)

LEMMA InitRecords == Init => StreamInv /\ RecordInv
<1> SUFFICES ASSUME Init PROVE StreamInv /\ RecordInv
  OBVIOUS
<1>1. pc = "head" /\ usage = << >> /\ modelSteps = << >> /\ trace = << >> /\ transcript = << >>
  BY DEF Init
<1>2. StreamInv
  BY <1>1 DEF StreamInv
<1>3. Only(trace, {"Result"}) = << >>
  BY <1>1, EmptyIsSeq, OnlyNone
<1>4. ResultsIn(transcript) = << >>
  BY <1>1, FlattenEmpty DEF ResultsIn
<1>5. Answered(transcript, pc, Calls)
  BY <1>1 DEF Answered
<1>6. Turns(transcript)
  BY <1>1, EmptyIsSeq DEF Turns
<1> QED BY <1>1, <1>2, <1>3, <1>4, <1>5, <1>6, EmptyIsSeq DEF RecordInv

\* A step under way leaves the records alone.
LEMMA RecordsStay ==
  ASSUME RecordInv, pc # "tools", pc' # "tools", UNCHANGED record
  PROVE  RecordInv'
<1>1. UNCHANGED <<usage, modelSteps, trace, transcript>>
  BY DEF record
<1>2. Answered(transcript, pc, Calls)
  BY DEF RecordInv
<1>3. Answered(transcript, pc', Calls')
  BY <1>2, NothingWaits
<1> QED BY <1>1, <1>3 DEF RecordInv

\* What a collected step is made of.
LEMMA CollectedSteps ==
  ASSUME StreamInv, pc = "collected"
  PROVE  /\ IsSeq(Collected.usage) /\ Len(Collected.usage) = 1
         /\ IsSeq(Calls)
         /\ Collected.kind = "Continue" => Calls = << >>
         /\ IsSeq(TranscriptBlocks(Collected))
         /\ Only(TranscriptBlocks(Collected), {"Result"}) = << >>
         /\ IsSeq(AnswerBlocks(Collected)) /\ Only(AnswerBlocks(Collected), {"Result"}) = << >>
         /\ CallsIn(AnswerBlocks(Collected)) = << >>
         /\ IsSeq(Only(Collected.items, {"ServerToolUse"}))
         /\ Only(Only(Collected.items, {"ServerToolUse"}), {"Result"}) = << >>
<1>1. Closed(collector)
  BY DEF StreamInv
<1>2. /\ IsSeq(Collected.usage) /\ Len(Collected.usage) = 1
      /\ IsSeq(Collected.items)
      /\ \A e \in ToSet(Collected.items) : e.type \in StepItemTypes
      /\ Collected.kind = "Continue" => NoCall(Collected.items)
  BY <1>1, ClosedSteps DEF Collected
<1> DEFINE step == Collected
<1> HIDE DEF step
<1>3. /\ IsSeq(TranscriptBlocks(step)) /\ Only(TranscriptBlocks(step), {"Result"}) = << >>
      /\ IsSeq(CallsIn(TranscriptBlocks(step)))
      /\ NoCall(step.items) => CallsIn(TranscriptBlocks(step)) = << >>
      /\ IsSeq(AnswerBlocks(step)) /\ Only(AnswerBlocks(step), {"Result"}) = << >>
      /\ CallsIn(AnswerBlocks(step)) = << >>
      /\ IsSeq(Only(step.items, {"ServerToolUse"}))
      /\ Only(Only(step.items, {"ServerToolUse"}), {"Result"}) = << >>
  <2>1. IsSeq(step.items) /\ \A e \in ToSet(step.items) : e.type \in StepItemTypes
    BY <1>2 DEF step
  <2> QED BY ONLY <2>1, BlocksOfSteps
<1> QED BY <1>2, <1>3 DEF step, Calls

\* What recording a step does to the usage and the trace.
LEMMA StepRecorded ==
  ASSUME StepsInv, RecordInv, StreamInv, pc = "collected", RecordStep(Collected)
  PROVE  /\ IsSeq(usage') /\ Len(usage') = Len(modelSteps')
         /\ IsSeq(trace') /\ Only(trace', {"Result"}) = ResultsIn(transcript)
<1> DEFINE more == Collected.usage
           uses == Only(Collected.items, {"ServerToolUse"})
           R == {"Result"}
<1>1. /\ IsSeq(more) /\ Len(more) = 1 /\ IsSeq(uses) /\ Only(uses, {"Result"}) = << >>
  BY CollectedSteps
<1>2. /\ modelSteps' = Append(modelSteps, Collected.kind) /\ usage' = usage \o more
      /\ trace' = trace \o uses
  BY DEF RecordStep
<1>3. /\ IsSeq(usage) /\ Len(usage) = Len(modelSteps) /\ IsSeq(trace)
      /\ Only(trace, {"Result"}) = ResultsIn(transcript)
  BY DEF RecordInv
<1>4. IsSeq(modelSteps)
  BY SeqIsSeq DEF StepsInv
<1>5. IsSeq(trace) /\ trace' = trace \o uses /\ IsSeq(usage) /\ usage' = usage \o more
  BY <1>2, <1>3
<1> HIDE DEF more, uses, R
<1>6. IsSeq(usage') /\ Len(usage') = Len(usage) + 1
  BY ONLY <1>1, <1>5, ConcatIsSeq
<1>7. Len(modelSteps') = Len(modelSteps) + 1
  BY ONLY <1>2, <1>4, AppendIsSeq
<1>8. IsSeq(trace') /\ Only(trace', R) = Only(trace, R) \o Only(uses, R)
  BY ONLY <1>1, <1>5, ConcatIsSeq, OnlyConcat
<1>9. Only(trace, R) \o << >> = Only(trace, R)
  BY <1>3, OnlyElements, EmptyAtTheEnd
<1> QED BY <1>1, <1>3, <1>6, <1>7, <1>8, <1>9 DEF R

\* A turn without results while no calls wait.
LEMMA TurnRecorded ==
  ASSUME RecordInv, pc # "tools",
         NEW t, IsSeq(t.blocks), Only(t.blocks, {"Result"}) = << >>,
         NEW then, NEW next,
         CallsIn(t.blocks) # << >> => then = "tools" /\ CallsIn(t.blocks) = next
  PROVE  /\ Turns(Append(transcript, t))
         /\ ResultsIn(Append(transcript, t)) = ResultsIn(transcript)
         /\ Answered(Append(transcript, t), then, next)
<1>1. Turns(transcript) /\ Answered(transcript, pc, Calls)
  BY DEF RecordInv
<1>2. /\ Turns(Append(transcript, t))
      /\ ResultsIn(Append(transcript, t)) = ResultsIn(transcript)
  BY <1>1, TurnWithoutResults
<1>3. Answered(Append(transcript, t), then, next)
  BY <1>1, AnswersGrow
<1> QED BY <1>2, <1>3

LEMMA FinalStepRecords ==
  ASSUME StepsInv, RecordInv, StreamInv, FinalStep PROVE RecordInv'
<1> DEFINE blocks == AnswerBlocks(Collected)
           t == [role |-> "assistant", blocks |-> blocks]
<1>1. /\ pc = "collected" /\ pc' = "ended" /\ RecordStep(Collected)
      /\ transcript' = Append(transcript, t)
  BY DEF FinalStep, StepReady, AppendTurn
<1>2. /\ IsSeq(t.blocks) /\ Only(t.blocks, {"Result"}) = << >> /\ CallsIn(t.blocks) = << >>
  BY <1>1, CollectedSteps
<1> HIDE DEF t
<1>3. /\ Turns(transcript') /\ ResultsIn(transcript') = ResultsIn(transcript)
      /\ Answered(transcript', pc', Calls')
  BY <1>1, <1>2, TurnRecorded
<1> QED BY <1>1, <1>3, StepRecorded DEF RecordInv

\* append_assistant_step, whose calls may wait in the phase that follows.
LEMMA AssistantStepRecorded ==
  ASSUME RecordInv, StreamInv, pc = "collected", NEW then, NEW next,
         Calls # << >> => then = "tools" /\ Calls = next,
         transcript' = AppendAssistantStep(transcript, Collected)
  PROVE  /\ Turns(transcript') /\ ResultsIn(transcript') = ResultsIn(transcript)
         /\ Answered(transcript', then, next)
<1> DEFINE blocks == TranscriptBlocks(Collected)
           t == [role |-> "assistant", blocks |-> blocks]
<1>1. CASE blocks = << >>
  <2>1. transcript' = transcript
    BY <1>1 DEF AppendAssistantStep
  <2>2. Turns(transcript) /\ Answered(transcript, pc, Calls)
    BY DEF RecordInv
  <2>3. Answered(transcript, then, next)
    BY <2>2, NothingWaits
  <2> QED BY <2>1, <2>2, <2>3
<1>2. CASE blocks # << >>
  <2>1. transcript' = Append(transcript, t)
    BY <1>2 DEF AppendAssistantStep, AppendTurn
  <2>2. /\ IsSeq(t.blocks) /\ Only(t.blocks, {"Result"}) = << >> /\ CallsIn(t.blocks) = Calls
    BY CollectedSteps DEF Calls
  <2> HIDE DEF t
  <2>3. CallsIn(t.blocks) # << >> => then = "tools" /\ CallsIn(t.blocks) = next
    BY <2>2
  <2> QED BY <2>1, <2>2, <2>3, TurnRecorded
<1> QED BY <1>1, <1>2

LEMMA ContinueStepRecords ==
  ASSUME StepsInv, RecordInv, StreamInv, ContinueStep PROVE RecordInv'
<1>1. /\ pc = "collected" /\ pc' = "head" /\ Collected.kind = "Continue" /\ RecordStep(Collected)
      /\ transcript' = AppendAssistantStep(transcript, Collected)
  BY DEF ContinueStep, StepReady
<1>2. Calls = << >>
  BY <1>1, CollectedSteps
<1>3. /\ Turns(transcript') /\ ResultsIn(transcript') = ResultsIn(transcript)
      /\ Answered(transcript', pc', Calls')
  BY <1>1, <1>2, AssistantStepRecorded
<1> QED BY <1>1, <1>3, StepRecorded DEF RecordInv

LEMMA ClientToolsStepRecords ==
  ASSUME StepsInv, RecordInv, StreamInv, ClientToolsStep PROVE RecordInv'
<1>1. /\ pc = "collected" /\ pc' = "tools" /\ RecordStep(Collected) /\ collector' = collector
      /\ transcript' = AppendAssistantStep(transcript, Collected)
  BY DEF ClientToolsStep, StepReady, request
<1>2. Calls' = Calls /\ IsSeq(Calls)
  BY <1>1, CollectedSteps DEF Calls, Collected
<1>3. /\ Turns(transcript') /\ ResultsIn(transcript') = ResultsIn(transcript)
      /\ Answered(transcript', pc', Calls')
  BY <1>1, <1>2, AssistantStepRecorded
<1> QED BY <1>1, <1>2, <1>3, StepRecorded DEF RecordInv

LEMMA ToolReturnsRecords ==
  ASSUME NEW k, NEW result, RecordInv, ToolReturns(k, result) PROVE RecordInv'
<1>1. UNCHANGED <<pc, collector, usage, modelSteps, trace, transcript>>
  BY DEF ToolReturns, request, record
<1>2. Calls' = Calls
  BY <1>1 DEF Calls, Collected
<1> QED BY <1>1, <1>2 DEF RecordInv

\* The results join the trace and the transcript together, in the order of
\* the calls that waited for them.
LEMMA ToolsFinishRecords ==
  ASSUME RecordInv, ToolsFinish PROVE RecordInv'
<1> DEFINE blocks == Results
           t == [role |-> "user", blocks |-> blocks]
           R == {"Result"}
<1>1. /\ pc = "tools" /\ pc' = "head" /\ trace' = trace \o Results
      /\ transcript' = Append(transcript, t) /\ UNCHANGED <<usage, modelSteps>>
  BY DEF ToolsFinish, AppendTurn
<1>2. /\ IsSeq(usage) /\ Len(usage) = Len(modelSteps) /\ IsSeq(trace) /\ Turns(transcript)
      /\ Only(trace, R) = ResultsIn(transcript) /\ Answered(transcript, pc, Calls)
      /\ IsSeq(Calls)
  BY <1>1 DEF RecordInv
<1>3. /\ IsSeq(Results) /\ Only(Results, R) = Results /\ CallsIn(Results) = << >>
      /\ IdsOf(Results) = IdsOf(Calls)
  BY <1>2, ResultsAnswerTheCalls
<1>4. t.role = "user" /\ t.blocks = Results
  OBVIOUS
<1> HIDE DEF t, R
<1>5. Turns(transcript') /\ ResultsIn(transcript') = ResultsIn(transcript) \o Results
  BY <1>1, <1>2, <1>3, <1>4, TurnAdded DEF R
<1>6. Answered(transcript', pc', Calls')
  BY <1>1, <1>2, <1>3, <1>4, AnswersGrow
<1>7. IsSeq(trace') /\ Only(trace', R) = Only(trace, R) \o Only(Results, R)
  <2>1. IsSeq(trace) /\ IsSeq(Results) /\ trace' = trace \o Results
    BY <1>1, <1>2, <1>3
  <2> QED BY ONLY <2>1, ConcatIsSeq, OnlyConcat
<1> QED BY <1>1, <1>2, <1>3, <1>5, <1>6, <1>7 DEF RecordInv, R

(***************************************************************************)
(* Every step.                                                             *)
(***************************************************************************)

RunInv == IInv /\ StreamInv /\ RecordInv

LEMMA NextStreams == ASSUME RunInv, Next PROVE StreamInv'
<1>0. TypeOK /\ StreamInv
  BY DEF RunInv, IInv
<1>1. CASE StartStep
  BY <1>1, PostsAgain DEF StartStep
<1>2. ASSUME NEW class \in ErrorClasses, PostFails(class) PROVE StreamInv'
  BY <1>0, <1>2, RetryPostStreams DEF PostFails, StreamInv
<1>3. ASSUME NEW class \in ErrorClasses, StreamBreaks(class) PROVE StreamInv'
  <2>1. pc = "stream" /\ (provider = "compat" => ~emitted)
    BY <1>0, <1>3 DEF StreamBreaks, StreamInv, Streaming
  <2> QED BY <1>0, <1>3, <2>1, RetryPostStreams, StreamFailsStreams DEF StreamBreaks
<1>4. ASSUME NEW r \in Responses, NEW whole \in BOOLEAN, PostAnswers(r, whole) PROVE StreamInv'
  BY <1>0, <1>4, PostAnswersStreams
<1>5. CASE Receive
  BY <1>0, <1>5, ReceiveStreams
<1>6. CASE StreamEnds
  BY <1>0, <1>6, StreamEndsStreams
<1>7. CASE DeadlinePasses \/ StepRefused \/ FinalStep \/ ContinueStep \/ ClientToolsStep
           \/ ToolsFinish \/ LimitReached
  BY <1>7, LeavesTheStream
  DEF DeadlinePasses, StepRefused, RunErrs, FinalStep, ContinueStep, ClientToolsStep, ToolsFinish,
      LimitReached
<1>8. ASSUME NEW k \in DOMAIN running, NEW result \in {"ok", "error"}, ToolReturns(k, result)
      PROVE  StreamInv'
  BY <1>8, LeavesTheStream DEF ToolReturns
<1>9. CASE pc = "ended" /\ UNCHANGED vars
  BY <1>9, LeavesTheStream DEF vars
<1> QED BY <1>1, <1>2, <1>3, <1>4, <1>5, <1>6, <1>7, <1>8, <1>9 DEF Next

LEMMA NextRecords == ASSUME RunInv, Next PROVE RecordInv'
<1>0. StepsInv /\ StreamInv /\ RecordInv
  BY DEF RunInv, IInv
<1>1. CASE StartStep \/ DeadlinePasses \/ StepRefused \/ LimitReached
  BY <1>0, <1>1, RecordsStay DEF StartStep, DeadlinePasses, StepRefused, RunErrs, LimitReached
<1>2. ASSUME NEW class \in ErrorClasses, PostFails(class) \/ StreamBreaks(class) PROVE RecordInv'
  BY <1>0, <1>2, RecordsStay
  DEF PostFails, StreamBreaks, RetryPost, StreamFails, StreamRetries, RunErrs
<1>3. ASSUME NEW r \in Responses, NEW whole \in BOOLEAN, PostAnswers(r, whole) PROVE RecordInv'
  BY <1>0, <1>3, RecordsStay DEF PostAnswers
<1>4. ASSUME NEW out, NEW wire, pc = "stream", Yield(out, wire) PROVE RecordInv'
  <2>1. pc' \in {"ended", "collected", "stream"} /\ UNCHANGED record
    BY <1>4 DEF Yield
  <2> QED BY <1>0, <1>4, <2>1, RecordsStay
<1>5. ASSUME NEW class, pc = "stream", StreamFails(class) PROVE RecordInv'
  BY <1>0, <1>5, RecordsStay DEF StreamFails, StreamRetries, RunErrs
<1>6. CASE Receive
  BY <1>4, <1>5, <1>6 DEF Receive
<1>7. CASE StreamEnds
  BY <1>4, <1>5, <1>7 DEF StreamEnds
<1>8. CASE FinalStep \/ ContinueStep \/ ClientToolsStep \/ ToolsFinish
  BY <1>0, <1>8, FinalStepRecords, ContinueStepRecords, ClientToolsStepRecords, ToolsFinishRecords
<1>9. ASSUME NEW k \in DOMAIN running, NEW result \in {"ok", "error"}, ToolReturns(k, result)
      PROVE  RecordInv'
  BY <1>0, <1>9, ToolReturnsRecords
<1>10. CASE pc = "ended" /\ UNCHANGED vars
  BY <1>0, <1>10, RecordsStay DEF vars
<1> QED BY <1>1, <1>2, <1>3, <1>6, <1>7, <1>8, <1>9, <1>10 DEF Next

LEMMA StutterRecords == ASSUME RunInv, UNCHANGED vars PROVE StreamInv' /\ RecordInv'
<1>1. UNCHANGED <<provider, pc, upstream, decoder, emitted, collector, usage, modelSteps, trace,
                  transcript>>
  BY DEF vars, request, record
<1>2. Calls' = Calls
  BY <1>1 DEF Calls, Collected
<1> QED BY <1>1, <1>2 DEF RunInv, StreamInv, Streaming, RecordInv

\* The inductive invariant of a run: what its steps record is what the streams
\* of its provider made of the service's responses.
THEOREM RunInvHolds == Spec => []RunInv
<1>1. Init => RunInv
  BY InitTypes, InitSteps, InitRecords DEF RunInv, IInv
<1>2. RunInv /\ [Next]_vars => RunInv'
  BY NextKeeps, NextStreams, NextRecords, StutterRecords DEF RunInv
<1> QED BY <1>1, <1>2, PTL DEF Spec

\* Whatever the providers stream and however the tools return, every call in
\* the transcript that Agent::run hands on is answered by the turn after it,
\* one result per call in the order of the calls, unless its tools still run.
THEOREM CallsHold == Spec => []CallsAreAnswered
<1>1. RunInv => CallsAreAnswered
  BY DEF RunInv, RecordInv, Answered, CallsAreAnswered
<1> QED BY <1>1, RunInvHolds, PTL

\* The records that a run hands over agree with its transcript: one model step
\* and one usage record for every completed step, and in the trace exactly the
\* results that the model was shown.
THEOREM AuditHolds == Spec => []AuditMatchesTranscript
<1>1. RunInv => AuditMatchesTranscript
  BY DEF RunInv, IInv, StepsInv, RecordInv, AuditMatchesTranscript
<1> QED BY <1>1, RunInvHolds, PTL
=============================================================================
