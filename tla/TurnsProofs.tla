---------------------------- MODULE TurnsProofs ----------------------------
(***************************************************************************)
(* Proofs about Turns, for every set of messages, deliveries, reactions    *)
(* and bounds.                                                             *)
(*                                                                         *)
(* The argument: a task comes to execute a turn only by making it pending, *)
(* which it may do only to a turn nobody executes; and it stops executing  *)
(* it when it stores the outcome.  So there is one executor per turn, and  *)
(* what it has posted, registered and stored is its own doing.             *)
(***************************************************************************)
EXTENDS Turns, SequenceTheorems, TLAPS

USE DEF Tasks

\* Conversations a turn or a task refers to were opened.
Opened ==
  /\ \A m \in Messages : conv[m] # NoMessage => conv[m] \in roots
  /\ \A k \in Tasks : found[k] # NoMessage => found[k] \in roots

\* A task that runs has taken a message.
Messaged == \A k \in Tasks : pc[k] # "idle" => msg[k] \in Messages

TypeInv == TypeOK /\ Opened /\ Messaged

LEMMA TypeInit == Init => TypeInv
BY TasksAssumption, ReplyMapsAssumption
   DEF Init, TypeInv, TypeOK, Opened, Messaged, Statuses, Marks, Controls, Intake, Retrying,
       Executing, Reacting

\* Only the columns of a turn's row and attempts change in finish_turn.
LEMMA FinishType ==
  ASSUME TypeInv, NEW k \in Tasks, NEW o \in Settled, FinishTurn(k, o)
  PROVE  /\ status' \in [Messages -> Statuses]
         /\ attempts' \in [Messages -> Seq(Statuses)]
<1>1. status' \in [Messages -> Statuses]
  BY DEF TypeInv, TypeOK, FinishTurn, FinishAttempt, Settled, Statuses
<1>2. CASE msg[k] \in Messages
  <2>1. [attempts[msg[k]] EXCEPT ![Len(attempts[msg[k]])] = o] \in Seq(Statuses)
    BY <1>2, ExceptSeq
       DEF TypeInv, TypeOK, FinishTurn, FinishAttempt, Settled, Statuses
  <2>2. attempts' \in [Messages -> Seq(Statuses)]
    BY <1>2, <2>1 DEF TypeInv, TypeOK, FinishTurn, FinishAttempt
  <2>3. QED  BY <1>1, <2>2
<1>3. CASE msg[k] \notin Messages
  BY <1>1, <1>3 DEF TypeInv, TypeOK, FinishTurn, FinishAttempt
<1>4. QED  BY <1>2, <1>3

LEMMA IntakeType ==
  ASSUME TypeInv, NEW d \in Deliveries, IntakeStep(d)
  PROVE  TypeInv'
<1> USE TasksAssumption DEF TypeInv, TypeOK, Opened, Messaged, Controls, Intake, Executing,
        Reacting, Goto, Step, database, platform, cancellation, control
<1>1. ASSUME NEW m \in Messages, Receive(d, m) PROVE TypeInv'
  <2>1. Existing(m) \in roots \cup {NoMessage}
    BY DEF Existing
  <2>2. CASE Existing(m) \in stopped  BY <1>1, <2>2 DEF Receive
  <2>3. CASE Existing(m) \notin stopped
    <3>1. /\ pc' = [pc EXCEPT ![d] = "accepted"]
          /\ marks' = [marks EXCEPT ![m] = @ \cup {"working"}]
      BY <1>1, <2>3 DEF Receive
    <3>2. pc' \in [Tasks -> Controls]  BY <3>1
    <3>3. marks' \in [Messages -> SUBSET Marks]  BY <3>1 DEF Marks
    <3> HIDE DEF Controls
    <3>4. TypeOK'  BY <1>1, <2>1, <2>3, <3>2, <3>3 DEF Receive
    <3>5. Opened'  BY <1>1, <2>1, <2>3 DEF Receive
    <3>6. Messaged'  BY <1>1, <2>3 DEF Receive
    <3>7. QED  BY <3>4, <3>5, <3>6
  <2>4. QED  BY <2>2, <2>3
<1>2. CASE RefuseMessage(d)  BY <1>2 DEF RefuseMessage
<1>3. CASE OpenConversation(d)
  <2>1. CASE msg[d] \in roots
    <3>1. pc' \in [Tasks -> Controls]  BY <1>3, <2>1 DEF OpenConversation
    <3> HIDE DEF Controls
    <3>2. QED  BY <1>3, <2>1, <3>1 DEF OpenConversation
  <2>2. CASE msg[d] \notin roots
    <3>1. /\ msg[d] \in Messages
          /\ pc' \in [Tasks -> Controls]
      BY <1>3, <2>2 DEF OpenConversation
    <3> HIDE DEF Controls
    <3>2. TypeOK'  BY <1>3, <2>2, <3>1 DEF OpenConversation
    <3>3. Opened'  BY <1>3, <2>2, <3>1 DEF OpenConversation
    <3>4. Messaged'  BY <1>3, <2>2 DEF OpenConversation
    <3>5. QED  BY <3>2, <3>3, <3>4
  <2>3. QED  BY <2>1, <2>2
<1>4. CASE BeginTurn(d)
  <2>1. CASE status[msg[d]] # "absent"
    <3>1. pc' \in [Tasks -> Controls]  BY <1>4, <2>1 DEF BeginTurn
    <3> HIDE DEF Controls
    <3>2. QED  BY <1>4, <2>1, <3>1 DEF BeginTurn
  <2>2. CASE status[msg[d]] = "absent"
    <3>1. /\ status' \in [Messages -> Statuses]
          /\ pc' \in [Tasks -> Controls]
      BY <1>4, <2>2 DEF BeginTurn, Statuses
    <3> HIDE DEF Controls
    <3>2. TypeOK'  BY <1>4, <2>2, <3>1 DEF BeginTurn
    <3>3. /\ conv' = [conv EXCEPT ![msg[d]] = found[d]]
          /\ found' = found /\ roots' = roots
          /\ d \in Tasks /\ found[d] \in roots
      BY <1>4, <2>2 DEF BeginTurn
    <3> Opened'
      <4> HIDE DEF TypeOK
      <4>1. \A m \in Messages : conv'[m] = conv[m] \/ conv'[m] = found[d]
        BY <3>3
      <4> QED BY <3>3, <4>1
    <3>4. Messaged'  BY <1>4, <2>2 DEF BeginTurn
    <3>5. QED  BY <3>2, <3>3, <3>4
  <2>3. QED  BY <2>1, <2>2
<1>5. CASE LinkUserMessage(d)  BY <1>5 DEF LinkUserMessage
<1>6. CASE SaveTurnInput(d)  BY <1>6 DEF SaveTurnInput, NewAttempt, Statuses
<1>7. QED
  BY <1>1, <1>2, <1>3, <1>4, <1>5, <1>6 DEF IntakeStep

LEMMA RetryType ==
  ASSUME TypeInv, NEW r \in Reactions, RetryStep(r)
  PROVE  TypeInv'
<1> USE TasksAssumption DEF TypeInv, TypeOK, Opened, Messaged, Controls, Retrying, Executing,
        Goto, Step, database, platform, cancellation, control
<1>1. ASSUME NEW m \in Messages, LoadRetry(r, m) PROVE TypeInv'
  BY <1>1 DEF LoadRetry
<1>2. CASE CollectPriorReplies(r)  BY <1>2 DEF CollectPriorReplies
<1>3. CASE PrepareRetry(r)
  BY <1>3 DEF PrepareRetry, PrepareRetryFrom, Statuses
<1>4. CASE CheckRetrySnapshot(r)  BY <1>4 DEF CheckRetrySnapshot
<1>5. CASE SaveRetryInput(r)  BY <1>5 DEF SaveRetryInput, NewAttempt, Statuses
<1>6. CASE DeletePriorReplies(r)  BY <1>6 DEF DeletePriorReplies, Marks
<1>7. QED
  BY <1>1, <1>2, <1>3, <1>4, <1>5, <1>6 DEF RetryStep

LEMMA ExecutionType ==
  ASSUME TypeInv, NEW k \in Tasks, ExecutionStep(k) \/ ProviderStep(k) \/ TaskErrs(k)
  PROVE  TypeInv'
<1> USE TasksAssumption DEF TypeInv, TypeOK, Opened, Messaged, Controls, Intake, Retrying,
        Executing, Reacting, Goto, Step, database, platform, cancellation, control, locals
<1>1. CASE RecheckStop(k)  BY <1>1 DEF RecheckStop
<1>2. CASE Register(k)  BY <1>2 DEF Register
<1>3. CASE ObserveCancel(k)  BY <1>3 DEF ObserveCancel
<1>4. CASE RunReturns(k)  BY <1>4 DEF RunReturns, DropGuard
<1>5. CASE RunErrs(k)  BY <1>5 DEF RunErrs
<1>6. CASE PostAnswer(k)  BY <1>6 DEF PostAnswer, PostReply
<1>7. CASE LinkAnswer(k)  BY <1>7 DEF LinkAnswer, LinkReply
<1>8. CASE FinishCompleted(k)
  BY <1>8, FinishType DEF FinishCompleted, FinishTurn, FinishAttempt, Settled
<1>9. CASE PostError(k)  BY <1>9 DEF PostError, PostReply
<1>10. CASE FinishFailed(k)
  BY <1>10, FinishType DEF FinishFailed, FinishTurn, FinishAttempt, Settled
<1>11. CASE LinkError(k)  BY <1>11 DEF LinkError, LinkReply, DropGuard
<1>12. CASE FinishRefused(k)
  BY <1>12, FinishType DEF FinishRefused, FinishTurn, FinishAttempt, Settled, DropGuard
<1>13. CASE FinishCancelled(k)
  BY <1>13, FinishType DEF FinishCancelled, FinishTurn, FinishAttempt, Settled, DropGuard
<1>14. CASE React(k)  BY <1>14 DEF React, MarkOf, Marks
<1>15. CASE TaskErrs(k)
  <2>1. pc' \in [Tasks -> Controls]  BY <1>15 DEF TaskErrs
  <2>2. QED  BY <1>15, <2>1 DEF TaskErrs, DropGuard
<1>16. QED
  BY <1>1, <1>2, <1>3, <1>4, <1>5, <1>6, <1>7, <1>8, <1>9, <1>10, <1>11, <1>12, <1>13,
     <1>14, <1>15 DEF ExecutionStep, ProviderStep

LEMMA StopType ==
  ASSUME TypeInv, NEW c \in Messages, StopStep(c)
  PROVE  TypeInv'
<1> USE TasksAssumption DEF TypeInv, TypeOK, Opened, Messaged, database, platform,
        cancellation, control, locals
<1>1. CASE StoreStop(c)  BY <1>1 DEF StoreStop
<1>2. CASE CancelConversation(c)
  BY <1>2 DEF CancelConversation, CancelRuns, Registered
<1>3. CASE StoreResume(c)  BY <1>3 DEF StoreResume
<1>4. QED  BY <1>1, <1>2, <1>3 DEF StopStep

LEMMA TypeStep == TypeInv /\ [Next]_vars => TypeInv'
<1> SUFFICES ASSUME TypeInv, [Next]_vars PROVE TypeInv'
  OBVIOUS
<1>1. CASE Crash
  BY <1>1, TasksAssumption, BoundsAssumption
     DEF Crash, TypeInv, TypeOK, Opened, Messaged, Controls, database, platform, locals
<1>2. CASE UNCHANGED vars
  BY <1>2 DEF vars, TypeInv, TypeOK, Opened, Messaged, database, platform, cancellation,
              control
<1>3. QED
  BY <1>1, <1>2, IntakeType, RetryType, ExecutionType, StopType DEF Next

\* The strengthened type invariant holds: a begun turn has an open conversation
\* and a busy task a message.
THEOREM TypeInvHolds == Spec => []TypeInv
  BY TypeInit, TypeStep, PTL DEF Spec

\* The types of Turns, for any number of messages and tasks.
THEOREM TypesHold == Spec => []TypeOK
<1>1. TypeInv => TypeOK
  BY DEF TypeInv
<1>2. QED  BY <1>1, TypeInvHolds, PTL

-----------------------------------------------------------------------------
(* What one step does to the executors: every action is of one of these    *)
(* kinds.                                                                  *)

OthersStay(k) == \A j \in Tasks \ {k} : pc'[j] = pc[j] /\ msg'[j] = msg[j]

\* The task has posted the answer and not yet stored it.
Answered == {"answered", "answerLinked"}

\* Task k goes on executing its turn.
Works(k) ==
  /\ OthersStay(k)
  /\ msg[k] \in Messages
  /\ msg'[k] = msg[k]
  /\ pc[k] \in Owning
  /\ pc'[k] \in Owning
  /\ pc[k] \in Answered => pc'[k] \in Answered
  /\ pc'[k] \in Answered => pc[k] \in Answered \/ PostAnswer(k)
  /\ status' = status

\* Task k does something else, or gives up.
Rests(k) ==
  /\ OthersStay(k)
  /\ pc[k] # "idle" => msg'[k] = msg[k]
  /\ pc'[k] \notin Owning
  /\ pc'[k] \notin {"idle", "reactSuccess"}
  /\ status' = status

\* Task k makes a turn pending that was not.
Takes(k) ==
  /\ OthersStay(k)
  /\ msg[k] \in Messages
  /\ msg'[k] = msg[k]
  /\ pc[k] \notin Owning
  /\ pc[k] # "idle"
  /\ pc'[k] \in Owning \ Answered
  /\ status[msg[k]] \in {"absent", "failed"}
  /\ status' = [status EXCEPT ![msg[k]] = "pending"]

\* Task k stores its turn's outcome.
Settles(k, outcome) ==
  /\ OthersStay(k)
  /\ msg[k] \in Messages
  /\ msg'[k] = msg[k]
  /\ pc[k] \in Owning
  /\ pc'[k] \notin Owning
  /\ pc'[k] # "idle"
  /\ outcome = "completed" <=> pc[k] \in Answered
  /\ outcome = "completed" <=> pc'[k] = "reactSuccess"
  /\ outcome = "cancelled" => pc[k] = "cancel"
  /\ status' = [status EXCEPT ![msg[k]] = outcome]

\* Nobody moves, or everybody stops.
Halts ==
  /\ msg' = msg
  /\ status' = status
  /\ \/ pc' = pc
     \/ \A k \in Tasks : pc'[k] = IF pc[k] = "idle" THEN "idle" ELSE "done"

StepKind ==
  \/ \E k \in Tasks : Works(k) \/ Rests(k) \/ Takes(k)
  \/ \E k \in Tasks, o \in Settled : Settles(k, o)
  \/ Halts

LEMMA IntakeKinds ==
  ASSUME TypeInv, NEW d \in Deliveries, IntakeStep(d)
  PROVE  StepKind
<1> d \in Tasks  OBVIOUS
<1> USE DEF TypeInv, TypeOK, Messaged, Executing, Owning, Answered, Goto, Step, OthersStay,
        database
<1>1. ASSUME NEW m \in Messages, Receive(d, m) PROVE Rests(d)
  BY <1>1 DEF Receive, Rests
<1>2. CASE RefuseMessage(d)
  <2>1. Rests(d)  BY <1>2 DEF RefuseMessage, Rests
  <2>2. QED  BY <2>1 DEF StepKind
<1>3. CASE OpenConversation(d)
  <2>1. Rests(d)  BY <1>3 DEF OpenConversation, Rests
  <2>2. QED  BY <2>1 DEF StepKind
<1>4. CASE BeginTurn(d)
  <2>1. CASE status[msg[d]] = "absent"
    <3>1. Takes(d)  BY <1>4, <2>1 DEF BeginTurn, Takes
    <3>2. QED  BY <3>1 DEF StepKind
  <2>2. CASE status[msg[d]] # "absent"
    <3>1. Rests(d)  BY <1>4, <2>2 DEF BeginTurn, Rests
    <3>2. QED  BY <3>1 DEF StepKind
  <2>3. QED  BY <2>1, <2>2
<1>5. CASE LinkUserMessage(d)
  <2>1. Works(d)  BY <1>5 DEF LinkUserMessage, Works
  <2>2. QED  BY <2>1 DEF StepKind
<1>6. CASE SaveTurnInput(d)
  <2>1. Works(d)  BY <1>6 DEF SaveTurnInput, Works
  <2>2. QED  BY <2>1 DEF StepKind
<1>7. QED
  BY <1>1, <1>2, <1>3, <1>4, <1>5, <1>6 DEF IntakeStep, StepKind

LEMMA RetryKinds ==
  ASSUME TypeInv, NEW r \in Reactions, RetryStep(r)
  PROVE  StepKind
<1> r \in Tasks  OBVIOUS
<1> USE DEF TypeInv, TypeOK, Messaged, Executing, Owning, Answered, Goto, Step, OthersStay,
        database
<1>1. ASSUME NEW m \in Messages, LoadRetry(r, m) PROVE Rests(r)
  BY <1>1 DEF LoadRetry, Rests
<1>2. CASE CollectPriorReplies(r)
  <2>1. Rests(r)  BY <1>2 DEF CollectPriorReplies, Rests
  <2>2. QED  BY <2>1 DEF StepKind
<1>3. CASE PrepareRetry(r)
  <2>1. CASE status[msg[r]] = "failed" /\ conv[msg[r]] \notin stopped
    <3>1. Takes(r)  BY <1>3, <2>1 DEF PrepareRetry, PrepareRetryFrom, Takes
    <3>2. QED  BY <3>1 DEF StepKind
  <2>2. CASE ~(status[msg[r]] = "failed" /\ conv[msg[r]] \notin stopped)
    <3>1. Rests(r)  BY <1>3, <2>2 DEF PrepareRetry, PrepareRetryFrom, Rests
    <3>2. QED  BY <3>1 DEF StepKind
  <2>3. QED  BY <2>1, <2>2
<1>4. CASE CheckRetrySnapshot(r)
  <2>1. Rests(r) \/ Works(r)  BY <1>4 DEF CheckRetrySnapshot, Rests, Works
  <2>2. QED  BY <2>1 DEF StepKind
<1>5. CASE SaveRetryInput(r)
  <2>1. Works(r)  BY <1>5 DEF SaveRetryInput, Works
  <2>2. QED  BY <2>1 DEF StepKind
<1>6. CASE DeletePriorReplies(r)
  <2>1. Works(r)  BY <1>6 DEF DeletePriorReplies, Works
  <2>2. QED  BY <2>1 DEF StepKind
<1>7. QED
  BY <1>1, <1>2, <1>3, <1>4, <1>5, <1>6 DEF RetryStep, StepKind

LEMMA ExecutionKinds ==
  ASSUME TypeInv, NEW k \in Tasks, ExecutionStep(k) \/ ProviderStep(k) \/ TaskErrs(k)
  PROVE  StepKind
<1> USE DEF TypeInv, TypeOK, Messaged, Intake, Retrying, Executing, Reacting, Owning, Answered,
            Goto, Step, OthersStay, database, locals
<1>1. CASE \/ RecheckStop(k) \/ Register(k) \/ ObserveCancel(k) \/ RunReturns(k)
           \/ RunErrs(k)
  <2>1. Works(k)
    BY <1>1 DEF RecheckStop, Register, ObserveCancel, RunReturns, RunErrs, Works
  <2>2. QED  BY <2>1 DEF StepKind
<1>2. CASE PostAnswer(k) \/ LinkAnswer(k) \/ PostError(k)
  <2>1. Works(k)
    BY <1>2 DEF PostAnswer, LinkAnswer, PostError, PostReply, LinkReply, Works
  <2>2. QED  BY <2>1 DEF StepKind
<1>3. CASE FinishCompleted(k)
  <2>1. Settles(k, "completed")
    BY <1>3 DEF FinishCompleted, FinishTurn, FinishAttempt, Settles
  <2>2. QED  BY <2>1 DEF StepKind, Settled
<1>4. CASE FinishFailed(k) \/ FinishRefused(k)
  <2>1. Settles(k, "failed")
    BY <1>4 DEF FinishFailed, FinishRefused, FinishTurn, FinishAttempt, Settles
  <2>2. QED  BY <2>1 DEF StepKind, Settled
<1>5. CASE FinishCancelled(k)
  <2>1. Settles(k, "cancelled")
    BY <1>5 DEF FinishCancelled, FinishTurn, FinishAttempt, Settles
  <2>2. QED  BY <2>1 DEF StepKind, Settled
<1>6. CASE LinkError(k) \/ React(k) \/ TaskErrs(k)
  <2>1. Rests(k)
    BY <1>6 DEF LinkError, LinkReply, React, TaskErrs, Rests
  <2>2. QED  BY <2>1 DEF StepKind
<1>7. QED
  BY <1>1, <1>2, <1>3, <1>4, <1>5, <1>6 DEF ExecutionStep, ProviderStep

LEMMA StepKinds == TypeInv /\ [Next]_vars => StepKind
<1> SUFFICES ASSUME TypeInv, [Next]_vars PROVE StepKind
  OBVIOUS
<1>1. ASSUME NEW c \in Messages, StopStep(c) PROVE Halts
  BY <1>1 DEF StopStep, StoreStop, CancelConversation, CancelRuns, StoreResume, database,
              locals, Halts
<1>2. CASE Crash
  <2>1. Halts  BY <1>2 DEF Crash, database, locals, Halts, TypeInv, TypeOK
  <2>2. QED  BY <2>1 DEF StepKind
<1>3. CASE UNCHANGED vars
  <2>1. Halts  BY <1>3 DEF vars, database, Halts
  <2>2. QED  BY <2>1 DEF StepKind
<1>4. QED
  BY <1>1, <1>2, <1>3, IntakeKinds, RetryKinds, ExecutionKinds DEF Next, StepKind

-----------------------------------------------------------------------------
(* One executor per turn. *)

LEMMA ExecutorStep == TypeInv /\ TypeInv' /\ OneExecutorPerTurn /\ StepKind => OneExecutorPerTurn'
<1> SUFFICES ASSUME TypeInv, TypeInv', OneExecutorPerTurn, StepKind
             PROVE  OneExecutorPerTurn'
  OBVIOUS
<1> USE DEF OneExecutorPerTurn, Owners, OthersStay
<1>0. "idle" \notin Owning /\ "done" \notin Owning  BY DEF Owning, Executing
<1> HIDE DEF Owning
<1>1. ASSUME NEW k \in Tasks, Works(k) PROVE OneExecutorPerTurn'
  BY <1>1 DEF Works
<1>2. ASSUME NEW k \in Tasks, Rests(k) PROVE OneExecutorPerTurn'
  BY <1>2 DEF Rests
<1>3. ASSUME NEW k \in Tasks, Takes(k) PROVE OneExecutorPerTurn'
  <2>1. \A j \in Tasks : pc[j] \in Owning => msg[j] # msg[k]
    BY <1>3 DEF Takes
  <2>2. status'[msg[k]] = "pending"
    BY <1>3 DEF Takes, TypeInv, TypeOK
  <2>3. \A j \in Tasks : pc[j] \in Owning => status'[msg[j]] = status[msg[j]]
    BY <1>3, <2>1, <1>0 DEF Takes, TypeInv, TypeOK, Messaged
  <2>4. QED  BY <1>3, <2>1, <2>2, <2>3 DEF Takes
<1>4. ASSUME NEW k \in Tasks, NEW o \in Settled, Settles(k, o) PROVE OneExecutorPerTurn'
  <2>1. \A j \in Tasks \ {k} : pc[j] \in Owning => msg[j] # msg[k]
    BY <1>4 DEF Settles
  <2>2. \A j \in Tasks \ {k} : pc[j] \in Owning => status'[msg[j]] = status[msg[j]]
    BY <1>4, <2>1, <1>0 DEF Settles, TypeInv, TypeOK, Messaged
  <2>3. QED  BY <1>4, <2>1, <2>2 DEF Settles
<1>5. CASE Halts  BY <1>0, <1>5 DEF Halts
<1>6. QED  BY <1>1, <1>2, <1>3, <1>4, <1>5 DEF StepKind

\* Any number of deliveries, retries, stops and crashes: a turn has at most one
\* executor, and an executed turn is pending.
THEOREM OneExecutorHolds == Spec => []OneExecutorPerTurn
<1>1. Init => OneExecutorPerTurn
  BY DEF Init, OneExecutorPerTurn, Owning, Executing
<1>2. TypeInv /\ TypeInv' /\ OneExecutorPerTurn /\ [Next]_vars => OneExecutorPerTurn'
  BY StepKinds, ExecutorStep
<1>3. QED  BY <1>1, <1>2, TypeInvHolds, PTL DEF Spec

-----------------------------------------------------------------------------
(* Answers.  What one step does to replies, links and marks.               *)

LEMMA TasksLive ==
  ASSUME StepKind, NEW k \in Tasks, pc[k] # "idle"
  PROVE  pc'[k] # "idle" /\ msg'[k] = msg[k]
<1>0. "idle" \notin Owning  BY DEF Owning, Executing
<1>1. ASSUME NEW j \in Tasks, Works(j) \/ Rests(j) \/ Takes(j)
      PROVE  pc'[k] # "idle" /\ msg'[k] = msg[k]
  BY <1>0, <1>1 DEF Works, Rests, Takes, OthersStay
<1>2. ASSUME NEW j \in Tasks, NEW o \in Settled, Settles(j, o)
      PROVE  pc'[k] # "idle" /\ msg'[k] = msg[k]
  BY <1>2 DEF Settles, OthersStay
<1>3. CASE Halts  BY <1>3 DEF Halts
<1>4. QED  BY <1>1, <1>2, <1>3 DEF StepKind

ReplyKind ==
  \/ reply' = reply
  \/ \E k \in Tasks : PostAnswer(k) \/ PostError(k) \/ DeletePriorReplies(k)

PriorKind ==
  \A k \in Tasks : \/ prior'[k] \subseteq prior[k]
                   \/ pc[k] # "idle" /\ prior'[k] = {j \in replyLinks : msg[j] = msg[k]}

LinksKind == \A j \in replyLinks' : j \in replyLinks \/ pc[j] # "idle"

MarksKind ==
  \A m \in Messages : "success" \in marks'[m] =>
    \/ "success" \in marks[m]
    \/ \E k \in Tasks : pc[k] = "reactSuccess" /\ msg[k] = m

DataKind == ReplyKind /\ PriorKind /\ LinksKind /\ MarksKind

LEMMA DataKinds == TypeInv /\ [Next]_vars => DataKind
<1> SUFFICES ASSUME TypeInv, [Next]_vars PROVE DataKind
  OBVIOUS
<1> USE DEF database, platform, cancellation, control, locals, Step, Goto
<1>0. ASSUME UNCHANGED <<reply, prior, replyLinks, marks>> PROVE DataKind
  BY <1>0 DEF DataKind, ReplyKind, PriorKind, LinksKind, MarksKind
<1>1. ASSUME NEW d \in Deliveries, IntakeStep(d) PROVE DataKind
  <2>1. ASSUME NEW m \in Messages, Receive(d, m) PROVE DataKind
    <3>1. marks' = marks \/ marks' = [marks EXCEPT ![m] = @ \cup {"working"}]
      BY <2>1 DEF Receive
    <3>2. MarksKind
      BY <3>1 DEF MarksKind, TypeInv, TypeOK
    <3>3. QED
      BY <2>1, <3>2 DEF Receive, DataKind, ReplyKind, PriorKind, LinksKind
  <2>2. CASE \/ RefuseMessage(d) \/ OpenConversation(d) \/ BeginTurn(d)
             \/ LinkUserMessage(d) \/ SaveTurnInput(d)
    BY <1>0, <2>2 DEF RefuseMessage, OpenConversation, BeginTurn, LinkUserMessage,
                      SaveTurnInput
  <2>3. QED  BY <1>1, <2>1, <2>2 DEF IntakeStep
<1>2. ASSUME NEW r \in Reactions, RetryStep(r) PROVE DataKind
  <2>1. CASE CollectPriorReplies(r)
    <3>1. PriorKind
      BY <2>1 DEF CollectPriorReplies, PriorKind, TypeInv, TypeOK
    <3>2. QED
      BY <2>1, <3>1 DEF CollectPriorReplies, DataKind, ReplyKind, LinksKind, MarksKind
  <2>2. CASE DeletePriorReplies(r)
    <3>1. PriorKind
      BY <2>2 DEF DeletePriorReplies, PriorKind, TypeInv, TypeOK
    <3>2. MarksKind
      BY <2>2 DEF DeletePriorReplies, MarksKind, TypeInv, TypeOK
    <3>3. ReplyKind  BY <2>2 DEF ReplyKind
    <3>4. QED
      BY <2>2, <3>1, <3>2, <3>3 DEF DeletePriorReplies, DataKind, LinksKind
  <2>3. ASSUME NEW m \in Messages, LoadRetry(r, m) PROVE DataKind
    BY <1>0, <2>3 DEF LoadRetry
  <2>4. CASE PrepareRetry(r) \/ CheckRetrySnapshot(r) \/ SaveRetryInput(r)
    BY <1>0, <2>4 DEF PrepareRetry, PrepareRetryFrom, CheckRetrySnapshot, SaveRetryInput
  <2>5. QED  BY <1>2, <2>1, <2>2, <2>3, <2>4 DEF RetryStep
<1>3. ASSUME NEW k \in Tasks, ExecutionStep(k) \/ ProviderStep(k) \/ TaskErrs(k)
      PROVE  DataKind
  <2>1. CASE PostAnswer(k) \/ PostError(k)
    BY <2>1 DEF PostAnswer, PostError, PostReply, DataKind, ReplyKind, PriorKind, LinksKind,
                MarksKind
  <2>2. CASE LinkAnswer(k) \/ LinkError(k)
    BY <2>2 DEF LinkAnswer, LinkError, LinkReply, DataKind, ReplyKind, PriorKind, LinksKind,
                MarksKind
  <2>3. CASE React(k)
    <3>1. "success" \in MarkOf[pc[k]] => pc[k] = "reactSuccess"
      BY <2>3 DEF React, MarkOf, Reacting
    <3>2. MarksKind
      BY <2>3, <3>1 DEF React, MarksKind, TypeInv, TypeOK
    <3>3. QED
      BY <2>3, <3>2 DEF React, DataKind, ReplyKind, PriorKind, LinksKind
  <2>4. CASE \/ RecheckStop(k) \/ Register(k) \/ ObserveCancel(k) \/ RunReturns(k)
             \/ RunErrs(k) \/ TaskErrs(k)
    BY <1>0, <2>4 DEF RecheckStop, Register, ObserveCancel, RunReturns, RunErrs, TaskErrs
  <2>5. CASE FinishCompleted(k) \/ FinishFailed(k) \/ FinishRefused(k) \/ FinishCancelled(k)
    BY <1>0, <2>5 DEF FinishCompleted, FinishFailed, FinishRefused, FinishCancelled,
                      FinishTurn, FinishAttempt
  <2>6. QED
    BY <1>3, <2>1, <2>2, <2>3, <2>4, <2>5 DEF ExecutionStep, ProviderStep
<1>4. ASSUME NEW c \in Messages, StopStep(c) PROVE DataKind
  BY <1>0, <1>4 DEF StopStep, StoreStop, CancelConversation, CancelRuns, StoreResume
<1>5. CASE Crash  BY <1>0, <1>5 DEF Crash
<1>6. CASE UNCHANGED vars  BY <1>0, <1>6 DEF vars
<1>7. QED
  BY <1>1, <1>2, <1>3, <1>4, <1>5, <1>6 DEF Next

\* What tasks have posted, linked and collected is theirs.
PostedInv ==
  /\ \A k \in Tasks : reply[k] # "none" => pc[k] # "idle"
  /\ \A j \in replyLinks : pc[j] # "idle"
  /\ \A k \in Tasks : \A j \in prior[k] : /\ pc[j] # "idle"
                                          /\ pc[k] # "idle"
                                          /\ msg[j] = msg[k]

LEMMA PostedStep ==
  TypeInv /\ TypeInv' /\ PostedInv /\ StepKind /\ DataKind => PostedInv'
<1> SUFFICES ASSUME TypeInv, TypeInv', PostedInv, StepKind, DataKind PROVE PostedInv'
  OBVIOUS
<1>1. \A k \in Tasks : pc[k] # "idle" => pc'[k] # "idle" /\ msg'[k] = msg[k]
  BY TasksLive
<1>2. ASSUME NEW k \in Tasks, reply'[k] # "none" PROVE pc'[k] # "idle"
  <2>1. CASE reply' = reply  BY <1>1, <1>2, <2>1 DEF PostedInv
  <2>2. ASSUME NEW j \in Tasks, PostAnswer(j) \/ PostError(j) PROVE pc'[k] # "idle"
    BY <1>1, <1>2, <2>2 DEF PostAnswer, PostError, PostReply, PostedInv, Step, TypeInv, TypeOK
  <2>3. ASSUME NEW j \in Tasks, DeletePriorReplies(j) PROVE pc'[k] # "idle"
    BY <1>1, <1>2, <2>3 DEF DeletePriorReplies, PostedInv, TypeInv, TypeOK
  <2>4. QED  BY <2>1, <2>2, <2>3 DEF DataKind, ReplyKind
<1>3. \A j \in replyLinks' : pc'[j] # "idle"
  BY <1>1 DEF PostedInv, DataKind, LinksKind, TypeInv, TypeOK
<1>4. ASSUME NEW k \in Tasks, NEW j \in prior'[k]
      PROVE  pc'[j] # "idle" /\ pc'[k] # "idle" /\ msg'[j] = msg'[k]
  <2>1. j \in Tasks  BY DEF TypeInv, TypeOK
  <2>2. pc[j] # "idle" /\ pc[k] # "idle" /\ msg[j] = msg[k]
    BY DEF PostedInv, DataKind, PriorKind
  <2>3. QED  BY <1>1, <2>1, <2>2
<1>5. QED  BY <1>2, <1>3, <1>4 DEF PostedInv

\* An answer belongs to the turn's one executor until the turn is completed.
AnswerInv ==
  /\ \A k \in Tasks : reply[k] = "answer" =>
        /\ status[msg[k]] \in {"pending", "completed"}
        /\ \A j \in Owners(msg[k]) : j = k /\ pc[k] \in Answered
  /\ \A k \in Tasks : pc[k] \in Answered => reply[k] = "answer"
  /\ \A k \in Tasks : pc[k] = "reactSuccess" =>
        reply[k] = "answer" /\ status[msg[k]] = "completed"

\* Only PostAnswer makes an answer, and nothing takes one away.
LEMMA AnswersKept ==
  ASSUME TypeInv, PostedInv, AnswerInv, DataKind, NEW k \in Tasks
  PROVE  IF PostAnswer(k) THEN reply'[k] = "answer"
                          ELSE reply'[k] = "answer" <=> reply[k] = "answer"
<1> USE DEF Step, Goto
<1>1. CASE reply' = reply
  BY <1>1 DEF PostAnswer, PostReply, TypeInv, TypeOK
<1>2. ASSUME NEW j \in Tasks, PostAnswer(j)
      PROVE  IF PostAnswer(k) THEN reply'[k] = "answer"
                              ELSE reply'[k] = "answer" <=> reply[k] = "answer"
  BY <1>2 DEF PostAnswer, PostReply, TypeInv, TypeOK
<1>3. ASSUME NEW j \in Tasks, PostError(j)
      PROVE  ~PostAnswer(k) /\ (reply'[k] = "answer" <=> reply[k] = "answer")
  <2>1. reply[j] # "answer"
    BY <1>3 DEF PostError, AnswerInv, Owners, Owning, Executing, Answered
  <2>2. QED  BY <1>3, <2>1 DEF PostError, PostAnswer, PostReply, TypeInv, TypeOK
<1>4. ASSUME NEW j \in Tasks, DeletePriorReplies(j)
      PROVE  ~PostAnswer(k) /\ (reply'[k] = "answer" <=> reply[k] = "answer")
  <2>1. ~PostAnswer(k)
    BY <1>4 DEF DeletePriorReplies, PostAnswer, PostReply, TypeInv, TypeOK
  <2>2. ASSUME k \in prior[j] PROVE reply[k] # "answer"
    <3>1. j \in Owners(msg[k])
      BY <1>4, <2>2 DEF DeletePriorReplies, PostedInv, Owners, Owning
    <3>2. pc[j] \notin Answered  BY <1>4 DEF DeletePriorReplies, Answered
    <3>3. QED  BY <3>1, <3>2 DEF AnswerInv
  <2>3. reply'[k] = "answer" <=> reply[k] = "answer"
    BY <1>4, <2>2 DEF DeletePriorReplies
  <2>4. QED  BY <2>1, <2>3
<1>5. QED  BY <1>1, <1>2, <1>3, <1>4 DEF DataKind, ReplyKind

LEMMA AnswerStep ==
  ASSUME TypeInv, TypeInv', PostedInv, OneExecutorPerTurn, OneExecutorPerTurn', AnswerInv,
         StepKind, DataKind
  PROVE  AnswerInv'
<1>0. /\ "idle" \notin Owning /\ "done" \notin Owning /\ "reactSuccess" \notin Owning
      /\ Answered \subseteq Owning /\ "reactSuccess" \notin Answered
      /\ "done" \notin Answered
  BY DEF Owning, Executing, Answered
<1>1. \A k \in Tasks : pc[k] # "idle" => pc'[k] # "idle" /\ msg'[k] = msg[k]
  BY TasksLive
<1>2. \A k \in Tasks : IF PostAnswer(k) THEN reply'[k] = "answer"
                                       ELSE reply'[k] = "answer" <=> reply[k] = "answer"
  BY AnswersKept
<1>3. \A k \in Tasks : PostAnswer(k) => /\ pc[k] \in Owning \ Answered
                                        /\ pc'[k] \in Answered
                                        /\ status' = status
                                        /\ \A j \in Tasks \ {k} : pc'[j] = pc[j]
  BY DEF PostAnswer, PostReply, Step, Goto, Owning, Executing, Answered, database, TypeInv,
         TypeOK
<1>4. ASSUME NEW k \in Tasks, pc'[k] \in Answered PROVE reply'[k] = "answer"
  <2>1. CASE PostAnswer(k)  BY <1>2, <2>1
  <2>2. CASE ~PostAnswer(k)
    <3>1. pc[k] \in Answered
      BY <1>0, <1>4, <2>2 DEF StepKind, Works, Rests, Takes, Settles, Halts, OthersStay
    <3>2. QED  BY <1>2, <2>2, <3>1 DEF AnswerInv
  <2>3. QED  BY <2>1, <2>2
<1>5. ASSUME NEW k \in Tasks, pc'[k] = "reactSuccess"
      PROVE  reply'[k] = "answer" /\ status'[msg'[k]] = "completed"
  <2>1. ~PostAnswer(k)  BY <1>0, <1>3, <1>5
  <2>2. CASE pc[k] = "reactSuccess"
    <3>1. reply[k] = "answer" /\ status[msg[k]] = "completed" /\ msg'[k] = msg[k]
          /\ msg[k] \in Messages
      BY <1>1, <2>2 DEF AnswerInv, TypeInv, Messaged
    <3>2. status'[msg[k]] = "completed"
      <4>1. ASSUME NEW j \in Tasks, NEW o \in Settled, Settles(j, o)
            PROVE  status'[msg[k]] = "completed"
        BY <3>1, <4>1 DEF Settles, OneExecutorPerTurn, TypeInv, TypeOK
      <4>2. ASSUME NEW j \in Tasks, Takes(j) PROVE status'[msg[k]] = "completed"
        BY <3>1, <4>2 DEF Takes, TypeInv, TypeOK
      <4>3. QED  BY <3>1, <4>1, <4>2 DEF StepKind, Works, Rests, Halts
    <3>3. QED  BY <1>2, <2>1, <3>1, <3>2
  <2>3. CASE pc[k] # "reactSuccess"
    <3>1. Settles(k, "completed")
      BY <1>0, <1>5, <2>3 DEF StepKind, Works, Rests, Takes, Settles, Halts, OthersStay
    <3>2. QED
      BY <1>2, <2>1, <3>1 DEF Settles, AnswerInv, TypeInv, TypeOK
  <2>4. QED  BY <2>2, <2>3
<1>6. ASSUME NEW k \in Tasks, reply'[k] = "answer"
      PROVE  /\ status'[msg'[k]] \in {"pending", "completed"}
             /\ \A j \in Owners(msg[k])' : j = k /\ pc'[k] \in Answered
  <2>1. CASE PostAnswer(k)
    <3>1. msg'[k] = msg[k] /\ pc'[k] \in Owning  BY <1>0, <1>1, <1>3, <2>1
    <3>2. QED  BY <1>3, <2>1, <3>1 DEF OneExecutorPerTurn, Owners
  <2>2. CASE ~PostAnswer(k)
    <3>1. /\ reply[k] = "answer"
          /\ msg'[k] = msg[k]
          /\ msg[k] \in Messages
          /\ status[msg[k]] \in {"pending", "completed"}
          /\ \A j \in Owners(msg[k]) : j = k /\ pc[k] \in Answered
      BY <1>1, <1>2, <1>6, <2>2 DEF PostedInv, AnswerInv, TypeInv, Messaged
    <3>2. ASSUME NEW j \in Tasks, Works(j)
          PROVE  /\ status'[msg'[k]] \in {"pending", "completed"}
                 /\ \A i \in Owners(msg[k])' : i = k /\ pc'[k] \in Answered
      BY <3>1, <3>2 DEF Works, OthersStay, Owners
    <3>3. ASSUME NEW j \in Tasks, Rests(j)
          PROVE  /\ status'[msg'[k]] \in {"pending", "completed"}
                 /\ \A i \in Owners(msg[k])' : i = k /\ pc'[k] \in Answered
      BY <3>1, <3>3 DEF Rests, OthersStay, Owners
    <3>4. ASSUME NEW j \in Tasks, Takes(j)
          PROVE  /\ status'[msg'[k]] \in {"pending", "completed"}
                 /\ \A i \in Owners(msg[k])' : i = k /\ pc'[k] \in Answered
      <4>1. msg[j] # msg[k]  BY <3>1, <3>4 DEF Takes
      <4>2. QED  BY <3>1, <3>4, <4>1 DEF Takes, OthersStay, Owners
    <3>5. ASSUME NEW j \in Tasks, NEW o \in Settled, Settles(j, o)
          PROVE  /\ status'[msg'[k]] \in {"pending", "completed"}
                 /\ \A i \in Owners(msg[k])' : i = k /\ pc'[k] \in Answered
      <4>1. CASE msg[j] = msg[k]
        <5>1. j = k /\ pc[k] \in Answered  BY <3>1, <3>5, <4>1 DEF Settles, Owners
        <5>2. status'[msg[k]] = "completed"
          BY <3>1, <3>5, <5>1 DEF Settles, TypeInv, TypeOK
        <5>3. QED  BY <3>1, <5>2 DEF OneExecutorPerTurn, Owners
      <4>2. CASE msg[j] # msg[k]
        BY <3>1, <3>5, <4>2 DEF Settles, OthersStay, Owners
      <4>3. QED  BY <4>1, <4>2
    <3>6. CASE Halts
      BY <1>0, <3>1, <3>6 DEF Halts, Owners
    <3>7. QED  BY <3>2, <3>3, <3>4, <3>5, <3>6 DEF StepKind
  <2>3. QED  BY <2>1, <2>2
<1>7. QED  BY <1>4, <1>5, <1>6 DEF AnswerInv

TurnInv == TypeInv /\ OneExecutorPerTurn /\ PostedInv /\ AnswerInv

LEMMA TurnInit == Init => TurnInv
<1> SUFFICES ASSUME Init PROVE TurnInv
  OBVIOUS
<1>1. TypeInv  BY TypeInit
<1>2. OneExecutorPerTurn /\ PostedInv /\ AnswerInv
  BY DEF Init, OneExecutorPerTurn, PostedInv, AnswerInv, Owning, Executing, Answered
<1>3. QED  BY <1>1, <1>2 DEF TurnInv

LEMMA TurnStep == TurnInv /\ [Next]_vars => TurnInv'
<1> SUFFICES ASSUME TurnInv, [Next]_vars PROVE TurnInv'
  OBVIOUS
<1>1. TypeInv'  BY TypeStep DEF TurnInv
<1>2. StepKind /\ DataKind  BY StepKinds, DataKinds DEF TurnInv
<1>3. OneExecutorPerTurn'  BY <1>1, <1>2, ExecutorStep DEF TurnInv
<1>4. PostedInv'  BY <1>1, <1>2, PostedStep DEF TurnInv
<1>5. AnswerInv'  BY <1>1, <1>2, <1>3, AnswerStep DEF TurnInv
<1>6. QED  BY <1>1, <1>3, <1>4, <1>5 DEF TurnInv

\* The inductive invariant of the executors and their answers.
THEOREM TurnInvHolds == Spec => []TurnInv
BY TurnInit, TurnStep, PTL DEF Spec

\* The success reaction is only ever given for a completed, answered turn, and
\* such a turn stays completed and answered.
THEOREM SuccessMarkHolds == Spec => []SuccessMarkIsEarned
<1>1. Init => SuccessMarkIsEarned
  BY DEF Init, SuccessMarkIsEarned
<1>2. TurnInv /\ TurnInv' /\ SuccessMarkIsEarned /\ [Next]_vars => SuccessMarkIsEarned'
  <2> SUFFICES ASSUME TurnInv, TurnInv', SuccessMarkIsEarned, [Next]_vars,
                      NEW m \in Messages, "success" \in marks'[m]
               PROVE  /\ status'[m] = "completed"
                      /\ \E k \in Tasks : msg'[k] = m /\ reply'[k] = "answer"
    BY DEF SuccessMarkIsEarned
  <2>1. StepKind /\ DataKind  BY StepKinds, DataKinds DEF TurnInv
  <2>2. PICK k \in Tasks : msg[k] = m /\ reply[k] = "answer" /\ status[m] = "completed"
    BY <2>1 DEF SuccessMarkIsEarned, DataKind, MarksKind, TurnInv, AnswerInv
  <2>3. reply'[k] = "answer" /\ msg'[k] = m
    BY <2>1, <2>2, AnswersKept, TasksLive DEF TurnInv, PostedInv
  <2>4. status'[m] = "completed"
    <3>1. ASSUME NEW j \in Tasks, NEW o \in Settled, Settles(j, o)
          PROVE  status'[m] = "completed"
      BY <2>2, <3>1 DEF Settles, OneExecutorPerTurn, TurnInv, TypeInv, TypeOK
    <3>2. ASSUME NEW j \in Tasks, Takes(j) PROVE status'[m] = "completed"
      BY <2>2, <3>2 DEF Takes, TurnInv, TypeInv, TypeOK
    <3>3. QED  BY <2>1, <2>2, <3>1, <3>2 DEF StepKind, Works, Rests, Halts
  <2>5. QED  BY <2>3, <2>4
<1>3. QED  BY <1>1, <1>2, TurnInvHolds, PTL DEF Spec

-----------------------------------------------------------------------------
(* Attempts.  What one step does to them.                                  *)

\* The task has a turn and no attempt of its own yet.
Drafting == {"begun", "linked", "prepared", "reset"}

\* Task k appends its attempt.
Saves(k) ==
  /\ OthersStay(k)
  /\ msg[k] \in Messages
  /\ msg'[k] = msg[k]
  /\ pc[k] \in Drafting
  /\ pc'[k] \notin Drafting
  /\ NewAttempt(msg[k])
  /\ status' = status

AttemptKind ==
  \/ attempts' = attempts /\ status' = status
  \/ \E k \in Tasks : Takes(k) /\ attempts' = attempts
  \/ \E k \in Tasks : Saves(k)
  \/ \E k \in Tasks, o \in Settled : Settles(k, o) /\ FinishTurn(k, o)

LEMMA AttemptKinds == TypeInv /\ [Next]_vars => AttemptKind
<1> SUFFICES ASSUME TypeInv, [Next]_vars PROVE AttemptKind
  OBVIOUS
<1> USE DEF TypeInv, TypeOK, Messaged, Executing, Owning, Answered, Drafting, Goto, Step,
        OthersStay, database
<1>1. ASSUME NEW d \in Deliveries, IntakeStep(d) PROVE AttemptKind
  <2> d \in Tasks  OBVIOUS
  <2>1. CASE BeginTurn(d) /\ status[msg[d]] = "absent"
    <3>1. Takes(d) /\ attempts' = attempts  BY <2>1 DEF BeginTurn, Takes
    <3>2. QED  BY <3>1 DEF AttemptKind
  <2>2. CASE SaveTurnInput(d)
    <3>1. Saves(d)  BY <2>2 DEF SaveTurnInput, Saves
    <3>2. QED  BY <3>1 DEF AttemptKind
  <2>3. CASE ~(BeginTurn(d) /\ status[msg[d]] = "absent") /\ ~SaveTurnInput(d)
    <3>1. attempts' = attempts /\ status' = status
      BY <1>1, <2>3 DEF IntakeStep, Receive, RefuseMessage, OpenConversation, BeginTurn,
                        LinkUserMessage
    <3>2. QED  BY <3>1 DEF AttemptKind
  <2>4. QED  BY <2>1, <2>2, <2>3
<1>2. ASSUME NEW r \in Reactions, RetryStep(r) PROVE AttemptKind
  <2> r \in Tasks  OBVIOUS
  <2>1. CASE PrepareRetry(r) /\ status[msg[r]] = "failed" /\ conv[msg[r]] \notin stopped
    <3>1. Takes(r) /\ attempts' = attempts
      BY <2>1 DEF PrepareRetry, PrepareRetryFrom, Takes
    <3>2. QED  BY <3>1 DEF AttemptKind
  <2>2. CASE SaveRetryInput(r)
    <3>1. Saves(r)  BY <2>2 DEF SaveRetryInput, Saves
    <3>2. QED  BY <3>1 DEF AttemptKind
  <2>3. CASE /\ ~(PrepareRetry(r) /\ status[msg[r]] = "failed" /\ conv[msg[r]] \notin stopped)
             /\ ~SaveRetryInput(r)
    <3>1. attempts' = attempts /\ status' = status
      BY <1>2, <2>3 DEF RetryStep, LoadRetry, CollectPriorReplies, PrepareRetry,
                        PrepareRetryFrom, CheckRetrySnapshot, DeletePriorReplies
    <3>2. QED  BY <3>1 DEF AttemptKind
  <2>4. QED  BY <2>1, <2>2, <2>3
<1>3. ASSUME NEW k \in Tasks, ExecutionStep(k) \/ ProviderStep(k) \/ TaskErrs(k)
      PROVE  AttemptKind
  <2>1. CASE FinishCompleted(k)
    <3>1. Settles(k, "completed") /\ FinishTurn(k, "completed")
      BY <2>1 DEF FinishCompleted, FinishTurn, FinishAttempt, Settles, locals
    <3>2. QED  BY <3>1 DEF AttemptKind, Settled
  <2>2. CASE FinishFailed(k) \/ FinishRefused(k)
    <3>1. Settles(k, "failed") /\ FinishTurn(k, "failed")
      BY <2>2 DEF FinishFailed, FinishRefused, FinishTurn, FinishAttempt, Settles, locals
    <3>2. QED  BY <3>1 DEF AttemptKind, Settled
  <2>3. CASE FinishCancelled(k)
    <3>1. Settles(k, "cancelled") /\ FinishTurn(k, "cancelled")
      BY <2>3 DEF FinishCancelled, FinishTurn, FinishAttempt, Settles, locals
    <3>2. QED  BY <3>1 DEF AttemptKind, Settled
  <2>4. CASE ~(FinishCompleted(k) \/ FinishFailed(k) \/ FinishRefused(k) \/ FinishCancelled(k))
    <3>1. attempts' = attempts /\ status' = status
      BY <1>3, <2>4 DEF ExecutionStep, ProviderStep, RecheckStop, Register, ObserveCancel,
         RunReturns, RunErrs, PostAnswer, LinkAnswer, PostError, PostReply, LinkReply,
         LinkError, React, TaskErrs
    <3>2. QED  BY <3>1 DEF AttemptKind
  <2>5. QED  BY <2>1, <2>2, <2>3, <2>4
<1>4. ASSUME NEW c \in Messages, StopStep(c) PROVE attempts' = attempts /\ status' = status
  BY <1>4 DEF StopStep, StoreStop, CancelConversation, CancelRuns, StoreResume
<1>5. CASE Crash \/ UNCHANGED vars
  BY <1>5 DEF Crash, vars, AttemptKind
<1>6. QED  BY <1>1, <1>2, <1>3, <1>4, <1>5 DEF Next, AttemptKind

\* A task that drafts has just taken its turn, or goes on drafting.
LEMMA DraftsKept ==
  ASSUME TypeInv, [Next]_vars, NEW k \in Tasks, pc'[k] \in Drafting
  PROVE  \/ Takes(k)
         \/ pc[k] \in Drafting /\ msg'[k] = msg[k]
<1> USE DEF TypeInv, TypeOK, Messaged, Executing, Owning, Answered, Drafting, Goto, Step,
        OthersStay, database
<1> DEFINE Goal == Takes(k) \/ (pc[k] \in Drafting /\ msg'[k] = msg[k])
<1>1. ASSUME NEW d \in Deliveries, IntakeStep(d) PROVE Goal
  <2> d \in Tasks  OBVIOUS
  <2>1. CASE BeginTurn(d)
    BY <2>1 DEF BeginTurn, Takes
  <2>2. CASE ~BeginTurn(d)
    BY <1>1, <2>2 DEF IntakeStep, Receive, RefuseMessage, OpenConversation, LinkUserMessage,
                      SaveTurnInput
  <2>3. QED  BY <2>1, <2>2
<1>2. ASSUME NEW r \in Reactions, RetryStep(r) PROVE Goal
  <2> r \in Tasks  OBVIOUS
  <2>1. CASE PrepareRetry(r)
    BY <2>1 DEF PrepareRetry, PrepareRetryFrom, Takes
  <2>2. CASE ~PrepareRetry(r)
    BY <1>2, <2>2 DEF RetryStep, LoadRetry, CollectPriorReplies, CheckRetrySnapshot,
                      SaveRetryInput, DeletePriorReplies
  <2>3. QED  BY <2>1, <2>2
<1>3. ASSUME NEW j \in Tasks, ExecutionStep(j) \/ ProviderStep(j) \/ TaskErrs(j) PROVE Goal
  BY <1>3 DEF ExecutionStep, ProviderStep, RecheckStop, Register, ObserveCancel, RunReturns,
     RunErrs, PostAnswer, LinkAnswer, PostError, PostReply, LinkReply, LinkError, React,
     TaskErrs, FinishCompleted, FinishFailed, FinishRefused, FinishCancelled, FinishTurn,
     FinishAttempt, locals, Reacting
<1>4. ASSUME NEW c \in Messages, StopStep(c) PROVE Goal
  BY <1>4 DEF StopStep, StoreStop, CancelConversation, CancelRuns, StoreResume, locals
<1>5. CASE Crash \/ UNCHANGED vars
  BY <1>5 DEF Crash, vars
<1>6. QED  BY <1>1, <1>2, <1>3, <1>4, <1>5 DEF Next

\* No attempt of the turn did anything but fail.
AllFailed(m) == \A i \in 1 .. Len(attempts[m]) : attempts[m][i] = "failed"

AttemptInv ==
  /\ AttemptsAgree
  /\ \A m \in Messages : status[m] = "absent" => attempts[m] = <<>>
  /\ \A k \in Tasks : pc[k] \in Drafting => AllFailed(msg[k])

LEMMA AttemptStep ==
  ASSUME TypeInv, TypeInv', OneExecutorPerTurn, AttemptInv, [Next]_vars
  PROVE  AttemptInv'
<1> DEFINE Agrees(m) ==
      /\ \A i \in 1 .. Len(attempts[m]) - 1 : attempts[m][i] = "failed"
      /\ status[m] \in Settled =>
           Len(attempts[m]) > 0 /\ attempts[m][Len(attempts[m])] = status[m]
      /\ status[m] = "absent" => attempts[m] = <<>>
<1>0. /\ \A m \in Messages : attempts[m] \in Seq(Statuses) /\ Len(attempts[m]) \in Nat
      /\ \A m \in Messages : Agrees(m)
      /\ \A k \in Tasks : pc[k] \in Drafting => msg[k] \in Messages /\ AllFailed(msg[k])
      /\ Drafting \subseteq Owning
  BY DEF TypeInv, TypeOK, Messaged, AttemptInv, AttemptsAgree, Drafting, Owning
<1>1. ASSUME NEW m \in Messages, attempts'[m] = attempts[m], status'[m] = status[m]
      PROVE  Agrees(m)'
  BY <1>0, <1>1
<1>2. ASSUME NEW m \in Messages, attempts'[m] = attempts[m], AllFailed(m)
      PROVE  AllFailed(m)'
  BY <1>2 DEF AllFailed
\* A task that takes its turn finds it absent or failed.
<1>3. ASSUME NEW k \in Tasks, Takes(k) PROVE AllFailed(msg[k])
  <2>1. msg[k] \in Messages /\ status[msg[k]] \in {"absent", "failed"}
    BY <1>3 DEF Takes
  <2>2. CASE status[msg[k]] = "absent"
    BY <1>0, <2>1, <2>2 DEF AllFailed
  <2>3. CASE status[msg[k]] = "failed"
    BY <1>0, <2>1, <2>3 DEF AllFailed, Settled
  <2>4. QED  BY <2>1, <2>2, <2>3
<1> HIDE DEF Agrees
\* Where the attempts stay, so do the facts about drafting tasks.
<1>4. ASSUME NEW k \in Tasks, pc'[k] \in Drafting, attempts'[msg[k]] = attempts[msg[k]]
      PROVE  AllFailed(msg[k])'
  <2>1. msg'[k] = msg[k] /\ msg[k] \in Messages /\ AllFailed(msg[k])
    BY <1>0, <1>3, <1>4, DraftsKept DEF Takes
  <2>2. PICK m \in Messages : m = msg[k]
    BY <2>1
  <2>3. AllFailed(m)'  BY <1>2, <1>4, <2>1, <2>2
  <2>4. QED  BY <2>1, <2>2, <2>3 DEF AllFailed
<1>5. CASE attempts' = attempts /\ status' = status
  BY <1>1, <1>4, <1>5 DEF AttemptInv, AttemptsAgree, Agrees
<1>6. ASSUME NEW k \in Tasks, Takes(k), attempts' = attempts PROVE AttemptInv'
  <2>1. ASSUME NEW m \in Messages PROVE Agrees(m)'
    <3>1. CASE m = msg[k]
      <4>1. status'[m] = "pending"
        BY <1>6, <3>1 DEF Takes, TypeInv, TypeOK
      <4>2. \A i \in 1 .. Len(attempts[m]) - 1 : attempts[m][i] = "failed"
        BY <1>0 DEF Agrees
      <4>3. QED  BY <1>6, <4>1, <4>2 DEF Agrees, Settled
    <3>2. CASE m # msg[k]
      BY <1>1, <1>6, <3>2 DEF Takes, TypeInv, TypeOK
    <3>3. QED  BY <3>1, <3>2
  <2>2. QED  BY <1>4, <1>6, <2>1 DEF AttemptInv, AttemptsAgree, Agrees
\* Only the executor of a turn writes its attempts, and nobody else drafts for it.
<1>7. ASSUME NEW k \in Tasks, pc[k] \in Owning, OthersStay(k), pc'[k] \notin Drafting,
             msg[k] \in Messages,
             \A m \in Messages \ {msg[k]} : attempts'[m] = attempts[m] /\ status'[m] = status[m],
             Agrees(msg[k])'
      PROVE  AttemptInv'
  <2>1. PICK t \in Messages : t = msg[k]
    BY <1>7
  <2>2. msg'[k] = msg[k]
    BY <1>7, StepKinds, TasksLive DEF Owning, Executing
  <2>3. \A m \in Messages : Agrees(m)'
    <3>1. Agrees(t)'
      BY <1>7, <2>1, <2>2 DEF Agrees
    <3>2. QED  BY <1>1, <1>7, <2>1, <3>1
  <2>4. ASSUME NEW j \in Tasks, pc'[j] \in Drafting PROVE AllFailed(msg[j])'
    <3>1. j # k /\ pc[j] \in Drafting
      BY <1>7, <2>4 DEF OthersStay
    <3>2. msg[j] \in Messages /\ msg[j] # msg[k]
      BY <1>0, <1>7, <3>1 DEF OneExecutorPerTurn, Owners
    <3>3. QED  BY <1>4, <1>7, <2>4, <3>2
  <2>5. QED  BY <2>3, <2>4 DEF AttemptInv, AttemptsAgree, Agrees
<1>8. ASSUME NEW k \in Tasks, Saves(k) PROVE AttemptInv'
  <2>1. PICK t \in Messages : t = msg[k]
    BY <1>8 DEF Saves
  <2>2. pc[k] \in Owning /\ status[t] = "pending" /\ AllFailed(t)
    BY <1>0, <1>8, <2>1 DEF Saves, OneExecutorPerTurn
  <2>3. attempts'[t] = Append(attempts[t], "pending") /\ status' = status /\ msg'[k] = t
    BY <1>8, <2>1 DEF Saves, NewAttempt, TypeInv, TypeOK
  <2>4. /\ Len(attempts'[t]) = Len(attempts[t]) + 1
        /\ \A i \in 1 .. Len(attempts[t]) : attempts'[t][i] = attempts[t][i]
    BY <1>0, <2>1, <2>3
  <2>5. Agrees(t)'
    BY <1>0, <2>2, <2>3, <2>4 DEF Agrees, AllFailed, Settled
  <2>6. Agrees(msg[k])'
    BY <2>1, <2>3, <2>5 DEF Agrees
  <2>7. \A m \in Messages \ {msg[k]} : attempts'[m] = attempts[m] /\ status'[m] = status[m]
    BY <1>8 DEF Saves, NewAttempt, TypeInv, TypeOK
  <2>8. QED  BY <1>7, <1>8, <2>2, <2>6, <2>7 DEF Saves
<1>9. ASSUME NEW k \in Tasks, NEW o \in Settled, Settles(k, o), FinishTurn(k, o)
      PROVE  AttemptInv'
  <2>1. PICK t \in Messages : t = msg[k]
    BY <1>9 DEF Settles
  <2>2. /\ Len(attempts[t]) \in 1 .. Len(attempts[t])
        /\ status'[t] = o /\ msg'[k] = t
        /\ attempts'[t] = [attempts[t] EXCEPT ![Len(attempts[t])] = o]
    BY <1>9, <2>1 DEF FinishTurn, FinishAttempt, Settles, TypeInv, TypeOK
  <2>3. /\ Len(attempts'[t]) = Len(attempts[t]) /\ Len(attempts[t]) > 0
        /\ attempts'[t][Len(attempts[t])] = o
        /\ \A i \in 1 .. Len(attempts[t]) - 1 : attempts'[t][i] = attempts[t][i]
    BY <1>0, <2>1, <2>2
  <2>4. Agrees(t)'
    BY <1>0, <2>2, <2>3 DEF Agrees, Settled
  <2>5. Agrees(msg[k])'
    BY <2>1, <2>2, <2>4 DEF Agrees
  <2>6. \A m \in Messages \ {msg[k]} : attempts'[m] = attempts[m] /\ status'[m] = status[m]
    BY <1>9 DEF FinishTurn, FinishAttempt, TypeInv, TypeOK
  <2>7. pc'[k] \notin Drafting
    BY <1>0, <1>9 DEF Settles
  <2>8. QED  BY <1>7, <1>9, <2>5, <2>6, <2>7 DEF Settles
<1>10. QED  BY <1>5, <1>6, <1>8, <1>9, AttemptKinds DEF AttemptKind

\* Whichever tasks append and settle a turn's attempts, a settled turn's last
\* one has the turn's status and every earlier one failed.
THEOREM AttemptsAgreeHolds == Spec => []AttemptsAgree
<1>1. Init => AttemptInv
  BY DEF Init, AttemptInv, AttemptsAgree, AllFailed, Drafting, Settled
<1>2. TypeInv /\ TypeInv' /\ OneExecutorPerTurn /\ AttemptInv /\ [Next]_vars => AttemptInv'
  BY AttemptStep
<1>3. AttemptInv => AttemptsAgree
  BY DEF AttemptInv
<1>4. QED  BY <1>1, <1>2, <1>3, TypeInvHolds, OneExecutorHolds, PTL DEF Spec

-----------------------------------------------------------------------------
(***************************************************************************)
(* Turns implements TurnLifecycle: the kinds of steps of TurnsProofs, read *)
(* as steps of the abstract turn.                                          *)
(***************************************************************************)

\* A turn's phase depends on its status and on whether anyone executes it.
LEMMA PhaseOf ==
  ASSUME TurnInv, NEW m \in Messages
  PROVE  /\ status[m] # "pending" => Phase(m) = status[m]
         /\ status[m] = "pending" /\ Owners(m) # {} => Phase(m) = "running"
         /\ status[m] = "pending" /\ Owners(m) = {} => Phase(m) = "stranded"
         /\ Owners(m) # {} => status[m] = "pending"
BY DEF Phase, TurnInv, OneExecutorPerTurn, Owners

LEMMA AnswersStay ==
  ASSUME TurnInv, StepKind, DataKind, \A k \in Tasks : ~PostAnswer(k), NEW m \in Messages
  PROVE  Answers(m)' = Answers(m)
<1>1. ASSUME NEW k \in Tasks
      PROVE  (msg'[k] = m /\ reply'[k] = "answer") <=> (msg[k] = m /\ reply[k] = "answer")
  BY AnswersKept, TasksLive DEF TurnInv, PostedInv
<1>2. QED  BY <1>1 DEF Answers

\* Executors are lost and no status changes: their turns are stranded.
LEMMA StrandStep ==
  ASSUME TurnInv, TurnInv', StepKind, DataKind, \A k \in Tasks : ~PostAnswer(k),
         status' = status, \A m \in Messages : Owners(m)' \subseteq Owners(m)
  PROVE  Lifecycle!Next
<1> DEFINE S == {m \in Messages : Phase(m) = "running" /\ Owners(m)' = {}}
<1>1. \A m \in Messages : Answers(m)' = Answers(m)  BY AnswersStay
<1>2. ASSUME NEW m \in Messages
      PROVE  Phase(m)' = IF m \in S THEN "stranded" ELSE Phase(m)
  <2>1. Phase(m) = "running" <=> Owners(m) # {}
    BY PhaseOf DEF Phase, TurnInv, TypeInv, TypeOK, Statuses, Settled
  <2>2. CASE status[m] # "pending"
    BY <2>1, <2>2, PhaseOf DEF Phase
  <2>3. CASE status[m] = "pending"
    BY <2>1, <2>3, PhaseOf DEF Phase
  <2>4. QED  BY <2>2, <2>3
<1>3. Lifecycle!Strand(S)
  BY <1>1, <1>2 DEF Lifecycle!Strand
<1>4. S \in SUBSET Messages  OBVIOUS
<1>5. QED  BY <1>3, <1>4 DEF Lifecycle!Next

\* Only the turn of message m moves.
LEMMA MoveStep ==
  ASSUME NEW m \in Messages, NEW from, NEW to,
         Phase(m) = from, Phase(m)' = to,
         \A n \in Messages \ {m} : Phase(n)' = Phase(n),
         \A n \in Messages : Answers(n)' = Answers(n)
  PROVE  Lifecycle!Move(m, from, to)
BY DEF Lifecycle!Move

LEMMA WorksStep ==
  ASSUME TurnInv, TurnInv', StepKind, DataKind, NEW k \in Tasks, Works(k)
  PROVE  Lifecycle!Next \/ UNCHANGED Lifecycle!vars
<1>1. ASSUME NEW m \in Messages PROVE Owners(m)' = Owners(m)
  BY DEF Owners, Works, OthersStay
<1>2. \A m \in Messages : Phase(m)' = Phase(m)
  BY <1>1 DEF Phase, Works
<1>3. CASE \A j \in Tasks : ~PostAnswer(j)
  <2>1. \A m \in Messages : Answers(m)' = Answers(m)  BY <1>3, AnswersStay
  <2>2. QED  BY <1>2, <2>1 DEF Lifecycle!vars
<1>4. ASSUME NEW j \in Tasks, PostAnswer(j) PROVE Lifecycle!Next
  <2>1. /\ msg' = msg
        /\ reply' = [reply EXCEPT ![j] = "answer"]
        /\ pc[j] = "answer"
    BY <1>4 DEF PostAnswer, PostReply, Step, locals
  <2>2. j \in Owners(msg[j]) /\ msg[j] \in Messages
    BY <2>1 DEF Owners, Owning, Executing, TurnInv, TypeInv, Messaged
  <2>3. Answers(msg[j]) = {}
    BY <2>1, <2>2 DEF Answers, TurnInv, AnswerInv, Answered
  <2>4. \A m \in Messages : Answers(m)' = IF m = msg[j] THEN {j} ELSE Answers(m)
    BY <2>1, <2>2, <2>3 DEF Answers, TurnInv, TypeInv, TypeOK
  <2>5. Phase(msg[j]) = "running"  BY <2>2, PhaseOf
  <2>6. Lifecycle!Answer(msg[j], j)
    BY <1>2, <2>2, <2>3, <2>4, <2>5 DEF Lifecycle!Answer
  <2>7. QED  BY <2>2, <2>6 DEF Lifecycle!Next, Lifecycle!TurnStep
<1>5. QED  BY <1>3, <1>4

LEMMA TakesStep ==
  ASSUME TurnInv, TurnInv', StepKind, DataKind, NEW k \in Tasks, Takes(k)
  PROVE  Lifecycle!Next
<1>1. PICK m \in Messages : m = msg[k] /\ m = msg'[k]  BY DEF Takes
<1>2. \A j \in Tasks : ~PostAnswer(j)
  BY DEF Takes, OthersStay, PostAnswer, PostReply, Step, Goto, Answered, TurnInv, TypeInv,
         TypeOK, database
<1>3. \A n \in Messages : Answers(n)' = Answers(n)  BY <1>2, AnswersStay
<1>4. Phase(m) = status[m] /\ status[m] \in {"absent", "failed"}
  BY <1>1, PhaseOf DEF Takes
<1>5. Phase(m)' = "running"
  <2>1. status'[m] = "pending"  BY <1>1 DEF Takes, TurnInv, TypeInv, TypeOK
  <2>2. k \in Owners(m)'  BY <1>1 DEF Takes, Owners
  <2>3. QED  BY <2>1, <2>2 DEF Phase
<1>6. ASSUME NEW n \in Messages \ {m} PROVE Phase(n)' = Phase(n)
  <2>1. Owners(n)' = Owners(n)  BY <1>1 DEF Takes, OthersStay, Owners
  <2>2. status'[n] = status[n]  BY <1>1 DEF Takes, TurnInv, TypeInv, TypeOK
  <2>3. QED  BY <2>1, <2>2 DEF Phase
<1>7. Lifecycle!Move(m, "absent", "running") \/ Lifecycle!Move(m, "failed", "running")
  BY <1>1, <1>3, <1>4, <1>5, <1>6, MoveStep
<1>8. QED
  BY <1>1, <1>7 DEF Lifecycle!Next, Lifecycle!TurnStep, Lifecycle!Begin, Lifecycle!Retry

LEMMA SettlesStep ==
  ASSUME TurnInv, TurnInv', StepKind, DataKind, NEW k \in Tasks, NEW o \in Settled,
         Settles(k, o)
  PROVE  Lifecycle!Next
<1>1. PICK m \in Messages : m = msg[k] /\ m = msg'[k] /\ k \in Owners(m)
  BY DEF Settles, Owners
<1>2. \A j \in Tasks : ~PostAnswer(j)
  <2>1. "answered" \in Owning  BY DEF Owning, Executing
  <2>2. QED
    BY <2>1 DEF Settles, OthersStay, PostAnswer, PostReply, Step, Goto, TurnInv, TypeInv,
                TypeOK
<1>3. \A n \in Messages : Answers(n)' = Answers(n)  BY <1>2, AnswersStay
<1>4. Phase(m) = "running"  BY <1>1, PhaseOf
<1>5. Phase(m)' = o
  <2>1. status'[m] = o  BY <1>1 DEF Settles, TurnInv, TypeInv, TypeOK
  <2>2. QED  BY <2>1 DEF Phase, Settled
<1>6. ASSUME NEW n \in Messages \ {m} PROVE Phase(n)' = Phase(n)
  <2>1. Owners(n)' = Owners(n)  BY <1>1 DEF Settles, OthersStay, Owners
  <2>2. status'[n] = status[n]  BY <1>1 DEF Settles, TurnInv, TypeInv, TypeOK
  <2>3. QED  BY <2>1, <2>2 DEF Phase
<1>7. Lifecycle!Move(m, "running", o)
  BY <1>1, <1>3, <1>4, <1>5, <1>6, MoveStep
<1>8. Answers(m) # {} <=> o = "completed"
  <2>1. CASE pc[k] \in Answered
    <3>1. k \in Answers(m)  BY <1>1, <2>1 DEF Answers, TurnInv, AnswerInv
    <3>2. QED  BY <2>1, <3>1 DEF Settles
  <2>2. CASE pc[k] \notin Answered
    <3>1. Answers(m) = {}  BY <1>1, <2>2 DEF Answers, TurnInv, AnswerInv
    <3>2. QED  BY <2>2, <3>1 DEF Settles
  <2>3. QED  BY <2>1, <2>2
<1>9. Lifecycle!Complete(m) \/ Lifecycle!Fail(m) \/ Lifecycle!Cancel(m)
  BY <1>1, <1>7, <1>8 DEF Lifecycle!Complete, Lifecycle!Fail, Lifecycle!Cancel, Settled
<1>10. QED  BY <1>1, <1>9 DEF Lifecycle!Next, Lifecycle!TurnStep

LEMMA LifecycleInit == Init => Lifecycle!Init
<1> SUFFICES ASSUME Init PROVE Lifecycle!Init
  OBVIOUS
<1>1. \A m \in Messages : Phase(m) = "absent" /\ Answers(m) = {}
  BY DEF Init, Phase, Answers
<1>2. QED  BY <1>1 DEF Lifecycle!Init

LEMMA LifecycleNext ==
  TurnInv /\ TurnInv' /\ [Next]_vars => [Lifecycle!Next]_(Lifecycle!vars)
<1> SUFFICES ASSUME TurnInv, TurnInv', [Next]_vars
             PROVE  Lifecycle!Next \/ UNCHANGED Lifecycle!vars
  OBVIOUS
<1>1. StepKind /\ DataKind  BY StepKinds, DataKinds DEF TurnInv
<1>2. "answered" \in Owning /\ "idle" \notin Owning /\ "done" \notin Owning
  BY DEF Owning, Executing
<1>3. ASSUME NEW k \in Tasks, Rests(k) PROVE Lifecycle!Next
  <2>1. \A j \in Tasks : ~PostAnswer(j)
    BY <1>2, <1>3 DEF Rests, OthersStay, PostAnswer, PostReply, Step, Goto, TurnInv, TypeInv,
                      TypeOK
  <2>2. \A m \in Messages : Owners(m)' \subseteq Owners(m)
    BY <1>3 DEF Rests, OthersStay, Owners
  <2>3. QED  BY <1>1, <1>3, <2>1, <2>2, StrandStep DEF Rests
<1>4. CASE Halts
  <2>1. \A j \in Tasks : ~PostAnswer(j)
    BY <1>4 DEF Halts, PostAnswer, PostReply, Step, Goto, TurnInv, TypeInv, TypeOK
  <2>2. \A m \in Messages : Owners(m)' \subseteq Owners(m)
    BY <1>2, <1>4 DEF Halts, Owners
  <2>3. QED  BY <1>1, <1>4, <2>1, <2>2, StrandStep DEF Halts
<1>5. QED
  BY <1>1, <1>3, <1>4, WorksStep, TakesStep, SettlesStep DEF StepKind

\* Every behaviour of the tasks is a behaviour of the abstract turns: answered
\* at most once, completed for good, cancelled for good, retried only when
\* failed.
THEOREM TurnsImplementLifecycle == Spec => ImplementsTurnLifecycle
BY LifecycleInit, LifecycleNext, TurnInvHolds, PTL
   DEF Spec, ImplementsTurnLifecycle, Lifecycle!Spec

-----------------------------------------------------------------------------
(***************************************************************************)
(* The cancellation registry and stops.  A registry entry is written only  *)
(* together with a guard and cleared with it, and a guard is held only     *)
(* between registration and the storage of an outcome.  A token is         *)
(* cancelled, and a turn after it, only for the conversation whose stop is *)
(* being signalled, and a turn never changes its conversation.             *)
(***************************************************************************)

\* The control states a task can be in while it holds its guard.
Guarded == {"running", "cancel", "fail", "failPosted", "failStored", "refuse"}

GuardInv ==
  /\ RegistryHoldsLiveGuards
  /\ \A k \in guards : pc[k] \in Guarded

\* What one step does to guards and registry.
KeepsGuards ==
  /\ UNCHANGED <<guards, registry>>
  /\ cancelled' = cancelled \/ \E c \in Messages : CancelConversation(c)
  /\ \A k \in guards : pc'[k] \in Guarded /\ msg'[k] = msg[k]

\* A run ends with its guard; whoever ended its turn before that is over.
Over == Reacting \cup {"done"}

Drops(k) ==
  /\ DropGuard(k)
  /\ OthersStay(k)
  /\ pc'[k] # "running"
  /\ pc[k] = "failStored" => pc'[k] \in Over

GuardKind ==
  \/ KeepsGuards
  \/ \E k \in Tasks : Drops(k) \/ Register(k)
  \/ /\ guards' = {} /\ registry' = [m \in Messages |-> NoTask] /\ cancelled' = {}
     /\ \A k \in Tasks : pc'[k] # "running"

LEMMA GuardKinds == TypeInv /\ GuardInv /\ [Next]_vars => GuardKind
<1> SUFFICES ASSUME TypeInv, GuardInv, [Next]_vars PROVE GuardKind
  OBVIOUS
<1> USE DEF TypeInv, TypeOK, GuardInv, Step, Goto, OthersStay, locals, database, cancellation,
            control
\* A task that holds no guard moves alone.
<1>0. ASSUME NEW k \in Tasks \ guards, OthersStay(k), UNCHANGED cancellation
      PROVE  GuardKind
  BY <1>0 DEF GuardKind, KeepsGuards
<1>1. ASSUME NEW d \in Deliveries, IntakeStep(d) PROVE GuardKind
  <2>1. d \in Tasks \ guards
    BY <1>1 DEF IntakeStep, Receive, RefuseMessage, OpenConversation, BeginTurn,
                LinkUserMessage, SaveTurnInput, Guarded
  <2>2. OthersStay(d) /\ UNCHANGED cancellation
    BY <1>1 DEF IntakeStep, Receive, RefuseMessage, OpenConversation, BeginTurn,
                LinkUserMessage, SaveTurnInput
  <2>3. QED  BY <1>0, <2>1, <2>2
<1>2. ASSUME NEW r \in Reactions, RetryStep(r) PROVE GuardKind
  <2>1. r \in Tasks \ guards
    BY <1>2 DEF RetryStep, LoadRetry, CollectPriorReplies, PrepareRetry, PrepareRetryFrom,
                CheckRetrySnapshot, SaveRetryInput, DeletePriorReplies, Guarded
  <2>2. OthersStay(r) /\ UNCHANGED cancellation
    BY <1>2 DEF RetryStep, LoadRetry, CollectPriorReplies, PrepareRetry, PrepareRetryFrom,
                CheckRetrySnapshot, SaveRetryInput, DeletePriorReplies
  <2>3. QED  BY <1>0, <2>1, <2>2
<1>3. ASSUME NEW k \in Tasks, ExecutionStep(k) \/ ProviderStep(k) \/ TaskErrs(k)
      PROVE  GuardKind
  <2>1. CASE \/ RecheckStop(k) \/ PostAnswer(k) \/ LinkAnswer(k) \/ FinishCompleted(k)
             \/ React(k)
    <3>1. k \notin guards
      BY <2>1 DEF RecheckStop, PostAnswer, LinkAnswer, FinishCompleted, React, Reacting,
                  Guarded
    <3>2. OthersStay(k) /\ UNCHANGED cancellation
      BY <2>1 DEF RecheckStop, PostAnswer, PostReply, LinkAnswer, LinkReply, FinishCompleted,
                  FinishTurn, FinishAttempt, React
    <3>3. QED  BY <1>0, <3>1, <3>2
  <2>2. CASE Register(k)  BY <2>2 DEF GuardKind
  <2>3. CASE ObserveCancel(k) \/ RunErrs(k) \/ PostError(k) \/ FinishFailed(k)
    <3>1. KeepsGuards
      BY <2>3 DEF ObserveCancel, RunErrs, PostError, PostReply, FinishFailed, FinishTurn,
                  FinishAttempt, KeepsGuards, Guarded
    <3>2. QED  BY <3>1 DEF GuardKind
  <2>4. CASE \/ RunReturns(k) \/ LinkError(k) \/ FinishRefused(k) \/ FinishCancelled(k)
             \/ TaskErrs(k)
    <3>1. Drops(k)
      BY <2>4 DEF RunReturns, LinkError, LinkReply, FinishRefused, FinishCancelled, FinishTurn,
                  FinishAttempt, TaskErrs, Drops, Over, Reacting
    <3>2. QED  BY <3>1 DEF GuardKind
  <2>5. QED
    BY <1>3, <2>1, <2>2, <2>3, <2>4 DEF ExecutionStep, ProviderStep
<1>4. ASSUME NEW c \in Messages, StopStep(c) PROVE KeepsGuards
  BY <1>4 DEF StopStep, StoreStop, CancelConversation, CancelRuns, StoreResume, KeepsGuards
<1>5. CASE Crash  BY <1>5 DEF Crash, GuardKind
<1>6. CASE UNCHANGED vars  BY <1>6 DEF vars, KeepsGuards, GuardKind
<1>7. QED
  BY <1>1, <1>2, <1>3, <1>4, <1>5, <1>6 DEF Next, GuardKind

LEMMA GuardStep == TypeInv /\ TypeInv' /\ GuardInv /\ GuardKind => GuardInv'
<1> SUFFICES ASSUME TypeInv, TypeInv', GuardInv, GuardKind PROVE GuardInv'
  OBVIOUS
<1>0. Guarded \subseteq Executing  BY DEF Guarded, Executing
<1> USE TasksAssumption DEF TypeInv, TypeOK, GuardInv, RegistryHoldsLiveGuards
<1> HIDE DEF Controls
<1>1. CASE KeepsGuards  BY <1>0, <1>1 DEF KeepsGuards
<1>2. ASSUME NEW k \in Tasks, Drops(k) PROVE GuardInv'
  <2>1. ASSUME NEW j \in guards' PROVE pc'[j] \in Guarded /\ msg'[j] = msg[j] /\ j # k
    BY <1>2, <2>1 DEF Drops, DropGuard, OthersStay
  <2>2. ASSUME NEW m \in Messages, registry'[m] # NoTask
        PROVE  registry'[m] \in guards' /\ msg'[registry'[m]] = m
    <3>1. registry'[m] = registry[m]  BY <1>2, <2>2 DEF Drops, DropGuard
    <3>2. registry[m] \in guards /\ msg[registry[m]] = m  BY <2>2, <3>1
    <3>3. registry[m] # k  BY <1>2, <2>2, <3>1, <3>2 DEF Drops, DropGuard
    <3>4. QED  BY <1>2, <2>1, <3>1, <3>2, <3>3 DEF Drops, DropGuard
  <2>3. QED  BY <1>0, <2>1, <2>2
<1>3. ASSUME NEW k \in Tasks, Register(k) PROVE GuardInv'
  <2>1. /\ guards' = guards \cup {k}
        /\ registry' = [registry EXCEPT ![msg[k]] = k]
        /\ msg' = msg
        /\ pc' = [pc EXCEPT ![k] = "running"]
        /\ pc[k] = "checked"
    BY <1>3 DEF Register, Step, Goto, locals
  <2>2. \A j \in guards' : pc'[j] \in Guarded  BY <2>1 DEF Guarded
  <2>3. ASSUME NEW m \in Messages, registry'[m] # NoTask
        PROVE  registry'[m] \in guards' /\ msg'[registry'[m]] = m
    BY <2>1, <2>3
  <2>4. QED  BY <1>0, <2>2, <2>3
<1>4. CASE guards' = {} /\ registry' = [m \in Messages |-> NoTask]
  BY <1>4
<1>5. QED  BY <1>1, <1>2, <1>3, <1>4 DEF GuardKind

\* A registry entry never outlives the run it was made for.
THEOREM RegistryHolds == Spec => []RegistryHoldsLiveGuards
<1>1. Init => GuardInv
  BY DEF Init, GuardInv, RegistryHoldsLiveGuards
<1>2. TypeInv /\ TypeInv' /\ GuardInv /\ [Next]_vars => GuardInv'
  BY GuardKinds, GuardStep
<1>3. GuardInv => RegistryHoldsLiveGuards
  BY DEF GuardInv
<1>4. QED  BY <1>1, <1>2, <1>3, TypeInvHolds, PTL DEF Spec

-----------------------------------------------------------------------------
(* Stops.                                                                  *)

\* Whatever is cancelled, or about to be, is of a conversation somebody asked
\* to stop.
StopInv ==
  /\ stopped \subseteq everStopped
  /\ cancelling \subseteq everStopped
  /\ \A k \in guards : status[msg[k]] # "absent"
  /\ \A k \in cancelled : k \in guards /\ conv[msg[k]] \in everStopped
  /\ \A k \in Tasks : pc[k] = "cancel" => conv[msg[k]] \in everStopped
  /\ CancelledOnlyIfStopRequested

\* A begun turn keeps its conversation, and stays begun.
BegunStays ==
  \A m \in Messages : status[m] # "absent" => conv'[m] = conv[m] /\ status'[m] # "absent"

LEMMA BegunStep == TypeInv /\ [Next]_vars => BegunStays
<1> SUFFICES ASSUME TypeInv, [Next]_vars PROVE BegunStays
  OBVIOUS
<1>1. ASSUME NEW m \in Messages, status[m] # "absent" PROVE status'[m] # "absent"
  <2>1. StepKind  BY StepKinds
  <2>2. QED
    BY <1>1, <2>1 DEF StepKind, Works, Rests, Takes, Settles, Halts, Settled, TypeInv, TypeOK
<1>2. conv' = conv \/ \E d \in Deliveries : BeginTurn(d)
  BY DEF Next, vars, database, locals, control, cancellation, platform, IntakeStep, RetryStep,
         ExecutionStep, ProviderStep, StopStep, Receive, RefuseMessage, OpenConversation,
         LinkUserMessage, SaveTurnInput, LoadRetry, CollectPriorReplies, PrepareRetry,
         PrepareRetryFrom, CheckRetrySnapshot, SaveRetryInput, DeletePriorReplies, RecheckStop,
         Register, ObserveCancel, RunReturns, RunErrs, PostAnswer, PostReply, LinkAnswer,
         LinkReply, FinishCompleted, FinishTurn, FinishAttempt, PostError, FinishFailed,
         LinkError, FinishRefused, FinishCancelled, React, TaskErrs, StoreStop,
         CancelConversation, CancelRuns, StoreResume, Crash
<1>3. ASSUME NEW d \in Deliveries, BeginTurn(d), NEW m \in Messages, status[m] # "absent"
      PROVE  conv'[m] = conv[m]
  BY <1>3 DEF BeginTurn, TypeInv, TypeOK
<1>4. QED  BY <1>1, <1>2, <1>3 DEF BegunStays

\* Only stops and exits change these.
FlagKind ==
  /\ everStopped \subseteq everStopped'
  /\ stopped' \subseteq stopped \cup everStopped'
  /\ cancelling' \subseteq cancelling \cup everStopped'

LEMMA FlagKinds == TypeInv /\ [Next]_vars => FlagKind
<1> SUFFICES ASSUME TypeInv, [Next]_vars PROVE FlagKind
  OBVIOUS
<1>1. \/ UNCHANGED <<stopped, cancelling, everStopped>>
      \/ \E c \in Messages : StopStep(c)
      \/ Crash
  <2> DEFINE Same == UNCHANGED <<stopped, cancelling, everStopped>>
  <2> USE DEF database, control, cancellation
  <2>1. ASSUME NEW d \in Deliveries, IntakeStep(d) PROVE Same
    BY <2>1 DEF IntakeStep, Receive, RefuseMessage, OpenConversation, BeginTurn,
         LinkUserMessage, SaveTurnInput
  <2>2. ASSUME NEW r \in Reactions, RetryStep(r) PROVE Same
    BY <2>2 DEF RetryStep, LoadRetry, CollectPriorReplies, PrepareRetry,
         PrepareRetryFrom, CheckRetrySnapshot, SaveRetryInput, DeletePriorReplies
  <2>3. ASSUME NEW k \in Tasks, ExecutionStep(k) PROVE Same
    BY <2>3 DEF ExecutionStep, RecheckStop, Register, ObserveCancel,
         PostAnswer, PostReply, LinkAnswer, LinkReply, FinishCompleted, FinishTurn,
         FinishAttempt, PostError, FinishFailed, LinkError, FinishRefused, FinishCancelled, React
  <2>4. ASSUME NEW k \in Tasks, ProviderStep(k) \/ TaskErrs(k) PROVE Same
    BY <2>4 DEF ProviderStep, RunReturns, RunErrs, TaskErrs
  <2>5. CASE UNCHANGED vars
    BY <2>5 DEF vars
  <2> QED BY <2>1, <2>2, <2>3, <2>4, <2>5 DEF Next
<1>2. ASSUME NEW c \in Messages, StopStep(c) PROVE FlagKind
  BY <1>2 DEF StopStep, StoreStop, CancelConversation, CancelRuns, StoreResume, FlagKind,
              database
<1>3. CASE Crash  BY <1>3 DEF Crash, FlagKind, database
<1>4. QED  BY <1>1, <1>2, <1>3 DEF FlagKind

\* A task takes the cancelled branch for the stored flag or for its token.
LEMMA CancelBranch ==
  ASSUME TypeInv, [Next]_vars, NEW k \in Tasks, pc'[k] = "cancel"
  PROVE  pc[k] = "cancel" \/ RecheckStop(k) \/ ObserveCancel(k)
<1> USE DEF TypeInv, TypeOK, Step, Goto
<1> HIDE DEF Controls
<1>1. ASSUME NEW d \in Deliveries, IntakeStep(d) PROVE pc[k] = "cancel"
  BY <1>1 DEF IntakeStep, Receive, RefuseMessage, OpenConversation, BeginTurn, LinkUserMessage,
              SaveTurnInput
<1>2. ASSUME NEW r \in Reactions, RetryStep(r) PROVE pc[k] = "cancel"
  BY <1>2 DEF RetryStep, LoadRetry, CollectPriorReplies, PrepareRetry, PrepareRetryFrom,
              CheckRetrySnapshot, SaveRetryInput, DeletePriorReplies
<1>3. ASSUME NEW j \in Tasks, ExecutionStep(j) \/ ProviderStep(j) \/ TaskErrs(j)
      PROVE  pc[k] = "cancel" \/ RecheckStop(k) \/ ObserveCancel(k)
  <2>1. CASE RecheckStop(j)  BY <2>1 DEF RecheckStop
  <2>2. CASE ObserveCancel(j)  BY <2>2 DEF ObserveCancel
  <2>3. CASE ~RecheckStop(j) /\ ~ObserveCancel(j)
    BY <1>3, <2>3
       DEF ExecutionStep, ProviderStep, Register, RunReturns, RunErrs, PostAnswer, LinkAnswer,
           FinishCompleted, PostError, FinishFailed, LinkError, FinishRefused,
           FinishCancelled, React, TaskErrs
  <2>4. QED  BY <2>1, <2>2, <2>3
<1>4. ASSUME NEW c \in Messages, StopStep(c) PROVE pc' = pc
  BY <1>4 DEF StopStep, StoreStop, CancelConversation, CancelRuns, StoreResume
<1>5. CASE Crash  BY <1>5 DEF Crash
<1>6. CASE UNCHANGED vars  BY <1>6 DEF vars
<1>7. QED  BY <1>1, <1>2, <1>3, <1>4, <1>5, <1>6 DEF Next

LEMMA StopInvStep ==
  ASSUME TypeInv, TypeInv', GuardInv, GuardInv', OneExecutorPerTurn, StopInv, [Next]_vars
  PROVE  StopInv'
<1>0. StepKind /\ GuardKind /\ FlagKind /\ BegunStays
  BY StepKinds, GuardKinds, FlagKinds, BegunStep
<1>1. \A k \in Tasks : pc[k] # "idle" => /\ msg'[k] = msg[k]
                                         /\ msg[k] \in Messages
  BY <1>0, TasksLive DEF TypeInv, Messaged
<1>2. stopped' \subseteq everStopped' /\ cancelling' \subseteq everStopped'
  BY <1>0 DEF StopInv, FlagKind
<1>3. guards \subseteq Tasks /\ guards' \subseteq Tasks
  BY DEF TypeInv, TypeOK
<1>4. \A k \in guards : pc[k] # "idle"  BY DEF GuardInv, Guarded
<1>5. \A k \in guards' : k \in guards \/ Register(k)
  <2>1. ASSUME NEW j \in Tasks, Register(j) PROVE guards' = guards \cup {j}
    BY <2>1 DEF Register
  <2>2. QED  BY <1>0, <2>1 DEF GuardKind, KeepsGuards, Drops, DropGuard
<1>6. ASSUME NEW k \in guards' PROVE status'[msg'[k]] # "absent"
  <2>1. pc[k] # "idle" /\ status[msg[k]] # "absent"
    BY <1>3, <1>4, <1>5 DEF StopInv, Register, Step, OneExecutorPerTurn, Owning, Executing
  <2>2. QED  BY <1>0, <1>1, <1>3, <2>1 DEF BegunStays
\* Whoever was, or is now, cancelled and has its guard stays in its conversation.
<1>7. ASSUME NEW k \in guards, conv[msg[k]] \in everStopped
      PROVE  conv'[msg'[k]] \in everStopped'
  BY <1>0, <1>1, <1>3, <1>4, <1>7 DEF StopInv, FlagKind, BegunStays
<1>8. ASSUME NEW k \in cancelled' PROVE k \in guards' /\ conv'[msg'[k]] \in everStopped'
  <2>1. CASE KeepsGuards
    <3>1. k \in cancelled \/ (k \in guards /\ conv[msg[k]] \in cancelling)
      <4>1. ASSUME NEW c \in Messages, CancelConversation(c)
            PROVE  k \in cancelled \/ (k \in guards /\ conv[msg[k]] \in cancelling)
        BY <1>8, <4>1 DEF CancelConversation, CancelRuns, Registered, GuardInv,
                          RegistryHoldsLiveGuards
      <4>2. QED  BY <1>8, <2>1, <4>1 DEF KeepsGuards
    <3>2. k \in guards /\ conv[msg[k]] \in everStopped
      BY <3>1 DEF StopInv
    <3>3. QED  BY <1>7, <2>1, <3>2 DEF KeepsGuards
  <2>2. ASSUME NEW j \in Tasks, Drops(j)
        PROVE  k \in guards' /\ conv'[msg'[k]] \in everStopped'
    <3>1. k \in cancelled /\ k # j  BY <1>8, <2>2 DEF Drops, DropGuard
    <3>2. QED  BY <1>7, <2>2, <3>1 DEF StopInv, Drops, DropGuard
  <2>3. ASSUME NEW j \in Tasks, Register(j)
        PROVE  k \in guards' /\ conv'[msg'[k]] \in everStopped'
    <3>1. cancelled' = cancelled /\ guards' = guards \cup {j}  BY <2>3 DEF Register
    <3>2. QED  BY <1>7, <1>8, <3>1 DEF StopInv
  <2>4. QED  BY <1>0, <1>8, <2>1, <2>2, <2>3 DEF GuardKind
<1>9. ASSUME NEW k \in Tasks, pc'[k] = "cancel" PROVE conv'[msg'[k]] \in everStopped'
  <2>1. pc[k] = "cancel" \/ RecheckStop(k) \/ ObserveCancel(k)
    BY <1>9, CancelBranch
  <2>2. pc[k] \in {"cancel", "ready", "running"} /\ conv[msg[k]] \in everStopped
    <3>1. CASE pc[k] = "cancel"  BY <3>1 DEF StopInv
    <3>2. CASE RecheckStop(k)
      BY <1>9, <3>2 DEF RecheckStop, Goto, StopInv, TypeInv, TypeOK
    <3>3. CASE ObserveCancel(k)  BY <3>3 DEF ObserveCancel, Step, StopInv
    <3>4. QED  BY <2>1, <3>1, <3>2, <3>3
  <2>3. status[msg[k]] = "pending"
    BY <2>2 DEF OneExecutorPerTurn, Owning, Executing
  <2>4. QED  BY <1>0, <1>1, <2>2, <2>3 DEF FlagKind, BegunStays
<1>10. ASSUME NEW m \in Messages, status'[m] = "cancelled" PROVE conv'[m] \in everStopped'
  <2>1. CASE status[m] = "cancelled"
    BY <1>0, <2>1 DEF StopInv, CancelledOnlyIfStopRequested, FlagKind, BegunStays
  <2>2. CASE status[m] # "cancelled"
    <3>1. PICK k \in Tasks : Settles(k, "cancelled") /\ msg[k] = m
      BY <1>0, <1>10, <2>2 DEF StepKind, Works, Rests, Takes, Settles, Halts, TypeInv, TypeOK
    <3>2. pc[k] = "cancel" /\ status[m] = "pending"
      BY <3>1 DEF Settles, OneExecutorPerTurn
    <3>3. QED  BY <1>0, <3>1, <3>2 DEF StopInv, FlagKind, BegunStays
  <2>3. QED  BY <2>1, <2>2
<1>11. QED
  BY <1>2, <1>6, <1>8, <1>9, <1>10 DEF StopInv, CancelledOnlyIfStopRequested

\* No turn is cancelled unless its own conversation was asked to stop.
THEOREM CancelledOnlyIfStopRequestedHolds == Spec => []CancelledOnlyIfStopRequested
<1>1. Init => GuardInv /\ StopInv
  BY DEF Init, GuardInv, RegistryHoldsLiveGuards, StopInv, CancelledOnlyIfStopRequested
<1>2. TypeInv /\ TypeInv' /\ GuardInv /\ [Next]_vars => GuardInv'
  BY GuardKinds, GuardStep
<1>3. /\ TypeInv /\ TypeInv' /\ GuardInv /\ GuardInv' /\ OneExecutorPerTurn
      /\ StopInv /\ [Next]_vars
      => StopInv'
  BY StopInvStep
<1>4. StopInv => CancelledOnlyIfStopRequested
  BY DEF StopInv
<1>5. QED
  BY <1>1, <1>2, <1>3, <1>4, TypeInvHolds, OneExecutorHolds, PTL DEF Spec

-----------------------------------------------------------------------------
(* Runs.                                                                   *)

\* A run begins with its registration, and a task that is over stays over.
RunKind ==
  /\ \A k \in Tasks : pc'[k] = "running" => pc[k] = "running" \/ Register(k)
  /\ \A k \in Tasks : pc[k] \in Over => pc'[k] \in Over

LEMMA RunKinds == TypeInv /\ [Next]_vars => RunKind
<1> SUFFICES ASSUME TypeInv, [Next]_vars PROVE RunKind
  OBVIOUS
<1> USE DEF TypeInv, TypeOK, Step, Goto, RunKind, Over, Reacting
<1> HIDE DEF Controls
<1>1. ASSUME NEW d \in Deliveries, IntakeStep(d) PROVE RunKind
  BY <1>1 DEF IntakeStep, Receive, RefuseMessage, OpenConversation, BeginTurn, LinkUserMessage,
              SaveTurnInput
<1>2. ASSUME NEW r \in Reactions, RetryStep(r) PROVE RunKind
  BY <1>2 DEF RetryStep, LoadRetry, CollectPriorReplies, PrepareRetry, PrepareRetryFrom,
              CheckRetrySnapshot, SaveRetryInput, DeletePriorReplies
<1>3. ASSUME NEW j \in Tasks, ExecutionStep(j) \/ ProviderStep(j) PROVE RunKind
  <2>1. CASE Register(j)  BY <2>1 DEF Register
  <2>2. CASE React(j)  BY <2>2 DEF React
  <2>3. CASE ~Register(j) /\ ~React(j)
    BY <1>3, <2>3
       DEF ExecutionStep, ProviderStep, RecheckStop, ObserveCancel, RunReturns, RunErrs,
           PostAnswer, LinkAnswer, FinishCompleted, PostError, FinishFailed, LinkError,
           FinishRefused, FinishCancelled
  <2>4. QED  BY <2>1, <2>2, <2>3
<1>4. ASSUME NEW j \in Tasks, TaskErrs(j) PROVE RunKind
  BY <1>4 DEF TaskErrs, Intake, Executing, Retrying
<1>5. ASSUME NEW c \in Messages, StopStep(c) PROVE pc' = pc
  BY <1>5 DEF StopStep, StoreStop, CancelConversation, CancelRuns, StoreResume
<1>6. CASE Crash  BY <1>6 DEF Crash
<1>7. CASE UNCHANGED vars  BY <1>7 DEF vars
<1>8. QED  BY <1>1, <1>2, <1>3, <1>4, <1>5, <1>6, <1>7 DEF Next

\* The entry of a run goes only with a task that ended its turn before: whoever else
\* holds a guard, or registers, is the turn's only executor.
LEMMA ReachStep ==
  ASSUME TypeInv, TypeInv', GuardInv, OneExecutorPerTurn, RunsAreReachable, [Next]_vars
  PROVE  RunsAreReachable'
<1>0. GuardKind /\ RunKind /\ StepKind
  BY GuardKinds, RunKinds, StepKinds
<1>1. \A k \in Tasks : pc[k] # "idle" => msg'[k] = msg[k] /\ msg[k] \in Messages
  BY <1>0, TasksLive DEF TypeInv, Messaged
<1> SUFFICES ASSUME NEW k \in Tasks, pc'[k] = "running", registry'[msg'[k]] # k
             PROVE  \E j \in Tasks \ {k} : msg'[j] = msg'[k] /\ pc'[j] \in Over
  BY DEF RunsAreReachable, Over
<1>2. CASE Register(k)
  BY <1>2 DEF Register, Step, TypeInv, TypeOK, Messaged, locals
<1>3. CASE pc[k] = "running"
  <2>1. msg'[k] = msg[k] /\ msg[k] \in Messages
    BY <1>1, <1>3
  <2>2. CASE registry[msg[k]] # k
    <3>1. PICK j \in Tasks \ {k} : msg[j] = msg[k] /\ pc[j] \in Over
      BY <1>3, <2>2 DEF RunsAreReachable, Over
    <3>2. pc[j] # "idle"
      BY <3>1 DEF Over, Reacting
    <3>3. QED  BY <1>0, <1>1, <2>1, <3>1, <3>2 DEF RunKind
  <2>3. CASE registry[msg[k]] = k
    <3>1. ASSUME NEW j \in Tasks, Drops(j)
          PROVE  j # k /\ msg'[j] = msg'[k] /\ pc'[j] \in Over
      <4>0. j # k  BY <3>1 DEF Drops
      <4>1. j \in guards /\ msg[j] = msg[k]
        BY <2>1, <2>3, <3>1 DEF Drops, DropGuard, TypeInv, TypeOK
      <4>2. pc[j] \in Guarded
        BY <4>1 DEF GuardInv
      <4>3. CASE pc[j] = "failStored"
        BY <1>1, <1>3, <2>1, <3>1, <4>0, <4>1, <4>3 DEF Drops, Over
      <4>4. CASE pc[j] # "failStored"
        <5>1. pc[j] \in Owning /\ pc[k] \in Owning
          BY <1>3, <4>2, <4>4 DEF Guarded, Owning, Executing
        <5>2. j = k
          BY <4>1, <5>1 DEF OneExecutorPerTurn, Owners
        <5>3. QED  BY <4>0, <5>2
      <4>5. QED  BY <4>3, <4>4
    <3>2. ASSUME NEW j \in Tasks, Register(j) PROVE FALSE
      <4>1. j # k /\ msg[j] = msg[k]
        BY <1>3, <2>1, <2>3, <3>2 DEF Register, Step, TypeInv, TypeOK
      <4>2. pc[j] \in Owning /\ pc[k] \in Owning
        BY <1>3, <3>2 DEF Register, Step, Owning, Executing
      <4>3. QED  BY <4>1, <4>2 DEF OneExecutorPerTurn, Owners
    <3>3. registry'[msg[k]] # registry[msg[k]]
      BY <2>1, <2>3
    <3>4. QED  BY <1>0, <2>1, <2>3, <3>1, <3>2, <3>3 DEF GuardKind, KeepsGuards
  <2>4. QED  BY <2>2, <2>3
<1>4. QED  BY <1>0, <1>2, <1>3 DEF RunKind

\* A stop reaches every run, but for one whose entry an earlier executor took along.
THEOREM RunsAreReachableHolds == Spec => []RunsAreReachable
<1>1. Init => GuardInv /\ RunsAreReachable
  BY DEF Init, GuardInv, RegistryHoldsLiveGuards, RunsAreReachable
<1>2. TypeInv /\ TypeInv' /\ GuardInv /\ [Next]_vars => GuardInv'
  BY GuardKinds, GuardStep
<1>3. TypeInv /\ TypeInv' /\ GuardInv /\ OneExecutorPerTurn /\ RunsAreReachable /\ [Next]_vars
      => RunsAreReachable'
  BY ReachStep
<1>4. QED
  BY <1>1, <1>2, <1>3, TypeInvHolds, OneExecutorHolds, PTL DEF Spec

=============================================================================
