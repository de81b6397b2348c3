--------------------------- MODULE TurnLifecycle ---------------------------
(***************************************************************************)
(* What the bot promises about a turn, without tasks, attempts, links or   *)
(* cancellation: it runs, it is settled at most once by an answer, a       *)
(* failed turn may run again, and an executor that is lost leaves the turn *)
(* stranded for good.  Turns implements this specification.                *)
(***************************************************************************)
EXTENDS FiniteSets

CONSTANTS
  Messages,   \* turns, named by their user message
  Tasks       \* answers, named by the task that posts them

VARIABLES
  phase,      \* where a turn is
  answers     \* the answers posted for it

vars == <<phase, answers>>

Phases == {"absent", "running", "completed", "failed", "cancelled", "stranded"}

TypeOK ==
  /\ phase \in [Messages -> Phases]
  /\ answers \in [Messages -> SUBSET Tasks]

Init ==
  /\ phase = [m \in Messages |-> "absent"]
  /\ answers = [m \in Messages |-> {}]

Move(m, from, to) ==
  /\ phase[m] = from
  /\ phase' = [phase EXCEPT ![m] = to]
  /\ UNCHANGED answers

Begin(m) == Move(m, "absent", "running")

\* A turn is answered once, while it runs.
Answer(m, k) ==
  /\ phase[m] = "running"
  /\ answers[m] = {}
  /\ answers' = [answers EXCEPT ![m] = {k}]
  /\ UNCHANGED phase

Complete(m) == answers[m] # {} /\ Move(m, "running", "completed")

Fail(m) == answers[m] = {} /\ Move(m, "running", "failed")

Cancel(m) == answers[m] = {} /\ Move(m, "running", "cancelled")

Retry(m) == Move(m, "failed", "running")

\* A failed call strands one turn, the exit of the process every running one.
Strand(S) ==
  /\ \A m \in S : phase[m] = "running"
  /\ phase' = [m \in Messages |-> IF m \in S THEN "stranded" ELSE phase[m]]
  /\ UNCHANGED answers

TurnStep(m) ==
  \/ Begin(m)
  \/ \E k \in Tasks : Answer(m, k)
  \/ Complete(m)
  \/ Fail(m)
  \/ Cancel(m)
  \/ Retry(m)

Next ==
  \/ \E m \in Messages : TurnStep(m)
  \/ \E S \in SUBSET Messages : Strand(S)

Spec == Init /\ [][Next]_vars

=============================================================================
