---------------------------- MODULE TurnHistory ----------------------------
(***************************************************************************)
(* The two orders of one conversation's turns, as PostgreSQL keeps them.   *)
(*                                                                         *)
(* A turn takes its `ordinal` when it begins and its `response_ordinal`    *)
(* when its reply is stored.  Hot-thread turns overlap, so the two orders  *)
(* differ; `history_cutoff`, captured by begin_turn from the timestamp of  *)
(* the user's message, says which replies the turn's prompt may replay.    *)
(*                                                                         *)
(* What matters here is which instant each column names: `completed_at` is *)
(* now(), the START of the finishing transaction, while the response       *)
(* ordinal is read after that transaction has waited for the row locks.    *)
(* The two are therefore separate actions.  A transaction that holds the   *)
(* conversation's row lock is one action: no other writer of these columns *)
(* can come between its statements.                                        *)
(***************************************************************************)
EXTENDS Integers

CONSTANTS
  Turns,      \* the turns of the conversation (one per user message)
  MaxClock,   \* bound: the clock stops here
  NoPrompt    \* no transcript assembled yet

ASSUME MaxClockAssumption == MaxClock \in Nat
ASSUME NoPromptAssumption == \A S \in SUBSET Turns : NoPrompt # S

NoOrdinal == -1    \* SQL NULL in an ordinal column
NoTime == -1       \* SQL NULL in a timestamp column

VARIABLES
  clock,          \* the one clock of platform and database
  sentAt,         \* turns.user_message_created_at
  status,         \* turns.status; "absent" before begin_turn
  ordinal,        \* turns.ordinal
  cutoff,         \* turns.history_cutoff
  response,       \* turns.response_ordinal
  completedAt,    \* turns.completed_at
  finishing,      \* now() of an open FinishTurn::Completed transaction
  prompt,         \* the replayed turns of the transcript last assembled for a turn
  ready,          \* turns whose current attempt has its transcript
  nextTurn,       \* conversations.next_turn_ordinal
  nextResponse    \* conversations.next_response_ordinal

vars == <<clock, sentAt, status, ordinal, cutoff, response, completedAt,
          finishing, prompt, ready, nextTurn, nextResponse>>

columns == <<status, ordinal, cutoff, response, completedAt, nextTurn, nextResponse>>

Statuses == {"absent", "pending", "completed", "failed", "cancelled"}
Ordinals == Nat \cup {NoOrdinal}
Times == Nat \cup {NoTime}

TypeOK ==
  /\ clock \in Nat
  /\ sentAt \in [Turns -> Times]
  /\ status \in [Turns -> Statuses]
  /\ ordinal \in [Turns -> Ordinals]
  /\ cutoff \in [Turns -> Ordinals]
  /\ response \in [Turns -> Ordinals]
  /\ completedAt \in [Turns -> Times]
  /\ finishing \in [Turns -> Times]
  /\ prompt \in [Turns -> (SUBSET Turns) \cup {NoPrompt}]
  /\ ready \subseteq Turns
  /\ nextTurn \in Nat
  /\ nextResponse \in Nat

Init ==
  /\ clock = 0
  /\ sentAt = [t \in Turns |-> NoTime]
  /\ status = [t \in Turns |-> "absent"]
  /\ ordinal = [t \in Turns |-> NoOrdinal]
  /\ cutoff = [t \in Turns |-> NoOrdinal]
  /\ response = [t \in Turns |-> NoOrdinal]
  /\ completedAt = [t \in Turns |-> NoTime]
  /\ finishing = [t \in Turns |-> NoTime]
  /\ prompt = [t \in Turns |-> NoPrompt]
  /\ ready = {}
  /\ nextTurn = 0
  /\ nextResponse = 0

-----------------------------------------------------------------------------
(* The environment. *)

Tick ==
  /\ clock < MaxClock
  /\ clock' = clock + 1
  /\ UNCHANGED <<sentAt, columns, finishing, prompt, ready>>

\* The user's message exists on the platform before any event task sees it.
SendMessage(t) ==
  /\ sentAt[t] = NoTime
  /\ sentAt' = [sentAt EXCEPT ![t] = clock]
  /\ UNCHANGED <<clock, columns, finishing, prompt, ready>>

-----------------------------------------------------------------------------
(* begin_turn: one transaction under the conversation's row lock. *)

\* Replies stored by the time the user wrote the message of turn t.
RepliesBefore(t) ==
  {response[u] : u \in {u \in Turns : /\ status[u] = "completed"
                                      /\ completedAt[u] <= sentAt[t]}}

IsMaxOf(n, S) == n \in S /\ \A k \in S : k <= n

BeginTurnWith(t, replies) ==
  /\ sentAt[t] # NoTime
  /\ status[t] = "absent"
  /\ \E c \in replies \cup {NoOrdinal} :
       /\ IF replies = {} THEN c = NoOrdinal ELSE IsMaxOf(c, replies)
       /\ cutoff' = [cutoff EXCEPT ![t] = c]
  /\ ordinal' = [ordinal EXCEPT ![t] = nextTurn]
  /\ nextTurn' = nextTurn + 1
  /\ status' = [status EXCEPT ![t] = "pending"]
  /\ UNCHANGED <<clock, sentAt, response, completedAt, finishing, prompt, ready,
                 nextResponse>>

BeginTurn(t) == BeginTurnWith(t, RepliesBefore(t))

\* Mutant: every completed turn is replayed.
ReplayAll(t) == {u \in Turns : status[u] = "completed" /\ cutoff[t] # NoOrdinal}

\* The turns that transcript_from_snapshot replays into t's prompt.
Replay(t) ==
  {u \in Turns : /\ status[u] = "completed"
                 /\ cutoff[t] # NoOrdinal
                 /\ response[u] <= cutoff[t]}

\* A fresh snapshot is loaded after begin_turn, or after prepare_retry has
\* reset the turn, and the transcript is rebuilt from it.
AssemblePrompt(t) ==
  /\ status[t] = "pending"
  /\ t \notin ready
  /\ prompt' = [prompt EXCEPT ![t] = Replay(t)]
  /\ ready' = ready \cup {t}
  /\ UNCHANGED <<clock, sentAt, columns, finishing>>

-----------------------------------------------------------------------------
(* finish_turn and prepare_retry. *)

\* FinishTurn::Completed: BEGIN fixes now(); the row locks are still to come.
\* A transaction that rolls back is one that never commits: its turn stays
\* pending, as after an exit of the process, and no code finishes it again.
StartCompletion(t) ==
  /\ status[t] = "pending"
  /\ t \in ready
  /\ finishing[t] = NoTime
  /\ finishing' = [finishing EXCEPT ![t] = clock]
  /\ UNCHANGED <<clock, sentAt, columns, prompt, ready>>

CommitNumbering(t, next) ==
  /\ finishing[t] # NoTime
  /\ status' = [status EXCEPT ![t] = "completed"]
  /\ completedAt' = [completedAt EXCEPT ![t] = finishing[t]]
  /\ response' = [response EXCEPT ![t] = nextResponse]
  /\ nextResponse' = next
  /\ finishing' = [finishing EXCEPT ![t] = NoTime]
  /\ UNCHANGED <<clock, sentAt, ordinal, cutoff, prompt, ready, nextTurn>>

\* Mutant: the counter is not advanced.
CommitWithoutCounter(t) == CommitNumbering(t, nextResponse)

\* The turn's and the conversation's row locks are held; commit.
CommitCompletion(t) == CommitNumbering(t, nextResponse + 1)

\* FinishTurn::Failed and FinishTurn::Cancelled.
FinishWithout(t, outcome) ==
  /\ status[t] = "pending"
  /\ t \in ready
  /\ finishing[t] = NoTime
  /\ status' = [status EXCEPT ![t] = outcome]
  /\ completedAt' = [completedAt EXCEPT ![t] = clock]
  /\ UNCHANGED <<clock, sentAt, ordinal, cutoff, response, finishing, prompt,
                 ready, nextTurn, nextResponse>>

\* A failed turn goes back to pending; ordinal and cutoff stay.  (The stop flag,
\* the UPDATE's other condition, is in Turns.)
PrepareRetry(t) ==
  /\ status[t] = "failed"
  /\ status' = [status EXCEPT ![t] = "pending"]
  /\ completedAt' = [completedAt EXCEPT ![t] = NoTime]
  /\ ready' = ready \ {t}
  /\ UNCHANGED <<clock, sentAt, ordinal, cutoff, response, finishing, prompt,
                 nextTurn, nextResponse>>

-----------------------------------------------------------------------------

TurnStep(t) ==
  \/ SendMessage(t)
  \/ BeginTurn(t)
  \/ AssemblePrompt(t)
  \/ StartCompletion(t)
  \/ CommitCompletion(t)
  \/ FinishWithout(t, "failed")
  \/ FinishWithout(t, "cancelled")
  \/ PrepareRetry(t)

Next == Tick \/ \E t \in Turns : TurnStep(t)

Spec == Init /\ [][Next]_vars

-----------------------------------------------------------------------------
(* Properties. *)

\* The conversation's replies are numbered 0, 1, 2, ... without a gap or a
\* repetition, and only completed turns have a number (finish_turn under the
\* conversation's row lock; the UNIQUE (conversation_id, response_ordinal)).
ResponseOrdinalsDense ==
  /\ \A n \in 0 .. (nextResponse - 1) :
        \E t \in Turns : status[t] = "completed" /\ response[t] = n
  /\ \A t \in Turns :
        IF status[t] = "completed" THEN response[t] \in 0 .. (nextResponse - 1)
                                   ELSE response[t] = NoOrdinal
  /\ \A t, u \in Turns :
        /\ status[t] = "completed"
        /\ status[u] = "completed"
        /\ response[t] = response[u]
        => t = u

\* The reply that bounds a turn's history was stored by the time the user
\* wrote the turn's message, whatever overlapped (begin_turn's cutoff query).
CutoffNamesAnEarlierReply ==
  \A t \in Turns : cutoff[t] # NoOrdinal =>
    \E u \in Turns : /\ status[u] = "completed"
                     /\ response[u] = cutoff[t]
                     /\ completedAt[u] <= sentAt[t]

\* A retry rebuilds the history the first attempt saw: once assembled, the
\* replayed part of a turn's prompt is never different again, however many
\* replies were stored meanwhile (transcript_for_retry, history_cutoff).
RetryRebuildsThePrompt ==
  [][\A t \in Turns : prompt[t] # NoPrompt => prompt'[t] = prompt[t]]_vars

\* No prompt replays a reply stored after the user wrote the message: the
\* documentation of Turn says later replies do not leak into earlier prompts.
NoLaterReplyInPrompt ==
  \A t \in Turns : prompt[t] # NoPrompt =>
    \A u \in prompt[t] : completedAt[u] <= sentAt[t]

=============================================================================
