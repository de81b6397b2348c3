------------------------------- MODULE Turns -------------------------------
(***************************************************************************)
(* The life of a conversation turn in the bot runtime.                     *)
(*                                                                         *)
(* Every platform event is a tokio task of its own: a MessageCreated event *)
(* runs handle_message, a retry ReactionAdded event runs                   *)
(* retry_from_message, a stop reaction runs set_stop.  The tasks share the *)
(* database, the platform's messages and the process-local registry of     *)
(* cancellable runs.  A task's code between two awaits is one action; the  *)
(* awaited call that changes shared state names the action.                *)
(*                                                                         *)
(* A turn is named by its user message (turns_user_message_idx is unique), *)
(* a conversation by its root message (conversations_root_message_idx).    *)
(* Prompts and response ordinals are modelled in TurnHistory.              *)
(***************************************************************************)
EXTENDS Integers, Sequences, FiniteSets

CONSTANTS
  Messages,     \* user messages addressed to the bot
  Deliveries,   \* MessageCreated events, a repeated delivery among them
  Reactions,    \* retry reactions of users allowed to retry
  ReplyMaps,    \* which message's conversation each message may be posted in
  MaxToggles,   \* bound: stop and resume reactions of administrators
  MaxCrashes,   \* bound: process exits
  NoMessage,
  NoTask

Tasks == Deliveries \cup Reactions

ASSUME TasksAssumption ==
  /\ Deliveries \cap Reactions = {}
  /\ NoTask \notin Tasks
  /\ NoMessage \notin Messages
ASSUME BoundsAssumption == MaxToggles \in Nat /\ MaxCrashes \in Nat
ASSUME ReplyMapsAssumption == ReplyMaps \subseteq [Messages -> Messages \cup {NoMessage}]

VARIABLES
  replyTo,      \* m is posted in the thread of, or as a reply to, replyTo[m]
  \* PostgreSQL
  roots,        \* conversations: the root messages of those opened
  stopped,      \* conversations with stopped_at set
  conv,         \* turns.conversation_id
  status,       \* turns.status; "absent" before begin_turn
  attempts,     \* turn_attempts.status, by attempt_ordinal
  linked,       \* user messages with a message_links row
  replyLinks,   \* replies (named by the posting task) with a message_links row
  \* the platform
  reply,        \* what a task posted
  marks,        \* the bot's reactions on a user message
  \* the process
  pc, msg,      \* a task's control state and user message
  found,        \* the conversation handle_message found or opened
  prior,        \* the replies retry_from_message will delete
  guards,       \* tasks holding a TurnCancellationGuard
  registry,     \* TurnCancellations.inner
  cancelled,    \* tasks whose CancellationToken is cancelled
  cancelling,   \* conversations whose stop is stored but not yet signalled
  \* bounds and history
  toggles, crashes,
  everStopped   \* conversations for which a stop was ever requested

database == <<roots, stopped, conv, status, attempts, linked, replyLinks>>
platform == <<replyTo, reply, marks>>
cancellation == <<guards, registry, cancelled>>
control == <<cancelling, toggles, crashes, everStopped>>
vars == <<database, platform, pc, msg, found, prior, cancellation, control>>

Settled == {"completed", "failed", "cancelled"}
Statuses == {"absent", "pending"} \cup Settled
Marks == {"working", "success", "error", "refused"}

\* Control states of handle_message up to execute_turn.
Intake == {"accepted", "opened", "begun", "linked"}
\* Control states of retry_from_message up to execute_turn.
Retrying == {"eligible", "collected", "prepared", "reset", "saved"}
\* Control states of execute_turn, fail_turn and refuse_turn.
Executing == {"ready", "checked", "running", "answer", "answered", "answerLinked",
              "fail", "failPosted", "failStored", "refuse", "cancel"}
\* The outcome is known; react_for_action is still to come.
Reacting == {"reactSuccess", "reactError", "reactRefused", "reactNothing"}
Controls == {"idle", "done"} \cup Intake \cup Retrying \cup Executing \cup Reacting

TypeOK ==
  /\ replyTo \in [Messages -> Messages \cup {NoMessage}]
  /\ roots \subseteq Messages
  /\ stopped \subseteq roots
  /\ conv \in [Messages -> Messages \cup {NoMessage}]
  /\ status \in [Messages -> Statuses]
  /\ attempts \in [Messages -> Seq(Statuses)]
  /\ linked \subseteq Messages
  /\ replyLinks \subseteq Tasks
  /\ reply \in [Tasks -> {"none", "answer", "error", "deleted"}]
  /\ marks \in [Messages -> SUBSET Marks]
  /\ pc \in [Tasks -> Controls]
  /\ msg \in [Tasks -> Messages \cup {NoMessage}]
  /\ found \in [Tasks -> Messages \cup {NoMessage}]
  /\ prior \in [Tasks -> SUBSET Tasks]
  /\ guards \subseteq Tasks
  /\ registry \in [Messages -> Tasks \cup {NoTask}]
  /\ cancelled \subseteq Tasks
  /\ cancelling \subseteq roots
  /\ toggles \in Nat
  /\ crashes \in Nat
  /\ everStopped \subseteq roots

Init ==
  /\ replyTo \in ReplyMaps
  /\ roots = {}
  /\ stopped = {}
  /\ conv = [m \in Messages |-> NoMessage]
  /\ status = [m \in Messages |-> "absent"]
  /\ attempts = [m \in Messages |-> <<>>]
  /\ linked = {}
  /\ replyLinks = {}
  /\ reply = [k \in Tasks |-> "none"]
  /\ marks = [m \in Messages |-> {}]
  /\ pc = [k \in Tasks |-> "idle"]
  /\ msg = [k \in Tasks |-> NoMessage]
  /\ found = [k \in Tasks |-> NoMessage]
  /\ prior = [k \in Tasks |-> {}]
  /\ guards = {}
  /\ registry = [m \in Messages |-> NoTask]
  /\ cancelled = {}
  /\ cancelling = {}
  /\ toggles = 0
  /\ crashes = 0
  /\ everStopped = {}

Goto(k, next) == pc' = [pc EXCEPT ![k] = next]
Step(k, from, to) == pc[k] = from /\ Goto(k, to)

-----------------------------------------------------------------------------
(* handle_message and process_mentioned_message. *)

\* lookup_existing_conversation: the thread or the referenced message first,
\* then the message itself (a repeated delivery).
Existing(m) ==
  IF replyTo[m] # NoMessage /\ replyTo[m] \in linked THEN conv[replyTo[m]]
  ELSE IF m \in linked THEN conv[m]
  ELSE NoMessage

\* The lookup; a message of a stopped conversation is ignored, any other one
\* gets the working reaction.
Receive(d, m) ==
  /\ pc[d] = "idle"
  /\ msg' = [msg EXCEPT ![d] = m]
  /\ IF Existing(m) \in stopped
       THEN /\ Goto(d, "done")
            /\ UNCHANGED <<found, marks>>
       ELSE /\ Goto(d, "accepted")
            /\ found' = [found EXCEPT ![d] = Existing(m)]
            /\ marks' = [marks EXCEPT ![m] = @ \cup {"working"}]
  /\ UNCHANGED <<database, replyTo, reply, prior, cancellation, control>>

\* The moderation preflight refuses the message: no turn exists.
RefuseMessage(d) ==
  /\ Step(d, "accepted", "reactRefused")
  /\ UNCHANGED <<database, platform, msg, found, prior, cancellation, control>>

\* open_conversation; the root message's unique index rejects a second one.
OpenConversation(d) ==
  /\ pc[d] = "accepted"
  /\ found[d] = NoMessage
  /\ IF msg[d] \in roots
       THEN Goto(d, "reactError") /\ UNCHANGED <<roots, found>>
       ELSE /\ Goto(d, "opened")
            /\ roots' = roots \cup {msg[d]}
            /\ found' = [found EXCEPT ![d] = msg[d]]
  /\ UNCHANGED <<stopped, conv, status, attempts, linked, replyLinks, platform, msg,
                 prior, cancellation, control>>

\* begin_turn; the user message's unique index rejects a second turn.
BeginTurn(d) ==
  /\ pc[d] \in {"accepted", "opened"}
  /\ found[d] # NoMessage
  /\ IF status[msg[d]] # "absent"
       THEN Goto(d, "reactError") /\ UNCHANGED <<status, conv>>
       ELSE /\ Goto(d, "begun")
            /\ status' = [status EXCEPT ![msg[d]] = "pending"]
            /\ conv' = [conv EXCEPT ![msg[d]] = found[d]]
  /\ UNCHANGED <<roots, stopped, attempts, linked, replyLinks, platform, msg, found,
                 prior, cancellation, control>>

\* link_message with role "user".
LinkUserMessage(d) ==
  /\ Step(d, "begun", "linked")
  /\ linked' = linked \cup {msg[d]}
  /\ UNCHANGED <<roots, stopped, conv, status, attempts, replyLinks, platform, msg,
                 found, prior, cancellation, control>>

NewAttempt(m) == attempts' = [attempts EXCEPT ![m] = Append(@, "pending")]

\* save_turn_input; then execute_turn starts.
SaveTurnInput(d) ==
  /\ Step(d, "linked", "ready")
  /\ NewAttempt(msg[d])
  /\ UNCHANGED <<roots, stopped, conv, status, linked, replyLinks, platform, msg,
                 found, prior, cancellation, control>>

-----------------------------------------------------------------------------
(* retry_from_message. *)

\* load_message_link, load_conversation and the authorization check.
LoadRetry(r, m) ==
  /\ pc[r] = "idle"
  /\ m \in linked
  /\ msg' = [msg EXCEPT ![r] = m]
  /\ Goto(r, IF conv[m] \in stopped THEN "done" ELSE "eligible")
  /\ UNCHANGED <<database, platform, found, prior, cancellation, control>>

\* load_message_links_for_turn, before prepare_retry.
CollectPriorReplies(r) ==
  /\ Step(r, "eligible", "collected")
  /\ prior' = [prior EXCEPT ![r] = {k \in replyLinks : msg[k] = msg[r]}]
  /\ UNCHANGED <<database, platform, msg, found, cancellation, control>>

PrepareRetryFrom(r, statuses) ==
  /\ pc[r] = "collected"
  /\ IF status[msg[r]] \in statuses /\ conv[msg[r]] \notin stopped
       THEN /\ Goto(r, "prepared")
            /\ status' = [status EXCEPT ![msg[r]] = "pending"]
       ELSE Goto(r, "done") /\ UNCHANGED status
  /\ UNCHANGED <<roots, stopped, conv, attempts, linked, replyLinks, platform, msg,
                 found, prior, cancellation, control>>

\* Mutants: the status condition missing, or weaker than failed.
PrepareRetryOfAny(r) == PrepareRetryFrom(r, Statuses)
PrepareRetryOfAnswered(r) == PrepareRetryFrom(r, {"failed", "completed"})

\* prepare_retry's UPDATE ... WHERE status = 'failed' AND stopped_at IS NULL.
PrepareRetry(r) == PrepareRetryFrom(r, {"failed"})

\* The snapshot loaded after the UPDATE; a stop by now makes the task return.
CheckRetrySnapshot(r) ==
  /\ pc[r] = "prepared"
  /\ Goto(r, IF conv[msg[r]] \in stopped THEN "done" ELSE "reset")
  /\ UNCHANGED <<database, platform, msg, found, prior, cancellation, control>>

\* save_turn_input with the user who asked for the retry.
SaveRetryInput(r) ==
  /\ Step(r, "reset", "saved")
  /\ NewAttempt(msg[r])
  /\ UNCHANGED <<roots, stopped, conv, status, linked, replyLinks, platform, msg,
                 found, prior, cancellation, control>>

\* delete_message for each prior reply, best effort; then the reactions.
DeletePriorReplies(r) ==
  /\ Step(r, "saved", "ready")
  /\ \E gone \in SUBSET prior[r] :
       reply' = [k \in Tasks |-> IF k \in gone THEN "deleted" ELSE reply[k]]
  /\ marks' = [marks EXCEPT ![msg[r]] = (@ \ {"error"}) \cup {"working"}]
  /\ prior' = [prior EXCEPT ![r] = {}]   \* not read again
  /\ UNCHANGED <<database, replyTo, msg, found, cancellation, control>>

-----------------------------------------------------------------------------
(* execute_turn, fail_turn and refuse_turn. *)

locals == <<msg, found, prior>>

\* The stop flag is read again, before any provider work.
RecheckStop(k) ==
  /\ pc[k] = "ready"
  /\ Goto(k, IF conv[msg[k]] \in stopped THEN "cancel" ELSE "checked")
  /\ UNCHANGED <<database, platform, locals, cancellation, control>>

\* Mutant: an entry that is there is kept.
RegisterIfAbsent(k) ==
  /\ Step(k, "checked", "running")
  /\ registry' = [registry EXCEPT ![msg[k]] = IF @ = NoTask THEN k ELSE @]
  /\ guards' = guards \cup {k}
  /\ UNCHANGED <<database, platform, locals, cancelled, control>>

\* TurnCancellations::register replaces whatever entry the turn had.
Register(k) ==
  /\ Step(k, "checked", "running")
  /\ registry' = [registry EXCEPT ![msg[k]] = k]
  /\ guards' = guards \cup {k}
  /\ UNCHANGED <<database, platform, locals, cancelled, control>>

\* TurnCancellationGuard::drop unregisters by key, whoever registered last.
DropGuard(k) ==
  /\ guards' = guards \ {k}
  /\ registry' = IF k \in guards THEN [registry EXCEPT ![msg[k]] = NoTask] ELSE registry
  /\ cancelled' = cancelled \ {k}

\* Mutant: the stored flag is looked at instead of the token alone.
ObserveCancelIfStopped(k) ==
  /\ k \in cancelled
  /\ conv[msg[k]] \in stopped
  /\ Step(k, "running", "cancel")
  /\ UNCHANGED <<database, platform, locals, cancellation, control>>

\* The biased select! looks at the cancellation token first.
ObserveCancel(k) ==
  /\ k \in cancelled
  /\ Step(k, "running", "cancel")
  /\ UNCHANGED <<database, platform, locals, cancellation, control>>

\* An AgentRun: the guard is dropped before its outcome is handled.
RunReturns(k) ==
  /\ k \notin cancelled
  /\ \E outcome \in {"answer", "fail", "refuse"} : Step(k, "running", outcome)
  /\ DropGuard(k)
  /\ UNCHANGED <<database, platform, locals, control>>

\* No AgentRun: fail_turn or refuse_turn runs with the guard still held.
RunErrs(k) ==
  /\ k \notin cancelled
  /\ \E outcome \in {"fail", "refuse"} : Step(k, "running", outcome)
  /\ UNCHANGED <<database, platform, locals, cancellation, control>>

PostReply(k, kind) ==
  /\ reply' = [reply EXCEPT ![k] = kind]
  /\ UNCHANGED <<database, replyTo, marks, locals, cancellation, control>>

\* link_message for the reply this task has posted.
LinkReply(k) ==
  /\ replyLinks' = replyLinks \cup {k}
  /\ UNCHANGED <<roots, stopped, conv, status, attempts, linked, platform, locals,
                 control>>

\* finish_turn: the turn's status and that of one of its attempts.
FinishAttempt(k, outcome, n) ==
  /\ n \in 1 .. Len(attempts[msg[k]])
  /\ status' = [status EXCEPT ![msg[k]] = outcome]
  /\ attempts' = [attempts EXCEPT ![msg[k]][n] = outcome]
  /\ UNCHANGED <<roots, stopped, conv, linked, replyLinks, platform, locals, control>>

\* Mutant: update_latest_attempt with its ORDER BY the wrong way round.
FinishFirstAttempt(k, outcome) == FinishAttempt(k, outcome, 1)

\* update_latest_attempt; neither UPDATE looks at the present status.
FinishTurn(k, outcome) == FinishAttempt(k, outcome, Len(attempts[msg[k]]))

PostAnswer(k) == Step(k, "answer", "answered") /\ PostReply(k, "answer")

LinkAnswer(k) ==
  /\ Step(k, "answered", "answerLinked")
  /\ LinkReply(k)
  /\ UNCHANGED cancellation

FinishCompleted(k) ==
  /\ Step(k, "answerLinked", "reactSuccess")
  /\ FinishTurn(k, "completed")
  /\ UNCHANGED cancellation

PostError(k) == Step(k, "fail", "failPosted") /\ PostReply(k, "error")

FinishFailed(k) ==
  /\ Step(k, "failPosted", "failStored")
  /\ FinishTurn(k, "failed")
  /\ UNCHANGED cancellation

\* The error reply is linked after the turn is failed; then fail_turn returns.
LinkError(k) ==
  /\ Step(k, "failStored", "reactError")
  /\ LinkReply(k)
  /\ DropGuard(k)

FinishRefused(k) ==
  /\ Step(k, "refuse", "reactRefused")
  /\ FinishTurn(k, "failed")
  /\ DropGuard(k)

FinishCancelled(k) ==
  /\ Step(k, "cancel", "reactNothing")
  /\ FinishTurn(k, "cancelled")
  /\ DropGuard(k)

\* The working reaction goes and the action's reaction comes (react_for_action).
MarkOf == [reactSuccess |-> {"success"}, reactError |-> {"error"},
           reactRefused |-> {"refused"}, reactNothing |-> {}]

React(k) ==
  /\ pc[k] \in Reacting
  /\ marks' = [marks EXCEPT ![msg[k]] = (@ \ {"working"}) \cup MarkOf[pc[k]]]
  /\ Goto(k, "done")
  /\ UNCHANGED <<database, replyTo, reply, locals, cancellation, control>>

\* The awaited storage or platform call returns an error, which `?` hands up:
\* handle_message always reacts, retry_from_message only from execute_turn on.
TaskErrs(k) ==
  /\ \/ pc[k] \in Intake \cup (Executing \ {"running"}) /\ Goto(k, "reactError")
     \/ pc[k] \in Retrying \ {"saved"} /\ Goto(k, "done")
  /\ DropGuard(k)
  /\ UNCHANGED <<database, platform, locals, control>>

-----------------------------------------------------------------------------
(* set_stop, and the process. *)

\* set_conversation_stop for the conversation of a linked message.
StoreStop(c) ==
  /\ toggles < MaxToggles
  /\ \E m \in linked : conv[m] = c
  /\ toggles' = toggles + 1
  /\ stopped' = stopped \cup {c}
  /\ cancelling' = cancelling \cup {c}
  /\ everStopped' = everStopped \cup {c}
  /\ UNCHANGED <<roots, conv, status, attempts, linked, replyLinks, platform, pc,
                 locals, cancellation, crashes>>

CancelRuns(c, runs) ==
  /\ c \in cancelling
  /\ cancelling' = cancelling \ {c}
  /\ cancelled' = cancelled \cup runs
  /\ UNCHANGED <<database, platform, pc, locals, guards, registry, toggles, crashes,
                 everStopped>>

Registered(c) == {m \in Messages : conv[m] = c /\ registry[m] # NoTask}

\* Mutants: every turn of the conversation, registered or not; every registered
\* turn, of this conversation or not.
CancelEveryTurn(c) == CancelRuns(c, {registry[m] : m \in {m \in Messages : conv[m] = c}})
CancelEveryRun(c) ==
  CancelRuns(c, {registry[m] : m \in {m \in Messages : registry[m] # NoTask}})

\* TurnCancellations::cancel_conversation: the tokens registered by now.
CancelConversation(c) == CancelRuns(c, {registry[m] : m \in Registered(c)})

StoreResume(c) ==
  /\ toggles < MaxToggles
  /\ c \in stopped
  /\ toggles' = toggles + 1
  /\ stopped' = stopped \ {c}
  /\ UNCHANGED <<roots, conv, status, attempts, linked, replyLinks, platform, pc,
                 locals, cancellation, cancelling, crashes, everStopped>>

\* The process exits; nothing at the next start looks at unfinished turns.
Crash ==
  /\ crashes < MaxCrashes
  /\ crashes' = crashes + 1
  /\ pc' = [k \in Tasks |-> IF pc[k] = "idle" THEN "idle" ELSE "done"]
  /\ guards' = {}
  /\ registry' = [m \in Messages |-> NoTask]
  /\ cancelled' = {}
  /\ cancelling' = {}
  /\ UNCHANGED <<database, platform, locals, toggles, everStopped>>

-----------------------------------------------------------------------------

IntakeStep(d) ==
  \/ \E m \in Messages : Receive(d, m)
  \/ RefuseMessage(d)
  \/ OpenConversation(d)
  \/ BeginTurn(d)
  \/ LinkUserMessage(d)
  \/ SaveTurnInput(d)

RetryStep(r) ==
  \/ \E m \in Messages : LoadRetry(r, m)
  \/ CollectPriorReplies(r)
  \/ PrepareRetry(r)
  \/ CheckRetrySnapshot(r)
  \/ SaveRetryInput(r)
  \/ DeletePriorReplies(r)

\* The provider's answer, whenever it comes.
ProviderStep(k) == RunReturns(k) \/ RunErrs(k)

ExecutionStep(k) ==
  \/ RecheckStop(k)
  \/ Register(k)
  \/ ObserveCancel(k)
  \/ PostAnswer(k)
  \/ LinkAnswer(k)
  \/ FinishCompleted(k)
  \/ PostError(k)
  \/ FinishFailed(k)
  \/ LinkError(k)
  \/ FinishRefused(k)
  \/ FinishCancelled(k)
  \/ React(k)

StopStep(c) == StoreStop(c) \/ CancelConversation(c) \/ StoreResume(c)

Next ==
  \/ \E d \in Deliveries : IntakeStep(d)
  \/ \E r \in Reactions : RetryStep(r)
  \/ \E k \in Tasks : ExecutionStep(k) \/ ProviderStep(k) \/ TaskErrs(k)
  \/ \E c \in Messages : StopStep(c)
  \/ Crash

Spec == Init /\ [][Next]_vars

\* The runtime polls every ready task and every awaited call but the
\* provider's returns; nothing makes a user or a provider act.
Fairness == \A k \in Tasks : WF_vars(ExecutionStep(k))

FairSpec == Spec /\ Fairness

-----------------------------------------------------------------------------
(* Properties. *)

\* Control states between taking a turn and storing its outcome.
Owning == {"begun", "linked", "prepared", "reset", "saved"}
            \cup (Executing \ {"failStored"})

Owners(m) == {k \in Tasks : msg[k] = m /\ pc[k] \in Owning}

\* Repeated deliveries, concurrent retries and stops never put two tasks on
\* one turn, and the task on a turn finds it pending: begin_turn's unique
\* index and prepare_retry's conditional update are the only ways in.
OneExecutorPerTurn ==
  \A k \in Tasks : pc[k] \in Owning =>
    /\ status[msg[k]] = "pending"
    /\ \A other \in Owners(msg[k]) : other = k

\* A settled turn's last attempt has the turn's status and every earlier one
\* failed: attempts are appended by save_turn_input and settled by finish_turn,
\* in different transactions of possibly different tasks.
AttemptsAgree ==
  \A m \in Messages :
    LET n == Len(attempts[m]) IN
    /\ \A i \in 1 .. n - 1 : attempts[m][i] = "failed"
    /\ status[m] \in Settled => n > 0 /\ attempts[m][n] = status[m]

\* A turn is cancelled only if someone asked to stop its conversation, and the
\* stop of one conversation cancels no other's run (cancel_conversation).
CancelledOnlyIfStopRequested ==
  \A m \in Messages : status[m] = "cancelled" => conv[m] \in everStopped

\* A stop reaches a run: it is registered, or an earlier executor of its turn
\* has dropped its guard late and taken the entry along (unregister is by key;
\* fail_turn holds the guard while a retry may already be under way).
RunsAreReachable ==
  \A k \in Tasks : pc[k] = "running" /\ registry[msg[k]] # k =>
    \E j \in Tasks \ {k} : msg[j] = msg[k] /\ pc[j] \in Reacting \cup {"done"}

\* The registry never outlives a run: an entry belongs to a task that still
\* holds its guard for that turn, whichever way the task returns.
RegistryHoldsLiveGuards ==
  \A m \in Messages : registry[m] # NoTask =>
    /\ registry[m] \in guards
    /\ msg[registry[m]] = m
    /\ pc[registry[m]] \in Executing

\* The success reaction stands only on a message whose turn is completed and
\* whose answer is posted, through retries and repeated deliveries.
SuccessMarkIsEarned ==
  \A m \in Messages : "success" \in marks[m] =>
    /\ status[m] = "completed"
    /\ \E k \in Tasks : msg[k] = m /\ reply[k] = "answer"

\* The token alone ends a run: once it is cancelled the task returns, whatever
\* the provider does and even if the conversation is resumed meanwhile.
CancelledRunEnds ==
  \A k \in Tasks : k \in cancelled ~> pc[k] = "done"

\* The abstract state of a turn: its column, and whether anyone is on it.
Phase(m) ==
  IF status[m] # "pending" THEN status[m]
  ELSE IF Owners(m) # {} THEN "running" ELSE "stranded"

Answers(m) == {k \in Tasks : msg[k] = m /\ reply[k] = "answer"}

Lifecycle == INSTANCE TurnLifecycle WITH
  phase <- [m \in Messages |-> Phase(m)],
  answers <- [m \in Messages |-> Answers(m)]

\* Every interleaving of deliveries, retries, stops and crashes shows only what
\* TurnLifecycle allows: one answer, then completed for good; a cancelled turn
\* never revived; a stranded one never picked up.
ImplementsTurnLifecycle == Lifecycle!Spec

\* "Stopping a conversation prevents new work from starting and cooperatively
\* cancels matching in-flight turns" (set_stop).
NoRunInStoppedConversation ==
  \A k \in Tasks :
    /\ pc[k] = "running"
    /\ conv[msg[k]] \in stopped
    /\ conv[msg[k]] \notin cancelling
    => k \in cancelled

=============================================================================
