# Chudbot in TLA+

Models of the parts of Chudbot whose correctness depends on the order in which
concurrent tasks, transactions, failures and users act, the TLC runs that check
them on small instances, and TLAPS proofs about them for every instance.

Every definition is translated from the Rust source; `PROJECT.json` maps each
one to the lines it stands for.

## 1. The system

Chudbot is a chat bot. A platform adapter delivers events; every event is a
tokio task of its own, working on one PostgreSQL database. A message that
mentions the bot becomes a *turn* of a *conversation*: a transcript is built
from earlier turns, a provider's model runs in a loop with tools, and its
answer is posted and stored. Reactions retry a failed turn or stop a
conversation. A tool, `vibe`, has a coding agent build a web site; another,
`vibe_manage`, manages it. Background workers write memory documents about
users, and a web server shows conversations and serves the sites.

| Part | State it keeps | Operations | What is hard | What makes it correct |
| --- | --- | --- | --- | --- |
| Turn lifecycle (`chudbot-bot/src/turns.rs`) | conversations, turns, attempts, message links; the reactions and replies on the platform | message, retry, stop, resume; provider outcome; post, link, finish | repeated deliveries, two retries at once, a stop at any await, a failed call after any other, exit of the process | one executor per turn; one answer; status, attempts and reactions agree |
| Cancellation (`runtime.rs`) | registry of cancellation tokens | register, unregister on drop, cancel a conversation | guards dropped late, keys used again | a stop reaches every run of its conversation and no other; a cancelled run ends |
| Conversation order (`storage-sqlx/src/bot.rs`, `transcript.rs`) | turn and response ordinals, cutoffs, completion times | begin, finish, retry, replay | overlapping turns and transactions | replies numbered densely; a prompt replays earlier replies only, and a retry the same ones |
| A turn's input (`turns.rs`, `transcript.rs`, `storage-sqlx/src/snapshots.rs`) | instruction markers and memory notes in stored inputs | assemble, save, replay, retry | written in the order of the turns, replayed in the order of the replies | the model is told the agent's current instructions, everybody is noted once, a retry repeats its input |
| Vibe jobs and sites (`tools/vibe.rs`, `storage-sqlx/src/vibe.rs`, `bin/main.rs`) | sites with a lock and a live revision, jobs, revisions | create, edit, build, repair, publish, fail, drop, clean up; rollback, archive, restore, purge; recovery | futures dropped at any await, best-effort updates, operations on a site read earlier, restart | the lock is a lock; the guild's limit; no site without a revision; revisions only grow |
| Memory jobs (`memory/runtime.rs`, `storage-sqlx/src/memory.rs`) | jobs with leases and attempts, diary entries, document | enqueue, claim, run, finish | expired leases, two workers, lost completions, rows committed out of order | no turn, event or entry is skipped; windows do not overlap |
| Vibe rooms (`chudbot-web/src/vibe_rooms.rs`) | rooms, members, three capacity counters | join, leave, broadcast, set state | join against removal of an empty room, slow clients | counters equal the members; no member in a room nobody finds |
| Agent loop, collector, retry (`chudbot-api`), stream decoders (provider crates) | transcript, records, pending items, attempts | step, decode, fold events, call tools, back off | interleaved items, output twice, a broken or stalled stream, the last iteration | a step is one response, once; every call has a result; the records agree |
| Video quota (`tools/video_generation.rs`) | active jobs of a user | count, submit, poll | count and submit are two calls | the limit holds |

They interact through the database (every part), through futures (a vibe job
is a future inside its turn's run: a cancelled turn drops it) and through the
registry of cancellation tokens. The remaining parts (adapters, providers,
assets, viewer, configuration) are listed in `PROJECT.json` with the reason why
they are not modelled: they translate, store or show data and hold no state
that two actors change.

## 2. Modules

| Module | What it is |
| --- | --- |
| `Turns` | event tasks, database, platform and registry: one action per awaited call |
| `TurnLifecycle` | what a turn promises: begun once, answered at most once, completed for good, cancelled never revived, stranded for good when its executor is lost |
| `TurnHistory` | the two orders of one conversation's turns and what a prompt replays |
| `TurnInput` | extends `TurnHistory`: instruction markers and memory notes in the turns' inputs |
| `VibeJobs` | calls of the vibe tool, their cleanup tasks, vibe_manage, the purge command and the recovery |
| `VibeSites` | what a site promises: claimed, shown from its first revision, never losing one but by a purge |
| `VibeRooms` | the hub of live rooms: one action per map entry, mutex or atomic |
| `VibePresence` | what the rooms promise: one map from a room's name to the people in it |
| `MemoryJobs` | memory workers: ticks, leases, diary windows, compactions |
| `StepCollector` | the fold of a stream's events into a model step (operators) |
| `ModelStreams` | the wire events of a response and their decoding, for five adapters (operators) |
| `AgentLoop` | a run of the agent over the two: requests, retries, deadline, tools, records |
| `MCTurns`, `MCTurnHistory`, `MCTurnInput`, `MCVibeJobs`, `MCVibeRooms`, `MCMemoryJobs`, `MCAgentLoop` | instances for TLC |
| `TurnsProofs`, `TurnInputProofs` (also of `TurnHistory`), `VibeJobsProofs`, `VibeRoomsProofs`, `MemoryJobsProofs`, `AgentLoopProofs`, `AgentLoopResponsesProofs` | theorems |
| `SequenceLemmas` | lemmas: sequences, and what `FlattenSeq` returns |

`Turns` and `TurnHistory` are two views of one component. `Turns` follows the
tasks and says nothing of time; `TurnHistory` follows the columns that order
turns and lets any task be the one that acts. `Turns` instantiates
`TurnLifecycle`, `VibeJobs` instantiates `VibeSites` and `VibeRooms`
instantiates `VibePresence`, each with a refinement mapping. The agent's run
(`AgentLoop`) is `ProviderStep` in `Turns`: from there only its outcome is seen,
and a cancellation drops it wherever it is.

### Turns

A task is a record of control (`pc`), its user message and its local values.
The control states follow `process_mentioned_message` (accepted, opened, begun,
linked), `retry_from_message` (eligible, collected, prepared, reset, saved),
`execute_turn` with `fail_turn` and `refuse_turn` (ready, checked, running,
then one of answer, fail, refuse, cancel and their later steps) and the
reaction at the end. `TaskErrs` is the `?` after every await. A turn is named by
its user message and a conversation by its root message, which the schema's
unique indexes allow. `Receive` includes the lookup of the conversation and the
working reaction: between them the task awaits only reads that the model's
properties cannot tell apart. `Crash` ends every task; nothing at the next
start looks at unfinished turns, so there is no recovery action.

An attempt is an element of `attempts[m]`; `finish_turn` settles the last one,
whichever task appended it. The registry is a function from turns to the task
that registered last; a guard is a member of `guards`, and dropping it clears
the entry by key, as the code does. So a failed run's guard, dropped late, can
take away the entry of the retry that runs meanwhile; `RunsAreReachable` says
that this is the only way a run is without an entry.

### TurnHistory and TurnInput

`completed_at` is `now()`, the start of the finishing transaction, and the
response ordinal is read after the row locks: `StartCompletion` and
`CommitCompletion` are two actions for that reason. Every other transaction
that holds the conversation's row lock is one action. The clock is the
platform's and the database's at once: skew between the two is outside the
model and could only make finding 3 easier.

`TurnInput` adds what a turn's input holds beside the replies. The
instructions are a function from part keys to texts; a saved input has a marker
for each part that differs from what the *earlier turns* stored, and the
transcript has one wherever the state differs from that of the *last replayed*
turn. A text stands for a part's text and for its update text; prompts of before
the parts, quoted messages and media are left out, and every agent has memory
enabled. `AssembleInput` reads and builds, `SaveTurnInput` stores, `Run` ends the
attempt: other turns act between any two of them.

### VibeJobs

A call, the job it creates and the site that job creates share a name, and a
revision is named by its job. `Drop` is the job timeout or the turn's
cancellation, `CleanUp` the task `JobCleanup::drop` spawns. A best-effort
`update_job_state` may do nothing. `RequestMaps` says which tool-use ids the
calls carry: distinct ones, or one for all, since a provider that sends no ids
makes them coincide. Editing, managing and purging read the site in one step
and write it in a later one, as the code does.

### VibeRooms

A connection is a task of a multi-threaded runtime, so a step is what happens
under one lock: `Reserve` (a site's map entry), `LookupRoom` (a room's entry),
`EnterRoom`, `Broadcast`, `SetState`, `LeaveRoom` (the room's mutex), and the
releases of the counters one by one. Reference-counted sites and rooms are
*cells*: a task that cloned a cell keeps it after the hub has dropped it and may
come back to a hub that has another cell under the same name. `view` is what the
client has been told. A send that never returns is a task that stays in `send`.

### MemoryJobs

One memory key (a user in a scope): keys share only the size of a claim's batch.
A worker is the scheduler of one process; a tick enqueues (three steps, as the
code has three statements), claims (the sub-select and the UPDATE are two
steps: `ReadClaimable`, `Claim`), runs a diary or a compaction, and finishes it
by the job's id. Leases are not renewed, so two workers may run one job. Turns
and events take their timestamp before they are committed. `late` records those
committed only after the work had gone past them.

### AgentLoop, ModelStreams, StepCollector

A response of the service is a sequence of items (thought, text, call, server
search) in fragments. `ModelStreams!Wire` is what each service sends for it, in
pieces or whole, and `Decode` is the adapter's handler for one wire event, with
the adapter's state; `StepCollector!Push` is the collector's. `AgentLoop` adds
`with_retry` around the POST, the adapters' second attempts of a stream that has
yielded nothing, the text-generation deadline, the concurrent tool calls and the
records. A JSON argument is a sequence of numbered fragments of one document, so
that "parses" means: all fragments, in order.

## 3. Runs

| Run | Instance | Shows |
| --- | --- | --- |
| `turns` | 2 messages in one conversation or two, 2 deliveries, no retries, 2 stops or resumes, 1 exit | types, only a stop of the own conversation cancels |
| `turn_retries` | 1 message, 1 delivery, 2 retries, 2 stops or resumes, 1 exit, with fairness | one executor, attempts, reachable runs, success reaction, refinement of `TurnLifecycle`, a cancelled run ends |
| `history` | 3 turns, 2 agents of 2 instruction parts, 1 user, a clock of 2 instants | replies numbered densely, a retry's prompt and input, instructions, memory notes |
| `vibe` | 3 calls, 1 manager, 3 names, 2 running jobs at most, 1 restart | lock, limit, failures, refinement of `VibeSites` |
| `vibe_live` | 2 calls, 1 name, 1 repair, 1 restart, ids shared or not, with fairness | a job's call ends |
| `rooms` | 3 connections, 2 rooms of a site, 2 users, 3 cells of each kind, 2 configurations of limits, channels of 1 | members are found, counters, limits, views, refinement of `VibePresence` |
| `memory` | 6 configurations, of at most 2 workers, 2 turns, 2 events and 3 jobs, each with its own bounds | nothing skipped, windows disjoint |
| `agent` | 5 adapters, 9 responses, 3 steps, 2 attempts | a step is one response, results, records, outcome, the end of a stalled stream |
| `turns_stop`, `instructions_lost`, `history_leak`, `vibe_rollback` | the smallest instance of each | the disagreements of section 6 |

Why the bounds are enough. Every conflict in `Turns` is between two tasks: on
one turn (a delivery and a retry, two retries), or on the messages of one
conversation (two deliveries), with a stop or an exit between any two of their
steps. A delivery and two retries make a turn fail, run again and fail or succeed
again, with the first run's guard still held (`turn_retries`); two messages, each
delivered by either of two tasks, also show a delivery repeated and what one
conversation's stop does to another's run (`turns`). Two toggles are a stop and a
resume. In `TurnHistory`, three turns are the
least in which a third can replay two that finished in the opposite order, and
two instants separate a start from a commit. In `TurnInput`, one part always has
a text and the other only under one of the two agents, so that parts are told,
changed, emptied and told again within three turns. In `VibeJobs`, three
calls make two revisions of a site and an edit of the older one, one more than
the limit of two running jobs, and one more name than a site needs; a second
restart adds only what a first has shown. In `VibeRooms`, two connections meet
in a room as one user or two, a third competes for the hub's place or the site's
room count, and three cells let a name be used again while two tasks still hold
the old ones; a channel of one message makes every second one find it full. In
`MemoryJobs`, the six configurations pair what can disagree: windows that start
late, an outage longer than the backfill, events out of order, both, and two
workers with either kind of job. In `AgentLoop`, three steps are two steps with
calls and a final one, two attempts reach the limit; the responses hold each
item type, two calls with and without text between, empty and cut ones. Symmetry is used
where a run checks safety only (invariants, and refinements whose abstract
specification treats the members of a set alike); the runs under fairness use
none.

`CHECK_DEADLOCK` is off for `Turns`, `TurnHistory`, `TurnInput` and `VibeJobs`:
a bot without events, or a site that nobody edits, has nothing to do, and the
bounds on stops and exits stop the rest. Rooms, workers and runs always have a
step, and deadlock is checked.

Fairness. `turn_retries` assumes weak fairness of each task's own steps, which the
runtime's scheduler gives to a ready task and the database's and platform's
clients give with their timeouts; it assumes nothing of the provider
(`ProviderStep`), of users, or of errors. `vibe_live` assumes weak fairness of a
job's own steps: the coding agent and the builds have limits of their own. It
assumes nothing of the job timeout, so the end it shows is the repair budget's.
`agent` assumes only that a timer that is set fires (`DeadlinePasses`): the
service may stall for ever at any point, and before the first output the run
really may. All three need the fairness: without it the system may stop anywhere.

Every property of a passing run has a mutant, an operator next to the definition
it changes, named in `PROJECT.json`: a dropped guard or a wrong order that makes
the property fail in that run.

## 4. Proofs

All proofs hold for any number of messages, tasks, turns, calls, managers,
connections, rooms, workers, jobs and steps and
any value of the bounds, under the named assumptions of the modules (tasks of
the two kinds are disjoint, null values are not members, bounds are numbers,
intervals are positive, connections and rooms are finitely many).

*TurnHistory.* `IInv` adds to the types and the dense ordinals that a cutoff
names a stored reply, that only a pending turn has a finishing transaction open,
and that an assembled prompt equals what `Replay` would give now. The last is
what makes the retry property inductive: a new reply's ordinal is above every
cutoff, since ordinals are dense and cutoffs name stored ones
(`InvariantHolds`, `OrdinalsAreDense`, `RetryRebuilds`, `CutoffIsEarlier`).

*TurnInput.* `InputsKeepTheHistory` shows that the theorems of `TurnHistory` hold
here too: the inputs change nothing of the history. `Basics` adds to `IInv` that
a turn replays only turns begun before it, although replies and turns have
different orders (`RepliesPrecede`), and that an attempt is saved before it runs
(`Lifecycle`). `InstructionsAreTold` rests on `HistoryTells`: the last markers of
a history are the state of its last turn, since each replayed turn adds those
that lead to its own state. The current turn's lead on to its parts when the last
reply is of the turn before. A history can be taken turn by turn because a replay
is numbered 0, 1, ... up to the cutoff, so that `InReplyOrder` has no choice
(`ReplyOrder`).

The other three are about conversations whose messages wait for answers
(`MessagesWait`; findings 2 and 3 are what happens to those that do not).
`InputWaits` says that there an input consists of the whole input of the turn
before, its own markers, its notes and its message; that the state before the
turn, with the turn's own markers applied, is what its input tells and what is
stored of it; and that nobody is noted twice. It is inductive because a turn is
assembled after all earlier ones have replied and are saved, so that nothing its
input is built from changes again (`HistoryIsBasis`, `BasisKept`); a retry then
finds the same parts and notes (`RetryFits`). `NotedOnce`, `InputsExtend` and
`RetryRepeats` follow. Assumed of the constants: the parts are a list, a message
names finitely many people, and the instructions an agent composes have at least
one text (`PromptsAssumption`: the code always adds the version and the
operational context).

*Turns.* Every action is first summarised as one of few kinds of step
(`StepKind`: a task takes a turn, settles it, works on, halts; `DataKind`: what
happened to replies and reactions), and the invariants are proved from the
kinds. `OneExecutorHolds` needs nothing but the types: to take a turn is to find
it absent or failed, and an executor's turn is pending. `TurnInv` adds what each
control state has posted, from which an answered turn is completed or still has
the executor that answered (`SuccessMarkHolds`); with it,
`TurnsImplementLifecycle` maps every step to a step of `TurnLifecycle` or a
stutter. `AttemptsAgreeHolds` needs that a task between taking its turn and
saving its input finds only failed attempts, and that nobody else writes them
meanwhile. `GuardInv` says that registry entries belong to live guards and with the
flag kept in `everStopped` it gives that only a requested stop cancels
(`CancelledOnlyIfStopRequestedHolds`). `RunsAreReachableHolds` needs one executor
as well: a guard that takes away a run's entry cannot be another executor's, so
it is that of a task that has already ended the turn and only reports.

*VibeJobs.* `TypeInv` adds to the types that what calls and jobs refer to
exists. `LockInv` relates calls, jobs, sites and locks: a call works on the job
it created, a call without a job has left nothing in the database, jobs and
revisions go with their site, a job at work has a running row (or none, after a
purge) and no revision, and the lock is the running job's
(`RunningJobsHoldLocksHolds`, `FailedJobsHold`). `SiteInv` adds that a site
being created serves nothing, that a site a manager has read stays one that was
shown, and that the parent a running job read is still a revision of its site;
the last needs the lock, because only the holder's publication or the site's
deletion changes the revisions. From it follow `SitesAreShownOrMadeHolds`,
`OrdinalsAreDenseHolds` (a new ordinal is the parent's plus one, and one not in
use) and `ImplementsVibeSitesHolds`. `GuildLimitIsKept` needs in addition only
that the set of running jobs is finite, which one claim at a time preserves. As
for `Turns`, the steps are first summarised by what they write (`DataStep`).
All but `TypesHold` assume `DistinctIds`, that calls differ in their tool-use
ids; without it two calls may work on one job.

*VibeRooms.* `RoomsInv` is the types, `Cells`, `Bounded` and the exact counters.
`Cells`: a task with a place in a site is of the cell that the hub has under the
site's name; one inside a room is in the cell under the room's name, and so is one
on its way in unless that room has been closed meanwhile, which is what the
closed flag is for (`Placed`); whoever is in a room's maps is a task inside it
(`Seated`); a room that has a name is open, has a task, and is called by that name
by every task that refers to it (`Occupied`). Each counter equals the number of
tasks at the places that hold one, and every step changes both by the same one
(`CountersAreExact`); it stays below its limit by the guards (`Bounded`).
`LimitsHoldHolds` counts the tasks under a name among those of its cell.

The views go on from `RoomsInv`. `Streams` types the channels: a message tells
of users only. `Views` says that for a client that reads, of every
user, the last message in its channel that is about that user agrees with the
room, and where no message is, its view does. It is inductive with `Quiet`: a
channel is empty until its client has entered, since the snapshot and the
registration are one step under the room's mutex. The proof is about appending a
message to a channel and reading its first one (`ViewsFollowRoomsHolds`). For
`RoomsImplementPresence`, a name stands for what its cell holds, or for nobody when the hub
has no cell under it. `Peopled` says that the two maps of a room agree on who is
in it and `SitesDistinct` that a cell has one name, so that a change in a cell is
seen under that name only. A step that closes, drops or makes a cell shows
nowhere, because `Occupied` leaves an unoccupied room nothing to lose.

*MemoryJobs.* The types include that windows lie in the past and that an entry's
window is its job's. `WindowsAreDisjointHolds` rests on the interval arithmetic of
`NextInterval`: a new window starts at or after the last end. `FoldInv`: the
document, and what a running compaction has read, contain all events and entries
up to their cutoffs but the late ones. `DiaryInv`: a settled turn that windows have
gone past is in one or was left behind by an outage; a completed job's window is
covered; and a worker about to write has read its window, or the maximum, which is
true because a turn committed after a job exists is late if it lies before the end
of the job's window.

*AgentLoop.* `StepsInv` counts the recorded steps: one for every iteration done.
With it a final step is the last one and the run's end (`OutcomeHolds`).
`RunInvHolds` adds two invariants. `StreamInv` follows a step from its request
to its end: nothing is collected before something was yielded, which is why a
retried stream starts with an empty collector; what the decoder remembers fits
the response that is still to come (`Decoding`: an Anthropic block event finds
its block, because blocks start in order); and a client tool call that has been
collected is known to the decoder, so that the step's kind is not `Continue`. It
rests on `DecodeYields`, proved decoder by decoder for every event of every
response: an event yields items, or ends the step with items, one usage record
and the finishing event. `RecordInv` keeps usage, trace and transcript together:
one usage record for every recorded step, no calls unanswered but those whose
tools run, and in the trace the transcript's results and no others. From them
follow `CallsHold` and `AuditHolds`. The assumptions are that a provider is one of
the adapters and that responses are well-formed lists of items, whose tools have
names (`ProvidersAssumption`, `ResponsesAssumption`).

`AgentLoopResponsesProofs` compares a whole step with the response it came from.
Its invariant, `AcceptInv`, looks ahead: when the events that are still on the
wire have been decoded and pushed as well, the collector will hold the response
(`SoFar`). Receiving an event takes it from the wire and gives it to the
collector, which changes nothing of that (`SoFarGoesOn`, `SoFarEnds`), so the
invariant is decided when the provider answers, by one lemma about each adapter's
wire from its first event to its last (`AdapterConcludes`). Each of these goes
item by item. `OpenAiTells`: the terminal event repeats the whole text only if
none was streamed, and those calls that had no fragments, which is why calls may
change their order but not their number (`Same`). `AnthropicTells`: a block's
data are its fragments added up, told as they come or when it stops, and a paused
turn only adds a continuation. `XaiTells` and the text of Gemini: all chunks
extend one slot, the only one of its type (`Solo`). `CompatTells`: there is
nothing but the whole message. `GeminiConcludes`: a response with calls in two
chunks, whose numbers start at 0 in each, ends in a collector with an error or
with a call whose arguments go on after they were complete, which `finish` refuses
(`Spoiled`); one chunk, or one call, is told. What a step says of its slots is
counted slot by slot (`Holds`, `StepTells`). From the invariant follow
`AcceptanceHolds` and `StepsAreResponses`. Responses that the token limit cut are
outside both, as they are in the properties: of them only types, records and
transcript are proved.

The proofs about sequences rest on `SequenceLemmas`: the recursive function in
`FlattenSeq` exists, one more sequence adds its elements at the end, and
flattening concatenated rows concatenates what they flatten to. The induction
over the length is there a lemma about sets of numbers (`Induct`), proved
from the well-foundedness of `<`, so that no theorem takes an operator. For these
proofs the sequences of the model are made with `FlattenSeq` and recursive
functions (`Within`, `Only`, `PushAll`): of `SelectSeq` the prover knows nothing.

Model-checked only: `CancelledRunEnds`, `ClaimedCallsEnd` and `GenerationEnds`,
since liveness under fairness is outside what the prover does. Every other
property of a passing run is a theorem.

## 5. What is abstracted

Texts, costs, traces and profiles, and the sizes of messages; the platform, of
which delivery, replies and reactions remain; git, Docker and files, whose steps
return or fail; membership and access decisions, whose refusals are actions; the
service behind a provider, which may give any response and break off anywhere. A
COMMIT whose acknowledgement is lost is modelled for memory (a saved entry that
still reports an error) and not for turns. Several processes on one database are
modelled for memory workers and not for turns: the registry is process-local, and
the code speaks of a "single-node runtime" (`tools/video_generation.rs:82`).

Hazards without a property (in `PROJECT.json` with a note): a rollback or a job
that activates an archived site, where no document says who wins; a memory job
whose worker exits counts an attempt each time and is claimed again without limit,
as the model has it; a room's client that stops reading holds its task in a send
that nothing bounds.

### Not modelled

Login links, sessions, OAuth state and collections: each request is one
conditional statement. The video quota: one count and one submission under one
lock. Repositories, the sandbox, exports, media and asset stores: files and
processes. The Discord adapter and the rest of the providers: translations of
data. Commands, settings, configuration, diagnostics, viewer and frontend: one
query each, parsing, or display.

## 6. Findings

1. `turns_stop`: the stop flag is read before the cancellation token is
   registered; a stop between the two neither prevents nor cancels the run.
2. `instructions_lost`: which instructions a turn still has to be told is
   measured on the inputs of all earlier turns, but only completed turns are
   replayed. While the first turn is pending, or after it failed, the next turn's
   input has none of the parts that are stored already: its model gets no
   instructions. In the same way a changed agent's parts are lost with a failed
   turn, and the memory notes of the participants.
3. `history_leak`: `completed_at` is a transaction's start, and a cutoff is an
   ordinal taken at its end; a prompt can replay a reply that was stored after the
   user wrote.
4. `vibe_rollback`: the first edit after a rollback takes an ordinal that is
   already used, and so fails after its build, every time.

Each is a run that TLC ends with a counterexample; `PROJECT.json` quotes the
sentence of the repository that each disagrees with.

## 7. Plan

Done: the turn lifecycle with cancellation, the conversation's orders and the
turns' inputs, Vibe jobs and sites, rooms, memory jobs, and the agent loop with
its collector and decoders; their abstract specifications; their safety proofs.

Left, in this order:

1. Requests: what an adapter renders of a transcript with its continuation, and
   the replay of stored model steps in later turns.
2. The composition of a turn's cancellation with the vibe call inside its run.
3. The video quota and quoted replies.
