----------------------------- MODULE MemoryJobs -----------------------------
(***************************************************************************)
(* The memory jobs of one user in one scope                                *)
(* (chudbot-bot/src/memory/runtime.rs, chudbot-storage-sqlx/src/memory.rs): *)
(* diary entries about windows of completed turns, and compactions of      *)
(* events and diary entries into the user's document.                      *)
(*                                                                         *)
(* A worker is the scheduler of one process.  Its tick enqueues what is    *)
(* due, claims a job for the length of a lease that nobody renews, runs it *)
(* and stores the outcome by the job's id.  A claim takes at most one job  *)
(* of a memory key, so memory keys share nothing but the size of a batch:  *)
(* one key is modelled.                                                    *)
(*                                                                         *)
(* Time is the clock that processes and PostgreSQL share.  Events and      *)
(* diary entries carry their place in the order of their timestamps.  A    *)
(* row's timestamp is the start of its transaction: rows become visible    *)
(* later than that, and in another order.                                  *)
(***************************************************************************)
EXTENDS Integers, Sequences, FiniteSets, FiniteSetsExt

CONSTANTS
  Workers,
  \* MemoryConfig, on the model's clock
  CompactInterval, Lease, Backoff, MaxAttempts, MaxTurns,
  Configs,    \* the diary's interval and backfill window, with bounds of the model
  None

ASSUME ConfigAssumption ==
  /\ {CompactInterval, Lease, Backoff, MaxAttempts, MaxTurns} \subseteq Nat \ {0}
  /\ Configs \subseteq
       [{"interval", "backfill", "time", "turns", "events", "jobs", "workers"} -> Nat]
  /\ \A c \in Configs : c.interval > 0
ASSUME NoneAssumption == None \notin Int

VARIABLES
  config,     \* and the last instant, the most turns, events and workers awake
  now,
  turns,      \* the user's turns: when completed, whether committed
  events,     \* user_memory_events: whether committed
  entries,    \* user_memory_diary_entries: the window's start and the source turns
  document,   \* the last of user_memory_document_versions, with all it was made from
  jobs,       \* user_memory_jobs, by created_at
  late,       \* the turns and events committed when work had gone past them
  pc, tick, run   \* of a worker: its place, the tick's now, the job it runs

tables == <<turns, events, entries, document, jobs>>
vars == <<config, now, tables, late, pc, tick, run>>

NoDocument ==
  [events |-> {}, diaries |-> {}, event_cutoff |-> 0, diary_cutoff |-> 0, compacted_at |-> None]
NoRun == [job |-> None]

Init ==
  /\ config \in Configs
  /\ now = 0
  /\ turns = <<>>
  /\ events = <<>>
  /\ entries = <<>>
  /\ document = NoDocument
  /\ jobs = <<>>
  /\ late = [turns |-> {}, events |-> {}]
  /\ pc = [w \in Workers |-> "sleep"]
  /\ tick = [w \in Workers |-> 0]
  /\ run = [w \in Workers |-> NoRun]

-----------------------------------------------------------------------------
(* The sources *)

Advance ==
  /\ now < config.time
  /\ now' = now + 1
  /\ UNCHANGED <<config, tables, late, pc, tick, run>>

DiaryJobs == {j \in DOMAIN jobs : jobs[j].kind = "diary"}
WindowEnd(j) == jobs[j].window + config.interval

\* finish_turn: completed_at is the start of its transaction.
CompleteTurn ==
  /\ Len(turns) < config.turns
  /\ turns' = Append(turns, [completed_at |-> now, stored |-> FALSE])
  /\ UNCHANGED <<config, now, events, entries, document, jobs, late, pc, tick, run>>

CommitTurn(t) ==
  /\ ~turns[t].stored
  /\ turns' = [turns EXCEPT ![t].stored = TRUE]
  /\ late' = [late EXCEPT !.turns =
       IF \E j \in DiaryJobs : turns[t].completed_at < WindowEnd(j) THEN @ \cup {t} ELSE @]
  /\ UNCHANGED <<config, now, events, entries, document, jobs, pc, tick, run>>

\* append_user_memory_event, by the memory tool of a conversation.
AppendEvent ==
  /\ Len(events) < config.events
  /\ events' = Append(events, FALSE)
  /\ UNCHANGED <<config, now, turns, entries, document, jobs, late, pc, tick, run>>

\* The event cutoffs stored, and those that runs in progress have read or will store.
EventCutoffs ==
  {document.event_cutoff}
  \cup {run[w].document.event_cutoff : w \in {v \in Workers : pc[v] \in {"sources", "save"}}}

CommitEvent(e) ==
  /\ ~events[e]
  /\ events' = [events EXCEPT ![e] = TRUE]
  /\ late' = [late EXCEPT !.events = IF \E c \in EventCutoffs : e <= c THEN @ \cup {e} ELSE @]
  /\ UNCHANGED <<config, now, turns, entries, document, jobs, pc, tick, run>>

-----------------------------------------------------------------------------
(* enqueue_due_memory_jobs *)

GoTo(w, l) == pc' = [pc EXCEPT ![w] = l]

StartTick(w) ==
  /\ pc[w] = "sleep"
  /\ Cardinality({v \in Workers : pc[v] # "sleep"}) < config.workers
  /\ tick' = [tick EXCEPT ![w] = now]
  /\ GoTo(w, "stale")
  /\ UNCHANGED <<config, now, tables, late, run>>

Active(j) == jobs[j].status \in {"pending", "running"}
Terminal(j) == jobs[j].status \in {"completed", "failed"}

\* A diary job whose window has an entry, or another job that ended, is not run.
FailStaleJobs(w) ==
  LET stale == {j \in DiaryJobs :
        /\ \/ jobs[j].status = "pending"
           \/ jobs[j].status = "running" /\ jobs[j].leased_until < tick[w]
        /\ \/ \E n \in DOMAIN entries : entries[n].window = jobs[j].window
           \/ \E k \in DiaryJobs \ {j} : Terminal(k) /\ jobs[k].window = jobs[j].window}
  IN /\ pc[w] = "stale"
     /\ jobs' = [j \in DOMAIN jobs |->
          IF j \in stale THEN [jobs[j] EXCEPT !.status = "failed", !.leased_until = None]
          ELSE jobs[j]]
     /\ GoTo(w, "diaries")
     /\ UNCHANGED <<config, now, turns, events, entries, document, late, tick, run>>

\* The windows that have been dealt with: the cursor is the last one's end.
ProcessedEnds ==
  {entries[n].window + config.interval : n \in DOMAIN entries}
  \cup {WindowEnd(j) : j \in {k \in DiaryJobs : Terminal(k)}}

Ceil(x, y) == (x + y - 1) \div y

\* Mutant: a window begins no earlier than its first turn.
NextIntervalAfter(cursor, first) == cursor + Ceil(first - cursor, config.interval) * config.interval

\* Mutant: windows are not kept from going back before the cursor.
NextIntervalAny(cursor, first) == cursor + (Ceil(first - cursor, config.interval) - 1) * config.interval

\* The last interval after the cursor that begins before the first turn.
NextInterval(cursor, first) ==
  cursor + Max({Ceil(first - cursor, config.interval) - 1, 0}) * config.interval

\* The start of the next window: the first turn that no window has dealt with,
\* or the last interval after the cursor that begins before that turn.
DiaryWindows(cutoff) ==
  LET fresh == ProcessedEnds = {} \/ Max(ProcessedEnds) < cutoff
      cursor == Max(ProcessedEnds)
      candidates == {turns[t].completed_at : t \in {u \in DOMAIN turns :
        /\ turns[u].stored
        /\ turns[u].completed_at >= cutoff
        /\ fresh \/ turns[u].completed_at >= cursor}}
      first == Min(candidates)
  IN IF candidates = {} THEN {}
     ELSE IF fresh THEN {first}
     ELSE {NextInterval(cursor, first)}

DueDiaries(w) ==
  {start \in DiaryWindows(tick[w] - config.backfill) : start <= tick[w] - config.interval}

\* INSERT ... ON CONFLICT DO NOTHING: one active job of a kind.
Enqueue(w, kind, window) ==
  IF \E j \in DOMAIN jobs : jobs[j].kind = kind /\ Active(j)
  THEN UNCHANGED jobs
  ELSE /\ Len(jobs) < config.jobs
       /\ jobs' = Append(jobs, [kind |-> kind, window |-> window, status |-> "pending",
                                attempts |-> 0, next_run_at |-> tick[w], leased_until |-> None])

EnqueueDiary(w) ==
  /\ pc[w] = "diaries"
  /\ IF DueDiaries(w) = {} THEN UNCHANGED jobs
     ELSE \E start \in DueDiaries(w) : Enqueue(w, "diary", start)
  /\ GoTo(w, "compacts")
  /\ UNCHANGED <<config, now, turns, events, entries, document, late, tick, run>>

PendingEvents(d) == {e \in DOMAIN events : events[e] /\ e > d.event_cutoff}
PendingDiaries(d) == {n \in DOMAIN entries : n > d.diary_cutoff}

\* A compaction waits for the diary: for a job that is active and one that is due.
EnqueueCompact(w) ==
  LET due == /\ PendingEvents(document) \cup PendingDiaries(document) # {}
             /\ \A j \in DiaryJobs : ~Active(j)
             /\ DueDiaries(w) = {}
             /\ \/ document.compacted_at = None
                \/ document.compacted_at <= tick[w] - CompactInterval
  IN /\ pc[w] = "compacts"
     /\ IF due THEN Enqueue(w, "compact", None) ELSE UNCHANGED jobs
     /\ GoTo(w, "claim")
     /\ UNCHANGED <<config, now, turns, events, entries, document, late, tick, run>>

-----------------------------------------------------------------------------
(* claim_memory_jobs *)

Sleep(w) ==
  /\ GoTo(w, "sleep")
  /\ tick' = [tick EXCEPT ![w] = 0]
  /\ run' = [run EXCEPT ![w] = NoRun]

Leased(j) == jobs[j].status = "running" /\ jobs[j].leased_until >= now

Claimable == {j \in DOMAIN jobs :
  /\ jobs[j].next_run_at <= now
  /\ Active(j) /\ ~Leased(j)
  /\ \A k \in DOMAIN jobs \ {j} : ~Leased(k)}

First(S) == CHOOSE j \in S : \A k \in S :
  jobs[j].next_run_at < jobs[k].next_run_at
  \/ (jobs[j].next_run_at = jobs[k].next_run_at /\ j <= k)

\* The sub-select reads its snapshot.
ReadClaimable(w) ==
  /\ pc[w] = "claim"
  /\ IF Claimable = {} THEN Sleep(w)
     ELSE /\ run' = [run EXCEPT ![w] = [job |-> First(Claimable)]]
          /\ GoTo(w, "lock")
          /\ UNCHANGED tick
  /\ UNCHANGED <<config, now, tables, late>>

\* FOR UPDATE SKIP LOCKED, and the UPDATE.  A row that another transaction changed
\* since the snapshot is checked again, but only against the conditions on the
\* locked table itself: its id.
Claim(w) ==
  LET j == run[w].job
      attempts == jobs[j].attempts + 1
  IN /\ pc[w] = "lock"
     /\ \A k \in DOMAIN jobs \ {j} : jobs[k].kind = jobs[j].kind => ~Active(k)
     /\ jobs' = [jobs EXCEPT ![j].status = "running", ![j].attempts = attempts,
                             ![j].leased_until = tick[w] + Lease]
     /\ run' = [run EXCEPT ![w] = [job |-> j, attempts |-> attempts]]
     /\ GoTo(w, jobs[j].kind)
     /\ UNCHANGED <<config, now, turns, events, entries, document, late, tick>>

-----------------------------------------------------------------------------
(* run_job *)

Run(w) == run[w]
Set(w, r) == run' = [run EXCEPT ![w] = r]

\* load_memory_turn_window: the first turns of the window, up to the limit.
LoadTurns(w) ==
  LET start == jobs[Run(w).job].window
      In == {t \in DOMAIN turns : /\ turns[t].stored
                                  /\ turns[t].completed_at >= start
                                  /\ turns[t].completed_at < start + config.interval}
  IN /\ pc[w] = "diary"
     /\ \E S \in SUBSET In :
          /\ Cardinality(S) = Min({Cardinality(In), MaxTurns})
          /\ \A t \in S, u \in In \ S : turns[t].completed_at <= turns[u].completed_at
          /\ Set(w, [job |-> Run(w).job, attempts |-> Run(w).attempts, turns |-> S])
          /\ GoTo(w, IF S = {} THEN "completed" ELSE "write")
     /\ UNCHANGED <<config, now, tables, late, tick>>

\* The document is read for the diary agent and for the compaction alike; what an
\* agent makes of it is seen in the compaction only.
LoadDocument(w) ==
  /\ pc[w] = "compact"
  /\ Set(w, [job |-> Run(w).job, attempts |-> Run(w).attempts, document |-> document])
  /\ GoTo(w, "sources")
  /\ UNCHANGED <<config, now, tables, late, tick>>

\* Mutant: a compaction starts from an empty document.
LoadNewSources(w) ==
  LET d == Run(w).document
      new == PendingEvents(d)
      diaries == PendingDiaries(d)
  IN /\ pc[w] = "sources"
     /\ Set(w, [job |-> Run(w).job, attempts |-> Run(w).attempts, document |->
          [NoDocument EXCEPT !.events = new, !.event_cutoff = Max(new \cup {d.event_cutoff}),
             !.diaries = diaries, !.diary_cutoff = Max(diaries \cup {d.diary_cutoff})]])
     /\ GoTo(w, IF new \cup diaries = {} THEN "completed" ELSE "save")
     /\ UNCHANGED <<config, now, tables, late, tick>>

\* The events and then the diary entries since the document's cutoffs.
LoadSources(w) ==
  LET d == Run(w).document
      new == PendingEvents(d)
      diaries == PendingDiaries(d)
  IN /\ pc[w] = "sources"
     /\ Set(w, [job |-> Run(w).job, attempts |-> Run(w).attempts, document |->
          [events |-> d.events \cup new, diaries |-> d.diaries \cup diaries,
           event_cutoff |-> Max(new \cup {d.event_cutoff}),
           diary_cutoff |-> Max(diaries \cup {d.diary_cutoff}),
           compacted_at |-> None]])
     /\ GoTo(w, IF new \cup diaries = {} THEN "completed" ELSE "save")
     /\ UNCHANGED <<config, now, tables, late, tick>>

\* save_user_memory_diary_entry.  An INSERT that is committed may still return an error.
SaveDiaryEntry(w) ==
  /\ pc[w] = "write"
  /\ entries' = Append(entries, [window |-> jobs[Run(w).job].window, turns |-> Run(w).turns])
  /\ GoTo(w, "completed") \/ GoTo(w, "error")
  /\ UNCHANGED <<config, now, turns, events, document, jobs, late, tick, run>>

\* save_user_memory_document_revision: the last revision's number, locked, plus one.
SaveRevision(w) ==
  /\ pc[w] = "save"
  /\ document' = [Run(w).document EXCEPT !.compacted_at = now]
  /\ GoTo(w, "completed") \/ GoTo(w, "error")
  /\ UNCHANGED <<config, now, turns, events, entries, jobs, late, tick, run>>

Working == {"diary", "compact", "sources", "write", "save"}

\* The model fails or answers with nothing, or storage returns an error: two
\* compactions that number their revisions alike, for one.
RunErrs(w) ==
  /\ pc[w] \in Working
  /\ GoTo(w, "error")
  /\ UNCHANGED <<config, now, tables, late, tick, run>>

-----------------------------------------------------------------------------
(* finish_memory_job *)

\* By the job's id: whatever the row has become, and whoever runs it.
FinishCompleted(w) ==
  /\ pc[w] = "completed"
  /\ jobs' = [jobs EXCEPT ![Run(w).job].status = "completed", ![Run(w).job].leased_until = None]
  /\ Sleep(w)
  /\ UNCHANGED <<config, now, turns, events, entries, document, late>>

FinishFailed(w) ==
  /\ pc[w] = "error"
  /\ Run(w).attempts >= MaxAttempts
  /\ jobs' = [jobs EXCEPT ![Run(w).job].status = "failed", ![Run(w).job].leased_until = None]
  /\ Sleep(w)
  /\ UNCHANGED <<config, now, turns, events, entries, document, late>>

\* Mutant: a job that is put off keeps its lease.
FinishRetryLeased(w) ==
  /\ pc[w] = "error"
  /\ Run(w).attempts < MaxAttempts
  /\ jobs' = [jobs EXCEPT ![Run(w).job].status = "pending",
                          ![Run(w).job].next_run_at = now + Backoff * Run(w).attempts]
  /\ Sleep(w)
  /\ UNCHANGED <<config, now, turns, events, entries, document, late>>

FinishRetry(w) ==
  LET j == Run(w).job
  IN /\ pc[w] = "error"
     /\ Run(w).attempts < MaxAttempts
     /\ \A k \in DOMAIN jobs \ {j} : jobs[k].kind = jobs[j].kind => ~Active(k)
     /\ jobs' = [jobs EXCEPT ![j].status = "pending", ![j].leased_until = None,
                             ![j].next_run_at = now + Backoff * Run(w).attempts]
     /\ Sleep(w)
     /\ UNCHANGED <<config, now, turns, events, entries, document, late>>

\* A statement fails, the task panics, or the process exits and starts again: what
\* the tick held is gone, and a job it claimed keeps its lease.
Abandon(w) ==
  /\ pc[w] # "sleep"
  /\ Sleep(w)
  /\ UNCHANGED <<config, now, tables, late>>

-----------------------------------------------------------------------------

Tick(w) ==
  \/ FailStaleJobs(w) \/ EnqueueDiary(w) \/ EnqueueCompact(w)
  \/ ReadClaimable(w) \/ Claim(w)
Work(w) ==
  \/ LoadTurns(w) \/ LoadDocument(w) \/ LoadSources(w)
  \/ SaveDiaryEntry(w) \/ SaveRevision(w) \/ RunErrs(w)
Finish(w) == FinishCompleted(w) \/ FinishFailed(w) \/ FinishRetry(w)

Next ==
  \/ Advance \/ CompleteTurn \/ AppendEvent
  \/ \E t \in DOMAIN turns : CommitTurn(t)
  \/ \E e \in DOMAIN events : CommitEvent(e)
  \/ \E w \in Workers : StartTick(w) \/ Tick(w) \/ Work(w) \/ Finish(w) \/ Abandon(w)

Spec == Init /\ [][Next]_vars

-----------------------------------------------------------------------------
(* Properties *)

Labels ==
  {"sleep", "stale", "diaries", "compacts", "claim", "lock", "completed", "error"} \cup Working
Documents ==
  [events : SUBSET Nat, diaries : SUBSET Nat, event_cutoff : Nat, diary_cutoff : Nat,
   compacted_at : Nat \cup {None}]

TurnRows == [completed_at : Nat, stored : BOOLEAN]
EntryRows == [window : Nat, turns : SUBSET Nat]
JobRows ==
  [kind : {"diary", "compact"}, window : Nat \cup {None},
   status : {"pending", "running", "completed", "failed"},
   attempts : Nat, next_run_at : Nat, leased_until : Nat \cup {None}]

\* The variables hold values of their types; a job has a lease exactly while it runs,
\* and a worker has a job from its claim until it finishes or abandons it.
TypeOK ==
  /\ config \in Configs
  /\ now \in Nat
  /\ turns \in Seq(TurnRows)
  /\ events \in Seq(BOOLEAN)
  /\ entries \in Seq(EntryRows)
  /\ \A n \in DOMAIN entries : entries[n].turns \subseteq DOMAIN turns
  /\ document \in Documents
  /\ jobs \in Seq(JobRows)
  /\ \A j \in DOMAIN jobs : /\ jobs[j].window = None <=> jobs[j].kind = "compact"
                            /\ jobs[j].leased_until = None <=> jobs[j].status # "running"
  /\ late \in [turns : SUBSET DOMAIN turns, events : SUBSET DOMAIN events]
  /\ pc \in [Workers -> Labels]
  /\ tick \in [Workers -> Nat]
  /\ \A w \in Workers :
       IF pc[w] \in {"lock", "completed", "error"} \cup Working
       THEN run[w].job \in DOMAIN jobs
       ELSE run[w] = NoRun

\* A turn in a window's half-open interval.
Within(t, start) ==
  turns[t].completed_at >= start /\ turns[t].completed_at < start + config.interval

\* However workers fail, take each other's jobs over and finish them late, the diary
\* skips no turn: once the cursor is past a turn, the turn is in an entry, or in a
\* window that had more turns than an entry takes or whose job has failed or is to be
\* run again - unless it was committed after its window was made, or left behind by an
\* outage.
TurnsAreDiarised ==
  \A t \in DOMAIN turns \ late.turns :
    turns[t].stored /\ (\E end \in ProcessedEnds : turns[t].completed_at < end) =>
      \/ \E n \in DOMAIN entries :
           \/ t \in entries[n].turns
           \/ Within(t, entries[n].window) /\ Cardinality(entries[n].turns) = MaxTurns
      \/ \E j \in DiaryJobs : Within(t, jobs[j].window) /\ jobs[j].status # "completed"
      \/ turns[t].completed_at < now - config.backfill

\* The document forgets no event and no diary entry: what was committed before a
\* compaction went past it is in the document or still to be compacted.
SourcesAreFolded ==
  /\ \A e \in DOMAIN events \ late.events :
       events[e] /\ e <= document.event_cutoff => e \in document.events
  /\ \A n \in DOMAIN entries : n <= document.diary_cutoff => n \in document.diaries

\* A window belongs to one job, ended or not, and windows do not overlap: what one
\* diary entry is about, the entry of another job is not.
WindowsAreDisjoint ==
  \A i, j \in DiaryJobs : i < j => WindowEnd(i) <= jobs[j].window

=============================================================================
