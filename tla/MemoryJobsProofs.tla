-------------------------- MODULE MemoryJobsProofs --------------------------
(***************************************************************************)
(* Proofs about MemoryJobs, for any number of workers, turns, events and   *)
(* jobs, and any configuration.                                            *)
(*                                                                         *)
(* The argument: rows are only added and keep what they are about, so what *)
(* a worker read stays true while it works, whoever else works meanwhile;  *)
(* what is committed too late for that is counted as late.                 *)
(***************************************************************************)
EXTENDS MemoryJobs, SequenceTheorems, FiniteSetTheorems, WellFoundedInduction, TLAPS

\* A set of naturals has a least element.
LEMMA MinIn ==
  ASSUME NEW S \in SUBSET Nat, S # {}
  PROVE  Min(S) \in S /\ \A y \in S : Min(S) <= y
<1>1. PICK x \in S : \A y \in S : <<y, x>> \notin OpToRel(<, Nat)
  BY NatLessThanWellFounded, WFMin
<1>2. ASSUME NEW y \in S, ~(x <= y) PROVE FALSE
  <2>1. <<y, x>> \in Nat \X Nat /\ <<y, x>>[1] < <<y, x>>[2]
    BY <1>2
  <2>2. <<y, x>> \in OpToRel(<, Nat)
    BY ONLY <2>1, Zenon DEF OpToRel
  <2>3. QED  BY <2>2, <1>1
<1>3. QED  BY <1>2 DEF Min

\* A bounded one has a greatest.
LEMMA MaxIn ==
  ASSUME NEW S \in SUBSET Nat, S # {}, NEW b \in Nat, \A y \in S : y <= b
  PROVE  Max(S) \in S /\ \A y \in S : Max(S) >= y
<1> DEFINE T == {n \in Nat : b - n \in S}
<1>1. T # {}
  <2>1. PICK y \in S : TRUE  OBVIOUS
  <2>2. b - y \in Nat /\ b - (b - y) = y  BY <2>1
  <2>3. QED  BY <2>1, <2>2
<1>2. PICK n \in T : \A m \in T : n <= m
  BY <1>1, MinIn
<1>3. b - n \in S /\ \A y \in S : b - n >= y
  <2>1. ASSUME NEW y \in S PROVE b - n >= y
    <3>1. b - y \in Nat /\ b - (b - y) = y  OBVIOUS
    <3>2. n <= b - y  BY <3>1, <1>2
    <3>3. QED  BY <3>1, <3>2
  <2>2. QED  BY <2>1
<1>4. QED  BY <1>3 DEF Max


-----------------------------------------------------------------------------
(* Types *)

USE DEF DiaryJobs, WindowEnd, GoTo, Run, Set

HasJob == {"lock", "completed", "error"} \cup Working
OfDiary == {"diary", "write"}
OfCompact == {"compact", "sources", "save"}

\* What the place of a worker says of the job it runs.
RunTyped(w) ==
  /\ pc[w] \in HasJob => run[w].job \in DOMAIN jobs
  /\ pc[w] \notin HasJob => run[w] = NoRun
  /\ pc[w] \in OfDiary => jobs[run[w].job].kind = "diary"
  /\ pc[w] \in OfCompact => jobs[run[w].job].kind = "compact"
  /\ pc[w] \in {"completed", "error"} \cup Working => run[w].attempts \in Nat
  /\ pc[w] = "write" => run[w].turns \subseteq DOMAIN turns
  /\ pc[w] \in {"sources", "save"} =>
       /\ run[w].document \in Documents
       /\ run[w].document.diary_cutoff <= Len(entries)
  /\ tick[w] <= now

\* A job's kind and window go together, and its status and its lease.
JobTyped(r) ==
  /\ r \in JobRows
  /\ r.window = None <=> r.kind = "compact"
  /\ r.leased_until = None <=> r.status # "running"

TablesTyped ==
  /\ config \in Configs /\ now \in Nat
  /\ turns \in Seq(TurnRows) /\ events \in Seq(BOOLEAN)
  /\ entries \in Seq(EntryRows)
  /\ \A n \in DOMAIN entries : entries[n].turns \subseteq DOMAIN turns
  /\ document \in Documents /\ document.diary_cutoff <= Len(entries)
  /\ jobs \in Seq(JobRows)
  /\ \A j \in DOMAIN jobs : JobTyped(jobs[j])
  /\ late \in [turns : SUBSET DOMAIN turns, events : SUBSET DOMAIN events]
  /\ pc \in [Workers -> Labels] /\ tick \in [Workers -> Nat] /\ run = [v \in Workers |-> run[v]]

\* Windows lie in the past, and an entry's window is its job's.
WindowsPast == \A j \in DiaryJobs : WindowEnd(j) <= now
EntriesOfJobs ==
  \A n \in DOMAIN entries : \E j \in DiaryJobs : entries[n].window = jobs[j].window

TypeInv ==
  /\ TablesTyped
  /\ \A w \in Workers : RunTyped(w)
  /\ WindowsPast
  /\ EntriesOfJobs

LEMMA TypeInvTypes == TypeInv => TypeOK
BY Zenon DEF TypeInv, TypeOK, TablesTyped, RunTyped, JobTyped, HasJob

LEMMA InitTypes == Init => TypeInv
<1> SUFFICES ASSUME Init PROVE TypeInv  OBVIOUS
<1>1. TablesTyped
  <2>1. turns \in Seq(TurnRows) /\ events \in Seq(BOOLEAN) /\ entries \in Seq(EntryRows)
        /\ jobs \in Seq(JobRows) /\ Len(entries) = 0
    BY EmptySeq DEF Init
  <2>2. QED  BY <2>1, ConfigAssumption DEF Init, TablesTyped, NoDocument, Documents, Labels, Working
<1>2. \A w \in Workers : RunTyped(w)
  BY DEF Init, RunTyped, HasJob, Working, OfDiary, OfCompact, NoRun
<1>3. WindowsPast /\ EntriesOfJobs
  BY DEF Init, WindowsPast, EntriesOfJobs
<1>4. QED  BY <1>1, <1>2, <1>3 DEF TypeInv

-----------------------------------------------------------------------------
(* The next window *)

LEMMA MaxOfTwo ==
  ASSUME NEW x \in Int, NEW y \in Int
  PROVE  Max({x, y}) \in {x, y} /\ Max({x, y}) >= x /\ Max({x, y}) >= y
<1>1. \E z \in {x, y} : \A v \in {x, y} : z >= v
  <2>1. CASE x >= y  BY <2>1
  <2>2. CASE ~(x >= y)  BY <2>2
  <2>3. QED  BY <2>1, <2>2
<1>2. QED  BY <1>1 DEF Max

\* Rounding up and going one interval back leaves at most what there was.
LEMMA CeilBack ==
  ASSUME NEW x \in Nat, NEW y \in Nat, y > 0
  PROVE  LET k == Max({Ceil(x, y) - 1, 0}) IN k \in Nat /\ k * y \in Nat /\ k * y <= x
<1> DEFINE q == (x + y - 1) \div y
           k == Max({q - 1, 0})
<1>1. q \in Nat /\ q * y <= x + y - 1
  <2>1. x + y - 1 \in Nat  OBVIOUS
  <2>2. QED  BY <2>1
<1>2. k \in {q - 1, 0} /\ k >= q - 1 /\ k >= 0
  BY <1>1, MaxOfTwo
<1>3. k \in Nat
  BY <1>1, <1>2
<1>4. (q - 1) * y = q * y - y
  BY <1>1
<1>5. k * y <= x /\ k * y \in Nat
  <2>1. CASE k = 0  BY <2>1
  <2>2. CASE k = q - 1  BY <2>2, <1>1, <1>3, <1>4
  <2>3. QED  BY <1>2, <2>1, <2>2
<1>6. Ceil(x, y) = q
  BY DEF Ceil
<1>7. QED  BY <1>3, <1>5, <1>6

\* The rows of the tables, one by one.
LEMMA RowsTyped ==
  ASSUME TypeInv
  PROVE  /\ \A t \in DOMAIN turns :
              turns[t] \in TurnRows /\ turns[t].completed_at \in Nat /\ turns[t].stored \in BOOLEAN
         /\ \A e \in DOMAIN events : events[e] \in BOOLEAN
         /\ \A n \in DOMAIN entries : entries[n] \in EntryRows
         /\ \A j \in DOMAIN jobs : jobs[j] \in JobRows
         /\ DOMAIN turns = 1 .. Len(turns) /\ Len(turns) \in Nat
         /\ DOMAIN events = 1 .. Len(events) /\ Len(events) \in Nat
         /\ DOMAIN entries = 1 .. Len(entries) /\ Len(entries) \in Nat
         /\ DOMAIN jobs = 1 .. Len(jobs) /\ Len(jobs) \in Nat
<1>1. /\ turns \in Seq(TurnRows) /\ events \in Seq(BOOLEAN)
      /\ entries \in Seq(EntryRows) /\ jobs \in Seq(JobRows)
  BY DEF TypeInv, TablesTyped
<1>2. \A t \in DOMAIN turns : turns[t] \in TurnRows
  BY <1>1, ElementOfSeq, LenProperties
<1>3. \A t \in DOMAIN turns : turns[t].completed_at \in Nat /\ turns[t].stored \in BOOLEAN
  BY <1>2 DEF TurnRows
<1>4. QED  BY <1>1, <1>2, <1>3, ElementOfSeq, LenProperties

\* The ends of windows are naturals, none later than now.
LEMMA EndsBounded ==
  ASSUME TypeInv
  PROVE  /\ config.interval \in Nat /\ config.interval > 0 /\ config.backfill \in Nat
         /\ ProcessedEnds \subseteq Nat
         /\ \A e \in ProcessedEnds : \E j \in DiaryJobs : e = WindowEnd(j)
         /\ \A e \in ProcessedEnds : e <= now
<1>1. config.interval \in Nat /\ config.interval > 0 /\ config.backfill \in Nat
  BY ConfigAssumption DEF TypeInv, TablesTyped
<1>2. \A j \in DiaryJobs : WindowEnd(j) \in Nat
  <2>1. \A j \in DiaryJobs : JobTyped(jobs[j])
    BY DEF TypeInv, TablesTyped
  <2>2. \A j \in DiaryJobs : jobs[j].window \in Nat
    BY <2>1 DEF JobTyped, JobRows
  <2>3. QED  BY <1>1, <2>2
<1>3. \A e \in ProcessedEnds : \E j \in DiaryJobs : e = WindowEnd(j)
  BY DEF TypeInv, EntriesOfJobs, ProcessedEnds
<1>4. QED  BY <1>1, <1>2, <1>3 DEF TypeInv, WindowsPast

\* A window that is due begins at or after the end of every window that was dealt
\* with, at or before every turn that is not, and is over.
LEMMA DueWindow ==
  ASSUME TypeInv, NEW w \in Workers, NEW start \in DueDiaries(w)
  PROVE  /\ start \in Nat
         /\ start + config.interval <= now
         /\ \A e \in ProcessedEnds : e <= start
         /\ \A t \in DOMAIN turns :
              /\ turns[t].stored
              /\ turns[t].completed_at >= now - config.backfill
              /\ \A e \in ProcessedEnds : turns[t].completed_at >= e
              => start <= turns[t].completed_at
<1> DEFINE cutoff == tick[w] - config.backfill
           fresh == ProcessedEnds = {} \/ Max(ProcessedEnds) < cutoff
           cursor == Max(ProcessedEnds)
           Candidate(t) == /\ turns[t].stored
                           /\ turns[t].completed_at >= cutoff
                           /\ fresh \/ turns[t].completed_at >= cursor
           candidates == {turns[t].completed_at : t \in {u \in DOMAIN turns : Candidate(u)}}
           first == Min(candidates)
<1>1. /\ config.interval \in Nat /\ config.interval > 0 /\ config.backfill \in Nat
      /\ now \in Nat /\ tick[w] \in Nat /\ tick[w] <= now /\ cutoff \in Int
      /\ cutoff <= now - config.backfill
  BY EndsBounded DEF TypeInv, TablesTyped, RunTyped
<1>2. ProcessedEnds # {} => cursor \in ProcessedEnds /\ cursor \in Nat
                           /\ \A e \in ProcessedEnds : e <= cursor
  BY EndsBounded, MaxIn, <1>1
<1>3. \A t \in DOMAIN turns : turns[t].completed_at \in Nat
  BY RowsTyped
<1>4. /\ start \in IF candidates = {} THEN {} ELSE IF fresh THEN {first}
                    ELSE {NextInterval(cursor, first)}
      /\ start <= tick[w] - config.interval
  BY Zenon DEF DueDiaries, DiaryWindows
<1>5. candidates # {} /\ first \in candidates /\ first \in Nat /\ \A y \in candidates : first <= y
  <2>1. candidates \in SUBSET Nat  BY <1>3
  <2>2. candidates # {}  BY <1>4
  <2>3. QED  BY <2>1, <2>2, MinIn
<1>6. PICK u \in DOMAIN turns : Candidate(u) /\ first = turns[u].completed_at
  BY <1>5
<1>7. start \in Nat /\ start <= first /\ \A e \in ProcessedEnds : e <= start
  <2>1. CASE fresh
    <3>1. start = first  BY <1>4, <2>1, <1>5
    <3>2. \A e \in ProcessedEnds : e <= start
      BY <3>1, <2>1, <1>2, <1>6, <1>1, <1>5, EndsBounded
    <3>3. QED  BY <3>1, <3>2, <1>5
  <2>2. CASE ~fresh
    <3>1. cursor \in Nat /\ first - cursor \in Nat
      BY <2>2, <1>2, <1>6, <1>5
    <3>2. start = cursor + Max({Ceil(first - cursor, config.interval) - 1, 0}) * config.interval
      BY <2>2, <1>4, <1>5 DEF NextInterval
    <3>3. PICK back \in Nat : start = cursor + back /\ back <= first - cursor
      BY <3>1, <3>2, CeilBack, <1>1, Zenon
    <3>5. start \in Nat /\ start >= cursor /\ start <= first
      BY <3>1, <3>3, <1>5
    <3>4. QED  BY <3>5, <1>2, <2>2, <3>1, EndsBounded
  <2>3. QED  BY <2>1, <2>2
<1>8. start + config.interval <= now
  BY <1>1, <1>4, <1>7
<1>9. ASSUME NEW t \in DOMAIN turns, turns[t].stored,
             turns[t].completed_at >= now - config.backfill,
             \A e \in ProcessedEnds : turns[t].completed_at >= e
      PROVE  start <= turns[t].completed_at
  <2>1. turns[t].completed_at >= cutoff  BY <1>1, <1>3, <1>9
  <2>2. Candidate(t)  BY <2>1, <1>9, <1>2
  <2>3. first <= turns[t].completed_at  BY <2>2, <1>5
  <2>4. QED  BY <2>3, <1>7, <1>5, <1>3
<1>10. QED  BY <1>7, <1>8, <1>9

-----------------------------------------------------------------------------
(* What a step does to the jobs *)

\* No job is made; kinds and windows stay.
SameJobs ==
  /\ jobs' \in Seq(JobRows)
  /\ Len(jobs') = Len(jobs)
  /\ \A j \in DOMAIN jobs' : JobTyped(jobs'[j])
  /\ \A j \in DOMAIN jobs : jobs'[j].kind = jobs[j].kind /\ jobs'[j].window = jobs[j].window

\* A job is made, and none of its kind was active.
NewJob(kind, window) ==
  /\ jobs' \in Seq(JobRows)
  /\ Len(jobs') = Len(jobs) + 1
  /\ \A j \in DOMAIN jobs' : JobTyped(jobs'[j])
  /\ \A j \in DOMAIN jobs : jobs'[j] = jobs[j] /\ (jobs[j].kind = kind => ~Active(j))
  /\ LET new == jobs'[Len(jobs) + 1]
     IN new.kind = kind /\ new.window = window /\ new.status = "pending"

LEMMA UnchangedJobs == ASSUME TypeInv, jobs' = jobs PROVE SameJobs
BY DEF TypeInv, TablesTyped, SameJobs

LEMMA RewrittenJobs ==
  ASSUME TypeInv, NEW f, jobs' = f, f = [j \in DOMAIN jobs |-> f[j]],
         \A j \in DOMAIN jobs :
           JobTyped(f[j]) /\ f[j].kind = jobs[j].kind /\ f[j].window = jobs[j].window
  PROVE  SameJobs
<1>1. DOMAIN jobs = 1 .. Len(jobs) /\ Len(jobs) \in Nat
  BY RowsTyped
<1>2. f \in [1 .. Len(jobs) -> JobRows]
  BY <1>1 DEF JobTyped
<1>3. f \in Seq(JobRows)
  BY <1>1, <1>2, SeqDef
<1>4. DOMAIN f = 1 .. Len(jobs) /\ Len(f) = Len(jobs)
  BY <1>1, <1>2, <1>3, LenProperties
<1>5. QED  BY <1>1, <1>3, <1>4 DEF SameJobs

LEMMA EnqueueStep ==
  ASSUME TypeInv, NEW w \in Workers,
         NEW kind \in {"diary", "compact"}, NEW window \in Nat \cup {None},
         window = None <=> kind = "compact",
         Enqueue(w, kind, window)
  PROVE  SameJobs \/ NewJob(kind, window)
<1>1. CASE \E j \in DOMAIN jobs : jobs[j].kind = kind /\ Active(j)
  BY <1>1, UnchangedJobs DEF Enqueue
<1>2. CASE ~\E j \in DOMAIN jobs : jobs[j].kind = kind /\ Active(j)
  <2> DEFINE new == [kind |-> kind, window |-> window, status |-> "pending",
                     attempts |-> 0, next_run_at |-> tick[w], leased_until |-> None]
  <2>1. jobs' = Append(jobs, new)
    BY <1>2, Zenon DEF Enqueue
  <2>2. tick[w] \in Nat /\ jobs \in Seq(JobRows) /\ \A j \in DOMAIN jobs : JobTyped(jobs[j])
    BY DEF TypeInv, TablesTyped
  <2>3. JobTyped(new)
    BY <2>2 DEF JobTyped, JobRows
  <2>4. /\ jobs' \in Seq(JobRows) /\ Len(jobs') = Len(jobs) + 1
        /\ \A j \in 1 .. Len(jobs) : jobs'[j] = jobs[j]
        /\ jobs'[Len(jobs) + 1] = new
    BY <2>1, <2>2, <2>3, AppendProperties DEF JobTyped
  <2>5. DOMAIN jobs = 1 .. Len(jobs) /\ DOMAIN jobs' = 1 .. (Len(jobs) + 1) /\ Len(jobs) \in Nat
    BY <2>2, <2>4, LenProperties
  <2>6. \A j \in DOMAIN jobs' : JobTyped(jobs'[j])
    BY <2>2, <2>3, <2>4, <2>5
  <2>7. QED  BY <1>2, <2>4, <2>5, <2>6 DEF NewJob
<1>3. QED  BY <1>1, <1>2

LEMMA FailedRow ==
  ASSUME NEW r, JobTyped(r)
  PROVE  LET failed == [r EXCEPT !.status = "failed", !.leased_until = None]
         IN JobTyped(failed) /\ failed.kind = r.kind /\ failed.window = r.window
  BY NoneAssumption DEF JobTyped, JobRows

LEMMA JobsStep ==
  ASSUME TypeInv, Next
  PROVE  \/ SameJobs
         \/ \E w \in Workers : \E start \in DueDiaries(w) : NewJob("diary", start)
         \/ NewJob("compact", None)
<1>a. \A j \in DOMAIN jobs : JobTyped(jobs[j])
  BY DEF TypeInv, TablesTyped
<1> USE NoneAssumption
<1>1. CASE jobs' = jobs
  BY <1>1, UnchangedJobs
<1>2. ASSUME NEW w \in Workers, FailStaleJobs(w) PROVE SameJobs
  <2>1. jobs' = [j \in DOMAIN jobs |-> jobs'[j]]
    BY <1>2 DEF FailStaleJobs
  <2>2. \A j \in DOMAIN jobs :
          jobs'[j] = jobs[j]
          \/ jobs'[j] = [jobs[j] EXCEPT !.status = "failed", !.leased_until = None]
    BY <1>2 DEF FailStaleJobs
  <2>3. \A j \in DOMAIN jobs :
          JobTyped(jobs'[j]) /\ jobs'[j].kind = jobs[j].kind /\ jobs'[j].window = jobs[j].window
    <3> TAKE j \in DOMAIN jobs
    <3> DEFINE row == jobs[j]
               failed == [row EXCEPT !.status = "failed", !.leased_until = None]
    <3>1. JobTyped(row)
      BY <1>a
    <3>2. JobTyped(failed) /\ failed.kind = row.kind /\ failed.window = row.window
      BY <3>1, FailedRow
    <3>3. jobs'[j] = row \/ jobs'[j] = failed
      BY <2>2
    <3> HIDE DEF row, failed
    <3>4. JobTyped(jobs'[j]) /\ jobs'[j].kind = row.kind /\ jobs'[j].window = row.window
      BY ONLY <3>1, <3>2, <3>3
    <3> QED BY ONLY <3>4 DEF row
  <2>4. QED  BY <2>1, <2>3, RewrittenJobs
<1>3. ASSUME NEW w \in Workers, EnqueueDiary(w)
      PROVE  SameJobs \/ \E start \in DueDiaries(w) : NewJob("diary", start)
  <2>1. CASE jobs' = jobs  BY <2>1, UnchangedJobs
  <2>2. CASE \E start \in DueDiaries(w) : Enqueue(w, "diary", start)
    BY <2>2, EnqueueStep, DueWindow
  <2>3. QED  BY <1>3, <2>1, <2>2, Zenon DEF EnqueueDiary
<1>4. ASSUME NEW w \in Workers, EnqueueCompact(w)
      PROVE  SameJobs \/ NewJob("compact", None)
  <2>1. CASE jobs' = jobs  BY <2>1, UnchangedJobs
  <2>2. CASE Enqueue(w, "compact", None)  BY <2>2, EnqueueStep
  <2>3. QED  BY <1>4, <2>1, <2>2, Zenon DEF EnqueueCompact
<1>5. ASSUME NEW w \in Workers, pc[w] \in HasJob, NEW r, JobTyped(r),
             r.kind = jobs[run[w].job].kind, r.window = jobs[run[w].job].window,
             jobs' = [jobs EXCEPT ![run[w].job] = r]
      PROVE  SameJobs
  <2>1. run[w].job \in DOMAIN jobs
    BY <1>5 DEF TypeInv, RunTyped
  <2>2. jobs' = [j \in DOMAIN jobs |-> jobs'[j]]
    BY <1>5
  <2>3. \A j \in DOMAIN jobs :
          JobTyped(jobs'[j]) /\ jobs'[j].kind = jobs[j].kind /\ jobs'[j].window = jobs[j].window
    BY <1>5, <1>a, <2>1
  <2>4. QED  BY <2>2, <2>3, RewrittenJobs
<1>b. ASSUME NEW w \in Workers, pc[w] \in HasJob
      PROVE  JobTyped(jobs[run[w].job]) /\ run[w].job \in DOMAIN jobs
  BY <1>a, <1>b DEF TypeInv, RunTyped
<1>c. now \in Nat /\ tick \in [Workers -> Nat] /\ Lease \in Nat /\ Backoff \in Nat
  BY ConfigAssumption DEF TypeInv, TablesTyped
<1>6. ASSUME NEW w \in Workers, Claim(w) PROVE SameJobs
  <2> DEFINE row == jobs[run[w].job]
             r == [row EXCEPT !.status = "running", !.attempts = row.attempts + 1,
                              !.leased_until = tick[w] + Lease]
  <2>1. pc[w] \in HasJob  BY <1>6 DEF Claim, HasJob
  <2>a. row \in JobRows /\ row.attempts + 1 \in Nat /\ JobTyped(row)
    BY <1>b, <2>1 DEF JobTyped, JobRows
  <2>b. tick[w] + Lease \in Nat /\ tick[w] + Lease # None
    BY <1>c
  <2>2. JobTyped(r) /\ r.kind = row.kind /\ r.window = row.window
    BY <2>a, <2>b DEF JobTyped, JobRows
  <2>3. jobs' = [jobs EXCEPT ![run[w].job] = r]
    BY <1>6, <1>b, <2>1 DEF Claim, JobTyped, JobRows
  <2>4. QED  BY <1>5, <2>1, <2>2, <2>3
<1>7. ASSUME NEW w \in Workers, FinishCompleted(w) \/ FinishFailed(w) PROVE SameJobs
  <2> DEFINE row == jobs[run[w].job]
             r(status) == [row EXCEPT !.status = status, !.leased_until = None]
  <2>1. pc[w] \in HasJob  BY <1>7 DEF FinishCompleted, FinishFailed, HasJob
  <2>2. \A status \in {"completed", "failed"} :
          JobTyped(r(status)) /\ r(status).kind = row.kind /\ r(status).window = row.window
    BY <1>b, <2>1 DEF JobTyped, JobRows
  <2>3. \E status \in {"completed", "failed"} : jobs' = [jobs EXCEPT ![run[w].job] = r(status)]
    <3>1. CASE FinishCompleted(w)
      <4>1. jobs' = [jobs EXCEPT ![run[w].job] = r("completed")]
        BY <3>1, <1>b, <2>1 DEF FinishCompleted, JobTyped, JobRows
      <4>2. QED  BY <4>1
    <3>2. CASE FinishFailed(w)
      <4>1. jobs' = [jobs EXCEPT ![run[w].job] = r("failed")]
        BY <3>2, <1>b, <2>1 DEF FinishFailed, JobTyped, JobRows
      <4>2. QED  BY <4>1
    <3>3. QED  BY <1>7, <3>1, <3>2
  <2>4. QED  BY <1>5, <2>1, <2>2, <2>3
<1>8. ASSUME NEW w \in Workers, FinishRetry(w) PROVE SameJobs
  <2> DEFINE row == jobs[run[w].job]
             r == [row EXCEPT !.status = "pending", !.leased_until = None,
                              !.next_run_at = now + Backoff * run[w].attempts]
  <2>1. pc[w] \in HasJob  BY <1>8 DEF FinishRetry, HasJob
  <2>2. run[w].attempts \in Nat
    BY <1>8 DEF FinishRetry, TypeInv, RunTyped
  <2>3. now + Backoff * run[w].attempts \in Nat
    BY <1>c, <2>2
  <2>4. JobTyped(r) /\ r.kind = row.kind /\ r.window = row.window
    BY <1>b, <2>1, <2>3 DEF JobTyped, JobRows
  <2>5. jobs' = [jobs EXCEPT ![run[w].job] = r]
    BY <1>8, <1>b, <2>1 DEF FinishRetry, JobTyped, JobRows
  <2>6. QED  BY <1>5, <2>1, <2>4, <2>5
<1>9. QED
  BY <1>1, <1>2, <1>3, <1>4, <1>6, <1>7, <1>8
  DEF Next, Tick, Work, Finish, Advance, CompleteTurn, AppendEvent, CommitTurn, CommitEvent,
      StartTick, ReadClaimable, LoadTurns, LoadDocument, LoadSources, SaveDiaryEntry,
      SaveRevision, RunErrs, Abandon, tables

-----------------------------------------------------------------------------
(* What a step does to the other tables *)

\* Rows stay, and time does not go back.
Grows ==
  /\ config' = config
  /\ now' \in Nat /\ now <= now'
  /\ turns' \in Seq(TurnRows) /\ events' \in Seq(BOOLEAN) /\ entries' \in Seq(EntryRows)
  /\ \A t \in DOMAIN turns : t \in DOMAIN turns' /\ turns'[t].completed_at = turns[t].completed_at
  /\ \A e \in DOMAIN events : e \in DOMAIN events'
  /\ Len(entries) <= Len(entries')
  /\ \A n \in DOMAIN entries : n \in DOMAIN entries' /\ entries'[n] = entries[n]
  /\ \A j \in DOMAIN jobs : /\ j \in DOMAIN jobs'
                            /\ jobs'[j].kind = jobs[j].kind /\ jobs'[j].window = jobs[j].window

LEMMA JobsGrow ==
  ASSUME TypeInv, Next
  PROVE  /\ jobs' \in Seq(JobRows)
         /\ \A j \in DOMAIN jobs' : JobTyped(jobs'[j])
         /\ \A j \in DOMAIN jobs : /\ j \in DOMAIN jobs'
                                   /\ jobs'[j].kind = jobs[j].kind
                                   /\ jobs'[j].window = jobs[j].window
<1>1. jobs' \in Seq(JobRows) /\ Len(jobs') >= Len(jobs) /\ \A j \in DOMAIN jobs' : JobTyped(jobs'[j])
  BY JobsStep, RowsTyped DEF SameJobs, NewJob
<1>2. DOMAIN jobs' = 1 .. Len(jobs') /\ Len(jobs') \in Nat
      /\ DOMAIN jobs = 1 .. Len(jobs) /\ Len(jobs) \in Nat
  BY <1>1, RowsTyped, LenProperties
<1>3. \A j \in DOMAIN jobs : jobs'[j].kind = jobs[j].kind /\ jobs'[j].window = jobs[j].window
  BY JobsStep DEF SameJobs, NewJob
<1>4. QED  BY <1>1, <1>2, <1>3

LEMMA AppendGrows ==
  ASSUME NEW S, NEW s \in Seq(S), NEW x \in S
  PROVE  /\ Append(s, x) \in Seq(S)
         /\ Len(Append(s, x)) = Len(s) + 1
         /\ DOMAIN s = 1 .. Len(s) /\ Len(s) \in Nat
         /\ DOMAIN Append(s, x) = 1 .. (Len(s) + 1)
         /\ \A i \in DOMAIN s : i \in DOMAIN Append(s, x) /\ Append(s, x)[i] = s[i]
         /\ Append(s, x)[Len(s) + 1] = x
BY AppendProperties, LenProperties

\* The entry that a worker saves is about its job's window.
LEMMA SavedEntry ==
  ASSUME TypeInv, NEW w \in Workers, SaveDiaryEntry(w)
  PROVE  LET entry == [window |-> jobs[run[w].job].window, turns |-> run[w].turns]
         IN /\ run[w].job \in DiaryJobs
            /\ entry \in EntryRows /\ entry.turns \subseteq DOMAIN turns
            /\ entries' \in Seq(EntryRows) /\ Len(entries') = Len(entries) + 1
            /\ DOMAIN entries' = 1 .. (Len(entries) + 1)
            /\ \A n \in DOMAIN entries : n \in DOMAIN entries' /\ entries'[n] = entries[n]
            /\ entries'[Len(entries) + 1] = entry
<1> DEFINE entry == [window |-> jobs[run[w].job].window, turns |-> run[w].turns]
<1>1. run[w].job \in DiaryJobs /\ run[w].turns \subseteq DOMAIN turns
  BY DEF SaveDiaryEntry, TypeInv, RunTyped, HasJob, Working, OfDiary
<1>2. jobs[run[w].job].window \in Nat
  BY <1>1 DEF TypeInv, TablesTyped, JobTyped, JobRows
<1>3. DOMAIN turns \subseteq Nat
  BY RowsTyped
<1>4. entry \in EntryRows
  BY <1>1, <1>2, <1>3 DEF EntryRows
<1>5. entries' = Append(entries, entry) /\ entries \in Seq(EntryRows)
  BY DEF SaveDiaryEntry, TypeInv, TablesTyped
<1>6. QED  BY <1>1, <1>4, <1>5, AppendGrows

LEMMA NextGrows ==
  ASSUME TypeInv, Next
  PROVE  Grows
<1> DEFINE Rest == /\ config' = config /\ now' = now
                   /\ turns' = turns /\ events' = events /\ entries' = entries
<1>a. /\ config \in Configs /\ now \in Nat /\ turns \in Seq(TurnRows) /\ events \in Seq(BOOLEAN)
      /\ entries \in Seq(EntryRows)
  BY DEF TypeInv, TablesTyped
<1>1. CASE Rest
  BY <1>1, <1>a, JobsGrow, RowsTyped DEF Grows
<1>2. CASE Advance
  BY <1>2, <1>a, JobsGrow, RowsTyped DEF Grows, Advance, tables
<1>3. CASE CompleteTurn
  <2>1. [completed_at |-> now, stored |-> FALSE] \in TurnRows  BY <1>a DEF TurnRows
  <2>2. turns' = Append(turns, [completed_at |-> now, stored |-> FALSE])
    BY <1>3 DEF CompleteTurn
  <2>3. turns' \in Seq(TurnRows) /\ \A t \in DOMAIN turns : t \in DOMAIN turns' /\ turns'[t] = turns[t]
    <3> DEFINE row == [completed_at |-> now, stored |-> FALSE]
    <3>1. row \in TurnRows /\ turns' = Append(turns, row) /\ turns \in Seq(TurnRows)
      BY <2>1, <2>2, <1>a
    <3> HIDE DEF row
    <3>2. QED  BY <3>1, AppendGrows
  <2>4. QED  BY <1>3, <1>a, <2>3, JobsGrow, RowsTyped DEF Grows, CompleteTurn
<1>4. ASSUME NEW t \in DOMAIN turns, CommitTurn(t) PROVE Grows
  <2> DEFINE row == [turns[t] EXCEPT !.stored = TRUE]
  <2>1. row \in TurnRows /\ row.completed_at = turns[t].completed_at
    BY RowsTyped DEF TurnRows
  <2>2. turns' = [turns EXCEPT ![t] = row]
    BY <1>4 DEF CommitTurn
  <2>3. turns' \in Seq(TurnRows) /\ DOMAIN turns' = DOMAIN turns
    BY <1>a, <2>1, <2>2, ExceptSeq, RowsTyped
  <2>4. \A u \in DOMAIN turns : turns'[u].completed_at = turns[u].completed_at
    BY <2>1, <2>2
  <2>5. QED  BY <1>4, <1>a, <2>3, <2>4, JobsGrow, RowsTyped DEF Grows, CommitTurn
<1>5. CASE AppendEvent
  <2>1. events' = Append(events, FALSE)  BY <1>5 DEF AppendEvent
  <2>2. events' \in Seq(BOOLEAN) /\ \A e \in DOMAIN events : e \in DOMAIN events'
    BY <2>1, <1>a, AppendGrows
  <2>3. QED  BY <1>5, <1>a, <2>2, JobsGrow, RowsTyped DEF Grows, AppendEvent
<1>6. ASSUME NEW e \in DOMAIN events, CommitEvent(e) PROVE Grows
  <2>1. events' = [events EXCEPT ![e] = TRUE]  BY <1>6 DEF CommitEvent
  <2>2. events' \in Seq(BOOLEAN) /\ DOMAIN events' = DOMAIN events
    BY <1>a, <2>1, ExceptSeq, RowsTyped
  <2>3. QED  BY <1>6, <1>a, <2>2, JobsGrow, RowsTyped DEF Grows, CommitEvent
<1>7. ASSUME NEW w \in Workers, SaveDiaryEntry(w) PROVE Grows
  <2>1. UNCHANGED <<config, now, turns, events>>
    BY <1>7 DEF SaveDiaryEntry
  <2>2. /\ entries' \in Seq(EntryRows) /\ Len(entries') = Len(entries) + 1
        /\ \A n \in DOMAIN entries : n \in DOMAIN entries' /\ entries'[n] = entries[n]
    BY <1>7, SavedEntry
  <2>3. Len(entries) <= Len(entries')
    BY <2>2, RowsTyped
  <2>4. QED  BY <1>a, <2>1, <2>2, <2>3, JobsGrow DEF Grows
<1>8. ASSUME NEW w \in Workers, StartTick(w) \/ Tick(w) \/ Finish(w) \/ Abandon(w) PROVE Rest
  BY <1>8
  DEF Tick, Finish, FailStaleJobs, EnqueueDiary, EnqueueCompact, Claim, StartTick, ReadClaimable,
      Abandon, tables, FinishCompleted, FinishFailed, FinishRetry
<1>9. ASSUME NEW w \in Workers, Work(w) PROVE Rest \/ SaveDiaryEntry(w)
  BY <1>9 DEF Work, LoadTurns, LoadDocument, LoadSources, SaveRevision, RunErrs, tables
<1>10. ASSUME NEW w \in Workers, StartTick(w) \/ Tick(w) \/ Work(w) \/ Finish(w) \/ Abandon(w)
       PROVE  Grows
  <2> HIDE DEF Rest
  <2>1. QED  BY <1>1, <1>7, <1>8, <1>9, <1>10
<1>11. QED
  BY <1>2, <1>3, <1>4, <1>5, <1>6, <1>10 DEF Next

-----------------------------------------------------------------------------
(* The step of the type invariant *)

\* What a step of a worker does to the workers.
Controls(w) ==
  /\ \E l \in Labels : pc' = [pc EXCEPT ![w] = l]
  /\ \E n \in {tick[w], now, 0} : tick' = [tick EXCEPT ![w] = n]
  /\ run' = [run EXCEPT ![w] = run'[w]]

LEMMA WorkerStep ==
  ASSUME TypeInv, NEW w \in Workers,
         StartTick(w) \/ Tick(w) \/ Work(w) \/ Finish(w) \/ Abandon(w)
  PROVE  Controls(w)
<1>a. /\ pc \in [Workers -> Labels] /\ tick \in [Workers -> Nat] /\ run = [v \in Workers |-> run[v]]
  BY DEF TypeInv, TablesTyped
<1>b. tick = [tick EXCEPT ![w] = tick[w]]
  BY <1>a
<1>r. run = [v \in Workers |-> run[v]]
  BY DEF TypeInv, TablesTyped
<1>c. ASSUME run' = run PROVE run' = [run EXCEPT ![w] = run'[w]]
  BY <1>c, <1>r
<1>d. ASSUME NEW r, run' = [run EXCEPT ![w] = r] PROVE run' = [run EXCEPT ![w] = run'[w]]
  BY <1>a, <1>d
<1>e. ASSUME Sleep(w) PROVE Controls(w)
  BY <1>e, <1>d DEF Sleep, Controls, Labels
<1>1. CASE StartTick(w)
  BY <1>1, <1>c DEF StartTick, Controls, Labels
<1>2. CASE FailStaleJobs(w) \/ EnqueueDiary(w) \/ EnqueueCompact(w)
  <2>1. tick' = tick /\ run' = run /\ \E l \in Labels : pc' = [pc EXCEPT ![w] = l]
    BY <1>2 DEF FailStaleJobs, EnqueueDiary, EnqueueCompact, Labels
  <2>2. QED  BY <2>1, <1>b, <1>c, Zenon DEF Controls
<1>3. CASE ReadClaimable(w)
  <2>1. CASE Sleep(w)  BY <2>1, <1>e
  <2>2. CASE ~Sleep(w)
    <3>1. /\ tick' = tick /\ run' = [run EXCEPT ![w] = [job |-> First(Claimable)]]
          /\ pc' = [pc EXCEPT ![w] = "lock"]
      BY <1>3, <2>2, Zenon DEF ReadClaimable
    <3>2. "lock" \in Labels  BY DEF Labels
    <3>3. QED  BY <3>1, <3>2, <1>b, <1>d, Zenon DEF Controls
  <2>3. QED  BY <2>1, <2>2
<1>4. CASE Claim(w)
  <2>1. jobs[run[w].job].kind \in Labels
    <3>1. run[w].job \in DOMAIN jobs  BY <1>4 DEF Claim, TypeInv, RunTyped, HasJob
    <3>2. QED  BY <3>1 DEF TypeInv, TablesTyped, JobTyped, JobRows, Labels, Working
  <2>2. tick' = tick /\ pc' = [pc EXCEPT ![w] = jobs[run[w].job].kind]
    BY <1>4 DEF Claim
  <2>3. run' = [run EXCEPT ![w] = run'[w]]
    BY <1>4, <1>d, Zenon DEF Claim
  <2>4. QED  BY <2>1, <2>2, <2>3, <1>b, Zenon DEF Controls
<1>5. CASE LoadTurns(w) \/ LoadDocument(w) \/ LoadSources(w)
  <2>1. tick' = tick /\ \E l \in Labels : pc' = [pc EXCEPT ![w] = l]
    BY <1>5 DEF LoadTurns, LoadDocument, LoadSources, Labels, Working
  <2>2. run' = [run EXCEPT ![w] = run'[w]]
    BY <1>5, <1>d, Zenon DEF LoadTurns, LoadDocument, LoadSources
  <2>3. QED  BY <2>1, <2>2, <1>b, Zenon DEF Controls
<1>6. CASE SaveDiaryEntry(w) \/ SaveRevision(w) \/ RunErrs(w)
  <2>1. tick' = tick /\ run' = run /\ \E l \in Labels : pc' = [pc EXCEPT ![w] = l]
    BY <1>6 DEF SaveDiaryEntry, SaveRevision, RunErrs, Labels
  <2>2. QED  BY <2>1, <1>b, <1>c, Zenon DEF Controls
<1>7. CASE Finish(w) \/ Abandon(w)
  BY <1>7, <1>e, Zenon DEF Finish, Abandon, FinishCompleted, FinishFailed, FinishRetry
<1>8. QED  BY <1>1, <1>2, <1>3, <1>4, <1>5, <1>6, <1>7 DEF Tick, Work

LEMMA ControlStep ==
  ASSUME TypeInv, Next
  PROVE  pc' \in [Workers -> Labels] /\ tick' \in [Workers -> Nat] /\ run' = [v \in Workers |-> run'[v]]
<1>a. /\ pc \in [Workers -> Labels] /\ tick \in [Workers -> Nat] /\ run = [v \in Workers |-> run[v]]
      /\ now \in Nat
  BY DEF TypeInv, TablesTyped
<1>1. CASE UNCHANGED <<pc, tick, run>>  BY <1>a, <1>1
<1>2. ASSUME NEW w \in Workers, Controls(w)
      PROVE  pc' \in [Workers -> Labels] /\ tick' \in [Workers -> Nat] /\ run' = [v \in Workers |-> run'[v]]
  BY <1>2, <1>a DEF Controls
<1>3. ASSUME Advance \/ CompleteTurn \/ AppendEvent \/ (\E t \in DOMAIN turns : CommitTurn(t))
             \/ (\E e \in DOMAIN events : CommitEvent(e))
      PROVE  UNCHANGED <<pc, tick, run>>
  BY <1>3 DEF Advance, CompleteTurn, AppendEvent, CommitTurn, CommitEvent
<1>4. QED  BY <1>1, <1>2, <1>3, WorkerStep DEF Next

\* A document that a compaction has made, of what it read.
LEMMA FoldedDocument ==
  ASSUME TypeInv, NEW w \in Workers, LoadSources(w)
  PROVE  LET d == run[w].document
             f == run'[w].document
         IN /\ d \in Documents /\ d.diary_cutoff <= Len(entries)
            /\ f \in Documents /\ f.diary_cutoff <= Len(entries)
            /\ f.events = d.events \cup PendingEvents(d)
            /\ f.diaries = d.diaries \cup PendingDiaries(d)
            /\ run[w].job \in DOMAIN jobs /\ jobs[run[w].job].kind = "compact"
            /\ run' = [run EXCEPT ![w] = [job |-> run[w].job, attempts |-> run[w].attempts,
                                          document |-> f]]
            /\ run[w].attempts \in Nat
<1> DEFINE d == run[w].document
           new == PendingEvents(d)
           diaries == PendingDiaries(d)
           f == [events |-> d.events \cup new, diaries |-> d.diaries \cup diaries,
                 event_cutoff |-> Max(new \cup {d.event_cutoff}),
                 diary_cutoff |-> Max(diaries \cup {d.diary_cutoff}),
                 compacted_at |-> None]
<1>1. /\ d \in Documents /\ d.diary_cutoff <= Len(entries)
      /\ run[w].job \in DOMAIN jobs /\ jobs[run[w].job].kind = "compact"
      /\ run[w].attempts \in Nat
  BY DEF LoadSources, TypeInv, RunTyped, HasJob, OfCompact, Working
<1>2. new \in SUBSET Nat /\ diaries \in SUBSET Nat
      /\ (\A e \in new : e <= Len(events)) /\ \A n \in diaries : n <= Len(entries)
  BY RowsTyped DEF PendingEvents, PendingDiaries
<1>3. d.event_cutoff \in Nat /\ d.diary_cutoff \in Nat /\ d.events \in SUBSET Nat
      /\ d.diaries \in SUBSET Nat
  BY <1>1 DEF Documents
<1>4. Max(new \cup {d.event_cutoff}) \in Nat
  <2>1. new \cup {d.event_cutoff} \in SUBSET Nat /\ new \cup {d.event_cutoff} # {}
        /\ Len(events) + d.event_cutoff \in Nat
        /\ \A y \in new \cup {d.event_cutoff} : y <= Len(events) + d.event_cutoff
    BY <1>2, <1>3, RowsTyped
  <2>2. Max(new \cup {d.event_cutoff}) \in new \cup {d.event_cutoff}
    BY ONLY <2>1, MaxIn
  <2>3. QED  BY <2>1, <2>2
<1>5. Max(diaries \cup {d.diary_cutoff}) \in Nat /\ Max(diaries \cup {d.diary_cutoff}) <= Len(entries)
  <2>1. diaries \cup {d.diary_cutoff} \in SUBSET Nat /\ diaries \cup {d.diary_cutoff} # {}
        /\ Len(entries) \in Nat
        /\ \A y \in diaries \cup {d.diary_cutoff} : y <= Len(entries)
    BY <1>1, <1>2, <1>3, RowsTyped
  <2>2. Max(diaries \cup {d.diary_cutoff}) \in diaries \cup {d.diary_cutoff}
    BY ONLY <2>1, MaxIn
  <2>3. QED  BY <2>1, <2>2
<1>6. f \in Documents /\ f.diary_cutoff <= Len(entries) /\ f.events = d.events \cup new
      /\ f.diaries = d.diaries \cup diaries
  BY <1>2, <1>3, <1>4, <1>5 DEF Documents
<1>7. run' = [run EXCEPT ![w] = [job |-> run[w].job, attempts |-> run[w].attempts, document |-> f]]
  BY DEF LoadSources
<1>8. run'[w].document = f
  BY <1>7 DEF TypeInv, TablesTyped
<1>9. QED
  <2> HIDE DEF f, new, diaries
  <2>1. QED  BY <1>1, <1>6, <1>7, <1>8 DEF new, diaries

LEMMA DocumentStep ==
  ASSUME TypeInv, Next
  PROVE  document' \in Documents /\ document'.diary_cutoff <= Len(entries')
<1>1. CASE document' = document
  <2>1. document.diary_cutoff \in Nat /\ document.diary_cutoff <= Len(entries) /\ document \in Documents
    BY DEF TypeInv, TablesTyped, Documents
  <2>2. Len(entries) <= Len(entries') /\ Len(entries) \in Nat /\ Len(entries') \in Nat
    BY NextGrows, RowsTyped, LenProperties DEF Grows
  <2>3. QED  BY <1>1, <2>1, <2>2
<1>2. ASSUME NEW w \in Workers, SaveRevision(w)
      PROVE  document' \in Documents /\ document'.diary_cutoff <= Len(entries')
  <2>1. run[w].document \in Documents /\ run[w].document.diary_cutoff <= Len(entries) /\ now \in Nat
    BY <1>2 DEF SaveRevision, TypeInv, RunTyped, TablesTyped
  <2>2. QED  BY <1>2, <2>1 DEF SaveRevision, Documents
<1>3. QED
  BY <1>1, <1>2
  DEF Next, Tick, Work, Finish, FailStaleJobs, EnqueueDiary, EnqueueCompact, Claim,
      StartTick, ReadClaimable, LoadTurns, LoadDocument, LoadSources, SaveDiaryEntry,
      RunErrs, Abandon, tables, FinishCompleted, FinishFailed, FinishRetry,
      Advance, CompleteTurn, AppendEvent, CommitTurn, CommitEvent

LEMMA LateStep ==
  ASSUME TypeInv, Next
  PROVE  /\ late' \in [turns : SUBSET DOMAIN turns', events : SUBSET DOMAIN events']
         /\ late.turns \subseteq late'.turns /\ late.events \subseteq late'.events
<1>a. /\ late \in [turns : SUBSET DOMAIN turns, events : SUBSET DOMAIN events]
      /\ DOMAIN turns \subseteq DOMAIN turns' /\ DOMAIN events \subseteq DOMAIN events'
  BY NextGrows DEF Grows, TypeInv, TablesTyped
<1>1. CASE late' = late  BY <1>1, <1>a
<1>2. ASSUME NEW t \in DOMAIN turns, CommitTurn(t)
      PROVE  late' = [late EXCEPT !.turns = late.turns] \/ late' = [late EXCEPT !.turns = late.turns \cup {t}]
  BY <1>2 DEF CommitTurn
<1>3. ASSUME NEW e \in DOMAIN events, CommitEvent(e)
      PROVE  late' = [late EXCEPT !.events = late.events] \/ late' = [late EXCEPT !.events = late.events \cup {e}]
  BY <1>3 DEF CommitEvent
<1>4. CASE late' # late
  <2>1. (\E t \in DOMAIN turns : CommitTurn(t)) \/ \E e \in DOMAIN events : CommitEvent(e)
    BY <1>4
    DEF Next, Tick, Work, Finish, FailStaleJobs, EnqueueDiary, EnqueueCompact, Claim,
        StartTick, ReadClaimable, LoadTurns, LoadDocument, LoadSources, SaveDiaryEntry,
        RunErrs, Abandon, tables, FinishCompleted, FinishFailed, FinishRetry, SaveRevision,
        Advance, CompleteTurn, AppendEvent
  <2>2. QED  BY <2>1, <1>2, <1>3, <1>a
<1>5. QED  BY <1>1, <1>4

LEMMA TablesStep ==
  ASSUME TypeInv, Next
  PROVE  TablesTyped'
<1>1. config \in Configs
  BY DEF TypeInv, TablesTyped
<1>2. \A n \in DOMAIN entries' : entries'[n].turns \subseteq DOMAIN turns'
  <2>1. \A n \in DOMAIN entries : entries'[n].turns \subseteq DOMAIN turns'
    BY NextGrows DEF Grows, TypeInv, TablesTyped
  <2>2. CASE entries' = entries  BY <2>1, <2>2
  <2>3. ASSUME NEW w \in Workers, SaveDiaryEntry(w)
        PROVE  \A n \in DOMAIN entries' : entries'[n].turns \subseteq DOMAIN turns'
    <3>1. entries'[Len(entries) + 1].turns \subseteq DOMAIN turns
      BY <2>3, SavedEntry
    <3>2. \A n \in DOMAIN entries' : n \in DOMAIN entries \/ n = Len(entries) + 1
      <4>1. DOMAIN entries' = 1 .. (Len(entries) + 1)  BY <2>3, SavedEntry
      <4>2. DOMAIN entries = 1 .. Len(entries) /\ Len(entries) \in Nat  BY RowsTyped
      <4>3. QED  BY ONLY <4>1, <4>2
    <3>3. QED  BY <2>1, <3>1, <3>2, NextGrows DEF Grows
  <2>4. entries' # entries => \E w \in Workers : SaveDiaryEntry(w)
    BY DEF Next, Tick, Work, Finish, FailStaleJobs, EnqueueDiary, EnqueueCompact, Claim,
        StartTick, ReadClaimable, LoadTurns, LoadDocument, LoadSources,
        RunErrs, Abandon, tables, FinishCompleted, FinishFailed, FinishRetry, SaveRevision,
        Advance, CompleteTurn, AppendEvent, CommitTurn, CommitEvent
  <2>5. QED  BY <2>2, <2>3, <2>4
<1>3. QED
  BY <1>1, <1>2, NextGrows, JobsGrow, LateStep, ControlStep, DocumentStep, Zenon
  DEF TablesTyped, Grows

\* A worker that does not move keeps its job's type.
LEMMA OtherTyped ==
  ASSUME TypeInv, Next, NEW v \in Workers,
         pc'[v] = pc[v], run'[v] = run[v], tick'[v] = tick[v]
  PROVE  RunTyped(v)'
<1>1. RunTyped(v) /\ tick[v] \in Nat /\ now \in Nat /\ now' \in Nat /\ now <= now'
  BY NextGrows DEF TypeInv, TablesTyped, Grows
<1>2. tick'[v] <= now'  BY <1>1 DEF RunTyped
<1>3. pc[v] \in HasJob => /\ run'[v].job \in DOMAIN jobs'
                          /\ jobs'[run'[v].job].kind = jobs[run[v].job].kind
  BY <1>1, NextGrows DEF RunTyped, Grows
<1>4. \A d \in Documents : d.diary_cutoff <= Len(entries) => d.diary_cutoff <= Len(entries')
  <2>1. Len(entries) <= Len(entries') /\ Len(entries) \in Nat /\ Len(entries') \in Nat
    BY NextGrows, RowsTyped, LenProperties DEF Grows
  <2>2. QED  BY <2>1 DEF Documents
<1>5. DOMAIN turns \subseteq DOMAIN turns'
  BY NextGrows DEF Grows
<1>6. OfDiary \subseteq HasJob /\ OfCompact \subseteq HasJob
  BY DEF OfDiary, OfCompact, HasJob, Working
<1>7. QED  BY <1>1, <1>2, <1>3, <1>4, <1>5, <1>6 DEF RunTyped

\* There is a first among the jobs that may be claimed.
LEMMA FirstExists ==
  ASSUME TypeInv, Claimable # {}
  PROVE  \E j \in Claimable : \A k \in Claimable :
           jobs[j].next_run_at < jobs[k].next_run_at
           \/ (jobs[j].next_run_at = jobs[k].next_run_at /\ j <= k)
<1>1. \A j \in Claimable : j \in Nat /\ jobs[j].next_run_at \in Nat
  <2>1. \A j \in DOMAIN jobs : JobTyped(jobs[j])  BY DEF TypeInv, TablesTyped
  <2>2. Claimable \subseteq DOMAIN jobs  BY DEF Claimable
  <2>3. QED  BY <2>1, <2>2, RowsTyped DEF JobTyped, JobRows
<1> DEFINE Times == {jobs[j].next_run_at : j \in Claimable}
           soonest == Min(Times)
           Soon == {j \in Claimable : jobs[j].next_run_at = soonest}
<1>2. Times \in SUBSET Nat /\ Times # {}
  BY <1>1
<1>3. soonest \in Times /\ \A n \in Times : soonest <= n
  BY ONLY <1>2, MinIn
<1>4. Soon \in SUBSET Nat /\ Soon # {}
  BY <1>1, <1>3
<1>5. Min(Soon) \in Soon /\ \A k \in Soon : Min(Soon) <= k
  BY ONLY <1>4, MinIn
<1>6. ASSUME NEW k \in Claimable
      PROVE  jobs[Min(Soon)].next_run_at < jobs[k].next_run_at
             \/ (jobs[Min(Soon)].next_run_at = jobs[k].next_run_at /\ Min(Soon) <= k)
  <2>1. jobs[k].next_run_at \in Nat /\ jobs[k].next_run_at \in Times /\ soonest <= jobs[k].next_run_at
        /\ soonest \in Nat
    BY <1>1, <1>2, <1>3
  <2>2. jobs[Min(Soon)].next_run_at = soonest  BY <1>5
  <2>3. CASE jobs[k].next_run_at = soonest
    <3>1. k \in Soon  BY <2>3
    <3>2. QED  BY <3>1, <2>2, <2>3, <1>5
  <2>4. CASE soonest < jobs[k].next_run_at
    BY <2>2, <2>4
  <2>5. QED  BY ONLY <2>1, <2>3, <2>4
<1>7. QED  BY <1>5, <1>6

\* A job that a step makes is the last one; a diary job's window was due.
LEMMA NewJobIs ==
  ASSUME TypeInv, Next, NEW j \in DOMAIN jobs', j \notin DOMAIN jobs
  PROVE  /\ j = Len(jobs) + 1
         /\ jobs'[j].kind = "diary" =>
              \E w \in Workers : \E start \in DueDiaries(w) : NewJob("diary", start)
         /\ \A start : NewJob("diary", start) =>
              jobs'[j].kind = "diary" /\ jobs'[j].window = start /\ jobs'[j].status = "pending"
<1>1. DOMAIN jobs = 1 .. Len(jobs) /\ Len(jobs) \in Nat
  BY RowsTyped
<1>2. jobs' \in Seq(JobRows) /\ DOMAIN jobs' = 1 .. Len(jobs') /\ Len(jobs') \in Nat
  BY JobsGrow, LenProperties
<1>3. ~SameJobs
  BY <1>1, <1>2 DEF SameJobs
<1>4. Len(jobs') = Len(jobs) + 1
  BY <1>3, JobsStep DEF NewJob
<1>5. j = Len(jobs) + 1
  BY ONLY <1>1, <1>2, <1>4, j \in DOMAIN jobs', j \notin DOMAIN jobs
<1>6. jobs'[j].kind = "diary" => ~NewJob("compact", None)
  BY <1>5 DEF NewJob
<1>7. QED  BY <1>3, <1>5, <1>6, JobsStep DEF NewJob

\* The worker that moves.
LEMMA MoverTyped ==
  ASSUME TypeInv, Next, NEW w \in Workers,
         StartTick(w) \/ Tick(w) \/ Work(w) \/ Finish(w) \/ Abandon(w)
  PROVE  RunTyped(w)'
<1>a. /\ pc \in [Workers -> Labels] /\ tick \in [Workers -> Nat] /\ run = [v \in Workers |-> run[v]]
      /\ now \in Nat
  BY DEF TypeInv, TablesTyped
<1>b. RunTyped(w)  BY DEF TypeInv
<1>g. now <= now' /\ now' \in Nat /\ \A j \in DOMAIN jobs : j \in DOMAIN jobs' /\ jobs'[j].kind = jobs[j].kind
  BY NextGrows DEF Grows
<1>t. tick'[w] \in Nat /\ tick'[w] <= now'
  BY WorkerStep, <1>a, <1>b, <1>g DEF Controls, RunTyped
<1>n. ASSUME pc'[w] \notin HasJob, run'[w] = NoRun PROVE RunTyped(w)'
  BY <1>n, <1>t DEF RunTyped, HasJob, Working, OfDiary, OfCompact
<1>e. ASSUME Sleep(w) PROVE RunTyped(w)'
  <2>1. pc'[w] = "sleep" /\ run'[w] = NoRun  BY <1>e, <1>a DEF Sleep
  <2>2. QED  BY <1>n, <2>1 DEF HasJob, Working
<1>f. ASSUME pc[w] \in {"completed", "error"} \cup Working, run'[w] = run[w],
             pc'[w] \in {"completed", "error"}
      PROVE  RunTyped(w)'
  BY <1>f, <1>b, <1>g, <1>t DEF RunTyped, HasJob, Working, OfDiary, OfCompact
<1>1. CASE StartTick(w) \/ FailStaleJobs(w) \/ EnqueueDiary(w) \/ EnqueueCompact(w)
  <2>1. pc[w] \notin HasJob /\ pc'[w] \notin HasJob /\ run' = run
    BY <1>1, <1>a
    DEF StartTick, FailStaleJobs, EnqueueDiary, EnqueueCompact, HasJob, Working
  <2>2. QED  BY <1>n, <1>b, <2>1 DEF RunTyped
<1>2. CASE ReadClaimable(w)
  <2>1. CASE Sleep(w)  BY <2>1, <1>e
  <2>2. CASE ~Sleep(w)
    <3>1. Claimable # {} /\ run'[w] = [job |-> First(Claimable)] /\ pc'[w] = "lock"
      BY <1>2, <2>2, <1>a DEF ReadClaimable
    <3>2. First(Claimable) \in DOMAIN jobs
      <4>1. \E j \in Claimable : \A k \in Claimable :
              jobs[j].next_run_at < jobs[k].next_run_at
              \/ (jobs[j].next_run_at = jobs[k].next_run_at /\ j <= k)
        BY <3>1, FirstExists
      <4>2. First(Claimable) \in Claimable  BY <4>1 DEF First
      <4>3. QED  BY <4>2 DEF Claimable
    <3>3. QED  BY <3>1, <3>2, <1>g, <1>t DEF RunTyped, HasJob, Working, OfDiary, OfCompact
  <2>3. QED  BY <2>1, <2>2
<1>3. CASE Claim(w)
  <2> DEFINE j == run[w].job
  <2>1. j \in DOMAIN jobs  BY <1>3, <1>b DEF Claim, RunTyped, HasJob
  <2>2. jobs[j].kind \in {"diary", "compact"} /\ jobs[j].attempts \in Nat
    BY <2>1 DEF TypeInv, TablesTyped, JobTyped, JobRows
  <2>3. pc'[w] = jobs[j].kind /\ run'[w].job = j /\ run'[w].attempts = jobs[j].attempts + 1
    BY <1>3, <1>a DEF Claim
  <2>4. QED  BY <2>1, <2>2, <2>3, <1>g, <1>t DEF RunTyped, HasJob, Working, OfDiary, OfCompact
<1>4. CASE LoadTurns(w)
  <2>1. PICK S \in SUBSET (DOMAIN turns) :
          /\ run' = [run EXCEPT ![w] = [job |-> run[w].job, attempts |-> run[w].attempts, turns |-> S]]
          /\ pc' = [pc EXCEPT ![w] = IF S = {} THEN "completed" ELSE "write"]
    BY <1>4 DEF LoadTurns
  <2>2. /\ run'[w].job = run[w].job /\ run'[w].attempts = run[w].attempts /\ run'[w].turns = S
        /\ pc'[w] \in {"completed", "write"}
    BY <2>1, <1>a
  <2>3. pc[w] = "diary" /\ turns' = turns  BY <1>4 DEF LoadTurns, tables
  <2>4. QED  BY <2>2, <2>3, <1>b, <1>g, <1>t DEF RunTyped, HasJob, Working, OfDiary, OfCompact
<1>5. CASE LoadDocument(w)
  <2>1. /\ run'[w].job = run[w].job /\ run'[w].attempts = run[w].attempts
        /\ run'[w].document = document /\ pc'[w] = "sources" /\ pc[w] = "compact"
        /\ entries' = entries
    BY <1>5, <1>a DEF LoadDocument, tables
  <2>2. document \in Documents /\ document.diary_cutoff <= Len(entries)
    BY DEF TypeInv, TablesTyped
  <2>3. QED  BY <2>1, <2>2, <1>b, <1>g, <1>t DEF RunTyped, HasJob, Working, OfDiary, OfCompact
<1>6. CASE LoadSources(w)
  <2>1. pc'[w] \in {"completed", "save"} /\ entries' = entries
    BY <1>6, <1>a DEF LoadSources, tables
  <2>2. /\ run[w].job \in DOMAIN jobs /\ jobs[run[w].job].kind = "compact"
        /\ run[w].attempts \in Nat /\ run'[w].document \in Documents
        /\ run'[w].document.diary_cutoff <= Len(entries)
        /\ run'[w].job = run[w].job /\ run'[w].attempts = run[w].attempts
    BY <1>6, <1>a, FoldedDocument
  <2>3. QED  BY <2>1, <2>2, <1>g, <1>t DEF RunTyped, HasJob, Working, OfDiary, OfCompact
<1>7. CASE SaveDiaryEntry(w) \/ SaveRevision(w) \/ RunErrs(w)
  <2>1. pc[w] \in Working /\ run' = run /\ pc'[w] \in {"completed", "error"}
    BY <1>7, <1>a DEF SaveDiaryEntry, SaveRevision, RunErrs, Working
  <2>2. QED  BY <2>1, <1>f
<1>8. CASE Finish(w) \/ Abandon(w)
  BY <1>8, <1>e, Zenon DEF Finish, Abandon, FinishCompleted, FinishFailed, FinishRetry
<1>9. QED  BY <1>1, <1>2, <1>3, <1>4, <1>5, <1>6, <1>7, <1>8 DEF Tick, Work

LEMMA WindowsStep == ASSUME TypeInv, Next PROVE WindowsPast'
<1>1. config' = config /\ now <= now' /\ now \in Nat /\ now' \in Nat
  BY NextGrows DEF Grows, TypeInv, TablesTyped
<1>2. \A j \in DiaryJobs : WindowEnd(j) <= now /\ WindowEnd(j) \in Nat
  <2>1. \A j \in DiaryJobs : jobs[j].window \in Nat
    BY DEF TypeInv, TablesTyped, JobTyped, JobRows
  <2>2. QED  BY <2>1, EndsBounded DEF TypeInv, WindowsPast
<1>3. ASSUME NEW j \in DOMAIN jobs', jobs'[j].kind = "diary"
      PROVE  jobs'[j].window + config'.interval <= now'
  <2>1. CASE j \in DOMAIN jobs
    <3>1. j \in DiaryJobs /\ jobs'[j].window = jobs[j].window
      BY <1>3, <2>1, NextGrows DEF Grows
    <3>2. QED  BY <3>1, <1>1, <1>2
  <2>2. CASE j \notin DOMAIN jobs
    <3>1. PICK w \in Workers : \E start \in DueDiaries(w) : NewJob("diary", start)
      BY NewJobIs, <1>3, <2>2
    <3>2. PICK start \in DueDiaries(w) : NewJob("diary", start)  BY <3>1
    <3>3. jobs'[j].window = start
      BY <3>2, <2>2, NewJobIs, <1>3
    <3>4. start + config.interval <= now /\ start \in Nat  BY DueWindow
    <3>5. QED  BY <3>3, <3>4, <1>1, EndsBounded
  <2>3. QED  BY <2>1, <2>2
<1>4. QED  BY <1>3 DEF WindowsPast

LEMMA EntriesStep == ASSUME TypeInv, Next PROVE EntriesOfJobs'
<1>1. ASSUME NEW n \in DOMAIN entries
      PROVE  \E j \in DiaryJobs' : entries'[n].window = jobs'[j].window
  <2>1. PICK j \in DiaryJobs : entries[n].window = jobs[j].window
    BY DEF TypeInv, EntriesOfJobs
  <2>2. QED  BY <2>1, NextGrows DEF Grows
<1>2. CASE entries' = entries  BY <1>1, <1>2 DEF EntriesOfJobs
<1>3. ASSUME NEW w \in Workers, SaveDiaryEntry(w), NEW n \in DOMAIN entries', n \notin DOMAIN entries
      PROVE  \E j \in DiaryJobs' : entries'[n].window = jobs'[j].window
  <2>1. n = Len(entries) + 1
    <3>1. DOMAIN entries' = 1 .. (Len(entries) + 1)  BY <1>3, SavedEntry
    <3>2. DOMAIN entries = 1 .. Len(entries) /\ Len(entries) \in Nat  BY RowsTyped
    <3>3. QED  BY ONLY <3>1, <3>2, <1>3
  <2> DEFINE entry == [window |-> jobs[run[w].job].window, turns |-> run[w].turns]
  <2>2. run[w].job \in DiaryJobs /\ entries'[n] = entry
    BY <1>3, <2>1, SavedEntry, Zenon
  <2>3. run[w].job \in DiaryJobs' /\ jobs'[run[w].job].window = jobs[run[w].job].window
    BY <2>2, NextGrows DEF Grows
  <2>4. entries'[n].window = jobs[run[w].job].window
    BY ONLY <2>2
  <2>5. QED  BY ONLY <2>3, <2>4
<1>4. entries' # entries => \E w \in Workers : SaveDiaryEntry(w)
  BY DEF Next, Tick, Work, Finish, FailStaleJobs, EnqueueDiary, EnqueueCompact, Claim,
      StartTick, ReadClaimable, LoadTurns, LoadDocument, LoadSources,
      RunErrs, Abandon, tables, FinishCompleted, FinishFailed, FinishRetry, SaveRevision,
      Advance, CompleteTurn, AppendEvent, CommitTurn, CommitEvent
<1>5. QED  BY <1>1, <1>2, <1>3, <1>4 DEF EntriesOfJobs

LEMMA TypeStep == TypeInv /\ [Next]_vars => TypeInv'
<1>1. CASE UNCHANGED vars
  BY <1>1
  DEF vars, tables, TypeInv, TablesTyped, RunTyped, WindowsPast, EntriesOfJobs, Documents, EntryRows
<1>2. ASSUME TypeInv, Next PROVE TypeInv'
  <2>1. ASSUME NEW v \in Workers PROVE RunTyped(v)'
    <3>1. CASE UNCHANGED <<pc, tick, run>>  BY <3>1, <1>2, OtherTyped
    <3>2. ASSUME NEW w \in Workers, StartTick(w) \/ Tick(w) \/ Work(w) \/ Finish(w) \/ Abandon(w)
          PROVE  RunTyped(v)'
      <4>1. CASE v = w  BY <4>1, <1>2, <3>2, MoverTyped
      <4>2. CASE v # w
        <5>1. pc'[v] = pc[v] /\ run'[v] = run[v] /\ tick'[v] = tick[v]
          BY <1>2, <3>2, <4>2, WorkerStep DEF Controls, TypeInv, TablesTyped
        <5>2. QED  BY <5>1, <1>2, OtherTyped
      <4>3. QED  BY <4>1, <4>2
    <3>3. ASSUME Advance \/ CompleteTurn \/ AppendEvent \/ (\E t \in DOMAIN turns : CommitTurn(t))
                 \/ (\E e \in DOMAIN events : CommitEvent(e))
          PROVE  UNCHANGED <<pc, tick, run>>
      BY <3>3 DEF Advance, CompleteTurn, AppendEvent, CommitTurn, CommitEvent
    <3>4. QED  BY <1>2, <3>1, <3>2, <3>3 DEF Next
  <2>2. QED  BY <1>2, <2>1, TablesStep, WindowsStep, EntriesStep DEF TypeInv
<1>3. QED  BY <1>1, <1>2

\* The strengthened type invariant: a worker's place fits the job it runs, windows lie
\* in the past, and every entry is about the window of a job.
THEOREM TypeInvHolds == Spec => []TypeInv
<1>1. QED  BY InitTypes, TypeStep, PTL DEF Spec

\* The types of MemoryJobs.
THEOREM TypesHold == Spec => []TypeOK
<1>1. QED  BY TypeInvHolds, TypeInvTypes, PTL

-----------------------------------------------------------------------------
(* Windows: a job is made only when every earlier diary job has ended, and *)
(* then its window begins at or after the end of theirs.                   *)

LEMMA NewWindowIsLater ==
  ASSUME TypeInv, NEW w \in Workers, NEW start \in DueDiaries(w), NewJob("diary", start),
         NEW i \in DiaryJobs
  PROVE  WindowEnd(i) <= start
<1>1. ~Active(i) /\ JobTyped(jobs[i])
  BY DEF NewJob, TypeInv, TablesTyped
<1>2. Terminal(i)
  BY <1>1 DEF Active, Terminal, JobTyped, JobRows
<1>3. WindowEnd(i) \in ProcessedEnds
  BY <1>2 DEF ProcessedEnds
<1>4. QED  BY <1>3, DueWindow

LEMMA DisjointStep == TypeInv /\ WindowsAreDisjoint /\ [Next]_vars => WindowsAreDisjoint'
<1>1. CASE UNCHANGED vars
  BY <1>1 DEF vars, tables, WindowsAreDisjoint
<1>2. ASSUME TypeInv, WindowsAreDisjoint, Next,
             NEW i \in DiaryJobs', NEW j \in DiaryJobs', i < j
      PROVE  WindowEnd(i)' <= jobs'[j].window
  <2>g. /\ \A k \in DOMAIN jobs : jobs'[k].kind = jobs[k].kind /\ jobs'[k].window = jobs[k].window
        /\ config' = config
    BY <1>2, NextGrows DEF Grows
  <2>1. CASE j \in DOMAIN jobs
    <3>1. i \in DOMAIN jobs
      <4>1. DOMAIN jobs = 1 .. Len(jobs) /\ DOMAIN jobs' = 1 .. Len(jobs')
            /\ Len(jobs) \in Nat /\ Len(jobs') \in Nat
        BY <1>2, RowsTyped, JobsGrow, LenProperties
      <4>2. QED  BY <1>2, <2>1, <4>1
    <3>2. i \in DiaryJobs /\ j \in DiaryJobs
      BY <1>2, <2>1, <2>g, <3>1
    <3>3. WindowEnd(i) <= jobs[j].window
      BY <1>2, <3>2 DEF WindowsAreDisjoint
    <3>4. QED  BY <2>1, <2>g, <3>1, <3>3
  <2>2. CASE j \notin DOMAIN jobs
    <3>1. PICK w \in Workers : \E start \in DueDiaries(w) : NewJob("diary", start)
      BY <1>2, <2>2, NewJobIs
    <3>a. PICK start \in DueDiaries(w) : NewJob("diary", start)
      BY <3>1
    <3>2. jobs'[j].window = start
      BY <1>2, <2>2, <3>a, NewJobIs
    <3>3. i \in DOMAIN jobs
      <4>1. j = Len(jobs) + 1  BY <1>2, <2>2, NewJobIs
      <4>2. i \notin DOMAIN jobs => i = Len(jobs) + 1  BY <1>2, NewJobIs
      <4>3. Len(jobs) \in Nat  BY <1>2, RowsTyped
      <4>4. QED  BY <1>2, <4>1, <4>2, <4>3
    <3>4. i \in DiaryJobs  BY <1>2, <2>g, <3>3
    <3>5. WindowEnd(i) <= start  BY <1>2, <3>a, <3>4, NewWindowIsLater
    <3>6. QED  BY <2>g, <3>2, <3>3, <3>5
  <2>3. QED  BY <2>1, <2>2
<1>3. ASSUME TypeInv, WindowsAreDisjoint, Next PROVE WindowsAreDisjoint'
  BY <1>2, <1>3 DEF WindowsAreDisjoint
<1>4. QED  BY <1>1, <1>3

\* The windows of diary jobs do not overlap, however many workers enqueue.
THEOREM WindowsAreDisjointHolds == Spec => []WindowsAreDisjoint
<1>1. Init => WindowsAreDisjoint
  BY DEF Init, WindowsAreDisjoint
<1>2. QED  BY <1>1, DisjointStep, TypeInvHolds, PTL DEF Spec

-----------------------------------------------------------------------------
(* Documents: the one that is stored and those that compactions have read   *)
(* or made hold every event and entry up to their cutoffs.                  *)

EventsIn(d) == \A e \in DOMAIN events \ late.events :
  events[e] /\ e <= d.event_cutoff => e \in d.events
DiariesIn(d) == \A n \in DOMAIN entries : n <= d.diary_cutoff => n \in d.diaries

FoldInv ==
  /\ EventsIn(document) /\ DiariesIn(document)
  /\ \A w \in Workers : pc[w] \in {"sources", "save"} =>
       EventsIn(run[w].document) /\ DiariesIn(run[w].document)

\* The same of a document that is held in the next state.
Keeps(d) ==
  /\ \A e \in DOMAIN events' \ late'.events : events'[e] /\ e <= d.event_cutoff => e \in d.events
  /\ \A n \in DOMAIN entries' : n <= d.diary_cutoff => n \in d.diaries

\* A document whose cutoffs are known loses nothing to a step.
LEMMA FoldStays ==
  ASSUME TypeInv, Next, NEW d \in Documents, d.diary_cutoff <= Len(entries),
         d = document \/ \E w \in Workers : pc[w] \in {"sources", "save"} /\ run[w].document = d,
         EventsIn(d), DiariesIn(d)
  PROVE  Keeps(d)
<1>1. ASSUME NEW e \in DOMAIN events' \ late'.events, events'[e], e <= d.event_cutoff
      PROVE  e \in d.events
  <2>1. CASE e \in DOMAIN events /\ events[e]
    <3>1. e \notin late.events  BY <1>1, LateStep
    <3>2. QED  BY <1>1, <2>1, <3>1 DEF EventsIn
  <2>2. CASE e \in DOMAIN events /\ ~events[e]
    <3>1. \E f \in DOMAIN events : CommitEvent(f)
      <4>1. events' # events /\ ~AppendEvent
        <5>1. ASSUME AppendEvent PROVE events'[e] = events[e]
          <6>1. events' = Append(events, FALSE) /\ events \in Seq(BOOLEAN)
            BY <5>1 DEF AppendEvent, TypeInv, TablesTyped
          <6>2. \A i \in DOMAIN events : Append(events, FALSE)[i] = events[i]
            <7> DEFINE S == BOOLEAN
                       x == FALSE
            <7>1. events \in Seq(S) /\ x \in S  BY <6>1
            <7> HIDE DEF S, x
            <7>2. \A i \in DOMAIN events : Append(events, x)[i] = events[i]
              BY <7>1, AppendGrows
            <7>3. QED  BY <7>2, Zenon DEF x
          <6>3. QED  BY <2>2, <6>1, <6>2, Zenon
        <5>2. QED  BY <5>1, <1>1, <2>2
      <4>2. ASSUME NEW w \in Workers, StartTick(w) \/ Tick(w) \/ Work(w) \/ Finish(w) \/ Abandon(w)
            PROVE  events' = events
        <5>1. CASE StartTick(w) \/ Tick(w) \/ Abandon(w)
          BY <5>1 DEF StartTick, Tick, FailStaleJobs, EnqueueDiary, EnqueueCompact, ReadClaimable,
                      Claim, Abandon, tables
        <5>2. CASE Work(w)
          BY <5>2 DEF Work, LoadTurns, LoadDocument, LoadSources, SaveDiaryEntry, SaveRevision,
                      RunErrs, tables
        <5>3. CASE Finish(w)
          BY <5>3 DEF Finish, FinishCompleted, FinishFailed, FinishRetry, tables
        <5> QED BY <4>2, <5>1, <5>2, <5>3
      <4>3. ASSUME Advance \/ CompleteTurn \/ \E t \in DOMAIN turns : CommitTurn(t)
            PROVE  events' = events
        BY <4>3 DEF Advance, CompleteTurn, CommitTurn, tables
      <4>4. QED  BY <4>1, <4>2, <4>3 DEF Next
    <3>2. CommitEvent(e)
      BY <3>1, <1>1, <2>2 DEF CommitEvent
    <3>3. d.event_cutoff \in EventCutoffs
      BY DEF EventCutoffs
    <3>4. e \in late'.events
      BY <1>1, <3>2, <3>3 DEF CommitEvent, TypeInv, TablesTyped
    <3>5. QED  BY <1>1, <3>4
  <2>3. CASE e \notin DOMAIN events
    <3>1. AppendEvent
      <4>1. DOMAIN events' # DOMAIN events  BY <1>1, <2>3
      <4>2. \A f \in DOMAIN events : CommitEvent(f) => DOMAIN events' = DOMAIN events
        BY DEF CommitEvent
      <4>3. QED
        BY <4>1, <4>2
        DEF Next, Tick, Work, Finish, FailStaleJobs, EnqueueDiary, EnqueueCompact, Claim,
            StartTick, ReadClaimable, LoadTurns, LoadDocument, LoadSources, SaveDiaryEntry,
            RunErrs, Abandon, tables, FinishCompleted, FinishFailed, FinishRetry, SaveRevision,
            Advance, CompleteTurn, CommitTurn
    <3>2. events' = Append(events, FALSE) /\ events \in Seq(BOOLEAN)
      BY <3>1 DEF AppendEvent, TypeInv, TablesTyped
    <3>3. DOMAIN events' = 1 .. (Len(events) + 1) /\ DOMAIN events = 1 .. Len(events)
          /\ Len(events) \in Nat /\ events'[Len(events) + 1] = FALSE
      BY <3>2, AppendGrows
    <3>4. e = Len(events) + 1
      BY ONLY <3>3, <2>3, <1>1
    <3>5. QED  BY <1>1, <3>3, <3>4
  <2>4. QED  BY <2>1, <2>2, <2>3
<1>2. ASSUME NEW n \in DOMAIN entries', n <= d.diary_cutoff
      PROVE  n \in d.diaries
  <2>1. DOMAIN entries = 1 .. Len(entries) /\ Len(entries) \in Nat /\ d.diary_cutoff \in Nat
    BY RowsTyped DEF Documents
  <2>2. DOMAIN entries' = 1 .. Len(entries') /\ Len(entries') \in Nat
    BY NextGrows, LenProperties DEF Grows
  <2>3. n \in DOMAIN entries
    BY <1>2, <2>1, <2>2
  <2>4. QED  BY <1>2, <2>3 DEF DiariesIn
<1>3. QED  BY <1>1, <1>2 DEF Keeps

LEMMA FoldStep == TypeInv /\ FoldInv /\ [Next]_vars => FoldInv'
<1>1. CASE UNCHANGED vars
  BY <1>1 DEF vars, tables, FoldInv, EventsIn, DiariesIn
<1>2. ASSUME TypeInv, FoldInv, Next PROVE FoldInv'
  <2>1. Keeps(document)
    BY <1>2, FoldStays DEF FoldInv, TypeInv, TablesTyped
  <2>2. ASSUME NEW w \in Workers, pc[w] \in {"sources", "save"}
        PROVE  Keeps(run[w].document)
    BY <1>2, <2>2, FoldStays DEF FoldInv, TypeInv, RunTyped
  <2>3. Keeps(document')
    <3>1. CASE document' = document  BY <2>1, <3>1
    <3>2. ASSUME NEW w \in Workers, SaveRevision(w) PROVE Keeps(document')
      <4> DEFINE d == run[w].document
      <4>1. Keeps(d) /\ d \in Documents
        BY <1>2, <3>2, <2>2 DEF SaveRevision, TypeInv, RunTyped
      <4>2. document' = [d EXCEPT !.compacted_at = now]
        BY <3>2 DEF SaveRevision
      <4>3. /\ document'.events = d.events /\ document'.event_cutoff = d.event_cutoff
            /\ document'.diaries = d.diaries /\ document'.diary_cutoff = d.diary_cutoff
        BY <4>1, <4>2 DEF Documents
      <4>4. QED  BY <4>1, <4>3 DEF Keeps
    <3>3. QED
      BY <1>2, <3>1, <3>2
      DEF Next, Tick, Work, Finish, FailStaleJobs, EnqueueDiary, EnqueueCompact, Claim,
          StartTick, ReadClaimable, LoadTurns, LoadDocument, LoadSources, SaveDiaryEntry,
          RunErrs, Abandon, tables, FinishCompleted, FinishFailed, FinishRetry,
          Advance, CompleteTurn, AppendEvent, CommitTurn, CommitEvent
  <2>4. ASSUME NEW v \in Workers, pc'[v] \in {"sources", "save"}
        PROVE  Keeps(run'[v].document)
    <3>1. CASE pc'[v] = pc[v] /\ run'[v] = run[v]  BY <2>2, <2>4, <3>1
    <3>2. CASE LoadDocument(v)
      <4>1. run'[v].document = document
        BY <1>2, <3>2 DEF LoadDocument, TypeInv, TablesTyped
      <4>2. QED  BY <2>1, <4>1
    <3>3. CASE LoadSources(v)
      <4> DEFINE d == run[v].document
                 f == run'[v].document
      <4>1. /\ d \in Documents /\ f \in Documents
            /\ f.events = d.events \cup PendingEvents(d)
            /\ f.diaries = d.diaries \cup PendingDiaries(d)
        BY <1>2, <3>3, FoldedDocument
      <4>2. EventsIn(d) /\ DiariesIn(d)
        BY <1>2, <3>3 DEF FoldInv, LoadSources
      <4>3. events' = events /\ late' = late /\ entries' = entries
        BY <3>3 DEF LoadSources, tables
      <4>4. DOMAIN events \subseteq Nat /\ DOMAIN entries \subseteq Nat
            /\ d.event_cutoff \in Nat /\ d.diary_cutoff \in Nat
        BY <1>2, <4>1, RowsTyped DEF Documents
      <4>5. ASSUME NEW e \in DOMAIN events \ late.events, events[e] PROVE e \in f.events
        <5>1. e <= d.event_cutoff \/ e > d.event_cutoff  BY <4>4
        <5>2. CASE e <= d.event_cutoff
          <6>1. e \in d.events  BY <4>2, <4>5, <5>2 DEF EventsIn
          <6> QED BY ONLY <4>1, <6>1
        <5>3. CASE e > d.event_cutoff
          <6>1. e \in PendingEvents(d)  BY <4>5, <5>3 DEF PendingEvents
          <6> QED BY ONLY <4>1, <6>1
        <5>4. QED  BY ONLY <5>1, <5>2, <5>3
      <4>6. ASSUME NEW n \in DOMAIN entries PROVE n \in f.diaries
        <5>1. n <= d.diary_cutoff \/ n > d.diary_cutoff  BY <4>4
        <5>2. QED  BY <4>1, <4>2, <5>1 DEF DiariesIn, PendingDiaries
      <4>7. QED  BY <4>3, <4>5, <4>6 DEF Keeps
    <3>4. QED
      <4>1. CASE UNCHANGED <<pc, run>>  BY <3>1, <4>1
      <4>2. ASSUME NEW w \in Workers, Controls(w), w # v PROVE Keeps(run'[v].document)
        BY <1>2, <3>1, <4>2 DEF Controls, TypeInv, TablesTyped
      <4>3. ASSUME StartTick(v) \/ Tick(v) \/ Work(v) \/ Finish(v) \/ Abandon(v)
            PROVE  LoadDocument(v) \/ LoadSources(v)
        <5>a. pc \in [Workers -> Labels]  BY <1>2 DEF TypeInv, TablesTyped
        <5>1. CASE StartTick(v) \/ Finish(v) \/ Abandon(v)
          BY <2>4, <5>1, <5>a DEF StartTick, Finish, Abandon, FinishCompleted, FinishFailed, FinishRetry, Sleep
        <5>2. CASE Tick(v)
          <6>1. Claim(v) => pc'[v] \in {"diary", "compact"}
            BY <1>2, <5>a DEF Claim, TypeInv, RunTyped, HasJob, TablesTyped, JobTyped, JobRows
          <6>2. QED
            BY <2>4, <5>2, <5>a, <6>1
            DEF Tick, FailStaleJobs, EnqueueDiary, EnqueueCompact, ReadClaimable, Sleep
        <5>3. CASE Work(v)
          BY <2>4, <5>3, <5>a DEF Work, LoadTurns, SaveDiaryEntry, SaveRevision, RunErrs
        <5>4. QED  BY <4>3, <5>1, <5>2, <5>3
      <4>4. ASSUME Advance \/ CompleteTurn \/ AppendEvent \/ (\E t \in DOMAIN turns : CommitTurn(t))
                   \/ (\E e \in DOMAIN events : CommitEvent(e))
            PROVE  UNCHANGED <<pc, run>>
        BY <4>4 DEF Advance, CompleteTurn, AppendEvent, CommitTurn, CommitEvent
      <4>5. ASSUME NEW w \in Workers, StartTick(w) \/ Tick(w) \/ Work(w) \/ Finish(w) \/ Abandon(w)
            PROVE  Keeps(run'[v].document)
        <5>1. CASE w = v  BY <3>2, <3>3, <4>3, <4>5, <5>1
        <5>2. CASE w # v  BY <1>2, <4>2, <4>5, <5>2, WorkerStep
        <5>3. QED  BY <5>1, <5>2
      <4>6. QED  BY <1>2, <4>1, <4>4, <4>5 DEF Next
  <2>5. QED  BY <2>3, <2>4 DEF FoldInv, EventsIn, DiariesIn, Keeps
<1>3. QED  BY <1>1, <1>2

LEMMA InitFold == Init => FoldInv
BY DEF Init, FoldInv, EventsIn, DiariesIn

\* The inductive invariant of the documents: it speaks of those that compactions hold
\* as well as of the one that is stored.
THEOREM FoldInvHolds == Spec => []FoldInv
<1>1. QED  BY InitFold, FoldStep, TypeInvHolds, PTL DEF Spec

\* No compaction, however late it stores what it read, makes the document forget an
\* event or a diary entry that was committed before a cutoff went past it.
THEOREM SourcesAreFoldedHolds == Spec => []SourcesAreFolded
<1>1. FoldInv => SourcesAreFolded
  BY DEF FoldInv, EventsIn, DiariesIn, SourcesAreFolded
<1>2. QED  BY <1>1, FoldInvHolds, PTL

-----------------------------------------------------------------------------
(* The diary                                                               *)
(*                                                                         *)
(* The argument: a turn that is committed when a job exists is late if it  *)
(* lies before the end of the job's window, so the turns of a window that  *)
(* count were all there when the worker read it.                           *)

Settled == {t \in DOMAIN turns \ late.turns : turns[t].stored}

Told(t) == \E n \in DOMAIN entries :
  \/ t \in entries[n].turns
  \/ Within(t, entries[n].window) /\ Cardinality(entries[n].turns) = MaxTurns

Covers(j) == \A t \in Settled : Within(t, jobs[j].window) => Told(t)

\* A turn that windows have gone past is in one, or was left behind.
TurnsInWindows ==
  \A t \in Settled, j \in DiaryJobs : turns[t].completed_at < WindowEnd(j) =>
    \/ \E k \in DiaryJobs : Within(t, jobs[k].window)
    \/ turns[t].completed_at < now - config.backfill

CompletedCovers == \A j \in DiaryJobs : jobs[j].status = "completed" => Covers(j)

\* A worker about to write has read its window, and one that is done has covered it.
ReadsWindow(w) == pc[w] = "write" =>
  \A t \in Settled : Within(t, jobs[run[w].job].window) =>
    t \in run[w].turns \/ Cardinality(run[w].turns) = MaxTurns
HasCovered(w) == pc[w] = "completed" /\ run[w].job \in DiaryJobs => Covers(run[w].job)

DiaryInv ==
  /\ TurnsInWindows
  /\ CompletedCovers
  /\ \A w \in Workers : ReadsWindow(w) /\ HasCovered(w)

LEMMA DiaryInvDiarises == TypeInv /\ DiaryInv => TurnsAreDiarised
<1> SUFFICES ASSUME TypeInv, DiaryInv, NEW t \in Settled,
                    NEW end \in ProcessedEnds, turns[t].completed_at < end
             PROVE  \/ Told(t)
                    \/ \E j \in DiaryJobs : Within(t, jobs[j].window) /\ jobs[j].status # "completed"
                    \/ turns[t].completed_at < now - config.backfill
  BY Zenon DEF TurnsAreDiarised, Settled, Told
<1>1. PICK j \in DiaryJobs : end = WindowEnd(j)
  BY EndsBounded
<1>2. \/ \E k \in DiaryJobs : Within(t, jobs[k].window)
      \/ turns[t].completed_at < now - config.backfill
  BY <1>1 DEF DiaryInv, TurnsInWindows
<1>3. ASSUME NEW k \in DiaryJobs, Within(t, jobs[k].window), jobs[k].status = "completed"
      PROVE  Told(t)
  BY <1>3 DEF DiaryInv, CompletedCovers, Covers
<1>4. QED  BY <1>2, <1>3

\* A turn that settles is not one that a window has gone past.
LEMMA SettledStays ==
  ASSUME TypeInv, Next, NEW t \in Settled', NEW j \in DiaryJobs,
         turns'[t].completed_at < WindowEnd(j)
  PROVE  t \in Settled /\ turns'[t].completed_at = turns[t].completed_at
<1>1. t \in DOMAIN turns' /\ t \notin late'.turns /\ turns'[t].stored
  BY DEF Settled
<1>2. t \in DOMAIN turns
  <2>1. CASE CompleteTurn
    <3> DEFINE row == [completed_at |-> now, stored |-> FALSE]
    <3>1. turns' = Append(turns, row) /\ row \in TurnRows /\ turns \in Seq(TurnRows)
      BY <2>1 DEF CompleteTurn, TurnRows, TypeInv, TablesTyped
    <3>2. ~row.stored  OBVIOUS
    <3> HIDE DEF row
    <3>3. DOMAIN turns' = 1 .. (Len(turns) + 1) /\ DOMAIN turns = 1 .. Len(turns)
          /\ Len(turns) \in Nat /\ turns'[Len(turns) + 1] = row
      BY <3>1, AppendGrows
    <3>4. t # Len(turns) + 1  BY <1>1, <3>2, <3>3
    <3>5. QED  BY ONLY <1>1, <3>3, <3>4
  <2>2. CASE ~CompleteTurn
    <3>1. DOMAIN turns' = DOMAIN turns
      <4>1. \A u \in DOMAIN turns : CommitTurn(u) => DOMAIN turns' = DOMAIN turns
        BY DEF CommitTurn
      <4>2. QED
        BY <2>2, <4>1
        DEF Next, Tick, Work, Finish, FailStaleJobs, EnqueueDiary, EnqueueCompact, Claim,
            StartTick, ReadClaimable, LoadTurns, LoadDocument, LoadSources, SaveDiaryEntry,
            RunErrs, Abandon, tables, FinishCompleted, FinishFailed, FinishRetry, SaveRevision,
            Advance, AppendEvent, CommitEvent
    <3>2. QED  BY <1>1, <3>1
  <2>3. QED  BY <2>1, <2>2
<1>3. turns'[t].completed_at = turns[t].completed_at /\ t \notin late.turns
  BY <1>1, <1>2, NextGrows, LateStep DEF Grows
<1>4. turns[t].stored
  <2>1. SUFFICES ASSUME ~turns[t].stored PROVE FALSE  OBVIOUS
  <2>2. turns' # turns  BY <1>1, <2>1
  <2>3. ~CompleteTurn
    <3>1. ASSUME CompleteTurn PROVE turns'[t] = turns[t]
      <4> DEFINE row == [completed_at |-> now, stored |-> FALSE]
      <4>1. turns' = Append(turns, row) /\ row \in TurnRows /\ turns \in Seq(TurnRows)
        BY <3>1 DEF CompleteTurn, TurnRows, TypeInv, TablesTyped
      <4> HIDE DEF row
      <4>2. QED  BY <4>1, <1>2, AppendGrows
    <3>2. QED  BY <3>1, <1>1, <2>1
  <2>4. PICK u \in DOMAIN turns : CommitTurn(u)
    BY <2>2, <2>3
    DEF Next, Tick, Work, Finish, FailStaleJobs, EnqueueDiary, EnqueueCompact, Claim,
        StartTick, ReadClaimable, LoadTurns, LoadDocument, LoadSources, SaveDiaryEntry,
        RunErrs, Abandon, tables, FinishCompleted, FinishFailed, FinishRetry, SaveRevision,
        Advance, AppendEvent, CommitEvent
  <2>5. u = t
    BY <1>1, <1>2, <2>1, <2>4 DEF CommitTurn
  <2>6. turns[t].completed_at < WindowEnd(j)
    BY <1>3
  <2>7. late' = [late EXCEPT !.turns = late.turns \cup {t}]
    BY <2>4, <2>5, <2>6 DEF CommitTurn
  <2>8. t \in late'.turns
    BY <2>7 DEF TypeInv, TablesTyped
  <2>9. QED  BY <1>1, <2>8
<1>5. QED  BY <1>2, <1>3, <1>4 DEF Settled

LEMMA ToldStays ==
  ASSUME TypeInv, Next, NEW t \in DOMAIN turns, Told(t)
  PROVE  Told(t)'
<1>1. turns'[t].completed_at = turns[t].completed_at /\ config' = config
      /\ \A n \in DOMAIN entries : n \in DOMAIN entries' /\ entries'[n] = entries[n]
  BY NextGrows DEF Grows
<1>2. PICK n \in DOMAIN entries :
        \/ t \in entries[n].turns
        \/ Within(t, entries[n].window) /\ Cardinality(entries[n].turns) = MaxTurns
  BY DEF Told
<1>3. QED  BY <1>1, <1>2 DEF Told, Within

\* What lies in the window of a job after a step lay there before it.
LEMMA WithinStays ==
  ASSUME TypeInv, Next, NEW j \in DiaryJobs, NEW t \in Settled', Within(t, jobs[j].window)'
  PROVE  t \in Settled /\ Within(t, jobs[j].window)
<1>1. jobs'[j].window = jobs[j].window /\ config' = config
  BY NextGrows DEF Grows
<1>2. turns'[t].completed_at < WindowEnd(j)
  BY <1>1 DEF Within
<1>3. t \in Settled /\ turns'[t].completed_at = turns[t].completed_at
  BY <1>2, SettledStays
<1>4. QED  BY <1>1, <1>3 DEF Within

LEMMA CoversStays ==
  ASSUME TypeInv, Next, NEW j \in DiaryJobs, Covers(j)
  PROVE  Covers(j)'
<1>1. ASSUME NEW t \in Settled', Within(t, jobs[j].window)' PROVE Told(t)'
  <2>1. t \in Settled /\ Within(t, jobs[j].window)
    BY <1>1, WithinStays
  <2>2. QED  BY <2>1, ToldStays DEF Covers, Settled
<1>2. QED  BY <1>1 DEF Covers

LEMMA InWindowsStep == ASSUME TypeInv, DiaryInv, Next PROVE TurnsInWindows'
<1>g. /\ config' = config /\ now' \in Nat /\ now \in Nat /\ now <= now'
      /\ config.backfill \in Nat /\ config.interval \in Nat
      /\ \A j \in DOMAIN jobs : /\ j \in DOMAIN jobs' /\ jobs'[j].kind = jobs[j].kind
                                /\ jobs'[j].window = jobs[j].window
  BY NextGrows, EndsBounded DEF Grows, TypeInv, TablesTyped
<1>o. ASSUME NEW t \in Settled', NEW j \in DiaryJobs, turns'[t].completed_at < WindowEnd(j)
      PROVE  \/ \E k \in DiaryJobs' : Within(t, jobs[k].window)'
             \/ turns'[t].completed_at < now' - config'.backfill
  <2>1. t \in Settled /\ turns'[t].completed_at = turns[t].completed_at /\ turns[t].completed_at \in Nat
    BY <1>o, SettledStays, RowsTyped DEF Settled
  <2>2. CASE \E k \in DiaryJobs : Within(t, jobs[k].window)
    BY <1>g, <2>1, <2>2 DEF Within
  <2>3. CASE turns[t].completed_at < now - config.backfill
    BY <1>g, <2>1, <2>3
  <2>4. QED  BY <1>o, <2>1, <2>2, <2>3 DEF DiaryInv, TurnsInWindows
<1>1. ASSUME NEW t \in Settled', NEW j \in DiaryJobs', turns'[t].completed_at < WindowEnd(j)'
      PROVE  \/ \E k \in DiaryJobs' : Within(t, jobs[k].window)'
             \/ turns'[t].completed_at < now' - config'.backfill
  <2>1. CASE j \in DOMAIN jobs
    <3>1. j \in DiaryJobs /\ turns'[t].completed_at < WindowEnd(j)
      BY <1>1, <1>g, <2>1
    <3>2. QED  BY <1>o, <3>1
  <2>2. CASE \E i \in DiaryJobs : turns'[t].completed_at < WindowEnd(i)
    BY <1>o, <2>2
  <2>3. CASE j \notin DOMAIN jobs /\ \A i \in DiaryJobs : ~(turns'[t].completed_at < WindowEnd(i))
    <3>1. PICK w \in Workers : \E start \in DueDiaries(w) : NewJob("diary", start)
      BY <1>1, <2>3, NewJobIs
    <3>2. PICK start \in DueDiaries(w) : NewJob("diary", start)
      BY <3>1
    <3>3. jobs'[j].window = start
      BY <2>3, <3>2, NewJobIs
    <3>4. turns' = turns /\ now' = now /\ late' = late
      <4>1. jobs' # jobs
        <5>1. Len(jobs') = Len(jobs) + 1 /\ Len(jobs) \in Nat  BY <3>2, RowsTyped DEF NewJob
        <5>2. QED  BY <5>1
      <4>2. QED
        BY <4>1
        DEF Next, Tick, Work, Finish, FailStaleJobs, EnqueueDiary, EnqueueCompact, Claim,
            StartTick, ReadClaimable, LoadTurns, LoadDocument, LoadSources, SaveDiaryEntry,
            RunErrs, Abandon, tables, FinishCompleted, FinishFailed, FinishRetry, SaveRevision,
            Advance, AppendEvent, CommitEvent, CompleteTurn, CommitTurn
    <3>5. t \in DOMAIN turns /\ turns[t].stored /\ turns[t].completed_at \in Nat
      BY <3>4, RowsTyped DEF Settled
    <3>6. \A e \in ProcessedEnds : turns[t].completed_at >= e
      <4>1. \A i \in DiaryJobs : ~(turns[t].completed_at < WindowEnd(i))
        BY <2>3, <3>4
      <4>2. QED  BY <3>5, <4>1, EndsBounded
    <3>7. CASE turns[t].completed_at >= now - config.backfill
      <4>1. start <= turns[t].completed_at /\ start \in Nat
        BY <3>5, <3>6, <3>7, DueWindow
      <4>2. Within(t, jobs[j].window)'
        BY <1>1, <1>g, <3>3, <3>4, <3>5, <4>1 DEF Within
      <4>3. QED  BY <1>1, <4>2
    <3>8. CASE turns[t].completed_at < now - config.backfill
      BY <1>g, <3>4, <3>8
    <3>9. QED  BY <1>g, <3>5, <3>7, <3>8
  <2>4. QED  BY <2>1, <2>2, <2>3
<1>2. QED  BY <1>1 DEF TurnsInWindows

\* Only the worker that finishes a job completes it.
LEMMA CompletedBy ==
  ASSUME TypeInv, Next, NEW j \in DOMAIN jobs',
         jobs'[j].status = "completed", j \in DOMAIN jobs => jobs[j].status # "completed"
  PROVE  \E w \in Workers : FinishCompleted(w) /\ run[w].job = j
<1>1. j \in DOMAIN jobs
  <2>1. SUFFICES ASSUME j \notin DOMAIN jobs PROVE FALSE  OBVIOUS
  <2>2. j = Len(jobs) + 1 /\ ~SameJobs
    BY <2>1, NewJobIs, JobsGrow, RowsTyped, LenProperties DEF SameJobs
  <2>3. QED  BY <2>2, JobsStep DEF NewJob
<1>2. jobs'[j] # jobs[j]  BY <1>1
<1>3. SUFFICES ASSUME ~\E w \in Workers : FinishCompleted(w) PROVE FALSE
  <2>1. ASSUME NEW w \in Workers, FinishCompleted(w) PROVE run[w].job = j
    BY <1>1, <1>2, <2>1 DEF FinishCompleted
  <2>2. QED  BY <1>3, <2>1
<1>4. ASSUME NEW w \in Workers, FailStaleJobs(w) PROVE FALSE
  <2>1. jobs'[j] = jobs[j] \/ jobs'[j] = [jobs[j] EXCEPT !.status = "failed", !.leased_until = None]
    BY <1>1, <1>4 DEF FailStaleJobs
  <2>2. jobs[j] \in JobRows  BY <1>1, RowsTyped
  <2>3. QED  BY <1>2, <2>1, <2>2 DEF JobRows
<1>5. ASSUME NEW w \in Workers, Claim(w) \/ FinishFailed(w) \/ FinishRetry(w) PROVE FALSE
  <2>1. \A k \in DOMAIN jobs : jobs[k] \in JobRows  BY RowsTyped
  <2>2. run[w].job \in DOMAIN jobs
    BY <1>5 DEF Claim, FinishFailed, FinishRetry, TypeInv, RunTyped, HasJob
  <2>3. CASE run[w].job # j
    BY <1>1, <1>2, <1>5, <2>3 DEF Claim, FinishFailed, FinishRetry
  <2>4. CASE run[w].job = j
    <3>1. jobs'[j].status \in {"running", "failed", "pending"}
      BY <1>1, <1>5, <2>1, <2>4 DEF Claim, FinishFailed, FinishRetry, JobRows
    <3>2. QED  BY <3>1
  <2>5. QED  BY <2>3, <2>4
<1>6. ASSUME NEW w \in Workers, EnqueueDiary(w) \/ EnqueueCompact(w) PROVE FALSE
  <2>1. \A start : NewJob("diary", start) \/ NewJob("compact", start) => jobs'[j] = jobs[j]
    BY <1>1 DEF NewJob
  <2>2. SameJobs => jobs' = jobs
    <3>1. ASSUME SameJobs, jobs' # jobs PROVE FALSE
      <4>1. \A kind, window : Enqueue(w, kind, window) => Len(jobs') = Len(jobs) + 1
        BY <3>1, AppendProperties DEF Enqueue, TypeInv, TablesTyped
      <4>2. \E kind, window : Enqueue(w, kind, window)
        BY <1>6, <3>1 DEF EnqueueDiary, EnqueueCompact
      <4>3. QED  BY <3>1, <4>1, <4>2, RowsTyped DEF SameJobs
    <3>2. QED  BY <3>1
  <2>3. QED  BY <1>2, <2>1, <2>2, JobsStep
<1>7. QED
  BY <1>2, <1>3, <1>4, <1>5, <1>6
  DEF Next, Tick, Work, Finish, StartTick, ReadClaimable, LoadTurns, LoadDocument, LoadSources,
      SaveDiaryEntry, RunErrs, Abandon, tables, SaveRevision,
      Advance, AppendEvent, CommitEvent, CompleteTurn, CommitTurn

LEMMA CompletedCoversStep == ASSUME TypeInv, DiaryInv, Next PROVE CompletedCovers'
<1>1. ASSUME NEW j \in DiaryJobs', jobs'[j].status = "completed" PROVE Covers(j)'
  <2>1. CASE j \in DOMAIN jobs /\ jobs[j].status = "completed"
    <3>1. j \in DiaryJobs  BY <1>1, <2>1, NextGrows DEF Grows
    <3>2. QED  BY <2>1, <3>1, CoversStays DEF DiaryInv, CompletedCovers
  <2>2. CASE ~(j \in DOMAIN jobs /\ jobs[j].status = "completed")
    <3>1. PICK w \in Workers : FinishCompleted(w) /\ run[w].job = j
      BY <1>1, <2>2, CompletedBy
    <3>2. pc[w] = "completed" /\ j \in DOMAIN jobs
      BY <3>1 DEF FinishCompleted, TypeInv, RunTyped, HasJob
    <3>3. j \in DiaryJobs
      BY <1>1, <3>2, NextGrows DEF Grows
    <3>4. Covers(j)
      BY <3>1, <3>2, <3>3 DEF DiaryInv, HasCovered
    <3>5. QED  BY <3>3, <3>4, CoversStays
  <2>3. QED  BY <2>1, <2>2
<1>2. QED  BY <1>1 DEF CompletedCovers

\* In the next state, a turn in the interval from a given start.
WithinNext(t, start) ==
  turns'[t].completed_at >= start /\ turns'[t].completed_at < start + config'.interval

LEMMA WithinNextStays ==
  ASSUME TypeInv, Next, NEW j \in DiaryJobs, NEW t \in Settled', WithinNext(t, jobs'[j].window)
  PROVE  t \in Settled /\ Within(t, jobs[j].window)
BY WithinStays DEF Within, WithinNext

\* A worker that does not move.
LEMMA OtherCovers ==
  ASSUME TypeInv, DiaryInv, Next, NEW v \in Workers, pc'[v] = pc[v], run'[v] = run[v]
  PROVE  ReadsWindow(v)' /\ HasCovered(v)'
<1> DEFINE j == run[v].job
<1>g. \A k \in DOMAIN jobs : jobs'[k].kind = jobs[k].kind /\ jobs'[k].window = jobs[k].window
  BY NextGrows DEF Grows
<1>1. ASSUME pc[v] = "write", NEW t \in Settled', WithinNext(t, jobs'[j].window)
      PROVE  t \in run[v].turns \/ Cardinality(run[v].turns) = MaxTurns
  <2>1. j \in DiaryJobs  BY <1>1 DEF TypeInv, RunTyped, HasJob, Working, OfDiary
  <2>2. t \in Settled /\ Within(t, jobs[j].window)
    BY <1>1, <2>1, WithinNextStays
  <2>3. QED  BY <1>1, <2>2 DEF DiaryInv, ReadsWindow
<1>2. ASSUME pc[v] = "completed", j \in DiaryJobs',
             NEW t \in Settled', WithinNext(t, jobs'[j].window)
      PROVE  Told(t)'
  <2>1. j \in DOMAIN jobs  BY <1>2 DEF TypeInv, RunTyped, HasJob
  <2>2. j \in DiaryJobs  BY <1>2, <2>1, <1>g
  <2>3. Covers(j)  BY <1>2, <2>2 DEF DiaryInv, HasCovered
  <2>4. t \in Settled /\ Within(t, jobs[j].window)
    BY <1>2, <2>2, WithinNextStays
  <2>5. QED  BY <2>3, <2>4, ToldStays DEF Covers, Settled
<1>3. QED  BY <1>1, <1>2 DEF ReadsWindow, HasCovered, Covers, Within, WithinNext

\* The turns a worker reads are all of its window's, unless an entry takes no more.
LEMMA LoadedTurns ==
  ASSUME TypeInv, NEW w \in Workers, LoadTurns(w)
  PROVE  /\ run[w].job \in DiaryJobs
         /\ run'[w].job = run[w].job
         /\ UNCHANGED <<config, turns, late, jobs, entries>>
         /\ \/ /\ pc'[w] = "completed"
               /\ \A t \in Settled : ~Within(t, jobs[run[w].job].window)
            \/ /\ pc'[w] = "write"
               /\ \A t \in Settled : Within(t, jobs[run[w].job].window) =>
                    t \in run'[w].turns \/ Cardinality(run'[w].turns) = MaxTurns
<1> DEFINE j == run[w].job
           start == jobs[j].window
           In == {t \in DOMAIN turns : /\ turns[t].stored
                                       /\ turns[t].completed_at >= start
                                       /\ turns[t].completed_at < start + config.interval}
<1>1. PICK S \in SUBSET In :
        /\ Cardinality(S) = Min({Cardinality(In), MaxTurns})
        /\ run' = [run EXCEPT ![w] = [job |-> j, attempts |-> run[w].attempts, turns |-> S]]
        /\ pc' = [pc EXCEPT ![w] = IF S = {} THEN "completed" ELSE "write"]
  BY DEF LoadTurns
<1>2. IsFiniteSet(In)
  <2>1. DOMAIN turns = 1 .. Len(turns) /\ Len(turns) \in Nat  BY RowsTyped
  <2>2. IsFiniteSet(DOMAIN turns)  BY <2>1, FS_Interval
  <2>3. In \in SUBSET DOMAIN turns  OBVIOUS
  <2>4. QED  BY ONLY <2>2, <2>3, FS_Subset
<1>3. Cardinality(In) \in Nat /\ MaxTurns \in Nat /\ MaxTurns > 0
  BY <1>2, FS_CardinalityType, ConfigAssumption
<1>4. Cardinality(S) = Cardinality(In) \/ Cardinality(S) = MaxTurns
  <2>1. Min({Cardinality(In), MaxTurns}) \in {Cardinality(In), MaxTurns}
    <3>1. {Cardinality(In), MaxTurns} \in SUBSET Nat /\ {Cardinality(In), MaxTurns} # {}
      BY <1>3
    <3>2. QED  BY ONLY <3>1, MinIn
  <2>2. QED  BY <1>1, <2>1
<1>5. S = In \/ Cardinality(S) = MaxTurns
  BY <1>2, <1>4, FS_Subset
<1>6. \A t \in Settled : Within(t, start) => t \in In
  BY DEF Settled, Within
<1>7. /\ run'[w].turns = S /\ run'[w].job = j
      /\ pc'[w] = IF S = {} THEN "completed" ELSE "write"
  BY <1>1 DEF TypeInv, TablesTyped
<1>8. j \in DiaryJobs
  BY DEF LoadTurns, TypeInv, RunTyped, HasJob, Working, OfDiary
<1>9. UNCHANGED <<config, turns, late, jobs, entries>>
  BY DEF LoadTurns, tables
<1>10. S = {} => S = In
  <2>1. ASSUME S = {} PROVE Cardinality(S) # MaxTurns
    BY <2>1, <1>3, FS_EmptySet
  <2>2. QED  BY <1>5, <2>1
<1>11. QED
  <2> HIDE DEF In, start
  <2>1. CASE S = {}
    BY <2>1, <1>6, <1>7, <1>8, <1>9, <1>10 DEF start
  <2>2. CASE S # {}
    BY <2>2, <1>5, <1>6, <1>7, <1>8, <1>9 DEF start
  <2>3. QED  BY <2>1, <2>2

LEMMA MoverCovers ==
  ASSUME TypeInv, DiaryInv, Next, NEW w \in Workers,
         StartTick(w) \/ Tick(w) \/ Work(w) \/ Finish(w) \/ Abandon(w)
  PROVE  ReadsWindow(w)' /\ HasCovered(w)'
<1>a. pc \in [Workers -> Labels] /\ run = [v \in Workers |-> run[v]]
  BY DEF TypeInv, TablesTyped
<1>n. ASSUME pc'[w] \notin {"write", "completed"} PROVE ReadsWindow(w)' /\ HasCovered(w)'
  BY <1>n DEF ReadsWindow, HasCovered
<1>1. CASE StartTick(w) \/ Finish(w) \/ Abandon(w)
  BY <1>1, <1>a, <1>n DEF StartTick, Finish, Abandon, FinishCompleted, FinishFailed, FinishRetry, Sleep
<1>2. CASE Tick(w)
  <2>1. Claim(w) => pc'[w] \in {"diary", "compact"}
    BY <1>a DEF Claim, TypeInv, RunTyped, HasJob, TablesTyped, JobTyped, JobRows
  <2>2. pc'[w] \notin {"write", "completed"}
    BY <1>2, <1>a, <2>1
    DEF Tick, FailStaleJobs, EnqueueDiary, EnqueueCompact, ReadClaimable, Sleep
  <2>3. QED  BY <1>n, <2>2
<1>3. CASE LoadDocument(w) \/ RunErrs(w)
  <2>1. pc'[w] \notin {"write", "completed"}
    BY <1>3, <1>a DEF LoadDocument, RunErrs
  <2>2. QED  BY <1>n, <2>1
<1>4. CASE LoadSources(w) \/ SaveRevision(w)
  <2>1. run'[w].job = run[w].job /\ pc'[w] # "write" /\ pc[w] \in OfCompact
    BY <1>4, <1>a DEF LoadSources, SaveRevision, OfCompact
  <2>2. run[w].job \in DOMAIN jobs /\ jobs[run[w].job].kind = "compact"
    BY <2>1 DEF TypeInv, RunTyped, HasJob, Working, OfCompact
  <2>3. run'[w].job \notin DiaryJobs'
    BY <2>1, <2>2, NextGrows DEF Grows
  <2>4. QED  BY <2>1, <2>3 DEF ReadsWindow, HasCovered
<1>5. CASE LoadTurns(w)
  <2>1. Settled' = Settled /\ \A t, s : Within(t, s)' <=> Within(t, s)
    BY <1>5, LoadedTurns DEF Settled, Within
  <2>2. QED  BY <1>5, <2>1, LoadedTurns DEF ReadsWindow, HasCovered, Covers
<1>6. CASE SaveDiaryEntry(w)
  <2> DEFINE j == run[w].job
             entry == [window |-> jobs[j].window, turns |-> run[w].turns]
             n == Len(entries) + 1
  <2>1. /\ j \in DiaryJobs /\ entries'[n] = entry /\ n \in DOMAIN entries'
    <3>1. Len(entries) \in Nat  BY RowsTyped
    <3>2. n \in 1 .. n  BY <3>1
    <3>3. QED  BY <1>6, <3>2, SavedEntry, Zenon
  <2>2. UNCHANGED <<config, turns, late, jobs, run>> /\ pc[w] = "write" /\ pc'[w] # "write"
    BY <1>6, <1>a DEF SaveDiaryEntry
  <2>3. ASSUME NEW t \in Settled, Within(t, jobs[j].window) PROVE Told(t)'
    <3>1. t \in run[w].turns \/ Cardinality(run[w].turns) = MaxTurns
      BY <2>2, <2>3 DEF DiaryInv, ReadsWindow
    <3>2. entries'[n].window = jobs[j].window /\ entries'[n].turns = run[w].turns
      BY <2>1
    <3>3. WithinNext(t, entries'[n].window)
      BY <2>2, <2>3, <3>2 DEF Within, WithinNext
    <3>4. QED  BY <2>1, <3>1, <3>2, <3>3 DEF Told, Within, WithinNext
  <2>4. ASSUME NEW t \in Settled', WithinNext(t, jobs'[j].window) PROVE Told(t)'
    <3>1. t \in Settled /\ Within(t, jobs[j].window)
      BY <2>1, <2>4, WithinNextStays
    <3>2. QED  BY <2>3, <3>1
  <2>5. QED  BY <2>2, <2>4 DEF ReadsWindow, HasCovered, Covers, Within, WithinNext
<1>7. QED  BY <1>1, <1>2, <1>3, <1>4, <1>5, <1>6 DEF Work

LEMMA DiaryStep == TypeInv /\ DiaryInv /\ [Next]_vars => DiaryInv'
<1>1. CASE UNCHANGED vars
  BY <1>1
  DEF vars, tables, DiaryInv, TurnsInWindows, CompletedCovers, ReadsWindow, HasCovered, Covers,
      Settled, Told, Within
<1>2. ASSUME TypeInv, DiaryInv, Next PROVE DiaryInv'
  <2>1. ASSUME NEW v \in Workers PROVE ReadsWindow(v)' /\ HasCovered(v)'
    <3>1. CASE UNCHANGED <<pc, run>>  BY <1>2, <3>1, OtherCovers
    <3>2. ASSUME NEW w \in Workers, StartTick(w) \/ Tick(w) \/ Work(w) \/ Finish(w) \/ Abandon(w)
          PROVE  ReadsWindow(v)' /\ HasCovered(v)'
      <4>1. CASE v = w  BY <1>2, <3>2, <4>1, MoverCovers
      <4>2. CASE v # w
        <5>1. pc'[v] = pc[v] /\ run'[v] = run[v]
          BY <1>2, <3>2, <4>2, WorkerStep DEF Controls, TypeInv, TablesTyped
        <5>2. QED  BY <1>2, <5>1, OtherCovers
      <4>3. QED  BY <4>1, <4>2
    <3>3. ASSUME Advance \/ CompleteTurn \/ AppendEvent \/ (\E t \in DOMAIN turns : CommitTurn(t))
                 \/ (\E e \in DOMAIN events : CommitEvent(e))
          PROVE  UNCHANGED <<pc, run>>
      BY <3>3 DEF Advance, CompleteTurn, AppendEvent, CommitTurn, CommitEvent
    <3>4. QED  BY <1>2, <3>1, <3>2, <3>3 DEF Next
  <2>2. QED  BY <1>2, <2>1, InWindowsStep, CompletedCoversStep DEF DiaryInv
<1>3. QED  BY <1>1, <1>2

LEMMA InitDiary == Init => DiaryInv
BY DEF Init, DiaryInv, TurnsInWindows, CompletedCovers, ReadsWindow, HasCovered

\* The inductive invariant of the diary: windows leave out no settled turn, and a job is
\* completed only when entries cover its window.
THEOREM DiaryInvHolds == Spec => []DiaryInv
<1>1. QED  BY InitDiary, DiaryStep, TypeInvHolds, PTL DEF Spec

\* However workers fail and take each other's jobs over, the diary skips no turn that
\* was committed in time.
THEOREM TurnsAreDiarisedHolds == Spec => []TurnsAreDiarised
<1>1. QED  BY DiaryInvDiarises, DiaryInvHolds, TypeInvHolds, PTL

=============================================================================
