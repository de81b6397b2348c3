--------------------------- MODULE VibeJobsProofs ---------------------------
(***************************************************************************)
(* Proofs about VibeJobs: types, and that calls and rows refer to what     *)
(* exists; then the lock of a site; then its revisions, and that VibeJobs  *)
(* implements VibeSites.                                                   *)
(***************************************************************************)
EXTENDS VibeJobs, FiniteSetTheorems, TLAPS

Owning == Armed \cup Dropped \cup {"disarmed"}

\* What a call or a job refers to exists.
Referenced ==
  /\ \A k \in Calls : pc[k] = "targeted" => target[k] \in Calls
  /\ \A k \in Calls : pc[k] \in Owning => job[k] \in Calls /\ siteOf[job[k]] \in Calls
  /\ \A j \in Calls : state[j] # "absent" => siteOf[j] \in Calls

TypeInv == TypeOK /\ Referenced

LEMMA InitTypes == Init => TypeInv
  BY NoJobAssumption, LimitsAssumption, RequestsAssumption
  DEF Init, TypeInv, TypeOK, Referenced, NoJobs, Jobs, Statuses, Controls, Requests, Owning,
      Armed, Dropped

\* update_job_state changes no type.
LEMMA AdvanceTypes ==
  ASSUME TypeOK, NEW j, NEW new \in Running, AdvanceJob(j, new)
  PROVE  /\ status' \in [Calls -> Statuses]
         /\ lock' \in [Calls -> Jobs]
         /\ live' \in [Calls -> Jobs]
         /\ state' \in [Calls -> {"absent"} \cup Running \cup Terminal]
         /\ siteOf' \in [Calls -> Jobs]
         /\ ordinal' \in [Calls -> Nat]
  BY DEF TypeOK, AdvanceJob, WithState, sites

LEMMA DeleteTypes ==
  ASSUME TypeOK, NEW S, NEW newState \in [Calls -> {"absent"} \cup Running \cup Terminal],
         NEW newLock \in [Calls -> Jobs], DeleteSites(S, newState, newLock)
  PROVE  /\ status' \in [Calls -> Statuses]
         /\ lock' \in [Calls -> Jobs]
         /\ live' \in [Calls -> Jobs]
         /\ state' \in [Calls -> {"absent"} \cup Running \cup Terminal]
         /\ siteOf' \in [Calls -> Jobs]
         /\ ordinal' \in [Calls -> Nat]
  BY DEF TypeOK, DeleteSites, Statuses, Jobs

LEMMA EndTypes ==
  ASSUME TypeOK, NEW j, NEW new \in Terminal, EndJob(j, new)
  PROVE  /\ status' \in [Calls -> Statuses]
         /\ lock' \in [Calls -> Jobs]
         /\ live' \in [Calls -> Jobs]
         /\ state' \in [Calls -> {"absent"} \cup Running \cup Terminal]
         /\ siteOf' \in [Calls -> Jobs]
         /\ ordinal' \in [Calls -> Nat]
  <1>1. WithState(j, new) \in [Calls -> {"absent"} \cup Running \cup Terminal]
    BY DEF TypeOK, WithState
  <1>2. Unlocked(j) \in [Calls -> Jobs]
    BY DEF TypeOK, Unlocked, Jobs
  <1> QED BY <1>1, <1>2, DeleteTypes DEF EndJob

LEMMA NextTypes == TypeInv /\ [Next]_vars => TypeOK'
<1> SUFFICES ASSUME TypeOK, Referenced, [Next]_vars PROVE TypeOK'
  BY DEF TypeInv
<1> USE NoJobAssumption
<1>1. ASSUME NEW k \in Calls, AskingStep(k) PROVE TypeOK'
  <2> pc' \in [Calls -> Controls]
    BY <1>1 DEF AskingStep, Ask, CountRunning, FindSite, Reject, CreateJob, Claim, FindJob,
       Goto, TypeOK, Controls, Asking, Armed
  <2> USE DEF TypeOK, sites, jobs, calls, managers
  <2>1. CASE Ask(k) \/ CountRunning(k) \/ Reject(k)
    BY <2>1 DEF Ask, CountRunning, Reject
  <2>2. CASE FindSite(k)
    BY <2>2 DEF FindSite, Named, Jobs
  <2>3. CASE CreateJob(k)
    BY <2>3 DEF CreateJob, Claim, Jobs, Statuses, Running
  <2>4. CASE FindJob(k)
    BY <2>4 DEF FindJob, JobsFor, Jobs
  <2> QED BY <1>1, <2>1, <2>2, <2>3, <2>4 DEF AskingStep
<1>2. ASSUME NEW k \in Calls, JobStep(k) \/ JobErrs(k) \/ Drop(k) PROVE TypeOK'
  <2> pc' \in [Calls -> Controls]
    BY <1>2 DEF JobStep, ReadParent, StartCoding, StartBuild, FindNoChanges, Repair,
       RepairWithin, StartCommit, Publish, Return, Disarm, StoreFailure, CleanUp,
       JobErrs, Drop, Step, Goto, TypeOK, Controls, Armed, Dropped
  <2>1. CASE ReadParent(k)
    <3>1. Site(k) \in Calls
      BY <2>1 DEF ReadParent, Step, Site, Referenced, Owning, Armed
    <3> QED BY <2>1, <3>1 DEF ReadParent, TypeOK, sites, jobs, managers, rest
  <2>2. CASE StartCoding(k) \/ StartBuild(k) \/ StartCommit(k)
    BY <2>2, AdvanceTypes
       DEF StartCoding, StartBuild, StartCommit, TypeOK, managers, rest, Running
  <2>3. CASE Repair(k)
    <3>1. repairs' \in [Calls -> 0 .. MaxRepairs]
      BY <2>3, LimitsAssumption DEF Repair, RepairWithin, TypeOK
    <3>2. QED
      BY <2>3, <3>1, AdvanceTypes DEF Repair, RepairWithin, TypeOK, managers, rest, Running
  <2>4. CASE FindNoChanges(k)
    BY <2>4, EndTypes DEF FindNoChanges, TypeOK, sites, jobs, managers, rest, Terminal
  <2>5. CASE Publish(k)
    <3>1. NextOrdinal(k) \in Nat
      BY DEF NextOrdinal, TypeOK, Jobs
    <3>2. CASE MayPublish(k)
      BY <2>5, <3>1, <3>2
         DEF Publish, MayPublish, Reveal, WithState, TypeOK, managers, rest, Jobs,
             Statuses, Terminal
    <3>3. CASE ~MayPublish(k)
      BY <2>5, <3>3 DEF Publish, TypeOK, sites, jobs, managers, rest
    <3> QED BY <3>2, <3>3
  <2>6. CASE StoreFailure(k) \/ CleanUp(k)
    <3>1. pc[k] \in Dropped => pc[k] \in Terminal
      BY DEF Dropped, Terminal
    <3>2. QED
      BY <2>6, <3>1, EndTypes
         DEF StoreFailure, CleanUp, TypeOK, sites, jobs, managers, rest, Terminal
  <2>7. CASE Return(k) \/ Disarm(k) \/ JobErrs(k) \/ Drop(k)
    BY <2>7 DEF Return, Disarm, JobErrs, Drop, TypeOK, sites, jobs, managers, rest
  <2> QED BY <1>2, <2>1, <2>2, <2>3, <2>4, <2>5, <2>6, <2>7 DEF JobStep
<1>3. ASSUME NEW m \in Managers, ManagerStep(m) PROVE TypeOK'
  <2>1. CASE Purge(m)
    BY <2>1, DeleteTypes DEF Purge, MStep, TypeOK, tasks, calls
  <2>2. CASE \E s \in Calls, operation \in Operations : ReadSite(m, s, operation)
    BY <2>2 DEF ReadSite, ReadSiteIf, MStep, TypeOK, tasks, calls, sites, jobs, Jobs
  <2>3. CASE \/ \E r \in Calls : ChooseRevision(m, r)
             \/ ActivateRevision(m)
             \/ SetStatus(m, "archive", "archived")
             \/ SetStatus(m, "restore", "active")
             \/ Refuse(m)
    BY <2>3 DEF ChooseRevision, ActivateRevision, SetStatus, Refuse, RevisionsOf, MStep,
       TypeOK, tasks, calls, sites, jobs, Jobs, Statuses
  <2> QED BY <1>3, <2>1, <2>2, <2>3 DEF ManagerStep
<1>4. CASE Restart
  <2>1. [j \in Calls |-> IF state[j] \in Running THEN "failed" ELSE state[j]]
          \in [Calls -> {"absent"} \cup Running \cup Terminal]
    BY DEF TypeOK, Terminal
  <2>2. NoJobs \in [Calls -> Jobs]
    BY DEF NoJobs, Jobs
  <2>3. restarts' \in 0 .. MaxRestarts
    BY <1>4, LimitsAssumption DEF Restart, TypeOK
  <2>4. pc' \in [Calls -> Controls]
    BY <1>4 DEF Restart, TypeOK, Controls
  <2>5. mpc' \in [Managers -> {"idle", "chosen", "done"} \cup Operations]
    BY <1>4 DEF Restart, TypeOK
  <2> QED BY <1>4, <2>1, <2>2, <2>3, <2>4, <2>5, DeleteTypes DEF Restart, TypeOK, calls
<1>5. CASE UNCHANGED vars
  BY <1>5 DEF TypeOK, vars, sites, jobs, calls, managers
<1> QED BY <1>1, <1>2, <1>3, <1>4, <1>5 DEF Next

\* Only create_job gives a job a row, and nothing moves a job to another site.
LEMMA RowsKept ==
  ASSUME TypeOK, [Next]_vars
  PROVE  \A j \in Calls :
           \/ siteOf'[j] = siteOf[j] /\ (state'[j] # "absent" => state[j] # "absent")
           \/ /\ pc[j] = "targeted"
              /\ pc'[j] = "claimed"
              /\ siteOf'[j] = target[j]
<1> DEFINE Kept == \A j \in Calls :
             siteOf'[j] = siteOf[j] /\ (state'[j] # "absent" => state[j] # "absent")
<1>0. ASSUME NEW S, NEW new, NEW locks, DeleteSites(S, new, locks),
             \A j \in Calls : new[j] # "absent" => state[j] # "absent"
      PROVE  Kept
  BY <1>0 DEF DeleteSites, TypeOK
<1>1. ASSUME NEW j, NEW new, EndJob(j, new) PROVE Kept
  <2>1. \A i \in Calls : WithState(j, new)[i] # "absent" => state[i] # "absent"
    BY DEF WithState, TypeOK
  <2> HIDE DEF Kept
  <2> QED BY <1>1, <2>1, <1>0 DEF EndJob
<1>2. ASSUME NEW j, NEW new, AdvanceJob(j, new) PROVE Kept
  BY <1>2 DEF AdvanceJob, WithState, TypeOK, sites
<1>3. ASSUME UNCHANGED <<state, siteOf>> PROVE Kept
  BY <1>3
<1>4. ASSUME NEW k \in Calls, AskingStep(k)
      PROVE  Kept \/ \A j \in Calls :
                       \/ siteOf'[j] = siteOf[j] /\ (state'[j] # "absent" => state[j] # "absent")
                       \/ /\ pc[j] = "targeted"
                          /\ pc'[j] = "claimed"
                          /\ siteOf'[j] = target[j]
  <2>1. CASE CreateJob(k)
    BY <2>1 DEF CreateJob, Claim, Goto, TypeOK
  <2>2. CASE ~CreateJob(k)
    BY <1>4, <2>2, <1>3 DEF AskingStep, Ask, CountRunning, FindSite, Reject, FindJob, jobs
  <2> QED BY <2>1, <2>2
<1>5. ASSUME NEW k \in Calls, JobStep(k) \/ JobErrs(k) \/ Drop(k) PROVE Kept
  <2>1. CASE StartCoding(k) \/ StartBuild(k) \/ Repair(k) \/ StartCommit(k)
    BY <2>1, <1>2 DEF StartCoding, StartBuild, Repair, RepairWithin, StartCommit
  <2>2. CASE FindNoChanges(k) \/ StoreFailure(k) \/ CleanUp(k)
    BY <2>2, <1>1, <1>3 DEF FindNoChanges, StoreFailure, CleanUp, jobs
  <2>3. CASE Publish(k)
    BY <2>3, <1>3 DEF Publish, Reveal, WithState, TypeOK, jobs
  <2>4. CASE ReadParent(k) \/ Return(k) \/ Disarm(k) \/ JobErrs(k) \/ Drop(k)
    BY <2>4, <1>3 DEF ReadParent, Return, Disarm, JobErrs, Drop, jobs
  <2> QED BY <1>5, <2>1, <2>2, <2>3, <2>4 DEF JobStep
<1>6. ASSUME NEW m \in Managers, ManagerStep(m) PROVE Kept
  <2>1. CASE Purge(m)
    BY <2>1, <1>0 DEF Purge
  <2>2. CASE ~Purge(m)
    BY <1>6, <2>2, <1>3 DEF ManagerStep, ReadSite, ReadSiteIf, ChooseRevision,
       ActivateRevision, SetStatus, Refuse, jobs
  <2> QED BY <2>1, <2>2
<1>7. CASE Restart
  <2>1. \A j \in Calls :
          [i \in Calls |-> IF state[i] \in Running THEN "failed" ELSE state[i]][j] # "absent"
            => state[j] # "absent"
    BY DEF Running
  <2> QED BY <1>7, <2>1, <1>0 DEF Restart
<1>8. CASE UNCHANGED vars
  BY <1>8, <1>3 DEF vars, jobs
<1> QED BY <1>4, <1>5, <1>6, <1>7, <1>8 DEF Next

\* A call has the job create_job gave it until it returns.
LEMMA JobKept ==
  ASSUME TypeOK, [Next]_vars, NEW k \in Calls, pc'[k] \in Owning
  PROVE  CreateJob(k) \/ FindJob(k) \/ (pc[k] \in Owning /\ job'[k] = job[k])
<1>1. ASSUME NEW j \in Calls, AskingStep(j), ~CreateJob(k), ~FindJob(k)
      PROVE  pc[k] \in Owning /\ job'[k] = job[k]
  BY <1>1 DEF AskingStep, Ask, CountRunning, FindSite, Reject, CreateJob, Claim, FindJob,
     Goto, TypeOK, calls, Owning, Armed, Dropped
<1>2. ASSUME NEW j \in Calls, JobStep(j) \/ JobErrs(j) \/ Drop(j)
      PROVE  pc[k] \in Owning /\ job'[k] = job[k]
  BY <1>2 DEF JobStep, ReadParent, StartCoding, StartBuild, FindNoChanges, Repair,
     RepairWithin, StartCommit, Publish, Return, Disarm, StoreFailure, CleanUp,
     JobErrs, Drop, Step, Goto, TypeOK, Dropped, rest, Owning, Armed
<1>3. CASE \E m \in Managers : ManagerStep(m)
  BY <1>3 DEF ManagerStep, ReadSite, ReadSiteIf, ChooseRevision, ActivateRevision,
     SetStatus, Purge, Refuse, tasks, calls
<1>4. CASE Restart
  BY <1>4 DEF Restart, TypeOK, Owning, Armed, Dropped
<1>5. CASE UNCHANGED vars
  BY <1>5 DEF vars, calls
<1> QED BY <1>1, <1>2, <1>3, <1>4, <1>5 DEF Next

LEMMA NextReferenced == TypeInv /\ [Next]_vars => Referenced'
<1> SUFFICES ASSUME TypeOK, Referenced, [Next]_vars PROVE Referenced'
  BY DEF TypeInv
<1>1. \A j \in Calls : siteOf[j] \in Calls => siteOf'[j] \in Calls
  BY RowsKept DEF Referenced
<1>2. \A j \in Calls : state'[j] # "absent" => siteOf'[j] \in Calls
  BY RowsKept, <1>1 DEF Referenced
<1>3. \A k \in Calls : pc'[k] = "targeted" => target'[k] \in Calls
  <2> SUFFICES ASSUME NEW k \in Calls, pc'[k] = "targeted" PROVE target'[k] \in Calls
    OBVIOUS
  <2>1. CASE FindSite(k)
    BY <2>1 DEF FindSite, Named, Goto, TypeOK
  <2>2. CASE pc[k] = "targeted" /\ target'[k] = target[k]
    BY <2>2 DEF Referenced
  <2>3. FindSite(k) \/ (pc[k] = "targeted" /\ target'[k] = target[k])
    <3>1. ASSUME NEW j \in Calls, AskingStep(j), ~FindSite(k)
          PROVE  pc[k] = "targeted" /\ target'[k] = target[k]
      BY <3>1 DEF AskingStep, Ask, CountRunning, FindSite, Reject, CreateJob, Claim, FindJob,
         Goto, TypeOK, calls
    <3>2. ASSUME NEW j \in Calls, JobStep(j) \/ JobErrs(j) \/ Drop(j)
          PROVE  pc[k] = "targeted" /\ target'[k] = target[k]
      BY <3>2 DEF JobStep, ReadParent, StartCoding, StartBuild, FindNoChanges, Repair,
         RepairWithin, StartCommit, Publish, Return, Disarm, StoreFailure, CleanUp,
         JobErrs, Drop, Step, Goto, TypeOK, Dropped, rest
    <3>3. CASE \E m \in Managers : ManagerStep(m)
      BY <3>3 DEF ManagerStep, ReadSite, ReadSiteIf, ChooseRevision, ActivateRevision,
         SetStatus, Purge, Refuse, tasks, calls
    <3>4. CASE Restart
      BY <3>4 DEF Restart, TypeOK
    <3>5. CASE UNCHANGED vars
      BY <3>5 DEF vars, calls
    <3> QED BY <3>1, <3>2, <3>3, <3>4, <3>5 DEF Next
  <2> QED BY <2>1, <2>2, <2>3
<1>4. \A k \in Calls : pc'[k] \in Owning => job'[k] \in Calls /\ siteOf'[job'[k]] \in Calls
  <2> SUFFICES ASSUME NEW k \in Calls, pc'[k] \in Owning
               PROVE  job'[k] \in Calls /\ siteOf'[job'[k]] \in Calls
    OBVIOUS
  <2>1. CASE CreateJob(k)
    BY <2>1 DEF CreateJob, Claim, Goto, Referenced, TypeOK, Owning, Armed, Dropped
  <2>2. CASE FindJob(k)
    BY <2>2, <1>1 DEF FindJob, JobsFor, Goto, Referenced, TypeOK, Owning, Armed, Dropped, jobs
  <2>3. CASE pc[k] \in Owning /\ job'[k] = job[k]
    BY <2>3, <1>1 DEF Referenced
  <2>4. CreateJob(k) \/ FindJob(k) \/ (pc[k] \in Owning /\ job'[k] = job[k])
    BY JobKept
  <2> QED BY <2>1, <2>2, <2>3, <2>4
<1> QED BY <1>2, <1>3, <1>4 DEF Referenced

\* The strengthened type invariant holds: calls and jobs refer to what exists.
THEOREM TypeInvHolds == Spec => []TypeInv
<1>1. TypeInv /\ [Next]_vars => TypeInv'
  BY NextTypes, NextReferenced DEF TypeInv
<1> QED BY InitTypes, <1>1, PTL DEF Spec

\* The types of VibeJobs, for any number of calls, managers and names.
THEOREM TypesHold == Spec => []TypeOK
<1>1. TypeInv => TypeOK
  BY DEF TypeInv
<1> QED BY <1>1, TypeInvHolds, PTL

-----------------------------------------------------------------------------
(***************************************************************************)
(* The lock of a Vibe site, proved for calls whose tool-use ids differ.    *)
(*                                                                         *)
(* The argument: a call works on the job it created, so nobody else writes *)
(* the job's row; the row stays running until the write that also releases *)
(* the lock, and only that write publishes.                                *)
(***************************************************************************)

\* Tool-use ids name calls.
Apart == \A j, k \in Calls : request[j].id = request[k].id => j = k

\* A call works on the job it created itself.
OwnJobs == \A k \in Calls : pc[k] \in Owning => job[k] = k

Before == {"idle"} \cup Asking
Working == {"claimed", "based", "coding", "building", "committing"}

\* A call without a job yet has left nothing in the database.
Fresh ==
  \A k \in Calls : pc[k] \in Before =>
    state[k] = "absent" /\ ordinal[k] = 0 /\ status[k] = "absent"

\* A create claims the site named after its call.
OwnSites ==
  \A k \in Calls :
    pc[k] = "targeted" /\ request[k].action = "create" => target[k] = k

\* Jobs and revisions go with their site.
Rooted ==
  /\ \A s \in Calls : status[s] = "absent" => lock[s] = NoJob /\ live[s] = NoJob
  /\ \A j \in Calls :
       state[j] # "absent" \/ ordinal[j] # 0 =>
         siteOf[j] \in Calls /\ status[siteOf[j]] # "absent"

\* The row of a job at work says so, unless a purge took it.
Worked == \A k \in Calls : pc[k] \in Working => state[k] \in Running \cup {"absent"}

\* A job has no revision before complete_revision.
Unpublished ==
  \A k \in Calls :
    \/ pc[k] \in Working \cup {"failing", "disarmed"}
    \/ state[k] \in Running \cup {"failed", "no_changes"}
    => ordinal[k] = 0

LockInv ==
  Apart /\ OwnJobs /\ Fresh /\ OwnSites /\ Rooted /\ RunningJobsHoldLocks /\ Worked /\ Unpublished

LEMMA LockInit == DistinctIds /\ Init => LockInv
  BY NoJobAssumption
  DEF DistinctIds, Init, NoJobs, LockInv, Apart, OwnJobs, Fresh, OwnSites, Rooted,
      RunningJobsHoldLocks, RunningJobs, Worked, Unpublished, Before, Asking, Working, Owning,
      Armed, Dropped, Running

\* Nobody finds a job of its own tool use before it has created one.
LEMMA NoJobFound ==
  ASSUME TypeInv, LockInv, NEW k \in Calls PROVE ~FindJob(k)
  BY DEF LockInv, Apart, Fresh, FindJob, JobsFor, Before, Asking

Claimed(k) ==
  /\ CreateJob(k)
  /\ ~GuildIsBusy
  /\ SiteIsFree(k)

\* How a step moves the calls.
LEMMA ControlStep ==
  ASSUME TypeInv, LockInv, [Next]_vars, NEW k \in Calls
  PROVE  /\ request' = request
         /\ pc'[k] \in Before => pc[k] \in Before
         /\ pc'[k] \in Owning => Claimed(k) \/ (pc[k] \in Owning /\ job'[k] = job[k])
         /\ pc'[k] \in Working => Claimed(k) \/ pc[k] \in Working
         /\ pc'[k] \in {"failing", "disarmed"} =>
              pc[k] \in Working \cup {"failing", "disarmed"}
         /\ pc'[k] = "targeted" => FindSite(k) \/ (pc[k] = "targeted" /\ target'[k] = target[k])
<1> USE DEF TypeInv, TypeOK, Goto, Before, Asking, Working, Owning, Armed, Dropped
<1> DEFINE Moves ==
      /\ request' = request
      /\ pc'[k] \in Before => pc[k] \in Before
      /\ pc'[k] \in Owning => Claimed(k) \/ (pc[k] \in Owning /\ job'[k] = job[k])
      /\ pc'[k] \in Working => Claimed(k) \/ pc[k] \in Working
      /\ pc'[k] \in {"failing", "disarmed"} => pc[k] \in Working \cup {"failing", "disarmed"}
      /\ pc'[k] = "targeted" => FindSite(k) \/ (pc[k] = "targeted" /\ target'[k] = target[k])
<1>1. ASSUME NEW j \in Calls, AskingStep(j) PROVE Moves
  <2>1. CASE CreateJob(j)
    BY <2>1 DEF CreateJob, Claim, Claimed
  <2>2. CASE FindSite(j)
    BY <2>2 DEF FindSite
  <2>3. CASE Ask(j) \/ CountRunning(j) \/ Reject(j)
    BY <2>3 DEF Ask, CountRunning, Reject, calls
  <2> QED BY <1>1, <2>1, <2>2, <2>3, NoJobFound DEF AskingStep
<1>2. ASSUME NEW j \in Calls, JobStep(j) \/ JobErrs(j) \/ Drop(j) PROVE Moves
  BY <1>2 DEF JobStep, ReadParent, StartCoding, StartBuild, FindNoChanges, Repair,
     RepairWithin, StartCommit, Publish, Return, Disarm, StoreFailure, CleanUp,
     JobErrs, Drop, Step, rest
<1>3. CASE \E m \in Managers : ManagerStep(m)
  BY <1>3 DEF ManagerStep, ReadSite, ReadSiteIf, ChooseRevision, ActivateRevision,
     SetStatus, Purge, Refuse, tasks, calls
<1>4. CASE Restart
  BY <1>4 DEF Restart
<1>5. CASE UNCHANGED vars
  BY <1>5 DEF vars, calls
<1> QED BY <1>1, <1>2, <1>3, <1>4, <1>5 DEF Next

\* The ways a step writes to the database.
Advanced(k) ==
  /\ pc[k] \in Working
  /\ \E new \in Running : AdvanceJob(k, new)

Ended(k) ==
  \E new \in Terminal \ {"done"} :
    /\ EndJob(k, new)
    /\ pc[k] \in {"coding", "disarmed"} \cup Dropped
    /\ pc'[k] \notin Before \cup Working \cup {"failing", "disarmed"}
    /\ new \in {"failed", "no_changes"} => pc[k] \in {"coding", "disarmed"}

Published(k) ==
  /\ pc[k] = "committing"
  /\ pc'[k] = "published"
  /\ job[k] = k
  /\ MayPublish(k)
  /\ Reveal(siteOf[k], k, NextOrdinal(k))

Managing(m) ==
  \/ ActivateRevision(m)
  \/ SetStatus(m, "archive", "archived")
  \/ SetStatus(m, "restore", "active")

LEMMA DataStep ==
  ASSUME TypeInv, LockInv, [Next]_vars
  PROVE  \/ UNCHANGED <<sites, jobs, ordinal>>
         \/ \E k \in Calls : Claimed(k) \/ Advanced(k) \/ Ended(k) \/ Published(k)
         \/ \E m \in Managers : Managing(m) \/ Purge(m)
         \/ Restart
<1> DEFINE Quiet == UNCHANGED <<sites, jobs, ordinal>>
<1>1. ASSUME NEW k \in Calls, AskingStep(k) PROVE Quiet \/ Claimed(k)
  <2>1. CASE CreateJob(k)
    BY <2>1 DEF CreateJob, Claim, Claimed, sites, jobs
  <2>2. CASE Ask(k) \/ CountRunning(k) \/ FindSite(k) \/ Reject(k)
    BY <2>2 DEF Ask, CountRunning, FindSite, Reject
  <2> QED BY <1>1, <2>1, <2>2, NoJobFound DEF AskingStep
<1>2. ASSUME NEW k \in Calls, JobStep(k) \/ JobErrs(k) \/ Drop(k)
      PROVE  Quiet \/ Advanced(k) \/ Ended(k) \/ Published(k)
  <2>0. pc[k] \in Owning => job[k] = k
    BY DEF LockInv, OwnJobs
  <2>1. CASE StartCoding(k) \/ StartBuild(k) \/ Repair(k) \/ StartCommit(k)
    BY <2>1, <2>0 DEF StartCoding, StartBuild, Repair, RepairWithin, StartCommit, Step,
       Advanced, Working, Owning, Armed, Running
  <2>2. CASE FindNoChanges(k) \/ StoreFailure(k) \/ CleanUp(k)
    BY <2>2, <2>0 DEF FindNoChanges, StoreFailure, CleanUp, Step, Goto, Ended, Working, Owning,
       Armed, Dropped, Terminal, Before, Asking, TypeInv, TypeOK
  <2>3. CASE Publish(k)
    BY <2>3, <2>0 DEF Publish, Published, Goto, Owning, Armed, Site, TypeInv, TypeOK
  <2>4. CASE ReadParent(k) \/ Return(k) \/ Disarm(k) \/ JobErrs(k) \/ Drop(k)
    BY <2>4 DEF ReadParent, Return, Disarm, JobErrs, Drop
  <2> QED BY <1>2, <2>1, <2>2, <2>3, <2>4 DEF JobStep
<1>3. ASSUME NEW m \in Managers, ManagerStep(m) PROVE Quiet \/ Managing(m) \/ Purge(m)
  BY <1>3 DEF ManagerStep, Managing, ReadSite, ReadSiteIf, ChooseRevision, Refuse
<1>4. CASE UNCHANGED vars
  BY <1>4 DEF vars
<1> QED BY <1>1, <1>2, <1>3, <1>4 DEF Next

\* What the deletion of sites leaves.
LEMMA DeleteKeeps ==
  ASSUME TypeInv, NEW S, NEW new, NEW locks, DeleteSites(S, new, locks)
  PROVE  /\ \A s \in Calls :
              /\ s \in S => status'[s] = "absent" /\ lock'[s] = NoJob /\ live'[s] = NoJob
              /\ s \notin S => status'[s] = status[s] /\ lock'[s] = locks[s]
                                 /\ live'[s] = live[s]
         /\ \A j \in Calls :
              /\ siteOf'[j] = siteOf[j]
              /\ siteOf[j] \in S => state'[j] = "absent" /\ ordinal'[j] = 0
              /\ siteOf[j] \notin S => state'[j] = new[j] /\ ordinal'[j] = ordinal[j]
  BY DEF DeleteSites, TypeInv, TypeOK

\* The same for update_job_state with a terminal state.
LEMMA EndKeeps ==
  ASSUME TypeInv, NEW k \in Calls, NEW new, EndJob(k, new)
  PROVE  /\ \A s \in Calls :
              \/ /\ s \in Abortive(k)
                 /\ status'[s] = "absent" /\ lock'[s] = NoJob /\ live'[s] = NoJob
              \/ /\ s \notin Abortive(k)
                 /\ status'[s] = status[s] /\ live'[s] = live[s]
                 /\ lock'[s] = IF lock[s] = k THEN NoJob ELSE lock[s]
         /\ \A j \in Calls :
              /\ siteOf'[j] = siteOf[j]
              /\ \/ siteOf[j] \in Abortive(k) /\ state'[j] = "absent" /\ ordinal'[j] = 0
                 \/ /\ siteOf[j] \notin Abortive(k)
                    /\ ordinal'[j] = ordinal[j]
                    /\ state'[j] = IF j = k /\ state[j] # "absent" THEN new ELSE state[j]
<1>1. \A j \in Calls :
        WithState(k, new)[j] = IF j = k /\ state[j] # "absent" THEN new ELSE state[j]
  BY DEF WithState, TypeInv, TypeOK
<1>2. \A s \in Calls : Unlocked(k)[s] = IF lock[s] = k THEN NoJob ELSE lock[s]
  BY DEF Unlocked
<1>3. DeleteSites(Abortive(k), WithState(k, new), Unlocked(k))
  BY DEF EndJob
<1> QED BY <1>1, <1>2, <1>3, DeleteKeeps

\* The same for recover_interrupted_jobs.
LEMMA RestartKeeps ==
  ASSUME TypeInv, Restart
  PROVE  /\ \A s \in Calls :
              /\ lock'[s] = NoJob
              /\ status[s] = "creating" => status'[s] = "absent" /\ live'[s] = NoJob
              /\ status[s] # "creating" => status'[s] = status[s] /\ live'[s] = live[s]
         /\ \A j \in Calls :
              /\ siteOf'[j] = siteOf[j]
              /\ \/ state'[j] = "absent" /\ ordinal'[j] = 0
                 \/ /\ ordinal'[j] = ordinal[j]
                    /\ state'[j] = IF state[j] \in Running THEN "failed" ELSE state[j]
                    /\ siteOf[j] \in Calls => status[siteOf[j]] # "creating"
<1> DEFINE gone == {s \in Calls : status[s] = "creating"}
           failed == [j \in Calls |-> IF state[j] \in Running THEN "failed" ELSE state[j]]
<1>1. DeleteSites(gone, failed, NoJobs)
  BY DEF Restart
<1>2. \A j \in Calls : failed[j] = IF state[j] \in Running THEN "failed" ELSE state[j]
  OBVIOUS
<1>3. \A s \in Calls : NoJobs[s] = NoJob
  BY DEF NoJobs
<1> HIDE DEF failed
<1> QED BY <1>1, <1>2, <1>3, DeleteKeeps

\* And for the other writes.
LEMMA ClaimKeeps ==
  ASSUME TypeInv, NEW k \in Calls, Claimed(k)
  PROVE  /\ pc[k] = "targeted" /\ pc'[k] = "claimed" /\ job'[k] = k
         /\ target[k] \in Calls
         /\ live' = live /\ ordinal' = ordinal
         /\ \A s \in Calls :
              /\ lock'[s] = IF s = target[k] THEN k ELSE lock[s]
              /\ status'[s] = IF s = target[k] /\ request[k].action = "create"
                                THEN "creating" ELSE status[s]
         /\ \A j \in Calls :
              /\ siteOf'[j] = IF j = k THEN target[k] ELSE siteOf[j]
              /\ state'[j] = IF j = k THEN "queued" ELSE state[j]
  BY DEF Claimed, CreateJob, Claim, Goto, TypeInv, TypeOK, Referenced

LEMMA AdvanceKeeps ==
  ASSUME TypeInv, NEW k \in Calls, Advanced(k)
  PROVE  /\ UNCHANGED <<sites, siteOf, ordinal>>
         /\ \A j \in Calls :
              \/ state'[j] = state[j]
              \/ j = k /\ state[j] # "absent" /\ state'[j] \in Running /\ pc[k] \in Working
  BY DEF Advanced, AdvanceJob, WithState, TypeInv, TypeOK

LEMMA PublishKeeps ==
  ASSUME TypeInv, NEW k \in Calls, Published(k)
  PROVE  /\ siteOf[k] \in Calls /\ siteOf' = siteOf
         /\ NextOrdinal(k) \in Nat \ {0}
         /\ lock[siteOf[k]] = k
         /\ \A s \in Calls :
              /\ lock'[s] = IF s = siteOf[k] THEN NoJob ELSE lock[s]
              /\ live'[s] = IF s = siteOf[k] THEN k ELSE live[s]
              /\ status'[s] = IF s = siteOf[k] THEN "active" ELSE status[s]
         /\ \A j \in Calls :
              /\ ordinal'[j] = IF j = k THEN NextOrdinal(k) ELSE ordinal[j]
              /\ state'[j] = IF j = k /\ state[j] # "absent" THEN "done" ELSE state[j]
<1>1. siteOf[k] \in Calls
  BY DEF Published, TypeInv, Referenced, Owning, Armed
<1>2. NextOrdinal(k) \in Nat \ {0}
  BY DEF NextOrdinal, TypeInv, TypeOK, Jobs
<1> QED
  BY <1>1, <1>2 DEF Published, MayPublish, Reveal, WithState, Site, TypeInv, TypeOK

LEMMA ManageKeeps ==
  ASSUME TypeInv, Rooted, NEW m \in Managers, Managing(m)
  PROVE  /\ UNCHANGED <<lock, state, siteOf, ordinal>>
         /\ pc' = pc
         /\ \A s \in Calls :
              \/ status'[s] = status[s] /\ live'[s] = live[s]
              \/ /\ s = msite[m]
                 /\ mpc[m] \in Operations \cup {"chosen"}
                 /\ status[s] # "absent"
                 /\ \/ status'[s] \in {"active", "archived"} /\ live'[s] = live[s]
                    \/ status'[s] = "active" /\ live'[s] \in RevisionsOf(s)
<1>1. CASE ActivateRevision(m)
  <2>1. CASE chosen[m] \in RevisionsOf(msite[m])
    <3>1. msite[m] \in Calls /\ status[msite[m]] # "absent"
      BY <2>1 DEF RevisionsOf, Rooted
    <3> QED BY <1>1, <2>1, <3>1 DEF ActivateRevision, MStep, TypeInv, TypeOK, jobs, tasks
  <2>2. CASE chosen[m] \notin RevisionsOf(msite[m])
    BY <1>1, <2>2 DEF ActivateRevision, jobs, tasks
  <2> QED BY <2>1, <2>2
<1>2. CASE SetStatus(m, "archive", "archived") \/ SetStatus(m, "restore", "active")
  BY <1>2 DEF SetStatus, MStep, Operations, TypeInv, TypeOK, jobs, tasks
<1> QED BY <1>1, <1>2 DEF Managing

\* A running job is not absent, and what is absent does not hold a lock.
LEMMA LockFacts ==
  ASSUME TypeInv, LockInv
  PROVE  /\ \A j \in Calls : state[j] \in Running => siteOf[j] \in Calls /\ lock[siteOf[j]] = j
         /\ \A s \in Calls : lock[s] # NoJob =>
              /\ lock[s] \in Calls /\ state[lock[s]] \in Running /\ siteOf[lock[s]] = s
              /\ status[s] # "absent"
  BY NoJobAssumption
  DEF LockInv, Rooted, RunningJobsHoldLocks, RunningJobs, TypeInv, TypeOK, Jobs, Running

LEMMA ControlNext ==
  ASSUME TypeInv, LockInv, [Next]_vars
  PROVE  Apart' /\ OwnJobs' /\ OwnSites'
<1>1. Apart'
  BY ControlStep DEF LockInv, Apart
<1>2. OwnJobs'
  BY ControlStep, ClaimKeeps DEF LockInv, OwnJobs
<1>3. OwnSites'
  <2> SUFFICES ASSUME NEW k \in Calls, pc'[k] = "targeted", request'[k].action = "create"
               PROVE  target'[k] = k
    BY DEF OwnSites
  <2>1. CASE FindSite(k)
    BY <2>1, ControlStep DEF FindSite, TypeInv, TypeOK
  <2>2. CASE pc[k] = "targeted" /\ target'[k] = target[k]
    BY <2>2, ControlStep DEF LockInv, OwnSites
  <2> QED BY <2>1, <2>2, ControlStep
<1> QED BY <1>1, <1>2, <1>3

LEMMA FreshNext ==
  ASSUME TypeInv, LockInv, [Next]_vars
  PROVE  Fresh'
<1> SUFFICES ASSUME NEW k \in Calls, pc'[k] \in Before
             PROVE  state'[k] = "absent" /\ ordinal'[k] = 0 /\ status'[k] = "absent"
  BY DEF Fresh
<1>0. /\ pc[k] \in Before
      /\ state[k] = "absent" /\ ordinal[k] = 0 /\ status[k] = "absent"
  BY ControlStep DEF LockInv, Fresh
<1>1. CASE UNCHANGED <<sites, jobs, ordinal>>
  BY <1>0, <1>1 DEF sites, jobs
<1>2. ASSUME NEW j \in Calls, Claimed(j)
      PROVE  state'[k] = "absent" /\ ordinal'[k] = 0 /\ status'[k] = "absent"
  <2>1. pc'[j] \notin Before
    BY <1>2, ClaimKeeps DEF Before, Asking
  <2>2. request[j].action = "create" => target[j] = j
    BY <1>2, ClaimKeeps DEF LockInv, OwnSites
  <2> QED BY <1>0, <1>2, <2>1, <2>2, ClaimKeeps
<1>3. ASSUME NEW j \in Calls, Advanced(j)
      PROVE  state'[k] = "absent" /\ ordinal'[k] = 0 /\ status'[k] = "absent"
  BY <1>0, <1>3, AdvanceKeeps DEF sites
<1>4. ASSUME NEW j \in Calls, Ended(j)
      PROVE  state'[k] = "absent" /\ ordinal'[k] = 0 /\ status'[k] = "absent"
  BY <1>0, <1>4, EndKeeps DEF Ended
<1>5. ASSUME NEW j \in Calls, Published(j)
      PROVE  state'[k] = "absent" /\ ordinal'[k] = 0 /\ status'[k] = "absent"
  <2>1. pc'[j] \notin Before
    BY <1>5 DEF Published, Before, Asking
  <2>2. status[siteOf[j]] # "absent"
    BY <1>5, PublishKeeps, LockFacts, NoJobAssumption
  <2> QED BY <1>0, <1>5, <2>1, <2>2, PublishKeeps
<1>6. ASSUME NEW m \in Managers, Managing(m)
      PROVE  state'[k] = "absent" /\ ordinal'[k] = 0 /\ status'[k] = "absent"
  BY <1>0, <1>6, ManageKeeps DEF LockInv
<1>7. ASSUME NEW m \in Managers, Purge(m)
      PROVE  state'[k] = "absent" /\ ordinal'[k] = 0 /\ status'[k] = "absent"
  BY <1>0, <1>7, DeleteKeeps DEF Purge
<1>8. CASE Restart
  BY <1>0, <1>8, RestartKeeps DEF Running
<1> QED BY <1>1, <1>2, <1>3, <1>4, <1>5, <1>6, <1>7, <1>8, DataStep

LEMMA RootedNext ==
  ASSUME TypeInv, LockInv, [Next]_vars
  PROVE  Rooted'
<1>0. Rooted
  BY DEF LockInv
<1>1. CASE UNCHANGED <<sites, jobs, ordinal>>
  BY <1>0, <1>1 DEF Rooted, sites, jobs
<1>2. ASSUME NEW k \in Calls, Claimed(k) PROVE Rooted'
  <2>1. request[k].action = "create" => target[k] = k
    BY <1>2, ClaimKeeps DEF LockInv, OwnSites
  <2>2. request[k].action # "create" => status[target[k]] # "absent"
    BY <1>2 DEF Claimed, SiteIsFree
  <2>3. ordinal[k] = 0 /\ state[k] = "absent" /\ status[k] = "absent"
    BY <1>2, ClaimKeeps DEF LockInv, Fresh, Before, Asking
  <2> QED BY <1>0, <1>2, <2>1, <2>2, <2>3, ClaimKeeps DEF Rooted
<1>3. ASSUME NEW k \in Calls, Advanced(k) PROVE Rooted'
  BY <1>0, <1>3, AdvanceKeeps DEF Rooted, sites
<1>4. ASSUME NEW k \in Calls, Ended(k) PROVE Rooted'
  BY <1>0, <1>4, EndKeeps DEF Rooted, Ended
<1>5. ASSUME NEW k \in Calls, Published(k) PROVE Rooted'
  <2>1. status[siteOf[k]] # "absent"
    BY <1>5, PublishKeeps, LockFacts, NoJobAssumption
  <2> QED BY <1>0, <1>5, <2>1, PublishKeeps DEF Rooted
<1>6. ASSUME NEW m \in Managers, Managing(m) PROVE Rooted'
  BY <1>0, <1>6, ManageKeeps DEF Rooted
<1>7. ASSUME NEW m \in Managers, Purge(m) PROVE Rooted'
  BY <1>0, <1>7, DeleteKeeps DEF Rooted, Purge
<1>8. CASE Restart
  BY <1>0, <1>8, RestartKeeps DEF Rooted, Running
<1> QED BY <1>1, <1>2, <1>3, <1>4, <1>5, <1>6, <1>7, <1>8, DataStep

LEMMA LocksNext ==
  ASSUME TypeInv, LockInv, [Next]_vars
  PROVE  RunningJobsHoldLocks'
<1> DEFINE Held ==
      /\ \A j \in Calls : state'[j] \in Running => siteOf'[j] \in Calls /\ lock'[siteOf'[j]] = j
      /\ \A s \in Calls : lock'[s] # NoJob =>
           lock'[s] \in Calls /\ state'[lock'[s]] \in Running /\ siteOf'[lock'[s]] = s
<1>0. Held => RunningJobsHoldLocks'
  BY DEF RunningJobsHoldLocks, RunningJobs
<1>1. ASSUME UNCHANGED <<sites, jobs, ordinal>> PROVE Held
  BY <1>1, LockFacts DEF sites, jobs
<1>2. ASSUME NEW k \in Calls, Claimed(k) PROVE Held
  <2>1. state[k] = "absent" /\ status[k] = "absent"
    BY <1>2, ClaimKeeps DEF LockInv, Fresh, Before, Asking
  <2>2. lock[target[k]] = NoJob
    <3>1. CASE request[k].action = "create"
      BY <2>1, <3>1, <1>2, ClaimKeeps DEF LockInv, OwnSites, Rooted
    <3>2. CASE request[k].action # "create"
      BY <3>2, <1>2 DEF Claimed, SiteIsFree
    <3> QED BY <3>1, <3>2
  <2>3. \A s \in Calls : lock[s] # k
    BY <2>1, LockFacts, NoJobAssumption DEF Running
  <2> QED BY <1>2, <2>1, <2>2, <2>3, ClaimKeeps, LockFacts, NoJobAssumption DEF Running
<1>3. ASSUME NEW k \in Calls, Advanced(k) PROVE Held
  <2>1. state[k] # "absent" => state[k] \in Running
    BY <1>3 DEF Advanced, LockInv, Worked, Running
  <2> QED BY <1>3, <2>1, AdvanceKeeps, LockFacts DEF sites
<1>4. ASSUME NEW k \in Calls, Ended(k) PROVE Held
  BY <1>4, EndKeeps, LockFacts, NoJobAssumption DEF Ended, Terminal, Running
<1>5. ASSUME NEW k \in Calls, Published(k) PROVE Held
  BY <1>5, PublishKeeps, LockFacts, NoJobAssumption DEF Running
<1>6. ASSUME NEW m \in Managers, Managing(m) PROVE Held
  BY <1>6, ManageKeeps, LockFacts DEF LockInv
<1>7. ASSUME NEW m \in Managers, Purge(m) PROVE Held
  BY <1>7, DeleteKeeps, LockFacts DEF Purge, Running
<1>8. ASSUME Restart PROVE Held
  BY <1>8, RestartKeeps, NoJobAssumption DEF Running
<1> HIDE DEF Held
<1>9. Held
  BY <1>1, <1>2, <1>3, <1>4, <1>5, <1>6, <1>7, <1>8, DataStep
<1> QED BY <1>0, <1>9

LEMMA WorkedNext ==
  ASSUME TypeInv, LockInv, [Next]_vars
  PROVE  Worked'
<1> SUFFICES ASSUME NEW k \in Calls, pc'[k] \in Working
             PROVE  state'[k] \in Running \cup {"absent"}
  BY DEF Worked
<1>0. CASE Claimed(k)
  BY <1>0, ClaimKeeps DEF Running
<1>a. CASE ~Claimed(k)
  <2>0. pc[k] \in Working /\ state[k] \in Running \cup {"absent"}
    BY <1>a, ControlStep DEF LockInv, Worked
  <2>1. CASE UNCHANGED <<sites, jobs, ordinal>>
    BY <2>0, <2>1 DEF jobs
  <2>2. ASSUME NEW j \in Calls, Claimed(j) PROVE state'[k] \in Running \cup {"absent"}
    BY <2>0, <2>2, ClaimKeeps DEF Running
  <2>3. ASSUME NEW j \in Calls, Advanced(j) PROVE state'[k] \in Running \cup {"absent"}
    BY <2>0, <2>3, AdvanceKeeps
  <2>4. ASSUME NEW j \in Calls, Ended(j) PROVE state'[k] \in Running \cup {"absent"}
    BY <2>0, <2>4, EndKeeps DEF Ended
  <2>5. ASSUME NEW j \in Calls, Published(j) PROVE state'[k] \in Running \cup {"absent"}
    <3>1. j # k
      BY <2>5 DEF Published, Working
    <3> QED BY <2>0, <2>5, <3>1, PublishKeeps
  <2>6. ASSUME NEW m \in Managers, Managing(m) PROVE state'[k] \in Running \cup {"absent"}
    BY <2>0, <2>6, ManageKeeps DEF LockInv
  <2>7. ASSUME NEW m \in Managers, Purge(m) PROVE state'[k] \in Running \cup {"absent"}
    BY <2>0, <2>7, DeleteKeeps DEF Purge
  <2>8. CASE Restart
    BY <2>8 DEF Restart, Working, TypeInv, TypeOK
  <2> QED BY <2>1, <2>2, <2>3, <2>4, <2>5, <2>6, <2>7, <2>8, DataStep
<1> QED BY <1>0, <1>a

LEMMA UnpublishedNext ==
  ASSUME TypeInv, LockInv, [Next]_vars
  PROVE  Unpublished'
<1> DEFINE Poor == {"failed", "no_changes"} \cup Running
           Early == Working \cup {"failing", "disarmed"}
           Goal(k) == pc'[k] \in Early \/ state'[k] \in Poor => ordinal'[k] = 0
<1> SUFFICES ASSUME NEW k \in Calls PROVE Goal(k)
  BY DEF Unpublished
<1>0. /\ pc[k] \in Early \/ state[k] \in Poor => ordinal[k] = 0
      /\ pc'[k] \in Early => pc[k] \in Early \/ Claimed(k)
  BY ControlStep DEF LockInv, Unpublished
<1>a. CASE Claimed(k)
  <2>1. ordinal[k] = 0
    BY <1>a, ClaimKeeps DEF LockInv, Fresh, Before, Asking
  <2> QED BY <1>a, <2>1, ClaimKeeps
<1>b. CASE ~Claimed(k)
  <2>1. CASE UNCHANGED <<sites, jobs, ordinal>>
    BY <1>0, <1>b, <2>1 DEF jobs
  <2>2. ASSUME NEW j \in Calls, Claimed(j) PROVE Goal(k)
    BY <1>0, <1>b, <2>2, ClaimKeeps
  <2>3. ASSUME NEW j \in Calls, Advanced(j) PROVE Goal(k)
    BY <1>0, <1>b, <2>3, AdvanceKeeps
  <2>4. ASSUME NEW j \in Calls, Ended(j) PROVE Goal(k)
    <3>1. CASE j = k /\ pc[k] \in Dropped
      BY <1>0, <1>b, <2>4, <3>1, EndKeeps DEF Ended, Working, Dropped, Terminal, Running
    <3>2. CASE j = k /\ pc[k] \notin Dropped
      BY <1>0, <2>4, <3>2, EndKeeps DEF Ended, Working
    <3>3. CASE j # k
      BY <1>0, <1>b, <2>4, <3>3, EndKeeps DEF Ended
    <3> QED BY <3>1, <3>2, <3>3
  <2>5. ASSUME NEW j \in Calls, Published(j) PROVE Goal(k)
    <3>1. CASE j = k
      <4>1. pc'[k] \notin Early
        BY <2>5, <3>1 DEF Published, Working
      <4>2. state[k] # "absent"
        BY <2>5, <3>1, PublishKeeps, LockFacts, NoJobAssumption DEF Running
      <4> QED BY <2>5, <3>1, <4>1, <4>2, PublishKeeps DEF Running
    <3>2. CASE j # k
      BY <1>0, <1>b, <2>5, <3>2, PublishKeeps
    <3> QED BY <3>1, <3>2
  <2>6. ASSUME NEW m \in Managers, Managing(m) PROVE Goal(k)
    BY <1>0, <1>b, <2>6, ManageKeeps DEF LockInv
  <2>7. ASSUME NEW m \in Managers, Purge(m) PROVE Goal(k)
    BY <1>0, <1>b, <2>7, DeleteKeeps DEF Purge, Running
  <2>8. CASE Restart
    <3>1. pc'[k] \notin Early
      BY <2>8 DEF Restart, Working, TypeInv, TypeOK
    <3> QED BY <1>0, <2>8, <3>1, RestartKeeps DEF Running
  <2> HIDE DEF Goal
  <2> QED BY <2>1, <2>2, <2>3, <2>4, <2>5, <2>6, <2>7, <2>8, DataStep
<1> QED BY <1>a, <1>b

LEMMA LockNext == TypeInv /\ LockInv /\ [Next]_vars => LockInv'
  BY ControlNext, FreshNext, RootedNext, LocksNext, WorkedNext, UnpublishedNext DEF LockInv

\* The strengthened invariant about the lock holds.
THEOREM LockInvHolds == DistinctIds /\ Spec => [](TypeInv /\ LockInv)
<1>1. DistinctIds /\ Init => LockInv
  BY LockInit
<1>2. TypeInv /\ LockInv /\ [Next]_vars => LockInv'
  BY LockNext
<1>3. Spec => []TypeInv
  BY TypeInvHolds
<1> QED BY <1>1, <1>2, <1>3, PTL DEF Spec

\* A running job holds its site's lock and nothing else holds one, for any
\* number of calls, managers, names and restarts.
THEOREM RunningJobsHoldLocksHolds == DistinctIds /\ Spec => []RunningJobsHoldLocks
<1>1. LockInv => RunningJobsHoldLocks
  BY DEF LockInv
<1> QED BY <1>1, LockInvHolds, PTL

\* A job whose failure is stored has no revision.
THEOREM FailedJobsHold == DistinctIds /\ Spec => []FailedJobsPublishNothing
<1>1. LockInv => FailedJobsPublishNothing
  BY DEF LockInv, Unpublished, FailedJobsPublishNothing
<1> QED BY <1>1, LockInvHolds, PTL

(***************************************************************************)
(* The sites, for calls whose tool-use ids differ.                         *)
(*                                                                         *)
(* The argument: a site being created is locked by its first job and shows *)
(* nothing, and what a manager has read as created stays created; the      *)
(* parent a job read stays the site's for as long as the job runs, since   *)
(* only the holder of the lock publishes and a purge takes the job along.  *)
(***************************************************************************)
\* A site being created shows nothing.
Unshown == \A s \in Calls : status[s] = "creating" => live[s] = NoJob

\* What a manager read as no longer being created stays so.
Managed ==
  \A m \in Managers : mpc[m] \in Operations \cup {"chosen"} =>
    msite[m] \in Calls /\ pc[msite[m]] \notin Before /\ status[msite[m]] # "creating"

Based == Working \ {"claimed"}

\* The parent read by a job that still runs is the site's, or the site has none.
Parented ==
  \A k \in Calls : pc[k] \in Based /\ state[k] \in Running =>
    IF base[k] = NoJob THEN RevisionsOf(siteOf[k]) = {}
                       ELSE base[k] \in RevisionsOf(siteOf[k])

SiteInv ==
  /\ TypeInv
  /\ LockInv
  /\ SitesAreShownOrMade
  /\ Unshown
  /\ Managed
  /\ Parented
  /\ OrdinalsAreDense

\* The revisions of a site stay as they are.
Same(s) == RevisionsOf(s)' = RevisionsOf(s) /\ \A r \in RevisionsOf(s) : ordinal'[r] = ordinal[r]

\* The site goes, with its jobs and revisions.
Gone(s) ==
  /\ status'[s] = "absent"
  /\ RevisionsOf(s)' = {}
  /\ \A j \in Calls : siteOf'[j] = s => state'[j] = "absent"

\* The site gets the revision of job k.
Added(s, k) ==
  /\ k \notin RevisionsOf(s)
  /\ RevisionsOf(s)' = RevisionsOf(s) \cup {k}
  /\ ordinal'[k] = NextOrdinal(k)
  /\ \A r \in RevisionsOf(s) : ordinal'[r] = ordinal[r] /\ ordinal[r] # NextOrdinal(k)

\* Deleting sites takes whole histories.
LEMMA DeletedOrSame ==
  ASSUME TypeInv, NEW S, NEW new, NEW locks, DeleteSites(S, new, locks), NEW s \in Calls
  PROVE  IF s \in S THEN Gone(s) ELSE Same(s)
  BY DeleteKeeps DEF Gone, Same, RevisionsOf

\* What each kind of write does to a site's revisions.
LEMMA ClaimRevisions ==
  ASSUME TypeInv, LockInv, NEW k \in Calls, Claimed(k), NEW s \in Calls
  PROVE  Same(s)
<1>1. ordinal[k] = 0
  BY ClaimKeeps DEF LockInv, Fresh, Before, Asking
<1> QED BY <1>1, ClaimKeeps DEF Same, RevisionsOf

LEMMA PublishRevisions ==
  ASSUME TypeInv, NEW k \in Calls, Published(k), NEW s \in Calls
  PROVE  IF s = siteOf[k] THEN Added(s, k) ELSE Same(s)
<1>1. /\ ordinal[k] = 0
      /\ \A r \in RevisionsOf(siteOf[k]) : ordinal[r] # NextOrdinal(k)
  BY DEF Published, MayPublish, Site
<1> QED BY <1>1, PublishKeeps DEF Same, Added, RevisionsOf

LEMMA EndRevisions ==
  ASSUME TypeInv, NEW k \in Calls, NEW new, EndJob(k, new), NEW s \in Calls
  PROVE  IF s \in Abortive(k) THEN Gone(s) ELSE Same(s)
  BY DeletedOrSame DEF EndJob

LEMMA RestartRevisions ==
  ASSUME TypeInv, Restart, NEW s \in Calls
  PROVE  IF status[s] = "creating" THEN Gone(s) ELSE Same(s)
<1> DEFINE gone == {c \in Calls : status[c] = "creating"}
<1>1. DeleteSites(gone, [j \in Calls |-> IF state[j] \in Running THEN "failed" ELSE state[j]], NoJobs)
  BY DEF Restart
<1>2. IF s \in gone THEN Gone(s) ELSE Same(s)
  BY <1>1, DeletedOrSame
<1> QED BY <1>2

LEMMA OtherRevisions ==
  ASSUME UNCHANGED <<siteOf, ordinal>>, NEW s \in Calls
  PROVE  Same(s)
  BY DEF Same, RevisionsOf

\* In short.
LEMMA Revisions ==
  ASSUME TypeInv, LockInv, [Next]_vars, NEW s \in Calls
  PROVE  Same(s) \/ Gone(s) \/ \E k \in Calls : Published(k) /\ s = siteOf[k] /\ Added(s, k)
<1>1. CASE UNCHANGED <<sites, jobs, ordinal>>
  BY <1>1, OtherRevisions DEF jobs
<1>2. ASSUME NEW k \in Calls, Claimed(k) \/ Advanced(k) PROVE Same(s)
  BY <1>2, ClaimRevisions, AdvanceKeeps, OtherRevisions
<1>3. ASSUME NEW k \in Calls, Ended(k) PROVE Same(s) \/ Gone(s)
  BY <1>3, EndRevisions DEF Ended
<1>4. ASSUME NEW k \in Calls, Published(k) PROVE Same(s) \/ (s = siteOf[k] /\ Added(s, k))
  BY <1>4, PublishRevisions
<1>5. ASSUME NEW m \in Managers, Managing(m) PROVE Same(s)
  BY <1>5, ManageKeeps, OtherRevisions DEF LockInv
<1>6. ASSUME NEW m \in Managers, Purge(m) PROVE Same(s) \/ Gone(s)
  BY <1>6, DeletedOrSame DEF Purge
<1>7. CASE Restart
  BY <1>7, RestartRevisions
<1> QED BY <1>1, <1>2, <1>3, <1>4, <1>5, <1>6, <1>7, DataStep

-----------------------------------------------------------------------------

LEMMA DenseNext ==
  ASSUME SiteInv, [Next]_vars
  PROVE  OrdinalsAreDense'
<1> DEFINE Dense(s) ==
      /\ \A r \in RevisionsOf(s) :
           ordinal[r] = 1 \/ \E p \in RevisionsOf(s) : ordinal[r] = ordinal[p] + 1
      /\ \A p, r \in RevisionsOf(s) : ordinal[p] = ordinal[r] => p = r
<1> SUFFICES ASSUME NEW s \in Calls PROVE Dense(s)'
  BY DEF OrdinalsAreDense
<1>0. Dense(s)
  BY DEF SiteInv, OrdinalsAreDense
<1>1. CASE Same(s)
  BY <1>0, <1>1 DEF Same
<1>2. CASE Gone(s)
  BY <1>2 DEF Gone
<1>3. ASSUME NEW k \in Calls, Published(k), s = siteOf[k], Added(s, k) PROVE Dense(s)'
  <2>1. NextOrdinal(k) = 1 \/ \E p \in RevisionsOf(s) : NextOrdinal(k) = ordinal[p] + 1
    <3>1. pc[k] \in Based /\ state[k] \in Running
      BY <1>3, PublishKeeps, LockFacts, NoJobAssumption
         DEF Published, Based, Working, SiteInv
    <3> QED BY <3>1, <1>3 DEF SiteInv, Parented, NextOrdinal
  <2> QED BY <1>0, <1>3, <2>1 DEF Added
<1> QED BY <1>1, <1>2, <1>3, Revisions DEF SiteInv

-----------------------------------------------------------------------------

\* How a step moves the managers and the parents that the jobs read.
LEMMA ManagerControl ==
  ASSUME TypeInv, [Next]_vars, NEW m \in Managers, mpc'[m] \in Operations \cup {"chosen"}
  PROVE  \/ mpc[m] \in Operations \cup {"chosen"} /\ msite'[m] = msite[m]
         \/ \E s \in Calls, operation \in Operations : ReadSite(m, s, operation) /\ msite'[m] = s
<1> DEFINE Goal ==
      \/ mpc[m] \in Operations \cup {"chosen"} /\ msite'[m] = msite[m]
      \/ \E s \in Calls, operation \in Operations : ReadSite(m, s, operation) /\ msite'[m] = s
<1> USE DEF TypeInv, TypeOK, Operations
<1>1. ASSUME UNCHANGED <<mpc, msite>> PROVE Goal
  BY <1>1
<1>2. ASSUME NEW n \in Managers, ManagerStep(n) PROVE Goal
  <2>1. ASSUME NEW s \in Calls, NEW operation \in Operations, ReadSite(n, s, operation)
        PROVE  Goal
    <3>1. CASE n = m
      <4>1. msite'[m] = s
        BY <2>1, <3>1 DEF ReadSite, ReadSiteIf
      <4> QED BY <2>1, <3>1, <4>1
    <3>2. CASE n # m
      BY <2>1, <3>2 DEF ReadSite, ReadSiteIf, MStep
    <3> QED BY <3>1, <3>2
  <2>2. CASE \E r \in Calls : ChooseRevision(n, r)
    BY <2>2 DEF ChooseRevision, MStep
  <2>3. CASE \/ ActivateRevision(n)
             \/ SetStatus(n, "archive", "archived")
             \/ SetStatus(n, "restore", "active")
             \/ Purge(n)
             \/ Refuse(n)
    BY <2>3 DEF ActivateRevision, SetStatus, Purge, Refuse, MStep
  <2> HIDE DEF Goal
  <2> QED BY <1>2, <2>1, <2>2, <2>3 DEF ManagerStep
<1>3. ASSUME NEW k \in Calls, AskingStep(k) PROVE UNCHANGED <<mpc, msite>>
  BY <1>3 DEF AskingStep, Ask, CountRunning, FindSite, Reject, CreateJob, Claim, FindJob,
     managers
<1>4. ASSUME NEW k \in Calls, JobStep(k) \/ JobErrs(k) \/ Drop(k)
      PROVE  UNCHANGED <<mpc, msite>>
  BY <1>4 DEF JobStep, ReadParent, StartCoding, StartBuild, FindNoChanges, Repair,
     RepairWithin, StartCommit, Publish, Return, Disarm, StoreFailure, CleanUp,
     JobErrs, Drop, rest, managers
<1>5. CASE Restart
  BY <1>5 DEF Restart
<1>6. CASE UNCHANGED vars
  BY <1>6, <1>1 DEF vars, managers
<1> HIDE DEF Goal
<1> QED BY <1>1, <1>2, <1>3, <1>4, <1>5, <1>6 DEF Next, Goal

LEMMA ParentControl ==
  ASSUME TypeInv, LockInv, [Next]_vars, NEW k \in Calls, pc'[k] \in Based
  PROVE  ReadParent(k) \/ (pc[k] \in Based /\ base'[k] = base[k])
<1> USE DEF TypeInv, TypeOK, Goto, Based, Working
<1> DEFINE Goal == ReadParent(k) \/ (pc[k] \in Based /\ base'[k] = base[k])
<1>1. ASSUME NEW j \in Calls, AskingStep(j) PROVE Goal
  BY <1>1 DEF AskingStep, Ask, CountRunning, FindSite, Reject, CreateJob, Claim, FindJob,
     calls
<1>2. ASSUME NEW j \in Calls, JobStep(j) \/ JobErrs(j) \/ Drop(j) PROVE Goal
  <2>1. CASE ReadParent(j)
    BY <2>1 DEF ReadParent, Step
  <2>2. CASE ~ReadParent(j)
    BY <1>2, <2>2 DEF JobStep, StartCoding, StartBuild, FindNoChanges, Repair,
       RepairWithin, StartCommit, Publish, Return, Disarm, StoreFailure, CleanUp,
       JobErrs, Drop, Step, Dropped
  <2> QED BY <2>1, <2>2
<1>3. CASE \E m \in Managers : ManagerStep(m)
  BY <1>3 DEF ManagerStep, ReadSite, ReadSiteIf, ChooseRevision, ActivateRevision,
     SetStatus, Purge, Refuse, tasks, calls
<1>4. CASE Restart
  BY <1>4 DEF Restart
<1>5. CASE UNCHANGED vars
  BY <1>5 DEF vars, calls
<1> QED BY <1>1, <1>2, <1>3, <1>4, <1>5 DEF Next

\* A create finds its site's name unused and leaves nothing of an earlier site.
LEMMA NewSite ==
  ASSUME TypeInv, LockInv, NEW k \in Calls, Claimed(k)
  PROVE  /\ status[k] = "absent" /\ live[k] = NoJob /\ RevisionsOf(k) = {}
         /\ request[k].action = "create" => target[k] = k
         /\ request[k].action # "create" => lock[target[k]] = NoJob /\ target[k] # k
<1>1. status[k] = "absent" /\ live[k] = NoJob /\ RevisionsOf(k) = {}
  BY ClaimKeeps DEF LockInv, Fresh, Rooted, RevisionsOf, Before, Asking
<1>2. request[k].action = "create" => target[k] = k
  BY ClaimKeeps DEF LockInv, OwnSites
<1>3. request[k].action # "create" =>
        lock[target[k]] = NoJob /\ status[target[k]] # "absent"
  BY DEF Claimed, SiteIsFree
<1> QED BY <1>1, <1>2, <1>3

\* A site with a lock that is free has been shown before.
LEMMA Settled ==
  ASSUME SiteInv, NEW s \in Calls, status[s] # "absent", status[s] # "creating"
  PROVE  status[s] \in {"active", "archived"} /\ live[s] \in RevisionsOf(s)
  BY DEF SiteInv, SitesAreShownOrMade, TypeInv, TypeOK, Statuses

LEMMA ShownNext ==
  ASSUME SiteInv, [Next]_vars
  PROVE  SitesAreShownOrMade' /\ Unshown'
<1> DEFINE Shown(s) ==
      /\ status[s] \in {"active", "archived"} => live[s] \in RevisionsOf(s)
      /\ status[s] = "creating" => lock[s] = s /\ RevisionsOf(s) = {}
      /\ status[s] = "creating" => live[s] = NoJob
<1> SUFFICES ASSUME NEW s \in Calls PROVE Shown(s)'
  BY DEF SitesAreShownOrMade, Unshown
<1>0. TypeInv /\ LockInv /\ Shown(s)
  BY DEF SiteInv, SitesAreShownOrMade, Unshown
<1>1. CASE UNCHANGED <<sites, jobs, ordinal>>
  <2>1. Same(s)
    BY <1>1, OtherRevisions DEF jobs
  <2> QED BY <1>0, <1>1, <2>1 DEF Same, sites
<1>2. ASSUME NEW k \in Calls, Claimed(k) PROVE Shown(s)'
  <2>1. Same(s)
    BY <1>0, <1>2, ClaimRevisions
  <2> QED BY <1>0, <1>2, <2>1, ClaimKeeps, NewSite, NoJobAssumption DEF Same
<1>3. ASSUME NEW k \in Calls, Advanced(k) PROVE Shown(s)'
  <2>1. Same(s)
    BY <1>0, <1>3, AdvanceKeeps, OtherRevisions
  <2> QED BY <1>0, <1>3, <2>1, AdvanceKeeps DEF Same, sites
<1>4. ASSUME NEW k \in Calls, Ended(k) PROVE Shown(s)'
  <2>1. PICK new : EndJob(k, new)
    BY <1>4 DEF Ended
  <2>2. CASE s \in Abortive(k)
    BY <1>0, <2>1, <2>2, EndRevisions DEF Gone
  <2>3. CASE s \notin Abortive(k)
    <3>1. status[s] = "creating" => lock[s] # k
      BY <1>0, <2>3, LockFacts, NoJobAssumption DEF Abortive, Running
    <3>2. Same(s)
      BY <1>0, <2>1, <2>3, EndRevisions
    <3> QED BY <1>0, <2>1, <2>3, <3>1, <3>2, EndKeeps DEF Same
  <2> QED BY <2>2, <2>3
<1>5. ASSUME NEW k \in Calls, Published(k) PROVE Shown(s)'
  <2>1. CASE s = siteOf[k]
    <3>1. Added(s, k)
      BY <1>0, <1>5, <2>1, PublishRevisions
    <3> QED BY <1>0, <1>5, <2>1, <3>1, PublishKeeps DEF Added
  <2>2. CASE s # siteOf[k]
    <3>1. Same(s)
      BY <1>0, <1>5, <2>2, PublishRevisions
    <3> QED BY <1>0, <1>5, <2>2, <3>1, PublishKeeps DEF Same
  <2> QED BY <2>1, <2>2
<1>6. ASSUME NEW m \in Managers, Managing(m) PROVE Shown(s)'
  <2>1. Same(s)
    BY <1>0, <1>6, ManageKeeps, OtherRevisions DEF LockInv
  <2>2. mpc[m] \in Operations \cup {"chosen"} /\ msite[m] = s => status[s] # "creating"
    BY <1>6 DEF SiteInv, Managed
  <2>3. /\ lock' = lock
        /\ \/ status'[s] = status[s] /\ live'[s] = live[s]
           \/ /\ s = msite[m]
              /\ mpc[m] \in Operations \cup {"chosen"}
              /\ status[s] # "absent"
              /\ \/ status'[s] \in {"active", "archived"} /\ live'[s] = live[s]
                 \/ status'[s] = "active" /\ live'[s] \in RevisionsOf(s)
    BY <1>0, <1>6, ManageKeeps DEF LockInv
  <2> QED BY <1>0, <2>1, <2>2, <2>3, Settled DEF Same
<1>7. ASSUME NEW m \in Managers, Purge(m) PROVE Shown(s)'
  <2>1. DeleteSites({msite[m]}, state, lock)
    BY <1>7 DEF Purge
  <2>2. IF s \in {msite[m]} THEN Gone(s) ELSE Same(s)
    BY <1>0, <2>1, DeletedOrSame
  <2> QED BY <1>0, <2>1, <2>2, DeleteKeeps DEF Same, Gone
<1>8. CASE Restart
  <2>1. IF status[s] = "creating" THEN Gone(s) ELSE Same(s)
    BY <1>0, <1>8, RestartRevisions
  <2> QED BY <1>0, <1>8, <2>1, RestartKeeps DEF Same, Gone
<1> HIDE DEF Shown
<1> QED BY <1>0, <1>1, <1>2, <1>3, <1>4, <1>5, <1>6, <1>7, <1>8, DataStep

\* Only create_job makes a site that is being created.
LEMMA CreatingStep ==
  ASSUME TypeInv, LockInv, [Next]_vars, NEW s \in Calls, status'[s] = "creating"
  PROVE  status[s] = "creating" \/ Claimed(s)
<1>1. ASSUME NEW k \in Calls, Claimed(k) PROVE status[s] = "creating" \/ Claimed(s)
  BY <1>1, ClaimKeeps, NewSite
<1>2. ASSUME NEW k \in Calls, Advanced(k) \/ Ended(k) PROVE status[s] = "creating"
  BY <1>2, AdvanceKeeps, EndKeeps DEF sites, Ended
<1>3. ASSUME NEW k \in Calls, Published(k) PROVE status[s] = "creating"
  BY <1>3, PublishKeeps
<1>4. ASSUME NEW m \in Managers, Managing(m) PROVE status[s] = "creating"
  BY <1>4, ManageKeeps DEF LockInv
<1>5. ASSUME NEW m \in Managers, Purge(m) PROVE status[s] = "creating"
  BY <1>5, DeleteKeeps DEF Purge
<1>6. CASE Restart
  BY <1>6, RestartKeeps
<1> QED BY <1>1, <1>2, <1>3, <1>4, <1>5, <1>6, DataStep DEF sites

LEMMA ManagedNext ==
  ASSUME SiteInv, [Next]_vars
  PROVE  Managed'
<1> DEFINE Fit(s) == s \in Calls /\ pc[s] \notin Before /\ status[s] # "creating"
<1> SUFFICES ASSUME NEW m \in Managers, mpc'[m] \in Operations \cup {"chosen"}
             PROVE  Fit(msite[m])'
  BY DEF Managed
<1>1. ASSUME NEW s \in Calls, Fit(s) PROVE Fit(s)'
  <2>1. pc'[s] \notin Before
    BY <1>1, ControlStep DEF SiteInv
  <2>2. ~Claimed(s)
    BY <1>1, ClaimKeeps DEF SiteInv, Before, Asking
  <2> QED BY <1>1, <2>1, <2>2, CreatingStep DEF SiteInv
<1>2. ASSUME NEW s \in Calls, NEW operation \in Operations, ReadSite(m, s, operation)
      PROVE  Fit(s)
  BY <1>2, NoJobAssumption
     DEF ReadSite, ReadSiteIf, SiteInv, LockInv, Fresh, SitesAreShownOrMade
<1> HIDE DEF Fit
<1>3. CASE mpc[m] \in Operations \cup {"chosen"} /\ msite'[m] = msite[m]
  <2>1. Fit(msite[m])
    BY <1>3 DEF SiteInv, Managed, Fit
  <2>2. Fit(msite[m])' <=> msite'[m] \in Calls /\ pc'[msite'[m]] \notin Before
                             /\ status'[msite'[m]] # "creating"
    BY DEF Fit
  <2>3. msite[m] \in Calls
    BY <2>1 DEF Fit
  <2> QED BY <1>1, <1>3, <2>1, <2>2, <2>3 DEF Fit
<1>4. ASSUME NEW s \in Calls, NEW operation \in Operations, ReadSite(m, s, operation),
             msite'[m] = s
      PROVE  Fit(msite[m])'
  <2>1. Fit(s)'
    BY <1>1, <1>2, <1>4
  <2> QED BY <1>4, <2>1 DEF Fit
<1> QED BY <1>3, <1>4, ManagerControl DEF SiteInv

LEMMA ParentedNext ==
  ASSUME SiteInv, [Next]_vars
  PROVE  Parented'
<1> SUFFICES ASSUME NEW k \in Calls, pc'[k] \in Based, state'[k] \in Running
             PROVE  (IF base[k] = NoJob THEN RevisionsOf(siteOf[k]) = {}
                                        ELSE base[k] \in RevisionsOf(siteOf[k]))'
  BY DEF Parented
<1>0. TypeInv /\ LockInv
  BY DEF SiteInv
<1>1. \/ pc[k] \in Working /\ ReadParent(k)
      \/ pc[k] \in Based /\ base'[k] = base[k]
  BY <1>0, ParentControl DEF ReadParent, Step, Working
<1>2. siteOf'[k] = siteOf[k] /\ state[k] \in Running
  <2>1. pc[k] \in Working
    BY <1>1 DEF Based
  <2> QED BY <1>0, <2>1, RowsKept DEF LockInv, Worked, Working, Running, TypeInv
<1>3. PICK s \in Calls : s = siteOf[k] /\ lock[s] = k /\ status[s] # "absent"
  BY <1>0, <1>2, LockFacts, NoJobAssumption
<1>p. RevisionsOf(siteOf[k])' = RevisionsOf(s)'
  BY <1>2, <1>3 DEF RevisionsOf
<1>4. CASE ReadParent(k)
  <2>1. base'[k] = live[s]
    BY <1>0, <1>3, <1>4 DEF ReadParent, Step, Site, LockInv, OwnJobs, Owning, Armed, TypeInv, TypeOK
  <2>2. Same(s)
    BY <1>3, <1>4, OtherRevisions DEF ReadParent, jobs
  <2>3. IF live[s] = NoJob THEN RevisionsOf(s) = {} ELSE live[s] \in RevisionsOf(s)
    <3>1. CASE status[s] = "creating"
      BY <1>3, <3>1 DEF SiteInv, Unshown, SitesAreShownOrMade
    <3>2. CASE status[s] # "creating"
      BY <1>3, <3>2, Settled, NoJobAssumption DEF RevisionsOf
    <3> QED BY <3>1, <3>2
  <2> QED BY <1>p, <2>1, <2>2, <2>3 DEF Same
<1>5. CASE pc[k] \in Based /\ base'[k] = base[k]
  <2>1. IF base[k] = NoJob THEN RevisionsOf(s) = {} ELSE base[k] \in RevisionsOf(s)
    BY <1>2, <1>3, <1>5 DEF SiteInv, Parented
  <2>2. ~Gone(s)
    BY <1>2, <1>3 DEF Gone, Running
  <2>3. ASSUME NEW j \in Calls, Published(j) PROVE s # siteOf[j]
    BY <1>0, <1>3, <2>3, PublishKeeps DEF Published, Based, Working
  <2>4. Same(s)
    BY <1>0, <1>3, <2>2, <2>3, Revisions
  <2> QED BY <1>p, <1>5, <2>1, <2>4 DEF Same
<1> QED BY <1>1, <1>4, <1>5

LEMMA SiteInit == DistinctIds /\ Init => SiteInv
<1> SUFFICES ASSUME DistinctIds, Init PROVE SiteInv
  OBVIOUS
<1>1. TypeInv /\ LockInv
  BY InitTypes, LockInit
<1>2. SitesAreShownOrMade /\ Unshown /\ Managed /\ Parented /\ OrdinalsAreDense
  BY DEF Init, SitesAreShownOrMade, Unshown, Managed, Parented, OrdinalsAreDense,
     RevisionsOf, Based, Working, Operations
<1> QED BY <1>1, <1>2 DEF SiteInv

\* The strengthened invariant about sites holds.
THEOREM SiteInvHolds == DistinctIds /\ Spec => []SiteInv
<1>1. SiteInv /\ [Next]_vars => SiteInv'
  <2> SUFFICES ASSUME SiteInv, [Next]_vars PROVE SiteInv'
    OBVIOUS
  <2>1. TypeInv'
    BY NextTypes, NextReferenced DEF SiteInv, TypeInv
  <2>2. LockInv'
    BY LockNext DEF SiteInv
  <2> QED BY <2>1, <2>2, ShownNext, ManagedNext, ParentedNext, DenseNext DEF SiteInv
<1> QED BY SiteInit, <1>1, PTL DEF Spec

\* A site that viewers can be shown has the revision it serves, and a site
\* without one is locked by the job that makes it, whatever is dropped,
\* rolled back, purged or restarted meanwhile.
THEOREM SitesAreShownOrMadeHolds == DistinctIds /\ Spec => []SitesAreShownOrMade
<1>1. SiteInv => SitesAreShownOrMade
  BY DEF SiteInv
<1> QED BY <1>1, SiteInvHolds, PTL

\* Revisions are numbered without gaps or repetitions.
THEOREM OrdinalsAreDenseHolds == DistinctIds /\ Spec => []OrdinalsAreDense
<1>1. SiteInv => OrdinalsAreDense
  BY DEF SiteInv
<1> QED BY <1>1, SiteInvHolds, PTL

-----------------------------------------------------------------------------
(* VibeJobs implements VibeSites. *)

Histories == [s \in Calls |-> History(s)]

LEMMA SameHistory ==
  ASSUME NEW s, Same(s) PROVE History(s)' = History(s)
  BY DEF Same, History

LEMMA GoneHistory ==
  ASSUME NEW s, RevisionsOf(s)' = {} PROVE History(s)' = Sites!NoHistory
  BY DEF History, Sites!NoHistory

LEMMA EmptyHistory ==
  ASSUME TypeInv, NEW s
  PROVE  History(s) = Sites!NoHistory <=> RevisionsOf(s) = {}
<1>1. \A r \in RevisionsOf(s) : History(s)[r] # 0
  BY DEF History, RevisionsOf
<1> QED BY <1>1 DEF History, Sites!NoHistory, RevisionsOf

LEMMA AddedHistory ==
  ASSUME TypeInv, NEW s \in Calls, NEW k \in Calls, Added(s, k)
  PROVE  History(s)' = [History(s) EXCEPT ![k] = NextOrdinal(k)]
<1>1. \A r \in Calls :
        (IF r \in RevisionsOf(s)' THEN ordinal'[r] ELSE 0)
          = IF r = k THEN NextOrdinal(k) ELSE History(s)[r]
  BY DEF Added, History
<1> QED BY <1>1 DEF History

LEMMA MapInit == Init => Sites!Init
  BY DEF Init, NoJobs, Sites!Init, Sites!NoHistory, History, RevisionsOf

LEMMA MapPublish ==
  ASSUME SiteInv, NEW k \in Calls, Published(k)
  PROVE  \E s \in Calls : Sites!Publish(s, k)
<1>0. TypeInv /\ LockInv
  BY DEF SiteInv
<1> PICK s \in Calls : s = siteOf[k]
  BY <1>0, PublishKeeps
<1>1. Added(s, k)
  BY <1>0, PublishRevisions
<1>2. Sites!Move(s, {"creating", "active", "archived"}, "active")
  <2>1. status[s] # "absent"
    BY <1>0, PublishKeeps, LockFacts, NoJobAssumption
  <2>2. status' = [status EXCEPT ![s] = "active"]
    BY <1>0 DEF Published, Reveal
  <2> QED BY <1>0, <2>1, <2>2 DEF Sites!Move, TypeInv, TypeOK, Statuses
<1>3. Histories[s][k] = 0 /\ live' = [live EXCEPT ![s] = k]
  BY <1>0, <1>1 DEF Histories, History, Added, Published, Reveal
<1>4. Histories' = [Histories EXCEPT ![s][k] = NextOrdinal(k)]
  <2>1. \A r \in Calls : r # s => History(r)' = History(r)
    BY <1>0, PublishRevisions, SameHistory
  <2>2. History(s)' = [History(s) EXCEPT ![k] = NextOrdinal(k)]
    BY <1>0, <1>1, AddedHistory
  <2> QED BY <2>1, <2>2 DEF Histories
<1>5. PICK n \in {0} \cup {Histories[s][p] : p \in Calls} :
        /\ n = 0 <=> Histories[s] = Sites!NoHistory
        /\ NextOrdinal(k) = n + 1
  <2>1. pc[k] \in Based /\ state[k] \in Running
    BY <1>0, PublishKeeps, LockFacts, NoJobAssumption DEF Published, Based, Working
  <2>2. IF base[k] = NoJob THEN RevisionsOf(s) = {} ELSE base[k] \in RevisionsOf(s)
    BY <2>1 DEF SiteInv, Parented
  <2>3. CASE base[k] = NoJob
    <3>1. Histories[s] = Sites!NoHistory
      BY <1>0, <2>2, <2>3, EmptyHistory DEF Histories
    <3> QED BY <2>3, <3>1 DEF NextOrdinal
  <2>4. CASE base[k] # NoJob
    <3>1. Histories[s][base[k]] = ordinal[base[k]] /\ base[k] \in Calls /\ ordinal[base[k]] # 0
      BY <2>2, <2>4 DEF Histories, History, RevisionsOf
    <3>2. Histories[s] # Sites!NoHistory
      BY <1>0, <2>2, <2>4, EmptyHistory DEF Histories
    <3> QED BY <2>4, <3>1, <3>2 DEF NextOrdinal
  <2> QED BY <2>3, <2>4
<1>6. \A p \in Calls : Histories[s][p] # n + 1
  <2>1. n + 1 # 0
    BY <1>0, <1>5, PublishKeeps
  <2> QED BY <1>1, <1>5, <2>1 DEF Histories, History, Added
<1>7. \E o \in {0} \cup {Histories[s][p] : p \in Calls} :
        /\ o = 0 <=> Histories[s] = Sites!NoHistory
        /\ \A p \in Calls : Histories[s][p] # o + 1
        /\ Histories' = [Histories EXCEPT ![s][k] = o + 1]
  BY <1>4, <1>5, <1>6
<1>8. Sites!Publish(s, k)
  BY <1>2, <1>3, <1>7, Zenon DEF Sites!Publish, Histories
<1> QED BY <1>8

LEMMA SameHistories ==
  ASSUME \A s \in Calls : Same(s) PROVE Histories' = Histories
  BY SameHistory DEF Histories

\* A site without revisions has the same history when it goes.
LEMMA GoneWithout ==
  ASSUME TypeInv,
         \A s \in Calls : Same(s) \/ (RevisionsOf(s) = {} /\ RevisionsOf(s)' = {})
  PROVE  Histories' = Histories
<1>1. \A s \in Calls : History(s)' = History(s)
  BY SameHistory, GoneHistory, EmptyHistory
<1> QED BY <1>1 DEF Histories

LEMMA MapClaim ==
  ASSUME SiteInv, NEW k \in Calls, Claimed(k)
  PROVE  UNCHANGED <<status, Histories, live>> \/ Sites!Claim(k)
<1>0. TypeInv /\ LockInv
  BY DEF SiteInv
<1>1. Histories' = Histories /\ live' = live
  BY <1>0, ClaimRevisions, ClaimKeeps, SameHistories
<1>2. CASE request[k].action = "create"
  <2>1. status[k] = "absent" /\ status' = [status EXCEPT ![k] = "creating"]
    BY <1>0, <1>2, NewSite DEF Claimed, CreateJob, Claim
  <2> QED BY <1>1, <2>1 DEF Sites!Claim, Sites!Move, Histories
<1>3. CASE request[k].action # "create"
  BY <1>1, <1>3 DEF Claimed, CreateJob, Claim
<1> QED BY <1>2, <1>3

LEMMA MapEnd ==
  ASSUME SiteInv, NEW k \in Calls, Ended(k)
  PROVE  UNCHANGED <<status, Histories, live>> \/ \E s \in Calls : Sites!Discard(s)
<1>0. TypeInv /\ LockInv
  BY DEF SiteInv
<1>1. PICK new : EndJob(k, new)
  BY DEF Ended
<1>2. Histories' = Histories
  <2>1. \A s \in Calls : Same(s) \/ (RevisionsOf(s) = {} /\ RevisionsOf(s)' = {})
    BY <1>0, <1>1, EndRevisions DEF Gone, Abortive, SiteInv, SitesAreShownOrMade
  <2> QED BY <1>0, <2>1, GoneWithout
<1>3. live' = live
  <2>1. \A s \in Calls : live'[s] = live[s]
    BY <1>0, <1>1, EndKeeps DEF Abortive, SiteInv, Unshown
  <2>2. live' = [s \in Calls |-> live'[s]]
    BY <1>1 DEF EndJob, DeleteSites
  <2> QED BY <1>0, <2>1, <2>2 DEF TypeInv, TypeOK
<1>4. status' = [s \in Calls |-> IF s \in Abortive(k) THEN "absent" ELSE status[s]]
  BY <1>1 DEF EndJob, DeleteSites
<1>5. CASE Abortive(k) = {}
  <2>1. status' = status
    BY <1>0, <1>4, <1>5 DEF TypeInv, TypeOK
  <2> QED BY <1>2, <1>3, <2>1
<1>6. ASSUME NEW s \in Calls, s \in Abortive(k) PROVE Sites!Discard(s)
  <2>1. status[s] = "creating" /\ \A c \in Calls : c \in Abortive(k) <=> c = s
    BY <1>6 DEF Abortive
  <2>2. status' = [status EXCEPT ![s] = "absent"]
    BY <1>0, <1>4, <2>1 DEF TypeInv, TypeOK
  <2> QED BY <1>2, <1>3, <2>1, <2>2 DEF Sites!Discard, Sites!Move, Histories
<1> QED BY <1>5, <1>6 DEF Abortive

LEMMA MapManaging ==
  ASSUME SiteInv, NEW m \in Managers, Managing(m)
  PROVE  \/ UNCHANGED <<status, Histories, live>>
         \/ \E s \in Calls : Sites!SetStatus(s) \/ \E r \in Calls : Sites!Rollback(s, r)
<1>0. TypeInv /\ LockInv
  BY DEF SiteInv
<1>1. Histories' = Histories
  <2>1. \A s \in Calls : Same(s)
    BY <1>0, ManageKeeps, OtherRevisions DEF LockInv
  <2> QED BY <2>1, SameHistories
<1> DEFINE s == msite[m]
<1>2. s \in Calls /\ status[s] # "creating"
  BY DEF SiteInv, Managed, Managing, ActivateRevision, SetStatus, MStep, Operations
<1>3. CASE ActivateRevision(m)
  <2>1. CASE chosen[m] \in RevisionsOf(s)
    <3>1. status[s] \in {"active", "archived"} /\ chosen[m] \in Calls
      BY <1>0, <1>2, <2>1 DEF RevisionsOf, LockInv, Rooted, TypeInv, TypeOK, Statuses
    <3>2. Histories[s][chosen[m]] # 0
      BY <1>2, <2>1 DEF Histories, History, RevisionsOf
    <3>3. /\ live' = [live EXCEPT ![s] = chosen[m]]
          /\ status' = [status EXCEPT ![s] = "active"]
      BY <1>3, <2>1 DEF ActivateRevision
    <3>4. Sites!Rollback(s, chosen[m])
      BY <1>1, <3>1, <3>2, <3>3 DEF Sites!Rollback, Sites!Move, Histories
    <3> QED BY <1>2, <3>1, <3>4
  <2>2. CASE chosen[m] \notin RevisionsOf(s)
    BY <1>1, <1>3, <2>2 DEF ActivateRevision
  <2> QED BY <2>1, <2>2
<1>4. ASSUME NEW operation, NEW new \in {"active", "archived"}, SetStatus(m, operation, new)
      PROVE  UNCHANGED <<status, Histories, live>> \/ Sites!SetStatus(s)
  <2>1. CASE status[s] = "absent"
    <3>1. status' = status
      BY <1>0, <1>4, <2>1 DEF SetStatus, TypeInv, TypeOK
    <3> QED BY <1>1, <1>4, <3>1 DEF SetStatus
  <2>2. CASE status[s] # "absent"
    <3>1. status[s] \in {"active", "archived"}
      BY <1>2, <2>2, Settled
    <3>2. status' = [status EXCEPT ![s] = new] /\ live' = live
      BY <1>4, <2>2 DEF SetStatus
    <3> QED BY <1>1, <3>1, <3>2 DEF Sites!SetStatus, Sites!Move, Histories
  <2> QED BY <2>1, <2>2
<1> QED BY <1>2, <1>3, <1>4 DEF Managing

LEMMA MapPurge ==
  ASSUME SiteInv, NEW m \in Managers, Purge(m)
  PROVE  UNCHANGED <<status, Histories, live>> \/ \E s \in Calls : Sites!Purge(s)
<1>0. TypeInv /\ LockInv
  BY DEF SiteInv
<1>1. DeleteSites({msite[m]}, state, lock)
  BY DEF Purge
<1>2. PICK s \in Calls : s = msite[m] /\ status[s] # "creating"
  BY DEF SiteInv, Managed, Purge, MStep, Operations
<1>3. Gone(s) /\ \A c \in Calls : c # s => Same(c)
  BY <1>0, <1>1, <1>2, DeletedOrSame
<1>4. /\ status' = [status EXCEPT ![s] = "absent"]
      /\ live' = [live EXCEPT ![s] = NoJob]
  BY <1>0, <1>1, <1>2 DEF DeleteSites, TypeInv, TypeOK
<1>5. CASE status[s] = "absent"
  <2>1. RevisionsOf(s) = {} /\ live[s] = NoJob
    BY <1>0, <1>5 DEF LockInv, Rooted, RevisionsOf
  <2>2. Histories' = Histories
    BY <1>0, <1>3, <2>1, GoneWithout DEF Gone
  <2>3. status' = status /\ live' = live
    BY <1>0, <1>4, <1>5, <2>1 DEF TypeInv, TypeOK
  <2> QED BY <2>2, <2>3
<1>6. CASE status[s] # "absent"
  <2>1. status[s] \in {"active", "archived"}
    BY <1>2, <1>6, Settled
  <2>2. Histories' = [Histories EXCEPT ![s] = Sites!NoHistory]
    <3>1. \A c \in Calls : c # s => History(c)' = History(c)
      BY <1>3, SameHistory
    <3>2. History(s)' = Sites!NoHistory
      BY <1>3, GoneHistory DEF Gone
    <3> QED BY <3>1, <3>2 DEF Histories
  <2>3. Sites!Purge(s)
    BY <1>4, <2>1, <2>2 DEF Sites!Purge, Sites!Move, Histories
  <2> QED BY <2>3
<1> QED BY <1>5, <1>6

LEMMA MapRestart ==
  ASSUME SiteInv, Restart
  PROVE  Sites!Restart
<1>0. TypeInv /\ LockInv
  BY DEF SiteInv
<1>1. Histories' = Histories
  <2>1. \A s \in Calls : Same(s) \/ (RevisionsOf(s) = {} /\ RevisionsOf(s)' = {})
    BY <1>0, RestartRevisions DEF Gone, SiteInv, SitesAreShownOrMade
  <2> QED BY <1>0, <2>1, GoneWithout
<1>2. live' = live
  <2>1. \A s \in Calls : live'[s] = live[s]
    BY <1>0, RestartKeeps DEF SiteInv, Unshown
  <2>2. live' = [s \in Calls |-> live'[s]]
    BY DEF Restart, DeleteSites
  <2> QED BY <1>0, <2>1, <2>2 DEF TypeInv, TypeOK
<1>3. status' = [s \in Calls |-> IF status[s] = "creating" THEN "absent" ELSE status[s]]
  BY DEF Restart, DeleteSites
<1> QED BY <1>1, <1>2, <1>3 DEF Sites!Restart, Histories

\* Every step of jobs, managers and the process is one the abstract
\* specification allows, for any number of calls: a site's revisions are only
\* added to, each numbered after the one it was made from, the one it serves is
\* one of them, and only a purge takes them.
THEOREM ImplementsVibeSitesHolds == DistinctIds /\ Spec => ImplementsVibeSites
<1>1. SiteInv /\ [Next]_vars => [Sites!Next]_(Sites!vars)
  <2> SUFFICES ASSUME SiteInv, [Next]_vars PROVE [Sites!Next]_(Sites!vars)
    OBVIOUS
  <2>0. TypeInv /\ LockInv
    BY DEF SiteInv
  <2>1. UNCHANGED <<status, Histories, live>> => UNCHANGED Sites!vars
    BY Zenon DEF Sites!vars, Histories
  <2>2. CASE UNCHANGED <<sites, jobs, ordinal>>
    <3>1. Histories' = Histories
      BY <2>2, OtherRevisions, SameHistories DEF jobs
    <3> QED BY <2>1, <2>2, <3>1 DEF sites
  <2>3. ASSUME NEW k \in Calls, Claimed(k) PROVE [Sites!Next]_(Sites!vars)
    BY <2>1, <2>3, MapClaim DEF Sites!Next
  <2>4. ASSUME NEW k \in Calls, Advanced(k) PROVE [Sites!Next]_(Sites!vars)
    <3>1. UNCHANGED <<sites, siteOf, ordinal>>
      BY <2>0, <2>4, AdvanceKeeps
    <3>2. Histories' = Histories
      BY <3>1, OtherRevisions, SameHistories
    <3> QED BY <2>1, <3>1, <3>2 DEF sites
  <2>5. ASSUME NEW k \in Calls, Ended(k) PROVE [Sites!Next]_(Sites!vars)
    BY <2>1, <2>5, MapEnd DEF Sites!Next
  <2>6. ASSUME NEW k \in Calls, Published(k) PROVE [Sites!Next]_(Sites!vars)
    BY <2>6, MapPublish DEF Sites!Next
  <2>7. ASSUME NEW m \in Managers, Managing(m) PROVE [Sites!Next]_(Sites!vars)
    BY <2>1, <2>7, MapManaging DEF Sites!Next
  <2>8. ASSUME NEW m \in Managers, Purge(m) PROVE [Sites!Next]_(Sites!vars)
    BY <2>1, <2>8, MapPurge DEF Sites!Next
  <2>9. CASE Restart
    BY <2>9, MapRestart DEF Sites!Next
  <2> QED BY <2>0, <2>2, <2>3, <2>4, <2>5, <2>6, <2>7, <2>8, <2>9, DataStep
<1> QED BY MapInit, <1>1, SiteInvHolds, PTL DEF Spec, ImplementsVibeSites, Sites!Spec

-----------------------------------------------------------------------------
(* The guild's limit. *)

GuildInv == IsFiniteSet(RunningJobs) /\ GuildLimitHolds

\* Only create_job adds to the running jobs, one at a time.
LEMMA RunningStep ==
  ASSUME TypeInv, LockInv, [Next]_vars
  PROVE  \/ RunningJobs' \subseteq RunningJobs
         \/ ~GuildIsBusy /\ \E k \in Calls : RunningJobs' = RunningJobs \cup {k}
<1> USE DEF RunningJobs
<1>1. CASE UNCHANGED <<sites, jobs, ordinal>>
  BY <1>1 DEF jobs
<1>2. ASSUME NEW k \in Calls, Claimed(k)
      PROVE  ~GuildIsBusy /\ RunningJobs' = RunningJobs \cup {k}
  <2>1. "queued" \in Running
    BY DEF Running
  <2>2. \A j \in Calls : state'[j] = IF j = k THEN "queued" ELSE state[j]
    BY <1>2, ClaimKeeps
  <2> QED BY <1>2, <2>1, <2>2 DEF Claimed
<1>3. ASSUME NEW k \in Calls, Advanced(k) PROVE RunningJobs' \subseteq RunningJobs
  BY <1>3, AdvanceKeeps DEF LockInv, Worked
<1>4. ASSUME NEW k \in Calls, Ended(k) PROVE RunningJobs' \subseteq RunningJobs
  BY <1>4, EndKeeps DEF Ended, Terminal, Running
<1>5. ASSUME NEW k \in Calls, Published(k) PROVE RunningJobs' \subseteq RunningJobs
  BY <1>5, PublishKeeps DEF Running
<1>6. ASSUME NEW m \in Managers, Managing(m) PROVE RunningJobs' \subseteq RunningJobs
  BY <1>6, ManageKeeps DEF LockInv
<1>7. ASSUME NEW m \in Managers, Purge(m) PROVE RunningJobs' \subseteq RunningJobs
  BY <1>7, DeleteKeeps DEF Purge, Running
<1>8. CASE Restart
  BY <1>8, RestartKeeps DEF Running
<1> QED BY <1>1, <1>2, <1>3, <1>4, <1>5, <1>6, <1>7, <1>8, DataStep

LEMMA GuildInit == Init => GuildInv
<1> SUFFICES ASSUME Init PROVE GuildInv
  OBVIOUS
<1>1. RunningJobs = {}
  BY DEF Init, RunningJobs, Running
<1> QED BY <1>1, FS_EmptySet, LimitsAssumption DEF GuildInv, GuildLimitHolds

LEMMA GuildNext ==
  ASSUME TypeInv, LockInv, GuildInv, [Next]_vars
  PROVE  GuildInv'
<1>0. IsFiniteSet(RunningJobs) /\ Cardinality(RunningJobs) \in Nat /\ MaxRunning \in Nat
  BY FS_CardinalityType, LimitsAssumption DEF GuildInv
<1>1. CASE RunningJobs' \subseteq RunningJobs
  <2>1. IsFiniteSet(RunningJobs') /\ Cardinality(RunningJobs') <= Cardinality(RunningJobs)
    BY <1>0, <1>1, FS_Subset
  <2>2. Cardinality(RunningJobs') \in Nat
    BY <2>1, FS_CardinalityType
  <2> QED BY <1>0, <2>1, <2>2 DEF GuildInv, GuildLimitHolds
<1>2. ASSUME ~GuildIsBusy, NEW k \in Calls, RunningJobs' = RunningJobs \cup {k}
      PROVE  GuildInv'
  <2>1. /\ IsFiniteSet(RunningJobs')
        /\ Cardinality(RunningJobs') \in {Cardinality(RunningJobs), Cardinality(RunningJobs) + 1}
    BY <1>0, <1>2, FS_AddElement
  <2>2. Cardinality(RunningJobs) + 1 <= MaxRunning
    BY <1>0, <1>2 DEF GuildIsBusy
  <2> QED BY <1>0, <2>1, <2>2 DEF GuildInv, GuildLimitHolds
<1> QED BY <1>1, <1>2, RunningStep

\* However many calls there are, the guild's running jobs stay within the
\* limit that create_job counts against.
THEOREM GuildLimitIsKept == DistinctIds /\ Spec => []GuildLimitHolds
<1>1. TypeInv /\ LockInv /\ GuildInv /\ [Next]_vars => GuildInv'
  BY GuildNext
<1>2. GuildInv => GuildLimitHolds
  BY DEF GuildInv
<1> QED BY GuildInit, <1>1, <1>2, LockInvHolds, PTL DEF Spec
=============================================================================
