------------------------------ MODULE VibeJobs ------------------------------
(***************************************************************************)
(* The jobs that create and edit Vibe sites, and the operations that       *)
(* manage a site while they run, in one guild.                             *)
(*                                                                         *)
(* A call of the vibe tool is a future of the turn that made it: it may be *)
(* dropped at any await by the job timeout or with the turn, and leaves    *)
(* its job to a cleanup task.  Calls, cleanup tasks, vibe_manage calls and *)
(* the purge command meet in the database only; one transaction or one     *)
(* query is one action.                                                    *)
(*                                                                         *)
(* A job is named by the call that created it, a site by the job that      *)
(* created it, a revision by the job that built it (vibe_revisions.job_id  *)
(* is unique).  Refs and files in the repositories are not modelled: the   *)
(* program serves what the database names.                                 *)
(***************************************************************************)
EXTENDS Integers, FiniteSets

CONSTANTS
  Calls,          \* calls of the vibe tool
  Managers,       \* calls of vibe_manage, runs of the purge command
  Names,          \* site names
  RequestMaps,    \* what the calls may ask for
  MaxRunning,     \* limits.max_running_jobs_per_guild
  MaxRepairs,     \* sandbox.max_repair_attempts
  MaxRestarts,    \* bound: exits of the process
  NoJob

Requests == [action : {"create", "edit"}, name : Names, id : Calls]

ASSUME NoJobAssumption == NoJob \notin Calls
ASSUME LimitsAssumption == {MaxRunning, MaxRepairs, MaxRestarts} \subseteq Nat
ASSUME RequestsAssumption == RequestMaps \subseteq [Calls -> Requests]

VARIABLES
  \* PostgreSQL
  status,    \* vibe_sites.status; "absent" without a row
  lock,      \* vibe_sites.running_job_id
  live,      \* vibe_sites.active_revision_id
  state,     \* vibe_jobs.state; "absent" without a row
  siteOf,    \* vibe_jobs.site_id
  ordinal,   \* vibe_revisions.ordinal; 0 without a row
  \* the calls
  request,   \* the tool input and the tool-use id
  pc,
  target,    \* the site find_site_by_name returned
  job,       \* the job create_job returned
  base,      \* the active revision read when the job started
  repairs,   \* failed clean builds that went back to the agent
  \* the managers
  mpc, msite, chosen,
  restarts

sites == <<status, lock, live>>
jobs == <<state, siteOf>>
calls == <<target, job, base, repairs>>
managers == <<mpc, msite, chosen>>
vars == <<sites, jobs, ordinal, request, pc, calls, managers, restarts>>

Statuses == {"absent", "creating", "active", "archived"}
Running == {"queued", "coding", "building", "repair", "committing"}
Terminal == {"done", "no_changes", "failed", "cancelled", "timed_out"}
Jobs == Calls \cup {NoJob}

\* run_job before create_job returns.
Asking == {"asked", "counted", "targeted"}
\* The job's JobCleanup is armed.
Armed == {"claimed", "based", "coding", "building", "committing", "failing",
          "published", "unchanged"}
\* The call is gone, its cleanup task is not.
Dropped == {"timed_out", "cancelled"}
Controls == {"idle", "disarmed", "done"} \cup Asking \cup Armed \cup Dropped
Operations == {"rollback", "archive", "restore", "purge"}

TypeOK ==
  /\ status \in [Calls -> Statuses]
  /\ lock \in [Calls -> Jobs]
  /\ live \in [Calls -> Jobs]
  /\ state \in [Calls -> {"absent"} \cup Running \cup Terminal]
  /\ siteOf \in [Calls -> Jobs]
  /\ ordinal \in [Calls -> Nat]
  /\ request \in [Calls -> Requests]
  /\ pc \in [Calls -> Controls]
  /\ target \in [Calls -> Jobs]
  /\ job \in [Calls -> Jobs]
  /\ base \in [Calls -> Jobs]
  /\ repairs \in [Calls -> 0 .. MaxRepairs]
  /\ mpc \in [Managers -> {"idle", "chosen", "done"} \cup Operations]
  /\ msite \in [Managers -> Jobs]
  /\ chosen \in [Managers -> Jobs]
  /\ restarts \in 0 .. MaxRestarts

NoJobs == [k \in Calls |-> NoJob]

Init ==
  /\ status = [s \in Calls |-> "absent"]
  /\ lock = NoJobs
  /\ live = NoJobs
  /\ state = [j \in Calls |-> "absent"]
  /\ siteOf = NoJobs
  /\ ordinal = [j \in Calls |-> 0]
  /\ request \in RequestMaps
  /\ pc = [k \in Calls |-> "idle"]
  /\ target = NoJobs
  /\ job = NoJobs
  /\ base = NoJobs
  /\ repairs = [k \in Calls |-> 0]
  /\ mpc = [m \in Managers |-> "idle"]
  /\ msite = [m \in Managers |-> NoJob]
  /\ chosen = [m \in Managers |-> NoJob]
  /\ restarts = 0

Goto(k, next) == pc' = [pc EXCEPT ![k] = next]
Step(k, from, to) == pc[k] = from /\ Goto(k, to)

Site(k) == siteOf[job[k]]
RunningJobs == {j \in Calls : state[j] \in Running}
RevisionsOf(s) == {r \in Calls : ordinal[r] # 0 /\ siteOf[r] = s}
Named(name) == {s \in Calls : status[s] # "absent" /\ request[s].name = name}
JobsFor(id) == {j \in Calls : state[j] # "absent" /\ request[j].id = id}

\* DELETE FROM vibe_sites cascades to the site's jobs and revisions.
DeleteSites(S, newState, newLock) ==
  /\ status' = [s \in Calls |-> IF s \in S THEN "absent" ELSE status[s]]
  /\ lock' = [s \in Calls |-> IF s \in S THEN NoJob ELSE newLock[s]]
  /\ live' = [s \in Calls |-> IF s \in S THEN NoJob ELSE live[s]]
  /\ state' = [j \in Calls |-> IF siteOf[j] \in S THEN "absent" ELSE newState[j]]
  /\ ordinal' = [j \in Calls |-> IF siteOf[j] \in S THEN 0 ELSE ordinal[j]]
  /\ UNCHANGED siteOf

-----------------------------------------------------------------------------
(* update_job_state and complete_revision. *)

\* An UPDATE of a job that is gone changes nothing.
WithState(j, new) == [state EXCEPT ![j] = IF @ = "absent" THEN @ ELSE new]

\* A job that ends without a revision takes its new site with it.
Abortive(j) == {s \in Calls : state[j] # "absent" /\ siteOf[j] = s /\ status[s] = "creating"}

Unlocked(j) == [s \in Calls |-> IF lock[s] = j THEN NoJob ELSE lock[s]]

\* Mutant: the release of the lock is missing.
EndJobKeepsLock(j, new) == DeleteSites(Abortive(j), WithState(j, new), lock)

\* update_job_state with a terminal state.
EndJob(j, new) == DeleteSites(Abortive(j), WithState(j, new), Unlocked(j))

\* update_job_state with any other state: no condition on the present one.
AdvanceJob(j, new) ==
  /\ state' = WithState(j, new)
  /\ UNCHANGED <<sites, siteOf, ordinal>>

NextOrdinal(k) == IF base[k] = NoJob THEN 1 ELSE ordinal[base[k]] + 1

\* complete_revision's lock check and the unique indexes of vibe_revisions.
MayPublish(k) ==
  /\ lock[Site(k)] = job[k]
  /\ ordinal[job[k]] = 0
  /\ \A r \in RevisionsOf(Site(k)) : ordinal[r] # NextOrdinal(k)

Reveal(s, r, n) ==
  /\ ordinal' = [ordinal EXCEPT ![r] = n]
  /\ live' = [live EXCEPT ![s] = r]
  /\ lock' = [lock EXCEPT ![s] = NoJob]
  /\ status' = [status EXCEPT ![s] = "active"]
  /\ state' = WithState(r, "done")
  /\ UNCHANGED siteOf

-----------------------------------------------------------------------------
(* run_job up to the claim. *)

\* A call that arrives, up to find_job_by_tool_use.
Ask(k) ==
  /\ pc[k] = "idle"
  /\ Goto(k, IF JobsFor(request[k].id) # {} THEN "done" ELSE "asked")
  /\ UNCHANGED <<sites, jobs, ordinal, request, calls, managers, restarts>>

\* count_running_jobs.
CountRunning(k) ==
  /\ pc[k] = "asked"
  /\ Goto(k, IF Cardinality(RunningJobs) >= MaxRunning THEN "done" ELSE "counted")
  /\ UNCHANGED <<sites, jobs, ordinal, request, calls, managers, restarts>>

\* find_site_by_name: a create wants none, an edit an existing site.
FindSite(k) ==
  /\ pc[k] = "counted"
  /\ LET site == Named(request[k].name) IN
       \/ /\ request[k].action = "create"
          /\ Goto(k, IF site = {} THEN "targeted" ELSE "done")
          /\ target' = [target EXCEPT ![k] = k]
       \/ /\ request[k].action = "edit"
          /\ IF site = {}
               THEN Goto(k, "done") /\ UNCHANGED target
               ELSE Goto(k, "targeted")
                    /\ \E s \in site : target' = [target EXCEPT ![k] = s]
  /\ UNCHANGED <<sites, jobs, ordinal, request, job, base, repairs, managers, restarts>>

\* The membership, permission and storage errors of these steps, and a call
\* dropped before it has a job.
Reject(k) ==
  /\ pc[k] \in Asking
  /\ Goto(k, "done")
  /\ UNCHANGED <<sites, jobs, ordinal, request, calls, managers, restarts>>

Claim(k, limited, free) ==
  /\ pc[k] = "targeted"
  /\ JobsFor(request[k].id) = {}
  /\ IF ~limited /\ free
       THEN /\ Goto(k, "claimed")
            /\ job' = [job EXCEPT ![k] = k]
            /\ siteOf' = [siteOf EXCEPT ![k] = target[k]]
            /\ state' = [state EXCEPT ![k] = "queued"]
            /\ lock' = [lock EXCEPT ![target[k]] = k]
            /\ status' = IF request[k].action = "create"
                           THEN [status EXCEPT ![target[k]] = "creating"] ELSE status
       ELSE Goto(k, "done") /\ UNCHANGED <<job, siteOf, state, lock, status>>
  /\ UNCHANGED <<live, ordinal, request, target, base, repairs, managers, restarts>>

GuildIsBusy == Cardinality(RunningJobs) >= MaxRunning

\* The unique name of a new site; the site's row lock and running_job_id.
SiteIsFree(k) ==
  IF request[k].action = "create" THEN Named(request[k].name) = {}
  ELSE status[target[k]] # "absent" /\ lock[target[k]] = NoJob

\* Mutant: the count under the advisory lock is missing.
ClaimUncounted(k) == Claim(k, FALSE, SiteIsFree(k))

\* create_job, under the guild's advisory lock.
CreateJob(k) == Claim(k, GuildIsBusy, SiteIsFree(k))

\* A job of this tool use is there by now: create_job returns it as its own,
\* unless its INSERT is what the unique tool_use_id stops.
FindJob(k) ==
  /\ pc[k] = "targeted"
  /\ \/ \E j \in JobsFor(request[k].id) :
          Goto(k, "claimed") /\ job' = [job EXCEPT ![k] = j]
     \/ JobsFor(request[k].id) # {} /\ Goto(k, "done") /\ UNCHANGED job
  /\ UNCHANGED <<sites, jobs, ordinal, request, target, base, repairs, managers, restarts>>

-----------------------------------------------------------------------------
(* execute_claimed_job. *)

rest == <<request, target, job, managers, restarts>>

\* active_revision, once; create_workspace checks it out.
ReadParent(k) ==
  /\ Step(k, "claimed", "based")
  /\ base' = [base EXCEPT ![k] = live[Site(k)]]
  /\ UNCHANGED <<sites, jobs, ordinal, repairs, rest>>

StartCoding(k) ==
  /\ Step(k, "based", "coding")
  /\ AdvanceJob(job[k], "coding")
  /\ UNCHANGED <<base, repairs, rest>>

\* The agent answers with a tree that differs from the parent's.
StartBuild(k) ==
  /\ Step(k, "coding", "building")
  /\ AdvanceJob(job[k], "building")
  /\ UNCHANGED <<base, repairs, rest>>

\* The tree is the parent's; an error of update_job_state is ignored.
FindNoChanges(k) ==
  /\ Step(k, "coding", "unchanged")
  /\ base[k] # NoJob
  /\ \/ EndJob(job[k], "no_changes")
     \/ UNCHANGED <<sites, jobs, ordinal>>
  /\ UNCHANGED <<base, repairs, rest>>

RepairWithin(k, budget, spent) ==
  /\ Step(k, "building", "coding")
  /\ repairs[k] < budget
  /\ repairs' = [repairs EXCEPT ![k] = spent]
  /\ AdvanceJob(job[k], "repair")
  /\ UNCHANGED <<base, rest>>

\* Mutants: one repair too many; repairs that are not counted.
RepairOnceMore(k) == RepairWithin(k, MaxRepairs + 1, repairs[k] + 1)
RepairUncounted(k) == RepairWithin(k, MaxRepairs, repairs[k])

\* clean_build fails and the budget allows another turn of the agent.
Repair(k) == RepairWithin(k, MaxRepairs, repairs[k] + 1)

StartCommit(k) ==
  /\ Step(k, "building", "committing")
  /\ AdvanceJob(job[k], "committing")
  /\ UNCHANGED <<base, repairs, rest>>

\* commit_tree, whose commit nothing names yet, and complete_revision.
Publish(k) ==
  /\ pc[k] = "committing"
  /\ IF MayPublish(k)
       THEN Goto(k, "published") /\ Reveal(Site(k), job[k], NextOrdinal(k))
       ELSE Goto(k, "failing") /\ UNCHANGED <<sites, jobs, ordinal>>
  /\ UNCHANGED <<base, repairs, rest>>

\* Any other error of these steps: the agent's, the build's, git's, a query's.
JobErrs(k) ==
  /\ pc[k] \in {"claimed", "based", "coding", "building", "committing"}
  /\ Goto(k, "failing")
  /\ UNCHANGED <<sites, jobs, ordinal, base, repairs, rest>>

\* Mutant: an error of activate_main fails the job.
ReturnOrFail(k) ==
  /\ pc[k] \in {"published", "unchanged"}
  /\ \/ Goto(k, "done")
     \/ pc[k] = "published" /\ Goto(k, "disarmed")
  /\ UNCHANGED <<sites, jobs, ordinal, base, repairs, rest>>

\* activate_main, cleanup_job_files and disarm; the call returns its links.
Return(k) ==
  /\ pc[k] \in {"published", "unchanged"}
  /\ Goto(k, "done")
  /\ UNCHANGED <<sites, jobs, ordinal, base, repairs, rest>>

\* cleanup_job_files and disarm; the failure is not stored yet.
Disarm(k) ==
  /\ Step(k, "failing", "disarmed")
  /\ UNCHANGED <<sites, jobs, ordinal, base, repairs, rest>>

StoreFailure(k) ==
  /\ Step(k, "disarmed", "done")
  /\ \/ EndJob(job[k], "failed")
     \/ UNCHANGED <<sites, jobs, ordinal>>
  /\ UNCHANGED <<base, repairs, rest>>

\* The job timeout fires, or the turn's run is dropped: so is this future.
Drop(k) ==
  /\ \/ pc[k] \in Armed /\ \E reason \in Dropped : Goto(k, reason)
     \/ pc[k] = "disarmed" /\ Goto(k, "done")
  /\ UNCHANGED <<sites, jobs, ordinal, base, repairs, rest>>

\* The task that JobCleanup::drop spawned.
CleanUp(k) ==
  /\ pc[k] \in Dropped
  /\ Goto(k, "done")
  /\ \/ EndJob(job[k], pc[k])
     \/ UNCHANGED <<sites, jobs, ordinal>>
  /\ UNCHANGED <<base, repairs, rest>>

-----------------------------------------------------------------------------
(* vibe_manage, the purge command, and the process. *)

MStep(m, from, to) == mpc[m] = from /\ mpc' = [mpc EXCEPT ![m] = to]

tasks == <<request, pc, calls>>

ReadSiteIf(m, s, operation, allowed) ==
  /\ status[s] # "absent"
  /\ allowed
  /\ operation = "restore" => live[s] # NoJob
  /\ MStep(m, "idle", operation)
  /\ msite' = [msite EXCEPT ![m] = s]
  /\ UNCHANGED <<sites, jobs, ordinal, tasks, chosen, restarts>>

\* Mutant: vibe_manage without its site_busy answer.
ReadBusySite(m, s, operation) == ReadSiteIf(m, s, operation, TRUE)

\* find_site_by_name; a site with a running job is refused, and so is the
\* restoration of a site without a revision.
ReadSite(m, s, operation) == ReadSiteIf(m, s, operation, lock[s] = NoJob)

\* list_revisions, and the one asked for.
ChooseRevision(m, r) ==
  /\ r \in RevisionsOf(msite[m])
  /\ MStep(m, "rollback", "chosen")
  /\ chosen' = [chosen EXCEPT ![m] = r]
  /\ UNCHANGED <<sites, jobs, ordinal, tasks, msite, restarts>>

\* activate_existing_revision looks at the revision, not at the site's lock.
ActivateRevision(m) ==
  /\ MStep(m, "chosen", "done")
  /\ IF chosen[m] \in RevisionsOf(msite[m])
       THEN /\ live' = [live EXCEPT ![msite[m]] = chosen[m]]
            /\ status' = [status EXCEPT ![msite[m]] = "active"]
       ELSE UNCHANGED <<live, status>>
  /\ UNCHANGED <<lock, jobs, ordinal, tasks, msite, chosen, restarts>>

\* set_site_status for archive and restore.
SetStatus(m, operation, new) ==
  /\ MStep(m, operation, "done")
  /\ status' = [status EXCEPT ![msite[m]] = IF @ = "absent" THEN @ ELSE new]
  /\ UNCHANGED <<lock, live, jobs, ordinal, tasks, msite, chosen, restarts>>

\* purge_site: jobs and revisions go with the site.
Purge(m) ==
  /\ MStep(m, "purge", "done")
  /\ DeleteSites({msite[m]}, state, lock)
  /\ UNCHANGED <<tasks, msite, chosen, restarts>>

Refuse(m) ==
  /\ mpc[m] \in Operations
  /\ mpc' = [mpc EXCEPT ![m] = "done"]
  /\ UNCHANGED <<sites, jobs, ordinal, tasks, msite, chosen, restarts>>

\* The process exits; the next one runs recover_interrupted_jobs before
\* anything else.  The purge command is a process of its own.
Restart ==
  /\ restarts < MaxRestarts
  /\ restarts' = restarts + 1
  /\ pc' = [k \in Calls |-> IF pc[k] = "idle" THEN "idle" ELSE "done"]
  /\ mpc' = [m \in Managers |-> IF mpc[m] \in {"idle", "purge"} THEN mpc[m] ELSE "done"]
  /\ DeleteSites({s \in Calls : status[s] = "creating"},
                 [j \in Calls |-> IF state[j] \in Running THEN "failed" ELSE state[j]],
                 NoJobs)
  /\ UNCHANGED <<request, calls, msite, chosen>>

-----------------------------------------------------------------------------

AskingStep(k) ==
  \/ Ask(k)
  \/ CountRunning(k)
  \/ FindSite(k)
  \/ Reject(k)
  \/ CreateJob(k)
  \/ FindJob(k)

\* What the job's own task does next; the agent and the build return.
JobStep(k) ==
  \/ ReadParent(k)
  \/ StartCoding(k)
  \/ StartBuild(k)
  \/ FindNoChanges(k)
  \/ Repair(k)
  \/ StartCommit(k)
  \/ Publish(k)
  \/ Return(k)
  \/ Disarm(k)
  \/ StoreFailure(k)
  \/ CleanUp(k)

ManagerStep(m) ==
  \/ \E s \in Calls, operation \in Operations : ReadSite(m, s, operation)
  \/ \E r \in Calls : ChooseRevision(m, r)
  \/ ActivateRevision(m)
  \/ SetStatus(m, "archive", "archived")
  \/ SetStatus(m, "restore", "active")
  \/ Purge(m)
  \/ Refuse(m)

Next ==
  \/ \E k \in Calls : AskingStep(k) \/ JobStep(k) \/ JobErrs(k) \/ Drop(k)
  \/ \E m \in Managers : ManagerStep(m)
  \/ Restart

Spec == Init /\ [][Next]_vars

\* Every await of a job returns: the agent and the builds have limits of their
\* own.  Nothing is assumed of the job timeout.
FairSpec == Spec /\ \A k \in Calls : WF_vars(JobStep(k))

-----------------------------------------------------------------------------
(* Properties. *)

\* No two calls have the same tool-use id.
DistinctIds ==
  \A asked \in RequestMaps : \A j, k \in Calls : asked[j].id = asked[k].id => j = k

\* running_job_id is a lock: a running job holds that of its site, and nothing
\* but a running job holds one, through drops, late cleanups and restarts
\* (create_job, update_job_state, complete_revision, recover_interrupted_jobs).
RunningJobsHoldLocks ==
  /\ \A j \in RunningJobs : lock[siteOf[j]] = j
  /\ \A s \in Calls : lock[s] # NoJob => lock[s] \in RunningJobs /\ siteOf[lock[s]] = s

\* However many calls pass the first count together, the guild's jobs stay
\* within the limit (create_job's count under the advisory lock).
GuildLimitHolds == Cardinality(RunningJobs) <= MaxRunning

\* A site a viewer can be shown has a revision to show, and a site without one
\* is being created by a job: no name is kept by a site nobody is making.
SitesAreShownOrMade ==
  \A s \in Calls :
    /\ status[s] \in {"active", "archived"} => live[s] \in RevisionsOf(s)
    /\ status[s] = "creating" => lock[s] = s /\ RevisionsOf(s) = {}

\* The revisions of a site are numbered 1, 2, ... although each takes its
\* number from the parent its job read long before, past rollbacks.
OrdinalsAreDense ==
  \A s \in Calls :
    /\ \A r \in RevisionsOf(s) :
         ordinal[r] = 1 \/ \E p \in RevisionsOf(s) : ordinal[r] = ordinal[p] + 1
    /\ \A p, r \in RevisionsOf(s) : ordinal[p] = ordinal[r] => p = r

\* A failed job left the site as it was: "the Vibe job failed without changing
\* the live site" (run_job).
FailedJobsPublishNothing ==
  \A j \in Calls : state[j] \in {"failed", "no_changes"} => ordinal[j] = 0

\* A job that is built and holds its site's lock can be published: step 7 of
\* "How it works" follows step 6.
BuiltJobsArePublished ==
  \A k \in Calls : pc[k] = "committing" /\ lock[Site(k)] = job[k] => MayPublish(k)

\* A job's own steps end, with or without the job timeout: the repair loop
\* spends its budget.
ClaimedCallsEnd == \A k \in Calls : pc[k] \in Armed ~> pc[k] = "done"

History(s) == [r \in Calls |-> IF r \in RevisionsOf(s) THEN ordinal[r] ELSE 0]

Sites == INSTANCE VibeSites WITH
  Sites <- Calls,
  Revisions <- Calls,
  NoRevision <- NoJob,
  history <- [s \in Calls |-> History(s)]

\* Whatever jobs, managers and restarts do together, a site's revisions only
\* grow, the one it serves is one of them, and only a purge loses any.
ImplementsVibeSites == Sites!Spec

=============================================================================
