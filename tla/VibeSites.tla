------------------------------ MODULE VibeSites ------------------------------
(***************************************************************************)
(* What the bot promises about Vibe sites, without jobs, locks or tasks: a *)
(* site is claimed, shown from its first revision on, keeps every revision *)
(* it ever had and shows one of them, until it is purged.  VibeJobs        *)
(* implements this specification.                                          *)
(***************************************************************************)
EXTENDS Integers

CONSTANTS
  Sites,
  Revisions,
  NoRevision

VARIABLES
  status,      \* whether a site exists and who sees it
  history,     \* the ordinal of each revision of a site, 0 for the others
  live         \* the revision the site's host serves

vars == <<status, history, live>>

Statuses == {"absent", "creating", "active", "archived"}

NoHistory == [r \in Revisions |-> 0]

TypeOK ==
  /\ status \in [Sites -> Statuses]
  /\ history \in [Sites -> [Revisions -> Nat]]
  /\ live \in [Sites -> Revisions \cup {NoRevision}]

Init ==
  /\ status = [s \in Sites |-> "absent"]
  /\ history = [s \in Sites |-> NoHistory]
  /\ live = [s \in Sites |-> NoRevision]

Move(s, from, to) ==
  /\ status[s] \in from
  /\ status' = [status EXCEPT ![s] = to]

Claim(s) == Move(s, {"absent"}, "creating") /\ UNCHANGED <<history, live>>

\* The first job of a site gives up: the name is free again.
Discard(s) == Move(s, {"creating"}, "absent") /\ UNCHANGED <<history, live>>

\* A job adds a revision, numbered after the one it was made from.
Publish(s, r) ==
  /\ Move(s, {"creating", "active", "archived"}, "active")
  /\ history[s][r] = 0
  /\ \E n \in {0} \cup {history[s][p] : p \in Revisions} :
       /\ n = 0 <=> history[s] = NoHistory
       /\ \A p \in Revisions : history[s][p] # n + 1
       /\ history' = [history EXCEPT ![s][r] = n + 1]
  /\ live' = [live EXCEPT ![s] = r]

\* A rollback shows an earlier revision again.
Rollback(s, r) ==
  /\ Move(s, {"active", "archived"}, "active")
  /\ history[s][r] # 0
  /\ live' = [live EXCEPT ![s] = r]
  /\ UNCHANGED history

SetStatus(s) ==
  /\ \E to \in {"active", "archived"} : Move(s, {"active", "archived"}, to)
  /\ UNCHANGED <<history, live>>

Purge(s) ==
  /\ Move(s, {"active", "archived"}, "absent")
  /\ history' = [history EXCEPT ![s] = NoHistory]
  /\ live' = [live EXCEPT ![s] = NoRevision]

\* The process restarts: unfinished sites go.
Restart ==
  /\ status' = [s \in Sites |-> IF status[s] = "creating" THEN "absent" ELSE status[s]]
  /\ UNCHANGED <<history, live>>

Next ==
  \/ \E s \in Sites :
       \/ Claim(s)
       \/ Discard(s)
       \/ \E r \in Revisions : Publish(s, r) \/ Rollback(s, r)
       \/ SetStatus(s)
       \/ Purge(s)
  \/ Restart

Spec == Init /\ [][Next]_vars

=============================================================================
