---------------------------- MODULE MCMemoryJobs ----------------------------
(* Instances of MemoryJobs for TLC. *)
EXTENDS MemoryJobs, TLC

CONSTANTS w1, w2

MCWorkers == {w1, w2}
MCSymmetry == Permutations(MCWorkers)

\* Two turns on a clock long enough for a window that starts an interval late; an
\* outage longer than the backfill window; events out of order; both; and two workers.
Config(interval, backfill, time, turnCount, eventCount, jobCount, workers) ==
  [interval |-> interval, backfill |-> backfill, time |-> time,
   turns |-> turnCount, events |-> eventCount, jobs |-> jobCount, workers |-> workers]
MCConfigs == {
  Config(2, 4, 6, 2, 0, 2, 1), Config(1, 2, 3, 2, 0, 2, 1), Config(2, 4, 4, 0, 2, 3, 1),
  Config(2, 4, 4, 1, 1, 2, 1), Config(2, 4, 2, 1, 0, 3, 2), Config(1, 2, 2, 0, 1, 1, 2)}

=============================================================================
