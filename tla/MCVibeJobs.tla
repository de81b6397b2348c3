----------------------------- MODULE MCVibeJobs -----------------------------
(* Instances of VibeJobs for TLC. *)
EXTENDS VibeJobs, TLC

CONSTANTS c1, c2, c3, g1, n1, n2, n3

MCTwoCalls == {c1, c2}
MCCalls == {c1, c2, c3}
MCOneManager == {g1}
MCOneName == {n1}
MCNames == {n1, n2, n3}

\* Every call has a tool-use id of its own.
MCDistinctRequests == {f \in [Calls -> Requests] : \A k \in Calls : f[k].id = k}

\* Calls share one, as Gemini's do when the response has no call ids: each then
\* has the tool's name for an id.
MCSharedRequests == {f \in [Calls -> Requests] : \A k \in Calls : f[k].id = c1}

MCAnyRequests == MCDistinctRequests \cup MCSharedRequests

MCSymmetry == Permutations(MCCalls) \cup Permutations(MCNames)

=============================================================================
