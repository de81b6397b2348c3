------------------------------ MODULE MCTurns ------------------------------
(* Instances of Turns for TLC. *)
EXTENDS Turns, TLC

CONSTANTS m1, m2, d1, d2, r1, r2

MCMessages == {m1, m2}

\* m2 starts a conversation of its own, or is posted in the one of m1.
MCReplyMaps ==
  {[m \in MCMessages |-> NoMessage], (m1 :> NoMessage) @@ (m2 :> m1)}

MCOneMessage == {m1}
MCNoReplies == {[m \in MCOneMessage |-> NoMessage]}

MCOneDelivery == {d1}
MCTwoDeliveries == {d1, d2}
MCNoReactions == {}
MCOneReaction == {r1}
MCTwoReactions == {r1, r2}

MCSymmetry == Permutations(MCTwoDeliveries)

=============================================================================
