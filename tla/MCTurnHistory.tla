--------------------------- MODULE MCTurnHistory ---------------------------
(* Instances of TurnHistory for TLC. *)
EXTENDS TurnHistory, TLC

CONSTANTS t1, t2, t3

MCTurns == {t1, t2, t3}
MCSymmetry == Permutations(MCTurns)

=============================================================================
