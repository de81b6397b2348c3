---------------------------- MODULE MCTurnInput ----------------------------
(* Instances of TurnInput for TLC. *)
EXTENDS TurnInput, TLC

CONSTANTS t1, t2, t3, alice

MCTurns == {t1, t2, t3}
MCSymmetry == Permutations(MCTurns)

\* One part always has a text, the other only some agents give one.
MCKeys == <<"persona", "skills">>
MCPrompts == {[persona |-> "poet", skills |-> ""], [persona |-> "coder", skills |-> "rust"]}

\* Alice writes every message.
MCUsers == {alice}
MCPeople == [t \in MCTurns |-> MCUsers]

=============================================================================
