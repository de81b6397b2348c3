----------------------------- MODULE MCVibeRooms ----------------------------
(* Instances of VibeRooms for TLC. *)
EXTENDS VibeRooms, TLC

CONSTANTS a, b, c3, s1, r1, r2, u1, u2, h1, h2, h3, l1, l2, l3, k1, v1

MCTwo == {a, b}
MCThree == {a, b, c3}
MCSites == {s1}
MCRooms == {r1, r2}
MCUsers == {u1, u2}
MCKeys == {k1}
MCValues == {v1}
MCSiteCells == {h1, h2, h3}
MCRoomCells == {l1, l2, l3}

\* Two connections meet in a room as two users; a third asks for another room.
MCJoins == [c \in MCThree |->
  [site : MCSites, room : {IF c = c3 THEN r2 ELSE r1}, user : IF c = c3 THEN {u1} ELSE MCUsers]]

MCLimits ==
  [{"connections", "perSite", "perRoom", "rooms", "keys", "queue"} -> {1, 2, 3}]
\* A hub of two connections and one room, and a site of two connections in two
\* rooms for one.
MCLimitSets == {l \in MCLimits :
  /\ l.perSite = 2 /\ l.keys = 1 /\ l.queue = 1
  /\ <<l.connections, l.perRoom, l.rooms>> \in {<<2, 2, 1>>, <<3, 1, 2>>}}

MCSymmetry == Permutations(MCTwo)

=============================================================================
