---------------------------- MODULE VibePresence ----------------------------
(***************************************************************************)
(* What the rooms of Vibe sites promise: a room is its name, one map from  *)
(* the site and the name to the people in it.  A connection is in one room *)
(* at most, a user is there as long as one of its connections is, and what *)
(* a user set is forgotten when the last of them leaves.                   *)
(***************************************************************************)
EXTENDS Integers, FiniteSets

CONSTANTS Connections, Sites, Rooms, Users, Keys, Values, NoValue

VARIABLES
  presence,
  capacity    \* the most connections a room may have

Unset == [k \in Keys |-> NoValue]
Nobody == [clients |-> <<>>, states |-> <<>>]

Present(place) == {place.clients[c] : c \in DOMAIN place.clients}

Init ==
  /\ presence = [p \in Sites \X Rooms |-> Nobody]
  /\ capacity \in Nat

Enter(c, p, u) ==
  /\ \A q \in Sites \X Rooms : c \notin DOMAIN presence[q].clients
  /\ Cardinality(DOMAIN presence[p].clients) < capacity
  /\ LET place == presence[p]
     IN presence' = [presence EXCEPT ![p] =
          [clients |-> [d \in DOMAIN place.clients \cup {c} |->
                          IF d = c THEN u ELSE place.clients[d]],
           states |-> [w \in Present(place) \cup {u} |->
                          IF w \in Present(place) THEN place.states[w] ELSE Unset]]]

Quit(c, p) ==
  LET place == presence[p]
      others == DOMAIN place.clients \ {c}
  IN /\ c \in DOMAIN place.clients
     /\ presence' = [presence EXCEPT ![p] =
          [clients |-> [d \in others |-> place.clients[d]],
           states |-> [w \in {place.clients[d] : d \in others} |-> place.states[w]]]]

SetState(c, p, k, v) ==
  /\ c \in DOMAIN presence[p].clients
  /\ presence' = [presence EXCEPT ![p].states[presence[p].clients[c]][k] = v]

\* A step changes one room, in one of three ways.
Next ==
  /\ presence' # presence
  /\ \E p \in Sites \X Rooms, c \in Connections :
       \/ \E u \in Users : Enter(c, p, u)
       \/ Quit(c, p)
       \/ \E k \in Keys, v \in Values : SetState(c, p, k, v)

Spec == Init /\ [][Next /\ UNCHANGED capacity]_<<presence, capacity>>

=============================================================================
