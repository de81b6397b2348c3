------------------------------ MODULE VibeRooms -----------------------------
(***************************************************************************)
(* The live rooms of Vibe sites (chudbot-web/src/vibe_rooms.rs).           *)
(*                                                                         *)
(* Every connection is a task of a multi-threaded runtime.  The hub is a   *)
(* map of sites, each a map of rooms, with a counter on either level, and  *)
(* a mutex per room.  join and leave run on their thread without a lock    *)
(* around them: one action is what happens under one map entry, one mutex  *)
(* or one atomic.  Maps hold reference-counted cells: a cell taken out of  *)
(* its map lives on in the tasks that cloned it, so a site or a room of    *)
(* the same name may be another cell.                                      *)
(*                                                                         *)
(* A broadcast carries nothing but its kind.  Pings, the sizes of messages *)
(* and the validation of names have no effect beyond a refusal.            *)
(***************************************************************************)
EXTENDS Integers, FiniteSets, Sequences

CONSTANTS
  Connections, Sites, Rooms, Users, Keys, Values,
  SiteCells, RoomCells,     \* Arc<SiteRooms>, Arc<Mutex<RoomState>>
  Joins,                    \* what each connection may ask for
  LimitSets,                \* configurations of limits
  None, NoValue

\* RoomLimits: connections in all, per site and per room, rooms per site, state
\* keys per user, and the length of an outbound channel.
ASSUME LimitsAssumption ==
  LimitSets \subseteq [{"connections", "perSite", "perRoom", "rooms", "keys", "queue"} -> Nat \ {0}]
Requests == [site : Sites, room : Rooms, user : Users]
ASSUME JoinsAssumption == Joins \in [Connections -> SUBSET Requests]
ASSUME NoneAssumption ==
  None \notin SiteCells \cup RoomCells \cup Sites \cup Rooms \cup Users \cup Connections
ASSUME NoValueAssumption == NoValue \notin Values
ASSUME FiniteAssumption == IsFiniteSet(Connections) /\ IsFiniteSet(Rooms)

VARIABLES
  limits,       \* RoomHub.limits
  \* RoomHub and SiteRooms
  sites,        \* RoomHub.sites
  connections,  \* RoomHub.connections
  siteRooms,    \* the fields of every SiteRooms
  rooms,        \* the fields of every RoomState
  \* the tasks of serve_room
  pc,
  asked,        \* the site, and the room and user of the join
  siteCell,     \* the clone of the site's cell
  roomCell,     \* the clone of the room's cell
  queue,        \* the outbound channel
  cancelled,    \* the CancellationToken
  view          \* the users and their states as told to the client, with the
                \* message it is being sent

hub == <<limits, sites, connections, siteRooms, rooms>>
tasks == <<asked, siteCell, roomCell>>
streams == <<queue, cancelled, view>>
vars == <<hub, pc, tasks, streams>>

Unset == [k \in Keys |-> NoValue]
EmptySite == [rooms |-> [r \in Rooms |-> None], room_count |-> 0, connections |-> 0]
\* RoomState::default.  A cell nobody refers to is kept closed, as it was left.
EmptyRoom == [users |-> <<>>, clients |-> <<>>, closed |-> FALSE]
NoRoom == [EmptyRoom EXCEPT !.closed = TRUE]

Members(cell) == DOMAIN rooms[cell].clients
With(f, x, y) == [z \in DOMAIN f \cup {x} |-> IF z = x THEN y ELSE f[z]]
Without(f, x) == [z \in DOMAIN f \ {x} |-> f[z]]
StatesIn(users) == [u \in DOMAIN users |-> users[u].states]

FreeSiteCells == SiteCells \ ({sites[s] : s \in Sites} \cup {siteCell[c] : c \in Connections})
FreeRoomCells ==
  RoomCells \ ({roomCell[c] : c \in Connections}
               \cup UNION {{siteRooms[h].rooms[r] : r \in Rooms} : h \in SiteCells})

Init ==
  /\ limits \in LimitSets
  /\ sites = [s \in Sites |-> None]
  /\ connections = 0
  /\ siteRooms = [h \in SiteCells |-> EmptySite]
  /\ rooms = [l \in RoomCells |-> NoRoom]
  /\ pc = [c \in Connections |-> "socket"]
  /\ asked = [c \in Connections |-> None]
  /\ siteCell = [c \in Connections |-> None]
  /\ roomCell = [c \in Connections |-> None]
  /\ queue = [c \in Connections |-> <<>>]
  /\ cancelled = [c \in Connections |-> FALSE]
  /\ view = [c \in Connections |-> <<>>]

-----------------------------------------------------------------------------
(* Joining *)

GoTo(c, l) == pc' = [pc EXCEPT ![c] = l]

\* The task ends; its name is that of a later connection.
End(c) ==
  /\ GoTo(c, "socket")
  /\ asked' = [asked EXCEPT ![c] = None]
  /\ siteCell' = [siteCell EXCEPT ![c] = None]
  /\ roomCell' = [roomCell EXCEPT ![c] = None]

\* The first message names a room; a connection that sends none in time, or that
\* finds the hub full, ends where it began.  The hub's place and the site's are
\* taken in one step, under the site's entry of the map: whether the first was
\* taken a moment earlier is seen by nobody who is let in.
Reserve(c) ==
  /\ pc[c] = "socket"
  /\ connections < limits.connections
  /\ connections' = connections + 1
  /\ \E j \in Joins[c] :
       LET s == j.site
           h == sites[s]
       IN /\ asked' = [asked EXCEPT ![c] = j]
          /\ \/ /\ h # None
                /\ siteRooms[h].connections < limits.perSite
                /\ siteRooms' = [siteRooms EXCEPT ![h].connections = @ + 1]
                /\ siteCell' = [siteCell EXCEPT ![c] = h]
                /\ GoTo(c, "room")
                /\ UNCHANGED sites
             \/ /\ h # None
                /\ siteRooms[h].connections >= limits.perSite
                /\ GoTo(c, "refused")
                /\ UNCHANGED <<sites, siteRooms, siteCell>>
             \/ /\ h = None
                /\ FreeSiteCells # {}
                /\ LET new == CHOOSE n \in FreeSiteCells : TRUE
                   IN /\ siteRooms' = [siteRooms EXCEPT ![new] = [EmptySite EXCEPT !.connections = 1]]
                      /\ sites' = [sites EXCEPT ![s] = new]
                      /\ siteCell' = [siteCell EXCEPT ![c] = new]
                /\ GoTo(c, "room")
  /\ UNCHANGED <<limits, rooms, roomCell, streams>>

\* Under the room's entry of the site's map.
LookupRoom(c) ==
  LET h == siteCell[c]
      r == asked[c].room
      l == siteRooms[h].rooms[r]
  IN /\ pc[c] = "room"
     /\ \/ /\ l # None
           /\ roomCell' = [roomCell EXCEPT ![c] = l]
           /\ GoTo(c, "enter")
           /\ UNCHANGED <<siteRooms, rooms>>
        \/ /\ l = None
           /\ siteRooms[h].room_count < limits.rooms
           /\ FreeRoomCells # {}
           /\ LET new == CHOOSE n \in FreeRoomCells : TRUE
              IN /\ siteRooms' = [siteRooms EXCEPT ![h].rooms[r] = new, ![h].room_count = @ + 1]
                 /\ rooms' = [rooms EXCEPT ![new] = EmptyRoom]
                 /\ roomCell' = [roomCell EXCEPT ![c] = new]
           /\ GoTo(c, "enter")
        \/ /\ l = None
           /\ siteRooms[h].room_count >= limits.rooms
           /\ GoTo(c, "refusedSite")
           /\ UNCHANGED <<siteRooms, rooms, roomCell>>
     /\ UNCHANGED <<limits, sites, connections, asked, siteCell, streams>>

\* try_send to every client of the room: a full channel cancels its client.
SendRoom(clients, m) ==
  /\ queue' = [c \in Connections |->
       IF c \in clients /\ Len(queue[c]) < limits.queue THEN Append(queue[c], m) ELSE queue[c]]
  /\ cancelled' = [c \in Connections |->
       cancelled[c] \/ (c \in clients /\ Len(queue[c]) >= limits.queue)]

Message(t, u, states) == [type |-> t, user |-> u, states |-> states]
\* An event or the answer to a command: news of nobody's presence or state.
Notice == Message("notice", None, Unset)

\* Under the room's mutex: the refusals of a closed and of a full room.
TurnAway(c) ==
  LET l == roomCell[c]
  IN /\ pc[c] = "enter"
     /\ \/ rooms[l].closed /\ GoTo(c, "room")
        \/ /\ ~rooms[l].closed
           /\ Cardinality(Members(l)) >= limits.perRoom
           /\ GoTo(c, "refusedSite")
     /\ roomCell' = [roomCell EXCEPT ![c] = None]
     /\ UNCHANGED <<hub, asked, siteCell, streams>>

\* Mutant: a user's second connection makes the entry again.
EnteredAnew(c) ==
  With(rooms[roomCell[c]].users, asked[c].user, [connections |-> {c}, states |-> Unset])

\* The users of the room with c among them.
Entered(c) ==
  LET here == rooms[roomCell[c]].users
      u == asked[c].user
  IN IF u \in DOMAIN here
     THEN [here EXCEPT ![u].connections = @ \cup {c}]
     ELSE With(here, u, [connections |-> {c}, states |-> Unset])

\* Mutant: a join does not look at the closed flag.
EnterRoomClosed(c) ==
  LET l == roomCell[c]
  IN /\ pc[c] = "enter"
     /\ Cardinality(Members(l)) < limits.perRoom
     /\ rooms' = [rooms EXCEPT ![l].users = Entered(c), ![l].clients = With(@, c, asked[c].user)]
     /\ view' = [view EXCEPT ![c] = StatesIn(Entered(c))]
     /\ GoTo(c, "send")
     /\ UNCHANGED <<limits, sites, connections, siteRooms, tasks, queue, cancelled>>

\* Under the room's mutex: users before clients, so that the welcome, which
\* is sent first, names the newcomer and only the others are told of it.
EnterRoom(c) ==
  LET l == roomCell[c]
      u == asked[c].user
  IN /\ pc[c] = "enter"
     /\ ~rooms[l].closed
     /\ Cardinality(Members(l)) < limits.perRoom
     /\ rooms' = [rooms EXCEPT ![l].users = Entered(c), ![l].clients = With(@, c, u)]
     /\ view' = [view EXCEPT ![c] = StatesIn(Entered(c))]
     /\ IF u \in DOMAIN rooms[l].users
        THEN UNCHANGED <<queue, cancelled>>
        ELSE SendRoom(Members(l), Message("user:join", u, Unset))
     /\ GoTo(c, "send")
     /\ UNCHANGED <<limits, sites, connections, siteRooms, tasks>>

-----------------------------------------------------------------------------
(* The loop of serve_room *)

\* What the browser makes of a message.
Told(users, m) ==
  CASE m.type \in {"user:join", "user:state"} -> With(users, m.user, m.states)
    [] m.type = "user:quit" -> Without(users, m.user)
    [] OTHER -> users

\* outbound.recv: the message is in sink.send until the client takes it.
StartSend(c) ==
  /\ pc[c] = "open"
  /\ queue[c] # <<>>
  /\ view' = [view EXCEPT ![c] = Told(@, Head(queue[c]))]
  /\ queue' = [queue EXCEPT ![c] = Tail(queue[c])]
  /\ GoTo(c, "send")
  /\ UNCHANGED <<hub, tasks, cancelled>>

FinishSend(c) ==
  /\ pc[c] = "send"
  /\ GoTo(c, "open") \/ GoTo(c, "leave")
  /\ UNCHANGED <<hub, tasks, streams>>

\* Mutant: the answer to a command does not wait for room in the channel.
AnswerAlways(c, q) == queue' = [q EXCEPT ![c] = Append(@, Notice)] /\ UNCHANGED pc

\* The answer to a command goes through the sender's own channel.
Answer(c, q) ==
  IF Len(q[c]) < limits.queue
  THEN queue' = [q EXCEPT ![c] = Append(@, Notice)] /\ UNCHANGED pc
  ELSE queue' = q /\ GoTo(c, "leave")

\* A command that is refused before it reaches the room: too large, malformed,
\* too frequent, a second join, a reserved label, too many bytes of state.
RefuseCommand(c) ==
  /\ pc[c] = "open"
  /\ Answer(c, queue)
  /\ UNCHANGED <<hub, tasks, cancelled, view>>

\* Mutant: a command is not sent back to the one who gave it.
DeliverToOthers(c, m) ==
  LET full == {d \in Members(roomCell[c]) \ {c} : Len(queue[d]) >= limits.queue}
      sent == [d \in Connections |->
                 IF d \in Members(roomCell[c]) \ (full \cup {c}) THEN Append(queue[d], m) ELSE queue[d]]
  IN /\ cancelled' = [d \in Connections |-> cancelled[d] \/ d \in full]
     /\ Answer(c, sent)

\* A command that sends m to the room and then its answer to c.  The lookup of
\* the room and its mutex are one step: its cell cannot change while c is in it.
Deliver(c, m) ==
  LET full == {d \in Members(roomCell[c]) : Len(queue[d]) >= limits.queue}
      sent == [d \in Connections |->
                 IF d \in Members(roomCell[c]) \ full THEN Append(queue[d], m) ELSE queue[d]]
  IN /\ cancelled' = [d \in Connections |-> cancelled[d] \/ d \in full]
     /\ Answer(c, sent)

Broadcast(c) ==
  /\ pc[c] = "open"
  /\ Deliver(c, Notice)
  /\ UNCHANGED <<hub, tasks, view>>

SetState(c) ==
  LET l == roomCell[c]
      u == asked[c].user
      states == rooms[l].users[u].states
  IN /\ pc[c] = "open"
     /\ \E k \in Keys, v \in Values :
          /\ \/ states[k] # NoValue
             \/ Cardinality({j \in Keys : states[j] # NoValue}) < limits.keys
          /\ rooms' = [rooms EXCEPT ![l].users[u].states[k] = v]
          /\ Deliver(c, Message("user:state", u, [states EXCEPT ![k] = v]))
     /\ UNCHANGED <<limits, sites, connections, siteRooms, tasks, view>>

\* The cancelled branch of the select.
ObserveCancel(c) ==
  /\ pc[c] = "open"
  /\ cancelled[c]
  /\ GoTo(c, "leave")
  /\ UNCHANGED <<hub, tasks, streams>>

\* The client goes, a ping fails, or the process shuts down.
Hangup(c) ==
  /\ pc[c] = "open"
  /\ GoTo(c, "leave")
  /\ UNCHANGED <<hub, tasks, streams>>

-----------------------------------------------------------------------------
(* Leaving *)

\* Under the room's mutex.
LeaveRoom(c) ==
  LET l == roomCell[c]
      u == rooms[l].clients[c]
      rest == rooms[l].users[u].connections \ {c}
      quit == rest = {}
  IN /\ pc[c] = "leave"
     /\ rooms' = [rooms EXCEPT
          ![l].clients = Without(@, c),
          ![l].users = IF quit THEN Without(@, u) ELSE [@ EXCEPT ![u].connections = rest]]
     /\ LET others == IF quit THEN Members(l) \ {c} ELSE {}
            m == Message("user:quit", u, Unset)
        IN /\ queue' = [d \in Connections |->
                CASE d = c -> <<>>
                  [] d \in others /\ Len(queue[d]) < limits.queue -> Append(queue[d], m)
                  [] OTHER -> queue[d]]
           /\ cancelled' = [d \in Connections |->
                d # c /\ (cancelled[d] \/ (d \in others /\ Len(queue[d]) >= limits.queue))]
     /\ view' = [view EXCEPT ![c] = <<>>]
     /\ GoTo(c, "left")
     /\ UNCHANGED <<limits, sites, connections, siteRooms, tasks>>

\* release_capacity of the site and of the hub, in one step as they were taken.
Release(c) ==
  /\ pc[c] = "left"
  /\ siteRooms' = [siteRooms EXCEPT ![siteCell[c]].connections = @ - 1]
  /\ connections' = connections - 1
  /\ GoTo(c, "emptyRoom")
  /\ UNCHANGED <<limits, sites, rooms, tasks, streams>>

\* Mutant: a join that a full room refused keeps the site's place.
GiveBackHub(c) ==
  /\ pc[c] \in {"refused", "refusedSite"}
  /\ connections' = connections - 1
  /\ End(c)
  /\ UNCHANGED <<limits, sites, siteRooms, rooms, streams>>

\* A refused connection gives back what it has, and removes nothing.
GiveBack(c) ==
  /\ \/ /\ pc[c] = "refusedSite"
        /\ siteRooms' = [siteRooms EXCEPT ![siteCell[c]].connections = @ - 1]
     \/ pc[c] = "refused" /\ UNCHANGED siteRooms
  /\ connections' = connections - 1
  /\ End(c)
  /\ UNCHANGED <<limits, sites, rooms, streams>>

\* remove_empty_room, under the room's entry and its mutex.
RemoveEmptyRoom(c) ==
  LET h == siteCell[c]
      r == asked[c].room
      l == siteRooms[h].rooms[r]
  IN /\ pc[c] = "emptyRoom"
     /\ IF l = roomCell[c] /\ Members(l) = {}
        THEN /\ rooms' = [rooms EXCEPT ![l].closed = TRUE]
             /\ siteRooms' = [siteRooms EXCEPT ![h].rooms[r] = None]
             /\ GoTo(c, "releaseRoom")
        ELSE /\ GoTo(c, "emptySite")
             /\ UNCHANGED <<rooms, siteRooms>>
     /\ roomCell' = [roomCell EXCEPT ![c] = None]
     /\ UNCHANGED <<limits, sites, connections, asked, siteCell, streams>>

\* The room's place is given back when its entry is gone already.
ReleaseRoom(c) ==
  /\ pc[c] = "releaseRoom"
  /\ siteRooms' = [siteRooms EXCEPT ![siteCell[c]].room_count = @ - 1]
  /\ GoTo(c, "emptySite")
  /\ UNCHANGED <<limits, sites, connections, rooms, tasks, streams>>

\* remove_empty_site, under the site's entry.
RemoveEmptySite(c) ==
  LET s == asked[c].site
      h == siteCell[c]
  IN /\ pc[c] = "emptySite"
     /\ IF sites[s] = h /\ siteRooms[h].connections = 0 /\ siteRooms[h].room_count = 0
        THEN sites' = [sites EXCEPT ![s] = None]
        ELSE UNCHANGED sites
     /\ End(c)
     /\ UNCHANGED <<limits, connections, siteRooms, rooms, streams>>

-----------------------------------------------------------------------------

Join(c) == LookupRoom(c) \/ TurnAway(c) \/ EnterRoom(c)
Leave(c) ==
  \/ LeaveRoom(c) \/ Release(c) \/ GiveBack(c)
  \/ RemoveEmptyRoom(c) \/ ReleaseRoom(c) \/ RemoveEmptySite(c)
Serve(c) ==
  StartSend(c) \/ RefuseCommand(c) \/ Broadcast(c) \/ SetState(c) \/ Hangup(c)

Next == \E c \in Connections :
  Reserve(c) \/ Join(c) \/ Serve(c) \/ FinishSend(c) \/ ObserveCancel(c) \/ Leave(c)

Spec == Init /\ [][Next]_vars

-----------------------------------------------------------------------------
(* Properties *)

Inside == {"open", "send", "leave"}
HoldsSite == {"room", "enter", "left", "refusedSite"} \cup Inside
HoldsConnection == {"refused"} \cup HoldsSite
Labels == {"socket", "emptyRoom", "releaseRoom", "emptySite"} \cup HoldsConnection

Maybe(S) == S \cup {None}
IsMap(f, S, T) == DOMAIN f \subseteq S /\ f \in [DOMAIN f -> T]
States == [Keys -> Values \cup {NoValue}]
Entries == [connections : SUBSET Connections, states : States]
Messages ==
  [type : {"user:join", "user:quit", "user:state", "notice"},
   user : Maybe(Users), states : States]

\* The variables hold values of their types: counters never go below zero, a
\* task has a cell of its site exactly while it may use it.
TypeOK ==
  /\ limits \in LimitSets
  /\ sites \in [Sites -> Maybe(SiteCells)]
  /\ connections \in 0 .. limits.connections
  /\ siteRooms \in [SiteCells -> [rooms : [Rooms -> Maybe(RoomCells)],
                                  room_count : 0 .. limits.rooms, connections : 0 .. limits.perSite]]
  /\ \A l \in RoomCells :
       /\ IsMap(rooms[l].users, Users, Entries)
       /\ IsMap(rooms[l].clients, Connections, Users)
       /\ rooms[l].closed \in BOOLEAN
  /\ pc \in [Connections -> Labels]
  /\ asked \in [Connections -> Maybe(Requests)]
  /\ siteCell \in [Connections -> Maybe(SiteCells)]
  /\ roomCell \in [Connections -> Maybe(RoomCells)]
  /\ \A c \in Connections :
       /\ queue[c] \in Seq(Messages) /\ Len(queue[c]) <= limits.queue
       /\ IsMap(view[c], Users, States)
  /\ cancelled \in [Connections -> BOOLEAN]

\* However joins race the removal of an empty room or site, a connection that
\* is in a room is in the one the hub finds under its names: a broadcast reaches
\* it and its leave finds it.  Nobody else is in a room.
MembersAreReachable ==
  /\ \A c \in Connections : pc[c] \in Inside =>
       /\ sites[asked[c].site] = siteCell[c]
       /\ siteRooms[siteCell[c]].rooms[asked[c].room] = roomCell[c]
       /\ c \in Members(roomCell[c])
  /\ \A l \in RoomCells : \A c \in Members(l) : pc[c] \in Inside /\ roomCell[c] = l

\* Every path of join and leave gives back what it reserved: the three counters
\* count the tasks and the rooms that hold a place, no more and no less.
CountersAreExact ==
  /\ connections = Cardinality({c \in Connections : pc[c] \in HoldsConnection})
  /\ \A h \in SiteCells :
       /\ siteRooms[h].connections =
            Cardinality({c \in Connections : siteCell[c] = h /\ pc[c] \in HoldsSite})
       /\ siteRooms[h].room_count =
            Cardinality({r \in Rooms : siteRooms[h].rooms[r] # None})
            + Cardinality({c \in Connections : siteCell[c] = h /\ pc[c] = "releaseRoom"})

\* The configured limits hold for sites and rooms as users know them, by name,
\* whichever cells they are kept in.
LimitsHold ==
  LET In(s, r) == {c \in Connections :
        pc[c] \in Inside /\ asked[c].site = s /\ asked[c].room = r}
  IN /\ \A s \in Sites :
          /\ Cardinality(UNION {In(s, r) : r \in Rooms}) <= limits.perSite
          /\ Cardinality({r \in Rooms : In(s, r) # {}}) <= limits.rooms
          /\ \A r \in Rooms : Cardinality(In(s, r)) <= limits.perRoom
     /\ Cardinality({c \in Connections : pc[c] \in Inside}) <= limits.connections

\* No room outlives its people: one that a site has under a name has somebody in
\* it, or a task on its way in, or one that left and is about to remove it.
RoomsAreOccupied ==
  \A h \in SiteCells, r \in Rooms :
    LET l == siteRooms[h].rooms[r]
    IN l # None => \E c \in Connections :
         roomCell[c] = l /\ pc[c] \in {"enter", "left", "emptyRoom"} \cup Inside

\* A client's view has a user as the room has.
Knows(users, known, u) ==
  /\ u \in DOMAIN known <=> u \in DOMAIN users
  /\ u \in DOMAIN users => known[u] = users[u].states

\* It will, once it has read the message m about the user.
Says(users, m) ==
  IF m.type = "user:quit" THEN m.user \notin DOMAIN users
  ELSE m.user \in DOMAIN users /\ users[m.user].states = m.states

\* A client that was not found slow misses nothing: when it has read what is on
\* its way it knows the room's users and their states as they are.  The last
\* message about a user decides, and where none is on its way the client knows
\* the user's state already.
ViewsFollowRooms ==
  \A c \in Connections : pc[c] \in {"open", "send"} /\ ~cancelled[c] =>
    LET users == rooms[roomCell[c]].users
        news(u) == {i \in DOMAIN queue[c] : queue[c][i].user = u}
    IN \A u \in Users :
         /\ news(u) = {} => Knows(users, view[c], u)
         /\ \A i \in news(u) : (\A j \in news(u) : j <= i) => Says(users, queue[c][i])

\* The rooms the hub finds by name are those of VibePresence.
Named == [p \in Sites \X Rooms |->
  LET h == sites[p[1]]
      l == IF h = None THEN None ELSE siteRooms[h].rooms[p[2]]
  IN IF l = None THEN [clients |-> <<>>, states |-> <<>>]
     ELSE [clients |-> rooms[l].clients, states |-> StatesIn(rooms[l].users)]]

Presence == INSTANCE VibePresence WITH presence <- Named, capacity <- limits.perRoom
ImplementsVibePresence == Presence!Spec

=============================================================================
