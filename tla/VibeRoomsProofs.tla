--------------------------- MODULE VibeRoomsProofs ---------------------------
(***************************************************************************)
(* Proofs about the rooms of Vibe sites, for any number of connections,    *)
(* sites, rooms and limits: that whoever is in a room is found under its   *)
(* name, that the three counters are exact, that no room outlives its      *)
(* people, and that the limits hold by name; then type correctness of the  *)
(* channels, that a client which has read what is on its way knows its     *)
(* room, and that the rooms implement VibePresence.                        *)
(***************************************************************************)
EXTENDS VibeRooms, FiniteSetTheorems, TLAPS

Entry(h, r) == siteRooms[h].rooms[r]
Move(c, l) == pc' = [pc EXCEPT ![c] = l]

(***************************************************************************)
(* Types, with rows for the cells.  The bounds of the counters follow from *)
(* the rest of the invariant.                                              *)
(***************************************************************************)
UserMaps == UNION {[U -> Entries] : U \in SUBSET Users}
ClientMaps == UNION {[C -> Users] : C \in SUBSET Connections}
StateMaps == UNION {[U -> States] : U \in SUBSET Users}
SiteRows == [rooms : [Rooms -> Maybe(RoomCells)], room_count : Int, connections : Int]
RoomRows == [users : UserMaps, clients : ClientMaps, closed : BOOLEAN]

HubTypes ==
  /\ limits \in LimitSets
  /\ sites \in [Sites -> Maybe(SiteCells)]
  /\ connections \in Int
  /\ siteRooms \in [SiteCells -> SiteRows]
  /\ rooms \in [RoomCells -> RoomRows]
TaskTypes ==
  /\ pc \in [Connections -> Labels]
  /\ asked \in [Connections -> Maybe(Requests)]
  /\ siteCell \in [Connections -> Maybe(SiteCells)]
  /\ roomCell \in [Connections -> Maybe(RoomCells)]

\* A task has a cell and a request while it may use them.
HoldsRoom == {"enter", "left", "emptyRoom"} \cup Inside
KnowsSite == {"emptyRoom", "releaseRoom", "emptySite"} \cup HoldsSite
Holdings ==
  \A c \in Connections :
    /\ pc[c] \in KnowsSite => asked[c] \in Requests /\ siteCell[c] \in SiteCells
    /\ pc[c] \in HoldsRoom => roomCell[c] \in RoomCells

Types == HubTypes /\ TaskTypes /\ Holdings

LEMMA LimitTypes ==
  ASSUME limits \in LimitSets
  PROVE  /\ limits.connections \in Nat \ {0} /\ limits.perSite \in Nat \ {0}
         /\ limits.perRoom \in Nat \ {0} /\ limits.rooms \in Nat \ {0}
         /\ limits.keys \in Nat \ {0} /\ limits.queue \in Nat \ {0}
  BY LimitsAssumption

LEMMA FullIsNotEmpty ==
  ASSUME NEW S, NEW n \in Nat \ {0}, Cardinality(S) >= n
  PROVE  S # {}
  BY FS_EmptySet

LEMMA LabelSets ==
  /\ Inside \subseteq HoldsRoom /\ Inside \subseteq HoldsSite
  /\ HoldsRoom \subseteq KnowsSite /\ KnowsSite \subseteq Labels
  /\ HoldsSite \subseteq KnowsSite /\ HoldsSite \subseteq HoldsConnection
  BY DEF Inside, HoldsRoom, HoldsSite, KnowsSite, HoldsConnection, Labels

-----------------------------------------------------------------------------
(* Maps and rows *)

LEMMA UserMapTypes ==
  ASSUME NEW users \in UserMaps
  PROVE  DOMAIN users \subseteq Users /\ \A u \in DOMAIN users : users[u] \in Entries
  BY DEF UserMaps

LEMMA UserMapIntro ==
  ASSUME NEW U \in SUBSET Users, NEW users \in [U -> Entries]
  PROVE  users \in UserMaps
  BY DEF UserMaps

LEMMA ClientMapTypes ==
  ASSUME NEW clients \in ClientMaps
  PROVE  DOMAIN clients \subseteq Connections /\ \A c \in DOMAIN clients : clients[c] \in Users
  BY DEF ClientMaps

LEMMA ClientMapIntro ==
  ASSUME NEW C \in SUBSET Connections, NEW clients \in [C -> Users]
  PROVE  clients \in ClientMaps
  BY DEF ClientMaps

LEMMA WithUser ==
  ASSUME NEW users \in UserMaps, NEW u \in Users, NEW e \in Entries
  PROVE  /\ With(users, u, e) \in UserMaps
         /\ DOMAIN With(users, u, e) = DOMAIN users \cup {u}
         /\ \A w \in DOMAIN users \cup {u} :
              With(users, u, e)[w] = IF w = u THEN e ELSE users[w]
<1>1. DOMAIN users \cup {u} \in SUBSET Users
  BY UserMapTypes
<1>2. With(users, u, e) \in [DOMAIN users \cup {u} -> Entries]
  BY UserMapTypes DEF With
<1> QED BY <1>1, <1>2, UserMapIntro DEF With

LEMMA WithoutUser ==
  ASSUME NEW users \in UserMaps, NEW u
  PROVE  /\ Without(users, u) \in UserMaps
         /\ DOMAIN Without(users, u) = DOMAIN users \ {u}
         /\ \A w \in DOMAIN users \ {u} : Without(users, u)[w] = users[w]
<1>1. DOMAIN users \ {u} \in SUBSET Users
  BY UserMapTypes
<1>2. Without(users, u) \in [DOMAIN users \ {u} -> Entries]
  BY UserMapTypes DEF Without
<1> QED BY <1>1, <1>2, UserMapIntro DEF Without

LEMMA WithClient ==
  ASSUME NEW clients \in ClientMaps, NEW c \in Connections, NEW u \in Users
  PROVE  /\ With(clients, c, u) \in ClientMaps
         /\ DOMAIN With(clients, c, u) = DOMAIN clients \cup {c}
         /\ \A d \in DOMAIN clients \cup {c} :
              With(clients, c, u)[d] = IF d = c THEN u ELSE clients[d]
<1>1. DOMAIN clients \cup {c} \in SUBSET Connections
  BY ClientMapTypes
<1>2. With(clients, c, u) \in [DOMAIN clients \cup {c} -> Users]
  BY ClientMapTypes DEF With
<1> QED BY <1>1, <1>2, ClientMapIntro DEF With

LEMMA WithoutClient ==
  ASSUME NEW clients \in ClientMaps, NEW c
  PROVE  /\ Without(clients, c) \in ClientMaps
         /\ DOMAIN Without(clients, c) = DOMAIN clients \ {c}
         /\ \A d \in DOMAIN clients \ {c} : Without(clients, c)[d] = clients[d]
<1>1. DOMAIN clients \ {c} \in SUBSET Connections
  BY ClientMapTypes
<1>2. Without(clients, c) \in [DOMAIN clients \ {c} -> Users]
  BY ClientMapTypes DEF Without
<1> QED BY <1>1, <1>2, ClientMapIntro DEF Without

LEMMA UnsetType == Unset \in States
  BY DEF Unset, States

LEMMA EmptyTypes == EmptyRoom \in RoomRows /\ NoRoom \in RoomRows /\ EmptySite \in SiteRows
<1>0. \A S : << >> \in [{} -> S]
  OBVIOUS
<1>1. << >> \in UserMaps
  BY <1>0 DEF UserMaps
<1>2. << >> \in ClientMaps
  BY <1>0 DEF ClientMaps
<1>3. EmptySite \in SiteRows
  BY DEF EmptySite, SiteRows, Maybe
<1> QED BY <1>1, <1>2, <1>3 DEF EmptyRoom, NoRoom, RoomRows

-----------------------------------------------------------------------------
(* What each step does to the cells, pointwise *)

LEMMA StaysTyped ==
  ASSUME TaskTypes, NEW c \in Connections, NEW l \in Labels, Move(c, l)
  PROVE  /\ pc' \in [Connections -> Labels] /\ pc'[c] = l
         /\ \A d \in Connections : d # c => pc'[d] = pc[d]
  BY DEF TaskTypes, Move

\* The end of a task.
LEMMA Ends ==
  ASSUME TaskTypes, NEW c \in Connections, End(c)
  PROVE  /\ pc' \in [Connections -> Labels] /\ pc'[c] = "socket"
         /\ asked' \in [Connections -> Maybe(Requests)]
         /\ siteCell' \in [Connections -> Maybe(SiteCells)] /\ siteCell'[c] = None
         /\ roomCell' \in [Connections -> Maybe(RoomCells)] /\ roomCell'[c] = None
         /\ \A d \in Connections \ {c} :
              /\ pc'[d] = pc[d] /\ asked'[d] = asked[d]
              /\ siteCell'[d] = siteCell[d] /\ roomCell'[d] = roomCell[d]
  BY DEF TaskTypes, End, GoTo, Labels, Maybe

\* Reserve: a place of a known site, a refusal, or a new site.
ReservesPlace(c, h) ==
  /\ sites[asked'[c].site] = h /\ h \in SiteCells /\ siteRooms[h].connections < limits.perSite
  /\ siteCell'[c] = h /\ Move(c, "room") /\ sites' = sites
  /\ siteRooms' = [siteRooms EXCEPT ![h].connections = @ + 1]
IsRefused(c) ==
  /\ siteCell'[c] = siteCell[c] /\ Move(c, "refused") /\ sites' = sites /\ siteRooms' = siteRooms
OpensSite(c, h) ==
  /\ sites[asked'[c].site] = None /\ h \in FreeSiteCells
  /\ siteCell'[c] = h /\ Move(c, "room") /\ sites' = [sites EXCEPT ![asked'[c].site] = h]
  /\ siteRooms' = [siteRooms EXCEPT ![h] = [EmptySite EXCEPT !.connections = 1]]

LEMMA ReserveEffect ==
  ASSUME Types, NEW c \in Connections, Reserve(c)
  PROVE  /\ pc[c] = "socket" /\ connections < limits.connections /\ connections' = connections + 1
         /\ asked' \in [Connections -> Maybe(Requests)] /\ asked'[c] \in Requests
         /\ siteCell' \in [Connections -> Maybe(SiteCells)]
         /\ \A d \in Connections \ {c} : asked'[d] = asked[d] /\ siteCell'[d] = siteCell[d]
         /\ UNCHANGED <<limits, rooms, roomCell, streams>>
         /\ (\E h \in SiteCells : ReservesPlace(c, h) \/ OpensSite(c, h)) \/ IsRefused(c)
<1>1. PICK j \in Joins[c] :
        /\ asked' = [asked EXCEPT ![c] = j]
        /\ \/ /\ sites[j.site] # None
              /\ siteRooms[sites[j.site]].connections < limits.perSite
              /\ siteRooms' = [siteRooms EXCEPT ![sites[j.site]].connections = @ + 1]
              /\ siteCell' = [siteCell EXCEPT ![c] = sites[j.site]]
              /\ GoTo(c, "room")
              /\ UNCHANGED sites
           \/ /\ GoTo(c, "refused")
              /\ UNCHANGED <<sites, siteRooms, siteCell>>
           \/ /\ sites[j.site] = None
              /\ \E new \in FreeSiteCells :
                   /\ siteRooms' = [siteRooms EXCEPT ![new] = [EmptySite EXCEPT !.connections = 1]]
                   /\ sites' = [sites EXCEPT ![j.site] = new]
                   /\ siteCell' = [siteCell EXCEPT ![c] = new]
              /\ GoTo(c, "room")
  BY DEF Reserve
<1>2. j \in Requests /\ j.site \in Sites
  BY JoinsAssumption DEF Requests
<1>3. asked' \in [Connections -> Maybe(Requests)] /\ asked'[c] = j
      /\ \A d \in Connections \ {c} : asked'[d] = asked[d]
  BY <1>1, <1>2 DEF Types, TaskTypes, Maybe
<1>4. FreeSiteCells \subseteq SiteCells
  BY DEF FreeSiteCells
<1>5. CASE /\ sites[j.site] # None
           /\ siteRooms[sites[j.site]].connections < limits.perSite
           /\ siteRooms' = [siteRooms EXCEPT ![sites[j.site]].connections = @ + 1]
           /\ siteCell' = [siteCell EXCEPT ![c] = sites[j.site]]
           /\ GoTo(c, "room")
           /\ UNCHANGED sites
  <2>1. sites[j.site] \in SiteCells
    BY <1>2, <1>5 DEF Types, HubTypes, Maybe
  <2>2. ReservesPlace(c, sites[j.site])
    BY <1>3, <1>5, <2>1 DEF Types, TaskTypes, ReservesPlace, Move, GoTo
  <2>3. siteCell' \in [Connections -> Maybe(SiteCells)]
        /\ \A d \in Connections \ {c} : siteCell'[d] = siteCell[d]
    BY <1>5, <2>1 DEF Types, TaskTypes, Maybe
  <2> QED BY <1>2, <1>3, <2>1, <2>2, <2>3 DEF Reserve
<1>6. CASE GoTo(c, "refused") /\ UNCHANGED <<sites, siteRooms, siteCell>>
  BY <1>2, <1>3, <1>6 DEF Types, TaskTypes, IsRefused, Move, GoTo, Reserve
<1>7. ASSUME sites[j.site] = None, GoTo(c, "room"), NEW new \in FreeSiteCells,
             siteRooms' = [siteRooms EXCEPT ![new] = [EmptySite EXCEPT !.connections = 1]],
             sites' = [sites EXCEPT ![j.site] = new],
             siteCell' = [siteCell EXCEPT ![c] = new]
      PROVE  OpensSite(c, new) /\ siteCell' \in [Connections -> Maybe(SiteCells)]
             /\ \A d \in Connections \ {c} : siteCell'[d] = siteCell[d]
  BY <1>3, <1>4, <1>7 DEF Types, TaskTypes, OpensSite, Move, GoTo, Maybe
<1> QED BY <1>1, <1>2, <1>3, <1>4, <1>5, <1>6, <1>7 DEF Reserve

\* A site's counter of connections goes up or down.
LEMMA CountsConnections ==
  ASSUME HubTypes, NEW h \in SiteCells, NEW n \in {1, -1},
         \/ n = 1 /\ siteRooms' = [siteRooms EXCEPT ![h].connections = @ + 1]
         \/ n = -1 /\ siteRooms' = [siteRooms EXCEPT ![h].connections = @ - 1]
  PROVE  /\ siteRooms' \in [SiteCells -> SiteRows]
         /\ \A g \in SiteCells :
              /\ siteRooms'[g].rooms = siteRooms[g].rooms
              /\ siteRooms'[g].room_count = siteRooms[g].room_count
              /\ siteRooms'[g].connections =
                   IF g = h THEN siteRooms[g].connections + n ELSE siteRooms[g].connections
<1>1. CASE n = 1
  <2>1. siteRooms' = [siteRooms EXCEPT ![h].connections = @ + 1]
    BY <1>1
  <2>2. siteRooms[h].connections + 1 = siteRooms[h].connections + n
    BY <1>1
  <2> QED BY <2>1, <2>2 DEF HubTypes, SiteRows
<1>2. CASE n = -1
  <2>1. siteRooms' = [siteRooms EXCEPT ![h].connections = @ - 1]
    BY <1>2
  <2>2. siteRooms[h].connections - 1 = siteRooms[h].connections + n
    BY <1>2 DEF HubTypes, SiteRows
  <2> QED BY <2>1, <2>2 DEF HubTypes, SiteRows
<1> QED BY <1>1, <1>2

\* A room's entry is made, with its place, or removed.
EntryMade(h, r, l) ==
  siteRooms' = [siteRooms EXCEPT ![h].rooms[r] = l, ![h].room_count = @ + 1]
EntryRemoved(h, r) == siteRooms' = [siteRooms EXCEPT ![h].rooms[r] = None]

LEMMA MakesEntry ==
  ASSUME HubTypes, NEW h \in SiteCells, NEW r \in Rooms, NEW l \in RoomCells, EntryMade(h, r, l)
  PROVE  /\ siteRooms' \in [SiteCells -> SiteRows]
         /\ \A g \in SiteCells : \A q \in Rooms :
              siteRooms'[g].rooms[q] = IF g = h /\ q = r THEN l ELSE siteRooms[g].rooms[q]
         /\ \A g \in SiteCells :
              /\ siteRooms'[g].room_count =
                   IF g = h THEN siteRooms[g].room_count + 1 ELSE siteRooms[g].room_count
              /\ siteRooms'[g].connections = siteRooms[g].connections
<1> DEFINE row == [rooms |-> [siteRooms[h].rooms EXCEPT ![r] = l],
                   room_count |-> siteRooms[h].room_count + 1,
                   connections |-> siteRooms[h].connections]
<1>1. siteRooms[h] \in SiteRows
  BY DEF HubTypes
<1>2. siteRooms[h].rooms \in [Rooms -> Maybe(RoomCells)]
  BY <1>1 DEF SiteRows
<1>3. [siteRooms[h].rooms EXCEPT ![r] = l] \in [Rooms -> Maybe(RoomCells)]
  BY <1>2 DEF Maybe
<1>4. row \in SiteRows
  BY <1>1, <1>3 DEF SiteRows
<1>5. siteRooms' = [siteRooms EXCEPT ![h] = row]
  BY <1>1 DEF HubTypes, SiteRows, EntryMade
<1>6. /\ \A q \in Rooms : row.rooms[q] = IF q = r THEN l ELSE siteRooms[h].rooms[q]
      /\ row.room_count = siteRooms[h].room_count + 1
      /\ row.connections = siteRooms[h].connections
  BY <1>2
<1> HIDE DEF row
<1>7. /\ siteRooms' \in [SiteCells -> SiteRows]
      /\ siteRooms'[h] = row /\ \A g \in SiteCells \ {h} : siteRooms'[g] = siteRooms[g]
  BY <1>4, <1>5 DEF HubTypes
<1> QED BY <1>6, <1>7

LEMMA RemovesEntry ==
  ASSUME HubTypes, NEW h \in SiteCells, NEW r \in Rooms, EntryRemoved(h, r)
  PROVE  /\ siteRooms' \in [SiteCells -> SiteRows]
         /\ \A g \in SiteCells : \A q \in Rooms :
              siteRooms'[g].rooms[q] = IF g = h /\ q = r THEN None ELSE siteRooms[g].rooms[q]
         /\ \A g \in SiteCells :
              /\ siteRooms'[g].room_count = siteRooms[g].room_count
              /\ siteRooms'[g].connections = siteRooms[g].connections
<1> DEFINE row == [rooms |-> [siteRooms[h].rooms EXCEPT ![r] = None],
                   room_count |-> siteRooms[h].room_count,
                   connections |-> siteRooms[h].connections]
<1>1. siteRooms[h] \in SiteRows
  BY DEF HubTypes
<1>2. siteRooms[h].rooms \in [Rooms -> Maybe(RoomCells)]
  BY <1>1 DEF SiteRows
<1>3. [siteRooms[h].rooms EXCEPT ![r] = None] \in [Rooms -> Maybe(RoomCells)]
  BY <1>2 DEF Maybe
<1>4. row \in SiteRows
  BY <1>1, <1>3 DEF SiteRows
<1>5. siteRooms' = [siteRooms EXCEPT ![h] = row]
  <2>1. siteRooms' =
          [siteRooms EXCEPT ![h] =
             [siteRooms[h] EXCEPT !.rooms = [siteRooms[h].rooms EXCEPT ![r] = None]]]
    BY DEF EntryRemoved
  <2>2. [siteRooms[h] EXCEPT !.rooms = [siteRooms[h].rooms EXCEPT ![r] = None]] = row
    BY <1>1 DEF SiteRows
  <2> QED BY <2>1, <2>2
<1>6. /\ \A q \in Rooms : row.rooms[q] = IF q = r THEN None ELSE siteRooms[h].rooms[q]
      /\ row.room_count = siteRooms[h].room_count
      /\ row.connections = siteRooms[h].connections
  BY <1>2
<1> HIDE DEF row
<1>7. /\ siteRooms' \in [SiteCells -> SiteRows]
      /\ siteRooms'[h] = row /\ \A g \in SiteCells \ {h} : siteRooms'[g] = siteRooms[g]
  BY <1>4, <1>5 DEF HubTypes
<1> QED BY <1>6, <1>7

\* A room's place is given back.
LEMMA ReturnsPlace ==
  ASSUME HubTypes, NEW h \in SiteCells,
         siteRooms' = [siteRooms EXCEPT ![h].room_count = @ - 1]
  PROVE  /\ siteRooms' \in [SiteCells -> SiteRows]
         /\ \A g \in SiteCells :
              /\ siteRooms'[g].rooms = siteRooms[g].rooms
              /\ siteRooms'[g].room_count =
                   IF g = h THEN siteRooms[g].room_count - 1 ELSE siteRooms[g].room_count
              /\ siteRooms'[g].connections = siteRooms[g].connections
  BY DEF HubTypes, SiteRows

\* A site's cell starts afresh.
LEMMA StartsSite ==
  ASSUME HubTypes, NEW h \in SiteCells,
         siteRooms' = [siteRooms EXCEPT ![h] = [EmptySite EXCEPT !.connections = 1]]
  PROVE  /\ siteRooms' \in [SiteCells -> SiteRows]
         /\ \A g \in SiteCells \ {h} : siteRooms'[g] = siteRooms[g]
         /\ \A r \in Rooms : siteRooms'[h].rooms[r] = None
         /\ siteRooms'[h].room_count = 0 /\ siteRooms'[h].connections = 1
  BY DEF HubTypes, SiteRows, EmptySite, Maybe

\* The users and the clients of a room are set, and nothing else.
LEMMA SetsMembers ==
  ASSUME HubTypes, NEW l \in RoomCells, NEW users \in UserMaps, NEW clients \in ClientMaps,
         rooms' = [rooms EXCEPT ![l].users = users, ![l].clients = clients]
  PROVE  /\ rooms' \in [RoomCells -> RoomRows]
         /\ \A m \in RoomCells :
              /\ rooms'[m].users = IF m = l THEN users ELSE rooms[m].users
              /\ rooms'[m].clients = IF m = l THEN clients ELSE rooms[m].clients
              /\ rooms'[m].closed = rooms[m].closed
  BY DEF HubTypes, RoomRows

LEMMA EnteredTypes ==
  ASSUME Types, NEW c \in Connections, pc[c] = "enter"
  PROVE  /\ asked[c].user \in Users /\ roomCell[c] \in RoomCells
         /\ Entered(c) \in UserMaps
         /\ DOMAIN Entered(c) = DOMAIN rooms[roomCell[c]].users \cup {asked[c].user}
         /\ c \in Entered(c)[asked[c].user].connections
         /\ \A w \in DOMAIN rooms[roomCell[c]].users :
              rooms[roomCell[c]].users[w].connections \subseteq Entered(c)[w].connections
<1> DEFINE here == rooms[roomCell[c]].users
           u == asked[c].user
<1>1. u \in Users /\ roomCell[c] \in RoomCells
  BY DEF Types, Holdings, HoldsRoom, KnowsSite, HoldsSite, Requests
<1>2. here \in UserMaps
  BY <1>1 DEF Types, HubTypes, RoomRows
<1>3. \A w \in DOMAIN here : here[w] \in Entries
  BY <1>2, UserMapTypes
<1>4. CASE u \in DOMAIN here
  <2> DEFINE more == [here EXCEPT ![u].connections = @ \cup {c}]
  <2>1. here \in [DOMAIN here -> Entries] /\ DOMAIN here \in SUBSET Users
    BY <1>2, <1>3 DEF UserMaps
  <2>2. more \in [DOMAIN here -> Entries]
    BY <1>3, <1>4, <2>1 DEF Entries
  <2>3. /\ DOMAIN more = DOMAIN here
        /\ c \in more[u].connections
        /\ \A w \in DOMAIN here : here[w].connections \subseteq more[w].connections
    BY <1>3, <1>4, <2>1 DEF Entries
  <2>4. Entered(c) = more
    BY <1>4 DEF Entered
  <2>5. more \in UserMaps
    <3> HIDE DEF more, here
    <3> QED BY ONLY <2>1, <2>2, UserMapIntro
  <2>6. DOMAIN here \cup {u} = DOMAIN here
    BY <1>4
  <2>7. c \in Entered(c)[u].connections
    BY <2>3, <2>4
  <2>8. \A w \in DOMAIN here : here[w].connections \subseteq Entered(c)[w].connections
    BY <2>3, <2>4
  <2>9. Entered(c) \in UserMaps /\ DOMAIN Entered(c) = DOMAIN here \cup {u}
    BY <2>3, <2>4, <2>5, <2>6
  <2> HIDE DEF more
  <2> QED BY <1>1, <2>7, <2>8, <2>9
<1>5. CASE u \notin DOMAIN here
  <2> DEFINE e == [connections |-> {c}, states |-> Unset]
  <2>1. e \in Entries /\ e.connections = {c}
    BY UnsetType DEF Entries
  <2>2. Entered(c) = With(here, u, e)
    BY <1>5 DEF Entered
  <2> HIDE DEF here, u, e
  <2>0. u \in Users /\ here \in UserMaps /\ e \in Entries
    BY <1>1, <1>2, <2>1
  <2>5. /\ With(here, u, e) \in UserMaps
        /\ DOMAIN With(here, u, e) = DOMAIN here \cup {u}
        /\ \A w \in DOMAIN here \cup {u} : With(here, u, e)[w] = IF w = u THEN e ELSE here[w]
    <3>1. With(here, u, e) \in UserMaps  BY ONLY <2>0, WithUser
    <3>2. DOMAIN With(here, u, e) = DOMAIN here \cup {u}  BY ONLY <2>0, WithUser
    <3>3. \A w \in DOMAIN here \cup {u} : With(here, u, e)[w] = IF w = u THEN e ELSE here[w]
      BY ONLY DEF With
    <3> QED BY ONLY <3>1, <3>2, <3>3
  <2> DEFINE there == With(here, u, e)
  <2>6. /\ there \in UserMaps
        /\ DOMAIN there = DOMAIN here \cup {u}
        /\ \A w \in DOMAIN here \cup {u} : there[w] = IF w = u THEN e ELSE here[w]
    BY ONLY <2>5
  <2> HIDE DEF there
  <2>3. /\ Entered(c) \in UserMaps
        /\ DOMAIN Entered(c) = DOMAIN here \cup {u}
        /\ \A w \in DOMAIN here \cup {u} : Entered(c)[w] = IF w = u THEN e ELSE here[w]
    BY <2>2, <2>6 DEF there
  <2>4. \A w \in DOMAIN here : Entered(c)[w] = here[w]
    BY <1>5, <2>3
  <2>7. c \in Entered(c)[u].connections
    BY <2>1, <2>3
  <2> QED BY <1>1, <2>3, <2>4, <2>7 DEF here, u
<1> QED BY <1>4, <1>5

\* EnterRoom puts one connection and its user into the room.
LEMMA EnterEffect ==
  ASSUME Types, NEW c \in Connections, EnterRoom(c)
  PROVE  LET l == roomCell[c]
             u == asked[c].user
         IN /\ pc[c] = "enter" /\ Move(c, "send") /\ l \in RoomCells /\ u \in Users
            /\ ~rooms[l].closed /\ Cardinality(Members(l)) < limits.perRoom
            /\ UNCHANGED <<limits, sites, connections, siteRooms, tasks>>
            /\ rooms' \in [RoomCells -> RoomRows]
            /\ \A m \in RoomCells \ {l} : rooms'[m] = rooms[m]
            /\ rooms'[l].closed = rooms[l].closed
            /\ DOMAIN rooms'[l].clients = Members(l) \cup {c}
            /\ \A d \in Members(l) \cup {c} :
                 rooms'[l].clients[d] = IF d = c THEN u ELSE rooms[l].clients[d]
            /\ DOMAIN rooms'[l].users = DOMAIN rooms[l].users \cup {u}
            /\ c \in rooms'[l].users[u].connections
            /\ \A w \in DOMAIN rooms[l].users :
                 rooms[l].users[w].connections \subseteq rooms'[l].users[w].connections
<1> DEFINE l == roomCell[c]
           u == asked[c].user
<1>1. pc[c] = "enter" /\ Move(c, "send")
      /\ ~rooms[l].closed /\ Cardinality(Members(l)) < limits.perRoom
      /\ UNCHANGED <<limits, sites, connections, siteRooms, tasks>>
      /\ rooms' = [rooms EXCEPT ![l].users = Entered(c), ![l].clients = With(@, c, u)]
  BY DEF EnterRoom, Move, GoTo
<1>2. /\ u \in Users /\ l \in RoomCells /\ Entered(c) \in UserMaps
      /\ DOMAIN Entered(c) = DOMAIN rooms[l].users \cup {u}
      /\ c \in Entered(c)[u].connections
      /\ \A w \in DOMAIN rooms[l].users :
           rooms[l].users[w].connections \subseteq Entered(c)[w].connections
  BY <1>1, EnteredTypes
<1>3. rooms[l].clients \in ClientMaps
  BY <1>2 DEF Types, HubTypes, RoomRows
<1>4. /\ With(rooms[l].clients, c, u) \in ClientMaps
      /\ DOMAIN With(rooms[l].clients, c, u) = Members(l) \cup {c}
      /\ \A d \in Members(l) \cup {c} :
           With(rooms[l].clients, c, u)[d] = IF d = c THEN u ELSE rooms[l].clients[d]
  BY <1>2, <1>3, WithClient DEF Members
<1>5. rooms' = [rooms EXCEPT ![l].users = Entered(c), ![l].clients = With(rooms[l].clients, c, u)]
  BY <1>1, <1>2 DEF Types, HubTypes, RoomRows
<1> HIDE DEF l, u
<1>6. /\ rooms' \in [RoomCells -> RoomRows]
      /\ \A m \in RoomCells :
           /\ rooms'[m].users = IF m = l THEN Entered(c) ELSE rooms[m].users
           /\ rooms'[m].clients = IF m = l THEN With(rooms[l].clients, c, u) ELSE rooms[m].clients
           /\ rooms'[m].closed = rooms[m].closed
  BY <1>2, <1>4, <1>5, SetsMembers DEF Types
<1>7. \A m \in RoomCells \ {l} : rooms'[m] = rooms[m]
  BY <1>2, <1>5 DEF Types, HubTypes
<1> QED BY <1>1, <1>2, <1>4, <1>6, <1>7 DEF l, u

(***************************************************************************)
(* The invariant.  A task that holds a place of a site is of the site's    *)
(* own cell, and one inside a room of the room's own cell; the tasks on    *)
(* their way in are of it unless it has been closed meanwhile, which is    *)
(* what the closed flag is for.  A room that has a name is open, and every *)
(* task that refers to its cell calls it by that name.                     *)
(***************************************************************************)
Placed ==
  \A c \in Connections :
    /\ pc[c] \in HoldsSite => sites[asked[c].site] = siteCell[c]
    /\ pc[c] \in Inside =>
         Entry(siteCell[c], asked[c].room) = roomCell[c] /\ c \in DOMAIN rooms[roomCell[c]].clients
    /\ pc[c] = "enter" /\ ~rooms[roomCell[c]].closed =>
         Entry(siteCell[c], asked[c].room) = roomCell[c]
Seated ==
  \A l \in RoomCells : \A c \in DOMAIN rooms[l].clients :
    /\ c \in Connections /\ pc[c] \in Inside /\ roomCell[c] = l
    /\ rooms[l].clients[c] = asked[c].user
    /\ asked[c].user \in DOMAIN rooms[l].users
    /\ c \in rooms[l].users[asked[c].user].connections
Occupied ==
  \A h \in SiteCells, r \in Rooms : Entry(h, r) # None =>
    /\ ~rooms[Entry(h, r)].closed
    /\ \E c \in Connections : pc[c] \in HoldsRoom /\ roomCell[c] = Entry(h, r)
    /\ \A c \in Connections : pc[c] \in HoldsRoom /\ roomCell[c] = Entry(h, r) =>
         siteCell[c] = h /\ asked[c].room = r
Bounded ==
  /\ connections <= limits.connections
  /\ \A h \in SiteCells :
       siteRooms[h].connections <= limits.perSite /\ siteRooms[h].room_count <= limits.rooms
  /\ \A l \in RoomCells : Cardinality(DOMAIN rooms[l].clients) <= limits.perRoom

Cells == Placed /\ Seated /\ Occupied
RoomsInv == Types /\ Cells /\ Bounded /\ CountersAreExact

\* LeaveRoom takes one connection out of the room; the others keep their user.
LEMMA LeaveEffect ==
  ASSUME Types, Cells, NEW c \in Connections, LeaveRoom(c)
  PROVE  LET l == roomCell[c]
         IN /\ pc[c] = "leave" /\ Move(c, "left") /\ l \in RoomCells
            /\ UNCHANGED <<limits, sites, connections, siteRooms, tasks>>
            /\ rooms' \in [RoomCells -> RoomRows]
            /\ \A m \in RoomCells \ {l} : rooms'[m] = rooms[m]
            /\ rooms'[l].closed = rooms[l].closed
            /\ DOMAIN rooms'[l].clients = DOMAIN rooms[l].clients \ {c}
            /\ \A d \in DOMAIN rooms[l].clients \ {c} :
                 /\ rooms'[l].clients[d] = rooms[l].clients[d]
                 /\ asked[d].user \in DOMAIN rooms'[l].users
                 /\ d \in rooms'[l].users[asked[d].user].connections
<1> DEFINE l == roomCell[c]
           here == rooms[l].users
           u == rooms[l].clients[c]
           rest == here[u].connections \ {c}
           users == IF rest = {} THEN Without(here, u) ELSE [here EXCEPT ![u].connections = rest]
           clients == Without(rooms[l].clients, c)
<1>1. /\ pc[c] = "leave" /\ Move(c, "left")
      /\ UNCHANGED <<limits, sites, connections, siteRooms, tasks>>
      /\ rooms' = [rooms EXCEPT
           ![l].clients = Without(@, c),
           ![l].users = IF rest = {} THEN Without(@, u) ELSE [@ EXCEPT ![u].connections = rest]]
  BY DEF LeaveRoom, Move, GoTo
<1>2. l \in RoomCells /\ c \in DOMAIN rooms[l].clients
  BY <1>1 DEF Types, Holdings, Cells, Placed, HoldsRoom, Inside
<1>3. here \in UserMaps /\ rooms[l].clients \in ClientMaps
  BY <1>2 DEF Types, HubTypes, RoomRows
<1>4. /\ \A d \in DOMAIN rooms[l].clients : asked[d].user \in DOMAIN here
      /\ \A d \in DOMAIN rooms[l].clients : d \in here[asked[d].user].connections
      /\ u = asked[c].user /\ u \in DOMAIN here
  BY <1>2 DEF Cells, Seated
<1>5. here[u] \in Entries /\ here \in [DOMAIN here -> Entries] /\ DOMAIN here \subseteq Users
  BY <1>3, <1>4, UserMapTypes DEF UserMaps
<1>6. /\ clients \in ClientMaps /\ DOMAIN clients = DOMAIN rooms[l].clients \ {c}
      /\ \A d \in DOMAIN rooms[l].clients \ {c} : clients[d] = rooms[l].clients[d]
  BY <1>3, WithoutClient
<1>7. /\ users \in UserMaps
      /\ \A d \in DOMAIN rooms[l].clients \ {c} :
           asked[d].user \in DOMAIN users /\ d \in users[asked[d].user].connections
  <2>1. CASE rest = {}
    <3>1. /\ Without(here, u) \in UserMaps /\ DOMAIN Without(here, u) = DOMAIN here \ {u}
          /\ \A w \in DOMAIN here \ {u} : Without(here, u)[w] = here[w]
      BY <1>3, WithoutUser
    <3>2. \A d \in DOMAIN rooms[l].clients \ {c} : asked[d].user # u
      BY <1>4, <2>1
    <3> QED BY <1>4, <2>1, <3>1, <3>2
  <2>2. CASE rest # {}
    <3> DEFINE fewer == [here EXCEPT ![u].connections = rest]
    <3>1. fewer \in [DOMAIN here -> Entries]
      BY <1>4, <1>5 DEF Entries
    <3>2. fewer \in UserMaps
      BY <1>5, <3>1, UserMapIntro
    <3>3. \A w \in DOMAIN here : fewer[w].connections = IF w = u THEN rest ELSE here[w].connections
      BY <1>4, <1>5 DEF Entries
    <3>4. \A d \in DOMAIN rooms[l].clients \ {c} : asked[d].user = u => d \in rest
      BY <1>4
    <3> HIDE DEF fewer, rest
    <3>5. \A d \in DOMAIN rooms[l].clients \ {c} :
            asked[d].user \in DOMAIN here /\ d \in fewer[asked[d].user].connections
      BY <1>4, <3>3, <3>4
    <3>6. DOMAIN fewer = DOMAIN here
      BY <3>1
    <3>7. users = fewer
      BY <2>2 DEF fewer
    <3> QED BY <3>2, <3>5, <3>6, <3>7
  <2> QED BY <2>1, <2>2
<1>8. rooms' = [rooms EXCEPT ![l].users = users, ![l].clients = clients]
  BY <1>1, <1>2 DEF Types, HubTypes, RoomRows
<1>9. \A m \in RoomCells \ {l} : rooms'[m] = rooms[m]
  BY <1>2, <1>8 DEF Types, HubTypes
<1> HIDE DEF users, clients, l
<1>10. /\ rooms' \in [RoomCells -> RoomRows]
       /\ \A m \in RoomCells :
            /\ rooms'[m].users = IF m = l THEN users ELSE rooms[m].users
            /\ rooms'[m].clients = IF m = l THEN clients ELSE rooms[m].clients
            /\ rooms'[m].closed = rooms[m].closed
  BY <1>2, <1>6, <1>7, <1>8, SetsMembers DEF Types
<1>11. /\ rooms'[l].closed = rooms[l].closed
       /\ DOMAIN rooms'[l].clients = DOMAIN rooms[l].clients \ {c}
       /\ \A d \in DOMAIN rooms[l].clients \ {c} :
            /\ rooms'[l].clients[d] = rooms[l].clients[d]
            /\ asked[d].user \in DOMAIN rooms'[l].users
            /\ d \in rooms'[l].users[asked[d].user].connections
  <2>1. rooms'[l].clients = clients /\ rooms'[l].users = users
    BY <1>2, <1>10
  <2> QED BY <1>2, <1>6, <1>7, <1>10, <2>1
<1> QED BY <1>1, <1>2, <1>9, <1>10, <1>11 DEF l

\* A room's cell starts afresh, or is closed.
LEMMA StartsRoom ==
  ASSUME HubTypes, NEW l \in RoomCells, rooms' = [rooms EXCEPT ![l] = EmptyRoom]
  PROVE  /\ rooms' \in [RoomCells -> RoomRows]
         /\ \A m \in RoomCells \ {l} : rooms'[m] = rooms[m]
         /\ DOMAIN rooms'[l].clients = {} /\ ~rooms'[l].closed
<1>1. rooms' \in [RoomCells -> RoomRows] /\ rooms'[l] = EmptyRoom
  BY EmptyTypes DEF HubTypes
<1>2. \A m \in RoomCells \ {l} : rooms'[m] = rooms[m]
  BY DEF HubTypes
<1> QED BY <1>1, <1>2 DEF EmptyRoom

LEMMA ClosesRoom ==
  ASSUME HubTypes, NEW l \in RoomCells, rooms' = [rooms EXCEPT ![l].closed = TRUE]
  PROVE  /\ rooms' \in [RoomCells -> RoomRows]
         /\ \A m \in RoomCells : rooms'[m].clients = rooms[m].clients /\ rooms'[m].users = rooms[m].users
         /\ \A m \in RoomCells \ {l} : rooms'[m] = rooms[m]
  BY DEF HubTypes, RoomRows

(***************************************************************************)
(* The loop of serve_room: a step of it moves a task within the room, and  *)
(* nobody's seat changes.                                                  *)
(***************************************************************************)
SameSeats ==
  \A l \in RoomCells :
    /\ rooms'[l].clients = rooms[l].clients /\ rooms'[l].closed = rooms[l].closed
    /\ DOMAIN rooms'[l].users = DOMAIN rooms[l].users
    /\ \A u \in DOMAIN rooms[l].users :
         rooms'[l].users[u].connections = rooms[l].users[u].connections
Talks(c) ==
  /\ UNCHANGED <<limits, sites, connections, siteRooms, tasks>>
  /\ rooms' \in [RoomCells -> RoomRows] /\ SameSeats
  /\ pc[c] \in Inside /\ \E x \in Inside : Move(c, x)

LEMMA SetStateTypes ==
  ASSUME Types, Cells, NEW c \in Connections, pc[c] \in Inside
  PROVE  LET l == roomCell[c]
             u == asked[c].user
         IN /\ l \in RoomCells /\ u \in Users /\ u \in DOMAIN rooms[l].users
            /\ rooms[l].users \in UserMaps
            /\ rooms[l].users[u] \in Entries /\ rooms[l].users[u].states \in States
<1>1. roomCell[c] \in RoomCells /\ asked[c].user \in DOMAIN rooms[roomCell[c]].users
  BY LabelSets DEF Types, Holdings, Cells, Placed, Seated
<1>2. rooms[roomCell[c]].users \in UserMaps
  BY <1>1 DEF Types, HubTypes, RoomRows
<1> QED BY <1>1, <1>2, UserMapTypes DEF Entries

LEMMA SetStateEffect ==
  ASSUME Types, Cells, NEW c \in Connections, pc[c] \in Inside, NEW k \in Keys, NEW v \in Values,
         rooms' = [rooms EXCEPT ![roomCell[c]].users[asked[c].user].states[k] = v]
  PROVE  rooms' \in [RoomCells -> RoomRows] /\ SameSeats
<1> DEFINE l == roomCell[c]
           u == asked[c].user
           here == rooms[l].users
           set == [here[u].states EXCEPT ![k] = v]
           users == [here EXCEPT ![u].states[k] = v]
<1>1. /\ l \in RoomCells /\ u \in Users /\ u \in DOMAIN here /\ here \in UserMaps
      /\ here[u] \in Entries /\ here[u].states \in States
  BY SetStateTypes
<1>2. set \in States
  BY <1>1 DEF States
<1>3. here \in [DOMAIN here -> Entries] /\ DOMAIN here \in SUBSET Users
  BY <1>1 DEF UserMaps
<1>4. /\ users \in [DOMAIN here -> Entries]
      /\ \A w \in DOMAIN here : users[w].connections = here[w].connections
  <2>1. users[u] = [here[u] EXCEPT !.states = set]
    BY <1>1
  <2>2. users[u] \in Entries /\ users[u].connections = here[u].connections
    BY <1>1, <1>2, <2>1 DEF Entries
  <2>3. \A w \in DOMAIN here \ {u} : users[w] = here[w]
    OBVIOUS
  <2> HIDE DEF set
  <2> QED BY <1>3, <2>2, <2>3
<1>5. users \in UserMaps
  BY <1>3, <1>4, UserMapIntro
<1>7. rooms' = [rooms EXCEPT ![l].users = users, ![l].clients = rooms[l].clients]
  <2>1. rooms[l] \in RoomRows /\ rooms \in [RoomCells -> RoomRows]
    BY <1>1 DEF Types, HubTypes
  <2>2. rooms' = [rooms EXCEPT ![l] = [rooms[l] EXCEPT !.users = users]]
    OBVIOUS
  <2> HIDE DEF users
  <2>3. [rooms[l] EXCEPT !.users = users]
          = [rooms[l] EXCEPT !.users = users, !.clients = rooms[l].clients]
    BY <2>1 DEF RoomRows
  <2> QED BY <2>1, <2>2, <2>3
<1>8. rooms[l].clients \in ClientMaps
  BY <1>1 DEF Types, HubTypes, RoomRows
<1>9. DOMAIN users = DOMAIN here
  BY <1>4
<1> HIDE DEF users, l
<1>10. /\ rooms' \in [RoomCells -> RoomRows]
       /\ \A m \in RoomCells :
            /\ rooms'[m].users = IF m = l THEN users ELSE rooms[m].users
            /\ rooms'[m].clients = IF m = l THEN rooms[l].clients ELSE rooms[m].clients
            /\ rooms'[m].closed = rooms[m].closed
  <2>1. HubTypes
    BY DEF Types
  <2> QED BY ONLY <1>1, <1>5, <1>7, <1>8, <2>1, SetsMembers
<1>11. \A m \in RoomCells :
         /\ rooms'[m].clients = rooms[m].clients /\ rooms'[m].closed = rooms[m].closed
         /\ DOMAIN rooms'[m].users = DOMAIN rooms[m].users
         /\ \A w \in DOMAIN rooms[m].users :
              rooms'[m].users[w].connections = rooms[m].users[w].connections
  <2> TAKE m \in RoomCells
  <2>1. CASE m = l
    <3>1. /\ rooms'[l].users = users /\ rooms'[l].clients = rooms[l].clients
          /\ rooms'[l].closed = rooms[l].closed
      BY <1>1, <1>10
    <3>2. \A w \in DOMAIN rooms[l].users : users[w].connections = rooms[l].users[w].connections
      BY <1>4
    <3> QED BY <1>9, <2>1, <3>1, <3>2
  <2>2. CASE m # l
    BY <1>10, <2>2
  <2> QED BY <2>1, <2>2
<1> QED BY <1>10, <1>11 DEF SameSeats

LEMMA AnswerMoves ==
  ASSUME TaskTypes, NEW c \in Connections, NEW q, pc[c] = "open", Answer(c, q)
  PROVE  \E x \in Inside : Move(c, x)
  BY DEF TaskTypes, Answer, GoTo, Move, Inside

LEMMA ServeTalks ==
  ASSUME Types, Cells, NEW c \in Connections, Serve(c) \/ FinishSend(c) \/ ObserveCancel(c)
  PROVE  Talks(c)
<1>1. UNCHANGED rooms => rooms' \in [RoomCells -> RoomRows] /\ SameSeats
  BY DEF Types, HubTypes, SameSeats
<1>2. CASE StartSend(c)
  BY <1>1, <1>2 DEF StartSend, Talks, Inside, Move, GoTo, hub
<1>3. CASE RefuseCommand(c)
  BY <1>1, <1>3, AnswerMoves DEF RefuseCommand, Talks, Inside, hub, Types
<1>4. CASE Broadcast(c)
  BY <1>1, <1>4, AnswerMoves DEF Broadcast, Deliver, Talks, Inside, hub, Types
<1>5. CASE SetState(c)
  <2>1. pc[c] = "open" /\ UNCHANGED <<limits, sites, connections, siteRooms, tasks>>
    BY <1>5 DEF SetState
  <2>2. PICK k \in Keys, v \in Values :
          /\ rooms' = [rooms EXCEPT ![roomCell[c]].users[asked[c].user].states[k] = v]
          /\ \E m : Deliver(c, m)
    BY <1>5 DEF SetState
  <2>3. \E x \in Inside : Move(c, x)
    BY <2>1, <2>2, AnswerMoves DEF Deliver, Types
  <2>4. rooms' \in [RoomCells -> RoomRows] /\ SameSeats
    BY <2>1, <2>2, SetStateEffect DEF Inside
  <2> QED BY <2>1, <2>3, <2>4 DEF Talks, Inside
<1>6. CASE Hangup(c)
  BY <1>1, <1>6 DEF Hangup, Talks, Inside, Move, GoTo, hub
<1>7. CASE FinishSend(c)
  BY <1>1, <1>7 DEF FinishSend, Talks, Inside, Move, GoTo, hub
<1>8. CASE ObserveCancel(c)
  BY <1>1, <1>8 DEF ObserveCancel, Talks, Inside, Move, GoTo, hub
<1> QED BY <1>2, <1>3, <1>4, <1>5, <1>6, <1>7, <1>8 DEF Serve

LEMMA TalkKeepsCells ==
  ASSUME Types, Cells, NEW c \in Connections, Talks(c)
  PROVE  Types' /\ Cells'
<1>1. PICK x \in Inside : Move(c, x)
  BY DEF Talks
<1>2. /\ pc' \in [Connections -> Labels] /\ pc'[c] = x
      /\ \A d \in Connections : d # c => pc'[d] = pc[d]
  BY <1>1, StaysTyped, LabelSets DEF Types
<1>3. \A d \in Connections :
        \/ pc'[d] = pc[d]
        \/ pc'[d] \in Inside /\ pc[d] \in Inside
  BY <1>1, <1>2 DEF Talks
<1>4. \A d \in Connections :
        /\ pc'[d] \in HoldsSite <=> pc[d] \in HoldsSite
        /\ pc'[d] \in HoldsRoom <=> pc[d] \in HoldsRoom
        /\ pc'[d] \in KnowsSite <=> pc[d] \in KnowsSite
        /\ pc'[d] \in Inside <=> pc[d] \in Inside
        /\ pc'[d] = "enter" <=> pc[d] = "enter"
  BY <1>3, LabelSets DEF Inside
<1>5. /\ UNCHANGED <<limits, sites, connections, siteRooms, asked, siteCell, roomCell>>
      /\ rooms' \in [RoomCells -> RoomRows] /\ SameSeats
  BY DEF Talks, tasks
<1>6. Types'
  BY <1>2, <1>4, <1>5 DEF Types, HubTypes, TaskTypes, Holdings
<1>7. Placed'
  BY <1>4, <1>5, LabelSets DEF Types, Holdings, Cells, Placed, Entry, SameSeats, HoldsRoom
<1>8. Seated'
  BY <1>4, <1>5 DEF Cells, Seated, SameSeats
<1>9. Occupied'
  <2>1. \A h \in SiteCells, r \in Rooms :
          siteRooms[h].rooms[r] # None => siteRooms[h].rooms[r] \in RoomCells
    BY DEF Types, HubTypes, SiteRows, Maybe
  <2> QED BY <1>4, <1>5, <2>1 DEF Cells, Occupied, Entry, SameSeats
<1> QED BY <1>6, <1>7, <1>8, <1>9 DEF Cells

\* The name of a free cell is nobody's.
LEMMA FreeSite ==
  ASSUME Types, NEW h \in FreeSiteCells
  PROVE  /\ h \in SiteCells
         /\ \A s \in Sites : sites[s] # h
         /\ \A c \in Connections : siteCell[c] # h
  BY DEF FreeSiteCells

LEMMA FreeRoom ==
  ASSUME Types, NEW l \in FreeRoomCells
  PROVE  /\ l \in RoomCells
         /\ \A h \in SiteCells, r \in Rooms : siteRooms[h].rooms[r] # l
         /\ \A c \in Connections : roomCell[c] # l
  BY DEF FreeRoomCells

LEMMA EntryTypes ==
  ASSUME Types
  PROVE  \A h \in SiteCells, r \in Rooms :
           siteRooms[h].rooms[r] # None => siteRooms[h].rooms[r] \in RoomCells
  BY DEF Types, HubTypes, SiteRows, Maybe

LEMMA ReserveKeepsCells ==
  ASSUME Types, Cells, NEW c \in Connections, Reserve(c)
  PROVE  Types' /\ Cells'
<1>1. /\ pc[c] = "socket" /\ connections' = connections + 1
      /\ asked' \in [Connections -> Maybe(Requests)] /\ asked'[c] \in Requests
      /\ siteCell' \in [Connections -> Maybe(SiteCells)]
      /\ \A d \in Connections \ {c} : asked'[d] = asked[d] /\ siteCell'[d] = siteCell[d]
      /\ UNCHANGED <<limits, rooms, roomCell>>
      /\ (\E h \in SiteCells : ReservesPlace(c, h) \/ OpensSite(c, h)) \/ IsRefused(c)
  BY ReserveEffect
<1>2. pc[c] \notin HoldsRoom /\ pc[c] \notin KnowsSite
  BY <1>1 DEF HoldsRoom, KnowsSite, HoldsSite, Inside
<1>3. asked'[c].site \in Sites
  BY <1>1 DEF Requests
<1>4. ASSUME NEW x \in {"room", "refused"}, Move(c, x)
      PROVE  /\ pc' \in [Connections -> Labels] /\ pc'[c] = x
             /\ \A d \in Connections \ {c} : pc'[d] = pc[d]
             /\ pc'[c] \notin HoldsRoom
             /\ \A d \in Connections : (pc'[d] \in HoldsRoom <=> pc[d] \in HoldsRoom)
                                     /\ (pc'[d] \in Inside <=> pc[d] \in Inside)
  <2>1. x \in Labels /\ x \notin HoldsRoom
    BY <1>4 DEF Labels, HoldsConnection, HoldsSite, HoldsRoom, Inside
  <2>2. pc' \in [Connections -> Labels] /\ pc'[c] = x /\ \A d \in Connections \ {c} : pc'[d] = pc[d]
    BY <1>4, <2>1, StaysTyped DEF Types
  <2> QED BY <1>2, <2>1, <2>2, LabelSets
<1>5. ASSUME NEW h \in SiteCells, ReservesPlace(c, h)
      PROVE  Types' /\ Cells'
  <2>1. /\ sites[asked'[c].site] = h /\ siteCell'[c] = h /\ Move(c, "room") /\ sites' = sites
        /\ siteRooms' = [siteRooms EXCEPT ![h].connections = @ + 1]
    BY <1>5 DEF ReservesPlace
  <2>2. /\ siteRooms' \in [SiteCells -> SiteRows]
        /\ \A g \in SiteCells : siteRooms'[g].rooms = siteRooms[g].rooms
    BY <2>1, CountsConnections DEF Types
  <2>3. Types'
    BY <1>1, <1>2, <1>4, <2>1, <2>2 DEF Types, HubTypes, TaskTypes, Holdings
  <2>4. Placed'
    BY <1>1, <1>2, <1>4, <2>1, <2>2, LabelSets DEF Cells, Placed, Entry, Types, Holdings, HoldsRoom
  <2>5. Seated'
    BY <1>1, <1>2, <1>4, <2>1, LabelSets DEF Cells, Seated
  <2>6. Occupied'
    BY <1>1, <1>2, <1>4, <2>1, <2>2 DEF Cells, Occupied, Entry
  <2> QED BY <2>3, <2>4, <2>5, <2>6 DEF Cells
<1>6. CASE IsRefused(c)
  <2>1. siteCell'[c] = siteCell[c] /\ Move(c, "refused") /\ sites' = sites /\ siteRooms' = siteRooms
    BY <1>6 DEF IsRefused
  <2>0. "refused" \notin KnowsSite
    BY DEF KnowsSite, HoldsSite, Inside
  <2>3. Types'
    BY <1>1, <1>2, <1>4, <2>0, <2>1 DEF Types, HubTypes, TaskTypes, Holdings
  <2>4. Placed'
    BY <1>1, <1>2, <1>4, <2>0, <2>1, LabelSets DEF Cells, Placed, Entry
  <2>5. Seated'
    BY <1>1, <1>2, <1>4, <2>1, LabelSets DEF Cells, Seated
  <2>6. Occupied'
    BY <1>1, <1>2, <1>4, <2>1 DEF Cells, Occupied, Entry
  <2> QED BY <2>3, <2>4, <2>5, <2>6 DEF Cells
<1>7. ASSUME NEW h \in SiteCells, OpensSite(c, h)
      PROVE  Types' /\ Cells'
  <2>1. /\ sites[asked'[c].site] = None /\ h \in FreeSiteCells
        /\ siteCell'[c] = h /\ Move(c, "room") /\ sites' = [sites EXCEPT ![asked'[c].site] = h]
        /\ siteRooms' = [siteRooms EXCEPT ![h] = [EmptySite EXCEPT !.connections = 1]]
    BY <1>7 DEF OpensSite
  <2>2. /\ siteRooms' \in [SiteCells -> SiteRows]
        /\ \A g \in SiteCells \ {h} : siteRooms'[g] = siteRooms[g]
        /\ \A r \in Rooms : siteRooms'[h].rooms[r] = None
    BY <2>1, StartsSite DEF Types
  <2>3. \A d \in Connections : siteCell[d] # h
    BY <2>1, FreeSite
  <2>4. /\ sites' \in [Sites -> Maybe(SiteCells)]
        /\ sites'[asked'[c].site] = h
        /\ \A s \in Sites : s # asked'[c].site => sites'[s] = sites[s]
    BY <1>3, <2>1 DEF Types, HubTypes, Maybe
  <2>5. Types'
    BY <1>1, <1>2, <1>4, <2>1, <2>2, <2>4 DEF Types, HubTypes, TaskTypes, Holdings
  <2>6. Placed'
    <3> SUFFICES ASSUME NEW d \in Connections
                 PROVE  /\ pc'[d] \in HoldsSite => sites'[asked'[d].site] = siteCell'[d]
                        /\ pc'[d] \in Inside =>
                             /\ siteRooms'[siteCell'[d]].rooms[asked'[d].room] = roomCell'[d]
                             /\ d \in DOMAIN rooms'[roomCell'[d]].clients
                        /\ pc'[d] = "enter" /\ ~rooms'[roomCell'[d]].closed =>
                             siteRooms'[siteCell'[d]].rooms[asked'[d].room] = roomCell'[d]
      BY DEF Placed, Entry
    <3>1. CASE d = c
      BY <1>1, <1>4, <2>1, <2>4, <3>1, LabelSets DEF HoldsRoom
    <3>2. CASE d # c
      <4>1. pc'[d] = pc[d] /\ asked'[d] = asked[d] /\ siteCell'[d] = siteCell[d] /\ roomCell' = roomCell
        BY <1>1, <1>4, <2>1, <3>2
      <4>2. pc[d] \in HoldsSite => sites[asked[d].site] = siteCell[d] /\ asked[d].site \in Sites
                                   /\ siteCell[d] \in SiteCells
        BY LabelSets DEF Cells, Placed, Types, Holdings, Requests
      <4>3. pc[d] \in HoldsSite => asked[d].site # asked'[c].site
        BY <2>1, <4>2, NoneAssumption
      <4> QED BY <1>1, <2>2, <2>3, <2>4, <4>1, <4>2, <4>3, LabelSets
              DEF Cells, Placed, Entry, HoldsSite, Inside
    <3> QED BY <3>1, <3>2
  <2>7. Seated'
    BY <1>1, <1>2, <1>4, <2>1, LabelSets DEF Cells, Seated
  <2>8. Occupied'
    BY <1>1, <1>2, <1>4, <2>1, <2>2 DEF Cells, Occupied, Entry
  <2> QED BY <2>5, <2>6, <2>7, <2>8 DEF Cells
<1> QED BY <1>1, <1>5, <1>6, <1>7

\* What a task's step to another label leaves as it was.
LEMMA MovesLabel ==
  ASSUME Types, NEW c \in Connections, NEW l \in Labels, Move(c, l)
  PROVE  /\ pc' \in [Connections -> Labels] /\ pc'[c] = l
         /\ \A d \in Connections \ {c} : pc'[d] = pc[d]
  BY StaysTyped DEF Types

LEMMA LookupRoomKeepsCells ==
  ASSUME Types, Cells, NEW c \in Connections, LookupRoom(c)
  PROVE  Types' /\ Cells'
<1> DEFINE h == siteCell[c]
           r == asked[c].room
           l == siteRooms[h].rooms[r]
<1>1. /\ pc[c] = "room"
      /\ UNCHANGED <<limits, sites, connections, asked, siteCell>>
  BY DEF LookupRoom
<1>2. h \in SiteCells /\ r \in Rooms /\ asked[c] \in Requests
  BY <1>1 DEF Types, Holdings, KnowsSite, HoldsSite, Requests
<1>3. "enter" \in Labels /\ "refusedSite" \in Labels
  BY DEF Labels, HoldsConnection, HoldsSite
<1>4. /\ pc[c] \notin HoldsRoom /\ pc[c] \in HoldsSite /\ "enter" \in HoldsSite
      /\ "enter" \in HoldsRoom /\ "enter" \notin Inside
      /\ "refusedSite" \in HoldsSite /\ "refusedSite" \notin HoldsRoom
  BY <1>1 DEF HoldsRoom, HoldsSite, Inside
<1>5. CASE /\ l # None /\ roomCell' = [roomCell EXCEPT ![c] = l] /\ GoTo(c, "enter")
           /\ UNCHANGED <<siteRooms, rooms>>
  <2>1. /\ pc' \in [Connections -> Labels] /\ pc'[c] = "enter"
        /\ \A d \in Connections \ {c} : pc'[d] = pc[d]
    BY <1>3, <1>5, MovesLabel DEF Move, GoTo
  <2>2. l \in RoomCells
    BY <1>2, <1>5, EntryTypes
  <2>3. /\ roomCell' \in [Connections -> Maybe(RoomCells)] /\ roomCell'[c] = l
        /\ \A d \in Connections \ {c} : roomCell'[d] = roomCell[d]
    BY <1>5, <2>2 DEF Types, TaskTypes, Maybe
  <2>4. Types'
    BY <1>1, <1>2, <1>5, <2>1, <2>2, <2>3, LabelSets DEF Types, HubTypes, TaskTypes, Holdings
  <2>5. Placed'
    BY <1>1, <1>4, <1>5, <2>1, <2>3 DEF Cells, Placed, Entry
  <2>6. Seated'
    BY <1>1, <1>4, <1>5, <2>1, <2>3, LabelSets DEF Cells, Seated
  <2>7. Occupied'
    <3> SUFFICES ASSUME NEW g \in SiteCells, NEW q \in Rooms, siteRooms[g].rooms[q] # None
                 PROVE  /\ ~rooms[siteRooms[g].rooms[q]].closed
                        /\ \E d \in Connections :
                             pc'[d] \in HoldsRoom /\ roomCell'[d] = siteRooms[g].rooms[q]
                        /\ \A d \in Connections :
                             pc'[d] \in HoldsRoom /\ roomCell'[d] = siteRooms[g].rooms[q] =>
                               siteCell[d] = g /\ asked[d].room = q
      BY <1>1, <1>5 DEF Occupied, Entry
    <3>1. PICK d \in Connections : pc[d] \in HoldsRoom /\ roomCell[d] = siteRooms[g].rooms[q]
      BY DEF Cells, Occupied, Entry
    <3>2. l = siteRooms[g].rooms[q] => h = g /\ r = q
      BY <1>2, <1>5, <3>1 DEF Cells, Occupied, Entry
    <3>3. d # c
      BY <1>4, <3>1
    <3> QED BY <1>4, <2>1, <2>3, <3>1, <3>2, <3>3 DEF Cells, Occupied, Entry
  <2> QED BY <2>4, <2>5, <2>6, <2>7 DEF Cells
<1>6. ASSUME l = None, NEW new \in FreeRoomCells, GoTo(c, "enter"),
             siteRooms' = [siteRooms EXCEPT ![h].rooms[r] = new, ![h].room_count = @ + 1],
             rooms' = [rooms EXCEPT ![new] = EmptyRoom],
             roomCell' = [roomCell EXCEPT ![c] = new]
      PROVE  Types' /\ Cells'
  <2>1. /\ pc' \in [Connections -> Labels] /\ pc'[c] = "enter"
        /\ \A d \in Connections \ {c} : pc'[d] = pc[d]
    BY <1>3, <1>6, MovesLabel DEF Move, GoTo
  <2>2. /\ new \in RoomCells
        /\ \A g \in SiteCells, q \in Rooms : siteRooms[g].rooms[q] # new
        /\ \A d \in Connections : roomCell[d] # new
    BY <1>6, FreeRoom
  <2>3. /\ roomCell' \in [Connections -> Maybe(RoomCells)] /\ roomCell'[c] = new
        /\ \A d \in Connections \ {c} : roomCell'[d] = roomCell[d]
    BY <1>6, <2>2 DEF Types, TaskTypes, Maybe
  <2>4. /\ siteRooms' \in [SiteCells -> SiteRows]
        /\ \A g \in SiteCells : \A q \in Rooms :
             siteRooms'[g].rooms[q] = IF g = h /\ q = r THEN new ELSE siteRooms[g].rooms[q]
    <3>1. HubTypes /\ h \in SiteCells /\ r \in Rooms /\ new \in RoomCells
      BY <1>2, <2>2 DEF Types
    <3>2. EntryMade(h, r, new)
      BY <1>6 DEF EntryMade
    <3> HIDE DEF h, r
    <3> QED BY ONLY <3>1, <3>2, MakesEntry
  <2>5. /\ rooms' \in [RoomCells -> RoomRows]
        /\ \A m \in RoomCells \ {new} : rooms'[m] = rooms[m]
        /\ DOMAIN rooms'[new].clients = {} /\ ~rooms'[new].closed
    BY <1>6, <2>2, StartsRoom DEF Types
  <2>6. Types'
    BY <1>1, <1>2, <2>1, <2>2, <2>3, <2>4, <2>5, LabelSets DEF Types, HubTypes, TaskTypes, Holdings
  <2>7. Placed'
    <3> SUFFICES ASSUME NEW d \in Connections
                 PROVE  /\ pc'[d] \in HoldsSite => sites'[asked'[d].site] = siteCell'[d]
                        /\ pc'[d] \in Inside =>
                             /\ siteRooms'[siteCell'[d]].rooms[asked'[d].room] = roomCell'[d]
                             /\ d \in DOMAIN rooms'[roomCell'[d]].clients
                        /\ pc'[d] = "enter" /\ ~rooms'[roomCell'[d]].closed =>
                             siteRooms'[siteCell'[d]].rooms[asked'[d].room] = roomCell'[d]
      BY DEF Placed, Entry
    <3>1. CASE d = c
      BY <1>1, <1>2, <1>4, <2>1, <2>3, <2>4, <3>1 DEF Cells, Placed
    <3>2. CASE d # c
      <4>1. pc'[d] = pc[d] /\ roomCell'[d] = roomCell[d] /\ asked' = asked /\ siteCell' = siteCell
            /\ sites' = sites
        BY <1>1, <2>1, <2>3, <3>2
      <4>2. pc[d] \in HoldsRoom /\ siteRooms[siteCell[d]].rooms[asked[d].room] = roomCell[d]
              /\ roomCell[d] \in RoomCells /\ siteCell[d] \in SiteCells /\ asked[d].room \in Rooms
              => siteRooms'[siteCell[d]].rooms[asked[d].room] = roomCell[d]
        BY <1>6, <2>4, NoneAssumption
      <4>3. pc[d] \in HoldsRoom => /\ roomCell[d] \in RoomCells /\ roomCell[d] # new
                                   /\ siteCell[d] \in SiteCells /\ asked[d].room \in Rooms
        BY <2>2, LabelSets DEF Types, Holdings, Requests
      <4>4. pc[d] \in HoldsRoom => rooms'[roomCell[d]] = rooms[roomCell[d]]
        BY <2>5, <4>3
      <4> QED BY <4>1, <4>2, <4>3, <4>4, LabelSets DEF Cells, Placed, Entry, HoldsRoom
    <3> QED BY <3>1, <3>2
  <2>8. Seated'
    <3> SUFFICES ASSUME NEW m \in RoomCells, NEW d \in DOMAIN rooms'[m].clients
                 PROVE  /\ d \in Connections /\ pc'[d] \in Inside /\ roomCell'[d] = m
                        /\ rooms'[m].clients[d] = asked'[d].user
                        /\ asked'[d].user \in DOMAIN rooms'[m].users
                        /\ d \in rooms'[m].users[asked'[d].user].connections
      BY DEF Seated
    <3>1. m # new /\ rooms'[m] = rooms[m]
      BY <2>5
    <3>2. d \in Connections /\ pc[d] \in Inside
      BY <3>1 DEF Cells, Seated
    <3>3. d # c
      BY <1>1, <3>2 DEF Inside
    <3> QED BY <1>1, <2>1, <2>3, <3>1, <3>2, <3>3 DEF Cells, Seated
  <2>9. Occupied'
    <3> SUFFICES ASSUME NEW g \in SiteCells, NEW q \in Rooms, siteRooms'[g].rooms[q] # None
                 PROVE  /\ ~rooms'[siteRooms'[g].rooms[q]].closed
                        /\ \E d \in Connections :
                             pc'[d] \in HoldsRoom /\ roomCell'[d] = siteRooms'[g].rooms[q]
                        /\ \A d \in Connections :
                             pc'[d] \in HoldsRoom /\ roomCell'[d] = siteRooms'[g].rooms[q] =>
                               siteCell'[d] = g /\ asked'[d].room = q
      BY DEF Occupied, Entry
    <3>1. CASE g = h /\ q = r
      <4>1. siteRooms'[g].rooms[q] = new
        BY <1>2, <2>4, <3>1
      <4> QED BY <1>1, <1>4, <2>1, <2>2, <2>3, <2>5, <3>1, <4>1
    <3>2. CASE ~(g = h /\ q = r)
      <4>1. siteRooms'[g].rooms[q] = siteRooms[g].rooms[q]
        BY <2>4, <3>2
      <4>2. siteRooms[g].rooms[q] \in RoomCells \ {new}
        BY <2>2, <4>1, EntryTypes
      <4>3. rooms'[siteRooms[g].rooms[q]] = rooms[siteRooms[g].rooms[q]]
        BY <2>5, <4>2
      <4>4. PICK d \in Connections : pc[d] \in HoldsRoom /\ roomCell[d] = siteRooms[g].rooms[q]
        BY <4>1 DEF Cells, Occupied, Entry
      <4>5. d # c
        BY <1>4, <4>4
      <4> QED BY <1>1, <1>4, <2>1, <2>3, <4>1, <4>2, <4>3, <4>4, <4>5 DEF Cells, Occupied, Entry
    <3> QED BY <3>1, <3>2
  <2> QED BY <2>6, <2>7, <2>8, <2>9 DEF Cells
<1>7. CASE GoTo(c, "refusedSite") /\ UNCHANGED <<siteRooms, rooms, roomCell>>
  <2>1. /\ pc' \in [Connections -> Labels] /\ pc'[c] = "refusedSite"
        /\ \A d \in Connections \ {c} : pc'[d] = pc[d]
    BY <1>3, <1>7, MovesLabel DEF Move, GoTo
  <2>2. Types'
    BY <1>1, <1>2, <1>4, <1>7, <2>1, LabelSets DEF Types, HubTypes, TaskTypes, Holdings
  <2>3. Placed'
    BY <1>1, <1>4, <1>7, <2>1, LabelSets DEF Cells, Placed, Entry
  <2>4. Seated'
    BY <1>1, <1>4, <1>7, <2>1, LabelSets DEF Cells, Seated
  <2>5. Occupied'
    BY <1>1, <1>4, <1>7, <2>1 DEF Cells, Occupied, Entry
  <2> QED BY <2>2, <2>3, <2>4, <2>5 DEF Cells
<1> QED
  <2>1. \/ /\ l # None /\ roomCell' = [roomCell EXCEPT ![c] = l] /\ GoTo(c, "enter")
           /\ UNCHANGED <<siteRooms, rooms>>
        \/ /\ l = None /\ GoTo(c, "enter")
           /\ \E new \in FreeRoomCells :
                /\ siteRooms' = [siteRooms EXCEPT ![h].rooms[r] = new, ![h].room_count = @ + 1]
                /\ rooms' = [rooms EXCEPT ![new] = EmptyRoom]
                /\ roomCell' = [roomCell EXCEPT ![c] = new]
        \/ GoTo(c, "refusedSite") /\ UNCHANGED <<siteRooms, rooms, roomCell>>
    BY DEF LookupRoom
  <2> QED BY <1>5, <1>6, <1>7, <2>1

LEMMA TurnAwayKeepsCells ==
  ASSUME Types, Cells, NEW c \in Connections, TurnAway(c)
  PROVE  Types' /\ Cells'
<1> DEFINE l == roomCell[c]
<1>1. /\ pc[c] = "enter" /\ roomCell' = [roomCell EXCEPT ![c] = None]
      /\ UNCHANGED <<limits, sites, connections, siteRooms, rooms, asked, siteCell>>
      /\ \/ rooms[l].closed /\ GoTo(c, "room")
         \/ Cardinality(DOMAIN rooms[l].clients) >= limits.perRoom /\ GoTo(c, "refusedSite")
  BY DEF TurnAway, hub, Members
<1>2. PICK x \in {"room", "refusedSite"} : Move(c, x)
  BY <1>1 DEF Move, GoTo
<1>3. x \in Labels /\ x \in HoldsSite /\ x \notin HoldsRoom /\ x # "enter"
  BY DEF Labels, HoldsConnection, HoldsSite, HoldsRoom, Inside
<1>4. /\ pc' \in [Connections -> Labels] /\ pc'[c] = x
      /\ \A d \in Connections \ {c} : pc'[d] = pc[d]
  BY <1>2, <1>3, MovesLabel
<1>5. /\ roomCell' \in [Connections -> Maybe(RoomCells)]
      /\ \A d \in Connections \ {c} : roomCell'[d] = roomCell[d]
  BY <1>1 DEF Types, TaskTypes, Maybe
<1>6. l \in RoomCells /\ asked[c] \in Requests /\ siteCell[c] \in SiteCells /\ pc[c] \in HoldsSite
      /\ pc[c] \notin Inside
  BY <1>1 DEF Types, Holdings, HoldsRoom, KnowsSite, HoldsSite, Inside
<1>7. Types'
  BY <1>1, <1>3, <1>4, <1>5, <1>6 DEF Types, HubTypes, TaskTypes, Holdings
<1>8. Placed'
  BY <1>1, <1>3, <1>4, <1>5, <1>6, LabelSets DEF Cells, Placed, Entry
<1>9. Seated'
  BY <1>1, <1>4, <1>5, <1>6 DEF Cells, Seated
<1>10. Occupied'
  <2> SUFFICES ASSUME NEW h \in SiteCells, NEW r \in Rooms, siteRooms[h].rooms[r] # None
               PROVE  /\ ~rooms[siteRooms[h].rooms[r]].closed
                      /\ \E d \in Connections :
                           pc'[d] \in HoldsRoom /\ roomCell'[d] = siteRooms[h].rooms[r]
                      /\ \A d \in Connections :
                           pc'[d] \in HoldsRoom /\ roomCell'[d] = siteRooms[h].rooms[r] =>
                             siteCell[d] = h /\ asked[d].room = r
    BY <1>1 DEF Occupied, Entry
  <2>1. /\ ~rooms[siteRooms[h].rooms[r]].closed
        /\ \A d \in Connections :
             pc'[d] \in HoldsRoom /\ roomCell'[d] = siteRooms[h].rooms[r] =>
               siteCell[d] = h /\ asked[d].room = r
    BY <1>3, <1>4, <1>5 DEF Cells, Occupied, Entry
  <2>2. PICK d \in Connections : pc[d] \in HoldsRoom /\ roomCell[d] = siteRooms[h].rooms[r]
    BY DEF Cells, Occupied, Entry
  <2>3. CASE d # c
    BY <1>4, <1>5, <2>1, <2>2, <2>3
  <2>4. CASE d = c
    <3>1. ~rooms[l].closed
      BY <2>1, <2>2, <2>4
    <3>2. Cardinality(DOMAIN rooms[l].clients) >= limits.perRoom
      BY <1>1, <3>1
    <3>3. limits.perRoom \in Nat \ {0}
      BY LimitTypes DEF Types, HubTypes
    <3>4. DOMAIN rooms[l].clients # {}
      BY <3>2, <3>3, FullIsNotEmpty
    <3>5. PICK e \in DOMAIN rooms[l].clients : TRUE
      BY <3>4
    <3>6. e \in Connections /\ pc[e] \in Inside /\ roomCell[e] = l
      BY <1>6 DEF Cells, Seated
    <3> QED BY <1>4, <1>5, <1>6, <2>1, <2>2, <2>4, <3>6, LabelSets
  <2> QED BY <2>3, <2>4
<1> QED BY <1>7, <1>8, <1>9, <1>10 DEF Cells

LEMMA EnterRoomKeepsCells ==
  ASSUME Types, Cells, NEW c \in Connections, EnterRoom(c)
  PROVE  Types' /\ Cells'
<1> DEFINE l == roomCell[c]
           u == asked[c].user
<1>1. /\ pc[c] = "enter" /\ Move(c, "send") /\ l \in RoomCells /\ u \in Users
      /\ ~rooms[l].closed
      /\ UNCHANGED <<limits, sites, connections, siteRooms, tasks>>
      /\ rooms' \in [RoomCells -> RoomRows]
      /\ \A m \in RoomCells \ {l} : rooms'[m] = rooms[m]
      /\ rooms'[l].closed = rooms[l].closed
      /\ DOMAIN rooms'[l].clients = DOMAIN rooms[l].clients \cup {c}
      /\ \A d \in DOMAIN rooms[l].clients \cup {c} :
           rooms'[l].clients[d] = IF d = c THEN u ELSE rooms[l].clients[d]
      /\ DOMAIN rooms'[l].users = DOMAIN rooms[l].users \cup {u}
      /\ c \in rooms'[l].users[u].connections
      /\ \A w \in DOMAIN rooms[l].users :
           rooms[l].users[w].connections \subseteq rooms'[l].users[w].connections
  BY EnterEffect DEF Members
<1>2. UNCHANGED <<limits, sites, connections, siteRooms, asked, siteCell, roomCell>>
  BY <1>1 DEF tasks
<1>3. "send" \in Labels /\ "send" \in Inside
  BY DEF Labels, HoldsConnection, HoldsSite, Inside
<1>4. /\ pc' \in [Connections -> Labels] /\ pc'[c] = "send"
      /\ \A d \in Connections \ {c} : pc'[d] = pc[d]
  BY <1>1, <1>3, MovesLabel
<1>5. pc[c] \in HoldsSite /\ pc[c] \in HoldsRoom /\ pc[c] \in KnowsSite
  BY <1>1, LabelSets DEF HoldsSite, HoldsRoom
<1>6. \A d \in Connections :
        /\ pc'[d] \in HoldsSite <=> pc[d] \in HoldsSite
        /\ pc'[d] \in HoldsRoom <=> pc[d] \in HoldsRoom
        /\ pc'[d] \in KnowsSite <=> pc[d] \in KnowsSite
  BY <1>3, <1>4, <1>5, LabelSets
<1>7. Types'
  BY <1>1, <1>2, <1>4, <1>6 DEF Types, HubTypes, TaskTypes, Holdings
<1>8. Placed'
  <2> SUFFICES ASSUME NEW d \in Connections
               PROVE  /\ pc'[d] \in HoldsSite => sites[asked[d].site] = siteCell[d]
                      /\ pc'[d] \in Inside =>
                           /\ siteRooms[siteCell[d]].rooms[asked[d].room] = roomCell[d]
                           /\ d \in DOMAIN rooms'[roomCell[d]].clients
                      /\ pc'[d] = "enter" /\ ~rooms'[roomCell[d]].closed =>
                           siteRooms[siteCell[d]].rooms[asked[d].room] = roomCell[d]
    BY <1>2 DEF Placed, Entry
  <2>1. CASE d = c
    BY <1>1, <1>4, <1>5, <2>1 DEF Cells, Placed, Entry
  <2>2. CASE d # c
    <3>1. pc'[d] = pc[d]
      BY <1>4, <2>2
    <3>2. pc[d] \in HoldsRoom => roomCell[d] \in RoomCells
      BY DEF Types, Holdings
    <3> QED BY <1>1, <3>1, <3>2, LabelSets DEF Cells, Placed, Entry, HoldsRoom
  <2> QED BY <2>1, <2>2
<1>9. Seated'
  <2> SUFFICES ASSUME NEW m \in RoomCells, NEW d \in DOMAIN rooms'[m].clients
               PROVE  /\ d \in Connections /\ pc'[d] \in Inside /\ roomCell[d] = m
                      /\ rooms'[m].clients[d] = asked[d].user
                      /\ asked[d].user \in DOMAIN rooms'[m].users
                      /\ d \in rooms'[m].users[asked[d].user].connections
    BY <1>2 DEF Seated
  <2>1. CASE d = c
    <3>1. m = l
      <4>1. c \in DOMAIN rooms[m].clients => pc[c] \in Inside
        BY DEF Cells, Seated
      <4> QED BY <1>1, <2>1, <4>1 DEF Inside
    <3> QED BY <1>1, <1>3, <1>4, <2>1, <3>1
  <2>2. CASE d # c
    <3>1. d \in DOMAIN rooms[m].clients
      BY <1>1, <2>2
    <3>2. /\ d \in Connections /\ pc[d] \in Inside /\ roomCell[d] = m
          /\ rooms[m].clients[d] = asked[d].user
          /\ asked[d].user \in DOMAIN rooms[m].users
          /\ d \in rooms[m].users[asked[d].user].connections
      BY <3>1 DEF Cells, Seated
    <3>3. CASE m # l
      BY <1>1, <1>4, <2>2, <3>2, <3>3
    <3>4. CASE m = l
      BY <1>1, <1>4, <2>2, <3>1, <3>2, <3>4
    <3> QED BY <3>3, <3>4
  <2> QED BY <2>1, <2>2
<1>10. Occupied'
  <2>1. \A m \in RoomCells : rooms'[m].closed = rooms[m].closed
    BY <1>1
  <2> QED BY <1>2, <1>6, <2>1, EntryTypes DEF Cells, Occupied, Entry
<1> QED BY <1>7, <1>8, <1>9, <1>10 DEF Cells

LEMMA LeaveRoomKeepsCells ==
  ASSUME Types, Cells, NEW c \in Connections, LeaveRoom(c)
  PROVE  Types' /\ Cells'
<1> DEFINE l == roomCell[c]
<1>1. /\ pc[c] = "leave" /\ Move(c, "left") /\ l \in RoomCells
      /\ UNCHANGED <<limits, sites, connections, siteRooms, tasks>>
      /\ rooms' \in [RoomCells -> RoomRows]
      /\ \A m \in RoomCells \ {l} : rooms'[m] = rooms[m]
      /\ rooms'[l].closed = rooms[l].closed
      /\ DOMAIN rooms'[l].clients = DOMAIN rooms[l].clients \ {c}
      /\ \A d \in DOMAIN rooms[l].clients \ {c} :
           /\ rooms'[l].clients[d] = rooms[l].clients[d]
           /\ asked[d].user \in DOMAIN rooms'[l].users
           /\ d \in rooms'[l].users[asked[d].user].connections
  BY LeaveEffect
<1>2. UNCHANGED <<limits, sites, connections, siteRooms, asked, siteCell, roomCell>>
  BY <1>1 DEF tasks
<1>3. "left" \in Labels /\ "left" \in HoldsSite /\ "left" \in HoldsRoom /\ "left" \notin Inside
  BY DEF Labels, HoldsConnection, HoldsSite, HoldsRoom, Inside
<1>4. /\ pc' \in [Connections -> Labels] /\ pc'[c] = "left"
      /\ \A d \in Connections \ {c} : pc'[d] = pc[d]
  BY <1>1, <1>3, MovesLabel
<1>5. pc[c] \in Inside
  BY <1>1 DEF Inside
<1>6. \A d \in Connections :
        /\ pc'[d] \in HoldsSite <=> pc[d] \in HoldsSite
        /\ pc'[d] \in HoldsRoom <=> pc[d] \in HoldsRoom
        /\ pc'[d] \in KnowsSite <=> pc[d] \in KnowsSite
        /\ pc'[d] \in Inside => d # c /\ pc[d] \in Inside
        /\ pc'[d] = "enter" => d # c /\ pc[d] = "enter"
  BY <1>3, <1>4, <1>5, LabelSets
<1>7. Types'
  BY <1>1, <1>2, <1>4, <1>6 DEF Types, HubTypes, TaskTypes, Holdings
<1>8. Placed'
  <2>1. \A d \in Connections : pc[d] \in HoldsRoom => roomCell[d] \in RoomCells
    BY DEF Types, Holdings
  <2>2. \A m \in RoomCells : \A d \in Connections \ {c} :
          d \in DOMAIN rooms[m].clients => d \in DOMAIN rooms'[m].clients
    BY <1>1
  <2>3. \A m \in RoomCells : rooms'[m].closed = rooms[m].closed
    BY <1>1
  <2> QED BY <1>2, <1>6, <2>1, <2>2, <2>3, LabelSets DEF Cells, Placed, Entry, HoldsRoom
<1>9. Seated'
  <2> SUFFICES ASSUME NEW m \in RoomCells, NEW d \in DOMAIN rooms'[m].clients
               PROVE  /\ d \in Connections /\ pc'[d] \in Inside /\ roomCell[d] = m
                      /\ rooms'[m].clients[d] = asked[d].user
                      /\ asked[d].user \in DOMAIN rooms'[m].users
                      /\ d \in rooms'[m].users[asked[d].user].connections
    BY <1>2 DEF Seated
  <2>1. d \in DOMAIN rooms[m].clients
    BY <1>1
  <2>2. /\ d \in Connections /\ pc[d] \in Inside /\ roomCell[d] = m
        /\ rooms[m].clients[d] = asked[d].user
        /\ asked[d].user \in DOMAIN rooms[m].users
        /\ d \in rooms[m].users[asked[d].user].connections
    BY <2>1 DEF Cells, Seated
  <2>3. d # c
    BY <1>1, <2>2
  <2>4. CASE m # l
    BY <1>1, <1>4, <2>2, <2>3, <2>4
  <2>5. CASE m = l
    BY <1>1, <1>4, <2>1, <2>2, <2>3, <2>5
  <2> QED BY <2>4, <2>5
<1>10. Occupied'
  <2>1. \A m \in RoomCells : rooms'[m].closed = rooms[m].closed
    BY <1>1
  <2> QED BY <1>2, <1>6, <2>1, EntryTypes DEF Cells, Occupied, Entry
<1> QED BY <1>7, <1>8, <1>9, <1>10 DEF Cells

LEMMA ReleaseKeepsCells ==
  ASSUME Types, Cells, NEW c \in Connections, Release(c)
  PROVE  Types' /\ Cells'
<1>1. /\ pc[c] = "left" /\ Move(c, "emptyRoom") /\ connections' = connections - 1
      /\ siteRooms' = [siteRooms EXCEPT ![siteCell[c]].connections = @ - 1]
      /\ UNCHANGED <<limits, sites, rooms, asked, siteCell, roomCell>>
  BY DEF Release, Move, GoTo, tasks
<1>2. /\ "emptyRoom" \in Labels /\ "emptyRoom" \in HoldsRoom /\ "emptyRoom" \notin HoldsSite
      /\ "emptyRoom" \notin Inside
      /\ pc[c] \in HoldsRoom /\ pc[c] \notin Inside
  BY <1>1 DEF Labels, HoldsConnection, HoldsSite, HoldsRoom, Inside
<1>3. /\ pc' \in [Connections -> Labels] /\ pc'[c] = "emptyRoom"
      /\ \A d \in Connections \ {c} : pc'[d] = pc[d]
  BY <1>1, <1>2, MovesLabel
<1>4. siteCell[c] \in SiteCells
  BY <1>2, LabelSets DEF Types, Holdings
<1>5. /\ siteRooms' \in [SiteCells -> SiteRows]
      /\ \A g \in SiteCells : siteRooms'[g].rooms = siteRooms[g].rooms
  BY <1>1, <1>4, CountsConnections DEF Types
<1>6. \A d \in Connections :
        /\ pc'[d] \in HoldsSite => d # c /\ pc[d] \in HoldsSite
        /\ pc'[d] \in HoldsRoom <=> pc[d] \in HoldsRoom
        /\ pc'[d] \in KnowsSite <=> pc[d] \in KnowsSite
        /\ pc'[d] \in Inside <=> pc[d] \in Inside
        /\ pc'[d] = "enter" => d # c /\ pc[d] = "enter"
  BY <1>2, <1>3, LabelSets
<1>7. Types'
  BY <1>1, <1>3, <1>5, <1>6 DEF Types, HubTypes, TaskTypes, Holdings
<1>8. Placed'
  BY <1>1, <1>5, <1>6, LabelSets DEF Cells, Placed, Entry, Types, Holdings, HoldsRoom
<1>9. Seated'
  BY <1>1, <1>6 DEF Cells, Seated
<1>10. Occupied'
  BY <1>1, <1>5, <1>6 DEF Cells, Occupied, Entry
<1> QED BY <1>7, <1>8, <1>9, <1>10 DEF Cells

LEMMA GiveBackKeepsCells ==
  ASSUME Types, Cells, NEW c \in Connections, GiveBack(c)
  PROVE  Types' /\ Cells'
<1>1. /\ pc[c] \in {"refused", "refusedSite"} /\ End(c) /\ connections' = connections - 1
      /\ UNCHANGED <<limits, sites, rooms>>
      /\ \/ pc[c] = "refusedSite"
            /\ siteRooms' = [siteRooms EXCEPT ![siteCell[c]].connections = @ - 1]
         \/ siteRooms' = siteRooms
  BY DEF GiveBack
<1>2. /\ pc' \in [Connections -> Labels] /\ pc'[c] = "socket"
      /\ asked' \in [Connections -> Maybe(Requests)]
      /\ siteCell' \in [Connections -> Maybe(SiteCells)]
      /\ roomCell' \in [Connections -> Maybe(RoomCells)]
      /\ \A d \in Connections \ {c} :
           /\ pc'[d] = pc[d] /\ asked'[d] = asked[d]
           /\ siteCell'[d] = siteCell[d] /\ roomCell'[d] = roomCell[d]
  BY <1>1, Ends DEF Types
<1>3. /\ siteRooms' \in [SiteCells -> SiteRows]
      /\ \A g \in SiteCells : siteRooms'[g].rooms = siteRooms[g].rooms
  <2>1. pc[c] = "refusedSite" => siteCell[c] \in SiteCells
    BY DEF Types, Holdings, KnowsSite, HoldsSite
  <2> QED BY <1>1, <2>1, CountsConnections DEF Types, HubTypes
<1>4. /\ "socket" \notin HoldsSite /\ "socket" \notin HoldsRoom /\ "socket" \notin KnowsSite
      /\ "socket" \notin Inside /\ pc[c] \notin HoldsRoom /\ pc[c] \notin Inside
  BY <1>1 DEF HoldsSite, HoldsRoom, KnowsSite, Inside
<1>5. Types'
  BY <1>1, <1>2, <1>3, <1>4 DEF Types, HubTypes, TaskTypes, Holdings
<1>6. Placed'
  BY <1>1, <1>2, <1>3, <1>4, LabelSets DEF Cells, Placed, Entry, Types, Holdings, HoldsRoom
<1>7. Seated'
  BY <1>1, <1>2, <1>4 DEF Cells, Seated
<1>8. Occupied'
  BY <1>1, <1>2, <1>3, <1>4 DEF Cells, Occupied, Entry
<1> QED BY <1>5, <1>6, <1>7, <1>8 DEF Cells

LEMMA RemoveEmptyRoomKeepsCells ==
  ASSUME Types, Cells, NEW c \in Connections, RemoveEmptyRoom(c)
  PROVE  Types' /\ Cells'
<1> DEFINE h == siteCell[c]
           r == asked[c].room
           l == siteRooms[h].rooms[r]
           empty == l = roomCell[c] /\ DOMAIN rooms[l].clients = {}
<1>1. /\ pc[c] = "emptyRoom" /\ roomCell' = [roomCell EXCEPT ![c] = None]
      /\ UNCHANGED <<limits, sites, connections, asked, siteCell>>
      /\ IF empty
         THEN /\ rooms' = [rooms EXCEPT ![l].closed = TRUE]
              /\ EntryRemoved(h, r) /\ Move(c, "releaseRoom")
         ELSE Move(c, "emptySite") /\ UNCHANGED <<rooms, siteRooms>>
  BY DEF RemoveEmptyRoom, Members, Move, GoTo, EntryRemoved
<1>2. /\ pc[c] \in HoldsRoom /\ pc[c] \in KnowsSite /\ pc[c] \notin Inside
  BY <1>1 DEF HoldsRoom, KnowsSite, Inside
<1>3. h \in SiteCells /\ asked[c] \in Requests /\ r \in Rooms /\ roomCell[c] \in RoomCells
  BY <1>2 DEF Types, Holdings, Requests
<1>4. PICK x \in {"releaseRoom", "emptySite"} : Move(c, x)
  BY <1>1
<1>5. /\ x \in Labels /\ x \in KnowsSite /\ x \notin HoldsSite /\ x \notin HoldsRoom
      /\ x \notin Inside /\ x # "enter"
  BY DEF Labels, KnowsSite, HoldsSite, HoldsRoom, Inside
<1>6. /\ pc' \in [Connections -> Labels] /\ pc'[c] = x
      /\ \A d \in Connections \ {c} : pc'[d] = pc[d]
  BY <1>4, <1>5, MovesLabel
<1>7. /\ roomCell' \in [Connections -> Maybe(RoomCells)]
      /\ \A d \in Connections \ {c} : roomCell'[d] = roomCell[d]
  BY <1>1 DEF Types, TaskTypes, Maybe
<1>8. CASE empty
  <2>1. l \in RoomCells /\ l = roomCell[c] /\ DOMAIN rooms[l].clients = {}
    BY <1>3, <1>8
  <2>2. /\ rooms' \in [RoomCells -> RoomRows]
        /\ \A m \in RoomCells : rooms'[m].clients = rooms[m].clients /\ rooms'[m].users = rooms[m].users
        /\ \A m \in RoomCells \ {l} : rooms'[m] = rooms[m]
    BY <1>1, <1>8, <2>1, ClosesRoom DEF Types
  <2>3. rooms'[l].closed
    BY <1>1, <1>8, <2>1 DEF Types, HubTypes, RoomRows
  <2>4. /\ siteRooms' \in [SiteCells -> SiteRows]
        /\ \A g \in SiteCells : \A q \in Rooms :
             siteRooms'[g].rooms[q] = IF g = h /\ q = r THEN None ELSE siteRooms[g].rooms[q]
    <3>1. HubTypes /\ EntryRemoved(h, r)
      BY <1>1, <1>8 DEF Types
    <3> HIDE DEF h, r
    <3> QED BY ONLY <1>3, <3>1, RemovesEntry
  <2>5. Types'
    BY <1>1, <1>3, <1>5, <1>6, <1>7, <2>2, <2>4 DEF Types, HubTypes, TaskTypes, Holdings
  <2>6. Placed'
    <3> SUFFICES ASSUME NEW d \in Connections
                 PROVE  /\ pc'[d] \in HoldsSite => sites[asked[d].site] = siteCell[d]
                        /\ pc'[d] \in Inside =>
                             /\ siteRooms'[siteCell[d]].rooms[asked[d].room] = roomCell'[d]
                             /\ d \in DOMAIN rooms'[roomCell'[d]].clients
                        /\ pc'[d] = "enter" /\ ~rooms'[roomCell'[d]].closed =>
                             siteRooms'[siteCell[d]].rooms[asked[d].room] = roomCell'[d]
      BY <1>1 DEF Placed, Entry
    <3>1. CASE d = c
      BY <1>5, <1>6, <3>1
    <3>2. CASE d # c
      <4>1. pc'[d] = pc[d] /\ roomCell'[d] = roomCell[d]
        BY <1>6, <1>7, <3>2
      <4>2. pc[d] \in HoldsRoom => /\ roomCell[d] \in RoomCells
                                   /\ siteCell[d] \in SiteCells /\ asked[d].room \in Rooms
        BY LabelSets DEF Types, Holdings, Requests
      <4>3. pc[d] \in Inside => /\ siteRooms[siteCell[d]].rooms[asked[d].room] = roomCell[d]
                                /\ d \in DOMAIN rooms[roomCell[d]].clients
                                /\ roomCell[d] # l
        BY <2>1 DEF Cells, Placed, Entry
      <4>4. pc[d] = "enter" /\ ~rooms'[roomCell[d]].closed =>
              /\ siteRooms[siteCell[d]].rooms[asked[d].room] = roomCell[d]
              /\ roomCell[d] # l
        BY <2>2, <2>3, <4>2 DEF Cells, Placed, Entry, HoldsRoom
      <4>5. pc[d] \in HoldsSite => sites[asked[d].site] = siteCell[d]
        BY DEF Cells, Placed
      <4>6. pc[d] \in HoldsRoom /\ siteRooms[siteCell[d]].rooms[asked[d].room] = roomCell[d]
              /\ roomCell[d] # l
            => siteRooms'[siteCell[d]].rooms[asked[d].room] = roomCell[d]
        BY <2>4, <4>2
      <4>7. pc[d] \in Inside \/ pc[d] = "enter" => pc[d] \in HoldsRoom
        BY LabelSets DEF HoldsRoom
      <4> QED BY <2>2, <4>1, <4>2, <4>3, <4>4, <4>5, <4>6, <4>7
    <3> QED BY <3>1, <3>2
  <2>7. Seated'
    <3> SUFFICES ASSUME NEW m \in RoomCells, NEW d \in DOMAIN rooms'[m].clients
                 PROVE  /\ d \in Connections /\ pc'[d] \in Inside /\ roomCell'[d] = m
                        /\ rooms'[m].clients[d] = asked'[d].user
                        /\ asked'[d].user \in DOMAIN rooms'[m].users
                        /\ d \in rooms'[m].users[asked'[d].user].connections
      BY DEF Seated
    <3>1. rooms'[m].clients = rooms[m].clients /\ rooms'[m].users = rooms[m].users
      BY <2>2
    <3>2. d \in Connections /\ pc[d] \in Inside /\ d # c
      BY <1>2, <3>1 DEF Cells, Seated
    <3>3. /\ roomCell[d] = m /\ rooms[m].clients[d] = asked[d].user
          /\ asked[d].user \in DOMAIN rooms[m].users
          /\ d \in rooms[m].users[asked[d].user].connections
      BY <3>1 DEF Cells, Seated
    <3>4. pc'[d] = pc[d] /\ roomCell'[d] = roomCell[d] /\ asked' = asked
      BY <1>1, <1>6, <1>7, <3>2
    <3> QED BY ONLY <3>1, <3>2, <3>3, <3>4
  <2>8. Occupied'
    <3> SUFFICES ASSUME NEW g \in SiteCells, NEW q \in Rooms, siteRooms'[g].rooms[q] # None
                 PROVE  /\ ~rooms'[siteRooms'[g].rooms[q]].closed
                        /\ \E d \in Connections :
                             pc'[d] \in HoldsRoom /\ roomCell'[d] = siteRooms'[g].rooms[q]
                        /\ \A d \in Connections :
                             pc'[d] \in HoldsRoom /\ roomCell'[d] = siteRooms'[g].rooms[q] =>
                               siteCell'[d] = g /\ asked'[d].room = q
      BY DEF Occupied, Entry
    <3> DEFINE m == siteRooms[g].rooms[q]
    <3>1. ~(g = h /\ q = r) /\ siteRooms'[g].rooms[q] = m /\ m # None
      BY <2>4
    <3>2. m \in RoomCells
      BY <3>1, EntryTypes
    <3>3. m # l
      BY <1>2, <2>1, <3>1 DEF Cells, Occupied, Entry
    <3>4. rooms'[m] = rooms[m]
      BY <2>2, <3>2, <3>3
    <3>5. PICK d \in Connections : pc[d] \in HoldsRoom /\ roomCell[d] = m
      BY <3>1 DEF Cells, Occupied, Entry
    <3>6. d # c
      BY <2>1, <3>3, <3>5
    <3>7. ~rooms[m].closed
      BY <3>1 DEF Cells, Occupied, Entry
    <3>8. \A e \in Connections : pc'[e] \in HoldsRoom /\ roomCell'[e] = m =>
            siteCell[e] = g /\ asked[e].room = q
      BY <1>5, <1>6, <1>7, <3>1 DEF Cells, Occupied, Entry
    <3> HIDE DEF m
    <3> QED BY <1>1, <1>6, <1>7, <3>1, <3>4, <3>5, <3>6, <3>7, <3>8
  <2> QED BY <2>5, <2>6, <2>7, <2>8 DEF Cells
<1>9. CASE ~empty
  <2>1. UNCHANGED <<rooms, siteRooms>>
    BY <1>1, <1>9
  <2>2. Types'
    BY <1>1, <1>3, <1>5, <1>6, <1>7, <2>1 DEF Types, HubTypes, TaskTypes, Holdings
  <2>3. Placed'
    BY <1>1, <1>5, <1>6, <1>7, <2>1 DEF Cells, Placed, Entry
  <2>4. Seated'
    <3> SUFFICES ASSUME NEW m \in RoomCells, NEW d \in DOMAIN rooms[m].clients
                 PROVE  /\ d \in Connections /\ pc'[d] \in Inside /\ roomCell'[d] = m
                        /\ rooms[m].clients[d] = asked[d].user
                        /\ asked[d].user \in DOMAIN rooms[m].users
                        /\ d \in rooms[m].users[asked[d].user].connections
      BY <1>1, <2>1 DEF Seated
    <3>1. /\ d \in Connections /\ pc[d] \in Inside /\ roomCell[d] = m
          /\ rooms[m].clients[d] = asked[d].user
          /\ asked[d].user \in DOMAIN rooms[m].users
          /\ d \in rooms[m].users[asked[d].user].connections
      BY DEF Cells, Seated
    <3>2. pc'[d] = pc[d] /\ roomCell'[d] = roomCell[d]
      BY <1>2, <1>6, <1>7, <3>1
    <3> QED BY ONLY <3>1, <3>2
  <2>5. Occupied'
    <3> SUFFICES ASSUME NEW g \in SiteCells, NEW q \in Rooms, siteRooms'[g].rooms[q] # None
                 PROVE  /\ ~rooms'[siteRooms'[g].rooms[q]].closed
                        /\ \E d \in Connections :
                             pc'[d] \in HoldsRoom /\ roomCell'[d] = siteRooms'[g].rooms[q]
                        /\ \A d \in Connections :
                             pc'[d] \in HoldsRoom /\ roomCell'[d] = siteRooms'[g].rooms[q] =>
                               siteCell'[d] = g /\ asked'[d].room = q
      BY DEF Occupied, Entry
    <3> DEFINE m == siteRooms[g].rooms[q]
    <3>0. siteRooms'[g].rooms[q] = m /\ m # None /\ rooms' = rooms
      BY <2>1
    <3>1. PICK d \in Connections : pc[d] \in HoldsRoom /\ roomCell[d] = m
      BY <3>0 DEF Cells, Occupied, Entry
    <3>2. /\ ~rooms[m].closed
          /\ \A e \in Connections : pc'[e] \in HoldsRoom /\ roomCell'[e] = m =>
               siteCell'[e] = g /\ asked'[e].room = q
      <4>1. /\ ~rooms[m].closed
            /\ \A e \in Connections : pc[e] \in HoldsRoom /\ roomCell[e] = m =>
                 siteCell[e] = g /\ asked[e].room = q
        BY <3>0 DEF Cells, Occupied, Entry
      <4>2. \A e \in Connections : pc'[e] \in HoldsRoom => pc[e] \in HoldsRoom
                                                          /\ roomCell'[e] = roomCell[e]
        BY <1>5, <1>6, <1>7
      <4>3. asked' = asked /\ siteCell' = siteCell
        BY <1>1
      <4> QED BY ONLY <4>1, <4>2, <4>3
    <3>3. CASE d # c
      BY <1>6, <1>7, <3>0, <3>1, <3>2, <3>3
    <3>4. CASE d = c
      <4>1. g = h /\ q = r
        BY <1>2, <3>0, <3>1, <3>4 DEF Cells, Occupied, Entry
      <4>2. m = l /\ l = roomCell[c]
        BY <3>1, <3>4, <4>1
      <4>3. PICK e \in DOMAIN rooms[l].clients : TRUE
        BY <1>9, <4>2
      <4>4. e \in Connections /\ pc[e] \in Inside /\ roomCell[e] = l
        BY <1>3, <4>2, <4>3 DEF Cells, Seated
      <4>5. e # c
        BY <1>2, <4>4
      <4> QED BY <1>6, <1>7, <3>0, <3>2, <4>2, <4>4, <4>5, LabelSets
    <3> QED BY <3>3, <3>4
  <2> QED BY <2>2, <2>3, <2>4, <2>5 DEF Cells
<1> QED BY <1>8, <1>9

LEMMA ReleaseRoomKeepsCells ==
  ASSUME Types, Cells, NEW c \in Connections, ReleaseRoom(c)
  PROVE  Types' /\ Cells'
<1>1. /\ pc[c] = "releaseRoom" /\ Move(c, "emptySite")
      /\ siteRooms' = [siteRooms EXCEPT ![siteCell[c]].room_count = @ - 1]
      /\ UNCHANGED <<limits, sites, connections, rooms, asked, siteCell, roomCell>>
  BY DEF ReleaseRoom, Move, GoTo, tasks
<1>2. /\ "emptySite" \in Labels /\ "emptySite" \notin HoldsSite /\ "emptySite" \notin HoldsRoom
      /\ "emptySite" \notin Inside /\ "emptySite" \in KnowsSite
      /\ pc[c] \notin HoldsRoom /\ pc[c] \in KnowsSite
  BY <1>1 DEF Labels, HoldsSite, HoldsRoom, KnowsSite, Inside
<1>3. /\ pc' \in [Connections -> Labels] /\ pc'[c] = "emptySite"
      /\ \A d \in Connections \ {c} : pc'[d] = pc[d]
  BY <1>1, <1>2, MovesLabel
<1>4. siteCell[c] \in SiteCells
  BY <1>2 DEF Types, Holdings
<1>5. /\ siteRooms' \in [SiteCells -> SiteRows]
      /\ \A g \in SiteCells : siteRooms'[g].rooms = siteRooms[g].rooms
  BY <1>1, <1>4, ReturnsPlace DEF Types
<1>6. Types'
  BY <1>1, <1>2, <1>3, <1>5 DEF Types, HubTypes, TaskTypes, Holdings
<1>7. Placed'
  BY <1>1, <1>2, <1>3, <1>5, LabelSets DEF Cells, Placed, Entry, Types, Holdings, HoldsRoom
<1>8. Seated'
  BY <1>1, <1>2, <1>3, LabelSets DEF Cells, Seated
<1>9. Occupied'
  BY <1>1, <1>2, <1>3, <1>5 DEF Cells, Occupied, Entry
<1> QED BY <1>6, <1>7, <1>8, <1>9 DEF Cells

\* A site's entry goes only when nobody holds a place of the site.
LEMMA RemoveEmptySiteKeepsCells ==
  ASSUME Types, Cells, CountersAreExact, NEW c \in Connections, RemoveEmptySite(c)
  PROVE  Types' /\ Cells'
<1> DEFINE s == asked[c].site
           h == siteCell[c]
<1>1. /\ pc[c] = "emptySite" /\ End(c)
      /\ UNCHANGED <<limits, connections, siteRooms, rooms>>
      /\ \/ sites[s] = h /\ siteRooms[h].connections = 0 /\ sites' = [sites EXCEPT ![s] = None]
         \/ sites' = sites
  BY DEF RemoveEmptySite
<1>2. /\ pc' \in [Connections -> Labels] /\ pc'[c] = "socket"
      /\ asked' \in [Connections -> Maybe(Requests)]
      /\ siteCell' \in [Connections -> Maybe(SiteCells)]
      /\ roomCell' \in [Connections -> Maybe(RoomCells)]
      /\ \A d \in Connections \ {c} :
           /\ pc'[d] = pc[d] /\ asked'[d] = asked[d]
           /\ siteCell'[d] = siteCell[d] /\ roomCell'[d] = roomCell[d]
  BY <1>1, Ends DEF Types
<1>3. /\ "socket" \notin HoldsSite /\ "socket" \notin HoldsRoom /\ "socket" \notin KnowsSite
      /\ "socket" \notin Inside /\ pc[c] \notin HoldsRoom /\ pc[c] \notin Inside
      /\ pc[c] \in KnowsSite /\ pc[c] \notin HoldsSite
  BY <1>1 DEF HoldsSite, HoldsRoom, KnowsSite, Inside
<1>4. h \in SiteCells /\ s \in Sites
  BY <1>3 DEF Types, Holdings, Requests
<1>5. sites' \in [Sites -> Maybe(SiteCells)]
  BY <1>1 DEF Types, HubTypes, Maybe
<1>6. \A d \in Connections : pc[d] \in HoldsSite => sites'[asked[d].site] = siteCell[d]
  <2> SUFFICES ASSUME NEW d \in Connections, pc[d] \in HoldsSite
               PROVE  sites'[asked[d].site] = siteCell[d]
    OBVIOUS
  <2>1. sites[asked[d].site] = siteCell[d] /\ asked[d].site \in Sites
    BY LabelSets DEF Cells, Placed, Types, Holdings, Requests
  <2>2. CASE sites[s] = h /\ siteRooms[h].connections = 0 /\ sites' = [sites EXCEPT ![s] = None]
    <3> DEFINE here == {e \in Connections : siteCell[e] = h /\ pc[e] \in HoldsSite}
    <3>1. Cardinality(here) = 0
      BY <1>4, <2>2 DEF CountersAreExact
    <3>2. here = {}
      BY <3>1, FiniteAssumption, FS_Subset, FS_EmptySet
    <3>3. siteCell[d] # h
      BY <3>2
    <3> QED BY <1>4, <2>1, <2>2, <3>3 DEF Types, HubTypes
  <2> QED BY <1>1, <2>1, <2>2
<1>7. Types'
  BY <1>1, <1>2, <1>3, <1>5 DEF Types, HubTypes, TaskTypes, Holdings
<1>8. Placed'
  BY <1>1, <1>2, <1>3, <1>6 DEF Cells, Placed, Entry
<1>9. Seated'
  BY <1>1, <1>2, <1>3 DEF Cells, Seated
<1>10. Occupied'
  BY <1>1, <1>2, <1>3 DEF Cells, Occupied, Entry
<1> QED BY <1>7, <1>8, <1>9, <1>10 DEF Cells

-----------------------------------------------------------------------------
(* The counters: a step of one task moves one place *)

Bit(b) == IF b THEN 1 ELSE 0

OfHub(label) == {c \in Connections : label[c] \in HoldsConnection}
OfSite(label, cell, h) == {c \in Connections : cell[c] = h /\ label[c] \in HoldsSite}
Returning(label, cell, h) == {c \in Connections : cell[c] = h /\ label[c] = "releaseRoom"}
RoomsOf(site) == {r \in Rooms : site.rooms[r] # None}

LEMMA SetCount ==
  ASSUME NEW S, NEW T, NEW x, IsFiniteSet(S), \A y : y # x => (y \in S <=> y \in T)
  PROVE  /\ IsFiniteSet(T) /\ Cardinality(S) \in Nat /\ Cardinality(T) \in Nat
         /\ Cardinality(T) = Cardinality(S) - Bit(x \in S) + Bit(x \in T)
<1>1. Cardinality(S) \in Nat
  BY FS_CardinalityType
<1>2. CASE x \in S <=> x \in T
  <2>1. S = T
    BY <1>2
  <2> QED BY <1>1, <2>1 DEF Bit
<1>3. CASE x \in S /\ x \notin T
  <2>1. T = S \ {x}
    BY <1>3
  <2>2. IsFiniteSet(T) /\ Cardinality(T) = Cardinality(S) - 1
    BY <1>3, <2>1, FS_RemoveElement
  <2>3. Cardinality(T) \in Nat
    BY <2>2, FS_CardinalityType
  <2> QED BY <1>1, <1>3, <2>2, <2>3 DEF Bit
<1>4. CASE x \notin S /\ x \in T
  <2>1. T = S \cup {x}
    BY <1>4
  <2>2. IsFiniteSet(T) /\ Cardinality(T) = Cardinality(S) + 1
    BY <1>4, <2>1, FS_AddElement
  <2>3. Cardinality(T) \in Nat
    BY <2>2, FS_CardinalityType
  <2> QED BY <1>1, <1>4, <2>2, <2>3 DEF Bit
<1> QED BY <1>2, <1>3, <1>4

LEMMA FinitePlaces ==
  /\ \A label : IsFiniteSet(OfHub(label))
  /\ \A label, cell, h : IsFiniteSet(OfSite(label, cell, h))
  /\ \A label, cell, h : IsFiniteSet(Returning(label, cell, h))
  /\ \A site : IsFiniteSet(RoomsOf(site))
<1>1. /\ \A label : OfHub(label) \in SUBSET Connections
      /\ \A label, cell, h : OfSite(label, cell, h) \in SUBSET Connections
      /\ \A label, cell, h : Returning(label, cell, h) \in SUBSET Connections
      /\ \A site : RoomsOf(site) \in SUBSET Rooms
  BY DEF OfHub, OfSite, Returning, RoomsOf
<1>2. /\ \A S \in SUBSET Connections : IsFiniteSet(S)
      /\ \A S \in SUBSET Rooms : IsFiniteSet(S)
  BY FiniteAssumption, FS_Subset
<1> QED BY <1>1, <1>2

LEMMA ExactCounters ==
  CountersAreExact <=>
    /\ connections = Cardinality(OfHub(pc))
    /\ \A h \in SiteCells :
         /\ siteRooms[h].connections = Cardinality(OfSite(pc, siteCell, h))
         /\ siteRooms[h].room_count =
              Cardinality(RoomsOf(siteRooms[h])) + Cardinality(Returning(pc, siteCell, h))
  BY DEF CountersAreExact, OfHub, OfSite, Returning, RoomsOf

\* Only c moves.
Moves(c) ==
  \A d \in Connections : d # c => pc'[d] = pc[d] /\ siteCell'[d] = siteCell[d]

LEMMA HubCount ==
  ASSUME NEW c \in Connections, Moves(c)
  PROVE  Cardinality(OfHub(pc')) =
           Cardinality(OfHub(pc)) - Bit(pc[c] \in HoldsConnection) + Bit(pc'[c] \in HoldsConnection)
<1>1. \A d : d # c => (d \in OfHub(pc) <=> d \in OfHub(pc'))
  BY DEF OfHub, Moves
<1>2. /\ c \in OfHub(pc) <=> pc[c] \in HoldsConnection
      /\ c \in OfHub(pc') <=> pc'[c] \in HoldsConnection
  BY DEF OfHub
<1>3. IsFiniteSet(OfHub(pc))
  BY FinitePlaces
<1> DEFINE S == OfHub(pc)
           T == OfHub(pc')
<1> HIDE DEF S, T
<1>4. Cardinality(T) = Cardinality(S) - Bit(c \in S) + Bit(c \in T)
  BY <1>1, <1>3, SetCount DEF S, T
<1> QED BY <1>2, <1>4 DEF S, T, Bit

LEMMA SiteCount ==
  ASSUME NEW c \in Connections, Moves(c), NEW h \in SiteCells
  PROVE  Cardinality(OfSite(pc', siteCell', h)) =
           Cardinality(OfSite(pc, siteCell, h))
             - Bit(siteCell[c] = h /\ pc[c] \in HoldsSite)
             + Bit(siteCell'[c] = h /\ pc'[c] \in HoldsSite)
<1> DEFINE S == OfSite(pc, siteCell, h)
           T == OfSite(pc', siteCell', h)
<1>1. \A d : d # c => (d \in S <=> d \in T)
  BY DEF OfSite, Moves
<1>2. /\ c \in S <=> siteCell[c] = h /\ pc[c] \in HoldsSite
      /\ c \in T <=> siteCell'[c] = h /\ pc'[c] \in HoldsSite
  BY DEF OfSite
<1>3. IsFiniteSet(S)
  BY FinitePlaces
<1> HIDE DEF S, T
<1>4. Cardinality(T) = Cardinality(S) - Bit(c \in S) + Bit(c \in T)
  BY <1>1, <1>3, SetCount
<1> QED BY <1>2, <1>4 DEF S, T, Bit

LEMMA ReturningCount ==
  ASSUME NEW c \in Connections, Moves(c), NEW h \in SiteCells
  PROVE  Cardinality(Returning(pc', siteCell', h)) =
           Cardinality(Returning(pc, siteCell, h))
             - Bit(siteCell[c] = h /\ pc[c] = "releaseRoom")
             + Bit(siteCell'[c] = h /\ pc'[c] = "releaseRoom")
<1> DEFINE S == Returning(pc, siteCell, h)
           T == Returning(pc', siteCell', h)
<1>1. \A d : d # c => (d \in S <=> d \in T)
  BY DEF Returning, Moves
<1>2. /\ c \in S <=> siteCell[c] = h /\ pc[c] = "releaseRoom"
      /\ c \in T <=> siteCell'[c] = h /\ pc'[c] = "releaseRoom"
  BY DEF Returning
<1>3. IsFiniteSet(S)
  BY FinitePlaces
<1> HIDE DEF S, T
<1>4. Cardinality(T) = Cardinality(S) - Bit(c \in S) + Bit(c \in T)
  BY <1>1, <1>3, SetCount
<1> QED BY <1>2, <1>4 DEF S, T, Bit

LEMMA RoomCount ==
  ASSUME NEW h \in SiteCells, NEW r \in Rooms,
         \A q \in Rooms \ {r} : siteRooms'[h].rooms[q] = siteRooms[h].rooms[q]
  PROVE  Cardinality(RoomsOf(siteRooms'[h])) =
           Cardinality(RoomsOf(siteRooms[h]))
             - Bit(siteRooms[h].rooms[r] # None) + Bit(siteRooms'[h].rooms[r] # None)
<1> DEFINE S == RoomsOf(siteRooms[h])
           T == RoomsOf(siteRooms'[h])
<1>1. \A q : q # r => (q \in S <=> q \in T)
  BY DEF RoomsOf
<1>2. /\ r \in S <=> siteRooms[h].rooms[r] # None
      /\ r \in T <=> siteRooms'[h].rooms[r] # None
  BY DEF RoomsOf
<1>3. IsFiniteSet(S)
  BY FinitePlaces
<1> HIDE DEF S, T
<1>4. Cardinality(T) = Cardinality(S) - Bit(r \in S) + Bit(r \in T)
  BY <1>1, <1>3, SetCount
<1> QED BY <1>2, <1>4 DEF S, T, Bit

LEMMA Cardinals ==
  /\ \A label : Cardinality(OfHub(label)) \in Nat
  /\ \A label, cell, h : Cardinality(OfSite(label, cell, h)) \in Nat
  /\ \A label, cell, h : Cardinality(Returning(label, cell, h)) \in Nat
  /\ \A site : Cardinality(RoomsOf(site)) \in Nat
  BY FinitePlaces, FS_CardinalityType

\* A step of c accounts for what it takes and gives back.
LEMMA Accounting ==
  ASSUME CountersAreExact, NEW c \in Connections, Moves(c),
         connections' =
           connections - Bit(pc[c] \in HoldsConnection) + Bit(pc'[c] \in HoldsConnection),
         \A h \in SiteCells :
           /\ siteRooms'[h].connections =
                siteRooms[h].connections
                  - Bit(siteCell[c] = h /\ pc[c] \in HoldsSite)
                  + Bit(siteCell'[c] = h /\ pc'[c] \in HoldsSite)
           /\ siteRooms'[h].room_count =
                siteRooms[h].room_count
                  - Cardinality(RoomsOf(siteRooms[h])) + Cardinality(RoomsOf(siteRooms'[h]))
                  - Bit(siteCell[c] = h /\ pc[c] = "releaseRoom")
                  + Bit(siteCell'[c] = h /\ pc'[c] = "releaseRoom")
  PROVE  CountersAreExact'
<1>1. connections' = Cardinality(OfHub(pc'))
  BY HubCount, ExactCounters
<1>2. ASSUME NEW h \in SiteCells
      PROVE  siteRooms'[h].connections = Cardinality(OfSite(pc', siteCell', h))
  BY SiteCount, ExactCounters
<1>3. ASSUME NEW h \in SiteCells
      PROVE  siteRooms'[h].room_count =
               Cardinality(RoomsOf(siteRooms'[h])) + Cardinality(Returning(pc', siteCell', h))
  <2> DEFINE n == Cardinality(RoomsOf(siteRooms[h]))
             m == Cardinality(RoomsOf(siteRooms'[h]))
             k == Cardinality(Returning(pc, siteCell, h))
             j == Cardinality(Returning(pc', siteCell', h))
             b == Bit(siteCell[c] = h /\ pc[c] = "releaseRoom")
             e == Bit(siteCell'[c] = h /\ pc'[c] = "releaseRoom")
  <2>1. siteRooms'[h].room_count = siteRooms[h].room_count - n + m - b + e
    OBVIOUS
  <2>2. siteRooms[h].room_count = n + k
    BY ExactCounters
  <2>3. j = k - b + e
    BY ReturningCount
  <2>4. n \in Nat /\ m \in Nat /\ k \in Nat /\ b \in Int /\ e \in Int
    BY Cardinals DEF Bit
  <2> HIDE DEF n, m, k, j, b, e
  <2>5. siteRooms'[h].room_count = m + j
    BY <2>1, <2>2, <2>3, <2>4
  <2> QED BY <2>5 DEF m, j
<1>4. (CountersAreExact <=>
        /\ connections = Cardinality(OfHub(pc))
        /\ \A h \in SiteCells :
             /\ siteRooms[h].connections = Cardinality(OfSite(pc, siteCell, h))
             /\ siteRooms[h].room_count =
                  Cardinality(RoomsOf(siteRooms[h])) + Cardinality(Returning(pc, siteCell, h)))'
  BY ExactCounters, PTL
<1> QED BY <1>1, <1>2, <1>3, <1>4

LEMMA PlainAccounting ==
  ASSUME Types, CountersAreExact, NEW c \in Connections, Moves(c),
         connections' =
           connections - Bit(pc[c] \in HoldsConnection) + Bit(pc'[c] \in HoldsConnection),
         \A h \in SiteCells :
           /\ siteRooms'[h].rooms = siteRooms[h].rooms
           /\ siteRooms'[h].connections =
                siteRooms[h].connections
                  - Bit(siteCell[c] = h /\ pc[c] \in HoldsSite)
                  + Bit(siteCell'[c] = h /\ pc'[c] \in HoldsSite)
           /\ siteRooms'[h].room_count =
                siteRooms[h].room_count
                  - Bit(siteCell[c] = h /\ pc[c] = "releaseRoom")
                  + Bit(siteCell'[c] = h /\ pc'[c] = "releaseRoom")
  PROVE  CountersAreExact'
<1> SUFFICES ASSUME NEW h \in SiteCells
             PROVE  siteRooms'[h].room_count =
                      siteRooms[h].room_count
                        - Cardinality(RoomsOf(siteRooms[h])) + Cardinality(RoomsOf(siteRooms'[h]))
                        - Bit(siteCell[c] = h /\ pc[c] = "releaseRoom")
                        + Bit(siteCell'[c] = h /\ pc'[c] = "releaseRoom")
  BY Accounting
<1>1. RoomsOf(siteRooms'[h]) = RoomsOf(siteRooms[h])
  BY DEF RoomsOf
<1>2. Cardinality(RoomsOf(siteRooms[h])) \in Nat /\ siteRooms[h].room_count \in Int
  BY Cardinals DEF Types, HubTypes, SiteRows
<1> QED BY <1>1, <1>2 DEF Bit

LEMMA CounterTypes ==
  ASSUME Types
  PROVE  /\ connections \in Int
         /\ \A h \in SiteCells :
              siteRooms[h].connections \in Int /\ siteRooms[h].room_count \in Int
  BY DEF Types, HubTypes, SiteRows

\* Who holds what, by label.
LEMMA Places ==
  /\ {"refused", "room", "enter", "left", "refusedSite", "open", "send", "leave"} = HoldsConnection
  /\ {"room", "enter", "left", "refusedSite", "open", "send", "leave"} = HoldsSite
  /\ "releaseRoom" \notin HoldsConnection
  BY DEF HoldsConnection, HoldsSite, Inside

\* A step that takes and gives back nothing.
LEMMA NothingCounted ==
  ASSUME Types, CountersAreExact, Bounded, NEW c \in Connections, Moves(c),
         UNCHANGED <<limits, connections, siteRooms, siteCell>>,
         pc[c] \in HoldsConnection <=> pc'[c] \in HoldsConnection,
         pc[c] \in HoldsSite <=> pc'[c] \in HoldsSite,
         pc[c] = "releaseRoom" <=> pc'[c] = "releaseRoom",
         \A l \in RoomCells :
           Cardinality(DOMAIN rooms'[l].clients) <= limits.perRoom
  PROVE  CountersAreExact' /\ Bounded'
<1>1. CountersAreExact'
  BY PlainAccounting, CounterTypes DEF Bit
<1>2. Bounded'
  BY DEF Bounded
<1> QED BY <1>1, <1>2

LEMMA TalkCounts ==
  ASSUME Types, CountersAreExact, Bounded, NEW c \in Connections, Talks(c)
  PROVE  CountersAreExact' /\ Bounded'
<1>1. PICK x \in Inside : Move(c, x)
  BY DEF Talks
<1>2. pc'[c] = x /\ \A d \in Connections : d # c => pc'[d] = pc[d]
  BY <1>1, StaysTyped, LabelSets DEF Types
<1>3. pc[c] \in Inside /\ UNCHANGED <<limits, connections, siteRooms, siteCell>>
      /\ \A l \in RoomCells : rooms'[l].clients = rooms[l].clients
  BY DEF Talks, tasks, SameSeats
<1>4. \A y \in Inside : y \in HoldsConnection /\ y \in HoldsSite /\ y # "releaseRoom"
  BY DEF Inside, HoldsConnection, HoldsSite
<1> QED BY <1>2, <1>3, <1>4, NothingCounted DEF Moves, Bounded

LEMMA ReserveCounts ==
  ASSUME Types, CountersAreExact, Bounded, NEW c \in Connections, Reserve(c)
  PROVE  CountersAreExact' /\ Bounded'
<1>1. /\ pc[c] = "socket" /\ connections < limits.connections /\ connections' = connections + 1
      /\ \A d \in Connections \ {c} : siteCell'[d] = siteCell[d]
      /\ UNCHANGED <<limits, rooms>>
      /\ (\E h \in SiteCells : ReservesPlace(c, h) \/ OpensSite(c, h)) \/ IsRefused(c)
  BY ReserveEffect
<1>2. connections' <= limits'.connections
  BY <1>1, CounterTypes, LimitTypes DEF Types, HubTypes
<1>3. "room" \in Labels /\ "refused" \in Labels
  BY DEF Labels, HoldsConnection, HoldsSite
<1>4. ASSUME NEW h \in SiteCells, ReservesPlace(c, h)
      PROVE  CountersAreExact' /\ Bounded'
  <2>1. /\ siteRooms[h].connections < limits.perSite
        /\ siteCell'[c] = h /\ Move(c, "room")
        /\ siteRooms' = [siteRooms EXCEPT ![h].connections = @ + 1]
    BY <1>4 DEF ReservesPlace
  <2>2. pc'[c] = "room" /\ \A d \in Connections \ {c} : pc'[d] = pc[d]
    BY <1>3, <2>1, MovesLabel
  <2>3. \A g \in SiteCells :
          /\ siteRooms'[g].rooms = siteRooms[g].rooms
          /\ siteRooms'[g].room_count = siteRooms[g].room_count
          /\ siteRooms'[g].connections =
               IF g = h THEN siteRooms[g].connections + 1 ELSE siteRooms[g].connections
    BY <2>1, CountsConnections DEF Types
  <2>4. Moves(c)
    BY <1>1, <2>2 DEF Moves
  <2>5. CountersAreExact'
    BY <1>1, <2>1, <2>2, <2>3, <2>4, CounterTypes, Places, PlainAccounting DEF Bit
  <2>6. Bounded'
    BY <1>1, <1>2, <2>1, <2>3, CounterTypes, LimitTypes DEF Bounded, Types, HubTypes
  <2> QED BY <2>5, <2>6
<1>5. CASE IsRefused(c)
  <2>1. siteCell'[c] = siteCell[c] /\ Move(c, "refused") /\ siteRooms' = siteRooms
    BY <1>5 DEF IsRefused
  <2>2. pc'[c] = "refused" /\ \A d \in Connections \ {c} : pc'[d] = pc[d]
    BY <1>3, <2>1, MovesLabel
  <2>3. Moves(c)
    BY <1>1, <2>2 DEF Moves
  <2>4. CountersAreExact'
    BY <1>1, <2>1, <2>2, <2>3, CounterTypes, Places, PlainAccounting DEF Bit
  <2>5. Bounded'
    BY <1>1, <1>2, <2>1 DEF Bounded
  <2> QED BY <2>4, <2>5
<1>6. ASSUME NEW h \in SiteCells, OpensSite(c, h)
      PROVE  CountersAreExact' /\ Bounded'
  <2>1. /\ h \in FreeSiteCells /\ siteCell'[c] = h /\ Move(c, "room")
        /\ siteRooms' = [siteRooms EXCEPT ![h] = [EmptySite EXCEPT !.connections = 1]]
    BY <1>6 DEF OpensSite
  <2>2. pc'[c] = "room" /\ \A d \in Connections \ {c} : pc'[d] = pc[d]
    BY <1>3, <2>1, MovesLabel
  <2>3. /\ \A g \in SiteCells \ {h} : siteRooms'[g] = siteRooms[g]
        /\ \A r \in Rooms : siteRooms'[h].rooms[r] = None
        /\ siteRooms'[h].room_count = 0 /\ siteRooms'[h].connections = 1
    BY <2>1, StartsSite DEF Types
  <2>4. Moves(c)
    BY <1>1, <2>2 DEF Moves
  <2>5. OfSite(pc, siteCell, h) = {} /\ Returning(pc, siteCell, h) = {}
    BY <2>1, FreeSite DEF OfSite, Returning
  <2>6. /\ siteRooms[h].connections = 0
        /\ siteRooms[h].room_count = Cardinality(RoomsOf(siteRooms[h]))
    <3>1. /\ Cardinality(OfSite(pc, siteCell, h)) = 0
          /\ Cardinality(Returning(pc, siteCell, h)) = 0
      BY <2>5, FS_EmptySet
    <3>2. Cardinality(RoomsOf(siteRooms[h])) \in Nat
      BY Cardinals
    <3> QED BY <3>1, <3>2, ExactCounters
  <2>7. Cardinality(RoomsOf(siteRooms'[h])) = 0
    <3>1. RoomsOf(siteRooms'[h]) = {}
      BY <2>3 DEF RoomsOf
    <3> QED BY <3>1, FS_EmptySet
  <2>8. siteCell[c] # h
    BY <2>1, FreeSite
  <2>9. ASSUME NEW g \in SiteCells
        PROVE  /\ siteRooms'[g].connections =
                    siteRooms[g].connections
                      - Bit(siteCell[c] = g /\ pc[c] \in HoldsSite)
                      + Bit(siteCell'[c] = g /\ pc'[c] \in HoldsSite)
               /\ siteRooms'[g].room_count =
                    siteRooms[g].room_count
                      - Cardinality(RoomsOf(siteRooms[g])) + Cardinality(RoomsOf(siteRooms'[g]))
                      - Bit(siteCell[c] = g /\ pc[c] = "releaseRoom")
                      + Bit(siteCell'[c] = g /\ pc'[c] = "releaseRoom")
    <3>1. Cardinality(RoomsOf(siteRooms[g])) \in Nat
      BY Cardinals
    <3>2. CASE g = h
      BY <1>1, <2>1, <2>2, <2>3, <2>6, <2>7, <2>8, <3>1, <3>2, Places DEF Bit
    <3>3. CASE g # h
      BY <1>1, <2>1, <2>2, <2>3, <3>1, <3>3, CounterTypes, Places DEF Bit
    <3> QED BY <3>2, <3>3
  <2>10. connections' =
           connections - Bit(pc[c] \in HoldsConnection) + Bit(pc'[c] \in HoldsConnection)
    BY <1>1, <2>2, Places, CounterTypes DEF Bit
  <2>11. CountersAreExact'
    BY <2>4, <2>9, <2>10, Accounting
  <2>12. Bounded'
    BY <1>1, <1>2, <2>3, LimitTypes DEF Bounded, Types, HubTypes
  <2> QED BY <2>11, <2>12
<1> QED BY <1>1, <1>4, <1>5, <1>6

LEMMA LookupRoomCounts ==
  ASSUME Types, CountersAreExact, Bounded, NEW c \in Connections, LookupRoom(c)
  PROVE  CountersAreExact' /\ Bounded'
<1> DEFINE h == siteCell[c]
           r == asked[c].room
           l == siteRooms[h].rooms[r]
<1>1. pc[c] = "room" /\ UNCHANGED <<limits, sites, connections, asked, siteCell>>
  BY DEF LookupRoom
<1>2. h \in SiteCells /\ r \in Rooms
  BY <1>1 DEF Types, Holdings, KnowsSite, HoldsSite, Requests
<1>3. "enter" \in Labels /\ "refusedSite" \in Labels
  BY DEF Labels, HoldsConnection, HoldsSite
<1>4. ASSUME NEW x \in {"enter", "refusedSite"}, Move(c, x), UNCHANGED <<siteRooms, rooms>>
      PROVE  CountersAreExact' /\ Bounded'
  <2>1. pc'[c] = x /\ Moves(c)
    BY <1>1, <1>3, <1>4, MovesLabel DEF Moves
  <2>2. \A m \in RoomCells : Cardinality(DOMAIN rooms'[m].clients) <= limits.perRoom
    BY <1>4 DEF Bounded
  <2> QED BY <1>1, <1>4, <2>1, <2>2, Places, NothingCounted
<1>5. ASSUME l = None, siteRooms[h].room_count < limits.rooms,
             NEW new \in FreeRoomCells, Move(c, "enter"), EntryMade(h, r, new),
             rooms' = [rooms EXCEPT ![new] = EmptyRoom]
      PROVE  CountersAreExact' /\ Bounded'
  <2>1. pc'[c] = "enter" /\ Moves(c)
    BY <1>1, <1>3, <1>5, MovesLabel DEF Moves
  <2>2. new \in RoomCells
    BY FreeRoom
  <2>3. /\ \A g \in SiteCells : \A q \in Rooms :
             siteRooms'[g].rooms[q] = IF g = h /\ q = r THEN new ELSE siteRooms[g].rooms[q]
        /\ \A g \in SiteCells :
             /\ siteRooms'[g].room_count =
                  IF g = h THEN siteRooms[g].room_count + 1 ELSE siteRooms[g].room_count
             /\ siteRooms'[g].connections = siteRooms[g].connections
    <3>1. HubTypes /\ EntryMade(h, r, new)
      BY <1>5 DEF Types
    <3> HIDE DEF h, r
    <3> QED BY ONLY <1>2, <2>2, <3>1, MakesEntry
  <2>4. ASSUME NEW g \in SiteCells
        PROVE  Cardinality(RoomsOf(siteRooms'[g])) =
                 Cardinality(RoomsOf(siteRooms[g])) + (IF g = h THEN 1 ELSE 0)
    <3>1. Cardinality(RoomsOf(siteRooms[g])) \in Nat
      BY Cardinals
    <3>2. CASE g = h
      <4>1. /\ \A q \in Rooms \ {r} : siteRooms'[h].rooms[q] = siteRooms[h].rooms[q]
            /\ siteRooms[h].rooms[r] = None /\ siteRooms'[h].rooms[r] # None
        BY <1>2, <1>5, <2>2, <2>3, NoneAssumption
      <4>2. Cardinality(RoomsOf(siteRooms'[h])) =
              Cardinality(RoomsOf(siteRooms[h]))
                - Bit(siteRooms[h].rooms[r] # None) + Bit(siteRooms'[h].rooms[r] # None)
        <5> HIDE DEF h, r
        <5> QED BY <1>2, <4>1, RoomCount
      <4> QED BY <3>1, <3>2, <4>1, <4>2 DEF Bit
    <3>3. CASE g # h
      <4>1. RoomsOf(siteRooms'[g]) = RoomsOf(siteRooms[g])
        BY <2>3, <3>3 DEF RoomsOf
      <4> QED BY <3>1, <3>3, <4>1
    <3> QED BY <3>2, <3>3
  <2>5. ASSUME NEW g \in SiteCells
        PROVE  /\ siteRooms'[g].connections =
                    siteRooms[g].connections
                      - Bit(siteCell[c] = g /\ pc[c] \in HoldsSite)
                      + Bit(siteCell'[c] = g /\ pc'[c] \in HoldsSite)
               /\ siteRooms'[g].room_count =
                    siteRooms[g].room_count
                      - Cardinality(RoomsOf(siteRooms[g])) + Cardinality(RoomsOf(siteRooms'[g]))
                      - Bit(siteCell[c] = g /\ pc[c] = "releaseRoom")
                      + Bit(siteCell'[c] = g /\ pc'[c] = "releaseRoom")
    <3>1. /\ siteRooms'[g].connections = siteRooms[g].connections
          /\ siteRooms'[g].room_count = siteRooms[g].room_count + (IF g = h THEN 1 ELSE 0)
      BY <2>3, CounterTypes
    <3>2. Cardinality(RoomsOf(siteRooms[g])) \in Nat
      BY Cardinals
    <3> HIDE DEF h
    <3> QED BY <1>1, <2>1, <2>4, <3>1, <3>2, CounterTypes, Places DEF Bit
  <2>6. connections' =
          connections - Bit(pc[c] \in HoldsConnection) + Bit(pc'[c] \in HoldsConnection)
    BY <1>1, <2>1, Places, CounterTypes DEF Bit
  <2>7. CountersAreExact'
    BY <2>1, <2>5, <2>6, Accounting
  <2>8. Bounded'
    <3>1. \A m \in RoomCells :
            rooms'[m] = rooms[m] \/ DOMAIN rooms'[m].clients = {}
      BY <1>5, <2>2, StartsRoom DEF Types
    <3>2. \A m \in RoomCells : Cardinality(DOMAIN rooms'[m].clients) <= limits.perRoom
      <4>1. 0 <= limits.perRoom
        BY LimitTypes DEF Types, HubTypes
      <4> QED BY <3>1, <4>1, FS_EmptySet DEF Bounded
    <3>3. \A g \in SiteCells :
            siteRooms'[g].connections <= limits.perSite /\ siteRooms'[g].room_count <= limits.rooms
      BY <1>5, <2>3, CounterTypes, LimitTypes DEF Bounded, Types, HubTypes
    <3> QED BY <1>1, <3>2, <3>3 DEF Bounded
  <2> QED BY <2>7, <2>8
<1> QED
  <2>1. \/ GoTo(c, "enter") /\ UNCHANGED <<siteRooms, rooms>>
        \/ /\ l = None /\ siteRooms[h].room_count < limits.rooms /\ GoTo(c, "enter")
           /\ \E new \in FreeRoomCells :
                /\ EntryMade(h, r, new)
                /\ rooms' = [rooms EXCEPT ![new] = EmptyRoom]
        \/ GoTo(c, "refusedSite") /\ UNCHANGED <<siteRooms, rooms>>
    BY DEF LookupRoom, EntryMade
  <2> QED BY <1>4, <1>5, <2>1 DEF GoTo, Move

LEMMA TurnAwayCounts ==
  ASSUME Types, CountersAreExact, Bounded, NEW c \in Connections, TurnAway(c)
  PROVE  CountersAreExact' /\ Bounded'
<1>1. /\ pc[c] = "enter" /\ UNCHANGED <<limits, connections, siteRooms, rooms, siteCell>>
      /\ \E x \in {"room", "refusedSite"} : Move(c, x)
  BY DEF TurnAway, hub, Move, GoTo
<1>2. PICK x \in {"room", "refusedSite"} : Move(c, x)
  BY <1>1
<1>3. x \in Labels
  BY DEF Labels, HoldsConnection, HoldsSite
<1>4. pc'[c] = x /\ Moves(c)
  BY <1>1, <1>2, <1>3, MovesLabel DEF Moves
<1>5. \A m \in RoomCells : Cardinality(DOMAIN rooms'[m].clients) <= limits.perRoom
  BY <1>1 DEF Bounded
<1> QED BY <1>1, <1>4, <1>5, Places, NothingCounted

\* One more member.
LEMMA AddedCount ==
  ASSUME NEW S, NEW x, IsFiniteSet(S)
  PROVE  Cardinality(S \cup {x}) \in Nat /\ Cardinality(S \cup {x}) <= Cardinality(S) + 1
<1>1. Cardinality(S) \in Nat
  BY FS_CardinalityType
<1>2. Cardinality(S \cup {x}) = Cardinality(S) \/ Cardinality(S \cup {x}) = Cardinality(S) + 1
  BY FS_AddElement
<1> QED BY ONLY <1>1, <1>2

LEMMA EnterRoomCounts ==
  ASSUME Types, CountersAreExact, Bounded, NEW c \in Connections, EnterRoom(c)
  PROVE  CountersAreExact' /\ Bounded'
<1> DEFINE l == roomCell[c]
<1>1. /\ pc[c] = "enter" /\ Move(c, "send") /\ l \in RoomCells
      /\ Cardinality(DOMAIN rooms[l].clients) < limits.perRoom
      /\ UNCHANGED <<limits, sites, connections, siteRooms, tasks>>
      /\ \A m \in RoomCells \ {l} : rooms'[m] = rooms[m]
      /\ DOMAIN rooms'[l].clients = DOMAIN rooms[l].clients \cup {c}
  BY EnterEffect DEF Members
<1>2. "send" \in Labels
  BY DEF Labels, HoldsConnection, HoldsSite, Inside
<1>3. pc'[c] = "send" /\ Moves(c)
  BY <1>1, <1>2, MovesLabel DEF Moves, tasks
<1>4. IsFiniteSet(DOMAIN rooms[l].clients)
  <2>1. rooms[l].clients \in ClientMaps
    BY <1>1 DEF Types, HubTypes, RoomRows
  <2> QED BY <2>1, ClientMapTypes, FiniteAssumption, FS_Subset
<1>5. Cardinality(DOMAIN rooms'[l].clients) <= limits.perRoom
  <2>1. Cardinality(DOMAIN rooms[l].clients) \in Nat /\ limits.perRoom \in Nat
    BY <1>4, FS_CardinalityType, LimitTypes DEF Types, HubTypes
  <2> HIDE DEF l
  <2>2. Cardinality(DOMAIN rooms[l].clients \cup {c}) <= Cardinality(DOMAIN rooms[l].clients) + 1
    BY <1>4, AddedCount
  <2>3. Cardinality(DOMAIN rooms[l].clients \cup {c}) \in Nat
    BY <1>4, AddedCount
  <2> QED BY <1>1, <2>1, <2>2, <2>3
<1>6. \A m \in RoomCells : Cardinality(DOMAIN rooms'[m].clients) <= limits.perRoom
  BY <1>1, <1>5 DEF Bounded
<1> QED BY <1>1, <1>3, <1>6, Places, NothingCounted DEF tasks

LEMMA LeaveRoomCounts ==
  ASSUME Types, Cells, CountersAreExact, Bounded, NEW c \in Connections, LeaveRoom(c)
  PROVE  CountersAreExact' /\ Bounded'
<1> DEFINE l == roomCell[c]
<1>1. /\ pc[c] = "leave" /\ Move(c, "left") /\ l \in RoomCells
      /\ UNCHANGED <<limits, sites, connections, siteRooms, tasks>>
      /\ \A m \in RoomCells \ {l} : rooms'[m] = rooms[m]
      /\ DOMAIN rooms'[l].clients = DOMAIN rooms[l].clients \ {c}
  BY LeaveEffect
<1>2. "left" \in Labels
  BY DEF Labels, HoldsConnection, HoldsSite
<1>3. pc'[c] = "left" /\ Moves(c)
  BY <1>1, <1>2, MovesLabel DEF Moves, tasks
<1>4. IsFiniteSet(DOMAIN rooms[l].clients)
  <2>1. rooms[l].clients \in ClientMaps
    BY <1>1 DEF Types, HubTypes, RoomRows
  <2> QED BY <2>1, ClientMapTypes, FiniteAssumption, FS_Subset
<1>5. Cardinality(DOMAIN rooms'[l].clients) <= limits.perRoom
  <2>1. Cardinality(DOMAIN rooms[l].clients) \in Nat /\ limits.perRoom \in Nat
    BY <1>4, FS_CardinalityType, LimitTypes DEF Types, HubTypes
  <2>2. Cardinality(DOMAIN rooms[l].clients \ {c}) <= Cardinality(DOMAIN rooms[l].clients)
    BY <1>4, <2>1, FS_RemoveElement
  <2>3. Cardinality(DOMAIN rooms[l].clients \ {c}) \in Nat
    BY <1>4, FS_RemoveElement, FS_CardinalityType
  <2>4. Cardinality(DOMAIN rooms[l].clients) <= limits.perRoom
    BY <1>1 DEF Bounded
  <2> QED BY <1>1, <2>1, <2>2, <2>3, <2>4
<1>6. \A m \in RoomCells : Cardinality(DOMAIN rooms'[m].clients) <= limits.perRoom
  BY <1>1, <1>5 DEF Bounded
<1> QED BY <1>1, <1>3, <1>6, Places, NothingCounted DEF tasks

LEMMA ReleaseCounts ==
  ASSUME Types, CountersAreExact, Bounded, NEW c \in Connections, Release(c)
  PROVE  CountersAreExact' /\ Bounded'
<1> DEFINE h == siteCell[c]
<1>1. /\ pc[c] = "left" /\ Move(c, "emptyRoom") /\ connections' = connections - 1
      /\ siteRooms' = [siteRooms EXCEPT ![h].connections = @ - 1]
      /\ UNCHANGED <<limits, sites, rooms, asked, siteCell, roomCell>>
  BY DEF Release, Move, GoTo, tasks
<1>2. "emptyRoom" \in Labels /\ h \in SiteCells
  BY <1>1 DEF Labels, Types, Holdings, KnowsSite, HoldsSite
<1>3. pc'[c] = "emptyRoom" /\ Moves(c)
  BY <1>1, <1>2, MovesLabel DEF Moves
<1>4. \A g \in SiteCells :
        /\ siteRooms'[g].rooms = siteRooms[g].rooms
        /\ siteRooms'[g].room_count = siteRooms[g].room_count
        /\ siteRooms'[g].connections =
             IF g = h THEN siteRooms[g].connections - 1 ELSE siteRooms[g].connections
  BY <1>1, <1>2, CountsConnections, CounterTypes DEF Types
<1>5. CountersAreExact'
  BY <1>1, <1>3, <1>4, CounterTypes, Places, PlainAccounting DEF Bit
<1>6. Bounded'
  BY <1>1, <1>4, CounterTypes, LimitTypes DEF Bounded, Types, HubTypes
<1> QED BY <1>5, <1>6

LEMMA GiveBackCounts ==
  ASSUME Types, CountersAreExact, Bounded, NEW c \in Connections, GiveBack(c)
  PROVE  CountersAreExact' /\ Bounded'
<1> DEFINE h == siteCell[c]
<1>1. /\ connections' = connections - 1 /\ End(c)
      /\ UNCHANGED <<limits, sites, rooms>>
      /\ \/ pc[c] = "refusedSite" /\ siteRooms' = [siteRooms EXCEPT ![h].connections = @ - 1]
         \/ pc[c] = "refused" /\ siteRooms' = siteRooms
  BY DEF GiveBack
<1>2. pc'[c] = "socket" /\ Moves(c)
  BY <1>1, Ends DEF Types, Moves
<1>3. connections' <= limits'.connections
  BY <1>1, CounterTypes, LimitTypes DEF Bounded, Types, HubTypes
<1>4. CASE pc[c] = "refusedSite" /\ siteRooms' = [siteRooms EXCEPT ![h].connections = @ - 1]
  <2>1. h \in SiteCells
    BY <1>4 DEF Types, Holdings, KnowsSite, HoldsSite
  <2>2. \A g \in SiteCells :
          /\ siteRooms'[g].rooms = siteRooms[g].rooms
          /\ siteRooms'[g].room_count = siteRooms[g].room_count
          /\ siteRooms'[g].connections =
               IF g = h THEN siteRooms[g].connections - 1 ELSE siteRooms[g].connections
    BY <1>4, <2>1, CountsConnections, CounterTypes DEF Types
  <2>3. CountersAreExact'
    BY <1>1, <1>2, <1>4, <2>2, CounterTypes, Places, PlainAccounting DEF Bit
  <2>4. Bounded'
    BY <1>1, <1>3, <2>2, CounterTypes, LimitTypes DEF Bounded, Types, HubTypes
  <2> QED BY <2>3, <2>4
<1>5. CASE pc[c] = "refused" /\ siteRooms' = siteRooms
  <2>1. CountersAreExact'
    BY <1>1, <1>2, <1>5, CounterTypes, Places, PlainAccounting DEF Bit
  <2>2. Bounded'
    BY <1>1, <1>3, <1>5 DEF Bounded
  <2> QED BY <2>1, <2>2
<1> QED BY <1>1, <1>4, <1>5

LEMMA RemoveEmptyRoomCounts ==
  ASSUME Types, CountersAreExact, Bounded, NEW c \in Connections, RemoveEmptyRoom(c)
  PROVE  CountersAreExact' /\ Bounded'
<1> DEFINE h == siteCell[c]
           r == asked[c].room
           l == siteRooms[h].rooms[r]
           empty == l = roomCell[c] /\ DOMAIN rooms[l].clients = {}
<1>1. /\ pc[c] = "emptyRoom"
      /\ UNCHANGED <<limits, sites, connections, asked, siteCell>>
      /\ IF empty
         THEN /\ rooms' = [rooms EXCEPT ![l].closed = TRUE]
              /\ EntryRemoved(h, r) /\ Move(c, "releaseRoom")
         ELSE Move(c, "emptySite") /\ UNCHANGED <<rooms, siteRooms>>
  BY DEF RemoveEmptyRoom, Members, Move, GoTo, EntryRemoved
<1>2. h \in SiteCells /\ r \in Rooms /\ roomCell[c] \in RoomCells
  BY <1>1 DEF Types, Holdings, KnowsSite, HoldsRoom, Requests
<1>3. "releaseRoom" \in Labels /\ "emptySite" \in Labels
  BY DEF Labels
<1>4. CASE empty
  <2>1. /\ rooms' = [rooms EXCEPT ![l].closed = TRUE]
        /\ EntryRemoved(h, r) /\ Move(c, "releaseRoom") /\ l \in RoomCells
    BY <1>1, <1>2, <1>4
  <2>2. pc'[c] = "releaseRoom" /\ Moves(c)
    BY <1>1, <1>3, <2>1, MovesLabel DEF Moves
  <2>3. /\ \A g \in SiteCells : \A q \in Rooms :
             siteRooms'[g].rooms[q] = IF g = h /\ q = r THEN None ELSE siteRooms[g].rooms[q]
        /\ \A g \in SiteCells :
             /\ siteRooms'[g].room_count = siteRooms[g].room_count
             /\ siteRooms'[g].connections = siteRooms[g].connections
    <3>1. HubTypes /\ EntryRemoved(h, r)
      BY <2>1 DEF Types
    <3> HIDE DEF h, r
    <3> QED BY ONLY <1>2, <3>1, RemovesEntry
  <2>4. ASSUME NEW g \in SiteCells
        PROVE  Cardinality(RoomsOf(siteRooms'[g])) =
                 Cardinality(RoomsOf(siteRooms[g])) - (IF g = h THEN 1 ELSE 0)
    <3>1. Cardinality(RoomsOf(siteRooms[g])) \in Nat
      BY Cardinals
    <3>2. CASE g = h
      <4>1. /\ \A q \in Rooms \ {r} : siteRooms'[h].rooms[q] = siteRooms[h].rooms[q]
            /\ siteRooms[h].rooms[r] # None /\ siteRooms'[h].rooms[r] = None
        BY <1>2, <2>1, <2>3, NoneAssumption
      <4>2. Cardinality(RoomsOf(siteRooms'[h])) =
              Cardinality(RoomsOf(siteRooms[h]))
                - Bit(siteRooms[h].rooms[r] # None) + Bit(siteRooms'[h].rooms[r] # None)
        <5> HIDE DEF h, r
        <5> QED BY <1>2, <4>1, RoomCount
      <4> QED BY <3>1, <3>2, <4>1, <4>2 DEF Bit
    <3>3. CASE g # h
      <4>1. RoomsOf(siteRooms'[g]) = RoomsOf(siteRooms[g])
        BY <2>3, <3>3 DEF RoomsOf
      <4> QED BY <3>1, <3>3, <4>1
    <3> QED BY <3>2, <3>3
  <2>5. ASSUME NEW g \in SiteCells
        PROVE  /\ siteRooms'[g].connections =
                    siteRooms[g].connections
                      - Bit(siteCell[c] = g /\ pc[c] \in HoldsSite)
                      + Bit(siteCell'[c] = g /\ pc'[c] \in HoldsSite)
               /\ siteRooms'[g].room_count =
                    siteRooms[g].room_count
                      - Cardinality(RoomsOf(siteRooms[g])) + Cardinality(RoomsOf(siteRooms'[g]))
                      - Bit(siteCell[c] = g /\ pc[c] = "releaseRoom")
                      + Bit(siteCell'[c] = g /\ pc'[c] = "releaseRoom")
    <3>1. /\ siteRooms'[g].connections = siteRooms[g].connections
          /\ siteRooms'[g].room_count = siteRooms[g].room_count
      BY <2>3
    <3>2. Cardinality(RoomsOf(siteRooms[g])) \in Nat
      BY Cardinals
    <3>3. siteCell'[c] = h /\ siteCell[c] = h
      BY <1>1
    <3>4. /\ pc[c] \notin HoldsSite /\ pc'[c] \notin HoldsSite
          /\ pc[c] # "releaseRoom" /\ pc'[c] = "releaseRoom"
      BY <1>1, <2>2, Places
    <3>5. siteRooms[g].connections \in Int /\ siteRooms[g].room_count \in Int
      BY CounterTypes
    <3> HIDE DEF h
    <3>6. Bit(siteCell[c] = g /\ pc[c] \in HoldsSite) = 0
      BY <3>4 DEF Bit
    <3>7. Bit(siteCell'[c] = g /\ pc'[c] \in HoldsSite) = 0
      BY <3>4 DEF Bit
    <3>8. Bit(siteCell[c] = g /\ pc[c] = "releaseRoom") = 0
      BY <3>4 DEF Bit
    <3>9. Bit(siteCell'[c] = g /\ pc'[c] = "releaseRoom") = (IF g = h THEN 1 ELSE 0)
      BY <3>3, <3>4 DEF Bit
    <3>10. siteRooms'[g].connections =
             siteRooms[g].connections
               - Bit(siteCell[c] = g /\ pc[c] \in HoldsSite)
               + Bit(siteCell'[c] = g /\ pc'[c] \in HoldsSite)
      BY <3>1, <3>5, <3>6, <3>7
    <3>11. siteRooms'[g].room_count =
             siteRooms[g].room_count
               - Cardinality(RoomsOf(siteRooms[g])) + Cardinality(RoomsOf(siteRooms'[g]))
               - Bit(siteCell[c] = g /\ pc[c] = "releaseRoom")
               + Bit(siteCell'[c] = g /\ pc'[c] = "releaseRoom")
      BY <2>4, <3>1, <3>2, <3>5, <3>8, <3>9
    <3> QED BY <3>10, <3>11
  <2>6. connections' =
          connections - Bit(pc[c] \in HoldsConnection) + Bit(pc'[c] \in HoldsConnection)
    <3>1. connections' = connections /\ connections \in Int
      BY <1>1, CounterTypes
    <3>2. pc[c] \notin HoldsConnection /\ pc'[c] \notin HoldsConnection
      BY <1>1, <2>2, Places
    <3> QED BY ONLY <3>1, <3>2 DEF Bit
  <2>7. CountersAreExact'
    BY <2>2, <2>5, <2>6, Accounting
  <2>8. \A m \in RoomCells : rooms'[m].clients = rooms[m].clients
    BY <2>1, ClosesRoom DEF Types
  <2>9. Bounded'
    BY <1>1, <2>3, <2>8 DEF Bounded
  <2> QED BY <2>7, <2>9
<1>5. CASE ~empty
  <2>1. Move(c, "emptySite") /\ UNCHANGED <<rooms, siteRooms>>
    BY <1>1, <1>5
  <2>2. pc'[c] = "emptySite" /\ Moves(c)
    BY <1>1, <1>3, <2>1, MovesLabel DEF Moves
  <2>3. \A m \in RoomCells : Cardinality(DOMAIN rooms'[m].clients) <= limits.perRoom
    BY <2>1 DEF Bounded
  <2> QED BY <1>1, <2>1, <2>2, <2>3, Places, NothingCounted
<1> QED BY <1>4, <1>5

LEMMA ReleaseRoomCounts ==
  ASSUME Types, CountersAreExact, Bounded, NEW c \in Connections, ReleaseRoom(c)
  PROVE  CountersAreExact' /\ Bounded'
<1> DEFINE h == siteCell[c]
<1>1. /\ pc[c] = "releaseRoom" /\ Move(c, "emptySite")
      /\ siteRooms' = [siteRooms EXCEPT ![h].room_count = @ - 1]
      /\ UNCHANGED <<limits, sites, connections, rooms, asked, siteCell, roomCell>>
  BY DEF ReleaseRoom, Move, GoTo, tasks
<1>2. "emptySite" \in Labels /\ h \in SiteCells
  BY <1>1 DEF Labels, Types, Holdings, KnowsSite
<1>3. pc'[c] = "emptySite" /\ Moves(c)
  BY <1>1, <1>2, MovesLabel DEF Moves
<1>4. \A g \in SiteCells :
        /\ siteRooms'[g].rooms = siteRooms[g].rooms
        /\ siteRooms'[g].room_count =
             IF g = h THEN siteRooms[g].room_count - 1 ELSE siteRooms[g].room_count
        /\ siteRooms'[g].connections = siteRooms[g].connections
  BY <1>1, <1>2, ReturnsPlace DEF Types
<1>5. CountersAreExact'
  BY <1>1, <1>3, <1>4, CounterTypes, Places, PlainAccounting DEF Bit
<1>6. Bounded'
  BY <1>1, <1>4, CounterTypes, LimitTypes DEF Bounded, Types, HubTypes
<1> QED BY <1>5, <1>6

LEMMA RemoveEmptySiteCounts ==
  ASSUME Types, CountersAreExact, Bounded, NEW c \in Connections, RemoveEmptySite(c)
  PROVE  CountersAreExact' /\ Bounded'
<1>1. /\ pc[c] = "emptySite" /\ End(c) /\ UNCHANGED <<limits, connections, siteRooms, rooms>>
  BY DEF RemoveEmptySite
<1>2. pc'[c] = "socket" /\ Moves(c)
  BY <1>1, Ends DEF Types, Moves
<1>3. CountersAreExact'
  BY <1>1, <1>2, CounterTypes, Places, PlainAccounting DEF Bit
<1>4. Bounded'
  BY <1>1 DEF Bounded
<1> QED BY <1>3, <1>4

-----------------------------------------------------------------------------
(* The invariant holds *)

LEMMA InitRooms == Init => RoomsInv
<1> SUFFICES ASSUME Init PROVE RoomsInv
  OBVIOUS
<1>1. "socket" \in Labels /\ "socket" \notin KnowsSite /\ "socket" \notin HoldsRoom
      /\ "socket" \notin Inside /\ "socket" \notin HoldsSite /\ "socket" \notin HoldsConnection
  BY DEF Labels, KnowsSite, HoldsRoom, Inside, HoldsSite, HoldsConnection
<1>2. limits \in LimitSets /\ connections = 0
      /\ pc = [c \in Connections |-> "socket"]
      /\ siteRooms = [h \in SiteCells |-> EmptySite] /\ rooms = [l \in RoomCells |-> NoRoom]
  BY DEF Init
<1>3. Types
  BY <1>1, <1>2, EmptyTypes DEF Init, Types, HubTypes, TaskTypes, Holdings, Maybe
<1>4. \A l \in RoomCells : DOMAIN rooms[l].clients = {}
  BY <1>2 DEF NoRoom, EmptyRoom
<1>5. \A h \in SiteCells :
        /\ \A r \in Rooms : siteRooms[h].rooms[r] = None
        /\ siteRooms[h].connections = 0 /\ siteRooms[h].room_count = 0
  BY <1>2 DEF EmptySite
<1>6. Cells
  BY <1>1, <1>2, <1>4, <1>5 DEF Cells, Placed, Seated, Occupied, Entry
<1>7. Bounded
  BY <1>2, <1>4, <1>5, FS_EmptySet, LimitTypes DEF Bounded
<1>8. CountersAreExact
  <2>1. OfHub(pc) = {} /\ \A h : OfSite(pc, siteCell, h) = {} /\ Returning(pc, siteCell, h) = {}
    BY <1>1, <1>2 DEF OfHub, OfSite, Returning
  <2>2. \A h \in SiteCells : RoomsOf(siteRooms[h]) = {}
    BY <1>5 DEF RoomsOf
  <2> QED BY <1>2, <1>5, <2>1, <2>2, FS_EmptySet, ExactCounters
<1> QED BY <1>3, <1>6, <1>7, <1>8 DEF RoomsInv

LEMMA NextRooms == RoomsInv /\ [Next]_vars => RoomsInv'
<1> SUFFICES ASSUME RoomsInv, [Next]_vars PROVE RoomsInv'
  OBVIOUS
<1>1. Types /\ Cells /\ Bounded /\ CountersAreExact
  BY DEF RoomsInv
<1>2. ASSUME NEW c \in Connections, Reserve(c) PROVE RoomsInv'
  BY <1>1, <1>2, ReserveKeepsCells, ReserveCounts DEF RoomsInv
<1>3. ASSUME NEW c \in Connections, Join(c) PROVE RoomsInv'
  <2>1. CASE LookupRoom(c)
    BY <1>1, <2>1, LookupRoomKeepsCells, LookupRoomCounts DEF RoomsInv
  <2>2. CASE TurnAway(c)
    BY <1>1, <2>2, TurnAwayKeepsCells, TurnAwayCounts DEF RoomsInv
  <2>3. CASE EnterRoom(c)
    BY <1>1, <2>3, EnterRoomKeepsCells, EnterRoomCounts DEF RoomsInv
  <2> QED BY <1>3, <2>1, <2>2, <2>3 DEF Join
<1>4. ASSUME NEW c \in Connections, Serve(c) \/ FinishSend(c) \/ ObserveCancel(c) PROVE RoomsInv'
  BY <1>1, <1>4, ServeTalks, TalkKeepsCells, TalkCounts DEF RoomsInv
<1>5. ASSUME NEW c \in Connections, Leave(c) PROVE RoomsInv'
  <2>1. CASE LeaveRoom(c)
    BY <1>1, <2>1, LeaveRoomKeepsCells, LeaveRoomCounts DEF RoomsInv
  <2>2. CASE Release(c)
    BY <1>1, <2>2, ReleaseKeepsCells, ReleaseCounts DEF RoomsInv
  <2>3. CASE GiveBack(c)
    BY <1>1, <2>3, GiveBackKeepsCells, GiveBackCounts DEF RoomsInv
  <2>4. CASE RemoveEmptyRoom(c)
    BY <1>1, <2>4, RemoveEmptyRoomKeepsCells, RemoveEmptyRoomCounts DEF RoomsInv
  <2>5. CASE ReleaseRoom(c)
    BY <1>1, <2>5, ReleaseRoomKeepsCells, ReleaseRoomCounts DEF RoomsInv
  <2>6. CASE RemoveEmptySite(c)
    BY <1>1, <2>6, RemoveEmptySiteKeepsCells, RemoveEmptySiteCounts DEF RoomsInv
  <2> QED BY <1>5, <2>1, <2>2, <2>3, <2>4, <2>5, <2>6 DEF Leave
<1>6. CASE UNCHANGED vars
  <2>1. UNCHANGED <<limits, sites, connections, siteRooms, rooms, pc, asked, siteCell, roomCell>>
    BY <1>6 DEF vars, hub, tasks
  <2>2. Types' /\ Cells'
    BY <1>1, <2>1
    DEF Types, HubTypes, TaskTypes, Holdings, Cells, Placed, Seated, Occupied, Entry
  <2>3. Bounded' /\ CountersAreExact'
    BY <1>1, <2>1 DEF Bounded, CountersAreExact
  <2> QED BY <2>2, <2>3 DEF RoomsInv
<1> QED BY <1>2, <1>3, <1>4, <1>5, <1>6 DEF Next

\* The inductive invariant.
THEOREM RoomsInvHolds == Spec => []RoomsInv
  BY InitRooms, NextRooms, PTL DEF Spec

\* For any number of connections, sites, rooms and limits: however joins race
\* the removal of an empty room or site (join, remove_empty_room and
\* remove_empty_site of RoomHub), whoever is in a room is in the one that the
\* hub finds under its names, and nobody else is.
THEOREM MembersAreReachableHolds == Spec => []MembersAreReachable
<1>1. RoomsInv => MembersAreReachable
  BY LabelSets DEF RoomsInv, Cells, Placed, Seated, Entry, MembersAreReachable, Members
<1> QED BY <1>1, RoomsInvHolds, PTL

\* Every path of join and leave gives back exactly what it reserved.
THEOREM CountersAreExactHolds == Spec => []CountersAreExact
<1>1. RoomsInv => CountersAreExact
  BY DEF RoomsInv
<1> QED BY <1>1, RoomsInvHolds, PTL

\* A room that has a name has somebody in it, or a task on its way in, or one
\* that left and is about to remove it.
THEOREM RoomsAreOccupiedHolds == Spec => []RoomsAreOccupied
<1>1. RoomsInv => RoomsAreOccupied
  BY DEF RoomsInv, Cells, Occupied, Entry, RoomsAreOccupied, HoldsRoom
<1> QED BY <1>1, RoomsInvHolds, PTL

\* The limits of RoomLimits hold for sites and rooms by name, whichever cells
\* they are kept in.
THEOREM LimitsHoldHolds == Spec => []LimitsHold
<1> DEFINE In(s, r) == {c \in Connections :
                          pc[c] \in Inside /\ asked[c].site = s /\ asked[c].room = r}
           InSite(s) == UNION {In(s, r) : r \in Rooms}
           Used(s) == {r \in Rooms : In(s, r) # {}}
<1>1. ASSUME RoomsInv PROVE LimitsHold
  <2>0. Types /\ Cells /\ Bounded /\ CountersAreExact
    BY <1>1 DEF RoomsInv
  <2>1. /\ limits.connections \in Nat /\ limits.perSite \in Nat
        /\ limits.perRoom \in Nat /\ limits.rooms \in Nat
    BY <2>0, LimitTypes DEF Types, HubTypes
  <2>2. Cardinality({c \in Connections : pc[c] \in Inside}) <= limits.connections
    <3>1. {c \in Connections : pc[c] \in Inside} \in SUBSET OfHub(pc)
      BY LabelSets DEF OfHub
    <3>2. Cardinality({c \in Connections : pc[c] \in Inside}) <= Cardinality(OfHub(pc))
      BY <3>1, FinitePlaces, FS_Subset
    <3>3. Cardinality({c \in Connections : pc[c] \in Inside}) \in Nat
      BY <3>1, FinitePlaces, FS_Subset, FS_CardinalityType
    <3> QED BY <2>0, <2>1, <3>2, <3>3, ExactCounters, Cardinals DEF Bounded
  <2>3. ASSUME NEW s \in Sites
        PROVE  /\ Cardinality(InSite(s)) <= limits.perSite
               /\ Cardinality(Used(s)) <= limits.rooms
               /\ \A r \in Rooms : Cardinality(In(s, r)) <= limits.perRoom
    <3>1. CASE \A r \in Rooms : In(s, r) = {}
      <4>1. InSite(s) = {} /\ Used(s) = {}
        BY <3>1
      <4>2. /\ Cardinality(InSite(s)) = 0 /\ Cardinality(Used(s)) = 0
            /\ \A r \in Rooms : Cardinality(In(s, r)) = 0
        BY <3>1, <4>1, FS_EmptySet
      <4> HIDE DEF In, InSite, Used
      <4> QED BY <2>1, <4>2
    <3>2. CASE \E r \in Rooms : In(s, r) # {}
      <4> DEFINE h == sites[s]
      <4>1. \A r \in Rooms : \A c \in In(s, r) :
              /\ c \in Connections /\ pc[c] \in HoldsSite /\ siteCell[c] = h /\ h \in SiteCells
              /\ siteRooms[h].rooms[r] = roomCell[c] /\ roomCell[c] \in RoomCells
              /\ c \in DOMAIN rooms[roomCell[c]].clients
        BY <2>0, LabelSets DEF Cells, Placed, Entry, Types, Holdings
      <4>2. h \in SiteCells
        BY <3>2, <4>1
      <4>3. InSite(s) \in SUBSET OfSite(pc, siteCell, h)
        BY <4>1 DEF OfSite
      <4>4. Cardinality(InSite(s)) <= limits.perSite
        <5>1. Cardinality(InSite(s)) <= Cardinality(OfSite(pc, siteCell, h))
          BY <4>3, FinitePlaces, FS_Subset
        <5>2. Cardinality(InSite(s)) \in Nat
          BY <4>3, FinitePlaces, FS_Subset, FS_CardinalityType
        <5>3. Cardinality(OfSite(pc, siteCell, h)) \in Nat
              /\ Cardinality(OfSite(pc, siteCell, h)) <= limits.perSite
          BY <2>0, <4>2, Cardinals, ExactCounters DEF Bounded
        <5> HIDE DEF InSite, h
        <5> QED BY <2>1, <5>1, <5>2, <5>3
      <4>5. Used(s) \in SUBSET RoomsOf(siteRooms[h])
        BY <4>1, NoneAssumption DEF RoomsOf
      <4>6. Cardinality(Used(s)) <= limits.rooms
        <5>1. Cardinality(Used(s)) <= Cardinality(RoomsOf(siteRooms[h]))
          BY <4>5, FinitePlaces, FS_Subset
        <5>2. Cardinality(Used(s)) \in Nat
          BY <4>5, FinitePlaces, FS_Subset, FS_CardinalityType
        <5>3. /\ Cardinality(RoomsOf(siteRooms[h])) \in Nat
              /\ Cardinality(Returning(pc, siteCell, h)) \in Nat
          BY Cardinals
        <5>4. siteRooms[h].room_count =
                Cardinality(RoomsOf(siteRooms[h])) + Cardinality(Returning(pc, siteCell, h))
              /\ siteRooms[h].room_count <= limits.rooms
          BY <2>0, <4>2, ExactCounters DEF Bounded
        <5> HIDE DEF Used, h
        <5> QED BY <2>1, <5>1, <5>2, <5>3, <5>4
      <4>7. ASSUME NEW r \in Rooms PROVE Cardinality(In(s, r)) <= limits.perRoom
        <5>1. CASE In(s, r) = {}
          BY <2>1, <5>1, FS_EmptySet
        <5>2. CASE In(s, r) # {}
          <6> DEFINE l == siteRooms[h].rooms[r]
                     members == DOMAIN rooms[l].clients
          <6>1. l \in RoomCells /\ In(s, r) \in SUBSET members
            BY <4>1, <5>2
          <6>2. rooms[l].clients \in ClientMaps
            BY <2>0, <6>1 DEF Types, HubTypes, RoomRows
          <6>3. IsFiniteSet(members)
            BY <6>2, ClientMapTypes, FiniteAssumption, FS_Subset
          <6>4. Cardinality(In(s, r)) <= Cardinality(members) /\ Cardinality(In(s, r)) \in Nat
            BY <6>1, <6>3, FS_Subset, FS_CardinalityType
          <6>5. Cardinality(members) <= limits.perRoom /\ Cardinality(members) \in Nat
            BY <2>0, <6>1, <6>3, FS_CardinalityType DEF Bounded
          <6> HIDE DEF In, members
          <6> QED BY <2>1, <6>4, <6>5
        <5> QED BY <5>1, <5>2
      <4> QED BY <4>4, <4>6, <4>7
    <3> QED BY <3>1, <3>2
  <2> QED BY <2>2, <2>3 DEF LimitsHold
<1> QED BY <1>1, RoomsInvHolds, PTL

-----------------------------------------------------------------------------

(***************************************************************************)
(* What the clients of the rooms are told and what the hub shows by name,  *)
(* on top of the invariant above.                                          *)
(***************************************************************************)

(***************************************************************************)
(* The streams: a channel never holds more than its capacity, and what is  *)
(* in it, or was told to a client, is about a user when it says so.        *)
(***************************************************************************)
News == {m \in Messages : m.type = "notice" <=> m.user = None}
Streams ==
  /\ queue \in [Connections -> Seq(News)]
  /\ \A c \in Connections : Len(queue[c]) <= limits.queue
  /\ view \in [Connections -> StateMaps]
  /\ cancelled \in [Connections -> BOOLEAN]

LEMMA StateMapIntro ==
  ASSUME NEW U \in SUBSET Users, NEW users \in [U -> States]
  PROVE  users \in StateMaps
  BY DEF StateMaps

LEMMA StateMapTypes ==
  ASSUME NEW users \in StateMaps
  PROVE  DOMAIN users \in SUBSET Users /\ users \in [DOMAIN users -> States]
  BY DEF StateMaps

LEMMA StatesInTypes ==
  ASSUME NEW users \in UserMaps
  PROVE  StatesIn(users) \in StateMaps
<1>1. DOMAIN users \in SUBSET Users /\ StatesIn(users) \in [DOMAIN users -> States]
  BY UserMapTypes DEF StatesIn, Entries
<1> QED BY <1>1, StateMapIntro

LEMMA MessageTypes ==
  /\ Notice \in News
  /\ \A u \in Users, states \in States :
       Message("user:join", u, states) \in News /\ Message("user:quit", u, states) \in News
       /\ Message("user:state", u, states) \in News
  BY UnsetType, NoneAssumption DEF Notice, Message, News, Messages, Maybe

\* What a client makes of a message is a map of users.
LEMMA ToldTypes ==
  ASSUME NEW users \in StateMaps, NEW m \in News
  PROVE  Told(users, m) \in StateMaps
<1>1. DOMAIN users \in SUBSET Users /\ users \in [DOMAIN users -> States] /\ m.states \in States
  BY StateMapTypes DEF News, Messages
<1>2. CASE m.type \in {"user:join", "user:state"}
  <2>1. DOMAIN users \cup {m.user} \in SUBSET Users
    BY <1>1, <1>2 DEF News, Messages, Maybe
  <2>2. With(users, m.user, m.states) \in [DOMAIN users \cup {m.user} -> States]
    BY <1>1 DEF With
  <2>3. Told(users, m) = With(users, m.user, m.states)
    BY <1>2 DEF Told
  <2> QED BY <2>1, <2>2, <2>3, StateMapIntro
<1>3. CASE m.type = "user:quit"
  <2>1. DOMAIN users \ {m.user} \in SUBSET Users
    BY <1>1
  <2>2. Without(users, m.user) \in [DOMAIN users \ {m.user} -> States]
    BY <1>1 DEF Without
  <2>3. Told(users, m) = Without(users, m.user)
    BY <1>3 DEF Told
  <2> QED BY <2>1, <2>2, <2>3, StateMapIntro
<1>4. CASE m.type \notin {"user:join", "user:state", "user:quit"}
  BY <1>4 DEF Told
<1> QED BY <1>2, <1>3, <1>4

\* A message is put into a channel that has room for it.
LEMMA Fits ==
  ASSUME NEW n \in Nat, NEW q \in Seq(News), NEW m \in News, Len(q) < n
  PROVE  Append(q, m) \in Seq(News) /\ Len(Append(q, m)) <= n
<1>1. Append(q, m) \in Seq(News) /\ Len(Append(q, m)) = Len(q) + 1 /\ Len(q) \in Nat
  OBVIOUS
<1> QED BY <1>1

LEMMA AnswerFits ==
  ASSUME limits.queue \in Nat, NEW c \in Connections, NEW q \in [Connections -> Seq(News)],
         Answer(c, q),
         \A d \in Connections : Len(q[d]) <= limits.queue
  PROVE  /\ queue' \in [Connections -> Seq(News)]
         /\ \A d \in Connections : Len(queue'[d]) <= limits.queue
<1>1. CASE Len(q[c]) < limits.queue
  <2>1. queue' = [q EXCEPT ![c] = Append(q[c], Notice)]
    BY <1>1 DEF Answer
  <2>2. Append(q[c], Notice) \in Seq(News) /\ Len(Append(q[c], Notice)) <= limits.queue
    BY <1>1, Fits, MessageTypes
  <2> QED BY <2>1, <2>2
<1>2. CASE ~(Len(q[c]) < limits.queue)
  BY <1>2 DEF Answer
<1> QED BY <1>1, <1>2

LEMMA DeliverFits ==
  ASSUME limits.queue \in Nat, Streams, NEW c \in Connections, NEW m \in News, Deliver(c, m)
  PROVE  /\ queue' \in [Connections -> Seq(News)]
         /\ \A d \in Connections : Len(queue'[d]) <= limits.queue
         /\ cancelled' \in [Connections -> BOOLEAN]
<1> DEFINE full == {d \in Members(roomCell[c]) : Len(queue[d]) >= limits.queue}
           sent == [d \in Connections |->
                      IF d \in Members(roomCell[c]) \ full THEN Append(queue[d], m) ELSE queue[d]]
<1>1. /\ cancelled' = [d \in Connections |-> cancelled[d] \/ d \in full]
      /\ Answer(c, sent)
  BY DEF Deliver
<1>2. \A d \in Connections : sent[d] \in Seq(News) /\ Len(sent[d]) <= limits.queue
  <2> TAKE d \in Connections
  <2>1. queue[d] \in Seq(News) /\ Len(queue[d]) <= limits.queue /\ Len(queue[d]) \in Nat
    BY DEF Streams
  <2>2. CASE d \in Members(roomCell[c]) \ full
    <3>1. Len(queue[d]) < limits.queue
      BY <2>1, <2>2
    <3>2. sent[d] = Append(queue[d], m)
      BY <2>2
    <3> QED BY <2>1, <3>1, <3>2, Fits
  <2>3. CASE d \notin Members(roomCell[c]) \ full
    BY <2>1, <2>3
  <2> QED BY <2>2, <2>3
<1>3. sent \in [Connections -> Seq(News)]
  BY <1>2
<1>4. cancelled' \in [Connections -> BOOLEAN]
  BY <1>1
<1> HIDE DEF sent
<1> QED BY <1>1, <1>2, <1>3, <1>4, AnswerFits

LEMMA InitStreams == Init => Streams
<1> SUFFICES ASSUME Init PROVE Streams
  OBVIOUS
<1>1. << >> \in Seq(News) /\ Len(<< >>) = 0
  OBVIOUS
<1>2. << >> \in StateMaps
  <2>1. << >> \in [{} -> States]
    OBVIOUS
  <2> QED BY <2>1 DEF StateMaps
<1>3. limits.queue \in Nat
  BY LimitTypes DEF Init
<1> QED BY <1>1, <1>2, <1>3 DEF Init, Streams

LEMMA NextStreams == RoomsInv /\ Streams /\ [Next]_vars => Streams'
<1> SUFFICES ASSUME RoomsInv, Streams, [Next]_vars PROVE Streams'
  OBVIOUS
<1>0. Types /\ Cells /\ limits.queue \in Nat
  BY LimitTypes DEF RoomsInv, Types, HubTypes
<1>1. ASSUME UNCHANGED <<limits, streams>> PROVE Streams'
  BY <1>1 DEF Streams, streams
<1>2. ASSUME NEW c \in Connections, EnterRoom(c) PROVE Streams'
  <2> DEFINE u == asked[c].user
             clients == Members(roomCell[c])
             m == Message("user:join", u, Unset)
  <2>1. /\ pc[c] = "enter" /\ limits' = limits
        /\ view' = [view EXCEPT ![c] = StatesIn(Entered(c))]
        /\ UNCHANGED <<queue, cancelled>> \/ SendRoom(clients, m)
    BY <1>2 DEF EnterRoom
  <2>2. u \in Users /\ StatesIn(Entered(c)) \in StateMaps
    BY <1>0, <2>1, EnteredTypes, StatesInTypes
  <2>3. m \in News
    BY <2>2, MessageTypes, UnsetType
  <2>4. view' \in [Connections -> StateMaps]
    BY <2>1, <2>2 DEF Streams
  <2>5. CASE UNCHANGED <<queue, cancelled>>
    BY <2>1, <2>4, <2>5 DEF Streams
  <2>6. CASE SendRoom(clients, m)
    <3> HIDE DEF m, clients
    <3>1. /\ queue' \in [Connections -> Seq(News)]
          /\ \A d \in Connections : Len(queue'[d]) <= limits.queue
      BY <1>0, <2>3, <2>6, Fits DEF SendRoom, Streams
    <3>2. cancelled' \in [Connections -> BOOLEAN]
      BY <2>6 DEF SendRoom
    <3> QED BY <2>1, <2>4, <3>1, <3>2 DEF Streams
  <2> QED BY <2>1, <2>5, <2>6
<1>3. ASSUME NEW c \in Connections, StartSend(c) PROVE Streams'
  <2>1. queue[c] \in Seq(News) /\ queue[c] # << >> /\ limits' = limits /\ cancelled' = cancelled
    BY <1>3 DEF StartSend, Streams, hub
  <2>2. Head(queue[c]) \in News /\ Tail(queue[c]) \in Seq(News) /\ Len(queue[c]) \in Nat
        /\ Len(Tail(queue[c])) = Len(queue[c]) - 1
    BY <2>1
  <2>3. Told(view[c], Head(queue[c])) \in StateMaps
    BY <2>2, ToldTypes DEF Streams
  <2>4. view' \in [Connections -> StateMaps]
    BY <1>3, <2>3 DEF StartSend, Streams
  <2>5. /\ queue' \in [Connections -> Seq(News)]
        /\ \A d \in Connections : Len(queue'[d]) <= limits.queue
    BY <1>0, <1>3, <2>2 DEF StartSend, Streams
  <2> QED BY <2>1, <2>4, <2>5 DEF Streams
<1>4. ASSUME NEW c \in Connections, RefuseCommand(c) PROVE Streams'
  BY <1>0, <1>4, AnswerFits DEF RefuseCommand, Streams, hub
<1>5. ASSUME NEW c \in Connections, Broadcast(c) PROVE Streams'
  BY <1>0, <1>5, DeliverFits, MessageTypes DEF Broadcast, Streams, hub
<1>6. ASSUME NEW c \in Connections, SetState(c) PROVE Streams'
  <2> DEFINE u == asked[c].user
             states == rooms[roomCell[c]].users[u].states
  <2>1. PICK k \in Keys, v \in Values :
          Deliver(c, Message("user:state", u, [states EXCEPT ![k] = v]))
    BY <1>6 DEF SetState
  <2>2. u \in Users /\ states \in States
    BY <1>0, <1>6, SetStateTypes DEF SetState, Inside
  <2>3. [states EXCEPT ![k] = v] \in States
    BY <2>2 DEF States
  <2>4. Message("user:state", u, [states EXCEPT ![k] = v]) \in News
    BY <2>2, <2>3, MessageTypes
  <2>5. limits' = limits /\ view' = view
    BY <1>6 DEF SetState
  <2> QED BY <1>0, <2>1, <2>4, <2>5, DeliverFits DEF Streams
<1>7. ASSUME NEW c \in Connections, LeaveRoom(c) PROVE Streams'
  <2> DEFINE l == roomCell[c]
             u == rooms[l].clients[c]
             rest == rooms[l].users[u].connections \ {c}
             others == IF rest = {} THEN Members(l) \ {c} ELSE {}
             m == Message("user:quit", u, Unset)
  <2>1. /\ queue' = [d \in Connections |->
             CASE d = c -> << >>
               [] d \in others /\ Len(queue[d]) < limits.queue -> Append(queue[d], m)
               [] OTHER -> queue[d]]
        /\ cancelled' = [d \in Connections |->
             d # c /\ (cancelled[d] \/ (d \in others /\ Len(queue[d]) >= limits.queue))]
    BY <1>7 DEF LeaveRoom
  <2>2. limits' = limits /\ view' = [view EXCEPT ![c] = << >>]
    BY <1>7 DEF LeaveRoom
  <2>3. u \in Users
    <3>1. roomCell[c] \in RoomCells /\ c \in DOMAIN rooms[roomCell[c]].clients
      BY <1>0, <1>7, LabelSets DEF LeaveRoom, Types, Holdings, Cells, Placed, Inside
    <3>2. rooms[roomCell[c]].clients \in ClientMaps
      BY <1>0, <3>1 DEF Types, HubTypes, RoomRows
    <3> QED BY <3>1, <3>2, ClientMapTypes
  <2>4. m \in News
    BY <2>3, MessageTypes, UnsetType
  <2>5. << >> \in StateMaps
    <3>1. << >> \in [{} -> States]
      OBVIOUS
    <3> QED BY <3>1 DEF StateMaps
  <2>9. c \notin others
    OBVIOUS
  <2> HIDE DEF others, m
  <2>6. /\ queue' \in [Connections -> Seq(News)]
        /\ \A d \in Connections : Len(queue'[d]) <= limits.queue
    <3> DEFINE next(d) == CASE d = c -> << >>
                            [] d \in others /\ Len(queue[d]) < limits.queue -> Append(queue[d], m)
                            [] OTHER -> queue[d]
    <3>1. ASSUME NEW d \in Connections PROVE next(d) \in Seq(News) /\ Len(next(d)) <= limits.queue
      <4>1. queue[d] \in Seq(News) /\ Len(queue[d]) <= limits.queue
        BY DEF Streams
      <4>2. CASE d = c
        <5>1. next(d) = << >>
          BY <2>9, <4>2
        <5>2. << >> \in Seq(News) /\ Len(<< >>) = 0
          OBVIOUS
        <5> HIDE DEF next
        <5> QED BY <1>0, <5>1, <5>2
      <4>3. CASE d # c /\ d \in others /\ Len(queue[d]) < limits.queue
        <5>1. next(d) = Append(queue[d], m)
          BY <4>3
        <5> QED BY <1>0, <2>4, <4>1, <4>3, <5>1, Fits
      <4>4. CASE d # c /\ ~(d \in others /\ Len(queue[d]) < limits.queue)
        <5>1. next(d) = queue[d]
          BY <4>4
        <5> QED BY <4>1, <5>1
      <4> QED BY <4>2, <4>3, <4>4
    <3>2. queue' = [d \in Connections |-> next(d)]
      BY <2>1
    <3> HIDE DEF next
    <3> QED BY <3>1, <3>2
  <2>7. view' \in [Connections -> StateMaps]
    BY <2>2, <2>5 DEF Streams
  <2>8. cancelled' \in [Connections -> BOOLEAN]
    BY <2>1
  <2> QED BY <2>2, <2>6, <2>7, <2>8 DEF Streams
<1>8. CASE UNCHANGED vars
  BY <1>1, <1>8 DEF vars, hub
<1>9. ASSUME NEW c \in Connections, Reserve(c) PROVE Streams'
  BY <1>1, <1>9 DEF Reserve
<1>10. ASSUME NEW c \in Connections, LookupRoom(c) \/ TurnAway(c) PROVE Streams'
  BY <1>1, <1>10 DEF LookupRoom, TurnAway, hub
<1>11. ASSUME NEW c \in Connections, FinishSend(c) \/ ObserveCancel(c) \/ Hangup(c) PROVE Streams'
  BY <1>1, <1>11 DEF FinishSend, ObserveCancel, Hangup, hub
<1>12. ASSUME NEW c \in Connections,
              Release(c) \/ GiveBack(c) \/ RemoveEmptyRoom(c) \/ ReleaseRoom(c) \/ RemoveEmptySite(c)
       PROVE  Streams'
  BY <1>1, <1>12 DEF Release, GiveBack, RemoveEmptyRoom, ReleaseRoom, RemoveEmptySite
<1> QED
  BY <1>2, <1>3, <1>4, <1>5, <1>6, <1>7, <1>8, <1>9, <1>10, <1>11, <1>12
  DEF Next, Join, Serve, Leave

\* Every variable keeps its type: in particular no counter goes below zero or
\* past its limit, and no channel holds more than its capacity.
THEOREM TypesHold == Spec => []TypeOK
<1>1. ASSUME RoomsInv, Streams PROVE TypeOK
  <2>0. Types /\ Cells /\ Bounded /\ CountersAreExact
    BY <1>1 DEF RoomsInv
  <2>1. connections \in 0 .. limits.connections
    BY <2>0, LimitTypes, ExactCounters, Cardinals DEF Types, HubTypes, Bounded
  <2>2. siteRooms \in [SiteCells -> [rooms : [Rooms -> Maybe(RoomCells)],
                                     room_count : 0 .. limits.rooms, connections : 0 .. limits.perSite]]
    <3>1. \A h \in SiteCells : /\ siteRooms[h].connections \in 0 .. limits.perSite
                               /\ siteRooms[h].room_count \in 0 .. limits.rooms
      BY <2>0, LimitTypes, ExactCounters, Cardinals DEF Types, HubTypes, Bounded
    <3> QED BY <2>0, <3>1 DEF Types, HubTypes, SiteRows
  <2>3. \A l \in RoomCells :
          /\ IsMap(rooms[l].users, Users, Entries)
          /\ IsMap(rooms[l].clients, Connections, Users)
          /\ rooms[l].closed \in BOOLEAN
    <3> TAKE l \in RoomCells
    <3>1. rooms[l] \in RoomRows
      BY <2>0 DEF Types, HubTypes
    <3>2. \A S, T, f : f \in UNION {[U -> T] : U \in SUBSET S} => IsMap(f, S, T)
      BY DEF IsMap
    <3> QED BY <3>1, <3>2 DEF RoomRows, UserMaps, ClientMaps
  <2>4. \A c \in Connections :
          /\ queue[c] \in Seq(Messages) /\ Len(queue[c]) <= limits.queue
          /\ IsMap(view[c], Users, States)
    <3> TAKE c \in Connections
    <3>1. view[c] \in StateMaps /\ queue[c] \in Seq(News) /\ Len(queue[c]) <= limits.queue
      BY <1>1 DEF Streams
    <3>2. News \subseteq Messages
      BY DEF News
    <3>3. queue[c] \in Seq(Messages)
      BY <3>1, <3>2
    <3> QED BY <3>1, <3>3, StateMapTypes DEF IsMap
  <2> QED BY <1>1, <2>0, <2>1, <2>2, <2>3, <2>4 DEF TypeOK, Types, HubTypes, TaskTypes, Streams
<1>2. Init => RoomsInv /\ Streams
  BY InitRooms, InitStreams
<1>3. RoomsInv /\ Streams /\ [Next]_vars => (RoomsInv /\ Streams)'
  BY NextRooms, NextStreams
<1> QED BY <1>1, <1>2, <1>3, PTL DEF Spec

-----------------------------------------------------------------------------
(***************************************************************************)
(* The views.  What is on its way to a client agrees with its room; a      *)
(* channel is empty and its client not found slow while it is in no room.  *)
(***************************************************************************)
NewsOf(q, u) == {i \in DOMAIN q : q[i].user = u}
Follows(users, known, q) ==
  \A u \in Users :
    /\ NewsOf(q, u) = {} => Knows(users, known, u)
    /\ \A i \in NewsOf(q, u) : (\A j \in NewsOf(q, u) : j <= i) => Says(users, q[i])
Listens(c) == pc[c] \in {"open", "send"} /\ ~cancelled[c]
Views == \A c \in Connections : Listens(c) => Follows(rooms[roomCell[c]].users, view[c], queue[c])
Quiet == \A c \in Connections : pc[c] \notin Inside => queue[c] = << >> /\ ~cancelled[c]

\* Two maps of users have the same of S, with the same states.
SameStates(S, users, others) ==
  \A w \in S : /\ w \in DOMAIN others <=> w \in DOMAIN users
               /\ w \in DOMAIN users => others[w].states = users[w].states

LEMMA ViewsFollow == Views => ViewsFollowRooms
  BY DEF Views, ViewsFollowRooms, Follows, Listens, NewsOf

LEMMA AppendedNews ==
  ASSUME NEW q \in Seq(News), NEW m \in News, NEW u \in Users
  PROVE  /\ NewsOf(Append(q, m), u) =
              IF m.user = u THEN NewsOf(q, u) \cup {Len(q) + 1} ELSE NewsOf(q, u)
         /\ \A i \in NewsOf(q, u) : i <= Len(q) /\ Append(q, m)[i] = q[i]
         /\ Append(q, m)[Len(q) + 1] = m
<1> DEFINE n == Len(q)
           p == Append(q, m)
<1>1. /\ n \in Nat /\ DOMAIN q = 1 .. n /\ DOMAIN p = 1 .. n + 1
      /\ p[n + 1] = m /\ \A i \in 1 .. n : p[i] = q[i]
  OBVIOUS
<1> HIDE DEF n, p
<1>2. 1 .. n + 1 = 1 .. n \cup {n + 1}
  BY <1>1
<1>3. NewsOf(p, u) = IF m.user = u THEN NewsOf(q, u) \cup {n + 1} ELSE NewsOf(q, u)
  BY <1>1, <1>2 DEF NewsOf
<1>4. \A i \in NewsOf(q, u) : i <= n /\ p[i] = q[i]
  BY <1>1 DEF NewsOf
<1> QED BY <1>1, <1>3, <1>4 DEF n, p

LEMMA OtherNewsFollow ==
  ASSUME NEW users, NEW known, NEW q \in Seq(News), NEW m \in News, m.user \notin Users,
         Follows(users, known, q)
  PROVE  Follows(users, known, Append(q, m))
<1> DEFINE p == Append(q, m)
<1> SUFFICES ASSUME NEW u \in Users
             PROVE  /\ NewsOf(p, u) = {} => Knows(users, known, u)
                    /\ \A i \in NewsOf(p, u) : (\A j \in NewsOf(p, u) : j <= i) => Says(users, p[i])
  BY DEF Follows
<1>1. /\ NewsOf(p, u) = IF m.user = u THEN NewsOf(q, u) \cup {Len(q) + 1} ELSE NewsOf(q, u)
      /\ \A i \in NewsOf(q, u) : i <= Len(q) /\ p[i] = q[i]
      /\ p[Len(q) + 1] = m
  BY ONLY AppendedNews, q \in Seq(News), m \in News, u \in Users
<1> HIDE DEF p
<1>2. NewsOf(p, u) = NewsOf(q, u) /\ \A i \in NewsOf(q, u) : p[i] = q[i]
  BY <1>1
<1> QED BY <1>2 DEF Follows

LEMMA NoticeIsNoNews ==
  ASSUME NEW users, NEW known, NEW q \in Seq(News), Follows(users, known, q)
  PROVE  Follows(users, known, Append(q, Notice))
<1>1. Notice \in News /\ Notice.user \notin Users
  BY MessageTypes, NoneAssumption DEF Notice, Message
<1> QED BY ONLY <1>1, OtherNewsFollow, q \in Seq(News), Follows(users, known, q)

\* The last message about a user decides.
LEMMA NewsFollow ==
  ASSUME NEW users, NEW others, NEW known, NEW q \in Seq(News), NEW m \in News, m.user \in Users,
         Follows(users, known, q), Says(others, m), SameStates(Users \ {m.user}, users, others)
  PROVE  Follows(others, known, Append(q, m))
<1> DEFINE p == Append(q, m)
<1> SUFFICES ASSUME NEW u \in Users
             PROVE  /\ NewsOf(p, u) = {} => Knows(others, known, u)
                    /\ \A i \in NewsOf(p, u) : (\A j \in NewsOf(p, u) : j <= i) => Says(others, p[i])
  BY DEF Follows
<1>3. /\ NewsOf(p, u) = IF m.user = u THEN NewsOf(q, u) \cup {Len(q) + 1} ELSE NewsOf(q, u)
      /\ \A i \in NewsOf(q, u) : i <= Len(q) /\ p[i] = q[i]
      /\ p[Len(q) + 1] = m
  BY ONLY AppendedNews, q \in Seq(News), m \in News, u \in Users
<1>4. Len(q) \in Nat /\ \A i \in NewsOf(q, u) : i \in Nat
  BY DEF NewsOf
<1> HIDE DEF p
<1>1. CASE m.user = u
  <2>1. ASSUME NEW i \in NewsOf(p, u), \A j \in NewsOf(p, u) : j <= i
        PROVE  i = Len(q) + 1
    BY <1>1, <1>3, <1>4, <2>1
  <2> QED BY <1>1, <1>3, <2>1
<1>2. CASE m.user # u
  <2>1. NewsOf(p, u) = NewsOf(q, u)
    BY <1>2, <1>3
  <2>2. Knows(users, known, u) => Knows(others, known, u)
    BY <1>2 DEF Knows, SameStates
  <2>3. \A i \in NewsOf(q, u) : p[i] = q[i] /\ q[i].user = u
    BY <1>3 DEF NewsOf
  <2>4. \A i \in NewsOf(q, u) : Says(users, q[i]) => Says(others, q[i])
    BY <1>2, <2>3 DEF Says, SameStates
  <2> QED BY <2>1, <2>2, <2>3, <2>4 DEF Follows
<1> QED BY <1>1, <1>2

LEMMA SameFollow ==
  ASSUME NEW users, NEW others, NEW known, NEW q,
         Follows(users, known, q), SameStates(Users, users, others)
  PROVE  Follows(others, known, q)
<1> SUFFICES ASSUME NEW u \in Users
             PROVE  /\ NewsOf(q, u) = {} => Knows(others, known, u)
                    /\ \A i \in NewsOf(q, u) : (\A j \in NewsOf(q, u) : j <= i) => Says(others, q[i])
  BY DEF Follows
<1>1. Knows(users, known, u) => Knows(others, known, u)
  BY DEF Knows, SameStates
<1>2. \A i \in NewsOf(q, u) : Says(users, q[i]) => Says(others, q[i])
  BY DEF Says, SameStates, NewsOf
<1> QED BY <1>1, <1>2 DEF Follows

LEMMA WelcomeFollows ==
  ASSUME NEW users
  PROVE  Follows(users, StatesIn(users), << >>)
<1>1. \A u \in Users : NewsOf(<< >>, u) = {}
  BY DEF NewsOf
<1> QED BY <1>1 DEF Follows, Knows, StatesIn

\* To read the first message is to know what it says.
LEMMA ReadingFollows ==
  ASSUME NEW users, NEW known \in StateMaps, NEW q \in Seq(News), q # << >>, Follows(users, known, q)
  PROVE  Follows(users, Told(known, Head(q)), Tail(q))
<1> DEFINE n == Len(q)
           m == Head(q)
           p == Tail(q)
<1>1. /\ n \in Nat \ {0} /\ DOMAIN q = 1 .. n /\ DOMAIN p = 1 .. n - 1
      /\ m = q[1] /\ m \in News /\ \A i \in 1 .. n - 1 : p[i] = q[i + 1]
  OBVIOUS
<1> HIDE DEF n, m, p
<1> SUFFICES ASSUME NEW u \in Users
             PROVE  /\ NewsOf(p, u) = {} => Knows(users, Told(known, m), u)
                    /\ \A i \in NewsOf(p, u) : (\A j \in NewsOf(p, u) : j <= i) => Says(users, p[i])
  BY DEF Follows, m, p
<1>2. ASSUME NEW i \in NewsOf(p, u), \A j \in NewsOf(p, u) : j <= i
      PROVE  Says(users, p[i])
  <2>1. i \in 1 .. n - 1 /\ p[i] = q[i + 1] /\ i + 1 \in 1 .. n
    BY <1>1, <1>2 DEF NewsOf
  <2>2. i + 1 \in NewsOf(q, u)
    BY <1>1, <1>2, <2>1 DEF NewsOf
  <2>3. ASSUME NEW j \in NewsOf(q, u) PROVE j <= i + 1
    <3>1. j \in 1 .. n /\ q[j].user = u
      BY <1>1 DEF NewsOf
    <3>2. CASE j = 1
      BY <2>1, <3>2
    <3>3. CASE j # 1
      <4>1. j - 1 \in 1 .. n - 1 /\ (j - 1) + 1 = j
        BY <1>1, <3>1, <3>3
      <4>2. j - 1 \in NewsOf(p, u)
        BY <1>1, <3>1, <4>1 DEF NewsOf
      <4>3. j - 1 <= i
        BY <1>2, <4>2
      <4> QED BY <2>1, <3>1, <4>3
    <3> QED BY <3>2, <3>3
  <2> QED BY <2>1, <2>2, <2>3 DEF Follows
<1>3. ASSUME NewsOf(p, u) = {} PROVE Knows(users, Told(known, m), u)
  <2>1. ASSUME NEW j \in NewsOf(q, u) PROVE j = 1
    <3>1. j \in 1 .. n /\ q[j].user = u
      BY <1>1 DEF NewsOf
    <3>2. CASE j # 1
      <4>1. j - 1 \in 1 .. n - 1 /\ (j - 1) + 1 = j
        BY <1>1, <3>1, <3>2
      <4>2. j - 1 \in NewsOf(p, u)
        BY <1>1, <3>1, <4>1 DEF NewsOf
      <4> QED BY <1>3, <4>2
    <3> QED BY <3>2
  <2>2. CASE m.user = u
    <3>1. 1 \in NewsOf(q, u)
      BY <1>1, <2>2 DEF NewsOf
    <3>2. Says(users, m)
      BY <1>1, <2>1, <3>1 DEF Follows
    <3>3. m.type \in {"user:join", "user:quit", "user:state", "notice"}
      BY <1>1 DEF News, Messages
    <3>4. m.type # "notice"
      BY <1>1, <2>2, NoneAssumption DEF News
    <3> QED BY <2>2, <3>2, <3>3, <3>4 DEF Says, Knows, Told, With, Without
  <2>3. CASE m.user # u
    <3>1. NewsOf(q, u) = {}
      BY <1>1, <2>1, <2>3 DEF NewsOf
    <3>2. Knows(users, known, u)
      BY <3>1 DEF Follows
    <3> QED BY <2>3, <3>2 DEF Knows, Told, With, Without
  <2> QED BY <2>2, <2>3
<1> QED BY <1>2, <1>3

-----------------------------------------------------------------------------
(* What entering, setting a state and leaving do to the users of a room *)

LEMMA EnterUsers ==
  ASSUME Types, NEW c \in Connections, EnterRoom(c)
  PROVE  LET u == asked[c].user
             here == rooms[roomCell[c]].users
             there == rooms'[roomCell[c]].users
         IN /\ here \in UserMaps /\ there = Entered(c) /\ there \in UserMaps
            /\ DOMAIN there = DOMAIN here \cup {u}
            /\ \A w \in DOMAIN here : there[w].states = here[w].states
            /\ \A w \in DOMAIN here \ {u} : there[w] = here[w]
            /\ u \in DOMAIN here => there[u].connections = here[u].connections \cup {c}
            /\ u \notin DOMAIN here => there[u] = [connections |-> {c}, states |-> Unset]
<1> DEFINE l == roomCell[c]
           u == asked[c].user
           here == rooms[l].users
           there == rooms'[l].users
<1>1. /\ pc[c] = "enter" /\ l \in RoomCells /\ u \in Users
      /\ rooms' \in [RoomCells -> RoomRows]
  BY EnterEffect
<1>2. here \in UserMaps /\ DOMAIN here \subseteq Users /\ here \in [DOMAIN here -> Entries]
  BY <1>1, UserMapTypes DEF Types, HubTypes, RoomRows, UserMaps
<1>3. /\ Entered(c) \in UserMaps /\ DOMAIN Entered(c) = DOMAIN here \cup {u}
  BY <1>1, EnteredTypes
<1>4. there = Entered(c)
  BY <1>1 DEF EnterRoom, Types, HubTypes, RoomRows
<1>5. CASE u \in DOMAIN here
  <2>1. there = [here EXCEPT ![u].connections = @ \cup {c}]
    BY <1>4, <1>5 DEF Entered
  <2>2. here[u] \in Entries
    BY <1>2, <1>5
  <2>3. there[u].states = here[u].states /\ there[u].connections = here[u].connections \cup {c}
    BY <1>5, <2>1, <2>2 DEF Entries
  <2>4. \A w \in DOMAIN here \ {u} : there[w] = here[w]
    BY <2>1
  <2> HIDE DEF there, here, u
  <2> QED BY <1>2, <1>3, <1>4, <1>5, <2>3, <2>4 DEF there, here, u
<1>6. CASE u \notin DOMAIN here
  <2>1. there = With(here, u, [connections |-> {c}, states |-> Unset])
    BY <1>4, <1>6 DEF Entered
  <2>2. there[u] = [connections |-> {c}, states |-> Unset] /\ \A w \in DOMAIN here : there[w] = here[w]
    BY <1>6, <2>1 DEF With
  <2> QED BY <1>2, <1>3, <1>4, <1>6, <2>2
<1> QED BY <1>5, <1>6

LEMMA SetStateUsers ==
  ASSUME Types, Cells, NEW c \in Connections, pc[c] \in Inside, NEW k \in Keys, NEW v \in Values,
         rooms' = [rooms EXCEPT ![roomCell[c]].users[asked[c].user].states[k] = v]
  PROVE  LET u == asked[c].user
             here == rooms[roomCell[c]].users
             there == rooms'[roomCell[c]].users
         IN /\ u \in DOMAIN here /\ DOMAIN there = DOMAIN here
            /\ there[u].states = [here[u].states EXCEPT ![k] = v]
            /\ there[u].connections = here[u].connections
            /\ \A w \in DOMAIN here \ {u} : there[w] = here[w]
            /\ rooms'[roomCell[c]].clients = rooms[roomCell[c]].clients
            /\ \A m \in RoomCells \ {roomCell[c]} : rooms'[m] = rooms[m]
<1> DEFINE l == roomCell[c]
           u == asked[c].user
           here == rooms[l].users
           there == [here EXCEPT ![u].states[k] = v]
<1>1. /\ l \in RoomCells /\ u \in DOMAIN here /\ here \in UserMaps
      /\ here[u] \in Entries /\ here[u].states \in States
  BY SetStateTypes
<1>2. here \in [DOMAIN here -> Entries]
  BY <1>1 DEF UserMaps
<1>3. rooms' = [rooms EXCEPT ![l] = [rooms[l] EXCEPT !.users = there]]
  OBVIOUS
<1>4. rooms[l] \in RoomRows /\ rooms \in [RoomCells -> RoomRows]
  BY <1>1 DEF Types, HubTypes
<1>5. /\ DOMAIN there = DOMAIN here /\ \A w \in DOMAIN here \ {u} : there[w] = here[w]
      /\ there[u] = [here[u] EXCEPT !.states = [here[u].states EXCEPT ![k] = v]]
  BY <1>1, <1>2
<1>6. /\ there[u].states = [here[u].states EXCEPT ![k] = v]
      /\ there[u].connections = here[u].connections
  BY <1>1, <1>5 DEF Entries
<1> HIDE DEF there
<1>7. /\ rooms'[l].users = there /\ rooms'[l].clients = rooms[l].clients
      /\ \A m \in RoomCells \ {l} : rooms'[m] = rooms[m]
  <2> DEFINE row == [rooms[l] EXCEPT !.users = there]
  <2>1. row.users = there /\ row.clients = rooms[l].clients
    BY <1>4 DEF RoomRows
  <2>2. rooms' = [rooms EXCEPT ![l] = row]
    BY <1>3
  <2> HIDE DEF row
  <2>3. rooms'[l] = row /\ \A m \in RoomCells \ {l} : rooms'[m] = rooms[m]
    BY ONLY <1>1, <1>4, <2>2
  <2> QED BY <2>1, <2>3
<1> QED BY <1>1, <1>5, <1>6, <1>7

LEMMA LeaveUsers ==
  ASSUME Types, Cells, NEW c \in Connections, LeaveRoom(c)
  PROVE  LET u == asked[c].user
             here == rooms[roomCell[c]].users
             there == rooms'[roomCell[c]].users
             rest == here[u].connections \ {c}
         IN /\ rooms[roomCell[c]].clients[c] = u /\ u \in DOMAIN here /\ u \in Users
            /\ here \in UserMaps
            /\ DOMAIN there = IF rest = {} THEN DOMAIN here \ {u} ELSE DOMAIN here
            /\ \A w \in DOMAIN here \ {u} : there[w] = here[w]
            /\ rest # {} => there[u].connections = rest /\ there[u].states = here[u].states
<1> DEFINE l == roomCell[c]
           u == asked[c].user
           here == rooms[l].users
           rest == here[u].connections \ {c}
           there == IF rest = {} THEN Without(here, u) ELSE [here EXCEPT ![u].connections = rest]
<1>1. pc[c] = "leave" /\ l \in RoomCells /\ c \in DOMAIN rooms[l].clients
  BY LabelSets DEF LeaveRoom, Types, Holdings, Cells, Placed, HoldsRoom, Inside
<1>2. rooms[l].clients[c] = u /\ u \in DOMAIN here
  BY <1>1 DEF Cells, Seated
<1>3. here \in UserMaps /\ rooms[l] \in RoomRows /\ rooms \in [RoomCells -> RoomRows]
  BY <1>1 DEF Types, HubTypes, RoomRows
<1>4. here[u] \in Entries /\ here \in [DOMAIN here -> Entries] /\ u \in Users
  BY <1>2, <1>3, UserMapTypes DEF UserMaps
<1>5. rooms' = [rooms EXCEPT ![l].clients = Without(@, c),
                             ![l].users = IF rest = {} THEN Without(@, u)
                                          ELSE [@ EXCEPT ![u].connections = rest]]
  BY <1>2 DEF LeaveRoom
<1>6. rooms'[l].users = there
  BY <1>1, <1>3, <1>5 DEF RoomRows
<1>7. rest = {} => DOMAIN there = DOMAIN here \ {u} /\ \A w \in DOMAIN here \ {u} : there[w] = here[w]
  BY DEF Without
<1>8. rest # {} => /\ DOMAIN there = DOMAIN here /\ \A w \in DOMAIN here \ {u} : there[w] = here[w]
                   /\ there[u] = [here[u] EXCEPT !.connections = rest]
  BY <1>2, <1>4
<1>9. rest # {} => there[u].connections = rest /\ there[u].states = here[u].states
  <2>1. \A e \in Entries : LET f == [e EXCEPT !.connections = rest]
                            IN  f.connections = rest /\ f.states = e.states
    BY DEF Entries
  <2> HIDE DEF there, here, rest
  <2> QED BY <1>4, <1>8, <2>1
<1> HIDE DEF there, rest
<1>10. /\ DOMAIN there = IF rest = {} THEN DOMAIN here \ {u} ELSE DOMAIN here
       /\ \A w \in DOMAIN here \ {u} : there[w] = here[w]
  BY <1>7, <1>8
<1> QED BY <1>2, <1>3, <1>4, <1>6, <1>9, <1>10 DEF rest

LEMMA Insiders ==
  ASSUME Types, Cells, NEW d \in Connections
  PROVE  /\ pc[d] \in Inside => roomCell[d] \in RoomCells /\ d \in Members(roomCell[d])
         /\ \A l \in RoomCells : d \in Members(l) => pc[d] \in Inside /\ roomCell[d] = l
  BY LabelSets DEF Types, Holdings, Cells, Placed, Seated, Members

-----------------------------------------------------------------------------
(* The steps that tell the others *)

LEMMA ViewsNext ==
  ASSUME \A d \in Connections : Listens(d)' =>
           Follows(rooms'[roomCell'[d]].users, view'[d], queue'[d])
  PROVE  Views'
  BY DEF Views, Follows, NewsOf, Knows, Says

LEMMA InitViews == Init => Views /\ Quiet
  BY DEF Init, Views, Quiet, Listens

LEMMA EnterRoomViews ==
  ASSUME RoomsInv, Streams, Views, Quiet, NEW c \in Connections, EnterRoom(c)
  PROVE  Views' /\ Quiet'
<1> DEFINE l == roomCell[c]
           u == asked[c].user
           here == rooms[l].users
           there == rooms'[l].users
           m == Message("user:join", u, Unset)
<1>1. Types /\ Cells
  BY DEF RoomsInv
<1>2. /\ pc[c] = "enter" /\ Move(c, "send") /\ l \in RoomCells /\ u \in Users
      /\ roomCell' = roomCell /\ \A n \in RoomCells \ {l} : rooms'[n] = rooms[n]
  BY <1>1, EnterEffect DEF tasks
<1>3. /\ pc'[c] = "send" /\ \A d \in Connections \ {c} : pc'[d] = pc[d]
  BY <1>1, <1>2, StaysTyped DEF Types, Labels, HoldsConnection, HoldsSite, Inside
<1>4. c \notin Members(l) /\ "send" \in Inside /\ pc[c] \notin Inside
  BY <1>1, <1>2, Insiders DEF Inside
<1>5. /\ here \in UserMaps /\ there = Entered(c)
      /\ DOMAIN there = DOMAIN here \cup {u}
      /\ \A w \in DOMAIN here : there[w].states = here[w].states
      /\ u \notin DOMAIN here => there[u] = [connections |-> {c}, states |-> Unset]
  BY <1>1, EnterUsers
<1>6. /\ view' = [view EXCEPT ![c] = StatesIn(Entered(c))]
      /\ IF u \in DOMAIN here THEN UNCHANGED <<queue, cancelled>> ELSE SendRoom(Members(l), m)
  BY DEF EnterRoom
<1>7. /\ view'[c] = StatesIn(there) /\ \A d \in Connections \ {c} : view'[d] = view[d]
  BY <1>5, <1>6 DEF Streams
<1>8. m \in News /\ m.type = "user:join" /\ m.user = u /\ m.states = Unset
  BY <1>2, MessageTypes, UnsetType DEF Message
<1>9. ASSUME NEW d \in Connections
      PROVE  \/ queue'[d] = queue[d] /\ cancelled'[d] = cancelled[d]
                /\ (d \in Members(l) => u \in DOMAIN here)
             \/ /\ d \in Members(l) /\ u \notin DOMAIN here
                /\ cancelled'[d] \/ (queue'[d] = Append(queue[d], m) /\ cancelled'[d] = cancelled[d])
  <2> HIDE DEF m
  <2>1. cancelled[d] \in BOOLEAN /\ Len(queue[d]) \in Nat /\ limits.queue \in Nat
    BY <1>1, LimitTypes DEF Streams, Types, HubTypes
  <2>2. CASE u \in DOMAIN here
    BY <1>6, <2>2
  <2>3. CASE u \notin DOMAIN here
    <3>1. /\ queue'[d] = IF d \in Members(l) /\ Len(queue[d]) < limits.queue
                         THEN Append(queue[d], m) ELSE queue[d]
          /\ cancelled'[d] = (cancelled[d] \/ (d \in Members(l) /\ Len(queue[d]) >= limits.queue))
      BY <1>6, <2>3 DEF SendRoom
    <3>2. CASE d \in Members(l) /\ Len(queue[d]) < limits.queue
      BY <2>1, <2>3, <3>1, <3>2
    <3>3. CASE d \in Members(l) /\ ~(Len(queue[d]) < limits.queue)
      <4>1. Len(queue[d]) >= limits.queue
        BY <2>1, <3>3
      <4>2. cancelled'[d]
        BY <3>1, <3>3, <4>1
      <4> QED BY <2>3, <3>3, <4>2
    <3>4. CASE d \notin Members(l)
      BY <2>1, <2>3, <3>1, <3>4
    <3> QED BY <3>2, <3>3, <3>4
  <2> QED BY <2>2, <2>3
<1> HIDE DEF m, there, here
<1>10. Quiet'
  <2> SUFFICES ASSUME NEW d \in Connections, pc'[d] \notin Inside
               PROVE  queue'[d] = << >> /\ ~cancelled'[d]
    BY DEF Quiet
  <2>1. d # c /\ pc[d] \notin Inside
    BY <1>3, <1>4
  <2>2. d \notin Members(l)
    BY <1>1, <1>2, <2>1, Insiders
  <2> QED BY <1>9, <2>1, <2>2 DEF Quiet
<1>11. Views'
  <2> SUFFICES ASSUME NEW d \in Connections, pc'[d] \in {"open", "send"}, ~cancelled'[d]
               PROVE  Follows(rooms'[roomCell[d]].users, view'[d], queue'[d])
    BY <1>2, ViewsNext DEF Listens
  <2>1. CASE d = c
    <3>1. queue'[c] = << >>
      BY <1>4, <1>9 DEF Quiet
    <3> QED BY <1>7, <2>1, <3>1, WelcomeFollows DEF there
  <2>2. CASE d # c
    <3>1. pc[d] \in {"open", "send"} /\ view'[d] = view[d] /\ roomCell[d] \in RoomCells
          /\ d \in Members(roomCell[d])
      BY <1>1, <1>3, <1>7, <2>2, Insiders DEF Inside
    <3>2. ~cancelled[d]
      BY <1>9
    <3>3. Follows(rooms[roomCell[d]].users, view[d], queue[d]) /\ queue[d] \in Seq(News)
      BY <3>1, <3>2 DEF Views, Listens, Streams
    <3>4. CASE roomCell[d] # l
      <4>1. d \notin Members(l)
        BY <1>1, <1>2, <3>4, Insiders
      <4> QED BY <1>2, <1>9, <3>1, <3>3, <3>4, <4>1
    <3>5. CASE roomCell[d] = l /\ u \in DOMAIN here
      <4>1. SameStates(Users, here, there)
        BY <1>5, <3>5 DEF SameStates
      <4>2. queue'[d] = queue[d]
        BY <1>9, <3>5
      <4>3. Follows(here, view[d], queue[d])
        BY <3>3, <3>5 DEF here
      <4>4. Follows(there, view[d], queue[d])
        BY ONLY <4>1, <4>3, SameFollow
      <4> QED BY <3>1, <3>5, <4>2, <4>4 DEF there
    <3>6. CASE roomCell[d] = l /\ u \notin DOMAIN here
      <4>1. SameStates(Users \ {m.user}, here, there) /\ Says(there, m)
        BY <1>5, <1>8, <3>6 DEF SameStates, Says
      <4>2. queue'[d] = Append(queue[d], m)
        BY <1>9, <3>1, <3>6
      <4>3. Follows(here, view[d], queue[d])
        BY <3>3, <3>6 DEF here
      <4>4. m \in News /\ m.user \in Users
        BY <1>2, <1>8
      <4>5. Follows(there, view[d], Append(queue[d], m))
        BY ONLY <3>3, <4>1, <4>3, <4>4, NewsFollow
      <4> QED BY <3>1, <3>6, <4>2, <4>5 DEF there
    <3> QED BY <3>4, <3>5, <3>6
  <2> QED BY <2>1, <2>2
<1> QED BY <1>10, <1>11

\* Everybody in the room is sent the message or found slow; the answer to the
\* sender comes after it.
LEMMA DeliverEffect ==
  ASSUME limits.queue \in Nat, Streams, NEW c \in Connections, NEW m \in News, Deliver(c, m),
         NEW d \in Connections
  PROVE  /\ d \notin Members(roomCell[c]) /\ d # c => queue'[d] = queue[d] /\ cancelled'[d] = cancelled[d]
         /\ d \in Members(roomCell[c]) =>
              \/ cancelled'[d]
              \/ /\ cancelled'[d] = cancelled[d]
                 /\ queue'[d] \in {Append(queue[d], m), Append(Append(queue[d], m), Notice)}
<1> DEFINE l == roomCell[c]
           full == {e \in Members(l) : Len(queue[e]) >= limits.queue}
           sent == [e \in Connections |->
                      IF e \in Members(l) \ full THEN Append(queue[e], m) ELSE queue[e]]
<1>1. /\ cancelled' = [e \in Connections |-> cancelled[e] \/ e \in full]
      /\ Answer(c, sent)
  BY DEF Deliver
<1>2. cancelled'[d] = (cancelled[d] \/ d \in full) /\ cancelled[d] \in BOOLEAN
  BY <1>1 DEF Streams
<1>3. sent[d] = IF d \in Members(l) \ full THEN Append(queue[d], m) ELSE queue[d]
  OBVIOUS
<1>4. DOMAIN sent = Connections
  OBVIOUS
<1> HIDE DEF sent
<1>5. queue' = sent \/ queue' = [sent EXCEPT ![c] = Append(sent[c], Notice)]
  BY <1>1 DEF Answer
<1>6. queue'[d] = sent[d] \/ (d = c /\ queue'[d] = Append(sent[d], Notice))
  BY <1>4, <1>5
<1>7. d \in full => d \in Members(l)
  OBVIOUS
<1> HIDE DEF full
<1>8. CASE d \in full
  BY <1>2, <1>7, <1>8
<1>9. CASE d \in Members(l) \ full
  BY <1>2, <1>3, <1>6, <1>9
<1>10. CASE d \notin Members(l)
  BY <1>2, <1>3, <1>6, <1>7, <1>10
<1> QED BY <1>8, <1>9, <1>10

LEMMA TellsRoom ==
  ASSUME RoomsInv, Streams, Views, Quiet, NEW c \in Connections, NEW m \in News,
         pc[c] = "open", Talks(c), Deliver(c, m), UNCHANGED view,
         \A n \in RoomCells \ {roomCell[c]} : rooms'[n] = rooms[n],
         \A known \in StateMaps, q \in Seq(News) :
           Follows(rooms[roomCell[c]].users, known, q)
             => Follows(rooms'[roomCell[c]].users, known, Append(q, m))
  PROVE  Views' /\ Quiet'
<1> DEFINE l == roomCell[c]
<1>1. Types /\ Cells /\ limits.queue \in Nat
  BY LimitTypes DEF RoomsInv, Types, HubTypes
<1>2. /\ roomCell' = roomCell /\ pc[c] \in Inside /\ pc'[c] \in Inside
      /\ \A d \in Connections \ {c} : pc'[d] = pc[d]
  BY <1>1, StaysTyped, LabelSets DEF Talks, tasks, Types
<1>3. l \in RoomCells /\ c \in Members(l)
  BY <1>1, <1>2, Insiders
<1>4. \A d \in Connections :
         /\ d \notin Members(l) => queue'[d] = queue[d] /\ cancelled'[d] = cancelled[d]
         /\ d \in Members(l) =>
              \/ cancelled'[d]
              \/ /\ cancelled'[d] = cancelled[d]
                 /\ queue'[d] \in {Append(queue[d], m), Append(Append(queue[d], m), Notice)}
  BY <1>1, <1>3, DeliverEffect
<1>5. Quiet'
  <2> SUFFICES ASSUME NEW d \in Connections, pc'[d] \notin Inside
               PROVE  queue'[d] = << >> /\ ~cancelled'[d]
    BY DEF Quiet
  <2>1. d # c /\ pc[d] \notin Inside
    BY <1>2
  <2>2. d \notin Members(l)
    BY <1>1, <1>3, <2>1, Insiders
  <2> QED BY <1>4, <2>1, <2>2 DEF Quiet
<1>6. Views'
  <2> SUFFICES ASSUME NEW d \in Connections, pc'[d] \in {"open", "send"}, ~cancelled'[d]
               PROVE  Follows(rooms'[roomCell[d]].users, view[d], queue'[d])
    BY <1>2, ViewsNext DEF Listens
  <2>0. view' = view
    OBVIOUS
  <2>1. pc[d] \in Inside /\ roomCell[d] \in RoomCells /\ d \in Members(roomCell[d])
    BY <1>1, <1>2, Insiders DEF Inside
  <2>2. queue[d] \in Seq(News) /\ view[d] \in StateMaps
    BY DEF Streams
  <2>3. CASE roomCell[d] # l
    <3>1. d \notin Members(l)
      BY <1>1, <1>3, <2>3, Insiders
    <3>2. queue'[d] = queue[d] /\ ~cancelled[d] /\ rooms'[roomCell[d]] = rooms[roomCell[d]]
      BY <1>4, <2>1, <2>3, <3>1
    <3>3. pc[d] \in {"open", "send"}
      BY <1>2, <1>3, <3>1
    <3> QED BY <3>2, <3>3 DEF Views, Listens
  <2>4. CASE roomCell[d] = l
    <3>1. /\ ~cancelled[d]
          /\ queue'[d] \in {Append(queue[d], m), Append(Append(queue[d], m), Notice)}
      BY <1>4, <2>1, <2>4
    <3>2. pc[d] \in {"open", "send"}
      BY <1>2
    <3>3. Follows(rooms[l].users, view[d], queue[d])
      BY <2>4, <3>1, <3>2 DEF Views, Listens
    <3>4. Follows(rooms'[l].users, view[d], Append(queue[d], m))
      BY <2>2, <3>3
    <3>5. Append(queue[d], m) \in Seq(News)
      BY <2>2
    <3>6. Follows(rooms'[l].users, view[d], Append(Append(queue[d], m), Notice))
      BY ONLY <3>4, <3>5, NoticeIsNoNews
    <3> QED BY <2>4, <3>1, <3>4, <3>6
  <2> QED BY <2>3, <2>4
<1> QED BY <1>5, <1>6

LEMMA BroadcastViews ==
  ASSUME RoomsInv, Streams, Views, Quiet, NEW c \in Connections, Broadcast(c)
  PROVE  Views' /\ Quiet'
<1>1. Types /\ Cells
  BY DEF RoomsInv
<1>2. Talks(c)
  BY <1>1, ServeTalks DEF Serve
<1>3. pc[c] = "open" /\ Deliver(c, Notice) /\ UNCHANGED view /\ rooms' = rooms
  BY DEF Broadcast, hub
<1>4. Notice \in News
  BY MessageTypes
<1>5. \A known \in StateMaps, q \in Seq(News) :
        Follows(rooms[roomCell[c]].users, known, q)
          => Follows(rooms[roomCell[c]].users, known, Append(q, Notice))
  BY NoticeIsNoNews
<1>6. /\ \A n \in RoomCells \ {roomCell[c]} : rooms'[n] = rooms[n]
      /\ \A known \in StateMaps, q \in Seq(News) :
           Follows(rooms[roomCell[c]].users, known, q)
             => Follows(rooms'[roomCell[c]].users, known, Append(q, Notice))
  BY <1>3, <1>5
<1> QED BY ONLY RoomsInv, Streams, Views, Quiet, c \in Connections, <1>2, <1>3, <1>4, <1>6, TellsRoom

LEMMA SetStateViews ==
  ASSUME RoomsInv, Streams, Views, Quiet, NEW c \in Connections, SetState(c)
  PROVE  Views' /\ Quiet'
<1> DEFINE l == roomCell[c]
           u == asked[c].user
           here == rooms[l].users
           there == rooms'[l].users
<1>1. Types /\ Cells
  BY DEF RoomsInv
<1>2. Talks(c)
  BY <1>1, ServeTalks DEF Serve
<1>3. pc[c] = "open" /\ UNCHANGED view
  BY DEF SetState
<1>4. PICK k \in Keys, v \in Values :
        /\ rooms' = [rooms EXCEPT ![l].users[u].states[k] = v]
        /\ Deliver(c, Message("user:state", u, [here[u].states EXCEPT ![k] = v]))
  BY DEF SetState
<1> DEFINE set == [here[u].states EXCEPT ![k] = v]
           m == Message("user:state", u, set)
<1>5. pc[c] \in Inside
  BY <1>3 DEF Inside
<1>6. u \in Users /\ here[u].states \in States
  BY <1>1, <1>5, SetStateTypes
<1>7. /\ u \in DOMAIN here /\ DOMAIN there = DOMAIN here
      /\ there[u].states = set
      /\ \A w \in DOMAIN here \ {u} : there[w] = here[w]
      /\ \A n \in RoomCells \ {l} : rooms'[n] = rooms[n]
  BY <1>1, <1>4, <1>5, SetStateUsers
<1>8. set \in States
  BY <1>6 DEF States
<1>9. m \in News /\ m.user = u /\ m.type = "user:state" /\ m.states = set
  BY <1>6, <1>8, MessageTypes DEF Message
<1>10. Deliver(c, m)
  BY <1>4
<1> HIDE DEF m, set
<1>11. Says(there, m) /\ SameStates(Users \ {m.user}, here, there)
  BY <1>7, <1>9 DEF Says, SameStates
<1> HIDE DEF here, there
<1>12. ASSUME NEW known \in StateMaps, NEW q \in Seq(News), Follows(here, known, q)
       PROVE  Follows(there, known, Append(q, m))
  <2>1. m \in News /\ m.user \in Users
    BY <1>6, <1>9
  <2> QED BY ONLY <1>11, <1>12, <2>1, NewsFollow
<1>13. \A known \in StateMaps, q \in Seq(News) :
         Follows(rooms[l].users, known, q) => Follows(rooms'[l].users, known, Append(q, m))
  BY <1>12 DEF here, there
<1>14. \A n \in RoomCells \ {l} : rooms'[n] = rooms[n]
  BY <1>7
<1> QED
  BY ONLY RoomsInv, Streams, Views, Quiet, c \in Connections,
     <1>2, <1>3, <1>9, <1>10, <1>13, <1>14, TellsRoom

LEMMA RefuseCommandViews ==
  ASSUME RoomsInv, Streams, Views, Quiet, NEW c \in Connections, RefuseCommand(c)
  PROVE  Views' /\ Quiet'
<1>1. Types /\ Cells
  BY DEF RoomsInv
<1>2. Talks(c)
  BY <1>1, ServeTalks DEF Serve
<1>3. /\ pc[c] = "open" /\ Answer(c, queue) /\ UNCHANGED <<cancelled, view, rooms, roomCell>>
  BY DEF RefuseCommand, hub, tasks
<1>4. /\ pc'[c] \in Inside /\ pc[c] \in Inside
      /\ \A d \in Connections \ {c} : pc'[d] = pc[d]
  BY <1>1, <1>2, StaysTyped, LabelSets DEF Talks, Types
<1>5. queue' = queue \/ queue' = [queue EXCEPT ![c] = Append(queue[c], Notice)]
  BY <1>3 DEF Answer
<1>6. /\ \A d \in Connections \ {c} : queue'[d] = queue[d]
      /\ queue'[c] \in {queue[c], Append(queue[c], Notice)}
  BY <1>5 DEF Streams
<1>7. Quiet'
  BY <1>3, <1>4, <1>6 DEF Quiet
<1>8. Views'
  <2> SUFFICES ASSUME NEW d \in Connections, Listens(d)'
               PROVE  Follows(rooms[roomCell[d]].users, view[d], queue'[d])
    BY <1>3, ViewsNext
  <2>1. Listens(d)
    BY <1>3, <1>4 DEF Listens
  <2>2. Follows(rooms[roomCell[d]].users, view[d], queue[d]) /\ queue[d] \in Seq(News)
    BY <2>1 DEF Views, Streams
  <2>3. Follows(rooms[roomCell[d]].users, view[d], Append(queue[d], Notice))
    BY ONLY <2>2, NoticeIsNoNews
  <2> QED BY <1>6, <2>2, <2>3
<1> QED BY <1>7, <1>8

LEMMA StartSendViews ==
  ASSUME RoomsInv, Streams, Views, Quiet, NEW c \in Connections, StartSend(c)
  PROVE  Views' /\ Quiet'
<1>1. Types /\ Cells
  BY DEF RoomsInv
<1>2. Talks(c)
  BY <1>1, ServeTalks DEF Serve
<1>3. /\ pc[c] = "open" /\ queue[c] # << >> /\ UNCHANGED <<cancelled, rooms, roomCell>>
      /\ view' = [view EXCEPT ![c] = Told(view[c], Head(queue[c]))]
      /\ queue' = [queue EXCEPT ![c] = Tail(queue[c])]
  BY DEF StartSend, hub, tasks
<1>4. /\ pc'[c] \in Inside /\ pc[c] \in Inside
      /\ \A d \in Connections \ {c} : pc'[d] = pc[d]
  BY <1>1, <1>2, StaysTyped, LabelSets DEF Talks, Types
<1>5. /\ \A d \in Connections \ {c} : queue'[d] = queue[d] /\ view'[d] = view[d]
      /\ queue'[c] = Tail(queue[c]) /\ view'[c] = Told(view[c], Head(queue[c]))
  BY <1>3 DEF Streams
<1>6. Quiet'
  BY <1>3, <1>4, <1>5 DEF Quiet
<1>7. Views'
  <2> SUFFICES ASSUME NEW d \in Connections, Listens(d)'
               PROVE  Follows(rooms[roomCell[d]].users, view'[d], queue'[d])
    BY <1>3, ViewsNext
  <2>1. Listens(d)
    BY <1>3, <1>4 DEF Listens
  <2>2. /\ Follows(rooms[roomCell[d]].users, view[d], queue[d])
        /\ queue[d] \in Seq(News) /\ view[d] \in StateMaps
    BY <2>1 DEF Views, Streams
  <2>3. queue[d] # << >> => Follows(rooms[roomCell[d]].users, Told(view[d], Head(queue[d])), Tail(queue[d]))
    BY ONLY <2>2, ReadingFollows
  <2> QED BY <1>3, <1>5, <2>2, <2>3
<1> QED BY <1>6, <1>7

LEMMA LeaveRoomViews ==
  ASSUME RoomsInv, Streams, Views, Quiet, NEW c \in Connections, LeaveRoom(c)
  PROVE  Views' /\ Quiet'
<1> DEFINE l == roomCell[c]
           u == asked[c].user
           here == rooms[l].users
           there == rooms'[l].users
           rest == here[u].connections \ {c}
           others == IF rest = {} THEN Members(l) \ {c} ELSE {}
           m == Message("user:quit", u, Unset)
<1>1. Types /\ Cells /\ limits.queue \in Nat
  BY LimitTypes DEF RoomsInv, Types, HubTypes
<1>2. /\ pc[c] = "leave" /\ Move(c, "left") /\ l \in RoomCells
      /\ roomCell' = roomCell /\ \A n \in RoomCells \ {l} : rooms'[n] = rooms[n]
  BY <1>1, LeaveEffect DEF tasks
<1>3. /\ pc'[c] = "left" /\ \A d \in Connections \ {c} : pc'[d] = pc[d]
  BY <1>1, <1>2, StaysTyped DEF Types, Labels, HoldsConnection, HoldsSite, Inside
<1>4. /\ rooms[l].clients[c] = u /\ u \in DOMAIN here /\ u \in Users
      /\ DOMAIN there = IF rest = {} THEN DOMAIN here \ {u} ELSE DOMAIN here
      /\ \A w \in DOMAIN here \ {u} : there[w] = here[w]
      /\ rest # {} => there[u].connections = rest /\ there[u].states = here[u].states
  BY <1>1, LeaveUsers
<1>5. /\ queue' = [d \in Connections |->
           CASE d = c -> << >>
             [] d \in others /\ Len(queue[d]) < limits.queue -> Append(queue[d], m)
             [] OTHER -> queue[d]]
      /\ cancelled' = [d \in Connections |->
           d # c /\ (cancelled[d] \/ (d \in others /\ Len(queue[d]) >= limits.queue))]
      /\ view' = [view EXCEPT ![c] = << >>]
  BY <1>4 DEF LeaveRoom
<1>6. m \in News /\ m.type = "user:quit" /\ m.user = u
  BY <1>4, MessageTypes, UnsetType DEF Message
<1>7. \A d \in Connections \ {c} : view'[d] = view[d]
  BY <1>5 DEF Streams
<1>8. c \notin others
  OBVIOUS
<1> HIDE DEF m, others
<1>9. queue'[c] = << >> /\ ~cancelled'[c]
  <2>1. queue'[c] = << >>
    BY <1>5, <1>8
  <2>2. ~cancelled'[c]
    BY <1>5
  <2> QED BY <2>1, <2>2
<1>10. ASSUME NEW d \in Connections \ {c}
       PROVE  /\ d \notin others => queue'[d] = queue[d] /\ cancelled'[d] = cancelled[d]
              /\ d \in others =>
                   cancelled'[d] \/ (queue'[d] = Append(queue[d], m) /\ cancelled'[d] = cancelled[d])
  <2>1. cancelled[d] \in BOOLEAN /\ Len(queue[d]) \in Nat
    BY DEF Streams
  <2>2. /\ queue'[d] = IF d \in others /\ Len(queue[d]) < limits.queue
                       THEN Append(queue[d], m) ELSE queue[d]
        /\ cancelled'[d] = (cancelled[d] \/ (d \in others /\ Len(queue[d]) >= limits.queue))
    BY <1>5
  <2>3. CASE d \in others /\ Len(queue[d]) < limits.queue
    <3>1. ~(Len(queue[d]) >= limits.queue)
      BY <1>1, <2>1, <2>3
    <3> QED BY <2>1, <2>2, <2>3, <3>1
  <2>4. CASE d \in others /\ ~(Len(queue[d]) < limits.queue)
    <3>1. Len(queue[d]) >= limits.queue
      BY <1>1, <2>1, <2>4
    <3>2. cancelled'[d]
      BY <2>2, <2>4, <3>1
    <3> QED BY <2>4, <3>2
  <2>5. CASE d \notin others
    BY <2>1, <2>2, <2>5
  <2> QED BY <2>3, <2>4, <2>5
<1>11. \A d \in others : d \in Members(l)
  BY DEF others
<1>12. Quiet'
  <2> SUFFICES ASSUME NEW d \in Connections, pc'[d] \notin Inside
               PROVE  queue'[d] = << >> /\ ~cancelled'[d]
    BY DEF Quiet
  <2>1. CASE d = c
    BY <1>9, <2>1
  <2>2. CASE d # c
    <3>1. pc[d] \notin Inside
      BY <1>3, <2>2
    <3>2. d \notin others
      BY <1>1, <1>2, <1>11, <3>1, Insiders
    <3> QED BY <1>10, <2>2, <3>1, <3>2 DEF Quiet
  <2> QED BY <2>1, <2>2
<1>13. Views'
  <2> SUFFICES ASSUME NEW d \in Connections, pc'[d] \in {"open", "send"}, ~cancelled'[d]
               PROVE  Follows(rooms'[roomCell[d]].users, view'[d], queue'[d])
    BY <1>2, ViewsNext DEF Listens
  <2>1. d # c
    BY <1>3
  <2>2. pc[d] \in {"open", "send"} /\ view'[d] = view[d]
    BY <1>3, <1>7, <2>1
  <2>3. ~cancelled[d]
    BY <1>10, <2>1
  <2>4. roomCell[d] \in RoomCells /\ d \in Members(roomCell[d])
    BY <1>1, <2>2, Insiders DEF Inside
  <2>5. Follows(rooms[roomCell[d]].users, view[d], queue[d]) /\ queue[d] \in Seq(News)
    BY <2>2, <2>3 DEF Views, Listens, Streams
  <2>6. CASE roomCell[d] # l
    <3>1. d \notin others
      BY <1>1, <1>2, <1>11, <2>6, Insiders
    <3> QED BY <1>2, <1>10, <2>1, <2>2, <2>4, <2>5, <2>6, <3>1
  <2>7. CASE roomCell[d] = l /\ rest # {}
    <3>1. SameStates(Users, here, there)
      BY <1>4, <2>7 DEF SameStates
    <3>2. queue'[d] = queue[d]
      BY <1>10, <2>1, <2>7 DEF others
    <3>3. Follows(here, view[d], queue[d])
      BY <2>5, <2>7
    <3> HIDE DEF here, there
    <3>4. Follows(there, view[d], queue[d])
      BY ONLY <3>1, <3>3, SameFollow
    <3> QED BY <2>2, <2>7, <3>2, <3>4 DEF there
  <2>8. CASE roomCell[d] = l /\ rest = {}
    <3>1. SameStates(Users \ {m.user}, here, there) /\ Says(there, m)
      BY <1>4, <1>6, <2>8 DEF SameStates, Says
    <3>2. queue'[d] = Append(queue[d], m)
      BY <1>10, <2>1, <2>4, <2>8 DEF others
    <3>3. Follows(here, view[d], queue[d])
      BY <2>5, <2>8
    <3>4. m \in News /\ m.user \in Users
      BY <1>4, <1>6
    <3> HIDE DEF here, there
    <3>5. Follows(there, view[d], Append(queue[d], m))
      BY ONLY <2>5, <3>1, <3>3, <3>4, NewsFollow
    <3> QED BY <2>2, <2>8, <3>2, <3>5 DEF there
  <2> QED BY <2>6, <2>7, <2>8
<1> QED BY <1>12, <1>13

-----------------------------------------------------------------------------
(* The steps that tell nobody *)

LEMMA KeepsViews ==
  ASSUME Views, Quiet, UNCHANGED streams,
         \A d \in Connections :
           /\ pc[d] \in Inside => pc'[d] \in Inside
           /\ pc'[d] \in {"open", "send"} =>
                /\ pc[d] \in {"open", "send"}
                /\ roomCell'[d] = roomCell[d]
                /\ rooms'[roomCell[d]].users = rooms[roomCell[d]].users
  PROVE  Views' /\ Quiet'
<1>1. queue' = queue /\ cancelled' = cancelled /\ view' = view
  BY DEF streams
<1>2. Quiet'
  BY <1>1 DEF Quiet
<1>3. Views'
  <2> SUFFICES ASSUME NEW d \in Connections, Listens(d)'
               PROVE  Follows(rooms'[roomCell'[d]].users, view[d], queue[d])
    BY <1>1, ViewsNext
  <2>1. /\ Listens(d) /\ roomCell'[d] = roomCell[d]
        /\ rooms'[roomCell[d]].users = rooms[roomCell[d]].users
    BY <1>1 DEF Listens
  <2> QED BY <2>1 DEF Views
<1> QED BY <1>2, <1>3

LEMMA QuietSteps ==
  ASSUME RoomsInv, Views, Quiet, NEW c \in Connections,
         \/ Reserve(c) \/ LookupRoom(c) \/ TurnAway(c)
         \/ FinishSend(c) \/ ObserveCancel(c) \/ Hangup(c)
         \/ Release(c) \/ GiveBack(c) \/ RemoveEmptyRoom(c) \/ ReleaseRoom(c) \/ RemoveEmptySite(c)
  PROVE  Views' /\ Quiet'
<1>1. Types /\ Cells
  BY DEF RoomsInv
<1>2. UNCHANGED streams
  BY DEF Reserve, LookupRoom, TurnAway, FinishSend, ObserveCancel, Hangup,
         Release, GiveBack, RemoveEmptyRoom, ReleaseRoom, RemoveEmptySite
<1>3. \A d \in Connections : d # c => pc'[d] = pc[d] /\ roomCell'[d] = roomCell[d]
  BY <1>1 DEF Types, TaskTypes, GoTo, End, tasks, Reserve, LookupRoom, TurnAway, FinishSend,
              ObserveCancel, Hangup, Release, GiveBack, RemoveEmptyRoom, ReleaseRoom, RemoveEmptySite
<1>4. /\ pc[c] \in Inside => pc'[c] \in Inside
      /\ pc'[c] \in {"open", "send"} => pc[c] = "send" /\ roomCell' = roomCell /\ rooms' = rooms
  BY <1>1 DEF Types, TaskTypes, GoTo, End, tasks, hub, Inside, Reserve, LookupRoom, TurnAway, FinishSend,
              ObserveCancel, Hangup, Release, GiveBack, RemoveEmptyRoom, ReleaseRoom, RemoveEmptySite
<1>5. \A d \in Connections : pc[d] \in Inside => rooms'[roomCell[d]].users = rooms[roomCell[d]].users
  <2>1. CASE rooms' = rooms
    BY <2>1
  <2>2. CASE LookupRoom(c) /\ rooms' # rooms
    <3>1. PICK new \in FreeRoomCells : rooms' = [rooms EXCEPT ![new] = EmptyRoom]
      BY <2>2 DEF LookupRoom
    <3>2. new \in RoomCells /\ \A d \in Connections : roomCell[d] # new
      BY <1>1, FreeRoom
    <3> QED BY <1>1, <3>1, <3>2, Insiders, StartsRoom DEF Types
  <2>3. CASE RemoveEmptyRoom(c) /\ rooms' # rooms
    <3>1. /\ roomCell[c] \in RoomCells /\ rooms' = [rooms EXCEPT ![roomCell[c]].closed = TRUE]
      BY <1>1, <2>3 DEF RemoveEmptyRoom, Types, Holdings, HoldsRoom
    <3> QED BY <1>1, <3>1, Insiders, ClosesRoom DEF Types
  <2> QED
    BY <2>1, <2>2, <2>3 DEF hub, Reserve, TurnAway, FinishSend, ObserveCancel, Hangup,
                            Release, GiveBack, ReleaseRoom, RemoveEmptySite
<1> QED BY <1>2, <1>3, <1>4, <1>5, KeepsViews DEF Inside

LEMMA NextViews == RoomsInv /\ Streams /\ Views /\ Quiet /\ [Next]_vars => Views' /\ Quiet'
<1> SUFFICES ASSUME RoomsInv, Streams, Views, Quiet, [Next]_vars PROVE Views' /\ Quiet'
  OBVIOUS
<1>1. CASE UNCHANGED vars
  BY <1>1, KeepsViews DEF vars, hub, tasks
<1> QED
  BY <1>1, EnterRoomViews, BroadcastViews, SetStateViews, RefuseCommandViews, StartSendViews,
     LeaveRoomViews, QuietSteps DEF Next, Join, Serve, Leave

\* A client that has read what is on its way to it, and was not found slow, knows
\* the users of its room and their states as the room has them.
THEOREM ViewsFollowRoomsHolds == Spec => []ViewsFollowRooms
<1>1. Init => RoomsInv /\ Streams /\ Views /\ Quiet
  BY InitRooms, InitStreams, InitViews
<1>2. RoomsInv /\ Streams /\ Views /\ Quiet /\ [Next]_vars => (RoomsInv /\ Streams /\ Views /\ Quiet)'
  BY NextRooms, NextStreams, NextViews
<1> QED BY <1>1, <1>2, ViewsFollow, PTL DEF Spec

-----------------------------------------------------------------------------
(***************************************************************************)
(* The refinement of VibePresence.  A user of a room is there through one  *)
(* of its clients, and no two sites share a cell: the rooms as the hub     *)
(* finds them by name are the places of VibePresence.                      *)
(***************************************************************************)
Seats(users, clients) ==
  \A u \in DOMAIN users :
    /\ users[u].connections # {}
    /\ \A d \in users[u].connections : d \in DOMAIN clients /\ clients[d] = u
Peopled == \A l \in RoomCells : Seats(rooms[l].users, rooms[l].clients)
SitesDistinct ==
  \A s \in Sites, t \in Sites : sites[s] = sites[t] /\ sites[s] # None => s = t

CellNamed(p) == IF sites[p[1]] = None THEN None ELSE siteRooms[sites[p[1]]].rooms[p[2]]
PlaceOf(l) ==
  IF l = None THEN [clients |-> << >>, states |-> << >>]
  ELSE [clients |-> rooms[l].clients, states |-> StatesIn(rooms[l].users)]

LEMMA NamedPlaces ==
  Named = [p \in Sites \X Rooms |-> PlaceOf(CellNamed(p))]
  BY DEF Named, CellNamed, PlaceOf

LEMMA NamedTypes ==
  ASSUME Types, NEW p \in Sites \X Rooms
  PROVE  /\ p[1] \in Sites /\ p[2] \in Rooms
         /\ sites[p[1]] # None => sites[p[1]] \in SiteCells
         /\ CellNamed(p) # None => /\ CellNamed(p) \in RoomCells
                                /\ sites[p[1]] \in SiteCells
                                /\ CellNamed(p) = Entry(sites[p[1]], p[2])
  BY DEF Types, HubTypes, SiteRows, Maybe, CellNamed, Entry

\* A task inside a room, or on its way into one that is open, is in the place of its
\* name and in no other.
LEMMA OwnPlace ==
  ASSUME Types, Cells, SitesDistinct, NEW c \in Connections,
         pc[c] \in Inside \/ (pc[c] = "enter" /\ ~rooms[roomCell[c]].closed)
  PROVE  LET p == <<asked[c].site, asked[c].room>>
         IN /\ p \in Sites \X Rooms /\ roomCell[c] \in RoomCells /\ CellNamed(p) = roomCell[c]
            /\ PlaceOf(CellNamed(p)).clients = rooms[roomCell[c]].clients
            /\ \A q \in Sites \X Rooms : CellNamed(q) = roomCell[c] => q = p
<1> DEFINE s == asked[c].site
           r == asked[c].room
           l == roomCell[c]
<1>1. /\ pc[c] \in HoldsSite /\ pc[c] \in HoldsRoom /\ pc[c] \in KnowsSite
  BY LabelSets DEF HoldsSite, HoldsRoom
<1>2. /\ s \in Sites /\ r \in Rooms /\ l \in RoomCells /\ siteCell[c] \in SiteCells
  BY <1>1 DEF Types, Holdings, Requests
<1>3. sites[s] = siteCell[c] /\ Entry(siteCell[c], r) = l
  BY <1>1 DEF Cells, Placed
<1>4. siteCell[c] # None /\ l # None
  BY <1>2, NoneAssumption
<1>5. CellNamed(<<s, r>>) = l
  BY <1>3, <1>4 DEF CellNamed, Entry
<1>6. ASSUME NEW q \in Sites \X Rooms, CellNamed(q) = l
      PROVE  q = <<s, r>>
  <2>1. /\ q[1] \in Sites /\ q[2] \in Rooms /\ sites[q[1]] \in SiteCells
        /\ Entry(sites[q[1]], q[2]) = l
    BY <1>4, <1>6, NamedTypes
  <2>2. siteCell[c] = sites[q[1]] /\ r = q[2]
    BY <1>1, <1>4, <2>1 DEF Cells, Occupied
  <2>3. s = q[1]
    BY <1>2, <1>3, <1>4, <2>1, <2>2 DEF SitesDistinct
  <2>4. q = <<q[1], q[2]>>
    OBVIOUS
  <2> QED BY <2>2, <2>3, <2>4
<1>7. PlaceOf(l).clients = rooms[l].clients
  BY <1>4 DEF PlaceOf
<1> QED BY <1>2, <1>5, <1>6, <1>7

\* What becomes of the places when one room changes its people.
LEMMA OneRoomChanges ==
  ASSUME Types, NEW l \in RoomCells, UNCHANGED <<sites, siteRooms>>,
         \A m \in RoomCells \ {l} : rooms'[m] = rooms[m],
         NEW p \in Sites \X Rooms, CellNamed(p) = l,
         \A q \in Sites \X Rooms : CellNamed(q) = l => q = p
  PROVE  Named' = [Named EXCEPT ![p] = [clients |-> rooms'[l].clients,
                                        states |-> StatesIn(rooms'[l].users)]]
<1>1. \A q \in Sites \X Rooms : CellNamed(q)' = CellNamed(q)
  BY DEF CellNamed
<1>2. l # None
  BY NoneAssumption
<1>3. PlaceOf(CellNamed(p))' = [clients |-> rooms'[l].clients, states |-> StatesIn(rooms'[l].users)]
  BY <1>1, <1>2 DEF PlaceOf, StatesIn
<1>4. ASSUME NEW q \in Sites \X Rooms, q # p
      PROVE  PlaceOf(CellNamed(q))' = PlaceOf(CellNamed(q))
  <2>1. CellNamed(q) # l /\ (CellNamed(q) # None => CellNamed(q) \in RoomCells)
    BY <1>4, NamedTypes
  <2> QED BY <1>1, <2>1 DEF PlaceOf, StatesIn
<1>5. /\ Named = [q \in Sites \X Rooms |-> PlaceOf(CellNamed(q))]
      /\ Named' = [q \in Sites \X Rooms |-> PlaceOf(CellNamed(q))']
  BY NamedPlaces DEF Named, CellNamed, PlaceOf, StatesIn
<1> QED BY <1>3, <1>4, <1>5

LEMMA PlacesStay ==
  ASSUME \A p \in Sites \X Rooms : PlaceOf(CellNamed(p))' = PlaceOf(CellNamed(p))
  PROVE  UNCHANGED Named
<1>5. /\ Named = [q \in Sites \X Rooms |-> PlaceOf(CellNamed(q))]
      /\ Named' = [q \in Sites \X Rooms |-> PlaceOf(CellNamed(q))']
  BY NamedPlaces DEF Named, CellNamed, PlaceOf, StatesIn
<1> QED BY <1>5

\* The users of a room are those its clients came as.
Callers(clients) == {clients[d] : d \in DOMAIN clients}
LEMMA PeopleOf ==
  ASSUME NEW users, NEW clients, Seats(users, clients),
         \A d \in DOMAIN clients : clients[d] \in DOMAIN users
  PROVE  DOMAIN users = Callers(clients)
  BY DEF Seats, Callers

LEMMA EmptyPlace ==
  ASSUME NEW users \in UserMaps, NEW clients \in ClientMaps, Seats(users, clients), DOMAIN clients = {}
  PROVE  clients = << >> /\ StatesIn(users) = << >>
<1>1. DOMAIN users = {}
  BY DEF Seats
<1>2. \A S, f : f \in [{} -> S] => f = << >>
  OBVIOUS
<1>3. clients \in [{} -> Users] /\ StatesIn(users) \in [{} -> States]
  BY <1>1 DEF ClientMaps, StatesIn
<1> QED BY <1>2, <1>3

-----------------------------------------------------------------------------
LEMMA InitPeopled == Init => Peopled /\ SitesDistinct
<1> SUFFICES ASSUME Init PROVE Peopled /\ SitesDistinct
  OBVIOUS
<1>1. \A l \in RoomCells : DOMAIN rooms[l].users = {}
  BY DEF Init, NoRoom, EmptyRoom
<1> QED BY <1>1 DEF Init, Peopled, Seats, SitesDistinct

LEMMA EnterRoomPeopled ==
  ASSUME RoomsInv, Peopled, NEW c \in Connections, EnterRoom(c)
  PROVE  Peopled'
<1> DEFINE l == roomCell[c]
           u == asked[c].user
           here == rooms[l].users
           there == rooms'[l].users
<1>0. Types /\ Cells
  BY DEF RoomsInv
<1>1. /\ pc[c] = "enter" /\ l \in RoomCells /\ u \in Users
      /\ \A m \in RoomCells \ {l} : rooms'[m] = rooms[m]
      /\ DOMAIN rooms'[l].clients = Members(l) \cup {c}
      /\ \A d \in Members(l) \cup {c} :
           rooms'[l].clients[d] = IF d = c THEN u ELSE rooms[l].clients[d]
  BY <1>0, EnterEffect
<1>2. /\ DOMAIN there = DOMAIN here \cup {u}
      /\ \A w \in DOMAIN here \ {u} : there[w] = here[w]
      /\ u \in DOMAIN here => there[u].connections = here[u].connections \cup {c}
      /\ u \notin DOMAIN here => there[u] = [connections |-> {c}, states |-> Unset]
  BY <1>0, EnterUsers
<1>3. c \notin Members(l)
  BY <1>0, <1>1, Insiders DEF Inside
<1>4. Seats(here, rooms[l].clients)
  BY <1>1 DEF Peopled
<1>5. ASSUME NEW w \in DOMAIN there
      PROVE  /\ there[w].connections # {}
             /\ \A d \in there[w].connections : d \in DOMAIN rooms'[l].clients /\ rooms'[l].clients[d] = w
  <2>1. CASE w # u
    <3>1. w \in DOMAIN here /\ there[w] = here[w]
      BY <1>2, <2>1
    <3> QED BY <1>1, <1>3, <1>4, <2>1, <3>1 DEF Seats, Members
  <2>2. CASE w = u /\ u \in DOMAIN here
    <3>1. there[w].connections = here[w].connections \cup {c}
      BY <1>2, <2>2
    <3> QED BY <1>1, <1>3, <1>4, <2>2, <3>1 DEF Seats, Members
  <2>3. CASE w = u /\ u \notin DOMAIN here
    <3>1. there[w].connections = {c}
      BY <1>2, <2>3
    <3> QED BY <1>1, <2>3, <3>1
  <2> QED BY <1>2, <2>1, <2>2, <2>3
<1>6. Seats(there, rooms'[l].clients)
  BY <1>5 DEF Seats
<1> QED BY <1>1, <1>6 DEF Peopled, Seats

LEMMA LeaveRoomPeopled ==
  ASSUME RoomsInv, Peopled, NEW c \in Connections, LeaveRoom(c)
  PROVE  Peopled'
<1> DEFINE l == roomCell[c]
           u == asked[c].user
           here == rooms[l].users
           there == rooms'[l].users
           rest == here[u].connections \ {c}
<1>0. Types /\ Cells
  BY DEF RoomsInv
<1>1. /\ l \in RoomCells
      /\ \A m \in RoomCells \ {l} : rooms'[m] = rooms[m]
      /\ DOMAIN rooms'[l].clients = DOMAIN rooms[l].clients \ {c}
      /\ \A d \in DOMAIN rooms[l].clients \ {c} : rooms'[l].clients[d] = rooms[l].clients[d]
  BY <1>0, LeaveEffect
<1>2. /\ rooms[l].clients[c] = u /\ u \in DOMAIN here
      /\ DOMAIN there = IF rest = {} THEN DOMAIN here \ {u} ELSE DOMAIN here
      /\ \A w \in DOMAIN here \ {u} : there[w] = here[w]
      /\ rest # {} => there[u].connections = rest
  BY <1>0, LeaveUsers
<1>4. Seats(here, rooms[l].clients)
  BY <1>1 DEF Peopled
<1>5. ASSUME NEW w \in DOMAIN there
      PROVE  /\ there[w].connections # {}
             /\ \A d \in there[w].connections : d \in DOMAIN rooms'[l].clients /\ rooms'[l].clients[d] = w
  <2>1. CASE w # u
    <3>1. w \in DOMAIN here /\ there[w] = here[w]
      BY <1>2, <2>1
    <3>2. c \notin here[w].connections
      BY <1>2, <1>4, <2>1, <3>1 DEF Seats
    <3> QED BY <1>1, <1>4, <3>1, <3>2 DEF Seats
  <2>2. CASE w = u
    <3>1. there[w].connections = rest /\ rest # {}
      BY <1>2, <2>2
    <3>2. \A d \in rest : d \in here[u].connections /\ d # c
      OBVIOUS
    <3>3. \A d \in rest : d \in DOMAIN rooms[l].clients /\ rooms[l].clients[d] = u
      BY <1>2, <1>4, <3>2 DEF Seats
    <3> HIDE DEF rest
    <3> QED BY <1>1, <2>2, <3>1, <3>2, <3>3
  <2> QED BY <2>1, <2>2
<1>6. Seats(there, rooms'[l].clients)
  BY <1>5 DEF Seats
<1> QED BY <1>1, <1>6 DEF Peopled, Seats

LEMMA NextPeopled == RoomsInv /\ Peopled /\ [Next]_vars => Peopled'
<1> SUFFICES ASSUME RoomsInv, Peopled, [Next]_vars PROVE Peopled'
  OBVIOUS
<1>0. Types /\ Cells
  BY DEF RoomsInv
<1>1. CASE rooms' = rooms
  BY <1>1 DEF Peopled
<1>2. ASSUME NEW c \in Connections, Serve(c) \/ FinishSend(c) \/ ObserveCancel(c) PROVE Peopled'
  <2>1. SameSeats
    BY <1>0, <1>2, ServeTalks DEF Talks
  <2> QED BY <2>1 DEF SameSeats, Peopled, Seats
<1>3. ASSUME NEW c \in Connections, LookupRoom(c), rooms' # rooms PROVE Peopled'
  <2>1. PICK new \in FreeRoomCells : rooms' = [rooms EXCEPT ![new] = EmptyRoom]
    BY <1>3 DEF LookupRoom
  <2>2. new \in RoomCells
    BY <1>0, FreeRoom
  <2>3. rooms'[new] = EmptyRoom /\ \A m \in RoomCells \ {new} : rooms'[m] = rooms[m]
    BY <1>0, <2>1, <2>2 DEF Types, HubTypes
  <2>4. DOMAIN rooms'[new].users = {}
    BY <2>3 DEF EmptyRoom
  <2> QED BY <2>3, <2>4 DEF Peopled, Seats
<1>4. ASSUME NEW c \in Connections, RemoveEmptyRoom(c), rooms' # rooms PROVE Peopled'
  <2>1. roomCell[c] \in RoomCells /\ rooms' = [rooms EXCEPT ![roomCell[c]].closed = TRUE]
    BY <1>0, <1>4 DEF RemoveEmptyRoom, Types, Holdings, HoldsRoom
  <2>2. \A m \in RoomCells : rooms'[m].clients = rooms[m].clients /\ rooms'[m].users = rooms[m].users
    BY <1>0, <2>1, ClosesRoom DEF Types
  <2> QED BY <2>2 DEF Peopled
<1>5. ASSUME NEW c \in Connections,
             Reserve(c) \/ TurnAway(c) \/ Release(c) \/ GiveBack(c) \/ ReleaseRoom(c) \/ RemoveEmptySite(c)
      PROVE  rooms' = rooms
  BY <1>5 DEF Reserve, TurnAway, Release, GiveBack, ReleaseRoom, RemoveEmptySite, hub
<1>6. CASE UNCHANGED vars
  BY <1>1, <1>6 DEF vars, hub
<1> QED
  BY <1>1, <1>2, <1>3, <1>4, <1>5, <1>6, EnterRoomPeopled, LeaveRoomPeopled DEF Next, Join, Leave

LEMMA NextSites == RoomsInv /\ SitesDistinct /\ [Next]_vars => SitesDistinct'
<1> SUFFICES ASSUME RoomsInv, SitesDistinct, [Next]_vars PROVE SitesDistinct'
  OBVIOUS
<1>0. Types
  BY DEF RoomsInv
<1>1. CASE sites' = sites
  BY <1>1 DEF SitesDistinct
<1>2. ASSUME NEW c \in Connections, Reserve(c), sites' # sites PROVE SitesDistinct'
  <2>1. PICK h \in FreeSiteCells, s \in Sites : sites' = [sites EXCEPT ![s] = h]
    <3>1. asked'[c].site \in Sites /\ \E h \in SiteCells : OpensSite(c, h)
      BY <1>0, <1>2, ReserveEffect DEF ReservesPlace, IsRefused, Requests
    <3> QED BY <3>1 DEF OpensSite
  <2> QED BY <1>0, <2>1, FreeSite DEF SitesDistinct, Types, HubTypes
<1>3. ASSUME NEW c \in Connections, RemoveEmptySite(c), sites' # sites PROVE SitesDistinct'
  <2>1. sites' = [sites EXCEPT ![asked[c].site] = None]
    BY <1>3 DEF RemoveEmptySite
  <2> QED BY <1>0, <2>1 DEF SitesDistinct, Types, HubTypes
<1>4. ASSUME NEW c \in Connections,
             \/ Join(c) \/ Serve(c) \/ FinishSend(c) \/ ObserveCancel(c)
             \/ LeaveRoom(c) \/ Release(c) \/ GiveBack(c) \/ RemoveEmptyRoom(c) \/ ReleaseRoom(c)
      PROVE  sites' = sites
  BY <1>4 DEF Join, Serve, LookupRoom, TurnAway, EnterRoom, StartSend, RefuseCommand, Broadcast, SetState,
              Hangup, FinishSend, ObserveCancel, LeaveRoom, Release, GiveBack, RemoveEmptyRoom,
              ReleaseRoom, hub
<1>5. CASE UNCHANGED vars
  BY <1>1, <1>5 DEF vars, hub
<1> QED BY <1>1, <1>2, <1>3, <1>4, <1>5 DEF Next, Leave

-----------------------------------------------------------------------------
(* The steps of VibePresence *)

LEMMA InitPresence == Init => Presence!Init
<1> SUFFICES ASSUME Init PROVE Presence!Init
  OBVIOUS
<1>1. limits.perRoom \in Nat
  BY LimitTypes DEF Init
<1>2. \A p \in Sites \X Rooms : CellNamed(p) = None
  BY DEF Init, CellNamed
<1>3. Named = [p \in Sites \X Rooms |-> [clients |-> << >>, states |-> << >>]]
  BY <1>2, NamedPlaces DEF PlaceOf
<1> QED BY <1>1, <1>3 DEF Presence!Init, Presence!Nobody

\* What is under the name of a task's room.
LEMMA OwnNamed ==
  ASSUME Types, Cells, Peopled, SitesDistinct, NEW c \in Connections,
         pc[c] \in Inside \/ (pc[c] = "enter" /\ ~rooms[roomCell[c]].closed)
  PROVE  LET p == <<asked[c].site, asked[c].room>>
             room == rooms[roomCell[c]]
         IN /\ p \in Sites \X Rooms
            /\ Named[p] = [clients |-> room.clients, states |-> StatesIn(room.users)]
            /\ DOMAIN room.users = Callers(room.clients)
            /\ UNCHANGED <<sites, siteRooms>>
               /\ (\A m \in RoomCells \ {roomCell[c]} : rooms'[m] = rooms[m])
               => Named' = [Named EXCEPT ![p] = [clients |-> rooms'[roomCell[c]].clients,
                                                 states |-> StatesIn(rooms'[roomCell[c]].users)]]
<1> DEFINE p == <<asked[c].site, asked[c].room>>
           l == roomCell[c]
<1>1. /\ p \in Sites \X Rooms /\ l \in RoomCells /\ CellNamed(p) = l
      /\ \A q \in Sites \X Rooms : CellNamed(q) = l => q = p
  BY OwnPlace
<1> HIDE DEF p
<1>2. l # None
  BY <1>1, NoneAssumption
<1>3. Named[p] = [clients |-> rooms[l].clients, states |-> StatesIn(rooms[l].users)]
  BY <1>1, <1>2, NamedPlaces DEF PlaceOf
<1>4. \A d \in DOMAIN rooms[l].clients : rooms[l].clients[d] \in DOMAIN rooms[l].users
  BY <1>1 DEF Cells, Seated
<1>5. Seats(rooms[l].users, rooms[l].clients)
  BY <1>1 DEF Peopled
<1>6. DOMAIN rooms[l].users = Callers(rooms[l].clients)
  BY ONLY <1>4, <1>5, PeopleOf
<1>7. ASSUME UNCHANGED <<sites, siteRooms>>, \A m \in RoomCells \ {l} : rooms'[m] = rooms[m]
      PROVE  Named' = [Named EXCEPT ![p] = [clients |-> rooms'[l].clients,
                                            states |-> StatesIn(rooms'[l].users)]]
  BY <1>1, <1>7, OneRoomChanges
<1> QED BY <1>1, <1>3, <1>6, <1>7 DEF p

LEMMA EnterRoomEnters ==
  ASSUME RoomsInv, Peopled, SitesDistinct, NEW c \in Connections, EnterRoom(c)
  PROVE  Presence!Enter(c, <<asked[c].site, asked[c].room>>, asked[c].user)
<1> DEFINE p == <<asked[c].site, asked[c].room>>
           u == asked[c].user
           l == roomCell[c]
           here == rooms[l].users
           there == rooms'[l].users
           clients == rooms[l].clients
           place == Named[p]
<1>0. Types /\ Cells
  BY DEF RoomsInv
<1>1. /\ pc[c] = "enter" /\ l \in RoomCells /\ u \in Users
      /\ ~rooms[l].closed /\ Cardinality(DOMAIN clients) < limits.perRoom
      /\ UNCHANGED <<sites, siteRooms>>
      /\ rooms' \in [RoomCells -> RoomRows]
      /\ \A m \in RoomCells \ {l} : rooms'[m] = rooms[m]
      /\ DOMAIN rooms'[l].clients = DOMAIN clients \cup {c}
      /\ \A d \in DOMAIN clients \cup {c} :
           rooms'[l].clients[d] = IF d = c THEN u ELSE clients[d]
  BY <1>0, EnterEffect DEF Members
<1>2. /\ DOMAIN there = DOMAIN here \cup {u}
      /\ \A w \in DOMAIN here : there[w].states = here[w].states
      /\ u \notin DOMAIN here => there[u] = [connections |-> {c}, states |-> Unset]
  BY <1>0, EnterUsers
<1>3. /\ p \in Sites \X Rooms
      /\ place = [clients |-> clients, states |-> StatesIn(here)]
      /\ DOMAIN here = Callers(clients)
      /\ Named' = [Named EXCEPT ![p] = [clients |-> rooms'[l].clients, states |-> StatesIn(there)]]
  BY <1>0, <1>1, OwnNamed
<1>4. rooms'[l].clients = [d \in DOMAIN place.clients \cup {c} |-> IF d = c THEN u ELSE place.clients[d]]
  <2>1. rooms'[l].clients \in ClientMaps
    BY <1>1 DEF RoomRows
  <2>2. rooms'[l].clients = [d \in DOMAIN rooms'[l].clients |-> rooms'[l].clients[d]]
    BY <2>1 DEF ClientMaps
  <2>3. place.clients = clients
    BY <1>3
  <2> HIDE DEF place, clients
  <2> QED BY <1>1, <2>2, <2>3
<1>5. Presence!Present(place) = DOMAIN here
  BY <1>3 DEF Presence!Present, Callers
<1>6. place.states = StatesIn(here)
  BY <1>3
<1>7. StatesIn(there) = [w \in Presence!Present(place) \cup {u} |->
                           IF w \in Presence!Present(place) THEN place.states[w] ELSE Presence!Unset]
  <2>1. Presence!Unset = Unset
    BY DEF Presence!Unset, Unset
  <2>2. \A w \in DOMAIN here : place.states[w] = here[w].states
    BY <1>6 DEF StatesIn
  <2> HIDE DEF place, here, there
  <2> QED BY <1>2, <1>5, <2>1, <2>2 DEF StatesIn
<1>8. \A q \in Sites \X Rooms : c \notin DOMAIN Named[q].clients
  <2> TAKE q \in Sites \X Rooms
  <2>1. CASE CellNamed(q) = None
    <3>1. Named[q].clients = << >>
      BY <2>1, NamedPlaces DEF PlaceOf
    <3> QED BY <3>1
  <2>2. CASE CellNamed(q) # None
    <3>1. CellNamed(q) \in RoomCells /\ Named[q].clients = rooms[CellNamed(q)].clients
      BY <1>0, <2>2, NamedPlaces, NamedTypes DEF PlaceOf
    <3>2. c \notin Members(CellNamed(q))
      BY <1>0, <1>1, <3>1, Insiders DEF Inside
    <3> QED BY <3>1, <3>2 DEF Members
  <2> QED BY <2>1, <2>2
<1>9. Presence!Cardinality(DOMAIN Named[p].clients) < limits.perRoom
  <2>1. \A S : Presence!Cardinality(S) = Cardinality(S)
    BY Zenon DEF Presence!Cardinality, Cardinality
  <2> QED BY <1>1, <1>3, <2>1
<1> HIDE DEF there, here, p
<1>10. Named' = [Named EXCEPT ![p] =
         [clients |-> [d \in DOMAIN place.clients \cup {c} |-> IF d = c THEN u ELSE place.clients[d]],
          states |-> [w \in Presence!Present(place) \cup {u} |->
                        IF w \in Presence!Present(place) THEN place.states[w] ELSE Presence!Unset]]]
  BY ONLY <1>3, <1>4, <1>7
<1> QED BY <1>8, <1>9, <1>10 DEF Presence!Enter, p

LEMMA LeaveRoomQuits ==
  ASSUME RoomsInv, Peopled, SitesDistinct, NEW c \in Connections, LeaveRoom(c)
  PROVE  Presence!Quit(c, <<asked[c].site, asked[c].room>>)
<1> DEFINE p == <<asked[c].site, asked[c].room>>
           u == asked[c].user
           l == roomCell[c]
           here == rooms[l].users
           there == rooms'[l].users
           clients == rooms[l].clients
           others == DOMAIN clients \ {c}
           place == Named[p]
<1>0. Types /\ Cells /\ Types' /\ Cells' /\ Peopled'
  BY LeaveRoomKeepsCells, LeaveRoomPeopled DEF RoomsInv
<1>1. /\ pc[c] = "leave" /\ l \in RoomCells
      /\ UNCHANGED <<sites, siteRooms>>
      /\ UNCHANGED <<asked, roomCell>>
      /\ rooms' \in [RoomCells -> RoomRows]
      /\ \A m \in RoomCells \ {l} : rooms'[m] = rooms[m]
      /\ DOMAIN rooms'[l].clients = others
      /\ \A d \in others : rooms'[l].clients[d] = clients[d]
  BY <1>0, LeaveEffect DEF tasks
<1>2. /\ DOMAIN there \subseteq DOMAIN here
      /\ \A w \in DOMAIN there : there[w].states = here[w].states
  BY <1>0, LeaveUsers
<1>3. /\ p \in Sites \X Rooms
      /\ place = [clients |-> clients, states |-> StatesIn(here)]
      /\ Named' = [Named EXCEPT ![p] = [clients |-> rooms'[l].clients, states |-> StatesIn(there)]]
  BY <1>0, <1>1, OwnNamed DEF Inside
<1>4. c \in DOMAIN clients
  BY <1>0, <1>1, Insiders DEF Inside, Members
<1>5. DOMAIN there = Callers(rooms'[l].clients)
  <2>1. Seats(there, rooms'[l].clients)
    BY <1>0, <1>1 DEF Peopled
  <2>2. \A d \in DOMAIN rooms'[l].clients : rooms'[l].clients[d] \in DOMAIN there
    BY <1>0, <1>1 DEF Cells, Seated
  <2> QED BY ONLY <2>1, <2>2, PeopleOf
<1>6. DOMAIN there = {clients[d] : d \in others}
  BY <1>1, <1>5 DEF Callers
<1>7. place.clients = clients /\ place.states = StatesIn(here)
  BY <1>3
<1>8. rooms'[l].clients = [d \in others |-> clients[d]]
  <2>1. rooms'[l].clients \in ClientMaps
    BY <1>1 DEF RoomRows
  <2>2. rooms'[l].clients = [d \in DOMAIN rooms'[l].clients |-> rooms'[l].clients[d]]
    BY <2>1 DEF ClientMaps
  <2> HIDE DEF others
  <2> QED BY <1>1, <2>2
<1>9. StatesIn(there) = [w \in {clients[d] : d \in others} |-> place.states[w]]
  <2>1. \A w \in DOMAIN there : place.states[w] = there[w].states
    BY <1>2, <1>7 DEF StatesIn
  <2> HIDE DEF place, there
  <2> QED BY <1>6, <2>1 DEF StatesIn
<1> HIDE DEF there, here, p
<1>10. Named' = [Named EXCEPT ![p] =
         [clients |-> [d \in others |-> clients[d]],
          states |-> [w \in {clients[d] : d \in others} |-> place.states[w]]]]
  BY ONLY <1>3, <1>8, <1>9
<1> HIDE DEF clients
<1> QED BY <1>4, <1>7, <1>10 DEF Presence!Quit, p

LEMMA SetStateSets ==
  ASSUME RoomsInv, Peopled, SitesDistinct, NEW c \in Connections, SetState(c)
  PROVE  \E k \in Keys, v \in Values : Presence!SetState(c, <<asked[c].site, asked[c].room>>, k, v)
<1> DEFINE p == <<asked[c].site, asked[c].room>>
           u == asked[c].user
           l == roomCell[c]
           here == rooms[l].users
           there == rooms'[l].users
           clients == rooms[l].clients
           place == Named[p]
<1>0. Types /\ Cells
  BY DEF RoomsInv
<1>1. pc[c] \in Inside /\ UNCHANGED <<sites, siteRooms>>
  BY DEF SetState, Inside
<1>2. PICK k \in Keys, v \in Values : rooms' = [rooms EXCEPT ![l].users[u].states[k] = v]
  BY DEF SetState
<1>3. /\ u \in DOMAIN here /\ DOMAIN there = DOMAIN here
      /\ there[u].states = [here[u].states EXCEPT ![k] = v]
      /\ \A w \in DOMAIN here \ {u} : there[w] = here[w]
      /\ rooms'[l].clients = clients
      /\ \A m \in RoomCells \ {l} : rooms'[m] = rooms[m]
  BY <1>0, <1>1, <1>2, SetStateUsers
<1>4. /\ p \in Sites \X Rooms
      /\ place = [clients |-> clients, states |-> StatesIn(here)]
      /\ Named' = [Named EXCEPT ![p] = [clients |-> clients, states |-> StatesIn(there)]]
  <2>1. p \in Sites \X Rooms /\ place = [clients |-> clients, states |-> StatesIn(here)]
    BY <1>0, <1>1, OwnNamed
  <2>2. Named' = [Named EXCEPT ![p] = [clients |-> rooms'[l].clients, states |-> StatesIn(there)]]
    BY <1>0, <1>1, <1>3, OwnNamed
  <2>3. rooms'[l].clients = clients
    BY <1>3
  <2> QED BY ONLY <2>1, <2>2, <2>3
<1>5. c \in DOMAIN clients /\ clients[c] = u
  BY <1>0, <1>1, Insiders DEF Members, Cells, Seated
<1>6. place.clients = clients /\ place.states = StatesIn(here)
  BY <1>4
<1>7. StatesIn(there) = [StatesIn(here) EXCEPT ![u] = [StatesIn(here)[u] EXCEPT ![k] = v]]
  <2> HIDE DEF here, there
  <2> QED BY <1>3 DEF StatesIn
<1>8. [place EXCEPT !.states = [place.states EXCEPT ![u] = [place.states[u] EXCEPT ![k] = v]]]
        = [clients |-> clients, states |-> StatesIn(there)]
  <2> HIDE DEF here, there, clients
  <2> QED BY <1>4, <1>6, <1>7
<1> HIDE DEF p, here, there
<1>9. Named' = [Named EXCEPT ![p] =
        [place EXCEPT !.states = [place.states EXCEPT ![u] = [place.states[u] EXCEPT ![k] = v]]]]
  BY ONLY <1>4, <1>8
<1>10. Named' = [Named EXCEPT ![p].states[place.clients[c]][k] = v]
  BY <1>5, <1>6, <1>9
<1> QED BY <1>5, <1>6, <1>10 DEF Presence!SetState, p

-----------------------------------------------------------------------------
(* The steps that change no place *)

LEMMA SameNames ==
  ASSUME Types, UNCHANGED sites,
         \A h \in SiteCells : siteRooms'[h].rooms = siteRooms[h].rooms,
         \A l \in RoomCells : rooms'[l].clients = rooms[l].clients /\ rooms'[l].users = rooms[l].users
  PROVE  UNCHANGED Named
<1>1. ASSUME NEW p \in Sites \X Rooms PROVE PlaceOf(CellNamed(p))' = PlaceOf(CellNamed(p))
  <2>1. CellNamed(p)' = CellNamed(p)
    BY <1>1, NamedTypes DEF CellNamed
  <2> QED BY <2>1, <1>1, NamedTypes DEF PlaceOf
<1> QED BY <1>1, PlacesStay

\* A site's new cell has no rooms yet.
LEMMA ReserveStays ==
  ASSUME RoomsInv, NEW c \in Connections, Reserve(c)
  PROVE  UNCHANGED Named
<1>1. Types
  BY DEF RoomsInv
<1>2. rooms' = rooms /\ asked'[c].site \in Sites
  BY <1>1, ReserveEffect DEF Requests
<1>3. ASSUME NEW h \in SiteCells, ReservesPlace(c, h) PROVE UNCHANGED Named
  <2>1. \A g \in SiteCells : siteRooms'[g].rooms = siteRooms[g].rooms
    BY <1>1, <1>3, CountsConnections DEF ReservesPlace, Types
  <2> QED BY <1>1, <1>2, <1>3, <2>1, SameNames DEF ReservesPlace
<1>4. CASE IsRefused(c)
  BY <1>1, <1>2, <1>4, SameNames DEF IsRefused
<1>5. ASSUME NEW h \in SiteCells, OpensSite(c, h) PROVE UNCHANGED Named
  <2> DEFINE s == asked'[c].site
  <2>1. /\ sites[s] = None /\ sites' = [sites EXCEPT ![s] = h]
        /\ \A t \in Sites : sites[t] # h
    BY <1>1, <1>5, FreeSite DEF OpensSite
  <2>2. /\ \A g \in SiteCells \ {h} : siteRooms'[g] = siteRooms[g]
        /\ \A r \in Rooms : siteRooms'[h].rooms[r] = None
    BY <1>1, <1>5, StartsSite DEF OpensSite, Types
  <2>3. ASSUME NEW p \in Sites \X Rooms PROVE CellNamed(p)' = CellNamed(p)
    <3>1. p[1] \in Sites /\ p[2] \in Rooms /\ (sites[p[1]] # None => sites[p[1]] \in SiteCells)
      BY <1>1, NamedTypes
    <3>2. CASE p[1] = s
      <4>1. sites'[p[1]] = h
        BY <1>1, <2>1, <3>1, <3>2 DEF Types, HubTypes
      <4> QED BY <2>1, <2>2, <3>1, <3>2, <4>1 DEF CellNamed
    <3>3. CASE p[1] # s
      <4>1. sites'[p[1]] = sites[p[1]]
        BY <2>1, <3>3
      <4> QED BY <2>1, <2>2, <3>1, <4>1 DEF CellNamed
    <3> QED BY <3>2, <3>3
  <2>4. \A p \in Sites \X Rooms : PlaceOf(CellNamed(p))' = PlaceOf(CellNamed(p))
    BY <1>2, <2>3 DEF PlaceOf, StatesIn
  <2> QED BY <2>4, PlacesStay
<1> QED BY <1>1, <1>3, <1>4, <1>5, ReserveEffect

\* Nobody is in a new room yet.
LEMMA LookupRoomStays ==
  ASSUME RoomsInv, NEW c \in Connections, LookupRoom(c)
  PROVE  UNCHANGED Named
<1> DEFINE h == siteCell[c]
           r == asked[c].room
<1>1. Types /\ UNCHANGED sites /\ h \in SiteCells /\ r \in Rooms
  BY LabelSets DEF RoomsInv, LookupRoom, Types, Holdings, HoldsSite, Requests
<1>2. CASE UNCHANGED <<siteRooms, rooms>>
  BY <1>1, <1>2, SameNames
<1>3. CASE ~UNCHANGED <<siteRooms, rooms>>
  <2>1. PICK new \in FreeRoomCells :
          /\ EntryMade(h, r, new) /\ siteRooms[h].rooms[r] = None
          /\ rooms' = [rooms EXCEPT ![new] = EmptyRoom]
    BY <1>3 DEF LookupRoom, EntryMade
  <2>2. new \in RoomCells /\ \A g \in SiteCells, q \in Rooms : siteRooms[g].rooms[q] # new
    BY <1>1, FreeRoom
  <2>3. \A g \in SiteCells : \A q \in Rooms :
          siteRooms'[g].rooms[q] = IF g = h /\ q = r THEN new ELSE siteRooms[g].rooms[q]
    BY <1>1, <2>1, <2>2, MakesEntry DEF Types
  <2>4. rooms'[new] = EmptyRoom /\ \A m \in RoomCells \ {new} : rooms'[m] = rooms[m]
    BY <1>1, <2>1, <2>2 DEF Types, HubTypes
  <2>5. PlaceOf(new)' = PlaceOf(None)
    <3>1. StatesIn(<< >>) = << >>
      BY DEF StatesIn
    <3>2. rooms'[new].users = << >> /\ rooms'[new].clients = << >>
      BY <2>4 DEF EmptyRoom
    <3>3. PlaceOf(new)' = [clients |-> rooms'[new].clients, states |-> StatesIn(rooms'[new].users)]
      BY <2>2, NoneAssumption DEF PlaceOf, StatesIn
    <3> QED BY <3>1, <3>2, <3>3 DEF PlaceOf
  <2>6. ASSUME NEW p \in Sites \X Rooms PROVE PlaceOf(CellNamed(p))' = PlaceOf(CellNamed(p))
    <3>1. /\ p[1] \in Sites /\ p[2] \in Rooms /\ (sites[p[1]] # None => sites[p[1]] \in SiteCells)
          /\ CellNamed(p) # None => CellNamed(p) \in RoomCells
      BY <1>1, NamedTypes
    <3>2. CASE sites[p[1]] = h /\ p[2] = r
      <4>1. CellNamed(p) = None /\ CellNamed(p)' = new
        BY <1>1, <2>1, <2>3, <3>1, <3>2, NoneAssumption DEF CellNamed
      <4>2. PlaceOf(CellNamed(p))' = PlaceOf(new)'
        BY <4>1 DEF PlaceOf, StatesIn
      <4> QED BY <2>5, <4>1, <4>2
    <3>3. CASE ~(sites[p[1]] = h /\ p[2] = r)
      <4>1. CellNamed(p)' = CellNamed(p)
        BY <1>1, <2>3, <3>1, <3>3 DEF CellNamed
      <4>2. CellNamed(p) # new
        BY <2>2, <3>1, NoneAssumption DEF CellNamed
      <4> QED BY <2>4, <3>1, <4>1, <4>2 DEF PlaceOf, StatesIn
    <3> QED BY <3>2, <3>3
  <2> QED BY <2>6, PlacesStay
<1> QED BY <1>2, <1>3

\* A room that is removed has nobody in it.
LEMMA RemoveEmptyRoomStays ==
  ASSUME RoomsInv, Peopled, NEW c \in Connections, RemoveEmptyRoom(c)
  PROVE  UNCHANGED Named
<1> DEFINE h == siteCell[c]
           r == asked[c].room
           l == siteRooms[h].rooms[r]
<1>1. /\ Types /\ UNCHANGED sites /\ h \in SiteCells /\ r \in Rooms
      /\ roomCell[c] \in RoomCells
  BY LabelSets DEF RoomsInv, RemoveEmptyRoom, Types, Holdings, HoldsRoom, KnowsSite, Requests
<1>2. CASE UNCHANGED <<siteRooms, rooms>>
  BY <1>1, <1>2, SameNames
<1>3. CASE ~UNCHANGED <<siteRooms, rooms>>
  <2>1. /\ l = roomCell[c] /\ DOMAIN rooms[l].clients = {} /\ EntryRemoved(h, r)
        /\ rooms' = [rooms EXCEPT ![l].closed = TRUE]
    BY <1>3 DEF RemoveEmptyRoom, EntryRemoved, Members
  <2>2. l \in RoomCells
    BY <1>1, <2>1
  <2>3. \A g \in SiteCells : \A q \in Rooms :
          siteRooms'[g].rooms[q] = IF g = h /\ q = r THEN None ELSE siteRooms[g].rooms[q]
    BY <1>1, <2>1, RemovesEntry DEF Types
  <2> HIDE DEF l
  <2>4. \A m \in RoomCells : rooms'[m].clients = rooms[m].clients /\ rooms'[m].users = rooms[m].users
    BY <1>1, <2>1, <2>2, ClosesRoom DEF Types
  <2>5. PlaceOf(l) = PlaceOf(None)
    <3>1. rooms[l].users \in UserMaps /\ rooms[l].clients \in ClientMaps
      BY <1>1, <2>2 DEF Types, HubTypes, RoomRows
    <3>2. Seats(rooms[l].users, rooms[l].clients)
      BY <2>2 DEF Peopled
    <3>3. rooms[l].clients = << >> /\ StatesIn(rooms[l].users) = << >>
      BY <2>1, <3>1, <3>2, EmptyPlace
    <3> QED BY <3>3 DEF PlaceOf
  <2>6. ASSUME NEW p \in Sites \X Rooms PROVE PlaceOf(CellNamed(p))' = PlaceOf(CellNamed(p))
    <3>1. /\ p[1] \in Sites /\ p[2] \in Rooms /\ (sites[p[1]] # None => sites[p[1]] \in SiteCells)
          /\ CellNamed(p) # None => CellNamed(p) \in RoomCells
      BY <1>1, NamedTypes
    <3>2. CASE sites[p[1]] = h /\ p[2] = r
      <4>1. CellNamed(p) = l /\ CellNamed(p)' = None
        BY <1>1, <2>3, <3>1, <3>2, NoneAssumption DEF CellNamed, l
      <4>2. PlaceOf(CellNamed(p))' = PlaceOf(None)
        BY <4>1 DEF PlaceOf
      <4> QED BY <2>5, <4>1, <4>2
    <3>3. CASE ~(sites[p[1]] = h /\ p[2] = r)
      <4>1. CellNamed(p)' = CellNamed(p)
        BY <1>1, <2>3, <3>1, <3>3 DEF CellNamed
      <4> QED BY <2>4, <3>1, <4>1 DEF PlaceOf, StatesIn
    <3> QED BY <3>2, <3>3
  <2> QED BY <2>6, PlacesStay
<1> QED BY <1>2, <1>3

\* A site that is removed has no rooms.
LEMMA RemoveEmptySiteStays ==
  ASSUME RoomsInv, NEW c \in Connections, RemoveEmptySite(c)
  PROVE  UNCHANGED Named
<1> DEFINE s == asked[c].site
           h == siteCell[c]
<1>1. /\ Types /\ UNCHANGED <<siteRooms, rooms>> /\ h \in SiteCells /\ s \in Sites
  BY LabelSets DEF RoomsInv, RemoveEmptySite, Types, Holdings, KnowsSite, Requests
<1>2. CASE UNCHANGED sites
  BY <1>1, <1>2, SameNames
<1>3. CASE ~UNCHANGED sites
  <2>1. sites[s] = h /\ siteRooms[h].room_count = 0 /\ sites' = [sites EXCEPT ![s] = None]
    BY <1>3 DEF RemoveEmptySite
  <2>2. Cardinality(RoomsOf(siteRooms[h])) = 0
    BY <1>1, <2>1, ExactCounters, Cardinals DEF RoomsInv
  <2>3. RoomsOf(siteRooms[h]) = {}
    BY <2>2, FinitePlaces, FS_EmptySet
  <2>4. \A r \in Rooms : siteRooms[h].rooms[r] = None
    BY <2>3 DEF RoomsOf
  <2>5. ASSUME NEW p \in Sites \X Rooms PROVE CellNamed(p)' = CellNamed(p)
    <3>1. p[1] \in Sites /\ p[2] \in Rooms
      BY <1>1, NamedTypes
    <3>2. CASE p[1] = s
      <4>1. sites'[p[1]] = None
        BY <1>1, <2>1, <3>2 DEF Types, HubTypes
      <4> QED BY <2>1, <2>4, <3>1, <3>2, <4>1 DEF CellNamed
    <3>3. CASE p[1] # s
      <4>1. sites'[p[1]] = sites[p[1]]
        BY <2>1, <3>3
      <4> QED BY <1>1, <4>1 DEF CellNamed
    <3> QED BY <3>2, <3>3
  <2>6. \A p \in Sites \X Rooms : PlaceOf(CellNamed(p))' = PlaceOf(CellNamed(p))
    BY <1>1, <2>5 DEF PlaceOf, StatesIn
  <2> QED BY <2>6, PlacesStay
<1> QED BY <1>2, <1>3

\* Counters, labels and channels are no part of the places.
LEMMA OtherStepsStay ==
  ASSUME RoomsInv, NEW c \in Connections,
         \/ TurnAway(c) \/ StartSend(c) \/ RefuseCommand(c) \/ Broadcast(c) \/ Hangup(c)
         \/ FinishSend(c) \/ ObserveCancel(c) \/ Release(c) \/ GiveBack(c) \/ ReleaseRoom(c)
  PROVE  UNCHANGED Named
<1>1. Types
  BY DEF RoomsInv
<1>2. UNCHANGED <<sites, rooms>>
  BY DEF TurnAway, StartSend, RefuseCommand, Broadcast, Hangup, FinishSend, ObserveCancel,
         Release, GiveBack, ReleaseRoom, hub
<1>3. \A h \in SiteCells : siteRooms'[h].rooms = siteRooms[h].rooms
  <2>1. CASE UNCHANGED siteRooms
    BY <2>1
  <2>2. CASE Release(c) \/ (GiveBack(c) /\ pc[c] = "refusedSite")
    <3>1. siteCell[c] \in SiteCells
      BY <1>1, <2>2 DEF Release, Types, Holdings, KnowsSite, HoldsSite
    <3>2. siteRooms' = [siteRooms EXCEPT ![siteCell[c]].connections = @ - 1]
      BY <2>2 DEF Release, GiveBack
    <3> QED BY <1>1, <3>1, <3>2, CountsConnections DEF Types
  <2>3. CASE ReleaseRoom(c)
    <3>1. siteCell[c] \in SiteCells
      BY <1>1, <2>3 DEF ReleaseRoom, Types, Holdings, KnowsSite
    <3>2. siteRooms' = [siteRooms EXCEPT ![siteCell[c]].room_count = @ - 1]
      BY <2>3 DEF ReleaseRoom
    <3> QED BY <1>1, <3>1, <3>2, ReturnsPlace DEF Types
  <2> QED
    BY <2>1, <2>2, <2>3 DEF TurnAway, StartSend, RefuseCommand, Broadcast, Hangup, FinishSend,
                            ObserveCancel, GiveBack, hub
<1> QED BY <1>1, <1>2, <1>3, SameNames

LEMMA NextPresence ==
  RoomsInv /\ Peopled /\ SitesDistinct /\ [Next]_vars
    => [Presence!Next /\ UNCHANGED (limits.perRoom)]_<<Named, limits.perRoom>>
<1> SUFFICES ASSUME RoomsInv, Peopled, SitesDistinct, [Next]_vars
             PROVE  \/ Presence!Next /\ UNCHANGED (limits.perRoom)
                    \/ UNCHANGED <<Named, limits.perRoom>>
  OBVIOUS
<1>1. Types /\ Cells
  BY DEF RoomsInv
<1>2. UNCHANGED limits
  <2>1. ASSUME NEW c \in Connections,
               Reserve(c) \/ LookupRoom(c) \/ TurnAway(c) \/ EnterRoom(c) \/ FinishSend(c) \/ ObserveCancel(c)
        PROVE  UNCHANGED limits
    BY <2>1 DEF hub, Reserve, LookupRoom, TurnAway, EnterRoom, FinishSend, ObserveCancel
  <2>2. ASSUME NEW c \in Connections, Serve(c) PROVE UNCHANGED limits
    BY <2>2 DEF hub, Serve, StartSend, RefuseCommand, Broadcast, SetState, Hangup
  <2>3. ASSUME NEW c \in Connections, Leave(c) PROVE UNCHANGED limits
    BY <2>3 DEF Leave, LeaveRoom, Release, GiveBack, RemoveEmptyRoom, ReleaseRoom, RemoveEmptySite
  <2> QED BY <2>1, <2>2, <2>3 DEF vars, hub, Next, Join
<1>3. CASE UNCHANGED vars
  BY <1>1, <1>3, SameNames DEF vars, hub
<1>4. ASSUME NEW p \in Sites \X Rooms, NEW c \in Connections,
             \/ \E u \in Users : Presence!Enter(c, p, u)
             \/ Presence!Quit(c, p)
             \/ \E k \in Keys, v \in Values : Presence!SetState(c, p, k, v)
      PROVE  Presence!Next \/ UNCHANGED Named
  BY <1>4 DEF Presence!Next
<1>5. ASSUME NEW c \in Connections, EnterRoom(c) PROVE Presence!Next \/ UNCHANGED Named
  <2>1. asked[c].user \in Users /\ <<asked[c].site, asked[c].room>> \in Sites \X Rooms
    BY <1>1, <1>5, EnterEffect, OwnNamed
  <2> QED BY <1>4, <1>5, <2>1, EnterRoomEnters
<1>6. ASSUME NEW c \in Connections, pc[c] \in Inside
      PROVE  <<asked[c].site, asked[c].room>> \in Sites \X Rooms
  BY <1>1, <1>6, OwnNamed
<1>7. ASSUME NEW c \in Connections, LeaveRoom(c) PROVE Presence!Next \/ UNCHANGED Named
  BY <1>4, <1>6, <1>7, LeaveRoomQuits DEF LeaveRoom, Inside
<1>8. ASSUME NEW c \in Connections, SetState(c) PROVE Presence!Next \/ UNCHANGED Named
  BY <1>4, <1>6, <1>8, SetStateSets DEF SetState, Inside
<1>9. ASSUME NEW c \in Connections,
             Reserve(c) \/ LookupRoom(c) \/ RemoveEmptyRoom(c) \/ RemoveEmptySite(c)
      PROVE  UNCHANGED Named
  BY <1>9, ReserveStays, LookupRoomStays, RemoveEmptyRoomStays, RemoveEmptySiteStays
<1>10. Presence!Next \/ UNCHANGED Named
  BY <1>3, <1>5, <1>7, <1>8, <1>9, OtherStepsStay DEF Next, Join, Serve, Leave
<1> QED BY <1>2, <1>10

\* Every behaviour of the hub and its tasks, read by name, is a behaviour of the
\* rooms VibePresence describes: removals, refusals and new cells show nowhere.
THEOREM RoomsImplementPresence == Spec => ImplementsVibePresence
<1>1. Init => RoomsInv /\ Peopled /\ SitesDistinct
  BY InitRooms, InitPeopled
<1>2. RoomsInv /\ Peopled /\ SitesDistinct /\ [Next]_vars => (RoomsInv /\ Peopled /\ SitesDistinct)'
  BY NextRooms, NextPeopled, NextSites
<1> QED
  BY <1>1, <1>2, InitPresence, NextPresence, PTL DEF Spec, ImplementsVibePresence, Presence!Spec

=============================================================================
