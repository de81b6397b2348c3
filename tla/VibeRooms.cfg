CONSTANTS
  a = a
  b = b
  c3 = c3
  s1 = s1
  r1 = r1
  r2 = r2
  u1 = u1
  u2 = u2
  h1 = h1
  h2 = h2
  h3 = h3
  l1 = l1
  l2 = l2
  l3 = l3
  k1 = k1
  v1 = v1
  None = None
  NoValue = NoValue
  Connections <- MCThree
  Sites <- MCSites
  Rooms <- MCRooms
  Users <- MCUsers
  Keys <- MCKeys
  Values <- MCValues
  SiteCells <- MCSiteCells
  RoomCells <- MCRoomCells
  Joins <- MCJoins
  LimitSets <- MCLimitSets
SPECIFICATION Spec
SYMMETRY MCSymmetry
INVARIANTS TypeOK MembersAreReachable CountersAreExact 
PROPERTY ImplementsVibePresence
