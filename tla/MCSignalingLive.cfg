SPECIFICATION FairSpec
CONSTANTS
  a = a
  b = b
  d = d
  a1 = a1
  a2 = a2
  b1 = b1
  d1 = d1
  Conns = {a1, b1}
  Users = {a, b}
  UserOf <- MCUserOf
  MatchRooms = {m}
  PrivateRooms = {p}
  Codes = {k}
  JoinModes = {"ranked"}
  None = None
INVARIANTS
  VacantRoomIsClean
PROPERTIES
  ReportIsDecided
  PeersAreReleased
CHECK_DEADLOCK FALSE
