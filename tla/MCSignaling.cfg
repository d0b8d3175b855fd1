SPECIFICATION Spec
CONSTANTS
  a = a
  b = b
  d = d
  a1 = a1
  a2 = a2
  b1 = b1
  d1 = d1
  Conns = {a1, a2, b1}
  Users = {a, b}
  UserOf <- MCUserOf
  MatchRooms = {m}
  PrivateRooms = {}
  Codes = {}
  JoinModes = {"ranked"}
  None = None
SYMMETRY Interchangeable
INVARIANTS
  TypeOK
  NoGhostMember
  RatedOnce
PROPERTIES
  ImplementsArbiter
CHECK_DEADLOCK FALSE
