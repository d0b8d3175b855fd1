SPECIFICATION Spec
CONSTANTS
  a = a
  b = b
  d = d
  a1 = a1
  a2 = a2
  b1 = b1
  d1 = d1
  Conns = {a1, b1, d1}
  Users = {a, b, d}
  UserOf <- MCUserOf
  MatchRooms = {m}
  PrivateRooms = {}
  Codes = {}
  JoinModes = {"ranked"}
  None = None
INVARIANT RankedVerdictIsRated
CHECK_DEADLOCK FALSE
