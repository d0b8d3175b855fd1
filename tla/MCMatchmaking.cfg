SPECIFICATION Spec
CONSTANTS
  c1 = c1
  e1 = e1
  c2 = c2
  c3 = c3
  Conns = {c1, c2, c3}
  Users = {1, 2, 3}
  UserOf <- MCUserOf
  LevelOf <- MCLevelOf
  Modes = {x}
  LevelDist = 1
  MaxJoins = 3
  MaxErrors = 0
  None = None
INVARIANTS
  TypeOK
PROPERTIES
  OpponentIsClosest
  ImplementsLobby
CHECK_DEADLOCK FALSE
