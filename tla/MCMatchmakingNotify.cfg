SPECIFICATION FairSpec
CONSTANTS
  c1 = c1
  e1 = e1
  c2 = c2
  c3 = c3
  Conns = {c1, c2}
  Users = {1, 2}
  UserOf <- MCUserOf
  LevelOf <- MCLevelOf
  Modes = {x}
  LevelDist = 1
  MaxJoins = 2
  MaxErrors = 0
  None = None
PROPERTIES
  MatchNotifiesBoth
CHECK_DEADLOCK FALSE
