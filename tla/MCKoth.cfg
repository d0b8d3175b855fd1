SPECIFICATION FairSpec
CONSTANTS
  w1 = w1
  w2 = w2
  u1 = u1
  clip = clip
  Workers = {w1, w2}
  Users = {u1}
  Owner = u1
  Clips = {clip}
  Reigns = {1, 2, 3}
  MaxMs = 1
  FirstDay = 1
  LastDay = 2
  MonthDays = 2
  MaxFailures = 1
  None = None
INVARIANTS
  TypeOK
  CreditsAreEarned
PROPERTIES
  ImplementsHill
  StaleReignEnds
CHECK_DEADLOCK FALSE
