SPECIFICATION ClipsSpec
CONSTANTS
  w1 = w1
  u1 = u1
  u2 = u2
  Workers = {w1}
  Users = {u1, u2}
  Owner = u1
  Clips = {1, 2, 3}
  Reigns = {1, 2}
  MaxMs = 1
  FirstDay = 1
  LastDay = 1
  MonthDays = 2
  MaxFailures = 0
  None = None
PROPERTIES
  OutlastingWins
CHECK_DEADLOCK FALSE
