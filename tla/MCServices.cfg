\* Three requests at a time, with one fault.
SPECIFICATION ServicesSpec
CONSTANTS
  Workers = {w1, w2, w3}
  MaxFaults = 1
  None = None
  Users = {1, 2, 3}
  DefaultELO = 1000
  CalibrationGames = 1
  MaxDiff = 100
  ExpectedScore <- Expectations
  Bands <- Levels
  MaxMatches = 3
  Climbers = {k1, k2}
  Days = {1, 2}
  Thresholds <- HoldTargets
  HoldTimes = {0, 1, 2, 4}
  MaxAttempts = 3
  Players = {p1, p2}
  Matches = {m1, m2, m3}
  Threshold = 2
  LastNMatches = 1
  MaxReports = 3
  Owners = {o1, o2}
  MaxClipsPerUser = 1
  MaxUploads = 2
  MaxClaims = 2
  Codes = {"c1", "c2", "c3", "c4"}
  GoogleUser <- Account
  MaxSessions = 3
  MaxStarts = 2
SYMMETRY Alike
INVARIANTS ServicesTypeOK PointsAreWon SomebodyGoesOn BestRankKept CooldownFollowsReports
  ClipsMatchFiles ConversionIsClaimed SessionIsOwners
  ServesAsConfigured ShutdownIsOrderly NoGhostWhileServing
PROPERTY ImplementsElo
\* All the counters of requests are bounded.
CHECK_DEADLOCK FALSE
