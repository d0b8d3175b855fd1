SPECIFICATION ScreensSpec
CONSTANTS
  EyeNames = {left, right}
  CalibrationFrames = 2
  NoFaceWindow = 3
  BlinkFrames = 2
  CountdownSeconds = 3
  Candidates = {c1, c2, c3}
  MaxOwn = 2
  MaxErrors = 1
  w1 = w1
  u1 = u1
  u2 = u2
  Workers = {w1}
  Users = {u1, u2}
  Owner = u1
  Clips = {1, 2}
  Reigns = {1}
  MaxMs = 0
  FirstDay = 1
  LastDay = 2
  MonthDays = 2
  MaxFailures = 1
  None = None
INVARIANTS ScreensTypeOK NothingIsLeftOn NothingSaidIsLost
PROPERTIES VerdictIsFinal WinnerIsNotStranded ClipGivesWayToLater
CHECK_DEADLOCK FALSE
