SPECIFICATION Spec
CONSTANTS
  w1 = w1
  w2 = w2
  u1 = u1
  edit = edit
  dist = dist
  k1 = k1
  Workers = {w1, w2}
  Users = {u1}
  Products = {edit, dist}
  Edits = {edit}
  FreeOnes = {dist}
  PointsPrice <- MCPointsPrice
  Keys = {k1}
  Amount <- MCAmount
  Orders = {1, 2}
  MaxRewards = 1
  MaxFailures = 0
  None = None
PROPERTY OwnedEditIsNotCharged
CHECK_DEADLOCK FALSE
