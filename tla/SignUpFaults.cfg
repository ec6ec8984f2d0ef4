CONSTANTS
  u1 = u1
  u2 = u2
  i1 = i1
  i2 = i2
  i3 = i3
  r1 = r1
  r2 = r2
  None = None
  Users = {u1}
  Ids = {i1, i2, i3}
  Requests = {r1, r2}
  FreeLimit = 1
  PaidAllowance = 1
  Plans = {"Essential"}
  MaxMonth = 1
  MaxCharges = 1
  Fails = TRUE
SPECIFICATION Spec
SYMMETRY Perms
VIEW FaultView
CHECK_DEADLOCK FALSE
INVARIANTS FreeOvershootBound UnchargedBound
