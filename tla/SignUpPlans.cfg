CONSTANTS
  u1 = u1
  u2 = u2
  i1 = i1
  i2 = i2
  i3 = i3
  r1 = r1
  r2 = r2
  None = None
  Users = {u1}
  Ids = {i1, i2, i3}
  Requests = {r1, r2}
  FreeLimit = 1
  PaidAllowance = 1
  Plans = {"Essential"}
  MaxMonth = 2
  MaxCharges = 6
  Fails = FALSE
SPECIFICATION Spec
SYMMETRY Perms
CHECK_DEADLOCK FALSE
INVARIANTS IssuedAreCounted ChargeJustified ChargesPerAppUser AppUsersBound
