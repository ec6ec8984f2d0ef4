CONSTANTS
  ann = ann
  bob = bob
  a1 = a1
  a2 = a2
  a3 = a3
  d1 = d1
  d2 = d2
  r1 = r1
  r2 = r2
  None = None
  NoId = NoId
  Owners = {ann, bob}
  Phones = {bob}
  Docs = {a1, a2, a3}
  Devices = {d1, d2}
  Requests = {r1, r2}
  MaxDevices = 2
  Fails = TRUE
SPECIFICATION MCSpec
SYMMETRY Perms
CHECK_DEADLOCK FALSE
INVARIANTS VerifiedWasProved RefreshEarned ImageOfOwner AccountsBound
PROPERTY OnlyLoginTakesBack
