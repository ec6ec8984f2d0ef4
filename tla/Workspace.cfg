CONSTANTS
  e1 = e1
  e2 = e2
  d1 = d1
  d2 = d2
  r1 = r1
  r2 = r2
  t1 = t1
  t2 = t2
  None = None
  Emails = {e1, e2}
  Devices = {d1, d2}
  A = A
  B = B
  Names = {A, B}
  WsIds = {1, 2, 3}
  MemIds = {1, 2, 3, 4}
  InvIds = {1, 2, 3}
  Requests = {r1, r2}
  Tasks = {t1, t2}
  p1 = p1
  p2 = p2
  Passwords = {p1}
  MaxDevices = 3
  MayFail <- OneFault
  MaxStarts = 4
SPECIFICATION MCSpec
SYMMETRY Perms
CHECK_DEADLOCK FALSE
INVARIANTS DuplicatesBound SuperMemberExists AccountsAgree AcceptedHasMember
