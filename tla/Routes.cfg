CONSTANTS
  r1 = r1
  r2 = r2
  d1 = d1
  d2 = d2
  u1 = u1
  u2 = u2
  m1 = m1
  m2 = m2
  m3 = m3
  W1 = W1
  W2 = W2
  None = None
  Requests = {r1, r2}
  Devices = {d1, d2}
  Users = {u1, u2}
  Members = {m1, m2, m3}
  Of <- Workspaces
  Grants <- Permissions
  Served <- AllHandlers
  MaxSessions = 3
SPECIFICATION MCSpec
SYMMETRY Perms
INVARIANTS ContextProvided IdentityHeld
