CONSTANTS
  r1 = r1
  r2 = r2
  e1 = e1
  E1 = E1
  p1 = p1
  None = None
  Emails = {e1, E1}
  Lower <- MCLower
  Phones = {p1}
  Requests = {r1, r2}
  MaxCode = 2
  RedisFails = FALSE
SPECIFICATION MCSpec
SYMMETRY Perms
CHECK_DEADLOCK FALSE
INVARIANTS MintBound TokenProvenance
PROPERTIES CodeLossExplained KeepsPromise
