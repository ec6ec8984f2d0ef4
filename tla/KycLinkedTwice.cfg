CONSTANTS
  u1 = u1
  u2 = u2
  u3 = u3
  n1 = n1
  n2 = n2
  b1 = b1
  v1 = v1
  v2 = v2
  l1 = l1
  p1 = p1
  p2 = p2
  r1 = r1
  r2 = r2
  None = None
  Users = {u1, u2, u3}
  Docs = {n1, n2, b1, v1, v2, l1}
  Phones = {p1, p2}
  Requests = {r1, r2}
  KindOf <- MCKindOf
  PersonOf <- MCPersonOf
  PhoneOf <- MCPhoneOf
  Digits <- MCDigits
  SessionPhone <- MCSessionPhone
  IsoDates = {"nin"}
  MaxRequests = 4
  Fails = FALSE
SPECIFICATION MCSpec
SYMMETRY Perms
CHECK_DEADLOCK FALSE
PROPERTIES LinkedIsRefused
