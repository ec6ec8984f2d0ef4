CONSTANTS
  f1 = f1
  f2 = f2
  f3 = f3
  r1 = r1
  r2 = r2
  t1 = t1
  t2 = t2
  t3 = t3
  s1 = s1
  s2 = s2
  None = None
  Refs = {f1, f2, f3}
  Requests = {r1, r2}
  Signatures = {s1, s2}
  Tasks = {t1, t2, t3}
  Plans = {"Essential", "Premium"}
  Price <- MCPrices
  Wrap = 429496
  Elapsed = {0, 20, 400}
  MaxCards = 2
  Offers <- MCOffers
  MayFail <- OneFault
SPECIFICATION MCSpec
SYMMETRY Perms
CHECK_DEADLOCK FALSE
INVARIANTS SubscriptionWasPaid ChargesCounted AckedIsSettled AppCardListed RenewalsBound LinkNotAbovePrice
PROPERTY SettlesAsPromised
