CONSTANTS
  r1 = r1
  r2 = r2
  t1 = t1
  t2 = t2
  w = w
  None = None
  Workspace = w
  AppIds = {1, 2, 3}
  UserIds = {1, 2, 3}
  Requests = {r1, r2}
  Tasks = {t1, t2}
  Limit = 2
  MaxKey = 4
  PageSizes = {1, 2}
  MayFail <- OneFault
SPECIFICATION MCSpec
CHECK_DEADLOCK FALSE
INVARIANTS AppsBound LiveKeysHeld DeletionsStand PagesComplete
PROPERTIES FeaturesWerePaid
