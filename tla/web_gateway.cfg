SPECIFICATION Spec
CONSTANTS
  c1 = c1
  c2 = c2
  p1 = p1
  p2 = p2
  a1 = a1
  a2 = a2
  None = None
  Checkouts = {c1, c2}
  Payments = {p1, p2}
  Auths = {a1}
  Totals = {1, 2}
  NumberPeriod = 2
  MaxTime = 1
  Deaths = TRUE
  Production = FALSE
  AllowSim = FALSE
  About <- MCAbout
  Shelf <- MCShelf
  OfferIds <- MCOfferIds
  ProductOf <- MCProductOf
  KindSaid <- MCKindSaid
  Guarded = {"obey"}
  Prices = {1, 2}
  Delays = {0, 2}
  Ceilings = {1, 9}
  NoLimit = 9
  RowsPerPage = 1
  MaxBag = 1
  MaxChanges = 1
  Discounts = {10, 20}
  Usual = 10
  Threshold = 15
  MaxClock = 2
  MaxRows = 4
CHECK_DEADLOCK FALSE
SYMMETRY GatewaySymmetry
INVARIANTS OneOrderPerPayment OrderAmountIsFrozen NothingAheadOfItsPayment
  SearchKeepsLimits ShownIsFrozen TrailTellsTheStatus
PROPERTIES AnswerKeepsOthersReadable
