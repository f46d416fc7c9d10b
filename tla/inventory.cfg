SPECIFICATION Spec
CONSTANTS
  o1 = o1
  o2 = o2
  c1 = c1
  c2 = c2
  c3 = c3
  c4 = c4
  s1 = s1
  s2 = s2
  p1 = p1
  p2 = p2
  w1 = w1
  w2 = w2
  None = None
  Seed = Seed
  Offers = {o1, o2}
  Checkouts = {c1, c2, c3, c4}
  OfferOf <- MCOfferOf
  QtyOf <- MCQtyOf
  Levels <- MCLevels
  Stores = {s1, s2}
  Orders = {o1}
  Sizes = {1, 2}
  MaxRequests = 3
  MaxLoads = 2
  Paid = {p1, p2}
  Captured <- MCCaptured
  Amounts <- MCAmounts
  Full = Full
  Clerks = {w1, w2}
  NoRefund = NoRefund
  MaxCalls = 5
SYMMETRY StoreSymmetry
INVARIANTS
  CountersMatchHolds
  HoldsAreInStock
  CountsAreOfCleanRuns
  RefundsOnRecordAreReal
PROPERTIES
  StockFallsOnlyBySale
\* Once every reservation is settled and stock is at its top level nothing is left to do.
CHECK_DEADLOCK FALSE
