SPECIFICATION CommerceSpec
CONSTANTS
  o1 = o1
  c1 = c1
  c2 = c2
  w1 = w1
  w2 = w2
  ck = ck
  k1 = k1
  NoOrder = NoOrder
  CheckoutKey = ck
  Keys = {ck}
  Offers = {o1}
  Checkouts = {c1}
  Workers = {w1}
  OfferOf <- MCOfferOf
  QtyOf <- MCQtyOf
  Levels <- MCLevels
INVARIANT ResolvedIsVerified
CHECK_DEADLOCK FALSE
