SPECIFICATION Spec
CONSTANTS
  Backends <- MCBackends
  Total = 1
  AuthCeiling = 2
  MaxPayments = 3
  MaxStrays = 1
  MaxAttempts = 3
  MaxVisits = 3
  o1 = o1
  o2 = o2
  o3 = o3
  local = local
  order = order
  payment = payment
  Recorded <- MCRecorded
  Saved <- MCSaved
  Types <- MCTypes
  PageSize = 2
  MaxLoads = 5
  Checkouts = 2
  RowLimits = {3, 30}
  AuditRows = 3
  Filters <- MCFilters
  MaxOpen = 1
  MaxReadings = 2
  Callers = {c1}
  ChatMax = 2
  TestMax = 1
  RateWindow = 2
  TableMax = 1
  MaxTime = 3
  MaxArrivals = 3
  Typed <- MCTyped
  Patches <- MCPatches
  Bound = 2
  MaxBegun = 3
CHECK_DEADLOCK FALSE
INVARIANTS ChargesTheFrozenTotal PaysAgainOnlyIfOverwritten PageShownIsAsked LedgerAgreesWithSales
  ConsoleAndAgentsAgree StaleOnlyByOverlap AdmittedPerWindow AnswersAreTheirModels
PROPERTIES PollingEnds
