SPECIFICATION Spec
CONSTANTS
  Products = {a1, a2}
  Prompts = {q1}
  NoOne = NoOne
  MaxOpens = 2
  MaxQuestions = 2
  MaxPays = 2
  MaxSent = 2
  MaxRuns = 2
CHECK_DEADLOCK FALSE
INVARIANT OrdersAreVerified
INVARIANT AskedAsOpened
PROPERTY WaitsEnd
