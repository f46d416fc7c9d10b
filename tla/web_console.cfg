SPECIFICATION Spec
CONSTANTS
  Tabs = {t1, t2}
  Demo = TRUE
  MaxTasks = 2
  Consoles = {k1, k2}
  Ids = {c1, c2}
  Faulty = {c2}
  MaxCalls = 4
  MaxRestarts = 1
  Panels = {p1, p2}
  Files = {f1, f2}
  Unsound = {}
  MaxCommands = 3
  MaxFaults = 1
CHECK_DEADLOCK FALSE
INVARIANTS RunsOnlyApproved CatalogStaysOnline
PROPERTIES RequestsEnd
