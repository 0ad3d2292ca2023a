CONSTANTS
  Runs = {1, 2}
  Purgers = {p}
  Migrators = {m}
  Budgets = {0, 1}
  Nothing = Nothing
  Torn = Torn
  Roots <- MCRoots
  MaxClock = 4
  MaxCalls = 2
  MaxDeaths = 1
SPECIFICATION Spec
CHECK_DEADLOCK FALSE
INVARIANTS PurgeIsAccountable
PROPERTIES RunsOnlyMove
