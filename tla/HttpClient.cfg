SPECIFICATION Spec
CONSTANTS
  one = one
  two = two
  Workers <- MCWorkers
  Envs = {"live", "verify"}
  MaxRetries = 1
  MaxCalls = 2
  MaxVersion = 1
  Unit = 8
  StartRate = 8
  MaxRate = 8
  FloorRate = 4
  RampAfter = 1
  Budgets <- MCBudgets
CHECK_DEADLOCK FALSE
INVARIANTS
  CacheFollowsMutations
  PaceJustified
PROPERTIES
  CallsEnd
