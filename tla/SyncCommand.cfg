SPECIFICATION Spec
CONSTANTS
  one = one
  two = two
  left = left
  right = right
  years = years
  terms = terms
  Procs <- MCProcs
  Workers <- MCWorkers
  Lead = left
  Resources <- MCResources
  Jobs <- MCJobs
  StaleAfter = 1
  MaxTime = 1
  MaxRuns = 1
  MaxKills = 1
CHECK_DEADLOCK FALSE
INVARIANTS
  StampAfterRows
PROPERTIES
  ReportedOnce
  CommandsEnd
