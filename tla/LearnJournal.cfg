SPECIFICATION Spec
CONSTANTS
  one = one
  two = two
  shell = shell
  other = other
  Procs <- MCProcs
  Sessions <- MCSessions
  Scripts <- MCScripts
  TicksPerDay = 1
  Window = 1
  MaxAgeDays = 1
  MaxTotal = 5
  MaxEntries = 3
  MaxNow = 2
  MaxFaults = 1
SYMMETRY Symmetric
CHECK_DEADLOCK FALSE
INVARIANTS
  TypeOK
  NothingSkipped
  CorrectionsCounted
  CountedOnceAlone
  AnchoredToLastRecall
