SPECIFICATION Spec
CONSTANTS
  one = one
  two = two
  Procs <- MCProcs
  Jobs <- MCJobs
  MaxSteps = 2
  MaxJobs = 5
SYMMETRY Symmetric
CHECK_DEADLOCK FALSE
INVARIANTS
  SeedComplete
PROPERTIES
  ConfirmedHasArtifact
  TombstonesStay
  FreshSurvivesPurge
  MarksKept
