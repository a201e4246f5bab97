SPECIFICATION Spec
CONSTANTS
  older = older
  this = this
  newer = newer
  plain = plain
  legacy = legacy
  scoped = scoped
  NoProc = NoProc
  MaxRestarts = 1
  Procs <- MCProcs
  Versions <- MCVersions
  Version <- MCVersion
  Rows <- MCRows
  CatalogRows <- MCCatalogRows
  LegacyRows <- MCLegacyRows
CHECK_DEADLOCK FALSE
INVARIANTS
  OpenHandleSupported
  StampMeansMigrated
PROPERTIES
  NeverDowngraded
  UsableRowsKept
  OpenReturns
  AtomicOpens
