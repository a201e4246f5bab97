SPECIFICATION Spec
CONSTANTS
    Bodies <- MCBodies
    LaterBodies <- MCLaterBodies
    Scopes = {"s1"}
    Paging <- MCPaging
    MaxCommands = 2
    MaxPages = 4
INVARIANTS
    FullSyncSparesItsRows
    EmptyHidesNothing
    SyncTakesTheList
    OfflineKeepsWhatWasShown
    WalkComplete
CHECK_DEADLOCK FALSE
