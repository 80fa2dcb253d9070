SPECIFICATION Spec
CONSTANTS
    Monitors = {1, 2, 3}
    Builtin = 3
    Startups <- TwoExternal
    Mirrorable <- AllSets
    MaxSerial = 2
    MaxErrors = 1
INVARIANTS
    EditsLatestState
    TitlebarTellsEdits
    UsableFollowsLid
    RowsShowCurrent
PROPERTIES
    RefreshesEventually
CHECK_DEADLOCK FALSE
