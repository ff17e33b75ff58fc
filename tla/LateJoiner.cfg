SPECIFICATION Spec
CONSTANTS
    Nodes <- MCNodes
    Edits <- MCEdits
    MaxLoads = 2
    Unreliable = FALSE
    StoreMayFail = FALSE
    None = None
INVARIANTS
    InSyncWhenQuiet
CHECK_DEADLOCK FALSE
