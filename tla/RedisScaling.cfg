SPECIFICATION FairSpec
CONSTANTS
    Nodes <- MCNodes
    Edits <- MCEdits
    MaxLoads = 3
    Unreliable = TRUE
    StoreMayFail = TRUE
    None = None
INVARIANTS
    TypeOK
    Converges
    StoreTakesBack
    UnsavedIsRetried
    ExclusiveUnlessOverrun
PROPERTIES
    Quiet
CHECK_DEADLOCK FALSE
