SPECIFICATION FairSpec
CONSTANTS
    Edits <- MCEdits
    Conns <- MCConns
    Debounce = 1
    MaxDebounce = 2
    UnloadModes <- MCBothModes
    StoreMayFail = TRUE
    LoadMayFail = TRUE
    None = None
INVARIANTS
    TypeOK
    UnsavedIsScheduled
    StoreExclusive
PROPERTIES
    WarmUnloadSaves
    ImplementsDurable
    SaveProgress
    IdleReachesUnload
