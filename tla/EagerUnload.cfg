SPECIFICATION Spec
CONSTANTS
    Edits <- MCEdits
    Conns <- MCConns
    Debounce = 1
    MaxDebounce = 2
    UnloadModes <- MCEagerMode
    StoreMayFail = TRUE
    LoadMayFail = FALSE
    None = None
PROPERTIES
    UnloadKeepsEdits
