SPECIFICATION Spec
CONSTANTS
    Clients <- MCClients
    ReadOnly <- MCReadOnly
    Edits <- MCEdits
    Author <- MCAuthor
    Capacity = 2
    MaxBatch = 2
    HookMayReject = TRUE
    None = None
INVARIANTS
    TypeOK
    NothingMissed
    NothingStranded
