SPECIFICATION FairSpec
CONSTANTS
    Sockets <- MCSockets
    Appliers <- MCAppliers
    MaxActors = 3
    None = None
INVARIANTS
    TypeOK
    RegistryNeverStale
    EstablishedIsServed
    SpawnOnce
    OkUnlessUnloaded
    UnsavedEndHasCause
PROPERTIES
    EveryCallReturns
    Reclaimed
CHECK_DEADLOCK FALSE
