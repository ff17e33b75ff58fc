SPECIFICATION Spec
CONSTANTS
    Sockets <- MCSockets
    Appliers <- MCAppliers
    MaxActors = 3
    None = None
INVARIANTS
    SingleActor
CHECK_DEADLOCK FALSE
