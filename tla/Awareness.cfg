SPECIFICATION FairSpec
CONSTANTS
    Conns <- MCConns
    Ids <- MCIds
    Owner <- MCOwner
    Repeaters <- MCRepeaters
    Present <- MCPresent
    MaxEvents = 1
INVARIANTS
    TypeOK
    NoGhost
    SeenByAll
    LivePublished
PROPERTIES
    Restored
CHECK_DEADLOCK FALSE
