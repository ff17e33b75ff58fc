SPECIFICATION Spec
CONSTANTS
    Conns <- MCConns
    Ids <- MCIds
    Owner <- MCOwner
    Repeaters <- MCRepeaters
    Present <- MCPresent
    MaxEvents = 0
INVARIANTS
    ChangesPublished
CHECK_DEADLOCK FALSE
