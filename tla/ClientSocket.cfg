SPECIFICATION FairSpec
CONSTANTS
    Keys <- MCKeys
    Sizes <- MCSizes
    MaxSent = 2
    MaxMessages = 2
    MaxBytes = 3
    DocumentLimits <- MCDocumentLimits
    Capacity = 2
    Timeout = 2
    None = None
INVARIANTS
    TypeOK
    QueueAccounted
    DeliveredInOrder
    NothingBeforeAdmission
    RegistrationOwned
PROPERTIES
    UnauthenticatedEnds
    SilentEnds
CHECK_DEADLOCK FALSE
