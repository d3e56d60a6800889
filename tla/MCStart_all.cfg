SPECIFICATION Spec
CONSTANTS
    MaxVisits = 4
    Visits <- AllVisits
    LaterUrls <- SomeUrls
INVARIANTS
    StartIsConsistent
    GrantsAreAllowed
PROPERTIES
    StartEnds
CHECK_DEADLOCK FALSE
