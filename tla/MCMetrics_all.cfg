SPECIFICATION Spec
CONSTANTS
    MaxEvents = 3
    Expiry = 1
    MaxEventOffset = 1
    Scenarios <- AllScenarios
INVARIANTS
    EventsAreKept
    FlowDataIsSound
PROPERTIES
    FlushEnds
CHECK_DEADLOCK FALSE
