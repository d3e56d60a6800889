SPECIFICATION Spec
CONSTANTS
    Slots = {1, 2}
    MaxSubmits = 3
    Scenarios <- AllScenarios
INVARIANTS
    LoginIsAgreed
    FlowEndsVerified
PROPERTIES
    TooYoungStaysOut
    FlowMovesOn
CHECK_DEADLOCK FALSE
