SPECIFICATION LinkSpec
CONSTANTS
    MaxResends = 1
    LinkScenarios <- AllScenarios
    Numbers <- SomeNumbers
INVARIANTS
    VerificationIsHeard
    MessagesAreAddressed
PROPERTIES
    LinkEnds
CHECK_DEADLOCK FALSE
