SPECIFICATION Spec
CONSTANTS
    MaxTokens = 2
    MaxTries = 1
    MaxMessages = 2
    Scenarios <- AllScenarios
INVARIANTS
    ResetIsReported
PROPERTIES
    KeysSurviveUnlessLost
    ResetIsNoticed
CHECK_DEADLOCK FALSE
