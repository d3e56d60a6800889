SPECIFICATION PageSpec
CONSTANTS
    MaxSubmits = 2
    MaxEdits = 3
    Scenarios <- AllScenarios
INVARIANTS
    SubmitIsSound
    ScreenTellsTheState
PROPERTIES
    SubmitEnds
CHECK_DEADLOCK FALSE
