SPECIFICATION SignUpFairSpec
CONSTANTS
    MaxSignUps = 2
    MaxFailures = 1
INVARIANTS
    OneLoginPerAccount
    BrowserIsToldOfChoices
    OnlyTheConfirmedGoOn
PROPERTIES
    PollIsFaithful
CHECK_DEADLOCK FALSE
