SPECIFICATION FairSpec
CONSTANTS
    MaxJobs = 2
    MaxBeats = 2
    Failures = {"connect", "close", "error", "badCode", "refuse", "browser", "totp", "cancel"}
INVARIANTS
    CodeNeedsBothUsers
    CompleteNeedsBothUsers
PROPERTIES
    KeepsConsent
    EveryoneLearns
CHECK_DEADLOCK FALSE
