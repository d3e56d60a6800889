SPECIFICATION MCSpec
CONSTANTS
    signin = signin
    oauth = oauth
    reset = reset
    legal = legal
    SignInView = SignInView
    ResetView = ResetView
    LegalView = LegalView
    View = {SignInView, ResetView, LegalView}
    Url = {signin, oauth, reset, legal}
    ViewOf <- Routes
    Lazy = {LegalView}
    First = signin
    Hasty = TRUE
    BrowserButtons = TRUE
    SameUrl = TRUE
    MaxNavigations = 4
    MaxViews = 5
INVARIANTS
    AliveIsCurrent
PROPERTIES
    CurrentIsWritten
    PatientHistoryAgrees
CHECK_DEADLOCK FALSE
