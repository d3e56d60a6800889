CONSTANTS
    Tab = {t1, t2}
    Uid = {u1, u2}
    Token = {k1, k2}
    NoUid = NoUid
    NoToken = NoToken
    NoAccount = NoAccount
    Kinds <- EveryKind
    MaxCalls = 2
    MaxInbox = 1
SPECIFICATION MCSpec
SYMMETRY Symmetry
INVARIANTS
    TypeOK
    TokensStayWithTheirAccount
    OneTabAgrees
PROPERTIES
    DisagreementHasACause
CHECK_DEADLOCK FALSE
