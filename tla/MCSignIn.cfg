CONSTANTS
    Logins = {l1}
    Requests = {r1, r2}
    Pendings = {p1, p2}
    Tokens = {t1}
    Keys = {k1, k2}
    Codes = {c1}
    l1 = l1
    r1 = r1
    r2 = r2
    p1 = p1
    p2 = p2
    t1 = t1
    k1 = k1
    k2 = k2
    c1 = c1
    NoLogin = NoLogin
    NoPending = NoPending
    NoKey = NoKey
    NoCode = NoCode
    MaxLoginFailures = 1
    AddressLimit = 2
    MaxPasswordResetRequests = 1
    MaxAttempts = 1
    MaxSessions = 2
    MaxRequests = 4
SPECIFICATION Spec
SYMMETRY Symmetry
CHECK_DEADLOCK FALSE
INVARIANTS
    TypeOK
    NoStepSkipped
    OneSessionPerPendingLogin
    GuessesBounded
    CodesStandIn
