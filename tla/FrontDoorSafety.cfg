SPECIFICATION Spec

CONSTANTS
    Kind <- MCKind
    Limit <- MCLimit
    Window <- MCWindow
    MaxCount = 3
    MaxTime = 3
    MaxFaults = 1
    Browser = {b1, b2}
    Agent = {a1, a2}
    Visitor = {v1, v2}
    Conversation = {k1, k2}
    Caps = {1, 2}
    DefaultCap = 2
    TokenLife = 3
    DayLength = 2
    MaxOrphans = 1
    None = None
    Tab = {t1, t2}
    Account = {u1}
    Jti = {j1, j2, j3}
    RefreshLife = 2
    NoToken = NoToken

SYMMETRY Symmetry

CONSTRAINT OneSubject

INVARIANTS
    TypeOK
    LessThanTwiceTheLimit
    DailyCapHolds
    VisitorsAreApart
    SessionsAreReturned
    RevokedStaysRevoked
    OneHeirUnlessRaced

\* Nobody has to call, and the clock of an instance stops.
CHECK_DEADLOCK FALSE
