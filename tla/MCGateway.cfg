SPECIFICATION Spec
CONSTANTS
    u1 = u1
    u2 = u2
    b1 = b1
    b2 = b2
    s1 = s1
    s2 = s2
    t1 = t1
    o1 = o1
    p1 = p1
    Users = {u1, u2}
    SessionTokens = {s1, s2}
    TicketIds = {t1}
    OrderIds = {o1}
    Prices = {p1}
    NoToken = NoToken
    NoOrder = NoOrder
    Missing = Missing
    Calls = {c1, c2}
    Requests = {r1, r2}
    Browsers = {b1, b2}
    Loads <- MCLoads
    SessionAge = 600
    TickLength = 700
    MaxNow = 1
SYMMETRY Symmetry
INVARIANTS
    TypeOK
    StaleSessionsAreRefused
    CookieWithinSession
    SignedOutIsOver
    ActsForSessionUser
    ErrorsTellWhoseFault
PROPERTY StatusTellsEffect
