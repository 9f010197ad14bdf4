CONSTANTS
    None = None
    UserIds = {1, 2, 3}
    CodeIds = {1}
    Refreshes = {r1, r2}
    Procs = {p1}
    Names = {num}
    Phones = {num}
    Passwords = {w1}
    Codes = {c1}
    AdminName = admin
    AdminRole = adminRole
    AdminToken = adminToken
    AccessExp = 1
    RefreshExp = 1
    RateLimit = 1
    TTL = 2
    MaxLogins = 2
    MaxClock = 2
SYMMETRY Interchangeable
SPECIFICATION Spec
INVARIANTS
    TypeOK
    SessionsBoundedByMessages
    SameNumberSameAccount
    GhostSessionsEnd
    InfoNeedsSignIn
