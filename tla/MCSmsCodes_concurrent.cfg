CONSTANTS
    None = None
    Ids = {1, 2}
    Phones = {ph1}
    Codes = {c1, c2}
    Procs = {p1, p2}
    RateLimit = 2
    TTL = 4
    SecondTicks = 2
    CodesRepeat = TRUE
    Faults = {"list", "store", "save"}
    MaxClock = 5
    MaxLogins = 2
SYMMETRY Interchangeable
SPECIFICATION Spec
INVARIANTS
    TypeOK
    CodeLivesItsTTL
    LimitLastsItsTime
    UsedByItsLogin
    LoginsUseUpMessages
