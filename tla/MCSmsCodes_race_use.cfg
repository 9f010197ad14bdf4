CONSTANTS
    None = None
    Ids = {1, 2}
    Phones = {ph1}
    Codes = {c1, c2}
    Procs = {p1, p2}
    RateLimit = 4
    TTL = 6
    SecondTicks = 2
    CodesRepeat = FALSE
    Faults = {}
    MaxClock = 4
    MaxLogins = 2
SYMMETRY Interchangeable
SPECIFICATION Spec
INVARIANTS
    OneTimeUse
