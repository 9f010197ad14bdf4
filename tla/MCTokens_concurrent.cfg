CONSTANTS
    None = None
    Users = {u1, u2}
    Procs = {p1, p2}
    Refreshes = {r1, r2, r3}
    AccessExp = 2
    RefreshExp = 3
    SecondTicks = 2
    MaxClock = 4
SYMMETRY Interchangeable
SPECIFICATION Spec
INVARIANTS
    TypeOK
    KeysAreUnique
    RefreshKeepsLogin
    SpentStaysDead
    UnspentSurvives
    TradeLeavesHeir
PROPERTIES
    RefreshLifetimeIsAbsolute
    ImplementsSessionKeys
