CONSTANTS
    None = None
    Users = {u1}
    Procs = {p1}
    Refreshes = {r1, r2, r3}
    AccessExp = 2
    RefreshExp = 4
    SecondTicks = 2
    MaxClock = 2
SYMMETRY Interchangeable
SPECIFICATION Spec
PROPERTIES
    CreateKeepsOtherRefreshKeys
