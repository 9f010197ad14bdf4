CONSTANTS
    None = None
    Users = {u1, u2}
    Procs = {p1}
    Refreshes = {r1, r2, r3}
    AccessExp = 2
    RefreshExp = 6
    SecondTicks = 1
    MaxClock = 4
SYMMETRY Interchangeable
SPECIFICATION Spec
PROPERTIES
    RefreshOutlivesAccess
