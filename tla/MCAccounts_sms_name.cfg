CONSTANTS
    None = None
    AdminName = admin
    AdminRole = adminRole
    AdminToken = adminToken
    Ids = {1, 2, 3}
    Names = {bob, num}
    Emails = {mail}
    Phones = {num}
    Passwords = {w1}
    Nicks = {nick}
    OtherRoles = {}
    Procs = {p1}
    FirstStart = FALSE
    Schemes = {"argon2id"}
    Ops = {"register", "sms"}
    MaxClock = 1
SYMMETRY Interchangeable
SPECIFICATION Spec
INVARIANTS
    LoginsAreUnique
