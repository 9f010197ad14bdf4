CONSTANTS
    None = None
    AdminName = admin
    AdminRole = adminRole
    AdminToken = adminToken
    Ids = {1, 2, 3}
    Names = {bob, mail}
    Emails = {mail}
    Phones = {num}
    Passwords = {w1, w2}
    Nicks = {nick}
    OtherRoles = {}
    Procs = {p1}
    FirstStart = FALSE
    Schemes = {"bcrypt"}
    Ops = {"register", "sms", "password", "profile", "role", "delete", "seed"}
    MaxClock = 0
SYMMETRY Interchangeable
VIEW Unobserved
SPECIFICATION Spec
INVARIANTS
    LoginsAreUnique
    OwnLoginWorks
PROPERTIES
    ImplementsDirectory
