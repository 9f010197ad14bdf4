CONSTANTS
    None = None
    AdminName = admin
    AdminRole = adminRole
    AdminToken = adminToken
    Ids = {1, 2, 3}
    Names = {bob}
    Emails = {}
    Phones = {num}
    Passwords = {w1}
    Nicks = {nick}
    OtherRoles = {}
    Procs = {p1, p2}
    FirstStart = FALSE
    Schemes = {"argon2id"}
    Ops = {"register", "sms", "profile", "delete"}
    MaxClock = 0
SYMMETRY Interchangeable
VIEW LivingOnly
SPECIFICATION ContestSpec
INVARIANTS
    TypeOK
    AccountsStayThemselves
    OnlyContestedLoginsAreShared
