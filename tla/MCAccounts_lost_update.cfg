CONSTANTS
    None = None
    AdminName = admin
    AdminRole = adminRole
    AdminToken = adminToken
    Ids = {1, 2}
    Names = {bob}
    Emails = {mail}
    Phones = {num}
    Passwords = {w1, w2}
    Nicks = {nick}
    OtherRoles = {}
    Procs = {p1, p2}
    FirstStart = FALSE
    Schemes = {"argon2id"}
    Ops = {"profile", "password"}
    MaxClock = 0
SYMMETRY Interchangeable
SPECIFICATION Spec
PROPERTIES
    ProfileChangesNicknameOnly
