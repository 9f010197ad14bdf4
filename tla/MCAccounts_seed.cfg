CONSTANTS
    None = None
    AdminName = admin
    AdminRole = adminRole
    AdminToken = adminToken
    Ids = {1, 2}
    Names = {bob}
    Emails = {mail}
    Phones = {num}
    Passwords = {w1}
    Nicks = {nick}
    OtherRoles = {editor}
    Procs = {p1, p2}
    FirstStart = TRUE
    Schemes = {"argon2id"}
    Ops = {"seed"}
    MaxClock = 1
SPECIFICATION SeedingSpec
PROPERTIES
    SeedLeavesAdmin
    AdminIsSeeded
