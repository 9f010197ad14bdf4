CONSTANTS
    None = None
    Calls = {1, 2}
    Passwords = {w1, w2}
    Nicks = {n1}
    MaxLogouts = 2
    Ids = {1}
    AdminName = admin
    AdminRole = adminRole
    AdminToken = adminToken
SPECIFICATION Spec
INVARIANTS
    TypeOK
    GateFollowsStore
    LogoutHolds
    PageHasInfo
    SavedNicknameShows
    ConfirmedPasswordHolds
PROPERTIES
    BusyEnds
