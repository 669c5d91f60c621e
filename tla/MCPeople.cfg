SPECIFICATION PeopleSpec
CHECK_DEADLOCK FALSE
CONSTANTS
    None = None
    Players = {p1}
    Rows = {w1, w2, w3, w4}
    Before = w1
    MaxMoves = 2
    MaxFaults = 1
    Users = {admin, u1}
    Orgs = {default, other}
    Default = default
    Seeded = admin
    Requests = {r1, r2}
    MaxRequests = 3
    MaxRestarts = 1
INVARIANTS
    SessionsFollowPresence
    AdministratorRemains
    RemovedCannotSignIn
    KimiHasItsKey
PROPERTIES
    
    OneFirstAdministrator
