\* Two concurrent requests of any kind, three that manage or leave.
CONSTANTS
    u1 = u1
    u2 = u2
    adm = adm
    Users = {u1, u2, adm}
    Admins = {adm}
    Accounts = {1, 2}
    Roles <- OwnerViewer
    Other = Other
    Requests = {r1, r2, r3}
    Mixes <- AllMixes
    InitialData <- Databases

SPECIFICATION Spec
INVARIANTS
    NoDeadlock
PROPERTY Implements
SYMMETRY Symmetry
