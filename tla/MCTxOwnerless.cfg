\* Four overlapping requests: an owner leaves and steps down, an invited owner
\* joins and is deleted.
CONSTANTS
    u1 = u1
    u2 = u2
    adm = adm
    Users = {u1, u2, adm}
    Admins = {adm}
    Accounts = {1}
    Roles <- OwnerViewer
    Other = Other
    Requests = {r1, r2, r3, r4}
    Mixes <- OwnerlessMix
    InitialData <- OwnerInvitesOnly

SPECIFICATION Spec
INVARIANT SharedAccountOwned
SYMMETRY Symmetry
