\* An invitation is sent while the invited user joins.
CONSTANTS
    u1 = u1
    u2 = u2
    adm = adm
    Users = {u1, u2, adm}
    Admins = {adm}
    Accounts = {1}
    Roles <- OwnerViewer
    Other = Other
    Requests = {r1, r2}
    Mixes <- InvitedMix
    InitialData <- Databases

SPECIFICATION Spec
INVARIANT MemberNotInvited
