\* Overlapping requests on one shared account and three users; two calls of
\* the limiter, each waiting for its lock for at most one tick.
CONSTANTS
    Users = {u1, u2, adm}
    Admins = {adm}
    Accounts = {a1}
    Roles <- OwnerViewer
    Other = Other
    ip = ip
    alice = alice
    bob = bob
    Keys = {ip, alice, bob}
    RuleSets <- SignIns
    Limit <- Limits
    Window <- Windows
    MaxWindow = 3
    CleanupInterval = 1
    ResetKeys = {alice}
    Callers = {u1, u2}
    Delay = 1
    MaxTime = 4

SPECIFICATION SpecAll
INVARIANTS
    References
    OwnerKept
    InviterIsOwner
    WindowKept
    AttemptsKept
    RetryHonest
PROPERTIES
    RemovalWithdraws
    StaleForgotten
SYMMETRY Symmetry
