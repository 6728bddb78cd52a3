\* Two requests of any kind on the sessions, passwords and tokens of a user.
CONSTANTS
    u1 = u1
    s1 = s1
    s2 = s2
    s3 = s3
    t1 = t1
    t2 = t2
    t3 = t3
    r1 = r1
    r2 = r2
    Nobody = Nobody
    Users = {u1}
    Rows = {s1, s2, s3}
    Tokens = {t1, t2, t3}
    Requests = {r1, r2}
    Kinds <- AllKinds
    OldHashes = {u1}
    SignedIn <- TwoSessions
    Issued <- SentToken

SPECIFICATION FairSpec
INVARIANTS
    RevokedForGood
    OneToken
PROPERTIES
    AuthSameUser
    ChangeVerified
    TokenUsedOnce
    RequestsAnswered
