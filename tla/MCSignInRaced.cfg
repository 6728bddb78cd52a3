\* A sign-in with the old password while it is changed.
CONSTANTS
    u1 = u1
    s1 = s1
    s2 = s2
    s3 = s3
    t1 = t1
    t2 = t2
    t3 = t3
    r1 = r1
    r2 = r2
    Nobody = Nobody
    Users = {u1}
    Rows = {s1, s2, s3}
    Tokens = {t1}
    Requests = {r1, r2}
    Kinds <- Changes
    OldHashes = {}
    SignedIn <- OneSession
    Issued <- SentToken

SPECIFICATION Spec
PROPERTIES
    OthersRevoked
SYMMETRY Symmetry
