\* Two requests of any kind, or up to four posts on pages of two.
CONSTANTS
    r1 = r1
    r2 = r2
    Subjects = {"records", "list"}
    MaxRecords = 6
    Requests = {r1, r2}
    Kinds <- AllKinds
    Amounts <- Tenths
    MaxPosts = 4
    Dates <- Days
    Filters <- AllOrLatest
    PageSize = 2

SPECIFICATION SpecAll
INVARIANTS
    References
    HistoryChain
    ShownOnce
    LinksExact
SYMMETRY Symmetry
