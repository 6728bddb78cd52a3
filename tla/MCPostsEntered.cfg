\* Posts of less than half a cent pass the check for zero and are stored as 0.00.
CONSTANTS
    r1 = r1
    r2 = r2
    Subjects = {"records"}
    MaxRecords = 4
    Requests = {r1}
    Kinds <- PostKinds
    Amounts <- Tenths
    MaxPosts = 4
    Dates <- Days
    Filters <- AllOrLatest
    PageSize = 2

SPECIFICATION SpecAll
PROPERTY EnteredNotZero
