SPECIFICATION Spec
CONSTANTS
    BlockData <- AllBlockData
    TextCalls <- AllTextCalls
    CodeCalls <- AllCodeCalls
    PhotoCalls <- AllPhotoCalls
    Days <- AllDays
    BillCalls <- AllBillCalls
    MaxSessions = 3
    MaxImages = 1
    PageForms = {form1, form2}
    NoPageForm = noForm
    MaxRequests = 3
    Builds = {old, new}
    None = none
    FirstBuild = old
    Subjects = {"page", "scanner", "confirmation", "worker", "links"}
    Users = {u1}
    Links = {l1, l2}
    Interval = 1
    Duration = 2
    NoLink = noLink
    Zones <- AnyZone
INVARIANTS
    DeploymentRefreshes
    CameraOff
    BlocksCorrected
    ReadAsWritten
    FieldsFilled
PROPERTIES
    OwnDialog
    BillTaken
    ConfirmedOnce
    LatestLinkConfirms
    ConfirmedInTheEnd
CHECK_DEADLOCK FALSE
