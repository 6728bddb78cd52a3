\* A server one hour east of UTC, and a user who asks for another link.
SPECIFICATION Spec
CONSTANTS
    BlockData = {}
    TextCalls = {}
    CodeCalls = {}
    PhotoCalls = {}
    Days = {}
    BillCalls = {}
    MaxSessions = 1
    MaxImages = 1
    PageForms = {form1}
    NoPageForm = noForm
    MaxRequests = 1
    Builds = {old}
    None = none
    FirstBuild = old
    Subjects = {"links"}
    Users = {u1}
    Links = {l1, l2}
    Interval = 1
    Duration = 2
    NoLink = noLink
    Zones = {1}
PROPERTY ResentWhenDue
CHECK_DEADLOCK FALSE
