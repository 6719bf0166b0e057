SPECIFICATION Spec
CONSTANTS
    Scripts = {"staff"}
    Lists = {"jobs", "users"}
    AnyFilter = AnyFilter
    Filters = {AnyFilter, open}
    Blank = Blank
    Keys = {Blank, k}
    PageCounts = {0, 1, 3}
    MaxAsked = 2
    Jobs = {j1, j2}
    Pending = {j1}
    Opened = {}
    Shared = {j1}
    ListFilters = {"P"}
    NoJob = NoJob
    MaxCalls = 2
    Members = {m1, m2}
    NoMember = NoMember
    Photos = {p1, p2}
    NoPhoto = NoPhoto
    MaxSent = 2
    Categories = {"sector", "type"}
    Names = {n}
    MaxRequests = 2
    MaxSame = 2
    Postings = {r1, r2, r3}
    MaxImports = 2
    MaxStrays = 2
    Feedbacks = {f1, f2}
    MaxMarks = 2
    LastDay = 4
    MaxCreated = 2
INVARIANT PasswordOfNamed
