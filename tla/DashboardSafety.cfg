SPECIFICATION DashboardSpec
CONSTANTS
    SessionJobs = {s1}
    DirectJobs = {}
    NoJob = NoJob
    Requests = {r1, r2}
    NoRequest = NoRequest
    Sheets = {"Premiums"}
    FirstSheet = "Premiums"
    DirectTargets = {}
    QueueCapacity = 1
    MaxOutputs = 0
    MaxRestarts = 0
    Faults = {"fileAges"}
    Circuits = {p1, p2}
    Connections = {c1, c2}
    NoConnection = NoConnection
    Grace = 0
    Trouble = {}
PROPERTIES
    RecentJoinIsSafe
    ImplementsJobLifecycle
SYMMETRY Symmetry
CHECK_DEADLOCK FALSE
