SPECIFICATION DashboardSpec
CONSTANTS
    SessionJobs = {s1}
    DirectJobs = {}
    NoJob = NoJob
    Requests = {r1}
    NoRequest = NoRequest
    Sheets = {"Premiums"}
    FirstSheet = "Premiums"
    DirectTargets = {}
    QueueCapacity = 1
    MaxOutputs = 0
    MaxRestarts = 0
    Faults = {}
    Circuits = {p1}
    Connections = {c1, c2}
    NoConnection = NoConnection
    Grace = 0
    Trouble = {"linkLost"}
PROPERTIES
    ReconnectedIsSpared
CHECK_DEADLOCK FALSE
