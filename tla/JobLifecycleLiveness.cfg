SPECIFICATION FairSpec
CONSTANTS
    SessionJobs = {s1}
    DirectJobs = {}
    NoJob = NoJob
    Requests = {r1, r2}
    NoRequest = NoRequest
    Sheets = {"Premiums"}
    FirstSheet = "Premiums"
    DirectTargets = {"VBA"}
    QueueCapacity = 1
    MaxOutputs = 1
    MaxRestarts = 1
    Faults = {"fileAges"}
PROPERTIES
    AcceptedRunsEnd
    RunningSettles
    KeepsService
CHECK_DEADLOCK FALSE
