SPECIFICATION Spec
CONSTANTS
    SessionJobs = {s1}
    DirectJobs = {}
    NoJob = NoJob
    Requests = {r1, r2}
    NoRequest = NoRequest
    Sheets = {"Premiums", "Claims"}
    FirstSheet = "Premiums"
    DirectTargets = {"VBA"}
    QueueCapacity = 2
    MaxOutputs = 1
    MaxRestarts = 1
    Faults = {}
PROPERTY CompletedIsFinal
CHECK_DEADLOCK FALSE
