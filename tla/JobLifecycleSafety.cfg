SPECIFICATION Spec
CONSTANTS
    SessionJobs = {s1}
    DirectJobs = {d1}
    NoJob = NoJob
    Requests = {r1, r2}
    NoRequest = NoRequest
    Sheets = {"Premiums"}
    FirstSheet = "Premiums"
    DirectTargets = {"VBA"}
    QueueCapacity = 1
    MaxOutputs = 1
    MaxRestarts = 1
    Faults = {"ledgerBusy", "clientAborts", "badWorkbook"}
SYMMETRY Symmetry
INVARIANTS
    TypeOK
    OneRunWritesTheLedger
    RegisteredTokensUsable
    RunningMeansWorkedOn
    CanceledHasCause
    CompletedLeavesNoUpload
CHECK_DEADLOCK FALSE
