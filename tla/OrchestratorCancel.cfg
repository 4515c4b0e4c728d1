SPECIFICATION Spec
CONSTANTS
    PartitionCount = 1
    CleanRows <- MCCleanRows
    Columnless = {}
    Answers = {"right"}
    NoAnswer = NoAnswer
    Uncompilable = {}
    Overrunning = {}
    Fits <- MCFits
    Throws <- MCThrows
    Slots = 3
    MaxAttempts = 3
PROPERTY CancelRejectsNothing
CHECK_DEADLOCK FALSE
