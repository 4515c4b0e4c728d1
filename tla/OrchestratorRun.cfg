SPECIFICATION FairSpec
CONSTANTS
    PartitionCount = 3
    CleanRows <- MCCleanRows
    Columnless = {}
    Answers = {"right", "drift", "slow", "broken", "crash"}
    NoAnswer = NoAnswer
    Uncompilable = {"broken"}
    Overrunning = {"slow"}
    Fits <- MCFits
    Throws <- MCThrows
    Slots = 2
    MaxAttempts = 3
INVARIANTS
    TypeOK
    CertifiedMeansReproduced
    EachOutputOnce
    SlotsConserved
PROPERTIES
    KeepsPromise
    TranslationEnds
CHECK_DEADLOCK FALSE
