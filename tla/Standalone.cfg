SPECIFICATION MCSpec
CONSTANTS
    e1 = e1
    e2 = e2
    Evals = {e1, e2}
    EvalIds <- MCEvalIds
    EvalPaths = {"skill", "brief"}
    SkillPath = "skill"
    Layouts <- MCLayouts
    Workers = 2
    EvalSteps = 1
    Queries = {"q1"}
    RunsPerQuery = 2
    PoolSize = 2
    RateNum = 1
    RateDen = 2
    Modules = {"bmb", "cis"}
    Releases <- MCReleases
    CoreKeys = {"name", "folder"}
    CoreUserKeys = {"name"}
    VarKeys = {"out"}
    UserVars = {"out"}
    Projects <- MCProjects
    MaxCrashes = 1
    Skills = {"draw"}
    Setups = {"a-setup", "b-setup"}
    HelpFiles <- MCHelpFiles
    MaxDeaths = 1
    Names = {"plan"}
    Roots <- MCRoots
    Defaults <- MCDefaults
    Overrides <- MCOverrides
    Places <- MCPlaces
    MaxEdits = 2
    Conditions = {"pulse", "evolvable"}
    Templates <- MCTemplates
    Values <- MCValues
    Standard <- MCStandard
    Refs = {"coach"}
    Builds <- MCBuilds
    MaxInitDeaths = 1
    Files = {"1-plan", "3-draft", "3-edit", "guide"}
    StageNumber <- MCNumber
    StageTexts <- MCStageTexts
    HeadTexts <- MCHeadTexts
    Columns <- MCColumns
    Named = {}
    Sheets <- MCSheets
    Codes <- MCCodes
    Calculation <- MCCalculation
    MacroCount = 2
    MaxTries = 3
    Replies <- MCReplies
INVARIANTS
    ToolsTypeOK
    CleanRoom
    ResultsMatchDisk
    SummaryAccountsForAll
    VerdictIsFirstTool
    FiredScoreHasEvidence
    EntriesAreCurrent
    UserKeysPrivate
    SkillsSurvive
    PassMeansInstallable
    LayersMerge
    KeptIffAllHold
    ReviewedIsBornWhole
    NumberingJudged
    PartitionsTile
    CertifiedReproduces
    ReturnedIsCompiled
    FormatGivesClass
PROPERTIES
    LegacyConsolidated
    NothingUnlearned
    RunsEnd
CHECK_DEADLOCK FALSE
