SPECIFICATION BuildSuiteSpec
CONSTANTS
    Clients = {p1,p2}
    MaxCalls = 2
    Ops = {o1}
    LastVersion = 2
    MaxLog = 2
    MaxLives = 3
    Writers = {p1, p2}
    Texts <- MfTexts
    MaxEntries = 2
    CharLimit = 2
    MaxDeaths = 1
    MaxEntryId = 2
    Users = {u1, u2}
    Seeds = 2
    MaxItems = 3
    PinnedBudget = 1
    MaxFalls = 1
    MaxDecisions = 1
    Length = 3
    MaxDowns = 2
    Definitions = {d1, d2}
    Texts0 <- CbTexts
    Views = {"coordinator"}
    Usable = 4
    SummaryTokens = 1
    ChunkSize = 2
    MaxBuilds = 2
    sk = sk
    cn = cn
    o1 = o1
    o2 = o2
    c1 = c1
    c2 = c2
    Skills = {sk}
    Connectors = {cn}
    Variants = {"v1","v2"}
    Asked <- AskedBy
    Trusted = {"v1"}
    Ceiling = {"t1"}
    Tools = {"t1","t2"}
    Operators = {o1,o2}
    Calls = {c1}
    MaxChanges = 2
    MaxHosts = 2
    d1 = d1
    d2 = d2
    i1 = i1
    i2 = i2
    Docs = {d1,d2}
    Contents <- TwoTexts
    Parser <- ByKind
    Indexers = {i1,i2}
    ConfigOf <- BothSplit
    TopK = 2
    PoolSize = 3
    MinCandidates = 1
    MinDocuments = 1
    MaxTries = 4
    b1 = b1
    aHost = aHost
    watcher = watcher
    Files <- OneFileOneNote
    Declared = {"paper"}
    FileTexts = {"a","b"}
    Builders = {b1}
    Host = aHost
    Watcher = watcher
    Policy = "require_current"
    MaxSaves = 2
    MaxVisits = 3
    ModelCap = 2
    ToolCap = 2
    WriteFaults = 1
    Viewers = {"desktop","browser"}
    PollLimits = {1}
    QueueCapacity = 3
    DrainLimit = 2
    HistoryLimit = 3
    MaxStarts = 2
    MaxRows <- McRows
    MaxPolls = 2
    Lives = {1, 2}
    Timed = {1}
    AskedLives = {2}
    MaxServiceDeaths = 1
    MaxUserCancels = 1
    ServiceRunIds = {1,2}
    RequestKeys = {"k1"}
    Digests = {"d1","d2"}
    MaxActiveRuns = 1
    EventCapacity = 8
    MaxEngineEvents <- McEngineEvents
    MaxCancels <- McCancels
    ReportsTried = {"blocked"}
    Pool <- CaPool
    MessageLimit = 2
    ToolLimit = 1
    Available = 8
    SingleLimit = 5
    Quota <- CaQuota
    HeaderTokens = 1
INVARIANTS
    CompactedOnce
CHECK_DEADLOCK FALSE
