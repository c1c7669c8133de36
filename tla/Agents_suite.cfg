SPECIFICATION SuiteSpec
CONSTANTS
    N = 3
    Graphs <- Plans
    MaxAgents = 2
    MaxSteps = 1
    TeamSteps = 3
    TeamCalls = 4
    MaxFixRounds = 1
    Reserve = 1
    MaxCancels = 1
    f1 = f1
    f2 = f2
    t1 = t1
    t2 = t2
    Workers = {t1,t2}
    Files = {f1,f2}
    Writable <- Scopes
    Menu <- Menus
    FullScope = {t1}
    MaxCalls <- Calls
    MaxEdits = 1
    Paths = {"p"}
    Writings = {1,2}
    StepLimit = 4
    MaxModelCalls = 5
    MaxToolCalls = 3
    MaxRounds = 2
    MaxInvalid = 2
    MaxSubmits = 1
    c1 = c1
    c2 = c2
    k1 = k1
    k2 = k2
    Topics = {topic}
    Senders = {s1, s2}
    Consumers <- TwoConsumers
    Anyone = Anyone
    Keys <- TwoKeys
    Bodies = {b1}
    Capacity = 3
    Limits = {1, 2}
    a1 = a1
    a2 = a2
    Remote <- TwoPages
    Local = {"bash"}
    Callers = {a1,a2}
    Permitted = {"search","fetch"}
    Slips = {"protocol error","invalid response","invalid result","garbled","note","stray","crash","no server","no setup","slow","stop"}
    MaxInvokes = 2
    MaxSlips = 2
    u1 = u1
    u2 = u2
    Users = {u1,u2}
    Ops = {"position","symbols","diagnostics"}
    Trouble = {"error","request","bad frame","exit","no server","slow"}
    MaxUses = 2
    MaxTrouble = 1
    MaxStarts = 2
    InputSchemas <- SomeSchemas
    Arguments <- SomeArguments
    p1 = p1
    p2 = p2
    Planners = {p1,p2}
    Options = {"yes"}
    FreeTexts = {"else"}
    MaxPlans = 2
    MaxQuestions = 1
    MaxWrites = 2
    Dirs = {1,2}
    SkillNames = {"review","cite"}
    ReadOnly = {"file_read"}
    Control = {"approve_plan"}
    Other = {"bash"}
    MaxSkillEdits = 2
    MaxLoads = 1
    Offers <- SomeOffers
    BoundTools <- SomeBound
    Allowlisted = {1,2,3,4}
    Requests <- SomeRequests
    TaskPlan <- TwoTasksOneFile
    Mentions <- EachNamesBoth
    Gated = TRUE
    Judged = TRUE
    MaxAttempts = 2
    FixRounds = 2
    Claims <- SomeClaims
    ModelLimit = 6
    ToolLimit = 2
    TaskSteps = 2
    TaskReserve = 1
    TeamSizes = {1,2}
    Efforts <- ShortAndLong
    MaxDelegations = 1
    Configured <- McConfigured
    Profiles <- McProfiles
    AttemptLimit = 3
    BaseDelay = 1
    MaxDelay = 3
    RespectRetryAfter = TRUE
    RetryAfters <- McRetryAfters
    TeamRequests = {1,2}
    Poison = {2}
    BusAttempts = 2
    MaxTroubles = 1
    BusSubmits = 3
    Remotes = {"q1","q2"}
    Executions = {1,2}
    RemoteRequests <- SomeRemoteRequests
    MaxRecords = 1
    MaxCallsSent = 3
    MaxLosses = 1
    MaxLives = 2
    MaxChildren = 2
    Processes = {"d1","d2"}
    ArtifactKeys = {"k","l"}
    ArtifactContents = {"x","y"}
    Summaries = {"m"}
    MaxArtifacts = 1
    MaxRevisions = 2
    MaxStops = 1
    MaxExports = 2
INVARIANTS
    TeamWorkSound
    WorkersSound
    RunSound
    BusSound
    PlanSound
    ConnectionSound
    LspSound
    GatewaySound
    ArtifactsSound
    TeamsSound
    AbilitiesSound
PROPERTIES
    EveryTeamEnds
    WritesAreSafe
    PastIsKept
CHECK_DEADLOCK FALSE
