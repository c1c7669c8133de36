SPECIFICATION SupSafetySpec
CONSTANTS
    t1 = t1
    t2 = t2
    t3 = t3
    w1 = w1
    p1 = p1
    p2 = p2
    r1 = r1
    r2 = r2
    Tasks <- OneTask
    Workers = {w1}
    FencedWorkers = {w1}
    NoWorker = NoWorker
    MaxAttempts <- TwoAttempts
    LeaseTicks = 2
    Procs = {p1, p2}
    WorkerOf <- SharedWorker
    Runners = {r1, r2}
    ProcOf <- OneRunnerEach
    ProviderSlots = 1
    Outcomes = {"succeeded", "failed"}
    Faults = {"crash", "stop", "raise", "cancel"}
    MaxCrashes = 2
INVARIANTS
    ExclusiveExecution
