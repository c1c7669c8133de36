SPECIFICATION SupSpec
CONSTANTS
    t1 = t1
    t2 = t2
    t3 = t3
    w1 = w1
    p1 = p1
    p2 = p2
    r1 = r1
    r2 = r2
    Tasks <- TwoTasks
    Workers = {w1}
    FencedWorkers = {w1}
    NoWorker = NoWorker
    MaxAttempts <- TwoThenOne
    LeaseTicks = 1
    Procs = {p1}
    WorkerOf <- SharedWorker
    Runners = {r1, r2}
    ProcOf <- BothInOne
    ProviderSlots = 1
    Outcomes = {"succeeded", "failed"}
    Faults = {"raise", "timeout", "cancel"}
    MaxCrashes = 0
PROPERTIES
    EndsUnlessStranded
