SPECIFICATION StoreAlone
CONSTANTS
    t1 = t1
    t2 = t2
    t3 = t3
    w1 = w1
    p1 = p1
    p2 = p2
    r1 = r1
    r2 = r2
    Tasks <- ThreeTasks
    Workers = {w1}
    FencedWorkers = {w1}
    NoWorker = NoWorker
    MaxAttempts <- TwoThenOne
    LeaseTicks = 1
    Procs = {}
    WorkerOf <- SharedWorker
    Runners = {}
    ProcOf <- NoRunners
    ProviderSlots = 1
    Outcomes = {}
    Faults = {}
    MaxCrashes = 0
SYMMETRY OthersSymmetry
INVARIANTS
    RowsSound
PROPERTIES
    TerminalImmutable
    NoLeaseRevival
    ImplementsLifecycle
