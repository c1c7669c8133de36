SPECIFICATION SuiteSpec
CONSTANTS
    r1 = r1
    d1 = d1
    Runs = {r1}
    Services = {1,2,3}
    Drainers = {d1}
    MaxAlive = 2
    c1 = c1
    c2 = c2
    p1 = p1
    p2 = p2
    k1 = k1
    k2 = k2
    Procs = {p1, p2}
    Consumers = {c1, c2}
    ConsumerOf <- Both
    Anyone = Anyone
    MessageKeys = {k1, k2}
    Bodies = {b}
    Capacity = 2
    Limits = {1}
    MaxCrashes = 1
    x1 = x1
    x2 = x2
    Callers <- TwoCallers
    Keys = {k1, k2}
    NoKey = NoKey
    Names = {n1, n2}
    NoName = NoName
    Minted = {m1, m2}
    Contents <- TwoContents
    Nothing = Nothing
INVARIANTS
    RunsSound
    StreamSound
    AdmissionSound
PROPERTIES
    NothingRepeated
    EveryQueuedRunEnds
    EveryStreamMessageServed
CHECK_DEADLOCK FALSE
