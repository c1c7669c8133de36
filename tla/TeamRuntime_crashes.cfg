SPECIFICATION TeamSpec
CONSTANTS
    Topics = {"requests", "events", "dlq", "cancels"}
    Client = Client
    Me = Me
    Senders = {Client, Me}
    Consumers = {Me, r1, r2}
    Anyone = Anyone
    Keys = {}
    Bodies = {}
    Capacity = 5
    Limits = {2}
    Procs = {r1, r2, p3}
    Requests = {r1, r2}
    RequestOf <- InTurn
    CancelMe <- OwnConsumer
    Limit = 2
    MaxAttempts = 2
    MaxCycles = 1
    MaxAlive = 1
CHECK_DEADLOCK FALSE
INVARIANTS
    TeamSound
PROPERTIES
    CommitsHold
