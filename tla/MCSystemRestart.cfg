SPECIFICATION FairSystemSpec
CONSTANTS
    Models = {"m1"}
    Labels = {}
    MaxMemory = 2
    Memories <- OneMemory
    Selectors <- NoSelector
    Totals = {}
    LateBudgets = FALSE
    NoAllocation = NoAllocation
    NoBudget = NoBudget
    NoEntry = NoEntry
    Faults = {}
    Requests = {q1, q2}
    Multipart = {}
    MaxInFlight = 2
    MaxMemoryBytes = 3
    NoJob = NoJob
    NoMutex = NoMutex
    Persistent = {"m1"}
    MetricsServer = FALSE
    Deletable = {}
    MaxRestarts = 1
PROPERTY
    RunningPodAccounted
