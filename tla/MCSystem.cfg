SPECIFICATION FairSystemSpec
CONSTANTS
    Models = {"m1"}
    Labels = {}
    MaxMemory = 2
    Memories <- OneMemory
    Selectors <- NoSelector
    Totals = {}
    LateBudgets = FALSE
    NoAllocation = NoAllocation
    NoBudget = NoBudget
    NoEntry = NoEntry
    Faults = {"staleCache"}
    Requests = {q1, q2}
    Multipart = {}
    MaxInFlight = 1
    MaxMemoryBytes = 3
    NoJob = NoJob
    NoMutex = NoMutex
    Persistent = {}
    MetricsServer = FALSE
    Deletable = {"m1"}
    MaxRestarts = 1
INVARIANTS
    RegistryTypeOK
    ReconcilerTypeOK
    RequestAccounting
PROPERTY
    ScaledToZeroSettles
CHECK_DEADLOCK FALSE
