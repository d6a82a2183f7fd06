SPECIFICATION FairProxySpec
CONSTANTS
    Models = {"m1", "m2"}
    Labels = {}
    MaxMemory = 2
    Memories <- OneMemory
    Selectors <- NoSelector
    Totals = {2}
    LateBudgets = FALSE
    NoAllocation = NoAllocation
    NoBudget = NoBudget
    NoEntry = NoEntry
    Faults = {"staleCache", "lostAnswer"}
    Requests = {q1, q2}
    Multipart = {}
    MaxInFlight = 2
    MaxMemoryBytes = 3
    NoJob = NoJob
    NoMutex = NoMutex
INVARIANTS
    ProxyTypeOK
    RequestAccounting
    MutexInUse
    ReadyAccounted
PROPERTIES
    OverdrawnBySyncOnly
    EveryRequestAnswered
