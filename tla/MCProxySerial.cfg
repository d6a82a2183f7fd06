SPECIFICATION ProxySpec
CONSTANTS
    Models = {"m1", "m2", "m3"}
    Labels = {}
    MaxMemory = 2
    Memories <- TwoSizes
    Selectors <- NoSelector
    Totals = {}
    LateBudgets = FALSE
    NoAllocation = NoAllocation
    NoBudget = NoBudget
    NoEntry = NoEntry
    Faults = {"vanish"}
    Requests = {q1, q2, q3, q4}
    Multipart = {q1}
    MaxInFlight = 1
    MaxMemoryBytes = 3
    NoJob = NoJob
    NoMutex = NoMutex
INVARIANT
    GlobalLimit
