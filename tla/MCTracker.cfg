SPECIFICATION TrackerSpec
CONSTANTS
    Models = {"m1", "m2", "m3"}
    Labels = {"pool=a"}
    MaxMemory = 3
    Memories <- AnyMemory
    Selectors <- MixedSelectors
    Totals = {3, 4}
    LateBudgets = FALSE
    NoAllocation = NoAllocation
    NoBudget = NoBudget
INVARIANTS
    TrackerTypeOK
    AccountingExact
    CanAllocateAgrees
    BlockersNamed
PROPERTY
    AllocateWithinBudget
