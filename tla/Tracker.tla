------------------------------ MODULE Tracker ------------------------------
(***************************************************************************)
(* budget.Tracker (internal/budget/tracker.go): the in-memory account of   *)
(* the memory that models hold, per node pool and in total.  Every method  *)
(* takes t.mu for its whole body, so every method is one atomic action.    *)
(*                                                                         *)
(* A resource.Quantity is a whole number of units.  A sum of quantities is *)
(* the number of <<model, unit>> pairs that are held, which is what a loop *)
(* over t.allocations adds up.                                             *)
(***************************************************************************)
EXTENDS ModelKeys

CONSTANTS
    Labels,        \* the "k=v" pairs a node selector may hold
    MaxMemory,     \* the largest memory a model declares, in units
    Memories,      \* Memories[m]: the values spec.resources.memory of m takes
    Selectors,     \* Selectors[m]: the values spec.nodeSelector of m takes
    Totals,        \* the totals SetNodeBudget is called with
    LateBudgets,   \* may a pool get its budget while models already use it?
    NoAllocation,  \* no entry in t.allocations
    NoBudget       \* no entry in t.nodeBudgets

Pools == Labels \cup {"default"}

NodeSelector == SUBSET Labels

Allocation == [Memory : 1..MaxMemory, NodeSelector : NodeSelector]

NodeBudget == [Total : Nat, Allocated : Int]

ASSUME MaxMemoryNat == MaxMemory \in Nat
ASSUME MemoriesType == Memories \in [Models -> SUBSET (1..MaxMemory)]
ASSUME SelectorsType == Selectors \in [Models -> SUBSET NodeSelector]
ASSUME TotalsType == Totals \subseteq Nat
ASSUME LateBudgetsType == LateBudgets \in BOOLEAN
ASSUME NoAllocationFresh == NoAllocation \notin Allocation
ASSUME NoBudgetFresh == NoBudget \notin NodeBudget

VARIABLES
    nodeBudgets,   \* t.nodeBudgets
    allocations    \* t.allocations

trackerVars == <<nodeBudgets, allocations>>

TrackerTypeOK ==
    /\ nodeBudgets \in [Pools -> NodeBudget \cup {NoBudget}]
    /\ allocations \in [Models -> Allocation \cup {NoAllocation}]

TrackerInit ==
    /\ nodeBudgets = [p \in Pools |-> NoBudget]
    /\ allocations = [m \in Models |-> NoAllocation]

----------------------------------------------------------------------------
(* The keys nodeSelectorKey may return: a range over a Go map starts at an *)
(* arbitrary entry, so each call may return any label of the selector.     *)
nodeSelectorKey(selector) == IF selector = {} THEN {"default"} ELSE selector

(* The pools a call on the stored allocation of m may land on.             *)
HeldKeys(m) ==
    IF allocations[m] = NoAllocation
    THEN {"default"}
    ELSE nodeSelectorKey(allocations[m].NodeSelector)

(* budget.Allocated.Add(delta), skipped when the pool has no budget.       *)
Charge(budgets, p, delta) ==
    IF budgets[p] = NoBudget
    THEN budgets
    ELSE [budgets EXCEPT ![p].Allocated = @ + delta]

(* Mutant: an update that forgets the memory the model already holds.      *)
DischargeForgotten(budgets, m, p) == budgets

(* The budgets once the allocation of m, if any, is taken off pool p.      *)
Discharge(budgets, m, p) ==
    IF allocations[m] = NoAllocation
    THEN budgets
    ELSE Charge(budgets, p, -allocations[m].Memory)

Grant(m, mem, selector) ==
    allocations' = [allocations EXCEPT ![m] =
                        [Memory |-> mem, NodeSelector |-> selector]]

(* Is there room in the budget of pool p for mem units more, once credit   *)
(* units are taken off?                                                    *)
Fits(p, mem, credit) ==
    nodeBudgets[p].Allocated - credit + mem <= nodeBudgets[p].Total

(* Mutants: the update case credits what is requested instead of what is   *)
(* held; the test of a new model leaves the requested memory out.          *)
canAllocateLockedCreditsRequest(m, mem, p) ==
    \/ nodeBudgets[p] = NoBudget
    \/ Fits(p, mem, IF allocations[m] = NoAllocation THEN 0 ELSE mem)

canAllocateLockedIgnoresRequest(m, mem, p) ==
    nodeBudgets[p] = NoBudget \/ Fits(p, 0, 0)

(* canAllocateLocked: a model that holds memory is an update and has its   *)
(* own memory credited, whatever pool that memory is held in.              *)
canAllocateLocked(m, mem, p) ==
    \/ nodeBudgets[p] = NoBudget
    \/ Fits(p, mem, IF allocations[m] = NoAllocation
                    THEN 0 ELSE allocations[m].Memory)

(* Mutant: the update case is missing from the second copy of the test.    *)
CanAllocateWithoutUpdate(m, mem, p, q) == nodeBudgets[q] = NoBudget \/ Fits(q, mem, 0)

(* CanAllocate: the same test written a second time.  The key is computed  *)
(* again when the update case finds no budget.                             *)
CanAllocate(m, mem, p, q) ==
    IF allocations[m] # NoAllocation /\ nodeBudgets[p] # NoBudget
    THEN Fits(p, mem, allocations[m].Memory)
    ELSE nodeBudgets[q] = NoBudget \/ Fits(q, mem, 0)

----------------------------------------------------------------------------
Allocate(m, mem, selector, ok) ==
    \E p, new \in nodeSelectorKey(selector), old \in HeldKeys(m) :
        /\ ok = canAllocateLocked(m, mem, p)
        /\ IF ok
           THEN /\ Grant(m, mem, selector)
                /\ nodeBudgets' = Charge(Discharge(nodeBudgets, m, old), new, mem)
           ELSE UNCHANGED trackerVars

(* SyncAllocation: no test of the budget, and no update of an existing     *)
(* allocation.                                                             *)
SyncAllocation(m, mem, selector) ==
    IF allocations[m] # NoAllocation
    THEN UNCHANGED trackerVars
    ELSE /\ Grant(m, mem, selector)
         /\ \E p \in nodeSelectorKey(selector) :
                nodeBudgets' = Charge(nodeBudgets, p, mem)

(* Mutant: the allocation is zeroed and its key stays in the map.          *)
ReleaseModelZeroes(m) ==
    /\ \E p \in HeldKeys(m) : nodeBudgets' = Discharge(nodeBudgets, m, p)
    /\ allocations' = [allocations EXCEPT ![m] = [Memory |-> 0, NodeSelector |-> {}]]

ReleaseModel(m) ==
    /\ \E p \in HeldKeys(m) : nodeBudgets' = Discharge(nodeBudgets, m, p)
    /\ allocations' = [allocations EXCEPT ![m] = NoAllocation]

SetNodeBudget(p, total) ==
    /\ nodeBudgets' = [nodeBudgets EXCEPT ![p] =
            IF @ = NoBudget THEN [Total |-> total, Allocated |-> 0]
                            ELSE [@ EXCEPT !.Total = total]]
    /\ UNCHANGED allocations

----------------------------------------------------------------------------
(* The memory held in pool p, and in all pools (GetTotalAllocatedMemory).  *)
HeldUnits(S) ==
    {u \in S \X (1..MaxMemory) :
        allocations[u[1]] # NoAllocation /\ u[2] <= allocations[u[1]].Memory}

ModelsIn(p) ==
    {m \in Models : allocations[m] # NoAllocation /\ p \in HeldKeys(m)}

PoolMemory(p) == Cardinality(HeldUnits(ModelsIn(p)))

GetTotalAllocatedMemory == Cardinality(HeldUnits(Models))

(* Mutant: only the models that hold all of the pool are named.            *)
GetBlockingModelsFull(p) ==
    {m \in ModelsIn(p) : allocations[m].Memory = nodeBudgets[p].Total}

(* GetBlockingModels: every model of the pool, whatever is requested.      *)
GetBlockingModels(p) == ModelsIn(p)

(* The callers: SetNodeBudget is part of the set-up, before a model uses   *)
(* the pool, unless LateBudgets.                                           *)
ConfigurePool ==
    \E p \in Pools, total \in Totals :
        /\ LateBudgets \/ nodeBudgets[p] # NoBudget \/ ModelsIn(p) = {}
        /\ SetNodeBudget(p, total)

TrackerNext ==
    \/ ConfigurePool
    \/ \E m \in Models : ReleaseModel(m)
    \/ \E m \in Models : \E mem \in Memories[m], selector \in Selectors[m] :
          \/ Allocate(m, mem, selector, TRUE)
          \/ Allocate(m, mem, selector, FALSE)
          \/ SyncAllocation(m, mem, selector)

TrackerSpec == TrackerInit /\ [][TrackerNext]_trackerVars

----------------------------------------------------------------------------
(* Every selector has at most one label, so nodeSelectorKey is a function. *)
SingleLabel ==
    \A m \in Models : \A s \in Selectors[m] :
        \A p, q \in nodeSelectorKey(s) : p = q

(* No model ever changes pool.                                             *)
FixedSelectors == \A m \in Models : \A s, t \in Selectors[m] : s = t

(* The Allocated counter of a pool is the memory the models of the pool    *)
(* hold: no sequence of Allocate, SyncAllocation and ReleaseModel calls,   *)
(* updates and repeated releases included, makes the counter drift         *)
(* (GetAllocatedMemory, "returns total allocated memory for a node pool"). *)
AccountingExact ==
    \A p \in Pools :
        nodeBudgets[p] # NoBudget => nodeBudgets[p].Allocated = PoolMemory(p)

(* The two copies of the admission test agree, so an Allocate that follows *)
(* a successful CanAllocate with no call in between never fails.           *)
CanAllocateAgrees ==
    \A m \in Models : \A mem \in Memories[m], s \in Selectors[m] :
        \A p \in nodeSelectorKey(s) :
            CanAllocate(m, mem, p, p) <=> canAllocateLocked(m, mem, p)

(* A request that is refused although it would fit an empty pool is told   *)
(* at least one model that is in its way (the blocking models of the 429   *)
(* answer): a counter that has drifted would refuse it and name none.      *)
BlockersNamed ==
    \A m \in Models : \A mem \in Memories[m], s \in Selectors[m] :
        \A p \in nodeSelectorKey(s) :
            ~canAllocateLocked(m, mem, p) /\ mem <= nodeBudgets[p].Total =>
                GetBlockingModels(p) # {}

(* An Allocate that succeeds never takes a pool over its total: the pool   *)
(* ends within it, or holds no more than before.                           *)
GrantWithinTotal ==
    \A p \in Pools :
        (nodeBudgets[p] # NoBudget)' =>
            \/ nodeBudgets'[p].Allocated <= nodeBudgets'[p].Total
            \/ /\ nodeBudgets[p] # NoBudget
               /\ nodeBudgets'[p].Allocated <= nodeBudgets[p].Allocated

AllocateWithinBudget ==
    [][\A m \in Models : \A mem \in Memories[m], s \in Selectors[m] :
           Allocate(m, mem, s, TRUE) => GrantWithinTotal]_trackerVars
============================================================================
