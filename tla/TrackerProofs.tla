--------------------------- MODULE TrackerProofs ---------------------------
(***************************************************************************)
(* What budget.Tracker keeps true for any set of models, pools, memories   *)
(* and selectors.                                                          *)
(***************************************************************************)
EXTENDS Tracker, FiniteSetTheorems, TLAPS

USE ModelsFinite, MaxMemoryNat, MemoriesType, SelectorsType, TotalsType,
    LateBudgetsType, NoAllocationFresh, NoBudgetFresh

(* The keys of a selector are pools, and there is at least one.            *)
LEMMA KeysArePools ==
    \A s \in NodeSelector : /\ nodeSelectorKey(s) \subseteq Pools
                            /\ nodeSelectorKey(s) # {}
BY DEF nodeSelectorKey, NodeSelector, Pools

LEMMA HeldKeysArePools ==
    TrackerTypeOK => \A m \in Models : HeldKeys(m) \subseteq Pools
BY KeysArePools DEF HeldKeys, TrackerTypeOK, Allocation, Pools

(* Charging a pool changes the Allocated counter of that pool only, and    *)
(* only when it has a budget.                                              *)
LEMMA ChargeEffect ==
    ASSUME NEW B \in [Pools -> NodeBudget \cup {NoBudget}],
           NEW p \in Pools, NEW d \in Int
    PROVE  /\ Charge(B, p, d) \in [Pools -> NodeBudget \cup {NoBudget}]
           /\ \A q \in Pools :
                /\ Charge(B, p, d)[q] = NoBudget <=> B[q] = NoBudget
                /\ B[q] # NoBudget =>
                     /\ Charge(B, p, d)[q].Total = B[q].Total
                     /\ Charge(B, p, d)[q].Allocated =
                            B[q].Allocated + (IF p = q THEN d ELSE 0)
<1>1. CASE B[p] = NoBudget
  BY <1>1 DEF Charge, NodeBudget
<1>2. CASE B[p] # NoBudget
  <2>1. B[p] \in NodeBudget
    BY <1>2
  <2>2. [B[p] EXCEPT !.Allocated = B[p].Allocated + d] \in NodeBudget
    BY <2>1 DEF NodeBudget
  <2>3. Charge(B, p, d) = [B EXCEPT ![p] =
                                [B[p] EXCEPT !.Allocated = B[p].Allocated + d]]
    BY <1>2 DEF Charge
  <2> QED BY <1>2, <2>1, <2>2, <2>3 DEF NodeBudget
<1> QED BY <1>1, <1>2

(* Discharging m from pool p takes the memory of m off that pool only.     *)
Credit(m) == IF allocations[m] = NoAllocation THEN 0 ELSE allocations[m].Memory

LEMMA DischargeEffect ==
    ASSUME TrackerTypeOK, NEW m \in Models, NEW p \in Pools
    PROVE  /\ Discharge(nodeBudgets, m, p)
                \in [Pools -> NodeBudget \cup {NoBudget}]
           /\ Credit(m) \in 0..MaxMemory
           /\ \A q \in Pools :
                /\ Discharge(nodeBudgets, m, p)[q] = NoBudget
                        <=> nodeBudgets[q] = NoBudget
                /\ nodeBudgets[q] # NoBudget =>
                     /\ Discharge(nodeBudgets, m, p)[q].Total = nodeBudgets[q].Total
                     /\ Discharge(nodeBudgets, m, p)[q].Allocated =
                            nodeBudgets[q].Allocated - (IF p = q THEN Credit(m) ELSE 0)
<1>0. nodeBudgets \in [Pools -> NodeBudget \cup {NoBudget}]
  BY DEF TrackerTypeOK
<1>1. CASE allocations[m] = NoAllocation
  BY <1>0, <1>1 DEF Discharge, Credit, NodeBudget
<1>2. CASE allocations[m] # NoAllocation
  <2>1. allocations[m].Memory \in 1..MaxMemory
    BY <1>2 DEF TrackerTypeOK, Allocation
  <2>2. Discharge(nodeBudgets, m, p)
            = Charge(nodeBudgets, p, -allocations[m].Memory)
    BY <1>2 DEF Discharge
  <2>3. -allocations[m].Memory \in Int
    BY <2>1
  <2>4. Credit(m) = allocations[m].Memory
    BY <1>2 DEF Credit
  <2>5. \A q \in Pools : nodeBudgets[q] # NoBudget => nodeBudgets[q].Allocated \in Int
    BY <1>0 DEF NodeBudget
  <2> DEFINE d == -allocations[m].Memory
             C == Charge(nodeBudgets, p, d)
  <2>6. /\ C \in [Pools -> NodeBudget \cup {NoBudget}]
        /\ \A q \in Pools :
             /\ C[q] = NoBudget <=> nodeBudgets[q] = NoBudget
             /\ nodeBudgets[q] # NoBudget =>
                  /\ C[q].Total = nodeBudgets[q].Total
                  /\ C[q].Allocated = nodeBudgets[q].Allocated
                                        + (IF p = q THEN d ELSE 0)
    <3> HIDE DEF d
    <3> QED BY <1>0, <2>3, ChargeEffect DEF d
  <2> QED BY <2>1, <2>2, <2>4, <2>5, <2>6
<1> QED BY <1>1, <1>2

(* The type invariant.                                                     *)
LEMMA GrantType ==
    ASSUME TrackerTypeOK, NEW m \in Models, NEW mem \in Memories[m],
           NEW s \in Selectors[m], Grant(m, mem, s)
    PROVE  /\ allocations' \in [Models -> Allocation \cup {NoAllocation}]
           /\ allocations'[m] = [Memory |-> mem, NodeSelector |-> s]
           /\ allocations'[m] # NoAllocation
           /\ \A n \in Models \ {m} : allocations'[n] = allocations[n]
<1>1. [Memory |-> mem, NodeSelector |-> s] \in Allocation
  BY DEF Allocation, NodeSelector
<1> QED BY <1>1 DEF Grant, TrackerTypeOK

LEMMA TypeStep == TrackerTypeOK /\ [TrackerNext]_trackerVars => TrackerTypeOK'
<1> SUFFICES ASSUME TrackerTypeOK, [TrackerNext]_trackerVars PROVE TrackerTypeOK'
  OBVIOUS
<1>1. ASSUME NEW p \in Pools, NEW total \in Totals, SetNodeBudget(p, total)
      PROVE  TrackerTypeOK'
  BY <1>1 DEF SetNodeBudget, TrackerTypeOK, NodeBudget
<1>2. ASSUME NEW m \in Models, ReleaseModel(m) PROVE TrackerTypeOK'
  <2>1. PICK p \in HeldKeys(m) : nodeBudgets' = Discharge(nodeBudgets, m, p)
    BY <1>2 DEF ReleaseModel
  <2>2. p \in Pools
    BY HeldKeysArePools
  <2> QED BY <1>2, <2>1, <2>2, DischargeEffect DEF ReleaseModel, TrackerTypeOK
<1>3. ASSUME NEW m \in Models, NEW mem \in Memories[m], NEW s \in Selectors[m],
             NEW ok \in BOOLEAN, Allocate(m, mem, s, ok)
      PROVE  TrackerTypeOK'
  <2>1. PICK p, new \in nodeSelectorKey(s), old \in HeldKeys(m) :
          IF ok THEN /\ Grant(m, mem, s)
                     /\ nodeBudgets' = Charge(Discharge(nodeBudgets, m, old), new, mem)
                ELSE UNCHANGED trackerVars
    BY <1>3 DEF Allocate
  <2>2. new \in Pools /\ old \in Pools
    BY KeysArePools, HeldKeysArePools
  <2>3. mem \in Int
    OBVIOUS
  <2>4. CASE ok
    <3>1. Grant(m, mem, s)
      BY <2>1, <2>4
    <3>2. Discharge(nodeBudgets, m, old) \in [Pools -> NodeBudget \cup {NoBudget}]
      BY <2>2, DischargeEffect
    <3>3. nodeBudgets' \in [Pools -> NodeBudget \cup {NoBudget}]
      BY <2>1, <2>2, <2>3, <2>4, <3>2, ChargeEffect
    <3> QED BY <3>1, <3>3, GrantType DEF TrackerTypeOK
  <2>5. CASE ~ok
    BY <2>1, <2>5 DEF TrackerTypeOK, trackerVars
  <2> QED BY <2>4, <2>5
<1>4. ASSUME NEW m \in Models, NEW mem \in Memories[m], NEW s \in Selectors[m],
             SyncAllocation(m, mem, s)
      PROVE  TrackerTypeOK'
  <2>1. CASE allocations[m] # NoAllocation
    BY <1>4, <2>1 DEF SyncAllocation, TrackerTypeOK, trackerVars
  <2>2. CASE allocations[m] = NoAllocation
    <3>1. PICK p \in nodeSelectorKey(s) : nodeBudgets' = Charge(nodeBudgets, p, mem)
      BY <1>4, <2>2 DEF SyncAllocation
    <3>2. p \in Pools /\ mem \in Int
      BY KeysArePools
    <3>3. Grant(m, mem, s)
      BY <1>4, <2>2 DEF SyncAllocation
    <3> QED BY <3>1, <3>2, <3>3, GrantType, ChargeEffect DEF TrackerTypeOK
  <2> QED BY <2>1, <2>2
<1>5. CASE UNCHANGED trackerVars
  BY <1>5 DEF TrackerTypeOK, trackerVars
<1> QED BY <1>1, <1>2, <1>3, <1>4, <1>5 DEF TrackerNext, ConfigurePool

LEMMA TypeInit == TrackerInit => TrackerTypeOK
BY DEF TrackerInit, TrackerTypeOK

(* Budgets and allocations keep their types: in particular no call stores  *)
(* an allocation without a memory or a selector.                           *)
THEOREM TypeCorrect == TrackerSpec => []TrackerTypeOK
BY TypeInit, TypeStep, PTL DEF TrackerSpec
----------------------------------------------------------------------------
(* The memory of a pool, split into what m holds in it and the rest.       *)
Own(m, p) == IF m \in ModelsIn(p) THEN allocations[m].Memory ELSE 0

Rest(m, p) == HeldUnits(ModelsIn(p) \ {m})

PoolsSplit ==
    \A m \in Models, p \in Pools :
        /\ Cardinality(Rest(m, p)) \in Nat
        /\ Own(m, p) \in Nat
        /\ PoolMemory(p) = Cardinality(Rest(m, p)) + Own(m, p)

LEMMA PoolSplit == TrackerTypeOK => PoolsSplit
<1> SUFFICES ASSUME TrackerTypeOK, NEW m \in Models, NEW p \in Pools
             PROVE  /\ Cardinality(Rest(m, p)) \in Nat
                    /\ Own(m, p) \in Nat
                    /\ PoolMemory(p) = Cardinality(Rest(m, p)) + Own(m, p)
  BY DEF PoolsSplit
<1> DEFINE mine == {m} \X (1..Own(m, p))
<1>1. IsFiniteSet(Models \X (1..MaxMemory))
  <2>1. IsFiniteSet(1..MaxMemory)
    BY FS_Interval
  <2> QED BY <2>1, FS_Product
<1>2. Rest(m, p) \subseteq Models \X (1..MaxMemory)
  BY DEF Rest, HeldUnits, ModelsIn
<1>3. IsFiniteSet(Rest(m, p)) /\ Cardinality(Rest(m, p)) \in Nat
  BY <1>1, <1>2, FS_Subset, FS_CardinalityType
<1>4. Own(m, p) \in Nat /\ Own(m, p) <= MaxMemory
  BY DEF Own, ModelsIn, TrackerTypeOK, Allocation
<1>5. IsFiniteSet(mine) /\ Cardinality(mine) = Own(m, p)
  <2>1. IsFiniteSet({m}) /\ Cardinality({m}) = 1
    BY FS_Singleton
  <2>2. IsFiniteSet(1..Own(m, p)) /\ Cardinality(1..Own(m, p)) = Own(m, p)
    BY <1>4, FS_Interval
  <2> HIDE DEF Own
  <2>3. IsFiniteSet(mine) /\ Cardinality(mine) = 1 * Cardinality(1..Own(m, p))
    BY <2>1, <2>2, FS_Product
  <2> QED BY <1>4, <2>2, <2>3
<1>6. HeldUnits(ModelsIn(p)) = Rest(m, p) \cup mine
  BY <1>4 DEF HeldUnits, Rest, Own, ModelsIn, TrackerTypeOK, Allocation
<1>7. Rest(m, p) \cap mine = {}
  BY DEF Rest, HeldUnits
<1>8. PoolMemory(p) = Cardinality(Rest(m, p)) + Cardinality(mine) - 0
  BY <1>3, <1>5, <1>6, <1>7, FS_Union, FS_EmptySet DEF PoolMemory
<1> QED BY <1>3, <1>4, <1>5, <1>8

(* A step that touches no other model leaves the rest of a pool alone.     *)
LEMMA RestKept ==
    ASSUME NEW m \in Models, NEW p \in Pools,
           \A n \in Models \ {m} : allocations'[n] = allocations[n]
    PROVE  Rest(m, p)' = Rest(m, p)
<1>1. \A n \in Models \ {m} : HeldKeys(n)' = HeldKeys(n)
  BY DEF HeldKeys
<1>2. (ModelsIn(p) \ {m})' = ModelsIn(p) \ {m}
  BY <1>1 DEF ModelsIn
<1> QED BY <1>2 DEF Rest, HeldUnits, ModelsIn

(* So the memory of the pool changes by what m gains or loses in it.       *)
LEMMA PoolChange ==
    ASSUME TrackerTypeOK, TrackerTypeOK', NEW m \in Models, NEW p \in Pools,
           \A n \in Models \ {m} : allocations'[n] = allocations[n]
    PROVE  /\ PoolMemory(p) \in Int
           /\ PoolMemory(p)' = PoolMemory(p) - Own(m, p) + Own(m, p)'
<1>1. PoolsSplit'
  BY PoolSplit, PTL
<1>2. /\ Cardinality(Rest(m, p)') \in Nat
      /\ Own(m, p)' \in Nat
      /\ PoolMemory(p)' = Cardinality(Rest(m, p)') + Own(m, p)'
  BY <1>1 DEF PoolsSplit
<1>3. Rest(m, p)' = Rest(m, p)
  BY RestKept
<1>4. /\ Cardinality(Rest(m, p)) \in Nat
      /\ Own(m, p) \in Nat
      /\ PoolMemory(p) = Cardinality(Rest(m, p)) + Own(m, p)
  BY PoolSplit DEF PoolsSplit
<1> HIDE DEF PoolMemory, Rest, Own
<1> QED BY <1>2, <1>3, <1>4

----------------------------------------------------------------------------
(* Every stored allocation carries a selector its model's spec has had.    *)
SelectorsKept ==
    \A m \in Models :
        allocations[m] # NoAllocation => allocations[m].NodeSelector \in Selectors[m]

AccountingInv == TrackerTypeOK /\ SelectorsKept /\ AccountingExact

(* With one label per selector, what m holds sits in one pool.             *)
LEMMA OwnHeld ==
    ASSUME SingleLabel, TrackerTypeOK, SelectorsKept,
           NEW m \in Models, NEW k \in HeldKeys(m), NEW p \in Pools
    PROVE  Own(m, p) = IF p = k THEN Credit(m) ELSE 0
<1>1. CASE allocations[m] = NoAllocation
  BY <1>1 DEF Own, Credit, ModelsIn
<1>2. CASE allocations[m] # NoAllocation
  <2>1. HeldKeys(m) = {k}
    BY <1>2 DEF SingleLabel, SelectorsKept, HeldKeys
  <2> QED BY <1>2, <2>1 DEF Own, Credit, ModelsIn
<1> QED BY <1>1, <1>2

(* A grant puts the new memory in the pool of the new selector.            *)
LEMMA OwnGranted ==
    ASSUME SingleLabel, TrackerTypeOK, NEW m \in Models, NEW mem \in Memories[m],
           NEW s \in Selectors[m], Grant(m, mem, s),
           NEW k \in nodeSelectorKey(s), NEW p \in Pools
    PROVE  Own(m, p)' = IF p = k THEN mem ELSE 0
<1>1. allocations'[m] = [Memory |-> mem, NodeSelector |-> s]
  BY GrantType
<1>2. allocations'[m] # NoAllocation
  BY GrantType
<1>3. nodeSelectorKey(s) = {k}
  BY DEF SingleLabel
<1>4. HeldKeys(m)' = {k}
  BY <1>1, <1>2, <1>3 DEF HeldKeys, nodeSelectorKey
<1>5. (m \in ModelsIn(p))' <=> p = k
  BY <1>2, <1>4 DEF ModelsIn
<1>6. allocations'[m].Memory = mem
  BY <1>1
<1> QED BY <1>5, <1>6 DEF Own

LEMMA SelectorsStep ==
    ASSUME TrackerTypeOK, SelectorsKept, [TrackerNext]_trackerVars
    PROVE  SelectorsKept'
<1>1. ASSUME NEW m \in Models, NEW mem \in Memories[m], NEW s \in Selectors[m],
             Grant(m, mem, s)
      PROVE  SelectorsKept'
  <2>1. /\ allocations'[m] = [Memory |-> mem, NodeSelector |-> s]
        /\ \A n \in Models \ {m} : allocations'[n] = allocations[n]
    BY <1>1, GrantType
  <2> QED BY <2>1 DEF SelectorsKept
<1>2. ASSUME NEW m \in Models, ReleaseModel(m) PROVE SelectorsKept'
  BY <1>2 DEF ReleaseModel, SelectorsKept, TrackerTypeOK
<1>3. CASE UNCHANGED allocations
  BY <1>3 DEF SelectorsKept
<1>4. ASSUME NEW m \in Models, NEW mem \in Memories[m], NEW s \in Selectors[m],
             NEW ok \in BOOLEAN, Allocate(m, mem, s, ok)
      PROVE  Grant(m, mem, s) \/ UNCHANGED allocations
  BY <1>4 DEF Allocate, trackerVars
<1>5. ASSUME NEW m \in Models, NEW mem \in Memories[m], NEW s \in Selectors[m],
             SyncAllocation(m, mem, s)
      PROVE  Grant(m, mem, s) \/ UNCHANGED allocations
  BY <1>5 DEF SyncAllocation, trackerVars
<1>6. ConfigurePool => UNCHANGED allocations
  BY DEF ConfigurePool, SetNodeBudget
<1> QED BY <1>1, <1>2, <1>3, <1>4, <1>5, <1>6 DEF TrackerNext, trackerVars

(* What a grant that replaces the allocation of m does to the counters:    *)
(* the old memory leaves the old pool and the new memory enters the new.   *)
LEMMA GrantKeepsAccount ==
    ASSUME SingleLabel, AccountingInv, TrackerTypeOK',
           NEW m \in Models, NEW mem \in Memories[m], NEW s \in Selectors[m],
           Grant(m, mem, s), NEW old \in HeldKeys(m), NEW new \in nodeSelectorKey(s),
           nodeBudgets' = Charge(Discharge(nodeBudgets, m, old), new, mem)
    PROVE  AccountingExact'
<1> SUFFICES ASSUME NEW p \in Pools, nodeBudgets'[p] # NoBudget
             PROVE  nodeBudgets'[p].Allocated = PoolMemory(p)'
  BY DEF AccountingExact
<1> DEFINE D == Discharge(nodeBudgets, m, old)
<1>0. TrackerTypeOK /\ SelectorsKept /\ AccountingExact
  BY DEF AccountingInv
<1>1. old \in Pools /\ new \in Pools /\ mem \in Int
  BY <1>0, KeysArePools, HeldKeysArePools
<1>2. /\ D \in [Pools -> NodeBudget \cup {NoBudget}]
      /\ Credit(m) \in Int
      /\ D[p] = NoBudget <=> nodeBudgets[p] = NoBudget
      /\ nodeBudgets[p] # NoBudget =>
            D[p].Allocated = nodeBudgets[p].Allocated
                                - (IF old = p THEN Credit(m) ELSE 0)
  BY <1>0, <1>1, DischargeEffect
<1>3. /\ D[p] # NoBudget
      /\ nodeBudgets'[p].Allocated = D[p].Allocated + (IF new = p THEN mem ELSE 0)
  <2> HIDE DEF D
  <2>1. nodeBudgets' = Charge(D, new, mem)
    BY DEF D
  <2> QED BY <1>1, <1>2, <2>1, ChargeEffect
<1>4. nodeBudgets[p].Allocated = PoolMemory(p)
  BY <1>0, <1>2, <1>3 DEF AccountingExact
<1>5. /\ PoolMemory(p) \in Int
      /\ PoolMemory(p)' = PoolMemory(p) - Own(m, p) + Own(m, p)'
  <2>1. \A n \in Models \ {m} : allocations'[n] = allocations[n]
    BY <1>0, GrantType
  <2> QED BY <1>0, <2>1, PoolChange
<1>6. Own(m, p) = IF p = old THEN Credit(m) ELSE 0
  BY <1>0, OwnHeld
<1>7. Own(m, p)' = IF p = new THEN mem ELSE 0
  BY <1>0, OwnGranted
<1> HIDE DEF D, PoolMemory, Own, Credit
<1> QED BY <1>1, <1>2, <1>3, <1>4, <1>5, <1>6, <1>7

LEMMA ReleaseKeepsAccount ==
    ASSUME SingleLabel, AccountingInv, TrackerTypeOK', NEW m \in Models, ReleaseModel(m)
    PROVE  AccountingExact'
<1> SUFFICES ASSUME NEW p \in Pools, nodeBudgets'[p] # NoBudget
             PROVE  nodeBudgets'[p].Allocated = PoolMemory(p)'
  BY DEF AccountingExact
<1>0. TrackerTypeOK /\ SelectorsKept /\ AccountingExact
  BY DEF AccountingInv
<1>1. PICK k \in HeldKeys(m) : nodeBudgets' = Discharge(nodeBudgets, m, k)
  BY DEF ReleaseModel
<1>2. k \in Pools
  BY <1>0, HeldKeysArePools
<1>3. /\ nodeBudgets[p] # NoBudget
      /\ Credit(m) \in Int
      /\ nodeBudgets'[p].Allocated = nodeBudgets[p].Allocated
                                        - (IF k = p THEN Credit(m) ELSE 0)
  BY <1>0, <1>1, <1>2, DischargeEffect
<1>4. nodeBudgets[p].Allocated = PoolMemory(p)
  BY <1>0, <1>3 DEF AccountingExact
<1>5. /\ allocations'[m] = NoAllocation
      /\ \A n \in Models \ {m} : allocations'[n] = allocations[n]
  BY <1>0 DEF ReleaseModel, TrackerTypeOK
<1>6. /\ PoolMemory(p) \in Int
      /\ PoolMemory(p)' = PoolMemory(p) - Own(m, p) + Own(m, p)'
  BY <1>0, <1>5, PoolChange
<1>7. Own(m, p)' = 0
  BY <1>5 DEF Own, ModelsIn
<1>8. Own(m, p) = IF p = k THEN Credit(m) ELSE 0
  BY <1>0, OwnHeld
<1> HIDE DEF PoolMemory, Own, Credit
<1> QED BY <1>3, <1>4, <1>6, <1>7, <1>8

(* SetNodeBudget keeps the counter of a pool it already knows, and opens a *)
(* pool at zero, which is right as long as no model uses the pool.         *)
LEMMA ConfigureKeepsAccount ==
    ASSUME ~LateBudgets, AccountingInv, ConfigurePool
    PROVE  AccountingExact'
<1>0. TrackerTypeOK /\ AccountingExact
  BY DEF AccountingInv
<1>1. PICK p \in Pools, total \in Totals :
        /\ nodeBudgets[p] # NoBudget \/ ModelsIn(p) = {}
        /\ SetNodeBudget(p, total)
  BY DEF ConfigurePool
<1>2. \A q \in Pools : PoolMemory(q)' = PoolMemory(q)
  BY <1>1 DEF SetNodeBudget, PoolMemory, HeldUnits, ModelsIn, HeldKeys
<1>3. \A q \in Pools \ {p} : nodeBudgets'[q] = nodeBudgets[q]
  BY <1>0, <1>1 DEF SetNodeBudget, TrackerTypeOK
<1>4. CASE nodeBudgets[p] # NoBudget
  <2>1. nodeBudgets'[p].Allocated = nodeBudgets[p].Allocated
    BY <1>0, <1>1, <1>4 DEF SetNodeBudget, TrackerTypeOK, NodeBudget
  <2> QED BY <1>0, <1>2, <1>3, <1>4, <2>1 DEF AccountingExact
<1>5. CASE nodeBudgets[p] = NoBudget
  <2>1. nodeBudgets'[p].Allocated = 0
    BY <1>0, <1>1, <1>5 DEF SetNodeBudget, TrackerTypeOK
  <2>2. HeldUnits(ModelsIn(p)) = {}
    BY <1>1, <1>5 DEF HeldUnits
  <2>3. PoolMemory(p) = 0
    BY <2>2, FS_EmptySet DEF PoolMemory
  <2> QED BY <1>0, <1>2, <1>3, <2>1, <2>3 DEF AccountingExact
<1> QED BY <1>4, <1>5

LEMMA AccountingStep ==
    ASSUME SingleLabel, ~LateBudgets
    PROVE  AccountingInv /\ [TrackerNext]_trackerVars => AccountingInv'
<1> SUFFICES ASSUME AccountingInv, [TrackerNext]_trackerVars PROVE AccountingInv'
  OBVIOUS
<1>0. TrackerTypeOK /\ SelectorsKept /\ AccountingExact
  BY DEF AccountingInv
<1>1. TrackerTypeOK' /\ SelectorsKept'
  BY <1>0, TypeStep, SelectorsStep
<1>2. ConfigurePool => AccountingExact'
  BY ConfigureKeepsAccount
<1>3. ASSUME NEW m \in Models, ReleaseModel(m) PROVE AccountingExact'
  BY <1>1, <1>3, ReleaseKeepsAccount
<1>4. UNCHANGED trackerVars => AccountingExact'
  BY <1>0 DEF trackerVars, AccountingExact, PoolMemory, HeldUnits, ModelsIn, HeldKeys
<1>5. ASSUME NEW m \in Models, NEW mem \in Memories[m], NEW s \in Selectors[m],
             NEW ok \in BOOLEAN, Allocate(m, mem, s, ok)
      PROVE  AccountingExact'
  <2>1. PICK new \in nodeSelectorKey(s), old \in HeldKeys(m) :
          IF ok THEN /\ Grant(m, mem, s)
                     /\ nodeBudgets' = Charge(Discharge(nodeBudgets, m, old), new, mem)
                ELSE UNCHANGED trackerVars
    BY <1>5 DEF Allocate
  <2>2. CASE ok
    BY <1>1, <2>1, <2>2, GrantKeepsAccount
  <2> QED BY <1>4, <2>1, <2>2
<1>6. ASSUME NEW m \in Models, NEW mem \in Memories[m], NEW s \in Selectors[m],
             SyncAllocation(m, mem, s)
      PROVE  AccountingExact'
  <2>1. CASE allocations[m] # NoAllocation
    BY <1>4, <1>6, <2>1 DEF SyncAllocation
  <2>2. CASE allocations[m] = NoAllocation
    <3>1. PICK new \in nodeSelectorKey(s) : nodeBudgets' = Charge(nodeBudgets, new, mem)
      BY <1>6, <2>2 DEF SyncAllocation
    <3>2. "default" \in HeldKeys(m) /\ Discharge(nodeBudgets, m, "default") = nodeBudgets
      BY <2>2 DEF HeldKeys, Discharge
    <3>3. Grant(m, mem, s)
      BY <1>6, <2>2 DEF SyncAllocation
    <3> QED BY <1>1, <3>1, <3>2, <3>3, GrantKeepsAccount
  <2> QED BY <2>1, <2>2
<1>7. AccountingExact'
  BY <1>2, <1>3, <1>4, <1>5, <1>6 DEF TrackerNext
<1> QED BY <1>1, <1>7 DEF AccountingInv

LEMMA AccountingStart == TrackerInit => AccountingInv
BY TypeInit DEF TrackerInit, AccountingInv, SelectorsKept, AccountingExact

(* With one label per selector, and every budget set before its pool is    *)
(* used, the Allocated counter of every pool is at all times the memory    *)
(* that t.allocations records in that pool.                                *)
THEOREM AccountingCorrect ==
    ASSUME SingleLabel, ~LateBudgets
    PROVE  TrackerSpec => []AccountingExact
<1>1. AccountingInv /\ [TrackerNext]_trackerVars => AccountingInv'
  BY AccountingStep
<1>2. AccountingInv => AccountingExact
  BY DEF AccountingInv
<1> QED BY AccountingStart, <1>1, <1>2, PTL DEF TrackerSpec

LEMMA RefusalNamesBlockers == AccountingInv => BlockersNamed
<1> SUFFICES ASSUME AccountingInv, NEW m \in Models, NEW mem \in Memories[m],
                    NEW s \in Selectors[m], NEW p \in nodeSelectorKey(s),
                    mem <= nodeBudgets[p].Total, ModelsIn(p) = {}
             PROVE  canAllocateLocked(m, mem, p)
  BY DEF BlockersNamed, GetBlockingModels
<1>0. TrackerTypeOK /\ AccountingExact /\ p \in Pools
  BY KeysArePools DEF AccountingInv
<1>1. CASE nodeBudgets[p] = NoBudget
  BY <1>1 DEF canAllocateLocked
<1>2. CASE nodeBudgets[p] # NoBudget
  <2>1. PoolMemory(p) = 0
    <3>1. HeldUnits(ModelsIn(p)) = {}
      BY DEF HeldUnits
    <3> QED BY <3>1, FS_EmptySet DEF PoolMemory
  <2>2. nodeBudgets[p].Allocated = 0 /\ nodeBudgets[p].Total \in Nat
    BY <1>0, <1>2, <2>1 DEF AccountingExact, TrackerTypeOK, NodeBudget
  <2>3. allocations[m] # NoAllocation => allocations[m].Memory \in 1..MaxMemory
    BY <1>0 DEF TrackerTypeOK, Allocation
  <2>4. mem \in 1..MaxMemory
    OBVIOUS
  <2> QED BY <2>2, <2>3, <2>4 DEF canAllocateLocked, Fits
<1> QED BY <1>1, <1>2

(* With exact counters, a refusal that is not due to the size of the model *)
(* itself names a model that is in the way.                                *)
THEOREM BlockersCorrect ==
    ASSUME SingleLabel, ~LateBudgets
    PROVE  TrackerSpec => []BlockersNamed
<1>1. AccountingInv /\ [TrackerNext]_trackerVars => AccountingInv'
  BY AccountingStep
<1> QED BY AccountingStart, <1>1, RefusalNamesBlockers, PTL DEF TrackerSpec
----------------------------------------------------------------------------
GrantsWithinTotal ==
    \A m \in Models : \A mem \in Memories[m], s \in Selectors[m] :
        Allocate(m, mem, s, TRUE) => GrantWithinTotal

SelectorsInv == TrackerTypeOK /\ SelectorsKept

LEMMA AllocateFits ==
    ASSUME SingleLabel, FixedSelectors, SelectorsInv
    PROVE  GrantsWithinTotal
<1> SUFFICES ASSUME NEW m \in Models, NEW mem \in Memories[m], NEW s \in Selectors[m],
                    Allocate(m, mem, s, TRUE),
                    NEW p \in Pools, nodeBudgets'[p] # NoBudget
             PROVE  \/ nodeBudgets'[p].Allocated <= nodeBudgets'[p].Total
                    \/ /\ nodeBudgets[p] # NoBudget
                       /\ nodeBudgets'[p].Allocated <= nodeBudgets[p].Allocated
  BY DEF GrantsWithinTotal, GrantWithinTotal
<1>0. TrackerTypeOK /\ SelectorsKept
  BY DEF SelectorsInv
<1>1. PICK k, new \in nodeSelectorKey(s), old \in HeldKeys(m) :
        /\ canAllocateLocked(m, mem, k)
        /\ nodeBudgets' = Charge(Discharge(nodeBudgets, m, old), new, mem)
  BY DEF Allocate
<1>2. old \in Pools /\ new \in Pools /\ mem \in Int
  BY <1>0, KeysArePools, HeldKeysArePools
<1>3. k = new
  BY <1>1 DEF SingleLabel
(* The allocation being replaced is held in the same pool.                 *)
<1>4. allocations[m] # NoAllocation => old = new
  BY <1>0, <1>1 DEF SingleLabel, FixedSelectors, SelectorsKept, HeldKeys
<1> DEFINE D == Discharge(nodeBudgets, m, old)
<1>5. /\ D \in [Pools -> NodeBudget \cup {NoBudget}]
      /\ Credit(m) \in 0..MaxMemory
      /\ \A q \in Pools :
            /\ D[q] = NoBudget <=> nodeBudgets[q] = NoBudget
            /\ nodeBudgets[q] # NoBudget =>
                 /\ D[q].Total = nodeBudgets[q].Total
                 /\ D[q].Allocated = nodeBudgets[q].Allocated
                                        - (IF old = q THEN Credit(m) ELSE 0)
  BY <1>0, <1>2, DischargeEffect
<1>6. /\ D[p] # NoBudget
      /\ nodeBudgets'[p].Total = D[p].Total
      /\ nodeBudgets'[p].Allocated = D[p].Allocated + (IF new = p THEN mem ELSE 0)
  <2> HIDE DEF D
  <2>1. nodeBudgets' = Charge(D, new, mem)
    BY <1>1 DEF D
  <2> QED BY <1>2, <1>5, <2>1, ChargeEffect
<1>7. /\ nodeBudgets[p].Allocated \in Int
      /\ nodeBudgets[p].Total \in Nat
  BY <1>0, <1>5, <1>6 DEF TrackerTypeOK, NodeBudget
<1>8. CASE p = new
  <2>1. nodeBudgets[p].Allocated - Credit(m) + mem <= nodeBudgets[p].Total
    BY <1>1, <1>3, <1>5, <1>6, <1>8 DEF canAllocateLocked, Fits, Credit
  <2>2. old # new => Credit(m) = 0
    BY <1>4 DEF Credit
  <2> HIDE DEF D, Credit
  <2> QED BY <1>2, <1>5, <1>6, <1>7, <1>8, <2>1, <2>2
<1>9. CASE p # new
  <2> HIDE DEF D, Credit
  <2> QED BY <1>5, <1>6, <1>7, <1>9
<1> QED BY <1>8, <1>9

(* With one label per selector, and no selector ever edited, an Allocate   *)
(* that succeeds leaves every pool within its total, or no fuller than it  *)
(* found it.                                                               *)
THEOREM AdmissionCorrect ==
    ASSUME SingleLabel, FixedSelectors
    PROVE  TrackerSpec => AllocateWithinBudget
<1>1. TrackerInit => SelectorsInv
  BY TypeInit DEF TrackerInit, SelectorsInv, SelectorsKept
<1>2. SelectorsInv /\ [TrackerNext]_trackerVars => SelectorsInv'
  BY TypeStep, SelectorsStep DEF SelectorsInv
<1>3. SelectorsInv => GrantsWithinTotal
  BY AllocateFits
<1>4. GrantsWithinTotal => [\A m \in Models : \A mem \in Memories[m], s \in Selectors[m] :
                               Allocate(m, mem, s, TRUE) => GrantWithinTotal]_trackerVars
  BY DEF GrantsWithinTotal
<1> QED BY <1>1, <1>2, <1>3, <1>4, PTL DEF TrackerSpec, AllocateWithinBudget

(* Whatever the budgets and the allocations are, exact or not, the two     *)
(* copies of the admission test decide alike for one pool: the answer of   *)
(* CanAllocate is that of an Allocate made in the same state.              *)
THEOREM TestsAgree == TrackerSpec => []CanAllocateAgrees
<1>1. CanAllocateAgrees
  <2>1. \A m, mem, p : CanAllocate(m, mem, p, p) <=> canAllocateLocked(m, mem, p)
    BY DEF CanAllocate, canAllocateLocked
  <2> QED BY <2>1 DEF CanAllocateAgrees
<1> QED BY <1>1, PTL
============================================================================
