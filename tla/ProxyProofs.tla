---------------------------- MODULE ProxyProofs ----------------------------
(***************************************************************************)
(* What the proxy keeps true for any number of models and of concurrent    *)
(* requests, whatever the cluster does.                                    *)
(***************************************************************************)
EXTENDS Proxy, TrackerProofs, SequenceTheorems

USE ModelsFinite, MaxMemoryNat, MemoriesType, SelectorsType, NoAllocationFresh,
    NoEntryFresh, RequestsFinite, MaxMemoryBytesNat, NoJobFresh, NoMutexFresh

(* The labels of ensureDeployment once it has a mutex.                     *)
InEnsure == Locked \cup Waiting \cup Unlocked

AtVictim == {"evictPod", "evictRelease", "evictForget"}

(* The loop of tryEvictIdleModelsForGlobalLimit is at an entry.            *)
VictimKnown == \A q \in Requests : pc[q] \in AtVictim => evict[q].queue # <<>>

(* The memory and the selector a handler works with come from a spec.      *)
JobFromSpec ==
    \A q \in Requests :
        job[q] # NoJob => /\ job[q].Memory \in Memories[Model(q)]
                          /\ job[q].NodeSelector \in Selectors[Model(q)]

Shape == TrackerTypeOK /\ RegistryTypeOK /\ ProxyTypeOK /\ VictimKnown /\ JobFromSpec

----------------------------------------------------------------------------
(* What the methods of the registry do to the entries.                     *)

(* No count goes up; a new entry starts at zero.                           *)
CountsNotRaised ==
    \A m \in Models :
        entries'[m] # NoEntry =>
            \/ entries'[m].ActiveRequests = 0
            \/ /\ entries[m] # NoEntry
               /\ entries'[m].ActiveRequests <= entries[m].ActiveRequests

(* No entry becomes Ready.                                                 *)
NoneMadeReady ==
    \A m \in Models :
        entries'[m] # NoEntry /\ entries'[m].State = "Ready" =>
            entries[m] # NoEntry /\ entries[m].State = "Ready"

LEMMA OrderType ==
    ASSUME RegistryTypeOK, NEW m \in Models
    PROVE  /\ Without(m) \in SUBSET (Models \X Models)
           /\ WithNewest(m) \in SUBSET (Models \X Models)
BY DEF RegistryTypeOK, Without, WithNewest

LEMMA SetStateEffect ==
    ASSUME RegistryTypeOK, NEW m \in Models, NEW state \in DeploymentState,
           SetState(m, state)
    PROVE  /\ RegistryTypeOK'
           /\ CountsNotRaised
           /\ state # "Ready" => NoneMadeReady
           /\ \A n \in Models \ {m} : entries'[n] = entries[n]
<1>1. CASE entries[m] = NoEntry
  <2>1. NewEntry(state, 0) \in DeploymentEntry
    BY DEF NewEntry, DeploymentEntry
  <2>2. entries' = [entries EXCEPT ![m] = NewEntry(state, 0)]
    BY <1>1 DEF SetState
  <2>3. older' \in SUBSET (Models \X Models)
    BY <1>1, OrderType DEF SetState
  <2> QED BY <2>1, <2>2, <2>3
         DEF RegistryTypeOK, CountsNotRaised, NoneMadeReady, NewEntry, DeploymentEntry
<1>2. CASE entries[m] # NoEntry
  <2>1. entries[m] \in DeploymentEntry
    BY <1>2 DEF RegistryTypeOK
  <2>2. /\ [entries[m] EXCEPT !.State = state] \in DeploymentEntry
        /\ [entries[m] EXCEPT !.State = state].State = state
        /\ [entries[m] EXCEPT !.State = state].ActiveRequests = entries[m].ActiveRequests
    BY <2>1 DEF DeploymentEntry
  <2>3. /\ entries' = [entries EXCEPT ![m] = [entries[m] EXCEPT !.State = state]]
        /\ older' = older
    BY <1>2 DEF SetState
  <2> QED BY <1>2, <2>1, <2>2, <2>3
         DEF RegistryTypeOK, CountsNotRaised, NoneMadeReady, DeploymentEntry
<1> QED BY <1>1, <1>2

LEMMA DeleteEntryEffect ==
    ASSUME RegistryTypeOK, NEW m \in Models, DeleteEntry(m)
    PROVE  /\ RegistryTypeOK'
           /\ CountsNotRaised
           /\ NoneMadeReady
           /\ entries'[m] = NoEntry
BY OrderType
DEF DeleteEntry, RegistryTypeOK, CountsNotRaised, NoneMadeReady, DeploymentEntry

LEMMA RecordRequestEffect ==
    ASSUME RegistryTypeOK, NEW m \in Models, RecordRequest(m)
    PROVE  /\ RegistryTypeOK'
           /\ NoneMadeReady
           /\ entries'[m] # NoEntry
           /\ entries'[m].ActiveRequests =
                1 + (IF entries[m] = NoEntry THEN 0 ELSE entries[m].ActiveRequests)
           /\ \A n \in Models \ {m} : entries'[n] = entries[n]
<1> DEFINE e == IF entries[m] = NoEntry
                THEN NewEntry("Creating", 1)
                ELSE NewEntry(entries[m].State, entries[m].ActiveRequests + 1)
<1>1. /\ e \in DeploymentEntry
      /\ e.ActiveRequests =
            1 + (IF entries[m] = NoEntry THEN 0 ELSE entries[m].ActiveRequests)
      /\ e.State = "Ready" => entries[m] # NoEntry /\ entries[m].State = "Ready"
  BY DEF RegistryTypeOK, NewEntry, DeploymentEntry, DeploymentState
<1>2. entries' = [entries EXCEPT ![m] = e]
  BY DEF RecordRequest
<1>3. older' \in SUBSET (Models \X Models)
  BY OrderType DEF RecordRequest
<1> HIDE DEF e
<1> QED BY <1>1, <1>2, <1>3 DEF RegistryTypeOK, NoneMadeReady

LEMMA FinishRequestEffect ==
    ASSUME RegistryTypeOK, NEW m \in Models, FinishRequest(m)
    PROVE  /\ RegistryTypeOK'
           /\ NoneMadeReady
           /\ entries'[m] # NoEntry =>
                /\ entries[m] # NoEntry
                /\ \/ entries'[m].ActiveRequests = 0
                   \/ entries'[m].ActiveRequests = entries[m].ActiveRequests - 1
           /\ \A n \in Models \ {m} : entries'[n] = entries[n]
<1>1. CASE HasActiveRequests(m)
  <2> DEFINE e == NewEntry(entries[m].State, entries[m].ActiveRequests - 1)
  <2>1. /\ entries[m] # NoEntry
        /\ e \in DeploymentEntry
        /\ e.State = entries[m].State
        /\ e.ActiveRequests = entries[m].ActiveRequests - 1
    BY <1>1 DEF HasActiveRequests, RegistryTypeOK, NewEntry, DeploymentEntry
  <2>2. entries' = [entries EXCEPT ![m] = e] /\ older' = older
    BY <1>1 DEF FinishRequest
  <2> HIDE DEF e
  <2> QED BY <2>1, <2>2 DEF RegistryTypeOK, NoneMadeReady
<1>2. CASE ~HasActiveRequests(m)
  <2>1. entries' = entries /\ older' = older
    BY <1>2 DEF FinishRequest
  <2> QED BY <1>2, <2>1
         DEF RegistryTypeOK, NoneMadeReady, HasActiveRequests, DeploymentEntry
<1> QED BY <1>1, <1>2

----------------------------------------------------------------------------
(* What a step of a handler does to the local variables.                   *)

(* Request q, which has been recorded, moves on to another such label, and *)
(* leaves ensureDeployment only if it has no mutex.                        *)
Moves(q) ==
    \E l \in Recorded :
        /\ pc[q] \in Recorded
        /\ Goto(q, l)
        /\ pc[q] \in InEnsure /\ mu[q] # NoMutex => l \in InEnsure
        /\ UNCHANGED job

(* The queue of no other request is touched.                               *)
OwnEviction(q) == \A r \in Requests \ {q} : evict'[r] = evict[r]

USE DEF InEnsure

LEMMA LabelsRecorded ==
    /\ Locked \subseteq Recorded /\ Waiting \subseteq Recorded
    /\ Unlocked \subseteq Recorded /\ Recorded \subseteq Label
    /\ "idle" \notin Recorded /\ "done" \notin Recorded /\ "record" \notin Recorded
BY DEF Recorded, Label, Locked, Waiting, Unlocked, Evicting

(* A step from one label to the next that changes no local variable.       *)
LEMMA GotoShape ==
    ASSUME ProxyTypeOK, VictimKnown, JobFromSpec, NEW q \in Requests,
           pc[q] \in Recorded, NEW l \in Recorded, Goto(q, l),
           l \in AtVictim => pc[q] \in AtVictim,
           UNCHANGED <<deploymentMutex, localVars>>
    PROVE  ProxyTypeOK' /\ VictimKnown' /\ JobFromSpec' /\ OwnEviction(q)
BY LabelsRecorded
DEF Goto, localVars, ProxyTypeOK, VictimKnown, JobFromSpec, OwnEviction, Model

LEMMA NoEvictionType == NoEviction \in Eviction
<1>1. <<>> \in Seq(Models)
  BY EmptySeq
<1> QED BY <1>1 DEF NoEviction, Eviction

(* Changing one field of the locals keeps the others.                      *)
LEMMA EvictionFields ==
    ASSUME NEW e \in Eviction
    PROVE  /\ \A s \in Seq(Models) : [e EXCEPT !.queue = s] \in Eviction
           /\ \A n \in Int : [e EXCEPT !.needed = n] \in Eviction
           /\ \A f \in Nat : /\ [e EXCEPT !.freed = f] \in Eviction
                             /\ [e EXCEPT !.freed = f].queue = e.queue
           /\ \A u \in 0..MaxMemory : /\ [e EXCEPT !.memory = u] \in Eviction
                                      /\ [e EXCEPT !.memory = u].queue = e.queue
BY DEF Eviction

(* ensureDeployment returns.                                               *)
LEMMA ReturnShape ==
    ASSUME ProxyTypeOK, VictimKnown, JobFromSpec, NEW q \in Requests,
           pc[q] \in Recorded, NEW err \in BOOLEAN, Return(q, err),
           UNCHANGED deploymentMutex
    PROVE  ProxyTypeOK' /\ VictimKnown' /\ JobFromSpec' /\ OwnEviction(q) /\ Moves(q)
<1>1. "unlock" \in Recorded /\ "unlock" \in InEnsure /\ "unlock" \notin AtVictim
  BY DEF Recorded, Locked, AtVictim
<1>2. /\ pc' = [pc EXCEPT ![q] = "unlock"]
      /\ failed' = [failed EXCEPT ![q] = err]
      /\ evict' = [evict EXCEPT ![q] = NoEviction]
      /\ job' = job /\ mu' = mu /\ deploymentMutex' = deploymentMutex
  BY DEF Return, Goto
<1>3. ProxyTypeOK'
  BY <1>1, <1>2, LabelsRecorded, NoEvictionType DEF ProxyTypeOK
<1>4. VictimKnown' /\ JobFromSpec' /\ OwnEviction(q)
  BY <1>1, <1>2 DEF ProxyTypeOK, VictimKnown, JobFromSpec, OwnEviction, Model
<1>5. Moves(q)
  BY <1>1, <1>2 DEF Moves, Goto
<1> QED BY <1>3, <1>4, <1>5

(* A step that changes the locals of the eviction only.                    *)
LEMMA EvictShape ==
    ASSUME ProxyTypeOK, VictimKnown, JobFromSpec, NEW q \in Requests,
           pc[q] \in Recorded, NEW l \in Recorded, pc' = [pc EXCEPT ![q] = l],
           NEW e \in Eviction, l \in AtVictim => e.queue # <<>>,
           evict' = [evict EXCEPT ![q] = e],
           UNCHANGED <<deploymentMutex, job, mu, failed>>
    PROVE  ProxyTypeOK' /\ VictimKnown' /\ JobFromSpec' /\ OwnEviction(q)
<1>1. ProxyTypeOK'
  BY LabelsRecorded DEF ProxyTypeOK
<1>2. VictimKnown' /\ JobFromSpec' /\ OwnEviction(q)
  BY DEF ProxyTypeOK, VictimKnown, JobFromSpec, OwnEviction, Model
<1> QED BY <1>1, <1>2

(* waitForPodReady returns.                                                *)
LEMMA WaitReturnsShape ==
    ASSUME ProxyTypeOK, VictimKnown, JobFromSpec, NEW q \in Requests,
           pc[q] \in Waiting, NEW err \in BOOLEAN, WaitReturns(q, err),
           UNCHANGED deploymentMutex
    PROVE  ProxyTypeOK' /\ VictimKnown' /\ JobFromSpec' /\ OwnEviction(q) /\ Moves(q)
<1>0. pc[q] \in Recorded
  BY LabelsRecorded
<1>1. CASE mu[q] # NoMutex
  BY <1>0, <1>1, ReturnShape DEF WaitReturns
<1>2. CASE mu[q] = NoMutex
  <2> DEFINE l == IF err THEN "finish" ELSE "forward"
  <2>1. Goto(q, l) /\ UNCHANGED localVars
    BY <1>2 DEF WaitReturns
  <2>2. l \in Recorded /\ l \notin AtVictim
    BY DEF Recorded, AtVictim
  <2> HIDE DEF l
  <2>3. Moves(q)
    BY <1>0, <1>2, <2>1, <2>2 DEF Moves, localVars
  <2> QED BY <1>0, <2>1, <2>2, <2>3, GotoShape
<1> QED BY <1>1, <1>2

----------------------------------------------------------------------------
(* Every step of a handler but the ones that change job or mu.             *)
LocalStep(q) ==
    \/ Route(q) \/ Sync(q) \/ Forward(q) \/ Lock(q) \/ Unlock(q)
    \/ Recheck(q) \/ Admit(q) \/ CheckTotal(q) \/ RecheckTotal(q)
    \/ SnapshotIdle(q) \/ ComputeNeeded(q) \/ NextVictim(q)
    \/ EvictPod(q) \/ EvictPodFails(q) \/ EvictRelease(q) \/ EvictForget(q)
    \/ GetBackend(q) \/ GetBackendFails(q) \/ Create(q) \/ CreateFails(q)
    \/ AllocateBudget(q) \/ Cleanup(q) \/ Reset(q)
    \/ PollReady(q) \/ SetReady(q) \/ SyncReady(q)
    \/ WaitTimesOut(q) \/ WaitCancelled(q)

LocalOK(q) ==
    /\ ProxyTypeOK' /\ VictimKnown' /\ JobFromSpec'
    /\ OwnEviction(q) /\ Moves(q)
    /\ UNCHANGED <<deploymentMutex, mu>>

LEMMA GotoOK ==
    ASSUME Shape, NEW q \in Requests, pc[q] \in Recorded, NEW l \in Recorded,
           Goto(q, l), pc[q] \in InEnsure => l \in InEnsure,
           l \in AtVictim => pc[q] \in AtVictim,
           UNCHANGED <<deploymentMutex, localVars>>
    PROVE  LocalOK(q)
<1>1. Moves(q) /\ UNCHANGED mu
  BY DEF Moves, localVars
<1> QED BY <1>1, GotoShape DEF LocalOK, Shape

LEMMA ReturnOK ==
    ASSUME Shape, NEW q \in Requests, pc[q] \in Recorded, NEW err \in BOOLEAN,
           Return(q, err), UNCHANGED deploymentMutex
    PROVE  LocalOK(q)
<1>1. UNCHANGED mu
  BY DEF Return
<1> QED BY <1>1, ReturnShape DEF LocalOK, Shape

LEMMA EvictOK ==
    ASSUME Shape, NEW q \in Requests, pc[q] \in Locked, NEW l \in Locked,
           Goto(q, l), NEW e \in Eviction, l \in AtVictim => e.queue # <<>>,
           evict' = [evict EXCEPT ![q] = e],
           UNCHANGED <<deploymentMutex, job, mu, failed>>
    PROVE  LocalOK(q)
<1>0. pc[q] \in Recorded /\ l \in Recorded /\ pc' = [pc EXCEPT ![q] = l]
  BY LabelsRecorded DEF Goto
<1>1. Moves(q)
  BY <1>0 DEF Moves
<1> QED BY <1>0, <1>1, EvictShape DEF LocalOK, Shape

LEMMA EvictAwayOK ==
    ASSUME Shape, NEW q \in Requests, pc[q] \in Locked, NEW l \in Locked,
           Goto(q, l), NEW e \in Eviction, l \notin AtVictim,
           evict' = [evict EXCEPT ![q] = e],
           UNCHANGED <<deploymentMutex, job, mu, failed>>
    PROVE  LocalOK(q)
BY EvictOK

LEMMA OffVictim ==
    \A l \in {"snapshot", "needed", "evict", "retotal", "backend", "evictPod"} :
        l \in Locked /\ (l # "evictPod" => l \notin AtVictim)
BY DEF Locked, Evicting, AtVictim

LEMMA WaitReturnsOK ==
    ASSUME Shape, NEW q \in Requests, pc[q] \in Waiting, NEW err \in BOOLEAN,
           WaitReturns(q, err), UNCHANGED deploymentMutex
    PROVE  LocalOK(q)
<1>1. UNCHANGED mu
  BY DEF WaitReturns, Return, localVars
<1> QED BY <1>1, WaitReturnsShape DEF LocalOK, Shape

LEMMA TotalType == TrackerTypeOK => GetTotalAllocatedMemory \in Nat
<1>1. IsFiniteSet(1..MaxMemory)
  BY FS_Interval
<1>2. IsFiniteSet(Models \X (1..MaxMemory))
  BY <1>1, FS_Product
<1>3. HeldUnits(Models) \subseteq Models \X (1..MaxMemory)
  BY DEF HeldUnits
<1> QED BY <1>2, <1>3, FS_Subset, FS_CardinalityType DEF GetTotalAllocatedMemory

LEMMA IdleType == \A s \in GetIdleEntriesSorted : s \in Seq(Models)
<1> SUFFICES ASSUME NEW s \in GetIdleEntriesSorted PROVE s \in Seq(Models)
  OBVIOUS
<1>1. PICK n \in 0..Cardinality(Models) : s \in [1..n -> {m \in Models : IsIdle(m)}]
  BY DEF GetIdleEntriesSorted
<1>2. n \in Nat /\ s \in [1..n -> Models]
  BY <1>1
<1> QED BY <1>2, IsASeq

USE DEF Recorded, Locked, Waiting, Unlocked, Evicting, AtVictim

LEMMA LocalSteps ==
    ASSUME Shape, NEW q \in Requests, LocalStep(q)
    PROVE  LocalOK(q)
<1>1. Route(q) => LocalOK(q)
  <2> SUFFICES ASSUME Route(q) PROVE LocalOK(q)
    OBVIOUS
  <2>1. PICK l \in {"wait", "forward", "sync", "ensure"} : Goto(q, l)
    BY DEF Route, openaiRoute, multipartRoute
  <2> QED BY <2>1, GotoOK DEF Route
<1>2. Sync(q) => LocalOK(q)
  BY GotoOK DEF Sync
<1>3. Forward(q) => LocalOK(q)
  BY GotoOK DEF Forward
<1>4. Lock(q) => LocalOK(q)
  BY GotoOK DEF Lock
<1>5. Unlock(q) => LocalOK(q)
  BY GotoOK DEF Unlock
<1>6. EvictPod(q) => LocalOK(q)
  BY GotoOK DEF EvictPod
<1>7. GetBackend(q) => LocalOK(q)
  BY GotoOK DEF GetBackend
<1>8. Create(q) => LocalOK(q)
  BY GotoOK DEF Create
<1>9. CreateFails(q) => LocalOK(q)
  BY GotoOK DEF CreateFails
<1>10. Cleanup(q) => LocalOK(q)
  BY GotoOK DEF Cleanup
<1>11. PollReady(q) => LocalOK(q)
  BY GotoOK DEF PollReady
<1>12. SetReady(q) => LocalOK(q)
  BY GotoOK DEF SetReady
<1>13. Recheck(q) => LocalOK(q)
  <2> SUFFICES ASSUME Recheck(q) PROVE LocalOK(q)
    OBVIOUS
  <2>1. CASE Return(q, FALSE)
    BY <2>1, ReturnOK DEF Recheck
  <2>2. CASE Goto(q, "admit") /\ UNCHANGED localVars
    BY <2>2, GotoOK DEF Recheck
  <2> QED BY <2>1, <2>2 DEF Recheck
<1>14. Admit(q) => LocalOK(q)
  <2> SUFFICES ASSUME Admit(q) PROVE LocalOK(q)
    OBVIOUS
  <2>1. CASE Return(q, TRUE)
    BY <2>1, ReturnOK DEF Admit
  <2>2. ASSUME NEW l \in {"total", "backend"}, Goto(q, l), UNCHANGED localVars
        PROVE  LocalOK(q)
    BY <2>2, GotoOK DEF Admit
  <2> QED BY <2>1, <2>2 DEF Admit
<1>15. CheckTotal(q) => LocalOK(q)
  <2> SUFFICES ASSUME CheckTotal(q) PROVE LocalOK(q)
    OBVIOUS
  <2>1. PICK l \in {"snapshot", "backend"} : Goto(q, l)
    BY DEF CheckTotal
  <2> QED BY <2>1, GotoOK DEF CheckTotal
<1>16. RecheckTotal(q) => LocalOK(q)
  <2> SUFFICES ASSUME RecheckTotal(q) PROVE LocalOK(q)
    OBVIOUS
  <2>1. CASE Return(q, TRUE)
    BY <2>1, ReturnOK DEF RecheckTotal
  <2>2. CASE /\ Goto(q, "backend")
             /\ evict' = [evict EXCEPT ![q] = NoEviction]
             /\ UNCHANGED <<job, mu, failed>>
    <3>1. pc[q] = "retotal" /\ UNCHANGED deploymentMutex
      BY DEF RecheckTotal
    <3> QED BY <2>2, <3>1, NoEvictionType, OffVictim, EvictAwayOK
  <2> QED BY <2>1, <2>2 DEF RecheckTotal
<1>17. SnapshotIdle(q) => LocalOK(q)
  <2> SUFFICES ASSUME SnapshotIdle(q) PROVE LocalOK(q)
    OBVIOUS
  <2>1. CASE Return(q, TRUE)
    BY <2>1, ReturnOK DEF SnapshotIdle
  <2>2. ASSUME NEW idle \in GetIdleEntriesSorted,
               evict' = [evict EXCEPT ![q].queue = idle],
               Goto(q, "needed"), UNCHANGED <<job, mu, failed>>
        PROVE  LocalOK(q)
    <3>1. evict' = [evict EXCEPT ![q] = [evict[q] EXCEPT !.queue = idle]]
      BY <2>2
    <3>2. [evict[q] EXCEPT !.queue = idle] \in Eviction
      BY IdleType, EvictionFields DEF Shape, ProxyTypeOK
    <3>3. pc[q] = "snapshot" /\ UNCHANGED deploymentMutex
      BY DEF SnapshotIdle
    <3> QED BY <2>2, <3>1, <3>2, <3>3, OffVictim, EvictAwayOK
  <2> QED BY <2>1, <2>2 DEF SnapshotIdle
<1>18. ComputeNeeded(q) => LocalOK(q)
  <2> SUFFICES ASSUME ComputeNeeded(q) PROVE LocalOK(q)
    OBVIOUS
  <2> DEFINE needed == job[q].Memory - (MaxMemoryBytes - GetTotalAllocatedMemory)
  <2>1. job[q] \in Job
    BY DEF ComputeNeeded, Shape, ProxyTypeOK
  <2>2. needed \in Int
    BY <2>1, TotalType DEF Shape, Job
  <2>3. evict' = [evict EXCEPT ![q] = [evict[q] EXCEPT !.needed = needed]]
    BY DEF ComputeNeeded
  <2> HIDE DEF needed
  <2>4. [evict[q] EXCEPT !.needed = needed] \in Eviction
    BY <2>2, EvictionFields DEF Shape, ProxyTypeOK
  <2>5. /\ pc[q] = "needed" /\ Goto(q, "evict")
        /\ UNCHANGED <<deploymentMutex, job, mu, failed>>
    BY DEF ComputeNeeded
  <2> QED BY <2>3, <2>4, <2>5, OffVictim, EvictAwayOK
<1>19. NextVictim(q) => LocalOK(q)
  <2> SUFFICES ASSUME NextVictim(q) PROVE LocalOK(q)
    OBVIOUS
  <2>0. evict[q] \in Eviction
    BY DEF Shape, ProxyTypeOK
  <2>1. CASE Return(q, TRUE)
    BY <2>1, ReturnOK DEF NextVictim
  <2>2. CASE Goto(q, "retotal") /\ UNCHANGED localVars
    BY <2>2, GotoOK DEF NextVictim
  <2>3. CASE /\ evict[q].queue # <<>>
             /\ evict' = [evict EXCEPT ![q].queue = Tail(@)]
             /\ UNCHANGED <<pc, job, mu, failed>>
    <3>1. evict' = [evict EXCEPT ![q] = [evict[q] EXCEPT !.queue = Tail(evict[q].queue)]]
      BY <2>3
    <3>2. Tail(evict[q].queue) \in Seq(Models)
      BY <2>0, <2>3 DEF Eviction
    <3>3. [evict[q] EXCEPT !.queue = Tail(evict[q].queue)] \in Eviction
      BY <2>0, <3>2 DEF Eviction
    <3>4. pc[q] = "evict" /\ Goto(q, "evict")
      BY <2>3 DEF NextVictim, Goto, Shape, ProxyTypeOK
    <3> QED BY <2>3, <3>1, <3>3, <3>4, EvictOK DEF NextVictim
  <2>4. CASE /\ evict[q].queue # <<>>
             /\ allocations[Victim(q)] # NoAllocation
             /\ evict' = [evict EXCEPT ![q].memory = allocations[Victim(q)].Memory]
             /\ Goto(q, "evictPod")
             /\ UNCHANGED <<job, mu, failed>>
    <3>1. Victim(q) \in Models
      BY <2>0, <2>4 DEF Eviction, Victim
    <3>2. allocations[Victim(q)].Memory \in 1..MaxMemory
      BY <2>4, <3>1 DEF Shape, TrackerTypeOK, Allocation
    <3> DEFINE mem == allocations[Victim(q)].Memory
    <3>3. evict' = [evict EXCEPT ![q] = [evict[q] EXCEPT !.memory = mem]]
      BY <2>4
    <3>4. mem \in 0..MaxMemory
      BY <3>2
    <3> HIDE DEF mem
    <3>5. /\ [evict[q] EXCEPT !.memory = mem] \in Eviction
          /\ [evict[q] EXCEPT !.memory = mem].queue = evict[q].queue
      BY <2>0, <3>4 DEF Eviction
    <3> QED BY <2>4, <3>3, <3>5, EvictOK DEF NextVictim
  <2> QED BY <2>1, <2>2, <2>3, <2>4 DEF NextVictim
<1>20. EvictPodFails(q) => LocalOK(q)
  <2> SUFFICES ASSUME EvictPodFails(q) PROVE LocalOK(q)
    OBVIOUS
  <2> DEFINE d == [evict[q] EXCEPT !.queue = Tail(evict[q].queue)]
             e == [d EXCEPT !.memory = 0]
  <2>1. evict[q] \in Eviction /\ evict[q].queue # <<>>
    BY DEF EvictPodFails, Shape, ProxyTypeOK, VictimKnown
  <2>2. Tail(evict[q].queue) \in Seq(Models)
    BY <2>1 DEF Eviction
  <2>3. evict' = [evict EXCEPT ![q] = e]
    BY DEF EvictPodFails, Shape, ProxyTypeOK
  <2>4. d \in Eviction
    BY <2>1, <2>2, EvictionFields
  <2> HIDE DEF d
  <2>5. e \in Eviction
    BY <2>4, EvictionFields
  <2>6. /\ pc[q] = "evictPod" /\ Goto(q, "evict")
        /\ UNCHANGED <<deploymentMutex, job, mu, failed>>
    BY DEF EvictPodFails
  <2> HIDE DEF e
  <2> QED BY <2>3, <2>5, <2>6, OffVictim, EvictAwayOK
<1>21. EvictRelease(q) => LocalOK(q)
  <2> SUFFICES ASSUME EvictRelease(q) PROVE LocalOK(q)
    OBVIOUS
  <2> DEFINE sum == evict[q].freed + evict[q].memory
             d == [evict[q] EXCEPT !.freed = sum]
             e == [d EXCEPT !.memory = 0]
  <2>1. evict[q] \in Eviction /\ evict[q].queue # <<>>
    BY DEF EvictRelease, Shape, ProxyTypeOK, VictimKnown
  <2>2. sum \in Nat
    BY <2>1 DEF Eviction
  <2>3. evict' = [evict EXCEPT ![q] = e]
    BY DEF EvictRelease, Shape, ProxyTypeOK
  <2> HIDE DEF sum
  <2>4. d \in Eviction /\ d.queue # <<>>
    BY <2>1, <2>2, EvictionFields
  <2> HIDE DEF d
  <2>5. e \in Eviction /\ e.queue = d.queue
    <3>1. 0 \in 0..MaxMemory
      OBVIOUS
    <3> QED BY <2>4, <3>1, EvictionFields
  <2>6. e.queue # <<>>
    BY <2>4, <2>5
  <2> HIDE DEF e
  <2> QED BY <2>3, <2>5, <2>6, EvictOK DEF EvictRelease
<1>22. EvictForget(q) => LocalOK(q)
  <2> SUFFICES ASSUME EvictForget(q) PROVE LocalOK(q)
    OBVIOUS
  <2> DEFINE e == [evict[q] EXCEPT !.queue = Tail(evict[q].queue)]
  <2>1. evict[q] \in Eviction /\ evict[q].queue # <<>>
    BY DEF EvictForget, Shape, ProxyTypeOK, VictimKnown
  <2>2. Tail(evict[q].queue) \in Seq(Models)
    BY <2>1 DEF Eviction
  <2>3. evict' = [evict EXCEPT ![q] = e]
    BY DEF EvictForget, Shape, ProxyTypeOK
  <2>4. e \in Eviction
    BY <2>1, <2>2 DEF Eviction
  <2>5. PICK l \in {"retotal", "evict"} : Goto(q, l)
    BY DEF EvictForget
  <2> HIDE DEF e
  <2> QED BY <2>3, <2>4, <2>5, EvictOK DEF EvictForget
<1>23. GetBackendFails(q) => LocalOK(q)
  BY ReturnOK DEF GetBackendFails
<1>24. AllocateBudget(q) => LocalOK(q)
  <2> SUFFICES ASSUME AllocateBudget(q) PROVE LocalOK(q)
    OBVIOUS
  <2>1. PICK l \in {"wait", "cleanup"} : Goto(q, l)
    BY DEF AllocateBudget
  <2> QED BY <2>1, GotoOK DEF AllocateBudget
<1>25. Reset(q) => LocalOK(q)
  BY ReturnOK DEF Reset
<1>26. SyncReady(q) => LocalOK(q)
  BY WaitReturnsOK DEF SyncReady
<1>27. WaitTimesOut(q) => LocalOK(q)
  BY WaitReturnsOK DEF WaitTimesOut
<1>28. WaitCancelled(q) => LocalOK(q)
  BY WaitReturnsOK DEF WaitCancelled
<1> QED
  BY <1>1, <1>2, <1>3, <1>4, <1>5, <1>6, <1>7, <1>8, <1>9, <1>10, <1>11,
     <1>12, <1>13, <1>14, <1>15, <1>16, <1>17, <1>18, <1>19, <1>20, <1>21,
     <1>22, <1>23, <1>24, <1>25, <1>26, <1>27, <1>28
     DEF LocalStep

----------------------------------------------------------------------------
LEMMA JobModel ==
    ASSUME Shape, NEW q \in Requests, pc[q] \notin {"idle", "done"}
    PROVE  /\ job[q] \in Job /\ Model(q) \in Models
           /\ job[q].Memory \in Memories[Model(q)]
           /\ job[q].NodeSelector \in Selectors[Model(q)]
<1>1. job[q] # NoJob /\ job[q] \in Job
  BY DEF Shape, ProxyTypeOK
<1> QED BY <1>1 DEF Shape, JobFromSpec, Job, Model

LEMMA VictimModel ==
    ASSUME Shape, NEW q \in Requests, pc[q] \in AtVictim
    PROVE  Victim(q) \in Models
<1>1. evict[q] \in Eviction /\ evict[q].queue # <<>>
  BY DEF Shape, ProxyTypeOK, VictimKnown
<1> QED BY <1>1 DEF Victim, Eviction

(* What these steps do to the entries.                                     *)
LEMMA LocalRegistry ==
    ASSUME Shape, NEW q \in Requests, LocalStep(q)
    PROVE  /\ RegistryTypeOK'
           /\ CountsNotRaised
           /\ ~SetReady(q) => NoneMadeReady
<1>0. RegistryTypeOK
  BY DEF Shape
<1>1. CASE UNCHANGED registryVars
  BY <1>0, <1>1 DEF registryVars, RegistryTypeOK, CountsNotRaised, NoneMadeReady,
                    DeploymentEntry
<1>2. ASSUME NEW state \in DeploymentState, SetState(Model(q), state),
             pc[q] \notin {"idle", "done"}, state = "Ready" => SetReady(q)
      PROVE  /\ RegistryTypeOK' /\ CountsNotRaised
             /\ ~SetReady(q) => NoneMadeReady
  BY <1>0, <1>2, JobModel, SetStateEffect
<1>3. CASE EvictForget(q)
  BY <1>0, <1>3, VictimModel, DeleteEntryEffect DEF EvictForget
<1>4. CASE GetBackend(q)
  BY <1>2, <1>4 DEF GetBackend, DeploymentState
<1>5. CASE Reset(q)
  BY <1>2, <1>5 DEF Reset, DeploymentState
<1>6. CASE SetReady(q)
  BY <1>2, <1>6 DEF SetReady, DeploymentState
<1>7. CASE WaitTimesOut(q)
  BY <1>2, <1>7 DEF WaitTimesOut, DeploymentState
<1> QED
  BY <1>1, <1>3, <1>4, <1>5, <1>6, <1>7
     DEF LocalStep, Route, Sync, Forward, Lock, Unlock, Recheck, Admit, CheckTotal,
         RecheckTotal, SnapshotIdle, ComputeNeeded, NextVictim, EvictPod,
         EvictPodFails, EvictRelease, GetBackendFails, Create, CreateFails,
         AllocateBudget, Cleanup, PollReady, SyncReady, WaitCancelled

(* Every call on the tracker is a step of the tracker's specification.     *)
LEMMA LocalTracker ==
    ASSUME Shape, NEW q \in Requests, LocalStep(q)
    PROVE  [TrackerNext]_trackerVars
<1>1. CASE UNCHANGED trackerVars
  BY <1>1
<1>2. ASSUME SyncAllocation(Model(q), job[q].Memory, job[q].NodeSelector),
             pc[q] \notin {"idle", "done"}
      PROVE  TrackerNext
  BY <1>2, JobModel DEF TrackerNext
<1>3. CASE Sync(q) \/ SyncReady(q)
  BY <1>2, <1>3 DEF Sync, SyncReady
<1>4. CASE AllocateBudget(q)
  <2>1. PICK ok \in BOOLEAN : Allocate(Model(q), job[q].Memory, job[q].NodeSelector, ok)
    BY <1>4 DEF AllocateBudget
  <2>2. pc[q] \notin {"idle", "done"}
    BY <1>4 DEF AllocateBudget
  <2>3. ok = TRUE \/ ok = FALSE
    OBVIOUS
  <2> QED BY <2>1, <2>2, <2>3, JobModel, ZenonT(30) DEF TrackerNext
<1>5. CASE EvictRelease(q)
  BY <1>5, VictimModel DEF EvictRelease, TrackerNext
<1> QED
  BY <1>1, <1>3, <1>4, <1>5
     DEF LocalStep, Route, Forward, Lock, Unlock, Recheck, Admit, CheckTotal,
         RecheckTotal, SnapshotIdle, ComputeNeeded, NextVictim, EvictPod,
         EvictPodFails, EvictForget, GetBackend, GetBackendFails, Create, CreateFails,
         Cleanup, Reset, PollReady, SetReady, WaitTimesOut, WaitCancelled

----------------------------------------------------------------------------
(* Types are kept by every step of the proxy.                              *)
LEMMA ShapeStep ==
    ASSUME Shape, NEW q \in Requests, Reject(q) \/ Arrive(q) \/ Handle(q)
    PROVE  Shape'
<1>0. /\ TrackerTypeOK /\ RegistryTypeOK /\ ProxyTypeOK
      /\ VictimKnown /\ JobFromSpec
  BY DEF Shape
<1>1. CASE LocalStep(q)
  <2>1. TrackerTypeOK'
    BY <1>0, <1>1, LocalTracker, TypeStep
  <2> QED BY <1>1, <2>1, LocalRegistry, LocalSteps DEF Shape, LocalOK
<1>2. UNCHANGED trackerVars => TrackerTypeOK'
  BY <1>0 DEF trackerVars, TrackerTypeOK
<1>3. UNCHANGED registryVars => RegistryTypeOK'
  BY <1>0 DEF registryVars, RegistryTypeOK
<1>4. CASE Reject(q)
  <2>1. ProxyTypeOK' /\ VictimKnown' /\ JobFromSpec'
    BY <1>0, <1>4
       DEF Reject, Goto, localVars, ProxyTypeOK, VictimKnown, JobFromSpec, Label, Model
  <2> QED BY <1>2, <1>3, <1>4, <2>1 DEF Reject, Shape
<1>5. CASE Arrive(q)
  <2>1. PICK m \in Models : \E mem \in Memories[m], s \in Selectors[m] :
          job' = [job EXCEPT ![q] = [model |-> m, Memory |-> mem, NodeSelector |-> s]]
    BY <1>5 DEF Arrive
  <2>2. PICK mem \in Memories[m], s \in Selectors[m] :
          job' = [job EXCEPT ![q] = [model |-> m, Memory |-> mem, NodeSelector |-> s]]
    BY <2>1
  <2> DEFINE j == [model |-> m, Memory |-> mem, NodeSelector |-> s]
  <2>3. /\ j \in Job /\ j # NoJob
        /\ j.model = m /\ j.Memory \in Memories[m] /\ j.NodeSelector \in Selectors[m]
    BY DEF Job, NodeSelector
  <2>4. job' = [job EXCEPT ![q] = j]
    BY <2>2
  <2> HIDE DEF j
  <2>5. /\ pc' = [pc EXCEPT ![q] = "record"]
        /\ UNCHANGED <<trackerVars, registryVars, deploymentMutex, mu, failed, evict>>
    BY <1>5 DEF Arrive, Goto
  <2>6. ProxyTypeOK'
    BY <1>0, <2>3, <2>4, <2>5 DEF ProxyTypeOK, Label
  <2>7. VictimKnown'
    BY <1>0, <2>5 DEF ProxyTypeOK, VictimKnown
  <2>8. JobFromSpec'
    BY <1>0, <2>3, <2>4 DEF ProxyTypeOK, JobFromSpec, Model
  <2> QED BY <1>2, <1>3, <2>5, <2>6, <2>7, <2>8 DEF Shape
<1>6. CASE Record(q)
  <2>1. Model(q) \in Models
    BY <1>6, JobModel DEF Record
  <2>2. RegistryTypeOK'
    BY <1>0, <1>6, <2>1, RecordRequestEffect DEF Record
  <2>3. ProxyTypeOK' /\ VictimKnown' /\ JobFromSpec'
    BY <1>0, <1>6
       DEF Record, Goto, localVars, ProxyTypeOK, VictimKnown, JobFromSpec, Label, Model
  <2> QED BY <1>2, <1>6, <2>2, <2>3 DEF Record, Shape
<1>7. CASE Finish(q)
  <2>1. Model(q) \in Models
    BY <1>7, JobModel DEF Finish
  <2>2. RegistryTypeOK'
    BY <1>0, <1>7, <2>1, FinishRequestEffect DEF Finish
  <2>3. /\ pc' = [pc EXCEPT ![q] = "done"]
        /\ job' = [job EXCEPT ![q] = NoJob]
        /\ failed' = [failed EXCEPT ![q] = FALSE]
        /\ UNCHANGED <<deploymentMutex, mu, evict>>
    BY <1>7 DEF Finish, Goto
  <2>4. ProxyTypeOK' /\ VictimKnown' /\ JobFromSpec'
    BY <1>0, <2>3 DEF ProxyTypeOK, VictimKnown, JobFromSpec, Label, Model
  <2> QED BY <1>2, <1>7, <2>2, <2>4 DEF Finish, Shape
<1>8. CASE LoadOrStore(q)
  <2>1. Model(q) \in Models
    BY <1>8, JobModel DEF LoadOrStore
  <2>2. ProxyTypeOK' /\ VictimKnown' /\ JobFromSpec'
    BY <1>0, <1>8, <2>1
       DEF LoadOrStore, Goto, ProxyTypeOK, VictimKnown, JobFromSpec, Label, Model
  <2> QED BY <1>2, <1>3, <1>8, <2>2 DEF LoadOrStore, Shape
<1>9. CASE Unstore(q)
  <2>1. ProxyTypeOK' /\ VictimKnown' /\ JobFromSpec'
    BY <1>0, <1>9
       DEF Unstore, Goto, ProxyTypeOK, VictimKnown, JobFromSpec, Label, Model
  <2> QED BY <1>2, <1>3, <1>9, <2>1 DEF Unstore, Shape
<1> QED BY <1>1, <1>4, <1>5, <1>6, <1>7, <1>8, <1>9 DEF Handle, LocalStep

(* Every step of the proxy is a step of the tracker, or leaves it alone.   *)
LEMMA TrackerStep ==
    ASSUME Shape, NEW q \in Requests, Reject(q) \/ Arrive(q) \/ Handle(q)
    PROVE  [TrackerNext]_trackerVars
<1>1. CASE LocalStep(q)
  BY <1>1, LocalTracker
<1> QED BY <1>1 DEF Handle, LocalStep, Reject, Arrive, Record, Finish, LoadOrStore, Unstore

----------------------------------------------------------------------------
(* RequestAccounting.                                                      *)
LEMMA InFlightFinite ==
    ASSUME NEW m
    PROVE  IsFiniteSet(InFlightFor(m)) /\ Cardinality(InFlightFor(m)) \in Nat
<1>1. InFlightFor(m) \subseteq Requests
  BY DEF InFlightFor
<1> QED BY <1>1, FS_Subset, FS_CardinalityType

(* Counts that are not raised stay within an unchanged number of requests. *)
LEMMA CountsKept ==
    ASSUME RegistryTypeOK, RegistryTypeOK', RequestAccounting, CountsNotRaised,
           \A m \in Models : InFlightFor(m)' = InFlightFor(m)
    PROVE  RequestAccounting'
<1> SUFFICES ASSUME NEW m \in Models, entries'[m] # NoEntry
             PROVE  entries'[m].ActiveRequests <= Cardinality(InFlightFor(m)')
  BY DEF RequestAccounting
<1>1. Cardinality(InFlightFor(m)) \in Nat
  BY InFlightFinite
<1>2. entries'[m].ActiveRequests \in Nat
  BY DEF RegistryTypeOK, DeploymentEntry
<1>3. entries[m] # NoEntry =>
        /\ entries[m].ActiveRequests \in Nat
        /\ entries[m].ActiveRequests <= Cardinality(InFlightFor(m))
  BY DEF RegistryTypeOK, DeploymentEntry, RequestAccounting
<1> HIDE DEF InFlightFor
<1> QED BY <1>1, <1>2, <1>3 DEF CountsNotRaised

LEMMA CountStep ==
    ASSUME Shape, Shape', RequestAccounting,
           NEW q \in Requests, Reject(q) \/ Arrive(q) \/ Handle(q)
    PROVE  RequestAccounting'
<1>0. RegistryTypeOK /\ RegistryTypeOK' /\ ProxyTypeOK
  BY DEF Shape
<1>1. UNCHANGED registryVars => CountsNotRaised
  BY <1>0 DEF registryVars, RegistryTypeOK, CountsNotRaised, DeploymentEntry
<1>2. CASE LocalStep(q)
  <2>1. Moves(q) /\ CountsNotRaised
    BY <1>2, LocalSteps, LocalRegistry DEF LocalOK
  <2>2. \A m \in Models : InFlightFor(m)' = InFlightFor(m)
    BY <1>0, <2>1 DEF Moves, Goto, InFlightFor, Model, ProxyTypeOK
  <2> QED BY <1>0, <2>1, <2>2, CountsKept
<1>3. CASE Reject(q) \/ Arrive(q) \/ LoadOrStore(q) \/ Unstore(q)
  <2>1. \A m \in Models : InFlightFor(m)' = InFlightFor(m)
    BY <1>0, <1>3
       DEF Reject, Arrive, LoadOrStore, Unstore, Goto, InFlightFor, Model, ProxyTypeOK,
           localVars
  <2>2. CountsNotRaised
    BY <1>1, <1>3 DEF Reject, Arrive, LoadOrStore, Unstore
  <2> QED BY <1>0, <2>1, <2>2, CountsKept
<1>4. CASE Record(q)
  <2>1. PICK n \in Models : n = Model(q) /\ pc[q] = "record"
    BY <1>4, JobModel DEF Record
  <2>2. /\ entries'[n] # NoEntry
        /\ entries'[n].ActiveRequests =
             1 + (IF entries[n] = NoEntry THEN 0 ELSE entries[n].ActiveRequests)
        /\ \A m \in Models \ {n} : entries'[m] = entries[m]
    BY <1>0, <1>4, <2>1, RecordRequestEffect DEF Record
  <2>3. /\ InFlightFor(n)' = InFlightFor(n) \cup {q}
        /\ q \notin InFlightFor(n)
        /\ \A m \in Models \ {n} : InFlightFor(m)' = InFlightFor(m)
    BY <1>0, <1>4, <2>1 DEF Record, Goto, InFlightFor, Model, ProxyTypeOK, localVars
  <2>4. /\ Cardinality(InFlightFor(n)') = Cardinality(InFlightFor(n)) + 1
        /\ Cardinality(InFlightFor(n)) \in Nat
    BY <2>3, InFlightFinite, FS_AddElement
  <2>5. entries[n] # NoEntry =>
          /\ entries[n].ActiveRequests \in Nat
          /\ entries[n].ActiveRequests <= Cardinality(InFlightFor(n))
    BY <1>0, <2>1 DEF RegistryTypeOK, DeploymentEntry, RequestAccounting
  <2>6. entries'[n].ActiveRequests <= Cardinality(InFlightFor(n)')
    <3> HIDE DEF InFlightFor
    <3> QED BY <2>2, <2>4, <2>5
  <2>7. ASSUME NEW m \in Models \ {n}, entries'[m] # NoEntry
        PROVE  entries'[m].ActiveRequests <= Cardinality(InFlightFor(m)')
    BY <2>2, <2>3, <2>7 DEF RequestAccounting
  <2> SUFFICES ASSUME NEW m \in Models, entries'[m] # NoEntry
               PROVE  entries'[m].ActiveRequests <= Cardinality(InFlightFor(m)')
    BY DEF RequestAccounting
  <2>8. CASE m = n
    BY <2>6, <2>8
  <2>9. CASE m # n
    BY <2>7, <2>9
  <2> QED BY <2>8, <2>9
<1>5. CASE Finish(q)
  <2>1. PICK n \in Models : n = Model(q) /\ pc[q] = "finish"
    BY <1>5, JobModel DEF Finish
  <2>2. /\ entries'[n] # NoEntry =>
              /\ entries[n] # NoEntry
              /\ \/ entries'[n].ActiveRequests = 0
                 \/ entries'[n].ActiveRequests = entries[n].ActiveRequests - 1
        /\ \A m \in Models \ {n} : entries'[m] = entries[m]
    BY <1>0, <1>5, <2>1, FinishRequestEffect DEF Finish
  <2>3. /\ InFlightFor(n)' = InFlightFor(n) \ {q}
        /\ q \in InFlightFor(n)
        /\ \A m \in Models \ {n} : InFlightFor(m)' = InFlightFor(m)
    <3>1. \A r \in Requests : r # q => pc'[r] = pc[r] /\ job'[r] = job[r]
      BY <1>0, <1>5 DEF Finish, Goto, ProxyTypeOK
    <3>2. pc'[q] \notin Recorded /\ pc[q] \in Recorded
      BY <1>0, <1>5 DEF Finish, Goto, ProxyTypeOK
    <3> HIDE DEF Recorded
    <3>3. q \in InFlightFor(n)
      BY <2>1, <3>2 DEF InFlightFor
    <3>4. \A m \in Models, r \in Requests \ {q} :
            (r \in InFlightFor(m))' <=> r \in InFlightFor(m)
      BY <3>1 DEF InFlightFor, Model
    <3>5. \A m \in Models : /\ q \notin InFlightFor(m)'
                            /\ InFlightFor(m)' \subseteq Requests
                            /\ InFlightFor(m) \subseteq Requests
                            /\ m # n => q \notin InFlightFor(m)
      BY <2>1, <3>2 DEF InFlightFor, Model
    <3> HIDE DEF InFlightFor
    <3>6. InFlightFor(n)' = InFlightFor(n) \ {q}
      BY <3>4, <3>5, Zenon
    <3>7. ASSUME NEW m \in Models \ {n} PROVE InFlightFor(m)' = InFlightFor(m)
      <4>1. m \in Models /\ m # n
        OBVIOUS
      <4>2. /\ q \notin InFlightFor(m) /\ q \notin InFlightFor(m)'
            /\ InFlightFor(m) \subseteq Requests /\ InFlightFor(m)' \subseteq Requests
        BY <3>5, <4>1
      <4>3. ASSUME NEW r PROVE r \in InFlightFor(m)' <=> r \in InFlightFor(m)
        BY <3>4, <4>1, <4>2, SMT
      <4> QED BY <4>3, Zenon
    <3> QED BY <3>3, <3>6, <3>7
  <2>4. /\ Cardinality(InFlightFor(n)') = Cardinality(InFlightFor(n)) - 1
        /\ Cardinality(InFlightFor(n)) \in Nat
        /\ Cardinality(InFlightFor(n)') \in Nat
    <3>1. IsFiniteSet(InFlightFor(n) \ {q})
      BY InFlightFinite, FS_Subset
    <3> QED BY <2>3, <3>1, InFlightFinite, FS_RemoveElement, FS_CardinalityType
  <2>5. entries[n] # NoEntry =>
          /\ entries[n].ActiveRequests \in Nat
          /\ entries[n].ActiveRequests <= Cardinality(InFlightFor(n))
    BY <1>0, <2>1 DEF RegistryTypeOK, DeploymentEntry, RequestAccounting
  <2>6. entries'[n] # NoEntry =>
          entries'[n].ActiveRequests <= Cardinality(InFlightFor(n)')
    <3> HIDE DEF InFlightFor
    <3> QED BY <2>2, <2>4, <2>5
  <2>7. ASSUME NEW m \in Models \ {n}, entries'[m] # NoEntry
        PROVE  entries'[m].ActiveRequests <= Cardinality(InFlightFor(m)')
    BY <2>2, <2>3, <2>7 DEF RequestAccounting
  <2> SUFFICES ASSUME NEW m \in Models, entries'[m] # NoEntry
               PROVE  entries'[m].ActiveRequests <= Cardinality(InFlightFor(m)')
    BY DEF RequestAccounting
  <2>8. CASE m = n
    BY <2>6, <2>8
  <2>9. CASE m # n
    BY <2>7, <2>9
  <2> QED BY <2>8, <2>9
<1> QED BY <1>2, <1>3, <1>4, <1>5 DEF Handle, LocalStep

----------------------------------------------------------------------------
(* MutexInUse.                                                             *)
LEMMA MutexStep ==
    ASSUME Shape, MutexInUse, NEW q \in Requests, Reject(q) \/ Arrive(q) \/ Handle(q)
    PROVE  MutexInUse'
<1> SUFFICES ASSUME NEW m \in Models, deploymentMutex'[m] # NoMutex,
                    NEW x, x = deploymentMutex'[m]
             PROVE  /\ pc'[x] \in InEnsure
                    /\ job'[x].model = m
                    /\ mu'[x] = x
  BY DEF MutexInUse, Model
<1>0. ProxyTypeOK
  BY DEF Shape
(* The holder of a mutex that was in the map before.                       *)
<1>1. ASSUME deploymentMutex[m] = x
      PROVE  /\ x \in Requests /\ x # NoMutex
             /\ pc[x] \in InEnsure /\ job[x].model = m /\ mu[x] = x
  BY <1>0, <1>1 DEF ProxyTypeOK, MutexInUse, Model
<1>2. CASE LocalStep(q)
  <2>1. Moves(q) /\ UNCHANGED <<deploymentMutex, mu>>
    BY <1>2, LocalSteps DEF LocalOK
  <2>2. deploymentMutex[m] = x
    BY <2>1
  <2>3. PICK l \in Recorded :
          /\ pc' = [pc EXCEPT ![q] = l]
          /\ pc[q] \in InEnsure /\ mu[q] # NoMutex => l \in InEnsure
          /\ job' = job
    BY <2>1 DEF Moves, Goto
  <2>4. pc'[x] \in InEnsure
    <3>1. CASE x = q
      BY <1>0, <1>1, <2>2, <2>3, <3>1 DEF ProxyTypeOK
    <3>2. CASE x # q
      BY <1>0, <1>1, <2>2, <2>3, <3>2 DEF ProxyTypeOK
    <3> QED BY <3>1, <3>2
  <2> QED BY <1>1, <2>1, <2>2, <2>3, <2>4
<1>3. CASE Reject(q) \/ Arrive(q) \/ Record(q) \/ Finish(q)
  <2>1. /\ deploymentMutex[m] = x /\ UNCHANGED mu
        /\ pc[q] \in {"idle", "record", "finish"}
    BY <1>3 DEF Reject, Arrive, Record, Finish, localVars
  <2>2. x # q
    BY <1>1, <2>1
  <2>3. pc'[x] = pc[x] /\ job'[x] = job[x]
    BY <1>0, <1>1, <1>3, <2>1, <2>2
       DEF Reject, Arrive, Record, Finish, Goto, localVars, ProxyTypeOK
  <2> QED BY <1>1, <2>1, <2>3
<1>4. CASE LoadOrStore(q)
  <2>0. /\ pc[q] = "ensure" /\ pc' = [pc EXCEPT ![q] = "lock"] /\ job' = job
        /\ \E y : /\ deploymentMutex' = [deploymentMutex EXCEPT ![Model(q)] = y]
                  /\ mu' = [mu EXCEPT ![q] = y]
                  /\ y = IF deploymentMutex[Model(q)] = NoMutex
                         THEN q ELSE deploymentMutex[Model(q)]
    BY <1>4 DEF LoadOrStore, Goto
  <2>1. Model(q) \in Models
    BY <2>0, JobModel
  <2>2. CASE deploymentMutex[m] = x
    <3>1. x # q
      BY <1>1, <2>0, <2>2
    <3> QED BY <1>0, <1>1, <2>0, <2>2, <3>1 DEF ProxyTypeOK
  <2>3. CASE deploymentMutex[m] # x
    <3>1. m = Model(q) /\ x = q
      BY <1>0, <2>0, <2>1, <2>3 DEF ProxyTypeOK
    <3> QED BY <1>0, <2>0, <2>1, <2>3, <3>1 DEF ProxyTypeOK, Model
  <2> QED BY <2>2, <2>3
<1>5. CASE Unstore(q)
  <2>0. /\ deploymentMutex' = [deploymentMutex EXCEPT ![Model(q)] = NoMutex]
        /\ mu' = [mu EXCEPT ![q] = NoMutex] /\ job' = job
        /\ \E l : pc' = [pc EXCEPT ![q] = l]
    BY <1>5 DEF Unstore, Goto
  <2>1. m # Model(q) /\ deploymentMutex[m] = x
    BY <1>0, <2>0 DEF ProxyTypeOK
  <2>2. x # q
    BY <1>1, <2>1 DEF Model
  <2> QED BY <1>0, <1>1, <2>0, <2>1, <2>2 DEF ProxyTypeOK
<1> QED BY <1>2, <1>3, <1>4, <1>5 DEF Handle, LocalStep

----------------------------------------------------------------------------
(* ReadyAccounted.                                                         *)
AllocationsKept ==
    \A m \in Models : allocations[m] # NoAllocation => allocations'[m] # NoAllocation

(* Some request is about to sync the allocation of m, or to forget m.      *)
Excused(m, q) ==
    \/ pc[q] = "synced" /\ Model(q) = m
    \/ pc[q] = "evictForget" /\ Victim(q) = m

(* What the other requests are about to do stays as it is.                 *)
LEMMA OthersExcused ==
    ASSUME NEW m \in Models, NEW q \in Requests, NEW r \in Requests, r # q,
           pc'[r] = pc[r], job'[r] = job[r], evict'[r] = evict[r], Excused(m, r)
    PROVE  Excused(m, r)'
BY DEF Excused, Model, Victim

LEMMA GrantKeeps ==
    ASSUME Shape, NEW q \in Requests, pc[q] \notin {"idle", "done"},
           Grant(Model(q), job[q].Memory, job[q].NodeSelector)
    PROVE  AllocationsKept /\ allocations'[Model(q)] # NoAllocation
BY JobModel, GrantType DEF AllocationsKept, Shape

LEMMA SyncKeeps ==
    ASSUME Shape, NEW q \in Requests, pc[q] \notin {"idle", "done"},
           SyncAllocation(Model(q), job[q].Memory, job[q].NodeSelector)
    PROVE  AllocationsKept /\ allocations'[Model(q)] # NoAllocation
<1>1. CASE allocations[Model(q)] # NoAllocation
  BY <1>1 DEF SyncAllocation, AllocationsKept, trackerVars
<1>2. CASE allocations[Model(q)] = NoAllocation
  BY <1>2, GrantKeeps DEF SyncAllocation
<1> QED BY <1>1, <1>2

(* A step by q that takes nothing away and makes nothing Ready, from a     *)
(* label at which q excuses nothing.                                       *)
LEMMA QuietReady ==
    ASSUME ReadyAccounted, NEW q \in Requests, AllocationsKept, NoneMadeReady,
           \A m \in Models : ~Excused(m, q),
           \A r \in Requests \ {q} :
                pc'[r] = pc[r] /\ job'[r] = job[r] /\ evict'[r] = evict[r]
    PROVE  ReadyAccounted'
<1> SUFFICES ASSUME NEW m \in Models, entries'[m] # NoEntry,
                    entries'[m].State = "Ready", allocations'[m] = NoAllocation
             PROVE  \E r \in Requests : Excused(m, r)'
  BY DEF ReadyAccounted, Excused
<1>1. PICK r \in Requests : Excused(m, r)
  BY DEF ReadyAccounted, Excused, AllocationsKept, NoneMadeReady
<1>2. r # q
  BY <1>1
<1> QED BY <1>1, <1>2, OthersExcused

LEMMA ReadyStep ==
    ASSUME Shape, ReadyAccounted,
           NEW q \in Requests, Reject(q) \/ Arrive(q) \/ Handle(q)
    PROVE  ReadyAccounted'
<1>0. RegistryTypeOK /\ ProxyTypeOK /\ TrackerTypeOK
  BY DEF Shape
<1>1. UNCHANGED allocations => AllocationsKept
  BY DEF AllocationsKept
<1>2. UNCHANGED registryVars => NoneMadeReady
  BY DEF registryVars, NoneMadeReady
<1>3. LocalStep(q) =>
        \A r \in Requests \ {q} : pc'[r] = pc[r] /\ job'[r] = job[r] /\ evict'[r] = evict[r]
  BY <1>0, LocalSteps DEF LocalOK, Moves, Goto, OwnEviction, ProxyTypeOK
<1>4. pc[q] \notin {"synced", "evictForget"} => \A m \in Models : ~Excused(m, q)
  BY DEF Excused
<1>5. CASE Reject(q) \/ Arrive(q) \/ Record(q) \/ Finish(q) \/ LoadOrStore(q) \/ Unstore(q)
  <2>1. AllocationsKept
    BY <1>1, <1>5
       DEF Reject, Arrive, Record, Finish, LoadOrStore, Unstore, trackerVars
  <2>2. NoneMadeReady
    <3>1. CASE Record(q)
      BY <1>0, <3>1, JobModel, RecordRequestEffect DEF Record
    <3>2. CASE Finish(q)
      BY <1>0, <3>2, JobModel, FinishRequestEffect DEF Finish
    <3> QED BY <1>2, <1>5, <3>1, <3>2 DEF Reject, Arrive, LoadOrStore, Unstore
  <2>3. \A r \in Requests \ {q} : pc'[r] = pc[r] /\ job'[r] = job[r] /\ evict'[r] = evict[r]
    BY <1>0, <1>5
       DEF Reject, Arrive, Record, Finish, LoadOrStore, Unstore, Goto, localVars, ProxyTypeOK
  <2>4. pc[q] \notin {"synced", "evictForget"}
    BY <1>5 DEF Reject, Arrive, Record, Finish, LoadOrStore, Unstore
  <2> QED BY <1>4, <2>1, <2>2, <2>3, <2>4, QuietReady
<1>6. CASE Sync(q) \/ AllocateBudget(q)
  <2>1. AllocationsKept
    <3>1. CASE Sync(q)
      BY <3>1, SyncKeeps DEF Sync
    <3>2. CASE AllocateBudget(q)
      <4>1. \/ Grant(Model(q), job[q].Memory, job[q].NodeSelector)
            \/ UNCHANGED trackerVars
        BY <3>2 DEF AllocateBudget, Allocate
      <4>2. pc[q] \notin {"idle", "done"}
        BY <3>2 DEF AllocateBudget
      <4> QED BY <1>1, <4>1, <4>2, GrantKeeps DEF trackerVars
    <3> QED BY <1>6, <3>1, <3>2
  <2>2. LocalStep(q) /\ NoneMadeReady /\ pc[q] \notin {"synced", "evictForget"}
    BY <1>2, <1>6 DEF LocalStep, Sync, AllocateBudget
  <2> QED BY <1>3, <1>4, <2>1, <2>2, QuietReady
<1>7. CASE SyncReady(q)
  <2>1. /\ LocalStep(q) /\ NoneMadeReady /\ pc[q] = "synced"
        /\ AllocationsKept /\ allocations'[Model(q)] # NoAllocation
    BY <1>2, <1>7, SyncKeeps DEF LocalStep, SyncReady
  <2> SUFFICES ASSUME NEW m \in Models, entries'[m] # NoEntry,
                      entries'[m].State = "Ready", allocations'[m] = NoAllocation
               PROVE  \E r \in Requests : Excused(m, r)'
    BY DEF ReadyAccounted, Excused
  <2>2. PICK r \in Requests : Excused(m, r)
    BY <2>1 DEF ReadyAccounted, Excused, AllocationsKept, NoneMadeReady
  <2>3. r # q
    BY <2>1, <2>2 DEF Excused
  <2> QED BY <1>3, <2>1, <2>2, <2>3, OthersExcused
<1>8. CASE SetReady(q)
  <2>1. /\ LocalStep(q) /\ pc[q] = "ready" /\ pc'[q] = "synced"
        /\ job' = job /\ allocations' = allocations
    BY <1>0, <1>8
       DEF LocalStep, SetReady, Goto, localVars, trackerVars, ProxyTypeOK
  <2>2. \A n \in Models \ {Model(q)} : entries'[n] = entries[n]
    BY <1>0, <1>8, <2>1, JobModel, SetStateEffect DEF SetReady, DeploymentState
  <2> SUFFICES ASSUME NEW m \in Models, entries'[m] # NoEntry,
                      entries'[m].State = "Ready", allocations'[m] = NoAllocation
               PROVE  \E r \in Requests : Excused(m, r)'
    BY DEF ReadyAccounted, Excused
  <2>3. CASE m = Model(q)
    BY <2>1, <2>3 DEF Excused, Model
  <2>4. CASE m # Model(q)
    <3>1. PICK r \in Requests : Excused(m, r)
      BY <2>1, <2>2, <2>4 DEF ReadyAccounted, Excused
    <3>2. r # q
      BY <2>1, <3>1 DEF Excused
    <3> QED BY <1>3, <2>1, <3>1, <3>2, OthersExcused
  <2> QED BY <2>3, <2>4
<1>9. CASE EvictRelease(q)
  <2>1. /\ LocalStep(q) /\ pc[q] = "evictRelease" /\ pc'[q] = "evictForget"
        /\ UNCHANGED entries
    BY <1>0, <1>9 DEF LocalStep, EvictRelease, Goto, registryVars, ProxyTypeOK
  <2>2. evict'[q].queue = evict[q].queue
    <3>1. evict[q] \in Eviction
      BY <1>0 DEF ProxyTypeOK
    <3>2. evict'[q] = [evict[q] EXCEPT !.freed = evict[q].freed + evict[q].memory,
                                       !.memory = 0]
      BY <1>0, <1>9 DEF EvictRelease, ProxyTypeOK
    <3> QED BY <3>1, <3>2 DEF Eviction
  <2>3. \A n \in Models \ {Victim(q)} : allocations'[n] = allocations[n]
    BY <1>0, <1>9 DEF EvictRelease, ReleaseModel, TrackerTypeOK
  <2> SUFFICES ASSUME NEW m \in Models, entries'[m] # NoEntry,
                      entries'[m].State = "Ready", allocations'[m] = NoAllocation
               PROVE  \E r \in Requests : Excused(m, r)'
    BY DEF ReadyAccounted, Excused
  <2>4. CASE m = Victim(q)
    BY <2>1, <2>2, <2>4 DEF Excused, Victim
  <2>5. CASE m # Victim(q)
    <3>1. PICK r \in Requests : Excused(m, r)
      BY <2>1, <2>3, <2>5 DEF ReadyAccounted, Excused
    <3>2. r # q
      BY <2>1, <3>1 DEF Excused
    <3> QED BY <1>3, <2>1, <3>1, <3>2, OthersExcused
  <2> QED BY <2>4, <2>5
<1>10. CASE EvictForget(q)
  <2>1. /\ LocalStep(q) /\ pc[q] = "evictForget" /\ UNCHANGED allocations
    BY <1>10 DEF LocalStep, EvictForget, trackerVars
  <2>2. NoneMadeReady /\ entries'[Victim(q)] = NoEntry
    BY <1>0, <1>10, <2>1, VictimModel, DeleteEntryEffect DEF EvictForget
  <2> SUFFICES ASSUME NEW m \in Models, entries'[m] # NoEntry,
                      entries'[m].State = "Ready", allocations'[m] = NoAllocation
               PROVE  \E r \in Requests : Excused(m, r)'
    BY DEF ReadyAccounted, Excused
  <2>3. PICK r \in Requests : Excused(m, r)
    BY <2>1, <2>2 DEF ReadyAccounted, Excused, NoneMadeReady
  <2>4. r # q
    BY <2>1, <2>2, <2>3 DEF Excused
  <2> QED BY <1>3, <2>1, <2>3, <2>4, OthersExcused
<1>11. CASE /\ LocalStep(q) /\ UNCHANGED trackerVars
            /\ pc[q] \notin {"ready", "synced", "evictForget"}
  <2>1. NoneMadeReady
    BY <1>11, LocalRegistry DEF SetReady
  <2> QED BY <1>1, <1>3, <1>4, <1>11, <2>1, QuietReady DEF trackerVars
<1>12. CASE LocalStep(q)
  BY <1>6, <1>7, <1>8, <1>9, <1>10, <1>11, <1>12
     DEF LocalStep, Route, Forward, Lock, Unlock, Recheck, Admit, CheckTotal,
         RecheckTotal, SnapshotIdle, ComputeNeeded, NextVictim, EvictPod,
         EvictPodFails, GetBackend, GetBackendFails, Create, CreateFails,
         Cleanup, Reset, PollReady, WaitTimesOut, WaitCancelled
<1> QED BY <1>5, <1>12 DEF Handle, LocalStep

----------------------------------------------------------------------------
(* The inductive invariant, and the theorems.                              *)
ProxyInv == Shape /\ RequestAccounting /\ MutexInUse /\ ReadyAccounted

LEMMA ServeStep == ProxyInv /\ Serve => ProxyInv'
<1> SUFFICES ASSUME ProxyInv, NEW q \in Requests, Reject(q) \/ Arrive(q) \/ Handle(q)
             PROVE  ProxyInv'
  BY DEF Serve
<1>1. Shape /\ RequestAccounting /\ MutexInUse /\ ReadyAccounted
  BY DEF ProxyInv
<1>2. Shape'
  BY <1>1, ShapeStep
<1>3. RequestAccounting' /\ MutexInUse' /\ ReadyAccounted'
  BY <1>1, <1>2, CountStep, MutexStep, ReadyStep
<1> QED BY <1>2, <1>3 DEF ProxyInv

LEMMA ProxyQuiet ==
    ASSUME ProxyInv, UNCHANGED <<trackerVars, registryVars, proxyVars>>
    PROVE  ProxyInv'
<1>1. Shape'
  BY DEF ProxyInv, Shape, trackerVars, registryVars, proxyVars, localVars, TrackerTypeOK,
         RegistryTypeOK, ProxyTypeOK, VictimKnown, JobFromSpec, Model
<1>2. RequestAccounting' /\ MutexInUse' /\ ReadyAccounted'
  BY DEF ProxyInv, trackerVars, registryVars, proxyVars, localVars, RequestAccounting,
         MutexInUse, ReadyAccounted, InFlightFor, Model, Victim
<1> QED BY <1>1, <1>2 DEF ProxyInv

LEMMA ProxyInvStep == ProxyInv /\ [ProxyNext]_vars => ProxyInv'
<1> SUFFICES ASSUME ProxyInv, [ProxyNext]_vars PROVE ProxyInv'
  OBVIOUS
<1>1. CASE Serve
  BY <1>1, ServeStep
<1>2. CASE Environment \/ AllAnswered \/ UNCHANGED vars
  BY <1>2, ProxyQuiet DEF Environment, AllAnswered, vars
<1> QED BY <1>1, <1>2 DEF ProxyNext

(* The pools start empty, whether they have a budget or not.               *)
LEMMA ConfiguredAccount == ConfiguredInit => AccountingInv
<1> SUFFICES ASSUME ConfiguredInit PROVE AccountingInv
  OBVIOUS
<1>1. \A p \in Pools : nodeBudgets[p] # NoBudget =>
        nodeBudgets[p] \in NodeBudget /\ nodeBudgets[p].Allocated = 0
  <2> SUFFICES ASSUME NEW p \in Pools, nodeBudgets[p] # NoBudget
               PROVE  nodeBudgets[p] \in NodeBudget /\ nodeBudgets[p].Allocated = 0
    OBVIOUS
  <2>1. nodeBudgets[p] \in [Total : Totals, Allocated : {0}]
    BY DEF ConfiguredInit
  <2>2. PICK t \in Totals : nodeBudgets[p] = [Total |-> t, Allocated |-> 0]
    BY <2>1
  <2>3. t \in Nat
    BY TotalsType
  <2> QED BY <2>2, <2>3 DEF NodeBudget
<1>2. TrackerTypeOK
  BY <1>1 DEF ConfiguredInit, TrackerTypeOK
<1>3. SelectorsKept
  BY DEF ConfiguredInit, SelectorsKept
<1>4. \A p \in Pools : PoolMemory(p) = 0
  <2> SUFFICES ASSUME NEW p \in Pools PROVE PoolMemory(p) = 0
    OBVIOUS
  <2>1. HeldUnits(ModelsIn(p)) = {}
    BY DEF ConfiguredInit, HeldUnits, ModelsIn
  <2> QED BY <2>1, FS_EmptySet DEF PoolMemory
<1>5. AccountingExact
  BY <1>1, <1>4 DEF AccountingExact
<1> QED BY <1>2, <1>3, <1>5 DEF AccountingInv

LEMMA ProxyStart == Init => ProxyInv
<1> SUFFICES ASSUME Init PROVE ProxyInv
  OBVIOUS
<1>1. TrackerTypeOK
  BY ConfiguredAccount DEF Init, AccountingInv
<1>2. PICK known \in SUBSET Models :
        /\ entries = [m \in Models |-> IF m \in known THEN NewEntry("Nonexistent", 0)
                                                      ELSE NoEntry]
        /\ older \in SUBSET (known \X known)
  BY DEF Init, ReconciledInit
<1>3. \A m \in Models : entries[m] # NoEntry =>
        /\ entries[m] \in DeploymentEntry
        /\ entries[m].State = "Nonexistent" /\ entries[m].ActiveRequests = 0
  BY <1>2 DEF NewEntry, DeploymentEntry, DeploymentState
<1>4. RegistryTypeOK
  BY <1>2, <1>3 DEF RegistryTypeOK
<1>5. ProxyTypeOK /\ VictimKnown /\ JobFromSpec
  BY NoEvictionType DEF Init, ProxyInit, ProxyTypeOK, VictimKnown, JobFromSpec, Label
<1>6. RequestAccounting
  BY <1>3, InFlightFinite DEF RequestAccounting
<1>7. MutexInUse
  BY DEF Init, ProxyInit, MutexInUse
<1>8. ReadyAccounted
  BY <1>3 DEF ReadyAccounted
<1> QED BY <1>1, <1>4, <1>5, <1>6, <1>7, <1>8 DEF ProxyInv, Shape

(* The tracker, the registry and the locals of every handler keep their    *)
(* types: in particular the queue of an eviction only ever holds models,   *)
(* and is never read when it is empty.                                     *)
THEOREM ProxyTypeCorrect ==
    ProxySpec => [](TrackerTypeOK /\ RegistryTypeOK /\ ProxyTypeOK)
<1>1. ProxyInv => TrackerTypeOK /\ RegistryTypeOK /\ ProxyTypeOK
  BY DEF ProxyInv, Shape
<1> QED BY <1>1, ProxyStart, ProxyInvStep, PTL DEF ProxySpec

(* For any number of concurrent requests, the active count of an entry     *)
(* never exceeds the requests that are being handled for its model.        *)
THEOREM RequestsCounted == ProxySpec => []RequestAccounting
<1>1. ProxyInv => RequestAccounting
  BY DEF ProxyInv
<1> QED BY <1>1, ProxyStart, ProxyInvStep, PTL DEF ProxySpec

(* For any number of concurrent requests, a mutex in deploymentMutex       *)
(* belongs to a request that is inside ensureDeployment for that model.    *)
THEOREM MutexesCollected == ProxySpec => []MutexInUse
<1>1. ProxyInv => MutexInUse
  BY DEF ProxyInv
<1> QED BY <1>1, ProxyStart, ProxyInvStep, PTL DEF ProxySpec

(* For any number of concurrent requests, a Ready entry has an allocation, *)
(* or a request that is about to sync it or to forget the entry.           *)
THEOREM ReadyModelsAccounted == ProxySpec => []ReadyAccounted
<1>1. ProxyInv => ReadyAccounted
  BY DEF ProxyInv
<1> QED BY <1>1, ProxyStart, ProxyInvStep, PTL DEF ProxySpec

(* The proxy calls the tracker in orders that keep its counters exact,     *)
(* evictions and the concurrent syncs of one model included.               *)
THEOREM ProxyAccountingCorrect ==
    ASSUME SingleLabel, ~LateBudgets
    PROVE  ProxySpec => []AccountingExact
<1>1. Init => AccountingInv
  BY ConfiguredAccount DEF Init
<1>2. ProxyInv /\ AccountingInv /\ [ProxyNext]_vars => AccountingInv'
  <2> SUFFICES ASSUME ProxyInv, AccountingInv, [ProxyNext]_vars PROVE AccountingInv'
    OBVIOUS
  <2>1. CASE Serve
    BY <2>1, TrackerStep, AccountingStep DEF Serve, ProxyInv
  <2>2. CASE Environment \/ AllAnswered \/ UNCHANGED vars
    BY <2>2, AccountingStep DEF Environment, AllAnswered, vars
  <2> QED BY <2>1, <2>2 DEF ProxyNext
<1>3. AccountingInv => AccountingExact
  BY DEF AccountingInv
<1> QED BY <1>1, <1>2, <1>3, ProxyStart, ProxyInvStep, PTL DEF ProxySpec

----------------------------------------------------------------------------
(* OverdrawnBySyncOnly.                                                    *)

(* No pool gets a budget or another total, and none that is within its     *)
(* total leaves it.                                                        *)
NoneOverdrawn == \A p \in Pools : Overdrawn(p)' => Overdrawn(p)

LEMMA QuietPools == UNCHANGED nodeBudgets => NoneOverdrawn
BY DEF NoneOverdrawn, Overdrawn

LEMMA AllocateOverdraws ==
    ASSUME SingleLabel, FixedSelectors, SelectorsInv,
           NEW m \in Models, NEW mem \in Memories[m], NEW s \in Selectors[m],
           Allocate(m, mem, s, TRUE)
    PROVE  NoneOverdrawn
<1> SUFFICES ASSUME NEW p \in Pools, Overdrawn(p)', ~Overdrawn(p) PROVE FALSE
  BY DEF NoneOverdrawn
<1>0. TrackerTypeOK
  BY DEF SelectorsInv
<1>1. PICK new \in nodeSelectorKey(s), old \in HeldKeys(m) :
        nodeBudgets' = Charge(Discharge(nodeBudgets, m, old), new, mem)
  BY DEF Allocate
<1>2. old \in Pools /\ new \in Pools /\ mem \in Int
  BY <1>0, KeysArePools, HeldKeysArePools
<1> DEFINE D == Discharge(nodeBudgets, m, old)
<1>3. D \in [Pools -> NodeBudget \cup {NoBudget}]
  BY <1>0, <1>2, DischargeEffect
<1>4. /\ D[p] = NoBudget <=> nodeBudgets[p] = NoBudget
      /\ nodeBudgets[p] # NoBudget => D[p].Total = nodeBudgets[p].Total
  BY <1>0, <1>2, DischargeEffect
<1>5. /\ nodeBudgets'[p] = NoBudget <=> D[p] = NoBudget
      /\ D[p] # NoBudget => nodeBudgets'[p].Total = D[p].Total
      /\ nodeBudgets' \in [Pools -> NodeBudget \cup {NoBudget}]
  <2> HIDE DEF D
  <2>1. nodeBudgets' = Charge(D, new, mem)
    BY <1>1 DEF D
  <2> QED BY <1>2, <1>3, <2>1, ChargeEffect
<1>6. GrantWithinTotal
  BY AllocateFits DEF GrantsWithinTotal
<1>7. /\ nodeBudgets[p] # NoBudget /\ nodeBudgets'[p] # NoBudget
      /\ nodeBudgets'[p].Total = nodeBudgets[p].Total
      /\ nodeBudgets[p] \in NodeBudget /\ nodeBudgets'[p] \in NodeBudget
  BY <1>0, <1>4, <1>5 DEF Overdrawn, TrackerTypeOK
<1> QED BY <1>6, <1>7 DEF Overdrawn, GrantWithinTotal, NodeBudget

LEMMA ReleaseOverdraws ==
    ASSUME TrackerTypeOK, NEW m \in Models, ReleaseModel(m)
    PROVE  NoneOverdrawn
<1>1. PICK k \in HeldKeys(m) : nodeBudgets' = Discharge(nodeBudgets, m, k)
  BY DEF ReleaseModel
<1>2. k \in Pools
  BY HeldKeysArePools
<1>3. Credit(m) \in 0..MaxMemory
  BY <1>2, DischargeEffect
<1>4. ASSUME NEW p \in Pools
      PROVE  /\ nodeBudgets'[p] = NoBudget <=> nodeBudgets[p] = NoBudget
             /\ nodeBudgets[p] # NoBudget =>
                  /\ nodeBudgets'[p].Total = nodeBudgets[p].Total
                  /\ nodeBudgets'[p].Allocated = nodeBudgets[p].Allocated
                                                    - (IF k = p THEN Credit(m) ELSE 0)
  BY <1>1, <1>2, DischargeEffect
<1>5. \A p \in Pools : nodeBudgets[p] # NoBudget => nodeBudgets[p] \in NodeBudget
  BY DEF TrackerTypeOK
<1> HIDE DEF Credit
<1> QED BY <1>3, <1>4, <1>5 DEF NoneOverdrawn, Overdrawn, NodeBudget

OverdrawnBySync ==
    \A p \in Pools :
        Overdrawn(p)' /\ ~Overdrawn(p) =>
            \E q \in Requests : pc[q] \in {"sync", "synced"} /\ pc'[q] # pc[q]

LEMMA OverdrawnStep ==
    ASSUME SingleLabel, FixedSelectors, ProxyInv, SelectorsInv,
           NEW q \in Requests, Reject(q) \/ Arrive(q) \/ Handle(q)
    PROVE  OverdrawnBySync
<1>0. Shape /\ TrackerTypeOK
  BY DEF ProxyInv, Shape
<1>1. NoneOverdrawn => OverdrawnBySync
  BY DEF NoneOverdrawn, OverdrawnBySync
<1>2. CASE Sync(q) \/ SyncReady(q)
  <2>1. pc[q] \in {"sync", "synced"}
    BY <1>2 DEF Sync, SyncReady
  <2>2. pc'[q] \in {"forward", "unlock"}
    BY <1>0, <1>2 DEF Sync, SyncReady, WaitReturns, Return, Goto, Shape, ProxyTypeOK
  <2> QED BY <2>1, <2>2 DEF OverdrawnBySync
<1>3. CASE AllocateBudget(q)
  <2>1. PICK ok \in BOOLEAN : Allocate(Model(q), job[q].Memory, job[q].NodeSelector, ok)
    BY <1>3 DEF AllocateBudget
  <2>2. pc[q] \notin {"idle", "done"}
    BY <1>3 DEF AllocateBudget
  <2>3. CASE ok = TRUE
    BY <1>0, <1>1, <2>1, <2>2, <2>3, JobModel, AllocateOverdraws
  <2>4. CASE ok = FALSE
    <3>1. UNCHANGED nodeBudgets
      BY <2>1, <2>4 DEF Allocate, trackerVars
    <3> QED BY <1>1, <3>1, QuietPools
  <2> QED BY <2>3, <2>4
<1>4. CASE EvictRelease(q)
  BY <1>0, <1>1, <1>4, VictimModel, ReleaseOverdraws DEF EvictRelease
<1>5. CASE UNCHANGED trackerVars
  BY <1>1, <1>5, QuietPools DEF trackerVars
<1> QED
  BY <1>2, <1>3, <1>4, <1>5
     DEF Handle, Reject, Arrive, Record, Route, Forward, Finish, LoadOrStore, Lock,
         Unlock, Unstore, Recheck, Admit, CheckTotal, RecheckTotal, SnapshotIdle,
         ComputeNeeded, NextVictim, EvictPod, EvictPodFails, EvictForget, GetBackend,
         GetBackendFails, Create, CreateFails, Cleanup, Reset, PollReady, SetReady,
         WaitTimesOut, WaitCancelled

(* With one label per selector, and no selector ever edited, no            *)
(* interleaving of any number of ensureDeployment calls takes a pool over  *)
(* its total: only a SyncAllocation of a waiting or forwarding request     *)
(* does.                                                                   *)
THEOREM ProxyAdmissionCorrect ==
    ASSUME SingleLabel, FixedSelectors
    PROVE  ProxySpec => OverdrawnBySyncOnly
<1>1. Init => SelectorsInv
  BY ProxyStart DEF Init, ConfiguredInit, ProxyInv, Shape, SelectorsInv, SelectorsKept
<1>2. ProxyInv /\ SelectorsInv /\ [ProxyNext]_vars => SelectorsInv'
  <2> SUFFICES ASSUME ProxyInv, SelectorsInv, [ProxyNext]_vars PROVE SelectorsInv'
    OBVIOUS
  <2>1. [TrackerNext]_trackerVars
    BY TrackerStep DEF ProxyNext, Serve, Environment, AllAnswered, vars, ProxyInv
  <2> QED BY <2>1, TypeStep, SelectorsStep DEF SelectorsInv
<1>3. ProxyInv /\ SelectorsInv /\ [ProxyNext]_vars => [OverdrawnBySync]_vars
  <2> SUFFICES ASSUME ProxyInv, SelectorsInv, ProxyNext PROVE OverdrawnBySync
    OBVIOUS
  <2>1. CASE Serve
    BY <2>1, OverdrawnStep DEF Serve
  <2>2. CASE Environment \/ AllAnswered
    <3>1. UNCHANGED nodeBudgets
      BY <2>2 DEF Environment, AllAnswered, vars, trackerVars
    <3> QED BY <3>1, QuietPools DEF NoneOverdrawn, OverdrawnBySync
  <2> QED BY <2>1, <2>2 DEF ProxyNext
<1>4. OverdrawnBySync <=>
        \A p \in Pools :
            Overdrawn(p)' /\ ~Overdrawn(p) =>
                \E q \in Requests : pc[q] \in {"sync", "synced"} /\ pc'[q] # pc[q]
  BY DEF OverdrawnBySync
<1> QED
  BY <1>1, <1>2, <1>3, <1>4, ProxyStart, ProxyInvStep, PTL DEF ProxySpec, OverdrawnBySyncOnly

----------------------------------------------------------------------------
(* GlobalLimit, for requests that are served one at a time.  Kubernetes    *)
(* counts what runs, the proxy what the tracker has recorded: the limit is *)
(* kept because a pod is charged whenever a sum is taken, and not because  *)
(* the sum itself stays below the limit, which SyncAllocation may exceed.  *)

Serial ==
    /\ MaxInFlight <= 1
    /\ {"staleCache", "lostAnswer"} \cap Faults = {}

(* No model changes what it declares.                                      *)
FixedMemories == \A m \in Models : \A a, b \in Memories[m] : a = b

Runs(m) == pods[m] \in {"starting", "ready"}

(* One request at a time, and the informer cache is up to date.            *)
Alone ==
    /\ \A q, r \in InFlight : q = r
    /\ ClusterTypeOK /\ cached = pods

(* A pod that runs is charged, or its request is about to.                 *)
ChargedInFull(m) ==
    allocations[m] # NoAllocation /\ \A mem \in Memories[m] : mem <= allocations[m].Memory

PodsCharged ==
    \A m \in Models :
        Runs(m) => ChargedInFull(m) \/ \E q \in Requests : pc[q] = "allocate" /\ Model(q) = m

(* A request about to create its pod has found room for it; what it has    *)
(* been admitted for still fits its pool; what it evicts is not its own    *)
(* model, and is gone before its memory is released.                       *)
RunningWith(q) == RunningUnits \cup ({Model(q)} \X (1..job[q].Memory))

RoomFor(q) ==
    pc[q] \in {"backend", "create"} /\ MaxMemoryBytes > 0 =>
        Cardinality(RunningWith(q)) <= MaxMemoryBytes

AfterAdmit == Evicting \cup {"total", "retotal", "backend", "create", "allocate"}

AdmittedFor(q) ==
    pc[q] \in AfterAdmit =>
        \A p \in nodeSelectorKey(job[q].NodeSelector) :
            canAllocateLocked(Model(q), job[q].Memory, p)

VictimFor(q) ==
    /\ pc[q] \in AtVictim => Victim(q) # Model(q)
    /\ pc[q] = "evictRelease" => ~Runs(Victim(q))

OnItsWay(q) == pc[q] # "cleanup" /\ RoomFor(q) /\ AdmittedFor(q) /\ VictimFor(q)

SerialInv ==
    Alone /\ PodsCharged /\ GlobalLimit /\ \A q \in Requests : OnItsWay(q)

USE DEF AfterAdmit

LEMMA RunningFinite ==
    /\ RunningUnits \subseteq Models \X (1..MaxMemory)
    /\ IsFiniteSet(RunningUnits) /\ Cardinality(RunningUnits) \in Nat
<1>1. IsFiniteSet(Models \X (1..MaxMemory))
  <2>1. IsFiniteSet(1..MaxMemory)
    BY FS_Interval
  <2> QED BY <2>1, FS_Product
<1>2. RunningUnits \subseteq Models \X (1..MaxMemory)
  BY DEF RunningUnits
<1> QED BY <1>1, <1>2, FS_Subset, FS_CardinalityType

LEMMA UnitsFinite ==
    ASSUME NEW m \in Models, NEW mem \in 1..MaxMemory
    PROVE  IsFiniteSet({m} \X (1..mem)) /\ Cardinality({m} \X (1..mem)) = mem
<1>1. IsFiniteSet({m}) /\ Cardinality({m}) = 1
  BY FS_Singleton
<1>2. IsFiniteSet(1..mem) /\ Cardinality(1..mem) = mem
  <2>1. 1 \in Int /\ mem \in Int /\ mem >= 1
    OBVIOUS
  <2>2. IsFiniteSet(1..mem) /\ Cardinality(1..mem) = IF 1 > mem THEN 0 ELSE mem - 1 + 1
    BY <2>1, FS_Interval
  <2> QED BY <2>1, <2>2
<1>3. /\ IsFiniteSet({m} \X (1..mem))
      /\ Cardinality({m} \X (1..mem)) = Cardinality({m}) * Cardinality(1..mem)
  BY <1>1, <1>2, FS_Product
<1>4. mem \in Nat /\ 1 * mem = mem
  OBVIOUS
<1> QED BY <1>1, <1>2, <1>3, <1>4

(* Whoever is not in flight has nothing to keep.                           *)
LEMMA Outside ==
    ASSUME NEW q \in Requests, pc[q] \in {"idle", "done"}
    PROVE  OnItsWay(q)
BY DEF OnItsWay, RoomFor, AdmittedFor, VictimFor

(* The requests other than the one that takes a step are not in flight.    *)
LEMMA StaysAlone ==
    ASSUME SerialInv, NEW q \in Requests, pc[q] \notin {"idle", "done"},
           \A r \in Requests \ {q} : pc'[r] = pc[r], ClusterTypeOK', cached' = pods'
    PROVE  Alone' /\ \A r \in Requests \ {q} : pc[r] \in {"idle", "done"} /\ OnItsWay(r)'
<1>1. \A r \in Requests \ {q} : pc[r] \in {"idle", "done"}
  BY DEF SerialInv, Alone, InFlight
<1>2. \A r \in Requests \ {q} : pc'[r] \in {"idle", "done"}
  BY <1>1
<1>3. \A r \in Requests \ {q} : OnItsWay(r)'
  BY <1>2 DEF OnItsWay, RoomFor, AdmittedFor, VictimFor
<1>4. Alone'
  BY <1>2 DEF Alone, InFlight
<1> QED BY <1>1, <1>3, <1>4

(* When no pod starts, no more memory is in use than before.               *)
LEMMA NoPodStarts ==
    ASSUME GlobalLimit, \A m \in Models : Runs(m)' => Runs(m)
    PROVE  /\ RunningUnits' \subseteq RunningUnits /\ GlobalLimit'
           /\ Cardinality(RunningUnits') <= Cardinality(RunningUnits)
<1>1. RunningUnits' \subseteq RunningUnits
  BY DEF RunningUnits, Runs
<1>2. IsFiniteSet(RunningUnits) /\ Cardinality(RunningUnits) \in Nat
  BY RunningFinite
<1>3. Cardinality(RunningUnits') <= Cardinality(RunningUnits) /\ Cardinality(RunningUnits') \in Nat
  BY <1>1, <1>2, FS_Subset, FS_CardinalityType
<1> HIDE DEF RunningUnits
<1> QED BY <1>1, <1>2, <1>3 DEF GlobalLimit

LEMMA HeldFinite ==
    IsFiniteSet(HeldUnits(Models)) /\ Cardinality(HeldUnits(Models)) \in Nat
<1>1. IsFiniteSet(Models \X (1..MaxMemory))
  <2>1. IsFiniteSet(1..MaxMemory)
    BY FS_Interval
  <2> QED BY <2>1, FS_Product
<1>2. HeldUnits(Models) \subseteq Models \X (1..MaxMemory)
  BY DEF HeldUnits
<1> QED BY <1>1, <1>2, FS_Subset, FS_CardinalityType

(* The same for a request that is about to create a pod.                   *)
LEMMA RoomKept ==
    ASSUME Shape, NEW q \in Requests, pc[q] \notin {"idle", "done"}, RoomFor(q),
           RunningUnits' \subseteq RunningUnits, job'[q] = job[q],
           pc'[q] \in {"backend", "create"} => pc[q] \in {"backend", "create"}
    PROVE  RoomFor(q)'
<1> SUFFICES ASSUME pc'[q] \in {"backend", "create"}, MaxMemoryBytes > 0
             PROVE  Cardinality(RunningWith(q)') <= MaxMemoryBytes
  BY DEF RoomFor
<1>1. Cardinality(RunningWith(q)) <= MaxMemoryBytes
  BY DEF RoomFor
<1>2. RunningWith(q)' \subseteq RunningWith(q)
  BY DEF RunningWith, Model
<1>3. IsFiniteSet(RunningWith(q))
  <2>1. Model(q) \in Models /\ job[q].Memory \in 1..MaxMemory
    BY JobModel DEF Job
  <2> QED BY <2>1, RunningFinite, UnitsFinite, FS_Union DEF RunningWith
<1>4. /\ Cardinality(RunningWith(q)') <= Cardinality(RunningWith(q))
      /\ Cardinality(RunningWith(q)') \in Nat /\ Cardinality(RunningWith(q)) \in Nat
  BY <1>2, <1>3, FS_Subset, FS_CardinalityType
<1> HIDE DEF RunningWith
<1> QED BY <1>1, <1>4

(* The labels between which nothing has to be kept.                        *)
LEMMA NothingToKeep ==
    ASSUME NEW q \in Requests, pc'[q] \notin AfterAdmit \cup {"cleanup"}
    PROVE  OnItsWay(q)'
BY DEF OnItsWay, RoomFor, AdmittedFor, VictimFor

(* Unless the one request is about to charge its pod, every pod that runs  *)
(* is charged.                                                             *)
LEMMA AllCharged ==
    ASSUME SerialInv, NEW q \in Requests, pc[q] \notin {"idle", "done", "allocate"}
    PROVE  \A m \in Models : Runs(m) => ChargedInFull(m)
BY DEF SerialInv, Alone, InFlight, PodsCharged

(* A step that starts no pod and takes no charge off a pod that runs.      *)
LEMMA SerialStep ==
    ASSUME SerialInv, NEW q \in Requests, pc[q] \notin {"idle", "done", "allocate"},
           \A r \in Requests \ {q} : pc'[r] = pc[r], ClusterTypeOK', cached' = pods',
           \A m \in Models : Runs(m)' => Runs(m),
           \A m \in Models : Runs(m)' /\ ChargedInFull(m) => ChargedInFull(m)',
           OnItsWay(q)'
    PROVE  SerialInv'
<1>1. Alone' /\ \A r \in Requests \ {q} : OnItsWay(r)'
  BY StaysAlone
<1>2. GlobalLimit'
  BY NoPodStarts DEF SerialInv
<1>3. PodsCharged'
  BY AllCharged DEF PodsCharged
<1> QED BY <1>1, <1>2, <1>3 DEF SerialInv

LEMMA QuietStep ==
    ASSUME SerialInv, NEW q \in Requests, pc[q] \notin {"idle", "done", "allocate"},
           \A r \in Requests \ {q} : pc'[r] = pc[r],
           UNCHANGED <<trackerVars, clusterVars>>, OnItsWay(q)'
    PROVE  SerialInv'
<1>1. ClusterTypeOK' /\ cached' = pods'
  BY DEF SerialInv, Alone, ClusterTypeOK, clusterVars
<1>2. \A m \in Models : Runs(m)' = Runs(m) /\ ChargedInFull(m)' = ChargedInFull(m)
  BY DEF Runs, ChargedInFull, clusterVars, trackerVars
<1> QED BY <1>1, <1>2, SerialStep

(* The sum of what the tracker has covers what runs.                       *)
LEMMA TotalCoversRunning ==
    ASSUME Shape, SerialInv, NEW q \in Requests,
           pc[q] \notin {"idle", "done", "allocate"}, ~ExceedsLimit(q)
    PROVE  Cardinality(RunningWith(q)) <= MaxMemoryBytes
<1>1. Model(q) \in Models /\ job[q].Memory \in 1..MaxMemory
  BY JobModel DEF Job
<1>2. RunningUnits \subseteq HeldUnits(Models)
  <2> SUFFICES ASSUME NEW u \in RunningUnits PROVE u \in HeldUnits(Models)
    OBVIOUS
  <2>1. /\ u \in Models \X (1..MaxMemory) /\ u[1] \in Models /\ u[2] \in 1..MaxMemory
        /\ Runs(u[1]) /\ \E mem \in Memories[u[1]] : u[2] <= mem
    BY DEF RunningUnits, Runs
  <2>2. ChargedInFull(u[1])
    BY <2>1, AllCharged
  <2>3. PICK mem \in Memories[u[1]] : u[2] <= mem
    BY <2>1
  <2>4. mem \in 1..MaxMemory
    BY <2>1
  <2>5. /\ allocations[u[1]] # NoAllocation /\ mem <= allocations[u[1]].Memory
        /\ allocations[u[1]].Memory \in 1..MaxMemory
    BY <2>1, <2>2, <2>3 DEF ChargedInFull, Shape, TrackerTypeOK, Allocation
  <2>6. u[2] <= allocations[u[1]].Memory
    BY <2>1, <2>3, <2>4, <2>5
  <2> QED BY <2>1, <2>5, <2>6 DEF HeldUnits
<1>3. IsFiniteSet(HeldUnits(Models)) /\ Cardinality(HeldUnits(Models)) \in Nat
  BY HeldFinite
<1>4. Cardinality(RunningUnits) <= Cardinality(HeldUnits(Models))
  BY <1>2, <1>3, FS_Subset
<1> DEFINE ModelUnits == {Model(q)} \X (1..job[q].Memory)
<1>5. IsFiniteSet(ModelUnits) /\ Cardinality(ModelUnits) = job[q].Memory
  BY <1>1, UnitsFinite
<1>6. IsFiniteSet(RunningUnits) /\ Cardinality(RunningUnits) \in Nat
  BY RunningFinite
<1> HIDE DEF ModelUnits
<1>7. /\ IsFiniteSet(RunningUnits \cup ModelUnits) /\ IsFiniteSet(RunningUnits \cap ModelUnits)
      /\ Cardinality(RunningUnits \cup ModelUnits) =
            Cardinality(RunningUnits) + Cardinality(ModelUnits)
                - Cardinality(RunningUnits \cap ModelUnits)
  <2>1. IsFiniteSet(RunningUnits \cap ModelUnits)
    BY <1>5, FS_Subset
  <2> QED BY <2>1, <1>5, <1>6, FS_Union
<1>8. /\ Cardinality(RunningUnits \cap ModelUnits) \in Nat /\ job[q].Memory \in Nat
      /\ Cardinality(HeldUnits(Models)) + job[q].Memory <= MaxMemoryBytes
  BY <1>1, <1>3, <1>7, FS_CardinalityType DEF ExceedsLimit, GetTotalAllocatedMemory
<1>9. RunningWith(q) = RunningUnits \cup ModelUnits
  BY DEF RunningWith, ModelUnits
<1> DEFINE a == Cardinality(RunningUnits)
           b == Cardinality(RunningUnits \cap ModelUnits)
           c == Cardinality(HeldUnits(Models))
           d == job[q].Memory
<1>10. a + d - b <= MaxMemoryBytes
  <2>1. a \in Nat /\ b \in Nat /\ c \in Nat /\ d \in Nat
    BY <1>3, <1>6, <1>8
  <2>2. a <= c /\ c + d <= MaxMemoryBytes
    BY <1>4, <1>8
  <2> HIDE DEF a, b, c, d
  <2> QED BY <2>1, <2>2
<1> QED BY <1>5, <1>7, <1>9, <1>10

(* A step of the one request, after which it has room, or needs none.      *)
LEMMA LocalGoes ==
    ASSUME Shape, SerialInv, NEW q \in Requests, LocalStep(q)
    PROVE  /\ pc[q] \in Recorded \ {"cleanup"}
           /\ \A r \in Requests \ {q} : pc'[r] = pc[r] /\ evict'[r] = evict[r]
           /\ pc' \in [Requests -> Label] /\ job' = job
           /\ OnItsWay(q)
<1>1. LocalOK(q)
  BY LocalSteps
<1>2. PICK l \in Recorded : pc[q] \in Recorded /\ pc' = [pc EXCEPT ![q] = l] /\ job' = job
  BY <1>1 DEF LocalOK, Moves, Goto
<1>3. OnItsWay(q)
  BY DEF SerialInv
<1>4. pc[q] # "cleanup"
  BY <1>3 DEF OnItsWay
<1>5. pc \in [Requests -> Label] /\ pc' \in [Requests -> Label]
  BY <1>1 DEF LocalOK, Shape, ProxyTypeOK
<1>6. pc[q] \in Recorded /\ job' = job
  BY <1>2
<1>7. \A r \in Requests \ {q} : pc'[r] = pc[r]
  BY <1>2, <1>5
<1>8. \A r \in Requests \ {q} : evict'[r] = evict[r]
  BY <1>1 DEF LocalOK, OwnEviction
<1> QED BY <1>3, <1>4, <1>5, <1>6, <1>7, <1>8

(* The steps that change neither the tracker nor the cluster, and after    *)
(* which nothing has to be kept.                                           *)
LEMMA SerialAside ==
    ASSUME Serial, Shape, SerialInv, NEW q \in Requests,
           \/ Route(q) \/ Forward(q) \/ Lock(q) \/ Unlock(q) \/ Recheck(q)
           \/ GetBackendFails(q) \/ CreateFails(q) \/ Reset(q) \/ PollReady(q)
           \/ SetReady(q) \/ WaitTimesOut(q) \/ WaitCancelled(q)
    PROVE  SerialInv'
<1>0. LocalStep(q)
  BY DEF LocalStep
<1>1. /\ pc[q] \notin {"idle", "done"} /\ pc[q] \in Label
      /\ \A r \in Requests \ {q} : pc'[r] = pc[r]
      /\ pc \in [Requests -> Label]
  BY <1>0, LocalGoes DEF Shape, ProxyTypeOK
<1>2. UNCHANGED <<trackerVars, clusterVars>>
  <2>1. CreateFails(q) => UNCHANGED <<trackerVars, clusterVars>>
    BY DEF CreateFails, MayHave, Serial
  <2> QED
    BY <2>1 DEF Route, Forward, Lock, Unlock, Recheck, GetBackendFails, Reset, PollReady,
           SetReady, WaitTimesOut, WaitCancelled
<1>3. pc[q] # "allocate" /\ pc'[q] \notin AfterAdmit \cup {"cleanup"}
  <2>1. CASE Route(q)
    <3>1. PICK l \in {"wait", "forward", "sync", "ensure"} : Goto(q, l)
      BY <2>1 DEF Route, openaiRoute, multipartRoute
    <3> QED BY <1>1, <2>1, <3>1 DEF Route, Goto
  <2>2. CASE Forward(q) \/ Lock(q) \/ Unlock(q) \/ CreateFails(q) \/ PollReady(q) \/ SetReady(q)
    BY <1>1, <2>2 DEF Forward, Lock, Unlock, CreateFails, PollReady, SetReady, Goto
  <2>3. CASE Recheck(q)
    BY <1>1, <2>3 DEF Recheck, Return, Goto
  <2>4. CASE GetBackendFails(q) \/ Reset(q)
    BY <1>1, <2>4 DEF GetBackendFails, Reset, Return, Goto
  <2>5. CASE WaitTimesOut(q) \/ WaitCancelled(q)
    <3>1. pc[q] = "wait" /\ WaitReturns(q, TRUE)
      BY <2>5 DEF WaitTimesOut, WaitCancelled
    <3>2. pc'[q] \in {"unlock", "finish"}
      BY <1>1, <3>1 DEF WaitReturns, Return, Goto
    <3> QED BY <3>1, <3>2
  <2> QED BY <2>1, <2>2, <2>3, <2>4, <2>5
<1> QED BY <1>1, <1>2, <1>3, NothingToKeep, QuietStep

(* The steps that move on, once the request is admitted, and change        *)
(* neither the tracker nor the cluster.                                    *)
LEMMA SerialOnward ==
    ASSUME Serial, Shape, SerialInv, NEW q \in Requests, LocalStep(q),
           UNCHANGED <<trackerVars, clusterVars>>,
           pc[q] \in AfterAdmit \ {"allocate"}, pc'[q] # "cleanup",
           pc'[q] \in {"backend", "create"} =>
                pc[q] \in {"backend", "create"} \/ ~ExceedsLimit(q),
           pc'[q] \in AtVictim => Victim(q)' # Model(q), pc'[q] # "evictRelease"
    PROVE  SerialInv'
<1>1. /\ pc[q] \notin {"idle", "done"} /\ OnItsWay(q) /\ job' = job
      /\ \A r \in Requests \ {q} : pc'[r] = pc[r]
  BY LocalGoes
<1>2. nodeBudgets' = nodeBudgets /\ allocations' = allocations /\ pods' = pods
  BY DEF trackerVars, clusterVars
<1>3. RunningUnits' = RunningUnits
  BY <1>2 DEF RunningUnits
<1>4. RoomFor(q)'
  <2>1. CASE pc'[q] \in {"backend", "create"} /\ pc[q] \notin {"backend", "create"}
    <3>1. Cardinality(RunningWith(q)) <= MaxMemoryBytes
      BY <1>1, <2>1, TotalCoversRunning
    <3>2. RunningWith(q)' = RunningWith(q)
      BY <1>1, <1>3 DEF RunningWith, Model
    <3> QED BY <3>1, <3>2 DEF RoomFor
  <2>2. CASE pc'[q] \in {"backend", "create"} => pc[q] \in {"backend", "create"}
    BY <1>1, <1>3, <2>2, RoomKept DEF OnItsWay
  <2> QED BY <2>1, <2>2
<1>5. AdmittedFor(q)'
  BY <1>1, <1>2 DEF OnItsWay, AdmittedFor, canAllocateLocked, Fits, Model
<1>6. VictimFor(q)'
  BY <1>1 DEF VictimFor, Model
<1> QED BY <1>1, <1>4, <1>5, <1>6, QuietStep DEF OnItsWay

LEMMA SerialAdmitted ==
    ASSUME Serial, Shape, SerialInv, NEW q \in Requests,
           \/ CheckTotal(q) \/ RecheckTotal(q) \/ SnapshotIdle(q) \/ ComputeNeeded(q)
           \/ NextVictim(q) \/ EvictPodFails(q) \/ EvictForget(q) \/ GetBackend(q)
    PROVE  SerialInv'
<1>0. LocalStep(q)
  BY DEF LocalStep
<1>1. /\ pc \in [Requests -> Label] /\ pc[q] \in Label
      /\ evict \in [Requests -> Eviction] /\ job' = job
  BY <1>0, LocalGoes DEF Shape, ProxyTypeOK
<1>2. UNCHANGED <<trackerVars, clusterVars>>
  <2>1. EvictPodFails(q) => UNCHANGED <<trackerVars, clusterVars>>
    BY DEF EvictPodFails, MayHave, Serial
  <2> QED
    BY <2>1 DEF CheckTotal, RecheckTotal, SnapshotIdle, ComputeNeeded, NextVictim,
           EvictForget, GetBackend
<1>3. CASE CheckTotal(q)
  BY <1>0, <1>1, <1>2, <1>3, SerialOnward DEF CheckTotal, Goto
<1>4. CASE RecheckTotal(q)
  BY <1>0, <1>1, <1>2, <1>4, SerialOnward DEF RecheckTotal, Return, Goto
<1>5. CASE SnapshotIdle(q)
  <2>1. pc[q] = "snapshot" /\ pc'[q] \in {"unlock", "needed"}
    BY <1>1, <1>5 DEF SnapshotIdle, Return, Goto
  <2> QED BY <1>0, <1>2, <2>1, SerialOnward
<1>6. CASE ComputeNeeded(q)
  BY <1>0, <1>1, <1>2, <1>6, SerialOnward DEF ComputeNeeded, Goto
<1>7. CASE NextVictim(q)
  <2>1. pc[q] = "evict" /\ pc'[q] \in {"retotal", "unlock", "evict", "evictPod"}
    BY <1>1, <1>7 DEF NextVictim, Return, Goto
  <2>2. ASSUME pc'[q] = "evictPod" PROVE Victim(q)' # Model(q)
    <3>1. /\ Victim(q) # Model(q)
          /\ evict' = [evict EXCEPT ![q].memory = allocations[Victim(q)].Memory]
      BY <1>1, <1>7, <2>2 DEF NextVictim, Return, Goto
    <3>2. evict'[q].queue = evict[q].queue
      BY <1>1, <3>1 DEF Eviction
    <3> QED BY <3>1, <3>2 DEF Victim
  <2> QED BY <1>0, <1>2, <2>1, <2>2, SerialOnward
<1>8. CASE EvictPodFails(q)
  BY <1>0, <1>1, <1>2, <1>8, SerialOnward DEF EvictPodFails, Goto
<1>9. CASE EvictForget(q)
  BY <1>0, <1>1, <1>2, <1>9, SerialOnward DEF EvictForget, Goto
<1>10. CASE GetBackend(q)
  BY <1>0, <1>1, <1>2, <1>10, SerialOnward DEF GetBackend, Goto
<1> QED BY <1>3, <1>4, <1>5, <1>6, <1>7, <1>8, <1>9, <1>10

(* CanAllocate and the test of Allocate agree, on the one pool there is.   *)
LEMMA SerialAdmit ==
    ASSUME SingleLabel, Shape, SerialInv, NEW q \in Requests, Admit(q)
    PROVE  SerialInv'
<1>0. LocalStep(q)
  BY DEF LocalStep
<1>1. /\ pc \in [Requests -> Label] /\ pc[q] = "admit" /\ job' = job
      /\ \A r \in Requests \ {q} : pc'[r] = pc[r]
      /\ UNCHANGED <<trackerVars, clusterVars>>
  BY <1>0, LocalGoes DEF Shape, ProxyTypeOK, Admit
<1>2. CASE pc'[q] = "unlock"
  BY <1>1, <1>2, NothingToKeep, QuietStep
<1>3. CASE pc'[q] # "unlock"
  <2>1. PICK p, k \in nodeSelectorKey(job[q].NodeSelector) :
            /\ CanAllocate(Model(q), job[q].Memory, p, k)
            /\ pc'[q] = IF MaxMemoryBytes > 0 THEN "total" ELSE "backend"
    BY <1>1, <1>3 DEF Admit, Return, Goto
  <2>2. /\ Model(q) \in Models /\ job[q].NodeSelector \in Selectors[Model(q)]
        /\ job[q].Memory \in 1..MaxMemory
    BY <1>1, JobModel DEF Job
  <2>3. \A l \in nodeSelectorKey(job[q].NodeSelector) : l = p /\ l = k
    BY <2>1, <2>2 DEF SingleLabel
  <2>4. canAllocateLocked(Model(q), job[q].Memory, p)
    BY <2>1, <2>3 DEF CanAllocate, canAllocateLocked
  <2>5. AdmittedFor(q)'
    BY <1>1, <2>3, <2>4 DEF AdmittedFor, canAllocateLocked, Fits, Model, trackerVars
  <2>6. OnItsWay(q)'
    BY <2>1, <2>5 DEF OnItsWay, RoomFor, VictimFor
  <2> QED BY <1>1, <2>6, QuietStep
<1> QED BY <1>2, <1>3

(* SyncAllocation leaves an allocation that there is.                      *)
LEMMA SerialSync ==
    ASSUME Shape, SerialInv, NEW q \in Requests, Sync(q) \/ SyncReady(q)
    PROVE  SerialInv'
<1>0. LocalStep(q)
  BY DEF LocalStep
<1>1. /\ pc \in [Requests -> Label] /\ pc[q] \in {"sync", "synced"} /\ job' = job
      /\ \A r \in Requests \ {q} : pc'[r] = pc[r]
      /\ UNCHANGED clusterVars
      /\ SyncAllocation(Model(q), job[q].Memory, job[q].NodeSelector)
  BY <1>0, LocalGoes DEF Shape, ProxyTypeOK, Sync, SyncReady
<1>2. pc'[q] \in {"forward", "unlock"}
  BY <1>1 DEF Sync, SyncReady, WaitReturns, Return, Goto
<1>3. ClusterTypeOK' /\ cached' = pods'
  BY <1>1 DEF SerialInv, Alone, ClusterTypeOK, clusterVars
<1>4. Model(q) \in Models /\ allocations \in [Models -> Allocation \cup {NoAllocation}]
  BY <1>1, JobModel DEF Shape, TrackerTypeOK
<1>5. \A m \in Models : allocations[m] # NoAllocation => allocations'[m] = allocations[m]
  BY <1>1, <1>4 DEF SyncAllocation, Grant, trackerVars
<1>6. \A m \in Models : ChargedInFull(m) => ChargedInFull(m)'
  BY <1>5 DEF ChargedInFull
<1>7. \A m \in Models : Runs(m)' = Runs(m)
  BY <1>1 DEF Runs, clusterVars
<1> QED BY <1>1, <1>2, <1>3, <1>6, <1>7, NothingToKeep, SerialStep

(* The cache shows every pod there is, so the victim's is deleted.         *)
LEMMA SerialEvictPod ==
    ASSUME Serial, Shape, SerialInv, NEW q \in Requests, EvictPod(q)
    PROVE  SerialInv'
<1>0. LocalStep(q)
  BY DEF LocalStep
<1>1. /\ pc \in [Requests -> Label] /\ pc[q] = "evictPod" /\ pc'[q] = "evictRelease"
      /\ job' = job /\ evict' = evict /\ OnItsWay(q)
      /\ \A r \in Requests \ {q} : pc'[r] = pc[r]
      /\ UNCHANGED trackerVars
  BY <1>0, LocalGoes DEF Shape, ProxyTypeOK, EvictPod, Goto, localVars
<1> DEFINE v == Victim(q)
<1>2. v \in Models /\ v # Model(q)
  BY <1>1, VictimModel DEF OnItsWay, VictimFor
<1>3. ClusterTypeOK /\ cached = pods
  BY DEF SerialInv, Alone
<1>4. /\ ClusterTypeOK' /\ cached' = pods'
      /\ pods' = [pods EXCEPT ![v] = Deleted(pods[v])]
  <2>1. CASE cached[v] = "none"
    <3>1. UNCHANGED clusterVars
      BY <2>1 DEF EvictPod
    <3>2. pods[v] = "none" /\ Deleted(pods[v]) = pods[v]
      BY <1>3, <2>1 DEF Deleted
    <3> QED BY <1>3, <3>1, <3>2 DEF ClusterTypeOK, clusterVars
  <2>2. CASE cached[v] # "none"
    <3>1. /\ pods' = [pods EXCEPT ![v] = Deleted(pods[v])]
          /\ cached' = [cached EXCEPT ![v] = Deleted(pods[v])]
          /\ crs' = crs
      BY <2>2 DEF EvictPod, DeletePod, SetPod, Serial
    <3>2. Deleted(pods[v]) \in PodPhase
      BY <1>2, <1>3 DEF Deleted, ClusterTypeOK, PodPhase
    <3> QED BY <1>2, <1>3, <3>1, <3>2 DEF ClusterTypeOK
  <2> QED BY <2>1, <2>2
<1>5. /\ \A m \in Models : Runs(m)' => Runs(m)
      /\ pods'[v] \notin {"starting", "ready"}
  <2>1. Deleted(pods[v]) \notin {"starting", "ready"}
    BY DEF Deleted
  <2>2. v \in Models /\ pods \in [Models -> PodPhase]
    BY <1>2, <1>3 DEF ClusterTypeOK
  <2>3. pods'[v] = Deleted(pods[v]) /\ \A m \in Models \ {v} : pods'[m] = pods[m]
    BY <1>4, <2>2
  <2> HIDE DEF v
  <2> QED BY <2>1, <2>2, <2>3 DEF Runs
<1>6. \A m \in Models : ChargedInFull(m)' = ChargedInFull(m)
  BY <1>1 DEF ChargedInFull, trackerVars
<1>7. OnItsWay(q)'
  <2>1. AdmittedFor(q)'
    BY <1>1 DEF OnItsWay, AdmittedFor, canAllocateLocked, Fits, Model, trackerVars
  <2>2. VictimFor(q)'
    <3>1. Victim(q)' = v /\ Model(q)' = Model(q)
      BY <1>1 DEF Victim, Model
    <3> QED BY <1>1, <1>2, <1>5, <3>1 DEF VictimFor, Runs
  <2> QED BY <1>1, <2>1, <2>2 DEF OnItsWay, RoomFor
<1> QED BY <1>1, <1>4, <1>5, <1>6, <1>7, SerialStep

(* What is taken off the pool of the victim leaves more room in it.        *)
LEMMA SerialRelease ==
    ASSUME Shape, SerialInv, NEW q \in Requests, EvictRelease(q)
    PROVE  SerialInv'
<1>0. LocalStep(q) /\ TrackerTypeOK
  BY DEF LocalStep, Shape
<1>1. /\ pc[q] = "evictRelease" /\ pc'[q] = "evictForget"
      /\ job' = job /\ OnItsWay(q) /\ pods' = pods /\ cached' = cached /\ crs' = crs
      /\ \A r \in Requests \ {q} : pc'[r] = pc[r]
      /\ ReleaseModel(Victim(q))
  BY <1>0, LocalGoes DEF Shape, ProxyTypeOK, EvictRelease, Goto, clusterVars
<1> DEFINE v == Victim(q)
<1>2. v \in Models /\ v # Model(q) /\ ~Runs(v) /\ Model(q) \in Models
  BY <1>1, VictimModel, JobModel DEF OnItsWay, VictimFor
<1>3. ClusterTypeOK' /\ cached' = pods'
  BY <1>1 DEF SerialInv, Alone, ClusterTypeOK
<1>4. \A m \in Models \ {v} : allocations'[m] = allocations[m]
  BY <1>0, <1>1, <1>2 DEF ReleaseModel, TrackerTypeOK
<1>5. \A m \in Models : Runs(m)' = Runs(m) /\ (Runs(m)' /\ ChargedInFull(m) => ChargedInFull(m)')
  BY <1>1, <1>2, <1>4 DEF Runs, ChargedInFull
<1>6. AdmittedFor(q)'
  <2>1. PICK k \in HeldKeys(v) : nodeBudgets' = Discharge(nodeBudgets, v, k)
    BY <1>1 DEF ReleaseModel
  <2>2. k \in Pools
    BY <1>0, <1>2, HeldKeysArePools
  <2> SUFFICES ASSUME NEW p \in nodeSelectorKey(job[q].NodeSelector),
                      nodeBudgets'[p] # NoBudget
               PROVE  canAllocateLocked(Model(q), job[q].Memory, p)'
    BY <1>1 DEF AdmittedFor, Model, canAllocateLocked
  <2>3. p \in Pools /\ job[q].Memory \in 1..MaxMemory
    BY <1>1, JobModel, KeysArePools DEF Job
  <2>4. canAllocateLocked(Model(q), job[q].Memory, p)
    BY <1>1 DEF OnItsWay, AdmittedFor
  <2>5. /\ nodeBudgets[p] # NoBudget
        /\ nodeBudgets'[p].Total = nodeBudgets[p].Total
        /\ nodeBudgets'[p].Allocated =
                nodeBudgets[p].Allocated - (IF k = p THEN Credit(v) ELSE 0)
        /\ Credit(v) \in 0..MaxMemory
    BY <1>0, <1>2, <2>1, <2>2, <2>3, DischargeEffect
  <2>6. nodeBudgets[p] \in NodeBudget
    BY <1>0, <2>3, <2>5 DEF TrackerTypeOK
  <2>7. allocations'[Model(q)] = allocations[Model(q)]
    BY <1>2, <1>4
  <2> DEFINE c == IF allocations[Model(q)] = NoAllocation
                  THEN 0 ELSE allocations[Model(q)].Memory
  <2>8. c \in Int
    BY <1>0, <1>2 DEF TrackerTypeOK, Allocation
  <2>9. nodeBudgets[p].Allocated - c + job[q].Memory <= nodeBudgets[p].Total
    BY <2>4, <2>5 DEF canAllocateLocked, Fits
  <2> HIDE DEF c
  <2>10. nodeBudgets'[p].Allocated - c + job[q].Memory <= nodeBudgets'[p].Total
    BY <2>3, <2>5, <2>6, <2>8, <2>9 DEF NodeBudget
  <2> QED BY <1>1, <2>7, <2>10 DEF canAllocateLocked, Fits, Model, c
<1>7. OnItsWay(q)'
  <2>1. VictimFor(q)'
    <3>1. Victim(q)' = v
      BY <1>0, <1>1 DEF EvictRelease, Victim, Shape, ProxyTypeOK, Eviction
    <3> QED BY <1>1, <1>2, <3>1 DEF VictimFor, Model
  <2> QED BY <1>1, <1>6, <2>1 DEF OnItsWay, RoomFor
<1> QED BY <1>1, <1>3, <1>5, <1>7, SerialStep

(* The pod that is made was part of the sum.                               *)
LEMMA SerialCreate ==
    ASSUME Serial, FixedMemories, Shape, SerialInv, NEW q \in Requests, Create(q)
    PROVE  SerialInv'
<1>0. LocalStep(q)
  BY DEF LocalStep
<1> DEFINE m == Model(q)
           phase == IF pods[m] = "none" THEN "starting" ELSE pods[m]
<1>1. /\ pc[q] = "create" /\ pc'[q] = "allocate"
      /\ job' = job /\ OnItsWay(q) /\ UNCHANGED trackerVars
      /\ \A r \in Requests \ {q} : pc'[r] = pc[r]
  BY <1>0, LocalGoes DEF Shape, ProxyTypeOK, Create, Goto
<1>2. m \in Models /\ job[q].Memory \in Memories[m] /\ job[q].Memory \in 1..MaxMemory
  BY <1>1, JobModel DEF Job
<1>3. ClusterTypeOK /\ cached = pods /\ pods \in [Models -> PodPhase]
  BY DEF SerialInv, Alone, ClusterTypeOK
<1>4. /\ crs' = crs /\ pods' = [pods EXCEPT ![m] = phase]
      /\ cached' = [cached EXCEPT ![m] = phase]
  BY DEF Create, CreatePod, SetPod, Serial
<1>5. phase \in PodPhase
  BY <1>2, <1>3 DEF PodPhase
<1>6. ClusterTypeOK' /\ cached' = pods'
  BY <1>2, <1>3, <1>4, <1>5 DEF ClusterTypeOK
<1>7. \A n \in Models \ {m} : pods'[n] = pods[n]
  BY <1>3, <1>4
<1>8. Alone' /\ \A r \in Requests \ {q} : OnItsWay(r)'
  BY <1>1, <1>6, StaysAlone
<1>9. OnItsWay(q)'
  <2>1. AdmittedFor(q)'
    BY <1>1 DEF OnItsWay, AdmittedFor, canAllocateLocked, Fits, Model, trackerVars
  <2> QED BY <1>1, <2>1 DEF OnItsWay, RoomFor, VictimFor
<1>10. PodsCharged'
  <2> SUFFICES ASSUME NEW n \in Models, Runs(n)', n # m PROVE ChargedInFull(n)'
    BY <1>1 DEF PodsCharged, Model
  <2>1. Runs(n)
    BY <1>7 DEF Runs
  <2> QED BY <1>1, <2>1, AllCharged DEF ChargedInFull, trackerVars
<1>11. GlobalLimit'
  <2> SUFFICES ASSUME MaxMemoryBytes > 0 PROVE Cardinality(RunningUnits') <= MaxMemoryBytes
    BY DEF GlobalLimit
  <2>1. Cardinality(RunningWith(q)) <= MaxMemoryBytes
    BY <1>1 DEF OnItsWay, RoomFor
  <2>2. RunningUnits' \subseteq RunningWith(q)
    <3> SUFFICES ASSUME NEW u \in RunningUnits' PROVE u \in RunningWith(q)
      OBVIOUS
    <3>1. /\ u \in Models \X (1..MaxMemory) /\ pods'[u[1]] \in {"starting", "ready"}
          /\ \E mem \in Memories[u[1]] : u[2] <= mem
      BY DEF RunningUnits
    <3>2. CASE u[1] = m
      <4>1. PICK mem \in Memories[m] : u[2] <= mem
        BY <3>1, <3>2
      <4>2. mem = job[q].Memory
        BY <1>2, <4>1 DEF FixedMemories
      <4>3. u = <<u[1], u[2]>> /\ u[2] \in 1..job[q].Memory
        BY <1>2, <3>1, <4>1, <4>2
      <4> QED BY <3>2, <4>3 DEF RunningWith
    <3>3. CASE u[1] # m
      <4>1. pods'[u[1]] = pods[u[1]]
        BY <1>7, <3>1, <3>3
      <4> QED BY <3>1, <4>1 DEF RunningUnits, RunningWith
    <3> QED BY <3>2, <3>3
  <2>3. IsFiniteSet(RunningWith(q))
    BY <1>2, RunningFinite, UnitsFinite, FS_Union DEF RunningWith
  <2>4. /\ Cardinality(RunningUnits') <= Cardinality(RunningWith(q))
        /\ Cardinality(RunningUnits') \in Nat /\ Cardinality(RunningWith(q)) \in Nat
    BY <2>2, <2>3, FS_Subset, FS_CardinalityType
  <2> HIDE DEF RunningWith
  <2> QED BY <2>1, <2>4
<1> QED BY <1>8, <1>9, <1>10, <1>11 DEF SerialInv

(* No other request has taken the room since CanAllocate, so Allocate does *)
(* not fail.                                                               *)
LEMMA SerialAllocate ==
    ASSUME FixedMemories, Shape, SerialInv, NEW q \in Requests, AllocateBudget(q)
    PROVE  SerialInv'
<1>0. LocalStep(q)
  BY DEF LocalStep
<1> DEFINE m == Model(q)
<1>1. /\ pc[q] = "allocate" /\ OnItsWay(q) /\ UNCHANGED clusterVars
      /\ \A r \in Requests \ {q} : pc'[r] = pc[r]
      /\ pc \in [Requests -> Label]
  BY <1>0, LocalGoes DEF Shape, ProxyTypeOK, AllocateBudget
<1>2. /\ m \in Models /\ job[q].Memory \in Memories[m]
      /\ allocations \in [Models -> Allocation \cup {NoAllocation}]
      /\ job[q] \in Job
  BY <1>1, JobModel DEF Shape, TrackerTypeOK
<1>3. PICK ok \in BOOLEAN :
        /\ Allocate(m, job[q].Memory, job[q].NodeSelector, ok)
        /\ Goto(q, IF ok THEN "wait" ELSE "cleanup")
  BY DEF AllocateBudget
<1>4. ok
  BY <1>1, <1>3 DEF Allocate, OnItsWay, AdmittedFor
<1>5. Grant(m, job[q].Memory, job[q].NodeSelector) /\ pc'[q] = "wait"
  BY <1>1, <1>3, <1>4 DEF Allocate, Goto
<1>6. /\ allocations'[m] = [Memory |-> job[q].Memory, NodeSelector |-> job[q].NodeSelector]
      /\ \A n \in Models \ {m} : allocations'[n] = allocations[n]
  BY <1>2, <1>5 DEF Grant
<1>7. allocations'[m] # NoAllocation /\ \A mem \in Memories[m] : mem <= allocations'[m].Memory
  <2>1. allocations'[m] \in Allocation /\ allocations'[m].Memory = job[q].Memory
    BY <1>2, <1>6 DEF Job, Allocation
  <2>2. \A mem \in Memories[m] : mem = job[q].Memory /\ mem \in 1..MaxMemory
    BY <1>2 DEF FixedMemories
  <2> HIDE DEF m
  <2> QED BY <2>1, <2>2
<1>8. pods' = pods /\ ClusterTypeOK' /\ cached' = pods'
  BY <1>1 DEF SerialInv, Alone, ClusterTypeOK, clusterVars
<1>9. PodsCharged'
  <2> SUFFICES ASSUME NEW n \in Models, Runs(n)', n # m PROVE ChargedInFull(n)'
    BY <1>7 DEF PodsCharged, ChargedInFull
  <2>1. Runs(n) /\ allocations'[n] = allocations[n]
    BY <1>6, <1>8 DEF Runs
  <2>2. \A r \in Requests : pc[r] = "allocate" => r = q
    BY <1>1 DEF SerialInv, Alone, InFlight
  <2>3. ChargedInFull(n)
    BY <2>1, <2>2 DEF SerialInv, PodsCharged
  <2> QED BY <2>1, <2>3 DEF ChargedInFull
<1>10. Alone' /\ \A r \in Requests \ {q} : OnItsWay(r)'
  BY <1>1, <1>8, StaysAlone
<1>11. GlobalLimit'
  BY <1>8, NoPodStarts DEF SerialInv, Runs
<1>12. OnItsWay(q)'
  BY <1>5, NothingToKeep
<1> QED BY <1>9, <1>10, <1>11, <1>12 DEF SerialInv

(* The other steps of a handler: the request is recorded, takes its mutex, *)
(* gives it back, is done.                                                 *)
LEMMA SerialOthers ==
    ASSUME Shape, SerialInv, NEW q \in Requests,
           Record(q) \/ LoadOrStore(q) \/ Unstore(q) \/ Finish(q)
    PROVE  SerialInv'
<1>1. /\ pc[q] \in {"record", "ensure", "unstore", "finish"}
      /\ pc'[q] \in {"route", "lock", "finish", "forward", "done"}
      /\ \A r \in Requests \ {q} : pc'[r] = pc[r]
      /\ UNCHANGED <<trackerVars, clusterVars>>
  BY DEF Record, LoadOrStore, Unstore, Finish, Goto, Shape, ProxyTypeOK
<1> QED BY <1>1, NothingToKeep, QuietStep

LEMMA SerialHandle ==
    ASSUME Serial, FixedMemories, SingleLabel, Shape, SerialInv,
           NEW q \in Requests, Handle(q)
    PROVE  SerialInv'
<1>1. ~Cleanup(q)
  BY DEF Cleanup, SerialInv, OnItsWay
<1> QED
  BY <1>1, SerialAside, SerialAdmitted, SerialAdmit, SerialSync, SerialEvictPod,
     SerialRelease, SerialCreate, SerialAllocate, SerialOthers DEF Handle

(* A request arrives when no other is in flight, or is rejected at once.   *)
LEMMA SerialArrive ==
    ASSUME Serial, Shape, SerialInv, NEW q \in Requests, Reject(q) \/ Arrive(q)
    PROVE  SerialInv'
<1>1. /\ pc[q] = "idle" /\ pc'[q] \in {"record", "done"}
      /\ \A r \in Requests \ {q} : pc'[r] = pc[r] /\ job'[r] = job[r]
      /\ UNCHANGED <<trackerVars, clusterVars, evict>>
  BY DEF Reject, Arrive, Goto, Shape, ProxyTypeOK, localVars
<1>2. \A r, s \in InFlight' : r = s
  <2>1. CASE Reject(q)
    <3>1. InFlight' = InFlight
      BY <1>1, <2>1 DEF InFlight, Reject, Goto, Shape, ProxyTypeOK
    <3> QED BY <3>1 DEF SerialInv, Alone
  <2>2. CASE Arrive(q)
    <3>1. Cardinality(InFlight) < MaxInFlight /\ InFlight \subseteq Requests
      BY <2>2 DEF Arrive, InFlight
    <3>2. IsFiniteSet(InFlight) /\ Cardinality(InFlight) \in Nat
      BY <3>1, FS_Subset, FS_CardinalityType
    <3>3. Cardinality(InFlight) = 0
      BY <3>1, <3>2, MaxInFlightNat DEF Serial
    <3>4. InFlight = {}
      BY <3>2, <3>3, FS_EmptySet
    <3>5. InFlight' \subseteq {q}
      BY <1>1, <3>4 DEF InFlight
    <3> QED BY <3>5
  <2> QED BY <2>1, <2>2
<1>3. Alone'
  BY <1>1, <1>2 DEF SerialInv, Alone, ClusterTypeOK, clusterVars
<1>4. \A r \in Requests : pc[r] = "allocate" => pc'[r] = "allocate" /\ job'[r] = job[r]
  BY <1>1
<1>5. PodsCharged'
  <2> SUFFICES ASSUME NEW n \in Models, Runs(n)', ~ChargedInFull(n)'
               PROVE  \E r \in Requests : pc'[r] = "allocate" /\ Model(r)' = n
    BY DEF PodsCharged
  <2>1. Runs(n) /\ ~ChargedInFull(n)
    BY <1>1 DEF Runs, ChargedInFull, trackerVars, clusterVars
  <2> QED BY <1>4, <2>1 DEF SerialInv, PodsCharged, Model
<1>6. GlobalLimit'
  BY <1>1, NoPodStarts DEF SerialInv, Runs, clusterVars
<1>7. \A r \in Requests \ {q} : OnItsWay(r)'
  <2> SUFFICES ASSUME NEW r \in Requests \ {q} PROVE OnItsWay(r)'
    OBVIOUS
  <2>1. pc'[r] = pc[r] /\ job'[r] = job[r] /\ evict' = evict /\ OnItsWay(r)
    BY <1>1 DEF SerialInv
  <2>2. nodeBudgets' = nodeBudgets /\ allocations' = allocations /\ pods' = pods
    BY <1>1 DEF trackerVars, clusterVars
  <2> QED BY <2>1, <2>2 DEF OnItsWay, RoomFor, AdmittedFor, VictimFor, RunningWith,
             RunningUnits, canAllocateLocked, Fits, Model, Victim, Runs
<1>8. OnItsWay(q)'
  BY <1>1, NothingToKeep
<1> QED BY <1>3, <1>5, <1>6, <1>7, <1>8 DEF SerialInv

(* The cluster starts no pod by itself.                                    *)
LEMMA SerialEnvironment ==
    ASSUME Serial, Shape, SerialInv, Environment
    PROVE  SerialInv'
<1>1. UNCHANGED <<nodeBudgets, allocations, pc, job, evict>>
  BY DEF Environment, trackerVars, proxyVars, localVars
<1>2. ClusterTypeOK /\ cached = pods
  BY DEF SerialInv, Alone
<1>3. PICK m \in Models : PodStarts(m) \/ PodStops(m) \/ PodVanishes(m)
  BY <1>2 DEF Environment, Kubelet, Informer, InformerSyncs
<1>4. PICK phase \in PodPhase :
        /\ crs' = crs /\ pods' = [pods EXCEPT ![m] = phase]
        /\ cached' = [cached EXCEPT ![m] = phase]
        /\ phase \in {"starting", "ready"} => Runs(m)
  BY <1>3 DEF PodStarts, PodStops, PodVanishes, SetPod, PodPhase, Serial, Runs
<1>5. ClusterTypeOK' /\ cached' = pods'
  BY <1>2, <1>4 DEF ClusterTypeOK
<1>6. \A n \in Models : Runs(n)' => Runs(n)
  BY <1>2, <1>4 DEF Runs, ClusterTypeOK
<1>7. Alone'
  BY <1>1, <1>5 DEF SerialInv, Alone, InFlight
<1>8. PodsCharged'
  BY <1>1, <1>6 DEF SerialInv, PodsCharged, ChargedInFull, Model
<1>9. RunningUnits' \subseteq RunningUnits /\ GlobalLimit'
  BY <1>6, NoPodStarts DEF SerialInv
<1>10. ASSUME NEW q \in Requests PROVE OnItsWay(q)'
  <2>1. OnItsWay(q)
    BY DEF SerialInv
  <2>2. RoomFor(q)'
    BY <1>1, <1>9, <2>1, RoomKept, Outside DEF OnItsWay, RoomFor
  <2>3. AdmittedFor(q)'
    BY <1>1, <2>1 DEF OnItsWay, AdmittedFor, canAllocateLocked, Fits, Model
  <2>4. VictimFor(q)'
    <3>1. Victim(q)' = Victim(q) /\ Model(q)' = Model(q)
      BY <1>1 DEF Victim, Model
    <3>2. pc'[q] = "evictRelease" => Victim(q) \in Models
      BY <1>1, VictimModel
    <3> QED BY <1>1, <1>6, <2>1, <3>1, <3>2 DEF OnItsWay, VictimFor, Runs
  <2> QED BY <1>1, <2>1, <2>2, <2>3, <2>4 DEF OnItsWay
<1> QED BY <1>7, <1>8, <1>9, <1>10 DEF SerialInv

LEMMA SerialStart == Init => SerialInv
<1> SUFFICES ASSUME Init PROVE SerialInv
  OBVIOUS
<1>1. /\ \A m \in Models : pods[m] = "none"
      /\ cached = pods /\ ClusterTypeOK
      /\ \A q \in Requests : pc[q] = "idle"
  BY DEF Init, ClusterInit, ProxyInit, ClusterTypeOK, PodPhase, ModelPhase
<1>2. Alone /\ PodsCharged /\ \A q \in Requests : OnItsWay(q)
  BY <1>1, Outside DEF Alone, InFlight, PodsCharged, Runs
<1>3. RunningUnits = {}
  BY <1>1 DEF RunningUnits
<1>4. Cardinality(RunningUnits) = 0
  BY <1>3, FS_EmptySet
<1> QED BY <1>2, <1>4 DEF SerialInv, GlobalLimit

(* A proxy that serves one request at a time, with a cache that is up to   *)
(* date, answers that arrive and models that keep their declarations,      *)
(* never lets models run that take more than MaxModelMemory: it makes room *)
(* before it starts a pod, and releases the memory of a victim when its    *)
(* pod is gone.                                                            *)
THEOREM SerialLimit ==
    ASSUME Serial, FixedMemories, SingleLabel
    PROVE  ProxySpec => []GlobalLimit
<1>1. Init => ProxyInv /\ SerialInv
  BY ProxyStart, SerialStart
<1>2. ProxyInv /\ SerialInv /\ [ProxyNext]_vars => SerialInv'
  <2> SUFFICES ASSUME ProxyInv, SerialInv, [ProxyNext]_vars PROVE SerialInv'
    OBVIOUS
  <2>0. Shape
    BY DEF ProxyInv
  <2>1. CASE Serve
    BY <2>0, <2>1, SerialHandle, SerialArrive DEF Serve
  <2>2. CASE Environment
    BY <2>0, <2>2, SerialEnvironment
  <2>3. CASE AllAnswered \/ UNCHANGED vars
    <3>1. UNCHANGED <<nodeBudgets, allocations, crs, pods, cached, pc, job, evict>>
      BY <2>3 DEF AllAnswered, vars, trackerVars, clusterVars, proxyVars, localVars
    <3> QED
      BY <3>1, SMTT(30) DEF SerialInv, Alone, ClusterTypeOK, InFlight, PodsCharged, Runs,
         ChargedInFull, GlobalLimit, OnItsWay, RoomFor, AdmittedFor, VictimFor, Model,
         Victim, RunningWith, RunningUnits, canAllocateLocked, Fits
  <2> QED BY <2>1, <2>2, <2>3 DEF ProxyNext
<1>3. SerialInv => GlobalLimit
  BY DEF SerialInv
<1> QED BY <1>1, <1>2, <1>3, ProxyInvStep, PTL DEF ProxySpec
============================================================================
