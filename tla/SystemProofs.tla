---------------------------- MODULE SystemProofs ----------------------------
(***************************************************************************)
(* What the process keeps true when the controller and the proxy run side  *)
(* by side, for any number of models and of concurrent requests, through   *)
(* deletions and restarts.                                                 *)
(***************************************************************************)
EXTENDS System, ProxyProofs

USE ModelsFinite, MaxMemoryNat, MemoriesType, SelectorsType, NoAllocationFresh,
    NoEntryFresh, RequestsFinite, MaxMemoryBytesNat, NoJobFresh, NoMutexFresh,
    DeletableType

----------------------------------------------------------------------------
(* The cluster.                                                            *)
LEMMA SetPodType ==
    ASSUME ClusterTypeOK, NEW m \in Models, NEW phase \in PodPhase, SetPod(m, phase)
    PROVE  ClusterTypeOK'
BY DEF ClusterTypeOK, SetPod

LEMMA DeletePodType ==
    ASSUME ClusterTypeOK, NEW m \in Models, DeletePod(m)
    PROVE  ClusterTypeOK'
<1>1. Deleted(pods[m]) \in PodPhase
  BY DEF ClusterTypeOK, Deleted, PodPhase
<1> QED BY <1>1, SetPodType DEF DeletePod

LEMMA CreatePodType ==
    ASSUME ClusterTypeOK, NEW m \in Models, CreatePod(m)
    PROVE  ClusterTypeOK'
<1>1. (IF pods[m] = "none" THEN "starting" ELSE pods[m]) \in PodPhase
  BY DEF ClusterTypeOK, PodPhase
<1> QED BY <1>1, SetPodType DEF CreatePod

LEMMA ClusterQuiet == ClusterTypeOK /\ UNCHANGED clusterVars => ClusterTypeOK'
BY DEF ClusterTypeOK, clusterVars

LEMMA ServeCluster ==
    ASSUME Shape, ClusterTypeOK, NEW q \in Requests, Reject(q) \/ Arrive(q) \/ Handle(q)
    PROVE  ClusterTypeOK'
<1>1. CASE UNCHANGED clusterVars
  BY <1>1, ClusterQuiet
<1>2. CASE EvictPod(q) \/ EvictPodFails(q)
  <2>1. Victim(q) \in Models
    BY <1>2, VictimModel DEF EvictPod, EvictPodFails, AtVictim
  <2>2. DeletePod(Victim(q)) \/ UNCHANGED clusterVars
    BY <1>2 DEF EvictPod, EvictPodFails, MayHave
  <2> QED BY <2>1, <2>2, ClusterQuiet, DeletePodType
<1>3. CASE Create(q) \/ CreateFails(q) \/ Cleanup(q)
  <2>1. Model(q) \in Models
    BY <1>3, JobModel DEF Create, CreateFails, Cleanup
  <2>2. CreatePod(Model(q)) \/ DeletePod(Model(q)) \/ UNCHANGED clusterVars
    BY <1>3 DEF Create, CreateFails, Cleanup, MayHave
  <2> QED BY <2>1, <2>2, ClusterQuiet, DeletePodType, CreatePodType
<1> QED
  BY <1>1, <1>2, <1>3
     DEF Handle, Reject, Arrive, Record, Route, Sync, Forward, Finish, LoadOrStore, Lock,
         Unlock, Unstore, Recheck, Admit, CheckTotal, RecheckTotal, SnapshotIdle,
         ComputeNeeded, NextVictim, EvictRelease, EvictForget, GetBackend,
         GetBackendFails, AllocateBudget, Reset, PollReady, SetReady, SyncReady,
         WaitTimesOut, WaitCancelled

LEMMA ClusterStepType ==
    ASSUME ClusterTypeOK, Kubelet \/ Informer \/ User \/ Collector
    PROVE  ClusterTypeOK'
<1>1. ASSUME NEW m \in Models, PodStarts(m) \/ PodStops(m) \/ PodVanishes(m)
      PROVE  ClusterTypeOK'
  BY <1>1, SetPodType DEF PodStarts, PodStops, PodVanishes, PodPhase
<1>2. ASSUME NEW m \in Models, InformerSyncs(m) PROVE ClusterTypeOK'
  BY <1>2 DEF InformerSyncs, ClusterTypeOK
<1>3. ASSUME NEW m \in Models, UserDeletes(m) PROVE ClusterTypeOK'
  BY <1>3 DEF UserDeletes, ClusterTypeOK, ModelPhase
<1>4. ASSUME NEW m \in Models, GarbageCollects(m) PROVE ClusterTypeOK'
  BY <1>4, DeletePodType DEF GarbageCollects
<1> QED BY <1>1, <1>2, <1>3, <1>4 DEF Kubelet, Informer, User, Collector

----------------------------------------------------------------------------
(* The controller.                                                         *)
LEMMA WorkReconciler ==
    ASSUME ReconcilerTypeOK, ClusterTypeOK, Control
    PROVE  ReconcilerTypeOK'
<1>1. NoView \in View
  BY DEF NoView, View, PodPhase, Condition
<1>2. ASSUME rpc' \in Steps, Keep, UNCHANGED statusVars PROVE ReconcilerTypeOK'
  BY <1>2 DEF Keep, statusVars, ReconcilerTypeOK
<1>3. ASSUME ReturnResult, UNCHANGED rmodel, UNCHANGED statusVars PROVE ReconcilerTypeOK'
  BY <1>1, <1>3 DEF ReturnResult, statusVars, ReconcilerTypeOK, Steps
<1>4. ASSUME NEW m \in Models, AddFinalizer(m) PROVE ReconcilerTypeOK'
  BY <1>4 DEF AddFinalizer, reconcilerVars, ReconcilerTypeOK
<1>5. ASSUME NEW m \in Models, Reconcile(m) PROVE ReconcilerTypeOK'
  <2>1. [pod |-> "none", cond |-> cond[m], ready |-> ready[m]] \in View
    BY DEF ReconcilerTypeOK, View, PodPhase
  <2> QED BY <1>5, <2>1 DEF Reconcile, statusVars, ReconcilerTypeOK, Steps
<1>6. CASE GetPod
  <2>1. [rview EXCEPT !.pod = cached[rmodel]] \in View
    BY DEF ReconcilerTypeOK, ClusterTypeOK, View
  <2> QED BY <1>6, <2>1 DEF GetPod, statusVars, ReconcilerTypeOK, Steps
<1>7. CASE DeletionRelease \/ DeletionForget \/ ZeroRelease \/ ZeroState
           \/ SkipIdleScaling \/ CooldownOver \/ DeleteIdle \/ IdleForget \/ UpdateRegistry
  BY <1>2, <1>7 DEF DeletionRelease, DeletionForget, ZeroRelease, ZeroState,
                    SkipIdleScaling, CooldownOver, DeleteIdle, IdleForget,
                    UpdateRegistry, Steps
<1>8. CASE RemoveFinalizer \/ WithinCooldown \/ ScaleLockFails \/ DeleteIdleFails
           \/ IdleRelease
  BY <1>3, <1>8 DEF RemoveFinalizer, WithinCooldown, ScaleLockFails, DeleteIdleFails,
                    IdleRelease
<1>9. CASE ActiveCheck
  BY <1>2, <1>3, <1>9 DEF ActiveCheck, Steps
<1>10. CASE ScaleLock
  BY <1>10 DEF ScaleLock, Keep, ReconcilerTypeOK, Steps, Condition
<1>11. CASE ZeroStatus
  BY <1>1, <1>11 DEF ZeroStatus, ReturnResult, statusVars, ReconcilerTypeOK, Steps,
                     Condition
<1>12. CASE WriteStatus
  <2>1. PodReady(rview) \in BOOLEAN
    BY DEF PodReady
  <2>2. cond' \in [Models -> Condition] /\ ready' \in [Models -> BOOLEAN]
    BY <1>12, <2>1 DEF WriteStatus, statusVars, ReconcilerTypeOK, Condition
  <2> QED BY <1>1, <1>12, <2>2 DEF WriteStatus, ReturnResult, ReconcilerTypeOK, Steps
<1> QED BY <1>4, <1>5, <1>6, <1>7, <1>8, <1>9, <1>10, <1>11, <1>12 DEF Control, Work

LEMMA WorkCluster ==
    ASSUME ReconcilerTypeOK, ClusterTypeOK, Control
    PROVE  ClusterTypeOK'
<1>0. rmodel \in Models
  BY DEF ReconcilerTypeOK
<1>1. CASE UNCHANGED clusterVars
  BY <1>1, ClusterQuiet
<1>2. ASSUME NEW m \in Models, AddFinalizer(m) PROVE ClusterTypeOK'
  BY <1>2 DEF AddFinalizer, ClusterTypeOK, ModelPhase
<1>3. CASE RemoveFinalizer
  BY <1>3 DEF RemoveFinalizer, ClusterTypeOK, ModelPhase
<1>4. CASE DeleteIdle \/ DeleteIdleFails
  <2>1. DeletePod(rmodel) \/ UNCHANGED clusterVars
    BY <1>4 DEF DeleteIdle, DeleteIdleFails, MayHave
  <2> QED BY <1>0, <2>1, ClusterQuiet, DeletePodType
<1> QED
  BY <1>1, <1>2, <1>3, <1>4
     DEF Control, Work, Reconcile, GetPod, DeletionRelease, DeletionForget, ZeroRelease,
         ZeroState, ZeroStatus, SkipIdleScaling, WithinCooldown, CooldownOver,
         ActiveCheck, ScaleLock, ScaleLockFails, IdleForget, IdleRelease,
         UpdateRegistry, WriteStatus

(* The controller deletes entries and sets states: it raises no count.     *)
LEMMA WorkRegistry ==
    ASSUME ReconcilerTypeOK, RegistryTypeOK, Control
    PROVE  RegistryTypeOK' /\ CountsNotRaised
<1>0. rmodel \in Models
  BY DEF ReconcilerTypeOK
<1>1. CASE UNCHANGED registryVars
  BY <1>1 DEF registryVars, RegistryTypeOK, CountsNotRaised, DeploymentEntry
<1>2. CASE DeletionForget \/ IdleForget
  BY <1>0, <1>2, DeleteEntryEffect DEF DeletionForget, IdleForget
<1>3. CASE ZeroState \/ UpdateRegistry
  <2>1. \/ UNCHANGED registryVars
        \/ \E state \in DeploymentState : SetState(rmodel, state)
    BY <1>3 DEF ZeroState, UpdateRegistry, DeploymentState
  <2> QED BY <1>0, <1>1, <2>1, SetStateEffect
<1> QED
  BY <1>1, <1>2, <1>3
     DEF Control, Work, AddFinalizer, Reconcile, GetPod, DeletionRelease, RemoveFinalizer,
         ZeroRelease, ZeroStatus, SkipIdleScaling, WithinCooldown, CooldownOver,
         ActiveCheck, ScaleLock, ScaleLockFails, DeleteIdle, DeleteIdleFails,
         IdleRelease, WriteStatus

(* The controller only ever releases memory.                               *)
LEMMA WorkTracker ==
    ASSUME ReconcilerTypeOK, Control
    PROVE  [TrackerNext]_trackerVars
<1>0. rmodel \in Models
  BY DEF ReconcilerTypeOK
<1>1. CASE UNCHANGED trackerVars
  BY <1>1
<1>2. CASE DeletionRelease \/ ZeroRelease \/ IdleRelease
  BY <1>0, <1>2 DEF DeletionRelease, ZeroRelease, IdleRelease, TrackerNext
<1> QED
  BY <1>1, <1>2
     DEF Control, Work, AddFinalizer, Reconcile, GetPod, DeletionForget, RemoveFinalizer,
         ZeroState, ZeroStatus, SkipIdleScaling, WithinCooldown, CooldownOver,
         ActiveCheck, ScaleLock, ScaleLockFails, DeleteIdle, DeleteIdleFails,
         IdleForget, UpdateRegistry, WriteStatus

----------------------------------------------------------------------------
SystemInv ==
    /\ Shape /\ ClusterTypeOK /\ ReconcilerTypeOK
    /\ RequestAccounting /\ MutexInUse

LEMMA LocalsQuiet ==
    ASSUME ProxyTypeOK, VictimKnown, JobFromSpec, MutexInUse, UNCHANGED proxyVars
    PROVE  /\ ProxyTypeOK' /\ VictimKnown' /\ JobFromSpec' /\ MutexInUse'
           /\ \A m \in Models : InFlightFor(m)' = InFlightFor(m)
<1>1. UNCHANGED <<deploymentMutex, pc, job, mu, failed, evict>>
  BY DEF proxyVars, localVars
<1>2. ProxyTypeOK' /\ VictimKnown' /\ JobFromSpec'
  BY <1>1 DEF ProxyTypeOK, VictimKnown, JobFromSpec, Model
<1>3. MutexInUse' /\ \A m \in Models : InFlightFor(m)' = InFlightFor(m)
  BY <1>1 DEF MutexInUse, InFlightFor, Model
<1> QED BY <1>2, <1>3

LEMMA EmptyStart ==
    ASSUME TrackerInit, RegistryInit, ProxyInit
    PROVE  Shape /\ RequestAccounting /\ MutexInUse
<1>1. TrackerTypeOK
  BY TypeInit
<1>2. RegistryTypeOK /\ RequestAccounting
  BY DEF RegistryInit, RegistryTypeOK, RequestAccounting
<1>3. ProxyTypeOK /\ VictimKnown /\ JobFromSpec
  BY NoEvictionType DEF ProxyInit, ProxyTypeOK, VictimKnown, JobFromSpec, Label, AtVictim
<1>4. MutexInUse
  BY DEF ProxyInit, MutexInUse
<1> QED BY <1>1, <1>2, <1>3, <1>4 DEF Shape

LEMMA SystemStart == SystemInit => SystemInv
<1> SUFFICES ASSUME SystemInit PROVE SystemInv
  OBVIOUS
<1>1. Shape /\ RequestAccounting /\ MutexInUse
  BY EmptyStart DEF SystemInit
<1>2. ClusterTypeOK
  BY DEF SystemInit, ClusterInit, ClusterTypeOK, ModelPhase, PodPhase
<1>3. ReconcilerTypeOK
  BY DEF SystemInit, ReconcilerInit, ReconcilerTypeOK, NoView, View, PodPhase,
         Condition, Steps
<1> QED BY <1>1, <1>2, <1>3 DEF SystemInv

(* A restart empties the memory of the process; no request is left.        *)
LEMMA RestartStep == SystemInv /\ Restart => SystemInv'
<1> SUFFICES ASSUME SystemInv, Restart PROVE SystemInv'
  OBVIOUS
<1>0. ProxyTypeOK /\ ClusterTypeOK /\ ReconcilerTypeOK
  BY DEF SystemInv, Shape
<1>1. TrackerTypeOK'
  BY DEF Restart, TrackerTypeOK
<1>2. RegistryTypeOK' /\ RequestAccounting'
  BY DEF Restart, RegistryTypeOK, RequestAccounting
<1>3. pc' \in [Requests -> {"idle", "done"}]
  BY DEF Restart
<1>4. /\ deploymentMutex' = [m \in Models |-> NoMutex]
      /\ job' = [q \in Requests |-> NoJob]
      /\ mu' = [q \in Requests |-> NoMutex]
      /\ failed' = [q \in Requests |-> FALSE]
      /\ evict' = [q \in Requests |-> NoEviction]
  BY DEF Restart
<1>5. ProxyTypeOK' /\ VictimKnown' /\ JobFromSpec' /\ MutexInUse'
  BY <1>3, <1>4, NoEvictionType
     DEF ProxyTypeOK, VictimKnown, JobFromSpec, MutexInUse, Label, AtVictim
<1>6. ClusterTypeOK'
  BY <1>0 DEF Restart, ClusterTypeOK
<1>7. ReconcilerTypeOK'
  BY <1>0 DEF Restart, ReturnResult, ReconcilerTypeOK, NoView, View, PodPhase,
              Condition, Steps
<1> QED BY <1>1, <1>2, <1>5, <1>6, <1>7 DEF SystemInv, Shape

LEMMA SystemInvStep == SystemInv /\ [SystemNext]_systemVars => SystemInv'
<1> SUFFICES ASSUME SystemInv, [SystemNext]_systemVars PROVE SystemInv'
  OBVIOUS
<1>0. /\ Shape /\ ClusterTypeOK /\ ReconcilerTypeOK /\ RequestAccounting /\ MutexInUse
      /\ TrackerTypeOK /\ RegistryTypeOK /\ ProxyTypeOK /\ VictimKnown /\ JobFromSpec
  BY DEF SystemInv, Shape
<1>1. UNCHANGED reconcilerVars => ReconcilerTypeOK'
  BY <1>0 DEF reconcilerVars, ReconcilerTypeOK
<1>2. CASE ProxyStep
  <2>1. PICK q \in Requests : Reject(q) \/ Arrive(q) \/ Handle(q)
    BY <1>2 DEF ProxyStep, Serve
  <2>2. Shape' /\ ClusterTypeOK'
    BY <1>0, <2>1, ShapeStep, ServeCluster
  <2>3. RequestAccounting' /\ MutexInUse'
    BY <1>0, <2>1, <2>2, CountStep, MutexStep
  <2> QED BY <1>1, <1>2, <2>2, <2>3 DEF ProxyStep, SystemInv
<1>3. CASE ReconcilerStep
  <2>1. Control /\ UNCHANGED proxyVars
    BY <1>3 DEF ReconcilerStep
  <2>2. RegistryTypeOK' /\ CountsNotRaised
    BY <1>0, <2>1, WorkRegistry
  <2>3. TrackerTypeOK'
    BY <1>0, <2>1, WorkTracker, TypeStep
  <2>4. ClusterTypeOK' /\ ReconcilerTypeOK'
    BY <1>0, <2>1, WorkCluster, WorkReconciler
  <2>5. /\ ProxyTypeOK' /\ VictimKnown' /\ JobFromSpec' /\ MutexInUse'
        /\ \A m \in Models : InFlightFor(m)' = InFlightFor(m)
    BY <1>0, <2>1, LocalsQuiet
  <2>6. RequestAccounting'
    BY <1>0, <2>2, <2>5, CountsKept
  <2> QED BY <2>2, <2>3, <2>4, <2>5, <2>6 DEF SystemInv, Shape
<1>4. ASSUME UNCHANGED <<trackerVars, registryVars, proxyVars, reconcilerVars>>,
             ClusterTypeOK'
      PROVE  SystemInv'
  <2>1. TrackerTypeOK' /\ RegistryTypeOK'
    BY <1>0, <1>4 DEF trackerVars, registryVars, TrackerTypeOK, RegistryTypeOK
  <2>2. CountsNotRaised
    BY <1>0, <1>4 DEF registryVars, RegistryTypeOK, CountsNotRaised, DeploymentEntry
  <2>3. /\ ProxyTypeOK' /\ VictimKnown' /\ JobFromSpec' /\ MutexInUse'
        /\ \A m \in Models : InFlightFor(m)' = InFlightFor(m)
    BY <1>0, <1>4, LocalsQuiet
  <2>4. RequestAccounting'
    BY <1>0, <2>1, <2>2, <2>3, CountsKept
  <2> QED BY <1>1, <1>4, <2>1, <2>3, <2>4 DEF SystemInv, Shape
<1>5. CASE ClusterStep
  BY <1>0, <1>4, <1>5, ClusterStepType DEF ClusterStep
<1>6. CASE UNCHANGED systemVars
  BY <1>0, <1>4, <1>6, ClusterQuiet DEF systemVars, vars
<1>7. CASE Restart
  BY <1>7, RestartStep
<1> QED BY <1>2, <1>3, <1>5, <1>6, <1>7 DEF SystemNext

(* The controller, the registry, the tracker and the handlers keep their   *)
(* types through deletions and restarts.                                   *)
THEOREM SystemTypeCorrect ==
    SystemSpec => [](/\ TrackerTypeOK /\ RegistryTypeOK /\ ClusterTypeOK
                     /\ ProxyTypeOK /\ ReconcilerTypeOK)
<1>1. SystemInv => /\ TrackerTypeOK /\ RegistryTypeOK /\ ClusterTypeOK
                   /\ ProxyTypeOK /\ ReconcilerTypeOK
  BY DEF SystemInv, Shape
<1> QED BY <1>1, SystemStart, SystemInvStep, PTL DEF SystemSpec

(* An entry the controller re-creates or resets beside the handlers keeps  *)
(* its type: its active count, which RecordRequest raises and              *)
(* FinishRequest lowers on whatever entry is there, never goes below zero. *)
THEOREM SystemRegistryTyped == SystemSpec => []RegistryTypeOK
<1>1. SystemInv => RegistryTypeOK
  BY DEF SystemInv, Shape
<1> QED BY <1>1, SystemStart, SystemInvStep, PTL DEF SystemSpec

(* While the controller deletes, resets and recreates entries under the    *)
(* handlers, the active count of an entry never exceeds the requests that  *)
(* are being handled for its model.                                        *)
THEOREM SystemRequestsCounted == SystemSpec => []RequestAccounting
<1>1. SystemInv => RequestAccounting
  BY DEF SystemInv
<1> QED BY <1>1, SystemStart, SystemInvStep, PTL DEF SystemSpec

(* Whatever the controller does, a mutex in deploymentMutex belongs to a   *)
(* request that is inside ensureDeployment for that model.                 *)
THEOREM SystemMutexesCollected == SystemSpec => []MutexInUse
<1>1. SystemInv => MutexInUse
  BY DEF SystemInv
<1> QED BY <1>1, SystemStart, SystemInvStep, PTL DEF SystemSpec
============================================================================
