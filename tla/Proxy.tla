------------------------------- MODULE Proxy -------------------------------
(***************************************************************************)
(* The inference proxy (internal/proxy/handler.go, server.go): one         *)
(* goroutine per HTTP request, each of which looks its model up, makes     *)
(* sure the model has a ready pod, forwards the request and accounts for   *)
(* it.  One step is one call on shared state: a method of the registry or  *)
(* of the tracker, a Kubernetes API call, an operation on a mutex.         *)
(*                                                                         *)
(* Each request is made once.  A mutex is named by the request that stored *)
(* it in deploymentMutex.                                                  *)
(***************************************************************************)
EXTENDS Tracker, Registry, Cluster

CONSTANTS
    Requests,        \* the HTTP requests
    Multipart,       \* the ones for /v1/audio/transcriptions
    MaxInFlight,     \* how many requests are handled at once
    MaxMemoryBytes,  \* s.MaxMemoryBytes, in units; 0 is no limit
    NoJob,           \* no model looked up yet
    NoMutex          \* no mutex

Job == [model : Models, Memory : 1..MaxMemory, NodeSelector : NodeSelector]

Eviction == [queue : Seq(Models), needed : Int, freed : Nat, memory : 0..MaxMemory]

ASSUME RequestsFinite == IsFiniteSet(Requests)
ASSUME MultipartType == Multipart \subseteq Requests
ASSUME MaxInFlightNat == MaxInFlight \in Nat
ASSUME MaxMemoryBytesNat == MaxMemoryBytes \in Nat
ASSUME NoJobFresh == NoJob \notin Job
ASSUME NoMutexFresh == NoMutex \notin Requests

VARIABLES
    deploymentMutex,  \* the sync.Map deploymentMutex
    pc,               \* where each request is in its handler
    job,              \* the model it looked up, with the spec as it read it
    mu,               \* the mutex it uses in ensureDeployment
    failed,           \* did ensureDeployment, so far, return an error?
    evict             \* the locals of tryEvictIdleModelsForGlobalLimit

localVars == <<job, mu, failed, evict>>

proxyVars == <<deploymentMutex, pc, localVars>>

----------------------------------------------------------------------------
(* The labels of ensureDeployment that are reached with mu locked.         *)
Evicting == {"snapshot", "needed", "evict", "evictPod", "evictRelease", "evictForget"}

Locked == Evicting \cup
    {"recheck", "admit", "total", "retotal", "backend", "create", "allocate",
     "cleanup", "reset", "unlock"}

(* The labels of waitForPodReady, which runs with or without the mutex.    *)
Waiting == {"wait", "ready", "synced"}

Unlocked == {"lock", "unstore"}

(* The labels between RecordRequest and FinishRequest.                     *)
Recorded == Locked \cup Waiting \cup Unlocked
                \cup {"route", "sync", "ensure", "forward", "finish"}

Label == Recorded \cup {"idle", "record", "done"}

NoEviction == [queue |-> <<>>, needed |-> 0, freed |-> 0, memory |-> 0]

ProxyTypeOK ==
    /\ deploymentMutex \in [Models -> Requests \cup {NoMutex}]
    /\ pc \in [Requests -> Label]
    /\ job \in [Requests -> Job \cup {NoJob}]
    /\ mu \in [Requests -> Requests \cup {NoMutex}]
    /\ failed \in [Requests -> BOOLEAN]
    /\ evict \in [Requests -> Eviction]
    /\ \A q \in Requests : job[q] = NoJob <=> pc[q] \in {"idle", "done"}

ProxyInit ==
    /\ deploymentMutex = [m \in Models |-> NoMutex]
    /\ pc = [q \in Requests |-> "idle"]
    /\ job = [q \in Requests |-> NoJob]
    /\ mu = [q \in Requests |-> NoMutex]
    /\ failed = [q \in Requests |-> FALSE]
    /\ evict = [q \in Requests |-> NoEviction]

Model(q) == job[q].model

Goto(q, label) == pc' = [pc EXCEPT ![q] = label]

(* ensureDeployment returns: mu is unlocked and taken out of the map.      *)
Return(q, err) ==
    /\ Goto(q, "unlock")
    /\ failed' = [failed EXCEPT ![q] = err]
    /\ evict' = [evict EXCEPT ![q] = NoEviction]
    /\ UNCHANGED <<job, mu>>

InFlight == {q \in Requests : pc[q] \notin {"idle", "done"}}

HasLock(q) ==
    \/ pc[q] \in Locked
    \/ pc[q] \in Waiting /\ mu[q] # NoMutex

----------------------------------------------------------------------------
(* openaiPassthroughHandler, multipartPassthroughHandler.                  *)

(* The requests that end before they touch any state: a body that cannot   *)
(* be parsed, an unknown model, a model that is still downloading.         *)
Reject(q) ==
    /\ pc[q] = "idle"
    /\ Goto(q, "done")
    /\ UNCHANGED <<trackerVars, registryVars, clusterVars, deploymentMutex, localVars>>

(* lookupInferenceModelByName: a model being deleted is still found.       *)
Arrive(q) ==
    /\ pc[q] = "idle"
    /\ Cardinality(InFlight) < MaxInFlight
    /\ \E m \in {n \in Models : crs[n] # "absent"} :
         \E mem \in Memories[m], selector \in Selectors[m] :
            job' = [job EXCEPT ![q] = [model |-> m, Memory |-> mem,
                                       NodeSelector |-> selector]]
    /\ Goto(q, "record")
    /\ UNCHANGED <<trackerVars, registryVars, clusterVars, deploymentMutex,
                   mu, failed, evict>>

Record(q) ==
    /\ pc[q] = "record"
    /\ RecordRequest(Model(q))
    /\ Goto(q, "route")
    /\ UNCHANGED <<trackerVars, clusterVars, deploymentMutex, localVars>>

(* The switch on the state of the entry.  No code sets StateDeleting.      *)
openaiRoute(state) == CASE state = "Creating" -> "wait"
                        [] state = "Ready"    -> "sync"
                        [] OTHER              -> "ensure"

(* The same switch, which does not sync the allocation of a ready model.   *)
multipartRoute(state) == IF state = "Ready" THEN "forward" ELSE openaiRoute(state)

Route(q) ==
    /\ pc[q] = "route"
    /\ LET state == StateOf(Model(q))
       IN  Goto(q, IF q \in Multipart THEN multipartRoute(state) ELSE openaiRoute(state))
    /\ UNCHANGED <<trackerVars, registryVars, clusterVars, deploymentMutex, localVars>>

Sync(q) ==
    /\ pc[q] = "sync"
    /\ SyncAllocation(Model(q), job[q].Memory, job[q].NodeSelector)
    /\ Goto(q, "forward")
    /\ UNCHANGED <<registryVars, clusterVars, deploymentMutex, localVars>>

(* forwardToBackend, forwardRawRequest: the backend answers, cannot be     *)
(* reached, or runs into the time limit.                                   *)
Forward(q) ==
    /\ pc[q] = "forward"
    /\ Goto(q, "finish")
    /\ UNCHANGED <<trackerVars, registryVars, clusterVars, deploymentMutex, localVars>>

(* Mutant: the error paths of the handler forget FinishRequest.            *)
FinishIfForwarded(q) ==
    /\ pc[q] = "finish"
    /\ IF failed[q] THEN UNCHANGED registryVars ELSE FinishRequest(Model(q))
    /\ Goto(q, "done")
    /\ job' = [job EXCEPT ![q] = NoJob]
    /\ failed' = [failed EXCEPT ![q] = FALSE]
    /\ UNCHANGED <<trackerVars, clusterVars, deploymentMutex, mu, evict>>

(* FinishRequest, on the error paths and in the deferred function.         *)
Finish(q) ==
    /\ pc[q] = "finish"
    /\ FinishRequest(Model(q))
    /\ Goto(q, "done")
    /\ job' = [job EXCEPT ![q] = NoJob]
    /\ failed' = [failed EXCEPT ![q] = FALSE]
    /\ UNCHANGED <<trackerVars, clusterVars, deploymentMutex, mu, evict>>

----------------------------------------------------------------------------
(* ensureDeployment: the mutex.                                            *)

LoadOrStore(q) ==
    LET m == Model(q)
        x == IF deploymentMutex[m] = NoMutex THEN q ELSE deploymentMutex[m]
    IN  /\ pc[q] = "ensure"
        /\ deploymentMutex' = [deploymentMutex EXCEPT ![m] = x]
        /\ mu' = [mu EXCEPT ![q] = x]
        /\ Goto(q, "lock")
        /\ UNCHANGED <<trackerVars, registryVars, clusterVars, job, failed, evict>>

Lock(q) ==
    /\ pc[q] = "lock"
    /\ \A r \in Requests : mu[r] = mu[q] => ~HasLock(r)
    /\ Goto(q, "recheck")
    /\ UNCHANGED <<trackerVars, registryVars, clusterVars, deploymentMutex, localVars>>

Unlock(q) ==
    /\ pc[q] = "unlock"
    /\ Goto(q, "unstore")
    /\ UNCHANGED <<trackerVars, registryVars, clusterVars, deploymentMutex, localVars>>

(* Mutant: the mutex stays in the map.                                     *)
UnstoreForgotten(q) ==
    /\ pc[q] = "unstore"
    /\ mu' = [mu EXCEPT ![q] = NoMutex]
    /\ Goto(q, IF failed[q] THEN "finish" ELSE "forward")
    /\ UNCHANGED <<trackerVars, registryVars, clusterVars, deploymentMutex,
                   job, failed, evict>>

(* deploymentMutex.Delete(key), whatever mutex the key holds by now.       *)
Unstore(q) ==
    /\ pc[q] = "unstore"
    /\ deploymentMutex' = [deploymentMutex EXCEPT ![Model(q)] = NoMutex]
    /\ mu' = [mu EXCEPT ![q] = NoMutex]
    /\ Goto(q, IF failed[q] THEN "finish" ELSE "forward")
    /\ UNCHANGED <<trackerVars, registryVars, clusterVars, job, failed, evict>>

----------------------------------------------------------------------------
(* ensureDeployment: admission.                                            *)

Recheck(q) ==
    /\ pc[q] = "recheck"
    /\ IF StateOf(Model(q)) = "Ready"
       THEN Return(q, FALSE)
       ELSE Goto(q, "admit") /\ UNCHANGED localVars
    /\ UNCHANGED <<trackerVars, registryVars, clusterVars, deploymentMutex>>

Admit(q) ==
    /\ pc[q] = "admit"
    /\ \E p, k \in nodeSelectorKey(job[q].NodeSelector) :
         IF CanAllocate(Model(q), job[q].Memory, p, k)
         THEN /\ Goto(q, IF MaxMemoryBytes > 0 THEN "total" ELSE "backend")
              /\ UNCHANGED localVars
         ELSE Return(q, TRUE)
    /\ UNCHANGED <<trackerVars, registryVars, clusterVars, deploymentMutex>>

(* Mutant: the memory of the new model is left out of the sum.             *)
ExceedsLimitAlready(q) == GetTotalAllocatedMemory > MaxMemoryBytes

ExceedsLimit(q) == GetTotalAllocatedMemory + job[q].Memory > MaxMemoryBytes

CheckTotal(q) ==
    /\ pc[q] = "total"
    /\ Goto(q, IF ExceedsLimit(q) THEN "snapshot" ELSE "backend")
    /\ UNCHANGED <<trackerVars, registryVars, clusterVars, deploymentMutex, localVars>>

RecheckTotal(q) ==
    /\ pc[q] = "retotal"
    /\ IF ExceedsLimit(q)
       THEN Return(q, TRUE)
       ELSE /\ Goto(q, "backend")
            /\ evict' = [evict EXCEPT ![q] = NoEviction]
            /\ UNCHANGED <<job, mu, failed>>
    /\ UNCHANGED <<trackerVars, registryVars, clusterVars, deploymentMutex>>

----------------------------------------------------------------------------
(* tryEvictIdleModelsForGlobalLimit.                                       *)

SnapshotIdle(q) ==
    /\ pc[q] = "snapshot"
    /\ \E idle \in GetIdleEntriesSorted :
         IF idle = <<>>
         THEN Return(q, TRUE)
         ELSE /\ evict' = [evict EXCEPT ![q].queue = idle]
              /\ Goto(q, "needed")
              /\ UNCHANGED <<job, mu, failed>>
    /\ UNCHANGED <<trackerVars, registryVars, clusterVars, deploymentMutex>>

ComputeNeeded(q) ==
    /\ pc[q] = "needed"
    /\ evict' = [evict EXCEPT ![q].needed =
                    job[q].Memory - (MaxMemoryBytes - GetTotalAllocatedMemory)]
    /\ Goto(q, "evict")
    /\ UNCHANGED <<trackerVars, registryVars, clusterVars, deploymentMutex,
                   job, mu, failed>>

Victim(q) == Head(evict[q].queue)

FreedEnough(e) == e.freed >= e.needed

(* Mutant: the loop does not move past an entry that it skips.             *)
NextVictimStuck(q) ==
    /\ pc[q] = "evict"
    /\ IF evict[q].queue = <<>>
       THEN IF FreedEnough(evict[q])
            THEN Goto(q, "retotal") /\ UNCHANGED localVars
            ELSE Return(q, TRUE)
       ELSE IF Victim(q) = Model(q) \/ allocations[Victim(q)] = NoAllocation
            THEN UNCHANGED proxyVars
            ELSE /\ evict' = [evict EXCEPT ![q].memory = allocations[Victim(q)].Memory]
                 /\ Goto(q, "evictPod")
                 /\ UNCHANGED <<job, mu, failed>>
    /\ UNCHANGED <<trackerVars, registryVars, clusterVars, deploymentMutex>>

(* The head of the loop: entries without an allocation, and the model that *)
(* is asked for, are skipped.                                              *)
NextVictim(q) ==
    /\ pc[q] = "evict"
    /\ IF evict[q].queue = <<>>
       THEN IF FreedEnough(evict[q])
            THEN Goto(q, "retotal") /\ UNCHANGED localVars
            ELSE Return(q, TRUE)
       ELSE IF Victim(q) = Model(q) \/ allocations[Victim(q)] = NoAllocation
            THEN /\ evict' = [evict EXCEPT ![q].queue = Tail(@)]
                 /\ UNCHANGED <<pc, job, mu, failed>>
            ELSE /\ evict' = [evict EXCEPT ![q].memory = allocations[Victim(q)].Memory]
                 /\ Goto(q, "evictPod")
                 /\ UNCHANGED <<job, mu, failed>>
    /\ UNCHANGED <<trackerVars, registryVars, clusterVars, deploymentMutex>>

(* The pod is deleted only if the cache shows it.                          *)
EvictPod(q) ==
    /\ pc[q] = "evictPod"
    /\ IF cached[Victim(q)] # "none" THEN DeletePod(Victim(q)) ELSE UNCHANGED clusterVars
    /\ Goto(q, "evictRelease")
    /\ UNCHANGED <<trackerVars, registryVars, deploymentMutex, localVars>>

(* The delete fails, or its answer is lost, and the loop goes on with the  *)
(* next entry.                                                             *)
EvictPodFails(q) ==
    /\ pc[q] = "evictPod"
    /\ cached[Victim(q)] # "none"
    /\ MayHave(DeletePod(Victim(q)))
    /\ evict' = [evict EXCEPT ![q].queue = Tail(@), ![q].memory = 0]
    /\ Goto(q, "evict")
    /\ UNCHANGED <<trackerVars, registryVars, deploymentMutex, job, mu, failed>>

(* Mutant: the memory that was freed is subtracted.                        *)
EvictReleaseSubtracts(q) ==
    /\ pc[q] = "evictRelease"
    /\ ReleaseModel(Victim(q))
    /\ evict' = [evict EXCEPT ![q].freed = evict[q].freed - evict[q].memory,
                              ![q].memory = 0]
    /\ Goto(q, "evictForget")
    /\ UNCHANGED <<registryVars, clusterVars, deploymentMutex, job, mu, failed>>

EvictRelease(q) ==
    /\ pc[q] = "evictRelease"
    /\ ReleaseModel(Victim(q))
    /\ evict' = [evict EXCEPT ![q].freed = evict[q].freed + evict[q].memory,
                              ![q].memory = 0]
    /\ Goto(q, "evictForget")
    /\ UNCHANGED <<registryVars, clusterVars, deploymentMutex, job, mu, failed>>

EvictForget(q) ==
    /\ pc[q] = "evictForget"
    /\ DeleteEntry(Victim(q))
    /\ evict' = [evict EXCEPT ![q].queue = Tail(@)]
    /\ Goto(q, IF FreedEnough(evict[q]) THEN "retotal" ELSE "evict")
    /\ UNCHANGED <<trackerVars, clusterVars, deploymentMutex, job, mu, failed>>

----------------------------------------------------------------------------
(* ensureDeployment: the pod.                                              *)

(* The InferenceBackend is read; without it there is nothing to undo.      *)
GetBackend(q) ==
    /\ pc[q] = "backend"
    /\ SetState(Model(q), "Creating")
    /\ Goto(q, "create")
    /\ UNCHANGED <<trackerVars, clusterVars, deploymentMutex, localVars>>

GetBackendFails(q) ==
    /\ pc[q] = "backend"
    /\ Return(q, TRUE)
    /\ UNCHANGED <<trackerVars, registryVars, clusterVars, deploymentMutex>>

Create(q) ==
    /\ pc[q] = "create"
    /\ CreatePod(Model(q))
    /\ Goto(q, "allocate")
    /\ UNCHANGED <<trackerVars, registryVars, deploymentMutex, localVars>>

(* buildPod, SetControllerReference or Create fails; the answer of the API *)
(* server may also be lost after it has created the pod.                   *)
CreateFails(q) ==
    /\ pc[q] = "create"
    /\ MayHave(CreatePod(Model(q)))
    /\ Goto(q, "reset")
    /\ UNCHANGED <<trackerVars, registryVars, deploymentMutex, localVars>>

AllocateBudget(q) ==
    /\ pc[q] = "allocate"
    /\ \E ok \in BOOLEAN :
         /\ Allocate(Model(q), job[q].Memory, job[q].NodeSelector, ok)
         /\ Goto(q, IF ok THEN "wait" ELSE "cleanup")
    /\ UNCHANGED <<registryVars, clusterVars, deploymentMutex, localVars>>

(* The pod is deleted again; an error of the delete is ignored.            *)
Cleanup(q) ==
    /\ pc[q] = "cleanup"
    /\ DeletePod(Model(q)) \/ UNCHANGED clusterVars
    /\ Goto(q, "reset")
    /\ UNCHANGED <<trackerVars, registryVars, deploymentMutex, localVars>>

Reset(q) ==
    /\ pc[q] = "reset"
    /\ SetState(Model(q), "Nonexistent")
    /\ Return(q, TRUE)
    /\ UNCHANGED <<trackerVars, clusterVars, deploymentMutex>>

----------------------------------------------------------------------------
(* waitForPodReady.                                                        *)

(* Its caller: ensureDeployment, which holds a mutex, or the handler.      *)
WaitReturns(q, err) ==
    IF mu[q] # NoMutex
    THEN Return(q, err)
    ELSE Goto(q, IF err THEN "finish" ELSE "forward") /\ UNCHANGED localVars

PollReady(q) ==
    /\ pc[q] = "wait"
    /\ SeenReady(Model(q))
    /\ Goto(q, "ready")
    /\ UNCHANGED <<trackerVars, registryVars, clusterVars, deploymentMutex, localVars>>

SetReady(q) ==
    /\ pc[q] = "ready"
    /\ SetState(Model(q), "Ready")
    /\ Goto(q, "synced")
    /\ UNCHANGED <<trackerVars, clusterVars, deploymentMutex, localVars>>

(* Mutant: the waiter relies on the creator for the allocation.            *)
SyncReadyForgotten(q) ==
    /\ pc[q] = "synced"
    /\ WaitReturns(q, FALSE)
    /\ UNCHANGED <<trackerVars, registryVars, clusterVars, deploymentMutex>>

SyncReady(q) ==
    /\ pc[q] = "synced"
    /\ SyncAllocation(Model(q), job[q].Memory, job[q].NodeSelector)
    /\ WaitReturns(q, FALSE)
    /\ UNCHANGED <<registryVars, clusterVars, deploymentMutex>>

(* ScaleUpTimeout has passed.                                              *)
WaitTimesOut(q) ==
    /\ pc[q] = "wait"
    /\ SetState(Model(q), "Nonexistent")
    /\ WaitReturns(q, TRUE)
    /\ UNCHANGED <<trackerVars, clusterVars, deploymentMutex>>

(* The client has gone away: the state of the entry stays as it is.        *)
WaitCancelled(q) ==
    /\ pc[q] = "wait"
    /\ WaitReturns(q, TRUE)
    /\ UNCHANGED <<trackerVars, registryVars, clusterVars, deploymentMutex>>

----------------------------------------------------------------------------
Handle(q) ==
    \/ Record(q) \/ Route(q) \/ Sync(q) \/ Forward(q) \/ Finish(q)
    \/ LoadOrStore(q) \/ Lock(q) \/ Unlock(q) \/ Unstore(q)
    \/ Recheck(q) \/ Admit(q) \/ CheckTotal(q) \/ RecheckTotal(q)
    \/ SnapshotIdle(q) \/ ComputeNeeded(q) \/ NextVictim(q)
    \/ EvictPod(q) \/ EvictPodFails(q) \/ EvictRelease(q) \/ EvictForget(q)
    \/ GetBackend(q) \/ GetBackendFails(q) \/ Create(q) \/ CreateFails(q)
    \/ AllocateBudget(q) \/ Cleanup(q) \/ Reset(q)
    \/ PollReady(q) \/ SetReady(q) \/ SyncReady(q)
    \/ WaitTimesOut(q) \/ WaitCancelled(q)

vars == <<trackerVars, registryVars, clusterVars, proxyVars>>

(* The controller has reconciled some of the models, in some order, and    *)
(* found no pod for them.                                                  *)
ReconciledInit ==
    \E known \in SUBSET Models :
        /\ entries = [m \in Models |-> IF m \in known THEN NewEntry("Nonexistent", 0)
                                                      ELSE NoEntry]
        /\ \E s \in [1..Cardinality(known) -> known] :
             /\ \A i, j \in DOMAIN s : s[i] = s[j] => i = j
             /\ older = {p \in known \X known :
                            \E i, j \in DOMAIN s : i < j /\ p = <<s[i], s[j]>>}

(* The pools that are to have a budget have one, and no model runs yet.    *)
ConfiguredInit ==
    /\ nodeBudgets \in [Pools -> {NoBudget} \cup [Total : Totals, Allocated : {0}]]
    /\ allocations = [m \in Models |-> NoAllocation]

Init == ConfiguredInit /\ ReconciledInit /\ ClusterInit /\ ProxyInit

Serve == \E q \in Requests : Reject(q) \/ Arrive(q) \/ Handle(q)

Environment ==
    /\ Kubelet \/ Informer
    /\ UNCHANGED <<trackerVars, registryVars, proxyVars>>

(* Every request is answered: nothing is left to do.                       *)
AllAnswered ==
    /\ \A q \in Requests : pc[q] = "done"
    /\ UNCHANGED vars

(* The proxy on its own, between two reconciles.                           *)
ProxyNext == Serve \/ Environment \/ AllAnswered

ProxySpec == Init /\ [][ProxyNext]_vars

(* A goroutine that can take a step eventually takes one: the scheduler    *)
(* runs it, a wait runs into ScaleUpTimeout, a forward into the client's   *)
(* 10 minutes.                                                             *)
FairProxySpec == ProxySpec /\ \A q \in Requests : WF_vars(Handle(q))

----------------------------------------------------------------------------
InFlightFor(m) == {q \in Requests : pc[q] \in Recorded /\ Model(q) = m}

(* The active count of an entry never exceeds the number of requests that  *)
(* are being handled for the model, whatever path they take and however    *)
(* often the entry is deleted and made again under them: no path forgets   *)
(* its FinishRequest, so a model never stays un-evictable.                 *)
RequestAccounting ==
    \A m \in Models :
        entries[m] # NoEntry =>
            entries[m].ActiveRequests <= Cardinality(InFlightFor(m))

(* A mutex in the map belongs to a request that is still inside            *)
(* ensureDeployment for that model: the map does not grow with the models  *)
(* that were ever requested, and no later request finds a mutex that       *)
(* nobody is going to unlock.                                              *)
MutexInUse ==
    \A m \in Models :
        LET x == deploymentMutex[m]
        IN  x # NoMutex => /\ pc[x] \in Locked \cup Waiting \cup Unlocked
                           /\ Model(x) = m
                           /\ mu[x] = x

(* A model the registry shows as Ready, to which requests are forwarded    *)
(* without a test of the budget, holds its memory in the tracker, except   *)
(* while the request that made it Ready is about to sync the allocation or *)
(* the request that evicts it is about to delete the entry.                *)
ReadyAccounted ==
    \A m \in Models :
        entries[m] # NoEntry /\ entries[m].State = "Ready"
                /\ allocations[m] = NoAllocation =>
            \E q \in Requests :
                \/ pc[q] = "synced" /\ Model(q) = m
                \/ pc[q] = "evictForget" /\ Victim(q) = m

(* More memory is charged to a pool than it has.                           *)
Overdrawn(p) ==
    nodeBudgets[p] # NoBudget /\ nodeBudgets[p].Allocated > nodeBudgets[p].Total

(* However the requests for different models interleave between            *)
(* CanAllocate and Allocate, ensureDeployment never takes a pool over its  *)
(* total: Allocate tests the budget again under the tracker's lock.  Only  *)
(* SyncAllocation, which tests nothing, can.                               *)
OverdrawnBySyncOnly ==
    [][\A p \in Pools :
           Overdrawn(p)' /\ ~Overdrawn(p) =>
               \E q \in Requests : pc[q] \in {"sync", "synced"} /\ pc'[q] # pc[q]]_vars

(* The memory of the pods that run or start, and are not on their way out. *)
RunningUnits ==
    {u \in Models \X (1..MaxMemory) :
        /\ pods[u[1]] \in {"starting", "ready"}
        /\ \E mem \in Memories[u[1]] : u[2] <= mem}

(* MaxModelMemory, "Maximum total memory for all running models".          *)
GlobalLimit == MaxMemoryBytes > 0 => Cardinality(RunningUnits) <= MaxMemoryBytes

(* Every request is answered: no request waits for ever on a mutex, on a   *)
(* pod or on an eviction.                                                  *)
EveryRequestAnswered == \A q \in Requests : pc[q] = "record" ~> pc[q] = "done"
============================================================================
