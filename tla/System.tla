------------------------------- MODULE System -------------------------------
(***************************************************************************)
(* The whole process (cmd/main.go): the proxy and the controller share one *)
(* tracker and one registry, and both work on the cluster.  A restart      *)
(* loses everything the process keeps in memory.                           *)
(***************************************************************************)
EXTENDS Proxy, Reconciler

CONSTANTS
    Deletable,     \* the models a user may delete
    MaxRestarts    \* bound: how often the process restarts

ASSUME DeletableType == Deletable \subseteq Models
ASSUME MaxRestartsNat == MaxRestarts \in Nat

VARIABLE restarts   \* how often the process has restarted

systemVars == <<vars, reconcilerVars, restarts>>

SystemInit ==
    /\ TrackerInit /\ RegistryInit /\ ClusterInit
    /\ ProxyInit /\ ReconcilerInit
    /\ restarts = 0

----------------------------------------------------------------------------
ProxyStep == Serve /\ UNCHANGED <<reconcilerVars, restarts>>

ReconcilerStep == Control /\ UNCHANGED <<proxyVars, restarts>>

User == \E m \in Deletable : UserDeletes(m)

Collector == \E m \in Models : GarbageCollects(m)

ClusterStep ==
    /\ Kubelet \/ Informer \/ User \/ Collector
    /\ UNCHANGED <<trackerVars, registryVars, proxyVars, reconcilerVars, restarts>>

(* main() starts over: NewTracker, NewRegistry, an empty deploymentMutex,  *)
(* a cache that lists the pods, and no request.                            *)
Restart ==
    /\ restarts < MaxRestarts
    /\ restarts' = restarts + 1
    /\ nodeBudgets' = [p \in Pools |-> NoBudget]
    /\ allocations' = [m \in Models |-> NoAllocation]
    /\ entries' = [m \in Models |-> NoEntry]
    /\ older' = {}
    /\ deploymentMutex' = [m \in Models |-> NoMutex]
    /\ pc' = [q \in Requests |-> IF pc[q] = "idle" THEN "idle" ELSE "done"]
    /\ job' = [q \in Requests |-> NoJob]
    /\ mu' = [q \in Requests |-> NoMutex]
    /\ failed' = [q \in Requests |-> FALSE]
    /\ evict' = [q \in Requests |-> NoEviction]
    /\ cached' = pods
    /\ ReturnResult
    /\ UNCHANGED <<crs, pods, cond, ready, rmodel>>

SystemNext == ProxyStep \/ ReconcilerStep \/ ClusterStep \/ Restart

SystemSpec == SystemInit /\ [][SystemNext]_systemVars

(* Goroutines run; the workqueue hands out every model again and again     *)
(* (each result asks for a requeue, each error is retried); pods start and *)
(* stop, the informer catches up; time passes, so that a cooldown period   *)
(* is over at some point; a call to the API server that is repeated often  *)
(* enough succeeds.                                                        *)
Fairness ==
    /\ \A q \in Requests : WF_systemVars(Handle(q) /\ UNCHANGED <<reconcilerVars, restarts>>)
    /\ WF_systemVars(Work /\ UNCHANGED <<proxyVars, restarts>>)
    /\ \A m \in Models :
         SF_systemVars((AddFinalizer(m) \/ Reconcile(m)) /\ UNCHANGED <<proxyVars, restarts>>)
    /\ WF_systemVars(ClusterStep /\ (\E m \in Models : PodStarts(m) \/ PodStops(m)))
    /\ WF_systemVars(ClusterStep /\ Informer)
    /\ WF_systemVars(ClusterStep /\ Collector)
    /\ SF_systemVars(CooldownOver /\ UNCHANGED <<proxyVars, restarts>>)
    /\ SF_systemVars((ScaleLock \/ DeleteIdle) /\ UNCHANGED <<proxyVars, restarts>>)

FairSystemSpec == SystemSpec /\ Fairness

----------------------------------------------------------------------------
(* A model that stays without a pod gives its memory back and goes back to *)
(* Nonexistent, so that the next request creates a pod: whatever order the *)
(* requests, the evictions, the idle deletions and a restart came in, and  *)
(* whatever a cancelled wait left behind, the reconciles repair it.        *)
ScaledToZeroSettles ==
    \A m \in Models :
        <>[](pods[m] = "none" /\ crs[m] = "live") =>
            <>[](allocations[m] = NoAllocation /\ StateOf(m) = "Nonexistent")

(* A pod that runs ends up in the budget (README: on a restart the         *)
(* controller "rebuilds state by examining running Deployments").          *)
RunningPodAccounted ==
    \A m \in Models :
        pods[m] = "ready" ~> (pods[m] # "ready" \/ allocations[m] # NoAllocation)
============================================================================
