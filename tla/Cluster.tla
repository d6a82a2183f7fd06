------------------------------ MODULE Cluster ------------------------------
(***************************************************************************)
(* The Kubernetes cluster, as the proxy and the controller use it: the     *)
(* InferenceModel objects, the one pod per model, and the informer cache   *)
(* that the manager's client answers every Get from.                       *)
(***************************************************************************)
EXTENDS ModelKeys

CONSTANT Faults   \* what may go wrong in the cluster

(* staleCache: the cache lags behind the API server; lostAnswer: a call    *)
(* that changed a pod returns an error; vanish: a pod goes away without    *)
(* this program's doing.                                                   *)
ASSUME FaultsType == Faults \subseteq {"staleCache", "lostAnswer", "vanish"}

(* starting: not Ready yet; stopping: deleted, Ready until it is gone.     *)
PodPhase == {"none", "starting", "ready", "stopping"}

(* new: without the finalizer; deleting: with a deletion timestamp.        *)
ModelPhase == {"absent", "new", "live", "deleting"}

VARIABLES
    crs,      \* the InferenceModel objects
    pods,     \* the pods the API server has
    cached    \* the pods the informer cache shows

clusterVars == <<crs, pods, cached>>

ClusterTypeOK ==
    /\ crs \in [Models -> ModelPhase]
    /\ pods \in [Models -> PodPhase]
    /\ cached \in [Models -> PodPhase]

ClusterInit ==
    /\ crs = [m \in Models |-> "new"]
    /\ pods = [m \in Models |-> "none"]
    /\ cached = [m \in Models |-> "none"]

(* The PodReady condition is true: a pod keeps it while it is stopping.    *)
SeenReady(m) == cached[m] \in {"ready", "stopping"}

(* A pod changes; the cache follows at once, or when the informer syncs.   *)
SetPod(m, phase) ==
    /\ pods' = [pods EXCEPT ![m] = phase]
    /\ cached' = IF "staleCache" \in Faults
                 THEN cached ELSE [cached EXCEPT ![m] = phase]
    /\ UNCHANGED crs

Deleted(phase) == CASE phase = "ready"    -> "stopping"
                    [] phase = "starting" -> "none"
                    [] OTHER              -> phase

----------------------------------------------------------------------------
(* Create: no pod is made when one of that name is still there, stopping   *)
(* or not (AlreadyExists).                                                 *)
CreatePod(m) == SetPod(m, IF pods[m] = "none" THEN "starting" ELSE pods[m])

(* Delete: by name, and no error when there is nothing to delete.          *)
DeletePod(m) == SetPod(m, Deleted(pods[m]))

(* The effects of a call that returns an error.                            *)
MayHave(Change) == UNCHANGED clusterVars \/ ("lostAnswer" \in Faults /\ Change)

PodStarts(m) == pods[m] = "starting" /\ SetPod(m, "ready")

PodStops(m) == pods[m] = "stopping" /\ SetPod(m, "none")

PodVanishes(m) == "vanish" \in Faults /\ pods[m] # "none" /\ SetPod(m, "none")

InformerSyncs(m) ==
    /\ cached[m] # pods[m]
    /\ cached' = [cached EXCEPT ![m] = pods[m]]
    /\ UNCHANGED <<crs, pods>>

(* A user deletes an InferenceModel; the finalizer keeps the object.       *)
UserDeletes(m) ==
    /\ crs[m] \in {"new", "live"}
    /\ crs' = [crs EXCEPT ![m] = IF @ = "new" THEN "absent" ELSE "deleting"]
    /\ UNCHANGED <<pods, cached>>

(* The garbage collector deletes the pod of a model that is gone.          *)
GarbageCollects(m) ==
    /\ crs[m] = "absent"
    /\ pods[m] \in {"starting", "ready"}
    /\ DeletePod(m)

Kubelet == \E m \in Models : PodStarts(m) \/ PodStops(m) \/ PodVanishes(m)

Informer == \E m \in Models : InformerSyncs(m)
============================================================================
