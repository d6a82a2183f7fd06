----------------------------- MODULE Reconciler -----------------------------
(***************************************************************************)
(* The InferenceModel controller                                           *)
(* (internal/controller/inferencemodel_controller.go): one worker, which   *)
(* reconciles one model at a time.  One step is one call on shared state:  *)
(* a method of the registry or of the tracker, or a write to the API       *)
(* server.                                                                 *)
(*                                                                         *)
(* A write of an InferenceModel that was read too early is refused as a    *)
(* conflict; it is one of the ways a write fails.  Downloads are not       *)
(* modelled here: the models are there, or need none.                      *)
(***************************************************************************)
EXTENDS Tracker, Registry, Cluster

CONSTANTS
    Persistent,      \* models with scaling disabled or MemoryPressureOnly
    MetricsServer    \* does metrics-server report the memory of the pods?

ASSUME PersistentType == Persistent \subseteq Models
ASSUME MetricsServerType == MetricsServer \in BOOLEAN

(* The Ready condition of the status, by reason and status.                *)
Condition == {"None", "ScaledToZeroTrue", "ScaledToZeroFalse", "Deployed", "Pending"}

View == [pod : PodPhase, cond : Condition, ready : BOOLEAN]

VARIABLES
    cond,     \* status.conditions: the Ready condition of each model
    ready,    \* status.ready of each model
    rpc,      \* where the worker is in Reconcile
    rmodel,   \* the model it reconciles
    rview     \* the status and the pod of that model, as it read them

reconcilerVars == <<cond, ready, rpc, rmodel, rview>>

Steps == {"idle", "deletionRelease", "deletionForget", "deletionFinalizer",
          "getPod", "zeroRelease", "zeroState", "zeroStatus", "idleCheck",
          "activeCheck", "scaleLock", "deletePod", "idleForget", "idleRelease",
          "status", "write"}

NoView == [pod |-> "none", cond |-> "None", ready |-> FALSE]

ReconcilerTypeOK ==
    /\ cond \in [Models -> Condition]
    /\ ready \in [Models -> BOOLEAN]
    /\ rpc \in Steps
    /\ rmodel \in Models
    /\ rview \in View

ReconcilerInit ==
    /\ cond = [m \in Models |-> "None"]
    /\ ready = [m \in Models |-> FALSE]
    /\ rpc = "idle"
    /\ rmodel \in Models
    /\ rview = NoView

(* The worker returns; what it read is forgotten.                          *)
ReturnResult == rpc' = "idle" /\ rview' = NoView

statusVars == <<cond, ready>>

Keep == UNCHANGED <<rmodel, rview>>

----------------------------------------------------------------------------
(* Reconcile: a model that is gone, or not to be found, is no action.      *)

AddFinalizer(m) ==
    /\ rpc = "idle"
    /\ crs[m] = "new"
    /\ crs' = [crs EXCEPT ![m] = "live"]
    /\ UNCHANGED <<trackerVars, registryVars, pods, cached, reconcilerVars>>

Reconcile(m) ==
    /\ rpc = "idle"
    /\ \/ crs[m] = "deleting" /\ rpc' = "deletionRelease"
       \/ crs[m] = "live" /\ rpc' = "getPod"
    /\ rmodel' = m
    /\ rview' = [pod |-> "none", cond |-> cond[m], ready |-> ready[m]]
    /\ UNCHANGED <<trackerVars, registryVars, clusterVars, statusVars>>

GetPod ==
    /\ rpc = "getPod"
    /\ rpc' = IF cached[rmodel] = "none" THEN "zeroRelease" ELSE "idleCheck"
    /\ rview' = [rview EXCEPT !.pod = cached[rmodel]]
    /\ UNCHANGED <<trackerVars, registryVars, clusterVars, statusVars, rmodel>>

----------------------------------------------------------------------------
(* handleDeletion.                                                         *)

DeletionRelease ==
    /\ rpc = "deletionRelease"
    /\ ReleaseModel(rmodel)
    /\ rpc' = "deletionForget"
    /\ UNCHANGED <<registryVars, clusterVars, statusVars>> /\ Keep

DeletionForget ==
    /\ rpc = "deletionForget"
    /\ DeleteEntry(rmodel)
    /\ rpc' = "deletionFinalizer"
    /\ UNCHANGED <<trackerVars, clusterVars, statusVars>> /\ Keep

(* The object goes away with its last finalizer, or the update fails.      *)
RemoveFinalizer ==
    /\ rpc = "deletionFinalizer"
    /\ \/ crs' = [crs EXCEPT ![rmodel] = "absent"]
       \/ UNCHANGED crs
    /\ ReturnResult
    /\ UNCHANGED <<trackerVars, registryVars, pods, cached, statusVars, rmodel>>

----------------------------------------------------------------------------
(* Reconcile, when the pod is not found.                                   *)

ZeroRelease ==
    /\ rpc = "zeroRelease"
    /\ ReleaseModel(rmodel)
    /\ rpc' = "zeroState"
    /\ UNCHANGED <<registryVars, clusterVars, statusVars>> /\ Keep

(* Mutant: an entry in Creating is left alone.                             *)
ZeroStateKeepsCreating ==
    /\ rpc = "zeroState"
    /\ IF StateOf(rmodel) = "Creating"
       THEN UNCHANGED registryVars ELSE SetState(rmodel, "Nonexistent")
    /\ rpc' = "zeroStatus"
    /\ UNCHANGED <<trackerVars, clusterVars, statusVars>> /\ Keep

ZeroState ==
    /\ rpc = "zeroState"
    /\ SetState(rmodel, "Nonexistent")
    /\ rpc' = "zeroStatus"
    /\ UNCHANGED <<trackerVars, clusterVars, statusVars>> /\ Keep

(* Mutant: the condition is stored with a reason nobody knows.             *)
ZeroStatusUnknown ==
    /\ rpc = "zeroStatus"
    /\ ready' = [ready EXCEPT ![rmodel] = FALSE]
    /\ cond' = [cond EXCEPT ![rmodel] = "NoPod"]
    /\ ReturnResult
    /\ UNCHANGED <<trackerVars, registryVars, clusterVars, rmodel>>

(* Two updates of the status, the errors of which are only logged: none,   *)
(* the first, or the second with all of the status is stored.              *)
ZeroStatus ==
    /\ rpc = "zeroStatus"
    /\ \/ UNCHANGED statusVars
       \/ /\ ready' = [ready EXCEPT ![rmodel] = FALSE]
          /\ cond' \in {cond, [cond EXCEPT ![rmodel] = "ScaledToZeroTrue"]}
    /\ ReturnResult
    /\ UNCHANGED <<trackerVars, registryVars, clusterVars, rmodel>>

----------------------------------------------------------------------------
(* handleIdleScaling.                                                      *)

SkipIdleScaling ==
    /\ rpc = "idleCheck"
    /\ rmodel \in Persistent \/ HasActiveRequests(rmodel)
    /\ rpc' = "status"
    /\ UNCHANGED <<trackerVars, registryVars, clusterVars, statusVars>> /\ Keep

(* The annotation of the pod is within the cooldown period, or is set now: *)
(* the status is not updated.                                              *)
WithinCooldown ==
    /\ rpc = "idleCheck"
    /\ rmodel \notin Persistent /\ ~HasActiveRequests(rmodel)
    /\ ReturnResult
    /\ UNCHANGED <<trackerVars, registryVars, clusterVars, statusVars, rmodel>>

(* The pod was created longer than the cooldown period ago: nothing moves  *)
(* the annotation after that.                                              *)
CooldownOver ==
    /\ rpc = "idleCheck"
    /\ rmodel \notin Persistent /\ ~HasActiveRequests(rmodel)
    /\ rpc' = "activeCheck"
    /\ UNCHANGED <<trackerVars, registryVars, clusterVars, statusVars>> /\ Keep

----------------------------------------------------------------------------
(* deleteIdlePod.                                                          *)

(* isScaledDown, on the condition read at the start of the reconcile.      *)
isScaledDown(view) == view.cond = "ScaledToZeroFalse"

ActiveCheck ==
    /\ rpc = "activeCheck"
    /\ IF HasActiveRequests(rmodel) \/ isScaledDown(rview)
       THEN ReturnResult /\ UNCHANGED rmodel
       ELSE rpc' = "scaleLock" /\ Keep
    /\ UNCHANGED <<trackerVars, registryVars, clusterVars, statusVars>>

(* The condition is stored "FIRST as a distributed lock".                  *)
ScaleLock ==
    /\ rpc = "scaleLock"
    /\ cond' = [cond EXCEPT ![rmodel] = "ScaledToZeroFalse"]
    /\ rpc' = "deletePod"
    /\ UNCHANGED <<trackerVars, registryVars, clusterVars, ready>> /\ Keep

ScaleLockFails ==
    /\ rpc = "scaleLock"
    /\ ReturnResult
    /\ UNCHANGED <<trackerVars, registryVars, clusterVars, statusVars, rmodel>>

DeleteIdle ==
    /\ rpc = "deletePod"
    /\ DeletePod(rmodel)
    /\ rpc' = "idleForget"
    /\ UNCHANGED <<trackerVars, registryVars, statusVars>> /\ Keep

DeleteIdleFails ==
    /\ rpc = "deletePod"
    /\ MayHave(DeletePod(rmodel))
    /\ ReturnResult
    /\ UNCHANGED <<trackerVars, registryVars, statusVars, rmodel>>

IdleForget ==
    /\ rpc = "idleForget"
    /\ DeleteEntry(rmodel)
    /\ rpc' = "idleRelease"
    /\ UNCHANGED <<trackerVars, clusterVars, statusVars>> /\ Keep

IdleRelease ==
    /\ rpc = "idleRelease"
    /\ ReleaseModel(rmodel)
    /\ ReturnResult
    /\ UNCHANGED <<registryVars, clusterVars, statusVars, rmodel>>

----------------------------------------------------------------------------
(* updateStatus.                                                           *)

PodReady(view) == view.pod \in {"ready", "stopping"}

UpdateRegistry ==
    /\ rpc = "status"
    /\ IF PodReady(rview) THEN SetState(rmodel, "Ready") ELSE UNCHANGED registryVars
    /\ rpc' = "write"
    /\ UNCHANGED <<trackerVars, clusterVars, statusVars>> /\ Keep

(* The status is stored if Ready or the observed peak has changed, and the *)
(* update may fail.  A changed condition alone is not stored: the test for *)
(* an empty list of conditions comes after one was added to it.            *)
WriteStatus ==
    /\ rpc = "write"
    /\ \/ UNCHANGED statusVars
       \/ /\ rview.ready # PodReady(rview) \/ (MetricsServer /\ PodReady(rview))
          /\ ready' = [ready EXCEPT ![rmodel] = PodReady(rview)]
          /\ cond' = [cond EXCEPT ![rmodel] =
                        IF PodReady(rview) THEN "Deployed" ELSE "Pending"]
    /\ ReturnResult
    /\ UNCHANGED <<trackerVars, registryVars, clusterVars, rmodel>>

----------------------------------------------------------------------------
Work ==
    \/ GetPod
    \/ DeletionRelease \/ DeletionForget \/ RemoveFinalizer
    \/ ZeroRelease \/ ZeroState \/ ZeroStatus
    \/ SkipIdleScaling \/ WithinCooldown \/ CooldownOver
    \/ ActiveCheck \/ ScaleLock \/ ScaleLockFails
    \/ DeleteIdle \/ DeleteIdleFails \/ IdleForget \/ IdleRelease
    \/ UpdateRegistry \/ WriteStatus

Control == Work \/ \E m \in Models : AddFinalizer(m) \/ Reconcile(m)
============================================================================
