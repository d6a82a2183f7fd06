------------------------------ MODULE Downloads ------------------------------
(***************************************************************************)
(* The download of models: the download manager and its jobs               *)
(* (internal/download/manager.go), the part of the controller that starts  *)
(* and follows them, the files on disk with the manifest and the .ready    *)
(* marker, and the cleaner of the cache (internal/download/cache.go).      *)
(*                                                                         *)
(* A download is tracked, and its directory named, by the name of the      *)
(* model.  How one file is fetched is FileFetch; here a fetch does what    *)
(* FileDelivery promises.  Removing a file is assumed to succeed.          *)
(***************************************************************************)
EXTENDS ModelKeys, FiniteSets, Integers

CONSTANTS
    Files,          \* the files of a model that resolveFiles selects
    Jobs,           \* identities for the goroutines of performDownload
    NoJob,
    MaxConcurrent,  \* slots of the manager's semaphore
    Watched,        \* the models in the namespace the cleaner lists
    UserWaits,      \* does a user wait for a download before deleting its model,
                    \* and for the cleaner before creating one?
    MaxFaults,      \* bound: calls and downloads that fail
    MaxEvents       \* bound: deletions, creations, retries and crashes

ASSUME DownloadConstants ==
    /\ Models # {} /\ Files # {} /\ NoJob \notin Jobs
    /\ MaxConcurrent \in Nat \ {0}
    /\ UserWaits \in BOOLEAN
    /\ Watched \subseteq Models
    /\ MaxFaults \in Nat /\ MaxEvents \in Nat

Phase == {"None", "Pending", "Downloading", "Complete", "Failed"}

VARIABLES
    crs,      \* the InferenceModel objects: do they exist, their download
              \* phase, and is the retry annotation set
    disk,     \* the directory of each model
    tracked,  \* Manager.downloads: the job whose status is kept for a model
    job,      \* the goroutines, with their Status
    rpc, rmodel, rphase,   \* the worker of the controller and its locals
    active,   \* the cleaner: the models it listed, or none listed
    faults, events

downloadVars == <<crs, disk, tracked, job, rpc, rmodel, rphase, active, faults, events>>
worker == <<rpc, rmodel, rphase>>

NoModel == [live |-> FALSE, phase |-> "None", retry |-> FALSE]
NewModel == [NoModel EXCEPT !.live = TRUE]
NoDir == [dir |-> FALSE, old |-> FALSE, file |-> [f \in Files |-> "none"], manifest |-> FALSE, marker |-> FALSE]

(* Locals that are not in use have an arbitrary value, always the same.    *)
AnyModel == CHOOSE m \in Models : TRUE
AnyFile == CHOOSE f \in Files : TRUE
Idle == [pc |-> "none", model |-> AnyModel, phase |-> "Pending", got |-> {},
         file |-> AnyFile, inPlace |-> FALSE, cancelled |-> FALSE]
NotListed == [listed |-> FALSE, models |-> {}]

DownloadInit ==
    /\ crs \in [Models -> {NoModel, NewModel}]
    /\ disk = [m \in Models |-> NoDir]
    /\ tracked = [m \in Models |-> NoJob]
    /\ job = [j \in Jobs |-> Idle]
    /\ rpc = "idle" /\ rmodel = AnyModel /\ rphase = "None"
    /\ active = NotListed
    /\ faults = 0 /\ events = 0

Fault == faults < MaxFaults /\ faults' = faults + 1
Event == events < MaxEvents /\ events' = events + 1

Working(j) == job[j].pc \notin {"none", "waiting", "done"}

----------------------------------------------------------------------------
(* performDownload: one goroutine per job.                                 *)

JobFrame == UNCHANGED <<crs, tracked, worker, active, events>>

SetJob(j, new) == job' = [job EXCEPT ![j] = new]

(* The last phase, and the deferred release of the slot.                   *)
EndJob(j, phase) ==
    SetJob(j, [Idle EXCEPT !.pc = "done", !.model = job[j].model, !.phase = phase])
SetError(j) == EndJob(j, "Failed")

Dir(j) == disk[job[j].model]
SetDir(m, d) == disk' = [disk EXCEPT ![m] = d]

(* A slot of the semaphore is free.                                        *)
AcquireSlot(j) ==
    /\ job[j].pc = "waiting"
    /\ Cardinality({i \in Jobs : Working(i)}) < MaxConcurrent
    /\ IF job[j].cancelled
       THEN SetError(j)
       ELSE SetJob(j, [job[j] EXCEPT !.pc = "prepare", !.phase = "Downloading"])
    /\ UNCHANGED <<disk, faults>> /\ JobFrame

(* MkdirAll, the repository handle and the list of its files.              *)
Prepare(j) ==
    /\ job[j].pc = "prepare"
    /\ SetJob(j, [job[j] EXCEPT !.pc = "files"])
    /\ SetDir(job[j].model, [Dir(j) EXCEPT !.dir = TRUE])
    /\ UNCHANGED faults /\ JobFrame

PrepareFails(j) ==
    /\ job[j].pc = "prepare"
    /\ SetError(j) /\ Fault
    /\ UNCHANGED disk /\ JobFrame

(* The next file, unless the job is cancelled.                             *)
StartFile(j, f) ==
    /\ job[j].pc = "files" /\ f \notin job[j].got
    /\ IF job[j].cancelled
       THEN SetError(j) /\ UNCHANGED disk
       ELSE /\ SetJob(j, [job[j] EXCEPT !.pc = "fetch", !.file = f])
            /\ SetDir(job[j].model, [Dir(j) EXCEPT !.dir = TRUE])
    /\ UNCHANGED faults /\ JobFrame

(* downloadFile begins to write the file under its own name, in a          *)
(* directory that the Xet download makes if it is not there.               *)
FetchInPlace(j) ==
    /\ job[j].pc = "fetch" /\ ~job[j].inPlace
    /\ SetJob(j, [job[j] EXCEPT !.inPlace = TRUE])
    /\ SetDir(job[j].model, [Dir(j) EXCEPT !.dir = TRUE, !.file[job[j].file] = "part",
                                          !.old = @ /\ Dir(j).file[job[j].file] # "none"])
    /\ UNCHANGED faults /\ JobFrame

(* The file is whole: renamed into the directory, or written through a     *)
(* handle, which does not notice that the file has been removed meanwhile. *)
FetchDone(j) ==
    /\ job[j].pc = "fetch"
    /\ SetJob(j, [job[j] EXCEPT !.got = @ \cup {job[j].file}, !.inPlace = FALSE, !.file = AnyFile,
                                !.pc = IF Files \subseteq job[j].got \cup {job[j].file}
                                       THEN "checksums" ELSE "files"])
    /\ IF job[j].inPlace /\ Dir(j).file[job[j].file] = "none"
       THEN UNCHANGED disk
       ELSE SetDir(job[j].model, [Dir(j) EXCEPT !.dir = TRUE, !.file[job[j].file] = "whole",
                                               !.old = @ /\ job[j].inPlace])
    /\ UNCHANGED faults /\ JobFrame

(* Mutant: a file that failed is passed over.                              *)
FetchFailsGoesOn(j) ==
    /\ job[j].pc = "fetch"
    /\ SetJob(j, [job[j] EXCEPT !.got = @ \cup {job[j].file}, !.inPlace = FALSE, !.file = AnyFile,
                                !.pc = IF Files \subseteq job[j].got \cup {job[j].file}
                                       THEN "checksums" ELSE "files"])
    /\ IF job[j].cancelled \/ ~Dir(j).dir THEN UNCHANGED faults ELSE Fault
    /\ UNCHANGED disk /\ JobFrame

(* An error, the cancelled context, or a directory that is gone.           *)
FetchFails(j) ==
    /\ job[j].pc = "fetch"
    /\ SetError(j)
    /\ IF job[j].cancelled \/ ~Dir(j).dir THEN UNCHANGED faults ELSE Fault
    /\ UNCHANGED disk /\ JobFrame

AllWhole(m) == \A f \in Files : disk[m].file[f] = "whole"

(* The checksums hold; or there are none, or they could not be fetched.    *)
ChecksumsPass(j) ==
    /\ job[j].pc = "checksums"
    /\ SetJob(j, [job[j] EXCEPT !.pc = "manifest"])
    /\ UNCHANGED <<disk, faults>> /\ JobFrame

(* A file is not what it should be, or cannot be read.                     *)
ChecksumsFail(j) ==
    /\ job[j].pc = "checksums"
    /\ SetError(j)
    /\ IF AllWhole(job[j].model) THEN Fault ELSE UNCHANGED faults
    /\ UNCHANGED disk /\ JobFrame

(* WriteManifest and SetComplete.                                          *)
Complete(j) ==
    /\ job[j].pc = "manifest"
    /\ EndJob(j, "Complete")
    /\ SetDir(job[j].model, [Dir(j) EXCEPT !.dir = TRUE, !.manifest = TRUE, !.old = FALSE])
    /\ UNCHANGED faults /\ JobFrame

ManifestFails(j) ==
    /\ job[j].pc = "manifest"
    /\ SetError(j) /\ Fault
    /\ UNCHANGED disk /\ JobFrame

JobStep(j) ==
    \/ AcquireSlot(j) \/ Prepare(j) \/ (\E f \in Files : StartFile(j, f))
    \/ FetchInPlace(j) \/ FetchDone(j) \/ ChecksumsPass(j) \/ Complete(j)
JobFault(j) == PrepareFails(j) \/ FetchFails(j) \/ ChecksumsFail(j) \/ ManifestFails(j)

----------------------------------------------------------------------------
(* Reconcile: the retry annotation, needsDownload and handleDownload.      *)

Return == rpc' = "idle" /\ rphase' = "None" /\ rmodel' = AnyModel
Goto(l) == rpc' = l /\ UNCHANGED <<rmodel, rphase>>

SetPhase(m, phase) == crs' = [crs EXCEPT ![m].phase = phase]

needsDownload(m) == crs[m].phase = "Complete" => ~disk[m].marker

Reconcile(m) ==
    /\ rpc = "idle" /\ crs[m].live
    /\ \/ crs[m].retry /\ crs[m].phase \in {"Failed", "Complete"} /\ rpc' = "retryCancel"
       \/ /\ ~(crs[m].retry /\ crs[m].phase \in {"Failed", "Complete"})
          /\ needsDownload(m) /\ rpc' = "verify"
    /\ rmodel' = m
    /\ UNCHANGED <<crs, disk, tracked, job, rphase, active, faults, events>>

(* Mutant: the status of the cancelled job is forgotten at once.           *)
RetryCancelForgets ==
    /\ rpc = "retryCancel"
    /\ job' = [j \in Jobs |-> IF tracked[rmodel] = j
                              THEN [job[j] EXCEPT !.cancelled = TRUE] ELSE job[j]]
    /\ tracked' = [tracked EXCEPT ![rmodel] = NoJob]
    /\ Goto("retryUnmark")
    /\ UNCHANGED <<crs, disk, active, faults, events>>

RetryCancel ==
    /\ rpc = "retryCancel"
    /\ job' = [j \in Jobs |-> IF tracked[rmodel] = j
                              THEN [job[j] EXCEPT !.cancelled = TRUE] ELSE job[j]]
    /\ Goto("retryUnmark")
    /\ UNCHANGED <<crs, disk, tracked, active, faults, events>>

RetryUnmark ==
    /\ rpc = "retryUnmark"
    /\ SetDir(rmodel, [disk[rmodel] EXCEPT !.marker = FALSE, !.old = @ /\ ~disk[rmodel].marker])
    /\ Goto("retryUpdate")
    /\ UNCHANGED <<crs, tracked, job, active, faults, events>>

RetryUpdate ==
    /\ rpc = "retryUpdate"
    /\ crs' = [crs EXCEPT ![rmodel].retry = FALSE]
    /\ Goto("retryStatus")
    /\ UNCHANGED <<disk, tracked, job, active, faults, events>>

(* Mutant: a phase the API does not have.                                  *)
RetryStatusUnknown ==
    /\ rpc = "retryStatus"
    /\ SetPhase(rmodel, "Retrying") /\ Return
    /\ UNCHANGED <<disk, tracked, job, active, faults, events>>

RetryStatus ==
    /\ rpc = "retryStatus"
    /\ SetPhase(rmodel, "Pending") /\ Return
    /\ UNCHANGED <<disk, tracked, job, active, faults, events>>

(* CheckAndVerifyReadyMarkerDetailed: the marker, then every file of the   *)
(* manifest; what does not verify is removed, the marker first.            *)
VerifyFiles(m) == disk[m].manifest /\ AllWhole(m)

Verify ==
    /\ rpc = "verify"
    /\ IF disk[rmodel].marker /\ VerifyFiles(rmodel)
       THEN Goto("verified") /\ UNCHANGED disk
       ELSE /\ Goto("track")
            /\ IF disk[rmodel].marker THEN SetDir(rmodel, NoDir) ELSE UNCHANGED disk
    /\ UNCHANGED <<crs, tracked, job, active, faults, events>>

Verified ==
    /\ rpc = "verified"
    /\ SetPhase(rmodel, "Complete") /\ Return
    /\ UNCHANGED <<disk, tracked, job, active, faults, events>>

(* Manager.Download, if nothing is tracked for the name.                   *)
StartDownload ==
    /\ rpc = "track" /\ tracked[rmodel] = NoJob
    /\ \E i \in Jobs : job[i].pc = "none"
    /\ LET j == CHOOSE i \in Jobs : job[i].pc = "none"
       IN /\ SetJob(j, [Idle EXCEPT !.pc = "waiting", !.model = rmodel])
          /\ tracked' = [tracked EXCEPT ![rmodel] = j]
    /\ Goto("track")
    /\ UNCHANGED <<crs, disk, active, faults, events>>

(* GetStatus and GetPhase: the phase that is acted upon below.             *)
FollowDownload ==
    /\ rpc = "track" /\ tracked[rmodel] # NoJob
    /\ rphase' = job[tracked[rmodel]].phase
    /\ rpc' = "report" /\ UNCHANGED rmodel
    /\ UNCHANGED <<crs, disk, tracked, job, active, faults, events>>

(* Mutant: the status of a failed download is kept.                        *)
ReportKeepsFailed ==
    /\ rpc = "report"
    /\ SetPhase(rmodel, rphase)
    /\ IF rphase = "Complete" THEN Goto("mark") ELSE Return
    /\ UNCHANGED <<disk, tracked, job, active, faults, events>>

Report ==
    /\ rpc = "report"
    /\ SetPhase(rmodel, rphase)
    /\ CASE rphase = "Complete" -> Goto("mark")
         [] rphase = "Failed" -> Goto("forget")
         [] OTHER -> Return
    /\ UNCHANGED <<disk, tracked, job, active, faults, events>>

(* WriteReadyMarker makes the directory when there is none.                *)
Mark ==
    /\ rpc = "mark"
    /\ SetDir(rmodel, [disk[rmodel] EXCEPT !.dir = TRUE, !.marker = TRUE, !.old = FALSE])
    /\ Goto("forget")
    /\ UNCHANGED <<crs, tracked, job, active, faults, events>>

(* RemoveStatus.  The identity of a job that has ended can be used again.  *)
Forget ==
    /\ rpc = "forget"
    /\ tracked' = [tracked EXCEPT ![rmodel] = NoJob]
    /\ job' = [j \in Jobs |-> IF tracked[rmodel] = j /\ job[j].pc = "done" THEN Idle ELSE job[j]]
    /\ Return
    /\ UNCHANGED <<crs, disk, active, faults, events>>

(* An update of the object, or the marker, cannot be written.              *)
ReconcileFails ==
    /\ rpc \in {"retryUpdate", "retryStatus", "verified", "report", "mark"}
    /\ Return /\ Fault
    /\ UNCHANGED <<crs, disk, tracked, job, active, events>>

ReconcileStep ==
    \/ RetryCancel \/ RetryUnmark \/ RetryUpdate \/ RetryStatus
    \/ Verify \/ Verified \/ StartDownload \/ FollowDownload \/ Report \/ Mark \/ Forget

----------------------------------------------------------------------------
(* The cleaner: the directories of models it did not list, and whose time  *)
(* to live is over, are removed.                                           *)

ListModels ==
    /\ ~active.listed
    /\ active' = [listed |-> TRUE, models |-> {m \in Watched : crs[m].live}]
    /\ UNCHANGED <<crs, disk, tracked, job, worker, faults, events>>

RemoveUnused(m) ==
    /\ active.listed /\ m \notin active.models /\ disk[m].dir /\ disk[m].old
    /\ SetDir(m, NoDir)
    /\ UNCHANGED <<crs, tracked, job, worker, active, faults, events>>

CleanupEnds ==
    /\ active.listed /\ active' = NotListed
    /\ UNCHANGED <<crs, disk, tracked, job, worker, faults, events>>

(* Nothing was made, renamed or removed in the directory for the time to   *)
(* live: nobody calls TouchModel.  That is long for a job or a pass of the *)
(* cleaner, and a download that is due is reconciled long before.          *)
DirAges(m) ==
    /\ disk[m].dir /\ ~disk[m].old
    /\ crs[m].live => ~needsDownload(m)
    /\ rpc = "idle" /\ ~active.listed /\ \A j \in Jobs : ~Working(j)
    /\ SetDir(m, [disk[m] EXCEPT !.old = TRUE])
    /\ UNCHANGED <<crs, tracked, job, worker, active, faults, events>>

Cleanup ==
    \/ ListModels \/ CleanupEnds
    \/ \E m \in Models : RemoveUnused(m) \/ DirAges(m)

----------------------------------------------------------------------------
(* The user, and the process.                                              *)

UserCreates(m) ==
    /\ ~crs[m].live
    /\ UserWaits => ~active.listed
    /\ crs' = [crs EXCEPT ![m] = NewModel]
    /\ Event
    /\ UNCHANGED <<disk, tracked, job, worker, active, faults>>

UserRetries(m) ==
    /\ crs[m].live /\ ~crs[m].retry
    /\ crs' = [crs EXCEPT ![m].retry = TRUE]
    /\ Event
    /\ UNCHANGED <<disk, tracked, job, worker, active, faults>>

(* The user deletes the object and handleDeletion, on the same worker,     *)
(* takes the finalizer away: nothing is done about the download.           *)
DeleteModel(m) ==
    /\ crs[m].live /\ rpc = "idle"
    /\ UserWaits => tracked[m] = NoJob
    /\ crs' = [crs EXCEPT ![m] = NoModel]
    /\ Event
    /\ UNCHANGED <<disk, tracked, job, worker, active, faults>>

Restart ==
    /\ Event
    /\ tracked' = [m \in Models |-> NoJob]
    /\ job' = [j \in Jobs |-> Idle]
    /\ Return /\ active' = NotListed
    /\ UNCHANGED <<crs, disk, faults>>

User == \E m \in Models : UserCreates(m) \/ UserRetries(m) \/ DeleteModel(m)

DownloadNext ==
    \/ \E j \in Jobs : JobStep(j) \/ JobFault(j)
    \/ \E m \in Models : Reconcile(m)
    \/ ReconcileStep \/ ReconcileFails
    \/ Cleanup \/ User \/ Restart

DownloadSpec == DownloadInit /\ [][DownloadNext]_downloadVars

(* Goroutines run, and the workqueue hands out every model again and again *)
(* (every result of the branch asks for a requeue, every error is retried).*)
DownloadFairness ==
    /\ \A j \in Jobs : WF_downloadVars(JobStep(j) \/ JobFault(j))
    /\ WF_downloadVars(ReconcileStep)
    /\ \A m \in Models : SF_downloadVars(Reconcile(m))

FairDownloadSpec == DownloadSpec /\ DownloadFairness

----------------------------------------------------------------------------
ModelState == [live : BOOLEAN, phase : Phase, retry : BOOLEAN]
DirState == [dir : BOOLEAN, old : BOOLEAN, file : [Files -> {"none", "part", "whole"}],
             manifest : BOOLEAN, marker : BOOLEAN]
JobState == [pc : {"none", "waiting", "prepare", "files", "fetch", "checksums", "manifest", "done"},
             model : Models, phase : Phase, got : SUBSET Files, file : Files,
             inPlace : BOOLEAN, cancelled : BOOLEAN]
Steps == {"idle", "retryCancel", "retryUnmark", "retryUpdate", "retryStatus", "verify",
          "verified", "track", "report", "mark", "forget"}

(* Every variable keeps its type.                                          *)
DownloadTypeOK ==
    /\ crs \in [Models -> ModelState]
    /\ disk \in [Models -> DirState]
    /\ tracked \in [Models -> Jobs \cup {NoJob}]
    /\ job \in [Jobs -> JobState]
    /\ rpc \in Steps /\ rmodel \in Models /\ rphase \in Phase
    /\ active \in [listed : BOOLEAN, models : SUBSET Models]
    /\ faults \in 0..MaxFaults /\ events \in 0..MaxEvents

(* No two jobs write into one directory ("prevents duplicate downloads"):  *)
(* a status is only forgotten once its goroutine has nothing left to do.   *)
OneWriter ==
    \A i, j \in Jobs :
        i # j /\ job[i].pc \notin {"none", "done"} /\ job[j].pc \notin {"none", "done"}
            => job[i].model # job[j].model

(* The .ready marker is "indicating a complete download": the files and    *)
(* their manifest are there.  needsDownload looks at nothing else once a   *)
(* model is Complete.                                                      *)
MarkerMeansComplete == \A m \in Models : disk[m].marker => VerifyFiles(m)

(* Once failures, retries and restarts end, every model is downloaded and  *)
(* marked, whatever they left half done.                                   *)
DownloadsSettle ==
    \A m \in Models :
        <>[](crs[m].live => crs[m].phase = "Complete" /\ disk[m].marker /\ VerifyFiles(m))
============================================================================
