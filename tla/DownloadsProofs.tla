-------------------------- MODULE DownloadsProofs --------------------------
(***************************************************************************)
(* Proofs about Downloads, for every number of models, files, jobs and     *)
(* slots, whatever the user does and with the cleaner running.             *)
(***************************************************************************)
EXTENDS Downloads, TLAPS

USE DownloadConstants DEF Phase

LEMMA DefaultTypes ==
    /\ AnyModel \in Models /\ AnyFile \in Files
    /\ Idle \in JobState
    /\ NoDir \in DirState
    /\ NoModel \in ModelState /\ NewModel \in ModelState
    /\ NotListed \in [listed : BOOLEAN, models : SUBSET Models]
<1>1. AnyModel \in Models BY DEF AnyModel
<1>2. AnyFile \in Files BY DEF AnyFile
<1>3. Idle \in JobState BY <1>1, <1>2 DEF Idle, JobState
<1>4. NoDir \in DirState BY DEF NoDir, DirState
<1>5. NoModel \in ModelState /\ NewModel \in ModelState BY DEF NoModel, NewModel, ModelState
<1>6. NotListed \in [listed : BOOLEAN, models : SUBSET Models] BY DEF NotListed
<1> QED BY <1>1, <1>2, <1>3, <1>4, <1>5, <1>6

LEMMA InitType == DownloadInit => DownloadTypeOK
BY DefaultTypes DEF DownloadInit, DownloadTypeOK, Steps

LEMMA SetJobType ==
    ASSUME DownloadTypeOK, NEW j \in Jobs, NEW new \in JobState, SetJob(j, new)
    PROVE  job' \in [Jobs -> JobState]
BY DEF SetJob, DownloadTypeOK

LEMMA EndJobType ==
    ASSUME DownloadTypeOK, NEW j \in Jobs, NEW ph \in Phase, EndJob(j, ph)
    PROVE  job' \in [Jobs -> JobState]
BY DefaultTypes DEF EndJob, SetJob, DownloadTypeOK, JobState

LEMMA SetDirType ==
    ASSUME DownloadTypeOK, NEW m \in Models, NEW d \in DirState, SetDir(m, d)
    PROVE  disk' \in [Models -> DirState]
BY DEF SetDir, DownloadTypeOK

LEMMA BoundTypes ==
    ASSUME DownloadTypeOK
    PROVE  /\ Fault => faults' \in 0..MaxFaults
           /\ Event => events' \in 0..MaxEvents
BY DEF DownloadTypeOK, Fault, Event

LEMMA JobTypeStep ==
    ASSUME DownloadTypeOK, NEW j \in Jobs, JobStep(j) \/ JobFault(j)
    PROVE  DownloadTypeOK'
<1> DEFINE d == Dir(j)
           w == job[j]
<1> USE DEF JobFrame, worker, SetError
<1>1. w \in JobState /\ w.model \in Models /\ d \in DirState /\ w.file \in Files
    BY DEF DownloadTypeOK, JobState, Dir
<1>2. job' \in [Jobs -> JobState] /\ disk' \in [Models -> DirState] /\ faults' \in 0..MaxFaults
           => DownloadTypeOK'
    BY DEF JobStep, JobFault, AcquireSlot, Prepare, StartFile, FetchInPlace, FetchDone,
           ChecksumsPass, Complete, PrepareFails, FetchFails, ChecksumsFail, ManifestFails,
           DownloadTypeOK
<1>3. CASE AcquireSlot(j)
  <2>1. [w EXCEPT !.pc = "prepare", !.phase = "Downloading"] \in JobState BY <1>1 DEF JobState
  <2> QED BY <1>2, <1>3, <2>1, SetJobType, EndJobType DEF AcquireSlot, DownloadTypeOK
<1>4. CASE Prepare(j)
  <2>1. [w EXCEPT !.pc = "files"] \in JobState /\ [d EXCEPT !.dir = TRUE] \in DirState
      BY <1>1 DEF JobState, DirState
  <2> QED BY <1>1, <1>2, <1>4, <2>1, SetJobType, SetDirType DEF Prepare, DownloadTypeOK
<1>5. ASSUME NEW f \in Files, StartFile(j, f) PROVE DownloadTypeOK'
  <2>1. [w EXCEPT !.pc = "fetch", !.file = f] \in JobState /\ [d EXCEPT !.dir = TRUE] \in DirState
      BY <1>1 DEF JobState, DirState
  <2> QED BY <1>1, <1>2, <1>5, <2>1, SetJobType, SetDirType, EndJobType DEF StartFile, DownloadTypeOK
<1>6. CASE FetchInPlace(j)
  <2> DEFINE o == d.old /\ d.file[w.file] # "none"
  <2>1. [w EXCEPT !.inPlace = TRUE] \in JobState BY <1>1 DEF JobState
  <2>2. [d EXCEPT !.dir = TRUE, !.file[w.file] = "part", !.old = @ /\ d.file[w.file] # "none"]
            \in DirState
      BY <1>1 DEF DirState
  <2> QED BY <1>1, <1>2, <1>6, <2>1, <2>2, SetJobType, SetDirType DEF FetchInPlace, DownloadTypeOK
<1>7. CASE FetchDone(j)
  <2>1. [w EXCEPT !.got = @ \cup {w.file}, !.inPlace = FALSE, !.file = AnyFile,
                  !.pc = IF Files \subseteq w.got \cup {w.file} THEN "checksums" ELSE "files"]
            \in JobState
      BY <1>1, DefaultTypes DEF JobState
  <2>2. [d EXCEPT !.dir = TRUE, !.file[w.file] = "whole", !.old = @ /\ w.inPlace] \in DirState
      BY <1>1 DEF DirState, JobState
  <2> QED BY <1>1, <1>2, <1>7, <2>1, <2>2, SetJobType, SetDirType DEF FetchDone, DownloadTypeOK
<1>8. CASE ChecksumsPass(j)
  <2>1. [w EXCEPT !.pc = "manifest"] \in JobState BY <1>1 DEF JobState
  <2> QED BY <1>2, <1>8, <2>1, SetJobType DEF ChecksumsPass, DownloadTypeOK
<1>9. CASE Complete(j)
  <2>1. [d EXCEPT !.dir = TRUE, !.manifest = TRUE, !.old = FALSE] \in DirState
      BY <1>1 DEF DirState
  <2> QED BY <1>1, <1>2, <1>9, <2>1, EndJobType, SetDirType DEF Complete, DownloadTypeOK
<1>10. CASE JobFault(j)
    BY <1>2, <1>10, EndJobType, BoundTypes
    DEF JobFault, PrepareFails, FetchFails, ChecksumsFail, ManifestFails, DownloadTypeOK
<1> QED BY <1>3, <1>4, <1>5, <1>6, <1>7, <1>8, <1>9, <1>10 DEF JobStep

LEMMA ReconcileTypeStep ==
    ASSUME DownloadTypeOK, ReconcileStep \/ ReconcileFails \/ \E m \in Models : Reconcile(m)
    PROVE  DownloadTypeOK'
<1> USE DefaultTypes DEF Return, Goto, Steps
<1>1. CASE \E m \in Models : Reconcile(m) BY <1>1 DEF Reconcile, DownloadTypeOK
<1>2. CASE RetryCancel
  <2>1. \A j \in Jobs : [job[j] EXCEPT !.cancelled = TRUE] \in JobState
      BY DEF DownloadTypeOK, JobState
  <2> QED BY <1>2, <2>1 DEF RetryCancel, DownloadTypeOK
<1>3. CASE RetryUnmark
  <2>1. [disk[rmodel] EXCEPT !.marker = FALSE, !.old = @ /\ ~disk[rmodel].marker] \in DirState
      BY DEF DownloadTypeOK, DirState
  <2> QED BY <1>3, <2>1, SetDirType DEF RetryUnmark, DownloadTypeOK
<1>4. CASE RetryUpdate BY <1>4 DEF RetryUpdate, DownloadTypeOK, ModelState
<1>5. CASE RetryStatus BY <1>5 DEF RetryStatus, SetPhase, DownloadTypeOK, ModelState
<1>6. CASE Verify BY <1>6 DEF Verify, SetDir, DownloadTypeOK
<1>7. CASE Verified BY <1>7 DEF Verified, SetPhase, DownloadTypeOK, ModelState
<1>8. CASE StartDownload
  <2>1. PICK i \in Jobs : job[i].pc = "none" BY <1>8 DEF StartDownload
  <2> DEFINE k == CHOOSE x \in Jobs : job[x].pc = "none"
  <2>2. k \in Jobs BY <2>1
  <2>3. [Idle EXCEPT !.pc = "waiting", !.model = rmodel] \in JobState
      BY DEF DownloadTypeOK, JobState
  <2> QED BY <1>8, <2>2, <2>3, SetJobType DEF StartDownload, DownloadTypeOK
<1>9. CASE FollowDownload BY <1>9 DEF FollowDownload, DownloadTypeOK, JobState
<1>10. CASE Report BY <1>10 DEF Report, SetPhase, DownloadTypeOK, ModelState
<1>11. CASE Mark
  <2>1. [disk[rmodel] EXCEPT !.dir = TRUE, !.marker = TRUE, !.old = FALSE] \in DirState
      BY DEF DownloadTypeOK, DirState
  <2> QED BY <1>11, <2>1, SetDirType DEF Mark, DownloadTypeOK
<1>12. CASE Forget BY <1>12 DEF Forget, DownloadTypeOK
<1>13. CASE ReconcileFails BY <1>13, BoundTypes DEF ReconcileFails, DownloadTypeOK
<1> QED BY <1>1, <1>2, <1>3, <1>4, <1>5, <1>6, <1>7, <1>8, <1>9, <1>10, <1>11, <1>12, <1>13
        DEF ReconcileStep

LEMMA OtherTypeStep ==
    ASSUME DownloadTypeOK, Cleanup \/ User \/ Restart
    PROVE  DownloadTypeOK'
<1> USE DefaultTypes DEF worker
<1>1. CASE ListModels BY <1>1 DEF ListModels, DownloadTypeOK
<1>2. CASE CleanupEnds BY <1>2 DEF CleanupEnds, DownloadTypeOK
<1>3. ASSUME NEW m \in Models, RemoveUnused(m) PROVE DownloadTypeOK'
    BY <1>3 DEF RemoveUnused, SetDir, DownloadTypeOK
<1>4. ASSUME NEW m \in Models, DirAges(m) PROVE DownloadTypeOK'
    BY <1>4 DEF DirAges, SetDir, DownloadTypeOK, DirState
<1>5. ASSUME NEW m \in Models, UserCreates(m) \/ DeleteModel(m) PROVE DownloadTypeOK'
    BY <1>5, BoundTypes DEF UserCreates, DeleteModel, DownloadTypeOK
<1>6. ASSUME NEW m \in Models, UserRetries(m) PROVE DownloadTypeOK'
    BY <1>6, BoundTypes DEF UserRetries, DownloadTypeOK, ModelState
<1>7. CASE Restart BY <1>7, BoundTypes DEF Restart, Return, Steps, DownloadTypeOK
<1> QED BY <1>1, <1>2, <1>3, <1>4, <1>5, <1>6, <1>7 DEF Cleanup, User

LEMMA TypeStep == DownloadTypeOK /\ [DownloadNext]_downloadVars => DownloadTypeOK'
<1> SUFFICES ASSUME DownloadTypeOK, [DownloadNext]_downloadVars PROVE DownloadTypeOK' OBVIOUS
<1>1. CASE UNCHANGED downloadVars BY <1>1 DEF downloadVars, DownloadTypeOK
<1> QED BY <1>1, JobTypeStep, ReconcileTypeStep, OtherTypeStep DEF DownloadNext

(* Every variable of the download model keeps its type, for every number   *)
(* of models, files and jobs, with the cleaner and any user.               *)
THEOREM DownloadsTyped == DownloadSpec => []DownloadTypeOK
BY InitType, TypeStep, PTL DEF DownloadSpec

----------------------------------------------------------------------------
(* One writer per directory.  A job that has not ended is the one tracked  *)
(* for its model; a status is forgotten only after it was seen to have     *)
(* ended, and it does not change any more after that.                      *)

Ended(j) == job[j].pc \in {"none", "done"}

LiveIsTracked == \A j \in Jobs : ~Ended(j) => tracked[job[j].model] = j

TrackedIsJob ==
    \A m \in Models : tracked[m] # NoJob =>
        job[tracked[m]].pc # "none" /\ job[tracked[m]].model = m

LastPhase == \A j \in Jobs : job[j].phase \in {"Complete", "Failed"} => job[j].pc = "done"

SeenEnded ==
    rpc \in {"mark", "forget"} \/ (rpc = "report" /\ rphase \in {"Complete", "Failed"}) =>
        tracked[rmodel] # NoJob /\ job[tracked[rmodel]].pc = "done"

Tracking == LiveIsTracked /\ TrackedIsJob /\ LastPhase /\ SeenEnded

LEMMA InitTracking == DownloadInit => Tracking
BY DEF DownloadInit, Tracking, LiveIsTracked, TrackedIsJob, LastPhase, SeenEnded, Ended, Idle

LEMMA EndJobMoves ==
    ASSUME DownloadTypeOK, NEW j \in Jobs, NEW ph \in Phase, EndJob(j, ph)
    PROVE  /\ job'[j].model = job[j].model /\ job'[j].pc = "done" /\ job'[j].phase = ph
           /\ \A i \in Jobs \ {j} : job'[i] = job[i]
BY DefaultTypes DEF EndJob, SetJob, DownloadTypeOK, JobState

(* A step of a job keeps its model, ends it or goes on, and ends it        *)
(* whenever it sets a last phase.                                          *)
LEMMA JobMoves ==
    ASSUME DownloadTypeOK, NEW j \in Jobs, JobStep(j) \/ JobFault(j)
    PROVE  /\ ~Ended(j)
           /\ job'[j].model = job[j].model /\ job'[j].pc # "none"
           /\ job'[j].phase \in {"Complete", "Failed"} => job'[j].pc = "done" \/ job'[j].phase = job[j].phase
           /\ \A i \in Jobs \ {j} : job'[i] = job[i]
           /\ UNCHANGED <<tracked, worker>>
<1> USE EndJobMoves DEF DownloadTypeOK, SetError, SetJob, JobState, Ended, JobFrame
<1>1. CASE AcquireSlot(j)
  <2>1. CASE EndJob(j, "Failed") BY <1>1, <2>1 DEF AcquireSlot
  <2>2. CASE SetJob(j, [job[j] EXCEPT !.pc = "prepare", !.phase = "Downloading"])
      BY <1>1, <2>2 DEF AcquireSlot
  <2> QED BY <1>1, <2>1, <2>2 DEF AcquireSlot
<1>2. CASE Prepare(j) BY <1>2 DEF Prepare
<1>3. CASE \E f \in Files : StartFile(j, f)
  <2>1. PICK f \in Files : StartFile(j, f) BY <1>3
  <2>2. CASE EndJob(j, "Failed") BY <2>1, <2>2 DEF StartFile
  <2>3. CASE SetJob(j, [job[j] EXCEPT !.pc = "fetch", !.file = f]) BY <2>1, <2>3 DEF StartFile
  <2> QED BY <2>1, <2>2, <2>3 DEF StartFile
<1>4. CASE FetchInPlace(j) BY <1>4 DEF FetchInPlace
<1>5. CASE FetchDone(j) BY <1>5, ZenonT(30) DEF FetchDone
<1>6. CASE ChecksumsPass(j) BY <1>6 DEF ChecksumsPass
<1>7. CASE Complete(j) BY <1>7 DEF Complete
<1>8. CASE JobFault(j) BY <1>8 DEF JobFault, PrepareFails, FetchFails, ChecksumsFail, ManifestFails
<1> QED BY <1>1, <1>2, <1>3, <1>4, <1>5, <1>6, <1>7, <1>8 DEF JobStep

LEMMA TrackingStep ==
    DownloadTypeOK /\ Tracking /\ [DownloadNext]_downloadVars => Tracking'
<1> SUFFICES ASSUME DownloadTypeOK, Tracking, [DownloadNext]_downloadVars PROVE Tracking' OBVIOUS
<1> USE DEF Tracking, LiveIsTracked, TrackedIsJob, LastPhase, SeenEnded, Ended
<1>1. CASE UNCHANGED <<tracked, job, rpc, rmodel, rphase>> BY <1>1
<1>2. ASSUME NEW j \in Jobs, JobStep(j) \/ JobFault(j) PROVE Tracking'
    BY <1>2, JobMoves DEF DownloadTypeOK, worker
<1>3. CASE \E m \in Models : Reconcile(m) BY <1>3 DEF Reconcile
<1>4. CASE RetryCancel
  <2>1. \A j \in Jobs : /\ job'[j].pc = job[j].pc /\ job'[j].model = job[j].model
                        /\ job'[j].phase = job[j].phase
      BY <1>4 DEF RetryCancel, DownloadTypeOK, JobState
  <2> QED BY <1>4, <2>1 DEF RetryCancel, Goto, DownloadTypeOK
<1>5. CASE RetryUnmark \/ RetryUpdate \/ RetryStatus \/ Verify \/ Verified \/ ReconcileFails
    BY <1>5 DEF RetryUnmark, RetryUpdate, RetryStatus, Verify, Verified, ReconcileFails, Goto, Return
<1>6. CASE StartDownload
  <2> DEFINE k == CHOOSE x \in Jobs : job[x].pc = "none"
  <2>1. k \in Jobs /\ job[k].pc = "none" BY <1>6 DEF StartDownload
  <2>2. /\ job' = [job EXCEPT ![k] = [Idle EXCEPT !.pc = "waiting", !.model = rmodel]]
        /\ tracked' = [tracked EXCEPT ![rmodel] = k]
        /\ tracked[rmodel] = NoJob /\ rpc' = "track"
      BY <1>6 DEF StartDownload, SetJob, Goto
  <2>3. /\ job'[k].pc = "waiting" /\ job'[k].model = rmodel /\ job'[k].phase = "Pending"
        /\ \A i \in Jobs \ {k} : job'[i] = job[i]
        /\ tracked'[rmodel] = k /\ \A m \in Models \ {rmodel} : tracked'[m] = tracked[m]
      BY <2>1, <2>2 DEF DownloadTypeOK, Idle
  <2>4. \A m \in Models : tracked[m] # k BY <2>1
  <2>5. \A i \in Jobs \ {k} : ~Ended(i) => job[i].model # rmodel
      BY <2>2 DEF DownloadTypeOK
  <2> HIDE DEF k
  <2> QED BY <2>1, <2>2, <2>3, <2>4, <2>5 DEF DownloadTypeOK, JobState
<1>7. CASE FollowDownload BY <1>7 DEF FollowDownload, DownloadTypeOK
<1>8. CASE Report BY <1>8 DEF Report, Goto, Return, DownloadTypeOK
<1>9. CASE Mark BY <1>9 DEF Mark, Goto
<1>10. CASE Forget
  <2>1. PICK k \in Jobs : k = tracked[rmodel] /\ job[k].pc = "done"
      BY <1>10 DEF Forget, DownloadTypeOK
  <2>2. /\ job'[k] = Idle /\ \A i \in Jobs \ {k} : job'[i] = job[i]
        /\ tracked'[rmodel] = NoJob /\ \A m \in Models \ {rmodel} : tracked'[m] = tracked[m]
        /\ rpc' = "idle"
      BY <1>10, <2>1 DEF Forget, Return, DownloadTypeOK
  <2>3. \A m \in Models \ {rmodel} : tracked[m] # k BY <2>1 DEF DownloadTypeOK
  <2>4. \A i \in Jobs \ {k} : ~Ended(i) => job[i].model # rmodel BY <2>1
  <2> QED BY <2>1, <2>2, <2>3, <2>4 DEF DownloadTypeOK, JobState, Idle
<1>11. CASE Cleanup \/ User
    BY <1>1, <1>11 DEF Cleanup, User, ListModels, CleanupEnds, RemoveUnused, DirAges, UserCreates,
                      UserRetries, DeleteModel, worker
<1>12. CASE Restart BY <1>12 DEF Restart, Return, Idle
<1> QED BY <1>1, <1>2, <1>3, <1>4, <1>5, <1>6, <1>7, <1>8, <1>9, <1>10, <1>11, <1>12
        DEF DownloadNext, ReconcileStep, downloadVars

LEMMA TrackingMeansOneWriter == DownloadTypeOK /\ Tracking => OneWriter
BY DEF Tracking, LiveIsTracked, Ended, OneWriter, DownloadTypeOK, JobState

LEMMA DownloadsTracked == DownloadSpec => [](DownloadTypeOK /\ Tracking)
BY InitType, InitTracking, TypeStep, TrackingStep, PTL DEF DownloadSpec

(* No two goroutines download into the directory of one model: not after   *)
(* a failure, not when a retry cancels a job that still runs, not when a   *)
(* model is deleted and created again in the middle of its download.       *)
THEOREM DownloadsOneWriter == DownloadSpec => []OneWriter
BY DownloadsTracked, TrackingMeansOneWriter, PTL

----------------------------------------------------------------------------
(* The marker.  When users wait, a directory that the cleaner removes has  *)
(* no job and no status; the marker is written only while the tracked job  *)
(* is Complete, and a Complete job has left every file whole.              *)

MarkedHasNoJob ==
    /\ \A j \in Jobs : ~Ended(j) => ~disk[job[j].model].marker
    /\ rpc = "track" => ~disk[rmodel].marker

GotIsWhole ==
    \A j \in Jobs :
        /\ Ended(j) => job[j].got = {}
        /\ \A f \in job[j].got : disk[job[j].model].file[f] = "whole"
        /\ job[j].pc \in {"checksums", "manifest"} => job[j].got = Files
        /\ job[j].pc = "fetch" => job[j].file \notin job[j].got
        /\ job[j].inPlace => job[j].pc = "fetch" /\ disk[job[j].model].file[job[j].file] # "none"

CompleteIsWhole ==
    \A m \in Models : tracked[m] # NoJob /\ job[tracked[m]].phase = "Complete" => VerifyFiles(m)

MarksComplete ==
    rpc = "mark" \/ (rpc = "report" /\ rphase = "Complete") =>
        tracked[rmodel] # NoJob /\ job[tracked[rmodel]].phase = "Complete"

TrackedIsLive ==
    /\ rpc # "idle" => crs[rmodel].live
    /\ \A m \in Models : tracked[m] # NoJob => crs[m].live
    /\ active.listed => \A m \in Models : crs[m].live => m \in active.models

Marking ==
    /\ MarkerMeansComplete /\ MarkedHasNoJob /\ GotIsWhole
    /\ CompleteIsWhole /\ MarksComplete /\ TrackedIsLive

LEMMA InitMarking == DownloadInit => Marking
<1> SUFFICES ASSUME DownloadInit PROVE Marking OBVIOUS
<1>1. MarkerMeansComplete BY DEF DownloadInit, MarkerMeansComplete, NoDir
<1>2. MarkedHasNoJob BY DEF DownloadInit, MarkedHasNoJob, Ended, Idle, NoDir
<1>3. GotIsWhole BY DEF DownloadInit, GotIsWhole, Ended, Idle
<1>4. CompleteIsWhole /\ MarksComplete BY DEF DownloadInit, CompleteIsWhole, MarksComplete
<1>5. TrackedIsLive BY DEF DownloadInit, TrackedIsLive, NotListed
<1> QED BY <1>1, <1>2, <1>3, <1>4, <1>5 DEF Marking

LEMMA EndJobFields ==
    ASSUME DownloadTypeOK, NEW j \in Jobs, NEW ph \in Phase, EndJob(j, ph)
    PROVE  job'[j].got = {} /\ ~job'[j].inPlace
BY DefaultTypes DEF EndJob, SetJob, DownloadTypeOK, JobState, Idle

(* A job that fails, wherever it is, leaves the directory as it is.        *)
LEMMA MarkingFailed ==
    ASSUME DownloadTypeOK, Tracking, Marking, NEW j \in Jobs, ~Ended(j),
           EndJob(j, "Failed"), UNCHANGED <<disk, crs, tracked, rpc, rmodel, rphase, active>>
    PROVE  Marking'
<1>1. /\ job'[j].model = job[j].model /\ job'[j].pc = "done" /\ job'[j].phase = "Failed"
      /\ job'[j].got = {} /\ ~job'[j].inPlace
      /\ \A i \in Jobs \ {j} : job'[i] = job[i]
    BY EndJobMoves, EndJobFields
<1>2. job[j].phase # "Complete" BY DEF Tracking, LastPhase, Ended
<1>3. MarkerMeansComplete' BY DEF Marking, MarkerMeansComplete, VerifyFiles, AllWhole
<1>4. MarkedHasNoJob' BY <1>1 DEF Marking, MarkedHasNoJob, Ended, DownloadTypeOK
<1>5. GotIsWhole' BY <1>1 DEF Marking, GotIsWhole, Ended, DownloadTypeOK
<1>6. CompleteIsWhole' BY <1>1, <1>2 DEF Marking, CompleteIsWhole, DownloadTypeOK, VerifyFiles, AllWhole
<1>7. MarksComplete' BY <1>1, <1>2 DEF Marking, MarksComplete, DownloadTypeOK
<1>8. TrackedIsLive' BY DEF Marking, TrackedIsLive
<1> QED BY <1>3, <1>4, <1>5, <1>6, <1>7, <1>8 DEF Marking

(* A job at work changes its own directory, which is not marked, and keeps *)
(* the files it has got whole.                                             *)
LEMMA MarkingWork ==
    ASSUME DownloadTypeOK, Tracking, Marking, NEW j \in Jobs, ~Ended(j),
           UNCHANGED <<crs, tracked, rpc, rmodel, rphase, active>>,
           job'[j].model = job[j].model, job'[j].phase # "Complete",
           \A i \in Jobs \ {j} : job'[i] = job[i],
           \A m \in Models \ {job[j].model} : disk'[m] = disk[m],
           disk'[job[j].model].marker = disk[job[j].model].marker,
           job'[j].pc \notin {"none", "done"},
           \A f \in job'[j].got : disk'[job[j].model].file[f] = "whole",
           job'[j].pc \in {"checksums", "manifest"} => job'[j].got = Files,
           job'[j].pc = "fetch" => job'[j].file \notin job'[j].got,
           job'[j].inPlace => job'[j].pc = "fetch" /\ disk'[job[j].model].file[job'[j].file] # "none"
    PROVE  Marking'
<1> DEFINE n == job[j].model
<1>1. n \in Models /\ ~disk[n].marker /\ tracked[n] = j /\ job[j].phase # "Complete"
    BY DEF DownloadTypeOK, JobState, Marking, MarkedHasNoJob, Tracking, LiveIsTracked, LastPhase, Ended
<1>2. \A i \in Jobs \ {j} : ~Ended(i) => job[i].model # n
    BY <1>1 DEF Tracking, LiveIsTracked
<1>3. \A i \in Jobs \ {j} : job[i].model = n => job[i].got = {} /\ ~job[i].inPlace
    BY <1>2 DEF Marking, GotIsWhole, Ended
<1>4. MarkerMeansComplete'
    BY <1>1 DEF Marking, MarkerMeansComplete, VerifyFiles, AllWhole
<1>5. MarkedHasNoJob' BY <1>1, <1>2 DEF Marking, MarkedHasNoJob, Ended, DownloadTypeOK, JobState
<1>6. CompleteIsWhole'
    BY <1>1 DEF Marking, CompleteIsWhole, DownloadTypeOK, VerifyFiles, AllWhole, Tracking, TrackedIsJob
<1>7. MarksComplete' BY <1>1 DEF Marking, MarksComplete, DownloadTypeOK
<1>8. TrackedIsLive' BY DEF Marking, TrackedIsLive
<1>9. GotIsWhole' BY <1>1, <1>3 DEF Marking, GotIsWhole, DownloadTypeOK, JobState, Ended
<1> QED BY <1>4, <1>5, <1>6, <1>7, <1>8, <1>9 DEF Marking

LEMMA MarkingJobStep ==
    ASSUME DownloadTypeOK, Tracking, Marking, NEW j \in Jobs, JobStep(j) \/ JobFault(j)
    PROVE  Marking'
<1> DEFINE n == job[j].model
           w == job[j]
           d == disk[n]
<1> USE DEF JobFrame, worker, SetError
<1>1. ~Ended(j) /\ n \in Models /\ d \in DirState /\ w \in JobState
    BY JobMoves DEF DownloadTypeOK, JobState
<1>2. ASSUME EndJob(j, "Failed"), UNCHANGED <<disk, crs, tracked, rpc, rmodel, rphase, active>>
      PROVE  Marking'
    BY <1>1, <1>2, MarkingFailed
<1>3. /\ \A f \in w.got : d.file[f] = "whole"
      /\ w.pc \in {"checksums", "manifest"} => w.got = Files
      /\ w.pc = "fetch" => w.file \notin w.got
      /\ w.inPlace => w.pc = "fetch" /\ d.file[w.file] # "none"
      /\ w.phase # "Complete"
      /\ ~d.marker /\ tracked[n] = j
    BY <1>1 DEF Marking, GotIsWhole, Tracking, LastPhase, LiveIsTracked, Ended, MarkedHasNoJob
<1>4. CASE AcquireSlot(j)
  <2>1. CASE w.cancelled BY <1>2, <1>4, <2>1 DEF AcquireSlot
  <2>2. CASE ~w.cancelled
    <3>1. /\ job' = [job EXCEPT ![j] = [w EXCEPT !.pc = "prepare", !.phase = "Downloading"]]
          /\ UNCHANGED <<disk, crs, tracked, rpc, rmodel, rphase, active>> /\ w.pc = "waiting"
        BY <1>4, <2>2 DEF AcquireSlot, SetJob
    <3>2. /\ job'[j].model = n /\ job'[j].pc = "prepare" /\ job'[j].phase = "Downloading"
          /\ job'[j].got = w.got /\ job'[j].inPlace = w.inPlace /\ job'[j].file = w.file
          /\ \A i \in Jobs \ {j} : job'[i] = job[i]
        BY <3>1, <1>1 DEF DownloadTypeOK, JobState
    <3> QED BY <1>1, <1>3, <3>1, <3>2, MarkingWork
  <2> QED BY <2>1, <2>2
<1>5. CASE Prepare(j)
  <2>1. /\ job' = [job EXCEPT ![j] = [w EXCEPT !.pc = "files"]]
        /\ disk' = [disk EXCEPT ![n] = [d EXCEPT !.dir = TRUE]]
        /\ UNCHANGED <<crs, tracked, rpc, rmodel, rphase, active>> /\ w.pc = "prepare"
      BY <1>5 DEF Prepare, SetJob, SetDir, Dir
  <2>2. /\ job'[j].model = n /\ job'[j].pc = "files" /\ job'[j].phase = w.phase
        /\ job'[j].got = w.got /\ job'[j].inPlace = w.inPlace /\ job'[j].file = w.file
        /\ \A i \in Jobs \ {j} : job'[i] = job[i]
      BY <2>1, <1>1 DEF DownloadTypeOK, JobState
  <2>3. /\ disk'[n].marker = d.marker /\ disk'[n].file = d.file
        /\ \A m \in Models \ {n} : disk'[m] = disk[m]
      BY <2>1, <1>1 DEF DownloadTypeOK, DirState
  <2> QED BY <1>1, <1>3, <2>1, <2>2, <2>3, MarkingWork, ZenonT(60)
<1>6. CASE \E f \in Files : StartFile(j, f)
  <2>1. PICK f \in Files : StartFile(j, f) BY <1>6
  <2>2. CASE w.cancelled BY <1>2, <2>1, <2>2 DEF StartFile
  <2>3. CASE ~w.cancelled
    <3>1. /\ job' = [job EXCEPT ![j] = [w EXCEPT !.pc = "fetch", !.file = f]]
          /\ disk' = [disk EXCEPT ![n] = [d EXCEPT !.dir = TRUE]]
          /\ UNCHANGED <<crs, tracked, rpc, rmodel, rphase, active>>
          /\ w.pc = "files" /\ f \notin w.got
        BY <2>1, <2>3 DEF StartFile, SetJob, SetDir, Dir
    <3>2. /\ job'[j].model = n /\ job'[j].pc = "fetch" /\ job'[j].phase = w.phase
          /\ job'[j].got = w.got /\ job'[j].inPlace = w.inPlace /\ job'[j].file = f
          /\ \A i \in Jobs \ {j} : job'[i] = job[i]
        BY <3>1, <1>1 DEF DownloadTypeOK, JobState
    <3>3. /\ disk'[n].marker = d.marker /\ disk'[n].file = d.file
          /\ \A m \in Models \ {n} : disk'[m] = disk[m]
        BY <3>1, <1>1 DEF DownloadTypeOK, DirState
    <3> QED BY <1>1, <1>3, <3>1, <3>2, <3>3, MarkingWork, ZenonT(60)
  <2> QED BY <2>2, <2>3
<1>7. CASE FetchInPlace(j)
  <2>1. /\ job' = [job EXCEPT ![j] = [w EXCEPT !.inPlace = TRUE]]
        /\ disk' = [disk EXCEPT ![n] = [d EXCEPT !.dir = TRUE, !.file[w.file] = "part",
                                               !.old = @ /\ d.file[w.file] # "none"]]
        /\ UNCHANGED <<crs, tracked, rpc, rmodel, rphase, active>> /\ w.pc = "fetch"
      BY <1>7 DEF FetchInPlace, SetJob, SetDir, Dir
  <2>2. /\ job'[j].model = n /\ job'[j].pc = "fetch" /\ job'[j].phase = w.phase
        /\ job'[j].got = w.got /\ job'[j].inPlace /\ job'[j].file = w.file
        /\ \A i \in Jobs \ {j} : job'[i] = job[i]
      BY <2>1, <1>1 DEF DownloadTypeOK, JobState
  <2>3. /\ disk'[n].marker = d.marker /\ disk'[n].file = [d.file EXCEPT ![w.file] = "part"]
        /\ \A m \in Models \ {n} : disk'[m] = disk[m]
      BY <2>1, <1>1 DEF DownloadTypeOK, DirState
  <2>4. d.file \in [Files -> {"none", "part", "whole"}] /\ w.file \in Files /\ w.got \subseteq Files
      BY <1>1 DEF DirState, JobState
  <2>5. /\ \A f \in w.got : disk'[n].file[f] = "whole"
        /\ disk'[n].file[w.file] # "none"
    <3>1. disk'[n].file = [d.file EXCEPT ![w.file] = "part"]
        BY <2>3
    <3>2. disk'[n].file[w.file] = "part"
        BY <2>4, <3>1
    <3>3. \A f \in Files \ {w.file} : disk'[n].file[f] = d.file[f]
        BY <2>4, <3>1
    <3>4. \A f \in w.got : d.file[f] = "whole" /\ f # w.file
        BY <1>3, <2>1
    <3> QED BY <2>4, <3>2, <3>3, <3>4
  <2> QED BY <1>1, <1>3, <2>1, <2>2, <2>3, <2>5, MarkingWork
<1>8. CASE FetchDone(j)
  <2> DEFINE got == w.got \cup {w.file}
             next == IF Files \subseteq got THEN "checksums" ELSE "files"
  <2>1. /\ job' = [job EXCEPT ![j] = [w EXCEPT !.got = @ \cup {w.file}, !.inPlace = FALSE,
                                              !.file = AnyFile, !.pc = next]]
        /\ UNCHANGED <<crs, tracked, rpc, rmodel, rphase, active>> /\ w.pc = "fetch"
      BY <1>8 DEF FetchDone, SetJob
  <2>2. /\ job'[j].model = n /\ job'[j].pc = next /\ job'[j].phase = w.phase
        /\ job'[j].got = got /\ ~job'[j].inPlace
        /\ \A i \in Jobs \ {j} : job'[i] = job[i]
      BY <2>1, <1>1 DEF DownloadTypeOK, JobState
  <2>3. disk' = [disk EXCEPT ![n] = [d EXCEPT !.dir = TRUE, !.file[w.file] = "whole",
                                            !.old = @ /\ w.inPlace]]
      BY <1>3, <1>8 DEF FetchDone, SetDir, Dir
  <2>4. /\ disk'[n].marker = d.marker /\ disk'[n].file = [d.file EXCEPT ![w.file] = "whole"]
        /\ \A m \in Models \ {n} : disk'[m] = disk[m]
      BY <2>3, <1>1 DEF DownloadTypeOK, DirState
  <2>5. d.file \in [Files -> {"none", "part", "whole"}] /\ w.file \in Files /\ w.got \subseteq Files
      BY <1>1 DEF DirState, JobState
  <2>6. \A f \in got : disk'[n].file[f] = "whole" BY <1>3, <2>4, <2>5
  <2>7. next \in {"checksums", "manifest"} => got = Files BY <2>5
  <2>8. next \in {"checksums", "files"} OBVIOUS
  <2> HIDE DEF got, next
  <2> QED BY <1>1, <1>3, <2>1, <2>2, <2>4, <2>6, <2>7, <2>8, MarkingWork
<1>9. CASE ChecksumsPass(j)
  <2>1. /\ job' = [job EXCEPT ![j] = [w EXCEPT !.pc = "manifest"]]
        /\ UNCHANGED <<disk, crs, tracked, rpc, rmodel, rphase, active>> /\ w.pc = "checksums"
      BY <1>9 DEF ChecksumsPass, SetJob
  <2>2. /\ job'[j].model = n /\ job'[j].pc = "manifest" /\ job'[j].phase = w.phase
        /\ job'[j].got = w.got /\ job'[j].inPlace = w.inPlace /\ job'[j].file = w.file
        /\ \A i \in Jobs \ {j} : job'[i] = job[i]
      BY <2>1, <1>1 DEF DownloadTypeOK, JobState
  <2> QED BY <1>1, <1>3, <2>1, <2>2, MarkingWork
<1>10. CASE Complete(j)
  <2>1. /\ EndJob(j, "Complete") /\ w.pc = "manifest"
        /\ disk' = [disk EXCEPT ![n] = [d EXCEPT !.dir = TRUE, !.manifest = TRUE, !.old = FALSE]]
        /\ UNCHANGED <<crs, tracked, rpc, rmodel, rphase, active>>
      BY <1>10 DEF Complete, SetDir, Dir
  <2>2. /\ job'[j].model = n /\ job'[j].pc = "done" /\ job'[j].phase = "Complete"
        /\ job'[j].got = {} /\ ~job'[j].inPlace
        /\ \A i \in Jobs \ {j} : job'[i] = job[i]
      BY <2>1, EndJobMoves, EndJobFields
  <2>3. /\ disk'[n].marker = d.marker /\ disk'[n].file = d.file /\ disk'[n].manifest
        /\ \A m \in Models \ {n} : disk'[m] = disk[m]
      BY <2>1, <1>1 DEF DownloadTypeOK, DirState
  <2>4. disk'[n].manifest /\ \A f \in Files : disk'[n].file[f] = "whole"
      BY <1>3, <2>1, <2>3
  <2>5. MarkerMeansComplete' BY <1>3, <2>3, <2>4 DEF Marking, MarkerMeansComplete, VerifyFiles, AllWhole
  <2>6. MarkedHasNoJob'
      BY <1>3, <2>1, <2>2, <2>3 DEF Marking, MarkedHasNoJob, Ended, DownloadTypeOK, JobState
  <2>7. GotIsWhole' BY <2>2, <2>3 DEF Marking, GotIsWhole, Ended, DownloadTypeOK, JobState
  <2>8. CompleteIsWhole'
      BY <2>1, <2>2, <2>3, <2>4
      DEF Marking, CompleteIsWhole, VerifyFiles, AllWhole, DownloadTypeOK, Tracking, TrackedIsJob
  <2>9. MarksComplete' BY <2>1, <2>2 DEF Marking, MarksComplete, DownloadTypeOK
  <2>10. TrackedIsLive' BY <2>1 DEF Marking, TrackedIsLive
  <2> QED BY <2>5, <2>6, <2>7, <2>8, <2>9, <2>10 DEF Marking
<1>11. CASE JobFault(j)
    BY <1>2, <1>11 DEF JobFault, PrepareFails, FetchFails, ChecksumsFail, ManifestFails
<1> QED BY <1>4, <1>5, <1>6, <1>7, <1>8, <1>9, <1>10, <1>11 DEF JobStep

(* No step of the controller changes a file; the marker it writes is that  *)
(* of a model whose tracked job is Complete.                               *)
LEMMA MarkingReconcileStep ==
    ASSUME DownloadTypeOK, Tracking, Marking,
           ReconcileStep \/ ReconcileFails \/ \E m \in Models : Reconcile(m)
    PROVE  Marking'
<1> USE DEF Marking, VerifyFiles, AllWhole
<1>1. CASE \E m \in Models : Reconcile(m)
  <2>1. /\ UNCHANGED <<crs, disk, tracked, job, active>>
        /\ rpc' \in {"retryCancel", "verify"} /\ crs[rmodel'].live
      BY <1>1 DEF Reconcile
  <2>2. MarkerMeansComplete' BY <2>1 DEF MarkerMeansComplete
  <2>3. MarkedHasNoJob' BY <2>1 DEF MarkedHasNoJob, Ended
  <2>4. GotIsWhole' BY <2>1 DEF GotIsWhole, Ended
  <2>5. CompleteIsWhole' /\ MarksComplete' BY <2>1 DEF CompleteIsWhole, MarksComplete
  <2>6. TrackedIsLive' BY <2>1 DEF TrackedIsLive
  <2> QED BY <2>2, <2>3, <2>4, <2>5, <2>6
<1>2. CASE RetryCancel
  <2>1. /\ UNCHANGED <<crs, disk, tracked, active, rmodel>> /\ rpc' = "retryUnmark" /\ rpc # "idle"
        /\ \A j \in Jobs : /\ job'[j].pc = job[j].pc /\ job'[j].model = job[j].model
                           /\ job'[j].phase = job[j].phase /\ job'[j].got = job[j].got
                           /\ job'[j].file = job[j].file /\ job'[j].inPlace = job[j].inPlace
      BY <1>2 DEF RetryCancel, Goto, DownloadTypeOK, JobState
  <2>2. MarkerMeansComplete' BY <2>1 DEF MarkerMeansComplete
  <2>3. MarkedHasNoJob' BY <2>1 DEF MarkedHasNoJob, Ended
  <2>4. GotIsWhole' BY <2>1 DEF GotIsWhole, Ended
  <2>5. CompleteIsWhole' /\ MarksComplete' BY <2>1 DEF CompleteIsWhole, MarksComplete, DownloadTypeOK
  <2>6. TrackedIsLive' BY <2>1 DEF TrackedIsLive
  <2> QED BY <2>2, <2>3, <2>4, <2>5, <2>6
<1>3. CASE RetryUnmark
  <2>1. /\ UNCHANGED <<crs, tracked, job, active, rmodel>> /\ rpc' = "retryUpdate" /\ rpc # "idle"
        /\ \A m \in Models : /\ disk'[m].marker => disk[m].marker
                             /\ disk'[m].file = disk[m].file /\ disk'[m].manifest = disk[m].manifest
      BY <1>3 DEF RetryUnmark, SetDir, Goto, DownloadTypeOK, DirState
  <2>2. MarkerMeansComplete' BY <2>1 DEF MarkerMeansComplete
  <2>3. MarkedHasNoJob' BY <2>1 DEF MarkedHasNoJob, Ended, DownloadTypeOK, JobState
  <2>4. GotIsWhole' BY <2>1 DEF GotIsWhole, Ended, DownloadTypeOK, JobState
  <2>5. CompleteIsWhole' /\ MarksComplete' BY <2>1 DEF CompleteIsWhole, MarksComplete
  <2>6. TrackedIsLive' BY <2>1 DEF TrackedIsLive
  <2> QED BY <2>2, <2>3, <2>4, <2>5, <2>6
<1>4. CASE RetryUpdate \/ RetryStatus \/ Verified \/ Report \/ ReconcileFails
  <2>1. /\ UNCHANGED <<disk, tracked, job, active>>
        /\ \A m \in Models : crs'[m].live = crs[m].live
        /\ rpc' \in {"idle", "retryStatus", "mark", "forget"}
        /\ rpc' # "idle" => rmodel' = rmodel /\ rpc # "idle"
        /\ rpc' = "mark" => rpc = "report" /\ rphase = "Complete"
      BY <1>4 DEF RetryUpdate, RetryStatus, Verified, Report, ReconcileFails, SetPhase, Goto, Return,
                 DownloadTypeOK, ModelState
  <2>2. MarkerMeansComplete' BY <2>1 DEF MarkerMeansComplete
  <2>3. MarkedHasNoJob' BY <2>1 DEF MarkedHasNoJob, Ended
  <2>4. GotIsWhole' BY <2>1 DEF GotIsWhole, Ended
  <2>5. CompleteIsWhole' BY <2>1 DEF CompleteIsWhole
  <2>6. MarksComplete' BY <2>1 DEF MarksComplete
  <2>7. TrackedIsLive' BY <2>1 DEF TrackedIsLive, DownloadTypeOK
  <2> QED BY <2>2, <2>3, <2>4, <2>5, <2>6, <2>7
<1>5. CASE Verify
  <2>1. /\ UNCHANGED <<crs, tracked, job, active, rmodel>> /\ rpc' \in {"verified", "track"}
        /\ rpc # "idle" /\ UNCHANGED disk
        /\ rpc' = "track" => ~disk[rmodel].marker
      BY <1>5 DEF Verify, Goto, MarkerMeansComplete, DownloadTypeOK
  <2>2. MarkerMeansComplete' BY <2>1 DEF MarkerMeansComplete
  <2>3. MarkedHasNoJob' BY <2>1 DEF MarkedHasNoJob, Ended
  <2>4. GotIsWhole' BY <2>1 DEF GotIsWhole, Ended
  <2>5. CompleteIsWhole' /\ MarksComplete' BY <2>1 DEF CompleteIsWhole, MarksComplete
  <2>6. TrackedIsLive' BY <2>1 DEF TrackedIsLive
  <2> QED BY <2>2, <2>3, <2>4, <2>5, <2>6
<1>6. CASE StartDownload
  <2> DEFINE k == CHOOSE x \in Jobs : job[x].pc = "none"
  <2>1. /\ k \in Jobs /\ job[k].pc = "none"
        /\ job' = [job EXCEPT ![k] = [Idle EXCEPT !.pc = "waiting", !.model = rmodel]]
        /\ tracked' = [tracked EXCEPT ![rmodel] = k]
        /\ rpc = "track" /\ rpc' = "track" /\ UNCHANGED <<crs, disk, active, rmodel>>
      BY <1>6 DEF StartDownload, SetJob, Goto
  <2> HIDE DEF k
  <2>2. /\ job'[k].pc = "waiting" /\ job'[k].model = rmodel /\ job'[k].phase = "Pending"
        /\ job'[k].got = {} /\ ~job'[k].inPlace
        /\ \A i \in Jobs \ {k} : job'[i] = job[i]
        /\ tracked'[rmodel] = k /\ \A m \in Models \ {rmodel} : tracked'[m] = tracked[m]
      BY <2>1 DEF DownloadTypeOK, Idle
  <2>3. \A m \in Models : tracked[m] # k BY <2>1 DEF Tracking, TrackedIsJob
  <2>4. MarkerMeansComplete' BY <2>1 DEF MarkerMeansComplete
  <2>5. MarkedHasNoJob' BY <2>1, <2>2 DEF MarkedHasNoJob, Ended
  <2>6. GotIsWhole' BY <2>1, <2>2 DEF GotIsWhole, Ended
  <2>7. CompleteIsWhole' BY <2>1, <2>2, <2>3 DEF CompleteIsWhole, DownloadTypeOK
  <2>8. MarksComplete' BY <2>1 DEF MarksComplete
  <2>9. TrackedIsLive' BY <2>1, <2>2 DEF TrackedIsLive
  <2> QED BY <2>4, <2>5, <2>6, <2>7, <2>8, <2>9
<1>7. CASE FollowDownload
  <2>1. /\ UNCHANGED <<crs, disk, tracked, job, active, rmodel>> /\ rpc' = "report" /\ rpc # "idle"
        /\ tracked[rmodel] # NoJob /\ rphase' = job[tracked[rmodel]].phase
      BY <1>7 DEF FollowDownload
  <2>2. MarkerMeansComplete' BY <2>1 DEF MarkerMeansComplete
  <2>3. MarkedHasNoJob' BY <2>1 DEF MarkedHasNoJob, Ended
  <2>4. GotIsWhole' BY <2>1 DEF GotIsWhole, Ended
  <2>5. CompleteIsWhole' /\ MarksComplete' BY <2>1 DEF CompleteIsWhole, MarksComplete
  <2>6. TrackedIsLive' BY <2>1 DEF TrackedIsLive
  <2> QED BY <2>2, <2>3, <2>4, <2>5, <2>6
<1>8. CASE Mark
  <2>1. /\ disk' = [disk EXCEPT ![rmodel] = [disk[rmodel] EXCEPT !.dir = TRUE, !.marker = TRUE, !.old = FALSE]]
        /\ UNCHANGED <<crs, tracked, job, active, rmodel>> /\ rpc' = "forget" /\ rpc = "mark"
      BY <1>8 DEF Mark, SetDir, Goto
  <2>2. /\ \A m \in Models : disk'[m].file = disk[m].file /\ disk'[m].manifest = disk[m].manifest
        /\ \A m \in Models \ {rmodel} : disk'[m].marker = disk[m].marker
      BY <2>1 DEF DownloadTypeOK, DirState
  <2>3. VerifyFiles(rmodel) /\ tracked[rmodel] # NoJob /\ job[tracked[rmodel]].pc = "done"
      BY <2>1 DEF MarksComplete, CompleteIsWhole, Tracking, SeenEnded, DownloadTypeOK
  <2>4. \A j \in Jobs : ~Ended(j) => job[j].model # rmodel
      BY <2>3 DEF Tracking, LiveIsTracked, Ended
  <2>5. MarkerMeansComplete' BY <2>2, <2>3 DEF MarkerMeansComplete
  <2>6. MarkedHasNoJob'
      BY <2>1, <2>2, <2>4 DEF MarkedHasNoJob, Ended, DownloadTypeOK, JobState
  <2>7. GotIsWhole' BY <2>1, <2>2 DEF GotIsWhole, Ended, DownloadTypeOK, JobState
  <2>8. CompleteIsWhole' /\ MarksComplete' BY <2>1, <2>2 DEF CompleteIsWhole, MarksComplete
  <2>9. TrackedIsLive' BY <2>1 DEF TrackedIsLive
  <2> QED BY <2>5, <2>6, <2>7, <2>8, <2>9
<1>9. CASE Forget
  <2>1. PICK k \in Jobs : k = tracked[rmodel] /\ job[k].pc = "done"
      BY <1>9 DEF Forget, DownloadTypeOK, Tracking, SeenEnded
  <2>2. /\ job'[k] = Idle /\ \A i \in Jobs \ {k} : job'[i] = job[i]
        /\ tracked'[rmodel] = NoJob /\ \A m \in Models \ {rmodel} : tracked'[m] = tracked[m]
        /\ rpc' = "idle" /\ UNCHANGED <<crs, disk, active>>
      BY <1>9, <2>1 DEF Forget, Return, DownloadTypeOK
  <2>3. \A m \in Models \ {rmodel} : tracked[m] # k
      BY <2>1 DEF Tracking, TrackedIsJob, DownloadTypeOK
  <2>4. MarkerMeansComplete' BY <2>2 DEF MarkerMeansComplete
  <2>5. MarkedHasNoJob' BY <2>2 DEF MarkedHasNoJob, Ended, Idle
  <2>6. GotIsWhole' BY <2>2 DEF GotIsWhole, Ended, Idle
  <2>7. CompleteIsWhole' /\ MarksComplete'
      BY <2>2, <2>3 DEF CompleteIsWhole, MarksComplete, DownloadTypeOK
  <2>8. TrackedIsLive' BY <2>2 DEF TrackedIsLive, DownloadTypeOK
  <2> QED BY <2>4, <2>5, <2>6, <2>7, <2>8
<1> QED BY <1>1, <1>2, <1>3, <1>4, <1>5, <1>6, <1>7, <1>8, <1>9 DEF ReconcileStep

(* What the cleaner removes belongs to no object, and so to no job: this   *)
(* is where users have to wait, and where all models have to be listed.    *)
LEMMA MarkingOtherStep ==
    ASSUME UserWaits, Watched = Models, DownloadTypeOK, Tracking, Marking,
           Cleanup \/ User \/ Restart
    PROVE  Marking'
<1> USE DEF Marking, VerifyFiles, AllWhole, worker
<1>1. CASE ListModels \/ CleanupEnds \/ User
  <2>1. UNCHANGED <<disk, tracked, job, rpc, rmodel, rphase>>
      BY <1>1 DEF ListModels, CleanupEnds, User, UserCreates, UserRetries, DeleteModel
  <2>2. MarkerMeansComplete' BY <2>1 DEF MarkerMeansComplete
  <2>3. MarkedHasNoJob' BY <2>1 DEF MarkedHasNoJob, Ended
  <2>4. GotIsWhole' BY <2>1 DEF GotIsWhole, Ended
  <2>5. CompleteIsWhole' /\ MarksComplete' BY <2>1 DEF CompleteIsWhole, MarksComplete
  <2>6. TrackedIsLive'
    <3>1. CASE ListModels \/ CleanupEnds
        BY <3>1 DEF ListModels, CleanupEnds, TrackedIsLive, NotListed
    <3>2. ASSUME NEW m \in Models, UserCreates(m) PROVE TrackedIsLive'
        BY <3>2 DEF UserCreates, TrackedIsLive, DownloadTypeOK, NewModel, NoModel
    <3>3. ASSUME NEW m \in Models, UserRetries(m) PROVE TrackedIsLive'
        BY <3>3 DEF UserRetries, TrackedIsLive, DownloadTypeOK, ModelState
    <3>4. ASSUME NEW m \in Models, DeleteModel(m) PROVE TrackedIsLive'
        BY <3>4 DEF DeleteModel, TrackedIsLive, DownloadTypeOK, NoModel
    <3> QED BY <1>1, <3>1, <3>2, <3>3, <3>4 DEF User
  <2> QED BY <2>2, <2>3, <2>4, <2>5, <2>6
<1>2. ASSUME NEW m \in Models, RemoveUnused(m) PROVE Marking'
  <2>1. /\ UNCHANGED <<crs, tracked, job, rpc, rmodel, rphase, active>>
        /\ disk' = [disk EXCEPT ![m] = NoDir]
        /\ active.listed /\ m \notin active.models
      BY <1>2 DEF RemoveUnused, SetDir
  <2>2. ~disk'[m].marker /\ \A n \in Models \ {m} : disk'[n] = disk[n]
      BY <2>1 DEF DownloadTypeOK, NoDir
  <2>3. ~crs[m].live /\ tracked[m] = NoJob BY <2>1 DEF TrackedIsLive
  <2>4. \A j \in Jobs : job[j].model = m => Ended(j) /\ job[j].got = {} /\ ~job[j].inPlace
      BY <2>3 DEF Tracking, LiveIsTracked, GotIsWhole, Ended
  <2>5. MarkerMeansComplete' BY <2>2 DEF MarkerMeansComplete
  <2>6. MarkedHasNoJob'
      BY <2>1, <2>2 DEF MarkedHasNoJob, Ended, DownloadTypeOK, JobState
  <2>7. GotIsWhole' BY <2>1, <2>2, <2>4 DEF GotIsWhole, Ended, DownloadTypeOK, JobState
  <2>8. CompleteIsWhole' /\ MarksComplete' BY <2>1, <2>2, <2>3 DEF CompleteIsWhole, MarksComplete
  <2>9. TrackedIsLive' BY <2>1 DEF TrackedIsLive
  <2> QED BY <2>5, <2>6, <2>7, <2>8, <2>9
<1>3. ASSUME NEW m \in Models, DirAges(m) PROVE Marking'
  <2>1. /\ UNCHANGED <<crs, tracked, job, rpc, rmodel, rphase, active>>
        /\ \A n \in Models : /\ disk'[n].marker = disk[n].marker /\ disk'[n].file = disk[n].file
                             /\ disk'[n].manifest = disk[n].manifest
      BY <1>3 DEF DirAges, SetDir, DownloadTypeOK, DirState
  <2>2. MarkerMeansComplete' BY <2>1 DEF MarkerMeansComplete
  <2>3. MarkedHasNoJob' BY <2>1 DEF MarkedHasNoJob, Ended, DownloadTypeOK, JobState
  <2>4. GotIsWhole' BY <2>1 DEF GotIsWhole, Ended, DownloadTypeOK, JobState
  <2>5. CompleteIsWhole' /\ MarksComplete' BY <2>1 DEF CompleteIsWhole, MarksComplete
  <2>6. TrackedIsLive' BY <2>1 DEF TrackedIsLive
  <2> QED BY <2>2, <2>3, <2>4, <2>5, <2>6
<1>4. CASE Restart
  <2>1. /\ \A m \in Models : tracked'[m] = NoJob
        /\ \A j \in Jobs : job'[j].pc = "none" /\ job'[j].got = {} /\ ~job'[j].inPlace
        /\ rpc' = "idle" /\ ~active'.listed /\ UNCHANGED <<crs, disk>>
      BY <1>4 DEF Restart, Return, Idle, NotListed
  <2>2. MarkerMeansComplete' BY <2>1 DEF MarkerMeansComplete
  <2>3. MarkedHasNoJob' BY <2>1 DEF MarkedHasNoJob, Ended
  <2>4. GotIsWhole' BY <2>1 DEF GotIsWhole, Ended
  <2>5. CompleteIsWhole' /\ MarksComplete' BY <2>1 DEF CompleteIsWhole, MarksComplete
  <2>6. TrackedIsLive' BY <2>1 DEF TrackedIsLive
  <2> QED BY <2>2, <2>3, <2>4, <2>5, <2>6
<1> QED BY <1>1, <1>2, <1>3, <1>4 DEF Cleanup

LEMMA MarkingStep ==
    ASSUME UserWaits, Watched = Models
    PROVE  DownloadTypeOK /\ Tracking /\ Marking /\ [DownloadNext]_downloadVars => Marking'
<1> SUFFICES ASSUME DownloadTypeOK, Tracking, Marking, [DownloadNext]_downloadVars
             PROVE  Marking'
    OBVIOUS
<1>1. CASE UNCHANGED downloadVars
  <2>1. UNCHANGED <<crs, disk, tracked, job, rpc, rmodel, rphase, active>>
      BY <1>1 DEF downloadVars
  <2>2. MarkerMeansComplete' BY <2>1 DEF Marking, MarkerMeansComplete, VerifyFiles, AllWhole
  <2>3. MarkedHasNoJob' BY <2>1 DEF Marking, MarkedHasNoJob, Ended
  <2>4. GotIsWhole' BY <2>1 DEF Marking, GotIsWhole, Ended
  <2>5. CompleteIsWhole' BY <2>1 DEF Marking, CompleteIsWhole, VerifyFiles, AllWhole
  <2>6. MarksComplete' BY <2>1 DEF Marking, MarksComplete
  <2>7. TrackedIsLive' BY <2>1 DEF Marking, TrackedIsLive
  <2> QED BY <2>2, <2>3, <2>4, <2>5, <2>6, <2>7 DEF Marking
<1> QED BY <1>1, MarkingJobStep, MarkingReconcileStep, MarkingOtherStep DEF DownloadNext

(* When users wait for a download before they delete its model, and for    *)
(* the cleaner before they create one, and the cleaner lists every model,  *)
(* a directory with a .ready marker holds every file and the manifest:     *)
(* across failures, retries, restarts and removals, for any number of      *)
(* models, files and slots.                                                *)
THEOREM DownloadsMarked ==
    ASSUME UserWaits, Watched = Models
    PROVE  DownloadSpec => []MarkerMeansComplete
<1>1. DownloadInit => Marking BY InitMarking
<1>2. DownloadTypeOK /\ Tracking /\ Marking /\ [DownloadNext]_downloadVars => Marking'
    BY MarkingStep
<1>3. Marking => MarkerMeansComplete BY DEF Marking
<1> QED BY <1>1, <1>2, <1>3, DownloadsTracked, PTL DEF DownloadSpec
============================================================================
