------------------------------ MODULE MultiFile ------------------------------
(* MultiFileDownloader of internal/download: DownloadAll fetches the files *)
(* of a DownloadSpec with a goroutine per file, as many at a time as the   *)
(* semaphore has slots.  Every goroutine asks the Detector where its file  *)
(* is stored, streams it to disk by way of LFS or of Xet, and keeps its    *)
(* entry of the Status.  The caller may cancel the context at any time,    *)
(* and may call again when DownloadAll has returned.                       *)
EXTENDS FileSelection, FiniteSets

CONSTANTS
    Storage,      \* where a file of the repository is kept: "LFS" or "Xet"
    Specs,        \* the specifications a caller may have
    Blocks,       \* the writes it takes to copy a file
    MaxParallel,  \* the slots of the semaphore
    MaxCalls,     \* bound: calls of DownloadAll
    NoStatus      \* a file the Status has no entry for

ASSUME BlocksAssumption == Blocks \in Nat \ {0}
ASSUME StorageAssumption == \A f \in Repo : Storage[f] \in {"LFS", "Xet"}
ASSUME SlotsAssumption == MaxParallel \in Nat \ {0}
ASSUME CallsAssumption == MaxCalls \in Nat \ {0}
ASSUME FilesAssumption == IsFiniteSet(Names) /\ \A s \in Specs : s.Files \subseteq Names
ASSUME NoStatusAssumption == NoStatus \notin [Phase : STRING, BytesDone : Nat, BytesTotal : Nat]

Calls == 1 .. MaxCalls
Goroutines == Calls \X Names

VARIABLES
    spec,
    call,       \* the number of calls so far
    main,       \* where the caller is
    result,     \* what a call has returned
    cancelled,  \* whether the context of a call is done
    files,      \* the files a call has resolved
    hasError,
    sent,       \* the errors in errChan
    pc,         \* where the goroutine of a call and a file is
    held,       \* the slots of the semaphore that are taken
    kind,       \* the storage a goroutine has found
    written,    \* the blocks a goroutine has written
    status,     \* the file entries of the Status
    disk,       \* the blocks of a file that are on disk
    cache       \* the Detector's cache

callVars == <<spec, call, main, result, cancelled, files>>
vars == <<callVars, hasError, sent, pc, held, kind, written, status, disk, cache>>

Phases == {"Pending", "Downloading", "Complete", "Failed"}
Results == {"none", "nil", "error", "cancelled", "unresolved", "noFiles"}
Waiting == {"unborn", "acquire"}
Working == {"check", "detect", "begin", "fetch", "create", "copy", "finish", "send", "release"}

MultiTypeOK ==
    /\ spec \in Specs /\ call \in 0 .. MaxCalls
    /\ main \in {"idle", "resolve", "spawn", "wait"}
    /\ result \in [Calls -> Results]
    /\ cancelled \in [Calls -> BOOLEAN] /\ hasError \in [Calls -> BOOLEAN]
    /\ files \in [Calls -> SUBSET Names]
    /\ sent \in [Calls -> Nat] /\ \A c \in Calls : sent[c] <= Cardinality(files[c])
    /\ pc \in [Goroutines -> Waiting \cup Working \cup {"ended"}]
    /\ held = Cardinality({g \in Goroutines : pc[g] \in Working}) /\ held <= MaxParallel
    /\ kind \in [Goroutines -> {"Unknown", "LFS", "Xet"}]
    /\ written \in [Goroutines -> 0 .. Blocks]
    /\ \A f \in Names :
           \/ status[f] = NoStatus
           \/ status[f] \in [Phase : Phases, BytesDone : 0 .. Blocks, BytesTotal : {0, Blocks}]
    /\ disk \in [Names -> SUBSET (1 .. Blocks)]
    /\ cache \in [Names -> {"none", "LFS", "Xet"}]

(* What a HEAD request may find: the header of a Xet file, or, for an LFS  *)
(* file, for a missing file and for any error status, no header.           *)
Answers(f) == {"LFS"} \cup IF f \in Repo THEN {Storage[f]} ELSE {}

Init ==
    /\ spec \in Specs
    /\ call = 0 /\ main = "idle"
    /\ result = [c \in Calls |-> "none"]
    /\ cancelled = [c \in Calls |-> FALSE]
    /\ files = [c \in Calls |-> {}]
    /\ hasError = [c \in Calls |-> FALSE]
    /\ sent = [c \in Calls |-> 0]
    /\ pc = [g \in Goroutines |-> "unborn"]
    /\ held = 0
    /\ kind = [g \in Goroutines |-> "Unknown"]
    /\ written = [g \in Goroutines |-> 0]
    /\ status = [f \in Names |-> NoStatus]
    /\ disk = [f \in Names |-> {}]
    /\ cache = [f \in Names |-> "none"]

----------------------------------------------------------------------------
(* Status.UpdateFileProgress: the entry of a file, new or replaced.        *)
Entry(phase, done, total) == [Phase |-> phase, BytesDone |-> done, BytesTotal |-> total]

UpdateFileProgress(f, phase, done, total) ==
    status' = [status EXCEPT ![f] = Entry(phase, done, total)]

Returned(value) ==
    /\ result' = [result EXCEPT ![call] = value]
    /\ main' = "idle"

(* DownloadAll is called.                                                  *)
Call ==
    /\ main = "idle" /\ call < MaxCalls
    /\ call' = call + 1
    /\ main' = "resolve"
    /\ UNCHANGED <<spec, result, cancelled, files, hasError, sent, pc, held,
                   kind, written, status, disk, cache>>

ResolveFails ==
    /\ main = "resolve"
    /\ Returned("unresolved")
    /\ UNCHANGED <<spec, call, cancelled, files, hasError, sent, pc, held,
                   kind, written, status, disk, cache>>

(* The list is resolved, and initFileStatus makes every file Pending.      *)
ResolveFiles ==
    /\ main = "resolve"
    /\ LET resolved == Resolve(spec)
       IN /\ files' = [files EXCEPT ![call] = resolved]
          /\ status' = [f \in Names |->
                           IF f \in resolved THEN Entry("Pending", 0, 0) ELSE status[f]]
          /\ IF resolved = {}
             THEN Returned("noFiles")
             ELSE main' = "spawn" /\ UNCHANGED result
    /\ UNCHANGED <<spec, call, cancelled, hasError, sent, pc, held,
                   kind, written, disk, cache>>

Unborn == {f \in files[call] : pc[<<call, f>>] = "unborn"}

(* The loop of DownloadAll: a goroutine for a file that has none yet,      *)
(* unless the context is done.                                             *)
Spawn ==
    /\ main = "spawn" /\ ~cancelled[call]
    /\ \E f \in Unborn : pc' = [pc EXCEPT ![<<call, f>>] = "acquire"]
    /\ UNCHANGED <<callVars, hasError, sent, held, kind, written, status, disk, cache>>

(* The early return leaves the goroutines that were started behind.        *)
SpawnCancelled ==
    /\ main = "spawn" /\ Unborn # {} /\ cancelled[call]
    /\ Returned("cancelled")
    /\ UNCHANGED <<spec, call, cancelled, files, hasError, sent, pc, held,
                   kind, written, status, disk, cache>>

AllSpawned ==
    /\ main = "spawn" /\ Unborn = {}
    /\ main' = "wait"
    /\ UNCHANGED <<spec, call, result, cancelled, files, hasError, sent, pc, held,
                   kind, written, status, disk, cache>>

Ended(c) == \A f \in Names : pc[<<c, f>>] \in {"unborn", "ended"}

(* Mutant: the first error ends the wait.                                  *)
WaitFirstError ==
    /\ main = "wait" /\ (Ended(call) \/ hasError[call])
    /\ Returned(IF hasError[call] THEN "error" ELSE "nil")
    /\ UNCHANGED <<spec, call, cancelled, files, hasError, sent, pc, held,
                   kind, written, status, disk, cache>>

(* wg.Wait, and the return of the first error that was recorded.           *)
Wait ==
    /\ main = "wait" /\ Ended(call)
    /\ Returned(IF hasError[call] THEN "error" ELSE "nil")
    /\ UNCHANGED <<spec, call, cancelled, files, hasError, sent, pc, held,
                   kind, written, status, disk, cache>>

Cancel ==
    /\ main # "idle" /\ ~cancelled[call]
    /\ cancelled' = [cancelled EXCEPT ![call] = TRUE]
    /\ UNCHANGED <<spec, call, main, result, files, hasError, sent, pc, held,
                   kind, written, status, disk, cache>>

----------------------------------------------------------------------------
(* The goroutine g of a call and a file.                                   *)
At(g, s) == pc[g] = s

Goto(g, s) == pc' = [pc EXCEPT ![g] = s]

AcquireSlot(g) ==
    /\ At(g, "acquire") /\ held < MaxParallel
    /\ held' = held + 1
    /\ Goto(g, "check")
    /\ UNCHANGED <<callVars, hasError, sent, kind, written, status, disk, cache>>

(* The context is looked at once more.  When it is done the file is Failed *)
(* and the error is sent, but hasError is not set.                         *)
CheckContext(g) ==
    /\ At(g, "check")
    /\ IF cancelled[g[1]]
       THEN UpdateFileProgress(g[2], "Failed", 0, 0) /\ Goto(g, "send")
       ELSE UNCHANGED status /\ Goto(g, "detect")
    /\ UNCHANGED <<callVars, hasError, sent, held, kind, written, disk, cache>>

(* An error of downloadSingleFile: the file is Failed, and the first error *)
(* of the call is kept.                                                    *)
Fail(g) ==
    /\ UpdateFileProgress(g[2], "Failed", 0, 0)
    /\ hasError' = [hasError EXCEPT ![g[1]] = TRUE]
    /\ Goto(g, "send")
    /\ UNCHANGED <<callVars, sent, held, kind, written, disk>>

(* Detect, from the cache.                                                 *)
DetectCached(g) ==
    /\ At(g, "detect") /\ cache[g[2]] # "none"
    /\ kind' = [kind EXCEPT ![g] = cache[g[2]]]
    /\ Goto(g, "begin")
    /\ UNCHANGED <<callVars, hasError, sent, held, written, status, disk, cache>>

setCached(f, entry) == [cache EXCEPT ![f] = entry]

(* Detect, by a HEAD request, when the cache has no entry for the file or  *)
(* one older than cacheTTL; the answer is cached, whatever its status.     *)
DetectByHead(g) ==
    /\ At(g, "detect") /\ ~cancelled[g[1]]
    /\ \E answer \in Answers(g[2]) :
           /\ kind' = [kind EXCEPT ![g] = answer]
           /\ cache' = setCached(g[2], answer)
    /\ Goto(g, "begin")
    /\ UNCHANGED <<callVars, hasError, sent, held, written, status, disk>>

(* Mutant: a failed detection marks the file and is otherwise forgotten.   *)
DetectFailsUnreported(g) ==
    /\ At(g, "detect")
    /\ UpdateFileProgress(g[2], "Failed", 0, 0)
    /\ Goto(g, "release")
    /\ UNCHANGED <<callVars, hasError, sent, held, kind, written, disk, cache>>

(* No answer to the HEAD request; the cache stays as it is.                *)
DetectFails(g) ==
    /\ At(g, "detect")
    /\ Fail(g)
    /\ UNCHANGED cache

BeginFile(g) ==
    /\ At(g, "begin")
    /\ UpdateFileProgress(g[2], "Downloading", 0, 0)
    /\ Goto(g, "fetch")
    /\ UNCHANGED <<callVars, hasError, sent, held, kind, written, disk, cache>>

(* DownloadLFS has the file in the library's cache, whatever the context;  *)
(* DownloadXet has the reconstruction of a file that is stored on Xet.     *)
Fetched(g) ==
    /\ At(g, "fetch") /\ g[2] \in Repo
    /\ kind[g] = "Xet" => Storage[g[2]] = "Xet" /\ ~cancelled[g[1]]
    /\ Goto(g, "create")
    /\ UNCHANGED <<callVars, hasError, sent, held, kind, written, status, disk, cache>>

(* os.Create makes the destination, or empties it.                         *)
CreateDest(g) ==
    /\ At(g, "create")
    /\ disk' = [disk EXCEPT ![g[2]] = {}]
    /\ written' = [written EXCEPT ![g] = 0]
    /\ Goto(g, "copy")
    /\ UNCHANGED <<callVars, hasError, sent, held, kind, status, cache>>

(* progressWriter.Write: the next block, and a report when the last one is *)
(* more than a second old.                                                 *)
WriteBlock(g) ==
    /\ At(g, "copy") /\ written[g] < Blocks
    /\ written' = [written EXCEPT ![g] = @ + 1]
    /\ disk' = [disk EXCEPT ![g[2]] = @ \cup {written[g] + 1}]
    /\ \/ UpdateFileProgress(g[2], "Downloading", written[g] + 1, Blocks)
       \/ UNCHANGED status
    /\ UNCHANGED <<callVars, hasError, sent, pc, held, kind, cache>>

(* The copy is synced, and the last report made.                           *)
SyncDest(g) ==
    /\ At(g, "copy") /\ written[g] = Blocks
    /\ UpdateFileProgress(g[2], "Downloading", Blocks, Blocks)
    /\ Goto(g, "finish")
    /\ UNCHANGED <<callVars, hasError, sent, held, kind, written, disk, cache>>

(* Any step of DownloadLFS or DownloadXet may fail; what is on disk stays. *)
StreamFails(g) ==
    /\ pc[g] \in {"fetch", "create", "copy"}
    /\ Fail(g)
    /\ UNCHANGED cache

CompleteFile(g) ==
    /\ At(g, "finish")
    /\ UpdateFileProgress(g[2], "Complete", 0, 0)
    /\ Goto(g, "release")
    /\ UNCHANGED <<callVars, hasError, sent, held, kind, written, disk, cache>>

(* Mutant: errChan has room for one error, and the next one waits.         *)
SendErrorToOne(g) ==
    /\ At(g, "send")
    /\ IF sent[g[1]] < 1
       THEN /\ sent' = [sent EXCEPT ![g[1]] = @ + 1]
            /\ Goto(g, "release")
            /\ UNCHANGED <<callVars, hasError, held, kind, written, status, disk, cache>>
       ELSE UNCHANGED vars

(* errChan has room for an error of every file; nobody receives from it    *)
(* before the goroutines have ended.                                       *)
SendError(g) ==
    /\ At(g, "send") /\ sent[g[1]] < Cardinality(files[g[1]])
    /\ sent' = [sent EXCEPT ![g[1]] = @ + 1]
    /\ Goto(g, "release")
    /\ UNCHANGED <<callVars, hasError, held, kind, written, status, disk, cache>>

(* The goroutine ends, and its variables with it.                          *)
EndGoroutine(g) ==
    /\ Goto(g, "ended")
    /\ kind' = [kind EXCEPT ![g] = "Unknown"]
    /\ written' = [written EXCEPT ![g] = 0]
    /\ UNCHANGED <<callVars, hasError, sent, status, disk, cache>>

(* Mutant: the slot is given back by a file that was completed only.       *)
ReleaseIfComplete(g) ==
    /\ At(g, "release")
    /\ held' = IF status[g[2]].Phase = "Complete" THEN held - 1 ELSE held
    /\ EndGoroutine(g)

(* The deferred receive from the semaphore and wg.Done.                    *)
Release(g) ==
    /\ At(g, "release")
    /\ held' = held - 1
    /\ EndGoroutine(g)

DownloadAll ==
    \/ ResolveFails \/ ResolveFiles \/ Spawn \/ SpawnCancelled \/ AllSpawned \/ Wait

Goroutine(g) ==
    \/ AcquireSlot(g) \/ CheckContext(g)
    \/ DetectCached(g) \/ DetectByHead(g) \/ DetectFails(g)
    \/ BeginFile(g) \/ Fetched(g) \/ CreateDest(g)
    \/ WriteBlock(g) \/ SyncDest(g) \/ StreamFails(g)
    \/ CompleteFile(g) \/ SendError(g) \/ Release(g)

(* The caller is done with its calls, and nothing runs any more.           *)
AllEnded ==
    /\ main = "idle" /\ call = MaxCalls /\ \A c \in Calls : Ended(c)
    /\ UNCHANGED vars

Next ==
    \/ Call \/ Cancel \/ DownloadAll
    \/ \E g \in Goroutines : Goroutine(g)
    \/ AllEnded

(* DownloadAll and its goroutines are scheduled, and every request and     *)
(* every write comes back, with an answer or an error.                     *)
Spec ==
    /\ Init /\ [][Next]_vars
    /\ WF_vars(DownloadAll)
    /\ \A g \in Goroutines : WF_vars(Goroutine(g))

----------------------------------------------------------------------------
OnDisk(f) == disk[f] = 1 .. Blocks

(* Nobody has cancelled: every goroutine belongs to the current call.      *)
Undisturbed == \A c \in Calls : ~cancelled[c]

(* When DownloadAll returns nil all files of its list, those the caller    *)
(* named and the repository does not have included, are Complete and their *)
(* data is on disk; when it returns an error some file is Failed, and what *)
(* is Complete is on disk.  Cancellation is exempt: it makes files Failed  *)
(* under a nil, and goroutines of an earlier call may still write.         *)
ResultTruthful ==
    main = "idle" /\ call > 0 /\ Undisturbed =>
        LET entries == {status[f] : f \in files[call]}
        IN /\ result[call] = "nil" => \A e \in entries : e.Phase = "Complete"
           /\ result[call] = "error" => \E e \in entries : e.Phase = "Failed"
           /\ result[call] \in {"nil", "error"} =>
                  \A f \in files[call] : status[f].Phase = "Complete" => OnDisk(f)

(* Only the early return of a cancelled call leaves goroutines behind: a   *)
(* call that has returned nil or an error has nothing running that would   *)
(* write to the directory or to the Status after it.                       *)
ReturnsAfterAll ==
    \A c \in Calls : result[c] \in {"nil", "error"} => Ended(c)

(* The two selections agree: the manager selects nothing the resolver does *)
(* not, and what the resolver selects beyond it is missing from the        *)
(* repository or has a part that is excluded.                              *)
SelectionsAgree ==
    main = "spawn" /\ ~resolveFilesFails(spec) =>
        /\ resolveFiles(spec) \subseteq files[call]
        /\ \A f \in files[call] \ resolveFiles(spec) :
               f \notin Repo \/ \E p \in spec.Exclude, s \in Parts[f] : Match(p, s)

(* Every call returns and every goroutine ends, those that were left       *)
(* behind too: nobody waits for ever for a slot or for room in errChan.    *)
EveryDownloadEnds ==
    \A c \in Calls : call >= c ~> result[c] # "none" /\ Ended(c)
=============================================================================
