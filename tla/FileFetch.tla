---- MODULE FileFetch ----
(***************************************************************************)
(* One file of a model brought to disk: Manager.downloadFile with the      *)
(* chunked downloader, the resumed download and the fresh one it falls     *)
(* back to.  A byte is named by its offset in the remote file; a file on   *)
(* disk is the sequence of the bytes it holds, Hole where nobody wrote.    *)
(*                                                                         *)
(* Download in chunked.go returns at the first error of a worker.  The     *)
(* other workers are not cancelled: they go on pulling chunks and writing  *)
(* part files while the caller falls back, fails, and is called again.     *)
(***************************************************************************)
EXTENDS Integers, Sequences, FiniteSets

CONSTANTS FileSize, ChunkSize, MultipartThreshold,
          MaxWorkers, MaxRetries,
          MaxCalls,     \* bound: how often the file is asked for
          Overlap,      \* may a call begin while workers of an earlier one run?
          IgnoresRange, \* may the server answer a Range request with the whole file?
          Absent        \* no such file

ASSUME FetchConstants ==
    /\ FileSize \in Nat \ {0} /\ ChunkSize \in Nat \ {0}
    /\ MultipartThreshold \in Nat
    /\ MaxWorkers \in Nat \ {0} /\ MaxRetries \in Nat /\ MaxCalls \in Nat
    /\ Overlap \in BOOLEAN /\ IgnoresRange \in BOOLEAN
    /\ Absent \notin Seq(Int)

VARIABLES phase,      \* where downloadFile is; "idle": not running
          calls,      \* calls begun
          cancelled,  \* calls whose context was cancelled
          result,     \* what the last call returned
          file,       \* localPath
          body,       \* the next byte of the response written to localPath
          tmp,        \* localPath.part
          parts,      \* localPath.part-NN, by chunk index
          asm,        \* parts assembled, or removed, so far
          queue,      \* chunkCh of each call: the first chunk still in it
          failed,     \* calls with an error in errCh
          worker      \* the goroutines, by call and number

vars == <<phase, calls, cancelled, result, file, body, tmp, parts, asm,
          queue, failed, worker>>
disk == <<file, tmp, parts>>

Hole == -1
NoWorker == [pc |-> "off", chunk |-> 0, attempt |-> 0, pos |-> 0, next |-> 0,
             last |-> 0, linked |-> FALSE]
BetweenChunks == [NoWorker EXCEPT !.pc = "next"]
Pool == (1..MaxCalls) \X (1..MaxWorkers)

------------------------------------------------------------------------------
(* computeChunks *)

ChunkCount(size, chunkSize) ==
    LET count == (size + chunkSize - 1) \div chunkSize
    IN  IF count <= 0 THEN 1 ELSE count

ChunkStart(k, chunkSize) == k * chunkSize

ChunkEnd(k, size, chunkSize) ==
    LET end == ChunkStart(k, chunkSize) + chunkSize - 1
    IN  IF end >= size THEN size - 1 ELSE end

NumChunks == ChunkCount(FileSize, ChunkSize)
Chunks == 0..(NumChunks - 1)
Start(k) == ChunkStart(k, ChunkSize)
End(k) == ChunkEnd(k, FileSize, ChunkSize)
ExpectedSize(k) == End(k) - Start(k) + 1

\* The bytes of chunk k, in their order.
ChunkBytes(k) == [i \in 1..ExpectedSize(k) |-> Start(k) + i - 1]
Prefix(n) == [i \in 1..n |-> i - 1]
Whole == Prefix(FileSize)

\* A write at offset pos through a handle of its own: what lies between the
\* end of the file and pos is a hole.
WriteAt(s, pos, byte) ==
    LET len == IF Len(s) > pos THEN Len(s) ELSE pos + 1
    IN  [i \in 1..len |-> IF i = pos + 1 THEN byte
                          ELSE IF i <= Len(s) THEN s[i] ELSE Hole]

------------------------------------------------------------------------------
FetchInit ==
    /\ phase = "idle" /\ calls = 0 /\ cancelled = {} /\ result = "none"
    /\ file = Absent /\ body = 0 /\ tmp = Absent
    /\ parts = [k \in Chunks |-> Absent]
    /\ asm = 0 /\ queue = [c \in 1..MaxCalls |-> 0] /\ failed = {}
    /\ worker = [p \in Pool |-> NoWorker]

Running(p) == worker[p].pc # "off"
WorkersOf(c) == {p \in Pool : p[1] = c /\ Running(p)}
NobodyRuns == \A p \in Pool : ~Running(p)

Chunked == <<tmp, parts, asm, queue, failed, worker>>

(***************************************************************************)
(* downloadFile: Xet first, then the chunked download, then a resumed one, *)
(* then a fresh one.                                                       *)
(***************************************************************************)
Begin ==
    /\ phase = "idle" /\ calls < MaxCalls
    /\ Overlap \/ NobodyRuns
    /\ phase' = "xet" /\ calls' = calls + 1 /\ result' = "none"
    /\ UNCHANGED <<cancelled, file, body>> /\ UNCHANGED Chunked

\* Status.Cancel of the job the call belongs to, also after it has returned.
Cancel ==
    /\ calls > 0 /\ calls \notin cancelled
    /\ cancelled' = cancelled \cup {calls}
    /\ UNCHANGED <<phase, calls, result, file, body>> /\ UNCHANGED Chunked

\* No Xet file id, no reconstruction, or a block that could not be fetched.
XetFails ==
    /\ phase = "xet" /\ phase' = "head"
    /\ UNCHANGED <<calls, cancelled, result, file, body>> /\ UNCHANGED Chunked

\* os.WriteFile of the reconstructed bytes truncates the file first.
XetWrites ==
    /\ phase = "xet" /\ phase' = "xet_copy"
    /\ file' = <<>> /\ body' = 0
    /\ UNCHANGED <<calls, cancelled, result>> /\ UNCHANGED Chunked

Copying == phase \in {"xet_copy", "resume_copy", "fresh_copy"}

\* io.Copy, or the write of os.WriteFile: the next byte goes to the end.
CopyByte ==
    /\ Copying /\ body < FileSize
    /\ file' = Append(file, body) /\ body' = body + 1
    /\ UNCHANGED <<phase, calls, cancelled, result>> /\ UNCHANGED Chunked

CopyDone ==
    /\ Copying /\ body = FileSize
    /\ phase' = "idle" /\ result' = "ok" /\ body' = 0
    /\ UNCHANGED <<calls, cancelled, file>> /\ UNCHANGED Chunked

\* Mutant: the error of the last download is lost.
CopyFailsUnnoticed ==
    /\ Copying
    /\ phase' = CASE phase = "xet_copy" -> "head"
                  [] phase = "resume_copy" -> "fresh"
                  [] phase = "fresh_copy" -> "idle"
    /\ result' = IF phase = "fresh_copy" THEN "ok" ELSE result
    /\ body' = 0
    /\ UNCHANGED <<calls, cancelled, file>> /\ UNCHANGED Chunked

\* The response breaks off, or the write or its sync fails.  A body that
\* stalls breaks off too: in ResumeDownloadFile the stall reader cancels the
\* context that the request carries.
CopyFails ==
    /\ Copying
    /\ phase' = CASE phase = "xet_copy" -> "head"
                  [] phase = "resume_copy" -> "fresh"
                  [] phase = "fresh_copy" -> "idle"
    /\ result' = IF phase = "fresh_copy" THEN "err" ELSE result
    /\ body' = 0
    /\ UNCHANGED <<calls, cancelled, file>> /\ UNCHANGED Chunked

\* tryResumeDownload without a file, or with an empty one; or the file
\* cannot be opened, or the request fails.
ResumeFails ==
    /\ phase = "resume" /\ phase' = "fresh"
    /\ UNCHANGED <<calls, cancelled, result, file, body>> /\ UNCHANGED Chunked

\* A Range request from the end of the local file.  416 at or past the end
\* of the remote file counts as "already complete".
Resumes ==
    /\ phase = "resume" /\ file # Absent
    /\ Len(file) > 0
    /\ IF Len(file) >= FileSize
       THEN phase' = "idle" /\ result' = "ok" /\ UNCHANGED body
       ELSE /\ phase' = "resume_copy"
            /\ body' \in {Len(file)} \cup (IF IgnoresRange THEN {0} ELSE {})
            /\ UNCHANGED result
    /\ UNCHANGED <<calls, cancelled, file>> /\ UNCHANGED Chunked

\* os.Create and the whole file.
Fresh ==
    /\ phase = "fresh"
    /\ phase' = "fresh_copy" /\ file' = <<>> /\ body' = 0
    /\ UNCHANGED <<calls, cancelled, result>> /\ UNCHANGED Chunked

FreshFails ==
    /\ phase = "fresh" /\ phase' = "idle" /\ result' = "err"
    /\ UNCHANGED <<calls, cancelled, file, body>> /\ UNCHANGED Chunked

\* The server takes the request and sends no header: client.Do has no
\* time-out, and the stall reader is made only after it has returned.
NoHeader ==
    /\ \/ /\ phase = "resume" /\ file # Absent
          /\ Len(file) > 0
          /\ phase' = "resume_wait" /\ UNCHANGED file
       \/ phase = "fresh" /\ phase' = "fresh_wait" /\ file' = <<>>
    /\ UNCHANGED <<calls, cancelled, result, body>> /\ UNCHANGED Chunked

\* The context of the call is cancelled, or the connection breaks.
HeaderFails ==
    /\ \/ phase = "resume_wait" /\ phase' = "fresh" /\ UNCHANGED result
       \/ phase = "fresh_wait" /\ phase' = "idle" /\ result' = "err"
    /\ UNCHANGED <<calls, cancelled, file, body>> /\ UNCHANGED Chunked

------------------------------------------------------------------------------
(* chunkedDownloader.Download, on the goroutine of the caller *)

\* The HEAD request fails, or there is no Range support, or the file is
\* below the threshold: the caller falls back.
HeadRefuses ==
    /\ phase = "head" /\ phase' = "resume"
    /\ UNCHANGED <<calls, cancelled, result, file, body>> /\ UNCHANGED Chunked

\* The chunks go into the channel and the workers start.
HeadAccepts ==
    /\ phase = "head" /\ FileSize >= MultipartThreshold
    /\ phase' = "chunked"
    /\ queue' = [queue EXCEPT ![calls] = 0]
    /\ worker' = [p \in Pool |-> IF p[1] = calls /\ p[2] <= NumChunks
                                 THEN BetweenChunks
                                 ELSE worker[p]]
    /\ UNCHANGED <<calls, cancelled, result, file, body, tmp, parts, asm, failed>>

\* The first error out of errCh ends Download; the workers are left alone.
CollectError ==
    /\ phase = "chunked" /\ calls \in failed
    /\ phase' = "resume"
    /\ UNCHANGED <<calls, cancelled, result, file, body>> /\ UNCHANGED Chunked

\* errCh is closed and empty: os.Create of the temp file.
CollectAll ==
    /\ phase = "chunked" /\ calls \notin failed /\ WorkersOf(calls) = {}
    /\ phase' = "assemble" /\ tmp' = <<>> /\ asm' = 0
    /\ UNCHANGED <<calls, cancelled, result, file, body, parts, queue, failed, worker>>

AssemblePart ==
    /\ phase = "assemble" /\ asm < NumChunks /\ parts[asm] # Absent
    /\ tmp' = tmp \o parts[asm] /\ asm' = asm + 1
    /\ UNCHANGED <<phase, calls, cancelled, result, file, body, parts, queue, failed, worker>>

\* A part is not there, or cannot be copied; or the sync or rename fails.
AssembleFails ==
    /\ phase = "assemble" /\ phase' = "resume"
    /\ UNCHANGED <<calls, cancelled, result, file, body>> /\ UNCHANGED Chunked

Rename ==
    /\ phase = "assemble" /\ asm = NumChunks
    /\ phase' = "cleanup" /\ file' = tmp /\ tmp' = Absent /\ asm' = 0
    /\ UNCHANGED <<calls, cancelled, result, body, parts, queue, failed, worker>>

\* os.Remove of a part; a handle still open on it writes to a file without a name.
CleanupPart ==
    /\ phase = "cleanup" /\ asm < NumChunks
    /\ parts' = [parts EXCEPT ![asm] = Absent]
    /\ worker' = [p \in Pool |-> IF worker[p].chunk = asm
                                 THEN [worker[p] EXCEPT !.linked = FALSE]
                                 ELSE worker[p]]
    /\ asm' = asm + 1
    /\ UNCHANGED <<phase, calls, cancelled, result, file, body, tmp, queue, failed>>

CleanupDone ==
    /\ phase = "cleanup" /\ asm = NumChunks
    /\ phase' = "idle" /\ result' = "ok" /\ asm' = 0
    /\ UNCHANGED <<calls, cancelled, file, body, tmp, parts, queue, failed, worker>>

------------------------------------------------------------------------------
(* The workers: downloadChunkWithRetry around downloadChunk *)

Caller == <<phase, calls, cancelled, result, file, body, tmp, asm>>

\* Mutant: one chunk too many.
TakeChunkTooMany(p) ==
    /\ worker[p].pc = "next" /\ queue[p[1]] <= NumChunks
    /\ worker' = [worker EXCEPT ![p] = [NoWorker EXCEPT !.pc = "stat", !.chunk = queue[p[1]]]]
    /\ queue' = [queue EXCEPT ![p[1]] = @ + 1]
    /\ UNCHANGED Caller /\ UNCHANGED <<parts, failed>>

\* The next chunk out of the channel, or the end when it is empty.
TakeChunk(p) ==
    /\ worker[p].pc = "next"
    /\ IF queue[p[1]] < NumChunks
       THEN /\ worker' = [worker EXCEPT ![p] = [NoWorker EXCEPT !.pc = "stat", !.chunk = queue[p[1]]]]
            /\ queue' = [queue EXCEPT ![p[1]] = @ + 1]
       ELSE worker' = [worker EXCEPT ![p] = NoWorker] /\ UNCHANGED queue
    /\ UNCHANGED Caller /\ UNCHANGED <<parts, failed>>

\* A part of the expected size is taken for a finished one.
PartIsThere(k) == parts[k] # Absent /\ Len(parts[k]) = ExpectedSize(k)

StatPart(p) ==
    /\ worker[p].pc = "stat"
    /\ worker' = [worker EXCEPT ![p] =
                     IF PartIsThere(worker[p].chunk) THEN BetweenChunks
                                                     ELSE [worker[p] EXCEPT !.pc = "get"]]
    /\ UNCHANGED Caller /\ UNCHANGED <<parts, queue, failed>>

\* Mutant: the part is opened for appending, the range not shortened.
GetChunkAppends(p) ==
    LET k == worker[p].chunk
        old == IF parts[k] = Absent THEN <<>> ELSE parts[k]
    IN  /\ worker[p].pc = "get"
        /\ parts' = [parts EXCEPT ![k] = old]
        /\ worker' = [worker EXCEPT ![p] =
               [pc |-> "copy", chunk |-> k, attempt |-> worker[p].attempt, pos |-> Len(old),
                next |-> Start(k), last |-> End(k), linked |-> TRUE]]
        /\ UNCHANGED Caller /\ UNCHANGED <<queue, failed>>

\* 206 with the range, or 200 with the whole file; os.Create truncates.
GetChunk(p) ==
    LET k == worker[p].chunk
    IN  /\ worker[p].pc = "get"
        /\ parts' = [parts EXCEPT ![k] = <<>>]
        /\ \E whole \in {FALSE, IgnoresRange} :
              worker' = [worker EXCEPT ![p] =
                  [pc |-> "copy", chunk |-> k, attempt |-> worker[p].attempt, pos |-> 0,
                   next |-> IF whole THEN 0 ELSE Start(k),
                   last |-> IF whole THEN FileSize - 1 ELSE End(k), linked |-> TRUE]]
        /\ UNCHANGED Caller /\ UNCHANGED <<queue, failed>>

WriteByte(p) ==
    LET w == worker[p]
    IN  /\ w.pc = "copy" /\ w.next <= w.last
        /\ parts' = IF w.linked
                    THEN [parts EXCEPT ![w.chunk] = WriteAt(parts[w.chunk], w.pos, w.next)]
                    ELSE parts
        /\ worker' = [worker EXCEPT ![p].pos = w.pos + 1, ![p].next = w.next + 1]
        /\ UNCHANGED Caller /\ UNCHANGED <<queue, failed>>

ChunkDone(p) ==
    /\ worker[p].pc = "copy" /\ worker[p].next > worker[p].last
    /\ worker' = [worker EXCEPT ![p] = BetweenChunks]
    /\ UNCHANGED Caller /\ UNCHANGED <<parts, queue, failed>>

\* The server sends no header, or no more of the body.  The stall reader
\* cancels a context that the request of the chunk does not carry, and the
\* client has no time-out: the attempt waits on.
ResponseStalls(p) ==
    /\ \/ worker[p].pc = "get"
       \/ worker[p].pc = "copy" /\ worker[p].next <= worker[p].last
    /\ worker' = [worker EXCEPT ![p].pc = "stalled"]
    /\ UNCHANGED Caller /\ UNCHANGED <<parts, queue, failed>>

\* Mutant: the attempts are not counted.
AttemptFailsAgain(p) ==
    /\ worker[p].pc \in {"get", "copy", "stalled"}
    /\ IF p[1] \in cancelled \/ worker[p].attempt = MaxRetries
       THEN worker' = [worker EXCEPT ![p] = NoWorker] /\ failed' = failed \cup {p[1]}
       ELSE /\ worker' = [worker EXCEPT ![p] = [NoWorker EXCEPT
                             !.pc = "sleep", !.chunk = worker[p].chunk]]
            /\ UNCHANGED failed
    /\ UNCHANGED Caller /\ UNCHANGED <<parts, queue>>

\* The request, the copy or the sync fails: another attempt after a pause,
\* unless the context is cancelled or the attempts are used up.
AttemptFails(p) ==
    /\ worker[p].pc \in {"get", "copy", "stalled"}
    /\ IF p[1] \in cancelled \/ worker[p].attempt = MaxRetries
       THEN worker' = [worker EXCEPT ![p] = NoWorker] /\ failed' = failed \cup {p[1]}
       ELSE /\ worker' = [worker EXCEPT ![p] = [NoWorker EXCEPT
                             !.pc = "sleep", !.chunk = worker[p].chunk,
                             !.attempt = worker[p].attempt + 1]]
            /\ UNCHANGED failed
    /\ UNCHANGED Caller /\ UNCHANGED <<parts, queue>>

\* sleepCtx: the timer fires, or the context is cancelled.
WakeUp(p) ==
    /\ worker[p].pc = "sleep"
    /\ worker' = [worker EXCEPT ![p].pc = "stat"]
    /\ UNCHANGED Caller /\ UNCHANGED <<parts, queue, failed>>

SleepCancelled(p) ==
    /\ worker[p].pc = "sleep" /\ p[1] \in cancelled
    /\ worker' = [worker EXCEPT ![p] = NoWorker]
    /\ failed' = failed \cup {p[1]}
    /\ UNCHANGED Caller /\ UNCHANGED <<parts, queue>>

WorkerStep(p) ==
    \/ TakeChunk(p) \/ StatPart(p) \/ GetChunk(p) \/ WriteByte(p)
    \/ ResponseStalls(p) \/ ChunkDone(p) \/ AttemptFails(p)
    \/ WakeUp(p) \/ SleepCancelled(p)

------------------------------------------------------------------------------
\* The process dies: the goroutines are gone, the files stay.
Crash ==
    /\ phase # "idle" \/ ~NobodyRuns
    /\ phase' = "idle" /\ body' = 0 /\ asm' = 0
    /\ worker' = [p \in Pool |-> NoWorker]
    /\ UNCHANGED <<calls, cancelled, result, queue, failed>> /\ UNCHANGED disk

CallerStep ==
    \/ XetFails \/ XetWrites \/ CopyByte \/ CopyDone \/ CopyFails
    \/ HeadRefuses \/ HeadAccepts \/ CollectError \/ CollectAll
    \/ AssemblePart \/ AssembleFails \/ Rename \/ CleanupPart \/ CleanupDone
    \/ ResumeFails \/ Resumes \/ Fresh \/ FreshFails \/ NoHeader \/ HeaderFails

FetchNext == Begin \/ Cancel \/ CallerStep \/ (\E p \in Pool : WorkerStep(p)) \/ Crash

FetchSpec == FetchInit /\ [][FetchNext]_vars

\* Who waits for a server that has gone silent, with nothing in the process
\* to end the wait: only a cancellation does.
Hangs(p) == worker[p].pc = "stalled" /\ p[1] \notin cancelled
CallerHangs == phase \in {"resume_wait", "fresh_wait"} /\ calls \notin cancelled

\* The scheduler runs every goroutine, and the network goes on with a response
\* until it ends, breaks off or goes silent; the HEAD request and those of the
\* Xet attempt have time-outs.  Nothing makes a goroutine that hangs go on:
\* its connection may break, or not.
FetchFairness ==
    /\ WF_vars(~CallerHangs /\ CallerStep)
    /\ \A p \in Pool : WF_vars(~Hangs(p) /\ WorkerStep(p))

FairFetchSpec == FetchSpec /\ FetchFairness

------------------------------------------------------------------------------
(* Properties *)

Phases == {"idle", "xet", "xet_copy", "head", "chunked", "assemble", "cleanup",
           "resume", "resume_wait", "resume_copy", "fresh", "fresh_wait", "fresh_copy"}
Bytes == Hole..(FileSize - 1)
Content == {Absent} \cup Seq(Bytes)
WorkerState ==
    [pc : {"off", "next", "stat", "get", "copy", "stalled", "sleep"}, chunk : Chunks,
     attempt : 0..MaxRetries, pos : 0..FileSize, next : 0..FileSize,
     last : 0..(FileSize - 1), linked : BOOLEAN]

\* Every variable keeps its type; what downloadFile appends to is there.
FetchTypeOK ==
    /\ phase \in Phases /\ calls \in 0..MaxCalls /\ cancelled \subseteq 1..MaxCalls
    /\ result \in {"none", "ok", "err"}
    /\ file \in Content /\ tmp \in Content /\ parts \in [Chunks -> Content]
    /\ body \in 0..FileSize /\ asm \in 0..NumChunks
    /\ queue \in [1..MaxCalls -> 0..NumChunks] /\ failed \subseteq 1..MaxCalls
    /\ worker \in [Pool -> WorkerState]
    /\ Copying => file # Absent

\* A fetch that answered success left the whole file: no part skipped as
\* already complete was short or had holes, the parts were joined in their
\* order, a resumed file continued where the partial one ended.
Delivered == phase = "idle" /\ result = "ok" => file = Whole

\* A part of the expected size holds its chunk, also when it was left by a
\* call that failed or by a process that died: the next call skips it.
SkippedPartIsComplete ==
    \A k \in Chunks : PartIsThere(k) => parts[k] = ChunkBytes(k)

\* downloadFile is a FileDelivery: the file is a prefix of the remote one at
\* every moment, whole after a success, and not touched between two calls,
\* whatever workers are still running then.
Delivery == INSTANCE FileDelivery WITH fetching <- phase # "idle"
IsDelivery == Delivery!Spec

Busy == phase # "idle" \/ ~NobodyRuns

\* A call returns and its goroutines end, unless one of them waits for a
\* silent server and the call is not cancelled: nothing else can hang, and
\* nothing goes round for ever.  No error blocks the worker that reports it,
\* the retries and the fallbacks come to an end, a cancellation reaches
\* whoever hangs, and so do the workers a failed call left behind.
OnlySilenceHangs == Busy ~> (~Busy \/ CallerHangs \/ \E p \in Pool : Hangs(p))
====
