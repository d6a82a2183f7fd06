# Verification of the inference budget controller

The inference budget controller is a Kubernetes operator and an HTTP proxy in
one process. A user declares `InferenceModel` objects; a request for a model
that has no pod makes the proxy create one, if the memory budget allows it;
idle pods are deleted again, by the controller after a cooldown or by the proxy
when another model needs the memory. Before a model can run, its files are
downloaded from Hugging Face into a directory that a `.ready` marker declares
complete. This directory holds TLA+ modules that model both halves, TLC
configurations that check small instances, and TLAPS proofs of what holds for
every number of models, requests, pools, units of memory, jobs and files.

    tlc -workers 2 -config MCProxy.cfg MCProxy      # one run
    tlapm ProxyProofs.tla                           # one proof module

## 1. Inventory

| part | source | state | operations |
|---|---|---|---|
| memory budget tracker | `internal/budget/tracker.go` | `nodeBudgets` (total and allocated per pool), `allocations` per model | `CanAllocate`, `Allocate`, `SyncAllocation`, `ReleaseModel`, `SetNodeBudget`, `GetBlockingModels`, `GetTotalAllocatedMemory`, `RecordUsage`, `GetUtilization` |
| deployment registry | `internal/registry/registry.go` | one entry per model: state, active requests, last request | `SetState`, `Get`, `RecordRequest`, `FinishRequest`, `Delete`, `GetIdleEntriesSorted` |
| inference proxy | `internal/proxy/handler.go`, `server.go` | `deploymentMutex` (a map of mutexes), locals of each request | the two pass-through handlers, `ensureDeployment`, `waitForPodReady`, `tryEvictIdleModelsForGlobalLimit`, forwarding |
| InferenceModel controller | `internal/controller/inferencemodel_controller.go` | the status and annotations it writes | `Reconcile`, `handleDeletion`, `handleIdleScaling`, `deleteIdlePod`, `updateStatus`, `handleDownload` |
| process | `cmd/main.go` | - | wires the parts; a restart loses tracker, registry and mutexes |
| download manager | `internal/download/manager.go`, `status.go` | `downloads` by the name of the model, a semaphore, the files on disk | `Download`, `performDownload`, `Cancel`, `RemoveStatus` |
| fetch of one file | `internal/download/manager.go`, `chunked.go`, `internal/huggingface/client.go` | the file, its `.part` files, the workers | `downloadFile`: Xet, then chunks in parallel, then resume, then a fresh download |
| files and cache | `internal/download/file_ops.go`, `cache.go` | manifest, `.ready` marker, time to live | write, verify (lengths, and the headers of GGUF files), clean up |
| Xet storage | `internal/xet` | a cached token with its mutex, one lz4 reader | `Download`, `DownloadToWriter`, `DownloadMultiple`: terms, chunks, decompression |
| progress and status | `internal/download/progress.go`, `status_updater.go` | counters of bytes | speeds and throttled writes |
| files in parallel | `internal/download/{multi_file,detector,resolver,stream,spec}.go` | a semaphore, the entries of the `Status`, a cache of detections | `Resolve` (which files), `Detect` (where they are stored), `DownloadAll`, `DownloadLFS`, `DownloadXet` |
| metrics, API types, web UI, pod layout | `internal/metrics`, `api/v1alpha1`, `internal/proxy/{openai,props,webui}.go` | - | write-only counters, data types, pages |

How they interact. The proxy (one goroutine per HTTP request) and the
controller (one reconcile worker) share the tracker and the registry, each of
which has its own lock for each call and none across calls. Both change pods
through the API server and read them from a cache that lags behind it. The
controller learns of the proxy's work only through `ActiveRequests` in the
registry and through the pods; the proxy learns of the controller's work only
through the state in the registry. The controller starts a download in a
goroutine of the manager and polls its status at every reconcile; a file comes
over one of four ways, each of which may leave a partial file to the next; the
cleaner, a goroutine of its own, removes directories that look unused.
`MultiFileDownloader` is a second downloader of the same package, with a choice
of files, a semaphore and a streaming of its own; it shares the `Status` type
and the Xet client with the manager, and only tests call it so far.

What is hard. Every decision of the proxy is a check in one call and an action
in a later one: the total is read before memory is taken, idle entries are
listed before pods are deleted, a pod is created before its memory is
allocated. Every error path must undo what came before it. Waits are ended by
timers and by clients that go away. The controller deletes entries and
allocations while requests are using them. A restart loses the accounting but
not the pods. A download that fails leaves files, part files, workers and
statuses behind, which a retry must neither trust too much nor trip over; one
Xet downloader, with one decompressor, serves all of them. Whether a file is
whole is decided from numbers inside the file. `PROJECT.json` lists these
hazards by line.

What makes each part correct.

- *Tracker*: the counter of a pool is what its models hold; a granted
  allocation stays within the total; the admission test and the allocation
  agree; a refusal can name who is in the way.
- *Registry and proxy*: a request counts as active until it ends, on every
  path; mutexes leave the map; a model that is shown as Ready is accounted for;
  running pods stay within the limit; no pod is made twice or deleted under a
  request; every request is answered.
- *Controller*: idle pods go, deleted models leave nothing behind, a model
  without a pod gives its memory back, and after a restart the budget is
  rebuilt.
- *Downloads*: one goroutine writes a directory; the marker stands over complete
  files only; every model that stays gets downloaded in the end.
- *A fetch*: success means the whole file, whatever earlier attempts left; every
  call and every worker ends, also when a server falls silent.
- *Xet*: success means the file byte for byte; a failure leaves a prefix of it.
- *Verification*: a file that is cut off is noticed, a whole one is never
  refused, and the reader ends whatever the header says.
- *Files in parallel*: what a call returns agrees with the status and the disk;
  slots and goroutines are given back; the two choices of files mean the same.

## 2. Modules

| module | models |
|---|---|
| `ModelKeys` | the set of models, named by namespace and name |
| `Tracker` | the tracker; one action per mutating method, each atomic under its lock |
| `Registry` | the registry; operators on `entries`, each atomic under its lock |
| `Cluster` | external: pods, the lagging cache, the life of an InferenceModel, from the calls the code makes |
| `Proxy` | requests: `EXTENDS Tracker, Registry, Cluster`; one action per call on shared state |
| `Reconciler` | the controller's worker, in the same grain |
| `System` | proxy, controller, cluster, user and restarts together |
| `FileDelivery` | what a fetch promises: an abstract specification of one file |
| `FileFetch` | `downloadFile`, shown to implement `FileDelivery` |
| `Downloads` | the manager's jobs, the controller's download branch, the directories, the cleaner |
| `Xet` | downloads from Xet storage on one shared `Downloader` |
| `Gguf` | `validateGGUFHeader`: the walk through a header and the check of the bounds |
| `GgufFormat` | external: how long a GGUF header is and where its data lies; the lemmas' reference for `Gguf` |
| `FileSelection` | the two choices of files, as operators: `FileResolver.Resolve` and `Manager.resolveFiles` |
| `MultiFile` | `DownloadAll` with its goroutines, the `Detector` and the streaming to disk: `EXTENDS FileSelection` |
| `MCTracker`, `MCProxy`, `MCSystem`, `MCFileFetch`, `MCDownloads`, `MCXet`, `MCGguf`, `MCMultiFile` | the instances TLC checks |
| `TrackerProofs`, `ProxyProofs`, `SystemProofs`, `DownloadsProofs`, `MultiFileProofs`, `FileFetchProofs`, `XetProofs`, `GgufProofs` | theorems and lemmas |

**Tracker.** `nodeSelectorKey` takes the first entry of a range over a Go map,
which is any label of the selector: the operator returns the *set* of possible
keys, `{"default"}` for an empty selector, and each call chooses one. Memory is
counted in units up to `MaxMemory`. `allocations[m]` and `nodeBudgets[p]` are
records, or the model values `NoAllocation` and `NoBudget` for a missing key.
`Allocate(m, mem, selector, ok)` has `ok` as the result of the call. The sum of
memories is the cardinality of a set of (model, unit) pairs, which needs no
recursion and is what the proofs reason about.

**Registry.** `LastRequest` times are kept as the relation `older`: all that
`GetIdleEntriesSorted` uses is their order. That operator returns the set of
sorted sequences of some of the idle entries, as the minimum idle time may
leave out recent ones. No code sets `StateDeleting`, so it does not occur.

**Cluster.** A pod is `none`, `starting`, `ready` or `stopping`; a deleted pod
keeps its Ready condition until it is gone, and a `Create` meanwhile finds that
it already exists. `Faults` switches on a lagging cache (`staleCache`), calls
whose answer is an error although they took effect (`lostAnswer`), and pods
that go away by themselves (`vanish`). API calls may always fail without effect
where the code has an error path.

**Proxy.** `pc[q]` is where request `q` is; `job[q]` the spec it has read, which
may be out of date later; `mu[q]` the mutex it uses, named by the request that
stored it; `evict[q]` the locals of the eviction loop. The mutex code is
modelled to the letter: `LoadOrStore`, `Lock`, `Unlock` and, after it,
`Delete(key)` of whatever mutex the key then holds. `waitForPodReady` is called
with and without the mutex; its actions return to the caller by `mu[q]`. One
tick of its poll is `PollReady`; the time-out and the client's cancellation are
actions that may always come first.

**Reconciler.** `rpc` is where the worker is, `rview` what it has read of the
status and the pod. The cooldown clock is left open: `WithinCooldown` and
`CooldownOver` are both possible. A status write that is refused because the
object was read too early is one of the ways a write fails.

**System.** Composes both; every action of one leaves the variables of the
other alone. `Restart` empties what `main` builds anew and ends all requests.

**FileFetch.** A byte is named by its offset in the remote file, so that a byte
in the wrong place shows; a file on disk is a sequence of such bytes. `phase` is
where the call of `downloadFile` is, from the Xet attempt over the chunks and
the assembly to the resumed and the fresh download. Every worker belongs to the
call that started it and goes on after that call has returned, as nothing in
`chunked.go` stops it. Parts are written byte by byte, so that a failure, a
cancellation or a crash of the process may come between any two of them. A server
may fall silent: `ResponseStalls` leaves a worker waiting for the header or for
more of its chunk, `NoHeader` the caller for the header of the resumed or the
fresh download. From there only `AttemptFails` and `HeaderFails` lead on, by a
cancellation or a connection that breaks. A body of the resumed or the fresh
download that stalls is one of the ways in which `CopyFails`, since there the stall
reader cancels the context the request carries.
`FileDelivery` knows only an outcome and whether the file is whole; the
refinement mapping forgets everything else.

**Downloads.** `tracked[m]` is the job whose `Status` the manager keeps under the
name of the model, `job` the goroutines themselves: a job that was forgotten or
cancelled may still run. A directory holds for each file `none`, `part` or
`whole`, a manifest and a marker; how a file gets whole is `FileFetch`, and here
a fetch does what `FileDelivery` promises. The controller's branch
(`needsDownload`, `handleDownload`, the retry annotation) is one action per call
that changes state, and so is the cleaner: it lists the models, then looks at
directories, then removes.

**Xet.** `dl[d]` holds the locals of the goroutine of download `d`: where it is,
the term, the chunk and the bytes read so far. `reader` is the one lz4 reader of
the `Decompressor`: `ResetReader` and each `Read` are steps of their own, as the
code makes them without a lock. A frame of lz4 is what it decompresses to; byte
grouping is modelled byte by byte, in both directions. `GetAuthToken` takes the
mutex and keeps it while the token is fetched.

**Gguf.** A file is a record of what its header holds and of where its writer put
the data; the reader sees the header only, and the file may be shorter than the
record says. `pos` is what the reader has consumed and `bytesRead` what it has
counted: the code finds the start of the data from the count. The recursion of
`skipGGUFMetadataValue` is the list `work` of values that are still to be
skipped. Header numbers are words of `W` bits; `Uint64` and `Int64` are the
wrapping and the conversion, and every product and sum of the code goes through
them. `GgufFormat` says what a file with given pairs, values and tensors looks
like, as assumptions on `Docs` that TLC evaluates in the run: a value takes what
stands before its items and the items (`ValuesEncoded`, an equation instead of a
recursive definition), and a file whose numbers do not wrap has its data where
the header ends, padded to the alignment (`DocsLaidOut`). A file is
`wellFormed` only if it keeps within the reader's limits (`DocsWellFormed`).

**FileSelection and MultiFile.** A name is a string, a pattern the set of what it
matches, as `filepath.Match` is external. The resolver sorts its list, which only
decides the order in which goroutines are started; the list is a set, and the
order is left open. Of the goroutine `<<c, f>>` of call `c`
and file `f`, `pc` says where it is; `main` is where the caller is. A call that
was cancelled returns early and leaves its goroutines to run into the next call,
so `files`, `hasError` and `sent` are kept for each call, while `held`, `status`,
`disk` and `cache` are shared. A cached detection may be too old at any time, so
`DetectCached` and `DetectByHead` are both possible when there is one. An answer
without the header is cached as LFS whatever its status was. `DownloadLFS` copies
from the library's own cache and does not look at the context, `DownloadXet` does.

## 3. Runs

Passing runs.

| run | instance | shows |
|---|---|---|
| `tracker` | 3 models, 2 pools, 1-3 units, totals 3 and 4 | `AccountingExact`, `CanAllocateAgrees`, `BlockersNamed`, `AllocateWithinBudget` |
| `proxy` | 2 models, 2 requests at once, stale cache, lost answers, fair | `RequestAccounting`, `MutexInUse`, `ReadyAccounted`, `OverdrawnBySyncOnly`, `EveryRequestAnswered` |
| `proxy_serial` | 3 models, 4 requests one at a time, pods that vanish | `GlobalLimit`: without concurrency and staleness the limit holds across evictions, time-outs and failures |
| `system` | 1 model, 2 requests one after the other, controller, deletion, restart, stale cache, fair | `RequestAccounting` with entries deleted under the requests; `ScaledToZeroSettles`: reconciles repair what cancelled waits leave |
| `fetch` | 3 bytes in chunks of 2, 2 workers, 1 retry, 2 calls, fair | `IsDelivery` (the refinement), `SkippedPartIsComplete`, `OnlySilenceHangs` |
| `downloads` | 1 model of 2 files, 2 jobs, 1 slot, 2 faults, 4 events, fair | `OneWriter`, `MarkerMeansComplete`, `DownloadsSettle` |
| `xet` | 2 downloads at once, one of them with compressed chunks, 4 xorbs, fair | `Reconstructed`, `OutputIsPrefix`, `AllCollected` |
| `gguf` | 6 whole and 13 damaged files, each cut off at every length, words of 12 bits, fair | `AcceptedFits`, `WholeAccepted`, `ReaderEnds` |
| `multi_file` | 2 files and a name that is missing, 6 specifications, 2 slots, 2 calls, cancellation, fair | `ResultTruthful`, `ReturnsAfterAll`, `SelectionsAgree`, `EveryDownloadEnds` |

Runs in which a promise of the repository is broken; `findings` in
`PROJECT.json` quotes it.

| run | property | what happens |
|---|---|---|
| `system_restart` | `RunningPodAccounted` | after a restart the controller marks the pod Ready and allocates nothing |
| `fetch_overlap` | `Delivered` | a worker left behind by a failed call truncates a part that the next call has taken for complete; the file misses bytes and the call reports success |
| `xet_shared` | `Reconstructed` | two downloads with compressed chunks use the one lz4 reader at once, and one of them succeeds with bytes of the other |

Bounds. Two models of 2 units under a limit of 3 are the least that makes an
eviction necessary; two requests at once give a mutex a holder and a waiter, and
a victim of an eviction a request that arrives meanwhile (a third request, a
newcomer at the mutex, is left to the proofs); one request at a time isolates
the limit from races. With the controller one model and one request at a time
are enough for the races between the two, as the controller looks at one model
at a time; the second request finds what the first and the controller left, and
requests that overlap under the controller are covered by `SystemProofs`. Nothing in the modules compares more
than two models or two requests with each other, except the sums, which the
proofs cover for any number.

Three bytes in chunks of two give a full chunk and a short last one; two calls
give one that finds what the other left; two workers run side by side, and one
outlives its call. Two faults and four events (`MaxFaults`, `MaxEvents`) let a
download fail, be retried, and have its model deleted and created again around
a crash. The job of a deleted model and the job of the new one are the two that
could meet in a directory; with one model nobody waits for the semaphore, which
the proof covers instead. The xorbs of `MCXet` have a plain, a compressed and
two grouped chunks, one of which does not fill its groups of four, a chunk that
is cut off and one of an unknown type; reads of two bytes split a frame; the
token expires once (`MaxExpiries`). Two downloads and a `Concurrency` of two
contend for the token and the reader, and neither waits for a slot of
`DownloadMultiple`: that a full semaphore holds a download back is in the module,
and the run does not reach it.

A word of 12 bits lets files of a few hundred bytes have numbers that wrap and
numbers that do not. The whole files have a header that ends on the alignment and
ones that do not, alignments of both types, of a type that is ignored and of
zero, nested and empty arrays, blocks that are not full, a tensor without
elements and one of an unknown type; the damaged ones pass every limit of the
code by one. Two slots for two files make a second call wait for the goroutines
a cancelled one left behind; one block per file (`Blocks`) tells a file that is
empty from one that is written.

Fairness. `FairProxySpec` assumes weak fairness of every request's handler: the
Go scheduler runs a goroutine that can run, and timers fire, so that a wait
that may time out does at some point. It assumes nothing of pods.
`FairSystemSpec` adds: the reconcile worker runs; the workqueue hands every
model out again and again, as each result asks for a requeue and each error is
retried; pods start and stop; the informer catches up; the cooldown is over at
some time; a call that is repeated often enough succeeds.

`FairFetchSpec`: the caller and each worker run, and a response goes on until it
ends, breaks off or falls silent. The HEAD request (30 seconds) and the Xet client
(30 minutes) have time-outs, and the body of a resumed or fresh download is broken
off after five minutes of silence. Nothing is assumed of a goroutine that `Hangs`
and of the caller when `CallerHangs`, that is, when it waits for a silent server
and its call is not cancelled: a chunk's request does not carry the context that
the stall reader cancels (`chunked.go:256`, `280-282`), and `ResumeDownloadFile`
waits for the header without a time-out (`client.go:401-402`). So not every call
ends; `OnlySilenceHangs` says that nothing else keeps one from ending, and that a
cancelled call ends. Section 5 has the call that does not.

`FairDownloadSpec`: jobs and the reconcile worker run, and
the workqueue hands every model out again and again. It takes over from the fetch
that each one ends, with a success or a failure; a fetch that hangs (section 5)
keeps its job, its slot of the semaphore and its model for ever, so `DownloadsSettle`
is about servers that answer, fail or break off. `XetSpec`: each download is
strongly fair, since Go's mutexes and channels let no goroutine starve, and the
client's time-out ends each request. A request may always fail; only in
`downloads` failures end at some time, by the bound `MaxFaults`, which is what
"every model is downloaded in the end" needs.

`Gguf`: the reader is a loop of one goroutine on a local file, so any enabled step
is taken. `MultiFile`: the caller and each goroutine run, and every request and
write comes back with an answer or an error. The `Detector`'s HEAD request has a
time-out only if the caller's client has one (`detector.go:114`), so this is an
assumption on the network there, and not a consequence of the code. Weak fairness
is enough for the semaphore: it is never full for ever, and a finite number of
goroutines asks for it.

## 4. Proofs

All of them hold for every finite set of models and requests and for every
number of units.

| theorem | states | needs |
|---|---|---|
| `TypeCorrect` | `TrackerTypeOK` | - |
| `TestsAgree` | `CanAllocateAgrees` | - |
| `AccountingCorrect` | `AccountingExact` | selectors of at most one label, budgets set before use |
| `BlockersCorrect` | `BlockersNamed` | the same |
| `AdmissionCorrect` | `AllocateWithinBudget` | at most one label, selectors that are not edited |
| `ProxyTypeCorrect` | types of tracker, registry and proxy | - |
| `RequestsCounted` | `RequestAccounting` | - |
| `MutexesCollected` | `MutexInUse` | - |
| `ReadyModelsAccounted` | `ReadyAccounted` | the proxy alone |
| `ProxyAccountingCorrect` | `AccountingExact` of the proxy | as for the tracker |
| `ProxyAdmissionCorrect` | `OverdrawnBySyncOnly` | as for the tracker |
| `SerialLimit` | `GlobalLimit` | one request at a time, no stale cache and no lost answers (`Serial`), declarations that are not edited (`FixedMemories`), at most one label |
| `SystemRegistryTyped` | `RegistryTypeOK` of the whole process | - |
| `SystemTypeCorrect`, `SystemRequestsCounted`, `SystemMutexesCollected` | the same of the whole process | - |
| `DownloadsTyped` | `DownloadTypeOK` | - |
| `DownloadsOneWriter` | `OneWriter` | - |
| `DownloadsMarked` | `MarkerMeansComplete` | users wait for downloads and for the cleaner (`UserWaits`), the cleaner lists every model (`Watched = Models`) |
| `MultiTyped` | `MultiTypeOK`, with the slots counted | the files a caller names are in `Names` |
| `ReturnsAfterGoroutines` | `ReturnsAfterAll` | the same |
| `ResultsTrue` | `ResultTruthful` | the same |
| `SelectionsCompared` | `SelectionsAgree` | the same |
| `FetchTyped` | `FetchTypeOK` | - |
| `SkippedPartsComplete` | `SkippedPartIsComplete` | no workers of an earlier call (`~Overlap`), servers that honour ranges (`~IgnoresRange`) |
| `SuccessIsWhole` | `Delivered` | the same |
| `FetchIsDelivery` | the refinement `IsDelivery` | the same |
| `Regrouped` | `undoByteGrouping4` undoes the grouping | padded groups, or a length that is a multiple of four |
| `XetTyped` | `XetTypeOK` | - |
| `SuccessReconstructs` | `Reconstructed` | at most one download with compressed chunks (`OneCompressed`), grouped chunks padded or of whole groups (`WholeGroups`) |
| `OutputStaysPrefix` | `OutputIsPrefix` | the same |
| `GgufTyped` | `GgufTypeOK`, with the bytes counted by hand being those consumed | files as `GgufFormat` describes them |
| `AcceptedIsWhole` | `AcceptedFits` | the same |
| `WholeIsAccepted` | `WholeAccepted` | the same |

The arguments.

- *Accounting.* `AccountingInv` is the type invariant with `AccountingExact`.
  An operation on model `m` changes a pool's sum only in `m`'s share, so the
  sum is split into `Own(m, p)` and `Rest(m, p)`, two disjoint sets of units,
  and lemmas give the cardinality of each part before and after. One label per
  selector makes the release find the pool the grant has charged; a budget set
  late would start at zero over models that hold memory.
- *Admission.* `SelectorsInv` says that an allocation carries a selector of its
  model; with fixed selectors the credit for what the model holds is a credit
  in the pool it asks for.
- *Proxy.* `ProxyInv` is `Shape` (types, the victim of an eviction is known,
  jobs come from specs) with the three properties; none of them is inductive
  without the shape. Each action has its case. `RequestAccounting` goes by the
  cardinality of `InFlightFor(m)`: a request enters it in the step that counts
  it and leaves it in the step that uncounts it, and every other change of an
  entry resets or keeps the count.
- *From the tracker to the proxy.* `TrackerStep`: every proxy step is a step of
  `TrackerNext` or leaves the tracker alone. The tracker's invariants carry over
  without a second proof.
- *System.* `SystemInv` adds the controller's types; its steps change entries
  only by deleting them or by setting their state, and a restart empties
  everything.

- *One writer.* `OneWriter` says that two running jobs have different models.
  It is not inductive: the invariant `Tracking` adds that a running job is the
  one tracked under its model (`LiveIsTracked`), that what is tracked is a job
  of that model (`TrackedIsJob`), that a job in its last steps has its final
  phase (`LastPhase`), and that the controller removes a status only after it
  has seen it end (`SeenEnded`). `Download` refuses a model that is tracked, so
  a new job finds no other.
- *Marker.* `Marking` follows the evidence from the bytes to the marker: files a
  job counts as got are whole (`GotIsWhole`), a job in phase Complete has a whole
  directory (`CompleteIsWhole`), the controller about to mark has seen such a
  job (`MarksComplete`), a marked directory has no job (`MarkedHasNoJob`), and
  what is tracked belongs to a live model (`TrackedIsLive`), whose directory the
  cleaner does not touch.
- *Files in parallel.* The fourteen steps of a goroutine are first shown to be
  `Moves`: they touch its own file and its own call, and make it neither unborn
  nor idle. `Bookkeeping` says that a call which is not made yet, or is still
  resolving, has left no trace, and `Returns` that a call which returned nil or an
  error has seen all its goroutines end; a goroutine that runs can therefore
  disturb neither. `Truth` holds while no context is done: only the current call
  has goroutines (`Alone`), each of them has done for its file what its place says
  (`FilesTrue`: on disk is what it wrote, an error is recorded before it is sent),
  and an error that was recorded has a Failed file (`ErrorBlamed`), which no other
  goroutine touches. The slots that are taken are the cardinality of the set of
  working goroutines (`Slots`).

- *The limit.* `GlobalLimit` speaks of pods, the code's sum of allocations.
  `SerialInv` joins them: a pod that runs is charged in full or its request is
  about to charge it (`PodsCharged`); a request about to create a pod has room for
  it beside all that runs (`RoomFor`), which follows from the sum it took, as the
  sum covers what runs; a victim's memory is released only when its pod is gone
  (`VictimFor`); and what was admitted still fits (`AdmittedFor`), so `Allocate`
  does not fail and the clean-up of its failure is not reached. The sum alone may
  exceed the limit, through `SyncAllocation`. Each hypothesis is needed: two cold
  requests, a stale cache and a lost answer break the limit (section 5).
- *A fetch.* The invariant follows the bytes: workers belong to the call that runs
  and hold different chunks (`Workers`), a part on disk is a beginning of its chunk
  and grows at its end (`PartsHonest`), while no worker has failed every chunk that
  was taken is held by a worker or complete (`Taken`), the assembly has put together
  the chunks before the one it is at (`Assembled`), and the local file is a prefix of
  the remote one, and whole after a success (`FileHonest`). The
  refinement maps every step to a step of `FileDelivery` or a stutter. Both
  hypotheses are needed: `fetch_overlap` has the counterexample for the first.
- *Xet.* `Regrouped` is arithmetic with quotients and remainders of four: byte `k`
  of group `g` is found again where it was. What a download has written is
  `Written(d)`, the data of the terms, chunks and pieces it has passed (`AllHonest`);
  the shared lz4 reader holds the rest of the chunk that is being read, which is
  why one download with compressed chunks is the most that can be allowed
  (`xet_shared` has the counterexample for two). `FlattenSeq` and the concatenation
  of terms need induction: `SetInduction` derives it from the library's theorem
  that strict inclusion of finite sets is well founded, which takes no operator as
  a parameter, and the existence and uniqueness of the recursive functions follow
  from it.

- *GGUF.* `Counted` follows the count through the header: what the reader has
  consumed, with the length of the values that are still in `work`, is the length
  of the pairs and tensors it has taken up. So an array that holds arrays needs no
  induction over the nesting: skipping a value replaces it by its items, and the
  length of `work` falls by just what was read. At the end of the header the count
  is `HeaderSize` and the alignment the one that was stated last; `DataFound` then
  computes the padding, the elements, the blocks and the end of a tensor, none of
  which wraps for a file that is `Plain`. `Checked` collects the tensors that were
  compared, and `Continued` says that of a whole file only well-formed values are
  left, each of which ends within the header. `ElementsDoNotWrap` needs that the
  factors are not zero: the product up to a dimension is then at most the whole
  one. The word size enters by `PowersOfTwo` alone.

Only model-checked: everything about liveness (`EveryRequestAnswered`,
`ScaledToZeroSettles`, `OnlySilenceHangs`, `DownloadsSettle`, `AllCollected`,
`ReaderEnds`, `EveryDownloadEnds`), which is out of the prover's reach. Every
invariant a passing run checks has a theorem.

## 5. What the assumptions hide

Found on the way, without a run of their own:

- A selector with two labels (`docs/examples/multi-node.yaml:20-22`) makes
  `nodeSelectorKey` (`tracker.go:329`) pick either, call by call: a pool may
  stay charged after all releases. `SingleLabel` excludes it.
- `SetNodeBudget` after allocations starts the counter at zero
  (`tracker.go:121`). `~LateBudgets` excludes it.
- An edited selector has the memory held in the old pool credited to the new
  one (`tracker.go:207`). `FixedSelectors` excludes it.
- `RecordRequest` of a model without an entry makes it `Creating`
  (`registry.go:135`), so the first request of a model the controller has not
  reconciled waits for a pod that nobody creates.
- A waiting request syncs an allocation with no test (`handler.go:1433`); this
  is the one way a pool gets over its total, as `OverdrawnBySyncOnly` states.
- A `Create` whose answer is lost leaves a pod that no allocation accounts for
  (`handler.go:1350-1356`), and the next sum does not count it: this is why
  `proxy_serial` has no `lostAnswer`.
- With a stale cache the eviction skips the delete and releases the memory
  (`handler.go:912`), and the limit is exceeded by serial requests too: this is
  why `proxy_serial` has no `staleCache`.
- `ReadyAccounted` is a property of the proxy alone: `updateStatus` sets Ready
  without an allocation.
- The mutex of a model is deleted from the map after its holder unlocks
  (`handler.go:1277`), whoever waits on it; a third request stores a new one, and
  two requests of one model are inside together, against the comment at
  `handler.go:1255-1257`.
- Two cold requests for different models read the total before either allocates
  (`handler.go:1302`) and exceed `max-model-memory` together: this is why
  `proxy_serial` is serial.
- The controller reads `ActiveRequests` (`inferencemodel_controller.go:604`), then
  makes two calls to the API server, then deletes the pod, and the eviction works
  on a list of idle entries it made before (`handler.go:878`): a request recorded
  in between loses its pod, although `handler.go:197-200` relies on the check.
- The `ScaledToZero` condition is stored as a lock
  (`inferencemodel_controller.go:613`) and stays when the delete at line 627
  fails; `isScaledDown` then makes every later reconcile skip the idle pod.
- A request between `Create` and `Allocate` (`handler.go:1359`) while the model is
  deleted allocates after `handleDeletion` released, for good.
- `updateStatus` never takes a recommendation back
  (`inferencemodel_controller.go:719-721`): once a model was below 90 % it keeps the
  advice to reduce its memory while its peak grows past that, although
  `docs/observability.md:482` says of 90-100 % "No action needed". The status is
  stored only when Ready or the peak changes (line 757), so an edit of
  `spec.resources.memory` alone leaves the old percentage; and the first observation
  after a restart, which empties `usageTracking`, replaces a higher peak.

About downloads:

- `FileFetch` assumes that a call does not begin while workers of an earlier one
  run (`Overlap = FALSE`; `fetch_overlap` drops it), that a server which answers
  a range request with 200 does not occur (`IgnoresRange = FALSE`; `chunked.go:269`
  would take the whole file for a chunk), and that the Xet attempt writes what it
  should (`xet_shared` says when it does not).
- A chunked download whose server falls silent never returns. The request of a
  chunk carries `ctx` (`chunked.go:256`), while the stall reader cancels its child
  `dlCtx` (`280-282`), and the client has no time-out (`262`): `io.CopyBuffer`
  (`298`) waits until the caller cancels or the connection breaks, and `Download`
  waits for its workers (`156`). The comments say "Wrap with stall detection"
  (`279`) and "Check if context was cancelled (stall or parent cancel)" (`300`).
  In the model this is `ResponseStalls` in every worker: under `FairFetchSpec`,
  `phase = "chunked" ~> phase # "chunked"` fails, and `OnlySilenceHangs` is what holds.
- `ResumeDownloadFile` waits for the header of its response with neither a time-out
  nor a stall reader (`client.go:401-418`), although its comment says "no overall
  timeout — stall detection handles hangs": with `NoHeader` a call hangs there as it
  does in a chunk. The workers a failed chunked download leaves behind may hang on
  after their call has returned, as its context is not cancelled then.
- `Downloads` assumes that users wait (`UserWaits`): a model that is deleted
  while its status is tracked as Complete, whose directory the cleaner then
  removes, and which is created again, is marked over an empty directory
  (`inferencemodel_controller.go:387`). It assumes that the cleaner lists every
  model (`Watched = Models`); `cmd/main.go:146` lists one namespace, and removes
  the old directories of the others.
- Downloads and directories are named by the model without its namespace; the
  modules take all objects of a name for one model.
- `TouchModel` has no caller, so the time to live counts from the writing of the
  directory. A retry does nothing while a Complete status is tracked. Removals
  succeed and are atomic, whole GGUF files pass the check of their headers (what
  `WholeAccepted` says), and the check of the SHA-256 is left out when its metadata cannot be fetched, as in the
  code.
- Xet: a term's `Range` is commented as a "chunk range" (`client.go:63`), but the
  code cuts bytes of what it fetched with it; beyond their end it panics
  (`RangesFit` excludes it). `UnpackedLength` and `OffsetIntoFirstRange` are not
  looked at, so trailing bytes shorter than a header are dropped in silence, and
  only the first fetch info is used. `undoByteGrouping4Partial` loses bytes: with
  an encoder that leaves the remainder at the end (`PadsGroups = FALSE`), as its
  comment describes, `Reconstructed` and `OutputIsPrefix` fail.
- GGUF: a file whose dimensions, offset or alignment wrap in a machine word
  (`file_ops.go:544`, `556`, `580`) is accepted although its data is beyond the
  end, against the comment at `file_ops.go:370-372`, "every tensor's data fits
  within the file bounds"; `Plain` exempts such files from `AcceptedFits`. A
  tensor of a type that is not in the table is not checked at all.
- `DownloadAll` returns nil when a goroutine finds the context done after it got
  its slot (`multi_file.go:110-113`): the file is Failed and the error is sent, but
  `hasError` is not set. When the loop itself finds the context done
  (`multi_file.go:95`) the goroutines that run are not waited for; the files that
  were not begun stay Pending, and a goroutine of the old call may write over the
  entry and the file of the next one. `ResultTruthful` exempts cancelled calls, and
  `ReturnsAfterAll` the early return, for these reasons.
- The progress of a file is set back to 0 of 0 bytes when it is Complete
  (`multi_file.go:188`), and `ListFiles` never fills in a size.
- An answer to the HEAD request with an error status counts as LFS for five
  minutes (`detector.go:134`).
- The two choices of files differ (`resolver.go`, `manager.go:399-481`): the
  resolver takes a named file that the repository does not have, excludes by the
  whole path only and skips a bad pattern; the manager skips, excludes by any part
  of the path and gives up. `SelectionsAgree` bounds the difference.

## 6. Not modelled

The path of a server that has no registry (`main` always passes one), the bytes
that are forwarded, answer codes, listing of models, the layout of pods, peaks
of memory use, metrics, pages and types: no decision of the modelled parts
reads them. Speeds and estimates (`progress.go`, `status_updater.go`), which `main`
does not use, `DetectMultiple`, `ResolveWithInfo`, `DownloadWithDetector`,
`VerifyFilesDeep` and the `.downloading` marker, which have no caller, the removal
of the Hugging Face cache directory, and the parsing of URLs are left out. Xet's chunk
headers and lz4 frames are taken as decoded. A memory string that does not parse
panics in the code; the models assume it parses. Reads of InferenceModel objects are not stale; a conflicting
write is a failing one. Leader election is off by default and not modelled.

## 7. Plan

Done: tracker, registry, proxy, controller, restarts; the fetch of a file, the
manager with marker and cleaner; Xet; the verification of GGUF files; the choice
of files and the parallel downloader. The order of what is left:

1. The mutual exclusion of the token in `Xet`, as a property and a theorem.
2. The answers of the handler (429, 503, 502) as results, with an abstract
   specification of admission that `Proxy` implements when requests are serial.
3. A timed model of the cooldown and of the status updater's throttle.
4. `computeChunks`, the accounting of `ProgressTracker`, `RecordUsage` and
   `GetUtilization` against reference definitions.
