--------------------------- MODULE MultiFileProofs ---------------------------
(* What DownloadAll keeps true for any number of calls, files, blocks and  *)
(* slots.                                                                  *)
EXTENDS MultiFile, FiniteSetTheorems, TLAPS

USE BlocksAssumption, SlotsAssumption, CallsAssumption, FilesAssumption,
    NamesAssumption, NoStatusAssumption

PCs == Waiting \cup Working \cup {"ended"}

Resting == {"unborn", "ended"}

FileEntry == [Phase : Phases, BytesDone : 0 .. Blocks, BytesTotal : {0, Blocks}]

(* The goroutines that hold a slot.                                        *)
Holders == {g \in Goroutines : pc[g] \in Working}

(* The variables have their types; the count of the slots is left to Slots. *)
Typed ==
    /\ spec \in Specs /\ call \in 0 .. MaxCalls
    /\ main \in {"idle", "resolve", "spawn", "wait"}
    /\ result \in [Calls -> Results]
    /\ cancelled \in [Calls -> BOOLEAN] /\ hasError \in [Calls -> BOOLEAN]
    /\ files \in [Calls -> SUBSET Names]
    /\ sent \in [Calls -> Nat]
    /\ pc \in [Goroutines -> PCs]
    /\ kind \in [Goroutines -> {"Unknown", "LFS", "Xet"}]
    /\ written \in [Goroutines -> 0 .. Blocks]
    /\ status \in [Names -> FileEntry \cup {NoStatus}]
    /\ disk \in [Names -> SUBSET (1 .. Blocks)]
    /\ cache \in [Names -> {"none", "LFS", "Xet"}]

(* What a step of the goroutine g may do to what others see.               *)
Moves(g) ==
    /\ UNCHANGED callVars
    /\ pc[g] \notin Resting
    /\ \E s \in PCs \ {"unborn"} : pc' = [pc EXCEPT ![g] = s]
    /\ \/ UNCHANGED status
       \/ \E e \in FileEntry : status' = [status EXCEPT ![g[2]] = e]
    /\ \/ UNCHANGED disk
       \/ \E D \in SUBSET (1 .. Blocks) : disk' = [disk EXCEPT ![g[2]] = D]
    /\ \/ UNCHANGED hasError
       \/ hasError' = [hasError EXCEPT ![g[1]] = TRUE]
    /\ \/ UNCHANGED sent
       \/ /\ sent[g[1]] < Cardinality(files[g[1]])
          /\ sent' = [sent EXCEPT ![g[1]] = @ + 1]
    /\ \/ UNCHANGED written
       \/ \E w \in 0 .. Blocks : written' = [written EXCEPT ![g] = w]
    /\ \/ UNCHANGED kind
       \/ \E k \in {"Unknown", "LFS", "Xet"} : kind' = [kind EXCEPT ![g] = k]
    /\ \/ UNCHANGED cache
       \/ \E k \in {"none", "LFS", "Xet"} : cache' = [cache EXCEPT ![g[2]] = k]

(* Every step of a goroutine is such a move.                               *)
LEMMA GoroutineMoves ==
    ASSUME Typed, NEW g \in Goroutines, Goroutine(g)
    PROVE  Moves(g)
<1> USE DEF At, Goto, PCs, Waiting, Working, Resting, Moves
<1>0. /\ g[2] \in Names /\ g[1] \in Calls
      /\ pc[g] \in PCs /\ pc \in [Goroutines -> PCs]
      /\ written[g] \in 0 .. Blocks
      /\ \A p \in Phases, n \in 0 .. Blocks, t \in {0, Blocks} : Entry(p, n, t) \in FileEntry
      /\ {"Failed", "Downloading", "Complete"} \subseteq Phases
      /\ 0 \in 0 .. Blocks /\ Blocks \in 0 .. Blocks
  BY DEF Typed, Goroutines, Entry, FileEntry, Phases
<1>1. CASE AcquireSlot(g)
  BY <1>1 DEF AcquireSlot
<1>2. CASE CheckContext(g)
  BY <1>0, <1>2 DEF CheckContext, UpdateFileProgress
<1>3. CASE DetectCached(g)
  BY <1>0, <1>3 DEF DetectCached, Typed
<1>4. CASE DetectByHead(g)
  <2>1. PICK a \in Answers(g[2]) : /\ kind' = [kind EXCEPT ![g] = a]
                                   /\ cache' = setCached(g[2], a)
    BY <1>4 DEF DetectByHead
  <2>2. a \in {"LFS", "Xet"}
    BY StorageAssumption DEF Answers
  <2> QED BY <1>0, <1>4, <2>1, <2>2 DEF DetectByHead, setCached
<1>5. CASE DetectFails(g)
  BY <1>0, <1>5 DEF DetectFails, Fail, UpdateFileProgress
<1>6. CASE BeginFile(g)
  BY <1>0, <1>6 DEF BeginFile, UpdateFileProgress
<1>7. CASE Fetched(g)
  BY <1>7 DEF Fetched
<1>8. CASE CreateDest(g)
  BY <1>0, <1>8 DEF CreateDest
<1>9. CASE WriteBlock(g)
  <2>1. pc' = [pc EXCEPT ![g] = pc[g]] /\ pc[g] = "copy"
    BY <1>0, <1>9 DEF WriteBlock
  <2>2. written[g] + 1 \in 0 .. Blocks /\ written' = [written EXCEPT ![g] = written[g] + 1]
    BY <1>0, <1>9 DEF WriteBlock
  <2>3. /\ disk[g[2]] \cup {written[g] + 1} \in SUBSET (1 .. Blocks)
        /\ disk' = [disk EXCEPT ![g[2]] = disk[g[2]] \cup {written[g] + 1}]
    BY <1>0, <1>9 DEF WriteBlock, Typed
  <2>4. \/ UNCHANGED status
        \/ \E e \in FileEntry : status' = [status EXCEPT ![g[2]] = e]
    BY <1>0, <1>9, <2>2 DEF WriteBlock, UpdateFileProgress
  <2> QED BY <1>9, <2>1, <2>2, <2>3, <2>4 DEF WriteBlock
<1>10. CASE SyncDest(g)
  BY <1>0, <1>10 DEF SyncDest, UpdateFileProgress
<1>11. CASE StreamFails(g)
  BY <1>0, <1>11 DEF StreamFails, Fail, UpdateFileProgress
<1>12. CASE CompleteFile(g)
  BY <1>0, <1>12 DEF CompleteFile, UpdateFileProgress
<1>13. CASE SendError(g)
  BY <1>0, <1>13 DEF SendError
<1>14. CASE Release(g)
  BY <1>0, <1>14 DEF Release, EndGoroutine
<1> QED
  BY <1>1, <1>2, <1>3, <1>4, <1>5, <1>6, <1>7, <1>8, <1>9, <1>10, <1>11, <1>12,
     <1>13, <1>14 DEF Goroutine

----------------------------------------------------------------------------
(* Calls that run or are not made yet have left no trace, a goroutine      *)
(* belongs to a file of its call, and a call that returned nil or an error *)
(* of a file has seen all its goroutines end.                              *)
Untouched(c) ==
    /\ sent[c] = 0 /\ ~hasError[c]
    /\ \A f \in Names : pc[<<c, f>>] = "unborn"

Bookkeeping ==
    /\ main # "idle" => call \in Calls /\ result[call] = "none"
    /\ \A c \in Calls : c > call => result[c] = "none" /\ Untouched(c)
    /\ main = "resolve" => Untouched(call)
    /\ main = "spawn" => files[call] = Resolve(spec)
    /\ main = "wait" => \A f \in files[call] : pc[<<call, f>>] # "unborn"
    /\ \A c \in Calls, f \in Names : pc[<<c, f>>] # "unborn" => f \in files[c]
    /\ \A c \in Calls : sent[c] <= Cardinality(files[c])

Returns ==
    \A c \in Calls : result[c] \in {"nil", "error"} =>
        /\ Ended(c)
        /\ \A f \in files[c] : pc[<<c, f>>] = "ended"
        /\ result[c] = "error" <=> hasError[c]

(* The inductive invariant of the bookkeeping.                             *)
Inv == Typed /\ Bookkeeping /\ Returns

(* Nothing has been called yet.                                            *)
LEMMA InvInit == Init => Inv
<1> SUFFICES ASSUME Init PROVE Inv
  OBVIOUS
<1>1. Typed
  BY DEF Init, Typed, Calls, Goroutines, Results, PCs, Waiting
<1>2. Bookkeeping
  BY <1>1, FS_EmptySet DEF Init, Bookkeeping, Untouched, Calls, Goroutines
<1>3. Returns
  BY DEF Init, Returns
<1> QED BY <1>1, <1>2, <1>3 DEF Inv

(* The resolved files are names.                                           *)
LEMMA ResolvedNames == \A s \in Specs : Resolve(s) \subseteq Names
BY DEF Resolve

(* A move keeps the types.                                                 *)
LEMMA GoroutineKeepsTypes ==
    ASSUME Typed, NEW g \in Goroutines, Moves(g)
    PROVE  Typed'
<1>1. g[2] \in Names /\ g[1] \in Calls
  BY DEF Goroutines
<1>2. pc' \in [Goroutines -> PCs]
  BY DEF Moves, Typed
<1>3. status' \in [Names -> FileEntry \cup {NoStatus}]
  BY <1>1 DEF Moves, Typed
<1>4. disk' \in [Names -> SUBSET (1 .. Blocks)]
  <2>1. disk \in [Names -> SUBSET (1 .. Blocks)]
    BY DEF Typed
  <2>2. \/ UNCHANGED disk
        \/ \E D \in SUBSET (1 .. Blocks) : disk' = [disk EXCEPT ![g[2]] = D]
    BY DEF Moves
  <2> QED BY <1>1, <2>1, <2>2, Zenon
<1>5. hasError' \in [Calls -> BOOLEAN]
  <2>1. hasError \in [Calls -> BOOLEAN]
    BY DEF Typed
  <2>2. UNCHANGED hasError \/ hasError' = [hasError EXCEPT ![g[1]] = TRUE]
    BY DEF Moves
  <2> QED BY <1>1, <2>1, <2>2, Zenon
<1>6. sent' \in [Calls -> Nat]
  BY <1>1 DEF Moves, Typed
<1>7. written' \in [Goroutines -> 0 .. Blocks] /\ kind' \in [Goroutines -> {"Unknown", "LFS", "Xet"}]
  BY DEF Moves, Typed
<1>8. cache' \in [Names -> {"none", "LFS", "Xet"}]
  BY <1>1 DEF Moves, Typed
<1>9. UNCHANGED <<spec, call, main, result, cancelled, files>>
  BY DEF Moves, callVars
<1> QED BY <1>2, <1>3, <1>4, <1>5, <1>6, <1>7, <1>8, <1>9 DEF Typed

(* A move keeps the books: the goroutine runs, so its call has neither     *)
(* returned nil or an error nor is it still to be made.                    *)
LEMMA GoroutineKeeps ==
    ASSUME Inv, NEW g \in Goroutines, Moves(g)
    PROVE  Inv'
<1> USE DEF Inv
<1>1. PICK d \in Calls, h \in Names : g = <<d, h>>
  BY DEF Goroutines
<1>2. UNCHANGED <<spec, call, main, result, cancelled, files>>
  BY DEF Moves, callVars
<1>3. /\ \A c \in Calls, f \in Names : <<c, f>> # g => pc'[<<c, f>>] = pc[<<c, f>>]
      /\ pc[<<d, h>>] \notin Resting /\ pc'[<<d, h>>] # "unborn"
  BY <1>1 DEF Moves, Typed, Goroutines
<1>4. /\ \A c \in Calls : c # d => hasError'[c] = hasError[c] /\ sent'[c] = sent[c]
      /\ sent'[d] <= Cardinality(files[d])
  <2>1. files[d] \subseteq Names
    BY DEF Typed
  <2>2. Cardinality(files[d]) \in Nat
    BY <2>1, FS_Subset, FS_CardinalityType
  <2>3. sent[d] \in Nat /\ sent[d] <= Cardinality(files[d])
    BY DEF Typed, Bookkeeping
  <2> QED BY <1>1, <2>2, <2>3 DEF Moves, Typed
<1>5. d <= call /\ (main = "resolve" => d # call) /\ result[d] \notin {"nil", "error"}
  <2>1. ~Untouched(d)
    BY <1>3 DEF Untouched, Resting
  <2>2. ~Ended(d)
    BY <1>3 DEF Ended, Resting
  <2> QED BY <2>1, <2>2 DEF Typed, Bookkeeping, Returns, Calls
<1>6. Typed'
  BY GoroutineKeepsTypes
<1>7. Bookkeeping'
  <2>1. \A c \in Calls : c # d /\ Untouched(c) => Untouched(c)'
    BY <1>1, <1>3, <1>4 DEF Untouched
  <2>2. \A c \in Calls : c > call => result'[c] = "none" /\ Untouched(c)'
    BY <1>2, <1>5, <2>1 DEF Bookkeeping, Calls, Typed
  <2>3. main' = "resolve" => Untouched(call)'
    <3> SUFFICES ASSUME main = "resolve"
                 PROVE  Untouched(call)'
      BY <1>2
    <3>1. call \in Calls /\ call # d /\ Untouched(call)
      BY <1>5 DEF Bookkeeping
    <3>2. sent'[call] = 0 /\ ~hasError'[call] /\ \A f \in Names : pc'[<<call, f>>] = "unborn"
      BY <1>1, <1>3, <1>4, <3>1 DEF Untouched
    <3> QED BY <1>2, <3>2 DEF Untouched
  <2>4. \A c \in Calls, f \in Names : pc'[<<c, f>>] # "unborn" => f \in files[c]
    BY <1>1, <1>3 DEF Bookkeeping, Resting
  <2>5. main = "wait" => \A f \in files[call] : pc'[<<call, f>>] # "unborn"
    BY <1>1, <1>3 DEF Bookkeeping, Typed
  <2>6. \A c \in Calls : sent'[c] <= Cardinality(files[c])
    BY <1>4 DEF Bookkeeping
  <2> QED BY <1>2, <2>2, <2>3, <2>4, <2>5, <2>6 DEF Bookkeeping
<1>8. Returns'
  <2> SUFFICES ASSUME NEW c \in Calls, result[c] \in {"nil", "error"}
               PROVE  /\ Ended(c)'
                      /\ \A f \in files[c] : pc'[<<c, f>>] = "ended"
                      /\ result[c] = "error" <=> hasError'[c]
    BY <1>2 DEF Returns
  <2>1. c # d
    BY <1>5
  <2>2. \A f \in Names : pc'[<<c, f>>] = pc[<<c, f>>]
    BY <1>1, <1>3, <2>1
  <2>3. files[c] \subseteq Names
    BY DEF Typed
  <2> QED BY <1>4, <2>1, <2>2, <2>3 DEF Returns, Ended
<1> QED BY <1>6, <1>7, <1>8

(* A return of the current call, when it is not nil or an error of a file, *)
(* or when all its goroutines have ended.                                  *)
LEMMA ReturnKeeps ==
    ASSUME Inv, main # "idle", NEW v \in Results, Returned(v),
           v \in {"nil", "error"} => /\ Ended(call)
                                     /\ \A f \in files[call] : pc[<<call, f>>] = "ended"
                                     /\ v = "error" <=> hasError[call],
           UNCHANGED <<spec, call, cancelled, files, hasError, sent, pc, held,
                       kind, written, status, disk, cache>>
    PROVE  Inv'
<1> USE DEF Inv
<1>1. call \in Calls /\ result \in [Calls -> Results] /\ call \in Nat /\ Calls \subseteq Nat
  BY DEF Bookkeeping, Typed, Calls
<1>2. Typed'
  BY <1>1 DEF Typed, Returned
<1>3. Bookkeeping'
  <2>1. \A c \in Calls : c > call => result'[c] = "none" /\ Untouched(c)'
    BY <1>1 DEF Bookkeeping, Returned, Untouched
  <2> QED BY <2>1 DEF Bookkeeping, Returned
<1>4. Returns'
  <2> SUFFICES ASSUME NEW c \in Calls, result'[c] \in {"nil", "error"}
               PROVE  /\ Ended(c)'
                      /\ \A f \in files[c] : pc[<<c, f>>] = "ended"
                      /\ result'[c] = "error" <=> hasError[c]
    BY DEF Returns
  <2>1. CASE c = call
    <3>1. result'[c] = v
      BY <1>1, <2>1 DEF Returned
    <3> QED BY <2>1, <3>1 DEF Ended
  <2>2. CASE c # call
    <3>1. result'[c] = result[c]
      BY <1>1, <2>2 DEF Returned
    <3> QED BY <3>1 DEF Returns, Ended
  <2> QED BY <2>1, <2>2
<1> QED BY <1>2, <1>3, <1>4

(* Every step keeps the invariant, the caller's one by one, those of the   *)
(* goroutines as moves.                                                    *)
LEMMA InvStep == Inv /\ [Next]_vars => Inv'
<1> SUFFICES ASSUME Inv, [Next]_vars PROVE Inv'
  OBVIOUS
<1> USE DEF Inv
<1>0. /\ Calls \subseteq Nat /\ call \in Nat
      /\ main # "idle" => call \in Calls
  BY DEF Calls, Typed, Bookkeeping
<1>1. CASE Call
  <2>1. call + 1 \in Calls
    BY <1>1 DEF Call, Typed, Calls
  <2>2. Typed'
    BY <1>1, <2>1 DEF Call, Typed, Calls
  <2>3. result[call + 1] = "none" /\ Untouched(call + 1)
    BY <2>1 DEF Bookkeeping, Typed
  <2>4. Bookkeeping'
    <3>1. \A c \in Calls : c > call' => result'[c] = "none" /\ Untouched(c)'
      <4>1. \A c \in Calls : c > call' => c > call
        <5>1. call' = call + 1
          BY <1>1 DEF Call
        <5> QED BY <1>0, <5>1 DEF Calls
      <4>2. \A c \in Calls : Untouched(c) => Untouched(c)'
        BY <1>1 DEF Call, Untouched
      <4> QED BY <1>1, <4>1, <4>2 DEF Call, Bookkeeping
    <3>2. Untouched(call)'
      BY <1>1, <2>3 DEF Call, Untouched
    <3> QED BY <1>1, <2>1, <2>3, <3>1, <3>2 DEF Call, Bookkeeping
  <2>5. Returns'
    BY <1>1 DEF Call, Returns, Ended
  <2> QED BY <2>2, <2>4, <2>5
<1>2. CASE Cancel
  <2>1. Typed'
    BY <1>2 DEF Cancel, Typed
  <2>2. Bookkeeping' /\ Returns'
    BY <1>2 DEF Cancel, Bookkeeping, Untouched, Returns, Ended
  <2> QED BY <2>1, <2>2
<1>3. CASE ResolveFails
  BY <1>3, ReturnKeeps DEF ResolveFails, Results
<1>4. CASE ResolveFiles
  <2>1. /\ main = "resolve" /\ call \in Calls /\ Untouched(call)
        /\ files' = [files EXCEPT ![call] = Resolve(spec)]
        /\ UNCHANGED <<spec, call, cancelled, hasError, sent, pc, held, kind, written, disk, cache>>
    BY <1>0, <1>4 DEF ResolveFiles, Bookkeeping
  <2>2. /\ \/ main' = "spawn" /\ UNCHANGED result
           \/ main' = "idle" /\ result' = [result EXCEPT ![call] = "noFiles"]
    BY <1>4 DEF ResolveFiles, Returned
  <2>3. Typed'
    <3>1. Resolve(spec) \subseteq Names
      BY ResolvedNames DEF Typed
    <3>2. Entry("Pending", 0, 0) \in FileEntry
      BY DEF Entry, FileEntry, Phases
    <3>3. status' \in [Names -> FileEntry \cup {NoStatus}]
      BY <1>4, <3>2 DEF ResolveFiles, Typed
    <3> QED BY <2>1, <2>2, <3>1, <3>3 DEF Typed, Results
  <2>4. /\ \A c \in Calls : c # call => files'[c] = files[c] /\ result'[c] = result[c]
        /\ files'[call] = Resolve(spec)
        /\ result'[call] \in {"none", "noFiles"}
    BY <2>1, <2>2 DEF Typed, Bookkeeping
  <2>5. Bookkeeping'
    <3>1. \A c \in Calls : c > call => result'[c] = "none" /\ Untouched(c)'
      BY <1>0, <2>1, <2>4 DEF Bookkeeping, Untouched
    <3>2. \A c \in Calls, f \in Names : pc'[<<c, f>>] # "unborn" => f \in files'[c]
      BY <2>1, <2>4 DEF Bookkeeping, Untouched
    <3>3. \A c \in Calls : sent'[c] <= Cardinality(files'[c])
      <4>1. Cardinality(files'[call]) \in Nat
        BY <2>1, <2>3, FS_Subset, FS_CardinalityType DEF Typed
      <4>2. sent'[call] = 0
        BY <2>1 DEF Untouched
      <4> QED BY <2>1, <2>4, <4>1, <4>2 DEF Bookkeeping
    <3>4. main' = "spawn" => call' \in Calls /\ result'[call'] = "none" /\ files'[call'] = Resolve(spec')
      BY <2>1, <2>2, <2>4 DEF Bookkeeping
    <3> QED BY <2>1, <2>2, <3>1, <3>2, <3>3, <3>4 DEF Bookkeeping
  <2>6. Returns'
    BY <2>1, <2>4 DEF Returns, Ended
  <2> QED BY <2>3, <2>5, <2>6
<1>5. CASE Spawn
  <2>1. /\ UNCHANGED <<spec, call, main, result, cancelled, files, hasError, sent, held, kind,
                       written, status, disk, cache>>
        /\ main = "spawn" /\ call \in Calls
    BY <1>0, <1>5 DEF Spawn, callVars
  <2>2. PICK f \in files[call] : pc' = [pc EXCEPT ![<<call, f>>] = "acquire"]
    BY <1>5 DEF Spawn, Unborn
  <2>3. f \in Names /\ <<call, f>> \in Goroutines
    BY <2>1, <2>2 DEF Typed, Goroutines
  <2>4. Typed'
    BY <2>1, <2>2, <2>3 DEF Typed, PCs, Waiting
  <2>5. \A c \in Calls, h \in Names :
            <<c, h>> # <<call, f>> => pc'[<<c, h>>] = pc[<<c, h>>]
    BY <2>2 DEF Typed, Goroutines
  <2>6. Bookkeeping'
    <3>1. \A c \in Calls : c > call => result'[c] = "none" /\ Untouched(c)'
      BY <1>0, <2>1, <2>5 DEF Bookkeeping, Untouched
    <3>2. \A c \in Calls, h \in Names : pc'[<<c, h>>] # "unborn" => h \in files'[c]
      BY <2>1, <2>2, <2>5 DEF Bookkeeping
    <3> QED BY <2>1, <3>1, <3>2 DEF Bookkeeping
  <2>7. Returns'
    <3> SUFFICES ASSUME NEW c \in Calls, result[c] \in {"nil", "error"}
                 PROVE  /\ Ended(c)'
                        /\ \A h \in files[c] : pc'[<<c, h>>] = "ended"
                        /\ result[c] = "error" <=> hasError[c]
      BY <2>1 DEF Returns
    <3>1. c # call
      BY <2>1 DEF Bookkeeping
    <3>2. files[c] \subseteq Names /\ \A h \in Names : pc'[<<c, h>>] = pc[<<c, h>>]
      BY <2>5, <3>1 DEF Typed
    <3> QED BY <3>2 DEF Returns, Ended
  <2> QED BY <2>4, <2>6, <2>7
<1>6. CASE SpawnCancelled
  BY <1>6, ReturnKeeps DEF SpawnCancelled, Results
<1>7. CASE AllSpawned
  <2>1. \A f \in files[call] : pc[<<call, f>>] # "unborn"
    BY <1>7 DEF AllSpawned, Unborn
  <2>2. Typed' /\ Returns'
    BY <1>7 DEF AllSpawned, Typed, Returns, Ended
  <2>3. Bookkeeping'
    BY <1>7, <2>1 DEF AllSpawned, Bookkeeping, Untouched
  <2> QED BY <2>2, <2>3
<1>8. CASE Wait
  <2>1. main = "wait" /\ Ended(call) /\ files[call] \subseteq Names
    BY <1>0, <1>8 DEF Wait, Typed
  <2>2. \A f \in files[call] : pc[<<call, f>>] = "ended"
    BY <2>1 DEF Ended, Bookkeeping
  <2>3. CASE hasError[call]
    BY <1>8, <2>1, <2>2, <2>3, ReturnKeeps DEF Wait, Results
  <2>4. CASE ~hasError[call]
    BY <1>8, <2>1, <2>2, <2>4, ReturnKeeps DEF Wait, Results
  <2> QED BY <2>3, <2>4
<1>9. ASSUME NEW g \in Goroutines, Goroutine(g) PROVE Inv'
  BY <1>9, GoroutineMoves, GoroutineKeeps
<1>10. CASE UNCHANGED vars
  BY <1>10 DEF vars, callVars, Typed, Bookkeeping, Untouched, Returns, Ended
<1> QED
  BY <1>1, <1>2, <1>3, <1>4, <1>5, <1>6, <1>7, <1>8, <1>9, <1>10
  DEF Next, DownloadAll, AllEnded

(* The invariant holds in every behaviour.                                 *)
LEMMA InvAlways == Spec => []Inv
BY InvInit, InvStep, PTL DEF Spec

(* A call of DownloadAll that has returned nil or an error of a file has   *)
(* no goroutine left that would write to the directory or to the Status:   *)
(* only the early return of a cancelled call leaves some behind.           *)
THEOREM ReturnsAfterGoroutines == Spec => []ReturnsAfterAll
<1>1. Inv => ReturnsAfterAll
  BY DEF Inv, Returns, ReturnsAfterAll
<1> QED BY InvAlways, <1>1, PTL

(* What the resolver selects beyond the manager is missing from the        *)
(* repository or has a part of its path excluded, and the manager selects  *)
(* nothing the resolver does not, for any specification and any patterns.  *)
THEOREM SelectionsCompared == Spec => []SelectionsAgree
<1>1. Inv => SelectionsAgree
  <2> SUFFICES ASSUME Inv, main = "spawn"
               PROVE  /\ resolveFiles(spec) \subseteq Resolve(spec)
                      /\ \A f \in Resolve(spec) \ resolveFiles(spec) :
                             f \notin Repo \/ \E p \in spec.Exclude, s \in Parts[f] : Match(p, s)
    BY DEF Inv, Bookkeeping, SelectionsAgree
  <2>1. resolveFiles(spec) \subseteq Resolve(spec)
    BY DEF resolveFiles, Resolve, shouldExclude
  <2>2. ASSUME NEW f \in Resolve(spec) \ resolveFiles(spec), f \in Repo
        PROVE  \E p \in spec.Exclude, s \in Parts[f] : Match(p, s)
    BY <2>2 DEF resolveFiles, Resolve, shouldExclude
  <2> QED BY <2>1, <2>2
<1> QED BY InvAlways, <1>1, PTL

----------------------------------------------------------------------------
(* The count of the slots.                                                 *)
Slots == held = Cardinality(Holders) /\ held <= MaxParallel

(* There are finitely many goroutines, so the holders can be counted.      *)
LEMMA HoldersFinite ==
    /\ IsFiniteSet(Goroutines)
    /\ IsFiniteSet(Holders)
    /\ Cardinality(Holders) \in Nat
<1>1. IsFiniteSet(Calls)
  BY FS_Interval DEF Calls
<1>2. IsFiniteSet(Goroutines)
  BY <1>1, FS_Product DEF Goroutines
<1>3. Holders \subseteq Goroutines
  BY DEF Holders
<1> QED BY <1>2, <1>3, FS_Subset, FS_CardinalityType

(* A step that leaves every goroutine on its side of the semaphore.        *)
LEMMA SlotsKept ==
    ASSUME Slots, UNCHANGED held, Holders' = Holders
    PROVE  Slots'
BY DEF Slots

(* A goroutine becomes a holder when it takes a slot, and ceases to be one *)
(* when it gives the slot back.                                            *)
LEMMA SlotsStep == Inv /\ Slots /\ [Next]_vars => Slots'
<1> SUFFICES ASSUME Inv, Slots, [Next]_vars PROVE Slots'
  OBVIOUS
<1>0. pc \in [Goroutines -> PCs]
  BY DEF Inv, Typed
<1>1. CASE UNCHANGED <<pc, held>>
  BY <1>1, SlotsKept DEF Holders
<1>2. CASE Spawn
  <2>1. PICK f \in Unborn : pc' = [pc EXCEPT ![<<call, f>>] = "acquire"] /\ UNCHANGED held
    BY <1>2 DEF Spawn
  <2>2. pc[<<call, f>>] = "unborn"
    BY DEF Unborn
  <2>3. Holders' = Holders
    BY <1>0, <2>1, <2>2 DEF Holders, Working
  <2> QED BY <2>1, <2>3, SlotsKept
<1>3. ASSUME NEW g \in Goroutines, AcquireSlot(g) PROVE Slots'
  <2>1. g \notin Holders /\ Holders' = Holders \cup {g}
    BY <1>0, <1>3 DEF AcquireSlot, At, Goto, Holders, Working
  <2>2. Cardinality(Holders') = Cardinality(Holders) + 1
    BY <2>1, HoldersFinite, FS_AddElement
  <2> QED BY <1>3, <2>2, HoldersFinite DEF AcquireSlot, Slots
<1>4. ASSUME NEW g \in Goroutines, Release(g) PROVE Slots'
  <2>1. g \in Holders /\ Holders' = Holders \ {g}
    BY <1>0, <1>4 DEF Release, EndGoroutine, At, Goto, Holders, Working
  <2>2. Cardinality(Holders') = Cardinality(Holders) - 1
    BY <2>1, HoldersFinite, FS_RemoveElement
  <2> QED BY <1>4, <2>2, HoldersFinite DEF Release, Slots
<1>5. ASSUME NEW g \in Goroutines, Goroutine(g), ~AcquireSlot(g), ~Release(g) PROVE Slots'
  <2>1. /\ UNCHANGED held /\ pc[g] \in Working
        /\ pc' = pc \/ \E s \in Working : pc' = [pc EXCEPT ![g] = s]
    BY <1>5 DEF Goroutine, CheckContext, DetectCached, DetectByHead, DetectFails, BeginFile,
                Fetched, CreateDest, WriteBlock, SyncDest, StreamFails, CompleteFile, SendError,
                Fail, At, Goto, Working
  <2>2. Holders' = Holders
    BY <1>0, <2>1 DEF Holders
  <2> QED BY <2>1, <2>2, SlotsKept
<1>6. CASE Call \/ Cancel \/ ResolveFails \/ ResolveFiles \/ SpawnCancelled \/ AllSpawned \/ Wait
  BY <1>1, <1>6 DEF Call, Cancel, ResolveFails, ResolveFiles, SpawnCancelled, AllSpawned, Wait
<1> QED
  BY <1>1, <1>2, <1>3, <1>4, <1>5, <1>6 DEF Next, DownloadAll, AllEnded, vars

(* The variables keep their types, the slots that are taken are those of   *)
(* the goroutines that work, never more than there are, and errChan never  *)
(* holds more errors than the call has files.                              *)
THEOREM MultiTyped == Spec => []MultiTypeOK
<1>1. Init => Slots
  <2> SUFFICES ASSUME Init PROVE Slots
    OBVIOUS
  <2>1. Holders = {}
    BY DEF Init, Holders, Working
  <2> QED BY <2>1, FS_EmptySet DEF Init, Slots
<1>2. Inv /\ Slots => MultiTypeOK
  <2> SUFFICES ASSUME Inv, Slots PROVE MultiTypeOK
    OBVIOUS
  <2>1. \A f \in Names : status[f] = NoStatus \/ status[f] \in FileEntry
    BY DEF Inv, Typed
  <2> QED BY <2>1 DEF Inv, Typed, Bookkeeping, Slots, Holders, MultiTypeOK, PCs, FileEntry
<1> QED BY InvAlways, <1>1, <1>2, SlotsStep, PTL DEF Spec

----------------------------------------------------------------------------
(* What a goroutine has done for its file so far, when no context is done. *)
HasFailed(c, f) == status[f].Phase = "Failed" /\ hasError[c]

FileTruth(c, f) ==
    /\ pc[<<c, f>>] = "copy" => disk[f] = 1 .. written[<<c, f>>]
    /\ pc[<<c, f>>] = "finish" => OnDisk(f)
    /\ pc[<<c, f>>] = "send" => HasFailed(c, f)
    /\ pc[<<c, f>>] \in {"release", "ended"} =>
           HasFailed(c, f) \/ (status[f].Phase = "Complete" /\ OnDisk(f))

(* The file of an error that was recorded.                                 *)
Blamed(c, f) == status[f].Phase = "Failed" /\ pc[<<c, f>>] \in {"send", "release", "ended"}

(* Only the current call has goroutines that run.                          *)
Alone ==
    \A c \in Calls, f \in Names :
        pc[<<c, f>>] \notin Resting => c = call /\ main \in {"spawn", "wait"}

FilesTrue == \A c \in Calls, f \in Names : c = call => FileTruth(c, f)

ErrorBlamed == \A c \in Calls : c = call /\ hasError[c] => \E f \in files[c] : Blamed(c, f)

Truth == Undisturbed => Alone /\ FilesTrue /\ ErrorBlamed

(* A step of a goroutine keeps the truth about its own file, and records   *)
(* an error together with the file it is about.                            *)
LEMMA OwnFile ==
    ASSUME Typed, NEW c \in Calls, NEW f \in Names, ~cancelled[c],
           FileTruth(c, f), Goroutine(<<c, f>>)
    PROVE  /\ FileTruth(c, f)'
           /\ hasError'[c] => hasError[c] \/ Blamed(c, f)'
           /\ Blamed(c, f) => Blamed(c, f)'
<1> DEFINE g == <<c, f>>
<1> USE DEF At, Goto, FileTruth, HasFailed, Blamed
<1>0. /\ g \in Goroutines /\ g[1] = c /\ g[2] = f
      /\ pc \in [Goroutines -> PCs] /\ status \in [Names -> FileEntry \cup {NoStatus}]
      /\ disk \in [Names -> SUBSET (1 .. Blocks)] /\ written \in [Goroutines -> 0 .. Blocks]
      /\ hasError \in [Calls -> BOOLEAN]
  BY DEF Goroutines, Typed
<1> HIDE DEF g
<1>e. \A p, n, t : Entry(p, n, t).Phase = p
  BY DEF Entry
<1>f. ASSUME Fail(g) PROVE /\ FileTruth(c, f)' /\ Blamed(c, f)'
  <2>1. pc'[g] = "send" /\ status'[f].Phase = "Failed" /\ hasError'[c]
    BY <1>0, <1>e, <1>f DEF Fail, UpdateFileProgress
  <2> QED BY <2>1 DEF g
<1>1. CASE AcquireSlot(g)
  <2>1. pc'[g] = "check" /\ pc[g] = "acquire" /\ UNCHANGED hasError
    BY <1>0, <1>1 DEF AcquireSlot
  <2> QED BY <2>1 DEF g
<1>2. CASE CheckContext(g)
  <2>1. pc'[g] = "detect" /\ pc[g] = "check" /\ UNCHANGED hasError
    BY <1>0, <1>2 DEF CheckContext
  <2> QED BY <2>1 DEF g
<1>3. CASE DetectCached(g)
  <2>1. pc'[g] = "begin" /\ pc[g] = "detect" /\ UNCHANGED hasError
    BY <1>0, <1>3 DEF DetectCached
  <2> QED BY <2>1 DEF g
<1>4. CASE DetectByHead(g)
  <2>1. pc'[g] = "begin" /\ pc[g] = "detect" /\ UNCHANGED hasError
    BY <1>0, <1>4 DEF DetectByHead
  <2> QED BY <2>1 DEF g
<1>5. CASE DetectFails(g) \/ StreamFails(g)
  BY <1>5, <1>f DEF DetectFails, StreamFails
<1>6. CASE BeginFile(g)
  <2>1. pc'[g] = "fetch" /\ pc[g] = "begin" /\ UNCHANGED hasError
    BY <1>0, <1>6 DEF BeginFile
  <2> QED BY <2>1 DEF g
<1>7. CASE Fetched(g)
  <2>1. pc'[g] = "create" /\ pc[g] = "fetch" /\ UNCHANGED hasError
    BY <1>0, <1>7 DEF Fetched
  <2> QED BY <2>1 DEF g
<1>8. CASE CreateDest(g)
  <2>1. pc'[g] = "copy" /\ pc[g] = "create" /\ UNCHANGED hasError
    BY <1>0, <1>8 DEF CreateDest
  <2>2. disk'[f] = {} /\ written'[g] = 0
    BY <1>0, <1>8 DEF CreateDest
  <2>3. disk'[f] = 1 .. written'[g]
    BY <2>2
  <2> QED BY <2>1, <2>3 DEF g
<1>9. CASE WriteBlock(g)
  <2>1. pc'[g] = "copy" /\ pc[g] = "copy" /\ UNCHANGED hasError
    BY <1>0, <1>9 DEF WriteBlock
  <2>2. /\ written'[g] = written[g] + 1 /\ disk'[f] = disk[f] \cup {written[g] + 1}
        /\ written[g] \in Nat
    BY <1>0, <1>9 DEF WriteBlock
  <2>3. disk[f] = 1 .. written[g]
    BY <2>1 DEF g
  <2>4. disk'[f] = 1 .. written'[g]
    BY <2>2, <2>3
  <2> QED BY <2>1, <2>4 DEF g
<1>10. CASE SyncDest(g)
  <2>1. pc'[g] = "finish" /\ pc[g] = "copy" /\ written[g] = Blocks /\ UNCHANGED <<hasError, disk>>
    BY <1>0, <1>10 DEF SyncDest
  <2>2. OnDisk(f)'
    BY <2>1 DEF OnDisk, g
  <2> QED BY <2>1, <2>2 DEF g
<1>12. CASE CompleteFile(g)
  <2>1. pc'[g] = "release" /\ pc[g] = "finish" /\ UNCHANGED <<hasError, disk>>
    BY <1>0, <1>12 DEF CompleteFile
  <2>2. status'[f].Phase = "Complete"
    BY <1>0, <1>e, <1>12 DEF CompleteFile, UpdateFileProgress
  <2>3. OnDisk(f)'
    BY <2>1 DEF OnDisk, g
  <2> QED BY <2>1, <2>2, <2>3 DEF g
<1>13. CASE SendError(g)
  <2>1. pc'[g] = "release" /\ pc[g] = "send" /\ UNCHANGED <<hasError, status>>
    BY <1>0, <1>13 DEF SendError
  <2> QED BY <2>1 DEF g
<1>14. CASE Release(g)
  <2>1. pc'[g] = "ended" /\ pc[g] = "release" /\ UNCHANGED <<hasError, status, disk>>
    BY <1>0, <1>14 DEF Release, EndGoroutine
  <2> QED BY <2>1 DEF g, OnDisk
<1> QED
  BY <1>1, <1>2, <1>3, <1>4, <1>5, <1>6, <1>7, <1>8, <1>9, <1>10, <1>12, <1>13, <1>14
  DEF Goroutine, g

(* A step of a goroutine leaves the files of the others alone.             *)
LEMMA OtherFiles ==
    ASSUME Typed, NEW c \in Calls, NEW h \in Names, Moves(<<c, h>>),
           NEW f \in Names, f # h
    PROVE  /\ FileTruth(c, f) => FileTruth(c, f)'
           /\ Blamed(c, f) => Blamed(c, f)'
<1>1. /\ status'[f] = status[f] /\ disk'[f] = disk[f]
      /\ pc'[<<c, f>>] = pc[<<c, f>>] /\ written'[<<c, f>>] = written[<<c, f>>]
  <2>1. status'[f] = status[f] /\ disk'[f] = disk[f]
    BY DEF Moves, Typed
  <2>2. <<c, f>> \in Goroutines /\ <<c, f>> # <<c, h>>
    BY DEF Goroutines
  <2>3. pc'[<<c, f>>] = pc[<<c, f>>]
    BY <2>2 DEF Moves, Typed
  <2>4. written'[<<c, f>>] = written[<<c, f>>]
    BY <2>2 DEF Moves, Typed
  <2> QED BY <2>1, <2>3, <2>4
<1>2. hasError[c] => hasError'[c]
  BY DEF Moves, Typed
<1> QED BY <1>1, <1>2 DEF FileTruth, HasFailed, Blamed, OnDisk

(* Nothing has been claimed yet.                                           *)
LEMMA TruthInit == Init => Truth
BY DEF Init, Truth, Alone, FilesTrue, ErrorBlamed, Resting, Goroutines, Calls

(* The truth stays when the files of the current call are as they were.    *)
LEMMA TruthKept ==
    ASSUME Truth, UNCHANGED <<call, pc, cancelled, files, hasError, status, disk, written>>,
           main' = main \/ Alone'
    PROVE  Truth'
<1> SUFFICES ASSUME Undisturbed'
             PROVE  Alone' /\ FilesTrue' /\ ErrorBlamed'
  BY DEF Truth
<1>1. Undisturbed
  BY DEF Undisturbed
<1>2. Alone'
  BY <1>1 DEF Truth, Alone
<1>3. FilesTrue'
  BY <1>1 DEF Truth, FilesTrue, FileTruth, HasFailed, OnDisk
<1>4. ErrorBlamed'
  BY <1>1 DEF Truth, ErrorBlamed, Blamed
<1> QED BY <1>2, <1>3, <1>4

(* Nothing is to be told of a call that has no goroutines yet.             *)
LEMMA TruthUntouched ==
    ASSUME NEW c \in Calls, call' = c, Untouched(c)', Alone'
    PROVE  Truth'
<1>1. FilesTrue'
  BY DEF FilesTrue, FileTruth, Untouched
<1>2. ErrorBlamed'
  BY DEF ErrorBlamed, Untouched
<1> QED BY <1>1, <1>2 DEF Truth

(* Every step keeps the truth.                                             *)
LEMMA TruthStep == Inv /\ Truth /\ [Next]_vars => Truth'
<1> SUFFICES ASSUME Inv, Truth, [Next]_vars, Undisturbed' PROVE Truth'
  BY DEF Truth
<1>0. /\ Typed /\ Bookkeeping /\ Returns
      /\ main # "idle" => call \in Calls
  BY DEF Inv, Bookkeeping
<1>1. ASSUME UNCHANGED <<call, pc, cancelled, files, hasError, status, disk, written>>,
             Undisturbed /\ Alone => main' = main \/ Alone'
      PROVE  Truth'
  <2>1. Undisturbed
    BY <1>1 DEF Undisturbed
  <2>2. Alone
    BY <2>1 DEF Truth
  <2> QED BY <1>1, <2>1, <2>2, TruthKept
<1>2. CASE Call
  <2>1. call + 1 \in Calls /\ Untouched(call + 1)
    BY <1>0, <1>2 DEF Call, Typed, Bookkeeping, Calls
  <2>2. Undisturbed /\ Alone
    BY <1>2 DEF Call, Undisturbed, Truth
  <2>3. Alone'
    BY <1>2, <2>2 DEF Call, Alone
  <2>4. PICK c \in Calls : c = call + 1
    BY <2>1
  <2>5. Untouched(c)' /\ call' = c
    BY <1>2, <2>1, <2>4 DEF Call, Untouched
  <2> QED BY <2>3, <2>5, TruthUntouched
<1>3. CASE Cancel
  <2>1. ~Undisturbed'
    BY <1>0, <1>3 DEF Cancel, Undisturbed, Typed
  <2> QED BY <2>1
<1>4. CASE ResolveFails
  <2>1. Alone => Alone'
    BY <1>4 DEF ResolveFails, Returned, Alone
  <2> QED BY <1>1, <1>4, <2>1 DEF ResolveFails
<1>5. CASE ResolveFiles
  <2>1. Undisturbed /\ Alone /\ main = "resolve"
    BY <1>5 DEF ResolveFiles, Undisturbed, Truth
  <2>2. Alone'
    BY <1>5, <2>1 DEF ResolveFiles, Alone
  <2>3. PICK c \in Calls : c = call
    BY <1>0, <2>1
  <2>4. Untouched(c)
    BY <1>0, <2>1, <2>3 DEF Bookkeeping
  <2>5. Untouched(c)' /\ call' = c
    BY <1>5, <2>3, <2>4 DEF ResolveFiles, Untouched
  <2> QED BY <2>2, <2>5, TruthUntouched
<1>6. CASE Spawn
  <2>1. /\ UNCHANGED <<call, main, cancelled, files, hasError, status, disk, written>>
        /\ main = "spawn" /\ call \in Calls
    BY <1>0, <1>6 DEF Spawn, callVars
  <2>2. PICK h \in files[call] : /\ pc' = [pc EXCEPT ![<<call, h>>] = "acquire"]
                                 /\ pc[<<call, h>>] = "unborn"
    BY <1>6 DEF Spawn, Unborn
  <2>3. h \in Names /\ <<call, h>> \in Goroutines
    BY <1>0, <2>1, <2>2 DEF Typed, Goroutines
  <2>4. Undisturbed /\ Alone /\ FilesTrue /\ ErrorBlamed
    BY <2>1 DEF Undisturbed, Truth
  <2>5. /\ \A c \in Calls, f \in Names :
               <<c, f>> # <<call, h>> => pc'[<<c, f>>] = pc[<<c, f>>]
        /\ pc'[<<call, h>>] = "acquire"
    BY <1>0, <2>2, <2>3 DEF Typed, Goroutines
  <2>6. Alone'
    BY <2>1, <2>4, <2>5 DEF Alone
  <2>7. FilesTrue'
    BY <2>1, <2>4, <2>5 DEF FilesTrue, FileTruth, HasFailed, OnDisk
  <2>8. ErrorBlamed'
    <3> SUFFICES ASSUME hasError[call]
                 PROVE  \E f \in files[call] :
                            status[f].Phase = "Failed" /\ pc'[<<call, f>>] \in {"send", "release", "ended"}
      BY <2>1 DEF ErrorBlamed, Blamed
    <3>1. PICK f \in files[call] : Blamed(call, f)
      BY <2>1, <2>4 DEF ErrorBlamed
    <3>2. f \in Names /\ f # h
      BY <1>0, <2>1, <2>2, <3>1 DEF Blamed, Typed
    <3> QED BY <2>1, <2>5, <3>1, <3>2 DEF Blamed
  <2> QED BY <2>6, <2>7, <2>8 DEF Truth
<1>7. CASE SpawnCancelled
  <2>1. ~Undisturbed'
    BY <1>0, <1>7 DEF SpawnCancelled, Undisturbed
  <2> QED BY <2>1
<1>8. CASE AllSpawned
  <2>1. Alone => Alone'
    BY <1>8 DEF AllSpawned, Alone
  <2> QED BY <1>1, <1>8, <2>1 DEF AllSpawned
<1>9. CASE Wait
  <2>1. Alone => Alone'
    BY <1>9 DEF Wait, Ended, Resting, Alone
  <2> QED BY <1>1, <1>9, <2>1 DEF Wait
<1>10. ASSUME NEW g \in Goroutines, Goroutine(g) PROVE Truth'
  <2>1. Moves(g)
    BY <1>0, <1>10, GoroutineMoves
  <2>2. UNCHANGED <<call, main, cancelled, files>> /\ pc[g] \notin Resting
    BY <2>1 DEF Moves, callVars
  <2>3. Undisturbed /\ Alone /\ FilesTrue /\ ErrorBlamed
    BY <2>2 DEF Undisturbed, Truth
  <2>4. PICK c \in Calls, h \in Names : g = <<c, h>>
    BY DEF Goroutines
  <2>5. c = call /\ main \in {"spawn", "wait"} /\ ~cancelled[c]
    BY <2>2, <2>3, <2>4 DEF Alone, Undisturbed
  <2>6. FileTruth(c, h)
    BY <2>3, <2>5 DEF FilesTrue
  <2>7. /\ FileTruth(c, h)'
        /\ hasError'[c] => hasError[c] \/ Blamed(c, h)'
        /\ Blamed(c, h) => Blamed(c, h)'
    BY <1>0, <1>10, <2>4, <2>5, <2>6, OwnFile
  <2>8. \A f \in Names : f # h => /\ FileTruth(c, f) => FileTruth(c, f)'
                                  /\ Blamed(c, f) => Blamed(c, f)'
    BY <1>0, <2>1, <2>4, OtherFiles
  <2>9. Alone'
    <3>1. \A d \in Calls, f \in Names : <<d, f>> # g => pc'[<<d, f>>] = pc[<<d, f>>]
      BY <1>0, <2>1 DEF Moves, Typed, Goroutines
    <3> QED BY <2>2, <2>3, <2>4, <2>5, <3>1 DEF Alone
  <2>10. FilesTrue'
    BY <2>2, <2>3, <2>5, <2>7, <2>8 DEF FilesTrue
  <2>11. ErrorBlamed'
    <3> SUFFICES ASSUME hasError'[c]
                 PROVE  \E f \in files[c] : Blamed(c, f)'
      BY <2>2, <2>5 DEF ErrorBlamed
    <3>1. files[c] \subseteq Names /\ h \in files[c]
      BY <1>0, <2>2, <2>4 DEF Typed, Bookkeeping, Resting
    <3>2. CASE hasError[c]
      <4>1. PICK f \in files[c] : Blamed(c, f)
        BY <2>3, <2>5, <3>2 DEF ErrorBlamed
      <4> QED BY <2>7, <2>8, <3>1, <4>1
    <3>3. CASE Blamed(c, h)'
      BY <3>1, <3>3
    <3> QED BY <2>7, <3>2, <3>3
  <2> QED BY <2>9, <2>10, <2>11 DEF Truth
<1>11. CASE UNCHANGED vars
  BY <1>1, <1>11 DEF vars, callVars
<1> QED
  BY <1>2, <1>3, <1>4, <1>5, <1>6, <1>7, <1>8, <1>9, <1>10, <1>11
  DEF Next, DownloadAll, AllEnded

(* While nobody cancels, nil means that every file of the call is Complete *)
(* and on disk, an error means that some file is Failed, and Complete      *)
(* always means that the file is on disk.                                  *)
THEOREM ResultsTrue == Spec => []ResultTruthful
<1>1. Inv /\ Truth => ResultTruthful
  <2> SUFFICES ASSUME Inv, Truth, main = "idle", call > 0, Undisturbed,
                      result[call] \in {"nil", "error"}
               PROVE  /\ result[call] = "nil" => \A f \in files[call] : status[f].Phase = "Complete"
                      /\ result[call] = "error" => \E f \in files[call] : status[f].Phase = "Failed"
                      /\ \A f \in files[call] : status[f].Phase = "Complete" => OnDisk(f)
    BY DEF ResultTruthful
  <2>1. call \in Calls /\ files[call] \subseteq Names
    BY DEF Inv, Typed, Calls
  <2>2. /\ \A f \in files[call] : pc[<<call, f>>] = "ended"
        /\ result[call] = "error" <=> hasError[call]
    BY <2>1 DEF Inv, Returns
  <2>3. \A f \in files[call] :
            HasFailed(call, f) \/ (status[f].Phase = "Complete" /\ OnDisk(f))
    BY <2>1, <2>2 DEF Truth, FilesTrue, FileTruth
  <2>4. hasError[call] => \E f \in files[call] : status[f].Phase = "Failed"
    BY <2>1 DEF Truth, ErrorBlamed, Blamed
  <2> QED BY <2>2, <2>3, <2>4 DEF HasFailed
<1> QED BY InvAlways, TruthInit, TruthStep, <1>1, PTL DEF Spec
=============================================================================
