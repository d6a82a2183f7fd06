-------------------------- MODULE FileFetchProofs --------------------------
(***************************************************************************)
(* Proofs about FileFetch, for every size of the file and of a chunk, and  *)
(* for every number of workers, retries and calls.                         *)
(***************************************************************************)
EXTENDS FileFetch, SequenceTheorems, TLAPS

USE FetchConstants

----------------------------------------------------------------------------
(* computeChunks: the chunks are not empty, follow each other, and end     *)
(* where the file does.                                                    *)

LEMMA Quotient ==
    ASSUME NEW a \in Nat, NEW b \in Nat \ {0}
    PROVE  /\ a \div b \in Nat
           /\ (a \div b) * b <= a
           /\ a < (a \div b) * b + b
<1>1. a \div b \in Int /\ a = b * (a \div b) + (a % b) /\ a % b \in 0 .. (b - 1)
    OBVIOUS
<1> DEFINE q == a \div b
           r == a % b
<1>2. q \in Int /\ a = b * q + r /\ r \in 0 .. (b - 1)
    BY <1>1
<1> HIDE DEF q, r
<1>3. q >= 0
  <2> SUFFICES ASSUME q <= -1 PROVE FALSE
      BY <1>2
  <2>1. b * q <= -b
      BY <1>2
  <2> QED BY <1>2, <2>1
<1>4. q * b = b * q
    BY <1>2
<1>5. q \in Nat /\ q * b <= a /\ a < q * b + b
    BY <1>2, <1>3, <1>4
<1> QED BY <1>5 DEF q

LEMMA ChunkNumber ==
    /\ NumChunks \in Nat \ {0}
    /\ (NumChunks - 1) * ChunkSize < FileSize
    /\ FileSize <= NumChunks * ChunkSize
<1> DEFINE count == (FileSize + ChunkSize - 1) \div ChunkSize
<1>1. /\ count \in Nat
      /\ count * ChunkSize <= FileSize + ChunkSize - 1
      /\ FileSize + ChunkSize - 1 < count * ChunkSize + ChunkSize
  <2>1. FileSize + ChunkSize - 1 \in Nat
      OBVIOUS
  <2> QED BY <2>1, Quotient
<1> HIDE DEF count
<1>2. count # 0
    BY <1>1
<1>3. NumChunks = count
    BY <1>1, <1>2 DEF NumChunks, ChunkCount, count
<1>4. (count - 1) * ChunkSize = count * ChunkSize - ChunkSize
    BY <1>1
<1>5. count * ChunkSize \in Nat
    BY <1>1
<1> QED BY <1>1, <1>2, <1>3, <1>4, <1>5

LEMMA ChunkBounds ==
    ASSUME NEW k \in Chunks
    PROVE  /\ Start(k) \in 0 .. (FileSize - 1)
           /\ End(k) \in Start(k) .. (FileSize - 1)
           /\ ExpectedSize(k) \in 1 .. FileSize
           /\ Start(k) + ExpectedSize(k) = End(k) + 1
           /\ k + 1 < NumChunks => Start(k + 1) = End(k) + 1
           /\ k + 1 = NumChunks => End(k) + 1 = FileSize
<1> DEFINE n == NumChunks
           s == k * ChunkSize
<1>1. n \in Nat \ {0} /\ k \in Nat /\ k <= n - 1
    BY ChunkNumber DEF Chunks
<1>2. s \in Nat /\ s <= (n - 1) * ChunkSize /\ s < FileSize
  <2>1. s \in Nat /\ k * ChunkSize <= (n - 1) * ChunkSize
      BY <1>1
  <2>2. (n - 1) * ChunkSize \in Int
      BY <1>1
  <2> QED BY <2>1, <2>2, ChunkNumber
<1>3. (k + 1) * ChunkSize = s + ChunkSize
    BY <1>1
<1>4. k + 1 < n => s + ChunkSize < FileSize
  <2>1. SUFFICES ASSUME k + 1 < n PROVE s + ChunkSize < FileSize
      OBVIOUS
  <2>2. (k + 1) * ChunkSize <= (n - 1) * ChunkSize
      BY <1>1, <2>1
  <2>3. (n - 1) * ChunkSize \in Int
      BY <1>1
  <2> QED BY <1>2, <1>3, <2>2, <2>3, ChunkNumber
<1>5. k + 1 = n => FileSize <= s + ChunkSize
    BY <1>3, ChunkNumber
<1> HIDE DEF s, n
<1>6. Start(k) = s /\ End(k) = IF s + ChunkSize - 1 >= FileSize THEN FileSize - 1
                                                                ELSE s + ChunkSize - 1
    BY DEF Start, End, ChunkStart, ChunkEnd, s
<1>7. Start(k + 1) = s + ChunkSize
    BY <1>3 DEF Start, ChunkStart
<1>8. ExpectedSize(k) = End(k) - Start(k) + 1
    BY DEF ExpectedSize
<1> QED BY <1>2, <1>4, <1>5, <1>6, <1>7, <1>8 DEF n

LEMMA FirstChunk == 0 \in Chunks /\ Start(0) = 0
BY ChunkNumber DEF Chunks, Start, ChunkStart

----------------------------------------------------------------------------
(* Runs of bytes: what a file or a part holds is a run of the remote file. *)

Run(a, n) == [i \in 1..n |-> a + i - 1]

LEMMA RunSeq ==
    ASSUME NEW a \in Int, NEW n \in Nat
    PROVE  /\ Run(a, n) \in Seq(Int) /\ Len(Run(a, n)) = n
           /\ \A i \in 1..n : Run(a, n)[i] = a + i - 1
           /\ n = 0 => Run(a, n) = <<>>
<1>1. Run(a, n) \in [1..n -> Int]
    BY DEF Run
<1>2. Run(a, n) \in Seq(Int) /\ Len(Run(a, n)) = n
    BY <1>1
<1> QED BY <1>2, EmptySeq DEF Run

LEMMA RunOfBytes ==
    ASSUME NEW a \in Nat, NEW n \in Nat, a + n <= FileSize
    PROVE  Run(a, n) \in Seq(Bytes)
<1>1. Run(a, n) \in [1..n -> Bytes]
    BY DEF Run, Bytes, Hole
<1> QED BY <1>1

LEMMA RunEqual ==
    ASSUME NEW a \in Int, NEW n \in Nat, NEW s \in Seq(Int), Len(s) = n,
           \A i \in 1..n : s[i] = a + i - 1
    PROVE  s = Run(a, n)
BY RunSeq, SeqEqual

LEMMA RunAppend ==
    ASSUME NEW a \in Int, NEW n \in Nat
    PROVE  Append(Run(a, n), a + n) = Run(a, n + 1)
<1> DEFINE r == Run(a, n)
           s == Append(r, a + n)
<1>1. r \in Seq(Int) /\ Len(r) = n /\ \A i \in 1..n : r[i] = a + i - 1
    BY RunSeq
<1> HIDE DEF r
<1>2. s \in Seq(Int) /\ Len(s) = n + 1
    BY <1>1
<1>3. \A i \in 1..(n + 1) : s[i] = a + i - 1
    BY <1>1
<1> HIDE DEF s
<1>4. s = Run(a, n + 1)
    BY <1>2, <1>3, RunEqual
<1> QED BY <1>4 DEF s, r

LEMMA RunConcat ==
    ASSUME NEW a \in Int, NEW n \in Nat, NEW m \in Nat
    PROVE  Run(a, n) \o Run(a + n, m) = Run(a, n + m)
<1> DEFINE r == Run(a, n)
           t == Run(a + n, m)
           s == r \o t
<1>1. r \in Seq(Int) /\ Len(r) = n /\ \A i \in 1..n : r[i] = a + i - 1
    BY RunSeq
<1>2. t \in Seq(Int) /\ Len(t) = m /\ \A i \in 1..m : t[i] = (a + n) + i - 1
  <2>1. a + n \in Int
      OBVIOUS
  <2> QED BY <2>1, RunSeq
<1> HIDE DEF r, t
<1>3. /\ s \in Seq(Int) /\ Len(s) = Len(r) + Len(t)
      /\ \A i \in 1..(Len(r) + Len(t)) : s[i] = IF i <= Len(r) THEN r[i] ELSE t[i - Len(r)]
    BY <1>1, <1>2, ConcatProperties
<1>4. ASSUME NEW i \in 1..(n + m) PROVE s[i] = a + i - 1
  <2> HIDE DEF s
  <2>1. s[i] = IF i <= n THEN r[i] ELSE t[i - n]
      BY <1>1, <1>2, <1>3
  <2>2. CASE i <= n
    <3>1. i \in 1..n
        BY <2>2
    <3> QED BY <1>1, <2>1, <2>2, <3>1
  <2>3. CASE i > n
    <3>1. i - n \in 1..m
        BY <2>3
    <3>2. t[i - n] = (a + n) + (i - n) - 1
        BY <1>2, <3>1
    <3> QED BY <2>1, <2>3, <3>2
  <2> QED BY <2>2, <2>3
<1> HIDE DEF s
<1>5. s = Run(a, n + m)
    BY <1>1, <1>2, <1>3, <1>4, RunEqual
<1> QED BY <1>5 DEF s, r, t

LEMMA RunWrite ==
    ASSUME NEW a \in Int, NEW n \in Nat
    PROVE  WriteAt(Run(a, n), n, a + n) = Run(a, n + 1)
<1> DEFINE r == Run(a, n)
<1>1. Len(r) = n /\ \A i \in 1..n : r[i] = a + i - 1
    BY RunSeq
<1> HIDE DEF r
<1>2. WriteAt(r, n, a + n) = [i \in 1..(n + 1) |-> a + i - 1]
    BY <1>1 DEF WriteAt
<1> QED BY <1>2 DEF Run, r

LEMMA Runs ==
    /\ Whole = Run(0, FileSize)
    /\ \A n : Prefix(n) = Run(0, n)
    /\ \A k : ChunkBytes(k) = Run(Start(k), ExpectedSize(k))
BY DEF Whole, Prefix, ChunkBytes, Run

----------------------------------------------------------------------------
(* The inductive invariants.                                               *)

Holds(p) == worker[p].pc \in {"stat", "get", "copy", "stalled", "sleep"}

(* What keeps the types: a handle that has a name is that of a part that   *)
(* is there, and a worker writes no further than its range reaches.        *)
Typed ==
    /\ FetchTypeOK
    /\ phase = "assemble" => tmp # Absent
    /\ phase # "idle" => calls > 0
    /\ \A p \in Pool :
          /\ worker[p].linked => parts[worker[p].chunk] # Absent
          /\ worker[p].pc = "copy" =>
                worker[p].next <= worker[p].last + 1 /\ worker[p].pos <= worker[p].next

(* The workers that run belong to the last call, they start and have ended *)
(* with its chunked part, and no two of them hold the same chunk.          *)
Workers ==
    /\ \A p \in Pool : Running(p) => p[1] = calls
    /\ phase \in {"xet", "xet_copy", "head", "assemble", "cleanup"} => NobodyRuns
    /\ \A p \in Pool : Holds(p) => worker[p].chunk < queue[p[1]]
    /\ \A p, q \in Pool :
          Holds(p) /\ Holds(q) /\ worker[p].chunk = worker[q].chunk => p = q

(* Every part is a first piece of its chunk, and one that is being written *)
(* goes on where it ends.                                                  *)
PartHonest(k) ==
    parts[k] # Absent =>
        /\ parts[k] = Run(Start(k), Len(parts[k]))
        /\ Len(parts[k]) \in 0 .. ExpectedSize(k)

CopyHonest(p) ==
    LET w == worker[p]
    IN  w.pc = "copy" =>
            /\ w.linked
            /\ parts[w.chunk] = Run(Start(w.chunk), w.pos)
            /\ w.next = Start(w.chunk) + w.pos /\ w.last = End(w.chunk)

PartsHonest == (\A k \in Chunks : PartHonest(k)) /\ (\A p \in Pool : CopyHonest(p))

(* As long as no worker has failed, every chunk that was taken is either   *)
(* held by a worker or complete, and the workers end with the queue.       *)
Taken ==
    phase = "chunked" /\ calls \notin failed =>
        /\ \A k \in Chunks :
              k < queue[calls] => PartIsThere(k) \/ \E p \in Pool : Holds(p) /\ worker[p].chunk = k
        /\ queue[calls] = NumChunks \/ \E p \in Pool : Running(p)

(* The bytes of the first n chunks.                                        *)
Joined(n) == Run(0, IF n = NumChunks THEN FileSize ELSE Start(n))

Assembled ==
    phase = "assemble" => (\A k \in Chunks : PartIsThere(k)) /\ tmp = Joined(asm)

(* The local file is a prefix of the remote one, a copy goes on at its     *)
(* end, and after a success it is whole.                                   *)
FileHonest ==
    /\ file # Absent => file = Run(0, Len(file)) /\ Len(file) \in 0 .. FileSize
    /\ Copying => file = Run(0, body)
    /\ phase = "cleanup" => file = Whole
    /\ phase # "idle" => result = "none"
    /\ Delivered

Inv == Typed /\ Workers /\ PartsHonest /\ Taken /\ Assembled /\ FileHonest

----------------------------------------------------------------------------
(* Types.                                                                  *)

LEMMA ContentOf ==
    /\ <<>> \in Content /\ <<>> \in Seq(Bytes) /\ Len(<<>>) = 0
    /\ \A s \in Seq(Bytes) : s \in Content /\ s # Absent /\ s \in Seq(Int)
    /\ \A s \in Content : s # Absent => s \in Seq(Bytes)
<1>1. Bytes \subseteq Int
    BY DEF Bytes, Hole
<1>2. \A s \in Seq(Bytes) : s \in Seq(Int)
    BY <1>1, SeqMonotonic
<1>3. <<>> \in Seq(Bytes) /\ Len(<<>>) = 0
    OBVIOUS
<1> QED BY <1>2, <1>3 DEF Content

LEMMA WrittenContent ==
    ASSUME NEW s \in Seq(Bytes), NEW pos \in Nat, NEW byte \in Bytes
    PROVE  WriteAt(s, pos, byte) \in Seq(Bytes)
<1> DEFINE len == IF Len(s) > pos THEN Len(s) ELSE pos + 1
           At(i) == IF i = pos + 1 THEN byte ELSE IF i <= Len(s) THEN s[i] ELSE Hole
<1>1. len \in Nat
    OBVIOUS
<1>2. \A i \in 1..len : At(i) \in Bytes
  <2>1. Hole \in Bytes
      BY DEF Bytes, Hole
  <2>2. \A i \in 1..Len(s) : s[i] \in Bytes
      OBVIOUS
  <2> QED BY <2>1, <2>2
<1> HIDE DEF len, At
<1>3. [i \in 1..len |-> At(i)] \in [1..len -> Bytes]
    BY <1>2
<1>4. [i \in 1..len |-> At(i)] \in Seq(Bytes)
    BY <1>1, <1>3
<1> QED BY <1>4 DEF WriteAt, len, At

LEMMA WorkerTypes ==
    /\ NoWorker \in WorkerState /\ BetweenChunks \in WorkerState
    /\ \A k \in Chunks, a \in 0..MaxRetries :
          /\ [NoWorker EXCEPT !.pc = "stat", !.chunk = k] \in WorkerState
          /\ [NoWorker EXCEPT !.pc = "sleep", !.chunk = k, !.attempt = a] \in WorkerState
<1>1. /\ 0 \in 0..MaxRetries /\ 0 \in 0..FileSize /\ 0 \in 0..(FileSize - 1)
      /\ 0 \in Chunks
    BY FirstChunk
<1>2. NoWorker \in WorkerState
    BY <1>1 DEF NoWorker, WorkerState
<1>3. BetweenChunks \in WorkerState
    BY <1>2 DEF BetweenChunks, WorkerState
<1>4. ASSUME NEW k \in Chunks, NEW a \in 0..MaxRetries
      PROVE  /\ [NoWorker EXCEPT !.pc = "stat", !.chunk = k] \in WorkerState
             /\ [NoWorker EXCEPT !.pc = "sleep", !.chunk = k, !.attempt = a] \in WorkerState
    BY <1>2 DEF WorkerState
<1> QED BY <1>2, <1>3, <1>4

LEMMA TypedInit == FetchInit => Typed
<1> SUFFICES ASSUME FetchInit PROVE Typed
    OBVIOUS
<1>1. \A p \in Pool : ~worker[p].linked /\ worker[p].pc = "off"
    BY DEF FetchInit, NoWorker
<1>2. FetchTypeOK
  <2>1. /\ worker \in [Pool -> WorkerState] /\ parts \in [Chunks -> Content]
        /\ queue \in [1..MaxCalls -> 0..NumChunks]
    <3>1. worker \in [Pool -> WorkerState]
        BY WorkerTypes DEF FetchInit
    <3>2. parts \in [Chunks -> Content]
        BY DEF FetchInit, Content
    <3>3. 0 \in 0..NumChunks
        BY ChunkNumber
    <3> QED BY <3>1, <3>2, <3>3 DEF FetchInit
  <2>2. /\ phase \in Phases /\ calls \in 0..MaxCalls /\ asm \in 0..NumChunks
        /\ body \in 0..FileSize /\ file \in Content /\ tmp \in Content
      BY ChunkNumber DEF FetchInit, Phases, Content
  <2>3. /\ cancelled \subseteq 1..MaxCalls /\ failed \subseteq 1..MaxCalls
        /\ result \in {"none", "ok", "err"} /\ ~Copying
      BY DEF FetchInit, Copying
  <2> QED BY <2>1, <2>2, <2>3 DEF FetchTypeOK
<1>3. phase = "idle"
    BY DEF FetchInit
<1> QED BY <1>1, <1>2, <1>3 DEF Typed

(* A step of the caller that leaves the chunked download alone.            *)
LEMMA TypedPhase ==
    ASSUME Typed, UNCHANGED Chunked,
           phase' \in Phases \ {"assemble"}, calls' \in 0..MaxCalls, cancelled' \subseteq 1..MaxCalls,
           result' \in {"none", "ok", "err"}, file' \in Content, body' \in 0..FileSize,
           Copying' => file' # Absent, phase' # "idle" => calls' > 0
    PROVE  Typed'
BY DEF Typed, FetchTypeOK, Chunked

LEMMA TypedCaller ==
    ASSUME Typed, Begin \/ Cancel \/ CallerStep \/ Crash
    PROVE  Typed'
<1> USE DEF Phases
<1>0. /\ phase \in Phases /\ calls \in 0..MaxCalls /\ cancelled \subseteq 1..MaxCalls
      /\ result \in {"none", "ok", "err"} /\ file \in Content /\ body \in 0..FileSize
      /\ Copying => file # Absent
      /\ phase # "idle" => calls \in 1..MaxCalls
      /\ 0 \in 0..FileSize
    BY DEF Typed, FetchTypeOK
<1>1. CASE Begin
    BY <1>0, <1>1, TypedPhase DEF Begin, Copying
<1>2. CASE Cancel
  <2>1. CASE phase = "assemble"
      BY <1>0, <1>2, <2>1 DEF Cancel, Typed, FetchTypeOK, Chunked, Copying
  <2>2. CASE phase # "assemble"
      BY <1>0, <1>2, <2>2, TypedPhase DEF Cancel, Copying
  <2> QED BY <2>1, <2>2
<1>3. CASE XetFails \/ HeadRefuses \/ CollectError \/ AssembleFails \/ ResumeFails \/ FreshFails
  <2>1. phase' \in {"head", "resume", "fresh", "idle"} /\ phase # "idle"
      BY <1>3 DEF XetFails, HeadRefuses, CollectError, AssembleFails, ResumeFails, FreshFails
  <2>2. result' \in {result, "err"} /\ UNCHANGED <<calls, cancelled, file, body>> /\ UNCHANGED Chunked
      BY <1>3 DEF XetFails, HeadRefuses, CollectError, AssembleFails, ResumeFails, FreshFails
  <2> QED BY <1>0, <2>1, <2>2, TypedPhase DEF Copying
<1>4. CASE XetWrites \/ Fresh
  <2>1. /\ phase' \in {"xet_copy", "fresh_copy"} /\ phase # "idle" /\ file' = <<>> /\ body' = 0
        /\ UNCHANGED <<calls, cancelled, result>> /\ UNCHANGED Chunked
      BY <1>4 DEF XetWrites, Fresh
  <2>2. file' \in Content /\ file' # Absent
      BY <2>1, ContentOf
  <2> QED BY <1>0, <2>1, <2>2, TypedPhase
<1>5. CASE CopyByte
  <2>1. Append(file, body) \in Seq(Bytes)
    <3>1. file \in Seq(Bytes) /\ body \in Bytes
        BY <1>0, <1>5, ContentOf DEF CopyByte, Bytes, Hole
    <3> QED BY <3>1
  <2>2. phase # "assemble" /\ phase # "idle" /\ body + 1 \in 0..FileSize
      BY <1>0, <1>5 DEF CopyByte, Copying
  <2>3. file' \in Content /\ file' # Absent
      BY <1>5, <2>1, ContentOf DEF CopyByte
  <2> QED BY <1>0, <1>5, <2>2, <2>3, TypedPhase DEF CopyByte
<1>6. CASE CopyDone \/ CopyFails
    BY <1>0, <1>6, TypedPhase DEF CopyDone, CopyFails, Copying
<1>7. CASE Resumes
  <2>1. body' \in 0..FileSize
      BY <1>0, <1>7, ContentOf DEF Resumes
  <2> QED BY <1>0, <1>7, <2>1, TypedPhase DEF Resumes, Copying
<1>8. CASE HeadAccepts
  <2>1. worker' \in [Pool -> WorkerState] /\ queue' \in [1..MaxCalls -> 0..NumChunks]
    <3>1. 0 \in 0..NumChunks /\ calls \in 1..MaxCalls
        BY <1>0, <1>8, ChunkNumber DEF HeadAccepts
    <3> QED BY <1>8, <3>1, WorkerTypes DEF HeadAccepts, Typed, FetchTypeOK
  <2>2. \A p \in Pool : worker'[p] = BetweenChunks \/ worker'[p] = worker[p]
      BY <1>8 DEF HeadAccepts
  <2>3. ~BetweenChunks.linked /\ BetweenChunks.pc # "copy"
      BY DEF BetweenChunks, NoWorker
  <2> QED BY <1>0, <1>8, <2>1, <2>2, <2>3 DEF HeadAccepts, Typed, FetchTypeOK, Copying
<1>9. CASE CollectAll
  <2>1. 0 \in 0..NumChunks
      BY ChunkNumber
  <2>2. tmp' \in Content /\ tmp' # Absent
      BY <1>9, ContentOf DEF CollectAll
  <2> QED BY <1>0, <1>9, <2>1, <2>2 DEF CollectAll, Typed, FetchTypeOK, Copying
<1>10. CASE AssemblePart
  <2>1. asm \in Chunks /\ asm + 1 \in 0..NumChunks
      BY <1>10, ChunkNumber DEF AssemblePart, Typed, FetchTypeOK, Chunks
  <2>2. tmp \o parts[asm] \in Seq(Bytes)
    <3>1. tmp \in Seq(Bytes) /\ parts[asm] \in Seq(Bytes)
        BY <1>10, <2>1, ContentOf DEF AssemblePart, Typed, FetchTypeOK
    <3> QED BY <3>1
  <2>3. tmp' \in Content /\ tmp' # Absent
      BY <1>10, <2>2, ContentOf DEF AssemblePart
  <2> QED BY <1>0, <1>10, <2>1, <2>3 DEF AssemblePart, Typed, FetchTypeOK, Copying
<1>11. CASE Rename
    BY <1>0, <1>11, ChunkNumber DEF Rename, Typed, FetchTypeOK, Content, Copying
<1>12. CASE CleanupPart
  <2>1. asm \in Chunks /\ asm + 1 \in 0..NumChunks
      BY <1>12, ChunkNumber DEF CleanupPart, Typed, FetchTypeOK, Chunks
  <2>2. parts' \in [Chunks -> Content]
      BY <1>12 DEF CleanupPart, Typed, FetchTypeOK, Content
  <2>3. \A p \in Pool :
          /\ [worker[p] EXCEPT !.linked = FALSE] \in WorkerState
          /\ worker'[p] \in {worker[p], [worker[p] EXCEPT !.linked = FALSE]}
          /\ worker'[p].linked => worker[p].linked /\ worker[p].chunk # asm
    BY <1>12 DEF CleanupPart, Typed, FetchTypeOK, WorkerState
  <2>4. worker' \in [Pool -> WorkerState]
      BY <1>12, <2>3 DEF CleanupPart, Typed, FetchTypeOK
  <2>5. ASSUME NEW p \in Pool
        PROVE  /\ worker'[p].linked => parts'[worker'[p].chunk] # Absent
               /\ worker'[p].pc = "copy" =>
                      worker'[p].next <= worker'[p].last + 1 /\ worker'[p].pos <= worker'[p].next
    <3>1. worker[p] \in WorkerState
        BY DEF Typed, FetchTypeOK
    <3>2. /\ worker'[p].chunk = worker[p].chunk /\ worker'[p].pc = worker[p].pc
          /\ worker'[p].next = worker[p].next /\ worker'[p].last = worker[p].last
          /\ worker'[p].pos = worker[p].pos
      <4>1. CASE worker'[p] = worker[p]
          BY <4>1
      <4>2. CASE worker'[p] = [worker[p] EXCEPT !.linked = FALSE]
          BY <3>1, <4>2 DEF WorkerState
      <4> QED BY <2>3, <4>1, <4>2
    <3>3. worker'[p].linked => parts'[worker[p].chunk] = parts[worker[p].chunk]
        BY <1>12, <2>3, <3>1 DEF CleanupPart, WorkerState, Typed, FetchTypeOK
    <3> QED BY <2>3, <3>2, <3>3, ZenonT(30) DEF Typed
  <2> QED BY <1>0, <1>12, <2>1, <2>2, <2>4, <2>5 DEF CleanupPart, Typed, FetchTypeOK, Copying
<1>13. CASE CleanupDone
    BY <1>0, <1>13, ChunkNumber DEF CleanupDone, Typed, FetchTypeOK, Copying
<1>14. CASE Crash
  <2>1. worker' \in [Pool -> WorkerState] /\ \A p \in Pool : ~worker'[p].linked /\ worker'[p].pc = "off"
      BY <1>14, WorkerTypes DEF Crash, NoWorker
  <2> QED BY <1>0, <1>14, <2>1, ChunkNumber DEF Crash, disk, Typed, FetchTypeOK, Copying
<1>15. CASE NoHeader
  <2>1. /\ phase' \in {"resume_wait", "fresh_wait"} /\ phase # "idle" /\ file' \in {file, <<>>}
        /\ UNCHANGED <<calls, cancelled, result, body>> /\ UNCHANGED Chunked
      BY <1>15 DEF NoHeader
  <2>2. file' \in Content
      BY <1>0, <2>1, ContentOf
  <2> QED BY <1>0, <2>1, <2>2, TypedPhase DEF Copying
<1>16. CASE HeaderFails
  <2>1. /\ phase' \in {"fresh", "idle"} /\ phase # "idle" /\ result' \in {result, "err"}
        /\ UNCHANGED <<calls, cancelled, file, body>> /\ UNCHANGED Chunked
      BY <1>16 DEF HeaderFails
  <2> QED BY <1>0, <2>1, TypedPhase DEF Copying
<1> QED BY <1>1, <1>2, <1>3, <1>4, <1>5, <1>6, <1>7, <1>8, <1>9, <1>10, <1>11, <1>12, <1>13, <1>14, <1>15, <1>16
        DEF CallerStep

(* A worker sets its own record; what it writes stays typed.               *)
LEMMA TypedWorker ==
    ASSUME Typed, UNCHANGED Caller, NEW p \in Pool, NEW w \in WorkerState,
           worker' = [worker EXCEPT ![p] = w],
           parts' \in [Chunks -> Content],
           \A k \in Chunks : parts[k] # Absent => parts'[k] # Absent,
           queue' \in [1..MaxCalls -> 0..NumChunks], failed' \subseteq 1..MaxCalls,
           w.linked => parts'[w.chunk] # Absent,
           w.pc = "copy" => w.next <= w.last + 1 /\ w.pos <= w.next
    PROVE  Typed'
<1>1. FetchTypeOK'
    BY DEF Typed, FetchTypeOK, Caller, Copying
<1>2. phase' = "assemble" => tmp' # Absent
    BY DEF Typed, Caller
<1>3. phase' # "idle" => calls' > 0
    BY DEF Typed, Caller
<1>4. ASSUME NEW q \in Pool
      PROVE  /\ worker'[q].linked => parts'[worker'[q].chunk] # Absent
             /\ worker'[q].pc = "copy" =>
                   worker'[q].next <= worker'[q].last + 1 /\ worker'[q].pos <= worker'[q].next
  <2>1. CASE q = p
      BY <2>1 DEF Typed, FetchTypeOK
  <2>2. CASE q # p
    <3>1. worker'[q] = worker[q] /\ worker[q].chunk \in Chunks
        BY <2>2 DEF Typed, FetchTypeOK, WorkerState
    <3> QED BY <3>1 DEF Typed
  <2> QED BY <2>1, <2>2
<1> QED BY <1>1, <1>2, <1>3, <1>4 DEF Typed

LEMMA TypedWorkers ==
    ASSUME Typed, NEW p \in Pool, WorkerStep(p)
    PROVE  Typed'
<1> DEFINE w == worker[p]
           k == w.chunk
<1>0. /\ w \in WorkerState /\ k \in Chunks /\ p[1] \in 1..MaxCalls
      /\ worker \in [Pool -> WorkerState]
      /\ parts \in [Chunks -> Content] /\ failed \subseteq 1..MaxCalls
      /\ queue \in [1..MaxCalls -> 0..NumChunks]
      /\ w.attempt \in 0..MaxRetries
    BY DEF Typed, FetchTypeOK, WorkerState, Pool
<1>a. failed \cup {p[1]} \subseteq 1..MaxCalls
    BY <1>0
<1>b. /\ ~NoWorker.linked /\ NoWorker.pc # "copy"
      /\ ~BetweenChunks.linked /\ BetweenChunks.pc # "copy"
    BY DEF NoWorker, BetweenChunks
<1> HIDE DEF w
<1>1. CASE TakeChunk(p)
  <2>1. CASE queue[p[1]] < NumChunks
    <3> DEFINE new == [NoWorker EXCEPT !.pc = "stat", !.chunk = queue[p[1]]]
    <3>1. queue[p[1]] \in Chunks /\ queue[p[1]] + 1 \in 0..NumChunks
        BY <1>0, <2>1, ChunkNumber DEF Chunks
    <3>2. new \in WorkerState
      <4>1. 0 \in 0..MaxRetries
          OBVIOUS
      <4> QED BY <3>1, <4>1, WorkerTypes
    <3>3. ~new.linked /\ new.pc # "copy"
        BY DEF NoWorker
    <3>4. queue' \in [1..MaxCalls -> 0..NumChunks]
        BY <1>0, <1>1, <2>1, <3>1 DEF TakeChunk
    <3>5. worker' = [worker EXCEPT ![p] = new] /\ UNCHANGED Caller /\ UNCHANGED <<parts, failed>>
        BY <1>1, <2>1 DEF TakeChunk
    <3> HIDE DEF new
    <3> QED BY <1>0, <3>2, <3>3, <3>4, <3>5, TypedWorker
  <2>2. CASE ~(queue[p[1]] < NumChunks)
      BY <1>0, <1>1, <1>b, <2>2, WorkerTypes, TypedWorker DEF TakeChunk
  <2> QED BY <2>1, <2>2
<1>2. CASE StatPart(p)
  <2>1. CASE PartIsThere(worker[p].chunk)
      BY <1>0, <1>2, <1>b, <2>1, WorkerTypes, TypedWorker DEF StatPart
  <2>2. CASE ~PartIsThere(worker[p].chunk)
    <3> DEFINE new == [w EXCEPT !.pc = "get"]
    <3>1. new \in WorkerState /\ new.pc # "copy" /\ new.linked = w.linked /\ new.chunk = k
        BY <1>0 DEF WorkerState
    <3>2. worker' = [worker EXCEPT ![p] = new] /\ UNCHANGED Caller /\ UNCHANGED <<parts, queue, failed>>
        BY <1>2, <2>2 DEF StatPart, w
    <3>3. w.linked => parts[k] # Absent
        BY DEF Typed, w
    <3> HIDE DEF new
    <3> QED BY <1>0, <3>1, <3>2, <3>3, TypedWorker
  <2> QED BY <2>1, <2>2
<1>3. CASE GetChunk(p)
  <2>1. PICK whole \in {FALSE, IgnoresRange} :
            worker' = [worker EXCEPT ![p] =
                  [pc |-> "copy", chunk |-> k, attempt |-> w.attempt, pos |-> 0,
                   next |-> IF whole THEN 0 ELSE Start(k),
                   last |-> IF whole THEN FileSize - 1 ELSE End(k), linked |-> TRUE]]
      BY <1>3 DEF GetChunk, w
  <2> DEFINE new == [pc |-> "copy", chunk |-> k, attempt |-> w.attempt, pos |-> 0,
                     next |-> IF whole THEN 0 ELSE Start(k),
                     last |-> IF whole THEN FileSize - 1 ELSE End(k), linked |-> TRUE]
  <2>2. Start(k) \in 0..FileSize /\ End(k) \in 0..(FileSize - 1) /\ Start(k) <= End(k)
      BY <1>0, ChunkBounds
  <2>3. new \in WorkerState
      BY <1>0, <2>2, SMTT(30) DEF WorkerState
  <2>4. new.next <= new.last + 1 /\ new.pos <= new.next /\ new.chunk = k
      BY <2>2
  <2>5. /\ parts' \in [Chunks -> Content] /\ parts'[k] # Absent
        /\ \A c \in Chunks : parts[c] # Absent => parts'[c] # Absent
        /\ UNCHANGED Caller /\ UNCHANGED <<queue, failed>>
      BY <1>0, <1>3, ContentOf DEF GetChunk, w
  <2>6. worker' = [worker EXCEPT ![p] = new]
      BY <2>1
  <2> HIDE DEF new
  <2> QED BY <1>0, <2>3, <2>4, <2>5, <2>6, TypedWorker
<1>4. CASE WriteByte(p)
  <2> DEFINE new == [w EXCEPT !.pos = w.pos + 1, !.next = w.next + 1]
  <2>0. /\ w.pc = "copy" /\ w.next <= w.last /\ w.pos <= w.next
        /\ w.linked => parts[k] # Absent
        /\ w.pos \in Nat /\ w.next \in 0..FileSize /\ w.last \in 0..(FileSize - 1)
      BY <1>0, <1>4 DEF WriteByte, Typed, WorkerState, w
  <2>1. new \in WorkerState /\ new.linked = w.linked /\ new.chunk = k
        /\ new.next = w.next + 1 /\ new.pos = w.pos + 1 /\ new.last = w.last
    <3>1. w.pos + 1 \in 0..FileSize /\ w.next + 1 \in 0..FileSize
        BY <2>0
    <3> QED BY <1>0, <3>1 DEF WorkerState
  <2>2. worker' = [worker EXCEPT ![p] = new]
      BY <1>0, <1>4 DEF WriteByte, w
  <2>3. w.linked => WriteAt(parts[k], w.pos, w.next) \in Seq(Bytes)
    <3>1. w.linked => parts[k] \in Seq(Bytes)
        BY <1>0, <2>0, ContentOf
    <3>2. w.next \in Bytes
        BY <2>0 DEF Bytes, Hole
    <3> QED BY <2>0, <3>1, <3>2, WrittenContent
  <2>4. parts' = IF w.linked THEN [parts EXCEPT ![k] = WriteAt(parts[k], w.pos, w.next)] ELSE parts
      BY <1>4 DEF WriteByte, w
  <2>5. /\ parts' \in [Chunks -> Content]
        /\ \A c \in Chunks : parts[c] # Absent => parts'[c] # Absent
      BY <1>0, <2>3, <2>4, ContentOf
  <2>6. UNCHANGED Caller /\ UNCHANGED <<queue, failed>>
      BY <1>4 DEF WriteByte
  <2> HIDE DEF new
  <2>7. new.linked => parts'[new.chunk] # Absent
      BY <1>0, <2>0, <2>1, <2>5
  <2>8. new.pc = "copy" => new.next <= new.last + 1 /\ new.pos <= new.next
      BY <2>0, <2>1
  <2> QED BY <1>0, <2>1, <2>2, <2>5, <2>6, <2>7, <2>8, TypedWorker
<1>5. CASE ChunkDone(p)
    BY <1>0, <1>5, <1>b, WorkerTypes, TypedWorker DEF ChunkDone
<1>6. CASE AttemptFails(p)
  <2>1. CASE p[1] \in cancelled \/ worker[p].attempt = MaxRetries
      BY <1>0, <1>6, <1>a, <1>b, <2>1, WorkerTypes, TypedWorker DEF AttemptFails
  <2>2. CASE ~(p[1] \in cancelled \/ worker[p].attempt = MaxRetries)
    <3> DEFINE new == [NoWorker EXCEPT !.pc = "sleep", !.chunk = k, !.attempt = w.attempt + 1]
    <3>1. w.attempt + 1 \in 0..MaxRetries
        BY <1>0, <2>2 DEF w
    <3>2. new \in WorkerState /\ ~new.linked /\ new.pc # "copy"
        BY <1>0, <3>1, WorkerTypes DEF NoWorker
    <3>3. worker' = [worker EXCEPT ![p] = new] /\ UNCHANGED Caller /\ UNCHANGED <<parts, queue, failed>>
        BY <1>6, <2>2 DEF AttemptFails, w
    <3> HIDE DEF new
    <3> QED BY <1>0, <3>2, <3>3, TypedWorker
  <2> QED BY <2>1, <2>2
<1>7. CASE WakeUp(p)
  <2> DEFINE new == [w EXCEPT !.pc = "stat"]
  <2>1. new \in WorkerState /\ new.pc # "copy" /\ new.linked = w.linked /\ new.chunk = k
      BY <1>0 DEF WorkerState
  <2>2. worker' = [worker EXCEPT ![p] = new] /\ UNCHANGED Caller /\ UNCHANGED <<parts, queue, failed>>
      BY <1>0, <1>7 DEF WakeUp, w
  <2>3. w.linked => parts[k] # Absent
      BY DEF Typed, w
  <2> HIDE DEF new
  <2> QED BY <1>0, <2>1, <2>2, <2>3, TypedWorker
<1>8. CASE SleepCancelled(p)
    BY <1>0, <1>8, <1>a, <1>b, WorkerTypes, TypedWorker DEF SleepCancelled
<1>9. CASE ResponseStalls(p)
  <2> DEFINE new == [w EXCEPT !.pc = "stalled"]
  <2>1. new \in WorkerState /\ new.pc # "copy" /\ new.linked = w.linked /\ new.chunk = k
      BY <1>0 DEF WorkerState
  <2>2. worker' = [worker EXCEPT ![p] = new] /\ UNCHANGED Caller /\ UNCHANGED <<parts, queue, failed>>
      BY <1>0, <1>9 DEF ResponseStalls, w
  <2>3. w.linked => parts[k] # Absent
      BY DEF Typed, w
  <2> HIDE DEF new
  <2> QED BY <1>0, <2>1, <2>2, <2>3, TypedWorker
<1> QED BY <1>1, <1>2, <1>3, <1>4, <1>5, <1>6, <1>7, <1>8, <1>9 DEF WorkerStep

LEMMA TypedStep == Typed /\ [FetchNext]_vars => Typed'
<1> SUFFICES ASSUME Typed, [FetchNext]_vars PROVE Typed'
    OBVIOUS
<1>1. CASE UNCHANGED vars
    BY <1>1 DEF vars, Typed, FetchTypeOK, Copying
<1> QED BY <1>1, TypedCaller, TypedWorkers DEF FetchNext

(* Every variable of the fetch of a file keeps its type: whatever workers  *)
(* an earlier call left behind, with a server that ignores ranges too.     *)
THEOREM FetchTyped == FetchSpec => []FetchTypeOK
<1>1. FetchSpec => []Typed
    BY TypedInit, TypedStep, PTL DEF FetchSpec
<1>2. Typed => FetchTypeOK
    BY DEF Typed
<1> QED BY <1>1, <1>2, PTL

----------------------------------------------------------------------------
(* What one step of a worker may do.                                       *)

(* A chunk that is copied to its end is complete.                          *)
LEMMA CopiedIsThere ==
    ASSUME Typed, PartsHonest, NEW p \in Pool, worker[p].pc = "copy",
           ~(worker[p].next <= worker[p].last)
    PROVE  PartIsThere(worker[p].chunk)
<1> DEFINE w == worker[p]
           k == w.chunk
<1>1. k \in Chunks /\ w.pos \in Nat /\ w.next \in Nat /\ w.last \in Nat
    BY DEF Typed, FetchTypeOK, WorkerState
<1>2. /\ w.linked /\ parts[k] = Run(Start(k), w.pos)
      /\ w.next = Start(k) + w.pos /\ w.last = End(k)
    BY DEF PartsHonest, CopyHonest
<1>3. parts[k] # Absent /\ Len(parts[k]) <= ExpectedSize(k)
    BY <1>1, <1>2, ChunkBounds DEF Typed, PartsHonest, PartHonest
<1>4. Start(k) \in Int /\ End(k) \in Int /\ ExpectedSize(k) \in Int
      /\ Start(k) + ExpectedSize(k) = End(k) + 1
    BY <1>1, ChunkBounds
<1>5. Len(parts[k]) = w.pos
  <2>1. Len(Run(Start(k), w.pos)) = w.pos
    <3> HIDE DEF w, k
    <3> QED BY <1>1, <1>4, RunSeq
  <2> QED BY <1>2, <2>1
<1> HIDE DEF w
<1>6. w.pos = ExpectedSize(k)
  <2>1. ~(w.next <= w.last)
      BY DEF w
  <2> QED BY <1>1, <1>2, <1>3, <1>4, <1>5, <2>1
<1> QED BY <1>3, <1>5, <1>6 DEF PartIsThere, w

Takes(p) ==
    /\ ~Holds(p) /\ Holds(p)' /\ queue[p[1]] < NumChunks
    /\ worker'[p].chunk = queue[p[1]]
    /\ queue' = [queue EXCEPT ![p[1]] = @ + 1]

Keeps(p) ==
    /\ Holds(p) /\ Holds(p)' /\ worker'[p].chunk = worker[p].chunk
    /\ UNCHANGED queue

GivesBack(p) ==
    /\ worker'[p] = BetweenChunks /\ Holds(p)
    /\ PartIsThere(worker[p].chunk) /\ UNCHANGED <<parts, queue>>

Ends(p) ==
    /\ worker'[p] = NoWorker /\ UNCHANGED <<parts, queue>>
    /\ p[1] \in failed' \/ (queue[p[1]] = NumChunks /\ ~Holds(p))

LEMMA StepOfWorker ==
    ASSUME Typed, PartsHonest, NEW p \in Pool, WorkerStep(p)
    PROVE  /\ Running(p) /\ UNCHANGED Caller
           /\ \A q \in Pool : q # p => worker'[q] = worker[q]
           /\ \A c \in Chunks : c # worker[p].chunk \/ ~Holds(p) => parts'[c] = parts[c]
           /\ failed \subseteq failed'
           /\ Takes(p) \/ Keeps(p) \/ GivesBack(p) \/ Ends(p)
<1> DEFINE Others == \A q \in Pool : q # p => worker'[q] = worker[q]
           OtherParts == \A c \in Chunks : c # worker[p].chunk \/ ~Holds(p) => parts'[c] = parts[c]
<1>0. /\ worker[p] \in WorkerState /\ worker \in [Pool -> WorkerState] /\ parts \in [Chunks -> Content]
      /\ queue \in [1..MaxCalls -> 0..NumChunks] /\ NumChunks \in Nat
    BY ChunkNumber DEF Typed, FetchTypeOK
<1> USE DEF Running, Holds
<1>1. CASE TakeChunk(p)
  <2>1. CASE queue[p[1]] < NumChunks
    <3>1. [NoWorker EXCEPT !.pc = "stat", !.chunk = queue[p[1]]].pc = "stat"
          /\ [NoWorker EXCEPT !.pc = "stat", !.chunk = queue[p[1]]].chunk = queue[p[1]]
        BY DEF NoWorker
    <3> QED BY <1>0, <1>1, <2>1, <3>1 DEF TakeChunk, Takes
  <2>2. CASE ~(queue[p[1]] < NumChunks)
    <3>1. queue[p[1]] = NumChunks
        BY <1>0, <2>2 DEF Pool
    <3> QED BY <1>0, <1>1, <2>2, <3>1 DEF TakeChunk, Ends
  <2> QED BY <2>1, <2>2
<1>2. CASE StatPart(p)
  <2>1. CASE PartIsThere(worker[p].chunk)
      BY <1>0, <1>2, <2>1 DEF StatPart, GivesBack
  <2>2. CASE ~PartIsThere(worker[p].chunk)
      BY <1>0, <1>2, <2>2 DEF StatPart, Keeps, WorkerState
  <2> QED BY <2>1, <2>2
<1>3. CASE GetChunk(p)
  <2>1. worker'[p].pc = "copy" /\ worker'[p].chunk = worker[p].chunk /\ Others
      BY <1>0, <1>3 DEF GetChunk
  <2>2. OtherParts
      BY <1>0, <1>3 DEF GetChunk
  <2> QED BY <1>3, <2>1, <2>2 DEF GetChunk, Keeps
<1>4. CASE WriteByte(p)
  <2>1. worker'[p].pc = "copy" /\ worker'[p].chunk = worker[p].chunk /\ Others
      BY <1>0, <1>4 DEF WriteByte, WorkerState
  <2>2. OtherParts
      BY <1>0, <1>4 DEF WriteByte
  <2> QED BY <1>4, <2>1, <2>2 DEF WriteByte, Keeps
<1>5. CASE ChunkDone(p)
    BY <1>0, <1>5, CopiedIsThere, SMTT(30) DEF ChunkDone, GivesBack, WorkerState
<1>6. CASE AttemptFails(p)
  <2>1. CASE p[1] \in cancelled \/ worker[p].attempt = MaxRetries
      BY <1>0, <1>6, <2>1 DEF AttemptFails, Ends
  <2>2. CASE ~(p[1] \in cancelled \/ worker[p].attempt = MaxRetries)
      BY <1>0, <1>6, <2>2 DEF AttemptFails, Keeps, NoWorker
  <2> QED BY <2>1, <2>2
<1>7. CASE WakeUp(p)
    BY <1>0, <1>7 DEF WakeUp, Keeps, WorkerState
<1>8. CASE SleepCancelled(p)
    BY <1>0, <1>8 DEF SleepCancelled, Ends
<1>9. CASE ResponseStalls(p)
    BY <1>0, <1>9 DEF ResponseStalls, Keeps, WorkerState
<1> QED BY <1>1, <1>2, <1>3, <1>4, <1>5, <1>6, <1>7, <1>8, <1>9 DEF WorkerStep

----------------------------------------------------------------------------
(* The invariant of a file that is fetched by one call at a time.          *)

LEMMA WorkersKept ==
    ASSUME Typed, Workers, PartsHonest, NEW p \in Pool, WorkerStep(p)
    PROVE  Workers'
<1>0. /\ Running(p) /\ UNCHANGED Caller
      /\ \A q \in Pool : q # p => worker'[q] = worker[q]
      /\ Takes(p) \/ Keeps(p) \/ GivesBack(p) \/ Ends(p)
    BY StepOfWorker
<1>1. /\ p[1] = calls /\ calls \in 1..MaxCalls /\ queue[calls] \in Nat
      /\ queue \in [1..MaxCalls -> 0..NumChunks] /\ NumChunks \in Nat
      /\ UNCHANGED <<calls, phase>>
    BY <1>0, ChunkNumber DEF Workers, Typed, FetchTypeOK, Pool, Caller
<1>2. phase \notin {"xet", "xet_copy", "head", "assemble", "cleanup"}
    BY <1>0 DEF Workers, NobodyRuns
<1>3. \A q \in Pool : Running(q)' => q[1] = calls'
    BY <1>0, <1>1 DEF Workers, Running
<1>4. \A q \in Pool : q # p => (Holds(q)' <=> Holds(q)) /\ worker'[q].chunk = worker[q].chunk
    BY <1>0 DEF Holds
<1>5. /\ \A q \in Pool : worker[q].chunk \in Nat
      /\ \A q \in Pool : Holds(q) => worker[q].chunk < queue[calls] /\ q[1] = calls
  <2>1. ASSUME NEW q \in Pool PROVE worker[q].chunk \in Nat
    <3>1. worker[q] \in WorkerState
        BY DEF Typed, FetchTypeOK
    <3> QED BY <3>1, ChunkNumber DEF WorkerState, Chunks
  <2>2. ASSUME NEW q \in Pool, Holds(q) PROVE worker[q].chunk < queue[calls] /\ q[1] = calls
    <3>1. Running(q)
        BY <2>2 DEF Holds, Running
    <3> QED BY <2>2, <3>1 DEF Workers
  <2> QED BY <2>1, <2>2
<1>6. ~BetweenChunks.pc \in {"stat", "get", "copy", "stalled", "sleep"} /\ NoWorker.pc \notin {"stat", "get", "copy", "stalled", "sleep"}
    BY DEF BetweenChunks, NoWorker
<1>7. CASE Takes(p)
  <2>1. queue'[calls] = queue[calls] + 1 /\ worker'[p].chunk = queue[calls]
      BY <1>1, <1>7 DEF Takes
  <2>2. \A q \in Pool : Holds(q)' => worker'[q].chunk < queue'[q[1]]
      BY <1>1, <1>4, <1>5, <2>1
  <2>3. \A q \in Pool : q # p /\ Holds(q)' => worker'[q].chunk # worker'[p].chunk
      BY <1>1, <1>4, <1>5, <2>1
  <2>4. ASSUME NEW q \in Pool, NEW r \in Pool, Holds(q)', Holds(r)', worker'[q].chunk = worker'[r].chunk
        PROVE  q = r
      BY <1>4, <2>3, <2>4 DEF Workers
  <2> QED BY <1>1, <1>2, <1>3, <2>2, <2>4 DEF Workers
<1>8. CASE Keeps(p)
  <2>1. \A q \in Pool : (Holds(q)' <=> Holds(q)) /\ worker'[q].chunk = worker[q].chunk
      BY <1>4, <1>8 DEF Keeps
  <2>2. queue' = queue
      BY <1>8 DEF Keeps
  <2> QED BY <1>1, <1>2, <1>3, <2>1, <2>2 DEF Workers
<1>9. CASE GivesBack(p) \/ Ends(p)
  <2>1. ~Holds(p)' /\ queue' = queue
      BY <1>6, <1>9 DEF GivesBack, Ends, Holds
  <2> QED BY <1>1, <1>2, <1>3, <1>4, <2>1 DEF Workers
<1> QED BY <1>0, <1>7, <1>8, <1>9

(* Parts other than the one a worker holds, and other workers, are left    *)
(* alone by its step.                                                      *)
LEMMA OtherParts ==
    ASSUME Typed, Workers, PartsHonest, NEW p \in Pool, WorkerStep(p)
    PROVE  /\ \A c \in Chunks : c # worker[p].chunk \/ ~Holds(p) => PartHonest(c)'
           /\ \A q \in Pool : q # p => CopyHonest(q)'
<1>0. /\ \A q \in Pool : q # p => worker'[q] = worker[q]
      /\ \A c \in Chunks : c # worker[p].chunk \/ ~Holds(p) => parts'[c] = parts[c]
    BY StepOfWorker
<1>1. ASSUME NEW c \in Chunks, c # worker[p].chunk \/ ~Holds(p)
      PROVE  PartHonest(c)'
    BY <1>0, <1>1 DEF PartsHonest, PartHonest
<1>2. ASSUME NEW q \in Pool, q # p
      PROVE  CopyHonest(q)'
  <2>1. CASE worker[q].pc = "copy"
    <3>1. worker[q].chunk \in Chunks /\ Holds(q)
        BY <2>1 DEF Typed, FetchTypeOK, WorkerState, Holds
    <3>2. worker[q].chunk # worker[p].chunk \/ ~Holds(p)
        BY <1>2, <3>1 DEF Workers
    <3>3. parts'[worker[q].chunk] = parts[worker[q].chunk]
        BY <1>0, <3>1, <3>2
    <3> QED BY <1>0, <1>2, <3>3 DEF PartsHonest, CopyHonest
  <2>2. CASE worker[q].pc # "copy"
      BY <1>0, <1>2, <2>2 DEF CopyHonest
  <2> QED BY <2>1, <2>2
<1> QED BY <1>1, <1>2

LEMMA PartsKept ==
    ASSUME ~IgnoresRange, Typed, Workers, PartsHonest, NEW p \in Pool, WorkerStep(p)
    PROVE  PartsHonest'
<1> DEFINE w == worker[p]
<1>a. w.chunk \in Chunks
    BY DEF Typed, FetchTypeOK, WorkerState
<1>b. PICK k \in Chunks : k = w.chunk
    BY <1>a
<1>0. /\ w \in WorkerState /\ w.chunk = k /\ w.pos \in Nat
      /\ worker \in [Pool -> WorkerState] /\ parts \in [Chunks -> Content]
    BY <1>b DEF Typed, FetchTypeOK, WorkerState
<1>1. Start(k) \in Nat /\ End(k) \in Int /\ ExpectedSize(k) \in Nat
      /\ Start(k) + ExpectedSize(k) = End(k) + 1
    BY <1>0, ChunkBounds
<1>2. SUFFICES PartHonest(k)' /\ CopyHonest(p)'
  <2>1. /\ \A c \in Chunks : c # k => PartHonest(c)'
        /\ \A q \in Pool : q # p => CopyHonest(q)'
      BY <1>b, OtherParts
  <2> QED BY <2>1 DEF PartsHonest
<1>3. CASE GetChunk(p)
  <2>1. /\ worker'[p].pc = "copy" /\ worker'[p].chunk = k /\ worker'[p].pos = 0
        /\ worker'[p].next = Start(k) /\ worker'[p].last = End(k) /\ worker'[p].linked
    <3>1. PICK whole \in {FALSE, IgnoresRange} :
              worker' = [worker EXCEPT ![p] =
                  [pc |-> "copy", chunk |-> w.chunk, attempt |-> w.attempt, pos |-> 0,
                   next |-> IF whole THEN 0 ELSE Start(w.chunk),
                   last |-> IF whole THEN FileSize - 1 ELSE End(w.chunk), linked |-> TRUE]]
        BY <1>3 DEF GetChunk
    <3>2. ~whole
        OBVIOUS
    <3> QED BY <1>0, <3>1, <3>2
  <2>2. parts'[k] = Run(Start(k), 0) /\ Len(parts'[k]) = 0
    <3>1. parts'[k] = <<>> /\ Len(<<>>) = 0
        BY <1>0, <1>3 DEF GetChunk
    <3>2. Run(Start(k), 0) = <<>>
        BY <1>1, RunSeq
    <3> QED BY <3>1, <3>2
  <2>3. PartHonest(k)'
      BY <1>1, <2>2 DEF PartHonest
  <2>4. CopyHonest(p)'
      BY <1>1, <2>1, <2>2 DEF CopyHonest
  <2> QED BY <2>3, <2>4
<1>4. CASE WriteByte(p)
  <2>1. /\ w.linked /\ parts[k] = Run(Start(k), w.pos)
        /\ w.next = Start(k) + w.pos /\ w.last = End(k) /\ w.next <= w.last
      BY <1>0, <1>4 DEF WriteByte, PartsHonest, CopyHonest
  <2>2. /\ worker'[p].pc = "copy" /\ worker'[p].chunk = k /\ worker'[p].pos = w.pos + 1
        /\ worker'[p].next = w.next + 1 /\ worker'[p].last = w.last /\ worker'[p].linked
      BY <1>0, <1>4, <2>1 DEF WriteByte, WorkerState
  <2>3. parts'[k] = WriteAt(parts[k], w.pos, w.next)
      BY <1>0, <1>4, <2>1 DEF WriteByte
  <2>0. Start(k) \in Int /\ w.pos \in Nat /\ w.pos + 1 \in Nat
      BY <1>0, <1>1
  <2> HIDE DEF w
  <2>4. parts'[k] = Run(Start(k), w.pos + 1) /\ Len(parts'[k]) = w.pos + 1
    <3>1. WriteAt(Run(Start(k), w.pos), w.pos, Start(k) + w.pos) = Run(Start(k), w.pos + 1)
        BY <2>0, RunWrite
    <3>2. Len(Run(Start(k), w.pos + 1)) = w.pos + 1
        BY <2>0, RunSeq
    <3> QED BY <2>1, <2>3, <3>1, <3>2
  <2>5. PartHonest(k)'
    <3>1. w.pos + 1 \in 0 .. ExpectedSize(k)
        BY <1>0, <1>1, <2>1
    <3> QED BY <2>4, <3>1 DEF PartHonest
  <2>6. Start(k) + w.pos + 1 = Start(k) + (w.pos + 1)
      BY <1>0, <1>1
  <2>7. CopyHonest(p)'
      BY <2>1, <2>2, <2>4, <2>6 DEF CopyHonest
  <2> QED BY <2>5, <2>7
<1>5. CASE ~GetChunk(p) /\ ~WriteByte(p)
  <2>1. UNCHANGED parts
      BY <1>5 DEF WorkerStep, TakeChunk, StatPart, ResponseStalls, ChunkDone,
                       AttemptFails, WakeUp, SleepCancelled
  <2>2. worker'[p].pc # "copy"
    <3>1. NoWorker.pc # "copy" /\ BetweenChunks.pc # "copy"
        BY DEF NoWorker, BetweenChunks
    <3>2. CASE TakeChunk(p) \/ ChunkDone(p) \/ SleepCancelled(p)
        BY <1>0, <3>1, <3>2, ZenonT(30) DEF TakeChunk, ChunkDone, SleepCancelled, NoWorker
    <3>3. CASE StatPart(p) \/ ResponseStalls(p) \/ WakeUp(p)
        BY <1>0, <3>1, <3>3 DEF StatPart, ResponseStalls, WakeUp, WorkerState
    <3>4. CASE AttemptFails(p)
        BY <1>0, <3>1, <3>4 DEF AttemptFails, NoWorker
    <3> QED BY <1>5, <3>2, <3>3, <3>4 DEF WorkerStep
  <2> QED BY <1>0, <2>1, <2>2 DEF PartsHonest, PartHonest, CopyHonest
<1> QED BY <1>3, <1>4, <1>5

LEMMA TakenKept ==
    ASSUME Typed, Workers, PartsHonest, Taken, NEW p \in Pool, WorkerStep(p)
    PROVE  Taken'
<1>0. /\ Running(p) /\ UNCHANGED Caller
      /\ \A q \in Pool : q # p => worker'[q] = worker[q]
      /\ \A c \in Chunks : c # worker[p].chunk \/ ~Holds(p) => parts'[c] = parts[c]
      /\ failed \subseteq failed'
      /\ Takes(p) \/ Keeps(p) \/ GivesBack(p) \/ Ends(p)
    BY StepOfWorker
<1>1. /\ p[1] = calls /\ calls \in 1..MaxCalls /\ queue[calls] \in Nat
      /\ queue \in [1..MaxCalls -> 0..NumChunks] /\ UNCHANGED <<calls, phase>>
    BY <1>0, ChunkNumber DEF Workers, Typed, FetchTypeOK, Pool, Caller
<1> SUFFICES ASSUME phase' = "chunked", calls' \notin failed' PROVE Taken'
    BY DEF Taken
<1>2. /\ \A c \in Chunks : c < queue[calls] =>
            PartIsThere(c) \/ \E q \in Pool : Holds(q) /\ worker[q].chunk = c
      /\ queue[calls] = NumChunks \/ \E q \in Pool : Running(q)
    BY <1>0, <1>1 DEF Taken
<1>3. \A q \in Pool : q # p => (Holds(q)' <=> Holds(q)) /\ (Running(q)' <=> Running(q))
                               /\ worker'[q].chunk = worker[q].chunk
    BY <1>0 DEF Holds, Running
<1>4. \A c \in Chunks : PartIsThere(c) /\ (c # worker[p].chunk \/ ~Holds(p)) => PartIsThere(c)'
    BY <1>0 DEF PartIsThere
<1>5. \A q \in Pool : Holds(q)' => Running(q)'
    BY DEF Holds, Running
<1>6. ASSUME NEW c \in Chunks, c < queue'[calls]
      PROVE  PartIsThere(c)' \/ \E q \in Pool : Holds(q)' /\ worker'[q].chunk = c
  <2>1. CASE Takes(p)
    <3>1. ~Holds(p) /\ Holds(p)' /\ worker'[p].chunk = queue[calls] /\ queue'[calls] = queue[calls] + 1
        BY <1>1, <2>1 DEF Takes
    <3>2. CASE c = queue[calls]
        BY <3>1, <3>2
    <3>3. CASE c # queue[calls]
      <4>1. c < queue[calls]
          BY <1>1, <1>6, <3>1, <3>3, ChunkNumber DEF Chunks
      <4> QED BY <1>2, <1>3, <1>4, <3>1, <4>1
    <3> QED BY <3>2, <3>3
  <2>2. CASE Keeps(p)
    <3>1. Holds(p) /\ Holds(p)' /\ worker'[p].chunk = worker[p].chunk /\ queue' = queue
        BY <2>2 DEF Keeps
    <3> QED BY <1>2, <1>3, <1>4, <1>6, <3>1
  <2>3. CASE GivesBack(p)
    <3>1. PartIsThere(worker[p].chunk) /\ parts' = parts /\ queue' = queue
        BY <2>3 DEF GivesBack
    <3>2. PartIsThere(c)' <=> PartIsThere(c)
        BY <3>1 DEF PartIsThere
    <3> QED BY <1>2, <1>3, <1>6, <3>1, <3>2
  <2>4. CASE Ends(p)
    <3>1. ~Holds(p) /\ queue' = queue
        BY <1>1, <2>4 DEF Ends
    <3> QED BY <1>2, <1>3, <1>4, <1>6, <3>1
  <2> QED BY <1>0, <2>1, <2>2, <2>3, <2>4
<1>7. queue'[calls] = NumChunks \/ \E q \in Pool : Running(q)'
  <2>1. CASE Takes(p) \/ Keeps(p)
      BY <1>5, <2>1 DEF Takes, Keeps
  <2>2. CASE GivesBack(p)
      BY <2>2 DEF GivesBack, Running, BetweenChunks, NoWorker
  <2>3. CASE Ends(p)
      BY <1>1, <2>3 DEF Ends
  <2> QED BY <1>0, <2>1, <2>2, <2>3
<1> QED BY <1>1, <1>6, <1>7 DEF Taken

LEMMA InvWorker ==
    ASSUME ~IgnoresRange, Inv, NEW p \in Pool, WorkerStep(p)
    PROVE  Inv'
<1>1. Running(p) /\ UNCHANGED Caller
    BY StepOfWorker DEF Inv
<1>2. phase # "assemble"
    BY <1>1 DEF Inv, Workers, NobodyRuns
<1>3. Assembled' /\ FileHonest'
    BY <1>1, <1>2 DEF Inv, Assembled, FileHonest, Delivered, Copying, Caller
<1> QED BY <1>3, TypedWorkers, WorkersKept, PartsKept, TakenKept DEF Inv

CallSteps == Begin \/ Cancel \/ CallerStep \/ Crash

(* The steps of the caller that start, end or rename nothing.              *)
Quiet == CallSteps /\ ~(Begin \/ HeadAccepts \/ CollectAll \/ CleanupPart \/ Crash)

LEMMA QuietStep ==
    ASSUME Quiet
    PROVE  /\ UNCHANGED <<calls, parts, queue, failed, worker>>
           /\ phase' \in {"xet", "xet_copy", "head", "assemble", "cleanup"} =>
                  phase \in {"xet", "xet_copy", "head", "assemble", "cleanup"}
           /\ phase' = "chunked" => phase = "chunked"
           /\ phase' = "assemble" =>
                  phase = "assemble" /\ (AssemblePart \/ UNCHANGED <<tmp, asm>>)
<1>1. CASE Cancel
    BY <1>1 DEF Cancel, Chunked
<1>2. CASE XetFails \/ XetWrites \/ HeadRefuses \/ CollectError \/ ResumeFails \/ Resumes
           \/ Fresh \/ FreshFails \/ NoHeader \/ HeaderFails
    BY <1>2 DEF XetFails, XetWrites, HeadRefuses, CollectError, ResumeFails, Resumes,
                Fresh, FreshFails, NoHeader, HeaderFails, Chunked
<1>3. CASE CopyByte \/ CopyDone \/ CopyFails
    BY <1>3 DEF CopyByte, CopyDone, CopyFails, Copying, Chunked
<1>4. CASE AssemblePart \/ AssembleFails \/ Rename \/ CleanupDone
    BY <1>4 DEF AssemblePart, AssembleFails, Rename, CleanupDone, Chunked
<1> QED BY <1>1, <1>2, <1>3, <1>4 DEF Quiet, CallSteps, CallerStep

LEMMA WorkersCaller ==
    ASSUME ~Overlap, Typed, Workers, CallSteps
    PROVE  Workers'
<1> USE DEF Running, Holds, NobodyRuns
<1>0. ~(NoWorker.pc \in {"stat", "get", "copy", "stalled", "sleep"}) /\ NoWorker.pc = "off"
      /\ ~(BetweenChunks.pc \in {"stat", "get", "copy", "stalled", "sleep"})
    BY DEF NoWorker, BetweenChunks
<1>1. CASE Begin
  <2>1. NobodyRuns /\ UNCHANGED <<worker, queue>>
      BY <1>1 DEF Begin, Chunked
  <2> QED BY <2>1 DEF Workers
<1>2. CASE HeadAccepts
  <2>1. NobodyRuns /\ UNCHANGED calls /\ phase' = "chunked"
      BY <1>2 DEF HeadAccepts, Workers
  <2>2. \A p \in Pool : ~Holds(p)' /\ (Running(p)' => p[1] = calls)
      BY <1>0, <1>2, <2>1 DEF HeadAccepts
  <2> QED BY <2>1, <2>2 DEF Workers
<1>3. CASE CollectAll
  <2>1. NobodyRuns /\ UNCHANGED <<worker, queue, calls>>
      BY <1>3 DEF CollectAll, Workers, WorkersOf
  <2> QED BY <2>1 DEF Workers
<1>4. CASE CleanupPart
  <2>1. NobodyRuns /\ UNCHANGED calls
      BY <1>4 DEF CleanupPart, Workers
  <2>2. \A p \in Pool : ~Running(p)'
    <3> SUFFICES ASSUME NEW p \in Pool PROVE ~Running(p)'
        OBVIOUS
    <3>1. worker[p] \in WorkerState /\ worker[p].pc = "off"
        BY <2>1 DEF Typed, FetchTypeOK
    <3>2. worker'[p] \in {worker[p], [worker[p] EXCEPT !.linked = FALSE]}
        BY <1>4 DEF CleanupPart
    <3> QED BY <3>1, <3>2 DEF WorkerState
  <2> QED BY <2>2 DEF Workers
<1>5. CASE Crash
  <2>1. \A p \in Pool : ~Running(p)'
      BY <1>0, <1>5 DEF Crash
  <2> QED BY <2>1 DEF Workers
<1>6. CASE Quiet
    BY <1>6, QuietStep DEF Workers
<1> QED BY <1>1, <1>2, <1>3, <1>4, <1>5, <1>6 DEF Quiet

LEMMA PartsCaller ==
    ASSUME Typed, Workers, PartsHonest, CallSteps
    PROVE  PartsHonest'
<1>0. NoWorker.pc # "copy" /\ BetweenChunks.pc # "copy"
    BY DEF NoWorker, BetweenChunks
<1>1. CASE UNCHANGED <<parts, worker>>
    BY <1>1 DEF PartsHonest, PartHonest, CopyHonest
<1>2. CASE HeadAccepts \/ Crash
  <2>1. UNCHANGED parts /\ \A p \in Pool : worker'[p] = worker[p] \/ worker'[p].pc # "copy"
      BY <1>0, <1>2 DEF HeadAccepts, Crash, disk
  <2> QED BY <2>1 DEF PartsHonest, PartHonest, CopyHonest
<1>3. CASE CleanupPart
  <2>1. \A p \in Pool : worker'[p].pc # "copy"
    <3> SUFFICES ASSUME NEW p \in Pool PROVE worker'[p].pc # "copy"
        OBVIOUS
    <3>1. worker[p] \in WorkerState /\ worker[p].pc = "off"
        BY <1>3 DEF CleanupPart, Workers, NobodyRuns, Running, Typed, FetchTypeOK
    <3>2. worker'[p] \in {worker[p], [worker[p] EXCEPT !.linked = FALSE]}
        BY <1>3 DEF CleanupPart
    <3> QED BY <3>1, <3>2 DEF WorkerState
  <2>2. \A k \in Chunks : parts'[k] = Absent \/ parts'[k] = parts[k]
      BY <1>3 DEF CleanupPart, Typed, FetchTypeOK
  <2> QED BY <2>1, <2>2 DEF PartsHonest, PartHonest, CopyHonest
<1>4. Begin \/ CollectAll \/ Quiet => UNCHANGED <<parts, worker>>
    BY QuietStep DEF Begin, CollectAll, Chunked
<1> QED BY <1>1, <1>2, <1>3, <1>4 DEF Quiet

LEMMA TakenCaller ==
    ASSUME Typed, Taken, CallSteps
    PROVE  Taken'
<1>1. CASE HeadAccepts
  <2>1. /\ calls \in 1..MaxCalls /\ UNCHANGED calls /\ queue'[calls] = 0
      BY <1>1 DEF HeadAccepts, Typed, FetchTypeOK
  <2>2. <<calls, 1>> \in Pool /\ Running(<<calls, 1>>)'
    <3>1. <<calls, 1>> \in Pool /\ 1 <= NumChunks
        BY <2>1, ChunkNumber DEF Pool
    <3>2. worker'[<<calls, 1>>] = BetweenChunks
      <4>1. <<calls, 1>>[1] = calls /\ <<calls, 1>>[2] = 1
          OBVIOUS
      <4> QED BY <1>1, <3>1, <4>1 DEF HeadAccepts
    <3> QED BY <2>1, <3>1, <3>2 DEF Running, BetweenChunks, NoWorker
  <2>3. \A k \in Chunks : ~(k < 0)
      BY ChunkNumber DEF Chunks
  <2> QED BY <2>1, <2>2, <2>3 DEF Taken
<1>2. CASE Begin \/ CollectAll \/ CleanupPart \/ Crash
    BY <1>2 DEF Begin, CollectAll, CleanupPart, Crash, Taken
<1>3. CASE Quiet
    BY <1>3, QuietStep DEF Taken, PartIsThere, Holds, Running
<1> QED BY <1>1, <1>2, <1>3 DEF Quiet

LEMMA AssembledCaller ==
    ASSUME Typed, Workers, PartsHonest, Taken, Assembled, CallSteps
    PROVE  Assembled'
<1>1. CASE CollectAll
  <2>1. /\ NobodyRuns /\ phase = "chunked" /\ calls \notin failed
        /\ UNCHANGED parts /\ tmp' = <<>> /\ asm' = 0
      BY <1>1 DEF CollectAll, Workers, WorkersOf, NobodyRuns
  <2>2. \A k \in Chunks : PartIsThere(k)
    <3>1. queue[calls] = NumChunks /\ \A p \in Pool : ~Holds(p)
        BY <2>1 DEF Taken, NobodyRuns, Holds, Running
    <3>2. \A k \in Chunks : k < NumChunks
        BY ChunkNumber DEF Chunks
    <3> QED BY <2>1, <3>1, <3>2 DEF Taken
  <2>3. Joined(0) = <<>>
    <3>1. Joined(0) = Run(0, 0)
        BY ChunkNumber, FirstChunk DEF Joined
    <3> QED BY <3>1, RunSeq
  <2> QED BY <2>1, <2>2, <2>3 DEF Assembled, PartIsThere
<1>2. CASE AssemblePart
  <2> DEFINE s == Start(asm)
             m == ExpectedSize(asm)
  <2>1. /\ asm \in Chunks /\ \A k \in Chunks : PartIsThere(k)
        /\ tmp = Joined(asm) /\ tmp' = tmp \o parts[asm] /\ asm' = asm + 1 /\ UNCHANGED parts
        /\ phase' = "assemble"
      BY <1>2, ChunkNumber DEF AssemblePart, Assembled, Typed, FetchTypeOK, Chunks
  <2>2. parts[asm] = Run(s, m)
      BY <2>1 DEF PartIsThere, PartsHonest, PartHonest
  <2>3. /\ s \in Nat /\ m \in Nat /\ asm \in Nat /\ asm # NumChunks
        /\ asm + 1 < NumChunks => Start(asm + 1) = s + m
        /\ asm + 1 = NumChunks => FileSize = s + m
        /\ asm + 1 <= NumChunks
    <3> DEFINE e == End(asm)
    <3>1. /\ s \in 0 .. (FileSize - 1) /\ m \in 1 .. FileSize /\ e \in Int /\ s + m = e + 1
          /\ asm + 1 < NumChunks => Start(asm + 1) = e + 1
          /\ asm + 1 = NumChunks => e + 1 = FileSize
        BY <2>1, ChunkBounds
    <3>2. asm \in Nat /\ asm < NumChunks
        BY <2>1, ChunkNumber DEF Chunks
    <3> HIDE DEF s, m, e
    <3> QED BY <3>1, <3>2, ChunkNumber
  <2> HIDE DEF s, m
  <2>4. Joined(asm) = Run(0, s)
      BY <2>3 DEF Joined, s
  <2>5. Joined(asm + 1) = Run(0, s + m)
      BY <2>3, ChunkNumber DEF Joined
  <2>6. Run(0, s) \o Run(s, m) = Run(0, s + m)
    <3>1. PICK zero \in Int : zero = 0
        OBVIOUS
    <3>2. Run(zero, s) \o Run(zero + s, m) = Run(zero, s + m)
        BY <2>3, RunConcat
    <3>3. zero + s = s
        BY <2>3, <3>1
    <3> QED BY <3>1, <3>2, <3>3
  <2>7. tmp' = Joined(asm')
      BY <2>1, <2>2, <2>4, <2>5, <2>6
  <2> QED BY <2>1, <2>7 DEF Assembled, PartIsThere
<1>3. CASE Begin \/ HeadAccepts \/ CleanupPart \/ Crash
    BY <1>3 DEF Begin, HeadAccepts, CleanupPart, Crash, Assembled
<1>4. CASE Quiet /\ ~AssemblePart
    BY <1>4, QuietStep DEF Assembled, PartIsThere
<1> QED BY <1>1, <1>2, <1>3, <1>4 DEF Quiet

LEMMA FileCaller ==
    ASSUME ~IgnoresRange, Typed, Assembled, FileHonest, CallSteps
    PROVE  FileHonest'
<1>0. /\ body \in 0..FileSize /\ phase \in Phases
      /\ file # Absent => file = Run(0, Len(file)) /\ Len(file) \in 0..FileSize
      /\ Copying => file = Run(0, body)
      /\ phase = "cleanup" => file = Whole
      /\ phase # "idle" => result = "none"
      /\ phase = "idle" /\ result = "ok" => file = Whole
    BY DEF Typed, FetchTypeOK, FileHonest, Delivered
<1>a. phase' # "idle" => result' = "none"
  <2>1. CASE Begin \/ Cancel \/ Crash
      BY <1>0, <2>1 DEF Begin, Cancel, Crash
  <2>2. CASE XetFails \/ XetWrites \/ HeadRefuses \/ HeadAccepts \/ CollectError \/ CollectAll
      BY <1>0, <2>2 DEF XetFails, XetWrites, HeadRefuses, HeadAccepts, CollectError, CollectAll
  <2>3. CASE CopyByte \/ CopyDone \/ CopyFails
      BY <1>0, <2>3 DEF CopyByte, CopyDone, CopyFails, Copying
  <2>4. CASE AssemblePart \/ AssembleFails \/ Rename \/ CleanupPart \/ CleanupDone
      BY <1>0, <2>4 DEF AssemblePart, AssembleFails, Rename, CleanupPart, CleanupDone
  <2>5. CASE ResumeFails \/ Resumes \/ Fresh \/ FreshFails \/ NoHeader \/ HeaderFails
      BY <1>0, <2>5 DEF ResumeFails, Resumes, Fresh, FreshFails, NoHeader, HeaderFails
  <2> QED BY <2>1, <2>2, <2>3, <2>4, <2>5 DEF CallSteps, CallerStep
<1>1. CASE XetWrites \/ Fresh
  <2>1. file' = <<>> /\ body' = 0 /\ phase' \in {"xet_copy", "fresh_copy"}
      BY <1>1 DEF XetWrites, Fresh
  <2>2. Run(0, 0) = <<>> /\ Len(<<>>) = 0
      BY RunSeq
  <2> QED BY <1>a, <2>1, <2>2 DEF FileHonest, Delivered, Copying
<1>2. CASE CopyByte
  <2>1. /\ file = Run(0, body) /\ file' = Append(file, body) /\ body' = body + 1
        /\ body < FileSize /\ UNCHANGED phase /\ Copying
      BY <1>0, <1>2 DEF CopyByte
  <2>2. Append(Run(0, body), body) = Run(0, body + 1) /\ Len(Run(0, body + 1)) = body + 1
    <3>1. Append(Run(0, body), body) = Run(0, body + 1)
      <4>1. PICK zero \in Int : zero = 0
          OBVIOUS
      <4>2. body \in Nat
          BY <1>0
      <4>3. Append(Run(zero, body), zero + body) = Run(zero, body + 1)
          BY <4>2, RunAppend
      <4>4. zero + body = body
          BY <4>1, <4>2
      <4> QED BY <4>1, <4>3, <4>4
    <3>2. Len(Run(0, body + 1)) = body + 1
        BY <1>0, RunSeq
    <3> QED BY <3>1, <3>2
  <2>3. body + 1 \in 0..FileSize
      BY <1>0, <2>1
  <2>4. file' = Run(0, body') /\ Len(file') = body' /\ body' \in 0..FileSize
      BY <2>1, <2>2, <2>3
  <2>5. phase' \in {"xet_copy", "resume_copy", "fresh_copy"}
      BY <2>1 DEF Copying
  <2> QED BY <1>a, <2>4, <2>5 DEF FileHonest, Delivered
<1>3. CASE CopyDone
  <2>1. file = Whole /\ UNCHANGED file /\ phase' = "idle"
      BY <1>0, <1>3, Runs DEF CopyDone
  <2> QED BY <1>a, <1>0, <2>1 DEF FileHonest, Delivered, Copying
<1>4. CASE Resumes
  <2>1. file # Absent /\ UNCHANGED file
      BY <1>4 DEF Resumes
  <2>2. CASE Len(file) >= FileSize
    <3>1. file = Whole /\ phase' = "idle"
      <4>1. Len(file) = FileSize
          BY <1>0, <2>1, <2>2
      <4> QED BY <1>0, <1>4, <2>1, <2>2, <4>1, Runs DEF Resumes
    <3> QED BY <1>a, <1>0, <2>1, <3>1 DEF FileHonest, Delivered, Copying
  <2>3. CASE ~(Len(file) >= FileSize)
    <3>1. body' = Len(file) /\ phase' = "resume_copy"
        BY <1>4, <2>3 DEF Resumes
    <3> QED BY <1>a, <1>0, <2>1, <3>1 DEF FileHonest, Delivered, Copying
  <2> QED BY <2>2, <2>3
<1>5. CASE Rename
  <2>1. file' = Joined(NumChunks) /\ phase' = "cleanup"
      BY <1>5 DEF Rename, Assembled
  <2>2. Joined(NumChunks) = Whole /\ Len(Whole) = FileSize
    <3>1. Joined(NumChunks) = Run(0, FileSize)
        BY DEF Joined
    <3>2. Len(Run(0, FileSize)) = FileSize
        BY RunSeq
    <3> QED BY <3>1, <3>2, Runs
  <2>3. file' = Whole /\ Whole = Run(0, Len(file')) /\ Len(file') \in 0..FileSize
      BY <2>1, <2>2, Runs
  <2> QED BY <1>a, <2>1, <2>3 DEF FileHonest, Delivered, Copying
<1>6. CASE CleanupPart \/ CleanupDone
  <2>1. phase = "cleanup" /\ UNCHANGED file /\ phase' \in {"cleanup", "idle"}
      BY <1>6 DEF CleanupPart, CleanupDone
  <2> QED BY <1>a, <1>0, <2>1 DEF FileHonest, Delivered, Copying
<1>7. CASE Cancel
    BY <1>a, <1>0, <1>7 DEF Cancel, FileHonest, Delivered, Copying
<1>8. CASE Begin \/ XetFails \/ CopyFails \/ HeadRefuses \/ HeadAccepts \/ CollectError \/ CollectAll
           \/ AssemblePart \/ AssembleFails \/ ResumeFails \/ FreshFails
  <2>1. /\ UNCHANGED file /\ ~Copying' /\ phase' # "cleanup"
        /\ phase' = "idle" => result' # "ok"
    <3>1. CASE CopyFails
        BY <3>1 DEF CopyFails, Copying
    <3>2. CASE Begin \/ XetFails \/ HeadRefuses \/ HeadAccepts \/ CollectError \/ ResumeFails \/ FreshFails
        BY <3>2 DEF Begin, XetFails, HeadRefuses, HeadAccepts, CollectError, ResumeFails, FreshFails, Copying
    <3>3. CASE CollectAll \/ AssemblePart \/ AssembleFails
        BY <3>3 DEF CollectAll, AssemblePart, AssembleFails, Copying
    <3> QED BY <1>8, <3>1, <3>2, <3>3
  <2> QED BY <1>a, <1>0, <2>1 DEF FileHonest, Delivered
<1>9. CASE Crash
  <2>1. UNCHANGED <<file, result>> /\ phase' = "idle"
      BY <1>9 DEF Crash, disk
  <2> QED BY <1>a, <1>0, <2>1 DEF FileHonest, Delivered, Copying
<1>10. CASE NoHeader \/ HeaderFails
  <2>1. /\ phase' \in {"resume_wait", "fresh_wait", "fresh", "idle"}
        /\ phase' = "idle" => result' = "err"
        /\ file' \in {file, <<>>}
      BY <1>10 DEF NoHeader, HeaderFails
  <2>2. Run(0, 0) = <<>> /\ Len(<<>>) = 0
      BY RunSeq
  <2> QED BY <1>a, <1>0, <2>1, <2>2 DEF FileHonest, Delivered, Copying
<1> QED BY <1>1, <1>2, <1>3, <1>4, <1>5, <1>6, <1>7, <1>8, <1>9, <1>10 DEF CallSteps, CallerStep

LEMMA InvInit == FetchInit => Inv
<1> SUFFICES ASSUME FetchInit PROVE Inv
    OBVIOUS
<1>1. \A p \in Pool : worker[p].pc = "off"
    BY DEF FetchInit, NoWorker
<1>2. phase = "idle" /\ file = Absent /\ result = "none" /\ \A k \in Chunks : parts[k] = Absent
    BY DEF FetchInit
<1>3. Workers
    BY <1>1, <1>2 DEF Workers, NobodyRuns, Running, Holds
<1>4. PartsHonest
    BY <1>1, <1>2 DEF PartsHonest, PartHonest, CopyHonest
<1>5. Taken /\ Assembled /\ FileHonest
    BY <1>2 DEF Taken, Assembled, FileHonest, Copying, Delivered
<1> QED BY <1>3, <1>4, <1>5, TypedInit DEF Inv

LEMMA InvStep ==
    ASSUME ~Overlap, ~IgnoresRange
    PROVE  Inv /\ [FetchNext]_vars => Inv'
<1> SUFFICES ASSUME Inv, [FetchNext]_vars PROVE Inv'
    OBVIOUS
<1>1. CASE UNCHANGED vars
  <2>1. Typed'
      BY TypedStep, <1>1 DEF Inv
  <2>2. Workers' /\ PartsHonest'
      BY <1>1 DEF vars, Inv, Workers, NobodyRuns, Running, Holds, PartsHonest, PartHonest, CopyHonest
  <2>3. Taken' /\ Assembled' /\ FileHonest'
      BY <1>1 DEF vars, Inv, Taken, Holds, Running, Assembled, PartIsThere, FileHonest, Copying, Delivered
  <2> QED BY <2>1, <2>2, <2>3 DEF Inv
<1>2. CASE CallSteps
    BY <1>2, TypedCaller, WorkersCaller, PartsCaller, TakenCaller, AssembledCaller, FileCaller
       DEF Inv, CallSteps
<1>3. CASE \E p \in Pool : WorkerStep(p)
    BY <1>3, InvWorker
<1> QED BY <1>1, <1>2, <1>3 DEF FetchNext, CallSteps

LEMMA InvAlways ==
    ASSUME ~Overlap, ~IgnoresRange
    PROVE  FetchSpec => []Inv
<1>1. Inv /\ [FetchNext]_vars => Inv'
    BY InvStep
<1> QED BY <1>1, InvInit, PTL DEF FetchSpec

(* A part file of the expected size holds its chunk, whichever of the      *)
(* calls, attempts and crashed processes wrote it: downloadChunk may skip  *)
(* it.  For calls that wait for the workers of the one before, and for     *)
(* servers that honour a Range request.                                    *)
THEOREM SkippedPartsComplete ==
    ASSUME ~Overlap, ~IgnoresRange
    PROVE  FetchSpec => []SkippedPartIsComplete
<1>1. Inv => SkippedPartIsComplete
  <2> SUFFICES ASSUME Inv, NEW k \in Chunks, PartIsThere(k)
               PROVE  parts[k] = ChunkBytes(k)
      BY DEF SkippedPartIsComplete
  <2>1. parts[k] = Run(Start(k), ExpectedSize(k))
      BY DEF Inv, PartIsThere, PartsHonest, PartHonest
  <2> QED BY <2>1, Runs
<1> QED BY <1>1, InvAlways, PTL

(* downloadFile returns success only with the whole remote file under its  *)
(* local name, by whichever of Xet, chunks, resumption and fresh download. *)
THEOREM SuccessIsWhole ==
    ASSUME ~Overlap, ~IgnoresRange
    PROVE  FetchSpec => []Delivered
<1>1. Inv => Delivered
    BY DEF Inv, FileHonest
<1> QED BY <1>1, InvAlways, PTL

----------------------------------------------------------------------------
(* FileFetch implements FileDelivery.                                      *)

LEMMA SameWhole == Whole = Delivery!Whole
BY DEF Whole, Prefix, Delivery!Whole, Delivery!Prefix

LEMMA HonestFile == Inv => file \in Delivery!Honest
<1> SUFFICES ASSUME Inv PROVE file \in Delivery!Honest
    OBVIOUS
<1>1. \A n : Delivery!Prefix(n) = Run(0, n)
    BY DEF Delivery!Prefix, Run
<1>2. file # Absent => file = Run(0, Len(file)) /\ Len(file) \in 0 .. FileSize
    BY DEF Inv, FileHonest
<1> QED BY <1>1, <1>2 DEF Delivery!Honest

LEMMA DeliveryStep ==
    ASSUME Inv, Inv', [FetchNext]_vars
    PROVE  [Delivery!Next]_(Delivery!dvars)
<1> USE DEF Delivery!dvars
<1>0. file' \in Delivery!Honest
  <2>1. (Inv => file \in Delivery!Honest)'
      BY HonestFile, PTL
  <2> QED BY <2>1
<1>1. CASE UNCHANGED vars
    BY <1>1 DEF vars
<1>2. CASE Begin
    BY <1>2 DEF Begin, Delivery!Next, Delivery!Begin
<1>3. CASE XetWrites \/ CopyByte \/ Fresh \/ NoHeader \/ Rename
  <2>1. phase # "idle" /\ phase' # "idle" /\ UNCHANGED result
      BY <1>3 DEF XetWrites, CopyByte, Copying, Fresh, NoHeader, Rename
  <2> QED BY <1>0, <2>1 DEF Delivery!Next, Delivery!Progress
<1>4. CASE CopyDone \/ CleanupDone \/ (Resumes /\ Len(file) >= FileSize)
  <2>1. phase # "idle" /\ phase' = "idle" /\ result' = "ok"
      BY <1>4 DEF CopyDone, Copying, CleanupDone, Resumes
  <2>2. file' = Delivery!Whole
      BY <2>1, SameWhole DEF Inv, FileHonest, Delivered, Whole, Prefix
  <2> QED BY <2>1, <2>2 DEF Delivery!Next, Delivery!Succeed
<1>5. CASE FreshFails \/ (CopyFails /\ phase = "fresh_copy") \/ (HeaderFails /\ phase = "fresh_wait")
    BY <1>5 DEF FreshFails, CopyFails, HeaderFails, Delivery!Next, Delivery!Fail
<1>6. CASE Crash
    BY <1>6 DEF Crash, disk, Delivery!Next, Delivery!Die
<1>7. CASE Cancel \/ XetFails \/ HeadRefuses \/ HeadAccepts \/ CollectError \/ CollectAll
    BY <1>7 DEF Cancel, XetFails, HeadRefuses, HeadAccepts, CollectError, CollectAll
<1>8. CASE AssemblePart \/ AssembleFails \/ CleanupPart \/ ResumeFails
    BY <1>8 DEF AssemblePart, AssembleFails, CleanupPart, ResumeFails
<1>9. CASE \/ CopyFails /\ phase # "fresh_copy"
           \/ HeaderFails /\ phase # "fresh_wait"
           \/ Resumes /\ ~(Len(file) >= FileSize)
    BY <1>9 DEF CopyFails, Copying, HeaderFails, Resumes
<1>10. CASE \E p \in Pool : WorkerStep(p)
  <2>1. UNCHANGED Caller
      BY <1>10, StepOfWorker DEF Inv
  <2> QED BY <2>1 DEF Caller
<1> QED BY <1>1, <1>2, <1>3, <1>4, <1>5, <1>6, <1>7, <1>8, <1>9, <1>10 DEF FetchNext, CallerStep

(* downloadFile does what FileDelivery promises: at every moment the file  *)
(* is a prefix of the remote one, it is whole after a success, and nobody  *)
(* touches it between two calls.                                           *)
THEOREM FetchIsDelivery ==
    ASSUME ~Overlap, ~IgnoresRange
    PROVE  FetchSpec => IsDelivery
<1>1. FetchInit => Delivery!Init
    BY DEF FetchInit, Delivery!Init
<1>2. Inv /\ Inv' /\ [FetchNext]_vars => [Delivery!Next]_(Delivery!dvars)
    BY DeliveryStep
<1> QED BY <1>1, <1>2, InvAlways, PTL DEF FetchSpec, IsDelivery, Delivery!Spec
============================================================================
