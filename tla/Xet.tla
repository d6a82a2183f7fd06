-------------------------------- MODULE Xet --------------------------------
(***************************************************************************)
(* Files out of Xet storage (internal/xet): a file is a list of terms, a   *)
(* term a range of chunks of a xorb, a chunk may be compressed.  Downloads *)
(* run on one Downloader, which the manager and DownloadMultiple use from  *)
(* several goroutines, and that has one lz4 reader for all of them.        *)
(*                                                                         *)
(* A byte is a number; a range of a xorb is given by chunks, as the code   *)
(* cuts it at chunk headers.  An lz4 frame holds what it decompresses to.  *)
(***************************************************************************)
EXTENDS Integers, Sequences, FiniteSets, SequencesExt

CONSTANTS
    Downloads,     \* files asked for, each by one goroutine
    Recons,        \* the reconstructions the API may answer with, for each
    Xorbs,         \* the xorbs by their hash: chunks, and what follows them
    Concurrency,   \* goroutines at a time
    ReadSize,      \* bytes one Read of the lz4 reader returns at most
    PadsGroups,    \* does the encoder pad a chunk to whole groups of four?
    MaxExpiries,   \* bound: how often the token expires
    NoFile, NoOne

ASSUME XetConstants ==
    /\ Concurrency \in Nat \ {0} /\ ReadSize \in Nat \ {0}
    /\ PadsGroups \in BOOLEAN /\ MaxExpiries \in Nat
    /\ NoFile \notin Seq(Nat) /\ NoOne \notin Downloads
\* A chunk has a type and its bytes; the API answers with a list of terms.
ASSUME StoredData ==
    /\ \A h \in DOMAIN Xorbs : Xorbs[h].chunks \in Seq([type : STRING, data : Seq(Nat)])
    /\ \A d \in Downloads : \A r \in Recons[d] :
          r.terms \in Seq([hash : DOMAIN Xorbs, start : Nat, end : Nat])
\* The API answers with ranges inside of what it lets the client fetch: the
\* code cuts them from the fetched bytes and would panic beyond their end.
\* What is fetched starts where the xorb does, so both count alike.
ASSUME RangesFit ==
    \A r \in UNION {Recons[d] : d \in Downloads} : \A i \in DOMAIN r.terms :
        LET t == r.terms[i]
        IN  t.hash \in DOMAIN Xorbs /\ 0 <= t.start /\ t.start <= t.end /\ t.end <= Len(Xorbs[t.hash].chunks)

VARIABLES
    recon,      \* what the API answers for each file
    streams,    \* DownloadToWriter, or Download, which writes at the end?
    dl,         \* the locals of each goroutine
    file,       \* the output
    result,     \* "none", "ok" or "err"
    reader,     \* what the shared lz4 reader has still to return
    cachedAuth, \* the token: "none", "valid" or "expired"
    authMutex,  \* who holds it
    expiries,
    answer      \* what DownloadMultiple returned

xetVars == <<recon, streams, dl, file, result, reader, cachedAuth, authMutex, expiries, answer>>
auth == <<cachedAuth, authMutex, expiries>>
inputs == <<recon, streams>>

----------------------------------------------------------------------------
(* ByteGrouping4 puts the first bytes of all groups of four before their   *)
(* second ones, and so on.                                                 *)

\* The position, from 1, of byte k of the original in g groups.
Interleaved(k, g) == (k - 1) \div 4 + ((k - 1) % 4) * g + 1

\* The encoder: pads with zeros, or leaves what is over at the end.
ByteGrouping4(data) ==
    LET n == Len(data)
        g == IF PadsGroups THEN (n + 3) \div 4 ELSE n \div 4
        At(k) == IF k <= n THEN data[k] ELSE 0
        Source(p) == 4 * ((p - 1) % g) + (p - 1) \div g + 1
    IN  [p \in 1..(4 * g) |-> At(Source(p))] \o (IF 4 * g < n THEN SubSeq(data, 4 * g + 1, n) ELSE <<>>)

undoByteGrouping4Partial(data, expectedSize) ==
    LET n == Len(data)
        g == n \div 4
        size == IF expectedSize > 0 THEN expectedSize ELSE n
        Source(k) == IF k <= 4 * g THEN Interleaved(k, g) ELSE g + (k - 4 * g - 1) * g + 1
    IN  [k \in 1..size |-> IF k <= n /\ Source(k) <= n THEN data[Source(k)] ELSE 0]

\* Mutant: the padding is left in.
undoByteGrouping4Untrimmed(data, expectedSize) ==
    [k \in 1..Len(data) |-> data[Interleaved(k, Len(data) \div 4)]]

undoByteGrouping4(data, expectedSize) ==
    LET n == Len(data)
        size == IF expectedSize > 0 /\ n > expectedSize THEN expectedSize ELSE n
    IN  CASE n = 0 -> <<>>
          [] n > 0 /\ n % 4 # 0 -> undoByteGrouping4Partial(data, expectedSize)
          [] OTHER -> [k \in 1..size |-> data[Interleaved(k, n \div 4)]]

\* What the frame of a compressed chunk holds.
Frame(chunk) == IF chunk.type = "bg4" THEN ByteGrouping4(chunk.data) ELSE chunk.data

----------------------------------------------------------------------------
Idle == [pc |-> "idle", then |-> "idle", term |-> 1, iter |-> 1, buf |-> <<>>, out |-> <<>>]

XetInit ==
    /\ recon \in {f \in [Downloads -> UNION {Recons[d] : d \in Downloads}] :
                    \A d \in Downloads : f[d] \in Recons[d]}
    /\ streams \in [Downloads -> BOOLEAN]
    /\ dl = [d \in Downloads |-> Idle]
    /\ file = [d \in Downloads |-> IF streams[d] THEN <<>> ELSE NoFile]
    /\ result = [d \in Downloads |-> "none"]
    /\ reader = <<>>
    /\ cachedAuth = "none" /\ authMutex = NoOne /\ expiries = 0
    /\ answer = "none"

At(d, label) == dl[d].pc = label
Set(d, new) == dl' = [dl EXCEPT ![d] = new]
Goto(d, label) == Set(d, [dl[d] EXCEPT !.pc = label])
\* A request to a server with a token: getAuthToken comes first.
Request(d, label) == Set(d, [dl[d] EXCEPT !.pc = "auth", !.then = label])
Return(d, r) ==
    /\ Set(d, [Idle EXCEPT !.pc = "done"])
    /\ result' = [result EXCEPT ![d] = r]

Running == {d \in Downloads : dl[d].pc \notin {"idle", "done"}}

\* A slot of the semaphore; a file ID may be known already.
Start(d) ==
    /\ At(d, "idle") /\ Cardinality(Running) < Concurrency
    /\ Request(d, IF recon[d].fileID THEN "recon" ELSE "resolve")
    /\ UNCHANGED <<inputs, file, result, reader, auth, answer>>

----------------------------------------------------------------------------
(* getAuthToken: authMutex is held while a token is fetched.  A request    *)
(* whose token could not be fetched is sent without one.                   *)

GetAuthToken(d) ==
    /\ At(d, "auth") /\ authMutex = NoOne
    /\ IF cachedAuth = "valid"
       THEN Goto(d, dl[d].then) /\ UNCHANGED authMutex
       ELSE Goto(d, "refresh") /\ authMutex' = d
    /\ UNCHANGED <<inputs, file, result, reader, cachedAuth, expiries, answer>>

FetchAuthToken(d) ==
    /\ At(d, "refresh") /\ Goto(d, dl[d].then)
    /\ cachedAuth' = "valid" /\ authMutex' = NoOne
    /\ UNCHANGED <<inputs, file, result, reader, expiries, answer>>

\* Mutant: the error path does not unlock.
FetchAuthTokenFailsLocked(d) ==
    /\ At(d, "refresh") /\ Goto(d, dl[d].then)
    /\ UNCHANGED <<inputs, file, result, reader, auth, answer>>

FetchAuthTokenFails(d) ==
    /\ At(d, "refresh") /\ Goto(d, dl[d].then)
    /\ authMutex' = NoOne
    /\ UNCHANGED <<inputs, file, result, reader, cachedAuth, expiries, answer>>

TokenExpires ==
    /\ cachedAuth = "valid" /\ expiries < MaxExpiries
    /\ cachedAuth' = "expired" /\ expiries' = expiries + 1
    /\ UNCHANGED <<inputs, dl, file, result, reader, authMutex, answer>>

----------------------------------------------------------------------------
(* Download, DownloadToWriter: the file ID, the terms, and their chunks.   *)

Frozen == UNCHANGED <<inputs, auth, answer>>

\* The X-Xet-Hash header of the answer; or a redirect to ask again.
ResolveFileID(d) ==
    /\ At(d, "resolve") /\ Request(d, "recon")
    /\ UNCHANGED <<file, result, reader>> /\ Frozen

ResolveRedirected(d) ==
    /\ At(d, "resolve") /\ Request(d, "redirect")
    /\ UNCHANGED <<file, result, reader>> /\ Frozen

resolveFileIDFromURL(d) ==
    /\ At(d, "redirect") /\ Request(d, "recon")
    /\ UNCHANGED <<file, result, reader>> /\ Frozen

GetReconstruction(d) ==
    /\ At(d, "recon") /\ Goto(d, "terms")
    /\ UNCHANGED <<file, result, reader>> /\ Frozen

\* No answer, a bad status, a body that breaks off, a cancelled context.
RequestFails(d) ==
    /\ dl[d].pc \in {"resolve", "redirect", "recon", "fetch"}
    /\ Return(d, "err")
    /\ UNCHANGED <<file, reader>> /\ Frozen

Terms(d) == recon[d].terms
Term(d) == Terms(d)[dl[d].term]

\* Mutant: the last term is left out.
NextTermStopsShort(d) ==
    /\ At(d, "terms")
    /\ CASE dl[d].term >= Len(Terms(d)) /\ streams[d] -> Return(d, "ok")
         [] dl[d].term >= Len(Terms(d)) /\ ~streams[d] -> Goto(d, "write") /\ UNCHANGED result
         [] dl[d].term < Len(Terms(d)) /\ Term(d).hash \notin recon[d].fetchInfo -> Return(d, "err")
         [] OTHER -> Goto(d, "fetch") /\ UNCHANGED result
    /\ UNCHANGED <<file, reader>> /\ Frozen

\* The next term, whose xorb must have fetch infos; or the end.
NextTerm(d) ==
    /\ At(d, "terms")
    /\ CASE dl[d].term > Len(Terms(d)) /\ streams[d] -> Return(d, "ok")
         [] dl[d].term > Len(Terms(d)) /\ ~streams[d] -> Goto(d, "write") /\ UNCHANGED result
         [] dl[d].term <= Len(Terms(d)) /\ Term(d).hash \notin recon[d].fetchInfo -> Return(d, "err")
         [] OTHER -> Goto(d, "fetch") /\ UNCHANGED result
    /\ UNCHANGED <<file, reader>> /\ Frozen

\* The first of the fetch infos, with the range it names.
FetchXorbRange(d) ==
    /\ At(d, "fetch") /\ Set(d, [dl[d] EXCEPT !.pc = "chunks", !.iter = 1])
    /\ UNCHANGED <<file, result, reader>> /\ Frozen

\* The chunks of a range, and what follows them up to its end.
Chunks(term) == SubSeq(Xorbs[term.hash].chunks, term.start + 1, term.end)
Trailing(term) == IF term.end = Len(Xorbs[term.hash].chunks) THEN Xorbs[term.hash].tail ELSE "none"
Chunk(d) == Chunks(Term(d))[dl[d].iter]

Decompressed(d, bytes) == Set(d, [dl[d] EXCEPT !.pc = "emit", !.buf = bytes])

\* The next chunk of the iterator: Decompress by its type.
NextChunk(d) ==
    /\ At(d, "chunks") /\ dl[d].iter <= Len(Chunks(Term(d)))
    /\ CASE Chunk(d).type = "none" -> Decompressed(d, Chunk(d).data) /\ UNCHANGED result
         [] Chunk(d).type \in {"lz4", "bg4"} -> Goto(d, "reset") /\ UNCHANGED result
         [] OTHER -> Return(d, "err")
    /\ UNCHANGED <<file, reader>> /\ Frozen

\* Less than a header at the end is passed over, a chunk that extends beyond
\* the end is an error.  The length of a term is not compared.
EndOfRange(d) ==
    /\ At(d, "chunks") /\ dl[d].iter > Len(Chunks(Term(d)))
    /\ IF Trailing(Term(d)) = "beyond"
       THEN Return(d, "err")
       ELSE Set(d, [dl[d] EXCEPT !.pc = "terms", !.term = @ + 1]) /\ UNCHANGED result
    /\ UNCHANGED <<file, reader>> /\ Frozen

\* decompressLZ4: the reader is reset to this chunk ...
ResetReader(d) ==
    /\ At(d, "reset") /\ Set(d, [dl[d] EXCEPT !.pc = "read", !.buf = <<>>])
    /\ reader' = Frame(Chunk(d))
    /\ UNCHANGED <<file, result>> /\ Frozen

\* ... and read until it is empty, whoever has reset it meanwhile.  (That
\* two goroutines use it at once is a data race: what Go makes of it may be
\* worse than the interleaving of whole calls.)
Read(d) ==
    /\ At(d, "read") /\ reader # <<>>
    /\ LET n == IF Len(reader) < ReadSize THEN Len(reader) ELSE ReadSize
       IN  /\ Set(d, [dl[d] EXCEPT !.buf = @ \o SubSeq(reader, 1, n)])
           /\ reader' = SubSeq(reader, n + 1, Len(reader))
    /\ UNCHANGED <<file, result>> /\ Frozen

ReadEOF(d) ==
    /\ At(d, "read") /\ reader = <<>>
    /\ Decompressed(d, IF Chunk(d).type = "bg4"
                       THEN undoByteGrouping4(dl[d].buf, Len(Chunk(d).data)) ELSE dl[d].buf)
    /\ UNCHANGED <<file, result, reader>> /\ Frozen

\* A frame that does not decode.
ReadFails(d) ==
    /\ At(d, "read") /\ Return(d, "err")
    /\ UNCHANGED <<file, reader>> /\ Frozen

\* The decompressed bytes go to the result, or to the writer.
Emit(d) ==
    /\ At(d, "emit")
    /\ Set(d, [dl[d] EXCEPT !.pc = "chunks", !.iter = @ + 1, !.buf = <<>>,
                            !.out = IF streams[d] THEN @ ELSE @ \o dl[d].buf])
    /\ file' = [file EXCEPT ![d] = IF streams[d] THEN @ \o dl[d].buf ELSE @]
    /\ UNCHANGED <<result, reader>> /\ Frozen

\* The writer takes some of them and fails.
WriterFails(d) ==
    /\ At(d, "emit") /\ streams[d] /\ Return(d, "err")
    /\ \E n \in 0..Len(dl[d].buf) : file' = [file EXCEPT ![d] = @ \o SubSeq(dl[d].buf, 1, n)]
    /\ UNCHANGED reader /\ Frozen

\* MkdirAll, and os.WriteFile of the whole result.
WriteFile(d) ==
    /\ At(d, "write") /\ Return(d, "ok")
    /\ file' = [file EXCEPT ![d] = dl[d].out]
    /\ UNCHANGED reader /\ Frozen

WriteFileFails(d) ==
    /\ At(d, "write") /\ Return(d, "err")
    /\ \/ UNCHANGED file
       \/ \E n \in 0..Len(dl[d].out) : file' = [file EXCEPT ![d] = SubSeq(dl[d].out, 1, n)]
    /\ UNCHANGED reader /\ Frozen

\* Mutant: a channel of errors without room for them.
CollectUnbuffered ==
    /\ answer = "none" /\ \A d \in Downloads : At(d, "done") /\ result[d] = "ok"
    /\ answer' = "ok"
    /\ UNCHANGED <<inputs, dl, file, result, reader, auth>>

\* DownloadMultiple waits for all and joins their errors.
Collect ==
    /\ answer = "none" /\ \A d \in Downloads : At(d, "done")
    /\ answer' = IF \E d \in Downloads : result[d] = "err" THEN "err" ELSE "ok"
    /\ UNCHANGED <<inputs, dl, file, result, reader, auth>>

DownloadStep(d) ==
    \/ Start(d) \/ GetAuthToken(d) \/ FetchAuthToken(d) \/ FetchAuthTokenFails(d)
    \/ ResolveFileID(d) \/ ResolveRedirected(d) \/ resolveFileIDFromURL(d)
    \/ GetReconstruction(d) \/ RequestFails(d) \/ NextTerm(d) \/ FetchXorbRange(d)
    \/ NextChunk(d) \/ EndOfRange(d) \/ ResetReader(d) \/ Read(d) \/ ReadEOF(d)
    \/ ReadFails(d) \/ Emit(d) \/ WriterFails(d) \/ WriteFile(d) \/ WriteFileFails(d)

XetNext == (\E d \in Downloads : DownloadStep(d)) \/ TokenExpires \/ Collect

\* Goroutines run, the time-out of the HTTP client ends every request, and Go's
\* mutexes and channels let nobody wait for ever while others come and go.
XetFairness == (\A d \in Downloads : SF_xetVars(DownloadStep(d))) /\ WF_xetVars(Collect)

XetSpec == XetInit /\ [][XetNext]_xetVars /\ XetFairness

----------------------------------------------------------------------------
Labels == {"idle", "auth", "refresh", "resolve", "redirect", "recon", "terms", "fetch",
           "chunks", "reset", "read", "emit", "write", "done"}

(* Every variable keeps its type, and the token is fetched by one          *)
(* goroutine at a time, the one that holds the mutex.                      *)
XetTypeOK ==
    /\ \A d \in Downloads :
         /\ dl[d].pc \in Labels /\ dl[d].then \in Labels
         /\ dl[d].term \in 1..(Len(Terms(d)) + 1)
         /\ dl[d].buf \in Seq(Nat) /\ dl[d].out \in Seq(Nat)
         /\ file[d] \in Seq(Nat) \cup {NoFile}
         /\ At(d, "refresh") <=> authMutex = d
    /\ result \in [Downloads -> {"none", "ok", "err"}]
    /\ reader \in Seq(Nat)
    /\ cachedAuth \in {"none", "valid", "expired"} /\ expiries \in 0..MaxExpiries
    /\ answer \in {"none", "ok", "err"}

(* The file of a download: the bytes of its terms, in their order.         *)
Contents(d) ==
    FlattenSeq([t \in 1..Len(Terms(d)) |->
        FlattenSeq([c \in 1..Len(Chunks(Terms(d)[t])) |-> Chunks(Terms(d)[t])[c].data])])

(* A download that reports success has written the file, byte for byte:    *)
(* no chunk is left out or twice there, grouped bytes are back in their    *)
(* order without padding, and no byte comes from another download.         *)
Reconstructed == \A d \in Downloads : result[d] = "ok" => file[d] = Contents(d)

(* At every moment the output is a prefix of the file: the resumed         *)
(* download that follows a failure continues at its end.                   *)
OutputIsPrefix ==
    \A d \in Downloads : file[d] # NoFile => IsPrefix(file[d], Contents(d))

(* What the two depend on: at most one of the downloads that share the lz4 *)
(* reader has compressed chunks, and grouped bytes come in whole groups.   *)
Plain(d) ==
    \A r \in Recons[d] : \A i \in DOMAIN r.terms : \A c \in DOMAIN Chunks(r.terms[i]) :
        Chunks(r.terms[i])[c].type \notin {"lz4", "bg4"}

OneCompressed == \A d, e \in Downloads : d # e => Plain(d) \/ Plain(e)

WholeGroups ==
    PadsGroups \/ \A d \in Downloads : \A r \in Recons[d] :
        \A i \in DOMAIN r.terms : \A c \in DOMAIN Chunks(r.terms[i]) :
            LET chunk == Chunks(r.terms[i])[c]
            IN  chunk.type = "bg4" => Len(chunk.data) % 4 = 0

(* DownloadMultiple comes to an end: nobody waits for ever for the token   *)
(* or for a slot, and no error path forgets to give them back.             *)
AllCollected == <>(answer # "none")
============================================================================
