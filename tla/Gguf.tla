-------------------------------- MODULE Gguf --------------------------------
(* validateGGUFHeader of internal/download/file_ops.go, the check by which *)
(* VerifyFiles tells a whole GGUF model file from a damaged one.  The      *)
(* reader walks through the header once, keeps count by hand of the bytes  *)
(* it has consumed, finds from that count where the tensor data starts,    *)
(* and compares the end of every tensor with the length of the file.       *)
(*                                                                         *)
(* A file is a record that says what its header holds and, in dataStart    *)
(* and bytes, where its writer put the tensor data; the reader sees the    *)
(* header only.  size is the length of the file on disk: the file may be   *)
(* cut off anywhere.  Header numbers are machine words of W bits.          *)
EXTENDS Integers, Sequences

CONSTANTS
    W,          \* the bits of int64 and uint64: 64 in the code
    Docs,       \* the files that are verified
    MaxCount,   \* the largest plausible count of tensors or of pairs: 1e6
    MaxString,  \* the largest string: 1 << 20
    MaxArray,   \* the largest count of an array: 1e8
    MaxDims     \* the largest number of dimensions: 8

ASSUME WordAssumption == W \in Nat \ {0}
(* What the proofs need to know of powers: words are wide enough for the   *)
(* blocks of the tensor types, the longest of which has 256 elements.      *)
ASSUME PowersOfTwo == 2^(W - 1) \in Nat /\ 256 <= 2^(W - 1) /\ 2^W = 2 * 2^(W - 1)
ASSUME LimitsAssumption == {MaxCount, MaxString, MaxArray, MaxDims} \subseteq Nat

VARIABLES
    doc,        \* the file that is read
    size,       \* its length on disk, actualSize
    stage,      \* the loop the reader is in
    i,          \* the entry of that loop
    work,       \* the metadata values that are still to be skipped
    pos,        \* the bytes the reader has consumed
    bytesRead,  \* the bytes it has counted
    alignment,
    verdict     \* "none", "ok" or "refused"

vars == <<doc, size, stage, i, work, pos, bytesRead, alignment, verdict>>

----------------------------------------------------------------------------
(* Machine arithmetic: uint64 wraps, and int64 reads the upper half as     *)
(* negative.                                                               *)
Uint64(n) == n % (2^W)

Int64(n) == IF Uint64(n) >= 2^(W - 1) THEN Uint64(n) - 2^W ELSE Uint64(n)

(* The widths of the metadata values of fixed width, by type ID.           *)
FixedWidth ==
    [t \in (0 .. 7) \cup (10 .. 12) |->
        CASE t \in {0, 1, 7} -> 1
          [] t \in {2, 3} -> 2
          [] t \in {4, 5, 6} -> 4
          [] t \in {10, 11, 12} -> 8]

ggufTypeUint32 == 4
ggufTypeString == 8
ggufTypeArray == 9
ggufTypeUint64 == 10

(* The elements and the bytes of a block of every known tensor type.       *)
quantBlock(t) ==
    CASE t \in {0, 26} -> <<1, 4>>    [] t \in {1, 25, 30} -> <<1, 2>>
      [] t \in {2, 20} -> <<32, 18>>  [] t = 3 -> <<32, 20>>
      [] t = 6 -> <<32, 22>>          [] t = 7 -> <<32, 24>>
      [] t = 8 -> <<32, 34>>          [] t = 9 -> <<32, 40>>
      [] t = 10 -> <<256, 84>>        [] t \in {11, 21} -> <<256, 110>>
      [] t = 12 -> <<256, 144>>       [] t = 13 -> <<256, 176>>
      [] t = 14 -> <<256, 210>>       [] t = 16 -> <<256, 66>>
      [] t = 17 -> <<256, 74>>        [] t = 18 -> <<256, 98>>
      [] t \in {19, 29} -> <<256, 56>>  [] t = 22 -> <<256, 82>>
      [] t = 23 -> <<256, 136>>       [] t = 24 -> <<1, 1>>
      [] t \in {27, 28} -> <<1, 8>>

ggufQuantTypes == [t \in (0 .. 30) \ {4, 5, 15} |-> quantBlock(t)]

Known(t) == t.type \in DOMAIN ggufQuantTypes

(* The product of the first k dimensions, which wraps at every factor.     *)
numElementsTo(dims) ==
    LET product[k \in 0 .. Len(dims)] ==
            IF k = 0 THEN 1 ELSE Uint64(product[k - 1] * dims[k])
    IN  product

(* Mutant: the last, partly filled block is not counted.                   *)
computeTensorDataSizeFloor(t) ==
    LET numElements == numElementsTo(t.dims)[Len(t.dims)]
        quant == ggufQuantTypes[t.type]
    IN Uint64((numElements \div quant[1]) * quant[2])

(* The size of a tensor of a known type.  A dimension of zero makes it     *)
(* zero; every product wraps.                                              *)
computeTensorDataSize(t) ==
    LET numElements == numElementsTo(t.dims)[Len(t.dims)]
        quant == ggufQuantTypes[t.type]
        numBlocks == Uint64(numElements + quant[1] - 1) \div quant[1]
    IN IF 0 \in {t.dims[d] : d \in DOMAIN t.dims}
       THEN 0
       ELSE Uint64(numBlocks * quant[2])

(* Mutant: a header that ends on the alignment is padded all the same.     *)
tensorDataStartPadded ==
    IF alignment = 0 THEN bytesRead
    ELSE Int64(bytesRead + Int64(alignment - (bytesRead % alignment)))

(* The header is padded to the next multiple of the alignment.             *)
tensorDataStart ==
    LET remainder == bytesRead % alignment
    IN IF alignment = 0 \/ remainder = 0
       THEN bytesRead
       ELSE Int64(bytesRead + Int64(alignment - remainder))

endOffset(t) ==
    Int64(tensorDataStart + Int64(t.offset) + Int64(computeTensorDataSize(t)))

----------------------------------------------------------------------------
(* Every variable keeps its type, nothing is read beyond the end of the    *)
(* file, and the bytesRead that every branch of the parser adds up by hand *)
(* is what has been consumed.                                              *)
GgufTypeOK ==
    /\ doc \in Docs
    /\ stage \in {"header", "metadata", "value", "tensors", "bounds", "done"}
    /\ i \in Nat
    /\ size \in Nat /\ pos \in 0 .. size /\ bytesRead = pos
    /\ alignment \in 0 .. 2^W - 1
    /\ verdict \in {"none", "ok", "refused"}
    /\ verdict = "none" <=> stage # "done"

(* VerifyFiles has found the file, at the length its manifest records.     *)
Init ==
    /\ doc \in Docs
    /\ size \in 0 .. doc.end
    /\ stage = "header" /\ i = 1 /\ work = <<>>
    /\ pos = 0 /\ bytesRead = 0
    /\ alignment = 32
    /\ verdict = "none"

(* io.ReadFull finds the next n bytes of the file.                         *)
ReadFull(n) == pos + n <= size

Refuse ==
    /\ verdict' = "refused"
    /\ stage' = "done"
    /\ UNCHANGED <<doc, size, i, work, pos, bytesRead, alignment>>

(* The reader has consumed n bytes and counted m of them.                  *)
Consume(n, m) ==
    /\ pos' = pos + n
    /\ bytesRead' = bytesRead + m

(* A string: its length in eight bytes, and as many bytes.                 *)
StringOK(len) == len <= MaxString

StringSize(len) == 8 + len

readGGUFFileHeader ==
    /\ stage = "header"
    /\ IF /\ ReadFull(24)
          /\ doc.magic /\ doc.version \in 2 .. 4
          /\ doc.tensorCount <= MaxCount /\ doc.metadataCount <= MaxCount
       THEN /\ Consume(24, 24)
            /\ stage' = "metadata"
            /\ UNCHANGED <<doc, size, i, work, alignment, verdict>>
       ELSE Refuse

(* The loop over the tensors begins, or the one over their bounds.         *)
Begin(s) ==
    /\ stage' = s
    /\ i' = 1
    /\ UNCHANGED <<doc, size, work, pos, bytesRead, alignment, verdict>>

(* Mutant: the type that follows a key is read and not counted.            *)
readMetadataKeyUncounted ==
    /\ stage = "metadata" /\ i <= doc.metadataCount
    /\ LET kv == doc.metadata[i]
       IN IF StringOK(kv.keyLen) /\ ReadFull(StringSize(kv.keyLen) + 4)
          THEN /\ Consume(StringSize(kv.keyLen) + 4, StringSize(kv.keyLen))
               /\ work' = <<kv.value>>
               /\ stage' = "value"
               /\ UNCHANGED <<doc, size, i, alignment, verdict>>
          ELSE Refuse

(* parseGGUFMetadata: the key and the type of the next pair.               *)
readMetadataKey ==
    /\ stage = "metadata" /\ i <= doc.metadataCount
    /\ LET kv == doc.metadata[i]
       IN IF StringOK(kv.keyLen) /\ ReadFull(StringSize(kv.keyLen) + 4)
          THEN /\ Consume(StringSize(kv.keyLen) + 4, StringSize(kv.keyLen) + 4)
               /\ work' = <<kv.value>>
               /\ stage' = "value"
               /\ UNCHANGED <<doc, size, i, alignment, verdict>>
          ELSE Refuse

metadataRead ==
    /\ stage = "metadata" /\ i > doc.metadataCount
    /\ Begin("tensors")

(* The alignment is taken from a value of type uint32 or uint64, and left  *)
(* as it is for a value of another type.                                   *)
IsAlignment(v) ==
    /\ doc.metadata[i].key = "general.alignment"
    /\ doc.metadata[i].value = v
    /\ v.type \in {ggufTypeUint32, ggufTypeUint64}

readAlignment ==
    /\ stage = "value" /\ work # <<>>
    /\ IsAlignment(Head(work))
    /\ LET v == Head(work)
           n == FixedWidth[v.type]
       IN IF ReadFull(n)
          THEN /\ Consume(n, n)
               /\ alignment' = v.value
               /\ work' = Tail(work)
               /\ UNCHANGED <<doc, size, stage, i, verdict>>
          ELSE Refuse

(* What reading a value takes before its items: its width, its length, or  *)
(* the type and the count of an array.                                     *)
ValueSize(v) ==
    IF v.type \in DOMAIN FixedWidth THEN FixedWidth[v.type]
    ELSE IF v.type = ggufTypeString THEN StringSize(v.len) ELSE 12

ValueOK(v) ==
    \/ v.type \in DOMAIN FixedWidth
    \/ v.type = ggufTypeString /\ StringOK(v.len)
    \/ v.type = ggufTypeArray /\ Len(v.items) <= MaxArray

(* Mutant: the loop over an array does not end when the array is empty.    *)
skipGGUFMetadataValueStuck ==
    /\ stage = "value" /\ work # <<>>
    /\ ~IsAlignment(Head(work))
    /\ LET v == Head(work)
       IN IF ValueOK(v) /\ ReadFull(ValueSize(v))
          THEN IF v.type = ggufTypeArray /\ v.items = <<>>
               THEN UNCHANGED vars
               ELSE /\ Consume(ValueSize(v), ValueSize(v))
                    /\ work' = v.items \o Tail(work)
                    /\ UNCHANGED <<doc, size, stage, i, alignment, verdict>>
          ELSE Refuse

(* skipGGUFMetadataValue: the recursion into the items of an array is the  *)
(* order in which work is taken up.  An unknown type ends the reading.     *)
skipGGUFMetadataValue ==
    /\ stage = "value" /\ work # <<>>
    /\ ~IsAlignment(Head(work))
    /\ LET v == Head(work)
       IN IF ValueOK(v) /\ ReadFull(ValueSize(v))
          THEN /\ Consume(ValueSize(v), ValueSize(v))
               /\ work' = v.items \o Tail(work)
               /\ UNCHANGED <<doc, size, stage, i, alignment, verdict>>
          ELSE Refuse

valueRead ==
    /\ stage = "value" /\ work = <<>>
    /\ stage' = "metadata"
    /\ i' = i + 1
    /\ UNCHANGED <<doc, size, work, pos, bytesRead, alignment, verdict>>

(* parseGGUFTensorInfos: name, number of dimensions, dimensions, type and  *)
(* offset of the next tensor.                                              *)
readTensorInfo ==
    /\ stage = "tensors" /\ i <= doc.tensorCount
    /\ LET t == doc.tensors[i]
           n == StringSize(t.nameLen) + 4 + 8 * Len(t.dims) + 4 + 8
       IN IF StringOK(t.nameLen) /\ Len(t.dims) <= MaxDims /\ ReadFull(n)
          THEN /\ Consume(n, n)
               /\ i' = i + 1
               /\ UNCHANGED <<doc, size, stage, work, alignment, verdict>>
          ELSE Refuse

tensorsRead ==
    /\ stage = "tensors" /\ i > doc.tensorCount
    /\ Begin("bounds")

(* validateGGUFTensorBounds: the next tensor.  One of an unknown type is   *)
(* not checked.                                                            *)
checkTensorBounds ==
    /\ stage = "bounds" /\ i <= doc.tensorCount
    /\ LET t == doc.tensors[i]
       IN IF Known(t) /\ endOffset(t) > size
          THEN Refuse
          ELSE /\ i' = i + 1
               /\ UNCHANGED <<doc, size, stage, work, pos, bytesRead, alignment, verdict>>

accept ==
    /\ stage = "bounds" /\ i > doc.tensorCount
    /\ stage' = "done"
    /\ verdict' = "ok"
    /\ UNCHANGED <<doc, size, i, work, pos, bytesRead, alignment>>

verified == stage = "done" /\ UNCHANGED vars

Next ==
    \/ readGGUFFileHeader \/ readMetadataKey \/ metadataRead
    \/ readAlignment \/ skipGGUFMetadataValue \/ valueRead
    \/ readTensorInfo \/ tensorsRead
    \/ checkTensorBounds \/ accept \/ verified

(* The reader is a loop of one goroutine, on a local file.                 *)
Spec == Init /\ [][Next]_vars /\ WF_vars(Next)

----------------------------------------------------------------------------
(* The sizes and offsets of a file fit in a machine word: nothing the      *)
(* reader adds or multiplies wraps.                                        *)
Plain(d) ==
    /\ d.alignment + d.dataStart < 2^(W - 1)
    /\ \A k \in DOMAIN d.tensors :
           LET t == d.tensors[k]
           IN /\ t.elements < 2^(W - 1)
              /\ d.dataStart + t.offset + t.bytes < 2^(W - 1)

(* The data of a tensor lies within the file on disk.                      *)
Within(t) == doc.dataStart + t.offset + t.bytes <= size

(* A file that is accepted holds the data of every tensor whose type is    *)
(* known: wherever the file was cut off, in the header or in the data, and *)
(* whatever values the reader had to skip on its way to the tensors, the   *)
(* cut is noticed.  This is what lets the controller keep the .ready       *)
(* marker.  Files whose numbers wrap in a machine word are exempt.         *)
AcceptedFits ==
    verdict = "ok" /\ Plain(doc) =>
        \A k \in DOMAIN doc.tensors : Known(doc.tensors[k]) => Within(doc.tensors[k])

(* A whole file as a writer lays it out is never refused: a refusal makes  *)
(* the controller delete the model directory and fetch it again, for ever. *)
WholeAccepted ==
    doc.wellFormed /\ size = doc.end => verdict # "refused"

(* The reader comes to a verdict, whatever is nested in the metadata and   *)
(* wherever the file ends.                                                 *)
ReaderEnds == <>(stage = "done")
=============================================================================
