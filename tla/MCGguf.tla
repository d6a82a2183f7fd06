------------------------------- MODULE MCGguf -------------------------------
(* An instance of Gguf for TLC.  Words have 12 bits, so files of some      *)
(* hundred bytes have numbers that wrap and numbers that do not; every     *)
(* file is read at every length up to its own.                             *)
EXTENDS GgufFormat

Scalar(t, v) == [type |-> t, len |-> 0, value |-> v, items |-> <<>>]
String(n) == [type |-> 8, len |-> n, value |-> 0, items |-> <<>>]
Array(items) == [type |-> 9, len |-> 0, value |-> 0, items |-> items]

(* What a value takes in the file, by the format.                          *)
RECURSIVE Bytes(_)
Bytes(v) ==
    CASE v.type \in {0, 1, 7} -> 1
      [] v.type \in {2, 3} -> 2
      [] v.type \in {4, 5, 6} -> 4
      [] v.type = 8 -> 8 + v.len
      [] v.type = 9 -> 4 + 8 + Total([k \in DOMAIN v.items |-> Bytes(v.items[k])])
      [] OTHER -> 8

(* A pair and a tensor as they stand in the header.                        *)
Pair(n, k, v) == [keyLen |-> n, key |-> k, value |-> v]

(* A tensor of blocks of so many elements and bytes.                       *)
Tensor(dims, type, block, bytes, offset) ==
    [nameLen |-> 2, dims |-> dims, type |-> type, offset |-> offset,
     elements |-> Product(dims),
     bytes |-> (Product(dims) \div block
                + IF Product(dims) % block = 0 THEN 0 ELSE 1) * bytes]

(* A file with these pairs and tensors, whose data starts at the next      *)
(* multiple of align.                                                      *)
File(pairs, tensors, align, ok) ==
    LET header == 24
                  + Total([k \in DOMAIN pairs |-> 8 + pairs[k].keyLen + 4 + Bytes(pairs[k].value)])
                  + Total([k \in DOMAIN tensors |-> 10 + 4 + 8 * Len(tensors[k].dims) + 4 + 8])
        start == IF align = 0 \/ header % align = 0 THEN header
                 ELSE header + align - (header % align)
        ends == {header} \cup {start + tensors[k].offset + tensors[k].bytes : k \in DOMAIN tensors}
    IN [magic |-> TRUE, version |-> 3,
        metadata |-> pairs, metadataCount |-> Len(pairs),
        tensors |-> tensors, tensorCount |-> Len(tensors),
        alignment |-> align, dataStart |-> start,
        end |-> Max(ends \cap 0 .. 2^(W - 1)), wellFormed |-> ok]

Nested == Array(<<Array(<<>>), Array(<<String(1), String(0)>>)>>)

Bare == File(<<>>, <<Tensor(<<3>>, 1, 1, 2, 0)>>, 32, TRUE)

(* Whole files: blocks that are not full, several tensors, a header that   *)
(* ends on the alignment and ones that do not, alignments of               *)
(* either type or of a type that is ignored, a tensor without elements and *)
(* one of an unknown type.                                                 *)
Whole == {
    Bare,
    File(<<>>, <<>>, 32, TRUE),
    File(<<Pair(3, "other", Nested), Pair(2, "general.alignment", Scalar(4, 64))>>,
         <<Tensor(<<33>>, 2, 32, 18, 0), Tensor(<<2, 3>>, 0, 1, 4, 64)>>, 64, TRUE),
    File(<<Pair(2, "general.alignment", Scalar(10, 8)), Pair(2, "other", Scalar(12, 0))>>,
         <<Tensor(<<5>>, 24, 1, 1, 8), Tensor(<<300>>, 12, 256, 144, 16)>>, 8, TRUE),
    File(<<Pair(2, "general.alignment", Scalar(2, 64)), Pair(1, "other", Scalar(7, 1))>>,
         <<Tensor(<<4, 0>>, 0, 1, 4, 0), Tensor(<<4>>, 99, 1, 1, 0)>>, 32, TRUE),
    File(<<Pair(2, "general.alignment", Scalar(4, 0))>>,
         <<Tensor(<<3>>, 8, 32, 34, 0)>>, 0, TRUE)}

(* Files that no writer makes, the last three with numbers that wrap: in   *)
(* the number of elements, in the offset, in the alignment.                *)
Damaged == {
    [Bare EXCEPT !.magic = FALSE, !.wellFormed = FALSE],
    [Bare EXCEPT !.version = 1, !.wellFormed = FALSE],
    [Bare EXCEPT !.version = 5, !.wellFormed = FALSE],
    [Bare EXCEPT !.tensorCount = MaxCount + 1, !.wellFormed = FALSE],
    [Bare EXCEPT !.metadataCount = MaxCount + 1, !.wellFormed = FALSE],
    File(<<Pair(1, "other", Scalar(13, 0))>>, <<>>, 32, FALSE),
    File(<<Pair(MaxString + 1, "other", Scalar(0, 0))>>, <<>>, 32, FALSE),
    File(<<Pair(1, "other", String(MaxString + 1))>>, <<>>, 32, FALSE),
    File(<<Pair(1, "other", Array([k \in 1 .. MaxArray + 1 |-> Scalar(0, 0)]))>>, <<>>, 32, FALSE),
    File(<<>>, <<Tensor([k \in 1 .. MaxDims + 1 |-> 1], 0, 1, 4, 0)>>, 32, FALSE),
    File(<<>>, <<Tensor(<<64, 64>>, 24, 1, 1, 0)>>, 32, FALSE),
    File(<<>>, <<Tensor(<<4>>, 24, 1, 1, 4000)>>, 32, FALSE),
    [File(<<Pair(2, "general.alignment", Scalar(4, 4000))>>,
          <<Tensor(<<4>>, 24, 1, 1, 0)>>, 32, FALSE) EXCEPT !.alignment = 4000]}

Files == Whole \cup Damaged

(* The values of some files, those in arrays too, and their lengths.       *)
RECURSIVE Contained(_)
Contained(v) == {v} \cup UNION {Contained(v.items[k]) : k \in DOMAIN v.items}

ValuesOf(docs) ==
    UNION {UNION {Contained(d.metadata[k].value) : k \in DOMAIN d.metadata} : d \in docs}

FileValues == ValuesOf(Files)

WholeValues == ValuesOf(Whole)

ValueBytes == [v \in FileValues |-> Bytes(v)]
============================================================================
