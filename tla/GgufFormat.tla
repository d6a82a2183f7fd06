----------------------------- MODULE GgufFormat -----------------------------
(***************************************************************************)
(* The GGUF format, which the reader of Gguf expects of a file: how long   *)
(* a header with given values and tensors is, and where its writer puts    *)
(* the data.  The format is external; it is taken from what the reader     *)
(* reads.                                                                  *)
(***************************************************************************)
EXTENDS Gguf, FiniteSetsExt

CONSTANTS
    Values,     \* the values in the metadata of Docs, those in arrays too
    Encoded,    \* Encoded[v]: the bytes that v takes in a file
    GoodValues  \* the values of the files that are well formed

(* The sums and the products of the first k numbers of a sequence.         *)
SumTo(s) ==
    LET sum[k \in 0 .. Len(s)] == IF k = 0 THEN 0 ELSE sum[k - 1] + s[k]
    IN  sum

ProductTo(s) ==
    LET product[k \in 0 .. Len(s)] == IF k = 0 THEN 1 ELSE product[k - 1] * s[k]
    IN  product

Total(s) == SumTo(s)[Len(s)]

Product(s) == ProductTo(s)[Len(s)]

----------------------------------------------------------------------------
KnownValue(v) == v.type \in DOMAIN FixedWidth \cup {ggufTypeString, ggufTypeArray}

Sizes(values) == [k \in DOMAIN values |-> Encoded[values[k]]]

(* A value holds values only if it is an array, and is encoded as what     *)
(* comes before its items and the items.                                   *)
ASSUME ValuesEncoded ==
    /\ Encoded \in [Values -> Nat]
    /\ \A v \in Values :
          KnownValue(v) => Encoded[v] = ValueSize(v) + Total(Sizes(v.items))

ASSUME ValuesTyped ==
    \A v \in Values :
        /\ v.len \in Nat
        /\ v.type \in {ggufTypeUint32, ggufTypeUint64} => v.value \in 0 .. 2^W - 1
        /\ v.items \in Seq(Values)
        /\ v.type # ggufTypeArray => v.items = <<>>

TensorTyped(t) ==
    /\ {t.nameLen, t.offset, t.elements, t.bytes} \subseteq Nat
    /\ t.dims \in Seq(Nat)

(* The counts in a header are those of the lists, or too large.            *)
DocTyped(d) ==
    /\ {d.metadataCount, d.tensorCount, d.alignment, d.dataStart, d.end} \subseteq Nat
    /\ d.metadata \in Seq([keyLen : Nat, key : STRING, value : Values])
    /\ d.metadataCount <= MaxCount => d.metadataCount = Len(d.metadata)
    /\ Len(d.tensors) \in Nat /\ DOMAIN d.tensors = 1 .. Len(d.tensors)
    /\ \A k \in DOMAIN d.tensors : TensorTyped(d.tensors[k])
    /\ d.tensorCount <= MaxCount => d.tensorCount = Len(d.tensors)

ASSUME DocsTyped == \A d \in Docs : DocTyped(d)

----------------------------------------------------------------------------
PairSizes(d) ==
    [k \in DOMAIN d.metadata |->
        StringSize(d.metadata[k].keyLen) + 4 + Encoded[d.metadata[k].value]]

InfoSize(t) == StringSize(t.nameLen) + 4 + 8 * Len(t.dims) + 4 + 8

InfoSizes(d) == [k \in DOMAIN d.tensors |-> InfoSize(d.tensors[k])]

HeaderSize(d) == 24 + Total(PairSizes(d)) + Total(InfoSizes(d))

(* The alignment the first n pairs state, or else 32.                      *)
AlignmentPairs(d, n) ==
    {k \in 1 .. n : /\ d.metadata[k].key = "general.alignment"
                    /\ d.metadata[k].value.type \in {ggufTypeUint32, ggufTypeUint64}}

StatedAlignment(d, n) ==
    IF AlignmentPairs(d, n) = {}
    THEN 32
    ELSE d.metadata[Max(AlignmentPairs(d, n))].value.value

(* The next multiple of the alignment.                                     *)
Padded(h, align) ==
    IF align = 0 \/ h % align = 0 THEN h ELSE h + align - (h % align)

(* Elements are stored in blocks, of which the last need not be full.      *)
TensorLaidOut(t) ==
    /\ t.elements = Product(t.dims)
    /\ Known(t) =>
          LET quant == ggufQuantTypes[t.type]
          IN  t.bytes = (t.elements \div quant[1]
                         + IF t.elements % quant[1] = 0 THEN 0 ELSE 1) * quant[2]

LaidOut(d) ==
    /\ d.alignment = StatedAlignment(d, Len(d.metadata))
    /\ d.dataStart = Padded(HeaderSize(d), d.alignment)
    /\ \A k \in DOMAIN d.tensors : TensorLaidOut(d.tensors[k])

(* The numbers of a file that do not wrap lie where the format has them.   *)
ASSUME DocsLaidOut == \A d \in Docs : Plain(d) => LaidOut(d)

(* A well-formed file keeps within the limits of the reader, in values     *)
(* that do so as well, and ends where its header and its data do.          *)
ASSUME ValuesGood ==
    GoodValues \subseteq Values /\ \A v \in GoodValues : ValueOK(v) /\ v.items \in Seq(GoodValues)

WellFormed(d) ==
    /\ Plain(d)
    /\ d.magic /\ d.version \in 2 .. 4
    /\ d.metadataCount <= MaxCount /\ d.tensorCount <= MaxCount
    /\ \A k \in DOMAIN d.metadata :
          StringOK(d.metadata[k].keyLen) /\ d.metadata[k].value \in GoodValues
    /\ \A k \in DOMAIN d.tensors :
          LET t == d.tensors[k]
          IN  /\ StringOK(t.nameLen) /\ Len(t.dims) <= MaxDims
              /\ Known(t) => d.dataStart + t.offset + t.bytes <= d.end
    /\ HeaderSize(d) <= d.end

ASSUME DocsWellFormed == \A d \in Docs : d.wellFormed => WellFormed(d)
=============================================================================
