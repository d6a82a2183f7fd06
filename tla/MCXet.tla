------------------------------- MODULE MCXet -------------------------------
(* Instances of Xet for TLC.                                               *)
EXTENDS Xet

None(data) == [type |-> "none", data |-> data]
Lz4(data) == [type |-> "lz4", data |-> data]
Bg4(data) == [type |-> "bg4", data |-> data]

(* A plain and a compressed chunk; grouped bytes, that do and do not fill  *)
(* their groups; a chunk that is cut off; a type nobody knows.             *)
SmallXorbs ==
    "x" :> [chunks |-> <<None(<<1, 2>>), Lz4(<<3, 4, 5>>)>>, tail |-> "short"] @@
    "g" :> [chunks |-> <<Bg4(<<11, 12, 13, 14, 15>>), Lz4(<<16>>)>>, tail |-> "none"] @@
    "b" :> [chunks |-> <<Lz4(<<21>>)>>, tail |-> "beyond"] @@
    "u" :> [chunks |-> <<[type |-> "unknown", data |-> <<31>>]>>, tail |-> "none"]

Range3(hash, start, end) == [hash |-> hash, start |-> start, end |-> end]
Recon(terms) == [terms |-> terms, fileID |-> FALSE, fetchInfo |-> {"x", "g", "b", "u"}]

AnyRecon == {
    [Recon(<<Range3("x", 0, 2), Range3("g", 0, 1)>>) EXCEPT !.fileID = TRUE],
    Recon(<<Range3("g", 0, 2), Range3("x", 1, 2)>>),
    Recon(<<Range3("x", 1, 1), Range3("b", 0, 1)>>),
    Recon(<<Range3("u", 0, 1)>>),
    [Recon(<<Range3("g", 1, 2), Range3("x", 0, 1)>>) EXCEPT !.fetchInfo = {"x"}]}

(* Files of plain chunks, that do not need the lz4 reader.                 *)
PlainRecon == {
    [Recon(<<Range3("x", 0, 1)>>) EXCEPT !.fileID = TRUE],
    Recon(<<Range3("x", 0, 1), Range3("x", 0, 1)>>)}

(* One file may be compressed, the other is not.                           *)
PlainBeside == [d \in Downloads |-> IF d = "d1" THEN AnyRecon ELSE PlainRecon]

(* Both may be.                                                            *)
BothAny == [d \in Downloads |-> AnyRecon]
============================================================================
