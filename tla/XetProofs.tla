----------------------------- MODULE XetProofs -----------------------------
(***************************************************************************)
(* Proofs about Xet, for any files, xorbs and reconstructions, any number  *)
(* of downloads and any size of the pieces the lz4 reader returns.         *)
(***************************************************************************)
EXTENDS Xet, SequenceTheorems, FiniteSetTheorems, TLAPS

USE XetConstants

----------------------------------------------------------------------------
(* Induction over the naturals, for a set: a set of naturals that is not   *)
(* empty has a least element, because no descending chain of finite sets   *)
(* goes on for ever.                                                       *)

LEMMA LeastElement ==
    ASSUME NEW T, T \subseteq Nat, T # {}
    PROVE  \E x \in T : \A y \in T : x <= y
<1> DEFINE below(n) == 0 .. (n - 1)
           B == {below(n) : n \in T}
<1>1. B \subseteq FiniteSubsetsOf(Nat) /\ B # {}
  <2>1. ASSUME NEW n \in T PROVE below(n) \in FiniteSubsetsOf(Nat)
    <3>1. IsFiniteSet(0 .. (n - 1))
      <4>1. 0 \in Int /\ n - 1 \in Int
          OBVIOUS
      <4> QED BY <4>1, FS_Interval
    <3>2. 0 .. (n - 1) \in SUBSET Nat
        OBVIOUS
    <3> QED BY <3>1, <3>2 DEF FiniteSubsetsOf
  <2> QED BY <2>1
<1>2. PICK b \in B : \A c \in B : ~(<<c, b>> \in StrictSubsetOrdering(Nat))
  <2> HIDE DEF B
  <2> QED BY <1>1, FS_StrictSubsetOrderingWellFounded, WFMin
<1>3. PICK x \in T : b = below(x)
    BY <1>2
<1>4. ASSUME NEW y \in T, y < x PROVE FALSE
  <2>1. below(y) \subseteq below(x) /\ below(y) # below(x)
    <3>1. y \in below(x) /\ y \notin below(y)
        BY <1>4
    <3> QED BY <3>1, <1>4
  <2>2. below(y) \in SUBSET Nat /\ below(x) \in SUBSET Nat
      OBVIOUS
  <2>3. <<below(y), below(x)>> \in StrictSubsetOrdering(Nat)
    <3> HIDE DEF below
    <3> QED BY <2>1, <2>2 DEF StrictSubsetOrdering
  <2>4. below(y) \in B
      OBVIOUS
  <2> HIDE DEF B, below
  <2> QED BY <1>2, <1>3, <2>3, <2>4
<1> QED BY <1>4, <1>3

LEMMA SetInduction ==
    ASSUME NEW T, 0 \in T, \A n \in Nat : n \in T => n + 1 \in T
    PROVE  Nat \subseteq T
<1> SUFFICES ASSUME Nat \ T # {} PROVE FALSE
    OBVIOUS
<1>1. PICK x \in Nat \ T : \A y \in Nat \ T : x <= y
    BY LeastElement
<1>2. x # 0 /\ x - 1 \in Nat
    BY <1>1
<1>3. x - 1 \in T
    BY <1>1, <1>2
<1> QED BY <1>1, <1>2, <1>3

----------------------------------------------------------------------------
(* FlattenSeq adds a sequence to what those before it are flattened to.    *)

Data == Seq(Nat)

(* The equation of the function FlattenSeq is defined by.                  *)
Flattens(f, ss) ==
    f = [i \in 1..Len(ss) |-> IF i = 1 THEN ss[i] ELSE f[i - 1] \o ss[i]]

LEMMA FlattensExists ==
    ASSUME NEW ss \in Seq(Data)
    PROVE  \E f : Flattens(f, ss)
<1> DEFINE Upto(f, n) == f = [i \in 1..n |-> IF i = 1 THEN ss[i] ELSE f[i - 1] \o ss[i]]
           T == {n \in Nat : \E f : Upto(f, n)}
<1>1. 0 \in T
  <2> DEFINE f == [i \in {} |-> 0]
  <2>1. 1..0 = {}
      OBVIOUS
  <2>2. Upto(f, 0)
      BY <2>1, Zenon
  <2> HIDE DEF Upto
  <2> QED BY <2>2
<1>2. ASSUME NEW n \in Nat, n \in T PROVE n + 1 \in T
  <2>1. PICK f : Upto(f, n)
    <3> HIDE DEF Upto
    <3> QED BY <1>2
  <2> DEFINE g == [i \in 1..(n + 1) |->
                       IF i <= n THEN f[i] ELSE IF i = 1 THEN ss[i] ELSE f[i - 1] \o ss[i]]
  <2>2. ASSUME NEW i \in 1..(n + 1)
        PROVE  g[i] = IF i = 1 THEN ss[i] ELSE g[i - 1] \o ss[i]
    <3>1. i # 1 => g[i - 1] = f[i - 1]
        OBVIOUS
    <3>2. i <= n => f[i] = IF i = 1 THEN ss[i] ELSE f[i - 1] \o ss[i]
      <4>1. i <= n => i \in 1..n
          OBVIOUS
      <4> QED BY <2>1, <4>1, Zenon
    <3>3. g[i] = IF i <= n THEN f[i] ELSE IF i = 1 THEN ss[i] ELSE f[i - 1] \o ss[i]
        OBVIOUS
    <3> HIDE DEF g
    <3> QED BY <3>1, <3>2, <3>3
  <2>3. g = [i \in 1..(n + 1) |-> g[i]]
      OBVIOUS
  <2> HIDE DEF g
  <2>4. Upto(g, n + 1)
      BY <2>2, <2>3
  <2> HIDE DEF Upto
  <2> QED BY <2>4
<1> HIDE DEF T
<1>3. Len(ss) \in T
  <2>1. Nat \subseteq T
      BY <1>1, <1>2, SetInduction
  <2> QED BY <2>1
<1>4. PICK f : Upto(f, Len(ss))
    BY <1>3 DEF T
<1>5. Flattens(f, ss)
    BY <1>4 DEF Flattens
<1> QED BY <1>5

(* What it does to a sequence depends on those up to it only.              *)
LEMMA FlattensAgree ==
    ASSUME NEW ss \in Seq(Data), NEW tt \in Seq(Data), NEW f, NEW g,
           Flattens(f, ss), Flattens(g, tt),
           NEW n \in Nat, n <= Len(ss), n <= Len(tt), \A i \in 1..n : ss[i] = tt[i]
    PROVE  \A i \in 1..n : f[i] = g[i] /\ f[i] \in Data
<1> DEFINE T == {k \in Nat : k \in 1..n => f[k] = g[k] /\ f[k] \in Data}
<1>1. 0 \in T
    OBVIOUS
<1>2. ASSUME NEW k \in Nat, k \in T PROVE k + 1 \in T
  <2> SUFFICES ASSUME k + 1 \in 1..n PROVE f[k + 1] = g[k + 1] /\ f[k + 1] \in Data
      OBVIOUS
  <2>1. /\ f[k + 1] = IF k = 0 THEN ss[k + 1] ELSE f[k] \o ss[k + 1]
        /\ g[k + 1] = IF k = 0 THEN tt[k + 1] ELSE g[k] \o tt[k + 1]
    <3>1. /\ f[k + 1] = IF k + 1 = 1 THEN ss[k + 1] ELSE f[(k + 1) - 1] \o ss[k + 1]
          /\ g[k + 1] = IF k + 1 = 1 THEN tt[k + 1] ELSE g[(k + 1) - 1] \o tt[k + 1]
      <4>1. k + 1 \in 1..Len(ss) /\ k + 1 \in 1..Len(tt)
          OBVIOUS
      <4>2. /\ f = [i \in 1..Len(ss) |-> IF i = 1 THEN ss[i] ELSE f[i - 1] \o ss[i]]
            /\ g = [i \in 1..Len(tt) |-> IF i = 1 THEN tt[i] ELSE g[i - 1] \o tt[i]]
          BY DEF Flattens
      <4> QED BY <4>1, <4>2, Zenon
    <3>2. (k + 1) - 1 = k /\ (k + 1 = 1 <=> k = 0)
        OBVIOUS
    <3> QED BY <3>1, <3>2
  <2>2. ss[k + 1] = tt[k + 1] /\ ss[k + 1] \in Data
      OBVIOUS
  <2>3. k # 0 => f[k] = g[k] /\ f[k] \in Data
      BY <1>2
  <2>4. k # 0 => f[k] \o ss[k + 1] \in Data
      BY <2>2, <2>3 DEF Data
  <2> QED BY <2>1, <2>2, <2>3, <2>4
<1> HIDE DEF T
<1>3. Nat \subseteq T
    BY <1>1, <1>2, SetInduction
<1> QED BY <1>3 DEF T

LEMMA FlattenIsLast ==
    ASSUME NEW ss \in Seq(Data), Len(ss) > 0
    PROVE  \E f : Flattens(f, ss) /\ FlattenSeq(ss) = f[Len(ss)]
<1> DEFINE f == CHOOSE f : Flattens(f, ss)
<1>1. Flattens(f, ss)
    BY FlattensExists
<1>2. FlattenSeq(ss) = f[Len(ss)]
    BY DEF FlattenSeq, Flattens
<1> QED BY <1>1, <1>2

LEMMA FlattenEmpty == FlattenSeq(<<>>) = <<>>
BY DEF FlattenSeq

LEMMA FlattenInData ==
    ASSUME NEW ss \in Seq(Data)
    PROVE  FlattenSeq(ss) \in Data
<1>1. CASE Len(ss) = 0
  <2>1. ss = <<>>
      BY <1>1
  <2>2. <<>> \in Data
      BY DEF Data
  <2> QED BY <2>1, <2>2, FlattenEmpty
<1>2. CASE Len(ss) > 0
  <2>1. PICK f : Flattens(f, ss) /\ FlattenSeq(ss) = f[Len(ss)]
      BY <1>2, FlattenIsLast
  <2>2. \A i \in 1..Len(ss) : f[i] = f[i] /\ f[i] \in Data
      BY <2>1, FlattensAgree
  <2> QED BY <1>2, <2>1, <2>2
<1> QED BY <1>1, <1>2

LEMMA FlattenAppend ==
    ASSUME NEW ss \in Seq(Data), NEW x \in Data
    PROVE  FlattenSeq(Append(ss, x)) = FlattenSeq(ss) \o x
<1> DEFINE tt == Append(ss, x)
           n == Len(ss)
<1>1. /\ tt \in Seq(Data) /\ Len(tt) = n + 1 /\ n \in Nat /\ tt[n + 1] = x
      /\ \A i \in 1..n : tt[i] = ss[i]
    OBVIOUS
<1> HIDE DEF tt
<1>2. PICK g : Flattens(g, tt) /\ FlattenSeq(tt) = g[n + 1]
    BY <1>1, FlattenIsLast
<1>3. g[n + 1] = IF n = 0 THEN x ELSE g[n] \o x
  <2>1. g[n + 1] = IF n + 1 = 1 THEN tt[n + 1] ELSE g[(n + 1) - 1] \o tt[n + 1]
    <3>1. g = [i \in 1..(n + 1) |-> IF i = 1 THEN tt[i] ELSE g[i - 1] \o tt[i]]
        BY <1>1, <1>2 DEF Flattens
    <3>2. n + 1 \in 1..(n + 1)
        BY <1>1
    <3> QED BY <3>1, <3>2, Zenon
  <2>2. (n + 1) - 1 = n /\ (n + 1 = 1 <=> n = 0)
      BY <1>1
  <2> QED BY <1>1, <2>1, <2>2
<1>4. CASE n = 0
  <2>1. ss = <<>> /\ <<>> \o x = x
      BY <1>4 DEF Data
  <2> QED BY <1>2, <1>3, <1>4, <2>1, FlattenEmpty DEF tt
<1>5. CASE n > 0
  <2>1. PICK f : Flattens(f, ss) /\ FlattenSeq(ss) = f[n]
      BY <1>5, FlattenIsLast
  <2>2. \A i \in 1..n : g[i] = f[i] /\ g[i] \in Data
      BY <1>1, <1>2, <2>1, FlattensAgree
  <2>3. g[n] = f[n]
      BY <1>1, <1>5, <2>2
  <2> QED BY <1>1, <1>2, <1>3, <1>5, <2>1, <2>3 DEF tt
<1> QED BY <1>1, <1>4, <1>5

----------------------------------------------------------------------------
(* ByteGrouping4 and back.                                                 *)

LEMMA DivMod ==
    ASSUME NEW a \in Nat, NEW b \in Nat \ {0}
    PROVE  /\ a \div b \in Nat /\ a % b \in 0 .. (b - 1)
           /\ a = b * (a \div b) + (a % b)
           /\ \A q \in Nat, r \in 0 .. (b - 1) : a = b * q + r => q = a \div b /\ r = a % b
<1> DEFINE p == a \div b
           m == a % b
<1>1. p \in Int /\ m \in 0 .. (b - 1) /\ a = b * p + m
    OBVIOUS
<1> HIDE DEF p, m
<1>2. p >= 0
  <2> SUFFICES ASSUME p <= -1 PROVE FALSE
      BY <1>1
  <2>1. b * p <= -b
      BY <1>1
  <2> QED BY <1>1, <2>1
<1>3. ASSUME NEW q \in Nat, NEW r \in 0 .. (b - 1), a = b * q + r
      PROVE  q = p /\ r = m
  <2>1. ~(q >= p + 1)
    <3> SUFFICES ASSUME q >= p + 1 PROVE FALSE
        OBVIOUS
    <3>1. b * q >= b * p + b
        BY <1>1
    <3> QED BY <1>1, <1>3, <3>1
  <2>2. ~(p >= q + 1)
    <3> SUFFICES ASSUME p >= q + 1 PROVE FALSE
        OBVIOUS
    <3>1. b * p >= b * q + b
        BY <1>1
    <3> QED BY <1>1, <1>3, <3>1
  <2>3. q = p
      BY <1>1, <1>2, <2>1, <2>2
  <2> QED BY <1>1, <1>3, <2>3
<1>4. p \in Nat
    BY <1>1, <1>2
<1> QED BY <1>1, <1>3, <1>4 DEF p, m

LEMMA DivMod4 ==
    ASSUME NEW a \in Nat
    PROVE  /\ a \div 4 \in Nat /\ a % 4 \in 0 .. 3
           /\ a = 4 * (a \div 4) + (a % 4)
<1>1. PICK b \in Nat \ {0} : b = 4
    OBVIOUS
<1>2. /\ a \div b \in Nat /\ a % b \in 0 .. (b - 1)
      /\ a = b * (a \div b) + (a % b)
    BY DivMod
<1> QED BY <1>1, <1>2

(* Byte k of g groups of four lies among the 4 * g bytes, at the place     *)
(* that belongs to its group and to its position in the group.             *)
LEMMA InterleavedPlace ==
    ASSUME NEW g \in Nat, NEW k \in 1 .. (4 * g)
    PROVE  /\ Interleaved(k, g) \in 1 .. (4 * g)
           /\ 4 * ((Interleaved(k, g) - 1) % g) + (Interleaved(k, g) - 1) \div g + 1 = k
<1> DEFINE q == (k - 1) \div 4
           r == (k - 1) % 4
           p == q + r * g
<1>1. q \in Nat /\ r \in 0 .. 3 /\ k - 1 = 4 * q + r
  <2>1. k - 1 \in Nat
      OBVIOUS
  <2> QED BY <2>1, DivMod4
<1>2. g \in Nat \ {0}
    OBVIOUS
<1> HIDE DEF q, r
<1>3. q \in 0 .. (g - 1)
    BY <1>1
<1>4. r * g \in {0, g, 2 * g, 3 * g} /\ r * g = g * r
  <2>1. r = 0 \/ r = 1 \/ r = 2 \/ r = 3
      BY <1>1
  <2> QED BY <1>2, <2>1
<1>5. p \in 0 .. (4 * g - 1) /\ p = g * r + q
    BY <1>2, <1>3, <1>4
<1>6. r = p \div g /\ q = p % g
  <2> HIDE DEF p
  <2>1. p \in Nat /\ r \in Nat
      BY <1>1, <1>5
  <2> QED BY <1>2, <1>3, <1>5, <2>1, DivMod
<1>7. Interleaved(k, g) = p + 1
    BY DEF Interleaved, q, r
<1> HIDE DEF p
<1>8. Interleaved(k, g) - 1 = p
    BY <1>5, <1>7
<1>9. Interleaved(k, g) \in 1 .. (4 * g)
    BY <1>2, <1>5, <1>7
<1>10. 4 * (p % g) + p \div g + 1 = k
  <2>1. 4 * q + r + 1 = k
      BY <1>1
  <2> QED BY <1>6, <2>1
<1> QED BY <1>8, <1>9, <1>10

LEMMA GroupedData ==
    ASSUME NEW data \in Data
    PROVE  ByteGrouping4(data) \in Data
<1> DEFINE n == Len(data)
           g == IF PadsGroups THEN (n + 3) \div 4 ELSE n \div 4
           Source(p) == 4 * ((p - 1) % g) + (p - 1) \div g + 1
           Byte(k) == IF k <= n THEN data[k] ELSE 0
           groups == [p \in 1..(4 * g) |-> Byte(Source(p))]
           rest == IF 4 * g < n THEN SubSeq(data, 4 * g + 1, n) ELSE <<>>
<1>1. n \in Nat /\ g \in Nat
  <2>1. n \in Nat /\ n + 3 \in Nat
      BY DEF Data
  <2>2. (n + 3) \div 4 \in Nat /\ n \div 4 \in Nat
      BY <2>1, DivMod4
  <2> HIDE DEF n
  <2> QED BY <2>1, <2>2
<1>2. \A p \in 1..(4 * g) : Source(p) \in Nat \ {0}
  <2> SUFFICES ASSUME NEW p \in 1..(4 * g) PROVE Source(p) \in Nat \ {0}
      OBVIOUS
  <2> HIDE DEF g
  <2>1. p - 1 \in Nat /\ g \in Nat \ {0}
      BY <1>1
  <2>2. (p - 1) \div g \in Nat /\ (p - 1) % g \in Nat
    <3>1. PICK a \in Nat : a = p - 1
        BY <2>1
    <3>2. a \div g \in Nat /\ a % g \in 0 .. (g - 1)
        BY <2>1, DivMod
    <3> QED BY <2>1, <3>1, <3>2
  <2> QED BY <2>2
<1>3. groups \in Data
  <2> HIDE DEF g, n, Source
  <2>1. \A p \in 1..(4 * g) : Byte(Source(p)) \in Nat
    <3>1. \A k \in 1..n : data[k] \in Nat
        BY DEF Data, n
    <3> QED BY <1>1, <1>2, <3>1
  <2> HIDE DEF Byte
  <2>2. groups \in [1..(4 * g) -> Nat] /\ 4 * g \in Nat
      BY <1>1, <2>1
  <2> QED BY <2>2 DEF Data
<1>4. rest \in Data
  <2> HIDE DEF g
  <2> QED BY <1>1 DEF Data
<1>5. ByteGrouping4(data) = groups \o rest
    BY DEF ByteGrouping4
<1> HIDE DEF groups, rest
<1> QED BY <1>3, <1>4, <1>5 DEF Data

LEMMA UngroupedData ==
    ASSUME NEW data \in Data, NEW size \in Nat
    PROVE  undoByteGrouping4(data, size) \in Data
<1> DEFINE n == Len(data)
<1>1. n \in Nat /\ \A k \in 1..n : data[k] \in Nat
    BY DEF Data
<1>2. CASE n = 0
    BY <1>2 DEF undoByteGrouping4, Data
<1>3. CASE n > 0 /\ n % 4 # 0
  <2> DEFINE g == n \div 4
             len == IF size > 0 THEN size ELSE n
             Source(k) == IF k <= 4 * g THEN Interleaved(k, g) ELSE g + (k - 4 * g - 1) * g + 1
             Byte(k) == IF k <= n /\ Source(k) <= n THEN data[Source(k)] ELSE 0
  <2>1. g \in Nat /\ len \in Nat
      BY <1>1, DivMod4
  <2>2. ASSUME NEW k \in 1..len PROVE Source(k) \in Nat \ {0}
    <3> HIDE DEF g, len
    <3>1. CASE k <= 4 * g
      <4>1. Interleaved(k, g) \in 1 .. (4 * g)
          BY <2>1, <3>1, InterleavedPlace
      <4> QED BY <2>1, <3>1, <4>1
    <3>2. CASE ~(k <= 4 * g)
      <4>1. k - 4 * g - 1 \in Nat
          BY <2>1, <3>2
      <4>2. (k - 4 * g - 1) * g \in Nat
          BY <2>1, <4>1
      <4> QED BY <2>1, <3>2, <4>2
    <3> QED BY <3>1, <3>2
  <2>3. \A k \in 1..len : Byte(k) \in Nat
    <3> HIDE DEF Source, len, n
    <3> QED BY <1>1, <2>2
  <2>4. undoByteGrouping4(data, size) = [k \in 1..len |-> Byte(k)]
      BY <1>3 DEF undoByteGrouping4, undoByteGrouping4Partial
  <2> HIDE DEF Byte, len
  <2>5. [k \in 1..len |-> Byte(k)] \in [1..len -> Nat]
      BY <2>3
  <2> QED BY <2>1, <2>4, <2>5 DEF Data
<1>4. CASE n > 0 /\ n % 4 = 0
  <2> DEFINE g == n \div 4
             len == IF size > 0 /\ n > size THEN size ELSE n
             Byte(k) == data[Interleaved(k, g)]
  <2>1. g \in Nat /\ n = 4 * g /\ len \in 0..n
    <3>1. g \in Nat /\ n = 4 * g + (n % 4)
      <4>1. n \in Nat
          BY <1>1
      <4> HIDE DEF n
      <4> QED BY <4>1, DivMod4
    <3> QED BY <1>1, <1>4, <3>1
  <2>2. ASSUME NEW k \in 1..len PROVE Byte(k) \in Nat
    <3>1. k \in 1 .. (4 * g)
      <4> HIDE DEF len, g
      <4> QED BY <1>1, <2>1
    <3>2. Interleaved(k, g) \in 1 .. n
      <4> HIDE DEF g
      <4> QED BY <2>1, <3>1, InterleavedPlace
    <3> QED BY <1>1, <3>2
  <2>3. undoByteGrouping4(data, size) = [k \in 1..len |-> Byte(k)]
      BY <1>4 DEF undoByteGrouping4
  <2> HIDE DEF Byte, len
  <2>4. [k \in 1..len |-> Byte(k)] \in [1..len -> Nat]
      BY <2>2
  <2>5. len \in Nat
      BY <1>1, <2>1
  <2> QED BY <2>3, <2>4, <2>5 DEF Data
<1> QED BY <1>1, <1>2, <1>3, <1>4

(* What the encoder groups, undoByteGrouping4 brings back, without the     *)
(* padding: when the encoder pads, or has whole groups.                    *)
THEOREM Regrouped ==
    ASSUME NEW data \in Data, PadsGroups \/ Len(data) % 4 = 0
    PROVE  undoByteGrouping4(ByteGrouping4(data), Len(data)) = data
<1> DEFINE n == Len(data)
           g == IF PadsGroups THEN (n + 3) \div 4 ELSE n \div 4
           Source(p) == 4 * ((p - 1) % g) + (p - 1) \div g + 1
           Byte(k) == IF k <= n THEN data[k] ELSE 0
           groups == [p \in 1..(4 * g) |-> Byte(Source(p))]
<1>1. n \in Nat /\ g \in Nat /\ n <= 4 * g /\ (n = 0 => g = 0) /\ (n > 0 => g > 0)
  <2>1. n \in Nat
      BY DEF Data
  <2>2. CASE PadsGroups
    <3>1. /\ n + 3 = 4 * ((n + 3) \div 4) + ((n + 3) % 4) /\ (n + 3) % 4 \in 0 .. 3
          /\ (n + 3) \div 4 \in Nat
      <4>1. PICK m \in Nat : m = n + 3
          BY <2>1
      <4> HIDE DEF n
      <4> QED BY <4>1, DivMod4
    <3> QED BY <2>1, <2>2, <3>1
  <2>3. CASE ~PadsGroups
    <3>1. n = 4 * (n \div 4) + (n % 4) /\ n \div 4 \in Nat
      <4> HIDE DEF n
      <4> QED BY <2>1, DivMod4
    <3> QED BY <2>1, <2>3, <3>1
  <2> QED BY <2>2, <2>3
<1>2. ByteGrouping4(data) = groups
  <2>1. ByteGrouping4(data) = groups \o <<>>
    <3> DEFINE rest == IF 4 * g < n THEN SubSeq(data, 4 * g + 1, n) ELSE <<>>
    <3>1. ByteGrouping4(data) = groups \o rest
        BY DEF ByteGrouping4
    <3>2. rest = <<>>
      <4> HIDE DEF g, n
      <4> QED BY <1>1
    <3> HIDE DEF groups, rest
    <3> QED BY <3>1, <3>2
  <2>2. groups = ByteGrouping4(data) \/ groups \o <<>> = groups
    <3>1. groups \in Seq({Byte(Source(p)) : p \in 1..(4 * g)})
      <4> HIDE DEF g, Byte, Source
      <4> QED BY <1>1
    <3> HIDE DEF groups
    <3> QED BY <3>1, ConcatEmptySeq
  <2> QED BY <2>1, <2>2
<1>3. CASE n = 0
  <2>1. data = <<>>
      BY <1>3 DEF Data
  <2>2. groups = <<>>
    <3>1. groups \in Seq({Byte(Source(p)) : p \in 1..(4 * g)}) /\ Len(groups) = 0
      <4> HIDE DEF g, Byte, Source
      <4> QED BY <1>1, <1>3
    <3> HIDE DEF groups
    <3> QED BY <3>1
  <2>3. undoByteGrouping4(<<>>, n) = <<>>
      BY DEF undoByteGrouping4
  <2> QED BY <1>2, <2>1, <2>2, <2>3
<1>4. CASE n > 0
  <2> HIDE DEF g
  <2>1. Len(groups) = 4 * g /\ 4 * g > 0 /\ (4 * g) % 4 = 0 /\ (4 * g) \div 4 = g
    <3>1. 4 * g = 4 * g + 0 /\ 4 * g \in Nat /\ 0 \in 0 .. 3
        BY <1>1
    <3>2. g = (4 * g) \div 4 /\ 0 = (4 * g) % 4
        BY <1>1, <3>1, DivMod
    <3>3. Len(groups) = 4 * g
      <4> HIDE DEF Byte, Source
      <4> QED BY <1>1
    <3> QED BY <1>1, <1>4, <3>2, <3>3
  <2>2. undoByteGrouping4(groups, n) = [k \in 1..n |-> groups[Interleaved(k, g)]]
    <3>1. (IF n > 0 /\ 4 * g > n THEN n ELSE 4 * g) = n
        BY <1>1, <1>4
    <3> HIDE DEF groups, n
    <3>2. undoByteGrouping4(groups, n) =
              [k \in 1..(IF n > 0 /\ 4 * g > n THEN n ELSE 4 * g) |-> groups[Interleaved(k, g)]]
      <4>1. Len(groups) # 0 /\ ~(Len(groups) > 0 /\ Len(groups) % 4 # 0)
          BY <1>1, <2>1
      <4> QED BY <2>1, <4>1 DEF undoByteGrouping4
    <3> QED BY <3>1, <3>2
  <2>3. ASSUME NEW k \in 1..n PROVE groups[Interleaved(k, g)] = data[k]
    <3>1. k \in 1 .. (4 * g)
        BY <1>1
    <3>2. Interleaved(k, g) \in 1 .. (4 * g) /\ Source(Interleaved(k, g)) = k
        BY <1>1, <3>1, InterleavedPlace
    <3> HIDE DEF Source
    <3>3. groups[Interleaved(k, g)] = Byte(k)
        BY <3>2
    <3> QED BY <1>1, <3>3
  <2>4. data = [k \in 1..n |-> data[k]]
      BY DEF Data
  <2> HIDE DEF groups
  <2>5. [k \in 1..n |-> groups[Interleaved(k, g)]] = [k \in 1..n |-> data[k]]
      BY <2>3
  <2> QED BY <1>2, <2>2, <2>4, <2>5
<1> QED BY <1>1, <1>3, <1>4

----------------------------------------------------------------------------
(* Types.                                                                  *)

Requests == {"resolve", "redirect", "recon"}
InChunk == {"reset", "read", "emit"}
InTerm == InChunk \cup {"chunks", "fetch"}

DownloadState ==
    [pc : Labels, then : Labels, term : Nat \ {0}, iter : Nat \ {0}, buf : Data, out : Data]

(* Where a goroutine with the locals s can be in the terms of d.           *)
Placed(d, s) ==
    /\ s.term <= Len(Terms(d)) + 1
    /\ s.pc \in InTerm => s.term <= Len(Terms(d))
    /\ s.pc \in InTerm \ {"fetch"} => s.iter <= Len(Chunks(Terms(d)[s.term])) + 1
    /\ s.pc \in InChunk => s.iter <= Len(Chunks(Terms(d)[s.term]))
    /\ s.pc \in {"auth", "refresh"} => s.then \in Requests

Typed ==
    /\ dl \in [Downloads -> DownloadState]
    /\ streams \in [Downloads -> BOOLEAN]
    /\ file \in [Downloads -> Data \cup {NoFile}]
    /\ result \in [Downloads -> {"none", "ok", "err"}]
    /\ reader \in Data
    /\ cachedAuth \in {"none", "valid", "expired"} /\ expiries \in 0..MaxExpiries
    /\ answer \in {"none", "ok", "err"}
    /\ \A d \in Downloads :
          /\ recon[d] \in Recons[d] /\ Placed(d, dl[d])
          /\ streams[d] => file[d] \in Data
          /\ At(d, "refresh") <=> authMutex = d

(* The terms of a file, and the chunks of a term.                          *)
LEMMA TermTypes ==
    ASSUME NEW d \in Downloads, recon[d] \in Recons[d]
    PROVE  /\ Terms(d) \in Seq([hash : DOMAIN Xorbs, start : Nat, end : Nat])
           /\ Len(Terms(d)) \in Nat
           /\ \A t \in 1..Len(Terms(d)) :
                 /\ Chunks(Terms(d)[t]) \in Seq([type : STRING, data : Data])
                 /\ Len(Chunks(Terms(d)[t])) \in Nat
                 /\ \A c \in 1..Len(Chunks(Terms(d)[t])) : Chunks(Terms(d)[t])[c].data \in Data
<1>1. Terms(d) \in Seq([hash : DOMAIN Xorbs, start : Nat, end : Nat])
    BY StoredData DEF Terms
<1>2. Len(Terms(d)) \in Nat
    BY <1>1
<1>3. ASSUME NEW t \in 1..Len(Terms(d))
      PROVE  Chunks(Terms(d)[t]) \in Seq([type : STRING, data : Data])
  <2> DEFINE term == Terms(d)[t]
             cs == Xorbs[term.hash].chunks
             C == [type : STRING, data : Data]
  <2>1. term \in [hash : DOMAIN Xorbs, start : Nat, end : Nat]
      BY <1>1, ElementOfSeq
  <2>2. term.hash \in DOMAIN Xorbs /\ term.start \in Nat /\ term.end \in Nat
      BY <2>1
  <2>3. cs \in Seq(C)
      BY <2>2, StoredData DEF Data
  <2>4. term.end <= Len(cs)
    <3>1. recon[d] \in UNION {Recons[e] : e \in Downloads} /\ t \in DOMAIN recon[d].terms
        BY <1>1 DEF Terms
    <3> QED BY <3>1, RangesFit DEF Terms
  <2> HIDE DEF term, cs, C
  <2>5. \A i \in (term.start + 1) .. term.end : cs[i] \in C
      BY <2>2, <2>3, <2>4
  <2>6. SubSeq(cs, term.start + 1, term.end) \in Seq(C)
    <3>1. term.start + 1 \in Int /\ term.end \in Int
        BY <2>2
    <3> QED BY <2>5, <3>1, SubSeqProperties
  <2>7. Chunks(term) = SubSeq(cs, term.start + 1, term.end)
      BY DEF Chunks, cs
  <2> QED BY <2>6, <2>7 DEF term, C
<1>4. ASSUME NEW t \in 1..Len(Terms(d))
      PROVE  /\ Len(Chunks(Terms(d)[t])) \in Nat
             /\ \A c \in 1..Len(Chunks(Terms(d)[t])) : Chunks(Terms(d)[t])[c].data \in Data
  <2> DEFINE cs == Chunks(Terms(d)[t])
  <2>1. cs \in Seq([type : STRING, data : Data])
      BY <1>3
  <2> HIDE DEF cs
  <2>2. Len(cs) \in Nat /\ \A c \in 1..Len(cs) : cs[c] \in [type : STRING, data : Data]
    <3> DEFINE C == [type : STRING, data : Data]
    <3>1. cs \in Seq(C)
        BY <2>1
    <3> HIDE DEF C
    <3>2. Len(cs) \in Nat /\ \A c \in 1..Len(cs) : cs[c] \in C
        BY <3>1
    <3> QED BY <3>2 DEF C
  <2>3. Len(cs) \in Nat /\ \A c \in 1..Len(cs) : cs[c].data \in Data
      BY <2>2
  <2> QED BY <2>3 DEF cs
<1> QED BY <1>1, <1>2, <1>3, <1>4

LEMMA IdleTypes ==
    /\ Idle \in DownloadState /\ Idle.term = 1 /\ Idle.pc = "idle" /\ <<>> \in Data
    /\ [Idle EXCEPT !.pc = "done"] \in DownloadState
    /\ [Idle EXCEPT !.pc = "done"].pc = "done" /\ [Idle EXCEPT !.pc = "done"].term = 1
<1>1. <<>> \in Data
    BY DEF Data
<1>2. Idle \in DownloadState
    BY <1>1 DEF Idle, DownloadState, Labels
<1>3. [Idle EXCEPT !.pc = "done"] \in DownloadState
    BY <1>2 DEF DownloadState, Labels
<1>4. /\ Idle.term = 1 /\ Idle.pc = "idle"
      /\ [Idle EXCEPT !.pc = "done"].pc = "done" /\ [Idle EXCEPT !.pc = "done"].term = 1
    BY DEF Idle
<1> QED BY <1>1, <1>2, <1>3, <1>4

LEMMA TypedInit == XetInit => Typed
<1> SUFFICES ASSUME XetInit PROVE Typed
    OBVIOUS
<1>1. /\ dl \in [Downloads -> DownloadState]
      /\ \A d \in Downloads : dl[d] = Idle /\ recon[d] \in Recons[d]
    BY IdleTypes DEF XetInit
<1>2. ASSUME NEW d \in Downloads PROVE Placed(d, dl[d])
  <2>1. Len(Terms(d)) \in Nat
      BY <1>1, TermTypes
  <2> QED BY <1>1, <2>1, IdleTypes DEF Placed, InTerm, InChunk
<1>3. /\ file \in [Downloads -> Data \cup {NoFile}]
      /\ \A d \in Downloads : streams[d] => file[d] \in Data
    BY IdleTypes DEF XetInit
<1>4. \A d \in Downloads : At(d, "refresh") <=> authMutex = d
    BY <1>1, IdleTypes DEF XetInit, At
<1> QED BY <1>1, <1>2, <1>3, <1>4, IdleTypes DEF XetInit, Typed

(* A step of d gives it new locals, and touches what is its own.           *)
LEMMA TypedSet ==
    ASSUME Typed, NEW d \in Downloads, NEW new \in DownloadState, Placed(d, new),
           Set(d, new), UNCHANGED inputs,
           file' \in [Downloads -> Data \cup {NoFile}],
           \A e \in Downloads : streams[e] => file'[e] \in Data,
           result' \in [Downloads -> {"none", "ok", "err"}], reader' \in Data,
           cachedAuth' \in {"none", "valid", "expired"}, UNCHANGED <<expiries, answer>>,
           \A e \in Downloads \ {d} : authMutex' = e <=> authMutex = e,
           authMutex' = d <=> new.pc = "refresh"
    PROVE  Typed'
<1>1. /\ dl' \in [Downloads -> DownloadState] /\ dl'[d] = new
      /\ \A e \in Downloads \ {d} : dl'[e] = dl[e]
    BY DEF Set, Typed
<1>2. ASSUME NEW e \in Downloads
      PROVE  Placed(e, dl[e])'
  <2>1. CASE e = d
      BY <1>1, <2>1 DEF Placed, inputs, Terms, Chunks
  <2>2. CASE e # d
      BY <1>1, <2>2 DEF Typed, Placed, inputs, Terms, Chunks
  <2> QED BY <2>1, <2>2
<1>3. \A e \in Downloads : At(e, "refresh")' <=> authMutex' = e
    BY <1>1 DEF At, Typed
<1> QED BY <1>1, <1>2, <1>3 DEF Typed, inputs

(* Requests for a token, and the answers to them.                          *)
LEMMA TypedRequests ==
    ASSUME Typed, NEW d \in Downloads,
           \/ Start(d) \/ ResolveFileID(d) \/ ResolveRedirected(d) \/ resolveFileIDFromURL(d)
           \/ GetAuthToken(d) \/ FetchAuthToken(d) \/ FetchAuthTokenFails(d)
    PROVE  Typed'
<1> DEFINE s == dl[d]
<1>0. /\ s \in DownloadState /\ Placed(d, s) /\ s.term <= Len(Terms(d)) + 1
      /\ At(d, "refresh") <=> authMutex = d
      /\ \A e \in Downloads : streams[e] => file[e] \in Data
      /\ file \in [Downloads -> Data \cup {NoFile}]
      /\ result \in [Downloads -> {"none", "ok", "err"}] /\ reader \in Data
      /\ cachedAuth \in {"none", "valid", "expired"}
    BY DEF Typed, Placed
<1>1. CASE Start(d) \/ ResolveFileID(d) \/ ResolveRedirected(d) \/ resolveFileIDFromURL(d)
  <2>1. PICK label \in Requests : Request(d, label)
      BY <1>1 DEF Start, ResolveFileID, ResolveRedirected, resolveFileIDFromURL, Requests
  <2>2. /\ UNCHANGED <<inputs, file, result, reader, auth, answer>>
        /\ s.pc # "refresh"
      BY <1>1 DEF Start, ResolveFileID, ResolveRedirected, resolveFileIDFromURL, Frozen, At
  <2> DEFINE new == [s EXCEPT !.pc = "auth", !.then = label]
  <2>3. new \in DownloadState /\ new.pc = "auth" /\ new.then = label /\ new.term = s.term
      BY <1>0 DEF DownloadState, Requests, Labels
  <2>4. Set(d, new)
      BY <2>1 DEF Request
  <2> HIDE DEF new
  <2>5. Placed(d, new)
      BY <1>0, <2>3 DEF Placed, InTerm, InChunk
  <2>6. authMutex # d
      BY <1>0, <2>2 DEF At
  <2> QED BY <1>0, <2>2, <2>3, <2>4, <2>5, <2>6, TypedSet DEF auth
<1>2. CASE GetAuthToken(d) \/ FetchAuthToken(d) \/ FetchAuthTokenFails(d)
  <2>1. PICK label \in Requests \cup {"refresh"} :
          /\ Goto(d, label)
          /\ label = "refresh" => authMutex' = d
          /\ label # "refresh" => authMutex' \in {authMutex, NoOne} /\ (s.pc = "refresh" => authMutex' = NoOne)
          /\ authMutex \in {NoOne, d} \/ UNCHANGED authMutex
    <3>1. s.pc \in {"auth", "refresh"} /\ s.then \in Requests
        BY <1>0, <1>2 DEF Placed, GetAuthToken, FetchAuthToken, FetchAuthTokenFails, At
    <3>2. "refresh" \notin Requests
        BY DEF Requests
    <3>3. CASE GetAuthToken(d) /\ cachedAuth = "valid"
        BY <1>0, <3>1, <3>2, <3>3 DEF GetAuthToken, At
    <3>4. CASE GetAuthToken(d) /\ cachedAuth # "valid"
        BY <3>4 DEF GetAuthToken
    <3>5. CASE FetchAuthToken(d) \/ FetchAuthTokenFails(d)
        BY <1>0, <3>1, <3>2, <3>5 DEF FetchAuthToken, FetchAuthTokenFails, At
    <3> QED BY <1>2, <3>3, <3>4, <3>5
  <2>2. /\ UNCHANGED <<inputs, file, result, reader, expiries, answer>>
        /\ cachedAuth' \in {"none", "valid", "expired"}
      BY <1>0, <1>2 DEF GetAuthToken, FetchAuthToken, FetchAuthTokenFails
  <2> DEFINE new == [s EXCEPT !.pc = label]
  <2>3. new \in DownloadState /\ new.pc = label /\ new.term = s.term
      BY <1>0 DEF DownloadState, Requests, Labels
  <2>4. new.pc \in {"auth", "refresh"} => new.then \in Requests
    <3>1. s.then \in Requests /\ new.then = s.then
        BY <1>0, <1>2 DEF Placed, GetAuthToken, FetchAuthToken, FetchAuthTokenFails, At, DownloadState
    <3> QED BY <3>1
  <2>5. Set(d, new)
      BY <2>1 DEF Goto
  <2> HIDE DEF new
  <2>6. Placed(d, new)
      BY <1>0, <2>1, <2>3, <2>4 DEF Placed, InTerm, InChunk, Requests
  <2>7. /\ \A e \in Downloads \ {d} : authMutex' = e <=> authMutex = e
        /\ authMutex' = d <=> new.pc = "refresh"
      BY <1>0, <2>1, <2>3 DEF At
  <2> QED BY <1>0, <2>2, <2>3, <2>5, <2>6, <2>7, TypedSet
<1> QED BY <1>1, <1>2

(* A step that needs no token: the mutex stays with whom it was.           *)
LEMMA TypedFrozen ==
    ASSUME Typed, NEW d \in Downloads, NEW new \in DownloadState, Placed(d, new),
           Set(d, new), new.pc # "refresh", ~At(d, "refresh"), Frozen,
           file' \in [Downloads -> Data \cup {NoFile}],
           \A e \in Downloads : streams[e] => file'[e] \in Data,
           result' \in [Downloads -> {"none", "ok", "err"}], reader' \in Data
    PROVE  Typed'
<1>1. /\ UNCHANGED <<inputs, expiries, answer, authMutex>> /\ cachedAuth' \in {"none", "valid", "expired"}
      /\ authMutex # d
    BY DEF Frozen, auth, Typed
<1> QED BY <1>1, TypedSet

LEMMA TypedReturn ==
    ASSUME Typed, NEW d \in Downloads, NEW r \in {"ok", "err"}, Return(d, r),
           ~At(d, "refresh"), Frozen,
           file' \in [Downloads -> Data \cup {NoFile}],
           \A e \in Downloads : streams[e] => file'[e] \in Data, reader' \in Data
    PROVE  Typed'
<1> DEFINE new == [Idle EXCEPT !.pc = "done"]
<1>1. new \in DownloadState /\ new.pc = "done" /\ new.term = 1
    BY IdleTypes
<1>2. Set(d, new) /\ result' \in [Downloads -> {"none", "ok", "err"}]
    BY DEF Return, Typed
<1>3. Len(Terms(d)) \in Nat
    BY TermTypes DEF Typed
<1> HIDE DEF new
<1>4. Placed(d, new)
    BY <1>1, <1>3 DEF Placed, InTerm, InChunk
<1> QED BY <1>1, <1>2, <1>4, TypedFrozen

LEMMA TypedTerms ==
    ASSUME Typed, NEW d \in Downloads,
           GetReconstruction(d) \/ RequestFails(d) \/ NextTerm(d) \/ FetchXorbRange(d)
    PROVE  Typed'
<1> DEFINE s == dl[d]
<1>0. /\ s \in DownloadState /\ Placed(d, s) /\ s.term <= Len(Terms(d)) + 1
      /\ s.term \in Nat \ {0} /\ Len(Terms(d)) \in Nat
      /\ file \in [Downloads -> Data \cup {NoFile}]
      /\ \A e \in Downloads : streams[e] => file[e] \in Data
      /\ result \in [Downloads -> {"none", "ok", "err"}] /\ reader \in Data
    BY TermTypes DEF Typed, Placed, DownloadState
<1>a. UNCHANGED <<file, reader>> /\ Frozen /\ ~At(d, "refresh")
    BY DEF GetReconstruction, RequestFails, NextTerm, FetchXorbRange, At
<1>1. CASE Return(d, "ok") \/ Return(d, "err")
    BY <1>0, <1>1, <1>a, TypedReturn
<1>2. ASSUME UNCHANGED result, NEW label \in {"terms", "write"}, Goto(d, label)
      PROVE  Typed'
  <2> DEFINE new == [s EXCEPT !.pc = label]
  <2>1. new \in DownloadState /\ new.pc = label /\ new.term = s.term
      BY <1>0 DEF DownloadState, Labels
  <2>2. Set(d, new)
      BY <1>2 DEF Goto
  <2> HIDE DEF new
  <2>3. Placed(d, new)
      BY <1>0, <2>1 DEF Placed, InTerm, InChunk
  <2> QED BY <1>0, <1>2, <1>a, <2>1, <2>2, <2>3, TypedFrozen
<1>3. CASE UNCHANGED result /\ Goto(d, "fetch") /\ s.term <= Len(Terms(d))
  <2> DEFINE new == [s EXCEPT !.pc = "fetch"]
  <2>1. new \in DownloadState /\ new.pc = "fetch" /\ new.term = s.term
      BY <1>0 DEF DownloadState, Labels
  <2>2. Set(d, new)
      BY <1>3 DEF Goto
  <2> HIDE DEF new
  <2>3. Placed(d, new)
      BY <1>0, <1>3, <2>1 DEF Placed, InTerm, InChunk
  <2> QED BY <1>0, <1>3, <1>a, <2>1, <2>2, <2>3, TypedFrozen
<1>4. CASE FetchXorbRange(d)
  <2> DEFINE new == [s EXCEPT !.pc = "chunks", !.iter = 1]
  <2>1. new \in DownloadState /\ new.pc = "chunks" /\ new.term = s.term /\ new.iter = 1
    <3>1. 1 \in Nat \ {0}
        OBVIOUS
    <3> QED BY <1>0, <3>1, Zenon DEF DownloadState, Labels
  <2>2. Set(d, new) /\ UNCHANGED result
      BY <1>4 DEF FetchXorbRange
  <2>3. s.term \in 1..Len(Terms(d))
      BY <1>0, <1>4 DEF FetchXorbRange, At, Placed, InTerm
  <2>4. Len(Chunks(Terms(d)[s.term])) \in Nat
      BY <2>3, TermTypes DEF Typed
  <2> HIDE DEF new
  <2>5. Placed(d, new)
      BY <1>0, <2>1, <2>3, <2>4 DEF Placed, InTerm, InChunk
  <2> QED BY <1>0, <1>a, <2>1, <2>2, <2>5, TypedFrozen
<1>5. CASE GetReconstruction(d)
    BY <1>2, <1>5 DEF GetReconstruction
<1>6. CASE RequestFails(d)
    BY <1>1, <1>6 DEF RequestFails
<1>7. CASE NextTerm(d)
  <2>1. \/ Return(d, "ok") \/ Return(d, "err")
        \/ UNCHANGED result /\ Goto(d, "write")
        \/ UNCHANGED result /\ Goto(d, "fetch") /\ s.term <= Len(Terms(d))
    <3>1. CASE s.term > Len(Terms(d))
        BY <1>0, <1>7, <3>1 DEF NextTerm, Typed
    <3>2. CASE ~(s.term > Len(Terms(d)))
        BY <1>0, <1>7, <3>2 DEF NextTerm
    <3> QED BY <3>1, <3>2
  <2> QED BY <1>1, <1>2, <1>3, <2>1
<1> QED BY <1>4, <1>5, <1>6, <1>7

LEMMA TypedChunks ==
    ASSUME Typed, NEW d \in Downloads,
           \/ NextChunk(d) \/ EndOfRange(d) \/ ResetReader(d) \/ Read(d) \/ ReadEOF(d) \/ ReadFails(d)
    PROVE  Typed'
<1> DEFINE s == dl[d]
           cs == Chunks(Term(d))
<1>0. /\ s \in DownloadState /\ Placed(d, s) /\ s.buf \in Data
      /\ s.term \in 1..Len(Terms(d)) /\ s.iter \in 1..(Len(cs) + 1)
      /\ s.pc \in InChunk => s.iter \in 1..Len(cs)
      /\ Len(Terms(d)) \in Nat /\ Len(cs) \in Nat
      /\ \A c \in 1..Len(cs) : cs[c].data \in Data
      /\ file \in [Downloads -> Data \cup {NoFile}]
      /\ \A e \in Downloads : streams[e] => file[e] \in Data
      /\ result \in [Downloads -> {"none", "ok", "err"}] /\ reader \in Data
  <2>1. /\ s \in DownloadState /\ Placed(d, s) /\ s.pc \in InTerm \ {"fetch"}
        /\ s.buf \in Data /\ s.term \in Nat \ {0} /\ s.iter \in Nat \ {0}
      BY DEF Typed, DownloadState, NextChunk, EndOfRange, ResetReader, Read, ReadEOF, ReadFails,
             At, InTerm, InChunk
  <2>2. s.term \in 1..Len(Terms(d)) /\ Len(Terms(d)) \in Nat
      BY <2>1, TermTypes DEF Typed, Placed
  <2>3. Len(cs) \in Nat /\ \A c \in 1..Len(cs) : cs[c].data \in Data
      BY <2>2, TermTypes DEF Typed, Term
  <2>4. s.iter \in 1..(Len(cs) + 1) /\ (s.pc \in InChunk => s.iter \in 1..Len(cs))
      BY <2>1, <2>3 DEF Placed, Term
  <2> QED BY <2>1, <2>2, <2>3, <2>4 DEF Typed
<1>a. UNCHANGED file /\ Frozen /\ ~At(d, "refresh")
    BY DEF NextChunk, EndOfRange, ResetReader, Read, ReadEOF, ReadFails, At
<1>1. ASSUME Return(d, "err"), reader' \in Data
      PROVE  Typed'
    BY <1>0, <1>1, <1>a, TypedReturn
<1>2. ASSUME NEW label \in InChunk \cup {"chunks"}, NEW bytes \in Data, s.iter \in 1..Len(cs),
             Set(d, [s EXCEPT !.pc = label, !.buf = bytes]), UNCHANGED result, reader' \in Data
      PROVE  Typed'
  <2> DEFINE new == [s EXCEPT !.pc = label, !.buf = bytes]
  <2>1. new \in DownloadState /\ new.pc = label /\ new.term = s.term /\ new.iter = s.iter
      BY <1>0, <1>2 DEF DownloadState, Labels, InChunk
  <2>2. Set(d, new) /\ label \notin {"refresh", "auth"}
      BY <1>2 DEF InChunk
  <2> HIDE DEF new
  <2>3. Placed(d, new)
      BY <1>0, <1>2, <2>1, <2>2 DEF Placed, InTerm, InChunk, Term
  <2> QED BY <1>0, <1>2, <1>a, <2>1, <2>2, <2>3, TypedFrozen
<1>3. CASE NextChunk(d)
  <2>1. s.iter \in 1..Len(cs) /\ UNCHANGED reader /\ Chunk(d).data \in Data
      BY <1>0, <1>3 DEF NextChunk, Chunk
  <2>2. CASE Chunk(d).type = "none"
    <3>1. Set(d, [s EXCEPT !.pc = "emit", !.buf = Chunk(d).data]) /\ UNCHANGED result
        BY <1>3, <2>2 DEF NextChunk, Decompressed
    <3> QED BY <1>0, <1>2, <2>1, <3>1 DEF InChunk
  <2>3. CASE Chunk(d).type \in {"lz4", "bg4"}
    <3>1. Goto(d, "reset") /\ UNCHANGED result
        BY <1>3, <2>3 DEF NextChunk
    <3>2. [s EXCEPT !.pc = "reset"] = [s EXCEPT !.pc = "reset", !.buf = s.buf]
        BY <1>0 DEF DownloadState
    <3> QED BY <1>0, <1>2, <2>1, <3>1, <3>2 DEF InChunk, Goto
  <2>4. CASE Chunk(d).type \notin {"none", "lz4", "bg4"}
    <3>1. Return(d, "err")
        BY <1>3, <2>4 DEF NextChunk
    <3> QED BY <1>0, <1>1, <2>1, <3>1
  <2> QED BY <2>2, <2>3, <2>4
<1>4. CASE EndOfRange(d)
  <2>1. CASE Trailing(Term(d)) = "beyond"
      BY <1>0, <1>1, <1>4, <2>1 DEF EndOfRange
  <2>2. CASE Trailing(Term(d)) # "beyond"
    <3> DEFINE new == [s EXCEPT !.pc = "terms", !.term = s.term + 1]
    <3>1. new \in DownloadState /\ new.pc = "terms" /\ new.term = s.term + 1
      <4>1. PICK n \in Nat \ {0} : n = s.term + 1
          BY <1>0
      <4>2. [s EXCEPT !.pc = "terms", !.term = n] \in DownloadState
          BY <1>0 DEF DownloadState, Labels
      <4> QED BY <1>0, <4>1, <4>2 DEF DownloadState
    <3>2. Set(d, new) /\ UNCHANGED <<result, reader>>
        BY <1>4, <2>2 DEF EndOfRange
    <3> HIDE DEF new
    <3>3. Placed(d, new)
        BY <1>0, <3>1 DEF Placed, InTerm, InChunk
    <3> QED BY <1>0, <1>a, <3>1, <3>2, <3>3, TypedFrozen
  <2> QED BY <2>1, <2>2
<1>5. CASE ResetReader(d)
  <2>1. s.iter \in 1..Len(cs) /\ Chunk(d).data \in Data
      BY <1>0, <1>5 DEF ResetReader, At, InChunk, Chunk
  <2>2. reader' \in Data
    <3>1. Frame(Chunk(d)) \in Data
        BY <2>1, GroupedData DEF Frame
    <3> QED BY <1>5, <3>1 DEF ResetReader
  <2>3. Set(d, [s EXCEPT !.pc = "read", !.buf = <<>>]) /\ UNCHANGED result
      BY <1>5 DEF ResetReader
  <2> QED BY <1>2, <2>1, <2>2, <2>3, IdleTypes DEF InChunk
<1>6. CASE Read(d)
  <2> DEFINE n == IF Len(reader) < ReadSize THEN Len(reader) ELSE ReadSize
             bytes == s.buf \o SubSeq(reader, 1, n)
  <2>1. s.iter \in 1..Len(cs)
      BY <1>0, <1>6 DEF Read, At, InChunk
  <2>2. SubSeq(reader, 1, n) \in Data /\ SubSeq(reader, n + 1, Len(reader)) \in Data
      BY <1>0, SMTT(30) DEF Data
  <2>3. bytes \in Data
    <3> HIDE DEF n
    <3> QED BY <1>0, <2>2 DEF Data
  <2>4. /\ reader' = SubSeq(reader, n + 1, Len(reader)) /\ UNCHANGED result
        /\ Set(d, [s EXCEPT !.buf = bytes])
      BY <1>6 DEF Read
  <2> HIDE DEF bytes, n
  <2>5. [s EXCEPT !.buf = bytes] = [s EXCEPT !.pc = "read", !.buf = bytes]
      BY <1>0, <1>6 DEF Read, At, DownloadState
  <2> QED BY <1>2, <2>1, <2>2, <2>3, <2>4, <2>5 DEF InChunk
<1>7. CASE ReadEOF(d)
  <2>1. s.iter \in 1..Len(cs) /\ Chunk(d).data \in Data
      BY <1>0, <1>7 DEF ReadEOF, At, InChunk, Chunk
  <2> DEFINE bytes == IF Chunk(d).type = "bg4"
                      THEN undoByteGrouping4(s.buf, Len(Chunk(d).data)) ELSE s.buf
  <2>2. bytes \in Data
    <3>1. Len(Chunk(d).data) \in Nat
        BY <2>1 DEF Data
    <3> QED BY <1>0, <3>1, UngroupedData
  <2>3. Set(d, [s EXCEPT !.pc = "emit", !.buf = bytes]) /\ UNCHANGED <<result, reader>>
      BY <1>7 DEF ReadEOF, Decompressed
  <2> HIDE DEF bytes
  <2> QED BY <1>0, <1>2, <2>1, <2>2, <2>3 DEF InChunk
<1>8. CASE ReadFails(d)
    BY <1>0, <1>1, <1>8 DEF ReadFails
<1> QED BY <1>3, <1>4, <1>5, <1>6, <1>7, <1>8

LEMMA TypedOutput ==
    ASSUME Typed, NEW d \in Downloads,
           Emit(d) \/ WriterFails(d) \/ WriteFile(d) \/ WriteFileFails(d)
    PROVE  Typed'
<1> DEFINE s == dl[d]
<1>0. /\ s \in DownloadState /\ s.buf \in Data /\ s.out \in Data /\ Placed(d, s)
      /\ file \in [Downloads -> Data \cup {NoFile}] /\ reader \in Data
      /\ \A e \in Downloads : streams[e] => file[e] \in Data
      /\ result \in [Downloads -> {"none", "ok", "err"}]
    BY DEF Typed, DownloadState
<1>a. UNCHANGED reader /\ Frozen /\ ~At(d, "refresh")
    BY DEF Emit, WriterFails, WriteFile, WriteFileFails, At
<1>1. ASSUME NEW bytes \in Data, file' = [file EXCEPT ![d] = bytes]
      PROVE  /\ file' \in [Downloads -> Data \cup {NoFile}]
             /\ \A e \in Downloads : streams[e] => file'[e] \in Data
    BY <1>0, <1>1
<1>2. \A bytes \in Data, more \in Data : bytes \o more \in Data
    BY DEF Data
<1>3. \A bytes \in Data : \A n \in 0..Len(bytes) : SubSeq(bytes, 1, n) \in Data
    BY DEF Data
<1>4. CASE Emit(d)
  <2> DEFINE out == IF streams[d] THEN s.out ELSE s.out \o s.buf
             new == [s EXCEPT !.pc = "chunks", !.iter = s.iter + 1, !.buf = <<>>, !.out = out]
             cs == Chunks(Terms(d)[s.term])
  <2>1. s.term \in 1..Len(Terms(d)) /\ s.term <= Len(Terms(d)) + 1 /\ s.iter \in Nat \ {0} /\ s.iter <= Len(cs)
      BY <1>0, <1>4 DEF Emit, At, Placed, InChunk, InTerm, DownloadState
  <2>2. Len(cs) \in Nat
      BY <2>1, TermTypes DEF Typed
  <2>3. out \in Data
      BY <1>0, <1>2
  <2>4. Set(d, new)
      BY <1>4 DEF Emit
  <2>5. /\ new \in DownloadState /\ new.pc = "chunks" /\ new.term = s.term /\ new.iter = s.iter + 1
    <3>1. PICK n \in Nat \ {0} : n = s.iter + 1
        BY <2>1
    <3> HIDE DEF out
    <3>2. [s EXCEPT !.pc = "chunks", !.iter = n, !.buf = <<>>, !.out = out] \in DownloadState
        BY <1>0, <2>3, IdleTypes DEF DownloadState, Labels
    <3> QED BY <1>0, <3>1, <3>2 DEF DownloadState
  <2> HIDE DEF new
  <2>6. Placed(d, new)
      BY <2>1, <2>2, <2>5 DEF Placed, InChunk, InTerm
  <2>7. /\ file' \in [Downloads -> Data \cup {NoFile}]
        /\ \A e \in Downloads : streams[e] => file'[e] \in Data
        /\ UNCHANGED result
      BY <1>0, <1>1, <1>2, <1>4 DEF Emit
  <2> QED BY <1>0, <1>a, <2>4, <2>5, <2>6, <2>7, TypedFrozen
<1>5. CASE WriterFails(d)
  <2>1. PICK n \in 0..Len(s.buf) : file' = [file EXCEPT ![d] = @ \o SubSeq(s.buf, 1, n)]
      BY <1>5 DEF WriterFails
  <2>2. file[d] \in Data /\ SubSeq(s.buf, 1, n) \in Data /\ Return(d, "err")
      BY <1>0, <1>3, <1>5 DEF WriterFails
  <2>3. file[d] \o SubSeq(s.buf, 1, n) \in Data
      BY <1>2, <2>2
  <2> QED BY <1>0, <1>1, <1>a, <2>1, <2>2, <2>3, TypedReturn
<1>6. CASE WriteFile(d)
  <2>1. file' = [file EXCEPT ![d] = s.out] /\ Return(d, "ok")
      BY <1>6 DEF WriteFile
  <2> QED BY <1>0, <1>1, <1>a, <2>1, TypedReturn
<1>7. CASE WriteFileFails(d)
  <2>1. Return(d, "err")
      BY <1>7 DEF WriteFileFails
  <2>2. CASE UNCHANGED file
      BY <1>0, <1>a, <2>1, <2>2, TypedReturn
  <2>3. CASE \E n \in 0..Len(s.out) : file' = [file EXCEPT ![d] = SubSeq(s.out, 1, n)]
    <3>1. PICK n \in 0..Len(s.out) : file' = [file EXCEPT ![d] = SubSeq(s.out, 1, n)]
        BY <2>3
    <3>2. SubSeq(s.out, 1, n) \in Data
        BY <1>0, <1>3
    <3> QED BY <1>0, <1>1, <1>a, <2>1, <3>1, <3>2, TypedReturn
  <2> QED BY <1>7, <2>2, <2>3 DEF WriteFileFails
<1> QED BY <1>4, <1>5, <1>6, <1>7

LEMMA TypedStep == Typed /\ [XetNext]_xetVars => Typed'
<1> SUFFICES ASSUME Typed, [XetNext]_xetVars PROVE Typed'
    OBVIOUS
<1>1. CASE UNCHANGED xetVars \/ Collect \/ TokenExpires
  <2>1. /\ UNCHANGED <<dl, recon, streams, file, result, reader, authMutex>>
        /\ cachedAuth' \in {"none", "valid", "expired"} /\ expiries' \in 0..MaxExpiries
        /\ answer' \in {"none", "ok", "err"}
      BY <1>1 DEF xetVars, Collect, TokenExpires, inputs, auth, Typed
  <2> QED BY <2>1 DEF Typed, Placed, Terms, Chunks, At
<1>2. CASE \E d \in Downloads : DownloadStep(d)
    BY <1>2, TypedRequests, TypedTerms, TypedChunks, TypedOutput DEF DownloadStep
<1> QED BY <1>1, <1>2 DEF XetNext

(* Every variable of the Xet downloads keeps its type, whatever one        *)
(* goroutine reads of the chunks of another; and the goroutine that        *)
(* fetches a token is at all times the one that holds authMutex.           *)
THEOREM XetTyped == XetSpec => []XetTypeOK
<1>1. Typed => XetTypeOK
  <2> SUFFICES ASSUME Typed PROVE XetTypeOK
      OBVIOUS
  <2>1. ASSUME NEW d \in Downloads
        PROVE  /\ dl[d].pc \in Labels /\ dl[d].then \in Labels
               /\ dl[d].term \in 1..(Len(Terms(d)) + 1)
               /\ dl[d].buf \in Seq(Nat) /\ dl[d].out \in Seq(Nat)
    <3>1. dl[d] \in DownloadState /\ Placed(d, dl[d]) /\ Len(Terms(d)) \in Nat
        BY TermTypes DEF Typed
    <3> QED BY <3>1 DEF DownloadState, Placed, Data
  <2> QED BY <2>1 DEF Typed, XetTypeOK, Data
<1> QED BY <1>1, TypedInit, TypedStep, PTL DEF XetSpec

----------------------------------------------------------------------------
(* What FlattenSeq has made of the first n sequences, and prefixes.        *)

Upto(ss, n) == FlattenSeq(SubSeq(ss, 1, n))

Begins(s, t) == \E r \in Data : t = s \o r

LEMMA UptoStep ==
    ASSUME NEW ss \in Seq(Data)
    PROVE  /\ Upto(ss, 0) = <<>> /\ Upto(ss, Len(ss)) = FlattenSeq(ss)
           /\ \A n \in 0..Len(ss) : Upto(ss, n) \in Data
           /\ \A n \in 1..Len(ss) : Upto(ss, n) = Upto(ss, n - 1) \o ss[n]
<1>1. Upto(ss, 0) = <<>>
  <2>1. SubSeq(ss, 1, 0) = <<>>
      OBVIOUS
  <2> QED BY <2>1, FlattenEmpty DEF Upto
<1>2. Upto(ss, Len(ss)) = FlattenSeq(ss)
    BY SubSeqFull DEF Upto
<1>3. \A n \in 0..Len(ss) : SubSeq(ss, 1, n) \in Seq(Data)
    OBVIOUS
<1>4. \A n \in 0..Len(ss) : Upto(ss, n) \in Data
    BY <1>3, FlattenInData DEF Upto
<1>5. ASSUME NEW n \in 1..Len(ss)
      PROVE  Upto(ss, n) = Upto(ss, n - 1) \o ss[n]
  <2> DEFINE before == SubSeq(ss, 1, n - 1)
  <2>1. before \in Seq(Data) /\ ss[n] \in Data
      BY <1>3
  <2>2. SubSeq(ss, 1, n) = before \o <<ss[n]>>
    <3>1. 1 \in 1..Len(ss)
        OBVIOUS
    <3> QED BY <3>1, SubSeqRecursiveSecond
  <2> HIDE DEF before
  <2>3. Append(before, ss[n]) = before \o <<ss[n]>>
      BY <2>1, AppendIsConcat
  <2>4. FlattenSeq(Append(before, ss[n])) = FlattenSeq(before) \o ss[n]
      BY <2>1, FlattenAppend
  <2> QED BY <2>2, <2>3, <2>4 DEF Upto, before
<1> QED BY <1>1, <1>2, <1>4, <1>5

LEMMA DataAssociative ==
    \A s \in Data, t \in Data, u \in Data : (s \o t) \o u = s \o (t \o u)
<1> SUFFICES ASSUME NEW s \in Seq(Nat), NEW t \in Seq(Nat), NEW u \in Seq(Nat)
             PROVE  (s \o t) \o u = s \o (t \o u)
    BY DEF Data
<1> QED BY ConcatAssociative

LEMMA BeginsSelf == \A s \in Data : Begins(s, s) /\ Begins(<<>>, s)
<1> SUFFICES ASSUME NEW s \in Data PROVE Begins(s, s) /\ Begins(<<>>, s)
    OBVIOUS
<1>1. s \o <<>> = s /\ <<>> \o s = s /\ <<>> \in Data
    BY ConcatEmptySeq DEF Data
<1> QED BY <1>1 DEF Begins

LEMMA BeginsTrans ==
    ASSUME NEW s \in Data, NEW t \in Data, NEW u \in Data, Begins(s, t), Begins(t, u)
    PROVE  Begins(s, u)
<1>1. PICK p \in Data : t = s \o p
    BY DEF Begins
<1>2. PICK q \in Data : u = t \o q
    BY DEF Begins
<1>3. p \o q \in Data
    BY DEF Data
<1>4. (s \o p) \o q = s \o (p \o q)
    BY DataAssociative, SMTT(30)
<1> QED BY <1>1, <1>2, <1>3, <1>4 DEF Begins

LEMMA BeginsConcat ==
    ASSUME NEW s \in Data, NEW t \in Data, NEW u \in Data, Begins(t, u)
    PROVE  Begins(s \o t, s \o u)
<1>1. PICK p \in Data : u = t \o p
    BY DEF Begins
<1>2. (s \o t) \o p = s \o (t \o p)
    BY DataAssociative
<1> QED BY <1>1, <1>2 DEF Begins

LEMMA BeginsSubSeq ==
    ASSUME NEW s \in Data, NEW n \in 0..Len(s)
    PROVE  SubSeq(s, 1, n) \in Data /\ Begins(SubSeq(s, 1, n), s)
<1>1. SubSeq(s, 1, n) \in Data /\ SubSeq(s, n + 1, Len(s)) \in Data
    BY DEF Data
<1>2. SubSeq(s, 1, n) \o SubSeq(s, n + 1, Len(s)) = s
  <2>1. /\ 1 \in 1..(Len(s) + 1) /\ n \in (1 - 1)..Len(s) /\ Len(s) \in n..Len(s)
      BY DEF Data
  <2>2. SubSeq(s, 1, n) \o SubSeq(s, n + 1, Len(s)) = SubSeq(s, 1, Len(s))
      BY <2>1, ConcatAdjacentSubSeq DEF Data
  <2> QED BY <2>2, SubSeqFull DEF Data
<1> QED BY <1>1, <1>2 DEF Begins

LEMMA BeginsIsPrefix ==
    ASSUME NEW s \in Data, NEW t \in Data, Begins(s, t)
    PROVE  IsPrefix(s, t)
<1>1. PICK r \in Data : t = s \o r
    BY DEF Begins
<1>2. Len(t) = Len(s) + Len(r) /\ Len(s) \in Nat /\ Len(r) \in Nat
    BY <1>1, ConcatProperties DEF Data
<1>3. SubSeq(s, 1, Len(s)) = SubSeq(t, 1, Len(s))
  <2>1. CASE Len(s) = 0
      BY <2>1, SubSeqEmpty
  <2>2. CASE Len(s) > 0
    <3>1. 1 \in 1..Len(s) /\ Len(s) \in 1..Len(s)
        BY <1>2, <2>2
    <3> QED BY <1>1, <3>1, SubSeqOfConcat1 DEF Data
  <2> QED BY <1>2, <2>1, <2>2
<1> QED BY <1>2, <1>3 DEF IsPrefix

LEMMA UptoBegins ==
    ASSUME NEW ss \in Seq(Data), NEW n \in 0..Len(ss)
    PROVE  Begins(Upto(ss, n), FlattenSeq(ss))
<1> DEFINE T == {m \in Nat : n + m <= Len(ss) => Begins(Upto(ss, n), Upto(ss, n + m))}
<1>0. n \in Nat /\ Len(ss) \in Nat /\ \A m \in 0..Len(ss) : Upto(ss, m) \in Data
  <2>1. n \in Nat /\ Len(ss) \in Nat
      OBVIOUS
  <2>2. \A m \in 0..Len(ss) : Upto(ss, m) \in Data
      BY UptoStep
  <2> QED BY <2>1, <2>2
<1>1. 0 \in T
  <2>1. n + 0 = n
      BY <1>0
  <2> QED BY <1>0, <2>1, BeginsSelf
<1>2. ASSUME NEW m \in Nat, m \in T PROVE m + 1 \in T
  <2> SUFFICES ASSUME n + (m + 1) <= Len(ss) PROVE Begins(Upto(ss, n), Upto(ss, n + (m + 1)))
      OBVIOUS
  <2> DEFINE k == n + (m + 1)
  <2>1. k \in 1..Len(ss) /\ k - 1 = n + m /\ k - 1 \in 0..Len(ss) /\ ss[k] \in Data
      BY <1>0
  <2>2. Begins(Upto(ss, n), Upto(ss, k - 1))
    <3>1. n + m <= Len(ss)
        BY <1>0
    <3>2. Begins(Upto(ss, n), Upto(ss, n + m))
        BY <1>2, <3>1
    <3> HIDE DEF k
    <3> QED BY <2>1, <3>2
  <2> HIDE DEF k
  <2>3. Upto(ss, k) = Upto(ss, k - 1) \o ss[k]
      BY <2>1, UptoStep
  <2>4. Begins(Upto(ss, k - 1), Upto(ss, k))
      BY <2>1, <2>3 DEF Begins
  <2>5. Upto(ss, n) \in Data /\ Upto(ss, k - 1) \in Data /\ Upto(ss, k) \in Data
      BY <1>0, <2>1
  <2> QED BY <2>2, <2>4, <2>5, BeginsTrans DEF k
<1> HIDE DEF T
<1>3. Nat \subseteq T
    BY <1>1, <1>2, SetInduction
<1>4. PICK m \in Nat : n + m = Len(ss)
  <2>1. Len(ss) - n \in Nat /\ n + (Len(ss) - n) = Len(ss)
      BY <1>0
  <2> QED BY <2>1
<1>5. Begins(Upto(ss, n), Upto(ss, n + m))
  <2>1. m \in T
      BY <1>3
  <2> QED BY <1>0, <1>4, <2>1 DEF T
<1> QED BY <1>4, <1>5, UptoStep

----------------------------------------------------------------------------
(* What is written when a goroutine is at a place among the terms.         *)

ChunkData(cs) == [c \in 1..Len(cs) |-> cs[c].data]
TermData(ts) == [t \in 1..Len(ts) |-> FlattenSeq(ChunkData(Chunks(ts[t])))]
Bytes(ts) == FlattenSeq(TermData(ts))

\* The first n terms; and of the t-th term the first c chunks.
TermsUpto(ts, n) == Upto(TermData(ts), n)
ChunksUpto(ts, t, c) == TermsUpto(ts, t - 1) \o Upto(ChunkData(Chunks(ts[t])), c)

Good(ts) ==
    /\ Len(ts) \in Nat
    /\ \A t \in 1..Len(ts) :
          /\ Len(Chunks(ts[t])) \in Nat
          /\ \A c \in 1..Len(Chunks(ts[t])) : Chunks(ts[t])[c].data \in Data

LEMMA Pieces ==
    ASSUME NEW ts, Good(ts)
    PROVE  /\ TermData(ts) \in Seq(Data) /\ Len(TermData(ts)) = Len(ts)
           /\ \A t \in 1..Len(ts) :
                 /\ ChunkData(Chunks(ts[t])) \in Seq(Data)
                 /\ Len(ChunkData(Chunks(ts[t]))) = Len(Chunks(ts[t]))
                 /\ TermData(ts)[t] = FlattenSeq(ChunkData(Chunks(ts[t])))
<1>1. ASSUME NEW t \in 1..Len(ts)
      PROVE  /\ ChunkData(Chunks(ts[t])) \in Seq(Data)
             /\ Len(ChunkData(Chunks(ts[t]))) = Len(Chunks(ts[t]))
  <2> DEFINE cs == Chunks(ts[t])
             n == Len(cs)
             f == [c \in 1..n |-> cs[c].data]
  <2>1. n \in Nat /\ \A c \in 1..n : cs[c].data \in Data
      BY DEF Good
  <2> HIDE DEF cs, n
  <2>2. f \in Seq(Data) /\ Len(f) = n
      BY <2>1
  <2> QED BY <2>2 DEF ChunkData, cs, n
<1>2. \A t \in 1..Len(ts) : FlattenSeq(ChunkData(Chunks(ts[t]))) \in Data
    BY <1>1, FlattenInData
<1>3. Len(ts) \in Nat
    BY DEF Good
<1>4. TermData(ts) \in Seq(Data) /\ Len(TermData(ts)) = Len(ts)
  <2> DEFINE n == Len(ts)
             F(t) == FlattenSeq(ChunkData(Chunks(ts[t])))
  <2>1. n \in Nat /\ \A t \in 1..n : F(t) \in Data
      BY <1>2, <1>3
  <2>2. TermData(ts) = [t \in 1..n |-> F(t)]
      BY DEF TermData
  <2> HIDE DEF n, F
  <2>3. [t \in 1..n |-> F(t)] \in Seq(Data) /\ Len([t \in 1..n |-> F(t)]) = n
      BY <2>1
  <2> QED BY <2>2, <2>3 DEF n
<1>5. \A t \in 1..Len(ts) : TermData(ts)[t] = FlattenSeq(ChunkData(Chunks(ts[t])))
    BY Zenon DEF TermData
<1> QED BY <1>1, <1>4, <1>5

LEMMA AtTerm ==
    ASSUME NEW ts, Good(ts)
    PROVE  /\ TermsUpto(ts, 0) = <<>> /\ TermsUpto(ts, Len(ts)) = Bytes(ts)
           /\ Bytes(ts) \in Data
           /\ \A n \in 0..Len(ts) : TermsUpto(ts, n) \in Data /\ Begins(TermsUpto(ts, n), Bytes(ts))
<1>1. TermData(ts) \in Seq(Data) /\ Len(TermData(ts)) = Len(ts)
    BY Pieces
<1>2. /\ TermsUpto(ts, 0) = <<>> /\ TermsUpto(ts, Len(ts)) = Bytes(ts)
      /\ \A n \in 0..Len(ts) : TermsUpto(ts, n) \in Data
  <2> DEFINE ss == TermData(ts)
  <2>1. ss \in Seq(Data) /\ Len(ss) = Len(ts)
      BY <1>1
  <2> HIDE DEF ss
  <2>2. /\ Upto(ss, 0) = <<>> /\ Upto(ss, Len(ss)) = FlattenSeq(ss)
        /\ \A n \in 0..Len(ss) : Upto(ss, n) \in Data
      BY <2>1, UptoStep
  <2> QED BY <2>1, <2>2 DEF TermsUpto, Bytes, ss
<1>3. \A n \in 0..Len(ts) : Begins(TermsUpto(ts, n), Bytes(ts))
    BY <1>1, UptoBegins DEF TermsUpto, Bytes
<1>4. Bytes(ts) \in Data
    BY <1>1, FlattenInData DEF Bytes
<1> QED BY <1>2, <1>3, <1>4

LEMMA AtChunk ==
    ASSUME NEW ts, Good(ts), NEW t \in 1..Len(ts)
    PROVE  /\ ChunksUpto(ts, t, 0) = TermsUpto(ts, t - 1)
           /\ ChunksUpto(ts, t, Len(Chunks(ts[t]))) = TermsUpto(ts, t)
           /\ \A c \in 0..Len(Chunks(ts[t])) :
                 ChunksUpto(ts, t, c) \in Data /\ Begins(ChunksUpto(ts, t, c), Bytes(ts))
           /\ \A c \in 1..Len(Chunks(ts[t])) :
                 ChunksUpto(ts, t, c) = ChunksUpto(ts, t, c - 1) \o Chunks(ts[t])[c].data
<1> DEFINE ss == TermData(ts)
           cd == ChunkData(Chunks(ts[t]))
           before == TermsUpto(ts, t - 1)
<1>1. /\ ss \in Seq(Data) /\ Len(ss) = Len(ts) /\ Len(ts) \in Nat /\ ss[t] = FlattenSeq(cd)
      /\ cd \in Seq(Data) /\ Len(cd) = Len(Chunks(ts[t])) /\ Len(cd) \in Nat
  <2>1. Len(ts) \in Nat /\ Len(Chunks(ts[t])) \in Nat
      BY DEF Good
  <2> QED BY <2>1, Pieces
<1>2. \A c \in 1..Len(cd) : cd[c] = Chunks(ts[t])[c].data
    BY <1>1 DEF ChunkData
<1>3. t - 1 \in 0..Len(ts) /\ t \in 0..Len(ts) /\ t \in 1..Len(ss)
    BY <1>1
<1>4. before \in Data
    BY <1>3, AtTerm
<1> HIDE DEF cd, ss, before
<1>5. /\ Upto(cd, 0) = <<>> /\ Upto(cd, Len(cd)) = FlattenSeq(cd)
      /\ \A c \in 0..Len(cd) : Upto(cd, c) \in Data
      /\ \A c \in 1..Len(cd) : Upto(cd, c) = Upto(cd, c - 1) \o cd[c]
    BY <1>1, UptoStep
<1>6. \A c : ChunksUpto(ts, t, c) = before \o Upto(cd, c)
    BY DEF ChunksUpto, before, cd
<1>7. ChunksUpto(ts, t, 0) = TermsUpto(ts, t - 1)
    BY <1>4, <1>5, <1>6, ConcatEmptySeq DEF Data, before
<1>8. TermsUpto(ts, t) = before \o FlattenSeq(cd)
    BY <1>1, <1>3, UptoStep DEF TermsUpto, before, ss
<1>9. ASSUME NEW c \in 0..Len(cd)
      PROVE  ChunksUpto(ts, t, c) \in Data /\ Begins(ChunksUpto(ts, t, c), Bytes(ts))
  <2>1. Upto(cd, c) \in Data /\ FlattenSeq(cd) \in Data
      BY <1>1, <1>5, FlattenInData
  <2>2. Begins(Upto(cd, c), FlattenSeq(cd))
      BY <1>1, UptoBegins
  <2>3. Begins(before \o Upto(cd, c), before \o FlattenSeq(cd))
      BY <1>4, <2>1, <2>2, BeginsConcat
  <2>4. before \o Upto(cd, c) \in Data
      BY <1>4, <2>1 DEF Data
  <2>5. TermsUpto(ts, t) \in Data /\ Begins(TermsUpto(ts, t), Bytes(ts)) /\ Bytes(ts) \in Data
      BY <1>3, AtTerm
  <2> QED BY <1>6, <1>8, <2>3, <2>4, <2>5, BeginsTrans
<1>10. ASSUME NEW c \in 1..Len(cd)
       PROVE  ChunksUpto(ts, t, c) = ChunksUpto(ts, t, c - 1) \o cd[c]
  <2> DEFINE p == Upto(cd, c - 1)
             q == cd[c]
  <2>1. q \in Data
      BY <1>1
  <2>2. p \in Data
    <3>1. c - 1 \in 0..Len(cd)
        BY <1>1
    <3> QED BY <1>5, <3>1
  <2>3. Upto(cd, c) = p \o q
      BY <1>5
  <2> HIDE DEF p, q
  <2>4. (before \o p) \o q = before \o (p \o q)
      BY <1>4, <2>1, <2>2, DataAssociative
  <2> QED BY <1>6, <2>3, <2>4 DEF p, q
<1> QED BY <1>1, <1>2, <1>5, <1>6, <1>7, <1>8, <1>9, <1>10

\* What the writer has got, or what is collected for it.
Written(ts, s) ==
    IF s.pc \in InTerm \ {"fetch"} THEN ChunksUpto(ts, s.term, s.iter - 1) ELSE TermsUpto(ts, s.term - 1)

Before == Requests \cup {"idle", "auth", "refresh"}

\* The lz4 reader holds the rest of the chunk that is being read.
ChunkHonest(chunk, s, b) ==
    /\ s.pc = "emit" => s.buf = chunk.data
    /\ s.pc # "emit" => chunk.type \in {"lz4", "bg4"}
    /\ s.pc = "read" => s.buf \o b = Frame(chunk)

\* For terms ts: a goroutine with locals s, output f, result r; b in the reader.
Honest(ts, st, s, f, r, b) ==
    /\ s.pc \in Before => s.term = 1
    /\ s.pc # "done" =>
          /\ r = "none" /\ (~st => f = NoFile)
          /\ Written(ts, s) = (IF st THEN f ELSE s.out)
    /\ s.pc = "write" => ~st /\ s.term = Len(ts) + 1
    /\ s.pc \in InChunk => ChunkHonest(Chunks(ts[s.term])[s.iter], s, b)
    /\ s.pc = "done" =>
          /\ f # NoFile => f \in Data /\ Begins(f, Bytes(ts))
          /\ r = "ok" => f = Bytes(ts)

AllHonest ==
    \A d \in Downloads : Honest(Terms(d), streams[d], dl[d], file[d], result[d], reader)

LEMMA WrittenBegins ==
    ASSUME NEW ts, Good(ts), NEW s \in DownloadState, s.term <= Len(ts) + 1,
           s.pc \in InTerm => s.term <= Len(ts),
           s.pc \in InTerm \ {"fetch"} => s.iter <= Len(Chunks(ts[s.term])) + 1
    PROVE  Written(ts, s) \in Data /\ Begins(Written(ts, s), Bytes(ts))
<1>0. s.term \in Nat \ {0} /\ s.iter \in Nat \ {0} /\ Len(ts) \in Nat
    BY DEF DownloadState, Good
<1>1. CASE s.pc \in InTerm \ {"fetch"}
  <2>1. s.term \in 1..Len(ts)
      BY <1>0, <1>1
  <2>2. Len(Chunks(ts[s.term])) \in Nat
      BY <2>1 DEF Good
  <2>3. s.iter - 1 \in 0..Len(Chunks(ts[s.term]))
      BY <1>0, <1>1, <2>2
  <2> QED BY <1>1, <2>1, <2>3, AtChunk DEF Written
<1>2. CASE s.pc \notin InTerm \ {"fetch"}
  <2>1. s.term - 1 \in 0..Len(ts)
      BY <1>0
  <2> QED BY <1>2, <2>1, AtTerm DEF Written
<1> QED BY <1>1, <1>2

(* Where a goroutine is, in the terms of its file.                         *)
LEMMA Position ==
    ASSUME Typed, NEW d \in Downloads
    PROVE  /\ Good(Terms(d)) /\ dl[d] \in DownloadState /\ Placed(d, dl[d])
           /\ dl[d].term \in Nat \ {0} /\ dl[d].iter \in Nat \ {0}
           /\ dl[d].buf \in Data /\ dl[d].out \in Data
           /\ Written(Terms(d), dl[d]) \in Data
           /\ Begins(Written(Terms(d), dl[d]), Bytes(Terms(d)))
           /\ dl[d].pc \in InTerm \ {"fetch"} =>
                 /\ dl[d].term \in 1..Len(Terms(d))
                 /\ dl[d].iter \in 1..(Len(Chunks(Terms(d)[dl[d].term])) + 1)
           /\ dl[d].pc \in InChunk =>
                 /\ dl[d].iter \in 1..Len(Chunks(Terms(d)[dl[d].term]))
                 /\ Chunks(Terms(d)[dl[d].term])[dl[d].iter].data \in Data
<1>1. Good(Terms(d))
    BY TermTypes DEF Typed, Good
<1>2. dl[d] \in DownloadState /\ Placed(d, dl[d])
    BY DEF Typed
<1>3. /\ dl[d].term \in Nat \ {0} /\ dl[d].iter \in Nat \ {0}
      /\ dl[d].buf \in Data /\ dl[d].out \in Data
    BY <1>2 DEF DownloadState
<1>4. Written(Terms(d), dl[d]) \in Data /\ Begins(Written(Terms(d), dl[d]), Bytes(Terms(d)))
    BY <1>1, <1>2, WrittenBegins DEF Placed
<1>5. ASSUME dl[d].pc \in InTerm \ {"fetch"}
      PROVE  /\ dl[d].term \in 1..Len(Terms(d))
             /\ dl[d].iter \in 1..(Len(Chunks(Terms(d)[dl[d].term])) + 1)
  <2>1. dl[d].term \in 1..Len(Terms(d))
      BY <1>1, <1>2, <1>3, <1>5 DEF Placed, Good
  <2>2. Len(Chunks(Terms(d)[dl[d].term])) \in Nat
      BY <1>1, <2>1 DEF Good
  <2> QED BY <1>2, <1>3, <1>5, <2>1, <2>2 DEF Placed
<1>6. ASSUME dl[d].pc \in InChunk
      PROVE  /\ dl[d].iter \in 1..Len(Chunks(Terms(d)[dl[d].term]))
             /\ Chunks(Terms(d)[dl[d].term])[dl[d].iter].data \in Data
  <2>1. dl[d].term \in 1..Len(Terms(d))
      BY <1>5, <1>6 DEF InTerm, InChunk
  <2>2. Len(Chunks(Terms(d)[dl[d].term])) \in Nat
      BY <1>1, <2>1 DEF Good
  <2>3. dl[d].iter \in 1..Len(Chunks(Terms(d)[dl[d].term]))
      BY <1>2, <1>3, <1>6, <2>2 DEF Placed
  <2> QED BY <1>1, <2>1, <2>3 DEF Good
<1> QED BY <1>1, <1>2, <1>3, <1>4, <1>5, <1>6

(* The hypotheses about the stored data, for the chunk of a goroutine.     *)
LEMMA ChunkOf ==
    ASSUME Typed, NEW d \in Downloads, dl[d].pc \in InChunk
    PROVE  LET chunk == Chunks(Terms(d)[dl[d].term])[dl[d].iter]
           IN  /\ Plain(d) => chunk.type \notin {"lz4", "bg4"}
               /\ WholeGroups /\ chunk.type = "bg4" => PadsGroups \/ Len(chunk.data) % 4 = 0
<1> DEFINE r == recon[d]
           t == dl[d].term
           c == dl[d].iter
<1>1. t \in 1..Len(r.terms) /\ c \in 1..Len(Chunks(r.terms[t]))
    BY Position DEF Terms, InTerm, InChunk
<1>2. r \in Recons[d] /\ r.terms \in Seq([hash : DOMAIN Xorbs, start : Nat, end : Nat])
    BY StoredData DEF Typed
<1>3. Chunks(r.terms[t]) \in Seq([type : STRING, data : Data])
    BY <1>1, TermTypes DEF Typed, Terms
<1>4. t \in DOMAIN r.terms /\ c \in DOMAIN Chunks(r.terms[t])
    BY <1>1, <1>2, <1>3
<1> HIDE DEF r, t, c
<1>5. Plain(d) => Chunks(r.terms[t])[c].type \notin {"lz4", "bg4"}
    BY <1>2, <1>4 DEF Plain
<1>6. WholeGroups /\ Chunks(r.terms[t])[c].type = "bg4"
      => PadsGroups \/ Len(Chunks(r.terms[t])[c].data) % 4 = 0
    BY <1>2, <1>4 DEF WholeGroups
<1> QED BY <1>5, <1>6 DEF r, t, c, Terms

(* A step of d leaves the others as they were.  The reader they share is   *)
(* used by d only when no other has anything to read.                      *)
LEMMA HonestSet ==
    ASSUME Typed, AllHonest, OneCompressed, NEW d \in Downloads, NEW new, Set(d, new),
           UNCHANGED inputs,
           \A e \in Downloads \ {d} : file'[e] = file[e] /\ result'[e] = result[e],
           reader' = reader \/ dl[d].pc \in {"reset", "read"},
           Honest(Terms(d), streams[d], new, file'[d], result'[d], reader')
    PROVE  AllHonest'
<1>1. dl'[d] = new /\ \A e \in Downloads \ {d} : dl'[e] = dl[e]
    BY DEF Set, Typed
<1>2. \A e \in Downloads : Terms(e)' = Terms(e) /\ streams'[e] = streams[e]
    BY DEF inputs, Terms
<1>3. ASSUME NEW e \in Downloads \ {d}
      PROVE  Honest(Terms(e), streams[e], dl[e], file[e], result[e], reader')
  <2>1. Honest(Terms(e), streams[e], dl[e], file[e], result[e], reader)
      BY DEF AllHonest
  <2>2. CASE reader' = reader
      BY <2>1, <2>2
  <2>3. CASE dl[d].pc \in {"reset", "read"}
    <3>1. dl[d].pc \in InChunk /\ dl[d].pc # "emit"
        BY <2>3 DEF InChunk
    <3>2. ~Plain(d)
        BY <3>1, ChunkOf DEF AllHonest, Honest, ChunkHonest
    <3>3. Plain(e)
        BY <3>2 DEF OneCompressed
    <3>4. dl[e].pc # "read"
        BY <2>1, <3>3, ChunkOf DEF Honest, ChunkHonest, InChunk
    <3> QED BY <2>1, <3>4 DEF Honest, ChunkHonest
  <2> QED BY <2>2, <2>3
<1> QED BY <1>1, <1>2, <1>3 DEF AllHonest

(* Nothing is written while a goroutine asks, or goes on to the next term. *)
LEMMA HonestMove ==
    ASSUME NEW ts, NEW st, NEW s, NEW f, NEW r, NEW b, NEW new, Honest(ts, st, s, f, r, b),
           new.term = s.term, new.out = s.out, s.pc \in Before \cup {"terms"},
           new.pc \in Before => s.pc \in Before,
           new.pc \in Before \cup {"terms", "fetch", "write"},
           new.pc = "write" => ~st /\ s.term = Len(ts) + 1
    PROVE  Honest(ts, st, new, f, r, b)
<1>1. s.pc \notin InTerm /\ s.pc # "done" /\ new.pc \notin InTerm \ {"fetch"} /\ new.pc # "done"
    BY DEF Before, Requests, InTerm, InChunk
<1>2. Written(ts, new) = Written(ts, s)
    BY <1>1 DEF Written
<1>3. new.pc \notin InChunk
    BY <1>1 DEF InTerm, InChunk
<1> QED BY <1>1, <1>2, <1>3 DEF Honest

(* One that has returned: what was written stays, as a prefix.             *)
LEMMA HonestReturn ==
    ASSUME Typed, AllHonest, OneCompressed, NEW d \in Downloads, NEW r \in {"ok", "err"},
           Return(d, r), UNCHANGED <<inputs, reader>>,
           \A e \in Downloads \ {d} : file'[e] = file[e],
           file'[d] # NoFile => file'[d] \in Data /\ Begins(file'[d], Bytes(Terms(d))),
           r = "ok" => file'[d] = Bytes(Terms(d))
    PROVE  AllHonest'
<1> DEFINE new == [Idle EXCEPT !.pc = "done"]
<1>1. Set(d, new) /\ new.pc = "done" /\ result'[d] = r
      /\ \A e \in Downloads \ {d} : result'[e] = result[e]
    BY IdleTypes DEF Return, Typed
<1> HIDE DEF new
<1>2. Honest(Terms(d), streams[d], new, file'[d], result'[d], reader')
    BY <1>1 DEF Honest, Before, Requests, InChunk
<1> QED BY <1>1, <1>2, HonestSet

(* What a goroutine that has not returned has put into its file.           *)
LEMMA FileBegins ==
    ASSUME Typed, AllHonest, NEW d \in Downloads, dl[d].pc # "done"
    PROVE  /\ file[d] # NoFile => file[d] \in Data /\ Begins(file[d], Bytes(Terms(d)))
           /\ ~streams[d] => file[d] = NoFile /\ dl[d].out = Written(Terms(d), dl[d])
           /\ streams[d] => file[d] = Written(Terms(d), dl[d])
    BY Position DEF AllHonest, Honest

LEMMA HonestRequests ==
    ASSUME Typed, AllHonest, OneCompressed, NEW d \in Downloads,
           \/ Start(d) \/ ResolveFileID(d) \/ ResolveRedirected(d) \/ resolveFileIDFromURL(d)
           \/ GetAuthToken(d) \/ FetchAuthToken(d) \/ FetchAuthTokenFails(d)
           \/ GetReconstruction(d)
    PROVE  AllHonest'
<1> DEFINE s == dl[d]
<1>1. s \in DownloadState /\ Placed(d, s)
    BY DEF Typed
<1>2. Honest(Terms(d), streams[d], s, file[d], result[d], reader)
    BY DEF AllHonest
<1>3. UNCHANGED <<inputs, file, result, reader>> /\ s.pc \in Before
    BY DEF Start, ResolveFileID, ResolveRedirected, resolveFileIDFromURL, GetAuthToken,
           FetchAuthToken, FetchAuthTokenFails, GetReconstruction, Frozen, At, Before, Requests
<1>4. \E label \in Before \cup {"terms"}, then \in Labels :
         Set(d, [s EXCEPT !.pc = label, !.then = then])
  <2>1. CASE Start(d) \/ ResolveFileID(d) \/ ResolveRedirected(d) \/ resolveFileIDFromURL(d)
    <3>1. PICK label \in Requests : Request(d, label)
        BY <2>1 DEF Start, ResolveFileID, ResolveRedirected, resolveFileIDFromURL, Requests
    <3> QED BY <3>1 DEF Request, Before, Requests, Labels
  <2>2. ASSUME NEW label \in Before \cup {"terms"}, Goto(d, label)
        PROVE  \E then \in Labels : Set(d, [s EXCEPT !.pc = label, !.then = then])
    <3>1. [s EXCEPT !.pc = label] = [s EXCEPT !.pc = label, !.then = s.then] /\ s.then \in Labels
        BY <1>1 DEF DownloadState
    <3> QED BY <2>2, <3>1 DEF Goto
  <2>3. CASE GetAuthToken(d) \/ FetchAuthToken(d) \/ FetchAuthTokenFails(d)
    <3>1. s.then \in Requests
        BY <1>1, <2>3 DEF Placed, GetAuthToken, FetchAuthToken, FetchAuthTokenFails, At
    <3>2. \E label \in Before : Goto(d, label)
        BY <2>3, <3>1 DEF GetAuthToken, FetchAuthToken, FetchAuthTokenFails, Before
    <3> QED BY <2>2, <3>2
  <2>4. CASE GetReconstruction(d)
      BY <2>2, <2>4 DEF GetReconstruction
  <2> QED BY <2>1, <2>3, <2>4
<1>5. PICK label \in Before \cup {"terms"}, then \in Labels :
         Set(d, [s EXCEPT !.pc = label, !.then = then])
    BY <1>4
<1> DEFINE new == [s EXCEPT !.pc = label, !.then = then]
<1>6. new.pc = label /\ new.term = s.term /\ new.out = s.out /\ label # "write"
    BY <1>1 DEF DownloadState, Before, Requests
<1>7. Set(d, new)
    BY <1>5
<1> HIDE DEF new
<1>8. Honest(Terms(d), streams[d], new, file[d], result[d], reader)
    BY <1>2, <1>3, <1>6, HonestMove
<1> QED BY <1>3, <1>7, <1>8, HonestSet

LEMMA HonestTerms ==
    ASSUME Typed, AllHonest, OneCompressed, NEW d \in Downloads,
           NextTerm(d) \/ FetchXorbRange(d) \/ RequestFails(d)
    PROVE  AllHonest'
<1> DEFINE s == dl[d]
<1>1. s \in DownloadState /\ Placed(d, s) /\ Good(Terms(d)) /\ s.term \in Nat \ {0}
    BY Position
<1>2. Honest(Terms(d), streams[d], s, file[d], result[d], reader)
    BY DEF AllHonest
<1>3. UNCHANGED <<inputs, file, reader>> /\ s.pc # "done"
    BY DEF NextTerm, FetchXorbRange, RequestFails, Frozen, At
<1>4. ASSUME Return(d, "err") PROVE AllHonest'
    BY <1>3, <1>4, FileBegins, HonestReturn
<1>5. CASE RequestFails(d)
    BY <1>4, <1>5 DEF RequestFails
<1>6. CASE NextTerm(d)
  <2>1. s.pc = "terms" /\ Len(Terms(d)) \in Nat
      BY <1>1, <1>6 DEF NextTerm, At, Good
  <2>2. CASE s.term > Len(Terms(d)) /\ streams[d]
    <3>1. Return(d, "ok")
      <4>1. streams[d] = TRUE /\ s.term > Len(Terms(d)) /\ ~(s.term <= Len(Terms(d)))
          BY <1>1, <2>1, <2>2 DEF Typed
      <4> QED BY <1>6, <4>1 DEF NextTerm
    <3>2. s.term - 1 = Len(Terms(d))
        BY <1>1, <2>1, <2>2 DEF Placed
    <3>3. Written(Terms(d), s) = Bytes(Terms(d))
        BY <1>1, <2>1, <3>2, AtTerm DEF Written, InTerm, InChunk
    <3> QED BY <1>3, <2>2, <3>1, <3>3, FileBegins, HonestReturn
  <2>3. ASSUME NEW label \in {"fetch", "write"}, Goto(d, label), UNCHANGED result,
               label = "write" => ~streams[d] /\ s.term = Len(Terms(d)) + 1
        PROVE  AllHonest'
    <3> DEFINE new == [s EXCEPT !.pc = label]
    <3>1. Set(d, new) /\ new.pc = label /\ new.term = s.term /\ new.out = s.out
        BY <1>1, <2>3 DEF Goto, DownloadState
    <3> HIDE DEF new
    <3>2. Honest(Terms(d), streams[d], new, file[d], result[d], reader)
        BY <1>2, <2>1, <2>3, <3>1, HonestMove DEF Before, Requests
    <3> QED BY <1>3, <2>3, <3>1, <3>2, HonestSet
  <2>4. CASE s.term > Len(Terms(d)) /\ ~streams[d]
    <3>1. s.term = Len(Terms(d)) + 1
        BY <1>1, <2>1, <2>4 DEF Placed
    <3> QED BY <1>6, <2>3, <2>4, <3>1 DEF NextTerm
  <2>5. CASE ~(s.term > Len(Terms(d)))
    <3>1. s.term <= Len(Terms(d))
        BY <1>1, <2>1, <2>5
    <3>2. Return(d, "err") \/ (Goto(d, "fetch") /\ UNCHANGED result)
        BY <1>6, <2>5, <3>1 DEF NextTerm
    <3> QED BY <1>4, <2>3, <3>2
  <2> QED BY <2>2, <2>4, <2>5
<1>7. CASE FetchXorbRange(d)
  <2> DEFINE new == [s EXCEPT !.pc = "chunks", !.iter = 1]
  <2>1. /\ Set(d, new) /\ UNCHANGED result /\ new.pc = "chunks" /\ new.iter = 1
        /\ new.term = s.term /\ new.out = s.out /\ s.pc = "fetch"
      BY <1>1, <1>7 DEF FetchXorbRange, At, DownloadState
  <2> HIDE DEF new
  <2>2. s.term \in 1..Len(Terms(d))
      BY <1>1, <2>1 DEF Placed, InTerm, Good
  <2>3. new.iter - 1 = 0
      BY <2>1
  <2>4. Written(Terms(d), new) = Written(Terms(d), s)
      BY <1>1, <2>1, <2>2, <2>3, AtChunk DEF Written, InTerm
  <2>5. Honest(Terms(d), streams[d], new, file[d], result[d], reader)
      BY <1>2, <2>1, <2>4 DEF Honest, Before, Requests, InChunk
  <2> QED BY <1>3, <2>1, <2>5, HonestSet
<1> QED BY <1>5, <1>6, <1>7

LEMMA HonestChunks ==
    ASSUME Typed, AllHonest, OneCompressed, WholeGroups, NEW d \in Downloads,
           \/ NextChunk(d) \/ EndOfRange(d) \/ ResetReader(d) \/ Read(d) \/ ReadEOF(d) \/ ReadFails(d)
    PROVE  AllHonest'
<1> DEFINE s == dl[d]
           ts == Terms(d)
           chunk == Chunk(d)
<1>1. /\ s \in DownloadState /\ Good(ts) /\ s.term \in 1..Len(ts) /\ s.buf \in Data
      /\ s.iter \in 1..(Len(Chunks(ts[s.term])) + 1) /\ reader \in Data
      /\ s.pc \in InTerm \ {"fetch"} /\ s.pc \notin {"done", "write"} /\ s.pc \notin Before
      /\ chunk = Chunks(ts[s.term])[s.iter]
  <2>1. s.pc \in InTerm \ {"fetch"} /\ s.pc \notin {"done", "write"} /\ s.pc \notin Before
      BY DEF NextChunk, EndOfRange, ResetReader, Read, ReadEOF, ReadFails, At, InTerm, InChunk,
             Before, Requests
  <2> QED BY <2>1, Position DEF Chunk, Term, Typed
<1>2. Honest(ts, streams[d], s, file[d], result[d], reader)
    BY DEF AllHonest
<1>3. UNCHANGED <<inputs, file>>
    BY DEF NextChunk, EndOfRange, ResetReader, Read, ReadEOF, ReadFails, Frozen
<1>4. ASSUME Return(d, "err"), UNCHANGED reader PROVE AllHonest'
    BY <1>1, <1>3, <1>4, FileBegins, HonestReturn
<1>5. ASSUME NEW label \in InChunk, NEW bytes \in Data,
             Set(d, [s EXCEPT !.pc = label, !.buf = bytes]), UNCHANGED result,
             reader' = reader \/ s.pc \in {"reset", "read"},
             label = "emit" => bytes = chunk.data,
             label # "emit" => chunk.type \in {"lz4", "bg4"},
             label = "read" => bytes \o reader' = Frame(chunk)
      PROVE  AllHonest'
  <2> DEFINE new == [s EXCEPT !.pc = label, !.buf = bytes]
  <2>1. /\ Set(d, new) /\ new.pc = label /\ new.buf = bytes /\ new.term = s.term
        /\ new.iter = s.iter /\ new.out = s.out
      BY <1>1, <1>5 DEF DownloadState
  <2> HIDE DEF new, chunk
  <2>2. Written(ts, new) = Written(ts, s)
      BY <1>1, <1>5, <2>1 DEF Written, InTerm, InChunk
  <2>3. ChunkHonest(Chunks(ts[new.term])[new.iter], new, reader')
      BY <1>1, <1>5, <2>1 DEF ChunkHonest
  <2>4. new.pc \notin {"done", "write"} /\ new.pc \notin Before
      BY <1>5, <2>1 DEF InChunk, Before, Requests
  <2>5. Honest(ts, streams[d], new, file[d], result[d], reader')
      BY <1>1, <1>2, <2>1, <2>2, <2>3, <2>4 DEF Honest
  <2> QED BY <1>3, <1>5, <2>1, <2>5, HonestSet
<1>6. CASE NextChunk(d)
  <2>1. UNCHANGED reader
      BY <1>6 DEF NextChunk
  <2>2. CASE chunk.type = "none"
    <3>1. Set(d, [s EXCEPT !.pc = "emit", !.buf = chunk.data]) /\ UNCHANGED result
        BY <1>6, <2>2 DEF NextChunk, Decompressed
    <3>2. chunk.data \in Data
      <4>1. s.iter \in 1..Len(Chunks(ts[s.term]))
          BY <1>1, <1>6 DEF NextChunk, Term, Good
      <4> QED BY <1>1, <4>1 DEF Good
    <3> QED BY <1>5, <2>1, <3>1, <3>2 DEF InChunk
  <2>3. CASE chunk.type \in {"lz4", "bg4"}
    <3>1. Goto(d, "reset") /\ UNCHANGED result
        BY <1>6, <2>3 DEF NextChunk
    <3>2. [s EXCEPT !.pc = "reset"] = [s EXCEPT !.pc = "reset", !.buf = s.buf]
        BY <1>1 DEF DownloadState
    <3> HIDE DEF chunk
    <3> QED BY <1>1, <1>5, <2>1, <2>3, <3>1, <3>2 DEF InChunk, Goto
  <2>4. CASE chunk.type \notin {"none", "lz4", "bg4"}
    <3>1. Return(d, "err")
        BY <1>6, <2>4 DEF NextChunk
    <3> QED BY <1>4, <2>1, <3>1
  <2> QED BY <2>2, <2>3, <2>4
<1>7. CASE EndOfRange(d)
  <2>1. UNCHANGED reader /\ s.pc = "chunks" /\ s.iter > Len(Chunks(ts[s.term]))
      BY <1>7 DEF EndOfRange, At, Term
  <2>2. CASE Trailing(Term(d)) = "beyond"
      BY <1>4, <1>7, <2>1, <2>2 DEF EndOfRange
  <2>3. CASE Trailing(Term(d)) # "beyond"
    <3> DEFINE new == [s EXCEPT !.pc = "terms", !.term = s.term + 1]
    <3>1. /\ Set(d, new) /\ UNCHANGED result /\ new.pc = "terms" /\ new.term = s.term + 1
          /\ new.out = s.out
        BY <1>1, <1>7, <2>3 DEF EndOfRange, DownloadState
    <3> HIDE DEF new
    <3>2. s.iter - 1 = Len(Chunks(ts[s.term])) /\ new.term - 1 = s.term
        BY <1>1, <2>1, <3>1 DEF Good
    <3>3. Written(ts, new) = Written(ts, s)
        BY <1>1, <3>1, <3>2, AtChunk DEF Written, InTerm, InChunk
    <3>4. Honest(ts, streams[d], new, file[d], result[d], reader)
        BY <1>1, <1>2, <3>1, <3>3 DEF Honest, Before, Requests, InChunk
    <3> QED BY <1>3, <2>1, <3>1, <3>4, HonestSet
  <2> QED BY <2>2, <2>3
<1>8. ASSUME s.pc \in {"reset", "read"}
      PROVE  /\ chunk.type \in {"lz4", "bg4"} /\ chunk.data \in Data
             /\ chunk.type = "bg4" => PadsGroups \/ Len(chunk.data) % 4 = 0
             /\ s.pc = "read" => s.buf \o reader = Frame(chunk)
  <2>1. s.pc \in InChunk /\ s.pc # "emit"
      BY <1>8 DEF InChunk
  <2>2. chunk.data \in Data
      BY <1>1, <2>1, Position
  <2>3. chunk.type = "bg4" => PadsGroups \/ Len(chunk.data) % 4 = 0
      BY <1>1, <2>1, ChunkOf
  <2> QED BY <1>1, <1>2, <2>1, <2>2, <2>3 DEF Honest, ChunkHonest
<1>9. CASE ResetReader(d)
  <2>1. s.pc = "reset" /\ Set(d, [s EXCEPT !.pc = "read", !.buf = <<>>]) /\ UNCHANGED result
        /\ reader' = Frame(chunk)
      BY <1>9 DEF ResetReader, At
  <2>2. Frame(chunk) \in Data
      BY <1>8, <2>1, GroupedData DEF Frame
  <2>3. <<>> \o Frame(chunk) = Frame(chunk)
      BY <2>2, ConcatEmptySeq DEF Data
  <2> HIDE DEF chunk
  <2> QED BY <1>5, <1>8, <2>1, <2>3, IdleTypes DEF InChunk
<1>10. CASE Read(d)
  <2> DEFINE n == IF Len(reader) < ReadSize THEN Len(reader) ELSE ReadSize
             first == SubSeq(reader, 1, n)
             rest == SubSeq(reader, n + 1, Len(reader))
             bytes == s.buf \o first
  <2>1. s.pc = "read" /\ UNCHANGED result /\ reader' = rest
        /\ Set(d, [s EXCEPT !.buf = bytes])
      BY <1>10 DEF Read, At
  <2>2. Len(reader) \in Nat /\ n \in 0..Len(reader)
      BY <1>1 DEF Data
  <2> HIDE DEF n
  <2>3. first \in Data /\ rest \in Data
      BY <1>1, <2>2, SMTT(30) DEF Data
  <2>4. first \o rest = reader
    <3>1. /\ 1 \in 1..(Len(reader) + 1) /\ n \in (1 - 1)..Len(reader)
          /\ Len(reader) \in n..Len(reader)
        BY <2>2
    <3>2. first \o rest = SubSeq(reader, 1, Len(reader))
        BY <1>1, <3>1, ConcatAdjacentSubSeq DEF Data
    <3> QED BY <1>1, <3>2, SubSeqFull DEF Data
  <2> HIDE DEF first, rest
  <2>5. bytes \in Data
      BY <1>1, <2>3 DEF Data
  <2>6. bytes \o rest = s.buf \o (first \o rest)
    <3> DEFINE buf == s.buf
    <3>1. buf \in Data
        BY <1>1
    <3> HIDE DEF buf
    <3>2. (buf \o first) \o rest = buf \o (first \o rest)
        BY <2>3, <3>1, DataAssociative
    <3> QED BY <3>2 DEF buf
  <2>7. [s EXCEPT !.buf = bytes] = [s EXCEPT !.pc = "read", !.buf = bytes]
      BY <1>1, <2>1 DEF DownloadState
  <2> HIDE DEF bytes, chunk
  <2> QED BY <1>5, <1>8, <2>1, <2>4, <2>5, <2>6, <2>7 DEF InChunk
<1>11. CASE ReadEOF(d)
  <2> DEFINE bytes == IF chunk.type = "bg4" THEN undoByteGrouping4(s.buf, Len(chunk.data)) ELSE s.buf
  <2>1. s.pc = "read" /\ reader = <<>> /\ UNCHANGED <<result, reader>>
        /\ Set(d, [s EXCEPT !.pc = "emit", !.buf = bytes])
      BY <1>11 DEF ReadEOF, Decompressed, At
  <2>2. s.buf = Frame(chunk)
    <3>1. s.buf \o <<>> = s.buf
        BY <1>1, ConcatEmptySeq DEF Data
    <3> QED BY <1>8, <2>1, <3>1
  <2>3. bytes = chunk.data
      BY <1>8, <2>1, <2>2, Regrouped DEF Frame
  <2> HIDE DEF bytes, chunk
  <2> QED BY <1>5, <1>8, <2>1, <2>3 DEF InChunk
<1>12. CASE ReadFails(d)
    BY <1>4, <1>12 DEF ReadFails
<1> QED BY <1>6, <1>7, <1>9, <1>10, <1>11, <1>12

LEMMA HonestOutput ==
    ASSUME Typed, AllHonest, OneCompressed, NEW d \in Downloads,
           Emit(d) \/ WriterFails(d) \/ WriteFile(d) \/ WriteFileFails(d)
    PROVE  AllHonest'
<1> DEFINE s == dl[d]
           ts == Terms(d)
<1>1. /\ s \in DownloadState /\ Good(ts) /\ s.buf \in Data /\ s.out \in Data
      /\ s.pc # "done" /\ Bytes(ts) \in Data
      /\ file \in [Downloads -> Data \cup {NoFile}]
    BY Position, AtTerm DEF Emit, WriterFails, WriteFile, WriteFileFails, At, Typed
<1>2. Honest(ts, streams[d], s, file[d], result[d], reader)
    BY DEF AllHonest
<1>3. UNCHANGED <<inputs, reader>>
    BY DEF Emit, WriterFails, WriteFile, WriteFileFails, Frozen
<1>4. ASSUME s.pc = "emit"
      PROVE  /\ s.term \in 1..Len(ts) /\ s.iter \in 1..Len(Chunks(ts[s.term]))
             /\ s.buf = Chunks(ts[s.term])[s.iter].data
             /\ Written(ts, s) = ChunksUpto(ts, s.term, s.iter - 1)
             /\ ChunksUpto(ts, s.term, s.iter) = Written(ts, s) \o s.buf
  <2>1. s.term \in 1..Len(ts) /\ s.iter \in 1..Len(Chunks(ts[s.term]))
      BY <1>4, Position DEF InTerm, InChunk
  <2>2. s.buf = Chunks(ts[s.term])[s.iter].data
      BY <1>2, <1>4 DEF Honest, ChunkHonest, InChunk
  <2>3. Written(ts, s) = ChunksUpto(ts, s.term, s.iter - 1)
      BY <1>4 DEF Written, InTerm, InChunk
  <2>4. ChunksUpto(ts, s.term, s.iter) = ChunksUpto(ts, s.term, s.iter - 1) \o s.buf
    <3> DEFINE t == s.term
               c == s.iter
    <3>1. t \in 1..Len(ts) /\ c \in 1..Len(Chunks(ts[t])) /\ s.buf = Chunks(ts[t])[c].data /\ Good(ts)
        BY <1>1, <2>1, <2>2
    <3> HIDE DEF ts, t, c
    <3>2. ChunksUpto(ts, t, c) = ChunksUpto(ts, t, c - 1) \o Chunks(ts[t])[c].data
        BY <3>1, AtChunk
    <3> QED BY <3>1, <3>2 DEF t, c
  <2> QED BY <2>1, <2>2, <2>3, <2>4
<1>5. CASE Emit(d)
  <2> DEFINE out == IF streams[d] THEN s.out ELSE s.out \o s.buf
             new == [s EXCEPT !.pc = "chunks", !.iter = s.iter + 1, !.buf = <<>>, !.out = out]
  <2>1. /\ Set(d, new) /\ s.pc = "emit" /\ UNCHANGED result
        /\ file' = [file EXCEPT ![d] = IF streams[d] THEN file[d] \o s.buf ELSE file[d]]
      BY <1>5 DEF Emit, At
  <2>2. /\ new.pc = "chunks" /\ new.iter = s.iter + 1 /\ new.term = s.term /\ new.out = out
      BY <1>1 DEF DownloadState
  <2>3. /\ file'[d] = (IF streams[d] THEN file[d] \o s.buf ELSE file[d])
        /\ \A e \in Downloads \ {d} : file'[e] = file[e]
      BY <1>1, <2>1
  <2> HIDE DEF new
  <2>4. new.iter - 1 = s.iter
      BY <1>4, <2>1, <2>2
  <2>5. Written(ts, new) = Written(ts, s) \o s.buf
      BY <1>4, <2>1, <2>2, <2>4 DEF Written, InTerm
  <2>6. Honest(ts, streams[d], new, file'[d], result'[d], reader')
      BY <1>2, <1>3, <2>1, <2>2, <2>3, <2>5 DEF Honest, Before, Requests, InChunk
  <2> QED BY <1>3, <2>1, <2>3, <2>6, HonestSet
<1>6. CASE WriterFails(d)
  <2>1. /\ s.pc = "emit" /\ streams[d] /\ Return(d, "err")
        /\ \E n \in 0..Len(s.buf) : file' = [file EXCEPT ![d] = file[d] \o SubSeq(s.buf, 1, n)]
      BY <1>6 DEF WriterFails, At
  <2>2. PICK n \in 0..Len(s.buf) : file' = [file EXCEPT ![d] = file[d] \o SubSeq(s.buf, 1, n)]
      BY <2>1
  <2> DEFINE some == SubSeq(s.buf, 1, n)
             w == Written(ts, s)
  <2>3. some \in Data /\ Begins(some, s.buf)
      BY <1>1, BeginsSubSeq
  <2>4. /\ file'[d] = file[d] \o some /\ \A e \in Downloads \ {d} : file'[e] = file[e]
        /\ file[d] = w /\ w \in Data
      BY <1>1, <2>1, <2>2, FileBegins, Position
  <2>5. w \o s.buf \in Data /\ Begins(w \o s.buf, Bytes(ts))
    <3> DEFINE t == s.term
               c == s.iter
    <3>1. t \in 1..Len(ts) /\ c \in 1..Len(Chunks(ts[t])) /\ Good(ts)
        BY <1>1, <1>4, <2>1
    <3>a. ChunksUpto(ts, t, c) = w \o s.buf
        BY <1>4, <2>1
    <3> HIDE DEF ts, t, c, w
    <3>b. c \in 0..Len(Chunks(ts[t]))
        BY <3>1
    <3>2. ChunksUpto(ts, t, c) \in Data /\ Begins(ChunksUpto(ts, t, c), Bytes(ts))
        BY <3>1, <3>b, AtChunk
    <3> QED BY <3>a, <3>2
  <2> HIDE DEF some, w
  <2>6. Begins(w \o some, w \o s.buf)
      BY <1>1, <2>3, <2>4, BeginsConcat
  <2>7. w \o some \in Data
      BY <2>3, <2>4 DEF Data
  <2>8. Begins(w \o some, Bytes(ts))
      BY <1>1, <2>5, <2>6, <2>7, BeginsTrans
  <2> QED BY <1>3, <2>1, <2>4, <2>7, <2>8, HonestReturn
<1>7. ASSUME s.pc = "write" PROVE ~streams[d] /\ s.out = Bytes(ts) /\ file[d] = NoFile
  <2>1. s.term - 1 = Len(ts)
      BY <1>1, <1>2, <1>7 DEF Honest, Good
  <2>2. Written(ts, s) = Bytes(ts)
      BY <1>1, <1>7, <2>1, AtTerm DEF Written, InTerm, InChunk
  <2> QED BY <1>2, <1>7, <2>2 DEF Honest
<1>8. CASE WriteFile(d)
  <2>1. s.pc = "write" /\ Return(d, "ok") /\ file' = [file EXCEPT ![d] = s.out]
      BY <1>8 DEF WriteFile, At
  <2>2. file'[d] = Bytes(ts) /\ \A e \in Downloads \ {d} : file'[e] = file[e]
      BY <1>1, <1>7, <2>1
  <2> QED BY <1>1, <1>3, <2>1, <2>2, BeginsSelf, HonestReturn
<1>9. CASE WriteFileFails(d)
  <2>1. s.pc = "write" /\ Return(d, "err")
      BY <1>9 DEF WriteFileFails, At
  <2>2. CASE UNCHANGED file
      BY <1>1, <1>3, <2>1, <2>2, FileBegins, HonestReturn
  <2>3. CASE \E n \in 0..Len(s.out) : file' = [file EXCEPT ![d] = SubSeq(s.out, 1, n)]
    <3>1. PICK n \in 0..Len(s.out) : file' = [file EXCEPT ![d] = SubSeq(s.out, 1, n)]
        BY <2>3
    <3>2. file'[d] = SubSeq(s.out, 1, n) /\ \A e \in Downloads \ {d} : file'[e] = file[e]
        BY <1>1, <3>1
    <3>3. SubSeq(s.out, 1, n) \in Data /\ Begins(SubSeq(s.out, 1, n), s.out)
        BY <1>1, BeginsSubSeq
    <3> QED BY <1>3, <1>7, <2>1, <3>2, <3>3, HonestReturn
  <2> QED BY <1>9, <2>2, <2>3 DEF WriteFileFails
<1> QED BY <1>5, <1>6, <1>8, <1>9

LEMMA HonestInit == XetInit => AllHonest
<1> SUFFICES ASSUME XetInit, NEW d \in Downloads
             PROVE  Honest(Terms(d), streams[d], dl[d], file[d], result[d], reader)
    BY DEF AllHonest
<1>1. Good(Terms(d))
    BY TypedInit, Position
<1>2. /\ dl[d] = Idle /\ result[d] = "none" /\ streams[d] \in BOOLEAN
      /\ file[d] = (IF streams[d] THEN <<>> ELSE NoFile)
    BY DEF XetInit
<1>3. Idle.pc = "idle" /\ Idle.term = 1 /\ Idle.term - 1 = 0 /\ Idle.out = <<>>
    BY DEF Idle
<1>4. Written(Terms(d), Idle) = <<>>
    BY <1>1, <1>3, AtTerm DEF Written, InTerm, InChunk
<1> QED BY <1>2, <1>3, <1>4 DEF Honest, InChunk

LEMMA HonestStep ==
    OneCompressed /\ WholeGroups /\ Typed /\ AllHonest /\ [XetNext]_xetVars => AllHonest'
<1> SUFFICES ASSUME OneCompressed, WholeGroups, Typed, AllHonest, [XetNext]_xetVars PROVE AllHonest'
    OBVIOUS
<1>1. CASE UNCHANGED xetVars \/ Collect \/ TokenExpires
  <2>1. UNCHANGED <<dl, recon, streams, file, result, reader>>
      BY <1>1 DEF xetVars, Collect, TokenExpires, inputs
  <2> QED BY <2>1 DEF AllHonest, Terms
<1>2. CASE \E d \in Downloads : DownloadStep(d)
    BY <1>2, HonestRequests, HonestTerms, HonestChunks, HonestOutput DEF DownloadStep
<1> QED BY <1>1, <1>2 DEF XetNext

LEMMA HonestAlways == ASSUME OneCompressed, WholeGroups PROVE XetSpec => [](Typed /\ AllHonest)
<1>1. XetInit => Typed /\ AllHonest
    BY TypedInit, HonestInit
<1>2. (Typed /\ AllHonest) /\ [XetNext]_xetVars => (Typed /\ AllHonest)'
    BY TypedStep, HonestStep
<1> QED BY <1>1, <1>2, PTL DEF XetSpec

(* A download that reports success has written the file byte for byte,     *)
(* however the goroutines of DownloadMultiple interleave and in whatever   *)
(* pieces the lz4 reader returns a chunk: provided that at most one of     *)
(* those that share the reader has compressed chunks, and that grouped     *)
(* bytes come in whole groups.                                             *)
THEOREM SuccessReconstructs ==
    ASSUME OneCompressed, WholeGroups
    PROVE  XetSpec => []Reconstructed
<1>1. Typed /\ AllHonest => Reconstructed
  <2> SUFFICES ASSUME Typed, AllHonest, NEW d \in Downloads, result[d] = "ok"
               PROVE  file[d] = Contents(d)
      BY DEF Reconstructed
  <2>1. file[d] = Bytes(Terms(d))
      BY DEF AllHonest, Honest
  <2> QED BY <2>1 DEF Bytes, TermData, ChunkData, Contents
<1> QED BY <1>1, HonestAlways, PTL

(* At every moment, and after every failure of a request, of a frame or of *)
(* the writer, the output is a prefix of the file, under the same two      *)
(* conditions: so a resumed download may continue at its end.              *)
THEOREM OutputStaysPrefix ==
    ASSUME OneCompressed, WholeGroups
    PROVE  XetSpec => []OutputIsPrefix
<1>1. Typed /\ AllHonest => OutputIsPrefix
  <2> SUFFICES ASSUME Typed, AllHonest, NEW d \in Downloads, file[d] # NoFile
               PROVE  IsPrefix(file[d], Contents(d))
      BY DEF OutputIsPrefix
  <2>1. file[d] \in Data /\ Begins(file[d], Bytes(Terms(d)))
    <3>1. CASE dl[d].pc = "done"
        BY <3>1 DEF AllHonest, Honest
    <3>2. CASE dl[d].pc # "done"
        BY <3>2, FileBegins
    <3> QED BY <3>1, <3>2
  <2>2. Bytes(Terms(d)) \in Data
      BY Position, AtTerm
  <2>3. Contents(d) = Bytes(Terms(d))
      BY DEF Bytes, TermData, ChunkData, Contents
  <2> QED BY <2>1, <2>2, <2>3, BeginsIsPrefix
<1> QED BY <1>1, HonestAlways, PTL
============================================================================
