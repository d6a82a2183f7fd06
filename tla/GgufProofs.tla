----------------------------- MODULE GgufProofs -----------------------------
(***************************************************************************)
(* Proofs about Gguf, for files with any number of pairs, nested values    *)
(* and tensors, cut off anywhere, and machine words of any width.          *)
(***************************************************************************)
EXTENDS GgufFormat, SequenceTheorems, FiniteSetTheorems, TLAPS

USE LimitsAssumption

----------------------------------------------------------------------------
(* Induction over the naturals, for a set: a set of naturals that is not   *)
(* empty has a least element, because no descending chain of finite sets   *)
(* goes on for ever.                                                       *)

LEMMA LeastElement ==
    ASSUME NEW T, T \subseteq Nat, T # {}
    PROVE  \E x \in T : \A y \in T : x <= y
<1> DEFINE below(n) == 0 .. (n - 1)
           B == {below(n) : n \in T}
<1>1. B \subseteq FiniteSubsetsOf(Nat) /\ B # {}
  <2>1. ASSUME NEW n \in T PROVE below(n) \in FiniteSubsetsOf(Nat)
    <3>1. IsFiniteSet(0 .. (n - 1))
      <4>1. 0 \in Int /\ n - 1 \in Int
        OBVIOUS
      <4> QED BY <4>1, FS_Interval
    <3>2. 0 .. (n - 1) \in SUBSET Nat
      OBVIOUS
    <3> QED BY <3>1, <3>2 DEF FiniteSubsetsOf
  <2> QED BY <2>1
<1>2. PICK b \in B : \A c \in B : ~(<<c, b>> \in StrictSubsetOrdering(Nat))
  <2> HIDE DEF B
  <2> QED BY <1>1, FS_StrictSubsetOrderingWellFounded, WFMin
<1>3. PICK x \in T : b = below(x)
  BY <1>2
<1>4. ASSUME NEW y \in T, y < x PROVE FALSE
  <2>1. below(y) \subseteq below(x) /\ below(y) # below(x)
    <3>1. y \in below(x) /\ y \notin below(y)
      BY <1>4
    <3> QED BY <3>1, <1>4
  <2>2. below(y) \in SUBSET Nat /\ below(x) \in SUBSET Nat
    OBVIOUS
  <2>3. <<below(y), below(x)>> \in StrictSubsetOrdering(Nat)
    <3> HIDE DEF below
    <3> QED BY <2>1, <2>2 DEF StrictSubsetOrdering
  <2>4. below(y) \in B
    OBVIOUS
  <2> HIDE DEF B, below
  <2> QED BY <1>2, <1>3, <2>3, <2>4
<1> QED BY <1>4, <1>3

LEMMA SetInduction ==
    ASSUME NEW T, 0 \in T, \A n \in Nat : n \in T => n + 1 \in T
    PROVE  Nat \subseteq T
<1> SUFFICES ASSUME Nat \ T # {} PROVE FALSE
  OBVIOUS
<1>1. PICK x \in Nat \ T : \A y \in Nat \ T : x <= y
  BY LeastElement
<1>2. x # 0 /\ x - 1 \in Nat
  BY <1>1
<1>3. x - 1 \in T
  BY <1>1, <1>2
<1> QED BY <1>1, <1>2, <1>3

(* A set of positive numbers up to n that is not empty has a greatest one. *)
LEMMA GreatestElement ==
    ASSUME NEW n \in Nat, NEW S \in SUBSET (1 .. n), S # {}
    PROVE  Max(S) \in S /\ \A y \in S : y <= Max(S)
<1> DEFINE T == {n - x : x \in S}
<1>1. T \subseteq Nat /\ T # {}
  <2>1. ASSUME NEW x \in S PROVE n - x \in Nat
    OBVIOUS
  <2> QED BY <2>1
<1>2. PICK t \in T : \A u \in T : t <= u
  BY <1>1, LeastElement
<1>3. PICK x \in S : t = n - x
  BY <1>2
<1>4. ASSUME NEW y \in S PROVE x >= y
  <2>1. n - y \in T
    OBVIOUS
  <2>2. n - x <= n - y
    BY <1>2, <1>3, <2>1
  <2>3. x \in Int /\ y \in Int
    OBVIOUS
  <2> QED BY <2>2, <2>3
<1>5. \E m \in S : \A y \in S : m >= y
  BY <1>4
<1>6. Max(S) \in S /\ \A y \in S : Max(S) >= y
  BY <1>5 DEF Max
<1>7. \A y \in S : y \in Int
  OBVIOUS
<1> QED BY <1>6, <1>7

----------------------------------------------------------------------------
(* Sums and products, from the first element on.                           *)

Numbers == Seq(Nat)

LEMMA SumExists ==
    ASSUME NEW s \in Numbers
    PROVE  SumTo(s) = [k \in 0 .. Len(s) |-> IF k = 0 THEN 0 ELSE SumTo(s)[k - 1] + s[k]]
<1> DEFINE Upto(f, n) == f = [k \in 0 .. n |-> IF k = 0 THEN 0 ELSE f[k - 1] + s[k]]
           T == {n \in Nat : \E f : Upto(f, n)}
<1>1. 0 \in T
  <2> DEFINE f == [k \in {0} |-> 0]
  <2>1. f = [k \in 0 .. 0 |-> IF k = 0 THEN 0 ELSE f[k - 1] + s[k]]
    <3>1. 0 .. 0 = {0}
      OBVIOUS
    <3> QED BY <3>1
  <2>2. Upto(f, 0)
    BY <2>1, Zenon
  <2> HIDE DEF Upto
  <2> QED BY <2>2
<1>2. ASSUME NEW n \in Nat, n \in T PROVE n + 1 \in T
  <2>1. PICK f : Upto(f, n)
    <3> HIDE DEF Upto
    <3> QED BY <1>2
  <2> DEFINE g == [k \in 0 .. (n + 1) |->
                      IF k <= n THEN f[k] ELSE IF k = 0 THEN 0 ELSE f[k - 1] + s[k]]
  <2>2. ASSUME NEW k \in 0 .. (n + 1)
        PROVE  g[k] = IF k = 0 THEN 0 ELSE g[k - 1] + s[k]
    <3>1. k # 0 => g[k - 1] = f[k - 1]
      OBVIOUS
    <3>2. k <= n => f[k] = IF k = 0 THEN 0 ELSE f[k - 1] + s[k]
      <4>1. k <= n => k \in 0 .. n
        OBVIOUS
      <4> QED BY <2>1, <4>1, Zenon
    <3>3. g[k] = IF k <= n THEN f[k] ELSE IF k = 0 THEN 0 ELSE f[k - 1] + s[k]
      OBVIOUS
    <3> HIDE DEF g
    <3> QED BY <3>1, <3>2, <3>3
  <2>3. g = [k \in 0 .. (n + 1) |-> g[k]]
    OBVIOUS
  <2> HIDE DEF g
  <2>4. Upto(g, n + 1)
    BY <2>2, <2>3
  <2> HIDE DEF Upto
  <2> QED BY <2>4
<1> HIDE DEF T
<1>3. Len(s) \in T
  <2>1. Nat \subseteq T
    BY <1>1, <1>2, SetInduction
  <2> QED BY <2>1 DEF Numbers
<1>4. \E f : Upto(f, Len(s))
  BY <1>3 DEF T
<1>5. SumTo(s) = CHOOSE f : Upto(f, Len(s))
  BY DEF SumTo
<1>6. Upto(SumTo(s), Len(s))
  <2> HIDE DEF Upto
  <2> QED BY <1>4, <1>5
<1> QED BY <1>6

LEMMA SumSteps ==
    ASSUME NEW s \in Numbers
    PROVE  /\ SumTo(s)[0] = 0
           /\ \A k \in 1 .. Len(s) : SumTo(s)[k] = SumTo(s)[k - 1] + s[k]
           /\ \A k \in 0 .. Len(s) : SumTo(s)[k] \in Nat
<1> DEFINE f == SumTo(s)
<1>0. Len(s) \in Nat /\ \A k \in 1 .. Len(s) : s[k] \in Nat
  BY DEF Numbers
<1>1. \A k \in 0 .. Len(s) : f[k] = IF k = 0 THEN 0 ELSE f[k - 1] + s[k]
  <2>1. f = [k \in 0 .. Len(s) |-> IF k = 0 THEN 0 ELSE f[k - 1] + s[k]]
    BY SumExists
  <2> HIDE DEF f
  <2> QED BY <2>1, Zenon
<1> HIDE DEF f
<1>2. f[0] = 0
  BY <1>0, <1>1
<1>3. \A k \in 1 .. Len(s) : f[k] = f[k - 1] + s[k]
  BY <1>0, <1>1
<1> DEFINE T == {k \in Nat : k <= Len(s) => f[k] \in Nat}
<1>4. 0 \in T
  BY <1>2
<1>5. ASSUME NEW k \in Nat, k \in T PROVE k + 1 \in T
  <2> SUFFICES ASSUME k + 1 <= Len(s) PROVE f[k + 1] \in Nat
    OBVIOUS
  <2>1. k + 1 \in 1 .. Len(s) /\ (k + 1) - 1 = k /\ f[k] \in Nat
    BY <1>0, <1>5
  <2> QED BY <1>0, <1>3, <2>1
<1> HIDE DEF T
<1>6. Nat \subseteq T
  BY <1>4, <1>5, SetInduction
<1>7. \A k \in 0 .. Len(s) : f[k] \in Nat
  BY <1>0, <1>6 DEF T
<1> QED BY <1>2, <1>3, <1>7 DEF f

LEMMA SumsGrow ==
    ASSUME NEW s \in Numbers, NEW j \in 0 .. Len(s)
    PROVE  \A k \in j .. Len(s) : SumTo(s)[j] <= SumTo(s)[k]
<1> DEFINE f == SumTo(s)
           T == {d \in Nat : j + d <= Len(s) => f[j] <= f[j + d]}
<1>1. /\ \A k \in 1 .. Len(s) : f[k] = f[k - 1] + s[k] /\ s[k] \in Nat
      /\ \A k \in 0 .. Len(s) : f[k] \in Nat
      /\ Len(s) \in Nat
  BY SumSteps, SMTT(30) DEF Numbers
<1> HIDE DEF f
<1>2. 0 \in T
  BY <1>1
<1>3. ASSUME NEW d \in Nat, d \in T PROVE d + 1 \in T
  <2> SUFFICES ASSUME j + (d + 1) <= Len(s) PROVE f[j] <= f[j + (d + 1)]
    OBVIOUS
  <2>1. /\ j + (d + 1) \in 1 .. Len(s) /\ (j + (d + 1)) - 1 = j + d
        /\ j + d \in 0 .. Len(s)
    BY <1>1
  <2>2. f[j + (d + 1)] = f[j + d] + s[j + (d + 1)] /\ s[j + (d + 1)] \in Nat
    BY <1>1, <2>1
  <2>3. f[j] <= f[j + d] /\ f[j] \in Nat /\ f[j + d] \in Nat
    BY <1>1, <1>3, <2>1
  <2> QED BY <2>2, <2>3
<1> HIDE DEF T
<1>4. Nat \subseteq T
  BY <1>2, <1>3, SetInduction
<1>5. ASSUME NEW k \in j .. Len(s) PROVE f[j] <= f[k]
  <2>1. k - j \in Nat /\ j + (k - j) = k /\ k <= Len(s)
    BY <1>1
  <2>2. j + (k - j) <= Len(s) => f[j] <= f[j + (k - j)]
    BY <1>4, <2>1 DEF T
  <2> QED BY <2>1, <2>2
<1> QED BY <1>5 DEF f

LEMMA TotalType == \A s \in Numbers : Total(s) \in Nat
BY SumSteps DEF Total, Numbers

LEMMA TotalEmpty == Total(<<>>) = 0
<1>1. <<>> \in Numbers /\ Len(<<>>) = 0
  BY DEF Numbers
<1> QED BY <1>1, SumSteps DEF Total

(* The sum of two sequences, one after the other.                          *)
LEMMA TotalConcat ==
    ASSUME NEW s \in Numbers, NEW t \in Numbers
    PROVE  s \o t \in Numbers /\ Total(s \o t) = Total(s) + Total(t)
<1> DEFINE u == s \o t
           f == SumTo(s)  g == SumTo(t)  h == SumTo(u)
           m == Len(s)  n == Len(t)
<1>0. /\ u \in Numbers /\ Len(u) = m + n /\ m \in Nat /\ n \in Nat
      /\ \A k \in 1 .. m : u[k] = s[k]
      /\ \A k \in 1 .. n : u[m + k] = t[k]
  BY DEF Numbers
<1> HIDE DEF u
<1>1. /\ f[0] = 0 /\ \A k \in 1 .. m : f[k] = f[k - 1] + s[k]
      /\ g[0] = 0 /\ \A k \in 1 .. n : g[k] = g[k - 1] + t[k]
      /\ h[0] = 0 /\ \A k \in 1 .. (m + n) : h[k] = h[k - 1] + u[k]
      /\ \A k \in 0 .. m : f[k] \in Nat
      /\ \A k \in 0 .. n : g[k] \in Nat
      /\ \A k \in 1 .. n : t[k] \in Nat
  <2>1. /\ f[0] = 0 /\ (\A k \in 1 .. m : f[k] = f[k - 1] + s[k])
        /\ \A k \in 0 .. m : f[k] \in Nat
    BY SumSteps
  <2>2. /\ g[0] = 0 /\ (\A k \in 1 .. n : g[k] = g[k - 1] + t[k])
        /\ \A k \in 0 .. n : g[k] \in Nat
    BY SumSteps
  <2>3. h[0] = 0 /\ \A k \in 1 .. Len(u) : h[k] = h[k - 1] + u[k]
    BY <1>0, SumSteps
  <2>4. \A k \in 1 .. n : t[k] \in Nat
    BY DEF Numbers
  <2> HIDE DEF f, g, h
  <2> QED BY <1>0, <2>1, <2>2, <2>3, <2>4
<1> HIDE DEF f, g, h
<1> DEFINE T == {k \in Nat : k <= m => h[k] = f[k]}
           U == {k \in Nat : k <= n => h[m + k] = f[m] + g[k]}
<1>2. Nat \subseteq T
  <2>1. 0 \in T
    BY <1>1
  <2>2. ASSUME NEW k \in Nat, k \in T PROVE k + 1 \in T
    <3> SUFFICES ASSUME k + 1 <= m PROVE h[k + 1] = f[k + 1]
      OBVIOUS
    <3>1. k + 1 \in 1 .. m /\ k + 1 \in 1 .. (m + n) /\ (k + 1) - 1 = k /\ h[k] = f[k]
      BY <1>0, <2>2, SMTT(30)
    <3>2. h[k + 1] = h[k] + u[k + 1] /\ f[k + 1] = f[k] + s[k + 1]
      BY <1>1, <3>1
    <3> QED BY <1>0, <3>1, <3>2
  <2> HIDE DEF T
  <2> QED BY <2>1, <2>2, SetInduction
<1>3. h[m] = f[m]
  BY <1>0, <1>2
<1> HIDE DEF T
<1>4. Nat \subseteq U
  <2>1. 0 \in U
    BY <1>0, <1>1, <1>3
  <2>2. ASSUME NEW k \in Nat, k \in U PROVE k + 1 \in U
    <3> SUFFICES ASSUME k + 1 <= n PROVE h[m + (k + 1)] = f[m] + g[k + 1]
      OBVIOUS
    <3>1. /\ k + 1 \in 1 .. n /\ (k + 1) - 1 = k /\ k \in 0 .. n /\ m \in 0 .. m
          /\ m + (k + 1) \in 1 .. (m + n) /\ (m + (k + 1)) - 1 = m + k
      BY <1>0, <2>2
    <3>3. h[m + k] = f[m] + g[k]
      BY <1>0, <2>2, <3>1
    <3>2. /\ h[m + (k + 1)] = h[m + k] + u[m + (k + 1)]
          /\ g[k + 1] = g[k] + t[k + 1] /\ u[m + (k + 1)] = t[k + 1]
          /\ f[m] \in Nat /\ g[k] \in Nat /\ t[k + 1] \in Nat
      BY <1>0, <1>1, <3>1
    <3> QED BY <3>2, <3>3, SMTT(30)
  <2> HIDE DEF U
  <2> QED BY <2>1, <2>2, SetInduction
<1>5. h[m + n] = f[m] + g[n]
  BY <1>0, <1>4
<1> QED BY <1>0, <1>5 DEF Total, f, g, h, u

LEMMA ProductExists ==
    ASSUME NEW s \in Numbers
    PROVE  ProductTo(s) =
             [k \in 0 .. Len(s) |-> IF k = 0 THEN 1 ELSE ProductTo(s)[k - 1] * s[k]]
<1> DEFINE Upto(f, n) == f = [k \in 0 .. n |-> IF k = 0 THEN 1 ELSE f[k - 1] * s[k]]
           T == {n \in Nat : \E f : Upto(f, n)}
<1>1. 0 \in T
  <2> DEFINE f == [k \in {0} |-> 1]
  <2>1. f = [k \in 0 .. 0 |-> IF k = 0 THEN 1 ELSE f[k - 1] * s[k]]
    <3>1. 0 .. 0 = {0}
      OBVIOUS
    <3> QED BY <3>1
  <2>2. Upto(f, 0)
    BY <2>1, Zenon
  <2> HIDE DEF Upto
  <2> QED BY <2>2
<1>2. ASSUME NEW n \in Nat, n \in T PROVE n + 1 \in T
  <2>1. PICK f : Upto(f, n)
    <3> HIDE DEF Upto
    <3> QED BY <1>2
  <2> DEFINE g == [k \in 0 .. (n + 1) |->
                      IF k <= n THEN f[k] ELSE IF k = 0 THEN 1 ELSE f[k - 1] * s[k]]
  <2>2. ASSUME NEW k \in 0 .. (n + 1)
        PROVE  g[k] = IF k = 0 THEN 1 ELSE g[k - 1] * s[k]
    <3>1. k # 0 => g[k - 1] = f[k - 1]
      OBVIOUS
    <3>2. k <= n => f[k] = IF k = 0 THEN 1 ELSE f[k - 1] * s[k]
      <4>1. k <= n => k \in 0 .. n
        OBVIOUS
      <4> QED BY <2>1, <4>1, Zenon
    <3>3. g[k] = IF k <= n THEN f[k] ELSE IF k = 0 THEN 1 ELSE f[k - 1] * s[k]
      OBVIOUS
    <3> HIDE DEF g
    <3> QED BY <3>1, <3>2, <3>3
  <2>3. g = [k \in 0 .. (n + 1) |-> g[k]]
    OBVIOUS
  <2> HIDE DEF g
  <2>4. Upto(g, n + 1)
    BY <2>2, <2>3
  <2> HIDE DEF Upto
  <2> QED BY <2>4
<1> HIDE DEF T
<1>3. Len(s) \in T
  <2>1. Nat \subseteq T
    BY <1>1, <1>2, SetInduction
  <2> QED BY <2>1 DEF Numbers
<1>4. \E f : Upto(f, Len(s))
  BY <1>3 DEF T
<1>5. ProductTo(s) = CHOOSE f : Upto(f, Len(s))
  BY DEF ProductTo
<1>6. Upto(ProductTo(s), Len(s))
  <2> HIDE DEF Upto
  <2> QED BY <1>4, <1>5
<1> QED BY <1>6

LEMMA ProductSteps ==
    ASSUME NEW s \in Numbers
    PROVE  /\ ProductTo(s)[0] = 1
           /\ \A k \in 1 .. Len(s) : ProductTo(s)[k] = ProductTo(s)[k - 1] * s[k]
           /\ \A k \in 0 .. Len(s) : ProductTo(s)[k] \in Nat
<1> DEFINE f == ProductTo(s)
<1>0. Len(s) \in Nat /\ \A k \in 1 .. Len(s) : s[k] \in Nat
  BY DEF Numbers
<1>1. \A k \in 0 .. Len(s) : f[k] = IF k = 0 THEN 1 ELSE f[k - 1] * s[k]
  <2>1. f = [k \in 0 .. Len(s) |-> IF k = 0 THEN 1 ELSE f[k - 1] * s[k]]
    BY ProductExists
  <2> HIDE DEF f
  <2> QED BY <2>1, Zenon
<1> HIDE DEF f
<1>2. f[0] = 1
  BY <1>0, <1>1
<1>3. \A k \in 1 .. Len(s) : f[k] = f[k - 1] * s[k]
  BY <1>0, <1>1
<1> DEFINE T == {k \in Nat : k <= Len(s) => f[k] \in Nat}
<1>4. 0 \in T
  BY <1>2
<1>5. ASSUME NEW k \in Nat, k \in T PROVE k + 1 \in T
  <2> SUFFICES ASSUME k + 1 <= Len(s) PROVE f[k + 1] \in Nat
    OBVIOUS
  <2>1. k + 1 \in 1 .. Len(s) /\ (k + 1) - 1 = k /\ f[k] \in Nat
    BY <1>0, <1>5
  <2>2. f[k + 1] = f[k] * s[k + 1] /\ s[k + 1] \in Nat
    BY <1>0, <1>3, <2>1
  <2> QED BY <2>1, <2>2
<1> HIDE DEF T
<1>6. Nat \subseteq T
  BY <1>4, <1>5, SetInduction
<1>7. \A k \in 0 .. Len(s) : f[k] \in Nat
  BY <1>0, <1>6 DEF T
<1> QED BY <1>2, <1>3, <1>7 DEF f

(* A product with a factor of zero is zero; one without grows.             *)
LEMMA ProductZero ==
    ASSUME NEW s \in Numbers, NEW z \in 1 .. Len(s), s[z] = 0
    PROVE  Product(s) = 0
<1> DEFINE f == ProductTo(s)
           T == {d \in Nat : z + d <= Len(s) => f[z + d] = 0}
<1>0. /\ Len(s) \in Nat /\ \A k \in 1 .. Len(s) : s[k] \in Nat
      /\ \A k \in 1 .. Len(s) : f[k] = f[k - 1] * s[k]
      /\ \A k \in 0 .. Len(s) : f[k] \in Nat
  <2>1. Len(s) \in Nat /\ \A k \in 1 .. Len(s) : s[k] \in Nat
    BY DEF Numbers
  <2>2. /\ \A k \in 1 .. Len(s) : f[k] = f[k - 1] * s[k]
        /\ \A k \in 0 .. Len(s) : f[k] \in Nat
    BY ProductSteps
  <2> HIDE DEF f
  <2> QED BY <2>1, <2>2
<1> HIDE DEF f
<1>1. 0 \in T
  <2>1. z - 1 \in 0 .. Len(s) /\ z + 0 = z
    BY <1>0
  <2>2. f[z] = f[z - 1] * s[z] /\ f[z - 1] \in Nat
    BY <1>0, <2>1
  <2> QED BY <2>1, <2>2
<1>2. ASSUME NEW d \in Nat, d \in T PROVE d + 1 \in T
  <2> SUFFICES ASSUME z + (d + 1) <= Len(s) PROVE f[z + (d + 1)] = 0
    OBVIOUS
  <2>1. z + (d + 1) \in 1 .. Len(s) /\ (z + (d + 1)) - 1 = z + d
    BY <1>0
  <2>2. f[z + d] = 0
    BY <1>0, <1>2
  <2>3. f[z + (d + 1)] = f[z + d] * s[z + (d + 1)] /\ s[z + (d + 1)] \in Nat
    BY <1>0, <2>1
  <2> QED BY <2>2, <2>3
<1> HIDE DEF T
<1>3. Nat \subseteq T
  BY <1>1, <1>2, SetInduction
<1>4. Len(s) - z \in Nat /\ z + (Len(s) - z) = Len(s)
  BY <1>0
<1>5. f[Len(s)] = 0
  <2>1. z + (Len(s) - z) <= Len(s) => f[z + (Len(s) - z)] = 0
    BY <1>3, <1>4 DEF T
  <2> QED BY <1>0, <1>4, <2>1
<1> QED BY <1>5 DEF Product, f

LEMMA ProductsGrow ==
    ASSUME NEW s \in Numbers, \A k \in 1 .. Len(s) : s[k] # 0, NEW j \in 0 .. Len(s)
    PROVE  ProductTo(s)[j] <= Product(s)
<1> DEFINE f == ProductTo(s)
           T == {d \in Nat : j + d <= Len(s) => f[j] <= f[j + d]}
<1>0. /\ Len(s) \in Nat /\ \A k \in 1 .. Len(s) : s[k] \in Nat \ {0}
      /\ \A k \in 1 .. Len(s) : f[k] = f[k - 1] * s[k]
      /\ \A k \in 0 .. Len(s) : f[k] \in Nat
  <2>1. Len(s) \in Nat /\ \A k \in 1 .. Len(s) : s[k] \in Nat \ {0}
    BY DEF Numbers
  <2>2. /\ \A k \in 1 .. Len(s) : f[k] = f[k - 1] * s[k]
        /\ \A k \in 0 .. Len(s) : f[k] \in Nat
    BY ProductSteps
  <2> HIDE DEF f
  <2> QED BY <2>1, <2>2
<1> HIDE DEF f
<1>1. 0 \in T
  BY <1>0
<1>2. ASSUME NEW d \in Nat, d \in T PROVE d + 1 \in T
  <2> SUFFICES ASSUME j + (d + 1) <= Len(s) PROVE f[j] <= f[j + (d + 1)]
    OBVIOUS
  <2>1. /\ j + (d + 1) \in 1 .. Len(s) /\ (j + (d + 1)) - 1 = j + d
        /\ j + d \in 0 .. Len(s)
    BY <1>0
  <2>2. f[j + (d + 1)] = f[j + d] * s[j + (d + 1)]
    BY <1>0, <2>1
  <2>3. f[j] <= f[j + d] /\ f[j] \in Nat /\ f[j + d] \in Nat /\ s[j + (d + 1)] \in Nat \ {0}
    BY <1>0, <1>2, <2>1
  <2>4. \A a \in Nat, b \in Nat \ {0} : a <= a * b
    <3> SUFFICES ASSUME NEW a \in Nat, NEW b \in Nat \ {0} PROVE a <= a * b
      OBVIOUS
    <3>1. b - 1 \in Nat /\ a * b = a * (b - 1) + a
      OBVIOUS
    <3>2. \A x, y \in Nat : x * y \in Nat
      OBVIOUS
    <3>3. a * (b - 1) \in Nat
      BY <3>1, <3>2
    <3> QED BY <3>1, <3>3
  <2>5. f[j + d] <= f[j + d] * s[j + (d + 1)] /\ f[j + d] * s[j + (d + 1)] \in Nat
    <3>1. PICK a \in Nat : a = f[j + d]
      BY <2>3
    <3>2. PICK b \in Nat \ {0} : b = s[j + (d + 1)]
      BY <2>3
    <3>3. a <= a * b
      BY <2>4
    <3>4. a * b \in Nat
      OBVIOUS
    <3> QED BY <3>1, <3>2, <3>3, <3>4
  <2> QED BY <2>2, <2>3, <2>5, SMTT(30)
<1> HIDE DEF T
<1>3. Nat \subseteq T
  BY <1>1, <1>2, SetInduction
<1>4. Len(s) - j \in Nat /\ j + (Len(s) - j) = Len(s)
  BY <1>0
<1>5. f[j] <= f[Len(s)]
  <2>1. j + (Len(s) - j) <= Len(s) => f[j] <= f[j + (Len(s) - j)]
    BY <1>3, <1>4 DEF T
  <2> QED BY <1>0, <1>4, <2>1
<1> QED BY <1>5 DEF Product, f

----------------------------------------------------------------------------
(* Machine words that do not wrap are numbers.                             *)

LEMMA Remainder ==
    ASSUME NEW a \in Nat, NEW b \in Nat \ {0}
    PROVE  /\ a \div b \in Nat /\ a % b \in 0 .. (b - 1)
           /\ a = b * (a \div b) + (a % b)
           /\ \A q \in Nat, r \in 0 .. (b - 1) : a = b * q + r => q = a \div b /\ r = a % b
           /\ a < b => a % b = a
<1> DEFINE p == a \div b
           m == a % b
<1>1. p \in Int /\ m \in 0 .. (b - 1) /\ a = b * p + m
  OBVIOUS
<1> HIDE DEF p, m
<1>2. p >= 0
  <2> SUFFICES ASSUME p <= -1 PROVE FALSE
    BY <1>1
  <2>1. b * p <= -b
    BY <1>1
  <2> QED BY <1>1, <2>1
<1>3. ASSUME NEW q \in Nat, NEW r \in 0 .. (b - 1), a = b * q + r
      PROVE  q = p /\ r = m
  <2>1. ~(q >= p + 1)
    <3> SUFFICES ASSUME q >= p + 1 PROVE FALSE
      OBVIOUS
    <3>1. b * q >= b * p + b
      BY <1>1
    <3> QED BY <1>1, <1>3, <3>1
  <2>2. ~(p >= q + 1)
    <3> SUFFICES ASSUME p >= q + 1 PROVE FALSE
      OBVIOUS
    <3>1. b * p >= b * q + b
      BY <1>1
    <3> QED BY <1>1, <1>3, <3>1
  <2>3. q = p
    BY <1>1, <1>2, <2>1, <2>2
  <2> QED BY <1>1, <1>3, <2>3
<1>4. ASSUME a < b PROVE m = a
  <2>1. 0 \in Nat /\ a \in 0 .. (b - 1) /\ a = b * 0 + a
    BY <1>4
  <2> QED BY <1>3, <2>1
<1>5. p \in Nat
  BY <1>1, <1>2
<1> QED BY <1>1, <1>3, <1>4, <1>5 DEF p, m

LEMMA Words ==
    /\ 2^W \in Nat \ {0} /\ 2^(W - 1) \in Nat /\ 2^W = 2^(W - 1) + 2^(W - 1)
    /\ 256 <= 2^(W - 1)
    /\ \A n \in Nat : Uint64(n) \in Nat /\ (n < 2^W => Uint64(n) = n)
    /\ \A n \in Nat : n < 2^(W - 1) => Int64(n) = n
<1>1. PICK h : h = 2^(W - 1)
  OBVIOUS
<1>2. PICK w : w = 2^W
  OBVIOUS
<1>3. h \in Nat /\ 256 <= h /\ w = 2 * h
  BY <1>1, <1>2, PowersOfTwo
<1>4. w \in Nat \ {0} /\ w = h + h /\ h < w
  BY <1>3
<1>5. ASSUME NEW n \in Nat PROVE Uint64(n) \in Nat /\ (n < w => Uint64(n) = n)
  <2>1. Uint64(n) = n % w
    BY <1>2, Zenon DEF Uint64
  <2>2. n % w \in 0 .. (w - 1) /\ (n < w => n % w = n)
    BY <1>4, Remainder
  <2>3. n % w \in Nat
    BY <1>4, <2>2
  <2> QED BY <2>1, <2>2, <2>3
<1>6. ASSUME NEW n \in Nat, n < h PROVE Int64(n) = n
  <2>1. Uint64(n) = n
    BY <1>3, <1>4, <1>5, <1>6
  <2>2. Int64(n) = IF Uint64(n) >= h THEN Uint64(n) - w ELSE Uint64(n)
    BY <1>1, <1>2, Zenon DEF Int64
  <2> QED BY <1>3, <1>6, <2>1, <2>2
<1> QED BY <1>1, <1>2, <1>3, <1>4, <1>5, <1>6

----------------------------------------------------------------------------
(* The tables of widths and of tensor types.                               *)

LEMMA Widths ==
    /\ \A t \in DOMAIN FixedWidth : FixedWidth[t] \in Nat
    /\ ggufTypeUint32 \in DOMAIN FixedWidth /\ ggufTypeUint64 \in DOMAIN FixedWidth
    /\ ggufTypeString # ggufTypeUint32 /\ ggufTypeArray # ggufTypeUint32
    /\ ggufTypeString # ggufTypeUint64 /\ ggufTypeArray # ggufTypeUint64
    /\ 0 \notin {ggufTypeUint32, ggufTypeUint64}
BY DEF FixedWidth, ggufTypeUint32, ggufTypeUint64, ggufTypeString, ggufTypeArray

LEMMA Quants ==
    \A t \in DOMAIN ggufQuantTypes :
        ggufQuantTypes[t][1] \in 1 .. 256 /\ ggufQuantTypes[t][2] \in 1 .. 256
<1> SUFFICES ASSUME NEW t \in (0 .. 30) \ {4, 5, 15}
             PROVE  ggufQuantTypes[t][1] \in 1 .. 256 /\ ggufQuantTypes[t][2] \in 1 .. 256
  BY DEF ggufQuantTypes
<1>1. ggufQuantTypes[t] = quantBlock(t)
  BY DEF ggufQuantTypes
<1>2. quantBlock(t)[1] \in 1 .. 256
  BY DEF quantBlock
<1>3. quantBlock(t)[2] \in 1 .. 256
  BY DEF quantBlock
<1> QED BY <1>1, <1>2, <1>3

----------------------------------------------------------------------------
(* The size of a tensor, in whose product nothing wraps.                   *)

LEMMA ElementsExist ==
    ASSUME NEW s \in Numbers
    PROVE  numElementsTo(s) =
             [k \in 0 .. Len(s) |->
                 IF k = 0 THEN 1 ELSE Uint64(numElementsTo(s)[k - 1] * s[k])]
<1> DEFINE Upto(f, n) ==
             f = [k \in 0 .. n |-> IF k = 0 THEN 1 ELSE Uint64(f[k - 1] * s[k])]
           T == {n \in Nat : \E f : Upto(f, n)}
<1>1. 0 \in T
  <2> DEFINE f == [k \in {0} |-> 1]
  <2>1. f = [k \in 0 .. 0 |-> IF k = 0 THEN 1 ELSE Uint64(f[k - 1] * s[k])]
    <3>1. 0 .. 0 = {0}
      OBVIOUS
    <3> QED BY <3>1
  <2>2. Upto(f, 0)
    BY <2>1, Zenon
  <2> HIDE DEF Upto
  <2> QED BY <2>2
<1>2. ASSUME NEW n \in Nat, n \in T PROVE n + 1 \in T
  <2>1. PICK f : Upto(f, n)
    <3> HIDE DEF Upto
    <3> QED BY <1>2
  <2> DEFINE g == [k \in 0 .. (n + 1) |->
                      IF k <= n THEN f[k] ELSE IF k = 0 THEN 1 ELSE Uint64(f[k - 1] * s[k])]
  <2>2. ASSUME NEW k \in 0 .. (n + 1)
        PROVE  g[k] = IF k = 0 THEN 1 ELSE Uint64(g[k - 1] * s[k])
    <3>1. k # 0 => g[k - 1] = f[k - 1]
      OBVIOUS
    <3>2. k <= n => f[k] = IF k = 0 THEN 1 ELSE Uint64(f[k - 1] * s[k])
      <4>1. k <= n => k \in 0 .. n
        OBVIOUS
      <4> QED BY <2>1, <4>1, Zenon
    <3>3. g[k] = IF k <= n THEN f[k] ELSE IF k = 0 THEN 1 ELSE Uint64(f[k - 1] * s[k])
      OBVIOUS
    <3> HIDE DEF g
    <3> QED BY <3>1, <3>2, <3>3
  <2>3. g = [k \in 0 .. (n + 1) |-> g[k]]
    OBVIOUS
  <2> HIDE DEF g
  <2>4. Upto(g, n + 1)
    BY <2>2, <2>3
  <2> HIDE DEF Upto
  <2> QED BY <2>4
<1> HIDE DEF T
<1>3. Len(s) \in T
  <2>1. Nat \subseteq T
    BY <1>1, <1>2, SetInduction
  <2> QED BY <2>1 DEF Numbers
<1>4. \E f : Upto(f, Len(s))
  BY <1>3 DEF T
<1>5. numElementsTo(s) = CHOOSE f : Upto(f, Len(s))
  BY DEF numElementsTo
<1>6. Upto(numElementsTo(s), Len(s))
  <2> HIDE DEF Upto
  <2> QED BY <1>4, <1>5
<1> QED BY <1>6

LEMMA ElementsDoNotWrap ==
    ASSUME NEW s \in Numbers, \A k \in 1 .. Len(s) : s[k] # 0, Product(s) < 2^(W - 1)
    PROVE  numElementsTo(s)[Len(s)] = Product(s)
<1> DEFINE f == numElementsTo(s)
           g == ProductTo(s)
           w == 2^W
           T == {k \in Nat : k <= Len(s) => f[k] = g[k]}
<1>0. Len(s) \in Nat /\ w \in Nat /\ Product(s) < w /\ \A n \in Nat : n < w => Uint64(n) = n
  <2>1. /\ 2^W \in Nat /\ 2^(W - 1) \in Nat /\ 2^W = 2^(W - 1) + 2^(W - 1)
        /\ \A n \in Nat : n < 2^W => Uint64(n) = n
    BY Words
  <2>2. PICK h \in Nat : h = 2^(W - 1)
    BY <2>1
  <2>3. w \in Nat /\ w = h + h /\ Product(s) < h
    BY <2>1, <2>2
  <2>4. Len(s) \in Nat
    BY DEF Numbers
  <2>5. Product(s) \in Nat
    BY <2>4, ProductSteps DEF Product
  <2> HIDE DEF w
  <2>6. Product(s) < w
    BY <2>2, <2>3, <2>5
  <2> QED BY <2>1, <2>3, <2>4, <2>6 DEF w
<1>1. \A k \in 0 .. Len(s) : f[k] = IF k = 0 THEN 1 ELSE Uint64(f[k - 1] * s[k])
  <2>1. f = [k \in 0 .. Len(s) |-> IF k = 0 THEN 1 ELSE Uint64(f[k - 1] * s[k])]
    BY ElementsExist
  <2> HIDE DEF f
  <2> QED BY <2>1, Zenon
<1>2. /\ g[0] = 1 /\ \A k \in 1 .. Len(s) : g[k] = g[k - 1] * s[k]
      /\ \A k \in 0 .. Len(s) : g[k] \in Nat /\ g[k] <= Product(s)
      /\ Product(s) = g[Len(s)]
  <2>1. g[0] = 1 /\ (\A k \in 1 .. Len(s) : g[k] = g[k - 1] * s[k])
        /\ \A k \in 0 .. Len(s) : g[k] \in Nat
    BY ProductSteps
  <2>2. \A k \in 0 .. Len(s) : g[k] <= Product(s)
    BY ProductsGrow
  <2>3. Product(s) = g[Len(s)]
    BY DEF Product
  <2> HIDE DEF g
  <2> QED BY <2>1, <2>2, <2>3
<1> HIDE DEF f, g, w
<1>3. 0 \in T
  BY <1>0, <1>1, <1>2
<1>4. ASSUME NEW k \in Nat, k \in T PROVE k + 1 \in T
  <2> SUFFICES ASSUME k + 1 <= Len(s) PROVE f[k + 1] = g[k + 1]
    OBVIOUS
  <2>1. k + 1 \in 1 .. Len(s) /\ k + 1 \in 0 .. Len(s) /\ (k + 1) - 1 = k /\ f[k] = g[k]
    BY <1>0, <1>4
  <2>2. f[k + 1] = Uint64(g[k] * s[k + 1]) /\ g[k + 1] = g[k] * s[k + 1]
    BY <1>1, <1>2, <2>1
  <2>3. g[k + 1] \in Nat /\ g[k + 1] <= Product(s) /\ Product(s) \in Nat
    BY <1>0, <1>2, <2>1, SMTT(30)
  <2>4. g[k + 1] < w
    BY <1>0, <2>3
  <2> QED BY <1>0, <2>2, <2>3, <2>4
<1> HIDE DEF T
<1>5. Nat \subseteq T
  BY <1>3, <1>4, SetInduction
<1>6. f[Len(s)] = g[Len(s)]
  BY <1>0, <1>5 DEF T
<1> QED BY <1>2, <1>6 DEF f

LEMMA SizeComputed ==
    ASSUME NEW t, TensorTyped(t), TensorLaidOut(t), Known(t),
           t.elements < 2^(W - 1), t.bytes < 2^(W - 1)
    PROVE  computeTensorDataSize(t) = t.bytes
<1>1. PICK h \in Nat, w \in Nat : /\ h = 2^(W - 1) /\ w = 2^W
                                  /\ 256 <= h /\ w = h + h
                                  /\ \A n \in Nat : n < w => Uint64(n) = n
  BY Words
<1>2. PICK b \in 1 .. 256, z \in 1 .. 256 :
        ggufQuantTypes[t.type][1] = b /\ ggufQuantTypes[t.type][2] = z
  BY Quants DEF Known
<1>3. PICK e \in Nat, y \in Nat : e = t.elements /\ y = t.bytes
  BY DEF TensorTyped
<1>4. e < h /\ y < h
  BY <1>1, <1>3
<1> DEFINE s == t.dims
           num == numElementsTo(s)[Len(s)]
           q == e \div b
           r == e % b
<1>5. s \in Numbers /\ Len(s) \in Nat /\ DOMAIN s = 1 .. Len(s)
  BY DEF TensorTyped, Numbers
<1>6. e = Product(s)
  BY <1>3 DEF TensorLaidOut
<1>7. y = (q + IF r = 0 THEN 0 ELSE 1) * z
  BY <1>2, <1>3 DEF TensorLaidOut
<1>8. q \in Nat /\ r \in 0 .. (b - 1) /\ e = b * q + r
  <2>1. b \in Nat \ {0}
    OBVIOUS
  <2> QED BY <2>1, Remainder
<1>9. computeTensorDataSize(t) =
        IF 0 \in {s[k] : k \in DOMAIN s} THEN 0
        ELSE Uint64((Uint64(num + b - 1) \div b) * z)
  BY <1>2 DEF computeTensorDataSize
<1>10. CASE 0 \in {s[k] : k \in DOMAIN s}
  <2>1. PICK k \in 1 .. Len(s) : s[k] = 0
    BY <1>5, <1>10
  <2>2. e = 0
    BY <1>5, <1>6, <2>1, ProductZero
  <2> HIDE DEF q, r
  <2>3. q = 0 /\ r = 0
    <3>1. 0 \in Nat /\ 0 \in 0 .. (b - 1) /\ e = b * 0 + 0
      BY <2>2
    <3> QED BY <3>1, Remainder DEF q, r
  <2>4. y = 0
    BY <1>7, <2>3
  <2> QED BY <1>3, <1>9, <1>10, <2>4
<1>11. CASE 0 \notin {s[k] : k \in DOMAIN s}
  <2>1. \A k \in 1 .. Len(s) : s[k] # 0
    BY <1>5, <1>11
  <2>2. num = e
    BY <1>1, <1>4, <1>5, <1>6, <2>1, ElementsDoNotWrap
  <2> HIDE DEF q, r, num
  <2>3. Uint64(e + b - 1) = e + b - 1
    BY <1>1, <1>4
  <2>4. (e + b - 1) \div b = q + IF r = 0 THEN 0 ELSE 1
    <3> DEFINE u == e + b - 1
    <3>1. u \in Nat /\ b \in Nat \ {0}
      OBVIOUS
    <3>2. ASSUME NEW x \in Nat, NEW v \in 0 .. (b - 1), u = b * x + v
          PROVE  x = u \div b
      <4> HIDE DEF u
      <4>1. \A j \in Nat, l \in 0 .. (b - 1) : u = b * j + l => j = u \div b /\ l = u % b
        BY ONLY <3>1, Remainder
      <4> QED BY <3>2, <4>1
    <3>3. CASE r = 0
      <4>1. b - 1 \in 0 .. (b - 1) /\ u = b * q + (b - 1)
        BY <1>8, <3>3
      <4> HIDE DEF u
      <4>2. q = u \div b
        BY <1>8, <3>2, <4>1
      <4> QED BY <1>8, <3>3, <4>2 DEF u
    <3>4. CASE r # 0
      <4>1. r - 1 \in 0 .. (b - 1) /\ q + 1 \in Nat
        BY <1>8, <3>4
      <4>2. b * (q + 1) = b * q + b
        BY <1>8
      <4>3. u = b * (q + 1) + (r - 1)
        BY <1>8, <4>2
      <4> HIDE DEF u
      <4>4. q + 1 = u \div b
        BY <3>2, <4>1, <4>3
      <4> QED BY <3>4, <4>4 DEF u
    <3> QED BY <3>3, <3>4
  <2>5. Uint64(y) = y
    BY <1>1, <1>4
  <2> QED BY <1>3, <1>7, <1>9, <1>11, <2>2, <2>3, <2>4, <2>5
<1> QED BY <1>10, <1>11

(* Where the reader, at the end of the header, finds the data of a tensor. *)
LEMMA HeaderTyped ==
    ASSUME NEW d \in Docs
    PROVE  /\ PairSizes(d) \in Numbers /\ Len(PairSizes(d)) = Len(d.metadata)
           /\ InfoSizes(d) \in Numbers /\ Len(InfoSizes(d)) = Len(d.tensors)
           /\ Total(PairSizes(d)) \in Nat /\ Total(InfoSizes(d)) \in Nat
           /\ HeaderSize(d) \in Nat
           /\ Len(d.metadata) \in Nat /\ DOMAIN d.metadata = 1 .. Len(d.metadata)
           /\ Len(d.tensors) \in Nat /\ DOMAIN d.tensors = 1 .. Len(d.tensors)
<1> DEFINE P == PairSizes(d)
           Q == InfoSizes(d)
           m == Len(d.metadata)
           n == Len(d.tensors)
<1>1. DocTyped(d)
  BY DocsTyped
<1>2. /\ m \in Nat /\ DOMAIN d.metadata = 1 .. m
      /\ \A k \in 1 .. m : d.metadata[k].keyLen \in Nat /\ d.metadata[k].value \in Values
  <2>1. d.metadata \in Seq([keyLen : Nat, key : STRING, value : Values])
    BY <1>1 DEF DocTyped
  <2>2. m \in Nat /\ DOMAIN d.metadata = 1 .. m
    BY <2>1
  <2>3. ASSUME NEW k \in 1 .. m
        PROVE  d.metadata[k] \in [keyLen : Nat, key : STRING, value : Values]
    BY <2>1, <2>2, ElementOfSeq
  <2>4. ASSUME NEW k \in 1 .. m
        PROVE  d.metadata[k].keyLen \in Nat /\ d.metadata[k].value \in Values
    BY <2>3
  <2> QED BY <2>2, <2>4
<1>3. \A k \in 1 .. m : P[k] \in Nat
  <2> SUFFICES ASSUME NEW k \in 1 .. m PROVE P[k] \in Nat
    OBVIOUS
  <2>1. P[k] = 8 + d.metadata[k].keyLen + 4 + Encoded[d.metadata[k].value]
    BY <1>2 DEF PairSizes, StringSize
  <2>2. Encoded[d.metadata[k].value] \in Nat
    BY <1>2, ValuesEncoded
  <2>3. PICK x \in Nat, y \in Nat : x = d.metadata[k].keyLen /\ y = Encoded[d.metadata[k].value]
    BY <1>2, <2>2
  <2>4. P[k] = 8 + x + 4 + y
    BY <2>1, <2>3, Zenon
  <2> HIDE DEF P
  <2> QED BY <2>4
<1>4. P = [k \in 1 .. m |-> P[k]]
  BY <1>2 DEF PairSizes
<1>5. n \in Nat /\ DOMAIN d.tensors = 1 .. n /\ \A k \in 1 .. n : TensorTyped(d.tensors[k])
  BY <1>1 DEF DocTyped
<1>6. \A k \in 1 .. n : Q[k] \in Nat
  <2> SUFFICES ASSUME NEW k \in 1 .. n PROVE Q[k] \in Nat
    OBVIOUS
  <2>1. Q[k] = 8 + d.tensors[k].nameLen + 4 + 8 * Len(d.tensors[k].dims) + 4 + 8
    BY <1>5 DEF InfoSizes, InfoSize, StringSize
  <2>2. d.tensors[k].nameLen \in Nat /\ Len(d.tensors[k].dims) \in Nat
    BY <1>5 DEF TensorTyped
  <2>3. PICK x \in Nat, y \in Nat : x = d.tensors[k].nameLen /\ y = Len(d.tensors[k].dims)
    BY <2>2
  <2>4. Q[k] = 8 + x + 4 + 8 * y + 4 + 8
    BY <2>1, <2>3, Zenon
  <2> HIDE DEF Q
  <2> QED BY <2>4
<1>7. Q = [k \in 1 .. n |-> Q[k]]
  BY <1>5 DEF InfoSizes
<1> HIDE DEF P, Q, m, n
<1>8. P \in Numbers /\ Len(P) = m /\ Q \in Numbers /\ Len(Q) = n
  <2>1. P \in [1 .. m -> Nat] /\ Q \in [1 .. n -> Nat]
    BY <1>3, <1>4, <1>6, <1>7
  <2> QED BY <1>2, <1>5, <2>1 DEF Numbers
<1>9. Total(P) \in Nat /\ Total(Q) \in Nat
  BY <1>8, TotalType
<1>10. HeaderSize(d) \in Nat
  BY <1>9 DEF HeaderSize, P, Q
<1> QED BY <1>2, <1>5, <1>8, <1>9, <1>10 DEF P, Q, m, n

LEMMA DataFound ==
    ASSUME doc \in Docs, Plain(doc), bytesRead = HeaderSize(doc),
           alignment = StatedAlignment(doc, Len(doc.metadata)),
           NEW k \in DOMAIN doc.tensors, Known(doc.tensors[k])
    PROVE  LET t == doc.tensors[k]
           IN  /\ endOffset(t) = doc.dataStart + t.offset + t.bytes
               /\ {doc.dataStart, t.offset, t.bytes} \subseteq Nat
<1> DEFINE t == doc.tensors[k]
<1>1. PICK h \in Nat : h = 2^(W - 1) /\ \A n \in Nat : n < h => Int64(n) = n
  BY Words
<1>2. /\ {doc.alignment, doc.dataStart} \subseteq Nat
      /\ TensorTyped(t)
  BY DocsTyped DEF DocTyped
<1>3. {t.offset, t.elements, t.bytes} \subseteq Nat
  BY <1>2 DEF TensorTyped
<1>4. /\ doc.alignment + doc.dataStart < h
      /\ t.elements < h /\ doc.dataStart + t.offset + t.bytes < h
  BY <1>1, Zenon DEF Plain
<1>5. PICK a \in Nat, s \in Nat, o \in Nat, y \in Nat, c \in Nat :
        a = doc.alignment /\ s = doc.dataStart /\ o = t.offset /\ y = t.bytes /\ c = bytesRead
  BY <1>2, <1>3, HeaderTyped
<1>6. a + s < h /\ s + o + y < h
  BY <1>4, <1>5
<1>7. alignment = a /\ s = Padded(c, a) /\ TensorLaidOut(t)
  <2>1. LaidOut(doc)
    BY DocsLaidOut
  <2>2. alignment = a
    BY <1>5, <2>1 DEF LaidOut
  <2> QED BY <1>5, <2>1, <2>2 DEF LaidOut
<1>8. computeTensorDataSize(t) = y
  <2>1. t.bytes < h
    BY <1>5, <1>6
  <2> QED BY <1>1, <1>2, <1>4, <1>5, <1>7, <2>1, SizeComputed
<1>9. tensorDataStart = s
  <2>1. CASE a = 0 \/ c % a = 0
    BY <1>5, <1>7, <2>1 DEF Padded, tensorDataStart
  <2>2. CASE ~(a = 0 \/ c % a = 0)
    <3>1. c % a \in 0 .. (a - 1) /\ c % a # 0
      BY <2>2, Remainder
    <3>2. PICK r \in 1 .. (a - 1) : r = c % a
      BY <3>1
    <3>3. s = c + a - r
      BY <1>7, <2>2, <3>2 DEF Padded
    <3>4. tensorDataStart = Int64(c + Int64(a - r))
      BY <1>5, <1>7, <2>2, <3>2 DEF tensorDataStart
    <3>5. a - r \in Nat /\ c + (a - r) = s
      BY <3>3
    <3>8. a - r < h /\ s < h
      BY <1>6
    <3>6. Int64(a - r) = a - r
      BY <1>1, <3>5, <3>8
    <3>7. Int64(c + (a - r)) = s
      BY <1>1, <3>5, <3>8
    <3> QED BY <3>4, <3>6, <3>7
  <2> QED BY <2>1, <2>2
<1>10. endOffset(t) = s + o + y
  <2>1. endOffset(t) = Int64(s + Int64(o) + Int64(y))
    BY <1>5, <1>8, <1>9 DEF endOffset
  <2>2. Int64(o) = o /\ Int64(y) = y
    BY <1>1, <1>6
  <2>3. s + o + y \in Nat
    OBVIOUS
  <2> QED BY <1>1, <1>6, <2>1, <2>2, <2>3
<1> QED BY <1>2, <1>3, <1>5, <1>10

----------------------------------------------------------------------------
(* The length of the values that are still to be skipped.                  *)

LEMMA SizesTyped ==
    ASSUME NEW s \in Seq(Values)
    PROVE  Sizes(s) \in Numbers /\ Len(Sizes(s)) = Len(s) /\ Total(Sizes(s)) \in Nat
<1>1. Len(s) \in Nat /\ DOMAIN s = 1 .. Len(s) /\ \A k \in 1 .. Len(s) : s[k] \in Values
  BY ElementOfSeq
<1>2. Sizes(s) \in [1 .. Len(s) -> Nat]
  BY <1>1, ValuesEncoded DEF Sizes
<1>3. Sizes(s) \in Numbers /\ Len(Sizes(s)) = Len(s)
  BY <1>1, <1>2 DEF Numbers
<1> QED BY <1>3, TotalType

LEMMA SizesEmpty == Total(Sizes(<<>>)) = 0
<1>1. Sizes(<<>>) = <<>>
  BY DEF Sizes
<1> QED BY <1>1, TotalEmpty

LEMMA SizesConcat ==
    ASSUME NEW s \in Seq(Values), NEW t \in Seq(Values)
    PROVE  /\ s \o t \in Seq(Values)
           /\ Total(Sizes(s \o t)) = Total(Sizes(s)) + Total(Sizes(t))
<1> DEFINE u == s \o t
           x == Sizes(s)
           y == Sizes(t)
<1>1. /\ u \in Seq(Values) /\ Len(u) = Len(s) + Len(t)
      /\ Len(s) \in Nat /\ DOMAIN s = 1 .. Len(s)
      /\ Len(t) \in Nat /\ DOMAIN t = 1 .. Len(t)
      /\ DOMAIN u = 1 .. (Len(s) + Len(t))
      /\ \A k \in 1 .. (Len(s) + Len(t)) :
            u[k] = IF k <= Len(s) THEN s[k] ELSE t[k - Len(s)]
  BY ConcatProperties
<1>2. x \in Numbers /\ Len(x) = Len(s) /\ y \in Numbers /\ Len(y) = Len(t)
  BY SizesTyped
<1>3. /\ \A k \in 1 .. Len(s) : x[k] = Encoded[s[k]]
      /\ \A k \in 1 .. Len(t) : y[k] = Encoded[t[k]]
  BY <1>1 DEF Sizes
<1>4. /\ Sizes(u) \in Numbers /\ Len(Sizes(u)) = Len(s) + Len(t)
      /\ \A k \in 1 .. (Len(s) + Len(t)) : Sizes(u)[k] = Encoded[u[k]]
  <2> HIDE DEF u
  <2>1. Sizes(u) \in Numbers /\ Len(Sizes(u)) = Len(u)
    BY <1>1, SizesTyped
  <2>2. \A k \in 1 .. (Len(s) + Len(t)) : Sizes(u)[k] = Encoded[u[k]]
    BY <1>1 DEF Sizes
  <2> QED BY <1>1, <2>1, <2>2
<1> HIDE DEF u, x, y
<1>5. Sizes(u) = x \o y
  <2>1. /\ x \o y \in Seq(Nat) /\ Len(x \o y) = Len(s) + Len(t)
        /\ \A k \in 1 .. (Len(s) + Len(t)) :
              (x \o y)[k] = IF k <= Len(s) THEN x[k] ELSE y[k - Len(s)]
    <3>1. x \in Seq(Nat) /\ y \in Seq(Nat)
      BY <1>2 DEF Numbers
    <3>2. /\ x \o y \in Seq(Nat) /\ Len(x \o y) = Len(x) + Len(y)
          /\ \A k \in 1 .. (Len(x) + Len(y)) :
                (x \o y)[k] = IF k <= Len(x) THEN x[k] ELSE y[k - Len(x)]
      BY <3>1, ConcatProperties
    <3> QED BY <1>2, <3>2
  <2>2. ASSUME NEW k \in 1 .. (Len(s) + Len(t)) PROVE Sizes(u)[k] = (x \o y)[k]
    <3>1. CASE k <= Len(s)
      <4>1. k \in 1 .. Len(s)
        BY <1>1, <3>1
      <4>2. u[k] = s[k] /\ (x \o y)[k] = x[k]
        BY <1>1, <2>1, <3>1
      <4>3. x[k] = Encoded[s[k]] /\ Sizes(u)[k] = Encoded[u[k]]
        BY <1>3, <1>4, <4>1
      <4> QED BY <4>2, <4>3
    <3>2. CASE ~(k <= Len(s))
      <4>1. k - Len(s) \in 1 .. Len(t)
        BY <1>1, <3>2
      <4>2. u[k] = t[k - Len(s)] /\ (x \o y)[k] = y[k - Len(s)]
        BY <1>1, <2>1, <3>2
      <4>3. y[k - Len(s)] = Encoded[t[k - Len(s)]] /\ Sizes(u)[k] = Encoded[u[k]]
        BY <1>3, <1>4, <4>1
      <4> QED BY <4>2, <4>3
    <3> QED BY <3>1, <3>2
  <2>3. Sizes(u) \in Seq(Nat)
    BY <1>4 DEF Numbers
  <2> QED BY <1>4, <2>1, <2>2, <2>3, SeqEqual
<1>6. Total(x \o y) = Total(x) + Total(y)
  BY <1>2, TotalConcat
<1> QED BY <1>1, <1>5, <1>6 DEF u, x, y

LEMMA SizesOne ==
    ASSUME NEW v \in Values
    PROVE  <<v>> \in Seq(Values) /\ Total(Sizes(<<v>>)) = Encoded[v]
<1> DEFINE x == Sizes(<<v>>)
<1>1. <<v>> \in Seq(Values) /\ Len(<<v>>) = 1 /\ <<v>>[1] = v /\ DOMAIN <<v>> = {1}
  OBVIOUS
<1>2. x \in Numbers /\ Len(x) = 1
  BY <1>1, SizesTyped
<1>3. x[1] = Encoded[v] /\ Encoded[v] \in Nat
  BY <1>1, ValuesEncoded DEF Sizes
<1> HIDE DEF x
<1>4. SumTo(x)[0] = 0 /\ \A k \in 1 .. Len(x) : SumTo(x)[k] = SumTo(x)[k - 1] + x[k]
  BY <1>2, SumSteps
<1>5. SumTo(x)[1] = SumTo(x)[0] + x[1]
  <2>1. 1 \in 1 .. Len(x) /\ 1 - 1 = 0
    BY <1>2
  <2>2. SumTo(x)[1] = SumTo(x)[1 - 1] + x[1]
    BY <1>4, <2>1
  <2> QED BY <2>1, <2>2
<1>6. Total(x) = Encoded[v]
  BY <1>2, <1>3, <1>4, <1>5 DEF Total
<1> QED BY <1>1, <1>6 DEF x

LEMMA SizesHead ==
    ASSUME NEW s \in Seq(Values), s # <<>>
    PROVE  /\ Head(s) \in Values /\ Tail(s) \in Seq(Values)
           /\ Total(Sizes(s)) = Encoded[Head(s)] + Total(Sizes(Tail(s)))
<1>1. Head(s) \in Values /\ Tail(s) \in Seq(Values) /\ s = <<Head(s)>> \o Tail(s)
  BY HeadTailProperties
<1>2. Total(Sizes(<<Head(s)>>)) = Encoded[Head(s)]
  BY <1>1, SizesOne
<1>3. <<Head(s)>> \in Seq(Values)
  BY <1>1
<1> QED BY <1>1, <1>2, <1>3, SizesConcat

----------------------------------------------------------------------------
(* The header, pair by pair and tensor by tensor.                          *)

LEMMA PairAdded ==
    ASSUME NEW d \in Docs, NEW n \in 1 .. Len(d.metadata)
    PROVE  LET S == SumTo(PairSizes(d))
               kv == d.metadata[n]
           IN  /\ kv.keyLen \in Nat /\ kv.value \in Values /\ Encoded[kv.value] \in Nat
               /\ S[n - 1] \in Nat /\ S[n] \in Nat
               /\ S[n] = S[n - 1] + (StringSize(kv.keyLen) + 4) + Encoded[kv.value]
               /\ 24 + S[n] <= HeaderSize(d)
<1> DEFINE P == PairSizes(d)
           S == SumTo(P)
           kv == d.metadata[n]
           m == Len(d.metadata)
<1>1. /\ P \in Numbers /\ Len(P) = m /\ Total(P) \in Nat /\ Total(InfoSizes(d)) \in Nat
      /\ m \in Nat /\ DOMAIN d.metadata = 1 .. m
  BY HeaderTyped
<1>2. n \in 1 .. m /\ n \in 0 .. m /\ n - 1 \in 0 .. m /\ m \in n .. m
  BY <1>1
<1>3. kv.keyLen \in Nat /\ kv.value \in Values /\ Encoded[kv.value] \in Nat
  <2>1. d.metadata \in Seq([keyLen : Nat, key : STRING, value : Values])
    BY DocsTyped DEF DocTyped
  <2>2. kv \in [keyLen : Nat, key : STRING, value : Values]
    BY <2>1, ElementOfSeq
  <2>3. kv.keyLen \in Nat /\ kv.value \in Values
    BY <2>2
  <2> QED BY <2>3, ValuesEncoded
<1>4. P[n] = StringSize(kv.keyLen) + 4 + Encoded[kv.value]
  BY <1>1, <1>2 DEF PairSizes
<1> HIDE DEF P, kv, m
<1>5. S[n] = S[n - 1] + P[n] /\ S[n - 1] \in Nat /\ S[n] \in Nat
  BY <1>1, <1>2, SumSteps
<1>6. S[n] <= Total(P)
  <2>1. S[n] <= S[m]
    BY <1>1, <1>2, SumsGrow
  <2> QED BY <1>1, <2>1 DEF Total
<1> HIDE DEF S
<1>7. HeaderSize(d) = 24 + Total(P) + Total(InfoSizes(d))
  BY DEF HeaderSize, P
<1>8. 24 + S[n] <= HeaderSize(d)
  BY <1>1, <1>5, <1>6, <1>7
<1>9. PICK a \in Nat, b \in Nat, c \in Nat : a = S[n - 1] /\ b = kv.keyLen /\ c = Encoded[kv.value]
  BY <1>3, <1>5
<1>10. S[n] = S[n - 1] + (StringSize(kv.keyLen) + 4) + Encoded[kv.value]
  <2>1. S[n] = a + (8 + b + 4 + c)
    BY <1>4, <1>5, <1>9 DEF StringSize
  <2>2. S[n] = a + ((8 + b) + 4) + c
    BY <2>1
  <2> QED BY <1>9, <2>2 DEF StringSize
<1> QED BY <1>3, <1>5, <1>8, <1>10 DEF S, P, kv

LEMMA InfoAdded ==
    ASSUME NEW d \in Docs, NEW n \in 1 .. Len(d.tensors)
    PROVE  LET S == SumTo(InfoSizes(d))
           IN  /\ TensorTyped(d.tensors[n]) /\ InfoSize(d.tensors[n]) \in Nat
               /\ S[n - 1] \in Nat /\ S[n] \in Nat
               /\ S[n] = S[n - 1] + InfoSize(d.tensors[n])
               /\ 24 + Total(PairSizes(d)) + S[n] <= HeaderSize(d)
<1> DEFINE Q == InfoSizes(d)
           S == SumTo(Q)
           m == Len(d.tensors)
<1>1. /\ Q \in Numbers /\ Len(Q) = m /\ Total(Q) \in Nat /\ Total(PairSizes(d)) \in Nat
      /\ m \in Nat /\ DOMAIN d.tensors = 1 .. m
  BY HeaderTyped
<1>2. n \in 1 .. m /\ n \in 0 .. m /\ n - 1 \in 0 .. m /\ m \in n .. m
  BY <1>1
<1>3. TensorTyped(d.tensors[n])
  BY <1>1, DocsTyped DEF DocTyped
<1>4. Q[n] = InfoSize(d.tensors[n])
  BY <1>1, <1>2 DEF InfoSizes
<1> HIDE DEF Q, m
<1>5. S[n] = S[n - 1] + Q[n] /\ S[n - 1] \in Nat /\ S[n] \in Nat /\ Q[n] \in Nat
  <2>1. S[n] = S[n - 1] + Q[n] /\ S[n - 1] \in Nat /\ S[n] \in Nat
    BY <1>1, <1>2, SumSteps
  <2>2. Q[n] \in Nat
    BY <1>1, <1>2 DEF Numbers
  <2> QED BY <2>1, <2>2
<1>6. S[n] <= Total(Q)
  <2>1. S[n] <= S[m]
    BY <1>1, <1>2, SumsGrow
  <2> QED BY <1>1, <2>1 DEF Total
<1> HIDE DEF S
<1>7. HeaderSize(d) = 24 + Total(PairSizes(d)) + Total(Q)
  BY DEF HeaderSize, Q
<1>8. 24 + Total(PairSizes(d)) + S[n] <= HeaderSize(d)
  BY <1>1, <1>5, <1>6, <1>7
<1> QED BY <1>3, <1>4, <1>5, <1>8 DEF S, Q

LEMMA SumsBegin ==
    ASSUME NEW d \in Docs
    PROVE  /\ SumTo(PairSizes(d))[0] = 0 /\ SumTo(InfoSizes(d))[0] = 0
           /\ SumTo(PairSizes(d))[Len(d.metadata)] = Total(PairSizes(d))
           /\ SumTo(InfoSizes(d))[Len(d.tensors)] = Total(InfoSizes(d))
           /\ 24 <= HeaderSize(d)
<1>1. /\ PairSizes(d) \in Numbers /\ Len(PairSizes(d)) = Len(d.metadata)
      /\ InfoSizes(d) \in Numbers /\ Len(InfoSizes(d)) = Len(d.tensors)
      /\ Total(PairSizes(d)) \in Nat /\ Total(InfoSizes(d)) \in Nat
  BY HeaderTyped
<1>2. SumTo(PairSizes(d))[0] = 0 /\ SumTo(InfoSizes(d))[0] = 0
  BY <1>1, SumSteps
<1>3. /\ SumTo(PairSizes(d))[Len(d.metadata)] = Total(PairSizes(d))
      /\ SumTo(InfoSizes(d))[Len(d.tensors)] = Total(InfoSizes(d))
  BY <1>1 DEF Total
<1>4. 24 <= HeaderSize(d)
  BY <1>1 DEF HeaderSize
<1> QED BY <1>2, <1>3, <1>4

(* The alignment that is stated after one pair more.                       *)
LEMMA AlignmentStated ==
    ASSUME NEW d \in Docs, NEW n \in 1 .. Len(d.metadata)
    PROVE  /\ n \notin AlignmentPairs(d, n) =>
                 StatedAlignment(d, n) = StatedAlignment(d, n - 1)
           /\ n \in AlignmentPairs(d, n) =>
                 StatedAlignment(d, n) = d.metadata[n].value.value
<1>1. Len(d.metadata) \in Nat
  BY HeaderTyped
<1>2. n \in Nat /\ 1 .. n = (1 .. (n - 1)) \cup {n}
  BY <1>1
<1>3. ASSUME n \notin AlignmentPairs(d, n)
      PROVE  StatedAlignment(d, n) = StatedAlignment(d, n - 1)
  <2>1. AlignmentPairs(d, n) = AlignmentPairs(d, n - 1)
    BY <1>2, <1>3 DEF AlignmentPairs
  <2> QED BY <2>1 DEF StatedAlignment
<1>4. ASSUME n \in AlignmentPairs(d, n)
      PROVE  StatedAlignment(d, n) = d.metadata[n].value.value
  <2> DEFINE A == AlignmentPairs(d, n)
  <2>1. A \in SUBSET (1 .. n) /\ A # {}
    BY <1>4 DEF AlignmentPairs
  <2> HIDE DEF A
  <2>2. Max(A) \in A /\ \A k \in A : k <= Max(A)
    BY <1>2, <2>1, GreatestElement
  <2>3. n <= Max(A)
    BY <1>4, <2>2 DEF A
  <2>4. Max(A) = n
    <3>1. PICK x : x = Max(A)
      OBVIOUS
    <3>2. x \in 1 .. n /\ n <= x
      BY <2>1, <2>2, <2>3, <3>1
    <3>3. x = n
      BY <1>2, <3>2
    <3> QED BY <3>1, <3>3
  <2> QED BY <2>1, <2>4 DEF StatedAlignment, A
<1> QED BY <1>3, <1>4

LEMMA AlignmentBegins == ASSUME NEW d PROVE StatedAlignment(d, 0) = 32
<1>1. AlignmentPairs(d, 0) = {}
  BY DEF AlignmentPairs
<1> QED BY <1>1 DEF StatedAlignment

----------------------------------------------------------------------------
(* The inductive invariants.                                               *)

Word == 0 .. 2^W - 1

(* What keeps the types: the counts of a header that was taken are those   *)
(* of its lists, and the reader is within them.                            *)
Typed ==
    /\ doc \in Docs
    /\ stage \in {"header", "metadata", "value", "tensors", "bounds", "done"}
    /\ i \in Nat \ {0}
    /\ work \in Seq(Values)
    /\ size \in Nat /\ pos \in 0 .. size /\ bytesRead = pos
    /\ alignment \in Word
    /\ verdict \in {"none", "ok", "refused"}
    /\ verdict = "none" <=> stage # "done"
    /\ stage \notin {"header", "done"} \/ verdict = "ok" =>
          doc.metadataCount = Len(doc.metadata) /\ doc.tensorCount = Len(doc.tensors)
    /\ stage = "header" => i = 1
    /\ stage = "metadata" => i <= Len(doc.metadata) + 1
    /\ stage = "value" => i <= Len(doc.metadata)
    /\ stage \in {"tensors", "bounds"} => i <= Len(doc.tensors) + 1

(* Where the reader is in the header: what it has consumed, with what it   *)
(* has still to skip of the value it is at, is what the pairs and tensors  *)
(* it has taken up are long.  The alignment is the one they state.         *)
Counted ==
    /\ stage = "header" => pos = 0 /\ alignment = 32
    /\ stage = "metadata" =>
          /\ pos = 24 + SumTo(PairSizes(doc))[i - 1]
          /\ alignment = StatedAlignment(doc, i - 1)
    /\ stage = "value" =>
          /\ pos + Total(Sizes(work)) = 24 + SumTo(PairSizes(doc))[i]
          /\ IF i \in AlignmentPairs(doc, i) /\ work # <<>>
             THEN work = <<doc.metadata[i].value>>
             ELSE alignment = StatedAlignment(doc, i)
    /\ stage = "tensors" =>
          /\ pos = 24 + Total(PairSizes(doc)) + SumTo(InfoSizes(doc))[i - 1]
          /\ alignment = StatedAlignment(doc, Len(doc.metadata))
    /\ stage = "bounds" \/ verdict = "ok" =>
          /\ pos = HeaderSize(doc)
          /\ alignment = StatedAlignment(doc, Len(doc.metadata))

(* The tensors that are behind the reader lie within the file.             *)
Checked ==
    stage = "bounds" \/ verdict = "ok" =>
        (Plain(doc) =>
            \A k \in 1 .. Len(doc.tensors) :
                (verdict = "ok" \/ k < i) /\ Known(doc.tensors[k]) => Within(doc.tensors[k]))

(* Of a whole file the reader has only well-formed values before it.       *)
Continued ==
    doc.wellFormed /\ size = doc.end => verdict # "refused" /\ work \in Seq(GoodValues)

----------------------------------------------------------------------------
(* Types.                                                                  *)

LEMMA WordFacts ==
    /\ 32 \in Word
    /\ \A v \in Values : v.type \in {ggufTypeUint32, ggufTypeUint64} => v.value \in Word
<1>1. 32 \in Word
  <2>1. PICK h \in Nat, w \in Nat : w = 2^W /\ w = h + h /\ 256 <= h
    BY Words
  <2>2. 32 \in 0 .. w - 1
    BY <2>1
  <2> QED BY <2>1, <2>2, Zenon DEF Word
<1> QED BY <1>1, ValuesTyped, Zenon DEF Word

LEMMA ValueFacts ==
    ASSUME NEW v \in Values, ValueOK(v)
    PROVE  /\ ValueSize(v) \in Nat /\ v.items \in Seq(Values)
           /\ Encoded[v] = ValueSize(v) + Total(Sizes(v.items))
           /\ Total(Sizes(v.items)) \in Nat
<1>1. v.items \in Seq(Values) /\ v.len \in Nat
  BY ValuesTyped
<1>2. ValueSize(v) \in Nat
  BY <1>1, Widths DEF ValueSize, StringSize
<1>3. KnownValue(v)
  BY DEF KnownValue, ValueOK
<1> QED BY <1>1, <1>2, <1>3, ValuesEncoded, SizesTyped

LEMMA AlignmentFacts ==
    ASSUME NEW v \in Values, v.type \in {ggufTypeUint32, ggufTypeUint64}
    PROVE  /\ ValueOK(v) /\ ValueSize(v) = FixedWidth[v.type]
           /\ v.items = <<>> /\ v.value \in Word
<1>1. v.type \in DOMAIN FixedWidth /\ v.type # ggufTypeArray
  BY Widths
<1>2. v.items = <<>>
  BY <1>1, ValuesTyped
<1> QED BY <1>1, <1>2, WordFacts DEF ValueOK, ValueSize

LEMMA TypedInit == Init => Typed
<1> SUFFICES ASSUME Init PROVE Typed
  OBVIOUS
<1>1. doc \in Docs /\ size \in 0 .. doc.end /\ doc.end \in Nat
  BY DocsTyped DEF Init, DocTyped
<1>2. size \in Nat /\ 0 \in 0 .. size
  BY <1>1
<1> QED BY <1>1, <1>2, WordFacts DEF Init, Typed

LEMMA TypedStep == Typed /\ [Next]_vars => Typed'
<1> SUFFICES ASSUME Typed, [Next]_vars PROVE Typed'
  OBVIOUS
<1> DEFINE m == Len(doc.metadata)
           n == Len(doc.tensors)
<1>1. m \in Nat /\ n \in Nat /\ doc \in Docs
  BY HeaderTyped DEF Typed
<1>2. ASSUME Refuse PROVE Typed'
  BY <1>2 DEF Refuse, Typed
<1>3. ASSUME NEW k \in Nat, ReadFull(k), Consume(k, k), size' = size
      PROVE  pos' \in 0 .. size' /\ bytesRead' = pos'
  BY <1>3 DEF Typed, ReadFull, Consume
<1>4. CASE readGGUFFileHeader
  <2>1. CASE Refuse
    BY <1>2, <2>1
  <2>2. CASE ~Refuse
    <3>1. /\ ReadFull(24) /\ Consume(24, 24) /\ stage' = "metadata"
          /\ doc.tensorCount <= MaxCount /\ doc.metadataCount <= MaxCount
          /\ UNCHANGED <<doc, size, i, work, alignment, verdict>> /\ stage = "header"
      BY <1>4, <2>2 DEF readGGUFFileHeader
    <3>2. doc.metadataCount = m /\ doc.tensorCount = n
      BY <1>1, <3>1, DocsTyped DEF DocTyped
    <3>3. pos' \in 0 .. size' /\ bytesRead' = pos'
      BY <1>3, <3>1
    <3> HIDE DEF m, n
    <3> QED BY <1>1, <3>1, <3>2, <3>3 DEF Typed, m, n
  <2> QED BY <2>1, <2>2
<1>5. CASE readMetadataKey
  <2> DEFINE kv == doc.metadata[i]
             k == StringSize(kv.keyLen) + 4
  <2>1. i \in 1 .. m
    BY <1>1, <1>5 DEF readMetadataKey, Typed
  <2>2. kv.value \in Values /\ k \in Nat
    <3>1. kv.keyLen \in Nat /\ kv.value \in Values
      BY <1>1, <2>1, PairAdded
    <3>2. PICK x \in Nat : x = kv.keyLen
      BY <3>1
    <3>3. k = (8 + x) + 4
      BY <3>2 DEF StringSize
    <3> HIDE DEF k
    <3> QED BY <3>1, <3>3
  <2>3. CASE Refuse
    BY <1>2, <2>3
  <2>4. CASE ~Refuse
    <3>1. /\ ReadFull(k) /\ Consume(k, k) /\ work' = <<kv.value>> /\ stage' = "value"
          /\ UNCHANGED <<doc, size, i, alignment, verdict>> /\ stage = "metadata"
      BY <1>5, <2>4 DEF readMetadataKey
    <3> HIDE DEF k
    <3>2. pos' \in 0 .. size' /\ bytesRead' = pos'
      BY <1>3, <2>2, <3>1
    <3>3. work' \in Seq(Values)
      BY <2>2, <3>1
    <3> QED BY <1>1, <2>1, <3>1, <3>2, <3>3 DEF Typed
  <2> QED BY <2>3, <2>4
<1>6. CASE metadataRead
  BY <1>1, <1>6 DEF metadataRead, Begin, Typed
<1>7. CASE readAlignment
  <2> DEFINE v == Head(work)
             k == FixedWidth[v.type]
  <2>1. v \in Values /\ Tail(work) \in Seq(Values)
    BY <1>7, HeadTailProperties DEF readAlignment, Typed
  <2>2. v.value \in Word /\ k \in Nat
    BY <1>7, <2>1, AlignmentFacts, Widths DEF readAlignment, IsAlignment
  <2>3. CASE Refuse
    BY <1>2, <2>3
  <2>4. CASE ~Refuse
    <3>1. /\ ReadFull(k) /\ Consume(k, k) /\ alignment' = v.value /\ work' = Tail(work)
          /\ UNCHANGED <<doc, size, stage, i, verdict>> /\ stage = "value"
      BY <1>7, <2>4 DEF readAlignment
    <3> HIDE DEF k, v
    <3>2. pos' \in 0 .. size' /\ bytesRead' = pos'
      BY <1>3, <2>2, <3>1
    <3> QED BY <2>1, <2>2, <3>1, <3>2 DEF Typed
  <2> QED BY <2>3, <2>4
<1>8. CASE skipGGUFMetadataValue
  <2> DEFINE v == Head(work)
             k == ValueSize(v)
  <2>1. v \in Values /\ Tail(work) \in Seq(Values)
    BY <1>8, HeadTailProperties DEF skipGGUFMetadataValue, Typed
  <2>2. CASE Refuse
    BY <1>2, <2>2
  <2>3. CASE ~Refuse
    <3>1. /\ ValueOK(v) /\ ReadFull(k) /\ Consume(k, k) /\ work' = v.items \o Tail(work)
          /\ UNCHANGED <<doc, size, stage, i, alignment, verdict>> /\ stage = "value"
      BY <1>8, <2>3 DEF skipGGUFMetadataValue
    <3>2. k \in Nat /\ v.items \in Seq(Values)
      BY <2>1, <3>1, ValueFacts
    <3> HIDE DEF k, v
    <3>3. pos' \in 0 .. size' /\ bytesRead' = pos'
      BY <1>3, <3>1, <3>2
    <3>4. work' \in Seq(Values)
      BY <2>1, <3>1, <3>2, SizesConcat
    <3> QED BY <3>1, <3>3, <3>4 DEF Typed
  <2> QED BY <2>2, <2>3
<1>9. CASE valueRead
  BY <1>1, <1>9 DEF valueRead, Typed
<1>10. CASE readTensorInfo
  <2> DEFINE t == doc.tensors[i]
             k == StringSize(t.nameLen) + 4 + 8 * Len(t.dims) + 4 + 8
  <2>1. i \in 1 .. n
    BY <1>1, <1>10 DEF readTensorInfo, Typed
  <2>2. k \in Nat
    BY <1>1, <2>1, InfoAdded DEF InfoSize
  <2>3. CASE Refuse
    BY <1>2, <2>3
  <2>4. CASE ~Refuse
    <3>1. /\ ReadFull(k) /\ Consume(k, k) /\ i' = i + 1
          /\ UNCHANGED <<doc, size, stage, work, alignment, verdict>> /\ stage = "tensors"
      BY <1>10, <2>4 DEF readTensorInfo
    <3> HIDE DEF k
    <3>2. pos' \in 0 .. size' /\ bytesRead' = pos'
      BY <1>3, <2>2, <3>1
    <3> QED BY <1>1, <2>1, <3>1, <3>2 DEF Typed
  <2> QED BY <2>3, <2>4
<1>11. CASE tensorsRead
  BY <1>1, <1>11 DEF tensorsRead, Begin, Typed
<1>12. CASE checkTensorBounds
  <2>1. CASE Refuse
    BY <1>2, <2>1
  <2>2. CASE ~Refuse
    BY <1>1, <1>12, <2>2, SMTT(30) DEF checkTensorBounds, Typed
  <2> QED BY <2>1, <2>2
<1>13. CASE accept
  BY <1>13 DEF accept, Typed
<1>14. CASE UNCHANGED vars
  BY <1>14 DEF vars, Typed
<1>15. CASE verified
  BY <1>14, <1>15 DEF verified
<1> QED BY <1>4, <1>5, <1>6, <1>7, <1>8, <1>9, <1>10, <1>11, <1>12, <1>13, <1>14, <1>15 DEF Next

(* GgufTypeOK for every file and every length it is cut off at: the reader *)
(* consumes nothing beyond the end, and what it counts by hand is what it  *)
(* has consumed.                                                           *)
THEOREM GgufTyped == Spec => []GgufTypeOK
<1>1. Typed => GgufTypeOK
  <2> SUFFICES ASSUME Typed PROVE GgufTypeOK
    OBVIOUS
  <2>1. bytesRead = pos /\ i \in Nat
    BY DEF Typed
  <2>2. alignment \in 0 .. 2^W - 1
    BY Zenon DEF Typed, Word
  <2> QED BY <2>1, <2>2, Zenon DEF Typed, GgufTypeOK
<1> QED BY TypedInit, TypedStep, <1>1, PTL DEF Spec

----------------------------------------------------------------------------
(* The place in the header.                                                *)

LEMMA CountedInit == Init => Counted
BY DEF Init, Counted

LEMMA CountedStep == Typed /\ Counted /\ [Next]_vars => Counted'
<1> SUFFICES ASSUME Typed, Counted, [Next]_vars PROVE Counted'
  OBVIOUS
<1> DEFINE m == Len(doc.metadata)
           n == Len(doc.tensors)
           S == SumTo(PairSizes(doc))
           R == SumTo(InfoSizes(doc))
<1>1. m \in Nat /\ n \in Nat /\ doc \in Docs /\ i \in Nat \ {0} /\ pos \in Nat /\ bytesRead = pos
  BY HeaderTyped DEF Typed
<1>2. ASSUME Refuse PROVE Counted'
  BY <1>2 DEF Refuse, Counted
<1>3. S[0] = 0 /\ S[m] = Total(PairSizes(doc)) /\ R[0] = 0 /\ R[n] = Total(InfoSizes(doc))
  BY <1>1, SumsBegin
<1>4. CASE readGGUFFileHeader
  <2>1. CASE Refuse
    BY <1>2, <2>1
  <2>2. CASE ~Refuse
    <3>1. /\ pos' = pos + 24 /\ stage' = "metadata" /\ stage = "header"
          /\ UNCHANGED <<doc, size, i, work, alignment, verdict>>
      BY <1>4, <2>2 DEF readGGUFFileHeader, Consume
    <3>2. pos = 0 /\ alignment = 32 /\ i = 1 /\ verdict = "none"
      BY <3>1 DEF Counted, Typed
    <3>3. alignment = StatedAlignment(doc, i - 1)
      BY <3>2, AlignmentBegins
    <3>4. pos' = 24 + S[i - 1]
      BY <1>3, <3>1, <3>2
    <3> QED BY <3>1, <3>2, <3>3, <3>4 DEF Counted
  <2> QED BY <2>1, <2>2
<1>5. CASE readMetadataKey
  <2> DEFINE kv == doc.metadata[i]
             k == StringSize(kv.keyLen) + 4
  <2>1. i \in 1 .. m /\ verdict = "none"
    BY <1>1, <1>5 DEF readMetadataKey, Typed
  <2>2. CASE Refuse
    BY <1>2, <2>2
  <2>3. CASE ~Refuse
    <3>1. /\ pos' = pos + k /\ work' = <<kv.value>> /\ stage' = "value"
          /\ UNCHANGED <<doc, size, i, alignment, verdict>> /\ stage = "metadata"
      BY <1>5, <2>3 DEF readMetadataKey, Consume
    <3>2. pos = 24 + S[i - 1] /\ alignment = StatedAlignment(doc, i - 1)
      BY <3>1 DEF Counted
    <3>3. /\ S[i] = S[i - 1] + k + Encoded[kv.value]
          /\ kv.value \in Values /\ Encoded[kv.value] \in Nat /\ S[i - 1] \in Nat /\ S[i] \in Nat
      BY <1>1, <2>1, PairAdded
    <3>4. Total(Sizes(work')) = Encoded[kv.value] /\ kv.keyLen \in Nat
      BY <1>1, <2>1, <3>1, <3>3, SizesOne, PairAdded
    <3>5. k \in Nat
      <4>1. PICK x \in Nat : x = kv.keyLen
        BY <3>4
      <4>2. k = (8 + x) + 4
        BY <4>1 DEF StringSize
      <4> HIDE DEF k
      <4> QED BY <4>2
    <3>6. pos' + Total(Sizes(work')) = 24 + S[i]
      <4> HIDE DEF k, S
      <4> QED BY <3>1, <3>2, <3>3, <3>4, <3>5
    <3>7. i \notin AlignmentPairs(doc, i) => alignment = StatedAlignment(doc, i)
      BY <1>1, <2>1, <3>2, AlignmentStated
    <3>8. work' # <<>>
      BY <3>1
    <3> HIDE DEF k, kv
    <3>9. (IF i \in AlignmentPairs(doc, i) /\ work # <<>>
           THEN work = <<doc.metadata[i].value>>
           ELSE alignment = StatedAlignment(doc, i))'
      BY <3>1, <3>7, <3>8 DEF kv
    <3> QED BY <2>1, <3>1, <3>6, <3>9 DEF Counted
  <2> QED BY <2>2, <2>3
<1>6. CASE metadataRead
  <2>1. /\ stage = "metadata" /\ stage' = "tensors" /\ i' = 1 /\ i > m /\ i <= m + 1
        /\ UNCHANGED <<doc, size, work, pos, bytesRead, alignment, verdict>> /\ verdict = "none"
    BY <1>1, <1>6 DEF metadataRead, Begin, Typed
  <2>2. i - 1 = m
    BY <1>1, <2>1
  <2>3. pos = 24 + S[m] /\ alignment = StatedAlignment(doc, m)
    BY <2>1, <2>2 DEF Counted
  <2>4. 24 + S[m] = 24 + Total(PairSizes(doc)) + R[i' - 1]
    <3>1. Total(PairSizes(doc)) \in Nat
      BY <1>1, HeaderTyped
    <3> QED BY <1>3, <2>1, <3>1
  <2> QED BY <2>1, <2>3, <2>4 DEF Counted
<1>7. CASE readAlignment
  <2> DEFINE v == Head(work)
             k == FixedWidth[v.type]
  <2>1. work # <<>> /\ work \in Seq(Values) /\ i \in 1 .. m /\ stage = "value" /\ verdict = "none"
    BY <1>1, <1>7 DEF readAlignment, Typed
  <2>2. v \in Values /\ Tail(work) \in Seq(Values)
    BY <2>1, HeadTailProperties
  <2>3. /\ doc.metadata[i].value = v /\ v.type \in {ggufTypeUint32, ggufTypeUint64}
        /\ i \in AlignmentPairs(doc, i)
    BY <1>7, <2>1 DEF readAlignment, IsAlignment, AlignmentPairs
  <2>4. ValueOK(v) /\ ValueSize(v) = k /\ v.items = <<>>
    BY <2>2, <2>3, AlignmentFacts
  <2>5. Encoded[v] = k + Total(Sizes(v.items)) /\ k \in Nat
    BY <2>2, <2>4, ValueFacts
  <2>6. CASE Refuse
    BY <1>2, <2>6
  <2>7. CASE ~Refuse
    <3>1. /\ pos' = pos + k /\ alignment' = v.value /\ work' = Tail(work)
          /\ UNCHANGED <<doc, size, stage, i, verdict>>
      BY <1>7, <2>7 DEF readAlignment, Consume
    <3>2. work = <<v>> /\ pos + Total(Sizes(work)) = 24 + S[i]
      BY <2>1, <2>3 DEF Counted
    <3>3. work' = <<>>
      <4>1. \A x : Tail(<<x>>) = <<>>
        OBVIOUS
      <4> HIDE DEF v
      <4> QED BY <3>1, <3>2, <4>1
    <3>4. Total(Sizes(work)) = Encoded[v] /\ Total(Sizes(work')) = 0
      BY <2>2, <3>2, <3>3, SizesOne, SizesEmpty
    <3>5. Encoded[v] = k
      BY <2>4, <2>5, SizesEmpty
    <3>6. pos' + Total(Sizes(work')) = 24 + S[i]
      <4> HIDE DEF k, v, S
      <4> QED BY <1>1, <2>5, <3>1, <3>2, <3>4, <3>5
    <3>7. alignment' = StatedAlignment(doc, i)
      BY <1>1, <2>1, <2>3, <3>1, AlignmentStated
    <3> HIDE DEF k, v
    <3> QED BY <2>1, <3>1, <3>3, <3>6, <3>7 DEF Counted
  <2> QED BY <2>6, <2>7
<1>8. CASE skipGGUFMetadataValue
  <2> DEFINE v == Head(work)
             k == ValueSize(v)
  <2>1. /\ work # <<>> /\ work \in Seq(Values) /\ i \in 1 .. m /\ stage = "value"
        /\ verdict = "none" /\ ~IsAlignment(v)
    BY <1>1, <1>8 DEF skipGGUFMetadataValue, Typed
  <2>2. /\ v \in Values /\ Tail(work) \in Seq(Values)
        /\ Total(Sizes(work)) = Encoded[v] + Total(Sizes(Tail(work)))
    BY <2>1, SizesHead
  <2>3. i \notin AlignmentPairs(doc, i)
    <3> SUFFICES ASSUME i \in AlignmentPairs(doc, i) PROVE FALSE
      OBVIOUS
    <3>1. work = <<doc.metadata[i].value>>
      BY <2>1 DEF Counted
    <3>2. v = doc.metadata[i].value
      BY <3>1
    <3> QED BY <2>1, <3>2 DEF AlignmentPairs, IsAlignment
  <2>4. CASE Refuse
    BY <1>2, <2>4
  <2>5. CASE ~Refuse
    <3>1. /\ ValueOK(v) /\ pos' = pos + k /\ work' = v.items \o Tail(work)
          /\ UNCHANGED <<doc, size, stage, i, alignment, verdict>>
      BY <1>8, <2>5 DEF skipGGUFMetadataValue, Consume
    <3>2. /\ k \in Nat /\ v.items \in Seq(Values) /\ Encoded[v] = k + Total(Sizes(v.items))
          /\ Total(Sizes(v.items)) \in Nat
      BY <2>2, <3>1, ValueFacts
    <3>3. /\ Total(Sizes(work')) = Total(Sizes(v.items)) + Total(Sizes(Tail(work)))
          /\ Total(Sizes(Tail(work))) \in Nat
      BY <2>2, <3>1, <3>2, SizesConcat, SizesTyped
    <3>4. pos + Total(Sizes(work)) = 24 + S[i] /\ alignment = StatedAlignment(doc, i)
      BY <2>1, <2>3 DEF Counted
    <3>5. pos' + Total(Sizes(work')) = 24 + S[i]
      <4>1. PICK a \in Nat, b \in Nat : a = Total(Sizes(v.items)) /\ b = Total(Sizes(Tail(work)))
        BY <3>2, <3>3
      <4> HIDE DEF k, S
      <4>2. Total(Sizes(work)) = (k + a) + b /\ Total(Sizes(work')) = a + b
        BY <2>2, <3>2, <3>3, <4>1, Zenon
      <4>3. pos' + (a + b) = pos + ((k + a) + b)
        BY <1>1, <3>1, <3>2
      <4> QED BY <3>4, <4>2, <4>3
    <3> HIDE DEF k, v
    <3> QED BY <2>1, <2>3, <3>1, <3>4, <3>5 DEF Counted
  <2> QED BY <2>4, <2>5
<1>9. CASE valueRead
  <2>1. /\ stage = "value" /\ stage' = "metadata" /\ work = <<>> /\ i' = i + 1 /\ verdict = "none"
        /\ UNCHANGED <<doc, size, work, pos, bytesRead, alignment, verdict>> /\ i \in 1 .. m
    BY <1>1, <1>9 DEF valueRead, Typed
  <2>2. pos + Total(Sizes(work)) = 24 + S[i] /\ alignment = StatedAlignment(doc, i)
    BY <2>1 DEF Counted
  <2>3. pos = 24 + S[i]
    BY <1>1, <2>1, <2>2, SizesEmpty
  <2>4. i' - 1 = i
    BY <1>1, <2>1
  <2> QED BY <2>1, <2>2, <2>3, <2>4 DEF Counted
<1>10. CASE readTensorInfo
  <2> DEFINE k == InfoSize(doc.tensors[i])
  <2>1. i \in 1 .. n /\ verdict = "none" /\ stage = "tensors"
    BY <1>1, <1>10 DEF readTensorInfo, Typed
  <2>2. CASE Refuse
    BY <1>2, <2>2
  <2>3. CASE ~Refuse
    <3>1. pos' = pos + k /\ i' = i + 1
          /\ UNCHANGED <<doc, size, stage, work, alignment, verdict>>
      BY <1>10, <2>3 DEF readTensorInfo, Consume, InfoSize
    <3>2. R[i] = R[i - 1] + k /\ k \in Nat /\ R[i - 1] \in Nat
      BY <1>1, <2>1, InfoAdded
    <3>3. /\ pos = 24 + Total(PairSizes(doc)) + R[i - 1]
          /\ alignment = StatedAlignment(doc, m)
      BY <2>1 DEF Counted
    <3>4. Total(PairSizes(doc)) \in Nat /\ i' - 1 = i
      BY <1>1, <3>1, HeaderTyped
    <3>5. pos' = 24 + Total(PairSizes(doc)) + R[i]
      <4> HIDE DEF k, R
      <4> QED BY <3>1, <3>2, <3>3, <3>4
    <3> HIDE DEF k
    <3> QED BY <2>1, <3>1, <3>3, <3>4, <3>5 DEF Counted
  <2> QED BY <2>2, <2>3
<1>11. CASE tensorsRead
  <2>1. /\ stage = "tensors" /\ stage' = "bounds" /\ i > n /\ i <= n + 1 /\ verdict = "none"
        /\ UNCHANGED <<doc, size, work, pos, bytesRead, alignment, verdict>>
    BY <1>1, <1>11 DEF tensorsRead, Begin, Typed
  <2>2. i - 1 = n
    BY <1>1, <2>1
  <2>3. pos = 24 + Total(PairSizes(doc)) + R[n] /\ alignment = StatedAlignment(doc, m)
    BY <2>1, <2>2 DEF Counted
  <2>4. pos = HeaderSize(doc)
    BY <1>3, <2>3 DEF HeaderSize
  <2> QED BY <2>1, <2>3, <2>4 DEF Counted
<1>12. CASE checkTensorBounds
  <2>1. CASE Refuse
    BY <1>2, <2>1
  <2>2. CASE ~Refuse
    BY <1>12, <2>2 DEF checkTensorBounds, Counted, Typed
  <2> QED BY <2>1, <2>2
<1>13. CASE accept
  BY <1>13 DEF accept, Counted
<1>14. CASE UNCHANGED vars
  BY <1>14 DEF vars, Counted
<1>15. CASE verified
  BY <1>14, <1>15 DEF verified
<1> QED BY <1>4, <1>5, <1>6, <1>7, <1>8, <1>9, <1>10, <1>11, <1>12, <1>13, <1>14, <1>15 DEF Next

----------------------------------------------------------------------------
(* What is accepted.                                                       *)

LEMMA CheckedStep == Typed /\ Counted /\ Checked /\ [Next]_vars => Checked'
<1> SUFFICES ASSUME Typed, Counted, Checked, [Next]_vars PROVE Checked'
  OBVIOUS
<1>1. Len(doc.tensors) \in Nat /\ DOMAIN doc.tensors = 1 .. Len(doc.tensors) /\ doc \in Docs
      /\ i \in Nat \ {0}
  BY HeaderTyped DEF Typed
<1>2. ASSUME stage' \notin {"bounds", "done"} \/ verdict' = "refused", Typed'
      PROVE  Checked'
  BY <1>2 DEF Checked, Typed
<1>3. Typed'
  BY TypedStep
<1>4. CASE readGGUFFileHeader \/ readMetadataKey \/ metadataRead \/ readAlignment
           \/ skipGGUFMetadataValue \/ valueRead \/ readTensorInfo
  <2>1. stage' \notin {"bounds", "done"} \/ verdict' = "refused"
    BY <1>4 DEF readGGUFFileHeader, readMetadataKey, metadataRead, readAlignment, Begin,
                skipGGUFMetadataValue, valueRead, readTensorInfo, Refuse
  <2> QED BY <1>2, <1>3, <2>1
<1>5. CASE tensorsRead
  <2>1. i' = 1 /\ doc' = doc /\ verdict' = verdict /\ verdict # "ok"
    BY <1>5 DEF tensorsRead, Begin, Typed
  <2> QED BY <1>1, <2>1 DEF Checked
<1>6. CASE checkTensorBounds
  <2>1. CASE verdict' = "refused"
    BY <1>2, <1>3, <2>1
  <2>2. CASE verdict' # "refused"
    <3>1. /\ stage = "bounds" /\ i \in 1 .. Len(doc.tensors) /\ i' = i + 1 /\ verdict = "none"
          /\ ~(Known(doc.tensors[i]) /\ endOffset(doc.tensors[i]) > size)
          /\ UNCHANGED <<doc, size, stage, work, pos, bytesRead, alignment, verdict>>
      BY <1>1, <1>6, <2>2 DEF checkTensorBounds, Refuse, Typed
    <3>2. ASSUME Plain(doc), Known(doc.tensors[i]) PROVE Within(doc.tensors[i])
      <4> DEFINE t == doc.tensors[i]
      <4>1. /\ bytesRead = HeaderSize(doc)
            /\ alignment = StatedAlignment(doc, Len(doc.metadata))
        BY <3>1 DEF Typed, Counted
      <4>2. endOffset(t) = doc.dataStart + t.offset + t.bytes
            /\ {doc.dataStart, t.offset, t.bytes} \subseteq Nat
        BY <1>1, <3>1, <3>2, <4>1, DataFound
      <4>3. ~(endOffset(t) > size) /\ size \in Nat
        BY <3>1, <3>2 DEF Typed
      <4>4. doc.dataStart + t.offset + t.bytes \in Nat
        BY <4>2
      <4> HIDE DEF t
      <4>5. doc.dataStart + t.offset + t.bytes <= size
        BY <4>2, <4>3, <4>4
      <4> QED BY <4>5 DEF Within, t
    <3>3. ASSUME Plain(doc), NEW k \in 1 .. Len(doc.tensors), k < i + 1, Known(doc.tensors[k])
          PROVE  Within(doc.tensors[k])
      <4>1. CASE k = i
        BY <3>2, <3>3, <4>1
      <4>2. CASE k # i
        <5>1. k < i
          BY <1>1, <3>3, <4>2
        <5> QED BY <3>1, <3>3, <5>1 DEF Checked
      <4> QED BY <4>1, <4>2
    <3> QED BY <3>1, <3>3 DEF Checked, Within
  <2> QED BY <2>1, <2>2
<1>7. CASE accept
  <2>1. /\ stage = "bounds" /\ i > Len(doc.tensors) /\ doc' = doc /\ size' = size
    BY <1>1, <1>7 DEF accept, Typed
  <2>2. ASSUME Plain(doc), NEW k \in 1 .. Len(doc.tensors), Known(doc.tensors[k])
        PROVE  Within(doc.tensors[k])
    <3>1. k < i
      BY <1>1, <2>1
    <3> QED BY <2>1, <2>2, <3>1 DEF Checked
  <2> QED BY <2>1, <2>2 DEF Checked, Within
<1>8. CASE UNCHANGED vars
  BY <1>8 DEF vars, Checked, Within
<1>9. CASE verified
  BY <1>8, <1>9 DEF verified
<1> QED BY <1>4, <1>5, <1>6, <1>7, <1>8, <1>9 DEF Next

(* AcceptedFits for any number of pairs, nested values and tensors, words  *)
(* of any width, and a file that is cut off anywhere: what the reader has  *)
(* counted by hand brings it to the start of the data, and it takes no     *)
(* tensor of a known type whose data the file does not hold.               *)
THEOREM AcceptedIsWhole == Spec => []AcceptedFits
<1>1. Init => Checked
  BY DEF Init, Checked
<1>2. Typed /\ Checked => AcceptedFits
  <2> SUFFICES ASSUME Typed, Checked PROVE AcceptedFits
    OBVIOUS
  <2>1. DOMAIN doc.tensors = 1 .. Len(doc.tensors)
    BY HeaderTyped DEF Typed
  <2> QED BY <2>1 DEF Checked, AcceptedFits
<1> QED BY TypedInit, TypedStep, CountedInit, CountedStep, CheckedStep, <1>1, <1>2, PTL DEF Spec

----------------------------------------------------------------------------
(* What is not refused.                                                    *)

(* What is read next ends within the header, and so within the file.       *)
LEMMA NextFits ==
    ASSUME NEW p \in Nat, NEW k \in Nat, NEW rest \in Nat, NEW end \in Nat,
           NEW h \in Nat, NEW length \in Nat,
           p + k + rest = end, end <= h, h <= length
    PROVE  p + k <= length
OBVIOUS

LEMMA ContinuedStep == Typed /\ Counted /\ Continued /\ [Next]_vars => Continued'
<1> SUFFICES ASSUME Typed, Counted, Continued, [Next]_vars PROVE Continued'
  OBVIOUS
<1>1. /\ doc \in Docs /\ i \in Nat \ {0} /\ pos \in Nat /\ size \in Nat
      /\ Len(doc.metadata) \in Nat /\ DOMAIN doc.metadata = 1 .. Len(doc.metadata)
      /\ Len(doc.tensors) \in Nat /\ DOMAIN doc.tensors = 1 .. Len(doc.tensors)
      /\ HeaderSize(doc) \in Nat
  BY HeaderTyped DEF Typed
<1>2. doc' = doc /\ size' = size
  BY DEF Next, vars, readGGUFFileHeader, readMetadataKey, metadataRead, readAlignment, Begin,
         skipGGUFMetadataValue, valueRead, readTensorInfo, tensorsRead, checkTensorBounds,
         accept, verified, Refuse
<1> SUFFICES ASSUME doc.wellFormed, size = doc.end
             PROVE  verdict' # "refused" /\ work' \in Seq(GoodValues)
  BY <1>2 DEF Continued
<1>3. WellFormed(doc) /\ HeaderSize(doc) <= size
  BY <1>1, DocsWellFormed DEF WellFormed
<1>4. verdict # "refused" /\ work \in Seq(GoodValues)
  BY DEF Continued
<1>5. GoodValues \subseteq Values /\ \A v \in GoodValues : ValueOK(v) /\ v.items \in Seq(GoodValues)
  BY ValuesGood
<1>6. CASE readGGUFFileHeader
  <2>1. pos = 0 /\ 24 <= HeaderSize(doc)
    BY <1>1, <1>6, SumsBegin DEF readGGUFFileHeader, Counted
  <2>2. ReadFull(24)
    BY <1>1, <1>3, <2>1 DEF ReadFull
  <2> QED BY <1>3, <1>4, <1>6, <2>2 DEF readGGUFFileHeader, WellFormed
<1>7. CASE readMetadataKey
  <2> DEFINE kv == doc.metadata[i]
             k == StringSize(kv.keyLen) + 4
             S == SumTo(PairSizes(doc))
  <2>1. i \in 1 .. Len(doc.metadata) /\ stage = "metadata"
    BY <1>1, <1>7 DEF readMetadataKey, Typed
  <2>2. StringOK(kv.keyLen) /\ kv.value \in GoodValues
    BY <1>1, <1>3, <2>1 DEF WellFormed
  <2>3. ReadFull(k)
    <3>1. /\ kv.keyLen \in Nat /\ Encoded[kv.value] \in Nat /\ S[i - 1] \in Nat /\ S[i] \in Nat
          /\ S[i] = S[i - 1] + k + Encoded[kv.value] /\ 24 + S[i] <= HeaderSize(doc)
      BY <1>1, <2>1, PairAdded
    <3>2. pos = 24 + S[i - 1]
      BY <2>1 DEF Counted
    <3>3. k \in Nat
      <4>1. PICK x \in Nat : x = kv.keyLen
        BY <3>1
      <4>2. k = (8 + x) + 4
        BY <4>1 DEF StringSize
      <4> HIDE DEF k
      <4> QED BY <4>2
    <3> HIDE DEF k, S, kv
    <3>4. PICK a \in Nat, b \in Nat, c \in Nat :
            a = S[i - 1] /\ b = Encoded[kv.value] /\ c = S[i]
      BY <3>1
    <3>5. c = a + k + b /\ pos = 24 + a /\ 24 + c <= HeaderSize(doc)
      BY <3>1, <3>2, <3>4, Zenon
    <3>6. pos + k + b = 24 + c /\ 24 + c \in Nat
      BY <3>3, <3>5
    <3>7. pos + k <= size
      BY <1>1, <1>3, <3>3, <3>5, <3>6, NextFits
    <3> QED BY <3>7 DEF ReadFull
  <2>4. work' = <<kv.value>> /\ verdict' = verdict
    BY <1>7, <2>2, <2>3 DEF readMetadataKey
  <2> QED BY <1>4, <2>2, <2>4
<1>8. CASE readAlignment
  <2> DEFINE v == Head(work)
             k == FixedWidth[v.type]
             S == SumTo(PairSizes(doc))
  <2>1. work # <<>> /\ i \in 1 .. Len(doc.metadata) /\ stage = "value" /\ work \in Seq(Values)
    BY <1>1, <1>8 DEF readAlignment, Typed
  <2>2. v \in Values /\ Tail(work) \in Seq(GoodValues)
        /\ Total(Sizes(work)) = Encoded[v] + Total(Sizes(Tail(work)))
        /\ Total(Sizes(Tail(work))) \in Nat
    BY <1>4, <2>1, HeadTailProperties, SizesHead, SizesTyped
  <2>3. v.type \in {ggufTypeUint32, ggufTypeUint64}
    BY <1>8 DEF readAlignment, IsAlignment
  <2>4. Encoded[v] = k + Total(Sizes(v.items)) /\ k \in Nat /\ Total(Sizes(v.items)) \in Nat
    BY <2>2, <2>3, AlignmentFacts, ValueFacts
  <2>5. ReadFull(k)
    <3>1. pos + Total(Sizes(work)) = 24 + S[i]
      BY <2>1 DEF Counted
    <3>2. S[i] \in Nat /\ 24 + S[i] <= HeaderSize(doc)
      BY <1>1, <2>1, PairAdded
    <3> DEFINE rest == Total(Sizes(v.items)) + Total(Sizes(Tail(work)))
    <3>3. rest \in Nat /\ 24 + S[i] \in Nat
      <4>1. PICK a \in Nat, b \in Nat, c \in Nat :
              a = Total(Sizes(v.items)) /\ b = Total(Sizes(Tail(work))) /\ c = S[i]
        BY <2>2, <2>4, <3>2
      <4>2. rest = a + b /\ 24 + S[i] = 24 + c
        BY <4>1
      <4> HIDE DEF rest, S
      <4> QED BY <4>2
    <3>4. Total(Sizes(work)) = k + rest
      <4>1. PICK a \in Nat, b \in Nat :
              a = Total(Sizes(v.items)) /\ b = Total(Sizes(Tail(work)))
        BY <2>2, <2>4
      <4>2. Total(Sizes(work)) = (k + a) + b /\ rest = a + b
        BY <2>2, <2>4, <4>1, Zenon
      <4> HIDE DEF k, rest
      <4> QED BY <2>4, <4>2
    <3> HIDE DEF k, S, v, rest
    <3>5. pos + k + rest = 24 + S[i]
      BY <1>1, <2>4, <3>1, <3>3, <3>4
    <3>6. pos + k <= size
      <4>1. PICK e \in Nat, h \in Nat : e = 24 + S[i] /\ h = HeaderSize(doc)
        BY <1>1, <3>3
      <4>2. pos + k + rest = e /\ e <= h /\ h <= size
        BY <1>3, <3>2, <3>5, <4>1, Zenon
      <4> QED BY <1>1, <2>4, <3>3, <4>2, NextFits
    <3> QED BY <3>6 DEF ReadFull
  <2>6. work' = Tail(work) /\ verdict' = verdict
    BY <1>8, <2>5 DEF readAlignment
  <2> QED BY <1>4, <2>2, <2>6
<1>9. CASE skipGGUFMetadataValue
  <2> DEFINE v == Head(work)
             k == ValueSize(v)
             S == SumTo(PairSizes(doc))
  <2>1. work # <<>> /\ i \in 1 .. Len(doc.metadata) /\ stage = "value" /\ work \in Seq(Values)
    BY <1>1, <1>9 DEF skipGGUFMetadataValue, Typed
  <2>2. /\ v \in GoodValues /\ Tail(work) \in Seq(GoodValues)
        /\ Total(Sizes(work)) = Encoded[v] + Total(Sizes(Tail(work)))
        /\ Total(Sizes(Tail(work))) \in Nat
    BY <1>4, <2>1, HeadTailProperties, SizesHead, SizesTyped
  <2>3. v \in Values /\ ValueOK(v) /\ v.items \in Seq(GoodValues)
    BY <1>5, <2>2
  <2>4. Encoded[v] = k + Total(Sizes(v.items)) /\ k \in Nat /\ Total(Sizes(v.items)) \in Nat
    BY <2>3, ValueFacts
  <2>5. ReadFull(k)
    <3>1. pos + Total(Sizes(work)) = 24 + S[i]
      BY <2>1 DEF Counted
    <3>2. S[i] \in Nat /\ 24 + S[i] <= HeaderSize(doc)
      BY <1>1, <2>1, PairAdded
    <3> DEFINE rest == Total(Sizes(v.items)) + Total(Sizes(Tail(work)))
    <3>3. rest \in Nat /\ 24 + S[i] \in Nat
      <4>1. PICK a \in Nat, b \in Nat, c \in Nat :
              a = Total(Sizes(v.items)) /\ b = Total(Sizes(Tail(work))) /\ c = S[i]
        BY <2>2, <2>4, <3>2
      <4>2. rest = a + b /\ 24 + S[i] = 24 + c
        BY <4>1
      <4> HIDE DEF rest, S
      <4> QED BY <4>2
    <3>4. Total(Sizes(work)) = k + rest
      <4>1. PICK a \in Nat, b \in Nat :
              a = Total(Sizes(v.items)) /\ b = Total(Sizes(Tail(work)))
        BY <2>2, <2>4
      <4>2. Total(Sizes(work)) = (k + a) + b /\ rest = a + b
        BY <2>2, <2>4, <4>1, Zenon
      <4> HIDE DEF k, rest
      <4> QED BY <2>4, <4>2
    <3> HIDE DEF k, S, v, rest
    <3>5. pos + k + rest = 24 + S[i]
      BY <1>1, <2>4, <3>1, <3>3, <3>4
    <3>6. pos + k <= size
      <4>1. PICK e \in Nat, h \in Nat : e = 24 + S[i] /\ h = HeaderSize(doc)
        BY <1>1, <3>3
      <4>2. pos + k + rest = e /\ e <= h /\ h <= size
        BY <1>3, <3>2, <3>5, <4>1, Zenon
      <4> QED BY <1>1, <2>4, <3>3, <4>2, NextFits
    <3> QED BY <3>6 DEF ReadFull
  <2>6. work' = v.items \o Tail(work) /\ verdict' = verdict
    BY <1>9, <2>3, <2>5 DEF skipGGUFMetadataValue
  <2>7. work' \in Seq(GoodValues)
    BY <2>2, <2>3, <2>6, ConcatProperties
  <2> QED BY <1>4, <2>6, <2>7
<1>10. CASE readTensorInfo
  <2> DEFINE t == doc.tensors[i]
             k == InfoSize(t)
             R == SumTo(InfoSizes(doc))
  <2>1. i \in 1 .. Len(doc.tensors) /\ stage = "tensors"
    <3>1. stage = "tensors" /\ i <= doc.tensorCount
      BY <1>10 DEF readTensorInfo
    <3>2. doc.tensorCount = Len(doc.tensors)
      BY <3>1 DEF Typed
    <3> QED BY <1>1, <3>1, <3>2
  <2>2. StringOK(t.nameLen) /\ Len(t.dims) <= MaxDims
    BY <1>1, <1>3, <2>1 DEF WellFormed
  <2>3. ReadFull(k)
    <3>1. /\ R[i] = R[i - 1] + k /\ k \in Nat /\ R[i - 1] \in Nat
          /\ 24 + Total(PairSizes(doc)) + R[i] <= HeaderSize(doc)
      BY <1>1, <2>1, InfoAdded
    <3>2. pos = 24 + Total(PairSizes(doc)) + R[i - 1] /\ Total(PairSizes(doc)) \in Nat
      BY <1>1, <2>1, HeaderTyped DEF Counted
    <3> HIDE DEF k, R
    <3>3. PICK a \in Nat, b \in Nat : a = R[i - 1] /\ b = Total(PairSizes(doc))
      BY <3>1, <3>2
    <3>5. pos = 24 + b + a /\ 24 + b + (a + k) <= HeaderSize(doc)
      BY <3>1, <3>2, <3>3, Zenon
    <3>6. pos + k + 0 = 24 + b + (a + k) /\ 24 + b + (a + k) \in Nat
      BY <3>1, <3>5
    <3>4. pos + k <= size
      BY <1>1, <1>3, <3>1, <3>5, <3>6, NextFits
    <3> QED BY <3>4 DEF ReadFull
  <2> QED BY <1>4, <1>10, <2>2, <2>3 DEF readTensorInfo, InfoSize
<1>11. CASE checkTensorBounds
  <2> DEFINE t == doc.tensors[i]
  <2>1. i \in 1 .. Len(doc.tensors) /\ stage = "bounds"
    <3>1. stage = "bounds" /\ i <= doc.tensorCount
      BY <1>11 DEF checkTensorBounds
    <3>2. doc.tensorCount = Len(doc.tensors)
      BY <3>1 DEF Typed
    <3> QED BY <1>1, <3>1, <3>2
  <2>2. ASSUME Known(t) PROVE ~(endOffset(t) > size)
    <3>1. bytesRead = HeaderSize(doc) /\ alignment = StatedAlignment(doc, Len(doc.metadata))
      BY <2>1 DEF Typed, Counted
    <3>2. Plain(doc) /\ doc.dataStart + t.offset + t.bytes <= doc.end
      BY <1>1, <1>3, <2>1, <2>2 DEF WellFormed
    <3>3. endOffset(t) = doc.dataStart + t.offset + t.bytes
          /\ {doc.dataStart, t.offset, t.bytes} \subseteq Nat
      BY <1>1, <2>1, <2>2, <3>1, <3>2, DataFound
    <3>4. endOffset(t) <= size /\ endOffset(t) \in Nat
      <4>1. doc.dataStart + t.offset + t.bytes \in Nat
        BY <3>3
      <4> QED BY <3>2, <3>3, <4>1
    <3> QED BY <1>1, <3>4
  <2> QED BY <1>4, <1>11, <2>2 DEF checkTensorBounds
<1>12. CASE metadataRead \/ valueRead \/ tensorsRead \/ accept \/ verified \/ UNCHANGED vars
  BY <1>4, <1>12 DEF metadataRead, valueRead, tensorsRead, accept, verified, vars, Begin
<1> QED BY <1>6, <1>7, <1>8, <1>9, <1>10, <1>11, <1>12 DEF Next

(* WholeAccepted for every file that keeps within the limits of the        *)
(* reader: whatever is nested in its metadata, the reader skips it to the  *)
(* byte, and neither runs out of the file nor misses the data.             *)
THEOREM WholeIsAccepted == Spec => []WholeAccepted
<1>1. Init => Continued
  BY DEF Init, Continued
<1>2. Continued => WholeAccepted
  BY DEF Continued, WholeAccepted
<1> QED BY TypedInit, TypedStep, CountedInit, CountedStep, ContinuedStep, <1>1, <1>2, PTL DEF Spec
============================================================================
