----------------------------- MODULE QueueLemmas -----------------------------
(***************************************************************************)
(* Facts about the queues of this code: Python deques and lists of waiters *)
(* from which an element is removed wherever it stands.                    *)
(***************************************************************************)
EXTENDS Integers, Sequences, FiniteSets, SequencesExt, SequenceTheorems, FiniteSetTheorems, WellFoundedInduction, TLAPS

\* Removing the element at position k keeps the others, in their order.
LEMMA RemoveAtProperties ==
  ASSUME NEW S, NEW s \in Seq(S), NEW k \in DOMAIN s
  PROVE  /\ RemoveAt(s, k) \in Seq(S)
         /\ DOMAIN RemoveAt(s, k) = 1..Len(s) - 1
         /\ \A i \in 1..Len(s) - 1 : RemoveAt(s, k)[i] = IF i < k THEN s[i] ELSE s[i + 1]
<1> DEFINE a == SubSeq(s, 1, k - 1)
           b == SubSeq(s, k + 1, Len(s))
<1>1. k \in 1..Len(s) /\ Len(s) \in Nat /\ \A i \in 1..Len(s) : s[i] \in S
  BY LenProperties, ElementOfSeq
<1>2. a \in Seq(S) /\ Len(a) = k - 1 /\ \A i \in 1..k - 1 : a[i] = s[i]
  <2>1. \A i \in 1..k - 1 : s[i] \in S
    BY <1>1
  <2> QED
    BY <1>1, <2>1, SubSeqProperties
<1>3. b \in Seq(S) /\ Len(b) = Len(s) - k /\ \A i \in 1..Len(s) - k : b[i] = s[k + i]
  <2>1. \A i \in k + 1..Len(s) : s[i] \in S
    BY <1>1
  <2>2. /\ b \in Seq(S)
        /\ Len(b) = IF k + 1 <= Len(s) THEN Len(s) - (k + 1) + 1 ELSE 0
        /\ \A i \in 1..Len(s) - (k + 1) + 1 : b[i] = s[(k + 1) + i - 1]
    BY <1>1, <2>1, SubSeqProperties
  <2> HIDE DEF b
  <2> QED
    BY <1>1, <2>2
<1>4. RemoveAt(s, k) = a \o b
  BY DEF RemoveAt
<1> HIDE DEF a, b
<1>5. /\ a \o b \in Seq(S)
      /\ Len(a \o b) = Len(a) + Len(b)
      /\ \A i \in 1..Len(a) + Len(b) :
           (a \o b)[i] = IF i <= Len(a) THEN a[i] ELSE b[i - Len(a)]
  BY <1>2, <1>3, ConcatProperties
<1>6. DOMAIN (a \o b) = 1..Len(s) - 1
  BY <1>1, <1>2, <1>3, <1>5, LenProperties, SMTT(60)
<1>7. ASSUME NEW i \in 1..Len(s) - 1
      PROVE  (a \o b)[i] = IF i < k THEN s[i] ELSE s[i + 1]
  <2>1. (a \o b)[i] = IF i <= k - 1 THEN a[i] ELSE b[i - (k - 1)]
    <3>1. Len(a) + Len(b) = Len(s) - 1 /\ Len(a) = k - 1
      BY <1>1, <1>2, <1>3
    <3>2. i \in 1..Len(a) + Len(b)
      BY <3>1
    <3>3. (a \o b)[i] = IF i <= Len(a) THEN a[i] ELSE b[i - Len(a)]
      BY <1>5, <3>2
    <3> QED
      BY <3>1, <3>3
  <2>2. CASE i < k
    BY <1>1, <1>2, <2>1, <2>2
  <2>3. CASE ~(i < k)
    <3>1. i - (k - 1) \in 1..Len(s) - k /\ k + (i - (k - 1)) = i + 1
      BY <1>1, <2>3
    <3>2. (a \o b)[i] = b[i - (k - 1)]
      BY <1>1, <2>1, <2>3
    <3> QED
      BY <1>3, <2>3, <3>1, <3>2
  <2> QED
    BY <2>2, <2>3
<1>8. QED
  BY <1>4, <1>5, <1>6, <1>7

\* An element removed from a queue without duplicates is gone, the others stay,
\* and there are still no duplicates.
LEMMA RemoveAtDistinct ==
  ASSUME NEW S, NEW s \in Seq(S), NEW k \in DOMAIN s,
         \A i, j \in DOMAIN s : s[i] = s[j] => i = j
  PROVE  LET r == RemoveAt(s, k) IN
         /\ \A i, j \in DOMAIN r : r[i] = r[j] => i = j
         /\ {r[i] : i \in DOMAIN r} = {s[i] : i \in DOMAIN s} \ {s[k]}
<1> DEFINE r == RemoveAt(s, k)
<1>1. Len(s) \in Nat /\ DOMAIN s = 1..Len(s)
  BY LenProperties
<1>2. DOMAIN r = 1..Len(s) - 1 /\ \A i \in 1..Len(s) - 1 : r[i] = IF i < k THEN s[i] ELSE s[i + 1]
  BY RemoveAtProperties
<1> HIDE DEF r
<1>3. ASSUME NEW i \in DOMAIN r, NEW j \in DOMAIN r, r[i] = r[j]
      PROVE  i = j
  <2> DEFINE at(n) == IF n < k THEN n ELSE n + 1
  <2>1. at(i) \in DOMAIN s /\ at(j) \in DOMAIN s /\ s[at(i)] = s[at(j)]
    BY <1>1, <1>2, <1>3
  <2>2. at(i) = at(j)
    BY <2>1
  <2> QED
    BY <1>1, <1>2, <2>2
<1>4. ASSUME NEW i \in DOMAIN r
      PROVE  r[i] \in {s[j] : j \in DOMAIN s} \ {s[k]}
  <2>1. CASE i < k
    BY <1>1, <1>2, <2>1
  <2>2. CASE ~(i < k)
    <3>1. i + 1 \in DOMAIN s /\ i + 1 # k /\ r[i] = s[i + 1]
      BY <1>1, <1>2, <2>2
    <3> QED
      BY <3>1
  <2> QED
    BY <2>1, <2>2
<1>5. ASSUME NEW j \in DOMAIN s, j # k
      PROVE  s[j] \in {r[i] : i \in DOMAIN r}
  <2>1. CASE j < k
    <3>1. j \in DOMAIN r /\ r[j] = s[j]
      BY <1>1, <1>2, <2>1
    <3> QED
      BY <3>1
  <2>2. CASE j > k
    <3>1. j - 1 \in DOMAIN r /\ r[j - 1] = s[j]
      BY <1>1, <1>2, <2>2
    <3> QED
      BY <3>1
  <2> QED
    BY <1>1, <1>5, <2>1, <2>2
<1>6. {r[i] : i \in DOMAIN r} = {s[i] : i \in DOMAIN s} \ {s[k]}
  BY <1>4, <1>5
<1>7. QED
  BY <1>3, <1>6 DEF r

\* Appending an element that was not in a queue without duplicates.
LEMMA AppendDistinct ==
  ASSUME NEW S, NEW s \in Seq(S), NEW e \in S,
         \A i, j \in DOMAIN s : s[i] = s[j] => i = j,
         e \notin {s[i] : i \in DOMAIN s}
  PROVE  LET r == Append(s, e) IN
         /\ r \in Seq(S)
         /\ \A i, j \in DOMAIN r : r[i] = r[j] => i = j
         /\ {r[i] : i \in DOMAIN r} = {s[i] : i \in DOMAIN s} \union {e}
<1> DEFINE r == Append(s, e)
<1>1. Len(s) \in Nat /\ DOMAIN s = 1..Len(s)
  BY LenProperties
<1>2. /\ r \in Seq(S) /\ Len(r) = Len(s) + 1
      /\ \A i \in 1..Len(s) : r[i] = s[i]
      /\ r[Len(s) + 1] = e
  BY AppendProperties
<1>3. DOMAIN r = 1..Len(s) + 1
  BY <1>2, LenProperties
<1> HIDE DEF r
<1>4. \A i, j \in DOMAIN r : r[i] = r[j] => i = j
  BY <1>1, <1>2, <1>3
<1>5. {r[i] : i \in DOMAIN r} \subseteq {s[i] : i \in DOMAIN s} \union {e}
  BY <1>1, <1>2, <1>3
<1>6. {s[i] : i \in DOMAIN s} \subseteq {r[i] : i \in DOMAIN r}
  <2>1. ASSUME NEW i \in DOMAIN s PROVE i \in DOMAIN r /\ r[i] = s[i]
    BY <1>1, <1>2, <1>3
  <2> QED
    BY <2>1
<1>7. Len(s) + 1 \in DOMAIN r
  BY <1>1, <1>3
<1>8. QED
  BY <1>2, <1>4, <1>5, <1>6, <1>7 DEF r
-----------------------------------------------------------------------------
\* Every set of natural numbers that is not empty has a least one: the order of
\* the naturals is well-founded, and a set, unlike a predicate, can be named.
LEMMA LeastNatural ==
  ASSUME NEW S, S \subseteq Nat, S # {}
  PROVE  \E m \in S : \A n \in S : m <= n
<1> DEFINE R == OpToRel(<, Nat)
<1>1. IsWellFoundedOn(R, Nat)
  BY NatLessThanWellFounded
<1>2. PICK m \in S : \A n \in S : ~(<<n, m>> \in R)
  <2> HIDE DEF R
  <2> QED
    BY <1>1, WFMin
<1>3. ASSUME NEW k \in Nat, NEW n \in Nat, n < k
      PROVE  <<n, k>> \in R
  <2>1. R = {ss \in Nat \X Nat : ss[1] < ss[2]}
    BY Zenon DEF OpToRel
  <2> QED
    BY <1>3, <2>1
<1> HIDE DEF R
<1>4. \A n \in S : ~(n < m)
  BY <1>2, <1>3
<1>5. \A n \in S : m <= n
  BY <1>4
<1> QED
  BY <1>5

LEMMA MinOfNaturals ==
  ASSUME NEW S, S \subseteq Nat, S # {}
  PROVE  Min(S) \in S /\ \A n \in S : Min(S) <= n
BY LeastNatural DEF Min

LEMMA GreatestUpTo ==
  ASSUME NEW S, NEW N \in Nat, S \subseteq 1..N, S # {}
  PROVE  \E m \in S : \A n \in S : n <= m
<1> DEFINE T == {N - i : i \in S}
<1>0. \A i \in S : i \in Nat /\ N - i \in Nat
  OBVIOUS
<1>1. T \subseteq Nat /\ T # {}
  BY <1>0
<1> HIDE DEF T
<1>2. PICK t \in T : \A u \in T : t <= u
  BY <1>1, LeastNatural
<1>3. PICK m \in S : t = N - m
  BY DEF T
<1>4. \A n \in S : N - n \in T
  BY DEF T
<1>5. ASSUME NEW n \in S
      PROVE  n <= m
  <2>1. N - m <= N - n
    BY <1>2, <1>3, <1>4
  <2>2. n \in Nat /\ m \in Nat
    BY <1>0
  <2> QED
    BY <2>1, <2>2
<1> QED
  BY <1>5

\* The first n places of a set of places, which those before a place count.
FirstFew(S, n) == {i \in S : Cardinality({j \in S : j < i}) < n}

LEMMA FirstFewProperties ==
  ASSUME NEW N \in Nat, NEW S, S \subseteq 1..N, NEW n \in Nat
  PROVE  LET F == FirstFew(S, n) IN
         /\ IsFiniteSet(F) /\ Cardinality(F) \in Nat /\ Cardinality(F) <= n
         /\ S \ F # {} => Cardinality(F) = n
         /\ \A i \in F, j \in S \ F : i < j
<1> DEFINE Before(i) == {j \in S : j < i}
           F == FirstFew(S, n)
<1>0. S \subseteq Nat
  OBVIOUS
<1>1. IsFiniteSet(S)
  <2>1. IsFiniteSet(1..N)
    BY FS_Interval
  <2> QED
    BY <2>1, FS_Subset
<1>2. \A i \in S : Before(i) \subseteq S /\ IsFiniteSet(Before(i)) /\ Cardinality(Before(i)) \in Nat
  BY <1>1, FS_Subset, FS_CardinalityType
<1>3. \A i : i \in F <=> i \in S /\ Cardinality(Before(i)) < n
  BY DEF FirstFew
<1>4. F \subseteq S /\ IsFiniteSet(F) /\ Cardinality(F) \in Nat
  <2>1. F \subseteq S
    BY <1>3
  <2> HIDE DEF F
  <2> QED
    BY <1>1, <2>1, FS_Subset, FS_CardinalityType
<1>5. \A x : \A y \in Before(x) : y \in S /\ y < x
  OBVIOUS
<1>6. \A x : \A y \in S : y < x => y \in Before(x)
  OBVIOUS
<1> HIDE DEF F, Before
<1>7. ASSUME NEW i \in F, NEW j \in S \ F
      PROVE  i < j
  <2>1. i \in Nat /\ j \in Nat /\ i \in S /\ j \in S /\ i # j
    BY <1>0, <1>4
  <2>2. SUFFICES ASSUME j < i PROVE FALSE
    BY <2>1
  <2>3. Before(j) \subseteq Before(i)
    <3>1. ASSUME NEW y \in Before(j) PROVE y \in Before(i)
      <4>1. y \in S /\ y < j /\ y \in Nat
        BY <1>0, <1>5
      <4>2. y < i
        BY <2>1, <2>2, <4>1
      <4> QED
        BY <1>6, <4>1, <4>2
    <3> QED
      BY <3>1
  <2>4. Cardinality(Before(j)) <= Cardinality(Before(i))
    BY <1>2, <2>1, <2>3, FS_Subset
  <2>5. Cardinality(Before(i)) < n /\ ~(Cardinality(Before(j)) < n)
    BY <1>3, <2>1
  <2>6. Cardinality(Before(i)) \in Nat /\ Cardinality(Before(j)) \in Nat
    BY <1>2, <2>1
  <2> QED
    BY <2>4, <2>5, <2>6
<1>8. Cardinality(F) <= n
  <2>1. CASE F = {}
    BY <2>1, FS_EmptySet
  <2>2. CASE F # {}
    <3>0. F \subseteq 1..N
      BY <1>4
    <3>1. PICK x \in F : \A i \in F : i <= x
      BY <3>0, <2>2, GreatestUpTo
    <3>2. x \in S /\ x \in Nat
      BY <1>0, <1>4
    <3>3. F \subseteq Before(x) \union {x}
      <4>1. ASSUME NEW y \in F, y # x PROVE y \in Before(x)
        <5>1. y \in S /\ y \in Nat /\ y <= x
          BY <1>0, <1>4, <3>1
        <5>2. y < x
          BY <3>2, <4>1, <5>1
        <5> QED
          BY <1>6, <5>1, <5>2
      <4> QED
        BY <4>1
    <3>4. x \notin Before(x)
      BY <1>5, <3>2
    <3>5. /\ IsFiniteSet(Before(x) \union {x})
          /\ Cardinality(Before(x) \union {x}) = Cardinality(Before(x)) + 1
      BY <1>2, <3>2, <3>4, FS_AddElement
    <3>6. Cardinality(F) <= Cardinality(Before(x)) + 1
      BY <3>3, <3>5, FS_Subset
    <3>7. Cardinality(Before(x)) < n /\ Cardinality(Before(x)) \in Nat
      BY <1>2, <1>3, <3>2
    <3> QED
      BY <1>4, <3>6, <3>7
  <2> QED
    BY <2>1, <2>2
<1>9. ASSUME S \ F # {}
      PROVE  Cardinality(F) = n
  <2>1. S \ F \subseteq Nat
    BY <1>0
  <2>2. PICK m \in S \ F : \A j \in S \ F : m <= j
    BY <1>9, <2>1, LeastNatural
  <2>3. Before(m) \subseteq F
    <3>1. ASSUME NEW y \in Before(m), y \notin F PROVE FALSE
      <4>1. y \in S /\ y < m /\ y \in Nat /\ m \in Nat
        BY <1>0, <1>5
      <4>2. m <= y
        BY <2>2, <3>1, <4>1
      <4> QED
        BY <4>1, <4>2
    <3> QED
      BY <3>1
  <2>4. Cardinality(Before(m)) <= Cardinality(F)
    BY <1>4, <2>3, FS_Subset
  <2>5. ~(Cardinality(Before(m)) < n) /\ Cardinality(Before(m)) \in Nat
    BY <1>2, <1>3
  <2> QED
    BY <1>4, <1>8, <2>4, <2>5
<1> QED
  BY <1>4, <1>7, <1>8, <1>9 DEF F

\* The end of a sequence.
LEMMA SuffixProperties ==
  ASSUME NEW S, NEW s \in Seq(S), NEW k \in DOMAIN s
  PROVE  LET r == SubSeq(s, k, Len(s)) IN
         /\ r \in Seq(S)
         /\ DOMAIN r = 1..(Len(s) - k + 1)
         /\ \A i \in 1..(Len(s) - k + 1) : r[i] = s[k + i - 1]
<1>1. k \in 1..Len(s) /\ Len(s) \in Nat /\ \A i \in k..Len(s) : s[i] \in S
  BY LenProperties, ElementOfSeq
<1> DEFINE r == SubSeq(s, k, Len(s))
<1>2. /\ r \in Seq(S)
      /\ Len(r) = IF k <= Len(s) THEN Len(s) - k + 1 ELSE 0
      /\ \A i \in 1..Len(s) - k + 1 : r[i] = s[k + i - 1]
  BY <1>1, SubSeqProperties
<1> HIDE DEF r
<1>3. DOMAIN r = 1..(Len(s) - k + 1)
  BY <1>1, <1>2, LenProperties
<1> QED
  BY <1>2, <1>3 DEF r

\* The first occurrence of an element, removed.
LEMMA RemoveFirstProperties ==
  ASSUME NEW S, NEW s \in Seq(S), NEW e
  PROVE  \/ (\A i \in DOMAIN s : s[i] # e) /\ RemoveFirst(s, e) = s
         \/ \E k \in DOMAIN s : s[k] = e /\ RemoveFirst(s, e) = RemoveAt(s, k)
<1>1. DOMAIN s = 1..Len(s) /\ Len(s) \in Nat
  BY LenProperties
<1>2. CASE \A i \in 1..Len(s) : s[i] # e
  BY <1>1, <1>2 DEF RemoveFirst
<1>3. CASE \E i \in 1..Len(s) : s[i] = e
  <2> DEFINE I == {i \in 1..Len(s) : s[i] = e}
  <2>1. SelectInSeq(s, LAMBDA v : v = e) = Min(I)
    BY <1>3, Zenon DEF SelectInSeq
  <2>2. I \subseteq Nat /\ I # {} /\ (\A i \in I : i \in DOMAIN s /\ s[i] = e)
    BY <1>1, <1>3
  <2> HIDE DEF I
  <2>3. Min(I) \in I
    BY <2>2, MinOfNaturals
  <2>4. RemoveFirst(s, e) = RemoveAt(s, Min(I))
    BY <1>3, <2>1, Zenon DEF RemoveFirst
  <2> QED
    BY <2>2, <2>3, <2>4
<1> QED
  BY <1>2, <1>3

\* A sequence cut in two.
LEMMA CutProperties ==
  ASSUME NEW S, NEW s \in Seq(S), NEW n \in 0..Len(s)
  PROVE  LET a == SubSeq(s, 1, n)
             z == SubSeq(s, n + 1, Len(s))
         IN /\ z \in Seq(S) /\ Len(z) = Len(s) - n
            /\ ToSet(z) \subseteq ToSet(s) /\ ToSet(a) \subseteq ToSet(s)
            /\ ToSet(s) \subseteq ToSet(a) \union ToSet(z)
            /\ (\A i, j \in DOMAIN s : s[i] = s[j] => i = j) =>
                 /\ \A i, j \in DOMAIN z : z[i] = z[j] => i = j
                 /\ ToSet(a) \cap ToSet(z) = {}
<1> DEFINE a == SubSeq(s, 1, n)
           z == SubSeq(s, n + 1, Len(s))
           N == Len(s)
<1>1. N \in Nat /\ DOMAIN s = 1..N /\ (\A i \in 1..N : s[i] \in S) /\ n \in Nat /\ n <= N
  BY LenProperties, ElementOfSeq
<1>2. Len(a) = n /\ a \in Seq(S) /\ \A i \in 1..n : a[i] = s[i]
  <2>1. \A i \in 1..n : s[i] \in S
    BY <1>1
  <2> QED
    BY <1>1, <2>1, SubSeqProperties
<1>3. Len(z) = N - n /\ z \in Seq(S) /\ \A i \in 1..N - n : z[i] = s[n + i]
  <2>1. \A i \in n + 1..N : s[i] \in S
    BY <1>1
  <2>2. /\ z \in Seq(S)
        /\ Len(z) = IF n + 1 <= N THEN N - (n + 1) + 1 ELSE 0
        /\ \A i \in 1..N - (n + 1) + 1 : z[i] = s[(n + 1) + i - 1]
    BY <1>1, <2>1, SubSeqProperties
  <2> HIDE DEF z, N
  <2>3. N - (n + 1) + 1 = N - n /\ (n + 1 <= N \/ N - n = 0)
    BY <1>1
  <2>4. Len(z) = N - n
    BY <1>1, <2>2, <2>3
  <2>5. ASSUME NEW i \in 1..N - n PROVE z[i] = s[n + i]
    <3>1. (n + 1) + i - 1 = n + i
      BY <1>1
    <3> QED
      BY <2>2, <2>3, <3>1
  <2> QED
    BY <2>2, <2>4, <2>5
<1>4. DOMAIN a = 1..n /\ DOMAIN z = 1..N - n
  BY <1>2, <1>3, LenProperties
<1> HIDE DEF a, z, N
<1>5. \A x : /\ x \in ToSet(a) <=> \E i \in 1..n : s[i] = x
             /\ x \in ToSet(z) <=> \E i \in 1..N - n : s[n + i] = x
             /\ x \in ToSet(s) <=> \E i \in 1..N : s[i] = x
  <2>1. \A x : x \in ToSet(a) <=> \E i \in 1..n : s[i] = x
    BY <1>2, <1>4 DEF ToSet
  <2>2. \A x : x \in ToSet(z) <=> \E i \in 1..N - n : s[n + i] = x
    BY <1>3, <1>4 DEF ToSet
  <2>3. \A x : x \in ToSet(s) <=> \E i \in 1..N : s[i] = x
    BY <1>1 DEF ToSet
  <2> QED
    BY <2>1, <2>2, <2>3
<1>6. \A i \in 1..n : i \in 1..N
  BY <1>1
<1>7. \A i \in 1..N - n : n + i \in 1..N
  BY <1>1
<1>8. \A i \in 1..N : i \in 1..n \/ (i - n \in 1..N - n /\ n + (i - n) = i)
  BY <1>1
<1>9. ToSet(z) \subseteq ToSet(s) /\ ToSet(a) \subseteq ToSet(s) /\ ToSet(s) \subseteq ToSet(a) \union ToSet(z)
  BY <1>5, <1>6, <1>7, <1>8
<1>10. ASSUME \A i, j \in DOMAIN s : s[i] = s[j] => i = j
       PROVE  /\ \A i, j \in DOMAIN z : z[i] = z[j] => i = j
              /\ ToSet(a) \cap ToSet(z) = {}
  <2>1. ASSUME NEW i \in 1..N - n, NEW j \in 1..N - n, z[i] = z[j] PROVE i = j
    <3>1. n + i = n + j
      BY <1>1, <1>3, <1>7, <1>10, <2>1
    <3> QED
      BY <1>1, <3>1
  <2>2. ASSUME NEW i \in 1..n, NEW j \in 1..N - n, s[i] = s[n + j] PROVE FALSE
    <3>1. i = n + j
      BY <1>1, <1>6, <1>7, <1>10, <2>2
    <3> QED
      BY <1>1, <3>1
  <2> QED
    BY <1>4, <1>5, <2>1, <2>2
<1> QED
  BY <1>1, <1>3, <1>9, <1>10 DEF a, z, N

\* Two queues without common elements, one after the other.
LEMMA ConcatDistinct ==
  ASSUME NEW S, NEW s \in Seq(S), NEW t \in Seq(S)
  PROVE  /\ s \o t \in Seq(S) /\ Len(s \o t) = Len(s) + Len(t)
         /\ ToSet(s \o t) = ToSet(s) \union ToSet(t)
         /\ (\A i, j \in DOMAIN s : s[i] = s[j] => i = j) /\ (\A i, j \in DOMAIN t : t[i] = t[j] => i = j)
            /\ ToSet(s) \cap ToSet(t) = {}
            => \A i, j \in DOMAIN (s \o t) : (s \o t)[i] = (s \o t)[j] => i = j
<1> DEFINE u == s \o t
           M == Len(s)
           N == Len(t)
<1>1. M \in Nat /\ N \in Nat /\ DOMAIN s = 1..M /\ DOMAIN t = 1..N
  BY LenProperties
<1>2. u \in Seq(S) /\ Len(u) = M + N /\ \A i \in 1..M + N : u[i] = IF i <= M THEN s[i] ELSE t[i - M]
  BY ConcatProperties
<1>3. DOMAIN u = 1..M + N
  BY <1>2, LenProperties
<1> HIDE DEF u, M, N
<1>4. \A i \in 1..M + N : i \in 1..M \/ (i - M \in 1..N /\ ~(i <= M))
  BY <1>1
<1>5. ASSUME NEW x \in ToSet(u) PROVE x \in ToSet(s) \union ToSet(t)
  <2>1. PICK i \in 1..M + N : u[i] = x
    BY <1>3 DEF ToSet
  <2> QED
    BY <1>1, <1>2, <1>4, <2>1 DEF ToSet
<1>6. ASSUME NEW x \in ToSet(s) \union ToSet(t) PROVE x \in ToSet(u)
  <2>1. CASE x \in ToSet(s)
    <3>1. PICK i \in 1..M : s[i] = x
      BY <1>1, <2>1 DEF ToSet
    <3>2. i \in 1..M + N /\ u[i] = x
      BY <1>1, <1>2, <3>1
    <3> QED
      BY <1>3, <3>2 DEF ToSet
  <2>2. CASE x \in ToSet(t)
    <3>1. PICK i \in 1..N : t[i] = x
      BY <1>1, <2>2 DEF ToSet
    <3>2. M + i \in 1..M + N /\ ~(M + i <= M) /\ (M + i) - M = i
      BY <1>1
    <3>3. u[M + i] = x
      BY <1>2, <3>1, <3>2
    <3> QED
      BY <1>3, <3>2, <3>3 DEF ToSet
  <2> QED
    BY <1>6, <2>1, <2>2
<1>7. ASSUME \A i, j \in DOMAIN s : s[i] = s[j] => i = j, \A i, j \in DOMAIN t : t[i] = t[j] => i = j,
             ToSet(s) \cap ToSet(t) = {}, NEW i \in 1..M + N, NEW j \in 1..M + N, u[i] = u[j]
      PROVE  i = j
  <2>1. \A k \in 1..M, l \in 1..N : s[k] # t[l]
    <3>1. \A k \in 1..M : s[k] \in ToSet(s)
      BY <1>1 DEF ToSet
    <3>2. \A l \in 1..N : t[l] \in ToSet(t)
      BY <1>1 DEF ToSet
    <3> QED
      BY <1>7, <3>1, <3>2
  <2>2. CASE i \in 1..M /\ j \in 1..M
    BY <1>1, <1>2, <1>7, <2>2, SMTT(60)
  <2>3. CASE i - M \in 1..N /\ ~(i <= M) /\ j - M \in 1..N /\ ~(j <= M)
    <3>1. t[i - M] = t[j - M]
      BY <1>2, <1>7, <2>3
    <3>2. i - M = j - M
      BY <1>1, <1>7, <2>3, <3>1
    <3> QED
      BY <1>1, <3>2
  <2>4. CASE i \in 1..M /\ j - M \in 1..N /\ ~(j <= M)
    BY <1>1, <1>2, <1>7, <2>1, <2>4
  <2>5. CASE j \in 1..M /\ i - M \in 1..N /\ ~(i <= M)
    BY <1>1, <1>2, <1>7, <2>1, <2>5
  <2> QED
    BY <1>4, <2>2, <2>3, <2>4, <2>5
<1> QED
  BY <1>2, <1>3, <1>5, <1>6, <1>7 DEF u, M, N
=============================================================================
