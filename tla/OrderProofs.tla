------------------------------ MODULE OrderProofs ------------------------------
(***************************************************************************)
(* What Nth and Without of Order return, RemoveFirst of SequencesExt, and  *)
(* the least-element principle that stands in for induction.               *)
(***************************************************************************)
EXTENDS Order, SequencesExt, TLAPS, FiniteSetTheorems, SequenceTheorems,
        WellFoundedInduction

\* A nonempty set of naturals has a least element.
LEMMA LeastNat ==
    ASSUME NEW T \in SUBSET Nat, T # {}
    PROVE  \E x \in T : \A y \in T : x <= y
<1>1. IsWellFoundedOn(OpToRel(<, Nat), Nat)
    BY NatLessThanWellFounded
<1>2. PICK x \in T : \A y \in T : ~ (<<y, x>> \in OpToRel(<, Nat))
    BY <1>1, WFMin, Zenon
<1>3. \A y \in T : ~(y < x)
    BY <1>2 DEF OpToRel
<1> QED
    BY <1>3

\* Ranks grow with the elements and are the numbers 1 .. Cardinality(S).
LEMMA RankFacts ==
    ASSUME NEW S \in SUBSET Nat, IsFiniteSet(S)
    PROVE  /\ Cardinality(S) \in Nat
           /\ \A i \in S : Rank(S, i) \in 1 .. Cardinality(S)
           /\ \A i, j \in S : i < j => Rank(S, i) < Rank(S, j)
           /\ \A n \in 1 .. Cardinality(S) : \E i \in S : Rank(S, i) = n
<1> DEFINE B(i) == {j \in S : j <= i}
<1>0. Cardinality(S) \in Nat
    BY FS_CardinalityType
<1>1. ASSUME NEW i \in S
      PROVE  /\ IsFiniteSet(B(i)) /\ Cardinality(B(i)) \in 1 .. Cardinality(S)
             /\ i \in B(i)
    <2>1. B(i) \in SUBSET S /\ i \in B(i) /\ B(i) # {}
        OBVIOUS
    <2> HIDE DEF B
    <2>2. IsFiniteSet(B(i)) /\ Cardinality(B(i)) <= Cardinality(S)
        BY <2>1, FS_Subset
    <2>3. Cardinality(B(i)) \in Nat /\ Cardinality(B(i)) # 0
        BY <2>1, <2>2, FS_CardinalityType, FS_EmptySet
    <2> QED
        BY <1>0, <2>1, <2>2, <2>3
<1>2. ASSUME NEW a \in S, NEW b \in S, a < b
      PROVE  Cardinality(B(a)) < Cardinality(B(b))
    <2>1. B(a) \in SUBSET B(b) /\ b \in B(b) /\ b \notin B(a)
        <3>1. a \in Nat /\ b \in Nat /\ \A x \in S : x \in Nat
            OBVIOUS
        <3>2. \A x \in S : x <= a => x <= b
            BY <1>2, <3>1
        <3>3. B(a) \subseteq B(b)
            BY <3>2
        <3>4. b \in B(b) /\ b \notin B(a)
            BY <1>2, <3>1
        <3> QED
            BY <3>3, <3>4
    <2> HIDE DEF B
    <2>2. /\ Cardinality(B(a)) <= Cardinality(B(b))
          /\ Cardinality(B(a)) # Cardinality(B(b))
        BY <1>1, <2>1, FS_Subset
    <2> QED
        BY <1>0, <1>1, <2>2
<1> DEFINE r == [i \in S |-> Cardinality(B(i))]
<1> DEFINE T == 1 .. Cardinality(S)
<1> HIDE DEF B
<1>3. r \in Injection(S, T)
    <2>1. r \in [S -> T]
        BY <1>1
    <2>2. ASSUME NEW a \in S, NEW b \in S, r[a] = r[b]
          PROVE  a = b
        <3>1. a \in Nat /\ b \in Nat /\ r[a] \in Int /\ r[b] \in Int
            BY <1>0, <2>1
        <3>2. ~(a < b) /\ ~(b < a)
            BY <1>2, <2>2, <3>1
        <3> QED
            BY <3>1, <3>2
    <2> HIDE DEF r, T
    <2> QED
        BY <2>1, <2>2 DEF Injection, IsInjective
<1>4. IsFiniteSet(T) /\ Cardinality(T) = Cardinality(S)
    BY <1>0, FS_Interval
<1>5. r \in Surjection(S, T)
    BY <1>3, <1>4, FS_Injection
<1>6. \A n \in T : \E i \in S : r[i] = n
    BY <1>5 DEF Surjection
<1> QED
    BY <1>0, <1>1, <1>2, <1>6 DEF B, Rank

\* Nth enumerates S in increasing order.
LEMMA NthFacts ==
    ASSUME NEW S \in SUBSET Nat, IsFiniteSet(S)
    PROVE  /\ \A n \in 1 .. Cardinality(S) : Nth(S, n) \in S
           /\ \A i \in S : \E n \in 1 .. Cardinality(S) : Nth(S, n) = i
           /\ \A m, n \in 1 .. Cardinality(S) : m < n => Nth(S, m) < Nth(S, n)
<1>1. ASSUME NEW n \in 1 .. Cardinality(S)
      PROVE  Nth(S, n) \in S /\ Rank(S, Nth(S, n)) = n
    BY RankFacts, Zenon DEF Nth
<1>2. ASSUME NEW i \in S
      PROVE  \E n \in 1 .. Cardinality(S) : Nth(S, n) = i
    <2>1. Rank(S, i) \in 1 .. Cardinality(S)
        BY RankFacts
    <2> DEFINE k == Nth(S, Rank(S, i))
    <2>2. k \in S /\ Rank(S, k) = Rank(S, i)
        BY <1>1, <2>1
    <2> HIDE DEF k
    <2>3. i \in Nat /\ k \in Nat /\ Rank(S, i) \in Int
        <3>1. Cardinality(S) \in Nat
            BY RankFacts
        <3> QED
            BY <2>1, <2>2, <3>1
    <2>4. ~(i < k) /\ ~(k < i)
        BY <2>2, <2>3, RankFacts
    <2>5. k = i
        BY <2>3, <2>4
    <2> QED
        BY <2>1, <2>5 DEF k
<1>3. ASSUME NEW m \in 1 .. Cardinality(S), NEW n \in 1 .. Cardinality(S), m < n
      PROVE  Nth(S, m) < Nth(S, n)
    <2> DEFINE a == Nth(S, m)
    <2> DEFINE b == Nth(S, n)
    <2>1. a \in S /\ b \in S /\ Rank(S, a) = m /\ Rank(S, b) = n
        BY <1>1
    <2> HIDE DEF a, b
    <2>2. a \in Nat /\ b \in Nat /\ m \in Int /\ n \in Int
        <3>1. Cardinality(S) \in Nat
            BY RankFacts
        <3> QED
            BY <2>1, <3>1
    <2>3. b < a => Rank(S, b) < Rank(S, a)
        BY <2>1, RankFacts
    <2>4. a < b
        BY <1>3, <2>1, <2>2, <2>3
    <2> QED
        BY <2>4 DEF a, b
<1> QED
    BY <1>1, <1>2, <1>3

\* There is only one increasing enumeration.
LEMMA NthUnique ==
    ASSUME NEW S \in SUBSET Nat, NEW n \in Nat, NEW g \in [1 .. n -> S],
           \A i \in S : \E m \in 1 .. n : g[m] = i,
           \A m, k \in 1 .. n : m < k => g[m] < g[k]
    PROVE  /\ IsFiniteSet(S) /\ Cardinality(S) = n
           /\ \A m \in 1 .. n : Nth(S, m) = g[m]
<1>1. \A m, k \in 1 .. n : (m < k <=> g[m] < g[k]) /\ (m <= k <=> g[m] <= g[k])
    <2>1. \A m \in 1 .. n : g[m] \in Nat
        <3> SUFFICES ASSUME NEW m \in 1 .. n PROVE g[m] \in Nat
            OBVIOUS
        <3>1. g[m] \in S
            OBVIOUS
        <3> QED
            BY <3>1
    <2> QED
        BY <2>1
<1>2. ASSUME NEW k \in 0 .. n, NEW T, T = {g[m] : m \in 1 .. k}
      PROVE  IsFiniteSet(T) /\ Cardinality(T) = k
    <2> DEFINE h == [m \in 1 .. k |-> g[m]]
    <2>1. h \in Bijection(1 .. k, T)
        <3>1. h \in [1 .. k -> T] /\ \A t \in T : \E s \in 1 .. k : h[s] = t
            BY <1>2
        <3>2. \A a, b \in 1 .. k : h[a] = h[b] => a = b
            <4>1. \A a, b \in 1 .. k : a \in 1 .. n /\ b \in 1 .. n
                OBVIOUS
            <4>2. ASSUME NEW a \in 1 .. k, NEW b \in 1 .. k, h[a] = h[b] PROVE a = b
                <5>1. g[a] = g[b] /\ a \in 1 .. n /\ b \in 1 .. n
                    BY <4>1, <4>2
                <5>2. ~(a < b) /\ ~(b < a)
                    BY <1>1, <5>1
                <5> QED
                    BY <5>2
            <4> QED
                BY <4>2
        <3> HIDE DEF h
        <3> QED
            BY <3>1, <3>2 DEF Bijection, Injection, Surjection, IsInjective
    <2>2. k \in Nat /\ ExistsBijection(1 .. k, T)
        BY <2>1 DEF ExistsBijection
    <2>3. IsFiniteSet(T)
        BY <2>2, FS_NatBijection
    <2> QED
        BY <2>2, <2>3, FS_CountingElements
<1>3. IsFiniteSet(S) /\ Cardinality(S) = n
    <2>1. \A m \in 1 .. n : g[m] \in S
        OBVIOUS
    <2>2. S = {g[m] : m \in 1 .. n}
        <3>1. \A i \in S : i \in {g[m] : m \in 1 .. n}
            OBVIOUS
        <3>2. \A i \in {g[m] : m \in 1 .. n} : i \in S
            BY <2>1
        <3> QED
            BY <3>1, <3>2
    <2>3. n \in 0 .. n
        OBVIOUS
    <2> QED
        BY <1>2, <2>2, <2>3
<1>4. ASSUME NEW m \in 1 .. n PROVE Rank(S, g[m]) = m
    <2>1. {j \in S : j <= g[m]} = {g[k] : k \in 1 .. m}
        <3>1. ASSUME NEW j \in S, j <= g[m] PROVE j \in {g[k] : k \in 1 .. m}
            <4>1. PICK k \in 1 .. n : g[k] = j
                OBVIOUS
            <4>2. k <= m
                BY <1>1, <3>1, <4>1
            <4>3. k \in 1 .. m
                BY <4>2
            <4> QED
                BY <4>1, <4>3
        <3>2. ASSUME NEW k \in 1 .. m PROVE g[k] \in S /\ g[k] <= g[m]
            <4>1. k \in 1 .. n /\ k <= m
                OBVIOUS
            <4> QED
                BY <1>1, <4>1
        <3> QED
            BY <3>1, <3>2
    <2>2. m \in 0 .. n
        OBVIOUS
    <2> QED
        BY <1>2, <2>1, <2>2 DEF Rank
<1>5. ASSUME NEW m \in 1 .. n PROVE Nth(S, m) = g[m]
    <2>1. g[m] \in S /\ Rank(S, g[m]) = m
        BY <1>4
    <2>2. Nth(S, m) \in S /\ Rank(S, Nth(S, m)) = m
        BY <2>1, Zenon DEF Nth
    <2>3. PICK k \in 1 .. n : g[k] = Nth(S, m)
        BY <2>2
    <2>4. k = m
        BY <1>4, <2>2, <2>3
    <2> QED
        BY <2>3, <2>4
<1> QED
    BY <1>3, <1>5
-----------------------------------------------------------------------------
\* The first place where x stands in s.
FirstAt(s, x) == Min({i \in 1 .. Len(s) : s[i] = x})

\* RemoveFirst takes that place out and closes up.
LEMMA RemoveFirstFacts ==
    ASSUME NEW R, NEW s \in Seq(R), NEW x, \E i \in DOMAIN s : s[i] = x
    PROVE  /\ FirstAt(s, x) \in 1 .. Len(s) /\ s[FirstAt(s, x)] = x
           /\ \A i \in 1 .. FirstAt(s, x) - 1 : s[i] # x
           /\ RemoveFirst(s, x) \in Seq(R)
           /\ Len(RemoveFirst(s, x)) = Len(s) - 1
           /\ \A i \in 1 .. FirstAt(s, x) - 1 : RemoveFirst(s, x)[i] = s[i]
           /\ \A i \in FirstAt(s, x) .. Len(s) - 1 : RemoveFirst(s, x)[i] = s[i + 1]
<1> DEFINE I == {i \in 1 .. Len(s) : s[i] = x}
<1> DEFINE m == FirstAt(s, x)
<1>1. I \in SUBSET Nat /\ I # {} /\ Len(s) \in Nat /\ DOMAIN s = 1 .. Len(s)
    OBVIOUS
<1>2. \E a \in I : \A b \in I : a <= b
    BY <1>1, LeastNat
<1> HIDE DEF I
<1>3. m \in I /\ \A b \in I : m <= b
    <2>1. m = Min(I)
        BY DEF FirstAt, I
    <2>2. Min(I) \in I /\ \A b \in I : Min(I) <= b
        BY <1>2, Zenon DEF Min
    <2> QED
        BY <2>1, <2>2
<1>4. RemoveFirst(s, x) = RemoveAt(s, m)
    BY <1>1 DEF RemoveFirst, SelectInSeq, FirstAt, I
<1> HIDE DEF m
<1>5. m \in 1 .. Len(s) /\ s[m] = x /\ \A i \in 1 .. m - 1 : s[i] # x
    BY <1>1, <1>3 DEF I
<1> DEFINE a == SubSeq(s, 1, m - 1)
<1> DEFINE b == SubSeq(s, m + 1, Len(s))
<1>6. /\ a \in Seq(R) /\ Len(a) = m - 1 /\ \A i \in 1 .. m - 1 : a[i] = s[i]
    BY <1>1, <1>5
<1>7. /\ b \in Seq(R) /\ Len(b) = Len(s) - m
      /\ \A i \in 1 .. Len(s) - m : b[i] = s[m + i]
    <2>1. m + 1 \in Int /\ Len(s) \in Int /\ \A i \in m + 1 .. Len(s) : s[i] \in R
        BY <1>1, <1>5
    <2>2. /\ b \in Seq(R)
          /\ Len(b) = IF m + 1 <= Len(s) THEN Len(s) - (m + 1) + 1 ELSE 0
          /\ \A i \in 1 .. Len(s) - (m + 1) + 1 : b[i] = s[(m + 1) + i - 1]
        BY <2>1, SubSeqProperties
    <2>3. Len(b) = Len(s) - m
        BY <1>5, <2>1, <2>2
    <2>4. ASSUME NEW i \in 1 .. Len(s) - m PROVE b[i] = s[m + i]
        <3>1. i \in 1 .. Len(s) - (m + 1) + 1 /\ (m + 1) + i - 1 = m + i
            BY <1>1, <1>5
        <3> QED
            BY <2>2, <3>1
    <2> QED
        BY <2>2, <2>3, <2>4
<1>8. RemoveFirst(s, x) = a \o b
    BY <1>4 DEF RemoveAt
<1> HIDE DEF a, b
<1>9. /\ a \o b \in Seq(R) /\ Len(a \o b) = Len(s) - 1
      /\ \A i \in 1 .. m - 1 : (a \o b)[i] = s[i]
      /\ \A i \in m .. Len(s) - 1 : (a \o b)[i] = s[i + 1]
    <2>0. /\ a \o b \in Seq(R)
          /\ Len(a \o b) = Len(a) + Len(b)
          /\ \A i \in 1 .. Len(a) + Len(b) :
                 (a \o b)[i] = IF i <= Len(a) THEN a[i] ELSE b[i - Len(a)]
        BY <1>6, <1>7, ConcatProperties
    <2>1. a \o b \in Seq(R) /\ Len(a \o b) = Len(s) - 1
        BY <1>1, <1>5, <1>6, <1>7, <2>0
    <2>2. ASSUME NEW i \in 1 .. m - 1 PROVE (a \o b)[i] = s[i]
        <3>1. i \in 1 .. Len(a) + Len(b) /\ i <= Len(a)
            BY <1>1, <1>5, <1>6, <1>7
        <3> QED
            BY <1>6, <2>0, <3>1
    <2>3. ASSUME NEW i \in m .. Len(s) - 1 PROVE (a \o b)[i] = s[i + 1]
        <3>1. /\ i - (m - 1) \in 1 .. Len(s) - m /\ m + (i - (m - 1)) = i + 1
              /\ i \in 1 .. Len(a) + Len(b) /\ ~(i <= Len(a))
              /\ i - Len(a) = i - (m - 1)
            BY <1>1, <1>5, <1>6, <1>7
        <3>2. (a \o b)[i] = b[i - (m - 1)]
            BY <2>0, <3>1
        <3> QED
            BY <1>7, <3>1, <3>2
    <2> QED
        BY <2>1, <2>2, <2>3
<1> QED
    BY <1>5, <1>8, <1>9 DEF m

\* Where the places of Without(s, x) are in s.
KeptAt(s, x) == [n \in DOMAIN Without(s, x) |-> Nth({i \in DOMAIN s : s[i] # x}, n)]

\* Without keeps the other places, in their order.
LEMMA WithoutFacts ==
    ASSUME NEW R, NEW s \in Seq(R), NEW x
    PROVE  /\ Without(s, x) \in Seq(R)
           /\ \A n \in DOMAIN Without(s, x) : Without(s, x)[n] # x
           /\ KeptAt(s, x) \in [DOMAIN Without(s, x) -> DOMAIN s]
           /\ \A n \in DOMAIN Without(s, x) : Without(s, x)[n] = s[KeptAt(s, x)[n]]
           /\ \A i \in DOMAIN s : s[i] # x =>
                  \E n \in DOMAIN Without(s, x) : KeptAt(s, x)[n] = i
           /\ \A m, n \in DOMAIN Without(s, x) :
                  m < n => KeptAt(s, x)[m] < KeptAt(s, x)[n]
<1> DEFINE kept == {i \in DOMAIN s : s[i] # x}
<1> DEFINE c == Cardinality(kept)
<1> DEFINE h == [n \in 1 .. c |-> Nth(kept, n)]
<1>1. DOMAIN s = 1 .. Len(s) /\ Len(s) \in Nat /\ kept \in SUBSET (1 .. Len(s))
    OBVIOUS
<1>2. IsFiniteSet(kept) /\ kept \in SUBSET Nat /\ c \in Nat
    <2>1. IsFiniteSet(1 .. Len(s))
        BY <1>1, FS_Interval
    <2>2. IsFiniteSet(kept)
        BY <1>1, <2>1, FS_Subset
    <2> QED
        BY <1>1, <2>2, FS_CardinalityType
<1>3. /\ \A n \in 1 .. c : Nth(kept, n) \in kept
      /\ \A i \in kept : \E n \in 1 .. c : Nth(kept, n) = i
      /\ \A m, n \in 1 .. c : m < n => Nth(kept, m) < Nth(kept, n)
    BY <1>2, NthFacts
<1>4. Without(s, x) = [n \in 1 .. c |-> s[Nth(kept, n)]]
    BY DEF Without
<1>5. \A i \in kept : s[i] \in R /\ s[i] # x /\ i \in DOMAIN s
    OBVIOUS
<1>6. \A i \in DOMAIN s : s[i] # x => i \in kept
    OBVIOUS
<1> HIDE DEF kept, c
<1>7. /\ Without(s, x) \in [1 .. c -> R] /\ DOMAIN Without(s, x) = 1 .. c
      /\ \A n \in 1 .. c : Without(s, x)[n] = s[h[n]]
    BY <1>3, <1>4, <1>5
<1>8. Without(s, x) \in Seq(R)
    BY <1>2, <1>7
<1>9. h \in [1 .. c -> DOMAIN s]
    BY <1>3, <1>5
<1>10. \A n \in 1 .. c : Without(s, x)[n] # x
    BY <1>3, <1>5, <1>7
<1>11. \A i \in DOMAIN s : s[i] # x => \E n \in 1 .. c : h[n] = i
    BY <1>3, <1>6
<1>12. \A m, n \in 1 .. c : m < n => h[m] < h[n]
    BY <1>3
<1>13. KeptAt(s, x) = h
    BY <1>7 DEF KeptAt, kept
<1> HIDE DEF h
<1> QED
    BY <1>7, <1>8, <1>9, <1>10, <1>11, <1>12, <1>13
=============================================================================
