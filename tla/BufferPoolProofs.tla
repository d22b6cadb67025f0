--------------------------- MODULE BufferPoolProofs ---------------------------
(***************************************************************************)
(* The buffer pool, for any number of threads, frames and pages: first     *)
(* what holds of every pool, then what holds while the table fits in it,   *)
(* NumPages <= NumFrames.                                                  *)
(***************************************************************************)
EXTENDS BufferPool, OrderProofs

(***************************************************************************)
(* The evictor as the pool sees it: which frames it remembers once, twice  *)
(* and may choose.                                                         *)
(***************************************************************************)
Occurs(s, f) == \E i \in DOMAIN s : s[i] = f
Twice(s, f)  == \E i, j \in DOMAIN s : i < j /\ s[i] = f /\ s[j] = f

KeepsOthers(s, r, f) == \A g : g # f => /\ Occurs(r, g) <=> Occurs(s, g)
                                        /\ Twice(r, g) <=> Twice(s, g)

\* Only remembered frames are evictable.
EvictorOK(e) == /\ e.accesses \in Seq(Frames)
                /\ e.evictable \subseteq Frames
                /\ \A f \in e.evictable : Occurs(e.accesses, f)

LEMMA AccessesCount ==
    ASSUME NEW e, e.accesses \in Seq(Frames), NEW f
    PROVE  /\ Accesses(e, f) \in Nat
           /\ Accesses(e, f) > 0 <=> Occurs(e.accesses, f)
           /\ Accesses(e, f) > 1 <=> Twice(e.accesses, f)
<1> DEFINE s == e.accesses
<1> DEFINE I == {i \in DOMAIN s : s[i] = f}
<1>1. /\ DOMAIN s = 1 .. Len(s) /\ Len(s) \in Nat /\ I \in SUBSET (1 .. Len(s))
      /\ Accesses(e, f) = Cardinality(I)
    BY DEF Accesses
<1>2. IsFiniteSet(I) /\ Cardinality(I) \in Nat
    <2>1. IsFiniteSet(1 .. Len(s))
        BY <1>1, FS_Interval
    <2>2. IsFiniteSet(I)
        BY <1>1, <2>1, FS_Subset
    <2> QED
        BY <2>2, FS_CardinalityType
<1>3. Cardinality(I) = 0 <=> I = {}
    BY <1>2, FS_EmptySet
<1>4. Cardinality(I) = 1 <=> \E i : I = {i}
    BY <1>2, FS_Singleton
<1>5. I = {} <=> ~Occurs(s, f)
    BY DEF Occurs
<1>6. Twice(s, f) <=> I # {} /\ ~\E i : I = {i}
    <2>1. ASSUME Twice(s, f), NEW i, I = {i} PROVE FALSE
        BY <1>1, <2>1 DEF Twice
    <2>2. ASSUME NEW i \in I, I # {i} PROVE Twice(s, f)
        <3>1. PICK j \in I : j # i
            BY <2>2
        <3>2. i < j \/ j < i
            BY <1>1, <3>1
        <3> QED
            BY <3>1, <3>2 DEF Twice
    <2>3. Twice(s, f) => I # {}
        BY DEF Twice
    <2> QED
        BY <2>1, <2>2, <2>3
<1> HIDE DEF I
<1>7. /\ Accesses(e, f) \in Nat
      /\ Accesses(e, f) = 0 <=> ~Occurs(e.accesses, f)
      /\ Twice(e.accesses, f) <=> Accesses(e, f) # 0 /\ Accesses(e, f) # 1
    BY <1>1, <1>2, <1>3, <1>4, <1>5, <1>6
<1> QED
    BY <1>7

LEMMA AppendOccurs ==
    ASSUME NEW s \in Seq(Frames), NEW f \in Frames
    PROVE  /\ Append(s, f) \in Seq(Frames)
           /\ \A g : Occurs(Append(s, f), g) <=> g = f \/ Occurs(s, g)
           /\ \A g : Twice(Append(s, f), g) <=> Twice(s, g) \/ (g = f /\ Occurs(s, g))
<1> DEFINE r == Append(s, f)
<1> DEFINE n == Len(s)
<1>1. /\ r \in Seq(Frames) /\ n \in Nat
      /\ DOMAIN s = 1 .. n /\ DOMAIN r = 1 .. n + 1
      /\ r[n + 1] = f /\ \A i \in 1 .. n : r[i] = s[i]
    OBVIOUS
<1> HIDE DEF r, n
<1>2. ASSUME NEW g PROVE Occurs(r, g) <=> g = f \/ Occurs(s, g)
    BY <1>1 DEF Occurs
<1>3. ASSUME NEW g PROVE Twice(r, g) <=> Twice(s, g) \/ (g = f /\ Occurs(s, g))
    <2>1. ASSUME Twice(s, g) PROVE Twice(r, g)
        BY <1>1, <2>1 DEF Twice
    <2>2. ASSUME g = f, Occurs(s, g) PROVE Twice(r, g)
        <3>1. PICK i \in 1 .. n : s[i] = g
            BY <1>1, <2>2 DEF Occurs
        <3>2. i \in DOMAIN r /\ n + 1 \in DOMAIN r /\ i < n + 1
            BY <1>1
        <3> QED
            BY <1>1, <2>2, <3>1, <3>2 DEF Twice
    <2>3. ASSUME Twice(r, g) PROVE Twice(s, g) \/ (g = f /\ Occurs(s, g))
        <3>1. PICK i, j \in 1 .. n + 1 : i < j /\ r[i] = g /\ r[j] = g
            BY <1>1, <2>3 DEF Twice
        <3>2. i \in 1 .. n /\ s[i] = g
            BY <1>1, <3>1
        <3>3. CASE j = n + 1
            BY <1>1, <3>1, <3>2, <3>3 DEF Occurs
        <3>4. CASE j \in 1 .. n
            <4>1. i \in DOMAIN s /\ j \in DOMAIN s /\ s[j] = g
                BY <1>1, <3>1, <3>2, <3>4
            <4> QED
                BY <3>1, <3>2, <4>1 DEF Twice
        <3> QED
            BY <1>1, <3>3, <3>4
    <2> QED
        BY <2>1, <2>2, <2>3
<1> QED
    BY <1>1, <1>2, <1>3 DEF r

LEMMA RemoveFirstOccurs ==
    ASSUME NEW s \in Seq(Frames), NEW f \in Frames, Occurs(s, f)
    PROVE  /\ RemoveFirst(s, f) \in Seq(Frames)
           /\ Twice(s, f) => Occurs(RemoveFirst(s, f), f)
           /\ KeepsOthers(s, RemoveFirst(s, f), f)
<1>0. \E i \in DOMAIN s : s[i] = f
    BY DEF Occurs
<1> DEFINE r == RemoveFirst(s, f)
<1> DEFINE n == Len(s)
<1> DEFINE m == FirstAt(s, f)
<1>1. /\ m \in 1 .. n /\ s[m] = f /\ \A i \in 1 .. m - 1 : s[i] # f
      /\ r \in Seq(Frames) /\ Len(r) = n - 1
      /\ \A i \in 1 .. m - 1 : r[i] = s[i]
      /\ \A i \in m .. n - 1 : r[i] = s[i + 1]
    BY <1>0, RemoveFirstFacts
<1>2. n \in Nat /\ DOMAIN s = 1 .. n /\ DOMAIN r = 1 .. n - 1 /\ m \in 1 .. n
    BY <1>1
<1> HIDE DEF r, n, m
\* Where the places of r are in s, and the places of s in r.
<1> DEFINE up(i) == IF i < m THEN i ELSE i + 1
<1> DEFINE dn(i) == IF i < m THEN i ELSE i - 1
<1>3. ASSUME NEW i \in DOMAIN r
      PROVE  up(i) \in DOMAIN s /\ r[i] = s[up(i)]
    <2>1. CASE i < m
        BY <1>1, <1>2, <2>1
    <2>2. CASE ~(i < m)
        <3>1. i \in m .. n - 1
            BY <1>2, <2>2
        <3> QED
            BY <1>1, <1>2, <2>2, <3>1
    <2> QED
        BY <2>1, <2>2
<1>4. ASSUME NEW i \in DOMAIN s, i # m
      PROVE  dn(i) \in DOMAIN r /\ r[dn(i)] = s[i]
    <2>1. CASE i < m
        BY <1>1, <1>2, <2>1
    <2>2. CASE ~(i < m)
        <3>1. i - 1 \in m .. n - 1 /\ (i - 1) + 1 = i
            BY <1>2, <1>4, <2>2
        <3> QED
            BY <1>1, <1>2, <2>2, <3>1
    <2> QED
        BY <2>1, <2>2
<1>5. /\ \A i, j \in DOMAIN r : i < j => up(i) < up(j)
      /\ \A i, j \in DOMAIN s : i < j /\ i # m /\ j # m => dn(i) < dn(j)
    BY <1>2
<1> HIDE DEF up, dn
<1>6. ASSUME NEW g, g # f
      PROVE  /\ Occurs(r, g) <=> Occurs(s, g)
             /\ Twice(r, g) <=> Twice(s, g)
    <2>1. \A i \in DOMAIN s : s[i] = g => i # m
        BY <1>1, <1>6
    <2>2. Occurs(r, g) <=> Occurs(s, g)
        BY <1>3, <1>4, <2>1 DEF Occurs
    <2>3. ASSUME Twice(r, g) PROVE Twice(s, g)
        <3>1. PICK i, j \in DOMAIN r : i < j /\ r[i] = g /\ r[j] = g
            BY <2>3 DEF Twice
        <3> QED
            BY <1>3, <1>5, <3>1 DEF Twice
    <2>4. ASSUME Twice(s, g) PROVE Twice(r, g)
        <3>1. PICK i, j \in DOMAIN s : i < j /\ s[i] = g /\ s[j] = g
            BY <2>4 DEF Twice
        <3> QED
            BY <1>4, <1>5, <2>1, <3>1 DEF Twice
    <2> QED
        BY <2>2, <2>3, <2>4
<1>7. ASSUME Twice(s, f) PROVE Occurs(r, f)
    <2>1. PICK i, j \in DOMAIN s : i < j /\ s[i] = f /\ s[j] = f
        BY <1>7 DEF Twice
    <2>2. j # m
        BY <1>1, <1>2, <2>1
    <2> QED
        BY <1>4, <2>1, <2>2 DEF Occurs
<1> QED
    BY <1>1, <1>6, <1>7 DEF r, KeepsOthers

LEMMA WithoutOccurs ==
    ASSUME NEW s \in Seq(Frames), NEW f
    PROVE  /\ Without(s, f) \in Seq(Frames)
           /\ ~Occurs(Without(s, f), f) /\ ~Twice(Without(s, f), f)
           /\ KeepsOthers(s, Without(s, f), f)
<1> DEFINE r == Without(s, f)
<1>1. r \in Seq(Frames) /\ \A n \in DOMAIN r : r[n] # f
    BY WithoutFacts
<1> DEFINE h == KeptAt(s, f)
<1>2. /\ h \in [DOMAIN r -> DOMAIN s]
      /\ \A n \in DOMAIN r : r[n] = s[h[n]]
      /\ \A i \in DOMAIN s : s[i] # f => \E n \in DOMAIN r : h[n] = i
      /\ \A m, n \in DOMAIN r : m < n => h[m] < h[n]
    BY WithoutFacts
<1> HIDE DEF r, h
<1>3. DOMAIN r \subseteq Nat /\ DOMAIN s \subseteq Nat
    BY <1>1
<1>4. ASSUME NEW g, g # f
      PROVE  /\ Occurs(r, g) <=> Occurs(s, g)
             /\ Twice(r, g) <=> Twice(s, g)
    <2>1. Occurs(r, g) <=> Occurs(s, g)
        BY <1>2, <1>4 DEF Occurs
    <2>2. ASSUME Twice(r, g) PROVE Twice(s, g)
        <3>1. PICK m, n \in DOMAIN r : m < n /\ r[m] = g /\ r[n] = g
            BY <2>2 DEF Twice
        <3> QED
            BY <1>2, <3>1 DEF Twice
    <2>3. ASSUME Twice(s, g) PROVE Twice(r, g)
        <3>1. PICK i, j \in DOMAIN s : i < j /\ s[i] = g /\ s[j] = g
            BY <2>3 DEF Twice
        <3>2. PICK m, n \in DOMAIN r : h[m] = i /\ h[n] = j
            BY <1>2, <1>4, <3>1
        <3>3. ~(n < m) /\ n # m
            BY <1>2, <1>3, <3>1, <3>2
        <3>4. m < n
            BY <1>3, <3>3
        <3> QED
            BY <1>2, <3>1, <3>2, <3>4 DEF Twice
    <2> QED
        BY <2>1, <2>2, <2>3
<1>5. ~Occurs(r, f) /\ ~Twice(r, f)
    BY <1>1 DEF Occurs, Twice
<1> QED
    BY <1>1, <1>4, <1>5 DEF r, KeepsOthers

\* From s to r an access of f is recorded.
Remembers(s, r, f) == /\ Occurs(r, f)
                      /\ ~Occurs(s, f) => ~Twice(r, f)
                      /\ Occurs(s, f) /\ K > 1 => Twice(r, f)
                      /\ KeepsOthers(s, r, f)

\* record_access: the frame is remembered, the others as before.
LEMMA RecordAccessFacts ==
    ASSUME NEW e, EvictorOK(e), NEW f \in Frames
    PROVE  /\ EvictorOK(RecordAccess(e, f))
           /\ RecordAccess(e, f).evictable = e.evictable
           /\ Remembers(e.accesses, RecordAccess(e, f).accesses, f)
<1> DEFINE s == e.accesses
<1> DEFINE r == RecordAccess(e, f).accesses
<1>1. /\ s \in Seq(Frames) /\ e.evictable \subseteq Frames
      /\ \A g \in e.evictable : Occurs(s, g)
    BY DEF EvictorOK
<1>2. RecordAccess(e, f).evictable = e.evictable
    BY DEF RecordAccess
<1>3. CASE Accesses(e, f) < K
    <2>1. r = Append(s, f)
        BY <1>3 DEF RecordAccess
    <2>2. /\ r \in Seq(Frames)
          /\ \A g : Occurs(r, g) <=> g = f \/ Occurs(s, g)
          /\ \A g : Twice(r, g) <=> Twice(s, g) \/ (g = f /\ Occurs(s, g))
        BY <1>1, <2>1, AppendOccurs
    <2>3. Twice(s, f) => Occurs(s, f)
        BY DEF Twice, Occurs
    <2> HIDE DEF s, r
    <2>4. EvictorOK(RecordAccess(e, f))
        BY <1>1, <1>2, <2>2 DEF EvictorOK, r
    <2> QED
        <3>1. KeepsOthers(s, r, f)
            BY <2>2 DEF KeepsOthers
        <3>2. Remembers(s, r, f)
            BY <2>2, <2>3, <3>1 DEF Remembers
        <3> QED
            BY <1>2, <2>4, <3>2 DEF s, r
<1>4. CASE ~(Accesses(e, f) < K)
    <2>1. r = Append(RemoveFirst(s, f), f)
        BY <1>4 DEF RecordAccess
    <2>2. Occurs(s, f) /\ (K > 1 => Twice(s, f))
        BY <1>1, <1>4, AccessesCount, KAssumption
    <2> DEFINE q == RemoveFirst(s, f)
    <2>3. /\ q \in Seq(Frames)
          /\ Twice(s, f) => Occurs(q, f)
          /\ KeepsOthers(s, q, f)
        BY <1>1, <2>2, RemoveFirstOccurs
    <2> HIDE DEF q
    <2>4. /\ r \in Seq(Frames)
          /\ \A g : Occurs(r, g) <=> g = f \/ Occurs(q, g)
          /\ \A g : Twice(r, g) <=> Twice(q, g) \/ (g = f /\ Occurs(q, g))
        BY <2>1, <2>3, AppendOccurs DEF q
    <2> HIDE DEF s, r
    <2>5. EvictorOK(RecordAccess(e, f))
        BY <1>1, <1>2, <2>3, <2>4 DEF EvictorOK, KeepsOthers, r
    <2> QED
        <3>1. KeepsOthers(s, r, f)
            BY <2>3, <2>4 DEF KeepsOthers
        <3>2. Remembers(s, r, f)
            BY <2>2, <2>3, <2>4, <3>1 DEF Remembers
        <3> QED
            BY <1>2, <2>5, <3>2 DEF s, r
<1> QED
    BY <1>3, <1>4

\* set_evictable and remove
LEMMA EvictableFacts ==
    ASSUME NEW e, EvictorOK(e), NEW f \in Frames
    PROVE  /\ EvictorOK(SetEvictable(e, f))
           /\ SetEvictable(e, f).accesses = e.accesses
           /\ SetEvictable(e, f).evictable =
                  IF Occurs(e.accesses, f) THEN e.evictable \cup {f} ELSE e.evictable
           /\ EvictorOK(SetNotEvictable(e, f))
           /\ SetNotEvictable(e, f).accesses = e.accesses
           /\ SetNotEvictable(e, f).evictable = e.evictable \ {f}
           /\ EvictorOK(Forget(e, f))
           /\ Forget(e, f).accesses = Without(e.accesses, f)
           /\ Forget(e, f).evictable = e.evictable \ {f}
<1>1. /\ e.accesses \in Seq(Frames) /\ e.evictable \subseteq Frames
      /\ \A g \in e.evictable : Occurs(e.accesses, g)
    BY DEF EvictorOK
<1>2. f \in Tracked(e) <=> Occurs(e.accesses, f)
    BY <1>1 DEF Tracked, ToSet, Occurs
<1>3. /\ SetEvictable(e, f).accesses = e.accesses
      /\ SetEvictable(e, f).evictable =
             IF Occurs(e.accesses, f) THEN e.evictable \cup {f} ELSE e.evictable
    BY <1>2 DEF SetEvictable
<1>4. /\ SetNotEvictable(e, f).accesses = e.accesses
      /\ SetNotEvictable(e, f).evictable = e.evictable \ {f}
      /\ Forget(e, f).accesses = Without(e.accesses, f)
      /\ Forget(e, f).evictable = e.evictable \ {f}
    BY DEF SetNotEvictable, Forget
<1>5. EvictorOK(SetEvictable(e, f)) /\ EvictorOK(SetNotEvictable(e, f))
    BY <1>1, <1>3, <1>4 DEF EvictorOK
<1>6. EvictorOK(Forget(e, f))
    BY <1>1, <1>4, WithoutOccurs DEF EvictorOK, KeepsOthers
<1> QED
    BY <1>3, <1>4, <1>5, <1>6

\* evict() finds a frame whenever one is evictable.
LEMMA VictimEvictable ==
    ASSUME NEW e, EvictorOK(e), e.evictable # {}
    PROVE  Victim(e) \in e.evictable
<1> DEFINE C == Candidates(e)
<1>1. C # {} /\ C \subseteq e.evictable
    BY DEF Candidates
<1>2. ASSUME NEW f \in C PROVE Oldest(e, f) \in Nat
    <2> DEFINE I == {i \in DOMAIN e.accesses : e.accesses[i] = f}
    <2>1. e.accesses \in Seq(Frames) /\ Occurs(e.accesses, f)
        BY <1>1 DEF EvictorOK
    <2>2. I \in SUBSET Nat /\ I # {}
        BY <2>1 DEF Occurs
    <2>3. PICK i \in I : \A j \in I : i <= j
        BY <2>2, LeastNat
    <2>4. /\ i \in DOMAIN e.accesses /\ e.accesses[i] = f
          /\ \A j \in 1 .. i - 1 : e.accesses[j] # f
        BY <2>1, <2>2, <2>3
    <2>5. Oldest(e, f) \in DOMAIN e.accesses
        BY <2>4, Zenon DEF Oldest
    <2> QED
        BY <2>1, <2>5
<1> DEFINE T == {Oldest(e, f) : f \in C}
<1>3. T \in SUBSET Nat /\ T # {}
    BY <1>1, <1>2
<1>4. PICK x \in T : \A y \in T : x <= y
    BY <1>3, LeastNat
<1>5. \E f \in C : \A g \in C : Oldest(e, f) <= Oldest(e, g)
    BY <1>4
<1>6. Victim(e) \in C
    BY <1>5, Zenon DEF Victim
<1> QED
    BY <1>1, <1>6
-----------------------------------------------------------------------------
(***************************************************************************)
(* Every pool, the one smaller than its table included.                    *)
(***************************************************************************)

\* A thread between the two ends of a critical section owns bpm_latch_, and
\* what a flush has still to write stays cached meanwhile.
LatchOwned ==
    \A t \in Threads :
        /\ pc[t] \in {"latching", "flushing", "threw"} => bpm_latch = t
        /\ todo[t] # {} => pc[t] = "flushing"
        /\ todo[t] \subseteq Mapped

\* A thread that is in or past a guard's constructor has the guard.
GuardBuilt ==
    \A t \in Threads :
        pc[t] \in {"latching", "held", "dropped", "upgrading", "downgrading"}
            => guard[t] \in Guards

\* Only allocated pages are cached.
CachedExist == Mapped \subseteq Allocated

BaseInv == TypeOK /\ LatchOwned /\ GuardBuilt /\ CachedExist /\ EvictorOK(evictor)

LEMMA PagesFinite == /\ IsFiniteSet(Pages) /\ Cardinality(Pages) = NumPages
                     /\ \A S \in SUBSET Pages : /\ IsFiniteSet(S)
                                                /\ Cardinality(S) \in Nat
                                                /\ Cardinality(S) <= NumPages
                                                /\ Cardinality(S) = NumPages => S = Pages
<1>1. IsFiniteSet(Pages) /\ Cardinality(Pages) = NumPages
    <2>1. 0 \in Int /\ NumPages - 1 \in Int /\ NumPages \in Nat
        BY SizesAssumption
    <2>2. /\ IsFiniteSet(0 .. NumPages - 1)
          /\ Cardinality(0 .. NumPages - 1) =
                 IF 0 > NumPages - 1 THEN 0 ELSE (NumPages - 1) - 0 + 1
        BY <2>1, FS_Interval
    <2> QED
        BY <2>1, <2>2 DEF Pages
<1>2. ASSUME NEW S \in SUBSET Pages
      PROVE  /\ IsFiniteSet(S) /\ Cardinality(S) \in Nat
             /\ Cardinality(S) <= NumPages
             /\ Cardinality(S) = NumPages => S = Pages
    <2>1. /\ IsFiniteSet(S) /\ Cardinality(S) <= Cardinality(Pages)
          /\ Cardinality(Pages) = Cardinality(S) => Pages = S
        BY <1>1, FS_Subset
    <2> QED
        BY <1>1, <2>1, FS_CardinalityType
<1> QED
    BY <1>1, <1>2

\* ensure_free_frame: there is a first frame to take.
LEMMA FreeListFacts ==
    ASSUME BaseInv, ensure_free_frame
    PROVE  /\ FreeList \in Seq(Frames) /\ FreeList # <<>>
           /\ Head(FreeList) \in Frames /\ Tail(FreeList) \in Seq(Frames)
           /\ EvictorOK(Evictor)
<1>1. free_list \in Seq(Frames) /\ EvictorOK(evictor) /\ evictor.evictable \subseteq Frames
    BY DEF BaseInv, TypeOK
<1>2. CASE free_list # <<>>
    BY <1>1, <1>2 DEF FreeList, Evictor
<1>3. CASE free_list = <<>>
    <2> DEFINE v == Victim(evictor)
    <2>1. v \in Frames
        BY <1>1, <1>3, VictimEvictable DEF ensure_free_frame
    <2> HIDE DEF v
    <2>2. FreeList = <<v>> /\ Evictor = Forget(evictor, v)
        BY <1>3 DEF FreeList, Evictor, v
    <2>3. EvictorOK(Evictor)
        BY <1>1, <2>1, <2>2, EvictableFacts
    <2>4. <<v>> \in Seq(Frames) /\ <<v>> # <<>> /\ Head(<<v>>) = v /\ Tail(<<v>>) \in Seq(Frames)
        BY <2>1
    <2> QED
        BY <2>1, <2>2, <2>3, <2>4
<1> QED
    BY <1>2, <1>3

\* The evictor calls of insert_frame, and of a hit and its guard.
LEMMA EvictorCalls ==
    ASSUME NEW e, EvictorOK(e), NEW f \in Frames
    PROVE  /\ EvictorOK(SetNotEvictable(RecordAccess(e, f), f))
           /\ EvictorOK(RecordAccess(SetNotEvictable(RecordAccess(e, f), f), f))
<1> DEFINE a == RecordAccess(e, f)
<1> DEFINE b == SetNotEvictable(a, f)
<1>1. EvictorOK(a)
    BY RecordAccessFacts
<1> HIDE DEF a
<1>2. EvictorOK(b)
    BY <1>1, EvictableFacts
<1> HIDE DEF b
<1>3. EvictorOK(RecordAccess(b, f))
    BY <1>2, RecordAccessFacts
<1> QED
    BY <1>2, <1>3 DEF a, b

LEMMA FramesFacts == 0 \in Frames /\ \A f \in Frames : f \in Nat
BY SizesAssumption, FramesAssumption

LEMMA InitBase == Init => BaseInv
<1> SUFFICES ASSUME Init PROVE BaseInv
    OBVIOUS
<1>0. free_list \in Seq(Frames) /\ Len(free_list) = NumFrames
    <2>1. NumFrames \in Nat /\ free_list = [i \in 1 .. NumFrames |-> i - 1]
        BY SizesAssumption DEF Init
    <2>2. \A i \in 1 .. NumFrames : i - 1 \in Frames
        BY <2>1, FramesAssumption
    <2> QED
        BY <2>1, <2>2
<1>1. TypeOK
    <2>1. pins \in [Frames -> 0 .. PinModulus - 1]
        BY PinAssumption DEF Init
    <2>2. evictor.evictable \subseteq Frames
        BY DEF Init, Untouched
    <2> QED
        BY <1>0, <2>1, <2>2, ValuesAssumption DEF Init, TypeOK
<1>2. Mapped = {}
    BY DEF Init, Mapped
<1>3. EvictorOK(evictor)
    BY DEF Init, Untouched, EvictorOK
<1>4. LatchOwned /\ GuardBuilt /\ CachedExist
    BY <1>2 DEF Init, LatchOwned, GuardBuilt, CachedExist
<1> QED
    BY <1>1, <1>3, <1>4 DEF BaseInv
-----------------------------------------------------------------------------
(***************************************************************************)
(* insert_frame, for a page that is not cached.                            *)
(***************************************************************************)
LEMMA InsertFrame ==
    ASSUME BaseInv, ensure_free_frame, NEW p \in Pages,
           NEW content \in Values, NEW n \in 0 .. PinModulus - 1,
           insert_frame(p, content, n)
    PROVE  /\ Head(FreeList) \in Frames
           /\ free_list' \in Seq(Frames)
           /\ frame_table' \in [Pages -> Frames \cup {NoFrame}]
           /\ pins' \in [Frames -> 0 .. PinModulus - 1]
           /\ dirty' \in [Frames -> BOOLEAN]
           /\ data' \in [Frames -> Values]
           /\ Mapped' = Mapped \cup {p}
<1> DEFINE f == Head(FreeList)
<1>1. f \in Frames /\ Tail(FreeList) \in Seq(Frames)
    BY FreeListFacts
<1>2. /\ free_list' = Tail(FreeList)
      /\ frame_table' = [frame_table EXCEPT ![p] = f]
      /\ pins' = [pins EXCEPT ![f] = n]
      /\ dirty' = [dirty EXCEPT ![f] = FALSE]
      /\ data' = [data EXCEPT ![f] = content]
    BY DEF insert_frame
<1> HIDE DEF f
<1>3. /\ frame_table' \in [Pages -> Frames \cup {NoFrame}]
      /\ pins' \in [Frames -> 0 .. PinModulus - 1]
      /\ dirty' \in [Frames -> BOOLEAN]
      /\ data' \in [Frames -> Values]
    BY <1>1, <1>2 DEF BaseInv, TypeOK
<1>4. Mapped' = Mapped \cup {p}
    BY <1>1, <1>2, NullAssumption DEF BaseInv, TypeOK, Mapped
<1> QED
    BY <1>1, <1>2, <1>3, <1>4 DEF f

\* A step that leaves the page table alone.
LEMMA TableUnchanged ==
    ASSUME BaseInv, UNCHANGED <<frame_table, num_pages>>
    PROVE  Mapped' = Mapped /\ CachedExist'
BY DEF BaseInv, Mapped, CachedExist, Allocated

LEMMA NewPageBase ==
    ASSUME BaseInv, NEW t \in Threads, new_page(t)
    PROVE  BaseInv'
<1>1. /\ num_pages \in Pages /\ num_pages \notin Mapped /\ num_pages + 1 \in 0 .. NumPages
      /\ ensure_free_frame
      /\ UNCHANGED <<bpm_latch, writer, readers, pc, guard, todo, refs>>
    BY SizesAssumption
       DEF new_page, BaseInv, TypeOK, Pages, CachedExist, Allocated, latchVars
<1>2. CASE /\ num_pages' = num_pages + 1
           /\ disk' = [disk EXCEPT ![num_pages] = Zero]
           /\ insert_frame(num_pages, Zero, 0)
           /\ evictor' = Inserted(Head(FreeList))
           /\ UNCHANGED aborted
    <2>1. 0 \in 0 .. PinModulus - 1 /\ Zero \in Values
        BY PinAssumption, ValuesAssumption
    <2>2. /\ Head(FreeList) \in Frames
          /\ free_list' \in Seq(Frames)
          /\ frame_table' \in [Pages -> Frames \cup {NoFrame}]
          /\ pins' \in [Frames -> 0 .. PinModulus - 1]
          /\ dirty' \in [Frames -> BOOLEAN]
          /\ data' \in [Frames -> Values]
          /\ Mapped' = Mapped \cup {num_pages}
        BY <1>1, <1>2, <2>1, InsertFrame
    <2>3. EvictorOK(evictor')
        BY <1>1, <1>2, <2>2, FreeListFacts, EvictorCalls DEF Inserted
    <2>4. TypeOK'
        BY <1>1, <1>2, <2>1, <2>2, <2>3 DEF BaseInv, TypeOK, EvictorOK
    <2>5. CachedExist'
        BY <1>1, <1>2, <2>2, SizesAssumption
           DEF BaseInv, TypeOK, CachedExist, Allocated, Pages
    <2>6. LatchOwned' /\ GuardBuilt'
        BY <1>1, <2>2 DEF BaseInv, LatchOwned, GuardBuilt
    <2> QED
        BY <2>3, <2>4, <2>5, <2>6 DEF BaseInv
<1>3. CASE aborted' = TRUE /\ UNCHANGED <<poolVars, frameVars, storageVars>>
    <2>1. UNCHANGED <<frame_table, free_list, evictor, pins, dirty, data, disk, num_pages>>
        BY <1>3 DEF poolVars, frameVars, storageVars
    <2>2. Mapped' = Mapped /\ CachedExist'
        BY <2>1, TableUnchanged
    <2>3. TypeOK'
        BY <1>1, <1>3, <2>1 DEF BaseInv, TypeOK
    <2> QED
        BY <1>1, <2>1, <2>2, <2>3 DEF BaseInv, LatchOwned, GuardBuilt
<1> QED
    BY <1>2, <1>3 DEF new_page

\* Construct gives the caller bpm_latch_ and its guard.
LEMMA ConstructBase ==
    ASSUME BaseInv, NEW t \in Threads, bpm_latch = NoThread, pc[t] = "idle",
           NEW p \in Pages, NEW f \in Frames, NEW m \in {"read", "write"},
           Construct(t, p, f, m), UNCHANGED todo, Mapped \subseteq Mapped'
    PROVE  /\ LatchOwned' /\ GuardBuilt'
           /\ bpm_latch' \in Threads \cup {NoThread}
           /\ pc' \in [Threads -> {"idle", "latching", "held", "dropped", "flushing",
                                   "upgrading", "downgrading", "threw"}]
           /\ guard' \in [Threads -> Guards \cup {NoGuard}]
<1>1. [page |-> p, frame |-> f, mode |-> m] \in Guards
    BY DEF Guards
<1>2. \A u \in Threads : pc[u] \notin {"latching", "flushing", "threw"}
    BY NullAssumption DEF BaseInv, LatchOwned
<1>3. /\ bpm_latch' = t
      /\ pc' = [pc EXCEPT ![t] = "latching"]
      /\ guard' = [guard EXCEPT ![t] = [page |-> p, frame |-> f, mode |-> m]]
    BY DEF Construct
<1>4. LatchOwned'
    BY <1>2, <1>3 DEF BaseInv, TypeOK, LatchOwned
<1>5. GuardBuilt'
    BY <1>1, <1>3 DEF BaseInv, TypeOK, GuardBuilt
<1> QED
    BY <1>1, <1>3, <1>4, <1>5 DEF BaseInv, TypeOK

LEMMA HitBase ==
    ASSUME BaseInv, NEW t \in Threads, Locks(t), NEW p \in Pages,
           NEW m \in {"read", "write"}, Hit(t, p, m)
    PROVE  BaseInv'
<1> DEFINE f == frame_table[p]
<1>1. /\ f \in Frames
      /\ evictor' = RecordAccess(SetNotEvictable(RecordAccess(evictor, f), f), f)
      /\ pins' = [pins EXCEPT ![f] = (@ + 1) % PinModulus]
      /\ Construct(t, p, f, m)
      /\ UNCHANGED <<frame_table, free_list, dirty, data, writer, readers, disk,
                     num_pages, todo, refs, aborted>>
    BY DEF Hit, Mapped, BaseInv, TypeOK, latchVars, storageVars
<1> HIDE DEF f
<1>2. Mapped' = Mapped /\ CachedExist'
    BY <1>1, TableUnchanged
<1>3. /\ LatchOwned' /\ GuardBuilt'
      /\ bpm_latch' \in Threads \cup {NoThread}
      /\ pc' \in [Threads -> {"idle", "latching", "held", "dropped", "flushing",
                              "upgrading", "downgrading", "threw"}]
      /\ guard' \in [Threads -> Guards \cup {NoGuard}]
    BY <1>1, <1>2, ConstructBase DEF Locks
<1>4. pins' \in [Frames -> 0 .. PinModulus - 1]
    <2>1. pins[f] \in Nat /\ PinModulus \in Nat \ {0}
        BY <1>1, PinAssumption DEF BaseInv, TypeOK
    <2>2. (pins[f] + 1) % PinModulus \in 0 .. PinModulus - 1
        BY <2>1
    <2> QED
        BY <1>1, <2>2 DEF BaseInv, TypeOK
<1>5. EvictorOK(evictor')
    BY <1>1, EvictorCalls DEF BaseInv
<1>6. TypeOK'
    BY <1>1, <1>3, <1>4, <1>5 DEF BaseInv, TypeOK, EvictorOK
<1> QED
    BY <1>2, <1>3, <1>5, <1>6 DEF BaseInv

LEMMA MissBase ==
    ASSUME BaseInv, NEW t \in Threads, Locks(t),
           NEW p \in Pages, NEW m \in {"read", "write"}, Miss(t, p, m)
    PROVE  BaseInv'
<1> DEFINE f == Head(FreeList)
<1>1. p \in Allocated /\ ensure_free_frame
    BY DEF Miss
<1>2. /\ insert_frame(p, disk[p], 1)
      /\ evictor' = RecordAccess(Inserted(f), f)
      /\ Construct(t, p, f, m)
      /\ UNCHANGED <<writer, readers, disk, num_pages, todo, refs, aborted>>
    BY DEF Miss, latchVars, storageVars
<1>3. 1 \in 0 .. PinModulus - 1 /\ disk[p] \in Values
    BY PinAssumption DEF BaseInv, TypeOK
<1>4. /\ f \in Frames
      /\ free_list' \in Seq(Frames)
      /\ frame_table' \in [Pages -> Frames \cup {NoFrame}]
      /\ pins' \in [Frames -> 0 .. PinModulus - 1]
      /\ dirty' \in [Frames -> BOOLEAN]
      /\ data' \in [Frames -> Values]
      /\ Mapped' = Mapped \cup {p}
    BY <1>1, <1>2, <1>3, InsertFrame
<1> HIDE DEF f
<1>5. EvictorOK(evictor')
    BY <1>1, <1>2, <1>4, FreeListFacts, EvictorCalls DEF Inserted
<1>6. /\ LatchOwned' /\ GuardBuilt'
      /\ bpm_latch' \in Threads \cup {NoThread}
      /\ pc' \in [Threads -> {"idle", "latching", "held", "dropped", "flushing",
                              "upgrading", "downgrading", "threw"}]
      /\ guard' \in [Threads -> Guards \cup {NoGuard}]
    BY <1>2, <1>4, ConstructBase DEF Locks
<1>7. TypeOK'
    BY <1>2, <1>4, <1>5, <1>6 DEF BaseInv, TypeOK, EvictorOK
<1>8. CachedExist'
    BY <1>1, <1>2, <1>4 DEF BaseInv, CachedExist, Allocated
<1> QED
    BY <1>5, <1>6, <1>7, <1>8 DEF BaseInv

LEMMA MissThrowsBase ==
    ASSUME BaseInv, NEW t \in Threads, Locks(t), NEW p \in Pages, MissThrows(t, p)
    PROVE  BaseInv'
<1>1. free_list' \in Seq(Frames) /\ EvictorOK(evictor')
    BY FreeListFacts DEF MissThrows
<1>2. /\ bpm_latch' = t /\ pc' = [pc EXCEPT ![t] = "threw"]
      /\ UNCHANGED <<frame_table, pins, dirty, data, writer,
                     readers, disk, num_pages, guard, todo, refs, aborted>>
    BY DEF MissThrows, frameVars, latchVars, storageVars
<1>3. Mapped' = Mapped /\ CachedExist'
    BY <1>2, TableUnchanged
<1>4. TypeOK'
    BY <1>1, <1>2 DEF BaseInv, TypeOK, EvictorOK
<1>5. LatchOwned'
    <2>1. \A u \in Threads : pc[u] \notin {"latching", "flushing", "threw"}
        BY NullAssumption DEF Locks, BaseInv, LatchOwned
    <2> QED
        BY <1>2, <1>3, <2>1 DEF BaseInv, TypeOK, LatchOwned
<1>6. GuardBuilt'
    BY <1>2 DEF BaseInv, TypeOK, GuardBuilt
<1> QED
    BY <1>1, <1>3, <1>4, <1>5, <1>6 DEF BaseInv

LEMMA LatchedBase == ASSUME BaseInv, NEW t \in Threads, Latched(t) PROVE BaseInv'
<1>1. guard[t] \in Guards /\ guard[t].frame \in Frames /\ bpm_latch = t
    BY DEF Latched, BaseInv, GuardBuilt, Guards, LatchOwned
<1>2. /\ bpm_latch' = NoThread /\ pc' = [pc EXCEPT ![t] = "held"]
      /\ UNCHANGED <<frame_table, free_list, evictor, pins, dirty, data, disk,
                     num_pages, guard, todo, refs, aborted>>
    BY DEF Latched, poolVars, frameVars, storageVars
<1>3. Mapped' = Mapped /\ CachedExist'
    BY <1>2, TableUnchanged
<1>4. /\ writer' \in [Frames -> Threads \cup {NoThread}]
      /\ readers' \in [Frames -> SUBSET Threads]
    <2>1. CASE /\ readers' = [readers EXCEPT ![guard[t].frame] = @ \cup {t}]
               /\ UNCHANGED writer
        BY <1>1, <2>1 DEF BaseInv, TypeOK
    <2>2. CASE /\ writer' = [writer EXCEPT ![guard[t].frame] = t]
               /\ UNCHANGED readers
        BY <1>1, <2>2 DEF BaseInv, TypeOK
    <2> QED
        BY <2>1, <2>2 DEF Latched
<1>5. TypeOK'
    BY <1>2, <1>4 DEF BaseInv, TypeOK
<1>6. LatchOwned'
    <2>1. \A u \in Threads : u # t => pc[u] \notin {"latching", "flushing", "threw"}
        BY <1>1 DEF BaseInv, LatchOwned
    <2> QED
        BY <1>2, <1>3, <2>1 DEF Latched, BaseInv, TypeOK, LatchOwned
<1>7. GuardBuilt'
    BY <1>1, <1>2 DEF BaseInv, TypeOK, GuardBuilt
<1> QED
    BY <1>2, <1>3, <1>5, <1>6, <1>7 DEF BaseInv

LEMMA EvictPageBase ==
    ASSUME BaseInv, NEW t \in Threads, NEW p \in Pages, evict_page(t, p)
    PROVE  BaseInv' /\ Mapped' = Mapped \ {p}
<1> DEFINE f == frame_table[p]
<1>1. /\ f \in Frames /\ p \in Mapped /\ bpm_latch = NoThread
      /\ frame_table' = [frame_table EXCEPT ![p] = NoFrame]
      /\ dirty' = [dirty EXCEPT ![f] = FALSE]
      /\ data' = [data EXCEPT ![f] = Zero]
      /\ pins' = [pins EXCEPT ![f] = 0]
      /\ free_list' = Append(free_list, f)
      /\ evictor' = Forget(evictor, f)
      /\ UNCHANGED <<bpm_latch, writer, readers, disk, num_pages, pc, guard, todo, refs,
                     aborted>>
    BY DEF evict_page, Mapped, BaseInv, TypeOK, latchVars, storageVars, Locks
<1> HIDE DEF f
<1>2. Mapped' = Mapped \ {p}
    BY <1>1 DEF Mapped, BaseInv, TypeOK
<1>3. free_list' \in Seq(Frames)
    BY <1>1 DEF BaseInv, TypeOK
<1>5. EvictorOK(evictor')
    BY <1>1, EvictableFacts DEF BaseInv
<1>6. 0 \in 0 .. PinModulus - 1 /\ Zero \in Values
    BY PinAssumption, ValuesAssumption
<1>7. TypeOK'
    BY <1>1, <1>3, <1>5, <1>6 DEF BaseInv, TypeOK, EvictorOK
<1>8. LatchOwned'
    <2>1. \A u \in Threads : pc[u] \notin {"latching", "flushing", "threw"} /\ todo[u] = {}
        BY <1>1, NullAssumption DEF BaseInv, LatchOwned
    <2> QED
        BY <1>1, <2>1 DEF LatchOwned
<1>9. GuardBuilt' /\ CachedExist'
    BY <1>1, <1>2 DEF BaseInv, GuardBuilt, CachedExist, Allocated
<1> QED
    BY <1>2, <1>5, <1>7, <1>8, <1>9 DEF BaseInv

LEMMA StartFlushBase ==
    ASSUME BaseInv, NEW t \in Threads, NEW ps \in SUBSET Mapped, StartFlush(t, ps)
    PROVE  BaseInv'
<1>1. /\ bpm_latch = NoThread /\ bpm_latch' = t
      /\ pc' = [pc EXCEPT ![t] = "flushing"]
      /\ todo' = [todo EXCEPT ![t] = ps]
      /\ UNCHANGED <<frame_table, free_list, evictor, pins, dirty, data, writer,
                     readers, disk, num_pages, guard, refs, aborted>>
    BY DEF StartFlush, Locks, poolVars, frameVars, latchVars, storageVars
<1>2. Mapped' = Mapped /\ CachedExist'
    BY <1>1, TableUnchanged
<1>3. ps \in SUBSET Pages
    BY DEF Mapped
<1>4. TypeOK'
    BY <1>1, <1>3 DEF BaseInv, TypeOK
<1>5. LatchOwned'
    <2>1. \A u \in Threads : pc[u] \notin {"latching", "flushing", "threw"} /\ todo[u] = {}
        BY <1>1, NullAssumption DEF BaseInv, LatchOwned
    <2> QED
        BY <1>1, <1>2, <2>1 DEF BaseInv, TypeOK, LatchOwned
<1>6. GuardBuilt'
    BY <1>1 DEF BaseInv, TypeOK, GuardBuilt
<1> QED
    BY <1>1, <1>2, <1>4, <1>5, <1>6 DEF BaseInv

LEMMA FlushOneBase == ASSUME BaseInv, NEW t \in Threads, FlushOne(t) PROVE BaseInv'
<1>1. PICK p \in todo[t] :
          /\ disk' = [disk EXCEPT ![p] = data[frame_table[p]]]
          /\ dirty' = [dirty EXCEPT ![frame_table[p]] = FALSE]
          /\ todo' = [todo EXCEPT ![t] = @ \ {p}]
          /\ IF todo[t] = {p}
             THEN bpm_latch' = NoThread /\ pc' = [pc EXCEPT ![t] = "idle"]
             ELSE UNCHANGED <<bpm_latch, pc>>
    BY DEF FlushOne
<1>2. /\ pc[t] = "flushing" /\ bpm_latch = t
      /\ UNCHANGED <<frame_table, free_list, evictor, pins, data, writer, readers,
                     num_pages, guard, refs, aborted>>
    BY DEF FlushOne, BaseInv, LatchOwned, poolVars, latchVars
<1>3. p \in Mapped /\ p \in Pages /\ frame_table[p] \in Frames
    BY <1>1 DEF BaseInv, LatchOwned, Mapped, TypeOK
<1>4. Mapped' = Mapped /\ CachedExist'
    BY <1>2, TableUnchanged
<1>5. TypeOK'
    BY <1>1, <1>2, <1>3 DEF BaseInv, TypeOK
<1>6. LatchOwned'
    <2>1. \A u \in Threads : u # t => /\ pc[u] \notin {"latching", "flushing", "threw"}
                                      /\ todo[u] = {}
        BY <1>2 DEF BaseInv, LatchOwned
    <2>2. todo'[t] = todo[t] \ {p} /\ \A u \in Threads : u # t => todo'[u] = todo[u]
        BY <1>1 DEF BaseInv, TypeOK
    <2>3. CASE todo[t] = {p}
        BY <1>1, <1>4, <2>1, <2>2, <2>3 DEF BaseInv, TypeOK, LatchOwned
    <2>4. CASE todo[t] # {p}
        BY <1>1, <1>2, <1>4, <2>1, <2>2, <2>4 DEF BaseInv, TypeOK, LatchOwned
    <2> QED
        BY <2>3, <2>4
<1>7. GuardBuilt'
    BY <1>1, <1>2 DEF BaseInv, TypeOK, GuardBuilt
<1> QED
    BY <1>2, <1>4, <1>5, <1>6, <1>7 DEF BaseInv

\* The steps of a thread that holds a guard, the page table and bpm_latch_
\* being left alone.
LEMMA GuardStepBase ==
    ASSUME BaseInv, NEW t \in Threads,
           pc[t] \in {"held", "dropped", "upgrading", "downgrading"},
           NEW s \in {"held", "dropped", "upgrading", "downgrading"},
           pc' = [pc EXCEPT ![t] = s],
           UNCHANGED <<frame_table, num_pages, bpm_latch, guard, todo>>
    PROVE  /\ LatchOwned' /\ GuardBuilt' /\ CachedExist'
           /\ guard[t] \in Guards /\ guard[t].frame \in Frames /\ guard[t].page \in Pages
           /\ pc' \in [Threads -> {"idle", "latching", "held", "dropped", "flushing",
                                   "upgrading", "downgrading", "threw"}]
<1>1. Mapped' = Mapped /\ CachedExist'
    BY TableUnchanged
<1>2. guard[t] \in Guards /\ guard[t].frame \in Frames /\ guard[t].page \in Pages
    BY DEF BaseInv, GuardBuilt, Guards
<1>3. LatchOwned'
    BY <1>1 DEF BaseInv, TypeOK, LatchOwned
<1>4. GuardBuilt'
    BY <1>2 DEF BaseInv, TypeOK, GuardBuilt
<1> QED
    BY <1>1, <1>2, <1>3, <1>4 DEF BaseInv, TypeOK

LEMMA WriteBase ==
    ASSUME BaseInv, NEW t \in Threads,
           get_data_mut(t) \/ \E v \in Values : write_data(t, v)
    PROVE  BaseInv'
<1>1. /\ pc[t] = "held"
      /\ \/ dirty' = [dirty EXCEPT ![guard[t].frame] = TRUE]
         \/ dirty' = dirty
      /\ \/ \E v \in Values : data' = [data EXCEPT ![guard[t].frame] = v]
         \/ data' = data
      /\ refs' = refs \cup {t} \/ refs' = refs
      /\ UNCHANGED <<bpm_latch, frame_table, free_list, evictor, pins, writer, readers,
                     disk, num_pages, pc, guard, todo, aborted>>
    BY DEF get_data_mut, write_data, Holds, poolVars, latchVars, storageVars
<1>2. pc' = [pc EXCEPT ![t] = "held"]
    BY <1>1 DEF BaseInv, TypeOK
<1>3. /\ LatchOwned' /\ GuardBuilt' /\ CachedExist'
      /\ guard[t].frame \in Frames
    BY <1>1, <1>2, GuardStepBase
<1>4. dirty' \in [Frames -> BOOLEAN] /\ data' \in [Frames -> Values]
    BY <1>1, <1>3 DEF BaseInv, TypeOK
<1>5. TypeOK'
    BY <1>1, <1>4 DEF BaseInv, TypeOK
<1> QED
    BY <1>1, <1>3, <1>5 DEF BaseInv

LEMMA WriteBackBase ==
    ASSUME BaseInv, NEW t \in Threads, WriteBack(t), UNCHANGED latchVars, refs' \subseteq refs,
           \/ pc[t] = "held" /\ UNCHANGED pc
           \/ pc[t] = "upgrading" /\ pc' = [pc EXCEPT ![t] = "downgrading"]
    PROVE  BaseInv'
<1>1. /\ disk' = [disk EXCEPT ![guard[t].page] = data[guard[t].frame]]
      /\ dirty' = [dirty EXCEPT ![guard[t].frame] = FALSE]
      /\ UNCHANGED <<bpm_latch, frame_table, free_list, evictor, pins, data, writer,
                     readers, num_pages, guard, todo, aborted>>
    BY DEF WriteBack, poolVars, latchVars
<1>2. PICK s \in {"held", "downgrading"} : pc' = [pc EXCEPT ![t] = s]
    BY DEF BaseInv, TypeOK
<1>3. /\ LatchOwned' /\ GuardBuilt' /\ CachedExist'
      /\ guard[t].frame \in Frames /\ guard[t].page \in Pages
      /\ pc' \in [Threads -> {"idle", "latching", "held", "dropped", "flushing",
                              "upgrading", "downgrading", "threw"}]
    BY <1>1, <1>2, GuardStepBase
<1>4. TypeOK'
    BY <1>1, <1>3 DEF BaseInv, TypeOK
<1> QED
    BY <1>1, <1>3, <1>4 DEF BaseInv

LEMMA ReadFlushBase ==
    ASSUME BaseInv, NEW t \in Threads, ReadGuardFlush(t) \/ Downgraded(t)
    PROVE  BaseInv'
<1>1. /\ pc[t] \in {"held", "downgrading"}
      /\ \E s \in {"held", "upgrading"} : pc' = [pc EXCEPT ![t] = s]
      /\ \/ readers' = [readers EXCEPT ![guard[t].frame] = @ \ {t}]
         \/ readers' = [readers EXCEPT ![guard[t].frame] = @ \cup {t}]
      /\ UNCHANGED <<bpm_latch, frame_table, free_list, evictor, pins, dirty, data,
                     writer, disk, num_pages, guard, todo, refs, aborted>>
    BY DEF ReadGuardFlush, Downgraded, Holds, poolVars, frameVars, storageVars
<1>2. PICK s \in {"held", "upgrading"} : pc' = [pc EXCEPT ![t] = s]
    BY <1>1
<1>3. /\ LatchOwned' /\ GuardBuilt' /\ CachedExist'
      /\ guard[t].frame \in Frames
      /\ pc' \in [Threads -> {"idle", "latching", "held", "dropped", "flushing",
                              "upgrading", "downgrading", "threw"}]
    BY <1>1, <1>2, GuardStepBase
<1>4. readers' \in [Frames -> SUBSET Threads]
    <2>1. readers \in [Frames -> SUBSET Threads]
        BY DEF BaseInv, TypeOK
    <2>2. CASE readers' = [readers EXCEPT ![guard[t].frame] = @ \ {t}]
        BY <1>3, <2>1, <2>2
    <2>3. CASE readers' = [readers EXCEPT ![guard[t].frame] = @ \cup {t}]
        BY <1>3, <2>1, <2>3
    <2> QED
        BY <1>1, <2>2, <2>3
<1>5. TypeOK'
    BY <1>1, <1>3, <1>4 DEF BaseInv, TypeOK
<1> QED
    BY <1>1, <1>3, <1>5 DEF BaseInv

LEMMA DropBase == ASSUME BaseInv, NEW t \in Threads, drop(t) PROVE BaseInv'
<1> DEFINE f == guard[t].frame
<1>1. /\ pc[t] = "held" /\ pc' = [pc EXCEPT ![t] = "dropped"]
      /\ pins' = [pins EXCEPT ![f] = (@ + PinModulus - 1) % PinModulus]
      /\ refs' \subseteq refs
      /\ evictor' = IF pins[f] = 1 THEN SetEvictable(evictor, f) ELSE evictor
      /\ UNCHANGED <<bpm_latch, frame_table, free_list, dirty, data, writer, readers,
                     disk, num_pages, guard, todo, aborted>>
    BY DEF drop, latchVars, storageVars
<1>2. /\ LatchOwned' /\ GuardBuilt' /\ CachedExist'
      /\ f \in Frames
      /\ pc' \in [Threads -> {"idle", "latching", "held", "dropped", "flushing",
                              "upgrading", "downgrading", "threw"}]
    BY <1>1, GuardStepBase
<1> HIDE DEF f
<1>3. pins' \in [Frames -> 0 .. PinModulus - 1]
    <2>1. pins[f] \in Nat /\ PinModulus \in Nat \ {0}
        BY <1>2, PinAssumption DEF BaseInv, TypeOK
    <2>2. (pins[f] + PinModulus - 1) % PinModulus \in 0 .. PinModulus - 1
        BY <2>1
    <2> QED
        BY <1>1, <2>2 DEF BaseInv, TypeOK
<1>4. EvictorOK(evictor')
    BY <1>1, <1>2, EvictableFacts DEF BaseInv
<1>5. TypeOK'
    BY <1>1, <1>2, <1>3, <1>4 DEF BaseInv, TypeOK, EvictorOK
<1> QED
    BY <1>2, <1>4, <1>5 DEF BaseInv

LEMMA UnlatchBase == ASSUME BaseInv, NEW t \in Threads, Unlatch(t) PROVE BaseInv'
<1> DEFINE f == guard[t].frame
<1>1. /\ pc[t] = "dropped" /\ pc' = [pc EXCEPT ![t] = "idle"]
      /\ guard' = [guard EXCEPT ![t] = NoGuard]
      /\ writer' = [writer EXCEPT ![f] = IF @ = t THEN NoThread ELSE @]
      /\ readers' = [readers EXCEPT ![f] = @ \ {t}]
      /\ UNCHANGED <<bpm_latch, frame_table, free_list, evictor, pins, dirty, data,
                     disk, num_pages, todo, refs, aborted>>
    BY DEF Unlatch, poolVars, frameVars, storageVars
<1>2. Mapped' = Mapped /\ CachedExist'
    BY <1>1, TableUnchanged
<1>3. TypeOK'
    <2>1. f \in Frames
        BY <1>1 DEF BaseInv, GuardBuilt, Guards
    <2> HIDE DEF f
    <2>2. writer' \in [Frames -> Threads \cup {NoThread}]
        BY <1>1, <2>1 DEF BaseInv, TypeOK
    <2>3. readers' \in [Frames -> SUBSET Threads]
        BY <1>1, <2>1 DEF BaseInv, TypeOK
    <2> QED
        BY <1>1, <2>2, <2>3 DEF BaseInv, TypeOK
<1>4. LatchOwned'
    BY <1>1, <1>2 DEF BaseInv, TypeOK, LatchOwned
<1>5. GuardBuilt'
    BY <1>1 DEF BaseInv, TypeOK, GuardBuilt
<1> QED
    BY <1>1, <1>2, <1>3, <1>4, <1>5 DEF BaseInv

LEMMA NextBase ==
    ASSUME BaseInv, [Next]_vars
    PROVE  BaseInv'
<1>1. CASE UNCHANGED vars
    <2>1. Mapped' = Mapped /\ CachedExist'
        BY <1>1, TableUnchanged DEF vars, poolVars, storageVars
    <2> QED
        BY <1>1, <2>1 DEF vars, poolVars, frameVars, latchVars, storageVars, BaseInv,
                          TypeOK, LatchOwned, GuardBuilt
<1>2. ASSUME NEW t \in Threads, Call(t) PROVE BaseInv'
    <2>1. CASE new_page(t)
        BY <2>1, NewPageBase
    <2>2. ASSUME NEW p \in Pages, read_page(t, p) PROVE BaseInv'
        BY <2>2, HitBase, MissBase, MissThrowsBase DEF read_page
    <2>3. ASSUME NEW p \in Pages, write_page(t, p) PROVE BaseInv'
        BY <2>3, HitBase, MissBase, MissThrowsBase DEF write_page
    <2>4. ASSUME NEW p \in Pages, evict_page(t, p) PROVE BaseInv'
        BY <2>4, EvictPageBase
    <2>5. ASSUME NEW p \in Pages, flush_page(t, p) PROVE BaseInv'
        BY <2>5, StartFlushBase DEF flush_page
    <2>6. CASE flush_all_pages(t)
        BY <2>6, StartFlushBase DEF flush_all_pages
    <2>7. CASE get_data_mut(t) \/ \E v \in Values : write_data(t, v)
        BY <2>7, WriteBase
    <2>8. CASE WriteGuardFlush(t)
        BY <2>8, WriteBackBase DEF WriteGuardFlush, Holds
    <2>9. CASE ReadGuardFlush(t)
        BY <2>9, ReadFlushBase
    <2> QED
        BY <1>2, <2>1, <2>2, <2>3, <2>4, <2>5, <2>6, <2>7, <2>8, <2>9 DEF Call
<1>3. ASSUME NEW t \in Threads, Continue(t) PROVE BaseInv'
    <2>1. CASE Upgraded(t)
        BY <2>1, WriteBackBase DEF Upgraded
    <2> QED
        BY <1>3, <2>1, LatchedBase, FlushOneBase, ReadFlushBase, DropBase, UnlatchBase
           DEF Continue
<1> QED
    BY <1>1, <1>2, <1>3 DEF Next

\* The pool's fields, frames and threads keep their types: pins_ stays in its
\* size_t, every guard names a page and a frame of the pool, and the evictor
\* only ever proposes frames (bufferpool.h 60-83, pageguard.h).
THEOREM PoolTypeCorrect == Spec => []TypeOK
<1>1. Init => BaseInv
    BY InitBase
<1>2. BaseInv /\ [Next]_vars => BaseInv'
    BY NextBase
<1>3. BaseInv => TypeOK
    BY DEF BaseInv
<1> QED
    BY <1>1, <1>2, <1>3, PTL DEF Spec

-----------------------------------------------------------------------------
(***************************************************************************)
(* The page table and free_list_.                                          *)
(***************************************************************************)

\* The only ways they change: a page gets the first frame of the list, gives
\* its frame back, or a read that throws leaves the evictor's victim there.
Fills(p, list) == /\ p \notin Mapped /\ list # <<>>
                  /\ frame_table' = [frame_table EXCEPT ![p] = Head(list)]
                  /\ free_list' = Tail(list)

Frees(p) == /\ p \in Mapped
            /\ frame_table' = [frame_table EXCEPT ![p] = NoFrame]
            /\ free_list' = Append(free_list, frame_table[p])

Refills(p) == /\ p \notin Mapped /\ ensure_free_frame
              /\ frame_table' = frame_table
              /\ free_list' = FreeList

TableStep == \/ UNCHANGED <<frame_table, free_list>>
             \/ \E p \in Pages : \/ ensure_free_frame /\ Fills(p, FreeList)
                                 \/ Frees(p)
                                 \/ Refills(p)

LEMMA InsertFills ==
    ASSUME BaseInv, NEW p \in Pages, p \notin Mapped, ensure_free_frame,
           NEW content, NEW n, insert_frame(p, content, n)
    PROVE  TableStep
<1>1. FreeList # <<>>
    BY FreeListFacts
<1> QED
    BY <1>1 DEF insert_frame, TableStep, Fills

LEMMA NextTable ==
    ASSUME BaseInv, [Next]_vars
    PROVE  TableStep
<1>1. ASSUME NEW t \in Threads, new_page(t) PROVE TableStep
    <2>1. num_pages \in Pages /\ num_pages \notin Mapped /\ ensure_free_frame
        BY <1>1, SizesAssumption
           DEF new_page, BaseInv, TypeOK, Pages, CachedExist, Allocated
    <2>2. CASE insert_frame(num_pages, Zero, 0)
        BY <2>1, <2>2, InsertFills
    <2> QED
        BY <1>1, <2>2 DEF new_page, poolVars, TableStep
<1>2. ASSUME NEW t \in Threads, NEW p \in Pages, NEW m,
             Hit(t, p, m) \/ Miss(t, p, m) \/ MissThrows(t, p)
      PROVE  TableStep
    <2>1. CASE Hit(t, p, m)
        BY <2>1 DEF Hit, TableStep
    <2>2. CASE Miss(t, p, m)
        BY <2>2, InsertFills DEF Miss
    <2>3. CASE MissThrows(t, p)
        BY <2>3 DEF MissThrows, TableStep, Refills
    <2> QED
        BY <1>2, <2>1, <2>2, <2>3
<1>3. ASSUME NEW t \in Threads, NEW p \in Pages, evict_page(t, p) PROVE TableStep
    BY <1>3 DEF evict_page, TableStep, Frees
<1>4. ASSUME NEW t \in Threads,
             \/ \E p \in Pages : flush_page(t, p)
             \/ flush_all_pages(t)
             \/ get_data_mut(t)
             \/ \E v \in Values : write_data(t, v)
             \/ WriteGuardFlush(t)
             \/ ReadGuardFlush(t)
      PROVE  TableStep
    BY <1>4 DEF flush_page, flush_all_pages, StartFlush, get_data_mut, write_data,
                WriteGuardFlush, WriteBack, ReadGuardFlush, poolVars, TableStep
<1>5. ASSUME NEW t \in Threads, Continue(t) PROVE TableStep
    BY <1>5 DEF Continue, Latched, FlushOne, Upgraded, WriteBack, Downgraded, drop,
                Unlatch, poolVars, TableStep
<1>6. CASE UNCHANGED vars
    BY <1>6 DEF vars, poolVars, TableStep
<1>7. ASSUME NEW t \in Threads, Call(t) PROVE TableStep
    BY <1>7, <1>1, <1>2, <1>3, <1>4 DEF Call, read_page, write_page
<1> QED
    BY <1>5, <1>6, <1>7 DEF Next

OnList(list, f) == \E i \in DOMAIN list : list[i] = f
Caches(f) == \E p \in Pages : frame_table[p] = f

\* The head of a list and the rest of it; one more at the end.
LEMMA ListParts ==
    ASSUME NEW list \in Seq(Frames), NEW f \in Frames
    PROVE  /\ list # <<>> /\ OnList(list, f) => f = Head(list) \/ OnList(Tail(list), f)
           /\ \A g : OnList(list, g) \/ g = f => OnList(Append(list, f), g)
<1>1. ASSUME list # <<>>, NEW i \in DOMAIN list, list[i] = f
      PROVE  f = Head(list) \/ OnList(Tail(list), f)
    <2>1. CASE i = 1
        BY <1>1, <2>1
    <2>2. CASE i # 1
        <3>1. i - 1 \in DOMAIN Tail(list) /\ Tail(list)[i - 1] = list[i]
            BY <1>1, <2>2
        <3> QED
            BY <1>1, <3>1 DEF OnList
    <2> QED
        BY <2>1, <2>2
<1>2. ASSUME NEW g, OnList(list, g) \/ g = f PROVE OnList(Append(list, f), g)
    <2>1. CASE g = f
        <3>1. Len(list) + 1 \in DOMAIN Append(list, f) /\ Append(list, f)[Len(list) + 1] = f
            OBVIOUS
        <3> QED
            BY <2>1, <3>1 DEF OnList
    <2>2. CASE OnList(list, g)
        <3>1. PICK i \in DOMAIN list : list[i] = g
            BY <2>2 DEF OnList
        <3>2. i \in DOMAIN Append(list, f) /\ Append(list, f)[i] = g
            BY <3>1
        <3> QED
            BY <3>2 DEF OnList
    <2> QED
        BY <1>2, <2>1, <2>2
<1> QED
    BY <1>1, <1>2 DEF OnList

LEMMA NotLostStep ==
    ASSUME BaseInv, NoFrameLost, TableStep
    PROVE  NoFrameLost'
<1> SUFFICES ASSUME NEW f \in Frames PROVE OnList(free_list', f) \/ Caches(f)'
    BY DEF NoFrameLost, OnList, Caches
<1>0. /\ frame_table \in [Pages -> Frames \cup {NoFrame}] /\ free_list \in Seq(Frames)
      /\ NoFrame \notin Frames
    BY NullAssumption DEF BaseInv, TypeOK
<1>1. OnList(free_list, f) \/ Caches(f)
    BY DEF NoFrameLost, OnList, Caches
<1>2. CASE UNCHANGED <<frame_table, free_list>>
    BY <1>1, <1>2 DEF OnList, Caches
<1>3. ensure_free_frame => FreeList \in Seq(Frames) /\ FreeList # <<>>
    BY FreeListFacts
<1>4. OnList(free_list, f) => OnList(FreeList, f)
    BY <1>0 DEF FreeList, OnList
<1>5. ASSUME NEW p \in Pages, ensure_free_frame, Fills(p, FreeList)
      PROVE  OnList(free_list', f) \/ Caches(f)'
    <2>1. frame_table'[p] = Head(FreeList) /\ free_list' = Tail(FreeList)
        BY <1>0, <1>5 DEF Fills
    <2>2. ASSUME NEW q \in Pages, frame_table[q] = f PROVE frame_table'[q] = f
        BY <1>0, <1>5, <2>2 DEF Fills, Mapped
    <2>3. CASE Caches(f)
        BY <2>2, <2>3 DEF Caches
    <2>4. CASE OnList(free_list, f)
        <3>1. f = Head(FreeList) \/ OnList(free_list', f)
            BY <1>3, <1>4, <1>5, <2>1, <2>4, ListParts
        <3> QED
            BY <2>1, <3>1 DEF Caches
    <2> QED
        BY <1>1, <2>3, <2>4
<1>6. ASSUME NEW p \in Pages, Frees(p)
      PROVE  OnList(free_list', f) \/ Caches(f)'
    <2>1. /\ frame_table[p] \in Frames /\ free_list' = Append(free_list, frame_table[p])
          /\ \A q \in Pages : q # p => frame_table'[q] = frame_table[q]
        BY <1>0, <1>6 DEF Frees, Mapped
    <2>2. OnList(free_list, f) \/ f = frame_table[p] => OnList(free_list', f)
        BY <1>0, <2>1, ListParts
    <2> QED
        BY <1>1, <2>1, <2>2 DEF Caches
<1>7. ASSUME NEW p \in Pages, Refills(p)
      PROVE  OnList(free_list', f) \/ Caches(f)'
    BY <1>1, <1>4, <1>7 DEF Refills, Caches
<1> QED
    BY <1>2, <1>5, <1>6, <1>7 DEF TableStep

\* No frame is ever lost, in a pool of any size: a frame taken from
\* free_list_, or from the page the evictor chose, is in the page table when
\* bpm_latch_ is given up, and evict_page puts it back; only the exception of
\* a read past the last page leaves it on free_list_ (bufferpool.cpp 25-54,
\* 127-155).
THEOREM FramesNeverLost == Spec => []NoFrameLost
<1>1. Init => BaseInv /\ NoFrameLost
    <2> SUFFICES ASSUME Init, NEW f \in Frames
                 PROVE  \E i \in DOMAIN free_list : free_list[i] = f
        BY InitBase DEF NoFrameLost
    <2>1. /\ f \in Nat /\ f + 1 \in 1 .. NumFrames
          /\ free_list = [i \in 1 .. NumFrames |-> i - 1]
        BY SizesAssumption, FramesAssumption DEF Init
    <2>2. f + 1 \in DOMAIN free_list /\ free_list[f + 1] = f
        BY <2>1
    <2> QED
        BY <2>2
<1>2. BaseInv /\ NoFrameLost /\ [Next]_vars => BaseInv' /\ NoFrameLost'
    BY NextBase, NextTable, NotLostStep
<1> QED
    BY <1>1, <1>2, PTL DEF Spec
-----------------------------------------------------------------------------
(***************************************************************************)
(* While the table fits in the pool.                                       *)
(***************************************************************************)
FitInv == BaseInv /\ SizeAssert

\* A page that is not cached finds free_list_ not empty, and nothing is ever
\* evicted behind the clients' back.
LEMMA MissFindsFreeFrame ==
    ASSUME NumPages <= NumFrames, FitInv, NEW p \in Pages, p \notin Mapped
    PROVE  /\ Len(free_list) > 0 /\ free_list # <<>>
           /\ FreeList = free_list /\ Evictor = evictor
           /\ Cardinality(Mapped) < NumFrames
<1>1. Mapped \in SUBSET Pages /\ Mapped # Pages
    BY DEF Mapped
<1>2. Cardinality(Mapped) \in Nat /\ Cardinality(Mapped) < NumPages
    BY <1>1, PagesFinite, SizesAssumption
<1>3. free_list \in Seq(Frames) /\ Len(free_list) + Cardinality(Mapped) = NumFrames
    BY DEF FitInv, BaseInv, TypeOK, SizeAssert, size_assert
<1>4. Len(free_list) > 0 /\ free_list # <<>>
    BY <1>2, <1>3, SizesAssumption
<1> QED
    BY <1>2, <1>4, SizesAssumption DEF FreeList, Evictor

FitStep == \/ UNCHANGED <<frame_table, free_list>>
           \/ \E p \in Pages : Fills(p, free_list) \/ Frees(p)

LEMMA TableFits ==
    ASSUME NumPages <= NumFrames, FitInv, TableStep
    PROVE  FitStep
<1>1. ASSUME NEW p \in Pages, Fills(p, FreeList) \/ Refills(p) PROVE FitStep
    <2>1. p \notin Mapped
        BY <1>1 DEF Fills, Refills
    <2>2. FreeList = free_list
        BY <2>1, MissFindsFreeFrame
    <2> QED
        BY <1>1, <2>2 DEF FitStep, Refills
<1> QED
    BY <1>1 DEF TableStep, FitStep

LEMMA SizeStep ==
    ASSUME FitInv, FitStep
    PROVE  SizeAssert'
<1>0. /\ frame_table \in [Pages -> Frames \cup {NoFrame}] /\ free_list \in Seq(Frames)
      /\ NoFrame \notin Frames
      /\ Len(free_list) + Cardinality(Mapped) = NumFrames
    BY NullAssumption DEF FitInv, BaseInv, TypeOK, SizeAssert, size_assert
<1>1. IsFiniteSet(Mapped) /\ Cardinality(Mapped) \in Nat
    BY PagesFinite DEF Mapped
<1>2. CASE UNCHANGED <<frame_table, free_list>>
    BY <1>0, <1>2 DEF SizeAssert, size_assert, Mapped
<1>3. ASSUME NEW p \in Pages, Fills(p, free_list) PROVE SizeAssert'
    <2>1. Head(free_list) \in Frames /\ Len(free_list') = Len(free_list) - 1
        BY <1>0, <1>3 DEF Fills
    <2>2. Mapped' = Mapped \cup {p} /\ p \notin Mapped
        BY <1>0, <1>3, <2>1 DEF Fills, Mapped
    <2>3. Cardinality(Mapped') = Cardinality(Mapped) + 1
        BY <1>1, <2>2, FS_AddElement
    <2>4. Len(free_list') + Cardinality(Mapped') = NumFrames
        BY <1>0, <1>1, <2>1, <2>3
    <2> QED
        BY <2>4 DEF SizeAssert, size_assert
<1>4. ASSUME NEW p \in Pages, Frees(p) PROVE SizeAssert'
    <2>1. /\ frame_table[p] \in Frames /\ p \in Mapped /\ Mapped' = Mapped \ {p}
          /\ free_list' = Append(free_list, frame_table[p])
        BY <1>0, <1>4 DEF Frees, Mapped
    <2>2. Len(free_list') = Len(free_list) + 1
        BY <1>0, <2>1
    <2>3. Cardinality(Mapped') = Cardinality(Mapped) - 1
        BY <1>1, <2>1, FS_RemoveElement
    <2>4. Len(free_list') + Cardinality(Mapped') = NumFrames
        BY <1>0, <1>1, <2>2, <2>3
    <2> QED
        BY <2>4 DEF SizeAssert, size_assert
<1> QED
    BY <1>2, <1>3, <1>4 DEF FitStep

LEMMA InitFit == Init => FitInv
<1> SUFFICES ASSUME Init PROVE SizeAssert
    BY InitBase DEF FitInv
<1>1. Mapped = {} /\ NumFrames \in Nat /\ free_list = [i \in 1 .. NumFrames |-> i - 1]
    BY SizesAssumption DEF Init, Mapped
<1>2. Len(free_list) = NumFrames
    BY <1>1
<1> QED
    BY <1>1, <1>2, FS_EmptySet DEF SizeAssert, size_assert

LEMMA NextFit ==
    ASSUME NumPages <= NumFrames, FitInv, [Next]_vars
    PROVE  FitInv' /\ FitStep
<1>1. TableStep
    BY NextTable DEF FitInv
<1>2. FitStep
    BY <1>1, TableFits
<1>3. SizeAssert'
    BY <1>2, SizeStep
<1>4. BaseInv'
    BY NextBase DEF FitInv
<1> QED
    BY <1>2, <1>3, <1>4 DEF FitInv

\* The assertion of BufferPoolManager::size() (bufferpool.cpp 21) holds in
\* every state of every pool that is at least as large as its table.
THEOREM SizeAssertHolds ==
    ASSUME NumPages <= NumFrames
    PROVE  Spec => []SizeAssert
<1>1. Init => FitInv
    BY InitFit
<1>2. FitInv /\ [Next]_vars => FitInv'
    BY NextFit
<1>3. FitInv => SizeAssert
    BY DEF FitInv
<1> QED
    BY <1>1, <1>2, <1>3, PTL DEF Spec

LEMMA NotSharedStep ==
    ASSUME BaseInv, FramesNotShared, FitStep
    PROVE  FramesNotShared'
<1>0. /\ frame_table \in [Pages -> Frames \cup {NoFrame}] /\ free_list \in Seq(Frames)
      /\ NoFrame \notin Frames
    BY NullAssumption DEF BaseInv, TypeOK
<1>1. CASE UNCHANGED <<frame_table, free_list>>
    BY <1>1 DEF FramesNotShared, Mapped
<1>2. ASSUME NEW p \in Pages, Fills(p, free_list) PROVE FramesNotShared'
    <2> DEFINE f == Head(free_list)
    <2>1. /\ f = free_list[1] /\ f \in Frames /\ 1 \in DOMAIN free_list
          /\ Len(free_list') = Len(free_list) - 1
          /\ DOMAIN free_list = 1 .. Len(free_list)
          /\ DOMAIN free_list' = 1 .. Len(free_list) - 1
          /\ \A i \in 1 .. Len(free_list) - 1 : free_list'[i] = free_list[i + 1]
          /\ Len(free_list) \in Nat
        BY <1>0, <1>2 DEF Fills
    <2>2. /\ Mapped' = Mapped \cup {p} /\ p \notin Mapped
          /\ frame_table'[p] = f
          /\ \A q \in Mapped : frame_table'[q] = frame_table[q]
        BY <1>0, <1>2, <2>1 DEF Fills, Mapped
    <2> HIDE DEF f
    <2>3. ASSUME NEW q \in Mapped', NEW r \in Mapped', frame_table'[q] = frame_table'[r]
          PROVE  q = r
        BY <2>1, <2>2, <2>3 DEF FramesNotShared
    <2>4. ASSUME NEW i \in DOMAIN free_list', NEW q \in Mapped'
          PROVE  frame_table'[q] # free_list'[i]
        <3>1. i + 1 \in DOMAIN free_list /\ free_list'[i] = free_list[i + 1]
              /\ i + 1 # 1
            BY <2>1
        <3> QED
            BY <2>1, <2>2, <3>1 DEF FramesNotShared
    <2>5. ASSUME NEW i \in DOMAIN free_list', NEW j \in DOMAIN free_list',
                 free_list'[i] = free_list'[j]
          PROVE  i = j
        <3>1. /\ i + 1 \in DOMAIN free_list /\ free_list'[i] = free_list[i + 1]
              /\ j + 1 \in DOMAIN free_list /\ free_list'[j] = free_list[j + 1]
            BY <2>1
        <3>2. i + 1 = j + 1
            BY <2>5, <3>1 DEF FramesNotShared
        <3> QED
            BY <2>1, <3>2
    <2> QED
        BY <2>3, <2>4, <2>5 DEF FramesNotShared
<1>3. ASSUME NEW p \in Pages, Frees(p) PROVE FramesNotShared'
    <2> DEFINE f == frame_table[p]
    <2> DEFINE n == Len(free_list)
    <2>1. /\ f \in Frames /\ p \in Mapped /\ n \in Nat
          /\ DOMAIN free_list = 1 .. n /\ DOMAIN free_list' = 1 .. n + 1
          /\ free_list'[n + 1] = f
          /\ \A i \in 1 .. n : free_list'[i] = free_list[i]
        BY <1>0, <1>3 DEF Frees, Mapped
    <2>2. /\ Mapped' = Mapped \ {p}
          /\ \A q \in Mapped' : frame_table'[q] = frame_table[q] /\ q \in Mapped /\ q # p
        BY <1>0, <1>3 DEF Frees, Mapped
    <2> HIDE DEF f, n
    <2>3. \A i \in DOMAIN free_list' : \/ i = n + 1 /\ free_list'[i] = f
                                       \/ i \in DOMAIN free_list /\ free_list'[i] = free_list[i]
        BY <2>1
    <2>4. ASSUME NEW q \in Mapped', NEW r \in Mapped', frame_table'[q] = frame_table'[r]
          PROVE  q = r
        BY <2>2, <2>4 DEF FramesNotShared
    <2>5. ASSUME NEW i \in DOMAIN free_list', NEW q \in Mapped'
          PROVE  frame_table'[q] # free_list'[i]
        BY <2>1, <2>2, <2>3 DEF FramesNotShared, f
    <2>6. ASSUME NEW i \in DOMAIN free_list', NEW j \in DOMAIN free_list',
                 free_list'[i] = free_list'[j]
          PROVE  i = j
        BY <2>1, <2>3, <2>6 DEF FramesNotShared, f
    <2> QED
        BY <2>4, <2>5, <2>6 DEF FramesNotShared
<1> QED
    BY <1>1, <1>2, <1>3 DEF FitStep

LEMMA InitNotShared == Init => FramesNotShared
<1> SUFFICES ASSUME Init PROVE FramesNotShared
    OBVIOUS
<1>1. Mapped = {}
    BY DEF Init, Mapped
<1>2. /\ NumFrames \in Nat /\ DOMAIN free_list = 1 .. NumFrames
      /\ \A i \in 1 .. NumFrames : free_list[i] = i - 1
    BY SizesAssumption DEF Init
<1>3. \A i, j \in 1 .. NumFrames : free_list[i] = free_list[j] => i = j
    BY <1>2
<1> QED
    BY <1>1, <1>2, <1>3 DEF FramesNotShared

\* No two pages share a frame and no cached frame is on free_list_, as long
\* as the table fits in the pool: a guard never shows the bytes of another
\* page (insert_frame and evict_page, bufferpool.cpp 25-44, 127-155).
THEOREM FramesNeverShared ==
    ASSUME NumPages <= NumFrames
    PROVE  Spec => []FramesNotShared
<1>1. Init => FitInv /\ FramesNotShared
    BY InitFit, InitNotShared
<1>2. FitInv /\ FramesNotShared /\ [Next]_vars => FitInv' /\ FramesNotShared'
    BY NextFit, NotSharedStep DEF FitInv
<1> QED
    BY <1>1, <1>2, PTL DEF Spec
-----------------------------------------------------------------------------
(***************************************************************************)
(* Latches exclude.                                                        *)
(***************************************************************************)

\* What a thread inside a guard believes of its frame's latch is so, and the
\* latch is a shared_mutex: never both sides at once.
LatchInv ==
    /\ \A t \in Threads : Inside(t) =>
           /\ guard[t].mode = "write" => writer[guard[t].frame] = t
           /\ guard[t].mode = "read"  => t \in readers[guard[t].frame]
    /\ \A f \in Frames : writer[f] # NoThread => readers[f] = {}

\* A step that moves nobody into a guard and touches no latch.
LEMMA QuietLatch ==
    ASSUME LatchInv, UNCHANGED latchVars,
           \A u \in Threads : Inside(u)' => Inside(u) /\ guard'[u] = guard[u]
    PROVE  LatchInv'
BY DEF LatchInv, latchVars

\* Steps of a thread outside every guard that stays outside.
LEMMA OutsideLatch ==
    ASSUME BaseInv, LatchInv, UNCHANGED latchVars, NEW t \in Threads, NEW s,
           s \notin {"held", "dropped"},
           pc' = [pc EXCEPT ![t] = s],
           \A u \in Threads : u # t => guard'[u] = guard[u]
    PROVE  LatchInv'
<1>1. \A u \in Threads : Inside(u)' => Inside(u) /\ guard'[u] = guard[u]
    BY DEF Inside, BaseInv, TypeOK
<1> QED
    BY <1>1, QuietLatch

LEMMA LatchedLatch ==
    ASSUME BaseInv, LatchInv, NEW t \in Threads, Latched(t)
    PROVE  LatchInv'
<1> DEFINE f == guard[t].frame
<1>1. /\ f \in Frames /\ pc[t] = "latching" /\ guard[t] \in Guards
      /\ pc' = [pc EXCEPT ![t] = "held"] /\ guard' = guard
    BY DEF Latched, BaseInv, GuardBuilt, Guards
<1>2. \A u \in Threads : u # t => (Inside(u)' <=> Inside(u))
    BY <1>1 DEF Inside, BaseInv, TypeOK
<1>3. CASE /\ guard[t].mode = "read" /\ ReadFree(f)
           /\ readers' = [readers EXCEPT ![f] = @ \cup {t}] /\ UNCHANGED writer
    <2>1. \A g \in Frames : writer'[g] # NoThread => readers'[g] = {}
        BY <1>1, <1>3 DEF LatchInv, ReadFree, BaseInv, TypeOK
    <2>2. \A g \in Frames : readers[g] \subseteq readers'[g]
        BY <1>1, <1>3 DEF BaseInv, TypeOK
    <2>3. t \in readers'[f]
        BY <1>1, <1>3 DEF BaseInv, TypeOK
    <2>4. \A u \in Threads : Inside(u) => guard[u].frame \in Frames
        BY DEF Inside, BaseInv, GuardBuilt, Guards
    <2> QED
        BY <1>1, <1>2, <1>3, <2>1, <2>2, <2>3, <2>4 DEF LatchInv
<1>4. CASE /\ guard[t].mode = "write" /\ WriteFree(f)
           /\ writer' = [writer EXCEPT ![f] = t] /\ UNCHANGED readers
    <2>1. \A g \in Frames : writer'[g] # NoThread => readers'[g] = {}
        BY <1>1, <1>4 DEF LatchInv, WriteFree, BaseInv, TypeOK
    <2>2. \A u \in Threads : Inside(u) /\ guard[u].mode = "write"
              => guard[u].frame # f /\ guard[u].frame \in Frames
        BY <1>1, <1>4, NullAssumption
           DEF Inside, LatchInv, WriteFree, BaseInv, GuardBuilt, Guards
    <2>3. writer'[f] = t /\ \A g \in Frames : g # f => writer'[g] = writer[g]
        BY <1>1, <1>4 DEF BaseInv, TypeOK
    <2> QED
        BY <1>1, <1>2, <1>4, <2>1, <2>2, <2>3 DEF LatchInv
<1> QED
    BY <1>3, <1>4 DEF Latched

LEMMA ReadFlushLatch ==
    ASSUME BaseInv, LatchInv, NEW t \in Threads, ReadGuardFlush(t)
    PROVE  LatchInv'
<1> DEFINE f == guard[t].frame
<1>1. /\ f \in Frames /\ guard' = guard /\ writer' = writer
      /\ pc' = [pc EXCEPT ![t] = "upgrading"]
      /\ readers' = [readers EXCEPT ![f] = @ \ {t}]
    BY DEF ReadGuardFlush, Holds, BaseInv, GuardBuilt, Guards
<1> HIDE DEF f
<1>2. \A u \in Threads : Inside(u)' => Inside(u) /\ u # t
    BY <1>1 DEF Inside, BaseInv, TypeOK
<1>3. /\ \A g \in Frames : readers'[g] \subseteq readers[g]
      /\ \A g \in Frames : \A u \in readers[g] : u # t => u \in readers'[g]
    BY <1>1 DEF BaseInv, TypeOK
<1>4. \A u \in Threads : Inside(u) => guard[u].frame \in Frames
    BY DEF Inside, BaseInv, GuardBuilt, Guards
<1> QED
    BY <1>1, <1>2, <1>3, <1>4 DEF LatchInv

LEMMA DowngradedLatch ==
    ASSUME BaseInv, LatchInv, NEW t \in Threads, Downgraded(t),
           guard[t].mode = "read"
    PROVE  LatchInv'
<1> DEFINE f == guard[t].frame
<1>1. /\ f \in Frames /\ guard' = guard /\ writer' = writer
      /\ pc' = [pc EXCEPT ![t] = "held"] /\ writer[f] = NoThread
      /\ readers' = [readers EXCEPT ![f] = @ \cup {t}]
    BY DEF Downgraded, ReadFree, BaseInv, GuardBuilt, Guards
<1>2. \A u \in Threads : u # t => (Inside(u)' <=> Inside(u))
    BY <1>1 DEF Inside, BaseInv, TypeOK
<1>3. /\ \A g \in Frames : readers[g] \subseteq readers'[g]
      /\ \A g \in Frames : g # f => readers'[g] = readers[g]
      /\ t \in readers'[f]
    BY <1>1 DEF BaseInv, TypeOK
<1>4. \A u \in Threads : Inside(u) => guard[u].frame \in Frames
    BY DEF Inside, BaseInv, GuardBuilt, Guards
<1> QED
    BY <1>1, <1>2, <1>3, <1>4 DEF LatchInv

LEMMA UnlatchLatch ==
    ASSUME BaseInv, LatchInv, NEW t \in Threads, Unlatch(t)
    PROVE  LatchInv'
<1> DEFINE f == guard[t].frame
<1>1. /\ f \in Frames /\ pc' = [pc EXCEPT ![t] = "idle"]
      /\ guard' = [guard EXCEPT ![t] = NoGuard]
      /\ writer' = [writer EXCEPT ![f] = IF @ = t THEN NoThread ELSE @]
      /\ readers' = [readers EXCEPT ![f] = @ \ {t}]
    BY DEF Unlatch, BaseInv, GuardBuilt, Guards
<1> HIDE DEF f
<1>2. \A u \in Threads : Inside(u)' => Inside(u) /\ u # t /\ guard'[u] = guard[u]
    BY <1>1 DEF Inside, BaseInv, TypeOK
<1>3. /\ \A g \in Frames : readers'[g] \subseteq readers[g]
      /\ \A g \in Frames : \A u \in readers[g] : u # t => u \in readers'[g]
    BY <1>1 DEF BaseInv, TypeOK
<1>4. /\ \A g \in Frames : writer'[g] = writer[g] \/ writer'[g] = NoThread
      /\ \A g \in Frames : writer[g] # t => writer'[g] = writer[g]
    BY <1>1 DEF BaseInv, TypeOK
<1>5. \A u \in Threads : Inside(u) => guard[u].frame \in Frames
    BY DEF Inside, BaseInv, GuardBuilt, Guards
<1> QED
    BY <1>2, <1>3, <1>4, <1>5 DEF LatchInv

\* Only a read guard's flush changes sides.
FlushReads == \A t \in Threads :
                  pc[t] \in {"upgrading", "downgrading"} => guard[t].mode = "read"

\* A thread's pc goes from one value to another and its guard is its own.
LEMMA FlushReadsStep ==
    ASSUME BaseInv, FlushReads, NEW t \in Threads, NEW s,
           pc' = [pc EXCEPT ![t] = s],
           \/ s \notin {"upgrading", "downgrading"}
           \/ guard' = guard /\ guard[t].mode = "read",
           \A u \in Threads : u # t => guard'[u] = guard[u]
    PROVE  FlushReads'
BY DEF FlushReads, BaseInv, TypeOK

LEMMA CallLatch ==
    ASSUME BaseInv, LatchInv, FlushReads, NEW t \in Threads, Call(t)
    PROVE  LatchInv' /\ FlushReads'
<1>1. ASSUME NEW p \in Pages, NEW m,
             Hit(t, p, m) \/ Miss(t, p, m) \/ MissThrows(t, p)
      PROVE  LatchInv' /\ FlushReads'
    <2>1. PICK s \in {"latching", "threw"} :
              /\ pc' = [pc EXCEPT ![t] = s]
              /\ \A u \in Threads : u # t => guard'[u] = guard[u]
              /\ UNCHANGED latchVars
        BY <1>1 DEF Hit, Miss, MissThrows, Construct, BaseInv, TypeOK
    <2> QED
        BY <2>1, OutsideLatch, FlushReadsStep
<1>2. ASSUME \/ \E p \in Pages : flush_page(t, p)
             \/ flush_all_pages(t)
      PROVE  LatchInv' /\ FlushReads'
    <2>1. pc' = [pc EXCEPT ![t] = "flushing"] /\ UNCHANGED <<guard, latchVars>>
        BY <1>2 DEF flush_page, flush_all_pages, StartFlush
    <2> QED
        BY <2>1, OutsideLatch, FlushReadsStep
<1>3. ASSUME \/ new_page(t)
             \/ \E p \in Pages : evict_page(t, p)
             \/ get_data_mut(t)
             \/ \E v \in Values : write_data(t, v)
             \/ WriteGuardFlush(t)
      PROVE  LatchInv' /\ FlushReads'
    <2>1. UNCHANGED <<pc, guard, latchVars>>
        BY <1>3 DEF new_page, evict_page, get_data_mut, write_data,
                    WriteGuardFlush, WriteBack
    <2> QED
        BY <2>1, QuietLatch DEF Inside, FlushReads
<1>4. ASSUME ReadGuardFlush(t) PROVE LatchInv' /\ FlushReads'
    BY <1>4, ReadFlushLatch, FlushReadsStep DEF ReadGuardFlush, Holds
<1> QED
    BY <1>1, <1>2, <1>3, <1>4 DEF Call, read_page, write_page

LEMMA ContinueLatch ==
    ASSUME BaseInv, LatchInv, FlushReads, NEW t \in Threads, Continue(t)
    PROVE  LatchInv' /\ FlushReads'
<1>1. CASE Latched(t)
    BY <1>1, LatchedLatch, FlushReadsStep DEF Latched
<1>2. CASE FlushOne(t)
    <2>1. /\ pc' = [pc EXCEPT ![t] = "idle"] \/ pc' = [pc EXCEPT ![t] = "flushing"]
          /\ UNCHANGED <<guard, latchVars>>
        BY <1>2 DEF FlushOne, BaseInv, TypeOK
    <2> QED
        BY <2>1, OutsideLatch, FlushReadsStep
<1>3. CASE Upgraded(t)
    <2>1. /\ pc[t] = "upgrading" /\ pc' = [pc EXCEPT ![t] = "downgrading"]
          /\ UNCHANGED <<guard, latchVars>>
        BY <1>3 DEF Upgraded, WriteBack
    <2>2. guard[t].mode = "read"
        BY <2>1 DEF FlushReads
    <2> QED
        BY <2>1, <2>2, OutsideLatch, FlushReadsStep
<1>4. CASE Downgraded(t)
    <2>1. pc[t] = "downgrading" /\ pc' = [pc EXCEPT ![t] = "held"] /\ UNCHANGED guard
        BY <1>4 DEF Downgraded
    <2>2. guard[t].mode = "read"
        BY <2>1 DEF FlushReads
    <2> QED
        BY <1>4, <2>1, <2>2, DowngradedLatch, FlushReadsStep
<1>5. CASE drop(t)
    <2>1. /\ pc[t] = "held" /\ pc' = [pc EXCEPT ![t] = "dropped"]
          /\ UNCHANGED <<guard, latchVars>>
        BY <1>5 DEF drop
    <2>2. \A u \in Threads : Inside(u)' => Inside(u) /\ guard'[u] = guard[u]
        BY <2>1 DEF Inside, BaseInv, TypeOK
    <2> QED
        BY <2>1, <2>2, QuietLatch, FlushReadsStep
<1>6. CASE Unlatch(t)
    <2>1. /\ pc' = [pc EXCEPT ![t] = "idle"]
          /\ \A u \in Threads : u # t => guard'[u] = guard[u]
        BY <1>6 DEF Unlatch, BaseInv, TypeOK
    <2> QED
        BY <1>6, <2>1, UnlatchLatch, FlushReadsStep
<1> QED
    BY <1>1, <1>2, <1>3, <1>4, <1>5, <1>6 DEF Continue

LEMMA InitLatch == Init => LatchInv /\ FlushReads
BY DEF Init, LatchInv, FlushReads, Inside

LEMMA NextLatch ==
    ASSUME BaseInv, LatchInv, FlushReads, [Next]_vars
    PROVE  LatchInv' /\ FlushReads'
<1>1. CASE UNCHANGED vars
    <2>1. UNCHANGED <<pc, guard, latchVars>>
        BY <1>1 DEF vars
    <2> QED
        BY <2>1, QuietLatch DEF Inside, FlushReads
<1> QED
    BY <1>1, CallLatch, ContinueLatch DEF Next

\* Two guards on one frame are never both inside unless both only read: the
\* latches of frameheader.cpp 26-29, taken by the constructors and released
\* by drop() and by ReadPageGuard::flush (pageguard.cpp 16, 61-74, 94, 106, 180).
THEOREM LatchesExclude == Spec => []LatchExclusion
<1>1. Init => BaseInv /\ LatchInv /\ FlushReads
    BY InitBase, InitLatch
<1>2. BaseInv /\ LatchInv /\ FlushReads /\ [Next]_vars
          => BaseInv' /\ LatchInv' /\ FlushReads'
    BY NextBase, NextLatch
<1>3. BaseInv /\ LatchInv => LatchExclusion
    <2> SUFFICES ASSUME BaseInv, LatchInv, NEW t \in Threads, NEW u \in Threads,
                        t # u, Inside(t), Inside(u), guard[t].frame = guard[u].frame
                 PROVE  guard[t].mode = "read" /\ guard[u].mode = "read"
        BY DEF LatchExclusion
    <2>1. /\ guard[t].frame \in Frames
          /\ guard[t].mode \in {"read", "write"} /\ guard[u].mode \in {"read", "write"}
        BY DEF BaseInv, GuardBuilt, Guards, Inside
    <2> QED
        BY <2>1, NullAssumption DEF LatchInv
<1> QED
    BY <1>1, <1>2, <1>3, PTL DEF Spec

-----------------------------------------------------------------------------
(***************************************************************************)
(* Pins, guards and contents of the buffer pool while the table fits in    *)
(* it, NumPages <= NumFrames, for any number of threads, frames and pages. *)
(***************************************************************************)

GuardsOf(f) == {t \in Threads : Live(t) /\ guard[t].frame = f}

\* The inductive invariant.  pins_ is what evict_page asks, GuardedPageStays
\* is what keeps a guarded frame off free_list_, so neither holds alone.
GuardInv == FitInv /\ FramesNotShared /\ PinsExact /\ GuardedPageStays

LEMMA GuardsFinite ==
    ASSUME NEW f
    PROVE  /\ IsFiniteSet(GuardsOf(f))
           /\ Cardinality(GuardsOf(f)) \in Nat
           /\ Cardinality(GuardsOf(f)) < PinModulus
           /\ Cardinality(GuardsOf(f)) = 0 <=> GuardsOf(f) = {}
<1>1. GuardsOf(f) \subseteq Threads /\ IsFiniteSet(Threads)
    BY ThreadsAssumption DEF GuardsOf
<1>2. /\ IsFiniteSet(GuardsOf(f))
      /\ Cardinality(GuardsOf(f)) <= Cardinality(Threads)
    BY <1>1, FS_Subset
<1>3. Cardinality(GuardsOf(f)) \in Nat /\ Cardinality(Threads) \in Nat
    BY <1>1, <1>2, FS_CardinalityType
<1>4. Cardinality(GuardsOf(f)) = 0 <=> GuardsOf(f) = {}
    BY <1>2, FS_EmptySet
<1> QED
    BY <1>2, <1>3, <1>4, ThreadsAssumption, PinAssumption

\* A live guard names a cached page and its frame.
LEMMA LiveGuard ==
    ASSUME BaseInv, GuardedPageStays, NEW t \in Threads, Live(t)
    PROVE  /\ guard[t] \in Guards /\ guard[t].page \in Mapped
           /\ guard[t].frame \in Frames
           /\ frame_table[guard[t].page] = guard[t].frame
BY NullAssumption DEF BaseInv, GuardBuilt, GuardedPageStays, Live, Guards, Mapped

\* pins_ is 0 exactly on the frames without a guard.
LEMMA NoPinsNoGuard ==
    ASSUME PinsExact, NEW f \in Frames
    PROVE  pins[f] = 0 <=> \A t \in Threads : Live(t) => guard[t].frame # f
<1>1. pins[f] = Cardinality(GuardsOf(f))
    BY DEF PinsExact, GuardsOf
<1>2. pins[f] = 0 <=> GuardsOf(f) = {}
    BY <1>1, GuardsFinite
<1> QED
    BY <1>2 DEF GuardsOf

\* No guard is on a frame of free_list_.
LEMMA FreeUnpinned ==
    ASSUME GuardInv, free_list # <<>>
    PROVE  /\ Head(free_list) \in Frames
           /\ pins[Head(free_list)] = 0
           /\ \A p \in Mapped : frame_table[p] # Head(free_list)
<1>1. /\ free_list \in Seq(Frames) /\ Head(free_list) = free_list[1]
      /\ 1 \in DOMAIN free_list /\ Head(free_list) \in Frames
    BY DEF GuardInv, FitInv, BaseInv, TypeOK
<1>2. \A p \in Mapped : frame_table[p] # Head(free_list)
    BY <1>1 DEF GuardInv, FramesNotShared
<1>3. \A t \in Threads : Live(t) => guard[t].frame # Head(free_list)
    BY <1>2, LiveGuard DEF GuardInv, FitInv
<1> QED
    BY <1>1, <1>2, <1>3, NoPinsNoGuard DEF GuardInv
-----------------------------------------------------------------------------
(***************************************************************************)
(* What a step does to the guards: it leaves them all alone, builds one or *)
(* drops one, and counts accordingly.                                      *)
(***************************************************************************)
KeepsGuard(u) == /\ Live(u)' <=> Live(u)
                 /\ Live(u) => guard'[u] = guard[u]

KeepsGuards == pins' = pins /\ \A u \in Threads : KeepsGuard(u)

TakesGuard(t) ==
    /\ ~Live(t) /\ Live(t)'
    /\ guard'[t] \in Guards
    /\ frame_table'[guard'[t].page] = guard'[t].frame
    /\ pins' = [pins EXCEPT ![guard'[t].frame] = (@ + 1) % PinModulus]
    /\ \A u \in Threads \ {t} : KeepsGuard(u)

DropsGuard(t) ==
    /\ Live(t) /\ ~Live(t)'
    /\ pins' = [pins EXCEPT ![guard[t].frame] = (@ + PinModulus - 1) % PinModulus]
    /\ \A u \in Threads \ {t} : KeepsGuard(u)

GuardStep == KeepsGuards \/ \E t \in Threads : TakesGuard(t) \/ DropsGuard(t)

\* An entry leaves frame_table_ only for an unpinned frame.
TableKeepsGuards ==
    \/ UNCHANGED frame_table
    \/ \E p \in Pages :
           \/ p \notin Mapped
              /\ \E f : frame_table' = [frame_table EXCEPT ![p] = f]
           \/ /\ p \in Mapped /\ pins[frame_table[p]] = 0
              /\ frame_table' = [frame_table EXCEPT ![p] = NoFrame]
              /\ KeepsGuards

LEMMA PinsStep ==
    ASSUME GuardInv, GuardStep
    PROVE  PinsExact'
<1> SUFFICES ASSUME NEW f \in Frames
             PROVE  pins'[f] = Cardinality(GuardsOf(f)')
    BY DEF PinsExact, GuardsOf
<1>0. /\ pins[f] = Cardinality(GuardsOf(f))
      /\ pins \in [Frames -> 0 .. PinModulus - 1] /\ pins[f] \in Nat
      /\ PinModulus \in Nat /\ PinModulus > 1
    BY PinAssumption DEF GuardInv, FitInv, BaseInv, TypeOK, PinsExact, GuardsOf
<1>1. CASE KeepsGuards
    <2>1. GuardsOf(f)' = GuardsOf(f) /\ pins' = pins
        BY <1>1 DEF KeepsGuards, KeepsGuard, GuardsOf
    <2> QED
        BY <2>1, <1>0
<1>2. ASSUME NEW t \in Threads, TakesGuard(t)
      PROVE  pins'[f] = Cardinality(GuardsOf(f)')
    <2>1. CASE guard'[t].frame = f
        <3>1. GuardsOf(f)' = GuardsOf(f) \cup {t} /\ t \notin GuardsOf(f)
            BY <1>2, <2>1 DEF TakesGuard, KeepsGuard, GuardsOf
        <3>2. Cardinality(GuardsOf(f)') = Cardinality(GuardsOf(f)) + 1
            BY <3>1, GuardsFinite, FS_AddElement
        <3>3. Cardinality(GuardsOf(f)') < PinModulus
            <4>1. GuardsOf(f)' \subseteq Threads /\ IsFiniteSet(Threads)
                BY ThreadsAssumption DEF GuardsOf
            <4>2. /\ IsFiniteSet(GuardsOf(f)')
                  /\ Cardinality(GuardsOf(f)') <= Cardinality(Threads)
                BY <4>1, FS_Subset
            <4>3. Cardinality(GuardsOf(f)') \in Nat /\ Cardinality(Threads) \in Nat
                BY <4>1, <4>2, FS_CardinalityType
            <4> QED
                BY <4>2, <4>3, ThreadsAssumption, PinAssumption
        <3>4. pins'[f] = (pins[f] + 1) % PinModulus
            BY <1>0, <1>2, <2>1 DEF TakesGuard
        <3>5. pins[f] + 1 < PinModulus
            BY <1>0, <3>2, <3>3
        <3> QED
            BY <1>0, <3>2, <3>4, <3>5
    <2>2. CASE guard'[t].frame # f
        <3>1. GuardsOf(f)' = GuardsOf(f)
            BY <1>2, <2>2 DEF TakesGuard, KeepsGuard, GuardsOf
        <3>2. pins'[f] = pins[f]
            BY <1>0, <1>2, <2>2 DEF TakesGuard
        <3> QED
            BY <1>0, <3>1, <3>2
    <2> QED
        BY <2>1, <2>2
<1>3. ASSUME NEW t \in Threads, DropsGuard(t)
      PROVE  pins'[f] = Cardinality(GuardsOf(f)')
    <2>1. CASE guard[t].frame = f
        <3>1. GuardsOf(f)' = GuardsOf(f) \ {t} /\ t \in GuardsOf(f)
            BY <1>3, <2>1 DEF DropsGuard, KeepsGuard, GuardsOf
        <3>2. Cardinality(GuardsOf(f)') = Cardinality(GuardsOf(f)) - 1
            BY <3>1, GuardsFinite, FS_RemoveElement
        <3>3. pins'[f] = (pins[f] + PinModulus - 1) % PinModulus
            BY <1>0, <1>3, <2>1 DEF DropsGuard
        <3>4. pins[f] > 0 /\ pins[f] < PinModulus
            BY <1>0, <3>1, GuardsFinite
        <3>5. (pins[f] + PinModulus - 1) % PinModulus = pins[f] - 1
            BY <1>0, <3>4
        <3> QED
            BY <1>0, <3>2, <3>3, <3>5
    <2>2. CASE guard[t].frame # f
        <3>1. GuardsOf(f)' = GuardsOf(f)
            BY <1>3, <2>2 DEF DropsGuard, KeepsGuard, GuardsOf
        <3>2. pins'[f] = pins[f]
            BY <1>0, <1>3, <2>2 DEF DropsGuard
        <3> QED
            BY <1>0, <3>1, <3>2
    <2> QED
        BY <2>1, <2>2
<1> QED
    BY <1>1, <1>2, <1>3 DEF GuardStep

LEMMA StaysStep ==
    ASSUME GuardInv, GuardStep, TableKeepsGuards
    PROVE  GuardedPageStays'
<1> SUFFICES ASSUME NEW t \in Threads, Live(t)'
             PROVE  frame_table'[guard'[t].page] = guard'[t].frame
    BY DEF GuardedPageStays
<1>0. frame_table \in [Pages -> Frames \cup {NoFrame}]
    BY DEF GuardInv, FitInv, BaseInv, TypeOK
<1>1. CASE TakesGuard(t)
    BY <1>1 DEF TakesGuard
<1>2. CASE ~TakesGuard(t)
    <2>1. Live(t) /\ guard'[t] = guard[t]
        BY <1>2 DEF GuardStep, KeepsGuards, KeepsGuard, TakesGuard, DropsGuard
    <2>2. /\ guard[t].page \in Mapped /\ guard[t].frame \in Frames
          /\ frame_table[guard[t].page] = guard[t].frame
        BY <2>1, LiveGuard DEF GuardInv, FitInv
    <2>3. CASE UNCHANGED frame_table
        BY <2>1, <2>2, <2>3
    <2>4. ASSUME NEW p \in Pages, p \notin Mapped, NEW f,
                 frame_table' = [frame_table EXCEPT ![p] = f]
          PROVE  frame_table'[guard'[t].page] = guard'[t].frame
        BY <1>0, <2>1, <2>2, <2>4 DEF Mapped
    <2>5. ASSUME NEW p \in Pages, p \in Mapped, pins[frame_table[p]] = 0,
                 frame_table' = [frame_table EXCEPT ![p] = NoFrame]
          PROVE  frame_table'[guard'[t].page] = guard'[t].frame
        <3>1. frame_table[p] \in Frames
            BY <1>0, <2>5 DEF Mapped
        <3>2. guard[t].frame # frame_table[p]
            BY <2>1, <2>5, <3>1, NoPinsNoGuard DEF GuardInv
        <3> QED
            BY <1>0, <2>1, <2>2, <2>5, <3>2 DEF Mapped
    <2> QED
        BY <2>3, <2>4, <2>5 DEF TableKeepsGuards
<1> QED
    BY <1>1, <1>2

LEMMA ConstructTakes ==
    ASSUME BaseInv, NEW t \in Threads, pc[t] = "idle",
           NEW p \in Pages, NEW f \in Frames, NEW m \in {"read", "write"},
           Construct(t, p, f, m), frame_table'[p] = f,
           pins' = [pins EXCEPT ![f] = (@ + 1) % PinModulus]
    PROVE  TakesGuard(t)
<1>1. /\ pc' = [pc EXCEPT ![t] = "latching"]
      /\ guard' = [guard EXCEPT ![t] = [page |-> p, frame |-> f, mode |-> m]]
    BY DEF Construct
<1>2. /\ guard'[t] = [page |-> p, frame |-> f, mode |-> m]
      /\ pc'[t] = "latching"
      /\ \A u \in Threads \ {t} : pc'[u] = pc[u] /\ guard'[u] = guard[u]
    BY <1>1 DEF BaseInv, TypeOK
<1> QED
    BY <1>2 DEF TakesGuard, KeepsGuard, Live, Guards

\* read_page and write_page
LEMMA LookupGuards ==
    ASSUME NumPages <= NumFrames, GuardInv, NEW t \in Threads, Locks(t),
           NEW p \in Pages, NEW m \in {"read", "write"},
           Hit(t, p, m) \/ Miss(t, p, m) \/ MissThrows(t, p)
    PROVE  GuardStep /\ TableKeepsGuards
<1>0. FitInv /\ BaseInv /\ pc[t] = "idle"
    BY DEF GuardInv, FitInv, Locks
<1>1. CASE Hit(t, p, m)
    <2> DEFINE f == frame_table[p]
    <2>1. /\ f \in Frames /\ Construct(t, p, f, m) /\ frame_table' = frame_table
          /\ pins' = [pins EXCEPT ![f] = (@ + 1) % PinModulus]
        BY <1>0, <1>1 DEF Hit, Mapped, BaseInv, TypeOK
    <2>2. TakesGuard(t)
        BY <1>0, <2>1, ConstructTakes
    <2> QED
        BY <2>1, <2>2 DEF GuardStep, TableKeepsGuards
<1>2. CASE Miss(t, p, m)
    <2> DEFINE f == Head(free_list)
    <2>1. p \notin Mapped /\ free_list # <<>> /\ FreeList = free_list
        BY <1>0, <1>2, MissFindsFreeFrame DEF Miss
    <2>2. /\ frame_table' = [frame_table EXCEPT ![p] = f]
          /\ pins' = [pins EXCEPT ![f] = 1]
          /\ Construct(t, p, f, m)
        BY <1>2, <2>1 DEF Miss, insert_frame
    <2>3. f \in Frames /\ pins[f] = 0
        BY <2>1, FreeUnpinned
    <2> HIDE DEF f
    <2>4. pins' = [pins EXCEPT ![f] = (@ + 1) % PinModulus]
        <3>1. (pins[f] + 1) % PinModulus = 1
            BY <2>3, PinAssumption
        <3> QED
            BY <2>2, <3>1
    <2>5. frame_table'[p] = f
        BY <1>0, <2>2 DEF BaseInv, TypeOK
    <2>6. TakesGuard(t)
        <3>1. Construct(t, p, f, m) /\ f \in Frames
            BY <2>2, <2>3
        <3>2. BaseInv /\ pc[t] = "idle"
            BY <1>0
        <3> QED
            BY <2>4, <2>5, <3>1, <3>2, ConstructTakes
    <2> QED
        BY <2>1, <2>2, <2>6 DEF GuardStep, TableKeepsGuards
<1>3. CASE MissThrows(t, p)
    <2>1. /\ pc' = [pc EXCEPT ![t] = "threw"]
          /\ UNCHANGED <<frame_table, pins, guard>>
        BY <1>3 DEF MissThrows, frameVars
    <2>2. KeepsGuards
        BY <1>0, <2>1 DEF KeepsGuards, KeepsGuard, Live, BaseInv, TypeOK
    <2> QED
        BY <2>1, <2>2 DEF GuardStep, TableKeepsGuards
<1> QED
    BY <1>1, <1>2, <1>3

LEMMA NewPageGuards ==
    ASSUME NumPages <= NumFrames, GuardInv, NEW t \in Threads, new_page(t)
    PROVE  GuardStep /\ TableKeepsGuards
<1>0. FitInv /\ BaseInv /\ UNCHANGED <<pc, guard>>
    BY DEF GuardInv, FitInv, new_page
<1>1. num_pages \in Pages /\ num_pages \notin Mapped
    BY <1>0, SizesAssumption DEF new_page, BaseInv, TypeOK, Pages, CachedExist, Allocated
<1>2. free_list # <<>> /\ FreeList = free_list
    BY <1>0, <1>1, MissFindsFreeFrame
<1>3. CASE insert_frame(num_pages, Zero, 0)
    <2>1. /\ frame_table' = [frame_table EXCEPT ![num_pages] = Head(free_list)]
          /\ pins' = [pins EXCEPT ![Head(free_list)] = 0]
        BY <1>2, <1>3 DEF insert_frame
    <2>2. Head(free_list) \in Frames /\ pins[Head(free_list)] = 0
        BY <1>2, FreeUnpinned
    <2>3. pins' = pins
        BY <1>0, <2>1, <2>2 DEF BaseInv, TypeOK
    <2> QED
        BY <1>0, <1>1, <2>1, <2>3
           DEF GuardStep, TableKeepsGuards, KeepsGuards, KeepsGuard, Live
<1>4. CASE UNCHANGED <<poolVars, frameVars>>
    BY <1>0, <1>4 DEF poolVars, frameVars, GuardStep, TableKeepsGuards,
                      KeepsGuards, KeepsGuard, Live
<1> QED
    BY <1>3, <1>4 DEF new_page

LEMMA EvictPageGuards ==
    ASSUME GuardInv, NEW t \in Threads, NEW p \in Pages, evict_page(t, p)
    PROVE  GuardStep /\ TableKeepsGuards
<1>1. /\ p \in Mapped /\ pins[frame_table[p]] = 0
      /\ frame_table' = [frame_table EXCEPT ![p] = NoFrame]
      /\ pins' = [pins EXCEPT ![frame_table[p]] = 0]
      /\ UNCHANGED <<pc, guard>>
    BY DEF evict_page
<1>2. pins' = pins
    BY <1>1 DEF GuardInv, FitInv, BaseInv, TypeOK, Mapped
<1> QED
    BY <1>1, <1>2 DEF GuardStep, TableKeepsGuards, KeepsGuards, KeepsGuard, Live

\* The steps that change no table entry, and a thread's pc only between two
\* values that are both of a live guard or both of none.
LEMMA QuietGuards ==
    ASSUME GuardInv, NEW t \in Threads,
           UNCHANGED <<frame_table, pins>>,
           \A u \in Threads \ {t} : pc'[u] = pc[u] /\ guard'[u] = guard[u],
           Live(t)' <=> Live(t), Live(t) => guard'[t] = guard[t]
    PROVE  GuardStep /\ TableKeepsGuards
BY DEF GuardStep, TableKeepsGuards, KeepsGuards, KeepsGuard, Live

LEMMA CallGuards ==
    ASSUME NumPages <= NumFrames, GuardInv, NEW t \in Threads, Call(t)
    PROVE  GuardStep /\ TableKeepsGuards
<1>0. pc \in [Threads -> {"idle", "latching", "held", "dropped", "flushing",
                          "upgrading", "downgrading", "threw"}]
    BY DEF GuardInv, FitInv, BaseInv, TypeOK
<1>1. ASSUME NEW p \in Pages, read_page(t, p) \/ write_page(t, p)
      PROVE  GuardStep /\ TableKeepsGuards
    BY <1>1, LookupGuards DEF read_page, write_page
<1>2. ASSUME \/ \E p \in Pages : flush_page(t, p)
             \/ flush_all_pages(t)
      PROVE  GuardStep /\ TableKeepsGuards
    <2>1. /\ pc[t] = "idle" /\ pc' = [pc EXCEPT ![t] = "flushing"]
          /\ UNCHANGED <<guard, frame_table, pins>>
        BY <1>2 DEF flush_page, flush_all_pages, StartFlush, Locks, poolVars, frameVars
    <2> QED
        BY <1>0, <2>1, QuietGuards DEF Live
<1>3. ASSUME \/ get_data_mut(t)
             \/ \E v \in Values : write_data(t, v)
             \/ WriteGuardFlush(t)
      PROVE  GuardStep /\ TableKeepsGuards
    <2>1. UNCHANGED <<pc, guard, frame_table, pins>>
        BY <1>3 DEF get_data_mut, write_data, WriteGuardFlush, WriteBack, poolVars
    <2> QED
        BY <2>1, QuietGuards DEF Live
<1>4. CASE ReadGuardFlush(t)
    <2>1. /\ pc[t] = "held" /\ pc' = [pc EXCEPT ![t] = "upgrading"]
          /\ UNCHANGED <<guard, frame_table, pins>>
        BY <1>4 DEF ReadGuardFlush, Holds, poolVars, frameVars
    <2> QED
        BY <1>0, <2>1, QuietGuards DEF Live
<1> QED
    BY <1>1, <1>2, <1>3, <1>4, NewPageGuards, EvictPageGuards DEF Call

LEMMA ContinueGuards ==
    ASSUME GuardInv, NEW t \in Threads, Continue(t)
    PROVE  GuardStep /\ TableKeepsGuards
<1>0. /\ pc \in [Threads -> {"idle", "latching", "held", "dropped", "flushing",
                             "upgrading", "downgrading", "threw"}]
      /\ guard \in [Threads -> Guards \cup {NoGuard}]
    BY DEF GuardInv, FitInv, BaseInv, TypeOK
<1>1. CASE Latched(t) \/ Upgraded(t) \/ Downgraded(t)
    <2>1. /\ pc[t] \in {"latching", "upgrading", "downgrading"}
          /\ \E s \in {"held", "downgrading"} : pc' = [pc EXCEPT ![t] = s]
          /\ UNCHANGED <<guard, frame_table, pins>>
        BY <1>1 DEF Latched, Upgraded, Downgraded, WriteBack, poolVars, frameVars
    <2> QED
        BY <1>0, <2>1, QuietGuards DEF Live
<1>2. CASE FlushOne(t)
    <2>1. /\ pc[t] = "flushing"
          /\ pc' = [pc EXCEPT ![t] = "idle"] \/ pc' = pc
          /\ UNCHANGED <<guard, frame_table, pins>>
        BY <1>2 DEF FlushOne, poolVars
    <2> QED
        BY <1>0, <2>1, QuietGuards DEF Live
<1>3. CASE drop(t)
    <2>1. /\ pc[t] = "held" /\ pc' = [pc EXCEPT ![t] = "dropped"]
          /\ pins' = [pins EXCEPT ![guard[t].frame]
                          = (@ + PinModulus - 1) % PinModulus]
          /\ UNCHANGED <<guard, frame_table>>
        BY <1>3 DEF drop
    <2>2. DropsGuard(t)
        BY <1>0, <2>1 DEF DropsGuard, KeepsGuard, Live
    <2> QED
        BY <2>1, <2>2 DEF GuardStep, TableKeepsGuards
<1>4. CASE Unlatch(t)
    <2>1. /\ pc[t] = "dropped" /\ pc' = [pc EXCEPT ![t] = "idle"]
          /\ guard' = [guard EXCEPT ![t] = NoGuard]
          /\ UNCHANGED <<frame_table, pins>>
        BY <1>4 DEF Unlatch, poolVars, frameVars
    <2> QED
        BY <1>0, <2>1, QuietGuards DEF Live
<1> QED
    BY <1>1, <1>2, <1>3, <1>4 DEF Continue

LEMMA InitGuard == Init => GuardInv
<1> SUFFICES ASSUME Init PROVE GuardInv
    OBVIOUS
<1>1. FramesNotShared
    BY InitNotShared
<1>2. \A t \in Threads : ~Live(t)
    BY DEF Init, Live
<1>3. PinsExact
    <2> SUFFICES ASSUME NEW f \in Frames PROVE pins[f] = Cardinality(GuardsOf(f))
        BY DEF PinsExact, GuardsOf
    <2>1. GuardsOf(f) = {} /\ pins[f] = 0
        BY <1>2 DEF GuardsOf, Init
    <2> QED
        BY <2>1, GuardsFinite
<1>4. GuardedPageStays
    BY <1>2 DEF GuardedPageStays
<1> QED
    BY <1>1, <1>3, <1>4, InitFit DEF GuardInv

LEMMA NextGuard ==
    ASSUME NumPages <= NumFrames, GuardInv, [Next]_vars
    PROVE  GuardInv'
<1>1. FitInv' /\ FramesNotShared'
    BY NextFit, NotSharedStep DEF GuardInv, FitInv
<1>2. GuardStep /\ TableKeepsGuards
    <2>1. CASE UNCHANGED vars
        BY <2>1 DEF vars, poolVars, frameVars, GuardStep, TableKeepsGuards,
                    KeepsGuards, KeepsGuard, Live
    <2> QED
        BY <2>1, CallGuards, ContinueGuards DEF Next
<1> QED
    BY <1>1, <1>2, PinsStep, StaysStep DEF GuardInv

\* pins_ of every frame is the number of guards alive on it, in every state:
\* the increments of the constructors and the decrements of drop() never get
\* out of step and never wrap (pageguard.cpp 14, 89, 104, 175).
THEOREM PinsAlwaysExact ==
    ASSUME NumPages <= NumFrames
    PROVE  Spec => []PinsExact
<1>1. Init => GuardInv
    BY InitGuard
<1>2. GuardInv /\ [Next]_vars => GuardInv'
    BY NextGuard
<1>3. GuardInv => PinsExact
    BY DEF GuardInv
<1> QED
    BY <1>1, <1>2, <1>3, PTL DEF Spec

\* No eviction and no refill ever takes the frame from under a live guard:
\* its page stays cached there until drop() (bufferpool.cpp 46-54, 142-150).
THEOREM GuardedPagesStay ==
    ASSUME NumPages <= NumFrames
    PROVE  Spec => []GuardedPageStays
<1>1. Init => GuardInv
    BY InitGuard
<1>2. GuardInv /\ [Next]_vars => GuardInv'
    BY NextGuard
<1>3. GuardInv => GuardedPageStays
    BY DEF GuardInv
<1> QED
    BY <1>1, <1>2, <1>3, PTL DEF Spec
-----------------------------------------------------------------------------
(***************************************************************************)
(* Contents: what is in the frames and on disk.                            *)
(***************************************************************************)

\* Pages that new_page has not handed out yet are zero on disk.
FreshZero == \A p \in Pages : p >= num_pages => disk[p] = Zero

\* Who writes through a reference has its frame to itself, marked dirty.
RefDirty == \A t \in refs : Holds(t, "write") /\ dirty[guard[t].frame]

\* RefDirty is what a write through a reference needs, and the latches are
\* what keeps the other threads' flushes from clearing dirty_ under it.
ContentInv == /\ GuardInv /\ LatchInv /\ FlushReads
              /\ CleanOnDisk /\ FreshZero /\ RefDirty

\* The only ways the contents change.
Loads(p) ==
    \E f \in Frames, c \in Values :
        /\ p \notin Mapped /\ \A q \in Mapped : frame_table[q] # f
        /\ frame_table' = [frame_table EXCEPT ![p] = f]
        /\ dirty' = [dirty EXCEPT ![f] = FALSE]
        /\ data' = [data EXCEPT ![f] = c]
        /\ c = disk[p] /\ UNCHANGED disk

Discards(p) ==
    /\ p \in Mapped
    /\ frame_table' = [frame_table EXCEPT ![p] = NoFrame]
    /\ dirty' = [dirty EXCEPT ![frame_table[p]] = FALSE]
    /\ data' = [data EXCEPT ![frame_table[p]] = Zero]
    /\ UNCHANGED disk

Modifies(t) ==
    /\ Holds(t, "write")
    /\ dirty' = [dirty EXCEPT ![guard[t].frame] = TRUE]
    /\ \E v \in Values : data' = [data EXCEPT ![guard[t].frame] = v]
    /\ UNCHANGED <<frame_table, disk>>

Saves(p) ==
    /\ p \in Mapped
    /\ disk' = [disk EXCEPT ![p] = data[frame_table[p]]]
    /\ dirty' = [dirty EXCEPT ![frame_table[p]] = FALSE]
    /\ UNCHANGED <<frame_table, data>>

ContentStep ==
    /\ num_pages' \in {num_pages, num_pages + 1}
    /\ \/ UNCHANGED <<frame_table, dirty, data, disk>>
       \/ \E p \in Pages : Loads(p) \/ Discards(p) \/ Saves(p)
       \/ \E t \in Threads : Modifies(t)

LEMMA NewPageContent ==
    ASSUME NumPages <= NumFrames, ContentInv, NEW t \in Threads, new_page(t)
    PROVE  ContentStep
<1>0. GuardInv /\ FitInv /\ BaseInv
    BY DEF ContentInv, GuardInv, FitInv
<1>1. num_pages \in Pages /\ num_pages \notin Mapped /\ num_pages \in Nat
    BY <1>0, SizesAssumption DEF new_page, BaseInv, TypeOK, Pages, CachedExist, Allocated
<1>2. free_list # <<>> /\ FreeList = free_list
    BY <1>0, <1>1, MissFindsFreeFrame
<1>3. CASE /\ insert_frame(num_pages, Zero, 0) /\ num_pages' = num_pages + 1
           /\ disk' = [disk EXCEPT ![num_pages] = Zero]
    <2> DEFINE f == Head(free_list)
    <2>1. /\ frame_table' = [frame_table EXCEPT ![num_pages] = f]
          /\ dirty' = [dirty EXCEPT ![f] = FALSE]
          /\ data' = [data EXCEPT ![f] = Zero]
        BY <1>2, <1>3 DEF insert_frame
    <2>2. f \in Frames /\ \A q \in Mapped : frame_table[q] # f
        BY <1>0, <1>2, FreeUnpinned
    <2>3. disk[num_pages] = Zero
        BY <1>1 DEF ContentInv, FreshZero
    <2>4. disk' = disk
        BY <1>0, <1>1, <1>3, <2>3 DEF BaseInv, TypeOK
    <2> QED
        BY <1>1, <1>3, <2>1, <2>2, <2>3, <2>4, ValuesAssumption DEF ContentStep, Loads
<1>4. CASE UNCHANGED <<poolVars, frameVars, storageVars>>
    BY <1>4 DEF ContentStep, poolVars, frameVars, storageVars
<1> QED
    BY <1>3, <1>4 DEF new_page

LEMMA LookupContent ==
    ASSUME NumPages <= NumFrames, ContentInv, NEW t \in Threads,
           NEW p \in Pages, NEW m,
           Hit(t, p, m) \/ Miss(t, p, m) \/ MissThrows(t, p)
    PROVE  ContentStep
<1>1. CASE Hit(t, p, m)
    BY <1>1 DEF Hit, ContentStep, storageVars
<1>2. CASE Miss(t, p, m)
    <2>0. GuardInv /\ FitInv /\ BaseInv
        BY DEF ContentInv, GuardInv, FitInv
    <2>1. p \notin Mapped /\ free_list # <<>> /\ FreeList = free_list
        BY <1>2, <2>0, MissFindsFreeFrame DEF Miss
    <2> DEFINE f == Head(free_list)
    <2>2. /\ frame_table' = [frame_table EXCEPT ![p] = f]
          /\ dirty' = [dirty EXCEPT ![f] = FALSE]
          /\ data' = [data EXCEPT ![f] = disk[p]]
          /\ UNCHANGED <<disk, num_pages>>
        BY <1>2, <2>1 DEF Miss, insert_frame, storageVars
    <2>3. f \in Frames /\ \A q \in Mapped : frame_table[q] # f
        BY <2>0, <2>1, FreeUnpinned
    <2>4. disk[p] \in Values
        BY <2>0 DEF BaseInv, TypeOK
    <2> QED
        BY <2>1, <2>2, <2>3, <2>4 DEF ContentStep, Loads
<1>3. CASE MissThrows(t, p)
    BY <1>3 DEF MissThrows, ContentStep, frameVars, storageVars
<1> QED
    BY <1>1, <1>2, <1>3

\* The flush of a guard writes the page that is in the guard's frame.
LEMMA WriteBackContent ==
    ASSUME ContentInv, NEW t \in Threads, Live(t), WriteBack(t)
    PROVE  ContentStep
<1>1. /\ guard[t].page \in Mapped
      /\ frame_table[guard[t].page] = guard[t].frame
    BY LiveGuard DEF ContentInv, GuardInv, FitInv
<1>2. Saves(guard[t].page) /\ UNCHANGED num_pages
    BY <1>1 DEF WriteBack, Saves, poolVars
<1>3. guard[t].page \in Pages
    BY <1>1 DEF Mapped
<1> QED
    BY <1>2, <1>3 DEF ContentStep

LEMMA WriteContent ==
    ASSUME ContentInv, NEW t \in Threads,
           get_data_mut(t) \/ \E v \in Values : write_data(t, v)
    PROVE  ContentStep
<1> DEFINE f == guard[t].frame
<1>1. Holds(t, "write") /\ UNCHANGED <<frame_table, disk, num_pages>>
    BY DEF get_data_mut, write_data, poolVars, storageVars
<1>2. f \in Frames
    BY <1>1, LiveGuard DEF Holds, Live, ContentInv, GuardInv, FitInv
<1>3. /\ dirty \in [Frames -> BOOLEAN] /\ data \in [Frames -> Values]
      /\ t \in refs => dirty[f]
    BY DEF ContentInv, GuardInv, FitInv, BaseInv, TypeOK, RefDirty
<1>4. CASE get_data_mut(t)
    <2>1. dirty' = [dirty EXCEPT ![f] = TRUE] /\ data' = data
        BY <1>4 DEF get_data_mut
    <2>2. data[f] \in Values /\ data' = [data EXCEPT ![f] = data[f]]
        BY <1>2, <1>3, <2>1
    <2> QED
        BY <1>1, <2>1, <2>2 DEF Modifies, ContentStep
<1>5. ASSUME NEW v \in Values, write_data(t, v) PROVE ContentStep
    <2>1. t \in refs /\ dirty' = dirty /\ data' = [data EXCEPT ![f] = v]
        BY <1>5 DEF write_data
    <2>2. dirty' = [dirty EXCEPT ![f] = TRUE]
        BY <1>2, <1>3, <2>1
    <2> QED
        BY <1>1, <2>1, <2>2 DEF Modifies, ContentStep
<1> QED
    BY <1>4, <1>5

LEMMA NextContentStep ==
    ASSUME NumPages <= NumFrames, ContentInv, [Next]_vars
    PROVE  ContentStep
<1>1. CASE UNCHANGED vars
    BY <1>1 DEF vars, poolVars, frameVars, storageVars, ContentStep
<1>2. ASSUME NEW t \in Threads, Call(t) PROVE ContentStep
    <2>1. ASSUME NEW p \in Pages, read_page(t, p) \/ write_page(t, p)
          PROVE  ContentStep
        BY <2>1, LookupContent DEF read_page, write_page
    <2>2. ASSUME NEW p \in Pages, evict_page(t, p) PROVE ContentStep
        BY <2>2 DEF evict_page, ContentStep, Discards, storageVars
    <2>3. ASSUME \/ \E p \in Pages : flush_page(t, p)
                 \/ flush_all_pages(t)
                 \/ ReadGuardFlush(t)
          PROVE  ContentStep
        BY <2>3 DEF flush_page, flush_all_pages, StartFlush, ReadGuardFlush, poolVars,
                    frameVars, storageVars, ContentStep
    <2>4. CASE get_data_mut(t) \/ \E v \in Values : write_data(t, v)
        BY <2>4, WriteContent
    <2>5. CASE WriteGuardFlush(t)
        BY <2>5, WriteBackContent DEF WriteGuardFlush, Holds, Live
    <2> QED
        BY <1>2, <2>1, <2>2, <2>3, <2>4, <2>5, NewPageContent DEF Call
<1>3. ASSUME NEW t \in Threads, Continue(t) PROVE ContentStep
    <2>1. CASE Latched(t) \/ Downgraded(t) \/ drop(t) \/ Unlatch(t)
        BY <2>1 DEF Latched, Downgraded, drop, Unlatch, poolVars, frameVars,
                    storageVars, ContentStep
    <2>2. CASE Upgraded(t)
        BY <2>2, WriteBackContent DEF Upgraded, Live
    <2>3. CASE FlushOne(t)
        <3>1. PICK p \in todo[t] :
                  /\ disk' = [disk EXCEPT ![p] = data[frame_table[p]]]
                  /\ dirty' = [dirty EXCEPT ![frame_table[p]] = FALSE]
            BY <2>3 DEF FlushOne
        <3>2. p \in Mapped /\ p \in Pages
            BY <3>1 DEF ContentInv, GuardInv, FitInv, BaseInv, LatchOwned, Mapped
        <3>3. UNCHANGED <<frame_table, data, num_pages>>
            BY <2>3 DEF FlushOne, poolVars
        <3> QED
            BY <3>1, <3>2, <3>3 DEF Saves, ContentStep
    <2> QED
        BY <1>3, <2>1, <2>2, <2>3 DEF Continue
<1> QED
    BY <1>1, <1>2, <1>3 DEF Next

LEMMA CleanStep ==
    ASSUME ContentInv, ContentStep
    PROVE  CleanOnDisk' /\ FreshZero'
<1>0. /\ frame_table \in [Pages -> Frames \cup {NoFrame}]
      /\ dirty \in [Frames -> BOOLEAN] /\ data \in [Frames -> Values]
      /\ disk \in [Pages -> Values] /\ num_pages \in Nat /\ NoFrame \notin Frames
      /\ \A p, q \in Mapped : frame_table[p] = frame_table[q] => p = q
      /\ \A p \in Mapped : frame_table[p] \in Frames /\ p \in Pages
      /\ \A p \in Mapped : dirty[frame_table[p]] \/ data[frame_table[p]] = disk[p]
    BY NullAssumption DEF ContentInv, GuardInv, FitInv, BaseInv, TypeOK, FramesNotShared,
                          Mapped, CleanOnDisk
<1>1. \A p \in Pages : p >= num_pages' => p >= num_pages /\ p \notin Mapped
    BY <1>0, SizesAssumption
       DEF ContentStep, ContentInv, GuardInv, FitInv, BaseInv, CachedExist, Allocated, Pages
<1>2. CASE UNCHANGED <<frame_table, dirty, data, disk>>
    BY <1>1, <1>2 DEF ContentInv, CleanOnDisk, FreshZero, Mapped
<1>3. ASSUME NEW p \in Pages, Loads(p) PROVE CleanOnDisk' /\ FreshZero'
    <2>1. PICK f \in Frames, c \in Values :
              /\ p \notin Mapped /\ \A q \in Mapped : frame_table[q] # f
              /\ frame_table' = [frame_table EXCEPT ![p] = f]
              /\ dirty' = [dirty EXCEPT ![f] = FALSE]
              /\ data' = [data EXCEPT ![f] = c]
              /\ c = disk[p] /\ UNCHANGED disk
        BY <1>3 DEF Loads
    <2>2. ASSUME NEW q \in Mapped'
          PROVE  dirty'[frame_table'[q]] \/ data'[frame_table'[q]] = disk'[q]
        <3>1. CASE q = p
            BY <1>0, <2>1, <3>1
        <3>2. CASE q # p
            <4>1. q \in Mapped /\ frame_table'[q] = frame_table[q]
                BY <1>0, <2>1, <3>2 DEF Mapped
            <4> QED
                BY <1>0, <2>1, <4>1
        <3> QED
            BY <3>1, <3>2
    <2> QED
        BY <1>1, <2>1, <2>2 DEF CleanOnDisk, FreshZero, ContentInv
<1>4. ASSUME NEW p \in Pages, Discards(p) PROVE CleanOnDisk' /\ FreshZero'
    <2>1. ASSUME NEW q \in Mapped'
          PROVE  dirty'[frame_table'[q]] \/ data'[frame_table'[q]] = disk'[q]
        <3>1. q \in Mapped /\ q # p /\ frame_table'[q] = frame_table[q]
            BY <1>0, <1>4 DEF Discards, Mapped
        <3> QED
            BY <1>0, <1>4, <3>1 DEF Discards
    <2> QED
        BY <1>1, <1>4, <2>1 DEF CleanOnDisk, FreshZero, ContentInv, Discards
<1>5. ASSUME NEW p \in Pages, Saves(p) PROVE CleanOnDisk' /\ FreshZero'
    <2>1. ASSUME NEW q \in Mapped'
          PROVE  dirty'[frame_table'[q]] \/ data'[frame_table'[q]] = disk'[q]
        <3>1. q \in Mapped /\ frame_table'[q] = frame_table[q]
            BY <1>5 DEF Saves, Mapped
        <3> QED
            BY <1>0, <1>5, <3>1 DEF Saves
    <2>2. FreshZero'
        BY <1>0, <1>1, <1>5 DEF Saves, FreshZero, ContentInv
    <2> QED
        BY <2>1, <2>2 DEF CleanOnDisk
<1>6. ASSUME NEW t \in Threads, Modifies(t) PROVE CleanOnDisk' /\ FreshZero'
    <2>1. guard[t].frame \in Frames
        BY <1>6, LiveGuard DEF Modifies, Holds, Live, ContentInv, GuardInv, FitInv
    <2>2. Mapped' = Mapped /\ UNCHANGED <<frame_table, disk>>
        BY <1>6 DEF Modifies, Mapped
    <2>3. /\ dirty'[guard[t].frame] = TRUE
          /\ \A f \in Frames : f # guard[t].frame => /\ dirty'[f] = dirty[f]
                                                    /\ data'[f] = data[f]
        BY <1>0, <1>6, <2>1 DEF Modifies
    <2>4. ASSUME NEW q \in Mapped
          PROVE  dirty'[frame_table[q]] \/ data'[frame_table[q]] = disk[q]
        BY <1>0, <2>3
    <2> QED
        BY <1>1, <2>2, <2>4 DEF CleanOnDisk, FreshZero, ContentInv
<1> QED
    BY <1>2, <1>3, <1>4, <1>5, <1>6 DEF ContentStep

\* A step of a thread that keeps no reference, and clears dirty_ under nobody
\* who does.
LEMMA RefsOfOthers ==
    ASSUME RefDirty, refs \subseteq Threads, refs' \subseteq refs,
           NEW t \in Threads, t \notin refs',
           \A u \in Threads : u # t => pc'[u] = pc[u] /\ guard'[u] = guard[u],
           \A u \in refs' : dirty'[guard[u].frame] = dirty[guard[u].frame]
    PROVE  RefDirty'
BY DEF RefDirty, Holds

\* The frame a miss fills is not the frame of a reference.
LEMMA FillRefs ==
    ASSUME NumPages <= NumFrames, ContentInv, NEW p \in Pages \ Mapped, NEW c, NEW n,
           insert_frame(p, c, n)
    PROVE  \A u \in refs : dirty'[guard[u].frame] = dirty[guard[u].frame]
<1>0. GuardInv /\ FitInv /\ BaseInv
    BY DEF ContentInv, GuardInv, FitInv
<1>1. free_list # <<>> /\ FreeList = free_list
    BY <1>0, MissFindsFreeFrame
<1>2. dirty' = [dirty EXCEPT ![Head(free_list)] = FALSE]
    BY <1>1 DEF insert_frame
<1>3. \A q \in Mapped : frame_table[q] # Head(free_list)
    BY <1>0, <1>1, FreeUnpinned
<1>4. \A u \in refs : u \in Threads /\ Live(u)
    BY <1>0 DEF ContentInv, RefDirty, Holds, Live, BaseInv, TypeOK
<1>5. \A u \in refs : guard[u].frame \in Frames /\ guard[u].frame # Head(free_list)
    BY <1>0, <1>3, <1>4, LiveGuard DEF GuardInv
<1> QED
    BY <1>0, <1>2, <1>5 DEF BaseInv, TypeOK

\* A flush that holds the frame's write latch clears dirty_ under no reference.
LEMMA FlushRefs ==
    ASSUME ContentInv, NEW f \in Frames, WriteFree(f),
           dirty' = [dirty EXCEPT ![f] = FALSE]
    PROVE  \A u \in refs : dirty'[guard[u].frame] = dirty[guard[u].frame]
<1>1. \A u \in refs : u \in Threads /\ Holds(u, "write")
    BY DEF ContentInv, RefDirty, GuardInv, FitInv, BaseInv, TypeOK
<1>2. \A u \in refs : writer[guard[u].frame] = u /\ guard[u].frame \in Frames
    BY <1>1 DEF Holds, Inside, ContentInv, LatchInv, GuardInv, FitInv, BaseInv,
                GuardBuilt, Guards
<1>3. \A u \in refs : guard[u].frame # f
    BY <1>1, <1>2, NullAssumption DEF WriteFree
<1> QED
    BY <1>2, <1>3 DEF ContentInv, GuardInv, FitInv, BaseInv, TypeOK

LEMMA CallRefs ==
    ASSUME NumPages <= NumFrames, LateWriters = {}, ContentInv, NEW t \in Threads, Call(t)
    PROVE  RefDirty'
<1>0. /\ GuardInv /\ FitInv /\ BaseInv /\ RefDirty /\ refs \subseteq Threads
      /\ pc \in [Threads -> {"idle", "latching", "held", "dropped", "flushing",
                             "upgrading", "downgrading", "threw"}]
      /\ guard \in [Threads -> Guards \cup {NoGuard}]
      /\ dirty \in [Frames -> BOOLEAN]
    BY DEF ContentInv, GuardInv, FitInv, BaseInv, TypeOK
<1>r. \A u \in refs : /\ u \in Threads /\ pc[u] = "held" /\ guard[u].mode = "write"
                      /\ Live(u) /\ guard[u].frame \in Frames
                      /\ writer[guard[u].frame] = u /\ dirty[guard[u].frame]
    BY <1>0 DEF RefDirty, Holds, Live, Inside, ContentInv, LatchInv, BaseInv, GuardBuilt,
                Guards
<1>1. CASE new_page(t)
    <2>1. /\ t \notin refs /\ UNCHANGED <<pc, guard, refs>>
        BY <1>1, <1>r DEF new_page, Locks
    <2>2. \A u \in refs : dirty'[guard[u].frame] = dirty[guard[u].frame]
        <3>1. CASE insert_frame(num_pages, Zero, 0)
            <4>1. num_pages \in Pages \ Mapped
                BY <1>0, <1>1, SizesAssumption
                   DEF new_page, BaseInv, TypeOK, Pages, CachedExist, Allocated
            <4> QED
                BY <3>1, <4>1, FillRefs
        <3>2. CASE UNCHANGED frameVars
            BY <3>2 DEF frameVars
        <3> QED
            BY <1>1, <3>1, <3>2 DEF new_page
    <2> QED
        BY <1>0, <2>1, <2>2, RefsOfOthers
<1>2. ASSUME NEW p \in Pages, NEW m, Locks(t),
             Hit(t, p, m) \/ Miss(t, p, m) \/ MissThrows(t, p)
      PROVE  RefDirty'
    <2>1. /\ t \notin refs /\ UNCHANGED refs
          /\ \A u \in Threads : u # t => pc'[u] = pc[u] /\ guard'[u] = guard[u]
        BY <1>0, <1>2, <1>r DEF Locks, Hit, Miss, MissThrows, Construct
    <2>2. \A u \in refs : dirty'[guard[u].frame] = dirty[guard[u].frame]
        <3>1. CASE Miss(t, p, m)
            BY <3>1, FillRefs DEF Miss
        <3>2. CASE Hit(t, p, m) \/ MissThrows(t, p)
            BY <3>2 DEF Hit, MissThrows, frameVars
        <3> QED
            BY <1>2, <3>1, <3>2
    <2> QED
        BY <1>0, <2>1, <2>2, RefsOfOthers
<1>3. ASSUME NEW p \in Pages, evict_page(t, p) PROVE RefDirty'
    <2> DEFINE f == frame_table[p]
    <2>1. /\ t \notin refs /\ UNCHANGED <<pc, guard, refs>> /\ f \in Frames
          /\ pins[f] = 0 /\ dirty' = [dirty EXCEPT ![f] = FALSE]
        BY <1>0, <1>3, <1>r DEF evict_page, Locks, Mapped, BaseInv, TypeOK
    <2> HIDE DEF f
    <2>2. \A u \in refs : guard[u].frame # f
        BY <1>0, <1>r, <2>1, NoPinsNoGuard DEF GuardInv
    <2>3. \A u \in refs : dirty'[guard[u].frame] = dirty[guard[u].frame]
        BY <1>0, <1>r, <2>1, <2>2
    <2> QED
        BY <1>0, <2>1, <2>3, RefsOfOthers
<1>4. ASSUME \/ \E p \in Pages : flush_page(t, p)
             \/ flush_all_pages(t)
             \/ ReadGuardFlush(t)
      PROVE  RefDirty'
    <2>1. /\ t \notin refs /\ UNCHANGED <<guard, refs, dirty>>
          /\ \A u \in Threads : u # t => pc'[u] = pc[u]
        BY <1>0, <1>4, <1>r DEF flush_page, flush_all_pages, StartFlush, ReadGuardFlush,
                                Locks, Holds, frameVars
    <2> QED
        BY <1>0, <2>1, RefsOfOthers
<1>5. CASE get_data_mut(t)
    <2>1. /\ Holds(t, "write") /\ UNCHANGED <<pc, guard>> /\ refs' = refs \cup {t}
          /\ dirty' = [dirty EXCEPT ![guard[t].frame] = TRUE]
        BY <1>5 DEF get_data_mut
    <2>2. guard[t].frame \in Frames
        BY <1>0, <2>1 DEF Holds, BaseInv, GuardBuilt, Guards
    <2>3. \A u \in refs' : dirty'[guard[u].frame]
        BY <1>0, <1>r, <2>1, <2>2
    <2> QED
        BY <1>r, <2>1, <2>3 DEF RefDirty, Holds
<1>6. ASSUME NEW v \in Values, write_data(t, v) PROVE RefDirty'
    BY <1>0, <1>6 DEF write_data, RefDirty, Holds
<1>7. CASE WriteGuardFlush(t)
    <2>1. /\ Holds(t, "write") /\ UNCHANGED <<pc, guard>> /\ refs' = refs \ {t}
          /\ dirty' = [dirty EXCEPT ![guard[t].frame] = FALSE]
        BY <1>7 DEF WriteGuardFlush, WriteBack
    <2>2. writer[guard[t].frame] = t
        BY <2>1 DEF Holds, Inside, ContentInv, LatchInv
    <2>3. \A u \in refs' : guard[u].frame # guard[t].frame
        BY <1>r, <2>1, <2>2
    <2>4. \A u \in refs' : dirty'[guard[u].frame] = dirty[guard[u].frame]
        BY <1>0, <1>r, <2>1, <2>3
    <2> QED
        BY <1>0, <2>1, <2>4, RefsOfOthers
<1> QED
    BY <1>1, <1>2, <1>3, <1>4, <1>5, <1>6, <1>7 DEF Call, read_page, write_page

LEMMA ContinueRefs ==
    ASSUME ContentInv, NEW t \in Threads, Continue(t)
    PROVE  RefDirty'
<1>0. /\ BaseInv /\ RefDirty /\ refs \subseteq Threads
      /\ pc \in [Threads -> {"idle", "latching", "held", "dropped", "flushing",
                             "upgrading", "downgrading", "threw"}]
      /\ guard \in [Threads -> Guards \cup {NoGuard}]
    BY DEF ContentInv, GuardInv, FitInv, BaseInv, TypeOK
<1>1. \A u \in refs : pc[u] = "held"
    BY <1>0 DEF RefDirty, Holds
<1>2. CASE Latched(t) \/ Downgraded(t) \/ Unlatch(t) \/ drop(t)
    <2>1. /\ UNCHANGED dirty /\ refs' \subseteq refs /\ t \notin refs'
          /\ \A u \in Threads : u # t => pc'[u] = pc[u] /\ guard'[u] = guard[u]
        BY <1>0, <1>1, <1>2 DEF Latched, Downgraded, Unlatch, drop, frameVars
    <2> QED
        BY <1>0, <2>1, RefsOfOthers
<1>3. CASE Upgraded(t)
    <2>1. /\ pc[t] = "upgrading" /\ UNCHANGED <<guard, refs>>
          /\ WriteFree(guard[t].frame)
          /\ dirty' = [dirty EXCEPT ![guard[t].frame] = FALSE]
          /\ \A u \in Threads : u # t => pc'[u] = pc[u]
        BY <1>0, <1>3 DEF Upgraded, WriteBack
    <2>2. guard[t].frame \in Frames
        BY <1>0, <2>1 DEF BaseInv, GuardBuilt, Guards
    <2> QED
        BY <1>0, <1>1, <2>1, <2>2, FlushRefs, RefsOfOthers
<1>4. CASE FlushOne(t)
    <2>1. PICK p \in todo[t] :
              /\ WriteFree(frame_table[p])
              /\ dirty' = [dirty EXCEPT ![frame_table[p]] = FALSE]
        BY <1>4 DEF FlushOne
    <2>2. frame_table[p] \in Frames
        BY <1>0, <2>1 DEF BaseInv, LatchOwned, Mapped, TypeOK
    <2>3. /\ pc[t] = "flushing" /\ UNCHANGED <<guard, refs>>
          /\ \A u \in Threads : u # t => pc'[u] = pc[u]
        BY <1>0, <1>4 DEF FlushOne
    <2> QED
        BY <1>0, <1>1, <2>1, <2>2, <2>3, FlushRefs, RefsOfOthers
<1> QED
    BY <1>2, <1>3, <1>4 DEF Continue

LEMMA InitContent == Init => ContentInv
<1> SUFFICES ASSUME Init PROVE ContentInv
    OBVIOUS
<1>1. Mapped = {}
    BY DEF Init, Mapped
<1>2. CleanOnDisk /\ FreshZero /\ RefDirty
    BY <1>1 DEF CleanOnDisk, FreshZero, RefDirty, Init
<1> QED
    BY <1>2, InitGuard, InitLatch DEF ContentInv

LEMMA NextContent ==
    ASSUME NumPages <= NumFrames, LateWriters = {}, ContentInv, [Next]_vars
    PROVE  ContentInv'
<1>1. GuardInv' /\ CleanOnDisk' /\ FreshZero'
    BY NextGuard, NextContentStep, CleanStep DEF ContentInv
<1>2. LatchInv' /\ FlushReads'
    BY NextLatch DEF ContentInv, GuardInv, FitInv
<1>3. RefDirty'
    <2>1. CASE UNCHANGED vars
        BY <2>1 DEF vars, frameVars, ContentInv, RefDirty, Holds
    <2> QED
        BY <2>1, CallRefs, ContinueRefs DEF Next
<1> QED
    BY <1>1, <1>2, <1>3 DEF ContentInv

\* A cached page that is not marked dirty is the page on disk, in every
\* state: no flush clears dirty_ over a change it did not write
\* (pageguard.cpp 67-69, 148, 160-162; bufferpool.cpp 175-177), as long as
\* the callers ask for a new reference after each flush.
THEOREM CleanAlwaysOnDisk ==
    ASSUME NumPages <= NumFrames, LateWriters = {}
    PROVE  Spec => []CleanOnDisk
<1>1. Init => ContentInv
    BY InitContent
<1>2. ContentInv /\ [Next]_vars => ContentInv'
    BY NextContent
<1>3. ContentInv => CleanOnDisk
    BY DEF ContentInv
<1> QED
    BY <1>1, <1>2, <1>3, PTL DEF Spec

\* Of one step: a page reads as it did, but for a write through a write
\* guard of that page, or an evict_page that drops its dirty frame.
ContentKept ==
    \A p \in Pages : Content(p)' # Content(p) =>
        \/ \E t \in Threads : Holds(t, "write") /\ guard[t].page = p
        \/ p \in Mapped /\ p \notin Mapped' /\ dirty[frame_table[p]]

LEMMA ContentKeptStep ==
    ASSUME ContentInv, ContentStep
    PROVE  ContentKept
<1> SUFFICES ASSUME NEW p \in Pages, Content(p)' # Content(p)
             PROVE  \/ \E t \in Threads : Holds(t, "write") /\ guard[t].page = p
                    \/ p \in Mapped /\ p \notin Mapped' /\ dirty[frame_table[p]]
    BY DEF ContentKept
<1>0. /\ frame_table \in [Pages -> Frames \cup {NoFrame}]
      /\ dirty \in [Frames -> BOOLEAN] /\ data \in [Frames -> Values]
      /\ disk \in [Pages -> Values] /\ NoFrame \notin Frames
      /\ \A q, r \in Mapped : frame_table[q] = frame_table[r] => q = r
      /\ \A q \in Mapped : frame_table[q] \in Frames /\ q \in Pages
      /\ \A q \in Mapped : dirty[frame_table[q]] \/ data[frame_table[q]] = disk[q]
    BY NullAssumption DEF ContentInv, GuardInv, FitInv, BaseInv, TypeOK, FramesNotShared,
                          Mapped, CleanOnDisk
<1>1. CASE UNCHANGED <<frame_table, dirty, data, disk>>
    BY <1>1 DEF Content, Mapped
<1>2. ASSUME NEW q \in Pages, Loads(q) PROVE FALSE
    <2>1. PICK f \in Frames, c \in Values :
              /\ q \notin Mapped /\ \A r \in Mapped : frame_table[r] # f
              /\ frame_table' = [frame_table EXCEPT ![q] = f]
              /\ dirty' = [dirty EXCEPT ![f] = FALSE]
              /\ data' = [data EXCEPT ![f] = c]
              /\ c = disk[q] /\ UNCHANGED disk
        BY <1>2 DEF Loads
    <2>2. CASE p = q
        BY <1>0, <2>1, <2>2 DEF Content, Mapped
    <2>3. CASE p # q
        <3>1. frame_table'[p] = frame_table[p] /\ (p \in Mapped' <=> p \in Mapped)
            BY <1>0, <2>1, <2>3 DEF Mapped
        <3> QED
            BY <1>0, <2>1, <3>1 DEF Content
    <2> QED
        BY <2>2, <2>3
<1>3. ASSUME NEW q \in Pages, Discards(q)
      PROVE  p \in Mapped /\ p \notin Mapped' /\ dirty[frame_table[p]]
    <2>1. CASE p = q
        <3>1. p \in Mapped /\ p \notin Mapped' /\ disk' = disk
            BY <1>0, <1>3, <2>1 DEF Discards, Mapped
        <3> QED
            BY <1>0, <3>1 DEF Content
    <2>2. CASE p # q
        <3>1. frame_table'[p] = frame_table[p] /\ (p \in Mapped' <=> p \in Mapped)
            BY <1>0, <1>3, <2>2 DEF Discards, Mapped
        <3> QED
            BY <1>0, <1>3, <2>2, <3>1 DEF Discards, Content
    <2> QED
        BY <2>1, <2>2
<1>4. ASSUME NEW q \in Pages, Saves(q) PROVE FALSE
    <2>1. Mapped' = Mapped /\ UNCHANGED <<frame_table, data>>
        BY <1>4 DEF Saves, Mapped
    <2>2. p \notin Mapped => disk'[p] = disk[p]
        BY <1>0, <1>4 DEF Saves
    <2> QED
        BY <2>1, <2>2 DEF Content
<1>5. ASSUME NEW t \in Threads, Modifies(t)
      PROVE  Holds(t, "write") /\ guard[t].page = p
    <2>1. /\ Holds(t, "write") /\ guard[t].frame \in Frames
          /\ guard[t].page \in Mapped
          /\ frame_table[guard[t].page] = guard[t].frame
        BY <1>5, LiveGuard DEF Modifies, Holds, Live, ContentInv, GuardInv, FitInv
    <2>2. Mapped' = Mapped /\ UNCHANGED <<frame_table, disk>>
        BY <1>5 DEF Modifies, Mapped
    <2>3. p \in Mapped /\ data'[frame_table[p]] # data[frame_table[p]]
        BY <2>2 DEF Content
    <2>4. frame_table[p] = guard[t].frame
        BY <1>0, <1>5, <2>3 DEF Modifies
    <2> QED
        BY <1>0, <2>1, <2>3, <2>4
<1> QED
    BY <1>1, <1>2, <1>3, <1>4, <1>5 DEF ContentStep

\* What a page reads as never changes but by a write through a write guard of
\* that page or by an evict_page that drops its dirty frame: not by a miss on
\* another page, a flush, or the eviction of a clean frame
\* (bufferpool.cpp 25-54, 127-190; pageguard.cpp 61-74, 145-165).
THEOREM ContentAlwaysStable ==
    ASSUME NumPages <= NumFrames, LateWriters = {}
    PROVE  Spec => ContentStable
<1>1. Init => ContentInv
    BY InitContent
<1>2. ContentInv /\ [Next]_vars => ContentInv'
    BY NextContent
<1>3. ContentInv /\ [Next]_vars => [ContentKept]_vars
    BY NextContentStep, ContentKeptStep
<1>4. ContentStable <=> [][ContentKept]_vars
    BY DEF ContentStable, ContentKept
<1> QED
    BY <1>1, <1>2, <1>3, <1>4, PTL DEF Spec
-----------------------------------------------------------------------------
(***************************************************************************)
(* What the evictor may choose.                                            *)
(***************************************************************************)
Seen(f)      == Occurs(evictor.accesses, f)
SeenTwice(f) == Twice(evictor.accesses, f)

\* The evictor remembers exactly the cached frames, and more than one access
\* of every frame that has a guard: insert_frame and the guard's constructor
\* both record one.  Without it a drop() could find no node to make evictable.
FrameKnown(f) == /\ Caches(f) <=> Seen(f)
                 /\ pins[f] # 0 => SeenTwice(f)
                 /\ f \in evictor.evictable <=> Caches(f) /\ pins[f] = 0 /\ SeenTwice(f)

EvictInv == GuardInv /\ \A f \in Frames : FrameKnown(f)

\* Nothing the pool or the evictor knows of frame g changes.
LeftAlone(g) == /\ Caches(g)' <=> Caches(g)
                /\ pins'[g] = pins[g]
                /\ g \in evictor'.evictable <=> g \in evictor.evictable
                /\ Seen(g)' <=> Seen(g)
                /\ SeenTwice(g)' <=> SeenTwice(g)

LEMMA KnownStep ==
    ASSUME EvictInv, NEW f, f \in Frames => FrameKnown(f)',
           \A g \in Frames : g # f => LeftAlone(g)
    PROVE  \A g \in Frames : FrameKnown(g)'
<1> SUFFICES ASSUME NEW g \in Frames, g # f PROVE FrameKnown(g)'
    OBVIOUS
<1>1. FrameKnown(g) /\ LeftAlone(g)
    BY DEF EvictInv
<1> QED
    BY <1>1 DEF FrameKnown, LeftAlone

\* A step that leaves the table, the pins and the evictor alone.
LEMMA QuietKnown ==
    ASSUME EvictInv, UNCHANGED <<frame_table, pins, evictor>>
    PROVE  \A g \in Frames : FrameKnown(g)'
BY DEF EvictInv, FrameKnown, Caches, Seen, SeenTwice

\* record_access, set_not_evictable, record_access: a guard on a cached or a
\* just filled frame.  insert_frame alone is the first two.
LEMMA InsertRemembers ==
    ASSUME EvictorOK(evictor), NEW f \in Frames, K > 1,
           NEW e, e = SetNotEvictable(RecordAccess(evictor, f), f)
    PROVE  /\ EvictorOK(e) /\ e.evictable = evictor.evictable \ {f}
           /\ Occurs(e.accesses, f) /\ (~Seen(f) => ~Twice(e.accesses, f))
           /\ KeepsOthers(evictor.accesses, e.accesses, f)
           /\ RecordAccess(e, f).evictable = evictor.evictable \ {f}
           /\ Occurs(RecordAccess(e, f).accesses, f)
           /\ Twice(RecordAccess(e, f).accesses, f)
           /\ KeepsOthers(evictor.accesses, RecordAccess(e, f).accesses, f)
<1> DEFINE a == RecordAccess(evictor, f)
<1>1. /\ EvictorOK(a) /\ a.evictable = evictor.evictable
      /\ Remembers(evictor.accesses, a.accesses, f)
    BY RecordAccessFacts
<1> HIDE DEF a
<1>2. EvictorOK(e) /\ e.accesses = a.accesses /\ e.evictable = a.evictable \ {f}
    BY <1>1, EvictableFacts DEF a
<1>3. /\ EvictorOK(e) /\ e.evictable = evictor.evictable \ {f}
      /\ Remembers(evictor.accesses, e.accesses, f)
    BY <1>1, <1>2
<1>4. /\ RecordAccess(e, f).evictable = e.evictable
      /\ Remembers(e.accesses, RecordAccess(e, f).accesses, f)
    BY <1>2, RecordAccessFacts
<1>5. KeepsOthers(evictor.accesses, RecordAccess(e, f).accesses, f)
    BY <1>3, <1>4 DEF Remembers, KeepsOthers
<1> QED
    BY <1>3, <1>4, <1>5 DEF Remembers, Seen

\* Others are left alone by a step that changes the table and the pins only
\* for f and whose evictor keeps the others.
LEMMA OthersAlone ==
    ASSUME EvictInv, NEW f \in Frames,
           KeepsOthers(evictor.accesses, evictor'.accesses, f),
           \A g \in Frames : g # f => /\ g \in evictor'.evictable <=> g \in evictor.evictable
                                      /\ pins'[g] = pins[g]
                                      /\ Caches(g)' <=> Caches(g)
    PROVE  \A g \in Frames : g # f => LeftAlone(g)
BY DEF LeftAlone, KeepsOthers, Seen, SeenTwice

LEMMA HitKnown ==
    ASSUME EvictInv, GuardInv', K > 1, NEW t \in Threads, Locks(t), NEW p \in Pages,
           NEW m \in {"read", "write"}, Hit(t, p, m)
    PROVE  \A g \in Frames : FrameKnown(g)'
<1>f. PICK f : f = frame_table[p]
    OBVIOUS
<1>0. GuardInv /\ BaseInv
    BY DEF EvictInv, GuardInv, FitInv
<1>1. /\ f \in Frames /\ Construct(t, p, f, m) /\ frame_table' = frame_table
      /\ pins' = [pins EXCEPT ![f] = (@ + 1) % PinModulus]
      /\ evictor' = RecordAccess(SetNotEvictable(RecordAccess(evictor, f), f), f)
    BY <1>0, <1>f DEF Hit, Mapped, BaseInv, TypeOK
<1>2. /\ evictor'.evictable = evictor.evictable \ {f}
      /\ Occurs(evictor'.accesses, f) /\ Twice(evictor'.accesses, f)
      /\ KeepsOthers(evictor.accesses, evictor'.accesses, f)
    BY <1>0, <1>1, InsertRemembers DEF BaseInv
<1>3. \A g \in Frames : g # f => pins'[g] = pins[g]
    BY <1>0, <1>1 DEF BaseInv, TypeOK
<1>4. \A g \in Frames : Caches(g)' <=> Caches(g)
    BY <1>1 DEF Caches
<1>5. pins'[f] # 0
    <2>1. guard'[t].frame = f /\ Live(t)'
        BY <1>0, <1>1 DEF Construct, Live, BaseInv, TypeOK
    <2>2. GuardsOf(f)' # {} /\ GuardsOf(f)' \subseteq Threads
        BY <2>1 DEF GuardsOf
    <2>3. Cardinality(GuardsOf(f)') # 0
        BY <2>2, ThreadsAssumption, FS_Subset, FS_EmptySet
    <2> QED
        BY <1>1, <2>3 DEF GuardInv, PinsExact, GuardsOf
<1>6. Caches(f)
    BY <1>f DEF Caches
<1>7. FrameKnown(f)'
    BY <1>2, <1>4, <1>5, <1>6, <1>1 DEF FrameKnown, Seen, SeenTwice
<1>8. \A g \in Frames : g # f => LeftAlone(g)
    BY <1>1, <1>2, <1>3, <1>4, OthersAlone
<1> QED
    BY <1>7, <1>8, KnownStep

LEMMA FillKnown ==
    ASSUME EvictInv, K > 1, NumPages <= NumFrames, NEW p \in Pages, p \notin Mapped,
           NEW content, NEW n \in {0, 1}, insert_frame(p, content, n),
           LET f == Head(FreeList)
           IN  evictor' = IF n = 0 THEN Inserted(f) ELSE RecordAccess(Inserted(f), f)
    PROVE  \A g \in Frames : FrameKnown(g)'
<1>0. GuardInv /\ FitInv /\ BaseInv
    BY DEF EvictInv, GuardInv, FitInv
<1>1. free_list # <<>> /\ FreeList = free_list /\ Evictor = evictor
    BY <1>0, MissFindsFreeFrame
<1>f. PICK f : f = Head(free_list)
    OBVIOUS
<1> DEFINE e == SetNotEvictable(RecordAccess(evictor, f), f)
<1>2. /\ frame_table' = [frame_table EXCEPT ![p] = f]
      /\ pins' = [pins EXCEPT ![f] = n]
      /\ evictor' = IF n = 0 THEN e ELSE RecordAccess(e, f)
    BY <1>1, <1>f DEF insert_frame, Inserted
<1>3. f \in Frames /\ \A q \in Mapped : frame_table[q] # f
    BY <1>0, <1>1, <1>f, FreeUnpinned
<1>4. ~Caches(f)
    BY <1>0, <1>3, NullAssumption DEF Caches, Mapped
<1>5. ~Seen(f)
    BY <1>3, <1>4 DEF EvictInv, FrameKnown
<1>6. /\ e.evictable = evictor.evictable \ {f}
      /\ Occurs(e.accesses, f) /\ ~Twice(e.accesses, f)
      /\ KeepsOthers(evictor.accesses, e.accesses, f)
      /\ RecordAccess(e, f).evictable = evictor.evictable \ {f}
      /\ Occurs(RecordAccess(e, f).accesses, f)
      /\ Twice(RecordAccess(e, f).accesses, f)
      /\ KeepsOthers(evictor.accesses, RecordAccess(e, f).accesses, f)
    BY <1>0, <1>3, <1>5, InsertRemembers DEF BaseInv
<1> HIDE DEF e
<1>7. /\ evictor'.evictable = evictor.evictable \ {f}
      /\ Occurs(evictor'.accesses, f)
      /\ Twice(evictor'.accesses, f) <=> n = 1
      /\ KeepsOthers(evictor.accesses, evictor'.accesses, f)
    BY <1>2, <1>6
<1>8. Caches(f)' /\ \A g \in Frames : g # f => (Caches(g)' <=> Caches(g))
    <2>0. frame_table \in [Pages -> Frames \cup {NoFrame}] /\ frame_table[p] = NoFrame
        BY <1>0 DEF BaseInv, TypeOK, Mapped
    <2>1. frame_table'[p] = f /\ \A q \in Pages : q # p => frame_table'[q] = frame_table[q]
        BY <1>2, <2>0
    <2> QED
        BY <1>3, <2>0, <2>1, NullAssumption DEF Caches
<1>9. pins'[f] = n /\ \A g \in Frames : g # f => pins'[g] = pins[g]
    BY <1>0, <1>2, <1>3 DEF BaseInv, TypeOK
<1>10. FrameKnown(f)'
    BY <1>3, <1>7, <1>8, <1>9 DEF FrameKnown, Seen, SeenTwice
<1>11. \A g \in Frames : g # f => LeftAlone(g)
    BY <1>3, <1>7, <1>8, <1>9, OthersAlone
<1> QED
    BY <1>10, <1>11, KnownStep

LEMMA EvictPageKnown ==
    ASSUME EvictInv, NEW t \in Threads, NEW p \in Pages, evict_page(t, p)
    PROVE  \A g \in Frames : FrameKnown(g)'
<1>f. PICK f : f = frame_table[p]
    OBVIOUS
<1>0. GuardInv /\ FitInv /\ BaseInv /\ EvictorOK(evictor)
    BY DEF EvictInv, GuardInv, FitInv, BaseInv
<1>1. /\ f \in Frames /\ p \in Mapped
      /\ frame_table' = [frame_table EXCEPT ![p] = NoFrame]
      /\ pins' = [pins EXCEPT ![f] = 0]
      /\ evictor' = Forget(evictor, f)
    BY <1>0, <1>f DEF evict_page, Mapped, BaseInv, TypeOK
<1>2. \A q \in Pages : q # p => frame_table[q] # f
    BY <1>0, <1>1, <1>f, NullAssumption DEF GuardInv, FramesNotShared, Mapped
<1>3. frame_table'[p] = NoFrame /\ \A q \in Pages : q # p => frame_table'[q] = frame_table[q]
    BY <1>0, <1>1 DEF BaseInv, TypeOK
<1>4. ~Caches(f)' /\ \A g \in Frames : g # f => (Caches(g)' <=> Caches(g))
    BY <1>1, <1>f, <1>2, <1>3, NullAssumption DEF Caches
<1>5. /\ evictor'.evictable = evictor.evictable \ {f}
      /\ evictor'.accesses = Without(evictor.accesses, f)
      /\ evictor.accesses \in Seq(Frames)
    BY <1>0, <1>1, EvictableFacts DEF EvictorOK
<1>6. /\ ~Occurs(evictor'.accesses, f)
      /\ KeepsOthers(evictor.accesses, evictor'.accesses, f)
    BY <1>5, WithoutOccurs
<1>7. pins'[f] = 0 /\ \A g \in Frames : g # f => pins'[g] = pins[g]
    BY <1>0, <1>1 DEF BaseInv, TypeOK
<1>8. FrameKnown(f)'
    BY <1>4, <1>5, <1>6, <1>7 DEF FrameKnown, Seen, SeenTwice
<1>9. \A g \in Frames : g # f => LeftAlone(g)
    BY <1>1, <1>4, <1>5, <1>6, <1>7, OthersAlone
<1> QED
    BY <1>8, <1>9, KnownStep

LEMMA DropKnown ==
    ASSUME EvictInv, NEW t \in Threads, drop(t)
    PROVE  \A g \in Frames : FrameKnown(g)'
<1>f. PICK f : f = guard[t].frame
    OBVIOUS
<1>0. GuardInv /\ FitInv /\ BaseInv /\ EvictorOK(evictor)
    BY DEF EvictInv, GuardInv, FitInv, BaseInv
<1>1. /\ Live(t) /\ frame_table' = frame_table
      /\ pins' = [pins EXCEPT ![f] = (@ + PinModulus - 1) % PinModulus]
      /\ evictor' = IF pins[f] = 1 THEN SetEvictable(evictor, f) ELSE evictor
    BY <1>f DEF drop, Live
<1>2. f \in Frames /\ Caches(f) /\ pins[f] # 0
    <2>1. f \in Frames /\ guard[t].page \in Mapped /\ frame_table[guard[t].page] = f
        BY <1>0, <1>1, <1>f, LiveGuard DEF GuardInv
    <2>2. pins[f] # 0
        BY <1>0, <1>1, <1>f, <2>1, NoPinsNoGuard DEF GuardInv
    <2> QED
        BY <2>1, <2>2 DEF Caches, Mapped
<1>3. Seen(f) /\ SeenTwice(f) /\ f \notin evictor.evictable
    BY <1>2 DEF EvictInv, FrameKnown
<1>4. /\ evictor'.accesses = evictor.accesses
      /\ pins[f] = 1 => evictor'.evictable = evictor.evictable \cup {f}
      /\ pins[f] # 1 => evictor'.evictable = evictor.evictable
    BY <1>0, <1>1, <1>2, <1>3, EvictableFacts DEF Seen
<1>5. pins'[f] = pins[f] - 1 /\ \A g \in Frames : g # f => pins'[g] = pins[g]
    <2>1. /\ pins \in [Frames -> 0 .. PinModulus - 1] /\ PinModulus \in Nat
          /\ pins[f] \in 1 .. PinModulus - 1
        BY <1>0, <1>2, PinAssumption DEF BaseInv, TypeOK
    <2>2. (pins[f] + PinModulus - 1) % PinModulus = pins[f] - 1
        BY <2>1
    <2> QED
        BY <1>1, <1>2, <2>1, <2>2
<1>6. pins[f] \in Nat
    BY <1>0, <1>2 DEF BaseInv, TypeOK
<1>7. pins'[f] = 0 <=> pins[f] = 1
    BY <1>5, <1>6
<1>8. \A g \in Frames : Caches(g)' <=> Caches(g)
    BY <1>1 DEF Caches
<1>9. FrameKnown(f)'
    BY <1>2, <1>3, <1>4, <1>7, <1>8 DEF FrameKnown, Seen, SeenTwice
<1>10. \A g \in Frames : g # f => LeftAlone(g)
    BY <1>4, <1>5, <1>8 DEF LeftAlone, Seen, SeenTwice
<1> QED
    BY <1>9, <1>10, KnownStep

LEMMA NextKnown ==
    ASSUME NumPages <= NumFrames, K > 1, EvictInv, [Next]_vars
    PROVE  EvictInv'
<1>0. GuardInv /\ FitInv /\ BaseInv
    BY DEF EvictInv, GuardInv, FitInv
<1>1. GuardInv'
    BY <1>0, NextGuard
<1>2. ASSUME UNCHANGED vars PROVE \A g \in Frames : FrameKnown(g)'
    BY <1>2, QuietKnown DEF vars, poolVars, frameVars
<1>3. ASSUME NEW t \in Threads, new_page(t) PROVE \A g \in Frames : FrameKnown(g)'
    <2>1. num_pages \in Pages /\ num_pages \notin Mapped
        BY <1>0, <1>3, SizesAssumption
           DEF new_page, BaseInv, TypeOK, Pages, CachedExist, Allocated
    <2>2. CASE insert_frame(num_pages, Zero, 0) /\ evictor' = Inserted(Head(FreeList))
        BY <2>1, <2>2, FillKnown
    <2>3. CASE UNCHANGED <<poolVars, frameVars>>
        BY <2>3, QuietKnown DEF poolVars, frameVars
    <2> QED
        BY <1>3, <2>2, <2>3 DEF new_page
<1>4. ASSUME NEW t \in Threads, NEW p \in Pages, NEW m \in {"read", "write"}, Locks(t),
             Hit(t, p, m) \/ Miss(t, p, m) \/ MissThrows(t, p)
      PROVE  \A g \in Frames : FrameKnown(g)'
    <2>1. CASE Hit(t, p, m)
        BY <1>1, <1>4, <2>1, HitKnown
    <2>2. CASE Miss(t, p, m)
        BY <2>2, FillKnown DEF Miss
    <2>3. CASE MissThrows(t, p)
        <3>1. Evictor = evictor
            BY <1>0, <2>3, MissFindsFreeFrame DEF MissThrows
        <3> QED
            BY <2>3, <3>1, QuietKnown DEF MissThrows, frameVars
    <2> QED
        BY <1>4, <2>1, <2>2, <2>3
<1>5. ASSUME NEW t \in Threads, NEW p \in Pages, evict_page(t, p) PROVE \A g \in Frames : FrameKnown(g)'
    BY <1>5, EvictPageKnown
<1>6. ASSUME NEW t \in Threads,
             \/ \E p \in Pages : flush_page(t, p)
             \/ flush_all_pages(t)
             \/ get_data_mut(t)
             \/ \E v \in Values : write_data(t, v)
             \/ WriteGuardFlush(t)
             \/ ReadGuardFlush(t)
      PROVE  \A g \in Frames : FrameKnown(g)'
    <2>1. UNCHANGED <<frame_table, pins, evictor>>
        BY <1>6 DEF flush_page, flush_all_pages, StartFlush, get_data_mut, write_data,
                    WriteGuardFlush, WriteBack, ReadGuardFlush, poolVars, frameVars
    <2> QED
        BY <2>1, QuietKnown
<1>7. ASSUME NEW t \in Threads, Continue(t) PROVE \A g \in Frames : FrameKnown(g)'
    <2>1. CASE drop(t)
        BY <2>1, DropKnown
    <2>2. CASE ~drop(t)
        <3>1. UNCHANGED <<frame_table, pins, evictor>>
            BY <1>7, <2>2 DEF Continue, Latched, FlushOne, Upgraded, WriteBack,
                              Downgraded, Unlatch, poolVars, frameVars
        <3> QED
            BY <3>1, QuietKnown
    <2> QED
        BY <2>1, <2>2
<1>8. ASSUME NEW t \in Threads, Call(t) PROVE \A g \in Frames : FrameKnown(g)'
    BY <1>8, <1>3, <1>4, <1>5, <1>6 DEF Call, read_page, write_page
<1>9. \A g \in Frames : FrameKnown(g)'
    BY <1>2, <1>7, <1>8 DEF Next
<1> QED
    BY <1>1, <1>9 DEF EvictInv

\* The evictor may choose exactly the cached frames that no guard pins and
\* that had a guard before, as long as the table fits in the pool: a frame is
\* made evictable by the last drop() and by nothing else, and a guard always
\* takes that back (bufferpool.cpp 41-42, 84-85; pageguard.cpp 90-91).  The
\* pool keeps EVICTOR_K = 2 accesses (bufferpool.h 16); with one only, no
\* frame would have had a second.
THEOREM EvictableAlwaysExact ==
    ASSUME NumPages <= NumFrames, K > 1
    PROVE  Spec => []EvictableExact
<1>1. Init => EvictInv
    <2> SUFFICES ASSUME Init, NEW f \in Frames PROVE FrameKnown(f)
        BY InitGuard DEF EvictInv
    <2>1. ~Seen(f) /\ ~SeenTwice(f) /\ f \notin evictor.evictable
        BY DEF Init, Untouched, Seen, SeenTwice, Occurs, Twice
    <2>2. ~Caches(f) /\ pins[f] = 0
        BY NullAssumption DEF Init, Caches
    <2> QED
        BY <2>1, <2>2 DEF FrameKnown
<1>2. EvictInv /\ [Next]_vars => EvictInv'
    BY NextKnown
<1>3. EvictInv => EvictableExact
    <2> SUFFICES ASSUME EvictInv, NEW f \in Frames
                 PROVE  f \in evictor.evictable <=>
                            /\ \E p \in Pages : frame_table[p] = f
                            /\ pins[f] = 0 /\ Accesses(evictor, f) > 1
        BY DEF EvictableExact
    <2>1. evictor.accesses \in Seq(Frames)
        BY DEF EvictInv, GuardInv, FitInv, BaseInv, EvictorOK
    <2>2. Accesses(evictor, f) > 1 <=> SeenTwice(f)
        BY <2>1, AccessesCount DEF SeenTwice
    <2> QED
        BY <2>2 DEF EvictInv, FrameKnown, Caches
<1> QED
    BY <1>1, <1>2, <1>3, PTL DEF Spec
=============================================================================
