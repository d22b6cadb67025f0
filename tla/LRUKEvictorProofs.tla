-------------------------- MODULE LRUKEvictorProofs --------------------------
(***************************************************************************)
(* For every set of frames, every K and every number of calls: the indexes *)
(* of the evictor are exact, evict() follows LRU-K, and the evictor        *)
(* implements the LRU-K policy call by call.                               *)
(***************************************************************************)
EXTENDS LRUKRefinement, OrderProofs

\* The inductive invariant: each part needs the others.
Inv == TypeOK /\ IndexesExact /\ SizeExact /\ HistoryOK

\* begin() of a nonempty index is an entry of it, and no entry is older.
LEMMA LeastIsOldest ==
    ASSUME NEW S, S \subseteq Nat \X Frames, S # {}
    PROVE  /\ Least(S) \in S
           /\ \A b \in S : Least(S)[1] <= b[1]
<1> DEFINE Times == {a[1] : a \in S}
<1>1. Times \in SUBSET Nat /\ Times # {}
    OBVIOUS
<1> HIDE DEF Times
<1>2. PICK m \in Times : \A y \in Times : m <= y
    BY <1>1, LeastNat
<1> DEFINE Ids == {a[2] : a \in {c \in S : c[1] = m}}
<1>3. Ids \in SUBSET Nat /\ Ids # {}
    BY <1>2, FramesAssumption DEF Times
<1> HIDE DEF Ids
<1>4. PICK i \in Ids : \A y \in Ids : i <= y
    BY <1>3, LeastNat
<1>5. PICK a \in S : a[1] = m /\ a[2] = i
    BY <1>4 DEF Ids
<1>6. \A b \in S : a[1] < b[1] \/ (a[1] = b[1] /\ a[2] <= b[2])
    <2> TAKE b \in S
    <2>1. b[1] \in Nat /\ b[2] \in Nat /\ m \in Nat
        BY <1>1, <1>2, FramesAssumption
    <2>2. m <= b[1]
        BY <1>2 DEF Times
    <2>3. b[1] = m => i <= b[2]
        BY <1>4 DEF Ids
    <2> QED
        BY <2>1, <2>2, <2>3, <1>5
<1>7. /\ Least(S) \in S
      /\ \A b \in S : Least(S)[1] < b[1] \/ (Least(S)[1] = b[1] /\ Least(S)[2] <= b[2])
    BY <1>5, <1>6, Zenon DEF Least
<1> QED
    BY <1>7
-----------------------------------------------------------------------------
LEMMA InitInv == Init => Inv
<1> SUFFICES ASSUME Init PROVE Inv
    OBVIOUS
<1>1. TypeOK /\ HistoryOK /\ IndexesExact
    BY KAssumption DEF Init, TypeOK, HistoryOK, IndexesExact, KeyOf
<1>2. SizeExact
    BY FS_EmptySet DEF Init, SizeExact
<1> QED
    BY <1>1, <1>2 DEF Inv

\* The keys of evictable frames are pairs of a past timestamp and the frame.
LEMMA KeyFacts ==
    ASSUME Inv, NEW f \in node_store
    PROVE  /\ f \in Frames
           /\ Len(history[f]) \in Nat /\ Len(history[f]) > 0
           /\ history[f] \in Seq(Nat)
           /\ 1 \in DOMAIN history[f]
           /\ history[f][1] \in Nat
           /\ KeyOf(f) = <<history[f][1], f>>
BY DEF Inv, TypeOK, HistoryOK, KeyOf

LEMMA EvictableFinite ==
    ASSUME TypeOK
    PROVE  IsFiniteSet(is_evictable)
BY FS_Subset, FramesAssumption DEF TypeOK

(***************************************************************************)
(* A node is erased with its bit and its key: what evict() and remove() do *)
(* to an evictable frame.                                                  *)
(***************************************************************************)
LEMMA EraseEvictable ==
    ASSUME Inv, NEW v \in is_evictable, EraseNode(v),
           less_than_k_set' = less_than_k_set \ {KeyOf(v)},
           k_set' = k_set \ {KeyOf(v)},
           evictable_size' = evictable_size - 1,
           UNCHANGED current_timestamp,
           victim' \in Frames \cup {NoFrame}
    PROVE  Inv'
<1>1. v \in node_store /\ v \in Frames
    BY DEF Inv, TypeOK
<1>2. SizeExact' /\ evictable_size' \in Nat
    <2>1. IsFiniteSet(is_evictable)
        BY EvictableFinite DEF Inv
    <2>2. /\ Cardinality(is_evictable \ {v}) = Cardinality(is_evictable) - 1
          /\ IsFiniteSet(is_evictable \ {v})
        BY <2>1, FS_RemoveElement
    <2> QED
        BY <2>2, FS_CardinalityType DEF EraseNode, Inv, SizeExact
<1>3. TypeOK'
    BY <1>1, <1>2 DEF Inv, TypeOK, EraseNode
<1>4. HistoryOK'
    BY <1>1, KAssumption DEF Inv, TypeOK, HistoryOK, EraseNode
<1>5. IndexesExact'
    <2>1. \A g \in is_evictable' : g # v /\ g \in is_evictable /\ history'[g] = history[g]
        BY <1>1 DEF EraseNode, Inv, TypeOK
    <2>2. \A g \in is_evictable' : KeyOf(g)' = KeyOf(g) /\ KeyOf(g) # KeyOf(v)
        BY <2>1 DEF KeyOf
    <2>3. \A g \in is_evictable : g # v => g \in is_evictable'
        BY DEF EraseNode
    <2> QED
        BY <2>1, <2>2, <2>3 DEF Inv, IndexesExact
<1> QED
    BY <1>2, <1>3, <1>4, <1>5 DEF Inv

\* begin() of each index is the key of an evictable frame of that index.
LEMMA ColdVictim ==
    ASSUME Inv, less_than_k_set # {}
    PROVE  LET it == Least(less_than_k_set)
           IN  /\ it \in less_than_k_set
               /\ it[2] \in is_evictable
               /\ it = KeyOf(it[2])
               /\ Len(history[it[2]]) < K
               /\ \A g \in is_evictable : Len(history[g]) < K => it[1] <= history[g][1]
<1> DEFINE it == Least(less_than_k_set)
<1>1. it \in less_than_k_set /\ \A b \in less_than_k_set : it[1] <= b[1]
    BY LeastIsOldest DEF Inv, TypeOK
<1>2. PICK f \in is_evictable : it = KeyOf(f) /\ Len(history[f]) < K
    BY <1>1 DEF Inv, IndexesExact
<1>3. it[2] = f
    BY <1>2 DEF KeyOf
<1>4. \A g \in is_evictable : Len(history[g]) < K => it[1] <= history[g][1]
    <2> TAKE g \in is_evictable
    <2> HAVE Len(history[g]) < K
    <2>1. KeyOf(g) \in less_than_k_set
        BY DEF Inv, IndexesExact
    <2> QED
        BY <1>1, <2>1 DEF KeyOf
<1> QED
    BY <1>1, <1>2, <1>3, <1>4

LEMMA HotVictim ==
    ASSUME Inv, evictable_size # 0, less_than_k_set = {}
    PROVE  LET it == Least(k_set)
           IN  /\ it \in k_set
               /\ it[2] \in is_evictable
               /\ it = KeyOf(it[2])
               /\ \A g \in is_evictable : /\ Len(history[g]) >= K
                                          /\ it[1] <= history[g][1]
<1> DEFINE it == Least(k_set)
<1>1. \A g \in is_evictable : Len(history[g]) >= K
    <2> SUFFICES ASSUME NEW g \in is_evictable, ~(Len(history[g]) >= K) PROVE FALSE
        OBVIOUS
    <2>1. Len(history[g]) < K
        BY KeyFacts, KAssumption DEF Inv, TypeOK
    <2> QED
        BY <2>1 DEF Inv, IndexesExact
<1>2. is_evictable # {}
    BY FS_EmptySet DEF Inv, SizeExact
<1>3. k_set # {}
    BY <1>1, <1>2 DEF Inv, IndexesExact
<1>4. it \in k_set /\ \A b \in k_set : it[1] <= b[1]
    BY <1>3, LeastIsOldest DEF Inv, TypeOK
<1>5. PICK f \in is_evictable : it = KeyOf(f)
    BY <1>4 DEF Inv, IndexesExact
<1>6. it[2] = f
    BY <1>5 DEF KeyOf
<1>7. \A g \in is_evictable : it[1] <= history[g][1]
    <2> TAKE g \in is_evictable
    <2>1. KeyOf(g) \in k_set
        BY <1>1 DEF Inv, IndexesExact
    <2> QED
        BY <1>4, <2>1 DEF KeyOf
<1> QED
    BY <1>1, <1>4, <1>5, <1>6, <1>7

LEMMA EvictInv == ASSUME Inv, evict PROVE Inv'
<1>1. CASE EvictNothing
    BY <1>1, ZenonT(60) DEF EvictNothing, indexes, Inv, TypeOK, IndexesExact, SizeExact,
                HistoryOK, KeyOf
<1>2. CASE EvictCold
    <2> DEFINE it == Least(less_than_k_set)
    <2>1. /\ it[2] \in is_evictable /\ it = KeyOf(it[2]) /\ Len(history[it[2]]) < K
          /\ victim' = it[2] /\ EraseNode(it[2])
          /\ less_than_k_set' = less_than_k_set \ {it}
          /\ UNCHANGED <<k_set, current_timestamp>>
          /\ evictable_size' = evictable_size - 1
        BY <1>2, ColdVictim DEF EvictCold
    <2> HIDE DEF it
    <2>2. it \notin k_set
        BY <2>1, KAssumption, KeyFacts DEF Inv, TypeOK, IndexesExact, KeyOf
    <2>3. victim' \in Frames
        BY <2>1 DEF Inv, TypeOK
    <2>4. k_set' = k_set \ {it}
        BY <2>1, <2>2
    <2> QED
        BY <2>1, <2>3, <2>4, EraseEvictable
<1>3. CASE EvictHot
    <2> DEFINE it == Least(k_set)
    <2>1. /\ it[2] \in is_evictable /\ it = KeyOf(it[2])
          /\ victim' = it[2] /\ EraseNode(it[2])
          /\ k_set' = k_set \ {it}
          /\ less_than_k_set = {} /\ UNCHANGED <<less_than_k_set, current_timestamp>>
          /\ evictable_size' = evictable_size - 1
        BY <1>3, HotVictim DEF EvictHot
    <2> HIDE DEF it
    <2>2. victim' \in Frames
        BY <2>1 DEF Inv, TypeOK
    <2>3. less_than_k_set' = less_than_k_set \ {it}
        BY <2>1
    <2> QED
        BY <2>1, <2>2, <2>3, EraseEvictable
<1> QED
    BY <1>1, <1>2, <1>3 DEF evict

LEMMA RemoveInv == ASSUME Inv, NEW f \in Frames, remove(f) PROVE Inv'
<1>1. CASE f \in is_evictable
    <2>1. /\ EraseNode(f) /\ UNCHANGED <<current_timestamp, victim>>
          /\ evictable_size' = evictable_size - 1
        BY <1>1 DEF remove, Unindex
    <2>2. less_than_k_set' = less_than_k_set \ {KeyOf(f)} /\ k_set' = k_set \ {KeyOf(f)}
        <3>1. CASE Len(history[f]) < K
            <4>1. KeyOf(f) \notin k_set
                BY <1>1, <3>1, KAssumption, KeyFacts DEF Inv, TypeOK, IndexesExact, KeyOf
            <4> QED
                BY <1>1, <3>1, <4>1 DEF remove, Unindex
        <3>2. CASE ~(Len(history[f]) < K)
            <4>1. KeyOf(f) \notin less_than_k_set
                BY <1>1, <3>2, KAssumption, KeyFacts DEF Inv, TypeOK, IndexesExact, KeyOf
            <4> QED
                BY <1>1, <3>2, <4>1 DEF remove, Unindex
        <3> QED
            BY <3>1, <3>2
    <2>3. victim' \in Frames \cup {NoFrame}
        BY <2>1 DEF Inv, TypeOK
    <2> QED
        BY <1>1, <2>1, <2>2, <2>3, EraseEvictable
<1>2. CASE f \notin is_evictable
    <2>1. EraseNode(f) /\ UNCHANGED <<current_timestamp, victim, indexes>>
        BY <1>2 DEF remove
    <2>2. is_evictable' = is_evictable /\ \A g \in is_evictable : history'[g] = history[g]
        BY <1>2, <2>1 DEF EraseNode, Inv, TypeOK
    <2>3. IndexesExact' /\ SizeExact'
        <3>1. \A g \in is_evictable : KeyOf(g)' = KeyOf(g)
            BY <2>2 DEF KeyOf
        <3> QED
            BY <2>1, <2>2, <3>1 DEF Inv, IndexesExact, SizeExact, indexes
    <2>4. TypeOK' /\ HistoryOK'
        BY <1>2, <2>1, KAssumption DEF EraseNode, indexes, Inv, TypeOK, HistoryOK
    <2> QED
        BY <2>3, <2>4 DEF Inv
<1> QED
    BY <1>1, <1>2

LEMMA SetEvictableInv == ASSUME Inv, NEW f \in Frames, set_evictable(f) PROVE Inv'
<1>1. /\ f \in node_store /\ f \notin is_evictable
      /\ is_evictable' = is_evictable \cup {f}
      /\ UNCHANGED <<node_store, history, current_timestamp, victim>>
      /\ evictable_size' = evictable_size + 1
    BY DEF set_evictable
<1>2. KeyOf(f) \in Nat \X Frames
    BY <1>1, KeyFacts
<1>3. \A g : KeyOf(g)' = KeyOf(g)
    BY <1>1 DEF KeyOf
<1>4. TypeOK' /\ HistoryOK'
    BY <1>1, <1>2 DEF set_evictable, Inv, TypeOK, HistoryOK
<1>5. SizeExact'
    BY <1>1, EvictableFinite, FS_AddElement DEF Inv, SizeExact
<1>6. IndexesExact'
    <2>1. Len(history[f]) < K \/ Len(history[f]) >= K
        BY <1>1, KeyFacts, KAssumption
    <2>2. Len(history[f]) < K => ~(Len(history[f]) >= K)
        BY <1>1, KeyFacts, KAssumption
    <2> QED
        BY <1>1, <1>3, <2>1, <2>2 DEF set_evictable, Inv, IndexesExact
<1> QED
    BY <1>4, <1>5, <1>6 DEF Inv

LEMMA SetNotEvictableInv ==
    ASSUME Inv, NEW f \in Frames, set_not_evictable(f) PROVE Inv'
<1>1. /\ f \in node_store /\ f \in is_evictable
      /\ is_evictable' = is_evictable \ {f}
      /\ UNCHANGED <<node_store, history, current_timestamp, victim>>
      /\ evictable_size' = evictable_size - 1
    BY DEF set_not_evictable, Unindex
<1>2. \A g : KeyOf(g)' = KeyOf(g)
    BY <1>1 DEF KeyOf
<1>3. SizeExact' /\ evictable_size' \in Nat
    <2>1. IsFiniteSet(is_evictable)
        BY EvictableFinite DEF Inv
    <2>2. /\ Cardinality(is_evictable \ {f}) = Cardinality(is_evictable) - 1
          /\ IsFiniteSet(is_evictable \ {f})
        BY <1>1, <2>1, FS_RemoveElement
    <2> QED
        BY <1>1, <2>2, FS_CardinalityType DEF Inv, SizeExact
<1>4. TypeOK' /\ HistoryOK'
    BY <1>1, <1>3 DEF set_not_evictable, Unindex, Inv, TypeOK, HistoryOK
<1>5. IndexesExact'
    <2>1. \A g, h : KeyOf(g) = KeyOf(h) => g = h
        BY DEF KeyOf
    <2>2. Len(history[f]) < K <=> ~(Len(history[f]) >= K)
        BY <1>1, KeyFacts, KAssumption
    <2> QED
        BY <1>1, <1>2, <2>1, <2>2 DEF set_not_evictable, Unindex, Inv, IndexesExact
<1> QED
    BY <1>3, <1>4, <1>5 DEF Inv

LEMMA RecordAccessInv == ASSUME Inv, NEW f \in Frames, record_access(f) PROVE Inv'
<1> DEFINE h == history[f]
<1> DEFINE n == Remember(h, current_timestamp)
<1>1. /\ h \in Seq(Nat) /\ Len(h) \in Nat /\ Len(h) <= K
      /\ current_timestamp \in Nat
      /\ K \in Nat /\ K > 0
    BY KAssumption DEF Inv, TypeOK, HistoryOK
<1>2. /\ history' = [history EXCEPT ![f] = n]
      /\ history'[f] = n
      /\ \A g \in Frames : g # f => history'[g] = history[g]
      /\ current_timestamp' = current_timestamp + 1
      /\ node_store' = node_store \cup {f}
      /\ UNCHANGED <<is_evictable, evictable_size, victim>>
    BY DEF record_access, Inv, TypeOK
<1>3. PICK d \in {0, 1} :
          /\ n \in Seq(Nat)
          /\ Len(n) = Len(h) + 1 - d /\ Len(n) > 0 /\ Len(n) <= K
          /\ \A i \in 1 .. Len(n) - 1 : i + d \in 1 .. Len(h) /\ n[i] = h[i + d]
          /\ n[Len(n)] = current_timestamp
          /\ d = 0 <=> Len(h) < K
    <2>1. CASE Len(h) < K
        <3>1. /\ n \in Seq(Nat) /\ Len(n) = Len(h) + 1
              /\ \A i \in 1 .. Len(h) : n[i] = h[i]
              /\ n[Len(h) + 1] = current_timestamp
            BY <1>1, <2>1 DEF Remember
        <3> HIDE DEF n, h
        <3> WITNESS 0 \in {0, 1}
        <3> QED
            BY <1>1, <2>1, <3>1
    <2>2. CASE ~(Len(h) < K)
        <3>1. /\ Tail(h) \in Seq(Nat) /\ Len(Tail(h)) = Len(h) - 1
              /\ \A i \in 1 .. Len(h) - 1 : Tail(h)[i] = h[i + 1]
            BY <1>1, <2>2
        <3>2. n = Append(Tail(h), current_timestamp)
            BY <2>2 DEF Remember
        <3>3. /\ n \in Seq(Nat) /\ Len(n) = Len(h)
              /\ \A i \in 1 .. Len(h) - 1 : n[i] = h[i + 1]
              /\ n[Len(h)] = current_timestamp
            BY <1>1, <2>2, <3>1, <3>2
        <3> HIDE DEF n, h
        <3> WITNESS 1 \in {0, 1}
        <3> QED
            BY <1>1, <2>2, <3>3
    <2> QED
        BY <2>1, <2>2
<1> HIDE DEF n
<1>4. HistoryOK'
    <2>1. /\ \A i \in 1 .. Len(h) : h[i] < current_timestamp /\ h[i] \in Nat
          /\ \A i, j \in 1 .. Len(h) : i < j => h[i] < h[j]
          /\ DOMAIN h = 1 .. Len(h) /\ DOMAIN n = 1 .. Len(n)
        <3>1. DOMAIN h = 1 .. Len(h) /\ DOMAIN n = 1 .. Len(n)
            BY <1>1, <1>3, SMTT(60)
        <3>2. \A i \in DOMAIN h : h[i] \in Nat
            BY <1>1
        <3>3. /\ \A i \in DOMAIN h : h[i] < current_timestamp
              /\ \A i, j \in DOMAIN h : i < j => h[i] < h[j]
            BY DEF Inv, HistoryOK
        <3> QED
            BY <3>1, <3>2, <3>3
    <2> HIDE DEF h
    <2>2. \A i \in DOMAIN n : n[i] < current_timestamp' /\ n[i] \in Nat
        <3> TAKE i \in DOMAIN n
        <3>1. i = Len(n) \/ i \in 1 .. Len(n) - 1
            BY <1>3, <1>1, <2>1, SMTT(60)
        <3>2. CASE i = Len(n)
            BY <3>2, <1>1, <1>2, <1>3
        <3>3. CASE i \in 1 .. Len(n) - 1
            <4>1. n[i] = h[i + d] /\ i + d \in 1 .. Len(h)
                BY <3>3, <1>3
            <4>2. n[i] < current_timestamp /\ n[i] \in Nat
                BY <4>1, <2>1
            <4> QED
                BY <4>2, <1>1, <1>2
        <3> QED
            BY <3>1, <3>2, <3>3
    <2>3. \A i, j \in DOMAIN n : i < j => n[i] < n[j]
        <3> SUFFICES ASSUME NEW i \in DOMAIN n, NEW j \in DOMAIN n, i < j
                     PROVE  n[i] < n[j]
            OBVIOUS
        <3>0. /\ Len(n) \in Nat /\ i \in 1 .. Len(n) /\ j \in 1 .. Len(n)
              /\ i \in 1 .. Len(n) - 1
              /\ j # Len(n) => j \in 1 .. Len(n) - 1
            <4>1. Len(n) \in Nat
                BY <1>3
            <4>2. i \in 1 .. Len(n) /\ j \in 1 .. Len(n)
                BY <2>1
            <4> QED
                BY <4>1, <4>2
        <3>1. n[i] = h[i + d] /\ i + d \in 1 .. Len(h)
            BY <1>3, <3>0
        <3>2. CASE j = Len(n)
            BY <3>1, <3>2, <1>1, <1>3, <2>1
        <3>3. CASE j # Len(n)
            <4>1. n[j] = h[j + d] /\ j + d \in 1 .. Len(h)
                BY <3>0, <3>3, <1>3
            <4>2. i + d < j + d
                BY <3>0
            <4> QED
                BY <3>1, <4>1, <4>2, <2>1
        <3> QED
            BY <3>2, <3>3
    <2> USE DEF h
    <2>4. \A i \in DOMAIN n, g \in Frames : \A j \in DOMAIN history[g] :
              n[i] = history[g][j] => g = f
        <3> TAKE i \in DOMAIN n, g \in Frames
        <3> TAKE j \in DOMAIN history[g]
        <3> HAVE n[i] = history[g][j]
        <3>1. history[g][j] < current_timestamp /\ history[g][j] \in Nat
            BY DEF Inv, TypeOK, HistoryOK
        <3>2. n[i] # current_timestamp
            BY <3>1, <1>1
        <3>3. i \in 1 .. Len(n) - 1
            BY <3>2, <2>1, <1>3, <1>1, SMTT(60)
        <3>4. i + d \in DOMAIN h /\ h[i + d] = history[g][j]
            BY <3>3, <1>3, <2>1
        <3> QED
            BY <3>4 DEF Inv, HistoryOK
    <2>5. \A g \in Frames :
              /\ Len(history'[g]) <= K
              /\ g \in node_store' <=> Len(history'[g]) > 0
              /\ \A i \in DOMAIN history'[g] : history'[g][i] < current_timestamp'
              /\ \A i, j \in DOMAIN history'[g] : i < j => history'[g][i] < history'[g][j]
        <3> TAKE g \in Frames
        <3>1. CASE g = f
            BY <3>1, <1>2, <1>3, <2>2, <2>3
        <3>2. CASE g # f
            <4>1. history'[g] = history[g] /\ (g \in node_store' <=> g \in node_store)
                BY <3>2, <1>2
            <4>2. \A i \in DOMAIN history[g] : history[g][i] < current_timestamp + 1
                BY <1>1 DEF Inv, TypeOK, HistoryOK
            <4> QED
                BY <4>1, <4>2, <1>2 DEF Inv, HistoryOK
        <3> QED
            BY <3>1, <3>2
    <2>6. \A g, k \in Frames : \A i \in DOMAIN history'[g], j \in DOMAIN history'[k] :
              history'[g][i] = history'[k][j] => g = k
        <3> TAKE g, k \in Frames
        <3> TAKE i \in DOMAIN history'[g], j \in DOMAIN history'[k]
        <3>1. CASE g = f /\ k # f
            BY <3>1, <1>2, <2>4
        <3>2. CASE g # f /\ k = f
            BY <3>2, <1>2, <2>4
        <3>3. CASE g # f /\ k # f
            BY <3>3, <1>2 DEF Inv, HistoryOK
        <3> QED
            BY <3>1, <3>2, <3>3
    <2> QED
        BY <2>5, <2>6 DEF HistoryOK
<1>5. f \in is_evictable => f \in node_store /\ Len(h) > 0 /\ 1 \in DOMAIN h
    BY <1>1 DEF Inv, TypeOK, HistoryOK
<1>6. KeyOf(f)' = <<n[1], f>> /\ n[1] \in Nat /\ KeyOf(f) = <<h[1], f>>
    BY <1>2, <1>3, SMTT(60) DEF KeyOf
<1>7. \A g \in Frames : g # f => KeyOf(g)' = KeyOf(g)
    BY <1>2 DEF KeyOf
<1>8. TypeOK'
    <2>1. /\ less_than_k_set \subseteq Nat \X Frames
          /\ k_set \subseteq Nat \X Frames
          /\ KeyOf(f)' \in Nat \X Frames
        BY <1>6 DEF Inv, TypeOK
    <2>2. /\ less_than_k_set' \subseteq less_than_k_set
          /\ k_set' \subseteq k_set \cup {KeyOf(f)'}
        BY DEF record_access
    <2>3. /\ less_than_k_set' \subseteq Nat \X Frames
          /\ k_set' \subseteq Nat \X Frames
        BY <2>1, <2>2
    <2>4. history' \in [Frames -> Seq(Nat)]
        BY <1>2, <1>3 DEF Inv, TypeOK
    <2>5. node_store' \subseteq Frames /\ is_evictable' \subseteq node_store'
        BY <1>2 DEF record_access, Inv, TypeOK
    <2>6. /\ current_timestamp' \in Nat
          /\ evictable_size' \in Nat
          /\ victim' \in Frames \cup {NoFrame}
        BY <1>1, <1>2 DEF record_access, Inv, TypeOK
    <2> QED
        BY <2>3, <2>4, <2>5, <2>6 DEF TypeOK
<1>9. SizeExact'
    BY <1>2 DEF Inv, SizeExact
<1>10. IndexesExact'
    <2>1. \A g, k : KeyOf(g) = KeyOf(k) => g = k
        BY DEF KeyOf
    <2>2. \A g \in is_evictable : g \in Frames
        BY DEF Inv, TypeOK
    <2>3. CASE f \notin is_evictable
        <3>1. UNCHANGED <<less_than_k_set, k_set>>
            BY <2>3 DEF record_access
        <3>2. \A g \in is_evictable : history'[g] = history[g] /\ KeyOf(g)' = KeyOf(g)
            BY <2>2, <2>3, <1>2, <1>7
        <3> QED
            BY <3>1, <3>2, <1>2 DEF Inv, IndexesExact
    <2>4. CASE f \in is_evictable /\ Len(n) # K
        <3>1. UNCHANGED <<less_than_k_set, k_set>>
            BY <2>4, <1>2 DEF record_access
        <3>2. Len(h) < K /\ Len(n) < K /\ ~(Len(h) >= K) /\ ~(Len(n) >= K)
            BY <2>4, <1>1, <1>3, SMTT(60)
        <3>3. n[1] = h[1]
            BY <3>2, <1>1, <1>3, <1>5, <2>4
        <3>4. \A g \in is_evictable : KeyOf(g)' = KeyOf(g)
            BY <2>2, <1>6, <1>7, <3>3
        <3>5. \A g \in is_evictable : g # f => history'[g] = history[g]
            BY <2>2, <1>2
        <3> QED
            BY <3>1, <3>2, <3>4, <3>5, <1>2 DEF Inv, IndexesExact
    <2>5. CASE f \in is_evictable /\ Len(n) = K
        <3>1. \A g \in is_evictable : g # f => /\ history'[g] = history[g]
                                               /\ KeyOf(g)' = KeyOf(g)
                                               /\ KeyOf(g) # KeyOf(f)
            BY <2>2, <1>2, <1>7, <2>1
        <3>2. Len(history'[f]) >= K /\ ~(Len(history'[f]) < K)
            BY <2>5, <1>1, <1>2
        <3>3. CASE Len(h) < K
            <4>1. /\ less_than_k_set' = less_than_k_set \ {KeyOf(f)}
                  /\ k_set' = k_set \cup {KeyOf(f)'}
                BY <2>5, <3>3, <1>2 DEF record_access
            <4>2. ~(Len(history[f]) >= K)
                BY <3>3, <1>1
            <4> QED
                BY <2>5, <3>1, <3>2, <3>3, <4>1, <4>2, <1>2 DEF Inv, IndexesExact
        <3>4. CASE ~(Len(h) < K)
            <4>1. /\ k_set' = (k_set \ {KeyOf(f)}) \cup {KeyOf(f)'}
                  /\ UNCHANGED less_than_k_set
                BY <2>5, <3>4, <1>2 DEF record_access
            <4>2. Len(history[f]) >= K
                BY <3>4, <1>1
            <4> QED
                BY <2>5, <3>1, <3>2, <3>4, <4>1, <4>2, <1>2 DEF Inv, IndexesExact
        <3> QED
            BY <3>3, <3>4
    <2> QED
        BY <2>3, <2>4, <2>5
<1> QED
    BY <1>4, <1>8, <1>9, <1>10 DEF Inv

LEMMA NextInv == Inv /\ [Next]_vars => Inv'
<1> SUFFICES ASSUME Inv, [Next]_vars PROVE Inv'
    OBVIOUS
<1>1. CASE evict
    BY <1>1, EvictInv
<1>2. ASSUME NEW f \in Frames, record_access(f) PROVE Inv'
    BY <1>2, RecordAccessInv
<1>3. ASSUME NEW f \in Frames, set_evictable(f) PROVE Inv'
    BY <1>3, SetEvictableInv
<1>4. ASSUME NEW f \in Frames, set_not_evictable(f) PROVE Inv'
    BY <1>4, SetNotEvictableInv
<1>5. ASSUME NEW f \in Frames, remove(f) PROVE Inv'
    BY <1>5, RemoveInv
<1>6. CASE UNCHANGED vars
    BY <1>6 DEF vars, indexes, Inv, TypeOK, IndexesExact, SizeExact, HistoryOK, KeyOf
<1> QED
    BY <1>1, <1>2, <1>3, <1>4, <1>5, <1>6 DEF Next

LEMMA SpecInv == Spec => []Inv
<1> QED
    BY InitInv, NextInv, PTL DEF Spec

\* The fields keep their types; in particular evictable_size_ never wraps.
THEOREM TypeCorrect == Spec => []TypeOK
<1>1. Inv => TypeOK
    BY DEF Inv
<1> QED
    BY <1>1, SpecInv, PTL

\* less_than_k_set_ and k_set_ hold the current key of every evictable frame
\* and nothing else, after any sequence of calls (lruk.cpp 8-101).
THEOREM IndexesAlwaysExact == Spec => []IndexesExact
<1>1. Inv => IndexesExact
    BY DEF Inv
<1> QED
    BY <1>1, SpecInv, PTL

\* size() is the number of evictable frames after any sequence of calls.
THEOREM SizeAlwaysExact == Spec => []SizeExact
<1>1. Inv => SizeExact
    BY DEF Inv
<1> QED
    BY <1>1, SpecInv, PTL

\* evict() always takes a frame LRU-K would take (lruk.cpp 8-26).
THEOREM VictimIsLRUK == Spec => EvictsLRUK
<1> DEFINE Choice == evict => IF is_evictable = {}
                              THEN victim' = NoFrame
                              ELSE /\ victim' \in is_evictable
                                   /\ \A g \in is_evictable : ~BetterVictim(g, victim')
<1>1. Inv /\ [Next]_vars => [Choice]_vars
    <2> SUFFICES ASSUME Inv, evict PROVE Choice
        OBVIOUS
    <2>1. \A g \in is_evictable : /\ history[g] \in Seq(Nat)
                                  /\ Len(history[g]) \in Nat
                                  /\ history[g][1] \in Nat
        BY KeyFacts DEF Inv, TypeOK
    <2>2. CASE EvictNothing
        <3>1. is_evictable = {}
            BY <2>2, EvictableFinite, FS_EmptySet DEF EvictNothing, Inv, SizeExact
        <3> QED
            BY <2>2, <3>1 DEF EvictNothing
    <2>3. CASE EvictCold
        <3> DEFINE it == Least(less_than_k_set)
        <3>1. /\ it[2] \in is_evictable /\ it = KeyOf(it[2])
              /\ Len(history[it[2]]) < K
              /\ \A g \in is_evictable : Len(history[g]) < K => it[1] <= history[g][1]
              /\ victim' = it[2]
            BY <2>3, ColdVictim DEF EvictCold
        <3>2. it[1] = history[victim'][1]
            BY <3>1 DEF KeyOf
        <3> HIDE DEF it
        <3>3. \A g \in is_evictable : ~BetterVictim(g, victim')
            <4> TAKE g \in is_evictable
            <4> DEFINE v == victim'
            <4>1. /\ v \in is_evictable /\ Len(history[v]) < K
                  /\ Len(history[g]) < K => history[v][1] <= history[g][1]
                BY <3>1, <3>2
            <4> HIDE DEF v
            <4>2. /\ Len(history[v]) \in Nat /\ history[v][1] \in Nat
                  /\ history[g][1] \in Nat
                BY <2>1, <4>1
            <4>3. ~BetterVictim(g, v)
                BY <4>1, <4>2, KAssumption DEF BetterVictim
            <4> QED
                BY <4>3 DEF v
        <3> QED
            BY <3>1, <3>3
    <2>4. CASE EvictHot
        <3> DEFINE it == Least(k_set)
        <3>1. /\ it[2] \in is_evictable /\ it = KeyOf(it[2])
              /\ \A g \in is_evictable : Len(history[g]) >= K /\ it[1] <= history[g][1]
              /\ victim' = it[2]
            BY <2>4, HotVictim DEF EvictHot
        <3>2. it[1] = history[victim'][1]
            BY <3>1 DEF KeyOf
        <3> HIDE DEF it
        <3>3. \A g \in is_evictable : ~BetterVictim(g, victim')
            <4> TAKE g \in is_evictable
            <4> DEFINE v == victim'
            <4>1. /\ v \in is_evictable
                  /\ Len(history[g]) >= K /\ history[v][1] <= history[g][1]
                BY <3>1, <3>2
            <4> HIDE DEF v
            <4>2. /\ Len(history[g]) \in Nat /\ history[v][1] \in Nat
                  /\ history[g][1] \in Nat
                BY <2>1, <4>1
            <4>3. ~BetterVictim(g, v)
                BY <4>1, <4>2, KAssumption DEF BetterVictim
            <4> QED
                BY <4>3 DEF v
        <3> QED
            BY <3>1, <3>3
    <2> QED
        BY <2>2, <2>3, <2>4 DEF evict
<1> QED
    BY <1>1, SpecInv, PTL DEF Spec, EvictsLRUK
-----------------------------------------------------------------------------
(***************************************************************************)
(* The refinement.  The order of the stamps is not computed: a sequence of *)
(* stamps that is increasing and leaves none out is the order (NthUnique   *)
(* of OrderProofs), so each call only has to show such a sequence for its  *)
(* new state.                                                              *)
(***************************************************************************)

\* The policy's operators are those of Order and SequencesExt.
LEMMA SameOperators ==
    /\ \A s, x : Policy!Without(s, x) = Without(s, x)
    /\ \A s, x : Policy!RemoveFirst(s, x) = RemoveFirst(s, x)
    /\ \A s : Policy!ToSet(s) = ToSet(s)
    /\ \A S : Policy!Cardinality(S) = Cardinality(S)
<1>0. ASSUME NEW S PROVE Policy!Cardinality(S) = Cardinality(S)
    BY DEF Policy!Cardinality, Cardinality
<1>1. ASSUME NEW s, NEW x PROVE Policy!Without(s, x) = Without(s, x)
    <2>1. \A S, i : Policy!Rank(S, i) = Rank(S, i)
        BY <1>0 DEF Policy!Rank, Rank
    <2>2. \A S, n : Policy!Nth(S, n) = Nth(S, n)
        BY <2>1 DEF Policy!Nth, Nth
    <2> QED
        BY <1>0, <2>2 DEF Policy!Without, Without
<1>2. ASSUME NEW s, NEW x PROVE Policy!RemoveFirst(s, x) = RemoveFirst(s, x)
    BY DEF Policy!RemoveFirst, Policy!RemoveAt, Policy!SelectInSeq, Policy!Min,
           RemoveFirst, RemoveAt, SelectInSeq, Min
<1>3. ASSUME NEW s PROVE Policy!ToSet(s) = ToSet(s)
    BY DEF Policy!ToSet, ToSet
<1> QED
    BY <1>0, <1>1, <1>2, <1>3
-----------------------------------------------------------------------------
\* What HistoryOK says of the stamps of the histories h, all below ts.
Stamped(h, ts) ==
    /\ ts \in Nat
    /\ h \in [Frames -> Seq(Nat)]
    /\ \A f \in Frames : \A i \in DOMAIN h[f] : h[f][i] < ts
    /\ \A f \in Frames : \A i, j \in DOMAIN h[f] : i < j => h[f][i] < h[f][j]
    /\ \A f, g \in Frames : \A i \in DOMAIN h[f], j \in DOMAIN h[g] :
           h[f][i] = h[g][j] => f = g

LEMMA InvStamped == Inv => Stamped(history, current_timestamp)
BY DEF Inv, TypeOK, HistoryOK, Stamped

\* Every stamp is a number and belongs to one frame.
LEMMA StampFacts ==
    ASSUME NEW h, NEW ts, Stamped(h, ts)
    PROVE  /\ Stamps(h) \in SUBSET Nat /\ IsFiniteSet(Stamps(h))
           /\ \A t \in Stamps(h) : /\ t < ts /\ FrameAt(h, t) \in Frames
                                   /\ \E i \in DOMAIN h[FrameAt(h, t)] :
                                          h[FrameAt(h, t)][i] = t
           /\ \A f \in Frames : \A i \in DOMAIN h[f] :
                  h[f][i] \in Stamps(h) /\ FrameAt(h, h[f][i]) = f
<1>1. ASSUME NEW t \in Stamps(h) PROVE \E f \in Frames : \E i \in DOMAIN h[f] : h[f][i] = t
    BY DEF Stamps
<1>2. \A f \in Frames : \A i \in DOMAIN h[f] : h[f][i] \in Nat /\ h[f][i] < ts
    BY DEF Stamped
<1>3. ASSUME NEW t \in Stamps(h)
      PROVE  /\ t \in Nat /\ t < ts /\ FrameAt(h, t) \in Frames
             /\ \E i \in DOMAIN h[FrameAt(h, t)] : h[FrameAt(h, t)][i] = t
    <2>1. /\ FrameAt(h, t) \in Frames
          /\ \E i \in DOMAIN h[FrameAt(h, t)] : h[FrameAt(h, t)][i] = t
        BY <1>1, Zenon DEF FrameAt
    <2> QED
        BY <1>2, <2>1
<1>4. ASSUME NEW f \in Frames, NEW i \in DOMAIN h[f]
      PROVE  h[f][i] \in Stamps(h) /\ FrameAt(h, h[f][i]) = f
    <2>1. h[f][i] \in Stamps(h)
        BY DEF Stamps
    <2>2. PICK j \in DOMAIN h[FrameAt(h, h[f][i])] : h[FrameAt(h, h[f][i])][j] = h[f][i]
        BY <1>3, <2>1
    <2> QED
        BY <1>3, <2>1, <2>2 DEF Stamped
<1>5. IsFiniteSet(Stamps(h))
    <2>1. Stamps(h) \subseteq 0 .. ts
        BY <1>3 DEF Stamped
    <2>2. IsFiniteSet(0 .. ts)
        BY FS_Interval DEF Stamped
    <2> QED
        BY <2>1, <2>2, FS_Subset
<1> QED
    BY <1>3, <1>4, <1>5

\* a is the order of the accesses in the histories h, g their stamps: every
\* stamp once, the oldest first.
Ordered(a, g, h) ==
    /\ a \in Seq(Frames) /\ g \in Seq(Nat) /\ Len(g) = Len(a)
    /\ \A m \in 1 .. Len(a) : \E i \in DOMAIN h[a[m]] : h[a[m]][i] = g[m]
    /\ \A f \in Frames : \A i \in DOMAIN h[f] : \E m \in 1 .. Len(a) : g[m] = h[f][i]
    /\ \A m, k \in 1 .. Len(a) : m < k => g[m] < g[k]

LEMMA OrderIs ==
    ASSUME NEW h, NEW ts, Stamped(h, ts)
    PROVE  \E g : Ordered(AccessOrder(h), g, h)
<1> DEFINE S == Stamps(h)
<1> DEFINE n == Cardinality(S)
<1> DEFINE g == [m \in 1 .. n |-> Nth(S, m)]
<1> DEFINE a == AccessOrder(h)
<1>1. /\ S \in SUBSET Nat /\ IsFiniteSet(S)
      /\ \A t \in S : /\ FrameAt(h, t) \in Frames
                      /\ \E i \in DOMAIN h[FrameAt(h, t)] : h[FrameAt(h, t)][i] = t
      /\ \A f \in Frames : \A i \in DOMAIN h[f] : h[f][i] \in S
    BY StampFacts
<1>2. a = [m \in 1 .. n |-> FrameAt(h, Nth(S, m))]
    BY DEF AccessOrder
<1> HIDE DEF S, a
<1>3. n \in Nat
    BY <1>1, FS_CardinalityType
<1>4. /\ \A m \in 1 .. n : Nth(S, m) \in S
      /\ \A i \in S : \E m \in 1 .. n : Nth(S, m) = i
      /\ \A m, k \in 1 .. n : m < k => Nth(S, m) < Nth(S, k)
    BY <1>1, NthFacts
<1> HIDE DEF n
<1>5. /\ g \in Seq(Nat) /\ Len(g) = n /\ \A m \in 1 .. n : g[m] = Nth(S, m)
    <2>1. \A m \in 1 .. n : Nth(S, m) \in Nat
        BY <1>1, <1>4
    <2> QED
        BY <1>3, <2>1
<1>6. a \in Seq(Frames) /\ Len(a) = n /\ \A m \in 1 .. n : a[m] = FrameAt(h, Nth(S, m))
    <2>1. \A m \in 1 .. n : FrameAt(h, Nth(S, m)) \in Frames
        BY <1>1, <1>4
    <2> QED
        BY <1>2, <1>3, <2>1
<1> HIDE DEF g
<1>7. \A m \in 1 .. n : \E i \in DOMAIN h[a[m]] : h[a[m]][i] = g[m]
    BY <1>1, <1>4, <1>5, <1>6
<1>8. ASSUME NEW f \in Frames, NEW i \in DOMAIN h[f]
      PROVE  \E m \in 1 .. n : g[m] = h[f][i]
    <2>1. h[f][i] \in S
        BY <1>1
    <2>2. PICK m \in 1 .. n : Nth(S, m) = h[f][i]
        BY <1>4, <2>1
    <2>3. g[m] = h[f][i]
        BY <1>5, <2>2
    <2> QED
        BY <2>3
<1>9. \A m, k \in 1 .. n : m < k => g[m] < g[k]
    BY <1>4, <1>5
<1>10. Ordered(a, g, h)
    BY <1>5, <1>6, <1>7, <1>8, <1>9 DEF Ordered
<1> QED
    BY <1>10 DEF a

LEMMA OrderUnique ==
    ASSUME NEW h, NEW ts, Stamped(h, ts), NEW a, NEW g, Ordered(a, g, h)
    PROVE  AccessOrder(h) = a
<1> DEFINE S == Stamps(h)
<1> DEFINE n == Len(a)
<1>1. /\ a \in Seq(Frames) /\ g \in Seq(Nat) /\ Len(g) = n /\ n \in Nat
      /\ DOMAIN a = 1 .. n /\ DOMAIN g = 1 .. n
      /\ \A m, k \in 1 .. n : m < k => g[m] < g[k]
    BY DEF Ordered
<1>2. /\ S \in SUBSET Nat
      /\ \A t \in S : /\ FrameAt(h, t) \in Frames
                      /\ \E i \in DOMAIN h[FrameAt(h, t)] : h[FrameAt(h, t)][i] = t
      /\ \A f \in Frames : \A i \in DOMAIN h[f] : h[f][i] \in S /\ FrameAt(h, h[f][i]) = f
    BY StampFacts
<1> HIDE DEF S, n
<1>3. ASSUME NEW m \in 1 .. n PROVE g[m] \in S /\ FrameAt(h, g[m]) = a[m]
    <2>1. a[m] \in Frames
        BY <1>1
    <2>2. PICK i \in DOMAIN h[a[m]] : h[a[m]][i] = g[m]
        BY DEF Ordered, n
    <2> QED
        BY <1>2, <2>1, <2>2
<1>4. \A t \in S : \E m \in 1 .. n : g[m] = t
    BY <1>2 DEF Ordered, n
<1>5. g \in [1 .. n -> S]
    <2>1. g = [m \in 1 .. n |-> g[m]]
        BY <1>1
    <2> QED
        BY <1>3, <2>1
<1>6. Cardinality(S) = n /\ \A m \in 1 .. n : Nth(S, m) = g[m]
    <2>1. n \in Nat /\ \A m, k \in 1 .. n : m < k => g[m] < g[k]
        BY <1>1
    <2>2. S \in SUBSET Nat
        BY <1>2
    <2> QED
        BY <1>4, <1>5, <2>1, <2>2, NthUnique
<1>7. AccessOrder(h) = [m \in 1 .. n |-> a[m]]
    BY <1>3, <1>6 DEF AccessOrder, S
<1> QED
    BY <1>1, <1>7

\* How often f stands in a, and that its first access has the stamp t.
CountOf(a, f) == Cardinality({m \in DOMAIN a : a[m] = f})

FirstAccess(a, g, f, t) ==
    \E p \in 1 .. Len(a) : a[p] = f /\ g[p] = t /\ \A j \in 1 .. p - 1 : a[j] # f

\* A frame has as many accesses as its history, and its first one is the
\* oldest stamp of its history.
LEMMA FrameAccesses ==
    ASSUME NEW h, NEW ts, Stamped(h, ts), NEW a, NEW g, Ordered(a, g, h), NEW f \in Frames
    PROVE  /\ CountOf(a, f) = Len(h[f])
           /\ Len(h[f]) > 0 => FirstAccess(a, g, f, h[f][1])
<1> DEFINE n == Len(a)
<1> DEFINE hf == h[f]
<1> DEFINE l == Len(hf)
<1>1. /\ a \in Seq(Frames) /\ g \in Seq(Nat) /\ Len(g) = n /\ n \in Nat
      /\ DOMAIN a = 1 .. n /\ DOMAIN g = 1 .. n
      /\ \A m, k \in 1 .. n : m < k => g[m] < g[k]
      /\ \A m \in 1 .. n : g[m] \in Nat /\ a[m] \in Frames
    BY DEF Ordered
<1>2. /\ hf \in Seq(Nat) /\ l \in Nat /\ DOMAIN hf = 1 .. l
      /\ \A i \in 1 .. l : hf[i] \in Nat
      /\ \A i, j \in 1 .. l : i < j => hf[i] < hf[j]
    BY DEF Stamped
<1>3. \A m, k \in 1 .. n : g[m] = g[k] => m = k
    BY <1>1
<1>4. \A i, j \in 1 .. l : hf[i] = hf[j] => i = j
    BY <1>2
<1>5. \A i \in 1 .. l : \E m \in 1 .. n : g[m] = hf[i]
    BY <1>2 DEF Ordered
<1>6. \A m \in 1 .. n : a[m] = f <=> \E i \in DOMAIN hf : g[m] = hf[i]
    <2>1. ASSUME NEW m \in 1 .. n PROVE \E i \in DOMAIN h[a[m]] : h[a[m]][i] = g[m]
        BY DEF Ordered
    <2>2. ASSUME NEW m \in 1 .. n, NEW i \in DOMAIN hf, g[m] = hf[i] PROVE a[m] = f
        BY <1>1, <2>1, <2>2 DEF Stamped
    <2> QED
        BY <2>1, <2>2
<1> DEFINE M == {m \in 1 .. n : a[m] = f}
<1>7. /\ \A m \in M : m \in 1 .. n /\ \E i \in 1 .. l : g[m] = hf[i]
      /\ \A m \in 1 .. n, i \in 1 .. l : g[m] = hf[i] => m \in M
    BY <1>2, <1>6
<1> HIDE DEF n, hf, l, M
<1> DEFINE b == [i \in 1 .. l |-> CHOOSE m \in 1 .. n : g[m] = hf[i]]
<1>8. ASSUME NEW i \in 1 .. l PROVE b[i] \in 1 .. n /\ g[b[i]] = hf[i] /\ b[i] \in M
    <2>1. b[i] \in 1 .. n /\ g[b[i]] = hf[i]
        BY <1>5, Zenon
    <2> QED
        BY <1>7, <2>1
<1>9. DOMAIN b = 1 .. l /\ b \in [1 .. l -> M]
    BY <1>8
<1> HIDE DEF b
<1>10. b \in Bijection(1 .. l, M)
    <2>1. \A i, j \in 1 .. l : b[i] = b[j] => i = j
        BY <1>4, <1>8
    <2>2. ASSUME NEW m \in M PROVE \E i \in 1 .. l : b[i] = m
        <3>1. PICK i \in 1 .. l : g[m] = hf[i]
            BY <1>7
        <3> QED
            BY <1>3, <1>7, <1>8, <3>1
    <2> QED
        BY <1>9, <2>1, <2>2 DEF Bijection, Injection, Surjection, IsInjective
<1>11. Cardinality(M) = l
    <2>1. IsFiniteSet(1 .. l) /\ Cardinality(1 .. l) = l
        BY <1>2, FS_Interval
    <2>2. ExistsBijection(1 .. l, M)
        BY <1>10 DEF ExistsBijection
    <2> QED
        BY <2>1, <2>2, FS_Bijection
<1>12. ASSUME l > 0
       PROVE  \E p \in 1 .. n : a[p] = f /\ g[p] = hf[1] /\ \A j \in 1 .. p - 1 : a[j] # f
    <2> DEFINE p == b[1]
    <2>1. 1 \in 1 .. l
        BY <1>2, <1>12
    <2>2. p \in 1 .. n /\ g[p] = hf[1] /\ p \in M
        BY <1>8, <2>1
    <2> HIDE DEF p
    <2>3. ASSUME NEW j \in 1 .. p - 1, a[j] = f PROVE FALSE
        <3>1. j \in 1 .. n /\ j < p /\ g[j] < g[p]
            BY <1>1, <2>2
        <3>2. PICK i \in 1 .. l : g[j] = hf[i]
            BY <1>7, <2>3, <3>1 DEF M
        <3>3. hf[1] <= hf[i]
            <4>1. CASE i = 1
                BY <1>2, <2>1, <4>1
            <4>2. CASE i # 1
                BY <1>2, <2>1, <4>2
            <4> QED
                BY <4>1, <4>2
        <3> QED
            BY <1>2, <2>1, <2>2, <3>1, <3>2, <3>3
    <2> QED
        BY <2>2, <2>3 DEF M
<1>13. M = {m \in DOMAIN a : a[m] = f}
    BY <1>1 DEF M
<1> QED
    BY <1>11, <1>12, <1>13 DEF n, l, hf, CountOf, FirstAccess
-----------------------------------------------------------------------------
\* push_back of a new stamp: one more access, at the end.
LEMMA AppendOrder ==
    ASSUME NEW h, NEW ts, Stamped(h, ts), NEW a, NEW g, Ordered(a, g, h),
           NEW f \in Frames, NEW h2, h2 = [h EXCEPT ![f] = Append(h[f], ts)]
    PROVE  Ordered(Append(a, f), Append(g, ts), h2)
<1> DEFINE n == Len(a)
<1> DEFINE b == Append(a, f)
<1> DEFINE e == Append(g, ts)
<1> DEFINE l == Len(h[f])
<1>1. /\ a \in Seq(Frames) /\ g \in Seq(Nat) /\ Len(g) = n /\ n \in Nat /\ ts \in Nat
      /\ \A m \in 1 .. n : g[m] \in Nat /\ a[m] \in Frames
    BY DEF Ordered, Stamped
<1>2. /\ h[f] \in Seq(Nat) /\ l \in Nat /\ DOMAIN h[f] = 1 .. l
      /\ DOMAIN h2[f] = 1 .. l + 1 /\ h2[f][l + 1] = ts
      /\ \A i \in 1 .. l : h2[f][i] = h[f][i]
      /\ \A x \in Frames : x # f => h2[x] = h[x]
    BY DEF Stamped
<1>3. /\ b \in Seq(Frames) /\ Len(b) = n + 1 /\ b[n + 1] = f
      /\ \A m \in 1 .. n : b[m] = a[m]
    BY <1>1
<1>4. /\ e \in Seq(Nat) /\ Len(e) = n + 1 /\ e[n + 1] = ts
      /\ \A m \in 1 .. n : e[m] = g[m]
    BY <1>1
<1> HIDE DEF n, b, e, l
<1>5. \A m \in 1 .. n + 1 : m = n + 1 \/ m \in 1 .. n
    BY <1>1
<1>6. \A i \in 1 .. l + 1 : i = l + 1 \/ i \in 1 .. l
    BY <1>2
<1>7. \A x \in Frames : \A i \in DOMAIN h[x] : i \in DOMAIN h2[x] /\ h2[x][i] = h[x][i]
    BY <1>2
<1>8. \A m \in 1 .. n : g[m] < ts
    <2> TAKE m \in 1 .. n
    <2>1. PICK i \in DOMAIN h[a[m]] : h[a[m]][i] = g[m]
        BY DEF Ordered, n
    <2> QED
        BY <1>1, <2>1 DEF Stamped
<1>9. ASSUME NEW m \in 1 .. n + 1 PROVE \E i \in DOMAIN h2[b[m]] : h2[b[m]][i] = e[m]
    <2>1. CASE m = n + 1
        <3>1. l + 1 \in DOMAIN h2[f]
            BY <1>2
        <3> QED
            BY <1>2, <1>3, <1>4, <2>1, <3>1
    <2>2. CASE m \in 1 .. n
        <3>1. PICK i \in DOMAIN h[a[m]] : h[a[m]][i] = g[m]
            BY <2>2 DEF Ordered, n
        <3> QED
            BY <1>1, <1>3, <1>4, <1>7, <2>2, <3>1
    <2> QED
        BY <1>5, <2>1, <2>2
<1>10. ASSUME NEW x \in Frames, NEW i \in DOMAIN h2[x]
       PROVE  \E m \in 1 .. n + 1 : e[m] = h2[x][i]
    <2>0. \A m \in 1 .. n : m \in 1 .. n + 1
        BY <1>1
    <2>1. CASE x = f /\ i = l + 1
        <3>1. n + 1 \in 1 .. n + 1
            BY <1>1
        <3> QED
            BY <1>2, <1>4, <2>1, <3>1
    <2>2. CASE ~(x = f /\ i = l + 1)
        <3>1. i \in DOMAIN h[x]
            BY <1>2, <1>6, <2>2
        <3>2. PICK m \in 1 .. n : g[m] = h[x][i]
            BY <3>1 DEF Ordered, n
        <3> QED
            BY <1>4, <1>7, <2>0, <3>1, <3>2
    <2> QED
        BY <2>1, <2>2
<1>11. ASSUME NEW m \in 1 .. n + 1, NEW k \in 1 .. n + 1, m < k PROVE e[m] < e[k]
    <2>1. m \in 1 .. n
        BY <1>1, <1>11
    <2>2. CASE k = n + 1
        BY <1>4, <1>8, <2>1, <2>2
    <2>3. CASE k \in 1 .. n
        BY <1>4, <1>11, <2>1, <2>3 DEF Ordered, n
    <2> QED
        BY <1>5, <2>2, <2>3
<1>12. Ordered(b, e, h2)
    <2>1. Len(b) = n + 1
        BY <1>3
    <2>2. \A m \in 1 .. Len(b) : \E i \in DOMAIN h2[b[m]] : h2[b[m]][i] = e[m]
        BY <1>9, <2>1
    <2>3. \A x \in Frames : \A i \in DOMAIN h2[x] : \E m \in 1 .. Len(b) : e[m] = h2[x][i]
        BY <1>10, <2>1
    <2>4. \A m, k \in 1 .. Len(b) : m < k => e[m] < e[k]
        BY <1>11, <2>1
    <2> QED
        BY <1>3, <1>4, <2>2, <2>3, <2>4 DEF Ordered
<1> QED
    BY <1>12 DEF b, e

\* push_back and pop_front: the oldest access of the frame gives way.
LEMMA ReplaceOrder ==
    ASSUME NEW h, NEW ts, Stamped(h, ts), NEW a, NEW g, Ordered(a, g, h),
           NEW f \in Frames, NEW h2
    PROVE  Len(h[f]) > 0 /\ h2 = [h EXCEPT ![f] = Append(Tail(h[f]), ts)]
               => \E e : Ordered(Append(RemoveFirst(a, f), f), e, h2)
<1>a. Len(h[f]) > 0 => FirstAccess(a, g, f, h[f][1])
    BY FrameAccesses
<1>b. (\E i \in DOMAIN a : a[i] = f) =>
          /\ FirstAt(a, f) \in 1 .. Len(a) /\ a[FirstAt(a, f)] = f
          /\ \A i \in 1 .. FirstAt(a, f) - 1 : a[i] # f
          /\ RemoveFirst(a, f) \in Seq(Frames)
          /\ Len(RemoveFirst(a, f)) = Len(a) - 1
          /\ \A i \in 1 .. FirstAt(a, f) - 1 : RemoveFirst(a, f)[i] = a[i]
          /\ \A i \in FirstAt(a, f) .. Len(a) - 1 : RemoveFirst(a, f)[i] = a[i + 1]
    <2>1. a \in Seq(Frames)
        BY DEF Ordered
    <2> QED
        BY <2>1, RemoveFirstFacts
<1> HAVE Len(h[f]) > 0 /\ h2 = [h EXCEPT ![f] = Append(Tail(h[f]), ts)]
<1> DEFINE n == Len(a)
<1> DEFINE r == RemoveFirst(a, f)
<1> DEFINE b == Append(r, f)
<1> DEFINE l == Len(h[f])
<1> DEFINE p == FirstAt(a, f)
<1>1. /\ a \in Seq(Frames) /\ g \in Seq(Nat) /\ Len(g) = n /\ n \in Nat /\ ts \in Nat
      /\ \A m \in 1 .. n : g[m] \in Nat /\ a[m] \in Frames
      /\ DOMAIN a = 1 .. n
    <2>1. a \in Seq(Frames) /\ g \in Seq(Nat) /\ Len(g) = n
        BY DEF Ordered
    <2>2. ts \in Nat
        BY DEF Stamped
    <2>3. n \in Nat /\ DOMAIN a = 1 .. n /\ \A m \in 1 .. n : a[m] \in Frames
        BY <2>1
    <2>4. \A m \in 1 .. n : g[m] \in Nat
        BY <2>1
    <2> QED
        BY <2>1, <2>2, <2>3, <2>4
<1>2. /\ h[f] \in Seq(Nat) /\ l \in Nat /\ l > 0 /\ DOMAIN h[f] = 1 .. l
      /\ DOMAIN h2[f] = 1 .. l /\ h2[f][l] = ts
      /\ \A i \in 1 .. l - 1 : h2[f][i] = h[f][i + 1]
      /\ \A x \in Frames : x # f => h2[x] = h[x]
    <2>1. h[f] \in Seq(Nat) /\ l \in Nat /\ l > 0 /\ DOMAIN h[f] = 1 .. l
        BY DEF Stamped
    <2> DEFINE w == Tail(h[f])
    <2>2. /\ w \in Seq(Nat) /\ Len(w) = l - 1
          /\ \A i \in 1 .. l - 1 : w[i] = h[f][i + 1]
        BY <2>1
    <2>3. h2[f] = Append(w, ts) /\ \A x \in Frames : x # f => h2[x] = h[x]
        BY DEF Stamped
    <2> HIDE DEF l, w
    <2>4. /\ Append(w, ts) \in Seq(Nat) /\ Len(Append(w, ts)) = (l - 1) + 1
          /\ \A i \in 1 .. l - 1 : Append(w, ts)[i] = w[i]
          /\ Append(w, ts)[(l - 1) + 1] = ts
        BY <1>1, <2>1, <2>2
    <2>5. (l - 1) + 1 = l
        BY <2>1
    <2>6. DOMAIN h2[f] = 1 .. l
        BY <2>3, <2>4, <2>5
    <2> QED
        BY <2>1, <2>2, <2>3, <2>4, <2>5, <2>6
<1>3. PICK q \in 1 .. n : a[q] = f /\ g[q] = h[f][1] /\ \A j \in 1 .. q - 1 : a[j] # f
    BY <1>a DEF FirstAccess
<1>4. /\ p \in 1 .. n /\ a[p] = f /\ \A i \in 1 .. p - 1 : a[i] # f
      /\ r \in Seq(Frames) /\ Len(r) = n - 1
      /\ \A i \in 1 .. p - 1 : r[i] = a[i]
      /\ \A i \in p .. n - 1 : r[i] = a[i + 1]
    BY <1>1, <1>3, <1>b
<1> HIDE DEF n, r, l, p
<1>5. q = p
    <2>1. ~(q < p) /\ ~(p < q)
        BY <1>1, <1>3, <1>4
    <2> QED
        BY <1>1, <1>3, <1>4, <2>1
<1>6. /\ b \in Seq(Frames) /\ Len(b) = n /\ b[n] = f
      /\ \A m \in 1 .. n - 1 : b[m] = r[m]
    BY <1>1, <1>3, <1>4
<1> HIDE DEF b
<1> DEFINE up(m) == IF m < p THEN m ELSE m + 1
<1> DEFINE e == [m \in 1 .. n |-> IF m = n THEN ts ELSE g[up(m)]]
<1>7. ASSUME NEW m \in 1 .. n - 1
      PROVE  up(m) \in 1 .. n /\ up(m) # p /\ b[m] = a[up(m)] /\ m \in 1 .. n /\ m # n
    BY <1>1, <1>4, <1>6
<1>8. \A k \in 1 .. n : k # p => \E m \in 1 .. n - 1 : up(m) = k
    <2> TAKE k \in 1 .. n
    <2> HAVE k # p
    <2>1. CASE k < p
        <3>1. k \in 1 .. n - 1 /\ up(k) = k
            BY <1>1, <1>4, <2>1
        <3> QED
            BY <3>1
    <2>2. CASE ~(k < p)
        <3>1. k - 1 \in 1 .. n - 1 /\ up(k - 1) = k
            BY <1>1, <1>4, <2>2
        <3> QED
            BY <3>1
    <2> QED
        BY <2>1, <2>2
<1>9. \A m, k \in 1 .. n - 1 : m < k => up(m) < up(k)
    BY <1>1, <1>4
<1> HIDE DEF up
<1>10. /\ e \in Seq(Nat) /\ Len(e) = n /\ e[n] = ts
       /\ \A m \in 1 .. n - 1 : e[m] = g[up(m)]
    <2>1. \A m \in 1 .. n : m = n \/ m \in 1 .. n - 1
        BY <1>1
    <2>2. \A m \in 1 .. n : (IF m = n THEN ts ELSE g[up(m)]) \in Nat
        BY <1>1, <1>7, <2>1
    <2>3. n \in 1 .. n
        BY <1>1, <1>3
    <2> QED
        BY <1>1, <1>7, <2>2, <2>3
<1> HIDE DEF e
<1>11. \A m \in 1 .. n : m = n \/ m \in 1 .. n - 1
    BY <1>1
<1>12. \A k \in 1 .. n : g[k] = g[p] => k = p
    <2>1. \A m, k \in 1 .. n : m < k => g[m] < g[k]
        BY DEF Ordered, n
    <2> QED
        BY <1>1, <1>4, <2>1
<1>13. ASSUME NEW m \in 1 .. n PROVE \E i \in DOMAIN h2[b[m]] : h2[b[m]][i] = e[m]
    <2>1. CASE m = n
        <3>1. l \in DOMAIN h2[f]
            BY <1>2
        <3> QED
            BY <1>2, <1>6, <1>10, <2>1, <3>1
    <2>2. CASE m \in 1 .. n - 1
        <3> DEFINE k == up(m)
        <3>1. k \in 1 .. n /\ k # p /\ b[m] = a[k] /\ e[m] = g[k]
            BY <1>7, <1>10, <2>2
        <3> HIDE DEF k
        <3>2. PICK i \in DOMAIN h[a[k]] : h[a[k]][i] = g[k]
            BY <3>1 DEF Ordered, n
        <3>3. CASE a[k] = f
            <4>1. i \in 1 .. l /\ i # 1
                BY <1>2, <1>3, <1>5, <1>12, <3>1, <3>2, <3>3
            <4>2. i - 1 \in 1 .. l - 1 /\ (i - 1) + 1 = i /\ i - 1 \in 1 .. l
                BY <1>2, <4>1
            <4>3. h2[f][i - 1] = g[k]
                BY <1>2, <3>2, <3>3, <4>2
            <4> QED
                BY <1>2, <3>1, <3>3, <4>2, <4>3
        <3>4. CASE a[k] # f
            BY <1>1, <1>2, <3>1, <3>2, <3>4
        <3> QED
            BY <3>3, <3>4
    <2> QED
        BY <1>11, <2>1, <2>2
<1>14. ASSUME NEW x \in Frames, NEW i \in DOMAIN h2[x]
       PROVE  \E m \in 1 .. n : e[m] = h2[x][i]
    <2>1. CASE x = f /\ i = l
        <3>1. n \in 1 .. n
            BY <1>1, <1>3
        <3> QED
            BY <1>2, <1>10, <2>1, <3>1
    <2>2. CASE ~(x = f /\ i = l)
        <3>1. PICK j \in DOMAIN h[x] : h2[x][i] = h[x][j] /\ (x = f => j # 1)
            <4>1. CASE x = f
                <5>1. i \in 1 .. l - 1 /\ i + 1 \in 1 .. l /\ i + 1 # 1
                    BY <1>2, <2>2, <4>1
                <5> QED
                    BY <1>2, <4>1, <5>1
            <4>2. CASE x # f
                BY <1>2, <4>2
            <4> QED
                BY <4>1, <4>2
        <3>2. PICK k \in 1 .. n : g[k] = h[x][j]
            BY <3>1 DEF Ordered, n
        <3>3. k # p
            <4>1. 1 \in DOMAIN h[f] /\ g[p] = h[f][1]
                BY <1>2, <1>3, <1>5
            <4>2. ASSUME k = p PROVE x = f /\ h[f][j] = h[f][1] /\ j \in 1 .. l /\ 1 \in 1 .. l
                <5>1. h[x][j] = h[f][1]
                    BY <3>2, <4>1, <4>2
                <5>2. x = f
                    BY <3>1, <4>1, <5>1 DEF Stamped
                <5> QED
                    BY <1>2, <3>1, <4>1, <5>1, <5>2
            <4>3. \A u, v \in 1 .. l : u < v => h[f][u] < h[f][v]
                BY <1>2 DEF Stamped
            <4>4. \A u \in 1 .. l : h[f][u] \in Nat
                BY <1>2
            <4>5. ASSUME k = p PROVE FALSE
                <5>1. j # 1 /\ 1 < j
                    BY <1>2, <3>1, <4>2, <4>5
                <5>2. h[f][1] < h[f][j]
                    BY <4>2, <4>3, <4>5, <5>1
                <5> QED
                    BY <4>2, <4>4, <4>5, <5>2
            <4> QED
                BY <4>5
        <3>4. PICK m \in 1 .. n - 1 : up(m) = k
            BY <1>8, <3>2, <3>3
        <3>5. m \in 1 .. n /\ e[m] = h2[x][i]
            BY <1>7, <1>10, <3>1, <3>2, <3>4
        <3> QED
            BY <3>5
    <2> QED
        BY <2>1, <2>2
<1>15. ASSUME NEW m \in 1 .. n, NEW k \in 1 .. n, m < k PROVE e[m] < e[k]
    <2>1. m \in 1 .. n - 1
        BY <1>1, <1>15
    <2>2. CASE k = n
        <3>1. up(m) \in 1 .. n
            BY <1>7, <2>1
        <3>2. PICK i \in DOMAIN h[a[up(m)]] : h[a[up(m)]][i] = g[up(m)]
            BY <3>1 DEF Ordered, n
        <3>3. g[up(m)] < ts
            BY <1>1, <3>1, <3>2 DEF Stamped
        <3> QED
            BY <1>10, <2>1, <2>2, <3>3
    <2>3. CASE k \in 1 .. n - 1
        <3>1. up(m) \in 1 .. n /\ up(k) \in 1 .. n /\ up(m) < up(k)
            BY <1>7, <1>9, <1>15, <2>1, <2>3
        <3> QED
            BY <1>10, <2>1, <2>3, <3>1 DEF Ordered, n
    <2> QED
        BY <1>11, <2>2, <2>3
<1>16. Ordered(b, e, h2)
    <2>1. Len(b) = n
        BY <1>6
    <2>2. \A m \in 1 .. Len(b) : \E i \in DOMAIN h2[b[m]] : h2[b[m]][i] = e[m]
        BY <1>13, <2>1
    <2>3. \A x \in Frames : \A i \in DOMAIN h2[x] : \E m \in 1 .. Len(b) : e[m] = h2[x][i]
        BY <1>14, <2>1
    <2>4. \A m, k \in 1 .. Len(b) : m < k => e[m] < e[k]
        BY <1>15, <2>1
    <2> QED
        BY <1>6, <1>10, <2>2, <2>3, <2>4 DEF Ordered
<1> QED
    BY <1>16 DEF b, r

\* A node is erased: the accesses of its frame go.
LEMMA EraseOrder ==
    ASSUME NEW h, NEW ts, Stamped(h, ts), NEW a, NEW g, Ordered(a, g, h),
           NEW f \in Frames, NEW h2, h2 = [h EXCEPT ![f] = <<>>]
    PROVE  \E e : Ordered(Without(a, f), e, h2)
<1> DEFINE n == Len(a)
<1> DEFINE b == Without(a, f)
<1> DEFINE at == KeptAt(a, f)
<1> DEFINE c == Len(b)
<1>1. /\ a \in Seq(Frames) /\ g \in Seq(Nat) /\ Len(g) = n /\ n \in Nat
      /\ \A m \in 1 .. n : g[m] \in Nat /\ a[m] \in Frames
      /\ DOMAIN a = 1 .. n
    BY DEF Ordered
<1>2. /\ b \in Seq(Frames) /\ \A m \in DOMAIN b : b[m] # f
      /\ at \in [DOMAIN b -> DOMAIN a]
      /\ \A m \in DOMAIN b : b[m] = a[at[m]]
      /\ \A i \in DOMAIN a : a[i] # f => \E m \in DOMAIN b : at[m] = i
      /\ \A m, k \in DOMAIN b : m < k => at[m] < at[k]
    BY <1>1, WithoutFacts
<1>3. DOMAIN b = 1 .. c /\ c \in Nat
    BY <1>2
<1>4. h2[f] = <<>> /\ DOMAIN h2[f] = {} /\ \A x \in Frames : x # f => h2[x] = h[x]
    BY DEF Stamped
<1> HIDE DEF n, b, at, c
<1> DEFINE e == [m \in 1 .. c |-> g[at[m]]]
<1>5. \A m \in 1 .. c : at[m] \in 1 .. n /\ g[at[m]] \in Nat
    BY <1>1, <1>2, <1>3
<1>6. e \in Seq(Nat) /\ Len(e) = c /\ \A m \in 1 .. c : e[m] = g[at[m]]
    BY <1>3, <1>5
<1> HIDE DEF e
<1>7. ASSUME NEW m \in 1 .. c PROVE \E i \in DOMAIN h2[b[m]] : h2[b[m]][i] = e[m]
    <2> DEFINE k == at[m]
    <2>1. k \in 1 .. n /\ b[m] = a[k] /\ a[k] # f /\ e[m] = g[k]
        BY <1>2, <1>3, <1>5, <1>6
    <2> HIDE DEF k
    <2>2. \E i \in DOMAIN h[a[k]] : h[a[k]][i] = g[k]
        BY <2>1 DEF Ordered, n
    <2> QED
        BY <1>1, <1>4, <2>1, <2>2
<1>8. ASSUME NEW x \in Frames, NEW i \in DOMAIN h2[x] PROVE \E m \in 1 .. c : e[m] = h2[x][i]
    <2>1. x # f /\ i \in DOMAIN h[x] /\ h2[x][i] = h[x][i]
        BY <1>4
    <2>2. PICK k \in 1 .. n : g[k] = h[x][i]
        BY <2>1 DEF Ordered, n
    <2>3. a[k] # f
        <3>1. PICK j \in DOMAIN h[a[k]] : h[a[k]][j] = g[k]
            BY DEF Ordered, n
        <3> QED
            BY <1>1, <2>1, <2>2, <3>1 DEF Stamped
    <2>4. PICK m \in 1 .. c : at[m] = k
        BY <1>1, <1>2, <1>3, <2>3
    <2> QED
        BY <1>6, <2>1, <2>2, <2>4
<1>9. \A m, k \in 1 .. c : m < k => e[m] < e[k]
    <2>1. \A m, k \in 1 .. n : m < k => g[m] < g[k]
        BY DEF Ordered, n
    <2>2. \A m, k \in 1 .. c : m < k => at[m] < at[k]
        BY <1>2, <1>3
    <2> QED
        BY <1>5, <1>6, <2>1, <2>2
<1>10. Ordered(b, e, h2)
    BY <1>2, <1>6, <1>7, <1>8, <1>9 DEF Ordered, c
<1> QED
    BY <1>10 DEF b
-----------------------------------------------------------------------------
(***************************************************************************)
(* The calls.                                                              *)
(***************************************************************************)
Abs == [accesses |-> AccessOrder(history), evictable |-> is_evictable]

LEMMA InvStampedNext == Inv' => Stamped(history', current_timestamp')
BY DEF Inv, TypeOK, HistoryOK, Stamped

\* The order exists, counts the histories, and holds the tracked frames.
LEMMA AbsFacts ==
    ASSUME Inv
    PROVE  /\ AccessOrder(history) \in Seq(Frames)
           /\ \A f \in Frames : CountOf(AccessOrder(history), f) = Len(history[f])
           /\ ToSet(AccessOrder(history)) = node_store
<1> DEFINE a == AccessOrder(history)
<1>1. Stamped(history, current_timestamp)
    BY InvStamped
<1>2. PICK g : Ordered(a, g, history)
    BY <1>1, OrderIs
<1>3. /\ \A f \in Frames : CountOf(a, f) = Len(history[f])
      /\ \A f \in Frames : Len(history[f]) > 0 => FirstAccess(a, g, f, history[f][1])
    BY <1>1, <1>2, FrameAccesses
<1>4. a \in Seq(Frames) /\ DOMAIN a = 1 .. Len(a)
    BY <1>2 DEF Ordered
<1> HIDE DEF a
<1>5. ASSUME NEW f \in node_store PROVE \E m \in DOMAIN a : a[m] = f
    <2>1. f \in Frames /\ Len(history[f]) > 0
        BY DEF Inv, TypeOK, HistoryOK
    <2> QED
        BY <1>3, <1>4, <2>1 DEF FirstAccess
<1>6. ASSUME NEW m \in DOMAIN a PROVE a[m] \in node_store
    <2>1. a[m] \in Frames
        BY <1>4
    <2>2. PICK i \in DOMAIN history[a[m]] : history[a[m]][i] = g[m]
        BY <1>2, <1>4 DEF Ordered
    <2>3. history[a[m]] \in Seq(Nat)
        BY <2>1 DEF Inv, TypeOK
    <2>4. Len(history[a[m]]) > 0
        BY <2>2, <2>3
    <2> QED
        BY <2>1, <2>4 DEF Inv, HistoryOK
<1>7. ToSet(a) = node_store
    BY <1>5, <1>6 DEF ToSet
<1> QED
    BY <1>3, <1>4, <1>7 DEF a

LEMMA SameCount ==
    ASSUME NEW f PROVE Policy!Accesses(Abs, f) = CountOf(AccessOrder(history), f)
BY SameOperators DEF Policy!Accesses, Abs, CountOf

\* record_access
LEMMA AccessStep ==
    ASSUME Inv, Inv', NEW f \in Frames, record_access(f)
    PROVE  Policy!Access(f)
<1> DEFINE a == AccessOrder(history)
<1> DEFINE ts == current_timestamp
<1>1. Stamped(history, ts) /\ Stamped(history', current_timestamp')
    BY InvStamped, InvStampedNext
<1>2. PICK g : Ordered(a, g, history)
    BY <1>1, OrderIs
<1>3. /\ history' = [history EXCEPT ![f] = Remember(history[f], ts)]
      /\ UNCHANGED <<is_evictable, victim>>
    BY DEF record_access
<1>4. CountOf(a, f) = Len(history[f]) /\ Policy!Accesses(Abs, f) = CountOf(a, f)
    BY AbsFacts, SameCount
<1>5. AccessOrder(history') = IF Policy!Accesses(Abs, f) < K
                              THEN Append(a, f) ELSE Append(RemoveFirst(a, f), f)
    <2>1. CASE Len(history[f]) < K
        <3>1. history' = [history EXCEPT ![f] = Append(history[f], ts)]
            BY <1>3, <2>1 DEF Remember
        <3> HIDE DEF a, ts
        <3>2. Ordered(Append(a, f), Append(g, ts), history')
            BY <1>1, <1>2, <3>1, AppendOrder
        <3>3. AccessOrder(history') = Append(a, f)
            BY <1>1, <3>2, OrderUnique
        <3> QED
            BY <1>4, <2>1, <3>3
    <2>2. CASE ~(Len(history[f]) < K)
        <3>1. history' = [history EXCEPT ![f] = Append(Tail(history[f]), ts)]
            BY <1>3, <2>2 DEF Remember
        <3>2. Len(history[f]) > 0
            BY <2>2, KAssumption DEF Inv, TypeOK
        <3> HIDE DEF a, ts
        <3>3. PICK e : Ordered(Append(RemoveFirst(a, f), f), e, history')
            BY <1>1, <1>2, <3>1, <3>2, ReplaceOrder
        <3>4. AccessOrder(history') = Append(RemoveFirst(a, f), f)
            BY <1>1, <3>3, OrderUnique
        <3> QED
            BY <1>4, <2>2, <3>4
    <2> QED
        BY <2>1, <2>2
<1>6. Policy!RecordAccess(Abs, f) =
          [accesses |-> IF Policy!Accesses(Abs, f) < K
                        THEN Append(a, f) ELSE Append(RemoveFirst(a, f), f),
           evictable |-> is_evictable]
    BY SameOperators DEF Policy!RecordAccess, Abs
<1>7. Abs' = Policy!RecordAccess(Abs, f)
    BY <1>3, <1>5, <1>6 DEF Abs
<1> QED
    BY <1>3, <1>7 DEF Policy!Access, Abs

\* set_evictable
LEMMA EvictableStep ==
    ASSUME Inv, NEW f \in Frames
    PROVE  /\ set_evictable(f) => Policy!MakeEvictable(f)
           /\ set_not_evictable(f) => Policy!MakeNotEvictable(f)
<1>1. ASSUME set_evictable(f) PROVE Policy!MakeEvictable(f)
    <2>1. /\ history' = history /\ victim' = victim /\ f \in node_store
          /\ is_evictable' = is_evictable \cup {f}
        BY <1>1 DEF set_evictable
    <2>2. f \in Policy!Tracked(Abs)
        BY <2>1, AbsFacts, SameOperators DEF Policy!Tracked, Abs
    <2>3. Abs' = Policy!SetEvictable(Abs, f)
        BY <2>1, <2>2 DEF Policy!SetEvictable, Abs
    <2> QED
        BY <2>1, <2>3 DEF Policy!MakeEvictable, Abs
<1>2. ASSUME set_not_evictable(f) PROVE Policy!MakeNotEvictable(f)
    <2>1. /\ history' = history /\ victim' = victim
          /\ is_evictable' = is_evictable \ {f}
        BY <1>2 DEF set_not_evictable
    <2>2. Abs' = Policy!SetNotEvictable(Abs, f)
        BY <2>1 DEF Policy!SetNotEvictable, Abs
    <2> QED
        BY <2>1, <2>2 DEF Policy!MakeNotEvictable, Abs
<1> QED
    BY <1>1, <1>2

\* Erasing a node is what the policy calls forgetting the frame.
LEMMA ForgetStep ==
    ASSUME Inv, Inv', NEW f \in Frames, EraseNode(f)
    PROVE  Abs' = Policy!Forget(Abs, f)
<1> DEFINE a == AccessOrder(history)
<1>1. /\ Stamped(history, current_timestamp) /\ Stamped(history', current_timestamp')
    BY InvStamped, InvStampedNext
<1>2. PICK g : Ordered(a, g, history)
    BY <1>1, OrderIs
<1>3. history' = [history EXCEPT ![f] = <<>>] /\ is_evictable' = is_evictable \ {f}
    BY DEF EraseNode
<1> HIDE DEF a
<1>4. PICK e : Ordered(Without(a, f), e, history')
    BY <1>1, <1>2, <1>3, EraseOrder
<1>5. AccessOrder(history') = Without(a, f)
    BY <1>1, <1>4, OrderUnique
<1>6. Policy!Forget(Abs, f) = [accesses |-> Without(a, f), evictable |-> is_evictable \ {f}]
    BY SameOperators DEF Policy!Forget, Abs, a
<1> QED
    BY <1>3, <1>5, <1>6 DEF Abs

\* The frame with the least oldest stamp among the candidates is the victim.
LEMMA VictimIs ==
    ASSUME Inv, NEW v \in is_evictable, v \in Policy!Candidates(Abs),
           Policy!Candidates(Abs) \subseteq is_evictable,
           \A x \in Policy!Candidates(Abs) : history[v][1] <= history[x][1]
    PROVE  Policy!Victim(Abs) = v
<1> DEFINE a == AccessOrder(history)
<1> DEFINE C == Policy!Candidates(Abs)
<1> DEFINE O(x) == Policy!Oldest(Abs, x)
<1>1. Stamped(history, current_timestamp)
    BY InvStamped
<1>2. PICK g : Ordered(a, g, history)
    BY <1>1, OrderIs
<1>3. /\ DOMAIN a = 1 .. Len(a) /\ Len(a) \in Nat
      /\ \A m, k \in 1 .. Len(a) : m < k => g[m] < g[k]
      /\ \A m \in 1 .. Len(a) : g[m] \in Nat
    BY <1>2 DEF Ordered
<1>4. \A x \in Frames : Len(history[x]) > 0 => FirstAccess(a, g, x, history[x][1])
    BY <1>1, <1>2, FrameAccesses
<1>5. \A x : O(x) = CHOOSE i \in DOMAIN a : a[i] = x /\ \A j \in 1 .. i - 1 : a[j] # x
    BY DEF Policy!Oldest, Abs
<1> HIDE DEF a, O, C
<1>6. ASSUME NEW x \in is_evictable
      PROVE  O(x) \in 1 .. Len(a) /\ a[O(x)] = x /\ g[O(x)] = history[x][1]
    <2>1. x \in Frames /\ Len(history[x]) > 0
        BY DEF Inv, TypeOK, HistoryOK
    <2>2. PICK p \in 1 .. Len(a) : /\ a[p] = x /\ g[p] = history[x][1]
                                   /\ \A j \in 1 .. p - 1 : a[j] # x
        BY <1>4, <2>1 DEF FirstAccess
    <2>3. /\ O(x) \in 1 .. Len(a) /\ a[O(x)] = x
          /\ \A j \in 1 .. O(x) - 1 : a[j] # x
        <3>1. \E i \in DOMAIN a : a[i] = x /\ \A j \in 1 .. i - 1 : a[j] # x
            BY <1>3, <2>2
        <3>2. O(x) \in DOMAIN a /\ a[O(x)] = x /\ \A j \in 1 .. O(x) - 1 : a[j] # x
            BY <1>5, <3>1, Zenon
        <3> QED
            BY <1>3, <3>2
    <2>4. ~(O(x) < p) /\ ~(p < O(x))
        BY <1>3, <2>2, <2>3
    <2>5. O(x) = p
        BY <1>3, <2>2, <2>3, <2>4
    <2> QED
        BY <2>2, <2>3, <2>5
<1>7. v \in C /\ \A x \in C : x \in is_evictable /\ history[v][1] <= history[x][1]
    BY DEF C
<1>8. ASSUME NEW x \in C PROVE O(v) <= O(x)
    <2>1. g[O(v)] <= g[O(x)] /\ O(v) \in 1 .. Len(a) /\ O(x) \in 1 .. Len(a)
        BY <1>6, <1>7
    <2>2. ~(O(x) < O(v))
        BY <1>3, <2>1
    <2> QED
        BY <1>3, <2>1, <2>2
<1>9. ASSUME NEW x \in C, \A y \in C : O(x) <= O(y) PROVE x = v
    <2>1. O(x) <= O(v) /\ O(v) <= O(x) /\ O(v) \in 1 .. Len(a) /\ O(x) \in 1 .. Len(a)
        BY <1>6, <1>7, <1>8, <1>9
    <2>2. O(x) = O(v)
        BY <1>3, <2>1
    <2> QED
        BY <1>6, <1>7, <2>2
<1>10. Policy!Victim(Abs) = CHOOSE x \in C : \A y \in C : O(x) <= O(y)
    BY DEF Policy!Victim, Abs, C, O
<1> DEFINE w == CHOOSE x \in C : \A y \in C : O(x) <= O(y)
<1>11. w \in C /\ \A y \in C : O(w) <= O(y)
    BY <1>7, <1>8, Zenon
<1> HIDE DEF w
<1>12. w = v
    BY <1>9, <1>11
<1> QED
    BY <1>10, <1>12 DEF w

\* evict
LEMMA EvictStep == ASSUME Inv, Inv', evict PROVE Policy!EvictOne
<1>0. /\ \A x \in is_evictable : x \in Frames /\ Policy!Accesses(Abs, x) = Len(history[x])
      /\ Abs.evictable = is_evictable
      /\ Policy!Candidates(Abs) =
            IF {x \in is_evictable : Policy!Accesses(Abs, x) < K} # {}
            THEN {x \in is_evictable : Policy!Accesses(Abs, x) < K} ELSE is_evictable
    <2>1. is_evictable \subseteq Frames /\ Abs.evictable = is_evictable
        BY DEF Inv, TypeOK, Abs
    <2>2. \A x \in Frames : Policy!Accesses(Abs, x) = Len(history[x])
        BY AbsFacts, SameCount
    <2> QED
        BY <2>1, <2>2 DEF Policy!Candidates
<1>1. ASSUME NEW v \in is_evictable, victim' = v, EraseNode(v), Policy!Victim(Abs) = v
      PROVE  Policy!EvictOne
    <2>1. v \in Frames /\ v # NoFrame
        BY <1>0, NoFrameAssumption
    <2>2. Abs' = Policy!Forget(Abs, v)
        BY <1>1, <2>1, ForgetStep
    <2> QED
        BY <1>1, <2>1, <2>2 DEF Policy!EvictOne, Abs
<1>2. CASE EvictNothing
    <2>1. /\ is_evictable = {} /\ victim' = NoFrame
          /\ history' = history /\ is_evictable' = is_evictable
        BY <1>2, EvictableFinite, FS_EmptySet DEF EvictNothing, Inv, SizeExact
    <2>2. Policy!Victim(Abs) = NoFrame
        BY <1>0, <2>1 DEF Policy!Victim
    <2> QED
        BY <2>1, <2>2 DEF Policy!EvictOne, Abs
<1>3. CASE EvictCold
    <2> DEFINE it == Least(less_than_k_set)
    <2>1. /\ it[2] \in is_evictable /\ it = KeyOf(it[2]) /\ Len(history[it[2]]) < K
          /\ \A x \in is_evictable : Len(history[x]) < K => it[1] <= history[x][1]
          /\ victim' = it[2] /\ EraseNode(it[2])
        BY <1>3, ColdVictim DEF EvictCold
    <2>2. PICK v \in is_evictable : v = it[2]
        BY <2>1
    <2>3. it[1] = history[v][1]
        BY <2>1, <2>2 DEF KeyOf
    <2> HIDE DEF it
    <2>4. Policy!Candidates(Abs) = {x \in is_evictable : Policy!Accesses(Abs, x) < K}
        BY <1>0, <2>1, <2>2
    <2>5. /\ v \in Policy!Candidates(Abs) /\ Policy!Candidates(Abs) \subseteq is_evictable
          /\ \A x \in Policy!Candidates(Abs) : history[v][1] <= history[x][1]
        BY <1>0, <2>1, <2>2, <2>3, <2>4
    <2>6. Policy!Victim(Abs) = v
        BY <2>5, VictimIs
    <2> QED
        BY <1>1, <2>1, <2>2, <2>6
<1>4. CASE EvictHot
    <2> DEFINE it == Least(k_set)
    <2>1. /\ it[2] \in is_evictable /\ it = KeyOf(it[2])
          /\ \A x \in is_evictable : Len(history[x]) >= K /\ it[1] <= history[x][1]
          /\ victim' = it[2] /\ EraseNode(it[2])
        BY <1>4, HotVictim DEF EvictHot
    <2>2. PICK v \in is_evictable : v = it[2]
        BY <2>1
    <2>3. it[1] = history[v][1]
        BY <2>1, <2>2 DEF KeyOf
    <2> HIDE DEF it
    <2>4. \A x \in is_evictable : ~(Policy!Accesses(Abs, x) < K)
        <3>1. \A x \in is_evictable : Len(history[x]) \in Nat
            BY KeyFacts DEF Inv, TypeOK
        <3> QED
            BY <1>0, <2>1, <3>1, KAssumption
    <2>5. Policy!Candidates(Abs) = is_evictable
        BY <1>0, <2>4
    <2>6. Policy!Victim(Abs) = v
        BY <2>1, <2>3, <2>5, VictimIs
    <2> QED
        BY <1>1, <2>1, <2>2, <2>6
<1> QED
    BY <1>2, <1>3, <1>4 DEF evict

LEMMA CallStep == Inv /\ Inv' => CallsMatch
<1> SUFFICES ASSUME Inv, Inv' PROVE CallsMatch
    OBVIOUS
<1>1. evict => Policy!EvictOne
    BY EvictStep
<1>2. ASSUME NEW f \in Frames
      PROVE  /\ record_access(f) => Policy!Access(f)
             /\ set_evictable(f) => Policy!MakeEvictable(f)
             /\ set_not_evictable(f) => Policy!MakeNotEvictable(f)
    BY AccessStep, EvictableStep
<1>3. ASSUME NEW f \in Frames, remove(f) PROVE Policy!Drop(f)
    <2>1. EraseNode(f) /\ victim' = victim
        BY <1>3 DEF remove
    <2>2. Abs' = Policy!Forget(Abs, f)
        BY <2>1, ForgetStep
    <2> QED
        BY <2>1, <2>2 DEF Policy!Drop, Abs
<1> QED
    BY <1>1, <1>2, <1>3 DEF CallsMatch

LEMMA InitPolicy == Init => Policy!Init
<1> SUFFICES ASSUME Init PROVE Policy!Init
    OBVIOUS
<1>1. history = [f \in Frames |-> <<>>] /\ is_evictable = {} /\ victim = NoFrame
    BY DEF Init
<1>2. Stamped(history, 0)
    BY <1>1 DEF Stamped
<1>3. Ordered(<<>>, <<>>, history)
    BY <1>1 DEF Ordered
<1>4. AccessOrder(history) = <<>>
    BY <1>2, <1>3, OrderUnique
<1> QED
    BY <1>1, <1>4 DEF Policy!Init, Policy!Untouched

LEMMA NextPolicy == Inv /\ Inv' /\ [Next]_vars => [Policy!Next]_(Policy!policyVars)
<1> SUFFICES ASSUME Inv, Inv', [Next]_vars PROVE [Policy!Next]_(Policy!policyVars)
    OBVIOUS
<1>1. CallsMatch
    BY CallStep
<1>2. CASE UNCHANGED vars
    BY <1>2 DEF vars, Policy!policyVars
<1>3. CASE Next
    BY <1>1, <1>3 DEF CallsMatch, Next, Policy!Next
<1> QED
    BY <1>2, <1>3

\* Every behaviour of the evictor of lruk.cpp is one of the LRU-K policy,
\* and every call does what the policy's call of that name does.
THEOREM ImplementsPolicy == Spec => RefinesPolicy
<1>1. Inv /\ Inv' => [CallsMatch]_vars
    BY CallStep
<1>2. Spec => [][CallsMatch]_vars
    BY <1>1, SpecInv, PTL
<1>3. Spec => Policy!Spec
    BY InitPolicy, NextPolicy, SpecInv, PTL DEF Spec, Policy!Spec
<1> QED
    BY <1>2, <1>3 DEF RefinesPolicy
=============================================================================
