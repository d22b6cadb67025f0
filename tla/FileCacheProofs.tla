---------------------------- MODULE FileCacheProofs ----------------------------
(***************************************************************************)
(* The file cache, for any keys, files, heap and size: its list, its map   *)
(* and its counter agree, and the files that are open are the cached ones. *)
(***************************************************************************)
EXTENDS FileCacheCalls, FileCacheLemmas

Cached(c) == {FileOf(c, k) : k \in DOMAIN c.filecache_}

\* No two keys have the same file.
OneKeyEach(c) == \A j, k \in DOMAIN c.filecache_ : j # k => FileOf(c, j) # FileOf(c, k)

\* The inductive invariant.
CacheInv ==
    /\ Represents(cache, recent)
    /\ Len(recent) <= max_size_
    /\ OneKeyEach(cache)
    /\ Cached(cache) \cap lost = {}
    /\ open_fds = Cached(cache) \cup lost

LEMMA InitCache == Init => CacheInv
<1> SUFFICES ASSUME Init PROVE CacheInv
    OBVIOUS
<1>1. cache = EmptyCache /\ recent = <<>> /\ lost = {} /\ open_fds = {}
    BY DEF Init
<1>2. DOMAIN cache.filecache_ = {}
    BY <1>1 DEF EmptyCache
<1>3. Represents(cache, recent) /\ Len(recent) <= max_size_
    BY <1>1, EmptyRepresents, MaxSizeAssumption
<1> QED
    BY <1>1, <1>2, <1>3 DEF CacheInv, OneKeyEach, Cached

\* get of a cached key moves it to the front of recent; the files stay.
LEMMA GetStep ==
    ASSUME CacheInv, NEW k \in Keys, Get(k)
    PROVE  /\ Represents(cache', recent')
           /\ Len(recent') = Len(recent)
           /\ DOMAIN cache'.filecache_ = DOMAIN cache.filecache_
           /\ SameFiles(cache, cache', DOMAIN cache.filecache_)
<1>1. Represents(cache, recent)
    BY DEF CacheInv
<1>2. CASE ~exists(cache, k)
    BY <1>1, <1>2 DEF Get, get, SameFiles
<1>3. CASE exists(cache, k)
    <2>1. \E i \in DOMAIN recent : recent[i] = k
        BY <1>1, <1>3 DEF exists, Represents
    <2> DEFINE at == CHOOSE i \in DOMAIN recent : recent[i] = k
    <2>2. at \in DOMAIN recent /\ recent[at] = k
        BY <2>1
    <2>3. Used(k) = Moved(recent, at)
        BY <2>2 DEF Used, Moved
    <2> HIDE DEF at
    <2>4. cache' = get(cache, recent[at]) /\ recent' = Moved(recent, at)
        BY <1>3, <2>2, <2>3 DEF Get
    <2>5. /\ Represents(cache', recent')
          /\ DOMAIN cache'.filecache_ = DOMAIN cache.filecache_
          /\ SameFiles(cache, cache', DOMAIN cache.filecache_)
        BY <1>1, <2>2, <2>4, GetRepresents
    <2>6. recent \in Seq(Keys) /\ recent' \in Seq(Keys) /\ DOMAIN recent' = DOMAIN recent
        BY <1>1, <2>4, <2>5 DEF Represents, Moved
    <2>7. Len(recent') = Len(recent)
        BY <2>6
    <2> QED
        BY <2>5, <2>7
<1> QED
    BY <1>2, <1>3

\* put of a key that is not cached: in front, in place of the last one when
\* the cache is full.
LEMMA PutStep ==
    ASSUME CacheInv, NEW k \in Keys, NEW f \in Files, Put(k, f)
    PROVE  /\ Represents(cache', recent') /\ Len(recent') <= max_size_
           /\ k \in DOMAIN cache'.filecache_ /\ k \notin DOMAIN cache.filecache_
           /\ FileOf(cache', k) = f
           /\ \/ /\ DOMAIN cache'.filecache_ = DOMAIN cache.filecache_ \cup {k}
                 /\ SameFiles(cache, cache', DOMAIN cache.filecache_)
                 /\ open_fds' = open_fds \cup {f}
              \/ \E old \in DOMAIN cache.filecache_ :
                    /\ Len(recent) = max_size_ /\ old = recent[max_size_]
                    /\ DOMAIN cache'.filecache_ = (DOMAIN cache.filecache_ \ {old}) \cup {k}
                    /\ SameFiles(cache, cache', DOMAIN cache.filecache_ \ {old})
                    /\ open_fds' = (open_fds \cup {f}) \ {FileOf(cache, old)}
<1>1. /\ Represents(cache, recent) /\ recent \in Seq(Keys) /\ Len(recent) \in Nat
      /\ Len(recent) <= max_size_ /\ cache.size_ = Len(recent) /\ max_size_ \in Nat \ {0}
    BY MaxSizeAssumption DEF CacheInv, Represents
<1>2. k \notin DOMAIN cache.filecache_ /\ cache' = put(cache, k, f)
    BY DEF Put, exists
<1>3. CASE cache.size_ # max_size_
    <2>1. ~Evicts(cache, k) /\ cache' = Add(cache, k, f)
        BY <1>2, <1>3 DEF Evicts, put, exists
    <2>2. recent' = <<k>> \o recent /\ open_fds' = open_fds \cup {f}
        BY <2>1 DEF Put
    <2>3. Len(recent) < max_size_
        BY <1>1, <1>3
    <2>4. /\ Represents(cache', recent')
          /\ DOMAIN cache'.filecache_ = DOMAIN cache.filecache_ \cup {k}
          /\ FileOf(cache', k) = f
          /\ SameFiles(cache, cache', DOMAIN cache.filecache_)
        BY <1>1, <1>2, <2>1, <2>2, <2>3, AddRepresents
    <2>5. Len(recent') <= max_size_
        BY <1>1, <2>2, <2>3
    <2> QED
        BY <1>2, <2>2, <2>4, <2>5
<1>4. CASE cache.size_ = max_size_
    <2> DEFINE old == recent[Len(recent)]
    <2> DEFINE c == Evict(cache)
    <2> DEFINE s == SubSeq(recent, 1, Len(recent) - 1)
    <2>1. Evicts(cache, k) /\ cache' = Add(c, k, f)
        BY <1>2, <1>4 DEF Evicts, put, exists
    <2>2. /\ recent' = <<k>> \o s
          /\ open_fds' = (open_fds \cup {f}) \ {cache.node[cache.tail_].file}
        BY <2>1 DEF Put
    <2>3. Len(recent) = max_size_ /\ Len(recent) > 0
        BY <1>1, <1>4
    <2>4. /\ cache.tail_ = cache.filecache_[old] /\ old \in DOMAIN cache.filecache_
          /\ Represents(c, s)
          /\ DOMAIN c.filecache_ = DOMAIN cache.filecache_ \ {old}
          /\ SameFiles(cache, c, DOMAIN cache.filecache_ \ {old})
        BY <1>1, <2>3, EvictRepresents
    <2>5. s \in Seq(Keys) /\ Len(s) = max_size_ - 1 /\ Len(s) < max_size_
        BY <1>1, <2>3
    <2> HIDE DEF c, s, old
    <2>6. /\ Represents(cache', recent')
          /\ DOMAIN cache'.filecache_ = DOMAIN c.filecache_ \cup {k}
          /\ FileOf(cache', k) = f
          /\ SameFiles(c, cache', DOMAIN c.filecache_)
        <3>1. Represents(c, s) /\ Len(s) < max_size_ /\ k \notin DOMAIN c.filecache_
            BY <1>2, <2>4, <2>5
        <3>2. /\ Represents(Add(c, k, f), <<k>> \o s)
              /\ DOMAIN Add(c, k, f).filecache_ = DOMAIN c.filecache_ \cup {k}
              /\ FileOf(Add(c, k, f), k) = f
              /\ SameFiles(c, Add(c, k, f), DOMAIN c.filecache_)
            BY <3>1, AddRepresents
        <3> QED
            BY <2>1, <2>2, <3>2
    <2>7. Len(recent') <= max_size_
        BY <1>1, <2>2, <2>5
    <2>8. SameFiles(cache, cache', DOMAIN cache.filecache_ \ {old})
        BY <2>4, <2>6 DEF SameFiles
    <2>9. cache.node[cache.tail_].file = FileOf(cache, old) /\ old = recent[max_size_]
        BY <2>3, <2>4 DEF FileOf, old
    <2> QED
        BY <1>2, <2>2, <2>3, <2>4, <2>6, <2>7, <2>8, <2>9
<1> QED
    BY <1>3, <1>4

LEMMA NextCache == CacheInv /\ [Next]_vars => CacheInv'
<1> SUFFICES ASSUME CacheInv, [Next]_vars PROVE CacheInv'
    OBVIOUS
<1>0. /\ OneKeyEach(cache) /\ Cached(cache) \cap lost = {}
      /\ open_fds = Cached(cache) \cup lost /\ Len(recent) <= max_size_
      /\ \A k \in DOMAIN cache.filecache_ : FileOf(cache, k) \in Cached(cache)
    BY DEF CacheInv, Cached
<1>1. ASSUME NEW k \in Keys, Get(k) PROVE CacheInv'
    <2>1. /\ Represents(cache', recent') /\ Len(recent') = Len(recent)
          /\ DOMAIN cache'.filecache_ = DOMAIN cache.filecache_
          /\ \A j \in DOMAIN cache.filecache_ : FileOf(cache', j) = FileOf(cache, j)
        BY <1>1, GetStep DEF SameFiles
    <2>2. open_fds' = open_fds /\ lost' = lost
        BY <1>1 DEF Get
    <2>3. OneKeyEach(cache') /\ Cached(cache') = Cached(cache)
        BY <1>0, <2>1 DEF OneKeyEach, Cached
    <2> QED
        BY <1>0, <2>1, <2>2, <2>3 DEF CacheInv
<1>2. ASSUME NEW k \in Keys, NEW f \in Files, Put(k, f) PROVE CacheInv'
    <2>1. lost' = lost /\ f \notin open_fds
        BY <1>2 DEF Put
    <2>2. /\ Represents(cache', recent') /\ Len(recent') <= max_size_
          /\ k \notin DOMAIN cache.filecache_ /\ FileOf(cache', k) = f
        BY <1>2, PutStep
    <2>3. \/ /\ DOMAIN cache'.filecache_ = DOMAIN cache.filecache_ \cup {k}
             /\ \A j \in DOMAIN cache.filecache_ : FileOf(cache', j) = FileOf(cache, j)
             /\ open_fds' = open_fds \cup {f}
          \/ \E old \in DOMAIN cache.filecache_ :
                /\ DOMAIN cache'.filecache_ = (DOMAIN cache.filecache_ \ {old}) \cup {k}
                /\ \A j \in DOMAIN cache.filecache_ \ {old} :
                      FileOf(cache', j) = FileOf(cache, j)
                /\ open_fds' = (open_fds \cup {f}) \ {FileOf(cache, old)}
        BY <1>2, PutStep DEF SameFiles
    <2>4. OneKeyEach(cache')
        BY <1>0, <2>1, <2>2, <2>3 DEF OneKeyEach
    <2>5. CASE /\ DOMAIN cache'.filecache_ = DOMAIN cache.filecache_ \cup {k}
               /\ \A j \in DOMAIN cache.filecache_ : FileOf(cache', j) = FileOf(cache, j)
               /\ open_fds' = open_fds \cup {f}
        <3>1. Cached(cache') = Cached(cache) \cup {f}
            BY <2>2, <2>5 DEF Cached
        <3> QED
            BY <1>0, <2>1, <2>2, <2>4, <2>5, <3>1 DEF CacheInv
    <2>6. CASE \E old \in DOMAIN cache.filecache_ :
                /\ DOMAIN cache'.filecache_ = (DOMAIN cache.filecache_ \ {old}) \cup {k}
                /\ \A j \in DOMAIN cache.filecache_ \ {old} :
                      FileOf(cache', j) = FileOf(cache, j)
                /\ open_fds' = (open_fds \cup {f}) \ {FileOf(cache, old)}
        <3>1. PICK old \in DOMAIN cache.filecache_ :
                /\ DOMAIN cache'.filecache_ = (DOMAIN cache.filecache_ \ {old}) \cup {k}
                /\ \A j \in DOMAIN cache.filecache_ \ {old} :
                      FileOf(cache', j) = FileOf(cache, j)
                /\ open_fds' = (open_fds \cup {f}) \ {FileOf(cache, old)}
            BY <2>6
        <3>2. Cached(cache') = (Cached(cache) \ {FileOf(cache, old)}) \cup {f}
            BY <1>0, <2>2, <3>1 DEF Cached, OneKeyEach
        <3>3. FileOf(cache, old) \in Cached(cache) /\ FileOf(cache, old) # f
            BY <1>0, <2>1, <3>1
        <3> QED
            BY <1>0, <2>1, <2>2, <2>4, <3>1, <3>2, <3>3 DEF CacheInv
    <2> QED
        BY <2>3, <2>5, <2>6
<1>3. ASSUME cache' = EmptyCache, recent' = <<>>, open_fds' = lost'
      PROVE  CacheInv'
    <2>1. DOMAIN cache'.filecache_ = {}
        BY <1>3 DEF EmptyCache
    <2>2. Represents(cache', recent') /\ Len(recent') <= max_size_
        BY <1>3, EmptyRepresents, MaxSizeAssumption
    <2>3. Cached(cache') = {} /\ OneKeyEach(cache')
        BY <2>1 DEF Cached, OneKeyEach
    <2> QED
        BY <1>3, <2>2, <2>3 DEF CacheInv
<1>4. CASE Destroy
    <2>1. open_fds' = lost'
        BY <1>0, <1>4 DEF Destroy, Cached
    <2> QED
        BY <1>3, <1>4, <2>1 DEF Destroy
<1>5. CASE Exit
    BY <1>3, <1>5 DEF Exit
<1>6. CASE UNCHANGED vars
    BY <1>6 DEF vars, CacheInv
<1> QED
    BY <1>1, <1>2, <1>4, <1>5, <1>6 DEF Next

LEMMA CacheInvariant == Spec => []CacheInv
<1> QED
    BY InitCache, NextCache, PTL DEF Spec

LEMMA InvList == CacheInv => ListExact
<1> SUFFICES ASSUME CacheInv PROVE ListExact
    OBVIOUS
<1> DEFINE ns == NodesOf(cache, recent)
<1> DEFINE l == Len(recent)
<1>1. Represents(cache, recent)
    BY DEF CacheInv
<1>2. /\ recent \in Seq(Keys) /\ ns \in Seq(Nodes) /\ Len(ns) = l
      /\ DOMAIN recent = 1 .. l /\ DOMAIN ns = 1 .. l /\ l \in Nat
      /\ \A i \in 1 .. l : /\ ns[i] = cache.filecache_[recent[i]]
                           /\ recent[i] \in DOMAIN cache.filecache_
      /\ \A i, j \in 1 .. l : i # j => recent[i] # recent[j] /\ ns[i] # ns[j]
      /\ DOMAIN cache.node = {ns[i] : i \in 1 .. l}
    BY <1>1, Places
<1>3. Chain(cache, ns)
    BY <1>1 DEF Represents
<1> HIDE DEF ns, l
<1>4. \A i : NodeAt(i) = At(ns, i)
    BY <1>2 DEF NodeAt, At
<1>5. \A i \in 1 .. l : NodeAt(i) = ns[i]
    BY <1>2, <1>4 DEF At
<1>6. ASSUME NEW i \in 1 .. l
      PROVE  cache.node[NodeAt(i)] = [key  |-> recent[i], file |-> cache.node[NodeAt(i)].file,
                                      prev |-> NodeAt(i - 1), next |-> NodeAt(i + 1)]
    <2> DEFINE node == cache.node[ns[i]]
    <2>1. ns[i] \in DOMAIN cache.node /\ node.key = recent[i]
        BY <1>1, <1>2 DEF Represents
    <2>2. node = [key |-> node.key, file |-> node.file, prev |-> node.prev, next |-> node.next]
        BY <1>1, <2>1 DEF Represents, Whole, Linked
    <2>3. node.prev = NodeAt(i - 1) /\ node.next = NodeAt(i + 1)
        BY <1>2, <1>3, <1>4 DEF Chain
    <2> HIDE DEF node
    <2>4. node = [key |-> recent[i], file |-> node.file,
                  prev |-> NodeAt(i - 1), next |-> NodeAt(i + 1)]
        BY <2>1, <2>2, <2>3
    <2> QED
        BY <1>5, <2>4 DEF node
<1>7. DOMAIN cache.filecache_ = {recent[i] : i \in DOMAIN recent} /\ cache.size_ = Len(recent)
    BY <1>1 DEF Represents
<1>8. cache.head_ = NodeAt(1) /\ cache.tail_ = NodeAt(Len(recent))
    BY <1>2, <1>3, <1>4 DEF Chain, l
<1>9. DOMAIN cache.node = {NodeAt(i) : i \in DOMAIN recent}
    BY <1>2, <1>5
<1>10. \A i, j \in DOMAIN recent : i # j => NodeAt(i) # NodeAt(j)
    BY <1>2, <1>5
<1> QED
    BY <1>2, <1>6, <1>7, <1>8, <1>9, <1>10 DEF ListExact

LEMMA InvFiles == CacheInv => FilesExact
<1> SUFFICES ASSUME CacheInv PROVE FilesExact
    OBVIOUS
<1> DEFINE K == DOMAIN cache.filecache_
<1> DEFINE C == Cached(cache)
<1> DEFINE l == Len(recent)
<1>1. /\ l \in Nat /\ DOMAIN recent = 1 .. l /\ K = {recent[i] : i \in 1 .. l}
      /\ recent \in Seq(Keys) /\ l <= max_size_
    BY DEF CacheInv, Represents
<1>2. IsFiniteSet(1 .. l) /\ Cardinality(1 .. l) = l
    BY <1>1, FS_Interval
<1>3. recent \in Surjection(1 .. l, K)
    <2>1. recent = [i \in 1 .. l |-> recent[i]]
        BY <1>1
    <2> QED
        BY <1>1, <2>1 DEF Surjection
<1> HIDE DEF l, K
<1>4. IsFiniteSet(K) /\ Cardinality(K) <= l
    BY <1>2, <1>3, FS_Surjection
<1> DEFINE F == [k \in K |-> FileOf(cache, k)]
<1>5. F \in Surjection(K, C) /\ F \in Injection(K, C)
    <2>1. C = {FileOf(cache, k) : k \in K}
        BY DEF Cached, K
    <2>2. \A j, k \in K : j # k => FileOf(cache, j) # FileOf(cache, k)
        BY DEF CacheInv, OneKeyEach, K
    <2>3. F \in [K -> C] /\ \A k \in K : F[k] = FileOf(cache, k)
        BY <2>1
    <2> HIDE DEF C, F
    <2>4. \A x \in C : \E k \in K : F[k] = x
        BY <2>1, <2>3
    <2>5. \A j, k \in K : F[j] = F[k] => j = k
        BY <2>2, <2>3
    <2> QED
        BY <2>3, <2>4, <2>5 DEF Surjection, Injection, IsInjective
<1> HIDE DEF F
<1>6. Cardinality(C) = Cardinality(K)
    BY <1>4, <1>5, FS_Surjection
<1>7. Cardinality(K) \in Nat
    BY <1>4, FS_CardinalityType
<1>8. Cardinality(C) <= max_size_
    BY <1>1, <1>4, <1>6, <1>7, MaxSizeAssumption
<1> QED
    BY <1>6, <1>8 DEF FilesExact, CacheInv, Cached, K

\* The list, the map and the counter always agree with the use order
\* (insert_node, delete_node, get and put in filecache.cpp).
THEOREM ListAlwaysExact == Spec => []ListExact
<1> QED
    BY CacheInvariant, InvList, PTL

\* The open files are always the cached ones and those a destroyed cache
\* left behind, never more than max_size_ of them cached (FileCache::put
\* closes the file it evicts).
THEOREM FilesAlwaysExact == Spec => []FilesExact
<1> QED
    BY CacheInvariant, InvFiles, PTL

\* A file leaves a live cache only as the least recently used one of a full
\* cache (FileCache::put evicts tail_).
THEOREM OldestEvicted == Spec => EvictsOldest
<1> DEFINE Kept ==
        \A i \in DOMAIN recent :
            \/ recent' = <<>>
            \/ recent[i] \in DOMAIN cache'.filecache_
                 /\ FileOf(cache', recent[i]) = FileOf(cache, recent[i])
            \/ i = max_size_
<1>1. CacheInv /\ [Next]_vars => [Kept]_vars
    <2> SUFFICES ASSUME CacheInv, Next PROVE Kept
        OBVIOUS
    <2>1. /\ DOMAIN recent = 1 .. Len(recent)
          /\ \A i \in 1 .. Len(recent) : recent[i] \in DOMAIN cache.filecache_
          /\ \A i, j \in 1 .. Len(recent) : i # j => recent[i] # recent[j]
        BY Places DEF CacheInv
    <2>2. ASSUME NEW k \in Keys, Get(k) PROVE Kept
        BY <2>1, <2>2, GetStep DEF SameFiles
    <2>3. ASSUME NEW k \in Keys, NEW f \in Files, Put(k, f) PROVE Kept
        <3>1. \/ SameFiles(cache, cache', DOMAIN cache.filecache_)
              \/ /\ SameFiles(cache, cache', DOMAIN cache.filecache_ \ {recent[max_size_]})
                 /\ Len(recent) = max_size_
            BY <2>3, PutStep
        <3>2. ASSUME NEW i \in DOMAIN recent, i # max_size_, Len(recent) = max_size_
              PROVE  recent[i] # recent[max_size_]
            BY <2>1, <3>2, MaxSizeAssumption
        <3> QED
            BY <2>1, <3>1, <3>2 DEF SameFiles
    <2>4. CASE Destroy \/ Exit
        BY <2>4 DEF Destroy, Exit
    <2> QED
        BY <2>2, <2>3, <2>4 DEF Next
<1> QED
    BY <1>1, CacheInvariant, PTL DEF Spec, EvictsOldest
=============================================================================
