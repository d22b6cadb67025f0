---------------------------- MODULE FileCacheLemmas ----------------------------
(***************************************************************************)
(* What the operators of FileCache do to a cache that holds the keys of a  *)
(* sequence, the last used one first: any keys, files, heap and size.      *)
(***************************************************************************)
EXTENDS FileCache, Sequences, TLAPS, FiniteSetTheorems

\* The i-th node of a list, nullptr past either end; the list without its
\* i-th node, and with one more in front.
At(ns, i)   == IF i \in DOMAIN ns THEN ns[i] ELSE NoNode
Cut(ns, i)  == [j \in 1 .. Len(ns) - 1 |-> IF j < i THEN ns[j] ELSE ns[j + 1]]
InFront(n, ns) == [j \in 1 .. Len(ns) + 1 |-> IF j = 1 THEN n ELSE ns[j - 1]]

\* The list from head_ along next and from tail_ along prev is ns, whatever
\* the map says.
Chain(c, ns) ==
    /\ ns \in Seq(Nodes)
    /\ \A i, j \in DOMAIN ns : i # j => ns[i] # ns[j]
    /\ \A i \in DOMAIN ns : ns[i] \in DOMAIN c.node
    /\ c.head_ = At(ns, 1)
    /\ c.tail_ = At(ns, Len(ns))
    /\ \A i \in DOMAIN ns : /\ c.node[ns[i]].prev = At(ns, i - 1)
                            /\ c.node[ns[i]].next = At(ns, i + 1)

\* From c to d no node moves, comes or goes, and none changes its key or file.
SameNodes(c, d) ==
    /\ DOMAIN d.node = DOMAIN c.node
    /\ \A m \in DOMAIN c.node : /\ d.node[m].key = c.node[m].key
                                /\ d.node[m].file = c.node[m].file

LEMMA CutFacts ==
    ASSUME NEW ns \in Seq(Nodes), NEW i \in DOMAIN ns
    PROVE  /\ Cut(ns, i) \in Seq(Nodes) /\ Len(Cut(ns, i)) = Len(ns) - 1
           /\ DOMAIN Cut(ns, i) = 1 .. Len(ns) - 1
           /\ DOMAIN ns = 1 .. Len(ns) /\ Len(ns) \in Nat /\ i \in 1 .. Len(ns)
           /\ \A j \in 1 .. Len(ns) - 1 :
                  Cut(ns, i)[j] = IF j < i THEN ns[j] ELSE ns[j + 1]
<1>1. DOMAIN ns = 1 .. Len(ns) /\ Len(ns) \in Nat /\ i \in 1 .. Len(ns)
    OBVIOUS
<1>2. \A j \in 1 .. Len(ns) - 1 : ns[j] \in Nodes /\ ns[j + 1] \in Nodes
    BY <1>1
<1>3. Len(ns) - 1 \in Nat
    BY <1>1
<1> QED
    BY <1>1, <1>2, <1>3 DEF Cut

LEMMA InFrontFacts ==
    ASSUME NEW ns \in Seq(Nodes), NEW n \in Nodes
    PROVE  /\ InFront(n, ns) \in Seq(Nodes) /\ Len(InFront(n, ns)) = Len(ns) + 1
           /\ DOMAIN InFront(n, ns) = 1 .. Len(ns) + 1
           /\ DOMAIN ns = 1 .. Len(ns) /\ Len(ns) \in Nat
           /\ InFront(n, ns)[1] = n
           /\ \A j \in 1 .. Len(ns) : InFront(n, ns)[j + 1] = ns[j]
<1>1. DOMAIN ns = 1 .. Len(ns) /\ Len(ns) \in Nat
    OBVIOUS
<1>2. \A j \in 1 .. Len(ns) + 1 : j # 1 => ns[j - 1] \in Nodes
    BY <1>1
<1> QED
    BY <1>1, <1>2 DEF InFront

\* insert_node puts a node that is not in the list in front of it.
LEMMA InsertChain ==
    ASSUME NEW c, NEW ns, Chain(c, ns), NEW n \in Nodes, n \in DOMAIN c.node,
           \A i \in DOMAIN ns : ns[i] # n
    PROVE  /\ Chain(insert_node(c, n), InFront(n, ns))
           /\ SameNodes(c, insert_node(c, n))
           /\ insert_node(c, n).filecache_ = c.filecache_
           /\ insert_node(c, n).size_ = c.size_
<1> DEFINE d == insert_node(c, n)
<1> DEFINE q == InFront(n, ns)
<1> DEFINE l == Len(ns)
<1>0. ns \in Seq(Nodes) /\ NoNode \notin Nodes
    BY NoNodeAssumption DEF Chain
<1>1. /\ q \in Seq(Nodes) /\ Len(q) = l + 1 /\ DOMAIN q = 1 .. l + 1
      /\ DOMAIN ns = 1 .. l /\ l \in Nat /\ q[1] = n
      /\ \A j \in 1 .. l : q[j + 1] = ns[j]
    BY <1>0, InFrontFacts
<1>2. /\ DOMAIN d.node = DOMAIN c.node /\ d.filecache_ = c.filecache_
      /\ d.size_ = c.size_ /\ d.head_ = n
      /\ d.tail_ = IF c.head_ = NoNode THEN n ELSE c.tail_
      /\ \A m \in DOMAIN c.node :
            /\ d.node[m].key = c.node[m].key /\ d.node[m].file = c.node[m].file
            /\ d.node[m].prev = IF m = n THEN NoNode
                                ELSE IF m = c.head_ THEN n ELSE c.node[m].prev
            /\ d.node[m].next = IF m = n THEN c.head_ ELSE c.node[m].next
    BY DEF insert_node, Linked
<1> HIDE DEF d, q, l
<1>3. SameNodes(c, d)
    BY <1>2 DEF SameNodes
<1>4. c.head_ = At(ns, 1) /\ c.tail_ = At(ns, l)
    BY DEF Chain, l
<1>5. /\ \A j \in DOMAIN q : q[j] \in DOMAIN c.node
      /\ \A i, j \in DOMAIN q : i # j => q[i] # q[j]
    <2>1. \A j \in DOMAIN q : j = 1 \/ (j - 1 \in 1 .. l /\ q[j] = ns[j - 1])
        BY <1>1
    <2>2. ASSUME NEW i \in DOMAIN q, NEW j \in DOMAIN q, i # j PROVE q[i] # q[j]
        <3>1. CASE i = 1 \/ j = 1
            BY <1>1, <2>1, <2>2, <3>1
        <3>2. CASE i # 1 /\ j # 1
            <4>1. i - 1 # j - 1
                BY <1>1, <2>2
            <4> QED
                BY <1>1, <2>1, <3>2, <4>1 DEF Chain
        <3> QED
            BY <3>1, <3>2
    <2> QED
        BY <1>1, <2>1, <2>2 DEF Chain
<1>6. d.head_ = At(q, 1)
    BY <1>1, <1>2 DEF At
<1>7. d.tail_ = At(q, Len(q))
    <2>1. CASE l = 0
        BY <1>1, <1>2, <1>4, <2>1 DEF At
    <2>2. CASE l # 0
        <3>1. l \in 1 .. l /\ 1 \in 1 .. l /\ q[l + 1] = ns[l]
            BY <1>1, <2>2
        <3>2. c.head_ # NoNode /\ c.tail_ = ns[l]
            BY <1>0, <1>1, <1>4, <3>1 DEF At
        <3> QED
            BY <1>1, <1>2, <3>1, <3>2 DEF At
    <2> QED
        BY <2>1, <2>2
<1>8. ASSUME NEW i \in DOMAIN q
      PROVE  d.node[q[i]].prev = At(q, i - 1) /\ d.node[q[i]].next = At(q, i + 1)
    <2>1. CASE i = 1
        <3>1. d.node[n].prev = NoNode /\ d.node[n].next = c.head_
            BY <1>2
        <3>2. At(q, 0) = NoNode /\ At(q, 2) = At(ns, 1)
            <4>1. CASE l = 0
                BY <1>1, <4>1 DEF At
            <4>2. CASE l # 0
                BY <1>1, <4>2 DEF At
            <4> QED
                BY <4>1, <4>2
        <3> QED
            BY <1>1, <1>4, <2>1, <3>1, <3>2
    <2>2. CASE i # 1
        <3> DEFINE j == i - 1
        <3>1. j \in 1 .. l /\ i = j + 1 /\ q[i] = ns[j] /\ ns[j] # n /\ ns[j] \in DOMAIN c.node
            BY <1>1, <2>2 DEF Chain
        <3> HIDE DEF j
        <3>2. d.node[ns[j]].next = At(ns, j + 1)
            BY <1>1, <1>2, <3>1 DEF Chain
        <3>3. At(q, i + 1) = At(ns, j + 1)
            <4>1. CASE j = l
                BY <1>1, <3>1, <4>1 DEF At
            <4>2. CASE j # l
                <5>1. j + 1 \in 1 .. l /\ i + 1 \in 1 .. l + 1 /\ i + 1 = (j + 1) + 1
                    BY <1>1, <3>1, <4>2
                <5> QED
                    BY <1>1, <5>1 DEF At
            <4> QED
                BY <4>1, <4>2
        <3>4. d.node[ns[j]].prev = At(q, j)
            <4>1. CASE j = 1
                <5>1. c.head_ = ns[1]
                    BY <1>1, <1>4, <3>1, <4>1 DEF At
                <5> QED
                    BY <1>1, <1>2, <3>1, <4>1, <5>1 DEF At
            <4>2. CASE j # 1
                <5>1. 1 \in 1 .. l /\ j - 1 \in 1 .. l /\ ns[j] # ns[1] /\ c.head_ = ns[1]
                    <6>1. 1 \in 1 .. l /\ j - 1 \in 1 .. l
                        BY <1>1, <3>1, <4>2
                    <6>2. ns[j] # ns[1]
                        BY <1>1, <3>1, <4>2, <6>1 DEF Chain
                    <6> QED
                        BY <1>1, <1>4, <6>1, <6>2 DEF At
                <5>2. d.node[ns[j]].prev = At(ns, j - 1)
                    BY <1>1, <1>2, <3>1, <5>1 DEF Chain
                <5>3. At(q, j) = ns[j - 1] /\ At(ns, j - 1) = ns[j - 1]
                    <6>1. j = (j - 1) + 1 /\ j \in 1 .. l + 1
                        BY <1>1, <3>1
                    <6> QED
                        BY <1>1, <5>1, <6>1 DEF At
                <5> QED
                    BY <5>2, <5>3
            <4> QED
                BY <4>1, <4>2
        <3>5. i - 1 = j
            BY <1>1, <3>1
        <3> QED
            BY <3>1, <3>2, <3>3, <3>4, <3>5
    <2> QED
        BY <2>1, <2>2
<1>9. Chain(d, q)
    BY <1>1, <1>2, <1>5, <1>6, <1>7, <1>8 DEF Chain
<1> QED
    BY <1>2, <1>3, <1>9 DEF d, q

LEMMA AtFacts ==
    ASSUME NEW c, NEW ns, Chain(c, ns), NEW i \in DOMAIN ns
    PROVE  /\ \A k \in Int : At(ns, k) = ns[i] <=> k = i
           /\ \A j \in Int : At(Cut(ns, i), j) = IF j < i THEN At(ns, j) ELSE At(ns, j + 1)
<1>0. ns \in Seq(Nodes) /\ NoNode \notin Nodes
    BY NoNodeAssumption DEF Chain
<1>1. /\ DOMAIN Cut(ns, i) = 1 .. Len(ns) - 1
      /\ DOMAIN ns = 1 .. Len(ns) /\ Len(ns) \in Nat /\ i \in 1 .. Len(ns)
      /\ \A j \in 1 .. Len(ns) - 1 :
             Cut(ns, i)[j] = IF j < i THEN ns[j] ELSE ns[j + 1]
    BY <1>0, CutFacts
<1>2. ASSUME NEW k \in Int PROVE At(ns, k) = ns[i] <=> k = i
    <2>1. CASE k \in DOMAIN ns
        BY <2>1 DEF At, Chain
    <2>2. CASE k \notin DOMAIN ns
        <3>1. ns[i] \in Nodes /\ At(ns, k) = NoNode
            BY <1>0, <2>2 DEF At
        <3> QED
            BY <1>0, <2>2, <3>1
    <2> QED
        BY <2>1, <2>2
<1>3. ASSUME NEW j \in Int
      PROVE  At(Cut(ns, i), j) = IF j < i THEN At(ns, j) ELSE At(ns, j + 1)
    <2>1. CASE j \in 1 .. Len(ns) - 1
        <3>1. j \in 1 .. Len(ns) /\ j + 1 \in 1 .. Len(ns)
            BY <1>1, <2>1
        <3> QED
            BY <1>1, <2>1, <3>1 DEF At
    <2>2. CASE j \notin 1 .. Len(ns) - 1
        <3>1. (j < i => j \notin 1 .. Len(ns)) /\ (~(j < i) => j + 1 \notin 1 .. Len(ns))
            BY <1>1, <2>2
        <3> QED
            BY <1>1, <2>2, <3>1 DEF At
    <2> QED
        BY <2>1, <2>2
<1> QED
    BY <1>2, <1>3

\* delete_node takes the key's node out of the list, first, last or between.
LEMMA DeleteChain ==
    ASSUME NEW c, NEW ns, Chain(c, ns), NEW i \in DOMAIN ns,
           NEW key \in DOMAIN c.filecache_, c.filecache_[key] = ns[i]
    PROVE  /\ Chain(delete_node(c, key), Cut(ns, i))
           /\ SameNodes(c, delete_node(c, key))
           /\ delete_node(c, key).filecache_ =
                  Restrict(c.filecache_, DOMAIN c.filecache_ \ {key})
           /\ delete_node(c, key).size_ = c.size_
<1> DEFINE d == delete_node(c, key)
<1> DEFINE r == Cut(ns, i)
<1> DEFINE l == Len(ns)
<1> DEFINE p == At(ns, i - 1)
<1> DEFINE x == At(ns, i + 1)
<1>0. ns \in Seq(Nodes) /\ NoNode \notin Nodes
    BY NoNodeAssumption DEF Chain
<1>1. /\ r \in Seq(Nodes) /\ Len(r) = l - 1 /\ DOMAIN r = 1 .. l - 1
      /\ DOMAIN ns = 1 .. l /\ l \in Nat /\ i \in 1 .. l
      /\ \A j \in 1 .. l - 1 : r[j] = IF j < i THEN ns[j] ELSE ns[j + 1]
    BY <1>0, CutFacts
<1>2. /\ c.node[ns[i]].prev = p /\ c.node[ns[i]].next = x
    BY DEF Chain
<1>3. /\ DOMAIN d.node = DOMAIN c.node /\ d.size_ = c.size_
      /\ d.filecache_ = Restrict(c.filecache_, DOMAIN c.filecache_ \ {key})
      /\ d.head_ = IF c.head_ = ns[i] THEN x ELSE c.head_
      /\ d.tail_ = IF c.tail_ = ns[i] THEN p ELSE c.tail_
      /\ \A m \in DOMAIN c.node :
            /\ d.node[m].key = c.node[m].key /\ d.node[m].file = c.node[m].file
            /\ d.node[m].prev = IF m = x THEN p ELSE c.node[m].prev
            /\ d.node[m].next = IF m = p THEN x ELSE c.node[m].next
    BY <1>2 DEF delete_node, Linked
<1>4. /\ \A k \in DOMAIN ns : \A j \in Int : At(ns, j) = ns[k] <=> j = k
      /\ \A j \in Int : At(r, j) = IF j < i THEN At(ns, j) ELSE At(ns, j + 1)
    BY AtFacts
<1> HIDE DEF d, r, l, p, x
<1>n. l \in Nat /\ i \in 1 .. l
    BY <1>1
<1>m. \A j \in Int : At(ns, j) = ns[i] <=> j = i
    BY <1>4
<1>5. SameNodes(c, d)
    BY <1>3 DEF SameNodes
<1>6. d.head_ = At(r, 1)
    <2>1. c.head_ = At(ns, 1) /\ At(r, 1) = IF 1 < i THEN At(ns, 1) ELSE At(ns, 2)
        BY <1>4 DEF Chain
    <2>2. c.head_ = ns[i] <=> i = 1
        <3>1. At(ns, 1) = ns[i] <=> 1 = i
            BY <1>m
        <3> QED
            BY <2>1, <3>1
    <2>3. i = 1 => x = At(ns, 2)
        BY DEF x
    <2> QED
        BY <1>n, <1>3, <2>1, <2>2, <2>3
<1>7. d.tail_ = At(r, Len(r))
    <2>1. c.tail_ = At(ns, l)
        BY DEF Chain, l
    <2>2. At(r, l - 1) = IF l - 1 < i THEN At(ns, l - 1) ELSE At(ns, l)
        <3>1. l - 1 \in Int /\ (l - 1) + 1 = l
            BY <1>n
        <3>2. At(r, l - 1) = IF l - 1 < i THEN At(ns, l - 1) ELSE At(ns, (l - 1) + 1)
            BY <1>4, <3>1
        <3> QED
            BY <3>1, <3>2
    <2>3. c.tail_ = ns[i] <=> i = l
        <3>1. l \in Int
            BY <1>n
        <3>2. At(ns, l) = ns[i] <=> l = i
            BY <1>m, <3>1
        <3> QED
            BY <2>1, <3>2
    <2>4. i = l => p = At(ns, l - 1)
        BY DEF p
    <2> QED
        BY <1>1, <1>3, <2>1, <2>2, <2>3, <2>4
<1>8. ASSUME NEW j \in DOMAIN r
      PROVE  d.node[r[j]].prev = At(r, j - 1) /\ d.node[r[j]].next = At(r, j + 1)
    <2>0. /\ i \in Int /\ i - 1 \in Int /\ i + 1 \in Int
          /\ j \in Int /\ j - 1 \in Int /\ j + 1 \in Int
        BY <1>1
    <2>1. CASE j < i
        <3>1. j \in DOMAIN ns /\ r[j] = ns[j] /\ ns[j] \in DOMAIN c.node
            BY <1>1, <2>1 DEF Chain
        <3>2. ns[j] # x /\ (ns[j] = p <=> j = i - 1)
            <4>1. /\ At(ns, i + 1) = ns[j] <=> i + 1 = j
                  /\ At(ns, i - 1) = ns[j] <=> i - 1 = j
                BY <1>4, <2>0, <3>1
            <4> QED
                BY <2>0, <2>1, <4>1 DEF x, p
        <3>3. /\ At(r, j - 1) = At(ns, j - 1)
              /\ At(r, j + 1) = IF j + 1 < i THEN At(ns, j + 1) ELSE At(ns, (j + 1) + 1)
            <4>1. /\ At(r, j - 1) = IF j - 1 < i THEN At(ns, j - 1) ELSE At(ns, (j - 1) + 1)
                  /\ At(r, j + 1) = IF j + 1 < i THEN At(ns, j + 1) ELSE At(ns, (j + 1) + 1)
                BY <1>4, <2>0
            <4> QED
                BY <2>0, <2>1, <4>1
        <3>4. d.node[ns[j]].prev = At(ns, j - 1)
            BY <1>3, <3>1, <3>2 DEF Chain
        <3>5. CASE j = i - 1
            <4>1. d.node[ns[j]].next = x
                BY <1>3, <3>1, <3>2, <3>5
            <4>2. At(r, j + 1) = At(ns, i + 1)
                BY <1>1, <3>3, <3>5
            <4> QED
                BY <3>1, <3>3, <3>4, <4>1, <4>2 DEF x
        <3>6. CASE j # i - 1
            <4>1. d.node[ns[j]].next = At(ns, j + 1)
                BY <1>3, <3>1, <3>2, <3>6 DEF Chain
            <4>2. j + 1 < i
                BY <2>0, <2>1, <3>6
            <4> QED
                BY <3>1, <3>3, <3>4, <4>1, <4>2
        <3> QED
            BY <3>5, <3>6
    <2>2. CASE ~(j < i)
        <3>1. j + 1 \in DOMAIN ns /\ r[j] = ns[j + 1] /\ ns[j + 1] \in DOMAIN c.node
            BY <1>1, <2>2 DEF Chain
        <3>2. ns[j + 1] # p /\ (ns[j + 1] = x <=> j = i)
            <4>1. /\ At(ns, i + 1) = ns[j + 1] <=> i + 1 = j + 1
                  /\ At(ns, i - 1) = ns[j + 1] <=> i - 1 = j + 1
                BY <1>4, <2>0, <3>1
            <4> QED
                BY <2>0, <2>2, <4>1 DEF x, p
        <3>3. /\ At(r, j - 1) = IF j - 1 < i THEN At(ns, j - 1) ELSE At(ns, (j - 1) + 1)
              /\ At(r, j + 1) = At(ns, (j + 1) + 1)
            <4>1. /\ At(r, j - 1) = IF j - 1 < i THEN At(ns, j - 1) ELSE At(ns, (j - 1) + 1)
                  /\ At(r, j + 1) = IF j + 1 < i THEN At(ns, j + 1) ELSE At(ns, (j + 1) + 1)
                BY <1>4, <2>0
            <4> QED
                BY <2>0, <2>2, <4>1
        <3>4. d.node[ns[j + 1]].next = At(ns, (j + 1) + 1)
            BY <1>3, <3>1, <3>2 DEF Chain
        <3>5. CASE j = i
            <4>1. d.node[ns[j + 1]].prev = p
                BY <1>3, <3>1, <3>2, <3>5
            <4>2. At(r, j - 1) = At(ns, i - 1)
                BY <2>0, <3>3, <3>5
            <4> QED
                BY <3>1, <3>3, <3>4, <4>1, <4>2 DEF p
        <3>6. CASE j # i
            <4>1. d.node[ns[j + 1]].prev = At(ns, (j + 1) - 1)
                BY <1>3, <3>1, <3>2, <3>6 DEF Chain
            <4>2. ~(j - 1 < i) /\ (j - 1) + 1 = j /\ (j + 1) - 1 = j
                BY <2>0, <2>2, <3>6
            <4> QED
                BY <3>1, <3>3, <3>4, <4>1, <4>2
        <3> QED
            BY <3>5, <3>6
    <2> QED
        BY <2>1, <2>2
<1>9. /\ \A j \in DOMAIN r : r[j] \in DOMAIN d.node
      /\ \A j, k \in DOMAIN r : j # k => r[j] # r[k]
    <2> DEFINE up(j) == IF j < i THEN j ELSE j + 1
    <2>1. \A j \in DOMAIN r : up(j) \in DOMAIN ns /\ r[j] = ns[up(j)]
        BY <1>1
    <2>2. \A j, k \in DOMAIN r : j # k => up(j) # up(k)
        BY <1>1
    <2> HIDE DEF up
    <2> QED
        BY <1>3, <2>1, <2>2 DEF Chain
<1>10. Chain(d, r)
    BY <1>1, <1>6, <1>7, <1>8, <1>9 DEF Chain
<1> QED
    BY <1>3, <1>5, <1>10 DEF d, r
-----------------------------------------------------------------------------
(***************************************************************************)
(* A cache and the keys it holds, the last used one first.                 *)
(***************************************************************************)
NodesOf(c, s) == [i \in DOMAIN s |-> c.filecache_[s[i]]]

\* The record of a node has the fields of FileNode and no more.
Whole(node) == node = Linked(node, node.prev, node.next)

Represents(c, s) ==
    /\ s \in Seq(Keys)
    /\ DOMAIN c.filecache_ = {s[i] : i \in DOMAIN s}
    /\ Chain(c, NodesOf(c, s))
    /\ DOMAIN c.node = {c.filecache_[k] : k \in DOMAIN c.filecache_}
    /\ c.size_ = Len(s)
    /\ \A k \in DOMAIN c.filecache_ : c.node[c.filecache_[k]].key = k
    /\ \A m \in DOMAIN c.node : Whole(c.node[m])

\* d has the files of c for the keys in S.
SameFiles(c, d, S) == \A k \in S : k \in DOMAIN d.filecache_ /\ FileOf(d, k) = FileOf(c, k)

LEMMA EmptyRepresents == Represents(EmptyCache, <<>>)
<1>1. /\ DOMAIN EmptyCache.filecache_ = {} /\ DOMAIN EmptyCache.node = {}
      /\ EmptyCache.head_ = NoNode /\ EmptyCache.tail_ = NoNode /\ EmptyCache.size_ = 0
    BY DEF EmptyCache
<1>2. NodesOf(EmptyCache, <<>>) = <<>>
    BY DEF NodesOf
<1>3. Chain(EmptyCache, <<>>)
    BY <1>1 DEF Chain, At
<1> QED
    BY <1>1, <1>2, <1>3 DEF Represents

\* The places of the keys and of their nodes.
LEMMA Places ==
    ASSUME NEW c, NEW s, Represents(c, s)
    PROVE  LET ns == NodesOf(c, s)
           IN  /\ s \in Seq(Keys) /\ ns \in Seq(Nodes) /\ Len(ns) = Len(s)
               /\ DOMAIN s = 1 .. Len(s) /\ DOMAIN ns = 1 .. Len(s) /\ Len(s) \in Nat
               /\ \A i \in 1 .. Len(s) : /\ ns[i] = c.filecache_[s[i]]
                                         /\ s[i] \in DOMAIN c.filecache_
               /\ \A i, j \in 1 .. Len(s) : i # j => s[i] # s[j] /\ ns[i] # ns[j]
               /\ DOMAIN c.node = {ns[i] : i \in 1 .. Len(s)}
               /\ \A k \in DOMAIN c.filecache_ : \E i \in 1 .. Len(s) : s[i] = k
<1> DEFINE ns == NodesOf(c, s)
<1>1. s \in Seq(Keys) /\ DOMAIN s = 1 .. Len(s) /\ Len(s) \in Nat
    BY DEF Represents
<1>2. /\ DOMAIN ns = 1 .. Len(s)
      /\ \A i \in 1 .. Len(s) : /\ ns[i] = c.filecache_[s[i]]
                                /\ s[i] \in DOMAIN c.filecache_
      /\ \A k \in DOMAIN c.filecache_ : \E i \in 1 .. Len(s) : s[i] = k
    BY <1>1 DEF NodesOf, Represents
<1>3. ns \in Seq(Nodes) /\ \A i, j \in DOMAIN ns : i # j => ns[i] # ns[j]
    BY DEF Represents, Chain
<1> HIDE DEF ns
<1>4. Len(ns) = Len(s)
    BY <1>1, <1>2, <1>3
<1>5. DOMAIN c.node = {ns[i] : i \in 1 .. Len(s)}
    <2>1. DOMAIN c.node = {c.filecache_[k] : k \in DOMAIN c.filecache_}
        BY DEF Represents
    <2>2. ASSUME NEW m \in DOMAIN c.node PROVE \E i \in 1 .. Len(s) : m = ns[i]
        BY <1>2, <2>1
    <2>3. ASSUME NEW i \in 1 .. Len(s) PROVE ns[i] \in DOMAIN c.node
        BY <1>2, <2>1
    <2> QED
        BY <2>2, <2>3
<1>6. \A i, j \in 1 .. Len(s) : i # j => s[i] # s[j] /\ ns[i] # ns[j]
    BY <1>2, <1>3
<1> QED
    BY <1>1, <1>2, <1>3, <1>4, <1>5, <1>6 DEF ns

\* delete_node of the i-th key.
LEMMA DeleteAt ==
    ASSUME NEW c, NEW s, Represents(c, s), NEW i \in DOMAIN s
    PROVE  /\ Chain(delete_node(c, s[i]), Cut(NodesOf(c, s), i))
           /\ SameNodes(c, delete_node(c, s[i]))
           /\ delete_node(c, s[i]).filecache_ =
                  Restrict(c.filecache_, DOMAIN c.filecache_ \ {s[i]})
           /\ delete_node(c, s[i]).size_ = c.size_
<1> DEFINE k == s[i]
<1> DEFINE ns == NodesOf(c, s)
<1>1. /\ DOMAIN s = 1 .. Len(s) /\ DOMAIN ns = 1 .. Len(s)
      /\ \A j \in 1 .. Len(s) : ns[j] = c.filecache_[s[j]] /\ s[j] \in DOMAIN c.filecache_
    BY Places
<1>2. k \in DOMAIN c.filecache_ /\ c.filecache_[k] = ns[i] /\ Chain(c, ns) /\ i \in DOMAIN ns
    BY <1>1 DEF Represents
<1> HIDE DEF k, ns
<1>3. /\ Chain(delete_node(c, k), Cut(ns, i)) /\ SameNodes(c, delete_node(c, k))
      /\ delete_node(c, k).filecache_ = Restrict(c.filecache_, DOMAIN c.filecache_ \ {k})
      /\ delete_node(c, k).size_ = c.size_
    BY <1>2, DeleteChain
<1> QED
    BY <1>3 DEF k, ns

\* What delete_node leaves of the nodes' records, and insert_node.
LEMMA StillWhole ==
    ASSUME NEW c, \A m \in DOMAIN c.node : Whole(c.node[m])
    PROVE  /\ \A n : \A m \in DOMAIN insert_node(c, n).node : Whole(insert_node(c, n).node[m])
           /\ \A k : \A m \in DOMAIN delete_node(c, k).node : Whole(delete_node(c, k).node[m])
<1>1. ASSUME NEW n, NEW m \in DOMAIN insert_node(c, n).node
      PROVE  Whole(insert_node(c, n).node[m])
    <2>1. m \in DOMAIN c.node
        BY <1>1 DEF insert_node
    <2>2. \/ insert_node(c, n).node[m] = c.node[m]
          \/ \E p, x : insert_node(c, n).node[m] = Linked(c.node[m], p, x)
        BY <2>1 DEF insert_node
    <2> QED
        BY <2>1, <2>2 DEF Whole, Linked
<1>2. ASSUME NEW k, NEW m \in DOMAIN delete_node(c, k).node
      PROVE  Whole(delete_node(c, k).node[m])
    <2>1. m \in DOMAIN c.node
        BY <1>2 DEF delete_node
    <2>2. \/ delete_node(c, k).node[m] = c.node[m]
          \/ \E p, x : delete_node(c, k).node[m] = Linked(c.node[m], p, x)
        BY <2>1 DEF delete_node
    <2> QED
        BY <2>1, <2>2 DEF Whole, Linked
<1> QED
    BY <1>1, <1>2

Moved(s, i) == [j \in DOMAIN s |-> IF j = 1 THEN s[i]
                                   ELSE IF j <= i THEN s[j - 1] ELSE s[j]]

\* get of the i-th key
LEMMA GetRepresents ==
    ASSUME NEW c, NEW s, Represents(c, s), NEW i \in DOMAIN s
    PROVE  /\ Represents(get(c, s[i]), Moved(s, i))
           /\ DOMAIN get(c, s[i]).filecache_ = DOMAIN c.filecache_
           /\ SameFiles(c, get(c, s[i]), DOMAIN c.filecache_)
<1> DEFINE k == s[i]
<1> DEFINE ns == NodesOf(c, s)
<1> DEFINE n == ns[i]
<1> DEFINE l == Len(s)
<1>1. /\ s \in Seq(Keys) /\ ns \in Seq(Nodes) /\ Len(ns) = l
      /\ DOMAIN s = 1 .. l /\ DOMAIN ns = 1 .. l /\ l \in Nat /\ i \in 1 .. l
      /\ \A j \in 1 .. l : ns[j] = c.filecache_[s[j]] /\ s[j] \in DOMAIN c.filecache_
      /\ \A h, j \in 1 .. l : h # j => s[h] # s[j] /\ ns[h] # ns[j]
      /\ DOMAIN c.node = {ns[j] : j \in 1 .. l}
    BY Places
<1>2. /\ k \in DOMAIN c.filecache_ /\ c.filecache_[k] = n /\ n \in Nodes /\ Chain(c, ns)
      /\ i \in DOMAIN ns
    BY <1>1 DEF Represents
<1> DEFINE d == delete_node(c, k)
<1> DEFINE r == Cut(ns, i)
<1> HIDE DEF n, k, ns, l
<1>3. /\ Chain(d, r) /\ SameNodes(c, d) /\ d.size_ = c.size_
      /\ d.filecache_ = Restrict(c.filecache_, DOMAIN c.filecache_ \ {k})
    BY DeleteAt DEF k, ns
<1>4. /\ r \in Seq(Nodes) /\ Len(r) = l - 1 /\ DOMAIN r = 1 .. l - 1
      /\ \A j \in 1 .. l - 1 : r[j] = IF j < i THEN ns[j] ELSE ns[j + 1]
    <2>1. ns \in Seq(Nodes) /\ Len(ns) = l
        BY <1>1
    <2> QED
        BY <1>2, <2>1, CutFacts
<1> DEFINE e == insert_node(d, n)
<1> DEFINE q == InFront(n, r)
<1> HIDE DEF d, r
<1>5. /\ Chain(e, q) /\ SameNodes(d, e) /\ e.size_ = d.size_
      /\ e.filecache_ = d.filecache_
    <2>1. n \in DOMAIN d.node
        BY <1>1, <1>3 DEF SameNodes, n
    <2>2. \A j \in DOMAIN r : r[j] # n
        <3>1. ASSUME NEW j \in 1 .. l - 1 PROVE r[j] # n
            <4>1. j \in 1 .. l /\ j + 1 \in 1 .. l
                BY <1>1
            <4> QED
                BY <1>1, <1>4, <4>1 DEF n
        <3> QED
            BY <1>4, <3>1
    <2> QED
        BY <1>2, <1>3, <2>1, <2>2, InsertChain
<1>6. /\ q \in Seq(Nodes) /\ Len(q) = l /\ q[1] = n
      /\ \A j \in 1 .. l - 1 : q[j + 1] = r[j]
    <2>1. /\ q \in Seq(Nodes) /\ Len(q) = Len(r) + 1 /\ q[1] = n
          /\ \A j \in 1 .. Len(r) : q[j + 1] = r[j]
        BY <1>2, <1>4, InFrontFacts
    <2> HIDE DEF q
    <2> QED
        BY <1>1, <1>4, <2>1
<1> HIDE DEF q
<1> DEFINE g == get(c, k)
<1>7. g = WithMap(e, Bind(e.filecache_, k, n))
    BY <1>2 DEF get, exists, d, e
<1> HIDE DEF e
<1>8. /\ g.head_ = e.head_ /\ g.tail_ = e.tail_ /\ g.size_ = c.size_ /\ g.node = e.node
      /\ DOMAIN g.filecache_ = DOMAIN c.filecache_
      /\ \A j \in DOMAIN c.filecache_ : g.filecache_[j] = c.filecache_[j]
    <2>1. /\ g.head_ = e.head_ /\ g.tail_ = e.tail_ /\ g.size_ = e.size_ /\ g.node = e.node
          /\ g.filecache_ = Bind(e.filecache_, k, n)
        BY <1>7 DEF WithMap
    <2>2. e.filecache_ = [j \in DOMAIN c.filecache_ \ {k} |-> c.filecache_[j]]
        BY <1>3, <1>5 DEF Restrict
    <2> QED
        BY <1>2, <1>3, <1>5, <2>1, <2>2 DEF Bind
<1> HIDE DEF g
<1> DEFINE u == Moved(s, i)
<1>9. /\ u \in Seq(Keys) /\ Len(u) = l /\ DOMAIN u = 1 .. l
      /\ \A j \in 1 .. l : u[j] = IF j = 1 THEN k ELSE IF j <= i THEN s[j - 1] ELSE s[j]
    <2>1. \A j \in 1 .. l : j # 1 => j - 1 \in 1 .. l
        BY <1>1
    <2>2. \A j \in 1 .. l : s[j] \in Keys
        BY <1>1
    <2> QED
        BY <1>1, <2>1, <2>2 DEF Moved, k
<1>10. {u[j] : j \in DOMAIN u} = DOMAIN c.filecache_
    <2>1. ASSUME NEW j \in 1 .. l PROVE \E h \in 1 .. l : u[j] = s[h]
        <3>1. CASE j = 1
            BY <1>1, <1>9, <3>1 DEF k
        <3>2. CASE j # 1
            <4>1. j - 1 \in 1 .. l
                BY <1>1, <3>2
            <4> QED
                BY <1>9, <3>2, <4>1
        <3> QED
            BY <3>1, <3>2
    <2>2. ASSUME NEW h \in 1 .. l PROVE \E j \in 1 .. l : u[j] = s[h]
        <3>1. CASE h = i
            BY <1>1, <1>9, <3>1 DEF k
        <3>2. CASE h < i
            <4>1. h + 1 \in 1 .. l /\ h + 1 # 1 /\ h + 1 <= i /\ (h + 1) - 1 = h
                BY <1>1, <3>2
            <4>2. u[h + 1] = s[h]
                BY <1>9, <4>1
            <4> QED
                BY <4>1, <4>2
        <3>3. CASE i < h
            <4>1. h # 1 /\ ~(h <= i)
                BY <1>1, <3>3
            <4> QED
                BY <1>9, <4>1
        <3> QED
            BY <1>1, <3>1, <3>2, <3>3
    <2>3. DOMAIN c.filecache_ = {s[h] : h \in 1 .. l} /\ DOMAIN u = 1 .. l
        BY <1>1, <1>9 DEF Represents
    <2> HIDE DEF u
    <2>4. \A x : x \in DOMAIN c.filecache_ <=> \E j \in 1 .. l : u[j] = x
        <3>1. ASSUME NEW x \in DOMAIN c.filecache_ PROVE \E j \in 1 .. l : u[j] = x
            <4>1. PICK h \in 1 .. l : x = s[h]
                BY <2>3
            <4> QED
                BY <2>2, <4>1
        <3>2. ASSUME NEW j \in 1 .. l PROVE u[j] \in DOMAIN c.filecache_
            <4>1. PICK h \in 1 .. l : u[j] = s[h]
                BY <2>1
            <4> QED
                BY <2>3, <4>1
        <3> QED
            BY <3>1, <3>2
    <2>5. \A x : x \in {u[j] : j \in DOMAIN u} <=> \E j \in 1 .. l : u[j] = x
        BY <2>3
    <2> QED
        BY <2>4, <2>5
<1>11. NodesOf(g, u) = q
    <2> DEFINE v == NodesOf(g, u)
    <2>1. DOMAIN v = 1 .. l /\ \A j \in 1 .. l : v[j] = c.filecache_[u[j]]
        BY <1>8, <1>9, <1>10 DEF NodesOf
    <2>2. ASSUME NEW j \in 1 .. l PROVE v[j] = q[j]
        <3>1. CASE j = 1
            BY <1>2, <1>6, <1>9, <2>1, <3>1
        <3>2. CASE j # 1
            <4>1. j - 1 \in 1 .. l - 1 /\ j - 1 \in 1 .. l /\ (j - 1) + 1 = j
                  /\ (j - 1 < i <=> j <= i)
                BY <1>1, <3>2
            <4>2. q[j] = IF j <= i THEN ns[j - 1] ELSE ns[j]
                BY <1>4, <1>6, <4>1
            <4> QED
                BY <1>1, <1>9, <2>1, <3>2, <4>1, <4>2
        <3> QED
            BY <3>1, <3>2
    <2>3. v = [j \in 1 .. l |-> q[j]]
        BY <2>1, <2>2 DEF NodesOf
    <2>4. q = [j \in 1 .. l |-> q[j]]
        BY <1>1, <1>6
    <2> QED
        BY <2>3, <2>4
<1>12. Chain(g, NodesOf(g, u))
    BY <1>5, <1>8, <1>11 DEF Chain
<1>13. /\ DOMAIN g.node = DOMAIN c.node
       /\ \A m \in DOMAIN c.node : /\ g.node[m].key = c.node[m].key
                                   /\ g.node[m].file = c.node[m].file
    BY <1>3, <1>5, <1>8 DEF SameNodes
<1>14. \A m \in DOMAIN g.node : Whole(g.node[m])
    <2>1. \A m \in DOMAIN d.node : Whole(d.node[m])
        BY StillWhole DEF Represents, d
    <2>2. \A m \in DOMAIN e.node : Whole(e.node[m])
        BY <2>1, StillWhole DEF e
    <2> QED
        BY <1>8, <2>2
<1>15. \A j \in DOMAIN c.filecache_ : c.filecache_[j] \in DOMAIN c.node
    BY DEF Represents
<1>16. Represents(g, u)
    <2>1. DOMAIN g.node = {g.filecache_[j] : j \in DOMAIN g.filecache_}
        BY <1>8, <1>13 DEF Represents
    <2>2. \A j \in DOMAIN g.filecache_ : g.node[g.filecache_[j]].key = j
        BY <1>8, <1>13, <1>15 DEF Represents
    <2>3. g.size_ = Len(u)
        BY <1>8, <1>9 DEF Represents, l
    <2> QED
        BY <1>8, <1>9, <1>10, <1>12, <1>14, <2>1, <2>2, <2>3 DEF Represents
<1>17. SameFiles(c, g, DOMAIN c.filecache_)
    BY <1>8, <1>13, <1>15 DEF SameFiles, FileOf
<1> QED
    BY <1>8, <1>16, <1>17 DEF g, u, k

\* put on a full cache drops the last key.
LEMMA EvictRepresents ==
    ASSUME NEW c, NEW s, Represents(c, s)
    PROVE  Len(s) > 0 =>
           /\ c.tail_ = c.filecache_[s[Len(s)]] /\ s[Len(s)] \in DOMAIN c.filecache_
           /\ Represents(Evict(c), SubSeq(s, 1, Len(s) - 1))
           /\ DOMAIN Evict(c).filecache_ = DOMAIN c.filecache_ \ {s[Len(s)]}
           /\ SameFiles(c, Evict(c), DOMAIN c.filecache_ \ {s[Len(s)]})
<1>0. \A i \in DOMAIN s :
          /\ Chain(delete_node(c, s[i]), Cut(NodesOf(c, s), i))
          /\ SameNodes(c, delete_node(c, s[i]))
          /\ delete_node(c, s[i]).filecache_ =
                 Restrict(c.filecache_, DOMAIN c.filecache_ \ {s[i]})
          /\ delete_node(c, s[i]).size_ = c.size_
    BY DeleteAt
<1> HAVE Len(s) > 0
<1> DEFINE l == Len(s)
<1> DEFINE k == s[l]
<1> DEFINE ns == NodesOf(c, s)
<1> DEFINE n == ns[l]
<1>1. /\ s \in Seq(Keys) /\ ns \in Seq(Nodes) /\ Len(ns) = l
      /\ DOMAIN s = 1 .. l /\ DOMAIN ns = 1 .. l /\ l \in Nat
      /\ \A j \in 1 .. l : ns[j] = c.filecache_[s[j]] /\ s[j] \in DOMAIN c.filecache_
      /\ \A h, j \in 1 .. l : h # j => s[h] # s[j] /\ ns[h] # ns[j]
      /\ DOMAIN c.node = {ns[j] : j \in 1 .. l}
      /\ \A x \in DOMAIN c.filecache_ : \E j \in 1 .. l : s[j] = x
    BY Places
<1>2. l \in 1 .. l
    BY <1>1
<1>3. /\ k \in DOMAIN c.filecache_ /\ c.filecache_[k] = n /\ n \in Nodes /\ Chain(c, ns)
      /\ l \in DOMAIN ns
    BY <1>1, <1>2 DEF Represents
<1> HIDE DEF l, k, ns, n
<1>4. c.tail_ = n /\ c.node[n].key = k
    <2>1. c.tail_ = At(ns, l)
        BY <1>1, <1>3 DEF Chain
    <2> QED
        BY <1>3, <2>1 DEF At, n, Represents
<1> DEFINE d == delete_node(c, k)
<1> DEFINE r == Cut(ns, l)
<1>5. /\ Chain(d, r) /\ SameNodes(c, d) /\ d.size_ = c.size_
      /\ d.filecache_ = Restrict(c.filecache_, DOMAIN c.filecache_ \ {k})
    <2>1. l \in DOMAIN s
        BY <1>1, <1>2
    <2> QED
        BY <1>0, <2>1 DEF k, ns
<1>6. /\ r \in Seq(Nodes) /\ Len(r) = l - 1 /\ DOMAIN r = 1 .. l - 1
      /\ \A j \in 1 .. l - 1 : r[j] = ns[j]
    <2>1. ns \in Seq(Nodes) /\ Len(ns) = l
        BY <1>1
    <2>2. /\ r \in Seq(Nodes) /\ Len(r) = l - 1 /\ DOMAIN r = 1 .. l - 1
          /\ \A j \in 1 .. l - 1 : r[j] = IF j < l THEN ns[j] ELSE ns[j + 1]
        BY <1>3, <2>1, CutFacts
    <2>3. \A j \in 1 .. l - 1 : j < l
        BY <1>1
    <2> QED
        BY <2>2, <2>3
<1> HIDE DEF r
<1> DEFINE e == Evict(c)
<1>7. e = WithNodes(d, Restrict(d.node, DOMAIN d.node \ {n}), d.size_ - 1)
    BY <1>4 DEF Evict
<1> HIDE DEF d
<1>8. /\ e.head_ = d.head_ /\ e.tail_ = d.tail_ /\ e.size_ = c.size_ - 1
      /\ DOMAIN e.node = DOMAIN c.node \ {n}
      /\ \A m \in DOMAIN e.node : e.node[m] = d.node[m]
      /\ \A m \in DOMAIN e.node : /\ e.node[m].key = c.node[m].key
                                  /\ e.node[m].file = c.node[m].file
      /\ DOMAIN e.filecache_ = DOMAIN c.filecache_ \ {k}
      /\ \A j \in DOMAIN e.filecache_ : e.filecache_[j] = c.filecache_[j]
    BY <1>5, <1>7 DEF WithNodes, Restrict, SameNodes
<1> HIDE DEF e
<1> DEFINE u == SubSeq(s, 1, l - 1)
<1>9. /\ u \in Seq(Keys) /\ Len(u) = l - 1 /\ DOMAIN u = 1 .. l - 1
      /\ \A j \in 1 .. l - 1 : u[j] = s[j]
    BY <1>1, <1>2
<1> HIDE DEF u
<1>10. \A j \in 1 .. l - 1 : j \in 1 .. l /\ j # l
    BY <1>1
<1>11. \A j \in 1 .. l : j = l \/ j \in 1 .. l - 1
    BY <1>1
<1>12. DOMAIN e.filecache_ = {u[j] : j \in DOMAIN u}
    <2>1. ASSUME NEW x \in DOMAIN e.filecache_ PROVE \E j \in 1 .. l - 1 : u[j] = x
        BY <1>1, <1>8, <1>9, <1>11 DEF k
    <2>2. ASSUME NEW j \in 1 .. l - 1 PROVE u[j] \in DOMAIN e.filecache_
        BY <1>1, <1>2, <1>8, <1>9, <1>10 DEF k
    <2> QED
        BY <1>9, <2>1, <2>2
<1>13. NodesOf(e, u) = r
    <2>1. NodesOf(e, u) = [j \in 1 .. l - 1 |-> e.filecache_[u[j]]]
        BY <1>9 DEF NodesOf
    <2>2. ASSUME NEW j \in 1 .. l - 1 PROVE e.filecache_[u[j]] = r[j]
        BY <1>1, <1>6, <1>8, <1>9, <1>10, <1>12
    <2>3. r = [j \in 1 .. l - 1 |-> r[j]]
        BY <1>6
    <2> QED
        BY <2>1, <2>2, <2>3
<1>14. \A j \in 1 .. l - 1 : r[j] \in DOMAIN e.node
    BY <1>1, <1>2, <1>6, <1>8, <1>10 DEF n
<1>15. Chain(e, NodesOf(e, u))
    BY <1>5, <1>6, <1>8, <1>13, <1>14 DEF Chain
<1>16. DOMAIN e.node = {e.filecache_[j] : j \in DOMAIN e.filecache_}
    <2>1. ASSUME NEW m \in DOMAIN e.node
          PROVE  \E j \in DOMAIN e.filecache_ : e.filecache_[j] = m
        <3>1. PICK j \in 1 .. l : m = ns[j]
            BY <1>1, <1>8
        <3>2. j \in 1 .. l - 1
            BY <1>8, <1>11, <3>1 DEF n
        <3> QED
            BY <1>1, <1>8, <1>9, <1>10, <1>12, <3>1, <3>2
    <2>2. ASSUME NEW x \in DOMAIN e.filecache_ PROVE e.filecache_[x] \in DOMAIN e.node
        <3>1. PICK j \in 1 .. l - 1 : u[j] = x
            BY <1>9, <1>12
        <3> QED
            BY <1>1, <1>6, <1>8, <1>9, <1>10, <1>14, <3>1
    <2> QED
        BY <2>1, <2>2
<1>17. \A j \in DOMAIN e.filecache_ : e.node[e.filecache_[j]].key = j
    <2>1. \A j \in DOMAIN e.filecache_ : e.filecache_[j] \in DOMAIN e.node
        BY <1>16
    <2> QED
        BY <1>8, <2>1 DEF Represents
<1>18. \A m \in DOMAIN e.node : Whole(e.node[m])
    <2>1. \A m \in DOMAIN d.node : Whole(d.node[m])
        BY StillWhole DEF Represents, d
    <2> QED
        BY <1>5, <1>8, <2>1 DEF SameNodes
<1>19. e.size_ = Len(u)
    BY <1>8, <1>9 DEF Represents, l
<1>20. Represents(e, u)
    BY <1>9, <1>12, <1>15, <1>16, <1>17, <1>18, <1>19 DEF Represents
<1>21. SameFiles(c, e, DOMAIN c.filecache_ \ {k})
    BY <1>8, <1>16 DEF SameFiles, FileOf
<1> QED
    BY <1>3, <1>4, <1>8, <1>20, <1>21 DEF e, u, k, l

\* operator new finds an address while the cache is not full.
LEMMA NewNodeFree ==
    ASSUME NEW c, NEW s, Represents(c, s), Len(s) < max_size_
    PROVE  NewNode(c) \in Nodes /\ NewNode(c) \notin DOMAIN c.node
<1> DEFINE ns == NodesOf(c, s)
<1> DEFINE l == Len(s)
<1>1. l \in Nat /\ DOMAIN ns = 1 .. l /\ DOMAIN c.node = {ns[j] : j \in 1 .. l}
    BY Places
<1> DEFINE D == DOMAIN c.node
<1>2. IsFiniteSet(1 .. l) /\ Cardinality(1 .. l) = l
    BY <1>1, FS_Interval
<1>3. ns \in Surjection(1 .. l, D)
    BY <1>1 DEF Surjection, NodesOf
<1> HIDE DEF ns, l, D
<1>4. IsFiniteSet(D) /\ Cardinality(D) <= l
    BY <1>2, <1>3, FS_Surjection
<1>5. \E n \in Nodes : n \notin D
    <2> SUFFICES ASSUME Nodes \subseteq D PROVE FALSE
        OBVIOUS
    <2>1. IsFiniteSet(Nodes) /\ Cardinality(Nodes) <= Cardinality(D)
        BY <1>4, FS_Subset
    <2>2. Cardinality(Nodes) \in Nat /\ Cardinality(D) \in Nat
        BY <1>4, <2>1, FS_CardinalityType
    <2> QED
        BY <1>1, <1>4, <2>1, <2>2, NodesAssumption, MaxSizeAssumption DEF l
<1> QED
    BY <1>5 DEF NewNode, D

\* put of a new key while there is room.
LEMMA AddRepresents ==
    ASSUME NEW c, NEW s, Represents(c, s), Len(s) < max_size_,
           NEW k \in Keys, k \notin DOMAIN c.filecache_, NEW f
    PROVE  /\ Represents(Add(c, k, f), <<k>> \o s)
           /\ DOMAIN Add(c, k, f).filecache_ = DOMAIN c.filecache_ \cup {k}
           /\ FileOf(Add(c, k, f), k) = f
           /\ SameFiles(c, Add(c, k, f), DOMAIN c.filecache_)
<1> DEFINE l == Len(s)
<1> DEFINE ns == NodesOf(c, s)
<1> DEFINE n == NewNode(c)
<1>1. /\ s \in Seq(Keys) /\ ns \in Seq(Nodes) /\ Len(ns) = l
      /\ DOMAIN s = 1 .. l /\ DOMAIN ns = 1 .. l /\ l \in Nat
      /\ \A j \in 1 .. l : ns[j] = c.filecache_[s[j]] /\ s[j] \in DOMAIN c.filecache_
      /\ DOMAIN c.node = {ns[j] : j \in 1 .. l}
      /\ \A x \in DOMAIN c.filecache_ : \E j \in 1 .. l : s[j] = x
    BY Places
<1>2. n \in Nodes /\ n \notin DOMAIN c.node /\ Chain(c, ns)
    BY NewNodeFree DEF Represents
<1> DEFINE new == [key |-> k, file |-> f, prev |-> NoNode, next |-> NoNode]
<1> DEFINE d == WithNodes(c, Bind(c.node, n, new), c.size_ + 1)
<1> DEFINE e == insert_node(d, n)
<1> DEFINE a == Add(c, k, f)
<1>3. a = WithMap(e, Bind(e.filecache_, k, n))
    BY DEF Add
<1> HIDE DEF l, ns, n
<1>4. /\ d.head_ = c.head_ /\ d.tail_ = c.tail_ /\ d.size_ = c.size_ + 1
      /\ d.filecache_ = c.filecache_ /\ DOMAIN d.node = DOMAIN c.node \cup {n}
      /\ \A m \in DOMAIN c.node : d.node[m] = c.node[m]
      /\ d.node[n] = new
    BY <1>2 DEF WithNodes, Bind
<1> HIDE DEF d
<1>5. Chain(d, ns)
    BY <1>1, <1>2, <1>4 DEF Chain
<1> DEFINE q == InFront(n, ns)
<1>6. /\ Chain(e, q) /\ SameNodes(d, e) /\ e.size_ = d.size_
      /\ e.filecache_ = d.filecache_
    <2>1. \A j \in DOMAIN ns : ns[j] # n
        BY <1>1, <1>2
    <2> QED
        BY <1>2, <1>4, <1>5, <2>1, InsertChain
<1>7. /\ q \in Seq(Nodes) /\ Len(q) = l + 1 /\ q[1] = n
      /\ \A j \in 1 .. l : q[j + 1] = ns[j]
    <2>1. ns \in Seq(Nodes) /\ Len(ns) = l
        BY <1>1
    <2>2. /\ q \in Seq(Nodes) /\ Len(q) = Len(ns) + 1 /\ q[1] = n
          /\ \A j \in 1 .. Len(ns) : q[j + 1] = ns[j]
        BY <1>2, <2>1, InFrontFacts
    <2> HIDE DEF q
    <2> QED
        BY <2>1, <2>2
<1>8. \A m \in DOMAIN e.node : Whole(e.node[m])
    <2>1. \A m \in DOMAIN d.node : Whole(d.node[m])
        BY <1>4 DEF Represents, Whole, Linked
    <2> QED
        BY <2>1, StillWhole
<1> HIDE DEF q, e, a
<1>9. /\ a.head_ = e.head_ /\ a.tail_ = e.tail_ /\ a.size_ = c.size_ + 1 /\ a.node = e.node
      /\ DOMAIN a.filecache_ = DOMAIN c.filecache_ \cup {k} /\ a.filecache_[k] = n
      /\ \A j \in DOMAIN c.filecache_ : a.filecache_[j] = c.filecache_[j]
    <2>1. /\ a.head_ = e.head_ /\ a.tail_ = e.tail_ /\ a.size_ = e.size_ /\ a.node = e.node
          /\ a.filecache_ = Bind(c.filecache_, k, n)
        BY <1>3, <1>4, <1>6 DEF WithMap
    <2> QED
        BY <1>4, <1>6, <2>1 DEF Bind
<1> DEFINE u == <<k>> \o s
<1>10. /\ u \in Seq(Keys) /\ Len(u) = l + 1 /\ DOMAIN u = 1 .. l + 1 /\ u[1] = k
       /\ \A j \in 1 .. l : u[j + 1] = s[j]
    BY <1>1 DEF l
<1> HIDE DEF u
<1>11. \A j \in 1 .. l : j + 1 \in 1 .. l + 1
    BY <1>1
<1>12. \A j \in 1 .. l + 1 : j = 1 \/ (j - 1 \in 1 .. l /\ (j - 1) + 1 = j)
    BY <1>1
<1>13. 1 \in 1 .. l + 1
    BY <1>1
<1>14. DOMAIN a.filecache_ = {u[j] : j \in DOMAIN u}
    <2>1. ASSUME NEW x \in DOMAIN a.filecache_ PROVE \E j \in 1 .. l + 1 : u[j] = x
        BY <1>1, <1>9, <1>10, <1>11, <1>13
    <2>2. ASSUME NEW j \in 1 .. l + 1 PROVE u[j] \in DOMAIN a.filecache_
        <3>1. CASE j = 1
            BY <1>9, <1>10, <3>1
        <3>2. CASE j # 1
            <4>1. j - 1 \in 1 .. l /\ u[j] = s[j - 1]
                BY <1>10, <1>12, <3>2
            <4> QED
                BY <1>1, <1>9, <4>1
        <3> QED
            BY <3>1, <3>2
    <2> QED
        BY <1>10, <2>1, <2>2
<1>15. NodesOf(a, u) = q
    <2>1. NodesOf(a, u) = [j \in 1 .. l + 1 |-> a.filecache_[u[j]]]
        BY <1>10 DEF NodesOf
    <2>2. ASSUME NEW j \in 1 .. l + 1 PROVE a.filecache_[u[j]] = q[j]
        <3>1. CASE j = 1
            BY <1>7, <1>9, <1>10, <3>1
        <3>2. CASE j # 1
            <4>1. j - 1 \in 1 .. l /\ u[j] = s[j - 1] /\ q[j] = ns[j - 1]
                BY <1>7, <1>10, <1>12, <3>2
            <4> QED
                BY <1>1, <1>9, <4>1
        <3> QED
            BY <3>1, <3>2
    <2>3. q = [j \in 1 .. l + 1 |-> q[j]]
        BY <1>7
    <2> QED
        BY <2>1, <2>2, <2>3
<1>16. Chain(a, NodesOf(a, u))
    BY <1>6, <1>9, <1>15 DEF Chain
<1>17. /\ DOMAIN a.node = DOMAIN c.node \cup {n}
       /\ a.node[n].key = k /\ a.node[n].file = f
       /\ \A m \in DOMAIN c.node : /\ a.node[m].key = c.node[m].key
                                   /\ a.node[m].file = c.node[m].file
    BY <1>4, <1>6, <1>9 DEF SameNodes
<1>18. DOMAIN c.node = {c.filecache_[j] : j \in DOMAIN c.filecache_}
    BY DEF Represents
<1>19. DOMAIN a.node = {a.filecache_[j] : j \in DOMAIN a.filecache_}
    BY <1>9, <1>17, <1>18
<1>20. ASSUME NEW j \in DOMAIN a.filecache_ PROVE a.node[a.filecache_[j]].key = j
    <2>1. CASE j = k
        BY <1>9, <1>17, <2>1
    <2>2. CASE j # k
        <3>1. j \in DOMAIN c.filecache_ /\ a.filecache_[j] = c.filecache_[j]
            BY <1>9, <2>2
        <3>2. c.filecache_[j] \in DOMAIN c.node /\ c.node[c.filecache_[j]].key = j
            BY <1>18, <3>1 DEF Represents
        <3> QED
            BY <1>17, <3>1, <3>2
    <2> QED
        BY <2>1, <2>2
<1>21. a.size_ = Len(u)
    BY <1>9, <1>10 DEF Represents, l
<1>22. Represents(a, u)
    BY <1>8, <1>9, <1>10, <1>14, <1>16, <1>19, <1>20, <1>21 DEF Represents
<1>23. FileOf(a, k) = f /\ SameFiles(c, a, DOMAIN c.filecache_)
    BY <1>9, <1>17, <1>18 DEF SameFiles, FileOf
<1> QED
    BY <1>9, <1>22, <1>23 DEF a, u
=============================================================================
