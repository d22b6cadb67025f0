------------------------------ MODULE FileCache ------------------------------
(***************************************************************************)
(* storage::FileCache (lib/storage/filecache.cpp), the open segment files  *)
(* of the storage engine, as operators on a cache value: the map           *)
(* filecache_ from keys to nodes, the ends of the doubly linked list of    *)
(* nodes with the most recently used one at head_, size_, and the nodes on *)
(* the heap.  A node that was deleted is no longer in the domain of node.  *)
(***************************************************************************)
EXTENDS Naturals, FiniteSets, Functions

CONSTANTS Keys,      \* FileKey: a table and a segment
          Nodes,     \* the addresses operator new may return
          NoNode,    \* nullptr
          max_size_  \* MAX_CACHE_SIZE

ASSUME NoNodeAssumption == NoNode \notin Nodes
ASSUME MaxSizeAssumption == max_size_ \in Nat \ {0}
\* operator new does not fail.
ASSUME NodesAssumption == IsFiniteSet(Nodes) => Cardinality(Nodes) >= max_size_

EmptyCache == [filecache_ |-> <<>>, head_ |-> NoNode, tail_ |-> NoNode,
               size_ |-> 0, node |-> <<>>]

\* A node with its neighbours set; a cache with another map, or other nodes.
Linked(node, p, x) == [key |-> node.key, file |-> node.file, prev |-> p, next |-> x]

WithMap(c, f) == [filecache_ |-> f, head_ |-> c.head_, tail_ |-> c.tail_,
                  size_ |-> c.size_, node |-> c.node]

WithNodes(c, nodes, size) == [filecache_ |-> c.filecache_, head_ |-> c.head_,
                              tail_ |-> c.tail_, size_ |-> size, node |-> nodes]

Bind(f, x, v) == [y \in DOMAIN f \cup {x} |-> IF y = x THEN v ELSE f[y]]

\* Mutant: the old head does not learn its new neighbour.
insert_node_mutant_prev(c, n) ==
    [filecache_ |-> c.filecache_, size_ |-> c.size_,
     head_ |-> n,
     tail_ |-> IF c.head_ = NoNode THEN n ELSE c.tail_,
     node  |-> Bind(c.node, n, Linked(c.node[n], NoNode, c.head_))]

\* insert_node: in front of the list.
insert_node(c, n) ==
    [filecache_ |-> c.filecache_, size_ |-> c.size_,
     head_ |-> n,
     tail_ |-> IF c.head_ = NoNode THEN n ELSE c.tail_,
     node  |-> [m \in DOMAIN c.node |->
                   IF m = n THEN Linked(c.node[m], NoNode, c.head_)
                   ELSE IF m = c.head_ THEN Linked(c.node[m], n, c.node[m].next)
                   ELSE c.node[m]]]

\* delete_node: out of the list and out of the map; the node stays allocated.
\* A key the map does not hold is left alone.
delete_node(c, key) ==
    IF key \notin DOMAIN c.filecache_ THEN c
      ELSE LET n == c.filecache_[key]
               p == c.node[n].prev
               x == c.node[n].next
           IN  [filecache_ |-> Restrict(c.filecache_, DOMAIN c.filecache_ \ {key}),
                size_ |-> c.size_,
                head_ |-> IF c.head_ = n THEN x ELSE c.head_,
                tail_ |-> IF c.tail_ = n THEN p ELSE c.tail_,
                node  |-> [m \in DOMAIN c.node |->
                              Linked(c.node[m],
                                     IF m = x THEN p ELSE c.node[m].prev,
                                     IF m = p THEN x ELSE c.node[m].next)]]

exists(c, key) == key \in DOMAIN c.filecache_

\* Mutant: get() does not move the node to the front.
get_mutant_stays(c, key) == c

\* get: the cache after the call; a hit moves its node to the front.
get(c, key) ==
    IF ~exists(c, key) THEN c
      ELSE LET n == c.filecache_[key]
               moved == insert_node(delete_node(c, key), n)
           IN  WithMap(moved, Bind(moved.filecache_, key, n))

\* What get returns on a hit.
FileOf(c, key) == c.node[c.filecache_[key]].file

\* operator new: the addresses in use are those of the nodes not deleted.
NewNode(c) == CHOOSE n \in Nodes : n \notin DOMAIN c.node

Evicts(c, key) == ~exists(c, key) /\ c.size_ = max_size_

\* put on a full cache: the last node leaves and is deleted.
Evict(c) ==
    LET gone == delete_node(c, c.node[c.tail_].key)
    IN  WithNodes(gone, Restrict(gone.node, DOMAIN gone.node \ {c.tail_}),
                  gone.size_ - 1)

\* put of a key that is not cached, once there is room.
Add(c, key, file) ==
    LET n     == NewNode(c)
        new   == [key |-> key, file |-> file, prev |-> NoNode, next |-> NoNode]
        front == insert_node(WithNodes(c, Bind(c.node, n, new), c.size_ + 1), n)
    IN  WithMap(front, Bind(front.filecache_, key, n))

\* put: a key that is cached goes to the front of the list, and out of the
\* map (delete_node erases it, nothing puts it back).
put(c, key, file) ==
    IF exists(c, key)
      THEN insert_node(delete_node(c, key), c.filecache_[key])
      ELSE Add(IF c.size_ = max_size_ THEN Evict(c) ELSE c, key, file)
=============================================================================
