--------------------------- MODULE FileCacheCalls ---------------------------
(***************************************************************************)
(* Any sequence of calls on one FileCache.  The caller opens a file for a  *)
(* key and hands it over with put, as StorageEngine::open_segment does     *)
(* (lib/storage/storage.cpp:62), or asks for one with get.                 *)
(*                                                                         *)
(* recent is what the cache is for: the cached keys, the most recently     *)
(* used one first.  open_fds are the descriptors the process has open:     *)
(* put closes the file it evicts; ~LocalFile closes nothing                *)
(* (lib/vfs/localfs.h:16), so a file that is only destroyed stays open.    *)
(***************************************************************************)
EXTENDS FileCache, Sequences

CONSTANT Files  \* the descriptors the process may have

VARIABLES cache,     \* the FileCache
          open_fds,  \* the files open in the process
          lost,      \* the files that no cache owns any more and nobody closed
          recent     \* the cached keys, the last used one first

vars == <<cache, open_fds, lost, recent>>

Init == /\ cache = EmptyCache
        /\ open_fds = {}
        /\ lost = {}
        /\ recent = <<>>

\* The keys once k is used: it goes to the front, those used after it move up.
Used(k) == LET at == CHOOSE i \in DOMAIN recent : recent[i] = k
           IN  [i \in DOMAIN recent |-> IF i = 1 THEN k
                                        ELSE IF i <= at THEN recent[i - 1]
                                                        ELSE recent[i]]

\* get(): the file of a cached key, nullptr for another.
Get(k) ==
    /\ cache' = get(cache, k)
    /\ recent' = IF exists(cache, k) THEN Used(k) ELSE recent
    /\ UNCHANGED <<open_fds, lost>>

\* Mutant: the file that leaves the cache is not closed.
Put_mutant_open(k, f) ==
    /\ ~exists(cache, k)
    /\ f \notin open_fds
    /\ cache' = put(cache, k, f)
    /\ open_fds' = open_fds \cup {f}
    /\ recent' = <<k>> \o (IF Evicts(cache, k) THEN SubSeq(recent, 1, Len(recent) - 1)
                                               ELSE recent)
    /\ UNCHANGED lost

\* put() of a file just opened, for a key that is not cached: the test
\* open_segment makes before it opens the file.
Put(k, f) ==
    /\ ~exists(cache, k)
    /\ f \notin open_fds
    /\ cache' = put(cache, k, f)
    /\ open_fds' = (open_fds \cup {f})
                     \ IF Evicts(cache, k) THEN {cache.node[cache.tail_].file} ELSE {}
    /\ recent' = <<k>> \o (IF Evicts(cache, k) THEN SubSeq(recent, 1, Len(recent) - 1)
                                               ELSE recent)
    /\ UNCHANGED lost

\* ~FileCache deletes the nodes of the map; a new cache takes its place.
Destroy ==
    /\ recent # <<>>
    /\ cache' = EmptyCache
    /\ lost' = lost \cup {FileOf(cache, k) : k \in DOMAIN cache.filecache_}
    /\ recent' = <<>>
    /\ UNCHANGED open_fds

\* The process ends: the operating system closes what is open.
Exit == /\ open_fds # {}
        /\ cache' = EmptyCache
        /\ open_fds' = {}
        /\ lost' = {}
        /\ recent' = <<>>

Next == \/ \E k \in Keys : Get(k)
        \/ \E k \in Keys, f \in Files : Put(k, f)
        \/ Destroy
        \/ Exit

Spec == Init /\ [][Next]_vars
-----------------------------------------------------------------------------
\* The node of the i-th most recently used key, nullptr past either end.
NodeAt(i) == IF i \in DOMAIN recent THEN cache.filecache_[recent[i]] ELSE NoNode

\* The list from head_ along next, the list from tail_ along prev, the map
\* and size_ all describe the same keys in the order of their last use
\* (insert_node, delete_node, get, put: pointers, map and counter are
\* updated apart), and no node is allocated that is not in the list.
ListExact ==
    /\ DOMAIN cache.filecache_ = {recent[i] : i \in DOMAIN recent}
    /\ DOMAIN cache.node = {NodeAt(i) : i \in DOMAIN recent}
    /\ \A i, j \in DOMAIN recent : i # j => NodeAt(i) # NodeAt(j)
    /\ cache.size_ = Len(recent)
    /\ cache.head_ = NodeAt(1)
    /\ cache.tail_ = NodeAt(Len(recent))
    /\ \A i \in DOMAIN recent :
          cache.node[NodeAt(i)] = [key  |-> recent[i], file |-> cache.node[NodeAt(i)].file,
                                   prev |-> NodeAt(i - 1), next |-> NodeAt(i + 1)]

\* Every cached file is open and of one key only, every file that is open
\* is cached or was destroyed with a cache (LocalFile::close is called for
\* the evicted file alone), and a live cache holds at most max_size_ files.
FilesExact ==
    LET cached == {FileOf(cache, k) : k \in DOMAIN cache.filecache_}
    IN  /\ Cardinality(cached) = Cardinality(DOMAIN cache.filecache_)
        /\ cached \cap lost = {}
        /\ open_fds = cached \cup lost
        /\ Cardinality(cached) <= max_size_

\* A step takes a file from the cache only if it is the one least recently
\* used, in a full cache, for a new key; every other cached key keeps its
\* file.  What open_segment returned stays open for the max_size_ - 1 other
\* keys used next.
EvictsOldest ==
    [][\A i \in DOMAIN recent :
          \/ recent' = <<>>
          \/ recent[i] \in DOMAIN cache'.filecache_
               /\ FileOf(cache', recent[i]) = FileOf(cache, recent[i])
          \/ i = max_size_]_vars
=============================================================================
