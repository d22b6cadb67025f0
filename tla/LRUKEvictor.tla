------------------------------ MODULE LRUKEvictor ------------------------------
(***************************************************************************)
(* pager::LRUKEvictor (lib/pager/bufferpool/lruk.cpp): the victim chooser  *)
(* of the buffer pool.  It keeps, per tracked frame, the timestamps of its *)
(* last k_ accesses and an evictable bit, and two ordered indexes over the *)
(* evictable frames, keyed by the oldest timestamp kept.                   *)
(*                                                                         *)
(* node_store_ is three variables here: its key set node_store, and the    *)
(* fields of its nodes, history (<<>> for a frame with no node) and        *)
(* is_evictable (the set of frames whose bit is set).                      *)
(***************************************************************************)
EXTENDS Integers, Sequences, FiniteSets

CONSTANTS Frames,        \* frame ids
          K,             \* k_
          NoFrame,       \* std::nullopt
          MaxTimestamp   \* bound: current_timestamp_ never passes it

ASSUME FramesAssumption == Frames \subseteq Nat /\ IsFiniteSet(Frames)
ASSUME KAssumption == K \in Nat \ {0}
ASSUME NoFrameAssumption == NoFrame \notin Frames
ASSUME MaxTimestampAssumption == MaxTimestamp \in Nat

VARIABLES node_store, history, is_evictable,
          less_than_k_set, k_set,
          current_timestamp, evictable_size,
          victim         \* what the last call of evict() returned

indexes == <<less_than_k_set, k_set, evictable_size>>
vars == <<node_store, history, is_evictable, indexes, current_timestamp, victim>>

\* history_.front(), the key of a frame in either index
KeyOf(f) == <<history[f][1], f>>

\* Mutant: the most recent instead of the least.
LeastMutantMost(S) == CHOOSE a \in S : \A b \in S : a[1] >= b[1]

\* begin() of a std::set of pairs: the lexicographically least
Least(S) ==
    CHOOSE a \in S : \A b \in S : a[1] < b[1] \/ (a[1] = b[1] /\ a[2] <= b[2])

Init == /\ node_store = {}
        /\ history = [f \in Frames |-> <<>>]
        /\ is_evictable = {}
        /\ less_than_k_set = {}
        /\ k_set = {}
        /\ current_timestamp = 0
        /\ evictable_size = 0
        /\ victim = NoFrame
-----------------------------------------------------------------------------
\* Erasing a node: its history and its bit go with it.
EraseNode(f) ==
    /\ node_store' = node_store \ {f}
    /\ history' = [history EXCEPT ![f] = <<>>]
    /\ is_evictable' = is_evictable \ {f}

EvictNothing == /\ evictable_size = 0
                /\ victim' = NoFrame
                /\ UNCHANGED <<node_store, history, is_evictable, indexes,
                               current_timestamp>>

EvictCold == /\ evictable_size # 0
             /\ less_than_k_set # {}
             /\ LET it == Least(less_than_k_set)
                IN  /\ less_than_k_set' = less_than_k_set \ {it}
                    /\ victim' = it[2]
                    /\ EraseNode(it[2])
             /\ evictable_size' = evictable_size - 1
             /\ UNCHANGED <<k_set, current_timestamp>>

EvictHot == /\ evictable_size # 0
            /\ less_than_k_set = {}
            /\ LET it == Least(k_set)
               IN  /\ k_set' = k_set \ {it}
                   /\ victim' = it[2]
                   /\ EraseNode(it[2])
            /\ evictable_size' = evictable_size - 1
            /\ UNCHANGED <<less_than_k_set, current_timestamp>>

evict == EvictNothing \/ EvictCold \/ EvictHot

RememberMutantFull(h, ts) == IF Len(h) < K THEN Append(h, ts) ELSE h

\* push_back(ts), then pop_front() when more than k_ are kept
Remember(h, ts) == IF Len(h) < K THEN Append(h, ts) ELSE Append(Tail(h), ts)

\* Mutant: an evictable frame with K accesses keeps its old key in k_set_.
record_access_mutant_stale_key(f) ==
    /\ current_timestamp < MaxTimestamp
    /\ current_timestamp' = current_timestamp + 1
    /\ node_store' = node_store \cup {f}
    /\ history' = [history EXCEPT ![f] = Remember(@, current_timestamp)]
    /\ IF f \in is_evictable /\ Len(history[f]) < K /\ Len(history'[f]) = K
       THEN /\ less_than_k_set' = less_than_k_set \ {KeyOf(f)}
            /\ k_set' = k_set \cup {KeyOf(f)'}
       ELSE UNCHANGED <<less_than_k_set, k_set>>
    /\ UNCHANGED <<is_evictable, evictable_size, victim>>

record_access(f) ==
    /\ current_timestamp < MaxTimestamp
    /\ current_timestamp' = current_timestamp + 1
    /\ node_store' = node_store \cup {f}
    /\ history' = [history EXCEPT ![f] = Remember(@, current_timestamp)]
    /\ IF f \in is_evictable /\ Len(history'[f]) = K
       THEN IF Len(history[f]) < K
            THEN /\ less_than_k_set' = less_than_k_set \ {KeyOf(f)}
                 /\ k_set' = k_set \cup {KeyOf(f)'}
            ELSE /\ k_set' = (k_set \ {KeyOf(f)}) \cup {KeyOf(f)'}
                 /\ UNCHANGED less_than_k_set
       ELSE UNCHANGED <<less_than_k_set, k_set>>
    /\ UNCHANGED <<is_evictable, evictable_size, victim>>

\* The index entry of f goes, from the index its history puts it in.
Unindex(f) ==
    /\ IF Len(history[f]) < K
       THEN less_than_k_set' = less_than_k_set \ {KeyOf(f)} /\ UNCHANGED k_set
       ELSE k_set' = k_set \ {KeyOf(f)} /\ UNCHANGED less_than_k_set
    /\ evictable_size' = evictable_size - 1

\* Mutant: set_evictable(f, true) without its early return.
set_evictable_mutant_twice(f) ==
    /\ f \in node_store
    /\ IF Len(history[f]) < K
       THEN less_than_k_set' = less_than_k_set \cup {KeyOf(f)} /\ UNCHANGED k_set
       ELSE k_set' = k_set \cup {KeyOf(f)} /\ UNCHANGED less_than_k_set
    /\ evictable_size' = evictable_size + 1
    /\ is_evictable' = is_evictable \cup {f}
    /\ UNCHANGED <<node_store, history, current_timestamp, victim>>

\* set_evictable(f, true) and set_evictable(f, false), past their early returns
set_evictable(f) ==
    /\ f \in node_store \ is_evictable
    /\ IF Len(history[f]) < K
       THEN less_than_k_set' = less_than_k_set \cup {KeyOf(f)} /\ UNCHANGED k_set
       ELSE k_set' = k_set \cup {KeyOf(f)} /\ UNCHANGED less_than_k_set
    /\ evictable_size' = evictable_size + 1
    /\ is_evictable' = is_evictable \cup {f}
    /\ UNCHANGED <<node_store, history, current_timestamp, victim>>

set_not_evictable(f) ==
    /\ f \in node_store \cap is_evictable
    /\ Unindex(f)
    /\ is_evictable' = is_evictable \ {f}
    /\ UNCHANGED <<node_store, history, current_timestamp, victim>>

\* Mutant: remove() does not ask whether the frame is evictable.
remove_mutant_unguarded(f) ==
    /\ f \in node_store
    /\ Unindex(f)
    /\ EraseNode(f)
    /\ UNCHANGED <<current_timestamp, victim>>

remove(f) ==
    /\ f \in node_store
    /\ IF f \in is_evictable THEN Unindex(f) ELSE UNCHANGED indexes
    /\ EraseNode(f)
    /\ UNCHANGED <<current_timestamp, victim>>

Next == \/ evict
        \/ \E f \in Frames : \/ record_access(f)
                             \/ set_evictable(f)
                             \/ set_not_evictable(f)
                             \/ remove(f)

Spec == Init /\ [][Next]_vars
-----------------------------------------------------------------------------
\* Types of the evictor's fields.
TypeOK == /\ node_store \subseteq Frames
          /\ history \in [Frames -> Seq(Nat)]
          /\ is_evictable \subseteq node_store
          /\ less_than_k_set \subseteq Nat \X Frames
          /\ k_set \subseteq Nat \X Frames
          /\ current_timestamp \in Nat
          /\ evictable_size \in Nat
          /\ victim \in Frames \cup {NoFrame}

(***************************************************************************)
(* The two indexes hold exactly the evictable frames, each in the index    *)
(* its history length puts it in and under its current front timestamp: no *)
(* call leaves a stale key behind (lruk.cpp 43-51, 67-79, 90-98).          *)
(***************************************************************************)
IndexesExact ==
    /\ less_than_k_set = {KeyOf(f) : f \in {g \in is_evictable : Len(history[g]) < K}}
    /\ k_set = {KeyOf(f) : f \in {g \in is_evictable : Len(history[g]) >= K}}

\* size() counts the evictable frames, so the size_t never wraps below zero
\* and evict() never dereferences begin() of an empty index (lruk.cpp 9-21).
SizeExact == evictable_size = Cardinality(is_evictable)

(***************************************************************************)
(* A tracked frame has between 1 and K timestamps, increasing and in the   *)
(* past; a frame that is not tracked has none; no timestamp is shared by   *)
(* two frames, so the index order never falls back on the frame id.        *)
(***************************************************************************)
HistoryOK ==
    /\ \A f \in Frames :
           /\ Len(history[f]) <= K
           /\ f \in node_store <=> Len(history[f]) > 0
           /\ \A i \in DOMAIN history[f] : history[f][i] < current_timestamp
           /\ \A i, j \in DOMAIN history[f] : i < j => history[f][i] < history[f][j]
    /\ \A f, g \in Frames : \A i \in DOMAIN history[f], j \in DOMAIN history[g] :
           history[f][i] = history[g][j] => f = g

\* g would be a better LRU-K victim than f: it has an infinite backward
\* K-distance and f has not, or they are of a kind and g's is the longer.
BetterVictim(g, f) ==
    \/ Len(history[g]) < K /\ Len(history[f]) >= K
    \/ /\ Len(history[g]) < K <=> Len(history[f]) < K
       /\ history[g][1] < history[f][1]

(***************************************************************************)
(* evict() takes an evictable frame whenever there is one, and no better   *)
(* LRU-K victim is evictable then; every other call leaves the result of   *)
(* the last one alone.                                                     *)
(***************************************************************************)
EvictsLRUK ==
    [][evict => IF is_evictable = {}
                THEN victim' = NoFrame
                ELSE /\ victim' \in is_evictable
                     /\ \A g \in is_evictable : ~BetterVictim(g, victim')]_vars
=============================================================================
