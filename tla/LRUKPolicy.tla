------------------------------ MODULE LRUKPolicy ------------------------------
(***************************************************************************)
(* What an LRU-K evictor promises, without timestamps or ordered indexes.  *)
(*                                                                         *)
(* An evictor is a record                                                  *)
(*   accesses : the accesses still remembered, oldest first, each one the  *)
(*              frame accessed (at most K accesses of a frame are kept);   *)
(*   evictable: the frames that may be evicted.                            *)
(* The operators are pure so that the buffer pool can run several of them  *)
(* in one critical section.  LRUKPolicySpec is the state machine made of   *)
(* them; LRUKEvictor, the timestamped code of lruk.cpp, refines it.        *)
(***************************************************************************)
EXTENDS Integers, Sequences, FiniteSets, SequencesExt, Order

CONSTANTS Frames,   \* frame ids
          K,        \* k_: accesses remembered per frame
          NoFrame   \* std::nullopt

\* The frames with a node in node_store_.
Tracked(e) == ToSet(e.accesses)

\* Length of the history of frame f.
Accesses(e, f) == Cardinality({i \in DOMAIN e.accesses : e.accesses[i] = f})

\* Position of the oldest remembered access of f.
Oldest(e, f) == CHOOSE i \in DOMAIN e.accesses :
                    /\ e.accesses[i] = f
                    /\ \A j \in 1 .. i - 1 : e.accesses[j] # f

Untouched == [accesses |-> <<>>, evictable |-> {}]

RecordAccess(e, f) ==
    [accesses  |-> IF Accesses(e, f) < K
                   THEN Append(e.accesses, f)
                   ELSE Append(RemoveFirst(e.accesses, f), f),
     evictable |-> e.evictable]

SetEvictable(e, f) ==
    [accesses  |-> e.accesses,
     evictable |-> IF f \in Tracked(e) THEN e.evictable \cup {f} ELSE e.evictable]

SetNotEvictable(e, f) == [accesses  |-> e.accesses,
                          evictable |-> e.evictable \ {f}]

Forget(e, f) == [accesses  |-> Without(e.accesses, f),
                 evictable |-> e.evictable \ {f}]

(***************************************************************************)
(* The LRU-K choice: a frame with fewer than K accesses has an infinite    *)
(* backward K-distance and goes before every frame with K of them; within  *)
(* a class the frame whose oldest remembered access is the oldest goes     *)
(* first.                                                                  *)
(***************************************************************************)
Candidates(e) ==
    LET cold == {f \in e.evictable : Accesses(e, f) < K}
    IN  IF cold # {} THEN cold ELSE e.evictable

Victim(e) == IF e.evictable = {}
             THEN NoFrame
             ELSE CHOOSE f \in Candidates(e) :
                      \A g \in Candidates(e) : Oldest(e, f) <= Oldest(e, g)
=============================================================================
