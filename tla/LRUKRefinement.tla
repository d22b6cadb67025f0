---------------------------- MODULE LRUKRefinement ----------------------------
(***************************************************************************)
(* LRUKEvictor refines the LRU-K policy: the remembered accesses are the   *)
(* timestamps of all the histories in increasing order, each one standing  *)
(* for the frame it belongs to.                                            *)
(***************************************************************************)
EXTENDS LRUKEvictor, Order

\* The timestamps kept in the histories h, and the frame of one of them.
Stamps(h) == UNION {{h[f][i] : i \in DOMAIN h[f]} : f \in Frames}

FrameAt(h, t) == CHOOSE f \in Frames : \E i \in DOMAIN h[f] : h[f][i] = t

\* Entry i is the frame of the i-th oldest stamp.
AccessOrder(h) == [i \in 1 .. Cardinality(Stamps(h)) |-> FrameAt(h, Nth(Stamps(h), i))]

Policy == INSTANCE LRUKPolicySpec
            WITH evictor <- [accesses  |-> AccessOrder(history),
                             evictable |-> is_evictable]

CallsMatch ==
    /\ evict => Policy!EvictOne
    /\ \A f \in Frames : /\ record_access(f) => Policy!Access(f)
                         /\ set_evictable(f) => Policy!MakeEvictable(f)
                         /\ set_not_evictable(f) => Policy!MakeNotEvictable(f)
                         /\ remove(f) => Policy!Drop(f)

\* The timestamped evictor with its two indexes does what the LRU-K policy
\* says, and each call what the policy's call of that name does: no access goes
\* unrecorded (lruk.cpp 8-101).
RefinesPolicy == Policy!Spec /\ [][CallsMatch]_vars
=============================================================================
