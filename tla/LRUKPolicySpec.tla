---------------------------- MODULE LRUKPolicySpec ----------------------------
(***************************************************************************)
(* The LRU-K policy as a state machine: one action per call of the Evictor *)
(* interface (evictor.h 11-19).                                            *)
(***************************************************************************)
EXTENDS LRUKPolicy

VARIABLES evictor,  \* accesses and evictable frames, as in LRUKPolicy
          victim    \* what the last call of evict() returned

policyVars == <<evictor, victim>>

Init == evictor = Untouched /\ victim = NoFrame

Access(f) == evictor' = RecordAccess(evictor, f) /\ UNCHANGED victim

MakeEvictable(f) == evictor' = SetEvictable(evictor, f) /\ UNCHANGED victim

MakeNotEvictable(f) == evictor' = SetNotEvictable(evictor, f) /\ UNCHANGED victim

Drop(f) == evictor' = Forget(evictor, f) /\ UNCHANGED victim

EvictOne == /\ victim' = Victim(evictor)
            /\ evictor' = IF victim' = NoFrame
                          THEN evictor
                          ELSE Forget(evictor, victim')

Next == \/ \E f \in Frames : \/ Access(f)
                             \/ MakeEvictable(f)
                             \/ MakeNotEvictable(f)
                             \/ Drop(f)
        \/ EvictOne

Spec == Init /\ [][Next]_policyVars
=============================================================================
