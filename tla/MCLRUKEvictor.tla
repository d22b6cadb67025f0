----------------------------- MODULE MCLRUKEvictor -----------------------------
(* TLC instance of LRUKEvictor and of its refinement of the LRU-K policy. *)
EXTENDS LRUKRefinement
=============================================================================
