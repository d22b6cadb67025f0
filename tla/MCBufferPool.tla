------------------------------ MODULE MCBufferPool ------------------------------
(***************************************************************************)
(* TLC instances of BufferPool: the threads are interchangeable.           *)
(***************************************************************************)
EXTENDS BufferPool, TLC

ThreadSymmetry == Permutations(Threads)
=============================================================================
