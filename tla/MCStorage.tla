------------------------------ MODULE MCStorage ------------------------------
(***************************************************************************)
(* The storage engine with segments of two pages and a cache of one file:  *)
(* a table that grows past its first segment, beside one of a single page. *)
(***************************************************************************)
EXTENDS StorageCalls

MCMaxPages == <<3, 1>>
MCKeys == {1, 2} \X {0, 1}

\* Nothing but DieInControl, which empties the disk, depends on the control
\* file: states that differ in it alone are told apart on an empty disk only.
\* No call looks at how the last one failed: that is told apart only by the
\* invariant that speaks of it.
View == <<IF engine.fs.dirs = {} THEN engine
          ELSE [engine EXCEPT !.control_ = "", !.fs.control = ""],
          alive, stored, FailsOverUnsound>>
=============================================================================
