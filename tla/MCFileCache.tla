----------------------------- MODULE MCFileCache -----------------------------
(***************************************************************************)
(* The file cache with more keys than it has room for.                     *)
(***************************************************************************)
EXTENDS FileCacheCalls
=============================================================================
