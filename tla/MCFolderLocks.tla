--------------------------- MODULE MCFolderLocks ---------------------------
(* Requests are interchangeable. *)
EXTENDS FolderLocks, TLC

Symmetry == Permutations(Session)
=============================================================================
