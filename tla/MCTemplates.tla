----------------------------- MODULE MCTemplates -----------------------------
(* Requests and names are interchangeable. *)
EXTENDS Templates, TLC

Symmetry == Permutations(Session) \cup Permutations(Name)
=============================================================================
