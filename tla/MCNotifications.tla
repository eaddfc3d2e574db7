--------------------------- MODULE MCNotifications ---------------------------
(* Executions are interchangeable, and so are sessions that look up. *)
EXTENDS Notifications, TLC

Symmetry == Permutations(Processor) \cup Permutations(Caller \ Bypassing)
=============================================================================
