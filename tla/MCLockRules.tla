------------------------------ MODULE MCLockRules ------------------------------
(* Two T dates, windows of up to two days; a template of two windows.       *)
EXTENDS LockRules, TLC
CONSTANTS r1, r2, i1, i2
MCRequest == {r1, r2}
MCRule == {i1, i2}
MCStandard == << [first |-> 0, last |-> 0], [first |-> 1, last |-> 1] >>
Symmetry == Permutations(MCRequest) \cup Permutations(MCRule)
=============================================================================
