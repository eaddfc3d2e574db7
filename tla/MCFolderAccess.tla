---------------------------- MODULE MCFolderAccess ----------------------------
(* The path 2024/CEG_01/docs/FINAL; two roles, neither of the NEU, the first   *)
(* mapped to both groups.                                                      *)
EXTENDS FolderAccess

CONSTANTS r1, r2, g1, g2, u1

MCTypeOf == <<"standard", "standard", "partner_specific", "final">>
MCGroupsOf == [r \in Role |-> IF r = r1 THEN {g1, g2} ELSE {g2}]
MCMemberOf == [u \in User |-> {g1}]
MCRule == {[role |-> r1, type |-> "standard", level |-> l] : l \in Level}
MCException == {[folder |-> 3, role |-> r1, level |-> 1]}
===============================================================================
