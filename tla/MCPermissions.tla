----------------------------- MODULE MCPermissions -----------------------------
(* A user and a group have an assignment on a folder on which the group has   *)
(* two permissions already, so that a page is too short once the user has     *)
(* been invited; a queued batch of both assignments, and one of the group's   *)
(* that is handed over in any way.                                            *)
EXTENDS Permissions
CONSTANTS b1, b2, a1, a2, user, group, read, write
MCPrincipalOf == [a \in Assignment |-> IF a = a1 THEN user ELSE group]
MCRoleOf == [a \in Assignment |-> IF a = a1 THEN write ELSE read]
MCContent == [b \in Batch |-> IF b = b1 THEN {a1, a2} ELSE {a2}]
MCKinds == [b \in Batch |->
    IF b = b1 THEN {"queued"} ELSE {"queued", "immediate", "bulk"}]
MCBefore == {{[id |-> 1, principal |-> group, role |-> write],
             [id |-> 2, principal |-> group, role |-> read]}}
=============================================================================
