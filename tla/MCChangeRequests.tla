-------------------------- MODULE MCChangeRequests --------------------------
(* Instances of ChangeRequests: the CRs overlap in one scope; f1 lies in it, *)
(* f2 in a scope no CR is opened for.                                        *)
EXTENDS ChangeRequests

CONSTANTS f1, f2, t1, t2

MCCRTarget == [c \in CR |-> t1]
MCFolderTarget == [f \in Folder |-> IF f = f2 THEN t2 ELSE t1]
=============================================================================
