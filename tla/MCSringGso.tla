----------------------------- MODULE MCSringGso -----------------------------
(* Instances of SringGso for TLC: the .cfg files give the constants.       *)
EXTENDS SringGso
=============================================================================
