-------------------------- MODULE MCBackendControl --------------------------
(* Instances of BackendControl for TLC: the .cfg files give the constants. *)
EXTENDS BackendControl
=============================================================================
