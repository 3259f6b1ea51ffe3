------------------------------ MODULE MCSringTx ------------------------------
(* Instances of SringTx for TLC: the .cfg files give the constants.        *)
EXTENDS SringTx
=============================================================================
