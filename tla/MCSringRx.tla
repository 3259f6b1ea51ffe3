------------------------------ MODULE MCSringRx ------------------------------
(* Instances of SringRx for TLC: the .cfg files give the constants.        *)
EXTENDS SringRx
=============================================================================
