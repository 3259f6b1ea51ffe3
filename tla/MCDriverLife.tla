----------------------------- MODULE MCDriverLife -----------------------------
(* Instances of DriverLife for TLC: the .cfg files give the constants.      *)
EXTENDS DriverLife
=============================================================================
