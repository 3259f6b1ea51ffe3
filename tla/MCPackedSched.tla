---------------------------- MODULE MCPackedSched ----------------------------
(* Instances of PackedSched for TLC: the .cfg files give the constants.  No *)
(* action or property tells one buffer from another.                        *)
EXTENDS PackedSched, TLC

Symmetry == Permutations(Bufs)
=============================================================================
