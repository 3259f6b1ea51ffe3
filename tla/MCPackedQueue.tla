---------------------------- MODULE MCPackedQueue ----------------------------
(* Instances of PackedQueue for TLC: the .cfg files give the constants.  No *)
(* action or property tells one buffer from another.                        *)
EXTENDS PackedQueue, TLC

Symmetry == Permutations(Bufs)
=============================================================================
