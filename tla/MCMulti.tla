------------------------------- MODULE MCMulti -------------------------------
(* Instances of Multi for TLC.                                             *)
EXTENDS Multi, TLC

Symmetry == Permutations(Handle)
==============================================================================
