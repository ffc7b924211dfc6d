------------------------------- MODULE MCTftp -------------------------------
(* Small instances of Tftp for TLC: block numbers wrap around within the file. *)
EXTENDS Tftp, TLC

CONSTANTS s1, s2
Sessions == {s1, s2}
Symmetry == Permutations(Sessions)
=============================================================================
