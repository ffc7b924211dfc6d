----------------------------- MODULE MCConnCache -----------------------------
(* Small instances of ConnCache for TLC.                                     *)
EXTENDS ConnCache, TLC

\* No limit, a negative one, and some that are reached.
Options == {-1, 0, 2}
EasyOptions == {-1, 1, 2, 3}

\* The keys are interchangeable.
Symmetry == Permutations(Key)
=============================================================================
