----------------------------- MODULE MCPostCall -----------------------------
(* Small instances of PostCall for TLC.                                    *)
EXTENDS PostCall, TLC

CONSTANTS r1, r2

Symmetry == Permutations({r1, r2})
=============================================================================
