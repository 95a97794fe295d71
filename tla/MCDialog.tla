------------------------------ MODULE MCDialog ------------------------------
(***************************************************************************)
(* Small instances of Dialog for TLC.                                      *)
(***************************************************************************)
EXTENDS Dialog, TLC

CONSTANTS w1, w2, t1, t2, blank

Symmetry == Permutations(Words) \cup Permutations(Updates)

=============================================================================
