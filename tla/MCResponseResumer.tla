------------------------- MODULE MCResponseResumer -------------------------
(* Small instances of ResponseResumer for TLC. *)
EXTENDS ResponseResumer, TLC

Symmetry == Permutations(Instances) \cup Permutations(Recs)
=============================================================================
