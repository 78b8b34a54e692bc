---------------------------- MODULE MCOwnership ----------------------------
(* Small instances of Ownership; the users other than the creator are alike. *)
EXTENDS Ownership, TLC

Perms == Permutations(Users \ {Creator}) \cup Permutations(Requests)
=============================================================================
