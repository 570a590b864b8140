---------------------------- MODULE MCSettlement ----------------------------
(* The courier, his deposit and two members of staff, for TLC. *)
EXTENDS Settlement, TLC

Symmetry == Permutations(Staff) \cup Permutations(Drivers) \cup Permutations(Workers)
=============================================================================
