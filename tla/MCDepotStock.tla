---------------------------- MODULE MCDepotStock ----------------------------
(* Two orders at one depot: both want line a, one of them line b as well. *)
EXTENDS DepotStock, TLC

CONSTANTS a, b, d1, o1, o2, t1, t2

OneDepot == [l \in Lines |-> d1]
TwoLines == (o1 :> {a, b}) @@ (o2 :> {a})
OneEach == (o1 :> 1) @@ (o2 :> 1)

ThreadSymmetry == Permutations({t1, t2})
=============================================================================
