------------------------------ MODULE MCPoints ------------------------------
(* A counter sale and a delivered order of one customer, each worth one    *)
(* rung of the ladder.                                                     *)
EXTENDS Points, TLC

CONSTANTS o1, o2, w1, w2, s1, s2

OnePoint == [o \in Orders |-> 1]
\* Workers are alike, and so are sweeps.
Alike == Permutations(Workers) \cup Permutations(Sweeps)
Ladder == (0 :> "REGULAR") @@ (1 :> "SILVER") @@ (2 :> "GOLD")
=============================================================================
