---------------------------- MODULE MCFulfilment ----------------------------
(* One order that two depots stock, or two orders of one line; two requests. *)
EXTENDS Fulfilment, TLC

CONSTANTS a, b, d1, d2, o1, o2, t1, t2

OneLine == [l \in Lines |-> d1]
OneLineEach == (a :> d1) @@ (b :> d2)
Anywhere == [o \in Orders |-> Lines]
OneUnit == [o \in Orders |-> 1]
Twice == [k \in Topics |-> 2]
Requests == Ops \ {"sweep"}
CrashOps == {"checkout", "expire"}
ButVoid == Ops \ {"void"}

\* A sale at the counter beside an order of another kind, or two such sales.
LastUnitInit == Init /\ \E o \in Orders : order[o].kind = "counter"
LastUnitSpec == LastUnitInit /\ [][Next]_vars

ThreadSymmetry == Permutations({t1, t2})
Alike == ThreadSymmetry \cup Permutations({o1, o2})
=============================================================================
