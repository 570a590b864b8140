----------------------------- MODULE MCPayment -----------------------------
(* Small instances of Payment: one order with two possible payments. *)
EXTENDS PaymentImplementsLedger, TLC

CONSTANTS o1, p1, p2, t1, t2, t3

OneOrder == [p \in Payments |-> o1]
OnlineThenCash == [p \in Payments |-> IF p = p1 THEN "ONLINE" ELSE "CASH"]
OnlineIsHigh == {p1}
\* The liveness run: one online payment at or below the threshold, so that its
\* refund goes to the provider instead of waiting on HQ.
AllOnline == [p \in Payments |-> "ONLINE"]
NoneHigh == {}
ThreadSymmetry == Permutations(Threads)
============================================================================
