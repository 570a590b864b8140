---------------------- MODULE PaymentImplementsLedger ----------------------
(***************************************************************************)
(* Payment implements PaymentLedger.  A REFUNDED row is a refund under way *)
(* while the request that claimed it has not heard from the provider, and  *)
(* only on paper when nobody is left to send the money.                    *)
(***************************************************************************)
EXTENDS Payment

Refunding(p) == \E t \in Threads : On(t, p) /\ thread[t].at \in MoneySteps

EntryOf(p) ==
    CASE pay[p].status = "NEW"     -> "none"
      [] pay[p].status = "PENDING" -> "open"
      [] pay[p].status = "FAILED"  -> "closed"
      [] pay[p].status = "PAID"    -> "held"
      [] OTHER ->
            IF Refunding(p) THEN "returning"
            ELSE IF MethodOf[p] = "ONLINE" /\ pay[p].ref /\ gateway[p].refunds = 0
                 THEN "lost"
                 ELSE "returned"

Ledger == INSTANCE PaymentLedger
    WITH entry   <- [p \in Payments |-> EntryOf(p)],
         paidOut <- [p \in Payments |-> gateway[p].refunds]

\* The claim of executeRefund makes the two steps of a refund (the row and the
\* money) one exclusive attempt, whichever requests race for it: every step of
\* payment-service is a step of the ledger or invisible in it.
LedgerSpec == Ledger!LedgerSpec
============================================================================
