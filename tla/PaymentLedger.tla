--------------------------- MODULE PaymentLedger ---------------------------
(***************************************************************************)
(* What payment-service promises about one payment, without requests,      *)
(* approvals or stale reads: money is taken once, and a refund is one      *)
(* exclusive attempt that either moves the money or gives it up.           *)
(***************************************************************************)
EXTENDS Naturals

CONSTANT Payments
VARIABLES entry,    \* [Payments -> Entries]
          paidOut   \* [Payments -> Nat], refunds made by the provider

Entries == {"none", "open", "held", "closed", "returning", "returned", "lost"}

LedgerInit ==
    /\ entry = [p \in Payments |-> "none"]
    /\ paidOut = [p \in Payments |-> 0]

Move(p, from, to) == entry[p] = from /\ entry' = [entry EXCEPT ![p] = to]

Open(p)   == Move(p, "none", "open") /\ UNCHANGED paidOut
Take(p)   == Move(p, "open", "held") /\ UNCHANGED paidOut
Close(p)  == Move(p, "open", "closed") /\ UNCHANGED paidOut
\* Money that never went through the provider is handed back by hand.
ByHand(p) == Move(p, "held", "returned") /\ UNCHANGED paidOut
Try(p)    == Move(p, "held", "returning") /\ UNCHANGED paidOut
GiveUp(p) == Move(p, "returning", "held") /\ UNCHANGED paidOut
Return(p) == Move(p, "returning", "returned")
             /\ paidOut' = [paidOut EXCEPT ![p] = @ + 1]
\* The attempt died, or could not be given up: refunded on paper only.
Lose(p)   == Move(p, "returning", "lost") /\ UNCHANGED paidOut

LedgerNext ==
    \E p \in Payments :
        \/ Open(p) \/ Take(p) \/ Close(p) \/ ByHand(p)
        \/ Try(p) \/ GiveUp(p) \/ Return(p) \/ Lose(p)

LedgerSpec == LedgerInit /\ [][LedgerNext]_<<entry, paidOut>>
============================================================================
