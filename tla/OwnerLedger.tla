----------------------------- MODULE OwnerLedger -----------------------------
(***************************************************************************)
(* The franchise owner's ledger of payout-service: what completed sales    *)
(* credit, what voided ones take back, and what the owner cashes out.      *)
(*                                                                         *)
(* The revenue handler runs in order-service and makes one or two calls;   *)
(* the calls' look-ups and writes are separate steps in payout-service.    *)
(* One owner, one depot with a commission scheme, sales of one size.       *)
(***************************************************************************)
EXTENDS SaleOutbox

CONSTANTS
    Sale, Commission, \* rupiah of every sale, and HQ's cut of it
    Cashouts          \* attempts to cash out, each with its idempotency key

ASSUME LedgerTopics ==
    EffectTopics = {"FRANCHISE_REVENUE"} /\ VoidTopics = {"FRANCHISE_REVENUE_VOID"}
ASSUME AmountsAssumption ==
    /\ Sale \in Nat \ {0} /\ Commission \in 0..Sale - 1
    /\ IsFiniteSet(Orders) /\ IsFiniteSet(Cashouts)

VARIABLES
    refs,    \* [Orders -> SUBSET RefKinds]: the rows with the order's sourceRefs
    cashout, \* [Cashouts -> [state, amount]]: the withdrawals
    debits,  \* Int: what the WITHDRAWAL and reversal rows sum up to
    settling,\* [Cashouts -> SUBSET Outcomes]: settlements past their look-up
    cut      \* SUBSET Orders: history, sales whose push lost its second look

ledgerVars == <<refs, cashout, debits, settling>>
vars == <<outboxVars, refs, cashout, debits, settling, cut>>

RefKinds == {"SALE", "COMMISSION", "VOID_SALE", "VOID_COMMISSION"}
Outcomes == {"PAID", "FAILED"}
CashoutStates == {"NONE", "PROCESSING"} \cup Outcomes
Places == {"deliver", "start", "push", "post", "after", "voidRead", "voidWrite"} \cup Ends
ASSUME NoJobAssumption == NoJob \notin Job(Places)

TypeOK ==
    /\ OutboxTypeOK(Places)
    /\ refs \in [Orders -> SUBSET RefKinds]
    /\ cashout \in [Cashouts -> [state : CashoutStates, amount : Nat]]
    /\ debits \in Int
    /\ settling \in [Cashouts -> SUBSET Outcomes]
    /\ cut \subseteq Orders

Init ==
    /\ OutboxInit
    /\ refs = [o \in Orders |-> {}]
    /\ cashout = [c \in Cashouts |-> [state |-> "NONE", amount |-> 0]]
    /\ debits = 0
    /\ settling = [c \in Cashouts |-> {}]
    /\ cut = {}

----------------------------------------------------------------------------
(* Balances *)

OrdersWith(kind) == {o \in Orders : kind \in refs[o]}
Rows(kind) == Cardinality(OrdersWith(kind))

\* balanceFor: the signed sum of every row.
Balance ==
    Sale * (Rows("SALE") - Rows("VOID_SALE"))
      - Commission * (Rows("COMMISSION") - Rows("VOID_COMMISSION")) + debits

----------------------------------------------------------------------------
(* recordOrderRevenue and reverseOrderRevenue *)

Crediting(w, place) == At(w, "FRANCHISE_REVENUE", place)
Step(w, place) == Goto(w, place) /\ UNCHANGED <<order, row, inline, slips>>
Own(w) == job[w].o

\* The order and the depot's owners are read, then the push goes out.
RevenueStart(w) ==
    /\ Crediting(w, "start")
    /\ Step(w, "push")
    /\ UNCHANGED ledgerVars

\* An earlier push has landed, or this one is to post.  order-service answers a
\* push it waits for with a second look at the sale.
Landed(w) == IF job[w].owned THEN "after" ELSE "ack"

RevenueFind(w) ==
    /\ Crediting(w, "push")
    /\ Step(w, IF "SALE" \in refs[Own(w)] THEN Landed(w) ELSE "post")
    /\ UNCHANGED ledgerVars

PostSaleOnly(o) == [refs EXCEPT ![o] = @ \cup {"SALE"}]  \* mutant: H-7
\* createAll is one transaction, and the unique sourceRef picks a winner.
Posted(o) ==
    [refs EXCEPT ![o] = @ \cup {"SALE"} \cup IF Commission > 0 THEN {"COMMISSION"} ELSE {}]

RevenuePost(w) ==
    /\ Crediting(w, "post")
    /\ refs' = Posted(Own(w))
    /\ Step(w, Landed(w))
    /\ UNCHANGED <<cashout, debits, settling>>

\* "A counter sale voided while this push was in flight ... Reverse it now that
\* it has" landed.
RevenueAfter(w) ==
    /\ Crediting(w, "after")
    /\ Step(w, IF order[Own(w)] = "VOIDED" THEN "voidRead" ELSE "ack")
    /\ UNCHANGED ledgerVars

VoidStart(w) ==
    /\ At(w, "FRANCHISE_REVENUE_VOID", "start")
    /\ Step(w, "voidRead")
    /\ UNCHANGED ledgerVars

Voiding(w, place) == job[w] # NoJob /\ job[w].at = place

\* Nothing to back out, or it was backed out before.
VoidRead(w) ==
    /\ Voiding(w, "voidRead")
    /\ Step(w, IF "SALE" \in refs[Own(w)] /\ "VOID_SALE" \notin refs[Own(w)]
               THEN "voidWrite" ELSE "ack")
    /\ UNCHANGED ledgerVars

\* Every row of the order is mirrored, in one transaction.
Mirrored(o) ==
    [refs EXCEPT ![o] = @ \cup {"VOID_SALE"}
                          \cup IF "COMMISSION" \in @ THEN {"VOID_COMMISSION"} ELSE {}]

VoidWrite(w) ==
    /\ Voiding(w, "voidWrite")
    /\ refs' = Mirrored(Own(w))
    /\ Step(w, "ack")
    /\ UNCHANGED <<cashout, debits, settling>>

----------------------------------------------------------------------------
(* Cashing out *)

\* withdrawWithDebit, under the owner's advisory lock: a repeated attempt gets
\* the first withdrawal back, and the row and its debit are one transaction.
\* HQ's release asks for the whole balance, the owner for less.
Withdraw(c) ==
    /\ cashout[c].state = "NONE"
    /\ \E amount \in {Balance, 1} :
          /\ amount > 0 /\ amount <= Balance
          /\ cashout' = [cashout EXCEPT ![c] = [state |-> "PROCESSING", amount |-> amount]]
          /\ debits' = debits - amount
    /\ UNCHANGED <<outboxVars, refs, settling>>

SettleRead(c, outcome) ==
    /\ cashout[c].state = "PROCESSING"
    /\ settling' = [settling EXCEPT ![c] = @ \cup {outcome}]
    /\ UNCHANGED <<outboxVars, refs, cashout, debits>>

\* The status guard is in the WHERE: whoever loses the update changes nothing.
MaySettle(c) == cashout[c].state = "PROCESSING"

\* A transfer the bank refused is credited back in the same transaction.
SettleWrite(c, outcome) ==
    /\ outcome \in settling[c]
    /\ settling' = [settling EXCEPT ![c] = @ \ {outcome}]
    /\ IF MaySettle(c)
       THEN /\ cashout' = [cashout EXCEPT ![c].state = outcome]
            /\ debits' = IF outcome = "FAILED" THEN debits + cashout[c].amount ELSE debits
       ELSE UNCHANGED <<cashout, debits>>
    /\ UNCHANGED <<outboxVars, refs>>

----------------------------------------------------------------------------

RevenueStep(w) ==
    \/ RevenueStart(w) \/ RevenueFind(w) \/ RevenuePost(w) \/ RevenueAfter(w)
    \/ VoidStart(w) \/ VoidRead(w) \/ VoidWrite(w)

\* A call is at work in payout-service; order-service looks at the sale again
\* only when its push has been answered, and backs it out with a call of its own.
Remote == {"push", "post", "voidRead", "voidWrite"}
SecondLook == {"after", "voidRead", "voidWrite"}
Cut(w, places) ==
    cut' = IF \E place \in places : Crediting(w, place) THEN cut \cup {Own(w)} ELSE cut

\* The 5 s abort of either call: the push or the reversal runs on unheard.
AbortCall(w) ==
    /\ job[w] # NoJob /\ job[w].at \in Remote
    /\ Abort(w) /\ Cut(w, Remote)

\* order-service dies while payout-service runs on: the row stays as it is.
CallerDies(w) ==
    /\ job[w] # NoJob /\ job[w].owned /\ job[w].at \in Remote /\ slips < MaxSlips
    /\ job' = [job EXCEPT ![w] = Unowned(@)]
    /\ slips' = slips + 1
    /\ Cut(w, Remote)
    /\ UNCHANGED <<order, row, inline>>

\* The owners cannot be read, or payout-service refuses: the handler throws.
CallFails(w) ==
    /\ job[w] # NoJob /\ job[w].at \notin {"deliver"} \cup Ends /\ slips < MaxSlips
    /\ Goto(w, "fail")
    /\ slips' = slips + 1
    /\ Cut(w, SecondLook)
    /\ UNCHANGED <<order, row, inline>>

CallDies(w) == Crash(w) /\ Cut(w, SecondLook)

CallGoesWrong(w) == AbortCall(w) \/ CallerDies(w) \/ CallFails(w) \/ CallDies(w)

CashoutStep ==
    \E c \in Cashouts :
        Withdraw(c) \/ \E s \in Outcomes : SettleRead(c, s) \/ SettleWrite(c, s)

Next ==
    \/ SaleStep /\ UNCHANGED <<ledgerVars, cut>>
    \/ CashoutStep /\ UNCHANGED cut
    \/ \E w \in Workers :
          \/ RevenueStep(w) /\ UNCHANGED cut
          \/ /\ \/ \E o \in Orders, k \in Topics : Take(w, o, k)
                \/ \E o \in Orders, k \in VoidTopics : ReverseInline(w, o, k)
                \/ Deliver(w) \/ Finish(w)
             /\ UNCHANGED <<ledgerVars, cut>>
          \/ CallGoesWrong(w) /\ UNCHANGED ledgerVars

Spec == Init /\ [][Next]_vars

Fairness ==
    /\ \A w \in Workers :
          /\ WF_vars(RevenueStep(w) /\ UNCHANGED cut)
          /\ WF_vars((Deliver(w) \/ Finish(w)) /\ UNCHANGED <<ledgerVars, cut>>)
    /\ \A o \in Orders, k \in Topics :
          WF_vars(\E w \in Workers : Take(w, o, k) /\ UNCHANGED <<ledgerVars, cut>>)

FairSpec == Spec /\ Fairness

----------------------------------------------------------------------------
(* Safety *)

Quiet(o) ==
    /\ \A k \in Topics : row[o][k].state # "PENDING"
    /\ \A w \in Workers : job[w] # NoJob => job[w].o # o

Credited(o) == order[o] = "COMPLETED" /\ row[o]["FRANCHISE_REVENUE"].state = "DONE"
GivenUp(o) == \E k \in Topics : row[o][k].state = "DEAD"

\* What the owner has cashed out and not got back, counted in rupiah.
Notes(cashouts) == UNION {{c} \X (1..cashout[c].amount) : c \in cashouts}
CashedOut == Cardinality(Notes({c \in Cashouts : cashout[c].state \in {"PROCESSING", "PAID"}}))

\* The credit of a voided sale that nothing has backed out.
Stranded(o) == order[o] = "VOIDED" /\ "SALE" \in refs[o] /\ "VOID_SALE" \notin refs[o]

\* H-7, C3 and PYO-4 together: once the deliveries have come to rest, the
\* owner's balance is the net of the sales credited, those that stand and those
\* whose credit was stranded, less what was cashed out and not refused, whatever
\* was pushed twice, voided or settled by two people.  And a credit is stranded
\* only where a push, or the reversal order-service makes after it, was lost.
BooksBalance ==
    (\A o \in Orders : Quiet(o) /\ ~GivenUp(o)) =>
        /\ Balance = (Sale - Commission) * Cardinality({o \in Orders : Credited(o) \/ Stranded(o)})
                       - CashedOut
        /\ \A o \in Orders : Stranded(o) => o \in cut

\* "Reverse it now that it has" landed: no voided sale leaves the owner a credit.
VoidedIsBackedOut ==
    \A o \in Orders : Quiet(o) /\ ~GivenUp(o) => ~Stranded(o)

----------------------------------------------------------------------------
(* Liveness *)

\* A completed sale is credited in the end, though the request that completed
\* it died or a push was lost, unless it is voided or an operator is told.
CompletedIsCredited ==
    \A o \in Orders :
        order[o] = "COMPLETED" ~>
            "SALE" \in refs[o] \/ order[o] = "VOIDED" \/ GivenUp(o)

=============================================================================
