------------------------------ MODULE Payment ------------------------------
(***************************************************************************)
(* payment-service: the life of a payment row, from initiate to refund.    *)
(*                                                                         *)
(* Every request is a thread that reads the row, decides, and then writes  *)
(* with a compare-and-set (updateIfStatus); between two steps of a thread  *)
(* any other thread may run.  The payment provider and order-service are   *)
(* external: order is the order's status as order-service answers it,      *)
(* gateway what the provider has done with the charge.                     *)
(***************************************************************************)
EXTENDS Naturals, FiniteSets

CONSTANTS
    Orders, Payments,   \* order ids; payment ids that initiate may draw
    Threads,            \* concurrent requests and sweeps
    NoJob,              \* a thread between two requests
    OrderOf, MethodOf,  \* columns of a row that never change
    High,               \* the payments whose amount is above the HQ threshold
    ChargeRaces,        \* may a request touch a row while its charge is opened?
    LostReplies,        \* may the provider act and its answer be lost (8 s abort)?
    Crashes,            \* may the process die between two steps?
    MaxRefunds          \* bound: provider refunds counted per payment

Methods  == {"CASH", "TRANSFER", "ONLINE"}
Statuses == {"NEW", "PENDING", "PAID", "FAILED", "REFUNDED"}
Approvals == {"NONE", "PENDING", "APPROVED", "REJECTED"}
Active == {"PENDING", "PAID"}
Over   == {"CANCELLED", "VOIDED"}

ASSUME ColumnsAssumption ==
    /\ OrderOf \in [Payments -> Orders]
    /\ MethodOf \in [Payments -> Methods]
    /\ High \subseteq Payments
ASSUME FlagsAssumption ==
    {ChargeRaces, LostReplies, Crashes} \subseteq BOOLEAN
ASSUME MaxRefundsAssumption == MaxRefunds \in Nat \ {0}

VARIABLES
    pay,      \* the payments table: [Payments -> Row]
    thread,   \* [Threads -> Job \cup {NoJob}]
    order,    \* [Orders -> OrderStatuses], owned by order-service
    gateway,  \* [Payments -> what the provider did]
    alarm     \* [Payments -> SUBSET Alarms], how anyone hears of a payment

vars == <<pay, thread, order, gateway, alarm>>

\* ref: the charge reference is stored; recent: paidAt is within the 48 hours
\* that the reconciliation sweep looks back.
Row == [status : Statuses, approval : Approvals, ref : BOOLEAN, recent : BOOLEAN]
NewRow == [status |-> "NEW", approval |-> "NONE", ref |-> FALSE, recent |-> FALSE]
Steps == {"status", "create", "charge", "attach", "unwind",
          "settle", "notify", "markFailed", "reread",
          "refund", "queue", "claim", "gateway", "handBack", "record",
          "rejectStatus", "reject"}
BirthSteps == {"status", "create"}
ChargeSteps == {"charge", "attach", "unwind"}
MoneySteps == {"gateway", "handBack"}
Ops == {"initiate", "confirm", "fail", "expire", "webhookPaid", "webhookFailed",
        "cancel", "void", "refund", "approve", "reject"}
Job == [at : Steps, op : Ops, p : Payments, seen : Row]
OrderStatuses == {"CREATED", "CONFIRMED", "CANCELLED", "VOIDED"}
\* byHand: logged for reconciliation by hand; claimed: the notice to the depot is
\* somebody's (unconfirmedNotifiedAt); told, lost: what became of its only send.
Alarms == {"byHand", "claimed", "told", "lost"}
Gateway == [charged : BOOLEAN, paid : BOOLEAN, refunds : 0..MaxRefunds]

ASSUME NoJobAssumption == NoJob \notin Job

TypeOK ==
    /\ pay \in [Payments -> Row]
    /\ thread \in [Threads -> Job \cup {NoJob}]
    /\ order \in [Orders -> OrderStatuses]
    /\ gateway \in [Payments -> Gateway]
    /\ alarm \in [Payments -> SUBSET Alarms]

Init ==
    /\ pay = [p \in Payments |-> NewRow]
    /\ thread = [t \in Threads |-> NoJob]
    /\ order = [o \in Orders |-> "CREATED"]
    /\ gateway = [p \in Payments |-> [charged |-> FALSE, paid |-> FALSE, refunds |-> 0]]
    /\ alarm = [p \in Payments |-> {}]

----------------------------------------------------------------------------
(* Threads and rows *)

Free(t) == thread[t] = NoJob
At(t, step) == thread[t] # NoJob /\ thread[t].at = step
On(t, p) == thread[t] # NoJob /\ thread[t].p = p
Done(t) == thread' = [thread EXCEPT ![t] = NoJob]
Goto(t, step) == thread' = [thread EXCEPT ![t].at = step]
Begin(t, step, op, p, seen) ==
    thread' = [thread EXCEPT ![t] = [at |-> step, op |-> op, p |-> p, seen |-> seen]]

IsActive(p) == pay[p].status \in Active
OtherActiveUnindexed(p) == FALSE  \* mutant: no partial unique index
OtherActive(p) == \E q \in Payments \ {p} : OrderOf[q] = OrderOf[p] /\ IsActive(q)

\* A row whose initiate has not answered yet; unless ChargeRaces, no other
\* request reaches it in those seconds.
Opening(p) == \E t \in Threads : On(t, p) /\ thread[t].at \in ChargeSteps
Readable(p) == pay[p].status # "NEW" /\ (ChargeRaces \/ ~Opening(p))

\* updateIfStatus: the row changes only if it is still as expected.
Set(p, status, approval) ==
    pay' = [pay EXCEPT ![p].status = status, ![p].approval = approval]
Keep(p, status) == pay' = [pay EXCEPT ![p].status = status]

----------------------------------------------------------------------------
(* initiate *)

\* No active payment for the order, so the request goes on with a fresh id.
Initiate(t, p) ==
    /\ Free(t)
    /\ pay[p].status = "NEW"
    /\ \A u \in Threads : ~On(u, p)
    /\ \A q \in Payments : OrderOf[q] = OrderOf[p] => ~IsActive(q)
    /\ Begin(t, "status", "initiate", p, NewRow)
    /\ UNCHANGED <<pay, order, gateway, alarm>>

\* An order that is over is refused; an unreadable status lets it through.
CheckOrder(t) ==
    /\ At(t, "status")
    /\ \E readable \in BOOLEAN :
          IF readable /\ order[OrderOf[thread[t].p]] \in Over
          THEN Done(t)
          ELSE Goto(t, "create")
    /\ UNCHANGED <<pay, order, gateway, alarm>>

\* create: the partial unique index refuses a second active row.
Create(t) ==
    /\ At(t, "create")
    /\ LET p == thread[t].p IN
       \/ /\ OtherActive(p)
          /\ Done(t)
          /\ UNCHANGED pay
       \/ /\ ~OtherActive(p)
          /\ pay' = [pay EXCEPT ![p].status = "PENDING"]
          /\ IF MethodOf[p] = "ONLINE" THEN Goto(t, "charge") ELSE Done(t)
    /\ UNCHANGED <<order, gateway, alarm>>

\* createCharge: opened, refused, or opened with the answer lost.
Charge(t) ==
    /\ At(t, "charge")
    /\ LET Opened == gateway' = [gateway EXCEPT ![thread[t].p].charged = TRUE] IN
       \/ Opened /\ Goto(t, "attach")
       \/ UNCHANGED gateway /\ Goto(t, "unwind")
       \/ LostReplies /\ Opened /\ Goto(t, "unwind")
    /\ UNCHANGED <<pay, order, alarm>>

\* update: written whatever the row has become meanwhile, except that the
\* index still refuses to make it active beside another active row.
AttachCharge(t) ==
    /\ At(t, "attach")
    /\ LET p == thread[t].p IN
       IF OtherActive(p)
       THEN UNCHANGED pay
       ELSE pay' = [pay EXCEPT ![p].status = "PENDING", ![p].ref = TRUE]
    /\ Done(t)
    /\ UNCHANGED <<order, gateway, alarm>>

\* The catch block: FAILED, whatever the row has become meanwhile.
UnwindCharge(t) ==
    /\ At(t, "unwind")
    /\ Keep(thread[t].p, "FAILED")
    /\ Done(t)
    /\ UNCHANGED <<order, gateway, alarm>>

----------------------------------------------------------------------------
(* confirm, fail, the expiry sweep and the provider's webhook *)

SettleGuardTransfer(op, p) ==  \* mutant: the sweep forgets the online payments
    CASE op = "expire"        -> MethodOf[p] = "TRANSFER"
      [] op = "webhookPaid"   -> pay[p].ref /\ gateway[p].paid
      [] op = "webhookFailed" -> pay[p].ref /\ ~gateway[p].paid
      [] OTHER                -> TRUE
\* What each of them asks of the row it reads.
SettleGuard(op, p) ==
    CASE op = "expire"        -> MethodOf[p] # "CASH"
      [] op = "webhookPaid"   -> pay[p].ref /\ gateway[p].paid
      [] op = "webhookFailed" -> pay[p].ref /\ ~gateway[p].paid
      [] OTHER                -> TRUE

ReadToSettle(t, p, op) ==
    /\ Free(t)
    /\ Readable(p)
    /\ pay[p].status = "PENDING"
    /\ SettleGuard(op, p)
    /\ Begin(t, "settle", op, p, pay[p])
    /\ UNCHANGED <<pay, order, gateway, alarm>>

MayWriteBlind(p, expected) == TRUE  \* mutant: matched on id alone
MayWrite(p, expected) == pay[p].status = expected

\* The compare-and-set on PENDING.  Cash confirmed from the courier's offline
\* queue carries the capture time, up to seven days old.
Settle(t) ==
    /\ At(t, "settle")
    /\ LET p == thread[t].p
           paid == thread[t].op \in {"confirm", "webhookPaid"}
       IN
       \/ /\ MayWrite(p, "PENDING") /\ paid
          /\ \E recent \in (IF MethodOf[p] = "CASH" THEN BOOLEAN ELSE {TRUE}) :
                pay' = [pay EXCEPT ![p].status = "PAID", ![p].recent = recent]
          /\ Goto(t, "notify")
       \/ /\ MayWrite(p, "PENDING") /\ ~paid
          /\ Keep(p, "FAILED")
          /\ Done(t)
       \/ /\ ~MayWrite(p, "PENDING")
          /\ Done(t)
          /\ UNCHANGED pay
    /\ UNCHANGED <<order, gateway, alarm>>

\* confirmPaid reaches order-service, or is lost: fail-open.
ConfirmOrder(t) ==
    /\ At(t, "notify")
    /\ LET o == OrderOf[thread[t].p] IN
       \/ order' = [order EXCEPT ![o] = IF @ = "CREATED" THEN "CONFIRMED" ELSE @]
       \/ UNCHANGED order
    /\ Done(t)
    /\ UNCHANGED <<pay, gateway, alarm>>

----------------------------------------------------------------------------
(* cancelForOrder and voidForOrder *)

\* findActiveByOrder, for the order's cancellation, for the sweep that looks
\* for money paid on an order that is over, and for a counter sale being voided.
TakeActive(t, p, op) ==
    /\ Readable(p)
    /\ IsActive(p)
    /\ LET paidStep == IF op = "void" THEN "claim" ELSE "refund" IN
       Begin(t, IF pay[p].status = "PAID" THEN paidStep ELSE "markFailed", op, p, pay[p])
    /\ UNCHANGED <<pay, order, gateway, alarm>>

CancelForOrder(t, p) ==
    /\ Free(t)
    /\ order[OrderOf[p]] = "CANCELLED"
    /\ TakeActive(t, p, "cancel")

\* order-service has looked at the order before it asks; by now it may be over.
VoidForOrder(t, p) ==
    /\ Free(t)
    /\ TakeActive(t, p, "void")

ReconcilableCancelled(p) ==  \* mutant: forgets the voided sales
    /\ pay[p].status = "PAID" /\ pay[p].recent /\ pay[p].approval # "PENDING"
    /\ order[OrderOf[p]] = "CANCELLED"
Reconcilable(p) ==
    /\ pay[p].status = "PAID" /\ pay[p].recent /\ pay[p].approval # "PENDING"
    /\ order[OrderOf[p]] \in Over

Reconcile(t, p) ==
    /\ Free(t)
    /\ Reconcilable(p)
    /\ TakeActive(t, p, "cancel")

MarkFailed(t) ==
    /\ At(t, "markFailed")
    /\ LET p == thread[t].p IN
       \/ MayWrite(p, "PENDING") /\ Keep(p, "FAILED") /\ Done(t)
       \/ ~MayWrite(p, "PENDING") /\ Goto(t, "reread") /\ UNCHANGED pay
    /\ UNCHANGED <<order, gateway, alarm>>

\* The row was settled first: whatever is active now is refunded if it is PAID.
Reread(t) ==
    /\ At(t, "reread")
    /\ LET o == OrderOf[thread[t].p] IN
       \/ /\ \E q \in Payments :
                /\ OrderOf[q] = o /\ Readable(q) /\ pay[q].status = "PAID"
                /\ TakeActive(t, q, thread[t].op)
       \/ /\ \A q \in Payments : OrderOf[q] = o => pay[q].status # "PAID"
          /\ Done(t)
          /\ UNCHANGED <<pay, order, gateway, alarm>>

----------------------------------------------------------------------------
(* refund, the HQ approval queue, executeRefund *)

\* refund, asked by staff; cancelForOrder enters at the same step.
AskRefund(t, p) ==
    /\ Free(t)
    /\ Readable(p)
    /\ Begin(t, "refund", "refund", p, pay[p])
    /\ UNCHANGED <<pay, order, gateway, alarm>>

ReadToRefund(t) ==
    /\ At(t, "refund")
    /\ LET p == thread[t].p
           step == IF p \in High THEN "queue" ELSE "claim"
       IN
       \/ /\ pay[p].status = "PAID" /\ pay[p].approval # "PENDING"
          /\ Begin(t, step, thread[t].op, p, pay[p])
       \/ /\ pay[p].status # "PAID" \/ pay[p].approval = "PENDING"
          /\ Done(t)
    /\ UNCHANGED <<pay, order, gateway, alarm>>

UnmovedById(p, seen) == TRUE  \* mutant: matched on id alone (B-9)
UnmovedStatus(p, seen) == pay[p].status = seen.status  \* mutant: forgets the approval
Unmoved(p, seen) == pay[p].status = seen.status /\ pay[p].approval = seen.approval

Queue(t) ==
    /\ At(t, "queue")
    /\ LET p == thread[t].p IN
       IF Unmoved(p, thread[t].seen) THEN Set(p, thread[t].seen.status, "PENDING") ELSE UNCHANGED pay
    /\ Done(t)
    /\ UNCHANGED <<order, gateway, alarm>>

\* approveRefund looks at the approval alone; executeRefund does the rest.
Approve(t, p) ==
    /\ Free(t)
    /\ Readable(p)
    /\ pay[p].approval = "PENDING"
    /\ Begin(t, "claim", "approve", p, pay[p])
    /\ UNCHANGED <<pay, order, gateway, alarm>>

AskReject(t, p) ==
    /\ Free(t)
    /\ Readable(p)
    /\ pay[p].approval = "PENDING"
    /\ Begin(t, "rejectStatus", "reject", p, pay[p])
    /\ UNCHANGED <<pay, order, gateway, alarm>>

\* An unreadable order refuses the rejection, and so does a cancelled one.
CheckStanding(t) ==
    /\ At(t, "rejectStatus")
    /\ \/ order[OrderOf[thread[t].p]] # "CANCELLED" /\ Goto(t, "reject")
       \/ Done(t)
    /\ UNCHANGED <<pay, order, gateway, alarm>>

MayReject(p) == pay[p].status = "PAID" /\ pay[p].approval = "PENDING"
Reject(t) ==
    /\ At(t, "reject")
    /\ LET p == thread[t].p IN
       IF MayReject(p)
       THEN Set(p, "PAID", "REJECTED")
       ELSE UNCHANGED pay
    /\ Done(t)
    /\ UNCHANGED <<order, gateway, alarm>>

ApprovalByName(op) == op  \* mutant: writes who asked
ApprovalOf(op) == IF op = "approve" THEN "APPROVED" ELSE "NONE"

\* executeRefund claims the row before any money moves: status and approval
\* must still be the ones the caller read.
Claim(t) ==
    /\ At(t, "claim")
    /\ LET p == thread[t].p
           online == MethodOf[p] = "ONLINE" /\ thread[t].seen.ref
       IN
       \/ /\ Unmoved(p, thread[t].seen)
          /\ Set(p, "REFUNDED", ApprovalOf(thread[t].op))
          /\ Goto(t, IF online THEN "gateway" ELSE "record")
       \/ /\ ~Unmoved(p, thread[t].seen)
          /\ Done(t)
          /\ UNCHANGED pay
    /\ UNCHANGED <<order, gateway, alarm>>

GatewayRefundOpen(t) ==  \* mutant: a refused refund is recorded all the same
    /\ At(t, "gateway")
    /\ \/ /\ gateway[thread[t].p].refunds < MaxRefunds
          /\ gateway' = [gateway EXCEPT ![thread[t].p].refunds = @ + 1]
       \/ UNCHANGED gateway
    /\ Goto(t, "record")
    /\ UNCHANGED <<pay, order, alarm>>

\* The provider refunds, refuses, or refunds with the answer lost.
GatewayRefund(t) ==
    /\ At(t, "gateway")
    /\ LET p == thread[t].p
           Paid == /\ gateway[p].refunds < MaxRefunds
                   /\ gateway' = [gateway EXCEPT ![p].refunds = @ + 1]
       IN
       \/ Paid /\ Goto(t, "record")
       \/ UNCHANGED gateway /\ Goto(t, "handBack")
       \/ LostReplies /\ Paid /\ Goto(t, "handBack")
    /\ UNCHANGED <<pay, order, alarm>>

RestoreStatus(p, seen) == Keep(p, seen.status)  \* mutant: leaves the approval
Restore(p, seen) == Set(p, seen.status, seen.approval)

\* The claim is undone so that a retry is possible; the row may have moved, or
\* the order may have another active payment, and then it is only logged.
HandBack(t) ==
    /\ At(t, "handBack")
    /\ LET p == thread[t].p
           seen == thread[t].seen
           free == seen.status \in Active => ~OtherActive(p)
       IN
       IF pay[p].status = "REFUNDED" /\ free
       THEN Restore(p, seen) /\ UNCHANGED alarm
       ELSE UNCHANGED pay /\ alarm' = [alarm EXCEPT ![p] = @ \cup {"byHand"}]
    /\ Done(t)
    /\ UNCHANGED <<order, gateway>>

\* The second write of executeRefund, conditional on the claimed status.
Record(t) ==
    /\ At(t, "record")
    /\ LET p == thread[t].p IN
       IF pay[p].status = "REFUNDED"
       THEN Set(p, "REFUNDED", ApprovalOf(thread[t].op))
       ELSE UNCHANGED pay
    /\ Done(t)
    /\ UNCHANGED <<order, gateway, alarm>>

----------------------------------------------------------------------------
(* The unconfirmed sweep, crashes, order-service, the provider *)

ClaimConfirmed(p) ==  \* mutant: asks for the confirmed orders
    /\ pay[p].status = "PAID" /\ pay[p].recent /\ MethodOf[p] # "CASH"
    /\ order[OrderOf[p]] = "CONFIRMED"
    /\ "claimed" \notin alarm[p]
    /\ alarm' = [alarm EXCEPT ![p] = @ \cup {"claimed"}]
    /\ UNCHANGED <<pay, thread, order, gateway>>
\* Paid here and still CREATED there: the sweep claims the notice, once.
ClaimNotice(p) ==
    /\ pay[p].status = "PAID" /\ pay[p].recent /\ MethodOf[p] # "CASH"
    /\ order[OrderOf[p]] = "CREATED"
    /\ "claimed" \notin alarm[p]
    /\ alarm' = [alarm EXCEPT ![p] = @ \cup {"claimed"}]
    /\ UNCHANGED <<pay, thread, order, gateway>>

\* The send that follows is fail-open and never repeated: the depot is told, or
\* the call fails, times out or dies with the process and nobody is.
NotifyDepot(p) ==
    /\ "claimed" \in alarm[p]
    /\ alarm[p] \cap {"told", "lost"} = {}
    /\ \E outcome \in {"told", "lost"} : alarm' = [alarm EXCEPT ![p] = @ \cup {outcome}]
    /\ UNCHANGED <<pay, thread, order, gateway>>

Crash(t) ==
    /\ Crashes
    /\ ~Free(t)
    /\ Done(t)
    /\ UNCHANGED <<pay, order, gateway, alarm>>

CloseOrder(o, status) ==
    /\ order[o] \notin Over
    /\ order' = [order EXCEPT ![o] = status]
    /\ UNCHANGED <<pay, thread, gateway, alarm>>

\* The customer pays the charge at the provider.
PayCharge(p) ==
    /\ gateway[p].charged /\ ~gateway[p].paid
    /\ gateway' = [gateway EXCEPT ![p].paid = TRUE]
    /\ UNCHANGED <<pay, thread, order, alarm>>

InitiateStep(t) == CheckOrder(t) \/ Create(t) \/ Charge(t) \/ AttachCharge(t) \/ UnwindCharge(t)
SettleStep(t) == Settle(t) \/ ConfirmOrder(t)
RefundStep(t) ==
    \/ MarkFailed(t) \/ Reread(t)
    \/ ReadToRefund(t) \/ Queue(t) \/ Claim(t) \/ GatewayRefund(t) \/ HandBack(t) \/ Record(t)
    \/ CheckStanding(t) \/ Reject(t)
ThreadStep(t) == InitiateStep(t) \/ SettleStep(t) \/ RefundStep(t)

Request(t, p) ==
    \/ Initiate(t, p)
    \/ \E op \in {"confirm", "fail", "expire", "webhookPaid", "webhookFailed"} :
          ReadToSettle(t, p, op)
    \/ CancelForOrder(t, p) \/ VoidForOrder(t, p) \/ Reconcile(t, p)
    \/ AskRefund(t, p) \/ Approve(t, p) \/ AskReject(t, p)

Environment ==
    \/ \E o \in Orders, status \in Over : CloseOrder(o, status)
    \/ \E p \in Payments : PayCharge(p)

Next ==
    \/ \E t \in Threads : ThreadStep(t) \/ Crash(t) \/ \E p \in Payments : Request(t, p)
    \/ \E p \in Payments : ClaimNotice(p) \/ NotifyDepot(p)
    \/ Environment

Spec == Init /\ [][Next]_vars

\* Handlers run to their end unless the process dies.  The sweeps are driven
\* by the scheduler every hour; a request is never refused a thread, so the
\* small pool of the model must not starve them.  The provider is not down
\* forever: a refund that is tried again and again is one day accepted.
Fairness ==
    /\ \A t \in Threads : WF_vars(ThreadStep(t))
    /\ \A t \in Threads : SF_vars(GatewayRefund(t) /\ gateway' # gateway)
    /\ \A p \in Payments :
          /\ SF_vars(\E t \in Threads : Reconcile(t, p))
          /\ SF_vars(\E t \in Threads : ReadToSettle(t, p, "expire"))
          /\ WF_vars(ClaimNotice(p))
          /\ WF_vars(NotifyDepot(p))

FairSpec == Spec /\ Fairness

----------------------------------------------------------------------------
(* Safety *)

\* The partial unique index, against the check-then-act of initiate, the blind
\* write of its charge and the hand-back of a failed refund (PaymentPrisma-
\* Repository.create): one order never has two live payments.
OneActivePerOrder ==
    \A p, q \in Payments :
        OrderOf[p] = OrderOf[q] /\ IsActive(p) /\ IsActive(q) => p = q

\* Claim first (executeRefund): however many approvals, refunds, voids, sweeps
\* and crashes meet on a payment, the provider refunds it at most once.
RefundedAtMostOnce == \A p \in Payments : gateway[p].refunds <= 1

\* "The row never contradicts the money": once the provider has refunded, no
\* queue, rejection or hand-back working from a stale read revives the payment.
RefundMatchesRow ==
    \A p \in Payments : gateway[p].refunds > 0 => pay[p].status = "REFUNDED"

\* A request waits on HQ, or was refused, only while the money is held, and an
\* approval is on record only for money that went back (a failed provider
\* refund gives the request back to the queue as it was).
ApprovalMatchesStatus ==
    \A p \in Payments :
        /\ pay[p].approval \in {"PENDING", "REJECTED"} => pay[p].status = "PAID"
        /\ pay[p].approval = "APPROVED" => pay[p].status = "REFUNDED"

\* A payment the books call refunded had its money sent back, or somebody is
\* sending it now, or the failed hand-back was logged for reconciliation by hand.
\* Without crashes: one between claim and provider leaves no trace at all.
RefundedIsBacked ==
    \A p \in Payments :
        pay[p].status = "REFUNDED" /\ pay[p].ref =>
            \/ gateway[p].refunds > 0
            \/ \E t \in Threads : On(t, p) /\ thread[t].at \in MoneySteps
            \/ "byHand" \in alarm[p]

\* A payment above the threshold is settled only out of the HQ queue, by an
\* approval of the request that is waiting there; a counter void is the one
\* way around it.  A stale approval never settles what HQ has since refused.
HQDecides ==
    [][\A p \in High :
          pay[p].status # "REFUNDED" /\ pay'[p].status = "REFUNDED" =>
              \/ pay[p].approval = "PENDING" /\ pay'[p].approval = "APPROVED"
              \/ \E t \in Threads : On(t, p) /\ thread[t].op = "void"]_vars

----------------------------------------------------------------------------
(* The inductive invariant behind the refund properties *)

\* What a request has established about its row by the step it is at.
JobFits(j) ==
    /\ j.at \in BirthSteps => pay[j.p].status = "NEW"
    /\ j.at \in ChargeSteps => pay[j.p].status = "PENDING"
    /\ j.at \notin BirthSteps => pay[j.p].status # "NEW"
    /\ j.at \in MoneySteps => pay[j.p].status = "REFUNDED" /\ gateway[j.p].refunds = 0
    /\ j.at \in {"queue", "claim"} \cup MoneySteps =>
          j.seen.status = "PAID" /\ j.seen.approval # "APPROVED"

\* Two requests on one row: neither is opening it, and one at most moves money.
Compatible(j, k) ==
    /\ {j.at, k.at} \cap (BirthSteps \cup ChargeSteps) = {}
    /\ ~(j.at \in MoneySteps /\ k.at \in MoneySteps)

\* The claim is a lock on the refund, and the row remembers it was taken: this
\* is what makes one refund of every race between approvals, voids and sweeps.
RefundInv ==
    /\ \A t \in Threads : ~Free(t) => JobFits(thread[t])
    /\ \A t, u \in Threads :
          t # u /\ ~Free(t) /\ ~Free(u) /\ thread[t].p = thread[u].p =>
              Compatible(thread[t], thread[u])
    /\ ApprovalMatchesStatus
    /\ RefundMatchesRow

----------------------------------------------------------------------------
(* Liveness *)

\* The money of p sits with the business and nobody at HQ has been asked.
Held(p) ==
    \/ pay[p].status = "PAID" /\ pay[p].approval # "PENDING"
    \/ \E t \in Threads : On(t, p) /\ thread[t].at \in MoneySteps

\* reconcileCancelledOrders: money paid (within the look-back) on an order that
\* is over is returned or handed to HQ, whatever race let it in.
MoneyComesBack ==
    \A p \in Payments :
        order[OrderOf[p]] \in Over /\ Held(p) /\ pay[p].recent ~> ~Held(p)

\* expireStalePending: "a payment nobody completed has to stop being live
\* eventually", or it locks its order out of every other method.
PendingEnds ==
    \A p \in Payments :
        pay[p].status = "PENDING" /\ MethodOf[p] # "CASH" ~> pay[p].status # "PENDING"

\* flagUnconfirmed: confirmPaid may be lost, and then the depot hears of it, or
\* its only notice was sent and lost; a drift is never left without a send.
DriftIsReported ==
    \A p \in Payments :
        /\ pay[p].status = "PAID" /\ pay[p].recent /\ MethodOf[p] # "CASH"
        /\ order[OrderOf[p]] = "CREATED"
        ~> \/ alarm[p] \cap {"told", "lost"} # {}
           \/ order[OrderOf[p]] # "CREATED"
           \/ pay[p].status # "PAID"

----------------------------------------------------------------------------
(* What the repository says and the code does not keep *)

\* domain/payment.ts: no transition leaves FAILED.
FailedIsFinal ==
    [][\A p \in Payments : pay[p].status = "FAILED" => pay'[p].status = "FAILED"]_vars

\* "A cancelled order that was paid gets its money back": a payment the
\* provider collected on a cancelled order is not written off as FAILED.
CollectedMoneyIsOwed ==
    \A p \in Payments :
        gateway[p].paid /\ order[OrderOf[p]] = "CANCELLED" => pay[p].status # "FAILED"
============================================================================
