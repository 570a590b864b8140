--------------------------- MODULE PaymentProofs ---------------------------
(***************************************************************************)
(* Proofs about Payment, for every set of orders, payments and threads:    *)
(* its invariants, that it implements PaymentLedger, and that without      *)
(* crashes every refund on the books is backed.                            *)
(***************************************************************************)
EXTENDS PaymentImplementsLedger, TLAPS

\* A job keeps its shape when it only moves to another step.
LEMMA GotoTyping ==
    ASSUME thread \in [Threads -> Job \cup {NoJob}],
           NEW t \in Threads, thread[t] # NoJob,
           NEW step \in Steps, Goto(t, step)
    PROVE  thread' \in [Threads -> Job \cup {NoJob}]
BY DEF Goto, Job

LEMMA BeginTyping ==
    ASSUME thread \in [Threads -> Job \cup {NoJob}],
           NEW t \in Threads, NEW step \in Steps, NEW op \in Ops,
           NEW p \in Payments, NEW seen \in Row, Begin(t, step, op, p, seen)
    PROVE  thread' \in [Threads -> Job \cup {NoJob}]
BY DEF Begin, Job

LEMMA DoneTyping ==
    ASSUME thread \in [Threads -> Job \cup {NoJob}],
           NEW t \in Threads, Done(t)
    PROVE  thread' \in [Threads -> Job \cup {NoJob}]
BY DEF Done

LEMMA SetTyping ==
    ASSUME pay \in [Payments -> Row], NEW p \in Payments,
           NEW status \in Statuses, NEW approval \in Approvals,
           Set(p, status, approval)
    PROVE  pay' \in [Payments -> Row]
BY DEF Set, Row

LEMMA InitiateTyping ==
    ASSUME TypeOK, NEW t \in Threads, InitiateStep(t)
    PROVE  TypeOK'
<1>1. CASE CheckOrder(t)
  BY <1>1, GotoTyping, DoneTyping DEF CheckOrder, TypeOK, At, Steps
<1>2. CASE Create(t)
  <2>1. thread[t] # NoJob /\ thread[t].p \in Payments
    BY <1>2 DEF Create, At, TypeOK, Job
  <2>2. pay' \in [Payments -> Row]
    BY <1>2, <2>1 DEF Create, TypeOK, Row, Statuses
  <2>3. thread' \in [Threads -> Job \cup {NoJob}]
    BY <1>2, <2>1, GotoTyping, DoneTyping DEF Create, TypeOK, Steps
  <2>4. QED
    BY <1>2, <2>2, <2>3 DEF Create, TypeOK
<1>3. CASE Charge(t)
  <2>1. thread[t] # NoJob /\ thread[t].p \in Payments
    BY <1>3 DEF Charge, At, TypeOK, Job
  <2>2. gateway' \in [Payments -> Gateway]
    <3>1. CASE gateway' = gateway
      BY <3>1 DEF TypeOK
    <3>2. CASE gateway' = [gateway EXCEPT ![thread[t].p].charged = TRUE]
      BY <2>1, <3>2 DEF TypeOK, Gateway
    <3>3. QED
      BY <1>3, <3>1, <3>2 DEF Charge
  <2>3. thread' \in [Threads -> Job \cup {NoJob}]
    BY <1>3, <2>1, GotoTyping DEF Charge, TypeOK, Steps
  <2>4. QED
    BY <1>3, <2>2, <2>3 DEF Charge, TypeOK
<1>4. CASE AttachCharge(t)
  BY <1>4, GotoTyping, DoneTyping DEF AttachCharge, TypeOK, At, Steps, Row, Statuses, Job
<1>5. CASE UnwindCharge(t)
  BY <1>5, GotoTyping, DoneTyping DEF UnwindCharge, TypeOK, At, Steps, Row, Statuses, Job, Keep
<1>6. QED
  BY <1>1, <1>2, <1>3, <1>4, <1>5 DEF InitiateStep

LEMMA SettleTyping ==
    ASSUME TypeOK, NEW t \in Threads, SettleStep(t)
    PROVE  TypeOK'
<1>1. CASE Settle(t)
  <2>1. thread[t] # NoJob /\ thread[t].p \in Payments
    BY <1>1 DEF Settle, At, TypeOK, Job
  <2>2. pay' \in [Payments -> Row]
    <3> DEFINE p == thread[t].p
    <3>1. CASE pay' = [pay EXCEPT ![p].status = "FAILED"]
      BY <2>1, <3>1 DEF TypeOK, Row, Statuses
    <3>2. ASSUME NEW recent \in BOOLEAN,
                 pay' = [pay EXCEPT ![p].status = "PAID", ![p].recent = recent]
          PROVE  pay' \in [Payments -> Row]
      BY <2>1, <3>2 DEF TypeOK, Row, Statuses
    <3>3. CASE pay' = pay
      BY <3>3 DEF TypeOK
    <3>4. QED
      BY <1>1, <3>1, <3>2, <3>3 DEF Settle, Keep
  <2>3. thread' \in [Threads -> Job \cup {NoJob}]
    BY <1>1, <2>1, GotoTyping, DoneTyping DEF Settle, TypeOK, Steps
  <2>4. QED
    BY <1>1, <2>2, <2>3 DEF Settle, TypeOK
<1>2. CASE ConfirmOrder(t)
  BY <1>2, DoneTyping DEF ConfirmOrder, TypeOK, OrderStatuses
<1>3. QED
  BY <1>1, <1>2 DEF SettleStep

LEMMA TakeActiveTyping ==
    ASSUME TypeOK, NEW t \in Threads, NEW p \in Payments,
           NEW op \in Ops, TakeActive(t, p, op)
    PROVE  TypeOK'
<1>1. pay[p] \in Row
  BY DEF TypeOK
<1>2. QED
  BY <1>1, BeginTyping DEF TakeActive, TypeOK, Steps

LEMMA RefundTyping ==
    ASSUME TypeOK, NEW t \in Threads, RefundStep(t)
    PROVE  TypeOK'
<1>1. CASE MarkFailed(t)
  BY <1>1, GotoTyping, DoneTyping
     DEF MarkFailed, TypeOK, At, Steps, Row, Statuses, Job, Keep
<1>2. CASE Reread(t)
  <2>1. thread[t] \in Job
    BY <1>2 DEF Reread, At, TypeOK
  <2>2. thread[t].op \in Ops
    BY <2>1 DEF Job
  <2>3. QED
    BY <1>2, <2>2, TakeActiveTyping, DoneTyping DEF Reread, TypeOK
<1>3. CASE ReadToRefund(t)
  <2>1. thread[t].op \in Ops /\ thread[t].p \in Payments /\ pay[thread[t].p] \in Row
    BY <1>3 DEF ReadToRefund, At, TypeOK, Job
  <2>2. QED
    BY <1>3, <2>1, BeginTyping, DoneTyping DEF ReadToRefund, TypeOK, Steps
<1>4. CASE Queue(t)
  <2>1. thread[t].p \in Payments /\ thread[t].seen.status \in Statuses
    BY <1>4 DEF Queue, At, TypeOK, Job, Row
  <2>2. pay' \in [Payments -> Row]
    BY <1>4, <2>1, SetTyping DEF Queue, TypeOK, Approvals
  <2>3. QED
    BY <1>4, <2>2, DoneTyping DEF Queue, TypeOK
<1>5. CASE Claim(t)
  BY <1>5, GotoTyping, DoneTyping
     DEF Claim, TypeOK, At, Steps, Row, Statuses, Approvals, Job, Set, ApprovalOf
<1>6. CASE GatewayRefund(t)
  <2>1. thread[t] # NoJob /\ thread[t].p \in Payments
    BY <1>6 DEF GatewayRefund, At, TypeOK, Job
  <2>2. gateway[thread[t].p].refunds \in 0..MaxRefunds
    BY <2>1 DEF TypeOK, Gateway
  <2>3. gateway' \in [Payments -> Gateway]
    <3> DEFINE p == thread[t].p
    <3>1. CASE gateway' = gateway
      BY <3>1 DEF TypeOK
    <3>2. CASE gateway[p].refunds < MaxRefunds
               /\ gateway' = [gateway EXCEPT ![p].refunds = @ + 1]
      <4>1. gateway[p].refunds + 1 \in 0..MaxRefunds
        BY <2>2, <3>2, MaxRefundsAssumption
      <4>2. QED
        BY <2>1, <3>2, <4>1 DEF TypeOK, Gateway
    <3>3. QED
      BY <1>6, <3>1, <3>2 DEF GatewayRefund
  <2>4. thread' \in [Threads -> Job \cup {NoJob}]
    BY <1>6, <2>1, GotoTyping DEF GatewayRefund, TypeOK, Steps
  <2>5. QED
    BY <1>6, <2>3, <2>4 DEF GatewayRefund, TypeOK
<1>7. CASE HandBack(t)
  <2>1. /\ thread[t].p \in Payments
        /\ thread[t].seen.status \in Statuses
        /\ thread[t].seen.approval \in Approvals
    BY <1>7 DEF HandBack, Restore, At, TypeOK, Job, Row
  <2>2. pay' \in [Payments -> Row]
    BY <1>7, <2>1, SetTyping DEF HandBack, Restore, TypeOK
  <2>3. alarm' \in [Payments -> SUBSET Alarms]
    BY <1>7, <2>1 DEF HandBack, Restore, TypeOK, Alarms
  <2>4. QED
    BY <1>7, <2>2, <2>3, DoneTyping DEF HandBack, Restore, TypeOK
<1>8. CASE Record(t)
  BY <1>8, DoneTyping DEF Record, TypeOK, At, Row, Statuses, Approvals, Job, Set, ApprovalOf
<1>9. CASE CheckStanding(t)
  BY <1>9, GotoTyping, DoneTyping DEF CheckStanding, TypeOK, At, Steps
<1>10. CASE Reject(t)
  BY <1>10, DoneTyping DEF Reject, MayReject, TypeOK, At, Row, Statuses, Approvals, Job, Set
<1>11. QED
  BY <1>1, <1>2, <1>3, <1>4, <1>5, <1>6, <1>7, <1>8, <1>9, <1>10 DEF RefundStep

LEMMA RequestTyping ==
    ASSUME TypeOK, NEW t \in Threads, NEW p \in Payments, Request(t, p)
    PROVE  TypeOK'
<1>1. pay[p] \in Row /\ NewRow \in Row
  BY DEF TypeOK, NewRow, Row, Statuses, Approvals
<1>2. CASE Initiate(t, p)
  BY <1>1, <1>2, BeginTyping DEF Initiate, TypeOK, Steps, Ops
<1>3. ASSUME NEW op \in {"confirm", "fail", "expire", "webhookPaid", "webhookFailed"},
             ReadToSettle(t, p, op)
      PROVE  TypeOK'
  BY <1>1, <1>3, BeginTyping DEF ReadToSettle, TypeOK, Steps, Ops
<1>4. CASE CancelForOrder(t, p) \/ VoidForOrder(t, p) \/ Reconcile(t, p)
  BY <1>4, TakeActiveTyping DEF CancelForOrder, VoidForOrder, Reconcile, Ops
<1>5. CASE AskRefund(t, p) \/ Approve(t, p) \/ AskReject(t, p)
  BY <1>1, <1>5, BeginTyping DEF AskRefund, Approve, AskReject, TypeOK, Steps, Ops
<1>6. QED
  BY <1>2, <1>3, <1>4, <1>5 DEF Request

\* Every variable keeps its type, whatever the races and the crashes.
THEOREM Typing == Spec => []TypeOK
<1>1. Init => TypeOK
  BY MaxRefundsAssumption
     DEF Init, TypeOK, NewRow, Row, Statuses, Approvals, OrderStatuses, Gateway
<1>2. TypeOK /\ [Next]_vars => TypeOK'
  <2> SUFFICES ASSUME TypeOK, [Next]_vars
               PROVE  TypeOK'
    OBVIOUS
  <2>1. ASSUME NEW t \in Threads, ThreadStep(t)
        PROVE  TypeOK'
    BY <2>1, InitiateTyping, SettleTyping, RefundTyping DEF ThreadStep
  <2>2. ASSUME NEW t \in Threads, Crash(t)
        PROVE  TypeOK'
    BY <2>2, DoneTyping DEF Crash, TypeOK
  <2>3. ASSUME NEW p \in Payments, ClaimNotice(p) \/ NotifyDepot(p)
        PROVE  TypeOK'
    BY <2>3 DEF ClaimNotice, NotifyDepot, TypeOK, Alarms
  <2>4. CASE Environment
    <3>1. ASSUME NEW o \in Orders, NEW status \in Over, CloseOrder(o, status)
          PROVE  TypeOK'
      BY <3>1 DEF CloseOrder, TypeOK, Over, OrderStatuses
    <3>2. ASSUME NEW p \in Payments, PayCharge(p)
          PROVE  TypeOK'
      BY <3>2 DEF PayCharge, TypeOK, Gateway
    <3>3. QED
      BY <2>4, <3>1, <3>2 DEF Environment
  <2>5. CASE UNCHANGED vars
    BY <2>5 DEF vars, TypeOK
  <2>6. QED
    BY <2>1, <2>2, <2>3, <2>4, <2>5, RequestTyping DEF Next
<1>3. QED
  BY <1>1, <1>2, PTL DEF Spec

----------------------------------------------------------------------------
(* One live payment per order *)

\* Only p's row moves, and it becomes live only where no other row is.
LEMMA OneActiveStep ==
    ASSUME OneActivePerOrder, NEW p \in Payments,
           \A q \in Payments \ {p} : pay'[q].status = pay[q].status,
           pay'[p].status \in Active => IsActive(p) \/ ~OtherActive(p)
    PROVE  OneActivePerOrder'
BY DEF OneActivePerOrder, OtherActive, IsActive

LEMMA OneActiveStutter ==
    ASSUME OneActivePerOrder, pay' = pay
    PROVE  OneActivePerOrder'
BY DEF OneActivePerOrder, IsActive

LEMMA SetStatus ==
    ASSUME TypeOK, NEW p \in Payments, NEW status, NEW approval, Set(p, status, approval)
    PROVE  /\ \A q \in Payments \ {p} : pay'[q] = pay[q]
           /\ pay'[p].status = status
           /\ pay'[p].approval = approval
BY DEF Set, TypeOK, Row

LEMMA KeepStatus ==
    ASSUME TypeOK, NEW p \in Payments, NEW status, Keep(p, status)
    PROVE  /\ \A q \in Payments \ {p} : pay'[q] = pay[q]
           /\ pay'[p].status = status
           /\ pay'[p].approval = pay[p].approval
BY DEF Keep, TypeOK, Row

LEMMA ThreadOneActive ==
    ASSUME TypeOK, OneActivePerOrder, NEW t \in Threads, ThreadStep(t)
    PROVE  OneActivePerOrder'
<1> DEFINE p == thread[t].p
<1> thread[t] \in Job /\ p \in Payments
  BY DEF ThreadStep, InitiateStep, SettleStep, RefundStep, TypeOK, At, Job,
         CheckOrder, Create, Charge, AttachCharge, UnwindCharge, Settle, ConfirmOrder,
         MarkFailed, Reread, ReadToRefund, Queue, Claim, GatewayRefund, HandBack, Record,
         CheckStanding, Reject
<1> HIDE DEF p
<1>1. CASE pay' = pay
  BY <1>1, OneActiveStutter
<1>2. CASE Create(t) \/ AttachCharge(t)
  <2>1. CASE ~OtherActive(p)
    <3>1. \A q \in Payments \ {p} : pay'[q].status = pay[q].status
      BY <1>2 DEF Create, AttachCharge, p, TypeOK
    <3>2. QED
      BY <2>1, <3>1, OneActiveStep
  <2>2. CASE OtherActive(p)
    BY <1>1, <1>2, <2>2 DEF Create, AttachCharge, p
  <2>3. QED
    BY <2>1, <2>2
<1>3. CASE UnwindCharge(t) \/ (MarkFailed(t) /\ pay' # pay)
  <2>1. Keep(p, "FAILED")
    BY <1>3 DEF UnwindCharge, MarkFailed, p
  <2>2. QED
    BY <2>1, KeepStatus, OneActiveStep DEF Active
<1>4. CASE Settle(t) /\ pay' # pay
  <2>1. pay[p].status = "PENDING"
    BY <1>4 DEF Settle, MayWrite, p
  <2>2. \A q \in Payments \ {p} : pay'[q].status = pay[q].status
    BY <1>4 DEF Settle, Keep, p, TypeOK
  <2>3. QED
    BY <2>1, <2>2, OneActiveStep DEF IsActive, Active
<1>5. CASE Queue(t) /\ pay' # pay
  <2>1. Set(p, pay[p].status, "PENDING")
    BY <1>5 DEF Queue, Unmoved, p
  <2>2. QED
    BY <2>1, SetStatus, OneActiveStep DEF IsActive
<1>6. CASE Claim(t) /\ pay' # pay
  <2> DEFINE approval == ApprovalOf(thread[t].op)
  <2>1. Set(p, "REFUNDED", approval)
    BY <1>6 DEF Claim, p
  <2> HIDE DEF approval
  <2>2. \A q \in Payments \ {p} : pay'[q] = pay[q]
    BY <2>1, SetStatus
  <2>3. pay'[p].status = "REFUNDED"
    BY <2>1, SetStatus
  <2>4. QED
    BY <2>2, <2>3, OneActiveStep DEF Active
<1>7. CASE HandBack(t) /\ pay' # pay
  <2> DEFINE seen == thread[t].seen
  <2>1. Set(p, seen.status, seen.approval)
    BY <1>7 DEF HandBack, Restore, p
  <2>2. seen.status \in Active => ~OtherActive(p)
    BY <1>7 DEF HandBack, Restore, p
  <2> HIDE DEF seen
  <2>3. QED
    BY <2>1, <2>2, SetStatus, OneActiveStep
<1>8. CASE Record(t) /\ pay' # pay
  <2> DEFINE approval == ApprovalOf(thread[t].op)
  <2>1. Set(p, "REFUNDED", approval)
    BY <1>8 DEF Record, p
  <2> HIDE DEF approval
  <2>2. \A q \in Payments \ {p} : pay'[q] = pay[q]
    BY <2>1, SetStatus
  <2>3. pay'[p].status = "REFUNDED"
    BY <2>1, SetStatus
  <2>4. QED
    BY <2>2, <2>3, OneActiveStep DEF Active
<1>9. CASE Reject(t) /\ pay' # pay
  <2>1. Set(p, "PAID", "REJECTED") /\ pay[p].status = "PAID"
    BY <1>9 DEF Reject, MayReject, p
  <2>2. QED
    BY <2>1, SetStatus, OneActiveStep DEF IsActive, Active
<1>10. QED
  BY <1>1, <1>2, <1>3, <1>4, <1>5, <1>6, <1>7, <1>8, <1>9
     DEF ThreadStep, InitiateStep, SettleStep, RefundStep, CheckOrder, Charge, ConfirmOrder,
         Reread, ReadToRefund, GatewayRefund, CheckStanding, TakeActive

LEMMA OtherStepsKeepRows ==
    ASSUME [Next]_vars, ~\E t \in Threads : ThreadStep(t)
    PROVE  pay' = pay
BY DEF Next, Crash, Request, Initiate, ReadToSettle, CancelForOrder, VoidForOrder, Reconcile,
       TakeActive, AskRefund, Approve, AskReject, ClaimNotice, NotifyDepot, Environment, CloseOrder,
       PayCharge, vars

\* An order never has two live payments: the partial unique index holds against
\* initiate's check-then-act, its blind write and the hand-back of a refund.
THEOREM OneActive == Spec => []OneActivePerOrder
<1>1. Init => OneActivePerOrder
  BY DEF Init, OneActivePerOrder, IsActive, Active, NewRow
<1>2. TypeOK /\ OneActivePerOrder /\ [Next]_vars => OneActivePerOrder'
  BY ThreadOneActive, OtherStepsKeepRows, OneActiveStutter
<1>3. QED
  BY <1>1, <1>2, Typing, PTL DEF Spec

----------------------------------------------------------------------------
(* At most one refund, when no request touches a row while its charge is    *)
(* being opened and the provider's answers are not lost                     *)

RowFits(p) ==
    /\ pay[p].approval \in {"PENDING", "REJECTED"} => pay[p].status = "PAID"
    /\ pay[p].approval = "APPROVED" => pay[p].status = "REFUNDED"
    /\ gateway[p].refunds > 0 => pay[p].status = "REFUNDED"

\* A step of one request on one row, seen by every other request.
LEMMA LocalStep ==
    ASSUME RefundInv, NEW t \in Threads, NEW p \in Payments,
           \A u \in Threads \ {t} : thread'[u] = thread[u],
           \A q \in Payments \ {p} : pay'[q] = pay[q] /\ gateway'[q] = gateway[q],
           TypeOK, TypeOK',
           RowFits(p)',
           thread'[t] # NoJob => thread'[t].p = p /\ JobFits(thread[t])',
           \A u \in Threads \ {t} : On(u, p) =>
               /\ JobFits(thread[u])'
               /\ thread'[t] # NoJob => Compatible(thread'[t], thread[u])
    PROVE  RefundInv'
<1>1. ASSUME NEW u \in Threads, thread'[u] # NoJob
      PROVE  JobFits(thread[u])'
  <2>1. CASE u = t
    BY <2>1, <1>1
  <2>2. CASE u # t /\ On(u, p)
    BY <2>2
  <2>3. CASE u # t /\ ~On(u, p)
    <3>1. thread[u] \in Job /\ thread'[u] = thread[u] /\ thread[u].p \in Payments \ {p}
      BY <1>1, <2>3 DEF TypeOK, On, Job
    <3>2. JobFits(thread[u])
      BY <3>1, <1>1 DEF RefundInv, Free
    <3>3. QED
      BY <3>1, <3>2 DEF JobFits
  <2>4. QED
    BY <2>1, <2>2, <2>3
<1>2. ASSUME NEW u \in Threads, NEW v \in Threads, u # v,
             thread'[u] # NoJob, thread'[v] # NoJob, thread'[u].p = thread'[v].p
      PROVE  Compatible(thread'[u], thread'[v])
  <2>1. CASE u # t /\ v # t
    BY <2>1, <1>2 DEF RefundInv, Free
  <2>2. CASE u = t
    <3>1. On(v, p) /\ thread'[v] = thread[v]
      BY <2>2, <1>2 DEF On
    <3>2. QED
      BY <2>2, <3>1, <1>2
  <2>3. CASE v = t
    <3>1. On(u, p) /\ thread'[u] = thread[u]
      BY <2>3, <1>2 DEF On
    <3>2. QED
      BY <2>3, <3>1, <1>2 DEF Compatible
  <2>4. QED
    BY <2>1, <2>2, <2>3
<1>3. ASSUME NEW q \in Payments
      PROVE  RowFits(q)'
  <2>1. RowFits(q)
    BY DEF RefundInv, ApprovalMatchesStatus, RefundMatchesRow, RowFits
  <2>2. QED
    BY <2>1 DEF RowFits
<1>4. QED
  BY <1>1, <1>2, <1>3
     DEF RefundInv, Free, ApprovalMatchesStatus, RefundMatchesRow, RowFits

\* Requests move without touching a row: what they rely on still holds.
LEMMA QuietStep ==
    ASSUME RefundInv, TypeOK, TypeOK', NEW t \in Threads, NEW p \in Payments,
           \A u \in Threads \ {t} : thread'[u] = thread[u],
           pay' = pay, gateway' = gateway,
           thread'[t] # NoJob =>
               /\ thread'[t].p = p /\ JobFits(thread[t])'
               /\ \A u \in Threads \ {t} : On(u, p) => Compatible(thread'[t], thread[u])
    PROVE  RefundInv'
<1>1. RowFits(p)'
  BY DEF RefundInv, ApprovalMatchesStatus, RefundMatchesRow, RowFits
<1>2. \A u \in Threads \ {t} : On(u, p) => JobFits(thread[u])'
  BY DEF RefundInv, Free, On, JobFits
<1>3. QED
  BY <1>1, <1>2, LocalStep

\* The end of a request that wrote nothing, its refusal or its crash.
LEMMA QuietDone ==
    ASSUME RefundInv, TypeOK, TypeOK', NEW t \in Threads, Done(t),
           pay' = pay, gateway' = gateway, NEW p \in Payments
    PROVE  RefundInv'
BY QuietStep DEF Done, TypeOK

\* Two requests on one row: the one that is not t has left the row's birth
\* behind, and is not moving money unless the row is claimed and t is not.
LEMMA Others ==
    ASSUME RefundInv, NEW t \in Threads, thread[t] # NoJob,
           NEW u \in Threads \ {t}, On(u, thread[t].p)
    PROVE  /\ Compatible(thread[t], thread[u])
           /\ JobFits(thread[u])
           /\ thread[u].at \in MoneySteps =>
                 pay[thread[t].p].status = "REFUNDED" /\ thread[t].at \notin MoneySteps
BY DEF RefundInv, Free, On, Compatible, JobFits

\* A request that arrives at a readable row finds nobody opening it.
LEMMA Arrive ==
    ASSUME RefundInv, TypeOK, TypeOK', ~ChargeRaces,
           NEW t \in Threads, NEW p \in Payments, NEW step \in Steps,
           NEW op \in Ops, Readable(p), Begin(t, step, op, p, pay[p]),
           step \notin BirthSteps \cup ChargeSteps \cup MoneySteps,
           step \in {"queue", "claim"} =>
               pay[p].status = "PAID" /\ pay[p].approval # "APPROVED",
           pay' = pay, gateway' = gateway
    PROVE  RefundInv'
<1>1. \A u \in Threads \ {t} : thread'[u] = thread[u]
  BY DEF Begin, TypeOK
<1>2. thread'[t] = [at |-> step, op |-> op, p |-> p, seen |-> pay[p]]
  BY DEF Begin, TypeOK
<1>3. JobFits(thread[t])'
  BY <1>2 DEF JobFits, Readable
<1>4. ASSUME NEW u \in Threads \ {t}, On(u, p)
      PROVE  Compatible(thread'[t], thread[u])
  <2>1. thread[u].at \notin ChargeSteps
    BY <1>4 DEF Readable, Opening
  <2>2. thread[u].at \notin BirthSteps
    BY <1>4 DEF RefundInv, Free, On, JobFits, Readable
  <2>3. QED
    BY <1>2, <2>1, <2>2 DEF Compatible
<1>5. QED
  BY <1>1, <1>2, <1>3, <1>4, QuietStep

LEMMA TakeActiveRefund ==
    ASSUME RefundInv, TypeOK, TypeOK', ~ChargeRaces, NEW t \in Threads,
           NEW p \in Payments, NEW op \in Ops, TakeActive(t, p, op)
    PROVE  RefundInv'
<1>1. pay[p].status = "PAID" => pay[p].approval # "APPROVED"
  BY DEF RefundInv, ApprovalMatchesStatus
<1>2. PICK step \in {"claim", "refund", "markFailed"} :
          /\ Begin(t, step, op, p, pay[p])
          /\ step = "claim" => pay[p].status = "PAID"
  BY DEF TakeActive
<1>3. QED
  BY <1>1, <1>2, Arrive DEF TakeActive, Steps, BirthSteps, ChargeSteps, MoneySteps

LEMMA RequestRefund ==
    ASSUME RefundInv, TypeOK, TypeOK', ~ChargeRaces,
           NEW t \in Threads, NEW p \in Payments, Request(t, p)
    PROVE  RefundInv'
<1>1. CASE Initiate(t, p)
  <2>1. /\ \A u \in Threads \ {t} : thread'[u] = thread[u]
        /\ thread'[t] = [at |-> "status", op |-> "initiate", p |-> p, seen |-> NewRow]
    BY <1>1 DEF Initiate, Begin, TypeOK
  <2>2. JobFits(thread[t])'
    BY <1>1, <2>1 DEF Initiate, JobFits, BirthSteps, ChargeSteps, MoneySteps
  <2>3. QED
    BY <1>1, <2>1, <2>2, QuietStep DEF Initiate
<1>2. ASSUME NEW op \in {"confirm", "fail", "expire", "webhookPaid", "webhookFailed"},
             ReadToSettle(t, p, op)
      PROVE  RefundInv'
  BY <1>2, Arrive DEF ReadToSettle, Steps, Ops, BirthSteps, ChargeSteps, MoneySteps
<1>3. CASE CancelForOrder(t, p) \/ VoidForOrder(t, p) \/ Reconcile(t, p)
  BY <1>3, TakeActiveRefund DEF CancelForOrder, VoidForOrder, Reconcile, Ops
<1>4. CASE AskRefund(t, p)
  BY <1>4, Arrive DEF AskRefund, Steps, Ops, BirthSteps, ChargeSteps, MoneySteps
<1>5. CASE Approve(t, p)
  <2>1. pay[p].status = "PAID"
    BY <1>5 DEF Approve, RefundInv, ApprovalMatchesStatus
  <2>2. QED
    BY <1>5, <2>1, Arrive DEF Approve, Steps, Ops, BirthSteps, ChargeSteps, MoneySteps
<1>6. CASE AskReject(t, p)
  BY <1>6, Arrive DEF AskReject, Steps, Ops, BirthSteps, ChargeSteps, MoneySteps
<1>7. QED
  BY <1>1, <1>2, <1>3, <1>4, <1>5, <1>6 DEF Request

\* A request writes its row: the others on that row have nothing to lose unless
\* they are moving its money.
LEMMA WriteStep ==
    ASSUME RefundInv, TypeOK, TypeOK', NEW t \in Threads, thread[t] # NoJob,
           NEW p \in Payments, thread[t].p = p,
           \A u \in Threads \ {t} : thread'[u] = thread[u],
           \A q \in Payments \ {p} : pay'[q] = pay[q] /\ gateway'[q] = gateway[q],
           RowFits(p)', pay'[p].status # "NEW",
           thread'[t] # NoJob =>
               /\ thread'[t].p = p /\ JobFits(thread[t])'
               /\ thread[t].at \notin BirthSteps \cup ChargeSteps =>
                     thread'[t].at \notin BirthSteps \cup ChargeSteps
               /\ thread'[t].at \in MoneySteps =>
                     pay[p].status = "PAID" \/ thread[t].at \in MoneySteps,
           pay[p].status = "REFUNDED" =>
               \/ thread[t].at \in MoneySteps
               \/ pay'[p].status = "REFUNDED" /\ gateway'[p] = gateway[p]
    PROVE  RefundInv'
<1>1. ASSUME NEW u \in Threads \ {t}, On(u, p)
      PROVE  /\ JobFits(thread[u])'
             /\ thread'[t] # NoJob => Compatible(thread'[t], thread[u])
  <2>1. /\ Compatible(thread[t], thread[u]) /\ JobFits(thread[u])
        /\ thread[u].at \in MoneySteps =>
              pay[p].status = "REFUNDED" /\ thread[t].at \notin MoneySteps
    BY <1>1, Others
  <2>2. thread'[u] = thread[u] /\ thread[u].p = p
    BY <1>1 DEF On
  <2>3. thread[u].at \notin BirthSteps \cup ChargeSteps
    BY <2>1 DEF Compatible
  <2>4. JobFits(thread[u])'
    BY <2>1, <2>2, <2>3 DEF JobFits
  <2>5. thread'[t] # NoJob => Compatible(thread'[t], thread[u])
    BY <2>1, <2>3 DEF Compatible
  <2>6. QED
    BY <2>4, <2>5
<1>2. QED
  BY <1>1, LocalStep

LEMMA InitiateRefund ==
    ASSUME RefundInv, TypeOK, TypeOK', NEW t \in Threads, InitiateStep(t),
           NEW p \in Payments, thread[t].p = p
    PROVE  RefundInv'
<1>1. thread[t] # NoJob /\ thread[t] \in Job
  BY DEF InitiateStep, CheckOrder, Create, Charge, AttachCharge, UnwindCharge, At, TypeOK, Job
<1>2. JobFits(thread[t]) /\ pay[p].approval \in Approvals
  BY <1>1 DEF RefundInv, Free, TypeOK, Row
<1>3. RowFits(p)
  BY <1>1 DEF RefundInv, ApprovalMatchesStatus, RefundMatchesRow, RowFits
<1>4. \A u \in Threads \ {t} : On(u, p) => Compatible(thread[t], thread[u])
  BY <1>1, Others
<1>5. CASE CheckOrder(t)
  <2>1. CASE Done(t)
    BY <1>1, <1>5, <2>1, QuietDone DEF CheckOrder
  <2>2. CASE Goto(t, "create")
    <3>1. /\ \A u \in Threads \ {t} : thread'[u] = thread[u]
          /\ thread'[t] = [thread[t] EXCEPT !.at = "create"]
          /\ thread'[t].p = p /\ thread'[t].at = "create"
      BY <1>1, <2>2 DEF Goto, TypeOK, Job
    <3>2. thread[t].at = "status" /\ pay' = pay /\ gateway' = gateway
      BY <1>5 DEF CheckOrder, At
    <3>3. JobFits(thread[t])'
      BY <1>2, <3>1, <3>2 DEF JobFits, BirthSteps, ChargeSteps, MoneySteps
    <3>4. \A u \in Threads \ {t} : ~On(u, p)
      BY <1>4, <3>2 DEF Compatible, BirthSteps
    <3>5. QED
      BY <1>1, <3>1, <3>2, <3>3, <3>4, QuietStep
  <2>3. QED
    BY <1>5, <2>1, <2>2 DEF CheckOrder
<1>6. CASE Create(t)
  <2>1. CASE OtherActive(p)
    BY <1>1, <1>6, <2>1, QuietDone DEF Create
  <2>2. CASE ~OtherActive(p)
    <3>1. /\ pay' = [pay EXCEPT ![p].status = "PENDING"] /\ gateway' = gateway
          /\ thread[t].at = "create" /\ pay[p].status = "NEW"
          /\ Goto(t, "charge") \/ Done(t)
      BY <1>2, <1>6, <2>2 DEF Create, At, JobFits, BirthSteps
    <3>2. /\ \A u \in Threads \ {t} : thread'[u] = thread[u]
          /\ thread'[t] # NoJob => thread'[t].p = p /\ thread'[t].at = "charge"
      BY <1>1, <3>1 DEF Goto, Done, TypeOK, Job
    <3>3. /\ \A q \in Payments \ {p} : pay'[q] = pay[q]
          /\ pay'[p].status = "PENDING" /\ pay'[p].approval = pay[p].approval
      BY <1>1, <3>1 DEF TypeOK, Row
    <3>4. RowFits(p)'
      BY <1>3, <3>1, <3>3 DEF RowFits
    <3>5. thread'[t] # NoJob => JobFits(thread[t])'
      BY <3>2, <3>3 DEF JobFits, BirthSteps, ChargeSteps, MoneySteps
    <3>6. \A u \in Threads \ {t} : ~On(u, p)
      BY <1>4, <3>1 DEF Compatible, BirthSteps
    <3>7. QED
      BY <1>1, <3>1, <3>2, <3>3, <3>4, <3>5, <3>6, LocalStep
  <2>3. QED
    BY <2>1, <2>2
<1>7. CASE Charge(t)
  <2>1. /\ pay' = pay /\ thread[t].at = "charge"
        /\ Goto(t, "attach") \/ Goto(t, "unwind")
        /\ gateway' = gateway \/ gateway' = [gateway EXCEPT ![p].charged = TRUE]
    BY <1>7 DEF Charge, At
  <2>2. /\ \A q \in Payments \ {p} : gateway'[q] = gateway[q]
        /\ gateway'[p].refunds = gateway[p].refunds
    BY <1>1, <2>1 DEF TypeOK, Gateway
  <2>3. /\ \A u \in Threads \ {t} : thread'[u] = thread[u]
        /\ thread'[t] # NoJob /\ thread'[t].p = p /\ thread'[t].at \in {"attach", "unwind"}
    BY <1>1, <2>1, NoJobAssumption DEF Goto, TypeOK, Job, Steps
  <2>4. JobFits(thread[t])'
    BY <1>2, <2>1, <2>3 DEF JobFits, BirthSteps, ChargeSteps, MoneySteps
  <2>5. \A u \in Threads \ {t} : ~On(u, p)
    BY <1>4, <2>1 DEF Compatible, ChargeSteps
  <2>6. RowFits(p)'
    BY <1>3, <2>1, <2>2 DEF RowFits
  <2>7. QED
    BY <1>1, <2>1, <2>2, <2>3, <2>4, <2>5, <2>6, LocalStep
<1>8. CASE AttachCharge(t) \/ UnwindCharge(t)
  <2>1. Done(t) /\ gateway' = gateway /\ thread[t].at \in ChargeSteps
    BY <1>8 DEF AttachCharge, UnwindCharge, At, ChargeSteps
  <2>2. /\ \A u \in Threads \ {t} : thread'[u] = thread[u]
        /\ thread'[t] = NoJob
    BY <2>1 DEF Done, TypeOK
  <2>3. /\ \A q \in Payments \ {p} : pay'[q] = pay[q]
        /\ pay'[p].approval = pay[p].approval
        /\ pay'[p].status \in {"PENDING", "FAILED"} \/ pay'[p].status = pay[p].status
    BY <1>1, <1>8 DEF AttachCharge, UnwindCharge, Keep, TypeOK, Row
  <2>4. pay[p].status = "PENDING"
    BY <1>2, <2>1 DEF JobFits
  <2>5. RowFits(p)'
    BY <1>3, <2>1, <2>3, <2>4 DEF RowFits
  <2>6. \A u \in Threads \ {t} : ~On(u, p)
    BY <1>4, <2>1 DEF Compatible
  <2>7. QED
    BY <1>1, <2>1, <2>2, <2>3, <2>5, <2>6, LocalStep
<1>9. QED
  BY <1>5, <1>6, <1>7, <1>8 DEF InitiateStep

\* A compare-and-set that lands and ends the request, or moves it on to a step
\* that neither opens the row nor sends money.
LEMMA CasStep ==
    ASSUME RefundInv, TypeOK, TypeOK', NEW t \in Threads, thread[t] # NoJob,
           NEW p \in Payments, thread[t].p = p,
           gateway' = gateway, \A q \in Payments \ {p} : pay'[q] = pay[q],
           RowFits(p)', pay'[p].status # "NEW", pay[p].status # "REFUNDED",
           Done(t) \/ Goto(t, "notify")
    PROVE  RefundInv'
<1>1. /\ \A u \in Threads \ {t} : thread'[u] = thread[u]
      /\ thread'[t] # NoJob => thread'[t].p = p /\ thread'[t].at = "notify"
  BY DEF Done, Goto, TypeOK, Job
<1>2. thread'[t] # NoJob => JobFits(thread[t])'
  BY <1>1 DEF JobFits, BirthSteps, ChargeSteps, MoneySteps
<1>3. QED
  BY <1>1, <1>2, WriteStep DEF BirthSteps, ChargeSteps, MoneySteps

\* A request that only goes on to a later step of its own handler.
LEMMA QuietGoto ==
    ASSUME RefundInv, TypeOK, TypeOK', NEW t \in Threads, thread[t] # NoJob,
           thread[t].at \notin BirthSteps,
           NEW step \in {"reread", "reject", "handBack"}, Goto(t, step),
           step = "handBack" => thread[t].at \in MoneySteps,
           pay' = pay, gateway' = gateway
    PROVE  RefundInv'
<1>1. PICK p \in Payments : thread[t].p = p /\ thread[t] \in Job
  BY DEF TypeOK, Job
<1>2. /\ \A u \in Threads \ {t} : thread'[u] = thread[u]
      /\ thread'[t].p = p /\ thread'[t].at = step /\ thread'[t].seen = thread[t].seen
  BY <1>1 DEF Goto, TypeOK, Job
<1>3. JobFits(thread[t])
  BY DEF RefundInv, Free
<1>4. JobFits(thread[t])'
  BY <1>1, <1>2, <1>3 DEF JobFits, BirthSteps, ChargeSteps, MoneySteps
<1>5. \A u \in Threads \ {t} : On(u, p) => Compatible(thread'[t], thread[u])
  <2> SUFFICES ASSUME NEW u \in Threads \ {t}, On(u, p)
               PROVE  Compatible(thread'[t], thread[u])
    OBVIOUS
  <2>1. Compatible(thread[t], thread[u])
    BY <1>1, Others
  <2>2. QED
    BY <1>2, <2>1 DEF Compatible, BirthSteps, ChargeSteps, MoneySteps
<1>6. QED
  BY <1>2, <1>4, <1>5, QuietStep

LEMMA SettleRefund ==
    ASSUME RefundInv, TypeOK, TypeOK', NEW t \in Threads, SettleStep(t),
           NEW p \in Payments, thread[t].p = p
    PROVE  RefundInv'
<1>1. thread[t] # NoJob
  BY DEF SettleStep, Settle, ConfirmOrder, At
<1>2. RowFits(p)
  BY DEF RefundInv, ApprovalMatchesStatus, RefundMatchesRow, RowFits
<1>3. CASE Settle(t) /\ pay[p].status = "PENDING"
  <2>1. /\ gateway' = gateway /\ (Done(t) \/ Goto(t, "notify"))
        /\ \A q \in Payments \ {p} : pay'[q] = pay[q]
        /\ pay'[p].status \in {"PAID", "FAILED"}
        /\ pay'[p].approval = pay[p].approval
    <3>1. gateway' = gateway /\ (Done(t) \/ Goto(t, "notify"))
      BY <1>3 DEF Settle
    <3>2. CASE pay' = [pay EXCEPT ![p].status = "FAILED"]
      BY <3>1, <3>2 DEF TypeOK, Row
    <3>3. ASSUME NEW recent,
                 pay' = [pay EXCEPT ![p].status = "PAID", ![p].recent = recent]
          PROVE  /\ \A q \in Payments \ {p} : pay'[q] = pay[q]
                 /\ pay'[p].status \in {"PAID", "FAILED"}
                 /\ pay'[p].approval = pay[p].approval
      BY <3>3 DEF TypeOK, Row
    <3>4. QED
      BY <1>3, <3>1, <3>2, <3>3 DEF Settle, Keep, MayWrite
  <2>2. RowFits(p)'
    BY <1>2, <1>3, <2>1 DEF RowFits
  <2>3. QED
    BY <1>1, <1>3, <2>1, <2>2, CasStep
<1>4. CASE Settle(t) /\ pay[p].status # "PENDING"
  BY <1>4, QuietDone DEF Settle, MayWrite
<1>5. CASE ConfirmOrder(t)
  BY <1>5, QuietDone DEF ConfirmOrder
<1>6. QED
  BY <1>3, <1>4, <1>5 DEF SettleStep

LEMMA ClaimRefund ==
    ASSUME RefundInv, TypeOK, TypeOK', NEW t \in Threads, Claim(t),
           NEW p \in Payments, thread[t].p = p
    PROVE  RefundInv'
<1> DEFINE seen == thread[t].seen
<1>1. thread[t] # NoJob /\ thread[t].at = "claim" /\ thread[t] \in Job
  BY DEF Claim, At, TypeOK
<1>2. seen.status = "PAID" /\ seen.approval # "APPROVED"
  BY <1>1 DEF RefundInv, Free, JobFits
<1>3. CASE Unmoved(p, seen)
  <2>1. pay[p].status = "PAID" /\ gateway[p].refunds = 0
    <3>1. pay[p].status = "PAID"
      BY <1>2, <1>3 DEF Unmoved
    <3>2. gateway[p].refunds \in Nat
      BY MaxRefundsAssumption DEF TypeOK, Gateway
    <3>3. QED
      BY <3>1, <3>2 DEF RefundInv, RefundMatchesRow
  <2> DEFINE approval == ApprovalOf(thread[t].op)
  <2>2. /\ approval \in {"APPROVED", "NONE"} /\ Set(p, "REFUNDED", approval)
        /\ Goto(t, "gateway") \/ Goto(t, "record")
    BY <1>3 DEF Claim, ApprovalOf
  <2> HIDE DEF approval
  <2>2a. PICK step \in {"gateway", "record"} : Goto(t, step)
    BY <2>2
  <2>3. /\ \A q \in Payments \ {p} : pay'[q] = pay[q]
        /\ pay'[p].status = "REFUNDED" /\ pay'[p].approval = approval
    BY <2>2 DEF Set, TypeOK, Row
  <2>4. /\ \A u \in Threads \ {t} : thread'[u] = thread[u]
        /\ thread'[t].p = p /\ thread'[t].at = step /\ thread'[t].seen = seen
    BY <1>1, <2>2a DEF Goto, TypeOK, Job
  <2>5. gateway' = gateway
    BY DEF Claim
  <2>6. RowFits(p)'
    BY <2>2, <2>3 DEF RowFits
  <2>7. JobFits(thread[t])'
    BY <1>2, <2>1, <2>3, <2>4, <2>5 DEF JobFits, BirthSteps, ChargeSteps, MoneySteps
  <2>8. QED
    BY <1>1, <2>1, <2>3, <2>4, <2>5, <2>6, <2>7, WriteStep
       DEF BirthSteps, ChargeSteps
<1>4. CASE ~Unmoved(p, seen)
  BY <1>4, QuietDone DEF Claim
<1>5. QED
  BY <1>3, <1>4

LEMMA MoneyRefund ==
    ASSUME RefundInv, TypeOK, TypeOK', ~LostReplies, NEW t \in Threads,
           GatewayRefund(t) \/ HandBack(t),
           NEW p \in Payments, thread[t].p = p
    PROVE  RefundInv'
<1> DEFINE seen == thread[t].seen
<1>1. thread[t] # NoJob /\ thread[t].at \in MoneySteps /\ thread[t] \in Job
  BY DEF GatewayRefund, HandBack, Restore, At, TypeOK, MoneySteps
<1>2. /\ pay[p].status = "REFUNDED" /\ gateway[p].refunds = 0
      /\ seen.status = "PAID" /\ seen.approval # "APPROVED"
  BY <1>1 DEF RefundInv, Free, JobFits
<1>3. RowFits(p)
  BY DEF RefundInv, ApprovalMatchesStatus, RefundMatchesRow, RowFits
<1>4. CASE GatewayRefund(t) /\ Goto(t, "record")
  <2>1. /\ pay' = pay /\ \A q \in Payments \ {p} : gateway'[q] = gateway[q]
        /\ \A u \in Threads \ {t} : thread'[u] = thread[u]
        /\ thread'[t].p = p /\ thread'[t].at = "record"
    BY <1>1, <1>4 DEF GatewayRefund, Goto, TypeOK, Job
  <2>2. RowFits(p)'
    BY <1>2, <1>3, <2>1 DEF RowFits
  <2>3. JobFits(thread[t])'
    BY <1>2, <2>1 DEF JobFits, BirthSteps, ChargeSteps, MoneySteps
  <2>4. QED
    BY <1>1, <1>2, <2>1, <2>2, <2>3, WriteStep DEF BirthSteps, ChargeSteps, MoneySteps
<1>5. CASE GatewayRefund(t) /\ ~Goto(t, "record")
  BY <1>1, <1>5, QuietGoto DEF GatewayRefund, BirthSteps, MoneySteps
<1>6. CASE HandBack(t) /\ pay' = pay
  BY <1>6, QuietDone DEF HandBack, Restore
<1>7. CASE HandBack(t) /\ pay' # pay
  <2>1. Set(p, "PAID", seen.approval) /\ gateway' = gateway /\ Done(t)
    <3>1. Set(p, seen.status, seen.approval) /\ gateway' = gateway /\ Done(t)
      BY <1>7 DEF HandBack, Restore
    <3>2. QED
      BY <1>2, <3>1
  <2>2. /\ \A q \in Payments \ {p} : pay'[q] = pay[q]
        /\ pay'[p].status = "PAID" /\ pay'[p].approval = seen.approval
    BY <2>1 DEF Set, TypeOK, Row
  <2>3. /\ \A u \in Threads \ {t} : thread'[u] = thread[u]
        /\ thread'[t] = NoJob
    BY <2>1 DEF Done, TypeOK
  <2>4. RowFits(p)'
    BY <1>2, <2>1, <2>2 DEF RowFits
  <2>5. QED
    BY <1>1, <2>1, <2>2, <2>3, <2>4, WriteStep
<1>8. QED
  BY <1>4, <1>5, <1>6, <1>7

LEMMA RefundStepRefund ==
    ASSUME RefundInv, TypeOK, TypeOK', ~ChargeRaces, ~LostReplies,
           NEW t \in Threads, RefundStep(t),
           NEW p \in Payments, thread[t].p = p
    PROVE  RefundInv'
<1>1. thread[t] # NoJob /\ thread[t] \in Job
  BY DEF RefundStep, MarkFailed, Reread, ReadToRefund, Queue, Claim, GatewayRefund,
         HandBack, Record, CheckStanding, Reject, At, TypeOK
<1>2. RowFits(p) /\ JobFits(thread[t])
  BY <1>1 DEF RefundInv, Free, ApprovalMatchesStatus, RefundMatchesRow, RowFits
<1>3. CASE MarkFailed(t) /\ pay[p].status = "PENDING"
  <2>1. Keep(p, "FAILED") /\ Done(t) /\ gateway' = gateway
    BY <1>3 DEF MarkFailed, MayWrite
  <2>2. /\ \A q \in Payments \ {p} : pay'[q] = pay[q]
        /\ pay'[p].status = "FAILED" /\ pay'[p].approval = pay[p].approval
    BY <2>1, KeepStatus
  <2>3. RowFits(p)'
    BY <1>2, <1>3, <2>1, <2>2 DEF RowFits
  <2>4. QED
    BY <1>1, <1>3, <2>1, <2>2, <2>3, CasStep
<1>4. CASE MarkFailed(t) /\ pay[p].status # "PENDING"
  BY <1>1, <1>4, QuietGoto DEF MarkFailed, MayWrite, At, BirthSteps
<1>5. CASE Reread(t)
  <2>1. thread[t].op \in Ops
    BY <1>1 DEF Job
  <2>2. QED
    BY <1>5, <2>1, TakeActiveRefund, QuietDone DEF Reread
<1>6. CASE ReadToRefund(t)
  <2>1. CASE Done(t)
    BY <1>6, <2>1, QuietDone DEF ReadToRefund
  <2>2. CASE ~Done(t)
    <3>1. /\ thread[t].at = "refund" /\ pay' = pay /\ gateway' = gateway
          /\ pay[p].status = "PAID" /\ pay[p].approval # "PENDING"
      BY <1>6, <2>2 DEF ReadToRefund, At
    <3>2. PICK step \in {"queue", "claim"} : Begin(t, step, thread[t].op, p, pay[p])
      BY <1>6, <2>2 DEF ReadToRefund
    <3>3. /\ \A u \in Threads \ {t} : thread'[u] = thread[u]
          /\ thread'[t] = [at |-> step, op |-> thread[t].op, p |-> p, seen |-> pay[p]]
      BY <3>2 DEF Begin, TypeOK
    <3>4. JobFits(thread[t])'
      BY <1>2, <3>1, <3>3 DEF JobFits, RowFits, BirthSteps, ChargeSteps, MoneySteps
    <3>5. \A u \in Threads \ {t} : On(u, p) => Compatible(thread'[t], thread[u])
      <4> SUFFICES ASSUME NEW u \in Threads \ {t}, On(u, p)
                   PROVE  Compatible(thread'[t], thread[u])
        OBVIOUS
      <4>1. Compatible(thread[t], thread[u])
        BY <1>1, Others
      <4>2. QED
        BY <3>3, <4>1 DEF Compatible, BirthSteps, ChargeSteps, MoneySteps
    <3>6. QED
      BY <3>1, <3>3, <3>4, <3>5, QuietStep
  <2>3. QED
    BY <2>1, <2>2
<1>7. CASE Queue(t) /\ Unmoved(p, thread[t].seen)
  <2>1. pay[p].status = "PAID" /\ thread[t].seen.status = "PAID"
    BY <1>2, <1>7 DEF Queue, At, JobFits, Unmoved
  <2>2. Set(p, "PAID", "PENDING") /\ Done(t) /\ gateway' = gateway
    BY <1>7, <2>1 DEF Queue
  <2>3. /\ \A q \in Payments \ {p} : pay'[q] = pay[q]
        /\ pay'[p].status = "PAID" /\ pay'[p].approval = "PENDING"
    BY <2>2, SetStatus
  <2>4. RowFits(p)'
    BY <1>2, <2>1, <2>2, <2>3 DEF RowFits
  <2>5. QED
    BY <1>1, <2>1, <2>2, <2>3, <2>4, CasStep
<1>8. CASE Queue(t) /\ ~Unmoved(p, thread[t].seen)
  BY <1>8, QuietDone DEF Queue
<1>9. CASE Record(t) /\ pay[p].status = "REFUNDED"
  <2> DEFINE approval == ApprovalOf(thread[t].op)
  <2>1. approval \in {"APPROVED", "NONE"} /\ Set(p, "REFUNDED", approval)
    BY <1>9 DEF Record, ApprovalOf
  <2> HIDE DEF approval
  <2>2. /\ \A q \in Payments \ {p} : pay'[q] = pay[q]
        /\ pay'[p].status = "REFUNDED" /\ pay'[p].approval = approval
    BY <2>1 DEF Set, TypeOK, Row
  <2>3. /\ gateway' = gateway /\ thread'[t] = NoJob
        /\ \A u \in Threads \ {t} : thread'[u] = thread[u]
    BY <1>9 DEF Record, Done, TypeOK
  <2>4. RowFits(p)'
    BY <2>1, <2>2 DEF RowFits
  <2>5. QED
    BY <1>1, <2>2, <2>3, <2>4, WriteStep
<1>10. CASE Record(t) /\ pay[p].status # "REFUNDED"
  BY <1>10, QuietDone DEF Record
<1>11. CASE CheckStanding(t)
  BY <1>1, <1>11, QuietGoto, QuietDone DEF CheckStanding, At, BirthSteps
<1>12. CASE Reject(t) /\ pay[p].status = "PAID" /\ pay[p].approval = "PENDING"
  <2>1. Set(p, "PAID", "REJECTED") /\ Done(t) /\ gateway' = gateway
    BY <1>12 DEF Reject, MayReject
  <2>2. /\ \A q \in Payments \ {p} : pay'[q] = pay[q]
        /\ pay'[p].status = "PAID" /\ pay'[p].approval = "REJECTED"
    BY <2>1, SetStatus
  <2>3. RowFits(p)'
    BY <1>2, <1>12, <2>1, <2>2 DEF RowFits
  <2>4. QED
    BY <1>1, <1>12, <2>1, <2>2, <2>3, CasStep
<1>13. CASE Reject(t) /\ ~(pay[p].status = "PAID" /\ pay[p].approval = "PENDING")
  BY <1>13, QuietDone DEF Reject, MayReject
<1>14. QED
  BY <1>3, <1>4, <1>5, <1>6, <1>7, <1>8, <1>9, <1>10, <1>11, <1>12, <1>13,
     ClaimRefund, MoneyRefund DEF RefundStep

LEMMA RefundInvStep ==
    ASSUME ~ChargeRaces, ~LostReplies, TypeOK, TypeOK', RefundInv, [Next]_vars
    PROVE  RefundInv'
<1>1. ASSUME NEW t \in Threads, ThreadStep(t)
      PROVE  RefundInv'
  <2>1. thread[t] # NoJob
    BY <1>1 DEF ThreadStep, InitiateStep, SettleStep, RefundStep, At, CheckOrder, Create,
                Charge, AttachCharge, UnwindCharge, Settle, ConfirmOrder, MarkFailed, Reread,
                ReadToRefund, Queue, Claim, GatewayRefund, HandBack, Record, CheckStanding,
                Reject
  <2>2. PICK p \in Payments : thread[t].p = p
    BY <2>1 DEF TypeOK, Job
  <2>3. QED
    BY <1>1, <2>2, InitiateRefund, SettleRefund, RefundStepRefund DEF ThreadStep
<1>2. ASSUME NEW t \in Threads, Crash(t)
      PROVE  RefundInv'
  <2>1. PICK p \in Payments : thread[t].p = p
    BY <1>2 DEF Crash, Free, TypeOK, Job
  <2>2. QED
    BY <1>2, <2>1, QuietDone DEF Crash
<1>3. CASE UNCHANGED <<pay, thread>> /\ \A p \in Payments : gateway'[p].refunds = gateway[p].refunds
  <2>1. ASSUME NEW t \in Threads, thread[t] # NoJob
        PROVE  JobFits(thread[t])'
    <3>1. thread[t].p \in Payments
      BY <2>1 DEF TypeOK, Job
    <3>2. JobFits(thread[t])
      BY <2>1 DEF RefundInv, Free
    <3>3. QED
      BY <1>3, <3>1, <3>2 DEF JobFits
  <2>2. ApprovalMatchesStatus' /\ RefundMatchesRow'
    BY <1>3 DEF RefundInv, ApprovalMatchesStatus, RefundMatchesRow
  <2>3. QED
    BY <1>3, <2>1, <2>2 DEF RefundInv, Free
<1>4. ASSUME NEW p \in Payments, PayCharge(p)
      PROVE  RefundInv'
  <2>1. \A q \in Payments : gateway'[q].refunds = gateway[q].refunds
    BY <1>4 DEF PayCharge, TypeOK, Gateway
  <2>2. QED
    BY <1>3, <1>4, <2>1 DEF PayCharge
<1>5. ASSUME NEW p \in Payments, ClaimNotice(p) \/ NotifyDepot(p)
      PROVE  RefundInv'
  BY <1>3, <1>5 DEF ClaimNotice, NotifyDepot
<1>6. ASSUME NEW o \in Orders, NEW status \in Over, CloseOrder(o, status)
      PROVE  RefundInv'
  BY <1>3, <1>6 DEF CloseOrder
<1>7. CASE UNCHANGED vars
  BY <1>3, <1>7 DEF vars
<1>8. QED
  BY <1>1, <1>2, <1>4, <1>5, <1>6, <1>7, RequestRefund DEF Next, Environment

\* The inductive invariant of the refund protocol.
THEOREM RefundProtocol ==
    ASSUME ~ChargeRaces, ~LostReplies
    PROVE  Spec => []RefundInv
<1>1. Init => RefundInv
  BY DEF Init, RefundInv, Free, ApprovalMatchesStatus, RefundMatchesRow, NewRow
<1>2. TypeOK /\ TypeOK' /\ RefundInv /\ [Next]_vars => RefundInv'
  BY RefundInvStep
<1>3. QED
  BY <1>1, <1>2, Typing, PTL DEF Spec

LEMMA RefundCountStep ==
    ASSUME TypeOK, TypeOK', RefundInv, RefundedAtMostOnce, [Next]_vars
    PROVE  RefundedAtMostOnce'
<1>1. ASSUME NEW t \in Threads, GatewayRefund(t)
      PROVE  RefundedAtMostOnce'
  <2>1. PICK p \in Payments : thread[t].p = p
    BY <1>1 DEF GatewayRefund, At, TypeOK, Job
  <2>2. gateway[p].refunds = 0
    BY <1>1, <2>1 DEF GatewayRefund, At, RefundInv, Free, JobFits, MoneySteps
  <2>3. /\ \A q \in Payments \ {p} : gateway'[q] = gateway[q]
        /\ gateway'[p].refunds \in {0, 1}
    BY <1>1, <2>1, <2>2 DEF GatewayRefund, TypeOK, Gateway
  <2>4. QED
    BY <2>3 DEF RefundedAtMostOnce
<1>2. CASE \A p \in Payments : gateway'[p].refunds = gateway[p].refunds
  BY <1>2 DEF RefundedAtMostOnce
<1>3. ASSUME NEW t \in Threads, Charge(t)
      PROVE  RefundedAtMostOnce'
  <2>1. \A p \in Payments : gateway'[p].refunds = gateway[p].refunds
    BY <1>3 DEF Charge, TypeOK, Gateway
  <2>2. QED
    BY <1>2, <2>1
<1>4. ASSUME NEW p \in Payments, PayCharge(p)
      PROVE  RefundedAtMostOnce'
  BY <1>2, <1>4 DEF PayCharge, TypeOK, Gateway
<1>5. CASE gateway' = gateway
  BY <1>2, <1>5
<1>6. ASSUME NEW t \in Threads, ThreadStep(t)
      PROVE  RefundedAtMostOnce'
  BY <1>1, <1>3, <1>5, <1>6
     DEF ThreadStep, InitiateStep, SettleStep, RefundStep, CheckOrder, Create,
         AttachCharge, UnwindCharge, Settle, ConfirmOrder, MarkFailed, Reread, TakeActive,
         ReadToRefund, Queue, Claim, HandBack, Record, CheckStanding, Reject
<1>7. ASSUME NEW t \in Threads, NEW p \in Payments, Request(t, p)
      PROVE  RefundedAtMostOnce'
  BY <1>5, <1>7
     DEF Request, Initiate, ReadToSettle, CancelForOrder, VoidForOrder, Reconcile, TakeActive,
         AskRefund, Approve, AskReject
<1>8. QED
  BY <1>4, <1>5, <1>6, <1>7 DEF Next, Crash, ClaimNotice, NotifyDepot, Environment, CloseOrder, vars

\* However many approvals, refunds, voids, sweeps and crashes meet on a payment,
\* the provider refunds it at most once, and never a row that is not REFUNDED.
THEOREM RefundOnce ==
    ASSUME ~ChargeRaces, ~LostReplies
    PROVE  Spec => [](RefundedAtMostOnce /\ RefundMatchesRow /\ ApprovalMatchesStatus)
<1>1. Init => RefundedAtMostOnce
  BY DEF Init, RefundedAtMostOnce
<1>2. TypeOK /\ TypeOK' /\ RefundInv /\ RefundedAtMostOnce /\ [Next]_vars => RefundedAtMostOnce'
  BY RefundCountStep
<1>3. RefundInv => RefundMatchesRow /\ ApprovalMatchesStatus
  BY DEF RefundInv
<1>4. QED
  BY <1>1, <1>2, <1>3, Typing, RefundProtocol, PTL DEF Spec

----------------------------------------------------------------------------
(* Above the threshold, HQ decides                                          *)

\* A request that is about to claim a payment above the threshold comes from
\* the HQ queue or voids a counter sale: cancel, staff and sweep have queued it.
FromQueue(j) ==
    j.at = "claim" /\ j.p \in High /\ j.op # "void" =>
        j.op = "approve" /\ j.seen.approval = "PENDING"

ClaimsFromQueue == \A t \in Threads : ~Free(t) => FromQueue(thread[t])

\* Only t moves, and the step it is now at is in order.
LEMMA FromQueueStep ==
    ASSUME ClaimsFromQueue, NEW t \in Threads,
           \A u \in Threads \ {t} : thread'[u] = thread[u],
           thread'[t] # NoJob => FromQueue(thread'[t])
    PROVE  ClaimsFromQueue'
BY DEF ClaimsFromQueue, Free, FromQueue

LEMMA FromQueueDone ==
    ASSUME TypeOK, ClaimsFromQueue, NEW t \in Threads, Done(t)
    PROVE  ClaimsFromQueue'
BY FromQueueStep DEF Done, TypeOK

LEMMA FromQueueGoto ==
    ASSUME TypeOK, ClaimsFromQueue, NEW t \in Threads, thread[t] # NoJob,
           NEW step \in Steps \ {"claim"}, Goto(t, step)
    PROVE  ClaimsFromQueue'
<1>1. /\ \A u \in Threads \ {t} : thread'[u] = thread[u]
      /\ thread'[t].at = step
  BY DEF Goto, TypeOK, Job
<1>2. QED
  BY <1>1, FromQueueStep DEF FromQueue

LEMMA FromQueueBegin ==
    ASSUME TypeOK, ClaimsFromQueue, NEW t \in Threads, NEW step, NEW op,
           NEW p \in Payments, NEW seen, Begin(t, step, op, p, seen),
           step = "claim" /\ p \in High /\ op # "void" =>
               op = "approve" /\ seen.approval = "PENDING"
    PROVE  ClaimsFromQueue'
<1>1. /\ \A u \in Threads \ {t} : thread'[u] = thread[u]
      /\ thread'[t] = [at |-> step, op |-> op, p |-> p, seen |-> seen]
  BY DEF Begin, TypeOK
<1>2. QED
  BY <1>1, FromQueueStep DEF FromQueue

LEMMA FromQueueTake ==
    ASSUME TypeOK, ClaimsFromQueue, NEW t \in Threads, NEW p \in Payments, NEW op,
           TakeActive(t, p, op)
    PROVE  ClaimsFromQueue'
<1>1. PICK step : Begin(t, step, op, p, pay[p]) /\ (step = "claim" => op = "void")
  BY DEF TakeActive
<1>2. QED
  BY <1>1, FromQueueBegin

LEMMA FromQueueThread ==
    ASSUME TypeOK, ClaimsFromQueue, NEW t \in Threads, ThreadStep(t)
    PROVE  ClaimsFromQueue'
<1>1. thread[t] # NoJob /\ thread[t].p \in Payments
  BY DEF ThreadStep, InitiateStep, SettleStep, RefundStep, TypeOK, At, Job,
         CheckOrder, Create, Charge, AttachCharge, UnwindCharge, Settle, ConfirmOrder,
         MarkFailed, Reread, ReadToRefund, Queue, Claim, GatewayRefund, HandBack, Record,
         CheckStanding, Reject
<1>2. CASE InitiateStep(t)
  BY <1>1, <1>2, FromQueueDone, FromQueueGoto
     DEF InitiateStep, CheckOrder, Create, Charge, AttachCharge, UnwindCharge, Steps
<1>3. CASE SettleStep(t)
  BY <1>1, <1>3, FromQueueDone, FromQueueGoto DEF SettleStep, Settle, ConfirmOrder, Steps
<1>4. CASE Reread(t)
  BY <1>4, FromQueueDone, FromQueueTake DEF Reread
<1>5. CASE ReadToRefund(t)
  <2>1. CASE Done(t)
    BY <2>1, FromQueueDone
  <2>2. CASE ~Done(t)
    BY <1>1, <1>5, <2>2, FromQueueBegin DEF ReadToRefund
  <2>3. QED
    BY <2>1, <2>2
<1>6. CASE MarkFailed(t) \/ Claim(t) \/ GatewayRefund(t) \/ CheckStanding(t)
  BY <1>1, <1>6, FromQueueDone, FromQueueGoto
     DEF MarkFailed, Claim, GatewayRefund, CheckStanding, Steps
<1>7. CASE Queue(t) \/ HandBack(t) \/ Record(t) \/ Reject(t)
  BY <1>7, FromQueueDone DEF Queue, HandBack, Record, Reject
<1>8. QED
  BY <1>2, <1>3, <1>4, <1>5, <1>6, <1>7 DEF ThreadStep, RefundStep

LEMMA FromQueueRequest ==
    ASSUME TypeOK, ClaimsFromQueue, NEW t \in Threads, NEW p \in Payments, Request(t, p)
    PROVE  ClaimsFromQueue'
<1>1. CASE CancelForOrder(t, p) \/ VoidForOrder(t, p) \/ Reconcile(t, p)
  BY <1>1, FromQueueTake DEF CancelForOrder, VoidForOrder, Reconcile
<1>2. CASE Approve(t, p)
  BY <1>2, FromQueueBegin DEF Approve
<1>3. CASE Initiate(t, p) \/ AskRefund(t, p) \/ AskReject(t, p)
  BY <1>3, FromQueueBegin DEF Initiate, AskRefund, AskReject
<1>4. ASSUME NEW op, ReadToSettle(t, p, op)
      PROVE  ClaimsFromQueue'
  BY <1>4, FromQueueBegin DEF ReadToSettle
<1>5. QED
  BY <1>1, <1>2, <1>3, <1>4 DEF Request

\* Of all the writes only the claim settles a payment that was not settled.
LEMMA OnlyTheClaimRefunds ==
    ASSUME TypeOK, NEW t \in Threads, ThreadStep(t), NEW p \in Payments,
           pay[p].status # "REFUNDED", pay'[p].status = "REFUNDED"
    PROVE  Claim(t) /\ On(t, p) /\ Unmoved(p, thread[t].seen)
<1> DEFINE q == thread[t].p
<1>1. thread[t] # NoJob /\ thread[t] \in Job /\ q \in Payments
  BY DEF ThreadStep, InitiateStep, SettleStep, RefundStep, TypeOK, At, Job,
         CheckOrder, Create, Charge, AttachCharge, UnwindCharge, Settle, ConfirmOrder,
         MarkFailed, Reread, ReadToRefund, Queue, Claim, GatewayRefund, HandBack, Record,
         CheckStanding, Reject
<1> HIDE DEF q
<1>2. pay' # pay
  OBVIOUS
<1>3. CASE Create(t) \/ AttachCharge(t)
  <2>1. \/ pay' = [pay EXCEPT ![q].status = "PENDING"]
        \/ pay' = [pay EXCEPT ![q].status = "PENDING", ![q].ref = TRUE]
    BY <1>2, <1>3 DEF Create, AttachCharge, q
  <2>2. pay[q] \in Row
    BY <1>1 DEF TypeOK
  <2>3. pay'[q].status = "PENDING"
    BY <1>1, <2>1, <2>2 DEF TypeOK, Row
  <2>4. p # q => pay'[p] = pay[p]
    BY <1>1, <2>1 DEF TypeOK
  <2>5. QED
    BY <2>3, <2>4
<1>4. CASE UnwindCharge(t) \/ MarkFailed(t)
  <2>1. Keep(q, "FAILED")
    BY <1>2, <1>4 DEF UnwindCharge, MarkFailed, q
  <2>2. QED
    BY <1>1, <2>1, KeepStatus
<1>5. CASE Settle(t)
  <2>1. CASE Keep(q, "FAILED")
    BY <1>1, <2>1, KeepStatus
  <2>2. ASSUME NEW recent,
               pay' = [pay EXCEPT ![q].status = "PAID", ![q].recent = recent]
        PROVE  FALSE
    BY <1>1, <2>2 DEF TypeOK, Row
  <2>3. QED
    BY <1>2, <1>5, <2>1, <2>2 DEF Settle, q
<1>6. CASE Queue(t)
  <2>1. Set(q, pay[q].status, "PENDING")
    BY <1>2, <1>6 DEF Queue, Unmoved, q
  <2>2. QED
    BY <1>1, <2>1, SetStatus
<1>7. CASE Claim(t)
  <2>1. Set(q, "REFUNDED", ApprovalOf(thread[t].op)) /\ Unmoved(q, thread[t].seen)
    BY <1>2, <1>7 DEF Claim, q
  <2>2. p = q
    BY <1>1, <2>1, SetStatus
  <2>3. QED
    BY <1>1, <1>7, <2>1, <2>2 DEF On, q
<1>8. CASE HandBack(t)
  <2>1. Set(q, thread[t].seen.status, thread[t].seen.approval) /\ pay[q].status = "REFUNDED"
    BY <1>2, <1>8 DEF HandBack, Restore, q
  <2>2. QED
    BY <1>1, <2>1, SetStatus
<1>9. CASE Record(t)
  <2>1. pay[q].status = "REFUNDED" /\ Set(q, "REFUNDED", ApprovalOf(thread[t].op))
    BY <1>2, <1>9 DEF Record, q
  <2>2. QED
    BY <1>1, <2>1, SetStatus
<1>10. CASE Reject(t)
  <2>1. Set(q, "PAID", "REJECTED")
    BY <1>2, <1>10 DEF Reject, q
  <2>2. QED
    BY <1>1, <2>1, SetStatus
<1>11. QED
  BY <1>2, <1>3, <1>4, <1>5, <1>6, <1>7, <1>8, <1>9, <1>10
     DEF ThreadStep, InitiateStep, SettleStep, RefundStep, CheckOrder, Charge, ConfirmOrder,
         Reread, ReadToRefund, GatewayRefund, CheckStanding, TakeActive

\* Above the threshold a payment is settled only by an approval of the request
\* waiting at HQ, or by the void of a counter sale; lost answers, crashes and
\* requests that meet the opening of a charge included.
THEOREM AboveThreshold == Spec => HQDecides
<1>1. Init => ClaimsFromQueue
  BY DEF Init, ClaimsFromQueue, Free
<1>2. TypeOK /\ ClaimsFromQueue /\ [Next]_vars => ClaimsFromQueue'
  <2> SUFFICES ASSUME TypeOK, ClaimsFromQueue, [Next]_vars
               PROVE  ClaimsFromQueue'
    OBVIOUS
  <2>1. CASE thread' = thread
    BY <2>1 DEF ClaimsFromQueue, Free, FromQueue
  <2>2. ASSUME NEW t \in Threads, Crash(t)
        PROVE  ClaimsFromQueue'
    BY <2>2, FromQueueDone DEF Crash
  <2>3. QED
    BY <2>1, <2>2, FromQueueThread, FromQueueRequest
       DEF Next, ClaimNotice, NotifyDepot, Environment, CloseOrder, PayCharge, vars
<1>3. TypeOK /\ ClaimsFromQueue /\ [Next]_vars =>
        \A p \in High :
          pay[p].status # "REFUNDED" /\ pay'[p].status = "REFUNDED" =>
              \/ pay[p].approval = "PENDING" /\ pay'[p].approval = "APPROVED"
              \/ \E t \in Threads : On(t, p) /\ thread[t].op = "void"
  <2> SUFFICES ASSUME TypeOK, ClaimsFromQueue, [Next]_vars, NEW p \in High,
                      pay[p].status # "REFUNDED", pay'[p].status = "REFUNDED",
                      \A t \in Threads : On(t, p) => thread[t].op # "void"
               PROVE  pay[p].approval = "PENDING" /\ pay'[p].approval = "APPROVED"
    OBVIOUS
  <2>1. p \in Payments
    BY ColumnsAssumption
  <2>2. PICK t \in Threads : ThreadStep(t)
    BY OtherStepsKeepRows
  <2>3. Claim(t) /\ On(t, p) /\ Unmoved(p, thread[t].seen)
    BY <2>1, <2>2, OnlyTheClaimRefunds
  <2>4. thread[t].op = "approve" /\ pay[p].approval = "PENDING"
    BY <2>3 DEF ClaimsFromQueue, FromQueue, Free, Claim, At, On, Unmoved
  <2>5. Set(p, "REFUNDED", "APPROVED")
    BY <2>3, <2>4 DEF Claim, On, ApprovalOf
  <2>6. QED
    BY <2>1, <2>4, <2>5, SetStatus
<1>4. QED
  BY <1>1, <1>2, <1>3, Typing, PTL DEF Spec, HQDecides

----------------------------------------------------------------------------
(* The charge reference, as the requests rely on it                         *)

\* Whoever opens a charge does it for an online payment, whoever is about to
\* claim has read the reference the row has, and whoever moves money through
\* the provider does it for a row with a charge there.
RefFits(j) ==
    /\ j.at \in ChargeSteps => MethodOf[j.p] = "ONLINE"
    /\ j.at = "claim" => j.seen.ref = pay[j.p].ref
    /\ j.at \in MoneySteps => MethodOf[j.p] = "ONLINE" /\ pay[j.p].ref

RefInv ==
    /\ \A t \in Threads : ~Free(t) => RefFits(thread[t])
    /\ \A p \in Payments : pay[p].ref => MethodOf[p] = "ONLINE"

\* The actions of a thread on a row, as every proof below begins.
LEMMA Running ==
    ASSUME TypeOK, NEW t \in Threads, ThreadStep(t)
    PROVE  thread[t] # NoJob /\ thread[t] \in Job /\ thread[t].p \in Payments
BY DEF ThreadStep, InitiateStep, SettleStep, RefundStep, TypeOK, At, Job,
       CheckOrder, Create, Charge, AttachCharge, UnwindCharge, Settle, ConfirmOrder,
       MarkFailed, Reread, ReadToRefund, Queue, Claim, GatewayRefund, HandBack, Record,
       CheckStanding, Reject

LEMMA SetKeepsRef ==
    ASSUME TypeOK, NEW p \in Payments, NEW status, NEW approval,
           Set(p, status, approval) \/ Keep(p, status)
    PROVE  \A q \in Payments : pay'[q].ref = pay[q].ref
<1>1. \A q \in Payments : pay[q] \in Row
  BY DEF TypeOK
<1>2. CASE Keep(p, status)
  BY <1>1, <1>2 DEF Keep, TypeOK, Row
<1>3. CASE Set(p, status, approval)
  BY <1>1, <1>3 DEF Set, TypeOK, Row
<1>4. QED
  BY <1>2, <1>3

\* Only the write of initiate's charge stores a reference, and none is removed.
LEMMA RefKept ==
    ASSUME TypeOK, NEW t \in Threads, ThreadStep(t), ~AttachCharge(t)
    PROVE  \A q \in Payments : pay'[q].ref = pay[q].ref
<1> DEFINE p == thread[t].p
<1>1. p \in Payments
  BY Running
<1> HIDE DEF p
<1>2. CASE pay' = pay
  BY <1>2
<1>3. CASE Create(t)
  <2>1. pay' = [pay EXCEPT ![p].status = "PENDING"] \/ pay' = pay
    BY <1>3 DEF Create, p
  <2>2. QED
    BY <1>1, <2>1 DEF TypeOK, Row
<1>4. CASE UnwindCharge(t) \/ MarkFailed(t)
  <2>1. Keep(p, "FAILED") \/ pay' = pay
    BY <1>4 DEF UnwindCharge, MarkFailed, p
  <2>2. QED
    BY <1>1, <2>1, SetKeepsRef
<1>5. CASE Settle(t)
  <2>1. CASE Keep(p, "FAILED")
    BY <1>1, <2>1, SetKeepsRef
  <2>2. ASSUME NEW recent,
               pay' = [pay EXCEPT ![p].status = "PAID", ![p].recent = recent]
        PROVE  \A q \in Payments : pay'[q].ref = pay[q].ref
    BY <1>1, <2>2 DEF TypeOK, Row
  <2>3. QED
    BY <1>2, <1>5, <2>1, <2>2 DEF Settle, p
<1>6. CASE Queue(t) \/ Claim(t) \/ HandBack(t) \/ Record(t) \/ Reject(t)
  <2>1. pay' = pay \/ \E status, approval : Set(p, status, approval)
    BY <1>6 DEF Queue, Claim, HandBack, Restore, Record, Reject, p
  <2>2. QED
    BY <1>1, <2>1, SetKeepsRef
<1>7. QED
  BY <1>2, <1>3, <1>4, <1>5, <1>6
     DEF ThreadStep, InitiateStep, SettleStep, RefundStep, CheckOrder, Charge, ConfirmOrder,
         Reread, ReadToRefund, GatewayRefund, CheckStanding, TakeActive

LEMMA RefStep ==
    ASSUME TypeOK, RefInv, NEW t \in Threads,
           \A u \in Threads \ {t} : thread'[u] = thread[u],
           \A q \in Payments : pay'[q].ref = pay[q].ref,
           thread'[t] # NoJob => RefFits(thread[t])'
    PROVE  RefInv'
<1>1. ASSUME NEW u \in Threads \ {t}, thread'[u] # NoJob
      PROVE  RefFits(thread[u])'
  <2>1. thread'[u] = thread[u] /\ thread[u].p \in Payments
    BY <1>1 DEF TypeOK, Job
  <2>2. RefFits(thread[u])
    BY <1>1 DEF RefInv, Free
  <2>3. QED
    BY <2>1, <2>2 DEF RefFits
<1>2. QED
  BY <1>1 DEF RefInv, Free

\* A handler that ends, or goes on to a step at which nothing is relied upon.
LEMMA RefQuiet ==
    ASSUME TypeOK, RefInv, NEW t \in Threads, thread[t] # NoJob,
           NEW step \in Steps \ (ChargeSteps \cup MoneySteps \cup {"claim"}),
           Done(t) \/ Goto(t, step),
           \A q \in Payments : pay'[q].ref = pay[q].ref
    PROVE  RefInv'
<1>1. /\ \A u \in Threads \ {t} : thread'[u] = thread[u]
      /\ thread'[t] # NoJob => thread'[t].at = step
  BY DEF Done, Goto, TypeOK, Job
<1>2. thread'[t] # NoJob => RefFits(thread[t])'
  BY <1>1 DEF RefFits
<1>3. QED
  BY <1>1, <1>2, RefStep

LEMMA RefBegin ==
    ASSUME TypeOK, RefInv, NEW t \in Threads, NEW p \in Payments, NEW seen,
           NEW step \in Steps \ (ChargeSteps \cup MoneySteps), NEW op,
           Begin(t, step, op, p, seen), step = "claim" => seen = pay[p], pay' = pay
    PROVE  RefInv'
<1>1. /\ \A u \in Threads \ {t} : thread'[u] = thread[u]
      /\ thread'[t] = [at |-> step, op |-> op, p |-> p, seen |-> seen]
  BY DEF Begin, TypeOK
<1>2. RefFits(thread[t])'
  BY <1>1 DEF RefFits
<1>3. QED
  BY <1>1, <1>2, RefStep

LEMMA RefTake ==
    ASSUME TypeOK, RefInv, NEW t \in Threads, NEW p \in Payments, NEW op,
           TakeActive(t, p, op)
    PROVE  RefInv'
<1>1. PICK step \in {"claim", "refund", "markFailed"} : Begin(t, step, op, p, pay[p])
  BY DEF TakeActive
<1>2. QED
  BY <1>1, RefBegin DEF TakeActive, Steps, ChargeSteps, MoneySteps

LEMMA RefRequest ==
    ASSUME TypeOK, RefInv, NEW t \in Threads, NEW p \in Payments, Request(t, p)
    PROVE  RefInv'
<1>1. CASE CancelForOrder(t, p) \/ VoidForOrder(t, p) \/ Reconcile(t, p)
  BY <1>1, RefTake DEF CancelForOrder, VoidForOrder, Reconcile
<1>2. CASE Initiate(t, p)
  BY <1>2, RefBegin DEF Initiate, Steps, ChargeSteps, MoneySteps
<1>3. CASE AskRefund(t, p) \/ Approve(t, p) \/ AskReject(t, p)
  BY <1>3, RefBegin DEF AskRefund, Approve, AskReject, Steps, ChargeSteps, MoneySteps
<1>4. ASSUME NEW op, ReadToSettle(t, p, op)
      PROVE  RefInv'
  BY <1>4, RefBegin DEF ReadToSettle, Steps, ChargeSteps, MoneySteps
<1>5. QED
  BY <1>1, <1>2, <1>3, <1>4 DEF Request

LEMMA RefThread ==
    ASSUME TypeOK, RefundInv, RefInv, NEW t \in Threads, ThreadStep(t)
    PROVE  RefInv'
<1> DEFINE p == thread[t].p
<1>1. thread[t] # NoJob /\ thread[t] \in Job /\ p \in Payments
  BY Running
<1>2. RefFits(thread[t])
  BY <1>1 DEF RefInv, Free
<1>3. CASE AttachCharge(t)
  <2>1. MethodOf[p] = "ONLINE" /\ thread[t].at \in ChargeSteps
    BY <1>2, <1>3 DEF AttachCharge, At, RefFits, ChargeSteps
  <2>2. /\ \A q \in Payments \ {p} : pay'[q] = pay[q]
        /\ \A u \in Threads \ {t} : thread'[u] = thread[u]
        /\ thread'[t] = NoJob
    BY <1>1, <1>3 DEF AttachCharge, Done, TypeOK
  <2>3. \A u \in Threads \ {t} : thread[u] # NoJob => thread[u].p # p
    BY <1>1, <2>1, Others DEF On, Compatible
  <2>4. ASSUME NEW u \in Threads, thread'[u] # NoJob
        PROVE  RefFits(thread[u])'
    <3>1. u # t /\ thread'[u] = thread[u] /\ thread[u].p \in Payments \ {p}
      BY <2>2, <2>3, <2>4 DEF TypeOK, Job
    <3>2. RefFits(thread[u])
      BY <3>1, <2>4 DEF RefInv, Free
    <3>3. QED
      BY <2>2, <3>1, <3>2 DEF RefFits
  <2>5. QED
    BY <2>1, <2>2, <2>4 DEF RefInv, Free
<1>4. CASE ~AttachCharge(t)
  <2>1. \A q \in Payments : pay'[q].ref = pay[q].ref
    BY <1>4, RefKept
  <2>2. CASE Done(t)
    BY <1>1, <2>1, <2>2, RefQuiet DEF Steps, ChargeSteps, MoneySteps
  <2>3. ASSUME NEW step \in Steps, Goto(t, step), ~Reread(t), ~ReadToRefund(t)
        PROVE  RefInv'
    <3>1. /\ \A u \in Threads \ {t} : thread'[u] = thread[u]
          /\ thread'[t].at = step /\ thread'[t].p = p /\ thread'[t].seen = thread[t].seen
      BY <1>1, <2>3 DEF Goto, TypeOK, Job
    <3>2. /\ step \in ChargeSteps => MethodOf[p] = "ONLINE"
          /\ step \in MoneySteps => MethodOf[p] = "ONLINE" /\ pay[p].ref
          /\ step # "claim"
      <4>1. thread'[t] # NoJob
        BY <1>1, <2>3, NoJobAssumption DEF Goto, TypeOK, Job
      <4>2. ~Done(t) /\ \A other : Goto(t, other) => other = step
        BY <1>1, <3>1, <4>1 DEF Done, Goto, TypeOK, Job
      <4>3. CASE Create(t) \/ Charge(t)
        BY <1>2, <4>2, <4>3 DEF Create, Charge, At, RefFits, ChargeSteps, MoneySteps
      <4>4. CASE Claim(t) \/ GatewayRefund(t)
        BY <1>2, <4>2, <4>4 DEF Claim, GatewayRefund, At, RefFits, ChargeSteps, MoneySteps
      <4>5. CASE CheckOrder(t) \/ Settle(t) \/ MarkFailed(t) \/ CheckStanding(t)
        BY <4>2, <4>5
           DEF CheckOrder, Settle, MarkFailed, CheckStanding, ChargeSteps, MoneySteps
      <4>6. QED
        BY <1>4, <2>3, <4>2, <4>3, <4>4, <4>5
           DEF ThreadStep, InitiateStep, SettleStep, RefundStep, UnwindCharge, ConfirmOrder,
               Queue, HandBack, Record, Reject
    <3>3. RefFits(thread[t])'
      BY <1>1, <2>1, <3>1, <3>2 DEF RefFits
    <3>4. QED
      BY <2>1, <3>1, <3>3, RefStep
  <2>4. CASE Reread(t)
    BY <2>2, <2>4, RefTake DEF Reread
  <2>5. CASE ReadToRefund(t)
    <3>1. CASE ~Done(t)
      <4>1. PICK step \in {"queue", "claim"} : Begin(t, step, thread[t].op, p, pay[p])
        BY <2>5, <3>1 DEF ReadToRefund
      <4>2. pay' = pay
        BY <2>5 DEF ReadToRefund
      <4>3. QED
        BY <1>1, <4>1, <4>2, RefBegin DEF Steps, ChargeSteps, MoneySteps
    <3>2. QED
      BY <2>2, <3>1
  <2>6. QED
    BY <1>4, <2>2, <2>3, <2>4, <2>5
       DEF ThreadStep, InitiateStep, SettleStep, RefundStep, CheckOrder, Create, Charge,
           UnwindCharge, Settle, ConfirmOrder, MarkFailed, Queue, Claim, GatewayRefund,
           HandBack, Record, CheckStanding, Reject, Steps
<1>5. QED
  BY <1>3, <1>4

\* The part of the invariant that the ledger and the books need beyond RefundInv.
THEOREM References ==
    ASSUME ~ChargeRaces, ~LostReplies
    PROVE  Spec => []RefInv
<1>1. Init => RefInv
  BY DEF Init, RefInv, Free, NewRow
<1>2. TypeOK /\ RefundInv /\ RefInv /\ [Next]_vars => RefInv'
  <2> SUFFICES ASSUME TypeOK, RefundInv, RefInv, [Next]_vars
               PROVE  RefInv'
    OBVIOUS
  <2>1. CASE UNCHANGED <<pay, thread>>
    BY <2>1 DEF RefInv, Free, RefFits
  <2>2. ASSUME NEW t \in Threads, Crash(t)
        PROVE  RefInv'
    BY <2>2, RefQuiet DEF Crash, Free, Steps, ChargeSteps, MoneySteps
  <2>3. QED
    BY <2>1, <2>2, RefThread, RefRequest
       DEF Next, ClaimNotice, NotifyDepot, Environment, CloseOrder, PayCharge, vars
<1>3. QED
  BY <1>1, <1>2, Typing, RefundProtocol, PTL DEF Spec

----------------------------------------------------------------------------
(* Every refund on the books is backed, when no request dies on the way     *)

Backed(p) ==
    \/ gateway[p].refunds > 0
    \/ Refunding(p)
    \/ "byHand" \in alarm[p]

\* What the provider has refunded, and what was logged, stays.
LEMMA BackingStays ==
    ASSUME TypeOK, TypeOK', [Next]_vars, NEW p \in Payments
    PROVE  /\ gateway[p].refunds > 0 => gateway'[p].refunds > 0
           /\ alarm[p] \subseteq alarm'[p]
<1>1. alarm[p] \subseteq alarm'[p]
  <2>1. CASE alarm' = alarm
    BY <2>1
  <2>2. ASSUME NEW q \in Payments, NEW entry, alarm' = [alarm EXCEPT ![q] = @ \cup {entry}]
        PROVE  alarm[p] \subseteq alarm'[p]
    BY <2>2 DEF TypeOK
  <2>3. ASSUME NEW t \in Threads, HandBack(t)
        PROVE  alarm[p] \subseteq alarm'[p]
    <3>1. thread[t].p \in Payments
      BY <2>3 DEF HandBack, At, TypeOK, Job
    <3>2. QED
      BY <2>1, <2>2, <2>3, <3>1 DEF HandBack
  <2>4. ASSUME NEW t \in Threads, ThreadStep(t), ~HandBack(t)
        PROVE  alarm' = alarm
    BY <2>4
       DEF ThreadStep, InitiateStep, SettleStep, RefundStep, CheckOrder, Create, Charge,
           AttachCharge, UnwindCharge, Settle, ConfirmOrder, MarkFailed, Reread, TakeActive,
           ReadToRefund, Queue, Claim, GatewayRefund, Record, CheckStanding, Reject
  <2>5. ASSUME NEW t \in Threads, NEW q \in Payments, Request(t, q)
        PROVE  alarm' = alarm
    BY <2>5
       DEF Request, Initiate, ReadToSettle, CancelForOrder, VoidForOrder, Reconcile,
           TakeActive, AskRefund, Approve, AskReject
  <2>6. ASSUME NEW q \in Payments, ClaimNotice(q) \/ NotifyDepot(q)
        PROVE  alarm[p] \subseteq alarm'[p]
    BY <2>2, <2>6 DEF ClaimNotice, NotifyDepot
  <2>7. QED
    BY <2>1, <2>3, <2>4, <2>5, <2>6
       DEF Next, Crash, Environment, CloseOrder, PayCharge, vars
<1>2. gateway[p].refunds > 0 => gateway'[p].refunds > 0
  <2>1. CASE gateway' = gateway
    BY <2>1
  <2>2. ASSUME NEW q \in Payments,
               \/ gateway' = [gateway EXCEPT ![q].charged = TRUE]
               \/ gateway' = [gateway EXCEPT ![q].paid = TRUE]
        PROVE  gateway'[p].refunds = gateway[p].refunds
    BY <2>2 DEF TypeOK, Gateway
  <2>3. ASSUME NEW q \in Payments, gateway' = [gateway EXCEPT ![q].refunds = @ + 1]
        PROVE  gateway[p].refunds > 0 => gateway'[p].refunds > 0
    <3>1. gateway[p].refunds \in Nat
      BY MaxRefundsAssumption DEF TypeOK, Gateway
    <3>2. gateway'[p].refunds \in {gateway[p].refunds, gateway[p].refunds + 1}
      BY <2>3 DEF TypeOK, Gateway
    <3>3. QED
      BY <3>1, <3>2
  <2>4. ASSUME NEW t \in Threads, Charge(t) \/ GatewayRefund(t)
        PROVE  gateway[p].refunds > 0 => gateway'[p].refunds > 0
    <3>1. thread[t].p \in Payments
      BY <2>4 DEF Charge, GatewayRefund, At, TypeOK, Job
    <3>2. QED
      BY <2>1, <2>2, <2>3, <2>4, <3>1 DEF Charge, GatewayRefund
  <2>5. ASSUME NEW t \in Threads, ThreadStep(t), ~Charge(t), ~GatewayRefund(t)
        PROVE  gateway' = gateway
    BY <2>5
       DEF ThreadStep, InitiateStep, SettleStep, RefundStep, CheckOrder, Create,
           AttachCharge, UnwindCharge, Settle, ConfirmOrder, MarkFailed, Reread, TakeActive,
           ReadToRefund, Queue, Claim, HandBack, Record, CheckStanding, Reject
  <2>6. ASSUME NEW t \in Threads, NEW q \in Payments, Request(t, q)
        PROVE  gateway' = gateway
    BY <2>6
       DEF Request, Initiate, ReadToSettle, CancelForOrder, VoidForOrder, Reconcile,
           TakeActive, AskRefund, Approve, AskReject
  <2>7. ASSUME NEW q \in Payments, PayCharge(q)
        PROVE  gateway'[p].refunds = gateway[p].refunds
    BY <2>2, <2>7 DEF PayCharge
  <2>8. QED
    BY <2>1, <2>4, <2>5, <2>6, <2>7
       DEF Next, Crash, ClaimNotice, NotifyDepot, Environment, CloseOrder, vars
<1>3. QED
  BY <1>1, <1>2

\* Whoever moves the money of p goes on with it, is done, or gives it back.
LEMMA MoverMoves ==
    ASSUME TypeOK, TypeOK', RefundInv, ~Crashes, [Next]_vars, NEW p \in Payments,
           Refunding(p), pay'[p].status = "REFUNDED"
    PROVE  Backed(p)'
<1>1. PICK t \in Threads : On(t, p) /\ thread[t].at \in MoneySteps
  BY DEF Refunding
<1>2. CASE thread'[t] = thread[t]
  BY <1>1, <1>2 DEF Backed, Refunding, On
<1>3. CASE GatewayRefund(t)
  <2>1. CASE Goto(t, "handBack")
    <3>1. thread'[t].at = "handBack" /\ thread'[t].p = p /\ thread'[t] # NoJob
      BY <1>1, <2>1, NoJobAssumption DEF Goto, On, TypeOK, Job, Steps
    <3>2. QED
      BY <3>1 DEF Backed, Refunding, On, MoneySteps
  <2>2. CASE gateway' = [gateway EXCEPT ![p].refunds = @ + 1]
    <3>1. gateway[p].refunds \in Nat
      BY MaxRefundsAssumption DEF TypeOK, Gateway
    <3>2. gateway'[p].refunds = gateway[p].refunds + 1
      BY <2>2 DEF TypeOK, Gateway
    <3>3. QED
      BY <3>1, <3>2 DEF Backed
  <2>3. QED
    BY <1>1, <1>3, <2>1, <2>2 DEF GatewayRefund, On
<1>4. CASE HandBack(t)
  <2>1. thread[t].p = p /\ thread[t].seen.status = "PAID"
    BY <1>1, <1>4 DEF On, HandBack, At, RefundInv, Free, JobFits
  <2>2. alarm' = [alarm EXCEPT ![p] = @ \cup {"byHand"}]
    <3>1. ~Set(p, "PAID", thread[t].seen.approval)
      BY SetStatus
    <3>2. QED
      BY <1>4, <2>1, <3>1 DEF HandBack, Restore
  <2>3. QED
    BY <2>2 DEF Backed, TypeOK
<1>5. ASSUME NEW u \in Threads \ {t}, ThreadStep(u)
      PROVE  thread'[t] = thread[t]
  BY <1>5
     DEF ThreadStep, InitiateStep, SettleStep, RefundStep, CheckOrder, Create, Charge,
         AttachCharge, UnwindCharge, Settle, ConfirmOrder, MarkFailed, Reread, TakeActive,
         ReadToRefund, Queue, Claim, GatewayRefund, HandBack, Record, CheckStanding, Reject,
         Done, Goto, Begin, TypeOK
<1>6. ASSUME NEW u \in Threads, NEW q \in Payments, Request(u, q)
      PROVE  thread'[t] = thread[t]
  BY <1>1, <1>6
     DEF On, Free, Request, Initiate, ReadToSettle, CancelForOrder, VoidForOrder, Reconcile,
         TakeActive, AskRefund, Approve, AskReject, Begin, TypeOK
<1>7. ASSUME ThreadStep(t)
      PROVE  GatewayRefund(t) \/ HandBack(t)
  BY <1>1, <1>7
     DEF MoneySteps, At, ThreadStep, InitiateStep, SettleStep, RefundStep, CheckOrder, Create,
         Charge, AttachCharge, UnwindCharge, Settle, ConfirmOrder, MarkFailed, Reread,
         ReadToRefund, Queue, Claim, Record, CheckStanding, Reject
<1>8. QED
  BY <1>2, <1>3, <1>4, <1>5, <1>6, <1>7
     DEF Next, Crash, ClaimNotice, NotifyDepot, Environment, CloseOrder, PayCharge, vars

\* A refund enters the books by a claim, which goes straight to the provider
\* when there is a charge, and is backed from there on.
LEMMA BackedStep ==
    ASSUME ~Crashes, TypeOK, TypeOK', RefundInv, RefInv, RefInv', RefundedIsBacked,
           [Next]_vars
    PROVE  RefundedIsBacked'
<1> SUFFICES ASSUME NEW p \in Payments, pay'[p].status = "REFUNDED", pay'[p].ref
             PROVE  Backed(p)'
  BY DEF RefundedIsBacked, Backed, Refunding
<1>1. CASE pay[p].status # "REFUNDED"
  <2>1. PICK t \in Threads : ThreadStep(t)
    BY <1>1, OtherStepsKeepRows
  <2>2. Claim(t) /\ On(t, p) /\ Unmoved(p, thread[t].seen)
    BY <1>1, <2>1, OnlyTheClaimRefunds
  <2>3. thread[t] # NoJob /\ thread[t].p = p /\ thread[t] \in Job
    BY <2>2 DEF On, TypeOK
  <2>4. pay[p].ref
    BY <2>1, <2>2, RefKept DEF Claim, AttachCharge, At
  <2>5. MethodOf[p] = "ONLINE" /\ thread[t].seen.ref
    BY <2>2, <2>3, <2>4 DEF RefInv, Free, RefFits, Claim, At
  <2>6. Goto(t, "gateway")
    BY <2>2, <2>3, <2>5 DEF Claim
  <2>7. thread'[t].at = "gateway" /\ thread'[t].p = p /\ thread'[t] # NoJob
    BY <2>3, <2>6, NoJobAssumption DEF Goto, TypeOK, Job, Steps
  <2>8. QED
    BY <2>7 DEF Backed, Refunding, On, MoneySteps
<1>2. CASE pay[p].status = "REFUNDED"
  <2>1. pay[p].ref
    <3>1. ASSUME NEW t \in Threads, AttachCharge(t)
          PROVE  thread[t].p # p
      BY <1>2, <3>1 DEF AttachCharge, At, RefundInv, Free, JobFits, ChargeSteps
    <3>2. ASSUME NEW t \in Threads, AttachCharge(t)
          PROVE  pay'[p] = pay[p]
      <4>1. thread[t].p \in Payments \ {p}
        BY <3>1, <3>2 DEF AttachCharge, At, TypeOK, Job
      <4>2. QED
        BY <3>2, <4>1 DEF AttachCharge, TypeOK
    <3>3. QED
      BY <3>2, RefKept, OtherStepsKeepRows
  <2>2. Backed(p)
    BY <1>2, <2>1 DEF RefundedIsBacked, Backed, Refunding
  <2>3. CASE Refunding(p)
    BY <2>3, MoverMoves
  <2>4. QED
    BY <2>2, <2>3, BackingStays DEF Backed
<1>3. QED
  BY <1>1, <1>2

\* Without crashes no payment is refunded on paper only: the money went back,
\* is on its way, or the failure of its hand-back was logged.
THEOREM EveryRefundBacked ==
    ASSUME ~ChargeRaces, ~LostReplies, ~Crashes
    PROVE  Spec => []RefundedIsBacked
<1>1. Init => RefundedIsBacked
  BY DEF Init, RefundedIsBacked, NewRow
<1>2. TypeOK /\ TypeOK' /\ RefundInv /\ RefInv /\ RefInv' /\ RefundedIsBacked /\ [Next]_vars
          => RefundedIsBacked'
  BY BackedStep
<1>3. QED
  BY <1>1, <1>2, Typing, RefundProtocol, References, PTL DEF Spec

----------------------------------------------------------------------------
(* Payment implements PaymentLedger                                         *)

entries == [p \in Payments |-> EntryOf(p)]
payouts == [p \in Payments |-> gateway[p].refunds]

LedgerStep == [Ledger!LedgerNext]_<<entries, payouts>>

\* What the ledger sees of a payment stays as it was.
Unseen(q) ==
    /\ pay'[q].status = pay[q].status
    /\ gateway'[q].refunds = gateway[q].refunds
    /\ pay[q].status = "REFUNDED" =>
          pay'[q].ref = pay[q].ref /\ (Refunding(q)' <=> Refunding(q))

LEMMA UnseenEntry ==
    ASSUME TypeOK, NEW q \in Payments, Unseen(q)
    PROVE  EntryOf(q)' = EntryOf(q)
<1>1. pay[q].status \in {"NEW", "PENDING", "FAILED", "PAID", "REFUNDED"}
  BY DEF TypeOK, Row, Statuses
<1>2. CASE pay[q].status = "REFUNDED"
  BY <1>2 DEF Unseen, EntryOf
<1>3. CASE pay[q].status # "REFUNDED"
  BY <1>1, <1>3 DEF Unseen, EntryOf
<1>4. QED
  BY <1>2, <1>3

LEMMA Invisible ==
    ASSUME TypeOK, \A q \in Payments : Unseen(q)
    PROVE  LedgerStep
<1>1. entries' = entries /\ payouts' = payouts
  BY UnseenEntry DEF entries, payouts, Unseen
<1>2. QED
  BY <1>1 DEF LedgerStep

\* One payment moves from an entry to another, and its refunds may be counted.
LEMMA Visible ==
    ASSUME TypeOK, NEW p \in Payments, \A q \in Payments \ {p} : Unseen(q),
           \/ /\ gateway'[p].refunds = gateway[p].refunds
              /\ <<EntryOf(p), EntryOf(p)'>> \in
                     { <<"none", "open">>, <<"open", "held">>, <<"open", "closed">>,
                       <<"held", "returned">>, <<"held", "returning">>,
                       <<"returning", "held">>, <<"returning", "lost">> }
           \/ /\ gateway'[p].refunds = gateway[p].refunds + 1
              /\ EntryOf(p) = "returning" /\ EntryOf(p)' = "returned"
    PROVE  LedgerStep
<1>1. entries' = [entries EXCEPT ![p] = EntryOf(p)'] /\ entries[p] = EntryOf(p)
  BY UnseenEntry DEF entries
<1>2. payouts' = [payouts EXCEPT ![p] = gateway'[p].refunds]
      /\ payouts[p] = gateway[p].refunds
  BY DEF payouts, Unseen
<1>3. CASE gateway'[p].refunds = gateway[p].refunds
  <2>1. payouts' = payouts
    BY <1>2, <1>3 DEF payouts
  <2>2. CASE EntryOf(p) = "returning" /\ EntryOf(p)' = "returned"
             /\ gateway'[p].refunds = gateway[p].refunds + 1
    BY <1>1, <1>2, <2>2
       DEF LedgerStep, Ledger!LedgerNext, Ledger!Return, Ledger!Move, entries, payouts
  <2>3. QED
    BY <1>1, <2>1, <2>2
       DEF LedgerStep, Ledger!LedgerNext, Ledger!Open, Ledger!Take, Ledger!Close,
           Ledger!ByHand, Ledger!Try, Ledger!GiveUp, Ledger!Lose, Ledger!Move,
           entries, payouts
<1>4. CASE gateway'[p].refunds # gateway[p].refunds
  BY <1>1, <1>2, <1>4
     DEF LedgerStep, Ledger!LedgerNext, Ledger!Return, Ledger!Move, entries, payouts
<1>5. QED
  BY <1>3, <1>4

\* The requests at the provider are those that were there, when none comes or goes.
LEMMA MoversKept ==
    ASSUME NEW t \in Threads, NEW q \in Payments,
           \A u \in Threads \ {t} : thread'[u] = thread[u],
           On(t, q) /\ thread[t].at \in MoneySteps
              <=> On(t, q)' /\ thread'[t].at \in MoneySteps
    PROVE  Refunding(q)' <=> Refunding(q)
BY DEF Refunding, On

\* A thread that is at no money step, before or after, moves nobody's money.
LEMMA NoMover ==
    ASSUME NEW t \in Threads, \A u \in Threads \ {t} : thread'[u] = thread[u],
           thread[t] = NoJob \/ thread[t].at \notin MoneySteps,
           thread'[t] = NoJob \/ thread'[t].at \notin MoneySteps
    PROVE  \A q \in Payments : Refunding(q)' <=> Refunding(q)
BY MoversKept DEF On

\* The holder of the claim is the only one at the provider for its payment.
LEMMA OneMover ==
    ASSUME RefundInv, NEW t \in Threads, NEW p \in Payments, On(t, p),
           thread[t].at \in MoneySteps,
           NEW u \in Threads \ {t}, On(u, p)
    PROVE  thread[u].at \notin MoneySteps
BY DEF RefundInv, Free, On, Compatible

\* The holder leaves: what its payment was and has become.
LEMMA MoverLeaves ==
    ASSUME TypeOK, RefundInv, RefInv, NEW t \in Threads, NEW p \in Payments,
           On(t, p), thread[t].at \in MoneySteps,
           \A u \in Threads \ {t} : thread'[u] = thread[u],
           thread'[t] = NoJob \/ thread'[t].at \notin MoneySteps,
           \A q \in Payments \ {p} :
               pay'[q] = pay[q] /\ gateway'[q].refunds = gateway[q].refunds
    PROVE  /\ EntryOf(p) = "returning" /\ ~Refunding(p)'
           /\ pay[p].status = "REFUNDED" /\ gateway[p].refunds = 0
           /\ MethodOf[p] = "ONLINE" /\ pay[p].ref
           /\ \A q \in Payments \ {p} : Unseen(q)
<1>1. /\ pay[p].status = "REFUNDED" /\ gateway[p].refunds = 0
      /\ MethodOf[p] = "ONLINE" /\ pay[p].ref
  BY DEF RefundInv, RefInv, RefFits, Free, JobFits, On
<1>2. EntryOf(p) = "returning"
  BY <1>1 DEF EntryOf, Refunding
<1>3. ~Refunding(p)'
  <2> SUFFICES ASSUME NEW u \in Threads, thread'[u] # NoJob, thread'[u].p = p,
                      thread'[u].at \in MoneySteps
               PROVE  FALSE
    BY DEF Refunding, On
  <2>1. u # t /\ thread'[u] = thread[u]
    OBVIOUS
  <2>2. QED
    BY <2>1, OneMover DEF On
<1>4. ASSUME NEW q \in Payments \ {p}
      PROVE  Unseen(q)
  <2>1. Refunding(q)' <=> Refunding(q)
    BY MoversKept DEF On
  <2>2. QED
    BY <2>1 DEF Unseen
<1>5. QED
  BY <1>1, <1>2, <1>3, <1>4

\* A row is opened, taken or closed; nobody's refund is touched.
LEMMA RowMoves ==
    ASSUME TypeOK, NEW t \in Threads, NEW p \in Payments,
           \A q \in Payments \ {p} : pay'[q] = pay[q],
           \A q \in Payments : gateway'[q].refunds = gateway[q].refunds,
           \A q \in Payments : Refunding(q)' <=> Refunding(q),
           <<pay[p].status, pay'[p].status>> \in
               {<<"NEW", "PENDING">>, <<"PENDING", "PAID">>, <<"PENDING", "FAILED">>}
    PROVE  LedgerStep
<1>1. \A q \in Payments \ {p} : Unseen(q)
  BY DEF Unseen
<1>2. <<EntryOf(p), EntryOf(p)'>> \in
          {<<"none", "open">>, <<"open", "held">>, <<"open", "closed">>}
  BY DEF EntryOf
<1>3. QED
  BY <1>1, <1>2, Visible

\* A request that changes no status, no reference of a refunded row and no
\* refund, and neither is nor comes to be at the provider.
LEMMA RowStays ==
    ASSUME TypeOK,
           \A q \in Payments :
               /\ pay'[q].status = pay[q].status
               /\ pay[q].status = "REFUNDED" => pay'[q].ref = pay[q].ref,
           \A q \in Payments : gateway'[q].refunds = gateway[q].refunds,
           \A q \in Payments : Refunding(q)' <=> Refunding(q)
    PROVE  LedgerStep
BY Invisible DEF Unseen

LEMMA OffMoney ==
    ASSUME TypeOK, NEW t \in Threads, thread[t] # NoJob, thread[t].at \notin MoneySteps,
           NEW step, step \notin MoneySteps, Done(t) \/ Goto(t, step)
    PROVE  \A q \in Payments : Refunding(q)' <=> Refunding(q)
<1>1. /\ \A u \in Threads \ {t} : thread'[u] = thread[u]
      /\ thread'[t] = NoJob \/ thread'[t].at = step
  BY DEF Done, Goto, TypeOK, Job
<1>2. QED
  BY <1>1, NoMover

LEMMA BeginOffMoney ==
    ASSUME TypeOK, NEW t \in Threads, thread[t] = NoJob \/ thread[t].at \notin MoneySteps,
           NEW step, step \notin MoneySteps, NEW op, NEW p, NEW seen,
           Begin(t, step, op, p, seen)
    PROVE  \A q \in Payments : Refunding(q)' <=> Refunding(q)
<1>1. /\ \A u \in Threads \ {t} : thread'[u] = thread[u]
      /\ thread'[t].at = step
  BY DEF Begin, TypeOK
<1>2. QED
  BY <1>1, NoMover

LEMMA InitiateLedger ==
    ASSUME TypeOK, RefundInv, NEW t \in Threads, InitiateStep(t)
    PROVE  LedgerStep
<1> DEFINE p == thread[t].p
<1>1. thread[t] # NoJob /\ thread[t] \in Job /\ p \in Payments
  BY Running DEF ThreadStep
<1>2. JobFits(thread[t])
  BY <1>1 DEF RefundInv, Free
<1>3. CASE CheckOrder(t)
  BY <1>1, <1>3, OffMoney, RowStays DEF CheckOrder, At, MoneySteps
<1>4. CASE Create(t)
  <2>1. CASE OtherActive(p)
    BY <1>1, <1>4, <2>1, OffMoney, RowStays DEF Create, At, MoneySteps
  <2>2. CASE ~OtherActive(p)
    <3>1. pay[p].status = "NEW"
      BY <1>2, <1>4 DEF Create, At, JobFits, BirthSteps
    <3>2. /\ \A q \in Payments \ {p} : pay'[q] = pay[q]
          /\ pay'[p].status = "PENDING" /\ gateway' = gateway
      BY <1>1, <1>4, <2>2 DEF Create, TypeOK, Row
    <3>3. \A q \in Payments : Refunding(q)' <=> Refunding(q)
      BY <1>1, <1>4, OffMoney DEF Create, At, MoneySteps
    <3>4. QED
      BY <1>1, <3>1, <3>2, <3>3, RowMoves
  <2>3. QED
    BY <2>1, <2>2
<1>5. CASE Charge(t)
  <2>1. pay' = pay /\ \A q \in Payments : gateway'[q].refunds = gateway[q].refunds
    BY <1>1, <1>5 DEF Charge, TypeOK, Gateway
  <2>2. \A q \in Payments : Refunding(q)' <=> Refunding(q)
    BY <1>1, <1>5, OffMoney DEF Charge, At, MoneySteps
  <2>3. QED
    BY <2>1, <2>2, RowStays
<1>6. CASE AttachCharge(t)
  <2>1. pay[p].status = "PENDING"
    BY <1>2, <1>6 DEF AttachCharge, At, JobFits, ChargeSteps
  <2>2. /\ \A q \in Payments \ {p} : pay'[q] = pay[q]
        /\ pay'[p].status = "PENDING" /\ gateway' = gateway
    BY <1>1, <1>6, <2>1 DEF AttachCharge, TypeOK, Row
  <2>3. \A q \in Payments : Refunding(q)' <=> Refunding(q)
    BY <1>1, <1>6, OffMoney DEF AttachCharge, At, MoneySteps
  <2>4. QED
    BY <2>1, <2>2, <2>3, RowStays
<1>7. CASE UnwindCharge(t)
  <2>1. pay[p].status = "PENDING"
    BY <1>2, <1>7 DEF UnwindCharge, At, JobFits, ChargeSteps
  <2>2. /\ \A q \in Payments \ {p} : pay'[q] = pay[q]
        /\ pay'[p].status = "FAILED" /\ gateway' = gateway
    BY <1>1, <1>7, KeepStatus DEF UnwindCharge
  <2>3. \A q \in Payments : Refunding(q)' <=> Refunding(q)
    BY <1>1, <1>7, OffMoney DEF UnwindCharge, At, MoneySteps
  <2>4. QED
    BY <1>1, <2>1, <2>2, <2>3, RowMoves
<1>8. QED
  BY <1>3, <1>4, <1>5, <1>6, <1>7 DEF InitiateStep

LEMMA SettleLedger ==
    ASSUME TypeOK, NEW t \in Threads, SettleStep(t)
    PROVE  LedgerStep
<1> DEFINE p == thread[t].p
<1>1. thread[t] # NoJob /\ p \in Payments
  BY Running DEF ThreadStep
<1>2. gateway' = gateway /\ \A q \in Payments : Refunding(q)' <=> Refunding(q)
  BY <1>1, OffMoney DEF SettleStep, Settle, ConfirmOrder, At, MoneySteps
<1>3. CASE pay' = pay
  BY <1>2, <1>3, RowStays
<1>4. CASE pay' # pay
  <2>1. Settle(t) /\ pay[p].status = "PENDING"
    BY <1>4 DEF SettleStep, Settle, ConfirmOrder, MayWrite
  <2>2. /\ \A q \in Payments \ {p} : pay'[q] = pay[q]
        /\ pay'[p].status \in {"PAID", "FAILED"}
    <3>1. CASE Keep(p, "FAILED")
      BY <1>1, <3>1, KeepStatus
    <3>2. ASSUME NEW recent,
                 pay' = [pay EXCEPT ![p].status = "PAID", ![p].recent = recent]
          PROVE  /\ \A q \in Payments \ {p} : pay'[q] = pay[q]
                 /\ pay'[p].status \in {"PAID", "FAILED"}
      BY <1>1, <3>2 DEF TypeOK, Row
    <3>3. QED
      BY <1>4, <2>1, <3>1, <3>2 DEF Settle
  <2>3. QED
    BY <1>1, <1>2, <2>1, <2>2, RowMoves
<1>5. QED
  BY <1>3, <1>4

\* The claim: an attempt that goes to the provider, or money handed back by hand.
LEMMA ClaimLedger ==
    ASSUME TypeOK, RefundInv, RefInv, NEW t \in Threads, Claim(t)
    PROVE  LedgerStep
<1> DEFINE seen == thread[t].seen
<1>0. PICK p \in Payments : thread[t].p = p
  BY DEF Claim, At, TypeOK, Job
<1>1. /\ thread[t] # NoJob /\ thread[t] \in Job /\ thread[t].p = p
      /\ gateway' = gateway /\ thread[t].at = "claim"
  BY <1>0 DEF Claim, At, TypeOK
<1>2. seen.status = "PAID" /\ seen.ref = pay[p].ref
  BY <1>1 DEF RefundInv, RefInv, Free, JobFits, RefFits
<1>3. CASE ~Unmoved(p, seen)
  BY <1>1, <1>3, OffMoney, RowStays DEF Claim, MoneySteps
<1>4. CASE Unmoved(p, seen)
  <2>1. pay[p].status = "PAID"
    BY <1>2, <1>4 DEF Unmoved
  <2>2. /\ \A q \in Payments \ {p} : pay'[q] = pay[q]
        /\ pay'[p].status = "REFUNDED" /\ pay'[p].ref = pay[p].ref
    <3>1. Set(p, "REFUNDED", ApprovalOf(thread[t].op))
      BY <1>1, <1>4 DEF Claim
    <3>2. QED
      BY <3>1, SetStatus, SetKeepsRef
  <2>3. EntryOf(p) = "held"
    BY <2>1 DEF EntryOf
  <2>4. \A u \in Threads : On(u, p) => thread[u].at \notin MoneySteps
    BY <2>1 DEF RefundInv, Free, On, JobFits
  <2>5. CASE MethodOf[p] = "ONLINE" /\ pay[p].ref
    <3>1. Goto(t, "gateway")
      BY <1>1, <1>2, <1>4, <2>5 DEF Claim
    <3>2. /\ \A u \in Threads \ {t} : thread'[u] = thread[u]
          /\ thread'[t].p = p /\ thread'[t].at = "gateway" /\ thread'[t] # NoJob
      BY <1>1, <3>1, NoJobAssumption DEF Goto, TypeOK, Job, Steps
    <3>3. EntryOf(p)' = "returning"
      BY <2>2, <3>2 DEF EntryOf, Refunding, On, MoneySteps
    <3>4. ASSUME NEW q \in Payments \ {p}
          PROVE  Unseen(q)
      <4>1. Refunding(q)' <=> Refunding(q)
        BY <1>1, <3>2, MoversKept DEF On
      <4>2. QED
        BY <1>1, <2>2, <4>1 DEF Unseen
    <3>5. QED
      BY <1>1, <2>3, <3>3, <3>4, Visible
  <2>6. CASE ~(MethodOf[p] = "ONLINE" /\ pay[p].ref)
    <3>1. Goto(t, "record")
      BY <1>1, <1>2, <1>4, <2>6 DEF Claim
    <3>2. \A q \in Payments : Refunding(q)' <=> Refunding(q)
      BY <1>1, <3>1, OffMoney DEF MoneySteps
    <3>3. ~Refunding(p)
      BY <2>4 DEF Refunding
    <3>4. EntryOf(p)' = "returned"
      BY <2>2, <2>6, <3>2, <3>3 DEF EntryOf
    <3>5. \A q \in Payments \ {p} : Unseen(q)
      BY <1>1, <2>2, <3>2 DEF Unseen
    <3>6. QED
      BY <1>1, <2>3, <3>4, <3>5, Visible
  <2>7. QED
    BY <2>5, <2>6
<1>5. QED
  BY <1>3, <1>4

\* The provider pays, or the attempt is given up or lost.
LEMMA MoneyLedger ==
    ASSUME ~LostReplies, TypeOK, RefundInv, RefInv, NEW t \in Threads,
           GatewayRefund(t) \/ HandBack(t)
    PROVE  LedgerStep
<1> DEFINE seen == thread[t].seen
<1>0. PICK p \in Payments : thread[t].p = p
  BY DEF GatewayRefund, HandBack, At, TypeOK, Job
<1>1. /\ thread[t] # NoJob /\ thread[t] \in Job /\ thread[t].p = p
      /\ On(t, p) /\ thread[t].at \in MoneySteps
  BY <1>0 DEF GatewayRefund, HandBack, At, TypeOK, MoneySteps, On
<1>2. CASE GatewayRefund(t) /\ Goto(t, "record")
  <2>1. /\ gateway' = [gateway EXCEPT ![p].refunds = @ + 1] /\ pay' = pay
    <3>1. ~Goto(t, "handBack")
      BY <1>1, <1>2 DEF Goto, TypeOK, Job
    <3>2. QED
      BY <1>1, <1>2, <3>1 DEF GatewayRefund
  <2>2. /\ \A u \in Threads \ {t} : thread'[u] = thread[u]
        /\ thread'[t].at \notin MoneySteps
    BY <1>1, <1>2 DEF Goto, TypeOK, Job, MoneySteps
  <2>3. /\ \A q \in Payments \ {p} : gateway'[q].refunds = gateway[q].refunds
        /\ gateway'[p].refunds = gateway[p].refunds + 1
    BY <1>1, <2>1 DEF TypeOK, Gateway
  <2>4. /\ EntryOf(p) = "returning" /\ ~Refunding(p)' /\ pay[p].status = "REFUNDED"
        /\ gateway[p].refunds = 0 /\ \A q \in Payments \ {p} : Unseen(q)
    BY <1>1, <2>1, <2>2, <2>3, MoverLeaves
  <2>5. EntryOf(p)' = "returned"
    BY <2>1, <2>3, <2>4 DEF EntryOf
  <2>6. QED
    BY <1>1, <2>3, <2>4, <2>5, Visible
<1>3. CASE GatewayRefund(t) /\ ~Goto(t, "record")
  <2>1. Goto(t, "handBack") /\ gateway' = gateway /\ pay' = pay
    BY <1>3 DEF GatewayRefund
  <2>2. /\ \A u \in Threads \ {t} : thread'[u] = thread[u]
        /\ thread'[t] # NoJob /\ thread'[t].p = p /\ thread'[t].at \in MoneySteps
    BY <1>1, <2>1, NoJobAssumption DEF Goto, TypeOK, Job, MoneySteps, Steps
  <2>3. \A q \in Payments : Refunding(q)' <=> Refunding(q)
    BY <1>1, <2>2, MoversKept DEF On
  <2>4. QED
    BY <2>1, <2>3, RowStays
<1>4. CASE HandBack(t)
  <2>1. /\ \A u \in Threads \ {t} : thread'[u] = thread[u]
        /\ thread'[t] = NoJob /\ gateway' = gateway
    BY <1>4 DEF HandBack, Done, TypeOK
  <2>2. seen.status = "PAID"
    BY <1>1 DEF RefundInv, Free, JobFits
  <2>3. pay' = pay \/ Set(p, "PAID", seen.approval)
    BY <1>1, <1>4, <2>2 DEF HandBack, Restore
  <2>4. \A q \in Payments \ {p} : pay'[q] = pay[q]
    BY <1>1, <2>3, SetStatus
  <2>5. /\ EntryOf(p) = "returning" /\ ~Refunding(p)' /\ pay[p].status = "REFUNDED"
        /\ gateway[p].refunds = 0 /\ MethodOf[p] = "ONLINE" /\ pay[p].ref
        /\ \A q \in Payments \ {p} : Unseen(q)
    BY <1>1, <2>1, <2>4, MoverLeaves
  <2>6. CASE pay' = pay
    <3>1. EntryOf(p)' = "lost"
      BY <2>1, <2>5, <2>6 DEF EntryOf
    <3>2. QED
      BY <1>1, <2>1, <2>5, <3>1, Visible
  <2>7. CASE Set(p, "PAID", seen.approval)
    <3>1. pay'[p].status = "PAID"
      BY <1>1, <2>7, SetStatus
    <3>2. EntryOf(p)' = "held"
      BY <3>1 DEF EntryOf
    <3>3. QED
      BY <1>1, <2>1, <2>5, <3>2, Visible
  <2>8. QED
    BY <2>3, <2>6, <2>7
<1>5. QED
  BY <1>2, <1>3, <1>4

LEMMA RefundLedger ==
    ASSUME ~LostReplies, TypeOK, RefundInv, RefInv, NEW t \in Threads, RefundStep(t)
    PROVE  LedgerStep
<1> DEFINE p == thread[t].p
<1>1. thread[t] # NoJob /\ thread[t] \in Job /\ p \in Payments
  BY Running DEF ThreadStep
<1>2. CASE Claim(t) \/ GatewayRefund(t) \/ HandBack(t)
  BY <1>2, ClaimLedger, MoneyLedger
<1>3. CASE MarkFailed(t) /\ pay[p].status = "PENDING"
  <2>1. Keep(p, "FAILED") /\ Done(t) /\ gateway' = gateway /\ thread[t].at \notin MoneySteps
    BY <1>3 DEF MarkFailed, MayWrite, At, MoneySteps
  <2>2. \A q \in Payments : Refunding(q)' <=> Refunding(q)
    BY <1>1, <2>1, OffMoney DEF MoneySteps
  <2>3. QED
    BY <1>1, <1>3, <2>1, <2>2, KeepStatus, RowMoves
<1>4. CASE MarkFailed(t) /\ pay[p].status # "PENDING"
  BY <1>1, <1>4, OffMoney, RowStays DEF MarkFailed, MayWrite, At, MoneySteps
<1>5. CASE Reread(t) \/ ReadToRefund(t)
  <2>1. pay' = pay /\ gateway' = gateway /\ thread[t].at \notin MoneySteps
    BY <1>5 DEF Reread, ReadToRefund, TakeActive, At, MoneySteps
  <2>2. CASE Done(t)
    BY <1>1, <2>1, <2>2, OffMoney, RowStays DEF MoneySteps
  <2>3. CASE ~Done(t)
    <3>1. PICK step, op, q, seen :
              /\ step \in {"queue", "claim", "refund", "markFailed"}
              /\ Begin(t, step, op, q, seen)
      BY <1>5, <2>3 DEF Reread, ReadToRefund, TakeActive
    <3>2. \A r \in Payments : Refunding(r)' <=> Refunding(r)
      BY <2>1, <3>1, BeginOffMoney DEF MoneySteps
    <3>3. QED
      BY <2>1, <3>2, RowStays
  <2>4. QED
    BY <2>2, <2>3
<1>6. CASE Queue(t) \/ Record(t) \/ Reject(t)
  <2>1. Done(t) /\ gateway' = gateway /\ thread[t].at \notin MoneySteps
    BY <1>6 DEF Queue, Record, Reject, At, MoneySteps
  <2>2. pay' = pay \/ \E approval : Set(p, pay[p].status, approval)
    BY <1>6 DEF Queue, Unmoved, Record, Reject, MayReject
  <2>3. \A q \in Payments : pay'[q].status = pay[q].status /\ pay'[q].ref = pay[q].ref
    BY <1>1, <2>2, SetStatus, SetKeepsRef
  <2>4. \A q \in Payments : Refunding(q)' <=> Refunding(q)
    BY <1>1, <2>1, OffMoney DEF MoneySteps
  <2>5. QED
    BY <2>1, <2>3, <2>4, RowStays
<1>7. CASE CheckStanding(t)
  BY <1>1, <1>7, OffMoney, RowStays DEF CheckStanding, At, MoneySteps
<1>8. QED
  BY <1>2, <1>3, <1>4, <1>5, <1>6, <1>7 DEF RefundStep

LEMMA RequestLedger ==
    ASSUME TypeOK, NEW t \in Threads, NEW p \in Payments, Request(t, p)
    PROVE  LedgerStep
<1>1. Free(t) /\ pay' = pay /\ gateway' = gateway
  BY DEF Request, Initiate, ReadToSettle, CancelForOrder, VoidForOrder, Reconcile,
         TakeActive, AskRefund, Approve, AskReject
<1>2. PICK step, op, seen :
          /\ step \in {"status", "settle", "claim", "refund", "markFailed", "rejectStatus"}
          /\ Begin(t, step, op, p, seen)
  BY DEF Request, Initiate, ReadToSettle, CancelForOrder, VoidForOrder, Reconcile,
         TakeActive, AskRefund, Approve, AskReject
<1>3. \A q \in Payments : Refunding(q)' <=> Refunding(q)
  BY <1>1, <1>2, BeginOffMoney DEF Free, MoneySteps
<1>4. QED
  BY <1>1, <1>3, RowStays

\* A request that dies at the provider leaves its payment refunded on paper.
LEMMA CrashLedger ==
    ASSUME TypeOK, RefundInv, RefInv, NEW t \in Threads, Crash(t)
    PROVE  LedgerStep
<1>0. PICK p \in Payments : thread[t].p = p
  BY DEF Crash, Free, TypeOK, Job
<1>1. /\ thread[t] # NoJob /\ On(t, p)
      /\ pay' = pay /\ gateway' = gateway /\ Done(t)
  BY <1>0 DEF Crash, Free, On
<1>2. CASE thread[t].at \notin MoneySteps
  BY <1>1, <1>2, OffMoney, RowStays DEF MoneySteps
<1>3. CASE thread[t].at \in MoneySteps
  <2>1. (\A u \in Threads \ {t} : thread'[u] = thread[u]) /\ thread'[t] = NoJob
    BY <1>1 DEF Done, TypeOK
  <2>2. /\ EntryOf(p) = "returning" /\ ~Refunding(p)' /\ pay[p].status = "REFUNDED"
        /\ gateway[p].refunds = 0 /\ MethodOf[p] = "ONLINE" /\ pay[p].ref
        /\ \A q \in Payments \ {p} : Unseen(q)
    BY <1>1, <1>3, <2>1, MoverLeaves
  <2>3. EntryOf(p)' = "lost"
    BY <1>1, <2>2 DEF EntryOf
  <2>4. QED
    BY <1>1, <2>2, <2>3, Visible
<1>4. QED
  BY <1>2, <1>3

LEMMA LedgerSimulation ==
    ASSUME ~LostReplies, TypeOK, RefundInv, RefInv, [Next]_vars
    PROVE  LedgerStep
<1>1. CASE UNCHANGED <<pay, thread>>
           /\ \A q \in Payments : gateway'[q].refunds = gateway[q].refunds
  <2>1. \A q \in Payments : Refunding(q)' <=> Refunding(q)
    BY <1>1 DEF Refunding, On
  <2>2. QED
    BY <1>1, <2>1, RowStays
<1>2. ASSUME NEW p \in Payments, PayCharge(p)
      PROVE  \A q \in Payments : gateway'[q].refunds = gateway[q].refunds
  BY <1>2 DEF PayCharge, TypeOK, Gateway
<1>3. ASSUME NEW t \in Threads, ThreadStep(t)
      PROVE  LedgerStep
  BY <1>3, InitiateLedger, SettleLedger, RefundLedger DEF ThreadStep
<1>4. QED
  BY <1>1, <1>2, <1>3, CrashLedger, RequestLedger
     DEF Next, ClaimNotice, NotifyDepot, Environment, CloseOrder, PayCharge, vars

\* Every step of payment-service is a step of the ledger or invisible in it:
\* a refund is one exclusive attempt, however many requests race for it and
\* whichever of them dies.
THEOREM ImplementsLedger ==
    ASSUME ~ChargeRaces, ~LostReplies
    PROVE  Spec => LedgerSpec
<1>1. Init => Ledger!LedgerInit
  BY DEF Init, Ledger!LedgerInit, EntryOf, NewRow
<1>2. TypeOK /\ RefundInv /\ RefInv /\ [Next]_vars => LedgerStep
  BY LedgerSimulation
<1>3. QED
  BY <1>1, <1>2, Typing, RefundProtocol, References, PTL
     DEF Spec, LedgerSpec, Ledger!LedgerSpec, LedgerStep, entries, payouts
============================================================================
