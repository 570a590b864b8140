# HydroMart: a TLA+ verification of orders, stock, money and deliveries

HydroMart sells drinking water: customers order in an app, depots hold the stock and deliver, a
counter sells to walk-ins. The back end is a set of NestJS services, one database each, that call one
another over HTTP. This directory models the part of it where a mistake costs money or water: an
order, the stock it reserves at a depot, the payment that goes with it, what a completed sale owes to
third parties (a referral bonus, points, the franchise owner's share), and the courier who carries the
water out and the cash back.

Tools: TLC checks the runs listed below (`tlc -config X.cfg M`), TLAPS proves the theorems
(`tlapm M.tla` for the eight modules named `...Proofs`; the slowest takes a few minutes).
`PROJECT.json` maps every definition to the lines it stands for.

## 1. The system

| component | state it keeps | operations that change it | hard behaviour |
|---|---|---|---|
| **payment-service** | payment rows: status, refund approval, charge reference | initiate, confirm, fail, webhook, expiry sweep, cancel/void for an order, refund, approve, reject, reconciliation sweeps | every handler reads, awaits, then writes; the provider may act and its answer be lost; a process dies between two writes |
| **depot-service**, stock | stock lines (quantity, reserved), reservation rows, movement ledger | reserve, consume, release, restock, adjust, opname | retried and overlapping calls; two checkouts for the last unit; corrections from stale counts |
| **order-service** | orders, status history, outbox rows | checkout, counter sale, assign, reroute, status changes, cancel, expiry, void, outbox sweeps | status and depot read before, written after, a call to another service; at-least-once delivery; fail-open and fail-closed calls side by side |
| order-service, rest | carts, subscriptions, meters, reports | single-user edits, sweeps, queries | the subscription sweep |
| depot-service, rest | cashier shifts, transfers, purchase orders, gallons, approvals | administration | transfers and purchase orders move the same lines |
| **referral-service**, qualification | the referral row, the marks of voided orders | redeem, qualify, reverse for a voided order | two remote grants between two writes of one row; a void while a qualification runs; at-least-once delivery |
| **payout-service**, owner ledger | ledger rows by source reference, withdrawals | credit a sale, back it out, cash out, settle a transfer | a push overtaken by its reversal; a balance read before it is debited; two people settling one transfer |
| **loyalty-service**, points | account (balance, lifetime, tier), EARN, ADJUST and EXPIRE rows | earn, reverse, spend, expire, retier | awards delivered twice; overlapping sweeps; a tier written after its transaction |
| **delivery-service**, deliveries | delivery rows, shifts | assign, pickup, start, complete, fail, no-show, reschedule, release and cancel by staff, check-out | the row here and the order there change one after the other; the courier's phone repeats itself |
| **delivery-service**, settlements | one deposit per shift, with a charge on request | submit, verify, dispute, raise, approve and reject a charge | what is asked depends on two services; two people rule on one deposit |
| promo | vouchers, redemptions | redeem, burn, release | limits under concurrency |
| auth | sessions, OTPs | login, rotation | rotation races |
| customer, product, crm, hr, admin, dashboard, forecast, recommendation, gateway | rows and read models | CRUD, queries, proxying | little between actors |
| packages, apps/web, mobile, scripts | | shared code, user interfaces, scheduler | the scheduler appears as fairness |

Interactions. order-service calls depot-service (`InventoryHttpAdapter`, 5 s abort): `reserve` and
`consume` throw on failure, `release` and `restock` fail open. It calls payment-service through its
outbox (`PAYMENT_REVERSAL`) and directly when a counter sale is voided. payment-service reads order
statuses and tells order-service of a paid order (`confirmPaid`, fail open). The provider calls back
by webhook. Effects an order owes (stock, loyalty, referral, revenue, reversal) are rows of
`outbox_messages`, written in the transaction of the status that earns them and delivered by a sweep,
with a 5 s abort at the caller while the handler at the other end runs on. referral-service asks
order-service for the status of an order and loyalty-service for every grant and reversal.
delivery-service moves the order along (`advanceStatus`), reverses a cash payment when the courier
hands the notes back (`reverseCash`), and sends a courier's shortfall to payout-service
(`cashVarianceCharged`).

What makes each correct:

- payments: one live payment per order; a refund moves money once; a refund above the threshold goes
  through HQ; the row agrees with the money; money on an order that is over comes back.
- stock: `reserved` is the sum of the ACTIVE holds; the ledger explains the shelf; no unit is promised
  twice; a settled hold stays settled.
- orders: a standing order is held where it is routed; an order that is over holds nothing; stock
  leaves the right depot, for completed orders only; what a status earns is owed and delivered.
- referrals: one bonus per new customer, for the order the row names; a closed referral has paid both
  sides; a voided sale keeps nothing.
- owner ledger: at rest, the balance is the net of the sales credited less what was cashed out; the sale
  of a credit stands, or a call was lost.
- points: an award counts once, and not after its reversal; a lot lapses once.
- deliveries: what was handed over is not cancelled; cash handed back is reversed unless a call failed;
  every attempt ends in a shift.
- settlements: the deposit asks for the cash of every delivery in the shift; charged means debited.

## 2. Modules

| module | models |
|---|---|
| `Payment` | payment-service, `payment.service.ts` with its repository |
| `PaymentLedger` | abstract: what one payment promises, without requests or stale reads |
| `PaymentImplementsLedger` | the refinement mapping from `Payment` to `PaymentLedger` |
| `PaymentProofs` | TLAPS proofs about `Payment`, and that it implements `PaymentLedger` |
| `DepotStock` | depot-service, `inventory.service.ts` with its repository |
| `DepotStockProofs` | TLAPS proofs about `DepotStock` |
| `Fulfilment` | order-service, EXTENDS `DepotStock`: the two services together |
| `FulfilmentProofs` | TLAPS proofs about `Fulfilment`, and that it implements `DepotStock` |
| `SaleOutbox` | order-service's outbox as the effects of a sale see it, `outbox.service.ts` |
| `SaleOutboxProofs` | lemmas on the outbox's rows and jobs, for the three proof modules over it |
| `Referral` | referral-service, EXTENDS `SaleOutbox` |
| `ReferralProofs` | TLAPS proofs about `Referral` |
| `OwnerLedger` | payout-service's owner ledger, EXTENDS `SaleOutbox` |
| `OwnerLedgerProofs` | TLAPS proofs about `OwnerLedger` |
| `Points` | loyalty-service's account, EXTENDS `SaleOutbox` |
| `PointsProofs` | TLAPS proofs about `Points` |
| `Delivery` | delivery-service, `delivery.service.ts` |
| `Settlement` | its end-of-shift deposit, `settlement.service.ts`, EXTENDS `Delivery` |
| `SettlementProofs` | TLAPS proofs about `Settlement` and `Delivery` |
| `MCPayment`, `MCDepotStock`, `MCFulfilment`, `MCReferral`, `MCOwnerLedger`, `MCPoints`, `MCSettlement` | small instances for TLC |

### Payment

`pay[p]` is a row. `thread[t]` is a request or sweep: the step it is at, what it was asked (`op`), its
payment, and the row as it read it (`seen`). One step is the code between two awaits that matter; a
read and a write of one row are always two steps. `updateIfStatus` is `MayWrite` or `Unmoved` in front
of the assignment, `update` the assignment alone.

| code | actions |
|---|---|
| `initiate` | `Initiate`, `CheckOrder`, `Create`, then online `Charge` and `AttachCharge` or `UnwindCharge` |
| `confirm`, `fail`, `expireStalePending`, `handleWebhook` | `ReadToSettle`, `Settle`, `ConfirmOrder` |
| `cancelForOrder`, `voidForOrder`, `reconcileCancelledOrders` | `CancelForOrder`, `VoidForOrder`, `Reconcile`, `MarkFailed`, `Reread` |
| `refund` | `AskRefund`, `ReadToRefund`, `Queue` or `Claim` |
| `approveRefund`, `rejectRefund` | `Approve`; `AskReject`, `CheckStanding`, `Reject` |
| `executeRefund` | `Claim`, `GatewayRefund`, `Record` or `HandBack` |
| `flagUnconfirmed` | `ClaimNotice`, `NotifyDepot` |

Abstracted: amounts (a payment is above the HQ threshold or not), methods (cash, transfer, online),
time (a paid row is within the 48-hour look-back or not), who is asking, reasons, audit. The provider
(`gateway`) and the order's status (`order`) are external: the provider knows a charge, whether it was
paid, and how often it refunded; order-service closes an order at any time.

A drift notice is two steps: the claim on the row, durable and made once (`ClaimNotice`), and the call
that tells the depot (`NotifyDepot`), which fails open and is never repeated. `ClaimNotice` reads the row
and the order's status in the step of the claim; the sweep reads them a moment earlier, and the claim asks
only that no notice was claimed.

Three switches say what may happen. `Crashes`: the process dies between two steps. `LostReplies`: the
provider acts and the caller sees an abort. `ChargeRaces`: a request reaches a row while its own
`initiate` is still opening the charge. The last two are things the code does not withstand (section
5); the passing runs exclude them and say so.

### DepotStock

`call[t]` is a call as depot-service executes it: first its reads (`check`), then its transactions
(`run`), then the answer (`reply`). A repository transaction is one step: `reserveAtomic` is `Reserve`,
`settleReservation` is `Settle`, `applyMovement` is `Move`. `CheckHolds` and `CheckSales` read all lines
in one step. For `CheckSales` the code does too. `findReservation` is asked line by line; a hold written
between two of those reads breaks the unique index at `reserveAtomic`, which is how a hold written after
`CheckHolds` ends as well. A call may break off at any step (`Break`: crash, or a caller that gave up),
for the operations in `Breaks`. `adjust` and `opname` read a line (`BeginCount`) and apply the
difference later (`WriteCount`). `DepotSpec` lets anyone call anything in any order, any number of times.

### Fulfilment

`job[t]` is a request or sweep of order-service, with the status and depot it read (`seen`, `from`). A
job that waits for depot-service has its call in `call[t]`, and depot-service's steps interleave with
everything else. If the job dies, the call goes on and its answer is dropped (`Abandoned`). `order[o].kind`
is the sort of order: from the app, a counter sale, a counter sale that is delivered, or a legacy order
from before checkout chose a depot.

| code | actions |
|---|---|
| `reserveThenCreate` (checkout, counter) | `Checkout`, `Reserved`, `Create` |
| `assignDepot`, `rerouteDepot`, `releaseLostHold` | `Assign`, `Reroute`, `Reserved`, `Route`, `ReleaseLostHold`, `Finish` |
| `updateStatus`, `cancel`, `expireAbandoned` | `Advance`, `Cancel`, `Expire`, `ApplyStatus`, then `Due` and `Drop` |
| outbox `processForOrder`, `processDue`, `deliver` | `Due`, `Sweep`, `Deliver`, `MarkDone`, `MarkFailed` |
| handlers `consumeStock`, `reversePayment` | `ConsumeStock`, `Consumed`; `ReversePayment` |
| `voidCounterSale` | `Void`, `PayBack`, `VoidWalkIn`, `CallOff`, `Finish` |

payment-service is external here: `moneyBack` says whether it returned the money, and an answer may be
lost: an outbox row is then tried again, while a void gives up (`PayBack`, 5 s abort) and leaves the sale
COMPLETED with its money gone. `RungUp` are the kinds of order a cashier may void. Of the eight outbox topics `Fulfilment` has the one that moves stock and the one that moves money;
`SaleOutbox` and the modules on it have five more. The one left is `GALLON_ISSUE`.

### SaleOutbox

A counter sale as its effects see it. `order[o]` is OPEN, COMPLETED or VOIDED; `row[o][k]` is the outbox
row of a topic; `job[w]` is a worker delivering one. `Complete` and `VoidWalkIn` write the status and
what it owes in one step. `Take` (`findDue`) locks nothing, so two workers may hold one row. `Deliver`
is the C3 guard in front of the handler, `Finish` the write of its result, always on a row still
PENDING. A failed delivery adds one to the attempts the row has, and decides whether the row is DEAD on the
attempts `findDue` read (`Retried(r, seen)`), so of two that fail together one may leave the row due with
its attempts spent; `RowsCounted` says what is kept: no row is given up before. `Abort` is the 5 s abort:
the row is failed and the handler goes on, owned by nobody. `Crash` ends a job where it stands. `inline` are voids whose request has yet to make the reversing call by
itself, which it does behind a catch. `MaxSlips` bounds aborts and crashes together.

The three modules on it give the handlers. They share no state but the sale, so they are checked
apart.

### Referral

One referral and its two sides. `entry[s][k]` is loyalty's ledger for a side under a key: nothing,
granted, taken back, or barred by a zero-point tombstone. `seen[w]` is the order that the handler
believes has qualified.

| code | actions |
|---|---|
| `redeem` | `Redeem` |
| `qualify` | `QualifyFind`, `QualifyCheck`, `QualifyRecheck`, `StatusUnknown` |
| `prepareQualification` (two statements, READ COMMITTED) | `PrepareRead`, `PrepareSet` |
| the two grants | `RewardReferrer`, `RewardReferee` |
| `qualifyReferral` (two statements) | `QualifyRead`, `QualifyClose` |
| `reverseForVoidedOrder` | `ReverseFind`, `ReverseMark`, `ReverseRead`, `ReverseReferrer`, `ReverseReferee`, `ReverseReopen` |

`Legacy` is the key of grants made before keys named the order; one of the initial states has them.
`Redeem` reads the completed orders and writes the row in one step, where an await lies between them.
`NotBeingPrepared` is no code: it is how the `prepare` window is shut (below).

### OwnerLedger

`refs[o]` are the ledger rows of a sale by source reference, `cashout[c]` a withdrawal with its amount,
`debits` what the ledger rows of all withdrawals sum to, `settling[c]` the settlements past their look-up. The handler
runs in order-service (`RevenueStart`, `RevenueAfter`, `VoidStart`) and in payout-service
(`RevenueFind`, `RevenuePost`, `VoidRead`, `VoidWrite`). Either call may be aborted or outlive its caller
(`AbortCall`, `CallerDies`), be refused, or die with the request (`CallFails`, `CallDies`). `cut` is history:
the sales of which a push, or the second look at the order behind it, was lost. `Withdraw` is `withdrawWithDebit` under its
advisory lock; `SettleRead` and `SettleWrite` are the settlement of a transfer.

### Points

One account. `EarnFind`, `EarnRecord` and `Retier` are an award; `ReversePoints`, `ReverseFind` and
`ReverseDebit` the void's own call; `Spend` is a redemption; `SweepRead`, `SweepClaim` and `SweepDebit`
are the expiry sweep, lot by lot, and `SweepDies` its crash. A lot is `Due` as the query has it, an award
not yet marked; time is not modelled, so that sweeps meet awards, voids and reversals in every order.
`loose` is history: voided sales whose award came after the void, or whose reversing call died.

### Delivery and Settlement

`delivery[o]` is the row, `order[o]` order-service as its transition table, `payment[o]` the cash
payment, `cash[o]` where the notes really are. A request reads its row, then takes one step per
repository write and per remote call; a call is answered, refused, or not heard of, and then it may
have been carried out all the same (`AdvanceOrder`, `ReverseCash`, `Push`).

| code | actions |
|---|---|
| `assign`, `undoAssignment` | `Assign`, `AssignWrite`, `AssignOrder`, `AssignUndo` |
| `pickup`, `start` (the order first) | `Advance`, `AdvanceTheOrder`, `AdvanceWrite` |
| `complete` (the proof first, H-8) | `Complete`, `CompleteWithProof`, `CompleteOrder` |
| `fail`, `reschedule` and their replays, `settleHeldCash` | `GiveUp`, `GiveUpWrite`, `ReverseCash`, `PutBack`, `CloseOrder` |
| `markNoShow` | the same, as a failure that hands nothing back |
| `releaseByStaff`, `cancelByStaff` | `TakeOff`, `TakeOffWrite`, `CloseOrder` |
| `checkOut` | `CheckOut`, `CheckOutClose` |
| the clock, `closeStale` at the next check-in | `RunsOver`, `CloseStale` |
| settlement `submit` | `Submit` |
| `verify` (with a charge: `raise`), `dispute`, `rejectCharge` | `Rule`, `RuleWrite` |
| `approveCharge` | `Rule`, `Claim`, `Push`, `Conclude` |

External: `CollectCash`, `ConfirmCash`, `StaffCancels`, `ReversePayment`.

A courier's one shift is `open`, runs past its expected end (`overdue`), and is `ended` by his check-out
or `lapsed`: closed at its expected end when he next checks in. `delivery[o].dated` is the hour an attempt
is said to have ended. `complete` takes it from the phone, clamped to the assignment (`Captured`), so that a
proof queued offline and sent after the deposit lies inside a closed window; everything else is dated now.
`InShift` is the window `checkInAt..checkOutAt` as it then is. `ExpectFromCod` is the depot's switch
`settlementExpectFromCod`: off, only cash that payment-service has as PAID is asked for.

What is cut here: the courier tells the truth about notes he handed back before; `closeStale` does not run
while his own check-out does; his next shift is not followed, so that "in no shift" means not in the one
modelled and not dated after it; `Submit` reads the window and the payments in the step that writes the
deposit, where awaits separate them.

### Windows

Two modules have a constant `Windows`, the narrow orders of events a run allows. A run that passes
shuts them, because the code does not withstand what comes through; section 5 says what does.

| module | window | what it lets in |
|---|---|---|
| `Referral` | `prepare` | a void's mark between the two statements of `prepareQualification` |
| | `redeem` | a code redeemed by a customer whose only sales were voided |
| `Delivery` | `cancel` | a cancel by staff while another request has the order, or one that dies half way |
| | `replay` | two of a courier's reports at once, or a repeat at work with anything else |
| | `requeue` | a second dispatch while the first is still being called back |

## 3. Runs

Runs that pass:

| run | instance | shows |
|---|---|---|
| `MCPayment` | one order; an online payment above the threshold and a cash payment; 2 requests; crashes | the safety of payments, and the refinement `LedgerSpec` |
| `MCPaymentLive` | one online payment below the threshold; 2 threads; fairness | returns, expiry and drift reports happen |
| `MCDepotStock` | 2 orders on 2 lines, one line shared; 2 calls; consume may break off; 1 correction | the safety of stock |
| `MCFulfilment` | 1 order, app or counter; 2 depots; 2 jobs; 1 reroute; consume may break off; 1 correction | the safety of the composition |
| `MCFulfilmentLastUnit` | 2 orders, one a counter sale, the other app, counter or legacy; 1 unit in 1 depot; 2 jobs; checkouts and expiry sweeps may die | the last unit is sold once, voids restock once |
| `MCFulfilmentLive` | 1 app order; 2 jobs; requests may die; fairness | the outbox delivers, or says it did not |
| `MCReferral` | a counter sale and a delivered order; 2 workers; 1 slip; a referral new or from before; fairness | the bonus follows the row, both sides are paid, a voided sale keeps nothing |
| `MCOwnerLedger` | 1 counter sale; 2 workers; 2 slips; 1 cash-out settled by two people; fairness | the books balance at rest; a sale is credited |
| `MCPoints` | 2 sales of one point, one voidable; 2 workers; 2 expiry sweeps; 1 slip; 1 point spent | awards count once, lots lapse once |
| `MCSettlement` | 1 cash order; 1 courier; 2 requests; 2 staff; 2 slips | deliveries stand, cash is asked for and reversed, charged means debited |

Every property has a mutant in `PROJECT.json`: a one-line change to the code's model (a dropped guard, a
lost restore, a missing index) with which TLC finds that property violated under the same run.

Bounds, and why they are enough to see the races:

- Two threads: every defect the code guards against (and its comments name: B-5, B-9, H-4, CA-2-21) is
  a race of two actors, and each mutant is found with two. The proofs are for any number.
- Two payments on one order: the smallest instance of the unique index. They differ in method, since a
  second method is what a customer tries next.
- `MaxRefunds = 2` cuts the provider's counter one above what is claimed.
- Two orders for stock, since one unit can be promised twice only to two; two lines, since a hold can be
  partial. `Stock = 1` makes the last unit the normal case.
- `MaxStock` caps restocks and corrections (0 in `MCDepotStock`: corrections down to zero, and up from
  below; 2 in `MCFulfilmentLastUnit`: room for a second restock of the unit). `MaxCounts` caps corrections
  in progress, and is 0 where nothing depends on them.
- One order in `Fulfilment`: orders meet only on stock lines, which `DepotStock` covers with two, and
  `MCFulfilmentLastUnit` with two orders on the last unit; two depots, since a reroute needs another. `MaxMoves` caps reroutes: 1 in the passing runs, 2 in the run
  that shows the return to the first depot.
- `MaxTries = 2` and `MaxAttempts = 2` in place of 6 and 10 attempts: a row is retried and can die.
- `MaxSlips`: one failure at any point, two where a row must die for a property to be interesting (a push
  given up) or a repeat must fail as well (a courier's report). Overlap needs no slip: two workers take one row whenever they like.
- Two orders in `Referral`, since one referral is for one order of several; two in `Points`, where sales
  share an account and a tier; one in `OwnerLedger`, whose sales meet only in a sum.
- `Settlement`: `MaxAssigns = 1` and one courier, since a second attempt multiplies the states. The
  configuration `MCSettlementTwo.cfg` (two couriers, two attempts, nothing failing; about four
  minutes) passes as well and is run by hand. So does `MCFulfilmentCounter.cfg`: `RestockedOnce` for one order while any
  call breaks off and order-service dies in any request but a void.

`MCFulfilment` and `MCFulfilmentLive` break off `consume` only. An abandoned `reserve` leaves a hold
nobody owns and a lost `release` leaves one behind (both fail open in the code, section 5);
`NoHoldLeftBehind` is what holds when those answers arrive. `Break` also happens after the work is done,
so an answer lost after the fact is covered.

Deadlock checking is on for `DepotStock` and off for the rest: those systems may stop, when every order
is over and there is nothing left to do.

Fairness. `ThreadStep`, `JobStep` and `CallStep` are weakly fair: a running handler goes on. The sweeps
are strongly fair, because the scheduler calls them periodically and a real request is never refused a
thread, while the model's small pool can be busy each time the sweep would be enabled. `MCPaymentLive`
also assumes that a refund tried again and again is one day accepted by the provider, and its one payment is
below the threshold: money that waits for HQ is not followed there. No fairness is
assumed for customers, staff, the provider's payments or its webhooks.

In the modules on `SaleOutbox` the handlers, the guard in front of them and the write behind them are
weakly fair, and so is the taking of a due row: the scheduler runs the sweep every ten minutes.
`Points`, `Delivery` and `Settlement` claim nothing under fairness. The courier's phone repeats a failure
report, but its queue gives up after 6 attempts or 7 days and never repeats what was refused
(`apps/web/src/lib/offline-queue.ts:174, 188, 503-509`), so that returned cash is reversed in the end is
nothing this code promises; `ReturnedIsReversed` says instead who alone may leave it unreversed.

## 4. What is proved

`PaymentProofs` proves, for any sets of orders, payments and threads, any methods and thresholds:

| theorem | states | assumes |
|---|---|---|
| `Typing` | `Spec => []TypeOK` | the constants' types |
| `OneActive` | `Spec => []OneActivePerOrder` | the constants' types; all three switches are free |
| `RefundProtocol` | `Spec => []RefundInv` | `~LostReplies`, `~ChargeRaces`; crashes are free |
| `RefundOnce` | `Spec => []RefundedAtMostOnce` | as above |
| `AboveThreshold` | `Spec => HQDecides` | the constants' types; all three switches are free |
| `EveryRefundBacked` | `Spec => []RefundedIsBacked` | `~LostReplies`, `~ChargeRaces`, `~Crashes` |
| `ImplementsLedger` | `Spec => LedgerSpec` | `~LostReplies`, `~ChargeRaces`; crashes are free |

The argument for refunds. `RefundedAtMostOnce` is not inductive: it says nothing of the request about
to call the provider. `RefundInv` adds what every request has established by its step (`JobFits`: whoever
is at the provider holds a row that says REFUNDED and has not been refunded; whoever is about to claim
read a PAID row with no approval on record) and that two requests on one payment are compatible
(`Compatible`: at most one of them moves money). The claim is a lock: `Claim` succeeds only while the
row is as it was read, and a claimed row can be left only by its holder. `RefundMatchesRow` makes the
lock permanent once the money has moved. A crash drops a request and keeps the rest true.

The argument for `OneActivePerOrder`: it is inductive with `TypeOK`. Each action either makes no row
active, makes one active where no other row of the order is (`Create`, `AttachCharge`, `HandBack`, all
behind the index), or moves one row between the two active statuses.

The argument for `HQDecides`. Of all the writes only the claim makes a row REFUNDED that was not
(`OnlyTheClaimRefunds`), and above the threshold a request at the claim either voids a counter sale or is
an approval that read a waiting request (`ClaimsFromQueue`, inductive by itself); the compare-and-set asks
that the row still waits.

The argument for the ledger. `RefInv` says which requests rely on the charge reference: whoever is about to
claim has read the one the row has, since a reference is stored only while nobody else is on the row, and
whoever is at the provider has a charge there. With `RefundInv` a payment is then "returning" exactly while
one request holds its claim (`OneMover`), so that the holder leaving is `Return`, `GiveUp` or, when it dies
or cannot hand back, `Lose` (`MoverLeaves`); every other step moves a row forward (`RowMoves`) or is not
seen (`RowStays`). `EveryRefundBacked` uses the same facts: a refund enters the books by a claim, which goes
to the provider if there is a charge, and its holder goes on until it is done or gives it back.

`ReferralProofs` proves, for any sets of orders and workers, any number of attempts and slips:

| theorem | states | assumes |
|---|---|---|
| `Typing` | `Spec => []TypeOK` | the constants' assumptions |
| `ReferralProtocol` | `Spec => [](TypeOK /\ ReferralInv)` | the same; every window may be open |
| `OneBonus` | `Spec => []GrantFollowsTheRow` | the same |
| `BothSidesPaid` | `Spec => []QualifiedIsPaid` | the same |
| `NothingKept` | `Spec => []VoidedKeepsNothing` | neither `prepare` nor `redeem` is in `Windows` |

The argument for referrals. A grant is made for the order a handler read, several steps after it read it,
so `GrantFollowsTheRow` needs `QualifierFits`: that order is still the row's, or both its keys have been
barred by the reversal that took the row away, and a grant under a barred key does not land. The row is
let go by `ReverseReopen` alone, and `ReverserFits` says that by then both sides are barred and nothing is
left under the old key. For `QualifiedIsPaid` the handler at its last step has had an answer for both
sides, and an answer that is no grant means that the sale was voided (`ReversalsAreOfVoided`).
`VoidedKeepsNothing` rests on `VoidInv`: an order that was marked stays marked, no handler is about to
take it up, so a row that let it go never names it again. It is there that the two windows are shut: with
the first open a handler between its two statements takes up a marked order, with the second a referral
appears after its reversal was answered. The proofs go by what no step undoes (`Lasting`), so that a step
of one handler is looked at once for all the others. TLC finds `ReferralInv` and `VoidInv` true of the
instance of `MCReferral`.

`DepotStockProofs` proves, for any sets of lines, depots, orders and calls, any carts, quantities and bounds:

| theorem | states | assumes |
|---|---|---|
| `DepotTyping` | `DepotSpec => []DepotTypeOK` | the constants' assumptions |
| `HeldAllOrNothing` | `DepotSpec => []HeldWholly` | the same |
| `ReservedCounts` | `DepotSpec => []ReservedIsHeld` | the same |
| `LedgerBalances` | `DepotSpec => []LedgerMatchesShelf` | the same |
| `BelowZeroOnlyBySale` | `DepotSpec => OnlySalesGoBelowZero` | the same |

The argument for stock. `HeldWholly` needs what a reserve call still has to write: all the lines of the
order at one depot, or none (`ReserveIsWhole`), so that `Reserve` never completes a part of somebody
else's hold; afterwards no reservation row disappears (`RowsKept`). `ReservedIsHeld` and
`LedgerMatchesShelf` are inductive with the types, action by action: a line's counter moves by the
quantity of one order exactly when that order enters or leaves the set of orders it counts. The sums are
written as the number of units of those orders, `Cardinality(Units(S))`: a sum folded over a set would
need an induction over data at every step, while the units of one more order are a disjoint union
(`FiniteSetTheorems`). The action property follows from the types and the guards of the
transactions, whatever the calls had read before.

`FulfilmentProofs` proves, for any sets of orders, lines, depots and requests, any kinds of order, any
operations that may break off or die, any number of tries and reroutes, except as the table says:

| theorem | states | assumes |
|---|---|---|
| `FulfilmentTyping` | `Spec => []TypeOK` | the constants' assumptions |
| `FulfilmentImplementsDepot` | `Spec => DepotSpec` | the same |
| `StockUnderLoad` | `Spec =>` the properties of `DepotStock` above, but for the types | the same |
| `SoldAtTheRightDepot` | `Spec => []SoldWhereRouted` | the same |
| `CompletionOwesStock` | `Spec => []CompletedOwesStock` | `"legacy" \notin Kinds` |
| `MoneyBackIsForOver` | `Spec => []MoneyBackOnlyIfOver` | the constants' assumptions |
| `TheLastUnitIsSoldOnce` | `Spec => []PromisedIsThere` | `"legacy" \notin Kinds`, `MaxMoves <= 1`, `MaxCounts = 0` |
| `VoidedOnceRestockedOnce` | `Spec => []RestockedOnce` | `MaxCounts = 0` |
| `HeldAtItsDepot` | `Spec => []HeldWhereRouted` | `"legacy" \notin Kinds`, `MaxMoves <= 1` |
| `EveryHoldIsGivenBack` | `Spec => []NoHoldLeftBehind` | `"legacy" \notin Kinds`, `{"reserve", "release"} \cap Breaks = {}`, `Crashes \subseteq {"void", "sweep"}` |

The argument for orders. `OrdersInv` is what all of it rests on: the types; `JobsFit` (the step a request
is at is one its operation has, and a worker of the outbox has a row that exists); `OrdersFresh` (an
order is written by one checkout, at the end, and nobody else works on it before); `RowsEarned` (an outbox
row is there only because the order reached the status that earns it). With it every step of a request
moves an order by `OrderMove`: created, routed, moved along the transition table, or voided. The
implementation theorem is then a look at who may write depot-service's variables: `Asks` begins one of
the calls `DepotNext` begins, everything else of order-service leaves them alone. Its composition with
`DepotStockProofs` is `StockUnderLoad`. `SoldWhereRouted` adds what a consume in progress has left to sell
(`SellsWhereRouted`): lines of the depot of an order that is completed, whose routing no step changes any
more. `RestockedOnce` adds that a voided order has one request that still has to restock it, or one call
that does (`OneRestock`), so that what came back to a line is at most the units of the orders nobody is
restocking any more (`NetIsPutBack`).

The argument for holds. `HoldsInv` says what a reserve call that is waited for has yet to look at
(`Reserving`) and that an order that exists has a reservation row on each of its lines at its depot
(`RoutedIsHeld`); a row, though, may be one that was given back. That it is ACTIVE is `MoveInv`: the one
reroute is in one pair of hands (`OneMove`), a checkout has its order to itself (`CheckoutAlone`), nothing
of an order has been given up before its reroute has written (`NothingGivenUp`), and what is released
while the order stands is at another depot (`ReleasesElsewhere`). The second reroute, back to a depot that
was left, is what `NothingGivenUp` cannot survive. `NoHoldLeftBehind` needs to know of every ACTIVE hold
who answers for it (`Accounted`): the order is routed there and not cancelled, or a release of it is under
way, or a cancellation or a request that lost its race will ask for one, or a request is still to route the
order there. An answered release has left nothing (`CallsFit`), and a consume row is DONE only when the
sale settled every hold of its order (`Delivered`). No bound on reroutes is needed.

`PromisedIsThere` bounds what is sold and promised together, and neither the guard of a checkout nor the
floor of a correction gives it: a sale has no floor, so it must be of a unit the order held. `PromiseInv`
follows each sale back to its hold. What a consume has yet to sell is held by its order or was sold before
(`SellsWhatIsHeld`), whose hold nobody else may give back meanwhile, since a completed order is released by
no one; with `ReservedIsHeld` the units promised are then within the counter, with `LedgerMatchesShelf` the
units sold are what left. The comment at `inventory.service.ts:511-513` says that two checkouts for the last
unit can both pass; `reserveAtomic` locks the lines (`SELECT ... FOR UPDATE`,
`inventory.prisma.repository.ts:448-452`) and counts again, so the comment is out of date.

`MoneyBackOnlyIfOver` says in which order the two writes come: for an app order the status and then the
money, for a counter sale the money and then the status. That a void may stop between the two, by a death or
an answer that took longer than 5 s, is why it does not say that a sale paid back is over
(`NoLiveOrderRefunded`, `MCFulfilmentVoid`).

The hypotheses are findings of section 5, or limits of the property. A legacy order, or one assigned while
it is being completed, owes nothing (`MCFulfilmentUnrouted`). Two reroutes break
`HeldWhereRouted` (`MCFulfilmentReroute`), and a legacy order was never held. A reserve given up after its
5 s, a release that is lost, or a request that dies between the two leaves a hold behind: the code fails
open there (section 5), and `NoHoldLeftBehind` says what it keeps otherwise. `net` counts restocks and corrections of a line together, so only without
corrections does it say how often a void restocked; corrections themselves are `LedgerBalances`.

`SettlementProofs` proves, for any sets of orders, couriers, staff and requests, and, but for the last two,
any bounds and any windows:

| theorem | states | assumes |
|---|---|---|
| `Typing` | `Spec => []TypeOK` | the constants' assumptions |
| `ChargedOnlyIfDebited` | `Spec => []ChargedIsDebited` | the same |
| `DeliveredAsked` | `Spec => DeliveredIsAsked` | the same |
| `HandedOverStands` | `Spec => []DeliveredStands` | `"cancel", "replay" \notin Windows`, `MaxAssigns <= 1` |
| `ReturnedReversed` | `Spec => ReturnedIsReversed` | the same as `HandedOverStands` |

The argument for deposits. The types are inductive with `RoadInv`: what a request can be at each step, and
that a delivery ever dispatched names its courier. An approval that is about to write "charged" has its
debit on the books (`AboutToCharge`), because only an answered push leads there, and no other ruling
leaves a claimed deposit. `DeliveredIsAsked` is about the step in which a delivery handed over comes to be
unasked. A deposit is of a shift that is closed (`SubmittedAfterShift`) and stays so; a closed shift does not
lapse or run over any more, so the window of a submitted deposit is fixed (`NotLapsed`), and no row comes
into it but by the write of a proof, which was ON_DELIVERY before. What is in the window when the deposit is
made is in its sum (`Owed`). The property speaks of depots with `ExpectFromCod` on: off, the depot asks for
PAID cash alone and unconfirmed cash goes unasked by choice.

`HandedOverStands` is about `complete` meeting `fail`, `reschedule`, `release` and `cancelByStaff` on one
delivery. A request cancels or hands back the order only when its delivery has ended for good: not carried,
and nobody left who may put it back (`Closing`, `InPlay`). Whoever ended it is the only one of his kind at
work and the only one who may (`Returning`), and the order has stayed ON_DELIVERY meanwhile, so what he
revives is still true. An advance that is about to write ON_DELIVERY has order-service's yes, which stands
while the delivery is in play; a cancel by staff is alone with its order. `StandInv` says this of each
order and request. The hypotheses mark real limits: a cancel that overlaps a completion, or a courier who
repeats a request that still runs, breaks the property (TLC shows it in `MCSettlement` with either window
open; section 5), and with three requests and three
dispatches an old request that read an earlier attempt can cancel the order of a later one.
TLC finds `StandInv` true of an instance with three requests.

`ReturnedIsReversed` rests on `StandInv` and on `ReportInv`: a report that has yet to write finds no delivery
FAILED with its cash unreversed, and does not keep quiet about notes that went back. Then whatever makes a
delivery FAILED over a PAID payment, with the notes at the customer's, is a report that goes on to reverse
it (`Settling`); one that is answered has reversed it, and one that is not has used up a slip. The theorem
says who alone leaves cash unreversed, not that it is reversed in the end (section 3, fairness).

`PointsProofs` proves, for any sets of orders, workers and sweeps, any worth of a sale, any ladder of tiers:

| theorem | states | assumes |
|---|---|---|
| `Typing` | `Spec => []TypeOK` | the constants' assumptions |
| `SalesCountOnce` | `Spec => []LifetimeIsEarned` | the same |
| `LotsLapseOnce` | `Spec => []LapsedOnce` | the same |

The argument for points. Typing is not inductive alone: a tier is looked up for a total read earlier, so
the total must be one the ladder has (`ReadsFit`), which holds because the lifetime total is the worth of
the awards on the books (`TotalsFit`). `LifetimeIsEarned` adds which sales those are: a voided one has its
reversal still to come (`inline`) or under way, or the reversal came before the award, or died; `StandInv`
follows a reversing call to its end, where it has found no award or undone one. The award after the reversal
is the finding of `MCPointsVoid`; the property does not hide it, it names it. A reversal that is about to take points back has found an
award, and awards are never deleted (`ReversersFit`). For the expiry, a lot is claimed by one sweep only,
for no more than it is worth (`SweepsFit`), and what has lapsed comes out of lots that were claimed and
whose sweep is done with them (`LapsedIsClaimed`); a debit makes one more lot done with.

`OwnerLedgerProofs` proves, for any sets of sales, workers and withdrawals, any amounts:

| theorem | states | assumes |
|---|---|---|
| `Typing` | `Spec => []TypeOK` | the constants' assumptions |
| `BooksBalanceAtRest` | `Spec => []BooksBalance` | the same |

The argument for the owner's books. The balance is the number of rows of each kind times its amount, so it
is right at rest when each sale has the rows it should. Rows come in pairs and are mirrored in pairs
(`RefsFit`), a credit follows a completion and a mirror a void (`RowsFit`, `JobFits`), and
`NothingMissed` is the point: once the reversal of a voided sale has been answered, a credit that still
stands belongs to a push that order-service is going to look at again (`RevenueAfter`), or the sale is in
`cut`: one of its calls was aborted, refused or died on the way there. Nothing is assumed about which calls
fail; that a credit stranded so is not backed out by anybody is the finding of `MCOwnerLedgerLatePush`.
`DebitsFit` says the withdrawals' part: a debit and its return sum to nothing,
and a settlement that was decided is not decided again.

TLC finds `PointsInv` and `LedgerInv`, the inductive invariants, true of the instances of `MCPoints` and
`MCOwnerLedger`.

Only model-checked:

- Liveness under fairness: `MoneyComesBack`, `PendingEnds`, `DriftIsReported`, `CompletedIsSold`,
  `CancelledIsPaidBack`, `VoidedIsTakenBack`, `CompletedIsCredited`.
- `DeliveredStands` over two dispatches of an order (`MCSettlementTwo`).

## 5. Where the code does not keep what it says

Each is a configuration that TLC finds violated, with its finding in `PROJECT.json`. `MCSettlementKeptCash`
and `MCPaymentLostReply` are among the listed runs; the others are run by hand, as
`tlc -config X.cfg M` with `M` the MC module X begins with.

| configuration | property | the code says | and does |
|---|---|---|---|
| `MCSettlementKeptCash` | `KeptCashIsAsked` | cash a courier keeps goes "back into the expected deposit" (`delivery.service.ts:672`) | `fail` cancels the order, whose reversal refunds the payment; `owedFor` then asks for nothing |
| `MCPaymentLostReply` | `RefundedAtMostOnce` | a customer is never paid "a second time" (`payment.service.ts:1315`) | a refund whose answer is lost is handed back and retried |
| `MCPaymentChargeRace` | `FailedIsFinal` | nothing leaves FAILED (`domain/payment.ts:101`) | `initiate` writes the charge reference, and its status PENDING, without a guard |
| `MCPaymentLateMoney` | `CollectedMoneyIsOwed` | a cancelled order that was paid "gets its money back" (`:1198`) | a webhook that finds the row FAILED is dropped |
| `MCFulfilmentReroute` | `HeldWhereRouted` | "never a moment with NO hold" (`order.service.ts:1877`) | `reserve` takes a RELEASED row for a hold, so a reroute back holds nothing |
| `MCFulfilmentUnrouted` | `CompletedOwesStock` | no COMPLETED order without its consume owed (`:3114`) | a depot assigned during or after completion leaves none |
| `MCFulfilmentVoid` | `NoLiveOrderRefunded` | never "a live order with its money gone" (`:2012`) | a void pays back first: refused for a sale that is being delivered, or not heard of within 5 s, it leaves the sale standing |
| `MCReferralVoidRace` | `VoidedKeepsNothing` | a void "can land while qualification is in flight" (`referral.service.ts:256`) | its mark can land between the two statements of `prepareQualification` |
| `MCOwnerLedgerLatePush` | `VoidedIsBackedOut` | "Reverse it now that it has" landed (`order.service.ts:2359`) | only a push whose answer arrives is looked at again, and once |
| `MCPointsVoid` | `PointsTakenBack` | points "are taken back as well" (`:1467`) | an award in flight lands after the reversal that found nothing |
| `MCPointsTier` | `TierFollowsLifetime` | the tier follows the lifetime total (`loyalty.service.ts:377`) | the tier of the smaller total may be written last |
| `MCSettlementVerdict` | `DebitedIsCharged` | a debit never lands on an uncharged settlement (`settlement.service.ts:322`) | a `verify` begun before the charge was raised resolves while the debit is out |
| `MCSettlementShift` | `EndsInAShift` | every delivery falls "inside exactly one shift" (`delivery.service.ts:280`) | a check-out between the look at the shift and the write of the row; a delivery ended in overtime of a shift that is then closed at its expected end |
| `MCSettlementLateProof` | `NothingGoesUnasked` | the COD "is owed whether or not the courier remembered" (`settlement.service.ts:100`) | a proof queued offline falls, when it is sent, into the window of a deposit that is in |

Limits the models contain and no run lists:

- A charge that races its own webhook: until the reference is stored the webhook finds no row.
- `rejectRefund` checks the order, then writes: a refusal can land on an order just cancelled.
- A cancel read before dispatch can be written after a callback to PREPARING (the status matches again),
  though the goods left once (`hasBeenDispatched`).
- A `reserve` aborted after 5 s holds stock for an order that is never written; a lost `release` leaves
  a hold that opname does not remove (`inventory.service.ts:395`).
- `restockForOrder` does not ask whether the sale left the shelf: a void before the outbox delivered adds
  stock that never went.
- A DEAD outbox row may have been delivered, and a PENDING one may have its attempts spent: the verdict is
  on attempts read earlier (`outbox.service.ts:204-210`).
- A drift notice is claimed before it is sent: a send that fails or dies is not repeated, and nobody hears of
  that payment (`payment.service.ts:831-836`). The reminders say the same of themselves (`:757`).
- A delivery left FAILED over a PAID payment by a failed call is finished by the phone's queue or not at all;
  the queue gives up.
- A crash between `Claim` and `GatewayRefund` leaves REFUNDED with the money still here ("lost" in
  `PaymentLedger`); the code accepts this and relies on reconciliation by hand.
- `QualifyCheck` acknowledges order B because order A has qualified; if A's reversal comes after that
  look, the referral reopens and B's row is done: nobody is paid until another order completes.
- The claim of an expired lot and its debit are two transactions: a sweep that dies between them leaves a
  lot that never lapses. The points are capped at a balance read earlier.
- `cancelByStaff` cancels the order before its guarded write: a completion in between leaves a delivery
  DELIVERED on a cancelled order (the `cancel` window).
- A courier repeats `fail` while the first is still at work; the first loses the reversal and puts the
  delivery back, he hands the goods over, and the repeat still cancels the order (the `replay` window).
- A reschedule whose hand-back to PREPARING fails is finished by a repeat only when cash went back.
- `PutBack` restores the earlier status without counting: it can exceed the courier's cap, or revive a
  delivery whose courier has checked out.
- An `assign` whose DRIVER_ASSIGNED was carried out but not answered is undone here and stands there: the
  order is no longer PREPARING and cannot be dispatched. A pickup whose answer is lost pins the order in
  the same way.
- A crash between `Claim` and `Conclude` leaves a deposit claimed for good: every ruling is refused.
- A courier may claim a CONFIRMED order by himself (`delivery.service.ts:229`), but order-service allows
  DRIVER_ASSIGNED only from PREPARING.

## 6. Not modelled

- payment-service, depot-service, order-service: proof-of-payment upload, reminders, audit and alerts;
  import and deletion of stock lines; the gallon topic, voucher burn and the replay of a double-tapped
  checkout; prices, taxes, queries and reports.
- referral-service: codes, summaries, settings.
- payout-service: owners who share a depot (their parts add up to the sale by construction), couriers'
  ledgers beyond the debit, bank accounts, statements.
- loyalty-service: the rewards catalogue and its stock, manual adjustments, settings, summaries, erasure.
- delivery-service: self-claim, check-in and breaks, positions, proofs, ratings, notifications; an online
  payment, which the courier does not touch.

The rest of the repository is user interface, read models, administration and proxying, with little that
several actors can get wrong together, and single-user edits that a unit test reaches. `PROJECT.json`
lists every part with its reason. That is most of its lines, so the map covers a small share of them.

## 7. Plan

1. Done: `Payment`, `PaymentLedger`, `DepotStock`, `Fulfilment`, the first proofs.
2. Done: the effects of a sale (`SaleOutbox`, `Referral`, `OwnerLedger`, `Points`); the courier and his
   deposit (`Delivery`, `Settlement`).
3. Checkout: voucher redemption under limits (promo-service), the burn and release of a voucher, the
   idempotency key and the replay of a double tap; the subscription sweep.
4. Stock transfers and purchase orders on the lines of `DepotStock`; a courier's payouts.
5. `Fulfilment` and `Payment` composed: `PAYMENT_REVERSAL` against the real `cancelForOrder`, `confirmPaid`
   against `updateStatus`.
6. An abstract specification of stock (units free, promised, sold) that `DepotStock` implements.

Every safety property that a passing run checks is now a theorem. Theorems to add: for each liveness
property, the safety half it rests on (what a request that runs on will do); with 6, that `DepotStock`
implements the abstract specification.
