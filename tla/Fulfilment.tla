----------------------------- MODULE Fulfilment -----------------------------
(***************************************************************************)
(* order-service and depot-service together: an order from checkout to     *)
(* completion, cancellation or void, the outbox of what it then owes, and  *)
(* the holds and sales it leaves on the depots' stock lines.               *)
(*                                                                         *)
(* A request or sweep of order-service is a job in job[t]; while it waits  *)
(* for depot-service its call runs in call[t] (DepotStock).  payment-      *)
(* service is external: moneyBack says whether it gave the money back.     *)
(***************************************************************************)
EXTENDS DepotStock

CONSTANTS
    NoJob, NoDepot,
    Kinds,     \* which of OrderKinds the orders may be
    Crashes,   \* operations during which order-service may die
    MaxTries,  \* [Topics -> attempts before an outbox row is DEAD]
    MaxMoves   \* bound: reroutes asked of one order

\* counter: a walk-in sale; delivery: rung up at the counter, then delivered;
\* legacy: an order from before checkout chose a depot, unrouted.
OrderKinds == {"app", "counter", "delivery", "legacy"}
RungUp == {"counter", "delivery"}
Topics == {"INVENTORY_CONSUME", "PAYMENT_REVERSAL"}
Ops == {"checkout", "assign", "reroute", "advance", "cancel", "expire", "void", "sweep"}
Steps == {"reserve", "create", "route", "lost", "write", "due", "deliver", "handle",
          "consume", "markDone", "markFailed", "drop", "payBack", "callOff", "last"}
Statuses == {"NONE", "CREATED", "CONFIRMED", "PREPARING", "DRIVER_ASSIGNED", "PICKED_UP",
             "ON_DELIVERY", "DELIVERED", "COMPLETED", "CANCELLED", "VOIDED"}
Reroutable == {"CREATED", "CONFIRMED", "PREPARING"}
Cancellable == Reroutable
Dispatched == {"DRIVER_ASSIGNED", "PICKED_UP", "ON_DELIVERY"}
Over == {"CANCELLED", "VOIDED"}
Standing == Statuses \ ({"NONE", "COMPLETED"} \cup Over)

ASSUME KindsAssumption ==
    Kinds \subseteq OrderKinds /\ Crashes \subseteq Ops
ASSUME TriesAssumption == MaxTries \in [Topics -> Nat \ {0}] /\ MaxMoves \in Nat

VARIABLES
    order,      \* [Orders -> OrderRow]
    row,        \* [Orders -> [Topics -> OutboxRow]]
    moneyBack,  \* [Orders -> BOOLEAN], at payment-service
    moves,      \* [Orders -> Nat], reroutes asked so far
    job         \* [Threads -> Job \cup {NoJob}]

orders == <<order, row, moneyBack, moves>>
vars == <<depotVars, orders, job>>

OrderRow == [kind : OrderKinds, status : Statuses, depot : Depots \cup {NoDepot},
             dispatched : BOOLEAN]
OutboxRow == [state : {"NONE", "PENDING", "DONE", "DEAD", "CANCELLED"}, tries : Nat]
Job == [op : Ops, o : Orders, at : Steps, to : Statuses, seen : Statuses,
        from : Depots \cup {NoDepot}, d : Depots \cup {NoDepot}, topic : Topics, tries : Nat]

ASSUME NoJobAssumption == NoJob \notin Job
ASSUME NoDepotAssumption == NoDepot \notin Depots

TypeOK ==
    /\ DepotTypeOK
    /\ order \in [Orders -> OrderRow]
    /\ row \in [Orders -> [Topics -> OutboxRow]]
    /\ moneyBack \in [Orders -> BOOLEAN]
    /\ moves \in [Orders -> 0..MaxMoves]
    /\ job \in [Threads -> Job \cup {NoJob}]

Init ==
    /\ DepotInit
    /\ \E kind \in [Orders -> Kinds] :
          order = [o \in Orders |->
                      [kind |-> kind[o], depot |-> NoDepot, dispatched |-> FALSE,
                       status |-> IF kind[o] = "legacy" THEN "CREATED" ELSE "NONE"]]
    /\ row = [o \in Orders |-> [k \in Topics |-> [state |-> "NONE", tries |-> 0]]]
    /\ moneyBack = [o \in Orders |-> FALSE]
    /\ moves = [o \in Orders |-> 0]
    /\ job = [t \in Threads |-> NoJob]

----------------------------------------------------------------------------
(* Jobs *)

At(t, step) == job[t] # NoJob /\ job[t].at = step
Goto(t, step) == job' = [job EXCEPT ![t].at = step]
Done(t) == job' = [job EXCEPT ![t] = NoJob]
Busy(o) ==
    \E t \in Threads : \/ job[t] # NoJob /\ job[t].o = o
                       \/ call[t] # NoCall /\ call[t].o = o

\* What a request read of its order: status seen, depot from.
NewJob(op, o, at, to) ==
    [op |-> op, o |-> o, at |-> at, to |-> to, seen |-> order[o].status,
     from |-> order[o].depot, d |-> order[o].depot, topic |-> "PAYMENT_REVERSAL", tries |-> 0]
Begin(t, j) ==
    /\ job[t] = NoJob /\ call[t] = NoCall
    /\ job' = [job EXCEPT ![t] = j]

\* Waiting for depot-service's answer; shelf and counts are depot-service's.
Wait(t, step, op, d) == Goto(t, step) /\ Ask(t, op, job[t].o, d)
NoCallMade == UNCHANGED <<call, shelf, counts>>
ShelfKept == UNCHANGED <<shelf, counts>>

\* The last call of a job fails open: its answer changes nothing.
Finish(t) ==
    /\ At(t, "last")
    /\ Return(t) /\ Done(t)
    /\ ShelfKept /\ UNCHANGED orders

----------------------------------------------------------------------------
(* reserveThenCreate: checkout and the counter *)

\* The id is fresh: nothing was ever held or asked under it.
Checkout(t, o, d) ==
    /\ order[o].status = "NONE" /\ ~Busy(o)
    /\ \A l \in Lines : hold[l][o] = "NONE"
    /\ Begin(t, [NewJob("checkout", o, "reserve", "CREATED") EXCEPT !.d = d])
    /\ Ask(t, "reserve", o, d)
    /\ ShelfKept /\ UNCHANGED orders

VerdictOpen(t) == TRUE  \* mutant: fails open
\* Fails closed: no verdict is a refusal.
Verdict(t) == call[t].ok
Reserved(t) ==
    /\ At(t, "reserve")
    /\ Return(t)
    /\ IF Verdict(t)
       THEN Goto(t, IF job[t].op = "checkout" THEN "create" ELSE "route")
       ELSE Done(t)
    /\ ShelfKept /\ UNCHANGED orders

Owe(o, k) == row' = [row EXCEPT ![o][k].state = "PENDING"]

\* The row is written, a counter sale as COMPLETED with what it owes; or the
\* write fails and the hold is handed back.
Create(t) ==
    /\ At(t, "create")
    /\ LET o == job[t].o
           status == CASE order[o].kind = "delivery" -> "CONFIRMED"
                       [] order[o].kind = "counter" -> "COMPLETED"
                       [] OTHER -> "CREATED"
       IN
       \/ /\ order' = [order EXCEPT ![o].status = status, ![o].depot = job[t].d]
          /\ IF status = "COMPLETED"
             THEN Owe(o, "INVENTORY_CONSUME") /\ Goto(t, "due")
             ELSE UNCHANGED row /\ Done(t)
          /\ UNCHANGED call
       \/ /\ Wait(t, "last", "release", job[t].d)
          /\ UNCHANGED <<order, row>>
    /\ ShelfKept /\ UNCHANGED <<moneyBack, moves>>

----------------------------------------------------------------------------
(* assignDepot and rerouteDepot *)

Assign(t, o, d) ==
    /\ order[o].status # "NONE" /\ order[o].depot = NoDepot
    /\ Begin(t, [NewJob("assign", o, "reserve", "CREATED") EXCEPT !.d = d])
    /\ Ask(t, "reserve", o, d)
    /\ ShelfKept /\ UNCHANGED orders

Reroute(t, o, d) ==
    /\ order[o].depot \notin {NoDepot, d} /\ order[o].status \in Reroutable
    /\ moves[o] < MaxMoves /\ moves' = [moves EXCEPT ![o] = @ + 1]
    /\ Begin(t, [NewJob("reroute", o, "reserve", "CREATED") EXCEPT !.d = d])
    /\ Ask(t, "reserve", o, d)
    /\ ShelfKept /\ UNCHANGED <<order, row, moneyBack>>

MayRouteAnytime(j) == order[j.o].depot = j.from  \* mutant: the status as it was read
\* assignDepotIf: still at the depot that was read; a reroute also asks that the
\* order has not left the kitchen, an assignment does not ask for the status.
MayRoute(j) ==
    /\ order[j.o].depot = j.from
    /\ j.op = "reroute" => order[j.o].status \in Reroutable

DepotJoined(j) == j.d  \* mutant: the hold just taken
DepotLeft(j) == j.from
Route(t) ==
    /\ At(t, "route")
    /\ IF MayRoute(job[t])
       THEN /\ order' = [order EXCEPT ![job[t].o].depot = job[t].d]
            /\ IF job[t].op = "reroute"
               THEN Wait(t, "last", "release", DepotLeft(job[t]))
               ELSE Done(t) /\ UNCHANGED call
       ELSE Goto(t, "lost") /\ UNCHANGED <<order, call>>
    /\ ShelfKept /\ UNCHANGED <<row, moneyBack, moves>>

\* releaseLostHold: unless the winner routed to the very same depot.
ReleaseLostHold(t) ==
    /\ At(t, "lost")
    /\ IF order[job[t].o].depot = job[t].d
       THEN Done(t) /\ UNCHANGED call
       ELSE Wait(t, "last", "release", job[t].d)
    /\ ShelfKept /\ UNCHANGED orders

----------------------------------------------------------------------------
(* updateStatus, the customer's cancel, the abandoned-order sweep *)

CanTransition(from, to) ==
    \/ <<from, to>> \in {<<"CREATED", "CONFIRMED">>, <<"CONFIRMED", "PREPARING">>,
                         <<"PREPARING", "DRIVER_ASSIGNED">>, <<"DRIVER_ASSIGNED", "PICKED_UP">>,
                         <<"PICKED_UP", "ON_DELIVERY">>, <<"ON_DELIVERY", "DELIVERED">>,
                         <<"DELIVERED", "COMPLETED">>}
    \/ from \in Dispatched /\ to = "PREPARING"
    \/ from \in Standing \ {"DELIVERED"} /\ to = "CANCELLED"

Advance(t, o, to) ==
    /\ CanTransition(order[o].status, to)
    /\ Begin(t, NewJob("advance", o, "write", to))
    /\ NoCallMade /\ UNCHANGED orders

Cancel(t, o) ==
    /\ order[o].status \in Cancellable /\ ~order[o].dispatched
    /\ Begin(t, NewJob("cancel", o, "write", "CANCELLED"))
    /\ NoCallMade /\ UNCHANGED orders

ExpireUnlisted(t, o) ==  \* mutant: a status outside the table
    /\ order[o].status \in Cancellable
    /\ Begin(t, NewJob("expire", o, "write", "EXPIRED"))
    /\ NoCallMade /\ UNCHANGED orders

\* findStaleIn: stuck for an hour, or a day; how long is left open here.
Expire(t, o) ==
    /\ order[o].status \in Cancellable
    /\ Begin(t, NewJob("expire", o, "write", "CANCELLED"))
    /\ NoCallMade /\ UNCHANGED orders

StillIsBlind(j) == TRUE  \* mutant: no guard in the WHERE (H-4)
\* applyStatus: compare-and-set on the status, with the rows the transition
\* earns in the same transaction; what completion owes follows from the depot
\* that was read, what cancellation releases from the row as it was updated.
StillIs(j) == order[j.o].status = j.seen
EarnedNothing(j) == {}  \* mutant: effects called directly, no outbox
Earned(j) ==
    CASE j.to = "COMPLETED" /\ j.from # NoDepot -> {"INVENTORY_CONSUME"}
      [] j.to = "CANCELLED" -> {"PAYMENT_REVERSAL"}
      [] OTHER -> {}
DepotRead(j) == j.from  \* mutant: the depot as it was read
DepotToRelease(j) == order[j.o].depot

ApplyStatus(t) ==
    /\ At(t, "write") /\ job[t].op # "void"
    /\ LET j == job[t] IN
       IF StillIs(j)
       THEN /\ order' = [order EXCEPT ![j.o].status = j.to,
                                      ![j.o].dispatched = @ \/ j.to \in Dispatched]
            /\ row' = [row EXCEPT ![j.o] = [k \in Topics |->
                          IF k \in Earned(j) THEN [@[k] EXCEPT !.state = "PENDING"] ELSE @[k]]]
            /\ IF j.to \in {"COMPLETED", "CANCELLED"}
               THEN job' = [job EXCEPT ![t].at = "due", ![t].d = DepotToRelease(j)]
               ELSE Done(t)
       ELSE Done(t) /\ UNCHANGED <<order, row>>
    /\ NoCallMade /\ UNCHANGED <<moneyBack, moves>>

\* releaseStock, once the reversal was tried.
Drop(t) ==
    /\ At(t, "drop")
    /\ IF job[t].d = NoDepot
       THEN Done(t) /\ UNCHANGED call
       ELSE Wait(t, "last", "release", job[t].d)
    /\ ShelfKept /\ UNCHANGED orders

----------------------------------------------------------------------------
(* The outbox: processDue, processForOrder, deliver *)

\* After the outbox, a cancellation goes on to its stock.
Proceed(t) ==
    IF job[t].op # "sweep" /\ job[t].to = "CANCELLED" THEN Goto(t, "drop") ELSE Done(t)

\* processForOrder: the rows just written, unless a full batch hides them.
Due(t) ==
    /\ At(t, "due")
    /\ \/ \E k \in Topics :
             /\ row[job[t].o][k].state = "PENDING"
             /\ job' = [job EXCEPT ![t].at = "deliver", ![t].topic = k,
                                   ![t].tries = row[job[t].o][k].tries]
       \/ Proceed(t)
    /\ NoCallMade /\ UNCHANGED orders

\* findDue takes no lock: two sweeps may hold the same row.
Sweep(t, o, k) ==
    /\ row[o][k].state = "PENDING"
    /\ Begin(t, [NewJob("sweep", o, "deliver", "NONE")
                    EXCEPT !.topic = k, !.tries = row[o][k].tries])
    /\ NoCallMade /\ UNCHANGED orders

\* An order that is over owes its stock no more; the row is done.
OwesNothing(j) == j.topic = "INVENTORY_CONSUME" /\ order[j.o].status \in Over
Deliver(t) ==
    /\ At(t, "deliver")
    /\ Goto(t, IF OwesNothing(job[t]) THEN "markDone" ELSE "handle")
    /\ NoCallMade /\ UNCHANGED orders

\* consumeStock reads the order again for its depot.
ConsumeStock(t) ==
    /\ At(t, "handle") /\ job[t].topic = "INVENTORY_CONSUME"
    /\ LET d == order[job[t].o].depot IN
       IF d = NoDepot
       THEN Goto(t, "markDone") /\ UNCHANGED call
       ELSE Wait(t, "consume", "consume", d)
    /\ ShelfKept /\ UNCHANGED orders

Consumed(t) ==
    /\ At(t, "consume")
    /\ Return(t)
    /\ Goto(t, IF Verdict(t) THEN "markDone" ELSE "markFailed")
    /\ ShelfKept /\ UNCHANGED orders

\* cancelForOrder at payment-service: done, refused, or done with the answer lost.
ReversePayment(t) ==
    /\ At(t, "handle") /\ job[t].topic = "PAYMENT_REVERSAL"
    /\ LET Paid == moneyBack' = [moneyBack EXCEPT ![job[t].o] = TRUE] IN
       \/ Paid /\ Goto(t, "markDone")
       \/ Paid /\ Goto(t, "markFailed")
       \/ UNCHANGED moneyBack /\ Goto(t, "markFailed")
    /\ NoCallMade /\ UNCHANGED <<order, row, moves>>

\* Both marks touch only a row that is still PENDING.
Owed(j) == row[j.o][j.topic].state = "PENDING"
MarkDone(t) ==
    /\ At(t, "markDone")
    /\ LET j == job[t] IN
       IF Owed(j) THEN row' = [row EXCEPT ![j.o][j.topic].state = "DONE"] ELSE UNCHANGED row
    /\ Proceed(t)
    /\ NoCallMade /\ UNCHANGED <<order, moneyBack, moves>>

\* DEAD by the attempts the sweep read, not by those the row has by now.
Exhausted(j) == j.tries + 1 >= MaxTries[j.topic]
MarkFailed(t) ==
    /\ At(t, "markFailed")
    /\ LET j == job[t] IN
       IF Owed(j)
       THEN row' = [row EXCEPT ![j.o][j.topic] =
                       [state |-> IF Exhausted(j) THEN "DEAD" ELSE "PENDING",
                        tries |-> @.tries + 1]]
       ELSE UNCHANGED row
    /\ Proceed(t)
    /\ NoCallMade /\ UNCHANGED <<order, moneyBack, moves>>

----------------------------------------------------------------------------
(* voidCounterSale *)

\* Any counter sale not yet VOIDED, in the shift it was rung up in.
Void(t, o) ==
    /\ order[o].kind \in RungUp
    /\ order[o].status \notin {"NONE", "VOIDED"}
    /\ Begin(t, NewJob("void", o, "payBack", "VOIDED"))
    /\ NoCallMade /\ UNCHANGED orders

\* The money first, failing closed: paid, refused, or paid with the answer lost
\* (5 s abort), which ends the void and leaves the sale as it was.
PayBack(t) ==
    /\ At(t, "payBack")
    /\ LET Paid == moneyBack' = [moneyBack EXCEPT ![job[t].o] = TRUE] IN
       \/ Paid /\ Goto(t, "write")
       \/ Paid /\ Done(t)
       \/ UNCHANGED moneyBack /\ Done(t)
    /\ NoCallMade /\ UNCHANGED <<order, row, moves>>

MayVoidTwice(o) == TRUE  \* mutant: guarded in the service alone
MayVoid(o) == order[o].status = "COMPLETED"
VoidWalkIn(t) ==
    /\ At(t, "write") /\ job[t].op = "void"
    /\ IF MayVoid(job[t].o)
       THEN order' = [order EXCEPT ![job[t].o].status = "VOIDED"] /\ Goto(t, "callOff")
       ELSE UNCHANGED order /\ Done(t)
    /\ NoCallMade /\ UNCHANGED <<row, moneyBack, moves>>

\* cancelForOrder of the outbox, failing open.
CallOff(t) ==
    /\ At(t, "callOff")
    /\ LET o == job[t].o IN
       \/ row' = [row EXCEPT ![o]["INVENTORY_CONSUME"].state =
                     IF @ = "PENDING" THEN "CANCELLED" ELSE @]
       \/ UNCHANGED row
    /\ IF job[t].from = NoDepot
       THEN Done(t) /\ UNCHANGED call
       ELSE Wait(t, "last", "restock", job[t].from)
    /\ ShelfKept /\ UNCHANGED <<order, moneyBack, moves>>

----------------------------------------------------------------------------
(* Crashes; depot-service goes on with a call nobody waits for *)

Crash(t) ==
    /\ job[t] # NoJob /\ job[t].op \in Crashes
    /\ Done(t)
    /\ NoCallMade /\ UNCHANGED orders

Abandoned(t) ==
    /\ job[t] = NoJob /\ Return(t)
    /\ ShelfKept /\ UNCHANGED <<job, orders>>

JobStep(t) ==
    \/ Reserved(t) \/ Create(t) \/ Route(t) \/ ReleaseLostHold(t) \/ ApplyStatus(t) \/ Drop(t)
    \/ Due(t) \/ Deliver(t) \/ ConsumeStock(t) \/ Consumed(t) \/ ReversePayment(t)
    \/ MarkDone(t) \/ MarkFailed(t) \/ PayBack(t) \/ VoidWalkIn(t) \/ CallOff(t)
    \/ Finish(t) \/ Abandoned(t)

DepotStep == \E t \in Threads : CallStep(t) \/ Break(t)

Request(t, o) ==
    \/ \E d \in Depots : Checkout(t, o, d) \/ Assign(t, o, d) \/ Reroute(t, o, d)
    \/ \E to \in Statuses : Advance(t, o, to)
    \/ Cancel(t, o) \/ Expire(t, o) \/ Void(t, o)
    \/ \E k \in Topics : Sweep(t, o, k)

Next ==
    \/ \E t \in Threads : JobStep(t) \/ Crash(t) \/ \E o \in Orders : Request(t, o)
    \/ (DepotStep \/ CountStep) /\ UNCHANGED <<orders, job>>

Spec == Init /\ [][Next]_vars

\* Handlers run to their end, and the scheduler runs the outbox sweep every few
\* minutes: a row that stays due is taken again and again.  A request is never
\* refused a thread, so the model's small pool must not starve the sweep.
Fairness ==
    /\ \A t \in Threads : WF_vars(JobStep(t))
    /\ \A t \in Threads : WF_vars(CallStep(t) /\ UNCHANGED <<orders, job>>)
    /\ \A o \in Orders, k \in Topics : SF_vars(\E t \in Threads : Sweep(t, o, k))

FairSpec == Spec /\ Fairness

----------------------------------------------------------------------------
(* Safety *)

\* Checkout, assignment and reroute: an order that stands is held, wholly, at
\* the depot it is routed to; "there is never a moment with NO hold".
HeldWhereRouted ==
    \A o \in Orders :
        order[o].status \in Standing /\ order[o].depot # NoDepot =>
            \A l \in LinesFor(o, order[o].depot) : hold[l][o] = "ACTIVE"

\* Once nothing is at work on a cancelled order, or on a completed one whose
\* consume was delivered, no depot it ever passed through holds stock for it.
NoHoldLeftBehind ==
    \A o \in Orders :
        /\ ~Busy(o)
        /\ \/ order[o].status = "CANCELLED"
           \/ order[o].status = "COMPLETED" /\ row[o]["INVENTORY_CONSUME"].state = "DONE"
        => \A l \in Lines : hold[l][o] # "ACTIVE"

\* Stock leaves only the depot an order ended up at, and only for an order that
\* was completed, however late and however often the outbox delivers.
SoldWhereRouted ==
    \A l \in Lines : \A o \in sold[l] :
        order[o].status \in {"COMPLETED", "VOIDED"} /\ DepotOf[l] = order[o].depot

\* K2.3: for an order of the app the status decides first, and its money goes
\* back only once it is over, whoever advances it meanwhile; for a sale at the
\* counter the money goes first, and none is VOIDED that was not paid back.
MoneyBackOnlyIfOver ==
    \A o \in Orders :
        /\ moneyBack[o] /\ order[o].kind \notin RungUp => order[o].status \in Over
        /\ order[o].status = "VOIDED" => moneyBack[o]

\* reserveForOrder: "two customers cannot both buy the last unit".  What is
\* sold and what is promised never exceed what came in, however checkouts,
\* reroutes, releases and late consumes cross.  Without corrections, net counts
\* the restocks alone.
PromisedIsThere ==
    \A l \in Lines :
        Cardinality(Units(sold[l] \cup {o \in Orders : hold[l][o] = "ACTIVE"})) <= Stock + net[l]

\* H-10: "an order cannot be COMPLETED without its stock consume being owed".
CompletedOwesStock ==
    \A o \in Orders :
        order[o].status = "COMPLETED" /\ order[o].depot # NoDepot =>
            row[o]["INVENTORY_CONSUME"].state # "NONE"

\* voidWalkIn: however many cashiers void a sale, its goods are put back once.
\* Without corrections, net counts the restocks alone.
RestockedOnce ==
    \A l \in Lines :
        net[l] <= Cardinality(Units({o \in Orders : order[o].status = "VOIDED"}))

----------------------------------------------------------------------------
(* Liveness *)

\* The outbox: a completed sale leaves the shelf in the end, though the request
\* that completed it died, or an operator is told that it did not.
CompletedIsSold ==
    \A o \in Orders :
        order[o].status = "COMPLETED" /\ order[o].depot # NoDepot ~>
            \/ \A l \in LinesFor(o, order[o].depot) : o \in sold[l] /\ hold[l][o] # "ACTIVE"
            \/ row[o]["INVENTORY_CONSUME"].state = "DEAD"
            \/ order[o].status = "VOIDED"

\* A cancelled order, whoever cancelled it, gets its money back in the end.
CancelledIsPaidBack ==
    \A o \in Orders :
        order[o].status = "CANCELLED" ~>
            moneyBack[o] \/ row[o]["PAYMENT_REVERSAL"].state = "DEAD"

----------------------------------------------------------------------------
(* What the repository says and the code does not keep *)

\* cancel: there is never "a live order with its money gone", except while a
\* counter void is between its two writes.
NoLiveOrderRefunded ==
    \A o \in Orders :
        moneyBack[o] =>
            \/ order[o].status \in Over
            \/ \E t \in Threads : job[t] # NoJob /\ job[t].op = "void" /\ job[t].o = o

=============================================================================
