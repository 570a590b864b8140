----------------------------- MODULE DepotStock -----------------------------
(***************************************************************************)
(* depot-service: the stock lines of a depot and the holds orders have on  *)
(* them (inventory.service, inventory.prisma.repository).                  *)
(*                                                                         *)
(* A call from order-service is a record in call[t].  Its reads and its    *)
(* database transactions are separate steps, so calls interleave between   *)
(* them; every transaction is one step.  An order takes Qty units of each  *)
(* line in its cart.  Staff counts and corrections run beside the calls.   *)
(***************************************************************************)
EXTENDS Integers, FiniteSets

CONSTANTS
    Lines, Depots, Orders,
    DepotOf,   \* [Lines -> Depots]
    Cart,      \* [Orders -> SUBSET Lines]: where the depots stock its products
    Qty,       \* [Orders -> Nat \ {0}]
    Stock,     \* units on every line at the start
    Threads,   \* concurrent calls
    NoCall,
    Breaks,    \* operations whose call may break off at any step (crash, 5 s abort)
    MaxStock,  \* bound: a restock or correction takes no line above it
    MaxCounts  \* bound: corrections in progress at once

CallOps == {"reserve", "consume", "release", "restock"}

ASSUME LinesAssumption ==
    /\ DepotOf \in [Lines -> Depots]
    /\ Cart \in [Orders -> SUBSET Lines]
    /\ IsFiniteSet(Lines)
ASSUME OrdersAssumption == IsFiniteSet(Orders) /\ Qty \in [Orders -> Nat \ {0}]
ASSUME BoundsAssumption ==
    /\ {Stock, MaxStock, MaxCounts} \subseteq Nat
    /\ Breaks \subseteq CallOps

VARIABLES
    quantity,  \* [Lines -> Int]: what the ledger says is on the shelf
    reserved,  \* [Lines -> Int]: units promised to orders
    hold,      \* [Lines -> [Orders -> HoldStatuses]], the reservation rows
    sold,      \* [Lines -> SUBSET Orders], the SALE movements
    net,       \* [Lines -> Int], the sum of all movements that are not sales
    call,      \* [Threads -> Call \cup {NoCall}]
    counts     \* corrections read and not yet written

shelf == <<quantity, reserved, hold, sold, net>>
depotVars == <<quantity, reserved, hold, sold, net, call, counts>>

HoldStatuses == {"NONE", "ACTIVE", "RELEASED", "CONSUMED"}
Call == [op : CallOps, at : {"check", "run", "reply"}, o : Orders,
         left : SUBSET Lines, seen : SUBSET Lines, ok : BOOLEAN]
Count == [line : Lines, delta : Int]

ASSUME NoCallAssumption == NoCall \notin Call

DepotTypeOK ==
    /\ quantity \in [Lines -> Int]
    /\ reserved \in [Lines -> Int]
    /\ hold \in [Lines -> [Orders -> HoldStatuses]]
    /\ sold \in [Lines -> SUBSET Orders]
    /\ net \in [Lines -> Int]
    /\ call \in [Threads -> Call \cup {NoCall}]
    /\ counts \subseteq Count

DepotInit ==
    /\ quantity = [l \in Lines |-> Stock]
    /\ reserved = [l \in Lines |-> 0]
    /\ hold = [l \in Lines |-> [o \in Orders |-> "NONE"]]
    /\ sold = [l \in Lines |-> {}]
    /\ net = [l \in Lines |-> 0]
    /\ call = [t \in Threads |-> NoCall]
    /\ counts = {}

----------------------------------------------------------------------------
(* Calls *)

Running(t, op, at) == call[t] # NoCall /\ call[t].op = op /\ call[t].at = at
Answered(t) == call[t] # NoCall /\ call[t].at = "reply"
Answer(t, ok) == call' = [call EXCEPT ![t].at = "reply", ![t].ok = ok]

\* The lines of the depot the order's products are on; others are skipped.
LinesFor(o, d) == {l \in Cart[o] : DepotOf[l] = d}

Ask(t, op, o, d) ==
    /\ call[t] = NoCall
    /\ call' = [call EXCEPT ![t] =
          [op |-> op, at |-> IF op \in {"reserve", "consume"} THEN "check" ELSE "run",
           o |-> o, left |-> LinesFor(o, d), seen |-> {}, ok |-> FALSE]]

Return(t) ==
    /\ Answered(t)
    /\ call' = [call EXCEPT ![t] = NoCall]

\* The line is dealt with; the call is answered after the last one.
LineDone(t, l) ==
    call' = [call EXCEPT ![t].left = @ \ {l},
                         ![t].at = IF call[t].left \subseteq {l} THEN "reply" ELSE @,
                         ![t].ok = call[t].left \subseteq {l}]

NothingToDo(t) ==
    /\ call[t] # NoCall /\ call[t].at = "run" /\ call[t].left = {}
    /\ Answer(t, TRUE)
    /\ UNCHANGED <<shelf, counts>>

Break(t) ==
    /\ call[t] # NoCall /\ call[t].op \in Breaks
    /\ Answer(t, FALSE)
    /\ UNCHANGED <<shelf, counts>>

----------------------------------------------------------------------------
(* Transactions of the repository *)

AvailableUnheld(l) == quantity[l]  \* mutant: forgets what is promised
Available(l) == quantity[l] - reserved[l]

MaySettleAgain(l, o) == hold[l][o] # "NONE"  \* mutant: the status read before (B-5)
\* settleReservation: only the caller that moves the hold out of ACTIVE gives
\* the units back.
MaySettle(l, o) == hold[l][o] = "ACTIVE"
SettleAway(l, o, status) ==  \* mutant: a status nobody knows
    /\ hold' = [hold EXCEPT ![l][o] = "DELETED"]
    /\ UNCHANGED reserved
Settle(l, o, status) ==
    IF MaySettle(l, o)
    THEN /\ hold' = [hold EXCEPT ![l][o] = status]
         /\ reserved' = [reserved EXCEPT ![l] = @ - Qty[o]]
    ELSE UNCHANGED <<hold, reserved>>

FlooredInService(l, delta) == TRUE  \* mutant: floor checked on the read alone
\* applyMovement: relative to the row as it is now, whatever the caller read.
Floored(l, delta) == quantity[l] + delta >= 0
Move(l, delta) ==
    /\ quantity' = [quantity EXCEPT ![l] = @ + delta]
    /\ net' = [net EXCEPT ![l] = @ + delta]

----------------------------------------------------------------------------
(* reserveForOrder *)

\* findReservation, line by line: a line with any reservation row, whatever its
\* status, counts as held already.
CheckHolds(t) ==
    /\ Running(t, "reserve", "check")
    /\ call' = [call EXCEPT ![t].at = "run",
                            ![t].left = {l \in @ : hold[l][call[t].o] = "NONE"}]
    /\ UNCHANGED <<shelf, counts>>

\* reserveAtomic: the lines are locked, all are held or none; a row written
\* since by another call for the same order breaks the unique index.
Fits(c, l) == Available(l) >= Qty[c.o] /\ hold[l][c.o] = "NONE"
GrantedOneByOne(c) == {l \in c.left : Fits(c, l)}  \* mutant: line by line
Granted(c) == IF \A l \in c.left : Fits(c, l) THEN c.left ELSE {}

Reserve(t) ==
    /\ Running(t, "reserve", "run") /\ call[t].left # {}
    /\ LET c == call[t]
           held == Granted(c)
       IN
       /\ reserved' = [l \in Lines |-> reserved[l] + IF l \in held THEN Qty[c.o] ELSE 0]
       /\ hold' = [l \in Lines |->
                      IF l \in held THEN [hold[l] EXCEPT ![c.o] = "ACTIVE"] ELSE hold[l]]
       /\ Answer(t, held # {})
    /\ UNCHANGED <<quantity, sold, net, counts>>

----------------------------------------------------------------------------
(* consumeForOrder, releaseForOrder, restockForOrder: line by line *)

\* itemsWithMovementForOrder, once for the whole order.
CheckSales(t) ==
    /\ Running(t, "consume", "check")
    /\ call' = [call EXCEPT ![t].at = "run",
                            ![t].seen = {l \in call[t].left : call[t].o \in sold[l]}]
    /\ UNCHANGED <<shelf, counts>>

MaySellAgain(l, o) == TRUE  \* mutant: no unique index behind the pre-check
\* The sale goes through whatever the shelf says; the unique (line, order)
\* index refuses a second one.  Lines an earlier attempt sold come first, since
\* every attempt walks the items in the same order.
MaySell(l, o) == o \notin sold[l]
Sell(t) ==
    /\ Running(t, "consume", "run") /\ call[t].left \cap call[t].seen = {}
    /\ \E l \in call[t].left : LET o == call[t].o IN
          IF MaySell(l, o)
          THEN /\ quantity' = [quantity EXCEPT ![l] = @ - Qty[o]]
               /\ sold' = [sold EXCEPT ![l] = @ \cup {o}]
               /\ call' = [call EXCEPT ![t].seen = @ \cup {l}]
          ELSE Answer(t, FALSE) /\ UNCHANGED <<quantity, sold>>
    /\ UNCHANGED <<reserved, hold, net, counts>>

\* A line that was sold, now or by an earlier attempt, settles its hold.
SettleSale(t) ==
    /\ Running(t, "consume", "run")
    /\ \E l \in call[t].left \cap call[t].seen :
          Settle(l, call[t].o, "CONSUMED") /\ LineDone(t, l)
    /\ UNCHANGED <<quantity, sold, net, counts>>

Release(t) ==
    /\ Running(t, "release", "run")
    /\ \E l \in call[t].left : Settle(l, call[t].o, "RELEASED") /\ LineDone(t, l)
    /\ UNCHANGED <<quantity, sold, net, counts>>

\* Goods of a voided counter sale, put back without asking whether they left.
\* The floor is applyMovement's; at the bound the call fails.
Restock(t) ==
    /\ Running(t, "restock", "run")
    /\ \E l \in call[t].left : LET units == Qty[call[t].o] IN
          IF Floored(l, units) /\ quantity[l] + units <= MaxStock
          THEN Move(l, units) /\ LineDone(t, l)
          ELSE Answer(t, FALSE) /\ UNCHANGED <<quantity, net>>
    /\ UNCHANGED <<reserved, hold, sold, counts>>

----------------------------------------------------------------------------
(* adjust and opname: the line is read, the difference is written later *)

BeginCount(l, target) ==
    /\ Cardinality(counts) < MaxCounts
    /\ counts' = counts \cup {[line |-> l, delta |-> target - quantity[l]]}
    /\ UNCHANGED <<shelf, call>>

WriteCount(c) ==
    /\ c \in counts
    /\ counts' = counts \ {c}
    /\ IF Floored(c.line, c.delta) /\ quantity[c.line] + c.delta <= MaxStock
       THEN Move(c.line, c.delta)
       ELSE UNCHANGED <<quantity, net>>
    /\ UNCHANGED <<reserved, hold, sold, call>>

CallStep(t) ==
    \/ CheckHolds(t) \/ Reserve(t)
    \/ CheckSales(t) \/ Sell(t) \/ SettleSale(t)
    \/ Release(t) \/ Restock(t) \/ NothingToDo(t)

CountStep ==
    \/ \E l \in Lines, target \in 0..MaxStock : BeginCount(l, target)
    \/ \E c \in counts : WriteCount(c)

\* Called by anyone, in any order, as often as they like.
DepotNext ==
    \/ \E t \in Threads :
          \/ \E op \in CallOps, o \in Orders, d \in Depots :
                Ask(t, op, o, d) /\ UNCHANGED <<shelf, counts>>
          \/ Return(t) /\ UNCHANGED <<shelf, counts>>
          \/ CallStep(t) \/ Break(t)
    \/ CountStep

DepotSpec == DepotInit /\ [][DepotNext]_depotVars

----------------------------------------------------------------------------
(* Safety *)

Units(orders) == UNION {{o} \X (1..Qty[o]) : o \in orders}

\* B-5: the reserved counter is the sum of the holds that are still ACTIVE,
\* however many releases, consumes and retries settle the same hold at once;
\* a unit given back twice would be sold twice.
ReservedIsHeld ==
    \A l \in Lines :
        reserved[l] = Cardinality(Units({o \in Orders : hold[l][o] = "ACTIVE"}))

\* CA-2-21: the movement ledger and the shelf agree: no correction read before
\* a sale erases it, and an order leaves the shelf once, retried as it may be.
LedgerMatchesShelf ==
    \A l \in Lines : quantity[l] = Stock + net[l] - Cardinality(Units(sold[l]))

\* Only a sale takes a line below zero; a correction computed from a stale
\* count does not, though a sale slipped in between its read and its write.
OnlySalesGoBelowZero ==
    [][\A l \in Lines :
          quantity'[l] < quantity[l] /\ quantity'[l] < 0 => sold'[l] # sold[l]]_depotVars

\* All or nothing: no depot keeps a hold on part of what an order asked of it.
HeldWholly ==
    \A o \in Orders, d \in Depots :
        LET rows == {l \in LinesFor(o, d) : hold[l][o] # "NONE"} IN
        rows = {} \/ rows = LinesFor(o, d)

=============================================================================
