-------------------------- MODULE DepotStockProofs --------------------------
(***************************************************************************)
(* Proofs about DepotStock, for every set of lines, depots, orders and     *)
(* calls and any quantities.                                               *)
(*                                                                         *)
(* The lemmas are about one action each, so that a specification that asks *)
(* depot-service in its own order can use them as well.                    *)
(***************************************************************************)
EXTENDS DepotStock, FiniteSetTheorems, TLAPS

----------------------------------------------------------------------------
(* The lines of an order *)

LEMMA LinesOfTheCart ==
    ASSUME NEW o \in Orders, NEW d
    PROVE  LinesFor(o, d) \subseteq Cart[o] /\ LinesFor(o, d) \subseteq Lines
BY LinesAssumption DEF LinesFor

\* A line is at one depot.
LEMMA OneDepotEach ==
    ASSUME NEW o \in Orders, NEW d, NEW e, d # e
    PROVE  LinesFor(o, d) \cap LinesFor(o, e) = {}
BY DEF LinesFor

----------------------------------------------------------------------------
(* Type correctness *)

LEMMA AskTyping ==
    ASSUME DepotTypeOK, NEW t \in Threads,
           NEW op \in CallOps, NEW o \in Orders, NEW d, Ask(t, op, o, d)
    PROVE  call' \in [Threads -> Call \cup {NoCall}]
<1>1. LinesFor(o, d) \subseteq Lines
  BY LinesOfTheCart
<1>2. [op |-> op, at |-> IF op \in {"reserve", "consume"} THEN "check" ELSE "run",
       o |-> o, left |-> LinesFor(o, d), seen |-> {}, ok |-> FALSE] \in Call
  BY <1>1 DEF Call
<1> QED
  BY <1>2 DEF DepotTypeOK, Ask

LEMMA AnswerTyping ==
    ASSUME DepotTypeOK, NEW t \in Threads, call[t] # NoCall, NEW ok \in BOOLEAN, Answer(t, ok)
    PROVE  call' \in [Threads -> Call \cup {NoCall}]
<1>1. call[t] \in Call
  BY DEF DepotTypeOK
<1>2. [call[t] EXCEPT !.at = "reply", !.ok = ok] \in Call
  BY <1>1 DEF Call
<1>3. call' = [call EXCEPT ![t] = [call[t] EXCEPT !.at = "reply", !.ok = ok]]
  BY DEF DepotTypeOK, Answer
<1> QED
  BY <1>2, <1>3 DEF DepotTypeOK

LEMMA ReturnTyping ==
    ASSUME DepotTypeOK, NEW t \in Threads, Return(t)
    PROVE  call' \in [Threads -> Call \cup {NoCall}]
BY DEF DepotTypeOK, Return

LEMMA LineDoneTyping ==
    ASSUME DepotTypeOK, NEW t \in Threads, call[t] # NoCall, NEW l, LineDone(t, l)
    PROVE  call' \in [Threads -> Call \cup {NoCall}]
<1> DEFINE done == call[t].left \subseteq {l}
           next == [call[t] EXCEPT !.left = @ \ {l},
                                   !.at = IF done THEN "reply" ELSE @, !.ok = done]
<1>1. call[t] \in Call
  BY DEF DepotTypeOK
<1>2. next \in Call
  BY <1>1 DEF Call
<1>3. call' = [call EXCEPT ![t] = next]
  BY DEF DepotTypeOK, LineDone
<1> QED
  BY <1>2, <1>3 DEF DepotTypeOK

LEMMA SettleTyping ==
    ASSUME DepotTypeOK, NEW l \in Lines, NEW o \in Orders,
           NEW status \in HoldStatuses, Settle(l, o, status)
    PROVE  /\ reserved' \in [Lines -> Int]
           /\ hold' \in [Lines -> [Orders -> HoldStatuses]]
<1>1. Qty[o] \in Nat \ {0}
  BY OrdersAssumption
<1>2. reserved' \in [Lines -> Int]
  BY <1>1 DEF DepotTypeOK, Settle
<1>3. [hold[l] EXCEPT ![o] = status] \in [Orders -> HoldStatuses]
  BY DEF DepotTypeOK
<1>4. hold' \in [Lines -> [Orders -> HoldStatuses]]
  BY <1>3 DEF DepotTypeOK, Settle
<1> QED
  BY <1>2, <1>4

LEMMA MoveTyping ==
    ASSUME DepotTypeOK, NEW l \in Lines, NEW delta \in Int, Move(l, delta)
    PROVE  quantity' \in [Lines -> Int] /\ net' \in [Lines -> Int]
BY DEF DepotTypeOK, Move

\* The lines a call has left are lines, its order is an order.
LEMMA CallFields ==
    ASSUME DepotTypeOK, NEW t \in Threads, call[t] # NoCall
    PROVE  /\ call[t].op \in CallOps /\ call[t].o \in Orders
           /\ call[t].left \subseteq Lines /\ call[t].seen \subseteq Lines
           /\ Qty[call[t].o] \in Nat \ {0}
<1>1. call[t] \in Call
  BY DEF DepotTypeOK
<1> QED
  BY <1>1, OrdersAssumption DEF Call

LEMMA CheckHoldsTyping ==
    ASSUME DepotTypeOK, NEW t \in Threads, CheckHolds(t)
    PROVE  DepotTypeOK'
<1> DEFINE next == [call[t] EXCEPT !.at = "run",
                       !.left = {l \in @ : hold[l][call[t].o] = "NONE"}]
<1>1. call[t] \in Call
  BY DEF DepotTypeOK, CheckHolds, Running
<1>2. next \in Call
  BY <1>1 DEF Call
<1>3. call' = [call EXCEPT ![t] = next]
  BY DEF DepotTypeOK, CheckHolds
<1>4. call' \in [Threads -> Call \cup {NoCall}]
  BY <1>2, <1>3 DEF DepotTypeOK
<1> QED
  BY <1>4 DEF DepotTypeOK, CheckHolds, shelf

LEMMA ReserveTyping ==
    ASSUME DepotTypeOK, NEW t \in Threads, Reserve(t)
    PROVE  DepotTypeOK'
<1> DEFINE o == call[t].o
           held == Granted(call[t])
<1>1. o \in Orders /\ Qty[o] \in Nat /\ call[t] # NoCall
  BY CallFields DEF Reserve, Running
<1>2. Answer(t, held # {})
  BY DEF Reserve
<1>3. call' \in [Threads -> Call \cup {NoCall}]
  <2>1. (held # {}) \in BOOLEAN
    OBVIOUS
  <2> QED
    BY <1>1, <1>2, <2>1, AnswerTyping
<1>4. reserved' \in [Lines -> Int]
  <2>1. reserved' = [l \in Lines |-> reserved[l] + IF l \in held THEN Qty[o] ELSE 0]
    BY DEF Reserve
  <2>2. \A l \in Lines : (reserved[l] + IF l \in held THEN Qty[o] ELSE 0) \in Int
    BY <1>1 DEF DepotTypeOK
  <2> QED
    BY <2>1, <2>2
<1>5. hold' \in [Lines -> [Orders -> HoldStatuses]]
  <2>1. hold' = [l \in Lines |-> IF l \in held THEN [hold[l] EXCEPT ![o] = "ACTIVE"] ELSE hold[l]]
    BY DEF Reserve
  <2>2. \A l \in Lines : [hold[l] EXCEPT ![o] = "ACTIVE"] \in [Orders -> HoldStatuses]
    BY DEF DepotTypeOK, HoldStatuses
  <2> QED
    BY <2>1, <2>2 DEF DepotTypeOK
<1> QED
  BY <1>3, <1>4, <1>5 DEF DepotTypeOK, Reserve

LEMMA CheckSalesTyping ==
    ASSUME DepotTypeOK, NEW t \in Threads, CheckSales(t)
    PROVE  DepotTypeOK'
<1> DEFINE next == [call[t] EXCEPT !.at = "run",
                       !.seen = {l \in call[t].left : call[t].o \in sold[l]}]
<1>1. call[t] \in Call
  BY DEF DepotTypeOK, CheckSales, Running
<1>2. next \in Call
  BY <1>1 DEF Call
<1>3. call' = [call EXCEPT ![t] = next]
  BY DEF DepotTypeOK, CheckSales
<1>4. call' \in [Threads -> Call \cup {NoCall}]
  BY <1>2, <1>3 DEF DepotTypeOK
<1> QED
  BY <1>4 DEF DepotTypeOK, CheckSales, shelf

LEMMA SellTyping ==
    ASSUME DepotTypeOK, NEW t \in Threads, Sell(t)
    PROVE  DepotTypeOK'
<1> DEFINE o == call[t].o
<1>1. call[t] # NoCall
  BY DEF Sell, Running
<1>2. call[t] \in Call
  BY <1>1 DEF DepotTypeOK
<1>3. o \in Orders /\ Qty[o] \in Nat /\ call[t].left \subseteq Lines
  BY <1>1, CallFields
<1>4. PICK l \in call[t].left :
         IF MaySell(l, o)
         THEN /\ quantity' = [quantity EXCEPT ![l] = @ - Qty[o]]
              /\ sold' = [sold EXCEPT ![l] = @ \cup {o}]
              /\ call' = [call EXCEPT ![t].seen = @ \cup {l}]
         ELSE Answer(t, FALSE) /\ UNCHANGED <<quantity, sold>>
  BY DEF Sell
<1>5. l \in Lines
  BY <1>3, <1>4
<1>6. call' \in [Threads -> Call \cup {NoCall}]
  <2>1. CASE MaySell(l, o)
    <3>1. [call[t] EXCEPT !.seen = @ \cup {l}] \in Call
      BY <1>2, <1>5 DEF Call
    <3>2. call' = [call EXCEPT ![t] = [call[t] EXCEPT !.seen = @ \cup {l}]]
      BY <1>4, <2>1 DEF DepotTypeOK
    <3> QED
      BY <3>1, <3>2 DEF DepotTypeOK
  <2>2. CASE ~MaySell(l, o)
    BY <1>1, <1>4, <2>2, AnswerTyping
  <2> QED
    BY <2>1, <2>2
<1>7. quantity' \in [Lines -> Int]
  <2>1. quantity[l] - Qty[o] \in Int
    BY <1>3, <1>5 DEF DepotTypeOK
  <2>2. quantity' \in {quantity, [quantity EXCEPT ![l] = quantity[l] - Qty[o]]}
    BY <1>4, <1>5 DEF DepotTypeOK
  <2> QED
    BY <2>1, <2>2 DEF DepotTypeOK
<1>8. sold' \in [Lines -> SUBSET Orders]
  <2>1. sold[l] \cup {o} \in SUBSET Orders
    BY <1>3, <1>5 DEF DepotTypeOK
  <2>2. sold' \in {sold, [sold EXCEPT ![l] = sold[l] \cup {o}]}
    BY <1>4, <1>5 DEF DepotTypeOK
  <2> QED
    BY <2>1, <2>2 DEF DepotTypeOK
<1> QED
  BY <1>6, <1>7, <1>8 DEF DepotTypeOK, Sell

LEMMA SettleSaleTyping ==
    ASSUME DepotTypeOK, NEW t \in Threads, SettleSale(t)
    PROVE  DepotTypeOK'
<1>1. call[t] # NoCall
  BY DEF SettleSale, Running
<1>2. PICK l \in call[t].left \cap call[t].seen : Settle(l, call[t].o, "CONSUMED") /\ LineDone(t, l)
  BY DEF SettleSale
<1>3. l \in Lines /\ call[t].o \in Orders /\ "CONSUMED" \in HoldStatuses
  BY <1>1, <1>2, CallFields DEF HoldStatuses
<1>4. /\ reserved' \in [Lines -> Int]
      /\ hold' \in [Lines -> [Orders -> HoldStatuses]]
  BY <1>2, <1>3, SettleTyping
<1>5. call' \in [Threads -> Call \cup {NoCall}]
  BY <1>1, <1>2, LineDoneTyping
<1> QED
  BY <1>4, <1>5 DEF DepotTypeOK, SettleSale

LEMMA ReleaseTyping ==
    ASSUME DepotTypeOK, NEW t \in Threads, Release(t)
    PROVE  DepotTypeOK'
<1>1. call[t] # NoCall
  BY DEF Release, Running
<1>2. PICK l \in call[t].left : Settle(l, call[t].o, "RELEASED") /\ LineDone(t, l)
  BY DEF Release
<1>3. l \in Lines /\ call[t].o \in Orders /\ "RELEASED" \in HoldStatuses
  BY <1>1, <1>2, CallFields DEF HoldStatuses
<1>4. /\ reserved' \in [Lines -> Int]
      /\ hold' \in [Lines -> [Orders -> HoldStatuses]]
  BY <1>2, <1>3, SettleTyping
<1>5. call' \in [Threads -> Call \cup {NoCall}]
  BY <1>1, <1>2, LineDoneTyping
<1> QED
  BY <1>4, <1>5 DEF DepotTypeOK, Release

LEMMA RestockTyping ==
    ASSUME DepotTypeOK, NEW t \in Threads, Restock(t)
    PROVE  DepotTypeOK'
<1> DEFINE units == Qty[call[t].o]
<1>1. call[t] # NoCall
  BY DEF Restock, Running
<1>2. PICK l \in call[t].left :
         IF Floored(l, units) /\ quantity[l] + units <= MaxStock
         THEN Move(l, units) /\ LineDone(t, l)
         ELSE Answer(t, FALSE) /\ UNCHANGED <<quantity, net>>
  BY DEF Restock
<1>3. l \in Lines /\ units \in Int
  BY <1>1, <1>2, CallFields
<1>4. quantity' \in [Lines -> Int] /\ net' \in [Lines -> Int]
  <2>1. CASE Floored(l, units) /\ quantity[l] + units <= MaxStock
    BY <1>2, <1>3, <2>1, MoveTyping
  <2>2. CASE ~(Floored(l, units) /\ quantity[l] + units <= MaxStock)
    BY <1>2, <2>2 DEF DepotTypeOK
  <2> QED
    BY <2>1, <2>2
<1>5. call' \in [Threads -> Call \cup {NoCall}]
  BY <1>1, <1>2, LineDoneTyping, AnswerTyping
<1> QED
  BY <1>4, <1>5 DEF DepotTypeOK, Restock

\* A call that ends, well or badly.
LEMMA EndTyping ==
    ASSUME DepotTypeOK, NEW t \in Threads, NothingToDo(t) \/ Break(t)
    PROVE  DepotTypeOK'
<1>1. call[t] # NoCall
  BY DEF NothingToDo, Break
<1>2. \E ok \in BOOLEAN : Answer(t, ok)
  BY DEF NothingToDo, Break
<1>3. call' \in [Threads -> Call \cup {NoCall}]
  BY <1>1, <1>2, AnswerTyping
<1>4. UNCHANGED <<shelf, counts>>
  BY DEF NothingToDo, Break
<1> QED
  BY <1>3, <1>4 DEF DepotTypeOK, shelf

LEMMA CountTyping ==
    ASSUME DepotTypeOK, CountStep
    PROVE  DepotTypeOK'
<1>1. ASSUME NEW l \in Lines, NEW target \in 0..MaxStock, BeginCount(l, target)
      PROVE  DepotTypeOK'
  <2>1. [line |-> l, delta |-> target - quantity[l]] \in Count
    BY BoundsAssumption DEF DepotTypeOK, Count
  <2>2. counts' \subseteq Count
    BY <1>1, <2>1 DEF DepotTypeOK, BeginCount
  <2> QED
    BY <1>1, <2>2 DEF DepotTypeOK, BeginCount, shelf
<1>2. ASSUME NEW c \in counts, WriteCount(c)
      PROVE  DepotTypeOK'
  <2>1. c.line \in Lines /\ c.delta \in Int
    BY DEF DepotTypeOK, Count
  <2>2. quantity' \in [Lines -> Int] /\ net' \in [Lines -> Int]
    BY <1>2, <2>1, MoveTyping DEF DepotTypeOK, WriteCount
  <2>3. counts' \subseteq Count
    BY <1>2 DEF DepotTypeOK, WriteCount
  <2> QED
    BY <1>2, <2>2, <2>3 DEF DepotTypeOK, WriteCount
<1> QED
  BY <1>1, <1>2 DEF CountStep

LEMMA CallStepTyping ==
    ASSUME DepotTypeOK, NEW t \in Threads, CallStep(t)
    PROVE  DepotTypeOK'
BY CheckHoldsTyping, ReserveTyping, CheckSalesTyping, SellTyping, SettleSaleTyping,
   ReleaseTyping, RestockTyping, EndTyping DEF CallStep

LEMMA DepotInitTyping == DepotInit => DepotTypeOK
BY BoundsAssumption DEF DepotInit, DepotTypeOK, HoldStatuses

LEMMA DepotNextTyping ==
    ASSUME DepotTypeOK, [DepotNext]_depotVars
    PROVE  DepotTypeOK'
<1>1. ASSUME NEW t \in Threads, NEW op \in CallOps, NEW o \in Orders, NEW d \in Depots,
             Ask(t, op, o, d), UNCHANGED <<shelf, counts>>
      PROVE  DepotTypeOK'
  BY <1>1, AskTyping DEF DepotTypeOK, shelf
<1>2. ASSUME NEW t \in Threads, Return(t), UNCHANGED <<shelf, counts>>
      PROVE  DepotTypeOK'
  BY <1>2, ReturnTyping DEF DepotTypeOK, shelf
<1>3. ASSUME NEW t \in Threads, CallStep(t) \/ Break(t)
      PROVE  DepotTypeOK'
  BY <1>3, CallStepTyping, EndTyping
<1>4. CASE UNCHANGED depotVars
  BY <1>4 DEF DepotTypeOK, depotVars
<1> QED
  BY <1>1, <1>2, <1>3, <1>4, CountTyping DEF DepotNext

\* Every stock line, reservation row, movement and call keeps its type.
THEOREM DepotTyping == DepotSpec => []DepotTypeOK
BY DepotInitTyping, DepotNextTyping, PTL DEF DepotSpec

----------------------------------------------------------------------------
(* All or nothing: HeldWholly *)

\* What a reserve call still has to hold is all the lines its depot has of the
\* order, or none of them.
ReserveIsWhole ==
    \A t \in Threads :
        call[t] # NoCall /\ call[t].op = "reserve" =>
            \/ call[t].left = {}
            \/ \E d \in Depots : call[t].left = LinesFor(call[t].o, d)

WholeInv == HeldWholly /\ ReserveIsWhole

\* A reservation row is never deleted: reserving skips its line for good.
RowsKept ==
    \A l \in Lines, o \in Orders : hold'[l][o] = "NONE" <=> hold[l][o] = "NONE"

LEMMA RowsKeptSettling ==
    ASSUME DepotTypeOK, NEW l \in Lines, NEW o \in Orders,
           NEW status \in HoldStatuses \ {"NONE"}, Settle(l, o, status)
    PROVE  RowsKept
<1>1. CASE MaySettle(l, o)
  BY <1>1 DEF DepotTypeOK, Settle, MaySettle, RowsKept
<1>2. CASE ~MaySettle(l, o)
  BY <1>2 DEF Settle, RowsKept
<1> QED
  BY <1>1, <1>2

LEMMA KeptRowsKeepWhole ==
    ASSUME HeldWholly, RowsKept
    PROVE  HeldWholly'
<1> SUFFICES ASSUME NEW o \in Orders, NEW d \in Depots
             PROVE  LET rows == {l \in LinesFor(o, d) : hold'[l][o] # "NONE"} IN
                    rows = {} \/ rows = LinesFor(o, d)
  BY DEF HeldWholly, LinesFor
<1>1. {l \in LinesFor(o, d) : hold'[l][o] # "NONE"} = {l \in LinesFor(o, d) : hold[l][o] # "NONE"}
  BY LinesOfTheCart DEF RowsKept
<1> QED
  BY <1>1 DEF HeldWholly

\* Another thread's call, or the same call with nothing held or skipped since.
LEMMA OtherCallsStayWhole ==
    ASSUME ReserveIsWhole,
           \A t \in Threads : call'[t] # NoCall /\ call'[t].op = "reserve" =>
               \/ call'[t].left = {}
               \/ \E d \in Depots : call'[t].left = LinesFor(call'[t].o, d)
               \/ call[t] # NoCall /\ call[t].op = "reserve"
                  /\ call'[t].left = call[t].left /\ call'[t].o = call[t].o
    PROVE  ReserveIsWhole'
<1> SUFFICES ASSUME NEW t \in Threads, call'[t] # NoCall, call'[t].op = "reserve"
             PROVE  \/ call'[t].left = {}
                    \/ \E d \in Depots : call'[t].left = LinesFor(call'[t].o, d)
  BY DEF ReserveIsWhole, LinesFor
<1> QED
  BY DEF ReserveIsWhole

LEMMA AskWhole ==
    ASSUME DepotTypeOK, ReserveIsWhole, NEW t \in Threads,
           NEW op, NEW o, NEW d, op = "reserve" => d \in Depots, Ask(t, op, o, d)
    PROVE  ReserveIsWhole'
<1>1. \A s \in Threads : s # t => call'[s] = call[s]
  BY DEF DepotTypeOK, Ask
<1>2. call'[t].left = LinesFor(o, d) /\ call'[t].o = o /\ call'[t].op = op
  BY DEF DepotTypeOK, Ask
<1> QED
  BY <1>1, <1>2, OtherCallsStayWhole

LEMMA ReturnWhole ==
    ASSUME DepotTypeOK, ReserveIsWhole, NEW t \in Threads, Return(t)
    PROVE  ReserveIsWhole'
<1>1. \A s \in Threads : call'[s] = call[s] \/ call'[s] = NoCall
  BY DEF DepotTypeOK, Return
<1> QED
  BY <1>1, OtherCallsStayWhole

LEMMA AnswerWhole ==
    ASSUME DepotTypeOK, ReserveIsWhole, NEW t \in Threads, call[t] # NoCall,
           NEW ok, Answer(t, ok)
    PROVE  ReserveIsWhole'
<1>1. \A s \in Threads : s # t => call'[s] = call[s]
  BY DEF DepotTypeOK, Answer
<1>2. call'[t].left = call[t].left /\ call'[t].o = call[t].o /\ call'[t].op = call[t].op
  <2>1. call[t] \in Call
    BY DEF DepotTypeOK
  <2>2. call'[t] = [call[t] EXCEPT !.at = "reply", !.ok = ok]
    BY DEF DepotTypeOK, Answer
  <2> QED
    BY <2>1, <2>2 DEF Call
<1> QED
  BY <1>1, <1>2, OtherCallsStayWhole

\* Calls of the other operations are free to drop lines.
LEMMA OtherOpsWhole ==
    ASSUME DepotTypeOK, ReserveIsWhole, NEW t \in Threads, call[t] # NoCall,
           call[t].op # "reserve",
           \A s \in Threads : s # t => call'[s] = call[s],
           call'[t].op = call[t].op
    PROVE  ReserveIsWhole'
BY OtherCallsStayWhole

LEMMA LineDoneWhole ==
    ASSUME DepotTypeOK, ReserveIsWhole, NEW t \in Threads, call[t] # NoCall,
           call[t].op # "reserve", NEW l, LineDone(t, l)
    PROVE  ReserveIsWhole'
<1>1. \A s \in Threads : s # t => call'[s] = call[s]
  BY DEF DepotTypeOK, LineDone
<1>2. call'[t].op = call[t].op
  <2>1. call[t] \in Call
    BY DEF DepotTypeOK
  <2> QED
    BY <2>1 DEF DepotTypeOK, LineDone, Call
<1> QED
  BY <1>1, <1>2, OtherOpsWhole

\* Lines with a row are skipped: with all of them or none of them held, the
\* call goes on with none or all of them.
LEMMA CheckHoldsWhole ==
    ASSUME DepotTypeOK, WholeInv, NEW t \in Threads, CheckHolds(t)
    PROVE  WholeInv'
<1> DEFINE o == call[t].o
           left == {l \in call[t].left : hold[l][o] = "NONE"}
<1>1. call[t] # NoCall /\ call[t].op = "reserve" /\ o \in Orders
  BY CallFields DEF CheckHolds, Running
<1>2. \A s \in Threads : s # t => call'[s] = call[s]
  BY DEF DepotTypeOK, CheckHolds
<1>3. call'[t].left = left /\ call'[t].o = o
  <2>1. call[t] \in Call
    BY <1>1 DEF DepotTypeOK
  <2>2. call'[t] = [call[t] EXCEPT !.at = "run", !.left = {l \in @ : hold[l][o] = "NONE"}]
    BY DEF DepotTypeOK, CheckHolds
  <2> QED
    BY <2>1, <2>2 DEF Call
<1>4. left = {} \/ \E d \in Depots : left = LinesFor(o, d)
  <2>1. CASE call[t].left = {}
    BY <2>1
  <2>2. ASSUME NEW d \in Depots, call[t].left = LinesFor(o, d)
        PROVE  left = {} \/ left = LinesFor(o, d)
    <3> DEFINE rows == {l \in LinesFor(o, d) : hold[l][o] # "NONE"}
    <3>1. rows = {} \/ rows = LinesFor(o, d)
      BY <1>1 DEF WholeInv, HeldWholly
    <3>2. left = LinesFor(o, d) \ rows
      BY <2>2
    <3> HIDE DEF rows
    <3> QED
      BY <3>1, <3>2
  <2> QED
    BY <1>1, <2>1, <2>2 DEF WholeInv, ReserveIsWhole
<1>5. ReserveIsWhole'
  BY <1>2, <1>3, <1>4, OtherCallsStayWhole DEF WholeInv
<1>6. RowsKept
  BY DEF CheckHolds, shelf, RowsKept
<1> QED
  BY <1>5, <1>6, KeptRowsKeepWhole DEF WholeInv

\* reserveAtomic writes rows for all its lines or for none.
LEMMA ReserveWhole ==
    ASSUME DepotTypeOK, WholeInv, NEW t \in Threads, Reserve(t)
    PROVE  WholeInv'
<1> DEFINE c == call[t]
           held == Granted(c)
<1>1. c # NoCall /\ c.op = "reserve" /\ c.o \in Orders /\ c.left # {}
  BY CallFields DEF Reserve, Running
<1>2. held = {} \/ held = c.left
  BY DEF Granted
<1>3. \A l \in Lines, o \in Orders :
         hold'[l][o] = IF l \in held /\ o = c.o THEN "ACTIVE" ELSE hold[l][o]
  <2>1. \A l \in Lines :
           hold'[l] = IF l \in held THEN [hold[l] EXCEPT ![c.o] = "ACTIVE"] ELSE hold[l]
    BY DEF Reserve
  <2> QED
    BY <2>1 DEF DepotTypeOK
<1>4. HeldWholly'
  <2>1. CASE held = {}
    <3>1. RowsKept
      BY <1>3, <2>1 DEF RowsKept
    <3> QED
      BY <3>1, KeptRowsKeepWhole DEF WholeInv
  <2>2. CASE held = c.left
    <3>1. PICK e \in Depots : c.left = LinesFor(c.o, e)
      BY <1>1 DEF WholeInv, ReserveIsWhole
    <3> SUFFICES ASSUME NEW o \in Orders, NEW d \in Depots
                 PROVE  LET rows == {l \in LinesFor(o, d) : hold'[l][o] # "NONE"} IN
                        rows = {} \/ rows = LinesFor(o, d)
      BY DEF HeldWholly, LinesFor
    <3>2. CASE o = c.o /\ d = e
      BY <1>3, <2>2, <3>1, <3>2, LinesOfTheCart
    <3>3. CASE o # c.o \/ d # e
      <4>1. \A l \in LinesFor(o, d) : hold'[l][o] = hold[l][o]
        BY <1>3, <2>2, <3>1, <3>3, LinesOfTheCart, OneDepotEach
      <4>2. {l \in LinesFor(o, d) : hold'[l][o] # "NONE"}
              = {l \in LinesFor(o, d) : hold[l][o] # "NONE"}
        BY <4>1
      <4> QED
        BY <4>2 DEF WholeInv, HeldWholly
    <3> QED
      BY <3>2, <3>3
  <2> QED
    BY <1>2, <2>1, <2>2
<1>5. Answer(t, held # {})
  BY DEF Reserve
<1>6. ReserveIsWhole'
  BY <1>1, <1>5, AnswerWhole DEF WholeInv
<1> QED
  BY <1>4, <1>6 DEF WholeInv

LEMMA SaleAndReleaseWhole ==
    ASSUME DepotTypeOK, WholeInv, NEW t \in Threads, SettleSale(t) \/ Release(t)
    PROVE  WholeInv'
<1>1. call[t] # NoCall /\ call[t].op # "reserve"
  BY DEF SettleSale, Release, Running
<1>2. PICK l \in call[t].left, status \in {"CONSUMED", "RELEASED"} :
         Settle(l, call[t].o, status) /\ LineDone(t, l)
  BY DEF SettleSale, Release
<1>3. l \in Lines /\ call[t].o \in Orders /\ status \in HoldStatuses \ {"NONE"}
  BY <1>1, <1>2, CallFields DEF HoldStatuses
<1>4. RowsKept
  BY <1>2, <1>3, RowsKeptSettling
<1>5. ReserveIsWhole'
  BY <1>1, <1>2, LineDoneWhole DEF WholeInv
<1> QED
  BY <1>4, <1>5, KeptRowsKeepWhole DEF WholeInv

LEMMA SellWhole ==
    ASSUME DepotTypeOK, WholeInv, NEW t \in Threads, Sell(t) \/ CheckSales(t) \/ Restock(t)
    PROVE  WholeInv'
<1>1. call[t] # NoCall /\ call[t].op # "reserve"
  BY DEF Sell, CheckSales, Restock, Running
<1>2. \A s \in Threads : s # t => call'[s] = call[s]
  BY DEF DepotTypeOK, Sell, CheckSales, Restock, LineDone, Answer
<1>3. call'[t].op = call[t].op
  <2>1. call[t] \in Call
    BY <1>1 DEF DepotTypeOK
  <2>2. CASE CheckSales(t)
    BY <2>1, <2>2 DEF DepotTypeOK, CheckSales, Call
  <2>3. CASE Sell(t)
    <3>1. (\E l : call' = [call EXCEPT ![t].seen = @ \cup {l}]) \/ Answer(t, FALSE)
      BY <2>3 DEF Sell
    <3>2. CASE \E l : call' = [call EXCEPT ![t].seen = @ \cup {l}]
      BY <2>1, <3>2 DEF DepotTypeOK, Call
    <3>3. CASE Answer(t, FALSE)
      BY <2>1, <3>3 DEF DepotTypeOK, Answer, Call
    <3> QED
      BY <3>1, <3>2, <3>3
  <2>4. CASE Restock(t)
    <3>1. (\E l : LineDone(t, l)) \/ Answer(t, FALSE)
      BY <2>4 DEF Restock
    <3>2. ASSUME NEW l, LineDone(t, l)
          PROVE  call'[t].op = call[t].op
      BY <2>1, <3>2 DEF DepotTypeOK, LineDone, Call
    <3>3. CASE Answer(t, FALSE)
      BY <2>1, <3>3 DEF DepotTypeOK, Answer, Call
    <3> QED
      BY <3>1, <3>2, <3>3
  <2> QED
    BY <2>2, <2>3, <2>4
<1>4. ReserveIsWhole'
  BY <1>1, <1>2, <1>3, OtherOpsWhole DEF WholeInv
<1>5. RowsKept
  BY DEF Sell, CheckSales, Restock, shelf, RowsKept
<1> QED
  BY <1>4, <1>5, KeptRowsKeepWhole DEF WholeInv

LEMMA EndWhole ==
    ASSUME DepotTypeOK, WholeInv, NEW t \in Threads, NothingToDo(t) \/ Break(t)
    PROVE  WholeInv'
<1>1. call[t] # NoCall /\ \E ok : Answer(t, ok)
  BY DEF NothingToDo, Break
<1>2. ReserveIsWhole'
  BY <1>1, AnswerWhole DEF WholeInv
<1>3. RowsKept
  BY DEF NothingToDo, Break, shelf, RowsKept
<1> QED
  BY <1>2, <1>3, KeptRowsKeepWhole DEF WholeInv

LEMMA UnchangedWhole ==
    ASSUME WholeInv, UNCHANGED <<hold, call>>
    PROVE  WholeInv'
BY DEF WholeInv, HeldWholly, ReserveIsWhole, LinesFor

LEMMA CallStepWhole ==
    ASSUME DepotTypeOK, WholeInv, NEW t \in Threads, CallStep(t)
    PROVE  WholeInv'
BY CheckHoldsWhole, ReserveWhole, SellWhole, SaleAndReleaseWhole, EndWhole DEF CallStep

LEMMA DepotNextWhole ==
    ASSUME DepotTypeOK, WholeInv, [DepotNext]_depotVars
    PROVE  WholeInv'
<1>1. ASSUME NEW t \in Threads, NEW op \in CallOps, NEW o \in Orders, NEW d \in Depots,
             Ask(t, op, o, d), UNCHANGED <<shelf, counts>>
      PROVE  WholeInv'
  BY <1>1, AskWhole, KeptRowsKeepWhole DEF WholeInv, RowsKept, shelf
<1>2. ASSUME NEW t \in Threads, Return(t), UNCHANGED <<shelf, counts>>
      PROVE  WholeInv'
  BY <1>2, ReturnWhole, KeptRowsKeepWhole DEF WholeInv, RowsKept, shelf
<1>3. ASSUME NEW t \in Threads, CallStep(t) \/ Break(t)
      PROVE  WholeInv'
  BY <1>3, CallStepWhole, EndWhole
<1>4. CASE CountStep
  BY <1>4, UnchangedWhole DEF CountStep, BeginCount, WriteCount, shelf
<1>5. CASE UNCHANGED depotVars
  BY <1>5, UnchangedWhole DEF depotVars
<1> QED
  BY <1>1, <1>2, <1>3, <1>4, <1>5 DEF DepotNext

LEMMA DepotInitWhole == DepotInit => WholeInv
<1> SUFFICES ASSUME DepotInit
             PROVE  WholeInv
  OBVIOUS
<1>1. \A o \in Orders, l \in Lines : hold[l][o] = "NONE"
  BY DEF DepotInit
<1>2. HeldWholly
  BY <1>1, LinesOfTheCart DEF HeldWholly
<1>3. ReserveIsWhole
  BY DEF DepotInit, ReserveIsWhole
<1> QED
  BY <1>2, <1>3 DEF WholeInv

\* reserveForOrder, retried and raced as it may be, leaves no order with a row on
\* some of the lines a depot stocks for it and none on the others.
THEOREM HeldAllOrNothing == DepotSpec => []HeldWholly
<1>1. DepotSpec => [](DepotTypeOK /\ WholeInv)
  BY DepotInitTyping, DepotNextTyping, DepotInitWhole, DepotNextWhole, PTL DEF DepotSpec
<1> QED
  BY <1>1, PTL DEF WholeInv

----------------------------------------------------------------------------
(* Counting units *)

LEMMA UnitsOfNone == Units({}) = {} /\ Cardinality(Units({})) = 0
BY FS_EmptySet DEF Units

LEMMA UnitsOfOne ==
    ASSUME NEW o \in Orders
    PROVE  IsFiniteSet({o} \X (1..Qty[o])) /\ Cardinality({o} \X (1..Qty[o])) = Qty[o]
<1> DEFINE n == Qty[o]
<1>1. n \in Nat \ {0}
  BY OrdersAssumption
<1> HIDE DEF n
<1>2. IsFiniteSet(1..n) /\ Cardinality(1..n) = n
  <2>1. Cardinality(1..n) = IF 1 > n THEN 0 ELSE n - 1 + 1
    BY <1>1, FS_Interval
  <2>2. (IF 1 > n THEN 0 ELSE n - 1 + 1) = n
    BY <1>1
  <2> QED
    BY <1>1, <2>1, <2>2, FS_Interval
<1>3. IsFiniteSet({o}) /\ Cardinality({o}) = 1
  BY FS_Singleton
<1>4. Cardinality({o} \X (1..n)) = Cardinality({o}) * Cardinality(1..n)
  BY <1>2, <1>3, FS_Product
<1>5. Cardinality({o} \X (1..n)) = n
  <2>1. 1 * n = n
    BY <1>1
  <2> QED
    BY <1>2, <1>3, <1>4, <2>1
<1>6. IsFiniteSet({o} \X (1..n))
  BY <1>2, <1>3, FS_Product
<1> QED
  BY <1>5, <1>6 DEF n

LEMMA UnitsFinite ==
    ASSUME NEW S \in SUBSET Orders
    PROVE  IsFiniteSet(Units(S)) /\ Cardinality(Units(S)) \in Nat
<1> DEFINE f == [o \in S |-> {o} \X (1..Qty[o])]
           T == {{o} \X (1..Qty[o]) : o \in S}
<1>1. IsFiniteSet(S)
  BY OrdersAssumption, FS_Subset
<1>2. f \in Surjection(S, T)
  BY DEF Surjection
<1>3. IsFiniteSet(T)
  <2> HIDE DEF f, T
  <2> QED
    BY <1>1, <1>2, FS_Surjection
<1>4. \A u \in T : IsFiniteSet(u)
  BY UnitsOfOne
<1>5. IsFiniteSet(UNION T)
  <2> HIDE DEF T
  <2> QED
    BY <1>3, <1>4, FS_UNION
<1>6. IsFiniteSet(Units(S))
  BY <1>5 DEF Units
<1> QED
  BY <1>6, FS_CardinalityType

LEMMA UnitsGained ==
    ASSUME NEW S \in SUBSET Orders, NEW o \in Orders, o \notin S
    PROVE  Cardinality(Units(S \cup {o})) = Cardinality(Units(S)) + Qty[o]
<1> DEFINE mine == {o} \X (1..Qty[o])
<1>1. Units(S \cup {o}) = Units(S) \cup mine
  <2>1. ASSUME NEW u
        PROVE  u \in Units(S \cup {o}) <=> u \in Units(S) \/ u \in mine
    BY DEF Units
  <2> QED
    BY <2>1
<1>2. Units(S) \cap mine = {}
  <2>1. ASSUME NEW u \in Units(S)
        PROVE  u \notin mine
    <3>1. PICK p \in S : u \in {p} \X (1..Qty[p])
      BY DEF Units
    <3>2. u[1] = p
      BY <3>1
    <3> QED
      BY <3>1, <3>2
  <2> QED
    BY <2>1
<1>3. IsFiniteSet(Units(S)) /\ Cardinality(Units(S)) \in Nat
  BY UnitsFinite
<1>4. IsFiniteSet(mine) /\ Cardinality(mine) = Qty[o] /\ Qty[o] \in Nat
  BY UnitsOfOne, OrdersAssumption
<1> HIDE DEF mine
<1>5. Cardinality(Units(S) \cup mine)
        = Cardinality(Units(S)) + Cardinality(mine) - Cardinality(Units(S) \cap mine)
  BY <1>3, <1>4, FS_Union
<1>6. Cardinality(Units(S) \cap mine) = 0
  BY <1>2, FS_EmptySet
<1>7. Cardinality(Units(S) \cup mine) = Cardinality(Units(S)) + Qty[o] - 0
  BY <1>4, <1>5, <1>6
<1>8. Cardinality(Units(S)) + Qty[o] - 0 = Cardinality(Units(S)) + Qty[o]
  BY <1>3, <1>4
<1> QED
  BY <1>1, <1>7, <1>8

LEMMA UnitsLost ==
    ASSUME NEW S \in SUBSET Orders, NEW o \in S
    PROVE  Cardinality(Units(S \ {o})) = Cardinality(Units(S)) - Qty[o]
<1>1. (S \ {o}) \cup {o} = S /\ S \ {o} \in SUBSET Orders /\ o \in Orders
  OBVIOUS
<1>2. Cardinality(Units(S)) = Cardinality(Units(S \ {o})) + Qty[o]
  BY <1>1, UnitsGained
<1>3. Cardinality(Units(S \ {o})) \in Nat /\ Qty[o] \in Nat
  BY <1>1, UnitsFinite, OrdersAssumption
<1> QED
  BY <1>2, <1>3

----------------------------------------------------------------------------
(* B-5: ReservedIsHeld *)

HeldBy(l) == {o \in Orders : hold[l][o] = "ACTIVE"}

LEMMA SettleReserved ==
    ASSUME DepotTypeOK, ReservedIsHeld, NEW l \in Lines, NEW o \in Orders,
           NEW status \in HoldStatuses \ {"ACTIVE"}, Settle(l, o, status)
    PROVE  ReservedIsHeld'
<1>1. CASE MaySettle(l, o)
  <2>1. \A k \in Lines : k # l => hold'[k] = hold[k] /\ reserved'[k] = reserved[k]
    BY <1>1 DEF DepotTypeOK, Settle
  <2>2. o \in HeldBy(l) /\ HeldBy(l) \in SUBSET Orders
    BY <1>1 DEF HeldBy, MaySettle
  <2>3. HeldBy(l)' = HeldBy(l) \ {o}
    BY <1>1 DEF DepotTypeOK, Settle, HeldBy
  <2>4. reserved'[l] = reserved[l] - Qty[o]
    BY <1>1 DEF DepotTypeOK, Settle
  <2>5. reserved'[l] = Cardinality(Units(HeldBy(l) \ {o}))
    BY <2>2, <2>4, UnitsLost DEF ReservedIsHeld, HeldBy
  <2>6. reserved'[l] = Cardinality(Units({p \in Orders : hold'[l][p] = "ACTIVE"}))
    BY <2>3, <2>5 DEF HeldBy
  <2> QED
    BY <2>1, <2>6 DEF ReservedIsHeld, Units
<1>2. CASE ~MaySettle(l, o)
  BY <1>2 DEF Settle, ReservedIsHeld, Units
<1> QED
  BY <1>1, <1>2

LEMMA ReserveReserved ==
    ASSUME DepotTypeOK, ReservedIsHeld, NEW t \in Threads, Reserve(t)
    PROVE  ReservedIsHeld'
<1> DEFINE o == call[t].o
           held == Granted(call[t])
<1>1. o \in Orders /\ Qty[o] \in Nat
  BY CallFields DEF Reserve, Running
<1>2. \A l \in held : hold[l][o] = "NONE"
  BY DEF Granted, Fits
<1>3. \A l \in Lines :
         hold'[l] = IF l \in held THEN [hold[l] EXCEPT ![o] = "ACTIVE"] ELSE hold[l]
  BY DEF Reserve
<1>4. \A l \in Lines : reserved'[l] = reserved[l] + IF l \in held THEN Qty[o] ELSE 0
  BY DEF Reserve
<1> SUFFICES ASSUME NEW l \in Lines
             PROVE  reserved'[l] = Cardinality(Units({p \in Orders : hold'[l][p] = "ACTIVE"}))
  BY DEF ReservedIsHeld, Units
<1>5. reserved[l] = Cardinality(Units(HeldBy(l))) /\ HeldBy(l) \in SUBSET Orders
  BY DEF ReservedIsHeld, HeldBy
<1>6. CASE l \in held
  <2>1. o \notin HeldBy(l)
    BY <1>2, <1>6 DEF HeldBy
  <2>2. hold'[l] = [hold[l] EXCEPT ![o] = "ACTIVE"]
    BY <1>3, <1>6
  <2>3. {p \in Orders : hold'[l][p] = "ACTIVE"} = HeldBy(l) \cup {o}
    BY <1>1, <2>2 DEF DepotTypeOK, HeldBy
  <2>4. reserved'[l] = reserved[l] + Qty[o]
    BY <1>4, <1>6
  <2> QED
    BY <1>1, <1>5, <2>1, <2>3, <2>4, UnitsGained
<1>7. CASE l \notin held
  <2>1. hold'[l] = hold[l]
    BY <1>3, <1>7
  <2>2. reserved'[l] = reserved[l]
    BY <1>4, <1>7 DEF DepotTypeOK
  <2> QED
    BY <1>5, <2>1, <2>2 DEF HeldBy
<1> QED
  BY <1>6, <1>7

LEMMA UnchangedReserved ==
    ASSUME ReservedIsHeld, UNCHANGED <<reserved, hold>>
    PROVE  ReservedIsHeld'
BY DEF ReservedIsHeld, Units

LEMMA CallStepReserved ==
    ASSUME DepotTypeOK, ReservedIsHeld, NEW t \in Threads, CallStep(t) \/ Break(t)
    PROVE  ReservedIsHeld'
<1>1. CASE Reserve(t)
  BY <1>1, ReserveReserved
<1>2. CASE SettleSale(t) \/ Release(t)
  <2>1. call[t] # NoCall
    BY <1>2 DEF SettleSale, Release, Running
  <2>2. PICK l \in call[t].left, status \in {"CONSUMED", "RELEASED"} :
           Settle(l, call[t].o, status)
    BY <1>2 DEF SettleSale, Release
  <2>3. l \in Lines /\ call[t].o \in Orders /\ status \in HoldStatuses \ {"ACTIVE"}
    BY <2>1, <2>2, CallFields DEF HoldStatuses
  <2> QED
    BY <2>2, <2>3, SettleReserved
<1>3. CASE UNCHANGED <<reserved, hold>>
  BY <1>3, UnchangedReserved
<1> QED
  BY <1>1, <1>2, <1>3
     DEF CallStep, Break, CheckHolds, CheckSales, Sell, Restock, NothingToDo, shelf

LEMMA CountReserved ==
    ASSUME ReservedIsHeld, CountStep
    PROVE  ReservedIsHeld'
BY UnchangedReserved DEF CountStep, BeginCount, WriteCount, shelf

LEMMA DepotNextReserved ==
    ASSUME DepotTypeOK, ReservedIsHeld, [DepotNext]_depotVars
    PROVE  ReservedIsHeld'
<1>1. CASE \E t \in Threads : CallStep(t) \/ Break(t)
  BY <1>1, CallStepReserved
<1>2. CASE CountStep
  BY <1>2, CountReserved
<1>3. CASE UNCHANGED <<reserved, hold>>
  BY <1>3, UnchangedReserved
<1> QED
  BY <1>1, <1>2, <1>3 DEF DepotNext, shelf, depotVars

LEMMA DepotInitReserved == DepotInit => ReservedIsHeld
<1> SUFFICES ASSUME DepotInit, NEW l \in Lines
             PROVE  reserved[l] = Cardinality(Units({o \in Orders : hold[l][o] = "ACTIVE"}))
  BY DEF ReservedIsHeld
<1>1. {o \in Orders : hold[l][o] = "ACTIVE"} = {}
  BY DEF DepotInit
<1> QED
  BY <1>1, UnitsOfNone DEF DepotInit

\* settleReservation: whoever settles a hold, and however often, the reserved
\* counter stays the sum of the holds that are still ACTIVE.
THEOREM ReservedCounts == DepotSpec => []ReservedIsHeld
BY DepotInitTyping, DepotNextTyping, DepotInitReserved, DepotNextReserved, PTL DEF DepotSpec

----------------------------------------------------------------------------
(* CA-2-21: LedgerMatchesShelf *)

LEMMA SellLedger ==
    ASSUME DepotTypeOK, LedgerMatchesShelf, NEW t \in Threads, Sell(t)
    PROVE  LedgerMatchesShelf'
<1> DEFINE o == call[t].o
<1>1. o \in Orders /\ Qty[o] \in Nat /\ call[t].left \subseteq Lines
  BY CallFields DEF Sell, Running
<1>2. UNCHANGED net
  BY DEF Sell
<1>3. ASSUME NEW l \in call[t].left, MaySell(l, o),
             quantity' = [quantity EXCEPT ![l] = @ - Qty[o]],
             sold' = [sold EXCEPT ![l] = @ \cup {o}]
      PROVE  LedgerMatchesShelf'
  <2>1. \A k \in Lines : k # l => quantity'[k] = quantity[k] /\ sold'[k] = sold[k]
    BY <1>3 DEF DepotTypeOK
  <2>2. l \in Lines /\ sold[l] \in SUBSET Orders /\ o \notin sold[l]
    BY <1>1, <1>3 DEF DepotTypeOK, MaySell
  <2>3. quantity'[l] = quantity[l] - Qty[o] /\ sold'[l] = sold[l] \cup {o}
    BY <1>3, <2>2 DEF DepotTypeOK
  <2>4. Cardinality(Units(sold[l] \cup {o})) = Cardinality(Units(sold[l])) + Qty[o]
    BY <1>1, <2>2, UnitsGained
  <2>5. Cardinality(Units(sold[l])) \in Nat /\ Stock \in Nat /\ net[l] \in Int
    BY <2>2, UnitsFinite, BoundsAssumption DEF DepotTypeOK
  <2>6. quantity[l] = Stock + net[l] - Cardinality(Units(sold[l]))
    BY <2>2 DEF LedgerMatchesShelf
  <2>7. quantity'[l] = Stock + net[l] - Cardinality(Units(sold'[l]))
    BY <1>1, <2>3, <2>4, <2>5, <2>6
  <2> QED
    BY <1>2, <2>1, <2>7 DEF LedgerMatchesShelf, Units
<1>4. CASE UNCHANGED <<quantity, sold>>
  BY <1>2, <1>4 DEF LedgerMatchesShelf, Units
<1> QED
  BY <1>3, <1>4 DEF Sell

LEMMA MoveLedger ==
    ASSUME DepotTypeOK, LedgerMatchesShelf, NEW l \in Lines, NEW delta \in Int,
           Move(l, delta), UNCHANGED sold
    PROVE  LedgerMatchesShelf'
<1> SUFFICES ASSUME NEW k \in Lines
             PROVE  quantity'[k] = Stock + net'[k] - Cardinality(Units(sold[k]))
  BY DEF LedgerMatchesShelf, Units
<1>1. quantity[k] = Stock + net[k] - Cardinality(Units(sold[k]))
  BY DEF LedgerMatchesShelf
<1>2. Cardinality(Units(sold[k])) \in Nat /\ Stock \in Nat /\ net[k] \in Int
  BY UnitsFinite, BoundsAssumption DEF DepotTypeOK
<1>3. CASE k = l
  BY <1>1, <1>2, <1>3 DEF DepotTypeOK, Move
<1>4. CASE k # l
  BY <1>1, <1>4 DEF DepotTypeOK, Move
<1> QED
  BY <1>3, <1>4

LEMMA UnchangedLedger ==
    ASSUME LedgerMatchesShelf, UNCHANGED <<quantity, net, sold>>
    PROVE  LedgerMatchesShelf'
BY DEF LedgerMatchesShelf, Units

LEMMA RestockLedger ==
    ASSUME DepotTypeOK, LedgerMatchesShelf, NEW t \in Threads, Restock(t)
    PROVE  LedgerMatchesShelf'
<1>1. call[t].left \subseteq Lines /\ Qty[call[t].o] \in Int
  BY CallFields DEF Restock, Running
<1> QED
  BY <1>1, MoveLedger, UnchangedLedger DEF Restock

LEMMA CountLedger ==
    ASSUME DepotTypeOK, LedgerMatchesShelf, CountStep
    PROVE  LedgerMatchesShelf'
<1>1. ASSUME NEW c \in counts, WriteCount(c)
      PROVE  LedgerMatchesShelf'
  <2>1. c.line \in Lines /\ c.delta \in Int
    BY DEF DepotTypeOK, Count
  <2> QED
    BY <1>1, <2>1, MoveLedger, UnchangedLedger DEF WriteCount
<1>2. ASSUME NEW l, NEW target, BeginCount(l, target)
      PROVE  LedgerMatchesShelf'
  BY <1>2, UnchangedLedger DEF BeginCount, shelf
<1> QED
  BY <1>1, <1>2 DEF CountStep

LEMMA CallStepLedger ==
    ASSUME DepotTypeOK, LedgerMatchesShelf, NEW t \in Threads, CallStep(t) \/ Break(t)
    PROVE  LedgerMatchesShelf'
<1>1. CASE Sell(t) \/ Restock(t)
  BY <1>1, SellLedger, RestockLedger
<1>2. CASE UNCHANGED <<quantity, net, sold>>
  BY <1>2, UnchangedLedger
<1> QED
  BY <1>1, <1>2
     DEF CallStep, Break, CheckHolds, CheckSales, Reserve, SettleSale, Release, NothingToDo, shelf

LEMMA DepotNextLedger ==
    ASSUME DepotTypeOK, LedgerMatchesShelf, [DepotNext]_depotVars
    PROVE  LedgerMatchesShelf'
<1>1. CASE \E t \in Threads : CallStep(t) \/ Break(t)
  BY <1>1, CallStepLedger
<1>2. CASE CountStep
  BY <1>2, CountLedger
<1>3. CASE UNCHANGED <<quantity, net, sold>>
  BY <1>3, UnchangedLedger
<1> QED
  BY <1>1, <1>2, <1>3 DEF DepotNext, shelf, depotVars

LEMMA DepotInitLedger == DepotInit => LedgerMatchesShelf
BY UnitsOfNone, BoundsAssumption DEF DepotInit, LedgerMatchesShelf

\* applyMovement: the shelf is what it was at the start, plus the movements that
\* are not sales, less one sale per order, whatever retries and corrections ran.
THEOREM LedgerBalances == DepotSpec => []LedgerMatchesShelf
BY DepotInitTyping, DepotNextTyping, DepotInitLedger, DepotNextLedger, PTL DEF DepotSpec

----------------------------------------------------------------------------
(* Action properties *)

BelowZeroBySale ==
    \A l \in Lines : quantity'[l] < quantity[l] /\ quantity'[l] < 0 => sold'[l] # sold[l]

LEMMA MoveStaysUp ==
    ASSUME DepotTypeOK, NEW k \in Lines, NEW delta \in Int, Move(k, delta),
           delta >= 0 \/ Floored(k, delta),
           NEW l \in Lines
    PROVE  quantity'[l] >= quantity[l] \/ quantity'[l] >= 0
<1>1. quantity[l] \in Int
  BY DEF DepotTypeOK
<1>2. CASE k = l
  <2>1. quantity'[l] = quantity[l] + delta
    BY <1>2 DEF DepotTypeOK, Move
  <2> QED
    BY <1>1, <1>2, <2>1 DEF Floored
<1>3. CASE k # l
  <2>1. quantity'[l] = quantity[l]
    BY <1>3 DEF DepotTypeOK, Move
  <2> QED
    BY <1>1, <2>1
<1> QED
  BY <1>2, <1>3

LEMMA CallStepFloor ==
    ASSUME DepotTypeOK, NEW t \in Threads, CallStep(t) \/ Break(t)
    PROVE  BelowZeroBySale
<1> SUFFICES ASSUME NEW l \in Lines, quantity'[l] < quantity[l], quantity'[l] < 0
             PROVE  sold'[l] # sold[l]
  BY DEF BelowZeroBySale
<1>1. quantity[l] \in Int
  BY DEF DepotTypeOK
<1>2. DepotTypeOK'
  BY CallStepTyping, EndTyping
<1>3. quantity'[l] \in Int
  BY <1>2 DEF DepotTypeOK
<1>4. CASE Sell(t)
  <2>1. PICK k \in call[t].left :
           \/ /\ MaySell(k, call[t].o)
              /\ quantity' = [quantity EXCEPT ![k] = @ - Qty[call[t].o]]
              /\ sold' = [sold EXCEPT ![k] = @ \cup {call[t].o}]
           \/ UNCHANGED quantity
    BY <1>4 DEF Sell
  <2>2. ~UNCHANGED quantity
    BY <1>1
  <2>3. k = l
    BY <1>1, <2>1, <2>2 DEF DepotTypeOK
  <2> QED
    BY <2>1, <2>2, <2>3 DEF DepotTypeOK, MaySell
<1>5. CASE Restock(t)
  <2>1. call[t].left \subseteq Lines /\ Qty[call[t].o] \in Nat
    BY <1>5, CallFields DEF Restock, Running
  <2>2. PICK k \in call[t].left : Move(k, Qty[call[t].o]) \/ UNCHANGED quantity
    BY <1>5 DEF Restock
  <2>3. CASE UNCHANGED quantity
    BY <1>1, <2>3
  <2>4. CASE Move(k, Qty[call[t].o])
    <3>1. quantity'[l] >= quantity[l] \/ quantity'[l] >= 0
      BY <2>1, <2>4, MoveStaysUp
    <3> QED
      BY <1>1, <1>3, <3>1
  <2> QED
    BY <2>2, <2>3, <2>4
<1>6. CASE UNCHANGED quantity
  BY <1>1, <1>6
<1> QED
  BY <1>4, <1>5, <1>6
     DEF CallStep, Break, CheckHolds, CheckSales, Reserve, SettleSale, Release, NothingToDo, shelf

LEMMA CountFloor ==
    ASSUME DepotTypeOK, CountStep
    PROVE  BelowZeroBySale
<1> SUFFICES ASSUME NEW l \in Lines, quantity'[l] < quantity[l], quantity'[l] < 0
             PROVE  FALSE
  BY DEF BelowZeroBySale
<1>1. quantity[l] \in Int /\ quantity'[l] \in Int
  BY CountTyping DEF DepotTypeOK
<1>2. ~UNCHANGED quantity
  BY <1>1
<1>3. PICK c \in counts : Floored(c.line, c.delta) /\ Move(c.line, c.delta)
  BY <1>2 DEF CountStep, BeginCount, WriteCount, shelf
<1>4. c.line \in Lines /\ c.delta \in Int
  BY DEF DepotTypeOK, Count
<1>5. quantity'[l] >= quantity[l] \/ quantity'[l] >= 0
  BY <1>3, <1>4, MoveStaysUp
<1> QED
  BY <1>1, <1>5

LEMMA DepotNextFloor ==
    ASSUME DepotTypeOK, [DepotNext]_depotVars
    PROVE  BelowZeroBySale
<1>1. CASE \E t \in Threads : CallStep(t) \/ Break(t)
  BY <1>1, CallStepFloor
<1>2. CASE CountStep
  BY <1>2, CountFloor
<1>3. CASE UNCHANGED quantity
  BY <1>3 DEF DepotTypeOK, BelowZeroBySale
<1> QED
  BY <1>1, <1>2, <1>3 DEF DepotNext, shelf, depotVars

\* applyMovement's floor: a correction computed from a count that sales have
\* overtaken does not take the shelf below zero; only a sale does.
THEOREM BelowZeroOnlyBySale == DepotSpec => OnlySalesGoBelowZero
<1>1. DepotTypeOK /\ [DepotNext]_depotVars => [BelowZeroBySale]_depotVars
  BY DepotNextFloor
<1> QED
  BY <1>1, DepotTyping, PTL DEF DepotSpec, OnlySalesGoBelowZero, BelowZeroBySale

=============================================================================
