-------------------------- MODULE FulfilmentProofs --------------------------
(***************************************************************************)
(* Proofs about Fulfilment, for every set of orders, lines, depots and     *)
(* requests at work.  What depot-service does by itself comes from the     *)
(* lemmas of DepotStockProofs.                                             *)
(***************************************************************************)
EXTENDS Fulfilment, DepotStockProofs, TLAPS

----------------------------------------------------------------------------
(* Type correctness *)

LEMMA CallTyping ==
    ASSUME DepotTypeOK, call' \in [Threads -> Call \cup {NoCall}], ShelfKept
    PROVE  DepotTypeOK'
BY DEF DepotTypeOK, ShelfKept, shelf

LEMMA DoneTyping ==
    ASSUME TypeOK, NEW t \in Threads, Done(t)
    PROVE  job' \in [Threads -> Job \cup {NoJob}]
BY DEF TypeOK, Done

LEMMA GotoTyping ==
    ASSUME TypeOK, NEW t \in Threads, job[t] # NoJob, NEW step \in Steps, Goto(t, step)
    PROVE  job' \in [Threads -> Job \cup {NoJob}]
<1>1. [job[t] EXCEPT !.at = step] \in Job
  BY DEF TypeOK, Job
<1>2. job' = [job EXCEPT ![t] = [job[t] EXCEPT !.at = step]]
  BY DEF TypeOK, Goto
<1> QED
  BY <1>1, <1>2 DEF TypeOK

LEMMA BeginTyping ==
    ASSUME TypeOK, NEW t \in Threads, NEW j \in Job, Begin(t, j)
    PROVE  job' \in [Threads -> Job \cup {NoJob}]
BY DEF TypeOK, Begin

LEMMA NewJobTyping ==
    ASSUME TypeOK, NEW op \in Ops, NEW o \in Orders, NEW at \in Steps, NEW to \in Statuses
    PROVE  NewJob(op, o, at, to) \in Job
<1>1. order[o] \in OrderRow
  BY DEF TypeOK
<1> QED
  BY <1>1 DEF NewJob, Job, OrderRow, Topics

\* How a job goes on: it ends, it waits at its next step, or it takes a row up.
TakesRow(t) ==
    /\ At(t, "due")
    /\ \E k \in Topics :
          job' = [job EXCEPT ![t].at = "deliver", ![t].topic = k, ![t].tries = row[job[t].o][k].tries]
FindsDepot(t) ==
    /\ At(t, "write")
    /\ job' = [job EXCEPT ![t].at = "due", ![t].d = order[job[t].o].depot]
GoesOn(t) ==
    \/ UNCHANGED job \/ Done(t) \/ TakesRow(t) \/ FindsDepot(t)
    \/ job[t] # NoJob /\ \E step \in Steps : Goto(t, step)

LEMMA GoesOnTyping ==
    ASSUME TypeOK, NEW t \in Threads, GoesOn(t)
    PROVE  job' \in [Threads -> Job \cup {NoJob}]
<1>1. CASE TakesRow(t)
  <2>1. job[t] # NoJob /\ job[t] \in Job
    BY <1>1 DEF TypeOK, TakesRow, At
  <2>2. PICK k \in Topics :
           job' = [job EXCEPT ![t].at = "deliver", ![t].topic = k, ![t].tries = row[job[t].o][k].tries]
    BY <1>1 DEF TakesRow
  <2>3. row[job[t].o][k] \in OutboxRow
    BY <2>1 DEF TypeOK, Job
  <2>4. [job[t] EXCEPT !.at = "deliver", !.topic = k, !.tries = row[job[t].o][k].tries] \in Job
    BY <2>1, <2>3 DEF Job, OutboxRow, Steps
  <2>5. job' = [job EXCEPT ![t] =
                  [job[t] EXCEPT !.at = "deliver", !.topic = k, !.tries = row[job[t].o][k].tries]]
    BY <2>2 DEF TypeOK
  <2> QED
    BY <2>4, <2>5 DEF TypeOK
<1>2. CASE FindsDepot(t)
  <2>1. job[t] # NoJob /\ job[t] \in Job
    BY <1>2 DEF TypeOK, FindsDepot, At
  <2>2. order[job[t].o] \in OrderRow
    BY <2>1 DEF TypeOK, Job
  <2>3. [job[t] EXCEPT !.at = "due", !.d = order[job[t].o].depot] \in Job
    BY <2>1, <2>2 DEF Job, OrderRow, Steps
  <2>4. job' = [job EXCEPT ![t] = [job[t] EXCEPT !.at = "due", !.d = order[job[t].o].depot]]
    BY <1>2 DEF TypeOK, FindsDepot
  <2> QED
    BY <2>3, <2>4 DEF TypeOK
<1>3. CASE UNCHANGED job
  BY <1>3 DEF TypeOK
<1> QED
  BY <1>1, <1>2, <1>3, DoneTyping, GotoTyping DEF GoesOn

\* What a job says to depot-service: it asks, takes the answer, or is silent.
Speaks(t) ==
    \/ UNCHANGED call \/ Return(t)
    \/ job[t] # NoJob /\ \E op \in CallOps, d \in Depots \cup {NoDepot} : Ask(t, op, job[t].o, d)

LEMMA SpeaksTyping ==
    ASSUME TypeOK, NEW t \in Threads, Speaks(t)
    PROVE  call' \in [Threads -> Call \cup {NoCall}]
<1>1. DepotTypeOK
  BY DEF TypeOK
<1>2. ASSUME NEW op \in CallOps, NEW d, job[t] # NoJob, Ask(t, op, job[t].o, d)
      PROVE  call' \in [Threads -> Call \cup {NoCall}]
  <2>1. job[t].o \in Orders
    BY <1>2 DEF TypeOK, Job
  <2> QED
    BY <1>1, <1>2, <2>1, AskTyping
<1> QED
  BY <1>1, <1>2, ReturnTyping DEF Speaks, DepotTypeOK

LEMMA JobStepGoesOn ==
    ASSUME TypeOK, NEW t \in Threads, JobStep(t)
    PROVE  GoesOn(t)
<1>1. CASE Reserved(t) \/ Create(t) \/ Route(t) \/ ReleaseLostHold(t) \/ Drop(t)
  BY <1>1 DEF Reserved, Create, Route, ReleaseLostHold, Drop, At, Wait, GoesOn, Steps
<1>2. CASE ApplyStatus(t)
  BY <1>2 DEF ApplyStatus, At, DepotToRelease, GoesOn, FindsDepot
<1>3. CASE Due(t)
  BY <1>3 DEF Due, At, Proceed, GoesOn, TakesRow, Steps
<1>4. CASE Deliver(t) \/ ConsumeStock(t) \/ Consumed(t) \/ ReversePayment(t)
  BY <1>4 DEF Deliver, ConsumeStock, Consumed, ReversePayment, At, Wait, GoesOn, Steps
<1>5. CASE MarkDone(t) \/ MarkFailed(t)
  BY <1>5 DEF MarkDone, MarkFailed, At, Proceed, GoesOn, Steps
<1>6. CASE PayBack(t) \/ VoidWalkIn(t) \/ CallOff(t) \/ Finish(t) \/ Abandoned(t)
  BY <1>6 DEF PayBack, VoidWalkIn, CallOff, Finish, Abandoned, At, Wait, GoesOn, Steps
<1> QED
  BY <1>1, <1>2, <1>3, <1>4, <1>5, <1>6 DEF JobStep

LEMMA JobStepSpeaks ==
    ASSUME TypeOK, NEW t \in Threads, JobStep(t)
    PROVE  Speaks(t) /\ ShelfKept
<1>1. job[t] # NoJob =>
         /\ job[t].d \in Depots \cup {NoDepot} /\ job[t].from \in Depots \cup {NoDepot}
         /\ order[job[t].o].depot \in Depots \cup {NoDepot}
  BY DEF TypeOK, Job, OrderRow
<1>2. CASE Reserved(t) \/ Create(t) \/ Route(t) \/ ReleaseLostHold(t) \/ Drop(t)
  BY <1>1, <1>2
     DEF Reserved, Create, Route, DepotLeft, ReleaseLostHold, Drop, At, Wait, Speaks, CallOps, ShelfKept
<1>3. CASE ApplyStatus(t) \/ Due(t) \/ Deliver(t) \/ ReversePayment(t) \/ MarkDone(t) \/ MarkFailed(t)
  BY <1>3 DEF ApplyStatus, Due, Deliver, ReversePayment, MarkDone, MarkFailed, NoCallMade, Speaks, ShelfKept
<1>4. CASE ConsumeStock(t) \/ Consumed(t)
  BY <1>1, <1>4 DEF ConsumeStock, Consumed, At, Wait, Speaks, CallOps, ShelfKept
<1>5. CASE PayBack(t) \/ VoidWalkIn(t) \/ CallOff(t)
  BY <1>1, <1>5 DEF PayBack, VoidWalkIn, CallOff, NoCallMade, At, Wait, Speaks, CallOps, ShelfKept
<1>6. CASE Finish(t) \/ Abandoned(t)
  BY <1>6 DEF Finish, Abandoned, Speaks, ShelfKept
<1> QED
  BY <1>2, <1>3, <1>4, <1>5, <1>6 DEF JobStep

\* What a row of the outbox becomes, and when it may come to be.
Owes(status, k) ==
    \/ k = "INVENTORY_CONSUME" /\ status = "COMPLETED"
    \/ k = "PAYMENT_REVERSAL" /\ status = "CANCELLED"
RowMove(o, k) ==
    IF row[o][k].state = "NONE"
    THEN row'[o][k].state = "NONE" \/ Owes(order'[o].status, k)
    ELSE row'[o][k].state # "NONE"
RowsMove ==
    /\ row' \in [Orders -> [Topics -> OutboxRow]]
    /\ \A o \in Orders, k \in Topics : RowMove(o, k)

LEMMA OneRowMoves ==
    ASSUME TypeOK, NEW o \in Orders, NEW k \in Topics, NEW r \in OutboxRow,
           row' = [row EXCEPT ![o] = [row[o] EXCEPT ![k] = r]],
           IF row[o][k].state = "NONE"
           THEN r.state = "NONE" \/ Owes(order'[o].status, k) ELSE r.state # "NONE"
    PROVE  RowsMove
<1>1. row \in [Orders -> [Topics -> OutboxRow]]
  BY DEF TypeOK
<1>2. row' \in [Orders -> [Topics -> OutboxRow]]
  BY <1>1
<1>3. ASSUME NEW p \in Orders, NEW m \in Topics
      PROVE  RowMove(p, m)
  BY <1>1, <1>3 DEF RowMove
<1> QED
  BY <1>2, <1>3 DEF RowsMove

LEMMA OutboxKept ==
    ASSUME TypeOK, UNCHANGED row
    PROVE  RowsMove
BY DEF TypeOK, RowsMove, RowMove

LEMMA CreateRows ==
    ASSUME TypeOK, NEW t \in Threads, Create(t)
    PROVE  /\ RowsMove /\ order' \in [Orders -> OrderRow]
           /\ \/ UNCHANGED order
              \/ /\ order' = [order EXCEPT ![job[t].o] = order'[job[t].o]]
                 /\ order'[job[t].o].kind = order[job[t].o].kind
                 /\ order'[job[t].o].status \in {"CREATED", "CONFIRMED", "COMPLETED"}
                 /\ order'[job[t].o].status = "COMPLETED" <=> order[job[t].o].kind = "counter"
                 /\ order'[job[t].o].depot = job[t].d
           /\ order'[job[t].o].status = "COMPLETED" /\ order[job[t].o].status # "COMPLETED" =>
                 row'[job[t].o]["INVENTORY_CONSUME"].state # "NONE"
<1>1. PICK o \in Orders : o = job[t].o
  BY DEF TypeOK, Create, At, Job
<1>2. /\ order \in [Orders -> OrderRow] /\ order[o] \in OrderRow
      /\ row \in [Orders -> [Topics -> OutboxRow]] /\ row[o]["INVENTORY_CONSUME"] \in OutboxRow
      /\ job[t] \in Job
  BY DEF TypeOK, Create, At, Topics
<1>3. CASE UNCHANGED <<order, row>>
  BY <1>1, <1>2, <1>3, OutboxKept
<1>4. ASSUME NEW status \in {"CREATED", "CONFIRMED", "COMPLETED"},
             status = "COMPLETED" <=> order[o].kind = "counter",
             order' = [order EXCEPT ![o].status = status, ![o].depot = job[t].d],
             IF status = "COMPLETED" THEN Owe(o, "INVENTORY_CONSUME") ELSE UNCHANGED row
      PROVE  /\ RowsMove /\ order' \in [Orders -> OrderRow]
             /\ order' = [order EXCEPT ![o] = order'[o]]
             /\ order'[o].kind = order[o].kind /\ order'[o].status = status /\ order'[o].depot = job[t].d
             /\ status = "COMPLETED" => row'[o]["INVENTORY_CONSUME"].state # "NONE"
  <2> DEFINE r == [order[o] EXCEPT !.status = status, !.depot = job[t].d]
             w == [row[o]["INVENTORY_CONSUME"] EXCEPT !.state = "PENDING"]
  <2>1. r \in OrderRow /\ r.kind = order[o].kind /\ r.status = status /\ r.depot = job[t].d
    BY <1>2 DEF OrderRow, Job, Statuses
  <2>2. order' = [order EXCEPT ![o] = r]
    BY <1>2, <1>4
  <2>3. w \in OutboxRow /\ w.state = "PENDING"
    BY <1>2 DEF OutboxRow
  <2> HIDE DEF r, w
  <2>4. order' \in [Orders -> OrderRow] /\ order'[o] = r
    BY <1>2, <2>1, <2>2
  <2>5. CASE status = "COMPLETED"
    <3>1. row' = [row EXCEPT ![o] = [row[o] EXCEPT !["INVENTORY_CONSUME"] = w]]
      BY <1>2, <1>4, <2>5 DEF Owe, w
    <3>2. "INVENTORY_CONSUME" \in Topics /\ Owes(order'[o].status, "INVENTORY_CONSUME")
      BY <2>1, <2>4, <2>5 DEF Topics, Owes
    <3>3. RowsMove
      BY <2>3, <3>1, <3>2, OneRowMoves
    <3>4. row'[o]["INVENTORY_CONSUME"] = w
      BY <1>2, <3>1, <3>2
    <3> QED
      BY <2>1, <2>2, <2>3, <2>4, <3>3, <3>4
  <2>6. CASE status # "COMPLETED"
    BY <1>4, <2>1, <2>2, <2>4, <2>6, OutboxKept
  <2> QED
    BY <2>5, <2>6
<1> DEFINE status == CASE order[o].kind = "delivery" -> "CONFIRMED"
                       [] order[o].kind = "counter" -> "COMPLETED"
                       [] OTHER -> "CREATED"
<1>5. status \in {"CREATED", "CONFIRMED", "COMPLETED"} /\ (status = "COMPLETED" <=> order[o].kind = "counter")
  OBVIOUS
<1>6. \/ UNCHANGED <<order, row>>
      \/ /\ order' = [order EXCEPT ![o].status = status, ![o].depot = job[t].d]
         /\ IF status = "COMPLETED" THEN Owe(o, "INVENTORY_CONSUME") ELSE UNCHANGED row
  BY <1>1 DEF Create
<1> HIDE DEF status
<1> QED
  BY <1>1, <1>3, <1>4, <1>5, <1>6

LEMMA ApplyStatusRows ==
    ASSUME TypeOK, NEW t \in Threads, ApplyStatus(t)
    PROVE  /\ RowsMove /\ order' \in [Orders -> OrderRow]
           /\ \/ UNCHANGED order
              \/ /\ order' = [order EXCEPT ![job[t].o] = order'[job[t].o]]
                 /\ order'[job[t].o].kind = order[job[t].o].kind
                 /\ order[job[t].o].status = job[t].seen /\ order'[job[t].o].status = job[t].to
                 /\ order'[job[t].o].depot = order[job[t].o].depot
                 /\ job[t].to = "COMPLETED" /\ job[t].from # NoDepot =>
                       row'[job[t].o]["INVENTORY_CONSUME"].state # "NONE"
<1>1. PICK o \in Orders : o = job[t].o
  BY DEF TypeOK, ApplyStatus, At, Job
<1>2. /\ order \in [Orders -> OrderRow] /\ order[o] \in OrderRow
      /\ row \in [Orders -> [Topics -> OutboxRow]] /\ row[o] \in [Topics -> OutboxRow]
      /\ job[t] \in Job
  BY DEF TypeOK, ApplyStatus, At
<1>3. CASE UNCHANGED <<order, row>>
  BY <1>1, <1>2, <1>3, OutboxKept
<1>4. CASE StillIs(job[t])
  <2> DEFINE j == job[t]
             within == order[o].dispatched \/ j.to \in Dispatched
             r == [order[o] EXCEPT !.status = j.to, !.dispatched = within]
             w == [k \in Topics |-> IF k \in Earned(j) THEN [row[o][k] EXCEPT !.state = "PENDING"]
                                                       ELSE row[o][k]]
  <2>1. within \in BOOLEAN
    BY <1>2 DEF OrderRow
  <2>2. r \in OrderRow /\ r.kind = order[o].kind /\ r.status = j.to /\ r.depot = order[o].depot
    <3> HIDE DEF within
    <3> QED
      BY <1>2, <2>1 DEF OrderRow, Job
  <2>3. order' = [order EXCEPT ![o] = r] /\ row' = [row EXCEPT ![o] = w]
    BY <1>1, <1>2, <1>4 DEF ApplyStatus
  <2>4. w \in [Topics -> OutboxRow]
    BY <1>2 DEF OutboxRow
  <2>5. \A k \in Topics : w[k].state = IF k \in Earned(j) THEN "PENDING" ELSE row[o][k].state
    BY <1>2 DEF OutboxRow
  <2>6. \A k \in Topics : k \in Earned(j) => Owes(j.to, k)
    BY DEF Earned, Owes
  <2>7. j.to = "COMPLETED" /\ j.from # NoDepot => "INVENTORY_CONSUME" \in Earned(j) /\ "INVENTORY_CONSUME" \in Topics
    BY DEF Earned, Topics
  <2>8. order[o].status = j.seen
    BY <1>1, <1>4 DEF StillIs
  <2> HIDE DEF j, r, w, within
  <2>9. order' \in [Orders -> OrderRow] /\ order'[o] = r /\ row' \in [Orders -> [Topics -> OutboxRow]] /\ row'[o] = w
    BY <1>2, <2>2, <2>3, <2>4
  <2>10. ASSUME NEW p \in Orders, NEW k \in Topics
         PROVE  RowMove(p, k)
    <3>1. CASE p = o
      BY <2>2, <2>5, <2>6, <2>9, <3>1 DEF RowMove
    <3>2. CASE p # o
      BY <1>2, <2>3, <3>2 DEF RowMove
    <3> QED
      BY <3>1, <3>2
  <2>11. RowsMove
    BY <2>9, <2>10 DEF RowsMove
  <2>12. j.to = "COMPLETED" /\ j.from # NoDepot => row'[o]["INVENTORY_CONSUME"].state # "NONE"
    BY <2>5, <2>7, <2>9
  <2> QED
    BY <1>1, <2>2, <2>3, <2>8, <2>9, <2>11, <2>12 DEF j
<1> QED
  BY <1>3, <1>4 DEF ApplyStatus

LEMMA RouteOrder ==
    ASSUME TypeOK, NEW t \in Threads, Route(t)
    PROVE  /\ RowsMove /\ order' \in [Orders -> OrderRow]
           /\ \/ UNCHANGED order
              \/ /\ MayRoute(job[t])
                 /\ order' = [order EXCEPT ![job[t].o] = order'[job[t].o]]
                 /\ order'[job[t].o].kind = order[job[t].o].kind
                 /\ order'[job[t].o].status = order[job[t].o].status
                 /\ order'[job[t].o].depot = job[t].d
<1>1. RowsMove
  BY OutboxKept DEF Route
<1>2. /\ job[t].o \in Orders /\ order[job[t].o] \in OrderRow /\ order \in [Orders -> OrderRow]
      /\ job[t] \in Job
  BY DEF TypeOK, Route, At, Job
<1>3. CASE UNCHANGED order
  BY <1>1, <1>2, <1>3
<1>4. CASE MayRoute(job[t])
  <2> DEFINE r == [order[job[t].o] EXCEPT !.depot = job[t].d]
  <2>1. r \in OrderRow /\ r.kind = order[job[t].o].kind /\ r.status = order[job[t].o].status
        /\ r.depot = job[t].d
    BY <1>2 DEF OrderRow, Job
  <2>2. order' = [order EXCEPT ![job[t].o] = r]
    BY <1>2, <1>4 DEF Route
  <2> HIDE DEF r
  <2> QED
    BY <1>1, <1>2, <1>4, <2>1, <2>2
<1> QED
  BY <1>3, <1>4 DEF Route

LEMMA VoidOrder ==
    ASSUME TypeOK, NEW t \in Threads, VoidWalkIn(t)
    PROVE  /\ RowsMove /\ order' \in [Orders -> OrderRow]
           /\ \/ UNCHANGED order /\ order[job[t].o].status # "COMPLETED"
              \/ /\ order[job[t].o].status = "COMPLETED"
                 /\ order' = [order EXCEPT ![job[t].o] = order'[job[t].o]]
                 /\ order'[job[t].o].kind = order[job[t].o].kind
                 /\ order'[job[t].o].status = "VOIDED"
                 /\ order'[job[t].o].depot = order[job[t].o].depot
<1>1. RowsMove
  BY OutboxKept DEF VoidWalkIn
<1>2. job[t].o \in Orders /\ order[job[t].o] \in OrderRow /\ order \in [Orders -> OrderRow]
  BY DEF TypeOK, VoidWalkIn, At, Job
<1>3. CASE ~MayVoid(job[t].o)
  BY <1>1, <1>2, <1>3 DEF VoidWalkIn, MayVoid
<1>4. CASE MayVoid(job[t].o)
  <2> DEFINE r == [order[job[t].o] EXCEPT !.status = "VOIDED"]
  <2>1. r \in OrderRow /\ r.kind = order[job[t].o].kind /\ r.status = "VOIDED"
        /\ r.depot = order[job[t].o].depot
    BY <1>2 DEF OrderRow, Statuses
  <2>2. order' = [order EXCEPT ![job[t].o] = r]
    BY <1>2, <1>4 DEF VoidWalkIn
  <2> HIDE DEF r
  <2> QED
    BY <1>1, <1>2, <1>4, <2>1, <2>2 DEF MayVoid
<1> QED
  BY <1>3, <1>4

LEMMA MarksRows ==
    ASSUME TypeOK, NEW t \in Threads, MarkDone(t) \/ MarkFailed(t)
    PROVE  RowsMove
<1>1. job[t] \in Job
  BY DEF TypeOK, MarkDone, MarkFailed, At
<1> DEFINE o == job[t].o
           k == job[t].topic
           dead == Exhausted(job[t])
           done == [row[o][k] EXCEPT !.state = "DONE"]
           failed == [state |-> IF dead THEN "DEAD" ELSE "PENDING", tries |-> row[o][k].tries + 1]
<1>2. o \in Orders /\ k \in Topics /\ row[o][k] \in OutboxRow /\ row \in [Orders -> [Topics -> OutboxRow]]
  BY <1>1 DEF TypeOK, Job
<1>3. CASE UNCHANGED row
  BY <1>3, OutboxKept
<1>4. CASE Owed(job[t]) /\ MarkDone(t)
  <2>1. row' = [row EXCEPT ![o] = [row[o] EXCEPT ![k] = done]]
    BY <1>2, <1>4 DEF MarkDone
  <2>2. done \in OutboxRow /\ done.state # "NONE" /\ row[o][k].state # "NONE"
    BY <1>2, <1>4 DEF OutboxRow, Owed
  <2> QED
    BY <1>2, <2>1, <2>2, OneRowMoves
<1>5. CASE Owed(job[t]) /\ MarkFailed(t)
  <2>1. row' = [row EXCEPT ![o] = [row[o] EXCEPT ![k] = failed]]
    BY <1>2, <1>5 DEF MarkFailed
  <2>2. failed \in OutboxRow /\ failed.state # "NONE" /\ row[o][k].state # "NONE"
    <3> HIDE DEF dead
    <3> QED
      BY <1>2, <1>5 DEF OutboxRow, Owed
  <2> QED
    BY <1>2, <2>1, <2>2, OneRowMoves
<1> QED
  BY <1>3, <1>4, <1>5 DEF MarkDone, MarkFailed

LEMMA CallOffRows ==
    ASSUME TypeOK, NEW t \in Threads, CallOff(t)
    PROVE  RowsMove
<1>1. job[t] \in Job
  BY DEF TypeOK, CallOff, At
<1> DEFINE o == job[t].o
           k == "INVENTORY_CONSUME"
           r == [row[o][k] EXCEPT !.state = IF @ = "PENDING" THEN "CANCELLED" ELSE @]
<1>2. o \in Orders /\ k \in Topics /\ row[o][k] \in OutboxRow /\ row \in [Orders -> [Topics -> OutboxRow]]
  BY <1>1 DEF TypeOK, Job, Topics
<1>3. CASE UNCHANGED row
  BY <1>3, OutboxKept
<1>4. CASE row' = [row EXCEPT ![o][k].state = IF @ = "PENDING" THEN "CANCELLED" ELSE @]
  <2>1. row' = [row EXCEPT ![o] = [row[o] EXCEPT ![k] = r]]
    BY <1>2, <1>4
  <2>2. r \in OutboxRow /\ (r.state = "NONE" <=> row[o][k].state = "NONE")
    BY <1>2 DEF OutboxRow
  <2> QED
    BY <1>2, <2>1, <2>2, OneRowMoves
<1> QED
  BY <1>3, <1>4 DEF CallOff

LEMMA JobStepRows ==
    ASSUME TypeOK, NEW t \in Threads, JobStep(t)
    PROVE  RowsMove /\ order' \in [Orders -> OrderRow]
<1>1. CASE Create(t) \/ ApplyStatus(t) \/ Route(t) \/ VoidWalkIn(t)
  BY <1>1, CreateRows, ApplyStatusRows, RouteOrder, VoidOrder
<1>2. CASE MarkDone(t) \/ MarkFailed(t) \/ CallOff(t)
  <2>1. RowsMove
    BY <1>2, MarksRows, CallOffRows
  <2>2. UNCHANGED order
    BY <1>2 DEF MarkDone, MarkFailed, CallOff
  <2> QED
    BY <2>1, <2>2 DEF TypeOK
<1>3. CASE \/ Reserved(t) \/ ReleaseLostHold(t) \/ Drop(t) \/ Due(t) \/ Deliver(t)
           \/ ConsumeStock(t) \/ Consumed(t) \/ Finish(t) \/ Abandoned(t)
           \/ ReversePayment(t) \/ PayBack(t)
  <2>1. UNCHANGED <<order, row>>
    BY <1>3 DEF Reserved, ReleaseLostHold, Drop, Due, Deliver, ConsumeStock, Consumed, Finish,
                Abandoned, ReversePayment, PayBack, orders
  <2> QED
    BY <2>1, OutboxKept DEF TypeOK
<1> QED
  BY <1>1, <1>2, <1>3 DEF JobStep

\* A request as it begins, and what it has read of its order.
BegunAs(j, o) ==
    /\ j.o = o /\ j.seen = order[o].status /\ j.from = order[o].depot
    /\ \/ /\ j.op = "checkout" /\ j.at = "reserve" /\ j.to = "CREATED" /\ j.d \in Depots
          /\ order[o].status = "NONE" /\ ~Busy(o) /\ \A l \in Lines : hold[l][o] = "NONE"
       \/ /\ j.op = "assign" /\ j.at = "reserve" /\ j.to = "CREATED" /\ j.d \in Depots
          /\ order[o].status # "NONE" /\ order[o].depot = NoDepot
       \/ /\ j.op = "reroute" /\ j.at = "reserve" /\ j.to = "CREATED" /\ j.d \in Depots
          /\ order[o].status \in Reroutable /\ order[o].depot \notin {NoDepot, j.d}
          /\ moves[o] < MaxMoves
       \/ /\ j.op \in {"advance", "cancel", "expire"} /\ j.at = "write" /\ j.d = j.from
          /\ CanTransition(order[o].status, j.to)
       \/ /\ j.op = "void" /\ j.at = "payBack" /\ j.to = "VOIDED"
          /\ order[o].kind \in RungUp /\ order[o].status \notin {"NONE", "VOIDED"}
       \/ /\ j.op = "sweep" /\ j.at = "deliver" /\ j.to = "NONE"
          /\ row[o][j.topic].state = "PENDING"
Begins(t, j) ==
    /\ job[t] = NoJob /\ call[t] = NoCall
    /\ job' = [job EXCEPT ![t] = j]
    /\ IF j.at = "reserve" THEN Ask(t, "reserve", j.o, j.d) ELSE UNCHANGED call
    /\ ShelfKept /\ UNCHANGED <<order, row, moneyBack>>
    /\ moves' = IF j.op = "reroute" THEN [moves EXCEPT ![j.o] = @ + 1] ELSE moves

LEMMA NewJobFields ==
    ASSUME NEW op, NEW o, NEW at, NEW to
    PROVE  LET j == NewJob(op, o, at, to) IN
           /\ j.op = op /\ j.o = o /\ j.at = at /\ j.to = to
           /\ j.seen = order[o].status /\ j.from = order[o].depot /\ j.d = order[o].depot
BY DEF NewJob

LEMMA RoutingBegins ==
    ASSUME TypeOK, NEW t \in Threads, NEW o \in Orders, NEW d \in Depots,
           Checkout(t, o, d) \/ Assign(t, o, d) \/ Reroute(t, o, d)
    PROVE  \E j \in Job : BegunAs(j, o) /\ Begins(t, j)
<1>1. ASSUME NEW op \in Ops
      PROVE  LET j == [NewJob(op, o, "reserve", "CREATED") EXCEPT !.d = d] IN
             /\ j \in Job
             /\ j.op = op /\ j.o = o /\ j.at = "reserve" /\ j.to = "CREATED" /\ j.d = d
             /\ j.seen = order[o].status /\ j.from = order[o].depot
  <2>1. "reserve" \in Steps /\ "CREATED" \in Statuses
    BY DEF Steps, Statuses
  <2>2. NewJob(op, o, "reserve", "CREATED") \in Job
    BY <2>1, NewJobTyping
  <2> QED
    BY <2>2, NewJobFields DEF Job
<1>2. PICK op \in {"checkout", "assign", "reroute"} :
         /\ Begin(t, [NewJob(op, o, "reserve", "CREATED") EXCEPT !.d = d])
         /\ op = "checkout" => Checkout(t, o, d)
         /\ op = "assign" => Assign(t, o, d)
         /\ op = "reroute" => Reroute(t, o, d)
  BY DEF Checkout, Assign, Reroute
<1> DEFINE j == [NewJob(op, o, "reserve", "CREATED") EXCEPT !.d = d]
<1>3. /\ j \in Job /\ j.op = op /\ j.o = o /\ j.at = "reserve" /\ j.to = "CREATED" /\ j.d = d
      /\ j.seen = order[o].status /\ j.from = order[o].depot
  BY <1>1 DEF Ops
<1>4. Begin(t, j)
  BY <1>2
<1> HIDE DEF j
<1>5. BegunAs(j, o)
  BY <1>2, <1>3 DEF BegunAs, Checkout, Assign, Reroute
<1>6. moves' = IF op = "reroute" THEN [moves EXCEPT ![o] = @ + 1] ELSE moves
  BY <1>2 DEF Checkout, Assign, Reroute, orders
<1>7. Ask(t, "reserve", o, d) /\ ShelfKept /\ UNCHANGED <<order, row, moneyBack>>
  BY <1>2 DEF Checkout, Assign, Reroute, orders
<1>8. Begins(t, j)
  BY <1>3, <1>4, <1>6, <1>7 DEF Begins, Begin
<1> QED
  BY <1>3, <1>5, <1>8

LEMMA MovingBegins ==
    ASSUME TypeOK, NEW t \in Threads, NEW o \in Orders,
           (\E to \in Statuses : Advance(t, o, to)) \/ Cancel(t, o) \/ Expire(t, o)
    PROVE  \E j \in Job : BegunAs(j, o) /\ Begins(t, j)
<1>1. PICK to \in Statuses, op \in {"advance", "cancel", "expire"} :
         /\ CanTransition(order[o].status, to)
         /\ Begin(t, NewJob(op, o, "write", to))
         /\ NoCallMade /\ UNCHANGED orders
  <2>1. CASE \E to \in Statuses : Advance(t, o, to)
    BY <2>1 DEF Advance
  <2>2. CASE Cancel(t, o) \/ Expire(t, o)
    BY <2>2 DEF Cancel, Expire, CanTransition, Cancellable, Reroutable, Standing, Statuses, Over
  <2> QED
    BY <2>1, <2>2
<1> DEFINE j == NewJob(op, o, "write", to)
<1>2. j \in Job
  BY NewJobTyping DEF Ops, Steps
<1>3. /\ j.op = op /\ j.o = o /\ j.at = "write" /\ j.to = to
      /\ j.seen = order[o].status /\ j.from = order[o].depot /\ j.d = order[o].depot
  BY NewJobFields
<1>4. Begin(t, j)
  BY <1>1
<1> HIDE DEF j
<1>5. BegunAs(j, o)
  BY <1>1, <1>3 DEF BegunAs
<1>6. Begins(t, j)
  BY <1>1, <1>3, <1>4 DEF Begins, Begin, NoCallMade, ShelfKept, orders, TypeOK
<1> QED
  BY <1>2, <1>5, <1>6

LEMMA VoidBegins ==
    ASSUME TypeOK, NEW t \in Threads, NEW o \in Orders, Void(t, o)
    PROVE  \E j \in Job : BegunAs(j, o) /\ Begins(t, j)
<1> DEFINE j == NewJob("void", o, "payBack", "VOIDED")
<1>2. j \in Job
  BY NewJobTyping DEF Ops, Steps, Statuses
<1>3. /\ j.op = "void" /\ j.o = o /\ j.at = "payBack" /\ j.to = "VOIDED"
      /\ j.seen = order[o].status /\ j.from = order[o].depot
  BY NewJobFields
<1>4. Begin(t, j)
  BY DEF Void
<1> HIDE DEF j
<1>5. BegunAs(j, o)
  BY <1>3 DEF BegunAs, Void
<1>6. Begins(t, j)
  BY <1>3, <1>4 DEF Begins, Begin, Void, NoCallMade, ShelfKept, orders, TypeOK
<1> QED
  BY <1>2, <1>5, <1>6

LEMMA SweepBegins ==
    ASSUME TypeOK, NEW t \in Threads, NEW o \in Orders, NEW k \in Topics, Sweep(t, o, k)
    PROVE  \E j \in Job : BegunAs(j, o) /\ Begins(t, j)
<1> DEFINE i == NewJob("sweep", o, "deliver", "NONE")
           j == [i EXCEPT !.topic = k, !.tries = row[o][k].tries]
<1>1. i \in Job
  BY NewJobTyping DEF Ops, Steps, Statuses
<1>2. row[o][k] \in OutboxRow
  BY DEF TypeOK
<1>3. Begin(t, j) /\ row[o][k].state = "PENDING"
  BY DEF Sweep
<1>4. /\ i.op = "sweep" /\ i.o = o /\ i.at = "deliver" /\ i.to = "NONE"
      /\ i.seen = order[o].status /\ i.from = order[o].depot
  BY NewJobFields
<1> HIDE DEF i
<1>5. j \in Job /\ j.op = "sweep" /\ j.o = o /\ j.at = "deliver" /\ j.to = "NONE"
      /\ j.seen = order[o].status /\ j.from = order[o].depot /\ j.topic = k
  BY <1>1, <1>2, <1>4 DEF Job, OutboxRow
<1> HIDE DEF j
<1>6. BegunAs(j, o)
  BY <1>3, <1>5 DEF BegunAs
<1>7. Begins(t, j)
  BY <1>3, <1>5 DEF Begins, Begin, Sweep, NoCallMade, ShelfKept, orders, TypeOK
<1> QED
  BY <1>5, <1>6, <1>7

LEMMA RequestBegins ==
    ASSUME TypeOK, NEW t \in Threads, NEW o \in Orders, Request(t, o)
    PROVE  \E j \in Job : BegunAs(j, o) /\ Begins(t, j)
BY RoutingBegins, MovingBegins, VoidBegins, SweepBegins DEF Request

LEMMA JobStepTyping ==
    ASSUME TypeOK, NEW t \in Threads, JobStep(t)
    PROVE  TypeOK'
<1>1. job' \in [Threads -> Job \cup {NoJob}]
  BY JobStepGoesOn, GoesOnTyping
<1>2. DepotTypeOK'
  <2>1. call' \in [Threads -> Call \cup {NoCall}] /\ ShelfKept
    BY JobStepSpeaks, SpeaksTyping
  <2> QED
    BY <2>1, CallTyping DEF TypeOK
<1>3. row' \in [Orders -> [Topics -> OutboxRow]] /\ order' \in [Orders -> OrderRow]
  BY JobStepRows DEF RowsMove
<1>4. moneyBack' \in [Orders -> BOOLEAN] /\ moves' \in [Orders -> 0..MaxMoves]
  <2>1. CASE ReversePayment(t) \/ PayBack(t)
    BY <2>1 DEF TypeOK, ReversePayment, PayBack
  <2>2. CASE Reserved(t) \/ Create(t) \/ Route(t) \/ ReleaseLostHold(t) \/ ApplyStatus(t)
             \/ Drop(t) \/ Due(t) \/ Deliver(t)
    BY <2>2 DEF TypeOK, Reserved, Create, Route, ReleaseLostHold, ApplyStatus, Drop, Due, Deliver, orders
  <2>3. CASE ConsumeStock(t) \/ Consumed(t) \/ MarkDone(t) \/ MarkFailed(t) \/ VoidWalkIn(t)
             \/ CallOff(t) \/ Finish(t) \/ Abandoned(t)
    BY <2>3 DEF TypeOK, ConsumeStock, Consumed, MarkDone, MarkFailed, VoidWalkIn, CallOff, Finish,
                Abandoned, orders
  <2> QED
    BY <2>1, <2>2, <2>3 DEF JobStep
<1> QED
  BY <1>1, <1>2, <1>3, <1>4 DEF TypeOK

LEMMA BeginsTyping ==
    ASSUME TypeOK, NEW t \in Threads, NEW j \in Job, NEW o \in Orders, BegunAs(j, o), Begins(t, j)
    PROVE  TypeOK'
<1>1. job' \in [Threads -> Job \cup {NoJob}]
  BY DEF TypeOK, Begins
<1>2. call' \in [Threads -> Call \cup {NoCall}]
  <2>1. DepotTypeOK /\ j.o \in Orders /\ "reserve" \in CallOps
    BY DEF TypeOK, Job, CallOps
  <2>2. CASE Ask(t, "reserve", j.o, j.d)
    BY <2>1, <2>2, AskTyping
  <2> QED
    BY <2>2 DEF TypeOK, DepotTypeOK, Begins
<1>3. DepotTypeOK'
  BY <1>2, CallTyping DEF TypeOK, Begins
<1>4. moves' \in [Orders -> 0..MaxMoves]
  <2>1. CASE j.op = "reroute"
    <3>1. moves[o] < MaxMoves /\ moves' = [moves EXCEPT ![o] = @ + 1]
      BY <2>1 DEF BegunAs, Begins
    <3> QED
      BY <3>1, TriesAssumption DEF TypeOK
  <2> QED
    BY <2>1 DEF Begins, TypeOK
<1> QED
  BY <1>1, <1>3, <1>4 DEF TypeOK, Begins

LEMMA InitTyping == Init => TypeOK
<1> SUFFICES ASSUME Init PROVE TypeOK
  OBVIOUS
<1>1. PICK kind \in [Orders -> Kinds] :
         order = [o \in Orders |->
                     [kind |-> kind[o], depot |-> NoDepot, dispatched |-> FALSE,
                      status |-> IF kind[o] = "legacy" THEN "CREATED" ELSE "NONE"]]
  BY DEF Init
<1>2. order \in [Orders -> OrderRow]
  BY <1>1, KindsAssumption DEF OrderRow, Statuses
<1>3. row \in [Orders -> [Topics -> OutboxRow]]
  BY DEF Init, OutboxRow
<1> QED
  BY <1>2, <1>3, DepotInitTyping, TriesAssumption DEF Init, TypeOK

\* The steps of the whole: a job's, a crash, a request, or depot-service's own.
LEMMA NextSteps ==
    ASSUME Next
    PROVE  \/ \E t \in Threads : JobStep(t)
           \/ \E t \in Threads : Crash(t)
           \/ \E t \in Threads, o \in Orders : Request(t, o)
           \/ (\E t \in Threads : CallStep(t) \/ Break(t)) /\ UNCHANGED <<orders, job>>
           \/ CountStep /\ UNCHANGED <<orders, job>>
BY DEF Next, DepotStep

LEMMA CrashTyping ==
    ASSUME TypeOK, NEW t \in Threads, Crash(t)
    PROVE  TypeOK'
<1>1. job' \in [Threads -> Job \cup {NoJob}]
  BY DoneTyping DEF Crash
<1>2. DepotTypeOK'
  BY DEF TypeOK, DepotTypeOK, Crash, NoCallMade, shelf
<1> QED
  BY <1>1, <1>2 DEF TypeOK, Crash, orders

LEMMA DepotSideTyping ==
    ASSUME TypeOK, (\E t \in Threads : CallStep(t) \/ Break(t)) \/ CountStep, UNCHANGED <<orders, job>>
    PROVE  TypeOK'
<1>1. DepotTypeOK'
  BY CallStepTyping, EndTyping, CountTyping DEF TypeOK
<1> QED
  BY <1>1 DEF TypeOK, orders

LEMMA NextTyping ==
    ASSUME TypeOK, [Next]_vars
    PROVE  TypeOK'
<1>1. CASE UNCHANGED vars
  BY <1>1 DEF TypeOK, DepotTypeOK, vars, orders, depotVars
<1>2. ASSUME NEW t \in Threads, NEW o \in Orders, Request(t, o)
      PROVE  TypeOK'
  BY <1>2, RequestBegins, BeginsTyping
<1> QED
  BY <1>1, <1>2, NextSteps, JobStepTyping, CrashTyping, DepotSideTyping

\* Every order, outbox row, job and call stays one of those the code knows.
THEOREM FulfilmentTyping == Spec => []TypeOK
BY InitTyping, NextTyping, PTL DEF Spec

----------------------------------------------------------------------------
(* Where a job can be, and what it still knows *)

Moving == {"advance", "cancel", "expire"}
Delivering == {"deliver", "handle", "consume", "markDone", "markFailed"}
Places(op) ==
    CASE op = "checkout" -> {"reserve", "create", "due", "last"} \cup Delivering
      [] op \in {"assign", "reroute"} -> {"reserve", "route", "lost", "last"}
      [] op \in Moving -> {"write", "due", "drop", "last"} \cup Delivering
      [] op = "void" -> {"payBack", "write", "callOff", "last"}
      [] op = "sweep" -> Delivering

JobFits(j) ==
    /\ j.at \in Places(j.op)
    /\ j.at \in {"reserve", "create", "route", "lost"} => j.d \in Depots
    /\ j.op \in {"checkout", "assign", "reroute"} => j.to = "CREATED"
    /\ j.op = "assign" => j.from = NoDepot
    /\ j.op = "reroute" => j.from # NoDepot
    /\ j.op \in Moving => CanTransition(j.seen, j.to)
    /\ j.op = "void" => j.to = "VOIDED"

\* The steps of a handler, one after the other.
Follows(j, step) ==
    \/ j.at = "reserve" /\ step = (IF j.op = "checkout" THEN "create" ELSE "route")
    \/ j.at = "create" /\ step \in {"due", "last"}
    \/ j.at = "route" /\ step = (IF MayRoute(j) THEN "last" ELSE "lost")
    \/ j.at \in {"lost", "drop", "callOff"} /\ step = "last"
    \/ j.at \in {"due", "markDone", "markFailed"} /\ step = "drop" /\ j.op # "sweep" /\ j.to = "CANCELLED"
    \/ j.at = "deliver" /\ step \in {"markDone", "handle"}
    \/ j.at = "handle" /\ step \in {"markDone", "consume", "markFailed"}
    \/ j.at = "consume" /\ step \in {"markDone", "markFailed"}
    \/ j.at = "payBack" /\ step = "write"
    \/ j.at = "write" /\ j.op = "void" /\ step = "callOff"
MovesTo(t, step) == job[t] # NoJob /\ Follows(job[t], step) /\ Goto(t, step)
TakesDue(t) ==
    /\ At(t, "due")
    /\ \E k \in Topics :
          /\ row[job[t].o][k].state = "PENDING"
          /\ job' = [job EXCEPT ![t].at = "deliver", ![t].topic = k,
                                ![t].tries = row[job[t].o][k].tries]
FindsStock(t) ==
    /\ At(t, "write") /\ job[t].op # "void"
    /\ job' = [job EXCEPT ![t].at = "due", ![t].d = order[job[t].o].depot]

LEMMA JobStepFollows ==
    ASSUME TypeOK, NEW t \in Threads, JobStep(t)
    PROVE  UNCHANGED job \/ Done(t) \/ TakesDue(t) \/ FindsStock(t) \/ \E step \in Steps : MovesTo(t, step)
<1>1. CASE Reserved(t) \/ Create(t) \/ ReleaseLostHold(t) \/ Drop(t)
  BY <1>1 DEF Reserved, Create, ReleaseLostHold, Drop, At, Wait, MovesTo, Follows, Steps
<1>2. CASE Route(t)
  BY <1>2 DEF Route, At, Wait, MovesTo, Follows, Steps
<1>3. CASE ApplyStatus(t)
  BY <1>3 DEF ApplyStatus, At, DepotToRelease, FindsStock
<1>4. CASE Due(t)
  BY <1>4 DEF Due, At, Proceed, MovesTo, Follows, TakesDue, Steps
<1>5. CASE Deliver(t) \/ ConsumeStock(t) \/ Consumed(t) \/ ReversePayment(t)
  BY <1>5 DEF Deliver, ConsumeStock, Consumed, ReversePayment, At, Wait, MovesTo, Follows, Steps
<1>6. CASE MarkDone(t) \/ MarkFailed(t)
  BY <1>6 DEF MarkDone, MarkFailed, At, Proceed, MovesTo, Follows, Steps
<1>7. CASE PayBack(t) \/ VoidWalkIn(t) \/ CallOff(t)
  BY <1>7 DEF PayBack, VoidWalkIn, CallOff, At, Wait, MovesTo, Follows, Steps
<1>8. CASE Finish(t) \/ Abandoned(t)
  BY <1>8 DEF Finish, Abandoned
<1> QED
  BY <1>1, <1>2, <1>3, <1>4, <1>5, <1>6, <1>7, <1>8 DEF JobStep

\* A job that delivers has a row to deliver.
HasItsRow(j) == j.at \in Delivering => row[j.o][j.topic].state # "NONE"
JobsFit == \A t \in Threads : job[t] # NoJob => JobFits(job[t]) /\ HasItsRow(job[t])

LEMMA FollowsFits ==
    ASSUME NEW j \in Job, JobFits(j), NEW step \in Steps, Follows(j, step), NEW i \in Job,
           i = [j EXCEPT !.at = step]
    PROVE  JobFits(i) /\ (i.at \in Delivering => j.at \in Delivering)
<1>1. /\ i.at = step /\ i.op = j.op /\ i.d = j.d /\ i.to = j.to /\ i.from = j.from /\ i.seen = j.seen
  BY DEF Job
<1>2. j.op \in Ops
  BY DEF Job
<1>3. step \in Places(j.op)
  BY <1>2 DEF JobFits, Follows, Places, Delivering, Moving, Ops
<1>4. step \in {"reserve", "create", "route", "lost"} => j.d \in Depots
  BY DEF JobFits, Follows
<1>5. step \in Delivering => j.at \in Delivering
  BY DEF Follows, Delivering
<1> QED
  BY <1>1, <1>3, <1>4, <1>5 DEF JobFits

LEMMA RowStays ==
    ASSUME RowsMove, NEW j \in Job, HasItsRow(j)
    PROVE  j.at \in Delivering => row'[j.o][j.topic].state # "NONE"
BY DEF RowsMove, RowMove, HasItsRow, Job

\* What a job keeps, whatever its step; only the steps that write move an order.
JobKeeps(t, s) ==
    job'[s] # NoJob =>
        /\ job[s] # NoJob
        /\ job'[s].op = job[s].op /\ job'[s].o = job[s].o /\ job'[s].to = job[s].to
        /\ job'[s].from = job[s].from /\ job'[s].seen = job[s].seen
        /\ \/ job'[s] = job[s]
           \/ s = t /\ job[s].at = "due" /\ job'[s].at = "deliver"
           \/ s = t /\ job[s].at = "write" /\ job[s].op # "void" /\ job'[s].at = "due"
           \/ s = t /\ Follows(job[s], job'[s].at) /\ job'[s].d = job[s].d /\ job'[s].topic = job[s].topic

LEMMA JobStepKeeps ==
    ASSUME TypeOK, NEW t \in Threads, JobStep(t), NEW s \in Threads
    PROVE  JobKeeps(t, s) /\ (s # t => job'[s] = job[s])
<1>1. job \in [Threads -> Job \cup {NoJob}]
  BY DEF TypeOK
<1>2. CASE UNCHANGED job \/ Done(t)
  BY <1>1, <1>2 DEF Done, JobKeeps
<1>3. CASE TakesDue(t)
  <2>1. PICK k \in Topics :
           job' = [job EXCEPT ![t].at = "deliver", ![t].topic = k,
                              ![t].tries = row[job[t].o][k].tries]
    BY <1>3 DEF TakesDue
  <2>2. job[t] \in Job /\ job[t] # NoJob /\ job[t].at = "due"
    BY <1>1, <1>3 DEF TakesDue, At
  <2> QED
    BY <1>1, <2>1, <2>2 DEF Job, JobKeeps
<1>4. CASE FindsStock(t)
  <2>1. job[t] \in Job /\ job[t] # NoJob /\ job[t].at = "write" /\ job[t].op # "void"
    BY <1>1, <1>4 DEF FindsStock, At
  <2> QED
    BY <1>1, <1>4, <2>1 DEF FindsStock, Job, JobKeeps
<1>5. ASSUME NEW step \in Steps, MovesTo(t, step)
      PROVE  JobKeeps(t, s) /\ (s # t => job'[s] = job[s])
  <2>1. job[t] \in Job /\ job[t] # NoJob /\ Follows(job[t], step)
    BY <1>1, <1>5 DEF MovesTo
  <2>2. job' = [job EXCEPT ![t] = [job[t] EXCEPT !.at = step]]
    BY <1>1, <1>5 DEF MovesTo, Goto
  <2> QED
    BY <1>1, <2>1, <2>2 DEF Job, JobKeeps
<1> QED
  BY <1>2, <1>3, <1>4, <1>5, JobStepFollows

LEMMA WritersOnly ==
    ASSUME TypeOK, NEW t \in Threads, JobStep(t)
    PROVE  \/ UNCHANGED order
           \/ /\ job[t] # NoJob /\ job[t].at \in {"create", "route", "write"}
              /\ \A o \in Orders : o # job[t].o => order'[o] = order[o]
<1>1. order \in [Orders -> OrderRow]
  BY DEF TypeOK
<1>2. CASE Create(t)
  BY <1>1, <1>2, CreateRows DEF Create, At
<1>3. CASE ApplyStatus(t)
  BY <1>1, <1>3, ApplyStatusRows DEF ApplyStatus, At
<1>4. CASE Route(t)
  BY <1>1, <1>4, RouteOrder DEF Route, At
<1>5. CASE VoidWalkIn(t)
  BY <1>1, <1>5, VoidOrder DEF VoidWalkIn, At
<1>6. CASE MarkDone(t) \/ MarkFailed(t) \/ CallOff(t)
  BY <1>6 DEF MarkDone, MarkFailed, CallOff
<1>7. CASE \/ Reserved(t) \/ ReleaseLostHold(t) \/ Drop(t) \/ Due(t) \/ Deliver(t)
           \/ ConsumeStock(t) \/ Consumed(t) \/ Finish(t) \/ Abandoned(t)
           \/ ReversePayment(t) \/ PayBack(t)
  BY <1>7 DEF Reserved, ReleaseLostHold, Drop, Due, Deliver, ConsumeStock, Consumed, Finish,
              Abandoned, ReversePayment, PayBack, orders
<1> QED
  BY <1>2, <1>3, <1>4, <1>5, <1>6, <1>7 DEF JobStep

LEMMA JobStepFits ==
    ASSUME TypeOK, JobsFit, NEW t \in Threads, JobStep(t)
    PROVE  JobsFit'
<1>1. RowsMove
  BY JobStepRows
<1>2. ASSUME NEW s \in Threads, job'[s] # NoJob, job'[s] = job[s]
      PROVE  (JobFits(job[s]) /\ HasItsRow(job[s]))'
  <2>1. job[s] \in Job /\ JobFits(job[s]) /\ HasItsRow(job[s])
    BY <1>2 DEF TypeOK, JobsFit
  <2>2. job'[s].at \in Delivering => row'[job'[s].o][job'[s].topic].state # "NONE"
    BY <1>1, <1>2, <2>1, RowStays
  <2> QED
    BY <1>2, <2>1, <2>2 DEF HasItsRow
<1>3. CASE UNCHANGED job \/ Done(t)
  <2>1. \A s \in Threads : job'[s] # NoJob => job'[s] = job[s]
    BY <1>3 DEF TypeOK, Done
  <2> QED
    BY <1>2, <2>1 DEF JobsFit
<1>4. ASSUME job[t] # NoJob, NEW j \in Job, job' = [job EXCEPT ![t] = j], JobFits(j),
             j.at \in Delivering => row'[j.o][j.topic].state # "NONE"
      PROVE  JobsFit'
  <2>1. \A s \in Threads : job'[s] = IF s = t THEN j ELSE job[s]
    BY <1>4 DEF TypeOK
  <2>2. (JobFits(job[t]) /\ HasItsRow(job[t]))'
    BY <1>4, <2>1 DEF HasItsRow
  <2> QED
    BY <1>2, <2>1, <2>2 DEF JobsFit
<1>5. CASE TakesDue(t)
  <2>1. PICK k \in Topics :
           /\ row[job[t].o][k].state = "PENDING"
           /\ job' = [job EXCEPT ![t].at = "deliver", ![t].topic = k,
                                 ![t].tries = row[job[t].o][k].tries]
    BY <1>5 DEF TakesDue
  <2> DEFINE j == [job[t] EXCEPT !.at = "deliver", !.topic = k, !.tries = row[job[t].o][k].tries]
  <2>2. job[t] # NoJob /\ job[t] \in Job /\ job[t].at = "due" /\ JobFits(job[t])
    BY <1>5 DEF TypeOK, TakesDue, At, JobsFit
  <2>3. row[job[t].o][k] \in OutboxRow /\ job[t].o \in Orders
    BY <2>2 DEF TypeOK, Job
  <2>4. j \in Job
    BY <2>2, <2>3 DEF Job, OutboxRow, Steps
  <2>5. /\ j.at = "deliver" /\ j.op = job[t].op /\ j.d = job[t].d /\ j.to = job[t].to
        /\ j.from = job[t].from /\ j.seen = job[t].seen /\ j.o = job[t].o /\ j.topic = k
    BY <2>2 DEF Job
  <2>6. job' = [job EXCEPT ![t] = j]
    BY <2>1 DEF TypeOK
  <2> HIDE DEF j
  <2>7. job[t].op \in Ops
    BY <2>2 DEF Job
  <2>8. "deliver" \in Places(job[t].op)
    BY <2>2, <2>7 DEF JobFits, Places, Delivering, Moving, Ops
  <2>9. JobFits(j)
    BY <2>2, <2>5, <2>8 DEF JobFits
  <2>10. row'[j.o][j.topic].state # "NONE"
    BY <1>1, <2>1, <2>3, <2>5 DEF RowsMove, RowMove
  <2> QED
    BY <1>4, <2>2, <2>4, <2>6, <2>9, <2>10
<1>6. CASE FindsStock(t)
  <2> DEFINE j == [job[t] EXCEPT !.at = "due", !.d = order[job[t].o].depot]
  <2>1. job[t] # NoJob /\ job[t] \in Job /\ job[t].at = "write" /\ job[t].op # "void" /\ JobFits(job[t])
    BY <1>6 DEF TypeOK, FindsStock, At, JobsFit
  <2>2. order[job[t].o] \in OrderRow
    BY <2>1 DEF TypeOK, Job
  <2>3. j \in Job
    BY <2>1, <2>2 DEF Job, OrderRow, Steps
  <2>4. /\ j.at = "due" /\ j.op = job[t].op /\ j.to = job[t].to
        /\ j.from = job[t].from /\ j.seen = job[t].seen
    BY <2>1 DEF Job
  <2>5. job' = [job EXCEPT ![t] = j]
    BY <1>6 DEF TypeOK, FindsStock
  <2> HIDE DEF j
  <2>6. job[t].op \in Ops
    BY <2>1 DEF Job
  <2>7. "due" \in Places(job[t].op) /\ "due" \notin Delivering
    BY <2>1, <2>6 DEF JobFits, Places, Delivering, Moving, Ops
  <2>8. JobFits(j)
    BY <2>1, <2>4, <2>7 DEF JobFits
  <2> QED
    BY <1>4, <2>1, <2>3, <2>4, <2>5, <2>7, <2>8
<1>7. ASSUME NEW step \in Steps, MovesTo(t, step)
      PROVE  JobsFit'
  <2> DEFINE j == [job[t] EXCEPT !.at = step]
  <2>1. job[t] # NoJob /\ job[t] \in Job /\ JobFits(job[t]) /\ HasItsRow(job[t]) /\ Follows(job[t], step)
    BY <1>7 DEF TypeOK, MovesTo, JobsFit
  <2>2. j \in Job /\ j.o = job[t].o /\ j.topic = job[t].topic
    BY <2>1 DEF Job
  <2>3. job' = [job EXCEPT ![t] = j]
    BY <1>7 DEF TypeOK, MovesTo, Goto
  <2>4. JobFits(j) /\ (j.at \in Delivering => job[t].at \in Delivering)
    BY <2>1, <2>2, FollowsFits
  <2> HIDE DEF j
  <2>5. j.at \in Delivering => row'[j.o][j.topic].state # "NONE"
    BY <1>1, <2>1, <2>2, <2>4, RowStays
  <2> QED
    BY <1>4, <2>1, <2>2, <2>3, <2>4, <2>5
<1> QED
  BY <1>3, <1>5, <1>6, <1>7, JobStepFollows

LEMMA BeginsFits ==
    ASSUME TypeOK, JobsFit, NEW t \in Threads, NEW j \in Job, NEW o \in Orders,
           BegunAs(j, o), Begins(t, j)
    PROVE  JobsFit'
<1>1. JobFits(j)
  <2>1. j.from \in Depots \cup {NoDepot}
    BY DEF Job
  <2> QED
    BY DEF BegunAs, JobFits, Places, Delivering, Moving
<1>2. HasItsRow(j)
  BY DEF BegunAs, HasItsRow, Delivering
<1>3. \A s \in Threads : job'[s] = IF s = t THEN j ELSE job[s]
  BY DEF TypeOK, Begins
<1>4. UNCHANGED row
  BY DEF Begins
<1> QED
  BY <1>1, <1>2, <1>3, <1>4 DEF JobsFit, HasItsRow

LEMMA RestFits ==
    ASSUME TypeOK, JobsFit, UNCHANGED orders,
           UNCHANGED job \/ \E t \in Threads : Done(t)
    PROVE  JobsFit'
<1>1. \A s \in Threads : job'[s] # NoJob => job'[s] = job[s]
  BY DEF TypeOK, Done
<1>2. UNCHANGED row
  BY DEF orders
<1> QED
  BY <1>1, <1>2 DEF JobsFit, HasItsRow

----------------------------------------------------------------------------
(* What may become of an order and of what it owes *)

\* Written at checkout, routed, moved along the table, or voided.
Creates(r, s) ==
    /\ r.status = "NONE" /\ s.status \in {"CREATED", "CONFIRMED", "COMPLETED"} /\ s.depot \in Depots
    /\ s.status = "COMPLETED" <=> r.kind = "counter"
Routes(r, s) ==
    /\ s.status = r.status /\ s.depot \in Depots
    /\ r.depot = NoDepot \/ r.status \in Reroutable
MovesOn(r, s) == CanTransition(r.status, s.status) /\ s.depot = r.depot
IsVoided(r, s) == r.status = "COMPLETED" /\ s.status = "VOIDED" /\ s.depot = r.depot

OrderMove(r, s) ==
    /\ s.kind = r.kind
    /\ s = r \/ Creates(r, s) \/ Routes(r, s) \/ MovesOn(r, s) \/ IsVoided(r, s)


\* An order is written once: while one checkout is on its way to write it,
\* nothing else is at work on it.
OrdersFresh ==
    \A t \in Threads :
        job[t] # NoJob /\ job[t].op = "checkout" /\ job[t].at \in {"reserve", "create"} =>
            /\ order[job[t].o].status = "NONE"
            /\ \A s \in Threads : s # t /\ job[s] # NoJob => job[s].o # job[t].o

Sold == {"COMPLETED", "VOIDED"}
RowsEarned ==
    \A o \in Orders, k \in Topics :
        row[o][k].state # "NONE" =>
            \/ k = "INVENTORY_CONSUME" /\ order[o].status \in Sold
            \/ k = "PAYMENT_REVERSAL" /\ order[o].status = "CANCELLED"

OrdersInv == TypeOK /\ JobsFit /\ OrdersFresh /\ RowsEarned

LEMMA JobStepMoves ==
    ASSUME OrdersInv, NEW t \in Threads, JobStep(t), NEW o \in Orders
    PROVE  OrderMove(order[o], order'[o])
<1>1. TypeOK /\ JobsFit /\ OrdersFresh
  BY DEF OrdersInv
<1>2. CASE order'[o] = order[o]
  BY <1>2 DEF OrderMove
<1>3. CASE order'[o] # order[o]
  <2>1. /\ job[t] # NoJob /\ job[t].at \in {"create", "route", "write"} /\ o = job[t].o
        /\ ~UNCHANGED order
    BY <1>1, <1>3, WritersOnly
  <2>2. job[t] \in Job /\ JobFits(job[t]) /\ job[t].op \in Ops
    BY <1>1, <2>1 DEF TypeOK, JobsFit, Job
  <2>3. CASE Create(t)
    <3>1. job[t].at = "create" /\ job[t].op = "checkout"
      BY <2>2, <2>3 DEF Create, At, JobFits, Places, Delivering, Moving, Ops
    <3>2. order[o].status = "NONE" /\ job[t].d \in Depots
      BY <1>1, <2>1, <2>2, <3>1 DEF OrdersFresh, JobFits
    <3> QED
      BY <1>1, <2>1, <2>3, <3>2, CreateRows DEF OrderMove, Creates
  <2>4. CASE ApplyStatus(t)
    <3>1. job[t].at = "write" /\ job[t].op # "void"
      BY <2>4 DEF ApplyStatus, At
    <3>2. job[t].op \in Moving
      BY <2>2, <3>1 DEF JobFits, Places, Delivering, Moving, Ops
    <3>3. CanTransition(job[t].seen, job[t].to)
      BY <2>2, <3>2 DEF JobFits
    <3> QED
      BY <1>1, <2>1, <2>4, <3>3, ApplyStatusRows DEF OrderMove, MovesOn
  <2>5. CASE Route(t)
    <3>1. job[t].at = "route" /\ job[t].op \in {"assign", "reroute"}
      BY <2>2, <2>5 DEF Route, At, JobFits, Places, Delivering, Moving, Ops
    <3>2. job[t].d \in Depots /\ (job[t].op = "assign" => job[t].from = NoDepot)
      BY <2>2, <3>1 DEF JobFits
    <3>3. /\ MayRoute(job[t]) /\ order'[o].kind = order[o].kind
          /\ order'[o].status = order[o].status /\ order'[o].depot = job[t].d
      BY <1>1, <2>1, <2>5, RouteOrder
    <3> QED
      BY <2>1, <3>1, <3>2, <3>3 DEF OrderMove, Routes, MayRoute
  <2>6. CASE VoidWalkIn(t)
    BY <1>1, <2>1, <2>6, VoidOrder DEF OrderMove, IsVoided
  <2>7. CASE MarkDone(t) \/ MarkFailed(t) \/ CallOff(t)
    BY <2>1, <2>7 DEF MarkDone, MarkFailed, CallOff
  <2>8. CASE \/ Reserved(t) \/ ReleaseLostHold(t) \/ Drop(t) \/ Due(t) \/ Deliver(t)
             \/ ConsumeStock(t) \/ Consumed(t) \/ Finish(t) \/ Abandoned(t)
             \/ ReversePayment(t) \/ PayBack(t)
    BY <2>1, <2>8 DEF Reserved, ReleaseLostHold, Drop, Due, Deliver, ConsumeStock, Consumed, Finish,
                      Abandoned, ReversePayment, PayBack, orders
  <2> QED
    BY <2>3, <2>4, <2>5, <2>6, <2>7, <2>8 DEF JobStep
<1> QED
  BY <1>2, <1>3

\* An order that was sold stays sold, at its depot; one cancelled stays cancelled.
LEMMA MovesKeep ==
    ASSUME NEW r \in OrderRow, NEW s \in OrderRow, OrderMove(r, s)
    PROVE  /\ s.kind = r.kind
           /\ r.status \in Sold => s.status \in Sold /\ (r.depot # NoDepot => s.depot = r.depot)
           /\ r.status = "VOIDED" => s.status = "VOIDED"
           /\ r.status = "CANCELLED" => s.status = "CANCELLED"
           /\ r.status # "NONE" => s.status # "NONE"
           /\ r.depot # NoDepot => s.depot # NoDepot
BY NoDepotAssumption DEF OrderMove, Creates, Routes, MovesOn, IsVoided, CanTransition,
   Sold, Reroutable, Dispatched, Standing, Over, OrderRow, Statuses

LEMMA JobStepEarned ==
    ASSUME OrdersInv, NEW t \in Threads, JobStep(t)
    PROVE  RowsEarned'
<1>1. TypeOK /\ RowsEarned /\ RowsMove /\ order' \in [Orders -> OrderRow] /\ order \in [Orders -> OrderRow]
  BY JobStepRows DEF OrdersInv, TypeOK
<1> SUFFICES ASSUME NEW o \in Orders, NEW k \in Topics, row'[o][k].state # "NONE"
             PROVE  \/ k = "INVENTORY_CONSUME" /\ order'[o].status \in Sold
                    \/ k = "PAYMENT_REVERSAL" /\ order'[o].status = "CANCELLED"
  BY DEF RowsEarned
<1>2. CASE row[o][k].state = "NONE"
  BY <1>1, <1>2 DEF RowsMove, RowMove, Owes, Sold
<1>3. CASE row[o][k].state # "NONE"
  BY <1>1, <1>3, JobStepMoves, MovesKeep DEF RowsEarned
<1> QED
  BY <1>2, <1>3

LEMMA JobStepFresh ==
    ASSUME OrdersInv, NEW t \in Threads, JobStep(t)
    PROVE  OrdersFresh'
<1>1. TypeOK /\ OrdersFresh
  BY DEF OrdersInv
<1> SUFFICES ASSUME NEW s \in Threads, job'[s] # NoJob, job'[s].op = "checkout",
                    job'[s].at \in {"reserve", "create"}
             PROVE  /\ order'[job'[s].o].status = "NONE"
                    /\ \A u \in Threads : u # s /\ job'[u] # NoJob => job'[u].o # job'[s].o
  BY DEF OrdersFresh
<1>2. /\ job[s] # NoJob /\ job[s].op = "checkout" /\ job'[s].o = job[s].o
      /\ job[s].at \in {"reserve", "create"}
      /\ job[s].at = "create" => job'[s] = job[s]
      /\ s # t => job'[s] = job[s]
  BY <1>1, JobStepKeeps DEF JobKeeps, Follows
<1>3. /\ order[job[s].o].status = "NONE"
      /\ \A u \in Threads : u # s /\ job[u] # NoJob => job[u].o # job[s].o
  BY <1>1, <1>2 DEF OrdersFresh
<1>4. job[s].o \in Orders
  BY <1>1, <1>2 DEF TypeOK, Job
<1>5. order'[job[s].o] = order[job[s].o]
  <2>1. CASE s # t
    BY <1>1, <1>3, <1>4, <2>1, WritersOnly
  <2>2. CASE s = t /\ job[s].at = "reserve"
    BY <1>1, <2>2, WritersOnly
  <2>3. CASE s = t /\ job[s].at = "create"
    <3>1. job'[t] = job[t]
      BY <1>2, <2>3
    <3>2. CASE Create(t)
      BY <1>1, <1>2, <2>3, <3>1, <3>2 DEF Create, At, Wait, Goto, Done, TypeOK, Job
    <3>3. ~(\/ Reserved(t) \/ Route(t) \/ ReleaseLostHold(t) \/ ApplyStatus(t) \/ Drop(t) \/ Due(t)
            \/ Deliver(t) \/ ConsumeStock(t) \/ Consumed(t) \/ ReversePayment(t) \/ MarkDone(t)
            \/ MarkFailed(t) \/ PayBack(t) \/ VoidWalkIn(t) \/ CallOff(t) \/ Finish(t) \/ Abandoned(t))
      BY <1>2, <2>3 DEF Reserved, Route, ReleaseLostHold, ApplyStatus, Drop, Due, Deliver, ConsumeStock,
         Consumed, ReversePayment, MarkDone, MarkFailed, PayBack, VoidWalkIn, CallOff, Finish,
         Abandoned, At
    <3> QED
      BY <3>2, <3>3 DEF JobStep
  <2> QED
    BY <1>2, <2>1, <2>2, <2>3
<1>6. ASSUME NEW u \in Threads, u # s, job'[u] # NoJob
      PROVE  job'[u].o # job'[s].o
  BY <1>1, <1>2, <1>3, <1>6, JobStepKeeps DEF JobKeeps
<1> QED
  BY <1>2, <1>3, <1>5, <1>6

LEMMA BeginsFresh ==
    ASSUME OrdersInv, NEW t \in Threads, NEW j \in Job, NEW o \in Orders, BegunAs(j, o), Begins(t, j)
    PROVE  OrdersFresh'
<1>1. TypeOK /\ OrdersFresh /\ RowsEarned
  BY DEF OrdersInv
<1>2. job[t] = NoJob /\ (\A s \in Threads : job'[s] = IF s = t THEN j ELSE job[s]) /\ order' = order
  BY <1>1 DEF TypeOK, Begins
<1>3. j.o = o
  BY DEF BegunAs
<1>4. j.op = "checkout" => order[o].status = "NONE" /\ \A s \in Threads : job[s] # NoJob => job[s].o # o
  BY DEF BegunAs, Busy
<1>5. j.op # "checkout" => order[o].status # "NONE"
  <2>1. j.topic \in Topics
    BY DEF Job
  <2> QED
    BY <1>1, <2>1 DEF BegunAs, RowsEarned, Sold, CanTransition, Reroutable, Dispatched, Standing
<1>6. ASSUME NEW s \in Threads, s # t, job[s] # NoJob, job[s].op = "checkout",
             job[s].at \in {"reserve", "create"}
      PROVE  job[s].o # o
  BY <1>1, <1>4, <1>5, <1>6 DEF OrdersFresh
<1> QED
  BY <1>1, <1>2, <1>3, <1>4, <1>6, NoJobAssumption DEF OrdersFresh

LEMMA RestFresh ==
    ASSUME OrdersInv, UNCHANGED orders, UNCHANGED job \/ \E t \in Threads : Done(t)
    PROVE  OrdersFresh' /\ RowsEarned'
<1>1. TypeOK /\ OrdersFresh /\ RowsEarned
  BY DEF OrdersInv
<1>2. \A s \in Threads : job'[s] # NoJob => job'[s] = job[s]
  BY <1>1 DEF TypeOK, Done
<1>3. UNCHANGED <<order, row>>
  BY DEF orders
<1> QED
  BY <1>1, <1>2, <1>3 DEF OrdersFresh, RowsEarned

LEMMA InitOrders == Init => OrdersInv
<1> SUFFICES ASSUME Init PROVE OrdersInv
  OBVIOUS
<1>1. TypeOK
  BY InitTyping
<1>2. \A t \in Threads : job[t] = NoJob
  BY DEF Init
<1>3. \A o \in Orders, k \in Topics : row[o][k].state = "NONE"
  BY DEF Init
<1> QED
  BY <1>1, <1>2, <1>3 DEF OrdersInv, JobsFit, OrdersFresh, RowsEarned

LEMMA NextOrders ==
    ASSUME OrdersInv, [Next]_vars
    PROVE  OrdersInv'
<1>1. TypeOK /\ JobsFit /\ RowsEarned
  BY DEF OrdersInv
<1>2. TypeOK'
  BY <1>1, NextTyping
<1>3. ASSUME NEW t \in Threads, JobStep(t)
      PROVE  OrdersInv'
  BY <1>1, <1>2, <1>3, JobStepFits, JobStepFresh, JobStepEarned DEF OrdersInv
<1>4. ASSUME NEW t \in Threads, NEW o \in Orders, Request(t, o)
      PROVE  OrdersInv'
  <2>1. PICK j \in Job : BegunAs(j, o) /\ Begins(t, j)
    BY <1>1, <1>4, RequestBegins
  <2>2. RowsEarned'
    BY <1>1, <2>1 DEF Begins, RowsEarned
  <2> QED
    BY <1>1, <1>2, <2>1, <2>2, BeginsFits, BeginsFresh DEF OrdersInv
<1>5. ASSUME UNCHANGED orders, UNCHANGED job \/ \E t \in Threads : Done(t)
      PROVE  OrdersInv'
  BY <1>1, <1>2, <1>5, RestFits, RestFresh DEF OrdersInv
<1>6. CASE UNCHANGED vars
  BY <1>5, <1>6 DEF vars
<1>7. ASSUME NEW t \in Threads, Crash(t)
      PROVE  OrdersInv'
  BY <1>5, <1>7 DEF Crash
<1> QED
  BY <1>3, <1>4, <1>5, <1>6, <1>7, NextSteps

----------------------------------------------------------------------------
(* Stock leaves where the order is routed: SoldWhereRouted *)

\* What a job may ask of depot-service, and why.
Asks(t, op, d) ==
    /\ job[t] # NoJob /\ Ask(t, op, job[t].o, d)
    /\ d \in Depots \cup {NoDepot}
    /\ \/ op = "release" /\ job[t].at \in {"create", "lost"} /\ d = job[t].d
       \/ op = "release" /\ job[t].at = "drop" /\ d = job[t].d /\ d # NoDepot
       \/ op = "release" /\ job[t].at = "route" /\ job[t].op = "reroute" /\ d = job[t].from
       \/ /\ op = "consume" /\ job[t].at = "handle" /\ job[t].topic = "INVENTORY_CONSUME"
          /\ d = order[job[t].o].depot /\ d # NoDepot /\ UNCHANGED order
       \/ /\ op = "restock" /\ job[t].at = "callOff"
          /\ d = job[t].from /\ d # NoDepot /\ UNCHANGED order

LEMMA JobStepAsks ==
    ASSUME TypeOK, NEW t \in Threads, JobStep(t)
    PROVE  UNCHANGED call \/ Return(t) \/ \E op \in CallOps, d \in Depots \cup {NoDepot} : Asks(t, op, d)
<1>1. job[t] # NoJob =>
         /\ job[t].d \in Depots \cup {NoDepot} /\ job[t].from \in Depots \cup {NoDepot}
         /\ order[job[t].o].depot \in Depots \cup {NoDepot}
  BY DEF TypeOK, Job, OrderRow
<1>2. CASE Reserved(t) \/ Create(t) \/ Route(t) \/ ReleaseLostHold(t) \/ Drop(t)
  BY <1>1, <1>2
     DEF Reserved, Create, Route, DepotLeft, ReleaseLostHold, Drop, At, Wait, Asks, CallOps
<1>3. CASE ApplyStatus(t) \/ Due(t) \/ Deliver(t) \/ ReversePayment(t) \/ MarkDone(t) \/ MarkFailed(t)
  BY <1>3 DEF ApplyStatus, Due, Deliver, ReversePayment, MarkDone, MarkFailed, NoCallMade
<1>4. CASE ConsumeStock(t) \/ Consumed(t)
  BY <1>1, <1>4 DEF ConsumeStock, Consumed, At, Wait, Asks, CallOps, orders
<1>5. CASE PayBack(t) \/ VoidWalkIn(t) \/ CallOff(t)
  BY <1>1, <1>5 DEF PayBack, VoidWalkIn, CallOff, NoCallMade, At, Wait, Asks, CallOps
<1>6. CASE Finish(t) \/ Abandoned(t)
  BY <1>6 DEF Finish, Abandoned
<1> QED
  BY <1>2, <1>3, <1>4, <1>5, <1>6 DEF JobStep

LEMMA AskedCall ==
    ASSUME DepotTypeOK, NEW t \in Threads, NEW op, NEW o, NEW d, Ask(t, op, o, d)
    PROVE  /\ \A s \in Threads : s # t => call'[s] = call[s]
           /\ call[t] = NoCall
           /\ call'[t].op = op /\ call'[t].o = o /\ call'[t].left = LinesFor(o, d)
BY DEF DepotTypeOK, Ask

\* By itself depot-service starts no call, and a call only has fewer lines left.
CallGoesOn(s) ==
    call'[s] # NoCall =>
        /\ call[s] # NoCall /\ call'[s].op = call[s].op /\ call'[s].o = call[s].o
        /\ call'[s].left \subseteq call[s].left

LEMMA AnswerGoesOn ==
    ASSUME DepotTypeOK, NEW t \in Threads, call[t] # NoCall, NEW ok, Answer(t, ok)
    PROVE  \A s \in Threads : CallGoesOn(s)
<1>1. call[t] \in Call
  BY DEF DepotTypeOK
<1>2. call' = [call EXCEPT ![t] = [call[t] EXCEPT !.at = "reply", !.ok = ok]]
  BY DEF DepotTypeOK, Answer
<1> QED
  BY <1>1, <1>2 DEF DepotTypeOK, Call, CallGoesOn

LEMMA LineDoneGoesOn ==
    ASSUME DepotTypeOK, NEW t \in Threads, call[t] # NoCall, NEW l, LineDone(t, l)
    PROVE  /\ \A s \in Threads : CallGoesOn(s) /\ (s # t => call'[s] = call[s])
           /\ call'[t].left = call[t].left \ {l}
<1> DEFINE done == call[t].left \subseteq {l}
           next == [call[t] EXCEPT !.left = @ \ {l},
                                   !.at = IF done THEN "reply" ELSE @, !.ok = done]
<1>1. call[t] \in Call
  BY DEF DepotTypeOK
<1>2. call' = [call EXCEPT ![t] = next]
  BY DEF DepotTypeOK, LineDone
<1>3. next.left = call[t].left \ {l} /\ next.op = call[t].op /\ next.o = call[t].o
  BY <1>1 DEF Call
<1> HIDE DEF next
<1>4. \A s \in Threads : call'[s] = IF s = t THEN next ELSE call[s]
  BY <1>2 DEF DepotTypeOK
<1> QED
  BY <1>3, <1>4 DEF CallGoesOn

LEMMA CallStepGoesOn ==
    ASSUME DepotTypeOK, NEW t \in Threads, CallStep(t) \/ Break(t)
    PROVE  \A s \in Threads : CallGoesOn(s)
<1> DEFINE held == [call[t] EXCEPT !.at = "run", !.left = {l \in @ : hold[l][call[t].o] = "NONE"}]
           seen == [call[t] EXCEPT !.at = "run", !.seen = {l \in call[t].left : call[t].o \in sold[l]}]
<1>1. CASE CheckHolds(t)
  <2>1. call[t] \in Call /\ call[t] # NoCall
    BY <1>1 DEF DepotTypeOK, CheckHolds, Running
  <2>2. held.op = call[t].op /\ held.o = call[t].o /\ held.left \subseteq call[t].left
    BY <2>1 DEF Call
  <2>3. call' = [call EXCEPT ![t] = held]
    BY <1>1 DEF DepotTypeOK, CheckHolds
  <2> HIDE DEF held
  <2> QED
    BY <2>1, <2>2, <2>3 DEF DepotTypeOK, CallGoesOn
<1>2. CASE CheckSales(t)
  <2>1. call[t] \in Call /\ call[t] # NoCall
    BY <1>2 DEF DepotTypeOK, CheckSales, Running
  <2>2. seen.op = call[t].op /\ seen.o = call[t].o /\ seen.left \subseteq call[t].left
    BY <2>1 DEF Call
  <2>3. call' = [call EXCEPT ![t] = seen]
    BY <1>2 DEF DepotTypeOK, CheckSales
  <2> HIDE DEF seen
  <2> QED
    BY <2>1, <2>2, <2>3 DEF DepotTypeOK, CallGoesOn
<1>3. CASE Reserve(t) \/ NothingToDo(t) \/ Break(t)
  BY <1>3, AnswerGoesOn DEF Reserve, NothingToDo, Break, Running
<1>4. CASE Sell(t)
  <2>1. call[t] \in Call /\ call[t] # NoCall
    BY <1>4 DEF DepotTypeOK, Sell, Running
  <2>2. PICK l \in call[t].left :
           call' = [call EXCEPT ![t].seen = @ \cup {l}] \/ Answer(t, FALSE)
    BY <1>4 DEF Sell
  <2>3. CASE call' = [call EXCEPT ![t].seen = @ \cup {l}]
    <3>1. call' = [call EXCEPT ![t] = [call[t] EXCEPT !.seen = @ \cup {l}]]
      BY <2>3 DEF DepotTypeOK
    <3> QED
      BY <2>1, <3>1 DEF DepotTypeOK, Call, CallGoesOn
  <2> QED
    BY <2>1, <2>2, <2>3, AnswerGoesOn
<1>5. CASE SettleSale(t) \/ Release(t)
  BY <1>5, LineDoneGoesOn DEF SettleSale, Release, Running
<1>6. CASE Restock(t)
  BY <1>6, LineDoneGoesOn, AnswerGoesOn DEF Restock, Running
<1> QED
  BY <1>1, <1>2, <1>3, <1>4, <1>5, <1>6 DEF CallStep

LEMMA CallStepSells ==
    ASSUME DepotTypeOK, NEW t \in Threads, CallStep(t) \/ Break(t)
    PROVE  \A l \in Lines : \A o \in sold'[l] :
              o \in sold[l] \/ (call[t] # NoCall /\ call[t].op = "consume" /\ call[t].o = o /\ l \in call[t].left)
<1>1. CASE Sell(t)
  <2>1. PICK l \in call[t].left : \/ sold' = [sold EXCEPT ![l] = @ \cup {call[t].o}]
                                  \/ UNCHANGED sold
    BY <1>1 DEF Sell
  <2>2. call[t] # NoCall /\ call[t].op = "consume"
    BY <1>1 DEF Sell, Running
  <2> QED
    BY <2>1, <2>2 DEF DepotTypeOK
<1>2. CASE ~Sell(t)
  BY <1>2 DEF CallStep, CheckHolds, Reserve, CheckSales, SettleSale, Release, Restock, NothingToDo,
              Break, shelf
<1> QED
  BY <1>1, <1>2

\* A sale on its way is of an order that was sold, on lines of the order's depot.
SellsWhereRouted ==
    \A t \in Threads :
        call[t] # NoCall /\ call[t].op = "consume" =>
            /\ order[call[t].o].status \in Sold /\ order[call[t].o].depot # NoDepot
            /\ call[t].left \subseteq LinesFor(call[t].o, order[call[t].o].depot)

SoldInv == SellsWhereRouted /\ SoldWhereRouted

LEMMA MovesKeepSold ==
    ASSUME TypeOK, NEW o \in Orders, OrderMove(order[o], order'[o]), order' \in [Orders -> OrderRow],
           order[o].status \in Sold, order[o].depot # NoDepot
    PROVE  order'[o].status \in Sold /\ order'[o].depot = order[o].depot
<1>1. order[o] \in OrderRow /\ order'[o] \in OrderRow
  BY DEF TypeOK
<1> QED
  BY <1>1, MovesKeep

LEMMA JobStepSold ==
    ASSUME OrdersInv, SoldInv, NEW t \in Threads, JobStep(t)
    PROVE  SoldInv'
<1>1. TypeOK /\ JobsFit /\ RowsEarned /\ DepotTypeOK
  BY DEF OrdersInv, TypeOK
<1>2. order' \in [Orders -> OrderRow] /\ \A o \in Orders : OrderMove(order[o], order'[o])
  BY <1>1, JobStepRows, JobStepMoves
<1>3. UNCHANGED sold
  BY <1>1, JobStepSpeaks DEF ShelfKept, shelf
<1>4. SoldWhereRouted'
  <2> SUFFICES ASSUME NEW l \in Lines, NEW o \in sold[l]
               PROVE  order'[o].status \in Sold /\ DepotOf[l] = order'[o].depot
    BY <1>3 DEF SoldWhereRouted, Sold
  <2>1. o \in Orders
    BY <1>1 DEF DepotTypeOK
  <2>2. order[o].status \in Sold /\ DepotOf[l] = order[o].depot
    BY DEF SoldInv, SoldWhereRouted, Sold
  <2>3. order[o].depot # NoDepot
    BY <2>2, LinesAssumption, NoDepotAssumption
  <2> QED
    BY <1>1, <1>2, <2>1, <2>2, <2>3, MovesKeepSold
<1>5. SellsWhereRouted'
  <2> SUFFICES ASSUME NEW s \in Threads, call'[s] # NoCall, call'[s].op = "consume"
               PROVE  /\ order'[call'[s].o].status \in Sold /\ order'[call'[s].o].depot # NoDepot
                      /\ call'[s].left \subseteq LinesFor(call'[s].o, order'[call'[s].o].depot)
    BY DEF SellsWhereRouted, LinesFor
  <2>1. CASE call'[s] = call[s]
    <3>1. /\ order[call[s].o].status \in Sold /\ order[call[s].o].depot # NoDepot
          /\ call[s].left \subseteq LinesFor(call[s].o, order[call[s].o].depot)
      BY <2>1 DEF SoldInv, SellsWhereRouted
    <3>2. call[s].o \in Orders
      BY <1>1, <2>1, CallFields
    <3>3. order'[call[s].o].status \in Sold /\ order'[call[s].o].depot = order[call[s].o].depot
      BY <1>1, <1>2, <3>1, <3>2, MovesKeepSold
    <3> QED
      BY <2>1, <3>1, <3>3
  <2>2. CASE call'[s] # call[s]
    <3>1. PICK op \in CallOps, d \in Depots \cup {NoDepot} : Asks(t, op, d)
      <4>1. ~UNCHANGED call /\ ~Return(t)
        BY <1>1, <2>2 DEF Return, DepotTypeOK
      <4> QED
        BY <1>1, <4>1, JobStepAsks DEF Asks
    <3>2. s = t /\ op = "consume" /\ call'[s].o = job[t].o /\ call'[s].left = LinesFor(job[t].o, d)
      BY <1>1, <2>2, <3>1, AskedCall DEF Asks
    <3>3. /\ job[t] # NoJob /\ job[t].at = "handle" /\ job[t].topic = "INVENTORY_CONSUME"
          /\ d = order[job[t].o].depot /\ d # NoDepot /\ UNCHANGED order
      BY <3>1, <3>2 DEF Asks
    <3>4. row[job[t].o]["INVENTORY_CONSUME"].state # "NONE" /\ job[t].o \in Orders
      BY <1>1, <3>3 DEF JobsFit, HasItsRow, Delivering, TypeOK, Job
    <3>5. order[job[t].o].status \in Sold
      BY <1>1, <3>4 DEF RowsEarned, Topics
    <3> QED
      BY <3>2, <3>3, <3>5
  <2> QED
    BY <2>1, <2>2
<1> QED
  BY <1>4, <1>5 DEF SoldInv

LEMMA BeginsSold ==
    ASSUME TypeOK, SoldInv, NEW t \in Threads, NEW j \in Job, Begins(t, j)
    PROVE  SoldInv'
<1>1. UNCHANGED <<order, sold>>
  BY DEF Begins, ShelfKept, shelf
<1>2. \A s \in Threads : call'[s] # NoCall /\ call'[s].op = "consume" => call'[s] = call[s]
  BY AskedCall DEF TypeOK, Begins
<1> QED
  BY <1>1, <1>2 DEF SoldInv, SellsWhereRouted, SoldWhereRouted

LEMMA DepotSideSold ==
    ASSUME TypeOK, SoldInv, NEW t \in Threads, CallStep(t) \/ Break(t), UNCHANGED orders
    PROVE  SoldInv'
<1>1. UNCHANGED order
  BY DEF orders
<1>2. \A s \in Threads : CallGoesOn(s)
  BY CallStepGoesOn DEF TypeOK
<1>3. SellsWhereRouted'
  <2> SUFFICES ASSUME NEW s \in Threads, call'[s] # NoCall, call'[s].op = "consume"
               PROVE  /\ order[call'[s].o].status \in Sold /\ order[call'[s].o].depot # NoDepot
                      /\ call'[s].left \subseteq LinesFor(call'[s].o, order[call'[s].o].depot)
    BY <1>1 DEF SellsWhereRouted
  <2> QED
    BY <1>2 DEF CallGoesOn, SoldInv, SellsWhereRouted
<1>4. SoldWhereRouted'
  <2> SUFFICES ASSUME NEW l \in Lines, NEW o \in sold'[l]
               PROVE  order[o].status \in Sold /\ DepotOf[l] = order[o].depot
    BY <1>1 DEF SoldWhereRouted, Sold
  <2>1. CASE o \in sold[l]
    BY <2>1 DEF SoldInv, SoldWhereRouted, Sold
  <2>2. CASE o \notin sold[l]
    <3>1. call[t] # NoCall /\ call[t].op = "consume" /\ call[t].o = o /\ l \in call[t].left
      BY <2>2, CallStepSells DEF TypeOK
    <3> QED
      BY <3>1 DEF SoldInv, SellsWhereRouted, LinesFor
  <2> QED
    BY <2>1, <2>2
<1> QED
  BY <1>3, <1>4 DEF SoldInv

LEMMA NextSold ==
    ASSUME OrdersInv, SoldInv, [Next]_vars
    PROVE  SoldInv'
<1>1. TypeOK
  BY DEF OrdersInv
<1>2. ASSUME UNCHANGED <<orders, call, sold>>
      PROVE  SoldInv'
  BY <1>2 DEF orders, SoldInv, SellsWhereRouted, SoldWhereRouted
<1>3. CASE UNCHANGED vars
  BY <1>2, <1>3 DEF vars, depotVars
<1>4. ASSUME NEW t \in Threads, Crash(t)
      PROVE  SoldInv'
  BY <1>2, <1>4 DEF Crash, NoCallMade, shelf
<1>5. ASSUME CountStep, UNCHANGED <<orders, job>>
      PROVE  SoldInv'
  BY <1>2, <1>5 DEF CountStep, BeginCount, WriteCount, shelf
<1>6. ASSUME NEW t \in Threads, NEW o \in Orders, Request(t, o)
      PROVE  SoldInv'
  BY <1>1, <1>6, RequestBegins, BeginsSold
<1> QED
  BY <1>1, <1>3, <1>4, <1>5, <1>6, NextSteps, JobStepSold, DepotSideSold

LEMMA InitSold == Init => SoldInv
<1> SUFFICES ASSUME Init PROVE SoldInv
  OBVIOUS
<1>1. (\A t \in Threads : call[t] = NoCall) /\ \A l \in Lines : sold[l] = {}
  BY DEF Init, DepotInit
<1> QED
  BY <1>1 DEF SoldInv, SellsWhereRouted, SoldWhereRouted

\* Stock leaves only the depot an order ended up at, and only for an order that
\* was completed, whatever is rerouted, retried, crashed or delivered twice.
THEOREM SoldAtTheRightDepot == Spec => []SoldWhereRouted
<1>1. Init => OrdersInv /\ SoldInv
  BY InitOrders, InitSold
<1>2. OrdersInv /\ SoldInv /\ [Next]_vars => OrdersInv' /\ SoldInv'
  BY NextOrders, NextSold
<1>3. SoldInv => SoldWhereRouted
  BY DEF SoldInv
<1> QED
  BY <1>1, <1>2, <1>3, PTL DEF Spec

----------------------------------------------------------------------------
(* What a completed order owes: CompletedOwesStock *)

\* Every order went through a checkout, which chose its depot; whoever moves it
\* has read that depot.
AllRouted ==
    /\ \A o \in Orders : order[o].status # "NONE" => order[o].depot # NoDepot
    /\ \A t \in Threads : job[t] # NoJob /\ job[t].op \in Moving => job[t].from # NoDepot
AllOwed ==
    \A o \in Orders : order[o].status = "COMPLETED" => row[o]["INVENTORY_CONSUME"].state # "NONE"

OwesInv == AllRouted /\ AllOwed

LEMMA JobStepOwes ==
    ASSUME OrdersInv, OwesInv, NEW t \in Threads, JobStep(t)
    PROVE  OwesInv'
<1>1. TypeOK /\ JobsFit /\ order' \in [Orders -> OrderRow] /\ order \in [Orders -> OrderRow] /\ RowsMove
  BY JobStepRows DEF OrdersInv, TypeOK
<1>2. ASSUME NEW o \in Orders, order'[o].status # "NONE"
      PROVE  order'[o].depot # NoDepot
  <2>1. OrderMove(order[o], order'[o])
    BY JobStepMoves
  <2>2. order[o].status # "NONE" => order'[o].depot # NoDepot
    BY <1>1, <2>1, MovesKeep DEF OwesInv, AllRouted
  <2>3. order[o].status = "NONE" => Creates(order[o], order'[o]) \/ Routes(order[o], order'[o])
    BY <1>2, <2>1 DEF OrderMove, MovesOn, IsVoided, CanTransition, Dispatched, Standing
  <2> QED
    BY <2>2, <2>3, NoDepotAssumption DEF Creates, Routes
<1>3. ASSUME NEW s \in Threads, job'[s] # NoJob, job'[s].op \in Moving
      PROVE  job'[s].from # NoDepot
  BY <1>1, <1>3, JobStepKeeps DEF JobKeeps, OwesInv, AllRouted
<1>4. ASSUME NEW o \in Orders, order'[o].status = "COMPLETED"
      PROVE  row'[o]["INVENTORY_CONSUME"].state # "NONE"
  <2>1. "INVENTORY_CONSUME" \in Topics
    BY DEF Topics
  <2>2. CASE order[o].status = "COMPLETED"
    BY <1>1, <2>1, <2>2 DEF OwesInv, AllOwed, RowsMove, RowMove
  <2>3. CASE order[o].status # "COMPLETED"
    <3>1. /\ job[t] # NoJob /\ job[t].at \in {"create", "route", "write"} /\ o = job[t].o
      BY <1>1, <1>4, <2>3, WritersOnly
    <3>2. job[t] \in Job /\ JobFits(job[t]) /\ job[t].op \in Ops
      BY <1>1, <3>1 DEF TypeOK, JobsFit, Job
    <3>3. CASE Create(t)
      BY <1>1, <1>4, <2>3, <3>1, <3>3, CreateRows
    <3>4. CASE ApplyStatus(t)
      <4>1. job[t].op \in Moving
        BY <3>1, <3>2, <3>4 DEF ApplyStatus, At, JobFits, Places, Delivering, Moving, Ops
      <4>2. job[t].from # NoDepot
        BY <3>1, <4>1 DEF OwesInv, AllRouted
      <4> QED
        BY <1>1, <1>4, <2>3, <3>1, <3>4, <4>2, ApplyStatusRows
    <3>5. CASE Route(t)
      BY <1>1, <1>4, <2>3, <3>1, <3>5, RouteOrder
    <3>6. CASE VoidWalkIn(t)
      BY <1>1, <1>4, <2>3, <3>1, <3>6, VoidOrder
    <3>7. CASE MarkDone(t) \/ MarkFailed(t) \/ CallOff(t)
      BY <1>4, <2>3, <3>7 DEF MarkDone, MarkFailed, CallOff
    <3>8. CASE \/ Reserved(t) \/ ReleaseLostHold(t) \/ Drop(t) \/ Due(t) \/ Deliver(t)
               \/ ConsumeStock(t) \/ Consumed(t) \/ Finish(t) \/ Abandoned(t)
               \/ ReversePayment(t) \/ PayBack(t)
      BY <1>4, <2>3, <3>8 DEF Reserved, ReleaseLostHold, Drop, Due, Deliver, ConsumeStock, Consumed,
         Finish, Abandoned, ReversePayment, PayBack, orders
    <3> QED
      BY <3>3, <3>4, <3>5, <3>6, <3>7, <3>8 DEF JobStep
  <2> QED
    BY <2>2, <2>3
<1> QED
  BY <1>2, <1>3, <1>4 DEF OwesInv, AllRouted, AllOwed

LEMMA NextOwes ==
    ASSUME OrdersInv, OwesInv, [Next]_vars
    PROVE  OwesInv'
<1>1. TypeOK
  BY DEF OrdersInv
<1>2. ASSUME UNCHANGED orders, UNCHANGED job \/ \E t \in Threads : Done(t)
      PROVE  OwesInv'
  <2>1. \A s \in Threads : job'[s] # NoJob => job'[s] = job[s]
    BY <1>1, <1>2 DEF TypeOK, Done
  <2> QED
    BY <1>2, <2>1 DEF orders, OwesInv, AllRouted, AllOwed
<1>3. CASE UNCHANGED vars
  BY <1>2, <1>3 DEF vars
<1>4. ASSUME NEW t \in Threads, Crash(t)
      PROVE  OwesInv'
  BY <1>2, <1>4 DEF Crash
<1>5. ASSUME NEW t \in Threads, NEW o \in Orders, Request(t, o)
      PROVE  OwesInv'
  <2>1. PICK j \in Job : BegunAs(j, o) /\ Begins(t, j)
    BY <1>1, <1>5, RequestBegins
  <2>2. j.op \in Moving => order[o].status # "NONE" /\ j.from = order[o].depot
    BY <2>1 DEF BegunAs, Moving, CanTransition, Dispatched, Standing
  <2>3. \A s \in Threads : job'[s] = IF s = t THEN j ELSE job[s]
    BY <1>1, <2>1 DEF TypeOK, Begins
  <2>4. UNCHANGED <<order, row>>
    BY <2>1 DEF Begins
  <2> QED
    BY <2>2, <2>3, <2>4 DEF OwesInv, AllRouted, AllOwed
<1> QED
  BY <1>2, <1>3, <1>4, <1>5, NextSteps, JobStepOwes

LEMMA InitOwes ==
    ASSUME "legacy" \notin Kinds, Init
    PROVE  OwesInv
<1>1. PICK kind \in [Orders -> Kinds] :
         order = [o \in Orders |->
                     [kind |-> kind[o], depot |-> NoDepot, dispatched |-> FALSE,
                      status |-> IF kind[o] = "legacy" THEN "CREATED" ELSE "NONE"]]
  BY DEF Init
<1>2. \A o \in Orders : kind[o] # "legacy"
  OBVIOUS
<1>3. \A o \in Orders : order[o].status = "NONE"
  BY <1>1, <1>2
<1>4. \A t \in Threads : job[t] = NoJob
  BY DEF Init
<1> QED
  BY <1>3, <1>4 DEF OwesInv, AllRouted, AllOwed

\* H-10: an order that a checkout wrote is never COMPLETED without its stock
\* consume being owed, in the very write that completes it.
THEOREM CompletionOwesStock ==
    ASSUME "legacy" \notin Kinds
    PROVE  Spec => []CompletedOwesStock
<1>1. Init => OrdersInv /\ OwesInv
  BY InitOrders, InitOwes
<1>2. OrdersInv /\ OwesInv /\ [Next]_vars => OrdersInv' /\ OwesInv'
  BY NextOrders, NextOwes
<1>3. OwesInv => CompletedOwesStock
  BY DEF OwesInv, AllOwed, CompletedOwesStock
<1> QED
  BY <1>1, <1>2, <1>3, PTL DEF Spec

----------------------------------------------------------------------------
(* Money goes back for orders that are over: MoneyBackOnlyIfOver *)

\* Which steps of a request write its order, and what they write.
LEMMA OrderSteps ==
    ASSUME OrdersInv, NEW t \in Threads, JobStep(t), NEW o \in Orders, order'[o] # order[o]
    PROVE  /\ job[t] # NoJob /\ o = job[t].o
           /\ \/ /\ Create(t) /\ job[t].at = "create" /\ job[t].op = "checkout"
                 /\ order[o].status = "NONE" /\ order'[o].depot = job[t].d
                 /\ order'[o].status \in {"CREATED", "CONFIRMED", "COMPLETED"}
              \/ /\ Route(t) /\ job[t].at = "route" /\ job[t].op \in {"assign", "reroute"}
                 /\ MayRoute(job[t])
                 /\ order'[o].status = order[o].status /\ order'[o].depot = job[t].d
              \/ /\ ApplyStatus(t) /\ job[t].at = "write" /\ job[t].op \in Moving
                 /\ CanTransition(order[o].status, order'[o].status)
                 /\ order'[o].status = job[t].to /\ order'[o].depot = order[o].depot
              \/ /\ VoidWalkIn(t) /\ job[t].at = "write" /\ job[t].op = "void"
                 /\ order[o].status = "COMPLETED"
                 /\ order'[o].status = "VOIDED" /\ order'[o].depot = order[o].depot
<1>1. TypeOK /\ JobsFit /\ OrdersFresh
  BY DEF OrdersInv
<1>2. /\ job[t] # NoJob /\ job[t].at \in {"create", "route", "write"} /\ o = job[t].o
      /\ ~UNCHANGED order
  BY <1>1, WritersOnly
<1>3. job[t] \in Job /\ JobFits(job[t]) /\ job[t].op \in Ops
  BY <1>1, <1>2 DEF TypeOK, JobsFit, Job
<1>4. CASE Create(t)
  <2>1. job[t].at = "create" /\ job[t].op = "checkout"
    BY <1>3, <1>4 DEF Create, At, JobFits, Places, Delivering, Moving, Ops
  <2>2. order[o].status = "NONE"
    BY <1>1, <1>2, <2>1 DEF OrdersFresh
  <2> QED
    BY <1>1, <1>2, <1>4, <2>1, <2>2, CreateRows
<1>5. CASE ApplyStatus(t)
  <2>1. job[t].at = "write" /\ job[t].op # "void"
    BY <1>5 DEF ApplyStatus, At
  <2>2. job[t].op \in Moving
    BY <1>3, <2>1 DEF JobFits, Places, Delivering, Moving, Ops
  <2>3. CanTransition(job[t].seen, job[t].to)
    BY <1>3, <2>2 DEF JobFits
  <2> QED
    BY <1>1, <1>2, <1>5, <2>1, <2>2, <2>3, ApplyStatusRows
<1>6. CASE Route(t)
  <2>1. job[t].at = "route" /\ job[t].op \in {"assign", "reroute"}
    BY <1>3, <1>6 DEF Route, At, JobFits, Places, Delivering, Moving, Ops
  <2> QED
    BY <1>1, <1>2, <1>6, <2>1, RouteOrder
<1>7. CASE VoidWalkIn(t)
  BY <1>1, <1>2, <1>7, VoidOrder DEF VoidWalkIn, At
<1>8. CASE MarkDone(t) \/ MarkFailed(t) \/ CallOff(t)
  BY <1>2, <1>8 DEF MarkDone, MarkFailed, CallOff
<1>9. CASE \/ Reserved(t) \/ ReleaseLostHold(t) \/ Drop(t) \/ Due(t) \/ Deliver(t)
           \/ ConsumeStock(t) \/ Consumed(t) \/ Finish(t) \/ Abandoned(t)
           \/ ReversePayment(t) \/ PayBack(t)
  BY <1>2, <1>9 DEF Reserved, ReleaseLostHold, Drop, Due, Deliver, ConsumeStock, Consumed, Finish,
                    Abandoned, ReversePayment, PayBack, orders
<1> QED
  BY <1>4, <1>5, <1>6, <1>7, <1>8, <1>9 DEF JobStep

\* Only a sale rung up at a counter is voided, and a void that goes on to its
\* status has given the money back.
VoidsAreRungUp ==
    \A t \in Threads :
        job[t] # NoJob /\ job[t].op = "void" =>
            /\ order[job[t].o].kind \in RungUp
            /\ job[t].at = "write" => moneyBack[job[t].o]

MoneyInv == VoidsAreRungUp /\ MoneyBackOnlyIfOver

\* What payment-service gave back it never takes again, and only a void or the
\* outbox of a cancellation asks for it.
LEMMA JobStepPays ==
    ASSUME OrdersInv, NEW t \in Threads, JobStep(t)
    PROVE  /\ \A o \in Orders : moneyBack[o] => moneyBack'[o]
           /\ \A o \in Orders : moneyBack'[o] # moneyBack[o] =>
                 job[t] # NoJob /\ job[t].o = o /\ (PayBack(t) \/ ReversePayment(t))
<1>1. TypeOK
  BY DEF OrdersInv
<1>2. CASE \/ Reserved(t) \/ Create(t) \/ Route(t) \/ ReleaseLostHold(t) \/ ApplyStatus(t) \/ Drop(t)
           \/ Due(t) \/ Deliver(t)
  BY <1>2 DEF Reserved, Create, Route, ReleaseLostHold, ApplyStatus, Drop, Due, Deliver, orders
<1>3. CASE \/ ConsumeStock(t) \/ Consumed(t) \/ MarkDone(t) \/ MarkFailed(t) \/ VoidWalkIn(t)
           \/ CallOff(t) \/ Finish(t) \/ Abandoned(t)
  BY <1>3 DEF ConsumeStock, Consumed, MarkDone, MarkFailed, VoidWalkIn, CallOff, Finish,
              Abandoned, orders
<1>4. CASE PayBack(t) \/ ReversePayment(t)
  <2>1. job[t] # NoJob /\ moneyBack \in [Orders -> BOOLEAN]
    BY <1>1, <1>4 DEF PayBack, ReversePayment, At, TypeOK
  <2>2. moneyBack' = [moneyBack EXCEPT ![job[t].o] = TRUE] \/ moneyBack' = moneyBack
    BY <1>4 DEF PayBack, ReversePayment
  <2> QED
    BY <1>4, <2>1, <2>2
<1> QED
  BY <1>2, <1>3, <1>4 DEF JobStep

\* A void gets to its write by paying back.
LEMMA PaidToWrite ==
    ASSUME OrdersInv, NEW t \in Threads, JobStep(t), NEW s \in Threads, job'[s] # job[s],
           job'[s] # NoJob, job'[s].op = "void", job'[s].at = "write"
    PROVE  moneyBack'[job'[s].o]
<1>1. TypeOK /\ JobKeeps(t, s) /\ s = t
  BY JobStepKeeps DEF OrdersInv, JobKeeps
<1>2. job[t] # NoJob /\ job[t] \in Job /\ job[t].op = "void" /\ job[t].o = job'[t].o
  BY <1>1 DEF JobKeeps, TypeOK
<1>3. job[t].at = "payBack"
  BY <1>1, <1>2 DEF JobKeeps, Follows
<1>4. PayBack(t)
  <2>1. ~(\/ Reserved(t) \/ Create(t) \/ Route(t) \/ ReleaseLostHold(t) \/ ApplyStatus(t) \/ Drop(t)
          \/ Due(t) \/ Deliver(t) \/ ConsumeStock(t) \/ Consumed(t) \/ ReversePayment(t)
          \/ MarkDone(t) \/ MarkFailed(t) \/ VoidWalkIn(t) \/ CallOff(t) \/ Finish(t) \/ Abandoned(t))
    BY <1>2, <1>3 DEF Reserved, Create, Route, ReleaseLostHold, ApplyStatus, Drop, Due, Deliver,
       ConsumeStock, Consumed, ReversePayment, MarkDone, MarkFailed, VoidWalkIn, CallOff, Finish,
       Abandoned, At
  <2> QED
    BY <2>1 DEF JobStep
<1>5. ~Done(t)
  BY <1>1 DEF Done, TypeOK
<1>6. moneyBack' = [moneyBack EXCEPT ![job[t].o] = TRUE] /\ job[t].o \in Orders
  BY <1>2, <1>4, <1>5 DEF PayBack, Job
<1> QED
  BY <1>1, <1>2, <1>6 DEF TypeOK

LEMMA JobStepRungUp ==
    ASSUME OrdersInv, MoneyInv, NEW t \in Threads, JobStep(t)
    PROVE  VoidsAreRungUp'
<1>1. TypeOK /\ order' \in [Orders -> OrderRow] /\ order \in [Orders -> OrderRow]
  BY JobStepRows DEF OrdersInv, TypeOK
<1> SUFFICES ASSUME NEW s \in Threads, job'[s] # NoJob, job'[s].op = "void"
             PROVE  /\ order'[job'[s].o].kind \in RungUp
                    /\ job'[s].at = "write" => moneyBack'[job'[s].o]
  BY DEF VoidsAreRungUp
<1>2. job[s] # NoJob /\ job[s].op = "void" /\ job[s].o = job'[s].o
  BY <1>1, JobStepKeeps DEF JobKeeps
<1>3. job[s].o \in Orders /\ order[job[s].o].kind \in RungUp
  BY <1>1, <1>2 DEF MoneyInv, VoidsAreRungUp, TypeOK, Job
<1>4. order'[job[s].o].kind = order[job[s].o].kind
  BY <1>1, <1>3, JobStepMoves, MovesKeep
<1>5. ASSUME job'[s].at = "write"
      PROVE  moneyBack'[job'[s].o]
  <2>1. CASE job'[s] = job[s]
    BY <1>2, <1>3, <1>5, <2>1, JobStepPays DEF MoneyInv, VoidsAreRungUp
  <2>2. CASE job'[s] # job[s]
    BY <1>5, <2>2, PaidToWrite
  <2> QED
    BY <2>1, <2>2
<1> QED
  BY <1>2, <1>3, <1>4, <1>5

LEMMA JobStepMoney ==
    ASSUME OrdersInv, MoneyInv, NEW t \in Threads, JobStep(t)
    PROVE  MoneyBackOnlyIfOver'
<1>1. TypeOK /\ JobsFit /\ RowsEarned /\ order' \in [Orders -> OrderRow] /\ order \in [Orders -> OrderRow]
  BY JobStepRows DEF OrdersInv, TypeOK
<1> SUFFICES ASSUME NEW o \in Orders
             PROVE  /\ moneyBack'[o] /\ order'[o].kind \notin RungUp => order'[o].status \in Over
                    /\ order'[o].status = "VOIDED" => moneyBack'[o]
  BY DEF MoneyBackOnlyIfOver
<1>2. OrderMove(order[o], order'[o]) /\ order[o] \in OrderRow /\ order'[o] \in OrderRow
  BY <1>1, JobStepMoves
<1>3. /\ order'[o].kind = order[o].kind
      /\ order[o].status \in Over => order'[o].status \in Over
  BY <1>1, <1>2, MovesKeep DEF Over
<1>4. ASSUME moneyBack'[o], order'[o].kind \notin RungUp
      PROVE  order'[o].status \in Over
  <2>1. CASE moneyBack[o]
    BY <1>3, <1>4, <2>1 DEF MoneyInv, MoneyBackOnlyIfOver
  <2>2. CASE ~moneyBack[o]
    <3>1. job[t] # NoJob /\ job[t] \in Job /\ job[t].o = o /\ (PayBack(t) \/ ReversePayment(t))
      BY <1>1, <1>4, <2>2, JobStepPays DEF TypeOK
    <3>2. ~PayBack(t)
      <4>1. ASSUME PayBack(t)
            PROVE  job[t].op = "void"
        <5>1. job[t].at = "payBack" /\ JobFits(job[t]) /\ job[t].op \in Ops
          BY <1>1, <3>1, <4>1 DEF PayBack, At, JobsFit, Job
        <5> QED
          BY <5>1 DEF JobFits, Places, Delivering, Moving, Ops
      <4> QED
        BY <1>3, <1>4, <3>1, <4>1 DEF MoneyInv, VoidsAreRungUp
    <3>3. job[t].at = "handle" /\ job[t].topic = "PAYMENT_REVERSAL" /\ UNCHANGED order
      BY <3>1, <3>2 DEF ReversePayment, At
    <3>4. row[o]["PAYMENT_REVERSAL"].state # "NONE"
      BY <1>1, <3>1, <3>3 DEF JobsFit, HasItsRow, Delivering
    <3> QED
      BY <1>1, <3>3, <3>4 DEF RowsEarned, Topics, Over
  <2> QED
    BY <2>1, <2>2
<1>5. ASSUME order'[o].status = "VOIDED"
      PROVE  moneyBack'[o]
  <2>1. CASE order[o].status = "VOIDED"
    BY <2>1, JobStepPays DEF MoneyInv, MoneyBackOnlyIfOver
  <2>2. CASE order[o].status # "VOIDED"
    <3>1. order'[o] # order[o] /\ order[o].status = "COMPLETED"
      BY <1>2, <1>5, <2>2 DEF OrderMove, Creates, Routes, MovesOn, IsVoided, CanTransition
    <3>2. VoidWalkIn(t) /\ job[t] # NoJob /\ job[t].o = o /\ job[t].op = "void" /\ job[t].at = "write"
      <4>1. ~CanTransition(order[o].status, "VOIDED")
        BY DEF CanTransition
      <4>2. job[t] # NoJob /\ o = job[t].o
        BY <3>1, OrderSteps
      <4> QED
        BY <1>5, <3>1, <4>1, <4>2, OrderSteps
    <3>3. moneyBack[o]
      BY <3>2 DEF MoneyInv, VoidsAreRungUp
    <3> QED
      BY <3>3, JobStepPays
  <2> QED
    BY <2>1, <2>2
<1> QED
  BY <1>4, <1>5

LEMMA NextMoney ==
    ASSUME OrdersInv, MoneyInv, [Next]_vars
    PROVE  MoneyInv'
<1>1. TypeOK
  BY DEF OrdersInv
<1>2. ASSUME UNCHANGED orders, \A s \in Threads : job'[s] # NoJob => job'[s] = job[s]
      PROVE  MoneyInv'
  <2>1. UNCHANGED <<order, moneyBack>>
    BY <1>2 DEF orders
  <2> QED
    BY <1>2, <2>1 DEF MoneyInv, VoidsAreRungUp, MoneyBackOnlyIfOver
<1>3. CASE UNCHANGED vars
  BY <1>2, <1>3 DEF vars
<1>4. ASSUME NEW t \in Threads, Crash(t)
      PROVE  MoneyInv'
  BY <1>1, <1>2, <1>4 DEF Crash, Done, TypeOK
<1>5. ASSUME NEW t \in Threads, NEW o \in Orders, Request(t, o)
      PROVE  MoneyInv'
  <2>1. PICK j \in Job : BegunAs(j, o) /\ Begins(t, j)
    BY <1>1, <1>5, RequestBegins
  <2>2. j.op = "void" => order[j.o].kind \in RungUp /\ j.at = "payBack"
    BY <2>1 DEF BegunAs, RungUp
  <2>3. \A s \in Threads : job'[s] = IF s = t THEN j ELSE job[s]
    BY <1>1, <2>1 DEF TypeOK, Begins
  <2>4. UNCHANGED <<order, moneyBack>>
    BY <2>1 DEF Begins
  <2> QED
    BY <2>2, <2>3, <2>4 DEF MoneyInv, VoidsAreRungUp, MoneyBackOnlyIfOver
<1>6. ASSUME UNCHANGED <<orders, job>>
      PROVE  MoneyInv'
  BY <1>2, <1>6
<1>7. ASSUME NEW t \in Threads, JobStep(t)
      PROVE  MoneyInv'
  BY <1>7, JobStepRungUp, JobStepMoney DEF MoneyInv
<1> QED
  BY <1>3, <1>4, <1>5, <1>6, <1>7, NextSteps

LEMMA InitMoney ==
    ASSUME Init
    PROVE  MoneyInv
<1>1. PICK kind \in [Orders -> Kinds] :
         order = [o \in Orders |->
                     [kind |-> kind[o], depot |-> NoDepot, dispatched |-> FALSE,
                      status |-> IF kind[o] = "legacy" THEN "CREATED" ELSE "NONE"]]
  BY DEF Init
<1>2. \A o \in Orders : order[o].status # "VOIDED"
  BY <1>1
<1>3. (\A t \in Threads : job[t] = NoJob) /\ \A o \in Orders : ~moneyBack[o]
  BY DEF Init
<1> QED
  BY <1>2, <1>3 DEF MoneyInv, VoidsAreRungUp, MoneyBackOnlyIfOver

\* K2.3: the status decides first for the orders of the app, the money for the
\* sales of the counter, whatever is lost, aborted or dies on the way.
THEOREM MoneyBackIsForOver == Spec => []MoneyBackOnlyIfOver
<1>1. Init => OrdersInv /\ MoneyInv
  BY InitOrders, InitMoney
<1>2. OrdersInv /\ MoneyInv /\ [Next]_vars => OrdersInv' /\ MoneyInv'
  BY NextOrders, NextMoney
<1>3. MoneyInv => MoneyBackOnlyIfOver
  BY DEF MoneyInv
<1> QED
  BY <1>1, <1>2, <1>3, PTL DEF Spec

----------------------------------------------------------------------------
(* What depot-service sees of all this is DepotSpec *)

LEMMA AsksADepot ==
    ASSUME OrdersInv, NEW t \in Threads, NEW op, NEW d, Asks(t, op, d)
    PROVE  d \in Depots /\ job[t].o \in Orders
<1>1. TypeOK /\ JobsFit
  BY DEF OrdersInv
<1>2. job[t] # NoJob /\ job[t] \in Job /\ JobFits(job[t])
  BY <1>1 DEF Asks, TypeOK, JobsFit
<1>3. job[t].d \in Depots \cup {NoDepot} /\ job[t].from \in Depots \cup {NoDepot} /\ job[t].o \in Orders
  BY <1>2 DEF Job
<1>4. /\ job[t].at \in {"create", "lost"} => job[t].d \in Depots
      /\ job[t].op = "reroute" => job[t].from # NoDepot
  BY <1>2 DEF JobFits
<1> QED
  BY <1>3, <1>4 DEF Asks

LEMMA NextIsDepotNext ==
    ASSUME OrdersInv, [Next]_vars
    PROVE  [DepotNext]_depotVars
<1>1. TypeOK
  BY DEF OrdersInv
<1>2. CASE UNCHANGED vars
  BY <1>2 DEF vars
<1>3. ASSUME NEW t \in Threads, JobStep(t)
      PROVE  [DepotNext]_depotVars
  <2>1. ShelfKept
    BY <1>1, <1>3, JobStepSpeaks
  <2>2. CASE UNCHANGED call
    BY <2>1, <2>2 DEF ShelfKept, shelf, depotVars
  <2>3. CASE Return(t)
    BY <2>1, <2>3 DEF ShelfKept, DepotNext
  <2>4. ASSUME NEW op \in CallOps, NEW d \in Depots \cup {NoDepot}, Asks(t, op, d)
        PROVE  DepotNext
    <3>1. d \in Depots /\ job[t].o \in Orders
      BY <2>4, AsksADepot
    <3>2. Ask(t, op, job[t].o, d)
      BY <2>4 DEF Asks
    <3> QED
      BY <2>1, <3>1, <3>2 DEF ShelfKept, DepotNext
  <2> QED
    BY <1>1, <1>3, <2>2, <2>3, <2>4, JobStepAsks
<1>4. ASSUME NEW t \in Threads, Crash(t)
      PROVE  UNCHANGED depotVars
  BY <1>4 DEF Crash, NoCallMade, shelf, depotVars
<1>5. ASSUME NEW t \in Threads, NEW o \in Orders, Request(t, o)
      PROVE  [DepotNext]_depotVars
  <2>1. PICK j \in Job : BegunAs(j, o) /\ Begins(t, j)
    BY <1>1, <1>5, RequestBegins
  <2>2. CASE j.at # "reserve"
    BY <2>1, <2>2 DEF Begins, ShelfKept, shelf, depotVars
  <2>3. CASE j.at = "reserve"
    <3>1. j.d \in Depots /\ j.o = o /\ Ask(t, "reserve", o, j.d) /\ ShelfKept
      BY <2>1, <2>3 DEF BegunAs, Begins
    <3>2. "reserve" \in CallOps
      BY DEF CallOps
    <3> QED
      BY <3>1, <3>2 DEF ShelfKept, DepotNext
  <2> QED
    BY <2>2, <2>3
<1>6. (\E t \in Threads : CallStep(t) \/ Break(t)) \/ CountStep => DepotNext
  BY DEF DepotNext
<1> QED
  BY <1>2, <1>3, <1>4, <1>5, <1>6, NextSteps

\* order-service asks of depot-service only what DepotSpec lets anyone ask.
THEOREM FulfilmentImplementsDepot == Spec => DepotSpec
<1>1. Init => OrdersInv /\ DepotInit
  BY InitOrders DEF Init
<1> QED
  BY <1>1, NextOrders, NextIsDepotNext, PTL DEF Spec, DepotSpec

\* So what depot-service promises by itself holds under order-service's load:
\* the counter is the holds, the ledger is the shelf, all or nothing.
THEOREM StockUnderLoad ==
    Spec => /\ []HeldWholly /\ []ReservedIsHeld /\ []LedgerMatchesShelf
            /\ OnlySalesGoBelowZero
BY FulfilmentImplementsDepot, HeldAllOrNothing, ReservedCounts, LedgerBalances,
   BelowZeroOnlyBySale, PTL

----------------------------------------------------------------------------
(* Voided goods are put back once: RestockedOnce *)

\* A void that has won its order and not yet been answered, and what it still
\* has to put back.
Restocks(t, o) ==
    \/ job[t] # NoJob /\ job[t].op = "void" /\ job[t].at = "callOff" /\ job[t].o = o
    \/ call[t] # NoCall /\ call[t].op = "restock" /\ call[t].o = o
Awaits(t, o, l) ==
    \/ job[t] # NoJob /\ job[t].op = "void" /\ job[t].at = "callOff" /\ job[t].o = o
    \/ call[t] # NoCall /\ call[t].op = "restock" /\ call[t].o = o /\ l \in call[t].left
PutBack(l) == {o \in Orders : order[o].status = "VOIDED" /\ \A t \in Threads : ~Awaits(t, o, l)}

VoidsAreSilent ==
    \A t \in Threads :
        job[t] # NoJob /\ job[t].op = "void" /\ job[t].at # "last" => call[t] = NoCall
OneRestock ==
    \A o \in Orders : \A t \in Threads :
        Restocks(t, o) =>
            /\ order[o].status = "VOIDED"
            /\ \A s \in Threads : Restocks(s, o) => s = t
NetIsPutBack == \A l \in Lines : net[l] <= Cardinality(Units(PutBack(l)))

RestockInv == counts = {} /\ VoidsAreSilent /\ OneRestock /\ NetIsPutBack

LEMMA UnitsGrow ==
    ASSUME NEW S \in SUBSET Orders, NEW T \in SUBSET Orders, S \subseteq T
    PROVE  Cardinality(Units(S)) <= Cardinality(Units(T))
<1>1. Units(S) \subseteq Units(T)
  BY DEF Units
<1> QED
  BY <1>1, UnitsFinite, FS_Subset

\* While nothing is put back, the sets of what was put back only grow.
LEMMA NetStays ==
    ASSUME TypeOK, NetIsPutBack, UNCHANGED net,
           \A o \in Orders : order[o].status = "VOIDED" => order'[o].status = "VOIDED",
           \A t \in Threads, o \in Orders, l \in Lines :
               order[o].status = "VOIDED" /\ Awaits(t, o, l)' => Awaits(t, o, l)
    PROVE  NetIsPutBack'
<1> SUFFICES ASSUME NEW l \in Lines
             PROVE  net'[l] <= Cardinality(Units(PutBack(l)'))
  BY DEF NetIsPutBack, Units
<1>1. PutBack(l) \subseteq PutBack(l)'
  BY DEF PutBack
<1>2. PutBack(l) \in SUBSET Orders /\ PutBack(l)' \in SUBSET Orders
  BY DEF PutBack
<1>3. Cardinality(Units(PutBack(l))) <= Cardinality(Units(PutBack(l)'))
  BY <1>1, <1>2, UnitsGrow
<1>4. /\ Cardinality(Units(PutBack(l))) \in Nat /\ Cardinality(Units(PutBack(l)')) \in Nat
      /\ net[l] \in Int
  BY <1>2, UnitsFinite DEF TypeOK, DepotTypeOK
<1>5. net'[l] = net[l] /\ net[l] <= Cardinality(Units(PutBack(l)))
  BY DEF NetIsPutBack
<1> QED
  BY <1>3, <1>4, <1>5

\* A void job goes from the refund to the status to the outbox to the stock.
LEMMA VoidSteps ==
    ASSUME OrdersInv, NEW t \in Threads, JobStep(t), job[t] # NoJob, job[t].op = "void"
    PROVE  PayBack(t) \/ VoidWalkIn(t) \/ CallOff(t) \/ Finish(t)
<1>1. job[t].at \in {"payBack", "write", "callOff", "last"}
  BY DEF OrdersInv, TypeOK, JobsFit, JobFits, Places, Delivering, Moving
<1>2. CASE \/ Reserved(t) \/ Create(t) \/ Route(t) \/ ReleaseLostHold(t) \/ ApplyStatus(t) \/ Drop(t)
           \/ Due(t) \/ Deliver(t)
  BY <1>1, <1>2 DEF Reserved, Create, Route, ReleaseLostHold, ApplyStatus, Drop, Due, Deliver, At
<1>3. CASE \/ ConsumeStock(t) \/ Consumed(t) \/ ReversePayment(t) \/ MarkDone(t) \/ MarkFailed(t)
           \/ Abandoned(t)
  BY <1>1, <1>3 DEF ConsumeStock, Consumed, ReversePayment, MarkDone, MarkFailed, Abandoned, At
<1> QED
  BY <1>2, <1>3 DEF JobStep

LEMMA JobStepSilent ==
    ASSUME OrdersInv, VoidsAreSilent, NEW t \in Threads, JobStep(t)
    PROVE  VoidsAreSilent'
<1>1. TypeOK /\ DepotTypeOK
  BY DEF OrdersInv, TypeOK
<1> SUFFICES ASSUME NEW s \in Threads, job'[s] # NoJob, job'[s].op = "void", job'[s].at # "last"
             PROVE  call'[s] = NoCall
  BY DEF VoidsAreSilent
<1>2. JobKeeps(t, s) /\ (s # t => job'[s] = job[s])
  BY <1>1, JobStepKeeps
<1>3. job[s] # NoJob /\ job[s].op = "void"
  BY <1>2 DEF JobKeeps
<1>4. CASE s # t
  <2>1. call[s] = NoCall
    BY <1>2, <1>4 DEF VoidsAreSilent
  <2>2. call'[s] = call[s]
    <3>1. CASE Return(t)
      BY <1>1, <1>4, <3>1 DEF Return, DepotTypeOK
    <3>2. ASSUME NEW op \in CallOps, NEW d \in Depots \cup {NoDepot}, Asks(t, op, d)
          PROVE  call'[s] = call[s]
      BY <1>1, <1>4, <3>2, AskedCall DEF Asks
    <3> QED
      BY <1>1, <3>1, <3>2, JobStepAsks
  <2> QED
    BY <2>1, <2>2
<1>5. CASE s = t
  <2>1. CASE PayBack(t) \/ VoidWalkIn(t)
    <3>1. call[t] = NoCall
      BY <1>3, <1>5, <2>1 DEF VoidsAreSilent, PayBack, VoidWalkIn, At
    <3> QED
      BY <1>5, <2>1, <3>1 DEF PayBack, VoidWalkIn, NoCallMade
  <2>2. CASE CallOff(t)
    <3>1. job[t] \in Job
      BY <1>1, <1>3, <1>5 DEF TypeOK
    <3>2. Done(t) \/ Goto(t, "last")
      BY <2>2 DEF CallOff, Wait
    <3> QED
      BY <1>1, <1>5, <3>1, <3>2 DEF Done, Goto, TypeOK, Job
  <2>3. CASE Finish(t)
    BY <1>1, <1>5, <2>3 DEF Finish, Done, TypeOK
  <2> QED
    BY <1>3, <1>5, <2>1, <2>2, <2>3, VoidSteps
<1> QED
  BY <1>4, <1>5

\* A restock is asked by a void that has won, and won by the write of VOIDED.
LEMMA JobStepRestocks ==
    ASSUME OrdersInv, NEW t \in Threads, JobStep(t), NEW s \in Threads, NEW o \in Orders
    PROVE  /\ Restocks(s, o)' =>
                \/ Restocks(s, o)
                \/ s = t /\ order[o].status = "COMPLETED" /\ order'[o].status = "VOIDED"
           /\ \A l : Awaits(s, o, l)' => Awaits(s, o, l) \/ order[o].status = "COMPLETED"
<1>1. TypeOK /\ DepotTypeOK /\ JobsFit
  BY DEF OrdersInv, TypeOK
<1>2. ASSUME job'[s] # NoJob, job'[s].op = "void", job'[s].at = "callOff", job'[s].o = o
      PROVE  \/ job[s] # NoJob /\ job[s].op = "void" /\ job[s].at = "callOff" /\ job[s].o = o
             \/ s = t /\ order[o].status = "COMPLETED" /\ order'[o].status = "VOIDED"
  <2>1. job[s] # NoJob /\ job[s].op = "void" /\ job[s].o = o
    BY <1>1, <1>2, JobStepKeeps DEF JobKeeps
  <2>2. CASE job'[s] # job[s]
    <3>1. s = t /\ job[t].at = "write"
      BY <1>1, <1>2, <2>1, <2>2, JobStepKeeps DEF JobKeeps, Follows
    <3>2. VoidWalkIn(t)
      BY <2>1, <3>1, VoidSteps DEF PayBack, CallOff, Finish, At
    <3>3. order[o].status = "COMPLETED"
      <4>1. CASE ~MayVoid(job[t].o)
        BY <1>1, <1>2, <3>1, <3>2, <4>1 DEF VoidWalkIn, Done, TypeOK
      <4> QED
        BY <2>1, <3>1, <4>1 DEF MayVoid
    <3>4. order'[o].status = "VOIDED"
      BY <1>1, <2>1, <3>1, <3>2, <3>3, VoidOrder
    <3> QED
      BY <3>1, <3>3, <3>4
  <2> QED
    BY <1>2, <2>1, <2>2
<1>3. ASSUME call'[s] # NoCall, call'[s].op = "restock", call'[s].o = o, call'[s] # call[s]
      PROVE  job[s] # NoJob /\ job[s].op = "void" /\ job[s].at = "callOff" /\ job[s].o = o
  <2>1. PICK op \in CallOps, d \in Depots \cup {NoDepot} : Asks(t, op, d)
    <3>1. ~UNCHANGED call /\ ~Return(t)
      BY <1>1, <1>3 DEF Return, DepotTypeOK
    <3> QED
      BY <1>1, <3>1, JobStepAsks
  <2>2. s = t /\ op = "restock" /\ job[t].o = o
    BY <1>1, <1>3, <2>1, AskedCall DEF Asks
  <2>3. job[t] # NoJob /\ job[t].at = "callOff"
    BY <2>1, <2>2 DEF Asks
  <2>4. job[t].op \in Ops /\ JobFits(job[t])
    BY <1>1, <2>3 DEF TypeOK, JobsFit, Job
  <2> QED
    BY <2>2, <2>3, <2>4 DEF JobFits, Places, Delivering, Moving, Ops
<1> QED
  BY <1>2, <1>3 DEF Restocks, Awaits

LEMMA JobStepOneRestock ==
    ASSUME OrdersInv, OneRestock, NEW t \in Threads, JobStep(t)
    PROVE  OneRestock'
<1>1. TypeOK /\ order' \in [Orders -> OrderRow] /\ order \in [Orders -> OrderRow]
  BY JobStepRows DEF OrdersInv, TypeOK
<1> SUFFICES ASSUME NEW o \in Orders, NEW s \in Threads, Restocks(s, o)'
             PROVE  /\ order'[o].status = "VOIDED"
                    /\ \A u \in Threads : Restocks(u, o)' => u = s
  BY DEF OneRestock
<1>2. order[o].status = "VOIDED" => order'[o].status = "VOIDED"
  BY <1>1, JobStepMoves, MovesKeep
<1>3. CASE order[o].status = "COMPLETED"
  BY <1>3, JobStepRestocks DEF OneRestock
<1>4. CASE order[o].status # "COMPLETED"
  BY <1>2, <1>4, JobStepRestocks DEF OneRestock
<1> QED
  BY <1>3, <1>4

LEMMA JobStepRestock ==
    ASSUME OrdersInv, RestockInv, NEW t \in Threads, JobStep(t)
    PROVE  RestockInv'
<1>1. TypeOK /\ order' \in [Orders -> OrderRow] /\ order \in [Orders -> OrderRow]
  BY JobStepRows DEF OrdersInv, TypeOK
<1>2. UNCHANGED <<net, counts>>
  BY <1>1, JobStepSpeaks DEF ShelfKept, shelf
<1>3. \A o \in Orders : order[o].status = "VOIDED" => order'[o].status = "VOIDED"
  BY <1>1, JobStepMoves, MovesKeep
<1>4. NetIsPutBack'
  BY <1>1, <1>2, <1>3, JobStepRestocks, NetStays DEF RestockInv
<1> QED
  BY <1>2, <1>4, JobStepSilent, JobStepOneRestock DEF RestockInv

\* Steps that put nothing back, void nothing and start no restock.
LEMMA QuietRestock ==
    ASSUME TypeOK, RestockInv, UNCHANGED <<order, net, counts>>, VoidsAreSilent',
           \A t \in Threads, o \in Orders : Restocks(t, o)' => Restocks(t, o),
           \A t \in Threads, o \in Orders, l \in Lines : Awaits(t, o, l)' => Awaits(t, o, l)
    PROVE  RestockInv'
<1>1. NetIsPutBack'
  BY NetStays DEF RestockInv
<1>2. OneRestock'
  BY DEF RestockInv, OneRestock
<1> QED
  BY <1>1, <1>2 DEF RestockInv

LEMMA BeginsRestock ==
    ASSUME TypeOK, RestockInv, NEW t \in Threads, NEW j \in Job, NEW o \in Orders,
           BegunAs(j, o), Begins(t, j)
    PROVE  RestockInv'
<1>1. UNCHANGED <<order, net, counts>>
  BY DEF Begins, ShelfKept, shelf
<1>2. call[t] = NoCall /\ job[t] = NoJob /\ \A s \in Threads : job'[s] = IF s = t THEN j ELSE job[s]
  BY DEF TypeOK, Begins
<1>3. \A s \in Threads : call'[s] = call[s] \/ (s = t /\ j.at = "reserve" /\ call'[s].op = "reserve")
  BY AskedCall DEF TypeOK, Begins
<1>4. j.op = "void" => j.at = "payBack"
  BY DEF BegunAs
<1>5. VoidsAreSilent'
  BY <1>2, <1>3, <1>4 DEF RestockInv, VoidsAreSilent
<1>6. \A s \in Threads, p \in Orders : Restocks(s, p)' => Restocks(s, p)
  BY <1>2, <1>3, <1>4 DEF Restocks
<1>7. \A s \in Threads, p \in Orders, l \in Lines : Awaits(s, p, l)' => Awaits(s, p, l)
  BY <1>2, <1>3, <1>4 DEF Awaits
<1> QED
  BY <1>1, <1>5, <1>6, <1>7, QuietRestock

LEMMA CrashRestock ==
    ASSUME TypeOK, RestockInv, NEW t \in Threads, Crash(t)
    PROVE  RestockInv'
<1>1. UNCHANGED <<order, net, counts, call>>
  BY DEF Crash, NoCallMade, shelf, orders
<1>2. \A s \in Threads : job'[s] = IF s = t THEN NoJob ELSE job[s]
  BY DEF TypeOK, Crash, Done
<1>3. VoidsAreSilent'
  BY <1>1, <1>2 DEF RestockInv, VoidsAreSilent
<1>4. \A s \in Threads, p \in Orders : Restocks(s, p)' => Restocks(s, p)
  BY <1>1, <1>2 DEF Restocks
<1>5. \A s \in Threads, p \in Orders, l \in Lines : Awaits(s, p, l)' => Awaits(s, p, l)
  BY <1>1, <1>2 DEF Awaits
<1> QED
  BY <1>1, <1>3, <1>4, <1>5, QuietRestock

\* depot-service's own steps never start a call.
LEMMA DepotSideQuiet ==
    ASSUME TypeOK, RestockInv, NEW t \in Threads, CallStep(t) \/ Break(t), UNCHANGED <<orders, job>>
    PROVE  /\ VoidsAreSilent' /\ OneRestock'
           /\ \A s \in Threads, o \in Orders : Restocks(s, o)' => Restocks(s, o)
           /\ \A s \in Threads, o \in Orders, l \in Lines : Awaits(s, o, l)' => Awaits(s, o, l)
<1>1. UNCHANGED <<order, job>>
  BY DEF orders
<1>2. \A s \in Threads : CallGoesOn(s)
  BY CallStepGoesOn DEF TypeOK
<1>3. VoidsAreSilent'
  BY <1>1, <1>2 DEF RestockInv, VoidsAreSilent, CallGoesOn
<1>4. \A s \in Threads, o \in Orders : Restocks(s, o)' => Restocks(s, o)
  BY <1>1, <1>2 DEF Restocks, CallGoesOn
<1>5. \A s \in Threads, o \in Orders, l \in Lines : Awaits(s, o, l)' => Awaits(s, o, l)
  BY <1>1, <1>2 DEF Awaits, CallGoesOn
<1>6. OneRestock'
  BY <1>1, <1>4 DEF RestockInv, OneRestock
<1> QED
  BY <1>3, <1>4, <1>5, <1>6

\* The one step that counts: a line of the one restock of its order.
LEMMA RestockNet ==
    ASSUME TypeOK, RestockInv, NEW t \in Threads, Restock(t), UNCHANGED <<orders, job>>
    PROVE  NetIsPutBack'
<1>1. PICK o \in Orders :
         /\ call[t] # NoCall /\ call[t].op = "restock" /\ call[t].o = o
         /\ call[t].left \subseteq Lines /\ Qty[o] \in Nat
  BY CallFields DEF Restock, Running, TypeOK
<1>2. PICK k \in call[t].left : \/ Move(k, Qty[o]) /\ LineDone(t, k)
                                \/ UNCHANGED net
  BY <1>1 DEF Restock
<1>3. /\ \A s \in Threads, p \in Orders, l \in Lines : Awaits(s, p, l)' => Awaits(s, p, l)
      /\ UNCHANGED <<order, job>>
  BY DepotSideQuiet DEF CallStep, orders
<1>4. CASE UNCHANGED net
  BY <1>3, <1>4, NetStays DEF RestockInv
<1>5. CASE Move(k, Qty[o]) /\ LineDone(t, k)
  <2>1. k \in Lines /\ order[o].status = "VOIDED" /\ \A s \in Threads : Restocks(s, o) => s = t
    <3>1. Restocks(t, o)
      BY <1>1 DEF Restocks
    <3> QED
      BY <1>1, <1>2, <3>1 DEF RestockInv, OneRestock
  <2>2. job[t] # NoJob /\ job[t].op = "void" => job[t].at # "callOff"
    BY <1>1 DEF RestockInv, VoidsAreSilent
  <2>3. call'[t].left = call[t].left \ {k} /\ \A s \in Threads : s # t => call'[s] = call[s]
    BY <1>1, <1>5, LineDoneGoesOn DEF TypeOK
  <2>4. o \notin PutBack(k)
    BY <1>1 DEF PutBack, Awaits
  <2>5. \A s \in Threads : ~Awaits(s, o, k)'
    <3>1. \A s \in Threads : s # t => ~Restocks(s, o)
      BY <2>1
    <3>2. \A s \in Threads : s # t => ~Awaits(s, o, k)'
      BY <1>3, <2>3, <3>1 DEF Awaits, Restocks
    <3>3. ~Awaits(t, o, k)'
      BY <1>3, <2>2, <2>3 DEF Awaits
    <3> QED
      BY <3>2, <3>3
  <2>6. PutBack(k) \cup {o} \subseteq PutBack(k)'
    BY <1>1, <1>3, <2>1, <2>5 DEF PutBack
  <2>7. \A l \in Lines : PutBack(l) \subseteq PutBack(l)'
    BY <1>3 DEF PutBack
  <2>8. \A l \in Lines : PutBack(l) \in SUBSET Orders /\ PutBack(l)' \in SUBSET Orders
    BY DEF PutBack
  <2>9. /\ net \in [Lines -> Int]
        /\ \A l \in Lines : net'[l] = IF l = k THEN net[l] + Qty[o] ELSE net[l]
    BY <1>5, <2>1 DEF Move, TypeOK, DepotTypeOK
  <2> SUFFICES ASSUME NEW l \in Lines
               PROVE  net'[l] <= Cardinality(Units(PutBack(l)'))
    BY DEF NetIsPutBack, Units
  <2>10. /\ Cardinality(Units(PutBack(l))) \in Nat /\ Cardinality(Units(PutBack(l)')) \in Nat
         /\ net[l] \in Int /\ net[l] <= Cardinality(Units(PutBack(l)))
    BY <2>8, <2>9, UnitsFinite DEF RestockInv, NetIsPutBack
  <2>11. CASE l # k
    <3>1. Cardinality(Units(PutBack(l))) <= Cardinality(Units(PutBack(l)'))
      BY <2>7, <2>8, UnitsGrow
    <3> QED
      BY <2>9, <2>10, <2>11, <3>1
  <2>12. CASE l = k
    <3>1. Cardinality(Units(PutBack(k) \cup {o})) = Cardinality(Units(PutBack(k))) + Qty[o]
      BY <1>1, <2>1, <2>4, <2>8, UnitsGained
    <3>2. Cardinality(Units(PutBack(k) \cup {o})) <= Cardinality(Units(PutBack(k)'))
      <4>1. PutBack(k) \cup {o} \in SUBSET Orders
        BY <1>1, <2>1, <2>8
      <4> QED
        BY <2>1, <2>6, <2>8, <4>1, UnitsGrow
    <3>3. net'[k] = net[k] + Qty[o]
      BY <2>1, <2>9
    <3> DEFINE before == Cardinality(Units(PutBack(k)))
               after == Cardinality(Units(PutBack(k)'))
               n == Qty[o]
    <3>4. before + n <= after /\ before \in Nat /\ after \in Nat /\ n \in Nat /\ net[k] \in Int
          /\ net[k] <= before /\ net'[k] = net[k] + n
      BY <1>1, <2>10, <2>12, <3>1, <3>2, <3>3
    <3> HIDE DEF before, after, n
    <3>5. net'[k] <= after
      BY <3>4
    <3> QED
      BY <2>12, <3>5 DEF after
  <2> QED
    BY <2>11, <2>12
<1> QED
  BY <1>2, <1>4, <1>5

LEMMA DepotSideRestock ==
    ASSUME TypeOK, RestockInv, NEW t \in Threads, CallStep(t) \/ Break(t), UNCHANGED <<orders, job>>
    PROVE  RestockInv'
<1>1. CASE Restock(t)
  <2>1. UNCHANGED counts
    BY <1>1 DEF Restock
  <2> QED
    BY <1>1, <2>1, RestockNet, DepotSideQuiet DEF RestockInv
<1>2. CASE ~Restock(t)
  <2>1. UNCHANGED <<net, counts>>
    BY <1>2 DEF CallStep, CheckHolds, Reserve, CheckSales, Sell, SettleSale, Release, NothingToDo,
                Break, shelf
  <2> QED
    BY <2>1, DepotSideQuiet, QuietRestock DEF orders
<1> QED
  BY <1>1, <1>2

LEMMA NextRestock ==
    ASSUME MaxCounts = 0, OrdersInv, RestockInv, [Next]_vars
    PROVE  RestockInv'
<1>1. TypeOK
  BY DEF OrdersInv
<1>2. CASE UNCHANGED vars
  <2>1. UNCHANGED <<order, net, counts, call, job>>
    BY <1>2 DEF vars, depotVars, orders
  <2> QED
    BY <1>1, <2>1, QuietRestock DEF RestockInv, VoidsAreSilent, Restocks, Awaits
<1>3. ASSUME NEW t \in Threads, NEW o \in Orders, Request(t, o)
      PROVE  RestockInv'
  BY <1>1, <1>3, RequestBegins, BeginsRestock
<1>4. ~CountStep
  <2>1. counts = {} /\ Cardinality(counts) = 0
    BY FS_EmptySet DEF RestockInv
  <2> QED
    BY <2>1 DEF CountStep, BeginCount, WriteCount
<1> QED
  BY <1>1, <1>2, <1>3, <1>4, NextSteps, JobStepRestock, CrashRestock, DepotSideRestock

LEMMA InitRestock == Init => RestockInv
<1> SUFFICES ASSUME Init PROVE RestockInv
  OBVIOUS
<1>1. /\ counts = {} /\ \A t \in Threads : job[t] = NoJob /\ call[t] = NoCall
      /\ \A l \in Lines : net[l] = 0
  BY DEF Init, DepotInit
<1>2. \A l \in Lines : Cardinality(Units(PutBack(l))) \in Nat
  <2>1. \A l \in Lines : PutBack(l) \in SUBSET Orders
    BY DEF PutBack
  <2> QED
    BY <2>1, UnitsFinite
<1> QED
  BY <1>1, <1>2 DEF RestockInv, VoidsAreSilent, OneRestock, NetIsPutBack, Restocks

\* voidWalkIn: however many cashiers void a sale, whoever dies on the way, its
\* goods are put back once.  Without corrections, net counts the restocks alone.
THEOREM VoidedOnceRestockedOnce ==
    ASSUME MaxCounts = 0
    PROVE  Spec => []RestockedOnce
<1>1. Init => OrdersInv /\ RestockInv
  BY InitOrders, InitRestock
<1>2. OrdersInv /\ RestockInv /\ [Next]_vars => OrdersInv' /\ RestockInv'
  BY NextOrders, NextRestock
<1>3. OrdersInv /\ RestockInv => RestockedOnce
  <2> SUFFICES ASSUME OrdersInv, RestockInv, NEW l \in Lines
               PROVE  net[l] <= Cardinality(Units({o \in Orders : order[o].status = "VOIDED"}))
    BY DEF RestockedOnce
  <2> DEFINE V == {o \in Orders : order[o].status = "VOIDED"}
  <2>1. PutBack(l) \in SUBSET Orders /\ V \in SUBSET Orders /\ PutBack(l) \subseteq V
    BY DEF PutBack
  <2>2. /\ Cardinality(Units(PutBack(l))) <= Cardinality(Units(V))
        /\ Cardinality(Units(PutBack(l))) \in Nat /\ Cardinality(Units(V)) \in Nat
    BY <2>1, UnitsGrow, UnitsFinite
  <2>3. net[l] \in Int /\ net[l] <= Cardinality(Units(PutBack(l)))
    BY DEF OrdersInv, TypeOK, DepotTypeOK, RestockInv, NetIsPutBack
  <2> QED
    BY <2>2, <2>3
<1> QED
  BY <1>1, <1>2, <1>3, PTL DEF Spec

----------------------------------------------------------------------------
(* What depot-service does with a call and with the holds *)

\* A hold is taken by a reserve, and given up by a release or a sale.
HoldMove(t, l, o) ==
    \/ hold'[l][o] = hold[l][o]
    \/ /\ call[t].o = o /\ l \in call[t].left
       /\ \/ call[t].op = "reserve" /\ hold[l][o] = "NONE" /\ hold'[l][o] = "ACTIVE"
             /\ call'[t].at = "reply" /\ call'[t].ok
          \/ call[t].op = "release" /\ hold[l][o] = "ACTIVE" /\ hold'[l][o] = "RELEASED"
          \/ call[t].op = "consume" /\ hold[l][o] = "ACTIVE" /\ hold'[l][o] = "CONSUMED"

\* A call keeps what it is about; a line it is done with is held, or let go.
CallMove(c, d) ==
    /\ c # NoCall /\ d # NoCall /\ d.op = c.op /\ d.o = c.o /\ d.left \subseteq c.left
    /\ c.op # "restock" =>
          \A l \in c.left \ d.left : hold'[l][c.o] # IF c.op = "reserve" THEN "NONE" ELSE "ACTIVE"
    /\ c.at = "reply" => d.at = "reply" /\ ~d.ok
    /\ d.at = "reply" /\ d.ok =>
          IF c.op = "reserve" THEN \A l \in d.left : hold'[l][c.o] # "NONE" ELSE d.left = {}
    /\ d.at = "reply" /\ ~d.ok => c.op \in Breaks \/ c.op # "release"
    /\ c.at = "reply" => c.op \in Breaks

LEMMA ReserveMoves ==
    ASSUME DepotTypeOK, NEW t \in Threads, Reserve(t)
    PROVE  CallMove(call[t], call'[t]) /\ \A l \in Lines, o \in Orders : HoldMove(t, l, o)
<1> DEFINE c == call[t]
           held == Granted(c)
<1>1. c \in Call /\ c # NoCall /\ c.op = "reserve" /\ c.at = "run" /\ c.left # {}
  BY DEF DepotTypeOK, Reserve, Running
<1>2. c.o \in Orders /\ c.left \subseteq Lines
  BY <1>1 DEF Call
<1>3. call' = [call EXCEPT ![t] = [c EXCEPT !.at = "reply", !.ok = held # {}]]
  BY DEF DepotTypeOK, Reserve, Answer
<1>4. /\ call'[t] = [c EXCEPT !.at = "reply", !.ok = held # {}]
  BY <1>3 DEF DepotTypeOK
<1>5. /\ call'[t].op = c.op /\ call'[t].o = c.o /\ call'[t].left = c.left
      /\ call'[t].at = "reply" /\ call'[t].ok = (held # {}) /\ call'[t] \in Call
  BY <1>1, <1>4 DEF Call
<1>6. hold' = [l \in Lines |-> IF l \in held THEN [hold[l] EXCEPT ![c.o] = "ACTIVE"] ELSE hold[l]]
  BY DEF Reserve
<1>7. /\ held # {} => held = c.left
      /\ \A l \in held : l \in c.left /\ hold[l][c.o] = "NONE"
  BY DEF Granted, Fits
<1>8. \A l \in held : hold'[l][c.o] = "ACTIVE"
  BY <1>2, <1>6, <1>7 DEF DepotTypeOK
<1>9. ASSUME NEW l \in Lines, NEW o \in Orders
      PROVE  HoldMove(t, l, o)
  <2>1. CASE l \in held /\ o = c.o
    BY <1>1, <1>5, <1>7, <1>8, <2>1 DEF HoldMove
  <2>2. CASE ~(l \in held /\ o = c.o)
    <3>1. hold'[l][o] = hold[l][o]
      BY <1>2, <1>6, <2>2 DEF DepotTypeOK
    <3> QED
      BY <3>1 DEF HoldMove
  <2> QED
    BY <2>1, <2>2
<1>10. CallMove(call[t], call'[t])
  <2>1. call'[t] # NoCall
    BY <1>5, NoCallAssumption
  <2> HIDE DEF c, held
  <2>2. c = call[t]
    BY DEF c
  <2> QED
    BY <1>1, <1>5, <1>7, <1>8, <2>1, <2>2 DEF CallMove
<1> QED
  BY <1>9, <1>10

LEMMA SettlingMoves ==
    ASSUME DepotTypeOK, NEW t \in Threads, call[t] # NoCall, call[t].at = "run",
           NEW status \in HoldStatuses, NEW l \in call[t].left,
           \/ call[t].op = "release" /\ status = "RELEASED"
           \/ call[t].op = "consume" /\ status = "CONSUMED",
           Settle(l, call[t].o, status), LineDone(t, l)
    PROVE  CallMove(call[t], call'[t]) /\ \A m \in Lines, o \in Orders : HoldMove(t, m, o)
<1> DEFINE c == call[t]
           done == c.left \subseteq {l}
           next == [c EXCEPT !.left = @ \ {l}, !.at = IF done THEN "reply" ELSE @, !.ok = done]
<1>1. c \in Call /\ c.o \in Orders /\ c.left \subseteq Lines /\ l \in Lines
  BY DEF DepotTypeOK, Call
<1>2. call' = [call EXCEPT ![t] = next]
  BY DEF DepotTypeOK, LineDone
<1>3. /\ next.left = c.left \ {l} /\ next.op = c.op /\ next.o = c.o /\ next.ok = done
      /\ next.at = (IF done THEN "reply" ELSE "run") /\ next \in Call
  BY <1>1 DEF Call
<1> HIDE DEF next
<1>4. call'[t] = next /\ next # NoCall
  BY <1>2, <1>3, NoCallAssumption DEF DepotTypeOK
<1>5. /\ hold'[l][c.o] # "ACTIVE"
      /\ \A m \in Lines, o \in Orders : m # l \/ o # c.o => hold'[m][o] = hold[m][o]
      /\ hold[l][c.o] = "ACTIVE" => hold'[l][c.o] = status
      /\ hold[l][c.o] # "ACTIVE" => hold'[l][c.o] = hold[l][c.o]
  BY <1>1 DEF Settle, MaySettle, DepotTypeOK
<1>6. ASSUME NEW m \in Lines, NEW o \in Orders
      PROVE  HoldMove(t, m, o)
  BY <1>5, <1>6 DEF HoldMove
<1>7. CallMove(c, next)
  BY <1>1, <1>3, <1>4, <1>5 DEF CallMove
<1> QED
  BY <1>4, <1>6, <1>7

LEMMA AnsweredMoves ==
    ASSUME DepotTypeOK, NEW t \in Threads, call[t] # NoCall, NEW ok \in BOOLEAN, Answer(t, ok),
           UNCHANGED hold,
           ok => call[t].left = {} /\ call[t].at # "reply",
           ~ok => call[t].op \in Breaks \/ call[t].op # "release",
           call[t].at = "reply" => call[t].op \in Breaks
    PROVE  CallMove(call[t], call'[t]) /\ \A l \in Lines, o \in Orders : HoldMove(t, l, o)
<1> DEFINE c == call[t]
           next == [c EXCEPT !.at = "reply", !.ok = ok]
<1>1. c \in Call
  BY DEF DepotTypeOK
<1>2. call' = [call EXCEPT ![t] = next]
  BY DEF DepotTypeOK, Answer
<1>3. next.left = c.left /\ next.op = c.op /\ next.o = c.o /\ next.ok = ok /\ next.at = "reply" /\ next \in Call
  BY <1>1 DEF Call
<1> HIDE DEF next
<1>4. call'[t] = next /\ next # NoCall
  BY <1>2, <1>3, NoCallAssumption DEF DepotTypeOK
<1>5. CallMove(c, next)
  BY <1>3, <1>4 DEF CallMove
<1> QED
  BY <1>4, <1>5 DEF HoldMove

\* By itself depot-service moves one call, and the holds of its order alone.
LEMMA CallStepMoves ==
    ASSUME DepotTypeOK, NEW t \in Threads, CallStep(t) \/ Break(t)
    PROVE  /\ \A s \in Threads : s # t => call'[s] = call[s]
           /\ CallMove(call[t], call'[t])
           /\ \A l \in Lines, o \in Orders : HoldMove(t, l, o)
<1>1. \A s \in Threads : s # t => call'[s] = call[s]
  BY DEF CallStep, Break, CheckHolds, Reserve, CheckSales, Sell, SettleSale, Release, Restock,
         NothingToDo, Answer, LineDone, DepotTypeOK
<1>2. CASE CheckHolds(t)
  <2> DEFINE c == call[t]
             next == [c EXCEPT !.at = "run", !.left = {l \in @ : hold[l][c.o] = "NONE"}]
  <2>1. c \in Call /\ c # NoCall /\ c.op = "reserve" /\ c.at = "check" /\ UNCHANGED hold
    BY <1>2 DEF DepotTypeOK, CheckHolds, Running, shelf
  <2>2. call' = [call EXCEPT ![t] = next]
    BY <1>2 DEF DepotTypeOK, CheckHolds
  <2>3. /\ next.left = {l \in c.left : hold[l][c.o] = "NONE"} /\ next.op = c.op /\ next.o = c.o
        /\ next.at = "run" /\ next \in Call
    BY <2>1 DEF Call
  <2> HIDE DEF next
  <2>4. call'[t] = next /\ next # NoCall
    BY <2>2, <2>3, NoCallAssumption DEF DepotTypeOK
  <2>5. CallMove(c, next)
    BY <2>1, <2>3, <2>4 DEF CallMove
  <2> QED
    BY <1>1, <2>1, <2>4, <2>5 DEF HoldMove
<1>3. CASE CheckSales(t)
  <2> DEFINE c == call[t]
             next == [c EXCEPT !.at = "run", !.seen = {l \in c.left : c.o \in sold[l]}]
  <2>1. c \in Call /\ c # NoCall /\ c.op = "consume" /\ c.at = "check" /\ UNCHANGED hold
    BY <1>3 DEF DepotTypeOK, CheckSales, Running, shelf
  <2>2. call' = [call EXCEPT ![t] = next]
    BY <1>3 DEF DepotTypeOK, CheckSales
  <2>3. next.left = c.left /\ next.op = c.op /\ next.o = c.o /\ next.at = "run" /\ next \in Call
    BY <2>1 DEF Call
  <2> HIDE DEF next
  <2>4. call'[t] = next /\ next # NoCall
    BY <2>2, <2>3, NoCallAssumption DEF DepotTypeOK
  <2>5. CallMove(c, next)
    BY <2>1, <2>3, <2>4 DEF CallMove
  <2> QED
    BY <1>1, <2>1, <2>4, <2>5 DEF HoldMove
<1>4. CASE Reserve(t)
  BY <1>1, <1>4, ReserveMoves
<1>5. CASE Sell(t)
  <2> DEFINE c == call[t]
  <2>1. c \in Call /\ c # NoCall /\ c.op = "consume" /\ c.at = "run" /\ UNCHANGED hold
    BY <1>5 DEF DepotTypeOK, Sell, Running
  <2>2. PICK l \in c.left : call' = [call EXCEPT ![t].seen = @ \cup {l}] \/ Answer(t, FALSE)
    BY <1>5 DEF Sell
  <2>3. CASE Answer(t, FALSE)
    BY <1>1, <2>1, <2>3, AnsweredMoves
  <2>4. CASE call' = [call EXCEPT ![t].seen = @ \cup {l}]
    <3> DEFINE next == [c EXCEPT !.seen = @ \cup {l}]
    <3>1. call' = [call EXCEPT ![t] = next]
      BY <2>4 DEF DepotTypeOK
    <3>2. next.left = c.left /\ next.op = c.op /\ next.o = c.o /\ next.at = "run" /\ next \in Call
      BY <2>1 DEF Call
    <3> HIDE DEF next
    <3>3. call'[t] = next /\ next # NoCall
      BY <3>1, <3>2, NoCallAssumption DEF DepotTypeOK
    <3>4. CallMove(c, next)
      BY <2>1, <3>2, <3>3 DEF CallMove
    <3> QED
      BY <1>1, <2>1, <3>3, <3>4 DEF HoldMove
  <2> QED
    BY <2>2, <2>3, <2>4
<1>6. CASE SettleSale(t) \/ Release(t)
  <2>1. call[t] # NoCall /\ call[t].at = "run" /\ call[t].op \in {"release", "consume"}
    BY <1>6 DEF SettleSale, Release, Running
  <2>2. PICK l \in call[t].left, status \in HoldStatuses :
           /\ \/ call[t].op = "release" /\ status = "RELEASED"
              \/ call[t].op = "consume" /\ status = "CONSUMED"
           /\ Settle(l, call[t].o, status) /\ LineDone(t, l)
    BY <1>6 DEF SettleSale, Release, Running, HoldStatuses
  <2> QED
    BY <1>1, <2>1, <2>2, SettlingMoves
<1>7. CASE Restock(t)
  <2>1. call[t] # NoCall /\ call[t].at = "run" /\ call[t].op = "restock" /\ UNCHANGED hold
    BY <1>7 DEF Restock, Running
  <2>2. PICK l \in call[t].left : LineDone(t, l) \/ Answer(t, FALSE)
    BY <1>7 DEF Restock
  <2>3. CASE Answer(t, FALSE)
    BY <1>1, <2>1, <2>3, AnsweredMoves
  <2>4. CASE LineDone(t, l)
    <3> DEFINE c == call[t]
               done == c.left \subseteq {l}
               next == [c EXCEPT !.left = @ \ {l}, !.at = IF done THEN "reply" ELSE @, !.ok = done]
    <3>1. c \in Call
      BY <2>1 DEF DepotTypeOK
    <3>2. call' = [call EXCEPT ![t] = next]
      BY <2>4 DEF DepotTypeOK, LineDone
    <3>3. /\ next.left = c.left \ {l} /\ next.op = c.op /\ next.o = c.o /\ next.ok = done
          /\ next.at = (IF done THEN "reply" ELSE "run") /\ next \in Call
      BY <2>1, <3>1 DEF Call
    <3> HIDE DEF next
    <3>4. call'[t] = next /\ next # NoCall
      BY <3>2, <3>3, NoCallAssumption DEF DepotTypeOK
    <3>5. CallMove(c, next)
      BY <2>1, <3>3, <3>4 DEF CallMove
    <3> QED
      BY <1>1, <2>1, <3>4, <3>5 DEF HoldMove
  <2> QED
    BY <2>2, <2>3, <2>4
<1>8. CASE NothingToDo(t)
  BY <1>1, <1>8, AnsweredMoves DEF NothingToDo, shelf
<1>9. CASE Break(t)
  BY <1>1, <1>9, AnsweredMoves DEF Break, shelf
<1> QED
  BY <1>2, <1>3, <1>4, <1>5, <1>6, <1>7, <1>8, <1>9 DEF CallStep

----------------------------------------------------------------------------
(* What is held for an order that is routed *)

\* Every line of the order that the depot stocks has its reservation row.
Held(o, d) == \A l \in LinesFor(o, d) : hold[l][o] # "NONE"

\* A request that waits for its reserve call: the lines not yet looked at are
\* left, and an answer that says yes means that all are held.
Reserving(t) ==
    /\ call[t] # NoCall /\ call[t].op = "reserve" /\ call[t].o = job[t].o
    /\ call[t].left \subseteq LinesFor(job[t].o, job[t].d)
    /\ IF call[t].at = "reply"
       THEN call[t].ok => Held(job[t].o, job[t].d)
       ELSE \A l \in LinesFor(job[t].o, job[t].d) :
               hold[l][job[t].o] # "NONE" \/ l \in call[t].left

\* A cancellation that has been written and goes on to its stock.
Dropping(j) == j.op \in Moving /\ j.to = "CANCELLED" /\ j.at # "write"

JobHolds(t) ==
    LET j == job[t] IN
    /\ j.op # "assign" /\ (j.op = "reroute" => order[j.o].status # "NONE")
    /\ j.at = "reserve" => Reserving(t)
    /\ j.at \in {"create", "route"} => Held(j.o, j.d)
    /\ j.at = "drop" => Dropping(j)
    /\ Dropping(j) => order[j.o].status = "CANCELLED"
JobsHold == \A t \in Threads : job[t] # NoJob => JobHolds(t)
RoutedIsHeld == \A o \in Orders : order[o].status # "NONE" => Held(o, order[o].depot)

HoldsInv == JobsHold /\ RoutedIsHeld

\* A request at its reserve call takes the answer and nothing else.
LEMMA AtReserve ==
    ASSUME OrdersInv, NEW t \in Threads, JobStep(t), job[t] # NoJob, job[t].at = "reserve"
    PROVE  Reserved(t)
BY DEF JobStep, At, Create, Route, ReleaseLostHold, ApplyStatus, Drop, Due, Deliver, ConsumeStock,
       Consumed, ReversePayment, MarkDone, MarkFailed, PayBack, VoidWalkIn, CallOff, Finish, Abandoned

LEMMA JobStepLeavesAlone ==
    ASSUME TypeOK, NEW t \in Threads, JobStep(t)
    PROVE  /\ UNCHANGED hold /\ \A s \in Threads : s # t => job'[s] = job[s] /\ call'[s] = call[s]
<1>1. UNCHANGED hold
  BY JobStepSpeaks DEF ShelfKept, shelf
<1>2. \A s \in Threads : s # t => job'[s] = job[s]
  BY JobStepKeeps
<1>3. DepotTypeOK
  BY DEF TypeOK
<1>4. \A s \in Threads : s # t => call'[s] = call[s]
  BY <1>3, JobStepAsks, AskedCall DEF Asks, Return, DepotTypeOK
<1> QED
  BY <1>1, <1>2, <1>4

LEMMA JobStepHolds ==
    ASSUME OrdersInv, HoldsInv, NEW t \in Threads, JobStep(t)
    PROVE  HoldsInv'
<1>1. TypeOK /\ JobsFit /\ order' \in [Orders -> OrderRow] /\ order \in [Orders -> OrderRow]
  BY JobStepRows DEF OrdersInv, TypeOK
<1>2. UNCHANGED hold /\ \A s \in Threads : s # t => job'[s] = job[s] /\ call'[s] = call[s]
  BY <1>1, JobStepLeavesAlone
<1>3. \A o \in Orders : /\ order[o].status # "NONE" => order'[o].status # "NONE"
                        /\ order[o].status = "CANCELLED" => order'[o].status = "CANCELLED"
  BY <1>1, JobStepMoves, MovesKeep
<1>4. \A s \in Threads : job[s] # NoJob => job[s].o \in Orders /\ job[s] \in Job
  BY <1>1 DEF TypeOK, Job
<1>5. \A o \in Orders : \A d : Held(o, d)' = Held(o, d)
  BY <1>2 DEF Held, LinesFor
<1>6. ASSUME NEW s \in Threads, s # t, job'[s] # NoJob
      PROVE  JobHolds(s)'
  <2>1. job'[s] = job[s] /\ call'[s] = call[s] /\ job[s] # NoJob /\ JobHolds(s) /\ job[s].o \in Orders
    BY <1>2, <1>4, <1>6 DEF HoldsInv, JobsHold
  <2>2. job[s].at = "reserve" => Reserving(s)'
    BY <1>2, <2>1 DEF JobHolds, Reserving, Held, LinesFor
  <2> QED
    BY <1>3, <1>5, <2>1, <2>2 DEF JobHolds, Dropping
<1>7. ASSUME job'[t] # NoJob
      PROVE  JobHolds(t)'
  <2>1. job[t] # NoJob /\ JobKeeps(t, t) /\ JobHolds(t) /\ job[t].o \in Orders /\ JobFits(job[t])
    BY <1>1, <1>4, <1>7, JobStepKeeps DEF JobKeeps, HoldsInv, JobsHold, JobsFit
  <2>2. job'[t].op = job[t].op /\ job'[t].o = job[t].o /\ job'[t].to = job[t].to
    BY <1>7, <2>1 DEF JobKeeps
  <2>3. job'[t].at # "reserve"
    <3>1. CASE job[t].at = "reserve"
      <4>1. Reserved(t)
        BY <2>1, <3>1, AtReserve
      <4>2. Goto(t, "create") \/ Goto(t, "route")
        BY <1>1, <1>7, <4>1 DEF Reserved, Done, TypeOK
      <4> QED
        BY <1>1, <1>4, <2>1, <4>2 DEF Goto, TypeOK, Job
    <3>2. CASE job[t].at # "reserve"
      BY <1>7, <2>1, <3>2 DEF JobKeeps, Follows
    <3> QED
      BY <3>1, <3>2
  <2>4. ASSUME job'[t].at \in {"create", "route"}
        PROVE  Held(job'[t].o, job'[t].d)
    <3>1. CASE job[t].at \in {"create", "route"}
      <4>1. job'[t].d = job[t].d
        BY <1>7, <2>1, <2>4, <3>1 DEF JobKeeps, Follows
      <4> QED
        BY <2>1, <2>2, <3>1, <4>1 DEF JobHolds
    <3>2. CASE job[t].at \notin {"create", "route"}
      <4>1. job[t].at = "reserve" /\ job'[t].d = job[t].d
        BY <1>7, <2>1, <2>4, <3>2 DEF JobKeeps, Follows
      <4>2. Reserved(t)
        BY <2>1, <4>1, AtReserve
      <4>3. Verdict(t) /\ Answered(t)
        BY <1>1, <1>7, <4>2 DEF Reserved, Done, TypeOK, Return
      <4> QED
        BY <2>1, <2>2, <4>1, <4>3 DEF JobHolds, Reserving, Verdict, Answered
    <3> QED
      BY <3>1, <3>2
  <2>5. ASSUME Dropping(job'[t])
        PROVE  order'[job'[t].o].status = "CANCELLED"
    <3>1. CASE job[t].at # "write"
      BY <1>3, <2>1, <2>2, <2>5, <3>1 DEF JobHolds, Dropping
    <3>2. CASE job[t].at = "write"
      <4>1. job'[t] # job[t] /\ job[t].op \in Moving
        BY <2>2, <2>5, <3>2 DEF Dropping
      <4>2. job[t].op # "void" /\ job[t].to = "CANCELLED"
        BY <2>2, <2>5, <4>1 DEF Moving, Dropping
      <4>3. ApplyStatus(t)
        BY <2>1, <3>2, <4>2 DEF JobStep, At, Reserved, Create, Route, ReleaseLostHold, Drop, Due,
           Deliver, ConsumeStock, Consumed, ReversePayment, MarkDone, MarkFailed, PayBack,
           VoidWalkIn, CallOff, Finish, Abandoned
      <4>4. StillIs(job[t])
        BY <1>1, <1>7, <4>3 DEF ApplyStatus, Done, TypeOK
      <4>5. order' = [order EXCEPT ![job[t].o].status = "CANCELLED",
                                   ![job[t].o].dispatched = @ \/ job[t].to \in Dispatched]
        BY <4>2, <4>3, <4>4 DEF ApplyStatus
      <4>6. order'[job[t].o].status = "CANCELLED"
        BY <1>1, <2>1, <4>5 DEF OrderRow
      <4> QED
        BY <2>2, <4>6
    <3> QED
      BY <3>1, <3>2
  <2>7. ASSUME job'[t].at = "drop"
        PROVE  Dropping(job'[t])
    <3>1. CASE job[t].at = "drop"
      BY <2>1, <2>2, <2>7, <3>1 DEF JobHolds, Dropping
    <3>2. CASE job[t].at # "drop"
      <4>1. job[t].at \in {"due", "markDone", "markFailed"} /\ job[t].op # "sweep" /\ job[t].to = "CANCELLED"
        BY <1>7, <2>1, <2>7, <3>2 DEF JobKeeps, Follows
      <4>2. job[t].op \in Ops
        BY <1>4, <2>1 DEF Job
      <4>3. job[t].op \in Moving
        BY <2>1, <4>1, <4>2 DEF JobFits, Places, Delivering, Moving, Ops
      <4> QED
        BY <2>2, <2>7, <4>1, <4>3 DEF Dropping
    <3> QED
      BY <3>1, <3>2
  <2>6. job'[t].op # "assign" /\ (job'[t].op = "reroute" => order'[job'[t].o].status # "NONE")
    BY <1>3, <2>1, <2>2 DEF JobHolds
  <2> QED
    BY <1>2, <2>3, <2>4, <2>5, <2>6, <2>7 DEF JobHolds, Held, LinesFor, Dropping
<1>8. ASSUME NEW o \in Orders, order'[o].status # "NONE"
      PROVE  Held(o, order'[o].depot)
  <2>1. CASE order'[o] = order[o]
    BY <1>8, <2>1 DEF HoldsInv, RoutedIsHeld
  <2>2. CASE order'[o] # order[o]
    <3>1. job[t] # NoJob /\ o = job[t].o
      BY <2>2, OrderSteps
    <3>2. job[t].at \in {"create", "route"} => Held(o, job[t].d)
      BY <3>1 DEF HoldsInv, JobsHold, JobHolds
    <3>3. \/ job[t].at \in {"create", "route"} /\ order'[o].depot = job[t].d
          \/ order'[o].depot = order[o].depot /\ order[o].status # "NONE"
      BY <2>2, OrderSteps DEF CanTransition, Dispatched, Standing
    <3> QED
      BY <3>2, <3>3 DEF HoldsInv, RoutedIsHeld
  <2> QED
    BY <2>1, <2>2
<1> QED
  BY <1>5, <1>6, <1>7, <1>8 DEF HoldsInv, JobsHold, RoutedIsHeld

LEMMA BeginsHolds ==
    ASSUME TypeOK, OwesInv, HoldsInv, NEW t \in Threads, NEW j \in Job, NEW o \in Orders,
           BegunAs(j, o), Begins(t, j)
    PROVE  HoldsInv'
<1>1. UNCHANGED <<order, hold>>
  BY DEF Begins, ShelfKept, shelf
<1>2. (\A s \in Threads : job'[s] = IF s = t THEN j ELSE job[s]) /\ j # NoJob
  BY NoJobAssumption DEF TypeOK, Begins
<1>3. DepotTypeOK
  BY DEF TypeOK
<1>4. \A s \in Threads : s # t => call'[s] = call[s]
  BY <1>3, AskedCall DEF Begins
<1>5. \A p \in Orders : \A d : Held(p, d)' = Held(p, d)
  BY <1>1 DEF Held, LinesFor
<1>6. ASSUME NEW s \in Threads, s # t, job'[s] # NoJob
      PROVE  JobHolds(s)'
  <2>1. job'[s] = job[s] /\ call'[s] = call[s] /\ job[s] # NoJob /\ JobHolds(s) /\ job[s].o \in Orders
    BY <1>2, <1>4, <1>6 DEF HoldsInv, JobsHold, TypeOK, Job
  <2>2. job[s].at = "reserve" => Reserving(s)'
    BY <1>1, <2>1 DEF JobHolds, Reserving, Held, LinesFor
  <2> QED
    BY <1>1, <1>5, <2>1, <2>2 DEF JobHolds, Dropping
<1>7. JobHolds(t)'
  <2>1. j.op # "assign" /\ (j.op = "reroute" => order[o].status # "NONE")
    BY DEF BegunAs, OwesInv, AllRouted, Reroutable
  <2>2. j.at \notin {"create", "route", "drop"} /\ ~Dropping(j) /\ j.o = o
    BY DEF BegunAs, Dropping, Moving
  <2>3. ASSUME j.at = "reserve"
        PROVE  Reserving(t)'
    <3>1. Ask(t, "reserve", o, j.d)
      BY <2>2, <2>3 DEF Begins
    <3>2. /\ call'[t].op = "reserve" /\ call'[t].o = o /\ call'[t].left = LinesFor(o, j.d)
          /\ call'[t].at = "check"
      BY <1>3, <3>1 DEF Ask, DepotTypeOK
    <3>3. call'[t] # NoCall
      <4> DEFINE new == [op |-> "reserve", at |-> "check", o |-> o, left |-> LinesFor(o, j.d),
                         seen |-> {}, ok |-> FALSE]
      <4>1. new \in Call
        BY LinesOfTheCart DEF Call, CallOps
      <4>2. call'[t] = new
        BY <1>3, <3>1 DEF Ask, DepotTypeOK
      <4> QED
        BY <4>1, <4>2, NoCallAssumption
    <3> QED
      BY <1>2, <2>2, <3>2, <3>3 DEF Reserving, LinesFor
  <2> QED
    BY <1>1, <1>2, <2>1, <2>2, <2>3 DEF JobHolds
<1> QED
  BY <1>1, <1>5, <1>6, <1>7 DEF HoldsInv, JobsHold, RoutedIsHeld

LEMMA DepotSideHolds ==
    ASSUME TypeOK, HoldsInv, NEW t \in Threads, CallStep(t) \/ Break(t), UNCHANGED <<orders, job>>
    PROVE  HoldsInv'
<1>1. DepotTypeOK /\ UNCHANGED <<order, job>>
  BY DEF TypeOK, orders
<1>2. /\ \A s \in Threads : s # t => call'[s] = call[s]
      /\ CallMove(call[t], call'[t]) /\ \A l \in Lines, o \in Orders : HoldMove(t, l, o)
  BY <1>1, CallStepMoves
<1>3. \A l \in Lines, o \in Orders : hold[l][o] # "NONE" => hold'[l][o] # "NONE"
  BY <1>2 DEF HoldMove
<1>4. \A o \in Orders : \A d : Held(o, d) => Held(o, d)'
  BY <1>3, LinesOfTheCart DEF Held, LinesFor
<1>5. ASSUME NEW s \in Threads, job[s] # NoJob
      PROVE  JobHolds(s)'
  <2>1. JobHolds(s) /\ job[s].o \in Orders
    BY <1>5 DEF HoldsInv, JobsHold, TypeOK, Job
  <2>2. ASSUME job[s].at = "reserve"
        PROVE  Reserving(s)'
    <3> DEFINE o == job[s].o
               L == LinesFor(job[s].o, job[s].d)
    <3>1. Reserving(s) /\ L \subseteq Lines
      BY <2>1, <2>2, LinesOfTheCart DEF JobHolds
    <3>2. CASE s # t
      BY <1>1, <1>2, <1>3, <1>4, <2>1, <3>1, <3>2 DEF Reserving, LinesFor
    <3>3. CASE s = t
      <4>1. /\ call'[s] # NoCall /\ call'[s].op = "reserve" /\ call'[s].o = o
            /\ call'[s].left \subseteq L
        BY <1>2, <3>1, <3>3 DEF Reserving, CallMove
      <4>2. call[s].at # "reply" => \A l \in L \ call'[s].left : hold'[l][o] # "NONE"
        BY <1>2, <1>3, <2>1, <3>1, <3>3 DEF Reserving, CallMove
      <4>3. call'[s].at # "reply" => call[s].at # "reply"
        BY <1>2, <3>3 DEF CallMove
      <4>4. call'[s].at = "reply" /\ call'[s].ok =>
               call[s].at # "reply" /\ \A l \in call'[s].left : hold'[l][o] # "NONE"
        BY <1>2, <3>1, <3>3 DEF Reserving, CallMove
      <4> QED
        BY <1>1, <4>1, <4>2, <4>3, <4>4 DEF Reserving, Held, LinesFor
    <3> QED
      BY <3>2, <3>3
  <2> QED
    BY <1>1, <1>4, <2>1, <2>2 DEF JobHolds, Dropping
<1> QED
  BY <1>1, <1>4, <1>5 DEF HoldsInv, JobsHold, RoutedIsHeld, TypeOK

LEMMA QuietHolds ==
    ASSUME TypeOK, HoldsInv, UNCHANGED <<order, hold, call>>,
           \A s \in Threads : job'[s] # NoJob => job'[s] = job[s]
    PROVE  HoldsInv'
BY DEF HoldsInv, JobsHold, RoutedIsHeld, JobHolds, Reserving, Held, LinesFor, Dropping

LEMMA NextHolds ==
    ASSUME OrdersInv, OwesInv, HoldsInv, [Next]_vars
    PROVE  HoldsInv'
<1>1. TypeOK
  BY DEF OrdersInv
<1>2. CASE UNCHANGED vars
  BY <1>1, <1>2, QuietHolds DEF vars, depotVars, orders
<1>3. ASSUME NEW t \in Threads, Crash(t)
      PROVE  HoldsInv'
  <2>1. UNCHANGED <<order, hold, call>> /\ \A s \in Threads : job'[s] # NoJob => job'[s] = job[s]
    BY <1>1, <1>3 DEF Crash, NoCallMade, Done, shelf, orders, TypeOK
  <2> QED
    BY <1>1, <2>1, QuietHolds
<1>4. ASSUME NEW t \in Threads, NEW o \in Orders, Request(t, o)
      PROVE  HoldsInv'
  BY <1>1, <1>4, RequestBegins, BeginsHolds
<1>5. ASSUME CountStep, UNCHANGED <<orders, job>>
      PROVE  HoldsInv'
  <2>1. UNCHANGED <<order, hold, call, job>>
    BY <1>5 DEF CountStep, BeginCount, WriteCount, shelf, orders
  <2> QED
    BY <1>1, <2>1, QuietHolds
<1> QED
  BY <1>1, <1>2, <1>3, <1>4, <1>5, NextSteps, JobStepHolds, DepotSideHolds

LEMMA InitHolds ==
    ASSUME "legacy" \notin Kinds, Init
    PROVE  HoldsInv
<1>1. PICK kind \in [Orders -> Kinds] :
         order = [o \in Orders |->
                     [kind |-> kind[o], depot |-> NoDepot, dispatched |-> FALSE,
                      status |-> IF kind[o] = "legacy" THEN "CREATED" ELSE "NONE"]]
  BY DEF Init
<1>2. \A o \in Orders : order[o].status = "NONE"
  BY <1>1
<1>3. \A t \in Threads : job[t] = NoJob
  BY DEF Init
<1> QED
  BY <1>2, <1>3 DEF HoldsInv, JobsHold, RoutedIsHeld

----------------------------------------------------------------------------
(* Where stock is given up: HeldWhereRouted *)

\* Nothing held for the order was given up, and nothing is asked to be.
Intact(o) ==
    /\ \A l \in Lines : hold[l][o] \in {"NONE", "ACTIVE"}
    /\ \A t \in Threads : call[t] # NoCall /\ call[t].op = "release" => call[t].o # o

Rerouting(t, o) == job[t] # NoJob /\ job[t].op = "reroute" /\ job[t].o = o
Unmoved(o) ==
    moves[o] = 0 \/ \E t \in Threads : Rerouting(t, o) /\ job[t].at \in {"reserve", "route"}

\* With one reroute to an order, that reroute alone changes its depot.
OneMove ==
    \A o \in Orders, t \in Threads :
        Rerouting(t, o) =>
            /\ moves[o] # 0
            /\ job[t].at \in {"reserve", "route", "lost"} =>
                  order[o].depot = job[t].from /\ job[t].d # job[t].from
            /\ \A s \in Threads : Rerouting(s, o) => s = t

\* What a checkout holds is not touched until its order is written.
CheckoutAlone ==
    \A t \in Threads :
        job[t] # NoJob /\ job[t].op = "checkout" /\ job[t].at \in {"reserve", "create"} =>
            /\ Intact(job[t].o)
            /\ \A s \in Threads : s # t /\ call[s] # NoCall => call[s].o # job[t].o
NothingGivenUp == \A o \in Orders : order[o].status \in Standing /\ Unmoved(o) => Intact(o)

\* What is being released for an order that stands is not at its depot.
ReleasesElsewhere ==
    \A t \in Threads :
        call[t] # NoCall /\ call[t].op = "release" /\ order[call[t].o].status \in Standing =>
            \A l \in call[t].left : DepotOf[l] # order[call[t].o].depot

MoveInv == OneMove /\ CheckoutAlone /\ NothingGivenUp /\ ReleasesElsewhere /\ HeldWhereRouted

\* Which steps of a request ask for a release, and of what.
ReleaseAsked(t) ==
    LET j == job[t]
        lines == call'[t].left
    IN
    /\ j # NoJob /\ job'[t] # NoJob /\ job'[t].at = "last"
    /\ call'[t] # NoCall /\ call'[t].op = "release" /\ call'[t].at = "run" /\ call'[t].o = j.o
    /\ \/ j.at = "create" /\ UNCHANGED order /\ lines = LinesFor(j.o, j.d)
       \/ /\ j.at = "lost" /\ UNCHANGED order /\ order[j.o].depot # j.d
          /\ lines = LinesFor(j.o, j.d)
       \/ j.at = "drop" /\ UNCHANGED order /\ lines = LinesFor(j.o, j.d)
       \/ /\ j.at = "route" /\ j.op = "reroute" /\ MayRoute(j)
          /\ order'[j.o].depot = j.d /\ lines = LinesFor(j.o, j.from)

LEMMA AskIsMade ==
    ASSUME DepotTypeOK, NEW t \in Threads, NEW op \in CallOps, NEW o \in Orders, NEW d, Ask(t, op, o, d)
    PROVE  /\ call'[t] # NoCall /\ call'[t].op = op /\ call'[t].o = o /\ call'[t].left = LinesFor(o, d)
           /\ call'[t].at = (IF op \in {"reserve", "consume"} THEN "check" ELSE "run") /\ ~call'[t].ok
<1> DEFINE c == [op |-> op, at |-> IF op \in {"reserve", "consume"} THEN "check" ELSE "run",
                 o |-> o, left |-> LinesFor(o, d), seen |-> {}, ok |-> FALSE]
<1>1. c \in Call
  BY LinesOfTheCart DEF Call
<1>2. call'[t] = c
  BY DEF DepotTypeOK, Ask
<1>3. /\ c.op = op /\ c.o = o /\ c.left = LinesFor(o, d) /\ ~c.ok
      /\ c.at = IF op \in {"reserve", "consume"} THEN "check" ELSE "run"
  OBVIOUS
<1> HIDE DEF c
<1> QED
  BY <1>1, <1>2, <1>3, NoCallAssumption

LEMMA WaitAsks ==
    ASSUME TypeOK, NEW t \in Threads, job[t] # NoJob, NEW step \in Steps, NEW op \in CallOps, NEW d,
           Wait(t, step, op, d)
    PROVE  /\ job'[t] # NoJob /\ job'[t].at = step
           /\ call'[t] # NoCall /\ call'[t].op = op /\ call'[t].o = job[t].o
           /\ call'[t].left = LinesFor(job[t].o, d)
           /\ call'[t].at = (IF op \in {"reserve", "consume"} THEN "check" ELSE "run") /\ ~call'[t].ok
<1>1. job[t] \in Job /\ job[t].o \in Orders /\ DepotTypeOK
  BY DEF TypeOK, Job
<1>2. job'[t] = [job[t] EXCEPT !.at = step]
  BY DEF Wait, Goto, TypeOK
<1>3. job'[t] \in Job /\ job'[t].at = step
  BY <1>1, <1>2 DEF Job
<1> QED
  BY <1>1, <1>3, NoJobAssumption, AskIsMade DEF Wait

\* Each step of a request leaves its call, takes the answer, asks for a sale or
\* for a restock, or asks for a release.
LEMMA JobStepReleases ==
    ASSUME OrdersInv, NEW t \in Threads, JobStep(t)
    PROVE  \/ UNCHANGED call \/ Return(t)
           \/ call'[t] # NoCall /\ call'[t].op \in {"consume", "restock"}
           \/ ReleaseAsked(t)
<1>1. TypeOK /\ DepotTypeOK
  BY DEF OrdersInv, TypeOK
<1>2. "last" \in Steps /\ "consume" \in Steps /\ {"release", "consume", "restock"} \subseteq CallOps
  BY DEF Steps, CallOps
<1>3. CASE \/ Reserved(t) \/ ApplyStatus(t) \/ Due(t) \/ Deliver(t) \/ Consumed(t) \/ ReversePayment(t)
           \/ MarkDone(t) \/ MarkFailed(t) \/ PayBack(t) \/ VoidWalkIn(t) \/ Finish(t) \/ Abandoned(t)
  BY <1>3 DEF Reserved, ApplyStatus, Due, Deliver, Consumed, ReversePayment, MarkDone, MarkFailed,
              PayBack, VoidWalkIn, Finish, Abandoned, NoCallMade
<1>4. CASE Create(t)
  <2>1. job[t] # NoJob /\ job[t].at = "create"
    BY <1>4 DEF Create, At
  <2>2. CASE Wait(t, "last", "release", job[t].d) /\ UNCHANGED order
    BY <1>1, <1>2, <2>1, <2>2, WaitAsks DEF ReleaseAsked
  <2> QED
    BY <1>4, <2>2 DEF Create
<1>5. CASE Route(t)
  <2>1. job[t] # NoJob /\ job[t].at = "route" /\ job[t].o \in Orders
    BY <1>1, <1>5 DEF Route, At, TypeOK, Job
  <2>2. CASE /\ MayRoute(job[t]) /\ job[t].op = "reroute" /\ Wait(t, "last", "release", job[t].from)
             /\ order' = [order EXCEPT ![job[t].o].depot = job[t].d]
    <3>1. order'[job[t].o].depot = job[t].d
      BY <1>1, <2>1, <2>2 DEF TypeOK, OrderRow
    <3> QED
      BY <1>1, <1>2, <2>1, <2>2, <3>1, WaitAsks DEF ReleaseAsked
  <2> QED
    BY <1>5, <2>2 DEF Route, DepotLeft
<1>6. CASE ReleaseLostHold(t)
  <2>1. job[t] # NoJob /\ job[t].at = "lost" /\ UNCHANGED order
    BY <1>6 DEF ReleaseLostHold, At, orders
  <2>2. CASE order[job[t].o].depot # job[t].d /\ Wait(t, "last", "release", job[t].d)
    BY <1>1, <1>2, <2>1, <2>2, WaitAsks DEF ReleaseAsked
  <2> QED
    BY <1>6, <2>2 DEF ReleaseLostHold
<1>7. CASE Drop(t)
  <2>1. job[t] # NoJob /\ job[t].at = "drop" /\ UNCHANGED order
    BY <1>7 DEF Drop, At, orders
  <2>2. CASE Wait(t, "last", "release", job[t].d)
    BY <1>1, <1>2, <2>1, <2>2, WaitAsks DEF ReleaseAsked
  <2> QED
    BY <1>7, <2>2 DEF Drop
<1>8. CASE ConsumeStock(t) \/ CallOff(t)
  <2>1. job[t] # NoJob
    BY <1>8 DEF ConsumeStock, CallOff, At
  <2> QED
    BY <1>1, <1>2, <1>8, <2>1, WaitAsks DEF ConsumeStock, CallOff
<1> QED
  BY <1>3, <1>4, <1>5, <1>6, <1>7, <1>8 DEF JobStep

LEMMA JobStepUnmoved ==
    ASSUME NEW t \in Threads, JobStep(t)
    PROVE  UNCHANGED moves
BY DEF JobStep, Reserved, Create, Route, ReleaseLostHold, ApplyStatus, Drop, Due, Deliver, ConsumeStock,
       Consumed, ReversePayment, MarkDone, MarkFailed, PayBack, VoidWalkIn, CallOff, Finish, Abandoned, orders

\* A reroute is on its way to its write, or past it, as it was.
LEMMA ReroutesGoOn ==
    ASSUME OrdersInv, NEW t \in Threads, JobStep(t), NEW s \in Threads, NEW o, Rerouting(s, o)'
    PROVE  /\ Rerouting(s, o) /\ job'[s].from = job[s].from
           /\ job'[s].at \in {"reserve", "route"} => job[s].at \in {"reserve", "route"}
           /\ job'[s].at \in {"reserve", "route", "lost"} =>
                 job[s].at \in {"reserve", "route", "lost"} /\ job'[s].d = job[s].d
<1>1. JobKeeps(t, s) /\ job'[s] # NoJob /\ job'[s].op = "reroute" /\ job'[s].o = o
  BY JobStepKeeps DEF Rerouting, OrdersInv
<1>2. Rerouting(s, o) /\ job'[s].from = job[s].from
  BY <1>1 DEF JobKeeps, Rerouting
<1> QED
  BY <1>1, <1>2 DEF JobKeeps, Follows

\* An order comes to stand by its checkout alone, and to a new depot by its
\* checkout or its reroute; what is held for it then was never given up.
LEMMA OrderComesToStand ==
    ASSUME OrdersInv, HoldsInv, MoveInv, NEW t \in Threads, JobStep(t), NEW o \in Orders,
           order'[o] # order[o], order'[o].status \in Standing
    PROVE  \/ order[o].status \in Standing /\ order'[o].depot = order[o].depot
           \/ /\ o = job[t].o /\ job[t] # NoJob /\ Intact(o) /\ Held(o, order'[o].depot)
              /\ \/ job[t].op = "checkout" /\ job[t].at = "create" /\ order[o].status = "NONE"
                 \/ Rerouting(t, o) /\ Route(t) /\ MayRoute(job[t]) /\ order[o].status \in Standing
<1>1. job[t] # NoJob /\ o = job[t].o
  BY OrderSteps
<1>2. job[t].at \in {"create", "route"} => Held(o, job[t].d)
  BY <1>1 DEF HoldsInv, JobsHold, JobHolds
<1>3. CASE job[t].at = "create" /\ job[t].op = "checkout" /\ order[o].status = "NONE" /\ order'[o].depot = job[t].d
  BY <1>1, <1>2, <1>3 DEF MoveInv, CheckoutAlone
<1>4. CASE /\ Route(t) /\ job[t].at = "route" /\ job[t].op \in {"assign", "reroute"} /\ MayRoute(job[t])
           /\ order'[o].status = order[o].status /\ order'[o].depot = job[t].d
  <2>1. Rerouting(t, o)
    BY <1>1, <1>4 DEF HoldsInv, JobsHold, JobHolds, Rerouting
  <2>2. Intact(o)
    BY <1>4, <2>1 DEF MoveInv, NothingGivenUp, Unmoved
  <2> QED
    BY <1>1, <1>2, <1>4, <2>1, <2>2
<1>5. CASE CanTransition(order[o].status, order'[o].status) /\ order'[o].depot = order[o].depot
  BY <1>5 DEF CanTransition, Dispatched, Standing, Statuses, Over
<1>6. order'[o].status # "VOIDED"
  BY DEF Standing, Over
<1> QED
  BY <1>3, <1>4, <1>5, <1>6, OrderSteps

LEMMA JobStepOneMove ==
    ASSUME OrdersInv, HoldsInv, MoveInv, NEW t \in Threads, JobStep(t)
    PROVE  OneMove'
<1>1. TypeOK /\ UNCHANGED moves
  BY JobStepUnmoved DEF OrdersInv
<1> SUFFICES ASSUME NEW o \in Orders, NEW s \in Threads, Rerouting(s, o)'
             PROVE  /\ moves[o] # 0
                    /\ job'[s].at \in {"reserve", "route", "lost"} =>
                          order'[o].depot = job'[s].from /\ job'[s].d # job'[s].from
                    /\ \A u \in Threads : Rerouting(u, o)' => u = s
  BY <1>1 DEF OneMove, Rerouting
<1>2. /\ Rerouting(s, o) /\ moves[o] # 0
      /\ \A u \in Threads : Rerouting(u, o) => u = s
  BY ReroutesGoOn DEF MoveInv, OneMove
<1>3. \A u \in Threads : Rerouting(u, o)' => u = s
  BY <1>2, ReroutesGoOn
<1>4. ASSUME job'[s].at \in {"reserve", "route", "lost"}
      PROVE  order'[o].depot = job'[s].from /\ job'[s].d # job'[s].from
  <2>1. /\ job'[s].from = job[s].from /\ job'[s].d = job[s].d
        /\ order[o].depot = job[s].from /\ job[s].d # job[s].from
    BY <1>4, ReroutesGoOn DEF MoveInv, OneMove
  <2>2. order'[o].depot = order[o].depot
    <3>1. CASE order'[o].depot # order[o].depot
      <4>1. job[t] # NoJob /\ o = job[t].o /\ order[o].status # "NONE"
        BY <1>2, <3>1, OrderSteps DEF HoldsInv, JobsHold, JobHolds, Rerouting
      <4>2. Route(t) /\ job[t].op \in {"assign", "reroute"} /\ MayRoute(job[t])
        BY <3>1, <4>1, OrderSteps
      <4>3. Rerouting(t, o) /\ job[t].op = "reroute"
        BY <4>1, <4>2 DEF HoldsInv, JobsHold, JobHolds, Rerouting
      <4>4. s = t /\ "last" \in Steps /\ "release" \in CallOps
        BY <1>2, <4>3 DEF Steps, CallOps
      <4>5. Wait(t, "last", "release", DepotLeft(job[t]))
        BY <4>2, <4>3 DEF Route
      <4>6. job'[t].at = "last"
        BY <1>1, <4>1, <4>4, <4>5, WaitAsks
      <4> QED
        BY <1>4, <4>4, <4>6
    <3> QED
      BY <3>1
  <2> QED
    BY <2>1, <2>2
<1> QED
  BY <1>2, <1>3, <1>4

LEMMA JobStepAlone ==
    ASSUME OrdersInv, MoveInv, NEW t \in Threads, JobStep(t)
    PROVE  CheckoutAlone'
<1>1. TypeOK
  BY DEF OrdersInv
<1> SUFFICES ASSUME NEW s \in Threads, job'[s] # NoJob, job'[s].op = "checkout",
                    job'[s].at \in {"reserve", "create"}
             PROVE  /\ \A l \in Lines : hold'[l][job'[s].o] \in {"NONE", "ACTIVE"}
                    /\ \A u \in Threads : call'[u] # NoCall /\ call'[u].op = "release" => call'[u].o # job'[s].o
                    /\ \A u \in Threads : u # s /\ call'[u] # NoCall => call'[u].o # job'[s].o
  BY DEF CheckoutAlone, Intact
<1>2. /\ job[s] # NoJob /\ job[s].op = "checkout" /\ job'[s].o = job[s].o
      /\ job[s].at \in {"reserve", "create"}
  BY <1>1, JobStepKeeps DEF JobKeeps, Follows
<1>3. /\ Intact(job[s].o)
      /\ \A u \in Threads : u # s /\ call[u] # NoCall => call[u].o # job[s].o
      /\ \A u \in Threads : u # s /\ job[u] # NoJob => job[u].o # job[s].o
  BY <1>2 DEF MoveInv, CheckoutAlone, OrdersInv, OrdersFresh
<1>4. UNCHANGED hold /\ \A u \in Threads : u # t => call'[u] = call[u]
  BY <1>1, JobStepLeavesAlone
<1>5. ASSUME call'[t] # NoCall, call'[t] # call[t]
      PROVE  job[t] # NoJob /\ call'[t].o = job[t].o /\ (call'[t].op = "release" => job'[t].at = "last")
  <2>1. PICK op \in CallOps, d \in Depots \cup {NoDepot} : Asks(t, op, d)
    BY <1>1, <1>5, JobStepAsks DEF Return, TypeOK, DepotTypeOK
  <2>2. job[t] # NoJob /\ call'[t].o = job[t].o /\ call[t] = NoCall
    BY <1>1, <2>1, AskedCall DEF Asks, TypeOK
  <2>3. call'[t].op = "release" => ReleaseAsked(t)
    BY <1>1, <1>5, <2>2, JobStepReleases DEF Return, Answered
  <2> QED
    BY <2>2, <2>3 DEF ReleaseAsked
<1>6. \A u \in Threads : u # s /\ call'[u] # NoCall => call'[u].o # job[s].o
  BY <1>3, <1>4, <1>5
<1>7. \A u \in Threads : call'[u] # NoCall /\ call'[u].op = "release" => call'[u].o # job[s].o
  BY <1>3, <1>4, <1>5, <1>6 DEF Intact
<1> QED
  BY <1>2, <1>3, <1>4, <1>6, <1>7 DEF Intact

LEMMA JobStepGivesUp ==
    ASSUME OrdersInv, HoldsInv, MoveInv, NEW t \in Threads, JobStep(t)
    PROVE  NothingGivenUp'
<1>1. TypeOK /\ UNCHANGED moves
  BY JobStepUnmoved DEF OrdersInv
<1> SUFFICES ASSUME NEW o \in Orders, order'[o].status \in Standing, Unmoved(o)'
             PROVE  Intact(o)'
  BY DEF NothingGivenUp
<1>2. Unmoved(o)
  BY <1>1, ReroutesGoOn DEF Unmoved
<1>3. Intact(o)
  <2>1. CASE order[o].status \in Standing
    BY <1>2, <2>1 DEF MoveInv, NothingGivenUp
  <2>2. CASE order[o].status \notin Standing
    BY <2>2, OrderComesToStand
  <2> QED
    BY <2>1, <2>2
<1>4. UNCHANGED hold /\ \A u \in Threads : u # t => call'[u] = call[u]
  BY <1>1, JobStepLeavesAlone
<1>5. ASSUME call'[t] # call[t], call'[t] # NoCall, call'[t].op = "release", call'[t].o = o
      PROVE  FALSE
  <2>1. ReleaseAsked(t)
    BY <1>1, <1>5, JobStepReleases DEF Return, TypeOK, DepotTypeOK
  <2>2. job[t] # NoJob /\ job[t].o = o /\ job'[t].at = "last"
    BY <1>5, <2>1 DEF ReleaseAsked
  <2>3. JobHolds(t) /\ JobFits(job[t]) /\ job[t].op \in Ops
    BY <1>1, <2>2 DEF HoldsInv, JobsHold, OrdersInv, JobsFit, TypeOK, Job
  <2>4. CASE job[t].at = "create" /\ UNCHANGED order
    BY <2>2, <2>3, <2>4 DEF JobFits, Places, Delivering, Moving, Ops, OrdersInv, OrdersFresh, Standing
  <2>5. CASE job[t].at \in {"lost", "route"}
    <3>1. Rerouting(t, o)
      BY <2>2, <2>3, <2>5 DEF JobFits, Places, Delivering, Moving, Ops, JobHolds, Rerouting
    <3>2. PICK s \in Threads : Rerouting(s, o)' /\ job'[s].at \in {"reserve", "route"}
      BY <1>1, <3>1 DEF Unmoved, MoveInv, OneMove
    <3>3. s = t
      BY <3>1, <3>2, ReroutesGoOn DEF MoveInv, OneMove
    <3> QED
      BY <2>2, <3>2, <3>3
  <2>6. CASE job[t].at = "drop" /\ UNCHANGED order
    BY <2>2, <2>3, <2>6 DEF JobHolds, Standing, Over
  <2> QED
    BY <2>1, <2>4, <2>5, <2>6 DEF ReleaseAsked
<1> QED
  BY <1>3, <1>4, <1>5 DEF Intact

LEMMA JobStepElsewhere ==
    ASSUME OrdersInv, HoldsInv, MoveInv, NEW t \in Threads, JobStep(t)
    PROVE  ReleasesElsewhere'
<1>1. TypeOK /\ order \in [Orders -> OrderRow] /\ order' \in [Orders -> OrderRow]
  BY JobStepRows DEF OrdersInv, TypeOK
<1> SUFFICES ASSUME NEW s \in Threads, call'[s] # NoCall, call'[s].op = "release",
                    order'[call'[s].o].status \in Standing, NEW l \in call'[s].left
             PROVE  DepotOf[l] # order'[call'[s].o].depot
  BY DEF ReleasesElsewhere
<1>2. CASE call'[s] = call[s]
  <2>1. PICK o \in Orders : o = call[s].o
    BY <1>1, <1>2, CallFields DEF TypeOK
  <2>2. ~Intact(o)
    BY <1>2, <2>1 DEF Intact
  <2>3. order[o].status \in Standing => DepotOf[l] # order[o].depot
    BY <1>2, <2>1 DEF MoveInv, ReleasesElsewhere
  <2> QED
    BY <1>2, <2>1, <2>2, <2>3, OrderComesToStand
<1>3. CASE call'[s] # call[s]
  <2>1. s = t
    BY <1>1, <1>3, JobStepLeavesAlone
  <2>2. ReleaseAsked(t)
    BY <1>1, <1>3, <2>1, JobStepReleases DEF Return, TypeOK, DepotTypeOK
  <2>3. job[t] # NoJob /\ job[t] \in Job /\ JobFits(job[t]) /\ JobHolds(t) /\ job[t].op \in Ops
    BY <1>1, <2>2 DEF ReleaseAsked, TypeOK, OrdersInv, JobsFit, HoldsInv, JobsHold, Job
  <2>4. call'[t].o = job[t].o /\ job[t].o \in Orders
    BY <2>2, <2>3 DEF ReleaseAsked, Job
  <2>5. CASE job[t].at = "create" /\ UNCHANGED order
    BY <2>1, <2>3, <2>4, <2>5 DEF JobFits, Places, Delivering, Moving, Ops, OrdersInv, OrdersFresh, Standing
  <2>6. CASE job[t].at = "drop" /\ UNCHANGED order
    BY <2>1, <2>3, <2>4, <2>6 DEF JobHolds, Standing, Over
  <2>7. CASE UNCHANGED order /\ order[job[t].o].depot # job[t].d /\ call'[t].left = LinesFor(job[t].o, job[t].d)
    BY <2>1, <2>4, <2>7 DEF LinesFor
  <2>8. CASE /\ job[t].at = "route" /\ job[t].op = "reroute"
             /\ order'[job[t].o].depot = job[t].d /\ call'[t].left = LinesFor(job[t].o, job[t].from)
    <3>1. Rerouting(t, job[t].o)
      BY <2>3, <2>8 DEF Rerouting
    <3>2. job[t].d # job[t].from
      BY <2>4, <2>8, <3>1 DEF MoveInv, OneMove
    <3> QED
      BY <2>1, <2>4, <2>8, <3>2 DEF LinesFor
  <2> QED
    BY <2>2, <2>5, <2>6, <2>7, <2>8 DEF ReleaseAsked
<1> QED
  BY <1>2, <1>3

LEMMA JobStepHeld ==
    ASSUME OrdersInv, HoldsInv, MoveInv, NEW t \in Threads, JobStep(t)
    PROVE  HeldWhereRouted'
<1>1. UNCHANGED hold
  BY JobStepLeavesAlone DEF OrdersInv
<1> SUFFICES ASSUME NEW o \in Orders, order'[o].status \in Standing, order'[o].depot # NoDepot,
                    NEW l \in LinesFor(o, order'[o].depot)
             PROVE  hold[l][o] = "ACTIVE"
  BY <1>1 DEF HeldWhereRouted, LinesFor
<1>2. CASE order[o].status \in Standing /\ order'[o].depot = order[o].depot
  BY <1>2 DEF MoveInv, HeldWhereRouted
<1>3. CASE Intact(o) /\ Held(o, order'[o].depot)
  BY <1>3, LinesOfTheCart DEF Intact, Held
<1> QED
  BY <1>2, <1>3, OrderComesToStand

LEMMA BeginsMove ==
    ASSUME MaxMoves <= 1, OrdersInv, OrdersInv', MoveInv,
           NEW t \in Threads, NEW j \in Job, NEW o \in Orders, BegunAs(j, o), Begins(t, j)
    PROVE  MoveInv'
<1>1. TypeOK /\ DepotTypeOK /\ MaxMoves \in Nat /\ moves \in [Orders -> 0..MaxMoves]
  BY TriesAssumption DEF OrdersInv, TypeOK
<1>2. UNCHANGED <<order, hold>>
  BY DEF Begins, ShelfKept, shelf
<1>3. (\A s \in Threads : job'[s] = IF s = t THEN j ELSE job[s]) /\ j # NoJob /\ job[t] = NoJob
  BY <1>1, NoJobAssumption DEF TypeOK, Begins
<1>4. (\A s \in Threads : s # t => call'[s] = call[s]) /\ call[t] = NoCall
  BY <1>1, AskedCall DEF Begins
<1>5. call'[t] = NoCall \/ (call'[t].op = "reserve" /\ call'[t].o = o)
  BY <1>1, <1>4, AskedCall DEF Begins, BegunAs
<1>6. \A p \in Orders : moves'[p] = IF j.op = "reroute" /\ p = o THEN moves[p] + 1 ELSE moves[p]
  BY <1>1 DEF Begins, BegunAs
<1>7. j.op = "reroute" => moves[o] = 0 /\ order[o].depot = j.from /\ j.d # j.from
  BY <1>1 DEF BegunAs
<1>8. ASSUME NEW p \in Orders, NEW s \in Threads, Rerouting(s, p)'
      PROVE  (Rerouting(s, p) /\ s # t) \/ (s = t /\ p = o /\ j.op = "reroute")
  BY <1>3, <1>8 DEF Rerouting, BegunAs
<1>9. OneMove'
  <2> SUFFICES ASSUME NEW p \in Orders, NEW s \in Threads, Rerouting(s, p)'
               PROVE  /\ moves'[p] # 0
                      /\ job'[s].at \in {"reserve", "route", "lost"} =>
                            order[p].depot = job'[s].from /\ job'[s].d # job'[s].from
                      /\ \A u \in Threads : Rerouting(u, p)' => u = s
    BY <1>2 DEF OneMove
  <2>1. moves[p] \in Nat
    BY <1>1
  <2>2. CASE Rerouting(s, p) /\ s # t
    <3>1. moves[p] # 0 /\ \A u \in Threads : Rerouting(u, p) => u = s
      BY <2>2 DEF MoveInv, OneMove
    <3>2. moves'[p] # 0 /\ ~(p = o /\ j.op = "reroute")
      BY <1>6, <1>7, <2>1, <3>1
    <3>3. job'[s] = job[s]
      BY <1>3, <2>2
    <3> QED
      BY <1>8, <2>2, <3>1, <3>2, <3>3 DEF MoveInv, OneMove
  <2>3. CASE s = t /\ p = o /\ j.op = "reroute"
    <3>1. moves[o] = 0 /\ moves'[o] # 0
      BY <1>6, <1>7, <2>3
    <3>2. \A u \in Threads : ~Rerouting(u, o)
      BY <3>1 DEF MoveInv, OneMove
    <3> QED
      BY <1>3, <1>7, <1>8, <2>3, <3>1, <3>2
  <2> QED
    BY <1>8, <2>2, <2>3
<1>10. ASSUME NEW p \in Orders, Intact(p)
       PROVE  Intact(p)'
  BY <1>2, <1>4, <1>5, <1>10 DEF Intact
<1>11. CheckoutAlone'
  <2> SUFFICES ASSUME NEW s \in Threads, job'[s] # NoJob, job'[s].op = "checkout",
                      job'[s].at \in {"reserve", "create"}
               PROVE  /\ \A l \in Lines : hold'[l][job'[s].o] \in {"NONE", "ACTIVE"}
                      /\ \A u \in Threads : call'[u] # NoCall /\ call'[u].op = "release" => call'[u].o # job'[s].o
                      /\ \A u \in Threads : u # s /\ call'[u] # NoCall => call'[u].o # job'[s].o
    BY DEF CheckoutAlone, Intact
  <2>1. CASE s = t
    <3>1. ~Busy(o) /\ (\A l \in Lines : hold[l][o] = "NONE") /\ job'[s].o = o
      BY <1>3, <2>1 DEF BegunAs
    <3> QED
      BY <1>2, <1>4, <1>5, <2>1, <3>1 DEF Busy
  <2>2. CASE s # t
    <3>1. job'[s] = job[s] /\ job'[t] = j /\ j.o = o
      BY <1>3, <2>2 DEF BegunAs
    <3>2. job[s].o # o
      BY <1>3, <2>2, <3>1 DEF OrdersInv, OrdersFresh
    <3> QED
      BY <1>2, <1>4, <1>5, <2>2, <3>1, <3>2 DEF MoveInv, CheckoutAlone, Intact
  <2> QED
    BY <2>1, <2>2
<1>12. NothingGivenUp'
  <2>1. ASSUME NEW p \in Orders, Unmoved(p)'
        PROVE  Unmoved(p)
    <3>1. CASE moves'[p] = 0
      BY <1>1, <1>6, <3>1 DEF Unmoved
    <3>2. CASE moves'[p] # 0
      BY <1>3, <1>7, <1>8, <2>1, <3>2 DEF Unmoved
    <3> QED
      BY <3>1, <3>2
  <2> QED
    BY <1>2, <1>10, <2>1 DEF MoveInv, NothingGivenUp
<1>13. ReleasesElsewhere' /\ HeldWhereRouted'
  BY <1>2, <1>4, <1>5 DEF MoveInv, ReleasesElsewhere, HeldWhereRouted, LinesFor
<1> QED
  BY <1>9, <1>11, <1>12, <1>13 DEF MoveInv

LEMMA DepotSideMoves ==
    ASSUME OrdersInv, SoldInv, MoveInv, NEW t \in Threads, CallStep(t) \/ Break(t),
           UNCHANGED <<orders, job>>
    PROVE  MoveInv'
<1>1. TypeOK /\ DepotTypeOK /\ UNCHANGED <<order, job, moves>>
  BY DEF OrdersInv, TypeOK, orders
<1>2. \A s \in Threads : CallGoesOn(s)
  BY <1>1, CallStepGoesOn
<1>3. \A l \in Lines, o \in Orders : HoldMove(t, l, o)
  BY <1>1, CallStepMoves
<1>4. call[t] # NoCall
  BY <1>1, CallStepMoves DEF CallMove
<1>5. \A o \in Orders : call[t].op = "consume" /\ call[t].o = o => order[o].status \in Sold
  BY <1>4 DEF SoldInv, SellsWhereRouted
<1>6. ASSUME NEW o \in Orders, order[o].status \notin Sold, Intact(o)
      PROVE  Intact(o)'
  <2>1. \A l \in Lines : hold'[l][o] \in {"NONE", "ACTIVE"}
    BY <1>3, <1>4, <1>5, <1>6 DEF HoldMove, Intact
  <2>2. \A s \in Threads : call'[s] # NoCall /\ call'[s].op = "release" => call'[s].o # o
    BY <1>2, <1>6 DEF CallGoesOn, Intact
  <2> QED
    BY <2>1, <2>2 DEF Intact
<1>7. OneMove'
  BY <1>1 DEF MoveInv, OneMove, Rerouting
<1>8. CheckoutAlone'
  <2> SUFFICES ASSUME NEW s \in Threads, job[s] # NoJob, job[s].op = "checkout",
                      job[s].at \in {"reserve", "create"}
               PROVE  /\ \A l \in Lines : hold'[l][job[s].o] \in {"NONE", "ACTIVE"}
                      /\ \A u \in Threads : call'[u] # NoCall /\ call'[u].op = "release" => call'[u].o # job[s].o
                      /\ \A u \in Threads : u # s /\ call'[u] # NoCall => call'[u].o # job[s].o
    BY <1>1 DEF CheckoutAlone, Intact
  <2>1. PICK o \in Orders : o = job[s].o /\ order[o].status = "NONE" /\ Intact(o)
    BY <1>1 DEF OrdersInv, OrdersFresh, TypeOK, Job, MoveInv, CheckoutAlone
  <2>2. Intact(o)'
    BY <1>6, <2>1 DEF Sold
  <2> QED
    BY <1>2, <2>1, <2>2 DEF MoveInv, CheckoutAlone, Intact, CallGoesOn
<1>9. NothingGivenUp'
  BY <1>1, <1>6 DEF MoveInv, NothingGivenUp, Unmoved, Rerouting, Sold, Standing, Over
<1>10. ReleasesElsewhere'
  BY <1>1, <1>2 DEF MoveInv, ReleasesElsewhere, CallGoesOn
<1>11. HeldWhereRouted'
  <2> SUFFICES ASSUME NEW o \in Orders, order[o].status \in Standing, order[o].depot # NoDepot,
                      NEW l \in LinesFor(o, order[o].depot)
               PROVE  hold'[l][o] = "ACTIVE"
    BY <1>1 DEF HeldWhereRouted, LinesFor
  <2>1. hold[l][o] = "ACTIVE" /\ l \in Lines /\ DepotOf[l] = order[o].depot
    BY LinesOfTheCart DEF MoveInv, HeldWhereRouted, LinesFor
  <2>2. ~(call[t].op = "release" /\ call[t].o = o /\ l \in call[t].left)
    BY <1>4, <2>1 DEF MoveInv, ReleasesElsewhere
  <2>3. ~(call[t].op = "consume" /\ call[t].o = o)
    BY <1>5 DEF Sold, Standing, Over
  <2> QED
    BY <1>3, <2>1, <2>2, <2>3 DEF HoldMove
<1> QED
  BY <1>7, <1>8, <1>9, <1>10, <1>11 DEF MoveInv

LEMMA QuietMoves ==
    ASSUME MoveInv, UNCHANGED <<order, hold, call, moves>>,
           \A s \in Threads : job'[s] # NoJob => job'[s] = job[s]
    PROVE  MoveInv'
<1>1. OneMove' /\ CheckoutAlone' /\ ReleasesElsewhere' /\ HeldWhereRouted'
  BY DEF MoveInv, OneMove, CheckoutAlone, ReleasesElsewhere, HeldWhereRouted, Rerouting, Intact, LinesFor
<1>2. NothingGivenUp'
  BY DEF MoveInv, NothingGivenUp, Rerouting, Unmoved, Intact
<1> QED
  BY <1>1, <1>2 DEF MoveInv

LEMMA NextMoves ==
    ASSUME MaxMoves <= 1, OrdersInv, SoldInv, HoldsInv, MoveInv, [Next]_vars
    PROVE  MoveInv'
<1>1. TypeOK /\ OrdersInv'
  BY NextOrders DEF OrdersInv
<1>2. CASE UNCHANGED vars
  BY <1>2, QuietMoves DEF vars, depotVars, orders
<1>3. ASSUME NEW t \in Threads, Crash(t)
      PROVE  MoveInv'
  <2>1. UNCHANGED <<order, hold, call, moves>> /\ \A s \in Threads : job'[s] # NoJob => job'[s] = job[s]
    BY <1>1, <1>3 DEF Crash, NoCallMade, Done, shelf, orders, TypeOK
  <2> QED
    BY <2>1, QuietMoves
<1>4. ASSUME NEW t \in Threads, NEW o \in Orders, Request(t, o)
      PROVE  MoveInv'
  BY <1>1, <1>4, RequestBegins, BeginsMove
<1>5. ASSUME CountStep, UNCHANGED <<orders, job>>
      PROVE  MoveInv'
  <2>1. UNCHANGED <<order, hold, call, moves, job>>
    BY <1>5 DEF CountStep, BeginCount, WriteCount, shelf, orders
  <2> QED
    BY <2>1, QuietMoves
<1>6. ASSUME NEW t \in Threads, JobStep(t)
      PROVE  MoveInv'
  BY <1>6, JobStepOneMove, JobStepAlone, JobStepGivesUp, JobStepElsewhere, JobStepHeld DEF MoveInv
<1> QED
  BY <1>2, <1>3, <1>4, <1>5, <1>6, NextSteps, DepotSideMoves

LEMMA InitMoves ==
    ASSUME "legacy" \notin Kinds, Init
    PROVE  MoveInv
<1>1. PICK kind \in [Orders -> Kinds] :
         order = [o \in Orders |->
                     [kind |-> kind[o], depot |-> NoDepot, dispatched |-> FALSE,
                      status |-> IF kind[o] = "legacy" THEN "CREATED" ELSE "NONE"]]
  BY DEF Init
<1>2. \A o \in Orders : order[o].status \notin Standing
  BY <1>1 DEF Standing
<1>3. \A t \in Threads : job[t] = NoJob /\ call[t] = NoCall
  BY DEF Init, DepotInit
<1> QED
  BY <1>2, <1>3 DEF MoveInv, OneMove, CheckoutAlone, NothingGivenUp, ReleasesElsewhere, HeldWhereRouted, Rerouting

\* Checkout, assignment and one reroute: an order that stands is held, wholly,
\* at the depot it is routed to, whatever breaks off or dies on the way; "there
\* is never a moment with NO hold".
THEOREM HeldAtItsDepot ==
    ASSUME "legacy" \notin Kinds, MaxMoves <= 1
    PROVE  Spec => []HeldWhereRouted
<1> DEFINE I == OrdersInv /\ SoldInv /\ OwesInv /\ HoldsInv /\ MoveInv
<1>1. Init => I
  BY InitOrders, InitSold, InitOwes, InitHolds, InitMoves
<1>2. I /\ [Next]_vars => I'
  BY NextOrders, NextSold, NextOwes, NextHolds, NextMoves
<1>3. I => HeldWhereRouted
  BY DEF MoveInv
<1> HIDE DEF I
<1> QED
  BY <1>1, <1>2, <1>3, PTL DEF Spec

----------------------------------------------------------------------------
(* The last unit is promised once: PromisedIsThere *)

\* Who was sold units of a line, or is promised them.
Takers(l) == sold[l] \cup HeldBy(l)

\* What is being released for an order that was sold is not at its depot, so
\* what has not left the shelf for it yet is still held for it.
KeepsTheSold ==
    \A t \in Threads :
        call[t] # NoCall /\ call[t].op = "release" /\ order[call[t].o].status \in Sold =>
            \A l \in call[t].left : DepotOf[l] # order[call[t].o].depot
UnsoldIsHeld ==
    \A o \in Orders :
        order[o].status \in Sold /\ order[o].depot # NoDepot =>
            \A l \in LinesFor(o, order[o].depot) : hold[l][o] = "ACTIVE" \/ o \in sold[l]
SeenIsSold ==
    \A t \in Threads :
        call[t] # NoCall /\ call[t].op = "consume" => \A l \in call[t].seen : call[t].o \in sold[l]

PromiseInv == counts = {} /\ KeepsTheSold /\ UnsoldIsHeld /\ SeenIsSold /\ PromisedIsThere

\* An order comes to be sold where it was routed, by its completion or as a
\* counter sale straight from its checkout.
LEMMA OrderComesToBeSold ==
    ASSUME OrdersInv, HoldsInv, MoveInv, NEW t \in Threads, JobStep(t), NEW o \in Orders,
           order'[o] # order[o], order'[o].status \in Sold
    PROVE  \/ order[o].status \in Sold \cup Standing /\ order'[o].depot = order[o].depot
           \/ Intact(o) /\ Held(o, order'[o].depot)
<1>1. job[t] # NoJob /\ o = job[t].o
  BY OrderSteps
<1>2. job[t].at \in {"create", "route"} => Held(o, job[t].d)
  BY <1>1 DEF HoldsInv, JobsHold, JobHolds
<1>3. CASE job[t].at = "create" /\ job[t].op = "checkout" /\ order'[o].depot = job[t].d
  BY <1>1, <1>2, <1>3 DEF MoveInv, CheckoutAlone
<1>4. ~(/\ Route(t) /\ job[t].at = "route" /\ job[t].op \in {"assign", "reroute"} /\ MayRoute(job[t])
        /\ order'[o].status = order[o].status)
  BY <1>1 DEF HoldsInv, JobsHold, JobHolds, MayRoute, Reroutable, Sold
<1>5. CASE CanTransition(order[o].status, order'[o].status) /\ order'[o].depot = order[o].depot
  BY <1>5 DEF CanTransition, Dispatched, Standing, Statuses, Over, Sold
<1>6. CASE order[o].status = "COMPLETED" /\ order'[o].depot = order[o].depot
  BY <1>6 DEF Sold
<1> QED
  BY <1>3, <1>4, <1>5, <1>6, OrderSteps

LEMMA JobStepKeepsTheSold ==
    ASSUME OrdersInv, HoldsInv, MoveInv, PromiseInv, NEW t \in Threads, JobStep(t)
    PROVE  KeepsTheSold'
<1>1. TypeOK /\ order \in [Orders -> OrderRow] /\ order' \in [Orders -> OrderRow]
  BY JobStepRows DEF OrdersInv, TypeOK
<1> SUFFICES ASSUME NEW s \in Threads, call'[s] # NoCall, call'[s].op = "release",
                    order'[call'[s].o].status \in Sold, NEW l \in call'[s].left
             PROVE  DepotOf[l] # order'[call'[s].o].depot
  BY DEF KeepsTheSold
<1>2. CASE call'[s] = call[s]
  <2>1. PICK o \in Orders : o = call[s].o
    BY <1>1, <1>2, CallFields DEF TypeOK
  <2>2. ~Intact(o)
    BY <1>2, <2>1 DEF Intact
  <2>3. order[o].status \in Sold \cup Standing => DepotOf[l] # order[o].depot
    BY <1>2, <2>1 DEF MoveInv, ReleasesElsewhere, PromiseInv, KeepsTheSold
  <2> QED
    BY <1>2, <2>1, <2>2, <2>3, OrderComesToBeSold
<1>3. CASE call'[s] # call[s]
  <2>1. s = t
    BY <1>1, <1>3, JobStepLeavesAlone
  <2>2. ReleaseAsked(t)
    BY <1>1, <1>3, <2>1, JobStepReleases DEF Return, TypeOK, DepotTypeOK
  <2>3. job[t] # NoJob /\ job[t] \in Job /\ JobFits(job[t]) /\ JobHolds(t) /\ job[t].op \in Ops
    BY <1>1, <2>2 DEF ReleaseAsked, TypeOK, OrdersInv, JobsFit, HoldsInv, JobsHold, Job
  <2>4. call'[t].o = job[t].o /\ job[t].o \in Orders
    BY <2>2, <2>3 DEF ReleaseAsked, Job
  <2>5. CASE job[t].at = "create" /\ UNCHANGED order
    BY <2>1, <2>3, <2>4, <2>5 DEF JobFits, Places, Delivering, Moving, Ops, OrdersInv, OrdersFresh, Sold
  <2>6. CASE job[t].at = "drop" /\ UNCHANGED order
    BY <2>1, <2>3, <2>4, <2>6 DEF JobHolds, Sold
  <2>7. CASE UNCHANGED order /\ order[job[t].o].depot # job[t].d /\ call'[t].left = LinesFor(job[t].o, job[t].d)
    BY <2>1, <2>4, <2>7 DEF LinesFor
  <2>8. CASE /\ job[t].at = "route" /\ job[t].op = "reroute"
             /\ order'[job[t].o].depot = job[t].d /\ call'[t].left = LinesFor(job[t].o, job[t].from)
    <3>1. Rerouting(t, job[t].o)
      BY <2>3, <2>8 DEF Rerouting
    <3>2. job[t].d # job[t].from
      BY <2>4, <2>8, <3>1 DEF MoveInv, OneMove
    <3> QED
      BY <2>1, <2>4, <2>8, <3>2 DEF LinesFor
  <2> QED
    BY <2>2, <2>5, <2>6, <2>7, <2>8 DEF ReleaseAsked
<1> QED
  BY <1>2, <1>3

LEMMA JobStepUnsold ==
    ASSUME OrdersInv, HoldsInv, MoveInv, PromiseInv, NEW t \in Threads, JobStep(t)
    PROVE  UnsoldIsHeld'
<1>1. UNCHANGED <<hold, sold>>
  BY JobStepSpeaks DEF ShelfKept, shelf, OrdersInv
<1> SUFFICES ASSUME NEW o \in Orders, order'[o].status \in Sold, order'[o].depot # NoDepot,
                    NEW l \in LinesFor(o, order'[o].depot)
             PROVE  hold[l][o] = "ACTIVE" \/ o \in sold[l]
  BY <1>1 DEF UnsoldIsHeld, LinesFor
<1>2. CASE order[o].status \in Sold \cup Standing /\ order'[o].depot = order[o].depot
  BY <1>2 DEF MoveInv, HeldWhereRouted, PromiseInv, UnsoldIsHeld
<1>3. CASE Intact(o) /\ Held(o, order'[o].depot)
  BY <1>3, LinesOfTheCart DEF Intact, Held
<1> QED
  BY <1>2, <1>3, OrderComesToBeSold

\* Fewer takers, or more put back: the promise stands.
LEMMA FewerTakers ==
    ASSUME DepotTypeOK, DepotTypeOK', PromisedIsThere,
           \A l \in Lines : Takers(l)' \subseteq Takers(l) /\ net[l] <= net'[l]
    PROVE  PromisedIsThere'
<1> SUFFICES ASSUME NEW l \in Lines
             PROVE  Cardinality(Units(Takers(l)')) <= Stock + net'[l]
  BY DEF PromisedIsThere, Takers, HeldBy, Units
<1>1. Takers(l) \in SUBSET Orders /\ Takers(l)' \in SUBSET Orders
  BY DEF DepotTypeOK, Takers, HeldBy
<1>2. Cardinality(Units(Takers(l)')) <= Cardinality(Units(Takers(l)))
  BY <1>1, UnitsGrow
<1>3. /\ Cardinality(Units(Takers(l))) \in Nat /\ Cardinality(Units(Takers(l)')) \in Nat
      /\ net[l] \in Int /\ net'[l] \in Int /\ Stock \in Nat
  BY <1>1, UnitsFinite, BoundsAssumption DEF DepotTypeOK
<1>4. Cardinality(Units(Takers(l))) <= Stock + net[l]
  BY DEF PromisedIsThere, Takers, HeldBy
<1>5. net[l] <= net'[l]
  OBVIOUS
<1> QED
  BY <1>2, <1>3, <1>4, <1>5

LEMMA UnitsOfBoth ==
    ASSUME NEW S \in SUBSET Orders, NEW T \in SUBSET Orders
    PROVE  Cardinality(Units(S \cup T)) <= Cardinality(Units(S)) + Cardinality(Units(T))
<1>1. Units(S \cup T) = Units(S) \cup Units(T)
  BY DEF Units
<1>2. IsFiniteSet(Units(S)) /\ IsFiniteSet(Units(T))
  BY UnitsFinite
<1>3. Cardinality(Units(S) \cap Units(T)) \in Nat
  <2>1. IsFiniteSet(Units(S) \cap Units(T))
    BY <1>2, FS_Subset
  <2> QED
    BY <2>1, FS_CardinalityType
<1>4. Cardinality(Units(S)) \in Nat /\ Cardinality(Units(T)) \in Nat
  BY UnitsFinite
<1>5. Cardinality(Units(S) \cup Units(T)) =
         Cardinality(Units(S)) + Cardinality(Units(T)) - Cardinality(Units(S) \cap Units(T))
  BY <1>2, FS_Union
<1> DEFINE a == Cardinality(Units(S))
           b == Cardinality(Units(T))
           c == Cardinality(Units(S) \cap Units(T))
           u == Cardinality(Units(S) \cup Units(T))
<1>6. u = a + b - c /\ a \in Nat /\ b \in Nat /\ c \in Nat
  BY <1>3, <1>4, <1>5
<1> HIDE DEF a, b, c, u
<1>7. u <= a + b
  BY <1>6
<1> QED
  BY <1>1, <1>7 DEF a, b, u

\* reserveAtomic: what is held fits what the shelf has and nobody was promised.
LEMMA ReservePromises ==
    ASSUME DepotTypeOK, DepotTypeOK', ReservedIsHeld', LedgerMatchesShelf, PromisedIsThere,
           NEW t \in Threads, Reserve(t)
    PROVE  PromisedIsThere'
<1> DEFINE o == call[t].o
           held == Granted(call[t])
<1>1. o \in Orders /\ Qty[o] \in Nat /\ call[t] # NoCall
  BY CallFields DEF Reserve, Running
<1>2. UNCHANGED <<quantity, sold, net>>
  BY DEF Reserve
<1> SUFFICES ASSUME NEW l \in Lines
             PROVE  Cardinality(Units(sold[l] \cup HeldBy(l)')) <= Stock + net[l]
  BY <1>2 DEF PromisedIsThere, HeldBy, Units
<1>3. CASE l \in held
  <2>1. quantity[l] - reserved[l] >= Qty[o]
    BY <1>3 DEF Granted, Fits, Available
  <2>2. reserved'[l] = reserved[l] + Qty[o]
    BY <1>3 DEF Reserve
  <2>3. reserved'[l] = Cardinality(Units(HeldBy(l)'))
    BY DEF ReservedIsHeld, HeldBy, Units
  <2>4. quantity[l] = Stock + net[l] - Cardinality(Units(sold[l]))
    BY DEF LedgerMatchesShelf
  <2>5. sold[l] \in SUBSET Orders /\ HeldBy(l)' \in SUBSET Orders
    BY DEF DepotTypeOK, HeldBy
  <2>6. Cardinality(Units(sold[l] \cup HeldBy(l)')) <= Cardinality(Units(sold[l])) + Cardinality(Units(HeldBy(l)'))
    BY <2>5, UnitsOfBoth
  <2>7. /\ Cardinality(Units(sold[l])) \in Nat /\ Cardinality(Units(HeldBy(l)')) \in Nat
        /\ Cardinality(Units(sold[l] \cup HeldBy(l)')) \in Nat
    <3>1. sold[l] \cup HeldBy(l)' \in SUBSET Orders
      BY <2>5
    <3> QED
      BY <2>5, <3>1, UnitsFinite
  <2>8. quantity[l] \in Int /\ reserved[l] \in Int /\ net[l] \in Int /\ Stock \in Nat
    BY BoundsAssumption DEF DepotTypeOK
  <2> DEFINE a == Cardinality(Units(sold[l]))
             b == Cardinality(Units(HeldBy(l)'))
             c == Cardinality(Units(sold[l] \cup HeldBy(l)'))
             q == Qty[o]
             r == reserved'[l]
  <2>9. /\ quantity[l] - reserved[l] >= q /\ r = reserved[l] + q /\ r = b
        /\ quantity[l] = Stock + net[l] - a /\ c <= a + b
        /\ a \in Nat /\ b \in Nat /\ c \in Nat /\ q \in Nat
    BY <1>1, <2>1, <2>2, <2>3, <2>4, <2>6, <2>7
  <2> HIDE DEF a, b, c, q, r
  <2>10. c <= Stock + net[l]
    BY <2>8, <2>9
  <2> QED
    BY <2>10 DEF c
<1>4. CASE l \notin held
  <2>1. hold'[l] = hold[l]
    BY <1>4 DEF Reserve
  <2>2. {p \in Orders : hold'[l][p] = "ACTIVE"} = HeldBy(l)
    BY <2>1 DEF HeldBy
  <2>3. Cardinality(Units(sold[l] \cup HeldBy(l))) <= Stock + net[l]
    BY DEF PromisedIsThere, HeldBy
  <2>4. Cardinality(Units(sold[l] \cup {p \in Orders : hold'[l][p] = "ACTIVE"})) <= Stock + net[l]
    BY <2>2, <2>3
  <2> QED
    BY <2>4 DEF HeldBy
<1> QED
  BY <1>3, <1>4

\* What a call sells it has sold before, or holds; what it settles it has sold.
LEMMA CallStepSeen ==
    ASSUME DepotTypeOK, NEW t \in Threads, CallStep(t) \/ Break(t), SeenIsSold
    PROVE  /\ SeenIsSold'
           /\ \A l \in Lines : sold[l] \subseteq sold'[l]
           /\ \A l \in Lines, o \in Orders :
                 hold[l][o] = "ACTIVE" /\ hold'[l][o] # "ACTIVE" /\ call[t].op = "consume" => o \in sold[l]
<1>1. call[t] # NoCall /\ call[t] \in Call
  BY DEF DepotTypeOK, CallStep, Break, CheckHolds, Reserve, CheckSales, Sell, SettleSale, Release,
         Restock, NothingToDo, Running
<1>2. call[t].left \subseteq Lines /\ call[t].seen \subseteq Lines /\ call[t].o \in Orders
  BY <1>1 DEF Call
<1>3. \A s \in Threads : s # t => call'[s] = call[s]
  BY CallStepMoves
<1>4. \A l \in Lines : sold[l] \subseteq sold'[l]
  <2>1. CASE Sell(t)
    <3>1. PICK l \in call[t].left : \/ sold' = [sold EXCEPT ![l] = @ \cup {call[t].o}]
                                    \/ UNCHANGED sold
      BY <2>1 DEF Sell
    <3> QED
      BY <3>1 DEF DepotTypeOK
  <2>2. CASE ~Sell(t)
    BY <2>2 DEF CallStep, CheckHolds, Reserve, CheckSales, SettleSale, Release, Restock, NothingToDo,
                Break, shelf
  <2> QED
    BY <2>1, <2>2
<1>5. call[t].op = "consume" => \A l \in call'[t].seen : call[t].o \in sold'[l]
  <2> SUFFICES ASSUME call[t].op = "consume"
               PROVE  \A l \in call'[t].seen : call[t].o \in sold'[l]
    OBVIOUS
  <2>1. \A l \in call[t].seen : call[t].o \in sold'[l]
    BY <1>1, <1>2, <1>4 DEF SeenIsSold
  <2>2. CASE CheckSales(t)
    <3>1. call'[t].seen = {l \in call[t].left : call[t].o \in sold[l]}
      BY <1>1, <2>2 DEF CheckSales, DepotTypeOK, Call
    <3> QED
      BY <1>2, <1>4, <3>1
  <2>3. CASE Sell(t)
    <3>1. PICK l \in call[t].left :
             \/ /\ sold' = [sold EXCEPT ![l] = @ \cup {call[t].o}]
                /\ call' = [call EXCEPT ![t].seen = @ \cup {l}]
             \/ Answer(t, FALSE)
      BY <2>3 DEF Sell
    <3>2. CASE Answer(t, FALSE)
      BY <1>1, <2>1, <3>2 DEF Answer, DepotTypeOK, Call
    <3>3. CASE /\ sold' = [sold EXCEPT ![l] = @ \cup {call[t].o}]
               /\ call' = [call EXCEPT ![t].seen = @ \cup {l}]
      <4>1. call'[t].seen = call[t].seen \cup {l}
        BY <1>1, <3>3 DEF DepotTypeOK, Call
      <4>2. call[t].o \in sold'[l]
        BY <1>2, <3>3 DEF DepotTypeOK
      <4> QED
        BY <2>1, <4>1, <4>2
    <3> QED
      BY <3>1, <3>2, <3>3
  <2>4. CASE SettleSale(t)
    <3>1. PICK l \in call[t].left : LineDone(t, l)
      BY <2>4 DEF SettleSale
    <3>2. call'[t].seen = call[t].seen
      BY <1>1, <3>1 DEF LineDone, DepotTypeOK, Call
    <3> QED
      BY <2>1, <3>2
  <2>5. CASE NothingToDo(t) \/ Break(t)
    <3>1. call'[t].seen = call[t].seen
      BY <1>1, <2>5 DEF NothingToDo, Break, Answer, DepotTypeOK, Call
    <3> QED
      BY <2>1, <3>1
  <2>6. ~(CheckHolds(t) \/ Reserve(t) \/ Release(t) \/ Restock(t))
    BY DEF CheckHolds, Reserve, Release, Restock, Running
  <2> QED
    BY <2>2, <2>3, <2>4, <2>5, <2>6 DEF CallStep
<1>6. SeenIsSold'
  <2> SUFFICES ASSUME NEW s \in Threads, call'[s] # NoCall, call'[s].op = "consume", NEW l \in call'[s].seen
               PROVE  call'[s].o \in sold'[l]
    BY DEF SeenIsSold
  <2>1. CASE s = t
    <3>1. call[t].op = "consume" /\ call'[t].o = call[t].o
      BY <2>1, CallStepMoves DEF CallMove
    <3> QED
      BY <1>5, <2>1, <3>1
  <2>2. CASE s # t
    <3>1. call'[s] = call[s] /\ l \in Lines
      BY <1>3, <2>2, CallFields
    <3> QED
      BY <1>4, <3>1 DEF SeenIsSold
  <2> QED
    BY <2>1, <2>2
<1>7. ASSUME NEW l \in Lines, NEW o \in Orders, call[t].op = "consume",
             hold[l][o] = "ACTIVE", hold'[l][o] # "ACTIVE"
      PROVE  o \in sold[l]
  <2>1. SettleSale(t)
    BY <1>7 DEF CallStep, Break, CheckHolds, Reserve, CheckSales, Sell, Release, Restock, NothingToDo,
                Running, shelf
  <2>2. PICK k \in call[t].left \cap call[t].seen : Settle(k, call[t].o, "CONSUMED")
    BY <2>1 DEF SettleSale
  <2>3. k = l /\ call[t].o = o
    BY <1>2, <1>7, <2>2 DEF Settle, DepotTypeOK
  <2> QED
    BY <1>1, <1>7, <2>2, <2>3 DEF SeenIsSold
<1> QED
  BY <1>4, <1>6, <1>7

LEMMA DepotSidePromise ==
    ASSUME OrdersInv, OrdersInv', SoldInv, MoveInv, ReservedIsHeld', LedgerMatchesShelf, PromiseInv,
           NEW t \in Threads, CallStep(t) \/ Break(t), UNCHANGED <<orders, job>>
    PROVE  PromiseInv'
<1>1. TypeOK /\ DepotTypeOK /\ DepotTypeOK' /\ UNCHANGED order
  BY DEF OrdersInv, TypeOK, orders
<1>2. \A s \in Threads : CallGoesOn(s)
  BY <1>1, CallStepGoesOn
<1>3. /\ call[t] # NoCall /\ \A l \in Lines, o \in Orders : HoldMove(t, l, o)
  BY <1>1, CallStepMoves DEF CallMove
<1>4. /\ SeenIsSold' /\ \A l \in Lines : sold[l] \subseteq sold'[l]
      /\ \A l \in Lines, o \in Orders :
            hold[l][o] = "ACTIVE" /\ hold'[l][o] # "ACTIVE" /\ call[t].op = "consume" => o \in sold[l]
  BY <1>1, CallStepSeen DEF PromiseInv
<1>5. counts' = {}
  BY DEF PromiseInv, CallStep, Break, CheckHolds, Reserve, CheckSales, Sell, SettleSale, Release,
         Restock, NothingToDo, shelf
<1>6. KeepsTheSold'
  BY <1>1, <1>2 DEF PromiseInv, KeepsTheSold, CallGoesOn
<1>7. UnsoldIsHeld'
  <2> SUFFICES ASSUME NEW o \in Orders, order[o].status \in Sold, order[o].depot # NoDepot,
                      NEW l \in LinesFor(o, order[o].depot)
               PROVE  hold'[l][o] = "ACTIVE" \/ o \in sold'[l]
    BY <1>1 DEF UnsoldIsHeld, LinesFor
  <2>1. l \in Lines /\ DepotOf[l] = order[o].depot /\ (hold[l][o] = "ACTIVE" \/ o \in sold[l])
    BY LinesOfTheCart DEF PromiseInv, UnsoldIsHeld, LinesFor
  <2>2. ~(call[t].op = "release" /\ call[t].o = o /\ l \in call[t].left)
    BY <1>3, <2>1 DEF PromiseInv, KeepsTheSold
  <2> QED
    BY <1>3, <1>4, <2>1, <2>2 DEF HoldMove
<1>8. PromisedIsThere'
  <2>1. CASE Reserve(t)
    BY <1>1, <2>1, ReservePromises DEF PromiseInv
  <2>2. CASE ~Reserve(t)
    <3>1. \A l \in Lines : HeldBy(l)' \subseteq HeldBy(l)
      <4>1. call[t].op = "reserve" => UNCHANGED hold
        BY <2>2 DEF CallStep, Break, CheckHolds, CheckSales, Sell, SettleSale, Release, Restock,
                    NothingToDo, Running, shelf
      <4> QED
        BY <1>3, <4>1 DEF HoldMove, HeldBy
    <3>2. \A l \in Lines : sold'[l] \subseteq Takers(l)
      <4> SUFFICES ASSUME NEW l \in Lines, NEW o \in sold'[l], o \notin sold[l]
                   PROVE  o \in Takers(l)
        BY DEF Takers
      <4>1. call[t].op = "consume" /\ call[t].o = o /\ l \in call[t].left
        BY <1>1, CallStepSells
      <4>2. o \in Orders
        BY <1>1 DEF DepotTypeOK
      <4>3. order[o].status \in Sold /\ order[o].depot # NoDepot /\ l \in LinesFor(o, order[o].depot)
        BY <1>3, <4>1 DEF SoldInv, SellsWhereRouted
      <4> QED
        BY <4>2, <4>3 DEF PromiseInv, UnsoldIsHeld, Takers, HeldBy
    <3>3. \A l \in Lines : net[l] <= net'[l]
      <4>1. CASE Restock(t)
        <5>1. Qty[call[t].o] \in Nat /\ net \in [Lines -> Int] /\ call[t].left \subseteq Lines
          BY <1>1, <1>3, CallFields DEF DepotTypeOK
        <5>2. PICK k \in call[t].left : Move(k, Qty[call[t].o]) \/ UNCHANGED net
          BY <4>1 DEF Restock
        <5>3. \A l \in Lines : net'[l] = net[l] + Qty[call[t].o] \/ net'[l] = net[l]
          BY <5>1, <5>2 DEF Move
        <5> QED
          BY <5>1, <5>3
      <4>2. CASE ~Restock(t)
        <5>1. UNCHANGED net
          BY <2>2, <4>2 DEF CallStep, Break, CheckHolds, CheckSales, Sell, SettleSale, Release,
                            NothingToDo, shelf
        <5> QED
          BY <1>1, <5>1 DEF DepotTypeOK
      <4> QED
        BY <4>1, <4>2
    <3>4. \A l \in Lines : Takers(l)' \subseteq Takers(l) /\ net[l] <= net'[l]
      BY <3>1, <3>2, <3>3 DEF Takers
    <3> QED
      BY <1>1, <3>4, FewerTakers DEF PromiseInv
  <2> QED
    BY <2>1, <2>2
<1> QED
  BY <1>4, <1>5, <1>6, <1>7, <1>8 DEF PromiseInv

LEMMA AskedUnseen ==
    ASSUME DepotTypeOK, NEW t \in Threads, NEW op \in CallOps, NEW o \in Orders, NEW d, Ask(t, op, o, d)
    PROVE  call'[t].seen = {}
BY DEF DepotTypeOK, Ask

LEMMA JobStepPromise ==
    ASSUME OrdersInv, HoldsInv, MoveInv, PromiseInv, NEW t \in Threads, JobStep(t)
    PROVE  PromiseInv'
<1>1. TypeOK /\ DepotTypeOK
  BY DEF OrdersInv, TypeOK
<1>2. UNCHANGED <<hold, sold, net, counts>>
  BY <1>1, JobStepSpeaks DEF ShelfKept, shelf
<1>3. SeenIsSold'
  <2> SUFFICES ASSUME NEW s \in Threads, call'[s] # NoCall, call'[s].op = "consume", NEW l \in call'[s].seen
               PROVE  call'[s].o \in sold[l]
    BY <1>2 DEF SeenIsSold
  <2>1. CASE call'[s] = call[s]
    BY <2>1 DEF PromiseInv, SeenIsSold
  <2>2. CASE call'[s] # call[s]
    <3>1. s = t
      BY <1>1, <2>2, JobStepLeavesAlone
    <3>2. PICK op \in CallOps, d \in Depots \cup {NoDepot} : Asks(t, op, d)
      BY <1>1, <2>2, <3>1, JobStepAsks DEF Return, DepotTypeOK
    <3>3. job[t].o \in Orders
      BY <1>1, <3>2 DEF Asks, TypeOK, Job
    <3> QED
      BY <1>1, <3>1, <3>2, <3>3, AskedUnseen DEF Asks
  <2> QED
    BY <2>1, <2>2
<1>4. PromisedIsThere'
  BY <1>2 DEF PromiseInv, PromisedIsThere, Units
<1> QED
  BY <1>2, <1>3, <1>4, JobStepKeepsTheSold, JobStepUnsold DEF PromiseInv

LEMMA QuietPromise ==
    ASSUME PromiseInv, UNCHANGED <<order, hold, sold, net, counts>>,
           \A s \in Threads :
              call'[s] # NoCall => call'[s] = call[s] \/ call'[s].op = "reserve"
    PROVE  PromiseInv'
<1>1. KeepsTheSold' /\ SeenIsSold'
  BY DEF PromiseInv, KeepsTheSold, SeenIsSold
<1>2. UnsoldIsHeld' /\ PromisedIsThere' /\ counts' = {}
  BY DEF PromiseInv, UnsoldIsHeld, PromisedIsThere, LinesFor, Units
<1> QED
  BY <1>1, <1>2 DEF PromiseInv

LEMMA NextPromise ==
    ASSUME MaxCounts = 0, OrdersInv, OrdersInv', SoldInv, HoldsInv, MoveInv,
           ReservedIsHeld', LedgerMatchesShelf, PromiseInv, [Next]_vars
    PROVE  PromiseInv'
<1>1. TypeOK /\ DepotTypeOK
  BY DEF OrdersInv, TypeOK
<1>2. CASE UNCHANGED vars
  BY <1>2, QuietPromise DEF vars, depotVars, orders
<1>3. ASSUME NEW t \in Threads, Crash(t)
      PROVE  PromiseInv'
  BY <1>3, QuietPromise DEF Crash, NoCallMade, shelf, orders
<1>4. ASSUME NEW t \in Threads, NEW o \in Orders, Request(t, o)
      PROVE  PromiseInv'
  <2>1. PICK j \in Job : BegunAs(j, o) /\ Begins(t, j)
    BY <1>1, <1>4, RequestBegins
  <2>2. UNCHANGED <<order, hold, sold, net, counts>>
    BY <2>1 DEF Begins, ShelfKept, shelf
  <2>3. \A s \in Threads : call'[s] # NoCall => call'[s] = call[s] \/ call'[s].op = "reserve"
    BY <1>1, <2>1, AskedCall DEF Begins
  <2> QED
    BY <2>2, <2>3, QuietPromise
<1>5. ~CountStep
  <2>1. counts = {} /\ Cardinality(counts) = 0
    BY FS_EmptySet DEF PromiseInv
  <2> QED
    BY <2>1 DEF CountStep, BeginCount, WriteCount
<1> QED
  BY <1>2, <1>3, <1>4, <1>5, NextSteps, JobStepPromise, DepotSidePromise

LEMMA InitPromise == Init => PromiseInv
<1> SUFFICES ASSUME Init PROVE PromiseInv
  OBVIOUS
<1>1. PICK kind \in [Orders -> Kinds] :
         order = [o \in Orders |->
                     [kind |-> kind[o], depot |-> NoDepot, dispatched |-> FALSE,
                      status |-> IF kind[o] = "legacy" THEN "CREATED" ELSE "NONE"]]
  BY DEF Init
<1>2. \A o \in Orders : order[o].status \notin Sold
  BY <1>1 DEF Sold
<1>3. /\ counts = {} /\ \A t \in Threads : call[t] = NoCall
      /\ \A l \in Lines : net[l] = 0 /\ sold[l] = {} /\ HeldBy(l) = {}
  BY DEF Init, DepotInit, HeldBy
<1>4. PromisedIsThere
  <2>1. \A l \in Lines : Cardinality(Units(sold[l] \cup HeldBy(l))) = 0
    BY <1>3, UnitsOfNone
  <2> QED
    BY <1>3, <2>1, BoundsAssumption DEF PromisedIsThere, HeldBy
<1> QED
  BY <1>2, <1>3, <1>4 DEF PromiseInv, KeepsTheSold, UnsoldIsHeld, SeenIsSold

\* reserveForOrder: "two customers cannot both buy the last unit".  However
\* checkouts, a reroute, releases, late and repeated consumes and voids cross,
\* what is sold and promised of a line never exceeds what came in.
THEOREM TheLastUnitIsSoldOnce ==
    ASSUME "legacy" \notin Kinds, MaxMoves <= 1, MaxCounts = 0
    PROVE  Spec => []PromisedIsThere
<1> DEFINE I == /\ OrdersInv /\ SoldInv /\ OwesInv /\ HoldsInv /\ MoveInv
                /\ ReservedIsHeld /\ LedgerMatchesShelf /\ PromiseInv
<1>1. Init => I
  BY InitOrders, InitSold, InitOwes, InitHolds, InitMoves, InitPromise, DepotInitReserved,
     DepotInitLedger DEF Init
<1>2. I /\ [Next]_vars => I'
  <2> SUFFICES ASSUME I, [Next]_vars
               PROVE  I'
    OBVIOUS
  <2>1. OrdersInv' /\ SoldInv' /\ OwesInv' /\ HoldsInv' /\ MoveInv'
    BY NextOrders, NextSold, NextOwes, NextHolds, NextMoves
  <2>2. ReservedIsHeld' /\ LedgerMatchesShelf'
    BY NextIsDepotNext, DepotNextReserved, DepotNextLedger DEF OrdersInv, TypeOK
  <2> QED
    BY <2>1, <2>2, NextPromise
<1>3. I => PromisedIsThere
  BY DEF PromiseInv
<1> HIDE DEF I
<1> QED
  BY <1>1, <1>2, <1>3, PTL DEF Spec

----------------------------------------------------------------------------
(* Who gives the stock back: NoHoldLeftBehind *)

\* A hold is that of an order routed to its depot, or a release of it is under
\* way, or a job will ask for one: a cancellation, or a request that holds it
\* for an order that is not yet, or no longer, to be routed there.
Releases(t, l, o) ==
    call[t] # NoCall /\ call[t].op = "release" /\ call[t].o = o /\ l \in call[t].left
Drops(t, l, o) ==
    /\ job[t] # NoJob /\ job[t].o = o /\ Dropping(job[t])
    /\ job[t].at # "last" /\ job[t].d = DepotOf[l]
Keeps(t, l, o) ==
    /\ job[t] # NoJob /\ job[t].o = o /\ job[t].d = DepotOf[l]
    /\ job[t].op \in {"checkout", "reroute"}
    /\ \/ job[t].at = "reserve" /\ call[t].at = "reply" /\ call[t].ok
       \/ job[t].at \in {"create", "route", "lost"}
Stays(l, o) == order[o].status \notin {"NONE", "CANCELLED"} /\ order[o].depot = DepotOf[l]
LetGo(l, o) == \E t \in Threads : Releases(t, l, o) \/ Drops(t, l, o)
Pending(l, o) == order[o].depot # DepotOf[l] /\ \E t \in Threads : Keeps(t, l, o)

Accounted ==
    \A l \in Lines, o \in Orders :
        hold[l][o] = "ACTIVE" => l \in Cart[o] /\ (Stays(l, o) \/ LetGo(l, o) \/ Pending(l, o))
Unwritten == \A o \in Orders : order[o].status = "NONE" => order[o].depot = NoDepot

\* Nobody stops waiting for a reserve; an answered call has no line left.
CallFits(c, j, depot) ==
    /\ c.op = "reserve" => j # NoJob /\ j.at = "reserve"
    /\ c.op = "release" /\ c.at = "reply" => c.left = {}
    /\ c.op = "consume" /\ c.at = "reply" /\ c.ok => c.left = {}
    /\ c.op = "consume" => \A l \in LinesFor(c.o, depot) : hold[l][c.o] # "ACTIVE" \/ l \in c.left
CallsFit ==
    \A t \in Threads : call[t] # NoCall => CallFits(call[t], job[t], order[call[t].o].depot)

\* A delivered sale has settled every hold of its order at its depot.
Settled(o) ==
    order[o].status = "VOIDED" \/ \A l \in LinesFor(o, order[o].depot) : hold[l][o] # "ACTIVE"
Delivered ==
    /\ \A o \in Orders : row[o]["INVENTORY_CONSUME"].state = "DONE" => Settled(o)
    /\ \A t \in Threads : job[t] # NoJob /\ job[t].topic = "INVENTORY_CONSUME" =>
          /\ job[t].at = "markDone" => Settled(job[t].o)
          /\ job[t].at = "consume" => call[t] # NoCall /\ call[t].op = "consume" /\ call[t].o = job[t].o

LeftInv == Accounted /\ Unwritten /\ CallsFit /\ Delivered

LEMMA GotoFields ==
    ASSUME TypeOK, NEW t \in Threads, job[t] # NoJob, NEW step \in Steps, Goto(t, step)
    PROVE  /\ job'[t] # NoJob /\ job'[t].at = step /\ job'[t].op = job[t].op /\ job'[t].o = job[t].o
           /\ job'[t].to = job[t].to /\ job'[t].d = job[t].d /\ job'[t].topic = job[t].topic
<1>1. job[t] \in Job
  BY DEF TypeOK
<1>2. job'[t] = [job[t] EXCEPT !.at = step]
  BY DEF Goto, TypeOK
<1> QED
  BY <1>1, <1>2, NoJobAssumption DEF Job

\* What becomes of a hold at the depot its order is routed to.
LEMMA StaysGoOn ==
    ASSUME OrdersInv, HoldsInv, NEW t \in Threads, JobStep(t), NEW o \in Orders, NEW l \in Cart[o], Stays(l, o)
    PROVE  Stays(l, o)' \/ LetGo(l, o)'
<1>1. TypeOK /\ "release" \in CallOps /\ "last" \in Steps /\ "due" \in Steps
  BY DEF OrdersInv, CallOps, Steps
<1>2. CASE order'[o] = order[o]
  BY <1>2 DEF Stays
<1>3. CASE order'[o] # order[o]
  <2>1. job[t] # NoJob /\ o = job[t].o /\ JobHolds(t) /\ job[t] \in Job
    BY <1>1, <1>3, OrderSteps DEF HoldsInv, JobsHold, TypeOK
  <2>2. CASE /\ Route(t) /\ job[t].op \in {"assign", "reroute"} /\ MayRoute(job[t])
    <3>1. job[t].op = "reroute" /\ job[t].from = DepotOf[l]
      BY <2>1, <2>2 DEF JobHolds, MayRoute, Stays
    <3>2. Wait(t, "last", "release", job[t].from)
      BY <2>2, <3>1 DEF Route, DepotLeft
    <3>3. Releases(t, l, o)'
      BY <1>1, <2>1, <3>1, <3>2, WaitAsks DEF Releases, LinesFor
    <3> QED
      BY <3>3 DEF LetGo
  <2>3. CASE /\ ApplyStatus(t) /\ job[t].at = "write" /\ job[t].op \in Moving
             /\ CanTransition(order[o].status, order'[o].status)
             /\ order'[o].status = job[t].to /\ order'[o].depot = order[o].depot
    <3>1. CASE job[t].to # "CANCELLED"
      BY <2>3, <3>1 DEF Stays, CanTransition
    <3>2. CASE job[t].to = "CANCELLED"
      <4>1. StillIs(job[t])
        BY <1>3, <2>3 DEF ApplyStatus
      <4>2. job' = [job EXCEPT ![t].at = "due", ![t].d = order[job[t].o].depot]
        BY <2>3, <3>2, <4>1 DEF ApplyStatus, DepotToRelease
      <4>3. job'[t] = [job[t] EXCEPT !.at = "due", !.d = order[o].depot]
        BY <1>1, <2>1, <4>2 DEF TypeOK
      <4>4. order[o].depot \in Depots \cup {NoDepot}
        BY <1>1 DEF TypeOK, OrderRow
      <4>5. /\ job'[t] \in Job /\ job'[t].at = "due" /\ job'[t].d = order[o].depot
            /\ job'[t].op = job[t].op /\ job'[t].o = o /\ job'[t].to = "CANCELLED"
        BY <1>1, <2>1, <3>2, <4>3, <4>4 DEF Job
      <4>6. Drops(t, l, o)'
        BY <2>3, <4>5, NoJobAssumption DEF Drops, Dropping, Stays
      <4> QED
        BY <4>6 DEF LetGo
    <3> QED
      BY <3>1, <3>2
  <2>4. order[o].status # "NONE"
    BY DEF Stays
  <2> QED
    BY <1>3, <2>1, <2>2, <2>3, <2>4, OrderSteps DEF Stays
<1> QED
  BY <1>2, <1>3

LEMMA ReleasesGoOn ==
    ASSUME TypeOK, CallsFit, NEW t \in Threads, JobStep(t), NEW s \in Threads,
           NEW o \in Orders, NEW l, Releases(s, l, o)
    PROVE  Releases(s, l, o)'
<1>1. CASE s # t
  BY <1>1, JobStepLeavesAlone DEF Releases
<1>2. CASE s = t
  <2>1. ~Return(t)
    BY <1>2 DEF Releases, CallsFit, CallFits, Return, Answered
  <2>2. call[t] # NoCall /\ DepotTypeOK
    BY <1>2 DEF Releases, TypeOK
  <2>3. UNCHANGED call
    BY <2>1, <2>2, JobStepAsks, AskedCall DEF Asks
  <2> QED
    BY <2>3 DEF Releases
<1> QED
  BY <1>1, <1>2

LEMMA DropsGoOn ==
    ASSUME OrdersInv, NEW t \in Threads, JobStep(t), NEW s \in Threads,
           NEW o \in Orders, NEW l \in Cart[o], Drops(s, l, o)
    PROVE  Drops(s, l, o)' \/ Releases(s, l, o)'
<1>1. TypeOK /\ "release" \in CallOps /\ "last" \in Steps
  BY DEF OrdersInv, CallOps, Steps
<1>2. CASE s # t
  <2>1. job'[s] = job[s]
    BY <1>1, <1>2, JobStepLeavesAlone
  <2> QED
    BY <2>1 DEF Drops, Dropping
<1>3. CASE s = t
  <2>1. /\ job[t] # NoJob /\ job[t].o = o /\ job[t].op \in Moving /\ job[t].to = "CANCELLED"
        /\ job[t].at \notin {"write", "last"} /\ job[t].d = DepotOf[l]
    BY <1>3 DEF Drops, Dropping
  <2>2. job[t] \in Job /\ JobFits(job[t]) /\ job[t].op # "sweep" /\ job[t].d \in Depots
    <3>1. l \in Lines
      BY LinesAssumption
    <3> QED
      BY <1>1, <2>1, <3>1, LinesAssumption DEF OrdersInv, JobsFit, TypeOK, Moving
  <2>3. job[t].at \in {"due", "drop"} \cup Delivering
    BY <2>1, <2>2 DEF JobFits, Places, Moving
  <2>4. CASE \E step \in Steps \ {"write", "last"} : Goto(t, step)
    <3>1. PICK step \in Steps \ {"write", "last"} : Goto(t, step)
      BY <2>4
    <3>2. step \in Steps
      OBVIOUS
    <3> QED
      BY <1>1, <1>3, <2>1, <3>1, <3>2, GotoFields DEF Drops, Dropping
  <2>5. CASE Drop(t)
    <3>1. Wait(t, "last", "release", job[t].d)
      BY <2>2, <2>5, NoDepotAssumption DEF Drop
    <3> QED
      BY <1>1, <1>3, <2>1, <3>1, WaitAsks DEF Releases, LinesFor
  <2>6. CASE Due(t)
    <3>1. CASE Proceed(t)
      BY <2>1, <2>2, <2>4, <3>1 DEF Proceed, Steps
    <3>2. CASE \E k \in Topics : job' = [job EXCEPT ![t].at = "deliver", ![t].topic = k,
                                                   ![t].tries = row[job[t].o][k].tries]
      <4>1. PICK k \in Topics : job' = [job EXCEPT ![t].at = "deliver", ![t].topic = k,
                                                   ![t].tries = row[job[t].o][k].tries]
        BY <3>2
      <4>2. job'[t] = [job[t] EXCEPT !.at = "deliver", !.topic = k, !.tries = row[job[t].o][k].tries]
        BY <1>1, <4>1 DEF TypeOK
      <4>3. row[job[t].o][k] \in OutboxRow
        BY <1>1, <2>2 DEF TypeOK, Job
      <4>4. /\ job'[t] \in Job /\ job'[t].at = "deliver" /\ job'[t].d = job[t].d
            /\ job'[t].op = job[t].op /\ job'[t].o = job[t].o /\ job'[t].to = job[t].to
        BY <2>2, <4>2, <4>3 DEF Job, OutboxRow, Steps
      <4> QED
        BY <1>3, <2>1, <4>4, NoJobAssumption DEF Drops, Dropping
    <3> QED
      BY <2>6, <3>1, <3>2 DEF Due
  <2>7. CASE Deliver(t) \/ ConsumeStock(t) \/ Consumed(t) \/ ReversePayment(t)
    BY <2>4, <2>7 DEF Deliver, ConsumeStock, Consumed, ReversePayment, Wait, Steps
  <2>8. CASE MarkDone(t) \/ MarkFailed(t)
    BY <2>1, <2>2, <2>4, <2>8 DEF MarkDone, MarkFailed, Proceed, Steps
  <2>9. ~(\/ Reserved(t) \/ Create(t) \/ Route(t) \/ ReleaseLostHold(t) \/ ApplyStatus(t) \/ PayBack(t)
          \/ VoidWalkIn(t) \/ CallOff(t) \/ Finish(t) \/ Abandoned(t))
    BY <2>1, <2>3 DEF Reserved, Create, Route, ReleaseLostHold, ApplyStatus, PayBack, VoidWalkIn,
                      CallOff, Finish, Abandoned, At, Delivering
  <2> QED
    BY <2>5, <2>6, <2>7, <2>8, <2>9 DEF JobStep
<1> QED
  BY <1>2, <1>3

LEMMA KeepsGoOn ==
    ASSUME OrdersInv, HoldsInv, NEW t \in Threads, JobStep(t), NEW s \in Threads,
           NEW o \in Orders, NEW l \in Cart[o], Keeps(s, l, o), order[o].depot # DepotOf[l]
    PROVE  \/ order'[o].depot # DepotOf[l] /\ Keeps(s, l, o)'
           \/ Stays(l, o)' \/ Releases(s, l, o)'
<1>1. TypeOK /\ "release" \in CallOps /\ {"last", "create", "route", "lost"} \subseteq Steps
  BY DEF OrdersInv, CallOps, Steps
<1>2. order'[o].depot = DepotOf[l] => Stays(l, o)'
  BY OrderSteps DEF Stays, HoldsInv, JobsHold, JobHolds, MayRoute, Reroutable
<1>3. CASE s # t
  <2>1. Keeps(s, l, o)'
    BY <1>1, <1>3, JobStepLeavesAlone DEF Keeps
  <2> QED
    BY <1>2, <2>1
<1>4. CASE s = t
  <2>1. /\ job[t] # NoJob /\ job[t].o = o /\ job[t].d = DepotOf[l] /\ job[t].op \in {"checkout", "reroute"}
        /\ \/ job[t].at = "reserve" /\ call[t].ok
           \/ job[t].at \in {"create", "route", "lost"}
    BY <1>4 DEF Keeps
  <2>2. CASE Wait(t, "last", "release", job[t].d)
    BY <1>1, <1>4, <2>1, <2>2, WaitAsks DEF Releases, LinesFor
  <2>3. CASE (Goto(t, "create") \/ Goto(t, "route") \/ Goto(t, "lost")) /\ UNCHANGED order
    BY <1>1, <1>4, <2>1, <2>3, GotoFields DEF Keeps
  <2>4. CASE order'[o].depot = DepotOf[l]
    BY <1>2, <2>4
  <2>5. CASE Reserved(t)
    BY <2>1, <2>3, <2>5 DEF Reserved, At, Verdict, orders
  <2>6. CASE Create(t)
    <3>1. ASSUME NEW status,
                 order' = [order EXCEPT ![job[t].o].status = status, ![job[t].o].depot = job[t].d]
          PROVE  order'[o].depot = job[t].d
      BY <1>1, <2>1, <3>1 DEF TypeOK, OrderRow
    <3>2. order'[o].depot = job[t].d \/ Wait(t, "last", "release", job[t].d)
      BY <2>6, <3>1 DEF Create
    <3> QED
      BY <2>1, <2>2, <2>4, <3>2
  <2>7. CASE Route(t)
    <3>1. CASE MayRoute(job[t])
      <4>1. order' = [order EXCEPT ![o].depot = job[t].d]
        BY <2>1, <2>7, <3>1 DEF Route
      <4>2. order'[o].depot = job[t].d
        BY <1>1, <4>1 DEF TypeOK, OrderRow
      <4> QED
        BY <2>1, <2>4, <4>2
    <3>2. CASE ~MayRoute(job[t])
      BY <2>3, <2>7, <3>2 DEF Route
    <3> QED
      BY <3>1, <3>2
  <2>8. CASE ReleaseLostHold(t)
    BY <2>1, <2>2, <2>8 DEF ReleaseLostHold
  <2>9. ~(\/ ApplyStatus(t) \/ Drop(t) \/ Due(t) \/ Deliver(t) \/ ConsumeStock(t) \/ Consumed(t)
          \/ ReversePayment(t) \/ MarkDone(t) \/ MarkFailed(t) \/ PayBack(t) \/ VoidWalkIn(t)
          \/ CallOff(t) \/ Finish(t) \/ Abandoned(t))
    BY <2>1 DEF ApplyStatus, Drop, Due, Deliver, ConsumeStock, Consumed, ReversePayment, MarkDone,
                MarkFailed, PayBack, VoidWalkIn, CallOff, Finish, Abandoned, At
  <2> QED
    BY <2>5, <2>6, <2>7, <2>8, <2>9 DEF JobStep
<1> QED
  BY <1>3, <1>4

LEMMA JobStepAccounted ==
    ASSUME OrdersInv, HoldsInv, LeftInv, NEW t \in Threads, JobStep(t)
    PROVE  Accounted' /\ Unwritten'
<1>1. TypeOK /\ order \in [Orders -> OrderRow] /\ order' \in [Orders -> OrderRow]
  BY JobStepRows DEF OrdersInv, TypeOK
<1>2. UNCHANGED hold
  BY <1>1, JobStepLeavesAlone
<1>3. Accounted'
  <2> SUFFICES ASSUME NEW l \in Lines, NEW o \in Orders, hold[l][o] = "ACTIVE"
               PROVE  l \in Cart[o] /\ (Stays(l, o)' \/ LetGo(l, o)' \/ Pending(l, o)')
    BY <1>2 DEF Accounted
  <2>1. l \in Cart[o] /\ (Stays(l, o) \/ LetGo(l, o) \/ Pending(l, o))
    BY DEF LeftInv, Accounted
  <2>2. CASE Stays(l, o)
    BY <2>1, <2>2, StaysGoOn
  <2>3. CASE LetGo(l, o)
    <3>1. PICK s \in Threads : Releases(s, l, o) \/ Drops(s, l, o)
      BY <2>3 DEF LetGo
    <3>2. Releases(s, l, o)' \/ Drops(s, l, o)'
      BY <1>1, <2>1, <3>1, ReleasesGoOn, DropsGoOn DEF LeftInv
    <3> QED
      BY <2>1, <3>2 DEF LetGo
  <2>4. CASE Pending(l, o)
    <3>1. PICK s \in Threads : Keeps(s, l, o) /\ order[o].depot # DepotOf[l]
      BY <2>4 DEF Pending
    <3>2. \/ order'[o].depot # DepotOf[l] /\ Keeps(s, l, o)'
          \/ Stays(l, o)' \/ Releases(s, l, o)'
      BY <2>1, <3>1, KeepsGoOn
    <3> QED
      BY <2>1, <3>2 DEF LetGo, Pending
  <2> QED
    BY <2>1, <2>2, <2>3, <2>4
<1>4. Unwritten'
  <2> SUFFICES ASSUME NEW o \in Orders, order'[o].status = "NONE"
               PROVE  order'[o].depot = NoDepot
    BY DEF Unwritten
  <2>1. order[o].status = "NONE"
    BY <1>1, JobStepMoves, MovesKeep
  <2>2. order'[o] = order[o]
    BY <2>1, OrderSteps DEF HoldsInv, JobsHold, JobHolds, MayRoute, Reroutable, CanTransition,
                            Dispatched, Standing
  <2> QED
    BY <2>1, <2>2 DEF LeftInv, Unwritten
<1> QED
  BY <1>3, <1>4

\* A sold order is sold at its depot for good, and settled there for good.
LEMMA JobStepSettled ==
    ASSUME OrdersInv, OwesInv, NEW t \in Threads, JobStep(t), NEW o \in Orders, order[o].status \in Sold
    PROVE  /\ order'[o].status \in Sold /\ order'[o].depot = order[o].depot
           /\ Settled(o) => Settled(o)'
<1>1. TypeOK /\ order \in [Orders -> OrderRow] /\ order' \in [Orders -> OrderRow]
  BY JobStepRows DEF OrdersInv, TypeOK
<1>2. UNCHANGED hold
  BY <1>1, JobStepLeavesAlone
<1>3. order[o].depot # NoDepot
  BY DEF OwesInv, AllRouted, Sold
<1>4. order'[o].status \in Sold /\ order'[o].depot = order[o].depot
  BY <1>1, <1>3, JobStepMoves, MovesKeepSold
<1>5. order[o].status = "VOIDED" => order'[o].status = "VOIDED"
  BY <1>1, JobStepMoves, MovesKeep
<1> QED
  BY <1>2, <1>4, <1>5 DEF Settled, LinesFor

LEMMA JobStepFit ==
    ASSUME OrdersInv, SoldInv, OwesInv, CallsFit, NEW t \in Threads, JobStep(t)
    PROVE  CallsFit'
<1>1. TypeOK /\ DepotTypeOK
  BY DEF OrdersInv, TypeOK
<1>2. UNCHANGED hold /\ \A s \in Threads : s # t => job'[s] = job[s] /\ call'[s] = call[s]
  BY <1>1, JobStepLeavesAlone
<1> SUFFICES ASSUME NEW s \in Threads, call'[s] # NoCall
             PROVE  LET c == call'[s] IN
                    /\ c.op = "reserve" => job'[s] # NoJob /\ job'[s].at = "reserve"
                    /\ c.op = "release" /\ c.at = "reply" => c.left = {}
                    /\ c.op = "consume" /\ c.at = "reply" /\ c.ok => c.left = {}
                    /\ c.op = "consume" =>
                          \A l \in LinesFor(c.o, order'[c.o].depot) : hold[l][c.o] # "ACTIVE" \/ l \in c.left
  BY <1>2 DEF CallsFit, CallFits, LinesFor
<1>3. CASE call'[s] = call[s]
  <2>1. CallFits(call[s], job[s], order[call[s].o].depot)
    BY <1>3 DEF CallsFit
  <2>2. call[s].op = "consume" => order'[call[s].o].depot = order[call[s].o].depot
    <3>1. call[s].o \in Orders
      BY <1>1, <1>3, CallFields
    <3> QED
      BY <1>3, <3>1, JobStepSettled DEF SoldInv, SellsWhereRouted
  <2>3. call[s].op = "reserve" => job'[s] = job[s]
    <3>1. CASE call[s].op = "reserve" /\ s = t
      <4>1. Reserved(t)
        BY <1>3, <2>1, <3>1, AtReserve DEF CallFits
      <4>2. call'[t] = NoCall
        BY <1>1, <4>1 DEF Reserved, Return, DepotTypeOK
      <4> QED
        BY <3>1, <4>2
    <3> QED
      BY <1>2, <3>1
  <2> QED
    BY <1>3, <2>1, <2>2, <2>3 DEF CallFits
<1>4. CASE call'[s] # call[s]
  <2>1. s = t
    BY <1>2, <1>4
  <2>2. PICK op \in CallOps, d \in Depots \cup {NoDepot} : Asks(t, op, d)
    BY <1>1, <1>4, <2>1, JobStepAsks DEF Return, DepotTypeOK
  <2>3. job[t].o \in Orders /\ op \notin {"reserve"}
    BY <1>1, <2>2 DEF Asks, TypeOK, Job
  <2>4. /\ call'[t].op = op /\ call'[t].o = job[t].o /\ call'[t].at # "reply"
        /\ call'[t].left = LinesFor(job[t].o, d)
    BY <1>1, <2>2, <2>3, AskIsMade DEF Asks
  <2>5. op = "consume" => d = order[job[t].o].depot /\ UNCHANGED order
    BY <2>2 DEF Asks
  <2> QED
    BY <2>1, <2>3, <2>4, <2>5
<1> QED
  BY <1>3, <1>4

\* A row is done by the mark of the job that delivered it.
LEMMA DoneRows ==
    ASSUME TypeOK, NEW t \in Threads, JobStep(t), NEW o \in Orders, NEW k \in Topics,
           row'[o][k].state = "DONE", row[o][k].state # "DONE"
    PROVE  MarkDone(t) /\ job[t].o = o /\ job[t].topic = k
<1>1. /\ row \in [Orders -> [Topics -> OutboxRow]] /\ row[o][k] \in OutboxRow
      /\ job[t] # NoJob => job[t] \in Job /\ job[t].o \in Orders /\ job[t].topic \in Topics
  BY DEF TypeOK, Job
<1>2. row' # row
  OBVIOUS
<1>3. CASE Create(t)
  <2>1. Owe(job[t].o, "INVENTORY_CONSUME") /\ job[t] # NoJob
    BY <1>2, <1>3 DEF Create, At
  <2> QED
    BY <1>1, <2>1 DEF Owe, Topics, OutboxRow
<1>4. CASE ApplyStatus(t)
  <2>1. /\ job[t] # NoJob
        /\ row' = [row EXCEPT ![job[t].o] = [m \in Topics |->
                     IF m \in Earned(job[t]) THEN [@[m] EXCEPT !.state = "PENDING"] ELSE @[m]]]
    BY <1>2, <1>4 DEF ApplyStatus, At
  <2> HIDE DEF Earned
  <2> QED
    BY <1>1, <2>1 DEF OutboxRow
<1>5. CASE MarkFailed(t)
  <2> DEFINE dead == Exhausted(job[t])
             r == [state |-> IF dead THEN "DEAD" ELSE "PENDING", tries |-> row[job[t].o][job[t].topic].tries + 1]
  <2>1. job[t] # NoJob /\ row' = [row EXCEPT ![job[t].o][job[t].topic] = r]
    BY <1>1, <1>2, <1>5 DEF MarkFailed, At
  <2>2. r.state # "DONE"
    <3> HIDE DEF dead
    <3> QED
      OBVIOUS
  <2> HIDE DEF r
  <2> QED
    BY <1>1, <2>1, <2>2
<1>6. CASE CallOff(t)
  <2>1. /\ job[t] # NoJob
        /\ row' = [row EXCEPT ![job[t].o]["INVENTORY_CONSUME"].state = IF @ = "PENDING" THEN "CANCELLED" ELSE @]
    BY <1>2, <1>6 DEF CallOff, At
  <2> QED
    BY <1>1, <2>1 DEF Topics, OutboxRow
<1>7. CASE MarkDone(t)
  <2>1. job[t] # NoJob /\ row' = [row EXCEPT ![job[t].o][job[t].topic].state = "DONE"]
    BY <1>2, <1>7 DEF MarkDone, At
  <2> QED
    BY <1>1, <1>7, <2>1
<1>8. CASE \/ Reserved(t) \/ Route(t) \/ ReleaseLostHold(t) \/ Drop(t) \/ Due(t) \/ Deliver(t)
           \/ ConsumeStock(t) \/ Consumed(t) \/ Finish(t) \/ Abandoned(t)
           \/ ReversePayment(t) \/ PayBack(t) \/ VoidWalkIn(t)
  BY <1>2, <1>8 DEF Reserved, Route, ReleaseLostHold, Drop, Due, Deliver, ConsumeStock, Consumed, Finish,
                    Abandoned, ReversePayment, PayBack, VoidWalkIn, orders
<1> QED
  BY <1>3, <1>4, <1>5, <1>6, <1>7, <1>8 DEF JobStep

\* A delivery reaches its mark when it owes nothing, or its sale went through.
LEMMA ReachesItsMark ==
    ASSUME OrdersInv, OwesInv, LeftInv, NEW t \in Threads, JobStep(t),
           job'[t] # NoJob, job'[t].topic = "INVENTORY_CONSUME", job'[t].at = "markDone", job'[t] # job[t]
    PROVE  UNCHANGED order /\ job[t] # NoJob /\ job'[t].o = job[t].o /\ Settled(job[t].o)
<1>1. TypeOK /\ DepotTypeOK
  BY DEF OrdersInv, TypeOK
<1>2. /\ job[t] # NoJob /\ job'[t].o = job[t].o /\ job'[t].topic = job[t].topic
      /\ job[t].at \in {"deliver", "handle", "consume"}
  BY <1>1, JobStepKeeps DEF JobKeeps, Follows
<1>3. PICK o \in Orders : o = job[t].o /\ order[o].status \in Sold
  BY <1>1, <1>2 DEF OrdersInv, JobsFit, HasItsRow, Delivering, RowsEarned, TypeOK, Job
<1>4. CASE Deliver(t)
  <2>1. OwesNothing(job[t])
    <3>1. CASE ~OwesNothing(job[t])
      <4>1. Goto(t, "handle") /\ "handle" \in Steps
        BY <1>4, <3>1 DEF Deliver, Steps
      <4> QED
        BY <1>1, <1>2, <4>1, GotoFields
    <3> QED
      BY <3>1
  <2> QED
    BY <1>2, <1>3, <1>4, <2>1 DEF Deliver, OwesNothing, Over, Sold, Settled, orders
<1>5. CASE ConsumeStock(t)
  <2>1. order[o].depot # NoDepot
    BY <1>3 DEF OwesInv, AllRouted, Sold
  <2>2. Goto(t, "consume") /\ "consume" \in Steps
    BY <1>3, <1>5, <2>1 DEF ConsumeStock, Wait, Steps
  <2> QED
    BY <1>1, <1>2, <2>2, GotoFields
<1>6. CASE Consumed(t)
  <2>1. Verdict(t)
    <3>1. CASE ~Verdict(t)
      <4>1. Goto(t, "markFailed") /\ "markFailed" \in Steps
        BY <1>6, <3>1 DEF Consumed, Steps
      <4> QED
        BY <1>1, <1>2, <4>1, GotoFields
    <3> QED
      BY <3>1
  <2>2. job[t].at = "consume" /\ call[t].at = "reply" /\ call[t].ok /\ UNCHANGED order
    BY <1>6, <2>1 DEF Consumed, At, Return, Answered, Verdict, orders
  <2>3. call[t] # NoCall /\ call[t].op = "consume" /\ call[t].o = o
    BY <1>2, <1>3, <2>2 DEF LeftInv, Delivered
  <2>4. \A l \in LinesFor(o, order[o].depot) : hold[l][o] # "ACTIVE"
    BY <2>2, <2>3 DEF LeftInv, CallsFit, CallFits
  <2> QED
    BY <1>2, <1>3, <2>2, <2>4 DEF Settled
<1>7. ~(\/ Reserved(t) \/ Create(t) \/ Route(t) \/ ReleaseLostHold(t) \/ ApplyStatus(t) \/ Drop(t)
        \/ Due(t) \/ ReversePayment(t) \/ MarkDone(t) \/ MarkFailed(t) \/ PayBack(t) \/ VoidWalkIn(t)
        \/ CallOff(t) \/ Finish(t) \/ Abandoned(t))
  BY <1>2 DEF Reserved, Create, Route, ReleaseLostHold, ApplyStatus, Drop, Due, ReversePayment, MarkDone,
              MarkFailed, PayBack, VoidWalkIn, CallOff, Finish, Abandoned, At
<1> QED
  BY <1>4, <1>5, <1>6, <1>7 DEF JobStep

LEMMA JobStepDelivered ==
    ASSUME OrdersInv, OwesInv, LeftInv, NEW t \in Threads, JobStep(t)
    PROVE  Delivered'
<1>1. TypeOK /\ "INVENTORY_CONSUME" \in Topics
  BY DEF OrdersInv, Topics
<1>2. UNCHANGED hold /\ \A s \in Threads : s # t => job'[s] = job[s] /\ call'[s] = call[s]
  BY <1>1, JobStepLeavesAlone
<1>3. ASSUME NEW o \in Orders, row'[o]["INVENTORY_CONSUME"].state = "DONE"
      PROVE  Settled(o)'
  <2>1. CASE row[o]["INVENTORY_CONSUME"].state = "DONE"
    <3>1. order[o].status \in Sold /\ Settled(o)
      BY <1>1, <2>1 DEF OrdersInv, RowsEarned, LeftInv, Delivered
    <3> QED
      BY <3>1, JobStepSettled
  <2>2. CASE row[o]["INVENTORY_CONSUME"].state # "DONE"
    <3>1. MarkDone(t) /\ job[t].o = o /\ job[t].topic = "INVENTORY_CONSUME"
      BY <1>1, <1>3, <2>2, DoneRows
    <3>2. Settled(o) /\ UNCHANGED order
      BY <3>1 DEF MarkDone, At, LeftInv, Delivered
    <3> QED
      BY <1>2, <3>2 DEF Settled, LinesFor
  <2> QED
    BY <2>1, <2>2
<1>4. ASSUME NEW s \in Threads, job'[s] # NoJob, job'[s].topic = "INVENTORY_CONSUME", job'[s].at = "markDone",
             NEW o \in Orders, o = job'[s].o
      PROVE  Settled(o)'
  <2>1. CASE job'[s] = job[s]
    <3>1. order[o].status \in Sold /\ Settled(o)
      BY <1>1, <1>4, <2>1
         DEF OrdersInv, JobsFit, HasItsRow, Delivering, RowsEarned, LeftInv, Delivered
    <3> QED
      BY <3>1, JobStepSettled
  <2>2. CASE job'[s] # job[s]
    <3>1. UNCHANGED order /\ job'[s].o = job[s].o /\ Settled(job[s].o)
      BY <1>2, <1>4, <2>2, ReachesItsMark
    <3> QED
      BY <1>2, <1>4, <3>1 DEF Settled, LinesFor
  <2> QED
    BY <2>1, <2>2
<1>5. ASSUME NEW s \in Threads, job'[s] # NoJob, job'[s].topic = "INVENTORY_CONSUME", job'[s].at = "consume"
      PROVE  call'[s] # NoCall /\ call'[s].op = "consume" /\ call'[s].o = job'[s].o
  <2>1. CASE s # t
    BY <1>2, <1>5, <2>1 DEF LeftInv, Delivered
  <2>2. CASE s = t
    <3>1. JobKeeps(t, t) /\ job[t] # NoJob /\ job'[t].o = job[t].o
      BY <1>1, <1>5, <2>2, JobStepKeeps DEF JobKeeps
    <3>2. job[t].at \in {"handle", "consume"}
      BY <1>5, <2>2, <3>1 DEF JobKeeps, Follows
    <3>3. ~Consumed(t)
      <4>1. {"markDone", "markFailed"} \subseteq Steps
        BY DEF Steps
      <4> QED
        BY <1>1, <1>5, <2>2, <3>1, <4>1, GotoFields DEF Consumed
    <3>4. CASE ReversePayment(t)
      <4>1. {"markDone", "markFailed"} \subseteq Steps
        BY DEF Steps
      <4> QED
        BY <1>1, <1>5, <2>2, <3>1, <3>4, <4>1, GotoFields DEF ReversePayment
    <3>5. CASE ConsumeStock(t)
      <4>1. {"markDone", "consume"} \subseteq Steps /\ "consume" \in CallOps
        BY DEF Steps, CallOps
      <4>2. ~Goto(t, "markDone")
        BY <1>1, <1>5, <2>2, <3>1, <4>1, GotoFields
      <4>3. Wait(t, "consume", "consume", order[job[t].o].depot)
        BY <3>5, <4>2 DEF ConsumeStock
      <4> QED
        BY <1>1, <2>2, <3>1, <4>1, <4>3, WaitAsks
    <3>6. ~(\/ Reserved(t) \/ Create(t) \/ Route(t) \/ ReleaseLostHold(t) \/ ApplyStatus(t) \/ Drop(t)
            \/ Due(t) \/ Deliver(t) \/ MarkDone(t) \/ MarkFailed(t) \/ PayBack(t) \/ VoidWalkIn(t)
            \/ CallOff(t) \/ Finish(t) \/ Abandoned(t))
      BY <3>1, <3>2 DEF Reserved, Create, Route, ReleaseLostHold, ApplyStatus, Drop, Due, Deliver, MarkDone,
                        MarkFailed, PayBack, VoidWalkIn, CallOff, Finish, Abandoned, At
    <3> QED
      BY <3>3, <3>4, <3>5, <3>6 DEF JobStep
  <2> QED
    BY <2>1, <2>2
<1>6. \A s \in Threads : job'[s] # NoJob => job'[s].o \in Orders
  BY <1>1, JobStepTyping DEF TypeOK, Job
<1> QED
  BY <1>3, <1>4, <1>5, <1>6 DEF Delivered, Settled, LinesFor

\* What a step leaves as it is when it touches no order, no row and no hold, and
\* no job or call that gives stock back.
LEMMA QuietLeft ==
    ASSUME TypeOK, LeftInv, UNCHANGED <<order, row, hold>>,
           \A s \in Threads : job[s] # NoJob /\ job[s].op \in {"checkout", "reroute"} \cup Moving =>
              job'[s] = job[s] /\ call'[s] = call[s],
           \A s \in Threads : call[s] # NoCall => call'[s] = call[s]
    PROVE  Accounted' /\ Unwritten'
<1>1. \A s \in Threads, l \in Lines, o \in Orders : Releases(s, l, o) => Releases(s, l, o)'
  BY DEF Releases
<1>2. \A s \in Threads, l \in Lines, o \in Orders : Drops(s, l, o) => Drops(s, l, o)'
  BY DEF Drops, Dropping
<1>3. \A s \in Threads, l \in Lines, o \in Orders : Keeps(s, l, o) => Keeps(s, l, o)'
  BY DEF Keeps
<1>4. Accounted'
  <2> SUFFICES ASSUME NEW l \in Lines, NEW o \in Orders, hold[l][o] = "ACTIVE"
               PROVE  l \in Cart[o] /\ (Stays(l, o)' \/ LetGo(l, o)' \/ Pending(l, o)')
    BY DEF Accounted
  <2>1. l \in Cart[o] /\ (Stays(l, o) \/ LetGo(l, o) \/ Pending(l, o))
    BY DEF LeftInv, Accounted
  <2>2. Stays(l, o) => Stays(l, o)'
    BY DEF Stays
  <2>3. LetGo(l, o) => LetGo(l, o)'
    BY <1>1, <1>2 DEF LetGo
  <2>4. Pending(l, o) => Pending(l, o)'
    BY <1>3 DEF Pending
  <2> QED
    BY <2>1, <2>2, <2>3, <2>4
<1> QED
  BY <1>4 DEF LeftInv, Unwritten

LEMMA BeginsLeft ==
    ASSUME TypeOK, LeftInv, NEW t \in Threads, NEW j \in Job, NEW o \in Orders, BegunAs(j, o), Begins(t, j)
    PROVE  LeftInv'
<1>1. UNCHANGED <<order, row, hold>> /\ DepotTypeOK
  BY DEF Begins, ShelfKept, shelf, TypeOK
<1>2. (\A s \in Threads : job'[s] = IF s = t THEN j ELSE job[s]) /\ j # NoJob /\ job[t] = NoJob
  BY NoJobAssumption DEF TypeOK, Begins
<1>3. (\A s \in Threads : s # t => call'[s] = call[s]) /\ call[t] = NoCall
  BY <1>1, AskedCall DEF Begins
<1>4. call'[t] = NoCall \/ (j.at = "reserve" /\ call'[t].op = "reserve")
  BY <1>1, <1>3, AskedCall DEF Begins
<1>5. Accounted' /\ Unwritten'
  BY <1>1, <1>2, <1>3, QuietLeft
<1>6. CallsFit'
  BY <1>1, <1>2, <1>3, <1>4 DEF LeftInv, CallsFit, CallFits, LinesFor
<1>7. Delivered'
  BY <1>1, <1>2, <1>3 DEF LeftInv, Delivered, Settled, LinesFor, BegunAs
<1> QED
  BY <1>5, <1>6, <1>7 DEF LeftInv

LEMMA CrashLeft ==
    ASSUME Crashes \subseteq {"void", "sweep"}, OrdersInv, LeftInv, NEW t \in Threads, Crash(t)
    PROVE  LeftInv'
<1>1. TypeOK /\ UNCHANGED <<order, row, hold, call>>
  BY DEF OrdersInv, Crash, NoCallMade, shelf, orders
<1>2. job[t] # NoJob /\ job[t].op \in {"void", "sweep"} /\ \A s \in Threads : job'[s] = IF s = t THEN NoJob ELSE job[s]
  BY <1>1 DEF Crash, Done, TypeOK
<1>3. Accounted' /\ Unwritten'
  <2>1. \A s \in Threads : job[s] # NoJob /\ job[s].op \in {"checkout", "reroute"} \cup Moving => job'[s] = job[s]
    BY <1>2 DEF Moving
  <2> QED
    BY <1>1, <2>1, QuietLeft
<1>4. job[t].at # "reserve"
  BY <1>2 DEF OrdersInv, JobsFit, JobFits, Places, Delivering, Moving
<1>5. CallsFit'
  BY <1>1, <1>2, <1>4 DEF LeftInv, CallsFit, CallFits, LinesFor
<1>6. Delivered'
  BY <1>1, <1>2 DEF LeftInv, Delivered, Settled, LinesFor
<1> QED
  BY <1>3, <1>5, <1>6 DEF LeftInv

LEMMA DepotSideLeft ==
    ASSUME {"reserve", "release"} \cap Breaks = {}, OrdersInv, SoldInv, HoldsInv, LeftInv,
           NEW t \in Threads, CallStep(t) \/ Break(t), UNCHANGED <<orders, job>>
    PROVE  LeftInv'
<1>1. TypeOK /\ DepotTypeOK /\ UNCHANGED <<order, row, job>>
  BY DEF OrdersInv, TypeOK, orders
<1>2. /\ \A s \in Threads : s # t => call'[s] = call[s]
      /\ call[t] # NoCall /\ CallMove(call[t], call'[t])
      /\ \A l \in Lines, o \in Orders : HoldMove(t, l, o)
  BY <1>1, CallStepMoves DEF CallMove
<1>3. \A s \in Threads, l \in Lines, o \in Orders :
         hold'[l][o] = "ACTIVE" /\ Releases(s, l, o) => Releases(s, l, o)'
  BY <1>2 DEF Releases, CallMove
<1>4. \A s \in Threads, l \in Lines, o \in Orders : Drops(s, l, o) => Drops(s, l, o)'
  BY <1>1 DEF Drops, Dropping
<1>5. \A s \in Threads, l \in Lines, o \in Orders : Keeps(s, l, o) => Keeps(s, l, o)'
  <2> SUFFICES ASSUME NEW s \in Threads, NEW l \in Lines, NEW o \in Orders, Keeps(s, l, o)
               PROVE  Keeps(s, l, o)'
    OBVIOUS
  <2>1. CASE job[s].at = "reserve"
    <3>1. call[s].op = "reserve" /\ call[s].at = "reply"
      BY <2>1 DEF Keeps, HoldsInv, JobsHold, JobHolds, Reserving
    <3>2. s # t
      BY <1>2, <3>1 DEF CallMove
    <3> QED
      BY <1>1, <1>2, <3>2 DEF Keeps
  <2>2. CASE job[s].at # "reserve"
    BY <1>1, <2>2 DEF Keeps
  <2> QED
    BY <2>1, <2>2
<1>6. ASSUME NEW l \in Lines, NEW o \in Orders, hold'[l][o] = "ACTIVE", hold[l][o] # "ACTIVE"
      PROVE  /\ l \in Cart[o] /\ order[o].depot # DepotOf[l] /\ Keeps(t, l, o)'
  <2>1. /\ call[t].op = "reserve" /\ call[t].o = o /\ l \in call[t].left /\ hold[l][o] = "NONE"
        /\ call'[t].at = "reply" /\ call'[t].ok
    BY <1>2, <1>6 DEF HoldMove
  <2>2. job[t] # NoJob /\ job[t].at = "reserve"
    BY <1>2, <2>1 DEF LeftInv, CallsFit, CallFits
  <2>3. JobHolds(t) /\ JobFits(job[t]) /\ job[t].op \in Ops /\ job[t].d \in Depots
    BY <1>1, <2>2 DEF HoldsInv, JobsHold, OrdersInv, JobsFit, JobFits, TypeOK, Job
  <2>4. job[t].o = o /\ l \in LinesFor(o, job[t].d)
    BY <2>1, <2>2, <2>3 DEF JobHolds, Reserving
  <2>5. job[t].op \in {"checkout", "reroute"}
    BY <2>2, <2>3 DEF JobHolds, JobFits, Places, Delivering, Moving, Ops
  <2>6. order[o].depot # DepotOf[l]
    <3>1. CASE order[o].status = "NONE"
      BY <2>4, <3>1, NoDepotAssumption, LinesAssumption DEF LeftInv, Unwritten
    <3>2. CASE order[o].status # "NONE"
      BY <2>1, <2>4, <3>2 DEF HoldsInv, RoutedIsHeld, Held, LinesFor
    <3> QED
      BY <3>1, <3>2
  <2> QED
    BY <1>1, <2>1, <2>2, <2>4, <2>5, <2>6 DEF Keeps, LinesFor
<1>7. Accounted'
  <2> SUFFICES ASSUME NEW l \in Lines, NEW o \in Orders, hold'[l][o] = "ACTIVE"
               PROVE  l \in Cart[o] /\ (Stays(l, o)' \/ LetGo(l, o)' \/ Pending(l, o)')
    BY DEF Accounted
  <2>1. CASE hold[l][o] # "ACTIVE"
    BY <1>1, <1>6, <2>1 DEF Pending
  <2>2. CASE hold[l][o] = "ACTIVE"
    <3>1. l \in Cart[o] /\ (Stays(l, o) \/ LetGo(l, o) \/ Pending(l, o))
      BY <2>2 DEF LeftInv, Accounted
    <3>2. Stays(l, o) => Stays(l, o)'
      BY <1>1 DEF Stays
    <3>3. LetGo(l, o) => LetGo(l, o)'
      BY <1>3, <1>4 DEF LetGo
    <3>4. Pending(l, o) => Pending(l, o)'
      BY <1>1, <1>5 DEF Pending
    <3> QED
      BY <3>1, <3>2, <3>3, <3>4
  <2> QED
    BY <2>1, <2>2
\* No stock is held anew for an order at the depot it is routed to.
<1>8. ASSUME NEW o \in Orders, order[o].status # "NONE", NEW l \in LinesFor(o, order[o].depot),
             hold[l][o] # "ACTIVE"
      PROVE  hold'[l][o] # "ACTIVE"
  BY <1>6, <1>8, LinesOfTheCart DEF LinesFor
<1>9. CallsFit'
  <2> SUFFICES ASSUME NEW s \in Threads, call'[s] # NoCall
               PROVE  LET c == call'[s] IN
                      /\ c.op = "reserve" => job[s] # NoJob /\ job[s].at = "reserve"
                      /\ c.op = "release" /\ c.at = "reply" => c.left = {}
                      /\ c.op = "consume" /\ c.at = "reply" /\ c.ok => c.left = {}
                      /\ c.op = "consume" =>
                            \A l \in LinesFor(c.o, order[c.o].depot) : hold'[l][c.o] # "ACTIVE" \/ l \in c.left
    BY <1>1 DEF CallsFit, CallFits, LinesFor
  <2>1. /\ call[s] # NoCall /\ call'[s].op = call[s].op /\ call'[s].o = call[s].o /\ call[s].o \in Orders
        /\ CallFits(call[s], job[s], order[call[s].o].depot)
    <3>1. call[s] # NoCall /\ call'[s].op = call[s].op /\ call'[s].o = call[s].o
      BY <1>2 DEF CallMove
    <3> QED
      BY <1>1, <3>1, CallFields DEF LeftInv, CallsFit
  <2>2. ASSUME call[s].op = "consume", NEW l \in LinesFor(call[s].o, order[call[s].o].depot),
               hold'[l][call[s].o] = "ACTIVE"
        PROVE  l \in call'[s].left
    <3>1. order[call[s].o].status # "NONE"
      BY <2>1, <2>2 DEF SoldInv, SellsWhereRouted, Sold
    <3>2. l \in call[s].left
      BY <1>8, <2>1, <2>2, <3>1 DEF CallFits
    <3> QED
      BY <1>2, <2>2, <3>2 DEF CallMove
  <2>3. CASE s = t
    <3>1. call'[t].at = "reply" /\ call'[t].op # "reserve" => ~call'[t].ok \/ call'[t].left = {}
      BY <1>2 DEF CallMove
    <3>2. call'[t].at = "reply" /\ call'[t].op = "release" => call'[t].ok
      BY <1>2 DEF CallMove
    <3> QED
      BY <2>1, <2>2, <2>3, <3>1, <3>2 DEF CallFits
  <2>4. CASE s # t
    BY <1>2, <2>1, <2>2, <2>4 DEF CallFits
  <2> QED
    BY <2>3, <2>4
<1>10. Delivered'
  <2>1. ASSUME NEW o \in Orders, order[o].status \in Sold, Settled(o)
        PROVE  Settled(o)'
    BY <1>1, <1>8, <2>1 DEF Settled, Sold, LinesFor
  <2>2. ASSUME NEW o \in Orders, row[o]["INVENTORY_CONSUME"].state = "DONE"
        PROVE  Settled(o)'
    <3>1. "INVENTORY_CONSUME" \in Topics
      BY DEF Topics
    <3> QED
      BY <2>1, <2>2, <3>1 DEF OrdersInv, RowsEarned, LeftInv, Delivered
  <2>3. ASSUME NEW s \in Threads, job[s] # NoJob, job[s].topic = "INVENTORY_CONSUME", job[s].at = "markDone",
               NEW o \in Orders, o = job[s].o
        PROVE  Settled(o)'
    <3>1. order[o].status \in Sold
      BY <2>3 DEF OrdersInv, JobsFit, HasItsRow, Delivering, RowsEarned, Topics
    <3> QED
      BY <2>1, <2>3, <3>1 DEF LeftInv, Delivered
  <2>4. ASSUME NEW s \in Threads, job[s] # NoJob, job[s].topic = "INVENTORY_CONSUME", job[s].at = "consume"
        PROVE  call'[s] # NoCall /\ call'[s].op = "consume" /\ call'[s].o = job[s].o
    BY <1>2, <2>4 DEF LeftInv, Delivered, CallMove
  <2>5. \A s \in Threads : job[s] # NoJob => job[s].o \in Orders
    BY <1>1 DEF TypeOK, Job
  <2> QED
    BY <1>1, <2>2, <2>3, <2>4, <2>5 DEF Delivered, Settled, LinesFor
<1> QED
  BY <1>1, <1>7, <1>9, <1>10 DEF LeftInv, Unwritten

LEMMA NextLeft ==
    ASSUME {"reserve", "release"} \cap Breaks = {}, Crashes \subseteq {"void", "sweep"},
           OrdersInv, SoldInv, OwesInv, HoldsInv, LeftInv, [Next]_vars
    PROVE  LeftInv'
<1>1. TypeOK
  BY DEF OrdersInv
<1>2. ASSUME UNCHANGED <<order, row, hold, call, job>>
      PROVE  LeftInv'
  <2>1. Accounted' /\ Unwritten'
    BY <1>1, <1>2, QuietLeft
  <2> QED
    BY <1>2, <2>1 DEF LeftInv, CallsFit, CallFits, Delivered, Settled, LinesFor
<1>3. CASE UNCHANGED vars
  BY <1>2, <1>3 DEF vars, depotVars, orders
<1>4. ASSUME NEW t \in Threads, NEW o \in Orders, Request(t, o)
      PROVE  LeftInv'
  BY <1>1, <1>4, RequestBegins, BeginsLeft
<1>5. ASSUME CountStep, UNCHANGED <<orders, job>>
      PROVE  LeftInv'
  <2>1. UNCHANGED <<order, row, hold, call, job>>
    BY <1>5 DEF CountStep, BeginCount, WriteCount, shelf, orders
  <2> QED
    BY <1>2, <2>1
<1>6. ASSUME NEW t \in Threads, JobStep(t)
      PROVE  LeftInv'
  <2>1. Accounted' /\ Unwritten'
    BY <1>6, JobStepAccounted
  <2>2. CallsFit'
    BY <1>6, JobStepFit DEF LeftInv
  <2>3. Delivered'
    BY <1>6, JobStepDelivered
  <2> QED
    BY <2>1, <2>2, <2>3 DEF LeftInv
<1> QED
  BY <1>3, <1>4, <1>5, <1>6, NextSteps, CrashLeft, DepotSideLeft

LEMMA InitLeft ==
    ASSUME "legacy" \notin Kinds, Init
    PROVE  LeftInv
<1>1. PICK kind \in [Orders -> Kinds] :
         order = [o \in Orders |->
                     [kind |-> kind[o], depot |-> NoDepot, dispatched |-> FALSE,
                      status |-> IF kind[o] = "legacy" THEN "CREATED" ELSE "NONE"]]
  BY DEF Init
<1>2. \A o \in Orders : order[o].depot = NoDepot
  BY <1>1
<1>3. /\ \A t \in Threads : job[t] = NoJob /\ call[t] = NoCall
      /\ \A l \in Lines, o \in Orders : hold[l][o] = "NONE"
      /\ \A o \in Orders : row[o]["INVENTORY_CONSUME"].state = "NONE"
  BY DEF Init, DepotInit, Topics
<1> QED
  BY <1>2, <1>3 DEF LeftInv, Accounted, Unwritten, CallsFit, Delivered

\* Once nothing is at work on a cancelled order, or on a completed one whose
\* consume was delivered, no depot it ever passed through holds stock for it,
\* however often it was rerouted; as long as the calls that take and give back
\* holds are answered, and the requests that make them run to their end.
THEOREM EveryHoldIsGivenBack ==
    ASSUME "legacy" \notin Kinds, {"reserve", "release"} \cap Breaks = {},
           Crashes \subseteq {"void", "sweep"}
    PROVE  Spec => []NoHoldLeftBehind
<1> DEFINE I == OrdersInv /\ SoldInv /\ OwesInv /\ HoldsInv /\ LeftInv
<1>1. Init => I
  BY InitOrders, InitSold, InitOwes, InitHolds, InitLeft
<1>2. I /\ [Next]_vars => I'
  BY NextOrders, NextSold, NextOwes, NextHolds, NextLeft
<1>3. I => NoHoldLeftBehind
  <2> SUFFICES ASSUME I, NEW o \in Orders, ~Busy(o), NEW l \in Lines, hold[l][o] = "ACTIVE",
                      \/ order[o].status = "CANCELLED"
                      \/ order[o].status = "COMPLETED" /\ row[o]["INVENTORY_CONSUME"].state = "DONE"
               PROVE  FALSE
    BY DEF NoHoldLeftBehind
  <2>1. l \in Cart[o] /\ (Stays(l, o) \/ LetGo(l, o) \/ Pending(l, o))
    BY DEF LeftInv, Accounted
  <2>2. Stays(l, o)
    BY <2>1 DEF LetGo, Pending, Releases, Drops, Keeps, Busy
  <2>3. order[o].status = "COMPLETED" /\ row[o]["INVENTORY_CONSUME"].state = "DONE"
    BY <2>2 DEF Stays
  <2>4. Settled(o)
    BY <2>3 DEF LeftInv, Delivered
  <2> QED
    BY <2>1, <2>2, <2>3, <2>4 DEF Stays, Settled, LinesFor
<1> HIDE DEF I
<1> QED
  BY <1>1, <1>2, <1>3, PTL DEF Spec

=============================================================================
