------------------------------ MODULE Delivery ------------------------------
(***************************************************************************)
(* The courier's side of delivery-service: a cash order is dispatched,     *)
(* carried, handed over or brought back, while order-service and           *)
(* payment-service are told of it by calls that may fail.                  *)
(*                                                                         *)
(* A request reads its delivery, then takes one step per repository write  *)
(* and per remote call.  order-service is its transition table; what a     *)
(* status change does there is the business of Fulfilment.  Each courier   *)
(* has one shift, open at first; what he does in the next is not followed. *)
(***************************************************************************)
EXTENDS Integers, FiniteSets

CONSTANTS
    Orders,
    Drivers,
    NoDriver,
    Workers,    \* requests at work at the same time
    NoJob,
    MaxActive,  \* maxActiveDeliveriesPerDriver
    MaxAssigns, \* bound: assignments of one order
    MaxSlips,   \* bound: calls that fail or whose answer is lost, and crashes
    Windows     \* SUBSET {"cancel", "replay", "requeue"}: the narrow races allowed

ASSUME DeliveryAssumption ==
    /\ {NoDriver, "customer", "depot"} \cap Drivers = {}
    /\ Windows \subseteq {"cancel", "replay", "requeue"}
    /\ MaxActive \in Nat \ {0} /\ MaxAssigns \in Nat /\ MaxSlips \in Nat

VARIABLES
    order,    \* [Orders -> OrderStatuses]: at order-service
    payment,  \* [Orders -> PaymentStatuses]: the cash payment at payment-service
    cash,     \* [Orders -> "customer", a driver or "depot"]: where the notes are
    delivery, \* [Orders -> Row]
    shift,    \* [Drivers -> Hours]: how far the courier's shift has come
    job,      \* [Workers -> Jobs \cup {NoJob}]
    assigns,  \* [Orders -> 0..MaxAssigns]
    slips

road == <<order, payment, cash, delivery, shift, job, assigns, slips>>

OrderStatuses == {"PREPARING", "DRIVER_ASSIGNED", "PICKED_UP", "ON_DELIVERY",
                  "DELIVERED", "COMPLETED", "CANCELLED"}
PaymentStatuses == {"PENDING", "PAID", "REFUNDED", "FAILED"}
Active == {"ASSIGNED", "PICKED_UP", "ON_DELIVERY"}
DeliveryStatuses == Active \cup {"NONE", "DELIVERED", "FAILED", "RESCHEDULED"}

\* Past its expected end a shift goes on until the courier checks out ("ended")
\* or, never having done so, checks in again ("lapsed").
Hours == {"open", "overdue", "ended", "lapsed"}
open == {d \in Drivers : shift[d] \in {"open", "overdue"}}

\* slot: a courier's reschedule has set rescheduledFor, which nothing clears
\* but its own undoing.  since, dated: the hours at assignedAt, and at the time
\* the last attempt is said to have ended.
Row == [status : DeliveryStatuses, driver : Drivers \cup {NoDriver}, slot : BOOLEAN,
        since : [Drivers -> Hours], dated : Hours]
NoRow == [status |-> "NONE", driver |-> NoDriver, slot |-> FALSE,
          since |-> [d \in Drivers |-> "open"], dated |-> "open"]

Ops == {"assign", "advance", "complete", "fail", "reschedule", "release", "cancel"}
GivingUp == {"fail", "reschedule"}
Steps == {"write", "order", "undo", "delivered", "completed", "reverse", "putback"}
\* seen: the status read.  driver: the courier the request is about.
\* back: the courier says the notes went back.  replay: an earlier attempt did the write.
Job == [op : Ops, o : Orders, at : Steps, seen : DeliveryStatuses,
        driver : Drivers \cup {NoDriver}, prev : Drivers \cup {NoDriver},
        back : BOOLEAN, replay : BOOLEAN]
CheckOutJob == [op : {"checkOut"}, at : {"close"}, driver : Drivers]
ASSUME NoJobAssumption == NoJob \notin Job

DeliveryTypeOK(Jobs) ==
    /\ order \in [Orders -> OrderStatuses]
    /\ payment \in [Orders -> PaymentStatuses]
    /\ cash \in [Orders -> Drivers \cup {"customer", "depot"}]
    /\ delivery \in [Orders -> Row]
    /\ shift \in [Drivers -> Hours]
    /\ job \in [Workers -> Jobs \cup {NoJob}]
    /\ assigns \in [Orders -> 0..MaxAssigns]
    /\ slips \in 0..MaxSlips

DeliveryInit ==
    /\ order = [o \in Orders |-> "PREPARING"]
    /\ payment = [o \in Orders |-> "PENDING"]
    /\ cash = [o \in Orders |-> "customer"]
    /\ delivery = [o \in Orders |-> NoRow]
    /\ shift = [d \in Drivers |-> "open"]
    /\ job = [w \in Workers |-> NoJob]
    /\ assigns = [o \in Orders |-> 0]
    /\ slips = 0

----------------------------------------------------------------------------
(* Requests and calls *)

Begin(w, j) == job[w] = NoJob /\ job' = [job EXCEPT ![w] = j]
WorksOn(w, o) == job[w] # NoJob /\ "o" \in DOMAIN job[w] /\ job[w].o = o

\* What the windows shut: staff cancelling what a request is at work on; a
\* courier's repeated report at work with anything else; a second dispatch
\* while the first is still being called back.
Unhurried(op, o, replay) ==
    \A w \in Workers : WorksOn(w, o) =>
       LET ops == {op, job[w].op} IN
       /\ "cancel" \in Windows \/ "cancel" \notin ops
       /\ "replay" \in Windows \/ ~(replay \/ job[w].replay \/ ops \subseteq GivingUp)
       /\ "requeue" \in Windows \/ op # "assign" \/ job[w].op \notin GivingUp \cup {"release"}

Request(op, o, at) ==
    [op |-> op, o |-> o, at |-> at, seen |-> delivery[o].status,
     driver |-> delivery[o].driver, prev |-> delivery[o].driver,
     back |-> FALSE, replay |-> FALSE]
At(w, op, step) == job[w] # NoJob /\ job[w].op = op /\ job[w].at = step
Goto(w, step) == job' = [job EXCEPT ![w].at = step]
Done(w) == job' = [job EXCEPT ![w] = NoJob]

\* The system may go further than a customer, and takes a rescheduled order back.
Onward(s) ==
    CASE s = "PREPARING"       -> {"DRIVER_ASSIGNED", "CANCELLED"}
      [] s = "DRIVER_ASSIGNED" -> {"PICKED_UP", "PREPARING", "CANCELLED"}
      [] s = "PICKED_UP"       -> {"ON_DELIVERY", "PREPARING", "CANCELLED"}
      [] s = "ON_DELIVERY"     -> {"DELIVERED", "PREPARING", "CANCELLED"}
      [] s = "DELIVERED"       -> {"COMPLETED"}
      [] OTHER                 -> {}

Slip == slips < MaxSlips /\ slips' = slips + 1

\* advanceOrder: order-service moves the order, refuses, or is not heard of.
AdvanceOrder(o, to, answer) ==
    LET moved == [order EXCEPT ![o] = to]
        legal == to \in Onward(order[o])
    IN \/ answer = "ok" /\ legal /\ order' = moved /\ UNCHANGED slips
       \/ answer = "refused" /\ ~legal /\ UNCHANGED <<order, slips>>
       \/ answer = "down" /\ Slip /\ order' \in {order} \cup IF legal THEN {moved} ELSE {}
Answers == {"ok", "refused", "down"}

\* applyStatus and completeWithProof: the status that was read is in the WHERE.
MayMoveBlind(w) ==  \* mutant: matched on the id alone
    delivery[job[w].o].status = "NONE" <=> job[w].seen = "NONE"
MayMove(w) == delivery[job[w].o].status = job[w].seen

\* An attempt that ends, by the clock at that hour.
Ended(o, status, hour) == [delivery EXCEPT ![o].status = status, ![o].dated = hour]
Now(o) == shift[delivery[o].driver]

\* checkInAt..checkOutAt; a lapsed shift is written to have ended when it should.
InShift(o) ==
    \/ delivery[o].dated = "open"
    \/ delivery[o].dated = "overdue" /\ Now(o) # "lapsed"

----------------------------------------------------------------------------
(* assign *)

ActiveOf(d) == {o \in Orders : delivery[o].driver = d /\ delivery[o].status \in Active}

Assign(w, o, d) ==
    /\ delivery[o].status \in {"NONE", "RESCHEDULED"}
    /\ d \in open /\ Cardinality(ActiveOf(d)) < MaxActive
    /\ assigns[o] < MaxAssigns
    /\ assigns' = [assigns EXCEPT ![o] = @ + 1]
    /\ Unhurried("assign", o, FALSE)
    /\ Begin(w, [Request("assign", o, "write") EXCEPT !.driver = d])
    /\ UNCHANGED <<order, payment, cash, delivery, shift, slips>>

UnderCap(w) == Cardinality(ActiveOf(job[w].driver)) < MaxActive

\* createIfUnderCap, reassignIfUnderCap: count and write under one lock per
\* courier; orderId is unique, and only a RESCHEDULED row is opened again.
AssignWrite(w) ==
    /\ At(w, "assign", "write")
    /\ IF UnderCap(w) /\ MayMove(w)
       THEN /\ delivery' = [delivery EXCEPT ![job[w].o].status = "ASSIGNED",
                                            ![job[w].o].driver = job[w].driver,
                                            ![job[w].o].since = IF job[w].seen = "NONE" THEN shift ELSE @]
            /\ Goto(w, "order")
       ELSE Done(w) /\ UNCHANGED delivery
    /\ UNCHANGED <<order, payment, cash, shift, assigns, slips>>

AssignOrder(w) ==
    /\ At(w, "assign", "order")
    /\ \E answer \in Answers :
          /\ AdvanceOrder(job[w].o, "DRIVER_ASSIGNED", answer)
          /\ IF answer = "ok" THEN Done(w) ELSE Goto(w, "undo")
    /\ UNCHANGED <<payment, cash, delivery, shift, assigns>>

\* undoAssignment: whatever row of the order is ASSIGNED by now.
AssignUndo(w) ==
    /\ At(w, "assign", "undo")
    /\ LET o == job[w].o IN
       delivery' = IF delivery[o].status # "ASSIGNED" THEN delivery
                   ELSE IF job[w].seen = "NONE" THEN [delivery EXCEPT ![o] = NoRow]
                   ELSE [delivery EXCEPT ![o].status = "RESCHEDULED", ![o].driver = job[w].prev]
    /\ Done(w)
    /\ UNCHANGED <<order, payment, cash, shift, assigns, slips>>

----------------------------------------------------------------------------
(* pickup and start: the order first, then the delivery *)

Further(s) == IF s = "ASSIGNED" THEN "PICKED_UP" ELSE "ON_DELIVERY"

Advance(w, o) ==
    /\ delivery[o].status \in {"ASSIGNED", "PICKED_UP"}
    /\ Unhurried("advance", o, FALSE)
    /\ Begin(w, Request("advance", o, "order"))
    /\ UNCHANGED <<order, payment, cash, delivery, shift, assigns, slips>>

AdvanceTheOrder(w) ==
    /\ At(w, "advance", "order")
    /\ \E answer \in Answers :
          /\ AdvanceOrder(job[w].o, Further(job[w].seen), answer)
          /\ IF answer = "ok" THEN Goto(w, "write") ELSE Done(w)
    /\ UNCHANGED <<payment, cash, delivery, shift, assigns>>

AdvanceWrite(w) ==
    /\ At(w, "advance", "write")
    /\ delivery' = IF MayMove(w)
                   THEN [delivery EXCEPT ![job[w].o].status = Further(job[w].seen)]
                   ELSE delivery
    /\ Done(w)
    /\ UNCHANGED <<order, payment, cash, shift, assigns, slips>>

----------------------------------------------------------------------------
(* complete: the proof first, then the order (H-8) *)

Complete(w, o) ==
    /\ delivery[o].status = "ON_DELIVERY"
    /\ Unhurried("complete", o, FALSE)
    /\ Begin(w, Request("complete", o, "write"))
    /\ UNCHANGED <<order, payment, cash, delivery, shift, assigns, slips>>

\* clampCapturedAt: a proof queued offline bears the phone's time, though none
\* before the assignment.  What lies between that and now adds no case.
Captured(o) == {Now(o), delivery[o].since[delivery[o].driver]}

CompleteWithProof(w) ==
    /\ At(w, "complete", "write")
    /\ IF MayMove(w)
       THEN /\ \E hour \in Captured(job[w].o) : delivery' = Ended(job[w].o, "DELIVERED", hour)
            /\ Goto(w, "delivered")
       ELSE UNCHANGED delivery /\ Done(w)
    /\ UNCHANGED <<order, payment, cash, shift, assigns, slips>>

\* Fails open: the first refusal ends the march.
CompleteOrder(w) ==
    /\ job[w] # NoJob /\ job[w].at \in {"delivered", "completed"}
    /\ LET first == job[w].at = "delivered" IN
       \E answer \in Answers :
          /\ AdvanceOrder(job[w].o, IF first THEN "DELIVERED" ELSE "COMPLETED", answer)
          /\ IF first /\ answer = "ok" THEN Goto(w, "completed") ELSE Done(w)
    /\ UNCHANGED <<payment, cash, delivery, shift, assigns>>

----------------------------------------------------------------------------
(* fail and reschedule: the status first, then the money, then the order.  *)
(* markNoShow is a failure that hands nothing back, behind its own gate.   *)

Outcome(op) == IF op = "fail" THEN "FAILED" ELSE "RESCHEDULED"

\* The courier says whether the notes went back.  They do so as he asks; of
\* notes that went back before he does not say they did not.
Says(o, back) ==
    IF cash[o] = delivery[o].driver /\ back THEN cash' = [cash EXCEPT ![o] = "customer"]
    ELSE UNCHANGED cash

\* A repeat of what has happened is answered from the record, and finishes the
\* rest only when the notes went back.
Replays(op, o) ==
    /\ delivery[o].status = Outcome(op)
    /\ op = "reschedule" => delivery[o].slot

StartsAtOrder(op, o) == IF Replays(op, o) THEN "order" ELSE "write"  \* mutant: the repeat skips the cash
\* finishFailureReplay, finishRescheduleReplay: the cash, then the order.
StartsAt(op, o) == IF Replays(op, o) THEN "reverse" ELSE "write"

GiveUp(w, o, op, back) ==
    /\ delivery[o].status \in Active \/ (Replays(op, o) /\ back)
    /\ cash[o] = "customer" /\ payment[o] = "PAID" => back
    /\ Unhurried(op, o, Replays(op, o))
    /\ Begin(w, [Request(op, o, StartsAt(op, o)) EXCEPT !.back = back, !.replay = Replays(op, o)])
    /\ Says(o, back)
    /\ UNCHANGED <<order, payment, delivery, shift, assigns, slips>>

GiveUpWrite(w) ==
    /\ job[w] # NoJob /\ job[w].op \in GivingUp /\ job[w].at = "write"
    /\ LET o == job[w].o
           op == job[w].op
       IN CASE MayMove(w) ->
                 /\ delivery' = [Ended(o, Outcome(op), Now(o))
                                 EXCEPT ![o].slot = @ \/ op = "reschedule"]
                 /\ Goto(w, IF job[w].back THEN "reverse" ELSE "order")
            [] ~MayMove(w) /\ Replays(op, o) /\ job[w].back ->
                 /\ job' = [job EXCEPT ![w].at = "reverse", ![w].replay = TRUE]
                 /\ UNCHANGED delivery
            [] OTHER -> Done(w) /\ UNCHANGED delivery
    /\ UNCHANGED <<order, payment, cash, shift, assigns, slips>>

\* settleHeldCash: a cash payment that is PAID is reversed; fails closed.
Reversed(o) == [payment EXCEPT ![o] = IF @ = "PAID" THEN "REFUNDED" ELSE @]
ReverseCash(w) ==
    /\ job[w] # NoJob /\ job[w].at = "reverse"
    /\ \/ payment' = Reversed(job[w].o) /\ UNCHANGED slips /\ Goto(w, "order")
       \/ /\ Slip /\ payment' \in {payment, Reversed(job[w].o)}
          /\ IF job[w].replay THEN Done(w) ELSE Goto(w, "putback")
    /\ UNCHANGED <<order, cash, delivery, shift, assigns>>

PutBack(w) ==
    /\ job[w] # NoJob /\ job[w].at = "putback"
    /\ LET o == job[w].o IN
       delivery' = IF delivery[o].status # Outcome(job[w].op) THEN delivery
                   ELSE [delivery EXCEPT ![o].status = job[w].seen,
                            ![o].slot = @ /\ job[w].op = "fail"]
    /\ Done(w)
    /\ UNCHANGED <<order, payment, cash, shift, assigns, slips>>

\* Cancelling fails open; handing the order back to the queue throws, but there
\* is nothing left to undo.  Staff's cancel writes the delivery next.
CloseOrder(w) ==
    /\ job[w] # NoJob /\ job[w].op \in GivingUp \cup {"release", "cancel"} /\ job[w].at = "order"
    /\ \E answer \in Answers :
          AdvanceOrder(job[w].o,
                       IF job[w].op \in {"fail", "cancel"} THEN "CANCELLED" ELSE "PREPARING", answer)
    /\ IF job[w].op = "cancel" THEN Goto(w, "write") ELSE Done(w)
    /\ UNCHANGED <<payment, cash, delivery, shift, assigns>>

----------------------------------------------------------------------------
(* releaseByStaff: the delivery first; cancelByStaff: the order first *)

TakeOff(w, o, op) ==
    /\ delivery[o].status \in Active
    /\ Unhurried(op, o, FALSE)
    /\ Begin(w, Request(op, o, IF op = "cancel" THEN "order" ELSE "write"))
    /\ UNCHANGED <<order, payment, cash, delivery, shift, assigns, slips>>

TakeOffWrite(w) ==
    /\ job[w] # NoJob /\ job[w].op \in {"release", "cancel"} /\ job[w].at = "write"
    /\ delivery' = IF ~MayMove(w) THEN delivery
                   ELSE Ended(job[w].o, IF job[w].op = "cancel" THEN "FAILED" ELSE "RESCHEDULED",
                                 Now(job[w].o))
    /\ IF MayMove(w) /\ job[w].op = "release" THEN Goto(w, "order") ELSE Done(w)
    /\ UNCHANGED <<order, payment, cash, shift, assigns, slips>>

----------------------------------------------------------------------------
(* The shift *)

\* checkOut counts what the courier still carries, then closes.
CheckOut(w, d) ==
    /\ d \in open /\ ActiveOf(d) = {}
    /\ Begin(w, [op |-> "checkOut", at |-> "close", driver |-> d])
    /\ UNCHANGED <<order, payment, cash, delivery, shift, assigns, slips>>

CheckOutClose(w) ==
    /\ At(w, "checkOut", "close")
    /\ shift' = [shift EXCEPT ![job[w].driver] = "ended"]
    /\ Done(w)
    /\ UNCHANGED <<order, payment, cash, delivery, assigns, slips>>

\* expectedEndAt goes by.
RunsOver(d) ==
    /\ shift[d] = "open"
    /\ shift' = [shift EXCEPT ![d] = "overdue"]
    /\ UNCHANGED <<order, payment, cash, delivery, job, assigns, slips>>

\* closeStale, at the courier's next check-in: whatever he still carries.  He
\* is not checking out at that moment.
CloseStale(d) ==
    /\ shift[d] = "overdue"
    /\ \A w \in Workers : At(w, "checkOut", "close") => job[w].driver # d
    /\ shift' = [shift EXCEPT ![d] = "lapsed"]
    /\ UNCHANGED <<order, payment, cash, delivery, job, assigns, slips>>

----------------------------------------------------------------------------
(* Everyone else *)

\* The customer pays at the door; a courier giving the order up does not ask.
CollectCash(o) ==
    /\ delivery[o].status = "ON_DELIVERY" /\ cash[o] = "customer"
    /\ ~\E w \in Workers : WorksOn(w, o) /\ job[w].op \in GivingUp
    /\ cash' = [cash EXCEPT ![o] = delivery[o].driver]
    /\ UNCHANGED <<order, payment, delivery, shift, job, assigns, slips>>

\* The courier may confirm it at once, later or never.
ConfirmCash(o) ==
    /\ cash[o] \in Drivers /\ payment[o] = "PENDING"
    /\ payment' = [payment EXCEPT ![o] = "PAID"]
    /\ UNCHANGED <<order, cash, delivery, shift, job, assigns, slips>>

\* At order-service, before anyone has the goods.
StaffCancels(o) ==
    /\ order[o] = "PREPARING"
    /\ order' = [order EXCEPT ![o] = "CANCELLED"]
    /\ UNCHANGED <<payment, cash, delivery, shift, job, assigns, slips>>

\* PAYMENT_REVERSAL, owed by every cancelled order.
ReversePayment(o) ==
    /\ order[o] = "CANCELLED" /\ payment[o] \in {"PENDING", "PAID"}
    /\ payment' = [payment EXCEPT ![o] = IF @ = "PAID" THEN "REFUNDED" ELSE "FAILED"]
    /\ UNCHANGED <<order, cash, delivery, shift, job, assigns, slips>>

\* A request dies between two of its steps.
Crash(w) ==
    /\ job[w] # NoJob /\ Slip
    /\ "cancel" \in Windows \/ job[w].op # "cancel"
    /\ Done(w)
    /\ UNCHANGED <<order, payment, cash, delivery, shift, assigns>>

DispatchStep ==
    \/ \E w \in Workers, o \in Orders :
          \/ \E d \in Drivers : Assign(w, o, d)
          \/ Advance(w, o) \/ Complete(w, o)
          \/ \E op \in GivingUp, back \in BOOLEAN : GiveUp(w, o, op, back)
          \/ \E op \in {"release", "cancel"} : TakeOff(w, o, op)
    \/ \E w \in Workers, d \in Drivers : CheckOut(w, d)
    \/ \E d \in Drivers : RunsOver(d) \/ CloseStale(d)
    \/ \E w \in Workers : Crash(w)
    \/ \E o \in Orders : CollectCash(o) \/ ConfirmCash(o) \/ StaffCancels(o) \/ ReversePayment(o)

\* What a request already begun does next.
Proceed(w) ==
    \/ AssignWrite(w) \/ AssignOrder(w) \/ AssignUndo(w)
    \/ AdvanceTheOrder(w) \/ AdvanceWrite(w)
    \/ CompleteWithProof(w) \/ CompleteOrder(w)
    \/ GiveUpWrite(w) \/ ReverseCash(w) \/ PutBack(w) \/ CloseOrder(w)
    \/ TakeOffWrite(w) \/ CheckOutClose(w)

----------------------------------------------------------------------------
(* What it all comes to *)

\* A delivery handed over is never one whose order was cancelled: of a
\* completion and a failure report only the first to write touches the order.
DeliveredStands ==
    \A o \in Orders : delivery[o].status = "DELIVERED" => order[o] # "CANCELLED"

\* The courier handed the notes back, and the payment book does not know it.
Unreversed(o) ==
    delivery[o].status = "FAILED" /\ cash[o] = "customer" /\ payment[o] = "PAID"
\* A report that will still see to it, or undo the failure.
Settling(o) ==
    \E w \in Workers : /\ WorksOn(w, o) /\ job[w].op \in GivingUp /\ job[w].back
                       /\ job[w].at \in {"write", "reverse", "putback"}

\* CA-4-03: a delivery is left FAILED over a payment still PAID, with the notes
\* back at the customer's, only by a call that failed, by a request that died, or
\* by staff's cancel.
ReturnedIsReversed ==
    [][\A o \in Orders :
          /\ Unreversed(o)' /\ ~Settling(o)'
          /\ ~(Unreversed(o) /\ ~Settling(o))
          => slips' # slips \/ \E w \in Workers : WorksOn(w, o) /\ job[w].op = "cancel"]_road

\* Every attempt ends in its courier's shift, or in the next when this one lapsed.
EndsInAShift ==
    \A o \in Orders :
        delivery[o].status \in {"DELIVERED", "FAILED", "RESCHEDULED"}
        => InShift(o) \/ delivery[o].dated = "lapsed"

=============================================================================
