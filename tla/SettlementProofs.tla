-------------------------- MODULE SettlementProofs --------------------------
(***************************************************************************)
(* Proofs about Delivery and Settlement, for every set of orders, couriers,*)
(* staff and requests at work, and any bounds.                             *)
(***************************************************************************)
EXTENDS Settlement, TLAPS

----------------------------------------------------------------------------
(* Type correctness, with what each request goes by *)

Jobs == Job \cup CheckOutJob \cup RulingJob
RoadOK == DeliveryTypeOK(Jobs)

\* What a request is can be told from the step it is at.
LEMMA JobKinds ==
    ASSUME RoadOK, NEW w \in Workers, job[w] # NoJob
    PROVE  /\ job[w] \in Jobs
           /\ job[w].at \in Steps \ {"write"} => job[w] \in Job
           /\ job[w].op \in Ops => job[w] \in Job
           /\ job[w].op = "checkOut" => job[w] \in CheckOutJob
           /\ job[w].op \in Rulings => job[w] \in RulingJob
           /\ job[w].at \in {"push", "resolve", "release"} => job[w] \in RulingJob
<1>1. job[w] \in Jobs
  BY DEF RoadOK, DeliveryTypeOK
<1> QED
  BY <1>1 DEF Jobs, Job, CheckOutJob, RulingJob, Steps, Ops, Rulings

\* The steps of a request and the statuses it can have read.
JobFits(j) ==
    /\ j.op = "assign" =>
          /\ j.at \in {"write", "order", "undo"} /\ j.seen \in {"NONE", "RESCHEDULED"}
          /\ j.driver \in Drivers
          /\ j.seen # "NONE" => j.prev \in Drivers
    /\ j.op = "advance" => j.at \in {"order", "write"} /\ j.seen \in {"ASSIGNED", "PICKED_UP"}
    /\ j.op = "complete" =>
          j.at \in {"write", "delivered", "completed"} /\ j.seen = "ON_DELIVERY"
    /\ j.op \in GivingUp =>
          /\ j.at \in {"write", "reverse", "order", "putback"}
          /\ j.seen \in Active \/ (j.replay /\ j.seen = Outcome(j.op))
          /\ j.at \in {"write", "putback"} => ~j.replay
    /\ j.op \in {"release", "cancel"} => j.at \in {"write", "order"} /\ j.seen \in Active

JobsFit == \A w \in Workers : job[w] # NoJob /\ job[w].op \in Ops => JobFits(job[w])

\* A delivery that was ever assigned names a courier.
CourierNamed == \A o \in Orders : delivery[o].status # "NONE" => delivery[o].driver \in Drivers

RoadInv == RoadOK /\ JobsFit /\ CourierNamed

LEMMA BeginTyping ==
    ASSUME RoadOK, NEW w \in Workers, NEW j \in Jobs, Begin(w, j)
    PROVE  job' \in [Workers -> Jobs \cup {NoJob}]
BY DEF RoadOK, DeliveryTypeOK, Begin

LEMMA DoneTyping ==
    ASSUME RoadOK, NEW w \in Workers, Done(w)
    PROVE  job' \in [Workers -> Jobs \cup {NoJob}]
BY DEF RoadOK, DeliveryTypeOK, Done

LEMMA GotoTyping ==
    ASSUME RoadOK, NEW w \in Workers, NEW step, Goto(w, step),
           \/ job[w] \in Job /\ step \in Steps
           \/ job[w] \in RulingJob /\ step \in {"push", "resolve", "release"}
    PROVE  job' \in [Workers -> Jobs \cup {NoJob}]
<1>1. [job[w] EXCEPT !.at = step] \in Jobs
  BY DEF Job, RulingJob, Jobs
<1>2. job' = [job EXCEPT ![w] = [job[w] EXCEPT !.at = step]]
  BY DEF RoadOK, DeliveryTypeOK, Goto
<1> QED
  BY <1>1, <1>2 DEF RoadOK, DeliveryTypeOK

LEMMA RequestTyping ==
    ASSUME RoadOK, NEW op \in Ops, NEW o \in Orders, NEW at \in Steps
    PROVE  Request(op, o, at) \in Job
<1>1. delivery[o] \in Row
  BY DEF RoadOK, DeliveryTypeOK
<1> QED
  BY <1>1 DEF Row, Request, Job

LEMMA SlipTyping ==
    ASSUME RoadOK, Slip
    PROVE  slips' \in 0..MaxSlips
BY DeliveryAssumption DEF RoadOK, DeliveryTypeOK, Slip

LEMMA AdvanceOrderTyping ==
    ASSUME RoadOK, NEW o \in Orders, NEW to \in OrderStatuses, NEW answer \in Answers,
           AdvanceOrder(o, to, answer)
    PROVE  order' \in [Orders -> OrderStatuses] /\ slips' \in 0..MaxSlips
<1>1. order' \in {order, [order EXCEPT ![o] = to]}
  BY DEF AdvanceOrder
<1>2. UNCHANGED slips \/ Slip
  BY DEF AdvanceOrder
<1> QED
  BY <1>1, <1>2, SlipTyping DEF RoadOK, DeliveryTypeOK

LEMMA EndedTyping ==
    ASSUME RoadOK, NEW o \in Orders, NEW status \in DeliveryStatuses, NEW hour \in Hours
    PROVE  Ended(o, status, hour) \in [Orders -> Row]
<1>1. delivery[o] \in Row
  BY DEF RoadOK, DeliveryTypeOK
<1>2. [delivery[o] EXCEPT !.status = status, !.dated = hour] \in Row
  BY <1>1 DEF Row
<1>3. Ended(o, status, hour) =
        [delivery EXCEPT ![o] = [delivery[o] EXCEPT !.status = status, !.dated = hour]]
  BY DEF RoadOK, DeliveryTypeOK, Ended
<1> QED
  BY <1>2, <1>3 DEF RoadOK, DeliveryTypeOK

\* The hours an attempt can be dated at.
LEMMA HourTyping ==
    ASSUME RoadOK, CourierNamed, NEW o \in Orders, delivery[o].status # "NONE"
    PROVE  Now(o) \in Hours /\ Captured(o) \subseteq Hours
<1>1. delivery[o] \in Row /\ delivery[o].driver \in Drivers
  BY DEF RoadOK, DeliveryTypeOK, CourierNamed
<1>2. delivery[o].since \in [Drivers -> Hours] /\ shift \in [Drivers -> Hours]
  BY <1>1 DEF RoadOK, DeliveryTypeOK, Row
<1> QED
  BY <1>1, <1>2 DEF Now, Captured

\* A row rewritten.
LEMMA RowTyping ==
    ASSUME RoadOK, NEW o \in Orders, NEW r \in Row
    PROVE  [delivery EXCEPT ![o] = r] \in [Orders -> Row]
BY DEF RoadOK, DeliveryTypeOK

LEMMA AssignTyping ==
    ASSUME RoadOK, NEW w \in Workers, NEW o \in Orders, NEW d \in Drivers, Assign(w, o, d)
    PROVE  RoadOK'
<1> DEFINE j == [Request("assign", o, "write") EXCEPT !.driver = d]
<1>1. Request("assign", o, "write") \in Job
  BY RequestTyping DEF Ops, Steps
<1>2. j \in Jobs
  BY <1>1 DEF Job, Jobs
<1>3. Begin(w, j)
  BY DEF Assign
<1>4. job' \in [Workers -> Jobs \cup {NoJob}]
  <2> HIDE DEF j
  <2> QED
    BY <1>2, <1>3, BeginTyping
<1>5. assigns' \in [Orders -> 0..MaxAssigns]
  BY DeliveryAssumption DEF RoadOK, DeliveryTypeOK, Assign
<1> QED
  BY <1>4, <1>5 DEF RoadOK, DeliveryTypeOK, Assign

LEMMA AssignWriteTyping ==
    ASSUME RoadOK, NEW w \in Workers, AssignWrite(w)
    PROVE  RoadOK'
<1> DEFINE o == job[w].o
           since == IF job[w].seen = "NONE" THEN shift ELSE delivery[o].since
           r == [delivery[o] EXCEPT !.status = "ASSIGNED", !.driver = job[w].driver, !.since = since]
<1>1. job[w] \in Job
  BY JobKinds DEF AssignWrite, At, Ops
<1>2. o \in Orders /\ delivery[o] \in Row
  BY <1>1 DEF RoadOK, DeliveryTypeOK, Job
<1>3. r \in Row
  <2>1. since \in [Drivers -> Hours]
    BY <1>2 DEF RoadOK, DeliveryTypeOK, Row
  <2> HIDE DEF since
  <2> QED
    BY <1>1, <1>2, <2>1 DEF Job, Row, DeliveryStatuses, Active
<1>4. delivery' \in {delivery, [delivery EXCEPT ![o] = r]}
  BY <1>2 DEF RoadOK, DeliveryTypeOK, AssignWrite
<1>5. delivery' \in [Orders -> Row]
  BY <1>2, <1>3, <1>4, RowTyping DEF RoadOK, DeliveryTypeOK
<1>6. job' \in [Workers -> Jobs \cup {NoJob}]
  BY <1>1, GotoTyping, DoneTyping DEF AssignWrite, Steps
<1> QED
  BY <1>5, <1>6 DEF RoadOK, DeliveryTypeOK, AssignWrite

LEMMA AssignOrderTyping ==
    ASSUME RoadOK, NEW w \in Workers, AssignOrder(w)
    PROVE  RoadOK'
<1>1. job[w] \in Job
  BY JobKinds DEF AssignOrder, At, Ops
<1>2. job[w].o \in Orders /\ "DRIVER_ASSIGNED" \in OrderStatuses
  BY <1>1 DEF Job, OrderStatuses
<1>3. order' \in [Orders -> OrderStatuses] /\ slips' \in 0..MaxSlips
  BY <1>2, AdvanceOrderTyping DEF AssignOrder
<1>4. job' \in [Workers -> Jobs \cup {NoJob}]
  BY <1>1, GotoTyping, DoneTyping DEF AssignOrder, Steps
<1> QED
  BY <1>3, <1>4 DEF RoadOK, DeliveryTypeOK, AssignOrder

LEMMA AssignUndoTyping ==
    ASSUME RoadOK, NEW w \in Workers, AssignUndo(w)
    PROVE  RoadOK'
<1> DEFINE o == job[w].o
           r == [delivery[o] EXCEPT !.status = "RESCHEDULED", !.driver = job[w].prev]
<1>1. job[w] \in Job
  BY JobKinds DEF AssignUndo, At, Ops
<1>2. o \in Orders /\ delivery[o] \in Row
  BY <1>1 DEF RoadOK, DeliveryTypeOK, Job
<1>3. r \in Row /\ NoRow \in Row
  <2>1. r \in Row
    BY <1>1, <1>2 DEF Job, Row, DeliveryStatuses
  <2>2. NoRow \in Row
    BY DEF Row, NoRow, DeliveryStatuses, Hours
  <2> QED
    BY <2>1, <2>2
<1>4. delivery' \in {delivery, [delivery EXCEPT ![o] = NoRow], [delivery EXCEPT ![o] = r]}
  BY <1>2 DEF RoadOK, DeliveryTypeOK, AssignUndo
<1>5. delivery' \in [Orders -> Row]
  BY <1>2, <1>3, <1>4, RowTyping DEF RoadOK, DeliveryTypeOK
<1>6. job' \in [Workers -> Jobs \cup {NoJob}]
  BY DoneTyping DEF AssignUndo
<1> QED
  BY <1>5, <1>6 DEF RoadOK, DeliveryTypeOK, AssignUndo

\* The requests that do no more than begin.
LEMMA RequestsTyping ==
    ASSUME RoadOK, NEW w \in Workers, NEW o \in Orders,
           \/ Advance(w, o) \/ Complete(w, o)
           \/ \E op \in {"release", "cancel"} : TakeOff(w, o, op)
    PROVE  RoadOK'
<1>1. PICK op \in Ops, at \in Steps : Begin(w, Request(op, o, at))
  BY DEF Advance, Complete, TakeOff, Ops, Steps
<1>2. Request(op, o, at) \in Jobs
  BY RequestTyping DEF Jobs
<1>3. job' \in [Workers -> Jobs \cup {NoJob}]
  BY <1>1, <1>2, BeginTyping
<1> QED
  BY <1>3 DEF RoadOK, DeliveryTypeOK, Advance, Complete, TakeOff

LEMMA AdvanceTheOrderTyping ==
    ASSUME RoadOK, NEW w \in Workers, AdvanceTheOrder(w)
    PROVE  RoadOK'
<1>1. job[w] \in Job
  BY JobKinds DEF AdvanceTheOrder, At, Ops
<1>2. job[w].o \in Orders /\ Further(job[w].seen) \in OrderStatuses
  BY <1>1 DEF Job, OrderStatuses, Further
<1>3. order' \in [Orders -> OrderStatuses] /\ slips' \in 0..MaxSlips
  BY <1>2, AdvanceOrderTyping DEF AdvanceTheOrder
<1>4. job' \in [Workers -> Jobs \cup {NoJob}]
  BY <1>1, GotoTyping, DoneTyping DEF AdvanceTheOrder, Steps
<1> QED
  BY <1>3, <1>4 DEF RoadOK, DeliveryTypeOK, AdvanceTheOrder

LEMMA AdvanceWriteTyping ==
    ASSUME RoadOK, NEW w \in Workers, AdvanceWrite(w)
    PROVE  RoadOK'
<1> DEFINE o == job[w].o
           r == [delivery[o] EXCEPT !.status = Further(job[w].seen)]
<1>1. job[w] \in Job
  BY JobKinds DEF AdvanceWrite, At, Ops
<1>2. o \in Orders /\ delivery[o] \in Row
  BY <1>1 DEF RoadOK, DeliveryTypeOK, Job
<1>3. r \in Row
  BY <1>2 DEF Row, Further, DeliveryStatuses, Active
<1>4. delivery' \in {delivery, [delivery EXCEPT ![o] = r]}
  BY <1>2 DEF RoadOK, DeliveryTypeOK, AdvanceWrite
<1>5. delivery' \in [Orders -> Row]
  BY <1>2, <1>3, <1>4, RowTyping DEF RoadOK, DeliveryTypeOK
<1>6. job' \in [Workers -> Jobs \cup {NoJob}]
  BY DoneTyping DEF AdvanceWrite
<1> QED
  BY <1>5, <1>6 DEF RoadOK, DeliveryTypeOK, AdvanceWrite

LEMMA CompleteWithProofTyping ==
    ASSUME RoadInv, NEW w \in Workers, CompleteWithProof(w)
    PROVE  RoadOK'
<1>1. job[w] \in Job /\ job[w].o \in Orders /\ job[w].seen = "ON_DELIVERY"
  BY JobKinds DEF RoadInv, JobsFit, JobFits, CompleteWithProof, At, Ops, Job
<1>2. delivery' \in [Orders -> Row]
  <2>1. CASE MayMove(w)
    <3>1. PICK hour \in Captured(job[w].o) : delivery' = Ended(job[w].o, "DELIVERED", hour)
      BY <2>1 DEF CompleteWithProof
    <3>2. hour \in Hours
      BY <1>1, <2>1, HourTyping DEF RoadInv, MayMove
    <3> QED
      BY <1>1, <3>1, <3>2, EndedTyping DEF RoadInv, DeliveryStatuses
  <2>2. CASE ~MayMove(w)
    BY <2>2 DEF RoadInv, RoadOK, DeliveryTypeOK, CompleteWithProof
  <2> QED
    BY <2>1, <2>2
<1>3. job' \in [Workers -> Jobs \cup {NoJob}]
  BY <1>1, GotoTyping, DoneTyping DEF RoadInv, CompleteWithProof, Steps
<1> QED
  BY <1>2, <1>3 DEF RoadInv, RoadOK, DeliveryTypeOK, CompleteWithProof

LEMMA CompleteOrderTyping ==
    ASSUME RoadOK, NEW w \in Workers, CompleteOrder(w)
    PROVE  RoadOK'
<1>1. job[w] \in Job
  BY JobKinds DEF CompleteOrder, Steps
<1>2. PICK to \in OrderStatuses, answer \in Answers : AdvanceOrder(job[w].o, to, answer)
  BY DEF CompleteOrder, OrderStatuses
<1>3. order' \in [Orders -> OrderStatuses] /\ slips' \in 0..MaxSlips
  BY <1>1, <1>2, AdvanceOrderTyping DEF Job
<1>4. job' \in [Workers -> Jobs \cup {NoJob}]
  BY <1>1, GotoTyping, DoneTyping DEF CompleteOrder, Steps
<1> QED
  BY <1>3, <1>4 DEF RoadOK, DeliveryTypeOK, CompleteOrder

LEMMA GiveUpTyping ==
    ASSUME RoadOK, NEW w \in Workers, NEW o \in Orders,
           NEW op \in GivingUp, NEW back \in BOOLEAN, GiveUp(w, o, op, back)
    PROVE  RoadOK'
<1> DEFINE j == [Request(op, o, StartsAt(op, o)) EXCEPT !.back = back, !.replay = Replays(op, o)]
<1>1. Request(op, o, StartsAt(op, o)) \in Job
  BY RequestTyping DEF Ops, GivingUp, Steps, StartsAt
<1>2. Replays(op, o) \in BOOLEAN
  BY DEF Replays
<1>3. j \in Jobs
  BY <1>1, <1>2 DEF Job, Jobs
<1>4. Begin(w, j)
  BY DEF GiveUp
<1>5. job' \in [Workers -> Jobs \cup {NoJob}]
  <2> HIDE DEF j
  <2> QED
    BY <1>3, <1>4, BeginTyping
<1>6. cash' \in [Orders -> Drivers \cup {"customer", "depot"}]
  BY DEF RoadOK, DeliveryTypeOK, GiveUp, Says
<1> QED
  BY <1>5, <1>6 DEF RoadOK, DeliveryTypeOK, GiveUp

LEMMA GiveUpWriteTyping ==
    ASSUME RoadInv, NEW w \in Workers, GiveUpWrite(w)
    PROVE  RoadOK'
<1> DEFINE o == job[w].o
           op == job[w].op
           ended == Ended(o, Outcome(op), Now(o))
<1> USE DEF RoadInv
<1>1. job[w] \in Job /\ job[w] # NoJob /\ op \in GivingUp
  BY JobKinds DEF GiveUpWrite, Ops, GivingUp
<1>2. o \in Orders /\ Outcome(op) \in DeliveryStatuses
  BY <1>1 DEF Job, Outcome, DeliveryStatuses
<1>3. ASSUME MayMove(w)
      PROVE  ended \in [Orders -> Row]
  <2>1. job[w].seen # "NONE"
    BY <1>1 DEF JobsFit, JobFits, GivingUp, Ops, Active, Outcome
  <2>2. Now(o) \in Hours
    BY <1>2, <1>3, <2>1, HourTyping DEF MayMove
  <2> QED
    BY <1>2, <2>2, EndedTyping
<1>4. CASE MayMove(w)
  <2>0. ended \in [Orders -> Row]
    BY <1>3, <1>4
  <2>1. delivery' = [ended EXCEPT ![o].slot = @ \/ op = "reschedule"]
    BY <1>4 DEF GiveUpWrite
  <2> HIDE DEF ended
  <2>2. [ended[o] EXCEPT !.slot = @ \/ op = "reschedule"] \in Row
    BY <1>2, <2>0 DEF Row
  <2>3. delivery' \in [Orders -> Row]
    BY <1>2, <2>0, <2>1, <2>2
  <2>4. job' \in [Workers -> Jobs \cup {NoJob}]
    BY <1>1, <1>4, GotoTyping DEF GiveUpWrite, Steps
  <2> QED
    BY <2>3, <2>4 DEF RoadOK, DeliveryTypeOK, GiveUpWrite
<1>5. CASE ~MayMove(w)
  <2>1. job' = [job EXCEPT ![w].at = "reverse", ![w].replay = TRUE] \/ Done(w)
    BY <1>5 DEF GiveUpWrite
  <2>2. [job[w] EXCEPT !.at = "reverse", !.replay = TRUE] \in Jobs
    BY <1>1 DEF Job, Jobs, Steps
  <2>3. CASE job' = [job EXCEPT ![w].at = "reverse", ![w].replay = TRUE]
    <3>1. job' = [job EXCEPT ![w] = [job[w] EXCEPT !.at = "reverse", !.replay = TRUE]]
      BY <2>3 DEF RoadOK, DeliveryTypeOK
    <3>2. job' \in [Workers -> Jobs \cup {NoJob}]
      BY <2>2, <3>1 DEF RoadOK, DeliveryTypeOK
    <3> QED
      BY <1>5, <3>2 DEF RoadOK, DeliveryTypeOK, GiveUpWrite
  <2>4. CASE Done(w)
    BY <1>5, <2>4, DoneTyping DEF RoadOK, DeliveryTypeOK, GiveUpWrite
  <2> QED
    BY <2>1, <2>3, <2>4
<1> QED
  BY <1>4, <1>5

LEMMA ReverseCashTyping ==
    ASSUME RoadOK, NEW w \in Workers, ReverseCash(w)
    PROVE  RoadOK'
<1>1. job[w] \in Job
  BY JobKinds DEF ReverseCash, Steps
<1>2. Reversed(job[w].o) \in [Orders -> PaymentStatuses]
  BY <1>1 DEF RoadOK, DeliveryTypeOK, Job, Reversed, PaymentStatuses
<1>3. payment' \in [Orders -> PaymentStatuses]
  BY <1>2 DEF RoadOK, DeliveryTypeOK, ReverseCash
<1>4. slips' \in 0..MaxSlips
  BY SlipTyping DEF RoadOK, DeliveryTypeOK, ReverseCash
<1>5. job' \in [Workers -> Jobs \cup {NoJob}]
  BY <1>1, GotoTyping, DoneTyping DEF ReverseCash, Steps
<1> QED
  BY <1>3, <1>4, <1>5 DEF RoadOK, DeliveryTypeOK, ReverseCash

LEMMA PutBackTyping ==
    ASSUME RoadOK, NEW w \in Workers, PutBack(w)
    PROVE  RoadOK'
<1> DEFINE o == job[w].o
           r == [delivery[o] EXCEPT !.status = job[w].seen, !.slot = @ /\ job[w].op = "fail"]
<1>1. job[w] \in Job
  BY JobKinds DEF PutBack, Steps
<1>2. o \in Orders /\ delivery[o] \in Row
  BY <1>1 DEF RoadOK, DeliveryTypeOK, Job
<1>3. r \in Row
  BY <1>1, <1>2 DEF Job, Row
<1>4. delivery' \in {delivery, [delivery EXCEPT ![o] = r]}
  BY <1>2 DEF RoadOK, DeliveryTypeOK, PutBack
<1>5. delivery' \in [Orders -> Row]
  BY <1>2, <1>3, <1>4, RowTyping DEF RoadOK, DeliveryTypeOK
<1>6. job' \in [Workers -> Jobs \cup {NoJob}]
  BY DoneTyping DEF PutBack
<1> QED
  BY <1>5, <1>6 DEF RoadOK, DeliveryTypeOK, PutBack

LEMMA CloseOrderTyping ==
    ASSUME RoadOK, NEW w \in Workers, CloseOrder(w)
    PROVE  RoadOK'
<1>1. job[w] \in Job
  BY JobKinds DEF CloseOrder, Ops, GivingUp
<1>2. PICK to \in OrderStatuses, answer \in Answers : AdvanceOrder(job[w].o, to, answer)
  BY DEF CloseOrder, OrderStatuses
<1>3. order' \in [Orders -> OrderStatuses] /\ slips' \in 0..MaxSlips
  BY <1>1, <1>2, AdvanceOrderTyping DEF Job
<1>4. job' \in [Workers -> Jobs \cup {NoJob}]
  BY <1>1, GotoTyping, DoneTyping DEF CloseOrder, Steps
<1> QED
  BY <1>3, <1>4 DEF RoadOK, DeliveryTypeOK, CloseOrder

LEMMA TakeOffWriteTyping ==
    ASSUME RoadInv, NEW w \in Workers, TakeOffWrite(w)
    PROVE  RoadOK'
<1> USE DEF RoadInv
<1>1. job[w] \in Job /\ job[w].o \in Orders /\ job[w].seen \in Active
  BY JobKinds DEF JobsFit, JobFits, TakeOffWrite, Ops, Job
<1>2. ASSUME MayMove(w)
      PROVE  \A status \in {"FAILED", "RESCHEDULED"} :
                Ended(job[w].o, status, Now(job[w].o)) \in [Orders -> Row]
  <2>1. Now(job[w].o) \in Hours
    BY <1>1, <1>2, HourTyping DEF MayMove, Active
  <2> QED
    BY <1>1, <2>1, EndedTyping DEF DeliveryStatuses
<1>3. delivery' \in [Orders -> Row]
  BY <1>2 DEF RoadOK, DeliveryTypeOK, TakeOffWrite
<1>4. job' \in [Workers -> Jobs \cup {NoJob}]
  BY <1>1, GotoTyping, DoneTyping DEF TakeOffWrite, Steps
<1> QED
  BY <1>3, <1>4 DEF RoadOK, DeliveryTypeOK, TakeOffWrite

LEMMA ShiftTyping ==
    ASSUME RoadOK, NEW w \in Workers, CheckOutClose(w) \/ \E d \in Drivers : CheckOut(w, d)
    PROVE  RoadOK'
<1>1. CASE CheckOutClose(w)
  <2>1. job' \in [Workers -> Jobs \cup {NoJob}]
    BY <1>1, DoneTyping DEF CheckOutClose
  <2> QED
    BY <1>1, <2>1 DEF RoadOK, DeliveryTypeOK, CheckOutClose, Hours
<1>2. ASSUME NEW d \in Drivers, CheckOut(w, d)
      PROVE  RoadOK'
  <2>1. [op |-> "checkOut", at |-> "close", driver |-> d] \in Jobs
    BY DEF Jobs, CheckOutJob
  <2>2. job' \in [Workers -> Jobs \cup {NoJob}]
    BY <1>2, <2>1, BeginTyping DEF CheckOut
  <2> QED
    BY <1>2, <2>2 DEF RoadOK, DeliveryTypeOK, CheckOut
<1> QED
  BY <1>1, <1>2

LEMMA HoursTyping ==
    ASSUME RoadOK, NEW d \in Drivers, RunsOver(d) \/ CloseStale(d)
    PROVE  RoadOK'
BY DEF RoadOK, DeliveryTypeOK, RunsOver, CloseStale, Hours

LEMMA OutsideTyping ==
    ASSUME RoadOK, CourierNamed, NEW o \in Orders,
           CollectCash(o) \/ ConfirmCash(o) \/ StaffCancels(o) \/ ReversePayment(o)
    PROVE  RoadOK'
<1>1. CASE CollectCash(o)
  <2>1. delivery[o].driver \in Drivers
    BY <1>1 DEF CourierNamed, CollectCash
  <2> QED
    BY <1>1, <2>1 DEF RoadOK, DeliveryTypeOK, CollectCash
<1>2. CASE ConfirmCash(o)
  BY <1>2 DEF RoadOK, DeliveryTypeOK, ConfirmCash, PaymentStatuses
<1>3. CASE StaffCancels(o)
  BY <1>3 DEF RoadOK, DeliveryTypeOK, StaffCancels, OrderStatuses
<1>4. CASE ReversePayment(o)
  BY <1>4 DEF RoadOK, DeliveryTypeOK, ReversePayment, PaymentStatuses
<1> QED
  BY <1>1, <1>2, <1>3, <1>4

\* A request dies.
LEMMA CrashTyping ==
    ASSUME RoadOK, NEW w \in Workers, Crash(w)
    PROVE  RoadOK'
<1>1. job' \in [Workers -> Jobs \cup {NoJob}] /\ slips' \in 0..MaxSlips
  BY DoneTyping, SlipTyping DEF Crash
<1> QED
  BY <1>1 DEF RoadOK, DeliveryTypeOK, Crash

RoadStep == DispatchStep \/ \E w \in Workers : Proceed(w)

LEMMA RoadTyping ==
    ASSUME RoadInv, RoadStep
    PROVE  RoadOK'
<1> USE DEF RoadInv
<1>1. ASSUME NEW w \in Workers, Proceed(w)
      PROVE  RoadOK'
  BY <1>1, AssignWriteTyping, AssignOrderTyping, AssignUndoTyping, AdvanceTheOrderTyping,
     AdvanceWriteTyping, CompleteWithProofTyping, CompleteOrderTyping, GiveUpWriteTyping,
     ReverseCashTyping, PutBackTyping, CloseOrderTyping, TakeOffWriteTyping, ShiftTyping
     DEF Proceed
<1>2. CASE DispatchStep
  BY <1>2, AssignTyping, RequestsTyping, GiveUpTyping, ShiftTyping, CrashTyping, HoursTyping,
     OutsideTyping
     DEF DispatchStep
<1> QED
  BY <1>1, <1>2 DEF RoadStep

----------------------------------------------------------------------------
(* What a request goes by, step by step *)

LEMMA BeginFits ==
    ASSUME RoadOK, JobsFit, NEW w \in Workers, NEW j, Begin(w, j), j.op \in Ops => JobFits(j)
    PROVE  JobsFit'
<1>1. \A v \in Workers : job'[v] = IF v = w THEN j ELSE job[v]
  BY DEF RoadOK, DeliveryTypeOK, Begin
<1> QED
  BY <1>1 DEF JobsFit, JobFits

LEMMA DoneFits ==
    ASSUME RoadOK, JobsFit, NEW w \in Workers, Done(w)
    PROVE  JobsFit'
<1>1. \A v \in Workers : job'[v] = IF v = w THEN NoJob ELSE job[v]
  BY DEF RoadOK, DeliveryTypeOK, Done
<1> QED
  BY <1>1 DEF JobsFit, JobFits

\* A step a request of this operation may go to.
NextFits(j, step) ==
    /\ j.op = "assign" => step \in {"order", "undo"}
    /\ j.op = "advance" => step = "write"
    /\ j.op = "complete" => step \in {"delivered", "completed"}
    /\ j.op \in GivingUp =>
          step \in {"reverse", "order", "putback"} /\ (step = "putback" => ~j.replay)
    /\ j.op \in {"release", "cancel"} => step \in {"write", "order"}

LEMMA GotoFits ==
    ASSUME RoadOK, JobsFit, NEW w \in Workers, job[w] \in Job, job[w] # NoJob,
           NEW step, Goto(w, step), NextFits(job[w], step)
    PROVE  JobsFit'
<1> DEFINE j == [job[w] EXCEPT !.at = step]
<1>1. JobFits(job[w])
  BY DEF JobsFit, Job
<1>2. /\ j.op = job[w].op /\ j.seen = job[w].seen /\ j.driver = job[w].driver
      /\ j.prev = job[w].prev /\ j.replay = job[w].replay /\ j.at = step
  BY DEF Job
<1>3. \A v \in Workers : job'[v] = IF v = w THEN j ELSE job[v]
  BY DEF RoadOK, DeliveryTypeOK, Goto
<1> HIDE DEF j
<1>4. JobFits(j)
  <2>1. j.op = "assign" =>
          /\ j.at \in {"write", "order", "undo"} /\ j.seen \in {"NONE", "RESCHEDULED"}
          /\ j.driver \in Drivers
          /\ j.seen # "NONE" => j.prev \in Drivers
    BY <1>1, <1>2 DEF JobFits, NextFits
  <2>2. j.op = "advance" => j.at \in {"order", "write"} /\ j.seen \in {"ASSIGNED", "PICKED_UP"}
    BY <1>1, <1>2 DEF JobFits, NextFits
  <2>3. j.op = "complete" =>
          j.at \in {"write", "delivered", "completed"} /\ j.seen = "ON_DELIVERY"
    BY <1>1, <1>2 DEF JobFits, NextFits
  <2>4. j.op \in GivingUp =>
          /\ j.at \in {"write", "reverse", "order", "putback"}
          /\ j.seen \in Active \/ (j.replay /\ j.seen = Outcome(j.op))
          /\ j.at \in {"write", "putback"} => ~j.replay
    BY <1>1, <1>2 DEF JobFits, NextFits
  <2>5. j.op \in {"release", "cancel"} => j.at \in {"write", "order"} /\ j.seen \in Active
    BY <1>1, <1>2 DEF JobFits, NextFits
  <2> QED
    BY <2>1, <2>2, <2>3, <2>4, <2>5 DEF JobFits
<1> QED
  BY <1>3, <1>4 DEF JobsFit, JobFits

LEMMA AssignFits ==
    ASSUME RoadInv, NEW w \in Workers,
           \/ AssignWrite(w) \/ AssignOrder(w) \/ AssignUndo(w)
           \/ \E o \in Orders, d \in Drivers : Assign(w, o, d)
    PROVE  JobsFit'
<1>1. ASSUME NEW o \in Orders, NEW d \in Drivers, Assign(w, o, d)
      PROVE  JobsFit'
  <2> DEFINE j == [Request("assign", o, "write") EXCEPT !.driver = d]
  <2>1. Begin(w, j) /\ delivery[o].status \in {"NONE", "RESCHEDULED"}
    BY <1>1 DEF Assign
  <2>2. /\ j.op = "assign" /\ j.at = "write" /\ j.seen = delivery[o].status
        /\ j.driver = d /\ j.prev = delivery[o].driver
    BY DEF Request
  <2>3. JobFits(j)
    <3> HIDE DEF j
    <3> QED
      BY <2>1, <2>2 DEF JobFits, RoadInv, CourierNamed, GivingUp
  <2> HIDE DEF j
  <2> QED
    BY <2>1, <2>3, BeginFits DEF RoadInv
<1>2. CASE AssignWrite(w) \/ AssignOrder(w) \/ AssignUndo(w)
  <2>1. job[w] # NoJob /\ job[w].op = "assign" /\ job[w] \in Job
    BY <1>2, JobKinds DEF RoadInv, AssignWrite, AssignOrder, AssignUndo, At, Ops
  <2>2. Done(w) \/ \E step \in {"order", "undo"} : Goto(w, step)
    BY <1>2 DEF AssignWrite, AssignOrder, AssignUndo
  <2>3. \A step \in {"order", "undo"} : NextFits(job[w], step)
    BY <2>1 DEF NextFits, GivingUp
  <2> QED
    BY <2>1, <2>2, <2>3, DoneFits, GotoFits DEF RoadInv
<1> QED
  BY <1>1, <1>2

LEMMA AdvanceFits ==
    ASSUME RoadInv, NEW w \in Workers,
           \/ AdvanceTheOrder(w) \/ AdvanceWrite(w) \/ CompleteWithProof(w) \/ CompleteOrder(w)
           \/ \E o \in Orders : Advance(w, o) \/ Complete(w, o)
    PROVE  JobsFit'
<1>1. ASSUME NEW o \in Orders, Advance(w, o) \/ Complete(w, o)
      PROVE  JobsFit'
  <2>1. PICK op \in {"advance", "complete"}, at \in {"order", "write"} :
           /\ Begin(w, Request(op, o, at))
           /\ op = "advance" =>
                 at = "order" /\ delivery[o].status \in {"ASSIGNED", "PICKED_UP"}
           /\ op = "complete" => at = "write" /\ delivery[o].status = "ON_DELIVERY"
    BY <1>1 DEF Advance, Complete
  <2>2. JobFits(Request(op, o, at))
    BY <2>1 DEF Request, JobFits, GivingUp
  <2> QED
    BY <2>1, <2>2, BeginFits DEF RoadInv
<1>2. CASE AdvanceTheOrder(w) \/ AdvanceWrite(w)
  <2>1. job[w] # NoJob /\ job[w].op = "advance" /\ job[w] \in Job
    BY <1>2, JobKinds DEF RoadInv, AdvanceTheOrder, AdvanceWrite, At, Ops
  <2>2. Done(w) \/ Goto(w, "write")
    BY <1>2 DEF AdvanceTheOrder, AdvanceWrite
  <2>3. NextFits(job[w], "write")
    BY <2>1 DEF NextFits, GivingUp
  <2> QED
    BY <2>1, <2>2, <2>3, DoneFits, GotoFits DEF RoadInv
<1>3. CASE CompleteWithProof(w) \/ CompleteOrder(w)
  <2>1. job[w] # NoJob /\ job[w] \in Job
    BY <1>3, JobKinds DEF RoadInv, CompleteWithProof, CompleteOrder, At, Ops, Steps
  <2>2. job[w].op = "complete"
    BY <1>3, <2>1 DEF CompleteWithProof, CompleteOrder, At, RoadInv, JobsFit, JobFits, Job, Ops, GivingUp
  <2>3. Done(w) \/ \E step \in {"delivered", "completed"} : Goto(w, step)
    BY <1>3 DEF CompleteWithProof, CompleteOrder
  <2>4. \A step \in {"delivered", "completed"} : NextFits(job[w], step)
    BY <2>2 DEF NextFits, GivingUp
  <2> QED
    BY <2>1, <2>3, <2>4, DoneFits, GotoFits DEF RoadInv
<1> QED
  BY <1>1, <1>2, <1>3

LEMMA GiveUpFits ==
    ASSUME RoadInv, NEW w \in Workers,
           \/ GiveUpWrite(w) \/ ReverseCash(w) \/ PutBack(w)
           \/ \E o \in Orders, op \in GivingUp, back \in BOOLEAN : GiveUp(w, o, op, back)
    PROVE  JobsFit'
<1>1. ASSUME NEW o \in Orders, NEW op \in GivingUp, NEW back \in BOOLEAN, GiveUp(w, o, op, back)
      PROVE  JobsFit'
  <2> DEFINE j == [Request(op, o, StartsAt(op, o)) EXCEPT !.back = back, !.replay = Replays(op, o)]
  <2>1. Begin(w, j) /\ (delivery[o].status \in Active \/ Replays(op, o))
    BY <1>1 DEF GiveUp
  <2>2. /\ j.op = op /\ j.at = StartsAt(op, o) /\ j.seen = delivery[o].status
        /\ j.replay = Replays(op, o)
    BY DEF Request
  <2>3. Replays(op, o) => delivery[o].status = Outcome(op)
    BY DEF Replays
  <2>4. JobFits(j)
    <3> HIDE DEF j
    <3> QED
      BY <2>1, <2>2, <2>3 DEF JobFits, GivingUp, StartsAt
  <2> HIDE DEF j
  <2> QED
    BY <2>1, <2>4, BeginFits DEF RoadInv
<1>2. CASE GiveUpWrite(w) \/ ReverseCash(w) \/ PutBack(w)
  <2>1. job[w] # NoJob /\ job[w] \in Job
    BY <1>2, JobKinds DEF RoadInv, GiveUpWrite, ReverseCash, PutBack, Steps, Ops, GivingUp
  <2>2. JobFits(job[w])
    BY <2>1 DEF RoadInv, JobsFit, Job
  <2>3. job[w].op \in GivingUp
    BY <1>2, <2>1, <2>2 DEF GiveUpWrite, ReverseCash, PutBack, JobFits, Job, Ops, GivingUp
  <2>4. \/ Done(w)
        \/ \E step \in {"reverse", "order"} : Goto(w, step)
        \/ ~job[w].replay /\ Goto(w, "putback")
        \/ job' = [job EXCEPT ![w].at = "reverse", ![w].replay = TRUE]
           /\ GiveUpWrite(w) /\ ~MayMove(w) /\ Replays(job[w].op, job[w].o)
    BY <1>2 DEF GiveUpWrite, ReverseCash, PutBack
  <2>5. \A step \in {"reverse", "order"} : NextFits(job[w], step)
    BY <2>3 DEF NextFits, GivingUp
  <2>6. ~job[w].replay => NextFits(job[w], "putback")
    BY <2>3 DEF NextFits, GivingUp
  <2>7. CASE /\ job' = [job EXCEPT ![w].at = "reverse", ![w].replay = TRUE]
             /\ GiveUpWrite(w)
    <3> DEFINE j == [job[w] EXCEPT !.at = "reverse", !.replay = TRUE]
    <3>1. j.op = job[w].op /\ j.at = "reverse" /\ j.seen = job[w].seen /\ j.replay
      BY <2>1 DEF Job
    <3>2. job[w].at = "write"
      BY <2>7 DEF GiveUpWrite
    <3>3. job[w].seen \in Active
      BY <2>2, <2>3, <3>2 DEF JobFits
    <3>4. JobFits(j)
      <4> HIDE DEF j
      <4> QED
        BY <2>3, <3>1, <3>3 DEF JobFits, GivingUp
    <3>5. \A v \in Workers : job'[v] = IF v = w THEN j ELSE job[v]
      BY <2>7 DEF RoadInv, RoadOK, DeliveryTypeOK
    <3> HIDE DEF j
    <3> QED
      BY <3>4, <3>5 DEF RoadInv, JobsFit, JobFits
  <2> QED
    BY <2>1, <2>4, <2>5, <2>6, <2>7, DoneFits, GotoFits DEF RoadInv
<1> QED
  BY <1>1, <1>2

LEMMA TakeOffFits ==
    ASSUME RoadInv, NEW w \in Workers,
           \/ CloseOrder(w) \/ TakeOffWrite(w)
           \/ \E o \in Orders, op \in {"release", "cancel"} : TakeOff(w, o, op)
    PROVE  JobsFit'
<1>1. ASSUME NEW o \in Orders, NEW op \in {"release", "cancel"}, TakeOff(w, o, op)
      PROVE  JobsFit'
  <2>1. PICK at \in {"write", "order"} :
           Begin(w, Request(op, o, at)) /\ delivery[o].status \in Active
    BY <1>1 DEF TakeOff
  <2>2. JobFits(Request(op, o, at))
    BY <2>1 DEF Request, JobFits, GivingUp
  <2> QED
    BY <2>1, <2>2, BeginFits DEF RoadInv
<1>2. CASE CloseOrder(w) \/ TakeOffWrite(w)
  <2>1. job[w] # NoJob /\ job[w] \in Job
    BY <1>2, JobKinds DEF RoadInv, CloseOrder, TakeOffWrite, Ops, GivingUp
  <2>2. \/ Done(w)
        \/ job[w].op = "cancel" /\ Goto(w, "write")
        \/ job[w].op = "release" /\ Goto(w, "order")
    BY <1>2 DEF CloseOrder, TakeOffWrite
  <2>3. \A step \in {"write", "order"} :
           job[w].op \in {"release", "cancel"} => NextFits(job[w], step)
    BY DEF NextFits, GivingUp
  <2> QED
    BY <2>1, <2>2, <2>3, DoneFits, GotoFits DEF RoadInv
<1> QED
  BY <1>1, <1>2

LEMMA ShiftFits ==
    ASSUME RoadInv, NEW w \in Workers,
           CheckOutClose(w) \/ Crash(w) \/ \E d \in Drivers : CheckOut(w, d)
    PROVE  JobsFit'
<1>1. ASSUME NEW d \in Drivers, CheckOut(w, d)
      PROVE  JobsFit'
  BY <1>1, BeginFits DEF RoadInv, CheckOut, Ops
<1>2. CASE CheckOutClose(w) \/ Crash(w)
  BY <1>2, DoneFits DEF RoadInv, CheckOutClose, Crash
<1> QED
  BY <1>1, <1>2

LEMMA RoadFits ==
    ASSUME RoadInv, RoadStep
    PROVE  JobsFit'
<1>1. ASSUME NEW w \in Workers, Proceed(w)
      PROVE  JobsFit'
  BY <1>1, AssignFits, AdvanceFits, GiveUpFits, TakeOffFits, ShiftFits DEF Proceed
<1>2. CASE DispatchStep
  <2>1. CASE \E o \in Orders : CollectCash(o) \/ ConfirmCash(o) \/ StaffCancels(o) \/ ReversePayment(o)
    BY <2>1 DEF RoadInv, JobsFit, CollectCash, ConfirmCash, StaffCancels, ReversePayment
  <2>2. CASE \E d \in Drivers : RunsOver(d) \/ CloseStale(d)
    BY <2>2 DEF RoadInv, JobsFit, RunsOver, CloseStale
  <2> QED
    BY <1>2, <2>1, <2>2, AssignFits, AdvanceFits, GiveUpFits, TakeOffFits, ShiftFits DEF DispatchStep
<1> QED
  BY <1>1, <1>2 DEF RoadStep

----------------------------------------------------------------------------
(* What may become of a delivery *)

\* Dispatched, taken back by undoAssignment, carried further, ended, or put back
\* where it was when the cash could not be reversed.
Dispatches(r, s) ==
    r.status \in {"NONE", "RESCHEDULED"} /\ s.status = "ASSIGNED" /\ s.driver \in Drivers
Undoes(r, s) ==
    /\ r.status = "ASSIGNED" /\ s.status \in {"NONE", "RESCHEDULED"}
    /\ s.status # "NONE" => s.driver \in Drivers
Carries(r, s) ==
    r.status \in {"ASSIGNED", "PICKED_UP"} /\ s.status = Further(r.status) /\ s.driver = r.driver
Ends(r, s) ==
    /\ r.status \in Active /\ s.status \in {"DELIVERED", "FAILED", "RESCHEDULED"}
    /\ s.status = "DELIVERED" => r.status = "ON_DELIVERY"
    /\ s.driver = r.driver
PutsBack(r, s) ==
    r.status \in {"FAILED", "RESCHEDULED"} /\ s.status \in Active /\ s.driver = r.driver

RowMove(r, s) ==
    s = r \/ Dispatches(r, s) \/ Undoes(r, s) \/ Carries(r, s) \/ Ends(r, s) \/ PutsBack(r, s)

RowsMove == \A o \in Orders : RowMove(delivery[o], delivery'[o])

LEMMA OneRowMoves ==
    ASSUME RoadOK, NEW p \in Orders, NEW s, delivery' = [delivery EXCEPT ![p] = s],
           RowMove(delivery[p], s)
    PROVE  RowsMove
<1>1. \A o \in Orders : delivery'[o] = IF o = p THEN s ELSE delivery[o]
  BY DEF RoadOK, DeliveryTypeOK
<1> QED
  BY <1>1 DEF RowsMove, RowMove

LEMMA NoRowMoves ==
    ASSUME UNCHANGED delivery
    PROVE  RowsMove
BY DEF RowsMove, RowMove

LEMMA EndedMoves ==
    ASSUME RoadOK, NEW o \in Orders, NEW status, NEW hour, delivery' = Ended(o, status, hour),
           status \in {"DELIVERED", "FAILED", "RESCHEDULED"}, delivery[o].status \in Active,
           status = "DELIVERED" => delivery[o].status = "ON_DELIVERY"
    PROVE  RowsMove
<1> DEFINE s == [delivery[o] EXCEPT !.status = status, !.dated = hour]
<1>1. delivery[o] \in Row
  BY DEF RoadOK, DeliveryTypeOK
<1>2. delivery' = [delivery EXCEPT ![o] = s]
  BY DEF RoadOK, DeliveryTypeOK, Ended
<1>3. s.status = status /\ s.driver = delivery[o].driver
  BY <1>1 DEF Row
<1>4. Ends(delivery[o], s)
  <2> HIDE DEF s
  <2> QED
    BY <1>3 DEF Ends
<1> HIDE DEF s
<1> QED
  BY <1>2, <1>4, OneRowMoves DEF RowMove

LEMMA AssignMoves ==
    ASSUME RoadInv, NEW w \in Workers, AssignWrite(w) \/ AssignUndo(w)
    PROVE  RowsMove
<1> DEFINE o == job[w].o
<1>1. job[w] # NoJob /\ job[w] \in Job /\ job[w].op = "assign"
  BY JobKinds DEF RoadInv, AssignWrite, AssignUndo, At, Ops
<1>2. JobFits(job[w]) /\ o \in Orders
  BY <1>1 DEF RoadInv, JobsFit, Job
<1>3. /\ job[w].seen \in {"NONE", "RESCHEDULED"} /\ job[w].driver \in Drivers
      /\ job[w].seen # "NONE" => job[w].prev \in Drivers
  BY <1>1, <1>2 DEF JobFits
<1>4. delivery[o] \in Row
  BY <1>2 DEF RoadInv, RoadOK, DeliveryTypeOK
<1>5. CASE AssignWrite(w)
  <2> DEFINE since == IF job[w].seen = "NONE" THEN shift ELSE delivery[o].since
             s == [delivery[o] EXCEPT !.status = "ASSIGNED", !.driver = job[w].driver, !.since = since]
  <2>1. CASE UNCHANGED delivery
    BY <2>1, NoRowMoves
  <2>2. CASE ~UNCHANGED delivery
    <3>1. MayMove(w) /\ delivery' = [delivery EXCEPT ![o].status = "ASSIGNED",
                                                    ![o].driver = job[w].driver,
                                                    ![o].since = IF job[w].seen = "NONE"
                                                                 THEN shift ELSE @]
      BY <1>5, <2>2 DEF AssignWrite
    <3>2. delivery' = [delivery EXCEPT ![o] = s]
      BY <1>2, <1>4, <3>1 DEF RoadInv, RoadOK, DeliveryTypeOK, Row
    <3>3. s.status = "ASSIGNED" /\ s.driver = job[w].driver
      BY <1>4 DEF Row
    <3>4. Dispatches(delivery[o], s)
      <4> HIDE DEF s
      <4> QED
        BY <1>3, <3>1, <3>3 DEF MayMove, Dispatches
    <3> HIDE DEF s
    <3> QED
      BY <1>2, <3>2, <3>4, OneRowMoves DEF RoadInv, RowMove
  <2> QED
    BY <2>1, <2>2
<1>6. CASE AssignUndo(w)
  <2> DEFINE s == [delivery[o] EXCEPT !.status = "RESCHEDULED", !.driver = job[w].prev]
  <2>1. CASE UNCHANGED delivery
    BY <2>1, NoRowMoves
  <2>2. CASE delivery[o].status = "ASSIGNED" /\ delivery' = [delivery EXCEPT ![o] = NoRow]
    <3>1. Undoes(delivery[o], NoRow)
      BY <2>2 DEF Undoes, NoRow
    <3> QED
      BY <1>2, <2>2, <3>1, OneRowMoves DEF RoadInv, RowMove
  <2>3. CASE /\ delivery[o].status = "ASSIGNED" /\ job[w].seen # "NONE"
             /\ delivery' = [delivery EXCEPT ![o].status = "RESCHEDULED", ![o].driver = job[w].prev]
    <3>1. delivery' = [delivery EXCEPT ![o] = s]
      BY <1>2, <2>3 DEF RoadInv, RoadOK, DeliveryTypeOK
    <3>2. s.status = "RESCHEDULED" /\ s.driver = job[w].prev
      BY <1>4 DEF Row
    <3>3. Undoes(delivery[o], s)
      <4> HIDE DEF s
      <4> QED
        BY <1>3, <2>3, <3>2 DEF Undoes
    <3> HIDE DEF s
    <3> QED
      BY <1>2, <3>1, <3>3, OneRowMoves DEF RoadInv, RowMove
  <2> QED
    BY <1>6, <2>1, <2>2, <2>3 DEF AssignUndo
<1> QED
  BY <1>5, <1>6

LEMMA AdvanceMoves ==
    ASSUME RoadInv, NEW w \in Workers, AdvanceWrite(w)
    PROVE  RowsMove
<1> DEFINE o == job[w].o
           s == [delivery[o] EXCEPT !.status = Further(job[w].seen)]
<1>1. job[w] # NoJob /\ job[w] \in Job /\ job[w].op = "advance"
  BY JobKinds DEF RoadInv, AdvanceWrite, At, Ops
<1>2. JobFits(job[w]) /\ o \in Orders
  BY <1>1 DEF RoadInv, JobsFit, Job
<1>3. job[w].seen \in {"ASSIGNED", "PICKED_UP"}
  BY <1>1, <1>2 DEF JobFits
<1>4. delivery[o] \in Row
  BY <1>2 DEF RoadInv, RoadOK, DeliveryTypeOK
<1>5. CASE ~MayMove(w)
  BY <1>5, NoRowMoves DEF AdvanceWrite
<1>6. CASE MayMove(w)
  <2>1. delivery' = [delivery EXCEPT ![o] = s]
    BY <1>2, <1>6 DEF RoadInv, RoadOK, DeliveryTypeOK, AdvanceWrite
  <2>2. s.status = Further(delivery[o].status) /\ s.driver = delivery[o].driver
    BY <1>4, <1>6 DEF Row, MayMove
  <2>3. Carries(delivery[o], s)
    <3> HIDE DEF s
    <3> QED
      BY <1>3, <1>6, <2>2 DEF Carries, MayMove
  <2> HIDE DEF s
  <2> QED
    BY <1>2, <2>1, <2>3, OneRowMoves DEF RoadInv, RowMove
<1> QED
  BY <1>5, <1>6

LEMMA CompleteMoves ==
    ASSUME RoadInv, NEW w \in Workers, CompleteWithProof(w)
    PROVE  RowsMove
<1>1. job[w] # NoJob /\ job[w] \in Job /\ job[w].op = "complete"
  BY JobKinds DEF RoadInv, CompleteWithProof, At, Ops
<1>2. job[w].seen = "ON_DELIVERY" /\ job[w].o \in Orders
  BY <1>1 DEF RoadInv, JobsFit, JobFits, Job
<1>3. CASE MayMove(w)
  <2>1. /\ \E hour : delivery' = Ended(job[w].o, "DELIVERED", hour)
        /\ delivery[job[w].o].status = "ON_DELIVERY"
    BY <1>2, <1>3 DEF CompleteWithProof, MayMove
  <2> QED
    BY <1>2, <2>1, EndedMoves DEF RoadInv, Active
<1>4. CASE ~MayMove(w)
  BY <1>4, NoRowMoves DEF CompleteWithProof
<1> QED
  BY <1>3, <1>4

LEMMA GiveUpMoves ==
    ASSUME RoadInv, NEW w \in Workers, GiveUpWrite(w)
    PROVE  RowsMove
<1> DEFINE o == job[w].o
           op == job[w].op
           s == [delivery[o] EXCEPT !.status = Outcome(op), !.dated = Now(o),
                                    !.slot = @ \/ op = "reschedule"]
<1>1. job[w] # NoJob /\ job[w] \in Job /\ op \in GivingUp
  BY JobKinds DEF RoadInv, GiveUpWrite, Ops, GivingUp
<1>2. JobFits(job[w]) /\ o \in Orders
  BY <1>1 DEF RoadInv, JobsFit, Job
<1>3. job[w].seen \in Active
  BY <1>1, <1>2 DEF JobFits, GiveUpWrite
<1>4. delivery[o] \in Row
  BY <1>2 DEF RoadInv, RoadOK, DeliveryTypeOK
<1>5. CASE ~MayMove(w)
  BY <1>5, NoRowMoves DEF GiveUpWrite
<1>6. CASE MayMove(w)
  <2>1. delivery' = [Ended(o, Outcome(op), Now(o)) EXCEPT ![o].slot = @ \/ op = "reschedule"]
    BY <1>6 DEF GiveUpWrite
  <2>2. delivery' = [delivery EXCEPT ![o] = s]
    BY <1>2, <1>4, <2>1 DEF RoadInv, RoadOK, DeliveryTypeOK, Ended, Row
  <2>3. s.status = Outcome(op) /\ s.driver = delivery[o].driver
    BY <1>4 DEF Row
  <2>4. Ends(delivery[o], s)
    <3> HIDE DEF s
    <3> QED
      BY <1>3, <1>6, <2>3 DEF Ends, MayMove, Outcome
  <2> HIDE DEF s
  <2> QED
    BY <1>2, <2>2, <2>4, OneRowMoves DEF RoadInv, RowMove
<1> QED
  BY <1>5, <1>6

LEMMA PutBackMoves ==
    ASSUME RoadInv, NEW w \in Workers, PutBack(w)
    PROVE  RowsMove
<1> DEFINE o == job[w].o
           s == [delivery[o] EXCEPT !.status = job[w].seen, !.slot = @ /\ job[w].op = "fail"]
<1>1. job[w] # NoJob /\ job[w] \in Job
  BY JobKinds DEF RoadInv, PutBack, Steps
<1>2. JobFits(job[w]) /\ o \in Orders
  BY <1>1 DEF RoadInv, JobsFit, Job
<1>3. job[w].seen \in Active
  BY <1>1, <1>2 DEF JobFits, PutBack, Job, Ops, GivingUp
<1>4. delivery[o] \in Row
  BY <1>2 DEF RoadInv, RoadOK, DeliveryTypeOK
<1>5. CASE UNCHANGED delivery
  BY <1>5, NoRowMoves
<1>6. CASE /\ delivery[o].status = Outcome(job[w].op)
           /\ delivery' = [delivery EXCEPT ![o].status = job[w].seen,
                                           ![o].slot = @ /\ job[w].op = "fail"]
  <2>1. delivery' = [delivery EXCEPT ![o] = s]
    BY <1>2, <1>4, <1>6 DEF RoadInv, RoadOK, DeliveryTypeOK, Row
  <2>2. s.status = job[w].seen /\ s.driver = delivery[o].driver
    BY <1>4 DEF Row
  <2>3. PutsBack(delivery[o], s)
    <3> HIDE DEF s
    <3> QED
      BY <1>3, <1>6, <2>2 DEF PutsBack, Outcome
  <2> HIDE DEF s
  <2> QED
    BY <1>2, <2>1, <2>3, OneRowMoves DEF RoadInv, RowMove
<1> QED
  BY <1>5, <1>6 DEF PutBack

LEMMA TakeOffMoves ==
    ASSUME RoadInv, NEW w \in Workers, TakeOffWrite(w)
    PROVE  RowsMove
<1>1. job[w] # NoJob /\ job[w] \in Job /\ job[w].op \in {"release", "cancel"}
  BY JobKinds DEF RoadInv, TakeOffWrite, Ops
<1>2. job[w].seen \in Active /\ job[w].o \in Orders
  BY <1>1 DEF RoadInv, JobsFit, JobFits, Job
<1>3. CASE MayMove(w)
  <2>1. PICK status \in {"FAILED", "RESCHEDULED"} :
           delivery' = Ended(job[w].o, status, Now(job[w].o))
    BY <1>3 DEF TakeOffWrite
  <2>2. delivery[job[w].o].status \in Active
    BY <1>2, <1>3 DEF MayMove
  <2> QED
    BY <1>2, <2>1, <2>2, EndedMoves DEF RoadInv
<1>4. CASE ~MayMove(w)
  BY <1>4, NoRowMoves DEF TakeOffWrite
<1> QED
  BY <1>3, <1>4

LEMMA RoadMoves ==
    ASSUME RoadInv, RoadStep
    PROVE  RowsMove
<1>1. ASSUME NEW w \in Workers, Proceed(w)
      PROVE  RowsMove
  <2>1. CASE UNCHANGED delivery
    BY <2>1, NoRowMoves
  <2> QED
    BY <1>1, <2>1, AssignMoves, AdvanceMoves, CompleteMoves, GiveUpMoves, PutBackMoves, TakeOffMoves
       DEF Proceed, AssignOrder, AdvanceTheOrder, CompleteOrder, ReverseCash, CloseOrder, CheckOutClose
<1>2. CASE DispatchStep
  <2>1. ASSUME NEW w \in Workers, NEW o \in Orders,
               \/ \E d \in Drivers : Assign(w, o, d)
               \/ Advance(w, o) \/ Complete(w, o)
               \/ \E op \in GivingUp, back \in BOOLEAN : GiveUp(w, o, op, back)
               \/ \E op \in {"release", "cancel"} : TakeOff(w, o, op)
        PROVE  UNCHANGED delivery
    BY <2>1 DEF Assign, Advance, Complete, GiveUp, TakeOff
  <2>2. ASSUME NEW w \in Workers, Crash(w) \/ \E d \in Drivers : CheckOut(w, d)
        PROVE  UNCHANGED delivery
    BY <2>2 DEF Crash, CheckOut
  <2>3. ASSUME NEW o \in Orders,
               CollectCash(o) \/ ConfirmCash(o) \/ StaffCancels(o) \/ ReversePayment(o)
        PROVE  UNCHANGED delivery
    BY <2>3 DEF CollectCash, ConfirmCash, StaffCancels, ReversePayment
  <2>4. ASSUME NEW d \in Drivers, RunsOver(d) \/ CloseStale(d)
        PROVE  UNCHANGED delivery
    BY <2>4 DEF RunsOver, CloseStale
  <2> QED
    BY <1>2, <2>1, <2>2, <2>3, <2>4, NoRowMoves DEF DispatchStep
<1> QED
  BY <1>1, <1>2 DEF RoadStep

LEMMA RoadNamed ==
    ASSUME CourierNamed, RowsMove
    PROVE  CourierNamed'
<1> SUFFICES ASSUME NEW o \in Orders, delivery'[o].status # "NONE"
             PROVE  delivery'[o].driver \in Drivers
  BY DEF CourierNamed
<1>1. delivery[o].status # "NONE" => delivery[o].driver \in Drivers
  BY DEF CourierNamed
<1>2. RowMove(delivery[o], delivery'[o])
  BY DEF RowsMove
<1> QED
  BY <1>1, <1>2 DEF RowMove, Dispatches, Undoes, Carries, Ends, PutsBack, Active

LEMMA RoadStays ==
    ASSUME RoadInv, RoadStep
    PROVE  RoadInv'
<1>1. RoadOK'
  BY RoadTyping DEF RoadInv
<1>2. JobsFit'
  BY RoadFits
<1>3. CourierNamed'
  BY RoadMoves, RoadNamed DEF RoadInv
<1> QED
  BY <1>1, <1>2, <1>3 DEF RoadInv

----------------------------------------------------------------------------
(* The deposit *)

DepositOK ==
    /\ deposit \in [Drivers -> Deposit]
    /\ \A d \in Drivers : deposit[d].approver # Nobody => deposit[d].by # Nobody
    /\ debited \subseteq Drivers

LEMMA TypeParts ==
    (TypeOK <=> RoadOK /\ DepositOK) /\ (TypeOK' <=> RoadOK' /\ DepositOK')
BY DEF TypeOK, RoadOK, DepositOK, Jobs

\* One courier's deposit is rewritten.
LEMMA DepositTyping ==
    ASSUME DepositOK, NEW d \in Drivers, NEW r \in Deposit,
           r.approver # Nobody => r.by # Nobody,
           deposit' = [deposit EXCEPT ![d] = r], debited' \subseteq Drivers
    PROVE  DepositOK'
BY DEF DepositOK

LEMMA SameDepositTyping ==
    ASSUME DepositOK, UNCHANGED deposit, debited' \subseteq Drivers
    PROVE  DepositOK'
BY DEF DepositOK

LEMMA SubmitTyping ==
    ASSUME TypeOK, NEW d \in Drivers, NEW handed \in SUBSET Orders, Submit(d, handed)
    PROVE  TypeOK'
<1> DEFINE short == Cardinality(handed) < Cardinality(ExpectedOf(d))
           r == [NoDeposit EXCEPT !.state = "SUBMITTED", !.asked = ExpectedOf(d), !.short = short]
<1>1. short \in BOOLEAN /\ ExpectedOf(d) \subseteq Orders
  BY DEF ExpectedOf
<1>2. deposit' = [deposit EXCEPT ![d] = r] /\ UNCHANGED debited
  BY DEF Submit
<1>3. r \in Deposit /\ r.approver = Nobody
  <2> HIDE DEF short
  <2> QED
    BY <1>1 DEF NoDeposit, Deposit
<1>4. DepositOK'
  <2> HIDE DEF r
  <2> QED
    BY <1>2, <1>3, TypeParts, DepositTyping DEF DepositOK
<1>5. cash' \in [Orders -> Drivers \cup {"customer", "depot"}]
  BY TypeParts DEF RoadOK, DeliveryTypeOK, Submit
<1>6. RoadOK'
  BY <1>5, TypeParts DEF RoadOK, DeliveryTypeOK, Submit
<1> QED
  BY <1>4, <1>6, TypeParts

\* A ruling touches the road's variables only through its own job.
LEMMA RulingRoad ==
    ASSUME RoadOK, job' \in [Workers -> Jobs \cup {NoJob}], slips' \in 0..MaxSlips,
           UNCHANGED <<order, payment, cash, delivery, shift, assigns>>
    PROVE  RoadOK'
BY DEF RoadOK, DeliveryTypeOK

LEMMA RuleTyping ==
    ASSUME TypeOK, NEW w \in Workers, NEW d \in Drivers, NEW op \in Rulings, NEW s \in Staff,
           Rule(w, d, op, s)
    PROVE  TypeOK'
<1>1. [op |-> op, at |-> "write", driver |-> d, by |-> s] \in Jobs
  BY DEF Jobs, RulingJob
<1>2. job' \in [Workers -> Jobs \cup {NoJob}]
  BY <1>1, TypeParts, BeginTyping DEF Rule
<1>3. RoadOK'
  BY <1>2, TypeParts, RulingRoad DEF Rule, RoadOK, DeliveryTypeOK
<1>4. DepositOK'
  BY TypeParts, SameDepositTyping DEF Rule, DepositOK
<1> QED
  BY <1>3, <1>4, TypeParts

LEMMA RuleWriteTyping ==
    ASSUME TypeOK, NEW w \in Workers, RuleWrite(w)
    PROVE  TypeOK'
<1> DEFINE d == job[w].driver
<1>1. job[w] \in RulingJob
  BY TypeParts, JobKinds DEF RuleWrite
<1>2. d \in Drivers /\ job[w].by \in Staff /\ job[w].by # Nobody
  BY <1>1, SettlementAssumption DEF RulingJob
<1>3. deposit[d] \in Deposit /\ (deposit[d].approver # Nobody => deposit[d].by # Nobody)
  BY <1>2, TypeParts DEF DepositOK
<1>4. \/ UNCHANGED deposit
      \/ \E state \in {"VERIFIED", "DISPUTED"} :
            deposit' = [deposit EXCEPT ![d].state = state, ![d].charged = FALSE]
      \/ deposit' = [deposit EXCEPT ![d].by = job[w].by]
      \/ deposit[d].approver = Nobody /\ deposit' = [deposit EXCEPT ![d].by = Nobody]
  <2>1. CASE job[w].op = "verify"
    BY <2>1 DEF RuleWrite, Resolved
  <2>2. CASE job[w].op = "dispute"
    BY <2>2 DEF RuleWrite, Resolved
  <2>3. CASE job[w].op = "raise"
    BY <2>3 DEF RuleWrite
  <2>4. CASE job[w].op = "reject"
    BY <2>4 DEF RuleWrite, Cleared
  <2> QED
    BY <2>1, <2>2, <2>3, <2>4 DEF RuleWrite, Rulings
<1>5. \/ UNCHANGED deposit
      \/ \E r \in Deposit : /\ deposit' = [deposit EXCEPT ![d] = r]
                            /\ r.approver # Nobody => r.by # Nobody
  <2>1. ASSUME NEW state \in {"VERIFIED", "DISPUTED"},
               deposit' = [deposit EXCEPT ![d].state = state, ![d].charged = FALSE]
        PROVE  \E r \in Deposit : /\ deposit' = [deposit EXCEPT ![d] = r]
                                  /\ r.approver # Nobody => r.by # Nobody
    <3> DEFINE r == [deposit[d] EXCEPT !.state = state, !.charged = FALSE]
    <3>1. deposit' = [deposit EXCEPT ![d] = r]
      BY <1>2, <2>1, TypeParts DEF DepositOK
    <3>2. r \in Deposit /\ r.approver = deposit[d].approver /\ r.by = deposit[d].by
      BY <1>3 DEF Deposit
    <3> HIDE DEF r
    <3> QED
      BY <1>3, <3>1, <3>2
  <2>2. ASSUME NEW by \in Staff \cup {Nobody}, by = Nobody => deposit[d].approver = Nobody,
               deposit' = [deposit EXCEPT ![d].by = by]
        PROVE  \E r \in Deposit : /\ deposit' = [deposit EXCEPT ![d] = r]
                                  /\ r.approver # Nobody => r.by # Nobody
    <3> DEFINE r == [deposit[d] EXCEPT !.by = by]
    <3>1. deposit' = [deposit EXCEPT ![d] = r]
      BY <1>2, <2>2, TypeParts DEF DepositOK
    <3>2. r \in Deposit /\ r.approver = deposit[d].approver /\ r.by = by
      BY <1>3 DEF Deposit
    <3> HIDE DEF r
    <3> QED
      BY <2>2, <3>1, <3>2
  <2> QED
    BY <1>2, <1>4, <2>1, <2>2
<1>6. DepositOK'
  BY <1>2, <1>5, TypeParts, DepositTyping, SameDepositTyping DEF DepositOK, RuleWrite
<1>7. job' \in [Workers -> Jobs \cup {NoJob}]
  BY TypeParts, DoneTyping DEF RuleWrite
<1>8. RoadOK'
  BY <1>7, TypeParts, RulingRoad DEF RuleWrite, RoadOK, DeliveryTypeOK
<1> QED
  BY <1>6, <1>8, TypeParts

LEMMA ClaimTyping ==
    ASSUME TypeOK, NEW w \in Workers, Claim(w)
    PROVE  TypeOK'
<1> DEFINE d == job[w].driver
           r == [deposit[d] EXCEPT !.approver = job[w].by]
<1>1. job[w] \in RulingJob
  BY TypeParts, JobKinds DEF Claim, At, Rulings
<1>2. d \in Drivers /\ job[w].by \in Staff
  BY <1>1 DEF RulingJob
<1>3. deposit[d] \in Deposit
  BY <1>2, TypeParts DEF DepositOK
<1>4. r \in Deposit /\ r.by = deposit[d].by
  BY <1>2, <1>3 DEF Deposit
<1>5. \/ UNCHANGED deposit
      \/ deposit' = [deposit EXCEPT ![d] = r] /\ deposit[d].by # Nobody
  BY <1>2, TypeParts DEF DepositOK, Claim, Pending
<1>6. DepositOK'
  <2> HIDE DEF r
  <2> QED
    BY <1>2, <1>4, <1>5, TypeParts, DepositTyping, SameDepositTyping DEF DepositOK, Claim
<1>7. job' \in [Workers -> Jobs \cup {NoJob}]
  BY <1>1, TypeParts, DoneTyping, GotoTyping DEF Claim
<1>8. RoadOK'
  BY <1>7, TypeParts, RulingRoad DEF Claim, RoadOK, DeliveryTypeOK
<1> QED
  BY <1>6, <1>8, TypeParts

LEMMA PushTyping ==
    ASSUME TypeOK, NEW w \in Workers, Push(w)
    PROVE  TypeOK'
<1>1. job[w] \in RulingJob
  BY TypeParts, JobKinds DEF Push, At, Rulings
<1>2. job[w].driver \in Drivers
  BY <1>1 DEF RulingJob
<1>3. DepositOK'
  BY <1>2, TypeParts, SameDepositTyping DEF DepositOK, Push
<1>4. job' \in [Workers -> Jobs \cup {NoJob}]
  BY <1>1, TypeParts, GotoTyping DEF Push
<1>5. slips' \in 0..MaxSlips
  BY TypeParts, SlipTyping DEF Push, RoadOK, DeliveryTypeOK
<1>6. RoadOK'
  BY <1>4, <1>5, TypeParts, RulingRoad DEF Push
<1> QED
  BY <1>3, <1>6, TypeParts

LEMMA ConcludeTyping ==
    ASSUME TypeOK, NEW w \in Workers, Conclude(w)
    PROVE  TypeOK'
<1> DEFINE d == job[w].driver
           ruled == [deposit[d] EXCEPT !.state = "VERIFIED", !.charged = TRUE]
           freed == [deposit[d] EXCEPT !.approver = Nobody]
<1>1. job[w] \in RulingJob
  BY TypeParts, JobKinds DEF Conclude
<1>2. d \in Drivers
  BY <1>1 DEF RulingJob
<1>3. deposit[d] \in Deposit /\ (deposit[d].approver # Nobody => deposit[d].by # Nobody)
  BY <1>2, TypeParts DEF DepositOK
<1>4. ruled \in Deposit /\ ruled.approver = deposit[d].approver /\ ruled.by = deposit[d].by
  BY <1>3 DEF Deposit
<1>5. freed \in Deposit /\ freed.approver = Nobody
  BY <1>3 DEF Deposit
<1>6. \/ UNCHANGED deposit
      \/ deposit' = [deposit EXCEPT ![d] = ruled]
      \/ deposit' = [deposit EXCEPT ![d] = freed]
  BY <1>2, TypeParts DEF DepositOK, Conclude, Resolved
<1>7. DepositOK'
  <2> HIDE DEF ruled, freed
  <2>1. debited' \subseteq Drivers
    BY TypeParts DEF DepositOK, Conclude
  <2>2. CASE UNCHANGED deposit
    BY <2>1, <2>2, TypeParts, SameDepositTyping
  <2>3. CASE deposit' = [deposit EXCEPT ![d] = ruled]
    BY <1>2, <1>3, <1>4, <2>1, <2>3, TypeParts, DepositTyping
  <2>4. CASE deposit' = [deposit EXCEPT ![d] = freed]
    BY <1>2, <1>5, <2>1, <2>4, TypeParts, DepositTyping
  <2> QED
    BY <1>6, <2>2, <2>3, <2>4
<1>8. job' \in [Workers -> Jobs \cup {NoJob}]
  BY TypeParts, DoneTyping DEF Conclude
<1>9. RoadOK'
  BY <1>8, TypeParts, RulingRoad DEF Conclude, RoadOK, DeliveryTypeOK
<1> QED
  BY <1>7, <1>9, TypeParts

----------------------------------------------------------------------------
(* Type correctness of the whole *)

RulingStep ==
    \E w \in Workers : RuleOn(w) \/ \E d \in Drivers, op \in Rulings, s \in Staff : Rule(w, d, op, s)

LEMMA RulingFits ==
    ASSUME RoadInv, RulingStep
    PROVE  JobsFit' /\ CourierNamed'
<1>1. CourierNamed'
  BY DEF RulingStep, RuleOn, RuleWrite, Claim, Push, Conclude, Rule, RoadInv, CourierNamed
<1>2. ASSUME NEW w \in Workers, NEW d \in Drivers, NEW op \in Rulings, NEW s \in Staff,
             Rule(w, d, op, s)
      PROVE  JobsFit'
  BY <1>2, BeginFits DEF RoadInv, Rule, Rulings, Ops
<1>3. ASSUME NEW w \in Workers, RuleOn(w)
      PROVE  JobsFit'
  <2>1. job[w] # NoJob /\ job[w] \in RulingJob
    BY <1>3, JobKinds DEF RoadInv, RuleOn, RuleWrite, Claim, Push, Conclude, At, Rulings
  <2>2. CASE Done(w)
    BY <2>2, DoneFits DEF RoadInv
  <2>3. ASSUME NEW step, Goto(w, step)
        PROVE  JobsFit'
    <3> DEFINE j == [job[w] EXCEPT !.at = step]
    <3>1. \A v \in Workers : job'[v] = IF v = w THEN j ELSE job[v]
      BY <2>3 DEF RoadInv, RoadOK, DeliveryTypeOK, Goto
    <3>2. j.op \notin Ops
      BY <2>1 DEF RulingJob, Rulings, Ops
    <3> HIDE DEF j
    <3> QED
      BY <3>1, <3>2 DEF RoadInv, JobsFit, JobFits
  <2> QED
    BY <1>3, <2>2, <2>3 DEF RuleOn, RuleWrite, Claim, Push, Conclude
<1> QED
  BY <1>1, <1>2, <1>3 DEF RulingStep

TypeInv == TypeOK /\ RoadInv

LEMMA InitTyping == Init => TypeInv
<1> SUFFICES ASSUME Init
             PROVE  TypeInv
  OBVIOUS
<1>1. RoadOK
  BY DeliveryAssumption
     DEF Init, DeliveryInit, RoadOK, DeliveryTypeOK, OrderStatuses, PaymentStatuses, NoRow, Row,
         DeliveryStatuses, Active, Hours
<1>2. DepositOK
  BY DEF Init, DepositOK, NoDeposit, Deposit
<1>3. JobsFit /\ CourierNamed
  BY DEF Init, DeliveryInit, JobsFit, CourierNamed, NoRow
<1> QED
  BY <1>1, <1>2, <1>3, TypeParts DEF TypeInv, RoadInv

LEMMA NextTyping ==
    ASSUME TypeInv, [Next]_vars
    PROVE  TypeInv'
<1>1. CASE RoadStep /\ UNCHANGED <<deposit, debited>>
  <2>1. RoadInv'
    BY <1>1, RoadStays DEF TypeInv
  <2>2. DepositOK'
    BY <1>1, TypeParts DEF TypeInv, DepositOK
  <2> QED
    BY <2>1, <2>2, TypeParts DEF TypeInv, RoadInv
<1>2. ASSUME NEW d \in Drivers, NEW handed \in SUBSET Orders, Submit(d, handed)
      PROVE  TypeInv'
  <2>1. TypeOK'
    BY <1>2, SubmitTyping DEF TypeInv
  <2>2. JobsFit' /\ CourierNamed'
    BY <1>2 DEF TypeInv, RoadInv, Submit, JobsFit, JobFits, CourierNamed
  <2> QED
    BY <2>1, <2>2, TypeParts DEF TypeInv, RoadInv
<1>3. CASE RulingStep
  <2>1. TypeOK'
    BY <1>3, RuleTyping, RuleWriteTyping, ClaimTyping, PushTyping, ConcludeTyping
       DEF TypeInv, RulingStep, RuleOn
  <2>2. JobsFit' /\ CourierNamed'
    BY <1>3, RulingFits DEF TypeInv
  <2> QED
    BY <2>1, <2>2, TypeParts DEF TypeInv, RoadInv
<1>4. CASE UNCHANGED vars
  BY <1>4 DEF vars, road, TypeInv, RoadInv, TypeOK, RoadOK, DeliveryTypeOK, JobsFit, JobFits, CourierNamed
<1> QED
  BY <1>1, <1>2, <1>3, <1>4 DEF Next, RoadStep, RulingStep

\* Every delivery, payment, shift, request and deposit keeps its type, and every
\* delivery that was ever dispatched names a courier.
THEOREM Typing == Spec => []TypeOK
<1>1. Spec => []TypeInv
  BY InitTyping, NextTyping, PTL DEF Spec
<1> QED
  BY <1>1, PTL DEF TypeInv

----------------------------------------------------------------------------
(* What a ruling leaves alone *)

\* A deposit stays handed in, for what was asked of it, and it is charged only
\* by a step that says so.
KeepsDeposit(d) ==
    /\ deposit'[d].asked = deposit[d].asked
    /\ deposit'[d].state = "NONE" <=> deposit[d].state = "NONE"

LEMMA RuleWriteKeeps ==
    ASSUME TypeOK, NEW w \in Workers, RuleWrite(w), NEW d \in Drivers
    PROVE  KeepsDeposit(d) /\ (deposit'[d].charged => deposit[d].charged)
<1> DEFINE e == job[w].driver
<1>1. e \in Drivers
  BY TypeParts, JobKinds DEF RuleWrite, RulingJob
<1>2. deposit[e] \in Deposit /\ deposit \in [Drivers -> Deposit]
  BY <1>1, TypeParts DEF DepositOK
<1>3. CASE UNCHANGED deposit
  BY <1>3 DEF KeepsDeposit
<1>4. ASSUME NEW state \in {"VERIFIED", "DISPUTED"}, Resolvable(e),
             deposit' = [deposit EXCEPT ![e].state = state, ![e].charged = FALSE]
      PROVE  KeepsDeposit(d) /\ (deposit'[d].charged => deposit[d].charged)
  BY <1>1, <1>2, <1>4 DEF KeepsDeposit, Resolvable, Deposit
<1>5. ASSUME NEW by, deposit' = [deposit EXCEPT ![e].by = by]
      PROVE  KeepsDeposit(d) /\ (deposit'[d].charged => deposit[d].charged)
  BY <1>1, <1>2, <1>5 DEF KeepsDeposit, Deposit
<1>6. \/ UNCHANGED deposit
      \/ \E state \in {"VERIFIED", "DISPUTED"} :
            /\ Resolvable(e)
            /\ deposit' = [deposit EXCEPT ![e].state = state, ![e].charged = FALSE]
      \/ \E by : deposit' = [deposit EXCEPT ![e].by = by]
  <2>1. CASE job[w].op \in {"verify", "dispute"}
    BY <2>1 DEF RuleWrite, Resolved
  <2>2. CASE job[w].op = "raise"
    BY <2>2 DEF RuleWrite
  <2>3. CASE job[w].op = "reject"
    BY <2>3 DEF RuleWrite, Cleared
  <2> QED
    BY <2>1, <2>2, <2>3 DEF RuleWrite, Rulings
<1> QED
  BY <1>3, <1>4, <1>5, <1>6

LEMMA RuleOnKeeps ==
    ASSUME TypeOK, NEW w \in Workers, RuleOn(w), NEW d \in Drivers
    PROVE  /\ KeepsDeposit(d)
           /\ deposit'[d].charged =>
                 \/ deposit[d].charged
                 \/ job[w] # NoJob /\ job[w].at = "resolve" /\ job[w].driver = d
<1> DEFINE e == job[w].driver
<1>1. CASE RuleWrite(w)
  BY <1>1, RuleWriteKeeps
<1>2. CASE Claim(w)
  <2>1. e \in Drivers
    BY <1>2, TypeParts, JobKinds DEF Claim, At, Rulings, RulingJob
  <2>2. deposit[e] \in Deposit /\ deposit \in [Drivers -> Deposit]
    BY <2>1, TypeParts DEF DepositOK
  <2> QED
    BY <1>2, <2>1, <2>2 DEF Claim, KeepsDeposit, Deposit
<1>3. CASE Push(w)
  BY <1>3 DEF Push, KeepsDeposit
<1>4. CASE Conclude(w)
  <2>1. e \in Drivers /\ job[w] # NoJob
    BY <1>4, TypeParts, JobKinds DEF Conclude, RulingJob
  <2>2. deposit[e] \in Deposit /\ deposit \in [Drivers -> Deposit]
    BY <2>1, TypeParts DEF DepositOK
  <2>3. CASE UNCHANGED deposit
    BY <2>3 DEF KeepsDeposit
  <2>4. CASE /\ job[w].at = "resolve" /\ Resolvable(e)
             /\ deposit' = [deposit EXCEPT ![e].state = "VERIFIED", ![e].charged = TRUE]
    BY <2>1, <2>2, <2>4 DEF KeepsDeposit, Resolvable, Deposit
  <2>5. CASE deposit' = [deposit EXCEPT ![e].approver = Nobody]
    BY <2>1, <2>2, <2>5 DEF KeepsDeposit, Deposit
  <2> QED
    BY <1>4, <2>3, <2>4, <2>5 DEF Conclude, Resolved
<1> QED
  BY <1>1, <1>2, <1>3, <1>4 DEF RuleOn

----------------------------------------------------------------------------
(* CA-2-32: ChargedIsDebited *)

\* A ruling about to record the charge has had payout-service's answer.
AboutToCharge ==
    \A w \in Workers :
        job[w] # NoJob /\ job[w].at = "resolve" => job[w].driver \in debited

ChargeInv == ChargedIsDebited /\ AboutToCharge

\* A request that is not a ruling's last step is not about to charge.
LEMMA BeginCharge ==
    ASSUME RoadOK, AboutToCharge, NEW w \in Workers, NEW j, Begin(w, j), j.at # "resolve",
           UNCHANGED debited
    PROVE  AboutToCharge'
BY DEF RoadOK, DeliveryTypeOK, Begin, AboutToCharge

LEMMA DoneCharge ==
    ASSUME RoadOK, AboutToCharge, NEW w \in Workers, Done(w), UNCHANGED debited
    PROVE  AboutToCharge'
BY DEF RoadOK, DeliveryTypeOK, Done, AboutToCharge

LEMMA GotoCharge ==
    ASSUME RoadOK, AboutToCharge, NEW w \in Workers, job[w] \in Job \cup RulingJob,
           NEW step, Goto(w, step), step # "resolve", UNCHANGED debited
    PROVE  AboutToCharge'
<1> DEFINE j == [job[w] EXCEPT !.at = step]
<1>1. \A v \in Workers : job'[v] = IF v = w THEN j ELSE job[v]
  BY DEF RoadOK, DeliveryTypeOK, Goto
<1>2. j.at = step
  BY DEF Job, RulingJob
<1> HIDE DEF j
<1> QED
  BY <1>1, <1>2 DEF AboutToCharge

\* Requests on the road do not resolve deposits.
LEMMA RoadCharge ==
    ASSUME RoadInv, RoadStep, AboutToCharge, UNCHANGED debited
    PROVE  AboutToCharge'
<1> SUFFICES ASSUME NEW w \in Workers, job'[w] # NoJob, job'[w].at = "resolve"
             PROVE  job'[w] = job[w]
  BY DEF AboutToCharge
<1>1. RoadInv'
  BY RoadStays
<1>2. job'[w] \in RulingJob
  BY <1>1 DEF RoadInv, RoadOK, DeliveryTypeOK, Jobs, Job, CheckOutJob, Steps
<1>3. ASSUME NEW v \in Workers, Proceed(v)
      PROVE  job'[w] = job[w]
  <2>1. job[v] # NoJob /\ job[v] \in Job \cup CheckOutJob
    BY <1>3, JobKinds
       DEF RoadInv, Proceed, AssignWrite, AssignOrder, AssignUndo, AdvanceTheOrder, AdvanceWrite,
           CompleteWithProof, CompleteOrder, GiveUpWrite, ReverseCash, PutBack, CloseOrder,
           TakeOffWrite, CheckOutClose, At, Ops, GivingUp, Steps
  <2>2. \/ Done(v) \/ \E step \in Steps : Goto(v, step)
        \/ job' = [job EXCEPT ![v].at = "reverse", ![v].replay = TRUE]
    BY <1>3
       DEF Proceed, AssignWrite, AssignOrder, AssignUndo, AdvanceTheOrder, AdvanceWrite,
           CompleteWithProof, CompleteOrder, GiveUpWrite, ReverseCash, PutBack, CloseOrder,
           TakeOffWrite, CheckOutClose, Steps
  <2>3. v # w
    <3>1. v = w => job'[w] = NoJob \/ job'[w].op = job[v].op
      BY <2>1, <2>2 DEF RoadInv, RoadOK, DeliveryTypeOK, Done, Goto, Job, CheckOutJob
    <3>2. job[v].op \notin Rulings
      BY <2>1 DEF Job, CheckOutJob, Ops, Rulings
    <3> QED
      BY <1>2, <3>1, <3>2 DEF RulingJob
  <2> QED
    BY <2>2, <2>3 DEF RoadInv, RoadOK, DeliveryTypeOK, Done, Goto
<1>4. ASSUME NEW v \in Workers, NEW o \in Orders,
             \/ \E d \in Drivers : Assign(v, o, d)
             \/ Advance(v, o) \/ Complete(v, o)
             \/ \E op \in GivingUp, back \in BOOLEAN : GiveUp(v, o, op, back)
             \/ \E op \in {"release", "cancel"} : TakeOff(v, o, op)
      PROVE  job'[w] = job[w]
  <2>1. \E j : Begin(v, j) /\ j.op \in Ops
    <3>1. ASSUME NEW d \in Drivers, Assign(v, o, d)
          PROVE  \E j : Begin(v, j) /\ j.op \in Ops
      <4> DEFINE j == [Request("assign", o, "write") EXCEPT !.driver = d]
      <4>1. Begin(v, j) /\ j.op \in Ops
        BY <3>1 DEF Assign, Request, Ops
      <4> HIDE DEF j
      <4> QED
        BY <4>1
    <3>2. ASSUME NEW op \in GivingUp, NEW back \in BOOLEAN, GiveUp(v, o, op, back)
          PROVE  \E j : Begin(v, j) /\ j.op \in Ops
      <4> DEFINE j == [Request(op, o, StartsAt(op, o)) EXCEPT !.back = back,
                                                              !.replay = Replays(op, o)]
      <4>1. Begin(v, j) /\ j.op \in Ops
        BY <3>2 DEF GiveUp, Request, Ops, GivingUp
      <4> HIDE DEF j
      <4> QED
        BY <4>1
    <3>3. ASSUME NEW op \in Ops, NEW at, Begin(v, Request(op, o, at))
          PROVE  \E j : Begin(v, j) /\ j.op \in Ops
      <4>1. Request(op, o, at).op \in Ops
        BY DEF Request
      <4> QED
        BY <3>3, <4>1
    <3> QED
      BY <1>4, <3>1, <3>2, <3>3 DEF Advance, Complete, TakeOff, Ops
  <2> QED
    BY <1>2, <2>1 DEF RoadInv, RoadOK, DeliveryTypeOK, Begin, RulingJob, Rulings, Ops
<1>5. ASSUME NEW v \in Workers, Crash(v) \/ \E d \in Drivers : CheckOut(v, d)
      PROVE  job'[w] = job[w]
  BY <1>2, <1>5
     DEF RoadInv, RoadOK, DeliveryTypeOK, Crash, CheckOut, Done, Begin, RulingJob, Rulings
<1>6. ASSUME NEW o \in Orders,
             CollectCash(o) \/ ConfirmCash(o) \/ StaffCancels(o) \/ ReversePayment(o)
      PROVE  job'[w] = job[w]
  BY <1>6 DEF CollectCash, ConfirmCash, StaffCancels, ReversePayment
<1>7. ASSUME NEW d \in Drivers, RunsOver(d) \/ CloseStale(d)
      PROVE  job'[w] = job[w]
  BY <1>7 DEF RunsOver, CloseStale
<1> QED
  BY <1>3, <1>4, <1>5, <1>6, <1>7 DEF RoadStep, DispatchStep

LEMMA RuleOnCharge ==
    ASSUME TypeOK, ChargeInv, NEW w \in Workers, RuleOn(w)
    PROVE  ChargeInv'
<1>1. job[w] # NoJob /\ job[w] \in RulingJob
  BY TypeParts, JobKinds DEF RuleOn, RuleWrite, Claim, Push, Conclude, At, Rulings
<1>2. debited \subseteq debited'
  BY DEF RuleOn, RuleWrite, Claim, Push, Conclude
<1>3. ChargedIsDebited'
  BY <1>2, RuleOnKeeps DEF ChargeInv, ChargedIsDebited, AboutToCharge
<1>4. AboutToCharge'
  <2>1. CASE RuleWrite(w) \/ Claim(w) \/ Conclude(w)
    BY <1>1, <2>1, TypeParts, DoneCharge, GotoCharge
       DEF ChargeInv, RuleWrite, Claim, Conclude
  <2>2. CASE Push(w)
    <3> DEFINE j(step) == [job[w] EXCEPT !.at = step]
    <3>1. PICK step \in {"resolve", "release"} :
             Goto(w, step) /\ (step = "resolve" => debited' = debited \cup {job[w].driver})
      BY <2>2 DEF Push
    <3>2. \A v \in Workers : job'[v] = IF v = w THEN j(step) ELSE job[v]
      BY <3>1, TypeParts DEF RoadOK, DeliveryTypeOK, Goto
    <3>3. j(step).at = step /\ j(step).driver = job[w].driver
      BY <1>1 DEF RulingJob
    <3> HIDE DEF j
    <3> QED
      BY <1>2, <3>1, <3>2, <3>3 DEF ChargeInv, AboutToCharge
  <2> QED
    BY <2>1, <2>2 DEF RuleOn
<1> QED
  BY <1>3, <1>4 DEF ChargeInv

LEMMA NextCharge ==
    ASSUME TypeInv, ChargeInv, [Next]_vars
    PROVE  ChargeInv'
<1>1. CASE RoadStep /\ UNCHANGED <<deposit, debited>>
  <2>1. AboutToCharge'
    BY <1>1, RoadCharge DEF TypeInv, ChargeInv
  <2>2. ChargedIsDebited'
    BY <1>1 DEF ChargeInv, ChargedIsDebited
  <2> QED
    BY <2>1, <2>2 DEF ChargeInv
<1>2. ASSUME NEW d \in Drivers, NEW handed \in SUBSET Orders, Submit(d, handed)
      PROVE  ChargeInv'
  <2>1. AboutToCharge'
    BY <1>2 DEF Submit, ChargeInv, AboutToCharge
  <2>2. \A e \in Drivers : deposit'[e].charged => deposit[e].charged
    BY <1>2, TypeParts DEF TypeInv, DepositOK, Submit, NoDeposit
  <2>3. ChargedIsDebited'
    BY <1>2, <2>2 DEF Submit, ChargeInv, ChargedIsDebited
  <2> QED
    BY <2>1, <2>3 DEF ChargeInv
<1>3. ASSUME NEW w \in Workers, NEW d \in Drivers, NEW op \in Rulings, NEW s \in Staff,
             Rule(w, d, op, s)
      PROVE  ChargeInv'
  <2>1. AboutToCharge'
    BY <1>3, TypeParts, BeginCharge DEF TypeInv, ChargeInv, Rule
  <2>2. ChargedIsDebited'
    BY <1>3 DEF Rule, ChargeInv, ChargedIsDebited
  <2> QED
    BY <2>1, <2>2 DEF ChargeInv
<1>4. ASSUME NEW w \in Workers, RuleOn(w)
      PROVE  ChargeInv'
  BY <1>4, RuleOnCharge DEF TypeInv
<1>5. CASE UNCHANGED vars
  BY <1>5 DEF vars, road, ChargeInv, ChargedIsDebited, AboutToCharge
<1> QED
  BY <1>1, <1>2, <1>3, <1>4, <1>5 DEF Next, RoadStep

LEMMA InitCharge == Init => ChargeInv
BY DEF Init, DeliveryInit, ChargeInv, ChargedIsDebited, AboutToCharge, NoDeposit

\* approveCharge: a deposit is recorded as charged only once payout-service holds
\* the debit, whichever rulings race with the approval and whatever call fails.
THEOREM ChargedOnlyIfDebited == Spec => []ChargedIsDebited
<1>1. Spec => [](TypeInv /\ ChargeInv)
  BY InitTyping, NextTyping, InitCharge, NextCharge, PTL DEF Spec
<1> QED
  BY <1>1, PTL DEF ChargeInv

----------------------------------------------------------------------------
(* C1: DeliveredIsAsked *)

SubmittedAfterShift == \A d \in Drivers : deposit[d].state # "NONE" => d \notin open

\* A courier who checks out has not let his shift lapse.
CheckingOut(j) == j # NoJob /\ j.op = "checkOut"
NotLapsed == \A w \in Workers : CheckingOut(job[w]) => shift[job[w].driver] # "lapsed"

AskedInv == SubmittedAfterShift /\ NotLapsed

\* A check-out is at work only from its own beginning.
LEMMA RoadCheckOut ==
    ASSUME RoadInv, RoadStep, NEW w \in Workers, CheckingOut(job'[w])
    PROVE  job'[w] = job[w] \/ \E d \in Drivers : CheckOut(w, d) /\ job'[w].driver = d
<1>1. ASSUME NEW v \in Workers, Proceed(v)
      PROVE  job'[w] = job[w]
  <2>1. /\ job[v] # NoJob
        /\ Done(v) \/ job[v] \in Job
    BY <1>1, JobKinds
       DEF RoadInv, Proceed, AssignWrite, AssignOrder, AssignUndo, AdvanceTheOrder, AdvanceWrite,
           CompleteWithProof, CompleteOrder, GiveUpWrite, ReverseCash, PutBack, CloseOrder,
           TakeOffWrite, CheckOutClose, At, Ops, GivingUp, Steps
  <2>2. \/ Done(v) \/ \E step \in Steps : Goto(v, step)
        \/ job' = [job EXCEPT ![v].at = "reverse", ![v].replay = TRUE]
    BY <1>1
       DEF Proceed, AssignWrite, AssignOrder, AssignUndo, AdvanceTheOrder, AdvanceWrite,
           CompleteWithProof, CompleteOrder, GiveUpWrite, ReverseCash, PutBack, CloseOrder,
           TakeOffWrite, CheckOutClose, Steps
  <2>3. v # w
    <3>1. v = w => job'[w] = NoJob \/ (job[v] \in Job /\ job'[w].op = job[v].op)
      BY <2>1, <2>2 DEF RoadInv, RoadOK, DeliveryTypeOK, Done, Goto, Job
    <3> QED
      BY <3>1 DEF CheckingOut, Job, Ops
  <2> QED
    BY <2>2, <2>3 DEF RoadInv, RoadOK, DeliveryTypeOK, Done, Goto
<1>2. ASSUME NEW v \in Workers, NEW j, Begin(v, j), j.op \in Ops
      PROVE  job'[w] = job[w]
  BY <1>2 DEF RoadInv, RoadOK, DeliveryTypeOK, Begin, CheckingOut, Ops
<1>3. ASSUME NEW v \in Workers, NEW o \in Orders, NEW d \in Drivers, Assign(v, o, d)
      PROVE  job'[w] = job[w]
  <2> DEFINE j == [Request("assign", o, "write") EXCEPT !.driver = d]
  <2>1. Begin(v, j) /\ j.op \in Ops
    BY <1>3 DEF Assign, Request, Ops
  <2> HIDE DEF j
  <2> QED
    BY <1>2, <2>1
<1>4. ASSUME NEW v \in Workers, NEW o \in Orders,
             NEW op \in GivingUp, NEW back \in BOOLEAN, GiveUp(v, o, op, back)
      PROVE  job'[w] = job[w]
  <2> DEFINE j == [Request(op, o, StartsAt(op, o)) EXCEPT !.back = back, !.replay = Replays(op, o)]
  <2>1. Begin(v, j) /\ j.op \in Ops
    BY <1>4 DEF GiveUp, Request, Ops, GivingUp
  <2> HIDE DEF j
  <2> QED
    BY <1>2, <2>1
<1>5. ASSUME NEW v \in Workers, NEW o \in Orders,
             \/ Advance(v, o) \/ Complete(v, o)
             \/ \E op \in {"release", "cancel"} : TakeOff(v, o, op)
      PROVE  job'[w] = job[w]
  <2>1. PICK op \in Ops, at \in Steps : Begin(v, Request(op, o, at))
    BY <1>5 DEF Advance, Complete, TakeOff, Ops, Steps
  <2>2. Request(op, o, at).op \in Ops
    BY DEF Request
  <2> QED
    BY <1>2, <2>1, <2>2
<1>6. ASSUME NEW v \in Workers, NEW d \in Drivers, CheckOut(v, d)
      PROVE  job'[w] = job[w] \/ \E e \in Drivers : CheckOut(w, e) /\ job'[w].driver = e
  BY <1>6 DEF CheckOut, Begin, RoadInv, RoadOK, DeliveryTypeOK
<1>7. ASSUME NEW v \in Workers, Crash(v)
      PROVE  job'[w] = job[w]
  BY <1>7 DEF RoadInv, RoadOK, DeliveryTypeOK, Crash, Done, CheckingOut
<1>8. ASSUME NEW o \in Orders,
             CollectCash(o) \/ ConfirmCash(o) \/ StaffCancels(o) \/ ReversePayment(o)
      PROVE  job'[w] = job[w]
  BY <1>8 DEF CollectCash, ConfirmCash, StaffCancels, ReversePayment
<1>9. ASSUME NEW d \in Drivers, RunsOver(d) \/ CloseStale(d)
      PROVE  job'[w] = job[w]
  BY <1>9 DEF RunsOver, CloseStale
<1> QED
  BY <1>1, <1>3, <1>4, <1>5, <1>6, <1>7, <1>8, <1>9 DEF RoadStep, DispatchStep

\* What moves the clock of a shift.
LEMMA RoadClock ==
    ASSUME RoadStep
    PROVE  \/ UNCHANGED shift
           \/ \E w \in Workers : CheckOutClose(w)
           \/ \E d \in Drivers : RunsOver(d) \/ CloseStale(d)
<1>1. ASSUME NEW w \in Workers, Proceed(w), ~CheckOutClose(w)
      PROVE  UNCHANGED shift
  BY <1>1
     DEF Proceed, AssignWrite, AssignOrder, AssignUndo, AdvanceTheOrder, AdvanceWrite,
         CompleteWithProof, CompleteOrder, GiveUpWrite, ReverseCash, PutBack, CloseOrder,
         TakeOffWrite
<1>2. ASSUME NEW w \in Workers, NEW o \in Orders,
             \/ \E d \in Drivers : Assign(w, o, d)
             \/ Advance(w, o) \/ Complete(w, o)
             \/ \E op \in GivingUp, back \in BOOLEAN : GiveUp(w, o, op, back)
             \/ \E op \in {"release", "cancel"} : TakeOff(w, o, op)
      PROVE  UNCHANGED shift
  BY <1>2 DEF Assign, Advance, Complete, GiveUp, TakeOff
<1>3. ASSUME NEW w \in Workers, Crash(w) \/ \E d \in Drivers : CheckOut(w, d)
      PROVE  UNCHANGED shift
  BY <1>3 DEF Crash, CheckOut
<1>4. ASSUME NEW o \in Orders,
             CollectCash(o) \/ ConfirmCash(o) \/ StaffCancels(o) \/ ReversePayment(o)
      PROVE  UNCHANGED shift
  BY <1>4 DEF CollectCash, ConfirmCash, StaffCancels, ReversePayment
<1> QED
  BY <1>1, <1>2, <1>3, <1>4 DEF RoadStep, DispatchStep

\* A shift that has ended stays so, and one that lapsed is not checked out of.
LEMMA RoadShift ==
    ASSUME RoadInv, NotLapsed, RoadStep
    PROVE  /\ NotLapsed' /\ open' \subseteq open
           /\ \A d \in Drivers : shift[d] = "lapsed" => shift'[d] = "lapsed"
<1> USE DEF RoadInv, RoadOK, DeliveryTypeOK
<1>1. ASSUME NEW w \in Workers, CheckingOut(job'[w])
      PROVE  \/ CheckingOut(job[w]) /\ job'[w] = job[w]
             \/ \E d \in Drivers : CheckOut(w, d) /\ job'[w].driver = d
  BY <1>1, RoadCheckOut
<1>2. CASE UNCHANGED shift
  <2>1. ASSUME NEW w \in Workers, CheckingOut(job'[w])
        PROVE  shift'[job'[w].driver] # "lapsed"
    BY <1>1, <1>2, <2>1 DEF NotLapsed, CheckOut, open
  <2> QED
    BY <1>2, <2>1 DEF NotLapsed, open
<1>3. ASSUME NEW v \in Workers, CheckOutClose(v)
      PROVE  /\ NotLapsed' /\ open' \subseteq open
             /\ \A d \in Drivers : shift[d] = "lapsed" => shift'[d] = "lapsed"
  <2>1. job[v] \in CheckOutJob /\ CheckingOut(job[v])
    BY <1>3, JobKinds DEF CheckOutClose, At, CheckingOut
  <2>2. /\ shift' = [shift EXCEPT ![job[v].driver] = "ended"]
        /\ job' = [job EXCEPT ![v] = NoJob]
        /\ shift[job[v].driver] # "lapsed" /\ job[v].driver \in Drivers
    BY <1>3, <2>1 DEF CheckOutClose, Done, NotLapsed, CheckOutJob
  <2>3. \A d \in Drivers : shift'[d] = IF d = job[v].driver THEN "ended" ELSE shift[d]
    BY <2>2
  <2>4. NotLapsed'
    <3> SUFFICES ASSUME NEW w \in Workers, CheckingOut(job'[w])
                 PROVE  shift'[job'[w].driver] # "lapsed"
      BY DEF NotLapsed
    <3>1. w # v /\ job'[w] = job[w]
      BY <2>2 DEF CheckingOut
    <3>2. job[w] \in CheckOutJob
      BY <3>1, JobKinds DEF CheckingOut
    <3> QED
      BY <2>3, <3>1, <3>2 DEF NotLapsed, CheckOutJob
  <2> QED
    BY <2>2, <2>3, <2>4 DEF open
<1>4. ASSUME NEW d \in Drivers, RunsOver(d) \/ CloseStale(d)
      PROVE  /\ NotLapsed' /\ open' \subseteq open
             /\ \A e \in Drivers : shift[e] = "lapsed" => shift'[e] = "lapsed"
  <2>1. /\ UNCHANGED job /\ shift[d] \in {"open", "overdue"}
        /\ shift' = [shift EXCEPT ![d] = shift'[d]] /\ shift'[d] \in {"overdue", "lapsed"}
    BY <1>4 DEF RunsOver, CloseStale
  <2>2. \A e \in Drivers : e # d => shift'[e] = shift[e]
    BY <2>1
  <2>3. NotLapsed'
    <3> SUFFICES ASSUME NEW w \in Workers, CheckingOut(job[w])
                 PROVE  shift'[job[w].driver] # "lapsed"
      BY <2>1 DEF NotLapsed
    <3>1. job[w] \in CheckOutJob /\ At(w, "checkOut", "close")
      BY JobKinds DEF CheckingOut, CheckOutJob, At
    <3>2. CASE job[w].driver = d
      BY <1>4, <3>1, <3>2 DEF RunsOver, CloseStale
    <3>3. CASE job[w].driver # d
      BY <2>2, <3>1, <3>3 DEF NotLapsed, CheckOutJob
    <3> QED
      BY <3>2, <3>3
  <2> QED
    BY <2>1, <2>2, <2>3 DEF open
<1> QED
  BY <1>2, <1>3, <1>4, RoadClock

LEMMA RulingShift ==
    ASSUME RoadInv, NotLapsed, RulingStep
    PROVE  NotLapsed' /\ UNCHANGED <<shift, delivery>>
<1>1. UNCHANGED <<shift, delivery>>
  BY DEF RulingStep, RuleOn, RuleWrite, Claim, Push, Conclude, Rule
<1>2. ASSUME NEW v \in Workers, NEW d \in Drivers, NEW op \in Rulings, NEW s \in Staff,
             Rule(v, d, op, s)
      PROVE  \A w \in Workers : CheckingOut(job'[w]) => job'[w] = job[w]
  BY <1>2 DEF Rule, Begin, RoadInv, RoadOK, DeliveryTypeOK, CheckingOut, Rulings
<1>3. ASSUME NEW v \in Workers, RuleOn(v)
      PROVE  \A w \in Workers : CheckingOut(job'[w]) => job'[w] = job[w]
  <2>1. job[v] # NoJob /\ job[v] \in RulingJob
    BY <1>3, JobKinds DEF RoadInv, RuleOn, RuleWrite, Claim, Push, Conclude, At, Rulings
  <2>2. Done(v) \/ \E step \in {"push", "resolve", "release"} : Goto(v, step)
    BY <1>3 DEF RuleOn, RuleWrite, Claim, Push, Conclude
  <2>3. /\ job'[v] = NoJob \/ job'[v].op = job[v].op
        /\ \A w \in Workers : w # v => job'[w] = job[w]
    BY <2>1, <2>2 DEF Done, Goto, RoadInv, RoadOK, DeliveryTypeOK, RulingJob
  <2> QED
    BY <2>1, <2>3 DEF CheckingOut, RulingJob, Rulings
<1> QED
  BY <1>1, <1>2, <1>3 DEF RulingStep, NotLapsed

LEMMA NextAsked ==
    ASSUME TypeInv, AskedInv, [Next]_vars
    PROVE  AskedInv'
<1>1. CASE RoadStep /\ UNCHANGED <<deposit, debited>>
  BY <1>1, RoadShift DEF TypeInv, AskedInv, SubmittedAfterShift
<1>2. ASSUME NEW d \in Drivers, NEW handed \in SUBSET Orders, Submit(d, handed)
      PROVE  AskedInv'
  <2>1. /\ d \notin open /\ UNCHANGED <<shift, job>>
        /\ \A e \in Drivers : e # d => deposit'[e] = deposit[e]
    BY <1>2, TypeParts DEF TypeInv, DepositOK, Submit
  <2> QED
    BY <2>1 DEF AskedInv, SubmittedAfterShift, NotLapsed, open
<1>3. CASE RulingStep
  <2>1. NotLapsed' /\ UNCHANGED shift
    BY <1>3, RulingShift DEF TypeInv, AskedInv
  <2>2. \A d \in Drivers : deposit'[d].state = "NONE" <=> deposit[d].state = "NONE"
    BY <1>3, RuleOnKeeps DEF TypeInv, RulingStep, Rule, KeepsDeposit
  <2> QED
    BY <2>1, <2>2 DEF AskedInv, SubmittedAfterShift, open
<1>4. CASE UNCHANGED vars
  BY <1>4 DEF vars, road, AskedInv, SubmittedAfterShift, NotLapsed, open
<1> QED
  BY <1>1, <1>2, <1>3, <1>4 DEF Next, RoadStep, RulingStep

LEMMA InitAsked == Init => AskedInv
BY DEF Init, DeliveryInit, AskedInv, SubmittedAfterShift, NotLapsed, CheckingOut, NoDeposit

\* A delivery gets to be missing from its deposit.
GoesUnasked(d, o) == ExpectFromCod /\ Unasked(d, o)' /\ ~Unasked(d, o)
ProofTooLate(d, o) ==
    d \notin open /\ deposit[d].state # "NONE" /\ delivery[o].status = "ON_DELIVERY"

LEMMA RoadAsked ==
    ASSUME TypeInv, AskedInv, RoadStep, UNCHANGED deposit,
           NEW d \in Drivers, NEW o \in Orders, GoesUnasked(d, o)
    PROVE  ProofTooLate(d, o)
<1>1. /\ deposit[d].state # "NONE" /\ d \notin open
      /\ delivery'[o].status = "DELIVERED" /\ delivery'[o].driver = d /\ InShift(o)'
      /\ o \notin deposit[d].asked
  BY DEF GoesUnasked, Unasked, AskedInv, SubmittedAfterShift
<1>2. RowMove(delivery[o], delivery'[o])
  BY RoadMoves DEF TypeInv, RowsMove
<1>3. delivery'[o] # delivery[o]
  <2>1. SUFFICES ASSUME delivery'[o] = delivery[o]
                 PROVE  InShift(o)
    BY <1>1 DEF GoesUnasked, Unasked
  <2>2. shift[d] = "lapsed" => shift'[d] = "lapsed"
    BY RoadShift DEF TypeInv, AskedInv
  <2> QED
    BY <1>1, <2>1, <2>2 DEF InShift, Now
<1>4. delivery[o].status = "ON_DELIVERY"
  BY <1>1, <1>2, <1>3 DEF RowMove, Dispatches, Undoes, Carries, Ends, PutsBack, Further, Active
<1> QED
  BY <1>1, <1>4 DEF ProofTooLate

LEMMA SubmitAsked ==
    ASSUME TypeInv, NEW e \in Drivers, NEW handed \in SUBSET Orders, Submit(e, handed),
           NEW d \in Drivers, NEW o \in Orders
    PROVE  ~GoesUnasked(d, o)
<1>1. /\ deposit'[e].asked = ExpectedOf(e) /\ UNCHANGED <<delivery, shift>>
      /\ d # e => deposit'[d] = deposit[d]
  BY TypeParts DEF TypeInv, DepositOK, Submit, NoDeposit
<1>2. InShift(o)' <=> InShift(o)
  BY <1>1 DEF InShift, Now
<1>3. CASE d # e
  BY <1>1, <1>2, <1>3 DEF GoesUnasked, Unasked
<1>4. CASE d = e
  <2> SUFFICES ASSUME GoesUnasked(d, o)
               PROVE  o \in ExpectedOf(d)
    BY <1>1, <1>4 DEF GoesUnasked, Unasked
  <2> QED
    BY <1>1, <1>2 DEF GoesUnasked, Unasked, ExpectedOf, Owed
<1> QED
  BY <1>3, <1>4

LEMMA RulingAsked ==
    ASSUME TypeInv, AskedInv, RulingStep, NEW d \in Drivers, NEW o \in Orders
    PROVE  ~GoesUnasked(d, o)
<1>1. UNCHANGED <<shift, delivery>>
  BY RulingShift DEF TypeInv, AskedInv
<1>2. /\ deposit'[d].asked = deposit[d].asked
      /\ deposit'[d].state = "NONE" <=> deposit[d].state = "NONE"
  BY RuleOnKeeps DEF TypeInv, RulingStep, Rule, KeepsDeposit
<1> QED
  BY <1>1, <1>2 DEF GoesUnasked, Unasked, InShift, Now

\* settlement.submit: a courier who hands in his cash is asked for every delivery of
\* that shift he handed over, confirmed to payment-service or not, for good; only a
\* proof that reaches the server when the deposit is in goes unasked.
THEOREM DeliveredAsked == Spec => DeliveredIsAsked
<1> DEFINE Late == \A d \in Drivers, o \in Orders : GoesUnasked(d, o) => ProofTooLate(d, o)
<1>1. Spec => [](TypeInv /\ AskedInv)
  BY InitTyping, NextTyping, InitAsked, NextAsked, PTL DEF Spec
<1>2. ASSUME TypeInv, AskedInv, [Next]_vars
      PROVE  [Late]_vars
  <2>1. CASE RoadStep /\ UNCHANGED <<deposit, debited>>
    BY <1>2, <2>1, RoadAsked
  <2>2. CASE \E e \in Drivers, handed \in SUBSET Orders : Submit(e, handed)
    BY <1>2, <2>2, SubmitAsked
  <2>3. CASE RulingStep
    BY <1>2, <2>3, RulingAsked
  <2> QED
    BY <1>2, <2>1, <2>2, <2>3 DEF Next, RoadStep, RulingStep
<1>3. Late => \A d \in Drivers, o \in Orders :
                 ExpectFromCod /\ Unasked(d, o)' /\ ~Unasked(d, o)
                 => d \notin open /\ deposit[d].state # "NONE" /\ delivery[o].status = "ON_DELIVERY"
  BY DEF GoesUnasked, ProofTooLate
<1> HIDE DEF Late
<1> QED
  BY <1>1, <1>2, <1>3, PTL DEF Spec, DeliveredIsAsked

----------------------------------------------------------------------------
(* The end of a delivery against the end of its order: DeliveredStands *)

\* A request of a courier, or of staff, about an order.
On(w, o) == job[w] # NoJob /\ job[w].op \in Ops /\ job[w].o = o
Alone(w, o) == \A v \in Workers : On(v, o) => v = w

\* It has ended the delivery and may yet put it back; or it goes on to close
\* the order.
Returning(j) == j.op \in GivingUp /\ ~j.replay /\ j.at \in {"reverse", "putback"}
Closing(j) ==
    \/ j.op \in GivingUp \cup {"release"} /\ j.at = "order"
    \/ j.op \in GivingUp /\ j.replay /\ j.at = "reverse"

\* The delivery is carried, or may be carried again.
InPlay(o) == delivery[o].status \in Active \/ \E w \in Workers : On(w, o) /\ Returning(job[w])

JobStands(w, o) ==
    LET j == job[w] IN
    /\ j.op = "assign" => j.seen = "NONE"
    /\ j.op = "assign" /\ j.at = "write" => delivery[o].status = "NONE" /\ Alone(w, o)
    /\ j.op = "cancel" => delivery[o].status = j.seen /\ Alone(w, o)
    /\ j.op \in GivingUp => \A v \in Workers : On(v, o) /\ job[v].op \in GivingUp => v = w
    /\ Returning(j) => /\ delivery[o].status = Outcome(j.op)
                       /\ j.seen = "ON_DELIVERY" => order[o] = "ON_DELIVERY"
    /\ Closing(j) => delivery[o].status \in {"FAILED", "RESCHEDULED"} /\ ~InPlay(o)
    /\ j.at \in {"delivered", "completed"} => delivery[o].status = "DELIVERED"
    /\ j.op = "advance" /\ j.at = "write" /\ j.seen = "PICKED_UP" /\ InPlay(o) =>
          order[o] = "ON_DELIVERY"

OrderStands(o) ==
    /\ assigns[o] = 0 => delivery[o].status = "NONE" /\ \A w \in Workers : ~On(w, o)
    /\ delivery[o].status = "ON_DELIVERY" =>
          order[o] = "ON_DELIVERY" \/ \E w \in Workers : On(w, o) /\ job[w].op = "cancel"
    /\ delivery[o].status = "DELIVERED" => order[o] \in {"ON_DELIVERY", "DELIVERED", "COMPLETED"}

StandsAt(o) == OrderStands(o) /\ \A w \in Workers : On(w, o) => JobStands(w, o)
StandInv == \A o \in Orders : StandsAt(o)

LEMMA OnFits ==
    ASSUME RoadInv, NEW w \in Workers, NEW o, On(w, o)
    PROVE  job[w] \in Job /\ JobFits(job[w]) /\ WorksOn(w, o) /\ o \in Orders
<1>1. job[w] \in Job /\ job[w] # NoJob
  BY JobKinds DEF RoadInv, On
<1>2. "o" \in DOMAIN job[w]
  BY <1>1 DEF Job
<1> QED
  BY <1>1, <1>2 DEF RoadInv, JobsFit, Job, On, WorksOn

\* The request of w goes on with the order, or is over; the others wait.
GoesOn(w, o) ==
    /\ On(w, o) /\ \A v \in Workers \ {w} : job'[v] = job[v]
    /\ \/ job'[w] = NoJob
       \/ job'[w] # NoJob /\ job'[w].op = job[w].op /\ job'[w].o = o /\ job'[w].seen = job[w].seen

LEMMA DoneGoesOn ==
    ASSUME RoadInv, NEW w \in Workers, NEW o, On(w, o), Done(w)
    PROVE  GoesOn(w, o) /\ job'[w] = NoJob
BY DEF RoadInv, RoadOK, DeliveryTypeOK, Done, GoesOn

LEMMA GotoGoesOn ==
    ASSUME RoadInv, NEW w \in Workers, NEW o, On(w, o),
           NEW step \in Steps, Goto(w, step)
    PROVE  /\ GoesOn(w, o) /\ job'[w] # NoJob /\ job'[w].at = step
           /\ job'[w].replay = job[w].replay /\ job'[w].back = job[w].back
<1> DEFINE j == [job[w] EXCEPT !.at = step]
<1>1. job[w] \in Job
  BY OnFits
<1>2. \A v \in Workers : job'[v] = IF v = w THEN j ELSE job[v]
  BY DEF RoadInv, RoadOK, DeliveryTypeOK, Goto
<1>3. /\ j.op = job[w].op /\ j.o = job[w].o /\ j.seen = job[w].seen /\ j.at = step
      /\ j.replay = job[w].replay /\ j.back = job[w].back
  BY <1>1 DEF Job
<1>4. j \in Job
  BY <1>1 DEF Job
<1> HIDE DEF j
<1> QED
  BY <1>2, <1>3, <1>4, NoJobAssumption DEF GoesOn, On

\* An order nobody touches, on which no request begins.
LEMMA LeftAlone ==
    ASSUME NEW o, StandsAt(o), order'[o] = order[o], assigns'[o] = assigns[o],
           delivery'[o].status = delivery[o].status,
           \A v \in Workers : On(v, o)' => On(v, o) /\ job'[v] = job[v],
           \A v \in Workers : On(v, o) /\ job[v].op = "cancel" => On(v, o)'
    PROVE  StandsAt(o)'
<1>1. InPlay(o)' => InPlay(o)
  BY DEF InPlay
<1>2. OrderStands(o)'
  BY DEF StandsAt, OrderStands
<1>3. ASSUME NEW w \in Workers, On(w, o)'
      PROVE  JobStands(w, o)'
  <2>1. JobStands(w, o) /\ job'[w] = job[w]
    BY <1>3 DEF StandsAt
  <2>2. Alone(w, o) => Alone(w, o)'
    BY DEF Alone
  <2>3. \A v \in Workers : On(v, o)' /\ job'[v].op \in GivingUp => On(v, o) /\ job[v].op \in GivingUp
    OBVIOUS
  <2>4. Returning(job'[w]) <=> Returning(job[w])
    BY <2>1
  <2>5. Closing(job'[w]) <=> Closing(job[w])
    BY <2>1
  <2> QED
    BY <1>1, <2>1, <2>2, <2>3, <2>4, <2>5 DEF JobStands
<1> QED
  BY <1>2, <1>3 DEF StandsAt

\* What the others on an order go by, when the request of w moves it.
LEMMA OthersStand ==
    ASSUME NEW o, StandsAt(o), NEW w \in Workers, GoesOn(w, o),
           \/ delivery'[o].status = delivery[o].status
           \/ delivery[o].status \in Active \cup {"NONE"} \/ Returning(job[w]),
           order'[o] = order[o] \/ order[o] # "ON_DELIVERY" \/ ~InPlay(o),
           InPlay(o)' => InPlay(o),
           NEW v \in Workers, v # w, On(v, o)'
    PROVE  JobStands(v, o)'
<1>1. On(v, o) /\ job'[v] = job[v] /\ On(w, o)
  BY DEF GoesOn, On
<1>2. JobStands(v, o) /\ JobStands(w, o) /\ ~Alone(v, o)
  BY <1>1 DEF StandsAt, Alone
<1>3. Returning(job[w]) /\ job[v].op \in GivingUp => v = w
  BY <1>1, <1>2 DEF JobStands, Returning
<1>4. Returning(job[w]) => InPlay(o) /\ delivery[o].status \in {"FAILED", "RESCHEDULED"}
  BY <1>1, <1>2 DEF InPlay, JobStands, Outcome
<1>5. Returning(job[v]) => InPlay(o)
  BY <1>1 DEF InPlay
<1>6. \A u \in Workers : On(u, o)' /\ job'[u].op \in GivingUp => On(u, o) /\ job[u].op \in GivingUp
  BY DEF GoesOn, On
<1>7. /\ job[v].op = "assign" => job[v].seen = "NONE"
      /\ job[v].op = "assign" => job[v].at # "write"
      /\ job[v].op # "cancel"
  BY <1>2 DEF JobStands
<1>8. Returning(job[v]) => /\ delivery'[o].status = Outcome(job[v].op)
                           /\ job[v].seen = "ON_DELIVERY" => order'[o] = "ON_DELIVERY"
  BY <1>2, <1>3, <1>5 DEF JobStands, Returning, Outcome, Active
<1>9. Closing(job[v]) => delivery'[o].status \in {"FAILED", "RESCHEDULED"} /\ ~InPlay(o)'
  BY <1>2, <1>4 DEF JobStands, Active
<1>10. job[v].at \in {"delivered", "completed"} => delivery'[o].status = "DELIVERED"
  BY <1>2, <1>4 DEF JobStands, Active
<1>11. job[v].op = "advance" /\ job[v].at = "write" /\ job[v].seen = "PICKED_UP" /\ InPlay(o)' =>
          order'[o] = "ON_DELIVERY"
  BY <1>2 DEF JobStands
<1>12. job[v].op \in GivingUp =>
          \A u \in Workers : On(u, o)' /\ job'[u].op \in GivingUp => u = v
  BY <1>2, <1>6 DEF JobStands
<1> QED
  BY <1>1, <1>7, <1>8, <1>9, <1>10, <1>11, <1>12 DEF JobStands

\* Nothing happens to another order.
TouchesOnly(o) ==
    /\ UNCHANGED assigns
    /\ \A p \in Orders : p # o => order'[p] = order[p] /\ delivery'[p].status = delivery[p].status

\* The request of w takes one more step on its order.
LEMMA StepStands ==
    ASSUME StandInv, NEW o \in Orders, NEW w \in Workers, GoesOn(w, o),
           TouchesOnly(o),
           StandsAt(o)'
    PROVE  StandInv'
<1> SUFFICES ASSUME NEW p \in Orders, p # o
             PROVE  StandsAt(p)'
  BY DEF StandInv
<1>1. ~On(w, p) /\ ~On(w, p)'
  BY DEF GoesOn, On
<1>2. \A v \in Workers : v # w => (On(v, p)' <=> On(v, p)) /\ job'[v] = job[v]
  BY DEF GoesOn, On
<1> QED
  BY <1>1, <1>2, LeftAlone DEF StandInv, TouchesOnly

\* What has been assigned once stays assigned.
LEMMA OrderStaysAssigned ==
    ASSUME NEW o, StandsAt(o), NEW w \in Workers, On(w, o), UNCHANGED assigns
    PROVE  assigns'[o] # 0
BY DEF StandsAt, OrderStands

\* A step after which nothing is in play that was not, nothing others go by is
\* taken away, and the request itself stands.
MovesOn(w, o) ==
    /\ GoesOn(w, o) /\ TouchesOnly(o)
    /\ \/ delivery'[o].status = delivery[o].status
       \/ delivery[o].status \in Active \cup {"NONE"} \/ Returning(job[w])
    /\ order'[o] = order[o] \/ order[o] # "ON_DELIVERY" \/ ~InPlay(o)
    /\ delivery'[o].status \in Active => InPlay(o)
    /\ On(w, o)' => (Returning(job'[w]) => InPlay(o)) /\ JobStands(w, o)'
    /\ job[w].op # "cancel"
    /\ delivery'[o].status = "ON_DELIVERY" => order'[o] = "ON_DELIVERY"
    /\ delivery'[o].status = "DELIVERED" => order'[o] \in {"ON_DELIVERY", "DELIVERED", "COMPLETED"}

LEMMA MovesOnStands ==
    ASSUME StandInv, NEW o \in Orders, NEW w \in Workers, MovesOn(w, o)
    PROVE  StandInv'
<1>1. StandsAt(o) /\ GoesOn(w, o) /\ On(w, o) /\ TouchesOnly(o)
  BY DEF StandInv, GoesOn, MovesOn
<1>2. \A v \in Workers : v # w => (On(v, o)' <=> On(v, o)) /\ job'[v] = job[v]
  BY <1>1 DEF GoesOn, On
<1>3. InPlay(o)' => InPlay(o)
  BY <1>2 DEF InPlay, MovesOn
<1>4. assigns'[o] # 0
  BY <1>1, OrderStaysAssigned DEF TouchesOnly
<1>5. OrderStands(o)'
  BY <1>4 DEF OrderStands, MovesOn
<1>6. \A v \in Workers : v # w /\ On(v, o)' => JobStands(v, o)'
  BY <1>1, <1>3, OthersStand DEF MovesOn
<1>7. StandsAt(o)'
  BY <1>5, <1>6 DEF StandsAt, MovesOn
<1> QED
  BY <1>1, <1>7, StepStands

\* A request that is alone on its order has only itself to answer for.
MovesAlone(w, o) ==
    /\ GoesOn(w, o) /\ Alone(w, o) /\ TouchesOnly(o)
    /\ On(w, o)' => JobStands(w, o)'
    /\ delivery'[o].status = "ON_DELIVERY" => On(w, o)' /\ job'[w].op = "cancel"
    /\ delivery'[o].status # "DELIVERED"

LEMMA MovesAloneStands ==
    ASSUME StandInv, NEW o \in Orders, NEW w \in Workers, MovesAlone(w, o)
    PROVE  StandInv'
<1>1. StandsAt(o) /\ GoesOn(w, o) /\ On(w, o) /\ TouchesOnly(o)
  BY DEF StandInv, GoesOn, MovesAlone
<1>2. \A v \in Workers : On(v, o)' => v = w
  BY DEF GoesOn, On, Alone, MovesAlone
<1>3. assigns'[o] # 0
  BY <1>1, OrderStaysAssigned DEF TouchesOnly
<1>4. StandsAt(o)'
  BY <1>2, <1>3 DEF StandsAt, OrderStands, MovesAlone
<1> QED
  BY <1>1, <1>4, StepStands

\* What an answer of order-service has done to the order.
LEMMA AnswerMoves ==
    ASSUME RoadOK, NEW o \in Orders, NEW to, NEW answer \in Answers, AdvanceOrder(o, to, answer)
    PROVE  /\ \A p \in Orders : p # o => order'[p] = order[p]
           /\ order'[o] = order[o] \/ (to \in Onward(order[o]) /\ order'[o] = to)
           /\ answer = "ok" => order'[o] = to
BY DEF RoadOK, DeliveryTypeOK, AdvanceOrder, Answers

\* Where the moves of delivery-service start from.
LEMMA OnwardFrom ==
    ASSUME NEW s, NEW to \in Onward(s)
    PROVE  /\ to = "DRIVER_ASSIGNED" => s = "PREPARING"
           /\ to = "PICKED_UP" => s = "DRIVER_ASSIGNED"
           /\ to = "ON_DELIVERY" => s = "PICKED_UP"
           /\ to = "DELIVERED" => s = "ON_DELIVERY"
           /\ to = "COMPLETED" => s = "DELIVERED"
<1>1. s \in {"PREPARING", "DRIVER_ASSIGNED", "PICKED_UP", "ON_DELIVERY", "DELIVERED"}
  BY DEF Onward
<1> QED
  BY <1>1 DEF Onward

\* What order-service knows of a delivery that nobody is cancelling.
OnTrack(o) ==
    /\ delivery[o].status = "ON_DELIVERY" => order[o] = "ON_DELIVERY"
    /\ delivery[o].status = "DELIVERED" =>
          order[o] \in {"ON_DELIVERY", "DELIVERED", "COMPLETED"} /\ ~InPlay(o)

LEMMA OnTheRoad ==
    ASSUME NEW o, StandsAt(o), NEW w \in Workers, On(w, o), job[w].op # "cancel"
    PROVE  OnTrack(o)
<1>1. ASSUME NEW v \in Workers, On(v, o)
      PROVE  /\ job[v].op # "cancel"
             /\ Returning(job[v]) => delivery[o].status # "DELIVERED"
  BY <1>1 DEF StandsAt, JobStands, Alone, Outcome
<1> QED
  BY <1>1 DEF StandsAt, OrderStands, OnTrack, InPlay, Active

\* One row is rewritten.
LEMMA RowsElsewhere ==
    ASSUME RoadOK, NEW o \in Orders, NEW r, delivery' = [delivery EXCEPT ![o] = r]
    PROVE  /\ delivery'[o] = r
           /\ \A p \in Orders : p # o => delivery'[p] = delivery[p]
BY DEF RoadOK, DeliveryTypeOK

LEMMA EndedRow ==
    ASSUME RoadOK, NEW o \in Orders, NEW status, NEW hour, delivery' = Ended(o, status, hour)
    PROVE  /\ delivery'[o].status = status
           /\ \A p \in Orders : p # o => delivery'[p] = delivery[p]
<1> DEFINE r == [delivery[o] EXCEPT !.status = status, !.dated = hour]
<1>1. delivery[o] \in Row
  BY DEF RoadOK, DeliveryTypeOK
<1>2. delivery' = [delivery EXCEPT ![o] = r] /\ r.status = status
  BY <1>1 DEF RoadOK, DeliveryTypeOK, Ended, Row
<1> HIDE DEF r
<1> QED
  BY <1>2, RowsElsewhere

LEMMA AssignWriteStands ==
    ASSUME RoadInv, StandInv, NEW w \in Workers, NEW o, job[w].o = o, AssignWrite(w)
    PROVE  StandInv'
<1> DEFINE r == [delivery[o] EXCEPT !.status = "ASSIGNED", !.driver = job[w].driver, !.since = shift]
<1>1. On(w, o) /\ job[w].op = "assign" /\ job[w].at = "write"
  BY DEF AssignWrite, At, On, Ops
<1>2. o \in Orders
  BY <1>1, OnFits
<1>3. delivery[o].status = "NONE" /\ Alone(w, o) /\ job[w].seen = "NONE"
  BY <1>1, <1>2 DEF StandInv, StandsAt, JobStands
<1>4. UNCHANGED <<order, assigns>>
  BY DEF AssignWrite
<1>5. CASE UnderCap(w) /\ MayMove(w)
  <2>1. delivery[o] \in Row
    BY <1>2 DEF RoadInv, RoadOK, DeliveryTypeOK
  <2>2. delivery' = [delivery EXCEPT ![o] = r]
    BY <1>2, <1>3, <1>5, <2>1 DEF AssignWrite, RoadInv, RoadOK, DeliveryTypeOK, Row
  <2>3. r.status = "ASSIGNED"
    BY <2>1 DEF Row
  <2> HIDE DEF r
  <2>4. delivery'[o].status = "ASSIGNED" /\ \A p \in Orders : p # o => delivery'[p] = delivery[p]
    BY <1>2, <2>2, <2>3, RowsElsewhere DEF RoadInv
  <2>5. GoesOn(w, o) /\ job'[w].at = "order"
    BY <1>1, <1>5, GotoGoesOn DEF AssignWrite, Steps
  <2>6. On(w, o)' => JobStands(w, o)'
    BY <1>1, <1>3, <2>5 DEF GoesOn, On, JobStands, Returning, Closing, GivingUp
  <2>7. MovesAlone(w, o)
    BY <1>2, <1>3, <1>4, <2>4, <2>5, <2>6 DEF MovesAlone, TouchesOnly
  <2> QED
    BY <1>2, <2>7, MovesAloneStands
<1>6. CASE Done(w) /\ UNCHANGED delivery
  <2>1. GoesOn(w, o) /\ ~On(w, o)'
    BY <1>1, <1>6, DoneGoesOn DEF On
  <2>2. MovesAlone(w, o)
    BY <1>2, <1>3, <1>4, <1>6, <2>1 DEF MovesAlone, TouchesOnly
  <2> QED
    BY <1>2, <2>2, MovesAloneStands
<1> QED
  BY <1>5, <1>6 DEF AssignWrite

LEMMA AssignOrderStands ==
    ASSUME RoadInv, StandInv, NEW w \in Workers, NEW o, job[w].o = o, AssignOrder(w)
    PROVE  StandInv'
<1>1. On(w, o) /\ job[w].op = "assign"
  BY DEF AssignOrder, At, On, Ops
<1>2. o \in Orders
  BY <1>1, OnFits
<1>3. StandsAt(o) /\ job[w].seen = "NONE"
  BY <1>1, <1>2 DEF StandInv, StandsAt, JobStands
<1>4. UNCHANGED <<delivery, assigns>>
  BY DEF AssignOrder
<1>5. /\ \A p \in Orders : p # o => order'[p] = order[p]
      /\ order'[o] = order[o] \/ order[o] = "PREPARING"
  BY <1>2, AnswerMoves, OnwardFrom DEF AssignOrder, RoadInv
<1>6. GoesOn(w, o) /\ (job'[w] = NoJob \/ job'[w].at = "undo")
  BY <1>1, DoneGoesOn, GotoGoesOn DEF AssignOrder, Steps
<1>7. On(w, o)' => JobStands(w, o)' /\ ~Returning(job'[w])
  BY <1>1, <1>3, <1>6 DEF GoesOn, On, JobStands, Returning, Closing, GivingUp
<1>8. OnTrack(o)
  BY <1>1, <1>3, OnTheRoad
<1>9. MovesOn(w, o)
  BY <1>1, <1>2, <1>4, <1>5, <1>6, <1>7, <1>8 DEF MovesOn, TouchesOnly, OnTrack, InPlay
<1> QED
  BY <1>2, <1>9, MovesOnStands

LEMMA AssignUndoStands ==
    ASSUME RoadInv, StandInv, NEW w \in Workers, NEW o, job[w].o = o, AssignUndo(w)
    PROVE  StandInv'
<1>1. On(w, o) /\ job[w].op = "assign"
  BY DEF AssignUndo, At, On, Ops
<1>2. o \in Orders
  BY <1>1, OnFits
<1>3. StandsAt(o) /\ job[w].seen = "NONE"
  BY <1>1, <1>2 DEF StandInv, StandsAt, JobStands
<1>4. UNCHANGED <<order, assigns>>
  BY DEF AssignUndo
<1>5. /\ \A p \in Orders : p # o => delivery'[p].status = delivery[p].status
      /\ \/ delivery'[o].status = delivery[o].status
         \/ delivery[o].status = "ASSIGNED" /\ delivery'[o].status = "NONE"
  <2>1. \/ UNCHANGED delivery
        \/ delivery[o].status = "ASSIGNED" /\ delivery' = [delivery EXCEPT ![o] = NoRow]
    BY <1>3 DEF AssignUndo
  <2> QED
    BY <1>2, <2>1, RowsElsewhere DEF RoadInv, NoRow
<1>6. GoesOn(w, o) /\ ~On(w, o)'
  BY <1>1, DoneGoesOn DEF AssignUndo, On
<1>7. OnTrack(o)
  BY <1>1, <1>3, OnTheRoad
<1>8. MovesOn(w, o)
  BY <1>1, <1>2, <1>4, <1>5, <1>6, <1>7 DEF MovesOn, TouchesOnly, OnTrack, InPlay, Active
<1> QED
  BY <1>2, <1>8, MovesOnStands

LEMMA AdvanceStands ==
    ASSUME RoadInv, StandInv, NEW w \in Workers, NEW o, job[w].o = o, AdvanceTheOrder(w)
    PROVE  StandInv'
<1>1. On(w, o) /\ job[w].op = "advance"
  BY DEF AdvanceTheOrder, At, On, Ops
<1>2. o \in Orders /\ job[w].seen \in {"ASSIGNED", "PICKED_UP"}
  BY <1>1, OnFits DEF JobFits
<1>3. StandsAt(o)
  BY <1>2 DEF StandInv
<1>4. UNCHANGED <<delivery, assigns>>
  BY DEF AdvanceTheOrder
<1>5. PICK answer \in Answers :
         /\ AdvanceOrder(o, Further(job[w].seen), answer)
         /\ IF answer = "ok" THEN Goto(w, "write") ELSE Done(w)
  BY DEF AdvanceTheOrder
<1>6. /\ \A p \in Orders : p # o => order'[p] = order[p]
      /\ order'[o] = order[o] \/ order[o] \in {"DRIVER_ASSIGNED", "PICKED_UP"}
      /\ answer = "ok" => order'[o] = Further(job[w].seen)
  BY <1>2, <1>5, AnswerMoves, OnwardFrom DEF Further, RoadInv
<1>7. GoesOn(w, o) /\ (job'[w] = NoJob \/ (job'[w].at = "write" /\ answer = "ok"))
  BY <1>1, <1>5, DoneGoesOn, GotoGoesOn DEF Steps
<1>8. On(w, o)' => JobStands(w, o)' /\ ~Returning(job'[w])
  BY <1>1, <1>6, <1>7 DEF GoesOn, On, JobStands, Returning, Closing, GivingUp, Further
<1>9. OnTrack(o)
  BY <1>1, <1>3, OnTheRoad
<1>10. MovesOn(w, o)
  BY <1>1, <1>2, <1>4, <1>6, <1>7, <1>8, <1>9 DEF MovesOn, TouchesOnly, OnTrack, InPlay
<1> QED
  BY <1>2, <1>10, MovesOnStands

LEMMA AdvanceWriteStands ==
    ASSUME RoadInv, StandInv, NEW w \in Workers, NEW o, job[w].o = o, AdvanceWrite(w)
    PROVE  StandInv'
<1> DEFINE r == [delivery[o] EXCEPT !.status = Further(job[w].seen)]
<1>1. On(w, o) /\ job[w].op = "advance" /\ job[w].at = "write"
  BY DEF AdvanceWrite, At, On, Ops
<1>2. o \in Orders /\ job[w].seen \in {"ASSIGNED", "PICKED_UP"}
  BY <1>1, OnFits DEF JobFits
<1>3. StandsAt(o) /\ (job[w].seen = "PICKED_UP" /\ InPlay(o) => order[o] = "ON_DELIVERY")
  BY <1>1, <1>2 DEF StandInv, StandsAt, JobStands
<1>4. UNCHANGED <<order, assigns>>
  BY DEF AdvanceWrite
<1>5. /\ \A p \in Orders : p # o => delivery'[p].status = delivery[p].status
      /\ \/ delivery'[o].status = delivery[o].status
         \/ /\ delivery[o].status = job[w].seen
            /\ delivery'[o].status = Further(job[w].seen)
  <2>1. CASE MayMove(w)
    <3>1. delivery[o] \in Row
      BY <1>2 DEF RoadInv, RoadOK, DeliveryTypeOK
    <3>2. delivery' = [delivery EXCEPT ![o] = r]
      BY <1>2, <2>1 DEF AdvanceWrite, RoadInv, RoadOK, DeliveryTypeOK
    <3>3. r.status = Further(job[w].seen)
      BY <3>1 DEF Row
    <3> HIDE DEF r
    <3> QED
      BY <1>2, <2>1, <3>2, <3>3, RowsElsewhere DEF RoadInv, MayMove
  <2>2. CASE ~MayMove(w)
    BY <2>2 DEF AdvanceWrite
  <2> QED
    BY <2>1, <2>2
<1>6. GoesOn(w, o) /\ ~On(w, o)'
  BY <1>1, DoneGoesOn DEF AdvanceWrite, On
<1>7. OnTrack(o)
  BY <1>1, <1>3, OnTheRoad
<1>8. MovesOn(w, o)
  BY <1>1, <1>2, <1>3, <1>4, <1>5, <1>6, <1>7 DEF MovesOn, TouchesOnly, OnTrack, InPlay, Active, Further
<1> QED
  BY <1>2, <1>8, MovesOnStands

LEMMA CompleteWithProofStands ==
    ASSUME RoadInv, StandInv, NEW w \in Workers, NEW o, job[w].o = o, CompleteWithProof(w)
    PROVE  StandInv'
<1>1. On(w, o) /\ job[w].op = "complete" /\ job[w].at = "write"
  BY DEF CompleteWithProof, At, On, Ops
<1>2. o \in Orders /\ job[w].seen = "ON_DELIVERY"
  BY <1>1, OnFits DEF JobFits
<1>3. StandsAt(o)
  BY <1>2 DEF StandInv
<1>4. OnTrack(o)
  BY <1>1, <1>3, OnTheRoad
<1>5. UNCHANGED <<order, assigns>>
  BY DEF CompleteWithProof
<1>6. CASE MayMove(w)
  <2>1. /\ delivery[o].status = "ON_DELIVERY" /\ delivery'[o].status = "DELIVERED"
        /\ \A p \in Orders : p # o => delivery'[p] = delivery[p]
    BY <1>2, <1>6, EndedRow DEF CompleteWithProof, RoadInv, MayMove
  <2>2. GoesOn(w, o) /\ job'[w].at = "delivered"
    BY <1>1, <1>6, GotoGoesOn DEF CompleteWithProof, Steps
  <2>3. On(w, o)' => JobStands(w, o)' /\ ~Returning(job'[w])
    BY <1>1, <2>1, <2>2 DEF GoesOn, On, JobStands, Returning, Closing, GivingUp
  <2>4. MovesOn(w, o)
    BY <1>1, <1>4, <1>5, <2>1, <2>2, <2>3 DEF MovesOn, TouchesOnly, OnTrack, Active
  <2> QED
    BY <1>2, <2>4, MovesOnStands
<1>7. CASE ~MayMove(w)
  <2>1. GoesOn(w, o) /\ ~On(w, o)' /\ UNCHANGED delivery
    BY <1>1, <1>7, DoneGoesOn DEF CompleteWithProof, On
  <2>2. MovesOn(w, o)
    BY <1>1, <1>4, <1>5, <2>1 DEF MovesOn, TouchesOnly, OnTrack, InPlay
  <2> QED
    BY <1>2, <2>2, MovesOnStands
<1> QED
  BY <1>6, <1>7

LEMMA CompleteOrderStands ==
    ASSUME RoadInv, StandInv, NEW w \in Workers, NEW o, job[w].o = o, CompleteOrder(w)
    PROVE  StandInv'
<1>1. On(w, o) /\ job[w].at \in {"delivered", "completed"}
  BY JobKinds DEF CompleteOrder, On, Job, Steps, RoadInv
<1>2. o \in Orders /\ job[w].op = "complete"
  BY <1>1, OnFits DEF JobFits, Job, Ops, GivingUp
<1>3. StandsAt(o) /\ delivery[o].status = "DELIVERED"
  BY <1>1, <1>2 DEF StandInv, StandsAt, JobStands
<1>4. OnTrack(o)
  BY <1>1, <1>2, <1>3, OnTheRoad
<1>5. UNCHANGED <<delivery, assigns>>
  BY DEF CompleteOrder
<1>6. /\ \A p \in Orders : p # o => order'[p] = order[p]
      /\ order'[o] = order[o] \/ order'[o] \in {"DELIVERED", "COMPLETED"}
  BY <1>2, AnswerMoves DEF CompleteOrder, RoadInv
<1>7. GoesOn(w, o) /\ (job'[w] = NoJob \/ job'[w].at = "completed")
  BY <1>1, DoneGoesOn, GotoGoesOn DEF CompleteOrder, Steps
<1>8. On(w, o)' => JobStands(w, o)' /\ ~Returning(job'[w])
  BY <1>2, <1>3, <1>5, <1>7 DEF GoesOn, On, JobStands, Returning, Closing, GivingUp
<1>9. MovesOn(w, o)
  BY <1>2, <1>3, <1>4, <1>5, <1>6, <1>7, <1>8 DEF MovesOn, TouchesOnly, OnTrack, Active
<1> QED
  BY <1>2, <1>9, MovesOnStands

\* Of the requests that give an order up only one may be putting it back.
LEMMA OneReturns ==
    ASSUME NEW o, StandsAt(o), NEW w \in Workers, GoesOn(w, o),
           delivery[o].status \in Active \/ job[w].op \in GivingUp,
           delivery'[o].status \notin Active, On(w, o)' => ~Returning(job'[w])
    PROVE  ~InPlay(o)'
<1> SUFFICES ASSUME NEW v \in Workers, On(v, o)', Returning(job'[v])
             PROVE  FALSE
  BY DEF InPlay
<1>1. v # w /\ On(v, o) /\ job'[v] = job[v] /\ On(w, o)
  BY DEF GoesOn, On
<1>2. JobStands(v, o) /\ Returning(job[v])
  BY <1>1 DEF StandsAt
<1>3. delivery[o].status = Outcome(job[v].op) /\ job[v].op \in GivingUp
  BY <1>2 DEF JobStands, Returning
<1>4. job[w].op \in GivingUp
  BY <1>3 DEF Outcome, Active
<1> QED
  BY <1>1, <1>2, <1>3, <1>4 DEF JobStands

\* There stays one that gives the order up.
LEMMA OneGivesUp ==
    ASSUME NEW o, StandsAt(o), NEW w \in Workers, GoesOn(w, o), job[w].op \in GivingUp
    PROVE  \A v \in Workers : On(v, o)' /\ job'[v].op \in GivingUp => v = w
<1>1. On(w, o) /\ \A v \in Workers : v # w /\ On(v, o)' => On(v, o) /\ job'[v] = job[v]
  BY DEF GoesOn, On
<1>2. \A v \in Workers : On(v, o) /\ job[v].op \in GivingUp => v = w
  BY <1>1 DEF StandsAt, JobStands
<1> QED
  BY <1>1, <1>2

\* The step of a request that has given an order up, and goes on.
GoesBack(w, o) ==
    /\ GoesOn(w, o) /\ job[w].op \in GivingUp
    /\ job'[w].at \in {"reverse", "order", "putback"}
    /\ delivery'[o].status \in {"FAILED", "RESCHEDULED"}
    /\ Returning(job'[w]) =>
          /\ delivery'[o].status = Outcome(job[w].op)
          /\ job[w].seen = "ON_DELIVERY" => order'[o] = "ON_DELIVERY"

LEMMA GiverStands ==
    ASSUME NEW o \in Orders, StandsAt(o), NEW w \in Workers, GoesBack(w, o)
    PROVE  On(w, o)' => JobStands(w, o)'
<1> SUFFICES ASSUME On(w, o)'
             PROVE  JobStands(w, o)'
  OBVIOUS
<1>1. job'[w].op = job[w].op /\ job'[w].seen = job[w].seen
  BY DEF GoesOn, On, GoesBack
<1>2. Closing(job'[w]) => ~Returning(job'[w])
  BY DEF Closing, Returning
<1>3. Closing(job'[w]) => ~InPlay(o)'
  BY <1>2, OneReturns DEF Active, GoesBack
<1>4. \A v \in Workers : On(v, o)' /\ job'[v].op \in GivingUp => v = w
  BY OneGivesUp DEF GoesBack
<1> QED
  BY <1>1, <1>3, <1>4 DEF JobStands, GivingUp, GoesBack

LEMMA GiveUpWriteStands ==
    ASSUME RoadInv, StandInv, NEW w \in Workers, NEW o, job[w].o = o, GiveUpWrite(w)
    PROVE  StandInv'
<1> DEFINE op == job[w].op
<1>1. On(w, o) /\ op \in GivingUp /\ job[w].at = "write"
  BY DEF GiveUpWrite, On, Ops, GivingUp
<1>2. o \in Orders /\ job[w] \in Job /\ job[w].seen \in Active /\ ~job[w].replay
  BY <1>1, OnFits DEF JobFits
<1>3. StandsAt(o)
  BY <1>2 DEF StandInv
<1>4. OnTrack(o) /\ op # "cancel"
  BY <1>1, <1>3, OnTheRoad DEF GivingUp
<1>5. UNCHANGED <<order, assigns>>
  BY DEF GiveUpWrite
<1>6. CASE MayMove(w)
  <2> DEFINE ended == Ended(o, Outcome(op), Now(o))
  <2>1. ended \in [Orders -> Row] /\ ended[o].status = Outcome(op)
        /\ \A p \in Orders : p # o => ended[p] = delivery[p]
    <3>1. Outcome(op) \in DeliveryStatuses
      BY DEF Outcome, DeliveryStatuses
    <3>2. ended \in [Orders -> Row]
      <4>1. Now(o) \in Hours
        BY <1>2, <1>6, HourTyping DEF RoadInv, MayMove, Active
      <4> QED
        BY <1>2, <3>1, <4>1, EndedTyping DEF RoadInv
    <3>3. delivery[o] \in Row
      BY <1>2 DEF RoadInv, RoadOK, DeliveryTypeOK
    <3> QED
      BY <1>2, <3>2, <3>3 DEF RoadInv, RoadOK, DeliveryTypeOK, Ended, Row
  <2>2. delivery' = [ended EXCEPT ![o].slot = @ \/ op = "reschedule"]
    BY <1>6 DEF GiveUpWrite
  <2>3. /\ delivery'[o].status = Outcome(op)
        /\ \A p \in Orders : p # o => delivery'[p] = delivery[p]
    <3> HIDE DEF ended
    <3> QED
      BY <1>2, <2>1, <2>2 DEF Row
  <2>4. /\ GoesOn(w, o) /\ job'[w].at \in {"reverse", "order"}
        /\ job'[w].replay = job[w].replay
    BY <1>1, <1>6, GotoGoesOn DEF GiveUpWrite, Steps
  <2>5. delivery[o].status = job[w].seen
    BY <1>6 DEF MayMove
  <2>6. On(w, o)' => JobStands(w, o)'
    <3>1. GoesBack(w, o)
      BY <1>1, <1>4, <1>5, <2>3, <2>4, <2>5 DEF GoesBack, Outcome, OnTrack
    <3> QED
      BY <1>2, <1>3, <3>1, GiverStands
  <2>7. MovesOn(w, o)
    BY <1>2, <1>4, <1>5, <2>3, <2>4, <2>5, <2>6
       DEF MovesOn, TouchesOnly, OnTrack, InPlay, Outcome, Active
  <2> QED
    BY <1>2, <2>7, MovesOnStands
<1>7. CASE /\ ~MayMove(w) /\ Replays(op, o) /\ UNCHANGED delivery
           /\ job' = [job EXCEPT ![w].at = "reverse", ![w].replay = TRUE]
  <2> DEFINE j == [job[w] EXCEPT !.at = "reverse", !.replay = TRUE]
  <2>1. /\ j.op = op /\ j.o = o /\ j.seen = job[w].seen /\ j.at = "reverse" /\ j.replay
        /\ \A v \in Workers : job'[v] = IF v = w THEN j ELSE job[v]
    BY <1>2, <1>7 DEF RoadInv, RoadOK, DeliveryTypeOK, Job
  <2>2. GoesOn(w, o) /\ job'[w].at = "reverse" /\ job'[w].replay
    <3> HIDE DEF j
    <3> QED
      BY <1>1, <2>1 DEF GoesOn
  <2>3. delivery[o].status = Outcome(op) /\ ~Returning(job'[w])
    BY <1>7, <2>2 DEF Replays, Returning
  <2>4. On(w, o)' => JobStands(w, o)'
    <3>1. GoesBack(w, o)
      BY <1>1, <1>7, <2>2, <2>3 DEF GoesBack, Outcome
    <3> QED
      BY <1>2, <1>3, <3>1, GiverStands
  <2>5. MovesOn(w, o)
    BY <1>4, <1>5, <1>7, <2>2, <2>3, <2>4 DEF MovesOn, TouchesOnly, OnTrack, Outcome, Active
  <2> QED
    BY <1>2, <2>5, MovesOnStands
<1>8. CASE Done(w) /\ UNCHANGED delivery
  <2>1. GoesOn(w, o) /\ ~On(w, o)'
    BY <1>1, <1>8, DoneGoesOn DEF On
  <2>2. MovesOn(w, o)
    BY <1>4, <1>5, <1>8, <2>1 DEF MovesOn, TouchesOnly, OnTrack, InPlay
  <2> QED
    BY <1>2, <2>2, MovesOnStands
<1> QED
  BY <1>6, <1>7, <1>8 DEF GiveUpWrite

LEMMA ReverseCashStands ==
    ASSUME RoadInv, StandInv, NEW w \in Workers, NEW o, job[w].o = o, ReverseCash(w)
    PROVE  StandInv'
<1>1. On(w, o) /\ job[w].at = "reverse"
  BY JobKinds DEF ReverseCash, On, Job, Steps, RoadInv
<1>2. o \in Orders /\ job[w].op \in GivingUp /\ job[w].op # "cancel"
  BY <1>1, OnFits DEF JobFits, Job, Ops, GivingUp
<1>3. StandsAt(o) /\ JobStands(w, o)
  BY <1>1, <1>2 DEF StandInv, StandsAt
<1>4. OnTrack(o)
  BY <1>1, <1>2, <1>3, OnTheRoad
<1>5. UNCHANGED <<order, delivery, assigns>>
  BY DEF ReverseCash
<1>6. Returning(job[w]) \/ Closing(job[w])
  BY <1>1, <1>2 DEF Returning, Closing
<1>7. delivery[o].status \in {"FAILED", "RESCHEDULED"}
  BY <1>3, <1>6 DEF JobStands, Outcome
<1>8. /\ GoesOn(w, o)
      /\ \/ job'[w] = NoJob
         \/ job'[w].at = "order"
         \/ job'[w].at = "putback" /\ Returning(job[w])
    <2>1. Done(w) \/ Goto(w, "order") \/ (~job[w].replay /\ Goto(w, "putback"))
      BY DEF ReverseCash
    <2>2. ~job[w].replay => Returning(job[w])
      BY <1>1, <1>2 DEF Returning
    <2> QED
      BY <1>1, <2>1, <2>2, DoneGoesOn, GotoGoesOn DEF Steps
<1>9. On(w, o)' => (Returning(job'[w]) => Returning(job[w]))
  BY <1>8 DEF On, Returning
<1>10. On(w, o)' => JobStands(w, o)'
  <2> SUFFICES ASSUME On(w, o)'
               PROVE  JobStands(w, o)'
    OBVIOUS
  <2>1. job'[w].at \in {"order", "putback"}
    BY <1>8 DEF On
  <2>2. GoesBack(w, o)
    BY <1>2, <1>3, <1>5, <1>7, <1>8, <1>9, <2>1 DEF GoesBack, JobStands
  <2> QED
    BY <1>2, <1>3, <2>2, GiverStands
<1>11. MovesOn(w, o)
  BY <1>1, <1>2, <1>4, <1>5, <1>7, <1>8, <1>9, <1>10
     DEF MovesOn, TouchesOnly, OnTrack, InPlay, Active
<1> QED
  BY <1>2, <1>11, MovesOnStands

LEMMA PutBackStands ==
    ASSUME RoadInv, StandInv, NEW w \in Workers, NEW o, job[w].o = o, PutBack(w)
    PROVE  StandInv'
<1> DEFINE r == [delivery[o] EXCEPT !.status = job[w].seen, !.slot = @ /\ job[w].op = "fail"]
<1>1. On(w, o) /\ job[w].at = "putback"
  BY JobKinds DEF PutBack, On, Job, Steps, RoadInv
<1>2. o \in Orders /\ job[w].op \in GivingUp /\ ~job[w].replay /\ job[w].seen \in Active
  BY <1>1, OnFits DEF JobFits, Job, Ops, GivingUp
<1>3. StandsAt(o) /\ JobStands(w, o) /\ Returning(job[w]) /\ job[w].op # "cancel"
  BY <1>1, <1>2 DEF StandInv, StandsAt, Returning, GivingUp
<1>4. OnTrack(o)
  BY <1>1, <1>3, OnTheRoad
<1>5. UNCHANGED <<order, assigns>>
  BY DEF PutBack
<1>6. delivery[o].status = Outcome(job[w].op)
      /\ (job[w].seen = "ON_DELIVERY" => order[o] = "ON_DELIVERY")
  BY <1>3 DEF JobStands
<1>7. delivery'[o].status = job[w].seen /\ \A p \in Orders : p # o => delivery'[p] = delivery[p]
  <2>1. delivery[o] \in Row
    BY <1>2 DEF RoadInv, RoadOK, DeliveryTypeOK
  <2>2. delivery' = [delivery EXCEPT ![o] = r]
    BY <1>2, <1>6, <2>1 DEF PutBack, RoadInv, RoadOK, DeliveryTypeOK, Row
  <2>3. r.status = job[w].seen
    BY <2>1 DEF Row
  <2> HIDE DEF r
  <2> QED
    BY <1>2, <2>2, <2>3, RowsElsewhere DEF RoadInv
<1>8. GoesOn(w, o) /\ ~On(w, o)'
  BY <1>1, DoneGoesOn DEF PutBack, On
<1>9. InPlay(o)
  BY <1>1, <1>3 DEF InPlay
<1>10. MovesOn(w, o)
  BY <1>2, <1>3, <1>5, <1>6, <1>7, <1>8, <1>9 DEF MovesOn, TouchesOnly, Active
<1> QED
  BY <1>2, <1>10, MovesOnStands

LEMMA CloseOrderStands ==
    ASSUME RoadInv, StandInv, NEW w \in Workers, NEW o, job[w].o = o, CloseOrder(w)
    PROVE  StandInv'
<1>1. /\ On(w, o) /\ job[w].op \in GivingUp \cup {"release", "cancel"}
      /\ job[w].at = "order"
  BY DEF CloseOrder, On, Ops, GivingUp
<1>2. o \in Orders /\ (job[w].op = "cancel" => job[w].seen \in Active)
  BY <1>1, OnFits DEF JobFits
<1>3. StandsAt(o) /\ JobStands(w, o)
  BY <1>1, <1>2 DEF StandInv, StandsAt
<1>4. UNCHANGED <<delivery, assigns>>
  BY DEF CloseOrder
<1>5. \A p \in Orders : p # o => order'[p] = order[p]
  BY <1>2, AnswerMoves DEF CloseOrder, RoadInv
<1>6. CASE job[w].op = "cancel"
  <2>1. Alone(w, o) /\ delivery[o].status = job[w].seen
    BY <1>3, <1>6 DEF JobStands
  <2>2. GoesOn(w, o) /\ job'[w].at = "write" /\ job'[w] # NoJob
    BY <1>1, <1>6, GotoGoesOn DEF CloseOrder, Steps
  <2>3. On(w, o)' /\ job'[w].op = "cancel"
    BY <1>6, <2>2 DEF GoesOn, On
  <2>4. Alone(w, o)'
    BY <2>1, <2>2 DEF Alone, GoesOn, On
  <2>5. JobStands(w, o)'
    BY <1>4, <2>1, <2>2, <2>3, <2>4
       DEF GoesOn, On, JobStands, Returning, Closing, GivingUp
  <2>6. MovesAlone(w, o)
    BY <1>2, <1>4, <1>5, <1>6, <2>1, <2>2, <2>3, <2>5 DEF MovesAlone, TouchesOnly, Active
  <2> QED
    BY <1>2, <2>6, MovesAloneStands
<1>7. CASE job[w].op # "cancel"
  <2>1. delivery[o].status \in {"FAILED", "RESCHEDULED"} /\ ~InPlay(o)
    BY <1>1, <1>3, <1>7 DEF JobStands, Closing
  <2>2. GoesOn(w, o) /\ ~On(w, o)'
    BY <1>1, <1>7, DoneGoesOn DEF CloseOrder, On
  <2>3. MovesOn(w, o)
    BY <1>4, <1>5, <1>7, <2>1, <2>2 DEF MovesOn, TouchesOnly, Active
  <2> QED
    BY <1>2, <2>3, MovesOnStands
<1> QED
  BY <1>6, <1>7

LEMMA TakeOffWriteStands ==
    ASSUME RoadInv, StandInv, NEW w \in Workers, NEW o, job[w].o = o, TakeOffWrite(w)
    PROVE  StandInv'
<1>1. On(w, o) /\ job[w].op \in {"release", "cancel"} /\ job[w].at = "write"
  BY DEF TakeOffWrite, On, Ops
<1>2. o \in Orders /\ job[w].seen \in Active
  BY <1>1, OnFits DEF JobFits
<1>3. StandsAt(o) /\ JobStands(w, o)
  BY <1>1, <1>2 DEF StandInv, StandsAt
<1>4. UNCHANGED <<order, assigns>>
  BY DEF TakeOffWrite
<1>5. CASE job[w].op = "cancel"
  <2>1. Alone(w, o) /\ MayMove(w)
    BY <1>3, <1>5 DEF JobStands, MayMove
  <2>2. GoesOn(w, o) /\ ~On(w, o)'
    BY <1>1, <1>5, DoneGoesOn DEF TakeOffWrite, On
  <2>3. delivery'[o].status = "FAILED" /\ \A p \in Orders : p # o => delivery'[p] = delivery[p]
    BY <1>2, <1>5, <2>1, EndedRow DEF TakeOffWrite, RoadInv
  <2>4. MovesAlone(w, o)
    BY <1>4, <2>1, <2>2, <2>3 DEF MovesAlone, TouchesOnly
  <2> QED
    BY <1>2, <2>4, MovesAloneStands
<1>6. CASE job[w].op = "release" /\ MayMove(w)
  <2>1. /\ delivery'[o].status = "RESCHEDULED" /\ delivery[o].status \in Active
        /\ \A p \in Orders : p # o => delivery'[p] = delivery[p]
    BY <1>2, <1>6, EndedRow DEF TakeOffWrite, RoadInv, MayMove
  <2>2. GoesOn(w, o) /\ job'[w].at = "order"
    BY <1>1, <1>6, GotoGoesOn DEF TakeOffWrite, Steps
  <2>3. On(w, o)' => job'[w].op = "release" /\ ~Returning(job'[w])
    BY <1>6, <2>2 DEF GoesOn, On, Returning
  <2>4. ~InPlay(o)'
    BY <1>3, <2>1, <2>2, <2>3, OneReturns DEF Active
  <2>5. On(w, o)' => JobStands(w, o)'
    BY <2>1, <2>2, <2>3, <2>4 DEF JobStands, GivingUp
  <2>6. MovesOn(w, o)
    BY <1>4, <1>6, <2>1, <2>2, <2>3, <2>5 DEF MovesOn, TouchesOnly, Active
  <2> QED
    BY <1>2, <2>6, MovesOnStands
<1>7. CASE job[w].op = "release" /\ ~MayMove(w)
  <2>1. GoesOn(w, o) /\ ~On(w, o)' /\ UNCHANGED delivery
    BY <1>1, <1>7, DoneGoesOn DEF TakeOffWrite, On
  <2>2. OnTrack(o)
    BY <1>1, <1>3, <1>7, OnTheRoad
  <2>3. MovesOn(w, o)
    BY <1>4, <1>7, <2>1, <2>2 DEF MovesOn, TouchesOnly, OnTrack, InPlay
  <2> QED
    BY <1>2, <2>3, MovesOnStands
<1> QED
  BY <1>1, <1>5, <1>6, <1>7

\* What the shut windows keep a new request on an order from meeting.
LEMMA Meets ==
    ASSUME RoadInv, "cancel" \notin Windows, "replay" \notin Windows,
           NEW op, NEW o, NEW replay \in BOOLEAN, Unhurried(op, o, replay),
           NEW v \in Workers, On(v, o)
    PROVE  /\ op # "cancel" /\ job[v].op # "cancel"
           /\ ~replay
           /\ ~(op \in GivingUp /\ job[v].op \in GivingUp)
<1>1. WorksOn(v, o)
  BY OnFits
<1> QED
  BY <1>1 DEF Unhurried

\* A request j begins on an order that has been assigned.
Begins(w, o, j) ==
    /\ job[w] = NoJob /\ Begin(w, j)
    /\ j \in Job /\ j.o = o /\ j.seen = delivery[o].status
    /\ Unhurried(j.op, o, j.replay)
    /\ delivery[o].status # "NONE" /\ j.op # "assign"
    /\ j.at \notin {"putback", "delivered", "completed"}
    /\ j.op = "advance" => j.at # "write"
    /\ j.replay <=> j.at = "reverse"
    /\ j.at = "order" => j.op \notin GivingUp \cup {"release"}
    /\ j.replay => j.op \in GivingUp /\ delivery[o].status = Outcome(j.op)
    /\ UNCHANGED <<order, delivery, assigns>>

LEMMA BeginStands ==
    ASSUME RoadInv, StandInv, "cancel" \notin Windows, "replay" \notin Windows,
           NEW w \in Workers, NEW o \in Orders, NEW j, Begins(w, o, j)
    PROVE  StandInv'
<1>1. \A v \in Workers : job'[v] = IF v = w THEN j ELSE job[v]
  BY DEF Begins, Begin, RoadInv, RoadOK, DeliveryTypeOK
<1>2. ~On(w, o) /\ job'[w] = j /\ On(w, o)' /\ j \in Job /\ j.o = o
  BY <1>1, NoJobAssumption DEF On, Begins, Job
<1>3. UNCHANGED <<order, delivery, assigns>>
  BY DEF Begins
<1>4. \A v \in Workers : v # w => (On(v, o)' <=> On(v, o)) /\ job'[v] = job[v]
  BY <1>1 DEF On
<1>5. /\ ~Returning(j)
      /\ Closing(j) => j.replay /\ delivery[o].status \in {"FAILED", "RESCHEDULED"}
  BY DEF Begins, Returning, Closing, Outcome
<1>6. InPlay(o)' <=> InPlay(o)
  <2>1. \A v \in Workers : (On(v, o)' /\ Returning(job'[v])) <=> (On(v, o) /\ Returning(job[v]))
    BY <1>2, <1>4, <1>5
  <2> QED
    BY <1>3, <2>1 DEF InPlay
<1>7. \A v \in Workers : On(v, o) =>
         /\ j.op # "cancel" /\ job[v].op # "cancel" /\ ~j.replay
         /\ ~(j.op \in GivingUp /\ job[v].op \in GivingUp)
  <2>1. j.replay \in BOOLEAN
    BY <1>2 DEF Job
  <2> QED
    BY <2>1, Meets DEF Begins
<1>8. StandsAt(o) /\ delivery[o].status # "NONE"
  BY DEF StandInv, Begins
<1>9. OrderStands(o)'
  <2>1. assigns[o] # 0
    BY <1>8 DEF StandsAt, OrderStands
  <2> QED
    BY <1>3, <1>4, <1>7, <1>8, <2>1 DEF StandsAt, OrderStands
<1>10. JobStands(w, o)'
  <2>1. j.op = "cancel" => Alone(w, o)'
    BY <1>4, <1>7 DEF Alone
  <2>2. j.op \in GivingUp => \A v \in Workers : On(v, o)' /\ job'[v].op \in GivingUp => v = w
    BY <1>4, <1>7
  <2>3. Closing(j) => ~InPlay(o)'
    BY <1>5, <1>6, <1>7 DEF InPlay, Active
  <2>4. /\ j.seen = delivery[o].status /\ j.op # "assign"
        /\ j.at \notin {"delivered", "completed"} /\ (j.op = "advance" => j.at # "write")
    BY DEF Begins
  <2> QED
    BY <1>2, <1>3, <1>5, <2>1, <2>2, <2>3, <2>4 DEF JobStands
<1>11. ASSUME NEW v \in Workers, v # w, On(v, o)'
       PROVE  JobStands(v, o)'
  <2>1. On(v, o) /\ job'[v] = job[v] /\ JobStands(v, o)
    BY <1>4, <1>8, <1>11 DEF StandsAt
  <2>2. /\ job[v].op # "cancel"
        /\ ~(j.op \in GivingUp /\ job[v].op \in GivingUp)
        /\ ~(job[v].op = "assign" /\ job[v].at = "write")
    BY <1>7, <1>8, <2>1 DEF JobStands
  <2>3. job[v].op \in GivingUp =>
           \A u \in Workers : On(u, o)' /\ job'[u].op \in GivingUp => u = v
    BY <1>2, <1>4, <2>1, <2>2 DEF JobStands
  <2> QED
    BY <1>3, <1>6, <2>1, <2>2, <2>3 DEF JobStands
<1>12. StandsAt(o)'
  BY <1>9, <1>10, <1>11 DEF StandsAt
<1> SUFFICES ASSUME NEW p \in Orders, p # o
             PROVE  StandsAt(p)'
  BY <1>12 DEF StandInv
<1>13. StandsAt(p) /\ ~On(w, p)'
  BY <1>2 DEF StandInv, On
<1>14. \A v \in Workers : v # w => (On(v, p)' <=> On(v, p)) /\ job'[v] = job[v]
  BY <1>1 DEF On
<1>15. ~On(w, p)
  BY DEF Begins, On
<1> QED
  BY <1>3, <1>13, <1>14, <1>15, LeftAlone

LEMMA RequestStands ==
    ASSUME RoadInv, StandInv, "cancel" \notin Windows, "replay" \notin Windows,
           NEW w \in Workers, NEW o \in Orders,
           \/ Advance(w, o) \/ Complete(w, o)
           \/ \E op \in {"release", "cancel"} : TakeOff(w, o, op)
    PROVE  StandInv'
<1>1. PICK op \in {"advance", "complete", "release", "cancel"}, at \in {"order", "write"} :
         /\ Begin(w, Request(op, o, at)) /\ Unhurried(op, o, FALSE)
         /\ op = "advance" => at = "order"
         /\ op = "release" => at = "write"
         /\ delivery[o].status \in Active
         /\ UNCHANGED <<order, delivery, assigns>>
  BY DEF Advance, Complete, TakeOff, Active
<1> DEFINE j == Request(op, o, at)
<1>2. j \in Job
  BY RequestTyping DEF RoadInv, Ops, Steps
<1>3. j.op = op /\ j.o = o /\ j.at = at /\ j.seen = delivery[o].status /\ j.replay = FALSE
  BY DEF Request
<1>4. Begin(w, j) /\ job[w] = NoJob
  BY <1>1 DEF Begin
<1> HIDE DEF j
<1>5. Begins(w, o, j)
  BY <1>1, <1>2, <1>3, <1>4 DEF Begins, Active, GivingUp
<1> QED
  BY <1>5, BeginStands

LEMMA GiveUpStands ==
    ASSUME RoadInv, StandInv, "cancel" \notin Windows, "replay" \notin Windows,
           NEW w \in Workers, NEW o \in Orders,
           NEW op \in GivingUp, NEW back \in BOOLEAN, GiveUp(w, o, op, back)
    PROVE  StandInv'
<1> DEFINE again == Replays(op, o)
           j == [Request(op, o, StartsAt(op, o)) EXCEPT !.back = back, !.replay = again]
<1>1. again \in BOOLEAN /\ (again => delivery[o].status = Outcome(op))
  BY DEF Replays
<1>2. Request(op, o, StartsAt(op, o)) \in Job
  BY RequestTyping DEF RoadInv, Ops, GivingUp, Steps, StartsAt
<1>3. /\ Begin(w, j) /\ job[w] = NoJob /\ Unhurried(op, o, again)
      /\ delivery[o].status \in Active \/ again
      /\ UNCHANGED <<order, delivery, assigns>>
  BY DEF GiveUp, Begin
<1>4. StartsAt(op, o) = IF again THEN "reverse" ELSE "write"
  BY DEF StartsAt
<1> HIDE DEF again
<1>5. j \in Job
  BY <1>1, <1>2 DEF Job
<1>6. /\ j.op = op /\ j.o = o /\ j.at = StartsAt(op, o) /\ j.seen = delivery[o].status
      /\ j.replay = again
  BY DEF Request
<1> HIDE DEF j
<1>7. Begins(w, o, j)
  <2>1. op # "assign" /\ op # "advance"
    BY DEF GivingUp
  <2>2. delivery[o].status # "NONE"
    BY <1>1, <1>3 DEF Active, Outcome
  <2> QED
    BY <1>1, <1>3, <1>4, <1>5, <1>6, <2>1, <2>2 DEF Begins
<1> QED
  BY <1>7, BeginStands

\* The one dispatch of an order: nothing has happened to it.
LEMMA AssignStands ==
    ASSUME RoadInv, StandInv, MaxAssigns <= 1,
           NEW w \in Workers, NEW o \in Orders, NEW d \in Drivers, Assign(w, o, d)
    PROVE  StandInv'
<1> DEFINE j == [Request("assign", o, "write") EXCEPT !.driver = d]
<1>1. assigns[o] = 0 /\ assigns' = [assigns EXCEPT ![o] = 1]
  <2>1. assigns[o] \in 0..MaxAssigns
    BY DEF RoadInv, RoadOK, DeliveryTypeOK
  <2>2. assigns[o] < MaxAssigns /\ assigns' = [assigns EXCEPT ![o] = @ + 1]
    BY DEF Assign
  <2>3. MaxAssigns \in Nat
    BY DeliveryAssumption
  <2>4. assigns[o] = 0
    BY <2>1, <2>2, <2>3
  <2>5. assigns[o] + 1 = 1
    BY <2>4
  <2> QED
    BY <2>2, <2>4, <2>5, Zenon
<1>2. delivery[o].status = "NONE" /\ \A v \in Workers : ~On(v, o)
  BY <1>1 DEF StandInv, StandsAt, OrderStands
<1>3. j.op = "assign" /\ j.o = o /\ j.at = "write" /\ j.seen = delivery[o].status
  BY DEF Request
<1>4. job[w] = NoJob /\ job' = [job EXCEPT ![w] = j] /\ UNCHANGED <<order, delivery>>
  BY DEF Assign, Begin
<1> HIDE DEF j
<1>5. \A v \in Workers : job'[v] = IF v = w THEN j ELSE job[v]
  BY <1>4 DEF RoadInv, RoadOK, DeliveryTypeOK
<1>6. Alone(w, o)' /\ job'[w] = j
  BY <1>2, <1>5 DEF Alone, On
<1>7. JobStands(w, o)'
  BY <1>2, <1>3, <1>4, <1>6 DEF JobStands, Returning, Closing, GivingUp
<1>8. assigns'[o] = 1
  BY <1>1 DEF RoadInv, RoadOK, DeliveryTypeOK
<1>9. StandsAt(o)'
  BY <1>2, <1>4, <1>6, <1>7, <1>8 DEF StandsAt, OrderStands, Alone
<1> SUFFICES ASSUME NEW p \in Orders, p # o
             PROVE  StandsAt(p)'
  BY <1>9 DEF StandInv
<1>10. StandsAt(p) /\ ~On(w, p) /\ ~On(w, p)'
  BY <1>3, <1>4, <1>6 DEF StandInv, On
<1>11. \A v \in Workers : v # w => (On(v, p)' <=> On(v, p)) /\ job'[v] = job[v]
  BY <1>5 DEF On
<1>12. assigns'[p] = assigns[p]
  BY <1>1 DEF RoadInv, RoadOK, DeliveryTypeOK
<1> QED
  BY <1>4, <1>10, <1>11, <1>12, LeftAlone

\* The orders and their requests stay as they are, or a request is no more.
LEMMA SameStands ==
    ASSUME StandInv, UNCHANGED <<order, delivery, assigns>>,
           \A v \in Workers, o \in Orders : On(v, o)' => On(v, o) /\ job'[v] = job[v],
           \A v \in Workers, o \in Orders : On(v, o) /\ job[v].op = "cancel" => On(v, o)'
    PROVE  StandInv'
BY LeftAlone DEF StandInv

LEMMA CrashStands ==
    ASSUME RoadInv, StandInv, "cancel" \notin Windows, NEW w \in Workers, Crash(w)
    PROVE  StandInv'
<1>1. /\ job[w].op # "cancel" /\ UNCHANGED <<order, delivery, assigns>>
      /\ \A v \in Workers : job'[v] = IF v = w THEN NoJob ELSE job[v]
  BY DEF Crash, Done, RoadInv, RoadOK, DeliveryTypeOK
<1> QED
  BY <1>1, SameStands DEF On

LEMMA ShiftStands ==
    ASSUME RoadInv, StandInv, NEW w \in Workers,
           CheckOutClose(w) \/ \E d \in Drivers : CheckOut(w, d)
    PROVE  StandInv'
<1>1. UNCHANGED <<order, delivery, assigns>>
  BY DEF CheckOutClose, CheckOut
<1>2. \A v \in Workers : v # w => job'[v] = job[v]
  BY DEF CheckOutClose, CheckOut, Begin, Done, RoadInv, RoadOK, DeliveryTypeOK
<1>3. \A o \in Orders : ~On(w, o) /\ ~On(w, o)'
  <2>1. CASE CheckOutClose(w)
    BY <2>1 DEF CheckOutClose, At, Done, On, Ops, RoadInv, RoadOK, DeliveryTypeOK
  <2>2. ASSUME NEW d \in Drivers, CheckOut(w, d)
        PROVE  \A o \in Orders : ~On(w, o) /\ ~On(w, o)'
    <3>1. job[w] = NoJob /\ job'[w].op = "checkOut"
      BY <2>2 DEF CheckOut, Begin, RoadInv, RoadOK, DeliveryTypeOK
    <3> QED
      BY <3>1 DEF On, Ops
  <2> QED
    BY <2>1, <2>2
<1> QED
  BY <1>1, <1>2, <1>3, SameStands DEF On

LEMMA RulingStands ==
    ASSUME RoadInv, StandInv, RulingStep
    PROVE  StandInv'
<1>1. UNCHANGED <<order, delivery, assigns>>
  BY DEF RulingStep, RuleOn, RuleWrite, Claim, Push, Conclude, Rule
<1>2. ASSUME NEW w \in Workers, NEW d \in Drivers, NEW op \in Rulings, NEW s \in Staff,
             Rule(w, d, op, s)
      PROVE  StandInv'
  <2>1. /\ job[w] = NoJob /\ job'[w].op \in Rulings
        /\ \A v \in Workers : v # w => job'[v] = job[v]
    BY <1>2 DEF Rule, Begin, RoadInv, RoadOK, DeliveryTypeOK
  <2>2. \A o \in Orders : ~On(w, o) /\ ~On(w, o)'
    BY <2>1 DEF On, Ops, Rulings
  <2> QED
    BY <1>1, <2>1, <2>2, SameStands DEF On
<1>3. ASSUME NEW w \in Workers, RuleOn(w)
      PROVE  StandInv'
  <2>1. job[w] # NoJob /\ job[w] \in RulingJob
    BY <1>3, JobKinds DEF RoadInv, RuleOn, RuleWrite, Claim, Push, Conclude, At, Rulings
  <2>2. Done(w) \/ \E step \in {"push", "resolve", "release"} : Goto(w, step)
    BY <1>3 DEF RuleOn, RuleWrite, Claim, Push, Conclude
  <2>3. /\ job'[w] = NoJob \/ job'[w].op = job[w].op
        /\ \A v \in Workers : v # w => job'[v] = job[v]
    BY <2>1, <2>2 DEF Done, Goto, RoadInv, RoadOK, DeliveryTypeOK, RulingJob
  <2>4. \A o \in Orders : ~On(w, o) /\ ~On(w, o)'
    BY <2>1, <2>3 DEF On, Ops, Rulings, RulingJob
  <2> QED
    BY <1>1, <2>3, <2>4, SameStands DEF On
<1> QED
  BY <1>2, <1>3 DEF RulingStep

\* Staff cancel at order-service what has not been dispatched, or came back.
LEMMA StaffCancelsStands ==
    ASSUME RoadInv, StandInv, NEW o \in Orders, StaffCancels(o)
    PROVE  StandInv'
<1>1. /\ order[o] = "PREPARING" /\ UNCHANGED <<delivery, assigns, job>>
      /\ \A p \in Orders : p # o => order'[p] = order[p]
  BY DEF StaffCancels, RoadInv, RoadOK, DeliveryTypeOK
<1>2. StandsAt(o)
  BY DEF StandInv
<1>3. /\ \A v \in Workers : (On(v, o)' <=> On(v, o)) /\ (Alone(v, o)' <=> Alone(v, o))
      /\ InPlay(o)' <=> InPlay(o)
  BY <1>1 DEF On, Alone, InPlay
<1>4. OrderStands(o)'
  BY <1>1, <1>2, <1>3 DEF StandsAt, OrderStands
<1>5. ASSUME NEW v \in Workers, On(v, o)'
      PROVE  JobStands(v, o)'
  <2>1. JobStands(v, o)
    BY <1>2, <1>3, <1>5 DEF StandsAt
  <2> QED
    BY <1>1, <1>3, <2>1 DEF JobStands
<1>6. StandsAt(o)'
  BY <1>4, <1>5 DEF StandsAt
<1>7. ASSUME NEW p \in Orders, p # o
      PROVE  StandsAt(p)'
  BY <1>1, <1>7, LeftAlone DEF StandInv, On
<1> QED
  BY <1>6, <1>7 DEF StandInv

LEMMA ProceedStands ==
    ASSUME RoadInv, StandInv, NEW w \in Workers, Proceed(w)
    PROVE  StandInv'
<1>1. PICK o : job[w].o = o
  OBVIOUS
<1>2. CASE AssignWrite(w) \/ AssignOrder(w) \/ AssignUndo(w)
  BY <1>1, <1>2, AssignWriteStands, AssignOrderStands, AssignUndoStands
<1>3. CASE AdvanceTheOrder(w) \/ AdvanceWrite(w)
  BY <1>1, <1>3, AdvanceStands, AdvanceWriteStands
<1>4. CASE CompleteWithProof(w) \/ CompleteOrder(w)
  BY <1>1, <1>4, CompleteWithProofStands, CompleteOrderStands
<1>5. CASE GiveUpWrite(w) \/ ReverseCash(w) \/ PutBack(w)
  BY <1>1, <1>5, GiveUpWriteStands, ReverseCashStands, PutBackStands
<1>6. CASE CloseOrder(w) \/ TakeOffWrite(w)
  BY <1>1, <1>6, CloseOrderStands, TakeOffWriteStands
<1>7. CASE CheckOutClose(w)
  BY <1>7, ShiftStands
<1> QED
  BY <1>2, <1>3, <1>4, <1>5, <1>6, <1>7 DEF Proceed

LEMMA NextStands ==
    ASSUME TypeInv, StandInv, "cancel" \notin Windows, "replay" \notin Windows,
           MaxAssigns <= 1, [Next]_vars
    PROVE  StandInv'
<1>1. RoadInv
  BY DEF TypeInv
<1>2. CASE RoadStep
  <2>1. ASSUME NEW o \in Orders, CollectCash(o) \/ ConfirmCash(o) \/ ReversePayment(o)
        PROVE  StandInv'
    BY <2>1, SameStands DEF CollectCash, ConfirmCash, ReversePayment, On
  <2>2. ASSUME NEW d \in Drivers, RunsOver(d) \/ CloseStale(d)
        PROVE  StandInv'
    BY <2>2, SameStands DEF RunsOver, CloseStale, On
  <2>3. CASE DispatchStep
    BY <1>1, <2>1, <2>2, <2>3, AssignStands, RequestStands, GiveUpStands, ShiftStands, CrashStands,
       StaffCancelsStands DEF DispatchStep
  <2> QED
    BY <1>1, <1>2, <2>3, ProceedStands DEF RoadStep
<1>3. CASE RulingStep
  BY <1>1, <1>3, RulingStands
<1>4. CASE (\E d \in Drivers, handed \in SUBSET Orders : Submit(d, handed)) \/ UNCHANGED vars
  BY <1>4, SameStands DEF Submit, vars, road, On
<1> QED
  BY <1>2, <1>3, <1>4 DEF Next, RoadStep, RulingStep

LEMMA InitStands == Init => StandInv
BY DEF Init, DeliveryInit, StandInv, StandsAt, OrderStands, On, NoRow

\* complete, fail, reschedule, release and cancel meet on one delivery: one handed
\* over is never one whose order was cancelled, whichever requests overlap, fail or
\* die, as long as staff do not cancel what a request is at work on and a courier's
\* repeat waits for its turn; for one dispatch of each order.
THEOREM HandedOverStands ==
    ASSUME "cancel" \notin Windows, "replay" \notin Windows, MaxAssigns <= 1
    PROVE  Spec => []DeliveredStands
<1> DEFINE I == TypeInv /\ StandInv
<1>1. Init => I
  BY InitTyping, InitStands
<1>2. I /\ [Next]_vars => I'
  BY NextTyping, NextStands
<1>3. I => DeliveredStands
  BY DEF DeliveredStands, StandInv, StandsAt, OrderStands
<1> HIDE DEF I
<1> QED
  BY <1>1, <1>2, <1>3, PTL DEF Spec

----------------------------------------------------------------------------
(* CA-4-03: ReturnedIsReversed *)

\* A courier's report that has yet to be written finds no failed delivery, and
\* does not keep quiet about notes that went back.
ReportFits(w, o) ==
    /\ delivery[o].status # "FAILED"
    /\ ~job[w].back => ~(cash[o] = "customer" /\ payment[o] = "PAID")
Reporting(w, o) == On(w, o) /\ job[w].op \in GivingUp /\ job[w].at = "write"
ReportInv == \A w \in Workers, o \in Orders : Reporting(w, o) => ReportFits(w, o)

LEMMA BeginsAlone ==
    ASSUME RoadInv, NEW w \in Workers, NEW j, Begin(w, j), NEW v \in Workers, job'[v] # job[v]
    PROVE  v = w /\ job[w] = NoJob
BY DEF Begin, RoadInv, RoadOK, DeliveryTypeOK

\* Only a request itself goes on with what it is at, unless it dies.
LEMMA WhoMoves ==
    ASSUME RoadInv, [Next]_vars, NEW w \in Workers, NEW o, On(w, o), job'[w] # job[w]
    PROVE  Proceed(w) \/ Crash(w)
<1>0. job[w] # NoJob
  BY DEF On
<1>1. ASSUME NEW v \in Workers, Proceed(v)
      PROVE  v = w
  <2>1. \/ Done(v) \/ \E step : Goto(v, step)
        \/ job' = [job EXCEPT ![v].at = "reverse", ![v].replay = TRUE]
    BY <1>1
       DEF Proceed, AssignWrite, AssignOrder, AssignUndo, AdvanceTheOrder, AdvanceWrite,
           CompleteWithProof, CompleteOrder, GiveUpWrite, ReverseCash, PutBack, CloseOrder,
           TakeOffWrite, CheckOutClose
  <2> QED
    BY <2>1 DEF RoadInv, RoadOK, DeliveryTypeOK, Done, Goto
<1>2. ASSUME NEW v \in Workers, NEW p \in Orders,
             \/ \E d \in Drivers : Assign(v, p, d)
             \/ Advance(v, p) \/ Complete(v, p)
             \/ \E op \in GivingUp, back \in BOOLEAN : GiveUp(v, p, op, back)
             \/ \E op \in {"release", "cancel"} : TakeOff(v, p, op)
      PROVE  FALSE
  <2>1. \E j : Begin(v, j)
    BY <1>2 DEF Assign, Advance, Complete, GiveUp, TakeOff
  <2> QED
    BY <1>0, <2>1, BeginsAlone
<1>3. ASSUME NEW v \in Workers, Crash(v)
      PROVE  v = w
  BY <1>3 DEF RoadInv, RoadOK, DeliveryTypeOK, Crash, Done
<1>4. ASSUME NEW v \in Workers, NEW d \in Drivers, CheckOut(v, d)
      PROVE  FALSE
  <2>1. \E j : Begin(v, j)
    BY <1>4 DEF CheckOut
  <2> QED
    BY <1>0, <2>1, BeginsAlone
<1>5. ASSUME NEW v \in Workers, NEW d \in Drivers, NEW op \in Rulings, NEW s \in Staff,
             Rule(v, d, op, s)
      PROVE  FALSE
  <2>1. \E j : Begin(v, j)
    BY <1>5 DEF Rule
  <2> QED
    BY <1>0, <2>1, BeginsAlone
<1>6. ASSUME NEW v \in Workers, RuleOn(v)
      PROVE  FALSE
  <2>1. job[v] \in RulingJob
    BY <1>6, JobKinds DEF RoadInv, RuleOn, RuleWrite, Claim, Push, Conclude, At, Rulings
  <2>2. v # w
    BY <2>1 DEF On, RulingJob, Rulings, Ops
  <2>3. Done(v) \/ \E step : Goto(v, step)
    BY <1>6 DEF RuleOn, RuleWrite, Claim, Push, Conclude
  <2> QED
    BY <2>2, <2>3 DEF RoadInv, RoadOK, DeliveryTypeOK, Done, Goto
<1>7. ASSUME NEW p \in Orders,
             CollectCash(p) \/ ConfirmCash(p) \/ StaffCancels(p) \/ ReversePayment(p)
      PROVE  FALSE
  BY <1>7 DEF CollectCash, ConfirmCash, StaffCancels, ReversePayment
<1>8. ASSUME NEW d \in Drivers, RunsOver(d) \/ CloseStale(d)
      PROVE  FALSE
  BY <1>8 DEF RunsOver, CloseStale
<1>9. ASSUME NEW d \in Drivers, NEW handed \in SUBSET Orders, Submit(d, handed)
      PROVE  FALSE
  BY <1>9 DEF Submit
<1>10. CASE DispatchStep
  BY <1>2, <1>3, <1>4, <1>7, <1>8, <1>10 DEF DispatchStep
<1> QED
  BY <1>1, <1>5, <1>6, <1>9, <1>10 DEF Next, vars, road

\* A delivery fails by the courier's report or by staff's cancel.
FailsBy(w, o) ==
    /\ On(w, o)
    /\ \/ job[w].op = "cancel"
       \/ GiveUpWrite(w) /\ MayMove(w) /\ job[w].op = "fail"

\* Dispatch, progress, proof and putting back fail nothing.
LEMMA OthersFailNothing ==
    ASSUME RoadInv, NEW w \in Workers, NEW o \in Orders,
           \/ AssignWrite(w) \/ AssignUndo(w) \/ AdvanceWrite(w) \/ CompleteWithProof(w) \/ PutBack(w)
    PROVE  delivery'[o] = delivery[o] \/ delivery'[o].status # "FAILED"
<1> DEFINE p == job[w].o
<1>1. job[w] \in Job /\ job[w] # NoJob /\ job[w].op \in Ops
  BY JobKinds DEF RoadInv, AssignWrite, AssignUndo, AdvanceWrite, CompleteWithProof, PutBack, At,
                  Ops, Steps, Job
<1>2. p \in Orders /\ delivery[p] \in Row /\ delivery \in [Orders -> Row] /\ JobFits(job[w])
  BY <1>1 DEF RoadInv, RoadOK, DeliveryTypeOK, JobsFit, Job
<1>3. ASSUME NEW r, delivery' = [delivery EXCEPT ![p] = r], r.status # "FAILED"
      PROVE  delivery'[o] = delivery[o] \/ delivery'[o].status # "FAILED"
  BY <1>2, <1>3
<1>4. CASE AssignWrite(w)
  <2> DEFINE since == IF job[w].seen = "NONE" THEN shift ELSE delivery[p].since
             r == [delivery[p] EXCEPT !.status = "ASSIGNED", !.driver = job[w].driver, !.since = since]
  <2>1. UNCHANGED delivery \/ delivery' = [delivery EXCEPT ![p] = r]
    BY <1>2, <1>4 DEF AssignWrite, Row
  <2>2. r.status # "FAILED"
    BY <1>2 DEF Row
  <2> HIDE DEF r
  <2> QED
    BY <1>3, <2>1, <2>2
<1>5. CASE AssignUndo(w)
  <2> DEFINE r == [delivery[p] EXCEPT !.status = "RESCHEDULED", !.driver = job[w].prev]
  <2>1. \/ UNCHANGED delivery \/ delivery' = [delivery EXCEPT ![p] = NoRow]
        \/ delivery' = [delivery EXCEPT ![p] = r]
    BY <1>2, <1>5 DEF AssignUndo
  <2>2. r.status # "FAILED" /\ NoRow.status # "FAILED"
    BY <1>2 DEF Row, NoRow
  <2> HIDE DEF r
  <2> QED
    BY <1>3, <2>1, <2>2
<1>6. CASE AdvanceWrite(w)
  <2> DEFINE r == [delivery[p] EXCEPT !.status = Further(job[w].seen)]
  <2>1. UNCHANGED delivery \/ delivery' = [delivery EXCEPT ![p] = r]
    BY <1>2, <1>6 DEF AdvanceWrite
  <2>2. r.status # "FAILED"
    BY <1>2 DEF Row, Further
  <2> HIDE DEF r
  <2> QED
    BY <1>3, <2>1, <2>2
<1>7. CASE CompleteWithProof(w)
  <2>1. UNCHANGED delivery \/ \E hour : delivery' = Ended(p, "DELIVERED", hour)
    BY <1>7 DEF CompleteWithProof
  <2> QED
    BY <1>2, <2>1, EndedRow DEF RoadInv
<1>8. CASE PutBack(w)
  <2> DEFINE r == [delivery[p] EXCEPT !.status = job[w].seen, !.slot = @ /\ job[w].op = "fail"]
  <2>1. UNCHANGED delivery \/ delivery' = [delivery EXCEPT ![p] = r]
    BY <1>2, <1>8 DEF PutBack, Row
  <2>2. job[w].seen \in Active
    BY <1>1, <1>2, <1>8 DEF JobFits, PutBack, Job, Ops, GivingUp
  <2>3. r.status # "FAILED"
    BY <1>2, <2>2 DEF Row, Active
  <2> HIDE DEF r
  <2> QED
    BY <1>3, <2>1, <2>3
<1> QED
  BY <1>4, <1>5, <1>6, <1>7, <1>8

\* What rewrites deliveries.
LEMMA WhoWrites ==
    ASSUME RoadInv, [Next]_vars
    PROVE  \/ UNCHANGED delivery
           \/ \E w \in Workers :
                 \/ AssignWrite(w) \/ AssignUndo(w) \/ AdvanceWrite(w) \/ CompleteWithProof(w)
                 \/ PutBack(w) \/ GiveUpWrite(w) \/ TakeOffWrite(w)
<1>1. ASSUME NEW w \in Workers, Proceed(w)
      PROVE  \/ UNCHANGED delivery
             \/ AssignWrite(w) \/ AssignUndo(w) \/ AdvanceWrite(w) \/ CompleteWithProof(w)
             \/ PutBack(w) \/ GiveUpWrite(w) \/ TakeOffWrite(w)
  BY <1>1 DEF Proceed, AssignOrder, AdvanceTheOrder, CompleteOrder, ReverseCash, CloseOrder, CheckOutClose
<1>2. CASE DispatchStep
  <2>1. ASSUME NEW w \in Workers, NEW o \in Orders,
               \/ \E d \in Drivers : Assign(w, o, d)
               \/ Advance(w, o) \/ Complete(w, o)
               \/ \E op \in GivingUp, back \in BOOLEAN : GiveUp(w, o, op, back)
               \/ \E op \in {"release", "cancel"} : TakeOff(w, o, op)
        PROVE  UNCHANGED delivery
    BY <2>1 DEF Assign, Advance, Complete, GiveUp, TakeOff
  <2>2. ASSUME NEW w \in Workers, Crash(w) \/ \E d \in Drivers : CheckOut(w, d)
        PROVE  UNCHANGED delivery
    BY <2>2 DEF Crash, CheckOut
  <2>3. ASSUME NEW o \in Orders,
               CollectCash(o) \/ ConfirmCash(o) \/ StaffCancels(o) \/ ReversePayment(o)
        PROVE  UNCHANGED delivery
    BY <2>3 DEF CollectCash, ConfirmCash, StaffCancels, ReversePayment
  <2>4. ASSUME NEW d \in Drivers, RunsOver(d) \/ CloseStale(d)
        PROVE  UNCHANGED delivery
    BY <2>4 DEF RunsOver, CloseStale
  <2> QED
    BY <1>2, <2>1, <2>2, <2>3, <2>4 DEF DispatchStep
<1>3. CASE RulingStep \/ \E d \in Drivers, handed \in SUBSET Orders : Submit(d, handed)
  BY <1>3 DEF RulingStep, RuleOn, RuleWrite, Claim, Push, Conclude, Rule, Submit
<1> QED
  BY <1>1, <1>2, <1>3 DEF Next, RulingStep, vars, road

LEMMA WhoFails ==
    ASSUME RoadInv, [Next]_vars, NEW o \in Orders,
           delivery[o].status # "FAILED", delivery'[o].status = "FAILED"
    PROVE  \E w \in Workers : FailsBy(w, o)
<1>1. PICK w \in Workers : GiveUpWrite(w) \/ TakeOffWrite(w)
  BY WhoWrites, OthersFailNothing
<1> DEFINE p == job[w].o
<1>2. job[w] \in Job /\ On(w, p) /\ p \in Orders /\ delivery[p] \in Row
  <2>1. job[w] \in Job /\ job[w] # NoJob
    BY <1>1, JobKinds DEF RoadInv, GiveUpWrite, TakeOffWrite, Ops, GivingUp
  <2> QED
    BY <2>1 DEF On, Job, RoadInv, RoadOK, DeliveryTypeOK
<1>3. CASE GiveUpWrite(w)
  <2> DEFINE r == [delivery[p] EXCEPT !.status = Outcome(job[w].op), !.dated = Now(p),
                                      !.slot = @ \/ job[w].op = "reschedule"]
  <2>1. MayMove(w)
    BY <1>3 DEF GiveUpWrite
  <2>2. delivery' = [delivery EXCEPT ![p] = r]
    <3>1. delivery' = [Ended(p, Outcome(job[w].op), Now(p)) EXCEPT ![p].slot = @ \/ job[w].op = "reschedule"]
      BY <1>3, <2>1 DEF GiveUpWrite
    <3> QED
      BY <1>2, <3>1 DEF RoadInv, RoadOK, DeliveryTypeOK, Ended, Row
  <2>3. r.status = Outcome(job[w].op)
    BY <1>2 DEF Row
  <2> HIDE DEF r
  <2>4. p = o /\ Outcome(job[w].op) = "FAILED"
    BY <1>2, <2>2, <2>3, RowsElsewhere DEF RoadInv
  <2>5. job[w].op = "fail"
    BY <2>4 DEF Outcome
  <2> QED
    BY <1>2, <1>3, <2>1, <2>4, <2>5 DEF FailsBy
<1>4. CASE TakeOffWrite(w)
  <2>1. PICK status : delivery' = Ended(p, status, Now(p)) /\ (job[w].op # "cancel" => status = "RESCHEDULED")
    BY <1>4 DEF TakeOffWrite
  <2>2. p = o /\ status = "FAILED"
    BY <1>2, <2>1, EndedRow DEF RoadInv
  <2> QED
    BY <1>2, <2>1, <2>2 DEF FailsBy
<1> QED
  BY <1>1, <1>3, <1>4

\* Notes go back as a courier reports it, and a payment is confirmed while he has them.
LEMMA WhoPays ==
    ASSUME RoadInv, [Next]_vars, NEW o \in Orders, cash'[o] = "customer", payment'[o] = "PAID"
    PROVE  \/ cash[o] = "customer" /\ payment[o] = "PAID"
           \/ /\ \E w \in Workers, op \in GivingUp : GiveUp(w, o, op, TRUE)
              /\ UNCHANGED <<delivery, payment>>
<1> USE DEF RoadInv, RoadOK, DeliveryTypeOK
<1>1. CASE UNCHANGED <<cash, payment>>
  BY <1>1
<1>2. ASSUME NEW w \in Workers, NEW p \in Orders, NEW op \in GivingUp, NEW back \in BOOLEAN,
             GiveUp(w, p, op, back)
      PROVE  \/ cash[o] = "customer" /\ payment[o] = "PAID"
             \/ p = o /\ back /\ UNCHANGED <<delivery, payment>>
  BY <1>2 DEF GiveUp, Says
<1>3. ASSUME NEW w \in Workers, ReverseCash(w)
      PROVE  cash[o] = "customer" /\ payment[o] = "PAID"
  BY <1>3 DEF ReverseCash, Reversed
<1>4. ASSUME NEW p \in Orders, CollectCash(p) \/ ConfirmCash(p) \/ ReversePayment(p)
      PROVE  cash[o] = "customer" /\ payment[o] = "PAID"
  <2>1. CASE CollectCash(p)
    <3>1. delivery[p].driver \in Drivers
      BY <2>1 DEF CollectCash, CourierNamed
    <3> QED
      BY <2>1, <3>1, DeliveryAssumption DEF CollectCash
  <2>2. CASE ConfirmCash(p)
    BY <2>2, DeliveryAssumption DEF ConfirmCash
  <2>3. CASE ReversePayment(p)
    BY <2>3 DEF ReversePayment
  <2> QED
    BY <1>4, <2>1, <2>2, <2>3
<1>5. ASSUME NEW d \in Drivers, NEW handed \in SUBSET Orders, Submit(d, handed)
      PROVE  cash[o] = "customer" /\ payment[o] = "PAID"
  BY <1>5 DEF Submit
<1>6. ASSUME NEW w \in Workers, Proceed(w)
      PROVE  UNCHANGED <<cash, payment>> \/ ReverseCash(w)
  BY <1>6
     DEF Proceed, AssignWrite, AssignOrder, AssignUndo, AdvanceTheOrder, AdvanceWrite,
         CompleteWithProof, CompleteOrder, GiveUpWrite, PutBack, CloseOrder, TakeOffWrite,
         CheckOutClose
<1>7. ASSUME NEW w \in Workers, NEW p \in Orders,
             \/ \E d \in Drivers : Assign(w, p, d)
             \/ Advance(w, p) \/ Complete(w, p)
             \/ \E op \in {"release", "cancel"} : TakeOff(w, p, op)
      PROVE  UNCHANGED <<cash, payment>>
  BY <1>7 DEF Assign, Advance, Complete, TakeOff
<1>8. ASSUME NEW w \in Workers, Crash(w) \/ \E d \in Drivers : CheckOut(w, d)
      PROVE  UNCHANGED <<cash, payment>>
  BY <1>8 DEF Crash, CheckOut
<1>9. ASSUME NEW p \in Orders, StaffCancels(p)
      PROVE  UNCHANGED <<cash, payment>>
  BY <1>9 DEF StaffCancels
<1>10. ASSUME NEW d \in Drivers, RunsOver(d) \/ CloseStale(d)
       PROVE  UNCHANGED <<cash, payment>>
  BY <1>10 DEF RunsOver, CloseStale
<1>11. CASE RulingStep \/ UNCHANGED vars
  BY <1>1, <1>11 DEF RulingStep, RuleOn, RuleWrite, Claim, Push, Conclude, Rule, vars, road
<1>12. CASE DispatchStep
  BY <1>1, <1>2, <1>4, <1>7, <1>8, <1>9, <1>10, <1>12 DEF DispatchStep
<1> QED
  BY <1>1, <1>3, <1>5, <1>6, <1>11, <1>12 DEF Next, RulingStep

\* A request begins, goes on, or is over; only a courier's report is about to
\* write that it gives up.
LEMMA JobMoves ==
    ASSUME RoadInv, [Next]_vars
    PROVE  \/ UNCHANGED job
           \/ \E v \in Workers : Done(v)
           \/ \E v \in Workers : \E step :
                 job[v] # NoJob /\ Goto(v, step) /\ (step = "write" => job[v].op \notin GivingUp)
           \/ \E v \in Workers :
                 job[v] \in Job /\ job' = [job EXCEPT ![v].at = "reverse", ![v].replay = TRUE]
           \/ \E v \in Workers : \E j : Begin(v, j) /\ j.op \notin GivingUp
           \/ \E v \in Workers, o \in Orders, op \in GivingUp, back \in BOOLEAN : GiveUp(v, o, op, back)
<1> DEFINE Moves(v) ==
             \/ UNCHANGED job
             \/ Done(v)
             \/ \E step :
                   job[v] # NoJob /\ Goto(v, step) /\ (step = "write" => job[v].op \notin GivingUp)
             \/ job[v] \in Job /\ job' = [job EXCEPT ![v].at = "reverse", ![v].replay = TRUE]
           Starts(v) == \E j : Begin(v, j) /\ j.op \notin GivingUp
<1>1. ASSUME NEW v \in Workers, Proceed(v)
      PROVE  Moves(v)
  <2>1. CASE AssignWrite(v) \/ AssignOrder(v) \/ AssignUndo(v)
    BY <2>1 DEF AssignWrite, AssignOrder, AssignUndo, At
  <2>2. CASE AdvanceTheOrder(v) \/ AdvanceWrite(v)
    BY <2>2 DEF AdvanceTheOrder, AdvanceWrite, At, GivingUp
  <2>3. CASE CompleteWithProof(v) \/ CompleteOrder(v)
    BY <2>3 DEF CompleteWithProof, CompleteOrder, At
  <2>4. CASE GiveUpWrite(v)
    <3>1. job[v] \in Job /\ job[v] # NoJob
      BY <2>4, JobKinds DEF GiveUpWrite, Ops, GivingUp, RoadInv
    <3>2. \/ Goto(v, IF job[v].back THEN "reverse" ELSE "order") \/ Done(v)
          \/ job' = [job EXCEPT ![v].at = "reverse", ![v].replay = TRUE]
      BY <2>4 DEF GiveUpWrite
    <3> QED
      BY <3>1, <3>2
  <2>5. CASE ReverseCash(v) \/ PutBack(v) \/ CloseOrder(v)
    BY <2>5 DEF ReverseCash, PutBack, CloseOrder, GivingUp
  <2>6. CASE TakeOffWrite(v) \/ CheckOutClose(v)
    BY <2>6 DEF TakeOffWrite, CheckOutClose
  <2> QED
    BY <1>1, <2>1, <2>2, <2>3, <2>4, <2>5, <2>6 DEF Proceed
<1>2. ASSUME NEW v \in Workers, RuleOn(v)
      PROVE  Moves(v)
  <2>1. CASE RuleWrite(v) \/ Conclude(v)
    BY <2>1 DEF RuleWrite, Conclude
  <2>2. CASE Claim(v)
    BY <2>2 DEF Claim, At
  <2>3. CASE Push(v)
    BY <2>3 DEF Push, At
  <2> QED
    BY <1>2, <2>1, <2>2, <2>3 DEF RuleOn
<1>3. ASSUME NEW v \in Workers, NEW o \in Orders,
             \/ \E d \in Drivers : Assign(v, o, d)
             \/ Advance(v, o) \/ Complete(v, o)
             \/ \E op \in {"release", "cancel"} : TakeOff(v, o, op)
      PROVE  Starts(v)
  <2>1. ASSUME NEW op \in Ops \ GivingUp, NEW at \in Steps, Begin(v, Request(op, o, at))
        PROVE  Starts(v)
    BY <2>1 DEF Request
  <2>2. ASSUME NEW d \in Drivers, Assign(v, o, d)
        PROVE  Starts(v)
    <3> DEFINE j == [Request("assign", o, "write") EXCEPT !.driver = d]
    <3>1. Begin(v, j)
      BY <2>2 DEF Assign
    <3>2. j.op = "assign"
      BY DEF Request
    <3> HIDE DEF j
    <3> QED
      BY <3>1, <3>2 DEF GivingUp
  <2>3. CASE Advance(v, o) \/ Complete(v, o) \/ \E op \in {"release", "cancel"} : TakeOff(v, o, op)
    <3>1. PICK op \in Ops \ GivingUp, at \in Steps : Begin(v, Request(op, o, at))
      BY <2>3 DEF Advance, Complete, TakeOff, Ops, GivingUp, Steps
    <3> QED
      BY <2>1, <3>1
  <2> QED
    BY <1>3, <2>2, <2>3
<1>4. ASSUME NEW v \in Workers, NEW d \in Drivers, CheckOut(v, d)
      PROVE  Starts(v)
  BY <1>4 DEF CheckOut, GivingUp
<1>5. ASSUME NEW v \in Workers, NEW d \in Drivers, NEW op \in Rulings, NEW s \in Staff,
             Rule(v, d, op, s)
      PROVE  Starts(v)
  BY <1>5 DEF Rule, Rulings, GivingUp
<1>6. ASSUME NEW v \in Workers, Crash(v)
      PROVE  Done(v)
  BY <1>6 DEF Crash
<1>7. ASSUME NEW o \in Orders,
             CollectCash(o) \/ ConfirmCash(o) \/ StaffCancels(o) \/ ReversePayment(o)
      PROVE  UNCHANGED job
  BY <1>7 DEF CollectCash, ConfirmCash, StaffCancels, ReversePayment
<1>8. ASSUME NEW d \in Drivers, RunsOver(d) \/ CloseStale(d)
      PROVE  UNCHANGED job
  BY <1>8 DEF RunsOver, CloseStale
<1>9. ASSUME NEW d \in Drivers, NEW handed \in SUBSET Orders, Submit(d, handed)
      PROVE  UNCHANGED job
  BY <1>9 DEF Submit
<1> DEFINE GivesUp == \E v \in Workers, o \in Orders, op \in GivingUp, back \in BOOLEAN :
                         GiveUp(v, o, op, back)
<1>10. UNCHANGED vars => UNCHANGED job
  BY DEF vars, road
<1>11. UNCHANGED job \/ (\E v \in Workers : Moves(v) \/ Starts(v)) \/ GivesUp
  <2>1. ASSUME NEW v \in Workers, Done(v)
        PROVE  Moves(v)
    BY <2>1
  <2> HIDE DEF Moves, Starts
  <2>2. DispatchStep => UNCHANGED job \/ (\E v \in Workers : Moves(v) \/ Starts(v)) \/ GivesUp
    <3> HIDE DEF GivesUp
    <3>1. ASSUME NEW v \in Workers, NEW o \in Orders, NEW op \in GivingUp, NEW back \in BOOLEAN,
                 GiveUp(v, o, op, back)
          PROVE  GivesUp
      BY <3>1 DEF GivesUp
    <3> QED
      BY <1>3, <1>4, <1>6, <1>7, <1>8, <2>1, <3>1 DEF DispatchStep
  <2> HIDE DEF GivesUp
  <2> QED
    BY <1>1, <1>2, <1>5, <1>9, <1>10, <2>2 DEF Next
<1> QED
  BY <1>11

\* A report that is about to write has just begun, or was there before.
LEMMA NewReport ==
    ASSUME RoadInv, [Next]_vars, NEW w \in Workers, NEW o \in Orders, Reporting(w, o)',
           ~(On(w, o) /\ job'[w] = job[w])
    PROVE  \E op \in GivingUp : GiveUp(w, o, op, job'[w].back) /\ ~Replays(op, o)
<1> USE DEF RoadInv, RoadOK, DeliveryTypeOK
<1>1. /\ job'[w] # NoJob /\ job'[w].o = o /\ job'[w].op \in GivingUp /\ job'[w].at = "write"
      /\ job'[w] # job[w]
  BY DEF Reporting, On
<1>2. ASSUME NEW v \in Workers, Done(v)
      PROVE  FALSE
  BY <1>1, <1>2 DEF Done
<1>3. ASSUME NEW v \in Workers, NEW step, job[v] # NoJob, Goto(v, step),
             step = "write" => job[v].op \notin GivingUp
      PROVE  FALSE
  <2>1. v = w
    BY <1>1, <1>3 DEF Goto
  <2>2. job[w] \in Job \cup CheckOutJob \cup RulingJob
    BY <1>3, <2>1 DEF Jobs
  <2> DEFINE j == [job[w] EXCEPT !.at = step]
  <2>3. job'[w] = j
    BY <1>3, <2>1 DEF Goto
  <2>4. j.at = step /\ j.op = job[w].op
    BY <2>2 DEF Job, CheckOutJob, RulingJob
  <2> HIDE DEF j
  <2> QED
    BY <1>1, <1>3, <2>1, <2>3, <2>4
<1>4. ASSUME NEW v \in Workers, job[v] \in Job,
             job' = [job EXCEPT ![v].at = "reverse", ![v].replay = TRUE]
      PROVE  FALSE
  <2>1. v = w
    BY <1>1, <1>4
  <2> DEFINE j == [job[w] EXCEPT !.at = "reverse", !.replay = TRUE]
  <2>2. job'[w] = j
    BY <1>4, <2>1
  <2>3. j.at = "reverse"
    BY <1>4, <2>1 DEF Job
  <2> HIDE DEF j
  <2> QED
    BY <1>1, <2>2, <2>3
<1>5. ASSUME NEW v \in Workers, NEW j, Begin(v, j), j.op \notin GivingUp
      PROVE  FALSE
  BY <1>1, <1>5 DEF Begin
<1>6. ASSUME NEW v \in Workers, NEW p \in Orders, NEW op \in GivingUp, NEW back \in BOOLEAN,
             GiveUp(v, p, op, back)
      PROVE  GiveUp(w, o, op, job'[w].back) /\ ~Replays(op, o)
  <2> DEFINE j == [Request(op, p, StartsAt(op, p)) EXCEPT !.back = back, !.replay = Replays(op, p)]
  <2>1. Begin(v, j)
    BY <1>6 DEF GiveUp
  <2>2. j.o = p /\ j.back = back /\ j.at = StartsAt(op, p)
    BY DEF Request
  <2> HIDE DEF j
  <2>3. v = w /\ job'[w] = j
    BY <1>1, <2>1 DEF Begin
  <2>4. p = o /\ back = job'[w].back /\ StartsAt(op, p) = "write"
    BY <1>1, <2>2, <2>3
  <2> QED
    BY <1>6, <2>3, <2>4 DEF StartsAt
<1> QED
  BY <1>1, <1>2, <1>3, <1>4, <1>5, <1>6, JobMoves

LEMMA NextReports ==
    ASSUME RoadInv, StandInv, ReportInv, "cancel" \notin Windows, "replay" \notin Windows,
           [Next]_vars
    PROVE  ReportInv'
<1> SUFFICES ASSUME NEW w \in Workers, NEW o \in Orders, Reporting(w, o)'
             PROVE  ReportFits(w, o)'
  BY DEF ReportInv
<1>1. CASE On(w, o) /\ job'[w] = job[w]
  <2>1. Reporting(w, o) /\ ReportFits(w, o) /\ JobStands(w, o)
    BY <1>1 DEF Reporting, ReportInv, StandInv, StandsAt
  <2>2. delivery'[o].status # "FAILED"
    <3> SUFFICES ASSUME delivery'[o].status = "FAILED"
                 PROVE  FALSE
      OBVIOUS
    <3>1. PICK v \in Workers : FailsBy(v, o)
      BY <2>1, WhoFails DEF ReportFits
    <3>2. job[v].op # "cancel"
      BY <2>1, <3>1 DEF FailsBy, StandInv, StandsAt, JobStands, Alone, Reporting, GivingUp
    <3>3. GiveUpWrite(v) /\ MayMove(v) /\ v = w
      BY <2>1, <3>1, <3>2 DEF FailsBy, JobStands, Reporting, GivingUp
    <3>4. Goto(w, IF job[w].back THEN "reverse" ELSE "order")
      BY <3>3 DEF GiveUpWrite
    <3>5. job'[w].at # "write"
      BY <2>1, <3>4, GotoGoesOn DEF Steps, Reporting
    <3> QED
      BY <1>1, <2>1, <3>5 DEF Reporting
  <2>3. ~job'[w].back => ~(cash'[o] = "customer" /\ payment'[o] = "PAID")
    <3> SUFFICES ASSUME ~job[w].back, cash'[o] = "customer", payment'[o] = "PAID"
                 PROVE  FALSE
      BY <1>1
    <3>1. PICK v \in Workers, op \in GivingUp : GiveUp(v, o, op, TRUE)
      BY <2>1, WhoPays DEF ReportFits
    <3>2. Unhurried(op, o, Replays(op, o)) /\ Replays(op, o) \in BOOLEAN
      BY <3>1 DEF GiveUp, Replays
    <3> QED
      BY <1>1, <2>1, <3>2, Meets DEF Reporting
  <2> QED
    BY <2>2, <2>3 DEF ReportFits
<1>2. CASE ~(On(w, o) /\ job'[w] = job[w])
  <2>1. PICK op \in GivingUp : GiveUp(w, o, op, job'[w].back) /\ ~Replays(op, o)
    BY <1>2, NewReport
  <2> DEFINE back == job'[w].back
  <2>2. /\ delivery[o].status \in Active /\ UNCHANGED <<delivery, payment>>
        /\ cash[o] = "customer" /\ payment[o] = "PAID" => back
        /\ ~back => UNCHANGED cash
    BY <2>1 DEF GiveUp, Says
  <2> HIDE DEF back
  <2>3. delivery'[o].status # "FAILED"
    BY <2>2 DEF Active
  <2>4. ~back => ~(cash'[o] = "customer" /\ payment'[o] = "PAID")
    BY <2>2
  <2> QED
    BY <2>3, <2>4 DEF ReportFits, back
<1> QED
  BY <1>1, <1>2

\* A delivery fails, or its cash comes back to the customer: the report sees to it.
LEMMA NewlyUnreversed ==
    ASSUME RoadInv, StandInv, ReportInv, [Next]_vars,
           NEW o \in Orders, ~Unreversed(o), Unreversed(o)'
    PROVE  Settling(o)' \/ \E w \in Workers : WorksOn(w, o) /\ job[w].op = "cancel"
<1>1. CASE delivery[o].status # "FAILED"
  <2>1. PICK w \in Workers : FailsBy(w, o)
    BY <1>1, WhoFails DEF Unreversed
  <2>2. CASE job[w].op = "cancel"
    BY <2>1, <2>2, OnFits DEF FailsBy
  <2>3. CASE job[w].op # "cancel"
    <3>1. On(w, o) /\ GiveUpWrite(w) /\ MayMove(w) /\ job[w].op \in GivingUp /\ job[w].at = "write"
      BY <2>1, <2>3 DEF FailsBy, GiveUpWrite
    <3>2. UNCHANGED <<cash, payment>> /\ Goto(w, IF job[w].back THEN "reverse" ELSE "order")
      BY <3>1 DEF GiveUpWrite
    <3>3. job[w].back
      BY <3>1, <3>2 DEF Unreversed, ReportInv, Reporting, ReportFits
    <3>4. GoesOn(w, o) /\ job'[w] # NoJob /\ job'[w].at = "reverse" /\ job'[w].back
      BY <3>1, <3>2, <3>3, GotoGoesOn DEF Steps
    <3>5. job'[w] \in Job /\ job'[w].op = job[w].op /\ job'[w].o = o
      <4>1. job[w] \in Job
        BY <3>1, OnFits
      <4>2. job'[w] = [job[w] EXCEPT !.at = "reverse"]
        BY <3>2, <3>3 DEF Goto, RoadInv, RoadOK, DeliveryTypeOK
      <4> QED
        BY <3>1, <4>1, <4>2 DEF Job, Steps, On
    <3>6. "o" \in DOMAIN job'[w]
      BY <3>5 DEF Job
    <3> QED
      BY <3>1, <3>4, <3>5, <3>6 DEF Settling, WorksOn
  <2> QED
    BY <2>2, <2>3
<1>2. CASE delivery[o].status = "FAILED"
  <2>1. PICK w \in Workers, op \in GivingUp : GiveUp(w, o, op, TRUE)
    BY <1>2, WhoPays DEF Unreversed
  <2>2. Replays(op, o)
    BY <1>2, <2>1 DEF GiveUp, Active
  <2> DEFINE j == [Request(op, o, StartsAt(op, o)) EXCEPT !.back = TRUE, !.replay = Replays(op, o)]
  <2>3. Begin(w, j)
    BY <2>1 DEF GiveUp
  <2>4. j.op = op /\ j.o = o /\ j.back /\ j.at = "reverse" /\ "o" \in DOMAIN j /\ j \in Job
    <3>1. StartsAt(op, o) = "reverse"
      BY <2>2 DEF StartsAt
    <3>2. Request(op, o, "reverse") \in Job
      BY RequestTyping DEF RoadInv, Ops, GivingUp, Steps
    <3> QED
      BY <2>2, <3>1, <3>2 DEF Request, Job
  <2> HIDE DEF j
  <2>5. job'[w] = j /\ j # NoJob
    BY <2>3, <2>4, NoJobAssumption DEF Begin, RoadInv, RoadOK, DeliveryTypeOK
  <2> QED
    BY <2>4, <2>5 DEF Settling, WorksOn
<1> QED
  BY <1>1, <1>2

\* A report that sees to it leaves off only when it is seen to, or a call fails.
LEMMA SettledOrSlipped ==
    ASSUME RoadInv, StandInv, ReportInv, [Next]_vars,
           NEW o \in Orders, Unreversed(o), Settling(o), ~Settling(o)'
    PROVE  ~Unreversed(o)' \/ slips' # slips
<1>1. PICK w \in Workers : /\ WorksOn(w, o) /\ job[w].op \in GivingUp /\ job[w].back
                           /\ job[w].at \in {"write", "reverse", "putback"}
  BY DEF Settling
<1>2. On(w, o) /\ job'[w] # job[w] /\ job[w].at # "write"
  <2>1. On(w, o)
    BY <1>1 DEF WorksOn, On, Ops, GivingUp
  <2>2. job'[w] # job[w]
    BY <1>1 DEF Settling, WorksOn
  <2>3. job[w].at # "write"
    BY <1>1, <2>1 DEF Unreversed, ReportInv, Reporting, ReportFits
  <2> QED
    BY <2>1, <2>2, <2>3
<1>3. job[w] \in Job /\ JobFits(job[w]) /\ slips \in Nat
  BY <1>2, OnFits, DeliveryAssumption DEF RoadInv, RoadOK, DeliveryTypeOK
<1>4. CASE Crash(w)
  BY <1>3, <1>4 DEF Crash, Slip
<1>5. CASE ReverseCash(w)
  <2>1. CASE payment' = Reversed(job[w].o)
    BY <1>2, <2>1 DEF Reversed, Unreversed, On, RoadInv, RoadOK, DeliveryTypeOK
  <2>2. CASE Slip
    BY <1>3, <2>2 DEF Slip
  <2> QED
    BY <1>5, <2>1, <2>2 DEF ReverseCash
<1>6. CASE PutBack(w)
  <2>1. Returning(job[w]) /\ job[w].seen \in Active
    BY <1>1, <1>3, <1>6 DEF Returning, JobFits, PutBack
  <2>2. delivery[o].status = Outcome(job[w].op)
    BY <1>2, <2>1 DEF StandInv, StandsAt, JobStands
  <2> DEFINE r == [delivery[o] EXCEPT !.status = job[w].seen, !.slot = @ /\ job[w].op = "fail"]
  <2>3. delivery[o] \in Row
    BY DEF RoadInv, RoadOK, DeliveryTypeOK
  <2>4. delivery' = [delivery EXCEPT ![o] = r]
    BY <1>2, <1>6, <2>2, <2>3 DEF PutBack, On, RoadInv, RoadOK, DeliveryTypeOK, Row
  <2>5. r.status = job[w].seen
    BY <2>3 DEF Row
  <2> HIDE DEF r
  <2>6. delivery'[o] = r
    BY <2>4 DEF RoadInv, RoadOK, DeliveryTypeOK
  <2> QED
    BY <2>1, <2>5, <2>6 DEF Unreversed, Active
<1>7. Proceed(w) => ReverseCash(w) \/ PutBack(w)
  BY <1>1, <1>2
     DEF Proceed, AssignWrite, AssignOrder, AssignUndo, AdvanceTheOrder, AdvanceWrite,
         CompleteWithProof, CompleteOrder, GiveUpWrite, CloseOrder, TakeOffWrite, CheckOutClose, At,
         GivingUp
<1> QED
  BY <1>2, <1>4, <1>5, <1>6, <1>7, WhoMoves

\* The courier hands the notes back and the request fails, or he repeats it: no
\* delivery is left FAILED over a payment still PAID but by a call that failed, a
\* request that died or staff's cancel, for any number of requests that overlap;
\* as long as staff do not cancel what a request is at work on and a courier's
\* repeat waits for its turn; for one dispatch of each order.
THEOREM ReturnedReversed ==
    ASSUME "cancel" \notin Windows, "replay" \notin Windows, MaxAssigns <= 1
    PROVE  Spec => ReturnedIsReversed
<1> DEFINE I == TypeInv /\ StandInv /\ ReportInv
           Left(o) == Unreversed(o) /\ ~Settling(o)
           LeftByAccident ==
              \A o \in Orders :
                 Left(o)' /\ ~Left(o)
                 => slips' # slips \/ \E w \in Workers : WorksOn(w, o) /\ job[w].op = "cancel"
<1>1. Init => I
  <2>1. Init => ReportInv
    BY DEF Init, DeliveryInit, ReportInv, Reporting, On
  <2> QED
    BY <2>1, InitTyping, InitStands
<1>2. I /\ [Next]_vars => I'
  BY NextTyping, NextStands, NextReports DEF TypeInv
<1>3. I /\ [Next]_vars => LeftByAccident
  <2> SUFFICES ASSUME I, [Next]_vars, NEW o \in Orders, Left(o)', ~Left(o)
               PROVE  slips' # slips \/ \E w \in Workers : WorksOn(w, o) /\ job[w].op = "cancel"
    OBVIOUS
  <2>1. RoadInv
    BY DEF TypeInv
  <2>2. CASE ~Unreversed(o)
    BY <2>1, <2>2, NewlyUnreversed
  <2>3. CASE Unreversed(o) /\ Settling(o)
    BY <2>1, <2>3, SettledOrSlipped
  <2> QED
    BY <2>2, <2>3
<1>4. LeftByAccident =>
         \A o \in Orders :
            /\ Unreversed(o)' /\ ~Settling(o)'
            /\ ~(Unreversed(o) /\ ~Settling(o))
            => slips' # slips \/ \E w \in Workers : WorksOn(w, o) /\ job[w].op = "cancel"
  OBVIOUS
<1> HIDE DEF I, LeftByAccident
<1> QED
  BY <1>1, <1>2, <1>3, <1>4, PTL DEF Spec, ReturnedIsReversed

=============================================================================
