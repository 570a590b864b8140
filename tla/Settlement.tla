---------------------------- MODULE Settlement ----------------------------
(***************************************************************************)
(* The end-of-shift deposit of delivery-service: what the courier is asked *)
(* for, what he hands over, and how two people may charge him the rest.    *)
(*                                                                         *)
(* A ruling reads the deposit, then writes under the WHERE of its own      *)
(* repository call.  Every order is worth the same amount of cash.         *)
(***************************************************************************)
EXTENDS Delivery

CONSTANTS
    Staff,        \* cashiers and approvers
    Nobody,
    ExpectFromCod \* settlementExpectFromCod, a switch of the depot

ASSUME SettlementAssumption == Nobody \notin Staff /\ ExpectFromCod \in BOOLEAN

VARIABLES
    deposit, \* [Drivers -> Deposit]: the settlement row of each courier's shift
    debited  \* SUBSET Drivers: charged at payout-service, once per settlement id

vars == <<road, deposit, debited>>

Rulings == {"verify", "dispute", "raise", "approve", "reject"}
RulingJob == [op : Rulings, at : {"write", "push", "resolve", "release"}, driver : Drivers, by : Staff]

\* short: less was handed over than asked for.  by, approver: chargeRequestedBy
\* and chargeApprovedBy.
Deposit == [state : {"NONE", "SUBMITTED", "DISPUTED", "VERIFIED"}, asked : SUBSET Orders,
            short : BOOLEAN, by : Staff \cup {Nobody}, approver : Staff \cup {Nobody},
            charged : BOOLEAN]
NoDeposit == [state |-> "NONE", asked |-> {}, short |-> FALSE,
              by |-> Nobody, approver |-> Nobody, charged |-> FALSE]

TypeOK ==
    /\ DeliveryTypeOK(Job \cup CheckOutJob \cup RulingJob)
    /\ deposit \in [Drivers -> Deposit]
    \* A charge is claimed for approval only while somebody asks for it.
    /\ \A d \in Drivers : deposit[d].approver # Nobody => deposit[d].by # Nobody
    /\ debited \subseteq Drivers

Init ==
    /\ DeliveryInit
    /\ deposit = [d \in Drivers |-> NoDeposit]
    /\ debited = {}

----------------------------------------------------------------------------
(* submit *)

\* C1: a delivery handed over is owed whatever the payment book was told, unless
\* the depot switched that off; CA-4-03: any other ending if its cash is still PAID.
Owed(o) == payment[o] = "PAID" \/ (ExpectFromCod /\ delivery[o].status = "DELIVERED")

ExpectedByRoster(d) ==  \* mutant: the window ends when the shift should have
    {o \in Orders : /\ delivery[o].driver = d /\ delivery[o].dated = "open"
                    /\ delivery[o].status \in {"DELIVERED", "FAILED", "RESCHEDULED"}
                    /\ Owed(o)}
\* codBearingInWindow, for the courier the row names now.
ExpectedOf(d) ==
    {o \in Orders : /\ delivery[o].driver = d /\ InShift(o)
                    /\ delivery[o].status \in {"DELIVERED", "FAILED", "RESCHEDULED"}
                    /\ Owed(o)}

\* handed: the notes the courier puts on the counter.
Submit(d, handed) ==
    /\ d \notin open /\ deposit[d].state = "NONE"
    /\ \A o \in handed : cash[o] = d
    /\ deposit' = [deposit EXCEPT ![d] =
          [NoDeposit EXCEPT !.state = "SUBMITTED", !.asked = ExpectedOf(d),
                            !.short = Cardinality(handed) < Cardinality(ExpectedOf(d))]]
    /\ cash' = [o \in Orders |-> IF o \in handed THEN "depot" ELSE cash[o]]
    /\ UNCHANGED <<order, payment, delivery, shift, job, assigns, slips, debited>>

----------------------------------------------------------------------------
(* The rulings *)

Resolvable(d) == deposit[d].state \in {"SUBMITTED", "DISPUTED"}
Pending(d) == deposit[d].by # Nobody

\* What the service checks on the row it read.
MayRule(d, op, s) ==
    /\ Resolvable(d)
    /\ CASE op = "approve" -> Pending(d) /\ deposit[d].by # s
         [] op = "reject"  -> Pending(d)
         [] op = "raise"   -> ~Pending(d) /\ deposit[d].short
         [] OTHER          -> ~Pending(d)

Rule(w, d, op, s) ==
    /\ MayRule(d, op, s)
    /\ Begin(w, [op |-> op, at |-> "write", driver |-> d, by |-> s])
    /\ UNCHANGED <<order, payment, cash, delivery, shift, assigns, slips, deposit, debited>>

\* resolve: only a deposit that can still be ruled on is moved.
Resolved(d, state, charged) ==
    IF Resolvable(d) THEN [deposit EXCEPT ![d].state = state, ![d].charged = charged] ELSE deposit

ClearedAnyway(d) ==  \* mutant: under an approver's claim
    IF Resolvable(d) /\ Pending(d) THEN [deposit EXCEPT ![d].by = Nobody] ELSE deposit
\* clearChargeRequest: not while an approver's debit may be on its way.
Cleared(d) ==
    IF Resolvable(d) /\ Pending(d) /\ deposit[d].approver = Nobody
    THEN [deposit EXCEPT ![d].by = Nobody] ELSE deposit

RuleWrite(w) ==
    /\ job[w] # NoJob /\ job[w].op \in Rulings \ {"approve"} /\ job[w].at = "write"
    /\ LET d == job[w].driver IN
       deposit' = CASE job[w].op = "verify"  -> Resolved(d, "VERIFIED", FALSE)
                    [] job[w].op = "dispute" -> Resolved(d, "DISPUTED", FALSE)
                    [] job[w].op = "raise" /\ Resolvable(d) /\ ~Pending(d) ->
                          [deposit EXCEPT ![d].by = job[w].by]
                    [] job[w].op = "reject"  -> Cleared(d)
                    [] OTHER -> deposit
    /\ Done(w)
    /\ UNCHANGED <<order, payment, cash, delivery, shift, assigns, slips, debited>>

\* claimChargeApproval: whoever holds the claim pushes the debit.
Claim(w) ==
    /\ At(w, "approve", "write")
    /\ LET d == job[w].driver IN
       IF Resolvable(d) /\ Pending(d) /\ deposit[d].approver = Nobody
       THEN deposit' = [deposit EXCEPT ![d].approver = job[w].by] /\ Goto(w, "push")
       ELSE UNCHANGED deposit /\ Done(w)
    /\ UNCHANGED <<order, payment, cash, delivery, shift, assigns, slips, debited>>

PushAnyhow(w) ==  \* mutant: charged whatever payout-service says
    /\ At(w, "approve", "push")
    /\ \/ debited' = debited \cup {job[w].driver} /\ UNCHANGED slips
       \/ Slip /\ UNCHANGED debited
    /\ Goto(w, "resolve")
    /\ UNCHANGED <<order, payment, cash, delivery, shift, assigns, deposit>>
\* cashVarianceCharged: idempotent by settlement id; no answer counts as no.
Push(w) ==
    /\ At(w, "approve", "push")
    /\ \/ debited' = debited \cup {job[w].driver} /\ UNCHANGED slips /\ Goto(w, "resolve")
       \/ Slip /\ debited' \in {debited, debited \cup {job[w].driver}} /\ Goto(w, "release")
    /\ UNCHANGED <<order, payment, cash, delivery, shift, assigns, deposit>>

\* resolve, or releaseChargeApproval.
Conclude(w) ==
    /\ job[w] # NoJob /\ job[w].at \in {"resolve", "release"}
    /\ LET d == job[w].driver IN
       deposit' = IF job[w].at = "resolve" THEN Resolved(d, "VERIFIED", TRUE)
                  ELSE IF deposit[d].approver = job[w].by
                       THEN [deposit EXCEPT ![d].approver = Nobody] ELSE deposit
    /\ Done(w)
    /\ UNCHANGED <<order, payment, cash, delivery, shift, assigns, slips, debited>>

----------------------------------------------------------------------------

RuleOn(w) == RuleWrite(w) \/ Claim(w) \/ Push(w) \/ Conclude(w)

Next ==
    \/ /\ DispatchStep \/ \E w \in Workers : Proceed(w)
       /\ UNCHANGED <<deposit, debited>>
    \/ \E d \in Drivers : \E handed \in SUBSET Orders : Submit(d, handed)
    \/ \E w \in Workers : RuleOn(w) \/ \E d \in Drivers, op \in Rulings, s \in Staff : Rule(w, d, op, s)

Spec == Init /\ [][Next]_vars

----------------------------------------------------------------------------
(* What it all comes to *)

\* Handed over in the shift, and no part of what its deposit asks for.
Unasked(d, o) ==
    /\ deposit[d].state # "NONE" /\ delivery[o].driver = d
    /\ delivery[o].status = "DELIVERED" /\ InShift(o)
    /\ o \notin deposit[d].asked

\* C1: cash for a delivery handed over in the shift is asked for, confirmed to
\* payment-service or not, unless its proof reaches the server when the deposit
\* is already in.
DeliveredIsAsked ==
    [][\A d \in Drivers, o \in Orders :
          ExpectFromCod /\ Unasked(d, o)' /\ ~Unasked(d, o)
          => d \notin open /\ deposit[d].state # "NONE" /\ delivery[o].status = "ON_DELIVERY"]_vars

\* The same with no exception.
NothingGoesUnasked == ExpectFromCod => \A d \in Drivers, o \in Orders : ~Unasked(d, o)

\* CA-4-03: a courier is asked for confirmed cash he still has.
KeptCashIsAsked ==
    [][\A d \in Drivers, o \in Orders :
          /\ deposit[d].state = "NONE" /\ deposit'[d].state # "NONE"
          /\ cash[o] = d /\ payment[o] \in {"PAID", "REFUNDED"}
          => o \in deposit'[d].asked]_vars

\* CA-2-32: a deposit claims to have been charged only if the debit is in
\* payout-service.
ChargedIsDebited == \A d \in Drivers : deposit[d].charged => d \in debited

\* A courier debited for a shortfall is on record as charged, or somebody still
\* has the charge to decide.
DebitedIsCharged ==
    \A d \in Drivers : d \in debited => deposit[d].charged \/ (Resolvable(d) /\ Pending(d))

===========================================================================
