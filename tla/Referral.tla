------------------------------ MODULE Referral ------------------------------
(***************************************************************************)
(* One referral of referral-service: the bonus both parties get when the   *)
(* new customer's first sale completes, taken back when it is voided.      *)
(*                                                                         *)
(* The handlers run in referral-service, which keeps the referral row and  *)
(* the voided-order marks, asks order-service for an order's status and    *)
(* calls loyalty-service for every grant and reversal.  Each transaction   *)
(* and each remote call is a step of its own.  Amounts are left out: a     *)
(* ledger entry is what a (customer, key) pair can be in.                  *)
(***************************************************************************)
EXTENDS SaleOutbox

CONSTANTS
    NoOrder,
    Legacy,   \* the key of grants made before keys named the order
    Windows   \* SUBSET {"prepare", "redeem"}: the narrow orders of events allowed

ASSUME ReferralTopics ==
    EffectTopics = {"REFERRAL_QUALIFY"} /\ VoidTopics = {"REFERRAL_REVERSE"}
ASSUME KeysAssumption ==
    NoOrder \notin Orders /\ Legacy \notin Orders \cup {NoOrder}

VARIABLES
    referral, \* [status, order]: the row, and its qualifyingOrderId
    voided,   \* SUBSET Orders: voided_referral_orders
    entry,    \* [Sides -> [Keys -> EntryStates]]: loyalty's ledger under a key
    seen      \* [Workers -> Orders \cup {NoOrder}]: the qualifying order a handler read

referralVars == <<referral, voided, entry>>
vars == <<outboxVars, referral, voided, entry, seen>>

Sides == {"referrer", "referee"}
Keys == Orders \cup {Legacy}
EntryStates == {"none", "granted", "reversed", "tombstone"}
Statuses == {"NONE", "PENDING", "QUALIFIED"}

QualifySteps == {"check", "prepare", "set", "recheck", "reward1", "reward2",
                 "qualify", "close"}
ReverseSteps == {"mark", "read", "reverse1", "reverse2", "reopen"}
Places == {"deliver", "start"} \cup Ends \cup QualifySteps \cup ReverseSteps
ASSUME NoJobAssumption == NoJob \notin Job(Places)

TypeOK ==
    /\ OutboxTypeOK(Places)
    /\ referral \in [status : Statuses, order : Orders \cup {NoOrder}]
    /\ voided \subseteq Orders
    /\ entry \in [Sides -> [Keys -> EntryStates]]
    /\ seen \in [Workers -> Orders \cup {NoOrder}]

\* Nothing has happened yet, or the referral was qualified before keys named
\* the order that qualified it.
Init ==
    /\ voided = {}
    /\ seen = [w \in Workers |-> NoOrder]
    /\ \/ /\ OutboxInit
          /\ referral = [status |-> "NONE", order |-> NoOrder]
          /\ entry = [s \in Sides |-> [k \in Keys |-> "none"]]
       \/ \E o \in Orders :
             /\ order = [p \in Orders |-> IF p = o THEN "COMPLETED" ELSE "OPEN"]
             /\ row = [p \in Orders |-> [k \in Topics |->
                   [state |-> IF p = o /\ k \in EffectTopics THEN "DONE" ELSE "NONE",
                    tries |-> 0]]]
             /\ job = [w \in Workers |-> NoJob]
             /\ inline = {} /\ slips = 0
             /\ referral = [status |-> "QUALIFIED", order |-> o]
             /\ entry = [s \in Sides |-> [k \in Keys |->
                            IF k = Legacy THEN "granted" ELSE "none"]]

----------------------------------------------------------------------------
(* Redeeming a code *)

\* CA-3-40: new means never having had an order reach COMPLETED; a voided one
\* is not counted.
Redeem ==
    /\ referral.status = "NONE"
    /\ \A o \in Orders : order[o] # "COMPLETED"
    /\ "redeem" \in Windows \/ \A o \in Orders : order[o] # "VOIDED"
    /\ referral' = [referral EXCEPT !.status = "PENDING"]
    /\ UNCHANGED <<outboxVars, voided, entry, seen>>

----------------------------------------------------------------------------
(* qualify *)

Qualifying(w, place) == At(w, "REFERRAL_QUALIFY", place)
Own(w) == job[w].o
Step(w, place) == Goto(w, place) /\ UNCHANGED <<order, row, inline, slips>>
Over(w) == job'[w] = NoJob \/ job'[w].at \in Ends
\* A handler that is over remembers nothing.
Keep(w) == seen' = [seen EXCEPT ![w] = IF Over(w) THEN NoOrder ELSE @]
Learn(w, o) == seen' = [seen EXCEPT ![w] = IF Over(w) THEN NoOrder ELSE o]

QualifyFind(w) ==
    /\ Qualifying(w, "start")
    /\ Step(w, CASE referral.status = "NONE" -> "ack"
                 [] referral.status = "PENDING" -> "prepare"
                 [] OTHER -> IF referral.order \in {NoOrder, Own(w)} THEN "ack" ELSE "check")
    /\ Learn(w, IF referral.status = "QUALIFIED" THEN referral.order ELSE NoOrder)
    /\ UNCHANGED referralVars

\* Another order qualified it: done, unless that order's reversal is to come.
QualifyCheck(w) ==
    /\ Qualifying(w, "check")
    /\ Step(w, IF order[seen[w]] = "VOIDED" THEN "fail" ELSE "ack")
    /\ Keep(w)
    /\ UNCHANGED referralVars

\* prepareQualification is one transaction at READ COMMITTED: its first
\* statement reads the mark, its second writes the row.
PrepareRead(w) ==
    /\ Qualifying(w, "prepare")
    /\ Step(w, IF Own(w) \in voided THEN "ack" ELSE "set")
    /\ UNCHANGED <<referralVars, seen>>

PrepareSet(w) ==
    /\ Qualifying(w, "set")
    /\ referral' = IF referral.status = "PENDING" /\ referral.order = NoOrder
                   THEN [referral EXCEPT !.order = Own(w)] ELSE referral
    /\ Step(w, IF referral.status # "PENDING" THEN "ack"
               ELSE IF referral'.order = Own(w) THEN "reward1" ELSE "recheck")
    /\ Learn(w, referral'.order)
    /\ UNCHANGED <<voided, entry>>

\* The row is prepared for another order: its qualification is finished here,
\* unless that order has been voided.
QualifyRecheck(w) ==
    /\ Qualifying(w, "recheck")
    /\ Step(w, IF order[seen[w]] = "VOIDED" THEN "fail" ELSE "reward1")
    /\ Keep(w)
    /\ UNCHANGED referralVars

\* statusOfOrder answers null.
StatusUnknown(w) ==
    /\ Qualifying(w, "check") \/ Qualifying(w, "recheck")
    /\ slips < MaxSlips
    /\ slips' = slips + 1
    /\ Goto(w, "fail")
    /\ Keep(w)
    /\ UNCHANGED <<order, row, inline, referralVars>>

\* reward: the (customer, key) pair is unique, so a second grant and a grant
\* after the tombstone are both refused and read as granted.
Granted(s, k) ==
    [entry EXCEPT ![s][k] = IF @ = "none" THEN "granted" ELSE @]

Reward(w, from, s, to) ==
    /\ Qualifying(w, from)
    /\ entry' = Granted(s, seen[w])
    /\ Step(w, to)
    /\ UNCHANGED <<referral, voided, seen>>

RewardReferrer(w) == Reward(w, "reward1", "referrer", "reward2")

SkipReferee(w) ==  \* mutant: a failed grant of the second side is swallowed
    /\ Qualifying(w, "reward2")
    /\ Step(w, "qualify")
    /\ UNCHANGED <<referralVars, seen>>

RewardReferee(w) == Reward(w, "reward2", "referee", "qualify")

\* qualifyReferral, likewise two statements of one transaction.
QualifyRead(w) ==
    /\ Qualifying(w, "qualify")
    /\ Step(w, IF seen[w] \in voided THEN "ack" ELSE "close")
    /\ Keep(w)
    /\ UNCHANGED referralVars

QualifyClose(w) ==
    /\ Qualifying(w, "close")
    /\ referral' = IF referral = [status |-> "PENDING", order |-> seen[w]]
                   THEN [referral EXCEPT !.status = "QUALIFIED"] ELSE referral
    /\ Step(w, "ack")
    /\ Keep(w)
    /\ UNCHANGED <<voided, entry>>

----------------------------------------------------------------------------
(* reverseForVoidedOrder *)

Reversing(w, place) == At(w, "REFERRAL_REVERSE", place)

ReverseFind(w) ==
    /\ Reversing(w, "start")
    /\ Step(w, IF referral.status = "NONE" THEN "ack" ELSE "mark")
    /\ UNCHANGED <<referralVars, seen>>

\* Outside the window no preparation of this order is between its statements.
NotBeingPrepared(o) ==
    "prepare" \in Windows \/ \A v \in Workers : Qualifying(v, "set") => job[v].o # o

ReverseUnmarked(w) ==  \* mutant: the order is not marked
    /\ Reversing(w, "mark") /\ NotBeingPrepared(Own(w))
    /\ Step(w, "read")
    /\ UNCHANGED <<referralVars, seen>>

ReverseMark(w) ==
    /\ Reversing(w, "mark") /\ NotBeingPrepared(Own(w))
    /\ voided' = voided \cup {Own(w)}
    /\ Step(w, "read")
    /\ UNCHANGED <<referral, entry, seen>>

ReverseRead(w) ==
    /\ Reversing(w, "read")
    /\ Step(w, IF referral.order = Own(w) THEN "reverse1" ELSE "ack")
    /\ UNCHANGED <<referralVars, seen>>

UntakenBack(e) == IF e = "granted" THEN "reversed" ELSE e  \* mutant: no tombstone
\* reverseReward, under the account's row lock: what was granted is taken back
\* once, and what was not is barred by a zero-point tombstone.
TakenBack(e) ==
    CASE e = "granted" -> "reversed"
      [] e = "none"    -> "tombstone"
      [] OTHER         -> e

\* One side: the order's key, then the key from before keys named the order.
\* Nothing is granted under the latter any more, so the two calls are one step.
Reverse(w, from, s, to) ==
    /\ Reversing(w, from)
    /\ entry' = [entry EXCEPT ![s][Own(w)] = TakenBack(@), ![s][Legacy] = TakenBack(@)]
    /\ Step(w, to)
    /\ UNCHANGED <<referral, voided, seen>>

ReverseReferrer(w) == Reverse(w, "reverse1", "referrer", "reverse2")
ReverseReferee(w) == Reverse(w, "reverse2", "referee", "reopen")

ReopenNever(w) ==  \* mutant: the referral stays with the voided order
    /\ Reversing(w, "reopen")
    /\ Step(w, "ack")
    /\ UNCHANGED <<referralVars, seen>>

ReverseReopen(w) ==
    /\ Reversing(w, "reopen")
    /\ referral' = IF referral.order = Own(w)
                   THEN [status |-> "PENDING", order |-> NoOrder] ELSE referral
    /\ Step(w, "ack")
    /\ UNCHANGED <<voided, entry, seen>>

----------------------------------------------------------------------------

QualifyStep(w) ==
    \/ QualifyFind(w) \/ QualifyCheck(w) \/ PrepareRead(w) \/ PrepareSet(w)
    \/ QualifyRecheck(w) \/ RewardReferrer(w) \/ RewardReferee(w)
    \/ QualifyRead(w) \/ QualifyClose(w)

ReverseStep(w) ==
    \/ ReverseFind(w) \/ ReverseMark(w) \/ ReverseRead(w)
    \/ ReverseReferrer(w) \/ ReverseReferee(w) \/ ReverseReopen(w)

Next ==
    \/ Redeem
    \/ SaleStep /\ UNCHANGED <<referralVars, seen>>
    \/ \E w \in Workers :
          \/ QualifyStep(w) \/ ReverseStep(w) \/ StatusUnknown(w)
          \/ /\ \/ \E o \in Orders, k \in Topics : Take(w, o, k)
                \/ \E o \in Orders, k \in VoidTopics : ReverseInline(w, o, k)
                \/ Deliver(w) \/ Finish(w) \/ Abort(w) \/ Crash(w)
             /\ Keep(w)
             /\ UNCHANGED referralVars

Spec == Init /\ [][Next]_vars

\* Handlers run to their end, and the sweep takes a row that stays due again.
Fairness ==
    /\ \A w \in Workers :
          /\ WF_vars(QualifyStep(w) \/ ReverseStep(w))
          /\ WF_vars((Deliver(w) \/ Finish(w)) /\ Keep(w) /\ UNCHANGED referralVars)
    /\ \A o \in Orders, k \in Topics :
          WF_vars(\E w \in Workers : Take(w, o, k) /\ Keep(w) /\ UNCHANGED referralVars)

FairSpec == Spec /\ Fairness

----------------------------------------------------------------------------
(* Safety *)

\* qualify and reverseForVoidedOrder: however deliveries overlap, a bonus is
\* kept only for the order the row names, so a customer is never rewarded for
\* two orders; a grant that comes after its reversal does not land.
GrantFollowsTheRow ==
    \A s \in Sides :
        /\ \A o \in Orders : entry[s][o] = "granted" => referral.order = o
        /\ entry[s][Legacy] = "granted" => referral.status = "QUALIFIED"

\* "Reward both parties before the PENDING->QUALIFIED transition": a closed
\* referral has paid both sides, unless its order was voided.
QualifiedIsPaid ==
    referral.status = "QUALIFIED" =>
        \/ order[referral.order] = "VOIDED"
        \/ \A s \in Sides : "granted" \in {entry[s][referral.order], entry[s][Legacy]}

\* "A void can land while qualification is in flight; loyalty tombstones block
\* late grants": after the reversal was delivered nothing of the order is left.
VoidedKeepsNothing ==
    \A o \in Orders :
        order[o] = "VOIDED" /\ row[o]["REFERRAL_REVERSE"].state = "DONE" =>
            referral.order # o /\ \A s \in Sides : entry[s][o] # "granted"

----------------------------------------------------------------------------
(* Liveness *)

\* The bonus of a voided sale is taken back and the referral reopened, unless
\* an operator is told.
VoidedIsTakenBack ==
    \A o \in WalkIns :
        order[o] = "VOIDED" ~>
            \/ referral.order # o /\ \A s \in Sides : entry[s][o] # "granted"
            \/ row[o]["REFERRAL_REVERSE"].state = "DEAD"

=============================================================================
