--------------------------- MODULE ReferralProofs ---------------------------
(***************************************************************************)
(* Proofs about Referral, for every set of orders and workers and any      *)
(* number of attempts and slips.                                           *)
(***************************************************************************)
EXTENDS Referral, SaleOutboxProofs

----------------------------------------------------------------------------
(* The inductive invariant *)

Barred(s, k) == entry[s][k] \in {"reversed", "tombstone"}

\* Only what a voided sale earned is taken back.
ReversalsAreOfVoided ==
    /\ \A o \in Orders : row[o]["REFERRAL_REVERSE"].state # "NONE" => order[o] = "VOIDED"
    /\ \A o \in inline : order[o] = "VOIDED"
    /\ \A w \in Workers : job[w] # NoJob /\ job[w].topic = "REFERRAL_REVERSE"
                             => order[job[w].o] = "VOIDED"
    /\ \A s \in Sides, o \in Orders : Barred(s, o) => order[o] = "VOIDED"

RowFits ==
    /\ referral.status = "QUALIFIED" => referral.order \in Orders
    /\ referral.status = "NONE" => referral.order = NoOrder

\* What a handler qualifying an order has established by its step: the order it
\* read is the row's or has been taken back, and the sides before have had
\* their answer.
QualifierFits(w) ==
    /\ \A at \in {"recheck", "reward1", "reward2", "qualify", "close"} :
          Qualifying(w, at) => seen[w] \in Orders
    /\ \A at \in {"recheck", "reward1", "reward2"} :
          Qualifying(w, at) =>
             referral.order = seen[w] \/ \A s \in Sides : Barred(s, seen[w])
    /\ \A at \in {"reward2", "qualify", "close"} :
          Qualifying(w, at) => entry["referrer"][seen[w]] # "none"
    /\ \A at \in {"qualify", "close"} :
          Qualifying(w, at) => entry["referee"][seen[w]] # "none"

\* What a handler reversing an order has established.
ReverserFits(w) ==
    /\ \A at \in {"reverse1", "reverse2", "reopen"} :
          Reversing(w, at) => \/ referral.order = Own(w)
                              \/ \A s \in Sides : entry[s][Legacy] # "granted"
    /\ \A at \in {"reverse2", "reopen"} :
          Reversing(w, at) => Barred("referrer", Own(w)) /\ entry["referrer"][Legacy] # "granted"
    /\ Reversing(w, "reopen") => Barred("referee", Own(w)) /\ entry["referee"][Legacy] # "granted"

ReferralInv ==
    /\ ReversalsAreOfVoided
    /\ RowFits
    /\ \A w \in Workers : QualifierFits(w) /\ ReverserFits(w)
    /\ GrantFollowsTheRow
    /\ QualifiedIsPaid

\* An order that has been reversed is not taken up again.
Closed(o) ==
    /\ order[o] = "VOIDED"
    /\ referral.status = "NONE" \/ (o \in voided /\ referral.order # o)

VoidInv ==
    /\ \A o \in Orders : row[o]["REFERRAL_REVERSE"].state = "DONE" => Closed(o)
    /\ \A w \in Workers :
          /\ Qualifying(w, "set") => Own(w) \notin voided
          /\ \A at \in {"read", "reverse1", "reverse2", "reopen"} :
                Reversing(w, at) => Own(w) \in voided
          /\ Reversing(w, "ack") => Closed(Own(w))

----------------------------------------------------------------------------
(* Typing *)

\* Every disjunct of Next for one worker.
OutboxStep(w) ==
    \/ \E o \in Orders, k \in Topics : Take(w, o, k)
    \/ \E o \in Orders, k \in VoidTopics : ReverseInline(w, o, k)
    \/ Deliver(w) \/ Finish(w) \/ Abort(w) \/ Crash(w)

LEMMA TopicFacts ==
    /\ Topics = {"REFERRAL_QUALIFY", "REFERRAL_REVERSE"}
    /\ EffectTopics = {"REFERRAL_QUALIFY"} /\ VoidTopics = {"REFERRAL_REVERSE"}
BY ReferralTopics DEF Topics

\* A job keeps its order and topic when it only moves to another place.
LEMMA GotoMoves ==
    ASSUME TypeOK, NEW w \in Workers, job[w] # NoJob,
           NEW place \in Places, Goto(w, place)
    PROVE  /\ job' \in [Workers -> Job(Places) \cup {NoJob}]
           /\ \A v \in Workers : v # w => job'[v] = job[v]
           /\ job'[w] # NoJob =>
                 /\ job'[w].o = job[w].o /\ job'[w].topic = job[w].topic
                 /\ job'[w].at = place
<1>1. job[w] \in Job(Places)
  BY DEF TypeOK, OutboxTypeOK
<1>2. /\ \A v \in Workers : v # w => job'[v] = job[v]
      /\ job'[w] = Moved(job[w], place)
  BY DEF Goto, TypeOK, OutboxTypeOK
<1>3. \/ job'[w] = NoJob
      \/ job'[w] \in Job(Places) /\ job'[w] = [job[w] EXCEPT !.at = place]
  BY <1>1, <1>2 DEF Moved, Job
<1>4. job' \in [Workers -> Job(Places) \cup {NoJob}]
  BY <1>3 DEF Goto, TypeOK, OutboxTypeOK
<1>5. job'[w] # NoJob =>
          /\ job'[w].o = job[w].o /\ job'[w].topic = job[w].topic
          /\ job'[w].at = place
  BY <1>1, <1>3 DEF Job
<1>6. QED
  BY <1>2, <1>4, <1>5

LEMMA StepTyping ==
    ASSUME TypeOK, NEW w \in Workers, job[w] # NoJob,
           NEW place \in Places, Step(w, place)
    PROVE  OutboxTypeOK(Places)'
<1>1. OutboxTypeOK(Places) /\ slips' \in 0..MaxSlips
  BY DEF TypeOK, OutboxTypeOK, RowsTypeOK, Step
<1> QED
  BY <1>1, GotoTyping DEF Step, OutboxTypeOK

LEMMA SeenTyping ==
    ASSUME TypeOK, NEW w \in Workers,
           Keep(w) \/ \E o \in Orders \cup {NoOrder} : Learn(w, o)
    PROVE  seen' \in [Workers -> Orders \cup {NoOrder}]
BY DEF TypeOK, Keep, Learn

LEMMA JobFacts ==
    ASSUME TypeOK, NEW w \in Workers, job[w] # NoJob
    PROVE  /\ job[w].o \in Orders /\ job[w].topic \in Topics
           /\ job[w].at \in Places /\ job[w].owned \in BOOLEAN
BY DEF TypeOK, OutboxTypeOK, Job

LEMMA QualifyTyping ==
    ASSUME TypeOK, NEW w \in Workers, QualifyStep(w)
    PROVE  TypeOK'
<1> USE DEF Qualifying, At
<1>0. job[w] # NoJob /\ Own(w) \in Orders
  BY JobFacts DEF QualifyStep, QualifyFind, QualifyCheck, PrepareRead, PrepareSet,
     QualifyRecheck, RewardReferrer, RewardReferee, Reward, QualifyRead, QualifyClose, Own
<1>1. {"ack", "fail", "check", "prepare", "set", "recheck", "reward1", "reward2", "qualify",
       "close"} \subseteq Places
  BY DEF Places, Ends, QualifySteps
<1>2. CASE QualifyFind(w)
  <2>1. OutboxTypeOK(Places)'
    BY <1>0, <1>1, <1>2, StepTyping DEF QualifyFind
  <2>2. seen' \in [Workers -> Orders \cup {NoOrder}]
    BY <1>2, SeenTyping DEF QualifyFind, TypeOK
  <2>3. QED
    BY <1>2, <2>1, <2>2 DEF QualifyFind, TypeOK, referralVars
<1>3. CASE QualifyCheck(w)
  <2>1. OutboxTypeOK(Places)'
    BY <1>0, <1>1, <1>3, StepTyping DEF QualifyCheck
  <2>2. QED
    BY <1>3, <2>1, SeenTyping DEF QualifyCheck, TypeOK, referralVars
<1>4. CASE PrepareRead(w)
  <2>1. OutboxTypeOK(Places)'
    BY <1>0, <1>1, <1>4, StepTyping DEF PrepareRead
  <2>2. QED
    BY <1>4, <2>1 DEF PrepareRead, TypeOK, referralVars
<1>5. CASE PrepareSet(w)
  <2>1. OutboxTypeOK(Places)'
    BY <1>0, <1>1, <1>5, StepTyping DEF PrepareSet
  <2>2. referral' \in [status : Statuses, order : Orders \cup {NoOrder}]
    BY <1>0, <1>5 DEF PrepareSet, TypeOK
  <2>3. seen' \in [Workers -> Orders \cup {NoOrder}]
    BY <1>5, <2>2, SeenTyping DEF PrepareSet
  <2>4. QED
    BY <1>5, <2>1, <2>2, <2>3 DEF PrepareSet, TypeOK
<1>6. CASE QualifyRecheck(w)
  <2>1. OutboxTypeOK(Places)'
    BY <1>0, <1>1, <1>6, StepTyping DEF QualifyRecheck
  <2>2. QED
    BY <1>6, <2>1, SeenTyping DEF QualifyRecheck, TypeOK, referralVars
<1>7. ASSUME NEW s \in Sides, NEW from \in {"reward1", "reward2"},
             NEW to \in {"reward2", "qualify"}, Reward(w, from, s, to)
      PROVE  TypeOK'
  <2>1. OutboxTypeOK(Places)'
    BY <1>0, <1>1, <1>7, StepTyping DEF Reward
  <2>2. entry' \in [Sides -> [Keys -> EntryStates]]
    BY <1>7 DEF Reward, Granted, TypeOK, EntryStates
  <2>3. QED
    BY <1>7, <2>1, <2>2 DEF Reward, TypeOK
<1>8. CASE QualifyRead(w)
  <2>1. OutboxTypeOK(Places)'
    BY <1>0, <1>1, <1>8, StepTyping DEF QualifyRead
  <2>2. QED
    BY <1>8, <2>1, SeenTyping DEF QualifyRead, TypeOK, referralVars
<1>9. CASE QualifyClose(w)
  <2>1. OutboxTypeOK(Places)'
    BY <1>0, <1>1, <1>9, StepTyping DEF QualifyClose
  <2>2. referral' \in [status : Statuses, order : Orders \cup {NoOrder}]
    BY <1>9 DEF QualifyClose, TypeOK, Statuses
  <2>3. QED
    BY <1>9, <2>1, <2>2, SeenTyping DEF QualifyClose, TypeOK
<1>10. QED
  BY <1>2, <1>3, <1>4, <1>5, <1>6, <1>7, <1>8, <1>9
     DEF QualifyStep, RewardReferrer, RewardReferee, Sides

LEMMA ReverseTyping ==
    ASSUME TypeOK, NEW w \in Workers, ReverseStep(w)
    PROVE  TypeOK'
<1> USE DEF Reversing, At
<1>0. job[w] # NoJob /\ Own(w) \in Orders
  BY JobFacts DEF ReverseStep, ReverseFind, ReverseMark, ReverseRead, ReverseReferrer,
     ReverseReferee, Reverse, ReverseReopen, Own
<1>1. {"ack", "mark", "read", "reverse1", "reverse2", "reopen"} \subseteq Places
  BY DEF Places, Ends, ReverseSteps
<1>2. CASE ReverseFind(w)
  <2>1. OutboxTypeOK(Places)'
    BY <1>0, <1>1, <1>2, StepTyping DEF ReverseFind
  <2>2. QED
    BY <1>2, <2>1 DEF ReverseFind, TypeOK, referralVars
<1>3. CASE ReverseMark(w)
  <2>1. OutboxTypeOK(Places)'
    BY <1>0, <1>1, <1>3, StepTyping DEF ReverseMark
  <2>2. QED
    BY <1>0, <1>3, <2>1 DEF ReverseMark, TypeOK
<1>4. CASE ReverseRead(w)
  <2>1. OutboxTypeOK(Places)'
    BY <1>0, <1>1, <1>4, StepTyping DEF ReverseRead
  <2>2. QED
    BY <1>4, <2>1 DEF ReverseRead, TypeOK, referralVars
<1>5. ASSUME NEW s \in Sides, NEW from \in {"reverse1", "reverse2"},
             NEW to \in {"reverse2", "reopen"}, Reverse(w, from, s, to)
      PROVE  TypeOK'
  <2>1. OutboxTypeOK(Places)'
    BY <1>0, <1>1, <1>5, StepTyping DEF Reverse
  <2>2. \A e \in EntryStates : TakenBack(e) \in EntryStates
    BY DEF TakenBack, EntryStates
  <2>3. Own(w) \in Keys /\ Legacy \in Keys
    BY <1>0 DEF Keys
  <2>4. entry' \in [Sides -> [Keys -> EntryStates]]
    BY <1>5, <2>2, <2>3 DEF Reverse, TypeOK
  <2>5. QED
    BY <1>5, <2>1, <2>4 DEF Reverse, TypeOK
<1>6. CASE ReverseReopen(w)
  <2>1. OutboxTypeOK(Places)'
    BY <1>0, <1>1, <1>6, StepTyping DEF ReverseReopen
  <2>2. referral' \in [status : Statuses, order : Orders \cup {NoOrder}]
    BY <1>6 DEF ReverseReopen, TypeOK, Statuses
  <2>3. QED
    BY <1>6, <2>1, <2>2 DEF ReverseReopen, TypeOK
<1>7. QED
  BY <1>2, <1>3, <1>4, <1>5, <1>6
     DEF ReverseStep, ReverseReferrer, ReverseReferee, Sides

LEMMA OutboxTyping ==
    ASSUME TypeOK, NEW w \in Workers, OutboxStep(w), Keep(w), UNCHANGED referralVars
    PROVE  TypeOK'
<1>1. /\ OutboxTypeOK(Places) /\ VoidTopics \subseteq Topics
      /\ {"deliver", "start", "ack"} \subseteq Places /\ "start" \notin Ends
  BY DEF TypeOK, Topics, Places, Ends
<1>2. ASSUME NEW o \in Orders, NEW k \in VoidTopics, ReverseInline(w, o, k)
      PROVE  OutboxTypeOK(Places)'
  BY <1>1, <1>2, InlineTyping DEF ReverseInline, OutboxTypeOK
<1>3. OutboxTypeOK(Places)'
  BY <1>1, <1>2, TakeTyping, DeliverTyping, FinishTyping, AbortTyping, CrashTyping
     DEF OutboxStep, OutboxTypeOK
<1> QED
  BY <1>3, SeenTyping DEF TypeOK, referralVars

\* Next, with the outbox's disjuncts named.
LEMMA NextCases ==
    ASSUME Next
    PROVE  \/ Redeem
           \/ SaleStep /\ UNCHANGED <<referralVars, seen>>
           \/ \E w \in Workers :
                 \/ QualifyStep(w) \/ ReverseStep(w) \/ StatusUnknown(w)
                 \/ OutboxStep(w) /\ Keep(w) /\ UNCHANGED referralVars
BY DEF Next, OutboxStep

\* TypeOK holds in every reachable state.
LEMMA InitTyping == Init => TypeOK
<1>1. SUFFICES ASSUME Init PROVE TypeOK
  OBVIOUS
<1>2. CASE OutboxInit
  BY <1>1, <1>2, OutboxStarts DEF Init, TypeOK, Statuses, EntryStates
<1>3. ASSUME ~OutboxInit PROVE TypeOK
  <2>1. PICK o \in Orders :
          /\ order = [p \in Orders |-> IF p = o THEN "COMPLETED" ELSE "OPEN"]
          /\ row = [p \in Orders |-> [k \in Topics |->
                [state |-> IF p = o /\ k \in EffectTopics THEN "DONE" ELSE "NONE",
                 tries |-> 0]]]
          /\ job = [w \in Workers |-> NoJob]
          /\ inline = {} /\ slips = 0
          /\ referral = [status |-> "QUALIFIED", order |-> o]
          /\ entry = [s \in Sides |-> [k \in Keys |->
                         IF k = Legacy THEN "granted" ELSE "none"]]
    BY <1>1, <1>3 DEF Init
  <2>2. row \in [Orders -> [Topics -> Row]]
    BY <2>1 DEF Row, RowStates
  <2>3. OutboxTypeOK(Places)
    BY <2>1, <2>2, OutboxAssumption
       DEF OutboxTypeOK, RowsTypeOK, RowsCounted, SaleStatuses, Topics
  <2>4. QED
    BY <1>1, <2>1, <2>3 DEF Init, TypeOK, Statuses, EntryStates
<1>4. QED
  BY <1>2, <1>3

LEMMA NextTyping == TypeOK /\ [Next]_vars => TypeOK'
<1>1. SUFFICES ASSUME TypeOK, [Next]_vars PROVE TypeOK'
  OBVIOUS
<1>2. CASE Redeem
  BY <1>1, <1>2 DEF Redeem, TypeOK, OutboxTypeOK, RowsTypeOK, RowsCounted, Sourced, outboxVars,
     Statuses
<1>3. CASE SaleStep /\ UNCHANGED <<referralVars, seen>>
  BY <1>1, <1>3, SaleTyping DEF TypeOK, OutboxTypeOK, referralVars
<1>4. ASSUME NEW w \in Workers, QualifyStep(w) PROVE TypeOK'
  BY <1>1, <1>4, QualifyTyping
<1>5. ASSUME NEW w \in Workers, ReverseStep(w) PROVE TypeOK'
  BY <1>1, <1>5, ReverseTyping
<1>6. ASSUME NEW w \in Workers, StatusUnknown(w) PROVE TypeOK'
  <2>1. job[w] # NoJob /\ "fail" \in Places /\ MaxSlips \in Nat
    BY <1>6, OutboxAssumption DEF StatusUnknown, Qualifying, At, Places, Ends
  <2>2. OutboxTypeOK(Places)'
    <3>1. OutboxTypeOK(Places) /\ slips' \in 0..MaxSlips
      BY <1>1, <1>6, <2>1 DEF StatusUnknown, TypeOK, OutboxTypeOK, RowsTypeOK
    <3>2. QED
      BY <1>6, <2>1, <3>1, GotoTyping DEF StatusUnknown, OutboxTypeOK
  <2>3. seen' \in [Workers -> Orders \cup {NoOrder}]
    BY <1>1, <1>6, SeenTyping DEF StatusUnknown
  <2>4. QED
    BY <1>1, <1>6, <2>2, <2>3 DEF StatusUnknown, TypeOK, referralVars
<1>7. ASSUME NEW w \in Workers, OutboxStep(w), Keep(w), UNCHANGED referralVars PROVE TypeOK'
  BY <1>1, <1>7, OutboxTyping
<1>8. CASE UNCHANGED vars
  BY <1>1, <1>8 DEF vars, outboxVars, TypeOK, OutboxTypeOK, RowsTypeOK, RowsCounted, Sourced
<1>9. QED
  BY <1>1, <1>2, <1>3, <1>4, <1>5, <1>6, <1>7, <1>8, NextCases

\* The rows, the deliveries and loyalty's entries keep their types; a row is
\* there only once it is owed, and is given up only when its attempts are spent.
THEOREM Typing == Spec => []TypeOK
<1>1. Init => TypeOK
  BY InitTyping
<1>2. TypeOK /\ [Next]_vars => TypeOK'
  BY NextTyping
<1>3. QED
  BY <1>1, <1>2, PTL DEF Spec

----------------------------------------------------------------------------
(* What no step undoes *)

Lasting ==
    /\ \A o \in Orders : order[o] = "VOIDED" => order'[o] = "VOIDED"
    /\ \A s \in Sides, k \in Keys :
          /\ entry[s][k] \in {"reversed", "tombstone"} => entry'[s][k] \in {"reversed", "tombstone"}
          /\ entry[s][k] # "none" => entry'[s][k] # "none"
    /\ \A s \in Sides : entry[s][Legacy] # "granted" => entry'[s][Legacy] # "granted"
    /\ \A o \in Orders : referral.order = o =>
          \/ referral'.order = o
          \/ \A s \in Sides : /\ entry'[s][o] \in {"reversed", "tombstone"}
                              /\ entry'[s][Legacy] # "granted"

\* A job that stays where it is, and one with nothing established yet.
Still(w) ==
    job'[w] # NoJob =>
        /\ job[w] # NoJob /\ job'[w].at = job[w].at
        /\ job'[w].o = job[w].o /\ job'[w].topic = job[w].topic
        /\ seen'[w] = seen[w]
Early(w) ==
    job'[w] # NoJob =>
        job'[w].at \in {"deliver", "start", "ack", "fail", "check", "prepare", "set", "mark", "read"}

\* No job of w becomes a reversal, or changes its order.
SameJob(w) ==
    job'[w] # NoJob =>
        job[w] # NoJob /\ job'[w].o = job[w].o /\ job'[w].topic = job[w].topic

Fits(w) == QualifierFits(w) /\ ReverserFits(w)

LEMMA FitsLast ==
    ASSUME TypeOK, Lasting, NEW w \in Workers, Fits(w), Still(w) \/ Early(w)
    PROVE  Fits(w)'
<1> USE DEF Qualifying, Reversing, At, Own, Fits
<1>1. CASE Early(w)
  BY <1>1 DEF Early, QualifierFits, ReverserFits
<1>2. CASE Still(w) /\ job[w] # NoJob
  <2>1. job[w].o \in Orders /\ Orders \subseteq Keys /\ Sides = {"referrer", "referee"}
    BY <1>2, JobFacts DEF Keys, Sides
  <2>2. QualifierFits(w)'
    BY <1>2, <2>1 DEF Still, Lasting, QualifierFits, Barred
  <2>3. ReverserFits(w)'
    BY <1>2, <2>1 DEF Still, Lasting, ReverserFits, Barred
  <2>4. QED
    BY <2>2, <2>3
<1>3. CASE Still(w) /\ job'[w] = NoJob
  BY <1>3 DEF QualifierFits, ReverserFits
<1>4. QED
  BY <1>1, <1>2, <1>3 DEF Still

LEMMA OthersStill ==
    ASSUME TypeOK, NEW w \in Workers, job[w] # NoJob, NEW place \in Places, Goto(w, place),
           seen' = seen \/ Keep(w) \/ \E o : Learn(w, o)
    PROVE  /\ \A v \in Workers : v # w => Still(v)
           /\ \A v \in Workers : SameJob(v)
<1>1. \A v \in Workers : v # w => seen'[v] = seen[v]
  BY DEF TypeOK, Keep, Learn
<1>2. QED
  BY <1>1, GotoMoves DEF Still, SameJob

\* A step that leaves the sale, the referral and the ledger alone.
LEMMA QuietStep ==
    ASSUME TypeOK, ReferralInv,
           UNCHANGED <<order, referral, entry>>,
           \A o \in Orders : row'[o]["REFERRAL_REVERSE"].state # "NONE"
                                => row[o]["REFERRAL_REVERSE"].state # "NONE",
           inline' \subseteq inline,
           \A w \in Workers : SameJob(w) \/ (job'[w] # NoJob /\ order[job'[w].o] = "VOIDED")
                                         \/ (job'[w] # NoJob /\ job'[w].topic # "REFERRAL_REVERSE"),
           \A w \in Workers : Fits(w)'
    PROVE  ReferralInv'
<1>1. ReversalsAreOfVoided'
  BY DEF ReferralInv, ReversalsAreOfVoided, SameJob, Barred
<1>2. RowFits'
  BY DEF ReferralInv, RowFits
<1>3. GrantFollowsTheRow'
  BY DEF ReferralInv, GrantFollowsTheRow
<1>4. QualifiedIsPaid'
  BY DEF ReferralInv, QualifiedIsPaid
<1>5. QED
  BY <1>1, <1>2, <1>3, <1>4 DEF ReferralInv, Fits

LEMMA LastingWhenUnchanged == UNCHANGED <<order, referral, entry>> => Lasting
BY DEF Lasting

----------------------------------------------------------------------------
(* Qualification keeps ReferralInv *)

\* A step of a handler that only looks, and ends early.
LEMMA LookKeepsInv ==
    ASSUME TypeOK, ReferralInv, NEW w \in Workers, job[w] # NoJob,
           NEW place \in {"ack", "fail", "check", "prepare", "set", "mark", "read"},
           Goto(w, place),
           UNCHANGED <<order, row, inline, referral, entry>>,
           seen' = seen \/ Keep(w) \/ \E o : Learn(w, o)
    PROVE  ReferralInv'
<1>1. place \in Places
  BY DEF Places, Ends, QualifySteps, ReverseSteps
<1>2. Early(w)
  BY <1>1, GotoMoves DEF Early
<1>3. \A v \in Workers : SameJob(v) /\ (Still(v) \/ Early(v))
  BY <1>1, <1>2, OthersStill
<1>4. \A v \in Workers : Fits(v)'
  BY <1>3, FitsLast, LastingWhenUnchanged DEF ReferralInv, Fits
<1>5. QED
  BY <1>3, <1>4, QuietStep

LEMMA FitsAll ==
    ASSUME TypeOK, ReferralInv, NEW w \in Workers, job[w] # NoJob,
           NEW place \in Places, Goto(w, place), Lasting, Fits(w)',
           seen' = seen \/ Keep(w) \/ \E o : Learn(w, o)
    PROVE  \A v \in Workers : Fits(v)' /\ SameJob(v)
<1>1. \A v \in Workers : SameJob(v) /\ (v # w => Still(v))
  BY OthersStill
<1>2. QED
  BY <1>1, FitsLast DEF ReferralInv, Fits

LEMMA QualifyKeepsInv ==
    ASSUME TypeOK, TypeOK', ReferralInv, NEW w \in Workers, QualifyStep(w)
    PROVE  ReferralInv'
<1>1. CASE QualifyFind(w)
  <2>1. job[w] # NoJob
    BY <1>1 DEF QualifyFind, Qualifying, At
  <2>2. \E place \in {"ack", "prepare", "check"} : Goto(w, place)
    BY <1>1 DEF QualifyFind, Step
  <2>3. QED
    BY <1>1, <2>1, <2>2, LookKeepsInv DEF QualifyFind, Step, referralVars
<1>2. CASE QualifyCheck(w)
  <2>1. job[w] # NoJob
    BY <1>2 DEF QualifyCheck, Qualifying, At
  <2>2. \E place \in {"ack", "fail"} : Goto(w, place)
    BY <1>2 DEF QualifyCheck, Step
  <2>3. QED
    BY <1>2, <2>1, <2>2, LookKeepsInv DEF QualifyCheck, Step, referralVars
<1>3. CASE PrepareRead(w)
  <2>1. job[w] # NoJob
    BY <1>3 DEF PrepareRead, Qualifying, At
  <2>2. \E place \in {"ack", "set"} : Goto(w, place)
    BY <1>3 DEF PrepareRead, Step
  <2>3. QED
    BY <1>3, <2>1, <2>2, LookKeepsInv DEF PrepareRead, Step, referralVars
<1>4. CASE PrepareSet(w)
  <2> DEFINE place == IF referral.status # "PENDING" THEN "ack"
                      ELSE IF referral'.order = Own(w) THEN "reward1" ELSE "recheck"
  <2>1. job[w] # NoJob /\ job[w].topic = "REFERRAL_QUALIFY" /\ Own(w) \in Orders
    BY <1>4, JobFacts DEF PrepareSet, Qualifying, At, Own
  <2>2. place \in Places /\ Goto(w, place)
    BY <1>4 DEF PrepareSet, Step, Places, Ends, QualifySteps
  <2>3. /\ referral' \in [status : Statuses, order : Orders \cup {NoOrder}]
        /\ referral'.status = referral.status
        /\ referral'.order # referral.order =>
              /\ referral.status = "PENDING" /\ referral.order = NoOrder
              /\ referral'.order = Own(w)
        /\ referral.status = "PENDING" => referral'.order \in Orders
    BY <1>4, <2>1 DEF PrepareSet, TypeOK
  <2>4. Lasting
    BY <1>4, <2>3, KeysAssumption DEF PrepareSet, Lasting, Step
  <2>5. job'[w] # NoJob => job'[w].at = place /\ job'[w].topic = "REFERRAL_QUALIFY"
    BY <2>1, <2>2, GotoMoves
  <2>6. Fits(w)'
    <3>1. CASE referral.status # "PENDING"
      <4>1. place = "ack"
        BY <3>1
      <4>2. QED
        BY <2>5, <4>1 DEF Fits, QualifierFits, ReverserFits, Qualifying, Reversing, At
    <3>2. CASE referral.status = "PENDING" /\ job'[w] # NoJob
      <4>1. job'[w].at \in {"reward1", "recheck"}
        BY <2>5, <3>2
      <4>2. seen'[w] = referral'.order
        BY <1>4, <3>2, <4>1 DEF PrepareSet, Learn, Over, Ends, TypeOK
      <4>3. QED
        BY <2>3, <2>5, <3>2, <4>1, <4>2
           DEF Fits, QualifierFits, ReverserFits, Qualifying, Reversing, At
    <3>3. CASE job'[w] = NoJob
      BY <3>3 DEF Fits, QualifierFits, ReverserFits, Qualifying, Reversing, At
    <3>4. QED
      BY <3>1, <3>2, <3>3
  <2>7. \A v \in Workers : Fits(v)' /\ SameJob(v)
    BY <1>4, <2>1, <2>2, <2>4, <2>6, FitsAll DEF PrepareSet
  <2>8. ReversalsAreOfVoided'
    BY <1>4, <2>7 DEF PrepareSet, Step, ReferralInv, ReversalsAreOfVoided, SameJob, Barred
  <2>9. RowFits'
    BY <2>3 DEF ReferralInv, RowFits
  <2>10. GrantFollowsTheRow'
    BY <1>4, <2>3, KeysAssumption DEF PrepareSet, ReferralInv, GrantFollowsTheRow
  <2>11. QualifiedIsPaid'
    BY <1>4, <2>3 DEF PrepareSet, Step, ReferralInv, QualifiedIsPaid
  <2>12. QED
    BY <2>7, <2>8, <2>9, <2>10, <2>11 DEF ReferralInv, Fits
<1>5. CASE QualifyRecheck(w)
  <2>1. job[w] # NoJob /\ job[w].topic = "REFERRAL_QUALIFY" /\ Qualifying(w, "recheck")
    BY <1>5 DEF QualifyRecheck, Qualifying, At
  <2>2. PICK place \in {"fail", "reward1"} : Goto(w, place)
    BY <1>5 DEF QualifyRecheck, Step
  <2>3. place \in Places
    BY DEF Places, Ends, QualifySteps
  <2>4. Fits(w)'
    <3>1. job'[w] # NoJob => job'[w].at = place /\ job'[w].topic = "REFERRAL_QUALIFY"
      BY <2>1, <2>2, <2>3, GotoMoves
    <3>2. job'[w] # NoJob /\ place = "reward1" => seen'[w] = seen[w]
      BY <1>5, <3>1 DEF QualifyRecheck, Keep, Over, Ends, TypeOK
    <3>3. QualifierFits(w) /\ UNCHANGED <<referral, entry>>
      BY <1>5 DEF QualifyRecheck, referralVars, ReferralInv
    <3>4. QED
      BY <2>1, <3>1, <3>2, <3>3
         DEF Fits, QualifierFits, ReverserFits, Qualifying, Reversing, At, Barred
  <2>5. \A v \in Workers : Fits(v)' /\ SameJob(v)
    BY <1>5, <2>1, <2>2, <2>3, <2>4, FitsAll, LastingWhenUnchanged
       DEF QualifyRecheck, Step, referralVars
  <2>6. QED
    BY <1>5, <2>5, QuietStep DEF QualifyRecheck, Step, referralVars
<1>6. ASSUME NEW s \in Sides, NEW from, NEW to, Reward(w, from, s, to),
             \/ from = "reward1" /\ s = "referrer" /\ to = "reward2"
             \/ from = "reward2" /\ s = "referee" /\ to = "qualify"
      PROVE  ReferralInv'
  <2>1. /\ job[w] # NoJob /\ job[w].topic = "REFERRAL_QUALIFY" /\ Qualifying(w, from)
        /\ to \in Places /\ Goto(w, to) /\ seen' = seen
    BY <1>6 DEF Reward, Step, Qualifying, At, Places, QualifySteps
  <2>2. /\ QualifierFits(w) /\ seen[w] \in Orders /\ seen[w] \in Keys /\ seen[w] # Legacy
        /\ referral.order = seen[w] \/ \A r \in Sides : Barred(r, seen[w])
    BY <1>6, <2>1, KeysAssumption DEF ReferralInv, QualifierFits, Keys
  <2>3. \A r \in Sides, k \in Keys :
           entry'[r][k] = IF r = s /\ k = seen[w] /\ entry[r][k] = "none"
                          THEN "granted" ELSE entry[r][k]
    BY <1>6, <2>2 DEF Reward, Granted, TypeOK
  <2>4. Lasting
    BY <1>6, <2>2, <2>3 DEF Reward, Step, Lasting, Keys
  <2>5. Fits(w)'
    <3>1. job'[w] # NoJob => job'[w].at = to /\ job'[w].topic = "REFERRAL_QUALIFY"
      BY <2>1, GotoMoves
    <3>2. Sides = {"referrer", "referee"} /\ referral' = referral
      BY <1>6 DEF Sides, Reward
    <3>3. QED
      BY <1>6, <2>1, <2>2, <2>3, <3>1, <3>2
         DEF Fits, QualifierFits, ReverserFits, Qualifying, Reversing, At, Barred
  <2>6. \A v \in Workers : Fits(v)' /\ SameJob(v)
    BY <2>1, <2>4, <2>5, FitsAll
  <2>7. UNCHANGED <<order, row, inline, referral>>
    BY <1>6 DEF Reward, Step
  <2>8. ReversalsAreOfVoided'
    BY <2>3, <2>6, <2>7 DEF ReferralInv, ReversalsAreOfVoided, SameJob, Barred, Keys
  <2>9. RowFits'
    BY <2>7 DEF ReferralInv, RowFits
  <2>10. GrantFollowsTheRow'
    BY <2>2, <2>3, <2>7 DEF ReferralInv, GrantFollowsTheRow, Barred, Keys
  <2>11. QualifiedIsPaid'
    BY <2>3, <2>7 DEF ReferralInv, QualifiedIsPaid, RowFits, Keys
  <2>12. QED
    BY <2>6, <2>8, <2>9, <2>10, <2>11 DEF ReferralInv, Fits
<1>7. CASE QualifyRead(w)
  <2>1. job[w] # NoJob /\ job[w].topic = "REFERRAL_QUALIFY" /\ Qualifying(w, "qualify")
    BY <1>7 DEF QualifyRead, Qualifying, At
  <2>2. PICK place \in {"ack", "close"} : Goto(w, place)
    BY <1>7 DEF QualifyRead, Step
  <2>3. place \in Places
    BY DEF Places, Ends, QualifySteps
  <2>4. Fits(w)'
    <3>1. job'[w] # NoJob => job'[w].at = place /\ job'[w].topic = "REFERRAL_QUALIFY"
      BY <2>1, <2>2, <2>3, GotoMoves
    <3>2. job'[w] # NoJob /\ place = "close" => seen'[w] = seen[w]
      BY <1>7, <3>1 DEF QualifyRead, Keep, Over, Ends, TypeOK
    <3>3. QualifierFits(w) /\ UNCHANGED <<referral, entry>>
      BY <1>7 DEF QualifyRead, referralVars, ReferralInv
    <3>4. QED
      BY <2>1, <3>1, <3>2, <3>3
         DEF Fits, QualifierFits, ReverserFits, Qualifying, Reversing, At, Barred
  <2>5. \A v \in Workers : Fits(v)' /\ SameJob(v)
    BY <1>7, <2>1, <2>2, <2>3, <2>4, FitsAll, LastingWhenUnchanged
       DEF QualifyRead, Step, referralVars
  <2>6. QED
    BY <1>7, <2>5, QuietStep DEF QualifyRead, Step, referralVars
<1>8. CASE QualifyClose(w)
  <2>1. /\ job[w] # NoJob /\ job[w].topic = "REFERRAL_QUALIFY" /\ Qualifying(w, "close")
        /\ "ack" \in Places /\ Goto(w, "ack")
    BY <1>8 DEF QualifyClose, Step, Qualifying, At, Places, Ends
  <2>2. /\ seen[w] \in Orders
        /\ entry["referrer"][seen[w]] # "none" /\ entry["referee"][seen[w]] # "none"
    BY <2>1 DEF ReferralInv, QualifierFits
  <2>3. /\ referral'.order = referral.order
        /\ referral'.status # referral.status =>
              referral.order = seen[w] /\ referral.status = "PENDING" /\ referral'.status = "QUALIFIED"
    BY <1>8 DEF QualifyClose, TypeOK
  <2>4. UNCHANGED <<order, row, inline, voided, entry>>
    BY <1>8 DEF QualifyClose, Step
  <2>5. Lasting
    BY <2>3, <2>4 DEF Lasting
  <2>6. Fits(w)'
    BY <2>1, GotoMoves DEF Fits, QualifierFits, ReverserFits, Qualifying, Reversing, At
  <2>7. \A v \in Workers : Fits(v)' /\ SameJob(v)
    BY <1>8, <2>1, <2>5, <2>6, FitsAll DEF QualifyClose
  <2>8. ReversalsAreOfVoided'
    BY <2>4, <2>7 DEF ReferralInv, ReversalsAreOfVoided, SameJob, Barred
  <2>9. RowFits'
    BY <2>2, <2>3 DEF ReferralInv, RowFits
  <2>10. GrantFollowsTheRow'
    BY <2>3, <2>4 DEF ReferralInv, GrantFollowsTheRow
  <2>11. QualifiedIsPaid'
    <3>1. CASE referral'.status = referral.status
      BY <2>3, <2>4, <3>1 DEF ReferralInv, QualifiedIsPaid
    <3>2. CASE referral'.status # referral.status
      <4>1. \A s \in Sides : entry[s][seen[w]] = "granted" \/ Barred(s, seen[w])
        BY <2>2 DEF Sides, Barred, TypeOK, EntryStates, Keys
      <4>2. order[seen[w]] = "VOIDED" \/ \A s \in Sides : entry[s][seen[w]] = "granted"
        BY <2>2, <4>1 DEF ReferralInv, ReversalsAreOfVoided
      <4>3. QED
        BY <2>3, <2>4, <3>2, <4>2 DEF QualifiedIsPaid
    <3>3. QED
      BY <3>1, <3>2
  <2>12. QED
    BY <2>7, <2>8, <2>9, <2>10, <2>11 DEF ReferralInv, Fits
<1>9. QED
  BY <1>1, <1>2, <1>3, <1>4, <1>5, <1>6, <1>7, <1>8
     DEF QualifyStep, RewardReferrer, RewardReferee, Sides

----------------------------------------------------------------------------
(* Reversal and the rest keep ReferralInv *)

LEMMA ReverseKeepsInv ==
    ASSUME TypeOK, TypeOK', ReferralInv, NEW w \in Workers, ReverseStep(w)
    PROVE  ReferralInv'
<1>1. CASE ReverseFind(w)
  <2>1. job[w] # NoJob
    BY <1>1 DEF ReverseFind, Reversing, At
  <2>2. \E place \in {"ack", "mark"} : Goto(w, place)
    BY <1>1 DEF ReverseFind, Step
  <2>3. QED
    BY <1>1, <2>1, <2>2, LookKeepsInv DEF ReverseFind, Step, referralVars
<1>2. CASE ReverseMark(w)
  <2>1. job[w] # NoJob
    BY <1>2 DEF ReverseMark, Reversing, At
  <2>2. Goto(w, "read")
    BY <1>2 DEF ReverseMark, Step
  <2>3. QED
    BY <1>2, <2>1, <2>2, LookKeepsInv DEF ReverseMark, Step
<1>3. CASE ReverseRead(w)
  <2>1. /\ job[w] # NoJob /\ job[w].topic = "REFERRAL_REVERSE"
        /\ UNCHANGED <<order, row, inline, referral, entry, seen>>
    BY <1>3 DEF ReverseRead, Reversing, At, Step, referralVars
  <2>2. PICK place \in {"ack", "reverse1"} :
           Goto(w, place) /\ (place = "reverse1" => referral.order = Own(w))
    BY <1>3 DEF ReverseRead, Step
  <2>3. place \in Places
    BY DEF Places, Ends, ReverseSteps
  <2>4. Fits(w)'
    <3>1. job'[w] # NoJob => /\ job'[w].at = place /\ job'[w].topic = "REFERRAL_REVERSE"
                             /\ job'[w].o = job[w].o
      BY <2>1, <2>2, <2>3, GotoMoves
    <3>2. QED
      BY <2>1, <2>2, <3>1
         DEF Fits, QualifierFits, ReverserFits, Qualifying, Reversing, At, Own
  <2>5. \A v \in Workers : Fits(v)' /\ SameJob(v)
    BY <2>1, <2>2, <2>3, <2>4, FitsAll, LastingWhenUnchanged
  <2>6. QED
    BY <2>1, <2>5, QuietStep
<1>4. ASSUME NEW s \in Sides, NEW from, NEW to, Reverse(w, from, s, to),
             \/ from = "reverse1" /\ s = "referrer" /\ to = "reverse2"
             \/ from = "reverse2" /\ s = "referee" /\ to = "reopen"
      PROVE  ReferralInv'
  <2>1. /\ job[w] # NoJob /\ job[w].topic = "REFERRAL_REVERSE" /\ Reversing(w, from)
        /\ to \in Places /\ Goto(w, to)
        /\ UNCHANGED <<order, row, inline, referral, voided, seen>>
    BY <1>4 DEF Reverse, Step, Reversing, At, Places, ReverseSteps
  <2>2. /\ Own(w) \in Orders /\ Own(w) \in Keys /\ Legacy \in Keys /\ Own(w) # Legacy
        /\ order[Own(w)] = "VOIDED"
    BY <2>1, JobFacts, KeysAssumption DEF Own, Keys, ReferralInv, ReversalsAreOfVoided
  <2>3. /\ ReverserFits(w)
        /\ referral.order = Own(w) \/ \A r \in Sides : entry[r][Legacy] # "granted"
    BY <1>4, <2>1 DEF ReferralInv, ReverserFits
  <2>4. \A r \in Sides, k \in Keys :
           entry'[r][k] = IF r = s /\ k \in {Own(w), Legacy}
                          THEN TakenBack(entry[r][k]) ELSE entry[r][k]
    BY <1>4, <2>2 DEF Reverse, TypeOK
  <2>5. \A e \in EntryStates :
           /\ TakenBack(e) \in {"reversed", "tombstone"}
           /\ e \in {"reversed", "tombstone"} => TakenBack(e) = e
    BY DEF TakenBack, EntryStates
  <2>6. \A r \in Sides, k \in Keys : entry[r][k] \in EntryStates
    BY DEF TypeOK
  <2>7. Lasting
    BY <2>1, <2>2, <2>4, <2>5, <2>6 DEF Lasting
  <2>8. Fits(w)'
    <3>1. job'[w] # NoJob => /\ job'[w].at = to /\ job'[w].topic = "REFERRAL_REVERSE"
                             /\ job'[w].o = job[w].o
      BY <2>1, GotoMoves
    <3>2. Sides = {"referrer", "referee"}
      BY DEF Sides
    <3>3. /\ entry'[s][Own(w)] \in {"reversed", "tombstone"}
          /\ entry'[s][Legacy] \in {"reversed", "tombstone"}
      BY <2>2, <2>4, <2>5, <2>6
    <3>4. \A r \in Sides : entry[r][Legacy] # "granted" => entry'[r][Legacy] # "granted"
      BY <2>7 DEF Lasting
    <3>5. from = "reverse2" => /\ entry'["referrer"][Own(w)] \in {"reversed", "tombstone"}
                               /\ entry'["referrer"][Legacy] # "granted"
      BY <2>1, <2>2, <2>3, <2>7, <3>2 DEF ReverserFits, Barred, Lasting
    <3>6. QED
      BY <1>4, <2>1, <2>3, <3>1, <3>2, <3>3, <3>4, <3>5
         DEF Fits, QualifierFits, ReverserFits, Qualifying, Reversing, At, Barred, Own
  <2>9. \A v \in Workers : Fits(v)' /\ SameJob(v)
    BY <2>1, <2>7, <2>8, FitsAll
  <2>10. ReversalsAreOfVoided'
    <3>1. \A r \in Sides, o \in Orders : Barred(r, o)' => order'[o] = "VOIDED"
      <4>1. \A r \in Sides, o \in Orders : o # Own(w) => entry'[r][o] = entry[r][o]
        BY <2>4, KeysAssumption DEF Keys
      <4>2. QED
        BY <2>1, <2>2, <4>1 DEF ReferralInv, ReversalsAreOfVoided, Barred
    <3>2. QED
      BY <2>1, <2>9, <3>1 DEF ReferralInv, ReversalsAreOfVoided, SameJob
  <2>11. RowFits'
    BY <2>1 DEF ReferralInv, RowFits
  <2>12. GrantFollowsTheRow'
    <3>1. \A r \in Sides, k \in Keys : entry'[r][k] = "granted" => entry[r][k] = "granted"
      BY <2>4, <2>5, <2>6
    <3>2. QED
      BY <2>1, <2>2, <3>1 DEF ReferralInv, GrantFollowsTheRow, Keys
  <2>13. QualifiedIsPaid'
    <3>1. CASE referral.order = Own(w)
      BY <2>1, <2>2, <3>1 DEF QualifiedIsPaid
    <3>2. CASE referral.order # Own(w) /\ referral.status = "QUALIFIED" /\ order[referral.order] # "VOIDED"
      <4>1. \A r \in Sides : entry[r][referral.order] = "granted"
        BY <2>3, <3>2 DEF ReferralInv, QualifiedIsPaid
      <4>2. referral.order \in Keys /\ referral.order # Legacy
        BY <3>2, KeysAssumption DEF ReferralInv, RowFits, Keys
      <4>3. QED
        BY <2>1, <2>4, <3>2, <4>1, <4>2 DEF QualifiedIsPaid
    <3>3. QED
      BY <2>1, <3>1, <3>2 DEF QualifiedIsPaid
  <2>14. QED
    BY <2>9, <2>10, <2>11, <2>12, <2>13 DEF ReferralInv, Fits
<1>5. CASE ReverseReopen(w)
  <2>1. /\ job[w] # NoJob /\ job[w].topic = "REFERRAL_REVERSE" /\ Reversing(w, "reopen")
        /\ "ack" \in Places /\ Goto(w, "ack")
        /\ UNCHANGED <<order, row, inline, voided, entry, seen>>
    BY <1>5 DEF ReverseReopen, Step, Reversing, At, Places, Ends
  <2>2. /\ Own(w) \in Orders /\ order[Own(w)] = "VOIDED"
        /\ \A s \in Sides : Barred(s, Own(w)) /\ entry[s][Legacy] # "granted"
    BY <2>1, JobFacts DEF Own, ReferralInv, ReversalsAreOfVoided, ReverserFits, Sides
  <2>3. IF referral.order = Own(w) THEN referral' = [status |-> "PENDING", order |-> NoOrder]
                                   ELSE referral' = referral
    BY <1>5 DEF ReverseReopen
  <2>4. Lasting
    BY <2>1, <2>2, <2>3 DEF Lasting, Barred
  <2>5. Fits(w)'
    BY <2>1, GotoMoves DEF Fits, QualifierFits, ReverserFits, Qualifying, Reversing, At
  <2>6. \A v \in Workers : Fits(v)' /\ SameJob(v)
    BY <2>1, <2>4, <2>5, FitsAll
  <2>7. ReversalsAreOfVoided'
    BY <2>1, <2>6 DEF ReferralInv, ReversalsAreOfVoided, SameJob, Barred
  <2>8. RowFits'
    BY <2>3 DEF ReferralInv, RowFits
  <2>9. GrantFollowsTheRow'
    BY <2>1, <2>2, <2>3 DEF ReferralInv, GrantFollowsTheRow, Barred
  <2>10. QualifiedIsPaid'
    BY <2>1, <2>3 DEF ReferralInv, QualifiedIsPaid
  <2>11. QED
    BY <2>6, <2>7, <2>8, <2>9, <2>10 DEF ReferralInv, Fits
<1>6. QED
  BY <1>1, <1>2, <1>3, <1>4, <1>5
     DEF ReverseStep, ReverseReferrer, ReverseReferee, Sides

\* What an answer, or its loss, makes of the delivery's row.
LEMMA FinishMarks ==
    ASSUME TypeOK, NEW w \in Workers, Finish(w)
    PROVE  \E r : /\ row' = [row EXCEPT ![job[w].o][job[w].topic] = r]
                  /\ r.state # "NONE" => row[job[w].o][job[w].topic].state # "NONE"
                  /\ r.state = "DONE" => \/ row[job[w].o][job[w].topic].state = "DONE"
                                         \/ job[w].at = "ack"
<1> DEFINE o == job[w].o
           k == job[w].topic
           r == row[o][k]
           s == IF job[w].at = "ack" THEN Settled(r, "DONE") ELSE Retried(r, job[w].tries)
<1>1. o \in Orders /\ k \in Topics
  BY JobFacts DEF Finish
<1>2. row' = [row EXCEPT ![o][k] = s]
  BY <1>1 DEF Finish, MarkDone, MarkFailed, TypeOK, OutboxTypeOK, RowsTypeOK
<1>3. /\ s.state # "NONE" => r.state # "NONE"
      /\ s.state = "DONE" => r.state = "DONE" \/ job[w].at = "ack"
  BY DEF Settled, Retried
<1> HIDE DEF s
<1> QED
  BY <1>2, <1>3

LEMMA AbortMarks ==
    ASSUME TypeOK, NEW w \in Workers, Abort(w)
    PROVE  \E r : /\ row' = [row EXCEPT ![job[w].o][job[w].topic] = r]
                  /\ r.state # "NONE" => row[job[w].o][job[w].topic].state # "NONE"
                  /\ r.state = "DONE" => row[job[w].o][job[w].topic].state = "DONE"
<1> DEFINE o == job[w].o
           k == job[w].topic
           r == row[o][k]
           s == Retried(r, job[w].tries)
<1>1. o \in Orders /\ k \in Topics
  BY JobFacts DEF Abort
<1>2. row' = [row EXCEPT ![o][k] = s]
  BY <1>1 DEF Abort, MarkFailed, TypeOK, OutboxTypeOK, RowsTypeOK
<1>3. /\ s.state # "NONE" => r.state # "NONE"
      /\ s.state = "DONE" => r.state = "DONE"
  BY DEF Retried
<1> HIDE DEF s
<1> QED
  BY <1>2, <1>3

\* An aborted call's handler runs on where it is.
LEMMA AbortMoves ==
    ASSUME TypeOK, NEW w \in Workers, Abort(w)
    PROVE  /\ \A v \in Workers : v # w => job'[v] = job[v]
           /\ job'[w] # NoJob =>
                 /\ job'[w].o = job[w].o /\ job'[w].topic = job[w].topic
                 /\ job'[w].at = job[w].at /\ job[w].at \notin Ends
<1>1. job[w] \in Job(Places) /\ Unowned(job[w]) \in Job(Places) /\ job[w].at \in Places
  BY UnownedIs, JobFacts DEF Abort, TypeOK, OutboxTypeOK, RowsTypeOK
<1>2. /\ \A v \in Workers : v # w => job'[v] = job[v]
      /\ job'[w] = Moved(Unowned(job[w]), job[w].at)
  BY DEF Abort, TypeOK, OutboxTypeOK, RowsTypeOK
<1> QED
  BY <1>1, <1>2, UnownedIs, MovedIs

LEMMA OutboxKeepsInv ==
    ASSUME TypeOK, TypeOK', ReferralInv, NEW w \in Workers,
           OutboxStep(w), Keep(w), UNCHANGED referralVars
    PROVE  ReferralInv'
<1>1. UNCHANGED <<order, referral, entry>>
  BY DEF OutboxStep, Take, ReverseInline, Deliver, Finish, Abort, Crash, referralVars
<1>2. inline' \subseteq inline
  BY DEF OutboxStep, Take, ReverseInline, Deliver, Finish, Abort, Crash
<1>3. \A o \in Orders : row'[o]["REFERRAL_REVERSE"].state # "NONE"
                           => row[o]["REFERRAL_REVERSE"].state # "NONE"
  <2>1. ASSUME NEW p \in Orders, NEW k \in Topics, NEW r,
               row' = [row EXCEPT ![p][k] = r], r.state # "NONE" => row[p][k].state # "NONE"
        PROVE  \A o \in Orders, l \in Topics :
                  row'[o][l].state # "NONE" => row[o][l].state # "NONE"
    BY <2>1 DEF TypeOK, OutboxTypeOK, RowsTypeOK
  <2>2. "REFERRAL_REVERSE" \in Topics
    BY TopicFacts
  <2>3. CASE Finish(w)
    <3>1. \E r : /\ row' = [row EXCEPT ![job[w].o][job[w].topic] = r]
                 /\ r.state # "NONE" => row[job[w].o][job[w].topic].state # "NONE"
      BY <2>3, FinishMarks
    <3> QED
      BY <2>1, <2>2, <2>3, <3>1, JobFacts DEF Finish
  <2>4. CASE Abort(w)
    <3>1. \E r : /\ row' = [row EXCEPT ![job[w].o][job[w].topic] = r]
                 /\ r.state # "NONE" => row[job[w].o][job[w].topic].state # "NONE"
      BY <2>4, AbortMarks
    <3> QED
      BY <2>1, <2>2, <2>4, <3>1, JobFacts DEF Abort
  <2>5. QED
    BY <2>3, <2>4 DEF OutboxStep, Take, ReverseInline, Deliver, Crash
<1>4. \A v \in Workers : v # w => job'[v] = job[v] /\ seen'[v] = seen[v]
  BY DEF OutboxStep, Take, ReverseInline, Deliver, Finish, Abort, Crash, Goto, Keep,
     TypeOK, OutboxTypeOK, RowsTypeOK
<1>5. Still(w) \/ Early(w)
  <2>1. CASE \E o \in Orders, k \in Topics : Take(w, o, k)
    BY <2>1 DEF Take, Taken, Early, TypeOK, OutboxTypeOK, RowsTypeOK
  <2>2. CASE \E o \in Orders, k \in VoidTopics : ReverseInline(w, o, k)
    BY <2>2 DEF ReverseInline, Inline, Early, TypeOK, OutboxTypeOK, RowsTypeOK
  <2>3. CASE Deliver(w)
    BY <2>3 DEF Deliver, Goto, Moved, Early, TypeOK, OutboxTypeOK, RowsTypeOK, Job
  <2>4. CASE Finish(w) \/ Crash(w)
    BY <2>4 DEF Finish, Crash, Still, TypeOK, OutboxTypeOK, RowsTypeOK
  <2>5. CASE Abort(w)
    <3>1. job'[w] # NoJob => /\ job[w] # NoJob /\ job'[w].at = job[w].at
                             /\ job'[w].o = job[w].o /\ job'[w].topic = job[w].topic
                             /\ job[w].at \notin Ends
      BY <2>5, AbortMoves DEF Abort
    <3>2. job'[w] # NoJob => seen'[w] = seen[w]
      BY <3>1 DEF Keep, Over, TypeOK
    <3>3. QED
      BY <3>1, <3>2 DEF Still
  <2>6. QED
    BY <2>1, <2>2, <2>3, <2>4, <2>5 DEF OutboxStep
<1>6. \A v \in Workers : Fits(v)'
  BY <1>1, <1>4, <1>5, FitsLast, LastingWhenUnchanged DEF ReferralInv, Fits, Still
<1>7. SameJob(w) \/ (job'[w] # NoJob /\ order[job'[w].o] = "VOIDED")
                 \/ (job'[w] # NoJob /\ job'[w].topic # "REFERRAL_REVERSE")
  <2>1. ASSUME NEW o \in Orders, NEW k \in Topics, Take(w, o, k)
        PROVE  job'[w].o = o /\ job'[w].topic = k /\ row[o][k].state # "NONE"
    BY <2>1 DEF Take, Taken, TypeOK, OutboxTypeOK, RowsTypeOK
  <2>2. ASSUME NEW o \in Orders, NEW k \in VoidTopics, ReverseInline(w, o, k)
        PROVE  job'[w].o = o /\ order[o] = "VOIDED"
    BY <2>2 DEF ReverseInline, Inline, TypeOK, OutboxTypeOK, RowsTypeOK, ReferralInv, ReversalsAreOfVoided
  <2>3. CASE Deliver(w) \/ Finish(w) \/ Abort(w) \/ Crash(w)
    <3>1. CASE Deliver(w)
      BY <3>1 DEF Deliver, Goto, Moved, SameJob, TypeOK, OutboxTypeOK, RowsTypeOK, Job
    <3>2. CASE Abort(w)
      BY <3>2, AbortMoves DEF Abort, SameJob
    <3>3. CASE Finish(w) \/ Crash(w)
      BY <3>3 DEF Finish, Crash, SameJob, TypeOK, OutboxTypeOK, RowsTypeOK
    <3>4. QED
      BY <2>3, <3>1, <3>2, <3>3
  <2>4. CASE \E o \in Orders, k \in Topics : Take(w, o, k)
    BY <2>1, <2>4, TopicFacts DEF SameJob, ReferralInv, ReversalsAreOfVoided
  <2>5. CASE \E o \in Orders, k \in VoidTopics : ReverseInline(w, o, k)
    BY <2>2, <2>5 DEF SameJob
  <2>6. QED
    BY <2>3, <2>4, <2>5 DEF OutboxStep
<1>8. \A v \in Workers : v # w => SameJob(v)
  BY <1>4 DEF SameJob
<1>9. QED
  BY <1>1, <1>2, <1>3, <1>6, <1>7, <1>8, QuietStep

LEMMA SaleKeepsInv ==
    ASSUME TypeOK, TypeOK', ReferralInv, SaleStep, UNCHANGED <<referralVars, seen>>
    PROVE  ReferralInv'
<1>1. WalkIns \subseteq Orders /\ "REFERRAL_REVERSE" \in Topics /\ "REFERRAL_REVERSE" \notin EffectTopics
  BY OutboxAssumption, TopicFacts
<1>2. UNCHANGED <<job, referral, voided, entry, seen>>
  BY DEF SaleStep, Complete, VoidWalkIn, CancelRows, referralVars
<1>3. \A o \in Orders : order[o] = "VOIDED" => order'[o] = "VOIDED"
  BY DEF SaleStep, Complete, VoidWalkIn, CancelRows, TypeOK, OutboxTypeOK, RowsTypeOK
<1>4. \A o \in Orders : row'[o]["REFERRAL_REVERSE"].state # "NONE" => order'[o] = "VOIDED"
  <2>1. ASSUME NEW o \in Orders, Complete(o)
        PROVE  \A p \in Orders : row'[p]["REFERRAL_REVERSE"] = row[p]["REFERRAL_REVERSE"]
    BY <1>1, <2>1 DEF Complete, Owing, TypeOK, OutboxTypeOK, RowsTypeOK
  <2>2. ASSUME NEW o \in Orders, VoidWalkIn(o)
        PROVE  /\ order'[o] = "VOIDED"
               /\ \A p \in Orders : p # o => row'[p]["REFERRAL_REVERSE"] = row[p]["REFERRAL_REVERSE"]
    BY <1>1, <2>2 DEF VoidWalkIn, Owing, TypeOK, OutboxTypeOK, RowsTypeOK
  <2>3. ASSUME NEW o \in Orders, CancelRows(o)
        PROVE  \A p \in Orders : row'[p]["REFERRAL_REVERSE"] = row[p]["REFERRAL_REVERSE"]
    BY <1>1, <2>3 DEF CancelRows, CalledOff, TypeOK, OutboxTypeOK, RowsTypeOK
  <2>4. QED
    BY <1>3, <2>1, <2>2, <2>3 DEF SaleStep, ReferralInv, ReversalsAreOfVoided
<1>5. \A o \in inline' : order'[o] = "VOIDED"
  BY <1>1, <1>3 DEF SaleStep, Complete, VoidWalkIn, CancelRows, TypeOK, OutboxTypeOK, RowsTypeOK,
     ReferralInv, ReversalsAreOfVoided
<1>6. ReversalsAreOfVoided'
  BY <1>2, <1>3, <1>4, <1>5, JobFacts DEF ReferralInv, ReversalsAreOfVoided, Barred
<1>7. RowFits' /\ GrantFollowsTheRow'
  BY <1>2 DEF ReferralInv, RowFits, GrantFollowsTheRow
<1>8. QualifiedIsPaid'
  BY <1>2, <1>3 DEF ReferralInv, QualifiedIsPaid, RowFits
<1>9. \A w \in Workers : Fits(w)'
  BY <1>2 DEF Fits, ReferralInv, QualifierFits, ReverserFits, Qualifying, Reversing, At, Barred, Own
<1>10. QED
  BY <1>6, <1>7, <1>8, <1>9 DEF ReferralInv, Fits

LEMMA RedeemKeepsInv ==
    ASSUME TypeOK, TypeOK', ReferralInv, Redeem
    PROVE  ReferralInv'
<1>1. /\ UNCHANGED <<order, row, job, inline, voided, entry, seen>>
      /\ referral.status = "NONE" /\ referral'.status = "PENDING"
      /\ referral'.order = referral.order
  BY DEF Redeem, outboxVars, TypeOK
<1>2. ReversalsAreOfVoided'
  BY <1>1 DEF ReferralInv, ReversalsAreOfVoided, Barred
<1>3. RowFits' /\ GrantFollowsTheRow' /\ QualifiedIsPaid'
  BY <1>1 DEF ReferralInv, RowFits, GrantFollowsTheRow, QualifiedIsPaid
<1>4. \A w \in Workers : Fits(w)'
  BY <1>1 DEF Fits, ReferralInv, QualifierFits, ReverserFits, Qualifying, Reversing, At, Barred, Own
<1>5. QED
  BY <1>2, <1>3, <1>4 DEF ReferralInv, Fits

LEMMA NextKeepsInv == TypeOK /\ TypeOK' /\ ReferralInv /\ [Next]_vars => ReferralInv'
<1>1. SUFFICES ASSUME TypeOK, TypeOK', ReferralInv, [Next]_vars PROVE ReferralInv'
  OBVIOUS
<1>2. CASE Redeem
  BY <1>1, <1>2, RedeemKeepsInv
<1>3. CASE SaleStep /\ UNCHANGED <<referralVars, seen>>
  BY <1>1, <1>3, SaleKeepsInv
<1>4. ASSUME NEW w \in Workers, QualifyStep(w) PROVE ReferralInv'
  BY <1>1, <1>4, QualifyKeepsInv
<1>5. ASSUME NEW w \in Workers, ReverseStep(w) PROVE ReferralInv'
  BY <1>1, <1>5, ReverseKeepsInv
<1>6. ASSUME NEW w \in Workers, StatusUnknown(w) PROVE ReferralInv'
  <2>1. job[w] # NoJob /\ Goto(w, "fail") /\ Keep(w)
    BY <1>6 DEF StatusUnknown, Qualifying, At
  <2>2. QED
    BY <1>1, <1>6, <2>1, LookKeepsInv DEF StatusUnknown, referralVars
<1>7. ASSUME NEW w \in Workers, OutboxStep(w), Keep(w), UNCHANGED referralVars
      PROVE  ReferralInv'
  BY <1>1, <1>7, OutboxKeepsInv
<1>8. CASE UNCHANGED vars
  <2>1. UNCHANGED <<order, row, job, inline, referral, entry, seen>>
    BY <1>8 DEF vars, outboxVars
  <2>2. \A w \in Workers : Fits(w)' /\ SameJob(w)
    BY <1>1, <2>1, FitsLast, LastingWhenUnchanged DEF ReferralInv, Fits, Still, SameJob
  <2>3. QED
    BY <1>1, <2>1, <2>2, QuietStep
<1>9. QED
  BY <1>1, <1>2, <1>3, <1>4, <1>5, <1>6, <1>7, <1>8, NextCases

LEMMA InitInv == Init => ReferralInv
<1>1. SUFFICES ASSUME Init PROVE ReferralInv
  OBVIOUS
<1>2. /\ job = [w \in Workers |-> NoJob] /\ inline = {}
      /\ \A o \in Orders : row[o]["REFERRAL_REVERSE"].state = "NONE"
  BY <1>1, TopicFacts DEF Init, OutboxInit
<1>3. /\ \A s \in Sides, o \in Orders : entry[s][o] = "none"
      /\ \/ /\ referral = [status |-> "NONE", order |-> NoOrder]
            /\ \A s \in Sides : entry[s][Legacy] = "none"
         \/ /\ referral.status = "QUALIFIED" /\ referral.order \in Orders
            /\ \A s \in Sides : entry[s][Legacy] = "granted"
  BY <1>1, KeysAssumption DEF Init, Keys
<1>4. ReversalsAreOfVoided /\ RowFits /\ GrantFollowsTheRow /\ QualifiedIsPaid
  BY <1>2, <1>3 DEF ReversalsAreOfVoided, RowFits, GrantFollowsTheRow, QualifiedIsPaid, Barred
<1>5. \A w \in Workers : QualifierFits(w) /\ ReverserFits(w)
  BY <1>2 DEF QualifierFits, ReverserFits, Qualifying, Reversing, At
<1>6. QED
  BY <1>4, <1>5 DEF ReferralInv

\* The inductive invariant, whatever the windows let in.
THEOREM ReferralProtocol == Spec => [](TypeOK /\ ReferralInv)
<1>1. Init => TypeOK /\ ReferralInv
  BY InitTyping, InitInv
<1>2. (TypeOK /\ ReferralInv) /\ [Next]_vars => (TypeOK /\ ReferralInv)'
  BY NextTyping, NextKeepsInv
<1>3. QED
  BY <1>1, <1>2, PTL DEF Spec

\* qualify, reverseForVoidedOrder: a bonus is kept only for the order the row
\* names, however deliveries and voids overlap.
THEOREM OneBonus == Spec => []GrantFollowsTheRow
<1>1. TypeOK /\ ReferralInv => GrantFollowsTheRow
  BY DEF ReferralInv
<1>2. QED
  BY <1>1, ReferralProtocol, PTL

\* qualifyReferral: a closed referral has paid both sides, unless its order was
\* voided.
THEOREM BothSidesPaid == Spec => []QualifiedIsPaid
<1>1. TypeOK /\ ReferralInv => QualifiedIsPaid
  BY DEF ReferralInv
<1>2. QED
  BY <1>1, ReferralProtocol, PTL

----------------------------------------------------------------------------
(* A voided sale keeps nothing, outside the windows *)

\* What VoidInv rests on: no step takes up an order that was reversed.
LEMMA ClosedLasts ==
    ASSUME TypeOK, ReferralInv, VoidInv, [Next]_vars, "redeem" \notin Windows,
           NEW o \in Orders, Closed(o)
    PROVE  Closed(o)'
<1>1. order[o] = "VOIDED" /\ order'[o] = "VOIDED"
  <2>1. CASE SaleStep
    BY <2>1 DEF Closed, SaleStep, Complete, VoidWalkIn, CancelRows, TypeOK, OutboxTypeOK, RowsTypeOK
  <2>2. CASE order' = order
    BY <2>2 DEF Closed
  <2>3. QED
    BY <2>1, <2>2, NextCases DEF Redeem, QualifyStep, QualifyFind, QualifyCheck, PrepareRead,
       PrepareSet, QualifyRecheck, RewardReferrer, RewardReferee, Reward, QualifyRead,
       QualifyClose, ReverseStep, ReverseFind, ReverseMark, ReverseRead, ReverseReferrer,
       ReverseReferee, Reverse, ReverseReopen, Step, StatusUnknown, OutboxStep, Take,
       ReverseInline, Deliver, Finish, Abort, Crash, outboxVars, vars
<1>2. voided \subseteq voided'
  BY NextCases DEF Redeem, QualifyStep, QualifyFind, QualifyCheck, PrepareRead,
     PrepareSet, QualifyRecheck, RewardReferrer, RewardReferee, Reward, QualifyRead,
     QualifyClose, ReverseStep, ReverseFind, ReverseMark, ReverseRead, ReverseReferrer,
     ReverseReferee, Reverse, ReverseReopen, Step, StatusUnknown, referralVars, vars
<1>3. CASE Redeem
  BY <1>1, <1>3 DEF Redeem, Closed
<1>4. CASE \E w \in Workers : PrepareSet(w)
  <2>1. PICK w \in Workers : PrepareSet(w)
    BY <1>4
  <2>2. Own(w) \notin voided
    BY <2>1 DEF PrepareSet, VoidInv
  <2>3. QED
    BY <1>1, <1>2, <2>1, <2>2 DEF PrepareSet, Closed, TypeOK
<1>5. CASE \E w \in Workers : QualifyClose(w)
  BY <1>1, <1>2, <1>5 DEF QualifyClose, Closed, TypeOK
<1>6. CASE \E w \in Workers : ReverseReopen(w)
  <2>1. PICK w \in Workers : ReverseReopen(w)
    BY <1>6
  <2>2. referral.status = "NONE" => referral.order # Own(w)
    BY <2>1, JobFacts, KeysAssumption
       DEF ReverseReopen, Reversing, At, Own, ReferralInv, RowFits
  <2>3. QED
    BY <1>1, <1>2, <2>1, <2>2, KeysAssumption DEF ReverseReopen, Closed
<1>7. CASE referral' = referral
  BY <1>1, <1>2, <1>7 DEF Closed
<1>8. QED
  BY <1>3, <1>4, <1>5, <1>6, <1>7, NextCases DEF QualifyStep, QualifyFind, QualifyCheck,
     PrepareRead, QualifyRecheck, RewardReferrer, RewardReferee, Reward, QualifyRead,
     ReverseStep, ReverseFind, ReverseMark, ReverseRead, ReverseReferrer, ReverseReferee,
     Reverse, StatusUnknown, referralVars, vars

\* A row marked DONE was so before, or its delivery had been answered.
LEMMA DoneIsAnswered ==
    ASSUME TypeOK, [Next]_vars, NEW o \in Orders,
           row'[o]["REFERRAL_REVERSE"].state = "DONE"
    PROVE  \/ row[o]["REFERRAL_REVERSE"].state = "DONE"
           \/ \E w \in Workers : Reversing(w, "ack") /\ Own(w) = o
<1>1. "REFERRAL_REVERSE" \in Topics
  BY TopicFacts
<1>2. CASE SaleStep
  <2>1. ASSUME NEW p \in Orders, Complete(p) \/ VoidWalkIn(p)
        PROVE  row'[o]["REFERRAL_REVERSE"].state
                  \in {"PENDING", row[o]["REFERRAL_REVERSE"].state}
    <3>1. \A topics : Owing(p, topics)[o]["REFERRAL_REVERSE"].state
                         \in {"PENDING", row[o]["REFERRAL_REVERSE"].state}
      BY <1>1 DEF Owing, TypeOK, OutboxTypeOK, RowsTypeOK
    <3>2. QED
      BY <2>1, <3>1 DEF Complete, VoidWalkIn
  <2>2. ASSUME NEW p \in Orders, CancelRows(p)
        PROVE  row'[o]["REFERRAL_REVERSE"] = row[o]["REFERRAL_REVERSE"]
    BY <1>1, <2>2, TopicFacts DEF CancelRows, CalledOff, TypeOK, OutboxTypeOK, RowsTypeOK
  <2>3. QED
    BY <1>2, <2>1, <2>2 DEF SaleStep
<1>3. CASE \E w \in Workers : Finish(w)
  <2>1. PICK w \in Workers : Finish(w)
    BY <1>3
  <2>2. job[w].o \in Orders /\ job[w].topic \in Topics
    BY <2>1, JobFacts DEF Finish
  <2>3. PICK r : /\ row' = [row EXCEPT ![job[w].o][job[w].topic] = r]
                 /\ r.state = "DONE" => \/ row[job[w].o][job[w].topic].state = "DONE"
                                        \/ job[w].at = "ack"
    BY <2>1, FinishMarks
  <2>4. \/ row'[o]["REFERRAL_REVERSE"] = row[o]["REFERRAL_REVERSE"]
        \/ /\ o = job[w].o /\ job[w].topic = "REFERRAL_REVERSE"
           /\ row'[o]["REFERRAL_REVERSE"] = r
    BY <1>1, <2>2, <2>3 DEF TypeOK, OutboxTypeOK, RowsTypeOK
  <2>5. QED
    BY <2>1, <2>3, <2>4 DEF Finish, Reversing, At, Own
<1>4. CASE \E w \in Workers : Abort(w)
  <2>1. PICK w \in Workers : Abort(w)
    BY <1>4
  <2>2. job[w].o \in Orders /\ job[w].topic \in Topics
    BY <2>1, JobFacts DEF Abort
  <2>3. PICK r : /\ row' = [row EXCEPT ![job[w].o][job[w].topic] = r]
                 /\ r.state = "DONE" => row[job[w].o][job[w].topic].state = "DONE"
    BY <2>1, AbortMarks
  <2>4. \/ row'[o]["REFERRAL_REVERSE"] = row[o]["REFERRAL_REVERSE"]
        \/ /\ o = job[w].o /\ job[w].topic = "REFERRAL_REVERSE"
           /\ row'[o]["REFERRAL_REVERSE"] = r
    BY <1>1, <2>2, <2>3 DEF TypeOK, OutboxTypeOK, RowsTypeOK
  <2>5. QED
    BY <2>3, <2>4
<1>5. CASE row' = row
  BY <1>5
<1>6. QED
  BY <1>2, <1>3, <1>4, <1>5, NextCases DEF Redeem, QualifyStep, QualifyFind, QualifyCheck,
     PrepareRead, PrepareSet, QualifyRecheck, RewardReferrer, RewardReferee, Reward, QualifyRead,
     QualifyClose, ReverseStep, ReverseFind, ReverseMark, ReverseRead, ReverseReferrer,
     ReverseReferee, Reverse, ReverseReopen, Step, StatusUnknown, OutboxStep, Take,
     ReverseInline, Deliver, Crash, outboxVars, vars

\* Where a worker's job comes from.
LEMMA JobSource ==
    ASSUME TypeOK, [Next]_vars, NEW w \in Workers, job'[w] # NoJob
    PROVE  \/ job'[w].at \in {"deliver", "start"}
           \/ /\ job[w] # NoJob /\ job'[w].o = job[w].o /\ job'[w].topic = job[w].topic
              /\ \/ job'[w].at = job[w].at
                 \/ job'[w].at = "ack" /\ job[w].topic # "REFERRAL_REVERSE"
                 \/ QualifyStep(w) \/ ReverseStep(w) \/ StatusUnknown(w)
<1>1. CASE job' = job
  BY <1>1
<1>2. ASSUME NEW u \in Workers, job[u] # NoJob, NEW place \in Places, Goto(u, place),
             QualifyStep(u) \/ ReverseStep(u) \/ StatusUnknown(u)
      PROVE  /\ job[w] # NoJob /\ job'[w].o = job[w].o /\ job'[w].topic = job[w].topic
             /\ \/ job'[w].at = job[w].at
                \/ QualifyStep(w) \/ ReverseStep(w) \/ StatusUnknown(w)
  BY <1>2, GotoMoves
<1>3. ASSUME NEW u \in Workers, QualifyStep(u) \/ ReverseStep(u) \/ StatusUnknown(u)
      PROVE  job[u] # NoJob /\ \E place \in Places : Goto(u, place)
  <2>1. {"ack", "fail", "check", "prepare", "set", "recheck", "reward1", "reward2", "qualify",
         "close", "mark", "read", "reverse1", "reverse2", "reopen"} \subseteq Places
    BY DEF Places, Ends, QualifySteps, ReverseSteps
  <2>2. CASE QualifyStep(u)
    BY <2>1, <2>2 DEF QualifyStep, QualifyFind, QualifyCheck, PrepareRead, PrepareSet,
       QualifyRecheck, RewardReferrer, RewardReferee, Reward, QualifyRead, QualifyClose,
       Qualifying, At, Step
  <2>3. CASE ReverseStep(u)
    BY <2>1, <2>3 DEF ReverseStep, ReverseFind, ReverseMark, ReverseRead, ReverseReferrer,
       ReverseReferee, Reverse, ReverseReopen, Reversing, At, Step
  <2>4. CASE StatusUnknown(u)
    BY <2>1, <2>4 DEF StatusUnknown, Qualifying, At
  <2>5. QED
    BY <1>3, <2>2, <2>3, <2>4
<1>4. ASSUME NEW u \in Workers, OutboxStep(u)
      PROVE  \/ job'[w].at \in {"deliver", "start"}
             \/ /\ job[w] # NoJob /\ job'[w].o = job[w].o /\ job'[w].topic = job[w].topic
                /\ \/ job'[w].at = job[w].at
                   \/ job'[w].at = "ack" /\ job[w].topic # "REFERRAL_REVERSE"
  <2>1. CASE u # w
    BY <1>4, <2>1 DEF OutboxStep, Take, ReverseInline, Deliver, Finish, Abort, Crash, Goto,
       TypeOK, OutboxTypeOK, RowsTypeOK
  <2>2. CASE u = w /\ Deliver(w)
    BY <2>2, TopicFacts DEF Deliver, Goto, Moved, TypeOK, OutboxTypeOK, RowsTypeOK, Job
  <2>3. CASE u = w /\ Abort(w)
    BY <2>3, AbortMoves DEF Abort
  <2>4. CASE u = w /\ (\E o \in Orders, k \in Topics : Take(w, o, k) \/ ReverseInline(w, o, k))
    BY <2>4 DEF Take, Taken, ReverseInline, Inline, TypeOK, OutboxTypeOK, RowsTypeOK
  <2>5. CASE u = w /\ (Finish(w) \/ Crash(w))
    BY <2>5 DEF Finish, Crash, TypeOK, OutboxTypeOK, RowsTypeOK
  <2>6. QED
    BY <1>4, <2>1, <2>2, <2>3, <2>4, <2>5 DEF OutboxStep, Topics
<1>5. QED
  BY <1>1, <1>2, <1>3, <1>4, NextCases
     DEF Redeem, SaleStep, Complete, VoidWalkIn, CancelRows, outboxVars, vars

\* Where a qualifying handler goes next, so far as VoidInv can tell.
LEMMA QualifyGoes ==
    ASSUME TypeOK, NEW w \in Workers, QualifyStep(w), job'[w] # NoJob
    PROVE  /\ job'[w].topic = "REFERRAL_QUALIFY" /\ job'[w].o = job[w].o /\ voided' = voided
           /\ job'[w].at = "set" => Own(w) \notin voided
<1>1. {"ack", "fail", "check", "prepare", "set", "recheck", "reward1", "reward2", "qualify",
       "close"} \subseteq Places
  BY DEF Places, Ends, QualifySteps
<1>2. voided' = voided /\ job[w] # NoJob /\ job[w].topic = "REFERRAL_QUALIFY"
  BY DEF QualifyStep, QualifyFind, QualifyCheck, PrepareRead, PrepareSet,
     QualifyRecheck, RewardReferrer, RewardReferee, Reward, QualifyRead, QualifyClose,
     Qualifying, At, referralVars
<1>3. CASE PrepareRead(w)
  <2>1. \E place \in {"ack", "set"} : Goto(w, place) /\ (place = "set" => Own(w) \notin voided)
    BY <1>3 DEF PrepareRead, Step
  <2>2. QED
    BY <1>1, <1>2, <2>1, GotoMoves
<1>4. CASE ~PrepareRead(w)
  <2>1. \E place \in Places \ {"set"} : Goto(w, place)
    BY <1>1, <1>4 DEF QualifyStep, QualifyFind, QualifyCheck, PrepareSet, QualifyRecheck,
       RewardReferrer, RewardReferee, Reward, QualifyRead, QualifyClose, Step
  <2>2. QED
    BY <1>2, <2>1, GotoMoves
<1>5. QED
  BY <1>3, <1>4

\* Where a reversing handler goes next.
LEMMA ReverseGoes ==
    ASSUME TypeOK, TypeOK', ReferralInv, VoidInv, NEW w \in Workers, ReverseStep(w),
           job'[w] # NoJob
    PROVE  /\ job'[w].topic = "REFERRAL_REVERSE" /\ job'[w].o = job[w].o
           /\ voided' = voided \/ ReverseMark(w)
           /\ job'[w].at \in {"read", "reverse1", "reverse2", "reopen"} => Own(w) \in voided'
           /\ job'[w].at = "ack" => Closed(Own(w))'
<1>1. {"ack", "mark", "read", "reverse1", "reverse2", "reopen"} \subseteq Places
  BY DEF Places, Ends, ReverseSteps
<1>2. /\ job[w] # NoJob /\ job[w].topic = "REFERRAL_REVERSE"
      /\ voided' = voided \/ ReverseMark(w)
      /\ order' = order
  BY DEF ReverseStep, ReverseFind, ReverseMark, ReverseRead, ReverseReferrer, ReverseReferee,
     Reverse, ReverseReopen, Reversing, At, Step, referralVars
<1>3. Own(w) \in Orders /\ order[Own(w)] = "VOIDED"
  BY <1>2, JobFacts DEF Own, ReferralInv, ReversalsAreOfVoided
<1>4. CASE ReverseFind(w)
  <2>1. \E place \in {"ack", "mark"} :
           Goto(w, place) /\ (place = "ack" => referral.status = "NONE")
    BY <1>4 DEF ReverseFind, Step
  <2>2. QED
    BY <1>1, <1>2, <1>3, <1>4, <2>1, GotoMoves DEF ReverseFind, referralVars, Closed, Own
<1>5. CASE ReverseMark(w)
  BY <1>1, <1>2, <1>3, <1>5, GotoMoves DEF ReverseMark, Step, Own
<1>6. CASE ReverseRead(w)
  <2>1. /\ Own(w) \in voided /\ voided' = voided /\ referral' = referral
        /\ \E place \in {"ack", "reverse1"} :
              Goto(w, place) /\ (place = "ack" => referral.order # Own(w))
    BY <1>6 DEF ReverseRead, Step, VoidInv, referralVars
  <2>2. QED
    BY <1>1, <1>2, <1>3, <2>1, GotoMoves DEF Closed, Own
<1>7. CASE ReverseReferrer(w) \/ ReverseReferee(w)
  <2>1. /\ Own(w) \in voided /\ voided' = voided
        /\ Goto(w, "reverse2") \/ Goto(w, "reopen")
    BY <1>7 DEF ReverseReferrer, ReverseReferee, Reverse, Step, VoidInv
  <2>2. QED
    BY <1>1, <1>2, <2>1, GotoMoves
<1>8. CASE ReverseReopen(w)
  <2>1. Own(w) \in voided /\ voided' = voided /\ Goto(w, "ack")
    BY <1>8 DEF ReverseReopen, Step, VoidInv
  <2>2. referral'.order # Own(w)
    BY <1>3, <1>8, KeysAssumption DEF ReverseReopen
  <2>3. Closed(Own(w))'
    <3>1. Own(w)' = Own(w)
      BY <1>1, <1>2, <2>1, GotoMoves DEF Own
    <3>2. QED
      BY <1>2, <1>3, <2>1, <2>2, <3>1 DEF Closed
  <2>4. QED
    BY <1>1, <1>2, <2>1, <2>3, GotoMoves
<1>9. QED
  BY <1>4, <1>5, <1>6, <1>7, <1>8 DEF ReverseStep

LEMMA NextKeepsVoidInv ==
    ASSUME TypeOK, TypeOK', ReferralInv, VoidInv, [Next]_vars, Windows \cap {"prepare", "redeem"} = {}
    PROVE  VoidInv'
<1>1. \A o \in Orders : Closed(o) => Closed(o)'
  BY ClosedLasts
<1>2. ASSUME NEW o \in Orders, row'[o]["REFERRAL_REVERSE"].state = "DONE"
      PROVE  Closed(o)'
  BY <1>1, <1>2, DoneIsAnswered DEF VoidInv
<1>3. \A o \in Orders : o \in voided => o \in voided'
  BY NextCases DEF Redeem, QualifyStep, QualifyFind, QualifyCheck, PrepareRead,
     PrepareSet, QualifyRecheck, RewardReferrer, RewardReferee, Reward, QualifyRead,
     QualifyClose, ReverseStep, ReverseFind, ReverseMark, ReverseRead, ReverseReferrer,
     ReverseReferee, Reverse, ReverseReopen, Step, StatusUnknown, referralVars, vars
<1>4. ASSUME NEW w \in Workers, job'[w] # NoJob, job'[w].topic = "REFERRAL_QUALIFY",
             job'[w].at = "set"
      PROVE  job'[w].o \notin voided'
  <2>1. job[w] # NoJob /\ job'[w].o = job[w].o /\ job[w].topic = "REFERRAL_QUALIFY"
        /\ job[w].o \notin voided
    <3>1. CASE job'[w].at = job[w].at /\ job[w] # NoJob /\ job'[w].o = job[w].o
               /\ job'[w].topic = job[w].topic
      BY <1>4, <3>1 DEF VoidInv, Qualifying, At, Own
    <3>2. CASE QualifyStep(w)
      BY <1>4, <3>2, JobSource, QualifyGoes DEF Own
    <3>3. CASE ReverseStep(w)
      BY <1>4, <3>3, ReverseGoes
    <3>4. CASE StatusUnknown(w)
      BY <1>4, <3>4, GotoMoves DEF StatusUnknown, Qualifying, At, Places, Ends
    <3>5. QED
      BY <1>4, <3>1, <3>2, <3>3, <3>4, JobSource
  <2>2. CASE voided' = voided
    BY <2>1, <2>2
  <2>3. CASE \E u \in Workers : ReverseMark(u)
    <3>1. PICK u \in Workers : ReverseMark(u)
      BY <2>3
    <3>2. u # w /\ job'[w] = job[w]
      BY <1>4, <3>1, GotoMoves DEF ReverseMark, Reversing, At, Step, Places, ReverseSteps
    <3>3. job[w].o # Own(u)
      BY <1>4, <3>1, <3>2 DEF ReverseMark, NotBeingPrepared, Qualifying, At
    <3>4. QED
      BY <2>1, <3>1, <3>3 DEF ReverseMark
  <2>4. QED
    BY <2>2, <2>3, NextCases DEF Redeem, QualifyStep, QualifyFind, QualifyCheck, PrepareRead,
       PrepareSet, QualifyRecheck, RewardReferrer, RewardReferee, Reward, QualifyRead,
       QualifyClose, ReverseStep, ReverseFind, ReverseRead, ReverseReferrer,
       ReverseReferee, Reverse, ReverseReopen, StatusUnknown, referralVars, vars
<1>5. ASSUME NEW w \in Workers, job'[w] # NoJob, job'[w].topic = "REFERRAL_REVERSE",
             job'[w].at \in {"read", "reverse1", "reverse2", "reopen", "ack"}
      PROVE  IF job'[w].at = "ack" THEN Closed(Own(w))' ELSE job'[w].o \in voided'
  <2>0. job'[w].o \in Orders
    BY <1>5 DEF TypeOK, OutboxTypeOK, RowsTypeOK, Job
  <2>1. CASE job'[w].at = job[w].at /\ job[w] # NoJob /\ job'[w].o = job[w].o
             /\ job'[w].topic = job[w].topic
    <3>1. IF job[w].at = "ack" THEN Closed(job[w].o) ELSE job[w].o \in voided
      BY <1>5, <2>1 DEF VoidInv, Reversing, At, Own
    <3>2. Own(w)' = job[w].o
      BY <2>1 DEF Own
    <3>3. Closed(job[w].o) => Closed(job[w].o)'
      BY <1>1, <2>0, <2>1
    <3>4. QED
      BY <1>3, <2>0, <2>1, <3>1, <3>2, <3>3 DEF Closed, Own
  <2>2. CASE QualifyStep(w)
    BY <1>5, <2>2, QualifyGoes
  <2>3. CASE ReverseStep(w)
    BY <1>5, <2>3, ReverseGoes DEF Own
  <2>4. CASE StatusUnknown(w)
    BY <1>5, <2>4, GotoMoves DEF StatusUnknown, Qualifying, At, Places, Ends
  <2>5. QED
    BY <1>5, <2>1, <2>2, <2>3, <2>4, JobSource
<1>6. QED
  BY <1>2, <1>4, <1>5 DEF VoidInv, Qualifying, Reversing, At, Own

LEMMA InitVoidInv == Init => VoidInv
<1>1. SUFFICES ASSUME Init PROVE VoidInv
  OBVIOUS
<1>2. /\ job = [w \in Workers |-> NoJob]
      /\ \A o \in Orders : row[o]["REFERRAL_REVERSE"].state = "NONE"
  BY <1>1, TopicFacts DEF Init, OutboxInit
<1>3. QED
  BY <1>2 DEF VoidInv, Qualifying, Reversing, At

\* reverseForVoidedOrder: once the reversal of a voided sale has been delivered,
\* the referral is not the sale's and nothing granted for it is left, so long as
\* the void's mark does not fall between the two statements of a preparation and
\* a code is not redeemed after a void.
THEOREM NothingKept ==
    ASSUME Windows \cap {"prepare", "redeem"} = {}
    PROVE  Spec => []VoidedKeepsNothing
<1> DEFINE Inv == TypeOK /\ ReferralInv /\ VoidInv
<1>1. Init => Inv
  BY InitTyping, InitInv, InitVoidInv
<1>2. Inv /\ [Next]_vars => Inv'
  BY NextTyping, NextKeepsInv, NextKeepsVoidInv
<1>3. Inv => VoidedKeepsNothing
  <2>1. SUFFICES ASSUME Inv, NEW o \in Orders, order[o] = "VOIDED",
                        row[o]["REFERRAL_REVERSE"].state = "DONE"
                 PROVE  referral.order # o /\ \A s \in Sides : entry[s][o] # "granted"
    BY DEF VoidedKeepsNothing
  <2>2. referral.order # o
    BY <2>1, KeysAssumption DEF VoidInv, Closed, ReferralInv, RowFits
  <2>3. QED
    BY <2>1, <2>2 DEF ReferralInv, GrantFollowsTheRow
<1>4. QED
  BY <1>1, <1>2, <1>3, PTL DEF Spec

=============================================================================
