------------------------- MODULE OwnerLedgerProofs -------------------------
(***************************************************************************)
(* Proofs about OwnerLedger, for every set of sales, workers and cash-     *)
(* outs, any amounts, any number of attempts and slips.                    *)
(***************************************************************************)
EXTENDS OwnerLedger, SaleOutboxProofs, FiniteSetTheorems

----------------------------------------------------------------------------
(* The inductive invariant *)

\* What the two rows of a sale say of it.
RowsFit ==
    \A o \in Orders :
        /\ row[o]["FRANCHISE_REVENUE"].state = "NONE" <=> order[o] = "OPEN"
        /\ row[o]["FRANCHISE_REVENUE_VOID"].state = "NONE" <=> order[o] # "VOIDED"
        /\ row[o]["FRANCHISE_REVENUE"].state = "CANCELLED" => order[o] = "VOIDED"
        /\ row[o]["FRANCHISE_REVENUE_VOID"].state # "CANCELLED"
        /\ row[o]["FRANCHISE_REVENUE"].state = "DONE" =>
              "SALE" \in refs[o] \/ order[o] = "VOIDED"
        /\ o \in inline => order[o] = "VOIDED"

\* The rows of a sale come in pairs, and are mirrored in pairs.
RefsFit ==
    \A o \in Orders :
        /\ "SALE" \in refs[o] => order[o] # "OPEN"
        /\ "VOID_SALE" \in refs[o] => "SALE" \in refs[o] /\ order[o] = "VOIDED"
        /\ "COMMISSION" \in refs[o] <=> "SALE" \in refs[o] /\ Commission > 0
        /\ "VOID_COMMISSION" \in refs[o] <=> "VOID_SALE" \in refs[o] /\ Commission > 0

\* What a handler has established by its step.  A push order-service does not
\* wait for was cut off from its second look.
JobFits(w) ==
    job[w] # NoJob =>
        LET o == job[w].o IN
        /\ order[o] # "OPEN"
        /\ job[w].topic = "FRANCHISE_REVENUE_VOID" => order[o] = "VOIDED"
        /\ job[w].at \in {"voidRead", "voidWrite"} => order[o] = "VOIDED"
        /\ job[w].at \in {"after", "voidWrite"} => "SALE" \in refs[o]
        /\ job[w].topic = "FRANCHISE_REVENUE" /\ job[w].at = "ack" =>
              "SALE" \in refs[o] \/ order[o] = "VOIDED"
        /\ job[w].topic = "FRANCHISE_REVENUE" => job[w].owned \/ o \in cut

\* The reversal of a voided sale has been answered, or is about to be.
ReversedBy(w, o) ==
    job[w] # NoJob /\ job[w].o = o /\ job[w].topic = "FRANCHISE_REVENUE_VOID" /\ job[w].at = "ack"
Reversed(o) ==
    \/ row[o]["FRANCHISE_REVENUE_VOID"].state = "DONE"
    \/ \E w \in Workers : ReversedBy(w, o)

\* A push that has landed and is to be looked at again.
Watches(w, o) ==
    /\ job[w] # NoJob /\ job[w].o = o /\ job[w].topic = "FRANCHISE_REVENUE"
    /\ job[w].at \in {"after", "voidRead", "voidWrite"}

BackedOut(o) == "SALE" \notin refs[o] \/ "VOID_SALE" \in refs[o]

\* Once the reversal has been answered no credit stands that nobody will look at,
\* unless somebody who was to look never did.
Watched(o) == o \in cut \/ \E w \in Workers : Watches(w, o)
NothingMissed ==
    \A o \in Orders : order[o] = "VOIDED" /\ Reversed(o) => BackedOut(o) \/ Watched(o)

\* Every rupiah debited is one that was cashed out and not given back.
DebitsFit == debits = 0 - CashedOut

LedgerInv ==
    /\ RowsFit /\ RefsFit /\ (\A w \in Workers : JobFits(w))
    /\ NothingMissed /\ DebitsFit

----------------------------------------------------------------------------
(* Typing *)

\* Every disjunct of Next in which the outbox moves a worker.
OutboxStep(w) ==
    \/ \E o \in Orders, k \in Topics : Take(w, o, k)
    \/ \E o \in Orders, k \in VoidTopics : ReverseInline(w, o, k)
    \/ Deliver(w) \/ Finish(w)

LEMMA TopicFacts ==
    /\ Topics = {"FRANCHISE_REVENUE", "FRANCHISE_REVENUE_VOID"}
    /\ EffectTopics = {"FRANCHISE_REVENUE"} /\ VoidTopics = {"FRANCHISE_REVENUE_VOID"}
BY LedgerTopics DEF Topics

LEMMA PlaceFacts ==
    {"deliver", "start", "push", "post", "after", "voidRead", "voidWrite", "ack", "fail"}
        \subseteq Places
BY DEF Places, Ends

LEMMA JobFacts ==
    ASSUME TypeOK, NEW w \in Workers, job[w] # NoJob
    PROVE  /\ job[w] \in Job(Places)
           /\ job[w].o \in Orders /\ job[w].topic \in Topics
           /\ job[w].at \in Places /\ job[w].owned \in BOOLEAN
BY DEF TypeOK, OutboxTypeOK, RowsTypeOK, Job

\* A job keeps its order and topic when it only moves to another place.
LEMMA GotoMoves ==
    ASSUME TypeOK, NEW w \in Workers, job[w] # NoJob,
           NEW place \in Places, Goto(w, place)
    PROVE  /\ \A v \in Workers : v # w => job'[v] = job[v]
           /\ job'[w] # NoJob =>
                 /\ job'[w].o = job[w].o /\ job'[w].topic = job[w].topic
                 /\ job'[w].at = place /\ job'[w].owned = job[w].owned
           /\ job'[w] = NoJob => place \in Ends /\ ~job[w].owned
<1>1. job[w] \in Job(Places)
  BY JobFacts
<1>2. /\ \A v \in Workers : v # w => job'[v] = job[v]
      /\ job'[w] = Moved(job[w], place)
  BY DEF Goto, TypeOK, OutboxTypeOK, RowsTypeOK
<1> QED
  BY <1>1, <1>2, MovedIs, NoJobAssumption

LEMMA StepTyping ==
    ASSUME TypeOK, NEW w \in Workers, job[w] # NoJob,
           NEW place \in Places, Step(w, place)
    PROVE  OutboxTypeOK(Places)'
<1>1. OutboxTypeOK(Places) /\ slips' \in 0..MaxSlips
  BY DEF TypeOK, OutboxTypeOK, RowsTypeOK, RowsTypeOK, Step
<1> QED
  BY <1>1, GotoTyping DEF Step, OutboxTypeOK

LEMMA OutboxTyping ==
    ASSUME TypeOK, NEW w \in Workers, OutboxStep(w)
    PROVE  OutboxTypeOK(Places)'
<1>1. OutboxTypeOK(Places) /\ VoidTopics \subseteq Topics /\ "start" \notin Ends
  BY DEF TypeOK, Topics, Ends
<1>2. ASSUME NEW o \in Orders, NEW k \in VoidTopics, ReverseInline(w, o, k)
      PROVE  OutboxTypeOK(Places)'
  BY <1>1, <1>2, PlaceFacts, InlineTyping DEF ReverseInline, OutboxTypeOK
<1> QED
  BY <1>1, <1>2, PlaceFacts, TakeTyping, DeliverTyping, FinishTyping
     DEF OutboxStep, OutboxTypeOK

LEMMA CutIs ==
    ASSUME TypeOK, NEW w \in Workers, job[w] # NoJob, NEW places, Cut(w, places)
    PROVE  /\ cut \subseteq cut' /\ cut' \subseteq Orders
           /\ job[w].topic = "FRANCHISE_REVENUE" /\ job[w].at \in places => job[w].o \in cut'
BY JobFacts DEF Cut, Crediting, At, Own, TypeOK

LEMMA WrongTyping ==
    ASSUME TypeOK, NEW w \in Workers, CallGoesWrong(w)
    PROVE  OutboxTypeOK(Places)' /\ cut' \subseteq Orders
<1>1. OutboxTypeOK(Places) /\ job[w] # NoJob
  BY DEF TypeOK, CallGoesWrong, AbortCall, CallerDies, CallFails, CallDies, Crash
<1>2. cut' \subseteq Orders
  BY <1>1, CutIs DEF CallGoesWrong, AbortCall, CallerDies, CallFails, CallDies
<1>3. CASE AbortCall(w)
  BY <1>1, <1>2, <1>3, AbortTyping DEF AbortCall, OutboxTypeOK
<1>4. CASE CallerDies(w)
  <2>1. slips' \in 0..MaxSlips
    BY <1>1, <1>4, OutboxAssumption DEF CallerDies, OutboxTypeOK, RowsTypeOK
  <2>2. /\ Unowned(job[w]) \in Job(Places) /\ ~Unowned(job[w]).owned
        /\ Unowned(job[w]).at \notin Ends
    BY <1>1, <1>4, JobFacts, UnownedIs DEF CallerDies, Remote, Ends
  <2>3. job' = [job EXCEPT ![w] = Unowned(job[w])]
    BY <1>1, <1>4 DEF CallerDies, OutboxTypeOK
  <2>4. Sourced(Unowned(job[w]))
    BY <2>2 DEF Sourced
  <2> QED
    BY <1>1, <1>2, <1>4, <2>1, <2>2, <2>3, <2>4, JobReplaced DEF CallerDies, OutboxTypeOK
<1>5. CASE CallFails(w)
  <2>1. slips' \in 0..MaxSlips
    BY <1>1, <1>5, OutboxAssumption DEF CallFails, OutboxTypeOK, RowsTypeOK
  <2> QED
    BY <1>1, <1>2, <1>5, <2>1, PlaceFacts, GotoTyping DEF CallFails, OutboxTypeOK
<1>6. CASE CallDies(w)
  BY <1>1, <1>2, <1>6, CrashTyping DEF CallDies, OutboxTypeOK
<1> QED
  BY <1>3, <1>4, <1>5, <1>6 DEF CallGoesWrong

----------------------------------------------------------------------------
(* The ledger's part of the type *)

LEMMA RowsFinite ==
    ASSUME NEW kind
    PROVE  IsFiniteSet(OrdersWith(kind)) /\ Rows(kind) \in Nat
<1>1. OrdersWith(kind) \in SUBSET Orders
  BY DEF OrdersWith
<1>2. IsFiniteSet(OrdersWith(kind))
  BY <1>1, AmountsAssumption, FS_Subset
<1> QED
  BY <1>2, FS_CardinalityType DEF Rows

LEMMA BalanceIsInt ==
    ASSUME TypeOK
    PROVE  Balance \in Int
<1> DEFINE a == Rows("SALE") - Rows("VOID_SALE")
           b == Rows("COMMISSION") - Rows("VOID_COMMISSION")
<1>1. a \in Int /\ b \in Int
  BY RowsFinite
<1>2. Sale \in Int /\ Commission \in Int /\ debits \in Int
  BY AmountsAssumption DEF TypeOK
<1>3. Balance = Sale * a - Commission * b + debits
  BY DEF Balance
<1> HIDE DEF a, b
<1>4. Sale * a \in Int /\ Commission * b \in Int
  BY <1>1, <1>2
<1> QED
  BY <1>2, <1>3, <1>4

LEMMA RevenueTyping ==
    ASSUME TypeOK, NEW w \in Workers, RevenueStep(w), UNCHANGED cut
    PROVE  TypeOK'
<1>0. job[w] # NoJob /\ Own(w) \in Orders
  BY JobFacts DEF RevenueStep, RevenueStart, RevenueFind, RevenuePost, RevenueAfter, VoidStart,
     VoidRead, VoidWrite, Crediting, Voiding, At, Own
<1>1. ASSUME NEW place \in Places, Step(w, place), UNCHANGED ledgerVars
      PROVE  TypeOK'
  BY <1>0, <1>1, StepTyping DEF TypeOK, ledgerVars
<1>2. CASE RevenueStart(w) \/ RevenueFind(w) \/ RevenueAfter(w) \/ VoidStart(w) \/ VoidRead(w)
  <2>1. \E place \in Places : Step(w, place) /\ UNCHANGED ledgerVars
    BY <1>2, PlaceFacts
       DEF RevenueStart, RevenueFind, RevenueAfter, VoidStart, VoidRead, Landed
  <2> QED
    BY <1>1, <2>1
<1>3. ASSUME RevenuePost(w) PROVE TypeOK'
  <2>1. OutboxTypeOK(Places)'
    BY <1>0, <1>3, PlaceFacts, StepTyping DEF RevenuePost, Landed
  <2>2. refs' \in [Orders -> SUBSET RefKinds]
    BY <1>0, <1>3 DEF RevenuePost, Posted, TypeOK, RefKinds
  <2> QED
    BY <1>3, <2>1, <2>2 DEF RevenuePost, TypeOK
<1>4. ASSUME VoidWrite(w) PROVE TypeOK'
  <2>1. OutboxTypeOK(Places)'
    BY <1>0, <1>4, PlaceFacts, StepTyping DEF VoidWrite
  <2>2. refs' \in [Orders -> SUBSET RefKinds]
    BY <1>0, <1>4 DEF VoidWrite, Mirrored, TypeOK, RefKinds
  <2> QED
    BY <1>4, <2>1, <2>2 DEF VoidWrite, TypeOK
<1> QED
  BY <1>2, <1>3, <1>4 DEF RevenueStep

LEMMA CashoutTyping ==
    ASSUME TypeOK, CashoutStep, UNCHANGED cut
    PROVE  TypeOK'
<1> DEFINE Withdrawal == [state : CashoutStates, amount : Nat]
<1>1. ASSUME NEW c \in Cashouts, Withdraw(c) PROVE TypeOK'
  <2>1. PICK amount \in {Balance, 1} :
            /\ amount > 0
            /\ cashout' = [cashout EXCEPT ![c] = [state |-> "PROCESSING", amount |-> amount]]
            /\ debits' = debits - amount
    BY <1>1 DEF Withdraw
  <2>2. amount \in Nat
    BY <2>1, BalanceIsInt
  <2>3. debits' \in Int
    BY <2>1, <2>2 DEF TypeOK
  <2>4. cashout' \in [Cashouts -> Withdrawal]
    BY <2>1, <2>2 DEF TypeOK, CashoutStates
  <2> QED
    BY <1>1, <2>3, <2>4 DEF Withdraw, TypeOK, OutboxTypeOK, RowsTypeOK, RowsCounted, Sourced, outboxVars
<1>2. ASSUME NEW c \in Cashouts, NEW s \in Outcomes, SettleRead(c, s) PROVE TypeOK'
  BY <1>2 DEF SettleRead, TypeOK, OutboxTypeOK, RowsTypeOK, RowsCounted, Sourced, outboxVars
<1>3. ASSUME NEW c \in Cashouts, NEW s \in Outcomes, SettleWrite(c, s) PROVE TypeOK'
  <2>1. cashout' \in [Cashouts -> Withdrawal]
    BY <1>3 DEF SettleWrite, TypeOK, CashoutStates
  <2>2. debits' \in Int
    <3>1. cashout[c].amount \in Int /\ debits \in Int
      BY DEF TypeOK
    <3>2. debits' \in {debits, debits + cashout[c].amount}
      BY <1>3 DEF SettleWrite
    <3> QED
      BY <3>1, <3>2
  <2>3. settling' \in [Cashouts -> SUBSET Outcomes]
    BY <1>3 DEF SettleWrite, TypeOK
  <2> QED
    BY <1>3, <2>1, <2>2, <2>3 DEF SettleWrite, TypeOK, OutboxTypeOK, RowsTypeOK, RowsCounted, Sourced, outboxVars
<1> QED
  BY <1>1, <1>2, <1>3 DEF CashoutStep

\* Next, with the outbox's disjuncts named.
LEMMA NextCases ==
    ASSUME Next
    PROVE  \/ SaleStep /\ UNCHANGED <<ledgerVars, cut>>
           \/ CashoutStep /\ UNCHANGED cut
           \/ \E w \in Workers :
                 \/ RevenueStep(w) /\ UNCHANGED cut
                 \/ OutboxStep(w) /\ UNCHANGED <<ledgerVars, cut>>
                 \/ CallGoesWrong(w) /\ UNCHANGED ledgerVars
BY DEF Next, OutboxStep

LEMMA NextTyping == TypeOK /\ [Next]_vars => TypeOK'
<1> SUFFICES ASSUME TypeOK, [Next]_vars PROVE TypeOK'
  OBVIOUS
<1>1. CASE UNCHANGED vars
  BY <1>1 DEF vars, outboxVars, TypeOK, OutboxTypeOK, RowsTypeOK, RowsCounted, Sourced
<1>2. ASSUME SaleStep, UNCHANGED <<ledgerVars, cut>> PROVE TypeOK'
  BY <1>2, SaleTyping DEF TypeOK, OutboxTypeOK, ledgerVars
<1>3. ASSUME NEW w \in Workers, OutboxStep(w), UNCHANGED <<ledgerVars, cut>> PROVE TypeOK'
  BY <1>3, OutboxTyping DEF TypeOK, ledgerVars
<1>4. ASSUME NEW w \in Workers, CallGoesWrong(w), UNCHANGED ledgerVars PROVE TypeOK'
  BY <1>4, WrongTyping DEF TypeOK, ledgerVars
<1> QED
  BY <1>1, <1>2, <1>3, <1>4, NextCases, CashoutTyping, RevenueTyping

LEMMA InitTyping == Init => TypeOK
<1> SUFFICES ASSUME Init PROVE TypeOK
  OBVIOUS
<1>1. OutboxTypeOK(Places)
  BY OutboxStarts DEF Init
<1> QED
  BY <1>1 DEF Init, TypeOK, CashoutStates

\* The rows of the ledger, the withdrawals and the calls under way keep their
\* types; a withdrawal is never of a negative amount.
THEOREM Typing == Spec => []TypeOK
BY InitTyping, NextTyping, PTL DEF Spec

----------------------------------------------------------------------------
(* The outbox's rows and jobs *)

\* Only an answer makes a row DONE, and only the row it is about.
Alike(r, s) ==
    /\ s.state = "NONE" <=> r.state = "NONE"
    /\ s.state = "CANCELLED" <=> r.state = "CANCELLED"

LEMMA DoneFacts ==
    ASSUME TypeOK, NEW o \in Orders, NEW k \in Topics, MarkDone(o, k)
    PROVE  \A p \in Orders, l \in Topics :
              /\ Alike(row[p][l], row'[p][l])
              /\ row'[p][l].state = "DONE" => row[p][l].state = "DONE" \/ (p = o /\ l = k)
<1>1. row[o][k] \in Row
  BY DEF TypeOK, OutboxTypeOK, RowsTypeOK
<1>2. Alike(row[o][k], Settled(row[o][k], "DONE"))
  BY <1>1 DEF Settled, Alike
<1>3. \A p \in Orders, l \in Topics :
          \/ row'[p][l] = row[p][l]
          \/ p = o /\ l = k /\ row'[p][l] = Settled(row[o][k], "DONE")
  BY DEF MarkDone, TypeOK, OutboxTypeOK, RowsTypeOK
<1> QED
  BY <1>2, <1>3 DEF Alike

LEMMA FailedFacts ==
    ASSUME TypeOK, NEW w \in Workers, job[w] # NoJob, MarkFailed(job[w])
    PROVE  \A p \in Orders, l \in Topics :
              /\ Alike(row[p][l], row'[p][l])
              /\ row'[p][l].state = "DONE" => row[p][l].state = "DONE"
<1> DEFINE o == job[w].o
           k == job[w].topic
           r == Retried(row[o][k], job[w].tries)
<1>1. o \in Orders /\ k \in Topics
  BY JobFacts
<1>2. row[o][k] \in Row
  BY <1>1 DEF TypeOK, OutboxTypeOK, RowsTypeOK
<1>3. Alike(row[o][k], r) /\ (r.state = "DONE" => row[o][k].state = "DONE")
  BY <1>2 DEF Retried, Alike, Row
<1>4. \A p \in Orders, l \in Topics :
          row'[p][l] = row[p][l] \/ (p = o /\ l = k /\ row'[p][l] = r)
  BY <1>1 DEF MarkFailed, TypeOK, OutboxTypeOK, RowsTypeOK
<1> HIDE DEF o, k, r
<1> QED
  BY <1>3, <1>4 DEF Alike

\* What a step of one handler leaves true of the others.
LEMMA OthersFit ==
    ASSUME LedgerInv, NEW w \in Workers, UNCHANGED order, cut \subseteq cut',
           \A o \in Orders : refs[o] \subseteq refs'[o],
           TypeOK, \A v \in Workers : v # w => job'[v] = job[v], JobFits(w)'
    PROVE  \A v \in Workers : JobFits(v)'
<1> SUFFICES ASSUME NEW v \in Workers, v # w
             PROVE  JobFits(v)'
  OBVIOUS
<1>1. JobFits(v) /\ job'[v] = job[v]
  BY DEF LedgerInv
<1>2. job[v] # NoJob => job[v].o \in Orders
  BY JobFacts
<1> QED
  BY <1>1, <1>2 DEF JobFits

\* A step of one handler that leaves the ledger alone misses nothing if it
\* answers only what is backed out and turns away from nothing unmarked.
LEMMA MissesNothing ==
    ASSUME LedgerInv, NEW w \in Workers, UNCHANGED <<order, refs>>, cut \subseteq cut',
           \A v \in Workers : v # w => job'[v] = job[v],
           \A o \in Orders : row'[o]["FRANCHISE_REVENUE_VOID"].state = "DONE" => Reversed(o),
           \A o \in Orders : ReversedBy(w, o)' => BackedOut(o) \/ Reversed(o),
           \A o \in Orders : order[o] = "VOIDED" /\ Watches(w, o) =>
              BackedOut(o) \/ Watches(w, o)' \/ o \in cut'
    PROVE  NothingMissed'
<1> SUFFICES ASSUME NEW o \in Orders, order[o] = "VOIDED", Reversed(o)'
             PROVE  BackedOut(o)' \/ Watched(o)'
  BY DEF NothingMissed
<1>1. BackedOut(o)' <=> BackedOut(o)
  BY DEF BackedOut
<1>2. \A v \in Workers : v # w => /\ ReversedBy(v, o)' => ReversedBy(v, o)
                                  /\ Watches(v, o) => Watches(v, o)'
  BY DEF ReversedBy, Watches
<1>3. BackedOut(o) \/ Reversed(o)
  BY <1>2 DEF Reversed
<1>4. BackedOut(o) \/ o \in cut \/ \E v \in Workers : Watches(v, o)
  BY <1>3 DEF LedgerInv, NothingMissed, Watched
<1> QED
  BY <1>1, <1>2, <1>4 DEF Watched

LEMMA SameRefs ==
    ASSUME LedgerInv, UNCHANGED <<order, refs>>
    PROVE  RefsFit'
BY DEF LedgerInv, RefsFit

LEMMA SameRows ==
    ASSUME LedgerInv, UNCHANGED <<order, row, inline>>, \A o \in Orders : refs[o] \subseteq refs'[o]
    PROVE  RowsFit'
BY DEF LedgerInv, RowsFit

LEMMA SameCash ==
    ASSUME LedgerInv, UNCHANGED <<cashout, debits>>
    PROVE  DebitsFit'
BY DEF LedgerInv, DebitsFit, CashedOut, Notes

----------------------------------------------------------------------------
(* The handlers *)

\* A handler that reads and goes on.
LEMMA ReadingKeeps ==
    ASSUME TypeOK, LedgerInv, NEW w \in Workers, job[w] # NoJob, NEW place \in Places,
           Goto(w, place), UNCHANGED <<order, row, inline, ledgerVars>>, cut \subseteq cut',
           \A o \in Orders : /\ Watches(w, o) /\ order[o] = "VOIDED" /\ ~BackedOut(o)
                              /\ place \notin {"voidRead", "voidWrite"} => o \in cut',
           place = "ack" /\ job[w].topic = "FRANCHISE_REVENUE_VOID" => BackedOut(Own(w)),
           place \in {"voidRead", "voidWrite"} => order[Own(w)] = "VOIDED",
           place \in {"after", "voidWrite"} => "SALE" \in refs[Own(w)],
           place = "ack" /\ job[w].topic = "FRANCHISE_REVENUE" =>
              "SALE" \in refs[Own(w)] \/ order[Own(w)] = "VOIDED"
    PROVE  LedgerInv'
<1>1. /\ \A v \in Workers : v # w => job'[v] = job[v]
      /\ job'[w] # NoJob =>
            /\ job'[w].o = job[w].o /\ job'[w].topic = job[w].topic
            /\ job'[w].at = place /\ job'[w].owned = job[w].owned
      /\ job'[w] = NoJob => place \in Ends
  BY GotoMoves
<1>2. UNCHANGED <<order, row, inline, refs, cashout, debits>>
  BY DEF ledgerVars
<1>3. JobFits(w)'
  BY <1>1, <1>2 DEF LedgerInv, JobFits, Own
<1>4. \A v \in Workers : JobFits(v)'
  BY <1>1, <1>2, <1>3, OthersFit
<1>5. \A o \in Orders : ReversedBy(w, o)' => BackedOut(o)
  BY <1>1 DEF ReversedBy, Own
<1>6. \A o \in Orders : order[o] = "VOIDED" /\ Watches(w, o) =>
          BackedOut(o) \/ Watches(w, o)' \/ o \in cut'
  BY <1>1 DEF Watches, Ends
<1>7. \A o \in Orders : row'[o]["FRANCHISE_REVENUE_VOID"].state = "DONE" => Reversed(o)
  BY <1>2 DEF Reversed
<1>8. NothingMissed'
  BY <1>1, <1>2, <1>5, <1>6, <1>7, MissesNothing
<1>9. RowsFit' /\ RefsFit' /\ DebitsFit'
  BY <1>2, SameRows, SameRefs, SameCash
<1> QED
  BY <1>4, <1>8, <1>9 DEF LedgerInv

LEMMA HandlersReadKeep ==
    ASSUME TypeOK, LedgerInv, NEW w \in Workers,
           RevenueStart(w) \/ RevenueFind(w) \/ RevenueAfter(w) \/ VoidStart(w) \/ VoidRead(w),
           UNCHANGED cut
    PROVE  LedgerInv'
<1>0. job[w] # NoJob /\ JobFits(w)
  BY DEF RevenueStart, RevenueFind, RevenueAfter, VoidStart, VoidRead, Crediting, Voiding, At,
     LedgerInv
<1>1. ASSUME RevenueStart(w) PROVE LedgerInv'
  <2>1. job[w].topic = "FRANCHISE_REVENUE" /\ job[w].at = "start" /\ Step(w, "push")
    BY <1>1 DEF RevenueStart, Crediting, At
  <2> QED
    BY <1>0, <1>1, <2>1, PlaceFacts, ReadingKeeps DEF Step, RevenueStart, Watches
<1>2. ASSUME RevenueFind(w) PROVE LedgerInv'
  <2>1. PICK place \in {"post", "after", "ack"} :
            Step(w, place) /\ (place # "post" => "SALE" \in refs[Own(w)])
    BY <1>2 DEF RevenueFind, Landed
  <2>2. job[w].topic = "FRANCHISE_REVENUE" /\ job[w].at = "push"
    BY <1>2 DEF RevenueFind, Crediting, At
  <2>3. place \in Places
    BY PlaceFacts
  <2> QED
    BY <1>0, <1>2, <2>1, <2>2, <2>3, ReadingKeeps DEF Step, RevenueFind, Watches
<1>3. ASSUME RevenueAfter(w) PROVE LedgerInv'
  <2>1. PICK place \in {"voidRead", "ack"} :
            Step(w, place) /\ (place = "voidRead" <=> order[Own(w)] = "VOIDED")
    BY <1>3 DEF RevenueAfter
  <2>2. job[w].topic = "FRANCHISE_REVENUE" /\ job[w].at = "after"
    BY <1>3 DEF RevenueAfter, Crediting, At
  <2>3. place \in Places
    BY PlaceFacts
  <2>4. "SALE" \in refs[Own(w)]
    BY <1>0, <2>2 DEF JobFits, Own
  <2>5. \A o \in Orders : /\ Watches(w, o) /\ order[o] = "VOIDED" /\ ~BackedOut(o)
                           /\ place \notin {"voidRead", "voidWrite"} => o \in cut'
    BY <2>1 DEF Watches, Own
  <2> QED
    BY <1>0, <1>3, <2>1, <2>2, <2>3, <2>4, <2>5, ReadingKeeps DEF Step, RevenueAfter
<1>4. ASSUME VoidStart(w) PROVE LedgerInv'
  <2>1. job[w].topic = "FRANCHISE_REVENUE_VOID" /\ job[w].at = "start" /\ Step(w, "voidRead")
    BY <1>4 DEF VoidStart, At
  <2>2. order[Own(w)] = "VOIDED"
    BY <1>0, <2>1 DEF JobFits, Own
  <2> QED
    BY <1>0, <1>4, <2>1, <2>2, PlaceFacts, ReadingKeeps DEF Step, VoidStart, Watches
<1>5. ASSUME VoidRead(w) PROVE LedgerInv'
  <2>1. PICK place \in {"voidWrite", "ack"} :
            /\ Step(w, place)
            /\ place = "ack" => BackedOut(Own(w))
            /\ place = "voidWrite" => "SALE" \in refs[Own(w)]
    BY <1>5 DEF VoidRead, BackedOut
  <2>2. job[w].at = "voidRead"
    BY <1>5 DEF VoidRead, Voiding
  <2>3. place \in Places
    BY PlaceFacts
  <2>4. order[Own(w)] = "VOIDED"
    BY <1>0, <2>2 DEF JobFits, Own
  <2>5. \A o \in Orders : /\ Watches(w, o) /\ order[o] = "VOIDED" /\ ~BackedOut(o)
                           /\ place \notin {"voidRead", "voidWrite"} => o \in cut'
    BY <2>1 DEF Watches, Own
  <2> QED
    BY <1>0, <1>5, <2>1, <2>3, <2>4, <2>5, ReadingKeeps DEF Step, VoidRead
<1> QED
  BY <1>1, <1>2, <1>3, <1>4, <1>5

\* A push that lands on a voided sale is one that order-service waits for, and
\* it looks at the sale again, or one that was cut off.
LEMMA PostKeeps ==
    ASSUME TypeOK, LedgerInv, NEW w \in Workers, RevenuePost(w), UNCHANGED cut
    PROVE  LedgerInv'
<1> DEFINE place == Landed(w)
<1>1. PICK o \in Orders : o = job[w].o
  BY JobFacts DEF RevenuePost, Crediting, At
<1>2. /\ job[w] # NoJob /\ job[w].topic = "FRANCHISE_REVENUE" /\ job[w].at = "post"
      /\ JobFits(w) /\ order[o] # "OPEN"
      /\ job[w].owned \/ o \in cut
  BY <1>1 DEF RevenuePost, Crediting, At, LedgerInv, JobFits
<1>3. place \in Places /\ place \in {"after", "ack"} /\ (job[w].owned => place = "after")
  BY PlaceFacts DEF Landed
<1>4. Step(w, place) /\ UNCHANGED <<order, row, inline, cashout, debits>>
  BY DEF RevenuePost, Step
<1> HIDE DEF place
<1>5. /\ \A v \in Workers : v # w => job'[v] = job[v]
      /\ job'[w] # NoJob =>
            /\ job'[w].o = o /\ job'[w].topic = "FRANCHISE_REVENUE"
            /\ job'[w].at = place /\ job'[w].owned = job[w].owned
      /\ job'[w] = NoJob => ~job[w].owned
  BY <1>1, <1>2, <1>3, <1>4, GotoMoves DEF Step
<1>6. /\ \A p \in Orders : p # o => refs'[p] = refs[p]
      /\ refs'[o] = refs[o] \cup {"SALE"} \cup IF Commission > 0 THEN {"COMMISSION"} ELSE {}
  BY <1>1 DEF RevenuePost, Posted, Own, TypeOK
<1>7. \A p \in Orders : refs[p] \subseteq refs'[p]
  BY <1>6
<1>8. RefsFit'
  <2>1. RefsFit
    BY DEF LedgerInv
  <2> SUFFICES ASSUME NEW p \in Orders
               PROVE  /\ "SALE" \in refs'[p] => order[p] # "OPEN"
                      /\ "VOID_SALE" \in refs'[p] => "SALE" \in refs'[p] /\ order[p] = "VOIDED"
                      /\ "COMMISSION" \in refs'[p] <=> "SALE" \in refs'[p] /\ Commission > 0
                      /\ "VOID_COMMISSION" \in refs'[p] <=>
                            "VOID_SALE" \in refs'[p] /\ Commission > 0
    BY <1>4 DEF RefsFit
  <2>2. CASE p = o
    BY <1>2, <1>6, <2>1, <2>2 DEF RefsFit
  <2>3. CASE p # o
    BY <1>6, <2>1, <2>3 DEF RefsFit
  <2> QED
    BY <2>2, <2>3
<1>9. JobFits(w)'
  BY <1>2, <1>3, <1>4, <1>5, <1>6 DEF JobFits
<1>10. \A v \in Workers : JobFits(v)'
  BY <1>4, <1>5, <1>7, <1>9, OthersFit
<1>11. NothingMissed'
  <2> SUFFICES ASSUME NEW p \in Orders, order[p] = "VOIDED", Reversed(p)'
               PROVE  BackedOut(p)' \/ Watched(p)'
    BY <1>4 DEF NothingMissed
  <2>1. CASE p = o
    <3>1. Watches(w, p)' \/ p \in cut'
      BY <1>2, <1>3, <1>5, <2>1 DEF Watches
    <3> QED
      BY <3>1 DEF Watched
  <2>2. CASE p # o
    <3>1. BackedOut(p)' <=> BackedOut(p)
      BY <1>6, <2>2 DEF BackedOut
    <3>2. \A v \in Workers : /\ ReversedBy(v, p)' => ReversedBy(v, p)
                             /\ Watches(v, p) => Watches(v, p)'
      BY <1>1, <1>5, <2>2 DEF ReversedBy, Watches
    <3>3. Reversed(p)
      BY <1>4, <3>2 DEF Reversed
    <3> QED
      BY <3>1, <3>2, <3>3 DEF LedgerInv, NothingMissed, Watched
  <2> QED
    BY <2>1, <2>2
<1>12. RowsFit' /\ DebitsFit'
  BY <1>4, <1>7, SameRows, SameCash
<1> QED
  BY <1>8, <1>10, <1>11, <1>12 DEF LedgerInv

LEMMA MirrorKeeps ==
    ASSUME TypeOK, LedgerInv, NEW w \in Workers, VoidWrite(w), UNCHANGED cut
    PROVE  LedgerInv'
<1>1. PICK o \in Orders : o = job[w].o
  BY JobFacts DEF VoidWrite, Voiding
<1>2. /\ job[w] # NoJob /\ job[w].at = "voidWrite" /\ JobFits(w)
      /\ order[o] = "VOIDED" /\ "SALE" \in refs[o]
      /\ job[w].topic = "FRANCHISE_REVENUE" => job[w].owned \/ o \in cut
  BY <1>1 DEF VoidWrite, Voiding, LedgerInv, JobFits
<1>3. Step(w, "ack") /\ UNCHANGED <<order, row, inline, cashout, debits>>
  BY DEF VoidWrite, Step
<1>4. /\ \A v \in Workers : v # w => job'[v] = job[v]
      /\ job'[w] # NoJob =>
            /\ job'[w].o = o /\ job'[w].topic = job[w].topic
            /\ job'[w].at = "ack" /\ job'[w].owned = job[w].owned
  BY <1>1, <1>2, <1>3, PlaceFacts, GotoMoves DEF Step
<1>5. /\ \A p \in Orders : p # o => refs'[p] = refs[p]
      /\ refs'[o] = refs[o] \cup {"VOID_SALE"}
                       \cup IF "COMMISSION" \in refs[o] THEN {"VOID_COMMISSION"} ELSE {}
  BY <1>1 DEF VoidWrite, Mirrored, Own, TypeOK
<1>6. \A p \in Orders : refs[p] \subseteq refs'[p]
  BY <1>5
<1>7. RefsFit'
  <2>1. RefsFit
    BY DEF LedgerInv
  <2> SUFFICES ASSUME NEW p \in Orders
               PROVE  /\ "SALE" \in refs'[p] => order[p] # "OPEN"
                      /\ "VOID_SALE" \in refs'[p] => "SALE" \in refs'[p] /\ order[p] = "VOIDED"
                      /\ "COMMISSION" \in refs'[p] <=> "SALE" \in refs'[p] /\ Commission > 0
                      /\ "VOID_COMMISSION" \in refs'[p] <=>
                            "VOID_SALE" \in refs'[p] /\ Commission > 0
    BY <1>3 DEF RefsFit
  <2>2. CASE p = o
    BY <1>2, <1>5, <2>1, <2>2 DEF RefsFit
  <2>3. CASE p # o
    BY <1>5, <2>1, <2>3 DEF RefsFit
  <2> QED
    BY <2>2, <2>3
<1>8. JobFits(w)'
  <2>1. order'[o] = "VOIDED" /\ "SALE" \in refs'[o] /\ cut' = cut
    BY <1>2, <1>3, <1>5
  <2> QED
    BY <1>2, <1>4, <2>1 DEF JobFits
<1>9. \A v \in Workers : JobFits(v)'
  BY <1>3, <1>4, <1>6, <1>8, OthersFit
<1>10. NothingMissed'
  <2> SUFFICES ASSUME NEW p \in Orders, order[p] = "VOIDED", Reversed(p)'
               PROVE  BackedOut(p)' \/ Watched(p)'
    BY <1>3 DEF NothingMissed
  <2>1. CASE p = o
    BY <1>5, <2>1 DEF BackedOut
  <2>2. CASE p # o
    <3>1. BackedOut(p)' <=> BackedOut(p)
      BY <1>5, <2>2 DEF BackedOut
    <3>2. \A v \in Workers : /\ ReversedBy(v, p)' => ReversedBy(v, p)
                             /\ Watches(v, p) => Watches(v, p)'
      BY <1>1, <1>4, <2>2 DEF ReversedBy, Watches
    <3>3. Reversed(p)
      BY <1>3, <3>2 DEF Reversed
    <3> QED
      BY <3>1, <3>2, <3>3 DEF LedgerInv, NothingMissed, Watched
  <2> QED
    BY <2>1, <2>2
<1>11. RowsFit' /\ DebitsFit'
  BY <1>3, <1>6, SameRows, SameCash
<1> QED
  BY <1>7, <1>9, <1>10, <1>11 DEF LedgerInv

----------------------------------------------------------------------------
(* The outbox *)

LEMMA TakeKeeps ==
    ASSUME TypeOK, LedgerInv, NEW w \in Workers, NEW o \in Orders, NEW k \in Topics,
           Take(w, o, k) \/ (k \in VoidTopics /\ ReverseInline(w, o, k)), UNCHANGED <<ledgerVars, cut>>
    PROVE  LedgerInv'
<1>1. /\ \A v \in Workers : v # w => job'[v] = job[v]
      /\ job'[w].o = o /\ job'[w].topic = k /\ job'[w].at \in {"deliver", "start"}
      /\ k = "FRANCHISE_REVENUE" => job'[w].owned
  <2>1. CASE Take(w, o, k)
    BY <2>1 DEF Take, Taken, TypeOK, OutboxTypeOK
  <2>2. CASE k \in VoidTopics /\ ReverseInline(w, o, k)
    BY <2>2, TopicFacts DEF ReverseInline, Inline, TypeOK, OutboxTypeOK
  <2> QED
    BY <2>1, <2>2
<1>2. /\ job[w] = NoJob /\ UNCHANGED <<order, row, refs, cashout, debits>>
      /\ inline' \subseteq inline
  BY DEF Take, ReverseInline, ledgerVars
<1>3. order[o] # "OPEN" /\ (k = "FRANCHISE_REVENUE_VOID" => order[o] = "VOIDED")
  <2>1. RowsFit
    BY DEF LedgerInv
  <2>2. CASE Take(w, o, k)
    BY <2>1, <2>2, TopicFacts DEF Take, RowsFit
  <2>3. CASE k \in VoidTopics /\ ReverseInline(w, o, k)
    BY <2>1, <2>3 DEF ReverseInline, RowsFit
  <2> QED
    BY <2>2, <2>3
<1>4. JobFits(w)'
  BY <1>1, <1>2, <1>3 DEF JobFits
<1>5. \A v \in Workers : JobFits(v)'
  BY <1>1, <1>2, <1>4, OthersFit
<1>6. NothingMissed'
  <2>1. \A p \in Orders : ~ReversedBy(w, p)' /\ ~Watches(w, p)
    BY <1>1, <1>2 DEF ReversedBy, Watches
  <2>2. \A p \in Orders : row'[p]["FRANCHISE_REVENUE_VOID"].state = "DONE" => Reversed(p)
    BY <1>2 DEF Reversed
  <2> QED
    BY <1>1, <1>2, <2>1, <2>2, MissesNothing
<1>7. RowsFit'
  BY <1>2 DEF LedgerInv, RowsFit
<1> QED
  BY <1>2, <1>5, <1>6, <1>7, SameRefs, SameCash DEF LedgerInv

LEMMA DeliverKeeps ==
    ASSUME TypeOK, LedgerInv, NEW w \in Workers, Deliver(w), UNCHANGED <<ledgerVars, cut>>
    PROVE  LedgerInv'
<1>1. job[w] # NoJob /\ job[w].at = "deliver"
  BY DEF Deliver
<1>2. PICK place \in {"start", "ack"} :
          /\ Goto(w, place)
          /\ place = "ack" => order[Own(w)] = "VOIDED" /\ job[w].topic = "FRANCHISE_REVENUE"
  BY TopicFacts DEF Deliver, Own
<1>3. place \in Places
  BY PlaceFacts
<1> QED
  BY <1>1, <1>2, <1>3, ReadingKeeps DEF Watches, Deliver

LEMMA FinishKeeps ==
    ASSUME TypeOK, LedgerInv, NEW w \in Workers, Finish(w), UNCHANGED <<ledgerVars, cut>>
    PROVE  LedgerInv'
<1>1. PICK o \in Orders, k \in Topics : o = job[w].o /\ k = job[w].topic
  BY JobFacts DEF Finish
<1>2. /\ job[w] # NoJob /\ job[w].at \in Ends /\ JobFits(w)
      /\ job' = [job EXCEPT ![w] = NoJob]
      /\ UNCHANGED <<order, inline, refs, cashout, debits>>
  BY DEF Finish, LedgerInv, ledgerVars
<1>3. \A p \in Orders, l \in Topics :
          /\ Alike(row[p][l], row'[p][l])
          /\ row'[p][l].state = "DONE" =>
                row[p][l].state = "DONE" \/ (job[w].at = "ack" /\ p = o /\ l = k)
  <2>1. CASE job[w].at = "ack"
    BY <1>1, <2>1, DoneFacts DEF Finish
  <2>2. CASE job[w].at # "ack"
    BY <1>1, <2>2, FailedFacts DEF Finish
  <2> QED
    BY <2>1, <2>2
<1>4. /\ job'[w] = NoJob
      /\ \A v \in Workers : v # w => job'[v] = job[v]
  BY <1>2 DEF TypeOK, OutboxTypeOK, RowsTypeOK
<1>5. \A v \in Workers : JobFits(v)'
  <2>1. JobFits(w)'
    BY <1>4 DEF JobFits
  <2> QED
    BY <1>2, <1>4, <2>1, OthersFit
<1>6. RowsFit'
  <2>1. k = "FRANCHISE_REVENUE" /\ job[w].at = "ack" => "SALE" \in refs[o] \/ order[o] = "VOIDED"
    BY <1>1, <1>2 DEF JobFits
  <2> QED
    BY <1>2, <1>3, <2>1, TopicFacts DEF LedgerInv, RowsFit, Alike
<1>7. NothingMissed'
  <2>1. \A p \in Orders : ~ReversedBy(w, p)' /\ ~Watches(w, p)
    BY <1>2, <1>4 DEF ReversedBy, Watches, Ends
  <2>2. \A p \in Orders : row'[p]["FRANCHISE_REVENUE_VOID"].state = "DONE" => Reversed(p)
    BY <1>1, <1>2, <1>3, TopicFacts DEF Reversed, ReversedBy
  <2> QED
    BY <1>2, <1>4, <2>1, <2>2, MissesNothing
<1> QED
  BY <1>2, <1>5, <1>6, <1>7, SameRefs, SameCash DEF LedgerInv

\* A push that is cut off is marked, and its row is due again or dead.
LEMMA CutOffKeeps ==
    ASSUME TypeOK, LedgerInv, NEW w \in Workers, job[w] # NoJob, job[w].at \in Remote,
           job' = [job EXCEPT ![w] = Unowned(job[w])], Cut(w, Remote),
           UNCHANGED <<order, inline, ledgerVars>>,
           \A p \in Orders, l \in Topics :
              /\ Alike(row[p][l], row'[p][l])
              /\ row'[p][l].state = "DONE" => row[p][l].state = "DONE"
    PROVE  LedgerInv'
<1>1. /\ JobFits(w) /\ UNCHANGED <<order, inline, refs, cashout, debits>>
      /\ Unowned(job[w]) \in Job(Places)
  BY JobFacts, UnownedIs DEF LedgerInv, ledgerVars
<1>2. /\ \A v \in Workers : v # w => job'[v] = job[v]
      /\ job'[w] = Unowned(job[w]) /\ job'[w] # NoJob
      /\ job'[w].o = job[w].o /\ job'[w].topic = job[w].topic /\ job'[w].at = job[w].at
  BY <1>1, JobFacts, UnownedIs, NoJobAssumption DEF TypeOK, OutboxTypeOK
<1>3. /\ cut \subseteq cut'
      /\ job[w].topic = "FRANCHISE_REVENUE" => job[w].o \in cut'
  BY CutIs
<1>4. \A v \in Workers : JobFits(v)'
  <2>1. JobFits(w)'
    BY <1>1, <1>2, <1>3 DEF JobFits, Remote
  <2> QED
    BY <1>1, <1>2, <1>3, <2>1, OthersFit
<1>5. RowsFit'
  BY <1>1, TopicFacts DEF LedgerInv, RowsFit, Alike
<1>6. NothingMissed'
  <2>1. \A p \in Orders : ~ReversedBy(w, p)' /\ (Watches(w, p) => Watches(w, p)')
    BY <1>2 DEF ReversedBy, Watches, Remote
  <2>2. \A p \in Orders : row'[p]["FRANCHISE_REVENUE_VOID"].state = "DONE" => Reversed(p)
    BY TopicFacts DEF Reversed
  <2> QED
    BY <1>1, <1>2, <1>3, <2>1, <2>2, MissesNothing
<1> QED
  BY <1>1, <1>4, <1>5, <1>6, SameRefs, SameCash DEF LedgerInv

LEMMA AbortKeeps ==
    ASSUME TypeOK, LedgerInv, NEW w \in Workers, AbortCall(w), UNCHANGED ledgerVars
    PROVE  LedgerInv'
<1>1. /\ job[w] # NoJob /\ job[w].at \in Remote /\ MarkFailed(job[w])
      /\ job' = [job EXCEPT ![w] = Moved(Unowned(job[w]), job[w].at)]
      /\ UNCHANGED <<order, inline>>
  BY DEF AbortCall, Abort, TypeOK, OutboxTypeOK
<1>2. job[w] \in Job(Places) /\ Unowned(job[w]) \in Job(Places)
  BY <1>1, JobFacts, UnownedIs
<1>3. Moved(Unowned(job[w]), job[w].at) = Unowned(job[w])
  BY <1>1, <1>2 DEF Moved, Unowned, Remote, Ends, Job
<1> QED
  BY <1>1, <1>3, FailedFacts, CutOffKeeps DEF AbortCall

LEMMA CallerDiesKeeps ==
    ASSUME TypeOK, LedgerInv, NEW w \in Workers, CallerDies(w), UNCHANGED ledgerVars
    PROVE  LedgerInv'
<1>1. job' = [job EXCEPT ![w] = Unowned(job[w])]
  BY DEF CallerDies, TypeOK, OutboxTypeOK
<1> QED
  BY <1>1, CutOffKeeps DEF CallerDies, Alike

\* Whoever fails or dies on his second look is marked.
LEMMA FailKeeps ==
    ASSUME TypeOK, LedgerInv, NEW w \in Workers, CallFails(w), UNCHANGED ledgerVars
    PROVE  LedgerInv'
<1>1. /\ job[w] # NoJob /\ Goto(w, "fail") /\ UNCHANGED <<order, row, inline>>
      /\ "fail" \in Places
  BY PlaceFacts DEF CallFails
<1>2. /\ cut \subseteq cut'
      /\ job[w].topic = "FRANCHISE_REVENUE" /\ job[w].at \in SecondLook => job[w].o \in cut'
  BY <1>1, CutIs DEF CallFails
<1>3. \A o \in Orders : Watches(w, o) => o \in cut'
  BY <1>2 DEF Watches, SecondLook
<1> QED
  BY <1>1, <1>2, <1>3, ReadingKeeps

LEMMA CrashKeeps ==
    ASSUME TypeOK, LedgerInv, NEW w \in Workers, CallDies(w), UNCHANGED ledgerVars
    PROVE  LedgerInv'
<1>1. job[w] # NoJob /\ UNCHANGED <<order, row, inline, refs, cashout, debits>>
  BY DEF CallDies, Crash, ledgerVars
<1>2. /\ job'[w] = NoJob
      /\ \A v \in Workers : v # w => job'[v] = job[v]
  BY DEF CallDies, Crash, TypeOK, OutboxTypeOK
<1>3. /\ cut \subseteq cut'
      /\ job[w].topic = "FRANCHISE_REVENUE" /\ job[w].at \in SecondLook => job[w].o \in cut'
  BY <1>1, CutIs DEF CallDies
<1>4. \A v \in Workers : JobFits(v)'
  <2>1. JobFits(w)'
    BY <1>2 DEF JobFits
  <2> QED
    BY <1>1, <1>2, <1>3, <2>1, OthersFit
<1>5. NothingMissed'
  <2>1. \A o \in Orders : ~ReversedBy(w, o)' /\ (Watches(w, o) => o \in cut')
    BY <1>2, <1>3 DEF ReversedBy, Watches, SecondLook
  <2>2. \A o \in Orders : row'[o]["FRANCHISE_REVENUE_VOID"].state = "DONE" => Reversed(o)
    BY <1>1 DEF Reversed
  <2> QED
    BY <1>1, <1>2, <1>3, <2>1, <2>2, MissesNothing
<1> QED
  BY <1>1, <1>4, <1>5, SameRows, SameRefs, SameCash DEF LedgerInv

----------------------------------------------------------------------------
(* The sale *)

LEMMA CompletionKeeps ==
    ASSUME TypeOK, LedgerInv, NEW o \in Orders, Complete(o), UNCHANGED <<ledgerVars, cut>>
    PROVE  LedgerInv'
<1>1. /\ order[o] = "OPEN" /\ order'[o] = "COMPLETED"
      /\ \A p \in Orders : p # o => order'[p] = order[p] /\ row'[p] = row[p]
      /\ row'[o]["FRANCHISE_REVENUE"].state = "PENDING"
      /\ row'[o]["FRANCHISE_REVENUE_VOID"] = row[o]["FRANCHISE_REVENUE_VOID"]
      /\ UNCHANGED <<job, inline, refs, cashout, debits, cut>>
  BY TopicFacts DEF Complete, Owing, TypeOK, OutboxTypeOK, RowsTypeOK, ledgerVars
<1>2. RowsFit'
  BY <1>1 DEF LedgerInv, RowsFit
<1>3. RefsFit'
  BY <1>1 DEF LedgerInv, RefsFit
<1>4. ASSUME NEW w \in Workers PROVE JobFits(w)'
  <2>1. JobFits(w) /\ job'[w] = job[w] /\ (job[w] # NoJob => job[w].o \in Orders)
    BY <1>1, JobFacts DEF LedgerInv
  <2> QED
    BY <1>1, <2>1 DEF JobFits
<1>5. NothingMissed'
  <2> SUFFICES ASSUME NEW p \in Orders, order'[p] = "VOIDED", Reversed(p)'
               PROVE  BackedOut(p)' \/ Watched(p)'
    BY DEF NothingMissed
  <2>1. p # o /\ order[p] = "VOIDED" /\ Reversed(p)
    BY <1>1 DEF Reversed, ReversedBy
  <2> QED
    BY <1>1, <2>1 DEF LedgerInv, NothingMissed, Watched, BackedOut, Watches
<1> QED
  BY <1>1, <1>2, <1>3, <1>4, <1>5, SameCash DEF LedgerInv

LEMMA VoidKeeps ==
    ASSUME TypeOK, LedgerInv, NEW o \in Orders, VoidWalkIn(o),
           UNCHANGED <<ledgerVars, cut>>
    PROVE  LedgerInv'
<1>1. /\ order[o] = "COMPLETED" /\ order'[o] = "VOIDED"
      /\ \A p \in Orders : p # o => order'[p] = order[p] /\ row'[p] = row[p]
      /\ row'[o]["FRANCHISE_REVENUE_VOID"].state = "PENDING"
      /\ row'[o]["FRANCHISE_REVENUE"] = row[o]["FRANCHISE_REVENUE"]
      /\ inline' = inline \cup {o}
      /\ UNCHANGED <<job, refs, cashout, debits, cut>>
  BY TopicFacts DEF VoidWalkIn, Owing, TypeOK, OutboxTypeOK, RowsTypeOK, ledgerVars
<1>2. RowsFit'
  BY <1>1 DEF LedgerInv, RowsFit
<1>3. RefsFit'
  BY <1>1 DEF LedgerInv, RefsFit
<1>4. ASSUME NEW w \in Workers PROVE JobFits(w)'
  <2>1. JobFits(w) /\ job'[w] = job[w] /\ (job[w] # NoJob => job[w].o \in Orders)
    BY <1>1, JobFacts DEF LedgerInv
  <2> QED
    BY <1>1, <2>1 DEF JobFits
<1>5. NothingMissed'
  <2> SUFFICES ASSUME NEW p \in Orders, order'[p] = "VOIDED", Reversed(p)'
               PROVE  BackedOut(p)' \/ Watched(p)'
    BY DEF NothingMissed
  <2>1. \A w \in Workers : ~ReversedBy(w, o)
    BY <1>1 DEF LedgerInv, JobFits, ReversedBy
  <2>2. p # o /\ order[p] = "VOIDED" /\ Reversed(p)
    BY <1>1, <2>1 DEF Reversed, ReversedBy
  <2> QED
    BY <1>1, <2>2 DEF LedgerInv, NothingMissed, Watched, BackedOut, Watches
<1> QED
  BY <1>1, <1>2, <1>3, <1>4, <1>5, SameCash DEF LedgerInv

LEMMA CallingOffKeeps ==
    ASSUME TypeOK, LedgerInv, NEW o \in Orders, CancelRows(o), UNCHANGED <<ledgerVars, cut>>
    PROVE  LedgerInv'
<1>1. /\ order[o] = "VOIDED" /\ \A p \in Orders : p # o => row'[p] = row[p]
      /\ row'[o]["FRANCHISE_REVENUE_VOID"] = row[o]["FRANCHISE_REVENUE_VOID"]
      /\ row'[o]["FRANCHISE_REVENUE"].state = "NONE" <=> row[o]["FRANCHISE_REVENUE"].state = "NONE"
      /\ UNCHANGED <<order, job, inline, refs, cashout, debits, cut>>
  BY TopicFacts DEF CancelRows, CalledOff, TypeOK, OutboxTypeOK, RowsTypeOK, ledgerVars
<1>2. RowsFit'
  BY <1>1 DEF LedgerInv, RowsFit
<1>3. \A w \in Workers : JobFits(w)'
  BY <1>1 DEF LedgerInv, JobFits
<1>4. NothingMissed'
  <2>1. \A p \in Orders : Reversed(p)' => Reversed(p)
    BY <1>1 DEF Reversed, ReversedBy
  <2> QED
    BY <1>1, <2>1 DEF LedgerInv, NothingMissed, Watched, BackedOut, Watches
<1> QED
  BY <1>1, <1>2, <1>3, <1>4, SameRefs, SameCash DEF LedgerInv

----------------------------------------------------------------------------
(* Counting what was cashed out *)

\* The notes of some withdrawals, whatever amounts they are of.
Heap(a, S) == UNION {{c} \X (1..a[c]) : c \in S}

LEMMA HeapOfOne ==
    ASSUME NEW c, NEW n \in Nat
    PROVE  IsFiniteSet({c} \X (1..n)) /\ Cardinality({c} \X (1..n)) = n
<1>1. IsFiniteSet(1..n) /\ Cardinality(1..n) = n
  <2>1. Cardinality(1..n) = IF 1 > n THEN 0 ELSE n - 1 + 1
    BY FS_Interval
  <2>2. (IF 1 > n THEN 0 ELSE n - 1 + 1) = n
    OBVIOUS
  <2> QED
    BY <2>1, <2>2, FS_Interval
<1>2. IsFiniteSet({c}) /\ Cardinality({c}) = 1
  BY FS_Singleton
<1>3. IsFiniteSet({c} \X (1..n)) /\ Cardinality({c} \X (1..n)) = Cardinality({c}) * Cardinality(1..n)
  BY <1>1, <1>2, FS_Product
<1>4. 1 * n = n
  OBVIOUS
<1> QED
  BY <1>1, <1>2, <1>3, <1>4

LEMMA HeapFinite ==
    ASSUME NEW a \in [Cashouts -> Nat], NEW S \in SUBSET Cashouts
    PROVE  IsFiniteSet(Heap(a, S)) /\ Cardinality(Heap(a, S)) \in Nat
<1> DEFINE f == [c \in S |-> {c} \X (1..a[c])]
           T == {{c} \X (1..a[c]) : c \in S}
<1>1. IsFiniteSet(S)
  BY AmountsAssumption, FS_Subset
<1>2. f \in Surjection(S, T)
  BY DEF Surjection
<1>3. IsFiniteSet(T)
  <2> HIDE DEF f, T
  <2> QED
    BY <1>1, <1>2, FS_Surjection
<1>4. ASSUME NEW u \in T PROVE IsFiniteSet(u)
  <2>1. PICK c \in S : u = {c} \X (1..a[c])
    OBVIOUS
  <2>2. a[c] \in Nat
    OBVIOUS
  <2> QED
    BY <2>1, <2>2, HeapOfOne
<1>5. IsFiniteSet(UNION T)
  <2> HIDE DEF T
  <2> QED
    BY <1>3, <1>4, FS_UNION
<1>6. IsFiniteSet(Heap(a, S))
  BY <1>5 DEF Heap
<1> QED
  BY <1>6, FS_CardinalityType

\* One withdrawal more.
LEMMA HeapGained ==
    ASSUME NEW a \in [Cashouts -> Nat], NEW S \in SUBSET Cashouts, NEW c \in Cashouts, c \notin S
    PROVE  Cardinality(Heap(a, S \cup {c})) = Cardinality(Heap(a, S)) + a[c]
<1> DEFINE n == a[c]
           mine == {c} \X (1..n)
<1>1. Heap(a, S \cup {c}) = Heap(a, S) \cup mine
  <2>1. ASSUME NEW u
        PROVE  u \in Heap(a, S \cup {c}) <=> u \in Heap(a, S) \/ u \in mine
    BY DEF Heap
  <2> QED
    BY <2>1
<1>2. Heap(a, S) \cap mine = {}
  <2>1. ASSUME NEW u \in Heap(a, S)
        PROVE  u \notin mine
    <3>1. PICK d \in S : u \in {d} \X (1..a[d])
      BY DEF Heap
    <3>2. u[1] = d
      BY <3>1
    <3> QED
      BY <3>1, <3>2
  <2> QED
    BY <2>1
<1>3. n \in Nat
  OBVIOUS
<1> HIDE DEF n
<1>4. IsFiniteSet(mine) /\ Cardinality(mine) = n
  BY <1>3, HeapOfOne
<1>5. IsFiniteSet(Heap(a, S)) /\ Cardinality(Heap(a, S)) \in Nat
  BY HeapFinite
<1> HIDE DEF mine
<1>6. Cardinality(Heap(a, S) \cup mine)
        = Cardinality(Heap(a, S)) + Cardinality(mine) - Cardinality(Heap(a, S) \cap mine)
  BY <1>4, <1>5, FS_Union
<1>7. Cardinality(Heap(a, S) \cap mine) = 0
  BY <1>2, FS_EmptySet
<1>8. Cardinality(Heap(a, S) \cup mine) = Cardinality(Heap(a, S)) + n - 0
  BY <1>4, <1>6, <1>7
<1>9. Cardinality(Heap(a, S)) + n - 0 = Cardinality(Heap(a, S)) + n
  BY <1>3, <1>5
<1> QED
  BY <1>1, <1>8, <1>9 DEF n

LEMMA HeapSame ==
    ASSUME NEW a \in [Cashouts -> Nat], NEW b \in [Cashouts -> Nat], NEW S \in SUBSET Cashouts,
           \A c \in S : a[c] = b[c]
    PROVE  Heap(a, S) = Heap(b, S)
BY DEF Heap

----------------------------------------------------------------------------
(* Cashing out *)

Amounts == [c \in Cashouts |-> cashout[c].amount]
StandingOut == {c \in Cashouts : cashout[c].state \in {"PROCESSING", "PAID"}}

LEMMA CashedOutIsHeap ==
    ASSUME TypeOK
    PROVE  /\ CashedOut = Cardinality(Heap(Amounts, StandingOut)) /\ CashedOut \in Nat
           /\ Amounts \in [Cashouts -> Nat] /\ StandingOut \in SUBSET Cashouts
<1>1. Amounts \in [Cashouts -> Nat] /\ StandingOut \in SUBSET Cashouts
  BY DEF Amounts, StandingOut, TypeOK
<1>2. Notes(StandingOut) = Heap(Amounts, StandingOut)
  BY DEF Notes, Heap, Amounts, StandingOut
<1>3. CashedOut = Cardinality(Heap(Amounts, StandingOut))
  BY <1>2 DEF CashedOut, StandingOut
<1> QED
  BY <1>1, <1>3, HeapFinite

LEMMA CashedOutIsHeapNext ==
    ASSUME TypeOK'
    PROVE  /\ CashedOut' = Cardinality(Heap(Amounts', StandingOut')) /\ CashedOut' \in Nat
           /\ Amounts' \in [Cashouts -> Nat] /\ StandingOut' \in SUBSET Cashouts
<1>1. Amounts' \in [Cashouts -> Nat] /\ StandingOut' \in SUBSET Cashouts
  BY DEF Amounts, StandingOut, TypeOK
<1>2. Notes(StandingOut)' = Heap(Amounts', StandingOut')
  BY DEF Notes, Heap, Amounts, StandingOut
<1>3. CashedOut' = Cardinality(Heap(Amounts', StandingOut'))
  BY <1>2 DEF CashedOut, StandingOut
<1> QED
  BY <1>1, <1>3, HeapFinite

LEMMA WithdrawalBalances ==
    ASSUME TypeOK, TypeOK', DebitsFit, NEW c \in Cashouts, Withdraw(c)
    PROVE  DebitsFit'
<1>1. PICK amount \in {Balance, 1} :
          /\ cashout' = [cashout EXCEPT ![c] = [state |-> "PROCESSING", amount |-> amount]]
          /\ debits' = debits - amount
  BY DEF Withdraw
<1>2. /\ cashout'[c].state = "PROCESSING" /\ cashout'[c].amount = amount
      /\ \A d \in Cashouts : d # c => cashout'[d] = cashout[d]
  BY <1>1 DEF TypeOK
<1>3. amount \in Nat
  BY <1>2 DEF TypeOK
<1>4. c \notin StandingOut /\ StandingOut' = StandingOut \cup {c}
  BY <1>2 DEF StandingOut, Withdraw
<1>5. \A d \in StandingOut : Amounts'[d] = Amounts[d]
  BY <1>2, <1>4 DEF Amounts, StandingOut
<1>6. Amounts'[c] = amount
  BY <1>2 DEF Amounts
<1> DEFINE a == Amounts
           b == Amounts'
           S == StandingOut
           x == Cardinality(Heap(a, S))
           y == Cardinality(Heap(b, S \cup {c}))
<1>7. /\ a \in [Cashouts -> Nat] /\ b \in [Cashouts -> Nat] /\ S \in SUBSET Cashouts
      /\ CashedOut = x /\ x \in Nat /\ CashedOut' = y
  BY <1>4, CashedOutIsHeap, CashedOutIsHeapNext
<1> HIDE DEF a, b, S
<1>8. Heap(a, S) = Heap(b, S)
  BY <1>5, <1>7, HeapSame DEF a, b, S
<1>9. Cardinality(Heap(b, S \cup {c})) = Cardinality(Heap(b, S)) + b[c]
  BY <1>4, <1>7, HeapGained DEF S
<1>10. y = x + amount
  BY <1>6, <1>8, <1>9 DEF b
<1> HIDE DEF x, y
<1> QED
  BY <1>1, <1>3, <1>7, <1>10 DEF DebitsFit

LEMMA SettlementBalances ==
    ASSUME TypeOK, TypeOK', DebitsFit, NEW c \in Cashouts, NEW outcome \in Outcomes,
           SettleWrite(c, outcome)
    PROVE  DebitsFit'
<1>1. CASE ~MaySettle(c)
  BY <1>1 DEF SettleWrite, DebitsFit, CashedOut, Notes
<1>2. CASE MaySettle(c)
  <2>1. /\ cashout' = [cashout EXCEPT ![c].state = outcome]
        /\ debits' = IF outcome = "FAILED" THEN debits + cashout[c].amount ELSE debits
    BY <1>2 DEF SettleWrite
  <2>2. /\ cashout'[c].state = outcome /\ cashout'[c].amount = cashout[c].amount
        /\ \A d \in Cashouts : d # c => cashout'[d] = cashout[d]
    BY <2>1 DEF TypeOK
  <2>3. Amounts' = Amounts
    BY <2>2 DEF Amounts
  <2>4. c \in StandingOut
    BY <1>2 DEF MaySettle, StandingOut
  <2> DEFINE a == Amounts
             n == cashout[c].amount
             S == StandingOut
             x == Cardinality(Heap(a, S))
             y == Cardinality(Heap(a, S \ {c}))
  <2>5. /\ a \in [Cashouts -> Nat] /\ S \in SUBSET Cashouts /\ a[c] = n /\ n \in Nat
        /\ CashedOut = x /\ CashedOut' = Cardinality(Heap(a, StandingOut'))
    BY <2>3, CashedOutIsHeap, CashedOutIsHeapNext DEF Amounts, TypeOK
  <2>6. debits \in Int /\ debits = 0 - x
    BY <2>5 DEF TypeOK, DebitsFit
  <2>7. CASE outcome = "FAILED"
    <3>1. StandingOut' = S \ {c}
      BY <2>2, <2>7 DEF StandingOut
    <3> HIDE DEF a, S, n
    <3>2. (S \ {c}) \cup {c} = S /\ S \ {c} \in SUBSET Cashouts /\ c \notin S \ {c}
      BY <2>4, <2>5 DEF S
    <3>3. Cardinality(Heap(a, (S \ {c}) \cup {c})) = Cardinality(Heap(a, S \ {c})) + a[c]
      BY <2>5, <3>2, HeapGained
    <3>4. y \in Nat
      BY <2>5, <3>2, HeapFinite
    <3>5. x = y + n
      BY <2>5, <3>2, <3>3
    <3>6. CashedOut' = y
      BY <2>5, <3>1
    <3>7. debits' = debits + n
      BY <2>1, <2>7 DEF n
    <3> HIDE DEF x, y
    <3>8. debits' = 0 - y
      BY <2>5, <2>6, <3>4, <3>5, <3>7
    <3> QED
      BY <3>6, <3>8 DEF DebitsFit
  <2>8. CASE outcome = "PAID"
    <3>1. StandingOut' = S
      BY <2>2, <2>4, <2>8 DEF StandingOut
    <3>2. debits' = debits
      BY <2>1, <2>8
    <3> HIDE DEF a, S
    <3> QED
      BY <2>5, <2>6, <3>1, <3>2 DEF DebitsFit
  <2> QED
    BY <2>7, <2>8 DEF Outcomes
<1> QED
  BY <1>1, <1>2

LEMMA CashoutKeeps ==
    ASSUME TypeOK, TypeOK', LedgerInv, CashoutStep, UNCHANGED cut
    PROVE  LedgerInv'
<1>1. UNCHANGED <<order, row, job, inline, refs>>
  BY DEF CashoutStep, Withdraw, SettleRead, SettleWrite, outboxVars
<1>2. DebitsFit'
  <2>1. DebitsFit
    BY DEF LedgerInv
  <2>2. ASSUME NEW c \in Cashouts, NEW s \in Outcomes, SettleRead(c, s) PROVE DebitsFit'
    BY <2>2, SameCash DEF SettleRead
  <2> QED
    BY <2>1, <2>2, WithdrawalBalances, SettlementBalances DEF CashoutStep
<1>3. RowsFit' /\ RefsFit'
  BY <1>1, SameRows, SameRefs
<1>4. \A w \in Workers : JobFits(w)'
  BY <1>1 DEF LedgerInv, JobFits
<1>5. NothingMissed'
  BY <1>1 DEF LedgerInv, NothingMissed, Watched, BackedOut, Reversed, ReversedBy, Watches
<1> QED
  BY <1>2, <1>3, <1>4, <1>5 DEF LedgerInv

----------------------------------------------------------------------------
(* BooksBalance *)

LEMMA InitLedger == Init => LedgerInv
<1> SUFFICES ASSUME Init PROVE LedgerInv
  OBVIOUS
<1>1. RowsFit
  BY TopicFacts DEF Init, OutboxInit, RowsFit
<1>2. RefsFit /\ \A w \in Workers : JobFits(w)
  BY DEF Init, OutboxInit, RefsFit, JobFits
<1>3. NothingMissed
  BY DEF Init, OutboxInit, NothingMissed
<1>4. DebitsFit
  <2>1. {c \in Cashouts : cashout[c].state \in {"PROCESSING", "PAID"}} = {}
    BY DEF Init
  <2>2. Notes({}) = {}
    BY DEF Notes
  <2>3. CashedOut = 0
    BY <2>1, <2>2, FS_EmptySet DEF CashedOut
  <2>4. debits = 0
    BY DEF Init
  <2> QED
    BY <2>3, <2>4 DEF DebitsFit
<1> QED
  BY <1>1, <1>2, <1>3, <1>4 DEF LedgerInv

LEMMA NextLedger == (TypeOK /\ LedgerInv) /\ [Next]_vars => LedgerInv'
<1> SUFFICES ASSUME TypeOK, LedgerInv, [Next]_vars PROVE LedgerInv'
  OBVIOUS
<1>0. TypeOK'
  BY NextTyping
<1>1. CASE UNCHANGED vars
  <2>1. UNCHANGED <<order, row, job, inline, refs, cashout, debits, cut>>
    BY <1>1 DEF vars, outboxVars
  <2>2. RowsFit' /\ RefsFit' /\ DebitsFit'
    BY <2>1, SameRows, SameRefs, SameCash
  <2>3. \A w \in Workers : JobFits(w)'
    BY <2>1 DEF LedgerInv, JobFits
  <2>4. NothingMissed'
    BY <2>1 DEF LedgerInv, NothingMissed, Watched, BackedOut, Reversed, ReversedBy, Watches
  <2> QED
    BY <2>2, <2>3, <2>4 DEF LedgerInv
<1>2. ASSUME SaleStep, UNCHANGED <<ledgerVars, cut>> PROVE LedgerInv'
  BY <1>2, CompletionKeeps, CallingOffKeeps, VoidKeeps DEF SaleStep
<1>3. ASSUME NEW w \in Workers, RevenueStep(w), UNCHANGED cut PROVE LedgerInv'
  BY <1>3, HandlersReadKeep, PostKeeps, MirrorKeeps DEF RevenueStep
<1>4. ASSUME NEW w \in Workers, OutboxStep(w), UNCHANGED <<ledgerVars, cut>> PROVE LedgerInv'
  <2>1. VoidTopics \subseteq Topics
    BY DEF Topics
  <2> QED
    BY <1>4, <2>1, TakeKeeps, DeliverKeeps, FinishKeeps DEF OutboxStep
<1>5. ASSUME NEW w \in Workers, CallGoesWrong(w), UNCHANGED ledgerVars PROVE LedgerInv'
  BY <1>5, AbortKeeps, CallerDiesKeeps, FailKeeps, CrashKeeps DEF CallGoesWrong
<1> QED
  BY <1>0, <1>1, <1>2, <1>3, <1>4, <1>5, NextCases, CashoutKeeps

\* At rest the rows of the ledger are the credits of the sales that stand, and
\* of those that were cut off.
LEMMA CreditsAtRest ==
    ASSUME TypeOK, LedgerInv, \A o \in Orders : Quiet(o) /\ ~GivenUp(o)
    PROVE  /\ OrdersWith("SALE") \ OrdersWith("VOID_SALE")
                 = {o \in Orders : Credited(o) \/ Stranded(o)}
           /\ \A o \in Orders : Stranded(o) => o \in cut
<1> SUFFICES ASSUME NEW o \in Orders
             PROVE  /\ Credited(o) \/ Stranded(o) <=>
                          "SALE" \in refs[o] /\ "VOID_SALE" \notin refs[o]
                    /\ Stranded(o) => o \in cut
  BY DEF OrdersWith
<1>1. /\ row[o]["FRANCHISE_REVENUE"].state \in {"NONE", "DONE", "CANCELLED"}
      /\ row[o]["FRANCHISE_REVENUE_VOID"].state \in {"NONE", "DONE", "CANCELLED"}
      /\ order[o] \in SaleStatuses
  BY TopicFacts DEF Quiet, GivenUp, TypeOK, OutboxTypeOK, RowsTypeOK, Row, RowStates
<1>2. Credited(o) \/ Stranded(o) => "SALE" \in refs[o] /\ "VOID_SALE" \notin refs[o]
  BY DEF Credited, Stranded, LedgerInv, RowsFit, RefsFit
<1>3. ASSUME "SALE" \in refs[o], "VOID_SALE" \notin refs[o]
      PROVE  Credited(o) \/ Stranded(o)
  <2>1. order[o] # "OPEN"
    BY <1>3 DEF LedgerInv, RefsFit
  <2> QED
    BY <1>1, <1>3, <2>1 DEF Credited, Stranded, LedgerInv, RowsFit, SaleStatuses
<1>4. ASSUME Stranded(o) PROVE o \in cut
  <2>1. \A w \in Workers : ~Watches(w, o)
    BY DEF Quiet, Watches
  <2>2. Reversed(o)
    BY <1>1, <1>4 DEF LedgerInv, RowsFit, Reversed, Stranded
  <2> QED
    BY <1>4, <2>1, <2>2 DEF LedgerInv, NothingMissed, Watched, BackedOut, Stranded
<1> QED
  BY <1>2, <1>3, <1>4

LEMMA AtRestItBalances == TypeOK /\ LedgerInv => BooksBalance
<1> SUFFICES ASSUME TypeOK, LedgerInv, \A o \in Orders : Quiet(o) /\ ~GivenUp(o)
             PROVE  Balance = (Sale - Commission)
                                * Cardinality({o \in Orders : Credited(o) \/ Stranded(o)})
                                - CashedOut
  BY CreditsAtRest DEF BooksBalance
<1> DEFINE A == OrdersWith("SALE")
           B == OrdersWith("VOID_SALE")
           n == Cardinality({o \in Orders : Credited(o) \/ Stranded(o)})
<1>1. B \subseteq A
  BY DEF LedgerInv, RefsFit, OrdersWith
<1>2. Rows("SALE") - Rows("VOID_SALE") = n /\ n \in Nat
  <2>1. A \cap B = B /\ A \ B = {o \in Orders : Credited(o) \/ Stranded(o)}
    BY <1>1, CreditsAtRest
  <2>2. IsFiniteSet(A) /\ Rows("SALE") \in Nat /\ Rows("VOID_SALE") \in Nat
    BY RowsFinite
  <2> HIDE DEF A, B
  <2>3. Cardinality(A \ B) = Cardinality(A) - Cardinality(A \cap B) /\ IsFiniteSet(A \ B)
    BY <2>2, FS_Difference
  <2>4. Cardinality(A \ B) \in Nat
    BY <2>3, FS_CardinalityType
  <2> QED
    BY <2>1, <2>2, <2>3, <2>4 DEF Rows, A, B
<1>3. Commission > 0 => Rows("COMMISSION") - Rows("VOID_COMMISSION") = n
  <2> SUFFICES ASSUME Commission > 0
               PROVE  Rows("COMMISSION") - Rows("VOID_COMMISSION") = n
    OBVIOUS
  <2>1. OrdersWith("COMMISSION") = A /\ OrdersWith("VOID_COMMISSION") = B
    BY DEF LedgerInv, RefsFit, OrdersWith
  <2> QED
    BY <1>2, <2>1 DEF Rows
<1>4. Commission = 0 \/ Commission > 0
  BY AmountsAssumption
<1> DEFINE m == Rows("COMMISSION") - Rows("VOID_COMMISSION")
<1>5. Balance = Sale * n - Commission * m + debits
  BY <1>2 DEF Balance
<1>6. m \in Int /\ Sale \in Int /\ Commission \in Int /\ debits \in Int /\ debits = 0 - CashedOut
  BY RowsFinite, AmountsAssumption DEF TypeOK, LedgerInv, DebitsFit
<1>7. CashedOut \in Nat
  BY CashedOutIsHeap
<1>8. Commission > 0 => m = n
  BY <1>3
<1> HIDE DEF n, m
<1>9. Commission * m = Commission * n
  <2>1. CASE Commission = 0
    <3>1. 0 * m = 0 /\ 0 * n = 0
      BY <1>2, <1>6
    <3> QED
      BY <2>1, <3>1
  <2>2. CASE Commission > 0
    BY <1>8, <2>2
  <2> QED
    BY <1>4, <2>1, <2>2
<1>10. (Sale - Commission) * n = Sale * n - Commission * n
  BY <1>2, <1>6
<1>11. Sale * n \in Int /\ Commission * n \in Int
  BY <1>2, <1>6
<1> DEFINE p == Sale * n
           q == Commission * n
<1>12. Balance = p - q + debits /\ (Sale - Commission) * n = p - q
  BY <1>5, <1>9, <1>10
<1>13. p \in Int /\ q \in Int
  BY <1>11
<1> HIDE DEF p, q
<1>14. p - q + debits = p - q - CashedOut
  BY <1>6, <1>7, <1>13
<1> QED
  BY <1>12, <1>14 DEF n

\* H-7, C3 and PYO-4: once the deliveries have come to rest the owner's balance
\* is the net of the sales credited less what was cashed out, under every overlap
\* of pushes, failures, aborts, deaths, voids and settlements; and a voided sale
\* is among them only if a push of it, or its second look, was lost.
THEOREM BooksBalanceAtRest == Spec => []BooksBalance
<1>1. Init => TypeOK /\ LedgerInv
  BY InitTyping, InitLedger
<1>2. (TypeOK /\ LedgerInv) /\ [Next]_vars => (TypeOK /\ LedgerInv)'
  BY NextTyping, NextLedger
<1>3. TypeOK /\ LedgerInv => BooksBalance
  BY AtRestItBalances
<1> QED
  BY <1>1, <1>2, <1>3, PTL DEF Spec

=============================================================================
