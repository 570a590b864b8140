------------------------------- MODULE Points -------------------------------
(***************************************************************************)
(* One customer's account in loyalty-service: the points completed sales   *)
(* award, what a void takes back, what the customer spends and what        *)
(* expires, and the tier the lifetime total supports.                      *)
(*                                                                         *)
(* Awards are delivered by the outbox; a void reverses its award with one  *)
(* call behind a catch, for which no row waits.  Within a call the look-   *)
(* up, the ledger's transaction and the tier's write are separate steps.   *)
(***************************************************************************)
EXTENDS SaleOutbox

CONSTANTS
    Worth,    \* [Orders -> Nat \ {0}]: the points of a sale
    TierOf,   \* [0..every point -> tier]: the ladder
    Tiers,
    Sweeps,   \* expiry sweeps that may overlap
    NoSweep,
    MaxSpent  \* bound: the points the customer spends

\* The points of some sales together, counted one by one.
Units(orders) == UNION {{o} \X (1..Worth[o]) : o \in orders}
PointsOf(orders) == Cardinality(Units(orders))
AllPoints == PointsOf(Orders)

ASSUME PointsTopics == EffectTopics = {"LOYALTY_AWARD"} /\ VoidTopics = {}
ASSUME PointsAssumption ==
    /\ IsFiniteSet(Orders) /\ Worth \in [Orders -> Nat \ {0}]
    /\ TierOf \in [0..AllPoints -> Tiers]
    /\ MaxSpent \in Nat

VARIABLES
    earn,     \* SUBSET Orders: the EARN rows
    reversal, \* SUBSET Orders: the ADJUST rows that name an order
    expired,  \* SUBSET Orders: the EARN rows claimed by a sweep
    account,  \* [balance, lifetime, tier]: the loyalty_accounts row
    spent,    \* points the customer has spent
    lapsed,   \* points the sweeps have debited
    loose,    \* SUBSET Orders: history, voided sales awarded late or whose reversal died
    read,     \* [Workers -> Card]: what a call's transaction returned of the row
    sweep     \* [Sweeps -> Sweep \cup {NoSweep}]

pointsVars == <<earn, reversal, expired, account, spent, lapsed, loose, sweep>>
vars == <<outboxVars, earn, reversal, expired, account, spent, lapsed, loose, read, sweep>>

Places == {"deliver", "start", "record", "retier", "find", "debit"} \cup Ends
ASSUME NoJobAssumption == NoJob \notin Job(Places)

Account == [balance : Nat, lifetime : Nat, tier : Tiers]
Card == [lifetime : Nat, tier : Tiers]
Sweep == [o : Orders, at : {"claim", "debit"}, points : Nat]
NewCard == [lifetime |-> 0, tier |-> TierOf[0]]
NewAccount == [balance |-> 0, lifetime |-> 0, tier |-> TierOf[0]]

TypeOK ==
    /\ OutboxTypeOK(Places)
    /\ earn \subseteq Orders /\ reversal \subseteq earn /\ expired \subseteq earn
    /\ loose \subseteq Orders
    /\ account \in Account
    /\ spent \in 0..MaxSpent /\ lapsed \in Nat
    /\ read \in [Workers -> Card]
    /\ sweep \in [Sweeps -> Sweep \cup {NoSweep}]

Init ==
    /\ OutboxInit
    /\ earn = {} /\ reversal = {} /\ expired = {} /\ loose = {}
    /\ account = NewAccount
    /\ spent = 0 /\ lapsed = 0
    /\ read = [w \in Workers |-> NewCard]
    /\ sweep = [s \in Sweeps |-> NoSweep]

----------------------------------------------------------------------------
(* earnForOrder *)

Awarding(w, place) == At(w, "LOYALTY_AWARD", place)
Own(w) == job[w].o
Step(w, place) == Goto(w, place) /\ UNCHANGED <<order, row, inline, slips>>
Learn(w) ==
    read' = [read EXCEPT ![w] = [lifetime |-> account'.lifetime, tier |-> account'.tier]]
Keep(w) ==
    read' = [read EXCEPT ![w] =
        IF job'[w] = NoJob \/ job'[w].at \in Ends THEN NewCard ELSE @]

EarnFind(w) ==
    /\ Awarding(w, "start")
    /\ Step(w, IF Own(w) \in earn THEN "ack" ELSE "record")
    /\ Keep(w)
    /\ UNCHANGED pointsVars

\* recordEarn: the (order, type) pair is unique; the loser reads the account.
Earn(o) ==
    IF o \in earn THEN UNCHANGED <<earn, account>>
    ELSE /\ earn' = earn \cup {o}
         /\ account' = [account EXCEPT !.balance = @ + Worth[o],
                                       !.lifetime = @ + Worth[o]]

EarnRecord(w) ==
    /\ Awarding(w, "record")
    /\ Earn(Own(w))
    /\ loose' = IF order[Own(w)] = "VOIDED" THEN loose \cup {Own(w)} ELSE loose
    /\ Step(w, "retier")
    /\ Learn(w)
    /\ UNCHANGED <<reversal, expired, spent, lapsed, sweep>>

\* retier: the tier of the row the transaction returned, written if it moved.
Retier(w) ==
    /\ Awarding(w, "retier")
    /\ LET tier == TierOf[read[w].lifetime]
       IN account' = IF tier = read[w].tier THEN account
                     ELSE [account EXCEPT !.tier = tier]
    /\ Step(w, "ack")
    /\ Keep(w)
    /\ UNCHANGED <<earn, reversal, expired, spent, lapsed, loose, sweep>>

----------------------------------------------------------------------------
(* reverseEarnForOrder *)

\* The void's own call; whatever becomes of it, the void has succeeded.
ReversePoints(w, o) ==
    /\ o \in inline /\ job[w] = NoJob
    /\ inline' = inline \ {o}
    /\ job' = [job EXCEPT ![w] = Inline(o, "LOYALTY_AWARD", "find")]
    /\ UNCHANGED <<order, row, slips, pointsVars, read>>

ReverseFind(w) ==
    /\ Awarding(w, "find")
    /\ Step(w, IF Own(w) \in earn THEN "debit" ELSE "ack")
    /\ Keep(w)
    /\ UNCHANGED pointsVars

Less(n, m) == IF n > m THEN n - m ELSE 0   \* GREATEST(0, n - m)

KeepLifetime(o) ==  \* mutant: LOY-7 (b), the lifetime total is left alone
    IF o \in reversal THEN UNCHANGED <<reversal, account>>
    ELSE /\ reversal' = reversal \cup {o}
         /\ account' = [account EXCEPT !.balance = Less(@, Worth[o])]
\* recordReversal: one reversal per order, and it undoes the whole of what the
\* sale did; points already spent are let go.  The account is read back after the
\* transaction; nothing but the tier turns on it, and the model reads it here.
TakeBack(o) ==
    IF o \in reversal THEN UNCHANGED <<reversal, account>>
    ELSE /\ reversal' = reversal \cup {o}
         /\ account' = [account EXCEPT !.balance = Less(@, Worth[o]),
                                       !.lifetime = Less(@, Worth[o])]

ReverseDebit(w) ==
    /\ Awarding(w, "debit")
    /\ TakeBack(Own(w))
    /\ Step(w, "retier")
    /\ Learn(w)
    /\ UNCHANGED <<earn, expired, spent, lapsed, loose, sweep>>

----------------------------------------------------------------------------
(* Spending and expiry *)

\* The balance floor is in the WHERE of the debit.
Spend ==
    /\ account.balance > 0 /\ spent < MaxSpent
    /\ account' = [account EXCEPT !.balance = @ - 1]
    /\ spent' = spent + 1
    /\ UNCHANGED <<outboxVars, earn, reversal, expired, lapsed, loose, read, sweep>>

\* findExpirableLots asks the row alone: an award of any sale, not expired yet.
\* Time is not modelled, so a lot may be due as soon as it is there.
Due(o) == o \in earn \ expired

\* The batch is read; for this lot then the balance.
SweepRead(s, o) ==
    /\ sweep[s] = NoSweep /\ Due(o)
    /\ LET points == IF Worth[o] < account.balance THEN Worth[o] ELSE account.balance
       IN IF points = 0
          THEN expired' = expired \cup {o} /\ UNCHANGED sweep
          ELSE /\ sweep' = [sweep EXCEPT ![s] = [o |-> o, at |-> "claim", points |-> points]]
               /\ UNCHANGED expired
    /\ UNCHANGED <<outboxVars, earn, reversal, account, spent, lapsed, loose, read>>

UnclaimedAnyway(o) == TRUE  \* mutant: marked by id, with no condition (LOY-8)
Unclaimed(o) == o \notin expired

\* LOY-8: only the sweep that wins the claim debits.
SweepClaim(s) ==
    /\ sweep[s] # NoSweep /\ sweep[s].at = "claim"
    /\ expired' = expired \cup {sweep[s].o}
    /\ sweep' = [sweep EXCEPT ![s] =
          IF Unclaimed(sweep[s].o) THEN [@ EXCEPT !.at = "debit"] ELSE NoSweep]
    /\ UNCHANGED <<outboxVars, earn, reversal, account, spent, lapsed, loose, read>>

\* The EXPIRE row and the balance, in a transaction of their own.
SweepDebit(s) ==
    /\ sweep[s] # NoSweep /\ sweep[s].at = "debit"
    /\ account' = [account EXCEPT !.balance = Less(@, sweep[s].points)]
    /\ lapsed' = lapsed + sweep[s].points
    /\ sweep' = [sweep EXCEPT ![s] = NoSweep]
    /\ UNCHANGED <<outboxVars, earn, reversal, expired, spent, loose, read>>

SweepDies(s) ==
    /\ sweep[s] # NoSweep /\ slips < MaxSlips
    /\ sweep' = [sweep EXCEPT ![s] = NoSweep]
    /\ slips' = slips + 1
    /\ UNCHANGED <<order, row, job, inline, earn, reversal, expired, account, spent,
                   lapsed, loose, read>>

----------------------------------------------------------------------------

Reversing(w, o) == job[w] # NoJob /\ job[w].o = o /\ job[w].at \in {"find", "debit"}

\* The reversing call's failure is swallowed, and nothing repeats it.
CallDies(w) ==
    /\ Crash(w) /\ Keep(w)
    /\ loose' = loose \cup {o \in Orders : Reversing(w, o)}
    /\ UNCHANGED <<earn, reversal, expired, account, spent, lapsed, sweep>>

CallStep(w) ==
    EarnFind(w) \/ EarnRecord(w) \/ Retier(w) \/ ReverseFind(w) \/ ReverseDebit(w)

Next ==
    \/ /\ \E o \in Orders :
             Complete(o) \/ CancelRows(o) \/ VoidWalkIn(o)
       /\ UNCHANGED <<pointsVars, read>>
    \/ Spend
    \/ \E s \in Sweeps :
          SweepClaim(s) \/ SweepDebit(s) \/ SweepDies(s) \/ \E o \in Orders : SweepRead(s, o)
    \/ \E w \in Workers :
          \/ CallStep(w)
          \/ \E o \in Orders : ReversePoints(w, o)
          \/ /\ \/ \E o \in Orders, k \in Topics : Take(w, o, k)
                \/ Deliver(w) \/ Finish(w) \/ Abort(w)
             /\ Keep(w)
             /\ UNCHANGED pointsVars
          \/ CallDies(w)

Spec == Init /\ [][Next]_vars

----------------------------------------------------------------------------
(* Safety *)

\* recordEarn and recordReversal: however often an award is delivered and a
\* void repeated, an award counts once towards a tier until it is reversed, and
\* no more can be spent than that.  A voided sale counts only while its reversal
\* is to come or under way, or for good when it was awarded after the void or
\* its reversing call died.
Counts == earn \ reversal
TotalsFit == account.lifetime = PointsOf(Counts) /\ account.balance <= account.lifetime
Stands(o) ==
    \/ order[o] = "COMPLETED"
    \/ o \in inline \/ \E w \in Workers : Reversing(w, o)
    \/ o \in loose
LifetimeIsEarned == TotalsFit /\ \A o \in Counts : Stands(o)

\* LOY-8: overlapping sweeps, one of which may die, take each lot's points at
\* most once.
LapsedOnce == lapsed <= PointsOf(expired)

\* H-2: the stored tier is the one the lifetime total supports, when no call is
\* under way.
TierFollowsLifetime ==
    (\A w \in Workers : job[w] = NoJob) => account.tier = TierOf[account.lifetime]

\* "Points are money in the buyer's hands too, so they are taken back as well":
\* when the void's own call has been made and all is quiet, a voided sale has
\* left no points behind.
PointsTakenBack ==
    (\A w \in Workers : job[w] = NoJob) =>
        \A o \in earn \ inline : order[o] = "VOIDED" => o \in reversal

=============================================================================
