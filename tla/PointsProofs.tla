---------------------------- MODULE PointsProofs ----------------------------
(***************************************************************************)
(* Proofs about Points, for every set of sales, workers and sweeps, any    *)
(* worth of a sale, any ladder, any number of attempts and slips.          *)
(***************************************************************************)
EXTENDS Points, SaleOutboxProofs, FiniteSetTheorems

----------------------------------------------------------------------------
(* The inductive invariant *)

\* A tier is looked up for a total the ladder reaches.
ReadsFit == \A w \in Workers : read[w].lifetime \in 0..AllPoints

\* Only an award that is on the books is taken back.
ReversersFit == \A w \in Workers : Awarding(w, "debit") => Own(w) \in earn

Debits(s) == sweep[s] # NoSweep /\ sweep[s].at = "debit"
\* The lots a sweep has claimed and not debited yet.
Debiting == {o \in Orders : \E s \in Sweeps : Debits(s) /\ sweep[s].o = o}

\* A lot is claimed once, by one sweep, which takes no more than it is worth.
SweepsFit ==
    /\ \A s \in Sweeps : sweep[s] # NoSweep =>
          sweep[s].o \in earn /\ sweep[s].points <= Worth[sweep[s].o]
    /\ \A s \in Sweeps : Debits(s) => sweep[s].o \in expired
    /\ \A r, s \in Sweeps : Debits(r) /\ Debits(s) /\ sweep[r].o = sweep[s].o => r = s

\* What has lapsed comes out of lots whose sweep is done with them.
LapsedIsClaimed == lapsed <= PointsOf(expired \ Debiting)

PointsInv ==
    TypeOK /\ TotalsFit /\ ReadsFit /\ ReversersFit /\ SweepsFit /\ LapsedIsClaimed

\* A sale is awarded only once it is made, and its void's own call only made once
\* it is voided; what counts towards a tier stands, or is to be taken back.
StandInv ==
    /\ \A o \in inline : order[o] = "VOIDED"
    /\ \A w \in Workers : job[w] # NoJob => order[job[w].o] # "OPEN"
    /\ \A o \in Counts : Stands(o)

----------------------------------------------------------------------------
(* Counting points *)

LEMMA NoPoints == PointsOf({}) = 0
BY FS_EmptySet DEF PointsOf, Units

LEMMA UnitsOfOne ==
    ASSUME NEW o \in Orders
    PROVE  IsFiniteSet({o} \X (1..Worth[o])) /\ Cardinality({o} \X (1..Worth[o])) = Worth[o]
<1> DEFINE n == Worth[o]
<1>1. n \in Nat \ {0}
  BY PointsAssumption
<1> HIDE DEF n
<1>2. IsFiniteSet(1..n) /\ Cardinality(1..n) = n
  <2>1. Cardinality(1..n) = IF 1 > n THEN 0 ELSE n - 1 + 1
    BY <1>1, FS_Interval
  <2>2. (IF 1 > n THEN 0 ELSE n - 1 + 1) = n
    BY <1>1
  <2> QED
    BY <1>1, <2>1, <2>2, FS_Interval
<1>3. IsFiniteSet({o}) /\ Cardinality({o}) = 1
  BY FS_Singleton
<1>4. IsFiniteSet({o} \X (1..n)) /\ Cardinality({o} \X (1..n)) = Cardinality({o}) * Cardinality(1..n)
  BY <1>2, <1>3, FS_Product
<1>5. 1 * n = n
  BY <1>1
<1> QED
  BY <1>2, <1>3, <1>4, <1>5 DEF n

LEMMA UnitsFinite ==
    ASSUME NEW S \in SUBSET Orders
    PROVE  IsFiniteSet(Units(S)) /\ PointsOf(S) \in Nat
<1> DEFINE f == [o \in S |-> {o} \X (1..Worth[o])]
           T == {{o} \X (1..Worth[o]) : o \in S}
<1>1. IsFiniteSet(S)
  BY PointsAssumption, FS_Subset
<1>2. f \in Surjection(S, T)
  BY DEF Surjection
<1>3. IsFiniteSet(T)
  <2> HIDE DEF f, T
  <2> QED
    BY <1>1, <1>2, FS_Surjection
<1>4. \A u \in T : IsFiniteSet(u)
  BY UnitsOfOne
<1>5. IsFiniteSet(UNION T)
  <2> HIDE DEF T
  <2> QED
    BY <1>3, <1>4, FS_UNION
<1>6. IsFiniteSet(Units(S))
  BY <1>5 DEF Units
<1> QED
  BY <1>6, FS_CardinalityType DEF PointsOf

LEMMA PointsGained ==
    ASSUME NEW S \in SUBSET Orders, NEW o \in Orders, o \notin S
    PROVE  PointsOf(S \cup {o}) = PointsOf(S) + Worth[o]
<1> DEFINE mine == {o} \X (1..Worth[o])
<1>1. Units(S \cup {o}) = Units(S) \cup mine
  <2>1. ASSUME NEW u
        PROVE  u \in Units(S \cup {o}) <=> u \in Units(S) \/ u \in mine
    BY DEF Units
  <2> QED
    BY <2>1
<1>2. Units(S) \cap mine = {}
  <2>1. ASSUME NEW u \in Units(S)
        PROVE  u \notin mine
    <3>1. PICK p \in S : u \in {p} \X (1..Worth[p])
      BY DEF Units
    <3>2. u[1] = p
      BY <3>1
    <3> QED
      BY <3>1, <3>2
  <2> QED
    BY <2>1
<1>3. IsFiniteSet(Units(S)) /\ PointsOf(S) \in Nat
  BY UnitsFinite
<1>4. IsFiniteSet(mine) /\ Cardinality(mine) = Worth[o] /\ Worth[o] \in Nat
  BY UnitsOfOne, PointsAssumption
<1> HIDE DEF mine
<1>5. Cardinality(Units(S) \cup mine)
        = PointsOf(S) + Cardinality(mine) - Cardinality(Units(S) \cap mine)
  BY <1>3, <1>4, FS_Union DEF PointsOf
<1>6. Cardinality(Units(S) \cap mine) = 0
  BY <1>2, FS_EmptySet
<1>7. Cardinality(Units(S) \cup mine) = PointsOf(S) + Worth[o] - 0
  BY <1>4, <1>5, <1>6
<1>8. PointsOf(S) + Worth[o] - 0 = PointsOf(S) + Worth[o]
  BY <1>3, <1>4
<1> QED
  BY <1>1, <1>7, <1>8 DEF PointsOf

LEMMA PointsLost ==
    ASSUME NEW S \in SUBSET Orders, NEW o \in S
    PROVE  PointsOf(S) = PointsOf(S \ {o}) + Worth[o]
<1>1. (S \ {o}) \cup {o} = S /\ S \ {o} \in SUBSET Orders /\ o \in Orders
  OBVIOUS
<1> QED
  BY <1>1, PointsGained

\* More sales, more points.
LEMMA PointsGrow ==
    ASSUME NEW S \in SUBSET Orders, NEW R \in SUBSET S
    PROVE  PointsOf(R) <= PointsOf(S)
<1>1. Units(R) \in SUBSET Units(S)
  BY DEF Units
<1>2. IsFiniteSet(Units(S))
  BY UnitsFinite
<1> QED
  BY <1>1, <1>2, FS_Subset DEF PointsOf

----------------------------------------------------------------------------
(* The outbox's part of the type, and where its steps take a job *)

\* Every disjunct of Next in which the outbox moves a worker.
OutboxStep(w) ==
    \/ \E o \in Orders, k \in Topics : Take(w, o, k)
    \/ Deliver(w) \/ Finish(w) \/ Abort(w)

LEMMA TopicFacts ==
    Topics = {"LOYALTY_AWARD"} /\ EffectTopics = {"LOYALTY_AWARD"} /\ VoidTopics = {}
BY PointsTopics DEF Topics

LEMMA JobFacts ==
    ASSUME TypeOK, NEW w \in Workers, job[w] # NoJob
    PROVE  /\ job[w] \in Job(Places)
           /\ job[w].o \in Orders /\ job[w].topic \in Topics
           /\ job[w].at \in Places /\ job[w].owned \in BOOLEAN
BY DEF TypeOK, OutboxTypeOK, Job

\* A job keeps its order and topic when it only moves to another place.
LEMMA GotoMoves ==
    ASSUME TypeOK, NEW w \in Workers, job[w] # NoJob,
           NEW place \in Places, Goto(w, place)
    PROVE  /\ job' \in [Workers -> Job(Places) \cup {NoJob}]
           /\ \A v \in Workers : v # w => job'[v] = job[v]
           /\ job'[w] # NoJob =>
                 /\ job'[w].o = job[w].o /\ job'[w].topic = job[w].topic
                 /\ job'[w].at = place
<1>1. job[w] \in Job(Places)
  BY JobFacts
<1>2. /\ \A v \in Workers : v # w => job'[v] = job[v]
      /\ job'[w] = Moved(job[w], place)
  BY DEF Goto, TypeOK, OutboxTypeOK
<1>3. \/ job'[w] = NoJob
      \/ job'[w] \in Job(Places) /\ job'[w] = [job[w] EXCEPT !.at = place]
  BY <1>1, <1>2 DEF Moved, Job
<1>4. job' \in [Workers -> Job(Places) \cup {NoJob}]
  BY <1>3 DEF Goto, TypeOK, OutboxTypeOK
<1>5. job'[w] # NoJob =>
          /\ job'[w].o = job[w].o /\ job'[w].topic = job[w].topic
          /\ job'[w].at = place
  BY <1>1, <1>3 DEF Job
<1> QED
  BY <1>2, <1>4, <1>5

LEMMA StepTyping ==
    ASSUME TypeOK, NEW w \in Workers, job[w] # NoJob,
           NEW place \in Places, Step(w, place)
    PROVE  OutboxTypeOK(Places)'
<1>1. OutboxTypeOK(Places) /\ slips' \in 0..MaxSlips
  BY DEF TypeOK, OutboxTypeOK, RowsTypeOK, Step
<1> QED
  BY <1>1, GotoTyping DEF Step, OutboxTypeOK

LEMMA OutboxTyping ==
    ASSUME TypeOK, NEW w \in Workers, OutboxStep(w) \/ Crash(w)
    PROVE  OutboxTypeOK(Places)'
<1>1. OutboxTypeOK(Places) /\ {"deliver", "start", "ack"} \subseteq Places
  BY DEF TypeOK, Places, Ends
<1> QED
  BY <1>1, TakeTyping, DeliverTyping, FinishTyping, AbortTyping, CrashTyping
     DEF OutboxStep, OutboxTypeOK

\* An aborted call's handler runs on where it is.
LEMMA AbortMoves ==
    ASSUME TypeOK, NEW w \in Workers, Abort(w)
    PROVE  /\ \A v \in Workers : v # w => job'[v] = job[v]
           /\ job'[w] # NoJob => /\ job'[w].o = job[w].o /\ job'[w].topic = job[w].topic
                                /\ job'[w].at = job[w].at
           /\ job'[w] = NoJob => job[w].at \in Ends
<1>1. job[w] \in Job(Places) /\ Unowned(job[w]) \in Job(Places) /\ job[w].at \in Places
  BY UnownedIs, JobFacts DEF Abort
<1>2. /\ \A v \in Workers : v # w => job'[v] = job[v]
      /\ job'[w] = Moved(Unowned(job[w]), job[w].at)
  BY DEF Abort, TypeOK, OutboxTypeOK
<1> QED
  BY <1>1, <1>2, UnownedIs, MovedIs, NoJobAssumption

\* The outbox brings no job to the debit of a reversal.
LEMMA OutboxKeepsReversers ==
    ASSUME TypeOK, ReversersFit, NEW w \in Workers, OutboxStep(w) \/ Crash(w), UNCHANGED earn
    PROVE  ReversersFit'
<1>1. \A v \in Workers : v # w => job'[v] = job[v]
  BY DEF OutboxStep, Take, Deliver, Finish, Abort, Crash, Goto, TypeOK, OutboxTypeOK
<1>2. ASSUME Awarding(w, "debit")'
      PROVE  Awarding(w, "debit") /\ Own(w)' = Own(w)
  <2>1. ASSUME NEW o \in Orders, NEW k \in Topics, Take(w, o, k) PROVE FALSE
    BY <1>2, <2>1 DEF Take, Taken, Awarding, At, TypeOK, OutboxTypeOK
  <2>2. ASSUME Deliver(w) PROVE FALSE
    <3>1. \E place \in {"start", "ack"} : Goto(w, place)
      BY <2>2 DEF Deliver
    <3>2. {"start", "ack"} \subseteq Places
      BY DEF Places, Ends
    <3> QED
      BY <1>2, <2>2, <3>1, <3>2, GotoMoves DEF Deliver, Awarding, At
  <2>3. ASSUME Finish(w) \/ Crash(w) PROVE FALSE
    BY <1>2, <2>3 DEF Finish, Crash, Awarding, At, TypeOK, OutboxTypeOK
  <2>4. ASSUME Abort(w) PROVE Awarding(w, "debit") /\ Own(w)' = Own(w)
    BY <1>2, <2>4, AbortMoves DEF Abort, Awarding, At, Own
  <2> QED
    BY <2>1, <2>2, <2>3, <2>4 DEF OutboxStep
<1> SUFFICES ASSUME NEW v \in Workers, Awarding(v, "debit")'
             PROVE  Own(v)' \in earn
  BY DEF ReversersFit
<1>3. Awarding(v, "debit") /\ Own(v)' = Own(v)
  BY <1>1, <1>2 DEF Awarding, At, Own
<1> QED
  BY <1>3 DEF ReversersFit

\* A step of a handler to a place that is not the debit, or to the debit of an
\* award on the books.
LEMMA StepKeepsReversers ==
    ASSUME TypeOK, ReversersFit, NEW w \in Workers, job[w] # NoJob,
           NEW place \in Places, Step(w, place), earn \subseteq earn',
           place = "debit" => Own(w) \in earn
    PROVE  ReversersFit'
<1>1. /\ \A v \in Workers : v # w => job'[v] = job[v]
      /\ job'[w] # NoJob => job'[w].o = job[w].o /\ job'[w].at = place
  BY GotoMoves DEF Step
<1> SUFFICES ASSUME NEW v \in Workers, Awarding(v, "debit")'
             PROVE  Own(v)' \in earn
  BY DEF ReversersFit
<1>2. CASE v = w
  BY <1>1, <1>2 DEF Awarding, At, Own
<1>3. CASE v # w
  BY <1>1, <1>3 DEF ReversersFit, Awarding, At, Own
<1> QED
  BY <1>2, <1>3

----------------------------------------------------------------------------
(* The account *)

LEMMA LadderFacts ==
    /\ AllPoints \in Nat /\ 0 \in 0..AllPoints
    /\ \A n \in 0..AllPoints : TierOf[n] \in Tiers
<1>1. AllPoints \in Nat
  BY UnitsFinite DEF AllPoints
<1> QED
  BY <1>1, PointsAssumption

\* What stands on the books is on the ladder.
LEMMA StandingPoints ==
    ASSUME NEW S \in SUBSET Orders
    PROVE  PointsOf(S) \in 0..AllPoints
<1>1. PointsOf(S) \in Nat /\ PointsOf(Orders) \in Nat
  BY UnitsFinite
<1>2. PointsOf(S) <= PointsOf(Orders)
  BY PointsGrow
<1> QED
  BY <1>1, <1>2 DEF AllPoints

LEMMA WorthFacts == ASSUME NEW o \in Orders PROVE Worth[o] \in Nat /\ Worth[o] > 0
BY PointsAssumption

\* An award counts its sale once, a reversal takes it out again.
LEMMA EarnCounts ==
    ASSUME TypeOK, TotalsFit, NEW o \in Orders, Earn(o), UNCHANGED reversal
    PROVE  /\ account' \in Account /\ earn' \subseteq Orders /\ reversal' \subseteq earn'
           /\ earn \subseteq earn' /\ TotalsFit'
<1>1. CASE o \in earn
  BY <1>1 DEF Earn, TypeOK, TotalsFit, Counts
<1>2. CASE o \notin earn
  <2> DEFINE n == Worth[o]
  <2>1. n \in Nat
    BY WorthFacts
  <2>2. /\ earn' = earn \cup {o}
        /\ account' = [account EXCEPT !.balance = @ + n, !.lifetime = @ + n]
    BY <1>2 DEF Earn
  <2>3. earn' \ reversal' = (earn \ reversal) \cup {o}
    BY <1>2, <2>2 DEF TypeOK
  <2>4. PointsOf((earn \ reversal) \cup {o}) = PointsOf(earn \ reversal) + n
    <3>1. earn \ reversal \in SUBSET Orders /\ o \notin earn \ reversal
      BY <1>2 DEF TypeOK
    <3> QED
      BY <3>1, PointsGained
  <2> HIDE DEF n
  <2>5. account.balance \in Nat /\ account.lifetime \in Nat /\ account.tier \in Tiers
    BY DEF TypeOK, Account
  <2>6. /\ account'.balance = account.balance + n /\ account'.lifetime = account.lifetime + n
        /\ account' = [balance |-> account'.balance, lifetime |-> account'.lifetime,
                       tier |-> account.tier]
    BY <2>2 DEF Account, TypeOK
  <2>7. account' \in Account
    <3>1. account.balance + n \in Nat /\ account.lifetime + n \in Nat
      BY <2>1, <2>5
    <3> QED
      BY <2>5, <2>6, <3>1 DEF Account
  <2>8. account'.lifetime = PointsOf(earn' \ reversal')
    BY <2>3, <2>4, <2>6 DEF TotalsFit, Counts
  <2>9. account'.balance <= account'.lifetime
    BY <2>1, <2>5, <2>6 DEF TotalsFit, Counts
  <2>10. earn' \subseteq Orders /\ reversal' \subseteq earn' /\ earn \subseteq earn'
    BY <2>2 DEF TypeOK
  <2> QED
    BY <2>7, <2>8, <2>9, <2>10 DEF TotalsFit, Counts
<1> QED
  BY <1>1, <1>2

LEMMA TakeBackCounts ==
    ASSUME TypeOK, TotalsFit, NEW o \in earn, TakeBack(o), UNCHANGED earn
    PROVE  account' \in Account /\ reversal' \subseteq earn' /\ TotalsFit'
<1>1. CASE o \in reversal
  BY <1>1 DEF TakeBack, TypeOK, TotalsFit, Counts
<1>2. CASE o \notin reversal
  <2> DEFINE n == Worth[o]
  <2>1. n \in Nat
    BY WorthFacts DEF TypeOK
  <2>2. /\ reversal' = reversal \cup {o}
        /\ account' = [account EXCEPT !.balance = Less(@, n), !.lifetime = Less(@, n)]
    BY <1>2 DEF TakeBack
  <2>3. earn' \ reversal' = (earn \ reversal) \ {o}
    BY <2>2
  <2>4. /\ PointsOf(earn \ reversal) = PointsOf((earn \ reversal) \ {o}) + n
        /\ PointsOf((earn \ reversal) \ {o}) \in Nat
    <3>1. /\ earn \ reversal \in SUBSET Orders /\ o \in earn \ reversal
          /\ (earn \ reversal) \ {o} \in SUBSET Orders
      BY <1>2 DEF TypeOK
    <3> QED
      BY <3>1, PointsLost, UnitsFinite
  <2> DEFINE rest == PointsOf((earn \ reversal) \ {o})
  <2> HIDE DEF n, rest
  <2>5. account.balance \in Nat /\ account.lifetime \in Nat /\ account.tier \in Tiers
    BY DEF TypeOK, Account
  <2>6. account.lifetime = rest + n /\ rest \in Nat /\ account.balance <= account.lifetime
    BY <2>4 DEF TotalsFit, Counts, rest
  <2>7. Less(account.lifetime, n) = rest
    BY <2>1, <2>6 DEF Less
  <2>8. Less(account.balance, n) \in Nat /\ Less(account.balance, n) <= rest
    BY <2>1, <2>5, <2>6 DEF Less
  <2>9. /\ account' \in Account /\ account'.lifetime = rest
        /\ account'.balance = Less(account.balance, n)
    BY <2>2, <2>5, <2>6, <2>7, <2>8 DEF Account, TypeOK
  <2>10. account'.lifetime = PointsOf(earn' \ reversal')
    BY <2>3, <2>9 DEF rest
  <2>11. account'.balance <= account'.lifetime
    BY <2>8, <2>9
  <2> QED
    BY <2>2, <2>9, <2>10, <2>11 DEF TotalsFit, Counts, TypeOK
<1> QED
  BY <1>1, <1>2

LEMMA ReadTyping ==
    ASSUME TypeOK, ReadsFit, NEW w \in Workers,
           \/ Keep(w)
           \/ /\ Learn(w) /\ TotalsFit' /\ account' \in Account /\ earn' \subseteq Orders
    PROVE  read' \in [Workers -> Card] /\ ReadsFit'
<1>1. /\ NewCard \in Card /\ NewCard.lifetime \in 0..AllPoints
      /\ \A v \in Workers : read[v] \in Card /\ read[v].lifetime \in 0..AllPoints
  BY LadderFacts DEF NewCard, Card, TypeOK, ReadsFit
<1>2. CASE Keep(w)
  <2>1. \E c \in {NewCard, read[w]} : read' = [read EXCEPT ![w] = c]
    BY <1>2 DEF Keep
  <2> QED
    BY <1>1, <2>1 DEF TypeOK, ReadsFit
<1>3. ASSUME Learn(w), TotalsFit', account' \in Account, earn' \subseteq Orders
      PROVE  read' \in [Workers -> Card] /\ ReadsFit'
  <2> DEFINE c == [lifetime |-> account'.lifetime, tier |-> account'.tier]
  <2>1. account'.lifetime \in 0..AllPoints
    <3>1. earn' \ reversal' \in SUBSET Orders
      BY <1>3
    <3> QED
      BY <1>3, <3>1, StandingPoints DEF TotalsFit, Counts
  <2>2. c \in Card /\ c.lifetime \in 0..AllPoints
    BY <1>3, <2>1 DEF Card, Account
  <2>3. read' = [read EXCEPT ![w] = c]
    BY <1>3 DEF Learn
  <2> HIDE DEF c
  <2> QED
    BY <1>1, <2>2, <2>3 DEF TypeOK, ReadsFit
<1> QED
  BY <1>2, <1>3

----------------------------------------------------------------------------
(* The sweeps, while they stand still *)

LEMMA SweepsKeep ==
    ASSUME SweepsFit, LapsedIsClaimed, UNCHANGED <<expired, lapsed, sweep>>, earn \subseteq earn'
    PROVE  SweepsFit' /\ LapsedIsClaimed'
<1>1. Debiting' = Debiting /\ \A s \in Sweeps : Debits(s)' <=> Debits(s)
  BY DEF Debiting, Debits
<1>2. LapsedIsClaimed'
  BY <1>1 DEF LapsedIsClaimed, PointsOf, Units
<1>3. SweepsFit'
  BY DEF SweepsFit, Debits
<1> QED
  BY <1>2, <1>3

----------------------------------------------------------------------------
(* The calls of the outbox and of a void *)

LEMMA PlaceFacts ==
    {"deliver", "start", "record", "retier", "find", "debit", "ack"} \subseteq Places
BY DEF Places, Ends

LEMMA CallsKeep ==
    ASSUME PointsInv, NEW w \in Workers, CallStep(w)
    PROVE  PointsInv'
<1> USE DEF PointsInv
<1>0. job[w] # NoJob /\ Own(w) \in Orders
  BY JobFacts DEF CallStep, EarnFind, EarnRecord, Retier, ReverseFind, ReverseDebit, Awarding,
     At, Own
<1>1. ASSUME EarnFind(w) PROVE PointsInv'
  <2>1. PICK place \in {"ack", "record"} : Step(w, place)
    BY <1>1 DEF EarnFind
  <2>2. place \in Places /\ place # "debit"
    BY PlaceFacts
  <2>3. OutboxTypeOK(Places)' /\ ReversersFit'
    BY <1>0, <1>1, <2>1, <2>2, StepTyping, StepKeepsReversers DEF EarnFind, pointsVars
  <2>4. read' \in [Workers -> Card] /\ ReadsFit'
    BY <1>1, ReadTyping DEF EarnFind
  <2>5. SweepsFit' /\ LapsedIsClaimed'
    BY <1>1, SweepsKeep DEF EarnFind, pointsVars
  <2> QED
    BY <1>1, <2>3, <2>4, <2>5 DEF EarnFind, pointsVars, TypeOK, TotalsFit, Counts
<1>2. ASSUME EarnRecord(w) PROVE PointsInv'
  <2>1. /\ account' \in Account /\ earn' \subseteq Orders /\ reversal' \subseteq earn'
        /\ earn \subseteq earn' /\ TotalsFit'
    BY <1>0, <1>2, EarnCounts DEF EarnRecord
  <2>2. OutboxTypeOK(Places)' /\ ReversersFit'
    BY <1>0, <1>2, <2>1, PlaceFacts, StepTyping, StepKeepsReversers DEF EarnRecord
  <2>3. read' \in [Workers -> Card] /\ ReadsFit'
    BY <1>2, <2>1, ReadTyping DEF EarnRecord
  <2>4. SweepsFit' /\ LapsedIsClaimed'
    BY <1>2, <2>1, SweepsKeep DEF EarnRecord
  <2> QED
    BY <1>0, <1>2, <2>1, <2>2, <2>3, <2>4 DEF EarnRecord, TypeOK
<1>3. ASSUME Retier(w) PROVE PointsInv'
  <2>1. TierOf[read[w].lifetime] \in Tiers
    BY LadderFacts DEF ReadsFit
  <2>2. \E tier \in Tiers : account' = account \/ account' = [account EXCEPT !.tier = tier]
    BY <1>3, <2>1 DEF Retier
  <2>3. /\ account' \in Account
        /\ account'.lifetime = account.lifetime /\ account'.balance = account.balance
    BY <2>2 DEF Account, TypeOK
  <2>4. OutboxTypeOK(Places)' /\ ReversersFit'
    BY <1>0, <1>3, PlaceFacts, StepTyping, StepKeepsReversers DEF Retier
  <2>5. read' \in [Workers -> Card] /\ ReadsFit'
    BY <1>3, ReadTyping DEF Retier
  <2>6. SweepsFit' /\ LapsedIsClaimed'
    BY <1>3, SweepsKeep DEF Retier
  <2>7. TotalsFit'
    BY <1>3, <2>3 DEF Retier, TotalsFit, Counts
  <2> QED
    BY <1>3, <2>3, <2>4, <2>5, <2>6, <2>7 DEF Retier, TypeOK
<1>4. ASSUME ReverseFind(w) PROVE PointsInv'
  <2>1. PICK place \in {"ack", "debit"} : Step(w, place) /\ (place = "debit" => Own(w) \in earn)
    BY <1>4 DEF ReverseFind
  <2>2. place \in Places
    BY PlaceFacts
  <2>3. OutboxTypeOK(Places)' /\ ReversersFit'
    BY <1>0, <1>4, <2>1, <2>2, StepTyping, StepKeepsReversers DEF ReverseFind, pointsVars
  <2>4. read' \in [Workers -> Card] /\ ReadsFit'
    BY <1>4, ReadTyping DEF ReverseFind
  <2>5. SweepsFit' /\ LapsedIsClaimed'
    BY <1>4, SweepsKeep DEF ReverseFind, pointsVars
  <2> QED
    BY <1>4, <2>3, <2>4, <2>5 DEF ReverseFind, pointsVars, TypeOK, TotalsFit, Counts
<1>5. ASSUME ReverseDebit(w) PROVE PointsInv'
  <2>1. Own(w) \in earn
    BY <1>5 DEF ReverseDebit, ReversersFit
  <2>2. account' \in Account /\ reversal' \subseteq earn' /\ TotalsFit'
    BY <1>5, <2>1, TakeBackCounts DEF ReverseDebit
  <2>3. OutboxTypeOK(Places)' /\ ReversersFit'
    BY <1>0, <1>5, PlaceFacts, StepTyping, StepKeepsReversers DEF ReverseDebit
  <2>4. read' \in [Workers -> Card] /\ ReadsFit'
    BY <1>5, <2>2, ReadTyping DEF ReverseDebit, TypeOK
  <2>5. SweepsFit' /\ LapsedIsClaimed'
    BY <1>5, SweepsKeep DEF ReverseDebit
  <2> QED
    BY <1>5, <2>2, <2>3, <2>4, <2>5 DEF ReverseDebit, TypeOK
<1> QED
  BY <1>1, <1>2, <1>3, <1>4, <1>5 DEF CallStep

LEMMA OutboxKeeps ==
    ASSUME PointsInv, NEW w \in Workers, OutboxStep(w), Keep(w), UNCHANGED pointsVars
    PROVE  PointsInv'
<1> USE DEF PointsInv
<1>1. OutboxTypeOK(Places)' /\ ReversersFit'
  BY OutboxTyping, OutboxKeepsReversers DEF pointsVars
<1>2. read' \in [Workers -> Card] /\ ReadsFit'
  BY ReadTyping
<1>3. SweepsFit' /\ LapsedIsClaimed'
  BY SweepsKeep DEF pointsVars
<1> QED
  BY <1>1, <1>2, <1>3 DEF pointsVars, TypeOK, TotalsFit, Counts

LEMMA DeadCallKeeps ==
    ASSUME PointsInv, NEW w \in Workers, CallDies(w)
    PROVE  PointsInv'
<1> USE DEF PointsInv
<1>1. OutboxTypeOK(Places)' /\ ReversersFit'
  BY OutboxTyping, OutboxKeepsReversers DEF CallDies
<1>2. read' \in [Workers -> Card] /\ ReadsFit'
  BY ReadTyping DEF CallDies
<1>3. SweepsFit' /\ LapsedIsClaimed'
  BY SweepsKeep DEF CallDies
<1>4. loose' \subseteq Orders
  BY DEF CallDies, TypeOK
<1> QED
  BY <1>1, <1>2, <1>3, <1>4 DEF CallDies, TypeOK, TotalsFit, Counts

LEMMA VoidsCallKeeps ==
    ASSUME PointsInv, NEW w \in Workers, NEW o \in Orders, ReversePoints(w, o)
    PROVE  PointsInv'
<1> USE DEF PointsInv
<1>1. OutboxTypeOK(Places)'
  <2>1. OutboxTypeOK(Places) /\ "LOYALTY_AWARD" \in Topics /\ "find" \in Places \ Ends
    BY TopicFacts, PlaceFacts DEF TypeOK, Ends
  <2> QED
    BY <2>1, InlineTyping DEF ReversePoints, OutboxTypeOK
<1>2. ReversersFit'
  BY DEF ReversePoints, Inline, ReversersFit, Awarding, At, Own, TypeOK, OutboxTypeOK, pointsVars
<1>3. SweepsFit' /\ LapsedIsClaimed'
  BY SweepsKeep DEF ReversePoints, pointsVars
<1> QED
  BY <1>1, <1>2, <1>3 DEF ReversePoints, pointsVars, TypeOK, TotalsFit, Counts, ReadsFit

LEMMA SalesKeep ==
    ASSUME PointsInv, SaleStep, UNCHANGED <<pointsVars, read>>
    PROVE  PointsInv'
<1> USE DEF PointsInv
<1>1. OutboxTypeOK(Places)'
  BY SaleTyping DEF TypeOK, OutboxTypeOK
<1>2. UNCHANGED job
  BY DEF SaleStep, Complete, VoidWalkIn, CancelRows
<1>3. ReversersFit'
  BY <1>2 DEF ReversersFit, Awarding, At, Own, pointsVars
<1>4. SweepsFit' /\ LapsedIsClaimed'
  BY SweepsKeep DEF pointsVars
<1> QED
  BY <1>1, <1>3, <1>4 DEF pointsVars, TypeOK, TotalsFit, Counts, ReadsFit

----------------------------------------------------------------------------
(* Spending and expiry *)

\* What these steps leave alone.
LEMMA BooksKeep ==
    ASSUME PointsInv, UNCHANGED <<outboxVars, earn, reversal, read>>,
           account' \in Account, account'.lifetime = account.lifetime,
           account'.balance <= account.balance
    PROVE  OutboxTypeOK(Places)' /\ TotalsFit' /\ ReadsFit' /\ ReversersFit'
<1>1. OutboxTypeOK(Places)'
  BY DEF PointsInv, TypeOK, OutboxTypeOK, RowsTypeOK, RowsCounted, Sourced, outboxVars
<1>2. account'.balance <= account'.lifetime
  BY DEF PointsInv, TypeOK, Account, TotalsFit, Counts
<1>3. TotalsFit'
  BY <1>2 DEF PointsInv, TotalsFit, Counts
<1> QED
  BY <1>1, <1>3 DEF PointsInv, ReadsFit, ReversersFit, Awarding, At, Own, outboxVars

LEMMA SpendKeeps ==
    ASSUME PointsInv, Spend
    PROVE  PointsInv'
<1>1. /\ account' \in Account /\ account'.lifetime = account.lifetime
      /\ account'.balance <= account.balance
  BY DEF PointsInv, Spend, TypeOK, Account
<1>2. spent' \in 0..MaxSpent
  BY PointsAssumption DEF PointsInv, Spend, TypeOK
<1>3. OutboxTypeOK(Places)' /\ TotalsFit' /\ ReadsFit' /\ ReversersFit'
  BY <1>1, BooksKeep DEF Spend
<1>4. SweepsFit' /\ LapsedIsClaimed'
  BY SweepsKeep DEF Spend, PointsInv
<1> QED
  BY <1>1, <1>2, <1>3, <1>4 DEF PointsInv, Spend, TypeOK

\* What has lapsed stays covered when lots are added to those done with.
LEMMA LapsedStays ==
    ASSUME PointsInv, expired' \in SUBSET Orders, lapsed' = lapsed,
           expired \ Debiting \subseteq expired' \ Debiting'
    PROVE  LapsedIsClaimed'
<1> DEFINE S == expired \ Debiting
           R == (expired \ Debiting)'
<1>1. R \in SUBSET Orders /\ S \in SUBSET R /\ S \in SUBSET Orders
  OBVIOUS
<1>2. lapsed <= PointsOf(S)
  BY DEF PointsInv, LapsedIsClaimed
<1> HIDE DEF S, R
<1>3. PointsOf(S) <= PointsOf(R) /\ PointsOf(S) \in Nat /\ PointsOf(R) \in Nat
  BY <1>1, PointsGrow, UnitsFinite
<1>4. lapsed \in Nat
  BY DEF PointsInv, TypeOK
<1>5. lapsed' <= PointsOf(R)
  BY <1>2, <1>3, <1>4
<1> QED
  BY <1>5 DEF LapsedIsClaimed, R, PointsOf, Units

LEMMA ReadLotKeeps ==
    ASSUME PointsInv, NEW s \in Sweeps, NEW o \in Orders, SweepRead(s, o)
    PROVE  PointsInv'
<1> DEFINE points == IF Worth[o] < account.balance THEN Worth[o] ELSE account.balance
           lot == [o |-> o, at |-> "claim", points |-> points]
<1>1. points \in Nat /\ points <= Worth[o]
  BY WorthFacts DEF PointsInv, TypeOK, Account
<1>2. o \in earn \ expired /\ sweep[s] = NoSweep
  BY DEF SweepRead, Due
<1>3. \/ expired' = expired \cup {o} /\ UNCHANGED sweep
      \/ sweep' = [sweep EXCEPT ![s] = lot] /\ UNCHANGED expired
  BY DEF SweepRead
<1>4. lot \in Sweep /\ lot.o = o /\ lot.at = "claim" /\ lot.points = points
  BY <1>1 DEF Sweep
<1> HIDE DEF points, lot
<1>5. expired' \subseteq earn /\ expired \subseteq expired' /\ expired' \in SUBSET Orders
  BY <1>2, <1>3 DEF PointsInv, TypeOK
<1>6. sweep' \in [Sweeps -> Sweep \cup {NoSweep}]
  BY <1>3, <1>4 DEF PointsInv, TypeOK
<1>7. \A r \in Sweeps : \/ sweep'[r] = sweep[r]
                        \/ r = s /\ sweep'[r] = lot
  BY <1>3 DEF PointsInv, TypeOK
<1>8. \A r \in Sweeps : Debits(r)' => Debits(r) /\ sweep'[r] = sweep[r]
  BY <1>4, <1>7 DEF Debits
<1>9. Debiting' \subseteq Debiting
  BY <1>8 DEF Debiting
<1>10. SweepsFit'
  <2>1. \A r \in Sweeps : sweep'[r] # NoSweep =>
            sweep'[r].o \in earn /\ sweep'[r].points <= Worth[sweep'[r].o]
    BY <1>1, <1>2, <1>4, <1>7 DEF PointsInv, SweepsFit
  <2>2. \A r \in Sweeps : Debits(r)' => sweep'[r].o \in expired'
    BY <1>5, <1>8 DEF PointsInv, SweepsFit
  <2>3. \A q, r \in Sweeps : Debits(q)' /\ Debits(r)' /\ sweep'[q].o = sweep'[r].o => q = r
    BY <1>8 DEF PointsInv, SweepsFit
  <2> QED
    BY <2>1, <2>2, <2>3 DEF SweepsFit, SweepRead
<1>11. LapsedIsClaimed'
  BY <1>5, <1>9, LapsedStays DEF SweepRead
<1>12. OutboxTypeOK(Places)' /\ TotalsFit' /\ ReadsFit' /\ ReversersFit'
  <2>1. account' \in Account /\ account' = account /\ account.balance \in Nat
    BY DEF PointsInv, TypeOK, Account, SweepRead
  <2> QED
    BY <2>1, BooksKeep DEF SweepRead
<1> QED
  BY <1>5, <1>6, <1>10, <1>11, <1>12 DEF PointsInv, SweepRead, TypeOK

LEMMA ClaimKeeps ==
    ASSUME PointsInv, NEW s \in Sweeps, SweepClaim(s)
    PROVE  PointsInv'
<1>1. PICK o \in Orders : o = sweep[s].o
  BY DEF PointsInv, SweepClaim, TypeOK, Sweep
<1> DEFINE lot == [sweep[s] EXCEPT !.at = "debit"]
<1>2. /\ sweep[s] # NoSweep /\ sweep[s].at = "claim" /\ sweep[s] \in Sweep
      /\ o \in earn /\ sweep[s].points <= Worth[o]
  BY <1>1 DEF PointsInv, SweepClaim, TypeOK, SweepsFit
<1>3. lot \in Sweep /\ lot.o = o /\ lot.at = "debit" /\ lot.points = sweep[s].points
  BY <1>1, <1>2 DEF Sweep
<1>4. /\ expired' = expired \cup {o}
      /\ o \notin expired => sweep' = [sweep EXCEPT ![s] = lot]
      /\ o \in expired => sweep' = [sweep EXCEPT ![s] = NoSweep]
  BY <1>1 DEF SweepClaim, Unclaimed
<1> HIDE DEF lot
<1>5. sweep' \in [Sweeps -> Sweep \cup {NoSweep}]
  BY <1>3, <1>4 DEF PointsInv, TypeOK
<1>6. \A r \in Sweeps : \/ r # s /\ sweep'[r] = sweep[r]
                        \/ r = s /\ o \notin expired /\ sweep'[r] = lot
                        \/ r = s /\ sweep'[r] = NoSweep
  BY <1>4 DEF PointsInv, TypeOK
<1>7. expired' \subseteq earn /\ expired' \in SUBSET Orders
  BY <1>2, <1>4 DEF PointsInv, TypeOK
<1>8. \A r \in Sweeps : Debits(r)' =>
          \/ r # s /\ Debits(r) /\ sweep'[r] = sweep[r]
          \/ r = s /\ o \notin expired /\ sweep'[r].o = o
  BY <1>3, <1>6 DEF Debits
<1>9. \A r \in Sweeps : Debits(r) => sweep[r].o \in expired
  BY DEF PointsInv, SweepsFit
<1>10. expired \ Debiting \subseteq expired' \ Debiting'
  BY <1>4, <1>8 DEF Debiting
<1>11. SweepsFit'
  <2>1. \A r \in Sweeps : sweep'[r] # NoSweep =>
            sweep'[r].o \in earn /\ sweep'[r].points <= Worth[sweep'[r].o]
    BY <1>2, <1>3, <1>6 DEF PointsInv, SweepsFit
  <2>2. \A r \in Sweeps : Debits(r)' => sweep'[r].o \in expired'
    BY <1>4, <1>8, <1>9
  <2>3. \A q, r \in Sweeps : Debits(q)' /\ Debits(r)' /\ sweep'[q].o = sweep'[r].o => q = r
    <3> SUFFICES ASSUME NEW q \in Sweeps, NEW r \in Sweeps, Debits(q)', Debits(r)',
                        sweep'[q].o = sweep'[r].o
                 PROVE  q = r
      OBVIOUS
    <3>1. CASE q = s /\ r = s
      BY <3>1
    <3>2. CASE q # s /\ r # s
      BY <1>8, <3>2 DEF PointsInv, SweepsFit
    <3>3. CASE q # s /\ r = s
      BY <1>8, <1>9, <3>3
    <3>4. CASE q = s /\ r # s
      BY <1>8, <1>9, <3>4
    <3> QED
      BY <3>1, <3>2, <3>3, <3>4
  <2> QED
    BY <2>1, <2>2, <2>3 DEF SweepsFit, SweepClaim
<1>12. LapsedIsClaimed'
  BY <1>7, <1>10, LapsedStays DEF SweepClaim
<1>13. OutboxTypeOK(Places)' /\ TotalsFit' /\ ReadsFit' /\ ReversersFit'
  <2>1. account' \in Account /\ account' = account /\ account.balance \in Nat
    BY DEF PointsInv, TypeOK, Account, SweepClaim
  <2> QED
    BY <2>1, BooksKeep DEF SweepClaim
<1> QED
  BY <1>5, <1>7, <1>11, <1>12, <1>13 DEF PointsInv, SweepClaim, TypeOK

\* A sweep that leaves its lot keeps what holds of the others.
LEMMA LeavingKeepsSweeps ==
    ASSUME PointsInv, NEW s \in Sweeps, sweep' = [sweep EXCEPT ![s] = NoSweep],
           UNCHANGED <<earn, expired>>
    PROVE  /\ SweepsFit' /\ sweep' \in [Sweeps -> Sweep \cup {NoSweep}]
           /\ Debiting' \subseteq Debiting
           /\ Debits(s) => sweep[s].o \in Debiting \ Debiting'
<1>1. sweep' \in [Sweeps -> Sweep \cup {NoSweep}]
  BY DEF PointsInv, TypeOK
<1>2. \A r \in Sweeps : sweep'[r] # NoSweep => r # s /\ sweep'[r] = sweep[r]
  BY DEF PointsInv, TypeOK
<1>3. \A r \in Sweeps : Debits(r)' => r # s /\ Debits(r) /\ sweep'[r] = sweep[r]
  BY <1>2 DEF Debits
<1>4. Debiting' \subseteq Debiting
  BY <1>3 DEF Debiting
<1>5. Debits(s) => sweep[s].o \in Debiting \ Debiting'
  <2> SUFFICES ASSUME Debits(s)
               PROVE  sweep[s].o \in Debiting \ Debiting'
    OBVIOUS
  <2>1. sweep[s].o \in Orders
    BY DEF PointsInv, TypeOK, Debits, Sweep
  <2>2. \A r \in Sweeps : Debits(r)' => sweep'[r].o # sweep[s].o
    BY <1>3 DEF PointsInv, SweepsFit
  <2> QED
    BY <2>1, <2>2 DEF Debiting
<1>6. SweepsFit'
  BY <1>2, <1>3 DEF PointsInv, SweepsFit
<1> QED
  BY <1>1, <1>4, <1>5, <1>6

LEMMA DebitKeeps ==
    ASSUME PointsInv, NEW s \in Sweeps, SweepDebit(s)
    PROVE  PointsInv'
<1>1. PICK o \in Orders : o = sweep[s].o
  BY DEF PointsInv, SweepDebit, TypeOK, Sweep
<1> DEFINE n == sweep[s].points
           S == expired \ Debiting
           R == (expired \ Debiting)'
<1>2. n \in Nat /\ n <= Worth[o] /\ o \in expired /\ Debits(s)
  BY <1>1 DEF PointsInv, SweepDebit, TypeOK, Sweep, SweepsFit, Debits
<1>3. /\ SweepsFit' /\ sweep' \in [Sweeps -> Sweep \cup {NoSweep}]
      /\ Debiting' \subseteq Debiting /\ o \in Debiting \ Debiting'
  BY <1>1, <1>2, LeavingKeepsSweeps DEF SweepDebit
<1>4. S \in SUBSET Orders /\ S \cup {o} \subseteq R /\ R \in SUBSET Orders /\ o \notin S
  BY <1>2, <1>3 DEF SweepDebit, PointsInv, TypeOK
<1>5. lapsed' = lapsed + n /\ account' = [account EXCEPT !.balance = Less(@, n)]
  BY DEF SweepDebit
<1>6. lapsed <= PointsOf(S) /\ lapsed \in Nat
  BY DEF PointsInv, LapsedIsClaimed, TypeOK
<1> HIDE DEF n, S, R
<1>7. Less(account.balance, n) \in Nat /\ Less(account.balance, n) <= account.balance
  BY <1>2 DEF Less, PointsInv, TypeOK, Account
<1>8. /\ account' \in Account /\ account'.lifetime = account.lifetime
      /\ account'.balance <= account.balance
  BY <1>5, <1>7 DEF PointsInv, TypeOK, Account
<1>9. LapsedIsClaimed'
  <2>1. /\ PointsOf(S \cup {o}) = PointsOf(S) + Worth[o]
        /\ PointsOf(S \cup {o}) <= PointsOf(R)
    BY <1>4, PointsGained, PointsGrow
  <2>2. PointsOf(S) \in Nat /\ PointsOf(R) \in Nat /\ Worth[o] \in Nat
    BY <1>4, UnitsFinite, WorthFacts
  <2>3. lapsed' <= PointsOf(R)
    BY <1>2, <1>5, <1>6, <2>1, <2>2
  <2> QED
    BY <2>3 DEF LapsedIsClaimed, R, PointsOf, Units
<1>10. OutboxTypeOK(Places)' /\ TotalsFit' /\ ReadsFit' /\ ReversersFit'
  BY <1>8, BooksKeep DEF SweepDebit
<1>11. lapsed' \in Nat
  BY <1>2, <1>5, <1>6
<1> QED
  BY <1>3, <1>8, <1>9, <1>10, <1>11 DEF PointsInv, SweepDebit, TypeOK

LEMMA DeathKeeps ==
    ASSUME PointsInv, NEW s \in Sweeps, SweepDies(s)
    PROVE  PointsInv'
<1>1. /\ SweepsFit' /\ sweep' \in [Sweeps -> Sweep \cup {NoSweep}]
      /\ Debiting' \subseteq Debiting
  BY LeavingKeepsSweeps DEF SweepDies
<1>2. LapsedIsClaimed'
  BY <1>1, LapsedStays DEF SweepDies, PointsInv, TypeOK
<1>3. slips' \in 0..MaxSlips
  BY OutboxAssumption DEF SweepDies, PointsInv, TypeOK, OutboxTypeOK, RowsTypeOK
<1>4. OutboxTypeOK(Places)'
  BY <1>3 DEF SweepDies, PointsInv, TypeOK, OutboxTypeOK, RowsTypeOK, RowsCounted, Sourced
<1>5. TotalsFit' /\ ReadsFit' /\ ReversersFit'
  BY DEF SweepDies, PointsInv, TotalsFit, Counts, ReadsFit, ReversersFit, Awarding, At, Own
<1> QED
  BY <1>1, <1>2, <1>4, <1>5 DEF PointsInv, SweepDies, TypeOK

----------------------------------------------------------------------------
(* The theorems *)

LEMMA InitPoints == Init => PointsInv
<1> SUFFICES ASSUME Init PROVE PointsInv
  OBVIOUS
<1> USE DEF Init, OutboxInit
<1>1. MaxAttempts \in Nat \ {0} /\ MaxSlips \in Nat /\ MaxSpent \in Nat
  BY OutboxAssumption, PointsAssumption
<1>2. OutboxTypeOK(Places)
  BY OutboxStarts
<1>3. NewAccount \in Account /\ NewCard \in Card
  BY LadderFacts DEF NewAccount, NewCard, Account, Card
<1>4. TypeOK
  BY <1>1, <1>2, <1>3 DEF TypeOK
<1>5. TotalsFit
  <2>1. earn \ reversal = {}
    OBVIOUS
  <2>2. account.lifetime = 0 /\ account.balance = 0
    BY DEF NewAccount
  <2> QED
    BY <2>1, <2>2, NoPoints DEF TotalsFit, Counts
<1>6. ReadsFit
  BY LadderFacts DEF ReadsFit, NewCard
<1>7. ReversersFit /\ SweepsFit
  BY DEF ReversersFit, SweepsFit, Awarding, At, Debits
<1>8. LapsedIsClaimed
  <2>1. expired \ Debiting = {}
    OBVIOUS
  <2> QED
    BY <2>1, NoPoints DEF LapsedIsClaimed
<1> QED
  BY <1>4, <1>5, <1>6, <1>7, <1>8 DEF PointsInv

\* Next, with the outbox's disjuncts named.
LEMMA NextCases ==
    ASSUME Next
    PROVE  \/ SaleStep /\ UNCHANGED <<pointsVars, read>>
           \/ Spend
           \/ \E s \in Sweeps : \/ SweepClaim(s) \/ SweepDebit(s) \/ SweepDies(s)
                                \/ \E o \in Orders : SweepRead(s, o)
           \/ \E w \in Workers : \/ CallStep(w)
                                 \/ \E o \in Orders : ReversePoints(w, o)
                                 \/ OutboxStep(w) /\ Keep(w) /\ UNCHANGED pointsVars
                                 \/ CallDies(w)
BY DEF Next, SaleStep, OutboxStep

LEMMA NextPoints == PointsInv /\ [Next]_vars => PointsInv'
<1> SUFFICES ASSUME PointsInv, [Next]_vars PROVE PointsInv'
  OBVIOUS
<1>1. CASE UNCHANGED vars
  <2>1. /\ account' \in Account /\ account'.lifetime = account.lifetime
        /\ account'.balance <= account.balance
    BY <1>1 DEF vars, PointsInv, TypeOK, Account
  <2>2. OutboxTypeOK(Places)' /\ TotalsFit' /\ ReadsFit' /\ ReversersFit'
    BY <1>1, <2>1, BooksKeep DEF vars
  <2>3. SweepsFit' /\ LapsedIsClaimed'
    BY <1>1, SweepsKeep DEF PointsInv, vars
  <2> QED
    BY <1>1, <2>2, <2>3 DEF PointsInv, vars, TypeOK
<1>2. ASSUME Next PROVE PointsInv'
  <2>1. \/ SaleStep /\ UNCHANGED <<pointsVars, read>>
        \/ Spend
        \/ \E s \in Sweeps : \/ SweepClaim(s) \/ SweepDebit(s) \/ SweepDies(s)
                             \/ \E o \in Orders : SweepRead(s, o)
        \/ \E w \in Workers : \/ CallStep(w)
                              \/ \E o \in Orders : ReversePoints(w, o)
                              \/ OutboxStep(w) /\ Keep(w) /\ UNCHANGED pointsVars
                              \/ CallDies(w)
    BY <1>2, NextCases
  <2> QED
    BY <2>1, SalesKeep, SpendKeeps, ClaimKeeps, DebitKeeps, DeathKeeps, ReadLotKeeps,
       CallsKeep, VoidsCallKeeps, OutboxKeeps, DeadCallKeeps
<1> QED
  BY <1>1, <1>2

----------------------------------------------------------------------------
(* What counts towards a tier *)

\* A sale that counts before and after a step, and stands before it, stands
\* after it, unless it is voided or a reversal of it ends.
LEMMA StandingStays ==
    ASSUME NEW o \in Orders, Stands(o), loose \subseteq loose',
           order[o] = "COMPLETED" => order'[o] = "COMPLETED" \/ o \in inline',
           o \in inline => o \in inline' \/ \E w \in Workers : Reversing(w, o)',
           \A w \in Workers : Reversing(w, o) => Reversing(w, o)' \/ o \in loose'
    PROVE  Stands(o)'
BY DEF Stands

\* A call's step to another place leaves the others' where they are.
LEMMA CallMoves ==
    ASSUME TypeOK, NEW w \in Workers, job[w] # NoJob, NEW place \in Places, Step(w, place)
    PROVE  /\ \A v \in Workers : job'[v] # NoJob => job[v] # NoJob /\ job'[v].o = job[v].o
           /\ \A v \in Workers, o \in Orders :
                 Reversing(v, o) => \/ Reversing(v, o)'
                                    \/ v = w /\ o = Own(w) /\ place \notin {"find", "debit"}
<1>1. /\ \A v \in Workers : v # w => job'[v] = job[v]
      /\ job'[w] # NoJob => job'[w].o = job[w].o /\ job'[w].at = place
  BY GotoMoves DEF Step
<1>2. job'[w] = NoJob => place \in Ends
  <2>1. job[w] \in Job(Places) /\ job'[w] = Moved(job[w], place)
    BY JobFacts DEF Step, Goto, TypeOK, OutboxTypeOK
  <2>2. \/ Moved(job[w], place) = NoJob /\ place \in Ends
        \/ Moved(job[w], place) \in Job(Places)
    BY <2>1, MovedIs
  <2> QED
    BY <2>1, <2>2, NoJobAssumption
<1> QED
  BY <1>1, <1>2 DEF Reversing, Own, Ends

LEMMA CallsStand ==
    ASSUME PointsInv, StandInv, NEW w \in Workers, CallStep(w)
    PROVE  StandInv'
<1>0. TypeOK /\ job[w] # NoJob /\ Own(w) \in Orders
  BY JobFacts DEF PointsInv, CallStep, EarnFind, EarnRecord, Retier, ReverseFind, ReverseDebit,
     Awarding, At, Own
<1>1. PICK place \in Places :
          /\ Step(w, place) /\ loose \subseteq loose' /\ reversal \subseteq reversal'
          /\ Counts' \subseteq Counts \cup {Own(w)}
          /\ Own(w) \in Counts' => Own(w) \in Counts \/ order[Own(w)] # "VOIDED" \/ Own(w) \in loose'
          /\ Reversing(w, Own(w)) /\ place \notin {"find", "debit"} => Own(w) \notin Counts'
  <2>1. CASE EarnFind(w)
    BY <2>1, PlaceFacts DEF EarnFind, pointsVars, Counts, Awarding, At, Reversing
  <2>2. CASE EarnRecord(w)
    BY <2>2, PlaceFacts DEF EarnRecord, Earn, Counts, Awarding, At, Reversing
  <2>3. CASE Retier(w)
    BY <2>3, PlaceFacts DEF Retier, Counts, Awarding, At, Reversing
  <2>4. CASE ReverseFind(w)
    BY <2>4, PlaceFacts DEF ReverseFind, pointsVars, Counts
  <2>5. CASE ReverseDebit(w)
    BY <2>5, PlaceFacts DEF ReverseDebit, TakeBack, Counts
  <2> QED
    BY <2>1, <2>2, <2>3, <2>4, <2>5 DEF CallStep
<1>2. UNCHANGED <<order, inline>>
  BY <1>1 DEF Step
<1>3. /\ \A v \in Workers : job'[v] # NoJob => job[v] # NoJob /\ job'[v].o = job[v].o
      /\ \A v \in Workers, o \in Orders :
            Reversing(v, o) => \/ Reversing(v, o)'
                               \/ v = w /\ o = Own(w) /\ place \notin {"find", "debit"}
  BY <1>0, <1>1, CallMoves
<1>4. order[Own(w)] \in {"COMPLETED", "VOIDED"}
  BY <1>0 DEF StandInv, TypeOK, OutboxTypeOK, RowsTypeOK, SaleStatuses, Own
<1>5. ASSUME NEW o \in Counts' PROVE Stands(o)'
  <2>0. o \in Orders
    BY <1>0, <1>1, <1>5 DEF Counts, TypeOK
  <2>1. CASE o \notin Counts
    BY <1>1, <1>2, <1>4, <1>5, <2>1 DEF Stands
  <2>2. CASE o \in Counts
    <3>1. Stands(o)
      BY <2>2 DEF StandInv
    <3>2. \A v \in Workers : Reversing(v, o) => Reversing(v, o)'
      BY <1>1, <1>3, <1>5, <2>0 DEF Reversing, Own
    <3> QED
      BY <1>1, <1>2, <2>0, <3>1, <3>2, StandingStays
  <2> QED
    BY <2>1, <2>2
<1> QED
  BY <1>2, <1>3, <1>5 DEF StandInv

LEMMA OutboxStands ==
    ASSUME PointsInv, StandInv, NEW w \in Workers,
           (OutboxStep(w) /\ UNCHANGED pointsVars) \/ CallDies(w)
    PROVE  StandInv'
<1>0. TypeOK
  BY DEF PointsInv
<1>1. UNCHANGED <<order, inline, earn, reversal>> /\ loose \subseteq loose'
  BY DEF OutboxStep, Take, Deliver, Finish, Abort, CallDies, Crash, pointsVars
<1>2. \A v \in Workers : v # w => job'[v] = job[v]
  BY <1>0 DEF OutboxStep, Take, Deliver, Finish, Abort, CallDies, Crash, Goto, TypeOK, OutboxTypeOK
<1>3. /\ job'[w] # NoJob => order[job'[w].o] # "OPEN"
      /\ \A o \in Orders : Reversing(w, o) => Reversing(w, o)' \/ o \in loose'
  <2>1. ASSUME NEW o \in Orders, NEW k \in Topics, Take(w, o, k)
        PROVE  job[w] = NoJob /\ job'[w].o = o /\ order[o] # "OPEN"
    <3>1. k \in EffectTopics /\ row[o][k].state # "NONE"
      BY <2>1, TopicFacts DEF Take
    <3>2. order[o] # "OPEN"
      BY <1>0, <3>1 DEF TypeOK, OutboxTypeOK, RowsCounted
    <3> QED
      BY <1>0, <2>1, <3>2 DEF Take, Taken, TypeOK, OutboxTypeOK
  <2>2. ASSUME Deliver(w)
        PROVE  /\ job[w].at = "deliver"
               /\ job'[w] # NoJob => job'[w].o = job[w].o /\ job[w] # NoJob
    <3>1. PICK place \in {"start", "ack"} : Goto(w, place)
      BY <2>2 DEF Deliver
    <3> QED
      BY <1>0, <2>2, <3>1, PlaceFacts, GotoMoves DEF Deliver
  <2>3. ASSUME Finish(w) PROVE job'[w] = NoJob /\ job[w].at \in Ends
    BY <1>0, <2>3 DEF Finish, TypeOK, OutboxTypeOK
  <2>4. ASSUME Abort(w)
        PROVE  /\ job'[w] # NoJob => /\ job'[w].o = job[w].o /\ job[w] # NoJob
                                     /\ job'[w].at = job[w].at
               /\ job'[w] = NoJob => job[w].at \in Ends
    BY <1>0, <2>4, AbortMoves DEF Abort
  <2>5. ASSUME CallDies(w)
        PROVE  job'[w] = NoJob /\ \A o \in Orders : Reversing(w, o) => o \in loose'
    BY <1>0, <2>5 DEF CallDies, Crash, TypeOK, OutboxTypeOK
  <2> QED
    BY <2>1, <2>2, <2>3, <2>4, <2>5 DEF OutboxStep, Reversing, Ends, StandInv
<1>4. ASSUME NEW o \in Counts' PROVE Stands(o)'
  <2>1. o \in Orders /\ Stands(o)
    BY <1>0, <1>1, <1>4 DEF Counts, TypeOK, StandInv
  <2>2. \A v \in Workers : Reversing(v, o) => Reversing(v, o)' \/ o \in loose'
    BY <1>2, <1>3, <2>1 DEF Reversing
  <2> QED
    BY <1>1, <2>1, <2>2, StandingStays
<1> QED
  BY <1>1, <1>2, <1>3, <1>4 DEF StandInv

LEMMA VoidsCallStands ==
    ASSUME PointsInv, StandInv, NEW w \in Workers, NEW o \in Orders, ReversePoints(w, o)
    PROVE  StandInv'
<1>1. /\ TypeOK /\ o \in inline /\ order[o] = "VOIDED" /\ inline' = inline \ {o}
      /\ UNCHANGED <<order, earn, reversal, loose>>
  BY DEF PointsInv, StandInv, ReversePoints, pointsVars
<1>2. /\ \A v \in Workers : v # w => job'[v] = job[v]
      /\ job[w] = NoJob /\ job'[w].o = o /\ job'[w].at = "find"
  BY <1>1 DEF ReversePoints, Inline, TypeOK, OutboxTypeOK
<1>3. job'[w] # NoJob
  <2>1. Inline(o, "LOYALTY_AWARD", "find") \in Job(Places)
    BY TopicFacts, PlaceFacts DEF Inline, Job
  <2> QED
    BY <1>1, <2>1, NoJobAssumption DEF ReversePoints, TypeOK, OutboxTypeOK
<1>4. \A v \in Workers, p \in Orders : Reversing(v, p) => Reversing(v, p)'
  BY <1>2 DEF Reversing
<1>5. Reversing(w, o)'
  BY <1>2, <1>3 DEF Reversing
<1>6. ASSUME NEW p \in Counts' PROVE Stands(p)'
  <2>1. p \in Orders /\ Stands(p)
    BY <1>1, <1>6 DEF Counts, TypeOK, StandInv
  <2> QED
    BY <1>1, <1>4, <1>5, <2>1, StandingStays
<1> QED
  BY <1>1, <1>2, <1>6 DEF StandInv

LEMMA SalesStand ==
    ASSUME PointsInv, StandInv, SaleStep, UNCHANGED <<pointsVars, read>>
    PROVE  StandInv'
<1>1. /\ TypeOK /\ UNCHANGED <<job, earn, reversal, loose>> /\ inline \subseteq inline'
  BY DEF PointsInv, SaleStep, Complete, VoidWalkIn, CancelRows, pointsVars
<1>2. \A o \in Orders : /\ order[o] # "OPEN" => order'[o] # "OPEN"
                        /\ order[o] = "VOIDED" => order'[o] = "VOIDED"
                        /\ order[o] = "COMPLETED" => order'[o] = "COMPLETED" \/ o \in inline'
                        /\ o \in inline' => o \in inline \/ order'[o] = "VOIDED"
  BY <1>1 DEF SaleStep, Complete, VoidWalkIn, CancelRows, TypeOK, OutboxTypeOK, RowsTypeOK
<1>3. inline' \subseteq Orders
  BY <1>1, OutboxAssumption
     DEF SaleStep, Complete, VoidWalkIn, CancelRows, TypeOK, OutboxTypeOK, RowsTypeOK
<1>4. \A w \in Workers : job[w] # NoJob => job[w].o \in Orders
  BY <1>1, JobFacts
<1>5. ASSUME NEW p \in Counts' PROVE Stands(p)'
  <2>1. p \in Orders /\ Stands(p)
    BY <1>1, <1>5 DEF Counts, TypeOK, StandInv
  <2>2. \A v \in Workers : Reversing(v, p) => Reversing(v, p)'
    BY <1>1 DEF Reversing
  <2> QED
    BY <1>1, <1>2, <2>1, <2>2, StandingStays
<1> QED
  BY <1>1, <1>2, <1>3, <1>4, <1>5 DEF StandInv, TypeOK, OutboxTypeOK, RowsTypeOK

LEMMA NextStands == PointsInv /\ StandInv /\ [Next]_vars => StandInv'
<1> SUFFICES ASSUME PointsInv, StandInv, [Next]_vars PROVE StandInv'
  OBVIOUS
<1>1. ASSUME UNCHANGED <<order, inline, job, earn, reversal, loose>> PROVE StandInv'
  BY <1>1 DEF StandInv, Stands, Counts, Reversing
<1>2. CASE UNCHANGED vars
  BY <1>1, <1>2 DEF vars, outboxVars
<1>3. CASE Spend
  BY <1>1, <1>3 DEF Spend, outboxVars
<1>4. ASSUME NEW s \in Sweeps,
             \/ SweepClaim(s) \/ SweepDebit(s) \/ SweepDies(s)
             \/ \E o \in Orders : SweepRead(s, o)
      PROVE  StandInv'
  BY <1>1, <1>4 DEF SweepClaim, SweepDebit, SweepDies, SweepRead, outboxVars
<1> QED
  BY <1>2, <1>3, <1>4, NextCases, CallsStand, OutboxStands, VoidsCallStands, SalesStand

LEMMA PointsStay == Spec => []PointsInv
BY InitPoints, NextPoints, PTL DEF Spec

\* The records of the account, of the calls and of the sweeps stay what they
\* are, and an award's row is given up only when its attempts are spent.
THEOREM Typing == Spec => []TypeOK
<1>1. PointsInv => TypeOK
  BY DEF PointsInv
<1> QED
  BY <1>1, PointsStay, PTL

\* recordEarn and recordReversal: the lifetime total is the worth of the sales
\* awarded and not reversed, each once, under every repetition and overlap of
\* deliveries and voids, and the customer never has more to spend than that.
\* Each of them stands, or its reversal is to come or under way, or it was
\* awarded after its void, or its reversing call died.
THEOREM SalesCountOnce == Spec => []LifetimeIsEarned
<1>1. PointsInv /\ StandInv => LifetimeIsEarned
  BY DEF PointsInv, StandInv, LifetimeIsEarned
<1>2. Init => StandInv
  BY DEF Init, OutboxInit, StandInv, Counts
<1>3. PointsInv /\ StandInv /\ [Next]_vars => StandInv'
  BY NextStands
<1> QED
  BY <1>1, <1>2, <1>3, PointsStay, PTL DEF Spec

\* LOY-8: any number of overlapping and dying sweeps take no more for the lots
\* they claimed than those are worth.
THEOREM LotsLapseOnce == Spec => []LapsedOnce
<1>1. PointsInv => LapsedOnce
  <2> SUFFICES ASSUME PointsInv PROVE LapsedOnce
    OBVIOUS
  <2> DEFINE S == expired \ Debiting
  <2>1. S \in SUBSET expired /\ expired \in SUBSET Orders /\ S \in SUBSET Orders
    BY DEF PointsInv, TypeOK
  <2>2. lapsed <= PointsOf(S) /\ lapsed \in Nat
    BY DEF PointsInv, LapsedIsClaimed, TypeOK
  <2> HIDE DEF S
  <2>3. PointsOf(S) <= PointsOf(expired) /\ PointsOf(S) \in Nat /\ PointsOf(expired) \in Nat
    BY <2>1, PointsGrow, UnitsFinite
  <2> QED
    BY <2>2, <2>3 DEF LapsedOnce
<1> QED
  BY <1>1, PointsStay, PTL

=============================================================================
