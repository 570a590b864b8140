----------------------------- MODULE SaleOutbox -----------------------------
(***************************************************************************)
(* The outbox as the effects of a counter sale see it: the sale completes  *)
(* and owes its effects, a cashier may void it and then it owes their      *)
(* reversals, and overlapping sweeps deliver every row at least once.      *)
(*                                                                         *)
(* Referral, OwnerLedger and Points extend this module with the handlers.  *)
(* Rows carry no claim and no lock: two workers may hold the same row.     *)
(* The back-off is not modelled: a due row may be taken at any time.       *)
(***************************************************************************)
EXTENDS Integers, FiniteSets

CONSTANTS
    Orders,       \* the orders of one customer
    WalkIns,      \* those sold over the counter
    Workers,      \* sweeps and requests delivering at the same time
    NoJob,
    EffectTopics, \* owed by a completed sale
    VoidTopics,   \* owed by a voided one
    MaxAttempts,  \* OutboxService.MAX_ATTEMPTS
    MaxSlips      \* bound: crashes, aborted and unanswered calls in a behaviour

Topics == EffectTopics \cup VoidTopics

ASSUME OutboxAssumption ==
    /\ WalkIns \subseteq Orders
    /\ EffectTopics \cap VoidTopics = {}
    /\ MaxAttempts \in Nat \ {0}
    /\ MaxSlips \in Nat

VARIABLES
    order,   \* [Orders -> SaleStatuses]
    row,     \* [Orders -> [Topics -> Row]]
    job,     \* [Workers -> Job \cup {NoJob}]
    inline,  \* SUBSET Orders: voids whose request has yet to reverse by itself
    slips    \* what has gone wrong so far

outboxVars == <<order, row, job, inline, slips>>

SaleStatuses == {"OPEN", "COMPLETED", "VOIDED"}
RowStates == {"NONE", "PENDING", "DONE", "DEAD", "CANCELLED"}

\* owned: the outbox still waits for this delivery's answer; tries: the row's
\* attempts as findDue read them.
Job(Places) == [o : Orders, topic : Topics, at : Places, owned : BOOLEAN, tries : Nat]

Ends == {"ack", "fail"}
Sourced(j) ==
    /\ j.at \in Ends => j.owned
    /\ j.owned => row[j.o][j.topic].state # "NONE" /\ j.tries <= row[j.o][j.topic].tries

Row == [state : RowStates, tries : Nat]

RowsTypeOK ==
    /\ order \in [Orders -> SaleStatuses]
    /\ row \in [Orders -> [Topics -> Row]]
    /\ inline \subseteq Orders
    /\ slips \in 0..MaxSlips

\* A row is there once it is owed, is given up only when its attempts are spent,
\* and no delivery counts from more of them than it has.
RowsCounted ==
    /\ \A o \in Orders :
          /\ order[o] = "OPEN" => \A k \in EffectTopics : row[o][k].state = "NONE"
          /\ order[o] # "VOIDED" => \A k \in VoidTopics : row[o][k].state = "NONE"
          /\ \A k \in Topics : row[o][k].state = "DEAD" => row[o][k].tries >= MaxAttempts
    /\ \A w \in Workers : job[w] # NoJob => Sourced(job[w])

OutboxTypeOK(Places) ==
    /\ RowsTypeOK
    /\ job \in [Workers -> Job(Places) \cup {NoJob}]
    /\ RowsCounted

OutboxInit ==
    /\ order = [o \in Orders |-> "OPEN"]
    /\ row = [o \in Orders |-> [k \in Topics |-> [state |-> "NONE", tries |-> 0]]]
    /\ job = [w \in Workers |-> NoJob]
    /\ inline = {}
    /\ slips = 0

----------------------------------------------------------------------------
(* The sale *)

Owing(o, topics) ==
    [row EXCEPT ![o] = [k \in Topics |->
        IF k \in topics THEN [state |-> "PENDING", tries |-> 0] ELSE row[o][k]]]

\* H-10: the effects are owed in the transaction that completes the sale.
Complete(o) ==
    /\ order[o] = "OPEN"
    /\ order' = [order EXCEPT ![o] = "COMPLETED"]
    /\ row' = Owing(o, EffectTopics)
    /\ UNCHANGED <<job, inline, slips>>

\* voidWalkIn: guarded on a walk-in still COMPLETED in the WHERE; the reversals are owed in the
\* same transaction.
VoidWalkIn(o) ==
    /\ o \in WalkIns /\ order[o] = "COMPLETED"
    /\ order' = [order EXCEPT ![o] = "VOIDED"]
    /\ row' = Owing(o, VoidTopics)
    /\ inline' = inline \cup {o}
    /\ UNCHANGED <<job, slips>>

\* C3: only rows still due are called off, and the reversals never are.
CalledOff(o) ==
    [row EXCEPT ![o] = [k \in Topics |->
        IF k \in EffectTopics /\ row[o][k].state = "PENDING"
        THEN [row[o][k] EXCEPT !.state = "CANCELLED"] ELSE row[o][k]]]

\* The request that voided the sale calls its rows off, unless it dies first.
CancelRows(o) ==
    /\ order[o] = "VOIDED" /\ CalledOff(o) # row
    /\ row' = CalledOff(o)
    /\ UNCHANGED <<order, job, inline, slips>>

Inline(o, k, place) == [o |-> o, topic |-> k, at |-> place, owned |-> FALSE, tries |-> 0]

\* It makes the reversing call itself as well, behind a catch: the fast path,
\* for which no row waits.
ReverseInline(w, o, k) ==
    /\ o \in inline /\ job[w] = NoJob
    /\ inline' = inline \ {o}
    /\ job' = [job EXCEPT ![w] = Inline(o, k, "start")]
    /\ UNCHANGED <<order, row, slips>>

----------------------------------------------------------------------------
(* The rows *)

\* updateMany ... status: 'PENDING': a row called off or given up stays so.
Settled(r, state) == IF r.state = "PENDING" THEN [r EXCEPT !.state = state] ELSE r

RetriedEarly(r, seen) ==  \* mutant: the last attempt is never made
    IF r.state # "PENDING" THEN r
    ELSE [state |-> IF seen + 2 >= MaxAttempts THEN "DEAD" ELSE "PENDING",
          tries |-> r.tries + 1]
\* nextAttemptFor counts from the attempts the delivery read; the row counts
\* its own.  A row that failed twice at the same time may stay due past the
\* last attempt, and is given one more.
Retried(r, seen) ==
    IF r.state # "PENDING" THEN r
    ELSE [state |-> IF seen + 1 >= MaxAttempts THEN "DEAD" ELSE "PENDING",
          tries |-> r.tries + 1]

MarkDone(o, k) == row' = [row EXCEPT ![o][k] = Settled(@, "DONE")]
MarkFailed(j) == row' = [row EXCEPT ![j.o][j.topic] = Retried(@, j.tries)]

----------------------------------------------------------------------------
(* The deliveries *)

At(w, k, place) == job[w] # NoJob /\ job[w].topic = k /\ job[w].at = place
\* A handler nobody waits for ends without a word.
Moved(j, place) ==
    IF place \in Ends /\ ~j.owned THEN NoJob ELSE [j EXCEPT !.at = place]
Goto(w, place) == job' = [job EXCEPT ![w] = Moved(@, place)]

Taken(o, k) ==
    [o |-> o, topic |-> k, at |-> "deliver", owned |-> TRUE, tries |-> row[o][k].tries]

TakeForGood(w, o, k) ==  \* mutant: the row is done as soon as it is taken
    /\ job[w] = NoJob /\ row[o][k].state = "PENDING"
    /\ job' = [job EXCEPT ![w] = Taken(o, k)]
    /\ MarkDone(o, k)
    /\ UNCHANGED <<order, inline, slips>>
\* findDue takes no lock, so the row may be with another worker already.
Take(w, o, k) ==
    /\ job[w] = NoJob /\ row[o][k].state = "PENDING"
    /\ job' = [job EXCEPT ![w] = Taken(o, k)]
    /\ UNCHANGED <<order, row, inline, slips>>

\* C3: an order that stopped being a sale owes only its reversals.
Deliver(w) ==
    /\ job[w] # NoJob /\ job[w].at = "deliver"
    /\ Goto(w, IF order[job[w].o] = "VOIDED" /\ job[w].topic \in EffectTopics
               THEN "ack" ELSE "start")
    /\ UNCHANGED <<order, row, inline, slips>>

\* The answer settles the row.
Finish(w) ==
    /\ job[w] # NoJob /\ job[w].at \in Ends
    /\ IF job[w].at = "ack" THEN MarkDone(job[w].o, job[w].topic) ELSE MarkFailed(job[w])
    /\ job' = [job EXCEPT ![w] = NoJob]
    /\ UNCHANGED <<order, inline, slips>>

Unowned(j) == [j EXCEPT !.owned = FALSE, !.tries = 0]

\* The 5 s abort: the row is failed, and the handler at the other end runs on.
Abort(w) ==
    /\ job[w] # NoJob /\ job[w].owned /\ job[w].at # "deliver" /\ slips < MaxSlips
    /\ MarkFailed(job[w])
    /\ job' = [job EXCEPT ![w] = Moved(Unowned(@), @.at)]
    /\ slips' = slips + 1
    /\ UNCHANGED <<order, inline>>

Crash(w) ==
    /\ job[w] # NoJob /\ slips < MaxSlips
    /\ job' = [job EXCEPT ![w] = NoJob]
    /\ slips' = slips + 1
    /\ UNCHANGED <<order, row, inline>>

SaleStep ==
    \E o \in Orders : Complete(o) \/ VoidWalkIn(o) \/ CancelRows(o)

=============================================================================
