-------------------------- MODULE SaleOutboxProofs --------------------------
(***************************************************************************)
(* What every step of the outbox keeps true of its rows and deliveries,    *)
(* for any places P a handler may be at.  The modules that add handlers    *)
(* build their typing on these lemmas.                                     *)
(***************************************************************************)
EXTENDS SaleOutbox, TLAPS

LEMMA JobIs ==
    ASSUME NEW P, OutboxTypeOK(P), NEW w \in Workers, job[w] # NoJob
    PROVE  /\ job[w] \in Job(P) /\ Sourced(job[w])
           /\ job[w].o \in Orders /\ job[w].topic \in Topics /\ job[w].at \in P
           /\ job[w].owned \in BOOLEAN /\ job[w].tries \in Nat
BY DEF OutboxTypeOK, RowsCounted, Job

\* A job that only moves keeps all but its place.
LEMMA MovedIs ==
    ASSUME NEW P, NEW j \in Job(P), NEW place \in P
    PROVE  \/ Moved(j, place) = NoJob /\ place \in Ends /\ ~j.owned
           \/ /\ Moved(j, place) \in Job(P)
              /\ Moved(j, place) = [j EXCEPT !.at = place]
              /\ Moved(j, place).o = j.o /\ Moved(j, place).topic = j.topic
              /\ Moved(j, place).owned = j.owned /\ Moved(j, place).tries = j.tries
              /\ Moved(j, place).at = place /\ (place \in Ends => j.owned)
BY DEF Moved, Job

LEMMA UnownedIs ==
    ASSUME NEW P, NEW j \in Job(P)
    PROVE  /\ Unowned(j) \in Job(P)
           /\ Unowned(j).o = j.o /\ Unowned(j).topic = j.topic /\ Unowned(j).at = j.at
           /\ ~Unowned(j).owned
BY DEF Unowned, Job

LEMMA JobReplaced ==
    ASSUME NEW P, OutboxTypeOK(P), NEW w \in Workers, NEW j \in Job(P) \cup {NoJob},
           job' = [job EXCEPT ![w] = j], j # NoJob => Sourced(j),
           UNCHANGED <<order, row, inline>>, slips' \in 0..MaxSlips
    PROVE  RowsTypeOK' /\ RowsCounted' /\ job' \in [Workers -> Job(P) \cup {NoJob}]
<1>1. RowsTypeOK'
  BY DEF OutboxTypeOK, RowsTypeOK
<1>2. job' \in [Workers -> Job(P) \cup {NoJob}]
  BY DEF OutboxTypeOK
<1>3. \A v \in Workers : job'[v] = IF v = w THEN j ELSE job[v]
  BY DEF OutboxTypeOK
<1>4. \A v \in Workers : job'[v] # NoJob => Sourced(job'[v])
  BY <1>3 DEF OutboxTypeOK, RowsCounted
<1>5. RowsCounted'
  BY <1>4 DEF OutboxTypeOK, RowsCounted, Sourced
<1> QED
  BY <1>1, <1>2, <1>5

LEMMA GotoTyping ==
    ASSUME NEW P, OutboxTypeOK(P), NEW w \in Workers, job[w] # NoJob, NEW place \in P,
           Goto(w, place), UNCHANGED <<order, row, inline>>, slips' \in 0..MaxSlips
    PROVE  RowsTypeOK' /\ RowsCounted' /\ job' \in [Workers -> Job(P) \cup {NoJob}]
<1> DEFINE j == Moved(job[w], place)
<1>1. job[w] \in Job(P) /\ Sourced(job[w])
  BY JobIs
<1>2. j \in Job(P) \cup {NoJob} /\ (j # NoJob => Sourced(j))
  BY <1>1, MovedIs DEF Sourced
<1>3. job' = [job EXCEPT ![w] = j]
  BY DEF Goto
<1> HIDE DEF j
<1> QED
  BY <1>2, <1>3, JobReplaced

\* A row that is marked stays there and its count never falls.
Marks(o, k, r) ==
    /\ row' = [row EXCEPT ![o][k] = r]
    /\ r \in Row /\ row[o][k].tries <= r.tries
    /\ r.state = "NONE" <=> row[o][k].state = "NONE"
    /\ r.state = "DEAD" => r.tries >= MaxAttempts

LEMMA SettledIs ==
    ASSUME RowsTypeOK, RowsCounted, NEW o \in Orders, NEW k \in Topics, MarkDone(o, k)
    PROVE  Marks(o, k, Settled(row[o][k], "DONE"))
<1>1. row[o][k] \in Row /\ (row[o][k].state = "DEAD" => row[o][k].tries >= MaxAttempts)
  BY DEF RowsTypeOK, RowsCounted
<1>2. row' = [row EXCEPT ![o][k] = Settled(row[o][k], "DONE")]
  BY DEF MarkDone, RowsTypeOK
<1> QED
  BY <1>1, <1>2 DEF Marks, Settled, Row, RowStates

\* The attempts a delivery counts from are not more than the row has.
LEMMA RetriedIs ==
    ASSUME RowsTypeOK, RowsCounted, NEW P, NEW j \in Job(P), j.owned, Sourced(j), MarkFailed(j)
    PROVE  Marks(j.o, j.topic, Retried(row[j.o][j.topic], j.tries))
<1> DEFINE r == row[j.o][j.topic]
<1>1. j.o \in Orders /\ j.topic \in Topics /\ j.tries \in Nat /\ MaxAttempts \in Nat
  BY OutboxAssumption DEF Job
<1>2. r \in Row /\ (r.state = "DEAD" => r.tries >= MaxAttempts) /\ j.tries <= r.tries
  BY <1>1 DEF RowsTypeOK, RowsCounted, Sourced
<1>3. row' = [row EXCEPT ![j.o][j.topic] = Retried(r, j.tries)]
  BY <1>1 DEF MarkFailed, RowsTypeOK
<1> HIDE DEF r
<1>4. /\ Retried(r, j.tries) \in Row /\ r.tries <= Retried(r, j.tries).tries
      /\ Retried(r, j.tries).state = "NONE" <=> r.state = "NONE"
      /\ Retried(r, j.tries).state = "DEAD" => Retried(r, j.tries).tries >= MaxAttempts
  BY <1>1, <1>2 DEF Retried, Row, RowStates
<1> QED
  BY <1>3, <1>4 DEF Marks, r

LEMMA MarkTyping ==
    ASSUME NEW P, OutboxTypeOK(P), NEW o \in Orders, NEW k \in Topics, NEW r, Marks(o, k, r),
           NEW w \in Workers, NEW j \in Job(P) \cup {NoJob},
           job' = [job EXCEPT ![w] = j], j # NoJob => Sourced(j),
           UNCHANGED <<order, inline>>, slips' \in 0..MaxSlips
    PROVE  RowsTypeOK' /\ RowsCounted' /\ job' \in [Workers -> Job(P) \cup {NoJob}]
<1>1. row' \in [Orders -> [Topics -> Row]]
  BY DEF Marks, OutboxTypeOK, RowsTypeOK
<1>2. \A p \in Orders, l \in Topics :
          \/ row'[p][l] = row[p][l]
          \/ p = o /\ l = k /\ row'[p][l] = r
  BY DEF Marks, OutboxTypeOK, RowsTypeOK
<1>3. \A p \in Orders, l \in Topics :
          /\ row[p][l] \in Row /\ row'[p][l] \in Row
          /\ row'[p][l].state = "NONE" <=> row[p][l].state = "NONE"
          /\ row[p][l].tries <= row'[p][l].tries
          /\ row'[p][l].state = "DEAD" => row'[p][l].tries >= MaxAttempts
  <2> TAKE p \in Orders, l \in Topics
  <2>1. row[p][l] \in Row /\ (row[p][l].state = "DEAD" => row[p][l].tries >= MaxAttempts)
    BY DEF OutboxTypeOK, RowsTypeOK, RowsCounted
  <2>2. row[p][l].tries \in Nat
    BY <2>1 DEF Row
  <2> QED
    BY <1>2, <2>1, <2>2 DEF Marks
<1>4. \A v \in Workers : job'[v] = IF v = w THEN j ELSE job[v]
  BY DEF OutboxTypeOK
<1>5. job' \in [Workers -> Job(P) \cup {NoJob}]
  BY DEF OutboxTypeOK
<1>6. ASSUME NEW i \in Job(P), Sourced(i) PROVE Sourced(i)'
  <2>1. i.o \in Orders /\ i.topic \in Topics /\ i.tries \in Nat
    BY DEF Job
  <2>2. row[i.o][i.topic].tries \in Nat /\ row'[i.o][i.topic].tries \in Nat
    BY <1>3, <2>1 DEF Row
  <2> QED
    BY <1>3, <1>6, <2>1, <2>2 DEF Sourced
<1>7. \A v \in Workers : job'[v] # NoJob => job'[v] \in Job(P) /\ Sourced(job'[v])
  BY <1>4, JobIs
<1>8. \A i \in Job(P) : Sourced(i) =>
          /\ i.at \in Ends => i.owned
          /\ i.owned => row'[i.o][i.topic].state # "NONE" /\ i.tries <= row'[i.o][i.topic].tries
  BY <1>6 DEF Sourced
<1>9. \A v \in Workers : job'[v] # NoJob =>
          /\ job'[v].at \in Ends => job'[v].owned
          /\ job'[v].owned => /\ row'[job'[v].o][job'[v].topic].state # "NONE"
                              /\ job'[v].tries <= row'[job'[v].o][job'[v].topic].tries
  BY <1>7, <1>8
<1>10. RowsCounted'
  <2>1. EffectTopics \subseteq Topics /\ VoidTopics \subseteq Topics
    BY DEF Topics
  <2> QED
    BY <1>3, <1>9, <2>1 DEF OutboxTypeOK, RowsCounted, Sourced
<1>11. RowsTypeOK'
  BY <1>1 DEF OutboxTypeOK, RowsTypeOK
<1> QED
  BY <1>5, <1>10, <1>11

----------------------------------------------------------------------------
(* The steps of a delivery *)

LEMMA TakeTyping ==
    ASSUME NEW P, "deliver" \in P, OutboxTypeOK(P), NEW w \in Workers,
           NEW o \in Orders, NEW k \in Topics, Take(w, o, k)
    PROVE  RowsTypeOK' /\ RowsCounted' /\ job' \in [Workers -> Job(P) \cup {NoJob}]
<1> DEFINE j == Taken(o, k)
<1>1. row[o][k] \in Row
  BY DEF OutboxTypeOK, RowsTypeOK
<1>2. /\ j \in Job(P) /\ j.o = o /\ j.topic = k /\ j.tries = row[o][k].tries
      /\ j.at = "deliver"
  BY <1>1 DEF Taken, Job, Row
<1>3. Sourced(j)
  BY <1>1, <1>2 DEF Take, Sourced, Ends, Row
<1>4. job' = [job EXCEPT ![w] = j] /\ UNCHANGED <<order, row, inline, slips>>
  BY DEF Take
<1>5. slips' \in 0..MaxSlips
  BY <1>4 DEF OutboxTypeOK, RowsTypeOK
<1> HIDE DEF j
<1> QED
  BY <1>2, <1>3, <1>4, <1>5, JobReplaced

LEMMA InlineTyping ==
    ASSUME NEW P, OutboxTypeOK(P), NEW w \in Workers,
           NEW o \in Orders, NEW k \in Topics, NEW place \in P \ Ends,
           inline' = inline \ {o}, job' = [job EXCEPT ![w] = Inline(o, k, place)],
           UNCHANGED <<order, row, slips>>
    PROVE  RowsTypeOK' /\ RowsCounted' /\ job' \in [Workers -> Job(P) \cup {NoJob}]
<1> DEFINE j == Inline(o, k, place)
<1>1. j \in Job(P) /\ ~j.owned /\ j.at \notin Ends
  BY DEF Inline, Job
<1>2. Sourced(j)
  BY <1>1 DEF Sourced
<1>3. \A v \in Workers : job'[v] = IF v = w THEN j ELSE job[v]
  BY DEF OutboxTypeOK
<1>4. job' \in [Workers -> Job(P) \cup {NoJob}]
  BY <1>1 DEF OutboxTypeOK
<1> HIDE DEF j
<1>5. RowsCounted'
  BY <1>2, <1>3 DEF OutboxTypeOK, RowsCounted, Sourced
<1>6. RowsTypeOK'
  BY DEF OutboxTypeOK, RowsTypeOK
<1> QED
  BY <1>4, <1>5, <1>6

LEMMA DeliverTyping ==
    ASSUME NEW P, {"start", "ack"} \subseteq P, OutboxTypeOK(P), NEW w \in Workers, Deliver(w)
    PROVE  RowsTypeOK' /\ RowsCounted' /\ job' \in [Workers -> Job(P) \cup {NoJob}]
<1>1. PICK place \in {"start", "ack"} : Goto(w, place)
  BY DEF Deliver
<1>2. slips' \in 0..MaxSlips
  BY DEF Deliver, OutboxTypeOK, RowsTypeOK
<1> QED
  BY <1>1, <1>2, GotoTyping DEF Deliver

LEMMA FinishTyping ==
    ASSUME NEW P, OutboxTypeOK(P), NEW w \in Workers, Finish(w)
    PROVE  RowsTypeOK' /\ RowsCounted' /\ job' \in [Workers -> Job(P) \cup {NoJob}]
<1>1. /\ job[w] \in Job(P) /\ Sourced(job[w]) /\ job[w].owned
      /\ job[w].o \in Orders /\ job[w].topic \in Topics
  BY JobIs DEF Finish, Sourced
<1>2. RowsTypeOK /\ RowsCounted
  BY DEF OutboxTypeOK
<1>3. \E r : Marks(job[w].o, job[w].topic, r)
  BY <1>1, <1>2, SettledIs, RetriedIs DEF Finish
<1>4. job' = [job EXCEPT ![w] = NoJob] /\ UNCHANGED <<order, inline, slips>>
  BY DEF Finish
<1>5. slips' \in 0..MaxSlips
  BY <1>4 DEF OutboxTypeOK, RowsTypeOK
<1> QED
  BY <1>1, <1>3, <1>4, <1>5, MarkTyping

LEMMA AbortTyping ==
    ASSUME NEW P, OutboxTypeOK(P), NEW w \in Workers, Abort(w)
    PROVE  RowsTypeOK' /\ RowsCounted' /\ job' \in [Workers -> Job(P) \cup {NoJob}]
<1> DEFINE u == Unowned(job[w])
           j == Moved(u, u.at)
<1>1. /\ job[w] \in Job(P) /\ Sourced(job[w]) /\ job[w].owned
      /\ job[w].o \in Orders /\ job[w].topic \in Topics
  BY JobIs DEF Abort
<1>2. RowsTypeOK /\ RowsCounted
  BY DEF OutboxTypeOK
<1>3. \E r : Marks(job[w].o, job[w].topic, r)
  BY <1>1, <1>2, RetriedIs DEF Abort
<1>4. u \in Job(P) /\ ~u.owned /\ u.at = job[w].at /\ u.at \in P
  BY <1>1, UnownedIs DEF Job
<1>5. job' = [job EXCEPT ![w] = Moved(Unowned(job[w]), job[w].at)]
  BY DEF Abort, OutboxTypeOK
<1>6. job' = [job EXCEPT ![w] = j] /\ UNCHANGED <<order, inline>>
  BY <1>4, <1>5 DEF Abort
<1> HIDE DEF u
<1>7. j \in Job(P) \cup {NoJob} /\ (j # NoJob => Sourced(j))
  BY <1>4, MovedIs DEF Sourced
<1>8. slips' \in 0..MaxSlips
  BY <1>2, OutboxAssumption DEF Abort, RowsTypeOK
<1> HIDE DEF j
<1> QED
  BY <1>1, <1>3, <1>6, <1>7, <1>8, MarkTyping

LEMMA CrashTyping ==
    ASSUME NEW P, OutboxTypeOK(P), NEW w \in Workers, Crash(w)
    PROVE  RowsTypeOK' /\ RowsCounted' /\ job' \in [Workers -> Job(P) \cup {NoJob}]
<1>1. slips' \in 0..MaxSlips
  BY OutboxAssumption DEF Crash, OutboxTypeOK, RowsTypeOK
<1> QED
  BY <1>1, JobReplaced DEF Crash

----------------------------------------------------------------------------
(* The sale *)

LEMMA SaleTyping ==
    ASSUME NEW P, OutboxTypeOK(P), SaleStep
    PROVE  RowsTypeOK' /\ RowsCounted' /\ job' \in [Workers -> Job(P) \cup {NoJob}]
<1>0. /\ WalkIns \subseteq Orders /\ EffectTopics \cap VoidTopics = {}
      /\ EffectTopics \subseteq Topics /\ VoidTopics \subseteq Topics
  BY OutboxAssumption DEF Topics
<1>1. UNCHANGED <<job, slips>> /\ inline' \subseteq Orders
  BY <1>0 DEF SaleStep, Complete, VoidWalkIn, CancelRows, OutboxTypeOK, RowsTypeOK
<1>2. ASSUME NEW o \in Orders, NEW topics \in SUBSET Topics, row' = Owing(o, topics)
      PROVE  /\ row' \in [Orders -> [Topics -> Row]]
             /\ \A p \in Orders, k \in Topics :
                   row'[p][k] = IF p = o /\ k \in topics THEN [state |-> "PENDING", tries |-> 0]
                                ELSE row[p][k]
  <2>1. [state |-> "PENDING", tries |-> 0] \in Row
    BY DEF Row, RowStates
  <2> QED
    BY <1>2, <2>1 DEF Owing, OutboxTypeOK, RowsTypeOK
<1>3. ASSUME NEW o \in Orders, NEW topics \in SUBSET Topics, row' = Owing(o, topics),
             \A k \in topics : row[o][k].state = "NONE"
      PROVE  /\ \A v \in Workers : job[v] # NoJob => Sourced(job[v])'
             /\ \A p \in Orders, k \in Topics :
                   row'[p][k].state = "DEAD" => row'[p][k].tries >= MaxAttempts
  <2>1. ASSUME NEW v \in Workers, job[v] # NoJob PROVE Sourced(job[v])'
    <3>1. job[v].o \in Orders /\ job[v].topic \in Topics /\ Sourced(job[v])
      BY <2>1, JobIs
    <3>2. job[v].owned => row'[job[v].o][job[v].topic] = row[job[v].o][job[v].topic]
      BY <1>2, <1>3, <3>1 DEF Sourced
    <3> QED
      BY <1>1, <3>1, <3>2 DEF Sourced
  <2>2. \A p \in Orders, k \in Topics :
            row'[p][k].state = "DEAD" => row'[p][k].tries >= MaxAttempts
    BY <1>2, <1>3 DEF OutboxTypeOK, RowsCounted
  <2> QED
    BY <2>1, <2>2
<1>4. ASSUME NEW o \in Orders, Complete(o)
      PROVE  RowsTypeOK' /\ RowsCounted'
  <2>1. row' = Owing(o, EffectTopics) /\ \A k \in EffectTopics : row[o][k].state = "NONE"
    BY <1>4 DEF Complete, OutboxTypeOK, RowsCounted
  <2>2. \A p \in Orders : order'[p] = IF p = o THEN "COMPLETED" ELSE order[p]
    BY <1>4 DEF Complete, OutboxTypeOK, RowsTypeOK
  <2>3. RowsTypeOK'
    BY <1>0, <1>1, <1>2, <1>4, <2>1 DEF Complete, OutboxTypeOK, RowsTypeOK, SaleStatuses
  <2>4. order[o] = "OPEN"
    BY <1>4 DEF Complete
  <2>5. \A p \in Orders :
            /\ order'[p] = "OPEN" => \A k \in EffectTopics : row'[p][k].state = "NONE"
            /\ order'[p] # "VOIDED" => \A k \in VoidTopics : row'[p][k].state = "NONE"
    BY <1>0, <1>2, <2>1, <2>2, <2>4 DEF OutboxTypeOK, RowsCounted
  <2>6. \A v \in Workers : job'[v] # NoJob => Sourced(job[v])'
    BY <1>0, <1>1, <1>3, <2>1
  <2>7. \A p \in Orders, k \in Topics :
            row'[p][k].state = "DEAD" => row'[p][k].tries >= MaxAttempts
    BY <1>0, <1>3, <2>1
  <2> QED
    BY <1>1, <2>3, <2>5, <2>6, <2>7 DEF RowsCounted, Sourced
<1>5. ASSUME NEW o \in Orders, VoidWalkIn(o)
      PROVE  RowsTypeOK' /\ RowsCounted'
  <2>1. row' = Owing(o, VoidTopics) /\ \A k \in VoidTopics : row[o][k].state = "NONE"
    BY <1>5 DEF VoidWalkIn, OutboxTypeOK, RowsCounted
  <2>2. \A p \in Orders : order'[p] = IF p = o THEN "VOIDED" ELSE order[p]
    BY <1>5 DEF VoidWalkIn, OutboxTypeOK, RowsTypeOK
  <2>3. RowsTypeOK'
    BY <1>0, <1>1, <1>2, <1>5, <2>1 DEF VoidWalkIn, OutboxTypeOK, RowsTypeOK, SaleStatuses
  <2>5. \A p \in Orders :
            /\ order'[p] = "OPEN" => \A k \in EffectTopics : row'[p][k].state = "NONE"
            /\ order'[p] # "VOIDED" => \A k \in VoidTopics : row'[p][k].state = "NONE"
    BY <1>0, <1>2, <2>1, <2>2 DEF OutboxTypeOK, RowsCounted
  <2>6. \A v \in Workers : job'[v] # NoJob => Sourced(job[v])'
    BY <1>0, <1>1, <1>3, <2>1
  <2>7. \A p \in Orders, k \in Topics :
            row'[p][k].state = "DEAD" => row'[p][k].tries >= MaxAttempts
    BY <1>0, <1>3, <2>1
  <2> QED
    BY <1>1, <2>3, <2>5, <2>6, <2>7 DEF RowsCounted, Sourced
<1>6. ASSUME NEW o \in Orders, CancelRows(o)
      PROVE  RowsTypeOK' /\ RowsCounted'
  <2> DEFINE off(r) == [r EXCEPT !.state = "CANCELLED"]
  <2>1. \A r \in Row : off(r) \in Row /\ off(r).state = "CANCELLED" /\ off(r).tries = r.tries
    BY DEF Row, RowStates
  <2>2. \A p \in Orders, k \in Topics :
            \/ row'[p][k] = row[p][k]
            \/ row'[p][k] = off(row[p][k]) /\ row[p][k].state = "PENDING"
    BY <1>6 DEF CancelRows, CalledOff, OutboxTypeOK, RowsTypeOK
  <2> HIDE DEF off
  <2>3. row' \in [Orders -> [Topics -> Row]]
    <3>1. \A p \in Orders, k \in Topics : row'[p][k] \in Row
      <4>1. \A p \in Orders, k \in Topics : row[p][k] \in Row
        BY DEF OutboxTypeOK, RowsTypeOK
      <4> QED
        BY <2>1, <2>2, <4>1
    <3>2. /\ row' = [p \in Orders |-> row'[p]]
          /\ \A p \in Orders : row'[p] = [k \in Topics |-> row'[p][k]]
      BY <1>6 DEF CancelRows, CalledOff, OutboxTypeOK, RowsTypeOK
    <3> QED
      BY <3>1, <3>2
  <2>4. \A p \in Orders, k \in Topics :
            /\ row'[p][k].tries = row[p][k].tries
            /\ row'[p][k].state = "NONE" <=> row[p][k].state = "NONE"
            /\ row'[p][k].state = "DEAD" => row[p][k].state = "DEAD"
    BY <2>1, <2>2 DEF OutboxTypeOK, RowsTypeOK
  <2>5. UNCHANGED order
    BY <1>6 DEF CancelRows
  <2>6. RowsTypeOK'
    BY <1>1, <2>3, <2>5 DEF OutboxTypeOK, RowsTypeOK
  <2>7. ASSUME NEW v \in Workers, job'[v] # NoJob PROVE Sourced(job[v])'
    BY <1>1, <2>4, <2>7, JobIs DEF Sourced
  <2> QED
    BY <1>0, <1>1, <2>4, <2>5, <2>6, <2>7 DEF OutboxTypeOK, RowsCounted, Sourced
<1>7. RowsTypeOK' /\ RowsCounted'
  BY <1>4, <1>5, <1>6 DEF SaleStep
<1>8. job' \in [Workers -> Job(P) \cup {NoJob}]
  BY <1>1 DEF OutboxTypeOK
<1> QED
  BY <1>7, <1>8

LEMMA OutboxStarts ==
    ASSUME NEW P, OutboxInit
    PROVE  OutboxTypeOK(P)
BY OutboxAssumption
   DEF OutboxInit, OutboxTypeOK, RowsTypeOK, RowsCounted, SaleStatuses, Row, RowStates, Topics

=============================================================================
