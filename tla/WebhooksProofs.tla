---------------------------- MODULE WebhooksProofs ----------------------------
(***************************************************************************)
(* Proofs about the webhook dispatcher, for any number of processes,       *)
(* deliveries and workers, with every kind of disturbance.                 *)
(*                                                                         *)
(* The argument is about time.  A batch has at most 2 * Workers rows, and  *)
(* while one of them waits all workers are busy.  Once a row has waited    *)
(* for a job's length every job that was running when it was claimed has   *)
(* ended, so Workers rows of the batch have gone ahead of it; after two    *)
(* lengths the rest has.  It then runs for at most one length more, which  *)
(* StaleAfter exceeds: the janitor never takes a row whose holder is       *)
(* awake, so a claimed row keeps its one holder and nobody else writes it. *)
(***************************************************************************)
EXTENDS Webhooks, FiniteSetTheorems, TLAPS

\* A process's copies are a function from deliveries.
BatchedIn(copies) == {d \in Deliveries : copies[d].stage = "batched"}
BusyIn(copies) == {d \in Deliveries : copies[d].stage \in {"posting", "outcome"}}

\* The busy copies whose job has run for less than some time.
YoungIn(copies, age) == {d \in BusyIn(copies) : copies[d].age < age}

\* A row of the batch that was claimed age ticks ago: those that went ahead of
\* it in the first and in the second round of jobs leave room for the batch.
Waits(copies, age) ==
  /\ age <= 2 * JobTimeout
  /\ Cardinality(YoungIn(copies, age)) + Cardinality(BatchedIn(copies)) <= 2 * Workers
  /\ age > JobTimeout =>
       Cardinality(YoungIn(copies, age - JobTimeout)) + Cardinality(BatchedIn(copies)) <= Workers

\* The copy of d agrees with its row r, and is not old.
Current(copies, d, r) ==
  /\ r.status = "delivering"
  /\ copies[d].stage = "batched" =>
       Waits(copies, r.age) /\ copies[d].attempts = r.attempts
  /\ copies[d].stage \in {"posting", "outcome"} => r.age <= 2 * JobTimeout + copies[d].age
  /\ copies[d].stage = "posting" => copies[d].attempts = r.attempts
  /\ copies[d].stage = "outcome" => copies[d].attempts = r.attempts + 1

CopiesAreCurrent ==
  \A p \in Processes, d \in Deliveries \ sleptOn :
    job[p][d].stage # "none" => Current(job[p], d, row[d])

Apart ==
  \A p, q \in Processes, d \in Deliveries \ sleptOn :
    job[p][d].stage # "none" /\ job[q][d].stage # "none" => p = q

AtMostWorkers == \A p \in Processes : Cardinality(BusyIn(job[p])) <= Workers

\* Only a poller that feeds has a batch, and only a live process has copies.
Feeders ==
  \A p \in Processes :
    /\ process[p].poller # "feeding" => BatchedIn(job[p]) = {}
    /\ process[p].status \in {"stopped", "crashed"} =>
         \A d \in Deliveries : job[p][d].stage = "none"

\* What is not finished has an attempt left, also in the copy of a process that
\* slept.
AttemptsLeft ==
  /\ \A d \in Deliveries :
       /\ row[d].status \notin {"delivered", "dead"} => row[d].attempts < MaxAttempts
       /\ row[d].status = "absent" => row[d].attempts = 0
  /\ \A p \in Processes, d \in Deliveries :
       /\ job[p][d].stage \in {"batched", "posting"} => job[p][d].attempts < MaxAttempts
       /\ job[p][d].stage = "outcome" =>
            /\ job[p][d].status \in {"delivered", "dead", "failed"}
            /\ job[p][d].status = "failed" => job[p][d].attempts < MaxAttempts

LossesAreDisturbances == \A d \in Deliveries : lost[d] <= disturbed

AnswerSeen ==
  \A p \in Processes, d \in Deliveries :
    job[p][d].stage = "outcome" /\ job[p][d].status = "delivered" => d \in acked

\* The inductive invariant.
IInv ==
  /\ TypeOK
  /\ LossesAreDisturbances
  /\ AttemptsLeft
  /\ AnswerSeen
  /\ DeliveredWasAcked
  /\ Feeders
  /\ AtMostWorkers
  /\ Apart
  /\ CopiesAreCurrent
  /\ AttemptsAreCounted

-----------------------------------------------------------------------------
(* Copies and their counts.                                                *)

LEMMA StageOf ==
  ASSUME NEW j \in Jobs \cup {NoJob}
  PROVE  /\ j.stage \in {"none", "batched", "posting", "outcome"}
         /\ j = NoJob <=> j.stage = "none"
         /\ j.stage # "none" =>
              j \in Jobs /\ j.attempts \in 0..MaxAttempts /\ j.age \in 0..JobTimeout
  BY DEF Jobs, NoJob

\* What the type of the copies gives for one copy.
LEMMA CopyType ==
  ASSUME TypeOK, NEW p \in Processes, NEW d \in Deliveries
  PROVE  /\ job[p] \in [Deliveries -> Jobs \cup {NoJob}]
         /\ job[p][d] \in Jobs \cup {NoJob}
         /\ job[p][d].stage \in {"none", "batched", "posting", "outcome"}
         /\ job[p][d] = NoJob <=> job[p][d].stage = "none"
         /\ job[p][d].stage # "none" =>
              /\ job[p][d] \in Jobs
              /\ job[p][d].attempts \in 0..MaxAttempts /\ job[p][d].age \in 0..JobTimeout
  <1>1. job[p] \in [Deliveries -> Jobs \cup {NoJob}] /\ job[p][d] \in Jobs \cup {NoJob}
    BY DEF TypeOK
  <1> DEFINE j == job[p][d]
  <1>2. j \in Jobs \cup {NoJob}
    BY <1>1
  <1> HIDE DEF j
  <1>3. /\ j.stage \in {"none", "batched", "posting", "outcome"}
        /\ j = NoJob <=> j.stage = "none"
        /\ j.stage # "none" =>
             j \in Jobs /\ j.attempts \in 0..MaxAttempts /\ j.age \in 0..JobTimeout
    BY <1>2, StageOf
  <1>4. QED BY <1>1, <1>3 DEF j

\* What the type of the table gives for one row.
LEMMA RowType ==
  ASSUME TypeOK, NEW d \in Deliveries
  PROVE  /\ row[d] \in Rows /\ row[d].status \in Statuses
         /\ row[d].attempts \in 0..MaxAttempts /\ row[d].age \in 0..(StaleAfter + 1)
         /\ row[d].due \in BOOLEAN
  BY DEF TypeOK, Rows

\* The sets of copies in a stage are finite, whatever the copies.
LEMMA Counts ==
  ASSUME NEW copies, NEW age
  PROVE  /\ IsFiniteSet(BatchedIn(copies)) /\ Cardinality(BatchedIn(copies)) \in Nat
         /\ IsFiniteSet(BusyIn(copies)) /\ Cardinality(BusyIn(copies)) \in Nat
         /\ IsFiniteSet(YoungIn(copies, age)) /\ Cardinality(YoungIn(copies, age)) \in Nat
         /\ YoungIn(copies, age) \subseteq BusyIn(copies)
  <1>1. IsFiniteSet(Deliveries)
    BY WebhooksAssumption
  <1>2. /\ BatchedIn(copies) \in SUBSET Deliveries /\ BusyIn(copies) \in SUBSET Deliveries
        /\ YoungIn(copies, age) \in SUBSET Deliveries
        /\ YoungIn(copies, age) \subseteq BusyIn(copies)
    BY DEF BatchedIn, BusyIn, YoungIn
  <1>3. /\ IsFiniteSet(BatchedIn(copies)) /\ IsFiniteSet(BusyIn(copies))
        /\ IsFiniteSet(YoungIn(copies, age))
    BY <1>1, <1>2, FS_Subset
  <1>4. QED BY <1>2, <1>3, FS_CardinalityType

\* The model's sets of a process's copies are the ones the proof counts.
LEMMA BatchedBusy ==
  ASSUME NEW p \in Processes
  PROVE  /\ Batched(p) = BatchedIn(job[p]) /\ Busy(p) = BusyIn(job[p])
  BY DEF Batched, Busy, BatchedIn, BusyIn

\* Fewer copies leave more room.
LEMMA WaitsLess ==
  ASSUME NEW c, NEW e, NEW age \in Nat, Waits(c, age),
         \A a \in Int : YoungIn(e, a) \subseteq YoungIn(c, a),
         BatchedIn(e) \subseteq BatchedIn(c)
  PROVE  Waits(e, age)
  <1>1. JobTimeout \in Nat /\ Workers \in Nat /\ age - JobTimeout \in Int
    BY WebhooksAssumption
  <1>2. /\ Cardinality(YoungIn(e, age)) <= Cardinality(YoungIn(c, age))
        /\ Cardinality(YoungIn(e, age - JobTimeout)) <= Cardinality(YoungIn(c, age - JobTimeout))
        /\ Cardinality(BatchedIn(e)) <= Cardinality(BatchedIn(c))
    BY <1>1, Counts, FS_Subset
  <1> DEFINE y == Cardinality(YoungIn(e, age))
             z == Cardinality(YoungIn(e, age - JobTimeout))
             b == Cardinality(BatchedIn(e))
             yc == Cardinality(YoungIn(c, age))
             zc == Cardinality(YoungIn(c, age - JobTimeout))
             bc == Cardinality(BatchedIn(c))
  <1>3. /\ y \in Nat /\ z \in Nat /\ b \in Nat /\ yc \in Nat /\ zc \in Nat /\ bc \in Nat
        /\ y <= yc /\ z <= zc /\ b <= bc
    BY <1>2, Counts
  <1>4. /\ age <= 2 * JobTimeout /\ yc + bc <= 2 * Workers
        /\ age > JobTimeout => zc + bc <= Workers
    BY DEF Waits
  <1>5. SUFFICES /\ age <= 2 * JobTimeout /\ y + b <= 2 * Workers
                 /\ age > JobTimeout => z + b <= Workers
    BY DEF Waits
  <1> HIDE DEF y, z, b, yc, zc, bc
  <1>6. QED BY <1>1, <1>3, <1>4

\* A worker that takes a row of the batch leaves the others their room.
LEMMA WaitsFeed ==
  ASSUME NEW c, NEW e, NEW age \in Nat, Waits(c, age), NEW d \in BatchedIn(c),
         \A a \in Int : YoungIn(e, a) \subseteq YoungIn(c, a) \cup {d},
         BatchedIn(e) = BatchedIn(c) \ {d}
  PROVE  Waits(e, age)
  <1>1. JobTimeout \in Nat /\ Workers \in Nat /\ age - JobTimeout \in Int
    BY WebhooksAssumption
  <1>2. ASSUME NEW a \in Int
        PROVE  Cardinality(YoungIn(e, a)) <= Cardinality(YoungIn(c, a)) + 1
    <2>1. IsFiniteSet(YoungIn(c, a)) /\ Cardinality(YoungIn(c, a)) \in Nat
          /\ Cardinality(YoungIn(e, a)) \in Nat
      BY Counts
    <2>2. /\ IsFiniteSet(YoungIn(c, a) \cup {d})
          /\ Cardinality(YoungIn(c, a) \cup {d}) =
               IF d \in YoungIn(c, a) THEN Cardinality(YoungIn(c, a))
               ELSE Cardinality(YoungIn(c, a)) + 1
      BY <2>1, FS_AddElement
    <2>3. Cardinality(YoungIn(e, a)) <= Cardinality(YoungIn(c, a) \cup {d})
      BY <2>2, FS_Subset
    <2>4. QED BY <2>1, <2>2, <2>3
  <1>3. Cardinality(BatchedIn(e)) = Cardinality(BatchedIn(c)) - 1
    <2>1. IsFiniteSet(BatchedIn(c))
      BY Counts
    <2>2. Cardinality(BatchedIn(c) \ {d}) =
            IF d \in BatchedIn(c) THEN Cardinality(BatchedIn(c)) - 1 ELSE Cardinality(BatchedIn(c))
      BY <2>1, FS_RemoveElement
    <2>3. QED BY <2>2
  <1> DEFINE y == Cardinality(YoungIn(e, age))
             z == Cardinality(YoungIn(e, age - JobTimeout))
             b == Cardinality(BatchedIn(e))
             yc == Cardinality(YoungIn(c, age))
             zc == Cardinality(YoungIn(c, age - JobTimeout))
             bc == Cardinality(BatchedIn(c))
  <1>4. /\ y \in Nat /\ z \in Nat /\ b \in Nat /\ yc \in Nat /\ zc \in Nat /\ bc \in Nat
        /\ y <= yc + 1 /\ z <= zc + 1 /\ b = bc - 1
    <2>1. /\ y \in Nat /\ z \in Nat /\ b \in Nat /\ yc \in Nat /\ zc \in Nat /\ bc \in Nat
      BY Counts
    <2>2. y <= yc + 1
      BY <1>1, <1>2
    <2>3. z <= zc + 1
      BY <1>1, <1>2
    <2>4. QED BY <1>3, <2>1, <2>2, <2>3
  <1>5. /\ age <= 2 * JobTimeout /\ yc + bc <= 2 * Workers
        /\ age > JobTimeout => zc + bc <= Workers
    BY DEF Waits
  <1>6. SUFFICES /\ age <= 2 * JobTimeout /\ y + b <= 2 * Workers
                 /\ age > JobTimeout => z + b <= Workers
    BY DEF Waits
  <1> HIDE DEF y, z, b, yc, zc, bc
  <1>7. QED BY <1>1, <1>4, <1>5

\* A tick: every busy copy is a tick older, and all workers were busy.
LEMMA WaitsTick ==
  ASSUME NEW c, NEW e, NEW age \in Nat, Waits(c, age), BatchedIn(c) # {},
         Cardinality(BusyIn(c)) = Workers,
         BatchedIn(e) = BatchedIn(c), BusyIn(e) = BusyIn(c),
         \A d \in BusyIn(c) :
           c[d].age \in Nat /\ c[d].age < JobTimeout /\ e[d].age = c[d].age + 1
  PROVE  Waits(e, age + 1)
  <1>1. JobTimeout \in Nat /\ Workers \in Nat /\ age - JobTimeout \in Int
        /\ age + 1 - JobTimeout \in Int
    BY WebhooksAssumption
  <1>2. \A a \in Int : YoungIn(e, a + 1) = YoungIn(c, a)
    BY DEF YoungIn
  <1>3. /\ YoungIn(e, age + 1) = YoungIn(c, age)
        /\ YoungIn(e, (age + 1) - JobTimeout) = YoungIn(c, age - JobTimeout)
    <2>1. (age + 1) - JobTimeout = (age - JobTimeout) + 1
      BY <1>1
    <2>2. QED BY <1>1, <1>2, <2>1
  <1>4. Cardinality(BatchedIn(c)) \in Nat \ {0}
    BY Counts, FS_EmptySet
  <1>5. \A a \in Int : a >= JobTimeout => Cardinality(YoungIn(c, a)) = Workers
    <2>1. \A a \in Int : a >= JobTimeout => YoungIn(c, a) = BusyIn(c)
      BY <1>1 DEF YoungIn
    <2>2. QED BY <2>1
  <1>6. Cardinality(YoungIn(c, 0)) = 0
    <2>1. YoungIn(c, 0) = {}
      BY DEF YoungIn
    <2>2. QED BY <2>1, FS_EmptySet
  <1> DEFINE y == Cardinality(YoungIn(c, age))
             z == Cardinality(YoungIn(c, age - JobTimeout))
             b == Cardinality(BatchedIn(c))
  <1>7. /\ y \in Nat /\ z \in Nat /\ b \in Nat \ {0}
        /\ age >= JobTimeout => y = Workers
        /\ age - JobTimeout >= JobTimeout => z = Workers
        /\ age = JobTimeout => z = 0
    <2>1. y \in Nat /\ z \in Nat /\ b \in Nat \ {0}
      BY <1>4, Counts
    <2>2. age >= JobTimeout => y = Workers
      BY <1>5
    <2>3. age - JobTimeout >= JobTimeout => z = Workers
      BY <1>1, <1>5
    <2>4. age = JobTimeout => age - JobTimeout = 0
      BY <1>1
    <2>5. QED BY <1>6, <2>1, <2>2, <2>3, <2>4
  <1>8. /\ age <= 2 * JobTimeout /\ y + b <= 2 * Workers
        /\ age > JobTimeout => z + b <= Workers
    BY DEF Waits
  <1>9. SUFFICES /\ age + 1 <= 2 * JobTimeout /\ y + b <= 2 * Workers
                 /\ age + 1 > JobTimeout => z + b <= Workers
    BY <1>3 DEF Waits
  <1> HIDE DEF y, z, b
  <1>10. JobTimeout # 0
    BY WebhooksAssumption
  <1>11. QED BY <1>1, <1>7, <1>8, <1>10

-----------------------------------------------------------------------------
(* What a step does to the copies and the rows.                            *)

\* The row is put back to work without a holder, or claimed from such a state.
Requeued(d) ==
  /\ row[d].status \in {"absent", "pending", "failed"} \/ Stale(d)
  /\ row'[d].status \in {"pending", "failed", "delivering"}
  /\ row'[d].attempts = row[d].attempts

RowsRequeued == \A d \in Deliveries : row'[d] = row[d] \/ Requeued(d)

\* No other process's copy changes, and no other copy of this process.
OthersKept(p) == \A q \in Processes \ {p} : job'[q] = job[q]
OnlyCopy(p, d) == OthersKept(p) /\ \A e \in Deliveries \ {d} : job'[p][e] = job[p][e]

\* The row of a copy whose holder was awake is claimed, and not stale.
LEMMA HeldRow ==
  ASSUME IInv, NEW p \in Processes, NEW d \in Deliveries \ sleptOn, job[p][d].stage # "none"
  PROVE  /\ row[d].status = "delivering" /\ row[d].age <= 3 * JobTimeout /\ ~Stale(d)
         /\ ~Requeued(d)
  <1>1. Current(job[p], d, row[d])
    BY DEF IInv, CopiesAreCurrent
  <1>2. /\ JobTimeout \in Nat /\ StaleAfter \in Nat /\ 3 * JobTimeout <= StaleAfter
    BY WebhooksAssumption
  <1>3. /\ job[p][d].stage \in {"batched", "posting", "outcome"}
        /\ job[p][d].age \in 0..JobTimeout /\ row[d].age \in 0..(StaleAfter + 1)
    BY CopyType, RowType DEF IInv
  <1>4. row[d].status = "delivering"
    BY <1>1 DEF Current
  <1>5. row[d].age <= 3 * JobTimeout
    <2>1. CASE job[p][d].stage = "batched"
      BY <1>1, <1>2, <1>3, <2>1 DEF Current, Waits
    <2>2. CASE job[p][d].stage \in {"posting", "outcome"}
      BY <1>1, <1>2, <1>3, <2>2 DEF Current
    <2>3. QED BY <1>3, <2>1, <2>2
  <1>6. QED BY <1>2, <1>3, <1>4, <1>5 DEF Stale, Requeued

\* These steps change rows only by putting them back in the queue.
LEMMA TableSteps ==
  ASSUME TypeOK, AttemptsLeft
  PROVE  /\ \A d \in Deliveries : Create(d) \/ BackoffDelay(d) => RowsRequeued
         /\ \A p \in Processes : ReleaseStale(p) => RowsRequeued
         /\ \A S \in Claimable : Flip(S) => RowsRequeued
         /\ UNCHANGED row => RowsRequeued
  <1>1. ASSUME NEW d \in Deliveries, Create(d) PROVE RowsRequeued
    BY <1>1 DEF Create, RowsRequeued, Requeued, AttemptsLeft, TypeOK
  <1>2. ASSUME NEW d \in Deliveries, BackoffDelay(d) PROVE RowsRequeued
    BY <1>2 DEF BackoffDelay, RowsRequeued, Requeued, TypeOK, Rows
  <1>3. ASSUME NEW p \in Processes, ReleaseStale(p) PROVE RowsRequeued
    BY <1>3 DEF ReleaseStale, RowsRequeued, Requeued, TypeOK, Rows
  <1>4. ASSUME NEW S \in Claimable, Flip(S) PROVE RowsRequeued
    BY <1>4 DEF Claimable, Due, Flip, RowsRequeued, Requeued, TypeOK, Rows
  <1>5. QED BY <1>1, <1>2, <1>3, <1>4 DEF RowsRequeued

\* The rows keep their attempts and what they say of finished deliveries.
LEMMA Requeues ==
  ASSUME TypeOK, AttemptsLeft, DeliveredWasAcked, RowsRequeued, acked \subseteq acked'
  PROVE  /\ \A d \in Deliveries : row'[d].attempts = row[d].attempts
         /\ \A d \in Deliveries :
              /\ row'[d].status \notin {"delivered", "dead"} => row'[d].attempts < MaxAttempts
              /\ row'[d].status = "absent" => row'[d].attempts = 0
         /\ DeliveredWasAcked'
  BY DEF RowsRequeued, Requeued, AttemptsLeft, DeliveredWasAcked, Stale

\* A copy stays current when neither it nor its row changes.
LEMMA CopyKept ==
  ASSUME IInv, NEW q \in Processes, NEW d \in Deliveries \ sleptOn,
         job'[q] = job[q], row'[d] = row[d], job'[q][d].stage # "none"
  PROVE  Current(job'[q], d, row'[d])
  BY DEF IInv, CopiesAreCurrent

-----------------------------------------------------------------------------
(* Types.                                                                  *)

LEMMA TypeInit == Init => TypeOK
  <1> SUFFICES ASSUME Init PROVE TypeOK
    OBVIOUS
  <1>1. /\ MaxAttempts \in Nat /\ StaleAfter \in Nat /\ MaxDisturbances \in Nat
    BY WebhooksAssumption
  <1>2. [status |-> "absent", attempts |-> 0, due |-> FALSE, age |-> 0] \in Rows
    BY <1>1 DEF Rows, Statuses
  <1>3. Started \in ProcessStates
    BY DEF Started, ProcessStates
  <1>4. QED BY <1>1, <1>2, <1>3 DEF Init, TypeOK

\* The edits the steps make to a row leave it a row.
LEMMA RowEdits ==
  ASSUME NEW r \in Rows
  PROVE  /\ [r EXCEPT !.status = "failed", !.due = TRUE, !.age = 0] \in Rows
         /\ [r EXCEPT !.status = "delivering", !.age = 0] \in Rows
         /\ r.age <= StaleAfter => [r EXCEPT !.age = @ + 1] \in Rows
  <1>1. StaleAfter \in Nat
    BY WebhooksAssumption
  <1>2. [r EXCEPT !.status = "failed", !.due = TRUE, !.age = 0] \in Rows
    <2>1. 0 \in 0..(StaleAfter + 1)
      BY <1>1
    <2>2. QED BY <2>1, Zenon DEF Rows, Statuses
  <1>3. [r EXCEPT !.status = "delivering", !.age = 0] \in Rows
    <2>1. 0 \in 0..(StaleAfter + 1)
      BY <1>1
    <2>2. QED BY <2>1, Zenon DEF Rows, Statuses
  <1>4. ASSUME r.age <= StaleAfter
        PROVE  [r EXCEPT !.age = @ + 1] \in Rows
    <2>1. r.age + 1 \in 0..(StaleAfter + 1)
      BY <1>1, <1>4 DEF Rows
    <2>2. QED BY <2>1, Zenon DEF Rows
  <1>5. QED BY <1>2, <1>3, <1>4

\* The steps that requeue rows keep the table's type.
LEMMA RequeuedType ==
  ASSUME TypeOK
  PROVE  /\ \A d \in Deliveries : Create(d) \/ BackoffDelay(d) => row' \in [Deliveries -> Rows]
         /\ \A p \in Processes : ReleaseStale(p) => row' \in [Deliveries -> Rows]
         /\ \A S : Flip(S) => row' \in [Deliveries -> Rows]
  <1>1. MaxAttempts \in Nat /\ StaleAfter \in Nat /\ row \in [Deliveries -> Rows]
    BY WebhooksAssumption DEF TypeOK
  <1>2. ASSUME NEW d \in Deliveries, Create(d) PROVE row' \in [Deliveries -> Rows]
    BY <1>1, <1>2 DEF Create, Rows, Statuses
  <1>3. ASSUME NEW d \in Deliveries, BackoffDelay(d) PROVE row' \in [Deliveries -> Rows]
    BY <1>1, <1>3 DEF BackoffDelay, Rows, Statuses
  <1>4. ASSUME NEW p \in Processes, ReleaseStale(p) PROVE row' \in [Deliveries -> Rows]
    <2>1. ASSUME NEW d \in Deliveries
          PROVE  [row[d] EXCEPT !.status = "failed", !.due = TRUE, !.age = 0] \in Rows
      BY <1>1, RowEdits
    <2>2. ASSUME NEW d \in Deliveries
          PROVE  (IF Stale(d) THEN [row[d] EXCEPT !.status = "failed", !.due = TRUE, !.age = 0]
                  ELSE row[d]) \in Rows
      <3>1. row[d] \in Rows
        BY <1>1
      <3>2. CASE Stale(d)
        BY <2>1, <3>2, Zenon
      <3>3. CASE ~Stale(d)
        BY <3>1, <3>3, Zenon
      <3>4. QED BY <3>2, <3>3
    <2>3. QED BY <1>4, <2>2, Zenon DEF ReleaseStale
  <1>5. ASSUME NEW S, Flip(S) PROVE row' \in [Deliveries -> Rows]
    <2>1. ASSUME NEW d \in Deliveries
          PROVE  [row[d] EXCEPT !.status = "delivering", !.age = 0] \in Rows
      BY <1>1, RowEdits
    <2>2. ASSUME NEW d \in Deliveries
          PROVE  (IF d \in S THEN [row[d] EXCEPT !.status = "delivering", !.age = 0]
                  ELSE row[d]) \in Rows
      <3>1. row[d] \in Rows
        BY <1>1
      <3>2. CASE d \in S
        BY <2>1, <3>2, Zenon
      <3>3. CASE d \notin S
        BY <3>1, <3>3, Zenon
      <3>4. QED BY <3>2, <3>3
    <2>3. QED BY <1>5, <2>2, Zenon DEF Flip
  <1>6. QED BY <1>2, <1>3, <1>4, <1>5

\* UpdateAttempt writes one row and keeps the table's type.
LEMMA UpdateType ==
  ASSUME TypeOK, NEW d \in Deliveries, NEW status \in Statuses, NEW n \in 0..MaxAttempts,
         UpdateAttempt(d, status, n, TRUE) \/ UpdateAttempt(d, status, n, FALSE)
  PROVE  /\ row' \in [Deliveries -> Rows]
         /\ row'[d].status = status /\ row'[d].attempts = n
         /\ \A e \in Deliveries \ {d} : row'[e] = row[e]
  <1>1. StaleAfter \in Nat /\ row \in [Deliveries -> Rows]
    BY WebhooksAssumption DEF TypeOK
  <1>2. /\ [status |-> status, attempts |-> n, due |-> TRUE, age |-> 0] \in Rows
        /\ [status |-> status, attempts |-> n, due |-> FALSE, age |-> 0] \in Rows
    BY <1>1 DEF Rows
  <1>3. PICK r \in Rows : r.status = status /\ r.attempts = n /\ row' = [row EXCEPT ![d] = r]
    <2>1. CASE UpdateAttempt(d, status, n, TRUE)
      <3>1. row' = [row EXCEPT ![d] = [status |-> status, attempts |-> n, due |-> TRUE, age |-> 0]]
        BY <2>1 DEF UpdateAttempt
      <3>2. QED BY <1>2, <3>1
    <2>2. CASE UpdateAttempt(d, status, n, FALSE)
      <3>1. row' = [row EXCEPT ![d] = [status |-> status, attempts |-> n, due |-> FALSE, age |-> 0]]
        BY <2>2 DEF UpdateAttempt
      <3>2. QED BY <1>2, <3>1
    <2>3. QED BY <2>1, <2>2
  <1>4. QED BY <1>1, <1>3

\* A step of one process's poller or status leaves the other processes alone.
LEMMA ProcessType ==
  ASSUME TypeOK, NEW p \in Processes
  PROVE  /\ \A at \in {"ticker", "claiming", "feeding", "returned"} :
              PollerGoesTo(p, at) =>
                /\ process' \in [Processes -> ProcessStates]
                /\ process'[p].poller = at /\ process'[p].status = process[p].status
                /\ \A q \in Processes \ {p} : process'[q] = process[q]
         /\ \A st \in {"running", "stopping", "stopped", "crashed"} :
              process' = [process EXCEPT ![p].status = st] =>
                /\ process' \in [Processes -> ProcessStates]
                /\ process'[p].poller = process[p].poller /\ process'[p].status = st
                /\ \A q \in Processes \ {p} : process'[q] = process[q]
         /\ process[p].status \in {"running", "stopping", "stopped", "crashed"}
         /\ process[p].poller \in {"ticker", "claiming", "feeding", "returned"}
  <1>1. /\ process \in [Processes -> ProcessStates] /\ process[p] \in ProcessStates
        /\ process[p].status \in {"running", "stopping", "stopped", "crashed"}
        /\ process[p].poller \in {"ticker", "claiming", "feeding", "returned"}
    BY DEF TypeOK, ProcessStates
  <1>2. ASSUME NEW s \in ProcessStates, process' = [process EXCEPT ![p] = s]
        PROVE  /\ process' \in [Processes -> ProcessStates] /\ process'[p] = s
               /\ \A q \in Processes \ {p} : process'[q] = process[q]
    BY <1>1, <1>2
  <1>3. ASSUME NEW at \in {"ticker", "claiming", "feeding", "returned"}, PollerGoesTo(p, at)
        PROVE  /\ process' \in [Processes -> ProcessStates]
               /\ process'[p].poller = at /\ process'[p].status = process[p].status
               /\ \A q \in Processes \ {p} : process'[q] = process[q]
    <2> DEFINE s == [process[p] EXCEPT !.poller = at]
    <2>1. s \in ProcessStates /\ s.poller = at /\ s.status = process[p].status
      BY <1>1 DEF ProcessStates
    <2>2. process' = [process EXCEPT ![p] = s]
      BY <1>3 DEF PollerGoesTo
    <2> HIDE DEF s
    <2>3. QED BY <1>2, <2>1, <2>2
  <1>4. ASSUME NEW st \in {"running", "stopping", "stopped", "crashed"},
               process' = [process EXCEPT ![p].status = st]
        PROVE  /\ process' \in [Processes -> ProcessStates]
               /\ process'[p].poller = process[p].poller /\ process'[p].status = st
               /\ \A q \in Processes \ {p} : process'[q] = process[q]
    <2> DEFINE s == [process[p] EXCEPT !.status = st]
    <2>1. s \in ProcessStates /\ s.poller = process[p].poller /\ s.status = st
      BY <1>1 DEF ProcessStates
    <2>2. process' = [process EXCEPT ![p] = s]
      BY <1>4
    <2> HIDE DEF s
    <2>3. QED BY <1>2, <2>1, <2>2
  <1>5. QED BY <1>1, <1>3, <1>4

-----------------------------------------------------------------------------
(* Steps that move no copy.                                                *)

\* Feeders only looks at the copies and at the processes.
LEMMA FeedersKept ==
  ASSUME IInv, UNCHANGED job,
         \A p \in Processes : process'[p] = process[p] \/
           /\ process'[p].poller # "feeding" => BatchedIn(job[p]) = {}
           /\ process'[p].status \in {"stopped", "crashed"} =>
                \A d \in Deliveries : job[p][d].stage = "none"
  PROVE  Feeders'
  BY DEF IInv, Feeders

\* A step that touches no copy and only requeues rows keeps the invariant.
LEMMA Quiet ==
  ASSUME IInv, TypeOK', UNCHANGED <<job, history>>, RowsRequeued, Feeders',
         disturbed <= disturbed'
  PROVE  IInv'
  <1> USE DEF history
  <1>1. TypeOK /\ AttemptsLeft /\ DeliveredWasAcked /\ LossesAreDisturbances
        /\ AnswerSeen /\ Apart /\ AtMostWorkers /\ AttemptsAreCounted
    BY DEF IInv
  <1>2. LossesAreDisturbances'
    <2>1. \A d \in Deliveries : lost[d] \in Int
      BY <1>1 DEF TypeOK
    <2>2. disturbed \in Int /\ disturbed' \in Int
      BY <1>1 DEF TypeOK
    <2>3. QED BY <1>1, <2>1, <2>2 DEF LossesAreDisturbances
  <1>3. /\ \A d \in Deliveries : row'[d].attempts = row[d].attempts
        /\ AttemptsLeft' /\ DeliveredWasAcked'
    BY <1>1, Requeues DEF AttemptsLeft
  <1>4. AnswerSeen' /\ AtMostWorkers' /\ Apart'
    BY <1>1 DEF AnswerSeen, AtMostWorkers, Apart
  <1>5. CopiesAreCurrent'
    <2> SUFFICES ASSUME NEW p \in Processes, NEW d \in Deliveries \ sleptOn,
                        job[p][d].stage # "none"
                 PROVE  Current(job'[p], d, row'[d])
      BY DEF CopiesAreCurrent
    <2>1. row'[d] = row[d]
      BY HeldRow DEF RowsRequeued
    <2>2. QED BY <2>1, CopyKept
  <1>6. AttemptsAreCounted'
    <2>1. \A p \in Processes : Busy(p)' = Busy(p)
      BY DEF Busy
    <2>2. QED BY <1>1, <1>3, <2>1 DEF AttemptsAreCounted
  <1>7. QED BY <1>2, <1>3, <1>4, <1>5, <1>6 DEF IInv

\* The number of disturbances only grows, up to its bound.
LEMMA DisturbType ==
  ASSUME TypeOK, (\E kind : Disturb(kind)) \/ Undisturbed
  PROVE  disturbed' \in 0..MaxDisturbances /\ disturbed <= disturbed'
  BY WebhooksAssumption DEF TypeOK, Disturb, Undisturbed

\* A new delivery, and a backoff that ends, keep the invariant.
LEMMA TableStep ==
  ASSUME IInv, NEW d \in Deliveries, Create(d) \/ BackoffDelay(d)
  PROVE  IInv'
  <1>1. TypeOK /\ AttemptsLeft
    BY DEF IInv
  <1>2. UNCHANGED <<job, process, asleep, disturbed, history>>
    BY DEF Create, BackoffDelay
  <1>3. row' \in [Deliveries -> Rows] /\ RowsRequeued
    BY <1>1, RequeuedType, TableSteps
  <1>4. TypeOK' /\ disturbed <= disturbed'
    BY <1>1, <1>2, <1>3 DEF TypeOK, history
  <1>5. Feeders'
    BY <1>2, FeedersKept
  <1>6. QED BY <1>2, <1>3, <1>4, <1>5, Quiet

\* The janitor's sweep takes no row whose holder did not sleep.
LEMMA SweepStep ==
  ASSUME IInv, NEW p \in Processes, Sweep(p)
  PROVE  IInv'
  <1>1. TypeOK /\ AttemptsLeft /\ row \in [Deliveries -> Rows]
    BY DEF IInv, TypeOK
  <1>2. UNCHANGED <<job, asleep, history>> /\ PollerGoesTo(p, "claiming")
        /\ process[p].poller = "ticker"
    BY DEF Sweep, Polling
  <1>3. row' \in [Deliveries -> Rows] /\ RowsRequeued
    <2>1. CASE ReleaseStale(p)
      BY <1>1, <2>1, RequeuedType, TableSteps
    <2>2. CASE UNCHANGED row
      BY <1>1, <2>2, TableSteps
    <2>3. QED BY <2>1, <2>2 DEF Sweep
  <1>4. disturbed' \in 0..MaxDisturbances /\ disturbed <= disturbed'
    BY <1>1, DisturbType DEF Sweep
  <1>5. /\ process' \in [Processes -> ProcessStates]
        /\ process'[p].poller = "claiming" /\ process'[p].status = process[p].status
        /\ \A q \in Processes \ {p} : process'[q] = process[q]
    BY <1>1, <1>2, ProcessType
  <1>6. TypeOK'
    BY <1>1, <1>2, <1>3, <1>4, <1>5 DEF TypeOK, history
  <1>7. Feeders'
    BY <1>2, <1>5, FeedersKept DEF IInv, Feeders
  <1>8. QED BY <1>2, <1>3, <1>4, <1>6, <1>7, Quiet

\* A failed claim leaves rows that nobody holds, for the janitor.
LEMMA ClaimFailsStep ==
  ASSUME IInv, NEW p \in Processes, ClaimDueFails(p)
  PROVE  IInv'
  <1>1. TypeOK /\ AttemptsLeft /\ row \in [Deliveries -> Rows]
    BY DEF IInv, TypeOK
  <1>2. UNCHANGED <<job, asleep, history>> /\ PollerGoesTo(p, "ticker")
        /\ process[p].poller = "claiming" /\ Disturb("database")
    BY DEF ClaimDueFails, Polling
  <1>3. row' \in [Deliveries -> Rows] /\ RowsRequeued
    <2>1. CASE \E S \in Claimable : Flip(S)
      BY <1>1, <2>1, RequeuedType, TableSteps
    <2>2. CASE UNCHANGED row
      BY <1>1, <2>2, TableSteps
    <2>3. QED BY <2>1, <2>2 DEF ClaimDueFails
  <1>4. disturbed' \in 0..MaxDisturbances /\ disturbed <= disturbed'
    BY <1>1, <1>2, DisturbType
  <1>5. /\ process' \in [Processes -> ProcessStates]
        /\ process'[p].poller = "ticker" /\ process'[p].status = process[p].status
        /\ \A q \in Processes \ {p} : process'[q] = process[q]
    BY <1>1, <1>2, ProcessType
  <1>6. TypeOK'
    BY <1>1, <1>2, <1>3, <1>4, <1>5 DEF TypeOK, history
  <1>7. Feeders'
    BY <1>2, <1>5, FeedersKept DEF IInv, Feeders
  <1>8. QED BY <1>2, <1>3, <1>4, <1>6, <1>7, Quiet

\* The steps of a process as a whole that lose nothing.
LEMMA LifeStep ==
  ASSUME IInv, NEW p \in Processes,
         PollerReturns(p) \/ Shutdown(p) \/ Stopped(p) \/ Restart(p) \/ Stall(p) \/ Wake(p)
  PROVE  IInv'
  <1>1. TypeOK /\ AttemptsLeft /\ Feeders
    BY DEF IInv
  <1>2. UNCHANGED <<row, job, history>>
    BY DEF PollerReturns, Shutdown, Stopped, Restart, Stall, Wake
  <1>3. RowsRequeued
    BY <1>1, <1>2, TableSteps
  <1>4. disturbed' \in 0..MaxDisturbances /\ disturbed <= disturbed'
    <2>1. (\E kind : Disturb(kind)) \/ Undisturbed
      BY DEF PollerReturns, Shutdown, Stopped, Restart, Stall, Wake, Undisturbed
    <2>2. QED BY <1>1, <2>1, DisturbType
  <1>5. asleep' \subseteq Processes
    BY <1>1 DEF PollerReturns, Shutdown, Stopped, Restart, Stall, Wake, TypeOK
  <1>6. process' \in [Processes -> ProcessStates] /\ Feeders'
    <2>1. CASE PollerReturns(p)
      <3>1. PollerGoesTo(p, "returned") /\ process[p].poller # "feeding"
            /\ process[p].status = "stopping"
        BY <2>1 DEF PollerReturns
      <3>2. /\ process' \in [Processes -> ProcessStates]
            /\ process'[p].poller = "returned" /\ process'[p].status = process[p].status
            /\ \A q \in Processes \ {p} : process'[q] = process[q]
        BY <1>1, <3>1, ProcessType
      <3>3. QED BY <1>1, <1>2, <3>1, <3>2, FeedersKept DEF Feeders
    <2>2. CASE Shutdown(p)
      <3>1. process' = [process EXCEPT ![p].status = "stopping"]
        BY <2>2 DEF Shutdown
      <3>2. /\ process' \in [Processes -> ProcessStates]
            /\ process'[p].poller = process[p].poller /\ process'[p].status = "stopping"
            /\ \A q \in Processes \ {p} : process'[q] = process[q]
        BY <1>1, <3>1, ProcessType
      <3>3. QED BY <1>1, <1>2, <3>2, FeedersKept DEF Feeders
    <2>3. CASE Stopped(p)
      <3>1. process' = [process EXCEPT ![p].status = "stopped"] /\ Busy(p) = {}
            /\ process[p].poller = "returned"
        BY <2>3 DEF Stopped
      <3>2. /\ process' \in [Processes -> ProcessStates]
            /\ process'[p].poller = "returned" /\ process'[p].status = "stopped"
            /\ \A q \in Processes \ {p} : process'[q] = process[q]
        BY <1>1, <3>1, ProcessType
      <3>3. BatchedIn(job[p]) = {} /\ BusyIn(job[p]) = {}
        BY <1>1, <3>1, BatchedBusy DEF Feeders
      <3>4. \A d \in Deliveries : job[p][d].stage = "none"
        BY <1>1, <3>3, CopyType DEF BatchedIn, BusyIn
      <3>5. QED BY <1>2, <3>2, <3>3, <3>4, FeedersKept
    <2>4. CASE Restart(p)
      <3>1. process' = [process EXCEPT ![p] = Started]
            /\ process[p].status \in {"stopped", "crashed"}
        BY <2>4 DEF Restart
      <3>2. /\ process' \in [Processes -> ProcessStates]
            /\ process'[p].poller = "ticker" /\ process'[p].status = "running"
            /\ \A q \in Processes \ {p} : process'[q] = process[q]
        BY <1>1, <3>1 DEF TypeOK, Started, ProcessStates
      <3>3. BatchedIn(job[p]) = {}
        BY <1>1, <3>1 DEF Feeders, BatchedIn
      <3>4. QED BY <1>2, <3>2, <3>3, FeedersKept
    <2>5. CASE Stall(p) \/ Wake(p)
      <3>1. UNCHANGED process
        BY <2>5 DEF Stall, Wake
      <3>2. QED BY <1>1, <1>2, <3>1, FeedersKept DEF TypeOK
    <2>6. QED BY <2>1, <2>2, <2>3, <2>4, <2>5
  <1>7. TypeOK'
    BY <1>1, <1>2, <1>4, <1>5, <1>6 DEF TypeOK, history
  <1>8. QED BY <1>2, <1>3, <1>4, <1>6, <1>7, Quiet DEF history

-----------------------------------------------------------------------------
(* Steps that change one copy.                                             *)

Counted(d) ==
  started[d] = row[d].attempts + lost[d] + Cardinality({p \in Processes : d \in Busy(p)})

\* Nobody works on d, or p alone does.
LEMMA BusyOnes ==
  ASSUME Apart, NEW d \in Deliveries \ sleptOn
  PROVE  /\ (\A p \in Processes : d \notin Busy(p)) =>
              Cardinality({p \in Processes : d \in Busy(p)}) = 0
         /\ \A p \in Processes :
              d \in Busy(p) => Cardinality({q \in Processes : d \in Busy(q)}) = 1
  <1>1. ASSUME \A p \in Processes : d \notin Busy(p)
        PROVE  Cardinality({p \in Processes : d \in Busy(p)}) = 0
    <2>1. {p \in Processes : d \in Busy(p)} = {}
      BY <1>1
    <2>2. QED BY <2>1, FS_EmptySet
  <1>2. ASSUME NEW p \in Processes, d \in Busy(p)
        PROVE  Cardinality({q \in Processes : d \in Busy(q)}) = 1
    <2>1. \A q \in Processes : d \in Busy(q) => job[q][d].stage # "none"
      BY DEF Busy
    <2>2. {q \in Processes : d \in Busy(q)} = {p}
      BY <1>2, <2>1 DEF Apart
    <2>3. QED BY <2>2, FS_Singleton
  <1>3. QED BY <1>1, <1>2

\* The count of attempts of a row none of whose attempts moves.
LEMMA CountKept ==
  ASSUME NEW d \in Deliveries, Counted(d), started'[d] = started[d], lost'[d] = lost[d],
         row'[d].attempts = row[d].attempts,
         \A q \in Processes : job'[q][d].stage \in {"posting", "outcome"} <=>
                              job[q][d].stage \in {"posting", "outcome"}
  PROVE  Counted(d)'
  <1>1. \A q \in Processes : d \in Busy(q)' <=> d \in Busy(q)
    BY DEF Busy
  <1>2. {q \in Processes : d \in Busy(q)}' = {q \in Processes : d \in Busy(q)}
    BY <1>1
  <1>3. QED BY <1>2 DEF Counted

\* Writing one copy leaves all the others.
LEMMA SetCopy ==
  ASSUME TypeOK, NEW p \in Processes, NEW d \in Deliveries, NEW j \in Jobs \cup {NoJob},
         job' = [job EXCEPT ![p][d] = j]
  PROVE  /\ job' \in [Processes -> [Deliveries -> Jobs \cup {NoJob}]]
         /\ OnlyCopy(p, d) /\ job'[p][d] = j
  BY DEF TypeOK, OnlyCopy, OthersKept

\* The edits the steps make to a copy leave it a copy.
LEMMA CopyEdits ==
  ASSUME NEW j \in Jobs
  PROVE  /\ [j EXCEPT !.stage = "posting"] \in Jobs
         /\ \A status \in Statuses : j.attempts < MaxAttempts =>
              [j EXCEPT !.stage = "outcome", !.status = status, !.attempts = @ + 1] \in Jobs
         /\ j.age < JobTimeout => [j EXCEPT !.age = @ + 1] \in Jobs
  <1>1. MaxAttempts \in Nat /\ JobTimeout \in Nat
    BY WebhooksAssumption
  <1>2. [j EXCEPT !.stage = "posting"] \in Jobs
    BY DEF Jobs
  <1>3. ASSUME NEW status \in Statuses, j.attempts < MaxAttempts
        PROVE  [j EXCEPT !.stage = "outcome", !.status = status, !.attempts = @ + 1] \in Jobs
    <2>1. j.attempts + 1 \in 0..MaxAttempts
      BY <1>1, <1>3 DEF Jobs
    <2>2. QED BY <1>3, <2>1, Zenon DEF Jobs
  <1>4. ASSUME j.age < JobTimeout
        PROVE  [j EXCEPT !.age = @ + 1] \in Jobs
    BY <1>1, <1>4 DEF Jobs
  <1>5. QED BY <1>2, <1>3, <1>4

\* The copies a step does not touch stay current.
LEMMA OtherCopies ==
  ASSUME IInv, NEW p \in Processes, NEW d \in Deliveries, job[p][d].stage # "none",
         OnlyCopy(p, d), \A e \in Deliveries \ {d} : row'[e] = row[e],
         \A age \in Nat : Waits(job[p], age) => Waits(job'[p], age)
  PROVE  \A q \in Processes, e \in Deliveries \ sleptOn :
           job'[q][e].stage # "none" /\ (q # p \/ e # d) => Current(job'[q], e, row'[e])
  <1> SUFFICES ASSUME NEW q \in Processes, NEW e \in Deliveries \ sleptOn,
                      job'[q][e].stage # "none", q # p \/ e # d
               PROVE  Current(job'[q], e, row'[e])
    OBVIOUS
  <1>1. CASE q # p
    <2>1. job'[q] = job[q]
      BY <1>1 DEF OnlyCopy, OthersKept
    <2>2. e # d
      BY <1>1, <2>1 DEF IInv, Apart
    <2>3. QED BY <2>1, <2>2, CopyKept
  <1>2. CASE q = p
    <2>1. e # d /\ row'[e] = row[e] /\ job'[p][e] = job[p][e]
      BY <1>2 DEF OnlyCopy
    <2>2. Current(job[p], e, row[e])
      BY <1>2, <2>1 DEF IInv, CopiesAreCurrent
    <2>3. row[e].age \in Nat
      <3>1. row[e].age \in 0..(StaleAfter + 1) /\ StaleAfter \in Nat
        BY RowType, WebhooksAssumption DEF IInv
      <3>2. QED BY <3>1
    <2>4. Current(job'[p], e, row[e])
      BY <2>1, <2>2, <2>3 DEF Current
    <2>5. QED BY <1>2, <2>1, <2>4
  <1>3. QED BY <1>1, <1>2

\* No step that only drops copies brings two holders together.
LEMMA ApartKept ==
  ASSUME IInv, sleptOn \subseteq sleptOn',
         \A q \in Processes, e \in Deliveries :
           job'[q][e].stage # "none" => job[q][e].stage # "none"
  PROVE  Apart'
  BY DEF IInv, Apart

\* A free worker takes a row from the batch and begins to post it.
LEMMA FeedStep ==
  ASSUME IInv, NEW p \in Processes, NEW d \in Deliveries, Feed(p, d)
  PROVE  IInv'
  <1>1. TypeOK /\ AttemptsLeft /\ Feeders /\ Apart /\ AtMostWorkers
    BY DEF IInv
  <1>2. /\ UNCHANGED <<row, asleep, disturbed, acked, lost, sleptOn>>
        /\ d \in BatchedIn(job[p]) /\ Cardinality(BusyIn(job[p])) < Workers
        /\ process[p].poller = "feeding" /\ Alive(p)
        /\ started' = [started EXCEPT ![d] = @ + 1]
    BY BatchedBusy DEF Feed, Polling
  <1>3. job[p][d].stage = "batched" /\ job[p][d] \in Jobs
    BY <1>1, <1>2, CopyType DEF BatchedIn
  <1> DEFINE j == [job[p][d] EXCEPT !.stage = "posting"]
  <1>4. j \in Jobs /\ j.stage = "posting" /\ j.attempts = job[p][d].attempts /\ j.age = job[p][d].age
    BY <1>3, CopyEdits DEF Jobs
  <1>5. job' = [job EXCEPT ![p][d] = j]
    BY DEF Feed
  <1> HIDE DEF j
  <1>6. /\ job' \in [Processes -> [Deliveries -> Jobs \cup {NoJob}]]
        /\ OnlyCopy(p, d) /\ job'[p][d] = j
    BY <1>1, <1>4, <1>5, SetCopy
  <1>7. /\ BatchedIn(job'[p]) = BatchedIn(job[p]) \ {d}
        /\ BusyIn(job'[p]) = BusyIn(job[p]) \cup {d}
        /\ \A a \in Int : YoungIn(job'[p], a) \subseteq YoungIn(job[p], a) \cup {d}
    BY <1>4, <1>6 DEF BatchedIn, BusyIn, YoungIn, OnlyCopy
  <1>8. /\ process' \in [Processes -> ProcessStates]
        /\ process'[p].poller = (IF Batched(p) = {d} THEN "ticker" ELSE "feeding")
        /\ process'[p].status = process[p].status
        /\ \A q \in Processes \ {p} : process'[q] = process[q]
    <2>1. PollerGoesTo(p, IF Batched(p) = {d} THEN "ticker" ELSE "feeding")
      BY DEF Feed
    <2>2. QED BY <1>1, <2>1, ProcessType
  <1>9. TypeOK'
    BY <1>1, <1>2, <1>6, <1>8 DEF TypeOK
  <1>10. LossesAreDisturbances' /\ DeliveredWasAcked'
    BY <1>2 DEF IInv, LossesAreDisturbances, DeliveredWasAcked
  <1>11. AttemptsLeft' /\ AnswerSeen'
    BY SMTT(30), <1>2, <1>3, <1>4, <1>6
       DEF IInv, AttemptsLeft, AnswerSeen, OnlyCopy, OthersKept
  <1>12. Feeders'
    <2>1. ASSUME NEW q \in Processes, q # p
          PROVE  /\ process'[q].poller # "feeding" => BatchedIn(job'[q]) = {}
                 /\ process'[q].status \in {"stopped", "crashed"} =>
                      \A e \in Deliveries : job'[q][e].stage = "none"
      <3>1. job'[q] = job[q] /\ process'[q] = process[q]
        BY <1>6, <1>8, <2>1 DEF OnlyCopy, OthersKept
      <3>2. BatchedIn(job'[q]) = BatchedIn(job[q])
        BY <3>1
      <3>3. QED BY <1>1, <3>1, <3>2 DEF Feeders
    <2>2. process'[p].poller # "feeding" => BatchedIn(job'[p]) = {}
      BY <1>7, <1>8, BatchedBusy
    <2>3. process'[p].status \notin {"stopped", "crashed"}
      BY <1>2, <1>8 DEF Alive
    <2>4. QED BY <2>1, <2>2, <2>3 DEF Feeders
  <1>13. AtMostWorkers'
    <2>1. Cardinality(BusyIn(job'[p])) <= Workers
      <3>1. IsFiniteSet(BusyIn(job[p])) /\ Cardinality(BusyIn(job[p])) \in Nat
            /\ Workers \in Nat
        BY Counts, WebhooksAssumption
      <3>2. Cardinality(BusyIn(job[p]) \cup {d}) =
              IF d \in BusyIn(job[p]) THEN Cardinality(BusyIn(job[p]))
              ELSE Cardinality(BusyIn(job[p])) + 1
        BY <3>1, FS_AddElement
      <3>3. QED BY <1>2, <1>7, <3>1, <3>2
    <2>2. QED BY <1>1, <1>6, <2>1 DEF AtMostWorkers, OnlyCopy, OthersKept
  <1>14. Apart'
    BY <1>2, <1>3, <1>6, ApartKept DEF OnlyCopy, OthersKept
  <1>15. CopiesAreCurrent'
    <2>1. \A age \in Nat : Waits(job[p], age) => Waits(job'[p], age)
      BY <1>2, <1>7, WaitsFeed
    <2>2. ASSUME d \notin sleptOn
          PROVE  Current(job'[p], d, row'[d])
      <3>1. Current(job[p], d, row[d])
        BY <1>3, <2>2 DEF IInv, CopiesAreCurrent
      <3>2. /\ row[d].age \in Nat /\ row[d].age <= 2 * JobTimeout /\ row[d].status = "delivering"
            /\ job[p][d].age \in Nat /\ job[p][d].attempts = row[d].attempts /\ JobTimeout \in Nat
        <4>1. row[d].age \in Nat /\ job[p][d].age \in Nat /\ JobTimeout \in Nat
          <5>1. row[d].age \in 0..(StaleAfter + 1) /\ StaleAfter \in Nat /\ JobTimeout \in Nat
            BY <1>1, RowType, WebhooksAssumption
          <5>2. job[p][d].age \in 0..JobTimeout
            BY <1>3 DEF Jobs
          <5>3. QED BY <5>1, <5>2
        <4>2. QED BY <1>3, <3>1, <4>1 DEF Current, Waits
      <3>3. row[d].age <= 2 * JobTimeout + job[p][d].age
        BY <3>2
      <3>4. QED BY <1>2, <1>4, <1>6, <3>2, <3>3 DEF Current
    <2>3. \A q \in Processes, e \in Deliveries \ sleptOn :
            job'[q][e].stage # "none" /\ (q # p \/ e # d) => Current(job'[q], e, row'[e])
      BY <1>2, <1>3, <1>6, <2>1, OtherCopies
    <2>4. QED BY <1>2, <2>2, <2>3 DEF CopiesAreCurrent
  <1>16. AttemptsAreCounted'
    <2> SUFFICES ASSUME NEW e \in Deliveries \ sleptOn PROVE Counted(e)'
      BY <1>2 DEF AttemptsAreCounted, Counted
    <2>1. Counted(e)
      BY DEF IInv, AttemptsAreCounted, Counted
    <2>2. CASE e # d
      BY <1>1, <1>2, <1>6, <2>1, <2>2, CountKept DEF OnlyCopy, OthersKept, TypeOK
    <2>3. CASE e = d
      <3>1. \A q \in Processes : d \notin Busy(q)
        BY <1>1, <1>3, <2>3 DEF Apart, Busy
      <3>2. Cardinality({q \in Processes : d \in Busy(q)}) = 0
        BY <1>1, <2>3, <3>1, BusyOnes
      <3>3. d \in Busy(p)'
        BY <1>4, <1>6 DEF Busy
      <3>4. Cardinality({q \in Processes : d \in Busy(q)})' = 1
        <4>1. {q \in Processes : d \in Busy(q)}' = {p}
          BY <1>6, <3>1, <3>3 DEF Busy, OnlyCopy, OthersKept
        <4>2. QED BY <4>1, FS_Singleton
      <3>5. started[d] \in Nat /\ row[d].attempts \in Int /\ lost[d] \in Int
        BY <1>1 DEF TypeOK, Rows
      <3>6. started'[d] = started[d] + 1 /\ row'[d] = row[d] /\ lost'[d] = lost[d]
        BY <1>1, <1>2 DEF TypeOK
      <3>7. QED BY <2>1, <2>3, <3>2, <3>4, <3>5, <3>6 DEF Counted
    <2>4. QED BY <2>2, <2>3
  <1>17. QED BY <1>9, <1>10, <1>11, <1>12, <1>13, <1>14, <1>15, <1>16 DEF IInv

\* An attempt is decided: the three ways deliver ends.
Decided(p, d, status) ==
  /\ Working(p, d, "posting")
  /\ Decide(p, d, status)
  /\ UNCHANGED <<row, process, asleep, disturbed, started, lost, sleptOn>>
  /\ acked' \in SUBSET Deliveries
  /\ acked \subseteq acked'
  /\ status \in {"delivered", "dead", "failed"}
  /\ status = "delivered" => d \in acked'
  /\ status = "failed" => job[p][d].attempts + 1 < MaxAttempts

\* The three ways in which a post ends have one shape.
LEMMA Decisions ==
  ASSUME IInv, NEW p \in Processes, NEW d \in Deliveries,
         PostSucceeds(p, d) \/ PostFails(p, d) \/ Park(p, d)
  PROVE  \E status : Decided(p, d, status)
  <1>1. acked \in SUBSET Deliveries
    BY DEF IInv, TypeOK
  <1>2. CASE PostSucceeds(p, d)
    BY <1>1, <1>2 DEF PostSucceeds, Decided
  <1>3. CASE PostFails(p, d)
    <2>1. CASE job[p][d].attempts + 1 >= MaxAttempts
      BY <1>1, <1>3, <2>1 DEF PostFails, RecordFailure, Decided, history
    <2>2. CASE ~(job[p][d].attempts + 1 >= MaxAttempts)
      <3>1. job[p][d].stage = "posting"
        BY <1>3 DEF PostFails, Working
      <3>2. job[p][d].attempts \in 0..MaxAttempts /\ MaxAttempts \in Nat
        BY <3>1, CopyType, WebhooksAssumption DEF IInv
      <3>3. job[p][d].attempts + 1 < MaxAttempts
        BY <2>2, <3>2
      <3>4. QED BY <1>1, <1>3, <2>2, <3>3 DEF PostFails, RecordFailure, Decided, history
    <2>3. QED BY <2>1, <2>2
  <1>4. CASE Park(p, d)
    BY <1>1, <1>4 DEF Park, Decided, history
  <1>5. QED BY <1>2, <1>3, <1>4

\* The end of a post, whichever it is, keeps the invariant.
LEMMA DecideStep ==
  ASSUME IInv, NEW p \in Processes, NEW d \in Deliveries, NEW status, Decided(p, d, status)
  PROVE  IInv'
  <1>1. TypeOK /\ AttemptsLeft /\ Feeders /\ Apart /\ AtMostWorkers
    BY DEF IInv
  <1>2. /\ UNCHANGED <<row, process, asleep, disturbed, started, lost, sleptOn>>
        /\ status \in {"delivered", "dead", "failed"} /\ Alive(p)
        /\ job[p][d].stage = "posting"
    BY DEF Decided, Working
  <1>3. job[p][d] \in Jobs /\ job[p][d].attempts < MaxAttempts
    BY <1>1, <1>2, CopyType DEF AttemptsLeft
  <1> DEFINE j == [job[p][d] EXCEPT !.stage = "outcome", !.status = status, !.attempts = @ + 1]
  <1>4. /\ j \in Jobs /\ j.stage = "outcome" /\ j.status = status
        /\ j.attempts = job[p][d].attempts + 1 /\ j.age = job[p][d].age
    <2>1. j \in Jobs
      BY <1>2, <1>3, CopyEdits DEF Statuses
    <2>2. QED BY <1>3, <2>1 DEF Jobs
  <1>5. job' = [job EXCEPT ![p][d] = j]
    BY DEF Decided, Decide
  <1> HIDE DEF j
  <1>6. /\ job' \in [Processes -> [Deliveries -> Jobs \cup {NoJob}]]
        /\ OnlyCopy(p, d) /\ job'[p][d] = j
    BY <1>1, <1>4, <1>5, SetCopy
  <1>7. /\ BatchedIn(job'[p]) = BatchedIn(job[p])
        /\ BusyIn(job'[p]) = BusyIn(job[p])
        /\ \A a \in Int : YoungIn(job'[p], a) \subseteq YoungIn(job[p], a)
    BY <1>2, <1>4, <1>6 DEF BatchedIn, BusyIn, YoungIn, OnlyCopy
  <1>8. TypeOK'
    BY <1>1, <1>2, <1>6 DEF TypeOK, Decided
  <1>9. LossesAreDisturbances' /\ DeliveredWasAcked'
    BY <1>2 DEF IInv, LossesAreDisturbances, DeliveredWasAcked, Decided
  <1>10. AttemptsLeft'
    BY <1>1, <1>2, <1>4, <1>6 DEF AttemptsLeft, OnlyCopy, OthersKept, Decided
  <1>11. AnswerSeen'
    BY <1>4, <1>6 DEF IInv, AnswerSeen, OnlyCopy, OthersKept, Decided
  <1>12. Feeders'
    <2>1. process[p].status \notin {"stopped", "crashed"}
      BY <1>2 DEF Alive
    <2>2. \A q \in Processes : process'[q] = process[q] /\ BatchedIn(job'[q]) = BatchedIn(job[q])
      BY <1>2, <1>6, <1>7 DEF OnlyCopy, OthersKept
    <2>3. \A q \in Processes : process[q].status \in {"stopped", "crashed"} => job'[q] = job[q]
      BY <1>6, <2>1 DEF OnlyCopy, OthersKept
    <2>4. QED BY <1>1, <2>2, <2>3 DEF Feeders
  <1>13. AtMostWorkers'
    BY <1>1, <1>6, <1>7 DEF AtMostWorkers, OnlyCopy, OthersKept
  <1>14. Apart'
    BY <1>2, <1>6, ApartKept DEF OnlyCopy, OthersKept
  <1>15. CopiesAreCurrent'
    <2>1. \A age \in Nat : Waits(job[p], age) => Waits(job'[p], age)
      BY <1>7, WaitsLess
    <2>2. ASSUME d \notin sleptOn
          PROVE  Current(job'[p], d, row'[d])
      <3>1. Current(job[p], d, row[d])
        BY <1>2, <2>2 DEF IInv, CopiesAreCurrent
      <3>2. QED BY <1>2, <1>4, <1>6, <3>1 DEF Current
    <2>3. \A q \in Processes, e \in Deliveries \ sleptOn :
            job'[q][e].stage # "none" /\ (q # p \/ e # d) => Current(job'[q], e, row'[e])
      BY <1>2, <1>6, <2>1, OtherCopies
    <2>4. QED BY <1>2, <2>2, <2>3 DEF CopiesAreCurrent
  <1>16. AttemptsAreCounted'
    <2> SUFFICES ASSUME NEW e \in Deliveries \ sleptOn PROVE Counted(e)'
      BY <1>2 DEF AttemptsAreCounted, Counted
    <2>1. Counted(e)
      BY DEF IInv, AttemptsAreCounted, Counted
    <2>2. \A q \in Processes : job'[q][e].stage \in {"posting", "outcome"} <=>
                               job[q][e].stage \in {"posting", "outcome"}
      BY <1>2, <1>4, <1>6 DEF OnlyCopy, OthersKept
    <2>3. QED BY <1>2, <2>1, <2>2, CountKept
  <1>17. QED BY <1>8, <1>9, <1>10, <1>11, <1>12, <1>13, <1>14, <1>15, <1>16 DEF IInv

\* A worker is done with d: the outcome is written, or the write failed.
LEMMA DoneStep ==
  ASSUME IInv, NEW p \in Processes, NEW d \in Deliveries, Persist(p, d) \/ PersistFails(p, d)
  PROVE  IInv'
  <1>1. TypeOK /\ AttemptsLeft /\ Feeders /\ Apart /\ AtMostWorkers
    BY DEF IInv
  <1>2. /\ UNCHANGED <<process, asleep, acked, started, sleptOn>>
        /\ Alive(p) /\ job[p][d].stage = "outcome"
        /\ job' = [job EXCEPT ![p][d] = NoJob]
    BY DEF Persist, PersistFails, Working, history
  <1>3. /\ job[p][d] \in Jobs /\ job[p][d].attempts \in 0..MaxAttempts
        /\ job[p][d].status \in {"delivered", "dead", "failed"}
        /\ job[p][d].status = "failed" => job[p][d].attempts < MaxAttempts
    BY <1>1, <1>2, CopyType DEF AttemptsLeft
  <1>4. NoJob.stage = "none"
    BY DEF NoJob
  <1>5. /\ job' \in [Processes -> [Deliveries -> Jobs \cup {NoJob}]]
        /\ OnlyCopy(p, d) /\ job'[p][d].stage = "none"
    BY <1>1, <1>2, <1>4, SetCopy
  <1>6. /\ BatchedIn(job'[p]) = BatchedIn(job[p])
        /\ BusyIn(job'[p]) = BusyIn(job[p]) \ {d}
        /\ \A a \in Int : YoungIn(job'[p], a) \subseteq YoungIn(job[p], a)
    BY <1>2, <1>5 DEF BatchedIn, BusyIn, YoungIn, OnlyCopy
  <1>7. ASSUME Persist(p, d)
        PROVE  /\ row' \in [Deliveries -> Rows]
               /\ row'[d].status = job[p][d].status /\ row'[d].attempts = job[p][d].attempts
               /\ \A e \in Deliveries \ {d} : row'[e] = row[e]
               /\ UNCHANGED <<disturbed, lost>>
    <2>1. UpdateAttempt(d, job[p][d].status, job[p][d].attempts, FALSE)
          /\ UNCHANGED <<disturbed, lost>>
      BY <1>7 DEF Persist, history
    <2>2. job[p][d].status \in Statuses
      BY <1>3 DEF Statuses
    <2>3. /\ row' \in [Deliveries -> Rows]
          /\ row'[d].status = job[p][d].status /\ row'[d].attempts = job[p][d].attempts
          /\ \A e \in Deliveries \ {d} : row'[e] = row[e]
      BY <1>1, <1>3, <2>1, <2>2, UpdateType
    <2>4. QED BY <2>1, <2>3
  <1>8. ASSUME PersistFails(p, d)
        PROVE  /\ UNCHANGED row /\ disturbed' \in 0..MaxDisturbances
               /\ disturbed' = disturbed + 1 /\ lost' \in [Deliveries -> Nat]
               /\ lost'[d] = lost[d] + 1
               /\ \A e \in Deliveries \ {d} : lost'[e] = lost[e]
    <2>1. /\ UNCHANGED row /\ Disturb("database") /\ lost' = [lost EXCEPT ![d] = @ + 1]
      BY <1>8 DEF PersistFails
    <2>2. disturbed' \in 0..MaxDisturbances /\ disturbed' = disturbed + 1
      BY <1>1, <2>1, WebhooksAssumption DEF Disturb, TypeOK
    <2>3. QED BY <1>1, <2>1, <2>2, WebhooksAssumption DEF TypeOK
  <1>9. row' \in [Deliveries -> Rows] /\ \A e \in Deliveries \ {d} : row'[e] = row[e]
    BY <1>1, <1>7, <1>8 DEF TypeOK
  <1>10. /\ LossesAreDisturbances' /\ disturbed' \in 0..MaxDisturbances
         /\ lost' \in [Deliveries -> 0..MaxDisturbances]
    <2>1. CASE Persist(p, d)
      BY <1>1, <1>7, <2>1 DEF IInv, LossesAreDisturbances, TypeOK
    <2>2. CASE PersistFails(p, d)
      <3>1. \A e \in Deliveries : lost[e] \in Nat /\ disturbed \in Nat /\ lost[e] <= disturbed
        BY <1>1 DEF IInv, LossesAreDisturbances, TypeOK
      <3>2. \A e \in Deliveries : lost'[e] \in Nat /\ lost'[e] <= disturbed'
        BY <1>8, <2>2, <3>1
      <3>3. QED BY <1>8, <2>2, <3>2, WebhooksAssumption DEF LossesAreDisturbances
    <2>3. QED BY <2>1, <2>2
  <1>11. TypeOK'
    BY <1>1, <1>2, <1>5, <1>9, <1>10 DEF TypeOK
  <1>12. DeliveredWasAcked' /\ AnswerSeen'
    <2>1. AnswerSeen'
      BY <1>2, <1>5 DEF IInv, AnswerSeen, OnlyCopy, OthersKept
    <2>2. row'[d].status = "delivered" => d \in acked
      BY <1>2, <1>7, <1>8 DEF IInv, AnswerSeen, DeliveredWasAcked
    <2>3. QED BY <1>2, <1>9, <2>1, <2>2 DEF IInv, DeliveredWasAcked
  <1>13. AttemptsLeft'
    <2>1. /\ row'[d].status \notin {"delivered", "dead"} => row'[d].attempts < MaxAttempts
          /\ row'[d].status = "absent" => row'[d].attempts = 0
      BY <1>1, <1>3, <1>7, <1>8 DEF AttemptsLeft
    <2>2. QED BY SMTT(30), <1>1, <1>5, <1>9, <2>1 DEF AttemptsLeft, OnlyCopy, OthersKept
  <1>14. Feeders'
    <2>1. process[p].status \notin {"stopped", "crashed"}
      BY <1>2 DEF Alive
    <2>2. \A q \in Processes : process'[q] = process[q] /\ BatchedIn(job'[q]) = BatchedIn(job[q])
      BY <1>2, <1>5, <1>6 DEF OnlyCopy, OthersKept
    <2>3. \A q \in Processes : process[q].status \in {"stopped", "crashed"} => job'[q] = job[q]
      BY <1>5, <2>1 DEF OnlyCopy, OthersKept
    <2>4. QED BY <1>1, <2>2, <2>3 DEF Feeders
  <1>15. AtMostWorkers'
    <2>1. Cardinality(BusyIn(job'[p])) <= Cardinality(BusyIn(job[p]))
          /\ Cardinality(BusyIn(job'[p])) \in Nat /\ Cardinality(BusyIn(job[p])) \in Nat
      BY <1>6, Counts, FS_Subset
    <2>2. QED BY <1>1, <1>5, <2>1, WebhooksAssumption DEF AtMostWorkers, OnlyCopy, OthersKept
  <1>16. Apart'
    BY <1>2, <1>5, ApartKept DEF OnlyCopy, OthersKept
  <1>17. CopiesAreCurrent'
    <2>1. \A age \in Nat : Waits(job[p], age) => Waits(job'[p], age)
      BY <1>6, WaitsLess
    <2>2. \A q \in Processes, e \in Deliveries \ sleptOn :
            job'[q][e].stage # "none" /\ (q # p \/ e # d) => Current(job'[q], e, row'[e])
      BY <1>2, <1>5, <1>9, <2>1, OtherCopies
    <2>3. QED BY <1>2, <1>5, <2>2 DEF CopiesAreCurrent
  <1>18. AttemptsAreCounted'
    <2> SUFFICES ASSUME NEW e \in Deliveries \ sleptOn PROVE Counted(e)'
      BY <1>2 DEF AttemptsAreCounted, Counted
    <2>1. Counted(e)
      BY DEF IInv, AttemptsAreCounted, Counted
    <2>2. CASE e # d
      BY <1>2, <1>5, <1>7, <1>8, <1>9, <2>1, <2>2, CountKept DEF OnlyCopy, OthersKept
    <2>3. CASE e = d
      <3>1. Cardinality({q \in Processes : d \in Busy(q)}) = 1
        <4>1. d \in Busy(p)
          BY <1>2 DEF Busy
        <4>2. QED BY <1>1, <2>3, <4>1, BusyOnes
      <3>2. Cardinality({q \in Processes : d \in Busy(q)})' = 0
        <4>1. {q \in Processes : d \in Busy(q)}' = {}
          BY <1>1, <1>2, <1>5, <2>3 DEF Busy, OnlyCopy, OthersKept, Apart
        <4>2. QED BY <4>1, FS_EmptySet
      <3>3. Current(job[p], d, row[d])
        BY <1>2, <2>3 DEF IInv, CopiesAreCurrent
      <3>4. job[p][d].attempts = row[d].attempts + 1
        BY <1>2, <3>3 DEF Current
      <3>5. row[d].attempts \in Int /\ lost[d] \in Int /\ started'[d] = started[d]
        BY <1>1, <1>2 DEF TypeOK, Rows
      <3>6. row'[d].attempts + lost'[d] = row[d].attempts + lost[d] + 1
        BY <1>7, <1>8, <3>4, <3>5
      <3>7. started[d] = row[d].attempts + lost[d] + 1
        BY <2>1, <2>3, <3>1 DEF Counted
      <3>8. started'[d] = row'[d].attempts + lost'[d] + 0
        <4>1. row'[d].attempts \in Int /\ lost'[d] \in Int
          BY <1>9, <1>10 DEF Rows
        <4>2. QED BY <3>5, <3>6, <3>7, <4>1
      <3>9. QED BY <2>3, <3>2, <3>8 DEF Counted
    <2>4. QED BY <2>2, <2>3
  <1>19. QED
    BY <1>10, <1>11, <1>12, <1>13, <1>14, <1>15, <1>16, <1>17, <1>18 DEF IInv

-----------------------------------------------------------------------------
(* Steps that change a process's whole set of copies.                      *)

\* The poller gives its batch up.
LEMMA HandBackStep ==
  ASSUME IInv, NEW p \in Processes, NEW d \in Deliveries, HandBack(p, d)
  PROVE  IInv'
  <1>1. TypeOK /\ AttemptsLeft /\ Feeders /\ Apart /\ AtMostWorkers
    BY DEF IInv
  <1>2. /\ UNCHANGED <<asleep, acked, started, lost, sleptOn>>
        /\ Alive(p) /\ job[p][d].stage = "batched" /\ process[p].status = "stopping"
        /\ PollerGoesTo(p, "returned")
        /\ job' = [job EXCEPT ![p] = [e \in Deliveries |->
                                  IF e \in Batched(p) THEN NoJob ELSE job[p][e]]]
    BY DEF HandBack, Polling, history, Batched
  <1>3. NoJob.stage = "none"
    BY DEF NoJob
  <1>4. /\ job' \in [Processes -> [Deliveries -> Jobs \cup {NoJob}]]
        /\ OthersKept(p)
        /\ \A e \in Deliveries : IF e \in Batched(p) THEN job'[p][e] = NoJob
                                 ELSE job'[p][e] = job[p][e]
    BY <1>1, <1>2 DEF TypeOK, OthersKept
  <1>5. \A e \in Deliveries : IF job[p][e].stage = "batched" THEN job'[p][e].stage = "none"
                              ELSE job'[p][e] = job[p][e]
    BY <1>3, <1>4 DEF Batched
  <1>6. BatchedIn(job'[p]) = {} /\ BusyIn(job'[p]) = BusyIn(job[p])
    BY <1>5 DEF BatchedIn, BusyIn
  <1>7. job[p][d].attempts \in 0..MaxAttempts /\ job[p][d].attempts < MaxAttempts
    BY <1>1, <1>2, CopyType DEF AttemptsLeft
  <1>8. /\ row' \in [Deliveries -> Rows] /\ \A e \in Deliveries \ {d} : row'[e] = row[e]
        /\ \/ row'[d] = row[d]
           \/ row'[d].status = "failed" /\ row'[d].attempts = job[p][d].attempts
    <2>1. CASE UpdateAttempt(d, "failed", job[p][d].attempts, TRUE)
      BY <1>1, <1>7, <2>1, UpdateType DEF Statuses
    <2>2. CASE UNCHANGED row
      BY <1>1, <2>2 DEF TypeOK
    <2>3. QED BY <2>1, <2>2 DEF HandBack
  <1>9. disturbed' \in 0..MaxDisturbances /\ disturbed <= disturbed'
    BY <1>1, DisturbType DEF HandBack
  <1>10. /\ process' \in [Processes -> ProcessStates]
         /\ process'[p].poller = "returned" /\ process'[p].status = process[p].status
         /\ \A q \in Processes \ {p} : process'[q] = process[q]
    BY <1>1, <1>2, ProcessType
  <1>11. TypeOK'
    BY <1>1, <1>2, <1>4, <1>8, <1>9, <1>10 DEF TypeOK
  <1>12. LossesAreDisturbances'
    <2>1. \A e \in Deliveries : lost[e] \in Int /\ lost'[e] = lost[e]
      BY <1>1, <1>2 DEF TypeOK
    <2>2. disturbed \in Int /\ disturbed' \in Int
      BY <1>1, <1>9 DEF TypeOK
    <2>3. QED BY <1>9, <2>1, <2>2 DEF IInv, LossesAreDisturbances
  <1>13. DeliveredWasAcked' /\ AnswerSeen'
    <2>1. DeliveredWasAcked'
      BY <1>2, <1>8 DEF IInv, DeliveredWasAcked
    <2>2. AnswerSeen'
      BY <1>2, <1>4, <1>5 DEF IInv, AnswerSeen, OthersKept
    <2>3. QED BY <2>1, <2>2
  <1>14. AttemptsLeft'
    <2>1. \A e \in Deliveries :
            /\ row'[e].status \notin {"delivered", "dead"} => row'[e].attempts < MaxAttempts
            /\ row'[e].status = "absent" => row'[e].attempts = 0
      BY <1>1, <1>7, <1>8 DEF AttemptsLeft
    <2>2. QED BY <1>1, <1>4, <1>5, <2>1 DEF AttemptsLeft, OthersKept
  <1>15. Feeders'
    BY <1>1, <1>2, <1>4, <1>6, <1>10 DEF Feeders, OthersKept
  <1>16. AtMostWorkers'
    BY <1>1, <1>4, <1>6 DEF AtMostWorkers, OthersKept
  <1>17. Apart'
    BY <1>2, <1>4, <1>5, ApartKept DEF OthersKept
  <1>18. CopiesAreCurrent'
    <2> SUFFICES ASSUME NEW q \in Processes, NEW e \in Deliveries \ sleptOn,
                        job'[q][e].stage # "none"
                 PROVE  Current(job'[q], e, row'[e])
      BY <1>2 DEF CopiesAreCurrent
    <2>1. CASE q # p
      <3>1. job'[q] = job[q]
        BY <1>4, <2>1 DEF OthersKept
      <3>2. e # d
        BY <1>1, <1>2, <2>1, <3>1 DEF Apart
      <3>3. QED BY <1>8, <3>1, <3>2, CopyKept
    <2>2. CASE q = p
      <3>1. job'[p][e] = job[p][e] /\ job[p][e].stage # "batched"
        BY <1>5, <2>2
      <3>2. row'[e] = row[e]
        BY <1>2, <1>8, <3>1
      <3>3. Current(job[p], e, row[e])
        BY <2>2, <3>1 DEF IInv, CopiesAreCurrent
      <3>4. QED BY <2>2, <3>1, <3>2, <3>3 DEF Current
    <2>3. QED BY <2>1, <2>2
  <1>19. AttemptsAreCounted'
    <2> SUFFICES ASSUME NEW e \in Deliveries \ sleptOn PROVE Counted(e)'
      BY <1>2 DEF AttemptsAreCounted, Counted
    <2>1. Counted(e)
      BY DEF IInv, AttemptsAreCounted, Counted
    <2>2. row'[e].attempts = row[e].attempts
      <3>1. CASE e # d
        BY <1>8, <3>1
      <3>2. CASE e = d
        <4>1. Current(job[p], d, row[d])
          BY <1>2, <3>2 DEF IInv, CopiesAreCurrent
        <4>2. job[p][d].attempts = row[d].attempts
          BY <1>2, <4>1 DEF Current
        <4>3. QED BY <1>8, <3>2, <4>2
      <3>3. QED BY <3>1, <3>2
    <2>3. \A q \in Processes : job'[q][e].stage \in {"posting", "outcome"} <=>
                               job[q][e].stage \in {"posting", "outcome"}
      BY <1>4, <1>5 DEF OthersKept
    <2>4. QED BY <1>2, <2>1, <2>2, <2>3, CountKept
  <1>20. QED
    BY <1>11, <1>12, <1>13, <1>14, <1>15, <1>16, <1>17, <1>18, <1>19 DEF IInv

\* A crash loses at most one attempt for each row in a worker's hands.
LEMMA CrashStep ==
  ASSUME IInv, NEW p \in Processes, Crash(p)
  PROVE  IInv'
  <1>1. TypeOK /\ AttemptsLeft /\ Feeders /\ Apart /\ AtMostWorkers
    BY DEF IInv
  <1>2. /\ UNCHANGED <<row, asleep, acked, started, sleptOn>> /\ Disturb("crash")
        /\ process' = [process EXCEPT ![p].status = "crashed"]
        /\ job' = [job EXCEPT ![p] = [d \in Deliveries |-> NoJob]]
        /\ lost' = [d \in Deliveries |-> IF d \in Busy(p) THEN lost[d] + 1 ELSE lost[d]]
    BY DEF Crash
  <1>3. NoJob.stage = "none"
    BY DEF NoJob
  <1>4. /\ job' \in [Processes -> [Deliveries -> Jobs \cup {NoJob}]]
        /\ OthersKept(p) /\ \A e \in Deliveries : job'[p][e].stage = "none"
    BY <1>1, <1>2, <1>3 DEF TypeOK, OthersKept
  <1>5. disturbed' \in 0..MaxDisturbances /\ disturbed' = disturbed + 1
    BY <1>1, <1>2, WebhooksAssumption DEF Disturb, TypeOK
  <1>6. \A e \in Deliveries :
          /\ lost[e] \in Nat /\ disturbed \in Nat /\ lost[e] <= disturbed
          /\ lost'[e] = IF e \in Busy(p) THEN lost[e] + 1 ELSE lost[e]
    BY <1>1, <1>2 DEF IInv, LossesAreDisturbances, TypeOK
  <1>7. \A e \in Deliveries : lost'[e] \in Nat /\ lost'[e] <= disturbed'
    BY <1>5, <1>6
  <1>8. LossesAreDisturbances' /\ lost' \in [Deliveries -> 0..MaxDisturbances]
    <2>1. \A e \in Deliveries : lost'[e] \in 0..MaxDisturbances
      BY <1>5, <1>7, WebhooksAssumption
    <2>2. DOMAIN lost' = Deliveries
      BY <1>2
    <2>3. lost' = [e \in Deliveries |-> lost'[e]]
      BY <1>2
    <2>4. QED BY <1>7, <2>1, <2>3 DEF LossesAreDisturbances
  <1>9. /\ process' \in [Processes -> ProcessStates]
        /\ process'[p].poller = process[p].poller /\ process'[p].status = "crashed"
        /\ \A q \in Processes \ {p} : process'[q] = process[q]
    BY <1>1, <1>2, ProcessType
  <1>10. TypeOK'
    BY <1>1, <1>2, <1>4, <1>5, <1>8, <1>9 DEF TypeOK
  <1>11. DeliveredWasAcked' /\ AnswerSeen' /\ AttemptsLeft'
    BY <1>2, <1>4 DEF IInv, DeliveredWasAcked, AnswerSeen, AttemptsLeft, OthersKept
  <1>12. BatchedIn(job'[p]) = {} /\ BusyIn(job'[p]) = {}
    BY <1>4 DEF BatchedIn, BusyIn
  <1>13. Feeders'
    BY <1>1, <1>4, <1>9, <1>12 DEF Feeders, OthersKept
  <1>14. AtMostWorkers'
    <2>1. Cardinality(BusyIn(job'[p])) <= Workers
      <3>1. Cardinality(BusyIn(job'[p])) = 0 /\ Workers \in Nat
        BY <1>12, FS_EmptySet, WebhooksAssumption
      <3>2. QED BY <3>1
    <2>2. QED BY <1>1, <1>4, <2>1 DEF AtMostWorkers, OthersKept
  <1>15. Apart'
    BY <1>2, <1>4, ApartKept DEF OthersKept
  <1>16. CopiesAreCurrent'
    BY <1>2, <1>4, CopyKept DEF CopiesAreCurrent, OthersKept
  <1>17. AttemptsAreCounted'
    <2> SUFFICES ASSUME NEW e \in Deliveries \ sleptOn PROVE Counted(e)'
      BY <1>2 DEF AttemptsAreCounted, Counted
    <2>1. Counted(e)
      BY DEF IInv, AttemptsAreCounted, Counted
    <2>2. CASE e \notin Busy(p)
      <3>1. \A q \in Processes : job'[q][e].stage \in {"posting", "outcome"} <=>
                                 job[q][e].stage \in {"posting", "outcome"}
        BY <1>4, <2>2 DEF OthersKept, Busy
      <3>2. QED BY <1>2, <1>6, <2>1, <2>2, <3>1, CountKept
    <2>3. CASE e \in Busy(p)
      <3>1. Cardinality({q \in Processes : e \in Busy(q)}) = 1
        BY <1>1, <2>3, BusyOnes
      <3>2. Cardinality({q \in Processes : e \in Busy(q)})' = 0
        <4>1. {q \in Processes : e \in Busy(q)}' = {}
          BY <1>1, <1>4, <2>3 DEF Busy, OthersKept, Apart
        <4>2. QED BY <4>1, FS_EmptySet
      <3>3. row[e].attempts \in Int /\ lost'[e] = lost[e] + 1
        BY <1>1, <1>6, <2>3 DEF TypeOK, Rows
      <3>4. QED BY <1>2, <1>6, <2>1, <3>1, <3>2, <3>3 DEF Counted
    <2>4. QED BY <2>2, <2>3
  <1>18. QED
    BY <1>8, <1>10, <1>11, <1>13, <1>14, <1>15, <1>16, <1>17 DEF IInv

\* A batch has at most two rows for each worker.
LEMMA BatchSize ==
  ASSUME NEW S \in Claimable
  PROVE  S \subseteq Due /\ Cardinality(S) \in Nat /\ Cardinality(S) <= 2 * Workers
  <1>1. S \subseteq Due /\ Cardinality(S) = Min({2 * Workers, Cardinality(Due)})
    BY DEF Claimable
  <1>2. IsFiniteSet(Due) /\ Cardinality(Due) \in Nat
    <2>1. IsFiniteSet(Deliveries) /\ Due \in SUBSET Deliveries
      BY WebhooksAssumption DEF Due
    <2>2. IsFiniteSet(Due)
      BY <2>1, FS_Subset
    <2>3. QED BY <2>2, FS_CardinalityType
  <1> DEFINE a == 2 * Workers
             b == Cardinality(Due)
             T == {a, b}
  <1>3. a \in Nat /\ b \in Nat
    BY <1>2, WebhooksAssumption
  <1> HIDE DEF a, b
  <1>4. \E x \in T : \A y \in T : x =< y
    <2>1. CASE a <= b
      BY <1>3, <2>1
    <2>2. CASE b <= a
      BY <1>3, <2>2
    <2>3. QED BY <1>3, <2>1, <2>2
  <1>5. Min(T) \in T /\ \A y \in T : Min(T) =< y
    <2> HIDE DEF T
    <2>1. QED BY <1>4 DEF Min
  <1>6. Min(T) \in Nat /\ Min(T) <= a
    BY <1>3, <1>5
  <1>7. QED BY <1>1, <1>6 DEF a, b

\* ClaimDue takes only rows that are due, which no awake process holds.
LEMMA ClaimStep ==
  ASSUME IInv, NEW p \in Processes, ClaimDue(p)
  PROVE  IInv'
  <1>1. TypeOK /\ AttemptsLeft /\ Feeders /\ Apart /\ AtMostWorkers /\ DeliveredWasAcked
    BY DEF IInv
  <1>2. /\ UNCHANGED <<asleep, disturbed, acked, started, lost, sleptOn>>
        /\ process[p].poller = "claiming" /\ process[p].status = "running"
    BY DEF ClaimDue, Polling, history
  <1>3. PICK S \in Claimable :
          /\ Flip(S)
          /\ job' = [job EXCEPT ![p] =
                       [d \in Deliveries |->
                          IF d \in S
                          THEN [stage |-> "batched", status |-> "delivering",
                                attempts |-> row[d].attempts, age |-> 0]
                          ELSE job[p][d]]]
          /\ PollerGoesTo(p, IF S = {} THEN "ticker" ELSE "feeding")
    BY DEF ClaimDue
  <1>4. S \subseteq Due /\ Cardinality(S) \in Nat /\ Cardinality(S) <= 2 * Workers
    BY BatchSize
  <1>5. RowsRequeued /\ row' \in [Deliveries -> Rows]
    BY <1>1, <1>3, TableSteps, RequeuedType
  <1>6. \A d \in S : /\ d \in Deliveries /\ row[d].status \in {"pending", "failed"}
                     /\ row'[d].status = "delivering" /\ row'[d].age = 0
                     /\ row'[d].attempts = row[d].attempts
    BY <1>1, <1>3, <1>4 DEF Due, Flip, TypeOK, Rows
  <1>7. \A d \in Deliveries \ S : row'[d] = row[d]
    BY <1>3 DEF Flip
  <1>8. /\ job' \in [Processes -> [Deliveries -> Jobs \cup {NoJob}]]
        /\ OthersKept(p)
        /\ \A d \in Deliveries \ S : job'[p][d] = job[p][d]
        /\ \A d \in S : /\ job'[p][d].stage = "batched" /\ job'[p][d].age = 0
                        /\ job'[p][d].attempts = row[d].attempts
    <2> DEFINE new(d) == [stage |-> "batched", status |-> "delivering",
                          attempts |-> row[d].attempts, age |-> 0]
    <2>1. \A d \in Deliveries : new(d) \in Jobs
      <3>1. \A d \in Deliveries : row[d].attempts \in 0..MaxAttempts
        BY <1>1 DEF TypeOK, Rows
      <3>2. 0 \in 0..JobTimeout
        BY WebhooksAssumption
      <3>3. QED BY <3>1, <3>2 DEF Jobs, Statuses
    <2>2. \A d \in S : /\ new(d).stage = "batched" /\ new(d).age = 0
                       /\ new(d).attempts = row[d].attempts
      OBVIOUS
    <2>3. job' = [job EXCEPT ![p] =
                    [d \in Deliveries |-> IF d \in S THEN new(d) ELSE job[p][d]]]
      BY <1>3
    <2> HIDE DEF new
    <2>4. S \subseteq Deliveries
      BY <1>6
    <2>5. [d \in Deliveries |-> IF d \in S THEN new(d) ELSE job[p][d]]
            \in [Deliveries -> Jobs \cup {NoJob}]
      BY <1>1, <2>1 DEF TypeOK
    <2>6. QED BY <1>1, <2>2, <2>3, <2>4, <2>5 DEF TypeOK, OthersKept
  <1>9. BatchedIn(job[p]) = {}
    BY <1>1, <1>2 DEF Feeders
  <1>10. BatchedIn(job'[p]) = S /\ BusyIn(job'[p]) \subseteq BusyIn(job[p])
    BY <1>6, <1>8, <1>9 DEF BatchedIn, BusyIn
  <1>11. /\ process' \in [Processes -> ProcessStates]
         /\ process'[p].poller = (IF S = {} THEN "ticker" ELSE "feeding")
         /\ process'[p].status = process[p].status
         /\ \A q \in Processes \ {p} : process'[q] = process[q]
    BY <1>1, <1>3, ProcessType
  <1>12. TypeOK'
    BY <1>1, <1>2, <1>5, <1>8, <1>11 DEF TypeOK
  <1>13. \A q \in Processes, d \in S \ sleptOn : job[q][d].stage = "none"
    BY <1>6, HeldRow
  <1>14. LossesAreDisturbances' /\ DeliveredWasAcked'
    BY <1>1, <1>2, <1>5, Requeues DEF IInv, LossesAreDisturbances
  <1>15. AttemptsLeft'
    <2>1. \A d \in Deliveries :
            /\ row'[d].status \notin {"delivered", "dead"} => row'[d].attempts < MaxAttempts
            /\ row'[d].status = "absent" => row'[d].attempts = 0
      BY <1>1, <1>2, <1>5, Requeues
    <2>2. \A d \in S : row[d].attempts < MaxAttempts
      BY <1>1, <1>6 DEF AttemptsLeft
    <2>3. QED BY <1>1, <1>8, <2>1, <2>2 DEF AttemptsLeft, OthersKept
  <1>16. AnswerSeen'
    BY <1>2, <1>8 DEF IInv, AnswerSeen, OthersKept
  <1>17. Feeders'
    <2>1. ASSUME NEW q \in Processes, q # p
          PROVE  /\ process'[q].poller # "feeding" => BatchedIn(job'[q]) = {}
                 /\ process'[q].status \in {"stopped", "crashed"} =>
                      \A e \in Deliveries : job'[q][e].stage = "none"
      <3>1. process'[q] = process[q] /\ job'[q] = job[q]
        BY <1>8, <1>11, <2>1 DEF OthersKept
      <3>2. QED BY <1>1, <3>1 DEF Feeders
    <2>2. process'[p].poller # "feeding" => BatchedIn(job'[p]) = {}
      BY <1>10, <1>11
    <2>3. process'[p].status \notin {"stopped", "crashed"}
      BY <1>2, <1>11
    <2>4. QED BY <2>1, <2>2, <2>3 DEF Feeders
  <1>18. AtMostWorkers'
    <2>1. Cardinality(BusyIn(job'[p])) <= Cardinality(BusyIn(job[p]))
          /\ Cardinality(BusyIn(job'[p])) \in Nat /\ Cardinality(BusyIn(job[p])) \in Nat
      BY <1>10, Counts, FS_Subset
    <2>2. QED BY <1>1, <1>8, <2>1, WebhooksAssumption DEF AtMostWorkers, OthersKept
  <1>19. Apart'
    <2> SUFFICES ASSUME NEW q \in Processes, NEW r \in Processes, NEW d \in Deliveries \ sleptOn,
                        job'[q][d].stage # "none", job'[r][d].stage # "none"
                 PROVE  q = r
      BY <1>2 DEF Apart
    <2>1. CASE d \in S
      BY <1>8, <1>13, <2>1 DEF OthersKept
    <2>2. CASE d \notin S
      BY <1>1, <1>8, <2>2 DEF OthersKept, Apart
    <2>3. QED BY <2>1, <2>2
  <1>20. CopiesAreCurrent'
    <2> SUFFICES ASSUME NEW q \in Processes, NEW d \in Deliveries \ sleptOn,
                        job'[q][d].stage # "none"
                 PROVE  Current(job'[q], d, row'[d])
      BY <1>2 DEF CopiesAreCurrent
    <2>1. CASE q # p
      <3>1. job'[q] = job[q]
        BY <1>8, <2>1 DEF OthersKept
      <3>2. d \notin S
        BY <1>13, <3>1
      <3>3. QED BY <1>7, <3>1, <3>2, CopyKept
    <2>2. CASE q = p /\ d \notin S
      <3>1. job'[p][d] = job[p][d] /\ row'[d] = row[d]
        BY <1>7, <1>8, <2>2
      <3>2. job[p][d].stage # "batched"
        BY <1>9 DEF BatchedIn
      <3>3. Current(job[p], d, row[d])
        BY <2>2, <3>1 DEF IInv, CopiesAreCurrent
      <3>4. QED BY <2>2, <3>1, <3>2, <3>3 DEF Current
    <2>3. CASE q = p /\ d \in S
      <3>1. YoungIn(job'[p], 0) = {}
        <4>1. \A e \in BusyIn(job'[p]) : job'[p][e].age \in Nat
          <5>1. \A e \in BusyIn(job'[p]) : job'[p][e] \in Jobs
            BY <1>8, StageOf DEF BusyIn
          <5>2. QED BY <5>1, WebhooksAssumption DEF Jobs
        <4>2. QED BY <4>1 DEF YoungIn
      <3>2. Cardinality(YoungIn(job'[p], 0)) = 0
        BY <3>1, FS_EmptySet
      <3>3. Waits(job'[p], 0)
        BY <1>4, <1>10, <3>2, WebhooksAssumption DEF Waits
      <3>4. QED BY <1>6, <1>8, <2>3, <3>3 DEF Current
    <2>4. QED BY <2>1, <2>2, <2>3
  <1>21. AttemptsAreCounted'
    <2> SUFFICES ASSUME NEW e \in Deliveries \ sleptOn PROVE Counted(e)'
      BY <1>2 DEF AttemptsAreCounted, Counted
    <2>1. Counted(e)
      BY DEF IInv, AttemptsAreCounted, Counted
    <2>2. row'[e].attempts = row[e].attempts
      BY <1>6, <1>7
    <2>3. \A q \in Processes : job'[q][e].stage \in {"posting", "outcome"} <=>
                               job[q][e].stage \in {"posting", "outcome"}
      BY <1>8, <1>13 DEF OthersKept
    <2>4. QED BY <1>2, <2>1, <2>2, <2>3, CountKept
  <1>22. QED
    BY <1>12, <1>14, <1>15, <1>16, <1>17, <1>18, <1>19, <1>20, <1>21 DEF IInv

-----------------------------------------------------------------------------
(* Time passes.                                                            *)

LEMMA TickStep ==
  ASSUME IInv, Tick
  PROVE  IInv'
  <1>1. TypeOK /\ AttemptsLeft /\ Feeders /\ Apart /\ AtMostWorkers
    BY DEF IInv
  <1>2. /\ \A p \in Processes \ asleep :
             /\ \A d \in Busy(p) : job[p][d].age < JobTimeout
             /\ Batched(p) # {} => Cardinality(Busy(p)) = Workers
        /\ row' = [d \in Deliveries |->
                     IF row[d].status = "delivering" /\ row[d].age <= StaleAfter
                     THEN [row[d] EXCEPT !.age = @ + 1] ELSE row[d]]
        /\ job' = [p \in Processes |-> [d \in Deliveries |->
                     IF d \in Busy(p) /\ p \notin asleep
                     THEN [job[p][d] EXCEPT !.age = @ + 1] ELSE job[p][d]]]
        /\ sleptOn' = sleptOn \cup {d \in Deliveries : Holders(d) \cap asleep # {}}
        /\ UNCHANGED <<process, asleep, disturbed, acked, started, lost>>
    BY DEF Tick
  <1>3. ASSUME NEW d \in Deliveries
        PROVE  /\ row'[d] \in Rows
               /\ row'[d].status = row[d].status /\ row'[d].attempts = row[d].attempts
               /\ row[d].status = "delivering" /\ row[d].age <= StaleAfter =>
                    row'[d].age = row[d].age + 1
    <2>1. row[d] \in Rows
      BY <1>1 DEF TypeOK
    <2>2. CASE row[d].status = "delivering" /\ row[d].age <= StaleAfter
      <3>1. row'[d] = [row[d] EXCEPT !.age = @ + 1]
        BY <1>2, <2>2
      <3>2. row'[d] \in Rows
        BY <2>1, <2>2, <3>1, RowEdits
      <3>3. /\ row'[d].status = row[d].status /\ row'[d].attempts = row[d].attempts
            /\ row'[d].age = row[d].age + 1
        BY <2>1, <3>1 DEF Rows
      <3>4. QED BY <3>2, <3>3
    <2>3. CASE ~(row[d].status = "delivering" /\ row[d].age <= StaleAfter)
      <3>1. row'[d] = row[d]
        BY <1>2, <2>3
      <3>2. QED BY <2>1, <2>3, <3>1
    <2>4. QED BY <2>2, <2>3
  <1>4. ASSUME NEW p \in Processes, NEW d \in Deliveries
        PROVE  /\ job'[p][d] \in Jobs \cup {NoJob} /\ job'[p][d].stage = job[p][d].stage
               /\ job[p][d].stage # "none" =>
                    /\ job'[p][d].status = job[p][d].status
                    /\ job'[p][d].attempts = job[p][d].attempts
               /\ d \in Busy(p) /\ p \notin asleep => job'[p][d].age = job[p][d].age + 1
    <2>1. CASE d \in Busy(p) /\ p \notin asleep
      <3>1. job'[p][d] = [job[p][d] EXCEPT !.age = @ + 1]
        BY <1>2, <2>1
      <3>2. job[p][d] \in Jobs
        BY <1>1, <2>1, CopyType DEF Busy
      <3>3. job[p][d].age < JobTimeout
        BY <1>2, <2>1
      <3>4. job'[p][d] \in Jobs
        BY <3>1, <3>2, <3>3, CopyEdits
      <3>5. QED BY <3>1, <3>2, <3>4 DEF Jobs
    <2>2. CASE ~(d \in Busy(p) /\ p \notin asleep)
      <3>1. job'[p][d] = job[p][d]
        BY <1>2, <2>2
      <3>2. QED BY <1>1, <2>2, <3>1, CopyType
    <2>3. QED BY <2>1, <2>2
  <1>5. /\ row' \in [Deliveries -> Rows]
        /\ job' \in [Processes -> [Deliveries -> Jobs \cup {NoJob}]]
    <2>1. row' = [d \in Deliveries |-> row'[d]]
      BY <1>2
    <2>2. job' = [p \in Processes |-> [d \in Deliveries |-> job'[p][d]]]
      BY <1>2
    <2>3. QED BY <1>3, <1>4, <2>1, <2>2
  <1>6. TypeOK'
    BY <1>1, <1>2, <1>5 DEF TypeOK
  <1>7. ASSUME NEW p \in Processes
        PROVE  BatchedIn(job'[p]) = BatchedIn(job[p]) /\ BusyIn(job'[p]) = BusyIn(job[p])
    BY <1>4 DEF BatchedIn, BusyIn
  <1>8. LossesAreDisturbances' /\ DeliveredWasAcked'
    BY <1>2, <1>3 DEF IInv, LossesAreDisturbances, DeliveredWasAcked
  <1>9. AttemptsLeft' /\ AnswerSeen'
    <2>1. \A p \in Processes, d \in Deliveries :
            job[p][d].stage \in {"batched", "posting", "outcome"} =>
              /\ job'[p][d].status = job[p][d].status
              /\ job'[p][d].attempts = job[p][d].attempts
      BY <1>4
    <2>2. AttemptsLeft'
      BY <1>1, <1>3, <1>4, <2>1 DEF AttemptsLeft
    <2>3. AnswerSeen'
      BY <1>2, <1>4, <2>1 DEF IInv, AnswerSeen
    <2>4. QED BY <2>2, <2>3
  <1>10. Feeders'
    <2>1. ASSUME NEW p \in Processes
          PROVE  /\ process'[p].poller # "feeding" => BatchedIn(job'[p]) = {}
                 /\ process'[p].status \in {"stopped", "crashed"} =>
                      \A d \in Deliveries : job'[p][d].stage = "none"
      <3>1. process'[p] = process[p] /\ BatchedIn(job'[p]) = BatchedIn(job[p])
        BY <1>2, <1>7
      <3>2. \A d \in Deliveries : job'[p][d].stage = job[p][d].stage
        BY <1>4
      <3>3. QED BY <1>1, <3>1, <3>2 DEF Feeders
    <2>2. QED BY <2>1 DEF Feeders
  <1>11. AtMostWorkers'
    BY <1>1, <1>7 DEF AtMostWorkers
  <1>12. sleptOn \subseteq sleptOn'
    BY <1>2
  <1>13. Apart'
    BY <1>4, <1>12, ApartKept
  <1>14. CopiesAreCurrent'
    <2> SUFFICES ASSUME NEW q \in Processes, NEW d \in Deliveries \ sleptOn',
                        job'[q][d].stage # "none"
                 PROVE  Current(job'[q], d, row'[d])
      BY DEF CopiesAreCurrent
    <2>1. d \in Deliveries \ sleptOn /\ job[q][d].stage # "none"
      BY <1>4, <1>12
    <2>2. q \notin asleep
      <3>1. q \in Holders(d)
        BY <1>1, <2>1, CopyType DEF Holders
      <3>2. QED BY <1>2, <3>1
    <2>3. /\ JobTimeout \in Nat /\ StaleAfter \in Nat /\ 3 * JobTimeout <= StaleAfter
      BY WebhooksAssumption
    <2>4. row[d].age \in Nat
      <3>1. row[d].age \in 0..(StaleAfter + 1)
        BY <1>1, RowType
      <3>2. QED BY <2>3, <3>1
    <2>5. /\ row[d].status = "delivering" /\ row[d].age <= 3 * JobTimeout
      BY <2>1, HeldRow
    <2>6. /\ row'[d].status = "delivering" /\ row'[d].age = row[d].age + 1
          /\ row'[d].attempts = row[d].attempts
      BY <1>3, <2>3, <2>4, <2>5
    <2>7. Current(job[q], d, row[d])
      BY <2>1 DEF IInv, CopiesAreCurrent
    <2>8. job'[q][d].stage = job[q][d].stage /\ job'[q][d].attempts = job[q][d].attempts
          /\ job[q][d].stage \in {"batched", "posting", "outcome"}
      BY <1>1, <1>4, <2>1, CopyType
    <2>9. CASE job[q][d].stage = "batched"
      <3>1. Waits(job[q], row[d].age) /\ job[q][d].attempts = row[d].attempts
        BY <2>7, <2>9 DEF Current
      <3>2. Batched(q) # {}
        BY <2>9 DEF Batched
      <3>3. BatchedIn(job[q]) # {} /\ Cardinality(BusyIn(job[q])) = Workers
        BY <1>2, <2>2, <3>2, BatchedBusy
      <3>4. \A e \in BusyIn(job[q]) : /\ job[q][e].age \in Nat /\ job[q][e].age < JobTimeout
                                      /\ job'[q][e].age = job[q][e].age + 1
        <4>1. \A e \in BusyIn(job[q]) : e \in Busy(q) /\ e \in Deliveries
          BY DEF Busy, BusyIn
        <4>2. \A e \in BusyIn(job[q]) : job[q][e].age \in 0..JobTimeout
          BY <1>1, CopyType DEF BusyIn
        <4>3. QED BY <1>2, <1>4, <2>2, <4>1, <4>2
      <3>5. Waits(job'[q], row[d].age + 1)
        BY <1>7, <2>4, <3>1, <3>3, <3>4, WaitsTick
      <3>6. QED BY <2>6, <2>8, <2>9, <3>1, <3>5 DEF Current
    <2>10. CASE job[q][d].stage \in {"posting", "outcome"}
      <3>1. d \in Busy(q)
        BY <2>1, <2>10 DEF Busy
      <3>2. job'[q][d].age = job[q][d].age + 1
        BY <1>4, <2>1, <2>2, <3>1
      <3>3. job[q][d].age \in Nat
        <4>1. job[q][d].age \in 0..JobTimeout
          BY <1>1, <2>1, CopyType
        <4>2. QED BY <2>3, <4>1
      <3>4. row[d].age <= 2 * JobTimeout + job[q][d].age
        BY <2>7, <2>10 DEF Current
      <3>5. row'[d].age <= 2 * JobTimeout + job'[q][d].age
        BY <2>3, <2>4, <2>6, <3>2, <3>3, <3>4
      <3>6. QED BY <2>6, <2>7, <2>8, <2>10, <3>5 DEF Current
    <2>11. QED BY <2>8, <2>9, <2>10
  <1>15. AttemptsAreCounted'
    <2> SUFFICES ASSUME NEW e \in Deliveries \ sleptOn' PROVE Counted(e)'
      BY DEF AttemptsAreCounted, Counted
    <2>1. Counted(e)
      BY <1>12 DEF IInv, AttemptsAreCounted, Counted
    <2>2. \A q \in Processes : job'[q][e].stage = job[q][e].stage
      BY <1>4
    <2>3. QED BY <1>2, <1>3, <2>1, <2>2, CountKept
  <1>16. QED
    BY <1>6, <1>8, <1>9, <1>10, <1>11, <1>13, <1>14, <1>15 DEF IInv

-----------------------------------------------------------------------------
(* The theorems.                                                           *)

LEMMA IInvInit == Init => IInv
  <1> SUFFICES ASSUME Init PROVE IInv
    OBVIOUS
  <1>1. TypeOK
    BY TypeInit
  <1>2. MaxAttempts \in Nat \ {0} /\ Workers \in Nat
    BY WebhooksAssumption
  <1>3. \A p \in Processes, d \in Deliveries : job[p][d].stage = "none"
    BY DEF Init, NoJob
  <1>4. LossesAreDisturbances /\ DeliveredWasAcked
    BY DEF Init, LossesAreDisturbances, DeliveredWasAcked
  <1>5. AttemptsLeft
    <2>1. \A d \in Deliveries : row[d].attempts = 0
      BY DEF Init
    <2>2. QED BY <1>2, <1>3, <2>1 DEF AttemptsLeft
  <1>6. AnswerSeen /\ Apart /\ CopiesAreCurrent
    BY <1>3 DEF AnswerSeen, Apart, CopiesAreCurrent
  <1>7. \A p \in Processes : BatchedIn(job[p]) = {} /\ BusyIn(job[p]) = {} /\ Busy(p) = {}
    BY <1>3 DEF BatchedIn, BusyIn, Busy
  <1>8. Feeders
    BY <1>3, <1>7 DEF Feeders
  <1>9. AtMostWorkers
    BY <1>2, <1>7, FS_EmptySet DEF AtMostWorkers
  <1>10. AttemptsAreCounted
    <2> SUFFICES ASSUME NEW d \in Deliveries PROVE Counted(d)
      BY DEF AttemptsAreCounted, Counted
    <2>1. {p \in Processes : d \in Busy(p)} = {}
      BY <1>7
    <2>2. Cardinality({p \in Processes : d \in Busy(p)}) = 0
      BY <2>1, FS_EmptySet
    <2>3. started[d] = 0 /\ row[d].attempts = 0 /\ lost[d] = 0
      BY DEF Init
    <2>4. QED BY <2>2, <2>3 DEF Counted
  <1>11. QED BY <1>1, <1>4, <1>5, <1>6, <1>8, <1>9, <1>10 DEF IInv

\* Every step keeps the invariant.
LEMMA IInvStep ==
  ASSUME IInv, [Next]_vars
  PROVE  IInv'
  <1>1. ASSUME NEW d \in Deliveries, Create(d) \/ BackoffDelay(d) PROVE IInv'
    BY <1>1, TableStep
  <1>2. ASSUME NEW p \in Processes, Poll(p) PROVE IInv'
    BY <1>2, SweepStep, ClaimStep, ClaimFailsStep, LifeStep, FeedStep, HandBackStep DEF Poll
  <1>3. ASSUME NEW p \in Processes, NEW d \in Deliveries, Deliver(p, d) PROVE IInv'
    BY <1>3, Decisions, DecideStep, DoneStep DEF Deliver
  <1>4. ASSUME NEW p \in Processes, Shutdown(p) \/ Stopped(p) \/ Crash(p) \/ Restart(p)
        PROVE  IInv'
    BY <1>4, LifeStep, CrashStep
  <1>5. ASSUME NEW p \in Processes, Stall(p) \/ Wake(p) PROVE IInv'
    BY <1>5, LifeStep
  <1>6. CASE UNCHANGED vars
    BY <1>6 DEF vars, IInv, TypeOK, LossesAreDisturbances, AttemptsLeft, AnswerSeen,
                DeliveredWasAcked, Feeders, AtMostWorkers, Apart, CopiesAreCurrent,
                AttemptsAreCounted, Busy
  <1>7. QED BY <1>1, <1>2, <1>3, <1>4, <1>5, <1>6, TickStep DEF Next

\* The inductive invariant holds in every reachable state.
THEOREM Invariance == Spec => []IInv
  <1>1. IInv /\ [Next]_vars => IInv'
    BY IInvStep
  <1>2. QED BY IInvInit, <1>1, PTL DEF Spec

\* Type correctness: among others, no attempt count passes MaxAttempts, also
\* when a process that slept writes an old copy over the row.
THEOREM TypeCorrect == Spec => []TypeOK
  <1>1. IInv => TypeOK
    BY DEF IInv
  <1>2. QED BY Invariance, <1>1, PTL

\* ClaimDue and ReleaseStale keep the processes apart: for every number of
\* processes and workers, a row whose holder did not sleep has that one holder,
\* and the janitor does not take it.
THEOREM SingleHolder == Spec => []OneHolder
  <1>1. IInv => OneHolder
    <2> SUFFICES ASSUME IInv, NEW d \in Deliveries \ sleptOn
                 PROVE  /\ Cardinality(Holders(d)) <= 1
                        /\ Holders(d) # {} => row[d].status = "delivering"
      BY DEF OneHolder
    <2>1. \A p \in Holders(d) : p \in Processes /\ job[p][d].stage # "none"
      BY CopyType DEF Holders, IInv
    <2>2. CASE Holders(d) = {}
      BY <2>2, FS_EmptySet
    <2>3. CASE Holders(d) # {}
      <3>1. PICK p : p \in Holders(d)
        BY <2>3
      <3>2. Holders(d) = {p}
        BY <2>1, <3>1 DEF IInv, Apart
      <3>3. Cardinality(Holders(d)) = 1
        BY <3>2, FS_Singleton
      <3>4. row[d].status = "delivering"
        BY <2>1, <3>1, HeldRow
      <3>5. QED BY <3>3, <3>4
    <2>4. QED BY <2>2, <2>3
  <1>2. QED BY Invariance, <1>1, PTL

\* RecordSuccess, RecordFailure and the unguarded UpdateAttempt: every attempt
\* is counted in the row, or was lost with a crash or a failed write.
THEOREM EveryAttemptCounted == Spec => []AttemptsAreCounted
  <1>1. IInv => AttemptsAreCounted
    BY DEF IInv
  <1>2. QED BY Invariance, <1>1, PTL

\* A row says delivered only if the endpoint answered 2xx, whatever copies
\* processes that slept write back.
THEOREM OnlyAcksDeliver == Spec => []DeliveredWasAcked
  <1>1. IInv => DeliveredWasAcked
    BY DEF IInv
  <1>2. QED BY Invariance, <1>1, PTL

\* No step takes a finished delivery back: whoever may write the row holds a
\* copy of it, and then it is marked delivering.
THEOREM FinishedForGood == Spec => FinishedStays
  <1> DEFINE Kept == \A d \in Deliveries \ sleptOn :
                       row[d].status \in {"delivered", "dead"} => row'[d] = row[d]
  <1>1. ASSUME IInv, [Next]_vars PROVE [Kept]_vars
    <2> SUFFICES ASSUME Next, NEW d \in Deliveries \ sleptOn,
                        row[d].status \in {"delivered", "dead"}
                 PROVE  row'[d] = row[d]
      BY <1>1
    <2>1. TypeOK /\ AttemptsLeft /\ row \in [Deliveries -> Rows]
      BY <1>1 DEF IInv, TypeOK
    <2>2. RowsRequeued => row'[d] = row[d]
      BY DEF RowsRequeued, Requeued, Stale
    <2>3. ASSUME NEW e \in Deliveries, NEW p \in Processes, job[p][e].stage # "none"
          PROVE  e # d
      BY <1>1, <2>3, HeldRow
    <2>4. ASSUME NEW e \in Deliveries, Create(e) \/ BackoffDelay(e) PROVE row'[d] = row[d]
      BY <2>1, <2>2, <2>4, TableSteps
    <2>5. ASSUME NEW p \in Processes, Poll(p) PROVE row'[d] = row[d]
      <3>1. CASE Sweep(p)
        BY <2>1, <2>2, <3>1, TableSteps DEF Sweep
      <3>2. CASE ClaimDue(p) \/ ClaimDueFails(p)
        BY <2>1, <2>2, <3>2, TableSteps DEF ClaimDue, ClaimDueFails
      <3>3. CASE PollerReturns(p)
        BY <3>3 DEF PollerReturns
      <3>4. ASSUME NEW e \in Deliveries, Feed(p, e) PROVE row'[d] = row[d]
        BY <3>4 DEF Feed
      <3>5. ASSUME NEW e \in Deliveries, HandBack(p, e) PROVE row'[d] = row[d]
        <4>1. e # d
          BY <2>3, <3>5 DEF HandBack, Batched
        <4>2. QED BY <2>1, <3>5, <4>1 DEF HandBack, UpdateAttempt
      <3>6. QED BY <2>5, <3>1, <3>2, <3>3, <3>4, <3>5 DEF Poll
    <2>6. ASSUME NEW p \in Processes, NEW e \in Deliveries, Deliver(p, e) PROVE row'[d] = row[d]
      <3>1. CASE Persist(p, e)
        <4>1. e # d
          BY <2>3, <3>1 DEF Persist, Working
        <4>2. QED BY <2>1, <3>1, <4>1 DEF Persist, UpdateAttempt
      <3>2. QED BY <2>6, <3>1 DEF Deliver, PostSucceeds, PostFails, Park, PersistFails
    <2>7. ASSUME NEW p \in Processes,
                 Shutdown(p) \/ Stopped(p) \/ Crash(p) \/ Restart(p) \/ Stall(p) \/ Wake(p)
          PROVE  row'[d] = row[d]
      BY <2>7 DEF Shutdown, Stopped, Crash, Restart, Stall, Wake
    <2>8. CASE Tick
      BY <2>8 DEF Tick
    <2>9. QED BY <2>4, <2>5, <2>6, <2>7, <2>8 DEF Next
  <1>2. QED BY Invariance, <1>1, PTL DEF Spec, FinishedStays

=============================================================================
