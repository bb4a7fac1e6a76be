------------------------------ MODULE Webhooks ------------------------------
(***************************************************************************)
(* Delivery of the webhook outbox by worker processes:                     *)
(* internal/webhook/dispatcher.go, internal/repository/webhook_repo.go and *)
(* internal/domain/webhook.go.                                             *)
(*                                                                         *)
(* Each process has one poller, which sweeps stale claims, claims a batch  *)
(* and feeds an unbuffered channel, and Workers goroutines that receive    *)
(* from it.  The processes share the table; a process keeps the rows it    *)
(* claimed in memory and writes them back without any guard.               *)
(*                                                                         *)
(* Time is a number of ticks: a job's context ends after JobTimeout, and a *)
(* claim is stale when the row was last written more than StaleAfter ago.  *)
(* Only a process that is suspended, or starved, lets its jobs run longer. *)
(***************************************************************************)
EXTENDS Integers, FiniteSets, FiniteSetsExt

CONSTANTS
  Deliveries,       \* outbox rows
  Processes,        \* worker processes
  Workers,          \* goroutines of a process
  MaxAttempts,      \* attempts before a delivery is dead
  JobTimeout,       \* RequestTimeout + 5s, in ticks
  StaleAfter,       \* staleClaimTimeout, in ticks
  Disturbances,     \* a subset of DisturbanceKinds: those that happen
  MaxDisturbances   \* bound: how many

DisturbanceKinds == {"database", "shutdown", "crash", "stall"}

\* The defaults are a 15s job and a 5 minute stale claim.  A row waits for a
\* free worker behind its batch: at most three jobs pass, its own included.
ASSUME WebhooksAssumption ==
  /\ IsFiniteSet(Deliveries)
  /\ Workers \in Nat \ {0}
  /\ MaxAttempts \in Nat \ {0}
  /\ JobTimeout \in Nat \ {0}
  /\ StaleAfter \in Nat
  /\ StaleAfter >= 3 * JobTimeout
  /\ Disturbances \subseteq DisturbanceKinds
  /\ MaxDisturbances \in Nat

VARIABLES
  row,        \* webhook_deliveries
  job,        \* the copies of rows each process holds
  process,    \* each process and its poller
  asleep,     \* processes that make no progress
  disturbed,  \* disturbances so far
  acked,      \* deliveries the endpoint answered 2xx (history)
  started,    \* attempts started for each delivery (history)
  lost,       \* attempts whose outcome was never written (history)
  sleptOn     \* rows whose holder slept for some time (history)

vars == <<row, job, process, asleep, disturbed, acked, started, lost, sleptOn>>
history == <<acked, started, lost, sleptOn>>

Statuses == {"absent", "pending", "delivering", "delivered", "failed", "dead"}

\* age: ticks since updated_at; due: next_attempt_at has come.
Rows == [status : Statuses, attempts : 0..MaxAttempts, due : BOOLEAN, age : 0..(StaleAfter + 1)]

\* batched: claimed, not yet received by a worker; posting: inside deliver;
\* outcome: the attempt is decided and about to be written.
Jobs == [stage : {"batched", "posting", "outcome"}, status : Statuses,
         attempts : 0..MaxAttempts, age : 0..JobTimeout]

NoJob == [stage |-> "none"]

\* poller: waiting for the ticker, about to claim, feeding a batch, returned.
ProcessStates ==
  [status : {"running", "stopping", "stopped", "crashed"},
   poller : {"ticker", "claiming", "feeding", "returned"}]

Started == [status |-> "running", poller |-> "ticker"]

Init ==
  /\ row = [d \in Deliveries |-> [status |-> "absent", attempts |-> 0, due |-> FALSE, age |-> 0]]
  /\ job = [p \in Processes |-> [d \in Deliveries |-> NoJob]]
  /\ process = [p \in Processes |-> Started]
  /\ asleep = {}
  /\ disturbed = 0
  /\ acked = {}
  /\ started = [d \in Deliveries |-> 0]
  /\ lost = [d \in Deliveries |-> 0]
  /\ sleptOn = {}

Batched(p) == {d \in Deliveries : job[p][d].stage = "batched"}
Busy(p) == {d \in Deliveries : job[p][d].stage \in {"posting", "outcome"}}
Alive(p) == process[p].status \in {"running", "stopping"} /\ p \notin asleep

\* A worker of p is at this stage with d.
Working(p, d, stage) == Alive(p) /\ job[p][d].stage = stage

Polling(p, at) == Alive(p) /\ process[p].poller = at
PollerGoesTo(p, at) == process' = [process EXCEPT ![p].poller = at]

Disturb(kind) ==
  /\ kind \in Disturbances
  /\ disturbed < MaxDisturbances
  /\ disturbed' = disturbed + 1
Undisturbed == UNCHANGED disturbed

-----------------------------------------------------------------------------
(* The table.                                                              *)

\* queueWebhook: NewWebhookDelivery, inserted by the payment's transaction.
Create(d) ==
  /\ row[d].status = "absent"
  /\ row' = [row EXCEPT ![d] = [status |-> "pending", attempts |-> 0, due |-> TRUE, age |-> 0]]
  /\ UNCHANGED <<job, process, asleep, disturbed, history>>

Due == {d \in Deliveries : row[d].status \in {"pending", "failed"} /\ row[d].due}

\* UpdateAttempt writes whatever the copy says, by id alone.
UpdateAttempt(d, status, attempts, due) ==
  row' = [row EXCEPT ![d] =
            [status |-> status, attempts |-> attempts, due |-> due, age |-> 0]]

\* The backoff of a failed delivery has passed.
BackoffDelay(d) ==
  /\ row[d].status = "failed"
  /\ ~row[d].due
  /\ row' = [row EXCEPT ![d].due = TRUE]
  /\ UNCHANGED <<job, process, asleep, disturbed, history>>

\* Mutant: a claim is stale one tick early.
StaleEarly(d) == row[d].status = "delivering" /\ row[d].age >= StaleAfter

Stale(d) == row[d].status = "delivering" /\ row[d].age > StaleAfter

-----------------------------------------------------------------------------
(* The poller.                                                             *)

\* Mutant: there is no janitor.
ReleaseStaleNever(p) == UNCHANGED row

\* The attempt count is left alone.
ReleaseStale(p) ==
  row' = [d \in Deliveries |->
            IF Stale(d)
            THEN [row[d] EXCEPT !.status = "failed", !.due = TRUE, !.age = 0]
            ELSE row[d]]

\* A tick: ReleaseStale, whose error is only logged, and on to the claim.
Sweep(p) ==
  /\ Polling(p, "ticker")
  /\ process[p].status = "running"
  /\ \/ ReleaseStale(p) /\ Undisturbed
     \/ UNCHANGED row /\ Disturb("database")
  /\ PollerGoesTo(p, "claiming")
  /\ UNCHANGED <<job, asleep, history>>

\* The rows one ClaimDue takes: SKIP LOCKED and the re-check of a locked row
\* make concurrent claims look like one after the other.
Claimable == {S \in SUBSET Due : Cardinality(S) = Min({2 * Workers, Cardinality(Due)})}

\* Mutant: the claim does not flip the status.
FlipNothing(S) == UNCHANGED row

Flip(S) ==
  row' = [d \in Deliveries |->
            IF d \in S THEN [row[d] EXCEPT !.status = "delivering", !.age = 0] ELSE row[d]]

ClaimDue(p) ==
  /\ Polling(p, "claiming")
  /\ process[p].status = "running"
  /\ \E S \in Claimable :
       /\ Flip(S)
       /\ job' = [job EXCEPT ![p] =
                    [d \in Deliveries |->
                       IF d \in S
                       THEN [stage |-> "batched", status |-> "delivering",
                             attempts |-> row[d].attempts, age |-> 0]
                       ELSE job[p][d]]]
       /\ PollerGoesTo(p, IF S = {} THEN "ticker" ELSE "feeding")
  /\ UNCHANGED <<asleep, disturbed, history>>

\* The claim fails, perhaps after it was committed: the rows stay claimed and
\* nobody has them.  So does a shutdown that cancels the statement.
ClaimDueFails(p) ==
  /\ Polling(p, "claiming")
  /\ Disturb("database")
  /\ UNCHANGED row \/ \E S \in Claimable : Flip(S)
  /\ PollerGoesTo(p, "ticker")
  /\ UNCHANGED <<job, asleep, history>>

\* jobs <- delivery: a worker is free to receive it and calls deliver.
Feed(p, d) ==
  /\ Polling(p, "feeding")
  /\ d \in Batched(p)
  /\ Cardinality(Busy(p)) < Workers
  /\ job' = [job EXCEPT ![p][d].stage = "posting"]
  /\ started' = [started EXCEPT ![d] = @ + 1]
  /\ PollerGoesTo(p, IF Batched(p) = {d} THEN "ticker" ELSE "feeding")
  /\ UNCHANGED <<row, asleep, disturbed, acked, lost, sleptOn>>

\* ctx.Done while a send is blocked: release hands this one row back, due at
\* once, and the poller returns.  The rest of the batch is dropped.
HandBack(p, d) ==
  /\ Polling(p, "feeding")
  /\ process[p].status = "stopping"
  /\ d \in Batched(p)
  /\ \/ UpdateAttempt(d, "failed", job[p][d].attempts, TRUE) /\ Undisturbed
     \/ UNCHANGED row /\ Disturb("database")
  /\ job' = [job EXCEPT ![p] = [e \in Deliveries |->
                                  IF e \in Batched(p) THEN NoJob ELSE job[p][e]]]
  /\ PollerGoesTo(p, "returned")
  /\ UNCHANGED <<asleep, history>>

\* ctx.Done at the top of the loop, or a statement that finds ctx cancelled.
PollerReturns(p) ==
  /\ Alive(p)
  /\ process[p].status = "stopping"
  /\ process[p].poller \in {"ticker", "claiming"}
  /\ PollerGoesTo(p, "returned")
  /\ UNCHANGED <<row, job, asleep, disturbed, history>>

-----------------------------------------------------------------------------
(* The workers: deliver, then persist.  They outlive a shutdown.           *)

Decide(p, d, status) ==
  job' = [job EXCEPT ![p][d] = [job[p][d] EXCEPT !.stage = "outcome", !.status = status,
                                                 !.attempts = @ + 1]]

\* The endpoint answers 2xx: RecordSuccess.
PostSucceeds(p, d) ==
  /\ Working(p, d, "posting")
  /\ Decide(p, d, "delivered")
  /\ acked' = acked \cup {d}
  /\ UNCHANGED <<row, process, asleep, disturbed, started, lost, sleptOn>>

\* Mutant: one attempt too many.
RecordFailureOffByOne(p, d) ==
  Decide(p, d, IF job[p][d].attempts >= MaxAttempts THEN "dead" ELSE "failed")

\* Mutant: a failure is taken for an answer.
RecordFailureAsSuccess(p, d) == Decide(p, d, "delivered")

RecordFailure(p, d) ==
  Decide(p, d, IF job[p][d].attempts + 1 >= MaxAttempts THEN "dead" ELSE "failed")

\* The merchant cannot be loaded, the secret not decrypted, the post fails or
\* is answered outside 2xx.
PostFails(p, d) ==
  /\ Working(p, d, "posting")
  /\ RecordFailure(p, d)
  /\ UNCHANGED <<row, process, asleep, disturbed, history>>

\* The merchant has no webhook_url: the delivery is parked.
Park(p, d) ==
  /\ Working(p, d, "posting")
  /\ Decide(p, d, "dead")
  /\ UNCHANGED <<row, process, asleep, disturbed, history>>

\* Mutant: the attempt is not counted.
PersistWithoutCount(p, d) ==
  /\ Working(p, d, "outcome")
  /\ UpdateAttempt(d, job[p][d].status, row[d].attempts, FALSE)
  /\ job' = [job EXCEPT ![p][d] = NoJob]
  /\ UNCHANGED <<process, asleep, disturbed, history>>

Persist(p, d) ==
  /\ Working(p, d, "outcome")
  /\ UpdateAttempt(d, job[p][d].status, job[p][d].attempts, FALSE)
  /\ job' = [job EXCEPT ![p][d] = NoJob]
  /\ UNCHANGED <<process, asleep, disturbed, history>>

\* The error is logged and the worker takes the next job.
PersistFails(p, d) ==
  /\ Working(p, d, "outcome")
  /\ Disturb("database")
  /\ job' = [job EXCEPT ![p][d] = NoJob]
  /\ lost' = [lost EXCEPT ![d] = @ + 1]
  /\ UNCHANGED <<row, process, asleep, acked, started, sleptOn>>

-----------------------------------------------------------------------------
(* The processes and the clock.                                            *)

Shutdown(p) ==
  /\ process[p].status = "running"
  /\ Disturb("shutdown")
  /\ process' = [process EXCEPT ![p].status = "stopping"]
  /\ UNCHANGED <<row, job, asleep, history>>

\* Run returns "stopped cleanly": the poller is back and the workers are done.
Stopped(p) ==
  /\ Alive(p)
  /\ process[p].status = "stopping"
  /\ process[p].poller = "returned"
  /\ Busy(p) = {}
  /\ process' = [process EXCEPT ![p].status = "stopped"]
  /\ UNCHANGED <<row, job, asleep, disturbed, history>>

Crash(p) ==
  /\ Alive(p)
  /\ Disturb("crash")
  /\ process' = [process EXCEPT ![p].status = "crashed"]
  /\ job' = [job EXCEPT ![p] = [d \in Deliveries |-> NoJob]]
  /\ lost' = [d \in Deliveries |-> IF d \in Busy(p) THEN lost[d] + 1 ELSE lost[d]]
  /\ UNCHANGED <<row, asleep, acked, started, sleptOn>>

Restart(p) ==
  /\ process[p].status \in {"stopped", "crashed"}
  /\ process' = [process EXCEPT ![p] = Started]
  /\ UNCHANGED <<row, job, asleep, disturbed, history>>

\* The process, or its machine, is suspended for as long as it may take.  One
\* that holds no row is merely slow.
Stall(p) ==
  /\ Alive(p)
  /\ Batched(p) \cup Busy(p) # {}
  /\ Disturb("stall")
  /\ asleep' = asleep \cup {p}
  /\ UNCHANGED <<row, job, process, history>>

\* It goes on where it was, with the rows it holds.
Wake(p) ==
  /\ p \in asleep
  /\ asleep' = asleep \ {p}
  /\ UNCHANGED <<row, job, process, disturbed, history>>

Holders(d) == {p \in Processes : job[p][d] # NoJob}

\* A job ends within its timeout, and a send does not wait for a free worker,
\* unless the process sleeps.  Only the age of a claim matters.
Tick ==
  /\ \A p \in Processes \ asleep :
       /\ \A d \in Busy(p) : job[p][d].age < JobTimeout
       /\ Batched(p) # {} => Cardinality(Busy(p)) = Workers
  /\ row' = [d \in Deliveries |->
               IF row[d].status = "delivering" /\ row[d].age <= StaleAfter
               THEN [row[d] EXCEPT !.age = @ + 1] ELSE row[d]]
  /\ job' = [p \in Processes |-> [d \in Deliveries |->
               IF d \in Busy(p) /\ p \notin asleep
               THEN [job[p][d] EXCEPT !.age = @ + 1] ELSE job[p][d]]]
  /\ sleptOn' = sleptOn \cup {d \in Deliveries : Holders(d) \cap asleep # {}}
  /\ UNCHANGED <<process, asleep, disturbed, acked, started, lost>>

Poll(p) ==
  \/ Sweep(p) \/ ClaimDue(p) \/ ClaimDueFails(p) \/ PollerReturns(p)
  \/ \E d \in Deliveries : Feed(p, d) \/ HandBack(p, d)

Deliver(p, d) ==
  PostSucceeds(p, d) \/ PostFails(p, d) \/ Park(p, d) \/ Persist(p, d) \/ PersistFails(p, d)

Next ==
  \/ \E d \in Deliveries : Create(d) \/ BackoffDelay(d)
  \/ \E p \in Processes : Poll(p) \/ \E d \in Deliveries : Deliver(p, d)
  \/ \E p \in Processes : Shutdown(p) \/ Stopped(p) \/ Crash(p) \/ Restart(p)
  \/ \E p \in Processes : Stall(p) \/ Wake(p)
  \/ Tick

Spec == Init /\ [][Next]_vars

\* Time passes, goroutines are scheduled and the worker is started again.
Fairness ==
  /\ WF_vars(Tick)
  /\ \A d \in Deliveries : WF_vars(BackoffDelay(d))
  /\ \A p \in Processes :
       /\ WF_vars(Poll(p))
       /\ WF_vars(Stopped(p) \/ Restart(p))
       /\ WF_vars(Wake(p))
       /\ \A d \in Deliveries : WF_vars(Deliver(p, d))

FairSpec == Spec /\ Fairness

-----------------------------------------------------------------------------
(* What must hold.                                                         *)

TypeOK ==
  /\ row \in [Deliveries -> Rows]
  /\ job \in [Processes -> [Deliveries -> Jobs \cup {NoJob}]]
  /\ process \in [Processes -> ProcessStates]
  /\ asleep \subseteq Processes
  /\ disturbed \in 0..MaxDisturbances
  /\ acked \subseteq Deliveries
  /\ started \in [Deliveries -> Nat]
  /\ lost \in [Deliveries -> 0..MaxDisturbances]
  /\ sleptOn \subseteq Deliveries

\* SKIP LOCKED and the stale timeout keep the processes apart: a claimed row
\* has one holder, is marked delivering for as long as it is held, and is not
\* taken for stale while its holder still waits or works.  Only a holder that
\* slept may find another one at its row.
OneHolder ==
  \A d \in Deliveries \ sleptOn :
    /\ Cardinality(Holders(d)) <= 1
    /\ Holders(d) # {} => row[d].status = "delivering"

\* A delivery counts as delivered only if the merchant's endpoint said so, even
\* when a process that slept writes what it remembers over the row.
DeliveredWasAcked ==
  \A d \in Deliveries : row[d].status = "delivered" => d \in acked

\* Every attempt is counted or was lost with a crash or a database error, so
\* the endpoint is called MaxAttempts times and once more for each loss.  (A
\* process that slept may write an old count over the row.)
AttemptsAreCounted ==
  \A d \in Deliveries \ sleptOn :
    started[d] = row[d].attempts + lost[d] + Cardinality({p \in Processes : d \in Busy(p)})

\* The unguarded UPDATE never takes a finished delivery back, unless its writer
\* slept past the stale timeout: then the merchant may be told once more.
FinishedStays ==
  [][\A d \in Deliveries \ sleptOn :
       row[d].status \in {"delivered", "dead"} => row'[d] = row[d]]_vars

\* "Kill the worker, lose no job": a queued event is delivered or parked dead,
\* also when a process sleeps with its claim, or takes a delivered row back.
NoJobIsLost ==
  \A d \in Deliveries :
    row[d].status = "pending" ~> row[d].status \in {"delivered", "dead"}

=============================================================================
