# Relay: a verification project

TLA+ models of Relay (`src/`), a service that accepts events over HTTP, stores a
delivery for each in PostgreSQL and delivers it to one destination with retries,
leases, fencing and dead letters. The modules say what the code does; TLC checks
them on small instances and TLAPS proves the main results for every value of the
constants.

## 1. The system

### Components, their state and their operations

| Component (under `src/src/`) | State | Operations |
| --- | --- | --- |
| `model.ts`, `deliveryPolicy.ts` | none | classify an answer, build and check the attempt record, state of a delivery from an attempt or a result |
| `deliveryEngine.ts` | ordinal counter, attempts of the run, retry schedule, deadline | one attempt with its timeout and its two permits, the retry loop |
| `adapters/postgres/deliveryRepository.ts` | tables `deliveries`, `delivery_attempts` | save, recordAttempt, claimPending, renewClaim, completeClaim, releaseClaim, retry / repair / terminate a dead letter |
| `adapters/postgres/intakeStore.ts` | tables `relay_events`, `deliveries` | accept (idempotent, with a route snapshot), savePending |
| `adapters/postgres/migrations.ts` | the schema | six migrations |
| `adapters/memoryPersistence.ts` | seven Maps of the same data, the clock of the process | the same two services |
| `services.ts` | none | the contract of both adapters |
| `deliverySupervisor.ts` | bounded queue, dispatch permits, set of running fibers | deliver, resumeClaimed, enqueueClaimed, dispatch |
| `deliveryAdmission.ts` | admission and attempt semaphores, counters | admit, withCapacity |
| `deliveryWorker.ts` | per job: the claim, a renewal fiber, an attempt fiber, `cancelled`, `result` | process |
| `reconciler.ts` | a mutex, the polling fiber | reconcileOnce |
| `eventIntake.ts` | none | accept |
| `deliveryOperations.ts` | none | status, list, retry, repair, terminate |
| `deliveryEvents.ts` | bounded PubSub | publish |
| `workerIdentity.ts` | the id of the process | none |
| `readiness.ts`, `runtime.ts`, `app/`, `main.node.ts` | ready flag, shutdown promise, scope of the layers | start (two entries), mark ready, shutdown, dispose |
| `incidentAnalyst.ts` | ring of 100 reports | analyze |
| `httpServer.ts`, `operationsApi.ts`, `admin*.ts`, `destinationClient.ts`, `configuration.ts`, `deliveryMetrics.ts`, `identifiers.ts`, `errors.ts` | none that matters to a delivery | I/O, decoding, counters |

### How they interact

A delivery enters through `EventIntake.accept` (the caller gets an acceptance) or
`DeliverySupervisor.deliver` (the caller waits for the result and holds an admission
permit). The intake store inserts it already **claimed**: owner, generation 1 and a
lease. The claim becomes a job in the supervisor's dropping queue; a stream pulls
chunks from the queue and starts a worker fiber per job under a dispatch permit. The
worker renews the lease once, then races a renewal loop against the attempts; each
attempt is stored by `recordAttempt` under the fence (owner, generation, running
lease). The first fiber that fails ends the job, which then releases its claim. Any
process's reconciler takes over pending deliveries that are due and have no owner or
an expired lease, with the next generation, and waits for them to finish. Operators
retry, repair or terminate dead letters through any process. Processes share nothing
but the tables.

Within a process a delivery passes four nested limits: the admission of its destination
and the global one, in one go; then, as a job, the queue and a dispatch permit; then for
each attempt a permit of its destination and, holding that, a global one. The HTTP
handlers look at the readiness first; a program that embeds the process calls the same
services without that look. A shutdown closes the readiness and then interrupts every
fiber there is.

### What is hard

Stale claims after leases expire under their holders, in one process or between two;
ordinals counted in memory from a value read at claim time; refused, lost or
half-heard statements between a remote effect and its record; queues and permits at
their limits while leases run on; callers, passes and processes that vanish between a
commit and the next step; a renewal that races the last attempt of its own job; a claim
statement whose snapshot is older than its locks; permits given back on every way out of
nested waits, in the middle of a shutdown; a deadline measured before a wait; three
clocks (server, worker wall clock, timers); the same truth table written four times.
`PROJECT.json` lists each hazard at its line, with the properties that cover it.

### What makes each component correct

* **Policy**: its copies agree, the schema accepts what the record accepts, a retry is
  neither early nor after a final answer.
* **Repository**: at most one claim of a delivery passes the fence, a claim once fenced
  out stays out, histories have no hole or repeated ordinal, CHECK constraints never trip,
  finished deliveries never change, takeovers wait for leases and due times, and all of it
  implements an abstract store without clocks. One thing a reader would expect does not
  hold: the primary key may refuse the rightful holder (finding 3).
* **Intake**: a key is accepted once, and everyone who is answered is answered by that
  acceptance.
* **Memory adapter**: its Maps agree with one another, and it keeps the promise of the
  same abstract store although its clock may step back.
* **Process**: no permit is lost or made up, nobody waits for ever, runs end in bounded
  time, admission keeps its promise of a place, and no call is let in while the process
  is torn down.
* **Processes together**: they use the repository as it allows, publish only what is stored,
  send only under a live claim, forget no claim, and every job and every claim moves on.

## 2. Modules

| Module | Models | |
| --- | --- | --- |
| `DeliveryPolicy` | `model.ts`, `deliveryPolicy.ts`, CASE and CHECK of the SQL | operators only |
| `DeliveryAttempt` | one attempt from the wire to both adapters and the caller | `attempt` run |
| `DeliveryTable` | the tables and each statement of the Postgres adapter | no `Next` of its own |
| `DeliveryStore` | the contract of `services.ts` | abstract specification |
| `DeliveryRepository` | any legal and any stale use of the statements | implements `DeliveryStore` |
| `ClaimStatement` | `claimPending` taken apart into snapshot and locks | extends and implements `DeliveryRepository` |
| `MemoryPersistence` | the Maps of the memory adapter and its operations | implements `DeliveryStore` |
| `Relay` | processes: supervisor, worker, reconciler, intake, operators | composes `DeliveryRepository`, implements it |
| `DeliveryEngine` | the runs of one process: schedule, timeouts, permits of attempts | no `Next` of its own |
| `RelayProcess` | one process from start to end: readiness, calls, admission, queue, jobs, shutdown | composes `DeliveryEngine` |
| `AcceptOnce` | `RelayIntakeStore.accept` as `services.ts` promises it | abstract specification |
| `IntakeStore` | the transaction of `intakeStore.ts`, one of many at a time | implements `AcceptOnce` |
| `DeliveryAttemptProofs` | | proofs over `DeliveryAttempt` and the policy |
| `DeliveryRepositoryProofs`, `ClaimStatementProofs` | | proofs over the tables, and that overlapping claim statements are covered by them |
| `MemoryPersistenceProofs`, `IntakeStoreProofs` | | proofs over the Maps and the intake transaction |
| `RelayProofs`, `RelayClaimProofs` | | proofs over the processes: what they do to the tables, and what they do with a claim |
| `RelayProcessProofs` | | proofs over one process |
| `MC*` | | values of the constants for TLC |

**State and actions.** `deliveries[d]` is a row (`standing` is `state, status,
dead_letter_reason`; `lease` is `lease_expires_at_ms`; `eligible` is
`next_eligible_at_ms`), `attempts` the rows of `delivery_attempts`, `now` the server's
`clock_timestamp()`. A statement is one step (but for the claim, below), enabled exactly when it returns a row; a
refusal changes nothing and is seen only by its caller. `held` (in
`DeliveryRepository`) collects every claim ever handed out together with its holder's
next ordinal, and any of them may be presented at any time: that is the paused worker
and the lost race in one variable. In `Relay` a job is one claim of one process with
the name of what its fiber does next as `phase`:

    claimed -> queued -> starting -> waiting -> sending -> observed -> publishing -> end
       |                   |            ^                     |  |
    rejected               |            +---- sleeping <------+  +-> dying
       |                   v                                           |
       +-> (release) <- releasing <- any executing phase              (release)

`queue` is the dropping queue, `chunk` what the dispatching stream has pulled,
`polling` the processes whose reconciler fiber lives. A pass's mutex is the condition
that it waits for no job (`PassJobs`); permits are counts of jobs in the phases that
hold them.

`IntakeStore` runs the transaction of `accept` for each of a set of requests, a caller's
repeats included. `phase[r]` says how far it is: `begun`, `inserted` (the event),
`stored` (the delivery), `taken` (the key was there), `ended`. An INSERT waits while
another open transaction holds the key (`Holders`); rows are seen after `Commit`, whose
answer may get lost. Rows of the tables are named by the request that inserted them. In
`Relay` every intake has a key of its own.

*The claim statement* is the one statement that is not a step. Under READ COMMITTED it
reads a snapshot and the clock, locks those rows whose newest version still meets the
WHERE clause, updates that version and returns it beside the **snapshot's** next ordinal.
`ClaimStatement` has the two steps: `BeginClaim` is the snapshot, everything else may happen
before `EndClaim`. (The clock is read with the snapshot; the code reads it right after.)
`DeliveryRepository` and `Relay` have one step for the statement, `TakeBatch`, at its last
lock, with the two readings left open: `at` is any past reading of the server's clock,
`next` any ordinals that do not lie ahead of the histories. That allows more than the code
does and nothing less, which is `KeepsToRepository` of `ClaimStatement`, checked and proved.
So a claim may come with an ordinal that is taken, in all three modules; its holder passes
the fence, its first attempt is refused by the primary key and its job fails
(`AttemptRefused`). `HolderOrdinalIsFree`, which says that this does not happen, is violated
(finding 3).

`MemoryPersistence` has a variable for each Map. An operation reads the clock and then
runs without a yield, so it is one step. `SetClock` sets the wall clock forth or back.
Differences from the tables that the model keeps: `renewClaim` does not look at the
record's state; `claimPending` only takes deliveries whose event is known, in the order
of their insertion; `accept` has its deliveries due at a moment that the caller read
before, any reading of the clock here. Routes are left out, and each intake has a key of
its own: a replay of a known key changes no Map.

`DeliveryEngine` keeps a run per call: `phase` is what its fiber waits for (the two
permits, the answer, the record, the delay), `left` the time to its deadline, `timer` the
time to the end of the present wait. `RelayProcess` puts the runs into the process:
`calls[c]` is how far the caller is, `queued` and `pulled` hold the job before its run,
`stage` and `ready` the process. Deliveries, leases and renewals are left to `Relay`: a
lost claim or a failed statement is an `Interrupt` here. The reconciler's jobs reach the
queue and the engine as those of events do, without admission, and are not repeated. The finalizers of
the layers run in any order, one fiber at a time.

**Abstractions.** Payloads, URLs, credentials, trace ids and times of attempts are left
out; a route is a configuration version; a status is one model value, because its class
is the outcome and `DeliveryAttempt` takes care of the classes. All processes have
one destination, `Home`, as the configuration has; rows of the tables may have others.
A failed statement leaves the tables as they were (`StatementFails`) or commits with
its answer lost (`UnheardRenewal`, `UnheardAttempt`). A lost answer of an intake or of
`claimPending` leaves a claim without a job: that is the state a crash of the process
or an interrupt right after the commit leaves, and is covered by these. In `Relay`,
`maxElapsed` and the back-off are choices: the schedule may end after any attempt, and
delays come from `RetryDelays`; `DeliveryEngine` has the schedule itself, and `DeliveryAttempt` its
three folds in their order: the jitter, no less than Retry-After, no more than the time
left (`Delays`); with a delay that was clipped the schedule does not go on (`Planned`). A worker that starts cancelled releases right
after its first renewal; one that is cancelled while it starts is treated the same. A
process that restarts has a new worker identity, so `Crash` is for good and the other worker is its successor; an
orderly shutdown in the middle of work is a crash to the claims. `completeClaim` and
`save` are called by tests only: they are modelled in `DeliveryTable`, and `Relay` does
not use them (`save` for a `Pending` delivery, the one state its callers give it).

**Clocks.** `RelaySpec` lets jobs be held up for any time: leases expire under their
holders. `TimelySpec` adds what the code assumes when it configures
`claimRenewInterval < claimLeaseDuration` (`configuration.ts:188-196`): a renewal that
is due happens before the clock goes on. `ProgressSpec` replaces the counting clock by
`Elapse`, which moves all instants one closer to a clock that stands still; every guard
compares an instant with `now`, so the behaviours are the same and there is no end of
time. The due time a worker writes is its own clock's, off by at most `ClockSkew`; the
skew also stands for the time between the answer and its record.

In `DeliveryEngine` instants are kept as the time left until them. `EngineElapse` lets
one unit pass only when no run can go on without waiting and some timer runs: fibers of a
process that is not overloaded act at the instant their timers end. Deadlines and
timeouts are then exact, which is what a bound on the overrun is about. A record takes
`RecordTime` or less, since `Recorded` is enabled before its timer ends.

## 3. Runs

| Run | Instance | Shows |
| --- | --- | --- |
| `attempt` | 25 status codes at the boundaries of each class, Retry-After 0 or 2, back-off 0, 1, 4, time left 0, 1, 2, 5, two clock readings | the truth tables agree and fit the schema; only a clock that steps back refuses a record; retries respect 429 and final answers |
| `repository` | 1 delivery, 2 workers, 3 claims, 3 attempts, clock to 3, lease 1 | type, constraints, fencing, the order of histories, finality, refinement of `DeliveryStore`, whatever ordinals and clock readings claims come with |
| `batches` | `ClaimStatement`: 2 deliveries in batches of 2, 2 statements at a time, skew 1, 2 claims and 1 attempt each, no routes, no `completeClaim` | one live claim, histories, due times, takeovers and both refinements (`DeliveryRepository`, `DeliveryStore`) although statements overlap |
| `memory` | 2 deliveries, 2 workers, 2 claims and 2 attempts each, a clock that steps forth and back | Maps agree, what a refusal is worth, refinement of `DeliveryStore` |
| `relay_safety` | 1 delivery, 2 processes, all five disruptions, lease 2, renewal 1, clock to 3 | memory of the processes and its limits (queue, chunk, permits), results are stored, the budget of attempts of a claim, refinement of `DeliveryRepository` |
| `relay_timely` | 2 deliveries, 2 processes, one queue slot, one permit, crashes and nothing else, `TimelySpec` | no attempt without its claim, no forgotten claim |
| `relay_progress` | 1 delivery, 2 processes, all disruptions but the clock, `ProgressSpec` | every claim moves on, every job ends |
| `process` | 3 calls for 2 destinations, 1 global permit and 1 per destination, 2 attempts, deadline and timeout 2, record 1, admission 2 and 2 places, both entries | permits, bounded overrun, the promise of admission, nobody is stuck, shutdown |
| `intake` | 3 requests, 2 keys, 2 submissions | idempotent intake, refinement of `AcceptOnce`, every call ends |
| `fencing_metric` | as `relay_safety`, no disruption | finding 1 (violation) |
| `reconciler_dies` | as `relay_safety`, the clock disruption | finding 2 (violation) |
| `claim_ordinal` | `ClaimStatement`: 1 delivery, 2 statements at a time, 3 claims, 2 attempts | finding 3 (violation) |

**Why these bounds are enough to be of use.** A fencing error needs two claims of one
delivery, and one more to distinguish "the latest" from "a later one": three
generations and two workers, one of which may claim twice. Three attempts give a
history before, at and after a takeover. Interaction *between* deliveries exists only
in batches, queues and permits; the two-delivery runs have batches of two, and a queue
and permits of one, so that both contend. The clock runs past one lease, one retry
delay and one takeover. The proofs lift the safety results, but for one, from all these bounds.
`DeliveryRepository` lets one process present two claims of one delivery at a time,
and more workers add nothing but names. Three requests for one key are a winner, one that
waits for it and one that waits for both; the second key and submission tell "same key"
from "any key" and replay from conflict.

In `process`, two calls share a destination and one has its own, so that both a
destination's permit and the global one are contended, and a run can hold the first while
another destination's run holds the second. Two attempts, with a delay of 0 or 1 and a
deadline of 2, end a run by its count, by its deadline, and by both at once; a record
that takes 1 lets a retry begin at the deadline. Two places in the queue for three calls
are what makes admission refuse, and what lets the jobs of events fill the queue under
an admitted delivery. In `batches` two statements, two batches of two rows and one lease
are enough for each row to change under a snapshot by a claim, an attempt, a release or
a reopening. One attempt per delivery lets a stale ordinal only repeat what is there; that
it leaves no hole either after a longer history rests on `ContiguousUnderOverlap` (with two
attempts the run takes longer than the five minutes a run is given). Dead-letter repairs
are no part of `relay_timely`, so that `AttemptsUnderClaim` holds across them rests on
`AttemptsAreFenced`, which has every disruption. In `memory` two
readings of the clock let a lease end and, as the clock steps back, run again.

`CHECK_DEADLOCK FALSE` is set where a bound (clock, generations, ordinals) stops the
model, and in `intake` and `process`, where all requests have ended
or the process has (that nothing stops earlier is the property `NobodyIsStuck`);
`attempt` ends in a stuttering `Done`, and `relay_progress` checks for deadlock.
Symmetry is used for safety and action properties only, all of which treat workers and
deliveries alike; the liveness run has none.

**`TakeoverInTime` and `DueAsRecorded`** are about the relay's own calls: with
`completeClaim`, a dead letter could be reopened whose newest attempt is still a
scheduled retry, so the run gives `Completions` no member. `relay_progress` leaves out
the disruption "clock" because of finding 2: a reconciler that has died polls no more.
In it an unfinished delivery at generation `MaxGeneration` is not followed any further.

**Fairness.** Weak fairness for the steps of each job, each stream and each poll: the
Effect runtime runs every runnable fiber, statements and requests end (the attempt
timeout bounds a request, and a database that never answers would be a failed
statement), sleeping fibers wake, and polling repeats. Time passes. A call of `accept` goes
on whenever its statement may: one that waits for a transaction does so after it has
ended. A process has one weak fairness condition, for all that goes on by itself
together: it does not stand still, but no fiber is promised its turn. Instead of a
temporal property `process` checks `NobodyIsStuck`: while a call or a job is under way,
some step of the process is enabled. As calls and attempts are finite, that is the
absence of a deadlock between permits, queue, timers and shutdown, under any scheduling.
There is none for
`Publish`, as `PubSub.publish` waits for subscribers that may never read, and none for
crashes, interrupts, failures, intakes and operators. The surviving process polls:
`Crash` never takes the last one, which stands for "at least one compatible worker
eventually runs" (`ops/guarantee-evidence.md:12`).

**`RefusalsStand`** says of the memory adapter what its clock leaves of the fence. `owns()`
refuses a claim for its owner, its generation or its lease. The first two refusals are for
good. The third is undone when the wall clock steps back, and by nothing else: a holder
that was told its lease is over may pass again. In the Postgres adapter `FencedOutForGood`
is stated without the lease too; there the server's clock goes forward, and a lease that
has ended is not renewed.

Every property of a passing run has a mutant: a plausible slip in one definition under
which the same run reports the property violated. The mutated forms stand beside the
definitions they change.

## 4. Findings

1. **The fencing metric counts workers that are not stale** (`fencing_metric`). After a
   terminal `recordAttempt` the row has no owner; while `publish` is still waiting, the
   renewal of the same job is refused, ends the race and is counted as a fencing
   rejection, and the waiting caller gets `ClaimLostError` for a delivery that is
   stored as finished. The description of the metric says "Stale delivery mutations
   rejected by operation" (`deliveryMetrics.ts:91`).
2. **One backward step of the wall clock ends the reconciler** (`reconciler_dies`).
   `DeliveryAttemptRecord.make` throws; the defect passes through the job's result into
   the pass, which handles failures only, and the polling fiber ends while the process
   goes on. "The normal reconciler polls automatically." (`ops/recovery-runbook.md:78`).
3. **A claim may come with an ordinal that is taken** (`claim_ordinal`). `claimPending` reads
   `MAX(ordinal) + 1` from its snapshot (`deliveryRepository.ts:1036`) and locks the newest
   version of the row. If in between another process claims the delivery, stores an attempt
   and no longer holds the row when it is locked, the statement hands out the right
   generation with an old ordinal. The holder passes the fence, sends, and its
   `recordAttempt` violates the primary key: the answer is in no history, the claim is given
   back and the delivery is sent again. The run shows it with a dead letter that an operator
   retries in between; "A replay should append a new attempt ordinal"
   (`ops/recovery-runbook.md:94`). The history itself stays without holes and repeats. The
   row has to be due again at the statement's reading of the clock, so what it takes is a
   statement that is held up for as long as an attempt lasts, and a reopening in the
   millisecond of that reading or a worker whose clock is behind the server's.

Four further observations, which no run reports as violated. **The Node entry never gets
ready**: `main.node.ts` launches the layers; only `startRelayApplication`, the embedding,
marks the process ready (`runtime.ts:255`), so both intake handlers and the readiness probe
of a process started as `README.md:74` says answer "not ready" for good. It takes no run to
see it; the theorem `NodeServesNobody` says that nothing else in the process makes up for
it. A delivery that a full queue
refuses is counted in a metric described as "rejected before admission"
(`deliveryMetrics.ts:49`), although it was admitted and is stored and will be taken over
by a reconciler; `AdmittedFindsPlace` says when that happens. The functions handed to an
embedding program (`runtime.ts:258-267`) do not look at the readiness, so a call made in
the middle of a shutdown may store its event before it is cut off; `NoneLetInWhileCut`
holds because they end with the disposal. A retry that a slow record makes late begins
after the deadline with a timeout of 0; `OverrunIsBounded` includes it.

## 5. Proofs

All from the named assumptions on the constants (`TableAssumption`, `NullAssumption`,
`CompletionsAssumption`, `StatementAssumption`, `RelayAssumption`, `JobAssumption`, `IntakeAssumption`,
`MemoryAssumption`, `MemoryNullAssumption`, `EngineAssumption`, `RunAssumption`,
`ProcessAssumption`, `AttemptAssumption`), for any number of deliveries, workers,
destinations, processes, (finitely many) calls and requests and any bounds. The assumptions on limits are the constraints of `configuration.ts`; those on
`NULL` only say that it is none of the values beside it; `Worker # {}` says that there is
a process at all. A few theorems have a hypothesis of their own, which is the scope of the
property and not a help to the proof: `Completions = {}` (the relay never calls
`completeClaim`, and with it the due times do disagree, see section 3) and `Undisturbed`
(an interrupt, a database error or a defect does make a process forget a claim; the
other disruptions do not).

### The tables

`DeliveryRepositoryProofs` has one lemma per statement. Its invariant **`IInv`** is
`TypeOK`, `RowsKeepTheirChecks`, `ClaimsTraceRows`, `OrdinalsContiguous` and
`ClaimsWithinHistory` (no claim counts from beyond the end of its history). Each part needs
others: a claim is fenced out only because its generation is older or its row has another
owner or none (`ClaimsTraceRows`); that a released row has no owner and a reopened one no
lease is `RowsKeepTheirChecks`; a history has no hole because what passes the fence counts
from no further than its end, and no repeat because of the primary key. That the newest
claim counts on from the very end is not part of it: a claim whose ordinal was read from an
older snapshot does not (finding 3). All steps are either `BesidesClaims` or a takeover of
a batch (`BatchTaken`), with any ordinals that are not too high.

From `IInv` follow `TypeCorrect`, `ChecksHold`, `ClaimsTrace`, `AtMostOneLiveClaim`,
`HistoryContiguous` and the action properties `FinalStays` and `FencedOut`. `AttemptsTrace`
adds that each attempt stands under a claim that was handed out.

*Histories.* `AttemptsInOrder` is about all claims a delivery ever had: attempts stand in
the order of the claims that stored them, under one claim only a scheduled retry is
followed by another attempt, and an answer that delivers or rejects is the last attempt
and what the row says. It is not inductive, since it does not relate the history to the
claim that runs now. **`HistoryInv`** adds `AttemptsTrace`'s invariant and `RowsLead`: no
attempt is of a later generation than its row, and while a row has an owner nothing but
that owner's scheduled retries stand under its generation. This is what a released, a
reopened and a taken-over row keep, each for its own reason (no owner, no owner, a new
generation), and `HistoryInOrder` follows. The converse, that a row is closed only by the newest
attempt, is `StatesAreTold`; `completeClaim` closes a row without an attempt, so it too
has the hypothesis `Completions = {}`.

*Due times.* `DueAsRecorded` is not inductive: an operator gives a dead letter a new due
time, and it does not say that a dead letter has no scheduled retry as its newest attempt.
**`DueInv`** says that while the newest attempt of a delivery is a scheduled retry the row is
`Pending` and waits for it, so no dead letter with such a history exists to be reopened.
`completeClaim` would make one, hence `Completions = {}`. `TakeoversInTime` is then a
look at the guard of the claim statement.

*The abstract store.* `Implements` is the refinement of `DeliveryStore`. The views
`States`, `Holders` and `Terms` follow from a row (`RowView`); for the histories, which
are a set of rows with ordinals here and a sequence there, `HistoryEntry` says what stands
at each place and `RecordAppends` that a new attempt is appended and nothing else moves:
this is where the ordinals have to be 1, 2, ... A statement is then a `TakeIn`, `Grant`
(one for each row of a batch), `GiveBack`, `Extend`, `Conclude` or `Settle`, or invisible.

`ClaimStatementProofs`: **`StatementInv`** is `IInv` with `SnapshotsPast`: the clock and the
ordinals that a statement saw when it began are no later than those of now. Then the end of
a statement is a `Reconcile` (`EndIsReconcile`): what it locks is checked against the newest
version of each row (`LockedBatch`), and its ordinals, if old, are not too high
(`SnapshotOrdinals`). That is `StatementKeeps`: any number of overlapping statements implement
the repository with its one step. One live claim, contiguous and ordered histories, the
reasons of closed rows, due times, takeovers in time and the refinement of `DeliveryStore`
are then those of the repository. And since `Relay` implements the repository with the same
step, whatever ordinals its claims come with, its results hold of these statements too.

### The attempt

`DeliveryAttemptProofs` goes through the classification of a status, the decision and the
four tables, for any status and delay. The invariant is the four properties with the shape
of what is observed. `ClassifyShape` and `DecidedShape` say what an answer and a decision
can be, `TablesAgree` compares the copies on just those, `FilterImpliesChecks` the filter
of the record with the CHECK constraints, and `PlannedRespects` is about the folds of the
delay: it can be shorter than Retry-After only where it was clipped, and is then all that
was left. A change to one copy breaks one lemma.

### The processes

`RelayProofs`: **`RInv`** adds to `IInv` that each job holds, under its own key, a claim
in `held`, has an outcome when it records one (`JobsOK`), and that every queue entry is
a queued job that stands in one place once (`QueuesOK`; without it a dispatch could
start a job that has ended, or one twice). Every step of the
processes is a step of `DeliveryRepository` or leaves its variables alone
(`RelayStep`), hence `RelayKeeps`, and through it `RelayOneLiveClaim`, `RelayFinal`,
`RelayTakeoversInTime`, `RelayHistories` and `RelayStore` (the processes together keep the
promise of the storage services) hold of the processes with all disruptions. `PublishedIsStored` proves
that what is published is what the history says.

`RelayClaimProofs` follows one claim. Each has an invariant beside `RInv`:

* `AttemptsAreFenced`, for `TimelySpec` only: **`LeaseInv`**, the row of a job that tries
  is its own and its lease ends by `LeaseDuration - RenewInterval` after the renewal that
  is planned, which is not in the past. Nothing else than the job itself or the end of
  the lease takes the row from it, and the clock does not get past a planned renewal.
  `OneSenderAtATime` is what it means outside: of all jobs of all processes at most one
  is between the start of a request for a delivery and the record of its answer, and the
  delivery is pending.
* `ClaimsWithinBudget`: **`BudgetInv`**, while a job tries all attempts of its claim are
  scheduled retries and it has counted each one, so `spent` is their number. An attempt
  stored with its answer lost is not counted, but ends the job. That a new claim begins
  with none is `AttemptsTrace`.
* `NothingForgotten`: **`OrphanInv`**, no job dies and what it publishes has ended its
  claim, so a job that ends leaves no claim of its process in the table.
* `MemoryIsConsistent`: **`MemoryInv`**, a queued job stands in the queue or the chunk of
  its process, which with `QueuesOK` counts them, a chunk is what the queue held when it was
  pulled, so it is no longer, and each dispatch finds a permit.
  `NobodyWaitsInARing` follows: while a process has jobs, one of them waits for no other,
  or the pass, the permit or the dispatching stream that they wait for is free.

### One process

`RelayProcessProofs`: **`ProcessInv`** gives each variable of the process to one part:
`RunsOK` (a retry is decided only while attempts are left, which keeps the count within
`maximumAttempts` when it wakes up), `EnginePermits` and `AdmissionPermits` (each table
of permits counts the calls of a set, `Counts`), `JobsOK` (a job exists only for a call
that is past storing) and `ReadyOnlyBeforeClosing`. `CountsMore` and `CountsLess` say
what one call more or less does to a table, and each step of the engine or the admission
is one of them or neither. `AdmittedAlwaysFindPlace` is a count: if all jobs of a full
queue were inside the admission, the call about to be queued, which is inside and by
`JobsOK` not in the queue, would be one more than it lets in. `NeverLetInWhileCut`
follows from `ReadyOnlyBeforeClosing`, and so does `NodeServesNobody`.

`OverrunAlwaysBounded` bounds what no single run controls: how long it waits for permits.
While it waits, some other run sends (`OthersSend`: a permit of a destination is held by a
run that sends or waits for a global one, and a global one by a run that sends), and what
the others may still send runs out. **`Sendable`** is the set of the units of time in
which they may: pairs of a call and a number within what its time and its attempts leave
it. No step adds to it, each call having one run (`OneRun`), and while somebody waits each
unit of time takes one away (`ElapseSends`). `OnSchedule` then ties the lateness of a run
to the size of that set, phase by phase. A set of pairs does here what a sum over the
runs would, since a sum needs induction.

`SomebodyCanGoOn` is the absence of a deadlock, by the guards: while a call or a job is
under way, one of the guards in `CanGoOn` holds. A call that waits has a job until fibers
are cut off (`WaitersHaveJobs`), a job in the queue is pulled, one that was pulled gets a
dispatch permit or another job has it, and a job that runs goes on, waits for a timer, or
waits by `OthersSend` for one that sends.

`StepsRunOut` says that a process cannot go round for ever either: every step leaves less
work than before. **`StepsLeft`** is the measure. It counts the pairs of a call and a number
within what that call still has before it, at most (`StepsOf`): the steps of its caller, of its job
and of each attempt it may begin, and the units of time its run may last, which are finitely many by
`OverrunAlwaysBounded`; and the stages of the process. `OneCallFewer` says that a step of
one call takes from that call and gives nothing to another, so the set of pairs gets
smaller. Only units of time are not the step of one call: each takes one from every run, and
by `EngineElapse` there is a run. With `StepsAlwaysCounted` a process takes at most
`Steps` steps, whatever the scheduling, and with `SomebodyCanGoOn` nothing is under way
when it has taken its last: no call is without its answer, on the one condition that a step
whose guard holds is taken.

### The adapters beside

`IntakeStoreProofs`: the invariant says that events and deliveries are stored together,
by calls that have ended (`RowsTogether`), that whoever has inserted a key, committed or
not, is alone with it (`OneOwner`: this is what the wait is for, and what keeps a key
from a second event), that a key once found stays (`FoundStays`) and that what a caller
was told is in the tables (`ToldIsStored`). `OneDeliveryPerKey` and
`NoKeyWithoutAcceptance` follow at once. For `Refinement`, `AcceptanceOf` shows that a
key's acceptance is its one committed event; then `Commit` is `Accept`, `Find` is
`Replay`, `GiveUp` is `Fail`, and the inserts are stutters.

`MemoryPersistenceProofs`: **`IInv`** is `TypeOK`, `MapsAgree` and `ClaimsTraceMaps`. A
claim refused for its owner or generation stays out whatever the clock does: its generation
is older than the one in the Maps, or the Maps name another owner for it, and only a higher
generation gives the delivery to anyone again. One refused for its lease gets no other lease
(`LapsedStaysLapsed`), so only an earlier clock lets it pass: together `RefusalsHold`.
`Implements` is the
refinement of `DeliveryStore`: an operation is a `TakeIn`, `Grant`, `GiveBack`,
`Extend`, `Conclude` or `Settle` of the store or, as renewals and clock steps are,
invisible to it. The histories are sequences on both sides, so no counting is needed
(`AppendedView`). `HistoryInOrder` and `RecordsAreTold` are the results on histories
above for the Maps, by the same argument: `MapsLead` stands in for `RowsLead`, and each
operation that stores no attempt is `Quiet`, whatever it sets the clock-dependent Maps to.

### Only model-checked

Every safety property that a passing run checks is proved but one. `NobodyIsStuck` says
`ENABLED GoesOn`, which no installed prover can take apart; `SomebodyCanGoOn` proves the
guards, and that a guard enables its step is left to TLC. The liveness properties
(`EveryJobEnds`, `EveryClaimMovesOn`, `EveryCallEnds`) rest on fairness and stay with TLC;
of their arguments the part that is safety is proved: `NobodyWaitsInARing` under
`EveryJobEnds`, `SomebodyCanGoOn` and `StepsRunOut` for a process. The three findings are
counterexamples. In turn `OneSenderAtATime`, `StatesAreTold`, `StepsRunOut` and the
histories of the memory adapter and `NodeServesNobody` are stated by theorems alone.

## 6. Not modelled, and the plan

Not modelled: HTTP decoding and error mapping, the command line, configuration parsing,
senders and the destination client, identifiers, metrics other than those in the
findings. They have no state that a delivery depends on. The incident analyst reads a
status and keeps a ring of reports that nothing in the delivery path reads. Of the
delivery events the buffer of the PubSub is a library's: `Publish` may simply take for
ever. Of the process, the construction of the layers succeeds or fails as a whole.

The order of what is left:

1. Proofs: due times for the memory adapter, whose attempts would have to carry them in
   the model.
2. Models: the step from one migration to the next over existing rows; routes and replays
   in `MemoryPersistence`; the reconciler's jobs and its mutex in `RelayProcess`.
