--------------------------------- MODULE Relay ---------------------------------
(***************************************************************************)
(* The relay processes over one database.  A process takes deliveries in,  *)
(* or takes over those nobody works on; each becomes a job with one claim. *)
(* Jobs wait in a bounded queue, are dispatched under permits, and run two *)
(* fibers: one renews the lease, the other makes the attempts.  The first  *)
(* that fails ends the job, which then gives its claim back.               *)
(*                                                                         *)
(* Every change of the tables is an operation of DeliveryRepository.  A    *)
(* process that restarts has a new identity, so a crash is for good and    *)
(* another worker stands for the restarted process.                        *)
(***************************************************************************)
EXTENDS DeliveryRepository, Sequences

CONSTANTS Home,           \* configuration.destination.id
          QueueCapacity,  \* deliveryRequestsCapacity, also the number of dispatch permits
          AdmissionLimit, \* deliver calls at once: the per-destination admission capacity
          ActiveLimit,    \* concurrency.global: jobs a reconciler pass runs at once
          AttemptLimit,   \* attempts at once: the lesser of the two concurrency limits
          MaxAttempts,    \* maxAttempts of one run of the retry policy
          RenewInterval,  \* claimRenewInterval
          Disruptions     \* what else may happen, of DisruptionKinds

DisruptionKinds == {"clock", "crash", "database", "interrupt", "operator"}

ASSUME RelayAssumption ==
  /\ Worker # {}
  /\ Home \in Destination
  /\ QueueCapacity \in Nat \ {0}
  /\ AdmissionLimit \in 1..QueueCapacity
  /\ ActiveLimit \in Nat \ {0}
  /\ AttemptLimit \in 1..ActiveLimit
  /\ MaxAttempts \in Nat \ {0}
  /\ RenewInterval \in 1..(LeaseDuration - 1)
  /\ Disruptions \subseteq DisruptionKinds

VARIABLES up,       \* the processes that run
          polling,  \* those whose reconciler runs
          queue,    \* requests of each process: the keys of its waiting jobs
          chunk,    \* what the dispatching stream of each process has pulled
          jobs      \* the job of each claim, NULL before it exists and after it ended
relayVars == <<now, deliveries, attempts, held, up, polling, queue, chunk, jobs>>

\* A claim is known by its delivery and its generation.
Key == Delivery \X (1..MaxGeneration)

\* A phase names what the job's fiber does next.
Executing == {"waiting", "sending", "observed", "sleeping", "publishing"}
Ending == {"releasing", "dying"}
Dispatched == Executing \cup Ending \cup {"starting"}
Phases == Dispatched \cup {"claimed", "queued", "rejected"}

\* A job: its claim and how it came in, what it does, the outcome it has to record, the
\* attempts it has made, and when to renew, to wake, or whether its caller is gone.
Job == [claim     : Claim,
        from      : {"accept", "deliver", "poll", "manual"},
        phase     : Phases,
        outcome   : Outcomes \cup {NULL},
        spent     : Nat,
        renewAt   : Nat \cup {NULL},
        wakeAt    : Nat \cup {NULL},
        cancelled : BOOLEAN]

ASSUME JobAssumption == NULL \notin Job

NewJobCountsFromFirst(claim, from) ==
  [claim |-> [claim EXCEPT !.ordinal = @ + 1], from |-> from, phase |-> "claimed",
   outcome |-> NULL, spent |-> 0, renewAt |-> NULL, wakeAt |-> NULL, cancelled |-> FALSE]

NewJob(claim, from) ==
  [claim |-> claim, from |-> from, phase |-> "claimed", outcome |-> NULL,
   spent |-> 0, renewAt |-> NULL, wakeAt |-> NULL, cancelled |-> FALSE]

Alive(k) == jobs[k] # NULL
Process(k) == jobs[k].claim.owner
JobsOf(w) == {k \in Key : Alive(k) /\ Process(k) = w}
In(w, phases) == {k \in JobsOf(w) : jobs[k].phase \in phases}
Is(k, phases) == Alive(k) /\ jobs[k].phase \in phases

\* The jobs a reconciler pass waits for.
PassJobs(w) == {k \in JobsOf(w) : jobs[k].from \in {"poll", "manual"} /\ ~jobs[k].cancelled}

RelayInit ==
  /\ Init
  /\ up = Worker
  /\ polling = Worker
  /\ queue = [w \in Worker |-> <<>>]
  /\ chunk = [w \in Worker |-> <<>>]
  /\ jobs = [k \in Key |-> NULL]

\* The job of `k` goes on in another phase, or ends.
Goto(k, phase) == jobs' = [jobs EXCEPT ![k].phase = phase]
End(k) == jobs' = [jobs EXCEPT ![k] = NULL]

-------------------------------------------------------------------------------
(* Work comes in.                                                          *)

\* EventIntake.accept answers its caller without waiting for the delivery;
\* DeliverySupervisor.deliver waits, and holds an admission permit meanwhile.
TakeIn(w, d, from) ==
  /\ w \in up
  /\ from = "deliver" =>
       Cardinality({k \in JobsOf(w) : jobs[k].from = "deliver" /\ ~jobs[k].cancelled})
         < AdmissionLimit
  /\ \E version \in IF from = "accept" THEN Version ELSE {NULL} :
       Intake(d, Home, version, w)
  /\ jobs' = [jobs EXCEPT ![<<d, 1>>] = NewJob(ClaimOf(d, 1), from)]
  /\ UNCHANGED <<up, polling, queue, chunk>>

\* A pass of the reconciler, by itself or on an operator's request: the mutex is free
\* once the last pass waits for no job any more.
Poll(w, from) ==
  /\ IF from = "poll" THEN w \in polling ELSE w \in up /\ "operator" \in Disruptions
  /\ PassJobs(w) = {}
  /\ \E at \in Readings : \E S \in Batches(Home, at) : \E next \in ReadOrdinals(S) :
       /\ TakeBatch(w, Home, at, S, next)
       /\ jobs' = [k \in Key |->
            IF k[1] \in S /\ k[2] = deliveries'[k[1]].generation
            THEN NewJob(ClaimOf(k[1], next[k[1]]), from) ELSE jobs[k]]
  /\ UNCHANGED <<up, polling, queue, chunk>>

\* A pass submits as many deliveries at once as attempts may run.
Submittable(k) ==
  /\ Is(k, {"claimed"})
  /\ k \in PassJobs(Process(k)) =>
       Cardinality({j \in PassJobs(Process(k)) : jobs[j].phase # "claimed"}) < ActiveLimit

Offer(k) ==
  /\ Submittable(k)
  /\ Len(queue[Process(k)]) < QueueCapacity
  /\ queue' = [queue EXCEPT ![Process(k)] = Append(@, k)]
  /\ Goto(k, "queued")
  /\ UNCHANGED <<vars, up, polling, chunk>>

OfferRefusedForgets(k) ==
  /\ Submittable(k)
  /\ Len(queue[Process(k)]) = QueueCapacity
  /\ End(k)
  /\ UNCHANGED <<vars, up, polling, queue, chunk>>

OfferRefused(k) ==
  /\ Submittable(k)
  /\ Len(queue[Process(k)]) = QueueCapacity
  /\ Goto(k, "rejected")
  /\ UNCHANGED <<vars, up, polling, queue, chunk>>

PullKeepsQueue(w) ==
  /\ w \in up
  /\ chunk[w] = <<>> /\ queue[w] # <<>>
  /\ \E n \in 1..Len(queue[w]) : chunk' = [chunk EXCEPT ![w] = SubSeq(queue[w], 1, n)]
  /\ UNCHANGED <<vars, up, polling, queue, jobs>>

\* The stream pulls what is queued when it has dispatched all it had.
Pull(w) ==
  /\ w \in up
  /\ chunk[w] = <<>> /\ queue[w] # <<>>
  /\ \E n \in 1..Len(queue[w]) :
       /\ chunk' = [chunk EXCEPT ![w] = SubSeq(queue[w], 1, n)]
       /\ queue' = [queue EXCEPT ![w] = SubSeq(@, n + 1, Len(@))]
  /\ UNCHANGED <<vars, up, polling, jobs>>

Dispatch(w) ==
  /\ w \in up
  /\ chunk[w] # <<>>
  /\ Cardinality(In(w, Dispatched)) < QueueCapacity
  /\ Goto(Head(chunk[w]), "starting")
  /\ chunk' = [chunk EXCEPT ![w] = Tail(@)]
  /\ UNCHANGED <<vars, up, polling, queue>>

-------------------------------------------------------------------------------
(* The lease.                                                              *)

RenewedJob(k, phase) ==
  [jobs EXCEPT ![k].phase = phase, ![k].renewAt = now + RenewInterval]

StartWithoutRenewing(k) ==
  /\ Is(k, {"starting"})
  /\ jobs' = RenewedJob(k, IF jobs[k].cancelled THEN "releasing" ELSE "waiting")
  /\ UNCHANGED <<vars, up, polling, queue, chunk>>

\* process renews before it does anything else, also for a cancelled job.
FirstRenew(k) ==
  /\ Is(k, {"starting"})
  /\ Renew(jobs[k].claim)
  /\ jobs' = RenewedJob(k, IF jobs[k].cancelled THEN "releasing" ELSE "waiting")
  /\ UNCHANGED <<up, polling, queue, chunk>>

KeepAlive(k) ==
  /\ Is(k, Executing)
  /\ jobs[k].renewAt <= now
  /\ Renew(jobs[k].claim)
  /\ jobs' = RenewedJob(k, jobs[k].phase)
  /\ UNCHANGED <<up, polling, queue, chunk>>

RenewRefusedAtStartOnly(k) ==
  /\ Is(k, {"starting"})
  /\ ~Fenced(jobs[k].claim)
  /\ Goto(k, "releasing")
  /\ UNCHANGED <<vars, up, polling, queue, chunk>>

\* A renewal the fence refuses fails the job with ClaimLostError, whatever the other
\* fiber does: also when that fiber has just stored the last attempt.
RenewRefused(k) ==
  /\ \/ Is(k, {"starting"})
     \/ Is(k, Executing) /\ jobs[k].renewAt <= now
  /\ ~Fenced(jobs[k].claim)
  /\ Goto(k, "releasing")
  /\ UNCHANGED <<vars, up, polling, queue, chunk>>

\* releaseClaim, or nothing when the claim is lost.
GivesUp(c) == IF Owned(c) THEN Release(c) ELSE UNCHANGED vars

\* A job that failed gives its claim back and answers whoever waits for it.
GiveBack(k) ==
  /\ Is(k, {"releasing", "rejected"})
  /\ GivesUp(jobs[k].claim)
  /\ End(k)
  /\ UNCHANGED <<up, polling, queue, chunk>>

\* A job after the fiber that waits for it is gone.  Before the job is queued that
\* fiber is the job, and nothing gives the claim back.
Abandoned(job) ==
  IF job.phase \in {"claimed", "rejected"} THEN NULL
  ELSE [job EXCEPT !.cancelled = TRUE, !.phase = IF @ \in Executing THEN "releasing" ELSE @]

\* A defect ends its job as a failure does, but a pass that waits for the job handles
\* failures only: it dies, abandons its other jobs, and the reconciler dies with it.
Dies(k) ==
  /\ Is(k, {"dying"})
  /\ LET pass == IF k \in PassJobs(Process(k)) THEN PassJobs(Process(k)) ELSE {}
     IN  /\ jobs' = [j \in Key |-> IF j = k THEN NULL
                                    ELSE IF j \in pass THEN Abandoned(jobs[j]) ELSE jobs[j]]
         /\ polling' = IF k \in pass /\ jobs[k].from = "poll"
                       THEN polling \ {Process(k)} ELSE polling
  /\ UNCHANGED <<up, queue, chunk>>

Die(k) == Dies(k) /\ GivesUp(jobs[k].claim)

-------------------------------------------------------------------------------
(* The attempts.                                                           *)

Send(k) ==
  /\ Is(k, {"waiting"})
  /\ Cardinality(In(Process(k), {"sending"})) < AttemptLimit
  /\ Goto(k, "sending")
  /\ UNCHANGED <<vars, up, polling, queue, chunk>>

\* The destination answers, or the transport or the attempt timeout ends the wait.
Answer(k, outcome) ==
  /\ Is(k, {"sending"})
  /\ jobs' = [jobs EXCEPT ![k].phase = "observed", ![k].outcome = outcome]
  /\ UNCHANGED <<vars, up, polling, queue, chunk>>

AgainOnceMore(k) == jobs[k].spent < MaxAttempts

\* The retry schedule ends after maxAttempts, or earlier when maxElapsed is spent.
Again(k) == jobs[k].spent + 1 < MaxAttempts

Decisions(k) ==
  IF Is(k, {"observed"})
  THEN {Decision(jobs[k].outcome, again) : again \in {Again(k), FALSE}} ELSE {}

\* A retry waits out its delay; anything else ends the claim's attempts.
PhaseAfter(decision) == IF decision = "RetryScheduled" THEN "sleeping" ELSE "publishing"
WakeAfter(decision, delay) == IF decision = "RetryScheduled" THEN now + delay ELSE NULL

Attempted(k, decision, delay) ==
  [jobs EXCEPT ![k].phase = PhaseAfter(decision),
               ![k].claim.ordinal = @ + 1,
               ![k].spent = @ + 1,
               ![k].wakeAt = WakeAfter(decision, delay)]

StoreAttempt(k, decision, t, delay) ==
  /\ Is(k, {"observed"})
  /\ Record(jobs[k].claim, jobs[k].outcome, decision, t + delay)
  /\ jobs' = Attempted(k, decision, delay)
  /\ UNCHANGED <<up, polling, queue, chunk>>

AttemptRefusedIgnored(k) ==
  /\ Is(k, {"observed"})
  /\ LET c == jobs[k].claim IN ~Fenced(c) \/ c.ordinal \in Ordinals(c.delivery)
  /\ Goto(k, "publishing")
  /\ UNCHANGED <<vars, up, polling, queue, chunk>>

\* The fence refuses the attempt with ClaimLostError, or the primary key does with a
\* DeliveryRepositoryError when the claim came with an ordinal that was taken.  Either
\* fails the job, and the answer of the destination is in no history.
AttemptRefused(k) ==
  /\ Is(k, {"observed"})
  /\ LET c == jobs[k].claim IN ~Fenced(c) \/ c.ordinal \in Ordinals(c.delivery)
  /\ Goto(k, "releasing")
  /\ UNCHANGED <<vars, up, polling, queue, chunk>>

\* The wall clock stepped back while the request was out, and making the record throws.
AttemptThrows(k) ==
  /\ "clock" \in Disruptions
  /\ Is(k, {"observed"})
  /\ Goto(k, "dying")
  /\ UNCHANGED <<vars, up, polling, queue, chunk>>

Wake(k) ==
  /\ Is(k, {"sleeping"})
  /\ jobs[k].wakeAt <= now
  /\ jobs' = [jobs EXCEPT ![k].phase = "waiting", ![k].outcome = NULL, ![k].wakeAt = NULL]
  /\ UNCHANGED <<vars, up, polling, queue, chunk>>

\* The result is published and handed to whoever waits for it.
Publish(k) ==
  /\ Is(k, {"publishing"})
  /\ End(k)
  /\ UNCHANGED <<vars, up, polling, queue, chunk>>

-------------------------------------------------------------------------------
(* Disruptions.                                                            *)

\* All a process has in memory is gone; one process survives, or was started again.
Crash(w) ==
  /\ "crash" \in Disruptions
  /\ w \in up /\ up # {w}
  /\ up' = up \ {w}
  /\ polling' = polling \ {w}
  /\ queue' = [queue EXCEPT ![w] = <<>>]
  /\ chunk' = [chunk EXCEPT ![w] = <<>>]
  /\ jobs' = [k \in Key |-> IF k \in JobsOf(w) THEN NULL ELSE jobs[k]]
  /\ UNCHANGED vars

\* The fiber of a caller is interrupted: of one that takes a delivery in, or of an
\* operator's request for a pass.
Interrupt(k) ==
  /\ "interrupt" \in Disruptions
  /\ Alive(k)
  /\ \/ jobs[k].from = "accept" /\ jobs[k].phase \in {"claimed", "rejected"}
     \/ jobs[k].from = "deliver" /\ jobs[k].phase \notin Ending
  /\ jobs' = [jobs EXCEPT ![k] = Abandoned(@)]
  /\ UNCHANGED <<vars, up, polling, queue, chunk>>

InterruptPass(w) ==
  /\ "interrupt" \in Disruptions
  /\ \E k \in PassJobs(w) : jobs[k].from = "manual"
  /\ jobs' = [k \in Key |-> IF k \in PassJobs(w) THEN Abandoned(jobs[k]) ELSE jobs[k]]
  /\ UNCHANGED <<vars, up, polling, queue, chunk>>

\* A statement fails with a DeliveryRepositoryError before it commits; a failed
\* release is ignored.
StatementFails(k) ==
  /\ "database" \in Disruptions
  /\ \/ /\ Is(k, Executing \cup {"starting"}) /\ Goto(k, "releasing")
        /\ UNCHANGED <<up, polling, queue, chunk>>
     \/ /\ Is(k, {"releasing", "rejected"}) /\ End(k)
        /\ UNCHANGED <<up, polling, queue, chunk>>
     \/ Dies(k)
  /\ UNCHANGED vars

\* A statement commits, but its answer is lost and the job takes it for failed.
UnheardRenewal(k) ==
  /\ "database" \in Disruptions
  /\ Is(k, Executing \cup {"starting"})
  /\ Renew(jobs[k].claim)
  /\ Goto(k, "releasing")
  /\ UNCHANGED <<up, polling, queue, chunk>>

UnheardAttempt(k, decision, t, delay) ==
  /\ "database" \in Disruptions
  /\ Is(k, {"observed"})
  /\ Record(jobs[k].claim, jobs[k].outcome, decision, t + delay)
  /\ jobs' = [Attempted(k, decision, delay) EXCEPT ![k].phase = "releasing"]
  /\ UNCHANGED <<up, polling, queue, chunk>>

\* DeliveryOperations, by way of the HTTP handlers of any process.
Recover(d) ==
  /\ "operator" \in Disruptions
  /\ Operate(d)
  /\ UNCHANGED <<up, polling, queue, chunk, jobs>>

-------------------------------------------------------------------------------
(* The processes under three clocks.                                       *)

JobStep(k) ==
  \/ Offer(k) \/ OfferRefused(k)
  \/ FirstRenew(k) \/ KeepAlive(k) \/ RenewRefused(k) \/ GiveBack(k) \/ Die(k)
  \/ Send(k) \/ \E outcome \in Outcomes : Answer(k, outcome)
  \/ \E decision \in Decisions(k), t \in WorkerClock, delay \in RetryDelays :
       StoreAttempt(k, decision, t, delay)
  \/ AttemptRefused(k) \/ AttemptThrows(k) \/ Wake(k) \/ Publish(k)
  \/ Interrupt(k) \/ StatementFails(k)
  \/ UnheardRenewal(k)
  \/ \E decision \in Decisions(k), t \in WorkerClock, delay \in RetryDelays :
       UnheardAttempt(k, decision, t, delay)

Work ==
  \/ \E w \in Worker, d \in Delivery, from \in {"accept", "deliver"} : TakeIn(w, d, from)
  \/ \E w \in Worker, from \in {"poll", "manual"} : Poll(w, from)
  \/ \E w \in Worker : Pull(w) \/ Dispatch(w) \/ Crash(w) \/ InterruptPass(w)
  \/ \E k \in Key : Alive(k) /\ JobStep(k)
  \/ \E d \in Delivery : Recover(d)

\* Jobs may be held up for any time, so leases expire under their holders.
RelayTick == Advance /\ UNCHANGED <<up, polling, queue, chunk, jobs>>

RelayNext == Work \/ RelayTick
RelaySpec == RelayInit /\ [][RelayNext]_relayVars

\* A lease in use is renewed when its renewal is due, before the clock goes on.
TimelyTick ==
  /\ RelayTick
  /\ \A k \in Key : Is(k, Executing) => jobs[k].renewAt > now

TimelySpec == RelayInit /\ [][Work \/ TimelyTick]_relayVars

\* Time without an end: the clock stands still and all instants come one closer, which
\* is the same to every comparison with `now` and keeps the model finite.
Closer(t) == IF t \in Nat \ {0} THEN t - 1 ELSE t

Elapse ==
  /\ deliveries' = [d \in Delivery |->
       IF Exists(d) THEN [deliveries[d] EXCEPT !.lease = Closer(@), !.eligible = Closer(@)]
       ELSE NULL]
  /\ jobs' = [k \in Key |->
       IF Alive(k) THEN [jobs[k] EXCEPT !.renewAt = Closer(@), !.wakeAt = Closer(@)]
       ELSE NULL]
  /\ UNCHANGED <<now, attempts, held, up, polling, queue, chunk>>

\* Fibers are scheduled, statements and attempts end, leases and delays run out, and a
\* reconciler polls for ever.  Subscribers of the results may never read, so Publish
\* gets no fairness, and disruptions need not happen.
Fairness ==
  /\ WF_relayVars(Elapse)
  /\ \A w \in Worker : /\ WF_relayVars(Poll(w, "poll"))
                       /\ WF_relayVars(Pull(w))
                       /\ WF_relayVars(Dispatch(w))
  /\ \A k \in Key : /\ WF_relayVars(Offer(k) \/ OfferRefused(k))
                    /\ WF_relayVars(FirstRenew(k) \/ KeepAlive(k) \/ RenewRefused(k))
                    /\ WF_relayVars(GiveBack(k) \/ Die(k))
                    /\ WF_relayVars(Send(k) \/ Wake(k))
                    /\ WF_relayVars(\E outcome \in Outcomes : Answer(k, outcome))
                    /\ WF_relayVars(AttemptRefused(k) \/
                         \E decision \in Decisions(k), t \in WorkerClock,
                            delay \in RetryDelays : StoreAttempt(k, decision, t, delay))

ProgressSpec == RelayInit /\ [][Work \/ Elapse]_relayVars /\ Fairness

-------------------------------------------------------------------------------
\* The processes, with their queues, leases, cancellations and crashes, use the store
\* only as DeliveryRepository allows: every claim they present was handed out and counts
\* on from the ordinal it came with.  What holds of the repository holds of the relay.
KeepsToRepository == Spec

\* The memory of the processes is consistent: a queued job is in one queue or chunk
\* once, an executing job knows its renewal, a job holds its own claim.  Queue, pulled
\* chunk and dispatched jobs each keep the queue's capacity, so that a process never has
\* more than three times that many deliveries on their way.
RelayTypeOK ==
  /\ up \in (SUBSET Worker) \ {{}}
  /\ polling \subseteq up
  /\ jobs \in [Key -> Job \cup {NULL}]
  /\ \A k \in Key : Alive(k) =>
       /\ jobs[k].claim \in held /\ k = <<jobs[k].claim.delivery, jobs[k].claim.generation>>
       /\ Process(k) \in up
       /\ jobs[k].phase \in Phases
       /\ jobs[k].phase \in Executing => jobs[k].renewAt # NULL
       /\ jobs[k].phase = "sleeping" => jobs[k].wakeAt # NULL
  /\ \A w \in Worker :
       LET waiting == queue[w] \o chunk[w]
       IN  /\ {waiting[i] : i \in DOMAIN waiting} = In(w, {"queued"})
           /\ Len(waiting) = Cardinality(In(w, {"queued"}))
  /\ \A w \in Worker : /\ Len(queue[w]) <= QueueCapacity
                       /\ Len(chunk[w]) <= QueueCapacity
                       /\ Cardinality(In(w, Dispatched)) <= QueueCapacity

\* A result that is about to be published is the stored truth: the history ends the
\* claim with that very outcome, and a final answer can no longer be changed.
ResultsAreStored ==
  \A k \in Key : Is(k, {"publishing"}) =>
    /\ \E a \in attempts : /\ a.delivery = k[1] /\ a.generation = k[2]
                           /\ a.ordinal = jobs[k].claim.ordinal - 1
                           /\ a.outcome = jobs[k].outcome
                           /\ a.decision # "RetryScheduled"
    /\ jobs[k].outcome \in {"Delivered", "Rejected"} => State(k[1]) = jobs[k].outcome

\* maxAttempts bounds what is stored under one claim: fewer retries than that, and then an
\* attempt that ends it.  The budget starts afresh only with the next claim, never when a
\* lease is renewed, a retry wakes up, an answer is lost or another process takes over.
AttemptsPerClaim ==
  \A k \in Key :
    LET ofClaim == {a \in attempts : a.delivery = k[1] /\ a.generation = k[2]}
    IN  /\ Cardinality({a \in ofClaim : a.decision = "RetryScheduled"}) < MaxAttempts
        /\ Cardinality(ofClaim) <= MaxAttempts

\* With renewals in time an attempt is only ever out under a claim that passes the
\* fence, so two processes never send one delivery at the same time, whatever crashes,
\* takeovers and queueing come between.
AttemptsUnderClaim ==
  \A k \in Key : Is(k, {"sending", "observed"}) => Fenced(jobs[k].claim)

\* Unless an interrupt, a database error or a clock that steps back cuts in, a running
\* process never forgets a claim it holds: not when its queue is full, a lease is lost or
\* a retry waits.
NoOrphanClaims ==
  \A d \in Delivery : Exists(d) /\ deliveries[d].owner \in up =>
    Alive(<<d, deliveries[d].generation>>)

\* What the description of relay_delivery_fencing_rejections_total says: the mutations
\* the fence refuses are stale.  Without disruptions only a refusal fails a job, and a
\* job that has itself stored the last attempt of its claim is not stale; one whose
\* ordinal was taken has not.
RefusedMutationsAreStale ==
  \A k \in Key : Is(k, {"releasing"}) =>
    \A a \in attempts :
      a.delivery = k[1] /\ a.generation = k[2] => a.decision = "RetryScheduled"

\* What the recovery runbook says: "The normal reconciler polls automatically", in every
\* process for as long as it runs.
NormalReconcilerPolls == up \subseteq polling

\* No delivery is left behind: each claim of a pending delivery is followed by its end
\* or by another claim, after any crash, refusal, lost answer, interrupt or reopening.
EveryClaimMovesOn ==
  \A d \in Delivery : \A g \in 1..(MaxGeneration - 1) :
    (Exists(d) /\ State(d) = "Pending" /\ deliveries[d].generation = g)
      ~> (Exists(d) /\ (State(d) # "Pending" \/ deliveries[d].generation > g))

\* Every job ends, so whoever waits for its result is answered, permits come back and
\* the reconciler's mutex is freed, although no one may read the published results.
EveryJobEnds == \A k \in Key : Alive(k) ~> ~Alive(k)

===============================================================================
