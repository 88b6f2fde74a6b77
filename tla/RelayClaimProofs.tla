---------------------------- MODULE RelayClaimProofs ----------------------------
(***************************************************************************)
(* Proofs about the claims of the relay: how long a job keeps one, what it *)
(* stores under it, that it is given back, and that the memory of the      *)
(* processes stays consistent over it.  They hold for any number of        *)
(* processes and deliveries, any limits and, where nothing else is said,   *)
(* every disruption.                                                       *)
(***************************************************************************)
EXTENDS RelayProofs, FiniteSetTheorems

-------------------------------------------------------------------------------
(* How a step moves one job.                                               *)

\* Moves from phase to phase that keep the claim, the attempts made and the renewal.
\* A queued or a starting job that is abandoned stays where it is.
Forward == {<<"claimed", "queued">>, <<"claimed", "rejected">>, <<"queued", "queued">>,
            <<"queued", "starting">>, <<"starting", "starting">>,
            <<"waiting", "sending">>, <<"sending", "observed">>, <<"sleeping", "waiting">>}

Advances(k) ==
  /\ Alive(k)
  /\ <<jobs[k].phase, jobs'[k].phase>> \in Forward
  /\ jobs'[k].phase = "queued" => jobs[k].phase = "queued" \/ Offer(k)
  /\ jobs'[k].phase = "starting" =>
       \/ jobs[k].phase = "starting"
       \/ \E w \in Worker : Dispatch(w) /\ k = Head(chunk[w])
  /\ jobs'[k].claim = jobs[k].claim
  /\ jobs'[k].spent = jobs[k].spent
  /\ jobs'[k].renewAt = jobs[k].renewAt

\* The job failed, and has its claim still to give back.
Fails(k) ==
  /\ Alive(k)
  /\ jobs[k].phase \in Dispatched /\ jobs'[k].phase \in Ending
  /\ jobs'[k].phase = "dying" => jobs[k].phase = "dying" \/ "clock" \in Disruptions
  /\ Process(k)' = Process(k)

\* The job begins, under a claim newer than any before.
Begins(k) ==
  /\ ~Alive(k)
  /\ jobs'[k].phase = "claimed" /\ jobs'[k].spent = 0
  /\ Process(k)' \in up \cup polling
  /\ Exists(k[1]) => deliveries[k[1]].generation < k[2]
  /\ UNCHANGED <<attempts, up>>

\* The job renews its lease, and starts or goes on with what it does.
Renews(k) ==
  /\ Alive(k)
  /\ Renew(jobs[k].claim)
  /\ \/ jobs[k].phase = "starting" /\ jobs'[k].phase = "waiting"
     \/ /\ jobs'[k].phase = jobs[k].phase
        /\ jobs[k].phase \in Executing
        /\ jobs'[k].wakeAt = jobs[k].wakeAt
  /\ jobs'[k].claim = jobs[k].claim
  /\ jobs'[k].spent = jobs[k].spent
  /\ jobs'[k].renewAt = now + RenewInterval

\* The job stores the attempt it observed.
Stores(k) ==
  \E decision \in Decisions(k), t \in WorkerClock, delay \in RetryDelays :
    /\ StoreAttempt(k, decision, t, delay)
    /\ jobs'[k].claim = [jobs[k].claim EXCEPT !.ordinal = @ + 1]
    /\ jobs'[k].phase = PhaseAfter(decision)
    /\ jobs'[k].spent = jobs[k].spent + 1
    /\ jobs'[k].renewAt = jobs[k].renewAt
    /\ jobs'[k].wakeAt = WakeAfter(decision, delay)

\* An abandoned job keeps its claim, its attempts and its renewal.
LEMMA AbandonedKeeps ==
  ASSUME RInv, NEW k \in Key, Alive(k), Alive(k)', jobs'[k] = Abandoned(jobs[k])
  PROVE  Advances(k) \/ Fails(k)
<1> DEFINE job == jobs[k]
<1>1. job \in Job
  BY DEF RInv, JobsOK, Alive
<1>2. job.phase \notin {"claimed", "rejected"}
  BY DEF Abandoned, Alive
<1>3. CASE job.phase \in Executing
  <2>1. Abandoned(job) = [job EXCEPT !.cancelled = TRUE, !.phase = "releasing"]
    BY <1>2, <1>3 DEF Abandoned, Job
  <2>2. Abandoned(job).phase = "releasing" /\ Abandoned(job).claim = job.claim
    BY <1>1, <2>1 DEF Job
  <2> QED BY <1>3, <2>2 DEF Fails, Dispatched, Ending, Process
<1>4. CASE job.phase \notin Executing
  <2>1. Abandoned(job) = [job EXCEPT !.cancelled = TRUE]
    BY <1>1, <1>2, <1>4 DEF Abandoned, Job
  <2>2. /\ Abandoned(job).phase = job.phase /\ Abandoned(job).claim = job.claim
        /\ Abandoned(job).spent = job.spent /\ Abandoned(job).renewAt = job.renewAt
    BY <1>1, <2>1 DEF Job
  <2>3. job.phase \in {"queued", "starting"} \cup Ending
    BY <1>1, <1>2, <1>4 DEF Job, Phases, Dispatched
  <2> QED BY <2>2, <2>3 DEF Advances, Fails, Forward, Dispatched, Ending, Process
<1> QED BY <1>3, <1>4

\* A job that goes to another phase keeps everything else.
LEMMA GotoKeeps ==
  ASSUME RInv, NEW k \in Key, Alive(k), NEW phase \in Phases, Goto(k, phase)
  PROVE  /\ jobs'[k].phase = phase /\ jobs'[k].claim = jobs[k].claim
         /\ jobs'[k].spent = jobs[k].spent /\ jobs'[k].renewAt = jobs[k].renewAt
<1>1. jobs[k] \in Job /\ jobs \in [Key -> Job \cup {NULL}]
  BY DEF RInv, JobsOK, Alive
<1>2. jobs'[k] = [jobs[k] EXCEPT !.phase = phase]
  BY <1>1 DEF Goto
<1> QED BY <1>1, <1>2 DEF Job

\* What a job does itself; it changes the tables only by its own statements.
LEMMA OwnMoves ==
  ASSUME RInv, NEW k \in Key, Alive(k), JobStep(k), Alive(k)'
  PROVE  \/ Advances(k) /\ UNCHANGED vars
         \/ Fails(k) \/ Renews(k) \/ Stores(k)
<1>1. jobs[k] \in Job /\ jobs \in [Key -> Job \cup {NULL}]
  BY DEF RInv, JobsOK, Alive
<1>2. ~End(k) /\ ~Dies(k)
  BY <1>1 DEF End, Dies, Alive
<1>3. ASSUME NEW phase \in {"releasing", "dying"}, Goto(k, phase),
             jobs[k].phase \in Dispatched,
             phase = "dying" => "clock" \in Disruptions
      PROVE  Fails(k)
  <2>1. phase \in Phases /\ phase \in Ending
    BY DEF Phases, Dispatched, Ending
  <2> QED BY <1>3, <2>1, GotoKeeps DEF Fails, Process
<1>4. ASSUME NEW phase \in {"queued", "rejected", "sending"}, Goto(k, phase),
             <<jobs[k].phase, phase>> \in Forward, phase = "queued" => Offer(k)
      PROVE  Advances(k)
  <2>1. phase \in Phases
    BY DEF Phases, Dispatched, Executing
  <2> QED BY <1>4, <2>1, GotoKeeps DEF Advances
<1>5. ASSUME Offer(k) PROVE Advances(k)
  BY <1>4, <1>5 DEF Offer, Submittable, Is, Forward
<1>6. ASSUME OfferRefused(k) PROVE Advances(k)
  BY <1>4, <1>6 DEF OfferRefused, Submittable, Is, Forward
<1>7. ASSUME Send(k) PROVE Advances(k)
  BY <1>4, <1>7 DEF Send, Is, Forward
<1>8. ASSUME NEW outcome \in Outcomes, Answer(k, outcome) PROVE Advances(k)
  <2>1. jobs'[k] = [jobs[k] EXCEPT !.phase = "observed", !.outcome = outcome]
    BY <1>1, <1>8 DEF Answer
  <2>2. /\ jobs'[k].phase = "observed" /\ jobs'[k].claim = jobs[k].claim
        /\ jobs'[k].spent = jobs[k].spent /\ jobs'[k].renewAt = jobs[k].renewAt
    BY <1>1, <2>1 DEF Job
  <2> QED BY <1>8, <2>2 DEF Answer, Advances, Is, Forward
<1>9. ASSUME Wake(k) PROVE Advances(k)
  <2>1. jobs'[k] = [jobs[k] EXCEPT !.phase = "waiting", !.outcome = NULL, !.wakeAt = NULL]
    BY <1>1, <1>9 DEF Wake
  <2>2. /\ jobs'[k].phase = "waiting" /\ jobs'[k].claim = jobs[k].claim
        /\ jobs'[k].spent = jobs[k].spent /\ jobs'[k].renewAt = jobs[k].renewAt
    BY <1>1, <2>1 DEF Job
  <2> QED BY <1>9, <2>2 DEF Wake, Advances, Is, Forward
<1>10. ASSUME NEW phase, jobs' = RenewedJob(k, phase)
       PROVE  /\ jobs'[k].phase = phase /\ jobs'[k].claim = jobs[k].claim
              /\ jobs'[k].spent = jobs[k].spent /\ jobs'[k].renewAt = now + RenewInterval
              /\ jobs'[k].wakeAt = jobs[k].wakeAt
  <2>1. jobs'[k] = [jobs[k] EXCEPT !.phase = phase, !.renewAt = now + RenewInterval]
    BY <1>1, <1>10 DEF RenewedJob
  <2> QED BY <1>1, <2>1 DEF Job
<1>11. ASSUME FirstRenew(k) PROVE Fails(k) \/ Renews(k)
  <2>1. CASE jobs[k].cancelled
    <3>1. jobs' = RenewedJob(k, "releasing")
      BY <1>11, <2>1 DEF FirstRenew
    <3> QED BY <1>10, <1>11, <3>1 DEF Fails, FirstRenew, Is, Dispatched, Ending, Process
  <2>2. CASE ~jobs[k].cancelled
    <3>1. jobs' = RenewedJob(k, "waiting")
      BY <1>11, <2>2 DEF FirstRenew
    <3> QED BY <1>10, <1>11, <3>1 DEF Renews, FirstRenew, Is
  <2> QED BY <2>1, <2>2
<1>12. ASSUME KeepAlive(k) PROVE Renews(k)
  BY <1>10, <1>12 DEF KeepAlive, Renews, Is
<1>13. ASSUME NEW decision \in Decisions(k), NEW delay,
              jobs' = Attempted(k, decision, delay)
       PROVE  /\ jobs'[k].claim = [jobs[k].claim EXCEPT !.ordinal = @ + 1]
              /\ jobs'[k].phase = PhaseAfter(decision)
              /\ jobs'[k].spent = jobs[k].spent + 1
              /\ jobs'[k].renewAt = jobs[k].renewAt
              /\ jobs'[k].wakeAt = WakeAfter(decision, delay)
  <2>1. jobs'[k] = [jobs[k] EXCEPT !.phase = PhaseAfter(decision),
                                   !.claim.ordinal = @ + 1, !.spent = @ + 1,
                                   !.wakeAt = WakeAfter(decision, delay)]
    BY <1>1, <1>13 DEF Attempted
  <2> QED BY <1>1, <2>1 DEF Job
<1>14. ASSUME NEW decision \in Decisions(k), NEW t \in WorkerClock, NEW delay \in RetryDelays,
              StoreAttempt(k, decision, t, delay)
       PROVE  Stores(k)
  BY <1>13, <1>14 DEF Stores, StoreAttempt
<1>15. ASSUME NEW decision \in Decisions(k), NEW t \in WorkerClock, NEW delay \in RetryDelays,
              UnheardAttempt(k, decision, t, delay)
       PROVE  Fails(k)
  <2>1. jobs'[k] = [jobs[k] EXCEPT !.phase = "releasing",
                                   !.claim.ordinal = @ + 1, !.spent = @ + 1,
                                   !.wakeAt = WakeAfter(decision, delay)]
    BY <1>1, <1>15 DEF UnheardAttempt, Attempted
  <2>2. jobs'[k].phase = "releasing"
        /\ jobs'[k].claim = [jobs[k].claim EXCEPT !.ordinal = @ + 1]
    BY <1>1, <2>1 DEF Job
  <2>3. jobs'[k].claim.owner = jobs[k].claim.owner
    BY <1>1, <2>2 DEF Job, Claim
  <2> QED BY <1>15, <2>2, <2>3
          DEF Fails, UnheardAttempt, Is, Dispatched, Executing, Ending, Process
<1>16. ASSUME \/ RenewRefused(k) \/ AttemptRefused(k) \/ AttemptThrows(k)
              \/ UnheardRenewal(k)
       PROVE  Fails(k)
  BY <1>3, <1>16 DEF RenewRefused, AttemptRefused, AttemptThrows, UnheardRenewal, Is,
                     Dispatched, Executing
<1>17. ASSUME StatementFails(k) PROVE Fails(k)
  BY <1>2, <1>3, <1>17 DEF StatementFails, Is, Dispatched
<1>18. ~(GiveBack(k) \/ Die(k) \/ Publish(k))
  BY <1>2 DEF GiveBack, Die, Publish
<1>19. ASSUME Interrupt(k) PROVE Advances(k) \/ Fails(k)
  <2>1. jobs'[k] = Abandoned(jobs[k])
    BY <1>1, <1>19 DEF Interrupt
  <2> QED BY <2>1, AbandonedKeeps
<1>20. ASSUME \/ Offer(k) \/ OfferRefused(k) \/ Send(k) \/ Wake(k) \/ Interrupt(k)
              \/ \E outcome \in Outcomes : Answer(k, outcome)
       PROVE  UNCHANGED vars
  BY <1>20, Zenon DEF Offer, OfferRefused, Send, Wake, Interrupt, Answer
<1> QED BY <1>5, <1>6, <1>7, <1>8, <1>9, <1>11, <1>12, <1>14, <1>15, <1>16, <1>17, <1>18,
           <1>19, <1>20 DEF JobStep

\* What the step of a job does to another.
LEMMA OthersMove ==
  ASSUME RInv, NEW k \in Key, NEW j \in Key, j # k, Alive(j), JobStep(j)
  PROVE  \/ jobs'[k] = jobs[k]
         \/ Alive(k) /\ jobs'[k] = Abandoned(jobs[k]) /\ Dies(j)
<1>1. jobs \in [Key -> Job \cup {NULL}]
  BY DEF RInv, JobsOK
<1>2. ASSUME Dies(j) PROVE jobs'[k] = jobs[k] \/ (Alive(k) /\ jobs'[k] = Abandoned(jobs[k]))
  BY <1>1, <1>2 DEF Dies, PassJobs, JobsOf
<1>3. CASE Die(j) \/ StatementFails(j)
  BY <1>1, <1>2, <1>3 DEF Die, StatementFails, Goto, End
<1>4. CASE ~(Die(j) \/ StatementFails(j))
  BY <1>1, <1>4
     DEF JobStep, Offer, OfferRefused, FirstRenew, KeepAlive, RenewRefused, GiveBack,
         Send, Answer, StoreAttempt, AttemptRefused, AttemptThrows, Wake, Publish,
         Interrupt, UnheardRenewal, UnheardAttempt, Goto, End, RenewedJob, Attempted
<1> QED BY <1>3, <1>4

\* A delivery that is taken in begins a job, under a key that had none.
LEMMA TakeInBegins ==
  ASSUME RInv, NEW w \in Worker, NEW d \in Delivery, NEW from \in {"accept", "deliver"},
         TakeIn(w, d, from), NEW k \in Key
  PROVE  jobs'[k] = jobs[k] \/ Begins(k)
<1>1. PICK version \in Version \cup {NULL} : Intake(d, Home, version, w)
  BY DEF TakeIn
<1>2. jobs' = [jobs EXCEPT ![<<d, 1>>] = NewJob(ClaimOf(d, 1), from)] /\ up' = up /\ w \in up
  BY DEF TakeIn
<1>3. jobs \in [Key -> Job \cup {NULL}] /\ deliveries \in [Delivery -> Row \cup {NULL}]
  BY DEF RInv, JobsOK, IInv, TypeOK
<1>4. CASE k # <<d, 1>>
  BY <1>2, <1>3, <1>4
<1>5. CASE k = <<d, 1>>
  <2>1. ~Exists(k[1]) /\ attempts' = attempts /\ k[1] = d
    BY <1>1, <1>5 DEF Intake, InsertClaimed
  <2>2. ~Alive(k)
    BY <2>1, NoJobAhead
  <2>3. jobs'[k] = NewJob(ClaimOf(d, 1), from)
    BY <1>2, <1>3, <1>5
  <2>4. ClaimOf(d, 1).owner = w
    BY <1>1, <1>3 DEF ClaimOf, Intake, InsertClaimed, NewRow
  <2>5. jobs'[k].phase = "claimed" /\ jobs'[k].spent = 0 /\ jobs'[k].claim.owner = w
    BY <2>3, <2>4 DEF NewJob
  <2> QED BY <1>2, <2>1, <2>2, <2>5 DEF Begins, Process
<1> QED BY <1>4, <1>5

\* So does a takeover, under a generation above every one before.
LEMMA PollBegins ==
  ASSUME RInv, NEW w \in Worker, NEW from \in {"poll", "manual"}, Poll(w, from),
         NEW k \in Key
  PROVE  jobs'[k] = jobs[k] \/ Begins(k)
<1>0. PICK at \in Readings, S \in SUBSET Delivery :
        \E next \in ReadOrdinals(S) : Polled(w, from, at, S, next)
  BY PollParts
<1>1. PICK next \in ReadOrdinals(S) : Polled(w, from, at, S, next)
  BY <1>0
<1>2. up' = up /\ w \in up \cup polling /\ attempts' = attempts
  BY <1>1 DEF Poll, Polled, TakeBatch, ClaimPending
<1>3. CASE ~(k[1] \in S /\ k[2] = deliveries'[k[1]].generation)
  BY <1>1, <1>3 DEF Polled
<1>4. CASE k[1] \in S /\ k[2] = deliveries'[k[1]].generation
  <2> DEFINE d == k[1]
             row == [deliveries[d] EXCEPT !.owner = w, !.generation = @ + 1,
                                          !.lease = at + LeaseDuration]
  <2>1. d \in Delivery /\ deliveries[d] \in Row
    BY <1>1, <1>4 DEF Polled, Batches, Claimable, Exists, RInv, IInv, TypeOK, Key
  <2>2. deliveries'[d] = row
    BY <1>1, <1>4, <2>1 DEF Polled, TakeBatch, ClaimPending, Claimed
  <2>3. row.generation = deliveries[d].generation + 1 /\ row.owner = w
    BY <2>1 DEF Row
  <2>4. deliveries[d].generation \in Nat
    BY <2>1, TableAssumption DEF Row
  <2> HIDE DEF row
  <2>5. deliveries[d].generation < k[2]
    BY <1>4, <2>2, <2>3, <2>4
  <2>6. ~Alive(k)
    <3>1. k[2] \in Nat
      BY TableAssumption DEF Key
    <3> QED BY <2>4, <2>5, <3>1, NoJobAhead
  <2>7. jobs'[k] = NewJob(ClaimOf(d, next[d]), from)
    BY <1>1, <1>4 DEF Polled
  <2>8. ClaimOf(d, next[d]).owner = w
    BY <2>2, <2>3 DEF ClaimOf
  <2>9. jobs'[k].phase = "claimed" /\ jobs'[k].spent = 0 /\ jobs'[k].claim.owner = w
    BY <2>7, <2>8 DEF NewJob
  <2> QED BY <1>2, <2>5, <2>6, <2>9 DEF Begins, Process
<1> QED BY <1>3, <1>4

\* The steps of the processes that are no step of a job.
LEMMA StreamMoves ==
  ASSUME RInv, NEW w \in Worker, Pull(w) \/ Dispatch(w) \/ Crash(w) \/ InterruptPass(w),
         NEW k \in Key, Alive(k)'
  PROVE  jobs'[k] = jobs[k] \/ Advances(k) \/ Fails(k)
<1>1. jobs \in [Key -> Job \cup {NULL}]
  BY DEF RInv, JobsOK
<1>2. ASSUME Pull(w) \/ Crash(w) PROVE jobs'[k] = jobs[k]
  BY <1>2 DEF Pull, Crash, Alive
<1>3. ASSUME InterruptPass(w) PROVE jobs'[k] = jobs[k] \/ Advances(k) \/ Fails(k)
  BY <1>3, AbandonedKeeps DEF InterruptPass, PassJobs, JobsOf
<1>4. ASSUME Dispatch(w) PROVE jobs'[k] = jobs[k] \/ Advances(k)
  <2> DEFINE j == Head(chunk[w])
  <2>1. j \in Key /\ Alive(j) /\ jobs[j].phase = "queued"
    <3>1. Line(queue[w], chunk[w], In(w, {"queued"})) /\ chunk[w] # <<>>
      BY <1>4 DEF RInv, QueuesOK, Dispatch
    <3>2. j \in In(w, {"queued"})
      BY <3>1, TailLine
    <3> QED BY <3>2 DEF In, JobsOf
  <2>2. Goto(j, "starting") /\ j = Head(chunk[w])
    BY <1>4 DEF Dispatch
  <2> HIDE DEF j
  <2>3. CASE k # j
    BY <1>1, <2>1, <2>2, <2>3 DEF Goto
  <2>4. CASE k = j
    <3>1. "starting" \in Phases
      BY DEF Phases, Dispatched
    <3> QED BY <1>4, <2>1, <2>2, <2>4, <3>1, GotoKeeps DEF Advances, Forward
  <2> QED BY <2>3, <2>4
<1> QED BY <1>2, <1>3, <1>4

\* Whatever the relay does, a job that is there afterwards was there before as it is,
\* has begun, or has moved in one of these ways.
LEMMA JobMoves ==
  ASSUME RInv, [RelayNext]_relayVars, NEW k \in Key, Alive(k)'
  PROVE  \/ jobs'[k] = jobs[k]
         \/ Begins(k) \/ Advances(k) \/ Fails(k) \/ Renews(k) \/ Stores(k)
<1>1. ASSUME NEW w \in Worker, NEW d \in Delivery, NEW from \in {"accept", "deliver"},
             TakeIn(w, d, from)
      PROVE  jobs'[k] = jobs[k] \/ Begins(k)
  BY <1>1, TakeInBegins
<1>2. ASSUME NEW w \in Worker, NEW from \in {"poll", "manual"}, Poll(w, from)
      PROVE  jobs'[k] = jobs[k] \/ Begins(k)
  BY <1>2, PollBegins
<1>3. ASSUME NEW w \in Worker, Pull(w) \/ Dispatch(w) \/ Crash(w) \/ InterruptPass(w)
      PROVE  jobs'[k] = jobs[k] \/ Advances(k) \/ Fails(k)
  BY <1>3, StreamMoves
<1>4. ASSUME NEW j \in Key, Alive(j), JobStep(j)
      PROVE  \/ jobs'[k] = jobs[k]
             \/ Advances(k) \/ Fails(k) \/ Renews(k) \/ Stores(k)
  <2>1. CASE j = k
    BY <1>4, <2>1, OwnMoves
  <2>2. CASE j # k
    BY <1>4, <2>2, OthersMove, AbandonedKeeps
  <2> QED BY <2>1, <2>2
<1>5. ASSUME \/ \E d \in Delivery : Recover(d)
             \/ RelayTick
             \/ UNCHANGED relayVars
      PROVE  jobs'[k] = jobs[k]
  BY <1>5 DEF Recover, RelayTick, relayVars
<1> QED BY <1>1, <1>2, <1>3, <1>4, <1>5 DEF RelayNext, Work

-------------------------------------------------------------------------------
(* The row under a claim that passes the fence.                            *)

\* A statement of another claim leaves it alone,
LEMMA OthersLeaveRow ==
  ASSUME IInv, NEW c \in held, Owned(c), NEW e \in held, e # c,
         \/ Renew(e) \/ Release(e)
         \/ \E outcome \in Outcomes, decision \in AttemptDecisions, due \in DueTimes :
              Record(e, outcome, decision, due)
  PROVE  deliveries'[c.delivery] = deliveries[c.delivery]
<1>1. Owned(e)
  BY DEF Renew, RenewClaim, Release, ReleaseClaim, Record, RecordAttempt, Fenced
<1>2. e.delivery # c.delivery
  BY <1>1 DEF Owned, IInv, ClaimsTraceRows
<1>3. e.delivery \in Delivery /\ c.delivery \in Delivery
  BY DEF IInv, TypeOK, Claim
<1>4. deliveries \in [Delivery -> Row \cup {NULL}]
  BY DEF IInv, TypeOK
<1>5. CASE Renew(e)
  BY <1>2, <1>3, <1>4, <1>5 DEF Renew, RenewClaim
<1>6. CASE Release(e)
  BY <1>2, <1>3, <1>4, <1>6 DEF Release, ReleaseClaim
<1>7. ASSUME NEW outcome, NEW decision, NEW due, Record(e, outcome, decision, due)
      PROVE  deliveries'[c.delivery] = deliveries[c.delivery]
  BY <1>2, <1>3, <1>4, <1>7 DEF Record, RecordAttempt
<1> QED BY <1>5, <1>6, <1>7

\* and so do intakes, takeovers, operators and the clock.
LEMMA StrangersLeaveRow ==
  ASSUME IInv, NEW c \in held, Fenced(c),
         \/ \E d \in Delivery, version \in Version \cup {NULL}, w \in Worker :
              Intake(d, Home, version, w)
         \/ \E w \in Worker : Reconcile(w, Home)
         \/ \E d \in Delivery : Operate(d)
         \/ Advance
         \/ UNCHANGED vars
  PROVE  deliveries'[c.delivery] = deliveries[c.delivery]
<1> DEFINE e == c.delivery
<1>1. /\ e \in Delivery /\ deliveries \in [Delivery -> Row \cup {NULL}]
      /\ Exists(e) /\ State(e) = "Pending"
  BY DEF IInv, TypeOK, Claim, Fenced, Owned
<1>2. ASSUME NEW d \in Delivery, NEW version, NEW w, Intake(d, Home, version, w)
      PROVE  deliveries'[e] = deliveries[e]
  BY <1>1, <1>2 DEF Intake, InsertClaimed
<1>3. ASSUME NEW w \in Worker, Reconcile(w, Home) PROVE deliveries'[e] = deliveries[e]
  <2>1. PICK at \in Nat, S \in SUBSET Delivery : \E next : BatchTaken(w, Home, at, S, next)
    BY <1>3, ReconcileParts, RelayAssumption
  <2>2. PICK next : BatchTaken(w, Home, at, S, next)
    BY <2>1
  <2>3. /\ deliveries[e] \in Row /\ deliveries[e].owner = c.owner /\ c.owner \in Worker
        /\ deliveries[e].lease > now
    BY <1>1 DEF Fenced, Owned, Exists, IInv, TypeOK, Claim
  <2>4. deliveries[e].lease \in Nat /\ now \in Nat /\ at <= now
    BY <2>2, <2>3, OwnedRow, TableAssumption DEF Fenced, IInv, TypeOK, BatchTaken
  <2>5. ~Claimable(e, Home, at)
    BY <2>3, <2>4, NullAssumption DEF Claimable
  <2>6. e \notin S
    BY <2>2, <2>5 DEF BatchTaken
  <2> QED BY <1>1, <2>2, <2>6 DEF BatchTaken, TakesOver
<1>4. ASSUME NEW d \in Delivery, Operate(d) PROVE deliveries'[e] = deliveries[e]
  <2>1. d # e
    BY <1>1, <1>4 DEF Operate, RetryDeadLetter, TerminateDeadLetter, RepairDeadLetter
  <2> QED BY <1>1, <1>4, <2>1
          DEF Operate, RetryDeadLetter, TerminateDeadLetter, RepairDeadLetter
<1>5. CASE Advance
  BY <1>5 DEF Advance, Tick
<1>6. CASE UNCHANGED vars
  BY <1>6 DEF vars
<1> QED BY <1>2, <1>3, <1>4, <1>5, <1>6

\* What a job asks of the tables: nothing, or a statement of its own claim.
LEMMA JobStatement ==
  ASSUME RInv, NEW k \in Key, Alive(k), JobStep(k)
  PROVE  LET c == jobs[k].claim
         IN  \/ UNCHANGED vars
             \/ Renew(c) \/ Release(c)
             \/ \E outcome \in Outcomes, decision \in AttemptDecisions, due \in DueTimes :
                  Record(c, outcome, decision, due)
<1> DEFINE c == jobs[k].claim
<1>1. CASE \/ Offer(k) \/ OfferRefused(k) \/ RenewRefused(k) \/ Send(k)
           \/ \E outcome \in Outcomes : Answer(k, outcome)
           \/ AttemptRefused(k) \/ AttemptThrows(k) \/ Wake(k) \/ Publish(k)
           \/ Interrupt(k) \/ StatementFails(k)
  BY <1>1, SilentStep
<1>2. CASE FirstRenew(k) \/ KeepAlive(k) \/ UnheardRenewal(k)
  BY <1>2 DEF FirstRenew, KeepAlive, UnheardRenewal
<1>3. CASE GiveBack(k) \/ Die(k)
  BY <1>3 DEF GiveBack, Die, GivesUp
<1>4. ASSUME NEW decision \in Decisions(k), NEW t \in WorkerClock, NEW delay \in RetryDelays,
             StoreAttempt(k, decision, t, delay) \/ UnheardAttempt(k, decision, t, delay)
      PROVE  \E outcome \in Outcomes, dec \in AttemptDecisions, due \in DueTimes :
               Record(c, outcome, dec, due)
  <2>1. /\ Is(k, {"observed"}) /\ Record(c, jobs[k].outcome, decision, t + delay)
    BY <1>4 DEF StoreAttempt, UnheardAttempt
  <2>2. jobs[k].outcome \in Outcomes
    BY <2>1 DEF RInv, JobsOK, Sound, Is
  <2>3. decision \in AttemptDecisions
    BY DEF Decisions, Decision, AttemptDecisions
  <2>4. t + delay \in DueTimes
    BY DEF DueTimes
  <2> QED BY <2>1, <2>2, <2>3, <2>4
<1> QED BY <1>1, <1>2, <1>3, <1>4 DEF JobStep

\* Two jobs hold two claims.
LEMMA JobsDiffer ==
  ASSUME RInv, NEW j \in Key, NEW k \in Key, Alive(j), Alive(k), j # k
  PROVE  jobs[j].claim \in held /\ jobs[k].claim \in held /\ jobs[j].claim # jobs[k].claim
BY DEF RInv, JobsOK, Sound

\* So the row under the lease of a job that goes on changes only by what the job does.
LEMMA RowOfHolder ==
  ASSUME RInv, [RelayNext]_relayVars, NEW k \in Key, Alive(k), Alive(k)',
         Fenced(jobs[k].claim)
  PROVE  deliveries'[k[1]] = deliveries[k[1]] \/ Renews(k) \/ Stores(k) \/ Fails(k)
<1> DEFINE c == jobs[k].claim
<1>1. c \in held /\ c.delivery = k[1] /\ Owned(c)
  BY DEF RInv, JobsOK, Sound, Fenced
<1>2. ASSUME \/ \E d \in Delivery, version \in Version \cup {NULL}, w \in Worker :
                  Intake(d, Home, version, w)
             \/ \E w \in Worker : Reconcile(w, Home)
             \/ \E d \in Delivery : Operate(d)
             \/ Advance
             \/ UNCHANGED vars
      PROVE  deliveries'[k[1]] = deliveries[k[1]]
  BY <1>1, <1>2, StrangersLeaveRow DEF RInv
<1>3. ASSUME NEW w \in Worker, NEW d \in Delivery, NEW from, TakeIn(w, d, from)
      PROVE  deliveries'[k[1]] = deliveries[k[1]]
  BY <1>2, <1>3 DEF TakeIn
<1>4. ASSUME NEW w \in Worker, NEW from, Poll(w, from)
      PROVE  deliveries'[k[1]] = deliveries[k[1]]
  BY <1>2, <1>4, PollParts DEF Polled, Reconcile
<1>5. ASSUME NEW w \in Worker, Pull(w) \/ Dispatch(w) \/ Crash(w) \/ InterruptPass(w)
      PROVE  deliveries'[k[1]] = deliveries[k[1]]
  BY <1>2, <1>5 DEF Pull, Dispatch, Crash, InterruptPass
<1>6. ASSUME JobStep(k)
      PROVE  deliveries'[k[1]] = deliveries[k[1]] \/ Renews(k) \/ Stores(k) \/ Fails(k)
  BY <1>2, <1>6, OwnMoves
<1>7. ASSUME NEW j \in Key, j # k, Alive(j), JobStep(j)
      PROVE  deliveries'[k[1]] = deliveries[k[1]]
  <2> DEFINE e == jobs[j].claim
  <2>1. e \in held /\ e # c
    BY <1>7, JobsDiffer
  <2>2. \/ UNCHANGED vars
        \/ Renew(e) \/ Release(e)
        \/ \E outcome \in Outcomes, decision \in AttemptDecisions, due \in DueTimes :
             Record(e, outcome, decision, due)
    BY <1>7, JobStatement
  <2> HIDE DEF e, c
  <2> QED BY <1>1, <1>2, <2>1, <2>2, OthersLeaveRow DEF RInv
<1>8. ASSUME NEW d \in Delivery, Recover(d) PROVE deliveries'[k[1]] = deliveries[k[1]]
  BY <1>2, <1>8 DEF Recover
<1>9. ASSUME RelayTick \/ UNCHANGED relayVars PROVE deliveries'[k[1]] = deliveries[k[1]]
  BY <1>2, <1>9 DEF RelayTick, relayVars, vars
<1> QED BY <1>3, <1>4, <1>5, <1>6, <1>7, <1>8, <1>9 DEF RelayNext, Work

-------------------------------------------------------------------------------
(* With renewals in time the lease covers the attempts.                    *)

TimelyNext == Work \/ TimelyTick

\* The phases in which the lease of a job is renewed and an attempt is still to come.
Leased == Executing \ {"publishing"}

\* The row belongs to the claim of the job, and its lease ends when the renewal that is
\* planned would still be early enough.
LeaseKept(k) ==
  /\ Owned(jobs[k].claim)
  /\ jobs[k].renewAt \in Nat /\ jobs[k].renewAt >= now
  /\ deliveries[k[1]].lease = jobs[k].renewAt + (LeaseDuration - RenewInterval)

LeaseInv == \A k \in Key : Is(k, Leased) => LeaseKept(k)

\* Such a claim passes the fence.
LEMMA KeptIsFenced ==
  ASSUME RInv, NEW k \in Key, Alive(k), LeaseKept(k)
  PROVE  Fenced(jobs[k].claim)
<1>1. jobs[k].claim.delivery = k[1]
  BY DEF RInv, JobsOK, Sound
<1>2. now \in Nat /\ LeaseDuration \in Nat /\ RenewInterval \in Nat
      /\ RenewInterval < LeaseDuration
  BY TableAssumption, RelayAssumption DEF RInv, IInv, TypeOK
<1> QED BY <1>1, <1>2 DEF LeaseKept, Fenced

\* Work takes no time.
LEMMA WorkKeepsTime ==
  ASSUME RInv, Work
  PROVE  now' = now
<1>1. ASSUME NEW k \in Key, Alive(k), JobStep(k) PROVE now' = now
  BY <1>1, JobStatement
     DEF vars, Renew, RenewClaim, Release, ReleaseClaim, Record, RecordAttempt
<1>2. ASSUME \/ \E w \in Worker, d \in Delivery, from \in {"accept", "deliver"} :
                  TakeIn(w, d, from)
             \/ \E w \in Worker, from \in {"poll", "manual"} : Poll(w, from)
             \/ \E w \in Worker : Pull(w) \/ Dispatch(w) \/ Crash(w) \/ InterruptPass(w)
             \/ \E d \in Delivery : Recover(d)
      PROVE  now' = now
  BY <1>2, PollParts
     DEF TakeIn, Intake, InsertClaimed, Polled, TakeBatch, ClaimPending, Pull, Dispatch,
              Crash, InterruptPass, vars, Recover, Operate, RetryDeadLetter,
              RepairDeadLetter, TerminateDeadLetter
<1> QED BY <1>1, <1>2 DEF Work

\* A renewal moves the end of the lease and the next renewal together.
LEMMA RenewalKeepsLease ==
  ASSUME RInv, NEW k \in Key, Renews(k)
  PROVE  LeaseKept(k)'
<1> DEFINE c == jobs[k].claim
           row == [deliveries[k[1]] EXCEPT !.lease = now + LeaseDuration]
<1>1. /\ c \in held /\ c.delivery = k[1] /\ k[1] \in Delivery
      /\ Owned(c) /\ deliveries[k[1]] \in Row
  BY OwnedRow DEF RInv, IInv, JobsOK, Sound, Renews, Renew, RenewClaim, Fenced, Key
<1>2. now \in Nat /\ LeaseDuration \in Nat /\ RenewInterval \in Nat /\ now' = now
  BY TableAssumption, RelayAssumption
     DEF RInv, IInv, TypeOK, Renews, Renew, RenewClaim
<1>3. deliveries'[k[1]] = row
  BY <1>1 DEF Renews, Renew, RenewClaim, RInv, IInv, TypeOK
<1>4. /\ row.lease = now + LeaseDuration /\ row.standing = deliveries[k[1]].standing
      /\ row.owner = deliveries[k[1]].owner /\ row.generation = deliveries[k[1]].generation
      /\ row # NULL
  <2>1. row \in Row
    BY <1>1, <1>2 DEF Row
  <2> QED BY <1>1, <2>1, NullAssumption DEF Row
<1> HIDE DEF row
<1>5. jobs'[k].claim = c /\ jobs'[k].renewAt = now + RenewInterval
  BY DEF Renews
<1> HIDE DEF c
<1>6. Owned(jobs[k].claim)'
  BY <1>1, <1>3, <1>4, <1>5 DEF Owned, Exists, State
<1> QED BY <1>2, <1>3, <1>4, <1>5, <1>6 DEF LeaseKept

\* Storing an attempt that will be retried keeps the claim and its lease.
LEMMA RetryKeepsLease ==
  ASSUME RInv, NEW k \in Key, Alive(k), LeaseKept(k), Stores(k), Is(k, Leased)'
  PROVE  LeaseKept(k)'
<1> DEFINE c == jobs[k].claim
           old == deliveries[k[1]]
<1>1. PICK decision \in Decisions(k), t \in WorkerClock, delay \in RetryDelays :
        /\ StoreAttempt(k, decision, t, delay)
        /\ jobs'[k].claim = [c EXCEPT !.ordinal = @ + 1]
        /\ jobs'[k].phase = PhaseAfter(decision)
        /\ jobs'[k].renewAt = jobs[k].renewAt
  BY DEF Stores
<1> DEFINE row == AfterAttempt(old, jobs[k].outcome, decision, t + delay)
<1>2. /\ c \in held /\ c \in Claim /\ c.delivery = k[1] /\ k[1] \in Delivery
      /\ Owned(c) /\ old \in Row
  BY OwnedRow DEF RInv, IInv, JobsOK, Sound, LeaseKept, Key
<1>3. decision = "RetryScheduled"
  BY <1>1 DEF PhaseAfter, Is, Leased
<1>4. deliveries'[k[1]] = row /\ now' = now
  BY <1>1, <1>2 DEF StoreAttempt, Record, RecordAttempt, RInv, IInv, TypeOK
<1>5. t + delay \in Nat
  BY TableAssumption DEF WorkerClock
<1>6. row = [old EXCEPT
        !.standing = SqlState(AttemptRecord(jobs[k].outcome, Status, decision, 0, 0, 0), @),
        !.eligible = t + delay]
  BY <1>2, <1>3 DEF AfterAttempt, Finishing, Row
<1>7. /\ row.lease = old.lease /\ row.owner = old.owner /\ row.generation = old.generation
      /\ row.standing.state = old.standing.state /\ row # NULL
  <2>1. /\ old.standing.state = "Pending" /\ StandingChecks(old.standing)
        /\ old.standing \in Standings
    BY <1>2, OwnedRow DEF RInv, IInv, Row
  <2> DEFINE standing == SqlState(AttemptRecord(jobs[k].outcome, Status, decision, 0, 0, 0),
                                  old.standing)
  <2>2. standing = [state |-> old.standing.state, status |-> old.standing.status,
                    reason |-> old.standing.reason]
    BY <1>3 DEF SqlState, AttemptRecord
  <2>3. standing \in Standings /\ standing.state = old.standing.state
    BY <2>1, <2>2 DEF Standings
  <2> HIDE DEF standing
  <2>4. row = [old EXCEPT !.standing = standing, !.eligible = t + delay]
    BY <1>6 DEF standing
  <2>5. row \in Row
    BY <1>2, <1>5, <2>3, <2>4 DEF Row
  <2> HIDE DEF row
  <2> QED BY <1>2, <2>3, <2>4, <2>5, NullAssumption DEF Row
<1>8. /\ jobs'[k].claim.delivery = c.delivery /\ jobs'[k].claim.owner = c.owner
      /\ jobs'[k].claim.generation = c.generation
  BY <1>1, <1>2 DEF Claim
<1> HIDE DEF row, c
<1>9. Owned(jobs[k].claim)'
  BY <1>2, <1>4, <1>7, <1>8 DEF Owned, Exists, State
<1> QED BY <1>1, <1>4, <1>7, <1>9 DEF LeaseKept

\* Every timely step keeps the lease of every job that may make an attempt.
LEMMA LeaseStep ==
  ASSUME RInv, LeaseInv, [TimelyNext]_relayVars, NEW k \in Key, Is(k, Leased)'
  PROVE  LeaseKept(k)'
<1>1. [RelayNext]_relayVars
  BY DEF TimelyNext, TimelyTick, RelayNext
<1>2. Alive(k)' /\ jobs'[k].phase \in Leased
  BY DEF Is, Alive
<1>3. CASE Renews(k)
  BY <1>3, RenewalKeepsLease
<1>4. CASE Stores(k)
  <2>1. Is(k, Leased)
    BY <1>4 DEF Stores, StoreAttempt, Is, Leased, Executing
  <2> QED BY <1>4, <2>1, RetryKeepsLease DEF LeaseInv, Is
<1>5. ~Fails(k) /\ ~Begins(k)
  BY <1>2 DEF Fails, Begins, Leased, Executing, Ending
<1>6. CASE ~Renews(k) /\ ~Stores(k) /\ (jobs'[k] = jobs[k] \/ Advances(k))
  <2>1. /\ Alive(k) /\ jobs[k].phase \in Leased
        /\ jobs'[k].claim = jobs[k].claim /\ jobs'[k].renewAt = jobs[k].renewAt
    BY <1>2, <1>6 DEF Advances, Forward, Leased, Executing, Alive
  <2>2. LeaseKept(k)
    BY <2>1 DEF LeaseInv, Is
  <2>3. deliveries'[k[1]] = deliveries[k[1]]
    BY <1>1, <1>2, <1>5, <1>6, <2>1, <2>2, KeptIsFenced, RowOfHolder
  <2>4. jobs[k].claim.delivery = k[1]
    BY <2>1 DEF RInv, JobsOK, Sound
  <2>5. jobs'[k].renewAt >= now'
    <3>1. ASSUME TimelyTick PROVE jobs[k].renewAt >= now'
      <4>1. jobs[k].renewAt > now /\ now' = now + 1
        BY <2>1, <3>1 DEF TimelyTick, RelayTick, Advance, Tick, Is, Leased
      <4>2. now \in Nat /\ jobs[k].renewAt \in Nat
        BY <2>2, TableAssumption DEF LeaseKept, RInv, IInv, TypeOK
      <4> QED BY <4>1, <4>2
    <3>2. ASSUME Work \/ UNCHANGED relayVars PROVE now' = now
      BY <3>2, WorkKeepsTime DEF relayVars
    <3> QED BY <2>1, <2>2, <3>1, <3>2 DEF LeaseKept, TimelyNext
  <2>6. Owned(jobs[k].claim)'
    BY <2>1, <2>2, <2>3, <2>4 DEF LeaseKept, Owned, Exists, State
  <2> QED BY <2>1, <2>2, <2>3, <2>5, <2>6 DEF LeaseKept
<1> QED BY <1>1, <1>2, <1>3, <1>4, <1>5, <1>6, JobMoves

\* The memory of every process stays sound when renewals are in time.
LEMMA TimelyIsRelay == TimelySpec => RelaySpec
<1>1. [Work \/ TimelyTick]_relayVars => [RelayNext]_relayVars
  BY DEF TimelyTick, RelayNext
<1> QED BY <1>1, PTL DEF TimelySpec, RelaySpec

\* With renewals in time every attempt is out under a claim that passes the fence.
THEOREM AttemptsAreFenced == TimelySpec => []AttemptsUnderClaim
<1>1. RelayInit => LeaseInv
  BY DEF RelayInit, LeaseInv, Is, Alive
<1>2. RInv /\ LeaseInv /\ [Work \/ TimelyTick]_relayVars => LeaseInv'
  <2>1. SUFFICES ASSUME RInv, LeaseInv, [Work \/ TimelyTick]_relayVars PROVE LeaseInv'
    OBVIOUS
  <2>2. [TimelyNext]_relayVars
    BY <2>1 DEF TimelyNext
  <2>3. \A k \in Key : Is(k, Leased)' => LeaseKept(k)'
    BY <2>1, <2>2, LeaseStep
  <2> QED BY <2>3 DEF LeaseInv
<1>3. RInv /\ LeaseInv => AttemptsUnderClaim
  BY KeptIsFenced DEF LeaseInv, AttemptsUnderClaim, Is, Leased, Executing
<1> QED BY <1>1, <1>2, <1>3, TimelyIsRelay, RelayInductive, PTL DEF TimelySpec

\* The phases in which a request of the job is out, or its outcome not yet stored.
Sending == {"sending", "observed"}

\* One delivery is sent by one job at a time, which holds its newest claim, and only while
\* it is pending.
OneSender ==
  /\ \A j, k \in Key : Is(j, Sending) /\ Is(k, Sending) /\ j[1] = k[1] => j = k
  /\ \A k \in Key : Is(k, Sending) =>
       State(k[1]) = "Pending" /\ deliveries[k[1]].generation = k[2]

\* With renewals in time no two processes ever send one delivery at once, nor does anyone
\* send what is finished, dead or taken over, whatever crashes and repairs come between.
THEOREM OneSenderAtATime == TimelySpec => []OneSender
<1>1. ASSUME RInv, AttemptsUnderClaim PROVE OneSender
  <2>1. ASSUME NEW k \in Key, Is(k, Sending)
        PROVE  /\ k = <<k[1], deliveries[k[1]].generation>>
               /\ State(k[1]) = "Pending" /\ deliveries[k[1]].generation = k[2]
    <3>1. Owned(jobs[k].claim)
      BY <1>1, <2>1 DEF AttemptsUnderClaim, Fenced, Sending
    <3>2. k = <<jobs[k].claim.delivery, jobs[k].claim.generation>>
      BY <1>1, <2>1 DEF RInv, JobsOK, Sound, Is
    <3> QED BY <3>1, <3>2 DEF Owned
  <2> QED BY <2>1 DEF OneSender
<1> QED BY <1>1, AttemptsAreFenced, TimelyIsRelay, RelayInductive, PTL

-------------------------------------------------------------------------------
(* The retry budget bounds what is stored under one claim.                 *)

OfClaim(k) == {a \in attempts : a.delivery = k[1] /\ a.generation = k[2]}
Retries(k) == {a \in OfClaim(k) : a.decision = "RetryScheduled"}

\* The phases in which the job has not ended its attempts.
Trying == Phases \ (Ending \cup {"publishing"})

\* While a job tries, all it stored are retries, and it has counted each of them.
BudgetKept(k) ==
  /\ OfClaim(k) = Retries(k)
  /\ Cardinality(OfClaim(k)) = jobs[k].spent
  /\ jobs[k].spent < MaxAttempts

Bounded(k) ==
  /\ IsFiniteSet(OfClaim(k))
  /\ Cardinality(OfClaim(k)) <= MaxAttempts
  /\ Cardinality(Retries(k)) < MaxAttempts

BudgetInv == \A k \in Key : Bounded(k) /\ (Is(k, Trying) => BudgetKept(k))

\* The attempt a job stores, whether it hears of it or not, is new, and of its claim.
LEMMA StoreAdds ==
  ASSUME RInv, NEW k \in Key, NEW decision, NEW t, NEW delay,
         StoreAttempt(k, decision, t, delay) \/ UnheardAttempt(k, decision, t, delay)
  PROVE  /\ Is(k, {"observed"})
         /\ \E a : /\ a \notin attempts /\ attempts' = attempts \cup {a}
                  /\ a.delivery = k[1] /\ a.generation = k[2] /\ a.decision = decision
<1> DEFINE c == jobs[k].claim
           a == AttemptRow(c, jobs[k].outcome, decision, t + delay)
<1>1. Is(k, {"observed"}) /\ Record(c, jobs[k].outcome, decision, t + delay)
  BY DEF StoreAttempt, UnheardAttempt
<1>2. k = <<c.delivery, c.generation>>
  BY <1>1 DEF RInv, JobsOK, Sound, Is
<1>3. /\ c.ordinal \notin Ordinals(c.delivery) /\ attempts' = attempts \cup {a}
  BY <1>1 DEF Record, RecordAttempt
<1>4. /\ a.delivery = c.delivery /\ a.generation = c.generation /\ a.decision = decision
      /\ a.ordinal = c.ordinal
  BY DEF AttemptRow
<1> HIDE DEF a
<1>5. a \notin attempts
  BY <1>3, <1>4 DEF Ordinals
<1> QED BY <1>1, <1>2, <1>3, <1>4, <1>5

\* What a step adds to the attempts of a claim: nothing, or the one attempt its job
\* stores, which counts it unless the answer was lost.
Grows(k, decision) ==
  /\ Is(k, {"observed"})
  /\ \E a : a \notin attempts /\ a.decision = decision /\ OfClaim(k)' = OfClaim(k) \cup {a}
  /\ \/ jobs'[k].phase = "releasing"
     \/ jobs'[k].phase = PhaseAfter(decision) /\ jobs'[k].spent = jobs[k].spent + 1

LEMMA OfClaimMoves ==
  ASSUME RInv, [RelayNext]_relayVars, NEW k \in Key
  PROVE  \/ OfClaim(k)' = OfClaim(k) /\ ~Stores(k)
         \/ \E decision \in Decisions(k) : Grows(k, decision)
<1>1. CASE attempts' = attempts
  <2>1. OfClaim(k)' = OfClaim(k)
    BY <1>1 DEF OfClaim
  <2>2. ~Stores(k)
    <3>1. SUFFICES ASSUME Stores(k) PROVE FALSE
      OBVIOUS
    <3>2. PICK decision \in Decisions(k), t \in WorkerClock, delay \in RetryDelays :
            StoreAttempt(k, decision, t, delay)
      BY <3>1 DEF Stores
    <3>3. PICK a : a \notin attempts /\ attempts' = attempts \cup {a}
      BY <3>2, StoreAdds
    <3> QED BY <1>1, <3>3
  <2> QED BY <2>1, <2>2
<1>2. ASSUME NEW j \in Key, Alive(j), NEW decision \in Decisions(j), NEW t \in WorkerClock,
             NEW delay \in RetryDelays,
             StoreAttempt(j, decision, t, delay) \/ UnheardAttempt(j, decision, t, delay)
      PROVE  \/ OfClaim(k)' = OfClaim(k) /\ ~Stores(k)
             \/ \E dec \in Decisions(k) : Grows(k, dec)
  <2>1. Is(j, {"observed"})
    BY <1>2, StoreAdds
  <2>2. PICK a : /\ a \notin attempts /\ attempts' = attempts \cup {a}
                 /\ a.delivery = j[1] /\ a.generation = j[2] /\ a.decision = decision
    BY <1>2, StoreAdds
  <2>3. CASE j = k
    <3>1. OfClaim(k)' = OfClaim(k) \cup {a}
      BY <2>2, <2>3 DEF OfClaim
    <3>2. jobs[k] \in Job /\ jobs \in [Key -> Job \cup {NULL}]
      BY <1>2, <2>3 DEF RInv, JobsOK, Alive
    <3>3. CASE StoreAttempt(j, decision, t, delay)
      <4>1. jobs'[k] = [jobs[k] EXCEPT !.phase = PhaseAfter(decision),
                                       !.claim.ordinal = @ + 1, !.spent = @ + 1,
                                       !.wakeAt = WakeAfter(decision, delay)]
        BY <2>3, <3>2, <3>3 DEF StoreAttempt, Attempted
      <4>2. jobs'[k].phase = PhaseAfter(decision) /\ jobs'[k].spent = jobs[k].spent + 1
        BY <3>2, <4>1 DEF Job
      <4> QED BY <1>2, <2>1, <2>2, <2>3, <3>1, <4>2 DEF Grows
    <3>4. CASE UnheardAttempt(j, decision, t, delay)
      <4>1. jobs'[k] = [jobs[k] EXCEPT !.phase = "releasing",
                                       !.claim.ordinal = @ + 1, !.spent = @ + 1,
                                       !.wakeAt = WakeAfter(decision, delay)]
        BY <2>3, <3>2, <3>4 DEF UnheardAttempt, Attempted
      <4>2. jobs'[k].phase = "releasing"
        BY <3>2, <4>1 DEF Job
      <4> QED BY <1>2, <2>1, <2>2, <2>3, <3>1, <4>2 DEF Grows
    <3> QED BY <1>2, <3>3, <3>4
  <2>4. CASE j # k
    <3>1. ~(a.delivery = k[1] /\ a.generation = k[2])
      BY <2>2, <2>4 DEF Key
    <3>2. OfClaim(k)' = OfClaim(k)
      BY <2>2, <3>1 DEF OfClaim
    <3>3. ~Stores(k)
      <4>1. SUFFICES ASSUME Stores(k) PROVE FALSE
        OBVIOUS
      <4>2. PICK dec \in Decisions(k), time \in WorkerClock, wait \in RetryDelays :
              StoreAttempt(k, dec, time, wait)
        BY <4>1 DEF Stores
      <4>3. PICK b : /\ b \notin attempts /\ attempts' = attempts \cup {b}
                     /\ b.delivery = k[1] /\ b.generation = k[2]
        BY <4>2, StoreAdds
      <4> QED BY <2>2, <3>1, <4>3
    <3> QED BY <3>2, <3>3
  <2> QED BY <2>3, <2>4
<1>3. ASSUME NEW j \in Key, Alive(j), JobStep(j), attempts' # attempts
      PROVE  \E decision \in Decisions(j), t \in WorkerClock, delay \in RetryDelays :
               StoreAttempt(j, decision, t, delay) \/ UnheardAttempt(j, decision, t, delay)
  <2>1. CASE \/ Offer(j) \/ OfferRefused(j) \/ RenewRefused(j) \/ Send(j)
             \/ \E outcome \in Outcomes : Answer(j, outcome)
             \/ AttemptRefused(j) \/ AttemptThrows(j) \/ Wake(j) \/ Publish(j)
             \/ Interrupt(j) \/ StatementFails(j)
    BY <1>3, <2>1, SilentStep DEF vars
  <2>2. CASE FirstRenew(j) \/ KeepAlive(j) \/ UnheardRenewal(j)
    BY <1>3, <2>2 DEF FirstRenew, KeepAlive, UnheardRenewal, Renew, RenewClaim
  <2>3. CASE GiveBack(j) \/ Die(j)
    BY <1>3, <2>3 DEF GiveBack, Die, GivesUp, Release, ReleaseClaim, vars
  <2> QED BY <1>3, <2>1, <2>2, <2>3 DEF JobStep
<1>4. CASE attempts' # attempts
  <2>1. ~(\/ \E w \in Worker, d \in Delivery, from \in {"accept", "deliver"} :
                 TakeIn(w, d, from)
          \/ \E w \in Worker, from \in {"poll", "manual"} : Poll(w, from)
          \/ \E w \in Worker : Pull(w) \/ Dispatch(w) \/ Crash(w) \/ InterruptPass(w)
          \/ \E d \in Delivery : Recover(d)
          \/ RelayTick \/ UNCHANGED relayVars)
    BY <1>4, PollParts
       DEF TakeIn, Intake, InsertClaimed, Polled, TakeBatch, ClaimPending, Pull, Dispatch,
                Crash, InterruptPass, vars, Recover, Operate, RetryDeadLetter,
                RepairDeadLetter, TerminateDeadLetter, RelayTick, Advance, Tick, relayVars
  <2>2. \E j \in Key : Alive(j) /\ JobStep(j)
    BY <2>1 DEF RelayNext, Work
  <2> QED BY <1>2, <1>3, <1>4, <2>2
<1> QED BY <1>1, <1>4

\* A claim that is only now handed out has no attempts.
LEMMA BeginsFresh ==
  ASSUME RInv, AttemptsClaimed, NEW k \in Key, Begins(k)
  PROVE  OfClaim(k) = {}
<1>1. SUFFICES ASSUME NEW a \in OfClaim(k) PROVE FALSE
  OBVIOUS
<1>2. PICK c \in held : c.delivery = k[1] /\ c.generation = k[2]
  BY <1>1 DEF AttemptsClaimed, OfClaim
<1>3. /\ Exists(k[1]) /\ k[2] <= deliveries[k[1]].generation
      /\ deliveries[k[1]].generation < k[2]
  BY <1>2 DEF RInv, IInv, ClaimsTraceRows, Begins
<1>4. deliveries[k[1]].generation \in Nat /\ k[2] \in Nat
  BY <1>3, TableAssumption DEF RInv, IInv, TypeOK, Exists, Row, Key
<1> QED BY <1>3, <1>4

\* An attempt that is stored is within the budget: the schedule yields a retry only
\* while one more attempt may follow.
LEMMA GrowsWithinBudget ==
  ASSUME RInv, NEW k \in Key, Bounded(k), Is(k, Trying) => BudgetKept(k),
         NEW decision \in Decisions(k), Grows(k, decision)
  PROVE  Bounded(k)' /\ (Is(k, Trying)' => BudgetKept(k)')
<1>1. PICK a : a \notin attempts /\ a.decision = decision /\ OfClaim(k)' = OfClaim(k) \cup {a}
  BY DEF Grows
<1>2. BudgetKept(k) /\ jobs[k] \in Job
  BY DEF Grows, Is, Trying, Phases, Dispatched, Executing, Ending, RInv, JobsOK, Alive
<1>3. jobs[k].spent \in Nat /\ MaxAttempts \in Nat
  BY <1>2, RelayAssumption DEF Job
<1> DEFINE n == jobs[k].spent
<1>4. IsFiniteSet(OfClaim(k)) /\ Cardinality(OfClaim(k)) = n /\ n < MaxAttempts
      /\ Retries(k) = OfClaim(k)
  BY <1>2 DEF Bounded, BudgetKept
<1>5. a \notin OfClaim(k)
  BY <1>1 DEF OfClaim
<1>6. IsFiniteSet(OfClaim(k)') /\ Cardinality(OfClaim(k)') = n + 1
  <2>1. IsFiniteSet(OfClaim(k) \cup {a})
    BY <1>4, FS_AddElement
  <2>2. Cardinality(OfClaim(k) \cup {a}) = Cardinality(OfClaim(k)) + 1
    BY <1>4, <1>5, FS_AddElement
  <2> QED BY <1>1, <1>4, <2>1, <2>2
<1>7. Retries(k)' = {b \in OfClaim(k)' : b.decision = "RetryScheduled"}
  BY DEF Retries
<1>8. CASE decision = "RetryScheduled"
  <2>1. PICK again \in {Again(k), FALSE} : decision = Decision(jobs[k].outcome, again)
    BY DEF Decisions, Grows
  <2>2. again
    BY <1>8, <2>1 DEF Decision
  <2>3. n + 1 < MaxAttempts
    BY <2>2 DEF Again
  <2>4. Retries(k)' = OfClaim(k)'
    BY <1>1, <1>4, <1>7, <1>8 DEF Retries
  <2>5. Bounded(k)'
    BY <1>3, <1>6, <2>3, <2>4 DEF Bounded
  <2>6. Is(k, Trying)' => BudgetKept(k)'
    <3>1. Is(k, Trying)' => jobs'[k].phase # "releasing"
      BY DEF Is, Trying, Ending
    <3>2. Is(k, Trying)' => jobs'[k].spent = n + 1
      BY <3>1 DEF Grows
    <3> QED BY <1>6, <2>3, <2>4, <3>2 DEF BudgetKept
  <2> QED BY <2>5, <2>6
<1>9. CASE decision # "RetryScheduled"
  <2>1. Retries(k)' = OfClaim(k)
    BY <1>1, <1>4, <1>7, <1>9 DEF Retries
  <2>2. Bounded(k)'
    BY <1>3, <1>4, <1>6, <2>1 DEF Bounded
  <2>3. ~Is(k, Trying)'
    BY <1>9 DEF Grows, PhaseAfter, Is, Trying, Ending
  <2> QED BY <2>2, <2>3
<1> QED BY <1>8, <1>9

LEMMA BudgetStep ==
  ASSUME RInv, AttemptsClaimed, BudgetInv, [RelayNext]_relayVars, NEW k \in Key
  PROVE  Bounded(k)' /\ (Is(k, Trying)' => BudgetKept(k)')
<1>1. Bounded(k) /\ (Is(k, Trying) => BudgetKept(k))
  BY DEF BudgetInv
<1>2. CASE \E decision \in Decisions(k) : Grows(k, decision)
  BY <1>1, <1>2, GrowsWithinBudget
<1>3. CASE OfClaim(k)' = OfClaim(k) /\ ~Stores(k)
  <2>1. Retries(k)' = Retries(k)
    BY <1>3 DEF Retries
  <2>2. Bounded(k)'
    BY <1>1, <1>3, <2>1 DEF Bounded
  <2>3. ASSUME Is(k, Trying)' PROVE BudgetKept(k)'
    <3>1. Alive(k)' /\ jobs'[k].phase \in Trying
      BY <2>3 DEF Is, Alive
    <3>2. ~Fails(k)
      BY <3>1 DEF Fails, Trying
    <3>3. CASE Begins(k)
      <4>1. OfClaim(k) = {} /\ jobs'[k].spent = 0
        BY <3>3, BeginsFresh DEF Begins
      <4>2. Cardinality(OfClaim(k)) = 0
        BY <4>1, FS_EmptySet
      <4>3. 0 < MaxAttempts
        BY RelayAssumption
      <4>4. Retries(k) = OfClaim(k)
        BY <4>1 DEF Retries
      <4> QED BY <1>3, <2>1, <4>1, <4>2, <4>3, <4>4 DEF BudgetKept
    <3>4. CASE Advances(k) \/ Renews(k) \/ jobs'[k] = jobs[k]
      <4>1. Is(k, Trying) /\ jobs'[k].spent = jobs[k].spent
        BY <3>1, <3>4 DEF Advances, Forward, Renews, Is, Alive, Trying, Phases, Dispatched,
                          Executing, Ending
      <4> QED BY <1>1, <1>3, <2>1, <4>1 DEF BudgetKept
    <3> QED BY <1>3, <3>1, <3>2, <3>3, <3>4, JobMoves
  <2> QED BY <2>2, <2>3
<1> QED BY <1>2, <1>3, OfClaimMoves

\* However often leases are renewed, answers lost and deliveries taken over, no claim
\* stores more attempts than its retry policy allows.
THEOREM ClaimsWithinBudget == RelaySpec => []AttemptsPerClaim
<1>1. RelayInit => BudgetInv
  <2>1. SUFFICES ASSUME RelayInit PROVE BudgetInv
    OBVIOUS
  <2>2. \A k \in Key : OfClaim(k) = {} /\ Retries(k) = {} /\ ~Is(k, Trying)
    BY <2>1 DEF RelayInit, Init, TablesInit, OfClaim, Retries, Is, Alive
  <2>3. IsFiniteSet({}) /\ Cardinality({}) = 0
    BY FS_EmptySet
  <2>4. MaxAttempts \in Nat \ {0}
    BY RelayAssumption
  <2> QED BY <2>2, <2>3, <2>4 DEF BudgetInv, Bounded
<1>2. RInv /\ AttemptsClaimed /\ BudgetInv /\ [RelayNext]_relayVars => BudgetInv'
  <2>1. SUFFICES ASSUME RInv, AttemptsClaimed, BudgetInv, [RelayNext]_relayVars
                 PROVE  BudgetInv'
    OBVIOUS
  <2>2. \A k \in Key : Bounded(k)' /\ (Is(k, Trying)' => BudgetKept(k)')
    BY <2>1, BudgetStep
  <2> QED BY <2>2 DEF BudgetInv
<1>3. BudgetInv => AttemptsPerClaim
  BY DEF BudgetInv, Bounded, OfClaim, Retries, AttemptsPerClaim
<1>4. RelaySpec => []AttemptsClaimed
  <2>1. KeepsToRepository <=> Spec
    BY DEF KeepsToRepository
  <2> QED BY <2>1, RelayKeeps, AttemptsTrace, PTL
<1> QED BY <1>1, <1>2, <1>3, <1>4, RelayInductive, PTL DEF RelaySpec

-------------------------------------------------------------------------------
(* No claim is forgotten, unless an interrupt, a database error or a defect cuts in. *)

\* What may happen besides: crashes and operators.
Undisturbed == Disruptions \cap {"interrupt", "database", "clock"} = {}

\* A job never dies, and what it publishes has ended its claim.
Settles(k) ==
  /\ jobs[k].phase # "dying"
  /\ jobs[k].phase = "publishing" => ~Owned(jobs[k].claim)

OrphanInv == NoOrphanClaims /\ \A k \in Key : Alive(k) => Settles(k)

\* A job ends by its own last step: it gives its claim back, or publishes.
LEMMA OwnEnd ==
  ASSUME Undisturbed, RInv, NEW k \in Key, Alive(k), JobStep(k), jobs[k].phase # "dying"
  PROVE  Alive(k)' \/ GiveBack(k) \/ Publish(k)
<1>1. jobs[k] \in Job /\ jobs \in [Key -> Job \cup {NULL}]
  BY DEF RInv, JobsOK, Alive
<1>2. ASSUME NEW job \in Job, jobs' = [jobs EXCEPT ![k] = job] PROVE Alive(k)'
  BY <1>1, <1>2, JobAssumption DEF Alive
<1>3. ASSUME NEW phase \in Phases, Goto(k, phase) PROVE Alive(k)'
  <2>1. [jobs[k] EXCEPT !.phase = phase] \in Job
    BY <1>1 DEF Job
  <2> QED BY <1>1, <1>2, <1>3, <2>1 DEF Goto
<1>4. {"queued", "rejected", "releasing", "sending", "observed", "waiting"} \subseteq Phases
  BY DEF Phases, Dispatched, Executing, Ending
<1>5. CASE \/ Offer(k) \/ OfferRefused(k) \/ RenewRefused(k) \/ Send(k) \/ AttemptRefused(k)
  BY <1>3, <1>4, <1>5 DEF Offer, OfferRefused, RenewRefused, Send, AttemptRefused
<1>6. ASSUME NEW outcome \in Outcomes, Answer(k, outcome) PROVE Alive(k)'
  <2>1. [jobs[k] EXCEPT !.phase = "observed", !.outcome = outcome] \in Job
    BY <1>1, <1>4 DEF Job
  <2>2. jobs' = [jobs EXCEPT ![k] = [jobs[k] EXCEPT !.phase = "observed",
                                                    !.outcome = outcome]]
    BY <1>1, <1>6 DEF Answer
  <2> QED BY <1>2, <2>1, <2>2
<1>7. ASSUME Wake(k) PROVE Alive(k)'
  <2>1. [jobs[k] EXCEPT !.phase = "waiting", !.outcome = NULL, !.wakeAt = NULL] \in Job
    BY <1>1, <1>4 DEF Job
  <2>2. jobs' = [jobs EXCEPT ![k] = [jobs[k] EXCEPT !.phase = "waiting", !.outcome = NULL,
                                                    !.wakeAt = NULL]]
    BY <1>1, <1>7 DEF Wake
  <2> QED BY <1>2, <2>1, <2>2
<1>8. ASSUME FirstRenew(k) \/ KeepAlive(k) PROVE Alive(k)'
  <2>1. PICK phase \in Phases : jobs' = RenewedJob(k, phase)
    BY <1>1, <1>4, <1>8 DEF FirstRenew, KeepAlive, Job
  <2>2. now + RenewInterval \in Nat
    BY TableAssumption, RelayAssumption DEF RInv, IInv, TypeOK
  <2>3. [jobs[k] EXCEPT !.phase = phase, !.renewAt = now + RenewInterval] \in Job
    BY <1>1, <2>2 DEF Job
  <2>4. jobs' = [jobs EXCEPT ![k] = [jobs[k] EXCEPT !.phase = phase,
                                                    !.renewAt = now + RenewInterval]]
    BY <1>1, <2>1 DEF RenewedJob
  <2> QED BY <1>2, <2>3, <2>4
<1>9. ASSUME NEW decision \in Decisions(k), NEW t \in WorkerClock, NEW delay \in RetryDelays,
             StoreAttempt(k, decision, t, delay)
      PROVE  Alive(k)'
  <2>1. [jobs[k].claim EXCEPT !.ordinal = @ + 1] \in held'
    BY <1>9 DEF StoreAttempt, Record
  <2>2. [jobs[k].claim EXCEPT !.ordinal = @ + 1] \in Claim
    BY <1>9, <2>1, RecordStep DEF RInv, IInv, TypeOK
  <2> QED BY <1>2, <1>9, <2>2, AttemptedJob
<1>10. ~Die(k)
  BY DEF Die, Dies, Is
<1>11. ~(\/ AttemptThrows(k) \/ Interrupt(k) \/ StatementFails(k) \/ UnheardRenewal(k)
         \/ \E decision \in Decisions(k), t \in WorkerClock, delay \in RetryDelays :
              UnheardAttempt(k, decision, t, delay))
  BY DEF Undisturbed, AttemptThrows, Interrupt, StatementFails, UnheardRenewal, UnheardAttempt
<1> QED BY <1>5, <1>6, <1>7, <1>8, <1>9, <1>10, <1>11 DEF JobStep

\* So when a job is gone, its claim has passed the fence for the last time, or its
\* process has crashed.
LEMMA EndsSettled ==
  ASSUME Undisturbed, RInv, OrphanInv, [RelayNext]_relayVars,
         NEW k \in Key, Alive(k), ~Alive(k)'
  PROVE  ~Owned(jobs[k].claim) \/ Release(jobs[k].claim) \/ Process(k) \notin up'
<1>1. jobs \in [Key -> Job \cup {NULL}] /\ \A j \in Key : Alive(j) => Settles(j)
  BY DEF RInv, JobsOK, OrphanInv
<1>2. jobs'[k] # jobs[k]
  BY DEF Alive
<1>3. ASSUME NEW w \in Worker, NEW d \in Delivery, NEW from \in {"accept", "deliver"},
             TakeIn(w, d, from)
      PROVE  FALSE
  BY <1>2, <1>3, TakeInBegins DEF Begins
<1>4. ASSUME NEW w \in Worker, NEW from \in {"poll", "manual"}, Poll(w, from) PROVE FALSE
  BY <1>2, <1>4, PollBegins DEF Begins
<1>5. ASSUME NEW w \in Worker, Dispatch(w) PROVE FALSE
  <2> DEFINE j == Head(chunk[w])
  <2>1. j \in Key /\ Alive(j)
    BY <1>5, DispatchQueues DEF RInv
  <2>2. jobs' = [jobs EXCEPT ![j] = [jobs[j] EXCEPT !.phase = "starting"]]
    BY <1>5 DEF Dispatch, Goto
  <2>3. [jobs[j] EXCEPT !.phase = "starting"] \in Job
    BY <1>1, <2>1 DEF Alive, Job, Phases, Dispatched
  <2> HIDE DEF j
  <2> QED BY <1>1, <2>1, <2>2, <2>3, JobAssumption DEF Alive
<1>6. ASSUME NEW w \in Worker, Crash(w) PROVE Process(k) \notin up'
  BY <1>2, <1>6 DEF Crash, JobsOf
<1>7. ASSUME NEW w \in Worker, Pull(w) \/ InterruptPass(w) PROVE FALSE
  BY <1>2, <1>7 DEF Pull, InterruptPass, Undisturbed
<1>8. ASSUME NEW j \in Key, j # k, Alive(j), JobStep(j) PROVE FALSE
  BY <1>1, <1>2, <1>8, OthersMove DEF Dies, Is, Settles
<1>9. ASSUME JobStep(k) PROVE ~Owned(jobs[k].claim) \/ Release(jobs[k].claim)
  <2>1. Settles(k)
    BY <1>1
  <2>2. GiveBack(k) \/ Publish(k)
    BY <1>9, <2>1, OwnEnd DEF Settles
  <2> QED BY <2>1, <2>2 DEF GiveBack, GivesUp, Publish, Is, Settles
<1>10. ASSUME \/ \E d \in Delivery : Recover(d)
              \/ RelayTick
              \/ UNCHANGED relayVars
       PROVE  FALSE
  BY <1>2, <1>10 DEF Recover, RelayTick, relayVars
<1> QED BY <1>3, <1>4, <1>5, <1>6, <1>7, <1>8, <1>9, <1>10 DEF RelayNext, Work

\* A row that is new, or has a new generation, has a job.
LEMMA NewRowHasJob ==
  ASSUME RInv, [RelayNext]_relayVars, NEW d \in Delivery
  PROVE  RowStays(d) \/ Alive(<<d, deliveries[d].generation>>)'
<1>1. /\ deliveries \in [Delivery -> Row \cup {NULL}] /\ jobs \in [Key -> Job \cup {NULL}]
      /\ RInv'
  BY RelayStep DEF RInv, JobsOK, IInv, TypeOK
<1>2. ASSUME NEW claim, NEW from PROVE NewJob(claim, from) = NULL => claim \notin Claim
                                       \/ from \notin {"accept", "deliver", "poll", "manual"}
  <2>1. ASSUME claim \in Claim, from \in {"accept", "deliver", "poll", "manual"}
        PROVE  NewJob(claim, from) \in Job
    BY <2>1 DEF NewJob, Job, Phases
  <2> QED BY <2>1, JobAssumption
<1>3. ASSUME NEW w \in Worker, NEW e \in Delivery, NEW from \in {"accept", "deliver"},
             TakeIn(w, e, from)
      PROVE  RowStays(d) \/ Alive(<<d, deliveries[d].generation>>)'
  <2>1. PICK version \in Version \cup {NULL} : Intake(e, Home, version, w)
    BY <1>3 DEF TakeIn
  <2>2. CASE d # e
    BY <1>1, <2>1, <2>2 DEF Intake, InsertClaimed, RowStays
  <2>3. CASE d = e
    <3>1. deliveries'[d].generation = 1 /\ <<d, 1>> \in Key
      BY <1>1, <2>1, <2>3, TableAssumption DEF Intake, InsertClaimed, NewRow, Key
    <3>2. jobs'[<<d, 1>>] = NewJob(ClaimOf(d, 1), from)
      BY <1>1, <1>3, <2>3, <3>1 DEF TakeIn
    <3>3. ClaimOf(d, 1) \in Claim
      BY <1>1, <2>1, <2>3 DEF Intake, RInv, IInv, TypeOK
    <3> QED BY <1>2, <3>1, <3>2, <3>3 DEF Alive
  <2> QED BY <2>2, <2>3
<1>4. ASSUME NEW w \in Worker, NEW from \in {"poll", "manual"}, Poll(w, from)
      PROVE  RowStays(d) \/ Alive(<<d, deliveries[d].generation>>)'
  <2>0. PICK at \in Readings, S \in SUBSET Delivery :
          \E next \in ReadOrdinals(S) : Polled(w, from, at, S, next)
    BY <1>4, PollParts
  <2>1. PICK next \in ReadOrdinals(S) : Polled(w, from, at, S, next)
    BY <2>0
  <2>2. CASE d \notin S
    BY <2>1, <2>2 DEF Polled, TakeBatch, ClaimPending, RowStays
  <2>3. CASE d \in S
    <3>1. ClaimOf(d, next[d]) \in Claim
      BY <1>1, <2>1, <2>3 DEF Polled, TakeBatch, RInv, IInv, TypeOK
    <3>2. deliveries'[d].generation \in 1..MaxGeneration
      BY <3>1 DEF ClaimOf, Claim
    <3>3. <<d, deliveries'[d].generation>> \in Key
      BY <3>2 DEF Key
    <3>4. jobs'[<<d, deliveries'[d].generation>>] = NewJob(ClaimOf(d, next[d]), from)
      BY <2>1, <2>3, <3>3 DEF Polled
    <3> QED BY <1>2, <3>1, <3>4 DEF Alive
  <2> QED BY <2>2, <2>3
<1>5. ASSUME NEW j \in Key, Alive(j), JobStep(j) PROVE RowStays(d)
  <2>1. jobs[j].claim \in held
    BY <1>5 DEF RInv, JobsOK, Sound
  <2>2. deliveries'[d] = deliveries[d] => RowStays(d)
    BY DEF RowStays
  <2> QED BY <1>5, <2>1, <2>2, JobStatement, HolderMovesRow DEF RInv, IInv, vars
<1>6. ASSUME NEW e \in Delivery, Recover(e) PROVE RowStays(d)
  BY <1>6, OperatorMovesRow DEF Recover, RInv, IInv
<1>7. ASSUME \/ \E w \in Worker : Pull(w) \/ Dispatch(w) \/ Crash(w) \/ InterruptPass(w)
             \/ RelayTick
             \/ UNCHANGED relayVars
      PROVE  RowStays(d)
  BY <1>7 DEF Pull, Dispatch, Crash, InterruptPass, vars, RelayTick, Advance, Tick,
              relayVars, RowStays
<1> QED BY <1>3, <1>4, <1>5, <1>6, <1>7 DEF RelayNext, Work

\* A step of a job, or of the environment with it, moves no queue but by an offer.
LEMMA JobStepsAside ==
  ASSUME NEW k \in Key, JobStep(k)
  PROVE  /\ up' = up /\ polling' \subseteq polling
         /\ chunk' = chunk /\ (Offer(k) \/ queue' = queue)
BY DEF JobStep, Offer, OfferRefused, FirstRenew, KeepAlive, RenewRefused, GiveBack, Die,
       Dies, Send, Answer, StoreAttempt, AttemptRefused, AttemptThrows, Wake, Publish,
       Interrupt, StatementFails, UnheardRenewal, UnheardAttempt

\* Which steps move the queues, or end a process.
LEMMA ProcessMoves ==
  ASSUME [RelayNext]_relayVars
  PROVE  \/ up' = up /\ polling' \subseteq polling /\ UNCHANGED <<queue, chunk>>
         \/ \E k \in Key : /\ Alive(k) /\ Offer(k)
                          /\ up' = up /\ polling' \subseteq polling /\ chunk' = chunk
         \/ \E w \in Worker : Pull(w) \/ Dispatch(w) \/ Crash(w)
<1>1. ASSUME NEW k \in Key, Alive(k), JobStep(k)
      PROVE  /\ up' = up /\ polling' \subseteq polling
             /\ chunk' = chunk /\ (Offer(k) \/ queue' = queue)
  BY <1>1, JobStepsAside
<1> DEFINE Aside == up' = up /\ polling' \subseteq polling /\ UNCHANGED <<queue, chunk>>
<1>2. ASSUME NEW w \in Worker, InterruptPass(w) PROVE Aside
  BY <1>2 DEF InterruptPass
<1>3. ASSUME NEW w \in Worker, NEW d \in Delivery, NEW from, TakeIn(w, d, from) PROVE Aside
  BY <1>3 DEF TakeIn
<1>4. ASSUME NEW w \in Worker, NEW from, Poll(w, from) PROVE Aside
  BY <1>4 DEF Poll
<1>5. ASSUME NEW d \in Delivery, Recover(d) PROVE Aside
  BY <1>5 DEF Recover
<1>6. ASSUME RelayTick \/ UNCHANGED relayVars PROVE Aside
  BY <1>6 DEF RelayTick, relayVars
<1> QED
  BY <1>1, <1>2, <1>3, <1>4, <1>5, <1>6 DEF RelayNext, Work

\* A running process keeps a job for every claim it holds.
LEMMA OrphanStep ==
  ASSUME Undisturbed, RInv, OrphanInv, [RelayNext]_relayVars
  PROVE  NoOrphanClaims'
<1>1. RInv' /\ up' \subseteq up /\ [Next]_vars
  <2>1. up' \subseteq up
    BY ProcessMoves DEF Pull, Dispatch, Crash
  <2> QED BY <2>1, RelayStep
<1>2. ASSUME NEW d \in Delivery, deliveries'[d] # NULL, deliveries'[d].owner \in up', RowStays(d)
      PROVE  Alive(<<d, deliveries[d].generation>>)'
  <2>1. deliveries'[d].owner # NULL
    BY <1>1, <1>2, NullAssumption DEF RInv, JobsOK
  <2>2. /\ Exists(d) /\ deliveries'[d].generation = deliveries[d].generation
        /\ deliveries'[d].owner = deliveries[d].owner
    BY <1>2, <2>1 DEF RowStays, Exists
  <2>3. <<d, deliveries[d].generation>> \in Key
    <3>1. deliveries[d] \in Row /\ deliveries[d].owner # NULL
      BY <2>1, <2>2 DEF RInv, IInv, TypeOK, Exists
    <3>2. deliveries[d].generation \in 1..MaxGeneration
      BY <2>2, <3>1, TableAssumption
         DEF RInv, IInv, RowsKeepTheirChecks, ClaimConstraint, Row
    <3> QED BY <3>2 DEF Key
  <2>4. PICK k \in Key : k = <<d, deliveries[d].generation>>
    BY <2>3
  <2>5. Alive(k)
    BY <1>1, <1>2, <2>2, <2>4 DEF OrphanInv, NoOrphanClaims
  <2>6. SUFFICES ASSUME ~Alive(k)' PROVE FALSE
    BY <2>2, <2>4 DEF Alive
  <2> DEFINE c == jobs[k].claim
  <2>7. c \in held /\ c.delivery = d /\ c.generation = deliveries[d].generation
    BY <2>4, <2>5 DEF RInv, JobsOK, Sound
  <2>8. c.owner = deliveries[d].owner /\ Process(k) = c.owner
    BY <2>1, <2>2, <2>7 DEF RInv, IInv, ClaimsTraceRows, Process
  <2>9. Owned(c)
    BY <2>1, <2>2, <2>7, <2>8
       DEF RInv, IInv, RowsKeepTheirChecks, ClaimConstraint, Owned, Exists, State
  <2>10. ~Release(c)
    <3>1. SUFFICES ASSUME Release(c) PROVE FALSE
      OBVIOUS
    <3> DEFINE row == [deliveries[d] EXCEPT !.owner = NULL, !.lease = NULL]
    <3>2. deliveries[d] \in Row
      BY <2>2 DEF RInv, IInv, TypeOK, Exists
    <3>3. deliveries'[d] = row
      BY <2>7, <3>1 DEF Release, ReleaseClaim, RInv, IInv, TypeOK
    <3>4. row.owner = NULL
      BY <3>2 DEF Row
    <3> HIDE DEF row
    <3> QED BY <2>1, <3>3, <3>4
  <2>11. Process(k) \in up'
    BY <1>2, <2>2, <2>8
  <2> QED BY <2>5, <2>6, <2>9, <2>10, <2>11, EndsSettled
<1>3. ASSUME NEW d \in Delivery, Exists(d)', deliveries'[d].owner \in up'
      PROVE  Alive(<<d, deliveries[d].generation>>)'
  BY <1>2, <1>3, NewRowHasJob DEF Exists
<1> QED BY <1>3 DEF NoOrphanClaims

\* No job comes to die, and none publishes under a claim it still holds.
LEMMA SettlesStep ==
  ASSUME Undisturbed, RInv, OrphanInv, [RelayNext]_relayVars, NEW k \in Key, Alive(k)'
  PROVE  Settles(k)'
<1>1. Alive(k) => Settles(k)
  BY DEF OrphanInv
<1>2. jobs'[k].phase # "dying"
  <2>1. "clock" \notin Disruptions
    BY DEF Undisturbed
  <2>2. CASE jobs'[k] = jobs[k]
    BY <1>1, <2>2 DEF Alive, Settles
  <2>3. CASE Begins(k) \/ Advances(k) \/ Renews(k) \/ Stores(k)
    BY <2>3 DEF Begins, Advances, Forward, Renews, Executing, Stores, PhaseAfter
  <2>4. CASE Fails(k)
    BY <1>1, <2>1, <2>4 DEF Fails, Settles
  <2> QED BY <2>2, <2>3, <2>4, JobMoves
<1>3. ASSUME jobs'[k].phase = "publishing" PROVE ~Owned(jobs[k].claim)'
  <2>1. Is(k, {"publishing"})' /\ [Next]_vars
    BY <1>3, RelayStep DEF Is
  <2>2. CASE Is(k, {"publishing"}) /\ jobs'[k].claim = jobs[k].claim
    <3>0. jobs[k].claim \in held /\ ~Owned(jobs[k].claim)
      BY <1>1, <2>2 DEF RInv, JobsOK, Sound, Settles, Is
    <3>1. PICK c \in held : c = jobs[k].claim
      BY <3>0
    <3>2. jobs'[k].claim = c
      BY <2>2, <3>1
    <3>3. ~Owned(c)'
      BY <2>1, <3>0, <3>1, FencedOutStep DEF RInv, IInv
    <3> QED BY <3>2, <3>3 DEF Owned, Exists, State
  <2>3. ASSUME NEW decision \in Decisions(k) \ {"RetryScheduled"}, NEW t \in WorkerClock,
               NEW delay \in RetryDelays, StoreAttempt(k, decision, t, delay)
        PROVE  ~Owned(jobs[k].claim)'
    <3> DEFINE c == jobs[k].claim
               row == AfterAttempt(deliveries[c.delivery], jobs[k].outcome, decision, t + delay)
    <3>1. /\ c \in held /\ c \in Claim /\ k[1] = c.delivery /\ Owned(c)
          /\ deliveries[c.delivery] \in Row
      BY <2>3, OwnedRow
         DEF StoreAttempt, Record, RecordAttempt, Fenced, RInv, IInv, JobsOK, Sound, Is
    <3>2. deliveries'[c.delivery] = row
      BY <2>3, <3>1 DEF StoreAttempt, Record, RecordAttempt, RInv, IInv, TypeOK, Claim
    <3>3. Finishing(decision)
      BY DEF Decisions, Decision, Finishing
    <3>4. row.owner = NULL
      BY <3>1, <3>3 DEF AfterAttempt, Row
    <3>5. jobs'[k].claim \in Claim /\ jobs'[k].claim.delivery = c.delivery
      <4>1. RInv'
        BY RelayStep
      <4>2. Sound(k, jobs[k], held)'
        BY <4>1 DEF RInv, JobsOK
      <4>3. k = <<jobs'[k].claim.delivery, jobs'[k].claim.generation>>
            /\ jobs'[k].claim \in Claim
        BY <4>1, <4>2 DEF Sound, RInv, IInv, TypeOK
      <4> QED BY <3>1, <4>3
    <3> HIDE DEF row, c
    <3>6. jobs'[k].claim.owner # NULL
      BY <3>5, NullAssumption DEF Claim
    <3> QED BY <3>2, <3>4, <3>5, <3>6 DEF Owned
  <2> QED BY <2>1, <2>2, <2>3, ReachesPublishing
<1> QED BY <1>2, <1>3 DEF Settles

UndisturbedInv == Undisturbed /\ OrphanInv

\* Without interrupts, database errors and defects a running process forgets no claim it
\* holds.
THEOREM NothingForgotten == Undisturbed /\ RelaySpec => []NoOrphanClaims
<1>1. Undisturbed /\ RelayInit => UndisturbedInv
  BY DEF RelayInit, Init, TablesInit, UndisturbedInv, OrphanInv, NoOrphanClaims, Exists, Alive
<1>2. RInv /\ UndisturbedInv /\ [RelayNext]_relayVars => UndisturbedInv'
  <2>1. SUFFICES ASSUME RInv, UndisturbedInv, [RelayNext]_relayVars PROVE UndisturbedInv'
    OBVIOUS
  <2>2. NoOrphanClaims' /\ \A k \in Key : Alive(k)' => Settles(k)'
    BY <2>1, OrphanStep, SettlesStep DEF UndisturbedInv
  <2>3. Undisturbed' <=> Undisturbed
    BY DEF Undisturbed
  <2> QED BY <2>1, <2>2, <2>3 DEF UndisturbedInv, OrphanInv
<1>3. UndisturbedInv => NoOrphanClaims
  BY DEF UndisturbedInv, OrphanInv
<1> QED BY <1>1, <1>2, <1>3, RelayInductive, PTL DEF RelaySpec

-------------------------------------------------------------------------------
(* The memory of the processes.                                            *)

\* The place of a job in the queue or the chunk of process `w`.
Stands(k, w) ==
  \/ \E i \in 1..Len(queue[w]) : queue[w][i] = k
  \/ \E i \in 1..Len(chunk[w]) : chunk[w][i] = k

\* What a job knows of its times, and that it runs.
Sane(k) ==
  /\ Process(k) \in up
  /\ jobs[k].phase \in Executing => jobs[k].renewAt # NULL
  /\ jobs[k].phase = "sleeping" => jobs[k].wakeAt # NULL
  /\ jobs[k].phase = "queued" => Stands(k, Process(k))

MemoryInv ==
  /\ up # {} /\ polling \subseteq up
  /\ \A k \in Key : Alive(k) => Sane(k)
  /\ \A w \in Worker : /\ Len(queue[w]) <= QueueCapacity
                       /\ Len(chunk[w]) <= QueueCapacity
                       /\ IsFiniteSet(In(w, Dispatched))
                       /\ Cardinality(In(w, Dispatched)) <= QueueCapacity

\* Processes only ever crash, and never the last one.
LEMMA ProcessesStep ==
  ASSUME MemoryInv, [RelayNext]_relayVars
  PROVE  /\ polling' \subseteq up' /\ up' # {}
         /\ up' = up \/ \E w \in Worker : Crash(w)
<1>1. ASSUME NEW w \in Worker, Crash(w) PROVE polling' \subseteq up' /\ up' # {}
  BY <1>1 DEF Crash, MemoryInv
<1>2. ASSUME ~ \E w \in Worker : Crash(w)
      PROVE  up' = up /\ polling' \subseteq polling
  BY <1>2, ProcessMoves DEF Pull, Dispatch
<1> QED BY <1>1, <1>2 DEF MemoryInv

\* Only these steps move the queues.
LEMMA QueueMoves ==
  ASSUME [RelayNext]_relayVars
  PROVE  \/ UNCHANGED <<queue, chunk>>
         \/ \E k \in Key : Alive(k) /\ Offer(k)
         \/ \E w \in Worker : Pull(w) \/ Dispatch(w) \/ Crash(w)
BY ProcessMoves

\* A job that runs afterwards runs in the same process, or has just begun in one.
LEMMA SameProcess ==
  ASSUME RInv, [RelayNext]_relayVars, NEW k \in Key, Alive(k)'
  PROVE  \/ Alive(k) /\ Process(k)' = Process(k)
         \/ Begins(k)
<1>1. CASE Alive(k) /\ (jobs'[k] = jobs[k] \/ Advances(k) \/ Fails(k) \/ Renews(k))
  BY <1>1 DEF Advances, Fails, Renews, Process
<1>2. CASE Stores(k) /\ Alive(k)
  <2>1. jobs[k].claim \in Claim
    BY <1>2 DEF RInv, JobsOK, Alive, Job
  <2>2. jobs'[k].claim = [jobs[k].claim EXCEPT !.ordinal = @ + 1]
    BY <1>2 DEF Stores
  <2> QED BY <1>2, <2>1, <2>2 DEF Process, Claim
<1>3. Alive(k) \/ Begins(k)
  <2>1. Stores(k) => Alive(k)
    BY DEF Stores, StoreAttempt, Is
  <2> QED BY <2>1, JobMoves DEF Alive, Advances, Fails, Renews
<1>4. Alive(k) => ~Begins(k)
  BY DEF Begins
<1> QED BY <1>1, <1>2, <1>3, <1>4, JobMoves

\* A job that is queued was queued, or is being offered.
LEMMA ReachesQueue ==
  ASSUME RInv, [RelayNext]_relayVars, NEW k \in Key, Is(k, {"queued"})'
  PROVE  Is(k, {"queued"}) \/ Offer(k)
<1>1. Alive(k)' /\ jobs'[k].phase = "queued"
  BY DEF Is
<1>2. CASE jobs'[k] = jobs[k]
  BY <1>1, <1>2 DEF Is, Alive
<1>3. CASE Advances(k)
  BY <1>1, <1>3 DEF Advances, Is
<1>4. ~(Begins(k) \/ Fails(k) \/ Renews(k) \/ Stores(k))
  BY <1>1 DEF Begins, Fails, Renews, Stores, PhaseAfter, Executing, Ending
<1> QED BY <1>1, <1>2, <1>3, <1>4, JobMoves

\* A job that is dispatched was dispatched, or is the head of the chunk just pulled.
LEMMA ReachesDispatch ==
  ASSUME RInv, [RelayNext]_relayVars, NEW k \in Key, Is(k, Dispatched)'
  PROVE  Is(k, Dispatched) \/ \E w \in Worker : Dispatch(w) /\ k = Head(chunk[w])
<1>1. Alive(k)' /\ jobs'[k].phase \in Dispatched
  BY DEF Is
<1>2. CASE jobs'[k] = jobs[k]
  BY <1>1, <1>2 DEF Is, Alive
<1>3. CASE Advances(k)
  BY <1>1, <1>3 DEF Advances, Is, Forward, Dispatched, Executing, Ending
<1>4. CASE Fails(k) \/ Renews(k) \/ Stores(k)
  BY <1>4 DEF Fails, Renews, Stores, StoreAttempt, Is, Dispatched, Executing, Ending
<1>5. ~Begins(k)
  BY <1>1 DEF Begins, Dispatched, Executing, Ending
<1> QED BY <1>1, <1>2, <1>3, <1>4, <1>5, JobMoves

\* A queued job keeps its place until it is dispatched.
LEMMA StandsStep ==
  ASSUME RInv, MemoryInv, [RelayNext]_relayVars, NEW k \in Key, Is(k, {"queued"})'
  PROVE  Stands(k, Process(k))'
<1>1. /\ Alive(k)' /\ jobs'[k].phase = "queued"
      /\ Alive(k) /\ Process(k)' = Process(k)
  <2>1. Alive(k)' /\ jobs'[k].phase = "queued"
    BY DEF Is
  <2>2. ~Begins(k)
    BY <2>1 DEF Begins
  <2> QED BY <2>1, <2>2, SameProcess
<1>2. Process(k) \in Worker
  BY <1>1 DEF RInv, JobsOK, Alive, Process, Job, Claim
<1>3. PICK w \in Worker : w = Process(k)
  BY <1>2
<1>4. SUFFICES Stands(k, w)'
  BY <1>1, <1>3 DEF Stands
<1>5. /\ Line(queue[w], chunk[w], In(w, {"queued"}))
      /\ queue[w] \in Seq(Key) /\ chunk[w] \in Seq(Key)
      /\ queue = [v \in Worker |-> queue[v]] /\ chunk = [v \in Worker |-> chunk[v]]
  BY DEF RInv, QueuesOK, Line
<1>6. CASE Offer(k)
  <2>1. queue'[w] = Append(queue[w], k)
    BY <1>3, <1>5, <1>6 DEF Offer
  <2>2. Len(queue[w]) + 1 \in 1..Len(queue'[w]) /\ queue'[w][Len(queue[w]) + 1] = k
    BY <1>5, <2>1
  <2> QED BY <2>2 DEF Stands
<1>7. ASSUME Is(k, {"queued"}) PROVE Stands(k, w)'
  <2>1. Stands(k, w)
    BY <1>3, <1>7 DEF MemoryInv, Sane, Is
  <2>2. CASE queue'[w] = queue[w] /\ chunk'[w] = chunk[w]
    BY <2>1, <2>2 DEF Stands
  <2>3. ASSUME NEW j \in Key, Offer(j) PROVE Stands(k, w)'
    <3>1. CASE Process(j) = w
      <4>1. queue'[w] = Append(queue[w], j) /\ chunk'[w] = chunk[w]
        BY <1>5, <2>3, <3>1 DEF Offer
      <4>2. \A i \in 1..Len(queue[w]) : i \in 1..Len(queue'[w]) /\ queue'[w][i] = queue[w][i]
        BY <1>5, <2>3, <4>1
      <4> QED BY <2>1, <4>1, <4>2 DEF Stands
    <3>2. CASE Process(j) # w
      BY <1>5, <2>2, <2>3, <3>2 DEF Offer
    <3> QED BY <3>1, <3>2
  <2>4. ASSUME NEW v \in Worker, Pull(v) PROVE Stands(k, w)'
    <3>1. CASE v = w
      <4>1. PICK n \in 1..Len(queue[w]) :
              /\ chunk' = [chunk EXCEPT ![w] = SubSeq(queue[w], 1, n)]
              /\ queue' = [queue EXCEPT ![w] = SubSeq(queue[w], n + 1, Len(queue[w]))]
        BY <2>4, <3>1 DEF Pull
      <4>2. chunk[w] = <<>>
        BY <2>4, <3>1 DEF Pull
      <4>3. PICK i \in 1..Len(queue[w]) : queue[w][i] = k
        BY <2>1, <4>2 DEF Stands
      <4>4. chunk'[w] = SubSeq(queue[w], 1, n)
            /\ queue'[w] = SubSeq(queue[w], n + 1, Len(queue[w]))
        BY <1>5, <4>1
      <4>5. CASE i <= n
        <5>1. i \in 1..Len(chunk'[w]) /\ chunk'[w][i] = k
          BY <1>5, <4>3, <4>4, <4>5
        <5> QED BY <5>1 DEF Stands
      <4>6. CASE i > n
        <5>1. i - n \in 1..Len(queue'[w]) /\ queue'[w][i - n] = k
          BY <1>5, <4>3, <4>4, <4>6
        <5> QED BY <5>1 DEF Stands
      <4> QED BY <1>5, <4>5, <4>6
    <3>2. CASE v # w
      BY <1>5, <2>2, <2>4, <3>2 DEF Pull
    <3> QED BY <3>1, <3>2
  <2>5. ASSUME NEW v \in Worker, Dispatch(v) PROVE Stands(k, w)'
    <3>1. CASE v = w
      <4>1. chunk'[w] = Tail(chunk[w]) /\ queue'[w] = queue[w] /\ chunk[w] # <<>>
        BY <1>5, <2>5, <3>1 DEF Dispatch
      <4>2. k # Head(chunk[w])
        BY <1>1, <2>5, <3>1 DEF Dispatch, Goto, RInv, JobsOK, Alive, Job
      <4>3. ASSUME NEW i \in 1..Len(chunk[w]), chunk[w][i] = k PROVE Stands(k, w)'
        <5>1. i # 1
          BY <1>5, <4>1, <4>2, <4>3
        <5>2. i - 1 \in 1..Len(chunk'[w]) /\ chunk'[w][i - 1] = k
          BY <1>5, <4>1, <4>3, <5>1
        <5> QED BY <5>2 DEF Stands
      <4> QED BY <2>1, <4>1, <4>3 DEF Stands
    <3>2. CASE v # w
      BY <1>5, <2>2, <2>5, <3>2 DEF Dispatch
    <3> QED BY <3>1, <3>2
  <2>6. ASSUME NEW v \in Worker, Crash(v) PROVE Stands(k, w)'
    <3>1. v # w
      BY <1>1, <1>3, <2>6 DEF Crash, JobsOf, Alive
    <3> QED BY <1>5, <2>2, <2>6, <3>1 DEF Crash
  <2> QED BY <2>2, <2>3, <2>4, <2>5, <2>6, QueueMoves
<1> QED BY <1>6, <1>7, ReachesQueue

\* Jobs stay sane.
LEMMA SaneStep ==
  ASSUME RInv, MemoryInv, [RelayNext]_relayVars, NEW k \in Key, Alive(k)'
  PROVE  Sane(k)'
<1>1. Alive(k) => Sane(k)
  BY DEF MemoryInv
<1>2. Process(k)' \in up'
  <2>1. CASE Begins(k)
    BY <2>1 DEF Begins, MemoryInv
  <2>2. CASE Alive(k) /\ Process(k)' = Process(k)
    <3>1. ASSUME NEW w \in Worker, Crash(w) PROVE Process(k)' \in up'
      <4>1. k \notin JobsOf(w)
        BY <3>1 DEF Crash, Alive
      <4>2. Process(k) # w
        BY <2>2, <4>1 DEF JobsOf
      <4> QED BY <1>1, <2>2, <3>1, <4>2 DEF Crash, Sane
    <3> QED BY <1>1, <2>2, <3>1, ProcessesStep DEF Sane
  <2> QED BY <2>1, <2>2, SameProcess
<1>3. now \in Nat /\ now + RenewInterval \in Nat /\ now + RenewInterval # NULL
  BY TableAssumption, RelayAssumption, NullAssumption DEF RInv, IInv, TypeOK
<1>4. jobs'[k].phase \in Executing => jobs'[k].renewAt # NULL
  <2>1. CASE jobs'[k] = jobs[k]
    BY <1>1, <2>1 DEF Alive, Sane
  <2>2. CASE Advances(k)
    BY <1>1, <2>2 DEF Advances, Forward, Sane, Executing
  <2>3. CASE Fails(k) \/ Begins(k)
    BY <2>3 DEF Fails, Begins, Executing, Ending
  <2>4. CASE Renews(k)
    BY <1>3, <2>4 DEF Renews
  <2>5. CASE Stores(k)
    BY <1>1, <2>5 DEF Stores, StoreAttempt, Is, Sane, Executing
  <2> QED BY <2>1, <2>2, <2>3, <2>4, <2>5, JobMoves
<1>5. jobs'[k].phase = "sleeping" => jobs'[k].wakeAt # NULL
  <2>1. CASE jobs'[k] = jobs[k]
    BY <1>1, <2>1 DEF Alive, Sane
  <2>2. CASE Advances(k) \/ Fails(k) \/ Begins(k)
    BY <2>2 DEF Advances, Forward, Fails, Begins, Ending
  <2>3. CASE Renews(k)
    BY <1>1, <2>3 DEF Renews, Sane
  <2>4. CASE Stores(k)
    <3>1. PICK decision \in Decisions(k), t \in WorkerClock, delay \in RetryDelays :
            /\ jobs'[k].phase = PhaseAfter(decision)
            /\ jobs'[k].wakeAt = WakeAfter(decision, delay)
      BY <2>4 DEF Stores
    <3>2. now + delay # NULL
      BY <1>3, TableAssumption, NullAssumption
    <3> QED BY <3>1, <3>2 DEF PhaseAfter, WakeAfter
  <2> QED BY <2>1, <2>2, <2>3, <2>4, JobMoves
<1>6. jobs'[k].phase = "queued" => Stands(k, Process(k))'
  BY StandsStep DEF Is
<1> QED BY <1>2, <1>4, <1>5, <1>6 DEF Sane

\* The queue takes nobody beyond its capacity.
LEMMA QueueBounded ==
  ASSUME RInv, MemoryInv, [RelayNext]_relayVars, NEW w \in Worker
  PROVE  Len(queue'[w]) <= QueueCapacity
<1>1. /\ queue[w] \in Seq(Key) /\ queue = [v \in Worker |-> queue[v]]
      /\ Len(queue[w]) \in Nat /\ Len(queue[w]) <= QueueCapacity /\ QueueCapacity \in Nat
  BY RelayAssumption DEF RInv, QueuesOK, Line, MemoryInv
<1>2. CASE queue'[w] = queue[w]
  BY <1>1, <1>2
<1>3. ASSUME NEW k \in Key, Offer(k) PROVE Len(queue'[w]) <= QueueCapacity
  <2>1. CASE Process(k) = w
    <3>1. queue'[w] = Append(queue[w], k) /\ Len(queue[w]) < QueueCapacity
      BY <1>1, <1>3, <2>1 DEF Offer
    <3>2. Len(queue'[w]) = Len(queue[w]) + 1
      BY <1>1, <1>3, <3>1
    <3> QED BY <1>1, <3>1, <3>2
  <2>2. CASE Process(k) # w
    BY <1>1, <1>2, <1>3, <2>2 DEF Offer
  <2> QED BY <2>1, <2>2
<1>4. ASSUME NEW v \in Worker, Pull(v) PROVE Len(queue'[w]) <= QueueCapacity
  <2>1. CASE v = w
    <3>1. PICK n \in 1..Len(queue[w]) :
            queue' = [queue EXCEPT ![w] = SubSeq(queue[w], n + 1, Len(queue[w]))]
      BY <1>4, <2>1 DEF Pull
    <3>2. queue'[w] = SubSeq(queue[w], n + 1, Len(queue[w]))
      BY <1>1, <3>1
    <3>3. Len(queue'[w]) = Len(queue[w]) - n
      BY <1>1, <3>2
    <3> QED BY <1>1, <3>3
  <2>2. CASE v # w
    BY <1>1, <1>2, <1>4, <2>2 DEF Pull
  <2> QED BY <2>1, <2>2
<1>5. ASSUME NEW v \in Worker, Dispatch(v) PROVE Len(queue'[w]) <= QueueCapacity
  BY <1>2, <1>5 DEF Dispatch
<1>6. ASSUME NEW v \in Worker, Crash(v) PROVE Len(queue'[w]) <= QueueCapacity
  <2>1. CASE v = w
    BY <1>1, <1>6, <2>1 DEF Crash
  <2>2. CASE v # w
    BY <1>1, <1>2, <1>6, <2>2 DEF Crash
  <2> QED BY <2>1, <2>2
<1> QED BY <1>2, <1>3, <1>4, <1>5, <1>6, QueueMoves

\* Only these steps move the pulled chunks.
LEMMA ChunkMoves ==
  ASSUME [RelayNext]_relayVars, NEW w \in Worker
  PROVE  \/ chunk'[w] = chunk[w]
         \/ \E v \in Worker : Pull(v) \/ Dispatch(v) \/ Crash(v)
BY ProcessMoves

\* A chunk is what one pull took from the queue, so it has no more entries than that.
LEMMA ChunkBounded ==
  ASSUME RInv, MemoryInv, [RelayNext]_relayVars, NEW w \in Worker
  PROVE  Len(chunk'[w]) <= QueueCapacity
<1>1. /\ queue[w] \in Seq(Key) /\ chunk[w] \in Seq(Key) /\ chunk = [v \in Worker |-> chunk[v]]
      /\ Len(queue[w]) \in Nat /\ Len(queue[w]) <= QueueCapacity /\ QueueCapacity \in Nat
      /\ Len(chunk[w]) \in Nat /\ Len(chunk[w]) <= QueueCapacity
  BY RelayAssumption DEF RInv, QueuesOK, Line, MemoryInv
<1>2. CASE chunk'[w] = chunk[w]
  BY <1>1, <1>2
<1>3. ASSUME NEW v \in Worker, Pull(v) PROVE Len(chunk'[w]) <= QueueCapacity
  <2>1. CASE v = w
    <3>1. PICK n \in 1..Len(queue[w]) : chunk' = [chunk EXCEPT ![w] = SubSeq(queue[w], 1, n)]
      BY <1>3, <2>1 DEF Pull
    <3>2. chunk'[w] = SubSeq(queue[w], 1, n)
      BY <1>1, <3>1
    <3>3. Len(chunk'[w]) = n
      BY <1>1, <3>2
    <3> QED BY <1>1, <3>3
  <2>2. CASE v # w
    BY <1>1, <1>2, <1>3, <2>2 DEF Pull
  <2> QED BY <2>1, <2>2
<1>4. ASSUME NEW v \in Worker, Dispatch(v) PROVE Len(chunk'[w]) <= QueueCapacity
  <2>1. CASE v = w
    <3>1. chunk'[w] = Tail(chunk[w]) /\ chunk[w] # <<>>
      BY <1>1, <1>4, <2>1 DEF Dispatch
    <3>2. Len(chunk'[w]) = Len(chunk[w]) - 1
      BY <1>1, <3>1
    <3> QED BY <1>1, <3>2
  <2>2. CASE v # w
    BY <1>1, <1>2, <1>4, <2>2 DEF Dispatch
  <2> QED BY <2>1, <2>2
<1>5. ASSUME NEW v \in Worker, Crash(v) PROVE Len(chunk'[w]) <= QueueCapacity
  <2>1. CASE v = w
    BY <1>1, <1>5, <2>1 DEF Crash
  <2>2. CASE v # w
    BY <1>1, <1>2, <1>5, <2>2 DEF Crash
  <2> QED BY <2>1, <2>2
<1> QED BY <1>2, <1>3, <1>4, <1>5, ChunkMoves

\* No process runs more jobs than it has dispatch permits.
LEMMA DispatchedBounded ==
  ASSUME RInv, MemoryInv, [RelayNext]_relayVars, NEW w \in Worker
  PROVE  /\ IsFiniteSet(In(w, Dispatched)')
         /\ Cardinality(In(w, Dispatched)') <= QueueCapacity
<1> DEFINE S == In(w, Dispatched)
           T == In(w, Dispatched)'
<1>1. IsFiniteSet(S) /\ Cardinality(S) <= QueueCapacity /\ QueueCapacity \in Nat
  BY RelayAssumption DEF MemoryInv
<1>2. Cardinality(S) \in Nat
  BY <1>1, FS_CardinalityType
<1>3. ASSUME NEW k \in T
      PROVE  k \in S \/ (Dispatch(w) /\ k = Head(chunk[w]))
  <2>1. k \in Key /\ Alive(k)' /\ jobs'[k].phase \in Dispatched /\ Process(k)' = w
    BY <1>3 DEF In, JobsOf
  <2>2. Is(k, Dispatched)'
    BY <2>1 DEF Is
  <2>3. Alive(k) /\ Process(k) = w
    <3>1. ~Begins(k)
      BY <2>1 DEF Begins, Dispatched, Executing, Ending
    <3> QED BY <2>1, <3>1, SameProcess
  <2>4. CASE Is(k, Dispatched)
    BY <2>1, <2>3, <2>4 DEF Is, In, JobsOf
  <2>5. ASSUME NEW v \in Worker, Dispatch(v), k = Head(chunk[v])
        PROVE  Dispatch(w) /\ k = Head(chunk[w])
    <3>1. Line(queue[v], chunk[v], In(v, {"queued"})) /\ chunk[v] # <<>>
      BY <2>5 DEF RInv, QueuesOK, Dispatch
    <3>2. k \in In(v, {"queued"})
      BY <2>5, <3>1, TailLine
    <3>3. Process(k) = v
      BY <3>2 DEF In, JobsOf
    <3> QED BY <2>3, <2>5, <3>3
  <2> QED BY <2>1, <2>2, <2>4, <2>5, ReachesDispatch
<1> HIDE DEF S, T
<1>4. CASE ~Dispatch(w)
  <2>1. T \subseteq S
    BY <1>3, <1>4
  <2>2. IsFiniteSet(T) /\ Cardinality(T) <= Cardinality(S)
    BY <1>1, <2>1, FS_Subset
  <2>3. Cardinality(T) \in Nat
    BY <2>2, FS_CardinalityType
  <2> QED BY <1>1, <1>2, <2>2, <2>3 DEF T
<1>5. CASE Dispatch(w)
  <2> DEFINE U == S \cup {Head(chunk[w])}
  <2>1. T \subseteq U
    BY <1>3
  <2>2. Cardinality(S) < QueueCapacity
    BY <1>5 DEF Dispatch, S
  <2>3. IsFiniteSet(U) /\ Cardinality(U) <= Cardinality(S) + 1
    <3>1. /\ IsFiniteSet(U)
          /\ Cardinality(U) = IF Head(chunk[w]) \in S THEN Cardinality(S)
                              ELSE Cardinality(S) + 1
      BY <1>1, FS_AddElement
    <3> HIDE DEF U
    <3> QED BY <1>2, <3>1
  <2>4. Cardinality(U) \in Nat
    BY <2>3, FS_CardinalityType
  <2> HIDE DEF U
  <2>5. IsFiniteSet(T) /\ Cardinality(T) <= Cardinality(U)
    BY <2>1, <2>3, FS_Subset
  <2>6. Cardinality(T) \in Nat
    BY <2>5, FS_CardinalityType
  <2> QED BY <1>1, <1>2, <2>2, <2>3, <2>4, <2>5, <2>6 DEF T
<1> QED BY <1>4, <1>5

\* The two ends of the line, one behind the other, hold each queued job once.
LEMMA WaitingJobs ==
  ASSUME RInv, MemoryInv, NEW w \in Worker
  PROVE  LET waiting == queue[w] \o chunk[w]
         IN  /\ {waiting[i] : i \in DOMAIN waiting} = In(w, {"queued"})
             /\ Len(waiting) = Cardinality(In(w, {"queued"}))
<1> DEFINE q == queue[w]
           c == chunk[w]
           S == In(w, {"queued"})
           waiting == q \o c
<1>1. Line(q, c, S)
  BY DEF RInv, QueuesOK
<1>2. q \in Seq(Key) /\ c \in Seq(Key) /\ Len(q) \in Nat /\ Len(c) \in Nat
  BY <1>1 DEF Line
<1>3. ASSUME NEW k \in S
      PROVE  (\E i \in 1..Len(q) : q[i] = k) \/ (\E i \in 1..Len(c) : c[i] = k)
  <2>1. k \in Key /\ Alive(k) /\ jobs[k].phase = "queued" /\ Process(k) = w
    BY <1>3 DEF In, JobsOf
  <2> QED BY <2>1 DEF MemoryInv, Sane, Stands
<1> HIDE DEF q, c, S
<1>4. /\ waiting \in Seq(Key) /\ Len(waiting) = Len(q) + Len(c)
      /\ \A i \in 1..Len(q) : waiting[i] = q[i]
      /\ \A i \in 1..Len(c) : waiting[Len(q) + i] = c[i]
  BY <1>2
<1> HIDE DEF waiting
<1> DEFINE n == Len(waiting)
<1>5. n \in Nat /\ DOMAIN waiting = 1..n
  BY <1>4
<1>6. \A i \in 1..n : i \in 1..Len(q) \/ (i - Len(q) \in 1..Len(c) /\ i = Len(q) + (i - Len(q)))
  BY <1>2, <1>4
<1>7. \A i \in 1..Len(q) : i \in 1..n
  BY <1>2, <1>4
<1>8. \A i \in 1..Len(c) : Len(q) + i \in 1..n
  BY <1>2, <1>4
<1>9. \A i \in 1..n : waiting[i] \in S
  <2>1. \A i \in 1..Len(q) : q[i] \in S
    BY <1>1 DEF Line
  <2>2. \A i \in 1..Len(c) : c[i] \in S
    BY <1>1 DEF Line
  <2>3. SUFFICES ASSUME NEW i \in 1..n PROVE waiting[i] \in S
    OBVIOUS
  <2>4. CASE i \in 1..Len(q)
    BY <1>4, <2>1, <2>4
  <2>5. CASE i - Len(q) \in 1..Len(c) /\ i = Len(q) + (i - Len(q))
    <3>1. waiting[Len(q) + (i - Len(q))] = c[i - Len(q)]
      BY <1>4, <2>5
    <3> QED BY <2>2, <2>5, <3>1
  <2> QED BY <1>6, <2>4, <2>5
<1>10. \A k \in S : \E i \in 1..n : waiting[i] = k
  <2>1. SUFFICES ASSUME NEW k \in S PROVE \E i \in 1..n : waiting[i] = k
    OBVIOUS
  <2>2. CASE \E i \in 1..Len(q) : q[i] = k
    BY <1>4, <1>7, <2>2
  <2>3. CASE \E i \in 1..Len(c) : c[i] = k
    <3>1. PICK i \in 1..Len(c) : c[i] = k
      BY <2>3
    <3>2. Len(q) + i \in 1..n /\ waiting[Len(q) + i] = k
      BY <1>4, <1>8, <3>1
    <3> QED BY <3>2
  <2> QED BY <1>3, <2>1, <2>2, <2>3
<1>11. ASSUME NEW i \in 1..n, NEW j \in 1..n, waiting[i] = waiting[j] PROVE i = j
  <2>1. CASE i \in 1..Len(q) /\ j \in 1..Len(q)
    BY <1>1, <1>4, <1>11, <2>1 DEF Line
  <2>2. CASE i \in 1..Len(q) /\ j \notin 1..Len(q)
    <3>1. j - Len(q) \in 1..Len(c) /\ waiting[j] = c[j - Len(q)] /\ waiting[i] = q[i]
      BY <1>4, <1>6, <2>2
    <3> QED BY <1>1, <1>11, <2>2, <3>1 DEF Line
  <2>3. CASE i \notin 1..Len(q) /\ j \in 1..Len(q)
    <3>1. i - Len(q) \in 1..Len(c) /\ waiting[i] = c[i - Len(q)] /\ waiting[j] = q[j]
      BY <1>4, <1>6, <2>3
    <3> QED BY <1>1, <1>11, <2>3, <3>1 DEF Line
  <2>4. CASE i \notin 1..Len(q) /\ j \notin 1..Len(q)
    <3>1. /\ i - Len(q) \in 1..Len(c) /\ waiting[i] = c[i - Len(q)]
          /\ j - Len(q) \in 1..Len(c) /\ waiting[j] = c[j - Len(q)]
      BY <1>4, <1>6, <2>4
    <3>2. i - Len(q) = j - Len(q)
      BY <1>1, <1>11, <3>1 DEF Line
    <3> QED BY <1>2, <3>2
  <2> QED BY <2>1, <2>2, <2>3, <2>4
<1>12. {waiting[i] : i \in DOMAIN waiting} = S
  BY <1>5, <1>9, <1>10
<1>13. Cardinality(S) = n
  <2> DEFINE f == [i \in 1..n |-> waiting[i]]
  <2>1. f \in [1..n -> S] /\ \A i \in 1..n : f[i] = waiting[i]
    BY <1>9
  <2> HIDE DEF f
  <2>2. f \in Bijection(1..n, S)
    BY <1>10, <1>11, <2>1 DEF Bijection, Injection, IsInjective, Surjection
  <2>3. ExistsBijection(1..n, S)
    BY <2>2 DEF ExistsBijection
  <2> QED BY <1>5, <2>3, FS_CountingElements
<1> QED BY <1>12, <1>13 DEF q, c, S, waiting

\* What every process keeps in memory is consistent, whatever disrupts it.
THEOREM MemoryIsConsistent == RelaySpec => []RelayTypeOK
<1>1. RelayInit => MemoryInv
  <2>1. SUFFICES ASSUME RelayInit PROVE MemoryInv
    OBVIOUS
  <2>2. \A w \in Worker : In(w, Dispatched) = {} /\ Len(queue[w]) = 0 /\ Len(chunk[w]) = 0
    BY <2>1 DEF RelayInit, In, JobsOf, Alive
  <2>3. IsFiniteSet({}) /\ Cardinality({}) = 0
    BY FS_EmptySet
  <2> QED BY <2>1, <2>2, <2>3, RelayAssumption DEF RelayInit, MemoryInv, Alive
<1>2. RInv /\ MemoryInv /\ [RelayNext]_relayVars => MemoryInv'
  <2>1. SUFFICES ASSUME RInv, MemoryInv, [RelayNext]_relayVars PROVE MemoryInv'
    OBVIOUS
  <2>2. polling' \subseteq up' /\ up' # {}
    BY <2>1, ProcessesStep
  <2>3. \A k \in Key : Alive(k)' => Sane(k)'
    BY <2>1, SaneStep
  <2>4. \A w \in Worker : Len(queue'[w]) <= QueueCapacity /\ Len(chunk'[w]) <= QueueCapacity
    BY <2>1, QueueBounded, ChunkBounded
  <2>5. \A w \in Worker : /\ IsFiniteSet(In(w, Dispatched)')
                          /\ Cardinality(In(w, Dispatched)') <= QueueCapacity
    BY <2>1, DispatchedBounded
  <2> QED BY <2>2, <2>3, <2>4, <2>5 DEF MemoryInv
<1>3. RInv /\ MemoryInv => RelayTypeOK
  <2>1. SUFFICES ASSUME RInv, MemoryInv PROVE RelayTypeOK
    OBVIOUS
  <2>2. /\ up \subseteq Worker /\ up # {} /\ polling \subseteq up
        /\ jobs \in [Key -> Job \cup {NULL}]
    BY <2>1 DEF RInv, JobsOK, MemoryInv
  <2>3. \A k \in Key : Alive(k) => Sound(k, jobs[k], held) /\ Sane(k)
    BY <2>1 DEF RInv, JobsOK, MemoryInv
  <2>4. \A w \in Worker :
          LET waiting == queue[w] \o chunk[w]
          IN  /\ {waiting[i] : i \in DOMAIN waiting} = In(w, {"queued"})
              /\ Len(waiting) = Cardinality(In(w, {"queued"}))
    BY <2>1, WaitingJobs
  <2>5. \A w \in Worker : /\ Len(queue[w]) <= QueueCapacity
                          /\ Len(chunk[w]) <= QueueCapacity
                          /\ Cardinality(In(w, Dispatched)) <= QueueCapacity
    BY <2>1 DEF MemoryInv
  <2>6. \A k \in Key : Alive(k) =>
          /\ jobs[k].claim \in held
          /\ k = <<jobs[k].claim.delivery, jobs[k].claim.generation>>
          /\ Process(k) \in up
          /\ jobs[k].phase \in Phases
          /\ jobs[k].phase \in Executing => jobs[k].renewAt # NULL
          /\ jobs[k].phase = "sleeping" => jobs[k].wakeAt # NULL
    BY <2>3 DEF Sound, Sane, Job
  <2>7. up \in (SUBSET Worker) \ {{}}
    BY <2>2
  <2> QED BY <2>2, <2>4, <2>5, <2>6, <2>7, Zenon DEF RelayTypeOK
<1> QED BY <1>1, <1>2, <1>3, RelayInductive, PTL DEF RelaySpec

-------------------------------------------------------------------------------
(* Nobody waits for a waiter.                                              *)

\* The phases in which a job waits for other jobs: to be submitted by its pass, for its
\* dispatch, for an attempt permit.
WaitPhases == {"claimed", "queued", "waiting"}

\* In every process with jobs one of them waits for no other job, but at most for the
\* database, its destination, the clock or a subscriber; or a job gets what it waits for:
\* a place in its pass, a permit, or the next step of the dispatching stream.
NobodyWaitsForWaiters ==
  \A w \in Worker : JobsOf(w) # {} =>
    \/ \E k \in JobsOf(w) : jobs[k].phase \notin WaitPhases
    \/ \E k \in JobsOf(w) : Submittable(k)
    \/ \E k \in JobsOf(w) :
         Is(k, {"waiting"}) /\ Cardinality(In(w, {"sending"})) < AttemptLimit
    \/ w \in up /\ chunk[w] = <<>> /\ queue[w] # <<>>
    \/ w \in up /\ chunk[w] # <<>> /\ Cardinality(In(w, Dispatched)) < QueueCapacity

\* Queue, passes, dispatch permits and attempt permits never wait for one another in a
\* ring, although jobs are cancelled at any of them and processes crash.
THEOREM NobodyWaitsInARing == RelaySpec => []NobodyWaitsForWaiters
<1>1. ASSUME RelayTypeOK, NEW w \in Worker, JobsOf(w) # {},
             \A k \in JobsOf(w) : jobs[k].phase \in WaitPhases
      PROVE  \/ \E k \in JobsOf(w) : Submittable(k)
             \/ \E k \in JobsOf(w) :
                  Is(k, {"waiting"}) /\ Cardinality(In(w, {"sending"})) < AttemptLimit
             \/ w \in up /\ chunk[w] = <<>> /\ queue[w] # <<>>
             \/ w \in up /\ chunk[w] # <<>> /\ Cardinality(In(w, Dispatched)) < QueueCapacity
  <2>1. Cardinality({}) = 0
    BY FS_EmptySet
  <2>2. 0 < AttemptLimit /\ 0 < QueueCapacity /\ 0 < ActiveLimit
    BY RelayAssumption
  <2>3. \A k \in JobsOf(w) : Alive(k) /\ Process(k) = w /\ w \in up
    BY <1>1 DEF JobsOf, RelayTypeOK
  <2>4. CASE \E k \in JobsOf(w) : jobs[k].phase = "waiting"
    <3>1. In(w, {"sending"}) = {}
      BY <1>1 DEF In, WaitPhases
    <3> QED BY <2>1, <2>2, <2>3, <2>4, <3>1 DEF Is
  <2>5. CASE /\ \A k \in JobsOf(w) : jobs[k].phase # "waiting"
             /\ \E k \in JobsOf(w) : jobs[k].phase = "queued"
    <3>1. In(w, Dispatched) = {}
      BY <1>1, <2>5 DEF In, WaitPhases, Dispatched, Executing, Ending
    <3>2. queue[w] # <<>> \/ chunk[w] # <<>>
      <4> DEFINE waiting == queue[w] \o chunk[w]
      <4>1. {waiting[i] : i \in DOMAIN waiting} = In(w, {"queued"})
        BY <1>1 DEF RelayTypeOK
      <4>2. In(w, {"queued"}) # {}
        BY <2>5 DEF In
      <4>3. queue[w] = <<>> /\ chunk[w] = <<>> => waiting = <<>>
        OBVIOUS
      <4>4. DOMAIN <<>> = {}
        OBVIOUS
      <4> HIDE DEF waiting
      <4> QED BY <4>1, <4>2, <4>3, <4>4
    <3>3. w \in up
      BY <1>1, <2>3
    <3> QED BY <2>1, <2>2, <3>1, <3>2, <3>3
  <2>6. CASE \A k \in JobsOf(w) : jobs[k].phase = "claimed"
    <3>1. PICK k \in JobsOf(w) : TRUE
      BY <1>1
    <3>2. {j \in PassJobs(Process(k)) : jobs[j].phase # "claimed"} = {}
      BY <2>3, <2>6, <3>1 DEF PassJobs
    <3>3. Submittable(k)
      BY <2>1, <2>2, <2>3, <2>6, <3>1, <3>2 DEF Submittable, Is
    <3> QED BY <3>1, <3>3
  <2> QED BY <1>1, <2>4, <2>5, <2>6 DEF WaitPhases
<1>2. RelayTypeOK => NobodyWaitsForWaiters
  BY <1>1 DEF NobodyWaitsForWaiters
<1> QED BY <1>2, MemoryIsConsistent, PTL

===============================================================================
