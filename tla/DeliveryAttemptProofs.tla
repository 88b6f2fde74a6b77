------------------------- MODULE DeliveryAttemptProofs -------------------------
(***************************************************************************)
(* Proofs about one attempt: for every status code, every Retry-After,     *)
(* every delay and every reading of the worker's clock, the three stores   *)
(* agree, the schema takes what the record's filter lets through, and only *)
(* a clock that stepped back keeps an attempt out of the history.          *)
(***************************************************************************)
EXTENDS DeliveryAttempt, TLAPS

\* What an answer may ask to be retried for.
RetriedStatuses == {408, 425, 429} \cup 500..599

\* What observeDeliveryAttempt makes: the outcome carries a status exactly when there
\* was an answer, and is a retryable one only for the statuses that ask for it.
ObservationShape(o) ==
  /\ o.outcome \in AttemptOutcomes
  /\ o.status \in Nat \cup {NULL}
  /\ CarriesStatus(o.outcome) <=> o.status # NULL
  /\ o.outcome = "Retryable" => o.status \in RetriedStatuses
  /\ {o.retryAfter, o.started, o.completed} \subseteq Nat

\* Until the attempt is stored both stores hold the delivery as it was.
Shape ==
  /\ phase \in {"sending", "observed", "stored", "refused"}
  /\ phase # "sending" => ObservationShape(observed)
  /\ phase \in {"sending", "observed"} => sql = PendingStanding /\ memory = PendingStanding

\* The inductive invariant.
AttemptInv ==
  /\ Shape
  /\ OneTruthTable
  /\ SchemaAcceptsRecords
  /\ OnlyClockStepBackRefuses
  /\ RetriesRespectTheProvider

-------------------------------------------------------------------------------
(* The truth tables, for every input.                                      *)

\* The outcome of an answer carries a status, and asks for a retry only when the
\* status is one of those.
LEMMA ClassifyShape ==
  ASSUME NEW status \in Nat
  PROVE  /\ ClassifyDeliveryResponse(status) \in AttemptOutcomes
         /\ CarriesStatus(ClassifyDeliveryResponse(status))
         /\ ClassifyDeliveryResponse(status) = "Retryable" => status \in RetriedStatuses
<1>1. CASE status \in 200..299
  BY <1>1 DEF ClassifyDeliveryResponse, AmbiguousStatuses, RateLimited, AttemptOutcomes,
              CarriesStatus
<1>2. CASE status \in RetriedStatuses
  BY <1>2 DEF ClassifyDeliveryResponse, AmbiguousStatuses, RateLimited, AttemptOutcomes,
              CarriesStatus, RetriedStatuses
<1>3. CASE status \in 300..499 \ {408, 425, 429}
  BY <1>3 DEF ClassifyDeliveryResponse, AmbiguousStatuses, RateLimited, AttemptOutcomes,
              CarriesStatus
<1>4. CASE /\ status \notin 200..299 /\ status \notin RetriedStatuses
           /\ status \notin 300..499 \ {408, 425, 429}
  BY <1>4 DEF ClassifyDeliveryResponse, AmbiguousStatuses, RateLimited, AttemptOutcomes,
              CarriesStatus, RetriedStatuses
<1> QED BY <1>1, <1>2, <1>3, <1>4

\* The schedule goes on with no delay shorter than what the provider asked for: it can be
\* shorter only where it was clipped, and then it is all that was left.
LEMMA PlannedRespects ==
  ASSUME NEW backoff \in Nat, NEW left \in Nat, observed.retryAfter \in Nat,
         NEW again \in BOOLEAN, NEW delay \in Planned(again, backoff, left)
  PROVE  delay \in Nat /\ (again => delay >= observed.retryAfter)
<1> DEFINE after == observed.retryAfter
<1>1. /\ delay \in Delays(backoff, after, left)
      /\ again => delay < left
  BY DEF Planned
<1>2. PICK j \in Jittered(backoff) : delay = Clipped(AtLeast(j, after), left)
  BY <1>1 DEF Delays
<1>3. j \in Nat
  BY DEF Jittered
<1> HIDE DEF after
<1>4. AtLeast(j, after) \in Nat /\ AtLeast(j, after) >= after
  BY <1>3 DEF AtLeast, after
<1> QED BY <1>1, <1>2, <1>4 DEF Clipped, after

\* What Decided makes of an observation, field by field.
LEMMA DecidedShape ==
  ASSUME ObservationShape(observed), NEW again \in BOOLEAN, NEW delay \in Nat
  PROVE  LET a == Decided(again, delay)
         IN  /\ a.outcome = observed.outcome
             /\ a.status = observed.status
             /\ a.decision = Decision(observed.outcome, again)
             /\ a.started = observed.started /\ a.completed = observed.completed
             /\ a.decision = "RetryScheduled" => again /\ a.delay = delay
             /\ a.decision # "RetryScheduled" => a.delay = NULL
<1>1. Decided(again, delay) =
        [outcome |-> observed.outcome,
         status |-> IF CarriesStatus(observed.outcome) THEN observed.status ELSE NULL,
         decision |-> Decision(observed.outcome, again),
         delay |-> IF Decision(observed.outcome, again) = "RetryScheduled"
                   THEN delay ELSE NULL,
         started |-> observed.started, completed |-> observed.completed]
  BY DEF Decided, AttemptRecord
<1>2. (IF CarriesStatus(observed.outcome) THEN observed.status ELSE NULL) = observed.status
  BY DEF ObservationShape
<1>3. Decision(observed.outcome, again) = "RetryScheduled" => again
  BY DEF Decision
<1> QED BY <1>1, <1>2, <1>3

\* A decision is one of three, and final exactly for the outcomes not worth a retry.
LEMMA DecisionShape ==
  ASSUME NEW outcome, NEW again \in BOOLEAN
  PROVE  /\ Decision(outcome, again) \in AttemptDecisions
         /\ Decision(outcome, again) = "Terminal" <=> ~IsRetryable(outcome)
BY DEF Decision, AttemptDecisions

\* The record's filter lets through every observed attempt but those that seem to have
\* ended before they began.
LEMMA FilterIsTheClock ==
  ASSUME ObservationShape(observed), NEW again \in BOOLEAN, NEW delay \in Nat
  PROVE  ConsistentRecord(Decided(again, delay)) <=> observed.completed >= observed.started
<1> DEFINE a == Decided(again, delay)
<1>1. /\ a.outcome = observed.outcome /\ a.status = observed.status
      /\ a.decision = Decision(observed.outcome, again)
      /\ a.started = observed.started /\ a.completed = observed.completed
      /\ a.decision = "RetryScheduled" => a.delay \in Nat
      /\ a.decision # "RetryScheduled" => a.delay = NULL
  BY DecidedShape
<1> HIDE DEF a
<1>2. a.decision = "Terminal" <=> ~IsRetryable(a.outcome)
  BY <1>1, DecisionShape
<1>3. a.decision = "RetryScheduled" <=> a.delay # NULL
  BY <1>1, AttemptAssumption
<1>4. CarriesStatus(a.outcome) <=> a.status # NULL
  BY <1>1 DEF ObservationShape
<1> QED BY <1>1, <1>2, <1>3, <1>4 DEF ConsistentRecord, a

\* The four copies of the table agree on a record that passed the filter.
LEMMA TablesAgree ==
  ASSUME NEW a, ConsistentRecord(a), a.outcome \in AttemptOutcomes,
         a.decision \in AttemptDecisions, a.status \in Nat \cup {NULL}
  PROVE  /\ a.decision = "RetryScheduled" => SqlState(a, PendingStanding) = PendingStanding
         /\ a.decision # "RetryScheduled" =>
              /\ SqlState(a, PendingStanding) = TerminalStateFromAttempt(a)
              /\ SqlState(a, PendingStanding)
                   = DeliveryStateFromResult(TerminalResult(a.outcome), a.status)
         /\ StandingChecks(SqlState(a, PendingStanding))
<1> DEFINE new == SqlState(a, PendingStanding)
<1>1. a.decision = "Terminal" <=> ~IsRetryable(a.outcome)
  BY DEF ConsistentRecord, AttemptDecisions
<1>2. CarriesStatus(a.outcome) <=> a.status # NULL
  BY DEF ConsistentRecord
<1>3. CASE a.decision = "RetryScheduled"
  <2>1. new = PendingStanding
    BY <1>3 DEF SqlState, PendingStanding, Standing
  <2> QED BY <1>3, <2>1 DEF StandingChecks, PendingStanding, Standing
<1>4. CASE a.decision = "Exhausted"
  <2>1. new = Standing("DeadLettered", NULL, "RetryBudgetExhausted")
    BY <1>4 DEF SqlState, PendingStanding, Standing
  <2>2. TerminalStateFromAttempt(a) = new
    BY <1>4, <2>1, Zenon DEF TerminalStateFromAttempt
  <2>3. DeliveryStateFromResult("Exhausted", a.status)
          = Standing("DeadLettered", NULL, "RetryBudgetExhausted")
    BY DEF DeliveryStateFromResult
  <2>4. TerminalResult(a.outcome) = "Exhausted"
    BY <1>1, <1>4 DEF TerminalResult
  <2> QED BY <1>4, <2>1, <2>2, <2>3, <2>4
          DEF StandingChecks, Standing, DeadLetterReasons
<1>5. CASE a.decision = "Terminal" /\ a.outcome \in {"Delivered", "Rejected"}
  <2>1. a.status # NULL
    BY <1>2, <1>5 DEF CarriesStatus
  <2>2. new = Standing(a.outcome, a.status, NULL)
    BY <1>5 DEF SqlState, PendingStanding, Standing
  <2>3. TerminalStateFromAttempt(a) = Standing(a.outcome, a.status, NULL)
    BY <1>5, <2>1 DEF TerminalStateFromAttempt
  <2>4. TerminalResult(a.outcome) = a.outcome
    BY <1>5 DEF TerminalResult, IsRetryable
  <2>5. DeliveryStateFromResult(a.outcome, a.status) = Standing(a.outcome, a.status, NULL)
    BY <1>5 DEF DeliveryStateFromResult
  <2> QED BY <1>5, <2>1, <2>2, <2>3, <2>4, <2>5 DEF StandingChecks, Standing
<1>6. CASE a.decision = "Terminal" /\ a.outcome \notin {"Delivered", "Rejected"}
  <2>1. a.outcome = "ProtocolFailure"
    BY <1>1, <1>6 DEF IsRetryable, AttemptOutcomes
  <2>2. new = Standing("DeadLettered", NULL, "ProviderProtocolFailure")
    BY <1>6, <2>1 DEF SqlState, PendingStanding, Standing
  <2>3. TerminalStateFromAttempt(a) = Standing("DeadLettered", NULL, "ProviderProtocolFailure")
    BY <1>6, <2>1 DEF TerminalStateFromAttempt
  <2>4. TerminalResult(a.outcome) = "ProtocolFailure"
    BY <2>1 DEF TerminalResult, IsRetryable
  <2>5. DeliveryStateFromResult("ProtocolFailure", a.status)
          = Standing("DeadLettered", NULL, "ProviderProtocolFailure")
    BY DEF DeliveryStateFromResult
  <2> QED BY <1>6, <2>2, <2>3, <2>4, <2>5 DEF StandingChecks, Standing, DeadLetterReasons
<1> QED BY <1>3, <1>4, <1>5, <1>6 DEF AttemptDecisions

\* What the record's filter lets through meets the CHECKs of delivery_attempts.
LEMMA FilterImpliesChecks ==
  ASSUME NEW a, ConsistentRecord(a), a.outcome \in AttemptOutcomes,
         a.decision \in AttemptDecisions, a.delay \in Nat \cup {NULL}
  PROVE  AttemptRowChecks(a)
<1>1. a.completed >= a.started
  BY DEF ConsistentRecord
<1>2. \/ a.decision = "RetryScheduled" /\ a.delay # NULL /\ a.delay >= 0
      \/ a.decision # "RetryScheduled" /\ a.delay = NULL
  BY DEF ConsistentRecord
<1>3. \/ /\ a.outcome \in {"Delivered", "Rejected", "Retryable", "ProtocolFailure"}
         /\ a.status # NULL
      \/ a.outcome \in {"TransportFailure", "TimedOut"} /\ a.status = NULL
  BY DEF ConsistentRecord, CarriesStatus, AttemptOutcomes
<1>4. \/ /\ a.decision = "Terminal"
         /\ a.outcome \in {"Delivered", "Rejected", "ProtocolFailure"}
      \/ /\ a.decision \in {"RetryScheduled", "Exhausted"}
         /\ a.outcome \in {"Retryable", "TransportFailure", "TimedOut"}
  BY DEF ConsistentRecord, IsRetryable, AttemptOutcomes, AttemptDecisions
<1> QED BY <1>1, <1>2, <1>3, <1>4 DEF AttemptRowChecks

-------------------------------------------------------------------------------
(* The steps.                                                              *)

\* Before the request is answered nothing is stored.
LEMMA AttemptInit == Init => AttemptInv
BY DEF Init, AttemptInv, Shape, OneTruthTable, SchemaAcceptsRecords,
       OnlyClockStepBackRefuses, RetriesRespectTheProvider

\* Each way an attempt ends makes an observation of the right shape.
LEMMA ObserveKeeps ==
  ASSUME AttemptInv, NEW o, ObservationShape(o), Observe(o)
  PROVE  AttemptInv'
BY DEF Observe, AttemptInv, Shape, OneTruthTable, SchemaAcceptsRecords,
       OnlyClockStepBackRefuses, RetriesRespectTheProvider, ObservationShape, CarriesStatus

\* An answer of any status is classified, with Retry-After heard from a 429 only.
LEMMA AnswerKeeps ==
  ASSUME AttemptInv, NEW status \in Statuses, NEW header \in RetryAfters,
         NEW started \in ClockReadings, NEW completed \in ClockReadings,
         Answer(status, header, started, completed)
  PROVE  AttemptInv'
<1> DEFINE outcome == ClassifyDeliveryResponse(status)
           after == RetryAfterMillis(status, header)
           o == Observation(outcome, status, after, started, completed)
<1>1. status \in Nat /\ header \in Nat /\ started \in Nat /\ completed \in Nat
  BY AttemptAssumption
<1>2. after \in Nat
  BY <1>1 DEF RetryAfterMillis
<1>3. status # NULL
  BY <1>1, AttemptAssumption
<1>4. /\ outcome \in AttemptOutcomes /\ CarriesStatus(outcome)
      /\ outcome = "Retryable" => status \in RetriedStatuses
  BY <1>1, ClassifyShape
<1> HIDE DEF outcome, after
<1>5. /\ o.outcome = outcome /\ o.status = status /\ o.retryAfter = after
      /\ o.started = started /\ o.completed = completed
  BY DEF Observation
<1>6. ObservationShape(o)
  BY <1>1, <1>2, <1>3, <1>4, <1>5 DEF ObservationShape
<1>7. Observe(o)
  BY Zenon DEF Answer, outcome, after
<1> QED BY <1>6, <1>7, ObserveKeeps

\* A transport failure or a timeout carries no status.
LEMMA NoAnswerKeeps ==
  ASSUME AttemptInv, NEW outcome \in {"TransportFailure", "TimedOut"},
         NEW started \in ClockReadings, NEW completed \in ClockReadings,
         Observe(Observation(outcome, NULL, 0, started, completed))
  PROVE  AttemptInv'
<1> DEFINE o == Observation(outcome, NULL, 0, started, completed)
<1>1. started \in Nat /\ completed \in Nat
  BY AttemptAssumption
<1>2. /\ o.outcome = outcome /\ o.status = NULL /\ o.retryAfter = 0
      /\ o.started = started /\ o.completed = completed
  BY DEF Observation
<1>3. ~CarriesStatus(outcome) /\ outcome \in AttemptOutcomes /\ outcome # "Retryable"
  BY DEF CarriesStatus, AttemptOutcomes
<1>4. ObservationShape(o)
  BY <1>1, <1>2, <1>3 DEF ObservationShape
<1> QED BY <1>4, ObserveKeeps

\* A record that makeDeliveryAttemptRecord refuses ends before it began.
LEMMA RefuseKeeps ==
  ASSUME AttemptInv, phase = "observed", NEW again \in BOOLEAN, NEW delay \in Nat,
         Refuse(again, delay)
  PROVE  AttemptInv'
<1>1. ObservationShape(observed)
  BY DEF AttemptInv, Shape
<1>2. ~(observed.completed >= observed.started)
  BY <1>1, FilterIsTheClock DEF Refuse
<1>3. observed.completed \in Nat /\ observed.started \in Nat
  BY <1>1 DEF ObservationShape
<1>4. observed.completed < observed.started
  BY <1>2, <1>3
<1>5. phase' = "refused" /\ observed' = observed
  BY DEF Refuse
<1> QED BY <1>1, <1>4, <1>5 DEF AttemptInv, Shape, OneTruthTable, SchemaAcceptsRecords,
             OnlyClockStepBackRefuses, RetriesRespectTheProvider, ObservationShape,
             CarriesStatus

\* The three stores take the record in, each by its own copy of the table.
LEMMA StoreKeeps ==
  ASSUME AttemptInv, phase = "observed", NEW again \in BOOLEAN, NEW delay \in Nat,
         again => delay >= observed.retryAfter, Store(again, delay)
  PROVE  AttemptInv'
<1> DEFINE a == Decided(again, delay)
<1>2. /\ ObservationShape(observed) /\ sql = PendingStanding /\ memory = PendingStanding
      /\ ConsistentRecord(a)
  BY DEF AttemptInv, Shape, Store
<1>3. /\ phase' = "stored" /\ observed' = observed /\ record' = a
      /\ sql' = SqlState(a, sql) /\ memory' = MemoryState(a)
      /\ result' = IF a.decision = "RetryScheduled" THEN NULL
                   ELSE DeliveryStateFromResult(TerminalResult(a.outcome), observed.status)
  BY DEF Store
<1>4. /\ a.outcome = observed.outcome /\ a.status = observed.status
      /\ a.decision = Decision(observed.outcome, again)
      /\ a.decision = "RetryScheduled" => a.delay \in Nat /\ a.delay >= observed.retryAfter
      /\ a.decision # "RetryScheduled" => a.delay = NULL
  BY <1>2, DecidedShape
<1> HIDE DEF a
<1>5. a.decision \in AttemptDecisions /\ (a.decision = "Terminal" <=> ~IsRetryable(a.outcome))
  BY <1>4, DecisionShape
<1>6. a.outcome \in AttemptOutcomes /\ a.status \in Nat \cup {NULL}
  BY <1>2, <1>4 DEF ObservationShape
<1>7. /\ a.decision = "RetryScheduled" => SqlState(a, PendingStanding) = PendingStanding
      /\ a.decision # "RetryScheduled" =>
           /\ SqlState(a, PendingStanding) = TerminalStateFromAttempt(a)
           /\ SqlState(a, PendingStanding)
                = DeliveryStateFromResult(TerminalResult(a.outcome), a.status)
      /\ StandingChecks(SqlState(a, PendingStanding))
  BY <1>2, <1>5, <1>6, TablesAgree
<1>8. AttemptRowChecks(a)
  BY <1>2, <1>4, <1>5, <1>6, FilterImpliesChecks
<1>9. OneTruthTable'
  <2>1. CASE a.decision = "RetryScheduled"
    <3>1. memory' = PendingStanding /\ sql' = PendingStanding
      BY <1>2, <1>3, <1>7, <2>1, Zenon DEF MemoryState
    <3> QED BY <1>3, <2>1, <3>1 DEF OneTruthTable
  <2>2. CASE a.decision # "RetryScheduled"
    <3>1. memory' = TerminalStateFromAttempt(a)
      BY <1>3, <2>2, Zenon DEF MemoryState
    <3>2. result' = DeliveryStateFromResult(TerminalResult(a.outcome), a.status)
      BY <1>3, <1>4, <2>2, Zenon
    <3> QED BY <1>2, <1>3, <1>7, <2>2, <3>1, <3>2, Zenon DEF OneTruthTable
  <2> QED BY <2>1, <2>2
<1>10. SchemaAcceptsRecords'
  BY <1>2, <1>3, <1>7, <1>8, Zenon DEF SchemaAcceptsRecords, AttemptRowChecks, StandingChecks
<1>11. RetriesRespectTheProvider'
  <2>1. a.decision = "RetryScheduled" /\ observed.status # NULL =>
          observed.status \in RetriedStatuses
    BY <1>2, <1>4, <1>5 DEF ObservationShape, CarriesStatus, IsRetryable, AttemptOutcomes
  <2> QED BY <1>3, <1>4, <2>1 DEF RetriesRespectTheProvider, RetriedStatuses
<1>12. Shape' /\ OnlyClockStepBackRefuses'
  BY <1>2, <1>3 DEF Shape, OnlyClockStepBackRefuses, ObservationShape, CarriesStatus
<1> QED BY <1>9, <1>10, <1>11, <1>12 DEF AttemptInv

\* Every step keeps the invariant.
LEMMA AttemptStep ==
  ASSUME AttemptInv, [Next]_vars
  PROVE  AttemptInv'
<1>1. ASSUME NEW status \in Statuses, NEW header \in RetryAfters, NEW s \in ClockReadings,
             NEW c \in ClockReadings, Answer(status, header, s, c)
      PROVE  AttemptInv'
  BY <1>1, AnswerKeeps
<1>2. ASSUME NEW s \in ClockReadings, NEW c \in ClockReadings,
             TransportFails(s, c) \/ TimesOut(s, c)
      PROVE  AttemptInv'
  BY <1>2, NoAnswerKeeps DEF TransportFails, TimesOut
<1>3. ASSUME NEW again \in BOOLEAN, NEW backoff \in Backoffs, NEW left \in Budgets,
             Settle(again, backoff, left)
      PROVE  AttemptInv'
  <2>1. phase = "observed" /\ observed.retryAfter \in Nat
    BY <1>3 DEF Settle, AttemptInv, Shape, ObservationShape
  <2>2. backoff \in Nat /\ left \in Nat
    BY AttemptAssumption
  <2>3. PICK delay \in Planned(again, backoff, left) :
          Refuse(again, delay) \/ Store(again, delay)
    BY <1>3 DEF Settle
  <2>4. delay \in Nat /\ (again => delay >= observed.retryAfter)
    BY <2>1, <2>2, PlannedRespects
  <2> QED BY <2>1, <2>3, <2>4, RefuseKeeps, StoreKeeps
<1>4. ASSUME UNCHANGED vars PROVE AttemptInv'
  BY <1>4 DEF vars, AttemptInv, Shape, OneTruthTable, SchemaAcceptsRecords,
              OnlyClockStepBackRefuses, RetriesRespectTheProvider, ObservationShape,
              CarriesStatus, AttemptRowChecks, StandingChecks
<1>5. CASE Done
  BY <1>4, <1>5 DEF Done
<1> QED BY <1>1, <1>2, <1>3, <1>4, <1>5 DEF Next

\* The invariant holds of every attempt.
THEOREM AttemptInductive == Spec => []AttemptInv
BY AttemptInit, AttemptStep, PTL DEF Spec

\* Whatever the answer, the Postgres row, the memory adapter's delivery and the result
\* the caller is given stand for the same state, status and reason.
THEOREM StoresAgree == Spec => []OneTruthTable
<1>1. AttemptInv => OneTruthTable
  BY DEF AttemptInv
<1> QED BY <1>1, AttemptInductive, PTL

\* No CHECK constraint refuses an attempt that makeDeliveryAttemptRecord accepted.
THEOREM SchemaAccepts == Spec => []SchemaAcceptsRecords
<1>1. AttemptInv => SchemaAcceptsRecords
  BY DEF AttemptInv
<1> QED BY <1>1, AttemptInductive, PTL

\* Only a wall clock that stepped back during the request loses an observed attempt.
THEOREM OnlyClockRefuses == Spec => []OnlyClockStepBackRefuses
<1>1. AttemptInv => OnlyClockStepBackRefuses
  BY DEF AttemptInv
<1> QED BY <1>1, AttemptInductive, PTL

\* No retry comes before the provider's Retry-After or after a final answer.
THEOREM ProviderRespected == Spec => []RetriesRespectTheProvider
<1>1. AttemptInv => RetriesRespectTheProvider
  BY DEF AttemptInv
<1> QED BY <1>1, AttemptInductive, PTL

===============================================================================
