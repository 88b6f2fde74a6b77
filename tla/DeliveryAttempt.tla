---------------------------- MODULE DeliveryAttempt ----------------------------
(***************************************************************************)
(* One attempt of a delivery from the answer on the wire to the state each *)
(* adapter stores and the result the caller gets.  The attempt is observed *)
(* with the worker's wall clock, which may step back while the request is  *)
(* out, and decided by the retry schedule: its delay, and whether it goes  *)
(* on.  How often it has gone on before is left to DeliveryEngine.         *)
(***************************************************************************)
EXTENDS DeliveryPolicy

CONSTANTS Statuses,      \* status codes the HTTP client may hand over
          RetryAfters,   \* parsed Retry-After headers, 0 for none
          Backoffs,      \* delays of the capped back-off
          Budgets,       \* what may be left of maxElapsed
          ClockReadings  \* the worker's wall clock

ASSUME AttemptAssumption ==
  /\ Statuses \subseteq Nat
  /\ RetryAfters \subseteq Nat
  /\ Backoffs \subseteq Nat
  /\ Budgets \subseteq Nat
  /\ ClockReadings \subseteq Nat
  /\ NULL \notin Nat

VARIABLES phase,     \* "sending", "observed", "stored" or "refused"
          observed,  \* the AttemptObservation
          record,    \* the DeliveryAttemptRecord
          sql,       \* the row after the Postgres statement
          memory,    \* the delivery after the memory adapter
          result     \* DeliveryResult of a finished delivery, NULL while it retries
vars == <<phase, observed, record, sql, memory, result>>

Observation(outcome, status, retryAfter, started, completed) ==
  [outcome |-> outcome, status |-> status, retryAfter |-> retryAfter,
   started |-> started, completed |-> completed]

Init ==
  /\ phase = "sending"
  /\ observed = NULL
  /\ record = NULL
  /\ sql = PendingStanding
  /\ memory = PendingStanding
  /\ result = NULL

\* observeDeliveryAttempt: an answer, a failed transport or the attempt timeout.
Observe(o) ==
  /\ phase = "sending"
  /\ phase' = "observed"
  /\ observed' = o
  /\ UNCHANGED <<record, sql, memory, result>>

Answer(status, header, started, completed) ==
  Observe(Observation(ClassifyDeliveryResponse(status), status,
                      RetryAfterMillis(status, header), started, completed))

TransportFails(started, completed) ==
  Observe(Observation("TransportFailure", NULL, 0, started, completed))

TimesOut(started, completed) ==
  Observe(Observation("TimedOut", NULL, 0, started, completed))

\* The three folds of the schedule's delay: Math.floor of the back-off times a random
\* fraction below one, no less than Retry-After, no more than what is left of the budget.
Jittered(delay) == {j \in 0..delay : j < delay \/ delay = 0}

AtLeast(delay, retryAfter) == IF delay < retryAfter THEN retryAfter ELSE delay

Clipped(delay, left) == IF delay < left THEN delay ELSE left

DelaysJitteredLast(backoff, retryAfter, left) ==
  {Clipped(delay, left) : delay \in Jittered(AtLeast(backoff, retryAfter))}

Delays(backoff, retryAfter, left) ==
  {Clipped(AtLeast(delay, retryAfter), left) : delay \in Jittered(backoff)}

\* The schedule goes on only with a delay that ends before the budget does; it may also
\* end because its attempts are used up.
Planned(again, backoff, left) ==
  {delay \in Delays(backoff, observed.retryAfter, left) : again => delay < left}

Decided(again, delay) ==
  AttemptRecord(observed.outcome, observed.status, Decision(observed.outcome, again),
                delay, observed.started, observed.completed)

\* makeDeliveryAttemptRecord throws: nothing is stored and the job dies.
Refuse(again, delay) ==
  /\ ~ConsistentRecord(Decided(again, delay))
  /\ phase' = "refused"
  /\ record' = Decided(again, delay)
  /\ UNCHANGED <<observed, sql, memory, result>>

\* The memory adapter keeps Pending for a scheduled retry and stores
\* terminalStateFromAttempt otherwise; `undefined` fails the call.
MemoryState(a) ==
  IF a.decision = "RetryScheduled" THEN memory ELSE TerminalStateFromAttempt(a)

Store(again, delay) ==
  LET a == Decided(again, delay) IN
  /\ ConsistentRecord(a)
  /\ phase' = "stored"
  /\ record' = a
  /\ sql' = SqlState(a, sql)
  /\ memory' = MemoryState(a)
  /\ result' = IF a.decision = "RetryScheduled" THEN NULL
               ELSE DeliveryStateFromResult(TerminalResult(a.outcome), observed.status)
  /\ UNCHANGED observed

\* The schedule decides, and the attempt is appended or fails the job.
Settle(again, backoff, left) ==
  /\ phase = "observed"
  /\ \E delay \in Planned(again, backoff, left) : Refuse(again, delay) \/ Store(again, delay)

Done ==
  /\ phase \in {"stored", "refused"}
  /\ UNCHANGED vars

Next ==
  \/ \E status \in Statuses, header \in RetryAfters, s, c \in ClockReadings :
       Answer(status, header, s, c)
  \/ \E s, c \in ClockReadings : TransportFails(s, c)
  \/ \E s, c \in ClockReadings : TimesOut(s, c)
  \/ \E again \in BOOLEAN, backoff \in Backoffs, left \in Budgets :
       Settle(again, backoff, left)
  \/ Done

Spec == Init /\ [][Next]_vars

-------------------------------------------------------------------------------
\* The three stores of a finished attempt agree: the row the CASE expressions of
\* recordAttempt leave, the delivery the memory adapter keeps and the result the
\* caller is given stand for the same state, status and reason.
OneTruthTable ==
  phase = "stored" =>
    /\ sql = memory
    /\ record.decision = "RetryScheduled" => sql = PendingStanding
    /\ record.decision # "RetryScheduled" => sql = result

\* No CHECK constraint of the schema can abort what the record's own filter lets
\* through: neither on the attempt row nor on the updated delivery.
SchemaAcceptsRecords ==
  phase = "stored" => AttemptRowChecks(record) /\ StandingChecks(sql)

\* Nothing but a clock that stepped back during the request keeps an observed
\* attempt out of the history, whatever the answer and the decision were.
OnlyClockStepBackRefuses ==
  phase = "refused" => observed.completed < observed.started

\* A provider's 429 is never retried before its Retry-After, although the delay is
\* jittered before and clipped to the budget after: a clipped delay ends the schedule.
\* And no final answer (2xx, other 3xx and 4xx, a status outside HTTP) is ever retried.
RetriesRespectTheProvider ==
  phase = "stored" /\ record.decision = "RetryScheduled" =>
    /\ record.delay >= observed.retryAfter
    /\ observed.status # NULL =>
         observed.status \in {408, 425, 429} \cup 500..599

===============================================================================
