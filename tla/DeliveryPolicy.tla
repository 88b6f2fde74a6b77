---------------------------- MODULE DeliveryPolicy ----------------------------
(***************************************************************************)
(* The truth tables of a delivery attempt: how an answer of the            *)
(* destination becomes an outcome, an outcome a decision, and a recorded   *)
(* attempt the state of its delivery.  The last table exists four times in *)
(* the code (the result given to the caller, the memory adapter, the CASE  *)
(* of the Postgres statement and the CHECK constraints of the schema); each *)
(* copy is translated on its own, so that they can be compared.            *)
(***************************************************************************)
EXTENDS Integers

CONSTANT NULL   \* an absent status, reason, delay, owner, lease or route

DeliveryStates == {"Pending", "Delivered", "Rejected", "DeadLettered", "Terminated"}
DeadLetterReasons == {"ProviderProtocolFailure", "RetryBudgetExhausted"}
AttemptOutcomes == {"Delivered", "Rejected", "Retryable", "ProtocolFailure",
                    "TransportFailure", "TimedOut"}
AttemptDecisions == {"Terminal", "RetryScheduled", "Exhausted"}

\* The columns of a delivery that say how it stands.
Standing(state, status, reason) ==
  [state |-> state, status |-> status, reason |-> reason]

PendingStanding == Standing("Pending", NULL, NULL)

-------------------------------------------------------------------------------
(* From the wire to a decision.                                            *)

AmbiguousStatuses == {408, 425}
RateLimited == 429

ClassifyDeliveryResponse(status) ==
  CASE status \in 200..299 -> "Delivered"
    [] status \in AmbiguousStatuses \cup {RateLimited} \cup 500..599 -> "Retryable"
    [] status \in 300..499 \ (AmbiguousStatuses \cup {RateLimited}) -> "Rejected"
    [] OTHER -> "ProtocolFailure"

\* Only a 429 carries its Retry-After into the outcome; 0 stands for none.
RetryAfterMillis(status, header) == IF status = RateLimited THEN header ELSE 0

IsRetryable(outcome) == outcome \in {"Retryable", "TransportFailure", "TimedOut"}

CarriesStatus(outcome) ==
  outcome \in {"Delivered", "Rejected", "Retryable", "ProtocolFailure"}

\* `again` is whether the retry schedule yields another delay.
DecisionNoTerminal(outcome, again) ==
  IF again THEN "RetryScheduled" ELSE "Exhausted"

Decision(outcome, again) ==
  IF ~IsRetryable(outcome) THEN "Terminal"
  ELSE IF again THEN "RetryScheduled" ELSE "Exhausted"

\* The tag of the DeliveryResult that answers the caller of a finished delivery.
TerminalResult(outcome) == IF IsRetryable(outcome) THEN "Exhausted" ELSE outcome

-------------------------------------------------------------------------------
(* The recorded attempt.                                                   *)

\* makeDeliveryAttemptRecord: `status` is what the answer carried, if any.
AttemptRecord(outcome, status, decision, delay, started, completed) ==
  [outcome   |-> outcome,
   status    |-> IF CarriesStatus(outcome) THEN status ELSE NULL,
   decision  |-> decision,
   delay     |-> IF decision = "RetryScheduled" THEN delay ELSE NULL,
   started   |-> started,
   completed |-> completed]

\* The filter of DeliveryAttemptRecord: make() throws when it is false.
ConsistentRecord(a) ==
  /\ a.completed >= a.started
  /\ CarriesStatus(a.outcome) <=> a.status # NULL
  /\ a.decision = "RetryScheduled" <=> a.delay # NULL
  /\ IF a.decision = "Terminal" THEN ~IsRetryable(a.outcome) ELSE IsRetryable(a.outcome)

\* The CHECK constraints of table delivery_attempts.
AttemptRowChecks(a) ==
  /\ a.completed >= a.started
  /\ \/ a.decision = "RetryScheduled" /\ a.delay # NULL /\ a.delay >= 0
     \/ a.decision # "RetryScheduled" /\ a.delay = NULL
  /\ \/ /\ a.outcome \in {"Delivered", "Rejected", "Retryable", "ProtocolFailure"}
        /\ a.status # NULL
     \/ a.outcome \in {"TransportFailure", "TimedOut"} /\ a.status = NULL
  /\ \/ /\ a.decision = "Terminal"
        /\ a.outcome \in {"Delivered", "Rejected", "ProtocolFailure"}
     \/ /\ a.decision \in {"RetryScheduled", "Exhausted"}
        /\ a.outcome \in {"Retryable", "TransportFailure", "TimedOut"}

-------------------------------------------------------------------------------
(* The state of the delivery: four copies of one table.                    *)

\* deliveryStateFromResult, for the result with this tag and status.
DeliveryStateFromResult(result, status) ==
  CASE result = "Delivered" -> Standing("Delivered", status, NULL)
    [] result = "Rejected"  -> Standing("Rejected", status, NULL)
    [] result = "ProtocolFailure" ->
         Standing("DeadLettered", NULL, "ProviderProtocolFailure")
    [] result = "Exhausted" -> Standing("DeadLettered", NULL, "RetryBudgetExhausted")

\* terminalStateFromAttempt; NULL is its `undefined`.
TerminalStateFromAttempt(a) ==
  CASE a.decision = "Exhausted" ->
         Standing("DeadLettered", NULL, "RetryBudgetExhausted")
    [] /\ a.decision = "Terminal"
       /\ a.outcome \in {"Delivered", "Rejected"}
       /\ a.status # NULL -> Standing(a.outcome, a.status, NULL)
    [] a.decision = "Terminal" /\ a.outcome = "ProtocolFailure" ->
         Standing("DeadLettered", NULL, "ProviderProtocolFailure")
    [] OTHER -> NULL

\* The CASE expressions of the recordAttempt statement, over the row `old`.
SqlStateNoExhausted(a, old) ==
  [state  |-> CASE a.decision = "Terminal" /\ a.outcome = "Delivered" -> "Delivered"
                [] a.decision = "Terminal" /\ a.outcome = "Rejected" -> "Rejected"
                [] OTHER -> old.state,
   status |-> IF a.decision = "Terminal" THEN a.status ELSE old.status,
   reason |-> old.reason]

SqlState(a, old) ==
  [state  |-> CASE a.decision = "Terminal" /\ a.outcome = "Delivered" -> "Delivered"
                [] a.decision = "Terminal" /\ a.outcome = "Rejected" -> "Rejected"
                [] a.decision = "Terminal" /\ a.outcome = "ProtocolFailure" -> "DeadLettered"
                [] a.decision = "Exhausted" -> "DeadLettered"
                [] OTHER -> old.state,
   status |-> IF a.decision = "Terminal" /\ a.outcome \in {"Delivered", "Rejected"}
              THEN a.status ELSE old.status,
   reason |-> CASE a.decision = "Terminal" /\ a.outcome = "ProtocolFailure" ->
                     "ProviderProtocolFailure"
                [] a.decision = "Exhausted" -> "RetryBudgetExhausted"
                [] OTHER -> old.reason]

\* The constraint deliveries_state_status_check, as the last migration leaves it.
StandingChecks(s) ==
  \/ s.state \in {"Pending", "Terminated"} /\ s.status = NULL /\ s.reason = NULL
  \/ s.state \in {"Delivered", "Rejected"} /\ s.status # NULL /\ s.reason = NULL
  \/ s.state = "DeadLettered" /\ s.status = NULL /\ s.reason \in DeadLetterReasons

===============================================================================
