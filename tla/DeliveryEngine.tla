----------------------------- MODULE DeliveryEngine -----------------------------
(***************************************************************************)
(* The runs of runDeliveryWithRetry in one process.  Every attempt waits   *)
(* for a permit of its destination and then, keeping it, for a global one; *)
(* both come back before the retry is decided, stored and slept out.       *)
(*                                                                         *)
(* Instants are kept as the time left until them: `left` until the         *)
(* deadline of the run, `timer` until the attempt times out, the record is *)
(* stored or the retry is due.  An attempt is given its timeout before it  *)
(* waits for the permits, and its timer runs only after that.  Time passes *)
(* when no fiber has anything to do: the event loop is not overloaded.     *)
(***************************************************************************)
EXTENDS Integers, FiniteSets, FiniteSetsExt

CONSTANTS Call,             \* each delivery has one run in the process
          Destination,
          Target,           \* the destination of a call
          NULL,
          DestinationLimit, \* concurrency.perDestination
          GlobalLimit,      \* concurrency.global
          MaxAttempts, MaxElapsed, AttemptTimeout, BaseDelay, MaxDelay,
          RetryAfters,      \* what a retryable answer may ask to wait, 0 if it asks nothing
          RecordTime        \* the longest that storing an attempt takes

ASSUME EngineAssumption ==
  /\ IsFiniteSet(Call)
  /\ Target \in [Call -> Destination]
  /\ GlobalLimit \in Nat \ {0}
  /\ DestinationLimit \in Nat \ {0}
  /\ {MaxAttempts, MaxElapsed, AttemptTimeout, BaseDelay, MaxDelay} \subseteq Nat \ {0}
  /\ 0 \in RetryAfters /\ RetryAfters \subseteq Nat
  /\ RecordTime \in Nat
  /\ NULL \notin Int

VARIABLES runs,             \* the run of each call, NULL when there is none
          destinationTaken, \* permits taken from the semaphore of each destination
          globalTaken,      \* permits taken from globalCapacity
          active            \* activeByDestination: what the process reports
engineVars == <<runs, destinationTaken, globalTaken, active>>

Phases == {"waitingDestination", "waitingGlobal", "sending", "recording", "sleeping"}

\* A run: the attempts begun and, while a decision is being stored, the delay of the
\* retry, or NULL after the last attempt.
Run == [phase     : Phases,
        attempts  : 1..MaxAttempts,
        left      : Int,
        timer     : Nat,
        delay     : Nat \cup {NULL}]

ASSUME RunAssumption == NULL \notin Run

Running(c) == runs[c] # NULL
Is(c, phase) == Running(c) /\ runs[c].phase = phase

EngineInit ==
  /\ runs = [c \in Call |-> NULL]
  /\ destinationTaken = [d \in Destination |-> 0]
  /\ globalTaken = 0
  /\ active = [d \in Destination |-> 0]

NoPermits == UNCHANGED <<destinationTaken, globalTaken, active>>

TimeoutFull(left) == AttemptTimeout

\* The timeout of an attempt that begins now: 0 when the deadline has gone by.
Timeout(left) == Min({AttemptTimeout, Max({left, 0})})

Start(c) ==
  /\ ~Running(c)
  /\ runs' = [runs EXCEPT ![c] =
       [phase |-> "waitingDestination", attempts |-> 1, left |-> MaxElapsed,
        timer |-> Timeout(MaxElapsed), delay |-> NULL]]
  /\ NoPermits

TakeDestination(c) ==
  /\ Is(c, "waitingDestination")
  /\ destinationTaken[Target[c]] < DestinationLimit
  /\ destinationTaken' = [destinationTaken EXCEPT ![Target[c]] = @ + 1]
  /\ runs' = [runs EXCEPT ![c].phase = "waitingGlobal"]
  /\ UNCHANGED <<globalTaken, active>>

TakeGlobal(c) ==
  /\ Is(c, "waitingGlobal")
  /\ globalTaken < GlobalLimit
  /\ globalTaken' = globalTaken + 1
  /\ active' = [active EXCEPT ![Target[c]] = @ + 1]
  /\ runs' = [runs EXCEPT ![c].phase = "sending"]
  /\ UNCHANGED destinationTaken

ReturnsWhatItUses(c) ==
  LET sends == IF Is(c, "sending") THEN 1 ELSE 0
  IN  /\ destinationTaken' = [destinationTaken EXCEPT ![Target[c]] = @ - sends]
      /\ globalTaken' = globalTaken - sends
      /\ active' = [active EXCEPT ![Target[c]] = @ - sends]

\* An attempt that ends, or is interrupted wherever it is, gives back what it holds.
Returns(c) ==
  LET waits == IF Is(c, "waitingGlobal") THEN 1 ELSE 0
      sends == IF Is(c, "sending") THEN 1 ELSE 0
  IN  /\ destinationTaken' = [destinationTaken EXCEPT ![Target[c]] = @ - waits - sends]
      /\ globalTaken' = globalTaken - sends
      /\ active' = [active EXCEPT ![Target[c]] = @ - sends]

\* The schedule: exponential back-off with a cap, a jitter that rounds down, at least
\* what the provider asks and at most what is left; NULL when a limit ends the retries.
Backoff(n) == Min({BaseDelay * 2^(n - 1), MaxDelay})

DelayOneTooMany(run, jitter, retryAfter) ==
  LET delay == Min({Max({jitter, retryAfter}), Max({run.left, 0})})
  IN  IF run.attempts <= MaxAttempts /\ delay < run.left THEN delay ELSE NULL

Delay(run, jitter, retryAfter) ==
  LET delay == Min({Max({jitter, retryAfter}), Max({run.left, 0})})
  IN  IF run.attempts < MaxAttempts /\ delay < run.left THEN delay ELSE NULL

\* An answer for good, one that may be retried after `retryAfter`, a transport failure
\* or the timeout, which ask for nothing.  The attempt is then decided and stored.
Answer(c, retryAfter) ==
  /\ Is(c, "sending")
  /\ Returns(c)
  /\ \E jitter \in 0..(MaxDelay - 1) :
       /\ jitter < Backoff(runs[c].attempts)
       /\ runs' = [runs EXCEPT ![c].phase = "recording", ![c].timer = RecordTime,
            ![c].delay = IF retryAfter = NULL THEN NULL ELSE Delay(runs[c], jitter, retryAfter)]

\* The attempt is stored.  A retry sleeps out its delay from here.
Recorded(c) ==
  /\ Is(c, "recording")
  /\ runs[c].delay # NULL
  /\ runs' = [runs EXCEPT ![c].phase = "sleeping", ![c].timer = runs[c].delay,
                          ![c].delay = NULL]
  /\ NoPermits

\* The last attempt is stored, and the run has its result.
Finish(c) ==
  /\ Is(c, "recording")
  /\ runs[c].delay = NULL
  /\ runs' = [runs EXCEPT ![c] = NULL]
  /\ NoPermits

Wake(c) ==
  /\ Is(c, "sleeping")
  /\ runs[c].timer = 0
  /\ runs' = [runs EXCEPT ![c].phase = "waitingDestination", ![c].attempts = @ + 1,
                          ![c].timer = Timeout(runs[c].left)]
  /\ NoPermits

\* A lost claim, a failed statement, a caller that is gone or the end of the process.
Interrupt(c) ==
  /\ Running(c)
  /\ Returns(c)
  /\ runs' = [runs EXCEPT ![c] = NULL]

Timed == {"sending", "recording", "sleeping"}

\* Runs that go on without waiting for anything.
Due(c) ==
  \/ Is(c, "waitingDestination") /\ destinationTaken[Target[c]] < DestinationLimit
  \/ Is(c, "waitingGlobal") /\ globalTaken < GlobalLimit
  \/ Running(c) /\ runs[c].phase \in Timed /\ runs[c].timer = 0

Closer(run) ==
  [run EXCEPT !.left = @ - 1, !.timer = IF run.phase \in Timed THEN @ - 1 ELSE @]

\* Time is let pass only towards a timer: if there is none, it would change nothing.
EngineElapse ==
  /\ \E c \in Call : Running(c) /\ runs[c].phase \in Timed
  /\ \A c \in Call : ~Due(c)
  /\ runs' = [c \in Call |-> IF Running(c) THEN Closer(runs[c]) ELSE NULL]
  /\ NoPermits

===============================================================================
