----------------------------- MODULE DeliveryTable -----------------------------
(***************************************************************************)
(* The Postgres tables deliveries and delivery_attempts, and the statement *)
(* behind every operation that changes them.  Each statement commits on    *)
(* its own and reads the server's clock_timestamp() once, so it is one     *)
(* step.  claimPending alone looks at two tables: what it returns beside   *)
(* the row it locks comes from the older snapshot it began with, so here   *)
(* its clock reading and its ordinals are choices out of the past, and     *)
(* ClaimStatement has the two steps they come from.                        *)
(*                                                                         *)
(* An operator is enabled exactly when its statement returns a row;        *)
(* otherwise the adapter fails with ClaimLostError or                      *)
(* DeadLetterRecoveryError and the tables are as before, so there is no    *)
(* step.  Who may call what, and when, is left to the modules that extend  *)
(* this one.                                                               *)
(***************************************************************************)
EXTENDS DeliveryPolicy, FiniteSets

CONSTANTS Delivery,        \* delivery ids
          Destination,     \* destination ids
          Worker,          \* worker identities, one per process
          Version,         \* configuration versions a route snapshot may carry
          Status,          \* an HTTP status; its class is the attempt's outcome
          Outcomes,        \* the outcomes of attempts that are explored
          LeaseDuration,   \* claimLeaseDuration
          ClaimBatchSize,  \* the LIMIT of claimPending
          RetryDelays,     \* delays a retry schedule may yield
          ClockSkew,       \* how far a worker's clock is from the server's
          MaxNow,          \* bound on the server clock
          MaxGeneration,   \* bound on claim_generation
          MaxOrdinal       \* bound on attempts of one delivery

ASSUME TableAssumption ==
  /\ LeaseDuration \in Nat \ {0}
  /\ ClaimBatchSize \in Nat \ {0}
  /\ RetryDelays \subseteq Nat
  /\ ClockSkew \in Nat
  /\ MaxNow \in Nat
  /\ MaxGeneration \in Nat \ {0}
  /\ MaxOrdinal \in Nat
  /\ Outcomes \subseteq AttemptOutcomes

VARIABLES now,         \* clock_timestamp() of the server
          deliveries,  \* table deliveries: the row of each id, NULL before its INSERT
          attempts     \* table delivery_attempts
tables == <<now, deliveries, attempts>>

Standings == [state : DeliveryStates, status : {NULL, Status},
              reason : DeadLetterReasons \cup {NULL}]

Row == [standing    : Standings,
        destination : Destination,
        route       : Version \cup {NULL},
        owner       : Worker \cup {NULL},
        generation  : 0..MaxGeneration,
        lease       : Nat \cup {NULL},
        eligible    : Nat]

ASSUME NullAssumption ==
  /\ NULL \notin Row
  /\ NULL \notin Worker
  /\ NULL \notin Nat
  /\ NULL \notin DeadLetterReasons
  /\ NULL # Status

Attempt == [delivery   : Delivery,
            ordinal    : 1..MaxOrdinal,
            owner      : Worker,
            generation : 1..MaxGeneration,
            outcome    : AttemptOutcomes,
            decision   : AttemptDecisions,
            due        : Nat \cup {NULL}]

\* What a caller of the store holds: the DeliveryClaim, and the ordinal of the
\* next attempt it will record.
Claim == [delivery   : Delivery,
          owner      : Worker,
          generation : 1..MaxGeneration,
          ordinal    : 1..(MaxOrdinal + 1)]

TablesInit ==
  /\ now = 0
  /\ deliveries = [d \in Delivery |-> NULL]
  /\ attempts = {}

Exists(d) == deliveries[d] # NULL
State(d) == deliveries[d].standing.state

\* The primary key of delivery_attempts, and MAX(ordinal) + 1.
Ordinals(d) == {a.ordinal : a \in {b \in attempts : b.delivery = d}}
NextOrdinal(d) ==
  IF Ordinals(d) = {} THEN 1
  ELSE 1 + CHOOSE m \in Ordinals(d) : \A o \in Ordinals(d) : o <= m

-------------------------------------------------------------------------------
(* Fencing: the WHERE clause of the statements a claim holder may issue.    *)

OwnedNoGeneration(c) ==
  /\ Exists(c.delivery)
  /\ State(c.delivery) = "Pending"
  /\ deliveries[c.delivery].owner = c.owner

Owned(c) ==
  /\ Exists(c.delivery)
  /\ State(c.delivery) = "Pending"
  /\ deliveries[c.delivery].owner = c.owner
  /\ deliveries[c.delivery].generation = c.generation

Fenced(c) == Owned(c) /\ deliveries[c.delivery].lease > now

-------------------------------------------------------------------------------
(* Rows appear.                                                            *)

NewRowNoDefault(dest, version, w, generation, lease) ==
  [standing |-> PendingStanding, destination |-> dest, route |-> version,
   owner |-> w, generation |-> generation, lease |-> lease, eligible |-> NULL]

NewRow(dest, version, w, generation, lease) ==
  [standing |-> PendingStanding, destination |-> dest, route |-> version,
   owner |-> w, generation |-> generation, lease |-> lease, eligible |-> now]

\* accept (with the route snapshot) and savePending (without): the delivery is
\* born claimed, at generation 1, by the process that took it in.
InsertClaimed(d, dest, version, w) ==
  /\ ~Exists(d)
  /\ deliveries' = [deliveries EXCEPT ![d] =
                      NewRow(dest, version, w, 1, now + LeaseDuration)]
  /\ UNCHANGED <<now, attempts>>

\* save: INSERT ... ON CONFLICT (delivery_id) DO NOTHING, the column defaults
\* leaving the delivery unclaimed.
Save(d, dest) ==
  /\ ~Exists(d)
  /\ deliveries' = [deliveries EXCEPT ![d] = NewRow(dest, NULL, NULL, 0, NULL)]
  /\ UNCHANGED <<now, attempts>>

-------------------------------------------------------------------------------
(* Claims.                                                                 *)

ClaimableUnowned(d, dest, at) ==
  /\ Exists(d)
  /\ State(d) = "Pending"
  /\ deliveries[d].destination = dest
  /\ deliveries[d].eligible <= at
  /\ deliveries[d].owner = NULL

\* The WHERE clause of `candidates` over the newest version of the row, at the instant
\* the statement read from the clock.
Claimable(d, dest, at) ==
  /\ Exists(d)
  /\ State(d) = "Pending"
  /\ deliveries[d].destination = dest
  /\ deliveries[d].eligible <= at
  /\ deliveries[d].owner = NULL \/ deliveries[d].lease <= at

\* SKIP LOCKED passes over the rows other transactions hold, so the statement may
\* return any batch of claimable rows that LIMIT allows.
Batches(dest, at) ==
  {S \in SUBSET {d \in Delivery : Claimable(d, dest, at)} :
     S # {} /\ Cardinality(S) <= ClaimBatchSize}

ClaimedSameGeneration(row, w, at) ==
  [row EXCEPT !.owner = w, !.lease = at + LeaseDuration]

\* The row after the UPDATE of claimPending.
Claimed(row, w, at) ==
  [row EXCEPT !.owner = w, !.generation = @ + 1, !.lease = at + LeaseDuration]

ClaimPending(w, dest, at, S) ==
  /\ S \in Batches(dest, at)
  /\ \A d \in S : deliveries[d].generation < MaxGeneration
  /\ deliveries' = [d \in Delivery |->
       IF d \in S THEN Claimed(deliveries[d], w, at) ELSE deliveries[d]]
  /\ UNCHANGED <<now, attempts>>

\* The clock readings and, for each row of a batch, the next ordinals that a snapshot of
\* any age may show.
Readings == 0..now
ReadOrdinals(S) ==
  {next \in [S -> 1..(MaxOrdinal + 1)] : \A d \in S : next[d] <= NextOrdinal(d)}

\* The claim that claimPending (or an intake) hands out for row `d` of the new state,
\* to count on from the ordinal it read.
ClaimOf(d, ordinal) ==
  [delivery |-> d, owner |-> deliveries'[d].owner,
   generation |-> deliveries'[d].generation, ordinal |-> ordinal]

RenewClaim(c) ==
  /\ Fenced(c)
  /\ deliveries' = [deliveries EXCEPT ![c.delivery].lease = now + LeaseDuration]
  /\ UNCHANGED <<now, attempts>>

ReleaseClaim(c) ==
  /\ Owned(c)
  /\ deliveries' = [deliveries EXCEPT ![c.delivery].owner = NULL,
                                      ![c.delivery].lease = NULL]
  /\ UNCHANGED <<now, attempts>>

-------------------------------------------------------------------------------
(* Attempts.                                                               *)

\* The attempts a claim holder may record: those the record's filter accepts.
Recordable(outcome, decision) ==
  ConsistentRecord(AttemptRecord(outcome, Status, decision, 0, 0, 0))

AttemptRow(c, outcome, decision, due) ==
  [delivery |-> c.delivery, ordinal |-> c.ordinal, owner |-> c.owner,
   generation |-> c.generation, outcome |-> outcome, decision |-> decision,
   due |-> IF decision = "RetryScheduled" THEN due ELSE NULL]

FinishingTerminalOnly(decision) == decision = "Terminal"

Finishing(decision) == decision \in {"Terminal", "Exhausted"}

AfterAttemptKeepsDue(row, outcome, decision, due) ==
  [row EXCEPT
     !.standing = SqlState(AttemptRecord(outcome, Status, decision, 0, 0, 0), @),
     !.owner    = IF Finishing(decision) THEN NULL ELSE @,
     !.lease    = IF Finishing(decision) THEN NULL ELSE @]

\* The row after the UPDATE of recordAttempt: only a scheduled retry keeps the
\* claim, and only a scheduled retry moves next_eligible_at_ms.
AfterAttempt(row, outcome, decision, due) ==
  [row EXCEPT
     !.standing = SqlState(AttemptRecord(outcome, Status, decision, 0, 0, 0), @),
     !.owner    = IF Finishing(decision) THEN NULL ELSE @,
     !.lease    = IF Finishing(decision) THEN NULL ELSE @,
     !.eligible = IF decision = "RetryScheduled" THEN due ELSE @]

\* The worker stamps the completion with its own clock, so the due time it writes
\* may lie off the server's clock by the skew.
WorkerClock == {t \in 0..MaxNow : t - now \in (0 - ClockSkew)..ClockSkew}

RecordAttemptNoKey(c, outcome, decision, due) ==
  /\ Fenced(c)
  /\ Recordable(outcome, decision)
  /\ c.ordinal <= MaxOrdinal
  /\ deliveries' = [deliveries EXCEPT ![c.delivery] =
                      AfterAttempt(@, outcome, decision, due)]
  /\ attempts' = attempts \cup {AttemptRow(c, outcome, decision, due)}
  /\ UNCHANGED now

\* One statement updates the row and inserts the attempt; a duplicate primary key
\* fails both.
RecordAttempt(c, outcome, decision, due) ==
  /\ Fenced(c)
  /\ Recordable(outcome, decision)
  /\ c.ordinal <= MaxOrdinal
  /\ c.ordinal \notin Ordinals(c.delivery)
  /\ deliveries' = [deliveries EXCEPT ![c.delivery] =
                      AfterAttempt(@, outcome, decision, due)]
  /\ attempts' = attempts \cup {AttemptRow(c, outcome, decision, due)}
  /\ UNCHANGED now

\* completeClaim stores a result without an attempt; the tests call it, the worker
\* does not.
CompleteClaim(c, result) ==
  /\ Fenced(c)
  /\ deliveries' = [deliveries EXCEPT
                      ![c.delivery].standing = DeliveryStateFromResult(result, Status),
                      ![c.delivery].owner = NULL,
                      ![c.delivery].lease = NULL]
  /\ UNCHANGED <<now, attempts>>

-------------------------------------------------------------------------------
(* Dead letters.  requireDeadLetter reads the row first, but the UPDATE checks *)
(* the state again and the destination never changes, so the pair acts as its *)
(* UPDATE.                                                                  *)

Reopened(row) ==
  [row EXCEPT !.standing = PendingStanding, !.owner = NULL, !.lease = NULL,
              !.eligible = now]

RetryDeadLetterAnyState(d) ==
  /\ Exists(d)
  /\ deliveries' = [deliveries EXCEPT ![d] = Reopened(@)]
  /\ UNCHANGED <<now, attempts>>

RetryDeadLetter(d) ==
  /\ Exists(d)
  /\ State(d) = "DeadLettered"
  /\ deliveries' = [deliveries EXCEPT ![d] = Reopened(@)]
  /\ UNCHANGED <<now, attempts>>

RepairDeadLetter(d, dest, version) ==
  /\ Exists(d)
  /\ State(d) = "DeadLettered"
  /\ deliveries[d].destination = dest
  /\ deliveries' = [deliveries EXCEPT ![d] = [Reopened(@) EXCEPT !.route = version]]
  /\ UNCHANGED <<now, attempts>>

TerminateDeadLetter(d) ==
  /\ Exists(d)
  /\ State(d) = "DeadLettered"
  /\ deliveries' = [deliveries EXCEPT
                      ![d].standing = Standing("Terminated", NULL, NULL),
                      ![d].owner = NULL, ![d].lease = NULL]
  /\ UNCHANGED <<now, attempts>>

-------------------------------------------------------------------------------

Tick ==
  /\ now < MaxNow
  /\ now' = now + 1
  /\ UNCHANGED <<deliveries, attempts>>

===============================================================================
