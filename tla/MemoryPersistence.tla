--------------------------- MODULE MemoryPersistence ---------------------------
(***************************************************************************)
(* The memory adapter of the two storage services: one Map for each aspect *)
(* of a delivery, in place of the columns of a row and the constraints     *)
(* that tie them together.  An operation reads the clock of the process    *)
(* and then runs to its end without a yield, so it is one step, enabled    *)
(* exactly when it changes a Map.  The clock is the wall clock of the      *)
(* process and may step back at any time.                                  *)
(*                                                                         *)
(* `held` is every claim ever handed out, as in DeliveryRepository.  Each  *)
(* intake has an ingestion key and ids of its own.  Routes are left out.   *)
(***************************************************************************)
EXTENDS DeliveryPolicy, FiniteSets, Sequences

CONSTANTS Delivery,        \* delivery ids, each of an event of its own
          Destination,
          Worker,
          Status,          \* an HTTP status; its class is the attempt's outcome
          Outcomes,        \* the outcomes of attempts that are explored
          Completions,     \* the results handed to completeClaim
          LeaseDuration,
          ClaimBatchSize,  \* the limit of claimPending
          RetryDelays,
          MaxNow,          \* bound on the clock
          MaxGeneration,   \* bound on claims of one delivery
          MaxOrdinal       \* bound on attempts of one delivery

ASSUME MemoryAssumption ==
  /\ LeaseDuration \in Nat \ {0}
  /\ ClaimBatchSize \in Nat \ {0}
  /\ RetryDelays \subseteq Nat
  /\ MaxNow \in Nat
  /\ MaxGeneration \in Nat \ {0}
  /\ MaxOrdinal \in Nat
  /\ Outcomes \subseteq AttemptOutcomes
  /\ Completions \subseteq {"Delivered", "Rejected", "ProtocolFailure", "Exhausted"}

VARIABLES now,             \* Clock.currentTimeMillis
          events,          \* deliveries whose event is in the Map of events
          records,         \* the Delivery of each id, NULL before it is set
          order,           \* the ids of `records`, in the order of their insertion
          generations,     \* NULL before it is set
          claims,          \* the DeliveryClaim of each id, NULL when it has none
          attempts,        \* the array of attempt records of each id
          nextEligibleAt,  \* NULL before it is set
          held             \* the claims handed out, each with its holder's next ordinal
maps == <<events, records, order, generations, claims, attempts, nextEligibleAt>>
vars == <<now, maps, held>>

Record == [standing : [state : DeliveryStates, status : {NULL, Status},
                       reason : DeadLetterReasons \cup {NULL}],
           destination : Destination]

StoredClaim == [owner : Worker, generation : 1..MaxGeneration, lease : Nat]

Attempt == [ordinal    : 1..MaxOrdinal,
            owner      : Worker,
            generation : 1..MaxGeneration,
            outcome    : AttemptOutcomes,
            decision   : AttemptDecisions]

Claim == [delivery   : Delivery,
          owner      : Worker,
          generation : 1..MaxGeneration,
          ordinal    : 1..(MaxOrdinal + 1)]

ASSUME MemoryNullAssumption ==
  /\ NULL \notin Record \cup StoredClaim \cup Worker \cup Nat \cup DeadLetterReasons
  /\ NULL # Status

Init ==
  /\ now = 0
  /\ events = {}
  /\ records = [d \in Delivery |-> NULL]
  /\ order = <<>>
  /\ generations = [d \in Delivery |-> NULL]
  /\ claims = [d \in Delivery |-> NULL]
  /\ attempts = [d \in Delivery |-> <<>>]
  /\ nextEligibleAt = [d \in Delivery |-> NULL]
  /\ held = {}

Exists(d) == records[d] # NULL
In(d, state) == Exists(d) /\ records[d].standing.state = state

Generation(d) == IF generations[d] = NULL THEN 0 ELSE generations[d]

\* Math.max(0, ...ordinals) + 1.
NextOrdinal(d) ==
  1 + CHOOSE m \in {0} \cup {attempts[d][i].ordinal : i \in DOMAIN attempts[d]} :
        \A i \in DOMAIN attempts[d] : attempts[d][i].ordinal <= m

OwnsIgnoringGeneration(c) ==
  /\ claims[c.delivery] # NULL
  /\ claims[c.delivery].owner = c.owner

\* owns, as releaseClaim calls it, without the time,
Owns(c) ==
  /\ claims[c.delivery] # NULL
  /\ claims[c.delivery].owner = c.owner
  /\ claims[c.delivery].generation = c.generation

\* and as every other operation calls it, with the time.
OwnsNow(c) == Owns(c) /\ claims[c.delivery].lease > now

HandedOutOffByOne(d, w, generation) ==
  [delivery |-> d, owner |-> w, generation |-> generation, ordinal |-> NextOrdinal(d) + 1]

HandedOut(d, w, generation) ==
  [delivery |-> d, owner |-> w, generation |-> generation, ordinal |-> NextOrdinal(d)]

-------------------------------------------------------------------------------
(* Deliveries come in.                                                     *)

Insert(d, dest, eligible) ==
  /\ records' = [records EXCEPT ![d] = [standing |-> PendingStanding, destination |-> dest]]
  /\ order' = IF Exists(d) THEN order ELSE Append(order, d)
  /\ nextEligibleAt' = [nextEligibleAt EXCEPT ![d] = eligible]
  /\ UNCHANGED <<now, attempts>>

SaveOverwrites(d, dest) ==
  /\ Insert(d, dest, now)
  /\ generations' = [generations EXCEPT ![d] = 0]
  /\ UNCHANGED <<events, claims, held>>

\* save knows the delivery but not its event.
Save(d, dest) ==
  /\ ~Exists(d)
  /\ Insert(d, dest, now)
  /\ generations' = [generations EXCEPT ![d] = 0]
  /\ UNCHANGED <<events, claims, held>>

\* savePending, and accept with the moment its caller noted before.  Their ids are new.
InsertClaimed(d, dest, w, eligible) ==
  /\ ~Exists(d)
  /\ Insert(d, dest, eligible)
  /\ events' = events \cup {d}
  /\ generations' = [generations EXCEPT ![d] = 1]
  /\ claims' = [claims EXCEPT ![d] =
       [owner |-> w, generation |-> 1, lease |-> now + LeaseDuration]]
  /\ held' = held \cup {HandedOut(d, w, 1)}

SavePending(d, dest, w) == InsertClaimed(d, dest, w, now)

Accept(d, dest, w) == \E acceptedAt \in 0..MaxNow : InsertClaimed(d, dest, w, acceptedAt)

-------------------------------------------------------------------------------
(* Claims.                                                                 *)

Claimable(d, dest) ==
  /\ In(d, "Pending")
  /\ records[d].destination = dest
  /\ nextEligibleAt[d] <= now
  /\ claims[d] # NULL => claims[d].lease <= now
  /\ d \in events

Before(d, e) ==
  \E i, j \in DOMAIN order : i < j /\ order[i] = d /\ order[j] = e

\* The loop over `records` takes the first claimable ones, up to the limit.
Batches(dest) ==
  LET claimable == {d \in Delivery : Claimable(d, dest)}
  IN  {S \in SUBSET claimable :
         /\ S # {}
         /\ \A d \in S, e \in claimable \ S : Before(d, e)
         /\ \/ Cardinality(S) = ClaimBatchSize
            \/ S = claimable /\ Cardinality(S) < ClaimBatchSize}

ClaimPendingTwiceLeased(w, dest, S) ==
  /\ S \in Batches(dest)
  /\ \A d \in S : Generation(d) < MaxGeneration
  /\ claims' = [d \in Delivery |->
       IF d \in S
       THEN [owner |-> w, generation |-> Generation(d) + 1, lease |-> now + LeaseDuration]
       ELSE claims[d]]
  /\ held' = held \cup {HandedOut(d, w, Generation(d) + 1) : d \in S}
  /\ UNCHANGED <<now, events, records, order, generations, attempts, nextEligibleAt>>

ClaimPending(w, dest, S) ==
  /\ S \in Batches(dest)
  /\ \A d \in S : Generation(d) < MaxGeneration
  /\ generations' = [d \in Delivery |->
       IF d \in S THEN Generation(d) + 1 ELSE generations[d]]
  /\ claims' = [d \in Delivery |->
       IF d \in S
       THEN [owner |-> w, generation |-> Generation(d) + 1, lease |-> now + LeaseDuration]
       ELSE claims[d]]
  /\ held' = held \cup {HandedOut(d, w, Generation(d) + 1) : d \in S}
  /\ UNCHANGED <<now, events, records, order, attempts, nextEligibleAt>>

RenewClaimUntimed(c) ==
  /\ Owns(c)
  /\ claims' = [claims EXCEPT ![c.delivery] =
       [owner |-> c.owner, generation |-> c.generation, lease |-> now + LeaseDuration]]
  /\ UNCHANGED <<now, events, records, order, generations, attempts, nextEligibleAt, held>>

\* renewClaim does not look at the record.
RenewClaim(c) ==
  /\ OwnsNow(c)
  /\ claims' = [claims EXCEPT ![c.delivery] =
       [owner |-> c.owner, generation |-> c.generation, lease |-> now + LeaseDuration]]
  /\ UNCHANGED <<now, events, records, order, generations, attempts, nextEligibleAt, held>>

ReleaseClaim(c) ==
  /\ In(c.delivery, "Pending")
  /\ Owns(c)
  /\ claims' = [claims EXCEPT ![c.delivery] = NULL]
  /\ UNCHANGED <<now, events, records, order, generations, attempts, nextEligibleAt, held>>

-------------------------------------------------------------------------------
(* Attempts and results.                                                   *)

Recordable(outcome, decision) ==
  ConsistentRecord(AttemptRecord(outcome, Status, decision, 0, 0, 0))

Ended(outcome, decision) ==
  TerminalStateFromAttempt(AttemptRecord(outcome, Status, decision, 0, 0, 0))

AttemptEntry(c, outcome, decision) ==
  [ordinal |-> c.ordinal, owner |-> c.owner, generation |-> c.generation,
   outcome |-> outcome, decision |-> decision]

AppendAttempt(c, outcome, decision) ==
  /\ In(c.delivery, "Pending")
  /\ OwnsNow(c)
  /\ Recordable(outcome, decision)
  /\ c.ordinal <= MaxOrdinal
  /\ \A i \in DOMAIN attempts[c.delivery] : attempts[c.delivery][i].ordinal # c.ordinal
  /\ attempts' = [attempts EXCEPT ![c.delivery] =
       Append(@, AttemptEntry(c, outcome, decision))]
  /\ held' = (held \ {c}) \cup {[c EXCEPT !.ordinal = @ + 1]}
  /\ UNCHANGED <<now, events, order, generations>>

\* A retry is due its delay after the completion that the worker noted.
RecordRetry(c, outcome, completed, delay) ==
  /\ AppendAttempt(c, outcome, "RetryScheduled")
  /\ nextEligibleAt' = [nextEligibleAt EXCEPT ![c.delivery] = completed + delay]
  /\ UNCHANGED <<records, claims>>

RecordLastKeepsClaim(c, outcome, decision) ==
  /\ AppendAttempt(c, outcome, decision)
  /\ records' = [records EXCEPT ![c.delivery].standing = Ended(outcome, decision)]
  /\ UNCHANGED <<claims, nextEligibleAt>>

\* Any other decision ends the delivery and its claim.
RecordLast(c, outcome, decision) ==
  /\ AppendAttempt(c, outcome, decision)
  /\ records' = [records EXCEPT ![c.delivery].standing = Ended(outcome, decision)]
  /\ claims' = [claims EXCEPT ![c.delivery] = NULL]
  /\ UNCHANGED nextEligibleAt

RecordAttempt(c, outcome) ==
  \/ \E completed \in 0..MaxNow, delay \in RetryDelays :
       RecordRetry(c, outcome, completed, delay)
  \/ \E decision \in {"Terminal", "Exhausted"} : RecordLast(c, outcome, decision)

CompleteClaim(c, result) ==
  /\ In(c.delivery, "Pending")
  /\ OwnsNow(c)
  /\ records' = [records EXCEPT
       ![c.delivery].standing = DeliveryStateFromResult(result, Status)]
  /\ claims' = [claims EXCEPT ![c.delivery] = NULL]
  /\ UNCHANGED <<now, events, order, generations, attempts, nextEligibleAt, held>>

-------------------------------------------------------------------------------
(* Dead letters.                                                           *)

Reopen(d) ==
  /\ In(d, "DeadLettered")
  /\ records' = [records EXCEPT ![d].standing = PendingStanding]
  /\ claims' = [claims EXCEPT ![d] = NULL]
  /\ nextEligibleAt' = [nextEligibleAt EXCEPT ![d] = now]
  /\ UNCHANGED <<now, events, order, generations, attempts, held>>

RetryDeadLetter(d) == Reopen(d)

\* The repair sets a route, of the same destination only.
RepairDeadLetter(d, dest) == Exists(d) /\ records[d].destination = dest /\ Reopen(d)

TerminateDeadLetter(d) ==
  /\ In(d, "DeadLettered")
  /\ records' = [records EXCEPT ![d].standing = Standing("Terminated", NULL, NULL)]
  /\ claims' = [claims EXCEPT ![d] = NULL]
  /\ UNCHANGED <<now, events, order, generations, attempts, nextEligibleAt, held>>

-------------------------------------------------------------------------------

SetClock ==
  /\ now' \in (0..MaxNow) \ {now}
  /\ UNCHANGED <<maps, held>>

Next ==
  \/ \E d \in Delivery, dest \in Destination : Save(d, dest)
  \/ \E d \in Delivery, dest \in Destination, w \in Worker :
       SavePending(d, dest, w) \/ Accept(d, dest, w)
  \/ \E w \in Worker, dest \in Destination : \E S \in Batches(dest) : ClaimPending(w, dest, S)
  \/ \E c \in held : RenewClaim(c) \/ ReleaseClaim(c)
  \/ \E c \in held, outcome \in Outcomes : RecordAttempt(c, outcome)
  \/ \E c \in held, result \in Completions : CompleteClaim(c, result)
  \/ \E d \in Delivery : RetryDeadLetter(d) \/ TerminateDeadLetter(d)
  \/ \E d \in Delivery, dest \in Destination : RepairDeadLetter(d, dest)
  \/ SetClock

Spec == Init /\ [][Next]_vars

-------------------------------------------------------------------------------
(* The Maps seen as the promised store.                                    *)

Store == INSTANCE DeliveryStore WITH
  NoOne   <- NULL,
  state   <- [d \in Delivery |-> IF Exists(d) THEN records[d].standing.state ELSE "Absent"],
  holder  <- [d \in Delivery |-> IF claims[d] = NULL THEN NULL ELSE claims[d].owner],
  term    <- [d \in Delivery |-> Generation(d)],
  history <- [d \in Delivery |->
                [i \in DOMAIN attempts[d] |->
                   [by       |-> attempts[d][i].owner,
                    term     |-> attempts[d][i].generation,
                    outcome  |-> attempts[d][i].outcome,
                    decision |-> attempts[d][i].decision]]]

\* The memory adapter keeps the promise DeliveryStore states, as the Postgres one does:
\* although seven Maps change one by one, and the clock its leases are measured with may
\* step back.  What the promise leaves open, when a lease ends and in which order claims
\* are handed out, may differ between the two.
ImplementsStore == Store!Spec

-------------------------------------------------------------------------------
\* Every variable has its type.
TypeOK ==
  /\ now \in 0..MaxNow
  /\ events \subseteq Delivery
  /\ records \in [Delivery -> Record \cup {NULL}]
  /\ order \in Seq(Delivery)
  /\ generations \in [Delivery -> (0..MaxGeneration) \cup {NULL}]
  /\ claims \in [Delivery -> StoredClaim \cup {NULL}]
  /\ attempts \in [Delivery -> Seq(Attempt)]
  /\ nextEligibleAt \in [Delivery -> Nat \cup {NULL}]
  /\ held \subseteq Claim

\* What the constraints of the schema do for a row, the operations do for the Maps: a
\* claim belongs to a pending record and has the newest generation, and what a delivery
\* is, and when it is due, is known exactly for the deliveries that came in.
MapsAgree ==
  \A d \in Delivery :
    /\ claims[d] # NULL => In(d, "Pending") /\ claims[d].generation = generations[d]
    /\ Exists(d) <=> generations[d] # NULL
    /\ Exists(d) <=> nextEligibleAt[d] # NULL
    /\ Exists(d) <=> \E i \in DOMAIN order : order[i] = d
    /\ d \in events \/ attempts[d] # <<>> => Exists(d)

\* Every claim ever handed out is of its own generation, none is newer than the Map
\* says, and the newest counts on from the end of a history without holes.
ClaimsTraceMaps ==
  /\ \A c \in held :
       /\ Exists(c.delivery)
       /\ c.generation <= generations[c.delivery]
       /\ c.generation = generations[c.delivery] =>
            /\ c.ordinal = Len(attempts[c.delivery]) + 1
            /\ claims[c.delivery] # NULL => claims[c.delivery].owner = c.owner
  /\ \A c1, c2 \in held :
       c1.delivery = c2.delivery /\ c1.generation = c2.generation => c1 = c2
  /\ \A d \in Delivery : \A i \in DOMAIN attempts[d] : attempts[d][i].ordinal = i

\* What a refusal by owns() is worth when the clock may step back.  A claim that is refused
\* for its owner or generation is refused for good.  One that is refused because its lease
\* ended passes again only by a step of the clock to an earlier time: no other operation,
\* its own renewal included, brings it back.
RefusalsStand ==
  [][\A c \in held : /\ Owns(c)' => Owns(c)
                     /\ OwnsNow(c)' /\ ~OwnsNow(c) => now' < now]_vars

===============================================================================
