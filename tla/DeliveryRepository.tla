--------------------------- MODULE DeliveryRepository ---------------------------
(***************************************************************************)
(* The delivery repository under every use its callers can make of it.     *)
(* `held` is every claim the store ever handed out: a worker may be paused *)
(* at any point and come back with a claim whose lease ended long ago, so  *)
(* a claim is never taken out of `held` and any of them may be presented   *)
(* at any time.  A crashed process is one that presents nothing any more.  *)
(***************************************************************************)
EXTENDS DeliveryTable

CONSTANT Completions   \* the results callers hand to completeClaim; the relay hands none

ASSUME CompletionsAssumption ==
  Completions \subseteq {"Delivered", "Rejected", "ProtocolFailure", "Exhausted"}

VARIABLE held   \* the claims handed out, each with its holder's next ordinal
vars == <<now, deliveries, attempts, held>>

Init == TablesInit /\ held = {}

Intake(d, dest, version, w) ==
  /\ InsertClaimed(d, dest, version, w)
  /\ held' = held \cup {ClaimOf(d, 1)}

SaveUnclaimed(d, dest) ==
  /\ Save(d, dest)
  /\ UNCHANGED held

\* reconcileOnce takes a batch of claims for its process, at a reading of the clock and
\* with ordinals that may both be out of date when the rows are locked.
TakeBatch(w, dest, at, S, next) ==
  /\ ClaimPending(w, dest, at, S)
  /\ held' = held \cup {ClaimOf(d, next[d]) : d \in S}

Reconcile(w, dest) ==
  \E at \in Readings : \E S \in Batches(dest, at) : \E next \in ReadOrdinals(S) :
    TakeBatch(w, dest, at, S, next)

Renew(c) == RenewClaim(c) /\ UNCHANGED held

Release(c) == ReleaseClaim(c) /\ UNCHANGED held

Complete(c, result) == CompleteClaim(c, result) /\ UNCHANGED held

\* runDeliveryWithRetry counts its ordinal up from the claim's first one.
Record(c, outcome, decision, due) ==
  /\ RecordAttempt(c, outcome, decision, due)
  /\ held' = (held \ {c}) \cup {[c EXCEPT !.ordinal = @ + 1]}

Operate(d) ==
  /\ \/ RetryDeadLetter(d)
     \/ TerminateDeadLetter(d)
     \/ \E dest \in Destination, version \in Version : RepairDeadLetter(d, dest, version)
  /\ UNCHANGED held

Advance == Tick /\ UNCHANGED held

DueTimes == {t + delay : t \in WorkerClock, delay \in RetryDelays}

Next ==
  \/ \E d \in Delivery, dest \in Destination, version \in Version \cup {NULL}, w \in Worker :
       Intake(d, dest, version, w)
  \/ \E d \in Delivery, dest \in Destination : SaveUnclaimed(d, dest)
  \/ \E w \in Worker, dest \in Destination : Reconcile(w, dest)
  \/ \E c \in held : Renew(c)
  \/ \E c \in held : Release(c)
  \/ \E c \in held, result \in Completions : Complete(c, result)
  \/ \E c \in held, outcome \in Outcomes, decision \in AttemptDecisions, due \in DueTimes :
       Record(c, outcome, decision, due)
  \/ \E d \in Delivery : Operate(d)
  \/ Advance

Spec == Init /\ [][Next]_vars

-------------------------------------------------------------------------------
(* The tables seen as the promised store.                                  *)

StoredHistory(d) ==
  [o \in 1..Cardinality(Ordinals(d)) |->
     LET a == CHOOSE b \in attempts : b.delivery = d /\ b.ordinal = o
     IN [by |-> a.owner, term |-> a.generation,
         outcome |-> a.outcome, decision |-> a.decision]]

Store == INSTANCE DeliveryStore WITH
  NoOne   <- NULL,
  state   <- [d \in Delivery |-> IF Exists(d) THEN State(d) ELSE "Absent"],
  holder  <- [d \in Delivery |-> IF Exists(d) THEN deliveries[d].owner ELSE NULL],
  term    <- [d \in Delivery |-> IF Exists(d) THEN deliveries[d].generation ELSE 0],
  history <- [d \in Delivery |-> StoredHistory(d)]

\* The Postgres adapter keeps the promise of the services: every statement is a
\* step of the abstract store, or changes nothing it can see.
ImplementsStore == Store!Spec

-------------------------------------------------------------------------------
\* Every variable has its type.
TypeOK ==
  /\ now \in 0..MaxNow
  /\ deliveries \in [Delivery -> Row \cup {NULL}]
  /\ attempts \subseteq Attempt
  /\ held \subseteq Claim

\* No operation, in any order, trips a CHECK constraint of table deliveries and
\* turns into a database error: the standing is consistent, owner and lease come
\* and go together, and only a Pending delivery is claimed.
ClaimConstraint(row) ==
  /\ row.owner = NULL <=> row.lease = NULL
  /\ row.owner # NULL => row.generation > 0 /\ row.standing.state = "Pending"

RowsKeepTheirChecks ==
  \A d \in Delivery : Exists(d) =>
    StandingChecks(deliveries[d].standing) /\ ClaimConstraint(deliveries[d])

\* What the fence rests on: a claim's generation never exceeds its row's, names one
\* claim only, and belongs to the row's owner when it is the row's generation.
ClaimsTraceRows ==
  /\ \A c \in held :
       /\ Exists(c.delivery)
       /\ c.generation <= deliveries[c.delivery].generation
       /\ c.generation = deliveries[c.delivery].generation =>
            deliveries[c.delivery].owner \in {c.owner, NULL}
  /\ \A c1, c2 \in held :
       c1.delivery = c2.delivery /\ c1.generation = c2.generation => c1 = c2

\* Of all the claims ever handed out for a delivery, at most one still passes the
\* fence, however leases expired, were released, renewed or taken over.
OneLiveClaim ==
  \A c1, c2 \in held :
    c1.delivery = c2.delivery /\ Owned(c1) /\ Owned(c2) => c1 = c2

\* The history of a delivery has no hole and no repeated ordinal, although each holder
\* counts ordinals in its own memory from what a snapshot showed at claim time.
OrdinalsContiguous ==
  \A d \in Delivery : \E k \in 0..MaxOrdinal :
    /\ Ordinals(d) = 1..k
    /\ \A a, b \in attempts :
         a.delivery = d /\ b.delivery = d /\ a.ordinal = b.ordinal => a = b

\* What a reader of the claim and of the runbook expects: whoever passes the fence also
\* has a free ordinal, so that the primary key never refuses the attempt of the rightful
\* holder.
HolderOrdinalIsFree ==
  \A c \in held : Owned(c) => c.ordinal \notin Ordinals(c.delivery)

\* Under the relay's own calls: while a delivery waits for a scheduled retry, its row
\* is due exactly when the newest attempt of the history says: the two tables tell one
\* story.
Newest(d, a) == a \in attempts /\ a.delivery = d /\ a.ordinal + 1 = NextOrdinal(d)

DueAsRecorded ==
  \A d \in Delivery, a \in attempts :
    Newest(d, a) /\ a.decision = "RetryScheduled" => deliveries[d].eligible = a.due

\* The history of a delivery over all its claims is one story: no old holder adds to
\* what a newer one has begun to write, under one claim only a scheduled retry is
\* followed by another attempt, and an answer that delivers or rejects is the last
\* attempt, of which the row says the same.
InClaimOrder ==
  \A a, b \in attempts : a.delivery = b.delivery /\ a.ordinal < b.ordinal =>
    /\ a.generation <= b.generation
    /\ a.generation = b.generation => a.owner = b.owner /\ a.decision = "RetryScheduled"

AnswersLast ==
  \A a \in attempts : a.outcome \in {"Delivered", "Rejected"} =>
    Newest(a.delivery, a) /\ State(a.delivery) = a.outcome

AttemptsInOrder == InClaimOrder /\ AnswersLast

-------------------------------------------------------------------------------
\* A delivery that was delivered, rejected or terminated is never touched again,
\* by a stale worker or by an operator.
Final(d) == Exists(d) /\ State(d) \in {"Delivered", "Rejected", "Terminated"}

FinalIsFinal ==
  [][\A d \in Delivery : Final(d) => deliveries'[d] = deliveries[d]]_vars

\* Once the fence rejects a claim it rejects it for good: no takeover, release,
\* dead letter or reopening by an operator lets an old holder back in.
FencedOutForGood ==
  [][\A c \in held : ~Owned(c) => ~Owned(c)']_vars

\* Under the relay's own calls: nobody takes a delivery over before the due time of
\* its scheduled retry, and never from a holder whose lease still runs.
TakeoverInTime ==
  [][\A d \in Delivery :
       /\ Exists(d)
       /\ deliveries'[d].generation > deliveries[d].generation
       => /\ deliveries[d].owner # NULL => deliveries[d].lease <= now
          /\ \A a \in attempts :
               Newest(d, a) /\ a.decision = "RetryScheduled" => a.due <= now]_vars

===============================================================================
