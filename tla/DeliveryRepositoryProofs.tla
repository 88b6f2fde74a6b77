------------------------- MODULE DeliveryRepositoryProofs -------------------------
(***************************************************************************)
(* Proofs that the delivery repository is safe for any number of           *)
(* deliveries, workers and destinations and any lease, batch size and      *)
(* bounds.                                                                 *)
(***************************************************************************)
EXTENDS DeliveryRepository, Sequences, FiniteSetTheorems, TLAPS

\* What the next claim of a delivery may at most count from.
ClaimsWithinHistory == \A c \in held : c.ordinal <= NextOrdinal(c.delivery)

\* The inductive invariant: the fence holds only with the row constraints, and the ordinals
\* only with the fence.  A claim need not know its next ordinal, but must not be ahead.
IInv ==
  /\ TypeOK
  /\ RowsKeepTheirChecks
  /\ ClaimsTraceRows
  /\ OrdinalsContiguous
  /\ ClaimsWithinHistory

-------------------------------------------------------------------------------
(* Facts about the operators.                                              *)

\* The MAX(ordinal) + 1 of a history without holes is the next free ordinal.
LEMMA NextAfterContiguous ==
  ASSUME NEW k \in Nat, NEW S, S = 1..k
  PROVE  (IF S = {} THEN 1 ELSE 1 + CHOOSE m \in S : \A o \in S : o <= m) = k + 1
<1> DEFINE top == CHOOSE m \in S : \A o \in S : o <= m
<1>1. CASE k = 0
  BY <1>1
<1>2. CASE k # 0
  <2>1. k \in S /\ \A o \in S : o <= k
    BY <1>2
  <2>2. \A m \in S : (\A o \in S : o <= m) => m = k
    BY <2>1
  <2>3. top = k
    BY <2>1, <2>2
  <2> HIDE DEF top
  <2> QED BY <2>1, <2>3
<1> QED BY <1>1, <1>2

\* What the update of recordAttempt makes of a pending row: it meets the row's
\* checks again, and stays pending only when it keeps its claim.
LEMMA AttemptKeepsStanding ==
  ASSUME NEW outcome \in AttemptOutcomes, NEW decision \in AttemptDecisions,
         Recordable(outcome, decision),
         NEW old \in Standings, old.state = "Pending", StandingChecks(old)
  PROVE  LET new == SqlState(AttemptRecord(outcome, Status, decision, 0, 0, 0), old)
         IN  /\ new \in Standings
             /\ StandingChecks(new)
             /\ new.state = "Pending" <=> ~Finishing(decision)
<1> DEFINE a == AttemptRecord(outcome, Status, decision, 0, 0, 0)
           new == SqlState(a, old)
<1>1. /\ a.outcome = outcome
      /\ a.decision = decision
      /\ a.status = IF CarriesStatus(outcome) THEN Status ELSE NULL
  BY DEF AttemptRecord
<1>2. decision = "Terminal" <=> ~IsRetryable(outcome)
  BY <1>1 DEF Recordable, ConsistentRecord, AttemptDecisions
<1>3. old.status = NULL /\ old.reason = NULL
  BY DEF StandingChecks
<1>4. CASE decision = "RetryScheduled"
  <2>1. new = [state |-> "Pending", status |-> NULL, reason |-> NULL]
    BY <1>1, <1>3, <1>4 DEF SqlState
  <2> QED BY <1>4, <2>1 DEF Standings, DeliveryStates, StandingChecks, Finishing
<1>5. CASE decision = "Exhausted"
  <2>1. new = [state |-> "DeadLettered", status |-> NULL, reason |-> "RetryBudgetExhausted"]
    BY <1>1, <1>3, <1>5 DEF SqlState
  <2> QED BY <1>5, <2>1
          DEF Standings, DeliveryStates, DeadLetterReasons, StandingChecks, Finishing
<1>6. CASE decision = "Terminal" /\ outcome \in {"Delivered", "Rejected"}
  <2>1. new = [state |-> outcome, status |-> Status, reason |-> NULL]
    BY <1>1, <1>3, <1>6 DEF SqlState, CarriesStatus
  <2> QED BY <1>6, <2>1, NullAssumption
          DEF Standings, DeliveryStates, StandingChecks, Finishing
<1>7. CASE decision = "Terminal" /\ outcome \notin {"Delivered", "Rejected"}
  <2>1. outcome = "ProtocolFailure"
    BY <1>2, <1>7 DEF IsRetryable, AttemptOutcomes
  <2>2. new = [state |-> "DeadLettered", status |-> NULL,
               reason |-> "ProviderProtocolFailure"]
    BY <1>1, <1>3, <1>7, <2>1 DEF SqlState
  <2> QED BY <1>7, <2>2
          DEF Standings, DeliveryStates, DeadLetterReasons, StandingChecks, Finishing
<1> QED BY <1>4, <1>5, <1>6, <1>7 DEF AttemptDecisions

-------------------------------------------------------------------------------
(* Steps that hand out no claim and record no attempt.                     *)

\* A row whose claim stays or is given up, and whose checks hold.
Settled(old, new) ==
  /\ old # NULL
  /\ new \in Row
  /\ StandingChecks(new.standing)
  /\ ClaimConstraint(new)
  /\ new.generation = old.generation
  /\ new.owner \in {old.owner, NULL}

\* The empty database satisfies the invariant.
LEMMA InitFence == Init => IInv
<1> SUFFICES ASSUME Init PROVE IInv
  OBVIOUS
<1> USE DEF Init, TablesInit
<1>1. TypeOK
  BY TableAssumption DEF TypeOK
<1>2. RowsKeepTheirChecks
  BY DEF RowsKeepTheirChecks, Exists
<1>3. ClaimsTraceRows /\ ClaimsWithinHistory
  BY DEF ClaimsTraceRows, ClaimsWithinHistory
<1>4. OrdinalsContiguous
  <2>1. \A d \in Delivery : Ordinals(d) = 1..0
    BY DEF Ordinals
  <2>2. 0 \in 0..MaxOrdinal
    BY TableAssumption
  <2>3. attempts = {}
    OBVIOUS
  <2> QED BY <2>1, <2>2, <2>3 DEF OrdinalsContiguous
<1> QED BY <1>1, <1>2, <1>3, <1>4 DEF IInv

\* A step that only settles rows (see above) keeps the invariant.
LEMMA SettledRowsKeepFence ==
  ASSUME IInv, UNCHANGED <<attempts, held>>, now' \in 0..MaxNow,
         deliveries' \in [Delivery -> Row \cup {NULL}],
         \A d \in Delivery :
           deliveries'[d] = deliveries[d] \/ Settled(deliveries[d], deliveries'[d])
  PROVE  IInv'
<1>1. TypeOK'
  BY DEF IInv, TypeOK
<1>2. \A d \in Delivery : Exists(d)' <=> Exists(d)
  BY NullAssumption DEF Exists, Settled
<1>3. RowsKeepTheirChecks'
  BY <1>2 DEF IInv, RowsKeepTheirChecks, Exists, Settled
<1>4. \A d \in Delivery : Exists(d) =>
        /\ deliveries'[d].generation = deliveries[d].generation
        /\ deliveries'[d].owner \in {deliveries[d].owner, NULL}
  BY DEF Settled
<1>5. \A c \in held : c.delivery \in Delivery
  BY DEF IInv, TypeOK, Claim
<1>6. ClaimsTraceRows'
  BY <1>2, <1>4, <1>5 DEF IInv, ClaimsTraceRows
<1>7. \A d : Ordinals(d)' = Ordinals(d) /\ NextOrdinal(d)' = NextOrdinal(d)
  BY DEF Ordinals, NextOrdinal
<1>8. OrdinalsContiguous'
  BY <1>7 DEF IInv, OrdinalsContiguous
<1>9. ClaimsWithinHistory'
  BY <1>7 DEF IInv, ClaimsWithinHistory
<1> QED BY <1>1, <1>3, <1>6, <1>8, <1>9 DEF IInv

\* A row the fence let a holder see: it is typed, claimed and pending.
LEMMA OwnedRow ==
  ASSUME IInv, NEW c \in held, Owned(c)
  PROVE  /\ c \in Claim
         /\ deliveries[c.delivery] \in Row
         /\ deliveries[c.delivery].standing.state = "Pending"
         /\ StandingChecks(deliveries[c.delivery].standing)
         /\ deliveries[c.delivery].owner = c.owner
         /\ deliveries[c.delivery].generation = c.generation
         /\ deliveries[c.delivery].lease \in Nat
<1>1. c \in Claim /\ c.delivery \in Delivery /\ c.owner \in Worker
  BY DEF IInv, TypeOK, Claim
<1>2. deliveries[c.delivery] \in Row
  BY <1>1 DEF IInv, TypeOK, Owned, Exists
<1>3. /\ deliveries[c.delivery].owner # NULL
      /\ deliveries[c.delivery].lease \in Nat \cup {NULL}
  BY <1>1, <1>2, NullAssumption DEF Owned, Row
<1> QED BY <1>1, <1>2, <1>3
        DEF IInv, RowsKeepTheirChecks, ClaimConstraint, Owned, Exists, State

\* renewClaim moves nothing but the lease of the row it owns.
LEMMA RenewFence ==
  ASSUME IInv, NEW c \in held, Renew(c)
  PROVE  IInv'
<1> DEFINE old == deliveries[c.delivery]
           new == [old EXCEPT !.lease = now + LeaseDuration]
<1>1. Owned(c)
  BY DEF Renew, RenewClaim, Fenced
<1>2. /\ c \in Claim /\ old \in Row /\ old.standing.state = "Pending"
      /\ StandingChecks(old.standing) /\ old.owner = c.owner
      /\ old.generation = c.generation /\ old.lease \in Nat
  BY <1>1, OwnedRow
<1>3. c.delivery \in Delivery /\ c.owner \in Worker /\ c.generation \in 1..MaxGeneration
  BY <1>2 DEF Claim
<1>4. now \in Nat /\ now + LeaseDuration \in Nat
  BY TableAssumption DEF IInv, TypeOK
<1>5. deliveries' = [deliveries EXCEPT ![c.delivery] = new]
  BY DEF Renew, RenewClaim
<1>6. new \in Row
  BY <1>2, <1>4 DEF Row
<1>7. /\ new.standing = old.standing /\ new.owner = old.owner
      /\ new.generation = old.generation /\ new.lease = now + LeaseDuration
  BY <1>2 DEF Row
<1>8. Settled(old, new)
  <2>1. old # NULL /\ c.owner # NULL /\ now + LeaseDuration # NULL
    BY <1>2, <1>3, <1>4, NullAssumption
  <2> QED BY <1>2, <1>3, <1>6, <1>7, <2>1, TableAssumption DEF Settled, ClaimConstraint
<1> HIDE DEF old, new
<1>9. \A d \in Delivery :
        deliveries'[d] = deliveries[d] \/ Settled(deliveries[d], deliveries'[d])
  BY <1>3, <1>5, <1>8 DEF IInv, TypeOK, old
<1>10. deliveries' \in [Delivery -> Row \cup {NULL}]
  BY <1>5, <1>6 DEF IInv, TypeOK
<1> QED BY <1>9, <1>10, SettledRowsKeepFence DEF Renew, RenewClaim, IInv, TypeOK

\* releaseClaim leaves the row unowned at the generation of the claim.
LEMMA ReleaseFence ==
  ASSUME IInv, NEW c \in held, Release(c)
  PROVE  IInv'
<1> DEFINE old == deliveries[c.delivery]
           new == [old EXCEPT !.owner = NULL, !.lease = NULL]
<1>1. /\ c \in Claim /\ old \in Row /\ old.standing.state = "Pending"
      /\ StandingChecks(old.standing)
  BY OwnedRow DEF Release, ReleaseClaim
<1>2. c.delivery \in Delivery
  BY <1>1 DEF Claim
<1>3. deliveries' = [deliveries EXCEPT ![c.delivery] = new]
  BY DEF Release, ReleaseClaim
<1>4. new \in Row /\ new.standing = old.standing /\ new.owner = NULL
      /\ new.lease = NULL /\ new.generation = old.generation
  BY <1>1 DEF Row
<1>5. Settled(old, new)
  BY <1>1, <1>4, NullAssumption DEF Settled, ClaimConstraint
<1> HIDE DEF old, new
<1>6. \A d \in Delivery :
        deliveries'[d] = deliveries[d] \/ Settled(deliveries[d], deliveries'[d])
  BY <1>2, <1>3, <1>5 DEF IInv, TypeOK, old
<1>7. deliveries' \in [Delivery -> Row \cup {NULL}]
  BY <1>3, <1>4 DEF IInv, TypeOK
<1> QED BY <1>6, <1>7, SettledRowsKeepFence DEF Release, ReleaseClaim, IInv, TypeOK

\* completeClaim stores a consistent standing and gives the claim up.
LEMMA CompleteFence ==
  ASSUME IInv, NEW c \in held, NEW result \in Completions, Complete(c, result)
  PROVE  IInv'
<1> DEFINE old == deliveries[c.delivery]
           standing == DeliveryStateFromResult(result, Status)
           new == [old EXCEPT !.standing = standing, !.owner = NULL, !.lease = NULL]
<1>1. c \in Claim /\ old \in Row
  BY OwnedRow DEF Complete, CompleteClaim, Fenced
<1>2. c.delivery \in Delivery
  BY <1>1 DEF Claim
<1>3. standing \in Standings /\ StandingChecks(standing)
  BY CompletionsAssumption, NullAssumption
     DEF DeliveryStateFromResult, Standing, Standings, DeliveryStates,
         DeadLetterReasons, StandingChecks
<1>4. deliveries' = [deliveries EXCEPT ![c.delivery] = new]
  BY DEF Complete, CompleteClaim
<1>5. new \in Row /\ new.standing = standing /\ new.owner = NULL
      /\ new.lease = NULL /\ new.generation = old.generation
  BY <1>1, <1>3 DEF Row
<1>6. Settled(old, new)
  BY <1>1, <1>3, <1>5, NullAssumption DEF Settled, ClaimConstraint
<1> HIDE DEF old, new
<1>7. \A d \in Delivery :
        deliveries'[d] = deliveries[d] \/ Settled(deliveries[d], deliveries'[d])
  BY <1>2, <1>4, <1>6 DEF IInv, TypeOK, old
<1>8. deliveries' \in [Delivery -> Row \cup {NULL}]
  BY <1>4, <1>5 DEF IInv, TypeOK
<1> QED BY <1>7, <1>8, SettledRowsKeepFence DEF Complete, CompleteClaim, IInv, TypeOK

\* Retrying, repairing or terminating a dead letter hands out no claim.
LEMMA OperateFence ==
  ASSUME IInv, NEW d \in Delivery, Operate(d)
  PROVE  IInv'
<1> DEFINE old == deliveries[d]
           new == deliveries'[d]
<1>1. old \in Row
  BY DEF Operate, RetryDeadLetter, TerminateDeadLetter, RepairDeadLetter, Exists,
         IInv, TypeOK
<1>2. /\ deliveries' = [deliveries EXCEPT ![d] = new]
      /\ new \in Row /\ new.owner = NULL /\ new.lease = NULL
      /\ new.generation = old.generation /\ StandingChecks(new.standing)
  <2>1. now \in Nat
    BY TableAssumption DEF IInv, TypeOK
  <2>2. Reopened(old) \in Row /\ Reopened(old).standing = PendingStanding
        /\ Reopened(old).owner = NULL /\ Reopened(old).lease = NULL
        /\ Reopened(old).generation = old.generation
    <3>1. PendingStanding \in Standings
      BY DEF PendingStanding, Standing, Standings, DeliveryStates
    <3> QED BY <1>1, <2>1, <3>1 DEF Row, Reopened
  <2>3. StandingChecks(PendingStanding)
    BY DEF StandingChecks, PendingStanding, Standing
  <2>4. CASE RetryDeadLetter(d)
    <3>1. deliveries' = [deliveries EXCEPT ![d] = Reopened(old)] /\ new = Reopened(old)
      BY <2>4 DEF RetryDeadLetter, IInv, TypeOK
    <3> QED BY <2>2, <2>3, <3>1
  <2>5. CASE TerminateDeadLetter(d)
    <3> DEFINE gone == Standing("Terminated", NULL, NULL)
               row == [old EXCEPT !.standing = gone, !.owner = NULL, !.lease = NULL]
    <3>1. deliveries' = [deliveries EXCEPT ![d] = row] /\ new = row
      BY <2>5 DEF TerminateDeadLetter, IInv, TypeOK
    <3>2. gone \in Standings /\ StandingChecks(gone)
      BY DEF Standing, Standings, DeliveryStates, StandingChecks
    <3>3. row \in Row /\ row.standing = gone /\ row.owner = NULL /\ row.lease = NULL
          /\ row.generation = old.generation
      BY <1>1, <3>2 DEF Row
    <3> QED BY <3>1, <3>2, <3>3
  <2>6. ASSUME NEW dest \in Destination, NEW version \in Version,
               RepairDeadLetter(d, dest, version)
        PROVE  /\ deliveries' = [deliveries EXCEPT ![d] = new]
               /\ new \in Row /\ new.owner = NULL /\ new.lease = NULL
               /\ new.generation = old.generation /\ StandingChecks(new.standing)
    <3> DEFINE row == [Reopened(old) EXCEPT !.route = version]
    <3>1. deliveries' = [deliveries EXCEPT ![d] = row] /\ new = row
      BY <2>6 DEF RepairDeadLetter, IInv, TypeOK
    <3>2. row \in Row /\ row.standing = PendingStanding /\ row.owner = NULL
          /\ row.lease = NULL /\ row.generation = old.generation
      BY <2>2 DEF Row
    <3> QED BY <2>3, <3>1, <3>2
  <2> QED BY <2>4, <2>5, <2>6 DEF Operate
<1>3. Settled(old, new)
  BY <1>1, <1>2, NullAssumption DEF Settled, ClaimConstraint
<1> HIDE DEF new
<1>4. \A e \in Delivery :
        deliveries'[e] = deliveries[e] \/ Settled(deliveries[e], deliveries'[e])
  BY <1>2, <1>3 DEF IInv, TypeOK
<1>5. deliveries' \in [Delivery -> Row \cup {NULL}]
  BY <1>2 DEF IInv, TypeOK
<1> QED BY <1>4, <1>5, SettledRowsKeepFence
        DEF Operate, RetryDeadLetter, TerminateDeadLetter, RepairDeadLetter, IInv, TypeOK

\* The clock does not matter to the invariant.
LEMMA AdvanceFence ==
  ASSUME IInv, Advance
  PROVE  IInv'
BY SettledRowsKeepFence, TableAssumption DEF Advance, Tick, IInv, TypeOK

\* A stuttering step keeps the invariant.
LEMMA StutterFence ==
  ASSUME IInv, UNCHANGED vars
  PROVE  IInv'
BY SettledRowsKeepFence DEF vars, IInv, TypeOK

-------------------------------------------------------------------------------
(* Steps that make rows or hand out claims.                                *)

\* The next ordinal of any delivery is one a claim may carry.
LEMMA NextOrdinalBound ==
  ASSUME IInv, NEW d \in Delivery
  PROVE  /\ NextOrdinal(d) \in 1..(MaxOrdinal + 1)
         /\ Ordinals(d) = 1..(NextOrdinal(d) - 1)
<1>1. PICK k \in 0..MaxOrdinal : Ordinals(d) = 1..k
  BY DEF IInv, OrdinalsContiguous
<1>2. NextOrdinal(d) = k + 1
  <2>1. k \in Nat
    BY TableAssumption
  <2> QED BY <1>1, <2>1, NextAfterContiguous, Zenon DEF NextOrdinal
<1> QED BY <1>1, <1>2, TableAssumption

\* A row that did not exist has no claim, so whatever it is born with is new.
LEMMA NewRowFence ==
  ASSUME IInv, NEW d \in Delivery, ~Exists(d), NEW row \in Row,
         deliveries' = [deliveries EXCEPT ![d] = row],
         StandingChecks(row.standing), ClaimConstraint(row),
         \/ held' = held
         \/ row.owner \in Worker /\ row.generation \in 1..MaxGeneration
            /\ held' = held \cup {ClaimOf(d, 1)},
         UNCHANGED <<now, attempts>>
  PROVE  IInv'
<1> DEFINE claim == ClaimOf(d, 1)
<1>1. \A e : Ordinals(e)' = Ordinals(e) /\ NextOrdinal(e)' = NextOrdinal(e)
  BY DEF Ordinals, NextOrdinal
<1>2. deliveries'[d] = row /\ \A e \in Delivery : e # d => deliveries'[e] = deliveries[e]
  BY DEF IInv, TypeOK
<1>3. \A c \in held : c.delivery \in Delivery /\ c.delivery # d /\ Exists(c.delivery)
  BY DEF IInv, TypeOK, ClaimsTraceRows, Claim
<1>4. claim = [delivery |-> d, owner |-> row.owner, generation |-> row.generation,
               ordinal |-> 1]
  BY <1>2 DEF ClaimOf
<1>5. /\ claim.delivery = d /\ claim.owner = row.owner
      /\ claim.generation = row.generation /\ claim.ordinal = 1
  BY <1>4
<1>6. row.owner \in Worker /\ row.generation \in 1..MaxGeneration => claim \in Claim
  BY <1>4, TableAssumption DEF Claim
<1> HIDE DEF claim
<1>7. held' = held \/ held' = held \cup {claim}
  BY DEF claim
<1>8. TypeOK'
  <2>1. held' \subseteq Claim
    BY <1>6 DEF IInv, TypeOK, claim
  <2> QED BY <2>1 DEF IInv, TypeOK
<1>9. RowsKeepTheirChecks'
  BY <1>2 DEF IInv, RowsKeepTheirChecks, Exists
<1>10. \A c \in held' :
         \/ c \in held /\ c.delivery # d /\ deliveries'[c.delivery] = deliveries[c.delivery]
         \/ c = claim /\ deliveries'[c.delivery] = row
  BY <1>2, <1>3, <1>5, <1>7
<1>11. ClaimsTraceRows'
  <2>1. row # NULL /\ row.generation \in Nat
    BY NullAssumption, TableAssumption DEF Row
  <2>2. ASSUME NEW c \in held'
        PROVE  /\ deliveries'[c.delivery] # NULL
               /\ c.generation <= deliveries'[c.delivery].generation
               /\ c.generation = deliveries'[c.delivery].generation =>
                    deliveries'[c.delivery].owner \in {c.owner, NULL}
    BY <1>5, <1>10, <2>1 DEF IInv, ClaimsTraceRows, Exists
  <2>3. ASSUME NEW c1 \in held', NEW c2 \in held',
               c1.delivery = c2.delivery, c1.generation = c2.generation
        PROVE  c1 = c2
    BY <1>5, <1>10, <2>3 DEF IInv, ClaimsTraceRows
  <2> QED BY <2>2, <2>3 DEF ClaimsTraceRows, Exists
<1>12. OrdinalsContiguous'
  BY <1>1 DEF IInv, OrdinalsContiguous
<1>13. ClaimsWithinHistory'
  <2>1. 1 <= NextOrdinal(d)
    BY NextOrdinalBound, TableAssumption
  <2> QED BY <1>1, <1>5, <1>10, <2>1 DEF IInv, ClaimsWithinHistory
<1> QED BY <1>8, <1>9, <1>11, <1>12, <1>13 DEF IInv

LEMMA NewPending == PendingStanding \in Standings /\ PendingStanding.state = "Pending"
BY DEF PendingStanding, Standing, Standings, DeliveryStates

\* The row an INSERT makes meets its type and its checks.
LEMMA NewRowTyped ==
  ASSUME IInv, NEW dest \in Destination, NEW version \in Version \cup {NULL},
         NEW w \in Worker \cup {NULL}, NEW generation \in 0..MaxGeneration,
         NEW lease \in Nat \cup {NULL}
  PROVE  LET row == NewRow(dest, version, w, generation, lease)
         IN  /\ row \in Row /\ StandingChecks(row.standing)
             /\ row.owner = w /\ row.generation = generation /\ row.lease = lease
             /\ row.standing.state = "Pending"
<1> DEFINE row == NewRow(dest, version, w, generation, lease)
<1>1. PendingStanding \in Standings /\ StandingChecks(PendingStanding)
      /\ PendingStanding.state = "Pending"
  BY DEF PendingStanding, Standing, Standings, DeliveryStates, StandingChecks
<1>2. now \in Nat
  BY TableAssumption DEF IInv, TypeOK
<1> QED BY <1>1, <1>2 DEF NewRow, Row

\* accept and savePending create the delivery together with its first claim.
LEMMA IntakeFence ==
  ASSUME IInv, NEW d \in Delivery, NEW dest \in Destination,
         NEW version \in Version \cup {NULL}, NEW w \in Worker,
         Intake(d, dest, version, w)
  PROVE  IInv'
<1> DEFINE row == NewRow(dest, version, w, 1, now + LeaseDuration)
<1>1. 1 \in 1..MaxGeneration /\ 1 \in 0..MaxGeneration /\ now + LeaseDuration \in Nat
  BY TableAssumption DEF IInv, TypeOK
<1>2. /\ row \in Row /\ StandingChecks(row.standing) /\ row.owner = w
      /\ row.generation = 1 /\ row.lease = now + LeaseDuration
      /\ row.standing.state = "Pending"
  BY <1>1, NewRowTyped
<1> HIDE DEF row
<1>3. ClaimConstraint(row)
  BY <1>1, <1>2, NullAssumption DEF ClaimConstraint
<1>4. deliveries' = [deliveries EXCEPT ![d] = row]
  BY DEF Intake, InsertClaimed, row
<1> QED BY <1>1, <1>2, <1>3, <1>4, NewRowFence DEF Intake, InsertClaimed

\* save creates a delivery that nobody holds.
LEMMA SaveFence ==
  ASSUME IInv, NEW d \in Delivery, NEW dest \in Destination, SaveUnclaimed(d, dest)
  PROVE  IInv'
<1> DEFINE row == NewRow(dest, NULL, NULL, 0, NULL)
<1>1. /\ 0 \in 0..MaxGeneration
      /\ NULL \in Version \cup {NULL}
      /\ NULL \in Worker \cup {NULL}
      /\ NULL \in Nat \cup {NULL}
  BY TableAssumption
<1>2. /\ row \in Row /\ StandingChecks(row.standing) /\ row.owner = NULL
      /\ row.lease = NULL
  <2>1. PendingStanding \in Standings /\ StandingChecks(PendingStanding)
    BY DEF PendingStanding, Standing, Standings, DeliveryStates, StandingChecks
  <2>2. now \in Nat
    BY TableAssumption DEF IInv, TypeOK
  <2> QED BY <1>1, <2>1, <2>2 DEF NewRow, Row
<1> HIDE DEF row
<1>3. ClaimConstraint(row)
  BY <1>2 DEF ClaimConstraint
<1>4. deliveries' = [deliveries EXCEPT ![d] = row]
  BY DEF SaveUnclaimed, Save, row
<1> QED BY <1>2, <1>3, <1>4, NewRowFence DEF SaveUnclaimed, Save

\* A worker takes over a set of unfinished deliveries, whose claims count from ordinals
\* that their histories have reached: the UPDATE of claimPending.
TakesOver(w, S, at, next) ==
  /\ \A d \in S : Exists(d) /\ State(d) = "Pending" /\ deliveries[d].generation < MaxGeneration
  /\ deliveries' = [d \in Delivery |->
       IF d \in S THEN Claimed(deliveries[d], w, at) ELSE deliveries[d]]
  /\ held' = held \cup {ClaimOf(d, next[d]) : d \in S}
  /\ UNCHANGED <<now, attempts>>

\* A takeover writes a generation above every claim of the row, so each claim it
\* hands out is the newest.
LEMMA TakeoverFence ==
  ASSUME IInv, NEW w \in Worker, NEW S \in SUBSET Delivery, NEW at \in Nat,
         NEW next, TakesOver(w, S, at, next),
         \A d \in S : next[d] \in 1..NextOrdinal(d)
  PROVE  IInv'
<1> DEFINE Given(d) == ClaimOf(d, next[d])
<1>1. held' = held \cup {Given(d) : d \in S}
  BY DEF TakesOver
<1>2. S \subseteq Delivery
  OBVIOUS
<1>3. at + LeaseDuration \in Nat /\ UNCHANGED <<now, attempts>>
  <2>1. at + LeaseDuration \in Nat
    BY TableAssumption
  <2>2. UNCHANGED <<now, attempts>>
    BY DEF TakesOver
  <2> QED BY <2>1, <2>2
<1>4. ASSUME NEW d \in S
      PROVE  /\ deliveries[d] \in Row /\ deliveries'[d] \in Row
             /\ deliveries'[d].standing = deliveries[d].standing
             /\ deliveries[d].standing.state = "Pending"
             /\ deliveries'[d].owner = w
             /\ deliveries'[d].generation = deliveries[d].generation + 1
             /\ deliveries'[d].generation \in 1..MaxGeneration
             /\ deliveries'[d].lease = at + LeaseDuration
  <2> DEFINE old == deliveries[d]
             row == [old EXCEPT !.owner = w, !.generation = @ + 1,
                                !.lease = at + LeaseDuration]
  <2>1. old \in Row /\ old.standing.state = "Pending" /\ old.generation < MaxGeneration
    BY <1>2 DEF TakesOver, Exists, State, IInv, TypeOK
  <2>2. old.generation + 1 \in 0..MaxGeneration /\ old.generation + 1 \in 1..MaxGeneration
    BY <2>1, TableAssumption DEF Row
  <2>3. row \in Row /\ row.standing = old.standing /\ row.owner = w
        /\ row.generation = old.generation + 1 /\ row.lease = at + LeaseDuration
    BY <1>3, <2>1, <2>2 DEF Row
  <2>4. deliveries'[d] = row
    BY <1>2 DEF TakesOver, Claimed
  <2> QED BY <2>1, <2>2, <2>3, <2>4
<1>5. \A d \in Delivery \ S : deliveries'[d] = deliveries[d]
  BY DEF TakesOver
<1>6. \A e : Ordinals(e)' = Ordinals(e) /\ NextOrdinal(e)' = NextOrdinal(e)
  BY <1>3 DEF Ordinals, NextOrdinal
<1>7. ASSUME NEW d \in S
      PROVE  /\ Given(d) \in Claim
             /\ Given(d).delivery = d /\ Given(d).owner = w
             /\ Given(d).generation = deliveries'[d].generation
             /\ Given(d).ordinal <= NextOrdinal(d)
  <2> DEFINE c == [delivery |-> d, owner |-> deliveries'[d].owner,
                   generation |-> deliveries'[d].generation, ordinal |-> next[d]]
  <2>1. Given(d) = c
    BY DEF ClaimOf
  <2>2. NextOrdinal(d) \in 1..(MaxOrdinal + 1) /\ next[d] \in 1..NextOrdinal(d)
    BY <1>2, NextOrdinalBound
  <2>3. next[d] \in 1..(MaxOrdinal + 1) /\ next[d] <= NextOrdinal(d)
    BY <2>2, TableAssumption
  <2> QED BY <1>2, <1>4, <2>1, <2>3 DEF Claim
<1> HIDE DEF Given
<1>8. TypeOK'
  <2>1. deliveries' \in [Delivery -> Row \cup {NULL}]
    <3>1. \A d \in Delivery : deliveries'[d] \in Row \cup {NULL}
      BY <1>4, <1>5 DEF IInv, TypeOK
    <3>2. deliveries' = [d \in Delivery |-> deliveries'[d]]
      BY DEF TakesOver
    <3> QED BY <3>1, <3>2
  <2>2. held' \subseteq Claim
    BY <1>1, <1>7 DEF IInv, TypeOK
  <2> QED BY <1>3, <2>1, <2>2 DEF IInv, TypeOK
<1>9. RowsKeepTheirChecks'
  <2>1. ASSUME NEW d \in S
        PROVE  StandingChecks(deliveries'[d].standing) /\ ClaimConstraint(deliveries'[d])
    <3>1. StandingChecks(deliveries[d].standing)
      BY <1>2, <1>4, NullAssumption DEF IInv, RowsKeepTheirChecks, Exists
    <3>2. deliveries'[d].generation > 0 /\ deliveries'[d].lease # NULL
      BY <1>3, <1>4, NullAssumption, TableAssumption
    <3> QED BY <1>4, <3>1, <3>2, NullAssumption DEF ClaimConstraint
  <2> QED BY <1>5, <2>1 DEF IInv, RowsKeepTheirChecks, Exists
<1>10. ASSUME NEW c \in held'
       PROVE  \/ c \in held /\ c.delivery \in Delivery
              \/ c.delivery \in S /\ c = Given(c.delivery)
  BY <1>1, <1>7, <1>10 DEF IInv, TypeOK, Claim
<1>11. ASSUME NEW c \in held, c.delivery \in S
       PROVE  c.generation < deliveries'[c.delivery].generation
  <2>1. c.generation \in 1..MaxGeneration /\ deliveries[c.delivery].generation \in 0..MaxGeneration
    BY <1>4, <1>11 DEF IInv, TypeOK, Claim, Row
  <2> QED BY <1>4, <1>11, <2>1, TableAssumption DEF IInv, ClaimsTraceRows
<1>12. ClaimsTraceRows'
  <2>1. ASSUME NEW c \in held'
        PROVE  /\ deliveries'[c.delivery] # NULL
               /\ c.generation <= deliveries'[c.delivery].generation
               /\ c.generation = deliveries'[c.delivery].generation =>
                    deliveries'[c.delivery].owner \in {c.owner, NULL}
    <3>1. CASE c \in held /\ c.delivery \in Delivery \ S
      BY <1>5, <3>1 DEF IInv, ClaimsTraceRows, Exists
    <3>2. CASE c \in held /\ c.delivery \in S
      <4>1. c.generation \in Nat /\ deliveries'[c.delivery].generation \in Nat
        BY <1>4, <3>2, TableAssumption DEF IInv, TypeOK, Claim
      <4> QED BY <1>4, <1>11, <3>2, <4>1, NullAssumption
    <3>3. CASE c.delivery \in S /\ c = Given(c.delivery)
      BY <1>4, <1>7, <3>3, NullAssumption, TableAssumption
    <3> QED BY <1>10, <3>1, <3>2, <3>3
  <2>2. ASSUME NEW c1 \in held', NEW c2 \in held',
               c1.delivery = c2.delivery, c1.generation = c2.generation
        PROVE  c1 = c2
    <3>1. CASE c1 \in held /\ c2 \in held
      BY <2>2, <3>1 DEF IInv, ClaimsTraceRows
    <3>2. ASSUME NEW c \in held, NEW d \in S, c.delivery = d,
                 c.generation = Given(d).generation
          PROVE  FALSE
      <4>1. c.generation \in Nat
        BY TableAssumption DEF IInv, TypeOK, Claim
      <4> QED BY <1>7, <1>11, <3>2, <4>1
    <3> QED BY <1>10, <2>2, <3>1, <3>2
  <2> QED BY <2>1, <2>2 DEF ClaimsTraceRows, Exists
<1>13. OrdinalsContiguous'
  BY <1>3, <1>6 DEF IInv, OrdinalsContiguous
<1>14. ClaimsWithinHistory'
  <2>1. ASSUME NEW c \in held' PROVE c.ordinal <= NextOrdinal(c.delivery)
    <3>1. CASE c \in held
      BY <3>1 DEF IInv, ClaimsWithinHistory
    <3>2. CASE c.delivery \in S /\ c = Given(c.delivery)
      BY <1>7, <3>2
    <3> QED BY <1>10, <3>1, <3>2
  <2> QED BY <1>6, <2>1 DEF ClaimsWithinHistory
<1> QED BY <1>8, <1>9, <1>12, <1>13, <1>14 DEF IInv

\* A batch of claimPending, taken at an instant that may be past, from ordinals that may
\* be old.
BatchTaken(w, dest, at, S, next) ==
  /\ at <= now
  /\ \A d \in S : Claimable(d, dest, at) /\ next[d] \in 1..NextOrdinal(d)
  /\ TakesOver(w, S, at, next)

LEMMA BatchTakesOver ==
  ASSUME IInv, NEW w \in Worker, NEW dest \in Destination, NEW at \in Readings,
         NEW S \in Batches(dest, at), NEW next \in ReadOrdinals(S),
         TakeBatch(w, dest, at, S, next)
  PROVE  at \in Nat /\ S \in SUBSET Delivery /\ BatchTaken(w, dest, at, S, next)
<1>1. /\ S \in SUBSET Delivery
      /\ \A d \in S : Claimable(d, dest, at)
  BY DEF Batches
<1>2. at \in Nat /\ at <= now
  BY TableAssumption DEF Readings, IInv, TypeOK
<1>3. \A d \in S : next[d] \in 1..NextOrdinal(d)
  <2> SUFFICES ASSUME NEW d \in S PROVE next[d] \in 1..NextOrdinal(d)
    OBVIOUS
  <2>1. next[d] \in 1..(MaxOrdinal + 1) /\ next[d] <= NextOrdinal(d)
    BY DEF ReadOrdinals
  <2>2. NextOrdinal(d) \in 1..(MaxOrdinal + 1)
    BY <1>1, NextOrdinalBound
  <2> QED BY <2>1, <2>2, TableAssumption
<1>4. TakesOver(w, S, at, next)
  BY <1>1 DEF TakesOver, TakeBatch, ClaimPending, Claimable
<1> QED BY <1>1, <1>2, <1>3, <1>4 DEF BatchTaken

LEMMA ReconcileParts ==
  ASSUME IInv, NEW w \in Worker, NEW dest \in Destination, Reconcile(w, dest)
  PROVE  \E at \in Nat, S \in SUBSET Delivery : \E next : BatchTaken(w, dest, at, S, next)
<1>1. PICK at \in Readings : \E S \in Batches(dest, at) : \E next \in ReadOrdinals(S) :
        TakeBatch(w, dest, at, S, next)
  BY DEF Reconcile
<1>2. PICK S \in Batches(dest, at) : \E next \in ReadOrdinals(S) :
        TakeBatch(w, dest, at, S, next)
  BY <1>1
<1>3. PICK next \in ReadOrdinals(S) : TakeBatch(w, dest, at, S, next)
  BY <1>2
<1> QED BY <1>3, BatchTakesOver

-------------------------------------------------------------------------------
(* The step that records an attempt.                                       *)

\* The attempt of a claim holder gets the next ordinal of its delivery; no other history
\* is touched.
LEMMA RecordNumbers ==
  ASSUME IInv, NEW c \in held, NEW outcome \in Outcomes,
         NEW decision \in AttemptDecisions, NEW due \in DueTimes,
         Record(c, outcome, decision, due)
  PROVE  /\ c.ordinal \in 1..MaxOrdinal
         /\ c.ordinal = NextOrdinal(c.delivery)
         /\ Ordinals(c.delivery) = 1..(c.ordinal - 1)
         /\ Ordinals(c.delivery)' = 1..c.ordinal
         /\ NextOrdinal(c.delivery)' = c.ordinal + 1
         /\ \A e : e # c.delivery => Ordinals(e)' = Ordinals(e)
         /\ \A e \in Delivery : e # c.delivery => NextOrdinal(e)' = NextOrdinal(e)
<1> DEFINE D == c.delivery
           entry == AttemptRow(c, outcome, decision, due)
<1>1. /\ Owned(c) /\ c.ordinal <= MaxOrdinal /\ attempts' = attempts \cup {entry}
      /\ c.ordinal \notin Ordinals(D)
  BY DEF Record, RecordAttempt, Fenced
<1>2. c \in Claim
  BY <1>1, OwnedRow
<1>3. D \in Delivery /\ c.ordinal \in 1..MaxOrdinal
  BY <1>1, <1>2, TableAssumption DEF Claim
<1>4. c.ordinal = NextOrdinal(D)
  <2>1. /\ NextOrdinal(D) \in 1..(MaxOrdinal + 1)
        /\ Ordinals(D) = 1..(NextOrdinal(D) - 1)
    BY <1>3, NextOrdinalBound
  <2>2. c.ordinal <= NextOrdinal(D)
    BY DEF IInv, ClaimsWithinHistory
  <2> QED BY <1>1, <1>3, <2>1, <2>2, TableAssumption
<1>5. Ordinals(D) = 1..(c.ordinal - 1)
  BY <1>3, <1>4, NextOrdinalBound
<1>6. entry.delivery = D /\ entry.ordinal = c.ordinal
  BY DEF AttemptRow
<1> HIDE DEF entry
<1>7. Ordinals(D)' = 1..c.ordinal /\ \A e : e # D => Ordinals(e)' = Ordinals(e)
  <2>1. Ordinals(D)' = Ordinals(D) \cup {c.ordinal}
    BY <1>1, <1>6 DEF Ordinals
  <2>2. \A e : e # D => Ordinals(e)' = Ordinals(e)
    BY <1>1, <1>6 DEF Ordinals
  <2> QED BY <1>3, <1>5, <2>1, <2>2
<1>8. NextOrdinal(D)' = c.ordinal + 1
  <2>1. c.ordinal \in Nat /\ Ordinals(D)' = 1..c.ordinal
    BY <1>3, <1>7, TableAssumption
  <2> QED BY <2>1, NextAfterContiguous, Zenon DEF NextOrdinal
<1>9. ASSUME NEW e \in Delivery, e # D
      PROVE  NextOrdinal(e)' = NextOrdinal(e)
  <2>1. PICK k \in Nat : Ordinals(e) = 1..k
    BY TableAssumption DEF IInv, OrdinalsContiguous
  <2>2. Ordinals(e)' = 1..k
    BY <1>7, <1>9, <2>1
  <2>3. NextOrdinal(e) = k + 1
    BY <2>1, NextAfterContiguous, Zenon DEF NextOrdinal
  <2>4. NextOrdinal(e)' = k + 1
    BY <2>2, NextAfterContiguous, Zenon DEF NextOrdinal
  <2> QED BY <2>3, <2>4
<1> QED BY <1>3, <1>4, <1>5, <1>7, <1>8, <1>9

\* The recorder's claim is the newest of its row, so the attempt gets the next
\* ordinal; the claim that counts on takes the place of the one presented.
LEMMA RecordFence ==
  ASSUME IInv, NEW c \in held, NEW outcome \in Outcomes,
         NEW decision \in AttemptDecisions, NEW due \in DueTimes,
         Record(c, outcome, decision, due)
  PROVE  IInv'
<1> DEFINE D == c.delivery
           old == deliveries[D]
           row == AfterAttempt(old, outcome, decision, due)
           entry == AttemptRow(c, outcome, decision, due)
           next == [c EXCEPT !.ordinal = @ + 1]
<1>1. /\ Fenced(c) /\ Owned(c) /\ Recordable(outcome, decision)
      /\ c.ordinal <= MaxOrdinal /\ c.ordinal \notin Ordinals(D)
      /\ deliveries' = [deliveries EXCEPT ![D] = row]
      /\ attempts' = attempts \cup {entry} /\ now' = now
      /\ held' = (held \ {c}) \cup {next}
  BY DEF Record, RecordAttempt, Fenced
<1>2. /\ c \in Claim /\ old \in Row /\ old.standing.state = "Pending"
      /\ StandingChecks(old.standing) /\ old.owner = c.owner
      /\ old.generation = c.generation /\ old.lease \in Nat
  BY <1>1, OwnedRow
<1>3. /\ D \in Delivery /\ c.owner \in Worker /\ c.generation \in 1..MaxGeneration
      /\ c.ordinal \in 1..MaxOrdinal
  BY <1>1, <1>2, TableAssumption DEF Claim
<1>4. due \in Nat
  BY TableAssumption DEF DueTimes, WorkerClock
<1>5. outcome \in AttemptOutcomes
  BY TableAssumption
<1>8. entry \in Attempt /\ entry.delivery = D /\ entry.ordinal = c.ordinal
  BY <1>3, <1>4, <1>5 DEF AttemptRow, Attempt
<1>9. /\ next \in Claim /\ next.delivery = D /\ next.owner = c.owner
      /\ next.generation = c.generation /\ next.ordinal = c.ordinal + 1
  <2>1. c.ordinal + 1 \in 1..(MaxOrdinal + 1)
    BY <1>3, TableAssumption
  <2> QED BY <1>2, <2>1 DEF Claim
<1>10. /\ row \in Row /\ StandingChecks(row.standing) /\ ClaimConstraint(row)
       /\ row.generation = old.generation /\ row.owner \in {old.owner, NULL}
  <2> DEFINE standing == SqlState(AttemptRecord(outcome, Status, decision, 0, 0, 0),
                                  old.standing)
  <2>1. old.standing \in Standings
    BY <1>2 DEF Row
  <2>2. /\ standing \in Standings /\ StandingChecks(standing)
        /\ standing.state = "Pending" <=> ~Finishing(decision)
    BY <1>1, <1>2, <1>5, <2>1, AttemptKeepsStanding
  <2> HIDE DEF standing
  <2>3. row = [old EXCEPT
                 !.standing = standing,
                 !.owner    = IF Finishing(decision) THEN NULL ELSE @,
                 !.lease    = IF Finishing(decision) THEN NULL ELSE @,
                 !.eligible = IF decision = "RetryScheduled" THEN due ELSE @]
    BY DEF AfterAttempt, standing
  <2>4. /\ row \in Row /\ row.standing = standing /\ row.generation = old.generation
        /\ row.owner = IF Finishing(decision) THEN NULL ELSE old.owner
        /\ row.lease = IF Finishing(decision) THEN NULL ELSE old.lease
    BY <1>2, <1>4, <2>2, <2>3 DEF Row
  <2>5. /\ old.owner # NULL /\ old.lease # NULL /\ old.generation > 0
    BY <1>2, <1>3, NullAssumption, TableAssumption
  <2> QED BY <2>2, <2>4, <2>5 DEF ClaimConstraint
<1> HIDE DEF old, row, entry, next
<1>11. deliveries'[D] = row /\ \A e \in Delivery : e # D => deliveries'[e] = deliveries[e]
  BY <1>1, <1>3 DEF IInv, TypeOK
<1>12. TypeOK'
  <2>1. deliveries' \in [Delivery -> Row \cup {NULL}]
    BY <1>1, <1>10 DEF IInv, TypeOK
  <2> QED BY <1>1, <1>8, <1>9, <2>1 DEF IInv, TypeOK
<1>13. RowsKeepTheirChecks'
  BY <1>10, <1>11 DEF IInv, RowsKeepTheirChecks, Exists
<1>14. ClaimsTraceRows'
  <2>1. ASSUME NEW h \in held
        PROVE  /\ h.delivery \in Delivery
               /\ deliveries'[h.delivery] # NULL
               /\ h.generation <= deliveries'[h.delivery].generation
               /\ h.generation = deliveries'[h.delivery].generation =>
                    deliveries'[h.delivery].owner \in {h.owner, NULL}
    <3>1. h.delivery \in Delivery
      BY DEF IInv, TypeOK, Claim
    <3> QED BY <1>10, <1>11, <3>1, NullAssumption DEF IInv, ClaimsTraceRows, Exists, old
  <2>2. ASSUME NEW h \in held'
        PROVE  \E g \in held : /\ g.delivery = h.delivery /\ g.owner = h.owner
                               /\ g.generation = h.generation
                               /\ h = IF g = c THEN next ELSE g
    BY <1>1, <1>9
  <2>3. \A h1, h2 \in held' :
          h1.delivery = h2.delivery /\ h1.generation = h2.generation => h1 = h2
    BY <2>2 DEF IInv, ClaimsTraceRows
  <2>4. \A h \in held' :
          /\ deliveries'[h.delivery] # NULL
          /\ h.generation <= deliveries'[h.delivery].generation
          /\ h.generation = deliveries'[h.delivery].generation =>
               deliveries'[h.delivery].owner \in {h.owner, NULL}
    BY <2>1, <2>2
  <2> QED BY <2>3, <2>4 DEF ClaimsTraceRows, Exists
<1>15. Ordinals(D)' = 1..c.ordinal /\ \A e : e # D => Ordinals(e)' = Ordinals(e)
  BY RecordNumbers
<1>16. /\ NextOrdinal(D)' = c.ordinal + 1
       /\ \A e \in Delivery : e # D => NextOrdinal(e)' = NextOrdinal(e)
  BY RecordNumbers
<1>17. OrdinalsContiguous'
  <2>1. ASSUME NEW e \in Delivery
        PROVE  \E k \in 0..MaxOrdinal : Ordinals(e)' = 1..k
    <3>1. CASE e = D
      <4>1. c.ordinal \in 0..MaxOrdinal
        BY <1>3
      <4> QED BY <1>15, <3>1, <4>1
    <3>2. CASE e # D
      BY <1>15, <3>2 DEF IInv, OrdinalsContiguous
    <3> QED BY <3>1, <3>2
  <2>2. ASSUME NEW a \in attempts', NEW b \in attempts',
               a.delivery = b.delivery, a.ordinal = b.ordinal
        PROVE  a = b
    <3>1. \A x \in attempts : x.delivery = D => x.ordinal # c.ordinal
      BY <1>1 DEF Ordinals
    <3>2. \A x, y \in attempts :
            x.delivery = y.delivery /\ x.ordinal = y.ordinal => x = y
      BY DEF IInv, OrdinalsContiguous, TypeOK, Attempt
    <3> QED BY <1>1, <1>8, <2>2, <3>1, <3>2
  <2> QED BY <2>1, <2>2 DEF OrdinalsContiguous
<1>18. ClaimsWithinHistory'
  <2>1. ASSUME NEW h \in held' PROVE h.ordinal <= NextOrdinal(h.delivery)'
    <3>1. CASE h = next
      BY <1>3, <1>9, <1>16, <3>1, TableAssumption
    <3>2. CASE h \in held /\ h.delivery = D
      <4>1. h.ordinal <= NextOrdinal(D) /\ NextOrdinal(D) = c.ordinal
        BY <3>2, RecordNumbers DEF IInv, ClaimsWithinHistory
      <4>2. h.ordinal \in Nat /\ c.ordinal \in Nat
        BY <1>3, <3>2, TableAssumption DEF IInv, TypeOK, Claim
      <4> QED BY <1>16, <3>2, <4>1, <4>2
    <3>3. CASE h \in held /\ h.delivery # D
      <4>1. h.delivery \in Delivery
        BY <3>3 DEF IInv, TypeOK, Claim
      <4> QED BY <1>16, <3>3, <4>1 DEF IInv, ClaimsWithinHistory
    <3> QED BY <1>1, <3>1, <3>2, <3>3
  <2> QED BY <2>1 DEF ClaimsWithinHistory
<1> QED BY <1>12, <1>13, <1>14, <1>17, <1>18 DEF IInv

-------------------------------------------------------------------------------
(* How a step may touch a row.                                             *)

\* How a step may leave a row: as it is, or the same but for an owner that gives it up.
RowStays(d) ==
  \/ deliveries'[d] = deliveries[d]
  \/ /\ Exists(d)
     /\ deliveries'[d].generation = deliveries[d].generation
     /\ deliveries'[d].owner \in {deliveries[d].owner, NULL}

\* A claim holder takes nothing over,
LEMMA HolderMovesRow ==
  ASSUME IInv, NEW c \in held, NEW d \in Delivery,
         \/ Renew(c) \/ Release(c)
         \/ \E result \in Completions : Complete(c, result)
         \/ \E outcome \in Outcomes, decision \in AttemptDecisions, due \in DueTimes :
              Record(c, outcome, decision, due)
  PROVE  RowStays(d)
<1> DEFINE Kept(new) == /\ new.generation = deliveries[c.delivery].generation
                        /\ new.owner \in {deliveries[c.delivery].owner, NULL}
<1>1. /\ deliveries \in [Delivery -> Row \cup {NULL}] /\ c.delivery \in Delivery
      /\ Owned(c) /\ deliveries[c.delivery] \in Row
  BY OwnedRow DEF IInv, TypeOK, Claim, Renew, RenewClaim, Release, ReleaseClaim, Complete,
                  CompleteClaim, Record, RecordAttempt, Fenced
<1>2. ASSUME NEW row, deliveries' = [deliveries EXCEPT ![c.delivery] = row], Kept(row)
      PROVE  RowStays(d)
  <2>1. CASE d = c.delivery
    BY <1>1, <1>2, <2>1 DEF RowStays, Owned
  <2>2. CASE d # c.delivery
    BY <1>1, <1>2, <2>2 DEF RowStays
  <2> QED BY <2>1, <2>2
<1>3. CASE Renew(c)
  <2> DEFINE row == [deliveries[c.delivery] EXCEPT !.lease = now + LeaseDuration]
  <2>1. deliveries' = [deliveries EXCEPT ![c.delivery] = row]
    BY <1>3 DEF Renew, RenewClaim
  <2>2. Kept(row)
    BY <1>1 DEF Row
  <2> HIDE DEF row, Kept
  <2> QED BY <1>2, <2>1, <2>2
<1>4. CASE Release(c)
  <2> DEFINE row == [deliveries[c.delivery] EXCEPT !.owner = NULL, !.lease = NULL]
  <2>1. deliveries' = [deliveries EXCEPT ![c.delivery] = row]
    BY <1>4 DEF Release, ReleaseClaim
  <2>2. Kept(row)
    BY <1>1 DEF Row
  <2> HIDE DEF row, Kept
  <2> QED BY <1>2, <2>1, <2>2
<1>5. ASSUME NEW result \in Completions, Complete(c, result) PROVE RowStays(d)
  <2> DEFINE row == [deliveries[c.delivery] EXCEPT
                       !.standing = DeliveryStateFromResult(result, Status),
                       !.owner = NULL, !.lease = NULL]
  <2>1. deliveries' = [deliveries EXCEPT ![c.delivery] = row]
    BY <1>5 DEF Complete, CompleteClaim
  <2>2. Kept(row)
    BY <1>1 DEF Row
  <2> HIDE DEF row, Kept
  <2> QED BY <1>2, <2>1, <2>2
<1>6. ASSUME NEW outcome \in Outcomes, NEW decision \in AttemptDecisions,
             NEW due \in DueTimes, Record(c, outcome, decision, due)
      PROVE  RowStays(d)
  <2> DEFINE row == AfterAttempt(deliveries[c.delivery], outcome, decision, due)
  <2>1. deliveries' = [deliveries EXCEPT ![c.delivery] = row]
    BY <1>6 DEF Record, RecordAttempt
  <2>2. Kept(row)
    BY <1>1 DEF Row, AfterAttempt
  <2> HIDE DEF row, Kept
  <2> QED BY <1>2, <2>1, <2>2
<1> QED BY <1>3, <1>4, <1>5, <1>6

\* and neither does an operator.
LEMMA OperatorMovesRow ==
  ASSUME IInv, NEW e \in Delivery, Operate(e), NEW d \in Delivery
  PROVE  RowStays(d)
<1> DEFINE row == deliveries'[e]
<1>1. deliveries \in [Delivery -> Row \cup {NULL}]
  BY DEF IInv, TypeOK
<1>2. deliveries[e] \in Row /\ Exists(e)
  BY <1>1 DEF Operate, RetryDeadLetter, TerminateDeadLetter, RepairDeadLetter, Exists
<1>3. /\ deliveries' = [deliveries EXCEPT ![e] = row]
      /\ row.generation = deliveries[e].generation /\ row.owner = NULL
  <2>1. CASE RetryDeadLetter(e)
    BY <1>1, <1>2, <2>1 DEF RetryDeadLetter, Reopened, Row
  <2>2. CASE TerminateDeadLetter(e)
    BY <1>1, <1>2, <2>2 DEF TerminateDeadLetter, Row
  <2>3. CASE \E dest \in Destination, version \in Version : RepairDeadLetter(e, dest, version)
    BY <1>1, <1>2, <2>3 DEF RepairDeadLetter, Reopened, Row
  <2> QED BY <2>1, <2>2, <2>3 DEF Operate
<1> HIDE DEF row
<1> QED BY <1>1, <1>2, <1>3 DEF RowStays

\* Everything the repository does but claimPending.
BesidesClaims ==
  \/ \E d \in Delivery, dest \in Destination, version \in Version \cup {NULL}, w \in Worker :
       Intake(d, dest, version, w)
  \/ \E d \in Delivery, dest \in Destination : SaveUnclaimed(d, dest)
  \/ \E c \in held : Renew(c)
  \/ \E c \in held : Release(c)
  \/ \E c \in held, result \in Completions : Complete(c, result)
  \/ \E c \in held, outcome \in Outcomes, decision \in AttemptDecisions, due \in DueTimes :
       Record(c, outcome, decision, due)
  \/ \E d \in Delivery : Operate(d)
  \/ Advance

LEMMA NextParts ==
  ASSUME IInv, [Next]_vars
  PROVE  \/ BesidesClaims
         \/ \E w \in Worker, dest \in Destination, at \in Nat, S \in SUBSET Delivery :
              \E next : BatchTaken(w, dest, at, S, next)
         \/ UNCHANGED vars
BY ReconcileParts DEF Next, BesidesClaims

\* Nothing but claimPending takes a delivery over.
LEMMA OthersMoveRows ==
  ASSUME IInv, BesidesClaims, NEW d \in Delivery, Exists(d)
  PROVE  RowStays(d)
<1>1. deliveries \in [Delivery -> Row \cup {NULL}]
  BY DEF IInv, TypeOK
<1>2. ASSUME NEW e \in Delivery, NEW dest \in Destination,
             NEW version \in Version \cup {NULL}, NEW w \in Worker,
             Intake(e, dest, version, w)
      PROVE  deliveries'[d] = deliveries[d]
  BY <1>1, <1>2 DEF Intake, InsertClaimed
<1>3. ASSUME NEW e \in Delivery, NEW dest \in Destination, SaveUnclaimed(e, dest)
      PROVE  deliveries'[d] = deliveries[d]
  BY <1>1, <1>3 DEF SaveUnclaimed, Save
<1>4. ASSUME NEW c \in held,
             \/ Renew(c) \/ Release(c)
             \/ \E result \in Completions : Complete(c, result)
             \/ \E outcome \in Outcomes, decision \in AttemptDecisions, due \in DueTimes :
                  Record(c, outcome, decision, due)
      PROVE  RowStays(d)
  BY <1>4, HolderMovesRow
<1>5. ASSUME NEW e \in Delivery, Operate(e) PROVE RowStays(d)
  BY <1>5, OperatorMovesRow
<1>6. CASE Advance
  BY <1>6 DEF Advance, Tick, RowStays
<1> QED BY <1>2, <1>3, <1>4, <1>5, <1>6 DEF BesidesClaims, RowStays

\* A takeover raises the generation of the rows it takes, and touches no other.
LEMMA TakeoverMovesRows ==
  ASSUME IInv, NEW w \in Worker, NEW S \in SUBSET Delivery, NEW at \in Nat,
         NEW next, TakesOver(w, S, at, next), NEW d \in Delivery
  PROVE  \/ d \notin S /\ deliveries'[d] = deliveries[d]
         \/ d \in S /\ deliveries'[d].generation = deliveries[d].generation + 1
<1>1. CASE d \in S
  <2> DEFINE row == [deliveries[d] EXCEPT !.owner = w, !.generation = @ + 1,
                                          !.lease = at + LeaseDuration]
  <2>1. deliveries'[d] = row /\ deliveries[d] \in Row
    BY <1>1 DEF TakesOver, Claimed, Exists, IInv, TypeOK
  <2>2. row.generation = deliveries[d].generation + 1
    BY <2>1 DEF Row
  <2> HIDE DEF row
  <2> QED BY <1>1, <2>1, <2>2
<1>2. CASE d \notin S
  BY <1>2 DEF TakesOver
<1> QED BY <1>1, <1>2

\* How a step may touch a row: it keeps the row's generation and at most gives its owner
\* up, or it is a takeover of a delivery that was claimable, and raises the generation.
RowMoves(d) ==
  LET old == deliveries[d]
      new == deliveries'[d]
  IN  \/ new.generation = old.generation /\ new.owner \in {old.owner, NULL}
      \/ new.generation = old.generation + 1 /\ \E dest \in Destination, at \in Nat : at <= now /\ Claimable(d, dest, at)

\* Every step moves a row in one of these ways.
LEMMA StepMovesRows ==
  ASSUME IInv, [Next]_vars, NEW d \in Delivery, Exists(d)
  PROVE  RowMoves(d)
<1>1. CASE BesidesClaims
  BY <1>1, OthersMoveRows DEF RowStays, RowMoves
<1>2. ASSUME NEW w \in Worker, NEW dest \in Destination, NEW at \in Nat,
             NEW S \in SUBSET Delivery, NEW next, BatchTaken(w, dest, at, S, next)
      PROVE  RowMoves(d)
  <2>1. d \in S => at <= now /\ Claimable(d, dest, at)
    BY <1>2 DEF BatchTaken
  <2>2. TakesOver(w, S, at, next)
    BY <1>2 DEF BatchTaken
  <2>3. \/ d \notin S /\ deliveries'[d] = deliveries[d]
        \/ d \in S /\ deliveries'[d].generation = deliveries[d].generation + 1
    BY <2>2, TakeoverMovesRows
  <2> QED BY <2>1, <2>3 DEF RowMoves
<1>3. CASE UNCHANGED vars
  BY <1>3 DEF vars, RowMoves
<1> QED BY <1>1, <1>2, <1>3, NextParts

-------------------------------------------------------------------------------
(* The invariant, and the invariants the runs check.                       *)

\* Every step but claimPending keeps the fence.
LEMMA OthersKeepFence ==
  ASSUME IInv, BesidesClaims
  PROVE  IInv'
<1>1. ASSUME NEW d \in Delivery, NEW dest \in Destination,
             NEW version \in Version \cup {NULL}, NEW w \in Worker,
             Intake(d, dest, version, w)
      PROVE  IInv'
  BY <1>1, IntakeFence
<1>2. ASSUME NEW d \in Delivery, NEW dest \in Destination, SaveUnclaimed(d, dest)
      PROVE  IInv'
  BY <1>2, SaveFence
<1>3. ASSUME NEW c \in held, Renew(c) PROVE IInv'
  BY <1>3, RenewFence
<1>4. ASSUME NEW c \in held, Release(c) PROVE IInv'
  BY <1>4, ReleaseFence
<1>5. ASSUME NEW c \in held, NEW result \in Completions, Complete(c, result) PROVE IInv'
  BY <1>5, CompleteFence
<1>6. ASSUME NEW c \in held, NEW outcome \in Outcomes, NEW decision \in AttemptDecisions,
             NEW due \in DueTimes, Record(c, outcome, decision, due)
      PROVE  IInv'
  BY <1>6, RecordFence
<1>7. ASSUME NEW d \in Delivery, Operate(d) PROVE IInv'
  BY <1>7, OperateFence
<1>8. CASE Advance
  BY <1>8, AdvanceFence
<1> QED BY <1>1, <1>2, <1>3, <1>4, <1>5, <1>6, <1>7, <1>8 DEF BesidesClaims

LEMMA NextFence ==
  ASSUME IInv, [Next]_vars
  PROVE  IInv'
<1>1. ASSUME NEW w \in Worker, NEW dest \in Destination, NEW at \in Nat,
             NEW S \in SUBSET Delivery, NEW next, BatchTaken(w, dest, at, S, next)
      PROVE  IInv'
  BY <1>1, TakeoverFence DEF BatchTaken
<1> QED BY <1>1, OthersKeepFence, StutterFence, NextParts

\* The invariant holds of every behaviour of the repository.
THEOREM Inductive == Spec => []IInv
BY InitFence, NextFence, PTL DEF Spec

\* Every table and every claim keeps its type.
THEOREM TypeCorrect == Spec => []TypeOK
<1>1. IInv => TypeOK
  BY DEF IInv
<1> QED BY <1>1, Inductive, PTL

\* No sequence of repository calls trips a CHECK constraint of table deliveries.
THEOREM ChecksHold == Spec => []RowsKeepTheirChecks
<1>1. IInv => RowsKeepTheirChecks
  BY DEF IInv
<1> QED BY <1>1, Inductive, PTL

\* Generations identify claims and only the newest can pass the fence.
THEOREM ClaimsTrace == Spec => []ClaimsTraceRows
<1>1. IInv => ClaimsTraceRows
  BY DEF IInv
<1> QED BY <1>1, Inductive, PTL

\* At most one of all the claims ever handed out for a delivery passes the fence.
THEOREM AtMostOneLiveClaim == Spec => []OneLiveClaim
<1>1. IInv => OneLiveClaim
  BY DEF IInv, ClaimsTraceRows, OneLiveClaim, Owned
<1> QED BY <1>1, Inductive, PTL

\* The history of every delivery is numbered 1, 2, ... without holes or repeats.
THEOREM HistoryContiguous == Spec => []OrdinalsContiguous
<1>1. IInv => OrdinalsContiguous
  BY DEF IInv
<1> QED BY <1>1, Inductive, PTL

-------------------------------------------------------------------------------
(* What a step may never do.                                               *)

\* A delivered, rejected or terminated delivery is never written again.
LEMMA StepKeepsFinal ==
  ASSUME IInv, [Next]_vars, NEW d \in Delivery, Final(d)
  PROVE  deliveries'[d] = deliveries[d]
<1> USE DEF Final
<1>1. deliveries \in [Delivery -> Row \cup {NULL}] /\ \A c \in held : c.delivery \in Delivery
  BY DEF IInv, TypeOK, Claim
<1>2. ASSUME NEW e \in Delivery, NEW dest \in Destination,
             NEW version \in Version \cup {NULL}, NEW w \in Worker,
             Intake(e, dest, version, w)
      PROVE  deliveries'[d] = deliveries[d]
  BY <1>1, <1>2 DEF Intake, InsertClaimed
<1>3. ASSUME NEW e \in Delivery, NEW dest \in Destination, SaveUnclaimed(e, dest)
      PROVE  deliveries'[d] = deliveries[d]
  BY <1>1, <1>3 DEF SaveUnclaimed, Save
<1>4. ASSUME NEW w \in Worker, NEW dest \in Destination, Reconcile(w, dest)
      PROVE  deliveries'[d] = deliveries[d]
  <2>1. PICK at \in Nat, S \in SUBSET Delivery : \E next : BatchTaken(w, dest, at, S, next)
    BY <1>4, ReconcileParts
  <2>2. PICK next : BatchTaken(w, dest, at, S, next)
    BY <2>1
  <2>3. d \notin S
    BY <2>2 DEF BatchTaken, Claimable
  <2> QED BY <2>2, <2>3 DEF BatchTaken, TakesOver
<1>5. ASSUME NEW c \in held, Renew(c) PROVE deliveries'[d] = deliveries[d]
  BY <1>1, <1>5 DEF Renew, RenewClaim, Fenced, Owned
<1>6. ASSUME NEW c \in held, Release(c) PROVE deliveries'[d] = deliveries[d]
  <2>1. d # c.delivery
    BY <1>6 DEF Release, ReleaseClaim, Owned
  <2> QED BY <1>1, <1>6, <2>1 DEF Release, ReleaseClaim
<1>7. ASSUME NEW c \in held, NEW result \in Completions, Complete(c, result)
      PROVE  deliveries'[d] = deliveries[d]
  <2>1. d # c.delivery
    BY <1>7 DEF Complete, CompleteClaim, Fenced, Owned
  <2> QED BY <1>1, <1>7, <2>1 DEF Complete, CompleteClaim
<1>8. ASSUME NEW c \in held, NEW outcome \in Outcomes, NEW decision \in AttemptDecisions,
             NEW due \in DueTimes, Record(c, outcome, decision, due)
      PROVE  deliveries'[d] = deliveries[d]
  <2>1. d # c.delivery
    BY <1>8 DEF Record, RecordAttempt, Fenced, Owned
  <2> QED BY <1>1, <1>8, <2>1 DEF Record, RecordAttempt
<1>9. ASSUME NEW e \in Delivery, Operate(e) PROVE deliveries'[d] = deliveries[d]
  <2>1. d # e
    BY <1>9 DEF Operate, RetryDeadLetter, TerminateDeadLetter, RepairDeadLetter
  <2> QED BY <1>1, <1>9, <2>1
          DEF Operate, RetryDeadLetter, TerminateDeadLetter, RepairDeadLetter
<1>10. CASE Advance
  BY <1>10 DEF Advance, Tick
<1>11. CASE UNCHANGED vars
  BY <1>11 DEF vars
<1> QED BY <1>2, <1>3, <1>4, <1>5, <1>6, <1>7, <1>8, <1>9, <1>10, <1>11 DEF Next

\* Delivered, rejected and terminated deliveries are never written again.
THEOREM FinalStays == Spec => FinalIsFinal
<1>1. IInv /\ [Next]_vars =>
        [\A d \in Delivery : Final(d) => deliveries'[d] = deliveries[d]]_vars
  BY StepKeepsFinal
<1> QED BY <1>1, Inductive, PTL DEF Spec, FinalIsFinal

\* No takeover, release, dead letter or reopening lets an old holder back in.
LEMMA FencedOutStep ==
  ASSUME IInv, [Next]_vars, NEW c \in held, Owned(c)'
  PROVE  Owned(c)
<1> DEFINE old == deliveries[c.delivery]
           new == deliveries'[c.delivery]
<1>1. c.delivery \in Delivery /\ c.owner \in Worker /\ c.generation \in Nat
  BY TableAssumption DEF IInv, TypeOK, Claim
<1>2. /\ Exists(c.delivery) /\ old \in Row
      /\ c.generation <= old.generation
  BY <1>1 DEF IInv, TypeOK, ClaimsTraceRows, Exists
<1>3. new.owner = c.owner /\ new.generation = c.generation
  BY DEF Owned
<1>4. RowMoves(c.delivery)
  BY <1>1, <1>2, StepMovesRows
<1>5. old.generation \in Nat
  BY <1>2, TableAssumption DEF Row
<1>6. c.owner # NULL
  BY <1>1, NullAssumption
<1>7. old.generation = c.generation /\ old.owner = c.owner
  BY <1>2, <1>3, <1>4, <1>5, <1>6, <1>1 DEF RowMoves
<1>8. old.standing.state = "Pending"
  BY <1>1, <1>2, <1>6, <1>7 DEF IInv, RowsKeepTheirChecks, ClaimConstraint
<1> QED BY <1>2, <1>7, <1>8 DEF Owned, State

\* Once the fence rejects a claim it rejects it for good.
THEOREM FencedOut == Spec => FencedOutForGood
<1>1. IInv /\ [Next]_vars => [\A c \in held : ~Owned(c) => ~Owned(c)']_vars
  BY FencedOutStep
<1> QED BY <1>1, Inductive, PTL DEF Spec, FencedOutForGood

-------------------------------------------------------------------------------
(* Where attempts come from.                                               *)

\* Every attempt was stored under a claim that was handed out.
AttemptsClaimed ==
  \A a \in attempts : \E c \in held :
    /\ c.delivery = a.delivery /\ c.owner = a.owner /\ c.generation = a.generation

\* A claim that was handed out stays known, at most its next ordinal moves.
LEMMA HeldStays ==
  ASSUME IInv, [Next]_vars, NEW c \in held
  PROVE  \E e \in held' : /\ e.delivery = c.delivery /\ e.owner = c.owner
                          /\ e.generation = c.generation
<1>1. ASSUME NEW h \in held, NEW outcome \in Outcomes, NEW decision \in AttemptDecisions,
             NEW due \in DueTimes, Record(h, outcome, decision, due), c \notin held'
      PROVE  \E e \in held' : /\ e.delivery = c.delivery /\ e.owner = c.owner
                              /\ e.generation = c.generation
  <2>1. c = h /\ [c EXCEPT !.ordinal = @ + 1] \in held' /\ c \in Claim
    BY <1>1 DEF Record, IInv, TypeOK
  <2> QED BY <2>1 DEF Claim
<1>2. CASE ~(\E h \in held, outcome \in Outcomes, decision \in AttemptDecisions,
                due \in DueTimes : Record(h, outcome, decision, due))
  <2>1. held \subseteq held'
    BY <1>2 DEF Next, vars, Intake, SaveUnclaimed, Reconcile, TakeBatch, Renew, Release,
                Complete, Operate, Advance
  <2> QED BY <2>1
<1> QED BY <1>1, <1>2

\* The only step that adds an attempt is the one that records it.
LEMMA AttemptsFromRecord ==
  ASSUME IInv, [Next]_vars
  PROVE  \/ attempts' = attempts
         \/ \E c \in held, outcome \in Outcomes, decision \in AttemptDecisions,
               due \in DueTimes : Record(c, outcome, decision, due)
BY DEF Next, vars, Intake, InsertClaimed, SaveUnclaimed, Save, Reconcile, TakeBatch,
       ClaimPending, Renew, RenewClaim, Release, ReleaseClaim, Complete, CompleteClaim,
       Operate, RetryDeadLetter, RepairDeadLetter, TerminateDeadLetter, Advance, Tick

LEMMA StepKeepsAttemptsClaimed ==
  ASSUME IInv, AttemptsClaimed, [Next]_vars
  PROVE  AttemptsClaimed'
<1>1. ASSUME NEW a \in attempts
      PROVE  \E e \in held' : /\ e.delivery = a.delivery /\ e.owner = a.owner
                              /\ e.generation = a.generation
  BY HeldStays DEF AttemptsClaimed
<1>2. ASSUME NEW c \in held, NEW outcome \in Outcomes, NEW decision \in AttemptDecisions,
             NEW due \in DueTimes, Record(c, outcome, decision, due),
             NEW a \in attempts' \ attempts
      PROVE  \E e \in held' : /\ e.delivery = a.delivery /\ e.owner = a.owner
                              /\ e.generation = a.generation
  <2>1. /\ a = AttemptRow(c, outcome, decision, due)
        /\ [c EXCEPT !.ordinal = @ + 1] \in held' /\ c \in Claim
    BY <1>2 DEF Record, RecordAttempt, IInv, TypeOK
  <2>2. a.delivery = c.delivery /\ a.owner = c.owner /\ a.generation = c.generation
    BY <2>1 DEF AttemptRow
  <2> QED BY <2>1, <2>2 DEF Claim
<1> QED BY <1>1, <1>2, AttemptsFromRecord DEF AttemptsClaimed

\* No attempt is in the history without a claim that the store handed out for it.
THEOREM AttemptsTrace == Spec => []AttemptsClaimed
<1>1. Init => AttemptsClaimed
  BY DEF Init, TablesInit, AttemptsClaimed
<1>2. IInv /\ AttemptsClaimed /\ [Next]_vars => AttemptsClaimed'
  BY StepKeepsAttemptsClaimed
<1> QED BY <1>1, <1>2, Inductive, PTL DEF Spec

-------------------------------------------------------------------------------
(* The history of a delivery, over all the claims it ever had.             *)

\* What AttemptsInOrder rests on: no attempt is of a later generation than its row, and a row whose
\* claim runs has seen nothing but scheduled retries under it.
RowsLead ==
  \A a \in attempts :
    LET row == deliveries[a.delivery]
    IN  /\ a.generation <= row.generation
        /\ a.generation = row.generation /\ row.owner # NULL =>
             a.decision = "RetryScheduled" /\ a.owner = row.owner

HistoryInv == AttemptsClaimed /\ InClaimOrder /\ AnswersLast /\ RowsLead

LEMMA AttemptedExist ==
  ASSUME IInv, AttemptsClaimed, NEW a \in attempts
  PROVE  a.delivery \in Delivery /\ Exists(a.delivery)
BY DEF IInv, TypeOK, Attempt, AttemptsClaimed, ClaimsTraceRows

\* A step that stores no attempt, leaves the rows of answered deliveries alone, and moves
\* the others as a holder, an operator or a takeover may.
LEMMA HistoryStays ==
  ASSUME IInv, HistoryInv, attempts' = attempts, AttemptsClaimed',
         \A d \in Delivery : Exists(d) =>
           /\ Final(d) => deliveries'[d] = deliveries[d]
           /\ \/ /\ deliveries'[d].generation = deliveries[d].generation
                 /\ deliveries'[d].owner \in {deliveries[d].owner, NULL}
              \/ deliveries'[d].generation = deliveries[d].generation + 1
  PROVE  HistoryInv'
<1>1. \A a \in attempts : a.delivery \in Delivery /\ a.generation \in Nat
  BY TableAssumption DEF IInv, TypeOK, Attempt
<1>2. \A d \in Delivery : Exists(d) => deliveries[d].generation \in Nat
  BY TableAssumption DEF IInv, TypeOK, Exists, Row
<1>3. \A d : NextOrdinal(d)' = NextOrdinal(d)
  BY DEF NextOrdinal, Ordinals
<1>4. InClaimOrder'
  BY DEF HistoryInv, InClaimOrder
<1>5. AnswersLast'
  <2> SUFFICES ASSUME NEW a \in attempts, a.outcome \in {"Delivered", "Rejected"}
      PROVE  Newest(a.delivery, a)' /\ State(a.delivery)' = a.outcome
    BY DEF AnswersLast
  <2>1. Newest(a.delivery, a) /\ State(a.delivery) = a.outcome
    BY DEF HistoryInv, AnswersLast
  <2>2. Exists(a.delivery) /\ a.delivery \in Delivery
    BY AttemptedExist DEF HistoryInv
  <2>3. deliveries'[a.delivery] = deliveries[a.delivery]
    BY <2>1, <2>2 DEF Final
  <2> QED BY <1>3, <2>1, <2>3 DEF Newest, State
<1>6. RowsLead'
  <2> SUFFICES ASSUME NEW a \in attempts
      PROVE  LET row == deliveries'[a.delivery]
             IN  /\ a.generation <= row.generation
                 /\ a.generation = row.generation /\ row.owner # NULL =>
                      a.decision = "RetryScheduled" /\ a.owner = row.owner
    BY DEF RowsLead
  <2>1. a.delivery \in Delivery /\ Exists(a.delivery) /\ a.generation \in Nat
        /\ deliveries[a.delivery].generation \in Nat
    BY <1>1, <1>2, AttemptedExist DEF HistoryInv
  <2> QED BY <2>1 DEF HistoryInv, RowsLead
<1> QED BY <1>4, <1>5, <1>6 DEF HistoryInv

\* The attempt that is stored follows the history under the claim that runs.
LEMMA RecordKeepsHistory ==
  ASSUME IInv, HistoryInv, NEW c \in held, NEW outcome \in Outcomes,
         NEW decision \in AttemptDecisions, NEW due \in DueTimes,
         Record(c, outcome, decision, due)
  PROVE  HistoryInv'
<1> DEFINE D == c.delivery
           old == deliveries[D]
           new == AfterAttempt(old, outcome, decision, due)
           entry == AttemptRow(c, outcome, decision, due)
<1>1. /\ Owned(c) /\ Recordable(outcome, decision)
      /\ attempts' = attempts \cup {entry}
      /\ deliveries' = [deliveries EXCEPT ![D] = new]
  BY DEF Record, RecordAttempt, Fenced
<1>2. /\ c \in Claim /\ old \in Row /\ old.standing.state = "Pending" /\ D \in Delivery
      /\ old.owner = c.owner /\ old.generation = c.generation
      /\ deliveries \in [Delivery -> Row \cup {NULL}]
  BY <1>1, OwnedRow DEF Claim, IInv, TypeOK
<1>3. c.owner # NULL /\ c.generation \in Nat
  BY <1>2, NullAssumption, TableAssumption DEF Claim
<1>4. /\ entry.delivery = D /\ entry.ordinal = c.ordinal /\ entry.owner = c.owner
      /\ entry.generation = c.generation /\ entry.decision = decision
      /\ entry.outcome = outcome
  BY DEF AttemptRow
<1>5. /\ c.ordinal \in Nat /\ Ordinals(D) = 1..(c.ordinal - 1)
      /\ NextOrdinal(D)' = c.ordinal + 1
      /\ \A e \in Delivery : e # D => NextOrdinal(e)' = NextOrdinal(e)
  BY RecordNumbers, TableAssumption
<1>6. \A a \in attempts : a.delivery \in Delivery /\ a.generation \in Nat /\ a.ordinal \in Nat
  BY TableAssumption DEF IInv, TypeOK, Attempt
<1>7. \A a \in attempts : a.delivery = D =>
        /\ a.ordinal < c.ordinal
        /\ a.generation <= c.generation
        /\ a.generation = c.generation => a.owner = c.owner /\ a.decision = "RetryScheduled"
        /\ a.outcome \notin {"Delivered", "Rejected"}
  <2> SUFFICES ASSUME NEW a \in attempts, a.delivery = D
      PROVE  /\ a.ordinal < c.ordinal
             /\ a.generation <= c.generation
             /\ a.generation = c.generation =>
                  a.owner = c.owner /\ a.decision = "RetryScheduled"
             /\ a.outcome \notin {"Delivered", "Rejected"}
    OBVIOUS
  <2>1. a.ordinal \in Ordinals(D)
    BY DEF Ordinals
  <2>2. a.ordinal < c.ordinal
    BY <1>5, <1>6, <2>1
  <2>3. /\ a.generation <= c.generation
        /\ a.generation = c.generation => a.owner = c.owner /\ a.decision = "RetryScheduled"
    BY <1>2, <1>3 DEF HistoryInv, RowsLead
  <2>4. a.outcome \notin {"Delivered", "Rejected"}
    BY <1>2 DEF HistoryInv, AnswersLast, State
  <2> QED BY <2>2, <2>3, <2>4
<1>8. /\ new.generation = c.generation
      /\ new.owner = IF Finishing(decision) THEN NULL ELSE c.owner
      /\ new.standing = SqlState(AttemptRecord(outcome, Status, decision, 0, 0, 0),
                                 old.standing)
  BY <1>2 DEF AfterAttempt, Row
<1>9. outcome \in {"Delivered", "Rejected"} => new.standing.state = outcome
  <2> SUFFICES ASSUME outcome \in {"Delivered", "Rejected"} PROVE new.standing.state = outcome
    OBVIOUS
  <2>1. decision = "Terminal"
    <3> DEFINE a == AttemptRecord(outcome, Status, decision, 0, 0, 0)
    <3>1. a.outcome = outcome /\ a.decision = decision
      BY DEF AttemptRecord
    <3>2. IF a.decision = "Terminal" THEN ~IsRetryable(a.outcome) ELSE IsRetryable(a.outcome)
      BY <1>1 DEF Recordable, ConsistentRecord
    <3> HIDE DEF a
    <3> QED BY <3>1, <3>2 DEF IsRetryable
  <2> HIDE DEF new
  <2> QED BY <1>8, <2>1 DEF SqlState, AttemptRecord
<1>10. deliveries'[D] = new /\ \A e \in Delivery : e # D => deliveries'[e] = deliveries[e]
  BY <1>1, <1>2
<1>11. AttemptsClaimed'
  BY StepKeepsAttemptsClaimed DEF HistoryInv, Next
<1> HIDE DEF entry, old, new
<1>12. InClaimOrder'
  BY <1>1, <1>3, <1>4, <1>5, <1>6, <1>7 DEF HistoryInv, InClaimOrder
<1>13. AnswersLast'
  BY <1>1, <1>4, <1>5, <1>6, <1>7, <1>9, <1>10 DEF HistoryInv, AnswersLast, Newest, State
<1>14. RowsLead'
  BY <1>1, <1>3, <1>4, <1>6, <1>7, <1>8, <1>10
     DEF HistoryInv, RowsLead, Finishing, AttemptDecisions
<1> QED BY <1>11, <1>12, <1>13, <1>14 DEF HistoryInv

\* Every other step but claimPending leaves the history as it is.
LEMMA OthersKeepHistory ==
  ASSUME IInv, HistoryInv, BesidesClaims
  PROVE  HistoryInv'
<1>1. ASSUME NEW c \in held, NEW outcome \in Outcomes, NEW decision \in AttemptDecisions,
             NEW due \in DueTimes, Record(c, outcome, decision, due)
      PROVE  HistoryInv'
  BY <1>1, RecordKeepsHistory
<1>2. CASE ~(\E c \in held, outcome \in Outcomes, decision \in AttemptDecisions,
                due \in DueTimes : Record(c, outcome, decision, due))
  <2>1. [Next]_vars
    BY DEF BesidesClaims, Next
  <2>2. attempts' = attempts
    BY <1>2, <2>1, AttemptsFromRecord
  <2>3. \A d \in Delivery : Exists(d) =>
           /\ Final(d) => deliveries'[d] = deliveries[d]
           /\ deliveries'[d].generation = deliveries[d].generation
           /\ deliveries'[d].owner \in {deliveries[d].owner, NULL}
    BY <2>1, OthersMoveRows, StepKeepsFinal DEF RowStays
  <2>4. AttemptsClaimed'
    BY <2>1, StepKeepsAttemptsClaimed DEF HistoryInv
  <2> QED BY <2>2, <2>3, <2>4, HistoryStays
<1> QED BY <1>1, <1>2

\* A takeover begins a generation that the history does not know, and answers nothing.
LEMMA TakeoverKeepsHistory ==
  ASSUME IInv, HistoryInv, NEW w \in Worker, NEW S \in SUBSET Delivery, NEW at \in Nat,
         NEW next, TakesOver(w, S, at, next)
  PROVE  HistoryInv'
<1>1. ASSUME NEW d \in Delivery, Exists(d)
      PROVE  /\ Final(d) => deliveries'[d] = deliveries[d]
             /\ \/ /\ deliveries'[d].generation = deliveries[d].generation
                   /\ deliveries'[d].owner \in {deliveries[d].owner, NULL}
                \/ deliveries'[d].generation = deliveries[d].generation + 1
  <2>1. \/ d \notin S /\ deliveries'[d] = deliveries[d]
        \/ d \in S /\ deliveries'[d].generation = deliveries[d].generation + 1
    BY TakeoverMovesRows
  <2>2. d \in S => State(d) = "Pending"
    BY Zenon DEF TakesOver
  <2> QED BY <2>1, <2>2 DEF Final
<1>2. attempts' = attempts
  BY Zenon DEF TakesOver
<1>3. AttemptsClaimed'
  <2>1. held \subseteq held'
    BY Zenon DEF TakesOver
  <2> QED BY <1>2, <2>1 DEF HistoryInv, AttemptsClaimed
<1> QED BY <1>1, <1>2, <1>3, HistoryStays

LEMMA StepKeepsHistory ==
  ASSUME IInv, HistoryInv, [Next]_vars
  PROVE  HistoryInv'
<1>1. ASSUME NEW w \in Worker, NEW dest \in Destination, NEW at \in Nat,
             NEW S \in SUBSET Delivery, NEW next, BatchTaken(w, dest, at, S, next)
      PROVE  HistoryInv'
  <2>1. TakesOver(w, S, at, next)
    BY <1>1 DEF BatchTaken
  <2> QED BY <2>1, TakeoverKeepsHistory
<1>2. CASE UNCHANGED vars
  <2>1. AttemptsClaimed'
    BY <1>2 DEF vars, HistoryInv, AttemptsClaimed
  <2> QED BY <1>2, <2>1, HistoryStays DEF vars, Exists
<1> QED BY <1>1, <1>2, OthersKeepHistory, NextParts

LEMMA InitHistory == Init => HistoryInv
BY DEF Init, TablesInit, HistoryInv, AttemptsClaimed, InClaimOrder, AnswersLast, RowsLead

\* A history is written claim after claim, and ends with the answer it reports.
THEOREM HistoryInOrder == Spec => []AttemptsInOrder
<1>1. IInv /\ HistoryInv /\ [Next]_vars => HistoryInv'
  BY StepKeepsHistory
<1>2. HistoryInv => AttemptsInOrder
  BY DEF HistoryInv, AttemptsInOrder
<1> QED BY <1>1, <1>2, InitHistory, Inductive, PTL DEF Spec

-------------------------------------------------------------------------------
(* The due time of a retry, under the calls of the relay: none of them completes a *)
(* claim without an attempt, so nothing but an attempt ends a scheduled retry.      *)

\* While the newest attempt is a scheduled retry the row waits for it.
Waits(d, a) ==
  /\ Exists(d) /\ State(d) = "Pending"
  /\ deliveries[d].eligible = a.due

DueInv ==
  \A d \in Delivery, a \in attempts :
    Newest(d, a) /\ a.decision = "RetryScheduled" => Waits(d, a)

\* A step that leaves the attempts alone, and neither ends nor moves the wait of a row.
LEMMA WaitsOn ==
  ASSUME DueInv, attempts' = attempts,
         \A d \in Delivery : Exists(d) /\ State(d) = "Pending" =>
           /\ deliveries'[d] # NULL
           /\ deliveries'[d].standing.state = "Pending"
           /\ deliveries'[d].eligible = deliveries[d].eligible
  PROVE  DueInv'
<1>1. \A d : NextOrdinal(d)' = NextOrdinal(d)
  BY DEF NextOrdinal, Ordinals
<1>2. \A d \in Delivery, a \in attempts : Newest(d, a)' => Newest(d, a)
  BY <1>1 DEF Newest
<1>3. \A d \in Delivery, a \in attempts : Waits(d, a) => Waits(d, a)'
  BY DEF Waits, Exists, State
<1> QED BY <1>2, <1>3 DEF DueInv

\* The attempt that is stored is the newest, and its row is due when it says.
LEMMA RecordKeepsDue ==
  ASSUME IInv, DueInv, NEW c \in held, NEW outcome \in Outcomes,
         NEW decision \in AttemptDecisions, NEW due \in DueTimes,
         Record(c, outcome, decision, due)
  PROVE  DueInv'
<1> DEFINE D == c.delivery
           old == deliveries[D]
           entry == AttemptRow(c, outcome, decision, due)
<1>1. /\ Owned(c) /\ attempts' = attempts \cup {entry}
      /\ deliveries' = [deliveries EXCEPT ![D] = AfterAttempt(old, outcome, decision, due)]
  BY DEF Record, RecordAttempt, Fenced
<1>2. c \in Claim /\ old \in Row /\ old.standing.state = "Pending" /\ D \in Delivery
      /\ deliveries \in [Delivery -> Row \cup {NULL}]
  BY <1>1, OwnedRow DEF Claim, IInv, TypeOK
<1>3. /\ entry.delivery = D /\ entry.ordinal = c.ordinal /\ entry.decision = decision
      /\ decision = "RetryScheduled" => entry.due = due
  BY DEF AttemptRow
<1>4. /\ c.ordinal \in 1..MaxOrdinal /\ Ordinals(D) = 1..(c.ordinal - 1)
      /\ NextOrdinal(D)' = c.ordinal + 1
      /\ \A e \in Delivery : e # D => NextOrdinal(e)' = NextOrdinal(e)
  BY RecordNumbers
<1>5. ASSUME decision = "RetryScheduled"
      PROVE  /\ deliveries'[D] # NULL
             /\ deliveries'[D].standing.state = "Pending"
             /\ deliveries'[D].eligible = due
  <2> DEFINE standing == SqlState(AttemptRecord(outcome, Status, decision, 0, 0, 0),
                                  old.standing)
             row == [old EXCEPT !.standing = standing, !.eligible = due]
  <2>1. deliveries'[D] = row
    BY <1>1, <1>2, <1>5 DEF AfterAttempt, Finishing, Row
  <2>2. standing = [state |-> old.standing.state, status |-> old.standing.status,
                    reason |-> old.standing.reason]
    BY <1>5 DEF SqlState, AttemptRecord
  <2>3. standing \in Standings /\ standing.state = "Pending"
    BY <1>2, <2>2 DEF Standings, Row
  <2> HIDE DEF standing
  <2>4. due \in Nat
    BY TableAssumption DEF DueTimes, WorkerClock
  <2>5. row \in Row /\ row.standing = standing /\ row.eligible = due
    BY <1>2, <2>3, <2>4 DEF Row
  <2> HIDE DEF row
  <2> QED BY <2>1, <2>3, <2>5, NullAssumption
<1> HIDE DEF entry, old
<1>6. ASSUME NEW d \in Delivery, NEW a \in attempts', Newest(d, a)',
             a.decision = "RetryScheduled"
      PROVE  Waits(d, a)'
  <2>1. a.delivery = d /\ a.ordinal + 1 = NextOrdinal(d)'
    BY <1>6 DEF Newest
  <2>2. CASE d = D
    <3>1. a = entry
      <4>1. ASSUME a \in attempts PROVE FALSE
        <5>1. a.ordinal \in Ordinals(D)
          BY <2>1, <2>2, <4>1 DEF Ordinals
        <5>2. a.ordinal \in Nat /\ a.ordinal < c.ordinal /\ c.ordinal \in Nat
          BY <1>4, <5>1, TableAssumption
        <5> QED BY <1>4, <2>1, <2>2, <5>2
      <4> QED BY <1>1, <1>6, <4>1
    <3> QED BY <1>3, <1>5, <1>6, <2>2, <3>1 DEF Waits, Exists, State
  <2>3. CASE d # D
    <3>1. a \in attempts /\ Newest(d, a)
      BY <1>1, <1>3, <1>4, <1>6, <2>1, <2>3 DEF Newest
    <3>2. Waits(d, a)
      BY <1>6, <3>1 DEF DueInv
    <3>3. deliveries'[d] = deliveries[d]
      BY <1>1, <1>2, <2>3
    <3> QED BY <3>2, <3>3 DEF Waits, Exists, State
  <2> QED BY <2>2, <2>3
<1> QED BY <1>6 DEF DueInv

\* A takeover neither ends nor moves a wait.
LEMMA TakeoverKeepsDue ==
  ASSUME IInv, DueInv, NEW w \in Worker, NEW S \in SUBSET Delivery, NEW at \in Nat,
         NEW next, TakesOver(w, S, at, next)
  PROVE  DueInv'
<1>1. deliveries \in [Delivery -> Row \cup {NULL}] /\ at + LeaseDuration \in Nat
  BY TableAssumption DEF IInv, TypeOK
<1>2. ASSUME NEW d \in Delivery, Exists(d)
      PROVE  /\ deliveries'[d] # NULL
             /\ deliveries'[d].standing.state = deliveries[d].standing.state
             /\ deliveries'[d].eligible = deliveries[d].eligible
  <2> DEFINE row == [deliveries[d] EXCEPT !.owner = w, !.generation = @ + 1,
                                          !.lease = at + LeaseDuration]
  <2>1. CASE d \in S
    <3>1. /\ deliveries'[d] = row /\ deliveries[d].generation < MaxGeneration
          /\ deliveries[d] \in Row
      BY <1>1, <1>2, <2>1 DEF TakesOver, Claimed, Exists
    <3>2. deliveries[d].generation + 1 \in 0..MaxGeneration
      BY <3>1, TableAssumption DEF Row
    <3>3. /\ row \in Row /\ row.standing = deliveries[d].standing
          /\ row.eligible = deliveries[d].eligible
      BY <1>1, <3>1, <3>2 DEF Row
    <3> HIDE DEF row
    <3> QED BY <3>1, <3>3, NullAssumption
  <2>2. CASE d \notin S
    BY <1>2, <2>2 DEF TakesOver, Exists
  <2> QED BY <2>1, <2>2
<1>3. attempts' = attempts
  BY DEF TakesOver
<1> QED BY <1>2, <1>3, WaitsOn DEF State

\* Nothing else does, but the attempt that takes its place.
LEMMA OthersKeepDue ==
  ASSUME Completions = {}, IInv, DueInv, BesidesClaims
  PROVE  DueInv'
<1>1. /\ deliveries \in [Delivery -> Row \cup {NULL}] /\ now \in Nat
      /\ \A d \in Delivery : Exists(d) => deliveries[d] \in Row
      /\ \A w \in Worker : w \in Worker \cup {NULL}
      /\ LeaseDuration \in Nat
  BY TableAssumption DEF IInv, TypeOK, Exists
<1> DEFINE Same(d) == /\ deliveries'[d] # NULL
                      /\ deliveries'[d].standing.state = deliveries[d].standing.state
                      /\ deliveries'[d].eligible = deliveries[d].eligible
<1>2. ASSUME attempts' = attempts,
             \A d \in Delivery : Exists(d) /\ State(d) = "Pending" => Same(d)
      PROVE  DueInv'
  BY <1>2, WaitsOn DEF State
<1>3. ASSUME NEW e \in Delivery, NEW row, deliveries' = [deliveries EXCEPT ![e] = row],
             attempts' = attempts, row # NULL,
             Exists(e) => /\ State(e) = "Pending"
                          /\ row.standing.state = "Pending"
                          /\ row.eligible = deliveries[e].eligible
      PROVE  DueInv'
  <2>1. \A d \in Delivery : Exists(d) /\ State(d) = "Pending" => Same(d)
    BY <1>1, <1>3 DEF Exists, State
  <2> QED BY <1>2, <1>3, <2>1
<1>4. ASSUME NEW d \in Delivery, NEW dest \in Destination,
             NEW version \in Version \cup {NULL}, NEW w \in Worker,
             Intake(d, dest, version, w)
      PROVE  DueInv'
  <2> DEFINE row == NewRow(dest, version, w, 1, now + LeaseDuration)
  <2>1. /\ ~Exists(d) /\ deliveries' = [deliveries EXCEPT ![d] = row]
        /\ attempts' = attempts
    BY <1>4 DEF Intake, InsertClaimed
  <2>2. row # NULL
    <3>1. now + LeaseDuration \in Nat /\ 1 \in 0..MaxGeneration
      BY <1>1, TableAssumption
    <3>2. row \in Row
      BY <1>1, <3>1, NewPending DEF NewRow, Row
    <3> QED BY <3>2, NullAssumption
  <2> HIDE DEF row
  <2> QED BY <1>3, <2>1, <2>2
<1>5. ASSUME NEW d \in Delivery, NEW dest \in Destination, SaveUnclaimed(d, dest)
      PROVE  DueInv'
  <2> DEFINE row == NewRow(dest, NULL, NULL, 0, NULL)
  <2>1. /\ ~Exists(d) /\ deliveries' = [deliveries EXCEPT ![d] = row]
        /\ attempts' = attempts
    BY <1>5 DEF SaveUnclaimed, Save
  <2>2. row # NULL
    <3>1. 0 \in 0..MaxGeneration
      BY TableAssumption
    <3>2. row \in Row
      BY <1>1, <3>1, NewPending DEF NewRow, Row
    <3> QED BY <3>2, NullAssumption
  <2> HIDE DEF row
  <2> QED BY <1>3, <2>1, <2>2
<1>7. ASSUME NEW c \in held, Owned(c)
      PROVE  /\ c.delivery \in Delivery /\ Exists(c.delivery) /\ State(c.delivery) = "Pending"
             /\ deliveries[c.delivery] \in Row
  BY <1>7, OwnedRow DEF Owned, Claim
<1>8. ASSUME NEW c \in held, Renew(c) PROVE DueInv'
  <2> DEFINE e == c.delivery
             row == [deliveries[e] EXCEPT !.lease = now + LeaseDuration]
  <2>1. /\ Owned(c) /\ deliveries' = [deliveries EXCEPT ![e] = row] /\ attempts' = attempts
    BY <1>8 DEF Renew, RenewClaim, Fenced
  <2>2. /\ row \in Row /\ row.standing = deliveries[e].standing
        /\ row.eligible = deliveries[e].eligible
    BY <1>1, <1>7, <2>1 DEF Row
  <2> HIDE DEF row
  <2> QED BY <1>3, <1>7, <2>1, <2>2, NullAssumption DEF State
<1>9. ASSUME NEW c \in held, Release(c) PROVE DueInv'
  <2> DEFINE e == c.delivery
             row == [deliveries[e] EXCEPT !.owner = NULL, !.lease = NULL]
  <2>1. /\ Owned(c) /\ deliveries' = [deliveries EXCEPT ![e] = row] /\ attempts' = attempts
    BY <1>9 DEF Release, ReleaseClaim
  <2>2. /\ row \in Row /\ row.standing = deliveries[e].standing
        /\ row.eligible = deliveries[e].eligible
    BY <1>1, <1>7, <2>1 DEF Row
  <2> HIDE DEF row
  <2> QED BY <1>3, <1>7, <2>1, <2>2, NullAssumption DEF State
<1>10. ASSUME NEW c \in held, NEW outcome \in Outcomes, NEW decision \in AttemptDecisions,
              NEW due \in DueTimes, Record(c, outcome, decision, due)
       PROVE  DueInv'
  BY <1>10, RecordKeepsDue
<1>11. ASSUME NEW e \in Delivery, Operate(e) PROVE DueInv'
  <2>1. /\ State(e) = "DeadLettered" /\ attempts' = attempts
        /\ \A d \in Delivery : d # e => deliveries'[d] = deliveries[d]
    BY <1>1, <1>11
       DEF Operate, RetryDeadLetter, TerminateDeadLetter, RepairDeadLetter
  <2>2. \A d \in Delivery : Exists(d) /\ State(d) = "Pending" => Same(d)
    BY <2>1 DEF Exists
  <2> QED BY <1>2, <2>1, <2>2
<1>12. ASSUME Advance PROVE DueInv'
  <2>1. attempts' = attempts /\ deliveries' = deliveries
    BY <1>12 DEF Advance, Tick
  <2> QED BY <1>2, <2>1 DEF Exists
<1> HIDE DEF Same
<1> QED BY <1>4, <1>5, <1>8, <1>9, <1>10, <1>11, <1>12 DEF BesidesClaims

LEMMA StepKeepsDue ==
  ASSUME Completions = {}, IInv, DueInv, [Next]_vars
  PROVE  DueInv'
<1>1. ASSUME NEW w \in Worker, NEW dest \in Destination, NEW at \in Nat,
             NEW S \in SUBSET Delivery, NEW next, BatchTaken(w, dest, at, S, next)
      PROVE  DueInv'
  <2>1. TakesOver(w, S, at, next)
    BY <1>1 DEF BatchTaken
  <2> QED BY <2>1, TakeoverKeepsDue
<1>2. CASE UNCHANGED vars
  <2>1. /\ deliveries' = deliveries /\ attempts' = attempts
    BY <1>2 DEF vars
  <2> QED BY <2>1, WaitsOn DEF Exists, State
<1> QED BY <1>1, <1>2, OthersKeepDue, NextParts

RetryInv == Completions = {} /\ DueInv

LEMMA RetryInductive == Completions = {} /\ Spec => []RetryInv
<1>1. Completions = {} /\ Init => RetryInv
  BY DEF Init, TablesInit, RetryInv, DueInv
<1>2. IInv /\ RetryInv /\ [Next]_vars => RetryInv'
  BY StepKeepsDue DEF RetryInv
<1> QED BY <1>1, <1>2, Inductive, PTL DEF Spec

\* The row of a delivery and its newest attempt agree on when the retry is due.
THEOREM DueTold == Completions = {} /\ Spec => []DueAsRecorded
<1>1. RetryInv => DueAsRecorded
  BY DEF RetryInv, DueInv, DueAsRecorded, Waits
<1> QED BY <1>1, RetryInductive, PTL

\* What was claimable at an instant in the past is claimable still.
LEMMA ClaimableInTime ==
  ASSUME IInv, NEW d \in Delivery, NEW dest \in Destination, NEW at \in Nat,
         at <= now, Claimable(d, dest, at)
  PROVE  /\ deliveries[d].eligible <= now
         /\ deliveries[d].owner # NULL => deliveries[d].lease <= now
<1>1. /\ deliveries[d] \in Row /\ now \in Nat /\ Exists(d)
      /\ deliveries[d].owner = NULL <=> deliveries[d].lease = NULL
  BY TableAssumption DEF IInv, TypeOK, Claimable, Exists, RowsKeepTheirChecks, ClaimConstraint
<1>2. deliveries[d].eligible \in Nat /\ deliveries[d].eligible <= at
  BY <1>1 DEF Claimable, Row
<1>3. CASE deliveries[d].owner = NULL
  BY <1>1, <1>2, <1>3
<1>4. CASE deliveries[d].owner # NULL
  <2>1. deliveries[d].lease \in Nat /\ deliveries[d].lease <= at
    BY <1>1, <1>4 DEF Claimable, Row
  <2> QED BY <1>1, <1>2, <2>1
<1> QED BY <1>3, <1>4

\* Nobody takes a delivery over before its retry is due, or under a running lease.
THEOREM TakeoversInTime == Completions = {} /\ Spec => TakeoverInTime
<1>1. ASSUME IInv, RetryInv, [Next]_vars, NEW d \in Delivery, Exists(d),
             deliveries'[d].generation > deliveries[d].generation
      PROVE  /\ deliveries[d].owner # NULL => deliveries[d].lease <= now
             /\ \A a \in attempts : Newest(d, a) /\ a.decision = "RetryScheduled" => a.due <= now
  <2>1. deliveries[d].generation \in Nat
    BY <1>1, TableAssumption DEF IInv, TypeOK, Exists, Row
  <2>2. deliveries'[d].generation # deliveries[d].generation
    BY <1>1, <2>1
  <2>3. PICK dest \in Destination, at \in Nat : at <= now /\ Claimable(d, dest, at)
    BY <1>1, <2>2, StepMovesRows DEF RowMoves
  <2>4. /\ deliveries[d].eligible <= now
        /\ deliveries[d].owner # NULL => deliveries[d].lease <= now
    BY <1>1, <2>3, ClaimableInTime
  <2>5. \A a \in attempts : Newest(d, a) /\ a.decision = "RetryScheduled" => a.due <= now
    BY <1>1, <2>4 DEF RetryInv, DueInv, Waits
  <2> QED BY <2>4, <2>5
<1>2. IInv /\ RetryInv /\ [Next]_vars =>
        [\A d \in Delivery :
           /\ Exists(d)
           /\ deliveries'[d].generation > deliveries[d].generation
           => /\ deliveries[d].owner # NULL => deliveries[d].lease <= now
              /\ \A a \in attempts :
                   Newest(d, a) /\ a.decision = "RetryScheduled" => a.due <= now]_vars
  BY <1>1
<1> QED BY <1>2, Inductive, RetryInductive, PTL DEF Spec, TakeoverInTime

-------------------------------------------------------------------------------
(* Why a row is closed, under the calls of the relay.                      *)

\* The attempt that puts a delivery in a state.
Closes(a, state) ==
  IF state = "DeadLettered" THEN a.decision = "Exhausted" \/ a.outcome = "ProtocolFailure"
  ELSE a.outcome = state

\* No row is delivered, rejected or dead for a reason its history does not give: its newest
\* attempt is the one that put it there.
StatesTold ==
  \A d \in Delivery : Exists(d) /\ State(d) \in {"Delivered", "Rejected", "DeadLettered"} =>
    \E a \in attempts : Newest(d, a) /\ Closes(a, State(d))

\* A step that stores no attempt and closes no row.
LEMMA ToldStays ==
  ASSUME StatesTold, attempts' = attempts,
         \A d \in Delivery :
           Exists(d)' /\ State(d)' \in {"Delivered", "Rejected", "DeadLettered"} =>
             Exists(d) /\ State(d) = State(d)'
  PROVE  StatesTold'
<1>1. \A d : NextOrdinal(d)' = NextOrdinal(d)
  BY DEF NextOrdinal, Ordinals
<1>2. \A d \in Delivery, a \in attempts : Newest(d, a)' <=> Newest(d, a)
  BY <1>1 DEF Newest
<1> QED BY <1>2 DEF StatesTold, Closes

\* The attempt that is stored closes its row, or leaves it pending.
LEMMA RecordTells ==
  ASSUME IInv, StatesTold, NEW c \in held, NEW outcome \in Outcomes,
         NEW decision \in AttemptDecisions, NEW due \in DueTimes,
         Record(c, outcome, decision, due)
  PROVE  StatesTold'
<1> DEFINE D == c.delivery
           old == deliveries[D]
           made == AttemptRecord(outcome, Status, decision, 0, 0, 0)
           new == AfterAttempt(old, outcome, decision, due)
           entry == AttemptRow(c, outcome, decision, due)
<1>1. /\ Owned(c) /\ Recordable(outcome, decision)
      /\ attempts' = attempts \cup {entry}
      /\ deliveries' = [deliveries EXCEPT ![D] = new]
  BY DEF Record, RecordAttempt, Fenced
<1>2. /\ c \in Claim /\ old \in Row /\ old.standing.state = "Pending" /\ D \in Delivery
      /\ deliveries \in [Delivery -> Row \cup {NULL}]
  BY <1>1, OwnedRow DEF Claim, IInv, TypeOK
<1>3. /\ entry.delivery = D /\ entry.ordinal = c.ordinal /\ entry.decision = decision
      /\ entry.outcome = outcome /\ made.outcome = outcome /\ made.decision = decision
  BY DEF AttemptRow, AttemptRecord
<1>4. /\ c.ordinal \in Nat /\ NextOrdinal(D)' = c.ordinal + 1
      /\ \A e \in Delivery : e # D => NextOrdinal(e)' = NextOrdinal(e)
  BY RecordNumbers, TableAssumption
<1>5. new.standing = SqlState(made, old.standing)
  BY <1>2 DEF AfterAttempt, Row
<1>6. deliveries'[D] = new /\ \A e \in Delivery : e # D => deliveries'[e] = deliveries[e]
  BY <1>1, <1>2
<1> HIDE DEF entry, made, new
<1>7. new.standing.state \in {"Delivered", "Rejected", "DeadLettered"} =>
        Closes(entry, new.standing.state)
  BY <1>2, <1>3, <1>5 DEF SqlState, Closes
<1>8. ASSUME NEW d \in Delivery, Exists(d)',
             State(d)' \in {"Delivered", "Rejected", "DeadLettered"}
      PROVE  \E a \in attempts' : Newest(d, a)' /\ Closes(a, State(d)')
  <2>1. CASE d = D
    <3>1. entry \in attempts' /\ Newest(D, entry)'
      BY <1>1, <1>3, <1>4 DEF Newest
    <3>2. State(D)' = new.standing.state
      BY <1>6 DEF State
    <3> QED BY <1>7, <1>8, <2>1, <3>1, <3>2
  <2>2. CASE d # D
    <3>1. Exists(d) /\ State(d)' = State(d)
      BY <1>6, <1>8, <2>2 DEF Exists, State
    <3>2. PICK a \in attempts : Newest(d, a) /\ Closes(a, State(d))
      BY <1>8, <3>1 DEF StatesTold
    <3>3. Newest(d, a)'
      BY <1>1, <1>4, <2>2, <3>2 DEF Newest
    <3> QED BY <1>1, <3>1, <3>2, <3>3
  <2> QED BY <2>1, <2>2
<1> QED BY <1>8 DEF StatesTold, Closes

\* Nothing else closes a row: an operator reopens it or terminates it.
LEMMA OthersTell ==
  ASSUME Completions = {}, IInv, StatesTold, BesidesClaims
  PROVE  StatesTold'
<1>1. deliveries \in [Delivery -> Row \cup {NULL}] /\ \A c \in held : c.delivery \in Delivery
  BY DEF IInv, TypeOK, Claim
<1>2. ASSUME NEW e \in Delivery, NEW row, deliveries' = [deliveries EXCEPT ![e] = row],
             attempts' = attempts, row.standing.state \in {"Pending", "Terminated"}
      PROVE  StatesTold'
  <2>1. \A d \in Delivery :
           Exists(d)' /\ State(d)' \in {"Delivered", "Rejected", "DeadLettered"} =>
             Exists(d) /\ State(d) = State(d)'
    BY <1>1, <1>2 DEF Exists, State
  <2> QED BY <1>2, <2>1, ToldStays
<1>3. ASSUME NEW e \in Delivery, NEW dest \in Destination,
             NEW version \in Version \cup {NULL}, NEW w \in Worker,
             Intake(e, dest, version, w)
      PROVE  StatesTold'
  <2> DEFINE row == NewRow(dest, version, w, 1, now + LeaseDuration)
  <2>1. deliveries' = [deliveries EXCEPT ![e] = row] /\ attempts' = attempts
    BY <1>3 DEF Intake, InsertClaimed
  <2>2. row.standing.state = "Pending"
    BY NewPending DEF NewRow
  <2> HIDE DEF row
  <2> QED BY <1>2, <2>1, <2>2
<1>4. ASSUME NEW e \in Delivery, NEW dest \in Destination, SaveUnclaimed(e, dest)
      PROVE  StatesTold'
  <2> DEFINE row == NewRow(dest, NULL, NULL, 0, NULL)
  <2>1. deliveries' = [deliveries EXCEPT ![e] = row] /\ attempts' = attempts
    BY <1>4 DEF SaveUnclaimed, Save
  <2>2. row.standing.state = "Pending"
    BY NewPending DEF NewRow
  <2> HIDE DEF row
  <2> QED BY <1>2, <2>1, <2>2
<1>5. ASSUME NEW c \in held, Renew(c) PROVE StatesTold'
  <2> DEFINE old == deliveries[c.delivery]
             row == [old EXCEPT !.lease = now + LeaseDuration]
  <2>1. /\ Owned(c) /\ deliveries' = [deliveries EXCEPT ![c.delivery] = row]
        /\ attempts' = attempts
    BY <1>5 DEF Renew, RenewClaim, Fenced
  <2>2. row.standing.state = "Pending"
    BY <2>1, OwnedRow DEF Row
  <2> HIDE DEF row
  <2> QED BY <1>1, <1>2, <2>1, <2>2
<1>6. ASSUME NEW c \in held, Release(c) PROVE StatesTold'
  <2> DEFINE old == deliveries[c.delivery]
             row == [old EXCEPT !.owner = NULL, !.lease = NULL]
  <2>1. /\ Owned(c) /\ deliveries' = [deliveries EXCEPT ![c.delivery] = row]
        /\ attempts' = attempts
    BY <1>6 DEF Release, ReleaseClaim
  <2>2. row.standing.state = "Pending"
    BY <2>1, OwnedRow DEF Row
  <2> HIDE DEF row
  <2> QED BY <1>1, <1>2, <2>1, <2>2
<1>7. ASSUME NEW e \in Delivery, Operate(e) PROVE StatesTold'
  <2> DEFINE row == deliveries'[e]
  <2>1. deliveries[e] \in Row
    BY <1>1, <1>7 DEF Operate, RetryDeadLetter, TerminateDeadLetter, RepairDeadLetter, Exists
  <2>2. /\ deliveries' = [deliveries EXCEPT ![e] = row] /\ attempts' = attempts
        /\ row.standing.state \in {"Pending", "Terminated"}
    <3>1. CASE RetryDeadLetter(e)
      BY <1>1, <2>1, <3>1, NewPending DEF RetryDeadLetter, Reopened, Row
    <3>2. CASE TerminateDeadLetter(e)
      BY <1>1, <2>1, <3>2 DEF TerminateDeadLetter, Standing, Row
    <3>3. CASE \E dest \in Destination, version \in Version : RepairDeadLetter(e, dest, version)
      BY <1>1, <2>1, <3>3, NewPending DEF RepairDeadLetter, Reopened, Row
    <3> QED BY <1>7, <3>1, <3>2, <3>3 DEF Operate
  <2> HIDE DEF row
  <2> QED BY <1>2, <2>2
<1>8. ASSUME NEW c \in held, NEW outcome \in Outcomes, NEW decision \in AttemptDecisions,
             NEW due \in DueTimes, Record(c, outcome, decision, due)
      PROVE  StatesTold'
  BY <1>8, RecordTells
<1>9. ASSUME Advance PROVE StatesTold'
  BY <1>9, ToldStays DEF Advance, Tick, Exists, State
<1> QED BY <1>3, <1>4, <1>5, <1>6, <1>7, <1>8, <1>9 DEF BesidesClaims

\* A takeover closes nothing.
LEMMA TakeoverTells ==
  ASSUME IInv, StatesTold, NEW w \in Worker, NEW S \in SUBSET Delivery, NEW at \in Nat,
         NEW next, TakesOver(w, S, at, next)
  PROVE  StatesTold'
<1> DEFINE Taken(d) == [deliveries[d] EXCEPT !.owner = w, !.generation = @ + 1,
                                         !.lease = at + LeaseDuration]
<1>1. /\ \A d \in S : Exists(d)
      /\ deliveries' = [d \in Delivery |-> IF d \in S THEN Taken(d) ELSE deliveries[d]]
      /\ attempts' = attempts
  BY Zenon DEF TakesOver, Claimed
<1> HIDE DEF Taken
<1>2. ASSUME NEW d \in Delivery, Exists(d)',
             State(d)' \in {"Delivered", "Rejected", "DeadLettered"}
      PROVE  Exists(d) /\ State(d) = State(d)'
  <2>1. CASE d \in S
    <3>1. deliveries'[d] = Taken(d) /\ Exists(d) /\ deliveries[d] \in Row
      BY <1>1, <2>1 DEF IInv, TypeOK, Exists
    <3>2. Taken(d).standing = deliveries[d].standing
      BY <3>1 DEF Row, Taken
    <3> QED BY <3>1, <3>2 DEF State
  <2>2. CASE d \notin S
    <3>1. deliveries'[d] = deliveries[d]
      BY <1>1, <2>2
    <3> QED BY <1>2, <3>1 DEF Exists, State
  <2> QED BY <2>1, <2>2
<1> QED BY <1>1, <1>2, ToldStays

ToldInv == Completions = {} /\ StatesTold

\* What a row says of the end of its delivery, its newest attempt said before.
THEOREM StatesAreTold == Completions = {} /\ Spec => []StatesTold
<1>1. Completions = {} /\ Init => ToldInv
  BY DEF Init, TablesInit, ToldInv, StatesTold, Exists
<1>2. ASSUME IInv, ToldInv, [Next]_vars PROVE ToldInv'
  <2>1. ASSUME NEW w \in Worker, NEW dest \in Destination, NEW at \in Nat,
               NEW S \in SUBSET Delivery, NEW next, BatchTaken(w, dest, at, S, next)
        PROVE  StatesTold'
    <3>1. TakesOver(w, S, at, next)
      BY <1>2, <2>1 DEF BatchTaken
    <3> QED BY <1>2, <3>1, TakeoverTells DEF ToldInv
  <2>2. CASE UNCHANGED vars
    BY <1>2, <2>2, ToldStays DEF vars, Exists, State, ToldInv
  <2> QED BY <1>2, <2>1, <2>2, OthersTell, NextParts DEF ToldInv
<1>3. ToldInv => StatesTold
  BY DEF ToldInv
<1> QED BY <1>1, <1>2, <1>3, Inductive, PTL DEF Spec

-------------------------------------------------------------------------------
(* The two tables implement the promised store.                            *)

\* The store's variables as functions of the tables.
States == [d \in Delivery |-> IF Exists(d) THEN State(d) ELSE "Absent"]
Holders == [d \in Delivery |-> IF Exists(d) THEN deliveries[d].owner ELSE NULL]
Terms == [d \in Delivery |-> IF Exists(d) THEN deliveries[d].generation ELSE 0]
View(a) == [by |-> a.owner, term |-> a.generation, outcome |-> a.outcome,
            decision |-> a.decision]
Views == [by : Worker, term : 1..MaxGeneration, outcome : AttemptOutcomes,
          decision : AttemptDecisions]
Histories == [d \in Delivery |-> StoredHistory(d)]

\* An ordinal of a history names one row, and the history holds its view there.
LEMMA HistoryEntry ==
  ASSUME IInv, NEW d \in Delivery
  PROVE  /\ StoredHistory(d) \in [1..(NextOrdinal(d) - 1) -> Views]
         /\ \A a \in attempts : a.delivery = d =>
              /\ a.ordinal \in 1..(NextOrdinal(d) - 1)
              /\ StoredHistory(d)[a.ordinal] = View(a)
<1> DEFINE n == NextOrdinal(d) - 1
           entry(o) == CHOOSE b \in attempts : b.delivery = d /\ b.ordinal = o
<1>1. n \in Nat /\ Ordinals(d) = 1..n
  BY NextOrdinalBound, TableAssumption
<1> HIDE DEF n
<1>2. Cardinality(1..n) = n
  <2>1. Cardinality(1..n) = IF 1 > n THEN 0 ELSE n - 1 + 1
    BY <1>1, FS_Interval
  <2> QED BY <1>1, <2>1
<1>3. StoredHistory(d) = [o \in 1..n |-> View(entry(o))]
  BY <1>1, <1>2 DEF StoredHistory, View
<1>4. \A o \in 1..n : \E b \in attempts : b.delivery = d /\ b.ordinal = o
  BY <1>1 DEF Ordinals
<1>5. \A o \in 1..n : entry(o) \in attempts /\ entry(o).delivery = d /\ entry(o).ordinal = o
  BY <1>4
<1>6. \A a \in attempts : a.delivery = d => a.ordinal \in 1..n
  BY <1>1 DEF Ordinals
<1>7. \A a, b \in attempts :
        a.delivery = d /\ b.delivery = d /\ a.ordinal = b.ordinal => a = b
  BY DEF IInv, OrdinalsContiguous
<1> HIDE DEF entry
<1>8. \A a \in attempts : a.delivery = d => entry(a.ordinal) = a
  BY <1>5, <1>6, <1>7
<1>9. \A a \in attempts : View(a) \in Views
  BY DEF IInv, TypeOK, Attempt, View, Views
<1>10. StoredHistory(d) \in [1..n -> Views]
  BY <1>3, <1>5, <1>9
<1>11. \A a \in attempts : a.delivery = d => StoredHistory(d)[a.ordinal] = View(a)
  BY <1>3, <1>6, <1>8
<1> QED BY <1>6, <1>10, <1>11 DEF n

\* Histories follow from the rows of delivery_attempts alone.
LEMMA SameHistories ==
  ASSUME UNCHANGED attempts
  PROVE  UNCHANGED Histories
<1>1. \A d : StoredHistory(d)' = StoredHistory(d)
  BY DEF StoredHistory, Ordinals
<1> QED BY <1>1 DEF Histories

LEMMA SameTables ==
  ASSUME UNCHANGED <<deliveries, attempts>>
  PROVE  UNCHANGED <<States, Holders, Terms, Histories>>
BY SameHistories DEF States, Holders, Terms, Exists, State

\* What the store sees of a step that replaces one row.
LEMMA RowView ==
  ASSUME IInv, NEW d \in Delivery, NEW row \in Row,
         deliveries' = [deliveries EXCEPT ![d] = row]
  PROVE  /\ States' = [States EXCEPT ![d] = row.standing.state]
         /\ Holders' = [Holders EXCEPT ![d] = row.owner]
         /\ Terms' = [Terms EXCEPT ![d] = row.generation]
<1>1. deliveries'[d] = row /\ row # NULL
  BY NullAssumption DEF IInv, TypeOK
<1>2. \A e \in Delivery \ {d} : deliveries'[e] = deliveries[e]
  BY DEF IInv, TypeOK
<1>3. /\ States' = [e \in Delivery |-> IF deliveries'[e] # NULL
                                      THEN deliveries'[e].standing.state ELSE "Absent"]
      /\ States = [e \in Delivery |-> IF deliveries[e] # NULL
                                     THEN deliveries[e].standing.state ELSE "Absent"]
  BY DEF States, Exists, State
<1>4. /\ Holders' = [e \in Delivery |-> IF deliveries'[e] # NULL
                                       THEN deliveries'[e].owner ELSE NULL]
      /\ Holders = [e \in Delivery |-> IF deliveries[e] # NULL
                                      THEN deliveries[e].owner ELSE NULL]
  BY DEF Holders, Exists
<1>5. /\ Terms' = [e \in Delivery |-> IF deliveries'[e] # NULL
                                     THEN deliveries'[e].generation ELSE 0]
      /\ Terms = [e \in Delivery |-> IF deliveries[e] # NULL
                                    THEN deliveries[e].generation ELSE 0]
  BY DEF Terms, Exists
<1>6. States' = [States EXCEPT ![d] = row.standing.state]
  BY <1>1, <1>2, <1>3
<1>7. Holders' = [Holders EXCEPT ![d] = row.owner]
  BY <1>1, <1>2, <1>4
<1>8. Terms' = [Terms EXCEPT ![d] = row.generation]
  BY <1>1, <1>2, <1>5
<1> QED BY <1>6, <1>7, <1>8

\* A part of a row that stays is not seen to change.
LEMMA SamePart ==
  ASSUME NEW D, NEW f, f = [d \in D |-> f[d]], NEW d \in D, NEW x, f[d] = x
  PROVE  [f EXCEPT ![d] = x] = f
OBVIOUS

\* What the store knows of a row that exists.
LEMMA RowSeen ==
  ASSUME NEW d \in Delivery, Exists(d)
  PROVE  /\ States[d] = deliveries[d].standing.state
         /\ Holders[d] = deliveries[d].owner
         /\ Terms[d] = deliveries[d].generation
BY DEF States, Holders, Terms, State

LEMMA Tables ==
  /\ States = [d \in Delivery |-> States[d]]
  /\ Holders = [d \in Delivery |-> Holders[d]]
  /\ Terms = [d \in Delivery |-> Terms[d]]
  /\ Histories = [d \in Delivery |-> Histories[d]]
BY DEF States, Holders, Terms, Histories

\* The same of every history, in every state of the invariant and after every step.
HistoriesHold ==
  \A d \in Delivery :
    /\ StoredHistory(d) \in [1..(NextOrdinal(d) - 1) -> Views]
    /\ \A a \in attempts : a.delivery = d =>
         /\ a.ordinal \in 1..(NextOrdinal(d) - 1)
         /\ StoredHistory(d)[a.ordinal] = View(a)

LEMMA HistoriesHeld == IInv => HistoriesHold
BY HistoryEntry DEF HistoriesHold

LEMMA HistoriesHeldNext == IInv' => HistoriesHold'
BY HistoriesHeld, PTL

\* The attempt of a step is appended to the history of its delivery, which keeps what
\* it had; no other history changes.
LEMMA RecordAppends ==
  ASSUME IInv, NEW c \in held, NEW outcome \in Outcomes,
         NEW decision \in AttemptDecisions, NEW due \in DueTimes,
         Record(c, outcome, decision, due)
  PROVE  Histories' = [Histories EXCEPT ![c.delivery] =
           Append(Histories[c.delivery],
                  [by |-> c.owner, term |-> c.generation,
                   outcome |-> outcome, decision |-> decision])]
<1> DEFINE D == c.delivery
           entry == AttemptRow(c, outcome, decision, due)
           n == c.ordinal - 1
           old == StoredHistory(D)
           new == StoredHistory(D)'
           view == [by |-> c.owner, term |-> c.generation,
                    outcome |-> outcome, decision |-> decision]
<1>1. /\ Owned(c) /\ c.ordinal <= MaxOrdinal /\ attempts' = attempts \cup {entry}
      /\ c.ordinal \notin Ordinals(D)
  BY DEF Record, RecordAttempt, Fenced
<1>2. c \in Claim /\ deliveries[D].generation = c.generation /\ D \in Delivery
  BY <1>1, OwnedRow DEF Claim
<1>3. c.ordinal \in 1..MaxOrdinal /\ NextOrdinal(D)' = c.ordinal + 1
  BY RecordNumbers
<1>4. NextOrdinal(D) = c.ordinal
  BY RecordNumbers
<1>5. /\ n \in Nat /\ NextOrdinal(D) - 1 = n /\ NextOrdinal(D)' - 1 = n + 1
      /\ c.ordinal = n + 1
  BY <1>3, <1>4, TableAssumption
<1>6. entry.delivery = D /\ entry.ordinal = n + 1 /\ View(entry) = view
  BY <1>5 DEF AttemptRow, View
<1>7. HistoriesHold /\ HistoriesHold'
  BY HistoriesHeld, RecordFence, HistoriesHeldNext
<1>8. /\ old \in [1..n -> Views]
      /\ \A a \in attempts : a.delivery = D =>
           a.ordinal \in 1..n /\ old[a.ordinal] = View(a)
  BY <1>2, <1>5, <1>7 DEF HistoriesHold
<1>9. /\ new \in [1..(n + 1) -> Views]
      /\ \A a \in attempts' : a.delivery = D =>
           a.ordinal \in 1..(n + 1) /\ new[a.ordinal] = View(a)
  BY <1>2, <1>5, <1>7 DEF HistoriesHold, View, Views
<1>10. Ordinals(D) = 1..n
  BY RecordNumbers
<1>11. \A o \in 1..n : \E a \in attempts : a.delivery = D /\ a.ordinal = o
  BY <1>10 DEF Ordinals
<1> HIDE DEF entry, n, old, new, view
<1>12. \A o \in 1..n : new[o] = old[o]
  BY <1>1, <1>8, <1>9, <1>11
<1>13. new[n + 1] = view
  BY <1>1, <1>6, <1>9
<1>14. view \in Views
  <2>1. n + 1 \in 1..(n + 1)
    BY <1>5
  <2> QED BY <1>9, <1>13, <2>1
<1>15. new = Append(old, view)
  <2>1. old \in Seq(Views) /\ Len(old) = n
    BY <1>5, <1>8
  <2>2. new \in Seq(Views) /\ Len(new) = n + 1
    BY <1>5, <1>9
  <2> DEFINE longer == Append(old, view)
  <2>3. /\ longer \in Seq(Views) /\ Len(longer) = n + 1
        /\ \A i \in 1..n : longer[i] = old[i]
        /\ longer[n + 1] = view
    BY <1>14, <2>1
  <2> HIDE DEF longer
  <2>4. longer \in [1..(n + 1) -> Views]
    BY <2>3
  <2>5. \A i \in 1..(n + 1) : i \in 1..n \/ i = n + 1
    BY <1>5
  <2>6. \A i \in 1..(n + 1) : new[i] = longer[i]
    BY <1>12, <1>13, <2>3, <2>5
  <2>7. /\ new = [i \in 1..(n + 1) |-> new[i]]
        /\ longer = [i \in 1..(n + 1) |-> longer[i]]
    BY <1>9, <2>4
  <2>8. new = longer
    BY <2>6, <2>7
  <2> QED BY <2>8 DEF longer
<1>16. \A e \in Delivery \ {D} : StoredHistory(e)' = StoredHistory(e)
  <2> SUFFICES ASSUME NEW e \in Delivery, e # D
      PROVE  StoredHistory(e)' = StoredHistory(e)
    OBVIOUS
  <2>1. Ordinals(e)' = Ordinals(e)
    BY RecordNumbers DEF D
  <2>2. \A o : (CHOOSE b \in attempts' : b.delivery = e /\ b.ordinal = o)
               = (CHOOSE b \in attempts : b.delivery = e /\ b.ordinal = o)
    <3>1. \A b : b \in attempts' /\ b.delivery = e <=> b \in attempts /\ b.delivery = e
      BY <1>1, <1>6
    <3> QED BY <3>1
  <2> QED BY <2>1, <2>2 DEF StoredHistory
<1>17. /\ Histories' = [e \in Delivery |-> StoredHistory(e)']
       /\ Histories = [e \in Delivery |-> StoredHistory(e)]
  BY DEF Histories
<1>18. Histories' = [Histories EXCEPT ![D] = Append(Histories[D], view)]
  BY <1>2, <1>15, <1>16, <1>17 DEF old, new
<1> QED BY <1>18 DEF view

\* The intakes take a delivery in, held by the process that took it in or by no one.
LEMMA IntakeTakesIn ==
  ASSUME IInv, NEW d \in Delivery, NEW dest \in Destination,
         NEW version \in Version \cup {NULL}, NEW w \in Worker,
         Intake(d, dest, version, w)
  PROVE  Store!TakeIn(d)
<1> DEFINE row == NewRow(dest, version, w, 1, now + LeaseDuration)
<1>1. ~Exists(d) /\ deliveries' = [deliveries EXCEPT ![d] = row] /\ UNCHANGED attempts
  BY DEF Intake, InsertClaimed
<1>2. now \in Nat /\ now + LeaseDuration \in Nat /\ 1 \in 0..MaxGeneration
  BY TableAssumption DEF IInv, TypeOK
<1>3. /\ row \in Row /\ row.owner = w /\ row.generation = 1
      /\ row.standing.state = "Pending"
  BY <1>2, NewPending DEF NewRow, Row
<1> HIDE DEF row
<1>4. /\ States' = [States EXCEPT ![d] = "Pending"]
      /\ Holders' = [Holders EXCEPT ![d] = w]
      /\ Terms' = [Terms EXCEPT ![d] = 1]
  <2>1. /\ States' = [States EXCEPT ![d] = row.standing.state]
        /\ Holders' = [Holders EXCEPT ![d] = row.owner]
        /\ Terms' = [Terms EXCEPT ![d] = row.generation]
    BY <1>1, <1>3, RowView
  <2> QED BY <1>3, <2>1
<1>5. States[d] = "Absent"
  BY <1>1 DEF States
<1>6. UNCHANGED Histories
  BY <1>1, SameHistories
<1> QED
  BY <1>4, <1>5, <1>6
     DEF States, Holders, Terms, Histories, Store!TakeIn

LEMMA SaveTakesIn ==
  ASSUME IInv, NEW d \in Delivery, NEW dest \in Destination, SaveUnclaimed(d, dest)
  PROVE  Store!TakeIn(d)
<1> DEFINE row == NewRow(dest, NULL, NULL, 0, NULL)
<1>1. ~Exists(d) /\ deliveries' = [deliveries EXCEPT ![d] = row] /\ UNCHANGED attempts
  BY DEF SaveUnclaimed, Save
<1>2. /\ row \in Row /\ row.owner = NULL /\ row.generation = 0
      /\ row.standing.state = "Pending"
  <2>1. now \in Nat /\ 0 \in 0..MaxGeneration
    BY TableAssumption DEF IInv, TypeOK
  <2> QED BY <2>1, NewPending DEF NewRow, Row
<1> HIDE DEF row
<1>3. /\ States' = [States EXCEPT ![d] = "Pending"]
      /\ Holders' = [Holders EXCEPT ![d] = NULL]
      /\ Terms' = [Terms EXCEPT ![d] = 0]
  <2>1. /\ States' = [States EXCEPT ![d] = row.standing.state]
        /\ Holders' = [Holders EXCEPT ![d] = row.owner]
        /\ Terms' = [Terms EXCEPT ![d] = row.generation]
    BY <1>1, <1>2, RowView
  <2> QED BY <1>2, <2>1
<1>4. States[d] = "Absent" /\ Holders[d] = NULL /\ Terms[d] = 0
  BY <1>1 DEF States, Holders, Terms
<1>5. UNCHANGED <<Holders, Terms>>
  BY <1>3, <1>4, SamePart, Tables
<1>6. UNCHANGED Histories
  BY <1>1, SameHistories
<1> QED
  BY <1>3, <1>4, <1>5, <1>6
     DEF States, Holders, Terms, Histories, Store!TakeIn

\* A takeover gives its whole batch to one worker, each row with a new term.
LEMMA TakeoverGrants ==
  ASSUME IInv, NEW w \in Worker, NEW S \in SUBSET Delivery, NEW at \in Nat,
         NEW next, TakesOver(w, S, at, next)
  PROVE  Store!Grant(w, S)
<1> DEFINE taken(d) == [deliveries[d] EXCEPT !.owner = w, !.generation = @ + 1,
                                             !.lease = at + LeaseDuration]
<1>1. /\ \A d \in S : deliveries[d].generation < MaxGeneration
      /\ deliveries' = [d \in Delivery |-> IF d \in S THEN taken(d) ELSE deliveries[d]]
      /\ UNCHANGED attempts
  BY DEF TakesOver, Claimed
<1>2. S \in SUBSET Delivery /\ \A d \in S : Exists(d) /\ State(d) = "Pending"
  BY DEF TakesOver
<1>3. at + LeaseDuration \in Nat
  BY TableAssumption
<1>4. \A d \in S : deliveries[d] \in Row
  BY <1>2 DEF IInv, TypeOK, Exists
<1>5. \A d \in S : /\ taken(d) \in Row /\ taken(d).owner = w
                   /\ taken(d).generation = deliveries[d].generation + 1
                   /\ taken(d).standing = deliveries[d].standing
  <2> SUFFICES ASSUME NEW d \in S
      PROVE  /\ taken(d) \in Row /\ taken(d).owner = w
             /\ taken(d).generation = deliveries[d].generation + 1
             /\ taken(d).standing = deliveries[d].standing
    OBVIOUS
  <2>1. deliveries[d] \in Row /\ deliveries[d].generation < MaxGeneration
    BY <1>1, <1>4
  <2>2. deliveries[d].generation \in 0..MaxGeneration
    BY <2>1 DEF Row
  <2>3. deliveries[d].generation + 1 \in 0..MaxGeneration
    BY <2>1, <2>2, TableAssumption
  <2> QED BY <1>3, <2>1, <2>3 DEF Row
<1> HIDE DEF taken
<1>6. \A d \in S : deliveries'[d] = taken(d) /\ deliveries'[d] # NULL
  BY <1>1, <1>2, <1>5, NullAssumption
<1>7. \A d \in Delivery \ S : deliveries'[d] = deliveries[d]
  BY <1>1
<1>8. UNCHANGED States
  BY <1>2, <1>5, <1>6, <1>7 DEF States, Exists, State
<1>9. Holders' = [d \in Delivery |-> IF d \in S THEN w ELSE Holders[d]]
  BY <1>2, <1>5, <1>6, <1>7 DEF Holders, Exists
<1>10. Terms' = [d \in Delivery |-> IF d \in S THEN Terms[d] + 1 ELSE Terms[d]]
  BY <1>2, <1>5, <1>6, <1>7 DEF Terms, Exists
<1>11. \A d \in S : States[d] = "Pending"
  BY <1>2 DEF States
<1>12. UNCHANGED Histories
  BY <1>1, SameHistories
<1> QED
  BY <1>2, <1>8, <1>9, <1>10, <1>11, <1>12
     DEF States, Holders, Terms, Histories, Store!Grant, Store!Unfinished

\* A holder the fence let in holds its delivery in the store as well.
LEMMA HolderSeen ==
  ASSUME IInv, NEW c \in held, Owned(c)
  PROVE  /\ c.delivery \in Delivery /\ c.owner \in Worker
         /\ States[c.delivery] = "Pending"
         /\ Holders[c.delivery] = c.owner /\ c.owner # NULL
         /\ Terms[c.delivery] = c.generation
<1>1. c.delivery \in Delivery /\ c.owner \in Worker
  BY DEF IInv, TypeOK, Claim
<1>2. Exists(c.delivery)
  BY DEF Owned
<1> QED BY <1>1, <1>2, OwnedRow, RowSeen, NullAssumption

LEMMA ReleaseGivesBack ==
  ASSUME IInv, NEW c \in held, Release(c)
  PROVE  Store!GiveBack(c.delivery)
<1> DEFINE d == c.delivery
           row == [deliveries[d] EXCEPT !.owner = NULL, !.lease = NULL]
<1>1. Owned(c) /\ UNCHANGED attempts
  BY DEF Release, ReleaseClaim
<1>2. /\ d \in Delivery /\ States[d] = "Pending" /\ Holders[d] # NULL
      /\ deliveries[d] \in Row /\ Exists(d)
  BY <1>1, HolderSeen, OwnedRow DEF Owned
<1>3. deliveries' = [deliveries EXCEPT ![d] = row]
  BY <1>2 DEF Release, ReleaseClaim, IInv, TypeOK
<1>4. /\ row \in Row /\ row.owner = NULL
      /\ row.generation = deliveries[d].generation
      /\ row.standing.state = deliveries[d].standing.state
  BY <1>2 DEF Row
<1> HIDE DEF row
<1>5. /\ States' = [States EXCEPT ![d] = row.standing.state]
      /\ Holders' = [Holders EXCEPT ![d] = NULL]
      /\ Terms' = [Terms EXCEPT ![d] = row.generation]
  BY <1>2, <1>3, <1>4, RowView
<1>6. UNCHANGED <<States, Terms>>
  BY <1>2, <1>4, <1>5, RowSeen, SamePart, Tables
<1>7. UNCHANGED Histories
  BY <1>1, SameHistories
<1> QED
  BY <1>2, <1>5, <1>6, <1>7
     DEF States, Holders, Terms, Histories,
         Store!GiveBack, Store!Held, Store!Unfinished

\* A renewal moves a lease, which the store does not have.
LEMMA RenewStutters ==
  ASSUME IInv, NEW c \in held, Renew(c)
  PROVE  UNCHANGED <<States, Holders, Terms, Histories>>
<1> DEFINE d == c.delivery
           row == [deliveries[d] EXCEPT !.lease = now + LeaseDuration]
<1>1. /\ Owned(c) /\ UNCHANGED attempts
      /\ deliveries' = [deliveries EXCEPT ![d] = row]
  BY DEF Renew, RenewClaim, Fenced
<1>2. d \in Delivery /\ deliveries[d] \in Row /\ Exists(d)
  BY <1>1, HolderSeen, OwnedRow DEF Owned
<1>3. now + LeaseDuration \in Nat
  BY TableAssumption DEF IInv, TypeOK
<1>4. /\ row \in Row /\ row.owner = deliveries[d].owner
      /\ row.generation = deliveries[d].generation
      /\ row.standing.state = deliveries[d].standing.state
  BY <1>2, <1>3 DEF Row
<1> HIDE DEF row
<1>5. /\ States' = [States EXCEPT ![d] = row.standing.state]
      /\ Holders' = [Holders EXCEPT ![d] = row.owner]
      /\ Terms' = [Terms EXCEPT ![d] = row.generation]
  BY <1>1, <1>2, <1>4, RowView
<1>6. UNCHANGED <<States, Holders, Terms>>
  BY <1>2, <1>4, <1>5, RowSeen, SamePart, Tables
<1> QED BY <1>1, <1>6, SameHistories

LEMMA CompleteConcludes ==
  ASSUME IInv, NEW c \in held, NEW result \in Completions, Complete(c, result)
  PROVE  \E s \in {"Delivered", "Rejected", "DeadLettered"} : Store!Conclude(c.delivery, s)
<1> DEFINE d == c.delivery
           standing == DeliveryStateFromResult(result, Status)
           row == [deliveries[d] EXCEPT !.standing = standing, !.owner = NULL, !.lease = NULL]
<1>1. /\ Owned(c) /\ UNCHANGED attempts
      /\ deliveries' = [deliveries EXCEPT ![d] = row]
  BY DEF Complete, CompleteClaim, Fenced
<1>2. /\ d \in Delivery /\ States[d] = "Pending" /\ Holders[d] # NULL
      /\ deliveries[d] \in Row /\ Exists(d)
  BY <1>1, HolderSeen, OwnedRow DEF Owned
<1>3. standing \in Standings /\ standing.state \in {"Delivered", "Rejected", "DeadLettered"}
  BY CompletionsAssumption
     DEF DeliveryStateFromResult, Standing, Standings, DeliveryStates, DeadLetterReasons
<1> HIDE DEF standing
<1>4. /\ row \in Row /\ row.owner = NULL /\ row.standing = standing
      /\ row.generation = deliveries[d].generation
  BY <1>2, <1>3 DEF Row
<1> HIDE DEF row
<1>5. /\ States' = [States EXCEPT ![d] = standing.state]
      /\ Holders' = [Holders EXCEPT ![d] = NULL]
      /\ Terms' = [Terms EXCEPT ![d] = row.generation]
  BY <1>1, <1>2, <1>4, RowView
<1>6. UNCHANGED Terms
  BY <1>2, <1>4, <1>5, RowSeen, SamePart, Tables
<1>7. UNCHANGED Histories
  BY <1>1, SameHistories
<1>8. Store!Conclude(d, standing.state)
  BY <1>2, <1>5, <1>6, <1>7
     DEF States, Holders, Terms, Histories,
         Store!Conclude, Store!Held, Store!Unfinished
<1> QED BY <1>3, <1>8

\* The CASE expressions of recordAttempt end the delivery as the store promises.
LEMMA EndsAsPromised ==
  ASSUME NEW outcome \in AttemptOutcomes, NEW decision \in AttemptDecisions,
         Recordable(outcome, decision), NEW old, old.state = "Pending"
  PROVE  SqlState(AttemptRecord(outcome, Status, decision, 0, 0, 0), old).state
           = Store!Ends(outcome, decision)
<1> DEFINE a == AttemptRecord(outcome, Status, decision, 0, 0, 0)
<1>1. a.outcome = outcome /\ a.decision = decision
  BY DEF AttemptRecord
<1>2. decision = "Terminal" <=> ~IsRetryable(outcome)
  BY <1>1 DEF Recordable, ConsistentRecord, AttemptDecisions
<1>3. CASE decision = "RetryScheduled"
  BY <1>1, <1>3 DEF SqlState, Store!Ends
<1>4. CASE decision = "Exhausted"
  BY <1>1, <1>4 DEF SqlState, Store!Ends
<1>5. CASE decision = "Terminal"
  <2>1. outcome \in {"Delivered", "Rejected", "ProtocolFailure"}
    BY <1>2, <1>5 DEF IsRetryable, AttemptOutcomes
  <2> QED BY <1>1, <1>5, <2>1 DEF SqlState, Store!Ends
<1> QED BY <1>3, <1>4, <1>5 DEF AttemptDecisions

LEMMA RecordExtends ==
  ASSUME IInv, NEW c \in held, NEW outcome \in Outcomes,
         NEW decision \in AttemptDecisions, NEW due \in DueTimes,
         Record(c, outcome, decision, due)
  PROVE  Store!Extend(c.delivery, outcome, decision)
<1> DEFINE d == c.delivery
           old == deliveries[d]
           row == AfterAttempt(old, outcome, decision, due)
           standing == SqlState(AttemptRecord(outcome, Status, decision, 0, 0, 0),
                                old.standing)
           entry == [by |-> c.owner, term |-> c.generation,
                     outcome |-> outcome, decision |-> decision]
<1>1. /\ Owned(c) /\ Recordable(outcome, decision)
      /\ deliveries' = [deliveries EXCEPT ![d] = row]
  BY DEF Record, RecordAttempt, Fenced
<1>2. /\ d \in Delivery /\ States[d] = "Pending" /\ Holders[d] = c.owner /\ c.owner # NULL
      /\ Terms[d] = c.generation /\ old \in Row /\ Exists(d)
      /\ old.standing.state = "Pending" /\ StandingChecks(old.standing)
  BY <1>1, HolderSeen, OwnedRow DEF Owned
<1>3. outcome \in AttemptOutcomes /\ due \in Nat
  BY TableAssumption DEF DueTimes, WorkerClock
<1>4. old.standing \in Standings
  BY <1>2 DEF Row
<1>5. standing \in Standings /\ standing.state = Store!Ends(outcome, decision)
  BY <1>1, <1>2, <1>3, <1>4, AttemptKeepsStanding, EndsAsPromised
<1>6. row = [old EXCEPT
               !.standing = standing,
               !.owner    = IF Finishing(decision) THEN NULL ELSE @,
               !.lease    = IF Finishing(decision) THEN NULL ELSE @,
               !.eligible = IF decision = "RetryScheduled" THEN due ELSE @]
  BY DEF AfterAttempt
<1>7. Finishing(decision) <=> decision # "RetryScheduled"
  BY DEF Finishing, AttemptDecisions
<1> HIDE DEF standing
<1>8. /\ row \in Row /\ row.standing = standing /\ row.generation = old.generation
      /\ row.owner = IF decision = "RetryScheduled" THEN old.owner ELSE NULL
  BY <1>2, <1>3, <1>5, <1>6, <1>7 DEF Row
<1> HIDE DEF row
<1>9. /\ States' = [States EXCEPT ![d] = row.standing.state]
      /\ Holders' = [Holders EXCEPT ![d] = row.owner]
      /\ Terms' = [Terms EXCEPT ![d] = row.generation]
  BY <1>1, <1>2, <1>8, RowView
<1>10. UNCHANGED Terms
  BY <1>2, <1>8, <1>9, RowSeen, SamePart, Tables
<1>11. Histories' = [Histories EXCEPT ![d] = Append(Histories[d], entry)]
  BY RecordAppends
<1>12. old.owner = Holders[d]
  BY <1>2, RowSeen
<1>13. /\ States' = [States EXCEPT ![d] = Store!Ends(outcome, decision)]
       /\ Holders' = [Holders EXCEPT ![d] =
                        IF decision = "RetryScheduled" THEN Holders[d] ELSE NULL]
       /\ entry = [by |-> Holders[d], term |-> Terms[d],
                   outcome |-> outcome, decision |-> decision]
  BY <1>2, <1>5, <1>8, <1>9, <1>12
<1> HIDE DEF entry, old
<1> QED
  BY <1>2, <1>10, <1>11, <1>13
     DEF States, Holders, Terms, Histories,
         Store!Extend, Store!Held, Store!Unfinished

\* A dead letter has no owner, so that to settle it takes it from no one.
LEMMA OperateSettles ==
  ASSUME IInv, NEW d \in Delivery, Operate(d)
  PROVE  \E s \in {"Pending", "Terminated"} : Store!Settle(d, s)
<1> DEFINE old == deliveries[d]
           row == deliveries'[d]
<1>1. /\ Exists(d) /\ old.standing.state = "DeadLettered" /\ UNCHANGED attempts
  BY DEF Operate, RetryDeadLetter, TerminateDeadLetter, RepairDeadLetter, State
<1>2. old \in Row /\ old.owner = NULL
  BY <1>1 DEF IInv, TypeOK, Exists, RowsKeepTheirChecks, ClaimConstraint
<1>3. now \in Nat
  BY TableAssumption DEF IInv, TypeOK
<1>4. /\ PendingStanding \in Standings /\ PendingStanding.state = "Pending"
      /\ Standing("Terminated", NULL, NULL) \in Standings
      /\ Standing("Terminated", NULL, NULL).state = "Terminated"
  BY DEF PendingStanding, Standing, Standings, DeliveryStates
<1>5. /\ Reopened(old) \in Row /\ Reopened(old).standing = PendingStanding
      /\ Reopened(old).owner = NULL /\ Reopened(old).generation = old.generation
  BY <1>2, <1>3, <1>4 DEF Row, Reopened
<1>6. /\ deliveries' = [deliveries EXCEPT ![d] = row]
      /\ row \in Row /\ row.owner = NULL /\ row.generation = old.generation
      /\ row.standing.state \in {"Pending", "Terminated"}
  <2>1. CASE RetryDeadLetter(d)
    <3>1. deliveries' = [deliveries EXCEPT ![d] = Reopened(old)] /\ row = Reopened(old)
      BY <2>1 DEF RetryDeadLetter, IInv, TypeOK
    <3> QED BY <1>4, <1>5, <3>1
  <2>2. CASE TerminateDeadLetter(d)
    <3> DEFINE new == [old EXCEPT !.standing = Standing("Terminated", NULL, NULL),
                                  !.owner = NULL, !.lease = NULL]
    <3>1. deliveries' = [deliveries EXCEPT ![d] = new] /\ row = new
      BY <2>2 DEF TerminateDeadLetter, IInv, TypeOK
    <3>2. new \in Row /\ new.standing = Standing("Terminated", NULL, NULL)
          /\ new.owner = NULL /\ new.generation = old.generation
      BY <1>2, <1>4 DEF Row
    <3> QED BY <1>4, <3>1, <3>2
  <2>3. ASSUME NEW dest \in Destination, NEW version \in Version,
               RepairDeadLetter(d, dest, version)
        PROVE  /\ deliveries' = [deliveries EXCEPT ![d] = row]
               /\ row \in Row /\ row.owner = NULL /\ row.generation = old.generation
               /\ row.standing.state \in {"Pending", "Terminated"}
    <3> DEFINE new == [Reopened(old) EXCEPT !.route = version]
    <3>1. deliveries' = [deliveries EXCEPT ![d] = new] /\ row = new
      BY <2>3 DEF RepairDeadLetter, IInv, TypeOK
    <3>2. new \in Row /\ new.standing = PendingStanding /\ new.owner = NULL
          /\ new.generation = old.generation
      BY <1>5 DEF Row
    <3> QED BY <1>4, <3>1, <3>2
  <2> QED BY <2>1, <2>2, <2>3 DEF Operate
<1> HIDE DEF old, row
<1>7. /\ States' = [States EXCEPT ![d] = row.standing.state]
      /\ Holders' = [Holders EXCEPT ![d] = NULL]
      /\ Terms' = [Terms EXCEPT ![d] = row.generation]
  BY <1>6, RowView
<1>8. States[d] = "DeadLettered" /\ Holders[d] = NULL /\ Terms[d] = old.generation
  BY <1>1, <1>2, RowSeen DEF old
<1>9. UNCHANGED <<Holders, Terms>>
  BY <1>6, <1>7, <1>8, SamePart, Tables
<1>10. UNCHANGED Histories
  BY <1>1, SameHistories
<1>11. Store!Settle(d, row.standing.state)
  BY <1>7, <1>8, <1>9, <1>10
     DEF States, Holders, Terms, Histories, Store!Settle
<1> QED BY <1>6, <1>11

\* Every statement but claimPending is a step of the store, or nothing it can see.
LEMMA OthersImplement ==
  ASSUME IInv, BesidesClaims
  PROVE  Store!Next \/ UNCHANGED <<States, Holders, Terms, Histories>>
<1>1. ASSUME NEW d \in Delivery, NEW dest \in Destination,
             NEW version \in Version \cup {NULL}, NEW w \in Worker,
             Intake(d, dest, version, w)
      PROVE  Store!Next
  BY <1>1, IntakeTakesIn DEF Store!Next
<1>2. ASSUME NEW d \in Delivery, NEW dest \in Destination, SaveUnclaimed(d, dest)
      PROVE  Store!Next
  BY <1>2, SaveTakesIn DEF Store!Next
<1>4. ASSUME NEW c \in held, Renew(c)
      PROVE  UNCHANGED <<States, Holders, Terms, Histories>>
  BY <1>4, RenewStutters
<1>5. ASSUME NEW c \in held, Release(c)
      PROVE  Store!Next
  <2>1. c.delivery \in Delivery
    BY DEF IInv, TypeOK, Claim
  <2> QED BY <1>5, <2>1, ReleaseGivesBack DEF Store!Next
<1>6. ASSUME NEW c \in held, NEW result \in Completions, Complete(c, result)
      PROVE  Store!Next
  <2>1. c.delivery \in Delivery
    BY DEF IInv, TypeOK, Claim
  <2> QED BY <1>6, <2>1, CompleteConcludes DEF Store!Next
<1>7. ASSUME NEW c \in held, NEW outcome \in Outcomes, NEW decision \in AttemptDecisions,
             NEW due \in DueTimes, Record(c, outcome, decision, due)
      PROVE  Store!Next
  <2>1. c.delivery \in Delivery
    BY DEF IInv, TypeOK, Claim
  <2>2. /\ outcome \in {"Delivered", "Rejected", "Retryable", "ProtocolFailure",
                        "TransportFailure", "TimedOut"}
        /\ decision \in {"Terminal", "RetryScheduled", "Exhausted"}
    BY TableAssumption DEF AttemptOutcomes, AttemptDecisions
  <2>3. Store!Extend(c.delivery, outcome, decision)
    BY <1>7, RecordExtends
  <2> QED BY <2>1, <2>2, <2>3 DEF Store!Next
<1>8. ASSUME NEW d \in Delivery, Operate(d)
      PROVE  Store!Next
  BY <1>8, OperateSettles DEF Store!Next
<1>9. ASSUME Advance
      PROVE  UNCHANGED <<States, Holders, Terms, Histories>>
  BY <1>9, SameTables DEF Advance, Tick
<1> QED
  BY <1>1, <1>2, <1>4, <1>5, <1>6, <1>7, <1>8, <1>9 DEF BesidesClaims

\* So is claimPending.
LEMMA StepImplements == IInv /\ [Next]_vars => [Store!Next]_Store!vars
<1> SUFFICES ASSUME IInv, [Next]_vars
    PROVE  Store!Next \/ UNCHANGED <<States, Holders, Terms, Histories>>
  BY DEF States, Holders, Terms, Histories, Store!vars
<1>1. ASSUME NEW w \in Worker, NEW dest \in Destination, NEW at \in Nat,
             NEW S \in SUBSET Delivery, NEW next, BatchTaken(w, dest, at, S, next)
      PROVE  Store!Next
  <2>1. TakesOver(w, S, at, next)
    BY <1>1 DEF BatchTaken
  <2> QED BY <2>1, TakeoverGrants DEF Store!Next
<1>2. CASE UNCHANGED vars
  BY <1>2, SameTables DEF vars
<1> QED BY <1>1, <1>2, OthersImplement, NextParts

LEMMA InitImplements == Init => Store!Init
<1> SUFFICES ASSUME Init PROVE Store!Init
  OBVIOUS
<1>1. deliveries = [d \in Delivery |-> NULL] /\ attempts = {}
  BY DEF Init, TablesInit
<1>2. /\ States = [d \in Delivery |-> "Absent"]
      /\ Holders = [d \in Delivery |-> NULL]
      /\ Terms = [d \in Delivery |-> 0]
  BY <1>1 DEF States, Holders, Terms, Exists
<1>3. Cardinality({}) = 0
  BY FS_EmptySet
<1>4. \A d \in Delivery : StoredHistory(d) = <<>>
  <2>1. \A d \in Delivery : Ordinals(d) = {}
    BY <1>1 DEF Ordinals
  <2>2. \A d \in Delivery : 1..Cardinality(Ordinals(d)) = {}
    BY <1>3, <2>1
  <2> QED BY <2>2 DEF StoredHistory
<1>5. Histories = [d \in Delivery |-> <<>>]
  BY <1>4 DEF Histories
<1> QED
  BY <1>2, <1>5 DEF States, Holders, Terms, Histories, Store!Init

\* The Postgres adapter keeps the promise of the storage services, for any number of
\* deliveries and workers: whatever lost claims are presented, in whatever order.
THEOREM Implements == Spec => ImplementsStore
<1>1. Init => Store!Init
  BY InitImplements
<1>2. IInv /\ [Next]_vars => [Store!Next]_Store!vars
  BY StepImplements
<1> QED
  BY Inductive, <1>1, <1>2, PTL DEF Spec, ImplementsStore, Store!Spec

===============================================================================
