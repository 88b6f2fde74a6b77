-------------------------- MODULE ClaimStatementProofs --------------------------
(***************************************************************************)
(* Proofs that claimPending, whose snapshot other operations overtake,     *)
(* does what the one step of DeliveryRepository allows: a statement that   *)
(* ends with rows is a Reconcile, and one that begins, or ends with none,  *)
(* changes nothing.  So what is proved of the repository holds of any      *)
(* number of overlapping statements.                                       *)
(***************************************************************************)
EXTENDS ClaimStatement, DeliveryRepositoryProofs

\* What a statement read when it began is in the past: its clock, and the ordinals that
\* the histories had reached.
SnapshotsPast ==
  \A w \in Worker : statement[w] # NULL =>
    /\ statement[w].at <= now
    /\ \A d \in Delivery : statement[w].next[d] <= NextOrdinal(d)

StatementInv ==
  /\ IInv
  /\ statement \in [Worker -> Statement \cup {NULL}]
  /\ SnapshotsPast

-------------------------------------------------------------------------------
(* The steps of a statement.                                               *)

LEMMA OrdinalTyped ==
  ASSUME IInv, NEW d \in Delivery
  PROVE  NextOrdinal(d) \in 1..(MaxOrdinal + 1) /\ NextOrdinal(d) \in Nat /\ 1 <= NextOrdinal(d)
<1>1. NextOrdinal(d) \in 1..(MaxOrdinal + 1)
  BY NextOrdinalBound
<1> QED BY <1>1, TableAssumption

\* The rows a statement locks are a batch of claimPending,
LEMMA LockedBatch ==
  ASSUME StatementInv, NEW w \in Worker, NEW S \in SUBSET Delivery, EndClaim(w, S), S # {}
  PROVE  /\ statement[w].dest \in Destination
         /\ statement[w].at \in Readings
         /\ S \in Batches(statement[w].dest, statement[w].at)
<1> DEFINE s == statement[w]
<1>1. s \in Statement /\ s # NULL
  BY DEF StatementInv, EndClaim
<1>2. s.dest \in Destination /\ s.at \in 0..MaxNow /\ s.at <= now
  BY <1>1 DEF Statement, StatementInv, SnapshotsPast
<1>3. S \subseteq Lockable(s) /\ Cardinality(S) <= ClaimBatchSize
  BY DEF EndClaim
<1> HIDE DEF s
<1>4. s.at \in Readings
  BY <1>2, TableAssumption DEF Readings, StatementInv, IInv, TypeOK
<1>5. S \in Batches(s.dest, s.at)
  BY <1>3 DEF Lockable, Batches
<1> QED BY <1>2, <1>4, <1>5 DEF s

\* and the ordinals of its snapshot lie within their histories.
LEMMA SnapshotOrdinals ==
  ASSUME StatementInv, NEW w \in Worker, NEW S \in SUBSET Delivery, statement[w] # NULL
  PROVE  [d \in S |-> statement[w].next[d]] \in ReadOrdinals(S)
<1>1. statement[w].next \in [Delivery -> 1..(MaxOrdinal + 1)]
  BY DEF StatementInv, Statement
<1>2. \A d \in Delivery : statement[w].next[d] <= NextOrdinal(d)
  BY DEF StatementInv, SnapshotsPast
<1> QED BY <1>1, <1>2 DEF ReadOrdinals

\* The end of a statement is a step of the repository, or changes nothing.
LEMMA EndIsReconcile ==
  ASSUME StatementInv, NEW w \in Worker, NEW S \in SUBSET Delivery, EndClaim(w, S)
  PROVE  [Next]_vars
<1> DEFINE s == statement[w]
           next == [d \in S |-> s.next[d]]
<1>1. /\ statement[w] # NULL
      /\ \A d \in S : deliveries[d].generation < MaxGeneration
      /\ deliveries' = [d \in Delivery |->
           IF d \in S THEN Claimed(deliveries[d], w, s.at) ELSE deliveries[d]]
      /\ held' = held \cup {Returned(d, s) : d \in S}
      /\ UNCHANGED <<now, attempts>>
  BY DEF EndClaim
<1>2. CASE S = {}
  <2>1. deliveries \in [Delivery -> Row \cup {NULL}]
    BY DEF StatementInv, IInv, TypeOK
  <2>2. deliveries' = deliveries
    BY <1>1, <1>2, <2>1
  <2>3. held' = held
    BY <1>1, <1>2
  <2> QED BY <1>1, <2>2, <2>3 DEF vars
<1>3. CASE S # {}
  <2>1. s.dest \in Destination /\ s.at \in Readings /\ S \in Batches(s.dest, s.at)
    BY <1>3, LockedBatch
  <2>2. next \in ReadOrdinals(S) /\ \A d \in S : next[d] = s.next[d]
    BY <1>1, SnapshotOrdinals
  <2> HIDE DEF next, s
  <2>3. ClaimPending(w, s.dest, s.at, S)
    BY <1>1, <2>1 DEF ClaimPending
  <2>4. held' = held \cup {ClaimOf(d, next[d]) : d \in S}
    BY <1>1, <2>2 DEF Returned
  <2>5. Reconcile(w, s.dest)
    BY <2>1, <2>2, <2>3, <2>4 DEF Reconcile, TakeBatch
  <2> QED BY <2>1, <2>5 DEF Next
<1> QED BY <1>2, <1>3

\* Histories and the clock only move on.
LEMMA OthersMoveOn ==
  ASSUME IInv, BesidesClaims
  PROVE  /\ now \in Nat /\ now' \in Nat /\ now <= now'
         /\ \A d \in Delivery : /\ NextOrdinal(d) \in Nat /\ NextOrdinal(d)' \in Nat
                                /\ NextOrdinal(d) <= NextOrdinal(d)'
<1>1. now \in Nat /\ now' \in Nat /\ now <= now'
  <2>1. now \in 0..MaxNow /\ now' \in 0..MaxNow
    BY OthersKeepFence DEF IInv, TypeOK
  <2>2. now' = now \/ now' = now + 1
    BY DEF BesidesClaims, Intake, InsertClaimed, SaveUnclaimed, Save, Renew, RenewClaim,
           Release, ReleaseClaim, Complete, CompleteClaim, Record, RecordAttempt, Operate,
           RetryDeadLetter, RepairDeadLetter, TerminateDeadLetter, Advance, Tick
  <2> QED BY <2>1, <2>2, TableAssumption
<1>2. \A d \in Delivery : NextOrdinal(d) \in Nat
  BY OrdinalTyped
<1>3. ASSUME NEW c \in held, NEW outcome \in Outcomes, NEW decision \in AttemptDecisions,
             NEW due \in DueTimes, Record(c, outcome, decision, due), NEW d \in Delivery
      PROVE  NextOrdinal(d)' \in Nat /\ NextOrdinal(d) <= NextOrdinal(d)'
  <2>1. /\ c.ordinal = NextOrdinal(c.delivery) /\ NextOrdinal(c.delivery)' = c.ordinal + 1
        /\ \A e \in Delivery : e # c.delivery => NextOrdinal(e)' = NextOrdinal(e)
    BY <1>3, RecordNumbers
  <2> QED BY <1>2, <2>1
<1>4. CASE ~(\E c \in held, outcome \in Outcomes, decision \in AttemptDecisions,
                due \in DueTimes : Record(c, outcome, decision, due))
  <2>1. attempts' = attempts
    BY <1>4 DEF BesidesClaims, Intake, InsertClaimed, SaveUnclaimed, Save, Renew, RenewClaim,
                Release, ReleaseClaim, Complete, CompleteClaim, Operate, RetryDeadLetter,
                RepairDeadLetter, TerminateDeadLetter, Advance, Tick
  <2>2. \A d : NextOrdinal(d)' = NextOrdinal(d)
    BY <2>1 DEF NextOrdinal, Ordinals
  <2> QED BY <1>1, <1>2, <2>2
<1> QED BY <1>1, <1>2, <1>3, <1>4

\* What is past stays past.
LEMMA SnapshotsStayPast ==
  ASSUME StatementInv, now \in Nat, now' \in Nat, now <= now',
         \A d \in Delivery : /\ NextOrdinal(d) \in Nat /\ NextOrdinal(d)' \in Nat
                             /\ NextOrdinal(d) <= NextOrdinal(d)',
         NEW w \in Worker, statement[w] # NULL
  PROVE  /\ statement[w].at <= now'
         /\ \A d \in Delivery : statement[w].next[d] <= NextOrdinal(d)'
<1>1. /\ statement[w].at \in 0..MaxNow
      /\ statement[w].next \in [Delivery -> 1..(MaxOrdinal + 1)]
  BY DEF StatementInv, Statement
<1>2. statement[w].at \in Nat /\ \A d \in Delivery : statement[w].next[d] \in Nat
  BY <1>1, TableAssumption
<1> QED BY <1>2 DEF StatementInv, SnapshotsPast

-------------------------------------------------------------------------------
(* The invariant.                                                          *)

\* What a step may be.
LEMMA StatementSteps ==
  ASSUME [StatementNext]_statementVars
  PROVE  \/ \E w \in Worker, dest \in Destination : BeginClaim(w, dest)
         \/ \E w \in Worker, S \in SUBSET Delivery : EndClaim(w, S)
         \/ BesidesClaims /\ statement' = statement
         \/ UNCHANGED statementVars
BY DEF StatementNext, OtherStep, BesidesClaims

\* To begin a statement changes no table.
LEMMA BeginKeepsInv ==
  ASSUME StatementInv, NEW w \in Worker, NEW dest \in Destination, BeginClaim(w, dest)
  PROVE  StatementInv'
<1> DEFINE candidates == {d \in Delivery : Claimable(d, dest, now)}
           next == [d \in Delivery |-> IF d \in candidates THEN NextOrdinal(d) ELSE 1]
           s == [dest |-> dest, at |-> now, candidates |-> candidates, next |-> next]
<1>1. /\ statement' = [statement EXCEPT ![w] = s] /\ UNCHANGED vars
  BY DEF BeginClaim
<1>2. IInv'
  BY <1>1, StutterFence DEF StatementInv
<1>3. \A d \in Delivery : NextOrdinal(d)' = NextOrdinal(d)
  BY <1>1 DEF NextOrdinal, Ordinals, vars
<1>4. \A d \in Delivery : next[d] \in 1..(MaxOrdinal + 1) /\ next[d] <= NextOrdinal(d)
  <2> SUFFICES ASSUME NEW d \in Delivery
      PROVE  next[d] \in 1..(MaxOrdinal + 1) /\ next[d] <= NextOrdinal(d)
    OBVIOUS
  <2>1. NextOrdinal(d) \in 1..(MaxOrdinal + 1) /\ 1 <= NextOrdinal(d) /\ NextOrdinal(d) \in Nat
    BY OrdinalTyped DEF StatementInv
  <2>2. next[d] = NextOrdinal(d) \/ next[d] = 1
    OBVIOUS
  <2>3. 1 \in 1..(MaxOrdinal + 1)
    BY TableAssumption
  <2> HIDE DEF next
  <2> QED BY <2>1, <2>2, <2>3
<1>5. now \in 0..MaxNow /\ now <= now /\ candidates \in SUBSET Delivery
  BY TableAssumption DEF StatementInv, IInv, TypeOK
<1>6. next \in [Delivery -> 1..(MaxOrdinal + 1)]
  BY <1>4
<1> HIDE DEF candidates, next
<1>7. s \in Statement /\ s.at = now /\ s.next = next
  BY <1>5, <1>6 DEF Statement
<1> HIDE DEF s
<1>8. statement' \in [Worker -> Statement \cup {NULL}]
  BY <1>1, <1>7 DEF StatementInv
<1>9. \A v \in Worker : statement'[v] = IF v = w THEN s ELSE statement[v]
  BY <1>1 DEF StatementInv
<1>10. now' = now
  BY <1>1 DEF vars
<1>11. SnapshotsPast'
  BY <1>3, <1>4, <1>5, <1>7, <1>9, <1>10 DEF SnapshotsPast, StatementInv
<1> QED BY <1>2, <1>8, <1>11 DEF StatementInv

\* The end of one keeps the fence, although the ordinals it hands out may be taken.
LEMMA EndKeepsInv ==
  ASSUME StatementInv, NEW w \in Worker, NEW S \in SUBSET Delivery, EndClaim(w, S)
  PROVE  StatementInv'
<1>1. IInv'
  BY EndIsReconcile, NextFence DEF StatementInv
<1>2. statement' = [statement EXCEPT ![w] = NULL] /\ UNCHANGED <<now, attempts>>
  BY DEF EndClaim
<1>3. statement' \in [Worker -> Statement \cup {NULL}]
  BY <1>2 DEF StatementInv
<1>4. \A v \in Worker : statement'[v] # NULL => statement'[v] = statement[v]
  BY <1>2 DEF StatementInv
<1>5. \A d : NextOrdinal(d)' = NextOrdinal(d)
  BY <1>2 DEF NextOrdinal, Ordinals
<1>6. SnapshotsPast'
  BY <1>2, <1>4, <1>5 DEF SnapshotsPast, StatementInv
<1> QED BY <1>1, <1>3, <1>6 DEF StatementInv

LEMMA StatementNextInv ==
  ASSUME StatementInv, [StatementNext]_statementVars
  PROVE  StatementInv'
<1>1. CASE BesidesClaims /\ statement' = statement
  <2>1. IInv'
    BY <1>1, OthersKeepFence DEF StatementInv
  <2>2. \A w \in Worker : statement[w] # NULL =>
          /\ statement[w].at <= now'
          /\ \A d \in Delivery : statement[w].next[d] <= NextOrdinal(d)'
    BY <1>1, OthersMoveOn, SnapshotsStayPast DEF StatementInv
  <2> QED BY <1>1, <2>1, <2>2 DEF StatementInv, SnapshotsPast
<1>2. CASE UNCHANGED statementVars
  <2>1. IInv'
    BY <1>2, StutterFence DEF StatementInv, statementVars, vars
  <2>2. \A d : NextOrdinal(d)' = NextOrdinal(d)
    BY <1>2 DEF NextOrdinal, Ordinals, statementVars
  <2> QED BY <1>2, <2>1, <2>2 DEF StatementInv, SnapshotsPast, statementVars
<1> QED BY <1>1, <1>2, BeginKeepsInv, EndKeepsInv, StatementSteps

\* The invariant of the repository survives statements that overlap.
THEOREM StatementInductive == StatementSpec => []StatementInv
<1>1. StatementInit => StatementInv
  BY InitFence DEF StatementInit, StatementInv, SnapshotsPast
<1> QED BY <1>1, StatementNextInv, PTL DEF StatementSpec

-------------------------------------------------------------------------------
(* Overlapping statements keep to the repository.                          *)

LEMMA StatementStepKeeps ==
  ASSUME StatementInv, [StatementNext]_statementVars
  PROVE  [Next]_vars
<1>1. CASE BesidesClaims
  BY <1>1 DEF BesidesClaims, Next
<1>2. ASSUME UNCHANGED vars PROVE [Next]_vars
  BY <1>2
<1> QED BY <1>1, <1>2, EndIsReconcile, StatementSteps DEF BeginClaim, vars, statementVars

\* The claim statement, taken apart into its snapshot and its locks, with anything in
\* between, implements the one step in which DeliveryRepository states it.
THEOREM StatementKeeps == StatementSpec => KeepsToRepository
<1>1. StatementInit => Init
  BY DEF StatementInit
<1>2. StatementInv /\ [StatementNext]_statementVars => [Next]_vars
  BY StatementStepKeeps
<1> QED
  BY <1>1, <1>2, StatementInductive, PTL DEF StatementSpec, Spec, KeepsToRepository

\* Of all claims handed out for a delivery, by however many overlapping statements, at
\* most one passes the fence.
THEOREM OneLiveClaimUnderOverlap == StatementSpec => []OneLiveClaim
BY StatementKeeps, AtMostOneLiveClaim, PTL DEF KeepsToRepository

\* An ordinal out of date makes a hole or a repeat in no history: the primary key
\* refuses it.
THEOREM ContiguousUnderOverlap == StatementSpec => []OrdinalsContiguous
BY StatementKeeps, HistoryContiguous, PTL DEF KeepsToRepository

\* The two tables agree on when a retry is due, whatever overlaps.
THEOREM DueToldUnderOverlap == Completions = {} /\ StatementSpec => []DueAsRecorded
BY StatementKeeps, DueTold, PTL DEF KeepsToRepository

\* What a statement found claimable at its beginning it takes only if it still is, so no
\* overlap brings a takeover before its time.
THEOREM TakeoversInTimeUnderOverlap == Completions = {} /\ StatementSpec => TakeoverInTime
BY StatementKeeps, TakeoversInTime, PTL DEF KeepsToRepository

\* Claim statements that overlap change nothing in this: a history is written claim after
\* claim, ends with the answer it reports, and gives the reason for what its row says.
THEOREM HistoryInOrderUnderOverlap ==
  StatementSpec => []AttemptsInOrder /\ (Completions = {} => []StatesTold)
BY StatementKeeps, HistoryInOrder, StatesAreTold, PTL DEF KeepsToRepository

\* The promise of the storage services survives the snapshots of READ COMMITTED, for any
\* number of overlapping statements.
THEOREM ImplementsUnderOverlap == StatementSpec => ImplementsStore
BY StatementKeeps, Implements, PTL DEF KeepsToRepository

===============================================================================
