------------------------ MODULE MemoryPersistenceProofs ------------------------
(***************************************************************************)
(* Proofs that the memory adapter is safe for any number of deliveries,    *)
(* workers and destinations, any lease and any clock, and that it          *)
(* implements the promised store.                                          *)
(***************************************************************************)
EXTENDS MemoryPersistence, TLAPS

\* The inductive invariant.  Each part needs the others: the fence compares claims with
\* the Map of generations, and an ordinal is free only to the newest claim.
IInv ==
  /\ TypeOK
  /\ MapsAgree
  /\ ClaimsTraceMaps

\* A holder that is turned away before the step is turned away after it.
StaysOut == \A c \in held : ~Owns(c) => ~Owns(c)'

-------------------------------------------------------------------------------
(* Facts about the operators.                                              *)

\* The next ordinal of a history that counts its own positions is its length plus one.
LEMMA NextOfHistory ==
  ASSUME IInv, NEW d \in Delivery
  PROVE  /\ Len(attempts[d]) \in 0..MaxOrdinal
         /\ NextOrdinal(d) = Len(attempts[d]) + 1
<1> DEFINE h == attempts[d]
           n == Len(h)
           S == {0} \cup {h[i].ordinal : i \in DOMAIN h}
           top == CHOOSE m \in S : \A i \in DOMAIN h : h[i].ordinal <= m
<1>1. h \in Seq(Attempt) /\ \A i \in DOMAIN h : h[i].ordinal = i
  BY DEF IInv, TypeOK, ClaimsTraceMaps
<1>2. n \in Nat /\ DOMAIN h = 1..n
  BY <1>1
<1>3. n \in 0..MaxOrdinal
  <2>1. CASE n = 0
    BY <2>1, MemoryAssumption
  <2>2. CASE n # 0
    <3>1. n \in DOMAIN h /\ h[n] \in Attempt
      BY <1>1, <1>2, <2>2
    <3>2. h[n].ordinal = n /\ h[n].ordinal \in 1..MaxOrdinal
      BY <1>1, <3>1 DEF Attempt
    <3> QED
      BY <3>2, MemoryAssumption
  <2> QED
    BY <2>1, <2>2
<1> HIDE DEF h
<1>4. S = 0..n
  BY <1>1, <1>2
<1>5. top = n
  <2>1. n \in S /\ \A i \in DOMAIN h : h[i].ordinal <= n
    BY <1>1, <1>2, <1>4
  <2>2. ASSUME NEW m \in S, \A i \in DOMAIN h : h[i].ordinal <= m PROVE m = n
    <3>1. m \in 0..n
      BY <1>4
    <3>2. CASE n = 0
      BY <3>1, <3>2
    <3>3. CASE n # 0
      <4>1. n \in DOMAIN h /\ h[n].ordinal = n
        BY <1>1, <1>2, <3>3
      <4>2. n <= m
        BY <2>2, <4>1
      <4>3. n \in Nat
        BY <1>2
      <4> HIDE DEF n
      <4> QED
        BY <3>1, <4>2, <4>3
    <3> QED
      BY <3>2, <3>3
  <2> HIDE DEF S
  <2> QED
    BY <2>1, <2>2
<1>6. NextOrdinal(d) = 1 + top
  BY DEF NextOrdinal, h
<1> HIDE DEF top
<1> QED
  BY <1>2, <1>3, <1>5, <1>6 DEF h

\* The claim handed out for a generation is typed and counts on.
LEMMA HandedOutClaim ==
  ASSUME IInv, NEW d \in Delivery, NEW w \in Worker, NEW g \in 1..MaxGeneration
  PROVE  /\ HandedOut(d, w, g) \in Claim
         /\ HandedOut(d, w, g).delivery = d
         /\ HandedOut(d, w, g).owner = w
         /\ HandedOut(d, w, g).generation = g
         /\ HandedOut(d, w, g).ordinal = Len(attempts[d]) + 1
<1>1. NextOrdinal(d) = Len(attempts[d]) + 1 /\ NextOrdinal(d) \in 1..(MaxOrdinal + 1)
  BY NextOfHistory, MemoryAssumption
<1> QED
  BY <1>1 DEF HandedOut, Claim

LEMMA PendingTyped == [standing |-> PendingStanding, destination |-> NULL].standing.state = "Pending"
                      /\ PendingStanding \in [state : DeliveryStates, status : {NULL, Status},
                                              reason : DeadLetterReasons \cup {NULL}]
BY DEF PendingStanding, Standing, DeliveryStates

-------------------------------------------------------------------------------
(* The invariant and the fence.                                            *)

LEMMA InitIInv == Init => IInv
<1> SUFFICES ASSUME Init PROVE IInv
  OBVIOUS
<1>1. TypeOK
  BY MemoryAssumption DEF Init, TypeOK
<1>2. MapsAgree
  BY DEF Init, MapsAgree, Exists
<1>3. ClaimsTraceMaps
  BY DEF Init, ClaimsTraceMaps
<1> QED
  BY <1>1, <1>2, <1>3 DEF IInv

\* Steps that hand out no claim, record no attempt and at most end or renew claims.
LEMMA QuietStep ==
  ASSUME IInv, UNCHANGED <<events, order, generations, attempts, held>>,
         now' \in 0..MaxNow,
         records' \in [Delivery -> Record \cup {NULL}],
         claims' \in [Delivery -> StoredClaim \cup {NULL}],
         nextEligibleAt' \in [Delivery -> Nat \cup {NULL}],
         \A d \in Delivery :
           /\ Exists(d)' <=> Exists(d)
           /\ nextEligibleAt'[d] = NULL <=> nextEligibleAt[d] = NULL
           /\ claims'[d] # NULL =>
                /\ claims[d] # NULL
                /\ In(d, "Pending")'
                /\ claims'[d].owner = claims[d].owner
                /\ claims'[d].generation = claims[d].generation
  PROVE  IInv' /\ StaysOut
<1>1. TypeOK'
  BY DEF IInv, TypeOK
<1>2. MapsAgree'
  <2> SUFFICES ASSUME NEW d \in Delivery
      PROVE  /\ claims'[d] # NULL => In(d, "Pending")' /\ claims'[d].generation = generations'[d]
             /\ Exists(d)' <=> generations'[d] # NULL
             /\ Exists(d)' <=> nextEligibleAt'[d] # NULL
             /\ Exists(d)' <=> \E i \in DOMAIN order' : order'[i] = d
             /\ d \in events' \/ attempts'[d] # <<>> => Exists(d)'
    BY DEF MapsAgree
  <2> QED
    BY DEF IInv, MapsAgree
<1>3. \A c \in held : c.delivery \in Delivery
  BY DEF IInv, TypeOK, Claim
<1>4. ClaimsTraceMaps'
  BY <1>3 DEF IInv, ClaimsTraceMaps
<1>5. StaysOut
  BY <1>3 DEF StaysOut, Owns
<1> QED
  BY <1>1, <1>2, <1>4, <1>5 DEF IInv

\* A record that is set for the first time comes last in the order of the Map.
LEMMA OrderGrows ==
  ASSUME order \in Seq(Delivery), NEW d \in Delivery, order' = Append(order, d)
  PROVE  /\ order' \in Seq(Delivery)
         /\ \A e \in Delivery : (\E i \in DOMAIN order' : order'[i] = e) <=>
                               (e = d \/ \E i \in DOMAIN order : order[i] = e)
<1>1. Len(order) \in Nat /\ DOMAIN order = 1..Len(order)
  OBVIOUS
<1>2. DOMAIN order' = 1..(Len(order) + 1)
  BY <1>1
<1>3. \A i \in 1..Len(order) : order'[i] = order[i]
  BY <1>1
<1>4. order'[Len(order) + 1] = d
  BY <1>1
<1> QED
  BY <1>1, <1>2, <1>3, <1>4

LEMMA SaveStep ==
  ASSUME IInv, NEW d \in Delivery, NEW dest \in Destination, Save(d, dest)
  PROVE  IInv' /\ StaysOut
<1>1. /\ ~Exists(d)
      /\ records' = [records EXCEPT ![d] =
           [standing |-> PendingStanding, destination |-> dest]]
      /\ order' = Append(order, d)
      /\ nextEligibleAt' = [nextEligibleAt EXCEPT ![d] = now]
      /\ generations' = [generations EXCEPT ![d] = 0]
      /\ UNCHANGED <<now, events, claims, attempts, held>>
  BY DEF Save, Insert
<1>2. [standing |-> PendingStanding, destination |-> dest] \in Record
  BY PendingTyped DEF Record
<1>3. TypeOK'
  BY <1>1, <1>2, MemoryAssumption DEF IInv, TypeOK
<1>4. MapsAgree'
  <2>1. \A e \in Delivery : Exists(e)' <=> e = d \/ Exists(e)
    BY <1>1, <1>2, MemoryNullAssumption DEF Exists, IInv, TypeOK
  <2>2. \A e \in Delivery :
          (\E i \in DOMAIN order' : order'[i] = e) <=>
            (e = d \/ \E i \in DOMAIN order : order[i] = e)
    BY <1>1, OrderGrows DEF IInv, TypeOK
  <2>3. claims[d] = NULL
    BY <1>1 DEF IInv, MapsAgree, In
  <2>4. 0 # NULL /\ now # NULL
    BY MemoryNullAssumption DEF IInv, TypeOK
  <2> SUFFICES ASSUME NEW e \in Delivery
      PROVE  /\ claims'[e] # NULL => In(e, "Pending")' /\ claims'[e].generation = generations'[e]
             /\ Exists(e)' <=> generations'[e] # NULL
             /\ Exists(e)' <=> nextEligibleAt'[e] # NULL
             /\ Exists(e)' <=> \E i \in DOMAIN order' : order'[i] = e
             /\ e \in events' \/ attempts'[e] # <<>> => Exists(e)'
    BY DEF MapsAgree
  <2>5. CASE e = d
    BY <1>1, <2>1, <2>2, <2>3, <2>4, <2>5 DEF IInv, TypeOK
  <2>6. CASE e # d
    <3>1. /\ records'[e] = records[e] /\ generations'[e] = generations[e]
          /\ nextEligibleAt'[e] = nextEligibleAt[e] /\ claims'[e] = claims[e]
          /\ attempts'[e] = attempts[e]
      BY <1>1, <2>6 DEF IInv, TypeOK
    <3>2. Exists(e)' = Exists(e) /\ In(e, "Pending")' = In(e, "Pending")
      BY <3>1 DEF Exists, In
    <3> QED
      BY <1>1, <2>2, <2>6, <3>1, <3>2 DEF IInv, MapsAgree
  <2> QED
    BY <2>5, <2>6
<1>5. \A c \in held : c.delivery \in Delivery /\ c.delivery # d
  BY <1>1 DEF IInv, TypeOK, Claim, ClaimsTraceMaps
<1>6. ClaimsTraceMaps'
  <2>1. \A c \in held : /\ generations'[c.delivery] = generations[c.delivery]
                        /\ Exists(c.delivery)' = Exists(c.delivery)
    BY <1>1, <1>5 DEF IInv, TypeOK, Exists
  <2> QED
    BY <1>1, <2>1 DEF IInv, ClaimsTraceMaps
<1>7. StaysOut
  BY <1>1 DEF StaysOut, Owns
<1> QED
  BY <1>3, <1>4, <1>6, <1>7 DEF IInv

LEMMA InsertClaimedStep ==
  ASSUME IInv, NEW d \in Delivery, NEW dest \in Destination, NEW w \in Worker,
         NEW eligible \in 0..MaxNow, InsertClaimed(d, dest, w, eligible)
  PROVE  IInv' /\ StaysOut
<1> DEFINE record == [standing |-> PendingStanding, destination |-> dest]
           claim == [owner |-> w, generation |-> 1, lease |-> now + LeaseDuration]
<1>1. /\ ~Exists(d)
      /\ records' = [records EXCEPT ![d] = record]
      /\ order' = Append(order, d)
      /\ nextEligibleAt' = [nextEligibleAt EXCEPT ![d] = eligible]
      /\ events' = events \cup {d}
      /\ generations' = [generations EXCEPT ![d] = 1]
      /\ claims' = [claims EXCEPT ![d] = claim]
      /\ held' = held \cup {HandedOut(d, w, 1)}
      /\ UNCHANGED <<now, attempts>>
  BY DEF InsertClaimed, Insert
<1>2. record \in Record /\ claim \in StoredClaim /\ 1 \in 1..MaxGeneration
  BY PendingTyped, MemoryAssumption DEF IInv, TypeOK, Record, StoredClaim
<1>3. record.standing.state = "Pending" /\ claim.generation = 1 /\ claim.owner = w
  BY DEF PendingStanding, Standing
<1> HIDE DEF record, claim
<1> DEFINE new == HandedOut(d, w, 1)
<1>4. /\ new \in Claim /\ new.delivery = d /\ new.owner = w
      /\ new.generation = 1 /\ new.ordinal = Len(attempts[d]) + 1
  BY <1>2, HandedOutClaim
<1> HIDE DEF new
<1>5. order' \in Seq(Delivery)
  BY <1>1, OrderGrows DEF IInv, TypeOK
<1>6. TypeOK'
  BY <1>1, <1>2, <1>4, <1>5 DEF IInv, TypeOK, new
<1>7. /\ records'[d] = record /\ generations'[d] = 1 /\ nextEligibleAt'[d] = eligible
      /\ claims'[d] = claim
      /\ \A e \in Delivery \ {d} :
           /\ records'[e] = records[e] /\ generations'[e] = generations[e]
           /\ nextEligibleAt'[e] = nextEligibleAt[e] /\ claims'[e] = claims[e]
  BY <1>1 DEF IInv, TypeOK
<1>8. /\ Exists(d)' /\ In(d, "Pending")'
      /\ \A e \in Delivery \ {d} : /\ Exists(e)' = Exists(e)
                                  /\ In(e, "Pending")' = In(e, "Pending")
  BY <1>2, <1>3, <1>7, MemoryNullAssumption DEF Exists, In
<1>9. MapsAgree'
  <2> SUFFICES ASSUME NEW e \in Delivery
      PROVE  /\ claims'[e] # NULL => In(e, "Pending")' /\ claims'[e].generation = generations'[e]
             /\ Exists(e)' <=> generations'[e] # NULL
             /\ Exists(e)' <=> nextEligibleAt'[e] # NULL
             /\ Exists(e)' <=> \E i \in DOMAIN order' : order'[i] = e
             /\ e \in events' \/ attempts'[e] # <<>> => Exists(e)'
    BY DEF MapsAgree
  <2>1. (\E i \in DOMAIN order' : order'[i] = e) <=>
           (e = d \/ \E i \in DOMAIN order : order[i] = e)
    BY <1>1, OrderGrows DEF IInv, TypeOK
  <2>2. CASE e = d
    <3>1. 1 # NULL /\ eligible # NULL
      BY MemoryNullAssumption
    <3> QED
      BY <1>3, <1>7, <1>8, <2>1, <2>2, <3>1
  <2>3. CASE e # d
    BY <1>1, <1>7, <1>8, <2>1, <2>3 DEF IInv, MapsAgree
  <2> QED
    BY <2>2, <2>3
<1>10. \A c \in held : c.delivery \in Delivery \ {d}
  BY <1>1 DEF IInv, TypeOK, Claim, ClaimsTraceMaps
<1>11. ClaimsTraceMaps'
  <2>1. held' = held \cup {new}
    BY <1>1 DEF new
  <2>2. \A c \in held : /\ generations'[c.delivery] = generations[c.delivery]
                        /\ claims'[c.delivery] = claims[c.delivery]
                        /\ Exists(c.delivery)' = Exists(c.delivery)
    BY <1>7, <1>8, <1>10
  <2>3. \A c \in held' :
          /\ Exists(c.delivery)'
          /\ c.generation <= generations'[c.delivery]
          /\ c.generation = generations'[c.delivery] =>
               /\ c.ordinal = Len(attempts'[c.delivery]) + 1
               /\ claims'[c.delivery] # NULL => claims'[c.delivery].owner = c.owner
    BY <1>1, <1>3, <1>4, <1>7, <1>8, <2>1, <2>2 DEF IInv, ClaimsTraceMaps
  <2>4. \A c1, c2 \in held' :
          c1.delivery = c2.delivery /\ c1.generation = c2.generation => c1 = c2
    BY <1>4, <1>10, <2>1 DEF IInv, ClaimsTraceMaps
  <2> QED
    BY <1>1, <2>3, <2>4 DEF IInv, ClaimsTraceMaps
<1>12. StaysOut
  BY <1>7, <1>10 DEF StaysOut, Owns
<1> QED
  BY <1>6, <1>9, <1>11, <1>12 DEF IInv

LEMMA ClaimPendingStep ==
  ASSUME IInv, NEW w \in Worker, NEW dest \in Destination, NEW S \in Batches(dest),
         ClaimPending(w, dest, S)
  PROVE  IInv' /\ StaysOut
<1> DEFINE claim(d) ==
             [owner |-> w, generation |-> generations[d] + 1, lease |-> now + LeaseDuration]
           new(d) == HandedOut(d, w, generations[d] + 1)
<1>1. \A d \in S : /\ d \in Delivery /\ In(d, "Pending") /\ Exists(d)
                   /\ generations[d] \in 0..MaxGeneration
                   /\ Generation(d) = generations[d]
                   /\ generations[d] + 1 \in 1..MaxGeneration
  <2> SUFFICES ASSUME NEW d \in S
      PROVE  /\ d \in Delivery /\ In(d, "Pending") /\ Exists(d)
             /\ generations[d] \in 0..MaxGeneration
             /\ Generation(d) = generations[d]
             /\ generations[d] + 1 \in 1..MaxGeneration
    OBVIOUS
  <2>1. d \in Delivery /\ In(d, "Pending") /\ Exists(d)
    BY DEF Batches, Claimable, In
  <2>2. generations[d] \in 0..MaxGeneration /\ generations[d] # NULL
    BY <2>1 DEF IInv, TypeOK, MapsAgree
  <2>3. Generation(d) = generations[d]
    BY <2>2 DEF Generation
  <2>4. Generation(d) < MaxGeneration
    BY DEF ClaimPending
  <2> QED
    BY <2>1, <2>2, <2>3, <2>4, MemoryAssumption
<1>2. /\ generations' = [d \in Delivery |->
            IF d \in S THEN generations[d] + 1 ELSE generations[d]]
      /\ claims' = [d \in Delivery |-> IF d \in S THEN claim(d) ELSE claims[d]]
      /\ held' = held \cup {new(d) : d \in S}
      /\ UNCHANGED <<now, events, records, order, attempts, nextEligibleAt>>
  BY <1>1 DEF ClaimPending
<1>3. \A d \in S : claim(d) \in StoredClaim /\ claim(d).owner = w
                   /\ claim(d).generation = generations[d] + 1
  BY <1>1, MemoryAssumption DEF IInv, TypeOK, StoredClaim
<1>4. \A d \in S : /\ new(d) \in Claim /\ new(d).delivery = d /\ new(d).owner = w
                   /\ new(d).generation = generations[d] + 1
                   /\ new(d).ordinal = Len(attempts[d]) + 1
  BY <1>1, HandedOutClaim
<1> HIDE DEF claim, new
<1>5. TypeOK'
  BY <1>1, <1>2, <1>3, <1>4 DEF IInv, TypeOK
<1>6. \A d \in Delivery : /\ Exists(d)' = Exists(d)
                          /\ In(d, "Pending")' = In(d, "Pending")
  BY <1>2 DEF Exists, In
<1>7. MapsAgree'
  <2> SUFFICES ASSUME NEW e \in Delivery
      PROVE  /\ claims'[e] # NULL => In(e, "Pending")' /\ claims'[e].generation = generations'[e]
             /\ Exists(e)' <=> generations'[e] # NULL
             /\ Exists(e)' <=> nextEligibleAt'[e] # NULL
             /\ Exists(e)' <=> \E i \in DOMAIN order' : order'[i] = e
             /\ e \in events' \/ attempts'[e] # <<>> => Exists(e)'
    BY DEF MapsAgree
  <2>1. CASE e \in S
    <3>1. generations'[e] # NULL
      BY <1>1, <1>2, <2>1, MemoryNullAssumption
    <3> QED
      BY <1>1, <1>2, <1>3, <1>6, <2>1, <3>1 DEF IInv, MapsAgree
  <2>2. CASE e \notin S
    BY <1>2, <1>6, <2>2 DEF IInv, MapsAgree
  <2> QED
    BY <2>1, <2>2
<1>8. \A c \in held : c.delivery \in Delivery /\ c.generation \in Nat
  BY DEF IInv, TypeOK, Claim
<1>9. \A c \in held : c.delivery \in S => c.generation < generations'[c.delivery]
  BY <1>1, <1>2, <1>8 DEF IInv, ClaimsTraceMaps
<1>10. \A c \in held : c.delivery \notin S =>
         /\ generations'[c.delivery] = generations[c.delivery]
         /\ claims'[c.delivery] = claims[c.delivery]
  BY <1>2, <1>8
<1>11. ClaimsTraceMaps'
  <2>1. ASSUME NEW c \in held'
        PROVE  /\ Exists(c.delivery)'
               /\ c.generation <= generations'[c.delivery]
               /\ c.generation = generations'[c.delivery] =>
                    /\ c.ordinal = Len(attempts'[c.delivery]) + 1
                    /\ claims'[c.delivery] # NULL => claims'[c.delivery].owner = c.owner
    <3>1. CASE c \in held /\ c.delivery \in S
      <4>1. generations'[c.delivery] \in Nat
        BY <1>1, <1>2, <1>8, <3>1
      <4> QED
        BY <1>1, <1>6, <1>8, <1>9, <3>1, <4>1
    <3>2. CASE c \in held /\ c.delivery \notin S
      BY <1>2, <1>6, <1>8, <1>10, <3>2 DEF IInv, ClaimsTraceMaps
    <3>3. ASSUME NEW d \in S, c = new(d)
          PROVE  /\ Exists(c.delivery)'
                 /\ c.generation <= generations'[c.delivery]
                 /\ c.ordinal = Len(attempts'[c.delivery]) + 1
                 /\ claims'[c.delivery].owner = c.owner
      BY <1>1, <1>2, <1>3, <1>4, <1>6, <3>3
    <3> QED
      BY <1>2, <3>1, <3>2, <3>3
  <2>2. ASSUME NEW c1 \in held', NEW c2 \in held',
               c1.delivery = c2.delivery, c1.generation = c2.generation
        PROVE  c1 = c2
    <3>1. CASE c1 \in held /\ c2 \in held
      BY <2>2, <3>1 DEF IInv, ClaimsTraceMaps
    <3>2. ASSUME NEW d \in S, NEW c \in held
          PROVE  ~(new(d).delivery = c.delivery /\ new(d).generation = c.generation)
      BY <1>1, <1>2, <1>4, <1>8, <1>9
    <3>3. ASSUME NEW d \in S, NEW e \in S, new(d).delivery = new(e).delivery
          PROVE  new(d) = new(e)
      BY <1>4, <3>3
    <3> QED
      BY <1>2, <2>2, <3>1, <3>2, <3>3
  <2> QED
    BY <1>2, <2>1, <2>2 DEF IInv, ClaimsTraceMaps
<1>12. StaysOut
  <2>1. ASSUME NEW c \in held, c.delivery \in S PROVE ~Owns(c)'
    BY <1>1, <1>2, <1>3, <1>8, <1>9, <2>1 DEF Owns
  <2>2. ASSUME NEW c \in held, c.delivery \notin S PROVE Owns(c)' = Owns(c)
    BY <1>10, <2>2 DEF Owns
  <2> QED
    BY <2>1, <2>2 DEF StaysOut
<1> QED
  BY <1>5, <1>7, <1>11, <1>12 DEF IInv

-------------------------------------------------------------------------------
(* Attempts.                                                               *)

\* What a recorded attempt that is not retried makes of its delivery.
LEMMA EndedStanding ==
  ASSUME NEW outcome \in AttemptOutcomes, NEW decision \in {"Terminal", "Exhausted"},
         Recordable(outcome, decision)
  PROVE  /\ Ended(outcome, decision) \in
              [state : DeliveryStates, status : {NULL, Status},
               reason : DeadLetterReasons \cup {NULL}]
         /\ Ended(outcome, decision).state =
              IF decision = "Exhausted" \/ outcome = "ProtocolFailure"
              THEN "DeadLettered" ELSE outcome
<1> DEFINE a == AttemptRecord(outcome, Status, decision, 0, 0, 0)
<1>1. /\ a.outcome = outcome /\ a.decision = decision
      /\ a.status = IF CarriesStatus(outcome) THEN Status ELSE NULL
  BY DEF AttemptRecord
<1>2. Ended(outcome, decision) = TerminalStateFromAttempt(a)
  BY DEF Ended
<1>3. decision = "Terminal" => ~IsRetryable(outcome)
  BY <1>1 DEF Recordable, ConsistentRecord
<1> HIDE DEF a
<1>4. CASE decision = "Exhausted"
  <2>1. TerminalStateFromAttempt(a) =
          Standing("DeadLettered", NULL, "RetryBudgetExhausted")
    BY <1>1, <1>4 DEF TerminalStateFromAttempt
  <2> QED
    BY <1>2, <1>4, <2>1 DEF Standing, DeliveryStates, DeadLetterReasons
<1>5. CASE decision = "Terminal" /\ outcome \in {"Delivered", "Rejected"}
  <2>1. TerminalStateFromAttempt(a) = Standing(outcome, Status, NULL)
    BY <1>1, <1>5, MemoryNullAssumption DEF TerminalStateFromAttempt, CarriesStatus
  <2> QED
    BY <1>2, <1>5, <2>1 DEF Standing, DeliveryStates, DeadLetterReasons
<1>6. CASE decision = "Terminal" /\ outcome = "ProtocolFailure"
  <2>1. TerminalStateFromAttempt(a) =
          Standing("DeadLettered", NULL, "ProviderProtocolFailure")
    BY <1>1, <1>6 DEF TerminalStateFromAttempt
  <2> QED
    BY <1>2, <1>6, <2>1 DEF Standing, DeliveryStates, DeadLetterReasons
<1> QED
  BY <1>3, <1>4, <1>5, <1>6 DEF AttemptOutcomes, IsRetryable

\* What a result makes of its delivery.
LEMMA ResultStanding ==
  ASSUME NEW result \in Completions
  PROVE  /\ DeliveryStateFromResult(result, Status) \in
              [state : DeliveryStates, status : {NULL, Status},
               reason : DeadLetterReasons \cup {NULL}]
         /\ DeliveryStateFromResult(result, Status).state \in
              {"Delivered", "Rejected", "DeadLettered"}
<1>1. result \in {"Delivered", "Rejected", "ProtocolFailure", "Exhausted"}
  BY MemoryAssumption
<1> QED
  BY <1>1 DEF DeliveryStateFromResult, Standing, DeliveryStates, DeadLetterReasons

\* An owner whose lease runs has the newest generation, and its ordinal is the next one.
LEMMA OwnerIsNewest ==
  ASSUME IInv, NEW c \in held, Owns(c)
  PROVE  /\ c.delivery \in Delivery /\ claims[c.delivery] # NULL
         /\ c.generation = generations[c.delivery]
         /\ claims[c.delivery].owner = c.owner
         /\ c.ordinal = Len(attempts[c.delivery]) + 1
BY DEF IInv, TypeOK, MapsAgree, ClaimsTraceMaps, Claim, Owns

LEMMA Appended ==
  ASSUME NEW X, NEW h \in Seq(X), NEW e \in X
  PROVE  /\ Append(h, e) \in Seq(X) /\ Len(Append(h, e)) = Len(h) + 1
         /\ DOMAIN Append(h, e) = 1..(Len(h) + 1)
         /\ Append(h, e)[Len(h) + 1] = e
         /\ \A i \in 1..Len(h) : Append(h, e)[i] = h[i]
OBVIOUS

\* An attempt is appended under its own position, whatever else the step does.
LEMMA AppendStep ==
  ASSUME IInv, NEW c \in held, NEW outcome \in Outcomes, NEW decision \in AttemptDecisions,
         AppendAttempt(c, outcome, decision),
         records' \in [Delivery -> Record \cup {NULL}],
         claims' \in [Delivery -> StoredClaim \cup {NULL}],
         nextEligibleAt' \in [Delivery -> Nat \cup {NULL}],
         \A d \in Delivery :
           /\ Exists(d)' <=> Exists(d)
           /\ nextEligibleAt'[d] = NULL <=> nextEligibleAt[d] = NULL
           /\ claims'[d] # NULL =>
                /\ claims[d] # NULL
                /\ In(d, "Pending")'
                /\ claims'[d].owner = claims[d].owner
                /\ claims'[d].generation = claims[d].generation
  PROVE  IInv' /\ StaysOut
<1> DEFINE d0 == c.delivery
           n == Len(attempts[d0])
           entry == AttemptEntry(c, outcome, decision)
           next == [c EXCEPT !.ordinal = @ + 1]
<1>1. /\ In(d0, "Pending") /\ OwnsNow(c) /\ c.ordinal <= MaxOrdinal
      /\ attempts' = [attempts EXCEPT ![d0] = Append(attempts[d0], entry)]
      /\ held' = (held \ {c}) \cup {next}
      /\ UNCHANGED <<now, events, order, generations>>
  BY DEF AppendAttempt
<1>2. /\ d0 \in Delivery /\ c.generation = generations[d0] /\ c.ordinal = n + 1
      /\ claims[d0] # NULL /\ claims[d0].owner = c.owner
  BY <1>1, OwnerIsNewest DEF OwnsNow, Owns
<1>3. /\ c.owner \in Worker /\ c.generation \in 1..MaxGeneration
      /\ c.ordinal \in 1..(MaxOrdinal + 1) /\ c \in Claim
  BY DEF IInv, TypeOK, Claim
<1>4. n \in Nat /\ DOMAIN attempts[d0] = 1..n /\ attempts[d0] \in Seq(Attempt)
  BY <1>2 DEF IInv, TypeOK
<1>5. entry \in Attempt /\ entry.ordinal = n + 1
  <2>1. c.ordinal \in 1..MaxOrdinal
    BY <1>1, <1>3, MemoryAssumption
  <2> QED
    BY <1>2, <1>3, <2>1, MemoryAssumption DEF AttemptEntry, Attempt
<1>6. /\ next \in Claim /\ next.delivery = d0 /\ next.owner = c.owner
      /\ next.generation = c.generation /\ next.ordinal = n + 2
  <2>1. c.ordinal + 1 = n + 2 /\ c.ordinal + 1 \in 1..(MaxOrdinal + 1)
    <3>1. c.ordinal \in Nat /\ n \in Nat /\ c.ordinal = n + 1 /\ c.ordinal <= MaxOrdinal
      BY <1>1, <1>2, <1>3, <1>4, MemoryAssumption
    <3> HIDE DEF n
    <3> QED
      BY <3>1, MemoryAssumption
  <2>2. /\ next \in Claim /\ next.delivery = d0 /\ next.owner = c.owner
        /\ next.generation = c.generation /\ next.ordinal = c.ordinal + 1
    BY <1>3, <2>1 DEF Claim
  <2> QED
    BY <2>1, <2>2
<1> HIDE DEF entry, next
<1>7. /\ attempts'[d0] \in Seq(Attempt) /\ Len(attempts'[d0]) = n + 1
      /\ DOMAIN attempts'[d0] = 1..(n + 1)
      /\ attempts'[d0][n + 1] = entry
      /\ \A i \in 1..n : attempts'[d0][i] = attempts[d0][i]
      /\ \A d \in Delivery \ {d0} : attempts'[d] = attempts[d]
  <2>1. attempts'[d0] = Append(attempts[d0], entry)
    BY <1>1, <1>2 DEF IInv, TypeOK
  <2>2. \A d \in Delivery \ {d0} : attempts'[d] = attempts[d]
    BY <1>1 DEF IInv, TypeOK
  <2> QED
    BY <1>4, <1>5, <2>1, <2>2, Appended
<1>8. TypeOK'
  <2>1. attempts' \in [Delivery -> Seq(Attempt)]
    BY <1>1, <1>2, <1>7 DEF IInv, TypeOK
  <2> QED
    BY <1>1, <1>6, <2>1 DEF IInv, TypeOK
<1>9. MapsAgree'
  <2> SUFFICES ASSUME NEW d \in Delivery
      PROVE  /\ claims'[d] # NULL => In(d, "Pending")' /\ claims'[d].generation = generations'[d]
             /\ Exists(d)' <=> generations'[d] # NULL
             /\ Exists(d)' <=> nextEligibleAt'[d] # NULL
             /\ Exists(d)' <=> \E i \in DOMAIN order' : order'[i] = d
             /\ d \in events' \/ attempts'[d] # <<>> => Exists(d)'
    BY DEF MapsAgree
  <2>1. attempts'[d] # <<>> => Exists(d)
    BY <1>1, <1>7 DEF In, IInv, MapsAgree
  <2> QED
    BY <1>1, <2>1 DEF IInv, MapsAgree
<1>10. \A k \in held : k.delivery \in Delivery
  BY DEF IInv, TypeOK, Claim
<1>11. \A k \in held \ {c} : ~(k.delivery = d0 /\ k.generation = c.generation)
  BY DEF IInv, ClaimsTraceMaps
<1>12. ClaimsTraceMaps'
  <2>1. \A k \in held' :
          /\ Exists(k.delivery)'
          /\ k.generation <= generations'[k.delivery]
          /\ k.generation = generations'[k.delivery] =>
               /\ k.ordinal = Len(attempts'[k.delivery]) + 1
               /\ claims'[k.delivery] # NULL => claims'[k.delivery].owner = k.owner
    <3>1. ASSUME NEW k \in held \ {c}
          PROVE  /\ Exists(k.delivery)'
                 /\ k.generation <= generations'[k.delivery]
                 /\ k.generation = generations'[k.delivery] =>
                      /\ k.ordinal = Len(attempts'[k.delivery]) + 1
                      /\ claims'[k.delivery] # NULL => claims'[k.delivery].owner = k.owner
      <4>1. k.generation = generations[k.delivery] => k.delivery # d0
        BY <1>2, <1>11
      <4> QED
        BY <1>1, <1>7, <1>10, <4>1 DEF IInv, ClaimsTraceMaps
    <3>2. /\ Exists(next.delivery)'
          /\ next.generation <= generations'[next.delivery]
          /\ next.ordinal = Len(attempts'[next.delivery]) + 1
          /\ claims'[next.delivery] # NULL => claims'[next.delivery].owner = next.owner
      BY <1>1, <1>2, <1>3, <1>4, <1>6, <1>7 DEF In
    <3> QED
      BY <1>1, <3>1, <3>2
  <2>2. \A k1, k2 \in held' :
          k1.delivery = k2.delivery /\ k1.generation = k2.generation => k1 = k2
    BY <1>1, <1>6, <1>11 DEF IInv, ClaimsTraceMaps
  <2>3. \A d \in Delivery : \A i \in DOMAIN attempts'[d] : attempts'[d][i].ordinal = i
    <3>1. \A i \in DOMAIN attempts'[d0] : attempts'[d0][i].ordinal = i
      <4>1. \A i \in 1..n : attempts[d0][i].ordinal = i
        BY <1>2, <1>4 DEF IInv, ClaimsTraceMaps
      <4>2. \A i \in 1..(n + 1) : i \in 1..n \/ i = n + 1
        BY <1>4
      <4> HIDE DEF d0, n
      <4> QED
        BY <1>5, <1>7, <4>1, <4>2
    <3> QED
      BY <1>7, <3>1 DEF IInv, ClaimsTraceMaps
  <2> QED
    BY <2>1, <2>2, <2>3 DEF ClaimsTraceMaps
<1>13. StaysOut
  BY <1>10 DEF StaysOut, Owns
<1> QED
  BY <1>8, <1>9, <1>12, <1>13 DEF IInv

LEMMA RecordRetryStep ==
  ASSUME IInv, NEW c \in held, NEW outcome \in Outcomes, NEW completed \in 0..MaxNow,
         NEW delay \in RetryDelays, RecordRetry(c, outcome, completed, delay)
  PROVE  IInv' /\ StaysOut
<1>1. /\ AppendAttempt(c, outcome, "RetryScheduled")
      /\ nextEligibleAt' = [nextEligibleAt EXCEPT ![c.delivery] = completed + delay]
      /\ UNCHANGED <<records, claims>>
  BY DEF RecordRetry
<1>2. In(c.delivery, "Pending") /\ c.delivery \in Delivery
  BY <1>1 DEF AppendAttempt, IInv, TypeOK, Claim
<1>3. completed + delay \in Nat /\ completed + delay # NULL
  BY MemoryAssumption, MemoryNullAssumption
<1>4. nextEligibleAt' \in [Delivery -> Nat \cup {NULL}]
  BY <1>1, <1>3 DEF IInv, TypeOK
<1>5. \A d \in Delivery : /\ Exists(d)' = Exists(d)
                          /\ In(d, "Pending")' = In(d, "Pending")
  BY <1>1 DEF Exists, In
<1>6. \A d \in Delivery : nextEligibleAt'[d] = NULL <=> nextEligibleAt[d] = NULL
  BY <1>1, <1>2, <1>3 DEF IInv, TypeOK, MapsAgree, In
<1>7. \A d \in Delivery : claims'[d] # NULL => In(d, "Pending")'
  BY <1>1, <1>5 DEF IInv, MapsAgree
<1>8. records' \in [Delivery -> Record \cup {NULL}] /\ claims' \in [Delivery -> StoredClaim \cup {NULL}]
  BY <1>1 DEF IInv, TypeOK
<1> QED
  BY <1>1, <1>4, <1>5, <1>6, <1>7, <1>8, AppendStep DEF AttemptDecisions

\* The Maps of records and claims after the claim of `d` has ended.
LEMMA EndedMaps ==
  ASSUME IInv, NEW d \in Delivery, Exists(d), NEW standing \in
           [state : DeliveryStates, status : {NULL, Status},
            reason : DeadLetterReasons \cup {NULL}],
         records' = [records EXCEPT ![d].standing = standing],
         claims' = [claims EXCEPT ![d] = NULL]
  PROVE  /\ records' \in [Delivery -> Record \cup {NULL}]
         /\ claims' \in [Delivery -> StoredClaim \cup {NULL}]
         /\ \A e \in Delivery :
              /\ Exists(e)' <=> Exists(e)
              /\ claims'[e] # NULL =>
                   /\ claims[e] # NULL
                   /\ In(e, "Pending")'
                   /\ claims'[e].owner = claims[e].owner
                   /\ claims'[e].generation = claims[e].generation
         /\ records'[d].standing = standing
<1>1. records[d] \in Record
  BY DEF IInv, TypeOK, Exists
<1>2. [records[d] EXCEPT !.standing = standing] \in Record
  BY <1>1 DEF Record
<1>3. /\ records' = [records EXCEPT ![d] = [records[d] EXCEPT !.standing = standing]]
      /\ [records[d] EXCEPT !.standing = standing].standing = standing
  BY <1>1 DEF Record
<1> DEFINE r == [records[d] EXCEPT !.standing = standing]
<1> HIDE DEF r
<1>4. r \in Record /\ r # NULL /\ r.standing = standing /\ records' = [records EXCEPT ![d] = r]
  BY <1>2, <1>3, MemoryNullAssumption DEF r
<1>5. /\ records'[d] = r /\ claims'[d] = NULL
      /\ \A e \in Delivery \ {d} : records'[e] = records[e] /\ claims'[e] = claims[e]
  BY <1>4 DEF IInv, TypeOK
<1>6. /\ records' \in [Delivery -> Record \cup {NULL}]
      /\ claims' \in [Delivery -> StoredClaim \cup {NULL}]
  BY <1>4 DEF IInv, TypeOK
<1>7. \A e \in Delivery \ {d} : /\ Exists(e)' = Exists(e)
                                /\ In(e, "Pending")' = In(e, "Pending")
  BY <1>5 DEF Exists, In
<1>8. Exists(d)'
  BY <1>4, <1>5 DEF Exists
<1> QED
  BY <1>4, <1>5, <1>6, <1>7, <1>8 DEF IInv, MapsAgree

LEMMA RecordLastStep ==
  ASSUME IInv, NEW c \in held, NEW outcome \in Outcomes,
         NEW decision \in {"Terminal", "Exhausted"}, RecordLast(c, outcome, decision)
  PROVE  IInv' /\ StaysOut
<1>1. /\ AppendAttempt(c, outcome, decision)
      /\ records' = [records EXCEPT ![c.delivery].standing = Ended(outcome, decision)]
      /\ claims' = [claims EXCEPT ![c.delivery] = NULL]
      /\ UNCHANGED nextEligibleAt
  BY DEF RecordLast
<1>2. /\ c.delivery \in Delivery /\ Exists(c.delivery)
      /\ Recordable(outcome, decision) /\ outcome \in AttemptOutcomes
  BY <1>1, MemoryAssumption DEF AppendAttempt, IInv, TypeOK, Claim, In
<1>3. Ended(outcome, decision) \in
        [state : DeliveryStates, status : {NULL, Status},
         reason : DeadLetterReasons \cup {NULL}]
  BY <1>2, EndedStanding
<1>4. /\ records' \in [Delivery -> Record \cup {NULL}]
      /\ claims' \in [Delivery -> StoredClaim \cup {NULL}]
      /\ \A e \in Delivery :
           /\ Exists(e)' <=> Exists(e)
           /\ claims'[e] # NULL =>
                /\ claims[e] # NULL
                /\ In(e, "Pending")'
                /\ claims'[e].owner = claims[e].owner
                /\ claims'[e].generation = claims[e].generation
  BY <1>1, <1>2, <1>3, EndedMaps
<1>5. nextEligibleAt' \in [Delivery -> Nat \cup {NULL}]
  BY <1>1 DEF IInv, TypeOK
<1> QED
  BY <1>1, <1>4, <1>5, AppendStep DEF AttemptDecisions

-------------------------------------------------------------------------------
(* The operations that leave the histories alone.                          *)

LEMMA RenewStep ==
  ASSUME IInv, NEW c \in held, RenewClaim(c)
  PROVE  IInv' /\ StaysOut
<1> DEFINE claim == [owner |-> c.owner, generation |-> c.generation,
                     lease |-> now + LeaseDuration]
<1>1. /\ Owns(c)
      /\ claims' = [claims EXCEPT ![c.delivery] = claim]
      /\ UNCHANGED <<now, events, records, order, generations, attempts,
                     nextEligibleAt, held>>
  BY DEF RenewClaim, OwnsNow
<1>2. c.delivery \in Delivery /\ c.owner \in Worker /\ c.generation \in 1..MaxGeneration
  BY DEF IInv, TypeOK, Claim
<1>3. claim \in StoredClaim /\ claim.owner = c.owner /\ claim.generation = c.generation
  BY <1>2, MemoryAssumption DEF IInv, TypeOK, StoredClaim
<1> HIDE DEF claim
<1>4. claims' \in [Delivery -> StoredClaim \cup {NULL}]
  BY <1>1, <1>3 DEF IInv, TypeOK
<1>5. \A d \in Delivery : /\ Exists(d)' = Exists(d)
                          /\ In(d, "Pending")' = In(d, "Pending")
  BY <1>1 DEF Exists, In
<1>6. \A d \in Delivery :
        claims'[d] # NULL =>
          /\ claims[d] # NULL
          /\ claims'[d].owner = claims[d].owner
          /\ claims'[d].generation = claims[d].generation
  BY <1>1, <1>2, <1>3 DEF IInv, TypeOK, Owns
<1>7. \A d \in Delivery : claims[d] # NULL => In(d, "Pending")
  BY DEF IInv, MapsAgree
<1>8. /\ now' \in 0..MaxNow
      /\ records' \in [Delivery -> Record \cup {NULL}]
      /\ nextEligibleAt' \in [Delivery -> Nat \cup {NULL}]
  BY <1>1 DEF IInv, TypeOK
<1> QED
  BY <1>1, <1>4, <1>5, <1>6, <1>7, <1>8, QuietStep

LEMMA ReleaseStep ==
  ASSUME IInv, NEW c \in held, ReleaseClaim(c)
  PROVE  IInv' /\ StaysOut
<1>1. /\ claims' = [claims EXCEPT ![c.delivery] = NULL]
      /\ UNCHANGED <<now, events, records, order, generations, attempts,
                     nextEligibleAt, held>>
  BY DEF ReleaseClaim
<1>2. \A d \in Delivery : claims'[d] = claims[d] \/ claims'[d] = NULL
  BY <1>1 DEF IInv, TypeOK
<1>3. \A d \in Delivery : /\ Exists(d)' = Exists(d)
                          /\ In(d, "Pending")' = In(d, "Pending")
  BY <1>1 DEF Exists, In
<1>4. /\ now' \in 0..MaxNow
      /\ records' \in [Delivery -> Record \cup {NULL}]
      /\ claims' \in [Delivery -> StoredClaim \cup {NULL}]
      /\ nextEligibleAt' \in [Delivery -> Nat \cup {NULL}]
  BY <1>1 DEF IInv, TypeOK
<1>5. \A d \in Delivery : claims[d] # NULL => In(d, "Pending")
  BY DEF IInv, MapsAgree
<1> QED
  BY <1>1, <1>2, <1>3, <1>4, <1>5, QuietStep

\* A delivery is given a new standing and its claim, if it has one, ends.
LEMMA SettleStep ==
  ASSUME IInv, NEW d \in Delivery, Exists(d), NEW standing \in
           [state : DeliveryStates, status : {NULL, Status},
            reason : DeadLetterReasons \cup {NULL}],
         records' = [records EXCEPT ![d].standing = standing],
         claims' = [claims EXCEPT ![d] = NULL],
         nextEligibleAt' = nextEligibleAt \/ nextEligibleAt' = [nextEligibleAt EXCEPT ![d] = now],
         UNCHANGED <<now, events, order, generations, attempts, held>>
  PROVE  IInv' /\ StaysOut
<1>1. /\ records' \in [Delivery -> Record \cup {NULL}]
      /\ claims' \in [Delivery -> StoredClaim \cup {NULL}]
      /\ \A e \in Delivery :
           /\ Exists(e)' <=> Exists(e)
           /\ claims'[e] # NULL =>
                /\ claims[e] # NULL
                /\ In(e, "Pending")'
                /\ claims'[e].owner = claims[e].owner
                /\ claims'[e].generation = claims[e].generation
  BY EndedMaps
<1>2. now \in 0..MaxNow /\ now \in Nat /\ now # NULL
  BY MemoryAssumption, MemoryNullAssumption DEF IInv, TypeOK
<1>3. nextEligibleAt' \in [Delivery -> Nat \cup {NULL}]
  BY <1>2 DEF IInv, TypeOK
<1>4. nextEligibleAt[d] # NULL
  BY DEF IInv, MapsAgree
<1>5. \A e \in Delivery : nextEligibleAt'[e] = NULL <=> nextEligibleAt[e] = NULL
  BY <1>2, <1>4 DEF IInv, TypeOK
<1> QED
  BY <1>1, <1>2, <1>3, <1>5, QuietStep

LEMMA CompleteStep ==
  ASSUME IInv, NEW c \in held, NEW result \in Completions, CompleteClaim(c, result)
  PROVE  IInv' /\ StaysOut
<1>1. c.delivery \in Delivery /\ Exists(c.delivery)
  BY DEF IInv, TypeOK, Claim, CompleteClaim, In
<1> QED
  BY <1>1, ResultStanding, SettleStep DEF CompleteClaim

LEMMA ReopenStep ==
  ASSUME IInv, NEW d \in Delivery, Reopen(d)
  PROVE  IInv' /\ StaysOut
BY PendingTyped, SettleStep DEF Reopen, In

LEMMA TerminateStep ==
  ASSUME IInv, NEW d \in Delivery, TerminateDeadLetter(d)
  PROVE  IInv' /\ StaysOut
<1>1. Standing("Terminated", NULL, NULL) \in
        [state : DeliveryStates, status : {NULL, Status},
         reason : DeadLetterReasons \cup {NULL}]
  BY DEF Standing, DeliveryStates
<1> QED
  BY <1>1, SettleStep DEF TerminateDeadLetter, In

LEMMA SetClockStep == IInv /\ SetClock => IInv' /\ StaysOut
<1> SUFFICES ASSUME IInv, SetClock PROVE IInv' /\ StaysOut
  OBVIOUS
<1>1. /\ now' \in 0..MaxNow
      /\ UNCHANGED <<events, records, order, generations, claims, attempts,
                     nextEligibleAt, held>>
  BY DEF SetClock, maps
<1>2. \A d \in Delivery : /\ Exists(d)' = Exists(d)
                          /\ In(d, "Pending")' = In(d, "Pending")
  BY <1>1 DEF Exists, In
<1>3. \A d \in Delivery : claims[d] # NULL => In(d, "Pending")
  BY DEF IInv, MapsAgree
<1>4. /\ records' \in [Delivery -> Record \cup {NULL}]
      /\ claims' \in [Delivery -> StoredClaim \cup {NULL}]
      /\ nextEligibleAt' \in [Delivery -> Nat \cup {NULL}]
  BY <1>1 DEF IInv, TypeOK
<1> QED
  BY <1>1, <1>2, <1>3, <1>4, QuietStep

LEMMA NextStep == IInv /\ [Next]_vars => IInv' /\ StaysOut
<1> SUFFICES ASSUME IInv, [Next]_vars PROVE IInv' /\ StaysOut
  OBVIOUS
<1>1. ASSUME NEW d \in Delivery, NEW dest \in Destination, Save(d, dest)
      PROVE IInv' /\ StaysOut
  BY <1>1, SaveStep
<1>2. ASSUME NEW d \in Delivery, NEW dest \in Destination, NEW w \in Worker,
             SavePending(d, dest, w) \/ Accept(d, dest, w)
      PROVE IInv' /\ StaysOut
  <2>1. PICK eligible \in 0..MaxNow : InsertClaimed(d, dest, w, eligible)
    BY <1>2 DEF SavePending, Accept, IInv, TypeOK
  <2> QED
    BY <2>1, InsertClaimedStep
<1>3. ASSUME NEW w \in Worker, NEW dest \in Destination, NEW S \in Batches(dest),
             ClaimPending(w, dest, S)
      PROVE IInv' /\ StaysOut
  BY <1>3, ClaimPendingStep
<1>4. ASSUME NEW c \in held, RenewClaim(c) \/ ReleaseClaim(c) PROVE IInv' /\ StaysOut
  BY <1>4, RenewStep, ReleaseStep
<1>5. ASSUME NEW c \in held, NEW outcome \in Outcomes, RecordAttempt(c, outcome)
      PROVE IInv' /\ StaysOut
  BY <1>5, RecordRetryStep, RecordLastStep DEF RecordAttempt
<1>6. ASSUME NEW c \in held, NEW result \in Completions, CompleteClaim(c, result)
      PROVE IInv' /\ StaysOut
  BY <1>6, CompleteStep
<1>7. ASSUME NEW d \in Delivery, RetryDeadLetter(d) \/ TerminateDeadLetter(d)
      PROVE IInv' /\ StaysOut
  BY <1>7, ReopenStep, TerminateStep DEF RetryDeadLetter
<1>8. ASSUME NEW d \in Delivery, NEW dest \in Destination, RepairDeadLetter(d, dest)
      PROVE IInv' /\ StaysOut
  BY <1>8, ReopenStep DEF RepairDeadLetter
<1>9. CASE SetClock
  BY <1>9, SetClockStep
<1>10. CASE UNCHANGED vars
  <2>1. UNCHANGED <<now, events, records, order, generations, claims, attempts,
                    nextEligibleAt, held>>
    BY <1>10 DEF vars, maps
  <2> QED
    BY <2>1 DEF IInv, TypeOK, MapsAgree, ClaimsTraceMaps, Exists, In, StaysOut, Owns
<1> QED
  BY <1>1, <1>2, <1>3, <1>4, <1>5, <1>6, <1>7, <1>8, <1>9, <1>10 DEF Next

\* Every reachable state satisfies the inductive invariant.
THEOREM Inductive == Spec => []IInv
<1>1. IInv /\ [Next]_vars => IInv'
  BY NextStep
<1> QED
  BY InitIInv, <1>1, PTL DEF Spec

\* TypeOK for any number of deliveries and workers.
THEOREM TypeCorrect == Spec => []TypeOK
<1>1. IInv => TypeOK
  BY DEF IInv
<1> QED
  BY Inductive, <1>1, PTL

\* The seven Maps never disagree on what a delivery is, for any history of calls.
THEOREM MapsAlwaysAgree == Spec => []MapsAgree
<1>1. IInv => MapsAgree
  BY DEF IInv
<1> QED
  BY Inductive, <1>1, PTL

\* No claim handed out is newer than the Map of generations says, and the newest counts
\* on from the end of its history.
THEOREM ClaimsTrace == Spec => []ClaimsTraceMaps
<1>1. IInv => ClaimsTraceMaps
  BY DEF IInv
<1> QED
  BY Inductive, <1>1, PTL

\* A claim whose lease has ended gets no other lease, so only the clock brings it back.
LEMMA LapsedStaysLapsed ==
  ASSUME IInv, [Next]_vars, NEW c \in held, Owns(c), Owns(c)', ~OwnsNow(c), OwnsNow(c)'
  PROVE  now' < now
<1> DEFINE d == c.delivery
<1>1. /\ d \in Delivery /\ Exists(d)
      /\ claims \in [Delivery -> StoredClaim \cup {NULL}]
      /\ claims[d] # NULL /\ claims[d].generation = c.generation
      /\ claims[d].generation = generations[d]
  BY DEF IInv, TypeOK, Claim, MapsAgree, In, Owns
<1>2. /\ claims[d].lease \in Nat /\ ~(claims[d].lease > now) /\ now \in Nat
      /\ claims'[d].lease > now' /\ claims'[d] # NULL
      /\ claims'[d].generation = c.generation
  BY <1>1, MemoryAssumption DEF IInv, TypeOK, StoredClaim, Owns, OwnsNow
<1>3. ASSUME now' = now, claims'[d] = claims[d] PROVE FALSE
  BY <1>2, <1>3
<1>4. ASSUME NEW e, now' = now, claims' = claims \/ claims' = [claims EXCEPT ![e] = NULL]
      PROVE  FALSE
  BY <1>1, <1>2, <1>3, <1>4
<1>5. ASSUME NEW e \in Delivery, NEW dest \in Destination, Save(e, dest) PROVE FALSE
  BY <1>4, <1>5 DEF Save, Insert
<1>6. ASSUME NEW e \in Delivery, NEW dest \in Destination, NEW w \in Worker,
             SavePending(e, dest, w) \/ Accept(e, dest, w)
      PROVE  FALSE
  <2>1. PICK eligible : InsertClaimed(e, dest, w, eligible)
    BY <1>6 DEF SavePending, Accept
  <2>2. e # d
    BY <1>1, <2>1 DEF InsertClaimed
  <2> QED BY <1>1, <1>3, <2>1, <2>2 DEF InsertClaimed, Insert
<1>7. ASSUME NEW w \in Worker, NEW dest \in Destination, NEW S \in Batches(dest),
             ClaimPending(w, dest, S)
      PROVE  FALSE
  <2>1. CASE d \in S
    <3>1. claims'[d].generation = Generation(d) + 1
      BY <1>1, <1>7, <2>1 DEF ClaimPending
    <3>2. Generation(d) = c.generation /\ c.generation \in Nat
      BY <1>1, MemoryAssumption, MemoryNullAssumption
         DEF Generation, IInv, TypeOK, Claim, MapsAgree
    <3> QED BY <1>2, <3>1, <3>2
  <2>2. CASE d \notin S
    BY <1>1, <1>3, <1>7, <2>2 DEF ClaimPending
  <2> QED BY <2>1, <2>2
<1>8. ASSUME NEW e \in held, RenewClaim(e) PROVE FALSE
  <2>1. CASE e.delivery = d
    BY <1>2, <1>8, <2>1 DEF RenewClaim, OwnsNow
  <2>2. CASE e.delivery # d
    BY <1>1, <1>3, <1>8, <2>2 DEF RenewClaim
  <2> QED BY <2>1, <2>2
<1>9. ASSUME NEW e \in held, ReleaseClaim(e) PROVE FALSE
  BY <1>4, <1>9 DEF ReleaseClaim
<1>10. ASSUME NEW e \in held, NEW outcome \in Outcomes, RecordAttempt(e, outcome) PROVE FALSE
  BY <1>4, <1>10 DEF RecordAttempt, RecordRetry, RecordLast, AppendAttempt
<1>11. ASSUME NEW e \in held, NEW result \in Completions, CompleteClaim(e, result) PROVE FALSE
  BY <1>4, <1>11 DEF CompleteClaim
<1>12. ASSUME NEW e \in Delivery, Reopen(e) \/ TerminateDeadLetter(e) PROVE FALSE
  BY <1>4, <1>12 DEF Reopen, TerminateDeadLetter
<1>13. CASE SetClock
  <2>1. now' \in Nat /\ claims' = claims
    BY <1>13, MemoryAssumption DEF SetClock, maps
  <2> QED BY <1>2, <2>1
<1>14. CASE UNCHANGED vars
  BY <1>3, <1>14 DEF vars, maps
<1> QED
  BY <1>5, <1>6, <1>7, <1>8, <1>9, <1>10, <1>11, <1>12, <1>13, <1>14
     DEF Next, RetryDeadLetter, RepairDeadLetter

\* A refusal by owns() stands, for any history of calls: for good when it was for the
\* owner or the generation, until the wall clock steps back when it was for the lease.
THEOREM RefusalsHold == Spec => RefusalsStand
<1>1. ASSUME IInv, [Next]_vars, NEW c \in held
      PROVE  /\ Owns(c)' => Owns(c)
             /\ OwnsNow(c)' /\ ~OwnsNow(c) => now' < now
  <2>1. Owns(c)' => Owns(c)
    BY <1>1, NextStep DEF StaysOut
  <2>2. OwnsNow(c)' => Owns(c)'
    BY DEF OwnsNow
  <2> QED BY <1>1, <2>1, <2>2, LapsedStaysLapsed
<1>2. IInv /\ [Next]_vars =>
        [\A c \in held : /\ Owns(c)' => Owns(c)
                         /\ OwnsNow(c)' /\ ~OwnsNow(c) => now' < now]_vars
  BY <1>1
<1> QED
  BY Inductive, <1>2, PTL DEF Spec, RefusalsStand

-------------------------------------------------------------------------------
(* The history of a delivery, over all the claims it ever had.             *)

\* What a later attempt of a delivery says of an earlier one.
Follows(b, a) ==
  /\ a.generation <= b.generation
  /\ a.generation = b.generation => a.owner = b.owner /\ a.decision = "RetryScheduled"

\* Attempts were stored in the order of the claims that stored them, and under one claim
\* only a scheduled retry is followed by another attempt.
InClaimOrder ==
  \A d \in Delivery : \A i, j \in DOMAIN attempts[d] :
    i < j => Follows(attempts[d][j], attempts[d][i])

\* An answer that delivers or rejects is the last attempt, and the record says the same.
AnswersLast ==
  \A d \in Delivery : \A i \in DOMAIN attempts[d] :
    attempts[d][i].outcome \in {"Delivered", "Rejected"} =>
      i = Len(attempts[d]) /\ In(d, attempts[d][i].outcome)

\* What they rest on: no attempt is of a later generation than the Map says, and while the
\* claim of a delivery runs, nothing but scheduled retries was stored under it.
MapsLead ==
  \A d \in Delivery : \A i \in DOMAIN attempts[d] :
    LET a == attempts[d][i]
    IN  /\ a.generation <= generations[d]
        /\ a.generation = generations[d] /\ claims[d] # NULL =>
             a.decision = "RetryScheduled" /\ a.owner = claims[d].owner

HistoryInv == InClaimOrder /\ AnswersLast /\ MapsLead

\* The attempt that puts a delivery in a state.
Closes(a, state) ==
  IF state = "DeadLettered" THEN a.decision = "Exhausted" \/ a.outcome = "ProtocolFailure"
  ELSE a.outcome = state

Closed(d) ==
  Exists(d) /\ records[d].standing.state \in {"Delivered", "Rejected", "DeadLettered"}

\* No record is closed for a reason its history does not give: the last attempt closed it.
RecordsTold ==
  \A d \in Delivery : Closed(d) =>
    /\ attempts[d] # <<>>
    /\ Closes(attempts[d][Len(attempts[d])], records[d].standing.state)

\* How a step that stores no attempt may touch a delivery: it leaves an answered record
\* alone, and gives the delivery to nobody but under a new generation.
Quiet(d) ==
  /\ In(d, "Delivered") \/ In(d, "Rejected") => records'[d] = records[d]
  /\ \/ /\ generations'[d] = generations[d]
        /\ claims'[d] # NULL => claims[d] # NULL /\ claims'[d].owner = claims[d].owner
     \/ generations'[d] = generations[d] + 1

\* A claim is ended together with a new standing for a delivery that was not answered.
LEMMA SettledQuiet ==
  ASSUME IInv, NEW d \in Delivery, ~In(d, "Delivered"), ~In(d, "Rejected"), NEW standing,
         records' = [records EXCEPT ![d].standing = standing],
         claims' = [claims EXCEPT ![d] = NULL], generations' = generations,
         NEW e \in Delivery
  PROVE  Quiet(e)
<1>1. records \in [Delivery -> Record \cup {NULL}] /\ claims \in [Delivery -> StoredClaim \cup {NULL}]
  BY DEF IInv, TypeOK
<1>2. claims'[e] # NULL => claims'[e] = claims[e]
  BY <1>1
<1>3. CASE e = d
  BY <1>2, <1>3 DEF Quiet, In
<1>4. CASE e # d
  <2>1. records'[e] = records[e]
    BY <1>1, <1>4
  <2> QED
    BY <1>2, <2>1 DEF Quiet
<1> QED
  BY <1>3, <1>4

\* Every step that stores no attempt is quiet, and without results from outside none of
\* them closes a record.
LEMMA OtherSteps ==
  ASSUME IInv, [Next]_vars, ~(\E c \in held, outcome \in Outcomes : RecordAttempt(c, outcome)),
         NEW d \in Delivery
  PROVE  /\ attempts' = attempts
         /\ Exists(d) => Quiet(d)
         /\ Completions = {} /\ Closed(d)' => Closed(d) /\ records'[d] = records[d]
<1> DEFINE Goal == /\ attempts' = attempts
                   /\ Exists(d) => Quiet(d)
                   /\ Completions = {} /\ Closed(d)' => Closed(d) /\ records'[d] = records[d]
<1>1. /\ records \in [Delivery -> Record \cup {NULL}]
      /\ claims \in [Delivery -> StoredClaim \cup {NULL}]
      /\ generations \in [Delivery -> (0..MaxGeneration) \cup {NULL}]
      /\ \A c \in held : c.delivery \in Delivery
  BY DEF IInv, TypeOK, Claim
<1>2. ASSUME records' = records PROVE Closed(d)' => Closed(d) /\ records'[d] = records[d]
  BY <1>2 DEF Closed, Exists
<1>3. ASSUME NEW e \in Delivery, NEW dest \in Destination, ~Exists(e),
             records' = [records EXCEPT ![e] = [standing |-> PendingStanding,
                                                destination |-> dest]],
             \A f \in Delivery \ {e} : claims'[f] = claims[f] /\ generations'[f] = generations[f],
             attempts' = attempts
      PROVE  Goal
  <2>1. CASE d = e
    <3>1. records'[d].standing.state = "Pending"
      BY <1>1, <1>3, <2>1, PendingTyped
    <3> QED
      BY <1>3, <2>1, <3>1 DEF Closed
  <2>2. CASE d # e
    <3>1. records'[d] = records[d] /\ claims'[d] = claims[d] /\ generations'[d] = generations[d]
      BY <1>1, <1>3, <2>2
    <3> QED
      BY <1>3, <3>1 DEF Quiet, Closed, Exists
  <2> QED
    BY <2>1, <2>2
<1>4. ASSUME NEW e \in Delivery, NEW dest \in Destination, Save(e, dest) PROVE Goal
  BY <1>1, <1>3, <1>4 DEF Save, Insert
<1>5. ASSUME NEW e \in Delivery, NEW dest \in Destination, NEW w \in Worker,
             SavePending(e, dest, w) \/ Accept(e, dest, w)
      PROVE  Goal
  <2>1. PICK eligible \in 0..MaxNow : InsertClaimed(e, dest, w, eligible)
    BY <1>5 DEF SavePending, Accept, IInv, TypeOK
  <2> QED
    BY <1>1, <1>3, <2>1 DEF InsertClaimed, Insert
<1>6. ASSUME NEW w \in Worker, NEW dest \in Destination, NEW S \in Batches(dest),
             ClaimPending(w, dest, S)
      PROVE  Goal
  <2>1. /\ records' = records /\ attempts' = attempts
        /\ \A e \in S : In(e, "Pending")
    BY <1>6 DEF ClaimPending, Batches, Claimable
  <2>2. CASE d \in S
    <3>1. generations'[d] = Generation(d) + 1 /\ Exists(d)
      BY <1>6, <2>1, <2>2 DEF ClaimPending, In
    <3>2. Generation(d) = generations[d]
      BY <3>1 DEF IInv, MapsAgree, Generation
    <3> QED
      BY <1>2, <2>1, <3>1, <3>2 DEF Quiet
  <2>3. CASE d \notin S
    <3>1. generations'[d] = generations[d] /\ claims'[d] = claims[d]
      BY <1>6, <2>3 DEF ClaimPending
    <3> QED
      BY <1>2, <2>1, <3>1 DEF Quiet
  <2> QED
    BY <2>2, <2>3
<1>7. ASSUME NEW c \in held, RenewClaim(c) PROVE Goal
  <2>1. /\ records' = records /\ attempts' = attempts /\ generations' = generations
        /\ OwnsNow(c)
        /\ claims' = [claims EXCEPT ![c.delivery] =
             [owner |-> c.owner, generation |-> c.generation, lease |-> now + LeaseDuration]]
    BY <1>7 DEF RenewClaim
  <2>2. claims'[d] # NULL => claims[d] # NULL /\ claims'[d].owner = claims[d].owner
    BY <1>1, <2>1 DEF OwnsNow, Owns
  <2> QED
    BY <1>2, <2>1, <2>2 DEF Quiet
<1>8. ASSUME NEW c \in held, ReleaseClaim(c) PROVE Goal
  <2>1. /\ records' = records /\ attempts' = attempts /\ generations' = generations
        /\ claims' = [claims EXCEPT ![c.delivery] = NULL]
    BY <1>8 DEF ReleaseClaim
  <2>2. claims'[d] # NULL => claims[d] # NULL /\ claims'[d].owner = claims[d].owner
    BY <1>1, <2>1
  <2> QED
    BY <1>2, <2>1, <2>2 DEF Quiet
<1>9. ASSUME NEW c \in held, NEW result \in Completions, CompleteClaim(c, result) PROVE Goal
  <2> DEFINE standing == DeliveryStateFromResult(result, Status)
  <2>1. /\ ~In(c.delivery, "Delivered") /\ ~In(c.delivery, "Rejected") /\ c.delivery \in Delivery
        /\ records' = [records EXCEPT ![c.delivery].standing = standing]
        /\ claims' = [claims EXCEPT ![c.delivery] = NULL]
        /\ generations' = generations /\ attempts' = attempts
    BY <1>1, <1>9 DEF CompleteClaim, In
  <2> HIDE DEF standing
  <2>2. Quiet(d)
    BY <2>1, SettledQuiet
  <2> QED
    BY <1>9, <2>1, <2>2
<1>10. ASSUME NEW e \in Delivery, NEW standing, In(e, "DeadLettered"),
              records' = [records EXCEPT ![e].standing = standing],
              standing.state \in {"Pending", "Terminated"},
              claims' = [claims EXCEPT ![e] = NULL], generations' = generations,
              attempts' = attempts
       PROVE  Goal
  <2>1. Quiet(d)
    BY <1>10, SettledQuiet DEF In
  <2>2. CASE d = e
    <3>1. records[e] \in Record
      BY <1>1, <1>10 DEF In, Exists
    <3>2. records'[e].standing = standing
      BY <1>1, <1>10, <3>1 DEF Record
    <3> QED
      BY <1>10, <2>1, <2>2, <3>2 DEF Closed
  <2>3. CASE d # e
    <3>1. records'[d] = records[d]
      BY <1>1, <1>10, <2>3
    <3> QED
      BY <1>10, <2>1, <3>1 DEF Closed, Exists
  <2> QED
    BY <2>2, <2>3
<1>11. ASSUME NEW e \in Delivery, Reopen(e) PROVE Goal
  <2>1. PendingStanding.state = "Pending"
    BY DEF PendingStanding, Standing
  <2> QED
    BY <1>10, <1>11, <2>1 DEF Reopen
<1>12. ASSUME NEW e \in Delivery, TerminateDeadLetter(e) PROVE Goal
  <2>1. Standing("Terminated", NULL, NULL).state = "Terminated"
    BY DEF Standing
  <2> QED
    BY <1>10, <1>12, <2>1 DEF TerminateDeadLetter
<1>13. ASSUME SetClock \/ UNCHANGED vars PROVE Goal
  <2>1. UNCHANGED <<records, claims, generations, attempts>>
    BY <1>13 DEF SetClock, vars, maps
  <2> QED
    BY <1>2, <2>1 DEF Quiet
<1> HIDE DEF Goal
<1>14. ASSUME \E e \in Delivery : RetryDeadLetter(e) \/ TerminateDeadLetter(e) PROVE Goal
  BY <1>11, <1>12, <1>14 DEF RetryDeadLetter
<1>15. ASSUME \E e \in Delivery, dest \in Destination : RepairDeadLetter(e, dest) PROVE Goal
  BY <1>11, <1>15 DEF RepairDeadLetter
<1>16. ASSUME \E w \in Worker, dest \in Destination : \E S \in Batches(dest) :
                ClaimPending(w, dest, S)
       PROVE  Goal
  BY <1>6, <1>16
<1>17. ASSUME \E c \in held : RenewClaim(c) \/ ReleaseClaim(c) PROVE Goal
  BY <1>7, <1>8, <1>17
<1>18. ASSUME \E c \in held, result \in Completions : CompleteClaim(c, result) PROVE Goal
  BY <1>9, <1>18
<1>19. Goal
  BY <1>4, <1>5, <1>13, <1>14, <1>15, <1>16, <1>17, <1>18 DEF Next
<1> QED
  BY <1>19 DEF Goal

LEMMA HistoryTyped ==
  ASSUME IInv, NEW d \in Delivery
  PROVE  /\ Len(attempts[d]) \in Nat /\ DOMAIN attempts[d] = 1..Len(attempts[d])
         /\ \A i \in DOMAIN attempts[d] : Exists(d) /\ attempts[d][i].generation \in Nat
         /\ Exists(d) => generations[d] \in Nat
<1>1. attempts[d] \in Seq(Attempt)
  BY DEF IInv, TypeOK
<1>2. \A i \in DOMAIN attempts[d] : attempts[d][i] \in Attempt
  BY <1>1
<1>3. \A i \in DOMAIN attempts[d] : attempts[d] # <<>>
  BY <1>1
<1>4. Exists(d) => generations[d] \in Nat
  BY MemoryAssumption DEF IInv, TypeOK, MapsAgree
<1> QED
  BY <1>1, <1>2, <1>3, <1>4, MemoryAssumption DEF Attempt, IInv, MapsAgree

\* A quiet step keeps the histories.
LEMMA QuietKeepsHistory ==
  ASSUME IInv, HistoryInv, attempts' = attempts, \A d \in Delivery : Exists(d) => Quiet(d)
  PROVE  HistoryInv'
<1>1. InClaimOrder'
  BY DEF HistoryInv, InClaimOrder, Follows
<1>2. ASSUME NEW d \in Delivery, NEW i \in DOMAIN attempts[d],
             attempts[d][i].outcome \in {"Delivered", "Rejected"}
      PROVE  i = Len(attempts[d]) /\ In(d, attempts[d][i].outcome)'
  <2>1. i = Len(attempts[d]) /\ In(d, attempts[d][i].outcome) /\ Exists(d)
    BY <1>2, HistoryTyped DEF HistoryInv, AnswersLast
  <2>2. records'[d] = records[d]
    BY <1>2, <2>1 DEF Quiet
  <2> QED
    BY <2>1, <2>2 DEF In, Exists
<1>3. ASSUME NEW d \in Delivery, NEW i \in DOMAIN attempts[d]
      PROVE  /\ attempts[d][i].generation <= generations'[d]
             /\ attempts[d][i].generation = generations'[d] /\ claims'[d] # NULL =>
                  /\ attempts[d][i].decision = "RetryScheduled"
                  /\ attempts[d][i].owner = claims'[d].owner
  <2> DEFINE a == attempts[d][i]
  <2>1. Exists(d) /\ a.generation \in Nat /\ generations[d] \in Nat /\ Quiet(d)
    BY <1>3, HistoryTyped
  <2>2. /\ a.generation <= generations[d]
        /\ a.generation = generations[d] /\ claims[d] # NULL =>
             a.decision = "RetryScheduled" /\ a.owner = claims[d].owner
    BY DEF HistoryInv, MapsLead
  <2> HIDE DEF a
  <2>3. /\ a.generation <= generations'[d]
        /\ a.generation = generations'[d] /\ claims'[d] # NULL =>
             a.decision = "RetryScheduled" /\ a.owner = claims'[d].owner
    BY <2>1, <2>2 DEF Quiet
  <2> QED
    BY <2>3 DEF a
<1>4. AnswersLast'
  BY <1>2 DEF AnswersLast
<1>5. MapsLead'
  BY <1>3 DEF MapsLead
<1> QED
  BY <1>1, <1>4, <1>5 DEF HistoryInv

LEMMA AppendFollows ==
  ASSUME NEW h \in Seq(Attempt), NEW e,
         \A i, j \in DOMAIN h : i < j => Follows(h[j], h[i]),
         \A i \in DOMAIN h : Follows(e, h[i])
  PROVE  \A i, j \in DOMAIN Append(h, e) :
           i < j => Follows(Append(h, e)[j], Append(h, e)[i])
<1> DEFINE g == Append(h, e)
           n == Len(h)
<1>1. /\ n \in Nat /\ DOMAIN h = 1..n /\ DOMAIN g = 1..(n + 1) /\ g[n + 1] = e
      /\ \A i \in 1..n : g[i] = h[i]
  OBVIOUS
<1> HIDE DEF g, n
<1>2. ASSUME NEW i \in 1..(n + 1), NEW j \in 1..(n + 1), i < j PROVE Follows(g[j], g[i])
  <2>1. i \in 1..n /\ (j = n + 1 \/ j \in 1..n)
    BY <1>1, <1>2
  <2> QED
    BY <1>1, <1>2, <2>1
<1>3. \A i, j \in DOMAIN g : i < j => Follows(g[j], g[i])
  BY <1>1, <1>2
<1> QED
  BY <1>3 DEF g

\* An attempt is stored after the others of its claim, and closes what it ends.
LEMMA AppendKeepsHistory ==
  ASSUME IInv, HistoryInv, NEW c \in held, NEW outcome \in Outcomes,
         NEW decision \in AttemptDecisions, AppendAttempt(c, outcome, decision),
         \/ decision = "RetryScheduled" /\ UNCHANGED <<records, claims>>
         \/ /\ decision # "RetryScheduled"
            /\ records' = [records EXCEPT ![c.delivery].standing = Ended(outcome, decision)]
            /\ claims' = [claims EXCEPT ![c.delivery] = NULL]
  PROVE  HistoryInv' /\ (RecordsTold => RecordsTold')
<1> DEFINE D == c.delivery
           h == attempts[D]
           n == Len(h)
           entry == AttemptEntry(c, outcome, decision)
           standing == Ended(outcome, decision)
<1>1. /\ In(D, "Pending") /\ Owns(c) /\ Recordable(outcome, decision)
      /\ attempts' = [attempts EXCEPT ![D] = Append(h, entry)]
      /\ generations' = generations
      /\ outcome \in AttemptOutcomes
  BY MemoryAssumption DEF AppendAttempt, OwnsNow
<1>2. /\ D \in Delivery /\ claims[D] # NULL /\ claims[D].owner = c.owner
      /\ c.generation = generations[D]
      /\ c.owner \in Worker /\ c.generation \in 1..MaxGeneration /\ c.ordinal = n + 1
      /\ attempts \in [Delivery -> Seq(Attempt)]
      /\ records \in [Delivery -> Record \cup {NULL}]
      /\ claims \in [Delivery -> StoredClaim \cup {NULL}]
  BY <1>1, OwnerIsNewest DEF IInv, TypeOK, Claim
<1>3. /\ entry.owner = c.owner /\ entry.generation = c.generation
      /\ entry.outcome = outcome /\ entry.decision = decision
  BY DEF AttemptEntry
<1>4. /\ n \in Nat /\ h \in Seq(Attempt)
      /\ attempts'[D] = Append(h, entry)
      /\ \A d \in Delivery : d # D => attempts'[d] = attempts[d]
  BY <1>1, <1>2
<1> HIDE DEF entry, standing
<1>5. /\ DOMAIN attempts'[D] = 1..(n + 1) /\ Len(attempts'[D]) = n + 1
      /\ attempts'[D][n + 1] = entry
      /\ \A i \in 1..n : attempts'[D][i] = h[i]
      /\ DOMAIN h = 1..n
  BY <1>4
<1>6. \A i \in 1..n : /\ h[i].generation \in Nat
                      /\ h[i].generation <= c.generation
                      /\ h[i].generation = c.generation =>
                           h[i].owner = c.owner /\ h[i].decision = "RetryScheduled"
                      /\ h[i].outcome \notin {"Delivered", "Rejected"}
  <2>1. ASSUME NEW i \in 1..n PROVE /\ h[i].generation \in Nat
                                    /\ h[i].outcome \notin {"Delivered", "Rejected"}
    BY <1>1, <1>2, <1>5, <2>1, HistoryTyped DEF HistoryInv, AnswersLast, In
  <2> QED
    BY <1>2, <1>5, <2>1 DEF HistoryInv, MapsLead
<1>7. \A d \in Delivery : d # D => records'[d] = records[d] /\ claims'[d] = claims[d]
  BY <1>2
<1>8. decision # "RetryScheduled" =>
        /\ records'[D].standing = standing /\ records'[D] # NULL
        /\ claims'[D] = NULL
        /\ standing.state = IF decision = "Exhausted" \/ outcome = "ProtocolFailure"
                            THEN "DeadLettered" ELSE outcome
  <2> SUFFICES ASSUME decision # "RetryScheduled"
      PROVE  /\ records'[D].standing = standing /\ records'[D] # NULL
             /\ claims'[D] = NULL
             /\ standing.state = IF decision = "Exhausted" \/ outcome = "ProtocolFailure"
                                 THEN "DeadLettered" ELSE outcome
    OBVIOUS
  <2>1. decision \in {"Terminal", "Exhausted"}
    BY DEF AttemptDecisions
  <2>2. /\ records' = [records EXCEPT ![D].standing = standing]
        /\ claims' = [claims EXCEPT ![D] = NULL]
    BY DEF standing
  <2>3. records[D] \in Record
    BY <1>1, <1>2 DEF In, Exists
  <2>4. standing \in [state : DeliveryStates, status : {NULL, Status},
                      reason : DeadLetterReasons \cup {NULL}]
        /\ standing.state = IF decision = "Exhausted" \/ outcome = "ProtocolFailure"
                            THEN "DeadLettered" ELSE outcome
    BY <1>1, <2>1, EndedStanding DEF standing
  <2>5. records'[D] = [records[D] EXCEPT !.standing = standing] /\ claims'[D] = NULL
    BY <1>2, <2>2
  <2>6. records'[D].standing = standing /\ records'[D] \in Record
    BY <2>3, <2>4, <2>5 DEF Record
  <2> QED
    BY <2>4, <2>5, <2>6, MemoryNullAssumption
<1>9. IsRetryable(outcome) <=> decision \in {"RetryScheduled", "Exhausted"}
  <2> DEFINE a == AttemptRecord(outcome, Status, decision, 0, 0, 0)
  <2>1. a.outcome = outcome /\ a.decision = decision
    BY DEF AttemptRecord
  <2>2. IF a.decision = "Terminal" THEN ~IsRetryable(a.outcome) ELSE IsRetryable(a.outcome)
    BY <1>1 DEF Recordable, ConsistentRecord
  <2> HIDE DEF a
  <2> QED
    BY <2>1, <2>2 DEF AttemptDecisions
<1> HIDE DEF h, n, D
<1>10. InClaimOrder'
  <2>1. \A i \in DOMAIN h : Follows(entry, h[i])
    BY <1>3, <1>5, <1>6 DEF Follows
  <2>2. \A i, j \in DOMAIN h : i < j => Follows(h[j], h[i])
    BY <1>2 DEF HistoryInv, InClaimOrder, h
  <2>3. \A i, j \in DOMAIN attempts'[D] : i < j => Follows(attempts'[D][j], attempts'[D][i])
    BY <1>4, <2>1, <2>2, AppendFollows
  <2>4. ASSUME NEW d \in Delivery, d # D
        PROVE  \A i, j \in DOMAIN attempts'[d] : i < j => Follows(attempts'[d][j], attempts'[d][i])
    <3>1. attempts'[d] = attempts[d]
      BY <1>4, <2>4
    <3> QED
      BY <3>1 DEF HistoryInv, InClaimOrder
  <2>5. \A d \in Delivery : \A i, j \in DOMAIN attempts'[d] :
          i < j => Follows(attempts'[d][j], attempts'[d][i])
    BY <2>3, <2>4
  <2> QED
    BY <2>5 DEF InClaimOrder, Follows
<1>11. AnswersLast'
  <2>1. ASSUME NEW i \in DOMAIN attempts'[D], attempts'[D][i].outcome \in {"Delivered", "Rejected"}
        PROVE  /\ i = Len(attempts'[D]) /\ records'[D] # NULL
               /\ records'[D].standing.state = attempts'[D][i].outcome
    <3>1. i = n + 1 /\ attempts'[D][i].outcome = outcome
      BY <1>3, <1>4, <1>5, <1>6, <2>1
    <3>2. decision # "RetryScheduled" /\ decision # "Exhausted" /\ outcome # "ProtocolFailure"
      BY <1>9, <2>1, <3>1 DEF IsRetryable
    <3> QED
      BY <1>5, <1>8, <3>1, <3>2
  <2>2. ASSUME NEW d \in Delivery, d # D, NEW i \in DOMAIN attempts'[d],
               attempts'[d][i].outcome \in {"Delivered", "Rejected"}
        PROVE  /\ i = Len(attempts'[d]) /\ records'[d] # NULL
               /\ records'[d].standing.state = attempts'[d][i].outcome
    <3>1. attempts'[d] = attempts[d] /\ records'[d] = records[d]
      BY <1>4, <1>7, <2>2
    <3> QED
      BY <2>2, <3>1 DEF HistoryInv, AnswersLast, In, Exists
  <2>3. \A d \in Delivery : \A i \in DOMAIN attempts'[d] :
          attempts'[d][i].outcome \in {"Delivered", "Rejected"} =>
            /\ i = Len(attempts'[d]) /\ records'[d] # NULL
            /\ records'[d].standing.state = attempts'[d][i].outcome
    BY <2>1, <2>2
  <2> QED
    BY <2>3 DEF AnswersLast, In, Exists
<1>12. MapsLead'
  <2>1. ASSUME NEW i \in DOMAIN attempts'[D]
        PROVE  /\ attempts'[D][i].generation <= generations'[D]
               /\ attempts'[D][i].generation = generations'[D] /\ claims'[D] # NULL =>
                    /\ attempts'[D][i].decision = "RetryScheduled"
                    /\ attempts'[D][i].owner = claims'[D].owner
    <3>1. claims'[D] # NULL => decision = "RetryScheduled" /\ claims'[D] = claims[D]
      BY <1>8
    <3>2. i = n + 1 \/ i \in 1..n
      BY <1>4, <1>5
    <3>3. /\ attempts'[D][i].generation <= c.generation
          /\ attempts'[D][i].generation = c.generation =>
               /\ attempts'[D][i].owner = c.owner
               /\ attempts'[D][i].decision \in {decision, "RetryScheduled"}
      BY <1>2, <1>3, <1>5, <1>6, <3>2
    <3> QED
      BY <1>1, <1>2, <3>1, <3>3
  <2>2. ASSUME NEW d \in Delivery, d # D, NEW i \in DOMAIN attempts'[d]
        PROVE  /\ attempts'[d][i].generation <= generations'[d]
               /\ attempts'[d][i].generation = generations'[d] /\ claims'[d] # NULL =>
                    /\ attempts'[d][i].decision = "RetryScheduled"
                    /\ attempts'[d][i].owner = claims'[d].owner
    <3>1. attempts'[d] = attempts[d] /\ claims'[d] = claims[d] /\ generations'[d] = generations[d]
      BY <1>1, <1>4, <1>7, <2>2
    <3> QED
      BY <2>2, <3>1 DEF HistoryInv, MapsLead
  <2>3. \A d \in Delivery : \A i \in DOMAIN attempts'[d] :
          /\ attempts'[d][i].generation <= generations'[d]
          /\ attempts'[d][i].generation = generations'[d] /\ claims'[d] # NULL =>
               /\ attempts'[d][i].decision = "RetryScheduled"
               /\ attempts'[d][i].owner = claims'[d].owner
    BY <2>1, <2>2
  <2> QED
    BY <2>3 DEF MapsLead
<1>13. ASSUME RecordsTold PROVE RecordsTold'
  <2>1. ASSUME NEW d \in Delivery, Closed(d)'
        PROVE  /\ attempts'[d] # <<>>
               /\ Closes(attempts'[d][Len(attempts'[d])], records'[d].standing.state)
    <3>1. CASE d = D
      <4>1. decision # "RetryScheduled"
        BY <1>1, <2>1, <3>1 DEF Closed, In, Exists
      <4>2. Closes(entry, standing.state)
        BY <1>1, <1>3, <1>8, <4>1 DEF Closes, AttemptOutcomes
      <4>3. attempts'[D] # <<>>
        BY <1>4, <1>5
      <4> QED
        BY <1>5, <1>8, <3>1, <4>1, <4>2, <4>3
    <3>2. CASE d # D
      BY <1>4, <1>7, <1>13, <2>1, <3>2 DEF RecordsTold, Closed, Exists
    <3> QED
      BY <3>1, <3>2
  <2> QED
    BY <2>1 DEF RecordsTold, Closes
<1> QED
  BY <1>10, <1>11, <1>12, <1>13 DEF HistoryInv

\* Every step keeps the histories, and without results from outside the reasons.
LEMMA StepKeepsHistory ==
  ASSUME IInv, HistoryInv, [Next]_vars
  PROVE  HistoryInv' /\ (Completions = {} /\ RecordsTold => RecordsTold')
<1>1. ASSUME NEW c \in held, NEW outcome \in Outcomes, RecordAttempt(c, outcome)
      PROVE  HistoryInv' /\ (RecordsTold => RecordsTold')
  <2>1. PICK decision \in AttemptDecisions :
          /\ AppendAttempt(c, outcome, decision)
          /\ \/ decision = "RetryScheduled" /\ UNCHANGED <<records, claims>>
             \/ /\ decision # "RetryScheduled"
                /\ records' = [records EXCEPT ![c.delivery].standing =
                                Ended(outcome, decision)]
                /\ claims' = [claims EXCEPT ![c.delivery] = NULL]
    <3>1. CASE \E completed \in 0..MaxNow, delay \in RetryDelays :
                 RecordRetry(c, outcome, completed, delay)
      BY <3>1 DEF RecordRetry, AttemptDecisions
    <3>2. CASE \E decision \in {"Terminal", "Exhausted"} : RecordLast(c, outcome, decision)
      BY <3>2 DEF RecordLast, AttemptDecisions
    <3> QED BY <1>1, <3>1, <3>2 DEF RecordAttempt
  <2> QED BY <2>1, AppendKeepsHistory
<1>2. CASE ~(\E c \in held, outcome \in Outcomes : RecordAttempt(c, outcome))
  <2>1. \A d \in Delivery :
          /\ attempts' = attempts
          /\ Exists(d) => Quiet(d)
          /\ Completions = {} /\ Closed(d)' => Closed(d) /\ records'[d] = records[d]
    BY <1>2, OtherSteps
  <2>2. CASE attempts' = attempts
    BY <2>1, <2>2, QuietKeepsHistory DEF RecordsTold, Closes
  <2>3. CASE Delivery = {}
    BY <2>3 DEF HistoryInv, InClaimOrder, AnswersLast, MapsLead, RecordsTold
  <2> QED
    BY <2>1, <2>2, <2>3
<1> QED
  BY <1>1, <1>2

LEMMA InitHistory == Init => HistoryInv /\ RecordsTold
BY DEF Init, HistoryInv, InClaimOrder, AnswersLast, MapsLead, RecordsTold, Closed, Exists

\* The memory adapter keeps the histories that the tables keep, although no constraint
\* and no statement of a database orders its Maps.
THEOREM HistoryInOrder == Spec => [](InClaimOrder /\ AnswersLast)
<1>1. IInv /\ HistoryInv /\ [Next]_vars => HistoryInv'
  BY StepKeepsHistory
<1>2. Init => HistoryInv
  BY InitHistory
<1>3. HistoryInv => InClaimOrder /\ AnswersLast
  BY DEF HistoryInv
<1> QED
  BY Inductive, <1>1, <1>2, <1>3, PTL DEF Spec

\* Under the calls of the relay, which completes no claim, every closed record was closed
\* by the last attempt of its history.
THEOREM RecordsAreTold == Completions = {} /\ Spec => []RecordsTold
<1> SUFFICES ASSUME Completions = {} PROVE Spec => []RecordsTold
  OBVIOUS
<1>1. IInv /\ HistoryInv /\ RecordsTold /\ [Next]_vars => HistoryInv' /\ RecordsTold'
  BY StepKeepsHistory
<1>2. Init => HistoryInv /\ RecordsTold
  BY InitHistory
<1> QED
  BY Inductive, <1>1, <1>2, PTL DEF Spec

-------------------------------------------------------------------------------
(* The Maps implement the promised store.                                  *)

\* The store's variables as functions of the Maps.
States == [d \in Delivery |-> IF Exists(d) THEN records[d].standing.state ELSE "Absent"]
Holders == [d \in Delivery |-> IF claims[d] = NULL THEN NULL ELSE claims[d].owner]
Terms == [d \in Delivery |-> Generation(d)]
View(a) == [by |-> a.owner, term |-> a.generation, outcome |-> a.outcome,
            decision |-> a.decision]
Histories == [d \in Delivery |-> [i \in DOMAIN attempts[d] |-> View(attempts[d][i])]]

\* To append an attempt appends its view.
LEMMA ViewAppends ==
  ASSUME NEW h \in Seq(Attempt), NEW e \in Attempt
  PROVE  [i \in DOMAIN Append(h, e) |-> View(Append(h, e)[i])]
           = Append([i \in DOMAIN h |-> View(h[i])], View(e))
<1> DEFINE n == Len(h)
           g == [i \in DOMAIN h |-> View(h[i])]
           V == [by : Worker, term : 1..MaxGeneration, outcome : AttemptOutcomes,
                 decision : AttemptDecisions]
<1>1. n \in Nat /\ DOMAIN h = 1..n /\ \A i \in 1..n : h[i] \in Attempt
  OBVIOUS
<1>2. View(e) \in V /\ \A i \in 1..n : View(h[i]) \in V
  BY <1>1 DEF View, Attempt
<1> HIDE DEF V
<1>3. g \in [1..n -> V] /\ \A i \in 1..n : g[i] = View(h[i])
  BY <1>1, <1>2
<1>4. g \in Seq(V) /\ Len(g) = n
  BY <1>1, <1>3
<1> HIDE DEF g
<1>5. /\ Append(g, View(e)) \in [1..(n + 1) -> V]
      /\ Append(g, View(e))[n + 1] = View(e)
      /\ \A i \in 1..n : Append(g, View(e))[i] = g[i]
  <2>1. /\ Append(g, View(e)) \in Seq(V) /\ Len(Append(g, View(e))) = n + 1
        /\ Append(g, View(e))[n + 1] = View(e)
        /\ \A i \in 1..n : Append(g, View(e))[i] = g[i]
    BY <1>2, <1>4, Appended
  <2> DEFINE a == Append(g, View(e))
  <2>2. a \in Seq(V) /\ Len(a) = n + 1
    BY <2>1
  <2> HIDE DEF a, n
  <2>3. a \in [1..(n + 1) -> V]
    BY <2>2
  <2> QED
    BY <2>1, <2>3 DEF a
<1>6. /\ DOMAIN Append(h, e) = 1..(n + 1)
      /\ Append(h, e)[n + 1] = e
      /\ \A i \in 1..n : Append(h, e)[i] = h[i]
  BY Appended
<1>7. \A i \in 1..(n + 1) : Append(g, View(e))[i] = View(Append(h, e)[i])
  <2> SUFFICES ASSUME NEW i \in 1..(n + 1)
      PROVE Append(g, View(e))[i] = View(Append(h, e)[i])
    OBVIOUS
  <2>1. CASE i = n + 1
    BY <1>5, <1>6, <2>1
  <2>2. CASE i \in 1..n
    BY <1>3, <1>5, <1>6, <2>2
  <2>3. n \in Nat
    BY <1>1
  <2> HIDE DEF n
  <2>4. i \in 1..n \/ i = n + 1
    BY <2>3
  <2> QED
    BY <2>1, <2>2, <2>4
<1>8. Append(g, View(e)) = [i \in 1..(n + 1) |-> View(Append(h, e)[i])]
  <2> DEFINE a == Append(g, View(e))
             b == [i \in 1..(n + 1) |-> View(Append(h, e)[i])]
  <2>1. a \in [1..(n + 1) -> V] /\ \A i \in 1..(n + 1) : a[i] = b[i]
    BY <1>5, <1>7
  <2>2. a = [i \in 1..(n + 1) |-> a[i]]
    BY <2>1
  <2>3. b = [i \in 1..(n + 1) |-> b[i]]
    OBVIOUS
  <2> HIDE DEF a, b, n
  <2>4. a = b
    BY <2>1, <2>2, <2>3
  <2> QED
    BY <2>4 DEF a, b
<1> QED
  BY <1>6, <1>8 DEF g

\* Steps that change neither the records, the claims, the generations nor the histories,
\* but for the end of a lease, are invisible.
LEMMA StoreStutters ==
  ASSUME IInv, UNCHANGED <<records, generations, attempts>>,
         \A d \in Delivery : /\ claims'[d] = NULL <=> claims[d] = NULL
                             /\ claims[d] # NULL => claims'[d].owner = claims[d].owner
  PROVE  UNCHANGED Store!vars
<1>1. UNCHANGED <<States, Terms, Histories>>
  BY DEF States, Terms, Histories, Exists, Generation
<1>2. UNCHANGED Holders
  BY DEF Holders
<1> QED
  BY <1>1, <1>2 DEF States, Terms, Holders, Histories, View, Store!vars

LEMMA SaveTakesIn ==
  ASSUME IInv, NEW d \in Delivery, NEW dest \in Destination, Save(d, dest)
  PROVE  Store!TakeIn(d)
<1>1. /\ ~Exists(d)
      /\ records' = [records EXCEPT ![d] =
           [standing |-> PendingStanding, destination |-> dest]]
      /\ generations' = [generations EXCEPT ![d] = 0]
      /\ UNCHANGED <<claims, attempts>>
  BY DEF Save, Insert
<1>2. [standing |-> PendingStanding, destination |-> dest] \in Record
  BY PendingTyped DEF Record
<1>3. States[d] = "Absent"
  BY <1>1 DEF States
<1>4. States' = [States EXCEPT ![d] = "Pending"]
  BY <1>1, <1>2, MemoryNullAssumption
     DEF States, Exists, IInv, TypeOK, PendingStanding, Standing
<1>5. Terms' = Terms
  <2>1. generations[d] = NULL
    BY <1>1 DEF IInv, MapsAgree
  <2> QED
    BY <1>1, <2>1 DEF Terms, Generation, IInv, TypeOK
<1>6. UNCHANGED <<Holders, Histories>>
  BY <1>1 DEF Holders, Histories
<1> QED
  BY <1>3, <1>4, <1>5, <1>6
     DEF States, Terms, Holders, Histories, View, Store!TakeIn

LEMMA InsertClaimedTakesIn ==
  ASSUME IInv, NEW d \in Delivery, NEW dest \in Destination, NEW w \in Worker,
         NEW eligible \in 0..MaxNow, InsertClaimed(d, dest, w, eligible)
  PROVE  Store!TakeIn(d)
<1> DEFINE claim == [owner |-> w, generation |-> 1, lease |-> now + LeaseDuration]
<1>1. /\ ~Exists(d)
      /\ records' = [records EXCEPT ![d] =
           [standing |-> PendingStanding, destination |-> dest]]
      /\ generations' = [generations EXCEPT ![d] = 1]
      /\ claims' = [claims EXCEPT ![d] = claim]
      /\ UNCHANGED attempts
  BY DEF InsertClaimed, Insert
<1>2. [standing |-> PendingStanding, destination |-> dest] \in Record
  BY PendingTyped DEF Record
<1>3. claim # NULL /\ claim.owner = w /\ 1 # NULL
  BY MemoryAssumption, MemoryNullAssumption DEF StoredClaim, IInv, TypeOK
<1> HIDE DEF claim
<1>4. States[d] = "Absent"
  BY <1>1 DEF States
<1>5. States' = [States EXCEPT ![d] = "Pending"]
  BY <1>1, <1>2, MemoryNullAssumption
     DEF States, Exists, IInv, TypeOK, PendingStanding, Standing
<1>6. Terms' = [Terms EXCEPT ![d] = 1]
  BY <1>1, <1>3 DEF Terms, Generation, IInv, TypeOK
<1>7. Holders' = [Holders EXCEPT ![d] = w]
  BY <1>1, <1>3 DEF Holders, IInv, TypeOK
<1>8. UNCHANGED Histories
  BY <1>1 DEF Histories
<1> QED
  BY <1>4, <1>5, <1>6, <1>7, <1>8
     DEF States, Terms, Holders, Histories, View, Store!TakeIn

LEMMA ClaimPendingGrants ==
  ASSUME IInv, NEW w \in Worker, NEW dest \in Destination, NEW S \in Batches(dest),
         ClaimPending(w, dest, S)
  PROVE  Store!Grant(w, S) /\ S \in SUBSET Delivery
<1> DEFINE claim(d) ==
             [owner |-> w, generation |-> Generation(d) + 1, lease |-> now + LeaseDuration]
<1>1. /\ generations' = [d \in Delivery |->
            IF d \in S THEN Generation(d) + 1 ELSE generations[d]]
      /\ claims' = [d \in Delivery |-> IF d \in S THEN claim(d) ELSE claims[d]]
      /\ UNCHANGED <<records, attempts>>
  BY DEF ClaimPending
<1>2. S \in SUBSET Delivery /\ \A d \in S : In(d, "Pending")
  BY DEF Batches, Claimable
<1>3. \A d \in Delivery : Generation(d) \in 0..MaxGeneration
  BY MemoryAssumption DEF Generation, IInv, TypeOK
<1>4. \A d \in S : /\ claim(d) \in StoredClaim /\ claim(d).owner = w
                   /\ Generation(d) + 1 \in Nat
  BY <1>2, <1>3, MemoryAssumption DEF IInv, TypeOK, ClaimPending, StoredClaim
<1> HIDE DEF claim
<1>5. \A d \in S : States[d] = "Pending"
  BY <1>2 DEF States, In
<1>6. Holders' = [d \in Delivery |-> IF d \in S THEN w ELSE Holders[d]]
  BY <1>1, <1>4, MemoryNullAssumption DEF Holders
<1>7. Terms' = [d \in Delivery |-> IF d \in S THEN Terms[d] + 1 ELSE Terms[d]]
  BY <1>1, <1>4, MemoryNullAssumption DEF Terms, Generation
<1>8. UNCHANGED <<States, Histories>>
  BY <1>1 DEF States, Histories, Exists
<1> QED
  BY <1>2, <1>5, <1>6, <1>7, <1>8
     DEF States, Terms, Holders, Histories, View, Store!Grant, Store!Unfinished

LEMMA ReleaseGivesBack ==
  ASSUME IInv, NEW c \in held, ReleaseClaim(c)
  PROVE  Store!GiveBack(c.delivery) /\ c.delivery \in Delivery
<1> DEFINE d == c.delivery
<1>1. /\ In(d, "Pending") /\ claims[d] # NULL
      /\ claims' = [claims EXCEPT ![d] = NULL]
      /\ UNCHANGED <<records, generations, attempts>>
  BY DEF ReleaseClaim, Owns
<1>2. d \in Delivery
  BY DEF IInv, TypeOK, Claim
<1>3. claims[d] \in StoredClaim
  BY <1>1, <1>2 DEF IInv, TypeOK
<1>4. States[d] = "Pending" /\ Holders[d] # NULL
  BY <1>1, <1>2, <1>3, MemoryNullAssumption DEF States, In, Holders, StoredClaim
<1>5. Holders' = [Holders EXCEPT ![d] = NULL]
  BY <1>1, <1>2 DEF Holders, IInv, TypeOK
<1>6. UNCHANGED <<States, Terms, Histories>>
  BY <1>1 DEF States, Terms, Histories, Exists, Generation
<1> QED
  BY <1>2, <1>4, <1>5, <1>6
     DEF States, Terms, Holders, Histories, View,
         Store!GiveBack, Store!Held, Store!Unfinished

\* The standing and the claim of one delivery change: what the store sees.
LEMMA EndedView ==
  ASSUME IInv, NEW d \in Delivery, Exists(d), NEW standing \in
           [state : DeliveryStates, status : {NULL, Status},
            reason : DeadLetterReasons \cup {NULL}],
         records' = [records EXCEPT ![d].standing = standing],
         claims' = [claims EXCEPT ![d] = NULL]
  PROVE  /\ States' = [States EXCEPT ![d] = standing.state]
         /\ Holders' = [Holders EXCEPT ![d] = NULL]
<1>1. \A e \in Delivery : Exists(e)' <=> Exists(e)
  BY EndedMaps
<1>2. records'[d].standing = standing
  BY EndedMaps
<1>3. \A e \in Delivery \ {d} : records'[e] = records[e]
  BY DEF IInv, TypeOK
<1>4. States' = [States EXCEPT ![d] = standing.state]
  <2>1. /\ States' = [e \in Delivery |->
                        IF Exists(e)' THEN records'[e].standing.state ELSE "Absent"]
        /\ States = [e \in Delivery |->
                        IF Exists(e) THEN records[e].standing.state ELSE "Absent"]
    BY DEF States
  <2>2. \A e \in Delivery :
          (IF Exists(e)' THEN records'[e].standing.state ELSE "Absent")
            = IF e = d THEN standing.state
              ELSE IF Exists(e) THEN records[e].standing.state ELSE "Absent"
    BY <1>1, <1>2, <1>3
  <2> QED
    BY <2>1, <2>2
<1>5. Holders' = [Holders EXCEPT ![d] = NULL]
  BY DEF Holders, IInv, TypeOK
<1> QED
  BY <1>4, <1>5

\* What an appended attempt adds to the history the store sees.
LEMMA AppendedView ==
  ASSUME IInv, NEW c \in held, NEW outcome \in Outcomes, NEW decision \in AttemptDecisions,
         AppendAttempt(c, outcome, decision)
  PROVE  /\ c.delivery \in Delivery /\ Exists(c.delivery)
         /\ States[c.delivery] = "Pending" /\ Holders[c.delivery] # NULL
         /\ Histories' = [Histories EXCEPT ![c.delivery] =
              Append(Histories[c.delivery],
                     [by |-> Holders[c.delivery], term |-> Terms[c.delivery],
                      outcome |-> outcome, decision |-> decision])]
         /\ Terms' = Terms
<1> DEFINE d == c.delivery
           entry == AttemptEntry(c, outcome, decision)
           view == [by |-> Holders[d], term |-> Terms[d],
                    outcome |-> outcome, decision |-> decision]
<1>1. /\ In(d, "Pending") /\ Owns(c) /\ c.ordinal <= MaxOrdinal
      /\ attempts' = [attempts EXCEPT ![d] = Append(attempts[d], entry)]
      /\ UNCHANGED generations
  BY DEF AppendAttempt, OwnsNow, Owns
<1>2. /\ d \in Delivery /\ claims[d] # NULL /\ c.generation = generations[d]
      /\ claims[d].owner = c.owner /\ claims[d] \in StoredClaim
  BY <1>1, OwnerIsNewest DEF IInv, TypeOK
<1>3. /\ c.owner \in Worker /\ c.generation \in 1..MaxGeneration
      /\ c.ordinal \in 1..(MaxOrdinal + 1)
  BY DEF IInv, TypeOK, Claim
<1>4. Holders[d] = c.owner /\ c.owner # NULL
  BY <1>2, <1>3, MemoryNullAssumption DEF Holders
<1>5. Terms[d] = c.generation
  BY <1>2, <1>3, MemoryNullAssumption DEF Terms, Generation
<1>6. c.ordinal \in 1..MaxOrdinal
  BY <1>1, <1>3, MemoryAssumption
<1>7. entry \in Attempt /\ View(entry) = view
  BY <1>3, <1>4, <1>5, <1>6, MemoryAssumption DEF AttemptEntry, Attempt, View
<1> HIDE DEF entry, view
<1>8. attempts[d] \in Seq(Attempt)
  BY <1>2 DEF IInv, TypeOK
<1>9. Histories' = [Histories EXCEPT ![d] = Append(Histories[d], view)]
  <2>1. Histories[d] = [i \in DOMAIN attempts[d] |-> View(attempts[d][i])]
    BY <1>2 DEF Histories
  <2>2. attempts'[d] = Append(attempts[d], entry)
    BY <1>1, <1>2 DEF IInv, TypeOK
  <2>3. [i \in DOMAIN attempts'[d] |-> View(attempts'[d][i])]
          = Append(Histories[d], view)
    BY <1>7, <1>8, <2>1, <2>2, ViewAppends
  <2>4. \A e \in Delivery \ {d} : attempts'[e] = attempts[e]
    BY <1>1 DEF IInv, TypeOK
  <2>5. Histories' = [e \in Delivery |->
                        [i \in DOMAIN attempts'[e] |-> View(attempts'[e][i])]]
    BY DEF Histories, View
  <2>6. \A e \in Delivery \ {d} : Histories'[e] = Histories[e]
    BY <2>4, <2>5 DEF Histories
  <2>7. Histories'[d] = Append(Histories[d], view)
    BY <1>2, <2>3, <2>5
  <2>8. /\ Histories' = [e \in Delivery |-> Histories'[e]]
        /\ Histories = [e \in Delivery |-> Histories[e]]
    BY DEF Histories
  <2> DEFINE H1 == Histories'
             H == Histories
  <2>9. /\ H1 = [e \in Delivery |-> H1[e]] /\ H = [e \in Delivery |-> H[e]]
        /\ \A e \in Delivery \ {d} : H1[e] = H[e]
        /\ H1[d] = Append(H[d], view)
    BY <2>6, <2>7, <2>8
  <2> HIDE DEF H1, H
  <2>10. H1 = [H EXCEPT ![d] = Append(H[d], view)]
    BY <2>9
  <2> QED
    BY <2>10 DEF H1, H
<1>10. Terms' = Terms
  BY <1>1 DEF Terms, Generation
<1>11. Exists(d) /\ States[d] = "Pending"
  BY <1>1, <1>2 DEF States, In
<1> QED
  BY <1>2, <1>4, <1>9, <1>10, <1>11 DEF view

LEMMA RetryExtends ==
  ASSUME IInv, NEW c \in held, NEW outcome \in Outcomes, NEW completed \in 0..MaxNow,
         NEW delay \in RetryDelays, RecordRetry(c, outcome, completed, delay)
  PROVE  Store!Extend(c.delivery, outcome, "RetryScheduled")
<1> DEFINE d == c.delivery
<1>1. AppendAttempt(c, outcome, "RetryScheduled") /\ UNCHANGED <<records, claims>>
  BY DEF RecordRetry
<1>2. /\ d \in Delivery /\ States[d] = "Pending" /\ Holders[d] # NULL
      /\ Histories' = [Histories EXCEPT ![d] =
           Append(Histories[d], [by |-> Holders[d], term |-> Terms[d],
                                 outcome |-> outcome, decision |-> "RetryScheduled"])]
      /\ Terms' = Terms
  BY <1>1, AppendedView DEF AttemptDecisions
<1>3. States' = States /\ Holders' = Holders
  BY <1>1 DEF States, Holders, Exists
<1>4. /\ States' = [States EXCEPT ![d] = "Pending"]
      /\ Holders' = [Holders EXCEPT ![d] = Holders[d]]
  <2> DEFINE S == States
             H == Holders
  <2>1. /\ S = [e \in Delivery |-> S[e]] /\ H = [e \in Delivery |-> H[e]]
        /\ S[d] = "Pending"
    BY <1>2 DEF States, Holders
  <2> HIDE DEF S, H
  <2>2. S = [S EXCEPT ![d] = "Pending"] /\ H = [H EXCEPT ![d] = H[d]]
    BY <2>1
  <2> QED
    BY <1>3, <2>2 DEF S, H
<1> QED
  BY <1>2, <1>4
     DEF States, Terms, Holders, Histories, View,
         Store!Extend, Store!Held, Store!Unfinished, Store!Ends

LEMMA LastExtends ==
  ASSUME IInv, NEW c \in held, NEW outcome \in Outcomes,
         NEW decision \in {"Terminal", "Exhausted"}, RecordLast(c, outcome, decision)
  PROVE  Store!Extend(c.delivery, outcome, decision)
<1> DEFINE d == c.delivery
           ends == IF decision = "Exhausted" \/ outcome = "ProtocolFailure"
                   THEN "DeadLettered" ELSE outcome
<1>1. /\ AppendAttempt(c, outcome, decision)
      /\ records' = [records EXCEPT ![d].standing = Ended(outcome, decision)]
      /\ claims' = [claims EXCEPT ![d] = NULL]
  BY DEF RecordLast
<1>2. /\ d \in Delivery /\ Exists(d) /\ States[d] = "Pending" /\ Holders[d] # NULL
      /\ Histories' = [Histories EXCEPT ![d] =
           Append(Histories[d], [by |-> Holders[d], term |-> Terms[d],
                                 outcome |-> outcome, decision |-> decision])]
      /\ Terms' = Terms
  BY <1>1, AppendedView DEF AttemptDecisions
<1>3. /\ Ended(outcome, decision) \in
           [state : DeliveryStates, status : {NULL, Status},
            reason : DeadLetterReasons \cup {NULL}]
      /\ Ended(outcome, decision).state = ends
  BY <1>1, EndedStanding, MemoryAssumption DEF AppendAttempt
<1>4. States' = [States EXCEPT ![d] = ends] /\ Holders' = [Holders EXCEPT ![d] = NULL]
  BY <1>1, <1>2, <1>3, EndedView
<1> QED
  BY <1>2, <1>4
     DEF States, Terms, Holders, Histories, View,
         Store!Extend, Store!Held, Store!Unfinished, Store!Ends

LEMMA CompleteConcludes ==
  ASSUME IInv, NEW c \in held, NEW result \in Completions, CompleteClaim(c, result)
  PROVE  \E s \in {"Delivered", "Rejected", "DeadLettered"} : Store!Conclude(c.delivery, s)
<1> DEFINE d == c.delivery
           standing == DeliveryStateFromResult(result, Status)
<1>1. /\ In(d, "Pending") /\ claims[d] # NULL
      /\ records' = [records EXCEPT ![d].standing = standing]
      /\ claims' = [claims EXCEPT ![d] = NULL]
      /\ UNCHANGED <<generations, attempts>>
  BY DEF CompleteClaim, OwnsNow, Owns
<1>2. d \in Delivery /\ Exists(d)
  BY <1>1 DEF IInv, TypeOK, Claim, In
<1>3. /\ standing \in [state : DeliveryStates, status : {NULL, Status},
                       reason : DeadLetterReasons \cup {NULL}]
      /\ standing.state \in {"Delivered", "Rejected", "DeadLettered"}
  BY ResultStanding
<1> HIDE DEF standing
<1>4. States' = [States EXCEPT ![d] = standing.state] /\ Holders' = [Holders EXCEPT ![d] = NULL]
  BY <1>1, <1>2, <1>3, EndedView
<1>5. claims[d] \in StoredClaim
  BY <1>1, <1>2 DEF IInv, TypeOK
<1>6. States[d] = "Pending" /\ Holders[d] # NULL
  BY <1>1, <1>2, <1>5, MemoryNullAssumption DEF States, In, Holders, StoredClaim
<1>7. UNCHANGED <<Terms, Histories>>
  BY <1>1 DEF Terms, Histories, Generation
<1>8. Store!Conclude(d, standing.state)
  BY <1>2, <1>4, <1>6, <1>7
     DEF States, Terms, Holders, Histories, View,
         Store!Conclude, Store!Held, Store!Unfinished
<1> QED
  BY <1>3, <1>8

\* A dead letter has no claim, so that to settle it takes none away.
LEMMA SettleSettles ==
  ASSUME IInv, NEW d \in Delivery, In(d, "DeadLettered"), NEW standing \in
           [state : DeliveryStates, status : {NULL, Status},
            reason : DeadLetterReasons \cup {NULL}],
         records' = [records EXCEPT ![d].standing = standing],
         claims' = [claims EXCEPT ![d] = NULL],
         UNCHANGED <<generations, attempts>>
  PROVE  Store!Settle(d, standing.state)
<1>1. Exists(d) /\ claims[d] = NULL
  BY DEF IInv, MapsAgree, In
<1>2. States' = [States EXCEPT ![d] = standing.state] /\ Holders' = [Holders EXCEPT ![d] = NULL]
  BY <1>1, EndedView
<1>3. States[d] = "DeadLettered"
  BY DEF States, In
<1>4. UNCHANGED <<Holders, Terms, Histories>>
  <2>1. UNCHANGED Holders
    BY <1>1, <1>2 DEF Holders
  <2> QED
    BY <2>1 DEF Terms, Histories, Generation
<1> QED
  BY <1>2, <1>3, <1>4
     DEF States, Terms, Holders, Histories, View, Store!Settle

LEMMA StepImplements == IInv /\ [Next]_vars => [Store!Next]_Store!vars
<1> SUFFICES ASSUME IInv, [Next]_vars PROVE Store!Next \/ UNCHANGED Store!vars
  BY DEF Store!vars
<1>1. ASSUME NEW d \in Delivery, NEW dest \in Destination, Save(d, dest)
      PROVE Store!Next
  BY <1>1, SaveTakesIn DEF Store!Next
<1>2. ASSUME NEW d \in Delivery, NEW dest \in Destination, NEW w \in Worker,
             SavePending(d, dest, w) \/ Accept(d, dest, w)
      PROVE Store!Next
  <2>1. PICK eligible \in 0..MaxNow : InsertClaimed(d, dest, w, eligible)
    BY <1>2 DEF SavePending, Accept, IInv, TypeOK
  <2> QED
    BY <2>1, InsertClaimedTakesIn DEF Store!Next
<1>3. ASSUME NEW w \in Worker, NEW dest \in Destination, NEW S \in Batches(dest),
             ClaimPending(w, dest, S)
      PROVE Store!Next
  BY <1>3, ClaimPendingGrants DEF Store!Next
<1>4. ASSUME NEW c \in held, RenewClaim(c) PROVE UNCHANGED Store!vars
  <2> DEFINE claim == [owner |-> c.owner, generation |-> c.generation,
                       lease |-> now + LeaseDuration]
  <2>1. /\ Owns(c) /\ claims' = [claims EXCEPT ![c.delivery] = claim]
        /\ UNCHANGED <<records, generations, attempts>>
    BY <1>4 DEF RenewClaim, OwnsNow
  <2>2. c.delivery \in Delivery /\ c.owner \in Worker /\ c.generation \in 1..MaxGeneration
    BY DEF IInv, TypeOK, Claim
  <2>3. claim # NULL /\ claim.owner = c.owner
    BY <2>2, MemoryAssumption, MemoryNullAssumption DEF StoredClaim, IInv, TypeOK
  <2> HIDE DEF claim
  <2>4. \A d \in Delivery : /\ claims'[d] = NULL <=> claims[d] = NULL
                            /\ claims[d] # NULL => claims'[d].owner = claims[d].owner
    BY <2>1, <2>2, <2>3 DEF IInv, TypeOK, Owns
  <2> QED
    BY <2>1, <2>4, StoreStutters
<1>5. ASSUME NEW c \in held, ReleaseClaim(c) PROVE Store!Next
  BY <1>5, ReleaseGivesBack DEF Store!Next
<1>6. ASSUME NEW c \in held, NEW outcome \in Outcomes, RecordAttempt(c, outcome)
      PROVE Store!Next
  <2>1. c.delivery \in Delivery /\ outcome \in AttemptOutcomes
    BY MemoryAssumption DEF IInv, TypeOK, Claim
  <2>2. \E decision \in {"Terminal", "RetryScheduled", "Exhausted"} :
          Store!Extend(c.delivery, outcome, decision)
    BY <1>6, RetryExtends, LastExtends DEF RecordAttempt
  <2> QED
    BY <2>1, <2>2 DEF Store!Next, AttemptOutcomes
<1>7. ASSUME NEW c \in held, NEW result \in Completions, CompleteClaim(c, result)
      PROVE Store!Next
  <2>1. c.delivery \in Delivery
    BY DEF IInv, TypeOK, Claim
  <2> QED
    BY <1>7, <2>1, CompleteConcludes DEF Store!Next
<1>8. ASSUME NEW d \in Delivery, Reopen(d) PROVE Store!Next
  <2>1. Store!Settle(d, PendingStanding.state) /\ PendingStanding.state = "Pending"
    BY <1>8, PendingTyped, SettleSettles DEF Reopen, PendingStanding, Standing
  <2> QED
    BY <2>1 DEF Store!Next
<1>9. ASSUME NEW d \in Delivery, TerminateDeadLetter(d) PROVE Store!Next
  <2> DEFINE standing == Standing("Terminated", NULL, NULL)
  <2>1. /\ standing \in [state : DeliveryStates, status : {NULL, Status},
                         reason : DeadLetterReasons \cup {NULL}]
        /\ standing.state = "Terminated"
    BY DEF Standing, DeliveryStates
  <2>2. Store!Settle(d, standing.state)
    BY <1>9, <2>1, SettleSettles DEF TerminateDeadLetter
  <2> QED
    BY <2>1, <2>2 DEF Store!Next
<1>10. ASSUME UNCHANGED <<records, generations, claims, attempts>>
       PROVE UNCHANGED Store!vars
  BY <1>10, StoreStutters
<1> QED
  BY <1>1, <1>2, <1>3, <1>4, <1>5, <1>6, <1>7, <1>8, <1>9, <1>10
     DEF Next, RetryDeadLetter, RepairDeadLetter, SetClock, vars, maps

\* The memory adapter keeps the promise of the storage services, for any number of
\* deliveries and workers and under any clock.
THEOREM Implements == Spec => ImplementsStore
<1>1. Init => Store!Init
  <2> SUFFICES ASSUME Init PROVE Store!Init
    OBVIOUS
  <2>1. /\ States = [d \in Delivery |-> "Absent"]
        /\ Holders = [d \in Delivery |-> NULL]
        /\ Terms = [d \in Delivery |-> 0]
    BY DEF Init, States, Holders, Terms, Exists, Generation
  <2>2. Histories = [d \in Delivery |-> <<>>]
    <3>1. \A d \in Delivery : [i \in DOMAIN attempts[d] |-> View(attempts[d][i])] = <<>>
      BY DEF Init
    <3> QED
      BY <3>1 DEF Histories
  <2> QED
    BY <2>1, <2>2 DEF States, Terms, Holders, Histories, View, Store!Init
<1>2. IInv /\ [Next]_vars => [Store!Next]_Store!vars
  BY StepImplements
<1> QED
  BY Inductive, <1>1, <1>2, PTL DEF Spec, ImplementsStore, Store!Spec

===============================================================================
