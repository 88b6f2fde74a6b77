--------------------------- MODULE IntakeStoreProofs ---------------------------
(***************************************************************************)
(* Proofs that intake is idempotent for any number of requests, keys and   *)
(* submissions.                                                            *)
(***************************************************************************)
EXTENDS IntakeStore, TLAPS

Phases == Calling \cup {"idle", "ended"}
Asked == [key : IngestionKey, fingerprint : Fingerprint]
Answer == [tag : {"Accepted", "Replay", "Conflict", "NoAcceptance", "Failed"},
           delivery : Request \cup {NULL}]

TypeInv ==
  /\ asked \in [Request -> Asked \cup {NULL}]
  /\ phase \in [Request -> Phases]
  /\ answer \in [Request -> Answer \cup {NULL}]
  /\ events \subseteq Request

\* A call asks something from its first step, and is answered with its last.
Waiting == \A r \in Request :
  /\ phase[r] = "idle" <=> asked[r] = NULL
  /\ phase[r] # "ended" => answer[r] = NULL

\* An event is there when its call has ended, and so is its delivery.
RowsTogether ==
  /\ deliveries = events
  /\ \A r \in events : phase[r] = "ended"

\* Whoever has inserted a key, committed or not, is alone with it.
KeyOwners == events \cup {r \in Request : phase[r] \in Open}
OneOwner == \A r, q \in KeyOwners : asked[r].key = asked[q].key => r = q

\* What a call has found stays.
FoundStays == \A r \in Request : phase[r] = "taken" => Taken(r) # {}

\* What a caller was told is in the tables, and never that an acceptance is missing.
ToldIsStored ==
  \A r \in Request : answer[r] # NULL =>
    /\ phase[r] = "ended"
    /\ answer[r].tag # "NoAcceptance"
    /\ answer[r].tag \in {"Accepted", "Replay"} =>
         /\ answer[r].delivery \in events
         /\ asked[answer[r].delivery].key = asked[r].key
         /\ asked[answer[r].delivery].fingerprint = asked[r].fingerprint

IInv == TypeInv /\ Waiting /\ RowsTogether /\ OneOwner /\ FoundStays /\ ToldIsStored

-------------------------------------------------------------------------------
LEMMA InitIInv == Init => IInv
BY DEF Init, IInv, TypeInv, Waiting, RowsTogether, OneOwner, KeyOwners, FoundStays,
   ToldIsStored, Phases, Open, Calling

LEMMA TypeStep == TypeInv /\ [Next]_vars => TypeInv'
<1> SUFFICES ASSUME TypeInv, [Next]_vars PROVE TypeInv'
  OBVIOUS
<1> USE DEF TypeInv, Phases, Asked, Answer, Calling, Open, At, Goto, End, Told
<1>1. ASSUME NEW r \in Request, NEW k \in IngestionKey, NEW f \in Fingerprint, Ask(r, k, f)
      PROVE  TypeInv'
  BY <1>1 DEF Ask
<1>2. ASSUME NEW r \in Request, InsertEvent(r) PROVE TypeInv'
  BY <1>2 DEF InsertEvent
<1>3. ASSUME NEW r \in Request, InsertDelivery(r) PROVE TypeInv'
  BY <1>3 DEF InsertDelivery
<1>4. ASSUME NEW r \in Request, Commit(r) PROVE TypeInv'
  BY <1>4 DEF Commit
<1>5. ASSUME NEW r \in Request, Find(r) PROVE TypeInv'
  BY <1>5 DEF Find, Taken, SameKey
<1>6. ASSUME NEW r \in Request, GiveUp(r) PROVE TypeInv'
  BY <1>6 DEF GiveUp
<1>7. ASSUME UNCHANGED vars PROVE TypeInv'
  BY <1>7 DEF vars
<1> QED
  BY <1>1, <1>2, <1>3, <1>4, <1>5, <1>6, <1>7 DEF Next, Work

LEMMA IInvStep == IInv /\ [Next]_vars => IInv'
<1> SUFFICES ASSUME IInv, [Next]_vars PROVE IInv'
  OBVIOUS
<1>t. TypeInv'
  BY TypeStep DEF IInv
<1>1. ASSUME NEW r \in Request, NEW k \in IngestionKey, NEW f \in Fingerprint, Ask(r, k, f)
      PROVE  IInv'
  <2> USE <1>1, <1>t DEF IInv, TypeInv, Ask, At, Goto, Phases, Calling, Open
  <2>0. Waiting'
    BY IntakeAssumption DEF Waiting, Asked
  <2>1. RowsTogether'
    BY DEF RowsTogether
  <2>2. OneOwner'
    BY DEF OneOwner, KeyOwners, RowsTogether
  <2>3. FoundStays'
    BY DEF FoundStays, RowsTogether, Taken, SameKey
  <2>4. ToldIsStored'
    BY DEF ToldIsStored, RowsTogether
  <2> QED
    BY <2>0, <2>1, <2>2, <2>3, <2>4
<1>2. ASSUME NEW r \in Request, InsertEvent(r) PROVE IInv'
  <2> USE <1>2, <1>t DEF IInv, TypeInv, InsertEvent, At, Goto, Phases, Calling, Open
  <2>0. Waiting'
    BY DEF Waiting
  <2>1. RowsTogether'
    BY DEF RowsTogether
  <2>2. OneOwner'
    BY DEF OneOwner, KeyOwners, Holders, Taken, SameKey
  <2>3. FoundStays'
    BY DEF FoundStays, Taken, SameKey
  <2>4. ToldIsStored'
    BY DEF ToldIsStored
  <2> QED
    BY <2>0, <2>1, <2>2, <2>3, <2>4
<1>3. ASSUME NEW r \in Request, InsertDelivery(r) PROVE IInv'
  <2> USE <1>3, <1>t DEF IInv, TypeInv, InsertDelivery, At, Goto, Phases, Calling, Open
  <2>0. Waiting'
    BY DEF Waiting
  <2>1. RowsTogether'
    BY DEF RowsTogether
  <2>2. OneOwner'
    BY DEF OneOwner, KeyOwners
  <2>3. FoundStays'
    BY DEF FoundStays, Taken, SameKey
  <2>4. ToldIsStored'
    BY DEF ToldIsStored
  <2> QED
    BY <2>0, <2>1, <2>2, <2>3, <2>4
<1>4. ASSUME NEW r \in Request, Commit(r) PROVE IInv'
  <2> USE <1>4, <1>t DEF IInv, TypeInv, Commit, At, Goto, End, Told, Phases, Calling, Open
  <2>0. Waiting'
    BY DEF Waiting
  <2>1. RowsTogether'
    BY DEF RowsTogether
  <2>2. OneOwner'
    BY DEF OneOwner, KeyOwners
  <2>3. FoundStays'
    BY DEF FoundStays, Taken, SameKey
  <2>4. ToldIsStored'
    BY DEF ToldIsStored
  <2> QED
    BY <2>0, <2>1, <2>2, <2>3, <2>4
<1>5. ASSUME NEW r \in Request, Find(r) PROVE IInv'
  <2> USE <1>5, <1>t DEF IInv, TypeInv, Find, At, Goto, End, Told, Phases, Calling, Open
  <2>0. Waiting'
    BY DEF Waiting
  <2>1. RowsTogether'
    BY DEF RowsTogether
  <2>2. OneOwner'
    BY DEF OneOwner, KeyOwners
  <2>3. FoundStays'
    BY DEF FoundStays, Taken, SameKey
  <2>4. ToldIsStored'
    BY DEF ToldIsStored, RowsTogether, Taken, SameKey, Asked
  <2> QED
    BY <2>0, <2>1, <2>2, <2>3, <2>4
<1>6. ASSUME NEW r \in Request, GiveUp(r) PROVE IInv'
  <2> USE <1>6, <1>t DEF IInv, TypeInv, GiveUp, At, Goto, End, Told, Phases, Calling, Open
  <2>0. Waiting'
    BY DEF Waiting
  <2>1. RowsTogether'
    BY DEF RowsTogether
  <2>2. OneOwner'
    BY DEF OneOwner, KeyOwners
  <2>3. FoundStays'
    BY DEF FoundStays, Taken, SameKey
  <2>4. ToldIsStored'
    BY DEF ToldIsStored
  <2> QED
    BY <2>0, <2>1, <2>2, <2>3, <2>4
<1>7. ASSUME UNCHANGED vars PROVE IInv'
  BY <1>7, <1>t DEF vars, IInv, Waiting, RowsTogether, OneOwner, KeyOwners, FoundStays,
     Taken, SameKey, ToldIsStored
<1> QED
  BY <1>1, <1>2, <1>3, <1>4, <1>5, <1>6, <1>7 DEF Next, Work

LEMMA Invariance == Spec => []IInv
BY InitIInv, IInvStep, PTL DEF Spec

\* Two positive answers for one key name one stored delivery of one submission, for any
\* number of requests that race, fail and repeat: IntakeStore!AnswersNameOneDelivery.
THEOREM OneDeliveryPerKey == Spec => []AnswersNameOneDelivery
<1>1. IInv => AnswersNameOneDelivery
  BY DEF IInv, TypeInv, RowsTogether, OneOwner, KeyOwners, ToldIsStored,
     AnswersNameOneDelivery, Positive, Answer
<1> QED
  BY <1>1, Invariance, PTL

\* The SELECT after a conflicting INSERT always finds the acceptance, so the error
\* "idempotency key exists without an acceptance" is never raised.
THEOREM NoKeyWithoutAcceptance == Spec => []KeyNeverWithoutAcceptance
<1>1. IInv => KeyNeverWithoutAcceptance
  BY DEF IInv, ToldIsStored, KeyNeverWithoutAcceptance
<1> QED
  BY <1>1, Invariance, PTL

-------------------------------------------------------------------------------
\* Acceptance is the one committed event of a key.
AcceptanceFacts ==
  /\ \A e \in events : Acceptance(asked[e].key) =
       [fingerprint |-> asked[e].fingerprint, delivery |-> e]
  /\ \A k \in IngestionKey : (\A e \in events : asked[e].key # k) => Acceptance(k) = NULL

LEMMA AcceptanceOf == IInv => AcceptanceFacts
<1> SUFFICES ASSUME IInv PROVE AcceptanceFacts
  OBVIOUS
<1>1. ASSUME NEW e \in events
      PROVE  Acceptance(asked[e].key) =
               [fingerprint |-> asked[e].fingerprint, delivery |-> e]
  <2>1. {q \in events : asked[q].key = asked[e].key} = {e}
    BY DEF IInv, OneOwner, KeyOwners
  <2> QED
    BY <2>1, (CHOOSE q \in {e} : TRUE) = e DEF Acceptance
<1>2. ASSUME NEW k \in IngestionKey, \A e \in events : asked[e].key # k
      PROVE  Acceptance(k) = NULL
  BY <1>2 DEF Acceptance
<1> QED
  BY <1>1, <1>2 DEF AcceptanceFacts

\* While no event is added and none changes what it asked, every key keeps its acceptance.
LEMMA SameAcceptance ==
  ASSUME AcceptanceFacts, AcceptanceFacts', UNCHANGED events,
         \A e \in events : asked'[e] = asked[e]
  PROVE  [k \in IngestionKey |-> Acceptance(k)]' = [k \in IngestionKey |-> Acceptance(k)]
<1>1. ASSUME NEW k \in IngestionKey PROVE Acceptance(k)' = Acceptance(k)
  <2>1. ASSUME NEW e \in events, asked[e].key = k PROVE Acceptance(k)' = Acceptance(k)
    <3>1. Acceptance(k) = [fingerprint |-> asked[e].fingerprint, delivery |-> e]
      BY <2>1 DEF AcceptanceFacts
    <3>2. Acceptance(k)' = [fingerprint |-> asked'[e].fingerprint, delivery |-> e]
      BY <2>1 DEF AcceptanceFacts
    <3> QED
      BY <3>1, <3>2
  <2>2. CASE \A e \in events : asked[e].key # k
    BY <2>2 DEF AcceptanceFacts
  <2> QED
    BY <2>1, <2>2
<1> QED
  BY <1>1

LEMMA StepRefines == IInv /\ IInv' /\ [Next]_vars => [Once!Next]_Once!vars
<1> SUFFICES ASSUME IInv, IInv', [Next]_vars PROVE [Once!Next]_Once!vars
  OBVIOUS
<1>f. AcceptanceFacts /\ AcceptanceFacts'
  BY AcceptanceOf, PTL
<1> DEFINE acc == [k \in IngestionKey |-> Acceptance(k)]
<1>1. ASSUME NEW r \in Request, NEW k \in IngestionKey, NEW f \in Fingerprint, Ask(r, k, f)
      PROVE  Once!Ask(r, k, f)
  <2>1. \A e \in events : asked'[e] = asked[e]
    BY <1>1 DEF Ask, At, IInv, TypeInv, RowsTogether
  <2>2. acc' = acc
    BY <1>1, <1>f, <2>1, SameAcceptance DEF Ask
  <2> QED
    BY <1>1, <2>2 DEF Ask, At, Once!Ask, IInv, Waiting
<1>2. ASSUME NEW r \in Request, InsertEvent(r) \/ InsertDelivery(r)
      PROVE  UNCHANGED Once!vars
  <2>1. UNCHANGED <<asked, events, answer>>
    BY <1>2 DEF InsertEvent, InsertDelivery
  <2>2. acc' = acc
    BY <1>f, <2>1, SameAcceptance
  <2> QED
    BY <2>1, <2>2 DEF Once!vars
<1>3. ASSUME NEW r \in Request, Commit(r) PROVE Once!Accept(r)
  <2> DEFINE k == asked[r].key
             a == [fingerprint |-> asked[r].fingerprint, delivery |-> r]
  <2>1. /\ phase[r] = "stored" /\ r \notin events
        /\ asked' = asked /\ events' = events \cup {r}
    BY <1>3 DEF Commit, At, IInv, RowsTogether
  <2>2. asked[r] \in Asked /\ answer[r] = NULL
    BY <2>1 DEF IInv, TypeInv, Waiting
  <2>3. \A e \in events : asked[e].key # k
    BY <2>1 DEF IInv, TypeInv, OneOwner, KeyOwners, Open
  <2>4. acc[k] = NULL
    BY <1>f, <2>2, <2>3 DEF AcceptanceFacts, Asked
  <2>5. acc' = [acc EXCEPT ![k] = a]
    <3>1. ASSUME NEW j \in IngestionKey
          PROVE  Acceptance(j)' = IF j = k THEN a ELSE Acceptance(j)
      <4>1. CASE j = k
        BY <1>f, <2>1, <4>1 DEF AcceptanceFacts
      <4>2. ASSUME NEW e \in events, asked[e].key = j, j # k
            PROVE  Acceptance(j)' = Acceptance(j)
        <5>1. Acceptance(j) = [fingerprint |-> asked[e].fingerprint, delivery |-> e]
          BY <1>f, <4>2 DEF AcceptanceFacts
        <5>2. Acceptance(j)' = [fingerprint |-> asked[e].fingerprint, delivery |-> e]
          BY <1>f, <2>1, <4>2 DEF AcceptanceFacts
        <5> QED
          BY <5>1, <5>2
      <4>3. CASE j # k /\ \A e \in events : asked[e].key # j
        BY <1>f, <2>1, <4>3 DEF AcceptanceFacts
      <4> QED
        BY <4>1, <4>2, <4>3
    <3> QED
      BY <3>1
  <2>6. \E told \in {Told("Accepted", r), Told("Failed", NULL)} :
          answer' = [answer EXCEPT ![r] = told]
    BY <1>3 DEF Commit, End
  <2>7. Once!Waits(r)
    BY <2>2, IntakeAssumption DEF Once!Waits, Asked
  <2> QED
    BY <2>1, <2>4, <2>5, <2>6, <2>7 DEF Once!Accept, Once!Told, Told
<1>4. ASSUME NEW r \in Request, Find(r) PROVE Once!Replay(r)
  <2>1. /\ phase[r] = "taken" /\ UNCHANGED <<asked, events>>
    BY <1>4 DEF Find, At
  <2>2. asked[r] \in Asked /\ answer[r] = NULL
    BY <2>1 DEF IInv, TypeInv, Waiting
  <2>3. acc' = acc
    BY <1>f, <2>1, SameAcceptance
  <2>4. PICK e \in Taken(r) :
          answer' = [answer EXCEPT ![r] =
            IF e \notin deliveries THEN Told("NoAcceptance", NULL)
            ELSE IF asked[e].fingerprint # asked[r].fingerprint THEN Told("Conflict", NULL)
            ELSE Told("Replay", e)]
    BY <1>4 DEF Find, End
  <2>5. e \in events /\ e \in deliveries /\ asked[e].key = asked[r].key
    BY DEF Taken, SameKey, IInv, RowsTogether
  <2>6. asked[e] \in Asked
    BY <2>5 DEF IInv, TypeInv, Waiting, RowsTogether
  <2>7. acc[asked[r].key] = [fingerprint |-> asked[e].fingerprint, delivery |-> e]
    BY <1>f, <2>2, <2>5 DEF AcceptanceFacts, Asked
  <2>8. acc[asked[r].key] # NULL
    BY <2>5, <2>6, <2>7, IntakeAssumption DEF Asked, IInv, TypeInv
  <2>9. Once!Waits(r)
    BY <2>2, IntakeAssumption DEF Once!Waits, Asked
  <2>10. answer' = [answer EXCEPT ![r] =
           IF acc[asked[r].key].fingerprint = asked[r].fingerprint
           THEN Told("Replay", acc[asked[r].key].delivery)
           ELSE Told("Conflict", NULL)]
    <3>1. /\ acc[asked[r].key].fingerprint = asked[e].fingerprint
          /\ acc[asked[r].key].delivery = e
      BY <2>7
    <3> HIDE DEF acc
    <3>2. CASE asked[e].fingerprint = asked[r].fingerprint
      <4>1. answer' = [answer EXCEPT ![r] = Told("Replay", e)]
        BY <2>4, <2>5, <3>2
      <4> QED
        BY <3>1, <3>2, <4>1
    <3>3. CASE asked[e].fingerprint # asked[r].fingerprint
      <4>1. answer' = [answer EXCEPT ![r] = Told("Conflict", NULL)]
        BY <2>4, <2>5, <3>3
      <4> QED
        BY <3>1, <3>3, <4>1
    <3> QED
      BY <3>2, <3>3
  <2> QED
    BY <2>1, <2>3, <2>8, <2>9, <2>10, Zenon DEF Once!Replay, Once!Told, Told
<1>5. ASSUME NEW r \in Request, GiveUp(r) PROVE Once!Fail(r)
  <2>1. /\ phase[r] \in Calling /\ UNCHANGED <<asked, events>>
        /\ answer' = [answer EXCEPT ![r] = Told("Failed", NULL)]
    BY <1>5 DEF GiveUp, End
  <2>2. acc' = acc
    BY <1>f, <2>1, SameAcceptance
  <2>3. Once!Waits(r)
    BY <2>1 DEF Once!Waits, IInv, Waiting, Calling, Open
  <2> QED
    BY <2>1, <2>2, <2>3 DEF Once!Fail, Once!Told, Told
<1>6. ASSUME UNCHANGED vars PROVE UNCHANGED Once!vars
  <2>1. UNCHANGED <<asked, events, answer>>
    BY <1>6 DEF vars
  <2>2. acc' = acc
    BY <1>f, <2>1, SameAcceptance
  <2> QED
    BY <2>1, <2>2 DEF Once!vars
<1> QED
  BY <1>1, <1>2, <1>3, <1>4, <1>5, <1>6 DEF Next, Work, Once!Next

\* The intake transaction implements a table in which each key is accepted in one step:
\* what its callers see of the races, rollbacks and lost answers is IntakeStore!Once.
THEOREM Refinement == Spec => ImplementsAcceptOnce
<1>1. Init => Once!Init
  BY DEF Init, Once!Init, Acceptance
<1>2. IInv /\ IInv' /\ [Next]_vars => [Once!Next]_Once!vars
  BY StepRefines
<1> QED
  BY <1>1, <1>2, Invariance, PTL DEF Spec, Once!Spec, ImplementsAcceptOnce

===============================================================================
