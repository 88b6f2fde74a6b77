--------------------------- MODULE RelayProcessProofs ---------------------------
(***************************************************************************)
(* Proofs that one process counts its permits right, keeps its promise to  *)
(* admitted deliveries, lets nobody in while it is torn down, ends its     *)
(* runs in bounded time and never waits for itself, for any number of      *)
(* calls, any destinations, limits, budgets and delays.                    *)
(***************************************************************************)
EXTENDS RelayProcess, FiniteSetTheorems, TLAPS

\* The inductive invariant, in the parts the steps of the engine, of the admission and
\* of the jobs can disturb.  A retry is decided only while attempts are left, which is
\* what bounds the count of attempts when it wakes up.
RunsOK ==
  /\ runs \in [Call -> Run \cup {NULL}]
  /\ \A c \in Call : Running(c) =>
       /\ runs[c].delay # NULL => runs[c].phase = "recording"
       /\ runs[c].phase = "sleeping" \/ runs[c].delay # NULL =>
            runs[c].attempts < MaxAttempts

\* A table of permits has for each destination as many as calls of a set are for it.
Counts(table, S) ==
  /\ table \in [Destination -> Nat]
  /\ \A d \in Destination : table[d] = OfDestination(S, d)

Sending == InPhase({"sending"})
Holding == InPhase({"waitingGlobal", "sending"})
Inside == {c \in Call : Holds(c)}

EnginePermits ==
  /\ Counts(destinationTaken, Holding) /\ Counts(active, Sending)
  /\ globalTaken = Cardinality(Sending) /\ globalTaken <= GlobalLimit

AdmissionPermits ==
  /\ calls \in [Call -> {"new"} \cup Underway \cup Answers]
  /\ Counts(destinationAdmitted, Inside)
  /\ globalAdmitted = Cardinality(Inside) /\ admitted = globalAdmitted
  /\ globalAdmitted <= QueueCapacity

\* A job exists only for a call that has got past storing.
JobsOK ==
  /\ queued \subseteq Call /\ pulled \subseteq Call /\ cancelled \subseteq Call
  /\ \A c \in Call : c \in queued \cup pulled \/ Running(c) =>
       calls[c] \in {"waiting"} \cup Answers

LifeOK == entry \in Entries /\ stage \in Stages /\ ready \in BOOLEAN

\* Once an embedded process closes, it is not ready any more; a Node process never is.
ReadyOnlyBeforeClosing ==
  /\ ready => stage = "serving" /\ entry = "embedded"
  /\ stage \in {"built", "closing"} => entry = "embedded"

ProcessInv ==
  /\ RunsOK /\ EnginePermits
  /\ AdmissionPermits /\ JobsOK
  /\ LifeOK /\ ReadyOnlyBeforeClosing

-------------------------------------------------------------------------------
(* Facts about the operators.                                              *)

\* One call more or less changes a count by one at most.
LEMMA Counting ==
  ASSUME NEW S \in SUBSET Call, NEW c \in Call
  PROVE  /\ Cardinality(S) \in Nat
         /\ c \in S => Cardinality(S) > 0
         /\ Cardinality(S \cup {c}) = IF c \in S THEN Cardinality(S) ELSE Cardinality(S) + 1
         /\ Cardinality(S \ {c}) = IF c \in S THEN Cardinality(S) - 1 ELSE Cardinality(S)
<1>1. IsFiniteSet(S)
  BY FS_Subset, EngineAssumption
<1>2. Cardinality(S) \in Nat
  BY <1>1, FS_CardinalityType
<1>3. c \in S => Cardinality(S) # 0
  BY <1>1, FS_EmptySet
<1>4. Cardinality(S \cup {c}) = IF c \in S THEN Cardinality(S) ELSE Cardinality(S) + 1
  BY <1>1, FS_AddElement
<1>5. Cardinality(S \ {c}) = IF c \in S THEN Cardinality(S) - 1 ELSE Cardinality(S)
  BY <1>1, FS_RemoveElement
<1> DEFINE n == Cardinality(S)
<1>6. n \in Nat /\ (c \in S => n # 0)
  BY <1>2, <1>3
<1> HIDE DEF n
<1>7. c \in S => n > 0
  BY <1>6
<1> QED
  BY <1>2, <1>4, <1>5, <1>7 DEF n

LEMMA CountingDestinations ==
  ASSUME NEW S \in SUBSET Call, NEW c \in Call, NEW d \in Destination
  PROVE  /\ OfDestination(S, d) \in Nat
         /\ c \in S /\ Target[c] = d => /\ OfDestination(S, d) > 0
                                      /\ OfDestination(S \ {c}, d) = OfDestination(S, d) - 1
         /\ c \notin S /\ Target[c] = d =>
              OfDestination(S \cup {c}, d) = OfDestination(S, d) + 1
         /\ Target[c] # d => /\ OfDestination(S \ {c}, d) = OfDestination(S, d)
                            /\ OfDestination(S \cup {c}, d) = OfDestination(S, d)
<1> DEFINE T == {e \in S : Target[e] = d}
<1>1. T \in SUBSET Call /\ (c \in T <=> c \in S /\ Target[c] = d)
  OBVIOUS
<1>2. CASE Target[c] = d
  <2>1. /\ {e \in S \cup {c} : Target[e] = d} = T \cup {c}
        /\ {e \in S \ {c} : Target[e] = d} = T \ {c}
    BY <1>2
  <2>2. OfDestination(S, d) = Cardinality(T)
    BY DEF OfDestination
  <2>3. /\ OfDestination(S \cup {c}, d) = Cardinality(T \cup {c})
        /\ OfDestination(S \ {c}, d) = Cardinality(T \ {c})
    BY <2>1 DEF OfDestination
  <2> HIDE DEF T
  <2>4. /\ Cardinality(T) \in Nat /\ (c \in T => Cardinality(T) > 0)
        /\ Cardinality(T \cup {c}) = IF c \in T THEN Cardinality(T) ELSE Cardinality(T) + 1
        /\ Cardinality(T \ {c}) = IF c \in T THEN Cardinality(T) - 1 ELSE Cardinality(T)
    BY <1>1, Counting
  <2> QED
    BY <1>1, <1>2, <2>2, <2>3, <2>4
<1>3. CASE Target[c] # d
  <2>1. /\ {e \in S \cup {c} : Target[e] = d} = T
        /\ {e \in S \ {c} : Target[e] = d} = T
    BY <1>3
  <2> HIDE DEF T
  <2> QED
    BY <1>1, <1>3, <2>1, Counting DEF OfDestination, T
<1> QED
  BY <1>2, <1>3

\* One call more, and one call less, for a table of permits.
LEMMA CountsMore ==
  ASSUME NEW table, NEW S \in SUBSET Call, Counts(table, S), NEW c \in Call, c \notin S
  PROVE  Counts([table EXCEPT ![Target[c]] = @ + 1], S \cup {c})
<1> DEFINE t == Target[c]
           more == [table EXCEPT ![t] = table[t] + 1]
<1>1. t \in Destination
  BY EngineAssumption
<1>2. table \in [Destination -> Nat] /\ \A d \in Destination : table[d] = OfDestination(S, d)
  BY DEF Counts
<1>3. \A d \in Destination : more[d] = IF d = t THEN table[t] + 1 ELSE table[d]
  BY <1>2
<1>4. more \in [Destination -> Nat]
  BY <1>1, <1>2
<1> HIDE DEF more
<1>5. ASSUME NEW d \in Destination PROVE more[d] = OfDestination(S \cup {c}, d)
  <2>1. CASE d = t
    <3>1. OfDestination(S \cup {c}, d) = OfDestination(S, d) + 1
      BY <2>1, CountingDestinations
    <3> QED
      BY <1>2, <1>3, <2>1, <3>1
  <2>2. CASE d # t
    <3>1. OfDestination(S \cup {c}, d) = OfDestination(S, d)
      BY <2>2, CountingDestinations
    <3> QED
      BY <1>2, <1>3, <2>2, <3>1
  <2> QED
    BY <2>1, <2>2
<1>6. Counts(more, S \cup {c})
  BY <1>4, <1>5 DEF Counts
<1> QED
  BY <1>6 DEF more

LEMMA CountsLess ==
  ASSUME NEW table, NEW S \in SUBSET Call, Counts(table, S), NEW c \in S
  PROVE  Counts([table EXCEPT ![Target[c]] = @ - 1], S \ {c})
<1> DEFINE t == Target[c]
           less == [table EXCEPT ![t] = table[t] - 1]
<1>1. c \in Call /\ t \in Destination
  BY EngineAssumption
<1>2. table \in [Destination -> Nat] /\ \A d \in Destination : table[d] = OfDestination(S, d)
  BY DEF Counts
<1>3. \A d \in Destination : less[d] = IF d = t THEN table[t] - 1 ELSE table[d]
  BY <1>2
<1>4. OfDestination(S, t) > 0
  BY <1>1, CountingDestinations
<1>5. table[t] - 1 \in Nat
  BY <1>1, <1>2, <1>4
<1>6. less \in [Destination -> Nat]
  BY <1>2, <1>5
<1> HIDE DEF less
<1>7. ASSUME NEW d \in Destination PROVE less[d] = OfDestination(S \ {c}, d)
  <2>1. CASE d = t
    <3>1. OfDestination(S \ {c}, d) = OfDestination(S, d) - 1
      BY <1>1, <2>1, CountingDestinations
    <3> QED
      BY <1>2, <1>3, <2>1, <3>1
  <2>2. CASE d # t
    <3>1. OfDestination(S \ {c}, d) = OfDestination(S, d)
      BY <1>1, <2>2, CountingDestinations
    <3> QED
      BY <1>2, <1>3, <2>2, <3>1
  <2> QED
    BY <2>1, <2>2
<1>8. Counts(less, S \ {c})
  BY <1>6, <1>7 DEF Counts
<1> QED
  BY <1>8 DEF less

\* The least and the greatest of two instants.
LEMMA MinMax ==
  \A a, b \in Int :
    /\ Min({a, b}) \in {a, b} /\ Max({a, b}) \in {a, b}
    /\ Min({a, b}) <= a /\ Min({a, b}) <= b
    /\ Max({a, b}) >= a /\ Max({a, b}) >= b
<1> SUFFICES ASSUME NEW a \in Int, NEW b \in Int
    PROVE  /\ Min({a, b}) \in {a, b} /\ Max({a, b}) \in {a, b}
           /\ Min({a, b}) <= a /\ Min({a, b}) <= b
           /\ Max({a, b}) >= a /\ Max({a, b}) >= b
  OBVIOUS
<1> DEFINE S == {a, b}
<1>1. /\ \E m \in S : \A e \in S : m <= e
      /\ \E m \in S : \A e \in S : m >= e
  <2>1. CASE a <= b
    BY <2>1
  <2>2. CASE b <= a
    BY <2>2
  <2> QED
    BY <2>1, <2>2
<1>2. a \in S /\ b \in S
  OBVIOUS
<1> HIDE DEF S
<1>3. Min(S) \in S /\ \A e \in S : Min(S) <= e
  BY <1>1 DEF Min
<1>4. Max(S) \in S /\ \A e \in S : Max(S) >= e
  BY <1>1 DEF Max
<1> QED
  BY <1>2, <1>3, <1>4 DEF S

\* The timeout of an attempt is within what is left, or 0.
LEMMA TimeoutNat ==
  ASSUME NEW left \in Int
  PROVE  /\ Timeout(left) \in Nat
         /\ Timeout(left) <= AttemptTimeout
         /\ Timeout(left) <= left \/ Timeout(left) = 0
<1> DEFINE l == Max({left, 0})
<1>1. l \in {left, 0} /\ l >= 0
  BY MinMax
<1>2. l \in Nat /\ AttemptTimeout \in Nat
  BY <1>1, EngineAssumption
<1> HIDE DEF l
<1>3. /\ Min({AttemptTimeout, l}) \in {AttemptTimeout, l}
      /\ Min({AttemptTimeout, l}) <= AttemptTimeout /\ Min({AttemptTimeout, l}) <= l
  BY <1>2, MinMax
<1>4. Timeout(left) = Min({AttemptTimeout, l})
  BY DEF Timeout, l
<1> HIDE DEF l
<1> QED
  BY <1>1, <1>2, <1>3, <1>4

LEMMA DelayNat ==
  ASSUME NEW run \in Run, NEW jitter \in Nat, NEW retryAfter \in Nat
  PROVE  /\ Delay(run, jitter, retryAfter) \in Nat \cup {NULL}
         /\ Delay(run, jitter, retryAfter) # NULL =>
              /\ run.attempts < MaxAttempts
              /\ Delay(run, jitter, retryAfter) < run.left
<1>1. run.left \in Int
  BY DEF Run
<1> DEFINE m == Max({jitter, retryAfter})
           l == Max({run.left, 0})
<1>2. m \in {jitter, retryAfter} /\ l \in {run.left, 0} /\ l >= 0
  <2>1. jitter \in Int /\ retryAfter \in Int /\ 0 \in Int
    OBVIOUS
  <2>2. m \in {jitter, retryAfter}
    BY <2>1, MinMax
  <2>3. l \in {run.left, 0} /\ l >= 0
    BY <1>1, <2>1, MinMax
  <2> QED
    BY <2>2, <2>3
<1>3. m \in Nat /\ l \in Nat
  BY <1>1, <1>2
<1> HIDE DEF m, l
<1> DEFINE delay == Min({m, l})
<1>4. delay \in Nat
  <2>1. m \in Int /\ l \in Int
    BY <1>3
  <2>2. delay \in {m, l}
    BY <2>1, MinMax
  <2> QED
    BY <1>3, <2>2
<1> HIDE DEF delay
<1>5. Delay(run, jitter, retryAfter) =
        IF run.attempts < MaxAttempts /\ delay < run.left THEN delay ELSE NULL
  BY DEF Delay, delay, m, l
<1>6. CASE run.attempts < MaxAttempts /\ delay < run.left
  BY <1>4, <1>5, <1>6
<1>7. CASE ~(run.attempts < MaxAttempts /\ delay < run.left)
  BY <1>5, <1>7
<1> QED
  BY <1>6, <1>7

-------------------------------------------------------------------------------
(* The permits of the engine.                                              *)

\* The calls in a phase after the run of one of them has changed.
LEMMA PhaseEnter ==
  ASSUME runs \in [Call -> Run \cup {NULL}], NEW c \in Call, NEW r \in Run,
         runs' = [runs EXCEPT ![c] = r], NEW CONSTANT phases, r.phase \in phases
  PROVE  InPhase(phases)' = InPhase(phases) \cup {c}
BY RunAssumption DEF InPhase, Running

LEMMA PhaseLeave ==
  ASSUME runs \in [Call -> Run \cup {NULL}], NEW c \in Call, NEW r,
         runs' = [runs EXCEPT ![c] = r], NEW CONSTANT phases,
         r = NULL \/ r.phase \notin phases
  PROVE  InPhase(phases)' = InPhase(phases) \ {c}
BY DEF InPhase, Running

LEMMA InPhaseSubset == ASSUME NEW phases PROVE InPhase(phases) \in SUBSET Call
BY DEF InPhase

LEMMA TargetTyped == \A c \in Call : Target[c] \in Destination
BY EngineAssumption

\* A run that holds no permit before and after a step changes no count.
LEMMA WithoutPermit ==
  ASSUME RunsOK, EnginePermits, NEW c \in Call, NEW r,
         runs' = [runs EXCEPT ![c] = r], NoPermits,
         Running(c) => runs[c].phase \notin {"waitingGlobal", "sending"},
         r = NULL \/ r.phase \notin {"waitingGlobal", "sending"}
  PROVE  EnginePermits'
<1>1. Sending' = Sending \ {c} /\ Holding' = Holding \ {c}
  BY PhaseLeave DEF RunsOK, Sending, Holding
<1>2. c \notin Sending /\ c \notin Holding
  BY DEF Sending, Holding, InPhase
<1>3. Sending' = Sending /\ Holding' = Holding
  BY <1>1, <1>2
<1>4. UNCHANGED <<destinationTaken, globalTaken, active>>
  BY DEF NoPermits
<1> QED
  BY <1>3, <1>4 DEF EnginePermits

\* A run that ends its attempt, or ends, gives back what it holds.
LEMMA PermitsReturn ==
  ASSUME RunsOK, EnginePermits, NEW c \in Call, Running(c), Returns(c),
         NEW r, runs' = [runs EXCEPT ![c] = r],
         r = NULL \/ r.phase \notin {"waitingGlobal", "sending"}
  PROVE  EnginePermits'
<1> DEFINE waits == IF Is(c, "waitingGlobal") THEN 1 ELSE 0
           sends == IF Is(c, "sending") THEN 1 ELSE 0
           t == Target[c]
<1>1. /\ destinationTaken' = [destinationTaken EXCEPT ![t] = destinationTaken[t] - waits - sends]
      /\ globalTaken' = globalTaken - sends
      /\ active' = [active EXCEPT ![t] = active[t] - sends]
  BY DEF Returns
<1>2. Sending' = Sending \ {c} /\ Holding' = Holding \ {c}
  BY PhaseLeave DEF RunsOK, Sending, Holding
<1>3. /\ Sending \in SUBSET Call /\ Holding \in SUBSET Call
      /\ c \in Sending <=> runs[c].phase = "sending"
      /\ c \in Holding <=> runs[c].phase \in {"waitingGlobal", "sending"}
  BY DEF Sending, Holding, InPhase
<1>4. /\ Counts(destinationTaken, Holding) /\ Counts(active, Sending)
      /\ globalTaken = Cardinality(Sending) /\ globalTaken <= GlobalLimit
  BY DEF EnginePermits
<1>5. destinationTaken \in [Destination -> Nat] /\ active \in [Destination -> Nat]
  BY <1>4 DEF Counts
<1>6. t \in Destination
  BY TargetTyped
<1>7. Cardinality(Sending) \in Nat
  BY <1>3, Counting
<1> DEFINE n == destinationTaken[t]
           m == active[t]
<1>8. n \in Nat /\ m \in Nat
  BY <1>5, <1>6
<1>9. CASE runs[c].phase = "sending"
  <2>1. waits = 0 /\ sends = 1
    BY <1>9 DEF Is
  <2> HIDE DEF waits, sends
  <2>2. /\ destinationTaken' = [destinationTaken EXCEPT ![t] = @ - 1]
        /\ active' = [active EXCEPT ![t] = @ - 1]
        /\ globalTaken' = globalTaken - 1
    <3> HIDE DEF n, m
    <3>1. n - waits - sends = n - 1 /\ m - sends = m - 1
      BY <1>8, <2>1
    <3> QED
      BY <1>1, <2>1, <3>1 DEF n, m
  <2>3. Counts(destinationTaken', Holding') /\ Counts(active', Sending')
    BY <1>2, <1>3, <1>4, <1>9, <2>2, CountsLess
  <2>4. Cardinality(Sending') = Cardinality(Sending) - 1
    BY <1>2, <1>3, <1>9, Counting
  <2> QED
    BY <1>4, <1>7, <2>2, <2>3, <2>4, EngineAssumption DEF EnginePermits
<1>10. CASE runs[c].phase = "waitingGlobal"
  <2>1. waits = 1 /\ sends = 0
    BY <1>10 DEF Is
  <2> HIDE DEF waits, sends
  <2>2. /\ destinationTaken' = [destinationTaken EXCEPT ![t] = @ - 1]
        /\ active' = active /\ globalTaken' = globalTaken
    <3>1. active' = active /\ globalTaken' = globalTaken
      BY <1>1, <1>4, <1>5, <1>6, <1>7, <2>1
    <3> HIDE DEF n, m
    <3>2. n - waits - sends = n - 1
      BY <1>8, <2>1
    <3> QED
      BY <1>1, <3>1, <3>2 DEF n
  <2>3. Sending' = Sending
    BY <1>2, <1>3, <1>10
  <2>4. Counts(destinationTaken', Holding')
    BY <1>2, <1>3, <1>4, <1>10, <2>2, CountsLess
  <2> QED
    BY <1>4, <2>2, <2>3, <2>4 DEF EnginePermits
<1>11. CASE runs[c].phase \notin {"waitingGlobal", "sending"}
  <2>1. waits = 0 /\ sends = 0
    BY <1>11 DEF Is
  <2> HIDE DEF waits, sends
  <2>2. NoPermits
    BY <1>1, <1>4, <1>5, <1>6, <1>7, <2>1 DEF NoPermits
  <2> QED
    BY <1>11, <2>2, WithoutPermit
<1> QED
  BY <1>9, <1>10, <1>11

\* One run goes on to a phase, keeping what it counts and what it has decided.
LEMMA PhaseKeepsRunsOK ==
  ASSUME RunsOK, NEW c \in Call, Running(c), NEW phase \in Phases \ {"sleeping"},
         runs[c].phase # "recording",
         runs' = [runs EXCEPT ![c] = [runs[c] EXCEPT !.phase = phase]]
  PROVE  /\ RunsOK'
         /\ [runs[c] EXCEPT !.phase = phase] \in Run
         /\ [runs[c] EXCEPT !.phase = phase].phase = phase
<1> DEFINE r == [runs[c] EXCEPT !.phase = phase]
<1>1. runs[c] \in Run /\ runs[c].delay = NULL
  BY DEF RunsOK, Running
<1>2. r \in Run /\ r.phase = phase /\ r.delay = NULL
  BY <1>1 DEF Run
<1> HIDE DEF r
<1>3. RunsOK'
  BY <1>2 DEF RunsOK, Running, r
<1> QED
  BY <1>2, <1>3 DEF r

LEMMA DestinationStep ==
  ASSUME RunsOK, EnginePermits, NEW c \in Call, TakeDestination(c)
  PROVE  RunsOK' /\ EnginePermits'
<1> DEFINE r == [runs[c] EXCEPT !.phase = "waitingGlobal"]
<1>1. /\ Running(c) /\ runs[c].phase = "waitingDestination"
      /\ destinationTaken' = [destinationTaken EXCEPT ![Target[c]] = @ + 1]
      /\ runs' = [runs EXCEPT ![c] = r]
      /\ UNCHANGED <<globalTaken, active>>
  BY DEF TakeDestination, Is
<1>2. RunsOK' /\ r \in Run /\ r.phase = "waitingGlobal"
  BY <1>1, PhaseKeepsRunsOK DEF Phases
<1> HIDE DEF r
<1>3. runs \in [Call -> Run \cup {NULL}]
  BY DEF RunsOK
<1>4. Holding' = Holding \cup {c}
  BY <1>1, <1>2, <1>3, PhaseEnter DEF Holding
<1>5. Sending' = Sending \ {c}
  BY <1>1, <1>2, <1>3, PhaseLeave DEF Sending
<1>6. c \notin Holding /\ c \notin Sending /\ Holding \in SUBSET Call
  BY <1>1 DEF Holding, Sending, InPhase
<1>7. Counts(destinationTaken', Holding')
  BY <1>1, <1>4, <1>6, CountsMore DEF EnginePermits
<1> QED
  BY <1>1, <1>2, <1>5, <1>6, <1>7 DEF EnginePermits

LEMMA GlobalStep ==
  ASSUME RunsOK, EnginePermits, NEW c \in Call, TakeGlobal(c)
  PROVE  RunsOK' /\ EnginePermits'
<1> DEFINE r == [runs[c] EXCEPT !.phase = "sending"]
<1>1. /\ Running(c) /\ runs[c].phase = "waitingGlobal"
      /\ globalTaken < GlobalLimit /\ globalTaken' = globalTaken + 1
      /\ active' = [active EXCEPT ![Target[c]] = @ + 1]
      /\ runs' = [runs EXCEPT ![c] = r]
      /\ UNCHANGED destinationTaken
  BY DEF TakeGlobal, Is
<1>2. RunsOK' /\ r \in Run /\ r.phase = "sending"
  BY <1>1, PhaseKeepsRunsOK DEF Phases
<1> HIDE DEF r
<1>3. runs \in [Call -> Run \cup {NULL}]
  BY DEF RunsOK
<1>4. Holding' = Holding \cup {c}
  BY <1>1, <1>2, <1>3, PhaseEnter DEF Holding
<1>5. Sending' = Sending \cup {c}
  BY <1>1, <1>2, <1>3, PhaseEnter DEF Sending
<1>6. c \in Holding /\ c \notin Sending /\ Sending \in SUBSET Call
  BY <1>1 DEF Holding, Sending, InPhase
<1>7. Holding' = Holding
  BY <1>4, <1>6
<1>8. Counts(active', Sending')
  BY <1>1, <1>5, <1>6, CountsMore DEF EnginePermits
<1>9. globalTaken' = Cardinality(Sending') /\ globalTaken' <= GlobalLimit
  <2>1. Cardinality(Sending) \in Nat /\ Cardinality(Sending') = Cardinality(Sending) + 1
    BY <1>5, <1>6, Counting
  <2> QED
    BY <1>1, <2>1, EngineAssumption DEF EnginePermits
<1> QED
  BY <1>1, <1>2, <1>7, <1>8, <1>9 DEF EnginePermits

\* A run is replaced by another one, which has decided nothing it must not.
LEMMA RunReplaced ==
  ASSUME RunsOK, NEW c \in Call, NEW r \in Run \cup {NULL}, runs' = [runs EXCEPT ![c] = r],
         r # NULL => /\ r.delay # NULL => r.phase = "recording"
                     /\ r.phase = "sleeping" \/ r.delay # NULL => r.attempts < MaxAttempts
  PROVE  RunsOK'
BY DEF RunsOK, Running

LEMMA StartStep ==
  ASSUME RunsOK, EnginePermits, NEW c \in Call, Start(c)
  PROVE  RunsOK' /\ EnginePermits'
<1> DEFINE r == [phase |-> "waitingDestination", attempts |-> 1, left |-> MaxElapsed,
                 timer |-> Timeout(MaxElapsed), delay |-> NULL]
<1>1. ~Running(c) /\ runs' = [runs EXCEPT ![c] = r] /\ NoPermits
  BY DEF Start
<1>2. MaxElapsed \in Int /\ 1 \in 1..MaxAttempts
  BY EngineAssumption
<1>3. r \in Run /\ r.phase = "waitingDestination" /\ r.delay = NULL
  BY <1>2, TimeoutNat DEF Run, Phases
<1> HIDE DEF r
<1>4. RunsOK'
  BY <1>1, <1>3, RunReplaced
<1> QED
  BY <1>1, <1>3, <1>4, WithoutPermit

LEMMA AnswerStep ==
  ASSUME RunsOK, EnginePermits, NEW c \in Call, NEW retryAfter \in RetryAfters \cup {NULL},
         Answer(c, retryAfter)
  PROVE  RunsOK' /\ EnginePermits'
<1>1. PICK jitter \in 0..(MaxDelay - 1) :
        runs' = [runs EXCEPT ![c].phase = "recording", ![c].timer = RecordTime,
          ![c].delay = IF retryAfter = NULL THEN NULL ELSE Delay(runs[c], jitter, retryAfter)]
  BY DEF Answer
<1> DEFINE delay == IF retryAfter = NULL THEN NULL ELSE Delay(runs[c], jitter, retryAfter)
           r == [runs[c] EXCEPT !.phase = "recording", !.timer = RecordTime, !.delay = delay]
<1>2. Running(c) /\ Returns(c) /\ runs[c] \in Run
  BY DEF Answer, Is, RunsOK, Running
<1>3. delay \in Nat \cup {NULL} /\ (delay # NULL => runs[c].attempts < MaxAttempts)
  <2>1. CASE retryAfter = NULL
    BY <2>1
  <2>2. CASE retryAfter # NULL
    <3>1. jitter \in Nat /\ retryAfter \in Nat
      BY <2>2, EngineAssumption
    <3> QED
      BY <1>2, <2>2, <3>1, DelayNat
  <2> QED
    BY <2>1, <2>2
<1>4. runs' = [runs EXCEPT ![c] = r]
  BY <1>1, <1>2 DEF RunsOK
<1> HIDE DEF delay
<1>5. /\ r \in Run /\ r.phase = "recording" /\ r.delay = delay
      /\ r.attempts = runs[c].attempts
  BY <1>2, <1>3, EngineAssumption DEF Run, Phases
<1> HIDE DEF r
<1>6. RunsOK'
  BY <1>3, <1>4, <1>5, RunReplaced
<1>7. EnginePermits'
  BY <1>2, <1>4, <1>5, PermitsReturn
<1> QED
  BY <1>6, <1>7

LEMMA RecordedStep ==
  ASSUME RunsOK, EnginePermits, NEW c \in Call, Recorded(c)
  PROVE  RunsOK' /\ EnginePermits'
<1> DEFINE r == [runs[c] EXCEPT !.phase = "sleeping", !.timer = runs[c].delay, !.delay = NULL]
<1>1. /\ Running(c) /\ runs[c].phase = "recording" /\ runs[c].delay # NULL
      /\ runs' = [runs EXCEPT ![c].phase = "sleeping", ![c].timer = runs[c].delay,
                              ![c].delay = NULL]
      /\ NoPermits
  BY DEF Recorded, Is
<1>2. runs[c] \in Run /\ runs[c].attempts < MaxAttempts
  BY <1>1 DEF RunsOK, Running
<1>3. runs' = [runs EXCEPT ![c] = r]
  BY <1>1 DEF RunsOK
<1>4. /\ r \in Run /\ r.phase = "sleeping" /\ r.delay = NULL
      /\ r.attempts = runs[c].attempts
  BY <1>1, <1>2 DEF Run, Phases
<1> HIDE DEF r
<1>5. RunsOK'
  BY <1>2, <1>3, <1>4, RunReplaced
<1>6. EnginePermits'
  BY <1>1, <1>3, <1>4, WithoutPermit
<1> QED
  BY <1>5, <1>6

LEMMA FinishStep ==
  ASSUME RunsOK, EnginePermits, NEW c \in Call, Finish(c)
  PROVE  RunsOK' /\ EnginePermits'
<1>1. /\ Running(c) /\ runs[c].phase = "recording" /\ NoPermits
      /\ runs' = [runs EXCEPT ![c] = NULL]
  BY DEF Finish, Is
<1>2. RunsOK'
  BY <1>1, RunReplaced
<1> QED
  BY <1>1, <1>2, WithoutPermit

LEMMA WakeStep ==
  ASSUME RunsOK, EnginePermits, NEW c \in Call, Wake(c)
  PROVE  RunsOK' /\ EnginePermits'
<1> DEFINE time == Timeout(runs[c].left)
           r == [runs[c] EXCEPT !.phase = "waitingDestination",
                                !.attempts = runs[c].attempts + 1, !.timer = time]
<1>1. /\ Running(c) /\ runs[c].phase = "sleeping"
      /\ runs' = [runs EXCEPT ![c].phase = "waitingDestination",
                              ![c].attempts = runs[c].attempts + 1, ![c].timer = time]
      /\ NoPermits
  BY DEF Wake, Is
<1>2. /\ runs[c] \in Run /\ runs[c].attempts < MaxAttempts /\ runs[c].delay = NULL
      /\ runs[c].attempts \in 1..MaxAttempts /\ runs[c].left \in Int
  BY <1>1 DEF RunsOK, Running, Run
<1>3. runs' = [runs EXCEPT ![c] = r]
  BY <1>1 DEF RunsOK
<1>4. time \in Nat
  BY <1>2, TimeoutNat
<1>5. runs[c].attempts + 1 \in 1..MaxAttempts
  BY <1>2, EngineAssumption
<1> HIDE DEF time
<1>6. r \in Run /\ r.phase = "waitingDestination" /\ r.delay = NULL
  BY <1>2, <1>4, <1>5 DEF Run, Phases
<1> HIDE DEF r
<1>7. RunsOK'
  BY <1>3, <1>6, RunReplaced
<1>8. EnginePermits'
  BY <1>1, <1>3, <1>6, WithoutPermit
<1> QED
  BY <1>7, <1>8

LEMMA InterruptStep ==
  ASSUME RunsOK, EnginePermits, NEW c \in Call, Interrupt(c)
  PROVE  RunsOK' /\ EnginePermits'
<1>1. Running(c) /\ Returns(c) /\ runs' = [runs EXCEPT ![c] = NULL]
  BY DEF Interrupt
<1>2. RunsOK'
  BY <1>1, RunReplaced
<1> QED
  BY <1>1, <1>2, PermitsReturn

LEMMA ElapseStep ==
  ASSUME RunsOK, EnginePermits, EngineElapse
  PROVE  /\ RunsOK' /\ EnginePermits'
         /\ \A c \in Call : Running(c)' <=> Running(c)
<1>1. /\ \A c \in Call : ~Due(c)
      /\ runs' = [c \in Call |-> IF Running(c) THEN Closer(runs[c]) ELSE NULL]
      /\ UNCHANGED <<destinationTaken, globalTaken, active>>
  BY DEF EngineElapse, NoPermits
<1>2. ASSUME NEW c \in Call, Running(c)
      PROVE  /\ Closer(runs[c]) \in Run
             /\ Closer(runs[c]).phase = runs[c].phase
             /\ Closer(runs[c]).delay = runs[c].delay
             /\ Closer(runs[c]).attempts = runs[c].attempts
  <2>1. runs[c] \in Run
    BY <1>2 DEF RunsOK, Running
  <2>2. runs[c].left \in Int /\ runs[c].timer \in Nat
    BY <2>1 DEF Run
  <2>3. runs[c].phase \in Timed => runs[c].timer # 0
    BY <1>1, <1>2 DEF Due
  <2> DEFINE left == runs[c].left - 1
             timer == IF runs[c].phase \in Timed THEN runs[c].timer - 1 ELSE runs[c].timer
  <2>4. left \in Int /\ timer \in Nat
    BY <2>2, <2>3
  <2> HIDE DEF left, timer
  <2>5. Closer(runs[c]) = [runs[c] EXCEPT !.left = left, !.timer = timer]
    BY DEF Closer, left, timer
  <2> QED
    BY <2>1, <2>4, <2>5 DEF Run
<1>3. \A c \in Call : /\ Running(c)' <=> Running(c)
                      /\ Running(c) => runs'[c].phase = runs[c].phase
  BY <1>1, <1>2, RunAssumption DEF Running
<1>4. RunsOK'
  <2>1. runs' \in [Call -> Run \cup {NULL}]
    BY <1>1, <1>2
  <2> QED
    BY <1>1, <1>2, <1>3, <2>1 DEF RunsOK
<1>5. Sending' = Sending /\ Holding' = Holding
  BY <1>3 DEF Sending, Holding, InPhase
<1> QED
  BY <1>1, <1>3, <1>4, <1>5 DEF EnginePermits

-------------------------------------------------------------------------------
(* The permits of the admission.                                           *)

CallStates == {"new"} \cup Underway \cup Answers

\* A call goes on with the permits it has, or without any.
LEMMA CallGoesOn ==
  ASSUME AdmissionPermits, NEW c \in Call, NEW state \in CallStates,
         Holds(c) <=> state \in {"admitted", "waiting"},
         To(c, state), NoAdmission
  PROVE  AdmissionPermits'
<1>1. /\ calls' = [calls EXCEPT ![c] = state]
      /\ UNCHANGED <<destinationAdmitted, globalAdmitted, admitted>>
  BY DEF To, NoAdmission, admissionVars
<1>2. Inside' = Inside
  BY <1>1 DEF Inside, Holds, AdmissionPermits
<1>3. calls' \in [Call -> CallStates]
  BY <1>1 DEF AdmissionPermits, CallStates
<1> QED
  BY <1>1, <1>2, <1>3 DEF AdmissionPermits, CallStates

\* A call ends and gives both permits back, if it has them.
LEMMA CallLeaves ==
  ASSUME AdmissionPermits, NEW c \in Call, NEW state \in Answers, To(c, state), Leaves(c)
  PROVE  AdmissionPermits'
<1> DEFINE n == IF Holds(c) THEN 1 ELSE 0
           t == Target[c]
<1>1. /\ calls' = [calls EXCEPT ![c] = state]
      /\ destinationAdmitted' =
           [destinationAdmitted EXCEPT ![t] = destinationAdmitted[t] - n]
      /\ globalAdmitted' = globalAdmitted - n
      /\ admitted' = admitted - n
  BY DEF To, Leaves
<1>2. calls' \in [Call -> CallStates]
  BY <1>1 DEF AdmissionPermits, CallStates
<1>3. Inside' = Inside \ {c} /\ Inside \in SUBSET Call /\ (c \in Inside <=> Holds(c))
  BY <1>1 DEF Inside, Holds, AdmissionPermits, Answers
<1>4. /\ Counts(destinationAdmitted, Inside)
      /\ globalAdmitted = Cardinality(Inside) /\ admitted = globalAdmitted
      /\ globalAdmitted <= QueueCapacity
  BY DEF AdmissionPermits
<1>5. Cardinality(Inside) \in Nat
  BY <1>3, Counting
<1>6. destinationAdmitted \in [Destination -> Nat] /\ t \in Destination
  BY <1>4, TargetTyped DEF Counts
<1>7. CASE Holds(c)
  <2>1. /\ destinationAdmitted' = [destinationAdmitted EXCEPT ![t] = @ - 1]
        /\ globalAdmitted' = globalAdmitted - 1 /\ admitted' = admitted - 1
    BY <1>1, <1>7
  <2>2. Counts(destinationAdmitted', Inside')
    BY <1>3, <1>4, <1>7, <2>1, CountsLess
  <2>3. Cardinality(Inside') = Cardinality(Inside) - 1
    BY <1>3, <1>7, Counting
  <2> QED
    BY <1>2, <1>4, <1>5, <2>1, <2>2, <2>3, ProcessAssumption
       DEF AdmissionPermits, CallStates
<1>8. CASE ~Holds(c)
  <2>1. n = 0
    BY <1>8
  <2> HIDE DEF n
  <2>2. /\ destinationAdmitted' = destinationAdmitted
        /\ globalAdmitted' = globalAdmitted /\ admitted' = admitted
    BY <1>1, <1>4, <1>5, <1>6, <2>1
  <2>3. Inside' = Inside
    BY <1>3, <1>8
  <2> QED
    BY <1>2, <1>4, <2>2, <2>3 DEF AdmissionPermits, CallStates
<1> QED
  BY <1>7, <1>8

LEMMA ComeInStep ==
  ASSUME AdmissionPermits, NEW c \in Call, ComeIn(c)
  PROVE  /\ AdmissionPermits'
         /\ \E state \in {"admitted", "accepting", "refused"} : To(c, state)
<1>1. At(c, "new") /\ ~Holds(c)
  BY DEF ComeIn, At, Holds
<1>2. CASE Admit(c) /\ To(c, "admitted") /\ globalAdmitted < QueueCapacity
           /\ destinationAdmitted' = [destinationAdmitted EXCEPT ![Target[c]] = @ + 1]
           /\ globalAdmitted' = globalAdmitted + 1 /\ admitted' = admitted + 1
  <2>1. Inside' = Inside \cup {c} /\ Inside \in SUBSET Call /\ c \notin Inside
    BY <1>1, <1>2 DEF To, Inside, Holds, AdmissionPermits
  <2>2. Counts(destinationAdmitted', Inside')
    BY <1>2, <2>1, CountsMore DEF AdmissionPermits
  <2>3. Cardinality(Inside) \in Nat /\ Cardinality(Inside') = Cardinality(Inside) + 1
    BY <2>1, Counting
  <2>4. calls' \in [Call -> CallStates]
    BY <1>2 DEF To, AdmissionPermits, CallStates, Underway
  <2>5. globalAdmitted' = Cardinality(Inside') /\ admitted' = globalAdmitted'
        /\ globalAdmitted' <= QueueCapacity
    BY <1>2, <2>3, ProcessAssumption DEF AdmissionPermits
  <2> QED
    BY <1>2, <2>2, <2>4, <2>5 DEF AdmissionPermits, CallStates
<1>3. CASE To(c, "refused") /\ NoAdmission
  BY <1>1, <1>3, CallGoesOn DEF CallStates, Answers
<1>4. CASE To(c, "accepting") /\ NoAdmission
  BY <1>1, <1>4, CallGoesOn DEF CallStates, Underway
<1> QED
  BY <1>2, <1>3, <1>4 DEF ComeIn, Admit

-------------------------------------------------------------------------------
(* Every step of the process.                                              *)

\* What a step leaves alone keeps its part of the invariant.
LEMMA EngineKept ==
  ASSUME RunsOK, EnginePermits, UNCHANGED engineVars
  PROVE  RunsOK' /\ EnginePermits' /\ \A c \in Call : Running(c)' <=> Running(c)
<1>1. UNCHANGED <<runs, destinationTaken, globalTaken, active>>
  BY DEF engineVars
<1>2. \A c \in Call : Running(c)' <=> Running(c)
  BY <1>1 DEF Running
<1>3. RunsOK'
  BY <1>1 DEF RunsOK, Running
<1>4. Sending' = Sending /\ Holding' = Holding
  BY <1>1 DEF Sending, Holding, InPhase, Running
<1>5. EnginePermits'
  BY <1>1, <1>4 DEF EnginePermits
<1> QED
  BY <1>2, <1>3, <1>5

LEMMA LifeKept ==
  ASSUME LifeOK, ReadyOnlyBeforeClosing, UNCHANGED lifeVars
  PROVE  LifeOK' /\ ReadyOnlyBeforeClosing'
BY DEF lifeVars, LifeOK, ReadyOnlyBeforeClosing

LEMMA AdmissionKept ==
  ASSUME AdmissionPermits, UNCHANGED <<calls, admissionVars>>
  PROVE  AdmissionPermits'
<1>1. UNCHANGED <<calls, destinationAdmitted, globalAdmitted, admitted>>
  BY DEF admissionVars
<1>2. Inside' = Inside
  BY <1>1 DEF Inside, Holds
<1> QED
  BY <1>1, <1>2 DEF AdmissionPermits

\* A step that makes no job for a call that has not got past storing, and takes no call
\* back behind it.
LEMMA JobsKept ==
  ASSUME JobsOK, queued' \cup pulled' \subseteq queued \cup pulled, cancelled' \subseteq Call,
         \A c \in Call : Running(c)' => Running(c) \/ c \in queued \cup pulled,
         \A c \in Call : calls[c] \in {"waiting"} \cup Answers =>
           calls'[c] \in {"waiting"} \cup Answers
  PROVE  JobsOK'
BY DEF JobsOK

\* The start and the end of the process.
LEMMA LifeStep ==
  ASSUME ProcessInv, Build \/ MarkReady \/ Shutdown \/ Dispose \/ Disposed
  PROVE  ProcessInv'
<1>1. /\ RunsOK /\ EnginePermits /\ AdmissionPermits /\ JobsOK
      /\ LifeOK /\ ReadyOnlyBeforeClosing
  BY DEF ProcessInv
<1>2. UNCHANGED <<engineVars, calls, jobVars, admissionVars>>
  BY DEF Build, MarkReady, Shutdown, Dispose, Disposed
<1>3. RunsOK' /\ EnginePermits' /\ \A c \in Call : Running(c)' <=> Running(c)
  BY <1>1, <1>2, EngineKept
<1>4. AdmissionPermits'
  BY <1>1, <1>2, AdmissionKept
<1>5. JobsOK'
  BY <1>1, <1>2, <1>3 DEF JobsOK, jobVars
<1>6. LifeOK' /\ ReadyOnlyBeforeClosing'
  <2>1. CASE Build
    BY <1>1, <2>1 DEF Build, LifeOK, ReadyOnlyBeforeClosing, Entries, Stages
  <2>2. CASE MarkReady
    BY <1>1, <2>2 DEF MarkReady, LifeOK, ReadyOnlyBeforeClosing, Entries, Stages
  <2>3. CASE Shutdown
    BY <1>1, <2>3 DEF Shutdown, LifeOK, ReadyOnlyBeforeClosing, Entries, Stages
  <2>4. CASE Dispose
    BY <1>1, <2>4 DEF Dispose, LifeOK, ReadyOnlyBeforeClosing, Entries, Stages
  <2>5. CASE Disposed
    BY <1>1, <2>5 DEF Disposed, LifeOK, ReadyOnlyBeforeClosing, Entries, Stages
  <2> QED
    BY <2>1, <2>2, <2>3, <2>4, <2>5
<1> QED
  BY <1>3, <1>4, <1>5, <1>6 DEF ProcessInv

\* A call comes in, is stored, fails, or loses its caller.
LEMMA CallStep ==
  ASSUME ProcessInv, NEW c \in Call,
         Arrive(c) \/ CallIn(c) \/ Store(c) \/ StoreFails(c) \/ Gone(c)
  PROVE  ProcessInv'
<1>1. /\ RunsOK /\ EnginePermits /\ AdmissionPermits /\ JobsOK
      /\ LifeOK /\ ReadyOnlyBeforeClosing
  BY DEF ProcessInv
<1>2. UNCHANGED <<engineVars, lifeVars>>
  BY DEF Arrive, CallIn, Store, StoreFails, Gone
<1>3. RunsOK' /\ EnginePermits' /\ \A e \in Call : Running(e)' <=> Running(e)
  BY <1>1, <1>2, EngineKept
<1>4. LifeOK' /\ ReadyOnlyBeforeClosing'
  BY <1>1, <1>2, LifeKept
<1>5. calls \in [Call -> CallStates]
  BY <1>1 DEF AdmissionPermits, CallStates
<1>6. AdmissionPermits' /\ JobsOK'
  <2>1. CASE Arrive(c) \/ CallIn(c)
    <3>1. At(c, "new") /\ UNCHANGED jobVars
      BY <2>1 DEF Arrive, CallIn, ComeIn
    <3>2. ComeIn(c) \/ (To(c, "refused") /\ NoAdmission)
      BY <2>1 DEF Arrive, CallIn
    <3>3. /\ AdmissionPermits'
          /\ \E state \in {"admitted", "accepting", "refused"} : To(c, state)
      <4>1. CASE ComeIn(c)
        BY <1>1, <4>1, ComeInStep
      <4>2. CASE To(c, "refused") /\ NoAdmission
        BY <1>1, <3>1, <4>2, CallGoesOn DEF CallStates, Answers, At, Holds
      <4> QED
        BY <3>2, <4>1, <4>2
    <3>4. \A e \in Call : calls[e] \in {"waiting"} \cup Answers =>
            calls'[e] \in {"waiting"} \cup Answers
      BY <1>5, <3>1, <3>3 DEF To, At, Answers
    <3>5. JobsOK'
      BY <1>1, <1>3, <3>1, <3>4, JobsKept DEF jobVars, JobsOK
    <3> QED
      BY <3>3, <3>5
  <2>2. CASE Store(c)
    <3>1. \E state \in {"ended", "waiting", "refused"} : To(c, state)
      BY <2>2 DEF Store
    <3>2. AdmissionPermits'
      <4>1. CASE At(c, "accepting")
        <5>1. To(c, "ended") /\ NoAdmission /\ ~Holds(c)
          BY <2>2, <4>1 DEF Store, At, Holds
        <5> QED
          BY <1>1, <5>1, CallGoesOn DEF CallStates, Answers
      <4>2. CASE ~At(c, "accepting") /\ Cardinality(queued) < QueueCapacity
        <5>1. To(c, "waiting") /\ NoAdmission /\ Holds(c)
          BY <2>2, <4>2 DEF Store, At, Holds
        <5> QED
          BY <1>1, <5>1, CallGoesOn DEF CallStates, Underway
      <4>3. CASE ~At(c, "accepting") /\ ~(Cardinality(queued) < QueueCapacity)
        <5>1. To(c, "refused") /\ Leaves(c)
          BY <2>2, <4>3 DEF Store
        <5> QED
          BY <1>1, <5>1, CallLeaves DEF Answers
      <4> QED
        BY <4>1, <4>2, <4>3
    <3>3. /\ queued' \subseteq queued \cup {c}
          /\ pulled' = pulled /\ cancelled' = cancelled
      BY <2>2 DEF Store
    <3>4. \A e \in Call : calls[e] \in {"waiting"} \cup Answers \/ e = c =>
            calls'[e] \in {"waiting"} \cup Answers
      BY <1>5, <3>1 DEF To, Answers
    <3>5. JobsOK'
      BY <1>1, <1>3, <3>3, <3>4 DEF JobsOK
    <3> QED
      BY <3>2, <3>5
  <2>3. CASE StoreFails(c) \/ Gone(c)
    <3>1. To(c, "ended") /\ Leaves(c)
      BY <2>3 DEF StoreFails, Gone
    <3>2. queued' = queued /\ pulled' = pulled /\ cancelled' \subseteq cancelled \cup {c}
      BY <2>3 DEF StoreFails, Gone, jobVars
    <3>3. \A e \in Call : calls[e] \in {"waiting"} \cup Answers =>
            calls'[e] \in {"waiting"} \cup Answers
      BY <1>5, <3>1 DEF To, Answers
    <3>4. AdmissionPermits'
      BY <1>1, <3>1, CallLeaves DEF Answers
    <3>5. JobsOK'
      BY <1>1, <1>3, <3>2, <3>3, JobsKept DEF JobsOK
    <3> QED
      BY <3>4, <3>5
  <2> QED
    BY <2>1, <2>2, <2>3
<1> QED
  BY <1>3, <1>4, <1>6 DEF ProcessInv

\* A job is pulled, dispatched, attempted, ended or stopped, or time passes.
LEMMA JobStep ==
  ASSUME ProcessInv, NEW c \in Call,
         \/ Pull \/ Dispatch(c) \/ Attempting(c) \/ JobEnds(c) \/ JobFails(c)
         \/ JobStops(c) \/ ProcessElapse
  PROVE  ProcessInv'
<1>1. /\ RunsOK /\ EnginePermits /\ AdmissionPermits /\ JobsOK
      /\ LifeOK /\ ReadyOnlyBeforeClosing
  BY DEF ProcessInv
<1>2. UNCHANGED lifeVars
  BY DEF Pull, Dispatch, Attempting, JobEnds, JobFails, Settle, JobStops, ProcessElapse
<1>3. LifeOK' /\ ReadyOnlyBeforeClosing'
  BY <1>1, <1>2, LifeKept
<1>4. calls \in [Call -> CallStates] /\ runs \in [Call -> Run \cup {NULL}]
  BY <1>1 DEF AdmissionPermits, CallStates, RunsOK
<1>5. CASE Pull
  <2>1. UNCHANGED <<engineVars, calls, cancelled, admissionVars>>
        /\ queued' \cup pulled' \subseteq queued \cup pulled
    BY <1>5 DEF Pull
  <2>2. RunsOK' /\ EnginePermits' /\ \A e \in Call : Running(e)' <=> Running(e)
    BY <1>1, <2>1, EngineKept
  <2>3. AdmissionPermits'
    BY <1>1, <2>1, AdmissionKept
  <2>4. JobsOK'
    BY <1>1, <2>1, <2>2, JobsKept DEF JobsOK
  <2> QED
    BY <1>3, <2>2, <2>3, <2>4 DEF ProcessInv
<1>6. CASE Dispatch(c)
  <2>1. /\ c \in pulled /\ pulled' = pulled \ {c} /\ cancelled' = cancelled \ {c}
        /\ UNCHANGED <<calls, queued, admissionVars>>
        /\ UNCHANGED engineVars \/ Start(c)
    BY <1>6 DEF Dispatch
  <2>2. RunsOK' /\ EnginePermits'
    BY <1>1, <2>1, EngineKept, StartStep
  <2>3. \A e \in Call : Running(e)' => Running(e) \/ e = c
    BY <1>4, <2>1 DEF Start, Running, engineVars
  <2>4. AdmissionPermits'
    BY <1>1, <2>1, AdmissionKept
  <2>5. JobsOK'
    BY <1>1, <2>1, <2>3, JobsKept DEF JobsOK
  <2> QED
    BY <1>3, <2>2, <2>4, <2>5 DEF ProcessInv
<1>7. CASE Attempting(c)
  <2>1. UNCHANGED <<calls, jobVars, admissionVars>>
    BY <1>7 DEF Attempting
  <2>2. RunsOK' /\ EnginePermits'
    BY <1>1, <1>7, DestinationStep, GlobalStep, RecordedStep, WakeStep, AnswerStep
       DEF Attempting
  <2>3. \A e \in Call : Running(e)' => Running(e)
    <3>1. Running(c)
      BY <1>7 DEF Attempting, TakeDestination, TakeGlobal, Recorded, Wake, Answer, Is
    <3>2. \A e \in Call \ {c} : runs'[e] = runs[e]
      BY <1>4, <1>7 DEF Attempting, TakeDestination, TakeGlobal, Recorded, Wake, Answer
    <3> QED
      BY <3>1, <3>2 DEF Running
  <2>4. AdmissionPermits'
    BY <1>1, <2>1, AdmissionKept
  <2>5. JobsOK'
    BY <1>1, <2>1, <2>3, JobsKept DEF JobsOK, jobVars
  <2> QED
    BY <1>3, <2>2, <2>4, <2>5 DEF ProcessInv
<1>8. CASE JobEnds(c) \/ JobFails(c)
  <2>1. Settle(c) /\ (Finish(c) \/ Interrupt(c))
    BY <1>8 DEF JobEnds, JobFails
  <2>2. RunsOK' /\ EnginePermits'
    BY <1>1, <2>1, FinishStep, InterruptStep
  <2>3. \A e \in Call : Running(e)' => Running(e)
    BY <1>4, <2>1 DEF Finish, Interrupt, Running
  <2>4. cancelled' = cancelled \ {c} /\ UNCHANGED <<queued, pulled>>
    BY <2>1 DEF Settle
  <2>5. AdmissionPermits'
    <3>1. CASE At(c, "waiting")
      BY <1>1, <2>1, <3>1, CallLeaves DEF Settle, Answers
    <3>2. CASE ~At(c, "waiting")
      BY <1>1, <2>1, <3>2, AdmissionKept DEF Settle, NoAdmission
    <3> QED
      BY <3>1, <3>2
  <2>6. \A e \in Call : calls[e] \in {"waiting"} \cup Answers =>
          calls'[e] \in {"waiting"} \cup Answers
    BY <1>4, <2>1 DEF Settle, To, Answers
  <2>7. JobsOK'
    BY <1>1, <2>3, <2>4, <2>6, JobsKept DEF JobsOK
  <2> QED
    BY <1>3, <2>2, <2>5, <2>7 DEF ProcessInv
<1>9. CASE JobStops(c)
  <2>1. /\ Interrupt(c) \/ UNCHANGED engineVars
        /\ queued' \cup pulled' \subseteq queued \cup pulled
        /\ cancelled' = cancelled \ {c} /\ UNCHANGED <<calls, admissionVars>>
    BY <1>9 DEF JobStops
  <2>2. RunsOK' /\ EnginePermits'
    BY <1>1, <2>1, EngineKept, InterruptStep
  <2>3. \A e \in Call : Running(e)' => Running(e)
    BY <1>4, <2>1 DEF Interrupt, Running, engineVars
  <2>4. AdmissionPermits'
    BY <1>1, <2>1, AdmissionKept
  <2>5. JobsOK'
    BY <1>1, <2>1, <2>3, JobsKept DEF JobsOK
  <2> QED
    BY <1>3, <2>2, <2>4, <2>5 DEF ProcessInv
<1>10. CASE ProcessElapse
  <2>1. EngineElapse /\ UNCHANGED <<calls, jobVars, admissionVars>>
    BY <1>10 DEF ProcessElapse
  <2>2. RunsOK' /\ EnginePermits' /\ \A e \in Call : Running(e)' <=> Running(e)
    BY <1>1, <2>1, ElapseStep
  <2>3. AdmissionPermits'
    BY <1>1, <2>1, AdmissionKept
  <2>4. JobsOK'
    BY <1>1, <2>1, <2>2 DEF JobsOK, jobVars
  <2> QED
    BY <1>3, <2>2, <2>3, <2>4 DEF ProcessInv
<1> QED
  BY <1>5, <1>6, <1>7, <1>8, <1>9, <1>10

-------------------------------------------------------------------------------
(* Permits, admission and readiness.                                       *)

LEMMA InitProcessInv == ProcessInit => ProcessInv
<1> SUFFICES ASSUME ProcessInit PROVE ProcessInv
  OBVIOUS
<1>1. \A c \in Call : ~Running(c) /\ ~Holds(c)
  BY DEF ProcessInit, EngineInit, Running, Holds
<1>2. Sending = {} /\ Holding = {} /\ Inside = {}
  BY <1>1 DEF Sending, Holding, Inside, InPhase
<1>3. Cardinality({}) = 0
  BY FS_EmptySet
<1>4. \A d \in Destination : OfDestination({}, d) = 0
  BY <1>3 DEF OfDestination
<1>5. RunsOK
  BY <1>1 DEF ProcessInit, EngineInit, RunsOK
<1>6. EnginePermits
  BY <1>2, <1>3, <1>4, EngineAssumption DEF ProcessInit, EngineInit, EnginePermits, Counts
<1>7. AdmissionPermits
  <2>1. calls \in [Call -> {"new"} \cup Underway \cup Answers]
    BY DEF ProcessInit
  <2> QED
    BY <1>2, <1>3, <1>4, <2>1, ProcessAssumption DEF ProcessInit, AdmissionPermits, Counts
<1>8. JobsOK
  BY <1>1 DEF ProcessInit, JobsOK
<1>9. LifeOK /\ ReadyOnlyBeforeClosing
  BY DEF ProcessInit, LifeOK, ReadyOnlyBeforeClosing, Stages
<1> QED
  BY <1>5, <1>6, <1>7, <1>8, <1>9 DEF ProcessInv

LEMMA NextProcessInv == ProcessInv /\ [ProcessNext]_processVars => ProcessInv'
<1> SUFFICES ASSUME ProcessInv, [ProcessNext]_processVars PROVE ProcessInv'
  OBVIOUS
<1>1. CASE Build \/ MarkReady \/ Shutdown \/ Dispose \/ Disposed
  BY <1>1, LifeStep
<1>2. CASE \E c \in Call : \/ Arrive(c) \/ CallIn(c) \/ Store(c) \/ StoreFails(c)
                         \/ Abort(c) \/ CutOff(c)
  BY <1>2, CallStep DEF Abort, CutOff
<1>3. CASE Pull
  <2>1. \E c \in Call : TRUE
    BY <1>3 DEF Pull, ProcessInv, JobsOK
  <2> QED
    BY <1>3, <2>1, JobStep
<1>4. CASE \E c \in Call : \/ Dispatch(c) \/ Attempting(c) \/ JobEnds(c) \/ JobFails(c)
                         \/ JobStops(c)
  BY <1>4, JobStep
<1>5. CASE ProcessElapse
  <2>1. \E c \in Call : TRUE
    BY <1>5 DEF ProcessElapse, EngineElapse
  <2> QED
    BY <1>5, <2>1, JobStep
<1>6. CASE UNCHANGED processVars
  <2>1. /\ UNCHANGED engineVars /\ UNCHANGED lifeVars
        /\ UNCHANGED <<calls, admissionVars>> /\ UNCHANGED jobVars
    BY <1>6 DEF processVars
  <2>2. RunsOK' /\ EnginePermits' /\ \A e \in Call : Running(e)' <=> Running(e)
    BY <2>1, EngineKept DEF ProcessInv
  <2>3. JobsOK'
    BY <2>1, <2>2 DEF ProcessInv, JobsOK, jobVars
  <2> QED
    BY <2>1, <2>2, <2>3, LifeKept, AdmissionKept DEF ProcessInv
<1> QED
  BY <1>1, <1>2, <1>3, <1>4, <1>5, <1>6 DEF ProcessNext, GoesOn, Happens, JobGoesOn

\* The counts of permits, the jobs, and the readiness are right in every state.
THEOREM ProcessInvariant == ProcessSpec => []ProcessInv
<1>1. ProcessInit => ProcessInv
  BY InitProcessInv
<1>2. ProcessInv /\ [ProcessNext]_processVars => ProcessInv'
  BY NextProcessInv
<1> QED
  BY <1>1, <1>2, PTL DEF ProcessSpec

\* Every variable of the process has its type: no count of permits goes below zero, and
\* no run begins more attempts than maximumAttempts.
THEOREM ProcessTypes == ProcessSpec => []ProcessTypeOK
<1>1. ProcessInv => ProcessTypeOK
  <2> SUFFICES ASSUME ProcessInv PROVE ProcessTypeOK
    OBVIOUS
  <2>1. Sending \in SUBSET Call /\ Inside \in SUBSET Call
    BY DEF Sending, InPhase, Inside
  <2>2. Cardinality(Sending) \in Nat /\ Cardinality(Inside) \in Nat
    <3>1. IsFiniteSet(Sending) /\ IsFiniteSet(Inside)
      BY <2>1, FS_Subset, EngineAssumption
    <3> QED
      BY <3>1, FS_CardinalityType
  <2>3. {globalTaken, globalAdmitted, admitted} \subseteq Nat
    BY <2>2 DEF ProcessInv, EnginePermits, AdmissionPermits
  <2>4. {destinationTaken, active, destinationAdmitted} \subseteq [Destination -> Nat]
    BY DEF ProcessInv, EnginePermits, AdmissionPermits, Counts
  <2>5. {queued, pulled, cancelled} \subseteq SUBSET Call
    BY DEF ProcessInv, JobsOK
  <2> QED
    BY <2>3, <2>4, <2>5 DEF ProcessTypeOK, ProcessInv, RunsOK, AdmissionPermits, LifeOK
<1> QED
  BY <1>1, ProcessInvariant, PTL

\* No permit is lost or made up on any way out of an attempt, of a job or of a call, for
\* any number of calls and any limits: the semaphores and the counts that the process
\* reports agree with the calls and attempts there are.
THEOREM PermitsAlwaysAgree == ProcessSpec => []PermitsAgree
<1>1. ProcessInv => PermitsAgree
  BY DEF ProcessInv, EnginePermits, AdmissionPermits, Counts, PermitsAgree,
         Sending, Holding, Inside
<1> QED
  BY <1>1, ProcessInvariant, PTL

\* A delivery that was let in can be refused by a full queue only for jobs that admission
\* does not count: if all jobs in the queue were counted, the delivery itself would be
\* one more inside than admission lets in.
THEOREM AdmittedAlwaysFindPlace == ProcessSpec => []AdmittedFindsPlace
<1>1. ProcessInv => AdmittedFindsPlace
  <2> SUFFICES ASSUME ProcessInv, NEW c \in Call, At(c, "admitted"),
                      Cardinality(queued) = QueueCapacity, \A job \in queued : Holds(job)
               PROVE  FALSE
    BY DEF AdmittedFindsPlace
  <2>1. queued \subseteq Call /\ c \notin queued
    BY DEF ProcessInv, JobsOK, At, Answers
  <2>2. queued \cup {c} \subseteq Inside /\ Inside \in SUBSET Call
    BY <2>1 DEF Inside, Holds, At
  <2>3. IsFiniteSet(Inside) /\ IsFiniteSet(queued)
    BY <2>1, <2>2, FS_Subset, EngineAssumption
  <2>4. Cardinality(queued \cup {c}) <= Cardinality(Inside)
    BY <2>2, <2>3, FS_Subset
  <2>5. Cardinality(queued \cup {c}) = Cardinality(queued) + 1
    BY <2>1, <2>3, FS_AddElement
  <2>6. Cardinality(Inside) <= QueueCapacity
    BY DEF ProcessInv, AdmissionPermits
  <2> QED
    BY <2>3, <2>4, <2>5, <2>6, FS_CardinalityType, ProcessAssumption
<1> QED
  BY <1>1, ProcessInvariant, PTL

\* Once the shutdown cuts fibers off, a new call is refused or not let in at all, however
\* the process was started and whatever else happens in it.
THEOREM NeverLetInWhileCut == ProcessSpec => NoneLetInWhileCut
<1> DEFINE Refuses == \A c \in Call : stage = "disposing" /\ At(c, "new") =>
                        calls'[c] \in {"new", "refused"}
<1>1. ProcessInv /\ [ProcessNext]_processVars => [Refuses]_processVars
  <2> SUFFICES ASSUME ProcessInv, ProcessNext, NEW c \in Call, stage = "disposing",
                      At(c, "new")
               PROVE  calls'[c] \in {"new", "refused"}
    OBVIOUS
  <2>1. ~ready /\ calls \in [Call -> CallStates]
    BY DEF ProcessInv, ReadyOnlyBeforeClosing, AdmissionPermits, CallStates
  <2>2. CASE UNCHANGED calls
    BY <2>2 DEF At
  <2>3. CASE \E e \in Call : Arrive(e) \/ CallIn(e)
    <3>1. PICK e \in Call : To(e, "refused")
      BY <2>1, <2>3 DEF Arrive, CallIn
    <3> QED
      BY <2>1, <3>1 DEF To, At
  <2>4. CASE \E e \in Call : Store(e) \/ StoreFails(e) \/ Gone(e)
    <3>1. PICK e \in Call : ~At(e, "new") /\ \E state : To(e, state)
      BY <2>4 DEF Store, StoreFails, Gone, At, Underway
    <3> QED
      BY <2>1, <3>1 DEF To, At
  <2>5. CASE \E e \in Call : JobEnds(e) \/ JobFails(e)
    <3>1. PICK e \in Call : UNCHANGED calls \/ (At(e, "waiting") /\ To(e, "ended"))
      BY <2>5 DEF JobEnds, JobFails, Settle
    <3> QED
      BY <2>1, <3>1 DEF To, At
  <2> QED
    BY <2>2, <2>3, <2>4, <2>5
       DEF ProcessNext, GoesOn, Happens, JobGoesOn, Build, MarkReady, Shutdown, Dispose,
           Disposed, Pull, Abort, CutOff, Dispatch, Attempting, JobStops, ProcessElapse
<1> QED
  BY <1>1, ProcessInvariant, PTL DEF ProcessSpec, NoneLetInWhileCut

\* The Node entry never marks the process ready, so each call of its life is refused at
\* the readiness check, whatever else happens and however long it serves.
THEOREM NodeServesNobody == ProcessSpec => []NodeRefusesEveryCall
<1>1. ProcessInit => NodeRefusesEveryCall
  BY DEF ProcessInit, NodeRefusesEveryCall
<1>2. ProcessInv /\ NodeRefusesEveryCall /\ [ProcessNext]_processVars
      => NodeRefusesEveryCall'
  <2> SUFFICES ASSUME ProcessInv, NodeRefusesEveryCall, [ProcessNext]_processVars,
                      (entry = "node")', NEW c \in Call
               PROVE  calls'[c] \in {"new", "refused"}
    BY DEF NodeRefusesEveryCall
  <2>1. entry = "node"
    BY DEF ProcessNext, GoesOn, Happens, JobGoesOn, lifeVars, processVars, Build, MarkReady,
           Shutdown, Dispose, Disposed, Pull, Store, CutOff, Abort, Gone, Dispatch,
           Attempting, JobEnds, JobFails, JobStops, Settle, Arrive, CallIn, StoreFails,
           ProcessElapse
  <2>2. /\ \A e \in Call : calls[e] \in {"new", "refused"}
        /\ ~ready /\ calls \in [Call -> CallStates]
    BY <2>1 DEF NodeRefusesEveryCall, ProcessInv, ReadyOnlyBeforeClosing, AdmissionPermits,
                CallStates
  <2>3. CASE UNCHANGED calls
    BY <2>2, <2>3
  <2>4. CASE \E e \in Call : Arrive(e) \/ CallIn(e)
    <3>1. PICK e \in Call : To(e, "refused")
      BY <2>1, <2>2, <2>4 DEF Arrive, CallIn
    <3> QED
      BY <2>2, <3>1 DEF To
  <2>5. ~\E e \in Call : Store(e) \/ StoreFails(e) \/ Gone(e)
    BY <2>2 DEF Store, StoreFails, Gone, Underway
  <2>6. CASE \E e \in Call : JobEnds(e) \/ JobFails(e)
    BY <2>2, <2>6 DEF JobEnds, JobFails, Settle, At
  <2> QED
    BY <2>3, <2>4, <2>5, <2>6
       DEF ProcessNext, processVars, GoesOn, Happens, JobGoesOn, Build, MarkReady, Shutdown,
           Dispose, Disposed, Pull, Abort, CutOff, Dispatch, Attempting, JobStops,
           ProcessElapse
<1> QED
  BY <1>1, <1>2, ProcessInvariant, PTL DEF ProcessSpec

-------------------------------------------------------------------------------
(* How far a run may be behind its deadline.  Only a wait for permits makes a run late *)
(* without bound of its own, and while it waits another run sends: so its lateness is  *)
(* paid for with what the others may still send, which no step gives back.             *)

\* The phases of an attempt up to its answer.
Trying == {"waitingDestination", "waitingGlobal", "sending"}

\* A call whose run has not begun.
ToRun(c) == calls[c] \in {"new", "accepting", "admitted"} \/ c \in queued \cup pulled

OneRun ==
  /\ queued \cap pulled = {}
  /\ \A c \in Call : Running(c) => ~ToRun(c)

\* A run may send for `n` more units of time: by the time that is left to it, of which an
\* attempt that waits for its permits keeps what it was given, and by its attempts left.
ByTime(run, n) ==
  \/ run.phase \in Trying /\ n <= run.timer
  \/ (run.phase = "recording" => run.delay # NULL) /\ n <= run.left

ByCount(run, n) ==
  n <= (MaxAttempts - run.attempts) * AttemptTimeout
         + (IF run.phase \in Trying THEN run.timer ELSE 0)

MaySend(c, n) ==
  IF Running(c) THEN ByTime(runs[c], n) /\ ByCount(runs[c], n) ELSE ToRun(c)

\* What one run may send in all, and what the others may still send, in units of time.
SendingOfOne == Min({MaxElapsed, MaxAttempts * AttemptTimeout})
Units(c) == (Call \ {c}) \X (1..SendingOfOne)
Sendable(c) == {u \in Units(c) : MaySend(u[1], u[2])}

InItsTime(run) ==
  /\ run.left <= MaxElapsed
  /\ run.phase \in Trying => run.timer <= AttemptTimeout /\ run.timer <= MaxElapsed

Late == Max({RecordTime - 1, 0})

\* How far a run may be behind its deadline while the others may still send `n` units.
OnSchedule(run, n) ==
  /\ run.phase \in Trying => run.timer - run.left + n <= SendingOfOthers + Late
  /\ run.phase = "recording" /\ run.delay = NULL =>
       run.timer - run.left + n <= SendingOfOthers + Late + RecordTime
  /\ run.phase = "recording" /\ run.delay # NULL =>
       run.left - run.delay - run.timer >= 1 - RecordTime
  /\ run.phase = "sleeping" => run.left - run.timer >= 1 - RecordTime

RunsInTime ==
  \A c \in Call : Running(c) =>
    InItsTime(runs[c]) /\ OnSchedule(runs[c], Cardinality(Sendable(c)))

OverrunInv == ProcessInv /\ OneRun /\ RunsInTime

LEMMA Products ==
  ASSUME NEW m \in Nat, NEW n \in Nat, NEW a \in Nat
  PROVE  /\ n * a \in Nat /\ (n + 1) * a = n * a + a
         /\ n > 0 /\ a > 0 => n * a > 0
         /\ m <= n => m * a <= n * a
OBVIOUS

LEMMA SendingOfOneTyped ==
  /\ SendingOfOne \in Nat \ {0} /\ MaxAttempts * AttemptTimeout \in Nat
  /\ \A n \in Int : n <= SendingOfOne <=>
       n <= MaxElapsed /\ n <= MaxAttempts * AttemptTimeout
<1> DEFINE p == MaxAttempts * AttemptTimeout
<1>1. MaxAttempts \in Nat \ {0} /\ AttemptTimeout \in Nat \ {0} /\ MaxElapsed \in Nat \ {0}
  BY EngineAssumption
<1>2. p \in Nat /\ p > 0
  BY <1>1, Products
<1> HIDE DEF p
<1>3. /\ Min({MaxElapsed, p}) \in {MaxElapsed, p}
      /\ Min({MaxElapsed, p}) <= MaxElapsed /\ Min({MaxElapsed, p}) <= p
  BY <1>1, <1>2, MinMax
<1>4. SendingOfOne = Min({MaxElapsed, p})
  BY DEF SendingOfOne, p
<1>5. SendingOfOne \in Nat \ {0} /\ p \in Nat
  BY <1>1, <1>2, <1>3, <1>4
<1>6. \A n \in Int : n <= SendingOfOne <=> n <= MaxElapsed /\ n <= p
  BY <1>1, <1>2, <1>3, <1>4
<1> QED
  BY <1>5, <1>6 DEF p

\* The others may never send more than the bound says.
LEMMA SendableCounted ==
  ASSUME NEW c \in Call
  PROVE  /\ SendingOfOthers \in Nat
         /\ IsFiniteSet(Units(c)) /\ IsFiniteSet(Sendable(c))
         /\ Cardinality(Sendable(c)) \in 0..SendingOfOthers
<1>1. IsFiniteSet(Call \ {c}) /\ Cardinality(Call \ {c}) = Cardinality(Call) - 1
  BY FS_RemoveElement, EngineAssumption
<1>2. IsFiniteSet(1..SendingOfOne) /\ Cardinality(1..SendingOfOne) = SendingOfOne
  BY SendingOfOneTyped, FS_Interval
<1>3. /\ IsFiniteSet(Units(c))
      /\ Cardinality(Units(c)) = (Cardinality(Call) - 1) * SendingOfOne
  <2> DEFINE A == Call \ {c}
             B == 1..SendingOfOne
  <2> HIDE DEF A, B
  <2>1. ASSUME IsFiniteSet(A), IsFiniteSet(B)
        PROVE  IsFiniteSet(A \X B) /\ Cardinality(A \X B) = Cardinality(A) * Cardinality(B)
    BY <2>1, FS_Product
  <2> QED
    BY <1>1, <1>2, <2>1 DEF Units, A, B
<1>4. SendingOfOthers = Cardinality(Units(c))
  BY <1>3 DEF SendingOfOthers, SendingOfOne
<1>5. Sendable(c) \in SUBSET Units(c)
  BY DEF Sendable
<1>6. IsFiniteSet(Sendable(c)) /\ Cardinality(Sendable(c)) <= Cardinality(Units(c))
  BY <1>3, <1>5, FS_Subset
<1>7. Cardinality(Sendable(c)) \in Nat /\ Cardinality(Units(c)) \in Nat
  BY <1>3, <1>6, FS_CardinalityType
<1> QED
  BY <1>3, <1>4, <1>6, <1>7

\* No step that takes units away from the others makes them more, and one that takes one
\* away makes them fewer.
LEMMA SendableLess ==
  ASSUME NEW c \in Call,
         \A d \in Call \ {c}, n \in 1..SendingOfOne : MaySend(d, n)' => MaySend(d, n)
  PROVE  /\ Cardinality(Sendable(c)') \in Nat
         /\ Cardinality(Sendable(c)') <= Cardinality(Sendable(c))
         /\ (\E d \in Call \ {c}, n \in 1..SendingOfOne : MaySend(d, n) /\ ~MaySend(d, n)')
              => Cardinality(Sendable(c)') < Cardinality(Sendable(c))
<1>1. Sendable(c)' \in SUBSET Sendable(c)
  BY DEF Sendable, Units
<1>2. IsFiniteSet(Sendable(c)) /\ Cardinality(Sendable(c)) \in Nat
  BY SendableCounted
<1>3. /\ IsFiniteSet(Sendable(c)')
      /\ Cardinality(Sendable(c)') <= Cardinality(Sendable(c))
      /\ Cardinality(Sendable(c)) = Cardinality(Sendable(c)') => Sendable(c) = Sendable(c)'
  BY <1>1, <1>2, FS_Subset
<1>4. Cardinality(Sendable(c)') \in Nat
  BY <1>3, FS_CardinalityType
<1>5. ASSUME NEW d \in Call \ {c}, NEW n \in 1..SendingOfOne, MaySend(d, n), ~MaySend(d, n)'
      PROVE  Sendable(c) # Sendable(c)'
  <2>1. <<d, n>> \in Sendable(c) /\ <<d, n>> \notin Sendable(c)'
    BY <1>5 DEF Sendable, Units
  <2> QED
    BY <2>1
<1> DEFINE before == Cardinality(Sendable(c))
           after == Cardinality(Sendable(c)')
<1>6. before \in Nat /\ after \in Nat /\ after <= before
  BY <1>2, <1>3, <1>4
<1>7. Sendable(c) # Sendable(c)' => after # before
  BY <1>3
<1> HIDE DEF before, after
<1>8. Sendable(c) # Sendable(c)' => after < before
  BY <1>6, <1>7
<1> QED
  BY <1>4, <1>5, <1>6, <1>8 DEF before, after

LEMMA OthersTyped == SendingOfOthers \in Int
<1> DEFINE k == Cardinality(Call) - 1
           p == SendingOfOne
<1>1. Cardinality(Call) \in Nat
  BY FS_CardinalityType, EngineAssumption
<1>2. k \in Int /\ p \in Int
  BY <1>1, SendingOfOneTyped
<1>3. SendingOfOthers = k * p
  BY DEF SendingOfOthers, SendingOfOne
<1> HIDE DEF k, p
<1> QED
  BY <1>2, <1>3

LEMMA LateTyped == Late \in Nat /\ Late >= RecordTime - 1 /\ RecordTime \in Nat
<1>1. RecordTime \in Nat
  BY EngineAssumption
<1>2. RecordTime - 1 \in Int /\ 0 \in Int
  BY <1>1
<1>3. /\ Max({RecordTime - 1, 0}) \in {RecordTime - 1, 0}
      /\ Max({RecordTime - 1, 0}) >= RecordTime - 1 /\ Max({RecordTime - 1, 0}) >= 0
  BY <1>2, MinMax
<1> QED
  BY <1>1, <1>2, <1>3 DEF Late

\* A step of a run that gives it no more to send, and leaves it on schedule.
Follows(run, r) ==
  /\ InItsTime(r)
  /\ \A n \in Nat \ {0} : ByTime(r, n) /\ ByCount(r, n) => ByTime(run, n) /\ ByCount(run, n)
  /\ \A n \in 0..SendingOfOthers : OnSchedule(run, n) => OnSchedule(r, n)

\* A permit is taken.
LEMMA PermitFollows ==
  ASSUME NEW run \in Run, InItsTime(run), run.phase \in Trying, NEW phase \in Trying
  PROVE  Follows(run, [run EXCEPT !.phase = phase])
<1> DEFINE r == [run EXCEPT !.phase = phase]
<1>1. /\ r.phase = phase /\ r.attempts = run.attempts /\ r.left = run.left
      /\ r.timer = run.timer /\ r.delay = run.delay
  BY DEF Run
<1> HIDE DEF r
<1>2. /\ run.phase \notin {"recording", "sleeping"} /\ r.phase \notin {"recording", "sleeping"}
      /\ r.phase \in Trying
  BY <1>1 DEF Trying
<1>3. InItsTime(r) /\ \A n : ByTime(r, n) /\ ByCount(r, n) => ByTime(run, n) /\ ByCount(run, n)
  BY <1>1, <1>2 DEF InItsTime, ByTime, ByCount
<1>4. \A n : OnSchedule(run, n) => OnSchedule(r, n)
  BY <1>1, <1>2 DEF OnSchedule
<1> QED
  BY <1>3, <1>4 DEF Follows, r

\* An attempt ends.  What it has sent is gone, and a retry is decided within the deadline.
LEMMA AnswerFollows ==
  ASSUME NEW run \in Run, InItsTime(run), run.phase \in Trying,
         NEW delay \in Nat \cup {NULL}, delay # NULL => delay < run.left
  PROVE  Follows(run, [run EXCEPT !.phase = "recording", !.timer = RecordTime, !.delay = delay])
<1> DEFINE r == [run EXCEPT !.phase = "recording", !.timer = RecordTime, !.delay = delay]
<1>1. /\ r.phase = "recording" /\ r.attempts = run.attempts /\ r.left = run.left
      /\ r.timer = RecordTime /\ r.delay = delay
  BY DEF Run
<1>2. run.left \in Int /\ run.timer \in Nat /\ run.attempts \in 1..MaxAttempts
  BY DEF Run
<1> HIDE DEF r
<1>3. "recording" \notin Trying /\ run.phase \notin {"recording", "sleeping"}
  BY DEF Trying
<1>4. InItsTime(r)
  BY <1>1, <1>3 DEF InItsTime
<1>5. ASSUME NEW n \in Nat \ {0}, ByTime(r, n), ByCount(r, n)
      PROVE  ByTime(run, n) /\ ByCount(run, n)
  <2>1. n <= run.left
    BY <1>1, <1>3, <1>5 DEF ByTime
  <2> DEFINE m == (MaxAttempts - run.attempts) * AttemptTimeout
  <2>2. MaxAttempts - run.attempts \in Nat /\ AttemptTimeout \in Nat
    BY <1>2, EngineAssumption
  <2>3. m \in Nat
    BY <2>2, Products
  <2>4. n <= m
    BY <1>1, <1>3, <1>5, <2>3 DEF ByCount
  <2>5. ByCount(run, n) <=> n <= m + run.timer
    BY DEF ByCount
  <2> HIDE DEF m
  <2>6. n <= m + run.timer
    BY <1>2, <2>3, <2>4
  <2> QED
    BY <1>3, <2>1, <2>5, <2>6 DEF ByTime
<1>6. ASSUME NEW n \in 0..SendingOfOthers, OnSchedule(run, n)
      PROVE  OnSchedule(r, n)
  <2>1. run.timer - run.left + n <= SendingOfOthers + Late
    BY <1>6 DEF OnSchedule
  <2>2. SendingOfOthers \in Int /\ Late \in Nat /\ RecordTime \in Nat /\ n \in Nat
    BY OthersTyped, LateTyped
  <2>3. RecordTime - run.left + n <= SendingOfOthers + Late + RecordTime
    BY <1>2, <2>1, <2>2
  <2>4. delay # NULL => run.left - delay - RecordTime >= 1 - RecordTime
    <3>1. ASSUME delay # NULL PROVE run.left - delay - RecordTime >= 1 - RecordTime
      <4>1. delay \in Nat /\ delay < run.left
        BY <3>1
      <4> QED
        BY <1>2, <2>2, <4>1
    <3> QED
      BY <3>1
  <2> QED
    BY <1>1, <1>3, <2>3, <2>4 DEF OnSchedule
<1> QED
  BY <1>4, <1>5, <1>6 DEF Follows, r

\* The attempt is stored in its time, and the retry sleeps out its delay.
LEMMA RecordedFollows ==
  ASSUME NEW run \in Run, InItsTime(run), run.phase = "recording", run.delay # NULL
  PROVE  Follows(run, [run EXCEPT !.phase = "sleeping", !.timer = run.delay, !.delay = NULL])
<1> DEFINE r == [run EXCEPT !.phase = "sleeping", !.timer = run.delay, !.delay = NULL]
<1>1. /\ r.phase = "sleeping" /\ r.attempts = run.attempts /\ r.left = run.left
      /\ r.timer = run.delay /\ r.delay = NULL
  BY DEF Run
<1>2. run.left \in Int /\ run.timer \in Nat /\ run.delay \in Nat /\ RecordTime \in Nat
  BY LateTyped DEF Run
<1> HIDE DEF r
<1>3. "recording" \notin Trying /\ "sleeping" \notin Trying
  BY DEF Trying
<1>4. InItsTime(r)
  BY <1>1, <1>3 DEF InItsTime
<1>5. \A n : ByTime(r, n) /\ ByCount(r, n) => ByTime(run, n) /\ ByCount(run, n)
  BY <1>1, <1>3 DEF ByTime, ByCount
<1>6. ASSUME NEW n \in 0..SendingOfOthers, OnSchedule(run, n)
      PROVE  OnSchedule(r, n)
  <2>1. run.left - run.delay - run.timer >= 1 - RecordTime
    BY <1>6 DEF OnSchedule
  <2>2. run.left - run.delay >= 1 - RecordTime
    BY <1>2, <2>1
  <2> QED
    BY <1>1, <1>3, <2>2 DEF OnSchedule
<1> QED
  BY <1>4, <1>5, <1>6 DEF Follows, r

\* A retry begins, late by no more than the record before it took.
LEMMA WakeFollows ==
  ASSUME NEW run \in Run, InItsTime(run), run.phase = "sleeping", run.timer = 0,
         run.attempts < MaxAttempts
  PROVE  Follows(run, [run EXCEPT !.phase = "waitingDestination",
                                  !.attempts = run.attempts + 1,
                                  !.timer = Timeout(run.left)])
<1> DEFINE time == Timeout(run.left)
           r == [run EXCEPT !.phase = "waitingDestination",
                            !.attempts = run.attempts + 1, !.timer = time]
<1>1. /\ r.phase = "waitingDestination" /\ r.attempts = run.attempts + 1
      /\ r.left = run.left /\ r.timer = time
  BY DEF Run
<1>2. run.left \in Int /\ run.attempts \in 1..MaxAttempts
  BY DEF Run
<1>3. time \in Nat /\ time <= AttemptTimeout /\ (time <= run.left \/ time = 0)
  BY <1>2, TimeoutNat
<1> HIDE DEF time, r
<1>4. r.phase \in Trying /\ "sleeping" \notin Trying
  BY <1>1 DEF Trying
<1>5. run.left <= MaxElapsed /\ MaxElapsed \in Nat
  BY EngineAssumption DEF InItsTime
<1>6. InItsTime(r)
  <2>1. time <= MaxElapsed
    BY <1>2, <1>3, <1>5
  <2> QED
    BY <1>1, <1>3, <1>5, <2>1 DEF InItsTime
<1>7. ASSUME NEW n \in Nat \ {0}, ByTime(r, n), ByCount(r, n)
      PROVE  ByTime(run, n) /\ ByCount(run, n)
  <2>1. n <= time \/ n <= run.left
    BY <1>1, <1>7 DEF ByTime
  <2>2. n <= run.left
    BY <1>2, <1>3, <2>1
  <2> DEFINE k == MaxAttempts - (run.attempts + 1)
             m == (MaxAttempts - run.attempts) * AttemptTimeout
  <2>3. k \in Nat /\ MaxAttempts - run.attempts = k + 1 /\ AttemptTimeout \in Nat
    BY <1>2, EngineAssumption
  <2>4. k * AttemptTimeout \in Nat /\ (k + 1) * AttemptTimeout = k * AttemptTimeout + AttemptTimeout
    <3> HIDE DEF k
    <3> QED
      BY <2>3, Products
  <2>5. m = k * AttemptTimeout + AttemptTimeout
    BY <2>3, <2>4
  <2>6. n <= k * AttemptTimeout + time
    BY <1>1, <1>4, <1>7 DEF ByCount
  <2> DEFINE q == k * AttemptTimeout
  <2>7. q \in Nat /\ m = q + AttemptTimeout /\ n <= q + time
    BY <2>4, <2>5, <2>6
  <2> HIDE DEF k, m, q
  <2>8. n <= m + 0
    BY <1>3, <2>3, <2>7
  <2> QED
    BY <1>4, <2>2, <2>8 DEF ByTime, ByCount, m
<1>8. ASSUME NEW n \in 0..SendingOfOthers, OnSchedule(run, n)
      PROVE  OnSchedule(r, n)
  <2>1. run.left >= 1 - RecordTime
    BY <1>2, <1>8, LateTyped DEF OnSchedule
  <2>2. SendingOfOthers \in Int /\ n \in Nat /\ n <= SendingOfOthers
    BY <1>8, OthersTyped
  <2>3. time - run.left <= Late
    BY <1>2, <1>3, <2>1, LateTyped
  <2>4. time - run.left + n <= SendingOfOthers + Late
    BY <1>2, <1>3, <2>2, <2>3, LateTyped
  <2> QED
    BY <1>1, <2>4 DEF OnSchedule
<1> QED
  BY <1>6, <1>7, <1>8 DEF Follows, r, time

\* A run begins on schedule.
LEMMA StartOnSchedule ==
  ASSUME NEW n \in 0..SendingOfOthers, NEW run,
         run = [phase |-> "waitingDestination", attempts |-> 1, left |-> MaxElapsed,
                timer |-> Timeout(MaxElapsed), delay |-> NULL]
  PROVE  InItsTime(run) /\ OnSchedule(run, n)
<1> DEFINE time == Timeout(MaxElapsed)
<1>1. MaxElapsed \in Nat \ {0}
  BY EngineAssumption
<1>2. time \in Nat /\ time <= AttemptTimeout /\ time <= MaxElapsed
  BY <1>1, TimeoutNat
<1>3. run.phase = "waitingDestination" /\ run.left = MaxElapsed /\ run.timer = time
  OBVIOUS
<1> HIDE DEF time
<1>4. InItsTime(run)
  BY <1>1, <1>2, <1>3 DEF InItsTime
<1>5. time - MaxElapsed + n <= SendingOfOthers + Late
  BY <1>1, <1>2, LateTyped, OthersTyped
<1> QED
  BY <1>3, <1>4, <1>5 DEF OnSchedule

\* The less the others may still send, the easier a run is on schedule.
LEMMA ScheduleLess ==
  ASSUME NEW run \in Run, NEW m \in Nat, NEW n \in Nat, n <= m, OnSchedule(run, m)
  PROVE  OnSchedule(run, n)
<1>1. run.left \in Int /\ run.timer \in Nat
  BY DEF Run
<1>2. SendingOfOthers + Late \in Int /\ SendingOfOthers + Late + RecordTime \in Int
  BY OthersTyped, LateTyped
<1>3. ASSUME NEW bound \in Int, run.timer - run.left + m <= bound
      PROVE  run.timer - run.left + n <= bound
  BY <1>1, <1>3
<1> QED
  BY <1>2, <1>3 DEF OnSchedule

\* A step that changes one run at most, and lets no call have another run.
LEMMA OneRunChanges ==
  ASSUME RunsOK, OneRun, RunsInTime, NEW c \in Call, NEW r \in Run \cup {NULL},
         runs' = [runs EXCEPT ![c] = r],
         \A e \in Call : ToRun(e)' => ToRun(e),
         r # NULL /\ Running(c) => Follows(runs[c], r),
         r # NULL /\ ~Running(c) =>
           ToRun(c) /\ \A n \in 0..SendingOfOthers : InItsTime(r) /\ OnSchedule(r, n)
  PROVE  RunsInTime'
<1>1. /\ runs \in [Call -> Run \cup {NULL}] /\ runs'[c] = r
      /\ \A e \in Call \ {c} : runs'[e] = runs[e] /\ (Running(e)' <=> Running(e))
      /\ Running(c)' <=> r # NULL
  BY DEF RunsOK, Running
<1>2. ASSUME NEW d \in Call, NEW n \in 1..SendingOfOne, MaySend(d, n)'
      PROVE  MaySend(d, n)
  <2>1. n \in Nat \ {0}
    BY SendingOfOneTyped
  <2>2. CASE d # c
    BY <1>1, <1>2, <2>2 DEF MaySend
  <2>3. CASE d = c /\ r = NULL
    <3>1. ToRun(c)'
      BY <1>1, <1>2, <2>3 DEF MaySend
    <3>2. ToRun(c) /\ ~Running(c)
      BY <3>1 DEF OneRun
    <3> QED
      BY <2>3, <3>2 DEF MaySend
  <2>4. CASE d = c /\ r # NULL /\ Running(c)
    <3>1. ByTime(r, n) /\ ByCount(r, n)
      BY <1>1, <1>2, <2>4 DEF MaySend
    <3> QED
      BY <2>1, <2>4, <3>1 DEF MaySend, Follows
  <2>5. CASE d = c /\ r # NULL /\ ~Running(c)
    BY <2>5 DEF MaySend
  <2> QED
    BY <2>2, <2>3, <2>4, <2>5
<1>3. ASSUME NEW e \in Call, Running(e)'
      PROVE  InItsTime(runs'[e]) /\ OnSchedule(runs'[e], Cardinality(Sendable(e)'))
  <2> DEFINE before == Cardinality(Sendable(e))
             after == Cardinality(Sendable(e)')
  <2>1. before \in 0..SendingOfOthers /\ SendingOfOthers \in Nat
    BY SendableCounted
  <2>2. after \in Nat /\ after <= before
    BY <1>2, SendableLess
  <2>3. Running(e) => InItsTime(runs[e]) /\ OnSchedule(runs[e], before)
    BY DEF RunsInTime
  <2> HIDE DEF before, after
  <2>4. after \in 0..SendingOfOthers /\ before \in Nat
    BY <2>1, <2>2
  <2>5. ASSUME Running(e) PROVE OnSchedule(runs[e], after)
    <3>1. runs[e] \in Run
      BY <1>1, <2>5 DEF Running
    <3> QED
      BY <2>2, <2>3, <2>4, <2>5, <3>1, ScheduleLess
  <2>6. InItsTime(runs'[e]) /\ OnSchedule(runs'[e], after)
    <3>1. CASE e # c
      BY <1>1, <1>3, <2>3, <2>5, <3>1
    <3>2. CASE e = c /\ Running(c)
      BY <1>1, <1>3, <2>4, <2>5, <3>2 DEF Follows
    <3>3. CASE e = c /\ ~Running(c)
      BY <1>1, <1>3, <2>4, <3>3
    <3> QED
      BY <3>1, <3>2, <3>3
  <2> QED
    BY <2>6 DEF after
<1> QED
  BY <1>3 DEF RunsInTime

LEMMA NoRunChanges ==
  ASSUME RunsOK, OneRun, RunsInTime, UNCHANGED runs, \A e \in Call : ToRun(e)' => ToRun(e)
  PROVE  RunsInTime'
<1> SUFFICES ASSUME NEW c \in Call PROVE RunsInTime'
  BY DEF RunsInTime
<1>1. runs[c] \in Run \cup {NULL} /\ runs' = [runs EXCEPT ![c] = runs[c]]
  BY DEF RunsOK
<1>2. runs[c] # NULL <=> Running(c)
  BY DEF Running
<1>3. Running(c) => Follows(runs[c], runs[c])
  BY DEF Follows, RunsInTime
<1> QED
  BY <1>1, <1>2, <1>3, OneRunChanges

-------------------------------------------------------------------------------
(* Time passes.                                                            *)

\* A run after one unit of time.
LEMMA CloserRun ==
  ASSUME RunsOK, EngineElapse, NEW c \in Call, Running(c)
  PROVE  /\ runs'[c] = Closer(runs[c]) /\ Running(c)'
         /\ runs[c] \in Run /\ Closer(runs[c]) \in Run
         /\ Closer(runs[c]).phase = runs[c].phase
         /\ Closer(runs[c]).attempts = runs[c].attempts
         /\ Closer(runs[c]).delay = runs[c].delay
         /\ Closer(runs[c]).left = runs[c].left - 1
         /\ runs[c].phase \in Timed =>
              runs[c].timer > 0 /\ Closer(runs[c]).timer = runs[c].timer - 1
         /\ runs[c].phase \notin Timed => Closer(runs[c]).timer = runs[c].timer
<1>1. runs[c] \in Run /\ runs'[c] = Closer(runs[c])
  BY DEF RunsOK, Running, EngineElapse
<1>2. runs[c].left \in Int /\ runs[c].timer \in Nat
  BY <1>1 DEF Run
<1>3. runs[c].phase \in Timed => runs[c].timer # 0
  BY DEF EngineElapse, Due
<1> DEFINE left == runs[c].left - 1
           timer == IF runs[c].phase \in Timed THEN runs[c].timer - 1 ELSE runs[c].timer
<1>4. left \in Int /\ timer \in Nat
  BY <1>2, <1>3
<1>5. /\ runs[c].phase \in Timed => runs[c].timer > 0 /\ timer = runs[c].timer - 1
      /\ runs[c].phase \notin Timed => timer = runs[c].timer
  BY <1>2, <1>3
<1> HIDE DEF timer
<1>6. Closer(runs[c]) = [runs[c] EXCEPT !.left = left, !.timer = timer]
  BY DEF Closer, timer
<1> HIDE DEF left
<1>7. /\ Closer(runs[c]) \in Run
      /\ Closer(runs[c]).phase = runs[c].phase
      /\ Closer(runs[c]).attempts = runs[c].attempts
      /\ Closer(runs[c]).delay = runs[c].delay
      /\ Closer(runs[c]).left = left /\ Closer(runs[c]).timer = timer
  BY <1>1, <1>4, <1>6 DEF Run
<1>8. Running(c)'
  BY <1>1, <1>7, RunAssumption DEF Running
<1> QED
  BY <1>1, <1>5, <1>7, <1>8 DEF left

\* No run gets more to send, and one that sends has one unit less.
LEMMA ElapseSends ==
  ASSUME RunsOK, RunsInTime, EngineElapse, UNCHANGED <<calls, queued, pulled>>, NEW d \in Call
  PROVE  /\ \A n \in 1..SendingOfOne : MaySend(d, n)' => MaySend(d, n)
         /\ Is(d, "sending") => \E n \in 1..SendingOfOne : MaySend(d, n) /\ ~MaySend(d, n)'
<1>1. CASE ~Running(d)
  <2>1. ~Running(d)'
    BY <1>1 DEF EngineElapse, Running
  <2>2. ToRun(d)' <=> ToRun(d)
    BY DEF ToRun
  <2> QED
    BY <1>1, <2>1, <2>2 DEF MaySend, Is
<1>2. CASE Running(d)
  <2> DEFINE run == runs[d]
             r == Closer(runs[d])
             m == (MaxAttempts - run.attempts) * AttemptTimeout
  <2>1. /\ runs'[d] = r /\ Running(d)' /\ run \in Run /\ r \in Run
        /\ r.phase = run.phase /\ r.attempts = run.attempts /\ r.delay = run.delay
        /\ r.left = run.left - 1
        /\ run.phase \in Timed => run.timer > 0 /\ r.timer = run.timer - 1
        /\ run.phase \notin Timed => r.timer = run.timer
    BY <1>2, CloserRun
  <2>2. InItsTime(run)
    BY <1>2 DEF RunsInTime
  <2>3. /\ \A n : MaySend(d, n) <=> ByTime(run, n) /\ ByCount(run, n)
        /\ \A n : MaySend(d, n)' <=> ByTime(r, n) /\ ByCount(r, n)
    BY <1>2, <2>1 DEF MaySend
  <2> HIDE DEF r, run
  <2>4. /\ run.left \in Int /\ run.timer \in Nat /\ r.timer \in Nat /\ r.left \in Int
        /\ run.attempts \in 1..MaxAttempts
    BY <2>1 DEF Run
  <2>5. r.timer <= run.timer
    BY <2>1, <2>4
  <2>6. /\ MaxAttempts \in Nat \ {0} /\ AttemptTimeout \in Nat \ {0} /\ MaxElapsed \in Nat
    BY EngineAssumption
  <2>7. m \in Nat /\ m + AttemptTimeout <= MaxAttempts * AttemptTimeout
    <3> DEFINE k == MaxAttempts - run.attempts
               l == MaxAttempts - 1
    <3>1. k \in Nat /\ l \in Nat /\ k <= l /\ MaxAttempts = l + 1 /\ AttemptTimeout \in Nat
      BY <2>4, <2>6
    <3>2. m = k * AttemptTimeout
      OBVIOUS
    <3> HIDE DEF k, l, m
    <3>3. /\ k * AttemptTimeout \in Nat /\ l * AttemptTimeout \in Nat
          /\ k * AttemptTimeout <= l * AttemptTimeout
          /\ (l + 1) * AttemptTimeout = l * AttemptTimeout + AttemptTimeout
      BY <3>1, Products
    <3> DEFINE p == k * AttemptTimeout
               q == l * AttemptTimeout
    <3>4. m = p /\ p \in Nat /\ q \in Nat /\ p <= q
          /\ MaxAttempts * AttemptTimeout = q + AttemptTimeout
      BY <3>1, <3>2, <3>3
    <3> HIDE DEF p, q
    <3> QED
      BY <2>6, <3>4
  <2>8. /\ \A n : ByCount(run, n) <=> n <= m + (IF run.phase \in Trying THEN run.timer ELSE 0)
        /\ \A n : ByCount(r, n) <=> n <= m + (IF run.phase \in Trying THEN r.timer ELSE 0)
    BY <2>1 DEF ByCount
  <2> HIDE DEF m
  <2>9. ASSUME NEW n \in 1..SendingOfOne, ByTime(r, n), ByCount(r, n)
        PROVE  ByTime(run, n) /\ ByCount(run, n)
    <3>1. n \in Nat
      BY SendingOfOneTyped
    <3>2. ByTime(run, n)
      BY <2>1, <2>4, <2>5, <2>9, <3>1 DEF ByTime
    <3>3. ByCount(run, n)
      BY <2>4, <2>5, <2>7, <2>8, <2>9, <3>1
    <3> QED
      BY <3>2, <3>3
  <2>10. ASSUME Is(d, "sending")
         PROVE  \E n \in 1..SendingOfOne : /\ ByTime(run, n) /\ ByCount(run, n)
                                           /\ ~(ByTime(r, n) /\ ByCount(r, n))
    <3>1. run.phase = "sending" /\ "sending" \in Trying /\ "sending" \in Timed
      BY <2>10 DEF Is, Trying, Timed, run
    <3>2. run.timer > 0 /\ r.timer = run.timer - 1
      BY <2>1, <3>1
    <3>3. run.left <= MaxElapsed /\ run.timer <= MaxElapsed /\ run.timer <= AttemptTimeout
      BY <2>2, <3>1 DEF InItsTime
    <3> DEFINE time == IF run.left <= run.timer THEN run.timer ELSE run.left
               count == m + run.timer
               n == IF time <= count THEN time ELSE count
    <3>4. /\ time \in Nat \ {0} /\ time <= MaxElapsed
          /\ run.timer <= time /\ run.left <= time
          /\ time = run.timer \/ time = run.left
      BY <2>4, <2>6, <3>2, <3>3
    <3>5. count \in Nat \ {0} /\ count <= MaxAttempts * AttemptTimeout
      <4> DEFINE p == MaxAttempts * AttemptTimeout
      <4>1. p \in Nat /\ m + AttemptTimeout <= p
        BY <2>7, SendingOfOneTyped
      <4> HIDE DEF p
      <4>2. count \in Nat \ {0} /\ count <= p
        BY <2>4, <2>6, <2>7, <3>2, <3>3, <4>1
      <4> QED
        BY <4>2 DEF p
    <3>6. /\ ByCount(run, count)
          /\ \A i \in Nat : ByCount(run, i) <=> i <= count
          /\ \A i \in Nat : ByCount(r, i) <=> i <= count - 1
      BY <2>4, <2>7, <2>8, <3>1, <3>2
    <3>7. /\ \A i \in Nat : ByTime(run, i) <=> i <= run.timer \/ i <= run.left
          /\ \A i \in Nat : ByTime(r, i) <=> i <= run.timer - 1 \/ i <= run.left - 1
      BY <2>1, <3>1, <3>2 DEF ByTime
    <3> HIDE DEF time, count
    <3>8. n \in Nat \ {0} /\ n <= time /\ n <= count /\ (n = time \/ n = count)
      BY <3>4, <3>5
    <3>9. n \in 1..SendingOfOne
      <4> DEFINE p == MaxAttempts * AttemptTimeout
      <4>1. p \in Nat /\ count <= p
        BY <3>5, SendingOfOneTyped
      <4> HIDE DEF p, n
      <4>2. n <= MaxElapsed /\ n <= p /\ n \in Int
        BY <2>6, <3>4, <3>5, <3>8, <4>1
      <4>3. n <= SendingOfOne
        BY <4>2, SendingOfOneTyped DEF p
      <4> QED
        BY <3>8, <4>3, SendingOfOneTyped
    <3> HIDE DEF n
    <3>10. ByTime(run, n) /\ ByCount(run, n)
      BY <2>4, <3>4, <3>6, <3>7, <3>8
    <3>11. ~(ByTime(r, n) /\ ByCount(r, n))
      BY <2>4, <3>4, <3>5, <3>6, <3>7, <3>8
    <3> QED
      BY <3>9, <3>10, <3>11
  <2> QED
    BY <2>3, <2>9, <2>10
<1> QED
  BY <1>1, <1>2

\* When no run can go on without waiting, whoever waits for a permit waits for one that
\* sends: a permit of a destination is held by a run that waits for a global one or sends,
\* and a global one by a run that sends.
LEMMA OthersSend ==
  ASSUME RunsOK, EnginePermits, \A d \in Call : ~Due(d), NEW c \in Call, Running(c),
         runs[c].phase \in {"waitingDestination", "waitingGlobal"}
  PROVE  \E d \in Call \ {c} : Is(d, "sending")
<1>1. \A d \in Call : ~Due(d)
  OBVIOUS
<1>2. Sending \in SUBSET Call /\ Holding \in SUBSET Call
  BY DEF Sending, Holding, InPhase
<1>3. ASSUME ~(globalTaken < GlobalLimit) PROVE \E d \in Call : Is(d, "sending")
  <2>1. globalTaken = Cardinality(Sending) /\ Cardinality(Sending) \in Nat
    BY <1>2, FS_Subset, FS_CardinalityType, EngineAssumption DEF EnginePermits
  <2>2. Cardinality(Sending) # 0
    BY <1>3, <2>1, EngineAssumption
  <2>3. Sending # {}
    BY <2>2, FS_EmptySet
  <2> QED
    BY <2>3 DEF Sending, InPhase, Is
<1>4. CASE \E e \in Call : Is(e, "waitingGlobal")
  <2>1. ~(globalTaken < GlobalLimit)
    BY <1>1, <1>4 DEF Due
  <2> QED
    BY <1>3, <2>1 DEF Is
<1>5. CASE ~\E e \in Call : Is(e, "waitingGlobal")
  <2> DEFINE t == Target[c]
             H == {e \in Holding : Target[e] = t}
  <2>1. Is(c, "waitingDestination") /\ t \in Destination
    BY <1>5, TargetTyped DEF Is
  <2>2. ~(destinationTaken[t] < DestinationLimit)
    BY <1>1, <2>1 DEF Due
  <2>3. destinationTaken[t] = Cardinality(H) /\ destinationTaken[t] \in Nat
    BY <2>1 DEF EnginePermits, Counts, OfDestination
  <2>4. Cardinality(H) # 0
    BY <2>2, <2>3, EngineAssumption
  <2>5. H # {}
    BY <2>4, FS_EmptySet
  <2>6. PICK e \in Call : Running(e) /\ runs[e].phase \in {"waitingGlobal", "sending"}
    BY <2>5 DEF Holding, InPhase
  <2> QED
    BY <1>5, <2>6 DEF Is
<1> QED
  BY <1>4, <1>5

LEMMA ElapseInTime ==
  ASSUME RunsOK, EnginePermits, RunsInTime, EngineElapse, UNCHANGED <<calls, queued, pulled>>
  PROVE  RunsInTime'
<1>1. ASSUME NEW c \in Call, Running(c)'
      PROVE  InItsTime(runs'[c]) /\ OnSchedule(runs'[c], Cardinality(Sendable(c)'))
  <2> DEFINE run == runs[c]
             r == Closer(runs[c])
             before == Cardinality(Sendable(c))
             after == Cardinality(Sendable(c)')
  <2>1. Running(c)
    BY <1>1 DEF EngineElapse, Running
  <2>2. /\ runs'[c] = r /\ run \in Run /\ r \in Run
        /\ r.phase = run.phase /\ r.attempts = run.attempts /\ r.delay = run.delay
        /\ r.left = run.left - 1
        /\ run.phase \in Timed => run.timer > 0 /\ r.timer = run.timer - 1
        /\ run.phase \notin Timed => r.timer = run.timer
    BY <2>1, CloserRun
  <2>3. InItsTime(run) /\ OnSchedule(run, before)
    BY <2>1 DEF RunsInTime
  <2>4. before \in Nat /\ after \in Nat /\ after <= before
    BY SendableCounted, SendableLess, ElapseSends
  <2>5. run.phase \in {"waitingDestination", "waitingGlobal"} => after < before
    <3>1. ASSUME run.phase \in {"waitingDestination", "waitingGlobal"} PROVE after < before
      <4>1. PICK d \in Call \ {c} : Is(d, "sending")
        BY <2>1, <3>1, OthersSend DEF EngineElapse
      <4>2. \E n \in 1..SendingOfOne : MaySend(d, n) /\ ~MaySend(d, n)'
        BY <4>1, ElapseSends
      <4>3. \A e \in Call \ {c}, n \in 1..SendingOfOne : MaySend(e, n)' => MaySend(e, n)
        BY ElapseSends
      <4> QED
        BY <4>2, <4>3, SendableLess
    <3> QED
      BY <3>1
  <2> HIDE DEF run, r, before, after
  <2>6. /\ run.left \in Int /\ run.timer \in Nat /\ r.timer \in Nat
        /\ run.delay \in Nat \cup {NULL} /\ run.phase \in Phases
    BY <2>2 DEF Run
  <2>7. InItsTime(r)
    BY <2>2, <2>3, <2>6, EngineAssumption DEF InItsTime
  <2>8. OnSchedule(r, after)
    <3> DEFINE bound == SendingOfOthers + Late
    <3>1. bound \in Int /\ RecordTime \in Nat
      BY OthersTyped, LateTyped
    <3>2. /\ run.phase \in Trying => run.timer - run.left + before <= bound
          /\ run.phase = "recording" /\ run.delay = NULL =>
               run.timer - run.left + before <= bound + RecordTime
          /\ run.phase = "recording" /\ run.delay # NULL =>
               run.left - run.delay - run.timer >= 1 - RecordTime
          /\ run.phase = "sleeping" => run.left - run.timer >= 1 - RecordTime
      BY <2>3 DEF OnSchedule
    <3> HIDE DEF bound
    <3>3. CASE run.phase \in {"waitingDestination", "waitingGlobal"}
      <4>1. run.phase \in Trying /\ run.phase \notin Timed
        BY <3>3 DEF Trying, Timed
      <4>2. r.timer - r.left + after <= bound
        BY <2>2, <2>4, <2>5, <2>6, <3>1, <3>2, <3>3, <4>1
      <4> QED
        BY <2>2, <3>3, <4>2 DEF OnSchedule, bound
    <3>4. CASE run.phase = "sending"
      <4>1. run.phase \in Trying /\ run.phase \in Timed
        BY <3>4 DEF Trying, Timed
      <4>2. r.timer - r.left + after <= bound
        BY <2>2, <2>4, <2>6, <3>1, <3>2, <4>1
      <4> QED
        BY <2>2, <3>4, <4>2 DEF OnSchedule, bound
    <3>5. CASE run.phase = "recording"
      <4>1. run.phase \notin Trying /\ run.phase \in Timed
        BY <3>5 DEF Trying, Timed
      <4>2. run.delay = NULL => r.timer - r.left + after <= bound + RecordTime
        BY <2>2, <2>4, <2>6, <3>1, <3>2, <3>5, <4>1
      <4>3. run.delay # NULL => r.left - run.delay - r.timer >= 1 - RecordTime
        BY <2>2, <2>6, <3>1, <3>2, <3>5, <4>1
      <4> QED
        BY <2>2, <3>5, <4>1, <4>2, <4>3 DEF OnSchedule, bound
    <3>6. CASE run.phase = "sleeping"
      <4>1. run.phase \notin Trying /\ run.phase \in Timed
        BY <3>6 DEF Trying, Timed
      <4>2. r.left - r.timer >= 1 - RecordTime
        BY <2>2, <2>6, <3>1, <3>2, <3>6, <4>1
      <4> QED
        BY <2>2, <3>6, <4>1, <4>2 DEF OnSchedule
    <3> QED
      BY <2>6, <3>3, <3>4, <3>5, <3>6 DEF Phases
  <2> QED
    BY <2>2, <2>7, <2>8 DEF r, after
<1> QED
  BY <1>1 DEF RunsInTime

-------------------------------------------------------------------------------
(* Every step, once more.                                                  *)

\* A step that changes no run, or one, and puts no call before its run again.
LEMMA RunsStay ==
  ASSUME RunsOK, OneRun, RunsInTime, UNCHANGED runs, \A e \in Call : ToRun(e)' => ToRun(e),
         queued' \cap pulled' = {}
  PROVE  OneRun' /\ RunsInTime'
<1>1. \A e \in Call : Running(e)' <=> Running(e)
  BY DEF Running
<1> QED
  BY <1>1, NoRunChanges DEF OneRun

LEMMA RunGoesOn ==
  ASSUME RunsOK, OneRun, RunsInTime, NEW c \in Call, Running(c), NEW r \in Run \cup {NULL},
         runs' = [runs EXCEPT ![c] = r], r # NULL => Follows(runs[c], r),
         \A e \in Call : ToRun(e)' => ToRun(e), queued' \cap pulled' = {}
  PROVE  OneRun' /\ RunsInTime'
<1>1. \A e \in Call : Running(e)' => Running(e)
  BY DEF Running, RunsOK
<1> QED
  BY <1>1, OneRunChanges DEF OneRun

\* An attempting job keeps its run, which follows the one before.
LEMMA AttemptFollows ==
  ASSUME RunsOK, RunsInTime, NEW c \in Call, Attempting(c)
  PROVE  Running(c) /\ \E r \in Run : runs' = [runs EXCEPT ![c] = r] /\ Follows(runs[c], r)
<1>1. Running(c)
  BY DEF Attempting, TakeDestination, TakeGlobal, Recorded, Wake, Answer, Is
<1>2. /\ runs \in [Call -> Run \cup {NULL}] /\ runs[c] \in Run /\ InItsTime(runs[c])
      /\ runs[c].phase = "sleeping" => runs[c].attempts < MaxAttempts
  BY <1>1 DEF RunsOK, RunsInTime, Running
<1>3. \E r \in Run : runs' = [runs EXCEPT ![c] = r] /\ Follows(runs[c], r)
  <2>1. CASE TakeDestination(c)
    <3>1. /\ runs[c].phase \in Trying /\ "waitingGlobal" \in Trying
          /\ runs' = [runs EXCEPT ![c] = [runs[c] EXCEPT !.phase = "waitingGlobal"]]
      BY <1>2, <2>1 DEF TakeDestination, Is, Trying
    <3>2. runs'[c] \in Run
      BY <1>2, <3>1 DEF Run, Phases
    <3> QED
      BY <1>2, <3>1, <3>2, PermitFollows
  <2>2. CASE TakeGlobal(c)
    <3>1. /\ runs[c].phase \in Trying /\ "sending" \in Trying
          /\ runs' = [runs EXCEPT ![c] = [runs[c] EXCEPT !.phase = "sending"]]
      BY <1>2, <2>2 DEF TakeGlobal, Is, Trying
    <3>2. runs'[c] \in Run
      BY <1>2, <3>1 DEF Run, Phases
    <3> QED
      BY <1>2, <3>1, <3>2, PermitFollows
  <2>3. CASE \E retryAfter \in RetryAfters \cup {NULL} : Answer(c, retryAfter)
    <3>1. PICK retryAfter \in RetryAfters \cup {NULL}, jitter \in 0..(MaxDelay - 1) :
            runs' = [runs EXCEPT ![c].phase = "recording", ![c].timer = RecordTime,
              ![c].delay = IF retryAfter = NULL THEN NULL
                           ELSE Delay(runs[c], jitter, retryAfter)]
      BY <2>3 DEF Answer
    <3> DEFINE delay == IF retryAfter = NULL THEN NULL ELSE Delay(runs[c], jitter, retryAfter)
    <3>2. delay \in Nat \cup {NULL} /\ (delay # NULL => delay < runs[c].left)
      <4>1. CASE retryAfter = NULL
        BY <4>1
      <4>2. CASE retryAfter # NULL
        <5>1. jitter \in Nat /\ retryAfter \in Nat
          BY <4>2, EngineAssumption
        <5> QED
          BY <1>2, <4>2, <5>1, DelayNat
      <4> QED
        BY <4>1, <4>2
    <3>3. runs' = [runs EXCEPT ![c] = [runs[c] EXCEPT !.phase = "recording",
                     !.timer = RecordTime, !.delay = delay]]
      BY <1>2, <3>1
    <3>4. runs[c].phase \in Trying
      BY <2>3 DEF Answer, Is, Trying
    <3> HIDE DEF delay
    <3>5. [runs[c] EXCEPT !.phase = "recording", !.timer = RecordTime, !.delay = delay] \in Run
      BY <1>2, <3>2, LateTyped DEF Run, Phases
    <3> QED
      BY <1>2, <3>2, <3>3, <3>4, <3>5, AnswerFollows
  <2>4. CASE Recorded(c)
    <3>1. /\ runs[c].phase = "recording" /\ runs[c].delay # NULL
          /\ runs' = [runs EXCEPT ![c] = [runs[c] EXCEPT !.phase = "sleeping",
                        !.timer = runs[c].delay, !.delay = NULL]]
      BY <1>2, <2>4 DEF Recorded, Is
    <3>2. [runs[c] EXCEPT !.phase = "sleeping", !.timer = runs[c].delay, !.delay = NULL] \in Run
      BY <1>2, <3>1 DEF Run, Phases
    <3> QED
      BY <1>2, <3>1, <3>2, RecordedFollows
  <2>5. CASE Wake(c)
    <3>1. /\ runs[c].phase = "sleeping" /\ runs[c].timer = 0
          /\ runs' = [runs EXCEPT ![c] = [runs[c] EXCEPT !.phase = "waitingDestination",
                        !.attempts = runs[c].attempts + 1, !.timer = Timeout(runs[c].left)]]
      BY <1>2, <2>5 DEF Wake, Is
    <3> DEFINE time == Timeout(runs[c].left)
    <3>2. time \in Nat /\ runs[c].attempts + 1 \in 1..MaxAttempts
      BY <1>2, <3>1, TimeoutNat, EngineAssumption DEF Run
    <3> HIDE DEF time
    <3>3. [runs[c] EXCEPT !.phase = "waitingDestination", !.attempts = runs[c].attempts + 1,
                          !.timer = time] \in Run
      BY <1>2, <3>2 DEF Run, Phases
    <3> QED
      BY <1>2, <3>1, <3>3, WakeFollows DEF time
  <2> QED
    BY <2>1, <2>2, <2>3, <2>4, <2>5 DEF Attempting
<1> QED
  BY <1>1, <1>3

LEMMA AttemptingInTime ==
  ASSUME RunsOK, OneRun, RunsInTime, NEW c \in Call, Attempting(c)
  PROVE  OneRun' /\ RunsInTime'
<1>1. \A e \in Call : ToRun(e)' => ToRun(e)
  BY DEF Attempting, ToRun, jobVars
<1>2. queued' \cap pulled' = {}
  BY DEF Attempting, jobVars, OneRun
<1>3. PICK r \in Run : runs' = [runs EXCEPT ![c] = r] /\ Follows(runs[c], r)
  BY AttemptFollows
<1> QED
  BY <1>1, <1>2, <1>3, AttemptFollows, RunGoesOn

LEMMA NextOverrun == OverrunInv /\ [ProcessNext]_processVars => OverrunInv'
<1> SUFFICES ASSUME OverrunInv, [ProcessNext]_processVars PROVE OneRun' /\ RunsInTime'
  BY NextProcessInv DEF OverrunInv
<1>1. /\ RunsOK /\ EnginePermits /\ JobsOK /\ OneRun /\ RunsInTime
      /\ calls \in [Call -> CallStates] /\ runs \in [Call -> Run \cup {NULL}]
  BY DEF OverrunInv, ProcessInv, RunsOK, AdmissionPermits, CallStates
<1>2. RunsOK'
  BY NextProcessInv DEF OverrunInv, ProcessInv
<1>3. CASE UNCHANGED processVars \/ Build \/ MarkReady \/ Shutdown \/ Dispose \/ Disposed
  <2>1. UNCHANGED <<engineVars, calls, jobVars>>
    BY <1>3 DEF processVars, Build, MarkReady, Shutdown, Dispose, Disposed
  <2>2. UNCHANGED <<runs, calls, queued, pulled>>
    BY <2>1 DEF engineVars, jobVars
  <2> QED
    BY <1>1, <2>2, RunsStay DEF ToRun, OneRun
<1>4. ASSUME NEW c \in Call, Arrive(c) \/ CallIn(c) \/ StoreFails(c) \/ Gone(c)
      PROVE  OneRun' /\ RunsInTime'
  <2>1. UNCHANGED <<runs, queued, pulled>>
    BY <1>4 DEF Arrive, CallIn, StoreFails, Gone, engineVars, jobVars
  <2>2. At(c, "new") \/ \E state \in Answers : To(c, state)
    BY <1>4 DEF Arrive, CallIn, ComeIn, StoreFails, Gone, Answers
  <2>3. \A e \in Call : e # c => calls'[e] = calls[e]
    <3>1. \E state : To(c, state)
      BY <1>4 DEF Arrive, CallIn, ComeIn, Admit, StoreFails, Gone
    <3> QED
      BY <1>1, <3>1 DEF To
  <2>4. \A e \in Call : ToRun(e)' => ToRun(e)
    BY <1>1, <2>1, <2>2, <2>3 DEF ToRun, At, To, Answers
  <2> QED
    BY <1>1, <2>1, <2>4, RunsStay DEF OneRun
<1>5. ASSUME NEW c \in Call, Store(c) PROVE OneRun' /\ RunsInTime'
  <2>1. /\ UNCHANGED <<runs, pulled>> /\ queued' \subseteq queued \cup {c}
        /\ calls[c] \in {"accepting", "admitted"}
    BY <1>5 DEF Store, engineVars
  <2>2. \A e \in Call : e # c => calls'[e] = calls[e]
    BY <1>1, <1>5 DEF Store, To
  <2>3. \A e \in Call : ToRun(e)' => ToRun(e)
    BY <2>1, <2>2 DEF ToRun
  <2>4. c \notin pulled
    BY <1>1, <2>1 DEF JobsOK, Answers
  <2> QED
    BY <1>1, <2>1, <2>3, <2>4, RunsStay DEF OneRun
<1>6. CASE Pull
  <2>1. UNCHANGED <<runs, calls>> /\ pulled = {} /\ pulled' = queued /\ queued' = {}
    BY <1>6 DEF Pull, engineVars
  <2> QED
    BY <1>1, <2>1, RunsStay DEF ToRun
<1>7. ASSUME NEW c \in Call, Dispatch(c) PROVE OneRun' /\ RunsInTime'
  <2>1. /\ c \in pulled /\ c \notin queued /\ pulled' = pulled \ {c}
        /\ UNCHANGED <<calls, queued>>
        /\ UNCHANGED runs \/ Start(c)
    BY <1>1, <1>7 DEF Dispatch, engineVars, OneRun
  <2>2. /\ \A e \in Call : ToRun(e)' => ToRun(e)
        /\ queued' \cap pulled' = {}
    BY <1>1, <2>1 DEF ToRun, OneRun
  <2>3. CASE UNCHANGED runs
    BY <1>1, <2>2, <2>3, RunsStay
  <2>4. CASE Start(c)
    <3> DEFINE r == [phase |-> "waitingDestination", attempts |-> 1, left |-> MaxElapsed,
                     timer |-> Timeout(MaxElapsed), delay |-> NULL]
    <3>1. ~Running(c) /\ runs' = [runs EXCEPT ![c] = r] /\ ToRun(c)
      BY <2>1, <2>4 DEF Start, ToRun
    <3>2. \A n \in 0..SendingOfOthers : InItsTime(r) /\ OnSchedule(r, n)
      BY StartOnSchedule
    <3> HIDE DEF r
    <3>3. r \in Run \cup {NULL}
      BY <1>1, <1>2, <3>1 DEF RunsOK
    <3>4. RunsInTime'
      BY <1>1, <2>2, <3>1, <3>2, <3>3, OneRunChanges
    <3>5. ~ToRun(c)'
      BY <1>1, <2>1 DEF ToRun, JobsOK, Answers
    <3>6. \A e \in Call : Running(e)' => Running(e) \/ e = c
      BY <1>1, <3>1 DEF Running
    <3> QED
      BY <1>1, <2>2, <3>4, <3>5, <3>6 DEF OneRun
  <2> QED
    BY <2>1, <2>3, <2>4
<1>8. ASSUME NEW c \in Call, Attempting(c) PROVE OneRun' /\ RunsInTime'
  BY <1>1, <1>8, AttemptingInTime
<1>9. ASSUME NEW c \in Call, JobEnds(c) \/ JobFails(c) \/ JobStops(c)
      PROVE  OneRun' /\ RunsInTime'
  <2>1. UNCHANGED runs \/ (Running(c) /\ runs' = [runs EXCEPT ![c] = NULL])
    BY <1>9 DEF JobEnds, JobFails, JobStops, Finish, Interrupt, Is, engineVars
  <2>2. queued' \subseteq queued /\ pulled' \subseteq pulled
    BY <1>9 DEF JobEnds, JobFails, JobStops, Settle
  <2>3. UNCHANGED calls \/ To(c, "ended")
    BY <1>9 DEF JobEnds, JobFails, JobStops, Settle
  <2>4. \A e \in Call : ToRun(e)' => ToRun(e)
    BY <1>1, <2>2, <2>3 DEF ToRun, To
  <2>5. queued' \cap pulled' = {}
    BY <1>1, <2>2 DEF OneRun
  <2> QED
    BY <1>1, <2>1, <2>4, <2>5, RunsStay, RunGoesOn
<1>10. CASE ProcessElapse
  <2>1. EngineElapse /\ UNCHANGED <<calls, queued, pulled>>
    BY <1>10 DEF ProcessElapse, jobVars
  <2>2. RunsInTime'
    BY <1>1, <2>1, ElapseInTime
  <2>3. \A e \in Call : Running(e)' <=> Running(e)
    BY <1>1, <2>1, ElapseStep
  <2> QED
    BY <1>1, <2>1, <2>2, <2>3 DEF OneRun, ToRun
<1> QED
  BY <1>3, <1>4, <1>5, <1>6, <1>7, <1>8, <1>9, <1>10
     DEF ProcessNext, GoesOn, Happens, JobGoesOn, Abort, CutOff

LEMMA InitOverrun == ProcessInit => OverrunInv
<1> SUFFICES ASSUME ProcessInit PROVE OverrunInv
  OBVIOUS
<1>1. \A c \in Call : ~Running(c)
  BY DEF ProcessInit, EngineInit, Running
<1>2. queued = {} /\ pulled = {}
  BY DEF ProcessInit
<1> QED
  BY <1>1, <1>2, InitProcessInv DEF OverrunInv, OneRun, RunsInTime

\* No run goes on past its deadline for longer than the others may send, its last record
\* takes, and a retry can be late: however the permits are handed out, for any numbers of
\* calls, attempts and permits and any timeouts and delays.
THEOREM OverrunAlwaysBounded == ProcessSpec => []OverrunIsBounded
<1>1. ProcessInit => OverrunInv
  BY InitOverrun
<1>2. OverrunInv /\ [ProcessNext]_processVars => OverrunInv'
  BY NextOverrun
<1>3. OverrunInv => OverrunIsBounded
  <2> SUFFICES ASSUME OverrunInv, NEW c \in Call, Running(c)
               PROVE  runs[c].left >= -Overrun
    BY DEF OverrunIsBounded
  <2> DEFINE run == runs[c]
             n == Cardinality(Sendable(c))
             bound == SendingOfOthers + Late
  <2>1. run \in Run /\ OnSchedule(run, n)
    BY DEF OverrunInv, ProcessInv, RunsOK, RunsInTime, Running
  <2>2. /\ run.left \in Int /\ run.timer \in Nat /\ run.delay \in Nat \cup {NULL}
        /\ run.phase \in Phases
    BY <2>1 DEF Run
  <2>3. n \in Nat /\ SendingOfOthers \in Nat /\ bound \in Nat /\ RecordTime \in Nat
    BY SendableCounted, LateTyped
  <2>4. Overrun = bound + RecordTime
    BY <2>3, LateTyped DEF Overrun, Late
  <2>5. /\ run.phase \in Trying => run.timer - run.left + n <= bound
        /\ run.phase = "recording" /\ run.delay = NULL =>
             run.timer - run.left + n <= bound + RecordTime
        /\ run.phase = "recording" /\ run.delay # NULL =>
             run.left - run.delay - run.timer >= 1 - RecordTime
        /\ run.phase = "sleeping" => run.left - run.timer >= 1 - RecordTime
    BY <2>1 DEF OnSchedule
  <2> HIDE DEF run, n, bound
  <2>6. run.left >= -(bound + RecordTime)
    <3>1. CASE run.phase \in Trying
      BY <2>2, <2>3, <2>5, <3>1
    <3>2. CASE run.phase = "recording" /\ run.delay = NULL
      BY <2>2, <2>3, <2>5, <3>2
    <3>3. CASE run.phase = "recording" /\ run.delay # NULL
      BY <2>2, <2>3, <2>5, <3>3
    <3>4. CASE run.phase = "sleeping"
      BY <2>2, <2>3, <2>5, <3>4
    <3> QED
      BY <2>2, <3>1, <3>2, <3>3, <3>4 DEF Phases, Trying
  <2> QED
    BY <2>4, <2>6 DEF run
<1> QED
  BY <1>1, <1>2, <1>3, PTL DEF ProcessSpec

-------------------------------------------------------------------------------
(* Nobody waits for somebody who waits.                                    *)

\* Until fibers are cut off, a call that waits for its result has a job, and no job of
\* such a call has been cancelled.
WaitersHaveJobs ==
  /\ \A c \in cancelled : calls[c] \in Answers
  /\ \A c \in Call : At(c, "waiting") /\ stage # "disposing" =>
       c \in queued \cup pulled \/ Running(c)

\* The guards of Store, CutOff, Dispatch, of the ways out of an attempt and a record, of
\* taking a permit and waking up, of Pull, and of the passing of time.
CanGoOn ==
  \/ \E c \in Call :
       \/ calls[c] \in {"accepting", "admitted"}
       \/ stage = "disposing" /\ calls[c] \in Underway
       \/ c \in pulled /\ Cardinality({other \in Call : Running(other)}) < QueueCapacity
       \/ Is(c, "sending") \/ Is(c, "recording") \/ Due(c)
  \/ pulled = {} /\ queued # {}
  \/ (\E c \in Call : Running(c) /\ runs[c].phase \in Timed) /\ \A c \in Call : ~Due(c)

LEMMA NextWaiters ==
  OverrunInv /\ WaitersHaveJobs /\ [ProcessNext]_processVars => WaitersHaveJobs'
<1> SUFFICES ASSUME OverrunInv, WaitersHaveJobs, [ProcessNext]_processVars
             PROVE  WaitersHaveJobs'
  OBVIOUS
<1>1. /\ RunsOK /\ RunsInTime /\ cancelled \subseteq Call
      /\ calls \in [Call -> CallStates] /\ runs \in [Call -> Run \cup {NULL}]
  BY DEF OverrunInv, ProcessInv, RunsOK, JobsOK, AdmissionPermits, CallStates
<1>2. CASE UNCHANGED processVars \/ Build \/ MarkReady \/ Shutdown \/ Dispose \/ Disposed
  <2>1. UNCHANGED <<runs, calls, queued, pulled, cancelled>>
    BY <1>2 DEF processVars, Build, MarkReady, Shutdown, Dispose, Disposed, engineVars, jobVars
  <2>2. stage = "disposing" /\ stage' # "disposing" => \A c \in Call : ~At(c, "waiting")
    BY <1>2 DEF processVars, lifeVars, Build, MarkReady, Shutdown, Dispose, Disposed, Busy,
                At, Underway
  <2> QED
    BY <2>1, <2>2 DEF WaitersHaveJobs, At, Running
<1>3. ASSUME NEW c \in Call, Arrive(c) \/ CallIn(c) \/ StoreFails(c) \/ Gone(c)
      PROVE  WaitersHaveJobs'
  <2>1. UNCHANGED <<runs, queued, pulled, stage>>
    BY <1>3 DEF Arrive, CallIn, StoreFails, Gone, engineVars, jobVars, lifeVars
  <2>2. \/ /\ UNCHANGED cancelled /\ calls[c] \notin Answers
           /\ \E state : To(c, state) /\ state # "waiting"
        \/ cancelled' \subseteq cancelled \cup {c} /\ To(c, "ended")
    <3>1. CASE Arrive(c) \/ CallIn(c)
      BY <3>1 DEF Arrive, CallIn, ComeIn, Admit, jobVars, At, Answers
    <3>2. CASE StoreFails(c) \/ Gone(c)
      BY <3>2 DEF StoreFails, Gone, jobVars
    <3> QED
      BY <1>3, <3>1, <3>2
  <2>3. PICK state : calls' = [calls EXCEPT ![c] = state] /\ state # "waiting"
    BY <2>2 DEF To
  <2>4. \A e \in cancelled' : calls'[e] \in Answers
    BY <1>1, <2>2 DEF WaitersHaveJobs, To, Answers
  <2>5. \A e \in Call : At(e, "waiting")' => At(e, "waiting")
    BY <1>1, <2>3 DEF At
  <2> QED
    BY <2>1, <2>4, <2>5 DEF WaitersHaveJobs, Running
<1>4. ASSUME NEW c \in Call, Store(c) PROVE WaitersHaveJobs'
  <2>1. UNCHANGED <<runs, pulled, cancelled, stage>> /\ queued \subseteq queued'
    BY <1>4 DEF Store, engineVars, lifeVars
  <2>2. /\ calls[c] \notin Answers
        /\ \E state : To(c, state) /\ (state = "waiting" => c \in queued')
    BY <1>4 DEF Store, Answers
  <2> QED
    BY <1>1, <2>1, <2>2 DEF WaitersHaveJobs, To, At, Running, Answers
<1>5. CASE Pull
  <2>1. /\ UNCHANGED <<runs, calls, cancelled, stage>>
        /\ queued' \cup pulled' = queued \cup pulled
    BY <1>5 DEF Pull, engineVars, lifeVars
  <2> QED
    BY <2>1 DEF WaitersHaveJobs, At, Running
<1>6. ASSUME NEW c \in Call, Dispatch(c) PROVE WaitersHaveJobs'
  <2>1. /\ UNCHANGED <<calls, queued, stage>> /\ pulled' = pulled \ {c}
        /\ cancelled' = cancelled \ {c}
    BY <1>6 DEF Dispatch, lifeVars
  <2>2. CASE c \in cancelled /\ UNCHANGED engineVars
    <3>1. ~At(c, "waiting") /\ UNCHANGED runs
      BY <2>2 DEF WaitersHaveJobs, At, Answers, engineVars
    <3> QED
      BY <2>1, <3>1 DEF WaitersHaveJobs, At, Running
  <2>3. CASE Start(c)
    <3>1. RunsOK' /\ \A e \in Call : e # c => runs'[e] = runs[e]
      BY <1>1, <2>3, StartStep DEF OverrunInv, ProcessInv, Start
    <3>2. Running(c)'
      <4> DEFINE r == [phase |-> "waitingDestination", attempts |-> 1, left |-> MaxElapsed,
                       timer |-> Timeout(MaxElapsed), delay |-> NULL]
      <4>1. r \in Run
        <5>1. MaxElapsed \in Int /\ 1 \in 1..MaxAttempts
          BY EngineAssumption
        <5> QED
          BY <5>1, TimeoutNat DEF Run, Phases
      <4>2. runs' = [runs EXCEPT ![c] = r]
        BY <2>3 DEF Start
      <4> HIDE DEF r
      <4> QED
        BY <1>1, <4>1, <4>2, RunAssumption DEF Running
    <3> QED
      BY <2>1, <3>1, <3>2 DEF WaitersHaveJobs, At, Running
  <2> QED
    BY <1>6, <2>2, <2>3 DEF Dispatch
<1>7. ASSUME NEW c \in Call, Attempting(c) PROVE WaitersHaveJobs'
  <2>1. UNCHANGED <<calls, queued, pulled, cancelled, stage>>
    BY <1>7 DEF Attempting, jobVars, lifeVars
  <2>2. PICK r \in Run : runs' = [runs EXCEPT ![c] = r]
    BY <1>1, <1>7, AttemptFollows
  <2>3. \A e \in Call : Running(e) => Running(e)'
    BY <1>1, <2>2, RunAssumption DEF Running
  <2> QED
    BY <2>1, <2>3 DEF WaitersHaveJobs, At
<1>8. ASSUME NEW c \in Call, JobEnds(c) \/ JobFails(c) PROVE WaitersHaveJobs'
  <2>1. UNCHANGED <<queued, pulled, stage>> /\ cancelled' = cancelled \ {c}
    BY <1>8 DEF JobEnds, JobFails, Settle, lifeVars
  <2>2. \A e \in Call : e # c => runs'[e] = runs[e]
    BY <1>1, <1>8 DEF JobEnds, JobFails, Finish, Interrupt
  <2>3. IF At(c, "waiting") THEN To(c, "ended") ELSE UNCHANGED calls
    BY <1>8 DEF JobEnds, JobFails, Settle
  <2>4. /\ \A e \in Call : calls[e] \in Answers => calls'[e] \in Answers
        /\ \A e \in Call : At(e, "waiting")' => At(e, "waiting") /\ e # c
    BY <1>1, <2>3 DEF At, To, Answers
  <2> QED
    BY <1>1, <2>1, <2>2, <2>4 DEF WaitersHaveJobs, Running
<1>9. ASSUME NEW c \in Call, JobStops(c) PROVE WaitersHaveJobs'
  <2>1. /\ UNCHANGED <<calls, stage>> /\ cancelled' = cancelled \ {c}
        /\ c \in cancelled \/ stage = "disposing"
    BY <1>9 DEF JobStops, lifeVars
  <2>2. \A e \in Call : e # c => /\ runs'[e] = runs[e]
                                 /\ e \in queued \cup pulled => e \in queued' \cup pulled'
    BY <1>1, <1>9 DEF JobStops, Interrupt, engineVars
  <2>3. ~At(c, "waiting") \/ stage = "disposing"
    BY <2>1 DEF WaitersHaveJobs, At, Answers
  <2> QED
    BY <2>1, <2>2, <2>3 DEF WaitersHaveJobs, At, Running
<1>10. CASE ProcessElapse
  <2>1. /\ UNCHANGED <<calls, queued, pulled, cancelled, stage>>
        /\ EngineElapse
    BY <1>10 DEF ProcessElapse, jobVars, lifeVars
  <2>2. \A e \in Call : Running(e) => Running(e)'
    BY <1>1, <2>1, CloserRun
  <2> QED
    BY <2>1, <2>2 DEF WaitersHaveJobs, At
<1> QED
  BY <1>2, <1>3, <1>4, <1>5, <1>6, <1>7, <1>8, <1>9, <1>10
     DEF ProcessNext, GoesOn, Happens, JobGoesOn, Abort, CutOff

\* While a call or a job is under way, the guard of some step of the process holds: no
\* order of the two permits, the dispatch permits, the queue, the timers and the shutdown
\* makes them wait for one another, for any numbers of calls and permits.
THEOREM SomebodyCanGoOn == ProcessSpec => []((\E c \in Call : Busy(c)) => CanGoOn)
<1> DEFINE Inv == OverrunInv /\ WaitersHaveJobs
<1>1. ProcessInit => Inv
  BY InitOverrun DEF ProcessInit, WaitersHaveJobs, At
<1>2. Inv /\ [ProcessNext]_processVars => Inv'
  BY NextOverrun, NextWaiters
<1>3. Inv => ((\E c \in Call : Busy(c)) => CanGoOn)
  <2> SUFFICES ASSUME OverrunInv, WaitersHaveJobs, NEW c \in Call, Busy(c) PROVE CanGoOn
    OBVIOUS
  <2> DEFINE Executing == {other \in Call : Running(other)}
  <2>1. RunsOK /\ EnginePermits /\ queued \subseteq Call /\ pulled \subseteq Call
    BY DEF OverrunInv, ProcessInv, JobsOK
  <2>2. ASSUME NEW e \in Call, Running(e) PROVE CanGoOn
    <3>1. CASE \E d \in Call : Is(d, "sending") \/ Is(d, "recording") \/ Due(d)
      BY <3>1 DEF CanGoOn
    <3>2. CASE ~\E d \in Call : Is(d, "sending") \/ Is(d, "recording") \/ Due(d)
      <4>1. runs[e].phase \in {"waitingDestination", "waitingGlobal", "sleeping"}
        BY <2>1, <2>2, <3>2 DEF RunsOK, Running, Run, Phases, Is
      <4>2. CASE runs[e].phase = "sleeping"
        BY <2>2, <3>2, <4>2 DEF CanGoOn, Timed
      <4>3. CASE runs[e].phase \in {"waitingDestination", "waitingGlobal"}
        <5>1. \E d \in Call \ {e} : Is(d, "sending")
          BY <2>1, <2>2, <3>2, <4>3, OthersSend
        <5> QED
          BY <3>2, <5>1
      <4> QED
        BY <4>1, <4>2, <4>3
    <3> QED
      BY <3>1, <3>2
  <2>3. CASE Executing # {}
    BY <2>2, <2>3
  <2>4. CASE Executing = {} /\ queued \cup pulled # {}
    <3>1. CASE pulled = {}
      BY <2>4, <3>1 DEF CanGoOn
    <3>2. CASE pulled # {}
      <4>1. Cardinality(Executing) = 0
        BY <2>4, FS_EmptySet
      <4>2. Cardinality(Executing) < QueueCapacity
        BY <4>1, ProcessAssumption
      <4> QED
        BY <2>1, <3>2, <4>2 DEF CanGoOn
    <3> QED
      BY <3>1, <3>2
  <2>5. CASE Executing = {} /\ queued \cup pulled = {}
    <3>1. calls[c] \in Underway
      BY <2>5 DEF Busy
    <3>2. calls[c] \in {"accepting", "admitted"} \/ stage = "disposing"
      BY <2>5, <3>1 DEF WaitersHaveJobs, At, Underway
    <3> QED
      BY <3>1, <3>2 DEF CanGoOn
  <2> QED
    BY <2>3, <2>4, <2>5
<1> QED
  BY <1>1, <1>2, <1>3, PTL DEF ProcessSpec

-------------------------------------------------------------------------------
(* Every step is one of the last.  What is left to a call, its job and the process is  *)
(* counted down by whatever happens, so only so many steps can be taken.               *)

\* What is still before the call, from the first to the last of its states.
CallLeft(c) ==
  CASE At(c, "new") -> 3
    [] calls[c] \in {"accepting", "admitted"} -> 2
    [] At(c, "waiting") -> 1
    [] OTHER -> 0

PhaseLeft(phase) ==
  CASE phase = "waitingDestination" -> 5
    [] phase = "waitingGlobal" -> 4
    [] phase = "sending" -> 3
    [] phase = "recording" -> 2
    [] phase = "sleeping" -> 1

\* ... before its job: the places in the queue, and the phases of the attempts left.
JobLeft(c) ==
  IF Running(c) THEN (MaxAttempts - runs[c].attempts) * 5 + PhaseLeft(runs[c].phase)
  ELSE IF c \in pulled THEN MaxAttempts * 5 + 1
  ELSE IF c \in queued THEN MaxAttempts * 5 + 2
  ELSE IF ToRun(c) THEN MaxAttempts * 5 + 3 ELSE 0

\* ... and the time that can still pass while it runs.
TimeLeft(c) ==
  IF Running(c) THEN runs[c].left + Overrun
  ELSE IF ToRun(c) THEN MaxElapsed + Overrun ELSE 0

StageLeft ==
  CASE stage = "building" -> 5
    [] stage = "built" -> 4
    [] stage = "serving" -> 3
    [] stage = "closing" -> 2
    [] stage = "disposing" -> 1
    [] stage = "disposed" -> 0

StepsOf(c) == CallLeft(c) + JobLeft(c) + TimeLeft(c)
StepsOfOne == MaxAttempts * 5 + MaxElapsed + Overrun + 6

\* One unit for every step that is left to a call.
Ahead == {u \in Call \X (1..StepsOfOne) : u[2] <= StepsOf(u[1])}
StepsLeft == Cardinality(Ahead) + StageLeft
Steps == Cardinality(Call) * StepsOfOne + 5

LEMMA BoundsTyped ==
  /\ Call # {} => Overrun \in Nat
  /\ StepsOfOne \in Int /\ (Call # {} => StepsOfOne \in Nat)
  /\ MaxAttempts \in Nat \ {0} /\ MaxElapsed \in Nat
<1>1. MaxAttempts \in Nat \ {0} /\ MaxElapsed \in Nat
  BY EngineAssumption
<1>2. SendingOfOthers \in Int /\ Late \in Nat /\ RecordTime \in Nat
  BY OthersTyped, LateTyped
<1>3. Overrun = SendingOfOthers + RecordTime + Late
  BY DEF Overrun, Late
<1>4. Call # {} => SendingOfOthers \in Nat
  BY SendableCounted
<1>5. Overrun \in Int /\ (Call # {} => Overrun \in Nat)
  BY <1>2, <1>3, <1>4
<1> QED
  BY <1>1, <1>5 DEF StepsOfOne

\* The count is within its bounds, and so is each of its three parts.
StepsTyped(c) ==
  /\ CallLeft(c) \in 0..3
  /\ JobLeft(c) \in 0..(MaxAttempts * 5 + 3)
  /\ TimeLeft(c) \in 0..(MaxElapsed + Overrun)
  /\ StepsOf(c) \in 0..StepsOfOne

CallsTyped == \A c \in Call : StepsTyped(c)

LEMMA StepsOfTyped == OverrunInv /\ OverrunIsBounded => CallsTyped
<1> SUFFICES ASSUME OverrunInv, OverrunIsBounded, NEW c \in Call PROVE StepsTyped(c)
  BY DEF CallsTyped
<1>1. /\ runs \in [Call -> Run \cup {NULL}]
      /\ Running(c) => runs[c].left <= MaxElapsed /\ runs[c].left >= -Overrun
  BY DEF OverrunInv, ProcessInv, RunsOK, RunsInTime, InItsTime, OverrunIsBounded
<1>2. Overrun \in Nat /\ MaxAttempts \in Nat \ {0} /\ MaxElapsed \in Nat
  BY BoundsTyped
<1>3. CallLeft(c) \in 0..3
  BY DEF CallLeft
<1>4. Running(c) => /\ runs[c].attempts \in 1..MaxAttempts /\ runs[c].left \in Int
                   /\ PhaseLeft(runs[c].phase) \in 1..5
  BY <1>1 DEF Running, Run, Phases, PhaseLeft
<1>5. JobLeft(c) \in 0..(MaxAttempts * 5 + 3)
  BY <1>2, <1>4 DEF JobLeft
<1>6. TimeLeft(c) \in 0..(MaxElapsed + Overrun)
  BY <1>1, <1>2, <1>4 DEF TimeLeft
<1> QED
  BY <1>2, <1>3, <1>5, <1>6 DEF StepsTyped, StepsOf, StepsOfOne

LEMMA StageLeftTyped == OverrunInv => StageLeft \in 0..5
BY DEF OverrunInv, ProcessInv, LifeOK, Stages, StageLeft

LEMMA AheadCounted ==
  /\ IsFiniteSet(Ahead)
  /\ Cardinality(Ahead) \in 0..(Cardinality(Call) * StepsOfOne)
  /\ Cardinality(Call) * StepsOfOne \in Nat
<1> DEFINE n == Cardinality(Call)
           All == Call \X (1..StepsOfOne)
<1>1. IsFiniteSet(Call) /\ n \in Nat /\ (Call = {} <=> n = 0)
  BY EngineAssumption, FS_CardinalityType, FS_EmptySet
<1>2. /\ IsFiniteSet(1..StepsOfOne)
      /\ Call # {} => Cardinality(1..StepsOfOne) = StepsOfOne
  <2>1. 1 \in Int /\ StepsOfOne \in Int /\ (Call # {} => StepsOfOne \in Nat)
    BY BoundsTyped
  <2>2. /\ IsFiniteSet(1..StepsOfOne)
        /\ Cardinality(1..StepsOfOne) = IF 1 > StepsOfOne THEN 0 ELSE StepsOfOne - 1 + 1
    BY <2>1, FS_Interval
  <2> QED
    BY <2>1, <2>2
<1>3. IsFiniteSet(All) /\ Cardinality(All) = n * Cardinality(1..StepsOfOne)
  BY <1>1, <1>2, FS_Product
<1>4. IsFiniteSet(Ahead) /\ Cardinality(Ahead) <= Cardinality(All)
  BY <1>3, FS_Subset DEF Ahead
<1>5. /\ Cardinality(Ahead) \in Nat /\ Cardinality(All) \in Nat
      /\ Cardinality(1..StepsOfOne) \in Nat
  BY <1>2, <1>3, <1>4, FS_CardinalityType
<1>6. Cardinality(All) = n * StepsOfOne
  <2>1. CASE Call = {}
    <3>1. n = 0 /\ StepsOfOne \in Int
      BY <1>1, <2>1, BoundsTyped
    <3> QED
      BY <1>3, <1>5, <3>1
  <2>2. CASE Call # {}
    BY <1>2, <1>3, <2>2
  <2> QED
    BY <2>1, <2>2
<1> HIDE DEF All
<1> QED
  BY <1>4, <1>5, <1>6

\* What a step takes from the calls or from the process, and gives back to none of them.
LEMMA StepsFewer ==
  ASSUME OverrunInv, OverrunIsBounded, OverrunInv', OverrunIsBounded',
         \A c \in Call : StepsOf(c)' <= StepsOf(c), StageLeft' <= StageLeft,
         (\E c \in Call : StepsOf(c)' < StepsOf(c)) \/ StageLeft' < StageLeft
  PROVE  StepsLeft' < StepsLeft
<1> DEFINE before == Cardinality(Ahead)
           after == Cardinality(Ahead')
<1>1. \A c \in Call : StepsOf(c) \in 0..StepsOfOne /\ StepsOf(c)' \in 0..StepsOfOne
  <2>1. CallsTyped /\ CallsTyped'
    BY StepsOfTyped, PTL
  <2> QED
    BY <2>1 DEF CallsTyped, StepsTyped
<1>2. IsFiniteSet(Ahead) /\ before \in Nat
  BY AheadCounted
<1>3. Ahead' \subseteq Ahead
  BY <1>1 DEF Ahead
<1>4. /\ IsFiniteSet(Ahead') /\ after <= before
      /\ before = after => Ahead = Ahead'
  BY <1>2, <1>3, FS_Subset
<1>5. after \in Nat
  BY <1>4, FS_CardinalityType
<1>6. ASSUME NEW c \in Call, StepsOf(c)' < StepsOf(c) PROVE Ahead # Ahead'
  <2>1. StepsOf(c) \in 1..StepsOfOne
    BY <1>1, <1>6
  <2>2. <<c, StepsOf(c)>> \in Ahead /\ <<c, StepsOf(c)>> \notin Ahead'
    BY <1>1, <1>6, <2>1 DEF Ahead
  <2> QED
    BY <2>2
<1>7. StageLeft \in 0..5 /\ (StageLeft \in 0..5)'
  BY StageLeftTyped, PTL
<1>8. (\E c \in Call : StepsOf(c)' < StepsOf(c)) => after # before
  BY <1>4, <1>6
<1> DEFINE from == StageLeft
           to == StageLeft'
<1>9. /\ StepsLeft = before + from /\ StepsLeft' = after + to
      /\ from \in 0..5 /\ to \in 0..5 /\ to <= from
  BY <1>7 DEF StepsLeft
<1>10. (\E c \in Call : StepsOf(c)' < StepsOf(c)) \/ to < from
  OBVIOUS
<1> HIDE DEF before, after, from, to
<1>11. CASE \E c \in Call : StepsOf(c)' < StepsOf(c)
  <2>1. after < before
    BY <1>2, <1>4, <1>5, <1>8, <1>11
  <2> QED
    BY <1>2, <1>5, <1>9, <2>1
<1>12. CASE to < from
  BY <1>2, <1>4, <1>5, <1>9, <1>12
<1> QED
  BY <1>10, <1>11, <1>12

\* A call that a step does not touch has as much left as before.
Untouched(c) ==
  /\ calls'[c] = calls[c] /\ runs'[c] = runs[c]
  /\ c \in queued' <=> c \in queued
  /\ c \in pulled' <=> c \in pulled

LEMMA UntouchedSteps == ASSUME NEW c, Untouched(c) PROVE StepsOf(c)' = StepsOf(c)
<1>1. (At(c, "new")' <=> At(c, "new")) /\ (At(c, "waiting")' <=> At(c, "waiting"))
  BY DEF Untouched, At
<1>2. CallLeft(c)' = CallLeft(c)
  BY <1>1 DEF Untouched, CallLeft
<1>3. (Running(c)' <=> Running(c)) /\ (ToRun(c)' <=> ToRun(c))
  BY DEF Untouched, Running, ToRun
<1>4. JobLeft(c)' = JobLeft(c) /\ TimeLeft(c)' = TimeLeft(c)
  BY <1>3 DEF Untouched, JobLeft, TimeLeft
<1> QED
  BY <1>2, <1>4 DEF StepsOf

\* One call, its job or its run goes on, and nothing gives it anything back.
LEMMA OneCallFewer ==
  ASSUME OverrunInv, OverrunIsBounded, OverrunInv', OverrunIsBounded', UNCHANGED stage,
         NEW c \in Call, \A e \in Call \ {c} : Untouched(e),
         CallLeft(c)' <= CallLeft(c), JobLeft(c)' <= JobLeft(c), TimeLeft(c)' <= TimeLeft(c),
         CallLeft(c)' < CallLeft(c) \/ JobLeft(c)' < JobLeft(c)
  PROVE  StepsLeft' < StepsLeft
<1>1. StepsTyped(c) /\ StepsTyped(c)'
  <2>1. CallsTyped /\ CallsTyped'
    BY StepsOfTyped, PTL
  <2> QED
    BY <2>1 DEF CallsTyped
<1>2. StepsOf(c)' < StepsOf(c) /\ StepsOf(c)' \in Nat /\ StepsOf(c) \in Nat
  <2> DEFINE a == CallLeft(c)  b == JobLeft(c)  d == TimeLeft(c)
             a1 == CallLeft(c)'  b1 == JobLeft(c)'  d1 == TimeLeft(c)'
  <2>1. a \in Nat /\ b \in Nat /\ d \in Nat /\ a1 \in Nat /\ b1 \in Nat /\ d1 \in Nat
    BY <1>1 DEF StepsTyped
  <2>2. a1 <= a /\ b1 <= b /\ d1 <= d /\ (a1 < a \/ b1 < b)
    OBVIOUS
  <2>3. StepsOf(c) = a + b + d /\ StepsOf(c)' = a1 + b1 + d1
    BY DEF StepsOf
  <2> HIDE DEF a, b, d, a1, b1, d1
  <2> QED
    BY <2>1, <2>2, <2>3
<1>3. \A e \in Call : StepsOf(e)' <= StepsOf(e)
  <2> SUFFICES ASSUME NEW e \in Call PROVE StepsOf(e)' <= StepsOf(e)
    OBVIOUS
  <2>1. CASE e = c
    BY <1>2, <2>1
  <2>2. CASE e # c
    <3>1. StepsOf(e)' = StepsOf(e)
      BY <2>2, UntouchedSteps
    <3>2. StepsTyped(e)
      BY StepsOfTyped DEF CallsTyped
    <3>3. StepsOf(e) \in 0..StepsOfOne
      BY <3>2 DEF StepsTyped
    <3> QED
      BY <3>1, <3>3
  <2> QED
    BY <2>1, <2>2
<1>4. StageLeft' <= StageLeft
  <2>1. StageLeft' = StageLeft
    BY DEF StageLeft
  <2>2. StageLeft \in 0..5
    BY StageLeftTyped
  <2> QED
    BY <2>1, <2>2
<1> QED
  BY <1>2, <1>3, <1>4, StepsFewer

\* A call whose run and whose job have not begun again has no more of them left.
LEMMA JobNotSooner ==
  ASSUME OverrunInv, OverrunIsBounded, NEW c \in Call, runs'[c] = runs[c],
         c \in queued' <=> c \in queued, c \in pulled' <=> c \in pulled, ToRun(c)' => ToRun(c)
  PROVE  JobLeft(c)' <= JobLeft(c) /\ TimeLeft(c)' <= TimeLeft(c)
<1>1. StepsTyped(c)
  BY StepsOfTyped DEF CallsTyped
<1>2. Running(c)' <=> Running(c)
  BY DEF Running
<1>3. JobLeft(c)' = JobLeft(c) \/ JobLeft(c)' = 0
  BY <1>2 DEF JobLeft
<1>4. TimeLeft(c)' = TimeLeft(c) \/ TimeLeft(c)' = 0
  BY <1>2 DEF TimeLeft
<1> QED
  BY <1>1, <1>3, <1>4 DEF StepsTyped

\* A job or a run that is over has nothing left.
LEMMA NothingLeft ==
  ASSUME NEW c, ~Running(c)', ~ToRun(c)'
  PROVE  JobLeft(c)' = 0 /\ TimeLeft(c)' = 0
BY DEF JobLeft, TimeLeft, ToRun

LEMMA SomethingLeft ==
  ASSUME OverrunInv, OverrunIsBounded, NEW c \in Call, Running(c) \/ ToRun(c)
  PROVE  JobLeft(c) > 0 /\ JobLeft(c) \in Nat /\ TimeLeft(c) \in Nat
<1>1. StepsTyped(c)
  BY StepsOfTyped DEF CallsTyped
<1>2. MaxAttempts \in Nat
  BY BoundsTyped
<1>3. Running(c) => /\ runs[c].attempts \in 1..MaxAttempts
                   /\ PhaseLeft(runs[c].phase) \in 1..5
  BY DEF OverrunInv, ProcessInv, RunsOK, Running, Run, Phases, PhaseLeft
<1>4. JobLeft(c) > 0
  BY <1>2, <1>3 DEF JobLeft, ToRun
<1> QED
  BY <1>1, <1>4 DEF StepsTyped

\* An attempt goes on, by a phase or to the next attempt.
LEMMA AttemptFewer ==
  ASSUME RunsOK, RunsInTime, NEW c \in Call, Attempting(c)
  PROVE  /\ Running(c) /\ Running(c)' /\ \A e \in Call \ {c} : runs'[e] = runs[e]
         /\ runs'[c].left = runs[c].left
         /\ \/ /\ runs'[c].attempts = runs[c].attempts
               /\ PhaseLeft(runs'[c].phase) < PhaseLeft(runs[c].phase)
            \/ /\ runs'[c].attempts = runs[c].attempts + 1
               /\ PhaseLeft(runs'[c].phase) = 5 /\ PhaseLeft(runs[c].phase) = 1
<1>1. runs \in [Call -> Run \cup {NULL}]
  BY DEF RunsOK
<1>2. Running(c) /\ runs[c] \in Run
  BY <1>1 DEF Attempting, TakeDestination, TakeGlobal, Recorded, Wake, Answer, Is, Running
<1> DEFINE Next(r) ==
      /\ r.left = runs[c].left
      /\ \/ r.attempts = runs[c].attempts /\ PhaseLeft(r.phase) < PhaseLeft(runs[c].phase)
         \/ /\ r.attempts = runs[c].attempts + 1
            /\ PhaseLeft(r.phase) = 5 /\ PhaseLeft(runs[c].phase) = 1
<1>3. \E r : runs' = [runs EXCEPT ![c] = r] /\ Next(r)
  <2>1. CASE TakeDestination(c)
    <3>1. /\ runs[c].phase = "waitingDestination"
          /\ runs' = [runs EXCEPT ![c] = [runs[c] EXCEPT !.phase = "waitingGlobal"]]
      BY <1>1, <2>1 DEF TakeDestination, Is
    <3>2. Next([runs[c] EXCEPT !.phase = "waitingGlobal"])
      BY <1>2, <3>1 DEF Run, PhaseLeft
    <3> QED
      BY <3>1, <3>2
  <2>2. CASE TakeGlobal(c)
    <3>1. /\ runs[c].phase = "waitingGlobal"
          /\ runs' = [runs EXCEPT ![c] = [runs[c] EXCEPT !.phase = "sending"]]
      BY <1>1, <2>2 DEF TakeGlobal, Is
    <3>2. Next([runs[c] EXCEPT !.phase = "sending"])
      BY <1>2, <3>1 DEF Run, PhaseLeft
    <3> QED
      BY <3>1, <3>2
  <2>3. CASE \E retryAfter \in RetryAfters \cup {NULL} : Answer(c, retryAfter)
    <3>1. PICK retryAfter \in RetryAfters \cup {NULL}, jitter \in 0..(MaxDelay - 1) :
            runs' = [runs EXCEPT ![c].phase = "recording", ![c].timer = RecordTime,
              ![c].delay = IF retryAfter = NULL THEN NULL
                           ELSE Delay(runs[c], jitter, retryAfter)]
      BY <2>3 DEF Answer
    <3> DEFINE delay == IF retryAfter = NULL THEN NULL ELSE Delay(runs[c], jitter, retryAfter)
               r == [runs[c] EXCEPT !.phase = "recording", !.timer = RecordTime, !.delay = delay]
    <3>2. runs' = [runs EXCEPT ![c] = r] /\ runs[c].phase = "sending"
      BY <1>1, <2>3, <3>1 DEF Answer, Is
    <3> HIDE DEF delay
    <3>3. Next(r)
      BY <1>2, <3>2 DEF Run, PhaseLeft
    <3> QED
      BY <3>2, <3>3
  <2>4. CASE Recorded(c)
    <3> DEFINE r == [runs[c] EXCEPT !.phase = "sleeping", !.timer = runs[c].delay, !.delay = NULL]
    <3>1. runs[c].phase = "recording" /\ runs' = [runs EXCEPT ![c] = r]
      BY <1>1, <2>4 DEF Recorded, Is
    <3>2. Next(r)
      BY <1>2, <3>1 DEF Run, PhaseLeft
    <3> QED
      BY <3>1, <3>2
  <2>5. CASE Wake(c)
    <3> DEFINE time == Timeout(runs[c].left)
               r == [runs[c] EXCEPT !.phase = "waitingDestination",
                       !.attempts = runs[c].attempts + 1, !.timer = time]
    <3>1. runs[c].phase = "sleeping" /\ runs' = [runs EXCEPT ![c] = r]
      BY <1>1, <2>5 DEF Wake, Is
    <3> HIDE DEF time
    <3>2. Next(r)
      BY <1>2, <3>1 DEF Run, PhaseLeft
    <3> QED
      BY <3>1, <3>2
  <2> QED
    BY <2>1, <2>2, <2>3, <2>4, <2>5 DEF Attempting
<1>4. Running(c)'
  <2>1. PICK r \in Run : runs' = [runs EXCEPT ![c] = r]
    BY AttemptFollows
  <2> QED
    BY <1>1, <2>1, RunAssumption DEF Running
<1> QED
  BY <1>1, <1>2, <1>3, <1>4

LEMMA NextFewer ==
  ASSUME OverrunInv, OverrunIsBounded, OverrunInv', OverrunIsBounded', ProcessNext
  PROVE  StepsLeft' < StepsLeft
<1>1. /\ RunsOK /\ JobsOK /\ OneRun /\ RunsInTime /\ LifeOK
      /\ calls \in [Call -> CallStates] /\ runs \in [Call -> Run \cup {NULL}]
  BY DEF OverrunInv, ProcessInv, RunsOK, AdmissionPermits, CallStates
<1>2. CASE Build \/ MarkReady \/ Shutdown \/ Dispose \/ Disposed
  <2>1. UNCHANGED <<runs, calls, queued, pulled>>
    BY <1>2 DEF Build, MarkReady, Shutdown, Dispose, Disposed, engineVars, jobVars
  <2>2. StageLeft' < StageLeft
    BY <1>1, <1>2 DEF Build, MarkReady, Shutdown, Dispose, Disposed, StageLeft, LifeOK, Stages
  <2>3. \A c \in Call : StepsOf(c)' = StepsOf(c)
    BY <2>1, UntouchedSteps DEF Untouched
  <2>4. \A c \in Call : StepsOf(c) \in 0..StepsOfOne
    BY StepsOfTyped DEF CallsTyped, StepsTyped
  <2>5. StageLeft' <= StageLeft
    <3>1. StageLeft \in 0..5 /\ (StageLeft \in 0..5)'
      BY StageLeftTyped, PTL
    <3> QED
      BY <2>2, <3>1
  <2>6. \A c \in Call : StepsOf(c)' <= StepsOf(c)
    BY <2>3, <2>4
  <2> QED
    BY <2>2, <2>5, <2>6, StepsFewer
<1>3. ASSUME NEW c \in Call, Arrive(c) \/ CallIn(c) \/ StoreFails(c) \/ Gone(c)
      PROVE  StepsLeft' < StepsLeft
  <2>1. UNCHANGED <<runs, queued, pulled, stage>>
    BY <1>3 DEF Arrive, CallIn, StoreFails, Gone, engineVars, jobVars, lifeVars
  <2>2. PICK state : /\ To(c, state)
                     /\ \/ At(c, "new") /\ state \in {"accepting", "admitted"} \cup Answers
                        \/ calls[c] \in Underway /\ state \in Answers
    <3>1. CASE Arrive(c) \/ CallIn(c)
      BY <3>1 DEF Arrive, CallIn, ComeIn, Admit, Answers
    <3>2. CASE StoreFails(c) \/ Gone(c)
      BY <3>2 DEF StoreFails, Gone, Answers, Underway
    <3> QED
      BY <1>3, <3>1, <3>2
  <2>3. calls'[c] = state /\ \A e \in Call \ {c} : calls'[e] = calls[e]
    BY <1>1, <2>2 DEF To
  <2>4. CallLeft(c)' < CallLeft(c) /\ CallLeft(c)' <= CallLeft(c)
    BY <2>2, <2>3 DEF CallLeft, At, Underway, Answers
  <2>5. ToRun(c)' => ToRun(c)
    BY <2>1, <2>2, <2>3 DEF ToRun, At, Underway, Answers
  <2>6. JobLeft(c)' <= JobLeft(c) /\ TimeLeft(c)' <= TimeLeft(c)
    BY <2>1, <2>5, JobNotSooner
  <2> QED
    BY <2>1, <2>3, <2>4, <2>6, OneCallFewer DEF Untouched
<1>4. ASSUME NEW c \in Call, Store(c) PROVE StepsLeft' < StepsLeft
  <2>1. /\ UNCHANGED <<runs, pulled, stage>> /\ queued' \in {queued, queued \cup {c}}
        /\ calls[c] \in {"accepting", "admitted"}
        /\ \E state \in {"waiting"} \cup Answers : To(c, state)
    BY <1>4 DEF Store, engineVars, lifeVars, Answers
  <2>2. calls'[c] \in {"waiting"} \cup Answers /\ \A e \in Call \ {c} : calls'[e] = calls[e]
    BY <1>1, <2>1 DEF To
  <2>3. CallLeft(c)' < CallLeft(c) /\ CallLeft(c)' <= CallLeft(c)
    BY <2>1, <2>2 DEF CallLeft, At, Answers
  <2>4. c \notin queued \cup pulled /\ ~Running(c) /\ ToRun(c)
    BY <1>1, <2>1 DEF JobsOK, Answers, ToRun
  <2>5. JobLeft(c) = MaxAttempts * 5 + 3 /\ TimeLeft(c) = MaxElapsed + Overrun
    BY <2>4 DEF JobLeft, TimeLeft
  <2>6. ~Running(c)' /\ c \notin pulled' /\ (ToRun(c)' <=> c \in queued')
    BY <2>1, <2>2, <2>4 DEF Running, ToRun, Answers
  <2>7. /\ JobLeft(c)' \in {MaxAttempts * 5 + 2, 0}
        /\ TimeLeft(c)' \in {MaxElapsed + Overrun, 0}
    BY <2>6 DEF JobLeft, TimeLeft
  <2>8. JobLeft(c)' <= JobLeft(c) /\ TimeLeft(c)' <= TimeLeft(c)
    BY <2>5, <2>7, BoundsTyped
  <2> QED
    BY <2>1, <2>2, <2>3, <2>8, OneCallFewer DEF Untouched
<1>5. CASE Pull
  <2>1. /\ UNCHANGED <<runs, calls, stage>>
        /\ pulled = {} /\ queued # {} /\ pulled' = queued /\ queued' = {} /\ queued \subseteq Call
    BY <1>1, <1>5 DEF Pull, engineVars, lifeVars, JobsOK
  <2>2. ASSUME NEW c \in queued PROVE StepsOf(c)' < StepsOf(c) /\ StepsOf(c)' <= StepsOf(c)
    <3>1. c \in Call /\ ~Running(c) /\ ~Running(c)' /\ ToRun(c) /\ ToRun(c)'
      BY <1>1, <2>1 DEF OneRun, ToRun, Running
    <3>2. CallLeft(c)' = CallLeft(c) /\ CallLeft(c) \in 0..3
      BY <2>1 DEF CallLeft, At
    <3>3. JobLeft(c)' = MaxAttempts * 5 + 1 /\ JobLeft(c) = MaxAttempts * 5 + 2
      BY <2>1, <3>1 DEF JobLeft
    <3>4. TimeLeft(c)' = TimeLeft(c) /\ TimeLeft(c) \in Int
      BY <3>1, SomethingLeft DEF TimeLeft
    <3> QED
      BY <3>2, <3>3, <3>4, BoundsTyped DEF StepsOf
  <2>3. ASSUME NEW c \in Call \ queued PROVE StepsOf(c)' <= StepsOf(c)
    <3>1. StepsOf(c)' = StepsOf(c)
      BY <2>1, UntouchedSteps DEF Untouched
    <3>2. StepsOf(c) \in 0..StepsOfOne
      BY StepsOfTyped DEF CallsTyped, StepsTyped
    <3> QED
      BY <3>1, <3>2
  <2>4. StageLeft' <= StageLeft
    <3>1. StageLeft' = StageLeft
      BY <2>1 DEF StageLeft
    <3> QED
      BY <3>1, StageLeftTyped
  <2> QED
    BY <2>1, <2>2, <2>3, <2>4, StepsFewer
<1>6. ASSUME NEW c \in Call, Dispatch(c) PROVE StepsLeft' < StepsLeft
  <2>1. /\ c \in pulled /\ c \notin queued /\ ~Running(c) /\ pulled' = pulled \ {c}
        /\ UNCHANGED <<calls, queued, stage>>
        /\ UNCHANGED runs \/ Start(c)
        /\ calls[c] \in {"waiting"} \cup Answers /\ ToRun(c)
    BY <1>1, <1>6 DEF Dispatch, engineVars, lifeVars, OneRun, JobsOK, ToRun
  <2>2. CallLeft(c)' = CallLeft(c) /\ CallLeft(c) \in 0..3
    BY <2>1 DEF CallLeft, At
  <2>3. JobLeft(c) = MaxAttempts * 5 + 1 /\ TimeLeft(c) = MaxElapsed + Overrun
    BY <2>1 DEF JobLeft, TimeLeft
  <2>4. ~ToRun(c)'
    BY <2>1 DEF ToRun, Answers
  <2>5. MaxAttempts \in Nat \ {0} /\ MaxElapsed \in Nat /\ Overrun \in Nat
    BY BoundsTyped
  <2>6. CASE UNCHANGED runs
    <3>1. JobLeft(c)' = 0 /\ TimeLeft(c)' = 0
      BY <2>1, <2>4, <2>6, NothingLeft DEF Running
    <3> QED
      BY <2>1, <2>2, <2>3, <2>5, <2>6, <3>1, OneCallFewer DEF Untouched
  <2>7. CASE Start(c)
    <3>1. runs'[c] = [phase |-> "waitingDestination", attempts |-> 1, left |-> MaxElapsed,
                      timer |-> Timeout(MaxElapsed), delay |-> NULL]
          /\ \A e \in Call \ {c} : runs'[e] = runs[e]
      BY <1>1, <2>7 DEF Start
    <3>2. runs'[c].attempts = 1 /\ runs'[c].left = MaxElapsed
          /\ runs'[c].phase = "waitingDestination"
      BY <3>1
    <3>3. Running(c)'
      <4>1. runs'[c] \in Run
        BY <3>1, <2>5, TimeoutNat DEF Run, Phases
      <4> QED
        BY <4>1, RunAssumption DEF Running
    <3>4. JobLeft(c)' = (MaxAttempts - 1) * 5 + 5 /\ TimeLeft(c)' = MaxElapsed + Overrun
      BY <3>2, <3>3 DEF JobLeft, TimeLeft, PhaseLeft
    <3> QED
      BY <2>1, <2>2, <2>3, <2>5, <3>1, <3>4, OneCallFewer DEF Untouched
  <2> QED
    BY <2>1, <2>6, <2>7
<1>7. ASSUME NEW c \in Call, Attempting(c) PROVE StepsLeft' < StepsLeft
  <2>1. UNCHANGED <<calls, queued, pulled, stage>>
    BY <1>7 DEF Attempting, jobVars, lifeVars
  <2>2. CallLeft(c)' = CallLeft(c) /\ CallLeft(c) \in 0..3
    BY <2>1 DEF CallLeft, At
  <2>3. /\ Running(c) /\ Running(c)' /\ \A e \in Call \ {c} : runs'[e] = runs[e]
        /\ runs'[c].left = runs[c].left
    BY <1>1, <1>7, AttemptFewer
  <2>4. TimeLeft(c)' = TimeLeft(c) /\ TimeLeft(c) \in Nat
    BY <2>3, SomethingLeft DEF TimeLeft
  <2>5. JobLeft(c)' < JobLeft(c) /\ JobLeft(c)' <= JobLeft(c)
    <3> DEFINE a == runs[c].attempts  p == PhaseLeft(runs[c].phase)
               a1 == runs'[c].attempts  p1 == PhaseLeft(runs'[c].phase)
    <3>1. \/ a1 = a /\ p1 < p
          \/ a1 = a + 1 /\ p1 = 5 /\ p = 1
      BY <1>1, <1>7, AttemptFewer
    <3>2. /\ runs[c] \in Run /\ runs'[c] \in Run
      BY <2>3 DEF OverrunInv, ProcessInv, RunsOK, Running
    <3>3. a \in Nat /\ a1 \in Nat /\ p \in Nat /\ p1 \in Nat /\ MaxAttempts \in Nat
      BY <3>2, BoundsTyped DEF Run, Phases, PhaseLeft
    <3>4. JobLeft(c) = (MaxAttempts - a) * 5 + p /\ JobLeft(c)' = (MaxAttempts - a1) * 5 + p1
      BY <2>3 DEF JobLeft
    <3> HIDE DEF a, a1, p, p1
    <3> QED
      BY <3>1, <3>3, <3>4
  <2> QED
    BY <2>1, <2>2, <2>3, <2>4, <2>5, OneCallFewer DEF Untouched
<1>8. ASSUME NEW c \in Call, JobEnds(c) \/ JobFails(c) \/ JobStops(c)
      PROVE  StepsLeft' < StepsLeft
  <2>1. /\ Running(c) \/ c \in queued \cup pulled
        /\ ~Running(c)' /\ c \notin queued' \cup pulled'
        /\ \A e \in Call \ {c} : /\ runs'[e] = runs[e]
                                 /\ e \in queued' <=> e \in queued
                                 /\ e \in pulled' <=> e \in pulled
        /\ UNCHANGED stage
    <3>1. CASE JobEnds(c) \/ JobFails(c)
      BY <1>1, <3>1 DEF JobEnds, JobFails, Finish, Interrupt, Settle, Is, Running, OneRun, ToRun,
                        lifeVars
    <3>2. CASE JobStops(c)
      <4>1. CASE Interrupt(c) /\ UNCHANGED <<queued, pulled>>
        BY <1>1, <3>2, <4>1 DEF JobStops, Interrupt, Running, OneRun, ToRun, lifeVars
      <4>2. CASE /\ c \in queued \cup pulled /\ UNCHANGED engineVars
                 /\ queued' = queued \ {c} /\ pulled' = pulled \ {c}
        BY <1>1, <3>2, <4>2 DEF JobStops, engineVars, Running, OneRun, ToRun, lifeVars
      <4> QED
        BY <3>2, <4>1, <4>2 DEF JobStops
    <3> QED
      BY <1>8, <3>1, <3>2
  <2>2. UNCHANGED calls \/ (At(c, "waiting") /\ To(c, "ended"))
    BY <1>8 DEF JobEnds, JobFails, JobStops, Settle
  <2>3. calls[c] \in {"waiting"} \cup Answers
    BY <1>1, <2>1 DEF JobsOK
  <2>4. calls'[c] \in {calls[c], "ended"} /\ \A e \in Call \ {c} : calls'[e] = calls[e]
    BY <1>1, <2>2 DEF To
  <2>5. CallLeft(c)' <= CallLeft(c)
    BY <2>2, <2>3, <2>4 DEF CallLeft, At, Answers
  <2>6. ~ToRun(c)'
    BY <2>1, <2>3, <2>4 DEF ToRun, Answers
  <2>7. JobLeft(c)' = 0 /\ TimeLeft(c)' = 0
    BY <2>1, <2>6, NothingLeft
  <2>8. JobLeft(c) > 0 /\ JobLeft(c) \in Nat /\ TimeLeft(c) \in Nat
    BY <2>1, SomethingLeft DEF ToRun
  <2>9. JobLeft(c)' < JobLeft(c) /\ JobLeft(c)' <= JobLeft(c) /\ TimeLeft(c)' <= TimeLeft(c)
    BY <2>7, <2>8
  <2> QED
    BY <2>1, <2>4, <2>5, <2>9, OneCallFewer DEF Untouched
<1>9. CASE ProcessElapse
  <2>1. EngineElapse /\ UNCHANGED <<calls, queued, pulled, stage>>
    BY <1>9 DEF ProcessElapse, jobVars, lifeVars
  <2>2. ASSUME NEW c \in Call, Running(c)
        PROVE  StepsOf(c)' < StepsOf(c) /\ StepsOf(c)' <= StepsOf(c)
    <3>1. /\ Running(c)' /\ runs'[c].phase = runs[c].phase
          /\ runs'[c].attempts = runs[c].attempts /\ runs'[c].left = runs[c].left - 1
      BY <1>1, <2>1, <2>2, CloserRun
    <3>2. CallLeft(c)' = CallLeft(c) /\ CallLeft(c) \in 0..3
      BY <2>1 DEF CallLeft, At
    <3>3. JobLeft(c)' = JobLeft(c) /\ JobLeft(c) \in Nat
      BY <2>2, <3>1, SomethingLeft DEF JobLeft
    <3>4. TimeLeft(c)' = TimeLeft(c) - 1 /\ TimeLeft(c) \in Nat
      <4>1. runs[c].left \in Int /\ Overrun \in Nat
        BY <1>1, <2>2, BoundsTyped DEF Running, Run
      <4>2. TimeLeft(c) = runs[c].left + Overrun /\ TimeLeft(c)' = runs[c].left - 1 + Overrun
        BY <2>2, <3>1 DEF TimeLeft
      <4>3. TimeLeft(c) \in Nat
        BY <2>2, SomethingLeft
      <4> QED
        BY <4>1, <4>2, <4>3
    <3> DEFINE a == CallLeft(c)  b == JobLeft(c)  d == TimeLeft(c)
    <3>5. StepsOf(c) = a + b + d /\ StepsOf(c)' = a + b + (d - 1)
      BY <3>2, <3>3, <3>4 DEF StepsOf
    <3> HIDE DEF a, b, d
    <3> QED
      BY <3>2, <3>3, <3>4, <3>5 DEF a, b, d
  <2>3. ASSUME NEW c \in Call, ~Running(c) PROVE StepsOf(c)' <= StepsOf(c)
    <3>1. runs'[c] = runs[c]
      BY <1>1, <2>1, <2>3 DEF EngineElapse, Running
    <3>2. StepsOf(c)' = StepsOf(c)
      BY <2>1, <3>1, UntouchedSteps DEF Untouched
    <3>3. StepsOf(c) \in 0..StepsOfOne
      BY StepsOfTyped DEF CallsTyped, StepsTyped
    <3> QED
      BY <3>2, <3>3
  <2>4. StageLeft' <= StageLeft
    <3>1. StageLeft' = StageLeft
      BY <2>1 DEF StageLeft
    <3> QED
      BY <3>1, StageLeftTyped
  <2>5. \E c \in Call : Running(c)
    BY <2>1 DEF EngineElapse
  <2> QED
    BY <2>2, <2>3, <2>4, <2>5, StepsFewer
<1> QED
  BY <1>2, <1>3, <1>4, <1>5, <1>6, <1>7, <1>8, <1>9
     DEF ProcessNext, GoesOn, Happens, JobGoesOn, Abort, CutOff

\* At any time there is only so much left, ...
THEOREM StepsAlwaysCounted == ProcessSpec => [](StepsLeft \in 0..Steps)
<1>1. OverrunInv => StepsLeft \in 0..Steps
  <2> SUFFICES ASSUME OverrunInv PROVE StepsLeft \in 0..Steps
    OBVIOUS
  <2> DEFINE ahead == Cardinality(Ahead)
             bound == Cardinality(Call) * StepsOfOne
             of == StageLeft
  <2>1. ahead \in 0..bound /\ bound \in Nat /\ of \in 0..5
    BY AheadCounted, StageLeftTyped
  <2>2. StepsLeft = ahead + of /\ Steps = bound + 5
    BY DEF StepsLeft, Steps
  <2> HIDE DEF ahead, bound, of
  <2> QED
    BY <2>1, <2>2
<1> QED
  BY <1>1, InitOverrun, NextOverrun, PTL DEF ProcessSpec

\* ... and every step of the process, its calls, its jobs and its clock leaves less: a
\* process takes no more than `Steps` steps and then rests, whatever comes in, fails, is
\* aborted or is shut down; and by SomebodyCanGoOn nothing is under way when it rests.
THEOREM StepsRunOut == ProcessSpec => [][StepsLeft' < StepsLeft]_processVars
<1>1. OverrunInv /\ OverrunIsBounded /\ OverrunInv' /\ OverrunIsBounded' =>
        ([ProcessNext]_processVars => [StepsLeft' < StepsLeft]_processVars)
  <2>1. ASSUME OverrunInv, OverrunIsBounded, OverrunInv', OverrunIsBounded', ProcessNext
        PROVE  StepsLeft' < StepsLeft
    BY <2>1, NextFewer
  <2> QED
    BY <2>1
<1> QED
  BY <1>1, InitOverrun, NextOverrun, OverrunAlwaysBounded, PTL DEF ProcessSpec

===============================================================================
