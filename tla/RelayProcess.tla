------------------------------ MODULE RelayProcess ------------------------------
(***************************************************************************)
(* One process from its start to its end: readiness, the calls that come   *)
(* in over HTTP or from the program that embeds the relay, their admission, *)
(* the bounded queue, the runs of the engine, and a shutdown that cuts      *)
(* through all of it.  The tables and the leases are left to Relay: of a    *)
(* delivery this module keeps whether it is stored.                         *)
(***************************************************************************)
EXTENDS DeliveryEngine

CONSTANTS Home,                    \* configuration.destination.id
          AdmissionPerDestination, \* deliveryRequestsPerDestinationCapacity
          QueueCapacity            \* deliveryRequestsCapacity

ASSUME ProcessAssumption ==
  /\ Home \in Destination
  /\ QueueCapacity \in Nat \ {0}
  /\ AdmissionPerDestination \in 1..QueueCapacity

VARIABLES entry,               \* how the process was started
          stage,               \* where it is between its start and its end
          ready,               \* the Ref of RelayReadiness
          calls,               \* how far each call is, and in the end its answer
          queued,              \* the jobs in the bounded queue
          pulled,              \* the jobs its consumer has taken and not yet begun
          cancelled,           \* the jobs whose caller is gone
          destinationAdmitted, \* permits taken from the admission of each destination
          globalAdmitted,      \* permits taken from globalAdmission
          admitted             \* the count of admitted deliveries it reports
lifeVars == <<entry, stage, ready>>
admissionVars == <<destinationAdmitted, globalAdmitted, admitted>>
jobVars == <<queued, pulled, cancelled>>
processVars == <<engineVars, lifeVars, calls, jobVars, admissionVars>>

\* main.node.ts launches the layers; startRelayApplication embeds them in a program.
Entries == {"node", "embedded"}
Stages == {"building", "built", "serving", "closing", "disposing", "disposed"}

\* A call stores an event ("accepting") or, once it is admitted, a delivery, and then
\* waits for the result of that.  It is refused when the process is not ready or
\* overloaded, and else "ended" with an acceptance, a result, an error or an interrupt.
Underway == {"accepting", "admitted", "waiting"}
Answers == {"refused", "ended"}

At(c, state) == calls[c] = state
Holds(c) == calls[c] \in {"admitted", "waiting"}
Busy(c) == calls[c] \in Underway \/ c \in queued \cup pulled \/ Running(c)
To(c, state) == calls' = [calls EXCEPT ![c] = state]

ProcessInit ==
  /\ EngineInit
  /\ entry \in Entries
  /\ stage = "building"
  /\ ready = FALSE
  /\ calls = [c \in Call |-> "new"]
  /\ queued = {} /\ pulled = {} /\ cancelled = {}
  /\ destinationAdmitted = [d \in Destination |-> 0]
  /\ globalAdmitted = 0 /\ admitted = 0

NoAdmission == UNCHANGED admissionVars

LeavesGlobalTaken(c) ==
  LET n == IF Holds(c) THEN 1 ELSE 0
  IN  /\ destinationAdmitted' = [destinationAdmitted EXCEPT ![Target[c]] = @ - n]
      /\ globalAdmitted' = IF At(c, "waiting") THEN globalAdmitted - n ELSE globalAdmitted
      /\ admitted' = admitted - n

\* The scope of `admit` closes, if the call is inside it.
Leaves(c) ==
  LET n == IF Holds(c) THEN 1 ELSE 0
  IN  /\ destinationAdmitted' = [destinationAdmitted EXCEPT ![Target[c]] = @ - n]
      /\ globalAdmitted' = globalAdmitted - n
      /\ admitted' = admitted - n

-------------------------------------------------------------------------------
(* Start and end of the process.                                           *)

Build ==
  /\ stage = "building"
  /\ \/ stage' = IF entry = "node" THEN "serving" ELSE "built"
     \/ stage' = "disposing"
  /\ UNCHANGED <<engineVars, entry, ready, calls, jobVars, admissionVars>>

\* startRelayApplication registers the shutdown and, in the same turn, marks ready.
MarkReady ==
  /\ stage = "built"
  /\ stage' = "serving"
  /\ ready' = TRUE
  /\ UNCHANGED <<engineVars, entry, calls, jobVars, admissionVars>>

ShutdownKeepsReady ==
  /\ stage = "serving"
  /\ stage' = IF entry = "node" THEN "disposing" ELSE "closing"
  /\ UNCHANGED <<engineVars, entry, ready, calls, jobVars, admissionVars>>

\* `shutdown` of the embedding, called again it is the same promise; a signal to the
\* Node process interrupts the launched layers at once.
Shutdown ==
  /\ stage = "serving"
  /\ IF entry = "node" THEN stage' = "disposing" /\ UNCHANGED ready
     ELSE stage' = "closing" /\ ready' = FALSE
  /\ UNCHANGED <<engineVars, entry, calls, jobVars, admissionVars>>

Dispose ==
  /\ stage = "closing"
  /\ stage' = "disposing"
  /\ UNCHANGED <<engineVars, entry, ready, calls, jobVars, admissionVars>>

\* The scope of the layers has closed when every fiber it owned has ended.
Disposed ==
  /\ stage = "disposing"
  /\ \A c \in Call : ~Busy(c)
  /\ stage' = "disposed"
  /\ UNCHANGED <<engineVars, entry, ready, calls, jobVars, admissionVars>>

-------------------------------------------------------------------------------
(* Calls.                                                                  *)

AdmitOneTooMany(c) ==
  IF /\ destinationAdmitted[Target[c]] < AdmissionPerDestination
     /\ globalAdmitted <= QueueCapacity
  THEN /\ To(c, "admitted")
       /\ destinationAdmitted' = [destinationAdmitted EXCEPT ![Target[c]] = @ + 1]
       /\ globalAdmitted' = globalAdmitted + 1
       /\ admitted' = admitted + 1
  ELSE To(c, "refused") /\ NoAdmission

\* `deliver`: both permits at once or a refusal, and then the one of the destination
\* comes back when there is no global one.
Admit(c) ==
  IF /\ destinationAdmitted[Target[c]] < AdmissionPerDestination
     /\ globalAdmitted < QueueCapacity
  THEN /\ To(c, "admitted")
       /\ destinationAdmitted' = [destinationAdmitted EXCEPT ![Target[c]] = @ + 1]
       /\ globalAdmitted' = globalAdmitted + 1
       /\ admitted' = admitted + 1
  ELSE To(c, "refused") /\ NoAdmission

\* A call comes in for a delivery or, by EventIntake.accept, for an event, which needs
\* no admission and goes to the configured destination.
ComeIn(c) ==
  /\ At(c, "new")
  /\ Admit(c) \/ (Target[c] = Home /\ To(c, "accepting") /\ NoAdmission)

\* The HTTP server listens once it is built and until its own finalizer has run.  Its
\* calls are for the configured destination.
Arrive(c) ==
  /\ stage \in {"built", "serving", "closing", "disposing"}
  /\ Target[c] = Home
  /\ \/ ready /\ ComeIn(c)
     \/ ~ready /\ At(c, "new") /\ To(c, "refused") /\ NoAdmission
  /\ UNCHANGED <<engineVars, lifeVars, jobVars>>

\* The embedding program calls without a look at the readiness, until it has disposed.
CallIn(c) ==
  /\ entry = "embedded" /\ stage \in {"serving", "closing"}
  /\ ComeIn(c)
  /\ UNCHANGED <<engineVars, lifeVars, jobVars>>

\* The transaction has committed, and the claim is offered to the queue.  Jobs of events
\* take places there that admission does not count, so a delivery that was admitted and
\* stored may be refused after all; of an event the caller does not hear.
Store(c) ==
  /\ calls[c] \in {"accepting", "admitted"}
  /\ queued' = IF Cardinality(queued) < QueueCapacity THEN queued \cup {c} ELSE queued
  /\ IF At(c, "accepting") THEN To(c, "ended") /\ NoAdmission
     ELSE IF Cardinality(queued) < QueueCapacity THEN To(c, "waiting") /\ NoAdmission
     ELSE To(c, "refused") /\ Leaves(c)
  /\ UNCHANGED <<engineVars, lifeVars, pulled, cancelled>>

StoreFails(c) ==
  /\ calls[c] \in {"accepting", "admitted"}
  /\ To(c, "ended") /\ Leaves(c)
  /\ UNCHANGED <<engineVars, lifeVars, jobVars>>

\* The fiber of a call is interrupted.  A job that is already queued learns of it, any
\* other is never made.
Gone(c) ==
  /\ calls[c] \in Underway
  /\ To(c, "ended") /\ Leaves(c)
  /\ cancelled' = IF At(c, "waiting") THEN cancelled \cup {c} ELSE cancelled
  /\ UNCHANGED <<engineVars, lifeVars, queued, pulled>>

Abort(c) == stage # "disposing" /\ Gone(c)
CutOff(c) == stage = "disposing" /\ Gone(c)

-------------------------------------------------------------------------------
(* Jobs.                                                                   *)

\* The consumer of the queue takes what there is in one go.
Pull ==
  /\ pulled = {} /\ queued # {}
  /\ pulled' = queued /\ queued' = {}
  /\ UNCHANGED <<engineVars, lifeVars, calls, cancelled, admissionVars>>

\* A job gets a dispatch permit.  A cancelled one ends before its first attempt.
Dispatch(c) ==
  /\ c \in pulled
  /\ Cardinality({other \in Call : Running(other)}) < QueueCapacity
  /\ pulled' = pulled \ {c}
  /\ cancelled' = cancelled \ {c}
  /\ IF c \in cancelled THEN UNCHANGED engineVars ELSE Start(c)
  /\ UNCHANGED <<lifeVars, calls, queued, admissionVars>>

Attempting(c) ==
  /\ \/ TakeDestination(c) \/ TakeGlobal(c) \/ Recorded(c) \/ Wake(c)
     \/ \E retryAfter \in RetryAfters \cup {NULL} : Answer(c, retryAfter)
  /\ UNCHANGED <<lifeVars, calls, jobVars, admissionVars>>

\* A job that ends answers the call that waits for it, which leaves the admission.
Settle(c) ==
  /\ IF At(c, "waiting") THEN To(c, "ended") /\ Leaves(c) ELSE UNCHANGED calls /\ NoAdmission
  /\ cancelled' = cancelled \ {c}
  /\ UNCHANGED <<lifeVars, queued, pulled>>

JobEnds(c) == Finish(c) /\ Settle(c)

\* A renewal or a statement fails.
JobFails(c) == Interrupt(c) /\ Settle(c)

\* Its caller is gone, or the FiberSet and the queue of the supervisor close.
JobStops(c) ==
  /\ \/ /\ c \in cancelled \/ stage = "disposing"
        /\ Interrupt(c) /\ UNCHANGED <<queued, pulled>>
     \/ /\ stage = "disposing" /\ c \in queued \cup pulled
        /\ queued' = queued \ {c} /\ pulled' = pulled \ {c} /\ UNCHANGED engineVars
  /\ cancelled' = cancelled \ {c}
  /\ UNCHANGED <<lifeVars, calls, admissionVars>>

ProcessElapse ==
  /\ EngineElapse
  /\ UNCHANGED <<lifeVars, calls, jobVars, admissionVars>>

-------------------------------------------------------------------------------
JobGoesOn(c) == Dispatch(c) \/ Attempting(c) \/ JobEnds(c) \/ JobStops(c)

\* What goes on by itself: layers are built and torn down, statements end, fibers are
\* scheduled and timers run out.
GoesOn ==
  \/ Build \/ MarkReady \/ Dispose \/ Disposed \/ Pull
  \/ \E c \in Call : Store(c) \/ CutOff(c) \/ JobGoesOn(c)
  \/ ProcessElapse

\* Calls come in, callers go away, statements fail and somebody shuts the process down.
Happens ==
  \/ Shutdown
  \/ \E c \in Call : Arrive(c) \/ CallIn(c) \/ StoreFails(c) \/ Abort(c) \/ JobFails(c)

ProcessNext == GoesOn \/ Happens

\* The process does not stand still while anything in it can go on; which step it takes
\* is left open, and nothing from outside need happen.
ProcessFairness == WF_processVars(GoesOn)

ProcessSpec == ProcessInit /\ [][ProcessNext]_processVars /\ ProcessFairness

-------------------------------------------------------------------------------
\* Every variable has its type.
ProcessTypeOK ==
  /\ entry \in Entries /\ stage \in Stages /\ ready \in BOOLEAN
  /\ calls \in [Call -> {"new"} \cup Underway \cup Answers]
  /\ {queued, pulled, cancelled} \subseteq SUBSET Call
  /\ runs \in [Call -> Run \cup {NULL}]
  /\ {destinationTaken, active, destinationAdmitted} \subseteq [Destination -> Nat]
  /\ {globalTaken, globalAdmitted, admitted} \subseteq Nat

\* Wherever a call or a run is refused, fails, times out, is aborted or cut off by the
\* shutdown, each of the four nested permits and both counts are given back once, so no
\* capacity is lost or made up and the load that is reported is the load there is.
OfDestination(S, d) == Cardinality({c \in S : Target[c] = d})
InPhase(phases) == {c \in Call : Running(c) /\ runs[c].phase \in phases}

PermitsAgree ==
  /\ globalTaken = Cardinality(InPhase({"sending"})) /\ globalTaken <= GlobalLimit
  /\ globalAdmitted = Cardinality({c \in Call : Holds(c)}) /\ admitted = globalAdmitted
  /\ \A d \in Destination :
       /\ destinationTaken[d] = OfDestination(InPhase({"waitingGlobal", "sending"}), d)
       /\ active[d] = OfDestination(InPhase({"sending"}), d)
       /\ destinationAdmitted[d] = OfDestination({c \in Call : Holds(c)}, d)

\* "Retry is bounded by attempts and elapsed time": a run is over by its deadline, but for
\* what it waits for permits while others send, whom their own deadlines bound, for the
\* time its last attempt takes to be stored, and for a retry that a slow record made late
\* and that is then given no time.
SendingOfOthers == (Cardinality(Call) - 1) * Min({MaxElapsed, MaxAttempts * AttemptTimeout})
Overrun == SendingOfOthers + RecordTime + Max({RecordTime - 1, 0})

OverrunIsBounded == \A c \in Call : Running(c) => runs[c].left >= -Overrun

\* What admission is for: a delivery that was let in and stored is refused by a full queue
\* only for jobs that admission does not count, those of events, of lost callers and of
\* the reconciler, which reach the queue here as those of events do.
AdmittedFindsPlace ==
  \A c \in Call : At(c, "admitted") /\ Cardinality(queued) = QueueCapacity =>
    \E job \in queued : ~Holds(job)

\* "Shutdown closes readiness before disposing": once fibers are cut off, no new call
\* gets past the readiness check to be cut off itself.
NoneLetInWhileCut ==
  [][\A c \in Call : stage = "disposing" /\ At(c, "new") =>
       calls'[c] \in {"new", "refused"}]_processVars

\* Every call that comes in is answered and its job comes to an end: as long as one of
\* them is under way, something in the process can go on.  No order of the two permits,
\* retries, refusals, lost callers or shutdown makes them wait for one another for ever,
\* and since calls and attempts are finite, a shutdown ends too.
NobodyIsStuck == (\E c \in Call : Busy(c)) => ENABLED GoesOn

\* main.node.ts marks nothing ready, only the embedding does: a process started as a Node
\* application refuses every call, for as long as it runs.
NodeRefusesEveryCall ==
  entry = "node" => \A c \in Call : calls[c] \in {"new", "refused"}

===============================================================================
