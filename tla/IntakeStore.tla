------------------------------ MODULE IntakeStore ------------------------------
(***************************************************************************)
(* Idempotent intake: requests that carry an ingestion key and run the     *)
(* transaction of the Postgres intake store at the same time, under READ   *)
(* COMMITTED.  An INSERT that meets the key in an open transaction waits   *)
(* for that transaction to end.  A transaction may be rolled back, its     *)
(* commit may go unheard, and the process may end at any point.            *)
(*                                                                         *)
(* Every request brings fresh ids, so an event and its delivery are known  *)
(* by the request that inserted them.  No request waits for another's      *)
(* answer, so it does not matter that a lost connection is noticed by the  *)
(* caller before the server rolls back.  Events without a key (savePending)*)
(* and what becomes of an accepted delivery: DeliveryTable, Relay.         *)
(***************************************************************************)
EXTENDS Naturals

CONSTANTS Request,       \* calls of EventIntake.accept, a caller's repeats included
          IngestionKey,
          Fingerprint,   \* digests of submissions
          NULL

\* NULL is told from what a request asks and from what became of a key.
ASSUME IntakeAssumption ==
  /\ NULL \notin [key : IngestionKey, fingerprint : Fingerprint]
  /\ NULL \notin [fingerprint : Fingerprint, delivery : Request]

VARIABLES asked,       \* the key and fingerprint of each request, NULL before it comes
          phase,       \* where its call is
          events,      \* table relay_events: the committed rows with a key
          deliveries,  \* table deliveries: the committed rows of those events
          answer       \* what the caller was told, NULL while it waits
vars == <<asked, phase, events, deliveries, answer>>

Open == {"inserted", "stored"}   \* in a transaction that has written
Calling == Open \cup {"begun", "taken"}

Told(tag, delivery) == [tag |-> tag, delivery |-> delivery]

Init ==
  /\ asked = [r \in Request |-> NULL]
  /\ phase = [r \in Request |-> "idle"]
  /\ events = {}
  /\ deliveries = {}
  /\ answer = [r \in Request |-> NULL]

At(r, p) == phase[r] = p
Goto(r, p) == phase' = [phase EXCEPT ![r] = p]

End(r, told) ==
  /\ Goto(r, "ended")
  /\ answer' = [answer EXCEPT ![r] = told]

SameKey(r, S) == {q \in S : asked[q].key = asked[r].key}

\* The committed events that carry the key of `r`, and the open transactions that have
\* inserted it.
Taken(r) == SameKey(r, events)

HoldersKeepLock(r) ==
  SameKey(r, {q \in Request : phase[q] \in Open \cup {"ended"}} \ events)

Holders(r) == SameKey(r, {q \in Request : phase[q] \in Open})

Ask(r, k, f) ==
  /\ At(r, "idle")
  /\ asked' = [asked EXCEPT ![r] = [key |-> k, fingerprint |-> f]]
  /\ Goto(r, "begun")
  /\ UNCHANGED <<events, deliveries, answer>>

InsertEventAfterLook(r) ==
  /\ At(r, "begun")
  /\ Goto(r, IF Taken(r) = {} THEN "inserted" ELSE "taken")
  /\ UNCHANGED <<asked, events, deliveries, answer>>

InsertEventCommits(r) ==
  /\ At(r, "begun")
  /\ Goto(r, IF Taken(r) = {} THEN "inserted" ELSE "taken")
  /\ events' = IF Taken(r) = {} THEN events \cup {r} ELSE events
  /\ UNCHANGED <<asked, deliveries, answer>>

\* INSERT ... ON CONFLICT (ingestion_key) DO NOTHING.
InsertEvent(r) ==
  /\ At(r, "begun")
  /\ Holders(r) = {}
  /\ Goto(r, IF Taken(r) = {} THEN "inserted" ELSE "taken")
  /\ UNCHANGED <<asked, events, deliveries, answer>>

\* The INSERT of the claimed delivery, in the same transaction.
InsertDelivery(r) ==
  /\ At(r, "inserted")
  /\ Goto(r, "stored")
  /\ UNCHANGED <<asked, events, deliveries, answer>>

\* The rows of the transaction are seen from here on.  When the answer is lost, or the
\* process ends, the caller is told of a failure.
Commit(r) ==
  /\ At(r, "stored")
  /\ events' = events \cup {r}
  /\ deliveries' = deliveries \cup {r}
  /\ \E told \in {Told("Accepted", r), Told("Failed", NULL)} : End(r, told)
  /\ UNCHANGED asked

FindIgnoringFingerprint(r) ==
  /\ At(r, "taken")
  /\ \E e \in Taken(r) :
       End(r, IF e \in deliveries THEN Told("Replay", e) ELSE Told("NoAcceptance", NULL))
  /\ UNCHANGED <<asked, events, deliveries>>

\* The SELECT joins the event with its delivery, in a snapshot of its own that sees
\* what the INSERT met.
Find(r) ==
  /\ At(r, "taken")
  /\ \E e \in Taken(r) :
       End(r, IF e \notin deliveries THEN Told("NoAcceptance", NULL)
              ELSE IF asked[e].fingerprint # asked[r].fingerprint
              THEN Told("Conflict", NULL)
              ELSE Told("Replay", e))
  /\ UNCHANGED <<asked, events, deliveries>>

\* A statement fails, or the caller or the process goes away: the open transaction is
\* rolled back.
GiveUp(r) ==
  /\ phase[r] \in Calling
  /\ End(r, Told("Failed", NULL))
  /\ UNCHANGED <<asked, events, deliveries>>

Work(r) == InsertEvent(r) \/ InsertDelivery(r) \/ Commit(r) \/ Find(r)

Next ==
  \/ \E r \in Request, k \in IngestionKey, f \in Fingerprint : Ask(r, k, f)
  \/ \E r \in Request : Work(r) \/ GiveUp(r)

\* Statements end, those that wait for a transaction after it has; nobody has to ask.
Spec == Init /\ [][Next]_vars /\ \A r \in Request : WF_vars(Work(r))

-------------------------------------------------------------------------------
Acceptance(k) ==
  LET E == {e \in events : asked[e].key = k}
  IN  IF E = {} THEN NULL
      ELSE LET e == CHOOSE e \in E : TRUE
           IN  [fingerprint |-> asked[e].fingerprint, delivery |-> e]

Once == INSTANCE AcceptOnce WITH accepted <- [k \in IngestionKey |-> Acceptance(k)]

\* The transaction, with its two inserts, its wait and its rollbacks, looks to its
\* callers like one step that accepts a key for the first of them only.
ImplementsAcceptOnce == Once!Spec

-------------------------------------------------------------------------------
\* Two requests that are told of a delivery for one key are told of the same one, for
\* the same submission, and it is stored with its event: however they raced, and
\* whichever of them were rolled back or heard nothing.
Positive(r) == answer[r] # NULL /\ answer[r].tag \in {"Accepted", "Replay"}

AnswersNameOneDelivery ==
  \A r, q \in Request :
    Positive(r) /\ Positive(q) /\ asked[r].key = asked[q].key =>
      /\ answer[r].delivery = answer[q].delivery
      /\ asked[r].fingerprint = asked[q].fingerprint
      /\ answer[r].delivery \in events \cap deliveries

\* "idempotency key exists without an acceptance" is an error no request can meet,
\* although the INSERT and the SELECT that follows it read at different moments.
KeyNeverWithoutAcceptance ==
  \A r \in Request : answer[r] # NULL => answer[r].tag # "NoAcceptance"

\* Every call ends: those that wait on one key are let on one by one.
EveryCallEnds == \A r \in Request : At(r, "begun") ~> At(r, "ended")

===============================================================================
