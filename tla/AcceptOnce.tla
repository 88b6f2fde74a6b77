------------------------------- MODULE AcceptOnce -------------------------------
(***************************************************************************)
(* What RelayIntakeStore.accept promises: a key is accepted once, for one  *)
(* fingerprint and with one delivery, and every request that is answered   *)
(* at all is answered by that acceptance.  A request may fail; whether its *)
(* acceptance took place, its caller then does not know.                   *)
(***************************************************************************)
CONSTANTS Request, IngestionKey, Fingerprint, NULL

VARIABLES asked,     \* what each request asks: a key and a fingerprint, or NULL
          accepted,  \* the acceptance of each key, or NULL
          answer     \* what each request was told, or NULL
vars == <<asked, accepted, answer>>

Init ==
  /\ asked = [r \in Request |-> NULL]
  /\ accepted = [k \in IngestionKey |-> NULL]
  /\ answer = [r \in Request |-> NULL]

Told(tag, delivery) == [tag |-> tag, delivery |-> delivery]

Ask(r, k, f) ==
  /\ asked[r] = NULL
  /\ asked' = [asked EXCEPT ![r] = [key |-> k, fingerprint |-> f]]
  /\ UNCHANGED <<accepted, answer>>

Waits(r) == asked[r] # NULL /\ answer[r] = NULL

\* The first request of a key is accepted with a delivery of its own, and told so if the
\* answer gets through.
Accept(r) ==
  /\ Waits(r)
  /\ accepted[asked[r].key] = NULL
  /\ accepted' = [accepted EXCEPT ![asked[r].key] =
                    [fingerprint |-> asked[r].fingerprint, delivery |-> r]]
  /\ \E told \in {Told("Accepted", r), Told("Failed", NULL)} :
       answer' = [answer EXCEPT ![r] = told]
  /\ UNCHANGED asked

\* Any other request of the key gets the same delivery, or a conflict.
Replay(r) ==
  /\ Waits(r)
  /\ LET a == accepted[asked[r].key]
     IN  /\ a # NULL
         /\ answer' = [answer EXCEPT ![r] =
              IF a.fingerprint = asked[r].fingerprint THEN Told("Replay", a.delivery)
              ELSE Told("Conflict", NULL)]
  /\ UNCHANGED <<asked, accepted>>

Fail(r) ==
  /\ Waits(r)
  /\ answer' = [answer EXCEPT ![r] = Told("Failed", NULL)]
  /\ UNCHANGED <<asked, accepted>>

Next ==
  \E r \in Request :
    \/ \E k \in IngestionKey, f \in Fingerprint : Ask(r, k, f)
    \/ Accept(r) \/ Replay(r) \/ Fail(r)

Spec == Init /\ [][Next]_vars

===============================================================================
