----------------------------- MODULE DeliveryStore -----------------------------
(***************************************************************************)
(* What the DeliveryRepository and RelayIntakeStore services promise their *)
(* callers, whichever adapter is behind them: a delivery is held by one    *)
(* claim at a time, each claim of a delivery has a new term, only the      *)
(* holder extends the history or ends the delivery, and a delivery that    *)
(* was delivered, rejected or terminated stays as it is.  There is no      *)
(* clock: the store may give an unfinished delivery to a new holder at any *)
(* moment, and a holder learns of it only by being refused.                *)
(***************************************************************************)
EXTENDS Naturals, Sequences

CONSTANTS Delivery, Worker, NoOne

VARIABLES state,    \* how each delivery stands, "Absent" before it is taken in
          holder,   \* who holds it, or NoOne
          term,     \* how many claims it has had
          history   \* its recorded attempts, oldest first
vars == <<state, holder, term, history>>

Unfinished(d) == state[d] = "Pending"
Held(d) == Unfinished(d) /\ holder[d] # NoOne

Init ==
  /\ state = [d \in Delivery |-> "Absent"]
  /\ holder = [d \in Delivery |-> NoOne]
  /\ term = [d \in Delivery |-> 0]
  /\ history = [d \in Delivery |-> <<>>]

\* A delivery is taken in, held by the process that took it in or by no one.
TakeIn(d) ==
  /\ state[d] = "Absent"
  /\ state' = [state EXCEPT ![d] = "Pending"]
  /\ \/ \E w \in Worker : holder' = [holder EXCEPT ![d] = w]
                          /\ term' = [term EXCEPT ![d] = 1]
     \/ UNCHANGED <<holder, term>>
  /\ UNCHANGED history

\* A batch of unfinished deliveries goes to one worker, whoever held them.
Grant(w, S) ==
  /\ \A d \in S : Unfinished(d)
  /\ holder' = [d \in Delivery |-> IF d \in S THEN w ELSE holder[d]]
  /\ term' = [d \in Delivery |-> IF d \in S THEN term[d] + 1 ELSE term[d]]
  /\ UNCHANGED <<state, history>>

GiveBack(d) ==
  /\ Held(d)
  /\ holder' = [holder EXCEPT ![d] = NoOne]
  /\ UNCHANGED <<state, term, history>>

\* What a decision about an attempt makes of the delivery.
Ends(outcome, decision) ==
  IF decision = "RetryScheduled" THEN "Pending"
  ELSE IF decision = "Exhausted" \/ outcome = "ProtocolFailure" THEN "DeadLettered"
  ELSE outcome

\* The holder records an attempt; a final or exhausting one also ends its claim.
Extend(d, outcome, decision) ==
  /\ Held(d)
  /\ history' = [history EXCEPT ![d] =
       Append(@, [by |-> holder[d], term |-> term[d],
                  outcome |-> outcome, decision |-> decision])]
  /\ state' = [state EXCEPT ![d] = Ends(outcome, decision)]
  /\ holder' = [holder EXCEPT ![d] = IF decision = "RetryScheduled" THEN @ ELSE NoOne]
  /\ UNCHANGED term

\* The holder ends the delivery without an attempt (completeClaim).
Conclude(d, s) ==
  /\ Held(d)
  /\ state' = [state EXCEPT ![d] = s]
  /\ holder' = [holder EXCEPT ![d] = NoOne]
  /\ UNCHANGED <<term, history>>

\* An operator reopens or terminates a dead letter.
Settle(d, s) ==
  /\ state[d] = "DeadLettered"
  /\ state' = [state EXCEPT ![d] = s]
  /\ UNCHANGED <<holder, term, history>>

Next ==
  \/ \E d \in Delivery : TakeIn(d)
  \/ \E w \in Worker, S \in SUBSET Delivery : Grant(w, S)
  \/ \E d \in Delivery : GiveBack(d)
  \/ \E d \in Delivery,
        outcome \in {"Delivered", "Rejected", "Retryable", "ProtocolFailure",
                     "TransportFailure", "TimedOut"},
        decision \in {"Terminal", "RetryScheduled", "Exhausted"} :
       Extend(d, outcome, decision)
  \/ \E d \in Delivery, s \in {"Delivered", "Rejected", "DeadLettered"} : Conclude(d, s)
  \/ \E d \in Delivery, s \in {"Pending", "Terminated"} : Settle(d, s)

Spec == Init /\ [][Next]_vars

===============================================================================
