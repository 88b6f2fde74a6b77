----------------------------- MODULE ClaimStatement -----------------------------
(***************************************************************************)
(* The repository with claimPending taken apart.  Under READ COMMITTED the *)
(* statement reads a snapshot, and the clock once; it locks a row only if  *)
(* the newest version of that row still meets the WHERE clause, skips what *)
(* others hold locked, and updates the newest version.  But what its last  *)
(* SELECT returns beside the updated row, the next ordinal, comes from the *)
(* snapshot.  Every other operation may run between the two steps, so the  *)
(* ordinal may be taken when the claim is handed out.                      *)
(*                                                                         *)
(* A locked row is not changed by others until the commit, so locking each *)
(* row and updating all of them act as one step at the last lock.          *)
(***************************************************************************)
EXTENDS DeliveryRepository

VARIABLE statement   \* the claimPending statement of each worker, NULL when none runs
statementVars == <<now, deliveries, attempts, held, statement>>

\* Of its snapshot a statement keeps the rows that meet its WHERE clause, each with the
\* next ordinal of its history.
Statement == [dest       : Destination,
              at         : 0..MaxNow,
              candidates : SUBSET Delivery,
              next       : [Delivery -> 1..(MaxOrdinal + 1)]]

ASSUME StatementAssumption == NULL \notin Statement

StatementInit ==
  /\ Init
  /\ statement = [w \in Worker |-> NULL]

BeginClaim(w, dest) ==
  /\ statement[w] = NULL
  /\ LET candidates == {d \in Delivery : Claimable(d, dest, now)}
     IN  statement' = [statement EXCEPT ![w] =
           [dest |-> dest, at |-> now, candidates |-> candidates,
            next |-> [d \in Delivery |-> IF d \in candidates THEN NextOrdinal(d) ELSE 1]]]
  /\ UNCHANGED vars

LockableUnchecked(s) == s.candidates

\* The rows of the snapshot that the statement may lock when it comes to them.
Lockable(s) == {d \in s.candidates : Claimable(d, s.dest, s.at)}

ReturnedOffByOne(d, s) == ClaimOf(d, s.next[d] + 1)

\* What the last SELECT returns: the updated row and the next ordinal of the snapshot.
Returned(d, s) == ClaimOf(d, s.next[d])

\* The statement locks, updates, commits and returns; it may find nothing left, or fail.
EndClaim(w, S) ==
  /\ statement[w] # NULL
  /\ LET s == statement[w]
     IN  /\ S \subseteq Lockable(s)
         /\ Cardinality(S) <= ClaimBatchSize
         /\ \A d \in S : deliveries[d].generation < MaxGeneration
         /\ deliveries' = [d \in Delivery |->
              IF d \in S THEN Claimed(deliveries[d], w, s.at) ELSE deliveries[d]]
         /\ held' = held \cup {Returned(d, s) : d \in S}
  /\ statement' = [statement EXCEPT ![w] = NULL]
  /\ UNCHANGED <<now, attempts>>

\* Everything else the repository does.
OtherStep ==
  \/ \E d \in Delivery, dest \in Destination, version \in Version \cup {NULL}, w \in Worker :
       Intake(d, dest, version, w)
  \/ \E d \in Delivery, dest \in Destination : SaveUnclaimed(d, dest)
  \/ \E c \in held : Renew(c) \/ Release(c)
  \/ \E c \in held, result \in Completions : Complete(c, result)
  \/ \E c \in held, outcome \in Outcomes, decision \in AttemptDecisions, due \in DueTimes :
       Record(c, outcome, decision, due)
  \/ \E d \in Delivery : Operate(d)
  \/ Advance

StatementNext ==
  \/ \E w \in Worker, dest \in Destination : BeginClaim(w, dest)
  \/ \E w \in Worker : \E S \in SUBSET Delivery : EndClaim(w, S)
  \/ OtherStep /\ UNCHANGED statement

StatementSpec == StatementInit /\ [][StatementNext]_statementVars

-------------------------------------------------------------------------------
\* The snapshot and the locks of claimPending, with all that comes between them, amount
\* to the one step of DeliveryRepository: the rows are claimable when they are locked,
\* the lease counts from a past reading of the clock, and no ordinal lies ahead of its
\* history.  What holds of the repository holds of overlapping statements.
KeepsToRepository == Spec

===============================================================================
