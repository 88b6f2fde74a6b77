---------------------------- MODULE MCClaimStatement ----------------------------
EXTENDS ClaimStatement, TLC

MCRetryDelays == {1}
MCOutcomes == {"TimedOut"}
MCNoCompletions == {}

Symmetric == Permutations(Delivery) \cup Permutations(Worker)

===============================================================================
