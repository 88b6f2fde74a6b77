--------------------------------- MODULE MCRelay ---------------------------------
EXTENDS Relay, TLC

MCRetryDelays == {1}
MCNoCompletions == {}
MCOutcomes == {"Delivered", "TimedOut"}

Symmetric == Permutations(Worker) \cup Permutations(Delivery)

===============================================================================
