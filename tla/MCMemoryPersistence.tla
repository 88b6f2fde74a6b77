-------------------------- MODULE MCMemoryPersistence --------------------------
EXTENDS MemoryPersistence, TLC

MCOutcomes == {"Delivered", "TimedOut"}
MCRetryDelays == {1}
MCCompletions == {"Exhausted"}

Symmetric == Permutations(Delivery) \cup Permutations(Worker)

===============================================================================
