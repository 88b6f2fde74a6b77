-------------------------- MODULE MCDeliveryRepository --------------------------
EXTENDS DeliveryRepository, TLC

MCRetryDelays == {0, 2}
MCOutcomes == {"Delivered", "TimedOut"}
MCCompletions == {"Delivered", "Exhausted"}

Symmetric == Permutations(Delivery) \cup Permutations(Worker)

===============================================================================
