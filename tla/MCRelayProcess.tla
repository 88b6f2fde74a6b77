---------------------------- MODULE MCRelayProcess ----------------------------
EXTENDS RelayProcess, TLC

CONSTANTS c1, c2, c3, x, y

MCTarget == (c1 :> x) @@ (c2 :> x) @@ (c3 :> y)
Symmetric == Permutations({c1, c2})

===============================================================================
