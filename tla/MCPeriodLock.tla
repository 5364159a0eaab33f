----------------------------- MODULE MCPeriodLock -----------------------------
(* Instances of PeriodLock for TLC.                                        *)
EXTENDS PeriodLock, TLC

\* Every process acquires as itself: holders with a random suffix.
MCOwnHolder == [p \in Process |-> <<p>>]

Symmetry == Permutations(Process)
===============================================================================
