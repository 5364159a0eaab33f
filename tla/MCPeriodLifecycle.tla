--------------------------- MODULE MCPeriodLifecycle ---------------------------
(* Instances of PeriodLifecycle for TLC.                                   *)
EXTENDS PeriodLifecycle, TLC

Symmetry == Permutations(Request)
===============================================================================
