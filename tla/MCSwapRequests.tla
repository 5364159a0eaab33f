---------------------------- MODULE MCSwapRequests ----------------------------
(* Instances of SwapRequests for TLC.                                      *)
EXTENDS SwapRequests, TLC

Symmetry == Permutations(Request \ Planner) \cup Permutations(Planner) \cup Permutations(Employee)
===============================================================================
