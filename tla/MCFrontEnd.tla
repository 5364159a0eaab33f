------------------------------ MODULE MCFrontEnd -------------------------------
(* An instance of FrontEnd for TLC.  No module compares or orders the      *)
(* members of the sets it permutes; PatternsPage chooses a Date.           *)
EXTENDS FrontEnd, TLC

Symmetry == Permutations(Period) \cup Permutations(Name)
===============================================================================
