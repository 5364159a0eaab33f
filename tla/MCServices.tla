------------------------------ MODULE MCServices -------------------------------
(* An instance of Services for TLC.  No module orders the members of the    *)
(* sets it permutes.  Two services never run together, so sets of two of    *)
(* them can have the same members.                                         *)
EXTENDS Services, TLC

Symmetry == Permutations(Request) \cup Permutations(Employee) \cup Permutations(Message)
===============================================================================
