----------------------------- MODULE MCDutyRoster -----------------------------
(* Instances of DutyRoster for TLC.                                        *)
EXTENDS DutyRoster, TLC

CONSTANTS early, middle   \* two duties of one day that overlap

\* early and middle overlap; any other shift overlaps itself only.
DayClash ==
  {<<s, s>> : s \in Shift}
    \cup {<<s, t>> \in Shift \X Shift : {s, t} = {early, middle}}

\* Absences on the early duty and qualifications for the late ones.
SomeBars ==
  {b \in Bar : IF b[1] = "absent" THEN b[3] = early ELSE b[3] \notin {early, middle}}

\* Requests, ids and employees are interchangeable.
Symmetry ==
  Permutations(Request) \cup Permutations(AssignmentId) \cup Permutations(Employee)
===============================================================================
