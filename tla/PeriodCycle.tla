------------------------------ MODULE PeriodCycle ------------------------------
(***************************************************************************)
(* What a planning period promises, whoever moves it: it walks the cycle   *)
(* open, published, closed, open, ... one step at a time, can be deleted   *)
(* only while open, and its log names every status it moved to, in order.  *)
(***************************************************************************)
EXTENDS Naturals, Sequences

VARIABLES
  status,  \* "absent", a status of dc_periods, or "deleted"
  log      \* the statuses moved to, oldest first

vars == <<status, log>>

After == [open |-> "published", published |-> "closed", closed |-> "open"]

Init == status = "absent" /\ log = <<>>

Create == status = "absent" /\ status' = "open" /\ UNCHANGED log

Advance ==
  /\ status \in DOMAIN After
  /\ status' = After[status]
  /\ log' = Append(log, status')

Delete ==
  /\ status = "open"
  /\ status' = "deleted"
  /\ log' = Append(log, status')

Next == Create \/ Advance \/ Delete

Spec == Init /\ [][Next]_vars
===============================================================================
