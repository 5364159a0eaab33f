---------------------------- MODULE RotationSuggest ----------------------------
(***************************************************************************)
(* Filling an open period from a rotation pattern (RotationSuggestService),  *)
(* for one employee: the others are filled in the same way.  A confirmation *)
(* plans under the period's lock and writes cell by cell in one transaction, *)
(* while planners, who take no lock, change the roster.                     *)
(***************************************************************************)
EXTENDS Naturals

CONSTANTS
  Request,     \* confirmations
  None,
  LastDay,     \* the period is 1..LastDay
  MaxChanges   \* bound: what others change

VARIABLES
  rows,     \* the employee's active assignments: day, shift, source
  open,     \* the period's status is "open"
  absent,   \* days of approved absence
  pattern,  \* the shift of each day, or None
  lock,     \* who holds the period's lock; a dead request's is "stale"
  req,      \* what a confirmation has planned and written
  changes,
  calm      \* history: confirmations since whose plan nothing has changed

vars == <<rows, open, absent, pattern, lock, req, changes, calm>>

Day == 1..LastDay

\* Times in half days; a night ends with the next day's first half.
Shift == {"early", "night"}
Begins(c) == IF c.shift = "early" THEN 2 * c.day ELSE 2 * c.day + 1
Ends(c) == IF c.shift = "early" THEN 2 * c.day + 1 ELSE 2 * c.day + 3
MinRest == 1

Overlap(a, b) == Begins(a) < Ends(b) /\ Begins(b) < Ends(a)

\* Overlapping, or with too little rest between them.
Clash(a, b) == Begins(a) < Ends(b) + MinRest /\ Begins(b) < Ends(a) + MinRest

Patterns == {[d \in Day |-> "night"], [d \in Day |-> IF d = 2 THEN None ELSE "early"],
             [d \in Day |-> IF d = 1 THEN "night" ELSE "early"]}

Idle == [at |-> "idle"]

Init ==
  /\ rows = {} /\ open = TRUE /\ absent = {}
  /\ pattern \in Patterns
  /\ lock = None
  /\ req = [c \in Request |-> Idle]
  /\ changes = 0
  /\ calm = {}

Goto(c, state) == req' = [req EXCEPT ![c] = state]

-------------------------------------------------------------------------------
(* The plan, which preview shows and confirm makes again.                  *)

\* The day's cell, unless the day is off, taken or one of absence.
Candidate(d) ==
  /\ pattern[d] # None
  /\ \A r \in rows : r.day # d
  /\ d \notin absent

Cell(d) == [day |-> d, shift |-> pattern[d], source |-> "rotation_suggest"]

\* Beside the assignments there are only.
Accepts_Bug(accepted, cell) == \A r \in rows : ~Clash(r, cell)

\* cellWriteVerdict: beside the assignments there are and the cells before it.
Accepts(accepted, cell) == \A r \in rows \cup accepted : ~Clash(r, cell)

\* buildPlan with simulateWriteSkips goes from day to day: of all sets of days
\* this is the one where each is planned if its cell is accepted after those
\* before it.
Planned(days) ==
  \A d \in Day : d \in days <=>
    Candidate(d) /\ Accepts({Cell(e) : e \in {e \in days : e < d}}, Cell(d))

-------------------------------------------------------------------------------
(* confirm.                                                                *)

\* SUGGEST_IN_PROGRESS while another one is at work.
Acquire_Bug(c) == lock' = c

Acquire(c) == lock = None /\ lock' = c

Confirm(c) ==
  /\ req[c] = Idle
  /\ Acquire(c)
  /\ Goto(c, [at |-> "plan"])
  /\ UNCHANGED <<rows, open, absent, pattern, changes, calm>>

\* SUGGEST_PERIOD_NOT_OPEN, or on to the transaction.
Plan(c) ==
  /\ req[c].at = "plan"
  /\ IF open
     THEN /\ \E days \in SUBSET Day :
               /\ Planned(days)
               /\ Goto(c, [at |-> "write", todo |-> {Cell(d) : d \in days},
                           created |-> {}, missed |-> {}])
          /\ calm' = calm \cup {c}
     ELSE Goto(c, [at |-> "release", missed |-> {}]) /\ UNCHANGED calm
  /\ UNCHANGED <<rows, open, absent, pattern, lock, changes>>

\* createAssignment refuses the cell in a way that leaves it empty.
Refused(c, cell) ==
  \/ cell.day \in absent
  \/ \E r \in rows \cup req[c].created : Clash(r, cell)

\* writeCell of the next day, while the period is open.
WriteCell(c) ==
  /\ req[c].at = "write"
  /\ open
  /\ \E cell \in req[c].todo :
       /\ \A later \in req[c].todo : cell.day <= later.day
       /\ LET next == [req[c] EXCEPT !.todo = @ \ {cell}]
          IN Goto(c, IF Refused(c, cell)
                     THEN [next EXCEPT !.missed = @ \cup {cell}]
                     ELSE [next EXCEPT !.created = @ \cup {cell}])
  /\ UNCHANGED <<rows, open, absent, pattern, lock, changes, calm>>

\* PERIOD_NOT_OPEN, or any other failure: all cells are rolled back.
RollBack(c) ==
  /\ req[c].at \in {"plan", "write"}
  /\ Goto(c, [at |-> "release", missed |-> {}])
  /\ UNCHANGED <<rows, open, absent, pattern, lock, changes, calm>>

Commit(c) ==
  /\ req[c].at = "write" /\ req[c].todo = {}
  /\ rows' = rows \cup req[c].created
  /\ Goto(c, [at |-> "release", missed |-> req[c].missed])
  /\ calm' = calm \cap {c}
  /\ UNCHANGED <<open, absent, pattern, lock, changes>>

Release(c) ==
  /\ req[c].at = "release"
  /\ lock' = IF lock = c THEN None ELSE lock
  /\ Goto(c, Idle)
  /\ calm' = calm \ {c}
  /\ UNCHANGED <<rows, open, absent, pattern, changes>>

\* The database rolls back.
Die(c) ==
  /\ req[c] # Idle
  /\ Goto(c, Idle)
  /\ lock' = IF lock = c THEN "stale" ELSE lock
  /\ calm' = calm \ {c}
  /\ UNCHANGED <<rows, open, absent, pattern, changes>>

\* The lease of a dead request ends; a living one renews its own.
Expire ==
  /\ lock = "stale"
  /\ lock' = None
  /\ UNCHANGED <<rows, open, absent, pattern, req, changes, calm>>

-------------------------------------------------------------------------------
(* What others do meanwhile.                                               *)

Change ==
  /\ changes < MaxChanges
  /\ changes' = changes + 1
  /\ calm' = {}
  /\ UNCHANGED <<lock, req>>

\* A planner may confirm a short rest, but nothing that overlaps.  A slot that
\* a confirmation has inserted waits for its commit.
Create ==
  /\ open
  /\ \E d \in Day \ absent, s \in Shift :
       LET row == [day |-> d, shift |-> s, source |-> "manual"]
       IN /\ \A r \in rows : ~Overlap(r, row)
          /\ \A c \in Request : req[c].at = "write" =>
               \A r \in req[c].created : <<r.day, r.shift>> # <<d, s>>
          /\ rows' = rows \cup {row}
  /\ Change
  /\ UNCHANGED <<open, absent, pattern>>

Cancel ==
  /\ open
  /\ \E r \in rows : rows' = rows \ {r}
  /\ Change
  /\ UNCHANGED <<open, absent, pattern>>

Approve ==
  /\ \E d \in Day \ absent : absent' = absent \cup {d}
  /\ Change
  /\ UNCHANGED <<rows, open, pattern>>

\* The period is published, or closed and opened again.
Turn ==
  /\ open' = ~open
  /\ Change
  /\ UNCHANGED <<rows, absent, pattern>>

EditPattern ==
  /\ pattern' \in Patterns \ {pattern}
  /\ Change
  /\ UNCHANGED <<rows, open, absent>>

Next ==
  \/ \E c \in Request :
       Confirm(c) \/ Plan(c) \/ WriteCell(c) \/ RollBack(c) \/ Commit(c) \/ Release(c) \/ Die(c)
  \/ Expire
  \/ Create \/ Cancel \/ Approve \/ Turn \/ EditPattern

Spec == Init /\ [][Next]_vars

-------------------------------------------------------------------------------
(* Properties.                                                             *)

\* Cells are filled by one confirmation only: whatever patterns two of them go
\* by, no two suggested assignments of the employee overlap or break the rest
\* time.
FilledOnce ==
  \A x, y \in rows :
    x # y /\ x.source = "rotation_suggest" /\ y.source = "rotation_suggest" => ~Clash(x, y)

\* A preview is kept: unless somebody changed something since the plan was made,
\* every cell it promised has been written.
PlanKept ==
  \A c \in Request : req[c].at = "release" /\ c \in calm => req[c].missed = {}

-------------------------------------------------------------------------------
(* What is known at any time, for the proof.                               *)

Cells == [day : Day, shift : Shift, source : {"rotation_suggest"}]

TypeOK ==
  /\ absent \subseteq Day
  /\ pattern \in [Day -> Shift \cup {None}]
  /\ req \in [Request -> {Idle} \cup [at : {"plan"}] \cup [at : {"release"}, missed : SUBSET Cells]
                \cup [at : {"write"}, todo : SUBSET Cells, created : SUBSET Cells,
                      missed : SUBSET Cells]]

LockHeld == \A c \in Request : req[c] # Idle => lock = c

Suggested == {r \in rows : r.source = "rotation_suggest"}

\* What is not committed yet fits as well.
Fitting ==
  \A c \in Request : req[c].at = "write" =>
    \A x, y \in Suggested \cup req[c].created : x # y => ~Clash(x, y)

\* As long as nothing has changed, nothing is in the way of what is planned.
Unhindered ==
  \A c \in Request : req[c].at = "write" /\ c \in calm =>
    /\ req[c].missed = {}
    /\ \A x \in req[c].todo :
         /\ x.day \notin absent
         /\ \A y \in rows \cup req[c].created \cup (req[c].todo \ {x}) : ~Clash(y, x)

IInv == TypeOK /\ LockHeld /\ Fitting /\ Unhindered /\ FilledOnce /\ PlanKept
===============================================================================
