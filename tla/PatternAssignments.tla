-------------------------- MODULE PatternAssignments ---------------------------
(***************************************************************************)
(* The rotation patterns assigned to one employee (RotationPatternService).  *)
(* Assigning takes the employee's lock; ending an assignment, and switching *)
(* a pattern off and on, take none.                                         *)
(***************************************************************************)
EXTENDS Naturals, FiniteSets

CONSTANTS
  Request,
  Pattern,
  None,
  LastDay,   \* bound: days are 1..LastDay
  MaxRows    \* bound: rows ever inserted

VARIABLES
  active,    \* patterns with is_active = 1
  rows,      \* dc_emp_rot_assign: id, pattern, from, to
  lastId,
  lock,      \* who holds the employee's lock; a dead request's is "stale"
  req,       \* what a request has read
  loose      \* history: rows prolonged, or whose pattern was switched on again

vars == <<active, rows, lastId, lock, req, loose>>

Day == 1..LastDay
NoEnd == LastDay + 1  \* valid_to is null

Idle == [at |-> "idle"]

Init ==
  /\ active = Pattern
  /\ rows = {} /\ lastId = 0
  /\ lock = None
  /\ req = [p \in Request |-> Idle]
  /\ loose = {}

Goto(p, state) == req' = [req EXCEPT ![p] = state]

\* Two that meet on one day only are let through.
Overlap_Bug(a, b) == a.from < b.to /\ b.from < a.to

\* dateRangesOverlap, ends inclusive.
Overlap(a, b) == a.from <= b.to /\ b.from <= a.to

-------------------------------------------------------------------------------
(* assignToEmployee.                                                       *)

\* ASSIGNMENT_OVERLAP while another one is assigned.
Lock_Bug(p) == lock' = p

Lock(p) == lock = None /\ lock' = p

Assign(p) ==
  /\ req[p] = Idle
  /\ Lock(p)
  /\ \E x \in active, from \in Day, to \in 1..NoEnd, supersede \in BOOLEAN :
       /\ from <= to
       /\ Goto(p, [at |-> "read", pattern |-> x, from |-> from, to |-> to, supersede |-> supersede])
  /\ UNCHANGED <<active, rows, lastId, loose>>

\* findOverlappingAssignments; only those on active patterns refuse.
ReadOverlaps(p) ==
  /\ req[p].at = "read"
  /\ LET found == {r \in rows : Overlap(r, req[p])}
     IN Goto(p, IF req[p].supersede
                THEN [at |-> "write", wish |-> req[p], ids |-> {r.id : r \in found}]
                ELSE IF \E r \in found : r.pattern \in active
                THEN [at |-> "unlock"]
                ELSE [at |-> "write", wish |-> req[p], ids |-> {}])
  /\ UNCHANGED <<active, rows, lastId, lock, loose>>

\* What is superseded ends the day before, or goes if that is before it began.
Superseded(ids, from) ==
  {IF r.id \in ids THEN [r EXCEPT !.to = from - 1] ELSE r :
     r \in {s \in rows : s.id \in ids => s.from < from}}

\* The transaction's writes and its commit; no two rows begin on the same day.
CommitAssign(p) ==
  /\ req[p].at = "write"
  /\ LET wish == req[p].wish
         kept == Superseded(req[p].ids, wish.from)
     IN /\ \A r \in kept : r.from # wish.from
        /\ lastId < MaxRows
        /\ rows' = kept \cup {[id |-> lastId + 1, pattern |-> wish.pattern,
                               from |-> wish.from, to |-> wish.to]}
  /\ lastId' = lastId + 1
  /\ Goto(p, [at |-> "unlock"])
  /\ UNCHANGED <<active, lock, loose>>

\* The unique index's refusal, or any other failure: rolled back.
AssignFails(p) ==
  /\ req[p].at = "write"
  /\ Goto(p, [at |-> "unlock"])
  /\ UNCHANGED <<active, rows, lastId, lock, loose>>

Unlock(p) ==
  /\ req[p].at = "unlock"
  /\ lock' = IF lock = p THEN None ELSE lock
  /\ Goto(p, Idle)
  /\ UNCHANGED <<active, rows, lastId, loose>>

-------------------------------------------------------------------------------
(* endAssignment, and updatePattern as far as is_active goes.              *)

ReadRow(p) ==
  /\ req[p] = Idle
  /\ \E r \in rows, to \in Day :
       /\ r.from <= to
       /\ Goto(p, [at |-> "end", id |-> r.id, to |-> to])
  /\ UNCHANGED <<active, rows, lastId, lock, loose>>

\* The UPDATE names the row only; it may have been cut or deleted meanwhile,
\* and the new end may be later than the old one.
EndAssignment(p) ==
  /\ req[p].at = "end"
  /\ rows' = {IF r.id = req[p].id THEN [r EXCEPT !.to = req[p].to] ELSE r : r \in rows}
  /\ loose' = loose \cup {r.id : r \in {s \in rows : s.id = req[p].id /\ s.to < req[p].to}}
  /\ Goto(p, Idle)
  /\ UNCHANGED <<active, lastId, lock>>

Deactivate ==
  /\ \E x \in active : active' = active \ {x}
  /\ UNCHANGED <<rows, lastId, lock, req, loose>>

Activate ==
  /\ \E x \in Pattern \ active :
       /\ active' = active \cup {x}
       /\ loose' = loose \cup {r.id : r \in {s \in rows : s.pattern = x}}
  /\ UNCHANGED <<rows, lastId, lock, req>>

-------------------------------------------------------------------------------

Die(p) ==
  /\ req[p] # Idle
  /\ Goto(p, Idle)
  /\ lock' = IF lock = p THEN "stale" ELSE lock
  /\ UNCHANGED <<active, rows, lastId, loose>>

\* The lease of a dead request ends; no living one outlasts its own.
Expire ==
  /\ lock = "stale"
  /\ lock' = None
  /\ UNCHANGED <<active, rows, lastId, req, loose>>

Next ==
  \/ \E p \in Request :
       \/ Assign(p) \/ ReadOverlaps(p) \/ CommitAssign(p) \/ AssignFails(p) \/ Unlock(p)
       \/ ReadRow(p) \/ EndAssignment(p)
       \/ Die(p)
  \/ Expire \/ Deactivate \/ Activate

Spec == Init /\ [][Next]_vars

-------------------------------------------------------------------------------
(* Properties.                                                             *)

\* No day of an employee has two active patterns, however assignments, ends and
\* supersessions interleave, but for an assignment that was prolonged or whose
\* pattern was switched on again, which the code lets overlap.
OnePatternADay ==
  \A r, s \in rows :
    /\ r # s /\ {r.pattern, s.pattern} \subseteq active
    /\ (r.from..r.to) \cap (s.from..s.to) # {}
    => {r.id, s.id} \cap loose # {}

-------------------------------------------------------------------------------
(* What is known at any time, for the proof.                               *)

Wish == [at : {"read"}, pattern : Pattern, from : Day, to : 1..NoEnd, supersede : BOOLEAN]

TypeOK ==
  /\ active \subseteq Pattern /\ lastId \in Nat
  /\ rows \subseteq [id : 1..lastId, pattern : Pattern, from : Day, to : 1..NoEnd]
  /\ \A r, s \in rows : r.id = s.id => r = s
  /\ req \in [Request -> {Idle, [at |-> "unlock"]} \cup Wish
                \cup [at : {"write"}, wish : Wish, ids : SUBSET Nat]
                \cup [at : {"end"}, id : Nat, to : Day]]

LockHeld == \A p \in Request : req[p].at \in {"read", "write", "unlock"} => lock = p

Meet(r, s) == (r.from..r.to) \cap (s.from..s.to) # {}

\* An assignment that has been checked can be written: however rows are ended
\* and patterns switched until then, none of what it leaves is against it.
Checked ==
  \A p \in Request : req[p].at = "write" =>
    LET kept == Superseded(req[p].ids, req[p].wish.from)
    IN /\ \A r \in kept : r.pattern \in active /\ Meet(r, req[p].wish) => r.id \in loose
       /\ \A r, s \in kept :
            r # s /\ {r.pattern, s.pattern} \subseteq active /\ Meet(r, s)
            => {r.id, s.id} \cap loose # {}

IInv == TypeOK /\ LockHeld /\ Checked /\ OnePatternADay
===============================================================================
