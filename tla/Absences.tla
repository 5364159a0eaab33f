------------------------------- MODULE Absences --------------------------------
(***************************************************************************)
(* The absences of one linked employee (RosterService), and the switch that *)
(* hands them over to ArbeitszeitCheck: while it is on, nothing of them is  *)
(* made or approved here.  No request takes a lock; a decision is a         *)
(* compare-and-set on the status, and what overlaps is read before it.      *)
(***************************************************************************)
EXTENDS Naturals, FiniteSets

CONSTANTS
  Request,
  LastDay,   \* bound: days are 1..LastDay
  MaxRows    \* bound: absences ever created

VARIABLES
  rows,      \* dc_absences: id, from, to, status
  lastId,
  effective, \* the integration is on, and the other application there
  req,       \* what a request has read
  beside     \* history: absences whose approvals overlapped in time

vars == <<rows, lastId, effective, req, beside>>

Day == 1..LastDay

\* The days dc_at_absence_mirror has as approved.
Imported == {LastDay}

Idle == [at |-> "idle"]

Init ==
  /\ rows = {} /\ lastId = 0
  /\ effective = FALSE
  /\ req = [p \in Request |-> Idle]
  /\ beside = {}

Goto(p, state) == req' = [req EXCEPT ![p] = state]

Targets(status) ==
  CASE status = "pending"  -> {"approved", "rejected", "cancelled"}
    [] status = "approved" -> {"cancelled"}
    [] OTHER               -> {"pending"}

\* Two that meet on one day only are let through.
Overlap_Bug(a, b) == a.from < b.to /\ b.from < a.to

Overlap(a, b) == a.from <= b.to /\ b.from <= a.to

\* assertNoAbsenceOverlapForStatus, for any but the absence itself; imported
\* ones count while the integration is effective.
Free(a, statuses, id) ==
  /\ \A r \in rows : r.id # id /\ r.status \in statuses => ~Overlap(r, a)
  /\ effective => Imported \cap (a.from..a.to) = {}

-------------------------------------------------------------------------------
(* createAbsence, by a planner or by the employee.                         *)

CheckCreate(p) ==
  /\ req[p] = Idle
  /\ ~effective
  /\ \E from \in Day, to \in Day :
       /\ from <= to
       /\ LET a == [from |-> from, to |-> to]
          IN Free(a, {"pending", "approved"}, 0) /\ Goto(p, [at |-> "insert", a |-> a])
  /\ UNCHANGED <<rows, lastId, effective, beside>>

InsertAbsence(p) ==
  /\ req[p].at = "insert"
  /\ lastId < MaxRows
  /\ lastId' = lastId + 1
  /\ rows' = rows \cup {[id |-> lastId + 1, from |-> req[p].a.from,
                         to |-> req[p].a.to, status |-> "pending"]}
  /\ Goto(p, Idle)
  /\ UNCHANGED <<effective, beside>>

-------------------------------------------------------------------------------
(* transitionAbsence.                                                      *)

\* What is handed over can still be refused or cancelled.
ReadAbsence(p) ==
  /\ req[p] = Idle
  /\ \E r \in rows : \E target \in Targets(r.status) :
       /\ effective => target \in {"cancelled", "rejected"}
       /\ Goto(p, [at |-> IF target = "approved" THEN "check" ELSE "decide",
                   row |-> r, target |-> target])
  /\ UNCHANGED <<rows, lastId, effective, beside>>

CheckOverlap(p) ==
  /\ req[p].at = "check"
  /\ Goto(p, IF Free(req[p].row, {"approved"}, req[p].row.id)
             THEN [req[p] EXCEPT !.at = "decide"] ELSE Idle)
  /\ UNCHANGED <<rows, lastId, effective, beside>>

Approving(p) == req[p].at = "decide" /\ req[p].target = "approved"

\* What other approvals have found free by now.
Raced(p) == {{req[p].row.id, req[q].row.id} : q \in {q \in Request : Approving(q)}}

\* Without a look at the status there is.
Decide_Bug(p) ==
  /\ req[p].at = "decide"
  /\ \E r \in rows :
       /\ r.id = req[p].row.id
       /\ rows' = (rows \ {r}) \cup {[r EXCEPT !.status = req[p].target]}
       /\ Goto(p, [at |-> "answer", from |-> r.status, target |-> req[p].target])
  /\ beside' = IF Approving(p) THEN beside \cup Raced(p) ELSE beside
  /\ UNCHANGED <<lastId, effective>>

\* The UPDATE; ABSENCE_STATUS_CONFLICT if it finds another status or no row.
Decide(p) ==
  /\ req[p].at = "decide"
  /\ \E r \in rows :
       /\ r.id = req[p].row.id
       /\ r.status = req[p].row.status
       /\ rows' = (rows \ {r}) \cup {[r EXCEPT !.status = req[p].target]}
       /\ Goto(p, [at |-> "answer", from |-> r.status, target |-> req[p].target])
  /\ beside' = IF Approving(p) THEN beside \cup Raced(p) ELSE beside
  /\ UNCHANGED <<lastId, effective>>

\* Stored conflicts are refreshed (ConflictRows) and the list is answered.
Answer(p) ==
  /\ req[p].at = "answer"
  /\ Goto(p, Idle)
  /\ UNCHANGED <<rows, lastId, effective, beside>>

-------------------------------------------------------------------------------
(* The other application.                                                  *)

\* setIntentEnabled, or the other application goes or comes back; by the latter
\* absences kept here can meet the integration, although the former refuses it.
Switch ==
  /\ effective' = ~effective
  /\ UNCHANGED <<rows, lastId, req, beside>>

\* purgeLegacyAbsencesForLinkedEmployees reads the ids first.
SelectLegacy(p) ==
  /\ req[p] = Idle
  /\ ~effective /\ rows # {}
  /\ Goto(p, [at |-> "purge", ids |-> {r.id : r \in rows}])
  /\ UNCHANGED <<rows, lastId, effective, beside>>

Purge(p) ==
  /\ req[p].at = "purge"
  /\ rows' = {r \in rows : r.id \notin req[p].ids}
  /\ Goto(p, Idle)
  /\ UNCHANGED <<lastId, effective, beside>>

-------------------------------------------------------------------------------

\* Refused, failed or dead.
Abort(p) ==
  /\ req[p] # Idle
  /\ Goto(p, Idle)
  /\ UNCHANGED <<rows, lastId, effective, beside>>

Next ==
  \/ \E p \in Request :
       \/ CheckCreate(p) \/ InsertAbsence(p)
       \/ ReadAbsence(p) \/ CheckOverlap(p) \/ Decide(p) \/ Answer(p)
       \/ SelectLegacy(p) \/ Purge(p) \/ Abort(p)
  \/ Switch

Spec == Init /\ [][Next]_vars

-------------------------------------------------------------------------------
(* Properties.                                                             *)

\* However reviewers' decisions interleave, one that is answered took the
\* absence from a status from which it may be taken there: two answers to the
\* same request are never both given.
DecidedOnce ==
  \A p \in Request : req[p].at = "answer" => req[p].target \in Targets(req[p].from)

\* A day of absence is approved once: absences of the employee that are approved
\* do not overlap, but for two whose approvals had both read that it was free.
ApprovedApart ==
  \A r, s \in rows :
    /\ r # s /\ r.status = "approved" /\ s.status = "approved"
    /\ (r.from..r.to) \cap (s.from..s.to) # {}
    => {r.id, s.id} \in beside

-------------------------------------------------------------------------------
(* What is known at any time, for the proof.                               *)

Status == {"pending", "approved", "rejected", "cancelled"}
Absence == [id : 1..MaxRows, from : Day, to : Day, status : Status]

TypeOK ==
  /\ lastId \in Nat
  /\ rows \subseteq Absence
  /\ \A r \in rows : r.id <= lastId
  /\ \A r, s \in rows : r.id = s.id => r = s
  /\ req \in [Request -> {Idle} \cup [at : {"insert"}, a : [from : Day, to : Day]]
                \cup [at : {"check", "decide"}, row : Absence, target : Status]
                \cup [at : {"answer"}, from : Status, target : Status]
                \cup [at : {"purge"}, ids : SUBSET Nat]]

\* A decision is about an absence that was there, and that keeps its days.
AsRead ==
  \A p \in Request : req[p].at \in {"check", "decide"} =>
    /\ req[p].target \in Targets(req[p].row.status)
    /\ req[p].row.id <= lastId
    /\ \A r \in rows : r.id = req[p].row.id => r.from = req[p].row.from /\ r.to = req[p].row.to
    /\ req[p].at = "check" => req[p].target = "approved"

\* What an approval found free is free, but for those beside it.
FoundFree ==
  \A p \in Request : Approving(p) =>
    \A r \in rows :
      r.status = "approved" /\ r.id # req[p].row.id /\ Overlap(r, req[p].row)
      => {r.id, req[p].row.id} \in beside

IInv == TypeOK /\ AsRead /\ FoundFree /\ DecidedOnce /\ ApprovedApart
===============================================================================
