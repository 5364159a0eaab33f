------------------------------ MODULE OpenShifts ------------------------------
(***************************************************************************)
(* The marketplace: OpenShiftService on one row of dc_open_shifts and the  *)
(* assignments made from it.                                               *)
(*                                                                         *)
(* Posting, claiming, approving and rejecting are compare-and-sets on the  *)
(* row's status, each committed on its own.  Filling the slot is not: the  *)
(* assignment is created in one transaction and linked to the row in a     *)
(* later statement, and a request that loses the link cancels the          *)
(* assignment again.  RosterService::createAssignment and cancelAssignment *)
(* are single steps here; DutyRoster takes them apart.                     *)
(***************************************************************************)
EXTENDS Naturals, Sequences

CONSTANTS
  Request,      \* request processes
  Employee,
  NULL,
  AutoApply,    \* what the negation of the company's claim_requires_planner,
                \* which may be changed between two claims, can be
  Disturbance,  \* what may happen: "close" (the period), "die" (a request),
                \* "outsider" (claimants are no members of the company)
  MaxRows       \* bound: assignments made

ASSUME ConstantsAssumption ==
  /\ NULL \notin Employee
  /\ AutoApply \subseteq BOOLEAN
  /\ MaxRows \in Nat

VARIABLES
  slot,        \* the dc_open_shifts row: status, claimed_by_emp, assignment_id
  rows,        \* dc_assignments for the slot's time, by id
  periodOpen,  \* the period is open or published
  op,          \* request -> what it has still to do
  left,        \* history: assignments whose request died or could not undo
               \* them, or that were cancelled before they were linked
  abandoned    \* history: since the last claim a request died that was filling
               \* the slot without a planner

hist == <<left, abandoned>>
vars == <<slot, rows, periodOpen, op, hist>>

Idle == [step |-> "idle"]

Absent      == [status |-> "absent", emp |-> NULL, asg |-> 0]
Open        == [status |-> "open", emp |-> NULL, asg |-> 0]
Gone        == [status |-> "gone", emp |-> NULL, asg |-> 0]
Pending(e)  == [status |-> "pending", emp |-> e, asg |-> 0]

ActiveRow(i) == rows[i].status = "active"
Linked(i)    == slot.status = "claimed" /\ slot.asg = i
Booked(e)    == \E i \in DOMAIN rows : rows[i].emp = e /\ ActiveRow(i)

Init ==
  /\ slot = Absent
  /\ rows = <<>>
  /\ periodOpen = TRUE
  /\ op = [r \in Request |-> Idle]
  /\ left = {}
  /\ abandoned = FALSE

-------------------------------------------------------------------------------
(* One-statement operations.                                               *)

Post(r) ==
  /\ op[r] = Idle
  /\ slot = Absent
  /\ periodOpen
  /\ slot' = Open
  /\ UNCHANGED <<rows, periodOpen, op, hist>>

Discard(r) ==
  /\ op[r] = Idle
  /\ slot.status = "open"
  /\ slot' = Gone
  /\ UNCHANGED <<rows, periodOpen, op, hist>>

\* releaseToOpen does nothing unless the status is the one given.
ReleasedFrom(status) == IF slot.status = status THEN Open ELSE slot

Reject(r) ==
  /\ op[r] = Idle
  /\ slot.status = "pending"
  /\ slot' = ReleasedFrom("pending")
  /\ UNCHANGED <<rows, periodOpen, op, hist>>

ReleasedKeepsLink_Bug(id) ==
  IF slot.status = "claimed" /\ slot.asg = id THEN [slot EXCEPT !.status = "open"] ELSE slot

\* releaseClaimedOpenShift.
Released(id) == IF slot.status = "claimed" /\ slot.asg = id THEN Open ELSE slot

\* Names ending in _Bug are wrong on purpose and used nowhere: PROJECT.json
\* puts each in the place of the definition it is named after.
CancelAssignment_Bug(r, i) ==
  /\ op[r] = Idle
  /\ periodOpen
  /\ ActiveRow(i)
  /\ rows' = [rows EXCEPT ![i].status = "cancelled"]
  /\ left' = left \cup (IF Linked(i) THEN {} ELSE {i})
  /\ UNCHANGED <<slot, periodOpen, op, abandoned>>

\* A planner cancels an assignment: cancelAssignment releases its slot.
CancelAssignment(r, i) ==
  /\ op[r] = Idle
  /\ periodOpen
  /\ ActiveRow(i)
  /\ rows' = [rows EXCEPT ![i].status = "cancelled"]
  /\ slot' = Released(i)
  /\ left' = left \cup (IF Linked(i) THEN {} ELSE {i})
  /\ UNCHANGED <<periodOpen, op, abandoned>>

-------------------------------------------------------------------------------
(* Claiming and approving.                                                 *)

\* claim: the row is open and the employee free at that time ...
ReadClaim(r, e) ==
  /\ op[r] = Idle
  /\ slot.status = "open"
  /\ periodOpen
  /\ ~Booked(e)
  /\ op' = [op EXCEPT ![r] = [step |-> "claim", emp |-> e]]
  /\ UNCHANGED <<slot, rows, periodOpen, hist>>

\* ... and UPDATE ... WHERE status = 'open'; a claim that needs no planner
\* goes on to fill the slot.
CommitClaim(r) ==
  /\ op[r].step = "claim"
  /\ slot.status = "open"
  /\ slot' = Pending(op[r].emp)
  /\ \/ /\ TRUE \in AutoApply
        /\ op' = [op EXCEPT ![r] = [step |-> "create", emp |-> op[r].emp, auto |-> TRUE]]
     \/ /\ FALSE \in AutoApply
        /\ op' = [op EXCEPT ![r] = Idle]
  /\ abandoned' = FALSE
  /\ UNCHANGED <<rows, periodOpen, left>>

\* OPEN_SHIFT_NOT_OPEN.
LoseClaim(r) ==
  /\ op[r].step = "claim"
  /\ slot.status # "open"
  /\ op' = [op EXCEPT ![r] = Idle]
  /\ UNCHANGED <<slot, rows, periodOpen, hist>>

\* approveClaim takes the claimant from the row it reads.
ReadApprove(r) ==
  /\ op[r] = Idle
  /\ slot.status = "pending"
  /\ op' = [op EXCEPT ![r] = [step |-> "create", emp |-> slot.emp, auto |-> FALSE]]
  /\ UNCHANGED <<slot, rows, periodOpen, hist>>

\* createAssignment in its own transaction.
Create(r) ==
  /\ op[r].step = "create"
  /\ Len(rows) < MaxRows
  /\ periodOpen
  /\ ~Booked(op[r].emp)
  /\ rows' = Append(rows, [emp |-> op[r].emp, status |-> "active"])
  /\ op' = [op EXCEPT ![r] = [step |-> "link", id |-> Len(rows) + 1, auto |-> @.auto]]
  /\ UNCHANGED <<slot, periodOpen, hist>>

\* After a failure the automatic claim gives the slot back, an approval
\* leaves the claim pending.
AfterFailure(o) == IF o.auto THEN [step |-> "release"] ELSE Idle

CreateFails_Bug(r) ==
  /\ op[r].step = "create"
  /\ op' = [op EXCEPT ![r] = Idle]
  /\ UNCHANGED <<slot, rows, periodOpen, hist>>

\* Any refusal: overlap, absence, qualification, soft conflicts.
CreateFails(r) ==
  /\ op[r].step = "create"
  /\ op' = [op EXCEPT ![r] = AfterFailure(@)]
  /\ UNCHANGED <<slot, rows, periodOpen, hist>>

\* UPDATE ... SET status = 'claimed' WHERE status = 'pending'.
Link(r) ==
  /\ op[r].step = "link"
  /\ slot.status = "pending"
  /\ slot' = [slot EXCEPT !.status = "claimed", !.asg = op[r].id]
  /\ op' = [op EXCEPT ![r] = Idle]
  /\ UNCHANGED <<rows, periodOpen, hist>>

LinkLost_Bug(r) ==
  /\ op[r].step = "link"
  /\ slot.status # "pending"
  /\ op' = [op EXCEPT ![r] = AfterFailure(@)]
  /\ UNCHANGED <<slot, rows, periodOpen, hist>>

LinkLost(r) ==
  /\ op[r].step = "link"
  /\ slot.status # "pending"
  /\ op' = [op EXCEPT ![r].step = "undo"]
  /\ UNCHANGED <<slot, rows, periodOpen, hist>>

\* cancelAssignment lets members of the company cancel, and a claim that needs
\* no planner runs as the claimant.
MayCancel(r) == ~(op[r].auto /\ "outsider" \in Disturbance)

\* cancelAssignmentSilent; an assignment already cancelled is left alone.
Undo(r) ==
  /\ op[r].step = "undo"
  /\ MayCancel(r)
  /\ periodOpen \/ ~ActiveRow(op[r].id)
  /\ IF ActiveRow(op[r].id)
       THEN /\ rows' = [rows EXCEPT ![op[r].id].status = "cancelled"]
            /\ slot' = Released(op[r].id)
       ELSE UNCHANGED <<rows, slot>>
  /\ op' = [op EXCEPT ![r] = AfterFailure(@)]
  /\ UNCHANGED <<periodOpen, hist>>

\* ASSIGNMENT_NOT_FOUND or PERIOD_NOT_OPEN is swallowed; the assignment stays.
UndoFails(r) ==
  /\ op[r].step = "undo"
  /\ ~MayCancel(r) \/ (~periodOpen /\ ActiveRow(op[r].id))
  /\ op' = [op EXCEPT ![r] = AfterFailure(@)]
  /\ left' = left \cup {op[r].id}
  /\ UNCHANGED <<slot, rows, periodOpen, abandoned>>

Release_Bug(r) ==
  /\ op[r].step = "release"
  /\ slot' = IF slot.status = "gone" THEN slot ELSE Open
  /\ op' = [op EXCEPT ![r] = Idle]
  /\ UNCHANGED <<rows, periodOpen, hist>>

Release(r) ==
  /\ op[r].step = "release"
  /\ slot' = ReleasedFrom("pending")
  /\ op' = [op EXCEPT ![r] = Idle]
  /\ UNCHANGED <<rows, periodOpen, hist>>

-------------------------------------------------------------------------------
(* Disturbances.                                                           *)

\* The period is closed, or reopened.
TogglePeriod ==
  /\ "close" \in Disturbance
  /\ periodOpen' = ~periodOpen
  /\ UNCHANGED <<slot, rows, op, hist>>

\* The request fills the slot without a planner, or gives it back.
Applying(r) ==
  \/ op[r].step = "release"
  \/ op[r].step \in {"create", "link", "undo"} /\ op[r].auto

\* The request's process ends between two of its statements.
Die(r) ==
  /\ "die" \in Disturbance
  /\ op[r] # Idle
  /\ op' = [op EXCEPT ![r] = Idle]
  /\ left' = left \cup (IF op[r].step \in {"link", "undo"} THEN {op[r].id} ELSE {})
  /\ abandoned' = (abandoned \/ Applying(r))
  /\ UNCHANGED <<slot, rows, periodOpen>>

Proceed(r) ==
  \/ CommitClaim(r) \/ LoseClaim(r) \/ Create(r) \/ CreateFails(r)
  \/ Link(r) \/ LinkLost(r) \/ Undo(r) \/ UndoFails(r) \/ Release(r)

Next ==
  \/ \E r \in Request :
       \/ Post(r) \/ Discard(r) \/ Reject(r) \/ ReadApprove(r)
       \/ \E i \in DOMAIN rows : CancelAssignment(r, i)
       \/ \E e \in Employee : ReadClaim(r, e)
       \/ Proceed(r) \/ Die(r)
  \/ TogglePeriod

Spec == Init /\ [][Next]_vars

\* A request that does not die runs to its end: no lock, wait or queue is on
\* its way.
FairSpec == Spec /\ \A r \in Request : WF_vars(Proceed(r))

-------------------------------------------------------------------------------
Id == 1 .. MaxRows

TypeOK ==
  /\ slot \in {Absent, Open, Gone} \cup {Pending(e) : e \in Employee}
              \cup [status : {"claimed"}, emp : Employee, asg : Id]
  /\ rows \in Seq([emp : Employee, status : {"active", "cancelled"}])
  /\ Len(rows) <= MaxRows
  /\ periodOpen \in BOOLEAN
  /\ op \in [Request ->
       {Idle, [step |-> "release"]}
         \cup [step : {"claim"}, emp : Employee]
         \cup [step : {"create"}, emp : Employee, auto : BOOLEAN]
         \cup [step : {"link", "undo"}, id : Id, auto : BOOLEAN]]
  /\ left \subseteq Id
  /\ abandoned \in BOOLEAN

(***************************************************************************)
(* One open shift fills one slot: once no request is under way, the only   *)
(* active assignment made from it is the one it is linked to, whatever     *)
(* claims, approvals and rejections raced, but for those of a request that *)
(* died or was refused its rollback (approveClaim's rollback).             *)
(***************************************************************************)
OneFilling ==
  (\A r \in Request : op[r] = Idle) =>
    \A i \in DOMAIN rows : ActiveRow(i) => Linked(i) \/ i \in left

(***************************************************************************)
(* A slot that was given to somebody is taken away only together with the  *)
(* assignment: no late release, rejection or discard undoes an approval.   *)
(***************************************************************************)
ClaimedUntilCancelled ==
  [][slot.status = "claimed" /\ slot' # slot =>
       /\ ActiveRow(slot.asg)
       /\ rows'[slot.asg].status = "cancelled"]_vars

(***************************************************************************)
(* releaseClaimedOpenShift's invariant: cancelling an assignment never     *)
(* strands its slot, so a claimed slot's assignment is active; only one    *)
(* cancelled before it was linked may be claimed by.                       *)
(***************************************************************************)
NotStranded == slot.status = "claimed" => ActiveRow(slot.asg) \/ slot.asg \in left

(***************************************************************************)
(* Where no planner is asked, no claim stays pending: it is filled or the  *)
(* slot is given back (claim's fail-closed catch), unless the request dies.*)
(***************************************************************************)
NoStuckPending ==
  (slot.status = "pending" /\ \E r \in Request : Applying(r))
    ~> (slot.status # "pending" \/ abandoned)
===============================================================================
