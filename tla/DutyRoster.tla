------------------------------ MODULE DutyRoster ------------------------------
(***************************************************************************)
(* Duty assignments inside planning periods: RosterService on the tables   *)
(* dc_periods and dc_assignments.                                          *)
(*                                                                         *)
(* Every HTTP request is a PHP process of its own.  A mutation validates   *)
(* against plain reads first and only then opens a transaction whose       *)
(* UPDATE or INSERT is guarded by a version, a status or a unique index.   *)
(* The two halves are separate actions here, so that whatever other        *)
(* requests commit in between is visible: an action named Check... is the  *)
(* validating half, an action named Apply... the committing half, and the  *)
(* record pending[r] holds exactly what the request carries across.        *)
(*                                                                         *)
(* A request that fails a validation, loses its guard (zero rows affected, *)
(* unique-key violation), throws and rolls back, or whose process dies     *)
(* leaves the database as it was: that is the action Abort.                *)
(***************************************************************************)
EXTENDS Naturals, FiniteSets

CONSTANTS
  Period,        \* planning periods (dc_periods)
  Employee,      \* dc_employees
  Shift,         \* a duty date with its times and kind, as one value
  Clash,         \* pairs of shifts one employee cannot hold together
  AssignmentId,  \* ids the dc_assignments sequence can still hand out
  Request,       \* request processes
  NoOne,         \* a NULL employee
  MaxLoad,       \* shifts an employee may hold before the hours hard cap
  Barrable,      \* bound: the members of Bar whose truth changes
  MaxVersion     \* bound on dc_assignments.version, for model checking only

ASSUME ClashAssumption ==
  /\ Clash \subseteq Shift \X Shift
  /\ \A s \in Shift : <<s, s>> \in Clash
  /\ \A s, t \in Shift : <<s, t>> \in Clash => <<t, s>> \in Clash

\* An approved absence on the day, a hard qualification of the place missing.
Bar == {"absent", "unqualified"} \X Employee \X Shift

ASSUME BoundAssumption ==
  /\ MaxLoad \in Nat
  /\ MaxVersion \in Nat
  /\ NoOne \notin Employee
  /\ Barrable \subseteq Bar

VARIABLES
  status,   \* period -> dc_periods.status, or that there is no such row
  archived, \* periods with a stored publish or close snapshot
  row,      \* id -> the dc_assignments row
  barred,   \* <<why, employee, shift>> that may not be planned
  pending   \* request -> what it read and validated, not yet committed

vars == <<status, archived, row, barred, pending>>

-------------------------------------------------------------------------------
(* Rows, slot keys and requests.                                           *)

\* AssignmentSlotKey: the logical slot while active, the row id afterwards.
ActiveKey(p, e, s) == [tag |-> "a", period |-> p, emp |-> e, shift |-> s]
CancelledKey(i)    == [tag |-> "c", id |-> i]

SlotKeys ==
  {ActiveKey(p, e, s) : p \in Period, e \in Employee, s \in Shift}
    \cup {CancelledKey(i) : i \in AssignmentId}

Row == [period : Period, emp : Employee, shift : Shift,
        status : {"active", "cancelled"}, version : Nat,
        slotKey : SlotKeys, ackBy : Employee \cup {NoOne}]

Unused == [status |-> "unused"]
Idle   == [op |-> "idle"]

Commands ==
  {Idle}
    \cup [op : {"create"}, period : Period, emp : Employee, shift : Shift]
    \cup [op : {"form", "cancel"}, id : AssignmentId, read : Row]
    \cup [op : {"update"}, id : AssignmentId, read : Row,
          emp : Employee, shift : Shift]
    \cup [op : {"transfer"}, id : AssignmentId, read : Row, emp : Employee]
    \cup [op : {"ack"}, id : AssignmentId, emp : Employee]
    \cup [op : {"transition"}, period : Period,
          from : {"open", "published", "closed"},
          to : {"open", "published", "closed"}]
    \cup [op : {"delete"}, period : Period]

Active(i)     == row[i].status = "active"
Used(i)       == row[i].status # "unused"

\* The unique index dc_asg_skey_uidx on slot_key, seen by a writer of row i.
KeyFree(k, i) == \A j \in AssignmentId \ {i} : Used(j) => row[j].slotKey # k

-------------------------------------------------------------------------------
(* What the validations and the conflict engine look at.                   *)

RowsOf(rows, p) ==
  {i \in AssignmentId : rows[i].status = "active" /\ rows[i].period = p}

\* Names ending in _Bug are wrong on purpose and used nowhere: PROJECT.json
\* puts each in the place of the definition below it, and some property fails.
Overlaps_Bug(p, e, s, except) ==
  \E i \in RowsOf(row, p) \ except : row[i].emp = e /\ row[i].shift = s

\* assertNoOverlapConflict: same period and employee only, "except" excluded.
Overlaps(p, e, s, except) ==
  \E i \in RowsOf(row, p) \ except :
    row[i].emp = e /\ <<s, row[i].shift>> \in Clash

\* A transfer asks for no qualification before it commits.
Available(p, e, s, except) ==
  <<"absent", e, s>> \notin barred /\ ~Overlaps(p, e, s, except)

Plannable(p, e, s, except) ==
  Available(p, e, s, except) /\ <<"unqualified", e, s>> \notin barred

\* conflictsForPeriod on the table "rows": the conflicts of severity "hard".
DoubleBooked(rows, p) ==
  \E i, j \in RowsOf(rows, p) :
    i # j /\ rows[i].emp = rows[j].emp /\ <<rows[i].shift, rows[j].shift>> \in Clash

HardConflict(rows, p) ==
  \/ DoubleBooked(rows, p)
  \/ \E i \in RowsOf(rows, p), why \in {"absent", "unqualified"} :
       <<why, rows[i].emp, rows[i].shift>> \in barred
  \/ \E e \in Employee :
       Cardinality({i \in RowsOf(rows, p) : rows[i].emp = e}) > MaxLoad

NextStatus_Bug == [open |-> "published", published |-> "closed", closed |-> "reopened"]
NextStatus == [open |-> "published", published |-> "closed", closed |-> "open"]

-------------------------------------------------------------------------------
Init ==
  /\ status = [p \in Period |-> "absent"]
  /\ archived = {}
  /\ row = [i \in AssignmentId |-> Unused]
  /\ barred = {}
  /\ pending = [r \in Request |-> Idle]

Begin(r, cmd) == pending[r] = Idle /\ pending' = [pending EXCEPT ![r] = cmd]
Finish(r)     == pending' = [pending EXCEPT ![r] = Idle]

Abort(r) ==
  /\ pending[r] # Idle
  /\ Finish(r)
  /\ UNCHANGED <<status, archived, row, barred>>

-------------------------------------------------------------------------------
(* Periods.                                                                *)

CreatePeriod(r, p) ==
  /\ pending[r] = Idle
  /\ status[p] = "absent"
  /\ status' = [status EXCEPT ![p] = "open"]
  /\ UNCHANGED <<archived, row, barred, pending>>

CheckTransition_Bug(r, p) ==
  /\ status[p] \in DOMAIN NextStatus
  /\ Begin(r, [op |-> "transition", period |-> p,
               from |-> status[p], to |-> NextStatus[status[p]]])
  /\ UNCHANGED <<status, archived, row, barred>>

\* transitionPeriod up to its status CAS; only publish recomputes conflicts.
CheckTransition(r, p) ==
  /\ status[p] \in DOMAIN NextStatus
  /\ NextStatus[status[p]] = "published" => ~HardConflict(row, p)
  /\ Begin(r, [op |-> "transition", period |-> p,
               from |-> status[p], to |-> NextStatus[status[p]]])
  /\ UNCHANGED <<status, archived, row, barred>>

ApplyTransition(r) ==
  /\ pending[r].op = "transition"
  /\ LET cmd == pending[r] IN
       /\ status[cmd.period] = cmd.from
       /\ status' = [status EXCEPT ![cmd.period] = cmd.to]
       /\ archived' = IF cmd.to = "open" THEN archived ELSE archived \cup {cmd.period}
  /\ Finish(r)
  /\ UNCHANGED <<row, barred>>

CheckDelete_Bug(r, p) ==
  /\ status[p] = "open"
  /\ p \notin archived
  /\ RowsOf(row, p) = {}
  /\ Begin(r, [op |-> "delete", period |-> p])
  /\ UNCHANGED <<status, archived, row, barred>>

\* deletePeriod counts the period's rows, cancelled ones included (those of
\* dc_open_shifts and dc_conflicts too, which this module does not have) ...
CheckDelete(r, p) ==
  /\ status[p] = "open"
  /\ p \notin archived
  /\ ~\E i \in AssignmentId : Used(i) /\ row[i].period = p
  /\ Begin(r, [op |-> "delete", period |-> p])
  /\ UNCHANGED <<status, archived, row, barred>>

\* ... and deletes the period row if it is still open.
ApplyDelete(r) ==
  /\ pending[r].op = "delete"
  /\ status[pending[r].period] = "open"
  /\ status' = [status EXCEPT ![pending[r].period] = "deleted"]
  /\ Finish(r)
  /\ UNCHANGED <<archived, row, barred>>

\* An absence decision, a mirror import or a qualification edit.
ChangeEligibility(r, b) ==
  /\ pending[r] = Idle
  /\ barred' = IF b \in barred THEN barred \ {b} ELSE barred \cup {b}
  /\ UNCHANGED <<status, archived, row, pending>>

-------------------------------------------------------------------------------
(* Assignments.  refreshAndListConflicts, inside every committing          *)
(* transaction, reads the period and throws when it is gone.               *)

PeriodExists(p) == status[p] \notin {"absent", "deleted"}

\* marketplace: createAssignment with allowPublishedMarketplace.
CheckCreate(r, p, e, s, marketplace) ==
  /\ status[p] \in (IF marketplace THEN {"open", "published"} ELSE {"open"})
  /\ Plannable(p, e, s, {})
  /\ Begin(r, [op |-> "create", period |-> p, emp |-> e, shift |-> s])
  /\ UNCHANGED <<status, archived, row, barred>>

ApplyCreate(r, i) ==
  /\ pending[r].op = "create"
  /\ ~Used(i)
  /\ LET cmd == pending[r]
         key == ActiveKey(cmd.period, cmd.emp, cmd.shift) IN
       /\ PeriodExists(cmd.period)
       /\ KeyFree(key, i)
       /\ row' = [row EXCEPT ![i] =
                    [period |-> cmd.period, emp |-> cmd.emp,
                     shift |-> cmd.shift, status |-> "active", version |-> 0,
                     slotKey |-> key, ackBy |-> NoOne]]
  /\ Finish(r)
  /\ UNCHANGED <<status, archived, barred>>

\* The client loads the roster; the row's version becomes expectedVersion.
OpenForm(r, i) ==
  /\ Active(i)
  /\ Begin(r, [op |-> "form", id |-> i, read |-> row[i]])
  /\ UNCHANGED <<status, archived, row, barred>>

CheckUpdate_Bug(r, e, s) ==
  /\ pending[r].op = "form"
  /\ LET i == pending[r].id IN
       /\ Active(i)
       /\ Plannable(row[i].period, e, s, {i})
       /\ row[i].version = pending[r].read.version
       /\ pending' = [pending EXCEPT ![r] =
            [op |-> "update", id |-> i, read |-> row[i], emp |-> e, shift |-> s]]
  /\ UNCHANGED <<status, archived, row, barred>>

CheckUpdate(r, e, s) ==
  /\ pending[r].op = "form"
  /\ LET i == pending[r].id IN
       /\ Active(i)
       /\ status[row[i].period] = "open"
       /\ Plannable(row[i].period, e, s, {i})
       /\ row[i].version = pending[r].read.version
       /\ pending' = [pending EXCEPT ![r] =
            [op |-> "update", id |-> i, read |-> row[i], emp |-> e, shift |-> s]]
  /\ UNCHANGED <<status, archived, row, barred>>

RewrittenKeepsKey_Bug(cmd, s) ==
  [row[cmd.id] EXCEPT
     !.emp = cmd.emp, !.version = cmd.read.version + 1, !.ackBy = NoOne]

RewrittenKeepsVersion_Bug(cmd, s) ==
  [row[cmd.id] EXCEPT
     !.emp = cmd.emp, !.ackBy = NoOne,
     !.slotKey = ActiveKey(cmd.read.period, cmd.emp, s)]

RewrittenKeepsAck_Bug(cmd, s) ==
  [row[cmd.id] EXCEPT
     !.emp = cmd.emp, !.version = cmd.read.version + 1,
     !.slotKey = ActiveKey(cmd.read.period, cmd.emp, s)]

\* What an update and a transfer both write: the slot key is computed from
\* the period and, for a transfer, the shift that were read.
Rewritten(cmd, s) ==
  [row[cmd.id] EXCEPT
     !.emp = cmd.emp, !.version = cmd.read.version + 1,
     !.slotKey = ActiveKey(cmd.read.period, cmd.emp, s), !.ackBy = NoOne]

\* UPDATE ... WHERE id = ? AND version = ?: the second call of where() on
\* the builder replaces the earlier condition on the status.
ApplyUpdate(r) ==
  /\ pending[r].op = "update"
  /\ LET cmd == pending[r] IN
       /\ row[cmd.id].version = cmd.read.version
       /\ cmd.read.version < MaxVersion
       /\ PeriodExists(cmd.read.period)
       /\ KeyFree(ActiveKey(cmd.read.period, cmd.emp, cmd.shift), cmd.id)
       /\ row' = [row EXCEPT ![cmd.id] =
                    [Rewritten(cmd, cmd.shift) EXCEPT !.shift = cmd.shift]]
  /\ Finish(r)
  /\ UNCHANGED <<status, archived, barred>>

CheckCancel(r, i) ==
  /\ Active(i)
  /\ status[row[i].period] \in {"open", "published"}
  /\ Begin(r, [op |-> "cancel", id |-> i, read |-> row[i]])
  /\ UNCHANGED <<status, archived, row, barred>>

ApplyCancel_Bug(r) ==
  /\ pending[r].op = "cancel"
  /\ LET cmd == pending[r] IN
       /\ Active(cmd.id)
       /\ row[cmd.id].version = cmd.read.version
       /\ PeriodExists(cmd.read.period)
       /\ row' = [row EXCEPT ![cmd.id] =
                    [@ EXCEPT !.status = "cancelled", !.ackBy = NoOne,
                              !.slotKey = CancelledKey(cmd.id)]]
  /\ Finish(r)
  /\ UNCHANGED <<status, archived, barred>>

ApplyCancel(r) ==
  /\ pending[r].op = "cancel"
  /\ LET cmd == pending[r] IN
       /\ Active(cmd.id)
       /\ row[cmd.id].version = cmd.read.version
       /\ cmd.read.version < MaxVersion
       /\ PeriodExists(cmd.read.period)
       /\ row' = [row EXCEPT ![cmd.id] =
                    [@ EXCEPT !.status = "cancelled", !.ackBy = NoOne,
                              !.version = cmd.read.version + 1,
                              !.slotKey = CancelledKey(cmd.id)]]
  /\ Finish(r)
  /\ UNCHANGED <<status, archived, barred>>

\* transferAssignmentEmployee; the donor is the employee the row shows.
CheckTransfer(r, i, e) ==
  /\ Active(i)
  /\ row[i].emp # e
  /\ status[row[i].period] \in {"open", "published"}
  /\ Available(row[i].period, e, row[i].shift, {i})
  /\ Begin(r, [op |-> "transfer", id |-> i, read |-> row[i], emp |-> e])
  /\ UNCHANGED <<status, archived, row, barred>>

ApplyTransfer(r) ==
  /\ pending[r].op = "transfer"
  /\ LET cmd == pending[r]
         after == [row EXCEPT ![cmd.id] = Rewritten(cmd, cmd.read.shift)] IN
       /\ Active(cmd.id)
       /\ row[cmd.id].emp = cmd.read.emp
       /\ row[cmd.id].version = cmd.read.version
       /\ cmd.read.version < MaxVersion
       /\ PeriodExists(cmd.read.period)
       /\ KeyFree(ActiveKey(cmd.read.period, cmd.emp, cmd.read.shift), cmd.id)
       /\ ~HardConflict(after, cmd.read.period)
       /\ row' = after
  /\ Finish(r)
  /\ UNCHANGED <<status, archived, barred>>

\* acknowledgeAssignment by the employee e the row belonged to when read.
CheckAck(r, i) ==
  /\ Active(i)
  /\ status[row[i].period] \in {"published", "closed"}
  /\ row[i].ackBy = NoOne
  /\ Begin(r, [op |-> "ack", id |-> i, emp |-> row[i].emp])
  /\ UNCHANGED <<status, archived, row, barred>>

\* UPDATE ... WHERE id = ? AND acknowledged_at IS NULL.
ApplyAck(r) ==
  /\ pending[r].op = "ack"
  /\ row[pending[r].id].ackBy = NoOne
  /\ row' = [row EXCEPT ![pending[r].id].ackBy = pending[r].emp]
  /\ Finish(r)
  /\ UNCHANGED <<status, archived, barred>>

-------------------------------------------------------------------------------
PeriodStep(r) ==
  \/ \E p \in Period : CreatePeriod(r, p) \/ CheckTransition(r, p) \/ CheckDelete(r, p)
  \/ ApplyTransition(r)
  \/ ApplyDelete(r)

AssignmentStep(r) ==
  \/ \E p \in Period, e \in Employee, s \in Shift, m \in BOOLEAN :
       CheckCreate(r, p, e, s, m)
  \/ \E i \in AssignmentId :
       ApplyCreate(r, i) \/ OpenForm(r, i) \/ CheckCancel(r, i) \/ CheckAck(r, i)
  \/ \E e \in Employee, s \in Shift : CheckUpdate(r, e, s)
  \/ \E i \in AssignmentId, e \in Employee : CheckTransfer(r, i, e)
  \/ ApplyUpdate(r)
  \/ ApplyCancel(r)
  \/ ApplyTransfer(r)
  \/ ApplyAck(r)

Next ==
  \E r \in Request :
    \/ PeriodStep(r)
    \/ AssignmentStep(r)
    \/ \E b \in Barrable : ChangeEligibility(r, b)
    \/ Abort(r)

Spec == Init /\ [][Next]_vars

-------------------------------------------------------------------------------
TypeOK ==
  /\ status \in [Period -> {"absent", "open", "published", "closed", "deleted"}]
  /\ row \in [AssignmentId -> Row \cup {Unused}]
  /\ archived \subseteq Period
  /\ barred \subseteq Bar
  /\ pending \in [Request -> Commands]

(***************************************************************************)
(* The slot-key column always says what the row says: an active row holds  *)
(* the key of its own period, employee and shift, a cancelled one holds no *)
(* live slot.  The unique index protects slots only as far as this is true *)
(* (updateAssignment does not test the status, so a cancelled row would    *)
(* take a live key back unless cancelling had moved the version on).       *)
(***************************************************************************)
SlotKeyFaithful ==
  \A i \in AssignmentId :
    /\ Active(i) =>
         row[i].slotKey = ActiveKey(row[i].period, row[i].emp, row[i].shift)
    /\ row[i].status = "cancelled" => row[i].slotKey = CancelledKey(i)

(***************************************************************************)
(* No two active assignments give one employee the same shift of a period, *)
(* however many creates, updates, transfers and cancels are in flight      *)
(* (createAssignment, updateAssignment, transferAssignmentEmployee).       *)
(***************************************************************************)
SlotUnique ==
  \A i, j \in AssignmentId :
    (/\ Active(i) /\ Active(j) /\ i # j
     /\ row[i].period = row[j].period)
      => <<row[i].emp, row[i].shift>> # <<row[j].emp, row[j].shift>>

(***************************************************************************)
(* A version names one content: when a request's CAS version still matches *)
(* the row, the row holds the very period, employee, shift and status the  *)
(* request read, so the UPDATE overwrites nothing its author did not see   *)
(* (the version CAS of update, cancel and transfer).                       *)
(***************************************************************************)
Content(a) == <<a.period, a.emp, a.shift, a.status>>

VersionNamesContent ==
  \A r \in Request :
    pending[r].op \in {"form", "update", "cancel", "transfer"} =>
      LET a == row[pending[r].id] IN
        /\ a.status # "unused"
        /\ pending[r].read.version <= a.version
        /\ a.version = pending[r].read.version => Content(a) = Content(pending[r].read)

-------------------------------------------------------------------------------
(* Properties of one planner working alone (a single request at a time),   *)
(* and of documentation that assumes it.                                   *)

(***************************************************************************)
(* An employee never holds two clashing shifts of one period: the overlap  *)
(* gates of create, update and transfer together leave no way in.          *)
(***************************************************************************)
NoDoubleBooking == \A p \in Period : ~DoubleBooked(row, p)

(***************************************************************************)
(* A period changes to published only while it has no hard conflict        *)
(* (transitionPeriod recomputes the conflicts before flipping the status). *)
(***************************************************************************)
PublishIsClean ==
  [][\A p \in Period :
       status[p] = "open" /\ status'[p] = "published" => ~HardConflict(row, p)]_vars

(***************************************************************************)
(* What an assignment says changes only while its period is open, except   *)
(* for a cancellation or a change of employee, which are also possible     *)
(* while it is published (updateAssignment, cancelAssignment,              *)
(* transferAssignmentEmployee): nothing changes in a closed period.        *)
(***************************************************************************)
ChangeRespectsPeriod ==
  [][\A i \in AssignmentId :
       (Used(i) /\ Content(row'[i]) # Content(row[i])) =>
         \/ status[row[i].period] = "open"
         \/ /\ status[row[i].period] = "published"
            /\ row'[i].shift = row[i].shift]_vars

(***************************************************************************)
(* The acknowledgement an active assignment shows is that of the employee  *)
(* who has the shift now (acknowledgeAssignment lets only the owner in, and *)
(* every update and transfer clears it).                                   *)
(***************************************************************************)
AckIsSelf ==
  \A i \in AssignmentId : Active(i) => row[i].ackBy \in {NoOne, row[i].emp}

(***************************************************************************)
(* A deleted period leaves no assignment behind (deletePeriod).            *)
(***************************************************************************)
NoOrphanAssignment ==
  \A i \in AssignmentId : Used(i) => status[row[i].period] # "deleted"

===============================================================================
