--------------------------- MODULE DutyRosterProofs ---------------------------
(***************************************************************************)
(* What DutyRoster guarantees for any number of periods, employees,        *)
(* shifts, assignments and concurrent requests.                            *)
(*                                                                         *)
(* The inductive invariant adds one fact to the invariants themselves:     *)
(* slot keys of different rows are different (the unique index).  With the *)
(* faithfulness of the slot key that gives the uniqueness of the slot, and *)
(* the monotonicity of versions makes the version CAS sound.               *)
(***************************************************************************)
EXTENDS DutyRoster, TLAPS

KeysDistinct ==
  \A i, j \in AssignmentId :
    Used(i) /\ Used(j) /\ i # j => row[i].slotKey # row[j].slotKey

\* Requests with a version read an active row.
ReadActive ==
  \A r \in Request :
    pending[r].op \in {"form", "update", "cancel", "transfer"} =>
      pending[r].read.status = "active"

AckTargetsExist ==
  \A r \in Request : pending[r].op = "ack" => Used(pending[r].id)

IInv ==
  /\ TypeOK
  /\ SlotKeyFaithful
  /\ KeysDistinct
  /\ VersionNamesContent
  /\ ReadActive
  /\ AckTargetsExist

-------------------------------------------------------------------------------
(* The fields of a command are those of its operation.                     *)

LEMMA CommandTypes ==
  ASSUME NEW cmd \in Commands
  PROVE  /\ cmd.op = "create" =>
              cmd.period \in Period /\ cmd.emp \in Employee /\ cmd.shift \in Shift
         /\ cmd.op \in {"form", "cancel"} => cmd.id \in AssignmentId /\ cmd.read \in Row
         /\ cmd.op \in {"update", "transfer"} =>
              /\ cmd.id \in AssignmentId /\ cmd.read \in Row
              /\ cmd.emp \in Employee
         /\ cmd.op = "update" => cmd.shift \in Shift
         /\ cmd.op = "ack" => cmd.id \in AssignmentId /\ cmd.emp \in Employee
         /\ cmd.op \in {"transition", "delete"} => cmd.period \in Period
         /\ cmd.op = "transition" => cmd.to \in {"open", "published", "closed"}
  BY DEF Commands, Idle

LEMMA UsedRow ==
  ASSUME TypeOK, NEW i \in AssignmentId, Used(i)
  PROVE  row[i] \in Row
  BY DEF TypeOK, Used, Unused

\* A used row is active or cancelled, and an active row is used.
LEMMA RowStatus ==
  ASSUME TypeOK, NEW i \in AssignmentId
  PROVE  /\ Active(i) => Used(i)
         /\ row[i].status \in {"unused", "active", "cancelled"}
  BY DEF TypeOK, Used, Unused, Active, Row

LEMMA InitIInv == Init => IInv
  <1> SUFFICES ASSUME Init PROVE IInv
    OBVIOUS
  <1>1. TypeOK
    BY DEF Init, TypeOK, Commands
  <1>2. SlotKeyFaithful /\ KeysDistinct
    BY DEF Init, SlotKeyFaithful, KeysDistinct, Active, Used, Unused
  <1>3. VersionNamesContent /\ ReadActive /\ AckTargetsExist
    BY DEF Init, VersionNamesContent, ReadActive, AckTargetsExist, Idle
  <1> QED
    BY <1>1, <1>2, <1>3 DEF IInv
-------------------------------------------------------------------------------
(* The two shapes of a step.                                               *)

(***************************************************************************)
(* A step that writes no row: the request goes idle, or carries off a copy *)
(* of a row as it is now.                                                  *)
(***************************************************************************)
LEMMA KeepRows ==
  ASSUME IInv, NEW r \in Request, NEW cmd \in Commands,
         pending' = [pending EXCEPT ![r] = cmd], row' = row, TypeOK',
         cmd.op \in {"form", "update", "cancel", "transfer"} =>
           Active(cmd.id) /\ cmd.read = row[cmd.id],
         cmd.op = "ack" => Used(cmd.id)
  PROVE  IInv'
  <1>1. SlotKeyFaithful' /\ KeysDistinct'
    BY DEF IInv, SlotKeyFaithful, KeysDistinct, Active, Used
  <1>2. ASSUME NEW q \in Request,
               pending'[q].op \in {"form", "update", "cancel", "transfer"}
        PROVE  /\ row'[pending'[q].id].status # "unused"
               /\ pending'[q].read.version <= row'[pending'[q].id].version
               /\ row'[pending'[q].id].version = pending'[q].read.version =>
                    Content(row'[pending'[q].id]) = Content(pending'[q].read)
    <2>1. CASE q = r
      <3>1. pending'[q] = cmd
        BY <2>1 DEF IInv, TypeOK
      <3>2. cmd.read \in Row /\ cmd.read.version \in Nat
        BY <1>2, <3>1, CommandTypes DEF Row
      <3> QED
        BY <1>2, <3>1, <3>2 DEF Active
    <2>2. CASE q # r
      <3>1. pending'[q] = pending[q]
        BY <2>2 DEF IInv, TypeOK
      <3> QED
        BY <1>2, <3>1 DEF IInv, VersionNamesContent
    <2> QED
      BY <2>1, <2>2
  <1>3. VersionNamesContent'
    BY <1>2 DEF VersionNamesContent, Content
  <1>4. ReadActive'
    BY DEF IInv, TypeOK, ReadActive, Active
  <1>5. AckTargetsExist'
    BY DEF IInv, TypeOK, AckTargetsExist, Used
  <1> QED
    BY <1>1, <1>3, <1>4, <1>5 DEF IInv

(***************************************************************************)
(* A step that writes row i: the new row has a faithful, free slot key,    *)
(* and either a higher version or the content it had.                      *)
(***************************************************************************)
LEMMA WriteRow ==
  ASSUME IInv, NEW r \in Request, NEW i \in AssignmentId, NEW new \in Row,
         row' = [row EXCEPT ![i] = new],
         pending' = [pending EXCEPT ![r] = Idle],
         UNCHANGED <<status, archived, barred>>,
         new.status = "active" =>
           new.slotKey = ActiveKey(new.period, new.emp, new.shift),
         new.status = "cancelled" => new.slotKey = CancelledKey(i),
         KeyFree(new.slotKey, i),
         Used(i) => \/ row[i].version < new.version
                    \/ /\ new.version = row[i].version
                       /\ Content(new) = Content(row[i])
  PROVE  IInv'
  <1>1. TypeOK'
    BY DEF IInv, TypeOK, Commands
  <1>2. /\ row'[i] = new
        /\ new.status \in {"active", "cancelled"}
        /\ \A j \in AssignmentId : j # i => row'[j] = row[j]
    BY DEF IInv, TypeOK, Row
  <1>3. SlotKeyFaithful'
    BY <1>2 DEF IInv, SlotKeyFaithful, Active, ActiveKey, CancelledKey
  <1>4. KeysDistinct'
    BY <1>2 DEF IInv, KeysDistinct, KeyFree, Used
  <1>5. ASSUME NEW q \in Request,
               pending'[q].op \in {"form", "update", "cancel", "transfer"}
        PROVE  /\ row'[pending'[q].id].status # "unused"
               /\ pending'[q].read.version <= row'[pending'[q].id].version
               /\ row'[pending'[q].id].version = pending'[q].read.version =>
                    Content(row'[pending'[q].id]) = Content(pending'[q].read)
    <2>1. q # r /\ pending'[q] = pending[q]
      BY <1>5 DEF IInv, TypeOK, Idle
    <2> DEFINE k == pending[q].id
               v == pending[q].read.version
    <2>2. k \in AssignmentId /\ v \in Nat
      BY <1>5, <2>1, CommandTypes DEF IInv, TypeOK, Row
    <2>3. /\ Used(k)
          /\ v <= row[k].version
          /\ row[k].version = v => Content(row[k]) = Content(pending[q].read)
      BY <1>5, <2>1 DEF IInv, VersionNamesContent, Used
    <2>4. CASE k = i
      <3>1. row[k].version \in Nat /\ new.version \in Nat
        BY <2>2, <2>3, UsedRow DEF IInv, Row
      <3> QED
        BY <1>2, <2>1, <2>2, <2>3, <2>4, <3>1
    <2>5. CASE k # i
      BY <1>2, <2>1, <2>2, <2>3, <2>5 DEF Used
    <2> QED
      BY <2>4, <2>5
  <1>6. VersionNamesContent'
    BY <1>5 DEF VersionNamesContent, Content
  <1>7. ReadActive'
    BY DEF IInv, TypeOK, ReadActive, Idle
  <1>8. AckTargetsExist'
    <2> SUFFICES ASSUME NEW q \in Request, pending'[q].op = "ack"
                 PROVE  row'[pending'[q].id].status # "unused"
      BY DEF AckTargetsExist, Used
    <2>1. pending'[q] = pending[q]
      BY DEF IInv, TypeOK, Idle
    <2>2. pending[q].id \in AssignmentId /\ Used(pending[q].id)
      BY <2>1, CommandTypes DEF IInv, TypeOK, AckTargetsExist
    <2> QED
      BY <1>2, <2>1, <2>2 DEF Used
  <1> QED
    BY <1>1, <1>3, <1>4, <1>6, <1>7, <1>8 DEF IInv

-------------------------------------------------------------------------------
(* One lemma per kind of step.                                             *)

LEMMA PeriodStepIInv ==
  ASSUME IInv, NEW r \in Request, PeriodStep(r)
  PROVE  IInv'
  <1> USE DEF IInv, TypeOK, Begin, Finish
  <1>1. ASSUME NEW p \in Period, CreatePeriod(r, p) PROVE IInv'
    <2>1. TypeOK'
      BY <1>1 DEF CreatePeriod
    <2> QED
      BY <1>1, <2>1 DEF CreatePeriod, SlotKeyFaithful, KeysDistinct,
           VersionNamesContent, ReadActive, AckTargetsExist, Active, Used, Content
  <1>2. ASSUME NEW p \in Period, CheckTransition(r, p) PROVE IInv'
    <2> DEFINE cmd == [op |-> "transition", period |-> p,
                       from |-> status[p], to |-> NextStatus[status[p]]]
    <2>1. cmd \in Commands /\ cmd.op = "transition"
      BY <1>2 DEF CheckTransition, NextStatus, Commands
    <2>2. pending' = [pending EXCEPT ![r] = cmd] /\ UNCHANGED <<status, archived, row, barred>>
      BY <1>2 DEF CheckTransition
    <2>3. TypeOK'
      BY <2>1, <2>2
    <2> HIDE DEF cmd
    <2> QED
      BY <2>1, <2>2, <2>3, KeepRows
  <1>3. ASSUME NEW p \in Period, CheckDelete(r, p) PROVE IInv'
    <2> DEFINE cmd == [op |-> "delete", period |-> p]
    <2>1. cmd \in Commands /\ cmd.op = "delete"
      BY DEF Commands
    <2>2. pending' = [pending EXCEPT ![r] = cmd] /\ UNCHANGED <<status, archived, row, barred>>
      BY <1>3 DEF CheckDelete
    <2>3. TypeOK'
      BY <2>1, <2>2
    <2> HIDE DEF cmd
    <2> QED
      BY <2>1, <2>2, <2>3, KeepRows
  <1>4. ASSUME ApplyTransition(r) \/ ApplyDelete(r) PROVE IInv'
    <2>1. Idle \in Commands /\ Idle.op = "idle"
      BY DEF Commands, Idle
    <2>2. pending' = [pending EXCEPT ![r] = Idle] /\ UNCHANGED <<row, barred>>
      BY <1>4 DEF ApplyTransition, ApplyDelete
    <2>3. pending[r] \in Commands
      OBVIOUS
    <2>4. status' \in [Period -> {"absent", "open", "published", "closed", "deleted"}]
      BY <1>4, <2>3, CommandTypes DEF ApplyTransition, ApplyDelete
    <2>5. archived' \subseteq Period
      BY <1>4, <2>3, CommandTypes DEF ApplyTransition, ApplyDelete
    <2>6. TypeOK'
      BY <2>1, <2>2, <2>4, <2>5
    <2> QED
      BY <2>1, <2>2, <2>6, KeepRows
  <1> QED
    BY <1>1, <1>2, <1>3, <1>4 DEF PeriodStep

\* A validating half: it only records a command built from what it read.
LEMMA CheckStepIInv ==
  ASSUME IInv, NEW r \in Request, NEW cmd \in Commands,
         pending' = [pending EXCEPT ![r] = cmd],
         UNCHANGED <<status, archived, row, barred>>,
         cmd.op \in {"form", "update", "cancel", "transfer"} =>
           Active(cmd.id) /\ cmd.read = row[cmd.id],
         cmd.op = "ack" => Used(cmd.id)
  PROVE  IInv'
  <1>1. TypeOK'
    BY DEF IInv, TypeOK
  <1> QED
    BY <1>1, KeepRows

LEMMA AssignmentCheckIInv ==
  ASSUME IInv, NEW r \in Request,
         \/ \E p \in Period, e \in Employee, s \in Shift, m \in BOOLEAN :
              CheckCreate(r, p, e, s, m)
         \/ \E i \in AssignmentId :
              OpenForm(r, i) \/ CheckCancel(r, i) \/ CheckAck(r, i)
         \/ \E e \in Employee, s \in Shift : CheckUpdate(r, e, s)
         \/ \E i \in AssignmentId, e \in Employee : CheckTransfer(r, i, e)
  PROVE  IInv'
  <1>0. TypeOK
    BY DEF IInv
  <1>1. ASSUME NEW p \in Period, NEW e \in Employee, NEW s \in Shift,
               NEW m \in BOOLEAN, CheckCreate(r, p, e, s, m)
        PROVE  IInv'
    <2> DEFINE cmd == [op |-> "create", period |-> p, emp |-> e, shift |-> s]
    <2>1. cmd \in Commands /\ cmd.op = "create"
      BY DEF Commands
    <2>2. pending' = [pending EXCEPT ![r] = cmd] /\ UNCHANGED <<status, archived, row, barred>>
      BY <1>1 DEF CheckCreate, Begin
    <2> HIDE DEF cmd
    <2> QED
      BY <2>1, <2>2, CheckStepIInv
  <1>2. ASSUME NEW op \in {"form", "cancel"}, NEW i \in AssignmentId, Active(i),
               Begin(r, [op |-> op, id |-> i, read |-> row[i]]),
               UNCHANGED <<status, archived, row, barred>>
        PROVE  IInv'
    <2> DEFINE cmd == [op |-> op, id |-> i, read |-> row[i]]
    <2>1. row[i] \in Row
      BY <1>0, <1>2, UsedRow, RowStatus
    <2>2. cmd \in Commands /\ cmd.op = op /\ cmd.id = i /\ cmd.read = row[i]
      BY <2>1 DEF Commands
    <2>3. pending' = [pending EXCEPT ![r] = cmd]
      BY <1>2 DEF Begin
    <2> HIDE DEF cmd
    <2> QED
      BY <1>2, <2>2, <2>3, CheckStepIInv
  <1>3. ASSUME NEW i \in AssignmentId, OpenForm(r, i) PROVE IInv'
    BY <1>2, <1>3 DEF OpenForm
  <1>4. ASSUME NEW i \in AssignmentId, CheckCancel(r, i) PROVE IInv'
    BY <1>2, <1>4 DEF CheckCancel
  <1>5. ASSUME NEW e \in Employee, NEW s \in Shift, CheckUpdate(r, e, s) PROVE IInv'
    <2> DEFINE i == pending[r].id
               cmd == [op |-> "update", id |-> i, read |-> row[i],
                       emp |-> e, shift |-> s]
    <2>1. pending[r] \in Commands /\ pending[r].op = "form"
      BY <1>0, <1>5 DEF CheckUpdate, TypeOK
    <2>2. i \in AssignmentId
      BY <2>1, CommandTypes
    <2>3. Active(i) /\ row[i] \in Row
      BY <1>0, <1>5, <2>2, UsedRow, RowStatus DEF CheckUpdate
    <2>4. cmd \in Commands /\ cmd.op = "update" /\ cmd.id = i /\ cmd.read = row[i]
      BY <2>2, <2>3 DEF Commands
    <2>5. pending' = [pending EXCEPT ![r] = cmd] /\ UNCHANGED <<status, archived, row, barred>>
      BY <1>5 DEF CheckUpdate
    <2> HIDE DEF i, cmd
    <2> QED
      BY <2>3, <2>4, <2>5, CheckStepIInv
  <1>6. ASSUME NEW i \in AssignmentId, NEW e \in Employee, CheckTransfer(r, i, e)
        PROVE  IInv'
    <2> DEFINE cmd == [op |-> "transfer", id |-> i, read |-> row[i], emp |-> e]
    <2>1. Active(i) /\ row[i] \in Row
      BY <1>0, <1>6, UsedRow, RowStatus DEF CheckTransfer
    <2>2. cmd \in Commands /\ cmd.op = "transfer" /\ cmd.id = i /\ cmd.read = row[i]
      BY <2>1 DEF Commands
    <2>3. pending' = [pending EXCEPT ![r] = cmd] /\ UNCHANGED <<status, archived, row, barred>>
      BY <1>6 DEF CheckTransfer, Begin
    <2> HIDE DEF cmd
    <2> QED
      BY <2>1, <2>2, <2>3, CheckStepIInv
  <1>7. ASSUME NEW i \in AssignmentId, CheckAck(r, i) PROVE IInv'
    <2> DEFINE cmd == [op |-> "ack", id |-> i, emp |-> row[i].emp]
    <2>1. Used(i) /\ row[i] \in Row
      BY <1>0, <1>7, UsedRow, RowStatus DEF CheckAck
    <2>2. cmd \in Commands /\ cmd.op = "ack" /\ cmd.id = i
      BY <2>1 DEF Commands, Row
    <2>3. pending' = [pending EXCEPT ![r] = cmd] /\ UNCHANGED <<status, archived, row, barred>>
      BY <1>7 DEF CheckAck, Begin
    <2> HIDE DEF cmd
    <2> QED
      BY <2>1, <2>2, <2>3, CheckStepIInv
  <1> QED
    BY <1>1, <1>3, <1>4, <1>5, <1>6, <1>7

\* What a request with a version holds, when the version still matches.
LEMMA MatchedRow ==
  ASSUME IInv, NEW r \in Request,
         pending[r].op \in {"update", "cancel", "transfer"},
         row[pending[r].id].version = pending[r].read.version
  PROVE  /\ pending[r].id \in AssignmentId
         /\ Used(pending[r].id)
         /\ row[pending[r].id] \in Row
         /\ row[pending[r].id].version \in Nat
         /\ Content(row[pending[r].id]) = Content(pending[r].read)
         /\ Active(pending[r].id)
  <1>1. pending[r] \in Commands /\ TypeOK
    BY DEF IInv, TypeOK
  <1>2. pending[r].id \in AssignmentId
    BY <1>1, CommandTypes
  <1>3. /\ Used(pending[r].id)
        /\ Content(row[pending[r].id]) = Content(pending[r].read)
    BY DEF IInv, VersionNamesContent, Used
  <1>4. row[pending[r].id] \in Row
    BY <1>1, <1>2, <1>3, UsedRow
  <1>5. Active(pending[r].id)
    BY <1>3 DEF IInv, ReadActive, Active, Content
  <1> QED
    BY <1>2, <1>3, <1>4, <1>5 DEF Row

\* The row an update or a transfer writes fits WriteRow.
LEMMA RewrittenRow ==
  ASSUME IInv, NEW r \in Request, NEW s \in Shift,
         pending[r].op \in {"update", "transfer"},
         row[pending[r].id].version = pending[r].read.version
  PROVE  LET cmd == pending[r]
             new == [Rewritten(cmd, s) EXCEPT !.shift = s] IN
         /\ new \in Row
         /\ new.slotKey = ActiveKey(cmd.read.period, cmd.emp, s)
         /\ new.slotKey = ActiveKey(new.period, new.emp, new.shift)
         /\ new.status = "active"
         /\ row[cmd.id].version < new.version
         /\ s = cmd.read.shift => new = Rewritten(cmd, s)
  <1> DEFINE cmd == pending[r]
             new == [Rewritten(cmd, s) EXCEPT !.shift = s]
             old == row[cmd.id]
  <1>1. old \in Row /\ old.version \in Nat /\ old.status = "active"
        /\ Content(old) = Content(cmd.read)
    BY MatchedRow DEF Active
  <1>2. cmd \in Commands
    BY DEF IInv, TypeOK
  <1>3. cmd.emp \in Employee /\ cmd.read \in Row
    BY <1>2, CommandTypes
  <1>4. /\ cmd.read.period = old.period /\ old.period \in Period
        /\ cmd.read.shift = old.shift
    BY <1>1 DEF Content, Row
  <1>5. ActiveKey(cmd.read.period, cmd.emp, s) \in SlotKeys
    BY <1>3, <1>4 DEF SlotKeys
  <1>6. /\ new.period = old.period /\ new.emp = cmd.emp /\ new.shift = s
        /\ new.status = old.status /\ new.version = cmd.read.version + 1
        /\ new.slotKey = ActiveKey(cmd.read.period, cmd.emp, s)
    BY <1>1 DEF Rewritten, Row
  <1>7. new \in Row
    <2>1. cmd.read.version + 1 \in Nat
      BY <1>3 DEF Row
    <2>2. new = [old EXCEPT !.emp = cmd.emp, !.shift = s, !.ackBy = NoOne,
                   !.version = cmd.read.version + 1,
                   !.slotKey = ActiveKey(cmd.read.period, cmd.emp, s)]
      BY <1>1 DEF Rewritten, Row
    <2> HIDE DEF new, old, cmd
    <2> QED
      BY <1>1, <1>3, <1>5, <2>1, <2>2 DEF Row
  <1>8. old.version < new.version
    BY <1>1, <1>6
  <1>9. /\ new.slotKey = ActiveKey(new.period, new.emp, new.shift)
        /\ new.status = "active"
    BY <1>1, <1>4, <1>6
  <1>10. s = cmd.read.shift => new = Rewritten(cmd, s)
    BY <1>1, <1>4 DEF Rewritten, Row
  <1> HIDE DEF new, old
  <1> QED
    BY <1>6, <1>7, <1>8, <1>9, <1>10 DEF new, old, cmd

\* A cancelled row's key collides with no other row's.
LEMMA CancelledKeyFree ==
  ASSUME TypeOK, SlotKeyFaithful, NEW i \in AssignmentId
  PROVE  KeyFree(CancelledKey(i), i)
  <1> SUFFICES ASSUME NEW j \in AssignmentId \ {i}, Used(j)
               PROVE  row[j].slotKey # CancelledKey(i)
    BY DEF KeyFree
  <1>0. j \in AssignmentId /\ j # i
    OBVIOUS
  <1>1. row[j].status \in {"active", "cancelled"}
    BY <1>0, RowStatus DEF Used
  <1>2. CASE row[j].status = "active"
    <2>1. row[j].slotKey = ActiveKey(row[j].period, row[j].emp, row[j].shift)
      BY <1>0, <1>2 DEF SlotKeyFaithful, Active
    <2>2. row[j].slotKey.tag = "a" /\ CancelledKey(i).tag = "c"
      BY <2>1 DEF ActiveKey, CancelledKey
    <2> QED
      BY <2>2
  <1>3. CASE row[j].status = "cancelled"
    <2>1. row[j].slotKey = CancelledKey(j)
      BY <1>0, <1>3 DEF SlotKeyFaithful
    <2>2. CancelledKey(j).id = j /\ CancelledKey(i).id = i
      BY DEF CancelledKey
    <2> QED
      BY <1>0, <2>1, <2>2
  <1> QED
    BY <1>1, <1>2, <1>3

LEMMA AssignmentApplyIInv ==
  ASSUME IInv, NEW r \in Request,
         \/ \E i \in AssignmentId : ApplyCreate(r, i)
         \/ ApplyUpdate(r) \/ ApplyCancel(r) \/ ApplyTransfer(r) \/ ApplyAck(r)
  PROVE  IInv'
  <1> DEFINE cmd == pending[r]
  <1>0. TypeOK /\ cmd \in Commands /\ row \in [AssignmentId -> Row \cup {Unused}]
    BY DEF IInv, TypeOK
  <1>1. ASSUME NEW i \in AssignmentId, ApplyCreate(r, i) PROVE IInv'
    <2> DEFINE new == [period |-> cmd.period, emp |-> cmd.emp,
                       shift |-> cmd.shift, status |-> "active", version |-> 0,
                       slotKey |-> ActiveKey(cmd.period, cmd.emp, cmd.shift),
                       ackBy |-> NoOne]
    <2>1. cmd.period \in Period /\ cmd.emp \in Employee /\ cmd.shift \in Shift
      BY <1>0, <1>1, CommandTypes DEF ApplyCreate
    <2>2. new \in Row
      BY <2>1 DEF Row, SlotKeys
    <2>3. /\ new.status = "active"
          /\ new.slotKey = ActiveKey(new.period, new.emp, new.shift)
      OBVIOUS
    <2>4. /\ ~Used(i) /\ KeyFree(new.slotKey, i)
          /\ row' = [row EXCEPT ![i] = new]
          /\ pending' = [pending EXCEPT ![r] = Idle]
          /\ UNCHANGED <<status, archived, barred>>
      BY <1>1 DEF ApplyCreate, Finish
    <2> HIDE DEF new, cmd
    <2> QED
      BY <2>2, <2>3, <2>4, WriteRow
  <1>2. ASSUME NEW s \in Shift, cmd.op \in {"update", "transfer"},
               row[cmd.id].version = cmd.read.version,
               KeyFree(ActiveKey(cmd.read.period, cmd.emp, s), cmd.id),
               row' = [row EXCEPT ![cmd.id] =
                         [Rewritten(cmd, s) EXCEPT !.shift = s]],
               Finish(r), UNCHANGED <<status, archived, barred>>
        PROVE  IInv'
    <2> DEFINE new == [Rewritten(cmd, s) EXCEPT !.shift = s]
    <2>1. cmd.id \in AssignmentId
      BY <1>2, MatchedRow
    <2>2. /\ new \in Row
          /\ new.slotKey = ActiveKey(cmd.read.period, cmd.emp, s)
          /\ new.slotKey = ActiveKey(new.period, new.emp, new.shift)
          /\ new.status = "active"
          /\ row[cmd.id].version < new.version
      BY <1>2, RewrittenRow
    <2>3. pending' = [pending EXCEPT ![r] = Idle]
      BY <1>2 DEF Finish
    <2>4. /\ KeyFree(new.slotKey, cmd.id)
          /\ row' = [row EXCEPT ![cmd.id] = new]
      BY <1>2, <2>2
    <2> HIDE DEF new, cmd
    <2> QED
      BY <1>2, <2>1, <2>2, <2>3, <2>4, WriteRow
  <1>3. CASE ApplyUpdate(r)
    <2>1. cmd.op \in {"update", "transfer"} /\ cmd.shift \in Shift
      BY <1>0, <1>3, CommandTypes DEF ApplyUpdate
    <2> QED
      BY <1>2, <1>3, <2>1 DEF ApplyUpdate
  <1>4. CASE ApplyTransfer(r)
    <2>1. /\ cmd.op \in {"update", "transfer"}
          /\ row[cmd.id].version = cmd.read.version
      BY <1>4 DEF ApplyTransfer
    <2>2. cmd.read.shift \in Shift
      BY <1>0, <2>1, CommandTypes DEF Row
    <2>3. [Rewritten(cmd, cmd.read.shift) EXCEPT !.shift = cmd.read.shift]
            = Rewritten(cmd, cmd.read.shift)
      BY <2>1, <2>2, RewrittenRow
    <2> QED
      BY <1>2, <1>4, <2>1, <2>2, <2>3 DEF ApplyTransfer
  <1>5. CASE ApplyCancel(r)
    <2> DEFINE old == row[cmd.id]
               new == [old EXCEPT !.status = "cancelled", !.ackBy = NoOne,
                                  !.version = cmd.read.version + 1,
                                  !.slotKey = CancelledKey(cmd.id)]
    <2>1. /\ cmd.op = "cancel" /\ old.version = cmd.read.version
          /\ row' = [row EXCEPT ![cmd.id] = new]
          /\ pending' = [pending EXCEPT ![r] = Idle]
          /\ UNCHANGED <<status, archived, barred>>
      BY <1>5 DEF ApplyCancel, Finish
    <2>2. cmd.id \in AssignmentId /\ old \in Row /\ old.version \in Nat
      BY <2>1, MatchedRow
    <2>3. CancelledKey(cmd.id) \in SlotKeys
      BY <2>2 DEF SlotKeys
    <2>4. /\ new.status = "cancelled" /\ new.slotKey = CancelledKey(cmd.id)
          /\ new.version = old.version + 1
      BY <2>1, <2>2 DEF Row
    <2>5. old.version + 1 \in Nat /\ old.version < old.version + 1
      BY <2>2
    <2>6. new \in Row
      <3>1. new = [old EXCEPT !.status = "cancelled", !.ackBy = NoOne,
                              !.version = old.version + 1,
                              !.slotKey = CancelledKey(cmd.id)]
        BY <2>1
      <3> HIDE DEF new, old, cmd
      <3> QED
        BY <2>2, <2>3, <2>5, <3>1 DEF Row
    <2>7. KeyFree(CancelledKey(cmd.id), cmd.id)
      BY <2>2, <1>0, CancelledKeyFree DEF IInv
    <2>8. old.version < new.version
      BY <2>4, <2>5
    <2> HIDE DEF new, cmd
    <2> QED
      BY <2>1, <2>2, <2>4, <2>6, <2>7, <2>8, WriteRow
  <1>6. CASE ApplyAck(r)
    <2> DEFINE old == row[cmd.id]
               new == [old EXCEPT !.ackBy = cmd.emp]
    <2>1. /\ cmd.op = "ack"
          /\ row' = [row EXCEPT ![cmd.id] = new]
          /\ pending' = [pending EXCEPT ![r] = Idle]
          /\ UNCHANGED <<status, archived, barred>>
      BY <1>6 DEF ApplyAck, Finish
    <2>2. cmd.id \in AssignmentId /\ cmd.emp \in Employee
      BY <1>0, <2>1, CommandTypes
    <2>3. Used(cmd.id)
      BY <2>1 DEF IInv, AckTargetsExist
    <2>4. old \in Row
      BY <1>0, <2>2, <2>3, UsedRow
    <2>5. new \in Row
      BY <2>2, <2>4 DEF Row
    <2>6. /\ new.status = old.status /\ new.slotKey = old.slotKey
          /\ new.version = old.version /\ Content(new) = Content(old)
          /\ new.period = old.period /\ new.emp = old.emp /\ new.shift = old.shift
      BY <2>4 DEF Row, Content
    <2>7. KeyFree(new.slotKey, cmd.id)
      BY <2>2, <2>3, <2>6 DEF IInv, KeysDistinct, KeyFree
    <2>8. /\ new.status = "active" =>
               new.slotKey = ActiveKey(new.period, new.emp, new.shift)
          /\ new.status = "cancelled" => new.slotKey = CancelledKey(cmd.id)
      BY <2>2, <2>6 DEF IInv, SlotKeyFaithful, Active
    <2> HIDE DEF new, cmd
    <2> QED
      BY <2>1, <2>2, <2>5, <2>6, <2>7, <2>8, WriteRow
  <1> QED
    BY <1>1, <1>3, <1>4, <1>5, <1>6

LEMMA NextIInv == IInv /\ [Next]_vars => IInv'
  <1> SUFFICES ASSUME IInv, [Next]_vars PROVE IInv'
    OBVIOUS
  <1>1. CASE UNCHANGED vars
    BY <1>1 DEF vars, IInv, TypeOK, SlotKeyFaithful, KeysDistinct,
         VersionNamesContent, ReadActive, AckTargetsExist, Active, Used, Content
  <1>2. ASSUME NEW r \in Request, AssignmentStep(r) PROVE IInv'
    BY <1>2, AssignmentApplyIInv, AssignmentCheckIInv DEF AssignmentStep
  <1>3. ASSUME NEW r \in Request, NEW b \in Barrable, ChangeEligibility(r, b)
        PROVE  IInv'
    <2>1. TypeOK'
      BY <1>3, BoundAssumption DEF ChangeEligibility, IInv, TypeOK
    <2> QED
      BY <1>3, <2>1 DEF ChangeEligibility, IInv, SlotKeyFaithful, KeysDistinct,
           VersionNamesContent, ReadActive, AckTargetsExist, Active, Used, Content
  <1>4. ASSUME NEW r \in Request, Abort(r) PROVE IInv'
    <2>1. Idle \in Commands /\ Idle.op = "idle"
      BY DEF Commands, Idle
    <2> QED
      BY <1>4, <2>1, CheckStepIInv DEF Abort, Finish
  <1> QED
    BY <1>1, <1>2, <1>3, <1>4, PeriodStepIInv DEF Next

LEMMA SpecIInv == Spec => []IInv
  BY InitIInv, NextIInv, PTL DEF Spec

-------------------------------------------------------------------------------
(***************************************************************************)
(* Every reachable state is well typed: every command in flight and every  *)
(* stored row has the fields its operation and its status need.            *)
(***************************************************************************)
THEOREM TypeCorrect == Spec => []TypeOK
  BY SpecIInv, PTL DEF IInv

(***************************************************************************)
(* The slot key always says what the row says, for any number of           *)
(* concurrent requests.                                                    *)
(***************************************************************************)
THEOREM SlotKeysFaithful == Spec => []SlotKeyFaithful
  BY SpecIInv, PTL DEF IInv

(***************************************************************************)
(* No employee is given the same shift of a period twice, for any number   *)
(* of concurrent requests: faithful keys that differ name different slots. *)
(***************************************************************************)
THEOREM SlotsUnique == Spec => []SlotUnique
  <1>1. ASSUME IInv, NEW i \in AssignmentId, NEW j \in AssignmentId, i # j,
               Active(i), Active(j), row[i].period = row[j].period,
               row[i].emp = row[j].emp, row[i].shift = row[j].shift
        PROVE  FALSE
    <2>1. row[i].slotKey = row[j].slotKey
      BY <1>1 DEF IInv, SlotKeyFaithful
    <2> QED
      BY <1>1, <2>1, RowStatus DEF IInv, KeysDistinct
  <1>2. IInv => SlotUnique
    BY <1>1 DEF SlotUnique
  <1> QED
    BY <1>2, SpecIInv, PTL

(***************************************************************************)
(* A version that matches names the content its reader saw, so no update,  *)
(* cancellation or transfer overwrites a change its author did not see.    *)
(***************************************************************************)
THEOREM VersionsNameContent == Spec => []VersionNamesContent
  BY SpecIInv, PTL DEF IInv

-------------------------------------------------------------------------------
(***************************************************************************)
(* What the validations of DutyRoster guarantee when requests do not       *)
(* overlap, for any number of periods, employees, shifts and assignments.  *)
(*                                                                         *)
(* With one request at a time, what it found when it validated still holds *)
(* when it commits (Checked): nobody writes in between.  This is what the  *)
(* invariants rest on, and what fails as soon as there are two.            *)
(***************************************************************************)
OneRequest == \A r, q \in Request : r = q

\* What the validating half of cmd's operation has made sure of.
Checked(cmd) ==
  /\ cmd.op = "create" => ~Overlaps(cmd.period, cmd.emp, cmd.shift, {})
  /\ cmd.op \in {"form", "update", "cancel", "transfer"} =>
       Active(cmd.id) /\ cmd.read = row[cmd.id]
  /\ cmd.op = "update" =>
       /\ status[cmd.read.period] = "open"
       /\ ~Overlaps(cmd.read.period, cmd.emp, cmd.shift, {cmd.id})
  /\ cmd.op = "cancel" => status[cmd.read.period] \in {"open", "published"}
  /\ cmd.op = "transfer" =>
       /\ status[cmd.read.period] \in {"open", "published"}
       /\ ~Overlaps(cmd.read.period, cmd.emp, cmd.read.shift, {cmd.id})
  /\ cmd.op = "ack" => Active(cmd.id) /\ cmd.emp = row[cmd.id].emp
  /\ cmd.op = "transition" /\ cmd.to = "published" => ~HardConflict(row, cmd.period)
  /\ cmd.op = "delete" => ~\E i \in AssignmentId : Used(i) /\ row[i].period = cmd.period

AllChecked == \A r \in Request : Checked(pending[r])

AInv ==
  /\ IInv
  /\ AllChecked
  /\ NoDoubleBooking
  /\ AckIsSelf
  /\ NoOrphanAssignment

-------------------------------------------------------------------------------
(* What was checked still holds.                                           *)

LEMMA IdleChecked == Checked(Idle)
  BY DEF Checked, Idle

\* A step that carries off cmd, or forgets what it had.
LEMMA StepChecked ==
  ASSUME OneRequest, IInv, NEW r \in Request, NEW cmd,
         pending' = [pending EXCEPT ![r] = cmd], Checked(cmd)'
  PROVE  AllChecked'
  <1> SUFFICES ASSUME NEW q \in Request PROVE Checked(pending[q])'
    BY DEF AllChecked
  <1>1. q = r
    BY DEF OneRequest
  <1>2. pending'[q] = cmd
    BY <1>1 DEF IInv, TypeOK
  <1> QED
    BY <1>2 DEF Checked

LEMMA FinishChecked ==
  ASSUME OneRequest, IInv, NEW r \in Request, Finish(r)
  PROVE  AllChecked'
  <1>1. Checked(Idle)'
    BY DEF Checked, Idle
  <1> QED
    BY <1>1, StepChecked DEF Finish

LEMMA CheckedNext ==
  ASSUME OneRequest, AInv, NEW r \in Request,
         \/ PeriodStep(r) \/ AssignmentStep(r) \/ Abort(r)
         \/ \E b \in Barrable : ChangeEligibility(r, b)
  PROVE  AllChecked'
  <1>0. IInv /\ TypeOK /\ AllChecked
    BY DEF AInv, IInv
  <1>1. CASE \/ Abort(r) \/ ApplyTransition(r) \/ ApplyDelete(r)
             \/ \E i \in AssignmentId : ApplyCreate(r, i)
             \/ ApplyUpdate(r) \/ ApplyCancel(r) \/ ApplyTransfer(r) \/ ApplyAck(r)
    <2>1. Finish(r)
      BY <1>1 DEF Abort, ApplyTransition, ApplyDelete, ApplyCreate, ApplyUpdate,
                  ApplyCancel, ApplyTransfer, ApplyAck
    <2> QED
      BY <1>0, <2>1, FinishChecked
  <1>2. CASE \/ \E p \in Period : CreatePeriod(r, p)
             \/ \E b \in Barrable : ChangeEligibility(r, b)
    <2>1. pending[r] = Idle /\ pending' = pending
      BY <1>2 DEF CreatePeriod, ChangeEligibility
    <2>2. pending' = [pending EXCEPT ![r] = Idle]
      BY <1>0, <2>1 DEF TypeOK
    <2>3. Checked(Idle)'
      BY DEF Checked, Idle
    <2> QED
      BY <1>0, <2>2, <2>3, StepChecked
  <1>3. ASSUME NEW p \in Period, CheckTransition(r, p) PROVE AllChecked'
    <2>0. PICK cmd : cmd = [op |-> "transition", period |-> p,
                            from |-> status[p], to |-> NextStatus[status[p]]]
      OBVIOUS
    <2>1. pending' = [pending EXCEPT ![r] = cmd] /\ UNCHANGED <<row, barred>>
      BY <1>3, <2>0 DEF CheckTransition, Begin
    <2>2. cmd.to = "published" => ~HardConflict(row, cmd.period)
      BY <1>3, <2>0 DEF CheckTransition
    <2>3. HardConflict(row, cmd.period)' = HardConflict(row, cmd.period)
      BY <2>1 DEF HardConflict, DoubleBooked, RowsOf
    <2>4. Checked(cmd)'
      BY <2>0, <2>2, <2>3 DEF Checked
    <2> QED
      BY <1>0, <2>1, <2>4, StepChecked
  <1>4. ASSUME NEW p \in Period, CheckDelete(r, p) PROVE AllChecked'
    <2>0. PICK cmd : cmd = [op |-> "delete", period |-> p]
      OBVIOUS
    <2>1. pending' = [pending EXCEPT ![r] = cmd]
      BY <1>4, <2>0 DEF CheckDelete, Begin
    <2>2. Checked(cmd)'
      BY <1>4, <2>0 DEF CheckDelete, Checked, Used
    <2> QED
      BY <1>0, <2>1, <2>2, StepChecked
  <1>5. ASSUME NEW p \in Period, NEW e \in Employee, NEW s \in Shift,
               NEW m \in BOOLEAN, CheckCreate(r, p, e, s, m)
        PROVE  AllChecked'
    <2>0. PICK cmd : cmd = [op |-> "create", period |-> p, emp |-> e, shift |-> s]
      OBVIOUS
    <2>1. pending' = [pending EXCEPT ![r] = cmd]
      BY <1>5, <2>0 DEF CheckCreate, Begin
    <2>2. ~Overlaps(cmd.period, cmd.emp, cmd.shift, {})'
      BY <1>5, <2>0 DEF CheckCreate, Plannable, Available, Overlaps, RowsOf
    <2>3. Checked(cmd)'
      BY <2>0, <2>2 DEF Checked
    <2> QED
      BY <1>0, <2>1, <2>3, StepChecked
  <1>6. ASSUME NEW i \in AssignmentId, OpenForm(r, i) \/ CheckCancel(r, i)
        PROVE  AllChecked'
    <2>0. PICK cmd : cmd = [op   |-> IF OpenForm(r, i) THEN "form" ELSE "cancel",
                            id   |-> i, read |-> row[i]]
      OBVIOUS
    <2>1. pending' = [pending EXCEPT ![r] = cmd]
      BY <1>6, <2>0 DEF OpenForm, CheckCancel, Begin
    <2>2. /\ cmd.op \in {"form", "cancel"} /\ cmd.id = i /\ cmd.read = row[i]
          /\ cmd.op = "cancel" => CheckCancel(r, i)
      BY <1>6, <2>0
    <2>3. Active(i) /\ UNCHANGED <<status, row>>
      BY <1>6 DEF OpenForm, CheckCancel
    <2>4. Checked(cmd)'
      BY <2>2, <2>3 DEF CheckCancel, Checked, Active
    <2> QED
      BY <1>0, <2>1, <2>4, StepChecked
  <1>7. ASSUME NEW e \in Employee, NEW s \in Shift, CheckUpdate(r, e, s)
        PROVE  AllChecked'
    <2>0. PICK i, cmd : /\ i = pending[r].id
                        /\ cmd = [op |-> "update", id |-> i, read |-> row[i],
                                  emp |-> e, shift |-> s]
      OBVIOUS
    <2>1. /\ pending' = [pending EXCEPT ![r] = cmd]
          /\ UNCHANGED <<status, row>>
          /\ Active(i) /\ status[row[i].period] = "open"
          /\ ~Overlaps(row[i].period, e, s, {i})
      BY <1>7, <2>0 DEF CheckUpdate, Plannable, Available
    <2>2. Overlaps(row[i].period, e, s, {i})' = Overlaps(row[i].period, e, s, {i})
      BY <2>1 DEF Overlaps, RowsOf
    <2>3. Checked(cmd)'
      BY <2>0, <2>1, <2>2 DEF Checked, Active
    <2> QED
      BY <1>0, <2>1, <2>3, StepChecked
  <1>8. ASSUME NEW i \in AssignmentId, NEW e \in Employee, CheckTransfer(r, i, e)
        PROVE  AllChecked'
    <2>0. PICK cmd : cmd = [op |-> "transfer", id |-> i, read |-> row[i], emp |-> e]
      OBVIOUS
    <2>1. /\ pending' = [pending EXCEPT ![r] = cmd]
          /\ UNCHANGED <<status, row>>
          /\ Active(i) /\ status[row[i].period] \in {"open", "published"}
          /\ ~Overlaps(row[i].period, e, row[i].shift, {i})
      BY <1>8, <2>0 DEF CheckTransfer, Begin, Available
    <2>2. Overlaps(row[i].period, e, row[i].shift, {i})'
            = Overlaps(row[i].period, e, row[i].shift, {i})
      BY <2>1 DEF Overlaps, RowsOf
    <2>3. Checked(cmd)'
      BY <2>0, <2>1, <2>2 DEF Checked, Active
    <2> QED
      BY <1>0, <2>1, <2>3, StepChecked
  <1>9. ASSUME NEW i \in AssignmentId, CheckAck(r, i) PROVE AllChecked'
    <2>0. PICK cmd : cmd = [op |-> "ack", id |-> i, emp |-> row[i].emp]
      OBVIOUS
    <2>1. pending' = [pending EXCEPT ![r] = cmd] /\ row' = row /\ Active(i)
      BY <1>9, <2>0 DEF CheckAck, Begin
    <2>2. Checked(cmd)'
      BY <2>0, <2>1 DEF Checked, Active
    <2> QED
      BY <1>0, <2>1, <2>2, StepChecked
  <1> QED
    BY <1>1, <1>2, <1>3, <1>4, <1>5, <1>6, <1>7, <1>8, <1>9
    DEF PeriodStep, AssignmentStep

-------------------------------------------------------------------------------
(* The invariants.                                                         *)

\* A row that is written where it overlaps no other one of its employee.
LEMMA WriteKeeps ==
  ASSUME AInv, NEW i \in AssignmentId, NEW new \in Row,
         row' = [row EXCEPT ![i] = new], status' = status,
         new.status = "active" => ~Overlaps(new.period, new.emp, new.shift, {i}),
         new.status = "active" => new.ackBy \in {NoOne, new.emp},
         status[new.period] # "deleted"
  PROVE  NoDoubleBooking' /\ AckIsSelf' /\ NoOrphanAssignment'
  <1>1. /\ row'[i] = new
        /\ \A j \in AssignmentId : j # i => row'[j] = row[j]
    BY DEF AInv, IInv, TypeOK
  <1>2. AckIsSelf'
    BY <1>1 DEF AInv, AckIsSelf, Active
  <1>3. NoOrphanAssignment'
    BY <1>1 DEF AInv, NoOrphanAssignment, Used
  <1>4. ASSUME NEW p \in Period, NEW j \in RowsOf(row', p), NEW k \in RowsOf(row', p),
               j # k, row'[j].emp = row'[k].emp,
               <<row'[j].shift, row'[k].shift>> \in Clash
        PROVE  FALSE
    <2>1. /\ j \in AssignmentId /\ k \in AssignmentId
          /\ row'[j].status = "active" /\ row'[j].period = p
          /\ row'[k].status = "active" /\ row'[k].period = p
      BY <1>4 DEF RowsOf
    <2>2. CASE j = i
      <3>1. k \in RowsOf(row, p) \ {i} /\ row[k].emp = new.emp
            /\ <<new.shift, row[k].shift>> \in Clash
            /\ new.status = "active" /\ new.period = p
        BY <1>1, <1>4, <2>1, <2>2 DEF RowsOf
      <3> QED
        BY <3>1 DEF Overlaps
    <2>3. CASE k = i
      <3>1. j \in RowsOf(row, p) \ {i} /\ row[j].emp = new.emp
            /\ <<row[j].shift, new.shift>> \in Clash
            /\ new.status = "active" /\ new.period = p
        BY <1>1, <1>4, <2>1, <2>3 DEF RowsOf
      <3>2. row[j] \in Row
        BY <2>1, <1>1, <2>3, <1>4 DEF AInv, IInv, TypeOK, Unused
      <3>3. <<new.shift, row[j].shift>> \in Clash
        BY <3>1, <3>2, ClashAssumption DEF Row
      <3> QED
        BY <3>1, <3>3 DEF Overlaps
    <2>4. CASE j # i /\ k # i
      <3>1. j \in RowsOf(row, p) /\ k \in RowsOf(row, p)
        BY <1>1, <2>1, <2>4 DEF RowsOf
      <3> QED
        BY <1>1, <1>4, <2>1, <2>4, <3>1 DEF AInv, NoDoubleBooking, DoubleBooked
    <2> QED
      BY <2>2, <2>3, <2>4
  <1>5. NoDoubleBooking'
    BY <1>4 DEF NoDoubleBooking, DoubleBooked
  <1> QED
    BY <1>2, <1>3, <1>5

\* Without a write, only the deletion of a period matters.
LEMMA RowsKept ==
  ASSUME AInv, row' = row,
         \A p \in Period : status'[p] = "deleted" =>
           \/ status[p] = "deleted"
           \/ ~\E i \in AssignmentId : Used(i) /\ row[i].period = p
  PROVE  NoDoubleBooking' /\ AckIsSelf' /\ NoOrphanAssignment'
  <1>1. NoDoubleBooking' /\ AckIsSelf'
    BY DEF AInv, NoDoubleBooking, DoubleBooked, RowsOf, AckIsSelf, Active
  <1>2. ASSUME NEW i \in AssignmentId, Used(i) PROVE row[i].period \in Period
    BY <1>2, UsedRow DEF AInv, IInv, Row
  <1>3. NoOrphanAssignment'
    BY <1>2 DEF AInv, NoOrphanAssignment, Used
  <1> QED
    BY <1>1, <1>3

LEMMA PeriodStepKeeps ==
  ASSUME AInv, NEW r \in Request, PeriodStep(r)
  PROVE  NoDoubleBooking' /\ AckIsSelf' /\ NoOrphanAssignment'
  <1> DEFINE cmd == pending[r]
  <1>0. TypeOK /\ cmd \in Commands /\ Checked(cmd)
    BY DEF AInv, IInv, TypeOK, AllChecked
  <1>1. row' = row
    BY DEF PeriodStep, CreatePeriod, CheckTransition, CheckDelete, ApplyTransition, ApplyDelete
  <1>2. CASE \E p \in Period : CreatePeriod(r, p) \/ CheckTransition(r, p) \/ CheckDelete(r, p)
    <2>1. \A p \in Period : status'[p] = "deleted" => status[p] = "deleted"
      BY <1>0, <1>2 DEF CreatePeriod, CheckTransition, CheckDelete, TypeOK
    <2> QED
      BY <1>1, <2>1, RowsKept
  <1>3. CASE ApplyTransition(r)
    <2>1. cmd.period \in Period /\ cmd.to \in {"open", "published", "closed"}
          /\ status' = [status EXCEPT ![cmd.period] = cmd.to]
      BY <1>0, <1>3, CommandTypes DEF ApplyTransition
    <2>2. \A p \in Period : status'[p] = "deleted" => status[p] = "deleted"
      BY <1>0, <2>1 DEF TypeOK
    <2> QED
      BY <1>1, <2>2, RowsKept
  <1>4. CASE ApplyDelete(r)
    <2>1. /\ cmd.period \in Period
          /\ status' = [status EXCEPT ![cmd.period] = "deleted"]
          /\ ~\E i \in AssignmentId : Used(i) /\ row[i].period = cmd.period
      BY <1>0, <1>4, CommandTypes DEF ApplyDelete, Checked
    <2>2. \A p \in Period : p # cmd.period => status'[p] = status[p]
      BY <1>0, <2>1 DEF TypeOK
    <2> QED
      BY <1>1, <2>1, <2>2, RowsKept
  <1> QED
    BY <1>2, <1>3, <1>4 DEF PeriodStep

LEMMA ApplyKeeps ==
  ASSUME AInv, NEW r \in Request,
         \/ \E i \in AssignmentId : ApplyCreate(r, i)
         \/ ApplyUpdate(r) \/ ApplyCancel(r) \/ ApplyTransfer(r) \/ ApplyAck(r)
  PROVE  NoDoubleBooking' /\ AckIsSelf' /\ NoOrphanAssignment'
  <1> DEFINE cmd == pending[r]
  <1>0. TypeOK /\ IInv /\ cmd \in Commands /\ Checked(cmd)
    BY DEF AInv, IInv, TypeOK, AllChecked
  <1>1. ASSUME NEW i \in AssignmentId, ApplyCreate(r, i)
        PROVE  NoDoubleBooking' /\ AckIsSelf' /\ NoOrphanAssignment'
    <2> DEFINE new == [period |-> cmd.period, emp |-> cmd.emp,
                       shift |-> cmd.shift, status |-> "active", version |-> 0,
                       slotKey |-> ActiveKey(cmd.period, cmd.emp, cmd.shift),
                       ackBy |-> NoOne]
    <2>1. cmd.period \in Period /\ cmd.emp \in Employee /\ cmd.shift \in Shift
      BY <1>0, <1>1, CommandTypes DEF ApplyCreate
    <2>2. new \in Row
      BY <2>1 DEF Row, SlotKeys
    <2>3. /\ row' = [row EXCEPT ![i] = new] /\ status' = status
          /\ status[new.period] # "deleted"
      BY <1>1 DEF ApplyCreate, PeriodExists
    <2>4. ~Overlaps(new.period, new.emp, new.shift, {i})
      BY <1>0, <1>1 DEF ApplyCreate, Checked, Overlaps
    <2>5. new.ackBy \in {NoOne, new.emp}
      OBVIOUS
    <2> HIDE DEF new, cmd
    <2> QED
      BY <2>2, <2>3, <2>4, <2>5, WriteKeeps
  <1>2. ASSUME NEW s \in Shift, cmd.op \in {"update", "transfer"},
               row[cmd.id].version = cmd.read.version,
               ~Overlaps(cmd.read.period, cmd.emp, s, {cmd.id}),
               PeriodExists(cmd.read.period),
               row' = [row EXCEPT ![cmd.id] =
                         [Rewritten(cmd, s) EXCEPT !.shift = s]],
               status' = status
        PROVE  NoDoubleBooking' /\ AckIsSelf' /\ NoOrphanAssignment'
    <2> DEFINE new == [Rewritten(cmd, s) EXCEPT !.shift = s]
    <2>1. /\ cmd.id \in AssignmentId /\ row[cmd.id] \in Row
          /\ Content(row[cmd.id]) = Content(cmd.read)
      BY <1>0, <1>2, MatchedRow
    <2>2. new \in Row
      BY <1>0, <1>2, RewrittenRow
    <2>3. /\ new.period = cmd.read.period /\ new.emp = cmd.emp
          /\ new.shift = s /\ new.ackBy = NoOne
      BY <2>1 DEF Rewritten, Row, Content
    <2> HIDE DEF new, cmd
    <2>4. row' = [row EXCEPT ![cmd.id] = new]
      BY <1>2 DEF new
    <2>5. ~Overlaps(new.period, new.emp, new.shift, {cmd.id})
      BY <1>2, <2>3 DEF Overlaps
    <2>6. status[new.period] # "deleted" /\ status' = status
      BY <1>2, <2>3 DEF PeriodExists
    <2>7. new.ackBy \in {NoOne, new.emp}
      BY <2>3
    <2> QED
      BY <2>1, <2>2, <2>4, <2>5, <2>6, <2>7, WriteKeeps
  <1>3. CASE ApplyUpdate(r)
    <2>1. cmd.op = "update" /\ cmd.shift \in Shift /\ cmd.read = row[cmd.id]
      BY <1>0, <1>3, CommandTypes DEF ApplyUpdate, Checked
    <2> QED
      BY <1>0, <1>2, <1>3, <2>1 DEF ApplyUpdate, Checked
  <1>4. CASE ApplyTransfer(r)
    <2>1. /\ cmd.op \in {"update", "transfer"} /\ cmd.op = "transfer"
          /\ row[cmd.id].version = cmd.read.version
      BY <1>4 DEF ApplyTransfer
    <2>2. cmd.read.shift \in Shift
      BY <1>0, <2>1, CommandTypes DEF Row
    <2>3. [Rewritten(cmd, cmd.read.shift) EXCEPT !.shift = cmd.read.shift]
            = Rewritten(cmd, cmd.read.shift)
      BY <1>0, <2>1, <2>2, RewrittenRow
    <2> QED
      BY <1>0, <1>2, <1>4, <2>1, <2>2, <2>3 DEF ApplyTransfer, Checked
  <1>5. CASE ApplyCancel(r) \/ ApplyAck(r)
    <2> DEFINE old == row[cmd.id]
    <2>1. cmd.id \in AssignmentId /\ Active(cmd.id)
      BY <1>0, <1>5, CommandTypes DEF ApplyCancel, ApplyAck, Checked
    <2>2. old \in Row /\ Used(cmd.id) /\ status[old.period] # "deleted"
      BY <1>0, <2>1, UsedRow, RowStatus DEF AInv, NoOrphanAssignment
    <2>3. CASE ApplyCancel(r)
      <3> DEFINE new == [old EXCEPT !.status = "cancelled", !.ackBy = NoOne,
                                    !.version = cmd.read.version + 1,
                                    !.slotKey = CancelledKey(cmd.id)]
      <3>1. row' = [row EXCEPT ![cmd.id] = new] /\ status' = status
        BY <2>3 DEF ApplyCancel
      <3>2. cmd.read = old
        BY <1>0, <2>3 DEF ApplyCancel, Checked
      <3>3. old.version + 1 \in Nat /\ CancelledKey(cmd.id) \in SlotKeys
        BY <2>1, <2>2 DEF Row, SlotKeys
      <3>4. new.status = "cancelled" /\ new.period = old.period
        BY <2>2 DEF Row
      <3>5. new \in Row
        BY <2>2, <3>2, <3>3 DEF Row
      <3> HIDE DEF new, old, cmd
      <3> QED
        BY <2>1, <2>2, <3>1, <3>4, <3>5, WriteKeeps
    <2>4. CASE ApplyAck(r)
      <3> DEFINE new == [old EXCEPT !.ackBy = cmd.emp]
      <3>1. row' = [row EXCEPT ![cmd.id] = new] /\ status' = status
        BY <2>4 DEF ApplyAck
      <3>2. cmd.emp = old.emp /\ cmd.emp \in Employee
        BY <1>0, <2>4, CommandTypes DEF ApplyAck, Checked
      <3>3. /\ new \in Row /\ new.ackBy = new.emp
            /\ new.period = old.period /\ new.emp = old.emp
            /\ new.shift = old.shift /\ new.status = old.status
        BY <2>2, <3>2 DEF Row
      <3>4. ~Overlaps(old.period, old.emp, old.shift, {cmd.id})
        <4>1. old.period \in Period /\ cmd.id \in RowsOf(row, old.period)
          BY <2>1, <2>2 DEF Row, RowsOf, Active
        <4>2. ~DoubleBooked(row, old.period)
          BY <4>1 DEF AInv, NoDoubleBooking
        <4> QED
          BY <4>1, <4>2 DEF Overlaps, DoubleBooked
      <3> HIDE DEF new, old, cmd
      <3> QED
        BY <2>1, <2>2, <3>1, <3>3, <3>4, WriteKeeps
    <2> QED
      BY <1>5, <2>3, <2>4
  <1> QED
    BY <1>1, <1>3, <1>4, <1>5

LEMMA InitAInv == Init => AInv
  <1> SUFFICES ASSUME Init PROVE AInv
    OBVIOUS
  <1>1. AllChecked
    BY IdleChecked DEF Init, AllChecked
  <1>2. NoDoubleBooking /\ AckIsSelf /\ NoOrphanAssignment
    BY DEF Init, NoDoubleBooking, DoubleBooked, RowsOf, AckIsSelf,
           NoOrphanAssignment, Active, Used, Unused
  <1> QED
    BY <1>1, <1>2, InitIInv DEF AInv

LEMMA NextAInv == OneRequest /\ AInv /\ [Next]_vars => AInv'
  <1> SUFFICES ASSUME OneRequest, AInv, [Next]_vars PROVE AInv'
    OBVIOUS
  <1>1. IInv'
    BY NextIInv DEF AInv
  <1>2. CASE UNCHANGED vars
    <2>1. AllChecked'
      <3> SUFFICES ASSUME NEW q \in Request PROVE Checked(pending[q])'
        BY DEF AllChecked
      <3>0. PICK cmd : cmd = pending[q]
        OBVIOUS
      <3>1. Checked(cmd) /\ pending'[q] = cmd
        BY <1>2, <3>0 DEF vars, AInv, AllChecked
      <3>2. UNCHANGED <<status, row, barred>>
        BY <1>2 DEF vars
      <3>3. HardConflict(row, cmd.period)' = HardConflict(row, cmd.period)
        BY <3>2 DEF HardConflict, DoubleBooked, RowsOf
      <3>4. Checked(cmd)'
        BY <3>1, <3>2, <3>3 DEF Checked, Overlaps, RowsOf, Active, Used
      <3> QED
        BY <3>1, <3>4
    <2>2. NoDoubleBooking' /\ AckIsSelf' /\ NoOrphanAssignment'
      BY <1>2, RowsKept DEF vars
    <2> QED
      BY <1>1, <2>1, <2>2 DEF AInv
  <1>3. ASSUME NEW r \in Request,
               \/ PeriodStep(r) \/ AssignmentStep(r) \/ Abort(r)
               \/ \E b \in Barrable : ChangeEligibility(r, b)
        PROVE  AInv'
    <2>1. AllChecked'
      BY <1>3, CheckedNext
    <2>2. CASE PeriodStep(r)
      BY <1>1, <2>1, <2>2, PeriodStepKeeps DEF AInv
    <2>3. CASE \/ \E i \in AssignmentId : ApplyCreate(r, i)
               \/ ApplyUpdate(r) \/ ApplyCancel(r) \/ ApplyTransfer(r) \/ ApplyAck(r)
      BY <1>1, <2>1, <2>3, ApplyKeeps DEF AInv
    <2>4. CASE ~PeriodStep(r) /\ row' = row /\ status' = status
      BY <1>1, <2>1, <2>4, RowsKept DEF AInv
    <2> QED
      BY <1>3, <2>2, <2>3, <2>4
      DEF AssignmentStep, CheckCreate, OpenForm, CheckCancel, CheckAck, CheckUpdate,
          CheckTransfer, Abort, ChangeEligibility
  <1> QED
    BY <1>2, <1>3 DEF Next

LEMMA SpecAInv == OneRequest => (Spec => []AInv)
  <1> SUFFICES ASSUME OneRequest PROVE Spec => []AInv
    OBVIOUS
  <1>1. AInv /\ [Next]_vars => AInv'
    BY NextAInv
  <1> QED
    BY <1>1, InitAInv, PTL DEF Spec

-------------------------------------------------------------------------------
(***************************************************************************)
(* An employee never holds two clashing shifts of one period, as long as   *)
(* requests do not overlap (assertNoOverlapConflict in create, update and  *)
(* transfer).                                                              *)
(***************************************************************************)
THEOREM NeverDoubleBooked == OneRequest => (Spec => []NoDoubleBooking)
  BY SpecAInv, PTL DEF AInv

(***************************************************************************)
(* The acknowledgement an active assignment shows is its own employee's,   *)
(* as long as requests do not overlap (acknowledgeAssignment).             *)
(***************************************************************************)
THEOREM AcknowledgedBySelf == OneRequest => (Spec => []AckIsSelf)
  BY SpecAInv, PTL DEF AInv

(***************************************************************************)
(* A deleted period leaves no assignment behind, as long as requests do    *)
(* not overlap (deletePeriod).                                             *)
(***************************************************************************)
THEOREM NoneOrphaned == OneRequest => (Spec => []NoOrphanAssignment)
  BY SpecAInv, PTL DEF AInv

(***************************************************************************)
(* A period changes to published only without a hard conflict, as long as  *)
(* requests do not overlap (transitionPeriod).                             *)
(***************************************************************************)
THEOREM PublishedClean == OneRequest => (Spec => PublishIsClean)
  <1> DEFINE Clean(p) ==
        status[p] = "open" /\ status'[p] = "published" => ~HardConflict(row, p)
  <1> SUFFICES ASSUME OneRequest PROVE Spec => PublishIsClean
    OBVIOUS
  <1>1. ASSUME AInv, [Next]_vars PROVE [\A p \in Period : Clean(p)]_vars
    <2> SUFFICES ASSUME NEW p \in Period, status[p] = "open", status'[p] = "published"
                 PROVE  ~HardConflict(row, p)
      OBVIOUS
    <2>0. TypeOK
      BY <1>1 DEF AInv, IInv
    <2>1. PICK r \in Request : ApplyTransition(r)
      <3>1. status' # status
        OBVIOUS
      <3>2. PICK r \in Request : PeriodStep(r)
        BY <1>1, <3>1 DEF Next, vars, AssignmentStep, Abort, ChangeEligibility,
             CheckCreate, ApplyCreate, OpenForm, CheckUpdate, ApplyUpdate, CheckCancel,
             ApplyCancel, CheckTransfer, ApplyTransfer, CheckAck, ApplyAck
      <3>3. ASSUME NEW q \in Period, CreatePeriod(r, q) PROVE FALSE
        BY <2>0, <3>3 DEF CreatePeriod, TypeOK
      <3>4. ~ApplyDelete(r)
        <4> SUFFICES ASSUME ApplyDelete(r) PROVE FALSE
          OBVIOUS
        <4>1. pending[r] \in Commands
          BY <2>0 DEF TypeOK
        <4> QED
          BY <2>0, <4>1, CommandTypes DEF ApplyDelete, TypeOK
      <3> QED
        BY <3>1, <3>2, <3>3, <3>4 DEF PeriodStep, CheckTransition, CheckDelete
    <2> DEFINE cmd == pending[r]
    <2>2. cmd \in Commands /\ Checked(cmd)
      BY <1>1, <2>0 DEF TypeOK, AInv, AllChecked
    <2>3. /\ cmd.op = "transition" /\ cmd.period \in Period
          /\ status' = [status EXCEPT ![cmd.period] = cmd.to]
      BY <2>1, <2>2, CommandTypes DEF ApplyTransition
    <2>4. cmd.period = p /\ cmd.to = "published"
      BY <2>0, <2>3 DEF TypeOK
    <2> QED
      BY <2>2, <2>3, <2>4 DEF Checked
  <1> QED
    BY <1>1, SpecAInv, PTL DEF Spec, PublishIsClean

(***************************************************************************)
(* What an assignment says changes only as its period allows, as long as   *)
(* requests do not overlap (updateAssignment, cancelAssignment,            *)
(* transferAssignmentEmployee).                                            *)
(***************************************************************************)
THEOREM ChangesRespectPeriod == OneRequest => (Spec => ChangeRespectsPeriod)
  <1> DEFINE Kept(i) ==
        (Used(i) /\ Content(row'[i]) # Content(row[i])) =>
          \/ status[row[i].period] = "open"
          \/ /\ status[row[i].period] = "published"
             /\ row'[i].shift = row[i].shift
  <1> SUFFICES ASSUME OneRequest PROVE Spec => ChangeRespectsPeriod
    OBVIOUS
  <1>1. ASSUME AInv, [Next]_vars PROVE [\A i \in AssignmentId : Kept(i)]_vars
    <2> SUFFICES ASSUME NEW i \in AssignmentId, Used(i),
                        Content(row'[i]) # Content(row[i])
                 PROVE  \/ status[row[i].period] = "open"
                        \/ /\ status[row[i].period] = "published"
                           /\ row'[i].shift = row[i].shift
      OBVIOUS
    <2>0. TypeOK /\ row[i] \in Row
      BY <1>1, UsedRow DEF AInv, IInv
    <2>1. row' # row
      BY DEF Content
    <2>2. PICK r \in Request :
            \/ \E j \in AssignmentId : ApplyCreate(r, j)
            \/ ApplyUpdate(r) \/ ApplyCancel(r) \/ ApplyTransfer(r) \/ ApplyAck(r)
      BY <1>1, <2>1 DEF Next, vars, PeriodStep, AssignmentStep, Abort, ChangeEligibility,
           CreatePeriod, CheckTransition, CheckDelete, ApplyTransition, ApplyDelete,
           CheckCreate, OpenForm, CheckUpdate, CheckCancel, CheckTransfer, CheckAck
    <2> DEFINE cmd == pending[r]
    <2>3. cmd \in Commands /\ Checked(cmd)
      BY <1>1, <2>0 DEF TypeOK, AInv, AllChecked
    <2>4. ASSUME NEW j \in AssignmentId, ApplyCreate(r, j) PROVE FALSE
      BY <2>0, <2>4 DEF ApplyCreate, TypeOK
    <2>5. ~ApplyAck(r)
      <3> SUFFICES ASSUME ApplyAck(r) PROVE FALSE
        OBVIOUS
      <3>1. row' = [row EXCEPT ![cmd.id].ackBy = cmd.emp]
        BY DEF ApplyAck
      <3>2. CASE i = cmd.id
        <4>1. row'[i] = [row[i] EXCEPT !.ackBy = cmd.emp]
          BY <2>0, <3>1, <3>2 DEF TypeOK
        <4> QED
          BY <2>0, <4>1 DEF Content, Row
      <3>3. CASE i # cmd.id
        BY <2>0, <3>1, <3>3 DEF TypeOK
      <3> QED
        BY <3>2, <3>3
    <2>6. CASE ApplyUpdate(r)
      <3>1. i = cmd.id
        BY <2>0, <2>6 DEF ApplyUpdate, TypeOK
      <3> QED
        BY <2>3, <2>6, <3>1 DEF ApplyUpdate, Checked
    <2>7. CASE ApplyCancel(r)
      <3>1. i = cmd.id
        BY <2>0, <2>7 DEF ApplyCancel, TypeOK
      <3>2. row'[i].shift = row[i].shift
        BY <2>0, <2>7, <3>1 DEF ApplyCancel, TypeOK, Row
      <3> QED
        BY <2>3, <2>7, <3>1, <3>2 DEF ApplyCancel, Checked
    <2>8. CASE ApplyTransfer(r)
      <3>1. i = cmd.id
        BY <2>0, <2>8 DEF ApplyTransfer, TypeOK
      <3>2. row'[i].shift = row[i].shift
        BY <2>0, <2>8, <3>1 DEF ApplyTransfer, Rewritten, TypeOK, Row
      <3> QED
        BY <2>3, <2>8, <3>1, <3>2 DEF ApplyTransfer, Checked
    <2> QED
      BY <2>2, <2>4, <2>5, <2>6, <2>7, <2>8
  <1> QED
    BY <1>1, SpecAInv, PTL DEF Spec, ChangeRespectsPeriod
===============================================================================
