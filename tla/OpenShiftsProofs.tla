---------------------------- MODULE OpenShiftsProofs ----------------------------
(***************************************************************************)
(* What OpenShifts guarantees for any number of requests, employees and    *)
(* assignments.                                                            *)
(***************************************************************************)
EXTENDS OpenShifts, TLAPS

Row == [emp : Employee, status : {"active", "cancelled"}]

Op == {Idle, [step |-> "release"]}
        \cup [step : {"claim"}, emp : Employee]
        \cup [step : {"create"}, emp : Employee, auto : BOOLEAN]
        \cup [step : {"link", "undo"}, id : Id, auto : BOOLEAN]

Claimed == [status : {"claimed"}, emp : Employee, asg : Id]

\* Requests that have created an assignment and not yet linked or undone it.
Owns(r, i) == op[r].step \in {"link", "undo"} /\ op[r].id = i

\* Ids in use name existing assignments.
IdsExist ==
  /\ \A r \in Request : op[r].step \in {"link", "undo"} => op[r].id \in DOMAIN rows
  /\ slot.status = "claimed" => slot.asg \in DOMAIN rows

\* Every active assignment is linked to the slot, some request's to settle, or
\* left behind.
Owned ==
  \A i \in DOMAIN rows :
    ActiveRow(i) => Linked(i) \/ i \in left \/ \E r \in Request : Owns(r, i)

-------------------------------------------------------------------------------
(* Types.                                                                  *)

LEMMA OpTypes ==
  ASSUME NEW o \in Op
  PROVE  /\ o.step \in {"claim", "create"} => o.emp \in Employee
         /\ o.step = "create" => o.auto \in BOOLEAN
         /\ o.step \in {"link", "undo"} => o.id \in Id /\ o.auto \in BOOLEAN
  BY DEF Op, Idle

LEMMA AfterFailureType ==
  ASSUME NEW o PROVE AfterFailure(o) \in {Idle, [step |-> "release"]}
  BY DEF AfterFailure

LEMMA SlotTypes ==
  ASSUME TypeOK
  PROVE  /\ slot.status = "pending" => slot.emp \in Employee
         /\ slot.status = "claimed" => slot \in Claimed
         /\ \A s : ReleasedFrom(s) \in {slot, Open}
         /\ \A i : Released(i) \in {slot, Open}
  BY DEF TypeOK, Absent, Open, Gone, Pending, Claimed, ReleasedFrom, Released

LEMMA CancelledRow ==
  ASSUME rows \in Seq(Row), NEW i \in DOMAIN rows,
         NEW new, new = [rows EXCEPT ![i].status = "cancelled"]
  PROVE  /\ new \in Seq(Row) /\ Len(new) = Len(rows) /\ DOMAIN new = DOMAIN rows
         /\ new[i].status = "cancelled"
         /\ \A j \in DOMAIN rows : j # i => new[j] = rows[j]
  <1> DEFINE c == [rows[i] EXCEPT !.status = "cancelled"]
  <1>1. rows[i] \in Row
    OBVIOUS
  <1>2. c \in Row /\ c.status = "cancelled"
    BY <1>1 DEF Row
  <1>3. new = [rows EXCEPT ![i] = c]
    OBVIOUS
  <1> HIDE DEF c
  <1> QED
    BY <1>2, <1>3

LEMMA InitTypeOK == Init => TypeOK
  <1> SUFFICES ASSUME Init PROVE TypeOK
    OBVIOUS
  <1>1. rows \in Seq([emp : Employee, status : {"active", "cancelled"}]) /\ Len(rows) = 0
    BY DEF Init
  <1>2. Len(rows) <= MaxRows
    BY <1>1, ConstantsAssumption
  <1> QED
    BY <1>1, <1>2 DEF Init, TypeOK

\* What CommitClaim makes of a request.
LEMMA CommitClaimOp ==
  ASSUME NEW r \in Request, CommitClaim(r), op \in [Request -> Op]
  PROVE  /\ op'[r].step \notin {"link", "undo"}
         /\ \A q \in Request : q # r => op'[q] = op[q]
  <1> DEFINE o == [step |-> "create", emp |-> op[r].emp, auto |-> TRUE]
  <1>1. op' = [op EXCEPT ![r] = o] \/ op' = [op EXCEPT ![r] = Idle]
    BY DEF CommitClaim
  <1>2. o.step = "create" /\ Idle.step = "idle"
    BY DEF Idle
  <1> HIDE DEF o
  <1> QED
    BY <1>1, <1>2

LEMMA NextTypeOK == TypeOK /\ IdsExist /\ [Next]_vars => TypeOK'
  <1> SUFFICES ASSUME TypeOK, IdsExist, [Next]_vars PROVE TypeOK'
    OBVIOUS
  <1> DEFINE Slots == {Absent, Open, Gone} \cup {Pending(e) : e \in Employee} \cup Claimed
  <1>a. /\ slot \in Slots /\ rows \in Seq(Row) /\ Len(rows) <= MaxRows
        /\ periodOpen \in BOOLEAN /\ op \in [Request -> Op]
        /\ left \subseteq Id /\ abandoned \in BOOLEAN
    BY DEF TypeOK, Row, Op, Claimed
  <1>b. ASSUME slot' \in Slots, rows' \in Seq(Row), Len(rows') <= MaxRows,
               periodOpen' \in BOOLEAN, op' \in [Request -> Op],
               left' \subseteq Id, abandoned' \in BOOLEAN
        PROVE  TypeOK'
    BY <1>b DEF TypeOK, Row, Op, Claimed
  <1>c. Open \in Slots /\ Gone \in Slots /\ \A e \in Employee : Pending(e) \in Slots
    OBVIOUS
  <1>d. Idle \in Op /\ \A o : AfterFailure(o) \in Op
    BY AfterFailureType DEF Op
  <1>e. \A i \in DOMAIN rows :
          /\ [rows EXCEPT ![i].status = "cancelled"] \in Seq(Row)
          /\ Len([rows EXCEPT ![i].status = "cancelled"]) = Len(rows)
    BY <1>a, CancelledRow
  <1>f. ReleasedFrom("pending") \in Slots /\ \A i : Released(i) \in Slots
    BY <1>a, <1>c, SlotTypes
  <1> HIDE DEF Slots
  <1>1. ASSUME NEW r \in Request, Post(r) \/ Discard(r) \/ Reject(r) PROVE TypeOK'
    BY <1>1, <1>a, <1>b, <1>c, <1>f DEF Post, Discard, Reject, hist
  <1>2. ASSUME NEW r \in Request, NEW i \in DOMAIN rows, CancelAssignment(r, i)
        PROVE  TypeOK'
    <2>1. i \in Id
      <3>1. i \in 1 .. Len(rows) /\ Len(rows) \in Nat /\ Len(rows) <= MaxRows
        BY <1>a
      <3> QED
        BY <3>1, ConstantsAssumption DEF Id
    <2> QED
      BY <1>2, <1>a, <1>b, <1>e, <1>f, <2>1 DEF CancelAssignment
  <1>3. ASSUME NEW r \in Request, NEW e \in Employee, ReadClaim(r, e) PROVE TypeOK'
    <2>1. [step |-> "claim", emp |-> e] \in Op
      BY DEF Op
    <2> QED
      BY <1>3, <1>a, <1>b, <2>1 DEF ReadClaim, hist
  <1>4. ASSUME NEW r \in Request, CommitClaim(r) PROVE TypeOK'
    <2>1. op[r].emp \in Employee
      BY <1>4, <1>a, OpTypes DEF CommitClaim
    <2>2. [step |-> "create", emp |-> op[r].emp, auto |-> TRUE] \in Op
      BY <2>1 DEF Op
    <2>3. op' \in [Request -> Op]
      BY <1>4, <1>a, <1>d, <2>2 DEF CommitClaim
    <2> QED
      BY <1>4, <1>a, <1>b, <1>c, <2>1, <2>3 DEF CommitClaim
  <1>5. ASSUME NEW r \in Request, LoseClaim(r) \/ CreateFails(r) PROVE TypeOK'
    BY <1>5, <1>a, <1>b, <1>d DEF LoseClaim, CreateFails, hist
  <1>13. ASSUME NEW r \in Request, UndoFails(r) \/ Die(r) PROVE TypeOK'
    <2>1. op[r].step \in {"link", "undo"} => op[r].id \in Id /\ op[r].auto \in BOOLEAN
      BY <1>a, OpTypes
    <2>2. op[r].step = "create" => op[r].auto \in BOOLEAN
      BY <1>a, OpTypes
    <2>3. Applying(r) \in BOOLEAN
      BY DEF Applying
    <2>4. left' \subseteq Id /\ abandoned' \in BOOLEAN
      BY <1>13, <1>a, <2>1, <2>3 DEF UndoFails, Die
    <2> QED
      BY <1>13, <1>a, <1>b, <1>d, <2>4 DEF UndoFails, Die
  <1>6. ASSUME NEW r \in Request, ReadApprove(r) PROVE TypeOK'
    <2>1. slot.emp \in Employee
      BY <1>6, SlotTypes DEF ReadApprove
    <2>2. [step |-> "create", emp |-> slot.emp, auto |-> FALSE] \in Op
      BY <2>1 DEF Op
    <2> QED
      BY <1>6, <1>a, <1>b, <2>2 DEF ReadApprove, hist
  <1>7. ASSUME NEW r \in Request, Create(r) PROVE TypeOK'
    <2> DEFINE row == [emp |-> op[r].emp, status |-> "active"]
               o   == [step |-> "link", id |-> Len(rows) + 1, auto |-> op[r].auto]
    <2>1. op[r].emp \in Employee /\ op[r].auto \in BOOLEAN
      BY <1>7, <1>a, OpTypes DEF Create
    <2>2. row \in Row
      BY <2>1 DEF Row
    <2>3. Len(rows) + 1 \in Id
      BY <1>7, <1>a, ConstantsAssumption DEF Create, Id
    <2>4. o \in Op
      BY <2>1, <2>3 DEF Op
    <2>5. op' = [op EXCEPT ![r] = o] /\ rows' = Append(rows, row)
      BY <1>7 DEF Create
    <2> HIDE DEF row, o
    <2>6. rows' \in Seq(Row) /\ Len(rows') = Len(rows) + 1
      BY <1>a, <2>2, <2>5
    <2>7. Len(rows') <= MaxRows
      BY <2>3, <2>6 DEF Id
    <2> QED
      BY <1>7, <1>a, <1>b, <2>4, <2>5, <2>6, <2>7 DEF Create, hist
  <1>8. ASSUME NEW r \in Request, Link(r) PROVE TypeOK'
    <2>1. op[r].id \in Id
      BY <1>8, <1>a, OpTypes DEF Link
    <2>2. PICK e \in Employee : slot = Pending(e)
      BY <1>8, <1>a DEF Link, Slots, Absent, Open, Gone, Claimed
    <2>3. slot' \in Claimed
      BY <1>8, <2>1, <2>2 DEF Link, Pending, Claimed
    <2>4. slot' \in Slots
      BY <2>3 DEF Slots
    <2> QED
      BY <1>8, <1>a, <1>b, <1>d, <2>4 DEF Link, hist
  <1>9. ASSUME NEW r \in Request, LinkLost(r) PROVE TypeOK'
    <2>1. op[r].id \in Id /\ op[r].auto \in BOOLEAN
      BY <1>9, <1>a, OpTypes DEF LinkLost
    <2>2. [op[r] EXCEPT !.step = "undo"] \in Op
      BY <1>9, <1>a DEF LinkLost, Op, Idle
    <2>3. op' = [op EXCEPT ![r] = [op[r] EXCEPT !.step = "undo"]]
      BY <1>9 DEF LinkLost
    <2> HIDE DEF Slots
    <2> QED
      BY <1>9, <1>a, <1>b, <2>2, <2>3 DEF LinkLost, hist
  <1>10. ASSUME NEW r \in Request, Undo(r) PROVE TypeOK'
    <2>1. op[r].id \in DOMAIN rows
      BY <1>10 DEF Undo, IdsExist
    <2> QED
      BY <1>10, <1>a, <1>b, <1>d, <1>e, <1>f, <2>1 DEF Undo, hist
  <1>11. ASSUME NEW r \in Request, Release(r) PROVE TypeOK'
    BY <1>11, <1>a, <1>b, <1>d, <1>f DEF Release, hist
  <1>12. CASE TogglePeriod \/ UNCHANGED vars
    BY <1>12, <1>a, <1>b DEF TogglePeriod, vars, hist
  <1> QED
    BY <1>1, <1>2, <1>3, <1>4, <1>5, <1>6, <1>7, <1>8, <1>9, <1>10, <1>11, <1>12, <1>13
       DEF Next, Proceed

-------------------------------------------------------------------------------
(* Ids exist.                                                              *)

LEMMA NextIdsExist == TypeOK /\ IdsExist /\ [Next]_vars => IdsExist'
  <1> SUFFICES ASSUME TypeOK, IdsExist, [Next]_vars PROVE IdsExist'
    OBVIOUS
  <1>a. rows \in Seq(Row) /\ op \in [Request -> Op]
    BY DEF TypeOK, Row, Op
  <1>b. ASSUME DOMAIN rows \subseteq DOMAIN rows',
               \A q \in Request : op'[q].step \in {"link", "undo"} =>
                 \/ op'[q].id \in DOMAIN rows'
                 \/ op'[q].id = op[q].id /\ op[q].step \in {"link", "undo"},
               slot'.status = "claimed" => slot'.asg \in DOMAIN rows' \/ slot' = slot
        PROVE  IdsExist'
    BY <1>b DEF IdsExist
  <1>c. Open.status # "claimed" /\ Gone.status # "claimed"
        /\ \A e : Pending(e).status # "claimed"
    BY DEF Open, Gone, Pending
  <1>d. Idle.step \notin {"link", "undo"} /\ \A o : AfterFailure(o).step \notin {"link", "undo"}
    BY DEF Idle, AfterFailure
  <1>e. \A i \in DOMAIN rows : DOMAIN [rows EXCEPT ![i].status = "cancelled"] = DOMAIN rows
    BY <1>a, CancelledRow
  <1>1. ASSUME NEW r \in Request, Post(r) \/ Discard(r) \/ Reject(r) PROVE IdsExist'
    BY <1>1, <1>b, <1>c, SlotTypes DEF Post, Discard, Reject
  <1>2. ASSUME NEW r \in Request, NEW i \in DOMAIN rows, CancelAssignment(r, i)
        PROVE  IdsExist'
    BY <1>2, <1>b, <1>c, <1>e, SlotTypes DEF CancelAssignment
  <1>3. ASSUME NEW r \in Request, NEW e \in Employee, ReadClaim(r, e) PROVE IdsExist'
    BY <1>3, <1>a, <1>b DEF ReadClaim
  <1>4. ASSUME NEW r \in Request, CommitClaim(r) PROVE IdsExist'
    <2>1. op'[r].step \notin {"link", "undo"} /\ \A q \in Request : q # r => op'[q] = op[q]
      BY <1>4, <1>a, CommitClaimOp
    <2> QED
      BY <1>4, <1>b, <1>c, <2>1 DEF CommitClaim
  <1>5. ASSUME NEW r \in Request, LoseClaim(r) \/ CreateFails(r) \/ UndoFails(r) \/ Die(r)
        PROVE  IdsExist'
    BY <1>5, <1>a, <1>b, <1>d DEF LoseClaim, CreateFails, UndoFails, Die
  <1>6. ASSUME NEW r \in Request, ReadApprove(r) PROVE IdsExist'
    BY <1>6, <1>a, <1>b DEF ReadApprove
  <1>7. ASSUME NEW r \in Request, Create(r) PROVE IdsExist'
    <2>1. /\ DOMAIN rows' = 1 .. Len(rows) + 1
          /\ DOMAIN rows = 1 .. Len(rows) /\ Len(rows) \in Nat
      BY <1>7, <1>a DEF Create
    <2>2. /\ op'[r].id \in DOMAIN rows' /\ slot' = slot
          /\ \A q \in Request : q # r => op'[q] = op[q]
      BY <1>7, <1>a, <2>1 DEF Create
    <2>3. DOMAIN rows \subseteq DOMAIN rows'
      BY <2>1
    <2>4. \A q \in Request : op'[q].step \in {"link", "undo"} =>
            \/ op'[q].id \in DOMAIN rows'
            \/ op'[q].id = op[q].id /\ op[q].step \in {"link", "undo"}
      BY <2>2
    <2> QED
      BY <1>b, <2>2, <2>3, <2>4
  <1>8. ASSUME NEW r \in Request, Link(r) PROVE IdsExist'
    <2>1. op[r].id \in DOMAIN rows
      BY <1>8 DEF Link, IdsExist
    <2>2. slot' = [slot EXCEPT !.status = "claimed", !.asg = op[r].id]
      BY <1>8 DEF Link
    <2>3. slot'.asg = op[r].id
      BY <1>8, <2>2 DEF Link, TypeOK, Absent, Open, Gone, Pending
    <2> QED
      BY <1>8, <1>a, <1>b, <1>d, <2>1, <2>3 DEF Link
  <1>9. ASSUME NEW r \in Request, LinkLost(r) PROVE IdsExist'
    <2>1. op'[r].id = op[r].id /\ \A q \in Request : q # r => op'[q] = op[q]
      BY <1>9, <1>a DEF LinkLost
    <2> QED
      BY <1>9, <1>b, <2>1 DEF LinkLost
  <1>10. ASSUME NEW r \in Request, Undo(r) PROVE IdsExist'
    <2>1. op[r].id \in DOMAIN rows
      BY <1>10 DEF Undo, IdsExist
    <2>2. DOMAIN rows' = DOMAIN rows
      BY <1>10, <1>e, <2>1 DEF Undo
    <2>3. slot' \in {slot, Open}
      BY <1>10, SlotTypes DEF Undo
    <2> QED
      BY <1>10, <1>a, <1>b, <1>c, <1>d, <2>2, <2>3 DEF Undo
  <1>11. ASSUME NEW r \in Request, Release(r) PROVE IdsExist'
    BY <1>11, <1>a, <1>b, <1>c, <1>d, SlotTypes DEF Release
  <1>12. CASE TogglePeriod \/ UNCHANGED vars
    BY <1>12, <1>b DEF TogglePeriod, vars
  <1> QED
    BY <1>1, <1>2, <1>3, <1>4, <1>5, <1>6, <1>7, <1>8, <1>9, <1>10, <1>11, <1>12
       DEF Next, Proceed

-------------------------------------------------------------------------------
(* No active assignment is forgotten.                                      *)

IInv ==
  /\ TypeOK
  /\ IdsExist
  /\ Owned

LEMMA InitIInv == Init => IInv
  <1> SUFFICES ASSUME Init PROVE IInv
    OBVIOUS
  <1>1. DOMAIN rows = {}
    BY DEF Init
  <1>2. IdsExist
    BY DEF Init, IdsExist, Idle, Absent
  <1>3. Owned
    BY <1>1 DEF Owned
  <1> QED
    BY <1>2, <1>3, InitTypeOK DEF IInv

LEMMA NextOwned == IInv /\ [Next]_vars => Owned'
  <1> SUFFICES ASSUME IInv, [Next]_vars PROVE Owned'
    OBVIOUS
  <1>a. rows \in Seq(Row) /\ op \in [Request -> Op] /\ TypeOK /\ IdsExist /\ Owned
    BY DEF IInv, TypeOK, Row, Op
  <1>b. ASSUME rows' = rows, left \subseteq left',
               \A i \in DOMAIN rows : Linked(i) => Linked(i)',
               \A q \in Request : \A i \in DOMAIN rows :
                 Owns(q, i) => Owns(q, i)' \/ Linked(i)' \/ i \in left'
        PROVE  Owned'
    BY <1>a, <1>b DEF Owned, ActiveRow
  <1>c. Idle.step \notin {"link", "undo"} /\ \A o : AfterFailure(o).step \notin {"link", "undo"}
    BY DEF Idle, AfterFailure
  <1>1. ASSUME NEW r \in Request, Post(r) \/ Discard(r) \/ Reject(r)
        PROVE  Owned'
    <2>1. slot.status # "claimed"
      BY <1>1 DEF Post, Discard, Reject, Absent
    <2> QED
      BY <1>1, <1>b, <2>1 DEF Post, Discard, Reject, Linked, Owns, hist
  <1>2. ASSUME NEW r \in Request, NEW i \in DOMAIN rows, CancelAssignment(r, i)
        PROVE  Owned'
    <2>1. /\ DOMAIN rows' = DOMAIN rows /\ rows'[i].status = "cancelled"
          /\ \A j \in DOMAIN rows : j # i => rows'[j] = rows[j]
      BY <1>2, <1>a, CancelledRow DEF CancelAssignment
    <2>2. \A j \in DOMAIN rows : j # i /\ Linked(j) => Linked(j)'
      BY <1>2 DEF CancelAssignment, Linked, Released
    <2>3. op' = op /\ left \subseteq left'
      BY <1>2 DEF CancelAssignment
    <2> QED
      BY <1>a, <2>1, <2>2, <2>3 DEF Owned, ActiveRow, Owns
  <1>3. ASSUME NEW r \in Request, op[r].step \notin {"link", "undo"},
               \A q \in Request : q # r => op'[q] = op[q], UNCHANGED <<rows, left>>,
               slot' = slot \/ slot.status # "claimed"
        PROVE  Owned'
    BY <1>3, <1>a, <1>b DEF Linked, Owns
  <1>4. ASSUME NEW r \in Request,
               \/ \E e \in Employee : ReadClaim(r, e)
               \/ ReadApprove(r) \/ CommitClaim(r) \/ LoseClaim(r) \/ CreateFails(r)
        PROVE  Owned'
    <2>1. /\ op[r].step \notin {"link", "undo"}
          /\ UNCHANGED <<rows, left>>
          /\ slot' = slot \/ slot.status # "claimed"
      <3>1. CASE CommitClaim(r)
        BY <3>1 DEF CommitClaim
      <3>2. CASE ~CommitClaim(r)
        BY <1>4, <3>2 DEF ReadClaim, ReadApprove, LoseClaim, CreateFails, Idle, hist
      <3> QED
        BY <3>1, <3>2
    <2>2. \A q \in Request : q # r => op'[q] = op[q]
      <3>1. CASE CommitClaim(r)
        BY <3>1, <1>a, CommitClaimOp
      <3>2. CASE ~CommitClaim(r)
        BY <1>4, <3>2, <1>a DEF ReadClaim, ReadApprove, LoseClaim, CreateFails
      <3> QED
        BY <3>1, <3>2
    <2> QED
      BY <1>3, <2>1, <2>2
  <1>5. ASSUME NEW r \in Request, Release(r) PROVE Owned'
    BY <1>5, <1>3, <1>a DEF Release, ReleasedFrom, hist
  <1>6. ASSUME NEW r \in Request, Create(r) PROVE Owned'
    <2> DEFINE new == Len(rows) + 1
    <2>1. /\ DOMAIN rows' = DOMAIN rows \cup {new}
          /\ \A j \in DOMAIN rows : rows'[j] = rows[j]
      BY <1>6, <1>a DEF Create
    <2>2. /\ op'[r].step = "link" /\ op'[r].id = new /\ op[r].step = "create"
          /\ \A q \in Request : q # r => op'[q] = op[q]
          /\ UNCHANGED <<slot, left>>
      BY <1>6, <1>a DEF Create, hist
    <2> HIDE DEF new
    <2> QED
      BY <1>a, <2>1, <2>2 DEF Owned, ActiveRow, Owns, Linked
  <1>7. ASSUME NEW r \in Request, Link(r) PROVE Owned'
    <2>0. PICK e \in Employee : slot = Pending(e)
      BY <1>7, <1>a DEF Link, TypeOK, Absent, Open, Gone
    <2>1. slot'.status = "claimed" /\ slot'.asg = op[r].id
      BY <1>7, <2>0 DEF Link, Pending
    <2>2. /\ slot.status = "pending" /\ UNCHANGED <<rows, left>>
          /\ \A q \in Request : q # r => op'[q] = op[q]
      BY <1>7, <1>a DEF Link, hist
    <2> QED
      BY <1>b, <2>1, <2>2 DEF Linked, Owns
  <1>8. ASSUME NEW r \in Request, LinkLost(r) PROVE Owned'
    <2>1. /\ op'[r].id = op[r].id /\ op'[r].step = "undo"
          /\ \A q \in Request : q # r => op'[q] = op[q]
          /\ UNCHANGED <<slot, rows, left>>
      BY <1>8, <1>a DEF LinkLost, Op, Idle, hist
    <2> QED
      BY <1>b, <2>1 DEF Linked, Owns
  <1>9. ASSUME NEW r \in Request, Undo(r) PROVE Owned'
    <2> DEFINE i == op[r].id
    <2>1. i \in DOMAIN rows
      BY <1>9, <1>a DEF Undo, IdsExist
    <2>2. /\ \A q \in Request : q # r => op'[q] = op[q]
          /\ left' = left
      BY <1>9, <1>a DEF Undo, hist
    <2>3. \A q \in Request : \A j \in DOMAIN rows : j # i /\ Owns(q, j) => Owns(q, j)'
      BY <2>2 DEF Owns
    <2>4. CASE ActiveRow(i)
      <3>1. /\ DOMAIN rows' = DOMAIN rows /\ rows'[i].status = "cancelled"
            /\ \A j \in DOMAIN rows : j # i => rows'[j] = rows[j]
        BY <1>9, <1>a, <2>1, <2>4, CancelledRow DEF Undo
      <3>2. \A j \in DOMAIN rows : j # i /\ Linked(j) => Linked(j)'
        BY <1>9, <2>4 DEF Undo, Linked, Released
      <3> QED
        BY <1>a, <2>2, <2>3, <3>1, <3>2 DEF Owned, ActiveRow
    <2>5. CASE ~ActiveRow(i)
      <3>1. UNCHANGED <<rows, slot>>
        BY <1>9, <2>5 DEF Undo
      <3> QED
        BY <1>a, <2>2, <2>3, <2>5, <3>1 DEF Owned, ActiveRow, Linked
    <2> QED
      BY <2>4, <2>5
  <1>10. ASSUME NEW r \in Request, UndoFails(r) \/ Die(r) PROVE Owned'
    <2>1. /\ UNCHANGED <<slot, rows>> /\ left \subseteq left'
          /\ \A q \in Request : q # r => op'[q] = op[q]
      BY <1>10, <1>a DEF UndoFails, Die
    <2>2. \A i \in DOMAIN rows : Owns(r, i) => i \in left'
      BY <1>10 DEF UndoFails, Die, Owns
    <2> QED
      BY <1>b, <2>1, <2>2 DEF Linked, Owns
  <1>11. CASE TogglePeriod \/ UNCHANGED vars
    BY <1>11, <1>b DEF TogglePeriod, vars, hist, Linked, Owns
  <1> QED
    BY <1>1, <1>2, <1>4, <1>5, <1>6, <1>7, <1>8, <1>9, <1>10, <1>11 DEF Next, Proceed

-------------------------------------------------------------------------------
(***************************************************************************)
(* The slot's row, its assignments and every request under way are         *)
(* well-typed in every reachable state; status, claimant and assignment    *)
(* columns always agree (OpenShiftService's updates).                      *)
(***************************************************************************)
THEOREM TypeCorrect == Spec => []TypeOK
  <1> DEFINE T == TypeOK /\ IdsExist
  <1>1. Init => T
    BY InitIInv DEF IInv
  <1>2. T /\ [Next]_vars => T'
    BY NextTypeOK, NextIdsExist
  <1>3. T => TypeOK
    OBVIOUS
  <1> HIDE DEF T
  <1> QED
    BY <1>1, <1>2, <1>3, PTL DEF Spec

(***************************************************************************)
(* However many claims, approvals, rejections and cancellations race, one  *)
(* open shift fills one slot, but for what a request left behind that died *)
(* or was refused its rollback (approveClaim's and applyClaimAsMarket-     *)
(* place's rollback).                                                      *)
(***************************************************************************)
THEOREM FillsOneSlot == Spec => []OneFilling
  <1>1. IInv /\ [Next]_vars => IInv'
    BY NextTypeOK, NextIdsExist, NextOwned DEF IInv
  <1>2. IInv => OneFilling
    BY DEF IInv, Owned, OneFilling, Owns, Idle
  <1> QED
    BY <1>1, <1>2, InitIInv, PTL DEF Spec

(***************************************************************************)
(* A slot that was given to somebody is taken away only together with the  *)
(* assignment, whoever dies or closes the period (releaseToOpen's and      *)
(* releaseClaimedOpenShift's conditions on the status).                    *)
(***************************************************************************)
THEOREM KeptUntilCancelled == Spec => ClaimedUntilCancelled
  <1> DEFINE T == TypeOK /\ IdsExist
             Kept == slot.status = "claimed" /\ slot' # slot =>
                       /\ ActiveRow(slot.asg)
                       /\ rows'[slot.asg].status = "cancelled"
  <1>1. T /\ [Next]_vars => [Kept]_vars
    <2> SUFFICES ASSUME TypeOK, IdsExist, [Next]_vars,
                        slot.status = "claimed", slot' # slot
                 PROVE  /\ ActiveRow(slot.asg)
                        /\ rows'[slot.asg].status = "cancelled"
      OBVIOUS
    <2> DEFINE Cancels(i) ==
          /\ i \in DOMAIN rows
          /\ ActiveRow(i)
          /\ rows' = [rows EXCEPT ![i].status = "cancelled"]
          /\ slot' = Released(i)
    <2>a. ASSUME NEW i, Cancels(i)
          PROVE  ActiveRow(slot.asg) /\ rows'[slot.asg].status = "cancelled"
      <3>1. slot.asg = i
        BY <2>a DEF Released
      <3>2. rows \in Seq(Row)
        BY DEF TypeOK, Row
      <3> QED
        BY <2>a, <3>1, <3>2, CancelledRow
    <2>b. ReleasedFrom("pending") = slot
      BY DEF ReleasedFrom
    <2>1. ASSUME NEW r \in Request, Post(r) \/ Discard(r) \/ Reject(r) \/ Release(r) PROVE FALSE
      BY <2>1, <2>b DEF Post, Discard, Reject, Release, Absent
    <2>2. ASSUME NEW r \in Request, NEW i \in DOMAIN rows, CancelAssignment(r, i) PROVE Cancels(i)
      BY <2>2 DEF CancelAssignment
    <2>3. ASSUME NEW r \in Request, Undo(r) PROVE Cancels(op[r].id)
      BY <2>3 DEF Undo, IdsExist
    <2>4. ASSUME NEW r \in Request, CommitClaim(r) \/ Link(r) PROVE FALSE
      BY <2>4 DEF CommitClaim, Link
    <2>5. ASSUME NEW r \in Request,
                 \/ LoseClaim(r) \/ Create(r) \/ CreateFails(r) \/ LinkLost(r) \/ UndoFails(r)
                 \/ ReadApprove(r) \/ Die(r) \/ \E e \in Employee : ReadClaim(r, e)
          PROVE  FALSE
      BY <2>5 DEF LoseClaim, Create, CreateFails, LinkLost, UndoFails, ReadApprove, Die, ReadClaim
    <2>6. ~TogglePeriod /\ ~UNCHANGED vars
      BY DEF TogglePeriod, vars
    <2> HIDE DEF Cancels
    <2> QED
      BY <2>a, <2>1, <2>2, <2>3, <2>4, <2>5, <2>6 DEF Next, Proceed
  <1>2. Init => T
    BY InitIInv DEF IInv
  <1>3. T /\ [Next]_vars => T'
    BY NextTypeOK, NextIdsExist
  <1> HIDE DEF T
  <1> QED
    BY <1>1, <1>2, <1>3, PTL DEF Spec, ClaimedUntilCancelled

-------------------------------------------------------------------------------
(* No slot is stranded.                                                    *)

\* An assignment that a request has still to settle is its alone, and active
\* unless a planner cancelled it meanwhile.
Settling ==
  /\ \A r \in Request, i \in DOMAIN rows :
       Owns(r, i) => (ActiveRow(i) \/ i \in left) /\ ~Linked(i)
  /\ \A q, r \in Request, i \in DOMAIN rows : Owns(q, i) /\ Owns(r, i) => q = r
  /\ NotStranded

LEMMA NextSettling == IInv /\ Settling /\ [Next]_vars => Settling'
  <1> SUFFICES ASSUME IInv, Settling, [Next]_vars PROVE Settling'
    OBVIOUS
  <1>a. rows \in Seq(Row) /\ op \in [Request -> Op] /\ TypeOK /\ IdsExist
    BY DEF IInv, TypeOK, Row, Op
  \* Steps that make no assignment and link none.
  <1>b. ASSUME DOMAIN rows' = DOMAIN rows,
               \A i \in DOMAIN rows : ActiveRow(i) \/ i \in left =>
                 \/ ActiveRow(i)' \/ i \in left'
                 \/ (\A q \in Request : ~Owns(q, i)') /\ ~Linked(i)',
               \A q \in Request : \A i \in DOMAIN rows : Owns(q, i)' => Owns(q, i),
               slot' = slot \/ slot'.status # "claimed"
        PROVE  Settling'
    <2>1. \A i \in DOMAIN rows : Linked(i)' => Linked(i)
      BY <1>b DEF Linked
    <2>2. NotStranded'
      BY <1>a, <1>b DEF Settling, NotStranded, Linked, IdsExist
    <2> QED
      BY <1>b, <2>1, <2>2 DEF Settling
  <1>c. ASSUME NEW r \in Request, UNCHANGED rows, left \subseteq left',
               \A q \in Request : q # r => op'[q] = op[q],
               op'[r].step \in {"link", "undo"} =>
                 op[r].step \in {"link", "undo"} /\ op'[r].id = op[r].id,
               slot' = slot \/ slot'.status # "claimed"
        PROVE  Settling'
    <2>1. \A q \in Request : \A i \in DOMAIN rows : Owns(q, i)' => Owns(q, i)
      BY <1>c DEF Owns
    <2> QED
      BY <1>b, <1>c, <2>1 DEF ActiveRow
  <1>d. /\ Idle.step \notin {"link", "undo"}
        /\ \A o : AfterFailure(o).step \notin {"link", "undo"}
        /\ Open.status # "claimed" /\ Gone.status # "claimed"
        /\ \A e : Pending(e).status # "claimed"
    BY DEF Idle, AfterFailure, Open, Gone, Pending
  <1>1. ASSUME NEW r \in Request, Post(r) \/ Discard(r) \/ Reject(r) PROVE Settling'
    <2>1. UNCHANGED <<rows, left, op>> /\ op[r] = Idle
      BY <1>1 DEF Post, Discard, Reject, hist
    <2>2. slot' = slot \/ slot' = Open \/ slot' = Gone
      BY <1>1, <1>a, SlotTypes DEF Post, Discard, Reject
    <2> QED
      BY <1>c, <1>d, <2>1, <2>2
  <1>2. ASSUME NEW r \in Request, NEW i \in DOMAIN rows, CancelAssignment(r, i)
        PROVE  Settling'
    <2>1. /\ DOMAIN rows' = DOMAIN rows
          /\ \A j \in DOMAIN rows : j # i => rows'[j] = rows[j]
      BY <1>2, <1>a, CancelledRow DEF CancelAssignment
    <2>2. CASE Linked(i)
      <3>1. slot' = Open /\ op' = op /\ left \subseteq left'
        BY <1>2, <2>2 DEF CancelAssignment, Released, Linked
      <3>2. ~Linked(i)' /\ \A q \in Request : ~Owns(q, i)'
        BY <1>d, <2>2, <3>1 DEF Settling, Linked, Owns
      <3> QED
        BY <1>b, <1>d, <2>1, <3>1, <3>2 DEF ActiveRow, Owns
    <2>3. CASE ~Linked(i)
      <3>1. slot' = slot /\ op' = op /\ left' = left \cup {i}
        BY <1>2, <2>3 DEF CancelAssignment, Released, Linked
      <3> QED
        BY <1>b, <2>1, <3>1 DEF ActiveRow, Owns
    <2> QED
      BY <2>2, <2>3
  <1>3. ASSUME NEW r \in Request, CommitClaim(r) PROVE Settling'
    <2>1. op'[r].step \notin {"link", "undo"} /\ \A q \in Request : q # r => op'[q] = op[q]
      BY <1>3, <1>a, CommitClaimOp
    <2> QED
      BY <1>3, <1>c, <1>d, <2>1 DEF CommitClaim
  <1>4. ASSUME NEW r \in Request,
               \/ \E e \in Employee : ReadClaim(r, e)
               \/ ReadApprove(r) \/ LoseClaim(r) \/ CreateFails(r)
        PROVE  Settling'
    BY <1>4, <1>a, <1>c, <1>d DEF ReadClaim, ReadApprove, LoseClaim, CreateFails, hist
  <1>5. ASSUME NEW r \in Request, Release(r) PROVE Settling'
    BY <1>5, <1>a, <1>c, <1>d, SlotTypes DEF Release, hist
  <1>6. ASSUME NEW r \in Request, Create(r) PROVE Settling'
    <2>0. PICK new : new = Len(rows) + 1
      OBVIOUS
    <2>1. /\ \A j : j \in DOMAIN rows' <=> j \in DOMAIN rows \/ j = new
          /\ \A j \in DOMAIN rows : rows'[j] = rows[j] /\ j # new
          /\ rows'[new].status = "active"
      BY <1>6, <1>a, <2>0 DEF Create
    <2>2. /\ op'[r].id = new /\ op[r].step = "create"
          /\ \A q \in Request : q # r => op'[q] = op[q]
          /\ UNCHANGED <<slot, left>>
      BY <1>6, <1>a, <2>0 DEF Create, hist
    <2>3. ~Linked(new) /\ \A q \in Request : ~Owns(q, new)
      BY <1>a, <2>1 DEF IdsExist, Linked, Owns
    <2>4. \A q \in Request : \A i \in DOMAIN rows : Owns(q, i)' => Owns(q, i)
      BY <2>1, <2>2 DEF Owns
    <2>5. \A q \in Request : Owns(q, new)' => q = r
      BY <2>2, <2>3 DEF Owns
    <2>6. \A i \in DOMAIN rows' : Linked(i)' => Linked(i)
      BY <2>2 DEF Linked
    <2>7. NotStranded'
      BY <1>a, <2>1, <2>2 DEF Settling, NotStranded, ActiveRow, IdsExist
    <2> QED
      BY <2>1, <2>2, <2>3, <2>4, <2>5, <2>6, <2>7 DEF Settling, ActiveRow
  <1>7. ASSUME NEW r \in Request, Link(r) PROVE Settling'
    <2>i. PICK i : i = op[r].id
      OBVIOUS
    <2>0. PICK e \in Employee : slot = Pending(e)
      BY <1>7, <1>a DEF Link, TypeOK, Absent, Open, Gone
    <2>1. slot'.status = "claimed" /\ slot'.asg = i
      BY <1>7, <2>i, <2>0 DEF Link, Pending
    <2>2. /\ UNCHANGED <<rows, left>> /\ op'[r] = Idle
          /\ \A q \in Request : q # r => op'[q] = op[q]
      BY <1>7, <1>a DEF Link, hist
    <2>3. i \in DOMAIN rows /\ Owns(r, i)
      BY <1>7, <1>a, <2>i DEF Link, IdsExist, Owns
    <2>4. \A q \in Request : \A j \in DOMAIN rows :
            Owns(q, j)' => Owns(q, j) /\ q # r
      BY <1>d, <2>2 DEF Owns
    <2>5. \A q \in Request : ~Owns(q, i)'
      BY <2>3, <2>4 DEF Settling
    <2>6. NotStranded'
      BY <2>1, <2>2, <2>3 DEF Settling, NotStranded, ActiveRow
    <2> QED
      BY <2>1, <2>2, <2>4, <2>5, <2>6 DEF Settling, ActiveRow, Linked
  <1>8. ASSUME NEW r \in Request, LinkLost(r) PROVE Settling'
    <2>1. /\ op'[r].id = op[r].id /\ op[r].step = "link"
          /\ \A q \in Request : q # r => op'[q] = op[q]
          /\ UNCHANGED <<slot, rows, left>>
      BY <1>8, <1>a DEF LinkLost, Op, Idle, hist
    <2> QED
      BY <1>c, <2>1
  <1>9. ASSUME NEW r \in Request, Undo(r) PROVE Settling'
    <2>i. PICK i : i = op[r].id
      OBVIOUS
    <2>1. i \in DOMAIN rows /\ Owns(r, i)
      BY <1>9, <1>a, <2>i DEF Undo, IdsExist, Owns
    <2>2. /\ \A q \in Request : q # r => op'[q] = op[q]
          /\ left' = left /\ op'[r].step \notin {"link", "undo"}
      BY <1>9, <1>a, <1>d DEF Undo, hist
    <2>3. CASE ActiveRow(i)
      <3>1. /\ DOMAIN rows' = DOMAIN rows
            /\ \A j \in DOMAIN rows : j # i => rows'[j] = rows[j]
        BY <1>9, <1>a, <2>i, <2>1, <2>3, CancelledRow DEF Undo
      <3>2. slot' = slot /\ ~Linked(i)'
        BY <1>9, <2>i, <2>1, <2>3 DEF Undo, Released, Linked, Settling
      <3>3. \A q \in Request : \A j \in DOMAIN rows : Owns(q, j)' => Owns(q, j) /\ q # r
        BY <2>2 DEF Owns
      <3>4. \A q \in Request : ~Owns(q, i)'
        BY <2>1, <3>3 DEF Settling
      <3> QED
        BY <1>b, <2>2, <3>1, <3>2, <3>3, <3>4 DEF ActiveRow
    <2>4. CASE ~ActiveRow(i)
      <3>1. UNCHANGED <<rows, slot>>
        BY <1>9, <2>i, <2>4 DEF Undo
      <3> QED
        BY <1>c, <2>2, <3>1
    <2> QED
      BY <2>3, <2>4
  <1>10. ASSUME NEW r \in Request, UndoFails(r) \/ Die(r) PROVE Settling'
    BY <1>10, <1>a, <1>c, <1>d DEF UndoFails, Die
  <1>11. CASE TogglePeriod \/ UNCHANGED vars
    <2>1. UNCHANGED <<slot, rows, op, left>>
      BY <1>11 DEF TogglePeriod, vars, hist
    <2> QED
      BY <1>b, <2>1 DEF ActiveRow, Owns
  <1> QED
    BY <1>1, <1>2, <1>3, <1>4, <1>5, <1>6, <1>7, <1>8, <1>9, <1>10, <1>11 DEF Next, Proceed

(***************************************************************************)
(* Cancelling never strands a slot, whatever claims, approvals, rollbacks  *)
(* and deaths are under way: a claimed slot's assignment is active, unless *)
(* it had been cancelled before it was linked                              *)
(* (releaseClaimedOpenShift).                                              *)
(***************************************************************************)
THEOREM NeverStranded == Spec => []NotStranded
  <1> DEFINE S == IInv /\ Settling
  <1>1. Init => S
    <2> SUFFICES ASSUME Init PROVE Settling
      BY InitIInv
    <2>1. DOMAIN rows = {} /\ slot.status = "absent"
      BY DEF Init, Absent
    <2> QED
      BY <2>1 DEF Settling, NotStranded
  <1>2. S /\ [Next]_vars => S'
    BY NextTypeOK, NextIdsExist, NextOwned, NextSettling DEF IInv
  <1>3. S => NotStranded
    BY DEF Settling
  <1> HIDE DEF S
  <1> QED
    BY <1>1, <1>2, <1>3, PTL DEF Spec
===============================================================================
