------------------------- MODULE PeriodLifecycleProofs -------------------------
(***************************************************************************)
(* What PeriodLifecycle guarantees for any number of requests and          *)
(* snapshots: it implements PeriodCycle, and a closed period's snapshot    *)
(* reference is never dangling.                                            *)
(***************************************************************************)
EXTENDS PeriodLifecycle, TLAPS, WellFoundedInduction

\* An open transaction moves along the cycle and its snapshot fits the move.
Aligned ==
  \A r \in Request :
    /\ pending[r].step \in {"read", "captured", "inserted"} =>
         pending[r].to = NextStatus[pending[r].from]
    /\ pending[r].step \in {"captured", "inserted"} =>
         /\ pending[r].to # "open"
         /\ pending[r].to = "closed" <=> pending[r].snap.kind = "close"

\* Ids drawn by open transactions are nobody else's.
Fresh ==
  /\ \A i \in Id : Stored(i) => i < nextId
  /\ \A r \in Request : pending[r].step = "inserted" =>
       pending[r].id < nextId /\ ~Stored(pending[r].id)
  /\ \A q, r \in Request :
       /\ pending[q].step = "inserted"
       /\ pending[r].step = "inserted"
       /\ pending[q].id = pending[r].id
       => q = r

\* A retention run holds old rows only, and never the one referred to.
Retained ==
  /\ \A i \in aged : Stored(i)
  /\ pruner # NoPrune => pruner.left \subseteq aged /\ closeRef \notin pruner.left

IInv ==
  /\ TypeOK
  /\ Aligned
  /\ Fresh
  /\ Retained
  /\ CloseRefStored

-------------------------------------------------------------------------------
(* Types.                                                                  *)

LEMMA TransactionTypes ==
  ASSUME NEW t \in Transaction
  PROVE  /\ t.step \in {"read", "captured", "inserted"} =>
              t.from \in Status /\ t.to \in Status /\ t.seen \in Nat
         /\ t.step \in {"captured", "inserted"} => t.snap \in Snapshot
         /\ t.step = "inserted" => t.id \in Id
         /\ t.step = "delete" => t.from = "open" /\ t.to = "deleted"
  BY DEF Transaction, Idle

LEMMA LatestCloseType == LatestClose \in Id \cup {NULL}
  <1>1. Newest(Closes) \subseteq Id
    BY DEF Newest, Closes
  <1>2. CASE Newest(Closes) = {}
    BY <1>2 DEF LatestClose, First
  <1>3. CASE Newest(Closes) # {}
    BY <1>1, <1>3 DEF LatestClose, First
  <1> QED
    BY <1>2, <1>3

LEMMA InitTypeOK == Init => TypeOK
  <1> SUFFICES ASSUME Init PROVE TypeOK
    OBVIOUS
  <1>1. nextId \in 1 .. MaxSnapshot + 1
    BY BoundsAssumption DEF Init
  <1>2. pending \in [Request -> Transaction]
    BY DEF Init, Transaction
  <1>3. snaps \in [Id -> Snapshot \cup {Missing}]
    BY DEF Init
  <1> QED
    BY <1>1, <1>2, <1>3 DEF Init, TypeOK

LEMMA NextTypeOK == TypeOK /\ [Next]_vars => TypeOK'
  <1> SUFFICES ASSUME TypeOK, [Next]_vars PROVE TypeOK'
    OBVIOUS
  <1> USE DEF TypeOK
  <1>0. Idle \in Transaction
    BY DEF Transaction
  <1>1. ASSUME NEW r \in Request, CreatePeriod(r) \/ Edit(r) PROVE TypeOK'
    BY <1>1 DEF CreatePeriod, Edit, Status
  <1>2. ASSUME NEW r \in Request, ReadStatus(r) PROVE TypeOK'
    <2> DEFINE t == [step |-> "read", from |-> status,
                     to |-> NextStatus[status], seen |-> Len(audit)]
    <2>1. t \in Transaction
      BY <1>2 DEF ReadStatus, Transaction, Status, NextStatus
    <2> HIDE DEF t
    <2> QED
      BY <1>2, <2>1 DEF ReadStatus, t
  <1>3. ASSUME NEW r \in Request, Capture(r) PROVE TypeOK'
    <2> DEFINE t == pending[r]
               s == [kind   |-> IF t.to = "closed" THEN "close" ELSE "publish",
                     prev   |-> IF t.to = "closed" THEN LatestClose ELSE NULL,
                     roster |-> roster]
               u == [step |-> "captured", from |-> t.from, to |-> t.to,
                     seen |-> t.seen, snap |-> s]
    <2>1. s \in Snapshot
      BY LatestCloseType DEF Snapshot
    <2>2. t \in Transaction /\ t.step = "read"
      BY <1>3 DEF Capture
    <2>3. t.from \in Status /\ t.to \in Status /\ t.seen \in Nat
      BY <2>2, TransactionTypes
    <2> HIDE DEF s
    <2>4. u \in Transaction
      BY <2>1, <2>3 DEF Transaction
    <2>5. pending' = [pending EXCEPT ![r] = u]
      BY <1>3 DEF Capture, s
    <2> HIDE DEF u
    <2> QED
      BY <1>3, <2>4, <2>5 DEF Capture
  <1>4. ASSUME NEW r \in Request, InsertSnapshot(r) PROVE TypeOK'
    <2> DEFINE t == pending[r]
               u == [step |-> "inserted", from |-> t.from, to |-> t.to,
                     seen |-> t.seen, snap |-> t.snap, id |-> nextId]
    <2>1. t \in Transaction /\ t.step = "captured"
      BY <1>4 DEF InsertSnapshot
    <2>2. t.from \in Status /\ t.to \in Status /\ t.seen \in Nat /\ t.snap \in Snapshot
      BY <2>1, TransactionTypes
    <2>3. nextId \in Id /\ nextId' \in 1 .. MaxSnapshot + 1
      BY <1>4, BoundsAssumption DEF InsertSnapshot, Id
    <2>4. u \in Transaction
      BY <2>2, <2>3 DEF Transaction
    <2>5. pending' = [pending EXCEPT ![r] = u]
      BY <1>4 DEF InsertSnapshot
    <2> HIDE DEF u
    <2> QED
      BY <1>4, <2>3, <2>4, <2>5 DEF InsertSnapshot
  <1>5. ASSUME NEW r \in Request, CommitSnapshot(r) PROVE TypeOK'
    <2> DEFINE t == pending[r]
    <2>1. t \in Transaction /\ t.step = "inserted"
      BY <1>5 DEF CommitSnapshot
    <2>2. t.from \in Status /\ t.to \in Status /\ t.snap \in Snapshot /\ t.id \in Id
      BY <2>1, TransactionTypes
    <2>3. audit' \in Seq([from : Status, to : Status \cup {"deleted"},
                          snapshot : Id \cup {NULL}])
      <3>1. Event(t, t.id) \in [from : Status, to : Status \cup {"deleted"},
                                snapshot : Id \cup {NULL}]
        BY <2>2 DEF Event
      <3>2. audit' = Append(audit, Event(t, t.id))
        BY <1>5 DEF CommitSnapshot
      <3> QED
        BY <3>1, <3>2
    <2> QED
      BY <1>0, <1>5, <2>2, <2>3 DEF CommitSnapshot
  <1>6. ASSUME NEW r \in Request, CommitReopen(r) \/ CommitDelete(r) PROVE TypeOK'
    <2> DEFINE t == pending[r]
    <2>1. t \in Transaction
      OBVIOUS
    <2>2. t.from \in Status /\ t.to \in Status \cup {"deleted"}
      BY <1>6, <2>1, TransactionTypes DEF CommitReopen, CommitDelete, Status
    <2>3. audit' \in Seq([from : Status, to : Status \cup {"deleted"},
                          snapshot : Id \cup {NULL}])
      <3>1. Event(t, NULL) \in [from : Status, to : Status \cup {"deleted"},
                                snapshot : Id \cup {NULL}]
        BY <2>2 DEF Event
      <3>2. audit' = Append(audit, Event(t, NULL))
        BY <1>6 DEF CommitReopen, CommitDelete
      <3> QED
        BY <3>1, <3>2
    <2> QED
      BY <1>0, <1>6, <2>3 DEF CommitReopen, CommitDelete, Status
  <1>7. ASSUME NEW r \in Request, ReadDelete(r) \/ Abort(r) PROVE TypeOK'
    <2>1. [step |-> "delete", from |-> "open", to |-> "deleted", seen |-> Len(audit)]
            \in Transaction
      BY DEF Transaction
    <2> QED
      BY <1>0, <1>7, <2>1 DEF ReadDelete, Abort
  <1>8. CASE Age \/ StartPrune \/ PruneOne \/ EndPrune
    <2>1. CASE Age
      <3>1. PICK k \in Id : aged' = {i \in 1 .. k : Stored(i)}
        BY <2>1 DEF Age
      <3>2. aged' \subseteq Id
        BY <3>1, BoundsAssumption DEF Id
      <3> QED
        BY <2>1, <3>2 DEF Age
    <2>2. CASE StartPrune
      BY <2>2 DEF StartPrune
    <2>3. CASE PruneOne
      BY <2>3 DEF PruneOne
    <2>4. CASE EndPrune
      BY <2>4 DEF EndPrune
    <2> QED
      BY <1>8, <2>1, <2>2, <2>3, <2>4
  <1>9. CASE UNCHANGED vars
    BY <1>9 DEF vars
  <1> QED
    BY <1>1, <1>2, <1>3, <1>4, <1>5, <1>6, <1>7, <1>8, <1>9 DEF Next, Transition

-------------------------------------------------------------------------------
(* The inductive invariant.                                                *)

LEMMA InitIInv == Init => IInv
  <1> SUFFICES ASSUME Init PROVE IInv
    OBVIOUS
  <1>1. \A r \in Request : pending[r].step = "idle"
    BY DEF Init, Idle
  <1>2. \A i \in Id : ~Stored(i)
    BY DEF Init, Stored
  <1>3. Aligned /\ Fresh /\ Retained
    BY <1>1, <1>2 DEF Init, Aligned, Fresh, Retained
  <1>4. CloseRefStored
    BY DEF Init, CloseRefStored
  <1> QED
    BY <1>3, <1>4, InitTypeOK DEF IInv

\* Steps of a transaction that has not come to its commit.
Working(r) ==
  ReadStatus(r) \/ Capture(r) \/ InsertSnapshot(r) \/ ReadDelete(r) \/ Abort(r)

LEMMA NextAligned == IInv /\ [Next]_vars => Aligned'
  <1> SUFFICES ASSUME IInv, [Next]_vars PROVE Aligned'
    OBVIOUS
  <1> USE DEF IInv
  <1>0. pending \in [Request -> Transaction]
    BY DEF TypeOK
  <1>1. ASSUME NEW r \in Request, ReadStatus(r) PROVE Aligned'
    BY <1>0, <1>1 DEF ReadStatus, Aligned
  <1>2. ASSUME NEW r \in Request, Capture(r) PROVE Aligned'
    BY <1>0, <1>2 DEF Capture, Aligned
  <1>3. ASSUME NEW r \in Request, InsertSnapshot(r) PROVE Aligned'
    BY <1>0, <1>3 DEF InsertSnapshot, Aligned
  <1>4. ASSUME NEW r \in Request, ReadDelete(r) PROVE Aligned'
    BY <1>0, <1>4 DEF ReadDelete, Aligned
  <1>5. ASSUME NEW r \in Request, pending' = [pending EXCEPT ![r] = Idle]
        PROVE  Aligned'
    BY <1>0, <1>5 DEF Aligned, Idle
  <1>6. ASSUME UNCHANGED pending PROVE Aligned'
    BY <1>6 DEF Aligned
  <1> QED
    BY <1>1, <1>2, <1>3, <1>4, <1>5, <1>6
       DEF Next, Transition, vars, CommitSnapshot, CommitReopen, CommitDelete, Abort,
           CreatePeriod, Edit, Age, StartPrune, PruneOne, EndPrune

LEMMA NextFresh == IInv /\ [Next]_vars => Fresh'
  <1> SUFFICES ASSUME IInv, [Next]_vars PROVE Fresh'
    OBVIOUS
  <1> USE DEF IInv
  <1>0. /\ pending \in [Request -> Transaction]
        /\ snaps \in [Id -> Snapshot \cup {Missing}]
        /\ nextId \in Nat
    BY BoundsAssumption DEF TypeOK
  <1>t. \A r \in Request : pending[r].step = "inserted" => pending[r].id \in Id
    BY <1>0, TransactionTypes
  <1>1. ASSUME NEW r \in Request, UNCHANGED <<snaps, nextId>>,
               NEW t, pending' = [pending EXCEPT ![r] = t], t.step # "inserted"
        PROVE  Fresh'
    BY <1>0, <1>1 DEF Fresh, Stored
  <1>2. ASSUME NEW r \in Request, ReadStatus(r) \/ Capture(r) \/ ReadDelete(r) \/ Abort(r)
                                    \/ CommitReopen(r) \/ CommitDelete(r)
        PROVE  Fresh'
    BY <1>1, <1>2 DEF ReadStatus, Capture, ReadDelete, Abort, CommitReopen, CommitDelete,
                      Idle
  <1>3. ASSUME NEW r \in Request, InsertSnapshot(r) PROVE Fresh'
    <2> DEFINE u == [step |-> "inserted", from |-> pending[r].from, to |-> pending[r].to,
                     seen |-> pending[r].seen, snap |-> pending[r].snap, id |-> nextId]
    <2>1. /\ pending' = [pending EXCEPT ![r] = u]
          /\ nextId' = nextId + 1
          /\ snaps' = snaps
      BY <1>3 DEF InsertSnapshot
    <2>2. u.id = nextId
      OBVIOUS
    <2> HIDE DEF u
    <2>3. nextId \in Id
      BY <1>0, <1>3 DEF InsertSnapshot, Id, TypeOK
    <2>4. ~Stored(nextId)
      BY <1>0, <2>3 DEF Fresh
    <2>5. \A i \in Id : i \in Nat
      BY BoundsAssumption DEF Id
    <2> QED
      BY <1>0, <1>t, <2>1, <2>2, <2>4, <2>5 DEF Fresh, Stored
  <1>4. ASSUME NEW r \in Request, CommitSnapshot(r) PROVE Fresh'
    <2> DEFINE t == pending[r]
    <2>1. t.step = "inserted" /\ t.id \in Id /\ t.id < nextId
      BY <1>t, <1>4 DEF CommitSnapshot, Fresh
    <2>2. \A i \in Id : Stored(i)' => Stored(i) \/ i = t.id
      BY <1>0, <1>4 DEF CommitSnapshot, Stored
    <2>3. \A q \in Request : pending'[q].step = "inserted" =>
            q # r /\ pending'[q] = pending[q]
      BY <1>0, <1>4 DEF CommitSnapshot, Idle
    <2>4. nextId' = nextId
      BY <1>4 DEF CommitSnapshot
    <2> QED
      BY <1>t, <2>1, <2>2, <2>3, <2>4 DEF Fresh
  <1>5. ASSUME UNCHANGED <<nextId, pending>>, \A i \in Id : Stored(i)' => Stored(i)
        PROVE  Fresh'
    BY <1>t, <1>5 DEF Fresh
  <1>6. CASE PruneOne
    <2>1. \A i \in Id : Stored(i)' => Stored(i)
      BY <1>0, <1>6 DEF PruneOne, Stored
    <2> QED
      BY <1>5, <1>6, <2>1 DEF PruneOne
  <1>7. ASSUME UNCHANGED <<snaps, nextId, pending>> PROVE Fresh'
    BY <1>5, <1>7 DEF Stored
  <1> QED
    BY <1>2, <1>3, <1>4, <1>6, <1>7
       DEF Next, Transition, vars, CreatePeriod, Edit, Age, StartPrune, EndPrune

LEMMA NextRetained == IInv /\ [Next]_vars => Retained'
  <1> SUFFICES ASSUME IInv, [Next]_vars PROVE Retained'
    OBVIOUS
  <1> USE DEF IInv
  <1>0. /\ snaps \in [Id -> Snapshot \cup {Missing}]
        /\ aged \subseteq Id
        /\ \A i \in Id : i # NULL
        /\ closeRef \in Id => status = "closed"
    BY BoundsAssumption DEF TypeOK, CloseRefStored, Id, NULL
  <1>1. ASSUME UNCHANGED <<closeRef, snaps, aged, pruner>> PROVE Retained'
    BY <1>1 DEF Retained, Stored
  <1>2. ASSUME NEW r \in Request, CommitSnapshot(r) PROVE Retained'
    <2> DEFINE t == pending[r]
    <2>1. t.id \in Id /\ ~Stored(t.id) /\ t.snap \in Snapshot
      <3>1. t \in Transaction /\ t.step = "inserted"
        BY <1>2 DEF CommitSnapshot, TypeOK
      <3> QED
        BY <3>1, TransactionTypes DEF Fresh
    <2>2. t.id \notin aged
      BY <2>1 DEF Retained
    <2>3. \A i \in aged : Stored(i)'
      BY <1>0, <1>2, <2>1, <2>2 DEF CommitSnapshot, Stored, Retained
    <2>4. closeRef' \in {closeRef, t.id} /\ UNCHANGED <<aged, pruner>>
      BY <1>2 DEF CommitSnapshot
    <2> QED
      BY <2>2, <2>3, <2>4 DEF Retained
  <1>3. ASSUME NEW r \in Request, CommitReopen(r) PROVE Retained'
    <2>1. closeRef' = NULL /\ UNCHANGED <<snaps, aged, pruner>>
      BY <1>3 DEF CommitReopen
    <2> QED
      BY <1>0, <2>1 DEF Retained, Stored
  <1>4. CASE Age
    BY <1>4 DEF Age, Retained, Stored
  <1>5. CASE StartPrune
    <2>1. closeRef \notin aged \ Protected
      BY <1>0 DEF Protected, ChainTips
    <2> QED
      BY <1>5, <2>1 DEF StartPrune, Retained, Stored
  <1>6. CASE PruneOne
    <2>1. PICK i \in pruner.left :
            /\ snaps' = [snaps EXCEPT ![i] = Missing]
            /\ aged' = aged \ {i}
            /\ pruner' = [pruner EXCEPT !.left = @ \ {i}]
      BY <1>6 DEF PruneOne
    <2>2. pruner # NoPrune /\ closeRef' = closeRef
      BY <1>6 DEF PruneOne
    <2>3. \A j \in aged' : Stored(j)'
      BY <1>0, <2>1 DEF Retained, Stored
    <2>4. pruner'.left = pruner.left \ {i}
      BY <2>1, <2>2 DEF TypeOK
    <2> QED
      BY <2>1, <2>2, <2>3, <2>4 DEF Retained
  <1>7. CASE EndPrune
    BY <1>7 DEF EndPrune, Retained, Stored
  <1> QED
    BY <1>1, <1>2, <1>3, <1>4, <1>5, <1>6, <1>7
       DEF Next, Transition, vars, ReadStatus, Capture, InsertSnapshot, ReadDelete,
           CommitDelete, Abort, CreatePeriod, Edit

LEMMA NextCloseRefStored == IInv /\ [Next]_vars => CloseRefStored'
  <1> SUFFICES ASSUME IInv, [Next]_vars PROVE CloseRefStored'
    OBVIOUS
  <1> USE DEF IInv
  <1>0. /\ snaps \in [Id -> Snapshot \cup {Missing}]
        /\ \A i \in Id : i # NULL
    BY BoundsAssumption DEF TypeOK, Id, NULL
  <1>1. ASSUME UNCHANGED <<closeRef, snaps>>, (status = "closed") <=> (status' = "closed")
        PROVE  CloseRefStored'
    BY <1>1 DEF CloseRefStored, Closes
  <1>2. ASSUME NEW r \in Request, CommitSnapshot(r) PROVE CloseRefStored'
    <2> DEFINE t == pending[r]
    <2>1. t \in Transaction /\ t.step = "inserted"
      BY <1>2 DEF CommitSnapshot, TypeOK
    <2>2. /\ t.id \in Id /\ ~Stored(t.id) /\ t.from \in Status
          /\ t.to = NextStatus[t.from] /\ t.to # "open"
          /\ t.to = "closed" <=> t.snap.kind = "close"
      BY <2>1, TransactionTypes DEF Fresh, Aligned
    <2>3. /\ status = t.from /\ status' = t.to
          /\ closeRef' = IF t.to = "closed" THEN t.id ELSE closeRef
          /\ snaps' = [snaps EXCEPT ![t.id] = t.snap]
      BY <1>2 DEF CommitSnapshot
    <2>4. CASE t.to = "closed"
      BY <1>0, <2>2, <2>3, <2>4 DEF CloseRefStored, Closes
    <2>5. CASE t.to # "closed"
      <3>1. status # "closed"
        BY <2>2, <2>3, <2>5 DEF NextStatus, Status
      <3>2. closeRef' = NULL
        BY <2>3, <2>5, <3>1 DEF CloseRefStored
      <3> QED
        BY <2>3, <2>5, <3>2 DEF CloseRefStored
    <2> QED
      BY <2>4, <2>5
  <1>3. ASSUME NEW r \in Request, CommitReopen(r) PROVE CloseRefStored'
    BY <1>3 DEF CommitReopen, CloseRefStored
  <1>4. CASE PruneOne
    <2>1. PICK i \in pruner.left : snaps' = [snaps EXCEPT ![i] = Missing]
      BY <1>4 DEF PruneOne
    <2>2. i # closeRef /\ UNCHANGED <<status, closeRef>>
      BY <1>4 DEF PruneOne, Retained
    <2> QED
      BY <1>0, <2>1, <2>2 DEF CloseRefStored, Closes
  <1>5. ASSUME NEW r \in Request, CreatePeriod(r) \/ CommitDelete(r)
        PROVE  CloseRefStored'
    BY <1>1, <1>5 DEF CreatePeriod, CommitDelete
  <1> QED
    BY <1>1, <1>2, <1>3, <1>4, <1>5
       DEF Next, Transition, vars, ReadStatus, Capture, InsertSnapshot, ReadDelete,
           Abort, Edit, Age, StartPrune, EndPrune

LEMMA NextIInv == IInv /\ [Next]_vars => IInv'
  BY NextTypeOK, NextAligned, NextFresh, NextRetained, NextCloseRefStored DEF IInv

LEMMA SpecIInv == Spec => []IInv
  BY InitIInv, NextIInv, PTL DEF Spec

-------------------------------------------------------------------------------
(***************************************************************************)
(* Every reachable state is well-typed: a transition, deletion or          *)
(* retention run never leaves a malformed row or transaction.              *)
(***************************************************************************)
THEOREM TypeCorrect == Spec => []TypeOK
  <1>1. IInv => TypeOK
    BY DEF IInv
  <1> QED
    BY <1>1, SpecIInv, PTL

(***************************************************************************)
(* With any number of requests and a retention run at any moment, a period *)
(* is closed exactly while close_snapshot_id names a stored close snapshot *)
(* (transitionPeriod, pruneExpired).                                       *)
(***************************************************************************)
THEOREM CloseSnapshotKept == Spec => []CloseRefStored
  <1>1. IInv => CloseRefStored
    BY DEF IInv
  <1> QED
    BY <1>1, SpecIInv, PTL

-------------------------------------------------------------------------------
(* The refinement.                                                         *)

\* What the abstract log sees of the audit log.
Targets(s) == [i \in DOMAIN s |-> s[i].to]

LEMMA TargetsAppend ==
  ASSUME NEW S, NEW s \in Seq(S), NEW e \in S
  PROVE  Targets(Append(s, e)) = Append(Targets(s), e.to)
  <1> DEFINE a == Append(s, e)
             b == Targets(s)
  <1>1. /\ DOMAIN s = 1 .. Len(s) /\ Len(s) \in Nat
        /\ DOMAIN a = 1 .. Len(s) + 1
        /\ \A i \in 1 .. Len(s) : a[i] = s[i]
        /\ a[Len(s) + 1] = e
    OBVIOUS
  <1>2. b = [i \in 1 .. Len(s) |-> s[i].to]
    BY <1>1 DEF Targets
  <1>3. b \in Seq({s[i].to : i \in 1 .. Len(s)}) /\ Len(b) = Len(s)
    BY <1>1, <1>2
  <1>4. /\ Append(b, e.to) = [i \in 1 .. Len(s) + 1 |->
                                IF i = Len(s) + 1 THEN e.to ELSE b[i]]
    BY <1>3
  <1>5. Targets(a) = [i \in 1 .. Len(s) + 1 |-> a[i].to]
    BY <1>1 DEF Targets
  <1> HIDE DEF a, b
  <1>6. \A i \in 1 .. Len(s) + 1 :
          a[i].to = IF i = Len(s) + 1 THEN e.to ELSE b[i]
    BY <1>1, <1>2
  <1>7. Targets(a) = Append(b, e.to)
    BY <1>4, <1>5, <1>6
  <1> QED
    BY <1>7 DEF a, b

LEMMA CycleInit == Init => Cycle!Init
  <1> SUFFICES ASSUME Init PROVE Cycle!Init
    OBVIOUS
  <1>1. DOMAIN audit = {}
    BY DEF Init
  <1>2. [i \in DOMAIN audit |-> audit[i].to] = <<>>
    BY <1>1
  <1> QED
    BY <1>2 DEF Init, Cycle!Init

LEMMA CycleStep == IInv /\ [Next]_vars => [Cycle!Next]_Cycle!vars
  <1> SUFFICES ASSUME IInv, [Next]_vars PROVE [Cycle!Next]_Cycle!vars
    OBVIOUS
  <1> DEFINE log == [i \in DOMAIN audit |-> audit[i].to]
             Entry == [from : Status, to : Status \cup {"deleted"},
                       snapshot : Id \cup {NULL}]
  <1>0. audit \in Seq(Entry) /\ pending \in [Request -> Transaction]
    BY DEF IInv, TypeOK
  <1>1. ASSUME UNCHANGED <<status, audit>> PROVE [Cycle!Next]_Cycle!vars
    BY <1>1 DEF Cycle!vars
  <1>2. ASSUME NEW e \in Entry, audit' = Append(audit, e), status' = e.to
        PROVE  log' = Append(log, status')
    BY <1>0, <1>2, TargetsAppend DEF Targets
  <1> HIDE DEF Entry
  <1>3. ASSUME NEW r \in Request, CreatePeriod(r) PROVE [Cycle!Next]_Cycle!vars
    BY <1>3 DEF CreatePeriod, Cycle!Next, Cycle!Create
  <1>4. ASSUME NEW r \in Request, CommitSnapshot(r) \/ CommitReopen(r)
        PROVE  [Cycle!Next]_Cycle!vars
    <2> DEFINE t == pending[r]
    <2>1. t \in Transaction /\ t.step \in {"read", "inserted"}
      BY <1>0, <1>4 DEF CommitSnapshot, CommitReopen
    <2>2. /\ t.from \in Status /\ t.to \in Status
          /\ t.to = NextStatus[t.from]
          /\ t.step = "inserted" => t.id \in Id
      BY <2>1, TransactionTypes DEF IInv, Aligned
    <2>3. PICK id \in Id \cup {NULL} : audit' = Append(audit, Event(t, id))
      BY <1>4, <2>2 DEF CommitSnapshot, CommitReopen
    <2>4. status = t.from /\ status' = t.to
      BY <1>4 DEF CommitSnapshot, CommitReopen
    <2>5. Event(t, id) \in Entry /\ Event(t, id).to = status'
      BY <2>2, <2>3, <2>4 DEF Event, Entry
    <2>6. log' = Append(log, status')
      BY <1>2, <2>3, <2>5
    <2>7. status \in DOMAIN Cycle!After /\ status' = Cycle!After[status]
      BY <2>2, <2>4 DEF Cycle!After, NextStatus, Status
    <2> QED
      BY <2>6, <2>7 DEF Cycle!Next, Cycle!Advance
  <1>5. ASSUME NEW r \in Request, CommitDelete(r) PROVE [Cycle!Next]_Cycle!vars
    <2> DEFINE t == pending[r]
    <2>1. t \in Transaction /\ t.step = "delete"
      BY <1>0, <1>5 DEF CommitDelete
    <2>2. /\ status = "open" /\ status' = "deleted"
          /\ audit' = Append(audit, Event(t, NULL))
      BY <1>5 DEF CommitDelete
    <2>3. Event(t, NULL) \in Entry /\ Event(t, NULL).to = status'
      BY <2>1, <2>2, TransactionTypes DEF Event, Entry, Status
    <2>4. log' = Append(log, status')
      BY <1>2, <2>2, <2>3
    <2> QED
      BY <2>2, <2>4 DEF Cycle!Next, Cycle!Delete
  <1> QED
    BY <1>1, <1>3, <1>4, <1>5
       DEF Next, Transition, vars, ReadStatus, Capture, InsertSnapshot, ReadDelete,
           Abort, Edit, Age, StartPrune, PruneOne, EndPrune

(***************************************************************************)
(* With any number of concurrent requests, the period walks the published  *)
(* cycle one committed step at a time and its audit log records exactly    *)
(* that walk (transitionPeriod's and deletePeriod's status guards).        *)
(***************************************************************************)
THEOREM ImplementsCycle == Spec => FollowsCycle
  BY SpecIInv, CycleInit, CycleStep, PTL DEF Spec, FollowsCycle, Cycle!Spec

-------------------------------------------------------------------------------
(***************************************************************************)
(* What PeriodLifecycle guarantees of the hash chain, the seal and the     *)
(* deletion of a period when transitions do not overlap, beside retention  *)
(* runs at any moment and for any number of snapshots.                     *)
(*                                                                         *)
(* The invariants rest on one fact: every close snapshot ever committed is *)
(* still stored and reached from the newest one, so a retention run, which *)
(* spares all it reaches from there, deletes none of them.                 *)
(***************************************************************************)
OneRequest == \A q, r \in Request : q = r

\* The close events name the stored close snapshots, in the order of the ids.
Recorded ==
  /\ \A n \in Closings : audit[n].snapshot \in Closes
  /\ \A i \in Closes : \E n \in Closings : audit[n].snapshot = i
  /\ \A m, n \in Closings : m < n => audit[m].snapshot < audit[n].snapshot

\* A close snapshot is linked to the one before it, another one to none.
Linked ==
  /\ \A i \in Closes :
       IF snaps[i].prev = NULL
         THEN \A j \in Closes : i <= j
         ELSE /\ snaps[i].prev \in Closes
              /\ snaps[i].prev < i
              /\ \A j \in Closes : j < i => j <= snaps[i].prev
  /\ \A i \in Id : Stored(i) /\ i \notin Closes => snaps[i].prev = NULL

Topped == Closes # {} => Newest(Closes) # {}

\* What the transaction t has read still holds.
Held(t) ==
  /\ t.step \in {"captured", "inserted"} =>
       /\ t.snap.prev = IF t.to = "closed" THEN LatestClose ELSE NULL
       /\ t.snap.roster = roster
  /\ t.step = "inserted" => \A i \in Id : Stored(i) => i < t.id
  /\ t.step = "delete" => \A i \in Id : ~Stored(i)

UpToDate == \A r \in Request : Held(pending[r])

\* The running retention run spares the close snapshots.
Spared == pruner # NoPrune => \A i \in pruner.left : i \notin Closes

\* A period that is open again has been closed.
ClosedBefore ==
  /\ status = "closed" => Closings # {}
  /\ status \in {"absent", "open"} =>
       Closings # {} \/ \A n \in DOMAIN audit : audit[n].to # "published"

PInv ==
  /\ IInv
  /\ Recorded
  /\ Linked
  /\ Topped
  /\ UpToDate
  /\ Spared
  /\ SealMatches
  /\ ClosedBefore
  /\ NeverDeletedOncePublished

-------------------------------------------------------------------------------
(* What chainTipSnapshotIds and protectChain reach.                        *)

LEMMA Least ==
  ASSUME NEW T, T \subseteq Nat, T # {}
  PROVE  \E x \in T : \A y \in T : x <= y
  <1> DEFINE R == OpToRel(<, Nat)
  <1>1. IsWellFoundedOn(R, Nat)
    BY NatLessThanWellFounded
  <1>2. \A x, y \in Nat : <<y, x>> \in R <=> y < x
    BY DEF OpToRel
  <1> HIDE DEF R
  <1>3. PICK x \in T : \A y \in T : ~(<<y, x>> \in R)
    BY <1>1, WFMin
  <1>4. \A y \in T : ~(y < x)
    BY <1>2, <1>3
  <1>5. x \in Nat /\ \A y \in T : y \in Nat
    OBVIOUS
  <1> QED
    BY <1>4, <1>5

LEMMA Ids == /\ \A i \in Id : i \in Nat /\ i # NULL
             /\ \A i \in Closes : i \in Id /\ i \in Nat
  BY BoundsAssumption DEF Id, Closes, NULL

LEMMA CloseIsStored ==
  ASSUME TypeOK, NEW i \in Closes
  PROVE  i \in Id /\ Stored(i) /\ snaps[i] \in Snapshot /\ snaps[i].kind = "close"
  <1>1. Missing.kind # "close"
    BY DEF Missing
  <1>2. i \in Id /\ snaps[i].kind = "close"
    BY DEF Closes
  <1> QED
    BY <1>1, <1>2 DEF Stored, TypeOK

LEMMA LatestIs ==
  ASSUME NEW m \in Newest(Closes)
  PROVE  LatestClose = m
  <1>1. \A i \in Newest(Closes) : i = m
    BY Ids DEF Newest
  <1> QED
    BY <1>1 DEF LatestClose, First

LEMMA NoLatest == Closes = {} => LatestClose = NULL
  BY DEF LatestClose, First, Newest

\* One close snapshot is linked to the next, so each has all before it as
\* ancestors.
LEMMA AncestorsReachAll ==
  ASSUME TypeOK, Linked
  PROVE  /\ Ancestors = [i \in 0 .. MaxSnapshot |->
              IF i # NULL /\ Stored(i) /\ snaps[i].prev # NULL
                THEN {snaps[i].prev} \cup Ancestors[snaps[i].prev]
                ELSE {}]
         /\ \A i \in Closes : {j \in Closes : j < i} \subseteq Ancestors[i]
  <1> DEFINE g == [i \in 0 .. MaxSnapshot |->
                     IF i \in Closes THEN {j \in Closes : j < i} ELSE {}]
  <1>1. \A i \in 0 .. MaxSnapshot : i # NULL => i \in Id
    BY BoundsAssumption DEF Id, NULL
  <1>2. \A i \in Closes : i \in 0 .. MaxSnapshot /\ i # NULL /\ Stored(i)
    BY CloseIsStored, Ids, BoundsAssumption DEF Id
  <1>3. \A i \in Closes : g[i] = {j \in Closes : j < i}
    BY <1>2
  <1>4. ASSUME NEW i \in 0 .. MaxSnapshot
        PROVE  g[i] = IF i # NULL /\ Stored(i) /\ snaps[i].prev # NULL
                        THEN {snaps[i].prev} \cup g[snaps[i].prev]
                        ELSE {}
    <2>1. CASE i \in Closes /\ snaps[i].prev = NULL
      <3>1. \A j \in Closes : ~(j < i)
        BY <2>1, Ids DEF Linked
      <3> QED
        BY <1>3, <2>1, <3>1
    <2>2. CASE i \in Closes /\ snaps[i].prev # NULL
      <3> DEFINE p == snaps[i].prev
      <3>1. p \in Closes /\ p < i /\ \A j \in Closes : j < i => j <= p
        BY <2>2 DEF Linked
      <3>n. i \in Nat /\ p \in Nat /\ \A j \in Closes : j \in Nat
        BY <2>2, <3>1, Ids
      <3> HIDE DEF p
      <3>2. \A j \in Closes : j < i <=> j = p \/ j < p
        BY <3>1, <3>n
      <3>3. {j \in Closes : j < i} = {p} \cup {j \in Closes : j < p}
        BY <3>1, <3>2
      <3> QED
        BY <1>2, <1>3, <2>2, <3>1, <3>3 DEF p
    <2>3. CASE i \notin Closes
      BY <1>1, <2>3 DEF Linked
    <2> QED
      BY <2>1, <2>2, <2>3
  <1>5. g = [i \in 0 .. MaxSnapshot |->
               IF i # NULL /\ Stored(i) /\ snaps[i].prev # NULL
                 THEN {snaps[i].prev} \cup g[snaps[i].prev]
                 ELSE {}]
    BY <1>4
  <1> HIDE DEF g
  <1>6. Ancestors = [i \in 0 .. MaxSnapshot |->
          IF i # NULL /\ Stored(i) /\ snaps[i].prev # NULL
            THEN {snaps[i].prev} \cup Ancestors[snaps[i].prev]
            ELSE {}]
    BY <1>5 DEF Ancestors
  <1> DEFINE T == {i \in Closes : ~({j \in Closes : j < i} \subseteq Ancestors[i])}
  <1>7. ASSUME T # {} PROVE FALSE
    <2>1. T \subseteq Nat
      BY Ids
    <2>2. PICK i \in T : \A k \in T : i <= k
      BY <1>7, <2>1, Least
    <2> DEFINE p == snaps[i].prev
    <2>3. i \in Closes /\ i \in Nat
      BY <2>1
    <2>4. PICK j \in Closes : j < i /\ j \notin Ancestors[i]
      OBVIOUS
    <2>5. p # NULL
      BY <2>3, <2>4, Ids DEF Linked
    <2>6. p \in Closes /\ p < i /\ j <= p
      BY <2>3, <2>4, <2>5 DEF Linked
    <2>7. Ancestors[i] = {p} \cup Ancestors[p]
      BY <1>2, <1>6, <2>3, <2>5
    <2>8. p \notin T
      <3>0. p \in Nat
        BY <2>6, Ids
      <3>1. ~(i <= p)
        BY <2>3, <2>6, <3>0
      <3> QED
        BY <2>2, <3>1
    <2>9. j < p => j \in Ancestors[p]
      BY <2>6, <2>8
    <2> QED
      BY <2>4, <2>6, <2>7, <2>9, Ids
  <1> QED
    BY <1>6, <1>7

LEMMA AllProtected ==
  ASSUME TypeOK, Linked, Topped
  PROVE  Closes \subseteq Protected
  <1> SUFFICES ASSUME NEW i \in Closes PROVE i \in Protected
    OBVIOUS
  <1>1. PICK m : m \in Newest(Closes)
    BY DEF Topped
  <1>2. LatestClose = m /\ m \in Closes /\ i <= m
    BY <1>1, LatestIs DEF Newest
  <1>3. m \in ChainTips
    BY <1>2 DEF ChainTips
  <1>4. i < m => i \in Ancestors[m]
    BY <1>2, AncestorsReachAll
  <1> QED
    BY <1>2, <1>3, <1>4, Ids DEF Protected

-------------------------------------------------------------------------------
(* Each part of the invariant is kept.                                     *)

LEMMA InitPInv == Init => PInv
  <1> SUFFICES ASSUME Init PROVE PInv
    OBVIOUS
  <1>1. Closes = {} /\ Closings = {} /\ \A i \in Id : ~Stored(i)
    BY DEF Init, Closes, Closings, Stored, Missing
  <1>2. UpToDate
    BY DEF Init, UpToDate, Held, Idle
  <1>3. Recorded /\ Linked /\ Topped /\ Spared
    BY <1>1 DEF Init, Recorded, Linked, Topped, Spared
  <1>4. SealMatches /\ ClosedBefore /\ NeverDeletedOncePublished
    BY <1>1 DEF Init, SealMatches, ClosedBefore, NeverDeletedOncePublished
  <1> QED
    BY <1>2, <1>3, <1>4, InitIInv DEF PInv

LEMMA Appended ==
  ASSUME TypeOK, NEW e, audit' = Append(audit, e)
  PROVE  /\ Len(audit) \in Nat
         /\ \A n \in DOMAIN audit : n \in Nat /\ n < Len(audit) + 1 /\ audit'[n] = audit[n]
         /\ audit'[Len(audit) + 1] = e
         /\ \A n : n \in DOMAIN audit' <=> n \in DOMAIN audit \/ n = Len(audit) + 1
  BY DEF TypeOK

LEMMA AppendedClosings ==
  ASSUME TypeOK, NEW e, audit' = Append(audit, e)
  PROVE  /\ \A n : n \in Closings' <=> \/ n \in Closings
                                       \/ n = Len(audit) + 1 /\ e.to = "closed"
         /\ \A n \in Closings : n \in Nat /\ n < Len(audit) + 1 /\ audit'[n] = audit[n]
         /\ Len(audit) \in Nat /\ audit'[Len(audit) + 1] = e
  BY Appended DEF Closings

\* The snapshot that a request is about to commit.
LEMMA Committing ==
  ASSUME PInv, NEW r \in Request, CommitSnapshot(r)
  PROVE  LET t == pending[r] IN
           /\ t.id \in Id /\ ~Stored(t.id) /\ t.snap \in Snapshot
           /\ \A i \in Id : Stored(i) => i < t.id
           /\ t.to \in {"published", "closed"} /\ t.from \in Status
           /\ t.to = NextStatus[t.from]
           /\ t.to = "closed" <=> t.snap.kind = "close"
           /\ t.snap.prev = IF t.to = "closed" THEN LatestClose ELSE NULL
           /\ t.snap.roster = roster
           /\ status = t.from /\ status' = t.to
           /\ closeRef' = IF t.to = "closed" THEN t.id ELSE closeRef
           /\ snaps' = [snaps EXCEPT ![t.id] = t.snap]
           /\ audit' = Append(audit, Event(t, t.id))
           /\ roster' = roster
  <1> DEFINE t == pending[r]
  <1>1. t \in Transaction /\ t.step = "inserted" /\ Held(t)
    BY DEF CommitSnapshot, PInv, IInv, TypeOK, UpToDate
  <1>2. /\ t.id \in Id /\ t.snap \in Snapshot /\ t.from \in Status /\ t.to \in Status
        /\ ~Stored(t.id) /\ t.to = NextStatus[t.from]
        /\ t.to # "open"
        /\ t.to = "closed" <=> t.snap.kind = "close"
    BY <1>1, TransactionTypes DEF PInv, IInv, Fresh, Aligned
  <1>3. t.to \in {"published", "closed"}
    BY <1>2 DEF Status
  <1> QED
    BY <1>1, <1>2, <1>3 DEF Held, CommitSnapshot

\* Steps that neither store nor delete a close snapshot, nor log a close.
LEMMA TrailUnchanged ==
  ASSUME PInv, Closes' = Closes,
         \A i \in Closes : snaps'[i] = snaps[i],
         \A i \in Id : Stored(i)' => \/ snaps'[i] = snaps[i]
                                     \/ snaps'[i].prev = NULL,
         \A n : n \in Closings' <=> n \in Closings,
         \A n \in Closings : audit'[n] = audit[n]
  PROVE  (Recorded /\ Linked /\ Topped)'
  <1>1. Recorded'
    BY DEF PInv, Recorded
  <1>2. Linked'
    BY DEF PInv, Linked, Stored
  <1>3. Topped'
    BY DEF PInv, Topped, Newest
  <1> QED
    BY <1>1, <1>2, <1>3

LEMMA TrailNext ==
  ASSUME PInv, [Next]_vars
  PROVE  (Recorded /\ Linked /\ Topped)'
  <1>0. TypeOK /\ snaps \in [Id -> Snapshot \cup {Missing}] /\ Missing.kind # "close"
    BY DEF PInv, IInv, TypeOK, Missing
  <1>1. ASSUME NEW r \in Request, CommitSnapshot(r), pending[r].to = "closed"
        PROVE  (Recorded /\ Linked /\ Topped)'
    <2> DEFINE t == pending[r]
               k == Len(audit) + 1
    <2>0. PICK d : d = t.id
      OBVIOUS
    <2>1. /\ d \in Id /\ d \in Nat /\ d # NULL /\ ~Stored(d) /\ d \notin Closes
          /\ \A i \in Closes : i < d /\ i # d
          /\ t.snap.kind = "close" /\ t.snap.prev = LatestClose
          /\ snaps' = [snaps EXCEPT ![d] = t.snap]
          /\ audit' = Append(audit, Event(t, d))
          /\ Event(t, d).to = "closed" /\ Event(t, d).snapshot = d
      BY <1>0, <1>1, <2>0, Committing, CloseIsStored, Ids DEF Event
    <2> HIDE DEF t
    <2>2. /\ \A i : i \in Closes' <=> i \in Closes \/ i = d
          /\ \A i \in Closes : snaps'[i] = snaps[i]
          /\ snaps'[d].prev = LatestClose
      BY <1>0, <2>1 DEF Closes
    <2>3. /\ \A n : n \in Closings' <=> n \in Closings \/ n = k
          /\ \A n \in Closings : n \in Nat /\ n < k /\ audit'[n] = audit[n]
          /\ k \in Nat /\ audit'[k].snapshot = d
      <3>0. PICK e : e = Event(t, d)
        OBVIOUS
      <3>1. audit' = Append(audit, e) /\ e.to = "closed" /\ e.snapshot = d
        BY <2>1, <3>0
      <3>2. /\ \A n : n \in Closings' <=> \/ n \in Closings
                                          \/ n = Len(audit) + 1 /\ e.to = "closed"
            /\ \A n \in Closings : n \in Nat /\ n < Len(audit) + 1 /\ audit'[n] = audit[n]
            /\ Len(audit) \in Nat /\ audit'[Len(audit) + 1] = e
        BY <1>0, <3>1, AppendedClosings
      <3>3. k \in Nat
        BY <3>2
      <3>4. k = Len(audit) + 1
        OBVIOUS
      <3> HIDE DEF k
      <3> QED
        BY <3>1, <3>2, <3>3, <3>4
    <2>4. Recorded'
      <3> HIDE DEF k
      <3>1. \A n \in Closings' : audit'[n].snapshot \in Closes'
        BY <2>2, <2>3 DEF PInv, Recorded
      <3>2. \A i \in Closes' : \E n \in Closings' : audit'[n].snapshot = i
        BY <2>2, <2>3 DEF PInv, Recorded
      <3>3. \A n \in Closings : audit[n].snapshot < d
        BY <2>1 DEF PInv, Recorded
      <3>4. ASSUME NEW m \in Closings', NEW n \in Closings', m < n
            PROVE  audit'[m].snapshot < audit'[n].snapshot
        <4>1. m \in Closings
          BY <2>3, <3>4
        <4> QED
          BY <2>3, <3>3, <3>4, <4>1 DEF PInv, Recorded
      <3> QED
        BY <3>1, <3>2, <3>4 DEF Recorded
    <2>5. Linked'
      <3>1. ASSUME NEW i \in Closes
            PROVE  IF snaps'[i].prev = NULL
                     THEN \A j \in Closes' : i <= j
                     ELSE /\ snaps'[i].prev \in Closes'
                          /\ snaps'[i].prev < i
                          /\ \A j \in Closes' : j < i => j <= snaps'[i].prev
        <4>1. i \in Nat /\ i < d /\ ~(d < i) /\ snaps'[i] = snaps[i]
          BY <2>1, <2>2, Ids
        <4>2. IF snaps[i].prev = NULL
                THEN \A j \in Closes : i <= j
                ELSE /\ snaps[i].prev \in Closes
                     /\ snaps[i].prev < i
                     /\ \A j \in Closes : j < i => j <= snaps[i].prev
          BY DEF PInv, Linked
        <4>3. i <= d
          BY <2>1, <4>1
        <4> QED
          BY <2>2, <4>1, <4>2, <4>3
      <3>2. IF LatestClose = NULL
              THEN \A j \in Closes' : d <= j
              ELSE /\ LatestClose \in Closes'
                   /\ LatestClose < d
                   /\ \A j \in Closes' : j < d => j <= LatestClose
        <4>1. CASE Closes = {}
          BY <2>1, <2>2, <4>1, NoLatest
        <4>2. CASE Closes # {}
          <5>1. PICK m : m \in Newest(Closes)
            BY <4>2 DEF PInv, Topped
          <5>2. LatestClose = m /\ m \in Closes /\ \A j \in Closes : j <= m
            BY <5>1, LatestIs DEF Newest
          <5>3. m # NULL
            BY <5>2, Ids
          <5>4. ~(d < d)
            BY <2>1
          <5> QED
            BY <2>1, <2>2, <5>2, <5>3, <5>4
        <4> QED
          BY <4>1, <4>2
      <3>3. ASSUME NEW i \in Id, Stored(i)', i \notin Closes' PROVE snaps'[i].prev = NULL
        <4>1. i # d /\ i \notin Closes /\ snaps'[i] = snaps[i]
          BY <1>0, <2>1, <2>2, <3>3
        <4> QED
          BY <3>3, <4>1 DEF PInv, Linked, Stored
      <3> QED
        BY <2>2, <3>1, <3>2, <3>3 DEF Linked
    <2>6. Topped'
      <3>1. \A j \in Closes' : j <= d
        BY <2>1, <2>2, Ids
      <3>2. d \in Newest(Closes)'
        BY <2>2, <3>1 DEF Newest
      <3> QED
        BY <3>2 DEF Topped
    <2> QED
      BY <2>4, <2>5, <2>6
  <1>2. ASSUME NEW r \in Request, CommitSnapshot(r), pending[r].to # "closed"
        PROVE  (Recorded /\ Linked /\ Topped)'
    <2> DEFINE t == pending[r]
    <2>1. /\ t.id \in Id /\ t.id \notin Closes
          /\ t.snap.kind # "close" /\ t.snap.prev = NULL
          /\ snaps' = [snaps EXCEPT ![t.id] = t.snap]
          /\ audit' = Append(audit, Event(t, t.id))
          /\ Event(t, t.id).to # "closed"
      BY <1>0, <1>2, Committing, CloseIsStored DEF Event
    <2>2. /\ Closes' = Closes
          /\ \A i \in Closes : snaps'[i] = snaps[i]
          /\ \A i \in Id : snaps'[i] = snaps[i] \/ snaps'[i].prev = NULL
      BY <1>0, <2>1 DEF Closes
    <2>3. /\ \A n : n \in Closings' <=> n \in Closings
          /\ \A n \in Closings : audit'[n] = audit[n]
      BY <1>0, <2>1, AppendedClosings
    <2> QED
      BY <2>2, <2>3, TrailUnchanged
  <1>3. ASSUME NEW r \in Request, CommitReopen(r) \/ CommitDelete(r)
        PROVE  (Recorded /\ Linked /\ Topped)'
    <2>1. /\ audit' = Append(audit, Event(pending[r], NULL)) /\ snaps' = snaps
          /\ Event(pending[r], NULL).to # "closed"
      <3>1. CASE CommitReopen(r)
        BY <3>1 DEF CommitReopen, Event
      <3>2. CASE CommitDelete(r)
        <4>1. pending[r] \in Transaction /\ pending[r].step = "delete"
          BY <1>0, <3>2 DEF CommitDelete, TypeOK
        <4>2. pending[r].to = "deleted"
          BY <4>1, TransactionTypes
        <4> QED
          BY <3>2, <4>2 DEF CommitDelete, Event
      <3> QED
        BY <1>3, <3>1, <3>2
    <2>2. /\ \A n : n \in Closings' <=> n \in Closings
          /\ \A n \in Closings : audit'[n] = audit[n]
      BY <1>0, <2>1, AppendedClosings
    <2> QED
      BY <2>1, <2>2, TrailUnchanged DEF Closes
  <1>4. CASE PruneOne
    <2>1. PICK i \in pruner.left : snaps' = [snaps EXCEPT ![i] = Missing]
      BY <1>4 DEF PruneOne
    <2>2. i \notin Closes
      BY <1>4 DEF PInv, Spared, PruneOne
    <2>3. /\ Closes' = Closes
          /\ \A j \in Closes : snaps'[j] = snaps[j]
          /\ \A j \in Id : Stored(j)' => snaps'[j] = snaps[j]
      BY <1>0, <2>1, <2>2 DEF Closes, Stored
    <2>4. Closings' = Closings /\ audit' = audit
      BY <1>4 DEF PruneOne, Closings
    <2> QED
      BY <2>3, <2>4, TrailUnchanged
  <1>5. ASSUME UNCHANGED <<snaps, audit>> PROVE (Recorded /\ Linked /\ Topped)'
    BY <1>5, TrailUnchanged DEF Closes, Closings
  <1> QED
    BY <1>1, <1>2, <1>3, <1>4, <1>5
       DEF Next, Transition, vars, ReadStatus, Capture, InsertSnapshot, ReadDelete,
           Abort, Edit, CreatePeriod, Age, StartPrune, EndPrune

LEMMA NextSpared ==
  ASSUME PInv, [Next]_vars
  PROVE  Spared'
  <1>0. TypeOK /\ snaps \in [Id -> Snapshot \cup {Missing}] /\ Missing.kind # "close"
    BY DEF PInv, IInv, TypeOK, Missing
  <1>1. ASSUME NEW r \in Request, CommitSnapshot(r) PROVE Spared'
    <2>1. PICK d : /\ d \in Id /\ ~Stored(d)
                   /\ \E s : snaps' = [snaps EXCEPT ![d] = s]
      BY <1>1, Committing
    <2>2. pruner' = pruner
      BY <1>1 DEF CommitSnapshot
    <2>3. pruner # NoPrune => d \notin pruner.left
      BY <2>1 DEF PInv, IInv, Retained
    <2>4. \A i \in Closes' : i = d \/ i \in Closes
      BY <1>0, <2>1 DEF Closes
    <2> QED
      BY <2>2, <2>3, <2>4 DEF PInv, Spared
  <1>2. CASE StartPrune
    <2>1. \A i \in aged \ Protected : i \notin Closes
      BY <1>0, AllProtected DEF PInv
    <2> QED
      BY <1>2, <2>1 DEF StartPrune, Spared, Closes
  <1>3. CASE PruneOne
    <2>1. PICK i \in pruner.left : /\ snaps' = [snaps EXCEPT ![i] = Missing]
                                   /\ pruner' = [pruner EXCEPT !.left = @ \ {i}]
      BY <1>3 DEF PruneOne
    <2>2. pruner # NoPrune
      BY <1>3 DEF PruneOne
    <2>3. pruner'.left \subseteq pruner.left
      BY <1>0, <2>1, <2>2 DEF TypeOK
    <2>4. \A j \in Closes' : j \in Closes
      BY <1>0, <2>1 DEF Closes
    <2> QED
      BY <2>2, <2>3, <2>4 DEF PInv, Spared
  <1>4. CASE EndPrune
    BY <1>4 DEF EndPrune, Spared
  <1>5. ASSUME UNCHANGED <<snaps, pruner>> PROVE Spared'
    BY <1>5 DEF PInv, Spared, Closes
  <1> QED
    BY <1>1, <1>2, <1>3, <1>4, <1>5
       DEF Next, Transition, vars, ReadStatus, Capture, InsertSnapshot, ReadDelete,
           CommitReopen, CommitDelete, Abort, Edit, CreatePeriod, Age

LEMMA StepUpToDate ==
  ASSUME OneRequest, TypeOK, NEW r \in Request, NEW t,
         pending' = [pending EXCEPT ![r] = t], Held(t)'
  PROVE  UpToDate'
  <1> SUFFICES ASSUME NEW q \in Request PROVE Held(pending[q])'
    BY DEF UpToDate
  <1>1. q = r
    BY DEF OneRequest
  <1>2. pending'[q] = t
    BY <1>1 DEF TypeOK
  <1> QED
    BY <1>2 DEF Held

LEMMA NextUpToDate ==
  ASSUME OneRequest, PInv, [Next]_vars
  PROVE  UpToDate'
  <1>0. /\ TypeOK /\ snaps \in [Id -> Snapshot \cup {Missing}]
        /\ pending \in [Request -> Transaction] /\ Missing.kind # "close"
    BY DEF PInv, IInv, TypeOK, Missing
  <1>i. Held(Idle)'
    BY DEF Held, Idle
  <1>1. ASSUME NEW r \in Request, pending' = [pending EXCEPT ![r] = Idle]
        PROVE  UpToDate'
    BY <1>0, <1>i, <1>1, StepUpToDate
  <1>2. ASSUME NEW r \in Request, CreatePeriod(r) \/ Edit(r) PROVE UpToDate'
    <2>1. pending[r] = Idle /\ pending' = pending
      BY <1>2 DEF CreatePeriod, Edit
    <2>2. pending' = [pending EXCEPT ![r] = Idle]
      BY <1>0, <2>1
    <2> QED
      BY <1>1, <2>2
  <1>3. ASSUME NEW r \in Request, ReadStatus(r) PROVE UpToDate'
    <2>0. PICK t : t = [step |-> "read", from |-> status,
                        to |-> NextStatus[status], seen |-> Len(audit)]
      OBVIOUS
    <2>1. pending' = [pending EXCEPT ![r] = t]
      BY <1>3, <2>0 DEF ReadStatus
    <2>2. Held(t)'
      BY <2>0 DEF Held
    <2> QED
      BY <1>0, <2>1, <2>2, StepUpToDate
  <1>4. ASSUME NEW r \in Request, Capture(r) PROVE UpToDate'
    <2>0. PICK t : t = [step |-> "captured", from |-> pending[r].from,
                        to |-> pending[r].to, seen |-> pending[r].seen,
                        snap |-> [kind   |-> IF pending[r].to = "closed" THEN "close"
                                                                        ELSE "publish",
                                  prev   |-> IF pending[r].to = "closed" THEN LatestClose
                                                                        ELSE NULL,
                                  roster |-> roster]]
      OBVIOUS
    <2>1. pending' = [pending EXCEPT ![r] = t] /\ UNCHANGED <<snaps, roster>>
      BY <1>4, <2>0 DEF Capture
    <2>2. LatestClose' = LatestClose
      BY <2>1 DEF LatestClose, Closes
    <2>3. Held(t)'
      BY <2>0, <2>1, <2>2 DEF Held
    <2> QED
      BY <1>0, <2>1, <2>3, StepUpToDate
  <1>5. ASSUME NEW r \in Request, InsertSnapshot(r) PROVE UpToDate'
    <2>0. PICK t : t = [step |-> "inserted", from |-> pending[r].from,
                        to |-> pending[r].to, seen |-> pending[r].seen,
                        snap |-> pending[r].snap, id |-> nextId]
      OBVIOUS
    <2>1. /\ pending[r].step = "captured"
          /\ pending' = [pending EXCEPT ![r] = t] /\ UNCHANGED <<snaps, roster>>
      BY <1>5, <2>0 DEF InsertSnapshot
    <2>2. LatestClose' = LatestClose /\ \A i \in Id : Stored(i)' => Stored(i)
      BY <2>1 DEF LatestClose, Closes, Stored
    <2>3. Held(pending[r]) /\ \A i \in Id : Stored(i) => i < nextId
      BY DEF PInv, UpToDate, IInv, Fresh
    <2>4. Held(t)'
      BY <2>0, <2>1, <2>2, <2>3 DEF Held
    <2> QED
      BY <1>0, <2>1, <2>4, StepUpToDate
  <1>6. ASSUME NEW r \in Request, ReadDelete(r) PROVE UpToDate'
    <2>0. PICK t : t = [step |-> "delete", from |-> "open", to |-> "deleted",
                        seen |-> Len(audit)]
      OBVIOUS
    <2>1. /\ pending' = [pending EXCEPT ![r] = t] /\ snaps' = snaps
          /\ \A i \in Id : ~Stored(i)
      BY <1>6, <2>0 DEF ReadDelete
    <2>2. Held(t)'
      BY <2>0, <2>1 DEF Held, Stored
    <2> QED
      BY <1>0, <2>1, <2>2, StepUpToDate
  <1>7. ASSUME UNCHANGED <<pending, roster>>, Closes' = Closes,
               \A i \in Id : Stored(i)' => Stored(i)
        PROVE  UpToDate'
    <2>1. LatestClose' = LatestClose
      BY <1>7 DEF LatestClose
    <2> QED
      BY <1>7, <2>1 DEF PInv, UpToDate, Held
  <1>8. CASE PruneOne
    <2>1. PICK i \in pruner.left : snaps' = [snaps EXCEPT ![i] = Missing]
      BY <1>8 DEF PruneOne
    <2>2. i \notin Closes
      BY <1>8 DEF PInv, Spared, PruneOne
    <2>3. Closes' = Closes /\ \A j \in Id : Stored(j)' => Stored(j)
      BY <1>0, <2>1, <2>2 DEF Closes, Stored
    <2> QED
      BY <1>7, <1>8, <2>3 DEF PruneOne
  <1>9. ASSUME UNCHANGED <<pending, roster, snaps>> PROVE UpToDate'
    BY <1>7, <1>9 DEF Closes, Stored
  <1> QED
    BY <1>1, <1>2, <1>3, <1>4, <1>5, <1>6, <1>8, <1>9
       DEF Next, Transition, vars, CommitSnapshot, CommitReopen, CommitDelete, Abort,
           Age, StartPrune, EndPrune

LEMMA NextSeal ==
  ASSUME PInv, [Next]_vars
  PROVE  SealMatches'
  <1>0. /\ TypeOK /\ snaps \in [Id -> Snapshot \cup {Missing}]
        /\ CloseRefStored /\ SealMatches
    BY DEF PInv, IInv, TypeOK
  <1>1. ASSUME NEW r \in Request, CommitSnapshot(r) PROVE SealMatches'
    BY <1>0, <1>1, Committing DEF SealMatches
  <1>2. ASSUME UNCHANGED <<status, closeRef, snaps, roster>> PROVE SealMatches'
    BY <1>0, <1>2 DEF SealMatches
  <1>3. ASSUME status' # "closed" PROVE SealMatches'
    BY <1>3 DEF SealMatches
  <1>4. CASE PruneOne
    <2>1. PICK i \in pruner.left : snaps' = [snaps EXCEPT ![i] = Missing]
      BY <1>4 DEF PruneOne
    <2>2. i # closeRef
      BY <1>4 DEF PruneOne, PInv, IInv, Retained
    <2>3. snaps'[closeRef] = snaps[closeRef] \/ status # "closed"
      BY <1>0, <2>1, <2>2 DEF CloseRefStored, Closes
    <2> QED
      BY <1>0, <1>4, <2>3 DEF PruneOne, SealMatches
  <1> QED
    BY <1>1, <1>2, <1>3, <1>4
       DEF Next, Transition, vars, ReadStatus, Capture, InsertSnapshot, ReadDelete,
           CommitReopen, CommitDelete, Abort, Edit, CreatePeriod, Age, StartPrune, EndPrune

LEMMA NextDeletion ==
  ASSUME PInv, [Next]_vars
  PROVE  (ClosedBefore /\ NeverDeletedOncePublished)'
  <1>0. /\ TypeOK /\ ClosedBefore /\ NeverDeletedOncePublished
        /\ pending \in [Request -> Transaction]
    BY DEF PInv, IInv, TypeOK
  <1>1. ASSUME NEW r \in Request, CommitSnapshot(r)
        PROVE  (ClosedBefore /\ NeverDeletedOncePublished)'
    <2> DEFINE t == pending[r]
    <2>0. PICK e : e = Event(t, t.id)
      OBVIOUS
    <2>1. /\ t.to \in {"published", "closed"} /\ status' = t.to
          /\ audit' = Append(audit, e) /\ e.to = t.to
      BY <1>1, <2>0, Committing DEF Event
    <2>2. status' = "closed" => Closings' # {}
      BY <1>0, <2>1, AppendedClosings
    <2> QED
      BY <2>1, <2>2 DEF ClosedBefore, NeverDeletedOncePublished
  <1>2. ASSUME NEW r \in Request, CommitReopen(r)
        PROVE  (ClosedBefore /\ NeverDeletedOncePublished)'
    <2> DEFINE t == pending[r]
    <2>0. PICK e : e = Event(t, NULL)
      OBVIOUS
    <2>1. t \in Transaction /\ t.step = "read" /\ t.to = "open"
      BY <1>0, <1>2 DEF CommitReopen
    <2>2. t.from = "closed"
      <3>1. t.from \in Status /\ t.to = NextStatus[t.from]
        BY <2>1, TransactionTypes DEF PInv, IInv, Aligned
      <3> QED
        BY <2>1, <3>1 DEF Status, NextStatus
    <2>3. /\ status = "closed" /\ status' = "open"
          /\ audit' = Append(audit, e)
      BY <1>2, <2>0, <2>2 DEF CommitReopen
    <2>4. Closings' # {}
      BY <1>0, <2>3, AppendedClosings DEF ClosedBefore
    <2> QED
      BY <2>3, <2>4 DEF ClosedBefore, NeverDeletedOncePublished
  <1>3. ASSUME NEW r \in Request, CommitDelete(r)
        PROVE  (ClosedBefore /\ NeverDeletedOncePublished)'
    <2> DEFINE t == pending[r]
    <2>0. PICK e : e = Event(t, NULL)
      OBVIOUS
    <2>1. t \in Transaction /\ t.step = "delete" /\ Held(t)
      BY <1>0, <1>3 DEF CommitDelete, PInv, UpToDate
    <2>2. t.to = "deleted" /\ \A i \in Id : ~Stored(i)
      BY <2>1, TransactionTypes DEF Held
    <2>3. /\ status = "open" /\ status' = "deleted"
          /\ audit' = Append(audit, e) /\ e.to = "deleted"
      BY <1>3, <2>0, <2>2 DEF CommitDelete, Event
    <2>4. Closings = {}
      BY <1>0, <2>2, CloseIsStored DEF PInv, Recorded
    <2>5. \A n \in DOMAIN audit : audit[n].to # "published"
      BY <1>0, <2>3, <2>4 DEF ClosedBefore
    <2>6. \A n \in DOMAIN audit' : audit'[n].to # "published"
      BY <1>0, <2>3, <2>5, Appended
    <2> QED
      BY <2>3, <2>6 DEF ClosedBefore, NeverDeletedOncePublished
  <1>4. ASSUME NEW r \in Request, CreatePeriod(r)
        PROVE  (ClosedBefore /\ NeverDeletedOncePublished)'
    BY <1>0, <1>4 DEF CreatePeriod, ClosedBefore, NeverDeletedOncePublished, Closings
  <1>5. ASSUME UNCHANGED <<status, audit>>
        PROVE  (ClosedBefore /\ NeverDeletedOncePublished)'
    BY <1>0, <1>5 DEF ClosedBefore, NeverDeletedOncePublished, Closings
  <1> QED
    BY <1>1, <1>2, <1>3, <1>4, <1>5
       DEF Next, Transition, vars, ReadStatus, Capture, InsertSnapshot, ReadDelete,
           Abort, Edit, Age, StartPrune, PruneOne, EndPrune

LEMMA NextPInv == OneRequest /\ PInv /\ [Next]_vars => PInv'
  <1> SUFFICES ASSUME OneRequest, PInv, [Next]_vars PROVE PInv'
    OBVIOUS
  <1>1. IInv'
    BY NextIInv DEF PInv
  <1> QED
    BY <1>1, TrailNext, NextSpared, NextUpToDate, NextSeal, NextDeletion DEF PInv

LEMMA SpecPInv == OneRequest => (Spec => []PInv)
  <1> SUFFICES ASSUME OneRequest PROVE Spec => []PInv
    OBVIOUS
  <1>1. PInv /\ [Next]_vars => PInv'
    BY NextPInv
  <1> QED
    BY <1>1, InitPInv, PTL DEF Spec

-------------------------------------------------------------------------------
(* The theorems.                                                           *)

LEMMA PInvChain == PInv => ChainIntact /\ TrailChained /\ EvidenceKept
  <1> SUFFICES ASSUME PInv PROVE ChainIntact /\ TrailChained /\ EvidenceKept
    OBVIOUS
  <1>0. TypeOK
    BY DEF PInv, IInv
  <1>1. ChainIntact
    BY <1>0, CloseIsStored DEF PInv, Linked, ChainIntact
  <1>2. EvidenceKept
    BY <1>0, CloseIsStored DEF PInv, Recorded, EvidenceKept, Newest
  <1>3. ASSUME NEW n \in Closings
        PROVE  LET id     == audit[n].snapshot
                   before == {m \in Closings : m < n} IN
                 /\ before = {} => snaps[id].prev = NULL
                 /\ \A m \in Newest(before) : snaps[id].prev = audit[m].snapshot
    <2> DEFINE id     == audit[n].snapshot
               before == {m \in Closings : m < n}
               p      == snaps[id].prev
    <2>1. id \in Closes /\ \A m \in Closings : m \in Nat
      BY <1>0 DEF PInv, Recorded, Closings, TypeOK
    <2>2. IF p = NULL THEN \A j \in Closes : id <= j
                      ELSE p \in Closes /\ p < id /\ \A j \in Closes : j < id => j <= p
      BY <2>1 DEF PInv, Linked
    <2>3. ASSUME NEW m \in Closings, m < n
          PROVE  audit[m].snapshot \in Closes /\ audit[m].snapshot < id
      BY <2>3 DEF PInv, Recorded
    <2>4. ASSUME p # NULL
          PROVE  \E k \in Closings : k < n /\ audit[k].snapshot = p
      <3>1. PICK k \in Closings : audit[k].snapshot = p
        BY <2>2, <2>4 DEF PInv, Recorded
      <3>2. p \in Nat /\ id \in Nat /\ p < id
        BY <2>1, <2>2, <2>4, Ids
      <3>3. k # n /\ ~(n < k)
        BY <3>1, <3>2 DEF PInv, Recorded
      <3> QED
        BY <2>1, <3>1, <3>3
    <2>5. before = {} => p = NULL
      BY <2>4
    <2>6. ASSUME NEW m \in Newest(before) PROVE p = audit[m].snapshot
      <3> DEFINE q == audit[m].snapshot
      <3>1. m \in Closings /\ m < n /\ \A k \in Closings : k < n => k <= m
        BY DEF Newest
      <3>2. q \in Closes /\ q < id /\ q \in Nat /\ id \in Nat
        BY <2>1, <2>3, <3>1, Ids
      <3>3. p # NULL
        BY <2>2, <3>2
      <3>4. PICK k \in Closings : k < n /\ audit[k].snapshot = p
        BY <2>4, <3>3
      <3>5. k <= m
        BY <3>1, <3>4
      <3>6. k < m => p < q
        BY <3>1, <3>4 DEF PInv, Recorded
      <3>7. q <= p /\ p \in Nat
        BY <2>2, <3>2, <3>3, Ids
      <3> QED
        BY <2>1, <3>1, <3>2, <3>4, <3>5, <3>6, <3>7
    <2> QED
      BY <2>5, <2>6
  <1>4. TrailChained
    BY <1>3 DEF TrailChained
  <1> QED
    BY <1>1, <1>2, <1>4

(***************************************************************************)
(* Retention never breaks the hash chain while transitions do not overlap: *)
(* the predecessor of every stored close snapshot is stored                *)
(* (pruneExpired, protectChain).                                           *)
(***************************************************************************)
THEOREM ChainNeverBroken == OneRequest => (Spec => []ChainIntact)
  BY SpecPInv, PInvChain, PTL

(***************************************************************************)
(* While transitions do not overlap, each close snapshot is chained to     *)
(* that of the close before it in the audit log (createSnapshot).          *)
(***************************************************************************)
THEOREM TrailFollowsLog == OneRequest => (Spec => []TrailChained)
  BY SpecPInv, PInvChain, PTL

(***************************************************************************)
(* While transitions do not overlap, the evidence of the last close is     *)
(* never pruned, reopened or not (chainTipSnapshotIds).                    *)
(***************************************************************************)
THEOREM EvidenceNeverLost == OneRequest => (Spec => []EvidenceKept)
  BY SpecPInv, PInvChain, PTL

(***************************************************************************)
(* While requests do not overlap, the snapshot of a closed period shows    *)
(* the roster it was closed with (transitionPeriod).                       *)
(***************************************************************************)
THEOREM SealIsTrue == OneRequest => (Spec => []SealMatches)
  <1>1. PInv => SealMatches
    BY DEF PInv
  <1> QED
    BY <1>1, SpecPInv, PTL

(***************************************************************************)
(* While requests do not overlap, a period that was ever published is      *)
(* never deleted, whatever retention has pruned (deletePeriod).            *)
(***************************************************************************)
THEOREM PublishedNeverDeleted == OneRequest => (Spec => []NeverDeletedOncePublished)
  <1>1. PInv => NeverDeletedOncePublished
    BY DEF PInv
  <1> QED
    BY <1>1, SpecPInv, PTL
===============================================================================
