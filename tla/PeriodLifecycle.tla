---------------------------- MODULE PeriodLifecycle ----------------------------
(***************************************************************************)
(* One planning period: RosterService::transitionPeriod, deletePeriod and  *)
(* createSnapshot on dc_periods, dc_roster_snapshots, dc_period_audit_log, *)
(* and SnapshotRetentionService::pruneExpired on the snapshots.            *)
(*                                                                         *)
(* transitionPeriod runs in one transaction at READ COMMITTED: each query  *)
(* sees what others have committed by then, and its own writes are seen by *)
(* nobody before it commits.  So a transition is four steps, the read of   *)
(* the status, the reads of the snapshot, its INSERT, which draws the id,  *)
(* and the UPDATE guarded by the status that was read.  The UPDATE locks   *)
(* the row until the commit, so the two are one step.                      *)
(***************************************************************************)
EXTENDS Naturals, Sequences

CONSTANTS
  Request,      \* request processes
  MaxSnapshot,  \* bound: snapshot ids 1 .. MaxSnapshot
  MaxMoves,     \* bound: length of the audit log
  MaxEdit       \* bound: changes of the roster

ASSUME BoundsAssumption == {MaxSnapshot, MaxMoves, MaxEdit} \subseteq Nat

VARIABLES
  status,    \* dc_periods.status
  closeRef,  \* dc_periods.close_snapshot_id, 0 for NULL
  roster,    \* how often the period's assignments have changed
  snaps,     \* committed dc_roster_snapshots rows by id
  nextId,    \* the next id of the table's sequence
  audit,     \* dc_period_audit_log, in commit order
  aged,      \* ids of the rows older than the retention window
  pending,   \* request -> its open transaction
  pruner     \* the retention run in progress

vars == <<status, closeRef, roster, snaps, nextId, audit, aged, pending, pruner>>

Id      == 1 .. MaxSnapshot
NULL    == 0
Missing == [kind |-> "missing"]
Idle    == [step |-> "idle"]

Status    == {"open", "published", "closed"}
Snapshot  == [kind : {"publish", "close"}, prev : Id \cup {NULL}, roster : Nat]
Stored(i) == snaps[i] # Missing
Closes    == {i \in Id : snaps[i].kind = "close"}

NextStatus_Bug == [open |-> "published", published |-> "closed", closed |-> "reopened"]
NextStatus == [open |-> "published", published |-> "closed", closed |-> "open"]

Transaction ==
  {Idle}
    \cup [step : {"read"}, from : Status, to : Status, seen : Nat]
    \cup [step : {"captured"}, from : Status, to : Status, seen : Nat, snap : Snapshot]
    \cup [step : {"inserted"}, from : Status, to : Status, seen : Nat, snap : Snapshot,
          id : Id]
    \cup [step : {"delete"}, from : {"open"}, to : {"deleted"}, seen : Nat]

NoPrune == [phase |-> "idle"]

Init ==
  /\ status = "absent"
  /\ closeRef = NULL
  /\ roster = 0
  /\ snaps = [i \in Id |-> Missing]
  /\ nextId = 1
  /\ audit = <<>>
  /\ aged = {}
  /\ pending = [r \in Request |-> Idle]
  /\ pruner = NoPrune

-------------------------------------------------------------------------------
(* Transitions.                                                            *)

\* Names ending in _Bug are wrong on purpose and used nowhere: PROJECT.json
\* puts each in the place of the definition it is named after.
CreatePeriod(r) ==
  /\ pending[r] = Idle
  /\ status = "absent"
  /\ status' = "open"
  /\ UNCHANGED <<closeRef, roster, snaps, nextId, audit, aged, pending, pruner>>

\* An assignment of the period is created, changed or cancelled.
Edit_Bug(r) ==
  /\ pending[r] = Idle
  /\ status \in Status
  /\ roster < MaxEdit
  /\ roster' = roster + 1
  /\ UNCHANGED <<status, closeRef, snaps, nextId, audit, aged, pending, pruner>>

Edit(r) ==
  /\ pending[r] = Idle
  /\ status \in {"open", "published"}
  /\ roster < MaxEdit
  /\ roster' = roster + 1
  /\ UNCHANGED <<status, closeRef, snaps, nextId, audit, aged, pending, pruner>>

\* "seen" is not in the code: the moves committed when the status was read.
ReadStatus(r) ==
  /\ pending[r] = Idle
  /\ status \in Status
  /\ Len(audit) < MaxMoves
  /\ pending' = [pending EXCEPT ![r] =
       [step |-> "read", from |-> status, to |-> NextStatus[status], seen |-> Len(audit)]]
  /\ UNCHANGED <<status, closeRef, roster, snaps, nextId, audit, aged, pruner>>

\* latestCloseSnapshot: rows are ordered by their time of insertion.
Newest(S) == {i \in S : \A j \in S : j <= i}
First(S)  == IF S = {} THEN NULL ELSE CHOOSE i \in S : TRUE

LatestClose_Bug == First(Newest({i \in Id : Stored(i)}))
LatestClose     == First(Newest(Closes))

\* createSnapshot's reads; only a close is linked to its predecessor.
Capture(r) ==
  /\ pending[r].step = "read"
  /\ pending[r].to \in {"published", "closed"}
  /\ LET t == pending[r]
         closing == t.to = "closed" IN
       pending' = [pending EXCEPT ![r] =
         [step |-> "captured", from |-> t.from, to |-> t.to, seen |-> t.seen,
          snap |-> [kind   |-> IF closing THEN "close" ELSE "publish",
                    prev   |-> IF closing THEN LatestClose ELSE NULL,
                    roster |-> roster]]]
  /\ UNCHANGED <<status, closeRef, roster, snaps, nextId, audit, aged, pruner>>

InsertSnapshot(r) ==
  /\ pending[r].step = "captured"
  /\ nextId <= MaxSnapshot
  /\ LET t == pending[r] IN
       pending' = [pending EXCEPT ![r] =
         [step |-> "inserted", from |-> t.from, to |-> t.to, seen |-> t.seen,
          snap |-> t.snap, id |-> nextId]]
  /\ nextId' = nextId + 1
  /\ UNCHANGED <<status, closeRef, roster, snaps, audit, aged, pruner>>

Event(t, id) == [from |-> t.from, to |-> t.to, snapshot |-> id]

CommitSnapshot_Bug(r) ==
  /\ pending[r].step = "inserted"
  /\ LET t == pending[r] IN
       /\ status' = t.to
       /\ closeRef' = IF t.to = "closed" THEN t.id ELSE closeRef
       /\ snaps' = [snaps EXCEPT ![t.id] = t.snap]
       /\ audit' = Append(audit, Event(t, t.id))
  /\ pending' = [pending EXCEPT ![r] = Idle]
  /\ UNCHANGED <<roster, nextId, aged, pruner>>

\* UPDATE dc_periods ... WHERE status = from, the audit row, COMMIT.
CommitSnapshot(r) ==
  /\ pending[r].step = "inserted"
  /\ LET t == pending[r] IN
       /\ status = t.from
       /\ status' = t.to
       /\ closeRef' = IF t.to = "closed" THEN t.id ELSE closeRef
       /\ snaps' = [snaps EXCEPT ![t.id] = t.snap]
       /\ audit' = Append(audit, Event(t, t.id))
  /\ pending' = [pending EXCEPT ![r] = Idle]
  /\ UNCHANGED <<roster, nextId, aged, pruner>>

\* Reopening takes no snapshot and forgets the close snapshot.
CommitReopen(r) ==
  /\ pending[r].step = "read"
  /\ pending[r].to = "open"
  /\ status = pending[r].from
  /\ status' = "open"
  /\ closeRef' = NULL
  /\ audit' = Append(audit, Event(pending[r], NULL))
  /\ pending' = [pending EXCEPT ![r] = Idle]
  /\ UNCHANGED <<roster, snaps, nextId, aged, pruner>>

ReadDelete_Bug(r) ==
  /\ pending[r] = Idle
  /\ status = "open"
  /\ roster = 0
  /\ pending' = [pending EXCEPT ![r] =
       [step |-> "delete", from |-> "open", to |-> "deleted", seen |-> Len(audit)]]
  /\ UNCHANGED <<status, closeRef, roster, snaps, nextId, audit, aged, pruner>>

\* deletePeriod: no assignment was ever made, no snapshot is stored ...
ReadDelete(r) ==
  /\ pending[r] = Idle
  /\ status = "open"
  /\ roster = 0
  /\ \A i \in Id : ~Stored(i)
  /\ pending' = [pending EXCEPT ![r] =
       [step |-> "delete", from |-> "open", to |-> "deleted", seen |-> Len(audit)]]
  /\ UNCHANGED <<status, closeRef, roster, snaps, nextId, audit, aged, pruner>>

\* ... and DELETE ... WHERE status = 'open' after the audit row.
CommitDelete(r) ==
  /\ pending[r].step = "delete"
  /\ status = "open"
  /\ status' = "deleted"
  /\ audit' = Append(audit, Event(pending[r], NULL))
  /\ pending' = [pending EXCEPT ![r] = Idle]
  /\ UNCHANGED <<closeRef, roster, snaps, nextId, aged, pruner>>

\* Any error, a lost status guard, or the death of the process: rolled back,
\* except that a drawn id is gone.
Abort(r) ==
  /\ pending[r] # Idle
  /\ pending' = [pending EXCEPT ![r] = Idle]
  /\ UNCHANGED <<status, closeRef, roster, snaps, nextId, audit, aged, pruner>>

-------------------------------------------------------------------------------
(* Retention.                                                              *)

\* protectChain: what a snapshot's prev_snapshot_id leads to.
Ancestors[i \in 0 .. MaxSnapshot] ==
  IF i # NULL /\ Stored(i) /\ snaps[i].prev # NULL
    THEN {snaps[i].prev} \cup Ancestors[snaps[i].prev]
    ELSE {}

ChainTipsClosedOnly_Bug == IF status = "closed" THEN {closeRef} ELSE {}
ChainTipsLatestOnly_Bug == {LatestClose}

\* chainTipSnapshotIds.
ChainTips == {LatestClose} \cup (IF status = "closed" THEN {closeRef} ELSE {})

ProtectedTipsOnly_Bug == ChainTips
Protected == ChainTips \cup UNION {Ancestors[i] : i \in ChainTips}

\* A request or a retention run ends well within the retention window.
Age ==
  /\ pruner = NoPrune
  /\ \A r \in Request : pending[r] = Idle
  /\ \E k \in Id : aged' = {i \in 1 .. k : Stored(i)} /\ aged \subseteq aged' /\ aged' # aged
  /\ UNCHANGED <<status, closeRef, roster, snaps, nextId, audit, pending, pruner>>

\* pruneExpired computes the protected ids, then selects the old rows.
StartPrune ==
  /\ pruner = NoPrune
  /\ pruner' = [phase |-> "deleting", left |-> aged \ Protected]
  /\ UNCHANGED <<status, closeRef, roster, snaps, nextId, audit, aged, pending>>

\* One DELETE, committed on its own, in the order the rows happen to come.
PruneOne ==
  /\ pruner # NoPrune
  /\ \E i \in pruner.left :
       /\ snaps' = [snaps EXCEPT ![i] = Missing]
       /\ aged' = aged \ {i}
       /\ pruner' = [pruner EXCEPT !.left = @ \ {i}]
  /\ UNCHANGED <<status, closeRef, roster, nextId, audit, pending>>

\* All rows deleted, or the run failed on the way.
EndPrune ==
  /\ pruner # NoPrune
  /\ pruner' = NoPrune
  /\ UNCHANGED <<status, closeRef, roster, snaps, nextId, audit, aged, pending>>

-------------------------------------------------------------------------------
Transition(r) ==
  \/ ReadStatus(r) \/ Capture(r) \/ InsertSnapshot(r)
  \/ CommitSnapshot(r) \/ CommitReopen(r)

Next ==
  \/ \E r \in Request :
       \/ CreatePeriod(r) \/ Edit(r) \/ Transition(r)
       \/ ReadDelete(r) \/ CommitDelete(r) \/ Abort(r)
  \/ Age \/ StartPrune \/ PruneOne \/ EndPrune

Spec == Init /\ [][Next]_vars

-------------------------------------------------------------------------------
TypeOK ==
  /\ status \in Status \cup {"absent", "deleted"}
  /\ closeRef \in Id \cup {NULL}
  /\ roster \in Nat
  /\ snaps \in [Id -> Snapshot \cup {Missing}]
  /\ nextId \in 1 .. MaxSnapshot + 1
  /\ audit \in Seq([from : Status, to : Status \cup {"deleted"},
                    snapshot : Id \cup {NULL}])
  /\ aged \subseteq Id
  /\ pending \in [Request -> Transaction]
  /\ pruner \in {NoPrune} \cup [phase : {"deleting"}, left : SUBSET Id]

(***************************************************************************)
(* Concurrent transitions and deletions still move the period one step of  *)
(* its cycle at a time, and the audit log is exactly that walk: it can be  *)
(* replayed to the current status (transitionPeriod, deletePeriod).        *)
(***************************************************************************)
Cycle == INSTANCE PeriodCycle WITH log <- [i \in DOMAIN audit |-> audit[i].to]

FollowsCycle == Cycle!Spec

(***************************************************************************)
(* A closed period refers to a stored close snapshot, retention runs or    *)
(* not, and no other period refers to one.                                 *)
(***************************************************************************)
CloseRefStored ==
  /\ status = "closed" <=> closeRef # NULL
  /\ closeRef # NULL => closeRef \in Closes

(***************************************************************************)
(* Retention never breaks the hash chain: the predecessor of every stored  *)
(* close snapshot is stored, also while a retention run is half done (this *)
(* is what verifyPeriodSnapshots checks).                                  *)
(***************************************************************************)
ChainIntact == \A i \in Closes : snaps[i].prev # NULL => Stored(snaps[i].prev)

\* The places in the audit log where the period was closed.
Closings == {n \in DOMAIN audit : audit[n].to = "closed"}

(***************************************************************************)
(* Each close snapshot is chained to that of the close before it in the    *)
(* audit log, whatever was reopened, aborted or pruned in between.         *)
(***************************************************************************)
TrailChained ==
  \A n \in Closings :
    LET id     == audit[n].snapshot
        before == {m \in Closings : m < n} IN
      Stored(id) =>
        /\ before = {} => snaps[id].prev = NULL
        /\ \A m \in Newest(before) : snaps[id].prev = audit[m].snapshot

(***************************************************************************)
(* The evidence of the last close survives every retention run, also after *)
(* reopening has cleared close_snapshot_id.                                *)
(***************************************************************************)
EvidenceKept == \A n \in Newest(Closings) : Stored(audit[n].snapshot)

(***************************************************************************)
(* What a closed period's snapshot shows is the roster it was closed with. *)
(***************************************************************************)
SealMatches == status = "closed" => snaps[closeRef].roster = roster

(***************************************************************************)
(* A period that was ever published is never deleted: deletePeriod counts  *)
(* stored snapshots, so this needs retention to keep one.                  *)
(***************************************************************************)
NeverDeletedOncePublished ==
  status = "deleted" => \A n \in DOMAIN audit : audit[n].to # "published"
===============================================================================
