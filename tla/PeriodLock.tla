------------------------------ MODULE PeriodLock ------------------------------
(***************************************************************************)
(* One row of dc_period_locks: PeriodLockService::acquire and release.     *)
(*                                                                         *)
(* acquire is up to four statements, each committed on its own: INSERT,    *)
(* else SELECT, else INSERT again or a guarded UPDATE.  It compares with   *)
(* the time at which it began.                                             *)
(***************************************************************************)
EXTENDS Naturals

CONSTANTS
  Process,      \* request processes
  HolderOf,     \* process -> the holder string it acquires with
  NULL,
  TTL,          \* ttlSeconds
  Disturbance,  \* what may happen: "die" (a process), "wipe" (deletePeriod)
  MaxTime       \* bound: the clock

ASSUME ConstantsAssumption ==
  /\ \A p \in Process : HolderOf[p] # NULL
  /\ NULL \notin [holder : {HolderOf[p] : p \in Process}, expires : Nat]
  /\ TTL \in Nat \ {0}
  /\ MaxTime \in Nat

VARIABLES
  row,     \* the lock row, NULL if there is none
  now,     \* the clock
  call,    \* process -> where it is in acquire, or at work under the lock
  lease    \* history: process -> until when it may rely on the lock

vars == <<row, now, call, lease>>

Idle == [step |-> "idle"]

\* Names ending in _Bug are wrong on purpose and used nowhere: PROJECT.json
\* puts each in the place of the definition it is named after.
Locked_Bug(p, at) ==
  [holder |-> HolderOf[p], expires |-> (IF row = NULL THEN at ELSE row.expires) + TTL]

Locked(p, at)    == [holder |-> HolderOf[p], expires |-> at + TTL]
Expired(at)      == row.expires <= at
Continue(p, c)   == call' = [call EXCEPT ![p] = c]
Advance(p, step) == Continue(p, [call[p] EXCEPT !.step = step])

Init ==
  /\ row = NULL
  /\ now = 0
  /\ call = [p \in Process |-> Idle]
  /\ lease = [p \in Process |-> 0]

\* The lock is taken: acquire returns TRUE.
Enter(p) ==
  /\ row' = Locked(p, call[p].at)
  /\ lease' = [lease EXCEPT ![p] = call[p].at + TTL]
  /\ Continue(p, [step |-> "work"])

-------------------------------------------------------------------------------
(* acquire.                                                                *)

Begin(p) ==
  /\ call[p] = Idle
  /\ Continue(p, [step |-> "insert", at |-> now])
  /\ UNCHANGED <<row, now, lease>>

\* The INSERT succeeds, at the first try or after the row was found gone.
Insert(p) ==
  /\ call[p].step \in {"insert", "retry"}
  /\ row = NULL
  /\ Enter(p)
  /\ UNCHANGED now

\* The INSERT violates the primary key.
InsertFails(p) ==
  /\ call[p].step \in {"insert", "retry"}
  /\ row # NULL
  /\ IF call[p].step = "insert" THEN Advance(p, "fetch") ELSE Continue(p, Idle)
  /\ UNCHANGED <<row, now, lease>>

\* The row decides: gone, still somebody else's, to renew, or to steal.
Fetch(p) ==
  /\ call[p].step = "fetch"
  /\ \/ row = NULL /\ Advance(p, "retry")
     \/ row # NULL /\ Expired(call[p].at) /\ Advance(p, "steal")
     \/ /\ row # NULL /\ ~Expired(call[p].at)
        /\ IF row.holder = HolderOf[p] THEN Advance(p, "renew") ELSE Continue(p, Idle)
  /\ UNCHANGED <<row, now, lease>>

StealGuard_Bug(p) == TRUE

\* Steal only if still expired.
StealGuard(p) == Expired(call[p].at)

\* UPDATE ... WHERE holder is this one, or WHERE expires_at <= now.
UpdateHits(p) ==
  /\ row # NULL
  /\ IF call[p].step = "renew" THEN row.holder = HolderOf[p] ELSE StealGuard(p)

Update(p) ==
  /\ call[p].step \in {"renew", "steal"}
  /\ UpdateHits(p)
  /\ Enter(p)
  /\ UNCHANGED now

\* No row was affected.
UpdateFails(p) ==
  /\ call[p].step \in {"renew", "steal"}
  /\ ~UpdateHits(p)
  /\ Continue(p, Idle)
  /\ UNCHANGED <<row, now, lease>>

-------------------------------------------------------------------------------
(* release.                                                                *)

Released_Bug(p) == NULL

\* DELETE ... WHERE holder is this one.
Released(p) == IF row # NULL /\ row.holder = HolderOf[p] THEN NULL ELSE row

Release(p) ==
  /\ call[p].step = "work"
  /\ row' = Released(p)
  /\ lease' = [lease EXCEPT ![p] = 0]
  /\ Continue(p, Idle)
  /\ UNCHANGED now

-------------------------------------------------------------------------------
(* Around it.                                                              *)

Tick ==
  /\ now < MaxTime
  /\ now' = now + 1
  /\ UNCHANGED <<row, call, lease>>

\* The process ends; its row stays.
Die(p) ==
  /\ "die" \in Disturbance
  /\ call[p] # Idle
  /\ Continue(p, Idle)
  /\ lease' = [lease EXCEPT ![p] = 0]
  /\ UNCHANGED <<row, now>>

\* deletePeriod deletes every lock whose period_id is the period's, also the
\* locks that store an employee's or an assignment's id there.  The holder is
\* not told, and goes on; the history notes that it has lost its lease.
Wipe ==
  /\ "wipe" \in Disturbance
  /\ row # NULL
  /\ row' = NULL
  /\ lease' = [p \in Process |-> IF HolderOf[p] = row.holder THEN 0 ELSE lease[p]]
  /\ UNCHANGED <<now, call>>

Acquire(p) ==
  Begin(p) \/ Insert(p) \/ InsertFails(p) \/ Fetch(p) \/ Update(p) \/ UpdateFails(p)

Next ==
  \/ \E p \in Process : Acquire(p) \/ Release(p) \/ Die(p)
  \/ Tick \/ Wipe

Spec == Init /\ [][Next]_vars

-------------------------------------------------------------------------------
Time == 0 .. MaxTime

TypeOK ==
  /\ row \in {NULL} \cup [holder : {HolderOf[p] : p \in Process}, expires : TTL .. MaxTime + TTL]
  /\ now \in Time
  /\ call \in [Process ->
       {Idle, [step |-> "work"]}
         \cup [step : {"insert", "retry", "fetch", "renew", "steal"}, at : Time]]
  /\ lease \in [Process -> {0} \cup (TTL .. MaxTime + TTL)]

\* No two processes acquire with the same holder: what mutual exclusion needs
\* from its callers.
OwnHolders == \A p, q \in Process : HolderOf[p] = HolderOf[q] => p = q

\* A process at work whose lease has not ended and was not wiped.
Covered(p) == call[p].step = "work" /\ now < lease[p]

(***************************************************************************)
(* Mutual exclusion for as long as the lease lasts: two requests are never *)
(* both at work under the same lock with time left, whatever inserts,      *)
(* steals and releases raced (PeriodLockService::acquire); only one whose  *)
(* row was wiped may find another beside it.                               *)
(***************************************************************************)
LeaseExclusive == \A p, q \in Process : Covered(p) /\ Covered(q) => p = q

(***************************************************************************)
(* A request at work with time left still has its row: nobody stole it or  *)
(* released it (release tests the holder, the steal the expiry).           *)
(***************************************************************************)
LeaseBacked ==
  \A p \in Process : Covered(p) =>
    row # NULL /\ row.holder = HolderOf[p] /\ row.expires = lease[p]

(***************************************************************************)
(* The row implements a lease: whatever statements race, the lock changes  *)
(* hands only when it is free or its lease is over.                        *)
(***************************************************************************)
L == INSTANCE Lease WITH
  Owner <- {HolderOf[p] : p \in Process},
  None  <- NULL,
  owner <- IF row = NULL THEN NULL ELSE row.holder,
  ended <- row # NULL /\ row.expires <= now

ImplementsLease == L!Spec
===============================================================================
