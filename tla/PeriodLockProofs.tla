--------------------------- MODULE PeriodLockProofs ---------------------------
(***************************************************************************)
(* Proofs about PeriodLock.                                                *)
(***************************************************************************)
EXTENDS PeriodLock, TLAPS

USE ConstantsAssumption

\* A call's time is the past: what a steal finds expired is expired.
Past == \A p \in Process : "at" \in DOMAIN call[p] => call[p].at <= now

AcquireSteps == {"insert", "retry", "fetch", "renew", "steal"}
InAcquire    == [step : AcquireSteps, at : Time]
Locks        == [holder : {HolderOf[p] : p \in Process}, expires : TTL .. MaxTime + TTL]

-------------------------------------------------------------------------------
(***************************************************************************)
(* Entering keeps the types: acquire's row and lease fit the bounds.       *)
(***************************************************************************)
LEMMA EnterTyped ==
  ASSUME NEW p \in Process, TypeOK, call[p] \in InAcquire, Enter(p), UNCHANGED now
  PROVE  TypeOK'
<1>1. call[p].at \in Nat /\ call[p].at <= MaxTime
  BY DEF InAcquire, Time
<1>2. call[p].at + TTL \in TTL .. MaxTime + TTL
  BY <1>1
<1>3. row' \in Locks
  BY <1>2 DEF Enter, Locked, Locks
<1> QED
  BY <1>2, <1>3 DEF TypeOK, Enter, Continue, Locks, Time

(***************************************************************************)
(* A process in acquire has a record with the time it began.               *)
(***************************************************************************)
LEMMA Calling ==
  ASSUME TypeOK, NEW p \in Process, call[p].step \in AcquireSteps
  PROVE  call[p] \in InAcquire
BY DEF TypeOK, AcquireSteps, InAcquire, Idle

(***************************************************************************)
(* TypeOK, for every set of processes, TTL and clock                       *)
(* (PeriodLockService::acquire, release).                                  *)
(***************************************************************************)
THEOREM TypeCorrect == Spec => []TypeOK
<1>1. Init => TypeOK
  BY DEF Init, TypeOK, Time, Idle
<1>2. TypeOK /\ [Next]_vars => TypeOK'
  <2> SUFFICES ASSUME TypeOK, [Next]_vars PROVE TypeOK'
    OBVIOUS
  <2>1. ASSUME NEW p \in Process, Begin(p) PROVE TypeOK'
    BY <2>1 DEF TypeOK, Begin, Continue, Idle
  <2>2. ASSUME NEW p \in Process, Insert(p) PROVE TypeOK'
    <3>1. call[p] \in InAcquire
      BY <2>2, Calling DEF Insert, AcquireSteps
    <3> QED
      BY <2>2, <3>1, EnterTyped DEF Insert
  <2>3. ASSUME NEW p \in Process, InsertFails(p) PROVE TypeOK'
    <3>1. call[p] \in InAcquire
      BY <2>3, Calling DEF InsertFails, AcquireSteps
    <3> QED
      BY <2>3, <3>1 DEF TypeOK, InsertFails, Advance, Continue, InAcquire, AcquireSteps
  <2>4. ASSUME NEW p \in Process, Fetch(p) PROVE TypeOK'
    <3>1. call[p] \in InAcquire
      BY <2>4, Calling DEF Fetch, AcquireSteps
    <3> QED
      BY <2>4, <3>1 DEF TypeOK, Fetch, Advance, Continue, InAcquire, AcquireSteps
  <2>5. ASSUME NEW p \in Process, Update(p) PROVE TypeOK'
    <3>1. call[p] \in InAcquire
      BY <2>5, Calling DEF Update, AcquireSteps
    <3> QED
      BY <2>5, <3>1, EnterTyped DEF Update
  <2>6. ASSUME NEW p \in Process, UpdateFails(p) PROVE TypeOK'
    BY <2>6 DEF TypeOK, UpdateFails, Continue
  <2>7. ASSUME NEW p \in Process, Release(p) PROVE TypeOK'
    BY <2>7 DEF TypeOK, Release, Released, Continue
  <2>8. ASSUME NEW p \in Process, Die(p) PROVE TypeOK'
    BY <2>8 DEF TypeOK, Die, Continue
  <2>9. CASE Tick
    BY <2>9 DEF TypeOK, Tick, Time
  <2>10. CASE Wipe
    BY <2>10 DEF TypeOK, Wipe
  <2>11. CASE UNCHANGED vars
    BY <2>11 DEF TypeOK, vars
  <2> QED
    BY <2>1, <2>2, <2>3, <2>4, <2>5, <2>6, <2>7, <2>8, <2>9, <2>10, <2>11
       DEF Next, Acquire
<1> QED
  BY <1>1, <1>2, PTL DEF Spec

-------------------------------------------------------------------------------
(***************************************************************************)
(* No call begins in the future: acquire compares with the time it read    *)
(* first, and the clock only goes on.                                      *)
(***************************************************************************)
LEMMA BeganInThePast == Spec => []Past
<1>1. Init => Past
  BY DEF Init, Past, Idle
<1>2. TypeOK /\ Past /\ [Next]_vars => Past'
  <2> SUFFICES ASSUME TypeOK, Past, [Next]_vars PROVE Past'
    OBVIOUS
  <2> USE DEF Past, TypeOK, Time
  <2>1. ASSUME NEW p \in Process, Begin(p) PROVE Past'
    BY <2>1 DEF Begin, Continue
  <2>2. ASSUME NEW p \in Process, Insert(p) PROVE Past'
    BY <2>2 DEF Insert, Enter, Continue
  <2>3. ASSUME NEW p \in Process, InsertFails(p) PROVE Past'
    <3>1. call[p] \in InAcquire
      BY <2>3, Calling DEF InsertFails, AcquireSteps
    <3> QED
      BY <2>3, <3>1 DEF InsertFails, Advance, Continue, Idle, InAcquire
  <2>4. ASSUME NEW p \in Process, Fetch(p) PROVE Past'
    <3>1. call[p] \in InAcquire
      BY <2>4, Calling DEF Fetch, AcquireSteps
    <3> QED
      BY <2>4, <3>1 DEF Fetch, Advance, Continue, Idle, InAcquire
  <2>5. ASSUME NEW p \in Process, Update(p) PROVE Past'
    BY <2>5 DEF Update, Enter, Continue
  <2>6. ASSUME NEW p \in Process, UpdateFails(p) PROVE Past'
    BY <2>6 DEF UpdateFails, Continue, Idle
  <2>7. ASSUME NEW p \in Process, Release(p) PROVE Past'
    BY <2>7 DEF Release, Continue, Idle
  <2>8. ASSUME NEW p \in Process, Die(p) PROVE Past'
    BY <2>8 DEF Die, Continue, Idle
  <2>9. CASE Tick
    <3> SUFFICES ASSUME NEW p \in Process, "at" \in DOMAIN call[p] PROVE call[p].at <= now + 1
      BY <2>9 DEF Tick
    <3>1. call[p] \in InAcquire
      BY DEF InAcquire, AcquireSteps, Idle
    <3> QED
      BY <3>1 DEF InAcquire
  <2>10. CASE Wipe
    BY <2>10 DEF Wipe
  <2>11. CASE UNCHANGED vars
    BY <2>11 DEF vars
  <2> QED
    BY <2>1, <2>2, <2>3, <2>4, <2>5, <2>6, <2>7, <2>8, <2>9, <2>10, <2>11
       DEF Next, Acquire
<1> QED
  BY <1>1, <1>2, TypeCorrect, PTL DEF Spec

-------------------------------------------------------------------------------
(***************************************************************************)
(* A request at work with time left has its row, for every number of       *)
(* requests that race for it, if each has its own holder (acquire's        *)
(* guarded UPDATE, release's holder).                                      *)
(***************************************************************************)
THEOREM BackedByRow == OwnHolders => (Spec => []LeaseBacked)
<1> SUFFICES ASSUME OwnHolders PROVE Spec => []LeaseBacked
  OBVIOUS
<1>1. Init => LeaseBacked
  BY DEF Init, LeaseBacked, Covered, Idle
<1>2. TypeOK /\ Past /\ LeaseBacked /\ [Next]_vars => LeaseBacked'
  <2> SUFFICES ASSUME TypeOK, Past, LeaseBacked, [Next]_vars,
                      NEW q \in Process, Covered(q)'
               PROVE  row' # NULL /\ row'.holder = HolderOf[q] /\ row'.expires = lease'[q]
    BY DEF LeaseBacked
  <2> DEFINE Backed == row' # NULL /\ row'.holder = HolderOf[q] /\ row'.expires = lease'[q]
  \* A process that takes the lock is backed by the row it writes.
  <2>a. ASSUME NEW p \in Process, call[p] \in InAcquire, Enter(p), UNCHANGED now,
               ASSUME q # p, Covered(q) PROVE FALSE
        PROVE  Backed
    <3>1. CASE q = p
      <4>1. row' = Locked(p, call[p].at) /\ call[p].at + TTL \in Nat
        BY <2>a DEF Enter, InAcquire, Time
      <4>2. row' # NULL
        BY <4>1 DEF Locked
      <4> QED
        BY <2>a, <3>1, <4>1, <4>2 DEF Enter, Locked, TypeOK
    <3>2. CASE q # p
      <4>1. Covered(q)
        BY <2>a, <3>2 DEF Covered, Enter, Continue, TypeOK
      <4> QED
        BY <4>1, <3>2, <2>a
    <3> QED
      BY <3>1, <3>2
  <2>1. ASSUME NEW p \in Process, Begin(p) PROVE Backed
    BY <2>1 DEF Begin, Continue, LeaseBacked, Covered, TypeOK
  <2>2. ASSUME NEW p \in Process, Insert(p) PROVE Backed
    <3>1. call[p] \in InAcquire
      BY <2>2, Calling DEF Insert, AcquireSteps
    <3>2. ASSUME q # p, Covered(q) PROVE FALSE
      BY <2>2, <3>2 DEF Insert, LeaseBacked
    <3> QED
      BY <2>2, <2>a, <3>1, <3>2 DEF Insert
  <2>3. ASSUME NEW p \in Process, InsertFails(p) PROVE Backed
    BY <2>3 DEF InsertFails, Advance, Continue, Idle, LeaseBacked, Covered, TypeOK
  <2>4. ASSUME NEW p \in Process, Fetch(p) PROVE Backed
    BY <2>4 DEF Fetch, Advance, Continue, Idle, LeaseBacked, Covered, TypeOK
  <2>5. ASSUME NEW p \in Process, Update(p) PROVE Backed
    <3>1. call[p] \in InAcquire
      BY <2>5, Calling DEF Update, AcquireSteps
    <3>2. ASSUME q # p, Covered(q) PROVE FALSE
      <4>1. row # NULL /\ row.holder = HolderOf[q] /\ row.expires = lease[q] /\ now < lease[q]
        BY <3>2 DEF LeaseBacked, Covered
      <4>2. CASE call[p].step = "renew"
        BY <4>1, <4>2, <3>2, <2>5 DEF Update, UpdateHits, OwnHolders
      <4>3. CASE call[p].step # "renew"
        <5>1. row.expires <= call[p].at /\ call[p].at <= now
          BY <4>3, <2>5, <3>1 DEF Update, UpdateHits, StealGuard, Expired, Past, InAcquire
        <5> QED
          BY <5>1, <4>1, <3>1 DEF TypeOK, Time, InAcquire
      <4> QED
        BY <4>2, <4>3
    <3> QED
      BY <2>5, <2>a, <3>1, <3>2 DEF Update
  <2>6. ASSUME NEW p \in Process, UpdateFails(p) PROVE Backed
    BY <2>6 DEF UpdateFails, Continue, Idle, LeaseBacked, Covered, TypeOK
  <2>7. ASSUME NEW p \in Process, Release(p) PROVE Backed
    <3>1. q # p
      BY <2>7 DEF Release, Continue, Idle, Covered, TypeOK
    <3>2. Covered(q)
      BY <2>7, <3>1 DEF Release, Continue, Covered, TypeOK
    <3>3. row # NULL /\ row.holder = HolderOf[q] /\ row.expires = lease[q]
      BY <3>2 DEF LeaseBacked
    <3>4. row' = row /\ lease'[q] = lease[q]
      BY <2>7, <3>1, <3>3 DEF Release, Released, OwnHolders, TypeOK
    <3> QED
      BY <3>3, <3>4
  <2>8. ASSUME NEW p \in Process, Die(p) PROVE Backed
    BY <2>8 DEF Die, Continue, Idle, LeaseBacked, Covered, TypeOK
  <2>9. CASE Tick
    BY <2>9 DEF Tick, LeaseBacked, Covered, TypeOK, Time
  <2>10. CASE Wipe
    <3>1. lease'[q] = IF HolderOf[q] = row.holder THEN 0 ELSE lease[q]
      BY <2>10 DEF Wipe
    <3>2. HolderOf[q] # row.holder
      BY <2>10, <3>1 DEF Wipe, Covered, TypeOK, Time
    <3>3. Covered(q)
      BY <2>10, <3>1, <3>2 DEF Wipe, Covered
    <3> QED
      BY <3>2, <3>3 DEF LeaseBacked
  <2>11. CASE UNCHANGED vars
    BY <2>11 DEF vars, LeaseBacked, Covered
  <2> QED
    BY <2>1, <2>2, <2>3, <2>4, <2>5, <2>6, <2>7, <2>8, <2>9, <2>10, <2>11
       DEF Next, Acquire
<1> QED
  BY <1>1, <1>2, TypeCorrect, BeganInThePast, PTL DEF Spec

(***************************************************************************)
(* Mutual exclusion while the lease lasts, given holders of their own      *)
(* (PeriodLockService::acquire).                                           *)
(***************************************************************************)
THEOREM MutualExclusion == OwnHolders => (Spec => []LeaseExclusive)
<1> SUFFICES ASSUME OwnHolders PROVE Spec => []LeaseExclusive
  OBVIOUS
<1>1. LeaseBacked => LeaseExclusive
  BY DEF OwnHolders, LeaseBacked, LeaseExclusive
<1> QED
  BY <1>1, BackedByRow, PTL

-------------------------------------------------------------------------------
(***************************************************************************)
(* The row implements a lease, whatever the holders and the disturbances:  *)
(* acquire hands the lock on only when it is free or its lease is over.    *)
(***************************************************************************)
THEOREM LeaseImplemented == Spec => ImplementsLease
<1> DEFINE Key    == {HolderOf[p] : p \in Process}
           holder == IF row = NULL THEN NULL ELSE row.holder
           over   == row # NULL /\ row.expires <= now
<1>1. Init => L!Init
  BY DEF Init, L!Init
<1>2. TypeOK /\ Past /\ [Next]_vars => [L!Next]_L!vars
  <2> SUFFICES ASSUME TypeOK, Past, [Next]_vars PROVE [L!Next]_L!vars
    OBVIOUS
  <2>0. /\ \A p \in Process : HolderOf[p] \in Key
        /\ over' \in BOOLEAN
    OBVIOUS
  <2>s. ASSUME UNCHANGED <<row, now>> PROVE UNCHANGED L!vars
    BY <2>s DEF L!vars
  <2>e. ASSUME NEW p \in Process, call[p] \in InAcquire, Enter(p), row = NULL \/ over \/ row.holder = HolderOf[p],
               UNCHANGED now
        PROVE  L!Next
    <3>0. row' = Locked(p, call[p].at) /\ call[p].at + TTL \in Nat
      BY <2>e DEF Enter, InAcquire, Time
    <3>1. holder' = HolderOf[p]
      <4>1. row' # NULL
        BY <3>0 DEF Locked
      <4> QED
        BY <3>0, <4>1 DEF Locked
    <3>2. L!Take(HolderOf[p]) \/ L!Renew(HolderOf[p])
      BY <2>e, <3>1, <2>0 DEF L!Take, L!Renew
    <3> QED
      BY <3>2, <2>0 DEF L!Next
  <2>1. ASSUME NEW p \in Process, Begin(p) PROVE UNCHANGED L!vars
    BY <2>1, <2>s DEF Begin
  <2>2. ASSUME NEW p \in Process, Insert(p) PROVE L!Next
    <3>1. call[p] \in InAcquire
      BY <2>2, Calling DEF Insert, AcquireSteps
    <3> QED
      BY <2>2, <3>1, <2>e DEF Insert
  <2>3. ASSUME NEW p \in Process, InsertFails(p) PROVE UNCHANGED L!vars
    BY <2>3, <2>s DEF InsertFails
  <2>4. ASSUME NEW p \in Process, Fetch(p) PROVE UNCHANGED L!vars
    BY <2>4, <2>s DEF Fetch
  <2>5. ASSUME NEW p \in Process, Update(p) PROVE L!Next
    <3>1. call[p] \in InAcquire
      BY <2>5, Calling DEF Update, AcquireSteps
    <3>2. row # NULL /\ row \in Locks
      BY <2>5 DEF Update, UpdateHits, TypeOK, Locks
    <3>3. CASE call[p].step = "renew"
      BY <2>5, <3>1, <3>3, <2>e DEF Update, UpdateHits
    <3>4. CASE call[p].step # "renew"
      <4>1. row.expires <= call[p].at /\ call[p].at <= now
        BY <2>5, <3>1, <3>4 DEF Update, UpdateHits, StealGuard, Expired, Past, InAcquire
      <4>2. over
        BY <4>1, <3>1, <3>2 DEF Locks, InAcquire, Time, TypeOK
      <4> QED
        BY <2>5, <3>1, <4>2, <2>e DEF Update
    <3> QED
      BY <3>3, <3>4
  <2>6. ASSUME NEW p \in Process, UpdateFails(p) PROVE UNCHANGED L!vars
    BY <2>6, <2>s DEF UpdateFails
  <2>f. ASSUME row # NULL, row' = NULL PROVE L!Next
    <3>1. holder # NULL
      BY <2>f DEF TypeOK
    <3>2. holder' = NULL /\ over' = FALSE
      BY <2>f
    <3> QED
      BY <3>1, <3>2 DEF L!Next, L!Free
  <2>7. ASSUME NEW p \in Process, Release(p) PROVE L!Next \/ UNCHANGED L!vars
    BY <2>7, <2>f, <2>s DEF Release, Released
  <2>8. ASSUME NEW p \in Process, Die(p) PROVE UNCHANGED L!vars
    BY <2>8, <2>s DEF Die
  <2>9. CASE Tick
    <3>1. CASE over' = over
      BY <2>9, <3>1 DEF Tick, L!vars
    <3>2. CASE over' # over
      <4>1. row # NULL /\ row' = row
        BY <2>9, <3>2 DEF Tick
      <4>2. over'
        BY <2>9, <3>2, <4>1 DEF Tick, TypeOK, Time
      <4>3. holder # NULL /\ holder' = holder
        BY <4>1 DEF TypeOK
      <4> QED
        BY <4>2, <4>3 DEF L!Next, L!Expire
    <3> QED
      BY <3>1, <3>2
  <2>10. CASE Wipe
    BY <2>10, <2>f DEF Wipe
  <2>11. CASE UNCHANGED vars
    BY <2>11, <2>s DEF vars
  <2> QED
    BY <2>1, <2>2, <2>3, <2>4, <2>5, <2>6, <2>7, <2>8, <2>9, <2>10, <2>11
       DEF Next, Acquire
<1> QED
  BY <1>1, <1>2, TypeCorrect, BeganInThePast, PTL DEF Spec, ImplementsLease, L!Spec
===============================================================================
