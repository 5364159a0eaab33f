------------------------------ MODULE MirrorSync -------------------------------
(***************************************************************************)
(* The mirror of absences kept in ArbeitszeitCheck                          *)
(* (ArbeitszeitCheckIntegrationService).  A job, a command and a button     *)
(* reconcile it, one at a time by a lease, one user after the other.  The   *)
(* time at which the last complete run ended tells planners how old the     *)
(* mirror is; a time is given by what the absences were by then.            *)
(* A version stands for all absences of a user; who is linked is fixed.     *)
(***************************************************************************)
EXTENDS Naturals

CONSTANTS
  Run,        \* the processes that reconcile
  User,       \* the linked users
  None,
  MaxVersion  \* bound: changes of a user's absences

VARIABLES
  source,     \* ArbeitszeitCheck's absences, by user
  mirror,     \* dc_at_absence_mirror
  effective,  \* isEffective: both applications are there, and willing
  lease,      \* who has the lease; a dead run's is "stale"
  run,        \* what a run has still to do, and has read
  last        \* last_reconcile: when a run "ended", and, as history, for whom
              \* it was and when it "began"

vars == <<source, mirror, effective, lease, run, last>>

Idle == [at |-> "idle"]
Ending == [at |-> "release"]

Init ==
  /\ source = [u \in User |-> 1]
  /\ mirror = [u \in User |-> 0]
  /\ effective = TRUE
  /\ lease = None
  /\ run = [r \in Run |-> Idle]
  /\ last = None

Goto(r, state) == run' = [run EXCEPT ![r] = state]

-------------------------------------------------------------------------------
(* acquireSyncLease, releaseSyncLease.                                     *)

\* Without a look at the lease there is.
Acquire_Bug(r) ==
  /\ run[r] = Idle
  /\ lease' = r
  /\ Goto(r, [at |-> "start"])
  /\ UNCHANGED <<source, mirror, effective, last>>

\* Read, written and read again under an exclusive lock.
Acquire(r) ==
  /\ run[r] = Idle
  /\ lease = None
  /\ lease' = r
  /\ Goto(r, [at |-> "start"])
  /\ UNCHANGED <<source, mirror, effective, last>>

Release(r) ==
  /\ run[r].at = "release"
  /\ lease' = IF lease = r THEN None ELSE lease
  /\ Goto(r, Idle)
  /\ UNCHANGED <<source, mirror, effective, last>>

-------------------------------------------------------------------------------
(* runReconcile.                                                           *)

\* For every user, or for one that the command names.  The circuit breaker can
\* be open.
Start(r) ==
  /\ run[r].at = "start"
  /\ \/ /\ effective
        /\ \E users \in {User} \cup {{u} : u \in User} :
             Goto(r, [at |-> "next", todo |-> users, users |-> users, began |-> source])
     \/ Goto(r, Ending)
  /\ UNCHANGED <<source, mirror, effective, lease, last>>

\* The next chunk, of one user.  An empty answer is asked for twice.
ReadUser(r) ==
  /\ run[r].at = "next"
  /\ effective
  /\ \E u \in run[r].todo :
       Goto(r, [at |-> "write", todo |-> run[r].todo \ {u}, users |-> run[r].users,
                began |-> run[r].began, user |-> u, version |-> source[u]])
  /\ UNCHANGED <<source, mirror, effective, lease, last>>

\* The reader fails, or a write does.
Fails(r) ==
  /\ run[r].at \in {"next", "write"}
  /\ Goto(r, Ending)
  /\ UNCHANGED <<source, mirror, effective, lease, last>>

\* reconcileUser: upserts, then deletions.
ReconcileUser(r) ==
  /\ run[r].at = "write"
  /\ mirror' = [mirror EXCEPT ![run[r].user] = run[r].version]
  /\ Goto(r, [at |-> "next", todo |-> run[r].todo, users |-> run[r].users, began |-> run[r].began])
  /\ UNCHANGED <<source, effective, lease, last>>

\* The run ends early without an error when the integration is switched off,
\* its time is up or it has seen too many rows.
Incomplete_Bug(r) ==
  /\ run[r].at = "next"
  /\ last' = [users |-> run[r].users, began |-> run[r].began, ended |-> source]
  /\ Goto(r, Ending)
  /\ UNCHANGED <<source, mirror, effective, lease>>

Incomplete(r) ==
  /\ run[r].at = "next"
  /\ Goto(r, Ending)
  /\ UNCHANGED <<source, mirror, effective, lease, last>>

\* The time that is written is that of the end; a run for one user writes it
\* like any other.
Completed(r) ==
  /\ run[r].at = "next"
  /\ run[r].todo = {}
  /\ last' = [users |-> run[r].users, began |-> run[r].began, ended |-> source]
  /\ Goto(r, Ending)
  /\ UNCHANGED <<source, mirror, effective, lease>>

-------------------------------------------------------------------------------
(* The environment.                                                        *)

ChangeAbsence ==
  /\ \E u \in User : source[u] < MaxVersion /\ source' = [source EXCEPT ![u] = @ + 1]
  /\ UNCHANGED <<mirror, effective, lease, run, last>>

\* The intent is flipped, or the other application is switched off or on.
Switch ==
  /\ effective' = ~effective
  /\ UNCHANGED <<source, mirror, lease, run, last>>

\* A process that ends by itself gives its lease up; one that is killed does
\* not.
Die(r) ==
  /\ run[r] # Idle
  /\ Goto(r, Idle)
  /\ lease' \in IF lease = r THEN {None, "stale"} ELSE {lease}
  /\ UNCHANGED <<source, mirror, effective, last>>

\* The lease of a dead run ends; no living one outlasts its own.
Expire ==
  /\ lease = "stale"
  /\ lease' = None
  /\ UNCHANGED <<source, mirror, effective, run, last>>

Next ==
  \/ \E r \in Run :
       \/ Acquire(r) \/ Release(r)
       \/ Start(r) \/ ReadUser(r) \/ Fails(r) \/ ReconcileUser(r)
       \/ Incomplete(r) \/ Completed(r) \/ Die(r)
  \/ ChangeAbsence \/ Switch \/ Expire

Spec == Init /\ [][Next]_vars

-------------------------------------------------------------------------------
(* Properties.                                                             *)

\* For whom the last complete run was, the mirror is as recent as the time of
\* that run's end says, or, if the absences changed while the run was under way
\* and were read before that, as recent as its beginning.
AsRecentAsSaid ==
  last # None => \A u \in last.users :
    \/ mirror[u] >= last.ended[u]
    \/ last.began[u] < last.ended[u] /\ mirror[u] >= last.began[u]

-------------------------------------------------------------------------------
(* What is known at any time, for the proof.                               *)

Versions == [User -> Nat]

TypeOK ==
  /\ source \in Versions /\ mirror \in Versions
  /\ run \in [Run -> {Idle, Ending} \cup [at : {"start"}]
                \cup [at : {"next"}, todo : SUBSET User, users : SUBSET User, began : Versions]
                \cup [at : {"write"}, todo : SUBSET User, users : SUBSET User, began : Versions,
                      user : User, version : Nat]]
  /\ last # None => last \in [users : SUBSET User, began : Versions, ended : Versions]

LockHeld == \A r \in Run : run[r] # Idle => lease = r

\* What the last complete run saw is what a later one begins with, or older.
Grown ==
  /\ last # None => \A u \in User : last.began[u] <= source[u]
  /\ \A r \in Run : run[r].at \in {"next", "write"} => \A u \in User :
       /\ run[r].began[u] <= source[u]
       /\ last # None => last.began[u] <= run[r].began[u]

\* Whoever a run has dealt with is as recent as it must be.
Dealt ==
  \A r \in Run :
    /\ run[r].at = "write" => run[r].version >= run[r].began[run[r].user]
    /\ run[r].at \in {"next", "write"} => \A u \in run[r].users \ run[r].todo :
         mirror[u] >= run[r].began[u] \/ (run[r].at = "write" /\ u = run[r].user)

IInv == TypeOK /\ LockHeld /\ Grown /\ Dealt /\ AsRecentAsSaid
===============================================================================
