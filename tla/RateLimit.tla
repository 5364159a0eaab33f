------------------------------- MODULE RateLimit -------------------------------
(***************************************************************************)
(* The sliding window of ApiRateLimitService for one bucket.  A lock keeps  *)
(* the count and the row added after it together; a request that finds it  *)
(* taken is refused at once.                                               *)
(***************************************************************************)
EXTENDS Naturals, FiniteSets

CONSTANTS
  Caller,   \* requests
  None,
  Max,      \* maxPerWindow
  Window,   \* windowSeconds
  MaxTime   \* bound on the clock

VARIABLES
  now,
  rows,     \* dc_api_rate_limits of this bucket
  lock,     \* its row in dc_period_locks; a dead request's is "stale"
  caller,   \* what a request has read
  allowed   \* history: the rows there have been, each a request let through

vars == <<now, rows, lock, caller, allowed>>

Idle == [at |-> "idle"]

Init ==
  /\ now = 0
  /\ rows = {} /\ allowed = {}
  /\ lock = None
  /\ caller = [c \in Caller |-> Idle]

Goto(c, state) == caller' = [caller EXCEPT ![c] = state]

\* Without a look at the lock.
Acquire_Bug(c) ==
  /\ caller[c] = Idle
  /\ lock' = c
  /\ Goto(c, [at |-> "count"])
  /\ UNCHANGED <<now, rows, allowed>>

Acquire(c) ==
  /\ caller[c] = Idle
  /\ lock = None
  /\ lock' = c
  /\ Goto(c, [at |-> "count"])
  /\ UNCHANGED <<now, rows, allowed>>

\* Rows that have left the window are deleted, the others counted.
Count(c) ==
  /\ caller[c].at = "count"
  /\ rows' = {r \in rows : r.time + Window >= now}
  /\ Goto(c, IF Cardinality(rows') >= Max THEN [at |-> "release"] ELSE [at |-> "insert", time |-> now])
  /\ UNCHANGED <<now, lock, allowed>>

Insert(c) ==
  /\ caller[c].at = "insert"
  /\ LET row == [id |-> Cardinality(allowed) + 1, time |-> caller[c].time]
     IN rows' = rows \cup {row} /\ allowed' = allowed \cup {row}
  /\ Goto(c, [at |-> "release"])
  /\ UNCHANGED <<now, lock>>

Release(c) ==
  /\ caller[c].at = "release"
  /\ lock' = IF lock = c THEN None ELSE lock
  /\ Goto(c, Idle)
  /\ UNCHANGED <<now, rows, allowed>>

Die(c) ==
  /\ caller[c] # Idle
  /\ Goto(c, Idle)
  /\ lock' = IF lock = c THEN "stale" ELSE lock
  /\ UNCHANGED <<now, rows, allowed>>

\* The lease of a dead request ends; no living one outlasts its own.
Expire ==
  /\ lock = "stale"
  /\ lock' = None
  /\ UNCHANGED <<now, rows, caller, allowed>>

Tick ==
  /\ now < MaxTime
  /\ now' = now + 1
  /\ UNCHANGED <<rows, lock, caller, allowed>>

Next ==
  \/ \E c \in Caller : Acquire(c) \/ Count(c) \/ Insert(c) \/ Release(c) \/ Die(c)
  \/ Expire \/ Tick

Spec == Init /\ [][Next]_vars

-------------------------------------------------------------------------------
(* Properties.                                                             *)

\* No window of the bucket sees more requests let through than it may, though
\* rows are deleted as others are counted.
WindowKept ==
  \A t \in 0..MaxTime :
    Cardinality({r \in allowed : t <= r.time /\ r.time <= t + Window}) <= Max

-------------------------------------------------------------------------------
(* What is known at any time, for the proof.                               *)

TypeOK ==
  /\ now \in Nat
  /\ rows \subseteq allowed
  /\ allowed \subseteq [id : Nat, time : 0..now] /\ IsFiniteSet(allowed)
  /\ caller \in [Caller -> {Idle} \cup [at : {"count", "release"}]
                           \cup [at : {"insert"}, time : 0..now]]

LockHeld == \A c \in Caller : caller[c] # Idle => lock = c

Since(t) == {r \in allowed : r.time + Window >= t}

\* No row in the window is missing.
NotDeleted == Since(now) \subseteq rows

\* What a request has counted is all there is.
Room ==
  \A c \in Caller : caller[c].at = "insert" =>
    /\ Cardinality(Since(caller[c].time)) < Max
    /\ \A r \in allowed : r.time <= caller[c].time

IInv == TypeOK /\ LockHeld /\ NotDeleted /\ Room /\ WindowKept
===============================================================================
