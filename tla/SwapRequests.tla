----------------------------- MODULE SwapRequests -----------------------------
(***************************************************************************)
(* Shift swaps: SwapService on the swap requests made for one assignment.  *)
(*                                                                         *)
(* A request for a swap is guarded by a lock with a lease (PeriodLock);    *)
(* every later move of a swap is a compare-and-set on its status.          *)
(* Applying a swap is one transaction over the status and the roster.      *)
(* After it has failed and rolled back, the code sets the status back once *)
(* more, outside the transaction.                                          *)
(***************************************************************************)
EXTENDS Naturals, Sequences

CONSTANTS
  Request,      \* request processes
  Planner,      \* those that may be a planner's
  Employee,
  NULL,         \* no employee: a swap with the pool; and no lock holder
  Bilateral,    \* swapApprovalMode is bilateral_auto
  Disturbance,  \* what may happen: "lapse" (a lease at work ends), "die"
  MaxSwaps      \* bound: swap requests made

VARIABLES
  swaps,    \* dc_swap_requests of the assignment, by id
  asg,      \* the assignment: its employee and status
  posted,   \* how many open shifts were posted in its place
  lock,     \* dc_period_locks: the request holding the lock, NULL if none
  op,       \* request -> what it has still to do
  applied   \* history: how often each swap was applied to the roster

vars == <<swaps, asg, posted, lock, op, applied>>

Idle == [step |-> "idle"]

OpenStatuses == {"pending", "pending_planner", "needs_planner", "accepted_by_counterparty"}
Done(status) == status \in {"approved", "applied"}

IsOpen(s) == swaps[s].status \in OpenStatuses
NoneOpen  == \A s \in DOMAIN swaps : ~IsOpen(s)

Init ==
  /\ swaps = <<>>
  /\ asg \in [emp : Employee, status : {"active"}]
  /\ posted = 0
  /\ lock = NULL
  /\ op = [r \in Request |-> Idle]
  /\ applied = [s \in 1 .. MaxSwaps |-> 0]

Continue(r, o) == op' = [op EXCEPT ![r] = o]

-------------------------------------------------------------------------------
(* requestSwap.                                                            *)

\* The employee of the assignment asks, for a colleague or the pool.
ReadRequest(r, to) ==
  /\ op[r] = Idle
  /\ asg.status = "active"
  /\ to # asg.emp
  /\ NoneOpen
  /\ Continue(r, [step |-> "lock", from |-> asg.emp, to |-> to])
  /\ UNCHANGED <<swaps, asg, posted, lock, applied>>

TakeLock(r) ==
  /\ op[r].step = "lock"
  /\ lock = NULL
  /\ lock' = r
  /\ Continue(r, [op[r] EXCEPT !.step = "recheck"])
  /\ UNCHANGED <<swaps, asg, posted, applied>>

LockBusy(r) ==
  /\ op[r].step = "lock"
  /\ lock # NULL
  /\ Continue(r, Idle)
  /\ UNCHANGED <<swaps, asg, posted, lock, applied>>

\* Names ending in _Bug are wrong on purpose and used nowhere: PROJECT.json
\* puts each in the place of the definition it is named after.
Recheck_Bug(r) ==
  /\ op[r].step = "recheck"
  /\ Continue(r, [op[r] EXCEPT !.step = "insert"])
  /\ UNCHANGED <<swaps, asg, posted, lock, applied>>

\* The second assertNoPendingSwapForAssignment, under the lock.
Recheck(r) ==
  /\ op[r].step = "recheck"
  /\ Continue(r, IF NoneOpen THEN [op[r] EXCEPT !.step = "insert"]
                             ELSE [step |-> "unlock"])
  /\ UNCHANGED <<swaps, asg, posted, lock, applied>>

Insert(r) ==
  /\ op[r].step = "insert"
  /\ Len(swaps) < MaxSwaps
  /\ swaps' = Append(swaps, [from |-> op[r].from, to |-> op[r].to, status |-> "pending"])
  /\ Continue(r, [step |-> "unlock"])
  /\ UNCHANGED <<asg, posted, lock, applied>>

\* release deletes the lock of this holder only.
Unlock(r) ==
  /\ op[r].step = "unlock"
  /\ lock' = IF lock = r THEN NULL ELSE lock
  /\ Continue(r, Idle)
  /\ UNCHANGED <<swaps, asg, posted, applied>>

-------------------------------------------------------------------------------
(* Moving a swap's status.                                                 *)

SetStatus(s, status) == [swaps EXCEPT ![s].status = status]

\* Withdrawing and rejecting read the status before they compare and set it.
ReadWithdraw(r, s) ==
  /\ op[r] = Idle
  /\ IsOpen(s)
  /\ Continue(r, [step |-> "move", swap |-> s, from |-> swaps[s].status, to |-> "withdrawn"])
  /\ UNCHANGED <<swaps, asg, posted, lock, applied>>

ReadReject(r, s) ==
  /\ op[r] = Idle /\ r \in Planner
  /\ IsOpen(s)
  /\ Continue(r, [step |-> "move", swap |-> s, from |-> swaps[s].status, to |-> "rejected"])
  /\ UNCHANGED <<swaps, asg, posted, lock, applied>>

\* UPDATE ... SET status WHERE status is the one read; else SWAP_NOT_PENDING.
Move(r) ==
  /\ op[r].step = "move"
  /\ LET s == op[r].swap IN
       swaps' = IF swaps[s].status = op[r].from THEN SetStatus(s, op[r].to) ELSE swaps
  /\ Continue(r, Idle)
  /\ UNCHANGED <<asg, posted, lock, applied>>

Applying(s, from, to, auto) ==
  [step |-> "apply", swap |-> s, from |-> from, to |-> to, auto |-> auto]

ToPlanner(s, to) ==
  [step |-> "move", swap |-> s, from |-> "accepted_by_counterparty", to |-> to]

\* acceptByCounterparty; a bilateral swap is applied at once unless
\* assertSwapGuards objects, which is left open here.
Accept(r, s) ==
  /\ op[r] = Idle
  /\ swaps[s].status = "pending"
  /\ swaps[s].to # NULL
  /\ swaps' = SetStatus(s, "accepted_by_counterparty")
  /\ IF Bilateral
       THEN \/ Continue(r, Applying(s, "accepted_by_counterparty", "applied", TRUE))
            \/ Continue(r, ToPlanner(s, "needs_planner"))
       ELSE Continue(r, ToPlanner(s, "pending_planner"))
  /\ UNCHANGED <<asg, posted, lock, applied>>

-------------------------------------------------------------------------------
(* Applying a swap.                                                        *)

\* review with the decision "approved", past the guards.
ReadApprove(r, s) ==
  /\ op[r] = Idle /\ r \in Planner
  /\ IsOpen(s)
  /\ Continue(r, Applying(s, swaps[s].status, "approved", FALSE))
  /\ UNCHANGED <<swaps, asg, posted, lock, applied>>

\* The pool gets an open shift and the assignment is cancelled, unless it
\* already is; a colleague gets it if the requester still has it.
ChangeRoster(s) ==
  IF swaps[s].to = NULL
    THEN /\ posted' = posted + 1
         /\ asg' = [asg EXCEPT !.status = "cancelled"]
    ELSE /\ asg.status = "active"
         /\ asg.emp = swaps[s].from
         /\ asg' = [asg EXCEPT !.emp = swaps[s].to]
         /\ UNCHANGED posted

Apply_Bug(r) ==
  /\ op[r].step = "apply"
  /\ LET s == op[r].swap IN
       /\ ChangeRoster(s)
       /\ swaps' = SetStatus(s, op[r].to)
       /\ applied' = [applied EXCEPT ![s] = @ + 1]
  /\ Continue(r, Idle)
  /\ UNCHANGED lock

\* applyApprovedSwap's transaction: the status first, then the roster.
Apply(r) ==
  /\ op[r].step = "apply"
  /\ LET s == op[r].swap IN
       /\ swaps[s].status = op[r].from
       /\ ChangeRoster(s)
       /\ swaps' = SetStatus(s, op[r].to)
       /\ applied' = [applied EXCEPT ![s] = @ + 1]
  /\ Continue(r, Idle)
  /\ UNCHANGED lock

\* The status is another one, or anything fails on the way: rolled back.  An
\* accept whose swap meets a conflict hands it to the planner.
ApplyFails(r) ==
  /\ op[r].step = "apply"
  /\ \E conflict \in BOOLEAN :
       /\ conflict => op[r].auto /\ swaps[op[r].swap].status = op[r].from
       /\ Continue(r, [step |-> "revert", swap |-> op[r].swap, from |-> op[r].from,
                       to |-> op[r].to, retry |-> conflict])
  /\ UNCHANGED <<swaps, asg, posted, lock, applied>>

\* The catch's UPDATE ... SET status back WHERE status is the final one; a
\* bilateral swap that did not fit then goes to the planner.
Revert(r) ==
  /\ op[r].step = "revert"
  /\ LET s == op[r].swap IN
       /\ swaps' = IF swaps[s].status = op[r].to THEN SetStatus(s, op[r].from) ELSE swaps
       /\ Continue(r, IF op[r].retry THEN ToPlanner(s, "needs_planner") ELSE Idle)
  /\ UNCHANGED <<asg, posted, lock, applied>>

-------------------------------------------------------------------------------
(* Around it.                                                              *)

\* A planner cancels the assignment or gives it to somebody else.
EditAssignment(r) ==
  /\ op[r] = Idle /\ r \in Planner
  /\ asg.status = "active"
  /\ \/ asg' = [asg EXCEPT !.status = "cancelled"]
     \/ \E e \in Employee \ {asg.emp} : asg' = [asg EXCEPT !.emp = e]
  /\ UNCHANGED <<swaps, posted, lock, op, applied>>

\* The lease ends and others may take the lock: its holder died, or is still
\* at work ("lapse").
Lapse ==
  /\ lock # NULL
  /\ op[lock].step \in {"recheck", "insert", "unlock"} => "lapse" \in Disturbance
  /\ lock' = NULL
  /\ UNCHANGED <<swaps, asg, posted, op, applied>>

\* The process ends; its lock stays until the lease does.
Die(r) ==
  /\ "die" \in Disturbance
  /\ op[r] # Idle
  /\ Continue(r, Idle)
  /\ UNCHANGED <<swaps, asg, posted, lock, applied>>

Next ==
  \/ \E r \in Request :
       \/ \E to \in Employee \cup {NULL} : ReadRequest(r, to)
       \/ \E s \in DOMAIN swaps :
            \/ ReadWithdraw(r, s) \/ ReadReject(r, s)
            \/ Accept(r, s) \/ ReadApprove(r, s)
       \/ TakeLock(r) \/ LockBusy(r) \/ Recheck(r) \/ Insert(r) \/ Unlock(r)
       \/ Move(r) \/ Apply(r) \/ ApplyFails(r) \/ Revert(r)
       \/ EditAssignment(r) \/ Die(r)
  \/ Lapse

Spec == Init /\ [][Next]_vars

-------------------------------------------------------------------------------
(***************************************************************************)
(* At most one swap of an assignment is unresolved, however requests,      *)
(* withdrawals and reviews interleave (requestSwap's re-check under the    *)
(* lock).                                                                  *)
(***************************************************************************)
OneOpenSwap == \A s, t \in DOMAIN swaps : IsOpen(s) /\ IsOpen(t) => s = t

(***************************************************************************)
(* A swap changes the roster once and only once, and what its status says  *)
(* is what happened to the roster: approved or applied exactly if it did   *)
(* (applyApprovedSwap's "CAS first" and its transaction).                  *)
(***************************************************************************)
AppliedOnce ==
  \A s \in DOMAIN swaps : applied[s] = IF Done(swaps[s].status) THEN 1 ELSE 0

(***************************************************************************)
(* No swap is applied a second time, whoever reviews it.                   *)
(***************************************************************************)
NoDoubleApply == \A s \in DOMAIN swaps : applied[s] <= 1
===============================================================================
