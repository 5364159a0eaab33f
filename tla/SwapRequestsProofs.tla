--------------------------- MODULE SwapRequestsProofs ---------------------------
(***************************************************************************)
(* What SwapRequests guarantees for any number of employees, requests and  *)
(* swaps where one planner reviews them and no lease ends at work: one     *)
(* swap of an assignment is open at a time, and each is applied once.      *)
(*                                                                         *)
(* The catch of applyApprovedSwap sets the status back if it is the one    *)
(* that was to be set.  Only another review that came to the same end can  *)
(* have set it, and with one planner there is none: Revert finds nothing   *)
(* to undo.  That is the heart of the invariant; with two planners it is   *)
(* lost, and so are both properties.                                       *)
(***************************************************************************)
EXTENDS SwapRequests, TLAPS

Usual ==
  /\ NULL \notin Request /\ NULL \notin Employee
  /\ MaxSwaps \in Nat
  /\ "lapse" \notin Disturbance
  /\ \A p, q \in Planner : p = q

Status == OpenStatuses \cup {"approved", "applied", "rejected", "withdrawn"}

Swap == [from : Employee, to : Employee \cup {NULL}, status : Status]

Id == 1 .. MaxSwaps

\* Moves that a request may still have to make.
MoveOp ==
  [step : {"move"}, swap : Id, from : OpenStatuses,
   to : {"withdrawn", "rejected", "needs_planner", "pending_planner"}]

ApplyOp ==
  [step : {"apply"}, swap : Id, from : OpenStatuses, to : {"approved", "applied"},
   auto : BOOLEAN]

RevertOp ==
  [step : {"revert"}, swap : Id, from : OpenStatuses, to : {"approved", "applied"},
   retry : BOOLEAN]

Op ==
  {Idle, [step |-> "unlock"]}
    \cup [step : {"lock", "recheck", "insert"}, from : Employee, to : Employee \cup {NULL}]
    \cup MoveOp \cup ApplyOp \cup RevertOp

TypeOK ==
  /\ swaps \in Seq(Swap) /\ Len(swaps) <= MaxSwaps
  /\ asg \in [emp : Employee, status : {"active", "cancelled"}]
  /\ lock \in Request \cup {NULL}
  /\ op \in [Request -> Op]
  /\ applied \in [Id -> Nat]

\* What a request does to a swap, it does to one that was made.
Known ==
  /\ \A r \in Request :
       op[r].step \in {"move", "apply", "revert"} => op[r].swap \in DOMAIN swaps
  /\ \A s \in Id : s \notin DOMAIN swaps => applied[s] = 0

\* Who asks for a swap works under the lock, and what was checked there holds.
Locked ==
  \A r \in Request :
    /\ op[r].step \in {"recheck", "insert", "unlock"} => lock = r
    /\ op[r].step = "insert" => NoneOpen

\* Applications under way: a planner's ends in "approved", that of the colleague
\* who accepted in "applied"; the swap has not come to that end yet, and none
\* other is on the way there.
Working(r) == op[r].step \in {"apply", "revert"}

Alone ==
  \A r \in Request : Working(r) =>
    /\ op[r].to = "approved" => r \in Planner
    /\ op[r].to = "applied" => swaps[op[r].swap].status # "pending"
    /\ swaps[op[r].swap].status # op[r].to
    /\ \A q \in Request :
         Working(q) /\ op[q].swap = op[r].swap /\ op[q].to = op[r].to => q = r

IInv ==
  /\ TypeOK
  /\ Known
  /\ Locked
  /\ Alone
  /\ OneOpenSwap
  /\ AppliedOnce

-------------------------------------------------------------------------------
(* Types.                                                                  *)

Asking == [step : {"lock", "recheck", "insert"}, from : Employee, to : Employee \cup {NULL}]

LEMMA OpTypes ==
  ASSUME NEW o \in Op
  PROVE  /\ o.step \in {"lock", "recheck", "insert"} => o \in Asking
         /\ o.step = "move" => o \in MoveOp
         /\ o.step = "apply" => o \in ApplyOp
         /\ o.step = "revert" => o \in RevertOp
  BY DEF Op, Asking, MoveOp, ApplyOp, RevertOp, Idle

\* What a request does to a swap, it does to one that was made.
LEMMA KnownSwap ==
  ASSUME TypeOK, Known, NEW r \in Request, op[r].step \in {"move", "apply", "revert"}
  PROVE  /\ op[r].swap \in DOMAIN swaps /\ op[r].swap \in Id
         /\ op[r].from \in OpenStatuses /\ op[r].to \in Status
         /\ op[r].step = "move" => op[r] \in MoveOp
         /\ op[r].step # "move" => op[r].to \in {"approved", "applied"}
         /\ op[r].step = "apply" => op[r] \in ApplyOp
         /\ op[r].step = "revert" => op[r] \in RevertOp
  <1>1. op[r] \in Op
    BY DEF TypeOK
  <1>2. op[r].swap \in DOMAIN swaps
    BY DEF Known
  <1>3. /\ op[r].step = "move" => op[r] \in MoveOp
        /\ op[r].step = "apply" => op[r] \in ApplyOp
        /\ op[r].step = "revert" => op[r] \in RevertOp
    BY <1>1, OpTypes
  <1>4. CASE op[r].step = "move"
    BY <1>2, <1>3, <1>4 DEF MoveOp, Status, OpenStatuses
  <1>5. CASE op[r].step = "apply"
    BY <1>2, <1>3, <1>5 DEF ApplyOp, Status
  <1>6. CASE op[r].step = "revert"
    BY <1>2, <1>3, <1>6 DEF RevertOp, Status
  <1> QED
    BY <1>4, <1>5, <1>6

LEMMA Made ==
  ASSUME TypeOK, Usual
  PROVE  /\ DOMAIN swaps = 1 .. Len(swaps) /\ Len(swaps) \in Nat
         /\ \A s \in DOMAIN swaps : s \in Id /\ swaps[s] \in Swap
         /\ Len(swaps) < MaxSwaps => Len(swaps) + 1 \in Id
  BY DEF TypeOK, Usual, Id

LEMMA SetStatusTo ==
  ASSUME TypeOK, NEW s \in DOMAIN swaps, NEW st \in Status,
         NEW new, new = SetStatus(s, st)
  PROVE  /\ new \in Seq(Swap) /\ Len(new) = Len(swaps) /\ DOMAIN new = DOMAIN swaps
         /\ new[s].status = st
         /\ \A t \in DOMAIN swaps : t # s => new[t] = swaps[t]
  <1> DEFINE c == [swaps[s] EXCEPT !.status = st]
  <1>1. swaps[s] \in Swap /\ swaps \in Seq(Swap)
    BY DEF TypeOK
  <1>2. c \in Swap /\ c.status = st
    BY <1>1 DEF Swap
  <1>3. new = [swaps EXCEPT ![s] = c]
    BY DEF SetStatus
  <1> HIDE DEF c
  <1> QED
    BY <1>1, <1>2, <1>3

-------------------------------------------------------------------------------
(* What a step does to the swaps.                                          *)

\* One planner: a revert finds nothing to undo.
LEMMA NothingToRevert ==
  ASSUME IInv, NEW r \in Request, Revert(r)
  PROVE  swaps' = swaps
  BY DEF IInv, Alone, Working, Revert

\* An open swap gets another status, and is applied if that one says so.
Resolves(s, st) ==
  /\ s \in DOMAIN swaps /\ IsOpen(s)
  /\ st \in Status \ {"pending"}
  /\ swaps' = SetStatus(s, st)
  /\ applied' = IF Done(st) THEN [applied EXCEPT ![s] = @ + 1] ELSE applied

LEMMA MoveResolves ==
  ASSUME IInv, NEW r \in Request, Move(r)
  PROVE  /\ UNCHANGED applied
         /\ swaps' = swaps \/ Resolves(op[r].swap, op[r].to)
  <1>1. TypeOK /\ Known /\ op[r].step = "move"
    BY DEF IInv, Move
  <1>2. op[r] \in MoveOp /\ op[r].swap \in DOMAIN swaps /\ op[r].from \in OpenStatuses
    BY <1>1, KnownSwap
  <1>3. op[r].to \in Status \ {"pending"} /\ ~Done(op[r].to)
    BY <1>2 DEF MoveOp, Status, OpenStatuses, Done
  <1> QED
    BY <1>2, <1>3 DEF Move, Resolves, IsOpen

LEMMA AcceptResolves ==
  ASSUME IInv, NEW r \in Request, NEW s \in DOMAIN swaps, Accept(r, s)
  PROVE  Resolves(s, "accepted_by_counterparty")
  BY DEF Accept, Resolves, IsOpen, OpenStatuses, Status, Done

LEMMA ApplyResolves ==
  ASSUME IInv, NEW r \in Request, Apply(r)
  PROVE  /\ Resolves(op[r].swap, op[r].to)
         /\ op[r].to \in {"approved", "applied"}
  <1>1. TypeOK /\ Known /\ op[r].step = "apply"
    BY DEF IInv, Apply
  <1>2. /\ op[r].swap \in DOMAIN swaps /\ op[r].from \in OpenStatuses
        /\ op[r].to \in {"approved", "applied"} /\ op[r].to \in Status \ {"pending"}
    BY <1>1, KnownSwap
  <1> QED
    BY <1>2 DEF Apply, Resolves, IsOpen, Done

\* Every step leaves the swaps alone, adds one, or resolves one.
LEMMA Effects ==
  ASSUME IInv, [Next]_vars
  PROVE  \/ UNCHANGED <<swaps, applied>>
         \/ \E r \in Request : Insert(r)
         \/ \E s \in DOMAIN swaps, st \in Status : Resolves(s, st)
  <1> DEFINE Goal == \/ UNCHANGED <<swaps, applied>>
                     \/ \E r \in Request : Insert(r)
                     \/ \E s \in DOMAIN swaps, st \in Status : Resolves(s, st)
  <1>1. ASSUME NEW s, NEW st, Resolves(s, st) PROVE Goal
    BY <1>1 DEF Resolves
  <1>2. ASSUME NEW r \in Request, Move(r) PROVE Goal
    BY <1>1, <1>2, MoveResolves
  <1>3. ASSUME NEW r \in Request, NEW s \in DOMAIN swaps, Accept(r, s) PROVE Goal
    BY <1>1, <1>3, AcceptResolves
  <1>4. ASSUME NEW r \in Request, Apply(r) PROVE Goal
    BY <1>1, <1>4, ApplyResolves
  <1>5. ASSUME NEW r \in Request, Revert(r) PROVE Goal
    BY <1>5, NothingToRevert DEF Revert
  <1>6. ASSUME NEW r \in Request, Insert(r) PROVE Goal
    BY <1>6
  <1>7. ASSUME UNCHANGED <<swaps, applied>> PROVE Goal
    BY <1>7
  <1> HIDE DEF Goal
  <1>8. Goal
    BY <1>2, <1>3, <1>4, <1>5, <1>6, <1>7
       DEF Next, vars, ReadRequest, TakeLock, LockBusy, Recheck, Unlock, ReadWithdraw,
           ReadReject, ReadApprove, ApplyFails, EditAssignment, Die, Lapse
  <1> QED
    BY <1>8 DEF Goal

-------------------------------------------------------------------------------
(* Each part of the invariant is kept.                                     *)

LEMMA InitIInv == Usual /\ Init => IInv
  <1> SUFFICES ASSUME Usual, Init PROVE IInv
    OBVIOUS
  <1>1. DOMAIN swaps = {} /\ Len(swaps) = 0 /\ swaps \in Seq(Swap)
    BY DEF Init
  <1>2. \A r \in Request : op[r].step = "idle"
    BY DEF Init, Idle
  <1>3. TypeOK
    BY <1>1 DEF Init, TypeOK, Op, Usual, Id
  <1>4. Known /\ Locked /\ Alone
    BY <1>2 DEF Init, Known, Locked, Alone, Working, Id
  <1>5. OneOpenSwap /\ AppliedOnce
    BY <1>1 DEF OneOpenSwap, AppliedOnce
  <1> QED
    BY <1>3, <1>4, <1>5 DEF IInv

LEMMA InsertAdds ==
  ASSUME IInv, Usual, NEW r \in Request, Insert(r)
  PROVE  /\ \A s : s \in DOMAIN swaps' <=> s \in DOMAIN swaps \/ s = Len(swaps) + 1
         /\ \A s \in DOMAIN swaps : swaps'[s] = swaps[s] /\ s # Len(swaps) + 1
         /\ swaps'[Len(swaps) + 1].status = "pending"
         /\ swaps' \in Seq(Swap) /\ Len(swaps') <= MaxSwaps
         /\ Len(swaps) + 1 \in Id /\ Len(swaps) + 1 \notin DOMAIN swaps
         /\ NoneOpen /\ UNCHANGED applied
  <1> DEFINE new == [from |-> op[r].from, to |-> op[r].to, status |-> "pending"]
  <1>1. TypeOK /\ op[r].step = "insert" /\ NoneOpen
    BY DEF IInv, Locked, Insert
  <1>2. op[r] \in Asking
    BY <1>1, OpTypes DEF TypeOK
  <1>3. new \in Swap /\ new.status = "pending"
    BY <1>2 DEF Asking, Swap, Status, OpenStatuses
  <1>4. swaps' = Append(swaps, new) /\ Len(swaps) < MaxSwaps /\ UNCHANGED applied
    BY DEF Insert
  <1>5. swaps \in Seq(Swap) /\ Len(swaps) + 1 \in Id /\ MaxSwaps \in Nat
    BY <1>1, <1>4, Made DEF TypeOK, Usual
  <1> HIDE DEF new
  <1>6. /\ swaps' \in Seq(Swap) /\ Len(swaps') = Len(swaps) + 1
        /\ DOMAIN swaps = 1 .. Len(swaps) /\ DOMAIN swaps' = 1 .. Len(swaps) + 1
        /\ \A s \in 1 .. Len(swaps) : swaps'[s] = swaps[s]
        /\ swaps'[Len(swaps) + 1] = new /\ Len(swaps) \in Nat
    BY <1>3, <1>4, <1>5
  <1> QED
    BY <1>1, <1>3, <1>4, <1>5, <1>6

LEMMA ResolvesTypes ==
  ASSUME TypeOK, NEW s, NEW st, Resolves(s, st)
  PROVE  /\ swaps' \in Seq(Swap) /\ Len(swaps') = Len(swaps) /\ DOMAIN swaps' = DOMAIN swaps
         /\ swaps'[s].status = st
         /\ \A t \in DOMAIN swaps : t # s => swaps'[t] = swaps[t]
  <1>1. s \in DOMAIN swaps /\ st \in Status
    BY DEF Resolves
  <1> QED
    BY <1>1, SetStatusTo DEF Resolves

LEMMA NextSwapTypes ==
  ASSUME IInv, Usual, [Next]_vars
  PROVE  /\ swaps' \in Seq(Swap) /\ Len(swaps') <= MaxSwaps
         /\ DOMAIN swaps \subseteq DOMAIN swaps'
         /\ applied' \in [Id -> Nat]
         /\ \A s \in Id : s \notin DOMAIN swaps' => applied'[s] = 0
  <1>0. TypeOK /\ Known
    BY DEF IInv
  <1>1. CASE UNCHANGED <<swaps, applied>>
    BY <1>0, <1>1 DEF TypeOK, Known
  <1>2. ASSUME NEW r \in Request, Insert(r)
        PROVE  /\ swaps' \in Seq(Swap) /\ Len(swaps') <= MaxSwaps
               /\ DOMAIN swaps \subseteq DOMAIN swaps'
               /\ applied' \in [Id -> Nat]
               /\ \A s \in Id : s \notin DOMAIN swaps' => applied'[s] = 0
    BY <1>0, <1>2, InsertAdds DEF TypeOK, Known
  <1>3. ASSUME NEW s \in DOMAIN swaps, NEW st \in Status, Resolves(s, st)
        PROVE  /\ swaps' \in Seq(Swap) /\ Len(swaps') <= MaxSwaps
               /\ DOMAIN swaps \subseteq DOMAIN swaps'
               /\ applied' \in [Id -> Nat]
               /\ \A t \in Id : t \notin DOMAIN swaps' => applied'[t] = 0
    <2>1. s \in Id
      BY <1>0, Made
    <2>2. applied' \in [Id -> Nat] /\ \A t \in Id : t # s => applied'[t] = applied[t]
      BY <1>0, <1>3, <2>1 DEF Resolves, TypeOK
    <2> QED
      BY <1>0, <1>3, <2>2, ResolvesTypes DEF TypeOK, Known
  <1> QED
    BY <1>1, <1>2, <1>3, Effects

LEMMA NextOnce ==
  ASSUME IInv, Usual, [Next]_vars
  PROVE  OneOpenSwap' /\ AppliedOnce'
  <1>0. TypeOK /\ Known /\ OneOpenSwap /\ AppliedOnce
    BY DEF IInv
  <1>1. CASE UNCHANGED <<swaps, applied>>
    BY <1>0, <1>1 DEF OneOpenSwap, AppliedOnce, IsOpen
  <1>2. ASSUME NEW r \in Request, Insert(r) PROVE OneOpenSwap' /\ AppliedOnce'
    <2>0. PICK n : n = Len(swaps) + 1
      OBVIOUS
    <2>1. /\ \A s : s \in DOMAIN swaps' <=> s \in DOMAIN swaps \/ s = n
          /\ \A s \in DOMAIN swaps : swaps'[s] = swaps[s] /\ s # n
          /\ swaps'[n].status = "pending" /\ n \in Id /\ n \notin DOMAIN swaps
          /\ NoneOpen /\ UNCHANGED applied
      BY <1>2, <2>0, InsertAdds
    <2>2. applied[n] = 0 /\ ~Done("pending")
      BY <1>0, <2>1 DEF Known, Done
    <2>3. \A s \in DOMAIN swaps : ~(swaps'[s].status \in OpenStatuses)
      BY <2>1 DEF NoneOpen, IsOpen
    <2>4. OneOpenSwap'
      BY <2>1, <2>3 DEF OneOpenSwap, IsOpen
    <2>5. AppliedOnce'
      BY <1>0, <2>1, <2>2 DEF AppliedOnce
    <2> QED
      BY <2>4, <2>5
  <1>3. ASSUME NEW s \in DOMAIN swaps, NEW st \in Status, Resolves(s, st)
        PROVE  OneOpenSwap' /\ AppliedOnce'
    <2>1. /\ DOMAIN swaps' = DOMAIN swaps /\ swaps'[s].status = st
          /\ \A t \in DOMAIN swaps : t # s => swaps'[t] = swaps[t]
          /\ swaps[s].status \in OpenStatuses /\ ~Done(swaps[s].status) /\ s \in Id
          /\ \A t \in DOMAIN swaps : t \in Id
      BY <1>0, <1>3, ResolvesTypes, Made DEF Resolves, IsOpen, OpenStatuses, Done
    <2>2. OneOpenSwap'
      BY <1>0, <2>1 DEF OneOpenSwap, IsOpen
    <2>3. applied[s] = 0
      BY <1>0, <2>1 DEF AppliedOnce
    <2>4. /\ applied'[s] = IF Done(st) THEN 1 ELSE 0
          /\ \A t \in DOMAIN swaps : t # s => applied'[t] = applied[t]
      BY <1>0, <1>3, <2>1, <2>3 DEF Resolves, TypeOK
    <2>5. AppliedOnce'
      BY <1>0, <2>1, <2>4 DEF AppliedOnce
    <2> QED
      BY <2>2, <2>5
  <1> QED
    BY <1>1, <1>2, <1>3, Effects

LEMMA Continues ==
  ASSUME TypeOK, NEW r \in Request, NEW o, Continue(r, o)
  PROVE  /\ op'[r] = o
         /\ \A q \in Request : q # r => op'[q] = op[q]
         /\ o \in Op => op' \in [Request -> Op]
  BY DEF TypeOK, Continue

\* What a request goes on to do is well-typed and about a swap that was made.
Fits(o) ==
  /\ o \in Op
  /\ o.step \in {"move", "apply", "revert"} => o.swap \in DOMAIN swaps

LEMMA FitsIdle == Fits(Idle) /\ Fits([step |-> "unlock"])
  BY DEF Fits, Op, Idle

LEMMA FitsAsking ==
  ASSUME NEW o \in Asking
  PROVE  Fits(o)
  BY DEF Fits, Op, Asking

LEMMA FitsMove ==
  ASSUME TypeOK, Usual, NEW s \in DOMAIN swaps, NEW from \in OpenStatuses,
         NEW to \in {"withdrawn", "rejected", "needs_planner", "pending_planner"}
  PROVE  Fits([step |-> "move", swap |-> s, from |-> from, to |-> to])
  <1>1. s \in Id
    BY Made
  <1>2. [step |-> "move", swap |-> s, from |-> from, to |-> to] \in MoveOp
    BY <1>1 DEF MoveOp
  <1> QED
    BY <1>2 DEF Fits, Op

LEMMA FitsApply ==
  ASSUME TypeOK, Usual, NEW s \in DOMAIN swaps, NEW from \in OpenStatuses,
         NEW to \in {"approved", "applied"}, NEW b \in BOOLEAN
  PROVE  /\ Fits(Applying(s, from, to, b))
         /\ Fits([step |-> "revert", swap |-> s, from |-> from, to |-> to, retry |-> b])
  <1>1. s \in Id
    BY Made
  <1>2. /\ Applying(s, from, to, b) \in ApplyOp
        /\ [step |-> "revert", swap |-> s, from |-> from, to |-> to, retry |-> b] \in RevertOp
    BY <1>1 DEF Applying, ApplyOp, RevertOp
  <1> QED
    BY <1>2 DEF Fits, Op, Applying

LEMMA NextOps ==
  ASSUME IInv, Usual, [Next]_vars
  PROVE  /\ op' \in [Request -> Op]
         /\ \A r \in Request :
              op'[r].step \in {"move", "apply", "revert"} => op'[r].swap \in DOMAIN swaps
  <1> DEFINE Goal == /\ op' \in [Request -> Op]
                     /\ \A r \in Request :
                          op'[r].step \in {"move", "apply", "revert"} =>
                            op'[r].swap \in DOMAIN swaps
  <1>0. TypeOK /\ Known
    BY DEF IInv
  <1>1. ASSUME NEW r \in Request, NEW o, Continue(r, o), Fits(o) PROVE Goal
    <2>1. o \in Op /\ (o.step \in {"move", "apply", "revert"} => o.swap \in DOMAIN swaps)
      BY <1>1 DEF Fits
    <2>2. /\ op'[r] = o /\ op' \in [Request -> Op]
          /\ \A q \in Request : q # r => op'[q] = op[q]
      BY <1>0, <1>1, <2>1, Continues
    <2> QED
      BY <1>0, <2>1, <2>2 DEF Known
  <1> HIDE DEF Goal
  <1>2. ASSUME NEW r \in Request,
               \/ LockBusy(r) \/ Insert(r) \/ Unlock(r) \/ Move(r) \/ Apply(r) \/ Die(r)
        PROVE  Goal
    BY <1>1, <1>2, FitsIdle DEF LockBusy, Insert, Unlock, Move, Apply, Die
  <1>3. ASSUME NEW r \in Request, NEW to \in Employee \cup {NULL}, ReadRequest(r, to)
        PROVE  Goal
    <2> DEFINE o == [step |-> "lock", from |-> asg.emp, to |-> to]
    <2>1. o \in Asking
      BY <1>0 DEF TypeOK, Asking
    <2>2. Continue(r, o)
      BY <1>3 DEF ReadRequest
    <2> QED
      BY <1>1, <2>1, <2>2, FitsAsking
  <1>4. ASSUME NEW r \in Request, TakeLock(r) \/ Recheck(r) PROVE Goal
    <2>1. op[r] \in Asking
      BY <1>0, <1>4, OpTypes DEF TypeOK, TakeLock, Recheck
    <2>2. [op[r] EXCEPT !.step = "recheck"] \in Asking /\ [op[r] EXCEPT !.step = "insert"] \in Asking
      BY <2>1 DEF Asking
    <2>3. CASE TakeLock(r)
      BY <1>1, <2>2, <2>3, FitsAsking DEF TakeLock
    <2>4. CASE Recheck(r)
      BY <1>1, <2>2, <2>4, FitsAsking, FitsIdle DEF Recheck
    <2> QED
      BY <1>4, <2>3, <2>4
  <1>5. ASSUME NEW r \in Request, NEW s \in DOMAIN swaps, ReadWithdraw(r, s) \/ ReadReject(r, s)
        PROVE  Goal
    <2>1. swaps[s].status \in OpenStatuses
      BY <1>5 DEF ReadWithdraw, ReadReject, IsOpen
    <2>2. /\ Fits([step |-> "move", swap |-> s, from |-> swaps[s].status, to |-> "withdrawn"])
          /\ Fits([step |-> "move", swap |-> s, from |-> swaps[s].status, to |-> "rejected"])
      BY <1>0, <2>1, FitsMove
    <2> QED
      BY <1>1, <1>5, <2>2 DEF ReadWithdraw, ReadReject
  <1>6. ASSUME NEW s \in DOMAIN swaps
        PROVE  /\ Fits(ToPlanner(s, "needs_planner"))
               /\ Fits(ToPlanner(s, "pending_planner"))
               /\ Fits(Applying(s, "accepted_by_counterparty", "applied", TRUE))
    <2>1. "accepted_by_counterparty" \in OpenStatuses
      BY DEF OpenStatuses
    <2> QED
      BY <1>0, <2>1, FitsMove, FitsApply DEF ToPlanner
  <1>7. ASSUME NEW r \in Request, NEW s \in DOMAIN swaps, Accept(r, s) PROVE Goal
    <2>1. \/ Continue(r, Applying(s, "accepted_by_counterparty", "applied", TRUE))
          \/ Continue(r, ToPlanner(s, "needs_planner"))
          \/ Continue(r, ToPlanner(s, "pending_planner"))
      BY <1>7 DEF Accept
    <2> QED
      BY <1>1, <1>6, <2>1
  <1>8. ASSUME NEW r \in Request, NEW s \in DOMAIN swaps, ReadApprove(r, s) PROVE Goal
    <2>1. swaps[s].status \in OpenStatuses
      BY <1>8 DEF ReadApprove, IsOpen
    <2>2. Fits(Applying(s, swaps[s].status, "approved", FALSE))
      BY <1>0, <2>1, FitsApply
    <2> QED
      BY <1>1, <1>8, <2>2 DEF ReadApprove
  <1>9. ASSUME NEW r \in Request, ApplyFails(r) PROVE Goal
    <2>1. PICK conflict \in BOOLEAN :
            Continue(r, [step |-> "revert", swap |-> op[r].swap, from |-> op[r].from,
                         to |-> op[r].to, retry |-> conflict])
      BY <1>9 DEF ApplyFails
    <2>2. /\ op[r].swap \in DOMAIN swaps /\ op[r].from \in OpenStatuses
          /\ op[r].to \in {"approved", "applied"}
      BY <1>0, <1>9, KnownSwap DEF ApplyFails
    <2> QED
      BY <1>0, <1>1, <2>1, <2>2, FitsApply
  <1>10. ASSUME NEW r \in Request, Revert(r) PROVE Goal
    <2>1. op[r].swap \in DOMAIN swaps
      BY <1>0, <1>10, KnownSwap DEF Revert
    <2>2. Continue(r, Idle) \/ Continue(r, ToPlanner(op[r].swap, "needs_planner"))
      BY <1>10 DEF Revert
    <2> QED
      BY <1>1, <1>6, <2>1, <2>2, FitsIdle
  <1>11. ASSUME UNCHANGED op PROVE Goal
    BY <1>0, <1>11 DEF Goal, TypeOK, Known
  <1>12. Goal
    BY <1>2, <1>3, <1>4, <1>5, <1>7, <1>8, <1>9, <1>10, <1>11
       DEF Next, vars, EditAssignment, Lapse
  <1> QED
    BY <1>12 DEF Goal

LEMMA NextTypeOK ==
  ASSUME IInv, Usual, [Next]_vars
  PROVE  TypeOK' /\ Known'
  <1>0. TypeOK /\ Known
    BY DEF IInv
  <1>1. lock' \in Request \cup {NULL}
    BY <1>0 DEF TypeOK, Next, vars, ReadRequest, TakeLock, LockBusy, Recheck, Insert, Unlock,
                ReadWithdraw, ReadReject, Move, Accept, ReadApprove, Apply, ApplyFails, Revert,
                EditAssignment, Lapse, Die
  <1>2. asg' \in [emp : Employee, status : {"active", "cancelled"}]
    <2>1. ASSUME NEW r \in Request, Apply(r)
          PROVE  asg' \in [emp : Employee, status : {"active", "cancelled"}]
      <3>1. op[r].swap \in DOMAIN swaps
        BY <1>0, <2>1, KnownSwap DEF Apply
      <3>2. swaps[op[r].swap] \in Swap
        BY <1>0, <3>1 DEF TypeOK
      <3>3. ChangeRoster(op[r].swap) /\ asg \in [emp : Employee, status : {"active", "cancelled"}]
        BY <1>0, <2>1 DEF Apply, TypeOK
      <3> QED
        BY <3>2, <3>3 DEF ChangeRoster, Swap
    <2>2. ASSUME NEW r \in Request, EditAssignment(r)
          PROVE  asg' \in [emp : Employee, status : {"active", "cancelled"}]
      BY <1>0, <2>2 DEF EditAssignment, TypeOK
    <2>3. ASSUME UNCHANGED asg
          PROVE  asg' \in [emp : Employee, status : {"active", "cancelled"}]
      BY <1>0, <2>3 DEF TypeOK
    <2> QED
      BY <2>1, <2>2, <2>3
         DEF Next, vars, ReadRequest, TakeLock, LockBusy, Recheck, Insert, Unlock,
             ReadWithdraw, ReadReject, Move, Accept, ReadApprove, ApplyFails, Revert, Lapse, Die
  <1>3. TypeOK'
    BY <1>1, <1>2, NextSwapTypes, NextOps DEF TypeOK
  <1>4. Known'
    BY NextSwapTypes, NextOps DEF Known
  <1> QED
    BY <1>3, <1>4

LEMMA NextLocked ==
  ASSUME IInv, Usual, [Next]_vars
  PROVE  Locked'
  <1> DEFINE Inside == {"recheck", "insert", "unlock"}
  <1>0. /\ TypeOK /\ Known /\ Locked
        /\ \A q, r \in Request : op[q].step \in Inside /\ op[r].step \in Inside => q = r
        /\ \A r \in Request : op[r].step \in Inside => lock = r /\ lock # NULL
    BY DEF IInv, Locked, Usual
  <1>1. ASSUME NoneOpen, ~\E r \in Request : Insert(r) PROVE NoneOpen'
    <2>1. ~\E s \in DOMAIN swaps, st \in Status : Resolves(s, st)
      BY <1>1 DEF NoneOpen, Resolves
    <2>2. UNCHANGED swaps
      BY <1>1, <2>1, Effects
    <2> QED
      BY <1>1, <2>2 DEF NoneOpen, IsOpen
  <1>2. ASSUME NEW r \in Request, NEW o, Continue(r, o), UNCHANGED lock, o.step \notin Inside,
               ~\E q \in Request : Insert(q)
        PROVE  Locked'
    <2>1. op'[r] = o /\ \A q \in Request : q # r => op'[q] = op[q]
      BY <1>0, <1>2, Continues
    <2>2. NoneOpen => NoneOpen'
      BY <1>1, <1>2
    <2> QED
      BY <1>0, <1>2, <2>1, <2>2 DEF Locked
  <1>3. ASSUME NEW r \in Request, Insert(r) PROVE Locked'
    <2> DEFINE o == [step |-> "unlock"]
    <2>1. Continue(r, o) /\ op[r].step \in Inside /\ lock' = lock
      BY <1>3 DEF Insert
    <2>2. op'[r] = o /\ \A q \in Request : q # r => op'[q] = op[q]
      BY <1>0, <2>1, Continues
    <2>3. o.step = "unlock"
      OBVIOUS
    <2> HIDE DEF o
    <2> QED
      BY <1>0, <2>1, <2>2, <2>3 DEF Locked
  <1>4. CASE \E q \in Request : Insert(q)
    BY <1>3, <1>4
  <1>5. CASE ~\E q \in Request : Insert(q)
    <2>1. ASSUME NEW r \in Request, TakeLock(r) PROVE Locked'
      <3>1. op[r] \in Asking
        BY <1>0, <2>1, OpTypes DEF TypeOK, TakeLock
      <3>2. [op[r] EXCEPT !.step = "recheck"].step = "recheck"
        BY <3>1 DEF Asking
      <3>3. op'[r].step = "recheck" /\ \A q \in Request : q # r => op'[q] = op[q]
        BY <1>0, <2>1, <3>2, Continues DEF TakeLock
      <3>4. \A q \in Request : op[q].step \notin Inside
        BY <1>0, <2>1 DEF TakeLock
      <3> QED
        BY <2>1, <3>3, <3>4 DEF TakeLock, Locked
    <2>2. ASSUME NEW r \in Request, Recheck(r) PROVE Locked'
      <3>1. op[r] \in Asking /\ op[r].step = "recheck"
        BY <1>0, <2>2, OpTypes DEF TypeOK, Recheck
      <3>2. [op[r] EXCEPT !.step = "insert"].step = "insert" /\ [step |-> "unlock"].step = "unlock"
        BY <3>1 DEF Asking
      <3>3. /\ op'[r].step = IF NoneOpen THEN "insert" ELSE "unlock"
            /\ \A q \in Request : q # r => op'[q] = op[q]
        BY <1>0, <2>2, <3>2, Continues DEF Recheck
      <3>4. lock' = lock /\ swaps' = swaps
        BY <2>2 DEF Recheck
      <3> QED
        BY <1>0, <3>1, <3>3, <3>4 DEF Locked, NoneOpen, IsOpen
    <2>3. ASSUME NEW r \in Request, Unlock(r) PROVE Locked'
      <3>1. op'[r].step = "idle" /\ \A q \in Request : q # r => op'[q] = op[q]
        BY <1>0, <2>3, Continues DEF Unlock, Idle
      <3>2. \A q \in Request : q # r => op[q].step \notin Inside
        BY <1>0, <2>3 DEF Unlock
      <3> QED
        BY <3>1, <3>2 DEF Locked
    <2>4. CASE Lapse
      <3>1. lock \in Request /\ op[lock].step \notin Inside /\ UNCHANGED op
        BY <1>0, <2>4 DEF Lapse, TypeOK, Usual
      <3>2. \A q \in Request : op[q].step \notin Inside
        BY <1>0, <3>1
      <3> QED
        BY <3>1, <3>2 DEF Locked
    <2>5. ASSUME NEW r \in Request,
                 LockBusy(r) \/ Move(r) \/ Apply(r) \/ Die(r)
          PROVE  Locked'
      BY <1>2, <1>5, <2>5 DEF LockBusy, Move, Apply, Die, Idle
    <2>6. ASSUME NEW r \in Request, NEW to, ReadRequest(r, to) PROVE Locked'
      <3>1. Continue(r, [step |-> "lock", from |-> asg.emp, to |-> to]) /\ UNCHANGED lock
        BY <2>6 DEF ReadRequest
      <3> QED
        BY <1>2, <1>5, <3>1
    <2>7. ASSUME NEW r \in Request, NEW s \in DOMAIN swaps,
                 \/ ReadWithdraw(r, s) \/ ReadReject(r, s)
                 \/ Accept(r, s) \/ ReadApprove(r, s)
          PROVE  Locked'
      <3>1. UNCHANGED lock /\ \E o : Continue(r, o) /\ o.step \in {"move", "apply"}
        BY <2>7 DEF ReadWithdraw, ReadReject, Accept, ReadApprove, Applying, ToPlanner
      <3> QED
        BY <1>2, <1>5, <3>1
    <2>8. ASSUME NEW r \in Request, ApplyFails(r) \/ Revert(r) PROVE Locked'
      <3>1. CASE ApplyFails(r)
        <4>1. UNCHANGED lock /\ \E o : Continue(r, o) /\ o.step = "revert"
          BY <3>1 DEF ApplyFails
        <4> QED
          BY <1>2, <1>5, <4>1
      <3>2. CASE Revert(r)
        <4>1. /\ UNCHANGED lock
              /\ Continue(r, Idle) \/ Continue(r, ToPlanner(op[r].swap, "needs_planner"))
          BY <3>2 DEF Revert
        <4>2. Idle.step = "idle" /\ ToPlanner(op[r].swap, "needs_planner").step = "move"
          BY DEF Idle, ToPlanner
        <4> QED
          BY <1>2, <1>5, <4>1, <4>2
      <3> QED
        BY <2>8, <3>1, <3>2
    <2>9. ASSUME UNCHANGED <<op, lock>> PROVE Locked'
      BY <1>0, <1>1, <1>5, <2>9 DEF Locked
    <2> QED
      BY <1>5, <2>1, <2>2, <2>3, <2>4, <2>5, <2>6, <2>7, <2>8, <2>9
         DEF Next, vars, EditAssignment
  <1> QED
    BY <1>4, <1>5

LEMMA NextAlone ==
  ASSUME IInv, Usual, [Next]_vars
  PROVE  Alone'
  <1>0. /\ TypeOK /\ Known /\ Alone
        /\ \A q \in Request : Working(q) =>
             op[q].swap \in DOMAIN swaps /\ op[q].to \in {"approved", "applied"}
    BY KnownSwap DEF IInv, Working
  \* A status set meanwhile that is neither "pending" nor where r is heading.
  <1> DEFINE Clear(r) == LET st == swaps'[op[r].swap].status IN
                           \/ st = swaps[op[r].swap].status
                           \/ st # "pending" /\ st # op[r].to
  <1>1. ASSUME \A q \in Request : Working(q)' =>
                 /\ Working(q) /\ Clear(q)
                 /\ op'[q].swap = op[q].swap /\ op'[q].to = op[q].to
        PROVE  Alone'
    BY <1>0, <1>1 DEF Alone
  <1>2. ASSUME NEW r \in Request, NEW o, Continue(r, o), o.step \notin {"apply", "revert"},
               \A q \in Request \ {r} : Working(q) => Clear(q)
        PROVE  Alone'
    <2>1. op'[r] = o /\ \A q \in Request : q # r => op'[q] = op[q]
      BY <1>0, <1>2, Continues
    <2> QED
      BY <1>1, <1>2, <2>1 DEF Working
  <1>3. ASSUME NEW r \in Request, NEW o, Continue(r, o), o.step = "apply", ~Working(r),
               o.to = "approved" => r \in Planner,
               o.to = "applied" => swaps'[o.swap].status # "pending",
               swaps'[o.swap].status # o.to,
               \A q \in Request : Working(q) =>
                 Clear(q) /\ ~(op[q].swap = o.swap /\ op[q].to = o.to)
        PROVE  Alone'
    <2>1. op'[r] = o /\ \A q \in Request : q # r => op'[q] = op[q]
      BY <1>0, <1>3, Continues
    <2>2. \A q \in Request : q # r /\ Working(q)' =>
            Working(q) /\ Clear(q) /\ op'[q] = op[q]
      BY <1>3, <2>1 DEF Working
    <2> HIDE DEF Clear
    <2>3. \A q \in Request : q # r /\ Working(q)' =>
            /\ op'[q].to = "approved" => q \in Planner
            /\ op'[q].to = "applied" => swaps'[op'[q].swap].status # "pending"
            /\ swaps'[op'[q].swap].status # op'[q].to
      BY <1>0, <2>2 DEF Alone, Clear
    <2>4. \A p, q \in Request :
            Working(p)' /\ Working(q)' /\ op'[p].swap = op'[q].swap /\ op'[p].to = op'[q].to
              => p = q
      BY <1>0, <1>3, <2>1, <2>2 DEF Alone
    <2> QED
      BY <1>3, <2>1, <2>3, <2>4 DEF Alone
  <1>4. ASSUME UNCHANGED swaps PROVE \A q \in Request : Clear(q)
    BY <1>4
  <1>5. ASSUME NEW r \in Request,
               LockBusy(r) \/ Unlock(r) \/ Die(r)
        PROVE  Alone'
    BY <1>2, <1>4, <1>5 DEF LockBusy, Unlock, Die, Idle
  <1>6. ASSUME NEW r \in Request, Insert(r) PROVE Alone'
    <2>1. \A s \in DOMAIN swaps : swaps'[s] = swaps[s]
      BY <1>6, InsertAdds
    <2>2. \A q \in Request : Working(q) => Clear(q)
      BY <1>0, <2>1
    <2>3. Continue(r, [step |-> "unlock"])
      BY <1>6 DEF Insert
    <2> QED
      BY <1>2, <2>2, <2>3
  <1>7. ASSUME NEW r \in Request, NEW to, ReadRequest(r, to) PROVE Alone'
    <2>1. Continue(r, [step |-> "lock", from |-> asg.emp, to |-> to]) /\ UNCHANGED swaps
      BY <1>7 DEF ReadRequest
    <2> QED
      BY <1>2, <1>4, <2>1
  <1>8. ASSUME NEW r \in Request, TakeLock(r) \/ Recheck(r) PROVE Alone'
    <2>1. op[r] \in Asking
      BY <1>0, <1>8, OpTypes DEF TypeOK, TakeLock, Recheck
    <2>2. /\ [op[r] EXCEPT !.step = "recheck"].step = "recheck"
          /\ [op[r] EXCEPT !.step = "insert"].step = "insert"
      BY <2>1 DEF Asking
    <2>3. \E o : Continue(r, o) /\ o.step \in {"recheck", "insert", "unlock"}
      <3>1. CASE TakeLock(r)
        BY <2>2, <3>1 DEF TakeLock
      <3>2. CASE Recheck(r) /\ NoneOpen
        BY <2>2, <3>2 DEF Recheck
      <3>3. CASE Recheck(r) /\ ~NoneOpen
        <4>1. Continue(r, [step |-> "unlock"])
          BY <3>3 DEF Recheck
        <4> QED
          BY <4>1
      <3> QED
        BY <1>8, <3>1, <3>2, <3>3
    <2>4. UNCHANGED swaps
      BY <1>8 DEF TakeLock, Recheck
    <2> QED
      BY <1>2, <1>4, <2>3, <2>4
  <1>9. ASSUME NEW r \in Request, NEW s \in DOMAIN swaps, ReadWithdraw(r, s) \/ ReadReject(r, s)
        PROVE  Alone'
    <2>1. UNCHANGED swaps /\ \E o : Continue(r, o) /\ o.step = "move"
      BY <1>9 DEF ReadWithdraw, ReadReject
    <2> QED
      BY <1>2, <1>4, <2>1
  <1>10. ASSUME NEW s, NEW st, Resolves(s, st),
                NEW r \in Request,
                \A q \in Request \ {r} : Working(q) /\ op[q].swap = s => st # op[q].to
         PROVE  \A q \in Request \ {r} : Working(q) => Clear(q)
    <2>1. /\ swaps'[s].status = st /\ st # "pending"
          /\ \A t \in DOMAIN swaps : t # s => swaps'[t] = swaps[t]
      BY <1>0, <1>10, ResolvesTypes DEF Resolves
    <2> QED
      BY <1>0, <1>10, <2>1
  <1>11. ASSUME NEW r \in Request, Move(r) PROVE Alone'
    <2>1. op[r] \in MoveOp
      BY <1>0, <1>11, KnownSwap DEF Move
    <2>2. op[r].to \notin {"approved", "applied"}
      BY <2>1 DEF MoveOp
    <2>3. \A q \in Request \ {r} : Working(q) => Clear(q)
      <3>1. CASE UNCHANGED swaps
        BY <1>4, <3>1
      <3>2. CASE Resolves(op[r].swap, op[r].to)
        BY <1>0, <1>10, <2>2, <3>2
      <3> QED
        BY <1>11, <3>1, <3>2, MoveResolves
    <2>4. Continue(r, Idle) /\ Idle.step = "idle"
      BY <1>11 DEF Move, Idle
    <2> QED
      BY <1>2, <2>3, <2>4
  <1>12. ASSUME NEW r \in Request, Apply(r) PROVE Alone'
    <2>1. Resolves(op[r].swap, op[r].to) /\ Working(r)
      BY <1>12, ApplyResolves DEF Apply, Working
    <2>2. \A q \in Request \ {r} : Working(q) /\ op[q].swap = op[r].swap => op[r].to # op[q].to
      BY <1>0, <2>1 DEF Alone
    <2>3. \A q \in Request \ {r} : Working(q) => Clear(q)
      BY <1>10, <2>1, <2>2
    <2>4. Continue(r, Idle) /\ Idle.step = "idle"
      BY <1>12 DEF Apply, Idle
    <2> QED
      BY <1>2, <2>3, <2>4
  <1>13. ASSUME NEW r \in Request, ApplyFails(r) PROVE Alone'
    <2>1. PICK conflict \in BOOLEAN :
            Continue(r, [step |-> "revert", swap |-> op[r].swap, from |-> op[r].from,
                         to |-> op[r].to, retry |-> conflict])
      BY <1>13 DEF ApplyFails
    <2>2. /\ op'[r].swap = op[r].swap /\ op'[r].to = op[r].to /\ Working(r)
          /\ \A q \in Request : q # r => op'[q] = op[q]
      BY <1>0, <1>13, <2>1, Continues DEF ApplyFails, Working
    <2>3. UNCHANGED swaps
      BY <1>13 DEF ApplyFails
    <2> QED
      BY <1>1, <1>4, <2>2, <2>3 DEF Working
  <1>14. ASSUME NEW r \in Request, Revert(r) PROVE Alone'
    <2>1. UNCHANGED swaps
      BY <1>14, NothingToRevert
    <2>2. \E o : Continue(r, o) /\ o.step \in {"move", "idle"}
      BY <1>14 DEF Revert, ToPlanner, Idle
    <2> QED
      BY <1>2, <1>4, <2>1, <2>2
  <1>15. ASSUME NEW r \in Request, NEW s \in DOMAIN swaps, ReadApprove(r, s) PROVE Alone'
    <2>0. PICK o : o = Applying(s, swaps[s].status, "approved", FALSE)
      OBVIOUS
    <2>1. /\ Continue(r, o) /\ UNCHANGED swaps /\ ~Working(r) /\ r \in Planner
          /\ o.step = "apply" /\ o.swap = s /\ o.to = "approved"
          /\ swaps[s].status # "approved"
      BY <1>15, <2>0 DEF ReadApprove, Applying, Working, Idle, IsOpen, OpenStatuses
    <2>2. \A q \in Request : Working(q) => op[q].to # "approved"
      BY <1>0, <2>1 DEF Alone, Usual
    <2> QED
      BY <1>3, <1>4, <2>1, <2>2
  <1>16. ASSUME NEW r \in Request, NEW s \in DOMAIN swaps, Accept(r, s) PROVE Alone'
    <2>1. /\ Resolves(s, "accepted_by_counterparty") /\ ~Working(r)
          /\ swaps[s].status = "pending"
      <3>1. Resolves(s, "accepted_by_counterparty")
        BY <1>16, AcceptResolves
      <3>2. op[r] = Idle /\ swaps[s].status = "pending"
        BY <1>16 DEF Accept
      <3> QED
        BY <3>1, <3>2 DEF Working, Idle
    <2>2. \A q \in Request : Working(q) => op[q].to # "accepted_by_counterparty"
      BY <1>0
    <2>3. \A q \in Request : Working(q) => Clear(q)
      BY <1>10, <2>1, <2>2
    <2>4. ASSUME NEW o, o = Applying(s, "accepted_by_counterparty", "applied", TRUE),
                 Continue(r, o)
          PROVE  Alone'
      <3>1. o.step = "apply" /\ o.swap = s /\ o.to = "applied"
        BY <2>4 DEF Applying
      <3>2. swaps'[s].status = "accepted_by_counterparty"
        BY <1>0, <2>1, ResolvesTypes
      <3>3. \A q \in Request : Working(q) => ~(op[q].swap = s /\ op[q].to = "applied")
        BY <1>0, <2>1 DEF Alone
      <3> QED
        BY <1>3, <2>1, <2>3, <2>4, <3>1, <3>2, <3>3
    <2>5. ASSUME NEW o, Continue(r, o), o.step = "move" PROVE Alone'
      BY <1>2, <2>3, <2>5
    <2>6. \/ Continue(r, Applying(s, "accepted_by_counterparty", "applied", TRUE))
          \/ \E o : Continue(r, o) /\ o.step = "move"
      <3>1. \/ Continue(r, Applying(s, "accepted_by_counterparty", "applied", TRUE))
            \/ Continue(r, ToPlanner(s, "needs_planner"))
            \/ Continue(r, ToPlanner(s, "pending_planner"))
        BY <1>16 DEF Accept
      <3>2. \A to : ToPlanner(s, to).step = "move"
        BY DEF ToPlanner
      <3> QED
        BY <3>1, <3>2
    <2> QED
      BY <2>4, <2>5, <2>6
  <1>17. ASSUME UNCHANGED <<op, swaps>> PROVE Alone'
    BY <1>0, <1>17 DEF Alone, Working
  <1> QED
    BY <1>5, <1>6, <1>7, <1>8, <1>9, <1>11, <1>12, <1>13, <1>14, <1>15, <1>16, <1>17
       DEF Next, vars, EditAssignment, Lapse

-------------------------------------------------------------------------------
LEMMA NextIInv == Usual /\ IInv /\ [Next]_vars => IInv'
  BY NextTypeOK, NextLocked, NextAlone, NextOnce DEF IInv

LEMMA SpecIInv == Usual => (Spec => []IInv)
  <1> SUFFICES ASSUME Usual PROVE Spec => []IInv
    OBVIOUS
  <1>1. IInv /\ [Next]_vars => IInv'
    BY NextIInv
  <1>2. Init => IInv
    BY InitIInv
  <1> QED
    BY <1>1, <1>2, PTL DEF Spec

(***************************************************************************)
(* With one planner and no lease that ends at work, one swap of an         *)
(* assignment is open at a time, however requests, withdrawals, accepts    *)
(* and deaths interleave (requestSwap's re-check under the lock; it rests  *)
(* on applyApprovedSwap's catch never reopening a swap).                   *)
(***************************************************************************)
THEOREM OneSwapOpen == Usual => (Spec => []OneOpenSwap)
  <1>1. IInv => OneOpenSwap
    BY DEF IInv
  <1> QED
    BY <1>1, SpecIInv, PTL

(***************************************************************************)
(* With one planner, a swap changes the roster once, and exactly if its    *)
(* status says so, whatever fails or dies on the way (applyApprovedSwap).  *)
(***************************************************************************)
THEOREM SwapAppliedOnce == Usual => (Spec => []AppliedOnce)
  <1>1. IInv => AppliedOnce
    BY DEF IInv
  <1> QED
    BY <1>1, SpecIInv, PTL
===============================================================================
