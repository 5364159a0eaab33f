----------------------------- MODULE ConflictRows ------------------------------
(***************************************************************************)
(* The stored conflicts of one open period (RosterService): found anew by   *)
(* whatever changes the roster, shown from the table, acknowledged there.   *)
(* What touches many periods marks some of them dirty instead.  A refresh   *)
(* reads in one step and writes in another; no request dies.               *)
(***************************************************************************)
EXTENDS Naturals, Sequences

CONSTANTS
  Proc,      \* requests, and the planners that make them
  Conflict,  \* conflictIdentity: a type, an employee and assignments
  Context,   \* what else a conflict says: its context_hash
  None,
  MaxRows    \* bound: rows inserted for one conflict

VARIABLES
  roster,  \* the conflicts the roster has, each with its context, or None
  rows,    \* dc_conflicts of the period, by conflict
  dirty,   \* conflicts_dirty
  req,     \* what a request has read
  told     \* history: planners told that a row has their acknowledgement

vars == <<roster, rows, dirty, req, told>>

Idle == [at |-> "idle"]

Init ==
  /\ roster = [c \in Conflict |-> None]
  /\ rows = [c \in Conflict |-> <<>>]
  /\ dirty = FALSE
  /\ req = [p \in Proc |-> Idle]
  /\ told = {}

Goto(p, state) == req' = [req EXCEPT ![p] = state]

Unresolved(c) == {i \in DOMAIN rows[c] : ~rows[c][i].resolved}

-------------------------------------------------------------------------------
(* refreshAndListConflicts.                                                *)

\* existingConflictRows keeps one row of each identity, the last one.
Existing(c) ==
  IF Unresolved(c) = {} THEN 0
  ELSE CHOOSE i \in Unresolved(c) : \A j \in Unresolved(c) : j <= i

Found(conflicts, change) ==
  [at |-> "write", computed |-> conflicts, change |-> change,
   existing |-> [c \in Conflict |-> Existing(c)]]

\* conflictsForPeriod, then existingConflictRows.
Refresh(p) ==
  /\ req[p].at = "refresh"
  /\ Goto(p, Found(roster, [c \in {} |-> None]))
  /\ UNCHANGED <<roster, rows, dirty, told>>

New(context) == [context |-> context, resolved |-> FALSE, ackBy |-> None, ackContext |-> None]

\* Without the loop over the rows that were not found again.
Materialized_Bug(c, context, i) ==
  CASE context # None /\ i = 0 -> Append(rows[c], New(context))
    [] context # None /\ i # 0 -> [rows[c] EXCEPT ![i].context = context, ![i].resolved = FALSE]
    [] OTHER                   -> rows[c]

\* materializeConflicts: a row that is found again keeps its acknowledgement.
Materialized(c, context, i) ==
  CASE context # None /\ i = 0 -> Append(rows[c], New(context))
    [] context # None /\ i # 0 -> [rows[c] EXCEPT ![i].context = context, ![i].resolved = FALSE]
    [] context = None /\ i # 0 -> [rows[c] EXCEPT ![i].resolved = TRUE]
    [] OTHER                   -> rows[c]

\* An assignment's change is committed with its refresh.
Write(p) ==
  /\ req[p].at = "write"
  /\ \A c \in Conflict :
       req[p].computed[c] # None /\ req[p].existing[c] = 0 => Len(rows[c]) < MaxRows
  /\ rows' = [c \in Conflict |-> Materialized(c, req[p].computed[c], req[p].existing[c])]
  /\ dirty' = FALSE
  /\ roster' = [c \in Conflict |->
                  IF c \in DOMAIN req[p].change THEN req[p].change[c] ELSE roster[c]]
  /\ Goto(p, Idle)
  /\ UNCHANGED told

-------------------------------------------------------------------------------
(* What changes conflicts.                                                 *)

Changed(c, context) == [roster EXCEPT ![c] = context]

\* Assigning, changing, moving and cancelling: the transaction reads its own
\* change, which nobody else sees before it is committed.
ChangeAssignment(p) ==
  /\ req[p] = Idle
  /\ \E c \in Conflict, context \in Context \cup {None} :
       /\ context # roster[c]
       /\ Goto(p, Found(Changed(c, context), [d \in {c} |-> context]))
  /\ UNCHANGED <<roster, rows, dirty, told>>

\* An absence, a qualification or the policy, of many periods.
ChangeMany(p) ==
  /\ req[p] = Idle
  /\ \E c \in Conflict, context \in Context \cup {None} :
       /\ context # roster[c]
       /\ roster' = Changed(c, context)
  /\ Goto(p, [at |-> "many"])
  /\ UNCHANGED <<rows, dirty, told>>

\* rematerializeOpenPeriodConflicts: this period is among the first, or is
\* left to the next roster page or the cron job.
WithinBudget(p) ==
  /\ req[p].at = "many"
  /\ Goto(p, [at |-> "refresh"])
  /\ UNCHANGED <<roster, rows, dirty, told>>

MarkDirty(p) ==
  /\ req[p].at = "many"
  /\ dirty' = TRUE
  /\ Goto(p, Idle)
  /\ UNCHANGED <<roster, rows, told>>

\* listConflictsForRosterRead, drainDirtyOpenPeriodConflicts.
DrainDirty(p) ==
  /\ req[p] = Idle
  /\ dirty
  /\ Goto(p, [at |-> "refresh"])
  /\ UNCHANGED <<roster, rows, dirty, told>>

-------------------------------------------------------------------------------
(* acknowledgeConflict.                                                    *)

ReadConflict(p) ==
  /\ req[p] = Idle
  /\ \E c \in Conflict : \E i \in Unresolved(c) :
       Goto(p, [at |-> "ack", conflict |-> c, row |-> i, context |-> rows[c][i].context])
  /\ UNCHANGED <<roster, rows, dirty, told>>

\* Without the condition on who has acknowledged it.
Takes_Bug(p, r, context) == ~r.resolved /\ r.context = context

\* The UPDATE's conditions.
Takes(p, r, context) == ~r.resolved /\ r.context = context /\ r.ackBy \in {None, p}

\* A planner whose acknowledgement stands already is told so as well.
Acknowledge(p) ==
  /\ req[p].at = "ack"
  /\ LET c  == req[p].conflict
         i  == req[p].row
         cx == req[p].context
         takes == Takes(p, rows[c][i], cx)
     IN /\ rows' = IF takes
                   THEN [rows EXCEPT ![c][i].ackBy = p, ![c][i].ackContext = cx]
                   ELSE rows
        /\ IF takes \/ (~rows[c][i].resolved /\ rows[c][i].ackBy = p)
           THEN told' = told \cup {<<p, c, i>>} /\ Goto(p, [at |-> "refresh"])
           ELSE UNCHANGED told /\ Goto(p, Idle)
  /\ UNCHANGED <<roster, dirty>>

Next ==
  \E p \in Proc :
    \/ Refresh(p) \/ Write(p)
    \/ ChangeAssignment(p) \/ ChangeMany(p) \/ WithinBudget(p) \/ MarkDirty(p) \/ DrainDirty(p)
    \/ ReadConflict(p) \/ Acknowledge(p)

Spec == Init /\ [][Next]_vars

-------------------------------------------------------------------------------
(* Properties.                                                             *)

\* A planner told that a conflict has his acknowledgement stands on it for
\* good, whoever acknowledges it at the same time (CONFLICT_ACK_STALE).
OneAcknowledges == \A t \in told : rows[t[2]][t[3]].ackBy = t[1]

\* What the roster page shows of a conflict: its contexts.
Shown(c) == {rows[c][i].context : i \in Unresolved(c)}

\* With one request at a time, a period that is not dirty shows exactly the
\* conflicts it has, each in one row.
RowsAreTrue ==
  (\A p \in Proc : req[p] = Idle) /\ ~dirty =>
    \A c \in Conflict : IF roster[c] = None
                        THEN Unresolved(c) = {}
                        ELSE Shown(c) = {roster[c]} /\ \A i, j \in Unresolved(c) : i = j

-------------------------------------------------------------------------------
(* What is known at any time, for the proof.                               *)

Row ==
  [context : Context, resolved : BOOLEAN, ackBy : Proc \cup {None}, ackContext : Context \cup {None}]

Contexts(D) == [D -> Context \cup {None}]
Change == UNION {Contexts(D) : D \in SUBSET Conflict}

TypeOK ==
  /\ roster \in Contexts(Conflict)
  /\ rows \in [Conflict -> Seq(Row)]
  /\ dirty \in BOOLEAN
  /\ req \in [Proc -> {Idle} \cup [at : {"many", "refresh"}]
                        \cup [at : {"write"}, computed : Contexts(Conflict),
                              change : Change, existing : [Conflict -> Nat]]
                        \cup [at : {"ack"}, conflict : Conflict, row : Nat, context : Context]]
  /\ told \subseteq Proc \X Conflict \X Nat

\* Rows are never deleted: one that was read or told of is there.
Present ==
  /\ \A p \in Proc :
       /\ req[p].at = "write" => \A c \in Conflict : req[p].existing[c] <= Len(rows[c])
       /\ req[p].at = "ack" => req[p].row \in DOMAIN rows[req[p].conflict]
  /\ \A t \in told : t[3] \in DOMAIN rows[t[2]]

IInv == TypeOK /\ Present /\ OneAcknowledges

\* With one request at a time, what it has read is still so when it writes.
UpToDate ==
  \A p \in Proc : req[p].at = "write" => \A c \in Conflict :
    /\ req[p].existing[c] = Existing(c)
    /\ req[p].computed[c] = IF c \in DOMAIN req[p].change THEN req[p].change[c] ELSE roster[c]

OneRow == \A c \in Conflict : \A i, j \in Unresolved(c) : i = j

\* Nothing of the roster waits for a refresh.
Settled == \A p \in Proc : req[p].at \in {"idle", "ack"}

\* What RowsAreTrue says, at any time.
Truth ==
  Settled /\ ~dirty =>
    \A c \in Conflict : IF roster[c] = None THEN Unresolved(c) = {} ELSE Shown(c) = {roster[c]}

AloneInv == IInv /\ UpToDate /\ OneRow /\ Truth
===============================================================================
