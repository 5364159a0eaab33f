------------------------------- MODULE Blackouts -------------------------------
(***************************************************************************)
(* The availability blackouts of one employee (AvailabilityBlackoutService). *)
(* One that touches or overlaps others takes them up; the lock of the       *)
(* employee keeps two such merges apart, but not a merge and a deletion.    *)
(* A planner's overrides name the blackout they override.                   *)
(***************************************************************************)
EXTENDS Naturals, FiniteSets, FiniteSetsExt

CONSTANTS
  Proc,      \* requests
  Location,
  None,
  MaxTime,   \* bound: times are 0..MaxTime
  MaxSpan,   \* MAX_SPAN_DAYS
  MaxRows    \* bound: rows ever inserted

VARIABLES
  rows,      \* dc_avail_blackouts
  lastId,
  overrides, \* dc_blackout_overrides: the blackouts they refer to
  lock,      \* who holds the employee's lock; a dead request's is "stale"
  req,       \* what a request has read
  asked      \* history: the hours and locations asked for and not deleted

vars == <<rows, lastId, overrides, lock, req, asked>>

Idle == [at |-> "idle"]

Init ==
  /\ rows = {} /\ lastId = 0 /\ overrides = {}
  /\ lock = None
  /\ req = [p \in Proc |-> Idle]
  /\ asked = {}

Goto(p, state) == req' = [req EXCEPT ![p] = state]

\* What a blackout covers; without a location, every location.
Hours(b) ==
  {h \in (b.from .. b.to - 1) \X Location : b.loc \in {None, h[2]}}

Wishes ==
  {b \in [from : 0..MaxTime, to : 0..MaxTime, loc : Location \cup {None}] :
     b.from < b.to /\ b.to - b.from <= MaxSpan}

-------------------------------------------------------------------------------
(* create.                                                                 *)

\* BLACKOUT_OVERLAP while another one is created.
Lock_Bug(p) == lock' = p

Lock(p) == lock = None /\ lock' = p

Create(p) ==
  /\ req[p] = Idle
  /\ Lock(p)
  /\ \E b \in Wishes : Goto(p, [at |-> "merge", wish |-> b])
  /\ UNCHANGED <<rows, lastId, overrides, asked>>

Touching_Bug(b) == {r \in rows : r.from < b.to /\ r.to > b.from}

Touching(b) == {r \in rows : r.from <= b.to /\ r.to >= b.from}

\* locationScopesCompatible.
Compatible(a, b) == a = b \/ None \in {a, b}

\* The one that takes up the rows in merged.
Union(b, merged) ==
  LET all == merged \cup {b}
  IN [from |-> Min({r.from : r \in all}),
      to   |-> Max({r.to : r \in all}),
      loc  |-> IF \E r \in all : r.loc = None THEN None ELSE b.loc]

\* mergeOverlapping's SELECT; the request is refused for a row that touches it
\* at another location, and for a span that has grown too long.
ReadOverlapping(p) ==
  /\ req[p].at = "merge"
  /\ LET b == req[p].wish
         u == Union(b, Touching(b))
     IN Goto(p, IF (\A r \in Touching(b) : Compatible(b.loc, r.loc))
                   /\ u.to - u.from <= MaxSpan
                THEN [at |-> "write", wish |-> b, merged |-> {r.id : r \in Touching(b)}, union |-> u]
                ELSE [at |-> "unlock"])
  /\ UNCHANGED <<rows, lastId, overrides, lock, asked>>

\* Without the second UPDATE, of the overrides.
Repointed_Bug(merged, id) == overrides

Repointed(merged, id) ==
  IF overrides \cap merged = {} THEN overrides ELSE (overrides \ merged) \cup {id}

\* The transaction's writes and its commit.
CommitMerge(p) ==
  /\ req[p].at = "write"
  /\ lastId < MaxRows
  /\ lastId' = lastId + 1
  /\ LET merged == req[p].merged
         u      == req[p].union
     IN /\ rows' = {r \in rows : r.id \notin merged} \cup
                   {[id |-> lastId + 1, from |-> u.from, to |-> u.to, loc |-> u.loc]}
        /\ overrides' = Repointed(merged, lastId + 1)
  /\ asked' = asked \cup Hours(req[p].wish)
  /\ Goto(p, [at |-> "unlock"])
  /\ UNCHANGED lock

\* Rolled back.
MergeFails(p) ==
  /\ req[p].at = "write"
  /\ Goto(p, [at |-> "unlock"])
  /\ UNCHANGED <<rows, lastId, overrides, lock, asked>>

Unlock(p) ==
  /\ req[p].at = "unlock"
  /\ lock' = IF lock = p THEN None ELSE lock
  /\ Goto(p, Idle)
  /\ UNCHANGED <<rows, lastId, overrides, asked>>

-------------------------------------------------------------------------------
(* delete, which takes no lock.                                            *)

ReadRow(p) ==
  /\ req[p] = Idle
  /\ \E r \in rows : Goto(p, [at |-> "detach", id |-> r.id])
  /\ UNCHANGED <<rows, lastId, overrides, lock, asked>>

\* nullOverrideBlackoutRefs.
Detach(p) ==
  /\ req[p].at = "detach"
  /\ overrides' = overrides \ {req[p].id}
  /\ Goto(p, [req[p] EXCEPT !.at = "delete"])
  /\ UNCHANGED <<rows, lastId, lock, asked>>

\* It succeeds whether or not the row is still there.
Delete(p) ==
  /\ req[p].at = "delete"
  /\ LET gone == {r \in rows : r.id = req[p].id}
     IN /\ rows' = rows \ gone
        /\ asked' = asked \ UNION {Hours(r) : r \in gone}
  /\ Goto(p, Idle)
  /\ UNCHANGED <<lastId, overrides, lock>>

-------------------------------------------------------------------------------
(* recordOverride.                                                         *)

ReadOverridden(p) ==
  /\ req[p] = Idle
  /\ \E r \in rows : Goto(p, [at |-> "override", id |-> r.id])
  /\ UNCHANGED <<rows, lastId, overrides, lock, asked>>

RecordOverride(p) ==
  /\ req[p].at = "override"
  /\ overrides' = overrides \cup {req[p].id}
  /\ Goto(p, Idle)
  /\ UNCHANGED <<rows, lastId, lock, asked>>

-------------------------------------------------------------------------------

Die(p) ==
  /\ req[p] # Idle
  /\ Goto(p, Idle)
  /\ lock' = IF lock = p THEN "stale" ELSE lock
  /\ UNCHANGED <<rows, lastId, overrides, asked>>

\* The lease of a dead request ends; no living one outlasts its own.
Expire ==
  /\ lock = "stale"
  /\ lock' = None
  /\ UNCHANGED <<rows, lastId, overrides, req, asked>>

Next ==
  \/ \E p \in Proc :
       \/ Create(p) \/ ReadOverlapping(p) \/ CommitMerge(p) \/ MergeFails(p) \/ Unlock(p)
       \/ ReadRow(p) \/ Detach(p) \/ Delete(p)
       \/ ReadOverridden(p) \/ RecordOverride(p)
       \/ Die(p)
  \/ Expire

Spec == Init /\ [][Next]_vars

-------------------------------------------------------------------------------
(* Properties.                                                             *)

\* However creations and deletions interleave, two blackouts of an employee
\* neither overlap nor touch: each merge takes up all it should.
Disjoint ==
  \A r, s \in rows : r # s => r.to < s.from \/ s.to < r.from

\* No merge drops an hour that was asked for and not deleted.
NothingLost == asked \subseteq UNION {Hours(r) : r \in rows}

\* With one request at a time, an override never names a blackout that is
\* gone, but for a deletion that died on its way.
OverridesLive == \A id \in overrides : \E r \in rows : r.id = id

-------------------------------------------------------------------------------
(* What is known at any time, for the proof.                               *)

Span == [from : 0..MaxTime, to : 0..MaxTime, loc : Location \cup {None}]

TypeOK ==
  /\ lastId \in Nat
  /\ rows \subseteq [id : 1..lastId, from : 0..MaxTime, to : 0..MaxTime, loc : Location \cup {None}]
  /\ \A r \in rows : r.from < r.to
  /\ \A r, s \in rows : r.id = s.id => r = s
  /\ overrides \subseteq Nat
  /\ req \in [Proc -> {Idle, [at |-> "unlock"]}
                        \cup [at : {"merge"}, wish : Wishes]
                        \cup [at : {"write"}, wish : Wishes, merged : SUBSET Nat, union : Span]
                        \cup [at : {"detach", "delete", "override"}, id : Nat]]

LockHeld == \A p \in Proc : req[p].at \in {"merge", "write", "unlock"} => lock = p

Apart(r, s) == r.to < s.from \/ s.to < r.from

\* A merge that has been read can be written: whatever is deleted until then,
\* it touches nothing it does not take up, and covers all it does.
Kept(p) == {r \in rows : r.id \notin req[p].merged}

Mergeable ==
  \A p \in Proc : req[p].at = "write" =>
    /\ req[p].union.from < req[p].union.to
    /\ \A r \in Kept(p) : Apart(r, req[p].union)
    /\ Hours(req[p].wish) \subseteq Hours(req[p].union)
    /\ asked \subseteq Hours(req[p].union) \cup UNION {Hours(r) : r \in Kept(p)}

IInv == TypeOK /\ LockHeld /\ Mergeable /\ Disjoint /\ NothingLost

\* With one request at a time, the row it works on is there until it deletes it.
Working ==
  \A p \in Proc :
    /\ req[p].at = "override" => \E r \in rows : r.id = req[p].id
    /\ req[p].at = "delete" => req[p].id \notin overrides

AloneInv == IInv /\ Working /\ OverridesLive
===============================================================================
