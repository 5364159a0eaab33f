------------------------------ MODULE RosterPage ------------------------------
(***************************************************************************)
(* The view of the roster page (roster.js): one period's assignments in a   *)
(* list and in a planning grid, one of them hidden, the readiness strip      *)
(* beside them, and everything that paints them.  Loading the roster is      *)
(* guarded by a generation (rosterViewSeq); a saved, cancelled or confirmed  *)
(* row repaints it with what its own answer carries.  What loading and a     *)
(* failure say is written into the list only.                                *)
(***************************************************************************)
EXTENDS Naturals

CONSTANTS
  Period,
  None,
  MaxClicks  \* bound: gestures of the user

VARIABLES
  shown,      \* the period of the roster at hand (lastRosterData, state)
  list,       \* the list: "loading", "failed", the period whose rows it has, or
              \* "old" when they are of a roster at hand before
  grid,       \* the grid: the periods its days and its rows are of
  switcher,   \* the period switcher, which names the period actions are for
  url,        \* periodId in the address
  seq,        \* rosterViewSeq
  due,        \* history: the period that is to be seen, None if the server's choice
  painted,    \* history: the newest load has been painted
  loads,      \* loadRoster calls in flight
  writes,     \* requests that change a roster, in flight
  month,      \* the month navigator: "idle", "asking" or "loading"
  strip,      \* the readiness strip: "hidden" or the period it tells of
  stripReqs,
  reveal,     \* the roster captured by a frame that is to reveal one of its rows
  clicks

viewVars == <<list, grid, shown, switcher, url>>
loadVars == <<seq, due, painted, loads>>
paneVars == <<strip, stripReqs>>
vars == <<viewVars, loadVars, writes, month, paneVars, reveal, clicks>>

Chosen == Period \cup {None}

\* The page is opened for a period, or for the present month.
Init ==
  /\ shown = None /\ switcher = None
  /\ grid = [days |-> None, rows |-> None]
  /\ strip = "hidden" /\ stripReqs = {}
  /\ writes = {} /\ reveal = None /\ clicks = 0
  /\ painted = FALSE
  /\ \/ /\ url \in Period
        /\ seq = 1 /\ loads = {[seq |-> 1, asked |-> url, by |-> "boot"]}
        /\ list = "loading" /\ month = "idle"
     \/ /\ url = None
        /\ seq = 0 /\ loads = {}
        /\ list = None /\ month = "asking"
  /\ due = url

Click == clicks < MaxClicks /\ clicks' = clicks + 1

-------------------------------------------------------------------------------
(* Painting.                                                               *)

\* The grid shows the rows at hand on the days of the period in the switcher
\* (periodDateList).
Cells(p, rows) == [days |-> p, rows |-> rows]

\* Without renderRosterGrid.
Render_Bug(p) ==
  /\ shown' = p /\ switcher' = p
  /\ list' = p
  /\ UNCHANGED grid

\* render(), which also sets the switcher.
Render(p) ==
  /\ shown' = p /\ switcher' = p
  /\ list' = p
  /\ grid' = Cells(p, p)

\* Scrolling, a new size, the choice between list and grid, printing and the
\* signals of a roster paint what is at hand, over a loading or an error row
\* too.
PaintAgain ==
  /\ \/ list' = shown /\ UNCHANGED grid
     \/ grid' = Cells(switcher, shown) /\ UNCHANGED list
  /\ UNCHANGED <<shown, switcher, url, loadVars, writes, month, paneVars, reveal, clicks>>

\* A load that is called by a guarded handler of its own; a modal dialog that
\* is open is dismissed.  The loading row is the list's, the grid keeps its
\* cells.
LoadRoster(p, by) ==
  /\ seq' = seq + 1
  /\ loads' = loads \cup {[seq |-> seq + 1, asked |-> p, by |-> by]}
  /\ list' = "loading"
  /\ due' = p /\ painted' = FALSE
  /\ UNCHANGED grid

\* The handler that waited for this load goes on, be it answered or dropped.
GoesOn(by) == month' = IF by = "month" THEN "idle" ELSE month

-------------------------------------------------------------------------------
(* loadRoster's answer.                                                    *)

\* Without the generation test.
Painted_Bug(l, p) ==
  /\ Render(p)
  /\ url' = p /\ painted' = (painted \/ l.seq = seq)
  /\ stripReqs' = stripReqs \cup {[seq |-> l.seq, of |-> p]}

\* It is painted only if no later load has been asked for.
Painted(l, p) ==
  IF l.seq = seq
  THEN /\ Render(p)
       /\ url' = p /\ painted' = TRUE
       /\ stripReqs' = stripReqs \cup {[seq |-> l.seq, of |-> p]}
  ELSE UNCHANGED <<viewVars, painted, stripReqs>>

\* Asked for no period in particular, the server chooses one.
LoadAnswer ==
  \E l \in loads, p \in Period :
    /\ l.asked # None => p = l.asked
    /\ loads' = loads \ {l}
    /\ Painted(l, p)
    /\ GoesOn(l.by)
    /\ UNCHANGED <<seq, due, writes, strip, reveal, clicks>>

\* PERIOD_NOT_FOUND: the same call asks again for no period in particular.
LoadFallback ==
  /\ \E l \in loads :
       /\ l.asked # None
       /\ l.seq = seq
       /\ loads' = (loads \ {l}) \cup {[l EXCEPT !.asked = None]}
  /\ due' = None
  /\ UNCHANGED <<viewVars, seq, painted, writes, month, paneVars, reveal, clicks>>

\* Neither the error row nor the finally's clearLoadingRow.
LoadFails_Bug ==
  \E l \in loads :
    /\ loads' = loads \ {l}
    /\ GoesOn(l.by)
    /\ UNCHANGED <<viewVars, seq, due, painted, writes, paneVars, reveal, clicks>>

\* The error row is the list's too.
LoadFails ==
  \E l \in loads :
    /\ loads' = loads \ {l}
    /\ list' = IF l.seq = seq THEN "failed" ELSE list
    /\ GoesOn(l.by)
    /\ UNCHANGED <<grid, shown, switcher, url, seq, due, painted, writes, paneVars, reveal, clicks>>

\* loadCoverageStrip: a dropped answer leaves what is there.
StripAnswer_Bug ==
  \E q \in stripReqs :
    /\ stripReqs' = stripReqs \ {q}
    /\ strip' \in {"hidden", q.of}
    /\ UNCHANGED <<viewVars, loadVars, writes, month, reveal, clicks>>

StripAnswer ==
  \E q \in stripReqs :
    /\ stripReqs' = stripReqs \ {q}
    /\ strip' \in IF q.seq = seq THEN {"hidden", q.of} ELSE {strip}
    /\ UNCHANGED <<viewVars, loadVars, writes, month, reveal, clicks>>

-------------------------------------------------------------------------------
(* Choosing what to see.                                                   *)

Switch ==
  /\ Click
  /\ \E p \in Period :
       /\ p # switcher
       /\ switcher' = p
       /\ LoadRoster(p, "switch")
  /\ UNCHANGED <<shown, url, writes, month, paneVars, reveal>>

\* The error row's button asks for the period of the load that failed: the
\* newest one.
Retry ==
  /\ Click
  /\ list = "failed"
  /\ \E p \in Chosen : LoadRoster(p, "retry")
  /\ UNCHANGED <<shown, switcher, url, writes, month, paneVars, reveal>>

\* goToCalendarMonth asks the server to open the month; its buttons are
\* disabled until it is done.
AskMonth ==
  /\ Click
  /\ month = "idle"
  /\ month' = "asking"
  /\ UNCHANGED <<viewVars, loadVars, writes, paneVars, reveal>>

\* The month's period is loaded whatever the user has chosen meanwhile; a
\* failure paints an error over the list, whichever roster that shows.
MonthAnswer ==
  /\ month = "asking"
  /\ \/ /\ month' = "loading"
        /\ \E p \in Chosen : LoadRoster(p, "month")
     \/ /\ month' = "idle"
        /\ list' \in {"failed", list}
        /\ UNCHANGED <<grid, loadVars>>
  /\ UNCHANGED <<shown, switcher, url, writes, paneVars, reveal, clicks>>

\* "Show assignment" of a conflict (revealAssignmentRow) captures the rows at
\* hand; one at a time (bound).
Reveal ==
  /\ Click
  /\ shown # None /\ reveal = None
  /\ reveal' = shown
  /\ UNCHANGED <<viewVars, loadVars, writes, month, paneVars>>

\* The next frame paints them into the list, whatever is at hand by then.
RevealFrame ==
  /\ reveal # None
  /\ list' = IF reveal = shown THEN shown ELSE "old"
  /\ reveal' = None
  /\ UNCHANGED <<grid, shown, switcher, url, loadVars, writes, month, paneVars, clicks>>

-------------------------------------------------------------------------------
(* Changing the roster.  A saved (performAssignmentSave), cancelled or      *)
(* confirmed row (acknowledgeConflict) "repaint"s with its answer, which is  *)
(* the roster of the period in the switcher or of the row; suggestions and   *)
(* templates "fill" the period in the switcher, which is loaded again; a     *)
(* swap or claim that is "approve"d loads the period that is in the switcher *)
(* by then.  None of them waits for a load that is on its way.               *)

\* The periods a row can be of.
Acted == IF list = "old" THEN Period \cup {switcher} ELSE {shown, switcher}

StartWrite ==
  /\ Click
  /\ shown # None
  /\ \/ \E kind \in {"fill", "approve"} : writes' = writes \cup {[kind |-> kind, of |-> switcher]}
     \/ \E p \in Acted : writes' = writes \cup {[kind |-> "repaint", of |-> p]}
  /\ UNCHANGED <<viewVars, loadVars, month, paneVars, reveal>>

\* No generation guards these.
Repainted(w) ==
  /\ w.kind = "repaint"
  /\ Render(w.of)
  /\ due' = IF painted THEN w.of ELSE due
  /\ UNCHANGED <<url, seq, painted, loads>>

Reloaded(w) ==
  /\ w.kind # "repaint"
  /\ LoadRoster(IF w.kind = "fill" THEN w.of ELSE switcher, "write")
  /\ UNCHANGED <<shown, switcher, url>>

Refused == UNCHANGED <<viewVars, loadVars>>

WriteAnswer ==
  \E w \in writes :
    /\ writes' = writes \ {w}
    /\ Repainted(w) \/ Reloaded(w) \/ Refused
    /\ UNCHANGED <<month, paneVars, reveal, clicks>>

Next ==
  \/ PaintAgain
  \/ LoadAnswer \/ LoadFallback \/ LoadFails \/ StripAnswer
  \/ Switch \/ Retry \/ AskMonth \/ MonthAnswer
  \/ Reveal \/ RevealFrame
  \/ StartWrite \/ WriteAnswer

Spec == Init /\ [][Next]_vars

-------------------------------------------------------------------------------
(* Properties.                                                             *)

\* Whatever is still in flight for a period left behind, the strip, once the
\* newest load and its readiness are in, tells of the loaded period
\* (rosterViewSeq).
StripOfNewestLoad ==
  (/\ strip # "hidden"
   /\ painted
   /\ ~\E q \in stripReqs : q.seq = seq)
  => strip = url

\* "A retriggered fetch must never paint an older response over the newest
\* selection's surface" (roster.js:43): once the newest load has been painted,
\* the roster is that of the period asked for last, or of a row saved since,
\* and so are the switcher, the days and cells of the grid and the rows of the
\* list, unless it has an error or a reveal has painted rows it had captured.
RowsOfNewestLoad ==
  painted =>
    /\ due # None => shown = due
    /\ switcher = shown
    /\ grid = Cells(shown, shown)
    /\ list \in {shown, "failed", "old"}

\* The list does not say it is loading when nothing is on its way.
NotStuckLoading == list = "loading" => \E l \in loads : l.seq = seq

-------------------------------------------------------------------------------
(* What is known at any time, for the proof.                               *)

TypeOK ==
  /\ seq \in Nat /\ painted \in BOOLEAN
  /\ shown \in Chosen /\ switcher \in Chosen
  /\ writes \subseteq [kind : {"repaint", "fill", "approve"}, of : Chosen]
  /\ loads \subseteq [seq : Nat, asked : Chosen, by : {"boot", "switch", "retry", "month", "write"}]
  /\ stripReqs \subseteq [seq : Nat, of : Period]

\* At most one load is the newest, none once it has been painted; it asks for
\* what is due, and its strip is that of the period in the address.
Newest ==
  /\ \A l \in loads : l.seq <= seq /\ (l.seq = seq => ~painted /\ l.asked = due)
  /\ \A l, m \in loads : l.seq = seq /\ m.seq = seq => l = m
  /\ \A q \in stripReqs : q.seq <= seq /\ (q.seq = seq => painted /\ q.of = url)

IInv == TypeOK /\ Newest /\ RowsOfNewestLoad /\ StripOfNewestLoad /\ NotStuckLoading
===============================================================================
