------------------------------ MODULE RowWindow -------------------------------
(***************************************************************************)
(* Long tables paint only the rows around the viewport                      *)
(* (common/virtual-window.js): the planning grid and the list of the roster *)
(* page, one hidden while the other is seen (roster.js), and the catalogue  *)
(* tables of employees, locations and absences (common/windowed-table.js).  *)
(* Scrolling, the choice of a table and the row a conflict points to paint  *)
(* in a frame of their own; data, sizes, printing and the keyboard paint at *)
(* once.  A load puts one row in place of a table's rows.                   *)
(***************************************************************************)
EXTENDS Integers

CONSTANTS
  RowHeight,  \* in steps of scrolling
  Overscan,   \* DEFAULT_OVERSCAN
  Unsized,    \* UNSIZED_WINDOW_ROWS
  Threshold,  \* WINDOW_THRESHOLD
  Sizes,      \* bound: numbers of rows
  Heights     \* bound: heights of the viewport

VARIABLES
  total,     \* rows of each table
  height,    \* the viewport of the table that is seen
  top,       \* scrollTop of each
  view,      \* the table that is seen: "grid", "list" or "catalog"
  win,       \* painted last: rows start..end-1, of count rows
  body,      \* what a table has: its "rows", one "notice" (loading, or an
             \* error), or the rows of an "old" roster
  frame,     \* animation frames: the tables scrolled, and "view"
  reveal,    \* the frame that is to reveal a row, if there is one
  paintAll,  \* while printing
  found      \* history: the row that was moved to last was painted

vars == <<total, height, top, view, win, body, frame, reveal, paintAll, found>>

Table == {"grid", "list", "catalog"}

Least(a, b) == IF a <= b THEN a ELSE b
Most(a, b)  == IF a >= b THEN a ELSE b
Ceil(a, b)  == (a + b - 1) \div b

\* How far a table of n rows scrolls.
MaxTop(n, h) == Most(0, n * RowHeight - h)

-------------------------------------------------------------------------------
(* virtual-window.js.                                                      *)

VisibleRange_Bug(n, h, scrollTop, all) ==
  IF n = 0 \/ all THEN [start |-> 0, end |-> n]
  ELSE LET first   == Least(n - 1, scrollTop \div RowHeight)
           visible == IF h <= 0 THEN Unsized ELSE Most(1, h \div RowHeight)
       IN  [start |-> Most(0, first), end |-> Least(n, first + visible)]

VisibleRange(n, h, scrollTop, all) ==
  IF n = 0 \/ all THEN [start |-> 0, end |-> n]
  ELSE LET first   == Least(n - 1, scrollTop \div RowHeight)
           visible == IF h <= 0 THEN Unsized ELSE Most(1, Ceil(h, RowHeight))
       IN  [start |-> Most(0, first - Overscan),
            end   |-> Least(n, first + visible + Overscan)]

ScrollTopToRevealIndex_Bug(index, n, h, scrollTop) ==
  IF index * RowHeight < scrollTop THEN index * RowHeight ELSE scrollTop

ScrollTopToRevealIndex(index, n, h, scrollTop) ==
  LET rowTop == index * RowHeight
      next   == IF rowTop < scrollTop THEN rowTop
                ELSE IF rowTop + RowHeight > scrollTop + h THEN rowTop + RowHeight - h
                ELSE scrollTop
  IN  Least(Most(0, next), MaxTop(Most(index + 1, n), h))

-------------------------------------------------------------------------------
(* Painting: paintGridWindow, paintListWindow and paint.                   *)

\* A hidden table has no height and is scrolled to its top.
Seen(t) == view = t
Range(t, n, h, s, v, all) ==
  VisibleRange(n[t], IF v = t THEN h ELSE 0, IF v = t THEN s[t] ELSE 0,
               all \/ (t = "catalog" /\ n[t] <= Threshold))

Paint(t, n, h, s, v, all) ==
  LET r == Range(t, n, h, s, v, all) IN [start |-> r.start, end |-> r.end, count |-> n[t]]

\* The rows a table is long, those left out included.
Length(t) == IF body[t] = "notice" THEN 1 ELSE win[t].count

\* The browser never leaves a table scrolled past its end, and tells of it.
ScrolledTo(s) == top' = [t \in Table |-> Least(s[t], MaxTop(Length(t)', height'))]
Moved == {t \in Table : top'[t] # top[t]}

Page == IF view = "catalog" THEN {"catalog"} ELSE {"grid", "list"}

\* The tables ts are painted as they are, at the scroll positions s.
PaintTables(ts, s) ==
  /\ win' = [t \in Table |-> IF t \in ts THEN Paint(t, total', height', s, view', paintAll') ELSE win[t]]
  /\ body' = [t \in Table |-> IF t \in ts THEN "rows" ELSE body[t]]
  /\ ScrolledTo(s)

Init ==
  /\ total = [t \in Table |-> 0]
  /\ height \in Heights
  /\ top = [t \in Table |-> 0]
  /\ view \in {"grid", "catalog"}
  /\ win = [t \in Table |-> [start |-> 0, end |-> 0, count |-> 0]]
  /\ body = [t \in Table |-> "rows"]
  /\ frame = {} /\ reveal = {} /\ paintAll = FALSE
  /\ found = TRUE

\* What happens meanwhile to the list a row is to be revealed in.
Overtaken(rs) == {[r EXCEPT !.overtaken = TRUE] : r \in rs}

\* renderAssignments, or a catalogue that is painted: a forced paint at the
\* scroll position of what was there.
Render ==
  /\ \E n \in [Page -> Sizes] :
       total' = [t \in Table |-> IF t \in Page THEN n[t] ELSE total[t]]
  /\ UNCHANGED <<height, view, paintAll, found>>
  /\ PaintTables(Page, top)
  /\ frame' = frame \cup Moved
  /\ reveal' = Overtaken(reveal)

\* setLoadingRow and renderTableFetchError: what was painted is remembered
\* all the same.  The grid has no such row.
Notice ==
  /\ LET t == IF view = "catalog" THEN view ELSE "list"
     IN  body' = [body EXCEPT ![t] = "notice"]
  /\ UNCHANGED <<total, height, view, win, paintAll, found>>
  /\ ScrolledTo(top)
  /\ frame' = frame \cup Moved
  /\ reveal' = Overtaken(reveal)

Scroll ==
  /\ \E s \in 0..MaxTop(Length(view), height) :
       top' = [top EXCEPT ![view] = s]
  /\ frame' = frame \cup {view}
  /\ UNCHANGED <<total, height, view, win, body, reveal, paintAll, found>>

\* The frame a scroll asked for: a paint that is skipped when there are as
\* many rows and the range is what was painted last.
Frame ==
  /\ UNCHANGED <<total, height, view, reveal, paintAll, found>>
  /\ \E t \in frame \cap Table :
       /\ IF total[t] > 0 /\ win[t] = Paint(t, total, height, top, view, paintAll)
          THEN UNCHANGED <<win, body, top>>
          ELSE PaintTables({t}, top)
       /\ frame' = (frame \ {t}) \cup Moved

\* The frame setRosterView asked for, which paints the table that is seen by
\* then.
ViewFrame ==
  /\ "view" \in frame
  /\ UNCHANGED <<total, height, view, reveal, paintAll, found>>
  /\ PaintTables({view}, top)
  /\ frame' = (frame \ {"view"}) \cup Moved

\* The roster page observes its tables and paints at once, a catalogue asks
\* for a frame.
Resize ==
  /\ height' \in Heights \ {height}
  /\ UNCHANGED <<total, view, reveal, paintAll, found>>
  /\ IF view = "catalog"
     THEN UNCHANGED <<win, body>> /\ ScrolledTo(top) /\ frame' = frame \cup {view}
     ELSE PaintTables({view}, [t \in Table |-> Least(top[t], MaxTop(Length(t), height'))])
          /\ frame' = frame \cup Moved

\* applyRosterViewChrome: some browsers remember where a table that was
\* hidden was scrolled to.
Show(t) ==
  /\ view' = t
  /\ \E s \in IF view = t THEN {top[t]} ELSE {0, top[t]} : ScrolledTo([top EXCEPT ![t] = s])

\* setRosterView: the other table is shown and painted in the next frame.
SetRosterView ==
  /\ view # "catalog"
  /\ UNCHANGED <<total, height, win, body, paintAll, found>>
  /\ \E t \in {"grid", "list"} \ {view} : Show(t)
  /\ frame' = frame \cup {"view"} \cup Moved
  /\ reveal' = Overtaken(reveal)

\* beforeprint and afterprint.
SetPaintAll ==
  /\ paintAll' = ~paintAll
  /\ UNCHANGED <<total, height, view, reveal, found>>
  /\ PaintTables(Page, top)
  /\ frame' = frame \cup Moved

-------------------------------------------------------------------------------
(* The keyboard, in the grid: arrows, Home and End, a page up or down, from *)
(* gridState.focusRow, which a click on any cell sets: to any row.  That row *)
(* is scrolled to and painted before its cell is looked for.                *)

InWindow(i, w) == i >= w.start /\ i < w.end

\* Where a table is scrolled to for the sake of row i of n.
Revealing(t, i, n) ==
  [top EXCEPT ![t] = Least(ScrollTopToRevealIndex(i, n, Most(RowHeight, height), @),
                           MaxTop(Length(t), height))]

Key ==
  /\ view = "grid"
  /\ UNCHANGED <<total, height, view, reveal, paintAll>>
  /\ \E i \in 0..(total["grid"] - 1) :
       /\ PaintTables({"grid"}, Revealing("grid", i, total["grid"]))
       /\ found' = InWindow(i, win'["grid"])
  /\ frame' = frame \cup Moved

-------------------------------------------------------------------------------
(* "Show assignment" of a conflict.                                        *)

\* The click captures the rows and the place of the one to reveal, and shows
\* the list; one at a time (bound).
RevealAssignmentRow ==
  /\ view # "catalog"
  /\ reveal = {}
  /\ \E i \in 0..(total["list"] - 1) :
       reveal' = {[row |-> i, of |-> total["list"], overtaken |-> body["list"] # "rows"]}
  /\ UNCHANGED <<total, height, win, body, paintAll, found>>
  /\ Show("list")
  /\ frame' = frame \cup Moved

\* The frame scrolls to the row, paints the rows that were captured, whatever
\* has been rendered since, and looks for the row.
RevealFrame ==
  /\ UNCHANGED <<total, height, view, paintAll>>
  /\ \E r \in reveal :
       LET s == IF view = "list" THEN Revealing("list", r.row, r.of) ELSE top
       IN  /\ win' = [win EXCEPT !["list"] = Paint("list", [total EXCEPT !["list"] = r.of],
                                                   height, s, view, paintAll)]
           /\ body' = [body EXCEPT !["list"] = IF r.overtaken THEN "old" ELSE "rows"]
           /\ ScrolledTo(s)
           /\ found' = (InWindow(r.row, win'["list"]) \/ r.overtaken)
  /\ reveal' = {}
  /\ frame' = frame \cup Moved

Next ==
  \/ Render \/ Notice \/ Scroll \/ Frame \/ ViewFrame \/ Resize \/ SetRosterView
  \/ SetPaintAll \/ Key \/ RevealAssignmentRow \/ RevealFrame

Spec == Init /\ [][Next]_vars

-------------------------------------------------------------------------------
(* Properties.                                                             *)

TypeOK ==
  /\ total \in [Table -> Sizes] /\ height \in Heights
  /\ top \in [Table -> Nat]
  /\ view \in Table /\ frame \subseteq Table \cup {"view"}
  /\ \A t \in Table : win[t].start \in 0..win[t].end /\ win[t].end <= win[t].count

\* Nothing is to be painted yet, and the table has its rows.
Settled ==
  /\ view \notin frame /\ "view" \notin frame
  /\ view = "list" => reveal = {}
  /\ body[view] = "rows"

\* Once the frames have run, every row in the viewport is painted, however
\* data, notices, sizes, scrolling, printing, the choice of the table and the
\* rows conflicts point to interleave; unless a frame has painted a roster
\* that had been left by then.
ViewportPainted ==
  Settled =>
    /\ win[view].count = total[view]
    /\ \A i \in 0..(total[view] - 1) :
         (i + 1) * RowHeight > top[view] /\ i * RowHeight < top[view] + height
           => InWindow(i, win[view])

\* The row the keyboard moves to, or a conflict points to, is painted when its
\* cell is looked for: the focus is never lost.  For a conflict only if
\* nothing is rendered, loaded or shown between the click and the frame.
FocusFound == found

-------------------------------------------------------------------------------
(* What is known at any time, for the proof.                               *)

\* Without a frame to come, the table that is seen is painted as it is.
Painted == Settled => win[view] = Paint(view, total, height, top, view, paintAll)

\* Every table is as long as it has rows, but for a notice or an old roster.
Lengths == \A t \in Table : body[t] = "rows" => win[t].count = total[t]

\* A row is still where it was captured unless that has been overtaken.
Captured ==
  \A r \in reveal :
    /\ r.row \in 0..(r.of - 1)
    /\ r.overtaken \/ (view = "list" /\ body["list"] = "rows" /\ r.of = total["list"])

IInv ==
  /\ total \in [Table -> Nat] /\ height \in Nat /\ top \in [Table -> Nat]
  /\ view \in Table
  /\ \A t \in Table : win[t].count \in Nat
  /\ DOMAIN win = Table /\ body \in [Table -> {"rows", "notice", "old"}]
  /\ body["grid"] = "rows"
  /\ reveal \subseteq [row : Nat, of : Nat, overtaken : BOOLEAN]
  /\ Painted /\ Lengths /\ Captured
  /\ found
===============================================================================
