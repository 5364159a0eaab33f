----------------------------- MODULE PatternsPage -----------------------------
(***************************************************************************)
(* The rotation patterns page (patterns.js): the list, the editor, and the *)
(* dialog that assigns a pattern to an employee from a date on and may end *)
(* the assignment it overlaps.  The dialog asks for the employee's present *)
(* assignments whenever employee or date change, and ticks the box for     *)
(* ending them when one overlaps.                                          *)
(***************************************************************************)
EXTENDS Naturals, FiniteSets

CONSTANTS
  Pattern,
  Employee,
  Date,
  None,
  MaxClicks  \* bound: gestures of the user

VARIABLES
  list,         \* the list: "none", "painted" or "disabled"
  loads,        \* load() calls in flight, by the save that waits for it
  opening,      \* openEditor and openAssign calls that still fetch
  dialog,       \* the modal: None or what it is for and how far it is
  saves,        \* requests of dialogs in flight, by dialog
  opened,       \* how many dialogs have been opened, which numbers them
  editorDayMap, \* the pattern whose week days readGrid carries over
  choice,       \* the assign dialog: employee (or None) and date ...
  ticked,       \* ... superBox.checked ...
  autoChecked,  \* ... and whether it was ticked for the user
  hint,         \* the overlap that is shown, None if there is none
  refreshes,    \* refreshExisting requests in flight
  loadSeq,
  clicks

listVars   == <<list, loads>>
dialogVars == <<choice, ticked, autoChecked, hint, refreshes, loadSeq>>
vars == <<listVars, opening, dialog, saves, opened, editorDayMap, dialogVars, clicks>>

NoChoice == [emp |-> None, from |-> None]

Init ==
  /\ list = "none" /\ loads = {0}
  /\ opening = {} /\ dialog = None /\ saves = {} /\ opened = 0 /\ editorDayMap = None
  /\ choice = NoChoice /\ ticked = FALSE /\ autoChecked = FALSE /\ hint = None
  /\ refreshes = {} /\ loadSeq = 0
  /\ clicks = 0

Click == clicks < MaxClicks /\ clicks' = clicks + 1

\* Its primary button is enabled: it has no request in flight.
Ready(kind) ==
  /\ dialog # None
  /\ dialog.kind = kind
  /\ ~\E s \in saves : s.no = dialog.no
  /\ dialog.no \notin loads

In(kind) == dialog # None /\ dialog.kind = kind

\* A saved dialog closes itself, if it is still on the page.
Close(no) == dialog' = IF dialog # None /\ dialog.no = no THEN None ELSE dialog

-------------------------------------------------------------------------------
(* The list and the editor.                                                *)

\* A failed load leaves what is painted.
ListAnswer ==
  \E no \in loads :
    /\ loads' = loads \ {no}
    /\ list' \in {"painted", "disabled", list}
    /\ Close(no)
    /\ UNCHANGED <<opening, saves, opened, editorDayMap, dialogVars, clicks>>

\* Creating, editing and assigning fetch catalogues first; nothing covers the
\* page meanwhile, so several may be on their way.  Deleting asks at once.
Open ==
  /\ Click
  /\ dialog = None
  /\ \E kind \in {"edit", "assign", "delete"}, of \in Pattern \cup {None} :
       /\ of = None => kind = "edit"
       /\ of # None => list = "painted"
       /\ opening' = opening \cup {[kind |-> kind, of |-> of]}
  /\ UNCHANGED <<listVars, dialog, saves, opened, editorDayMap, dialogVars>>

\* openModal takes the place of a dialog that is open.  The answers a former
\* assign dialog waits for find its own fields, no longer on the page.
Opened ==
  \E o \in opening :
    /\ opening' = opening \ {o}
    /\ opened' = opened + 1
    /\ dialog' = [kind |-> o.kind, of |-> o.of, no |-> opened + 1]
    /\ editorDayMap' = IF o.kind = "edit" THEN o.of ELSE editorDayMap
    /\ choice' = [emp |-> None, from |-> IF o.kind = "assign" THEN CHOOSE d \in Date : TRUE
                                         ELSE None]
    /\ ticked' = FALSE /\ autoChecked' = FALSE /\ hint' = None
    /\ refreshes' = {} /\ loadSeq' = 0
    /\ UNCHANGED <<listVars, saves, clicks>>

\* Another number of weeks starts from empty days.
ChangeWeeks ==
  /\ Click
  /\ In("edit")
  /\ editorDayMap' = None
  /\ UNCHANGED <<listVars, opening, dialog, saves, opened, dialogVars>>

Request == saves' = saves \cup {[kind |-> dialog.kind, no |-> dialog.no]}

Save ==
  /\ Click
  /\ \E kind \in {"edit", "delete"} : Ready(kind)
  /\ Request
  /\ dialog' = IF dialog.kind = "delete" THEN None ELSE dialog
  /\ UNCHANGED <<listVars, opening, opened, editorDayMap, dialogVars>>

\* A saved pattern, or a deleted one, loads the list again and then closes its
\* dialog; an assigned one closes it at once; a failed request leaves it open.
Saved ==
  \E s \in saves :
    /\ saves' = saves \ {s}
    /\ \/ s.kind # "assign" /\ loads' = loads \cup {s.no} /\ UNCHANGED dialog
       \/ s.kind = "assign" /\ Close(s.no) /\ UNCHANGED loads
       \/ UNCHANGED <<loads, dialog>>
    /\ UNCHANGED <<list, opening, opened, editorDayMap, dialogVars, clicks>>

\* Cancel and Escape work while a dialog saves, too.
Cancel ==
  /\ dialog # None
  /\ dialog' = None
  /\ UNCHANGED <<listVars, opening, saves, opened, editorDayMap, dialogVars, clicks>>

-------------------------------------------------------------------------------
(* The assign dialog.                                                      *)

\* refreshExisting: without an employee there is nothing to ask; with one the
\* box keeps its tick until the answer.
Refresh(c) ==
  /\ choice' = c
  /\ loadSeq' = loadSeq + 1
  /\ hint' = None
  /\ IF c.emp = None
     THEN /\ ticked' = (ticked /\ ~autoChecked)
          /\ autoChecked' = FALSE
          /\ UNCHANGED refreshes
     ELSE /\ refreshes' = refreshes \cup {[choice |-> c, seq |-> loadSeq + 1]}
          /\ UNCHANGED <<ticked, autoChecked>>

Choose ==
  /\ Click
  /\ In("assign")
  /\ \E c \in [emp : Employee \cup {None}, from : Date] : c # choice /\ Refresh(c)
  /\ UNCHANGED <<listVars, opening, dialog, saves, opened, editorDayMap>>

Tick ==
  /\ Click
  /\ In("assign")
  /\ ticked' = ~ticked
  /\ autoChecked' = FALSE
  /\ UNCHANGED <<listVars, opening, dialog, saves, opened, editorDayMap,
                 choice, hint, refreshes, loadSeq>>

Show(overlap, c) ==
  IF overlap
  THEN ticked' = TRUE /\ autoChecked' = TRUE /\ hint' = c
  ELSE /\ ticked' = (ticked /\ ~autoChecked)
       /\ autoChecked' = FALSE
       /\ UNCHANGED hint

RefreshAnswer_Bug ==
  /\ In("assign")
  /\ \E q \in refreshes, overlap \in BOOLEAN :
       /\ refreshes' = refreshes \ {q}
       /\ Show(overlap, q.choice)
       /\ UNCHANGED <<listVars, opening, dialog, saves, opened, editorDayMap,
                      choice, loadSeq, clicks>>

\* The answer for the latest choice; one that fails counts as no assignments.
RefreshAnswer ==
  /\ In("assign")
  /\ \E q \in refreshes, overlap \in BOOLEAN :
       /\ refreshes' = refreshes \ {q}
       /\ IF q.seq = loadSeq THEN Show(overlap, q.choice)
          ELSE UNCHANGED <<ticked, autoChecked, hint>>
       /\ UNCHANGED <<listVars, opening, dialog, saves, opened, editorDayMap,
                      choice, loadSeq, clicks>>

\* Assigning does not wait for the answer.
Assign ==
  /\ Click
  /\ Ready("assign")
  /\ choice.emp # None
  /\ Request
  /\ UNCHANGED <<listVars, opening, dialog, opened, editorDayMap, dialogVars>>

Next ==
  \/ ListAnswer \/ Open \/ Opened
  \/ ChangeWeeks \/ Save \/ Saved \/ Cancel
  \/ Choose \/ Tick \/ RefreshAnswer \/ Assign

Spec == Init /\ [][Next]_vars

-------------------------------------------------------------------------------
(* Properties.                                                             *)

\* The overlap on the screen is that of the chosen employee and date, and
\* once the latest answer is in, a box nobody ticked by hand is ticked only
\* beside it.
OverlapShown ==
  In("assign") =>
    /\ hint # None => hint = choice
    /\ (autoChecked /\ ~\E q \in refreshes : q.seq = loadSeq) => ticked /\ hint = choice

\* What is being saved keeps the days of the pattern that is being edited, or
\* of none after the number of weeks was changed.
DaysOfEdited ==
  In("edit") => editorDayMap \in {dialog.of, None}

-------------------------------------------------------------------------------
(* What is known at any time, for the proof.                               *)

\* What the newest refresh is for.
Newest ==
  /\ loadSeq \in Nat
  /\ \A q \in refreshes : q.seq \in 0..loadSeq /\ (q.seq = loadSeq => q.choice = choice)

TickedBeside ==
  /\ hint # None => hint = choice
  /\ autoChecked => ticked
  /\ autoChecked /\ (\A q \in refreshes : q.seq # loadSeq) => hint = choice

IInv == Newest /\ TickedBeside /\ DaysOfEdited
===============================================================================
