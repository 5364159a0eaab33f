----------------------------- MODULE RosterTools ------------------------------
(***************************************************************************)
(* Three tools beside the roster that work on the period in the switcher    *)
(* (roster.js): copying another period's assignments, with a preview first; *)
(* filling a period with suggestions, with a preview first; and the list of *)
(* posted open shifts.  RosterPage says when the switcher moves: with the   *)
(* user's choice and with every roster that is painted.                     *)
(***************************************************************************)
EXTENDS Naturals

CONSTANTS
  Period,
  None,
  MaxClicks  \* bound: gestures of the user, and rosters painted

VARIABLES
  selected,   \* the period in the switcher
  source,     \* the period chosen to copy from
  copyReady,  \* copyPreviewReady: Apply is offered
  copyReqs,   \* previews and copies in flight
  fill,       \* suggestions: None, or the period and how far it is
  filled,     \* history: periods whose suggestions were confirmed and applied
  seen,       \* history: periods whose suggestions the user has seen
  openSeq,    \* openShiftSeq
  openRows,   \* the periods whose open shifts are in the list ...
  openFor,    \* ... the period it was loaded for last ...
  openReqs,   \* ... and the requests in flight
  due,        \* handlers that will go on to loadOpenShiftList
  clicks

copyVars == <<source, copyReady, copyReqs>>
fillVars == <<fill, filled, seen>>
openVars == <<openSeq, openRows, openFor, openReqs, due>>
vars == <<selected, copyVars, fillVars, openVars, clicks>>

Init ==
  /\ selected \in Period
  /\ source = None /\ copyReady = FALSE /\ copyReqs = {}
  /\ fill = None /\ filled = {} /\ seen = {}
  /\ openSeq = 0 /\ openRows = {} /\ openFor = None /\ openReqs = {} /\ due = 1
  /\ clicks = 0

Click == clicks < MaxClicks /\ clicks' = clicks + 1

-------------------------------------------------------------------------------
(* The switcher.                                                           *)

\* Choosing a period loads it and then its open shifts, as the month
\* navigator does.
Switch ==
  /\ Click
  /\ \E p \in Period : p # selected /\ selected' = p
  /\ due' = due + 1
  /\ UNCHANGED <<copyVars, fillVars, openSeq, openRows, openFor, openReqs>>

\* fillPeriodSwitcher and fillCopySourceSelect of a roster that is painted.
Rendered ==
  /\ Click
  /\ selected' \in Period
  /\ source' = None /\ copyReady' = FALSE
  /\ UNCHANGED <<copyReqs, fillVars, openVars>>

-------------------------------------------------------------------------------
(* Copying.                                                                *)

ChooseSource ==
  /\ Click
  /\ \E p \in Period : p # selected /\ source' = p
  /\ copyReady' = FALSE
  /\ UNCHANGED <<selected, copyReqs, fillVars, openVars>>

\* runCopyPeriod(true), and runCopyPeriod(false) behind "Run Preview copy
\* first."
RunCopyPeriod(dryRun) ==
  /\ Click
  /\ source # None
  /\ dryRun \/ copyReady
  /\ copyReqs' = copyReqs \cup {[dryRun |-> dryRun, into |-> selected]}
  /\ UNCHANGED <<selected, source, copyReady, fillVars, openVars>>

\* A preview that finds something offers Apply, whatever is chosen by now; a
\* copy paints its roster.
CopyAnswer ==
  \E q \in copyReqs :
    /\ copyReqs' = copyReqs \ {q}
    /\ \/ /\ q.dryRun
          /\ copyReady' \in BOOLEAN
          /\ UNCHANGED <<selected, source>>
       \/ /\ ~q.dryRun
          /\ copyReady' = FALSE
          /\ selected' = q.into /\ source' = None
       \/ UNCHANGED <<selected, source, copyReady>>  \* it failed
    /\ UNCHANGED <<fillVars, openVars, clicks>>

-------------------------------------------------------------------------------
(* Suggestions.  The button is disabled until the whole of it is over; the *)
(* period is the one that was selected when it began.                      *)

SuggestFill ==
  /\ Click
  /\ fill = None
  /\ fill' = [of |-> selected, step |-> "preview"]
  /\ UNCHANGED <<selected, copyVars, filled, seen, openVars>>

SuggestPreviewed ==
  /\ fill # None
  /\ fill.step = "preview"
  /\ \/ fill' = [fill EXCEPT !.step = "dialog"] /\ seen' = seen \cup {fill.of}
     \/ fill' = None /\ UNCHANGED seen
  /\ UNCHANGED <<selected, copyVars, filled, openVars, clicks>>

\* Confirmed, or dismissed; another dialog or a roster being loaded dismisses
\* it, too.
SuggestAnswered_Bug ==
  /\ fill # None
  /\ fill.step = "dialog"
  /\ \/ fill' = [of |-> selected, step |-> "confirm"]
     \/ fill' = None
  /\ UNCHANGED <<selected, copyVars, filled, seen, openVars, clicks>>

SuggestAnswered ==
  /\ fill # None
  /\ fill.step = "dialog"
  /\ \/ fill' = [fill EXCEPT !.step = "confirm"]
     \/ fill' = None
  /\ UNCHANGED <<selected, copyVars, filled, seen, openVars, clicks>>

SuggestConfirmed ==
  /\ fill # None
  /\ fill.step = "confirm"
  /\ fill' = None
  /\ filled' \in {filled, filled \cup {fill.of}}
  /\ \/ filled' # filled /\ selected' = fill.of /\ source' = None /\ copyReady' = FALSE
     \/ UNCHANGED <<selected, source, copyReady>>
  /\ UNCHANGED <<copyReqs, seen, openVars, clicks>>

-------------------------------------------------------------------------------
(* The open shifts.                                                        *)

LoadOpenShiftList ==
  /\ openSeq' = openSeq + 1
  /\ openRows' = {}
  /\ openFor' = selected
  /\ openReqs' = openReqs \cup {[seq |-> openSeq + 1, of |-> selected]}

OpenShiftListDue ==
  /\ due > 0
  /\ due' = due - 1
  /\ LoadOpenShiftList
  /\ UNCHANGED <<selected, copyVars, fillVars, clicks>>

\* Posting one, deleting one, and the retry after a failure.
TouchOpenShift ==
  /\ Click
  /\ LoadOpenShiftList
  /\ UNCHANGED <<selected, copyVars, fillVars, due>>

\* The rows are appended to what is there.
OpenListAnswer_Bug ==
  \E q \in openReqs :
    /\ openReqs' = openReqs \ {q}
    /\ openRows' \in {openRows, openRows \cup {q.of}}
    /\ UNCHANGED <<selected, copyVars, fillVars, openSeq, openFor, due, clicks>>

OpenListAnswer ==
  \E q \in openReqs :
    /\ openReqs' = openReqs \ {q}
    /\ openRows' \in IF q.seq = openSeq THEN {openRows, openRows \cup {q.of}} ELSE {openRows}
    /\ UNCHANGED <<selected, copyVars, fillVars, openSeq, openFor, due, clicks>>

Next ==
  \/ Switch \/ Rendered
  \/ ChooseSource \/ (\E dryRun \in BOOLEAN : RunCopyPeriod(dryRun)) \/ CopyAnswer
  \/ SuggestFill \/ SuggestPreviewed \/ SuggestAnswered \/ SuggestConfirmed
  \/ OpenShiftListDue \/ TouchOpenShift \/ OpenListAnswer

Spec == Init /\ [][Next]_vars

-------------------------------------------------------------------------------
(* Properties.                                                             *)

\* However fast the user changes the period, the list holds the open shifts
\* of the period it was loaded for last, and of no other (openShiftSeq).
OpenShiftsOfNewestCall == openRows \subseteq {openFor}

\* A period is filled only with suggestions the user has seen for it.
FilledWasSeen == filled \subseteq seen

-------------------------------------------------------------------------------
(* What is known at any time, for the proof.                               *)

\* What the newest request is for.
Newest ==
  /\ openSeq \in Nat
  /\ \A q \in openReqs : q.seq \in 0..openSeq /\ (q.seq = openSeq => q.of = openFor)

SeenFirst ==
  fill # None => /\ fill = [of |-> fill.of, step |-> fill.step]
                 /\ fill.step # "preview" => fill.of \in seen

IInv == Newest /\ SeenFirst /\ OpenShiftsOfNewestCall /\ FilledWasSeen
===============================================================================
