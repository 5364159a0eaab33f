----------------------------- MODULE MyRosterPage -----------------------------
(***************************************************************************)
(* An employee's page (my-roster.js): the shifts of a range of dates, each  *)
(* with a button to confirm it and one to ask for a swap or take the        *)
(* request back; the open shifts to claim; and the team's week.             *)
(***************************************************************************)
EXTENDS Naturals, FiniteSets

CONSTANTS
  Shift,
  Dates,     \* ranges of dates, for the roster and the team's week
  None,
  MaxClicks  \* bound: gestures of the user

VARIABLES
  server,     \* the server: shifts with an open swap request of this employee
  range,      \* state.from and state.to
  table,      \* the table: "loading", "failed", "unlinked" or the range shown
  buttons,    \* shifts whose row offers to withdraw the request
  swaps,      \* myOpenSwapByAssignment
  fetchSeq,   \* rosterFetchSeq
  fetches,    \* fetchAndRender calls and what each has got so far
  wait,       \* requests to confirm, withdraw, claim or swap in flight
  opening,    \* openSwapDialog calls that fetch the candidates
  loaded,     \* swapCandidatesLoaded
  dialog,     \* the swap dialog: the shift its form asks a swap for
  teamSeq, teamRows, teamFor, teamReqs, \* the team's week, as the roster
  clicks

tableVars == <<range, table, buttons, fetchSeq, fetches>>
swapVars  == <<swaps, opening, loaded, dialog>>
teamVars  == <<teamSeq, teamRows, teamFor, teamReqs>>
vars == <<server, tableVars, swapVars, wait, teamVars, clicks>>

Fetch(n, r) == [seq |-> n, range |-> r, rows |-> FALSE, swaps |-> FALSE, got |-> None]

\* Every part of the page starts to load at once.
Init ==
  /\ server \in SUBSET Shift
  /\ range \in Dates /\ table = "loading" /\ buttons = {}
  /\ fetchSeq = 1 /\ fetches = {Fetch(1, range)}
  /\ swaps = {} /\ opening = {} /\ loaded = FALSE /\ dialog = None
  /\ wait = {}
  /\ teamSeq = 0 /\ teamRows = {} /\ teamFor = None /\ teamReqs = {}
  /\ clicks = 0

Click == clicks < MaxClicks /\ dialog = None /\ clicks' = clicks + 1

-------------------------------------------------------------------------------
(* The roster.                                                             *)

FetchAndRender(r) ==
  /\ range' = r
  /\ fetchSeq' = fetchSeq + 1
  /\ fetches' = fetches \cup {Fetch(fetchSeq + 1, r)}
  /\ table' = "loading"
  /\ buttons' = {}

\* A quick filter, a custom range, or the retry of an error.
Choose ==
  /\ Click
  /\ table # "unlinked"
  /\ \E r \in Dates : FetchAndRender(r)
  /\ UNCHANGED <<server, swapVars, wait, teamVars>>

\* GET /my/swaps is read by the server ...
ReadSwaps ==
  /\ \E f \in fetches :
       /\ f.got = None
       /\ ~f.swaps
       /\ fetches' = (fetches \ {f}) \cup {[f EXCEPT !.got = server]}
  /\ UNCHANGED <<server, range, table, buttons, fetchSeq, swapVars, wait, teamVars, clicks>>

\* ... and its answer, or none, replaces the map, whichever call it is for.
SwapsAnswer ==
  /\ \E f \in fetches :
       /\ f.got # None
       /\ ~f.swaps
       /\ swaps' \in {f.got, {}}
       /\ fetches' = (fetches \ {f}) \cup {[f EXCEPT !.swaps = TRUE]}
  /\ UNCHANGED <<server, range, table, buttons, fetchSeq, opening, loaded, dialog, wait, teamVars, clicks>>

RowsAnswer ==
  /\ \E f \in fetches :
       /\ ~f.rows
       /\ fetches' = (fetches \ {f}) \cup {[f EXCEPT !.rows = TRUE]}
  /\ UNCHANGED <<server, range, table, buttons, fetchSeq, swapVars, wait, teamVars, clicks>>

Rendered_Bug ==
  \E f \in fetches :
    /\ f.rows /\ f.swaps
    /\ fetches' = fetches \ {f}
    /\ table' = f.range /\ buttons' = swaps
    /\ UNCHANGED <<server, range, fetchSeq, swapVars, wait, teamVars, clicks>>

\* With both answers, the newest call renders.
Rendered ==
  \E f \in fetches :
    /\ f.rows /\ f.swaps
    /\ fetches' = fetches \ {f}
    /\ IF f.seq = fetchSeq THEN table' = f.range /\ buttons' = swaps
       ELSE UNCHANGED <<table, buttons>>
    /\ UNCHANGED <<server, range, fetchSeq, swapVars, wait, teamVars, clicks>>

\* The roster's request fails, in general or because the account is not
\* linked to an employee; its refreshMyOpenSwaps still runs to its end.
FetchFails ==
  \E f \in fetches :
    /\ ~f.rows
    /\ fetches' = fetches \ {f}
    /\ table' \in IF f.seq = fetchSeq THEN {"failed", "unlinked"} ELSE {table}
    /\ UNCHANGED <<server, range, buttons, fetchSeq, swapVars, wait, teamVars, clicks>>

-------------------------------------------------------------------------------
(* The buttons of a row.  A confirmed shift is marked where it is; a        *)
(* withdrawn request loads the roster again.                               *)

Withdraw ==
  /\ Click
  /\ \E s \in buttons :
       /\ [what |-> "withdraw", of |-> s] \notin wait
       /\ wait' = wait \cup {[what |-> "withdraw", of |-> s]}
  /\ UNCHANGED <<server, tableVars, swapVars, teamVars>>

Withdrawn ==
  \E q \in wait :
    /\ q.what = "withdraw"
    /\ wait' = wait \ {q}
    /\ \/ /\ server' = server \ {q.of}
          /\ swaps' = swaps \ {q.of}
          /\ FetchAndRender(range)
       \/ UNCHANGED <<server, swaps, tableVars>>
    /\ UNCHANGED <<opening, loaded, dialog, teamVars, clicks>>

\* openSwapDialog: the candidates are fetched the first time; nothing covers
\* the page meanwhile.
OpenSwapDialog ==
  /\ Click
  /\ table \in Dates
  /\ \E s \in Shift \ buttons :
       IF loaded THEN dialog' = s /\ UNCHANGED opening
       ELSE opening' = opening \cup {s} /\ UNCHANGED dialog
  /\ UNCHANGED <<server, tableVars, swaps, loaded, wait, teamVars>>

\* showModal of a dialog that is open throws, and its form keeps its shift.
SwapCandidates ==
  /\ \E s \in opening :
       /\ opening' = opening \ {s}
       /\ dialog' = IF dialog = None THEN s ELSE dialog
  /\ loaded' = TRUE
  /\ UNCHANGED <<server, tableVars, swaps, wait, teamVars, clicks>>

\* The submit button stays enabled: the same request may be sent again.
SubmitSwap ==
  /\ clicks < MaxClicks /\ clicks' = clicks + 1
  /\ dialog # None
  /\ wait' = wait \cup {[what |-> "swap", of |-> dialog]}
  /\ UNCHANGED <<server, tableVars, swapVars, teamVars>>

CloseDialog ==
  /\ dialog # None
  /\ dialog' = None
  /\ UNCHANGED <<server, tableVars, swaps, opening, loaded, wait, teamVars, clicks>>

\* Accepted, it closes the dialog that is open; the row keeps its button.
SwapAnswer ==
  \E q \in wait :
    /\ q.what = "swap"
    /\ wait' = wait \ {q}
    /\ \/ server' = server \cup {q.of} /\ dialog' = None
       \/ UNCHANGED <<server, dialog>>
    /\ UNCHANGED <<tableVars, swaps, opening, loaded, teamVars, clicks>>

\* A planner decides about a request, which is then not open any more.
Decided ==
  /\ \E s \in server : server' = server \ {s}
  /\ UNCHANGED <<tableVars, swapVars, wait, teamVars, clicks>>

-------------------------------------------------------------------------------
(* The team's week.                                                        *)

LoadTeam ==
  /\ Click
  /\ \E r \in Dates :
       /\ teamFor' = r
       /\ teamReqs' = teamReqs \cup {[seq |-> teamSeq + 1, of |-> r]}
  /\ teamSeq' = teamSeq + 1
  /\ teamRows' = {}
  /\ UNCHANGED <<server, tableVars, swapVars, wait>>

TeamAnswer_Bug ==
  \E q \in teamReqs :
    /\ teamReqs' = teamReqs \ {q}
    /\ teamRows' \in {{}, teamRows \cup {q.of}}
    /\ UNCHANGED <<server, tableVars, swapVars, wait, teamSeq, teamFor, clicks>>

TeamAnswer ==
  \E q \in teamReqs :
    /\ teamReqs' = teamReqs \ {q}
    /\ teamRows' \in IF q.seq = teamSeq THEN {{}, teamRows \cup {q.of}} ELSE {teamRows}
    /\ UNCHANGED <<server, tableVars, swapVars, wait, teamSeq, teamFor, clicks>>

Next ==
  \/ Choose \/ ReadSwaps \/ SwapsAnswer \/ RowsAnswer \/ Rendered \/ FetchFails
  \/ Withdraw \/ Withdrawn
  \/ OpenSwapDialog \/ SwapCandidates \/ SubmitSwap \/ CloseDialog \/ SwapAnswer \/ Decided
  \/ LoadTeam \/ TeamAnswer

Spec == Init /\ [][Next]_vars

-------------------------------------------------------------------------------
(* Properties.                                                             *)

\* Whatever is still in flight for a range left behind, the table shows the
\* range that is chosen, and the team's list the week (rosterFetchSeq,
\* teamSeq).
ShowsTheChosen ==
  /\ table \in Dates => table = range
  /\ teamRows \subseteq {teamFor}

-------------------------------------------------------------------------------
(* What is known at any time, for the proof.                               *)

\* What the newest requests are for.
Newest ==
  /\ fetchSeq \in Nat /\ teamSeq \in Nat
  /\ \A f \in fetches :
       /\ f = [seq |-> f.seq, range |-> f.range, rows |-> f.rows, swaps |-> f.swaps, got |-> f.got]
       /\ f.seq \in 0..fetchSeq
       /\ f.seq = fetchSeq => f.range = range
  /\ \A q \in teamReqs : q.seq \in 0..teamSeq /\ (q.seq = teamSeq => q.of = teamFor)

IInv == Newest /\ ShowsTheChosen
===============================================================================
