------------------------------ MODULE PolicyForm ------------------------------
(***************************************************************************)
(* The form that says who may use the app (settings.js): a list of names   *)
(* filled from a search box, and whether access is restricted to it.       *)
(* Groups and administrators are further lists of the same kind.  Saving   *)
(* first resolves what is typed in the search box, which asks the server.  *)
(***************************************************************************)
EXTENDS Naturals, FiniteSets

CONSTANTS
  Name,
  None,
  MaxClicks  \* bound: gestures of the user

VARIABLES
  list, restricted,  \* state: allowedUsers, restrictionEnabled
  baseline,          \* what was saved last
  dirty,
  text,              \* the search box: None, "short" or a name
  timer,             \* the debounced search
  shown,             \* the results on the screen, None before an answer ...
  last,              \* ... and lastResults
  searches,          \* requests to search, by what waits for them
  posts,             \* requests to save, with what they carry
  clicks

stateVars  == <<list, restricted, baseline, dirty>>
searchVars == <<text, timer, shown, last, searches>>
vars == <<stateVars, searchVars, posts, clicks>>

Policy(l, r) == [list |-> l, restricted |-> r]
Policies == {p \in [list : SUBSET Name, restricted : BOOLEAN] : p.restricted => p.list # {}}

\* The page shows the form once the policy has been loaded.
Init ==
  /\ baseline \in Policies
  /\ list = baseline.list /\ restricted = baseline.restricted
  /\ dirty = FALSE
  /\ text = None /\ timer = None /\ shown = None /\ last = {} /\ searches = {}
  /\ posts = {}
  /\ clicks = 0

Click == clicks < MaxClicks /\ clicks' = clicks + 1

-------------------------------------------------------------------------------
(* Editing.                                                                *)

RecomputeDirty_Bug(l, r) == dirty' = TRUE

\* snapshotMatchesBaseline.
RecomputeDirty(l, r) == dirty' = (Policy(l, r) # baseline)

Edit(l, r) ==
  /\ list' = l /\ restricted' = r
  /\ RecomputeDirty(l, r)
  /\ UNCHANGED baseline

RemoveChip ==
  /\ Click
  /\ \E n \in list : Edit(list \ {n}, restricted)
  /\ UNCHANGED <<searchVars, posts>>

Restrict ==
  /\ Click
  /\ Edit(list, ~restricted)
  /\ UNCHANGED <<searchVars, posts>>

\* applyBaseline.
Discard ==
  /\ Click
  /\ dirty
  /\ list' = baseline.list /\ restricted' = baseline.restricted
  /\ dirty' = FALSE
  /\ UNCHANGED <<baseline, searchVars, posts>>

-------------------------------------------------------------------------------
(* The search box: wireSearch.                                             *)

\* pickAndReset; what is not picked changes nothing.
Pick(n) ==
  /\ Edit(list \cup {n}, restricted)
  /\ text' = None /\ shown' = None

NoPick == UNCHANGED <<stateVars, text>>

\* pickBestMatch: the name that was typed, or the only result of the last
\* search, whatever that was for.
BestMatch(q, found) ==
  IF q \in found THEN {q} ELSE IF Cardinality(found) = 1 THEN found ELSE {}

PickBestMatch(q, found, otherwise) ==
  IF BestMatch(q, found) = {} THEN NoPick /\ shown' = otherwise
  ELSE \E n \in BestMatch(q, found) : Pick(n)

RunSearch(q, by) ==
  /\ shown' = None
  /\ searches' = searches \cup {[q |-> q, by |-> by]}

Type ==
  /\ Click
  /\ text' \in (Name \cup {None, "short"}) \ {text}
  /\ shown' = None
  /\ IF text' \in Name THEN timer' = text' /\ UNCHANGED last
     ELSE timer' = None /\ last' = {}
  /\ UNCHANGED <<stateVars, searches, posts>>

TimerFires ==
  /\ timer # None
  /\ timer' = None
  /\ IF text = timer THEN RunSearch(text, "typing") ELSE UNCHANGED <<shown, searches>>
  /\ UNCHANGED <<stateVars, text, last, posts, clicks>>

\* Enter: the first result on the screen, or a search at once.
PressEnter ==
  /\ Click
  /\ text # None
  /\ \/ /\ shown \notin {None, {}}
        /\ \E n \in shown : Pick(n)
        /\ UNCHANGED searches
     \/ /\ shown \in {None, {}}
        /\ IF text = "short"
           THEN PickBestMatch(text, last, shown) /\ UNCHANGED searches
           ELSE RunSearch(text, "enter") /\ NoPick
  /\ UNCHANGED <<timer, last, posts>>

Blur ==
  /\ Click
  /\ text # None
  /\ PickBestMatch(text, last, shown)
  /\ UNCHANGED <<timer, last, searches, posts>>

\* A search that fails leaves what is on the screen.
SearchFails ==
  /\ \E s \in searches :
       /\ s.by # "save"
       /\ searches' = searches \ {s}
  /\ UNCHANGED <<stateVars, text, timer, shown, last, posts, clicks>>

SearchAnswer ==
  /\ \E s \in searches, found \in SUBSET Name :
       /\ s.by # "save"
       /\ searches' = searches \ {s}
       /\ last' = found
       /\ \/ /\ s.by = "enter"
             /\ found # {}
             /\ \E n \in found : Pick(n)
          \/ /\ s.by = "enter" => found = {}
             /\ NoPick
             /\ shown' = found
  /\ UNCHANGED <<timer, posts, clicks>>

-------------------------------------------------------------------------------
(* Saving.                                                                 *)

\* The guard against a list nobody is on, and the request, which carries what
\* the form holds now.  Its button is disabled until the answer.
Post_Bug(l, r) == posts' = posts \cup {Policy(l, r)}

Post(l, r) ==
  posts' = IF r /\ l = {} THEN posts ELSE posts \cup {Policy(l, r)}

Submit ==
  /\ Click
  /\ posts = {}
  /\ IF text \in Name
     THEN RunSearch(text, "save") /\ UNCHANGED <<stateVars, text, posts>>
     ELSE /\ PickBestMatch(text, last, shown)
          /\ Post(list', restricted')
          /\ UNCHANGED searches
  /\ UNCHANGED <<timer, last>>

\* finalizePendingInput's search is over; nothing disabled the form meanwhile.
Finalized ==
  /\ \E s \in searches :
       /\ s.by = "save"
       /\ searches' = searches \ {s}
       /\ \/ /\ \E found \in SUBSET Name : last' = found /\ PickBestMatch(s.q, found, found)
          \/ /\ NoPick /\ UNCHANGED <<shown, last>>
       /\ Post(list', restricted')
  /\ UNCHANGED <<timer, clicks>>

\* The server drops names that are gone; the form shows what it has kept.
Saved ==
  \E p \in posts, kept \in SUBSET Name :
    /\ kept \subseteq p.list
    /\ p.restricted => kept # {}
    /\ posts' = posts \ {p}
    /\ baseline' = Policy(kept, p.restricted)
    /\ list' = kept /\ restricted' = p.restricted
    /\ dirty' = FALSE
    /\ UNCHANGED <<searchVars, clicks>>

Refused ==
  /\ \E p \in posts : posts' = posts \ {p}
  /\ UNCHANGED <<stateVars, searchVars, clicks>>

Next ==
  \/ RemoveChip \/ Restrict \/ Discard
  \/ Type \/ TimerFires \/ PressEnter \/ Blur \/ SearchAnswer \/ SearchFails
  \/ Submit \/ Finalized \/ Saved \/ Refused

Spec == Init /\ [][Next]_vars

-------------------------------------------------------------------------------
(* Properties.                                                             *)

\* However edits, picks, discards and answers interleave, the form warns of
\* unsaved changes exactly when it differs from what was saved last.
DirtyIsDifference == dirty <=> Policy(list, restricted) # baseline

\* No request locks everybody out, although the list may change between the
\* click and the request ("We refuse client-side", settings.js).
NeverLocksOut == \A p \in posts : p.restricted => p.list # {}

-------------------------------------------------------------------------------
(* What is known at any time, for the proof.                               *)

IInv ==
  /\ baseline = Policy(baseline.list, baseline.restricted)
  /\ DirtyIsDifference
  /\ NeverLocksOut
===============================================================================
