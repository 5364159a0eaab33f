----------------------------- MODULE LicensePage ------------------------------
(***************************************************************************)
(* The licence page (license-settings.js): the licence, the seats assigned *)
(* to people, the search that assigns a seat, and the dialog that removes  *)
(* the licence.  It has a client of its own, without generations; only the *)
(* search has one.  A licence that was applied or removed reloads the page. *)
(***************************************************************************)
EXTENDS Naturals, FiniteSets

CONSTANTS
  Name,
  None,
  MaxClicks  \* bound: gestures of the user

VARIABLES
  seated,      \* the server: who has a seat
  seatRows,    \* the table
  removals,    \* seats being removed, whose buttons are disabled ...
  loads,       \* ... and GETs of the seats, with what each will find
  text,        \* the search box: None, "short" or what is searched for
  timer,       \* the debounced search: None, or its text and its generation
  generation,  \* searchGeneration
  searches,    \* requests to search
  suggest,     \* the suggestions: closed (None), or the search they are for;
               \* names is None while it is loading and after an error
  assigning,   \* the seat that is being assigned; the box is disabled
  modal,       \* the dialog that asks whether to remove the licence
  changing,    \* requests that change the licence: "apply", "remove"
  clicks

searchVars == <<text, timer, generation, searches, suggest>>
seatVars   == <<seated, seatRows, removals, loads, assigning>>
vars == <<seatVars, searchVars, modal, changing, clicks>>

\* The table is loaded with the page.
Opened ==
  /\ seatRows = {} /\ removals = {} /\ loads = {seated}
  /\ text = None /\ timer = None /\ generation = 0 /\ searches = {} /\ suggest = None
  /\ assigning = None
  /\ modal = FALSE /\ changing = {}

Init == seated \in SUBSET Name /\ Opened /\ clicks = 0

Click == clicks < MaxClicks /\ clicks' = clicks + 1

-------------------------------------------------------------------------------
(* The seats: refreshAll after every change, whichever answer comes last.  *)

LoadSeats(now) == loads' = loads \cup {now}

SeatsAnswer ==
  /\ \E l \in loads :
       /\ loads' = loads \ {l}
       /\ \/ seatRows' = l
          \/ UNCHANGED seatRows
  /\ UNCHANGED <<seated, removals, assigning, searchVars, modal, changing, clicks>>

RemoveSeat ==
  /\ Click
  /\ ~modal
  /\ \E n \in seatRows \ removals : removals' = removals \cup {n}
  /\ UNCHANGED <<seated, seatRows, loads, assigning, searchVars, modal, changing>>

RemoveSeatAnswer ==
  /\ \E n \in removals :
       /\ removals' = removals \ {n}
       /\ \/ seated' = seated \ {n} /\ LoadSeats(seated')
          \/ UNCHANGED <<seated, loads>>
  /\ UNCHANGED <<seatRows, assigning, searchVars, modal, changing, clicks>>

-------------------------------------------------------------------------------
(* The search.  A text that is too short closes the suggestions, but does  *)
(* not end the search that is under way.                                   *)

Type ==
  /\ Click
  /\ ~modal
  /\ assigning = None
  /\ text' \in (Name \cup {None, "short"}) \ {text}
  /\ IF text' \in Name
     THEN /\ generation' = generation + 1
          /\ timer' = [q |-> text', gen |-> generation + 1]
          /\ UNCHANGED suggest
     ELSE /\ timer' = None
          /\ suggest' = None
          /\ UNCHANGED generation
  /\ UNCHANGED <<seatVars, searches, modal, changing>>

Suggestions(g, names) == [gen |-> g, names |-> names]

TimerFires ==
  /\ timer # None
  /\ timer' = None
  /\ searches' = searches \cup {timer}
  /\ suggest' = Suggestions(timer.gen, None)
  /\ UNCHANGED <<seatVars, text, generation, modal, changing, clicks>>

SearchAnswer_Bug ==
  /\ \E s \in searches, hits \in SUBSET Name :
       /\ searches' = searches \ {s}
       /\ suggest' = Suggestions(s.gen, hits \ seatRows)
  /\ UNCHANGED <<seatVars, text, timer, generation, modal, changing, clicks>>

\* Only the newest search paints, and only people without a seat.
SearchAnswer ==
  /\ \E s \in searches, hits \in SUBSET Name :
       /\ searches' = searches \ {s}
       /\ suggest' \in IF s.gen # generation THEN {suggest}
                       ELSE {Suggestions(s.gen, hits \ seatRows), Suggestions(s.gen, None)}
  /\ UNCHANGED <<seatVars, text, timer, generation, modal, changing, clicks>>

CloseSuggest ==
  /\ suggest # None
  /\ suggest' = None
  /\ UNCHANGED <<seatVars, text, timer, generation, searches, modal, changing, clicks>>

\* assignSeatFromSearch; the timer runs on.
AssignSeat ==
  /\ Click
  /\ ~modal
  /\ assigning = None
  /\ suggest # None
  /\ suggest.names \notin {None, {}}
  /\ assigning' \in suggest.names
  /\ suggest' = None
  /\ text' = None
  /\ UNCHANGED <<seated, seatRows, removals, loads, timer, generation, searches, modal, changing>>

AssignAnswer ==
  /\ assigning # None
  /\ assigning' = None
  /\ \/ seated' = seated \cup {assigning} /\ LoadSeats(seated')
     \/ UNCHANGED <<seated, loads>>
  /\ UNCHANGED <<seatRows, removals, searchVars, modal, changing, clicks>>

-------------------------------------------------------------------------------
(* The licence.                                                            *)

\* The button of each request is disabled until its answer.
Apply ==
  /\ Click
  /\ ~modal
  /\ "apply" \notin changing
  /\ changing' = changing \cup {"apply"}
  /\ UNCHANGED <<seatVars, searchVars, modal>>

OpenModal ==
  /\ Click
  /\ ~modal
  /\ modal' = TRUE
  /\ UNCHANGED <<seatVars, searchVars, changing>>

\* Cancel and Escape work while it removes the licence, too.
CloseModal ==
  /\ modal
  /\ modal' = FALSE
  /\ UNCHANGED <<seatVars, searchVars, changing, clicks>>

ConfirmRemove ==
  /\ Click
  /\ modal
  /\ "remove" \notin changing
  /\ changing' = changing \cup {"remove"}
  /\ UNCHANGED <<seatVars, searchVars, modal>>

\* It fails; a removal closes the dialog that is open by then.
ChangeFails ==
  /\ \E c \in changing :
       /\ changing' = changing \ {c}
       /\ modal' = (modal /\ c = "apply")
  /\ UNCHANGED <<seatVars, searchVars, clicks>>

\* The page is loaded again, whatever else it was doing.
Reloaded ==
  /\ changing # {}
  /\ UNCHANGED <<seated, clicks>>
  /\ seatRows' = {} /\ removals' = {} /\ loads' = {seated}
  /\ text' = None /\ timer' = None /\ generation' = 0 /\ searches' = {} /\ suggest' = None
  /\ assigning' = None
  /\ modal' = FALSE /\ changing' = {}

Next ==
  \/ SeatsAnswer \/ RemoveSeat \/ RemoveSeatAnswer
  \/ Type \/ TimerFires \/ SearchAnswer \/ CloseSuggest \/ AssignSeat \/ AssignAnswer
  \/ Apply \/ OpenModal \/ CloseModal \/ ConfirmRemove \/ ChangeFails \/ Reloaded

Spec == Init /\ [][Next]_vars

-------------------------------------------------------------------------------
(* Properties.                                                             *)

\* Once the newest search has begun, the suggestions are its own: no answer
\* to an older text takes their place (searchGeneration).
SuggestionsOfNewest ==
  suggest # None /\ timer = None => suggest.gen = generation

-------------------------------------------------------------------------------
(* What is known at any time, for the proof.                               *)

IInv ==
  /\ generation \in Nat
  /\ timer # None => timer.gen = generation
  /\ SuggestionsOfNewest
===============================================================================
