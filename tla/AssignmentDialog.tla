--------------------------- MODULE AssignmentDialog ---------------------------
(***************************************************************************)
(* The dialog of the roster page that creates and edits an assignment       *)
(* (roster.js).  There is one form, moved into whichever dialog is open,    *)
(* and one record of what is being edited (state.editingAssignment...),     *)
(* written when a row is clicked, before the templates the dialog needs     *)
(* have been fetched.  The server refuses an update without the version it  *)
(* was made from, or with an older one.                                     *)
(***************************************************************************)
EXTENDS Naturals, Sequences

CONSTANTS
  Row,
  None,
  MaxVersion,  \* bound: how often others change a row
  MaxClicks    \* bound: gestures of the user

VARIABLES
  ver,        \* the server: version of each row
  painted,    \* the version of each row in the painted roster
  templates,  \* "none", "loading" or "loaded"
  waiting,    \* clicks whose dialogs wait for the templates, in order
  d,          \* the dialog: what is edited (id, ver), the form's hidden id and
              \* the row and version its fields come from, None if they are empty
              \* (formId, from), the dialog that is open, what it was opened for
              \* and its number (modal, of, no)
  saves,      \* requests to save: on their way, or held while the user is asked
  cancels,    \* requests to cancel a row, asked about or on their way
  accepted,   \* history: the update the server accepted last
  failed,     \* history: the templates could not be fetched once
  clicks

vars == <<ver, painted, templates, waiting, d, saves, cancels, accepted, failed, clicks>>

Init ==
  /\ ver = [r \in Row |-> 0] /\ painted = ver
  /\ templates = "none" /\ waiting = <<>>
  /\ d = [id |-> None, ver |-> None, formId |-> None, from |-> None,
          modal |-> None, of |-> None, no |-> 0]
  /\ saves = {} /\ cancels = {}
  /\ accepted = None /\ failed = FALSE
  /\ clicks = 0

Click == clicks < MaxClicks /\ clicks' = clicks + 1

-------------------------------------------------------------------------------
(* What opening and closing do to the dialog.                              *)

\* onClose of the create and edit dialogs; the version stays.
Forget(dlg) == [dlg EXCEPT !.id = None]

Close(dlg) ==
  [(IF dlg.modal \in {"create", "edit"} THEN Forget(dlg) ELSE dlg)
     EXCEPT !.modal = None, !.of = None]

\* At the click: what is edited; a new assignment clears the hidden id, too.
Remember(dlg, o) ==
  IF o.what = "create" THEN [Forget(dlg) EXCEPT !.formId = None]
  ELSE [dlg EXCEPT !.id = o.row, !.ver = o.ver]

\* openModal takes the place of the dialog that is open.
OpenModal(dlg, what, o) ==
  [Close(dlg) EXCEPT !.modal = what, !.of = o, !.no = dlg.no + 1]

LastOf(os, I) == os[CHOOSE i \in I : \A j \in I : j <= i]

\* A row fills the form, a new assignment finds the fields as they are, and
\* the edits of a dialog that is opened again are put over whatever is there.
Fill(dlg, os) ==
  LET rows  == {i \in DOMAIN os : os[i].what # "create"}
      again == {i \in rows : os[i].what = "again"}
  IN  IF rows = {} THEN dlg
      ELSE [dlg EXCEPT !.formId = LastOf(os, rows).row,
                       !.from = LastOf(os, IF again = {} THEN rows ELSE again).from]

\* With the templates: the dialogs take each other's place, in the order of
\* the clicks.
Show(dlg, os) ==
  LET n    == Len(os)
      form == Fill(dlg, os)
  IN  OpenModal(IF n = 1 THEN form ELSE [Forget(form) EXCEPT !.no = @ + n - 1],
                IF os[n].what = "create" THEN "create" ELSE "edit", os[n])

\* resetAssignmentFormAfterSave, whichever dialog the form is in.
ResetForm(dlg) == [Forget(dlg) EXCEPT !.formId = None, !.from = None]

-------------------------------------------------------------------------------
(* Opening the dialog.                                                     *)

Openings ==
  {[what |-> "create", row |-> None, ver |-> None, from |-> None]} \cup
  {[what |-> "edit", row |-> r, ver |-> painted[r], from |-> [row |-> r, ver |-> painted[r]]] :
     r \in Row}

\* With the templates at hand it opens in one go.
Begin(dlg, o) ==
  IF templates = "loaded"
  THEN d' = Show(Remember(dlg, o), <<o>>) /\ UNCHANGED <<templates, waiting>>
  ELSE d' = Remember(dlg, o) /\ templates' = "loading" /\ waiting' = Append(waiting, o)

\* Nothing covers the page while the templates are on their way.
OpenDialog ==
  /\ Click
  /\ d.modal = None
  /\ \E o \in Openings : Begin(d, o)
  /\ UNCHANGED <<ver, painted, saves, cancels, accepted, failed>>

\* Whoever waited goes on, in the order of the clicks; templates that could
\* not be fetched are asked for again next time.
TemplatesArrive ==
  /\ templates = "loading"
  /\ templates' \in {"loaded", "none"}
  /\ failed' = (failed \/ templates' = "none")
  /\ d' = Show(d, waiting)
  /\ waiting' = <<>>
  /\ UNCHANGED <<ver, painted, saves, cancels, accepted, clicks>>

\* Cancel, Escape, or a roster being loaded.
Dismiss ==
  /\ d.modal \in {"create", "edit"}
  /\ d' = Close(d)
  /\ UNCHANGED <<ver, painted, templates, waiting, saves, cancels, accepted, failed, clicks>>

-------------------------------------------------------------------------------
(* Saving.                                                                 *)

Version_Bug(dlg) == IF dlg.formId = None THEN None ELSE painted[dlg.formId]

\* readForm: the version remembered with the row.
Version(dlg) == dlg.ver

\* performAssignmentSave: an id in the form or in the record makes it an
\* update.  The primary button is disabled while the request is on its way,
\* but a change of any field enables it again.
Save ==
  /\ Click
  /\ d.modal \in {"create", "edit"}
  /\ LET id == IF d.formId # None THEN d.formId ELSE d.id
     IN saves' = saves \cup
          {[click |-> clicks, no |-> d.no, id |-> id, from |-> d.from,
            step |-> "wire", asks |-> {"rule", "blackout"}, prompt |-> 0,
            ver |-> IF id = None THEN None ELSE Version(d)]}
  /\ UNCHANGED <<ver, painted, templates, waiting, d, cancels, accepted, failed>>

\* The server takes it; the answer paints the roster, and the dialog it came
\* from closes if it is still open.
SaveAccepted ==
  \E s \in saves :
    /\ s.step = "wire"
    /\ s.id # None => s.ver = ver[s.id]
    /\ saves' = saves \ {s}
    /\ ver' = IF s.id = None THEN ver ELSE [ver EXCEPT ![s.id] = @ + 1]
    /\ painted' = ver'
    /\ accepted' = IF s.id = None THEN accepted ELSE s
    /\ d' = IF d.no = s.no /\ d.modal # None THEN Close(ResetForm(d)) ELSE ResetForm(d)
    /\ UNCHANGED <<templates, waiting, cancels, failed, clicks>>

\* Refused, in particular for its version: the dialog stays.
SaveRefused ==
  \E s \in saves :
    /\ s.step = "wire"
    /\ saves' = saves \ {s}
    /\ UNCHANGED <<ver, painted, templates, waiting, d, cancels, accepted, failed, clicks>>

\* A rule or a blackout wants a reason, which is asked for once, the rule's
\* last: the prompt takes the dialog's place.
AskWhy ==
  \E s \in saves, why \in {"rule", "blackout"} :
    /\ s.step = "wire"
    /\ why \in s.asks
    /\ saves' = (saves \ {s}) \cup
         {[s EXCEPT !.step = "held", !.asks = IF why = "rule" THEN {} ELSE @ \ {why},
                    !.prompt = d.no + 1]}
    /\ d' = OpenModal(d, "prompt", None)
    /\ UNCHANGED <<ver, painted, templates, waiting, cancels, accepted, failed, clicks>>

\* The question is on the screen.
Asks(what, no) == d.modal = what /\ d.no = no

\* With a reason the same payload is sent again, without one the save fails.
\* Another dialog that replaces the prompt ends it like Cancel.
AnswerWhy ==
  \E s \in saves :
    /\ s.step = "held"
    /\ \/ /\ Asks("prompt", s.prompt)
          /\ d' = Close(d)
          /\ saves' = (saves \ {s}) \cup {[s EXCEPT !.step = "wire"]}
       \/ /\ d' = IF Asks("prompt", s.prompt) THEN Close(d) ELSE d
          /\ saves' = saves \ {s}
    /\ UNCHANGED <<ver, painted, templates, waiting, cancels, accepted, failed, clicks>>

-------------------------------------------------------------------------------
(* Cancelling the row that is edited: the question takes the dialog's      *)
(* place, and the dialog is opened again when the answer is no or the      *)
(* request fails, with the row as it was and the edits as they are now.    *)

AskCancel ==
  /\ Click
  /\ d.modal = "edit"
  /\ d' = OpenModal(d, "cancel", None)
  /\ cancels' = cancels \cup
       {[of |-> [d.of EXCEPT !.what = "again", !.from = d.from], step |-> "asked", no |-> d.no + 1]}
  /\ UNCHANGED <<ver, painted, templates, waiting, saves, accepted, failed>>

\* Another dialog that replaces the question answers no.
AnswerCancel ==
  \E c \in cancels :
    /\ c.step = "asked"
    /\ \/ /\ Asks("cancel", c.no)
          /\ cancels' = (cancels \ {c}) \cup {[c EXCEPT !.step = "wire"]}
          /\ d' = Close(d)
          /\ UNCHANGED <<templates, waiting>>
       \/ /\ cancels' = cancels \ {c}
          /\ Begin(IF Asks("cancel", c.no) THEN Close(d) ELSE d, c.of)
    /\ UNCHANGED <<ver, painted, saves, accepted, failed, clicks>>

CancelSettles ==
  \E c \in cancels :
    /\ c.step = "wire"
    /\ cancels' = cancels \ {c}
    /\ \/ /\ ver' = [ver EXCEPT ![c.of.row] = @ + 1] /\ painted' = ver'
          /\ UNCHANGED <<d, templates, waiting>>
       \/ Begin(d, c.of) /\ UNCHANGED <<ver, painted>>
    /\ UNCHANGED <<saves, accepted, failed, clicks>>

-------------------------------------------------------------------------------
\* Another planner changes a row, and a confirmed conflict or a roster that
\* was on its way paints what the server has.
OthersEdit ==
  /\ \E r \in Row : ver[r] < MaxVersion /\ ver' = [ver EXCEPT ![r] = @ + 1]
  /\ UNCHANGED <<painted, templates, waiting, d, saves, cancels, accepted, failed, clicks>>

Repaint ==
  /\ painted # ver
  /\ painted' = ver
  /\ UNCHANGED <<ver, templates, waiting, d, saves, cancels, accepted, failed, clicks>>

Next ==
  \/ OpenDialog \/ TemplatesArrive \/ Dismiss
  \/ Save \/ SaveAccepted \/ SaveRefused \/ AskWhy \/ AnswerWhy
  \/ AskCancel \/ AnswerCancel \/ CancelSettles
  \/ OthersEdit \/ Repaint

Spec == Init /\ [][Next]_vars

-------------------------------------------------------------------------------
(* Properties.                                                             *)

\* The fields are those of the row that is updated, as it was in the version
\* the update names, or they had been emptied.
Faithful(s) == s.from \in {None, [row |-> s.id, ver |-> s.ver]}

\* As long as no fetch of the templates has failed, an update the server
\* accepts was made in a form filled from that row, as it was until then:
\* nobody's change is lost, however clicks, prompts, repaints and answers
\* interleave.
NoLostUpdate == accepted # None /\ ~failed => Faithful(accepted)

-------------------------------------------------------------------------------
(* What is known at any time, for the proof.                               *)

Opening ==
  [what : {"create", "edit", "again"}, row : Row \cup {None}, ver : Nat \cup {None},
   from : [row : Row, ver : Nat] \cup {None}]

Dialog ==
  [id : Row \cup {None}, ver : Nat \cup {None}, formId : Row \cup {None},
   from : [row : Row, ver : Nat] \cup {None},
   modal : {"create", "edit", "prompt", "cancel", None}, of : Opening \cup {None}, no : Nat]

Saving ==
  [click : Nat, no : Nat, id : Row \cup {None}, from : [row : Row, ver : Nat] \cup {None},
   step : {"wire", "held"}, asks : SUBSET {"rule", "blackout"}, prompt : Nat,
   ver : Nat \cup {None}]

TypeOK ==
  /\ ver \in [Row -> Nat] /\ painted \in [Row -> Nat]
  /\ templates \in {"none", "loading", "loaded"}
  /\ waiting \in Seq(Opening)
  /\ d \in Dialog
  /\ saves \subseteq Saving
  /\ cancels \subseteq [of : Opening, step : {"asked", "wire"}, no : Nat]
  /\ clicks \in Nat

\* The row and its fields, or none, belong together.
Whole(o) ==
  IF o.what = "create" THEN o.row = None
  ELSE o.row \in Row /\ o.ver \in Nat /\ o.from \in {None, [row |-> o.row, ver |-> o.ver]}

\* Before the templates are there for the first time nothing is open, and the
\* version remembered is that of the row clicked last.
Before ==
  /\ d.modal = None /\ d.formId = None /\ d.from = None
  /\ saves = {} /\ cancels = {}
  /\ templates = "none" => waiting = <<>>
  /\ templates = "loading" => waiting # <<>>
  /\ \A i \in DOMAIN waiting : Whole(waiting[i]) /\ waiting[i].what # "again"
  /\ \A i \in DOMAIN waiting :
       (waiting[i].what # "create" /\ \A j \in DOMAIN waiting : j > i => waiting[j].what = "create")
         => d.ver = waiting[i].ver
  /\ Len(waiting) = 1 /\ waiting[1].what = "create" => d.id = None

\* What is remembered, what the form holds and what the dialog was opened for.
Together(dlg) ==
  /\ dlg.formId # None => dlg.from \in {None, [row |-> dlg.formId, ver |-> dlg.ver]}
  /\ dlg.formId = None /\ dlg.modal \in {"create", "edit"} => dlg.id = None
  /\ dlg.modal = "edit" =>
       dlg.of \in Opening /\ dlg.of.what # "create" /\ Whole([dlg.of EXCEPT !.from = dlg.from])

\* From then on they open at once, and what is sent belongs together, too.
After ==
  /\ waiting = <<>>
  /\ Together(d)
  /\ \A s \in saves : s.id # None => Faithful(s)
  /\ \A c \in cancels : c.of.what # "create" /\ Whole(c.of)

IInv ==
  failed \/ /\ TypeOK
            /\ IF templates = "loaded" THEN After ELSE Before
            /\ accepted # None => Faithful(accepted)
===============================================================================
