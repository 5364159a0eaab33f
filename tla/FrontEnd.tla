------------------------------- MODULE FrontEnd --------------------------------
(***************************************************************************)
(* The browser's side of the application.  A page is a document with a     *)
(* script of its own, which starts afresh whenever the page is opened; the  *)
(* parts of one page that share nothing are taken apart.  r1..r17 are the  *)
(* variables of the script that runs, and each module below has its own    *)
(* names for them; what a script has no use for is None.  ApiClient, which *)
(* all of them call, is abstracted to answers and failures in any order.   *)
(***************************************************************************)
EXTENDS Naturals

CONSTANTS
  None,
  Period, Row, Shift, Pattern, Employee, Name,
  Date,        \* a day
  Dates,       \* a range of days
  FewClicks,   \* bounds: gestures of the user
  SomeClicks,
  ManyClicks,
  MaxVersion,  \* bound: how often others change an assignment
  RowHeight, Overscan, Unsized, Threshold, Sizes, Heights

VARIABLES
  page,  \* what is open
  r1, r2, r3, r4, r5, r6, r7, r8, r9, r10, r11, r12, r13, r14, r15, r16, r17

ASSUME FrontEndAssumption ==
  /\ {"loading", "failed", "empty", "old"} \cap (Period \cup {None}) = {}
  /\ {"loading", "failed", "unlinked"} \cap Dates = {}
  /\ None \notin Period \cup Row \cup {"create", "edit", "prompt", "cancel"}
  /\ None \notin [q : Name, gen : Nat] \cup [row : Row, ver : Nat]
  /\ {RowHeight, Overscan, Unsized} \subseteq Nat \ {0}
  /\ {Threshold} \cup Sizes \cup Heights \subseteq Nat

vars == <<page, r1, r2, r3, r4, r5, r6, r7, r8, r9, r10, r11, r12, r13, r14, r15, r16, r17>>


Periods == INSTANCE PeriodsPage WITH
  MaxClicks <- FewClicks, aborts <- r1, list <- r2, rows <- r3, current <- r4,
  url <- r5, busy <- r6, flows <- r7, lists <- r8, details <- r9,
  detailsSeq <- r10, readiness <- r11, snapshots <- r12, ceremony <- r13,
  clicks <- r14, line <- r15

Roster == INSTANCE RosterPage WITH
  MaxClicks <- SomeClicks, list <- r1, shown <- r2, switcher <- r3, url <- r4,
  seq <- r5, painted <- r6, loads <- r7, writes <- r8, month <- r9,
  strip <- r10, stripReqs <- r11, clicks <- r12, grid <- r13, due <- r14,
  reveal <- r15

Tools == INSTANCE RosterTools WITH
  MaxClicks <- ManyClicks, selected <- r1, source <- r2, copyReady <- r3,
  copyReqs <- r4, fill <- r5, filled <- r6, seen <- r7, openSeq <- r8,
  openRows <- r9, openFor <- r10, openReqs <- r11, due <- r12, clicks <- r13

Assignment == INSTANCE AssignmentDialog WITH
  MaxClicks <- ManyClicks, ver <- r1, painted <- r2, templates <- r3,
  waiting <- r4, d <- r5, saves <- r6, cancels <- r7, accepted <- r8,
  failed <- r9, clicks <- r10

Tables == INSTANCE RowWindow WITH
  total <- r1, height <- r2, top <- r3, view <- r4, win <- r5, frame <- r6,
  paintAll <- r7, found <- r8, body <- r9, reveal <- r10

MyRoster == INSTANCE MyRosterPage WITH
  MaxClicks <- FewClicks, server <- r1, range <- r2, table <- r3,
  buttons <- r4, swaps <- r5, fetchSeq <- r6, fetches <- r7, wait <- r8,
  opening <- r9, loaded <- r10, dialog <- r11, teamSeq <- r12,
  teamRows <- r13, teamFor <- r14, teamReqs <- r15, clicks <- r16

Patterns == INSTANCE PatternsPage WITH
  MaxClicks <- ManyClicks, list <- r1, loads <- r2, opening <- r3,
  dialog <- r4, saves <- r5, opened <- r6, editorDayMap <- r7, choice <- r8,
  ticked <- r9, autoChecked <- r10, hint <- r11, refreshes <- r12,
  loadSeq <- r13, clicks <- r14

Policy == INSTANCE PolicyForm WITH
  MaxClicks <- ManyClicks, list <- r1, restricted <- r2, baseline <- r3,
  dirty <- r4, text <- r5, timer <- r6, shown <- r7, last <- r8,
  searches <- r9, posts <- r10, clicks <- r11

Licence == INSTANCE LicensePage WITH
  MaxClicks <- ManyClicks, seated <- r1, seatRows <- r2, removals <- r3,
  loads <- r4, text <- r5, timer <- r6, generation <- r7, searches <- r8,
  suggest <- r9, assigning <- r10, modal <- r11, changing <- r12,
  clicks <- r13

-------------------------------------------------------------------------------
\* What the script of the open page has no use for, from r<n> on.
Free17 == r17 = None
Rest17 == <<r17>>
Free16 == r16 = None /\ Free17
Rest16 == <<r16, Rest17>>
Free15 == r15 = None /\ Free16
Rest15 == <<r15, Rest16>>
Free14 == r14 = None /\ Free15
Rest14 == <<r14, Rest15>>
Free13 == r13 = None /\ Free14
Rest13 == <<r13, Rest14>>
Free12 == r12 = None /\ Free13
Rest12 == <<r12, Rest13>>
Free11 == r11 = None /\ Free12
Rest11 == <<r11, Rest12>>

Init ==
  \/ page = "periods" /\ Periods!Init /\ Free16
  \/ page = "roster" /\ Roster!Init /\ Free16
  \/ page = "tools" /\ Tools!Init /\ Free14
  \/ page = "assignment" /\ Assignment!Init /\ Free11
  \/ page = "tables" /\ Tables!Init /\ Free11
  \/ page = "myRoster" /\ MyRoster!Init /\ Free17
  \/ page = "patterns" /\ Patterns!Init /\ Free15
  \/ page = "policy" /\ Policy!Init /\ Free12
  \/ page = "licence" /\ Licence!Init /\ Free14

PeriodsStep == page = "periods" /\ Periods!Next /\ UNCHANGED <<page, Rest16>>

RosterStep == page = "roster" /\ Roster!Next /\ UNCHANGED <<page, Rest16>>

ToolsStep == page = "tools" /\ Tools!Next /\ UNCHANGED <<page, Rest14>>

AssignmentStep == page = "assignment" /\ Assignment!Next /\ UNCHANGED <<page, Rest11>>

TablesStep == page = "tables" /\ Tables!Next /\ UNCHANGED <<page, Rest11>>

MyRosterStep == page = "myRoster" /\ MyRoster!Next /\ UNCHANGED <<page, Rest17>>

PatternsStep == page = "patterns" /\ Patterns!Next /\ UNCHANGED <<page, Rest15>>

PolicyStep == page = "policy" /\ Policy!Next /\ UNCHANGED <<page, Rest12>>

LicenceStep == page = "licence" /\ Licence!Next /\ UNCHANGED <<page, Rest14>>

\* A page that is opened starts its script afresh, as in Init.
Next ==
  \/ PeriodsStep \/ RosterStep \/ ToolsStep \/ AssignmentStep
  \/ TablesStep \/ MyRosterStep \/ PatternsStep \/ PolicyStep
  \/ LicenceStep

Spec == Init /\ [][Next]_vars

-------------------------------------------------------------------------------
(* Properties: one for each thing every page owes its user.                *)

\* What a page shows belongs to what is chosen on it, whatever is still on
\* its way for something chosen before: the generations (rosterViewSeq,
\* openShiftSeq, detailsSeq, rosterFetchSeq, teamSeq, loadSeq,
\* searchGeneration) drop every answer that has been overtaken.  Of the roster
\* this is claimed once the newest load has been painted.
ShowsTheChosen ==
  /\ page = "periods"  => Periods!PanesOfSelection
  /\ page = "roster"   => Roster!RowsOfNewestLoad /\ Roster!StripOfNewestLoad
  /\ page = "tools"    => Tools!OpenShiftsOfNewestCall
  /\ page = "myRoster" => MyRoster!ShowsTheChosen
  /\ page = "patterns" => Patterns!OverlapShown
  /\ page = "licence"  => Licence!SuggestionsOfNewest

\* What an action changes is what the user was shown when starting it, or
\* asked for: the ceremony publishes the selected period, by that period's
\* readiness once it is known, the editor keeps the days of the pattern it edits, a period is filled with the suggestions
\* that were seen for it, and the policy form warns of what is not saved and
\* locks nobody out.
ActsOnWhatIsShown ==
  /\ page = "periods"  => Periods!CeremonyOfSelection
  /\ page = "tools"    => Tools!FilledWasSeen
  /\ page = "patterns" => Patterns!DaysOfEdited
  /\ page = "policy"   => Policy!DirtyIsDifference /\ Policy!NeverLocksOut

\* A page never has two requests on their way that change the same thing.
OneMutation == page = "periods" => Periods!OneMutation

\* An update of an assignment that the server accepts was made in a form
\* filled from that assignment, as it was until then, unless a fetch of the
\* templates has failed.
NoLostUpdate == page = "assignment" => Assignment!NoLostUpdate

\* Every row in the viewport of a long table is painted, and so is the row
\* the keyboard leads to, or a conflict unless that was overtaken.
RowsInSight == page = "tables" => Tables!ViewportPainted /\ Tables!FocusFound

\* A table does not say it is loading when nothing is on its way.
NothingStuck == page = "roster" => Roster!NotStuckLoading
===============================================================================
