-------------------------------- MODULE Services -------------------------------
(***************************************************************************)
(* Services of the server that share nothing with each other but the        *)
(* database they run on, each taken by itself: one instance of its module,  *)
(* on the same registers r1..r8, which stand for its variables; what a      *)
(* service has no use for is None.  The two that keep more of what they     *)
(* promise when requests do not overlap are also taken with one request;    *)
(* of a swap's requests, two may race, or one of them die.                 *)
(***************************************************************************)
EXTENDS Naturals, FiniteSets

CONSTANTS
  None,
  Request, OneRequest, Planner,  \* processes; a planner's in SwapRequests
  Employee, User, Message, Location, Conflict, Context, Field, Value, Fresh,
  MaxSwaps,
  MaxPending, MaxAttempts, LastHalfDay,
  MaxSpan, LastHour,
  MaxRows, FewRows,
  MaxSeats,
  Max, Window, LastSecond,
  MaxSnapshots, MaxId, MaxVersion,
  FewChanges, MaxChanges,
  Pattern, FewDays, LastDay

\* None and the lock of a dead process are nobody; a request reads what is
\* there, not None; the queue and the window have room for one.
ASSUME ServicesAssumption ==
  /\ {None, "stale"} \cap (Request \cup OneRequest \cup Planner) = {}
  /\ None \notin Employee \cup Context
  /\ IsFiniteSet(Request)
  /\ {MaxSwaps, MaxAttempts, LastHour, Window, LastSecond, FewDays, LastDay, MaxRows, FewRows} \subseteq Nat
  /\ {MaxPending, Max} \subseteq Nat \ {0}

VARIABLES
  service,  \* which one it is
  r1, r2, r3, r4, r5, r6, r7, r8

vars == <<service, r1, r2, r3, r4, r5, r6, r7, r8>>

Swap == INSTANCE SwapRequests WITH
  Request <- Request \cup Planner, NULL <- None, Bilateral <- TRUE,
  Disturbance <- {}, swaps <- r1, asg <- r2, posted <- r3, lock <- r4,
  op <- r5, applied <- r6

SwapDying == INSTANCE SwapRequests WITH
  Request <- OneRequest \cup Planner, NULL <- None, Bilateral <- TRUE,
  Disturbance <- {"die"}, swaps <- r1, asg <- r2, posted <- r3, lock <- r4,
  op <- r5, applied <- r6

Queue == INSTANCE QuietQueue WITH
  Sender <- Request, MaxTime <- LastHalfDay, now <- r1, queue <- r2,
  lastId <- r3, sender <- r4, drain <- r5, notified <- r6, died <- r7

\* The two that are also taken with one request: P are the requests.
Blackout(P) == INSTANCE Blackouts WITH
  Proc <- P, MaxTime <- LastHour, rows <- r1, lastId <- r2,
  overrides <- r3, lock <- r4, req <- r5, asked <- r6

Rows(P, M) == INSTANCE ConflictRows WITH
  Proc <- P, MaxRows <- M, roster <- r1, rows <- r2, dirty <- r3, req <- r4,
  told <- r5

Seat == INSTANCE Seats WITH
  Admin <- Request, limit <- r1, seats <- r2, seatLock <- r3, admin <- r4,
  highest <- r5

Rate == INSTANCE RateLimit WITH
  Caller <- Request, MaxTime <- LastSecond, now <- r1, rows <- r2, lock <- r3,
  caller <- r4, allowed <- r5

Backup == INSTANCE UpgradeBackup WITH
  Command <- Request, tables <- r1, config <- r2, folders <- r3, lastId <- r4,
  lock <- r5, command <- r6, restored <- r7

Mirror == INSTANCE MirrorSync WITH
  Run <- Request, MaxVersion <- FewChanges, source <- r1, mirror <- r2,
  effective <- r3, lease <- r4, run <- r5, last <- r6

Settings == INSTANCE CompanySettings WITH
  Admin <- Request, stored <- r1, admin <- r2, accepted <- r3

Assigned == INSTANCE PatternAssignments WITH
  LastDay <- FewDays, MaxRows <- FewRows, active <- r1, rows <- r2,
  lastId <- r3, lock <- r4, req <- r5, loose <- r6

Suggest == INSTANCE RotationSuggest WITH
  rows <- r1, open <- r2, absent <- r3, pattern <- r4, lock <- r5, req <- r6,
  changes <- r7, calm <- r8

Absence == INSTANCE Absences WITH
  LastDay <- FewDays, MaxRows <- FewRows, rows <- r1, lastId <- r2,
  effective <- r3, req <- r4, beside <- r5

-------------------------------------------------------------------------------
\* What a service has no use for, from r<n> on.
Free8 == r8 = None
Rest8 == <<r8>>
Free7 == r7 = None /\ Free8
Rest7 == <<r7, Rest8>>
Free6 == r6 = None /\ Free7
Rest6 == <<r6, Rest7>>
Free5 == r5 = None /\ Free6
Rest5 == <<r5, Rest6>>
Free4 == r4 = None /\ Free5
Rest4 == <<r4, Rest5>>

Init ==
  \/ service = "swap" /\ Swap!Init /\ Free7
  \/ service = "swap dying" /\ SwapDying!Init /\ Free7
  \/ service = "queue" /\ Queue!Init /\ Free8
  \/ service = "blackouts" /\ Blackout(Request)!Init /\ Free7
  \/ service = "blackouts alone" /\ Blackout(Planner)!Init /\ Free7
  \/ service = "conflicts" /\ Rows(Request, FewRows)!Init /\ Free6
  \/ service = "conflicts alone" /\ Rows(Planner, MaxRows)!Init /\ Free6
  \/ service = "seats" /\ Seat!Init /\ Free6
  \/ service = "rate" /\ Rate!Init /\ Free6
  \/ service = "backup" /\ Backup!Init /\ Free8
  \/ service = "mirror" /\ Mirror!Init /\ Free7
  \/ service = "settings" /\ Settings!Init /\ Free4
  \/ service = "patterns" /\ Assigned!Init /\ Free7
  \/ service = "suggest" /\ Suggest!Init
  \/ service = "absences" /\ Absence!Init /\ Free6

SwapStep ==
  service = "swap" /\ Swap!Next /\ UNCHANGED <<service, Rest7>>

SwapDyingStep ==
  service = "swap dying" /\ SwapDying!Next /\ UNCHANGED <<service, Rest7>>

QueueStep ==
  service = "queue" /\ Queue!Next /\ UNCHANGED <<service, Rest8>>

BlackoutStep ==
  service = "blackouts" /\ Blackout(Request)!Next /\ UNCHANGED <<service, Rest7>>

BlackoutAloneStep ==
  service = "blackouts alone" /\ Blackout(Planner)!Next /\ UNCHANGED <<service, Rest7>>

RowsStep ==
  service = "conflicts" /\ Rows(Request, FewRows)!Next /\ UNCHANGED <<service, Rest6>>

RowsAloneStep ==
  service = "conflicts alone" /\ Rows(Planner, MaxRows)!Next /\ UNCHANGED <<service, Rest6>>

SeatStep ==
  service = "seats" /\ Seat!Next /\ UNCHANGED <<service, Rest6>>

RateStep ==
  service = "rate" /\ Rate!Next /\ UNCHANGED <<service, Rest6>>

BackupStep ==
  service = "backup" /\ Backup!Next /\ UNCHANGED <<service, Rest8>>

MirrorStep ==
  service = "mirror" /\ Mirror!Next /\ UNCHANGED <<service, Rest7>>

SettingsStep ==
  service = "settings" /\ Settings!Next /\ UNCHANGED <<service, Rest4>>

AssignedStep ==
  service = "patterns" /\ Assigned!Next /\ UNCHANGED <<service, Rest7>>

SuggestStep ==
  service = "suggest" /\ Suggest!Next /\ UNCHANGED service

AbsenceStep ==
  service = "absences" /\ Absence!Next /\ UNCHANGED <<service, Rest6>>

Next ==
  \/ SwapStep \/ SwapDyingStep \/ QueueStep \/ BlackoutStep \/ BlackoutAloneStep
  \/ RowsStep \/ RowsAloneStep \/ SeatStep \/ RateStep
  \/ BackupStep \/ MirrorStep \/ SettingsStep
  \/ AssignedStep \/ SuggestStep \/ AbsenceStep

Spec == Init /\ [][Next]_vars

-------------------------------------------------------------------------------
(* Properties: one for each thing the services owe.                        *)

\* However requests interleave, expire or die, what a service bounds stays
\* within its bound: the queue of notifications held back, the seats of the
\* licence, the calls in a window.
LimitsKept ==
  /\ service = "queue" => Queue!QueueBounded
  /\ service = "seats" => Seat!SeatsLicensed
  /\ service = "rate"  => Rate!WindowKept

\* What must happen once happens once: a swap is applied once, an assignment
\* has one open swap, a notification goes out once unless the job died, one
\* planner acknowledges a conflict, a day of an employee has one pattern and
\* is filled from it once, an absence is decided once and a day of absence
\* approved once.
DoneOnce ==
  /\ service = "swap"  => Swap!OneOpenSwap /\ Swap!AppliedOnce
  /\ service = "swap dying" => SwapDying!OneOpenSwap /\ SwapDying!AppliedOnce
  /\ service = "queue" => Queue!NotifiedOnce
  /\ service = "conflicts" => Rows(Request, FewRows)!OneAcknowledges
  /\ service = "patterns" => Assigned!OnePatternADay
  /\ service = "suggest" => Suggest!FilledOnce
  /\ service = "absences" => Absence!DecidedOnce /\ Absence!ApprovedApart

\* Nothing that a service accepted is lost to another request, to a failure
\* or to a death on the way: blackouts are taken up by those that merge with
\* them, settings keep the patches of others, what a restoration overwrites
\* can be restored.
NothingLost ==
  /\ service = "blackouts" => Blackout(Request)!Disjoint /\ Blackout(Request)!NothingLost
  /\ service = "blackouts alone" => Blackout(Planner)!OverridesLive
  /\ service = "settings" => Settings!PatchesKept
  /\ service = "backup"   => Backup!UndoKept

\* What is stored for something else is true to it: the stored conflicts to
\* the roster, the mirror to the absences at the time it names, restored data
\* to the snapshot, a preview of suggestions to what their confirmation writes.
CopiesTrue ==
  /\ service = "conflicts alone" => Rows(Planner, MaxRows)!RowsAreTrue
  /\ service = "mirror" => Mirror!AsRecentAsSaid
  /\ service = "backup" => Backup!RestoredAsAsked
  /\ service = "suggest" => Suggest!PlanKept
===============================================================================
