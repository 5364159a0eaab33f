# DutyCheck in TLA+

TLA+ models of DutyCheck, a Nextcloud app that plans duty rosters: of the
services on the server (PHP under `src/lib/`) and of the scripts of its pages in
the browser (`src/js/`); the TLC runs that check them and the TLAPS proofs about
them.

Contents: [the system](#1-the-system), [the plan](#2-plan), [the
modules](#3-modules-and-how-they-correspond-to-the-code), [the
runs](#4-runs), [the proofs](#5-proofs), [disagreements between code and
docs](#6-where-the-code-does-not-do-what-it-says), [what is not
modelled](#7-what-is-not-modelled).

To check everything by hand, in this directory:

    tlc -workers 4 -config MCDutyRoster.cfg MCDutyRoster      # one run
    tlapm DutyRosterProofs.tla                                # one proof module

`PROJECT.json` lists the runs, the mutants (below), the lines of source each
definition stands for, the hazards, the findings and the theorems.

## 1. The system

Every HTTP request is a PHP process of its own. Requests share nothing but the
SQL database; there is no in-process state that outlives a request, no queue
between requests and no foreign key in the schema. Background jobs run by cron
are further processes of the same kind. Nextcloud opens its connections at READ
COMMITTED, so a transaction is atomic when it commits, but its reads see
whatever other requests committed in between. The code's means of concurrency
control are therefore few, and the same in all services:

- a *compare-and-set*: `UPDATE ... WHERE id = ? AND status = ?` (or `version =
  ?`), whose affected-row count decides who won;
- a *unique index*: `slot_key` for assignments, the primary key of
  `dc_period_locks`;
- a *lock with a lease*: a row of `dc_period_locks` with a holder and an expiry;
- *compensation*: when a later statement fails, an earlier committed one is
  undone by another statement, or the failure is swallowed.

What is hard on the server: validation happens before the transaction and is seldom
repeated in it; a compare-and-set on a status cannot tell a status from the
same status a cycle later; compensations race with the requests that saw what
they compensate; a process may die between any two statements.

The browser's side is one script per page, without a framework and without a
shared store. Each keeps its state in variables of a closure, paints the document
from it, and calls the server through one JSON client (`common/api.js`). There is
no thread; what interleaves is the order in which gestures, timers, frames and
answers arrive. The means of control are again few: a *generation* taken before a
request and compared when its answer arrives, a *disabled button*, an
*AbortController* for a page that is left, and the version or revision a form
sends with what it was filled from. What is hard there: an answer of something
left behind, a dialog that waits for catalogues while the row it is for changes,
a confirmation during which the selection moves, a window of painted rows that
is one frame behind the viewport.

### Inventory

| Component | State | Operations | Interacts with | Hard behaviour | What makes it correct |
|---|---|---|---|---|---|
| **Assignments and their periods** (`RosterService`, `AssignmentSlotKey`) | `dc_assignments` (status, version, slot_key, acknowledgement), `dc_periods.status` | create, update, cancel, transfer, acknowledge; create, publish, close, reopen, delete a period | conflict engine, open shifts, swaps, notifications | checks before the transaction, optimistic versions, a browser form held open for minutes | one active assignment per slot; no lost update; no double booking; nothing published with a hard conflict; changes only while the period allows; acknowledgement is the assignee's own; no orphan row |
| **Period lifecycle** (`RosterService`, `SnapshotRetentionService`) | `dc_periods`, `dc_roster_snapshots` (hash chain), `dc_period_audit_log` | transition, delete, snapshot, prune | assignments | status guard beside a cycle; retention beside closes | the log is the walk; a closed period's snapshot is stored; the chain of snapshots is unbroken; published periods are never deleted |
| **Marketplace of open shifts** (`OpenShiftService`) | `dc_open_shifts` (status, claimant, assignment) | post, discard, claim, approve, reject | assignments: create, cancel; release on cancel | assignment created in one transaction, linked in a later statement | one open shift fills one slot; a claimed slot has its assignment and its claimant; no claim stuck |
| **Shift swaps** (`SwapService`) | `dc_swap_requests.status` | request, accept, approve, reject, withdraw, apply | assignments: transfer, cancel; open shifts: post; locks | two reviewers, a withdrawal at the same time, a lease running out | one unresolved swap per assignment; a swap is applied once and the status tells |
| **Period locks** (`PeriodLockService`) | `dc_period_locks` (holder, expiry) | acquire, renew, steal, release | swaps, rotation, blackouts, preferences, month creation, rate limits | a steal beside a refresh, a release after the lease | mutual exclusion while the lease lasts |
| **Conflict engine** (`RosterService`, `ConflictPolicyService`, `ConflictDirtyRematerializeJob`) | `dc_conflicts`, `dc_periods.conflicts_dirty` | materialize, acknowledge, mark dirty, drain | every roster change | budgeted synchronous refresh, the rest by a job; identity of a conflict across refreshes | acknowledgements survive a refresh; stored conflicts are those of the roster |
| **Absences and blackouts** (`RosterService`, `AvailabilityBlackoutService`) | `dc_absences`, `dc_avail_blackouts`, `dc_blackout_overrides` | create, transition; create with merge, delete, override | conflict engine, mirror, locks | two reviewers decide at once; merge of concurrent blackouts under a lease; overrides that point to a row a merge deletes | an absence is decided once, a day approved once; blackouts of an employee stay disjoint and lose no hour; an override points to a blackout that exists |
| **ArbeitszeitCheck mirror** (`ArbeitszeitCheckIntegrationService`, reconcile job) | `dc_at_absence_mirror`, a lease and the time of the last run in the app config | reconcile, switch on and off, acquire and release the lease | absences | two reconciles, a failing reader, a run that dies half way | one reconcile at a time; the mirror is as recent as the time says |
| **Rotation** (`RotationPatternService`, `RotationSuggestService`) | patterns, `dc_emp_rot_assign` | assign, end, switch off and on, preview, confirm | assignments, locks | overlaps read before they are cut; a plan made by one path and written by another, beside planners who take no lock | a day has one pattern and is filled once; what a preview promised is written |
| **Quiet hours** (`PushQuietHoursService`, drain job) | `dc_push_quiet_queue` | enqueue, shed, drain, deliver, give up | notifications | shedding the oldest at the limit; a drain that dies between notifying and stamping | no row notified twice; the queue bounded |
| **Licence and seats** (`LicenseService`, `SeatRank`) | the licence, `dc_mobile_seats` | apply, remove, assign, release | mobile gate | seat limit under concurrency, under two different locks | never more seats than licensed |
| **Upgrade backup** (`UpgradeBackupService`) | snapshot folders with manifests | create, restore, rotate | every table, the app config | a step of the file system cannot be rolled back; rotation beside restore | a restoration puts back one snapshot; what it overwrote can be restored |
| **Settings, companies, access** (`SelfServiceSettingsService`, ...) | `settings_json` with compare-and-set, memberships | read, patch, check | every service | lost updates on settings | no patch undoes another |
| **Rate limiting** (`ApiRateLimitService`) | `dc_api_rate_limits` | assertAllowed | locks | counting and inserting under a lock that may expire | at most the limit per window |
| **Read models, exports** | none | queries | | | |
| **Controllers** | none | HTTP | services | | |
| **Migrations, repair, seed data** | the schema | run at upgrade | | | |
| **API client** (`common/api.js`) | the request token, whether the page is being left | request, refresh the token, retry | every page | a token that expires under a write; a fetch rejected for one of three reasons | a write is carried out at most once; the caller is told the truth; every call settles |
| **Roster page** (`roster.js`, `common/virtual-window.js`, `common/windowed-table.js`) | the period shown, generations, the dialog's row and version, windows of rows | load, repaint, switch, save, cancel, copy, suggest, scroll | API client, assignments, open shifts | answers out of order; dialogs that wait; windows one frame behind | rows and strip of the chosen period; no lost update; every row in sight painted |
| **Periods page** (`periods.js`) | the list, the selected period and its panes, `isBusy` | select, publish, close, reopen, delete, verify | API client, period lifecycle | confirmations during which the selection moves | panes and ceremony of the selected period; one mutation at a time |
| **My roster page** (`my-roster.js`) | the range shown, open swaps, the swap dialog, the team's week | choose, confirm, swap, withdraw | API client, swaps | two fetches per render | the rows of the chosen range |
| **Rotation patterns page** (`patterns.js`) | the list, the editor's days, the dialog that assigns | edit, save, delete, assign | API client, rotation | a box ticked by the script and by hand | the overlap shown is the chosen one's |
| **Settings page** (`settings.js`) | the access policy, its baseline, the search | add, remove, restrict, save, discard | API client, access | a search resolved at the moment of saving | the form warns of what is unsaved; nobody is locked out |
| **Licence page** (`license-settings.js`) | the seats shown, the search | apply, remove, assign, release | licence and seats | answers to older searches | suggestions of the newest search |
| **Other pages** (`today.js`, `dashboard.js`, catalogues, absences) | lists and forms | load, submit | API client | | |

## 2. Plan

| Step | Modules | Abstract specification | Theorems | State |
|---|---|---|---|---|
| 1 | `DutyRoster`: assignments inside periods | slots and versions as invariants | types, slot keys, slots, versions; for one request, the validations | done |
| 2 | `PeriodLifecycle`: one period, its snapshots and log, with retention | `PeriodCycle` | types, the close reference, the refinement; for one request, chain, evidence, seal, deletion | done |
| 3 | `OpenShifts`: one open shift and its assignments | | types, one filling, kept until cancelled, never stranded | done |
| 4 | `SwapRequests`: one assignment and its swaps | | for one planner: one open swap, applied once | done |
| 5 | `PeriodLock`: one lock row | `Lease` | types, mutual exclusion, the refinement | done |
| 6 | `ConflictRows`: stored conflicts and the dirty flag with its job | | an acknowledgement stands; for one planner, rows are true | done |
| 7 | `MirrorSync`: reconcile under its lease; `Blackouts`: merging under a lock | the hours asked for | as recent as said; disjoint, no hour lost; for one planner, overrides live | done |
| 8 | `QuietQueue`, `Seats`, `RateLimit`, `CompanySettings`, `UpgradeBackup`, `PatternAssignments`, `RotationSuggest`, `Absences`; `Services` composes steps 4 and 6 to 8 | | limits; done once, nothing lost, copies true (of swaps and stored conflicts, for one planner) | done |
| 9 | `ApiClient`: the JSON client | | types, applied once, outcomes, leaving | done |
| 10 | `PeriodsPage`, `RosterPage`, `RosterTools`, `AssignmentDialog`, `RowWindow`, `MyRosterPage`, `PatternsPage`, `PolicyForm`, `LicensePage`, and `FrontEnd`, which composes them | | chosen is shown, shown is acted on, one mutation, no lost update, rows in sight, nothing stuck | done |
| left | month creation and copying over several periods, the pages with one form each | | | |

Modules that carry theorems use no RECURSIVE operator; recursion is a recursive
function or a fold.

## 3. Modules and how they correspond to the code

A module models the database tables of its component as variables and the
requests as a function from request to what the request carries in its PHP
variables between two statements. An action is one statement, or one
transaction together with the reads that nothing can come between. A request
whose guard fails returns to idle, as the exception ends the PHP process.

Definitions whose name ends in `_Bug` are used nowhere. Each is a wrong variant
of the definition it is named after, in the way a plausible slip of the code
would be; put in its place, it makes the property named with it in
`PROJECT.json` fail. They show that each property depends on the code.

### DutyRoster (`MCDutyRoster`, `DutyRosterProofs`)

| Variable | Code |
|---|---|
| `status` | `dc_periods.status`, or that the row is absent or deleted |
| `archived` | periods with rows in `dc_roster_snapshots`, which forbid deletion |
| `row` | `dc_assignments` by id: period, employee, shift, status, version, slot_key, acknowledgement |
| `barred` | approved absences and missing qualifications, as facts that change |
| `pending` | what a request has validated and not yet committed |

`Check...` is the validating half of an operation, `Apply...` its transaction:
`CheckCreate`/`ApplyCreate` (`createAssignment`), `CheckUpdate`/`ApplyUpdate`
(`updateAssignment`, `OpenForm` being the browser form whose version the update
carries), `CheckCancel`/`ApplyCancel`, `CheckTransfer`/`ApplyTransfer`,
`CheckAck`/`ApplyAck`, `CheckTransition`/`ApplyTransition`,
`CheckDelete`/`ApplyDelete`, `CreatePeriod`. `Abort` is every failure, rollback
or death. A shift stands for a date with its times and its kind; `Clash` for
which shifts overlap or break the rest time. The SHA hash of `slot_key` is the
tuple it hashes: the model assumes no collision.

Abstractions: blackouts and soft conflicts do not forbid a write and are left
out; the hard cap on hours is a number of shifts; `deletePeriod`'s test of other
tables is `archived`; a transfer checks absence and overlap but no
qualification, as the code does.

### PeriodCycle and PeriodLifecycle (`MCPeriodLifecycle`, `PeriodLifecycleProofs`)

`PeriodCycle` says what a period promises: it walks open, published, closed,
open one step at a time, is deleted only while open, and its log names the
statuses in order. `PeriodLifecycle` is one row of `dc_periods` with its
snapshots, their `prev_snapshot_id` chain, the audit log and one retention run.
A transition is four steps: read the status (`ReadStatus`), read roster and
predecessor (`Capture`), insert the snapshot (`InsertSnapshot`, which draws the
id and is invisible until the commit), and the guarded UPDATE with the commit
(`CommitSnapshot`, `CommitReopen`). `deletePeriod` is `ReadDelete` (its counts)
and `CommitDelete`. `StartPrune`, `PruneOne` and `EndPrune` are
`SnapshotRetentionService::pruneExpired`, which computes the protected set once
and deletes row by row; `Age` lets a snapshot pass the retention window. The
roster's content is the number of edits made to it.

### OpenShifts (`MCOpenShifts`, `OpenShiftsProofs`)

`slot` is one row of `dc_open_shifts`, `rows` the assignments made from it. A
claim is `ReadClaim` and `CommitClaim` or `LoseClaim`; with `AutoApply`
(`claim_requires_planner` off) it goes on like an approval: `Create`
(`createAssignment` in its own transaction), `Link` (the UPDATE guarded by
'pending'), or `LinkLost`, `Undo` (`cancelAssignmentSilent`) or `UndoFails`
(swallowed), `Release` (`releaseToOpen`). `CancelAssignment` is a planner
cancelling the row, with `releaseClaimedOpenShift` in the same transaction.
`createAssignment` and `cancelAssignment` are single steps here, since
`DutyRoster` takes them apart; everything that may refuse an assignment is
`CreateFails`. `Disturbance` says what may interfere: the period closing, a
request dying, claimants that are no members of the company. `left` and
`abandoned` are history variables: assignments left active, or linked after
their cancellation, by a request that died or was refused its rollback; and
whether one died with a claim pending.

### SwapRequests (`Services`, `MCSwapRequests`, `SwapRequestsProofs`)

`swaps` are the swap requests of one assignment, `asg` that assignment,
`posted` the open shifts posted for it, `lock` the row of `dc_period_locks` as
`Lease` abstracts it. A request is `ReadRequest`, `TakeLock` or `LockBusy`,
`Recheck`, `Insert`, `Unlock`. `Accept`, `ReadReject`, `ReadWithdraw` and
`ReadApprove` are the decisions, `Move` the compare-and-set they end in. `Apply`
is the transaction of `applyApprovedSwap`, `ApplyFails` its rollback for any
reason, `Revert` the UPDATE that follows the rollback. `EditAssignment` is a
planner changing the assignment meanwhile. `assertSwapGuards` is left open: it
may object or not. `applied` is a history variable: how often a swap changed the
roster.

### Lease and PeriodLock (`MCPeriodLock`, `PeriodLockProofs`)

`Lease` is the promise: whoever takes the lock finds it free or its lease at an
end. `PeriodLock` is one row of `dc_period_locks` and `acquire` statement by
statement: `Begin` reads the clock, `Insert`/`InsertFails` the INSERT and, after
the row was found gone, the one retry, `Fetch` the SELECT,
`Update`/`UpdateFails` the guarded UPDATE that renews or steals. `HolderOf` maps
a process to the holder string it uses, so that two processes may share one;
`Wipe` is `deletePeriod`, which deletes locks by their number alone. `lease` is
a history variable: until when a process may rely on the lock. `Wipe` sets it to
zero for the holder, who is not told by the code and goes on working: mutual
exclusion is claimed for leases nobody wiped.

### Services (`MCServices`, `ServicesProofs`)

Services that share nothing but the database are model-checked in one run. Each
has a module of its own; `Services` instantiates them on the same registers
`r1`..`r8`, which stand for the variables of the one that is taken, chosen in
`Init`. A step is a step of that module. The properties say one thing each and
name what it means for every service concerned. `Blackouts` and `ConflictRows`
keep more of what they promise when requests do not overlap, and are therefore
also taken with one request ("alone"); `SwapRequests` is taken once with two
employees' requests and once with one that may die ("dying"). What differs
between two takes is a parameter of the instance: `Blackout(P)` has the requests
`P`, `Rows(P, M)` the requests `P` and at most `M` rows for a conflict.

| Module | State | Actions |
|---|---|---|
| `Blackouts` | `rows`, `overrides` and the employee's `lock` | `Create` takes the lock or is refused; `ReadOverlapping`, `CommitMerge`/`MergeFails` are `mergeOverlapping`, then `Unlock`; `ReadRow`, `Detach`, `Delete` the deletion, three statements; `ReadOverridden`, `RecordOverride` a planner's override |
| `ConflictRows` | the conflicts the `roster` has, the `rows` stored, `dirty` | `ChangeAssignment` (one period, refreshed in the same transaction) and `ChangeMany` (an absence, a qualification, the policy) change the roster; `Refresh` computes and `Write` materializes, a row that is found again keeping its acknowledgement; `WithinBudget`, `MarkDirty` and `DrainDirty` are the budgeted refresh and the job; `ReadConflict`, `Acknowledge` the compare-and-set |
| `MirrorSync` | the `source`, the `mirror`, the `lease`, the `last` complete run: for whom, when it began (history) and when it ended, which is the time stored | `Acquire`, `Start`, `ReadUser`, `ReconcileUser` or `Fails` per user, `Completed` or `Incomplete`, `Release`; `Switch` turns the integration off and on under it |
| `QuietQueue` | the `queue`, what a `sender` has counted, what the `drain` has read | `Enqueue` counts, `ShedOldest`, `Insert`; `Drain` expires and reads, `DeliverRow` claims by the number of attempts, `Notify`, `Stamp` |
| `Seats` | the licence's `limit`, the `seats` by rank | `Assign` takes the lock, `Count`, `Insert`, `Unlock`; `ApplyLicense`, `RemoveLicense` and `RemoveSeat` under no lock of the seats |
| `RateLimit` | the `rows` of one bucket, its `lock` | `Acquire` or refusal, `Count` (deletes old rows, counts), `Insert`, `Release` |
| `UpgradeBackup` | versions of `tables` and `config`, `folders` with what is in them | `Begin` purges what is incomplete, `Export`, `Rotate`; a restoration first takes a safety snapshot, then `RestoreTables` (one transaction), `ClearConfig` and `RestoreConfig` (key by key, no transaction), or `RestoreFails` |
| `CompanySettings` | `stored`, what an admin has read | `OpenForm` gives the revision, `Update` reads and merges, `Write` compares the text read |
| `Absences` | the `rows` of one linked employee, whether the integration is `effective` | `CheckCreate`, `InsertAbsence`; `ReadAbsence`, `CheckOverlap` and `Decide`, the compare-and-set, are `transitionAbsence`; `Switch`, `SelectLegacy` and `Purge` the hand-over to ArbeitszeitCheck; `beside` records approvals that overlapped in time |
| `PatternAssignments` | `active` patterns, the employee's `rows`, the `lock` | `Assign` takes the lock or is refused; `ReadOverlaps`, `CommitAssign`/`AssignFails` are the transaction, then `Unlock`; `ReadRow`, `EndAssignment`; `Deactivate`, `Activate`; `loose` records which rows were prolonged or had their pattern switched on again |
| `RotationSuggest` | an employee's `rows`, whether the period is `open`, days `absent`, the `pattern`, the `lock` | `Confirm` takes the lock, `Plan` makes the plan again, `WriteCell` writes cell by cell, `Commit`/`RollBack`, `Release`; meanwhile others `Create`, `Cancel`, `Approve`, `Turn` the period, `EditPattern`; `calm` records since whose plan nothing changed |
| `SwapRequests` | as above | as above |

`Die` ends a process between two statements; its lock is then "stale" until
`Expire`. Clocks count in the unit that matters (half a day for quiet hours, a
second for the rate limit). A version stands for all the data that changes
together.

### ApiClient (`ApiClientProofs`)

One `request()` per member of `Call`, from `Request` to an outcome: `Refreshed`
or `RefreshFails` (`refreshCsrfToken`), `Send`, `Responded`, `Verdict` (retry
once when a write was refused for its token), `BodyRead`, or the failures, which
`ClassifyFetchFailure` tells apart. The server is what the client sees of it:
`Rotate` makes tokens stale, `Serve` carries a request out or refuses it; a
request or its answer may be lost. `MarkPageUnloading` and `ResetPageLifecycle`
are the page being left and brought back from the back/forward cache. `applied`
is a history variable: what the server has carried out for a call.

### FrontEnd and the pages (`MCFrontEnd`, `FrontEndProofs`)

A page's script starts afresh with the page, so the pages are taken one at a
time, on registers `r1`..`r17`, as `Services` takes the services; parts of one
page that share nothing are separate modules. The client is abstracted to
answers and failures in any order, and the server to what it may answer; where
the server's own state matters to a property it is a variable (`ver` in
`AssignmentDialog`, `server` in `MyRosterPage`, `seated` in `LicensePage`).
Requests in flight are sets of records that hold what the closure of the answer
holds: its generation, the period it was asked for, who waits for it.

| Module | What it has of the page | Generation or guard in the code |
|---|---|---|
| `PeriodsPage` | list, selected period, panes, the readiness and of which period it is, its line, the ceremony, `isBusy`, confirmations | `detailsSeq`, `AbortController` (present or not), `isBusy` |
| `RosterPage` | the list and the grid, which are painted together by `render` and apart by frames, notices and "Show assignment"; the roster at hand, the switcher, the address, the readiness strip, writes that repaint from their own answer, month navigation | `rosterViewSeq` |
| `RosterTools` | copying a period, suggestions with preview and confirmation, the list of open shifts | `copyPreviewReady`, `openShiftSeq` |
| `AssignmentDialog` | the one form (`formId`, `from`), the dialog it is in (`modal`, `of`), what is remembered as edited (`id`, `ver`); opening, which waits for the templates, saving with its prompts, cancellation, and the dialog opened again when that is given up | the version sent |
| `RowWindow` | the windows of the planning grid, the list and the catalogue tables: scroll, frame, resize, keys, printing, notices in place of rows, and "Show assignment", whose frame paints what its click captured | `requestAnimationFrame` |
| `MyRosterPage` | the rows with their swap buttons, the swap dialog, the team's week | `rosterFetchSeq`, `teamSeq` |
| `PatternsPage` | the list, the editor, the dialog that assigns | `loadSeq` |
| `PolicyForm` | the list of names, the restriction, the search, dirty and baseline | `snapshotMatchesBaseline` |
| `LicensePage` | seats, the search, the dialog that removes the licence | `searchGeneration` |

In `RosterPage`, `due` and `painted` are history variables: the period asked for
last, or of the row saved since, and whether its roster has been painted. In
`RowWindow` the keyboard may go to any row, since a click on any cell sets
`gridState.focusRow`.

In `AssignmentDialog`, `from` is the row and version whose fields the form shows;
`accepted` and `failed` are history variables: the update the server accepted
last, and whether the templates could not be fetched once. `NoLostUpdate` is
claimed while they could; section 6 says what happens otherwise. A save does not
keep a second one from being sent, since a change of any field enables the
button again.

## 4. Runs

| Run | Instance | Shows | States |
|---|---|---|---|
| `duty_concurrent` | 2 requests, 2 employees, 2 shifts, 2 ids | slot keys, unique slots, versions, at every interleaving | 1 080 270 |
| `duty_alone` | 1 request, 3 shifts, 3 ids, changing eligibility | the validations: double booking, own acknowledgement, orphans, clean publication, changes respect the period | 701 938 |
| `duty_race_ack` | 2 requests | an acknowledgement may be another's | violation |
| `period_concurrent` | 2 requests, 6 snapshots, 8 log entries | the refinement of `PeriodCycle`, the close reference | 1 453 004 |
| `period_alone` | 1 request, 8 snapshots, 11 log entries, 2 edits | hash chain, evidence, seal, no deletion after publication | 937 486 |
| `period_race_delete` | 2 requests | a once published period may be deleted | violation |
| `openshift_concurrent` | 2 requests, 2 employees, 3 assignments, with and without planner approval, dying, closing, refused rollbacks; fair | one open shift fills one slot, no claim stays pending, a filled slot is kept until cancelled | 177 842 |
| `swap_two_planners` | 1 employee's request, 2 planners | a swap may be applied twice | violation |
| `lock_concurrent` | 3 processes, lease 2, clock to 5, dying, row wiped | mutual exclusion, the row backs the lease, the refinement of `Lease` | 73 046 |
| `services_concurrent` | every service of `Services`, 2 processes (and one planner), dying | limits kept, done once, nothing lost, copies true | 1 783 237 |
| `api_client` | 2 calls; fair | applied at most once, true outcomes, leaving is no network error, every call settles | 100 064 |
| `front_end` | every page of `FrontEnd` | what is shown was chosen, what is changed was shown, one mutation, no lost update, rows in sight, nothing stuck | 1 398 197 |

Of the states of `services_concurrent`, 525 000 are `SwapRequests`' with two
employees' requests beside a planner (2 swaps) and 99 000 with one, who may die;
336 000 are `Absences`', 282 000 `QuietQueue`'s, 152 000 `ConflictRows`' (7 600
alone), 149 000 `Blackouts`' (6 800 alone), 84 000 `UpgradeBackup`'s, 72 000
`PatternAssignments`', 36 000 `MirrorSync`'s, 32 000 `RotationSuggest`'s, 1 700
`RateLimit`'s, 844 `CompanySettings`' and 122 `Seats`'.

Deadlock is checked where the instance cannot stop; the other configurations
switch it off, because a bound (ids, snapshots, swaps, gestures, time) or a
final state ends the instance. Symmetry is used only without liveness and over
values that no module orders or chooses from.

`duty_alone` and `period_alone`, and the theorems about the same properties, have
one request at a time: they say that a validation asks everything it must, and
nothing of requests that come between a check and its transaction. Of those races,
`duty_race_ack` and `period_race_delete` show two; what the others break is listed
in section 6, with the properties in brackets.

### Bounds, and why they are enough

- *Two requests* (three for locks). The hazards are of one request's gap and
  another's commit; a third matters where a third party can restore the status
  the first one read (steal after steal), which is where the run has three. In
  `OpenShifts` a request that is done begins again, so two are enough to reject
  and claim again under a third operation begun before.
- *`DutyRoster`*: two employees and shifts that do and do not clash cover
  transfer, double booking and reuse of a cancelled slot; `MaxVersion` 2 lets a
  row be edited, edited again and met by a stale version.
- *`PeriodLifecycle`*: 8 log entries are two full cycles and more, so a status
  comes round again; 6 snapshots give a chain of three closes, which is what
  retention must follow.
- *`OpenShifts`*: 3 assignments let one be undone, one be linked and one be made
  after the linked one's cancellation.
- *`SwapRequests`*: 2 swaps are the two that must not be open together. The
  passing run has one planner and bilateral acceptance; two planners violate
  `NoDoubleApply` (see below).
- *`PeriodLock`*: a clock of 5 with a lease of 2 lets a lease end, be stolen and
  end again, with an acquisition begun before each.
- *`Services`*: `MaxPending` 1 reaches the limit with the first row and
  `MaxAttempts` 2 the last attempt after one failure; `LastHalfDay` 4 has two
  nights and the day after each, so rows are drained, expire and are queued
  again; `MaxSpan` 2 of 4 hours leaves both blackouts that merge and some too
  long to; `MaxRows` 3 is two that a third takes up, `FewRows` 2 a conflict that
  vanishes and returns; `MaxSeats` 3 lets a licence shrink below the seats taken;
  a window of 2 in 6 seconds is left and entered again; `MaxSnapshots` 1 rotates
  at the second of `MaxId` 3 folders, the case in which the safety snapshot could
  displace the one being restored; two versions of a user's absences are one
  change during a run; two absences on 2 days meet on one of them; 3 pattern assignments on 2 days are one that is cut, one that
  is replaced and the one that does it, open-ended or not; 3 days have a night that
  reaches into the next day on either side of a gap, and 3 changes by others fill a
  planned cell, empty it and close the period.
- *`FrontEnd`*: two periods, rows, shifts, patterns, employees, names and ranges:
  the one chosen and the one left behind. `FewClicks` 2 are a choice and another
  one before its answer; pages whose hazards need a longer walk have `ManyClicks`
  4 (choose, preview, choose again, confirm; open, cancel, think better of it,
  save), and the roster page `SomeClicks` 3 (choose, change, choose again).
  `MaxVersion` 1 is one edit by
  somebody else. `Sizes` 0 and 4 with rows of height 2 in a viewport of 0 or 3
  are tables that are empty, hidden, and longer than viewport and overscan
  together, of which only a part is painted.

### Fairness

`OpenShifts!FairSpec` has weak fairness of `Proceed(r)`, the steps a request
takes after it has begun. A PHP request runs to its end unless its process dies:
nothing on its way waits for a lock, a queue or another request. No user is
assumed to act and the period may close at any time; a request that dies does
leave its claim pending, which is what `abandoned` excepts.

`ApiClient!Spec` has weak fairness of `Step(c)`, the steps of one call: the
browser settles every fetch, with an answer, an abort or an error, and the
promise chain goes on. Nothing is assumed of the server: an answer may never
come, and the fetch then fails.

## 5. Proofs

TLAPS proves these for every value of the constants, under the modules' ASSUMEs
(which TLC evaluates in every run).

| Theorem | Statement |
|---|---|
| `DutyRosterProofs!TypeCorrect`, `SlotKeysFaithful`, `SlotsUnique`, `VersionsNameContent` | `Spec => []` of `TypeOK`, `SlotKeyFaithful`, `SlotUnique`, `VersionNamesContent` |
| `DutyRosterProofs!NeverDoubleBooked`, `AcknowledgedBySelf`, `NoneOrphaned`, `PublishedClean`, `ChangesRespectPeriod` | for one request at a time, `Spec => []` of `NoDoubleBooking`, `AckIsSelf`, `NoOrphanAssignment` and `PublishIsClean`, and `Spec => ChangeRespectsPeriod` |
| `PeriodLifecycleProofs!TypeCorrect`, `CloseSnapshotKept` | `Spec => []` of `TypeOK`, `CloseRefStored` |
| `PeriodLifecycleProofs!ImplementsCycle` | `Spec => FollowsCycle`: the detailed period implements `PeriodCycle` |
| `PeriodLifecycleProofs!ChainNeverBroken`, `TrailFollowsLog`, `EvidenceNeverLost`, `SealIsTrue`, `PublishedNeverDeleted` | for one request at a time, `Spec => []` of `ChainIntact`, `TrailChained`, `EvidenceKept`, `SealMatches`, `NeverDeletedOncePublished` |
| `OpenShiftsProofs!TypeCorrect`, `FillsOneSlot`, `NeverStranded`, `KeptUntilCancelled` | `Spec => []` of `TypeOK`, `OneFilling`, `NotStranded`, and `Spec => ClaimedUntilCancelled` |
| `SwapRequestsProofs!OneSwapOpen`, `SwapAppliedOnce` | for one planner and no lease that ends at work, `Spec => []` of `OneOpenSwap` and `AppliedOnce`, two parts of the runs' `DoneOnce` |
| `PeriodLockProofs!TypeCorrect`, `LeaseImplemented` | `Spec => []TypeOK`, `Spec => ImplementsLease` |
| `PeriodLockProofs!BackedByRow`, `MutualExclusion` | `Spec => []LeaseBacked`, `Spec => []LeaseExclusive`, if holders are distinct |
| `ServicesProofs!LimitsAreKept` | `Spec => []LimitsKept` |
| `ServicesProofs!EachIsDoneOnce`, `NothingIsLost`, `CopiesAreTrue` | for one planner (`OnePlanner`), `Spec => []` of `DoneOnce`, `NothingLost`, `CopiesTrue` |
| `ApiClientProofs!TypeCorrect`, `NeverAppliedTwice`, `ToldTheTruth`, `LeavingIsQuiet` | `Spec => []` of `TypeOK`, `AppliedOnce`, `OutcomeIsTrue`, `LeavingIsNoNetworkError` |
| `FrontEndProofs!ChosenIsShown`, `ShownIsActedOn`, `OneMutationAtATime` | `Spec => []` of `ShowsTheChosen`, `ActsOnWhatIsShown`, `OneMutation` |
| `FrontEndProofs!NoUpdateIsLost`, `RowsAreInSight`, `NothingIsStuck` | `Spec => []` of `NoLostUpdate`, `RowsInSight`, `NothingStuck` |

The arguments:

- **DutyRoster.** Slot uniqueness follows from the unique index only if the key
  always encodes its row. The inductive invariant adds to the types that keys
  are pairwise distinct (the index), that keys are faithful, that what a request
  read was an active row, that a request waiting to acknowledge points to an
  existing row, and that a version names a content: two readings of one version
  agree. Each write either changes the version or the status; that is why the
  compare-and-set suffices.
- **DutyRoster, one request.** The five properties of `duty_alone` rest on
  `Checked`: what the validating half of a request made sure of (the slot free of
  clashes and of hard conflicts, the period's status, the assignee) still holds
  when its transaction commits, because nobody writes in between. It is what
  fails with two requests; the theorems therefore assume `OneRequest`, and section
  6 names the schedules that break them otherwise. The facts about absences and
  qualifications may change at any time all the same.
- **PeriodLifecycle.** `CloseRefStored` is not inductive: a retention run may
  have computed its protected set before the close. The invariant `IInv` adds
  `Aligned` (status and log agree), `Fresh` (ids drawn are below the sequence's
  next and nobody else's, so an uncommitted snapshot is not a stored one) and
  `Retained` (what the running prune may still delete is not the current close
  reference nor an id to come). The refinement maps every step to a step of
  `PeriodCycle` or a stutter, because the guarded UPDATE compares the status it
  moves from.
- **PeriodLifecycle, one request.** Every close snapshot that was ever committed
  stays stored and is an ancestor of the newest one (`Linked`, `Topped`), so the
  set retention protects contains all of them, and what a running prune may still
  delete is no close snapshot, since closes take newer ids (`Spared`).
  Ancestors are a recursive function; that it is closed under predecessors is
  proved by taking the least snapshot at which it would not be. Seal and deletion
  follow from what the transaction read still being so when it commits (`Held`).
- **OpenShifts.** `OneFilling` speaks only of quiet states. The invariant
  `Owned` says, for every state, that an active assignment is linked to the
  slot, belongs to a request that has still to link or undo it, or is in `left`;
  `IdsExist`, that what a request or the slot points to was inserted.
  `Settling` adds that an assignment still to be linked or undone belongs to one
  request only, is not linked, and is active or recorded in `left` (a planner may
  have cancelled it): `NeverStranded`. No disturbance is excluded.
- **PeriodLock.** `LeaseBacked` is inductive together with `Past`: no call began
  in the future, so a row found expired by a call's time is expired by the
  clock. Mutual exclusion follows since one row has one holder. The refinement
  needs no assumption on holders or disturbances.
- **ApiClient.** The invariant `CallInv` says of one call, for each place in
  `request`, what its wire, its answer and the server's record can be: before the
  second send nothing was carried out, because the client sends again only upon
  a refusal, and a refusal means that nothing was. `AppliedOnce` and
  `OutcomeIsTrue` are read off it. An aborted signal stays aborted, and the
  reasons it was aborted for stay on record until the call has settled:
  `LeavingIsNoNetworkError`.
- **SwapRequests.** A swap is inserted only under the lock, by a request that
  saw no unresolved swap after it took it (`Locked`): `OneSwapOpen`. With one
  planner, nobody else works on the same swap towards the same end, and the swap
  has not come to it yet (`Alone`), so `Revert` finds nothing of another's to undo:
  `SwapAppliedOnce`. Two planners lose the latter (`swap_two_planners`), a lease
  that ends at work the former.
- **Services.** Each module states its `IInv`; a step of `Services` is a step of
  the service that runs, and leaves the registers the others would use alone.
  - *Under a lock* (`Seats`, `RateLimit`, `Blackouts`, `PatternAssignments`,
    `RotationSuggest`, `UpgradeBackup`, `MirrorSync`): whoever works holds it
    (`LockHeld`), so what it has read is changed only by those who take none. What
    remains true all the same is the other half of each invariant: fewer seats
    than some licence allowed (`Room`); every call of the last window still stored
    and counted (`NotDeleted`, `Room`); a merge touches nothing it does not take
    up and covers all it does, whatever is deleted meanwhile (`Mergeable`);
    patterns that meet are `loose` (`Checked`); suggestions written so far do not
    clash (`Fitting`, and `Unhindered` while nothing has changed); a wanted
    snapshot is complete until it is restored (`Wanted`, `Worked`); whom a run has
    dealt with is as recent as when the run began (`Grown`, `Dealt`), so what is
    missing at the time of its end was changed meanwhile.
  - *Under none*. The queue: requests that have found room take it up in advance
    (`Counted`, a cardinality), a row has gone out at most as often as its
    attempts say and, while no drain died, is stamped or in the drain's hands
    (`Attempted`, `Once`). Absences: what an approval found free is free but for
    those `beside` (`FoundFree`). Settings: the text is compared.
  - *For one planner*. Stored conflicts: what has been read is still so when it is
    written (`UpToDate`), a conflict has one unresolved row (`OneRow`), and the
    rows are the roster's once it has settled and is not dirty (`Truth`).
    Overrides: the row one is recorded for is there (`Working`). Swaps: the proofs
    of `SwapRequestsProofs`, taken over by an instance of that module.
- **FrontEnd.** Where a page has a generation, the invariant is `Newest`: no
  request is newer than the counter, and one that is as new is for what is chosen
  now; since only its answer is painted, what is shown belongs to what is chosen.
  The periods page adds `OneFlow` (a flow that asks nobody keeps the page busy),
  that a ceremony left behind is painted anew by an answer still to come
  (`CeremonyToCome`), and that a line that is shown is the selected period's, or
  else its readiness is on its way or has failed (`ReadinessToCome`); the
  roster page that the newest load is unique, asks for what is due, and is gone
  once it has been painted, which is also why the page cannot be stuck.
  The policy form's warning is the difference to its baseline.
  - *Windows of rows.* Without a frame to come, the painted window is that of the
    present scroll position (`Painted`); a table that has its rows is as long as
    they are (`Lengths`), and a row that was captured is where it was unless
    something came between (`Captured`); that it contains every row in the viewport
    is arithmetic of quotients and remainders (`InWindow`), for any heights.
  - *The dialog.* Before the templates are there for the first time nothing is
    open, and the version remembered is that of the row clicked last (`Before`);
    from then on dialogs open at once, and the row remembered, the form's hidden
    id and the fields belong together whenever a save may be sent (`After`,
    `Together`). The step between is that of several dialogs taking each other's
    place in the order of the clicks. A failed fetch of the templates undoes this,
    which is what `failed` excepts.

Only model-checked: what holds under fairness (`NoStuckPending`,
`EveryCallSettles`), since TLAPS reaches neither liveness nor ENABLED. Every
other property of the passing runs is stated by a theorem above, under the
assumption named with it; where that is one request or one planner, so has the
run that checks the property.

## 6. Where the code does not do what it says

Met while modelling. The first of each group that has a run is shown by it
(`duty_race_ack`, `period_race_delete`, `swap_two_planners`; `PROJECT.json`
quotes the statements under "findings"). The others have no run of their own:
where a property is named in brackets, TLC finds it violated when the instance
or the property is widened to the case.

On the server:

- **Assignments.** Two creates that clash in different slots both pass their checks
  and commit (`NoDoubleBooking`); only the same slot is refused by the unique index.
  An acknowledgement racing a transfer is recorded on the new
  owner's shift. An update or cancellation validated while the period was open
  commits after it was published or closed (`ChangeRespectsPeriod`); a create
  commits beside a publication that found no conflict (`PublishIsClean`); an
  assignment survives the deletion of its period (`NoOrphanAssignment`).
- **Periods.** A deletion stalled for a whole cycle passes the status guard, and
  so does a transition. A snapshot may miss a change committed before its close
  (`SealMatches`). A stalled close may chain past a later one to a
  snapshot that retention does not protect (`ChainIntact`).
- **Swaps.** The "revert" that follows a rolled-back approval undoes another
  planner's committed approval, after which the swap can be applied again, or
  withdrawn although it changed the roster. A request slower than its 15-second
  lease adds a second pending swap (`OneOpenSwap`, with "lapse" in
  `Disturbance`).
- **Open shifts.** Cancelling a fresh marketplace assignment before it is linked
  strands the open shift; an approval may fill a later claim by somebody else; in
  a multi-company installation the rollback of an automatic claim is refused. The
  assignments concerned are those in `left`.
- **Locks.** `ensureOpenCalendarMonth` uses a holder without a random part, so
  two requests of one user hold the lock together (`LeaseExclusive`, with one
  holder for both); `deletePeriod` deletes locks of employees and assignments
  that have the period's number.
- **Stored conflicts.** Refreshes that overlap insert a row twice, which only
  further refreshes resolve; one computed earlier overwrites newer rows and clears
  a dirty flag set meanwhile (`RowsAreTrue`, with two requests). A request that
  dies between an absence and its refresh leaves rows stale and not dirty. When a
  conflict's context has changed, another planner cannot acknowledge it again.
- **Rotation.** An assignment to a deactivated pattern, which a comment calls inert
  (RotationPatternService.php:298), hides an active one that began earlier: a
  suggestion takes the latest to begin, then skips the day since its pattern is
  inactive. Ending an assignment may prolong it over a later one, or put back an
  end that a supersession has just moved; an edit of a pattern that read it before
  it was deactivated makes it active again. The assignments concerned are those in
  `loose`.
- **Absences.** Two approvals that have both read that the days are free are both
  carried out, and the employee has two approved absences on a day (those in
  `beside`). The integration cannot be switched
  on over absences kept here, but comes upon them when the other application is
  switched off and on again.
- **Blackouts.** A deletion that overlaps a merge brings the deleted blackout
  back within the merged one. An override recorded beside a deletion names a
  blackout that is gone (`OverridesLive`, with two requests), which its comment
  rules out.
- **Quiet hours.** Requests that count together exceed the limit per user; a
  message equal to one delivered within the last day is dropped, as when a period
  is published twice in one night; one deferred at the very end of the quiet hours
  waits for the next end; a late drain may notify within the next night.
- **Licence.** Removing the licence while a seat is assigned leaves a seat
  without a licence.
- **Upgrade backup.** After a failed restoration, `restore --latest` takes the
  safety snapshot made just before, although the message says to run it again;
  the order of retention has a granularity of one second; a snapshot exports one
  table after the other outside a transaction.
- **Mirror.** The time of the last run is that of its end: a change made while it
  ran may be missing from the mirror although the time is later. A reconciliation
  of one user sets the time of the last run for all,
  and one with `since` deletes mirror rows outside its window. The circuit breaker
  cannot trip from the cron job alone (every 900 s, failures counted over 300 s).
  Switching on tests legacy absences and sets the intent without a lock.
- **Rate limiting.** Old rows of all buckets are deleted by the caller's window;
  harmless while every caller uses the same one.

In the browser:

- **API client.** A page that asks before it is left and is not left takes every
  later failure for leaving, until it is shown anew (`pageUnloading`); a token
  refresh goes on when its call is aborted.
- **Roster page.** An acknowledgement, a confirmation or a saved row repaints the
  roster from its own answer, whatever has been loaded since (roster.js says a
  left-behind period cannot repaint).
  Loading and its failure are written into the list only (roster.js:3177, 3206,
  3212): the planning grid, which is shown by default, keeps the cells of the period
  left behind while the switcher already names the new one. They can be clicked
  (1633) and edited; cells selected before stay selected, and "fill" sends their
  days with the period in the switcher (2099). A frame for
  scrolling, a new size, the choice of list or grid, and printing paint the old rows
  in the list too, over the loading or error row and its Retry button, and in the
  grid the old rows on the new period's days (`RowsOfNewestLoad` without
  `painted`).
  "Show assignment" paints the rows its click captured one frame later (1951-1985):
  after a roster rendered in between, the list shows the old one, until it is
  painted by force, and the row may not be found (`ViewportPainted` without
  `body`, `FocusFound` without `overtaken`).
  A copy may be applied when the source or the target was
  changed during the preview; no property is about it. A second click on a row while templates load
  changes the kind of the assignment that is edited, which is called immutable.
  When the templates could not be fetched, an edit dialog that is given back after
  "Cancel shift" waits for them again (roster.js:2702-2713) while another row can
  be clicked; the edits it puts back then go over the other row's form and are
  saved with that row's version, although "concurrent edits cannot silently
  clobber each other" (CHANGELOG.md:386; `NoLostUpdate` without `failed`).
  Without any failure, "Add assignment" clicked after a row while the templates
  load opens a new assignment whose save updates that row. A change of any field while a save is
  on its way enables the button again (roster.js:2622-2630): a second click sends
  it twice.
- **My roster.** `Messaging` is used without being declared (my-roster.js:343); the
  lists of open shifts, preferences and blackouts have no generation and may show
  rows twice; a swap dialog opened for a second shift while candidates load keeps
  the first one.
- **Patterns.** A box ticked by hand is unticked with the automatic ones, although
  a comment says that a manual tick is the user's choice.
- **Periods.** The publish button is enabled by the readiness of another period
  than the selected one while the latter's is on its way, and for good when that
  fails (`CeremonyOfSelection` without `line`); the server decides anew.
- **Absences.** When its tab is shown again, or after five minutes, the page of
  absences fills the list of employees anew (`fillEmployeeSelect`) and the one chosen
  in the form is no longer chosen: an absence sent then is for the first of the
  list. The rows keep the buttons they had although the integration was switched.
- **Settings.** Edits made while a save is on its way are overwritten by its
  answer; any render enables the synchronisation button again; the search box has
  no generation.
- **Licence page.** A text that has become too short does not end the search in
  flight; `loadSeats` has no generation.
- **Today, dates.** `loadBoard` of today.js has no generation;
  `formatRosterColumnParts` of dates.js takes the weekend from the browser's zone
  and the weekday from the account's.

## 7. What is not modelled

- Inside the modelled components: `createPeriod`'s test for duplicate ranges,
  `copyPeriodAssignments` and `ensureOpenCalendarMonth` (several periods); the
  texts, times and notifications of every operation; company and location
  scopes other than where they refuse a compensation; the rules that find
  conflicts, which are pure functions of one roster.
  A copy is a loop of `createAssignment` in one transaction, as a confirmed
  suggestion is in `RotationSuggest`; the month's creation is a lookup and a
  `createPeriod` under a lock (see section 6 on its holder).
- Of rotation, the editor's writes of a pattern and of its name, and which week of a
  cycle a date falls in; what is deleted with a user's account.
- Read models, exports and controllers change no shared state of their own;
  migrations and seed data run once, alone.
- Of the front end: `today.js`, `dashboard.js` and the sections of settings other
  than the access policy have no guard and promise nothing that could be stated;
  the calendar link, the preferences, the catalogues and the absences are forms of
  one request each. Formatting, drawing and accessibility markup are left out throughout.
  The tables under `src/l10n/`, which are almost two thirds of the lines of
  JavaScript, are data: a text for each text. The share of JavaScript lines the
  models stand for is therefore small when those are counted.
- The database itself: that a statement is atomic, that a unique index is
  enforced, and that a transaction's writes appear at its commit is assumed, as
  the code assumes it. The browser likewise: that handlers run to their end, and
  frames, timers and answers come between them.
