# QI Flow: verification development

TLA+ models of QI Flow, the Windows time-registration application under `src/`
(Python, PySide6, SQLite, optional synchronisation through a Google Sheet), the
TLC runs that check them on small instances, and theorems about them proved with
TLAPS. Paths below are relative to `src/src/qi_flow/` unless they begin with
`src/`. `PROJECT.json` maps every definition to the lines it translates and pairs
every property with a seeded fault that breaks it.

## 1. The system

One process per Windows user owns one SQLite database. All user commands run on
the Qt main thread; each opens one transaction (a unit of work), commits it and
returns. Background threads do network and file work (synchronisation, backup,
slot filling, update download) and deliver results to the main thread by queued
signals. Several computers may share one Sheet.

| Component | State it keeps | Operations | What makes it correct |
| --- | --- | --- | --- |
| Time rules, interval validation (`domain/`) | none | rounding, local days, `validate_intervals` | a valid timesheet has no overlap, no orphan, no open interval but the running one |
| Time tracking service (`application/time_tracking.py`) | `work_sessions`, `deductions`, `day_details`, `audit_entries`, four settings; the Undo action in memory | timers, Undo, recovery, sleep intervals, manual entries, corrections, history, reminders, summaries | one timer; validating commands keep the timesheet valid; nothing replaced without an image; reminders once; the same hours in every view |
| Sync capture (`sync_capture.py`) | outbox of immutable mutation groups | compare the tables before and after a transaction | rows and heads of the history stay together |
| Publication, reconciliation, conflicts (`google_sync_service.py`, `sync_reconciliation.py`) | stored remote groups, heads, conflicts, acknowledgements | read and store, reconcile, collect, append, read back, confirm, review, resolve | nothing overwritten or lost from sight; "synced" is true; devices agree |
| Migration V1 to V2 (`sync_migration.py`) | the V1 tab, the ledger, the log; activation per machine | begin, contribute, complete | one log, nobody left behind, nothing replaced unseen |
| Sync schedule and worker (`sync_schedule.py`, `ui/google_sync_controller.py`, `ui/operation_controller.py`) | requested time, retry time, failures, the one worker | opening and finish requests, cooldown, cancellation | no request forgotten, cooldown kept, every request served |
| Runtime lifecycle (`ui/runtime_lifecycle.py`, `bootstrap.py`, `single_instance.py`) | instance lock, running workers, pending exit or restore | exit, restore, update restart, teardown | one process owns the database; a restore runs alone; exit ends |
| Backups (`infrastructure/backups.py`, `application/backup_schedule.py`) | database, write-ahead log, daily and safety copies | daily and forced backup, retry, restore, recovery | whatever fails or crashes, a restore loses nothing that was recorded; a daily backup can be read; a reported success is one |
| Updater (`src/scripts/update_helper.py`) | three installation folders | check, download, swap, roll back | an installation survives; nobody else's is touched |
| Slot filling (`application/testhuset.py`, `dsb.py`, the browser adapters, `ui/testhuset_dialog.py`) | preview, review, hours on the page and at the portal | scan, preview, review, fill, cancel | nothing unseen overwritten; what is reported is so |
| CSV export (`infrastructure/csv_export.py`) | none | summary and detailed file | the same hours as the views |
| Presentation, logging, paths, credentials, build scripts | none that others depend on | | not modelled |

Interactions. The service's transactions feed sync capture; `finish_work` requests
a synchronisation; reconciliation writes the tables the service reads; slot filling
and the exports read completed sessions; the lifecycle drains every worker, runs
the restore of a backup and starts the replacement; the update helper waits for
the process to end.

Hard behaviour: the order in which commands that each look correct reach a row (Undo and
history restore old rows), time passing between a reading and its use (midnight, sleep,
snooze, Undo window), lost answers and repeated jobs on a shared log, a job that ends
between storing what it read and reconciling it, two machines in the middle of the same
migration, crashes between file operations, shutdown racing workers, a page that changes
under the worker that fills it, and rounding that moves a boundary across a midnight or
another lunch.

## 2. Plan

Done, most important behaviour first: the timesheet (`TimeTracking` and what it
extends), the schedule and the lifecycle, synchronisation (abstract log, devices,
refinement), migration, backups, updater, slot filling, and the totals of a day.
Each is a module of its own; they compose where they share state:
`ReminderDelivery` and `DayTotals` extend `TimeTracking`, and `SyncDevices`
instantiates `SyncLog`.

What would come next:

1. problems that quarantine a device (unreadable rows of the Sheet) and enabling a
   connection again in `SyncDevices`;
2. the names of safety copies, two of which may be of one second;
3. the automatic synchronisation and the lifecycle in one module: they share the
   controllers, and the delay of a failure depends on how a shutdown ends.

## 3. Modules

Operators named `X_Something` are seeded faults: variants of `X` as a plausible bug
would have it. No specification uses them; `PROJECT.json` names the property that
must fail when one replaces `X`.

### TimeRules, IntervalValidation

Instants are natural numbers of ticks. A day is the span between two elements of
`Midnights`, so days may be uneven, as at daylight-saving changes. Rounding is
integer arithmetic on ticks, as in the code. `ValidIntervals` is
`validate_intervals`: true when it returns, false when it raises. A row whose end
is not after its start is not `Readable`: `WorkSession.__post_init__` refuses it
and every command that loads it fails.

### TimeTracking, TimeTrackingClaims, ReminderDelivery, DayTotals

| State | Code |
| --- | --- |
| `clock` | the last instant a command read |
| `sessions`, `deductions` | rows of the two tables: actual bounds, `dead` for `deleted_at`, `ack` for `recovery_acknowledged_at`, rounding, source |
| `days` | location per local day |
| `audit` | before-images with the time they were taken |
| `gap` | setting `pending_sleep_gap` |
| `notified`, `snoozed` | the four reminder settings |
| `undo` | `_undo_action`, lost by `Restart` |
| `effective` (`DayTotals`) | the columns `effective_started_at`, `effective_ended_at`, which no command of `TimeTracking` decides by |

Each command is one action, since it is one transaction on one thread; a command
that raises is no step. Commands happen at distinct instants: each advances the
clock by a tick and `Idle` lets more time pass. The partial unique indexes of
migration 0001 are deliberately absent: `OneTimer` says the service never needs
them. Inputs are bounded by `TypedTimes` (what a user types), `Snoozes`,
`Roundings` and `Kinds`; `MaxTime` ends a behaviour.

`TimeTrackingClaims` states D026 of `src/DECISIONS.md` as a formula.
`ReminderDelivery` adds a history variable, the promises of silence made to the
user per timer, and compares it with what `Due` says. `DayTotals` adds the
effective bounds and translates the three computations of a day's hours:
`Summary` (`_summaries_for_range`), `Exported` (`_detailed_rows`) and `Filled`
(`completed_segments`). The first and the last sum the same `Hours` of the pieces of
work they select (`ViewsAgree`); the file has a line for each lunch. That all three
agree is proved.
`MCTimeTracking` selects the commands for TLC.

### SyncLog, SyncDevices

`SyncLog` is the abstract specification: the log in the Sheet only grows and holds
what somebody wrote; a device knows what it wrote and what it read; what it stops
offering is in the log. `SyncDevices` is what the devices do:

| State | Code |
| --- | --- |
| `group` | immutable mutation groups: content, replaced heads, publication deadline; `undoes` (history): the group of the Finish work a withdrawal took back before any request had it |
| `log`, `transit` | the rows of the Sheet; requests that got no answer and may still be executed |
| `store` | the database of a device: rows, heads, stored groups, acknowledgements, conflicts, whether the connection is enabled; `fresh` (history): something was stored that no reconciliation has seen |
| `over` | the last deadline a reading of the clock found to have passed |
| `undo` | the Finish work that Undo would revert |
| `review` | the open review of a conflict |
| `job` | the step the running job is at, what it has read and what it sends |

A job is a sequence of requests and transactions, each a step of its own: `ReadLog`
(`_read`, and `_stage` up to its commit), `ReconcileRead` (the transaction of
`reconcile`), `Collect`, `AppendLog` or `AppendUnanswered`, `ReadBack`, `Verify`
(reconcile again) and `Confirm`. `BeginResolve` and `Resolve` are those of a
resolution. Every step that writes checks the connection in its own transaction
(`Bound`). `FailJob`, `Disable` and `Crash` may come between any two, so that what was
read may stay unreconciled until the next job. `Crash` also loses the Undo action and the
review; `Land` executes a request its job has given up.

Commands (`Finish`, `Edit`, `Undo`, `Review`, `Disable`) run on the main thread between
these steps, each in one transaction whose changes are one group: a session and the days
it touches first (`WithDays`). `Finish` is not validated, as in the code. The order of the
groups stands for the time of their capture, a deadline is a group number, and
`Readings` are what the clock may show when it is read for each group in turn: deadlines
may pass between two of them. Undo is limited by none of this. The code compares the
clock with the time of the finish, which may be typed and lie ahead, and does so
before its transaction begins; so `Undo` is allowed as long as the action is
remembered, before, while and after the finish is collected and sent.

A key stands for a record (a session with its lunches, or a day), a value for its
content; of the contents in `Wide` a timesheet holds one at most, which stands for the
validation that makes a group wait. Reconciliation is a pass over the records in the
order of their identifiers (`Passes`), one step of which settles a component (`Settle`).
The refinement mapping is the last definition of the module: `Log == INSTANCE SyncLog
WITH ...`, the authored groups for `written`, the stored groups for `view`, the
acknowledged ones for `settled`.

### SyncMigration

The Sheet (`legacy`, `manifest`, `acks`, `cutover`, `seeds`), what is on its way to
it (`transit`), and per machine its database and its job. Each write is a step;
between them the user edits, old clients write to the V1 tab, a job fails or
crashes, and an unanswered request is executed later or never.

### AutomaticSync

When a synchronisation job runs. Every Qt slot runs to its end on the main
thread, so a slot and the slots it signals directly are one action; the worker
thread and its two posted events (result, end) are actions of their own, and user
slots come between them. Instants are kept as the time left until them and
`Tick` lets time pass, so no bound on time is needed.

| State | Code |
| --- | --- |
| `generation`, `connected` | settings and credentials behind `schedule_state` |
| `observed`, `requested`, `retry`, `backoff` | `SyncSchedule`: `_binding`, `_requested_at`, `_retry_at`, `_failures` |
| `running`, `timer`, `closed` | `AutomaticSyncController` |
| `worker` | the owned `_OperationWorker`: kind, cancellation, and how far its events were delivered |
| `grace`, `owed`, `cooldown` | history: the last committed finish and the delay the last failure asked for |

### AppLifecycle

Who may use the data directory. Several processes share the instance lock and the
database; each has one record in `app`:

| Field | Code |
| --- | --- |
| `phase` | where `bootstrap.run` is: before the lock, opening, in the event loop, in `wait_for_shutdown`, in the message box of a failed restore, after `guard.release` |
| `worker`, `joined` | the threads (running, ended but not received, idle) and how many `wait_for_shutdown` has joined |
| `closing`, `readySent` | `ShutdownGroup` |
| `pending`, `backup`, `command` | `RuntimeLifecycle` |
| `restart` | `pending_restart` |
| `approved`, `restored`, `failed` | history |

`CheckReady` is `_check_ready` with everything it signals: the restore, and then
either the end of the event loop or `resume`. A restore may fail at any time, a
process may be killed between any two steps, and its event loop may end by itself
(`LoopEnds`), which is what `wait_for_shutdown` is for.

### Backups

`file` and `wal` are the database and its write-ahead log, `daily` (one per folder and
day, since the day is its name) and `safety` the copies; the newest backup is that of
the latest day. A database carries the settings of the backups, as in the code. The worker
copies, verifies and replaces one file operation at a time; `attempts` is
`BackupSchedule`. A restore closes everything, makes a safety copy (`BeginSafety`,
`FinishSafety`, `KeepSafety`), stages the backup, drops the write-ahead log and swaps
the file. A daily backup is written to a temporary file and moved; a safety copy is
written in place (`draft`), so `SafetyFails` and `Crash` may leave a part of it among
the safety copies. `CannotGoOn` is a failure of any other file operation, the removal of
the log and the replacement included, after which the application resumes, or ends if
it was recovering. The process may crash anywhere, a file may be damaged, and a start
finds what is left and recovers the newest readable copy with the user's consent.
`recorded` and `lost` are history: all that was ever recorded, and what was in a file
when it was damaged. Neither ever shrinks.

### Updater

`install`, `previous` and `displaced` are the folders; each holds a whole
installation, nothing, or the rest of an interrupted removal. The helper's steps
(`Wait` ... `Relaunch`) are the file operations of `apply_update`, of
`_restore_owned_recovery` and of `main`; any may fail, the machine may stop between
any two, and another installer may use the free place. A failure shows a message box
(`_show_error`), a state of the helper (`"failed"`, `"message"`) that only the user ends
(`CloseMessage`): in the first of them the helper has not yet tried to put the previous
installation back.

### FillSheet

The worker of the dialog (`Scan`, `Open`, `Decide`, `Rescan`, `Filling`, `Sending`,
`Finish`), the main thread that reviews (`Choices`, `Confirm`) and cancels, the portal
and its page. Users record work, choose branches, type into the page and into another
browser while the worker goes on. Testhuset saves what is typed at once, DSB when it is
sent; both are checked in one run by the variable `portal`.

## 4. Runs

| Run | Question | Checked |
| --- | --- | --- |
| `timesheet` | every command that changes a row, in any order, with Undo, restart, recovery and history | `TypeOK`; `OneTimer`: at most one session and one lunch run; `CheckedCommandsKeepTimesheetValid`; `HistoryKeepsReplacedRows` |
| `reminders` | reminders of successive timers through shared slots | `RemindersKeepPromises` |
| `day_totals` | the hours of a day in every view, week and export | `TotalsAgree` |
| `automatic_sync` | requests, manual jobs, failures, cancellation, replaced connections, shutdowns called off | `TimerMatchesRequest`, `FinishIsNeverForgotten`, `CooldownHonoured`, `RequestIsServed`, `ShutdownDrains` |
| `lifecycle` | two processes, three workers each | `OwnerUsesData`, `FirstRequestServed`, `RestoreAlone`, `ExitCompletes` |
| `sync_devices` | two devices and a Sheet, jobs that end between any two transactions | `RowsMatchHeads`, `NoSilentOverwrite`, `WithdrawnTogether`, `SyncedMeansPublished`, `Agreement`, `EveryVersionInSight`, `ObsoleteJobStoresNothing`, and the refinement `LogImplemented` |
| `migration` | two machines, interleaved with edits, old clients and lost answers | `NobodyLeftBehind`, `ActivatedAsShown`, `OneLog` |
| `backups` | backups, restores and crashes between file operations | `LiveStaysWhole`, `RestoreLosesNothing`, `BackupsAreWhole`, `SuccessMeansBackup`, `EveryDayIsBackedUp` |
| `updater` | an update with failing operations and a stop of the machine | `AnInstallationSurvives`, `OneFailureIsRecovered`, `KeptUntilAlive`, `OthersUntouched`, `UpdateEnds` |
| `filling` | both portals, with users and failures in between | `CancelledMeansUntouched`, `VerifiedMeansAgreed`, `NoBlindOverwrite`, `CancelEnds` |
| `claim_intervals` | D026: no overlap, no orphan, no end before start; timers and the recovery of a previous day only | violated: a typed finish time is stored unchecked |
| `claim_net` | "Net work cannot be negative." (`domain/testhuset.py:44`) | violated: two rounded lunches share minutes that are deducted twice |

All properties of the passing runs hold. The two claims are violated:

- `claim_intervals`: the finish time of the previous-day recovery dialog reaches
  `_complete_session` with no other check than that the interval survives rounding.
  The run takes timers and that dialog only; its trace, after an ordinary session from
  1 to 2, starts work at 3 with a rounding of 4 and types a finish at 1, which is stored as a session that ends
  before it starts. With every command allowed TLC finds a second way, as short: a
  lunch entered ahead of the clock stays live under a session that Undo of Start
  deletes.
- `claim_net`: `finish_deduction` rounds each lunch to the nearest boundary on its
  own, and keeps the actual bounds of one that rounding would remove. At 15 minutes,
  work 09:00-09:15 with lunches 09:05-09:08 (rounded to 09:00-09:15) and 09:10-09:13
  (kept) has minus three minutes of net work. `decimal_hours` raises for it, which
  the Timesheet page calls for every day it shows.

Other disagreements with what the repository says, found while modelling and not
kept as runs:

- D023 of `src/DECISIONS.md`: a finish time that has not come yet is accepted by the
  same path; D027: Undo of Finish reopens a session a correction changed meanwhile,
  and discards the correction.
- `src/docs/google-sync-v2.md:39` gives a finish a "30-second publication grace deadline",
  and D104 a synchronisation "following its 30-second Undo window", as if the two ended
  together. They use different clocks: publication waits for 30 seconds after the
  command ran (`application/time_tracking.py:105`), Undo for 30 seconds after the finish
  time, which the recovery dialog may put later (`:927`, `:1030`), and Undo compares
  before its transaction begins (`:1034`). So a finish may be in the Sheet when Undo
  commits; its withdrawal is then published by a later request, and until then another
  device shows the finished session. `WithdrawnTogether` states what does hold: a finish
  that no request had when Undo committed is never seen without its withdrawal.
- D104: a restart within the Undo window leaves the finish to the opening sync, which
  may come before the window is over; a shutdown that is called off discards the
  server's cooldown. `FinishIsNeverForgotten` and `CooldownHonoured` state what holds.
- D036: a restore that fails after the event loop has ended shows a message box, in
  which a job may start that is never joined. `OwnerUsesData` and `RestoreAlone`
  exclude that process by name (`failed = "late"`). A failed restore also leaves its
  restart command behind.
- `ui/settings_page.py:248` advises another copy before a risky change; Back up now
  makes none when the backup of the day has succeeded.
- `infrastructure/testhuset_browser.py:55` says "No hours were changed" also when the
  server confirmed the hours and the page did not come to show them.
- A conflict resolution is published without waiting for the Undo grace of what it
  descends from, and a migration cannot be resumed by a machine whose two
  acknowledgements both reached the ledger (`Readable` in `SyncMigration`).
- A timer that a restored history image ends keeps its notified slot: opened again, it
  is not reminded again. The reminder run leaves history restoration out.

Bounds. Two sessions and two deductions are enough for every pairwise relation the
code looks at (overlap, second running row, sibling deductions). One midnight
separates two days, so a session can be of a previous day, resolved or not.
`MaxTime` 7 leaves room for a session, a lunch in it, a correction, a deletion and a
restoration; `UndoWindow` and `Retention` are crossed inside it. In `day_totals` a
midnight lies on a rounding boundary, as every Copenhagen midnight does
(`AlignmentAssumption`; without it the totals do differ), and a rounding of 4
ticks moves a boundary from either side onto it. `claim_net` needs a finer clock
(6 ticks to the interval, `MaxTime` 12) and only one session.

`automatic_sync`: `Grace` 2, a backoff of 1 capped at 3 and server delays of 0 and 4
make every order of the deadlines possible; one replaced connection makes an old and
a new binding; six user events suffice for a finish, a job, a cancellation, a
replacement and a shutdown. `lifecycle`: two processes make a holder and a contender
or replacement; two controllers and one tracked thread make joined, joining and not
yet joined workers; nothing else is bounded. `sync_devices`: two devices, two records,
two contents and two captured groups over a history that is shared or already
conflicting; `MaxCommands` 2 makes concurrent versions, a finish and its withdrawal,
a version and its descendant, or an edit and a disconnection; one unanswered request at a
time, and jobs, crashes and lost answers without a bound. `migration`: two
machines, two histories, two contents of the V1 tab, two safety copies each.
`backups`: two folders, one backup kept so that pruning happens, two days, one recorded
fact, which is or is not in each copy, and two events of errors, damage or requests: a
restore and one failure in it, or damage and one failure of the recovery. Crashes are not
bounded. `updater`: five failures reach
every fallback. `filling`: two rows, two sessions, two outside changes.
Symmetric sets (sessions, deductions, devices, machines) are reduced only in runs
without liveness.

`CHECK_DEADLOCK FALSE` stands where a bound or the end of what users do stops the
model: the timesheet at `MaxTime`, the others when their events are used up.
`AutomaticSync` and `AppLifecycle` are checked for deadlock.

Fairness. Weak fairness of what the program and Qt do on their own: a timer that ran out
fires, posted events are delivered, time passes, a job or helper goes on (it polls its
cancellation and has a deadline), and the main thread runs on through
`wait_for_shutdown` once its event loop ended. In `Backups` the worker, the poll of the
schedule and the passing of a quarter of an hour are fair. No fairness of users, who
need not close a message box or ever ask for anything, nor of crashes, failures or lost
answers. The update helper waits for its user in a message box: `UpdateEnds` says that
it ends in every behaviour that does not stay in one for ever (`[]<>~Shown` is its
hypothesis, not an assumption of `Spec`), and so that nothing else holds it up, in
particular not an application that does not exit. `SyncDevices`, `SyncMigration` and the
timesheet are checked for safety only: whether a job ever succeeds is up to the network.

## 5. Proofs

All theorems hold for any values of the constants that satisfy the named
assumptions of their modules.

- `TimeTrackingProofs!TypeCorrect`: `TypeOK` is inductive; one lemma per command.
- `TimeTrackingProofs!OneTimerHolds`: `OneTimer` is not inductive, since Undo reopens
  a row it remembers only by identity, and history brings rows back. `SafetyInv` adds
  `Stored`: what every row, history image and the pending gap refer to exists, a
  deduction keeps its parent, and a row that was never created is dead.
  With it each command that opens a row finds no other open one, by its guard or by
  the validation of `_validate_candidate`; every command that ends or deletes a
  session leaves no open lunch behind.
- `TimeTrackingProofs!HistoryKept`: from the same invariant, `HistoryKeepsReplacedRows`.
  Every command records the image of the live row it replaces, or only ends or
  acknowledges a running row, or creates a row under an identity that by `Stored` no
  live row has.
- `TimeTrackingProofs!TimesheetKeptValid`: `CheckedCommandsKeepTimesheetValid`. A valid
  timesheet stays valid as time passes, because two intervals of which one runs can
  only meet if both do (`ValidLater`); `SafetyInv` gives the part about running rows.
  What is left is that the row a command writes stands apart from all sessions
  although it was compared with those of `list_intersecting` only
  (`IntersectingMeets`, `AllowedStandsApart`), and that its deductions stay in it.
- `TimeTrackingProofs!PromisesHold`: `RemindersKeepPromises`. The reminder slots are
  shared by successive timers; `ReminderInv` adds that a slot names a running timer,
  says what was promised to it, and that every promise is still in its slot. One
  `Frame` lemma carries this over all steps that do not touch the slots, since every
  command that ends a timer retires it.
- `TimeTrackingProofs!TotalsAgreeHolds`: `TotalsAgree` of `DayTotals`, for any midnights
  and any number of sessions and lunches.
  Rows are selected by their actual bounds and counted by the effective ones, which
  may lie further out. `TotalsInv` adds to `SafetyInv` that every session is `Placed`:
  a running one has no effective bounds, and those of a completed one reach out across
  no midnight (`RoundUpReaches`, `WorkStartReaches`). So a range that holds a day selects
  every session with a piece in it (`BoundsReach`), and cutting a session to the range
  leaves these pieces whole (`PiecesOfRange`): the views sum the same set
  (`PiecesAgree`, `SegmentsAgree`). The CSV file sums other pieces. A day has one piece
  of a session (`OnePiece`), and the pieces of a lunch on that day are the part of it
  that the session's piece meets (`PauseParts`, `PauseLines`): so the lines of the day
  are those of its sessions, each with what the view deducts from it. The two sums are
  of the same numbers grouped differently (`SumByLines`, `SumByName`), which needs
  finitely many live rows; `FiniteRows` is that part of the invariant. Only this theorem
  uses `AlignmentAssumption`, that a midnight is a boundary of every rounding interval,
  and `RoundingsAssumption`, that one interval is the longest: the settings offer
  finitely many.
- `TimeTrackingProofs!SplitLosesNothing`: what `split_at_local_midnight` promises those
  who call it. `PieceOfInstant` finds the piece of an instant, `OnePieceOfInstant` makes
  it the only one, and the lengths add up instant by instant (`OneInstantMore`).
- `TimeTrackingProofs!SleepExcluded`: `SleepExcludedOnce`, stated next to its proof. The
  parts Exclude sleep fills are the gaps between the lunches it finds: an instant no
  lunch covers is in a part (`FreeIsUncovered`), a covered one in none
  (`UncoveredIsFree`). Nothing is deducted twice (`UncoveredApart`, `OneCovers`) where
  the timesheet was valid, and only there: a running lunch brought back by Undo may
  already overlap one that was typed in meanwhile, and TLC shows that behaviour when
  the hypothesis is dropped.
- `AppLifecycleProofs` (`TypeCorrect`, `OwnerUsesDataHolds`, `RestoreAloneHolds`): for
  any processes and any number of controllers. That no thread works when the lock is
  given up follows from the joins before it, so `IInv` adds `Good`: joined workers
  stay idle unless a restore failed late, none is joined while the event loop runs,
  and a pending backup belongs to a pending request. `OneProcess` lifts a step of one
  process to all. `FirstRequestServedHolds` adds `Served`: the last join finds every
  worker idle, so readiness is announced before the lock is released, and what is
  then done is what was asked first.
- `SyncMigrationProofs` (`NobodyLeft`, `ShownActivated`, `OneLogHolds`): `IInv` says by
  `Prepared` what the steps of a job, at its machine or in a lost request, rely on:
  the seeds on their way cover the frozen rows and every participant. The ledger and
  the log only grow (`Grows`), so what was collected stays enough.
- `UpdaterProofs` (`InstallationSurvives`, `OneFailureRecovered`, `PreviousKept`,
  `OthersKept`): the helper trusts what it remembers of the folders. `Knows` says this
  is still true in each step, also after a message box stood open while others used the
  folders; `InPlace` says when the place may be without an installation.
- `AutomaticSyncProofs` (`TimerMatchesRequestHolds`, `FinishIsKept`, `CooldownKept`):
  for any delays and bounds. The last two are not inductive. `Awaited` says that the
  request of a finish is not before the end of its Undo window, so a request taken
  because it is due leaves no finish behind; `Bound` that a job which still reports
  is of the observed connection; `Cooled` that the delay of the last failure is part
  of the retry delay of that connection.

- `SyncDevicesProofs`: for any devices, records, contents, snapshots and number of
  groups, under `SyncDevicesAssumption` (identifiers are unique, and contents finite).
  `IInv` says that the groups form a graph in which parents come first (`GroupsOK`),
  that every database is good (`DbGood`: a head is an accepted version and the row
  shows it), that a device knows what it wrote and settles what the Sheet has, and
  that a job sends its own and confirms what the Sheet has (`JobOK`). A database has
  every version in sight unless something it stored is unreconciled (`DeviceOK`),
  and then its job is before a reconciliation (`Unread`). `RowsFollowHeads`,
  `VersionsStayInSight`, `SyncedIsPublished`, `SameHistoryAgrees` and
  `NothingOverwritten` follow from it and from `Progress`, what one reconciliation may
  do. `WithdrawnChangesPair` needs more: while Undo offers a finish, nothing of its
  device has a later deadline (`UndoOK`), so a withdrawal inherits at most that of the
  finish it descends from and, since its number is greater, is due in every reading in
  which the finish is; what collects the one collects the other, or finds it in
  the Sheet (`Withdraws`). That holds whenever Undo commits, before or after a deadline.
  `ObsoleteStoresNothing` is about single steps.
- `SyncDevicesProofs!DevicesImplementLog`: `Spec => Log!Spec`; the initial states map to
  initial states, a captured group is a `Write`, an executed request a `Publish`, a read a
  `Learn`, and everything else a stutter. `LogAccounted` is the guarantee of the
  abstract log, `DevicesAccounted` what it says of the devices.
- `BackupsProofs` (`RestoresLoseNothing`, `BackupsWhole`, `SuccessIsABackup`,
  `LiveKeptWhole`): for any folders, days and number of backups kept. `recorded` only
  grows, so `Recoverable`, that it is all in the live database or a safety copy but for
  what damage took, cannot be regained by forgetting. It is kept through a restore by
  `Replaceable`: what is being copied has what the database has once the copy is
  complete, a safety copy has it before the log is dropped, and no log is left when
  the file is swapped. A database takes its own record of the last success with it
  wherever it is copied, so `AllTruthful` speaks of every copy there is. `BackupsWhole`
  is about daily backups: a safety copy may be left incomplete.
- `FillSheetProofs` (`CancelledUntouched`, `VerifiedAgreed`, `NoneBlindlyOverwritten`):
  for any rows, finite sessions (`FillSheetAssumption`) and outside changes. `IInv`
  follows the worker: after the reload the page of Testhuset shows what the server has
  (`Loaded`), while it fills the page shows what was agreed so far (`Shown`), and a
  verified fill left that at the portal (`Verified`), in the rows others left alone.

The auxiliary invariants were checked by TLC on the instances of the runs before they
were proved, and so was `SleepExcludedOnce`. The theorems of the library that take a
predicate cannot be instantiated by the provers, so induction is used in the form of
sets: `UpTo` and `Largest` in `SyncDevicesProofs`, `Least` and `CountsUp` in
`TimeTrackingProofs` for numbers, and `GrowsTo` there for finite sets, on which the
sums of hours rest (`SumUnfolds` is the one step of the library's `FoldFunction`).

Model-checked only: liveness, which is out of the prover's reach (`RequestIsServed`,
`ShutdownDrains`, `ExitCompletes`, `EveryDayIsBackedUp`, `UpdateEnds`, `CancelEnds`);
the two claims, which are false. Every safety invariant of a passing run is proved.

## 6. Not modelled

- Time tracking: saving preferences (any rounding may be in force at any command),
  weekly targets, notes, the lists the editors read, the JSON of history images (kept
  as the row itself), the wording of errors.
- Synchronisation: rows of the Sheet that cannot be read and the quarantine of
  problems, unknown schema versions, enabling a connection again, batches and tab
  layouts, the OAuth sign-in. In `AutomaticSync` what a job does is one
  nondeterministic outcome; it is `SyncDevices` and `SyncMigration` that say what.
- Lifecycle: the exit confirmation (a dialog, then `FinishWork`, then `RequestExit`),
  the focus message to the first instance, the composition of services. The tracked
  threads are one, since they are received and joined alike.
- Backups: safety copies named by the second (taken to be distinct; none is ever
  removed), the cache of the listing, the quarantine of a backup with a newer schema.
- Updater: the release format, links and uninstaller files the helper rejects.
- Slot filling: rounding to quarters, the default allocation, the selectors of the
  pages. DSB does not reload its page before it fills, so `NoBlindOverwrite` speaks of
  Testhuset only.
- Presentation (widgets and dialogs that call the services), logging, paths, startup
  registration, credentials, build and release scripts: no state other components
  depend on, or none that a model could say more about than the code.
