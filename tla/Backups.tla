------------------------------ MODULE Backups ------------------------------
(***************************************************************************)
(* Daily backups, their schedule, and the replacement of the live database *)
(* by a backup (BackupManager, BackupSchedule, BackupController, and the   *)
(* recovery at start).  The worker's steps interleave with the user's, and *)
(* a crash may come between any two file operations.                       *)
(*                                                                         *)
(* A database is what was recorded in it and the settings of the backups,  *)
(* which live in it too and so travel with every copy.  Commits may wait   *)
(* in the write-ahead log while the worker has the database open.  Safety  *)
(* copies, named by the second, are taken to have names of their own; one  *)
(* is written in place, so that a copy cut short leaves a part of itself.  *)
(***************************************************************************)
EXTENDS Naturals, FiniteSets

CONSTANTS Folder, Default,   \* backup folders, the one first configured
          Keep,              \* daily backups kept in a folder
          MaxDay, MaxFacts,  \* bounds: days, things recorded
          MaxEvents          \* bound: errors, damage, and requests of the user

ASSUME BackupsAssumption == Default \in Folder /\ Keep \in Nat \ {0} /\ MaxDay \in Nat \ {0}

VARIABLES file, wal,  \* the live database and its write-ahead log ({} or {database})
          daily,      \* per folder and day, its daily backup ({} or {database})
          safety,     \* safety copies, and what is left of those that were cut short
          draft,      \* the safety copy being made ({} or {database})
          today, events,   \* the bounded counters
          phase,      \* of the process: "off", "open", "closing" and the steps of a restore
          want,       \* why it closes: {} to exit, {backup} to restore that backup
          attempts,   \* BackupSchedule, per folder and day
          job,        \* the worker's backup
          recorded,   \* history: what was ever recorded
          lost        \* history: what was recorded in a file when it was damaged

vars == <<file, wal, daily, safety, draft, today, events, phase, want, attempts, job, recorded, lost>>
stored == <<file, wal>>
saved == <<safety, draft>>
disk == <<stored, daily, saved>>
history == <<recorded, lost>>
world == <<today, events, history>>

Day == 1..MaxDay
Fact == 1..MaxFacts
Database == [facts : SUBSET Fact, folder : Folder, success : 0..MaxDay,
             where : Folder, warned : BOOLEAN, whole : BOOLEAN]
Fresh == [facts |-> {}, folder |-> Default, success |-> 0,
          where |-> Default, warned |-> FALSE, whole |-> TRUE]
Torn == [Fresh EXCEPT !.whole = FALSE]

\* What a connection reads.
Live == IF file.whole THEN CHOOSE d \in wal \cup {file} : wal # {} => d \in wal ELSE Torn

Idle == [at |-> "idle", where |-> Default, day |-> 0, copy |-> {},
         made |-> FALSE, raised |-> FALSE, cancelled |-> FALSE]
At(step) == job.at = step
Go(step) == job' = [job EXCEPT !.at = step]
Unused == [f \in Folder |-> [d \in Day |-> "none"]]

Event == events < MaxEvents /\ events' = events + 1

\* The last connection to close moves the log into the file; the worker holds one
\* open while it copies.
Commit(d) ==
    IF At("copy") THEN wal' = {d} /\ UNCHANGED file ELSE file' = d /\ wal' = {}
Checkpoint == file' = Live /\ wal' = {}

Valid(copy) == copy.whole
HasDaily(f, d) == \E copy \in daily[f][d] : Valid(copy)

\* The days of the valid backups.  Jobs follow one another and take their days in
\* order, so that the newest file is that of the latest day.
ValidIn(f) == {d \in Day : HasDaily(f, d)}
Newer(f, d) == {e \in ValidIn(f) : e > d}

\* Those of the folder of the settings, to choose from.
Listed == {[folder |-> Live.folder, day |-> d] : d \in ValidIn(Live.folder)}

----------------------------------------------------------------------------
(* The schedule and the controller. *)

\* Seeded fault: a day is tried once, whatever came of it.
QuarterPasses_Never == attempts[Live.folder][today] = "failed" /\ FALSE /\ UNCHANGED vars

\* Fifteen minutes after a failed attempt, it is as if there had been none.
QuarterPasses ==
    /\ phase = "open"
    /\ attempts[Live.folder][today] = "failed"
    /\ attempts' = [attempts EXCEPT ![Live.folder][today] = "none"]
    /\ UNCHANGED <<disk, world, phase, want, job>>

Due(f) == attempts[f][today] = "none"

\* request_backup, for the captured folder and day.
Requested(f) == [Idle EXCEPT !.at = "check", !.where = f, !.day = today]

Request(forced) ==
    /\ phase = "open"
    /\ At("idle")
    /\ forced \/ Due(Live.folder)
    /\ job' = Requested(Live.folder)
    /\ IF forced THEN Event ELSE UNCHANGED events
    /\ UNCHANGED <<disk, today, history, phase, want, attempts>>

Poll == Request(FALSE)
BackUpNow == Request(TRUE)

SetFolder(f) == Commit([Live EXCEPT !.folder = f])

\* A poll follows.
ChooseFolder(f) ==
    /\ phase = "open"
    /\ f # Live.folder
    /\ Event
    /\ SetFolder(f)
    /\ job' = IF At("idle") /\ Due(f) THEN Requested(f) ELSE job
    /\ UNCHANGED <<daily, saved, today, history, phase, want, attempts>>

----------------------------------------------------------------------------
(* ensure_daily_backup, on the worker. *)

Check ==
    /\ At("check")
    /\ Go(IF Live.success = job.day /\ Live.where = job.where /\ ~Live.warned
          THEN "report" ELSE "copy")
    /\ UNCHANGED <<disk, world, phase, want, attempts>>

Written(f, d, copy) == [daily EXCEPT ![f] = [@ EXCEPT ![d] = {copy}]]

\* Seeded fault: the copy is written over the backup of the day.
Copy_InPlace ==
    /\ At("copy") /\ ~job.cancelled
    /\ job' = [job EXCEPT !.at = "replace", !.copy = {Live}]
    /\ Checkpoint
    /\ daily' = Written(job.where, job.day, Torn)
    /\ UNCHANGED <<saved, world, phase, want, attempts>>

\* A consistent copy in a temporary file; then the worker closes the database.
Copy ==
    /\ At("copy") /\ ~job.cancelled
    /\ job' = [job EXCEPT !.at = "replace", !.copy = {Live}]
    /\ Checkpoint
    /\ UNCHANGED <<daily, saved, world, phase, want, attempts>>

\* The verified copy becomes the backup of the day at once.
Replace ==
    /\ At("replace") /\ ~job.cancelled
    /\ \E copy \in job.copy : daily' = Written(job.where, job.day, copy)
    /\ Go("retain")
    /\ UNCHANGED <<stored, saved, world, phase, want, attempts>>

Retain ==
    /\ At("retain")
    /\ daily' = [daily EXCEPT ![job.where] =
                    [d \in Day |-> {copy \in @[d] : Valid(copy) => Cardinality(Newer(job.where, d)) < Keep}]]
    /\ job' = [job EXCEPT !.at = "confirm", !.made = TRUE]
    /\ UNCHANGED <<stored, saved, world, phase, want, attempts>>

\* Storage, a time limit or the cancellation ends the copying.
Fail ==
    /\ \/ job.cancelled /\ job.at \in {"copy", "replace"} /\ UNCHANGED events
       \/ /\ job.at \in {"copy", "replace", "retain"}
          /\ Event
    /\ Go("confirm")
    /\ IF At("copy") THEN Checkpoint ELSE UNCHANGED stored
    /\ UNCHANGED <<daily, saved, today, history, phase, want, attempts>>

\* A database error that nothing in the worker handles.
Raise ==
    /\ job.at \in {"check", "confirm", "settle"}
    /\ Event
    /\ job' = [job EXCEPT !.at = "report", !.raised = TRUE]
    /\ UNCHANGED <<disk, today, history, phase, want, attempts>>

\* Seeded fault: the result is recorded for whatever is configured by now.
Confirm_Anyway ==
    /\ At("confirm")
    /\ job' = [job EXCEPT !.at = "settle", !.where = Live.folder, !.day = today]
    /\ UNCHANGED <<disk, world, phase, want, attempts>>

\* The result is about the folder, and a success about the day, of the job.
Confirm ==
    /\ At("confirm")
    /\ Go(IF Live.folder = job.where /\ (job.made => today = job.day) THEN "settle" ELSE "report")
    /\ UNCHANGED <<disk, world, phase, want, attempts>>

\* _clear_warning or _set_warning.
Settle ==
    /\ At("settle")
    /\ Commit(IF job.made
              THEN [Live EXCEPT !.success = job.day, !.where = job.where, !.warned = FALSE]
              ELSE [Live EXCEPT !.warned = TRUE])
    /\ Go("report")
    /\ UNCHANGED <<daily, saved, world, phase, want, attempts>>

\* The result reaches the schedule unless the controller is closing.
Succeeded == ~job.raised /\ ~job.cancelled /\ (job.made \/ HasDaily(job.where, job.day))
RecordAttempt(f, d) ==
    attempts' = [attempts EXCEPT ![f][d] = IF Succeeded THEN "done" ELSE "failed"]
Report ==
    /\ At("report")
    /\ IF phase = "open" THEN RecordAttempt(job.where, job.day) ELSE UNCHANGED attempts
    /\ job' = Idle
    /\ UNCHANGED <<disk, world, phase, want>>

Worker == \/ Check \/ Copy \/ Replace \/ Retain \/ Fail \/ Raise
          \/ Confirm \/ Settle \/ Report

----------------------------------------------------------------------------
(* The process, and the replacement of its database. *)

\* build_runtime opens the database, which brings its log into the file.
Start ==
    /\ phase = "off"
    /\ Live.whole
    /\ Checkpoint
    /\ phase' = "open"
    /\ UNCHANGED <<daily, saved, world, want, attempts, job>>

\* An unreadable database is replaced by the newest backup of the default folder.
Recover ==
    /\ phase = "off"
    /\ ~Live.whole
    /\ phase' = "recover"
    /\ \E d \in ValidIn(Default) :
         Newer(Default, d) = {} /\ want' = {[folder |-> Default, day |-> d]}
    /\ UNCHANGED <<disk, world, attempts, job>>

\* Nothing is recorded from here on, and the worker is told to stop.
BeginShutdown(backup) ==
    /\ phase = "open"
    /\ phase' = "closing"
    /\ want' = backup
    /\ job' = IF At("idle") THEN job ELSE [job EXCEPT !.cancelled = TRUE]
    /\ UNCHANGED <<disk, today, history, attempts>>

RequestExit == BeginShutdown({}) /\ UNCHANGED events
RequestRestore(backup) == backup \in Listed /\ BeginShutdown({backup}) /\ Event

Off(live, log) ==
    /\ phase' = "off" /\ want' = {} /\ attempts' = Unused /\ job' = Idle
    /\ file' = live /\ wal' = log

Exit ==
    /\ phase = "closing" /\ At("idle") /\ want = {}
    /\ Off(file, wal)
    /\ UNCHANGED <<daily, saved, world>>

\* A restore that cannot go on leaves the application open.
Resume == phase' = "open" /\ want' = {} /\ UNCHANGED <<attempts, job>>

\* A recovery that cannot ends the process, which has no database to go on with.
Recovering == phase = "recover" \/ (phase \in {"drop", "swap"} /\ ~file.whole)
Refuse == IF Recovering THEN Off(file, wal) ELSE Resume /\ UNCHANGED stored

\* The selected backup cannot be read any more, or a file cannot be staged, removed
\* or replaced.
CannotGoOn ==
    /\ \/ phase = "closing" /\ At("idle") /\ want # {}
       \/ phase \in {"stage", "recover", "drop", "swap"}
    /\ \/ /\ phase \in {"closing", "stage", "recover"}
          /\ \E b \in want : ~HasDaily(b.folder, b.day)
          /\ UNCHANGED events
       \/ Event
    /\ Refuse
    /\ UNCHANGED <<daily, saved, today, history>>

\* _create_safety_backup opens a file of the final name and copies into it.
BeginSafety ==
    /\ phase = "closing" /\ At("idle")
    /\ \E b \in want : HasDaily(b.folder, b.day)
    /\ draft' = {Torn}
    /\ phase' = "safety"
    /\ UNCHANGED <<stored, daily, safety, world, want, attempts, job>>

\* The copy is complete; its connection is the last one to close.
FinishSafety ==
    /\ phase = "safety"
    /\ draft' = {Live}
    /\ Checkpoint
    /\ phase' = "verify"
    /\ UNCHANGED <<daily, safety, world, want, attempts, job>>

KeepSafety ==
    /\ phase = "verify"
    /\ safety' = safety \cup draft /\ draft' = {}
    /\ phase' = "stage"
    /\ UNCHANGED <<stored, daily, world, want, attempts, job>>

\* Seeded fault: a copy that failed is taken for a safety copy.
SafetyFails_GoesOn ==
    /\ phase \in {"safety", "verify"}
    /\ Event
    /\ safety' \in {safety, safety \cup draft} /\ draft' = {}
    /\ IF phase = "safety" THEN Checkpoint ELSE UNCHANGED stored
    /\ phase' = "stage"
    /\ UNCHANGED <<daily, today, history, want, attempts, job>>

\* Storage or the time limit ends the copying, or the copy is not verified: part of
\* it stays, unless it was not created yet or is removed.
SafetyFails ==
    /\ phase \in {"safety", "verify"}
    /\ Event
    /\ safety' \in {safety, safety \cup draft} /\ draft' = {}
    /\ IF phase = "safety" THEN Checkpoint ELSE UNCHANGED stored
    /\ Resume
    /\ UNCHANGED <<daily, today, history>>

\* The staged copy is verified; what is staged is the selected backup.
Stage ==
    /\ phase = "stage"
    /\ \E b \in want : HasDaily(b.folder, b.day)
    /\ phase' = "drop"
    /\ UNCHANGED <<disk, world, want, attempts, job>>

\* replace_unreadable_database does the same.
StageRecovery ==
    /\ phase = "recover"
    /\ \E b \in want : HasDaily(b.folder, b.day)
    /\ phase' = "drop"
    /\ UNCHANGED <<disk, world, want, attempts, job>>

\* Seeded fault: the old write-ahead log is left in place.
DropLog_Kept ==
    /\ phase = "drop"
    /\ phase' = "swap"
    /\ UNCHANGED <<disk, world, want, attempts, job>>

DropLog ==
    /\ phase = "drop"
    /\ wal' = {}
    /\ phase' = "swap"
    /\ UNCHANGED <<file, daily, saved, world, want, attempts, job>>

\* os.replace, then the application starts again.  A log of the old file would be
\* taken for one of the new.
Swap ==
    /\ phase = "swap"
    /\ \E b \in want : \E copy \in daily[b.folder][b.day] :
         Off(IF wal = {} THEN copy ELSE Torn, {})
    /\ UNCHANGED <<daily, saved, world>>

\* What was being copied stays as far as it came.
Crash ==
    /\ phase # "off"
    /\ Off(file, wal)
    /\ safety' = safety \cup draft /\ draft' = {}
    /\ UNCHANGED <<daily, world>>

----------------------------------------------------------------------------
(* The user and the world. *)

\* The next thing to record.
Record ==
    /\ phase = "open"
    /\ \E n \in Fact \ recorded :
         /\ \A m \in Fact \ recorded : n <= m
         /\ Commit([Live EXCEPT !.facts = @ \cup {n}])
         /\ recorded' = recorded \cup {n}
    /\ UNCHANGED <<daily, saved, today, events, lost, phase, want, attempts, job>>

NextDay ==
    /\ today < MaxDay
    /\ today' = today + 1
    /\ UNCHANGED <<disk, events, history, phase, want, attempts, job>>

\* The file of a closed application is damaged.
Damage ==
    /\ phase = "off" /\ Live.whole
    /\ Event
    /\ lost' = lost \cup Live.facts
    /\ file' = Torn
    /\ UNCHANGED <<wal, daily, saved, today, recorded, phase, want, attempts, job>>

Init ==
    /\ file = Fresh /\ wal = {}
    /\ daily = [f \in Folder |-> [d \in Day |-> {}]]
    /\ safety = {} /\ draft = {}
    /\ today = 1 /\ events = 0 /\ recorded = {} /\ lost = {}
    /\ phase = "off" /\ want = {} /\ attempts = Unused /\ job = Idle

Next ==
    \/ Poll \/ BackUpNow \/ QuarterPasses \/ Worker
    \/ \E f \in Folder : ChooseFolder(f)
    \/ RequestExit \/ \E b \in Listed : RequestRestore(b)
    \/ Start \/ Recover \/ Exit \/ CannotGoOn
    \/ BeginSafety \/ FinishSafety \/ KeepSafety \/ SafetyFails \/ Stage \/ StageRecovery
    \/ DropLog \/ Swap \/ Crash
    \/ Record \/ NextDay \/ Damage

\* The polling timer, the worker and time go on.
Fairness == WF_vars(Poll) /\ WF_vars(Worker) /\ WF_vars(QuarterPasses)
Spec == Init /\ [][Next]_vars /\ Fairness

----------------------------------------------------------------------------
(* Properties. *)

Copies == UNION {daily[f][d] : f \in Folder, d \in Day}
FactsOf(copies) == UNION {c.facts : c \in copies}

\* Nothing the program does, cut short anywhere, makes the live database unreadable,
\* and what a restore or a recovery puts in its place can be read (restore,
\* replace_unreadable_database).
LiveStaysWhole ==
    [][/\ Live.whole /\ ~Live'.whole => phase = "off" /\ Live.facts \subseteq lost'
       /\ Swap => Live'.whole]_vars

\* Restoring loses nothing: whatever was ever recorded is in the live database or in
\* a safety copy, apart from what a damaged file took with it, whether the copy, its
\* verification, the staging or the replacement fails or is cut short (restore,
\* _create_safety_backup).
RestoreLosesNothing == recorded \ lost \subseteq Live.facts \cup FactsOf(safety)

\* A backup that fails, is cancelled or is cut short by a crash leaves the backups
\* there were: every daily backup can be read (_create_daily_backup).
BackupsAreWhole == \A copy \in Copies : copy.whole

\* What the settings call today's success is a backup of today in the folder they
\* name, also after a change of folder, of day, and of the whole database
\* (ensure_daily_backup).
SuccessMeansBackup ==
    phase = "open" /\ Live.success = today /\ Live.where = Live.folder /\ ~Live.warned
        => HasDaily(Live.folder, today)

\* An application that stays open gets a backup of the day in the configured
\* folder, whatever failed before: failed attempts are repeated, and neither a
\* change of folder nor midnight is mistaken for a success.
EveryDayIsBackedUp ==
    <>[](phase = "open") => <>[]HasDaily(Live.folder, today)
=============================================================================
