---------------------------- MODULE TimeTracking ----------------------------
(***************************************************************************)
(* The time-tracking service (qi_flow.application.time_tracking): the      *)
(* timers behind Start work, Start/End lunch, Finish work and their        *)
(* 30-second Undo; manual entries and corrections; soft deletion and the   *)
(* 30-day history; previous-day recovery; sleep intervals; reminders.      *)
(*                                                                         *)
(* Every public command opens one SQLite transaction and commits it before *)
(* it returns, and all commands run on the Qt main thread, so a command is *)
(* one action.  A command that raises leaves the database unchanged and is *)
(* not a step.  No two commands read the same clock value: each happens at *)
(* Now, one tick after the previous one, and Idle lets time pass.  The     *)
(* unique indexes of migration 0001 are left out on purpose: OneTimer says *)
(* that the service never relies on them.                                  *)
(***************************************************************************)
EXTENDS IntervalValidation, FiniteSets

CONSTANTS
    SessionIds, DeductionIds,   \* identities the generator may hand out
    NoId,             \* no identity: an empty reference
    Kinds,            \* deduction kinds the user enters
    Roundings,        \* values the rounding preference takes
    UndoWindow,       \* the 30 seconds of can_undo_timer_action
    Retention,        \* the 30 days an audit entry is kept
    SleepThreshold,   \* sleep_threshold_seconds
    WorkThreshold, LunchThreshold,   \* reminder settings
    Snoozes,          \* lengths a reminder may be snoozed for
    TypedTimes,       \* bound of the model: the instants a user types into a form
    MaxTime           \* bound of the model: no command after this instant

ASSUME TimeTrackingAssumption ==
    /\ SessionIds \cap DeductionIds = {} /\ NoId \notin SessionIds \cup DeductionIds
    /\ Kinds \subseteq {"lunch", "sleep_break"}
    /\ Roundings \subseteq Nat \ {0}
    /\ UndoWindow \in Nat /\ Retention \in Nat /\ SleepThreshold \in Nat
    /\ WorkThreshold \in Nat /\ LunchThreshold \in Nat
    /\ Snoozes \subseteq Nat /\ MaxTime \in Nat /\ TypedTimes \subseteq Nat
    /\ IsFiniteSet(Midnights)

VARIABLES
    clock,       \* instant of the last command
    sessions,    \* table work_sessions
    deductions,  \* table deductions
    days,        \* table day_details: the location chosen for each day
    audit,       \* table audit_entries: before-images of corrected rows
    gap,         \* setting pending_sleep_gap
    notified,    \* settings reminder_notified_work, reminder_notified_lunch
    snoozed,     \* settings reminder_snooze_work, reminder_snooze_lunch
    undo         \* _undo_action, kept in memory only

reminders == <<notified, snoozed>>
vars == <<clock, sessions, deductions, days, audit, gap, reminders, undo>>

Instants == 0..MaxTime
Now == clock + 1

\* Rows no command created yet.
NoSession == [start |-> NoTime, end |-> NoTime, dead |-> TRUE, ack |-> FALSE,
              rounding |-> 1, source |-> "timer"]
NoDeduction == [parent |-> NoId, kind |-> "lunch", start |-> NoTime, end |-> NoTime,
                dead |-> TRUE]
NoUndo   == [kind |-> "none", of |-> NoId, at |-> NoTime]
NoGap    == [of |-> NoId, start |-> NoTime, end |-> NoTime]
NoSnooze == [of |-> NoId, until |-> NoTime]

DayOf(t) == Cardinality({m \in Midnights : m <= t})
Days == 0..Cardinality(Midnights)
-----------------------------------------------------------------------------
(* What a command reads. *)

Known(rows) == {x \in DOMAIN rows : rows[x].start # NoTime}
Running == {s \in SessionIds : IsOpen(sessions[s])}
ChildrenOf(s) == {d \in DeductionIds : deductions[d].parent = s}
RunningIn(s) == {d \in ChildrenOf(s) : IsOpen(deductions[d])}

\* The unfinished session of a previous day blocks its timers until resolved.
Blocked(s) == BeganOnPreviousDay(sessions[s].start, Now) /\ ~sessions[s].ack

\* list_intersecting: live sessions that meet [from, to).
Intersecting(from, to) ==
    {s \in Live(sessions) : /\ sessions[s].start < to
                            /\ sessions[s].end = NoTime \/ sessions[s].end > from}

\* Seeded fault: an entry that runs is not compared with the running session.
SessionAllowed_NotRunning(s, row) ==
    LET others == Intersecting(row.start, EndAsOf(row, Now)) \ {s}
    IN ValidIntervals([x \in {s} |-> row], [d \in ChildrenOf(s) |-> deductions[d]], Now)
       /\ \A x \in others : ~IsOpen(sessions[x]) => ~Overlap(sessions[x], row, Now)

\* _validate_candidate for a session: against the sessions it meets, the other
\* running session when it would run itself, and its own deductions.
SessionAllowed(s, row) ==
    LET others == (Intersecting(row.start, EndAsOf(row, Now))
                   \cup (IF IsOpen(row) THEN Running ELSE {})) \ {s}
    IN /\ Readable(row)
       /\ IsOpen(row) => \A x \in SessionIds : Readable(sessions[x])
       /\ ValidIntervals([x \in others \cup {s} |-> IF x = s THEN row ELSE sessions[x]],
                         [d \in ChildrenOf(s) |-> deductions[d]], Now)

\* _validate_candidate for a deduction: against its parent and its siblings.
DeductionAllowed(d, row) ==
    /\ Readable(sessions[row.parent])
    /\ ValidIntervals([x \in {row.parent} |-> sessions[x]],
                      [e \in ChildrenOf(row.parent) |->
                          IF e = d THEN row ELSE deductions[e]], Now)

\* Seeded fault: siblings are not looked at.
Fits_NoSiblings(s, from, to) ==
    sessions[s].start <= from /\ (sessions[s].end # NoTime => to <= sessions[s].end)

\* _ensure_deduction_fits: a completed interval in a session that may run on.
Fits(s, from, to) ==
    /\ sessions[s].start <= from
    /\ sessions[s].end # NoTime => to <= sessions[s].end
    /\ \A d \in ChildrenOf(s) \cap Live(deductions) :
          \/ to <= deductions[d].start
          \/ deductions[d].end # NoTime /\ deductions[d].end <= from

\* The parts of the pending sleep interval that no live deduction covers.
Covering == {d \in ChildrenOf(gap.of) \cap Live(deductions) :
                deductions[d].start < gap.end /\ EndAsOf(deductions[d], Now) > gap.start}
Uncovered ==
    {u \in ({gap.start} \cup {EndAsOf(deductions[d], Now) : d \in Covering})
           \X ({gap.end} \cup {deductions[d].start : d \in Covering}) :
        /\ gap.start <= u[1] /\ u[1] < u[2] /\ u[2] <= gap.end
        /\ \A d \in Covering :
              u[2] <= deductions[d].start \/ EndAsOf(deductions[d], Now) <= u[1]}
-----------------------------------------------------------------------------
(* What a command writes. *)

\* A command takes place at the next instant, within the model's bound on time.
Elapse == clock < MaxTime /\ clock' = Now

PutSession(s, row) == sessions' = [sessions EXCEPT ![s] = row]
PutDeduction(d, row) == deductions' = [deductions EXCEPT ![d] = row]

Image(x, row) == [of |-> x, row |-> row, at |-> Now]
RecordAudit(images) == audit' = audit \cup images

\* _retire_reminder, for every timer in S.
Retire(S) ==
    /\ notified' = [k \in {"work", "lunch"} |-> IF notified[k] \in S THEN NoId ELSE notified[k]]
    /\ snoozed' = [k \in {"work", "lunch"} |->
                      IF snoozed[k].of \in S THEN NoSnooze ELSE snoozed[k]]

\* _copy_office_context: later dates the interval touches, unless they have one.
CopyOfficeContext(from, to) ==
    days' = [d \in Days |->
               IF /\ days[DayOf(from)] # "unset" /\ days[d] = "unset"
                  /\ DayOf(from) < d /\ d <= DayOf(to)
               THEN days[DayOf(from)] ELSE days[d]]

\* Seeded fault: the deductions deleted with their session leave no image.
Delete_NoChildImages(s) ==
    LET children == ChildrenOf(s) \cap Live(deductions)
    IN /\ PutSession(s, [sessions[s] EXCEPT !.dead = TRUE])
       /\ deductions' = [d \in DeductionIds |->
             IF d \in children THEN [deductions[d] EXCEPT !.dead = TRUE] ELSE deductions[d]]
       /\ RecordAudit({Image(s, sessions[s])})
       /\ Retire({s} \cup children)

\* Soft deletion of a session and of its live deductions, each with its image.
Delete(s) ==
    LET children == ChildrenOf(s) \cap Live(deductions)
    IN /\ PutSession(s, [sessions[s] EXCEPT !.dead = TRUE])
       /\ deductions' = [d \in DeductionIds |->
             IF d \in children THEN [deductions[d] EXCEPT !.dead = TRUE] ELSE deductions[d]]
       /\ RecordAudit({Image(s, sessions[s])} \cup {Image(d, deductions[d]) : d \in children})
       /\ Retire({s} \cup children)
-----------------------------------------------------------------------------
(* The timers. *)

\* Seeded fault: "no rounding" is stored as a rounding of zero.
NewSession_ZeroRounding(start, rounding, source) ==
    [NoSession EXCEPT !.start = start, !.dead = FALSE,
                      !.rounding = IF source = "manual" THEN 0 ELSE rounding, !.source = source]

NewSession(start, rounding, source) ==
    [NoSession EXCEPT !.start = start, !.dead = FALSE, !.rounding = rounding, !.source = source]

StartWork(s) ==
    /\ Elapse
    /\ s \notin Known(sessions) /\ Running = {}
    /\ \E r \in Roundings : PutSession(s, NewSession(Now, r, "timer"))
    /\ undo' = [kind |-> "start", of |-> s, at |-> Now]
    /\ UNCHANGED <<deductions, days, audit, gap, reminders>>

StartWorkAt(s, start) ==
    /\ Elapse
    /\ start <= Now /\ gap = NoGap
    /\ s \notin Known(sessions) /\ Running = {}
    /\ Intersecting(start, Now) = {}
    /\ PutSession(s, NewSession(start, 1, "manual"))
    /\ undo' = [kind |-> "start", of |-> s, at |-> Now]
    /\ UNCHANGED <<deductions, days, audit, gap, reminders>>

\* finish_work and the sync request it signals (AutomaticSync!WorkFinished).
\* The finish time is now, or the one typed in the previous-day recovery
\* dialog, which is checked only for surviving the rounding.
FinishWork(s, at) ==
    /\ Elapse
    /\ gap = NoGap
    /\ s \in Running /\ RunningIn(s) = {}
    /\ at = Now \/ Blocked(s)
    /\ WorkSurvivesRounding(sessions[s].start, at, sessions[s].rounding)
    /\ PutSession(s, [sessions[s] EXCEPT !.end = at])
    /\ Retire({s})
    /\ CopyOfficeContext(sessions[s].start, at)
    /\ undo' = [kind |-> "finish", of |-> s, at |-> at]
    /\ UNCHANGED <<deductions, audit, gap>>

StartDeduction(s, d) ==
    /\ Elapse
    /\ gap = NoGap
    /\ s \in Running /\ ~Blocked(s) /\ RunningIn(s) = {}
    /\ d \notin Known(deductions)
    /\ \E k \in Kinds :
          PutDeduction(d, [NoDeduction EXCEPT !.parent = s, !.kind = k, !.start = Now,
                                              !.dead = FALSE])
    /\ undo' = [kind |-> "start_deduction", of |-> d, at |-> Now]
    /\ UNCHANGED <<sessions, days, audit, gap, reminders>>

FinishDeduction(s, d) ==
    /\ Elapse
    /\ gap = NoGap
    /\ s \in Running /\ ~Blocked(s) /\ d \in RunningIn(s)
    /\ PutDeduction(d, [deductions[d] EXCEPT !.end = Now])
    /\ Retire({d})
    /\ undo' = [kind |-> "finish_deduction", of |-> d, at |-> Now]
    /\ UNCHANGED <<sessions, days, audit, gap>>

\* undo_last_timer_action: the row goes back to what it was before the timer
\* action, without being validated and without an audit image.
UndoStart(s) ==
    /\ undo.kind = "start" /\ undo.of = s
    /\ s \in Running /\ RunningIn(s) = {}
    /\ PutSession(s, [sessions[s] EXCEPT !.dead = TRUE])
    /\ Retire({s})
    /\ UNCHANGED deductions

UndoFinish(s) ==
    /\ undo.kind = "finish" /\ undo.of = s
    /\ Readable(sessions[s]) /\ Running = {}
    /\ PutSession(s, [sessions[s] EXCEPT !.end = NoTime])
    /\ UNCHANGED <<deductions, reminders>>

UndoStartDeduction(d) ==
    /\ undo.kind = "start_deduction" /\ undo.of = d
    /\ deductions[d].parent \in Running /\ IsOpen(deductions[d])
    /\ PutDeduction(d, [deductions[d] EXCEPT !.dead = TRUE])
    /\ Retire({d})
    /\ UNCHANGED sessions

UndoFinishDeduction(d) ==
    /\ undo.kind = "finish_deduction" /\ undo.of = d
    /\ deductions[d].parent \in Running /\ RunningIn(deductions[d].parent) = {}
    /\ deductions[d].end # NoTime
    /\ PutDeduction(d, [deductions[d] EXCEPT !.end = NoTime])
    /\ UNCHANGED <<sessions, reminders>>

UndoTimerAction ==
    /\ Elapse
    /\ undo # NoUndo /\ Now - undo.at <= UndoWindow
    /\ \/ \E s \in SessionIds : UndoStart(s) \/ UndoFinish(s)
       \/ \E d \in DeductionIds : UndoStartDeduction(d) \/ UndoFinishDeduction(d)
    /\ undo' = NoUndo
    /\ UNCHANGED <<days, audit, gap>>

\* Asked for too late, or the process ended: the action is forgotten.
ForgetUndo ==
    /\ Elapse
    /\ undo # NoUndo /\ Now - undo.at > UndoWindow
    /\ undo' = NoUndo
    /\ UNCHANGED <<sessions, deductions, days, audit, gap, reminders>>

Restart ==
    /\ Elapse
    /\ undo' = NoUndo
    /\ UNCHANGED <<sessions, deductions, days, audit, gap, reminders>>
-----------------------------------------------------------------------------
(* Resolving ambiguous time: an unfinished previous day, a sleep interval. *)

ContinueRecovery(s) ==
    /\ Elapse
    /\ s \in Running
    /\ PutSession(s, [sessions[s] EXCEPT !.ack = TRUE])
    /\ UNCHANGED <<deductions, days, audit, gap, reminders, undo>>

DeleteRecovery(s) ==
    /\ Elapse
    /\ s \in Running
    /\ Delete(s)
    /\ UNCHANGED <<days, gap, undo>>

\* The Today page was last awake at "awake" and polls again now.
DetectSleepGap(s, awake) ==
    /\ Elapse
    /\ s \in Running /\ gap = NoGap
    /\ LET from == IF awake < sessions[s].start THEN sessions[s].start ELSE awake
       IN /\ Now - from > SleepThreshold
          /\ gap' = [of |-> s, start |-> from, end |-> Now]
    /\ UNCHANGED <<sessions, deductions, days, audit, reminders, undo>>

IncludeSleep ==
    /\ Elapse
    /\ gap # NoGap /\ gap' = NoGap
    /\ UNCHANGED <<sessions, deductions, days, audit, reminders, undo>>

\* Every uncovered part becomes a sleep break under an identity of its own.
ExcludeSleep ==
    /\ Elapse
    /\ gap # NoGap /\ gap' = NoGap
    /\ Readable(sessions[gap.of]) /\ ~sessions[gap.of].dead
    /\ \E id \in [Uncovered -> DeductionIds \ Known(deductions)] :
          /\ \A u, v \in Uncovered : u # v => id[u] # id[v]
          /\ deductions' = [d \in DeductionIds |->
                IF \E u \in Uncovered : id[u] = d
                THEN LET u == CHOOSE u \in Uncovered : id[u] = d
                     IN [parent |-> gap.of, kind |-> "sleep_break",
                         start |-> u[1], end |-> u[2], dead |-> FALSE]
                ELSE deductions[d]]
    /\ UNCHANGED <<sessions, days, audit, reminders, undo>>
-----------------------------------------------------------------------------
(* Manual entries and corrections: exact bounds, never in the future. *)

CompletedTimes(from, to) == from < to /\ to <= Now

AddManualSession(s, from, to) ==
    /\ Elapse
    /\ CompletedTimes(from, to)
    /\ s \notin Known(sessions) /\ Intersecting(from, to) = {}
    /\ PutSession(s, [NewSession(from, 1, "manual") EXCEPT !.end = to])
    /\ CopyOfficeContext(from, to)
    /\ UNCHANGED <<deductions, audit, gap, reminders, undo>>

UpdateWorkSession(s, from, to) ==
    LET row == [sessions[s] EXCEPT !.start = from, !.end = to, !.source = "manual"]
    IN /\ Elapse
       /\ CompletedTimes(from, to)
       /\ s \in Live(sessions) \ Running /\ Readable(sessions[s])
       /\ SessionAllowed(s, row)
       /\ PutSession(s, row)
       /\ RecordAudit({Image(s, sessions[s])})
       /\ CopyOfficeContext(from, to)
       /\ UNCHANGED <<deductions, gap, reminders, undo>>

UpdateActiveWorkStart(s, from) ==
    LET row == [sessions[s] EXCEPT !.start = from, !.rounding = 1, !.source = "manual"]
    IN /\ Elapse
       /\ gap = NoGap /\ from < Now
       /\ s \in Running /\ ~Blocked(s)
       /\ SessionAllowed(s, row)
       /\ PutSession(s, row)
       /\ RecordAudit({Image(s, sessions[s])})
       /\ UNCHANGED <<deductions, days, gap, reminders, undo>>

AddManualDeduction(s, d, from, to) ==
    /\ Elapse
    /\ CompletedTimes(from, to)
    /\ s \in Live(sessions) /\ Fits(s, from, to)
    /\ d \notin Known(deductions)
    /\ \E k \in Kinds : PutDeduction(d, [parent |-> s, kind |-> k, start |-> from, end |-> to,
                                         dead |-> FALSE])
    /\ UNCHANGED <<sessions, days, audit, gap, reminders, undo>>

UpdateDeduction(d, from, to) ==
    LET row == [deductions[d] EXCEPT !.start = from, !.end = to]
    IN /\ Elapse
       /\ CompletedTimes(from, to)
       /\ d \in Live(deductions) /\ ~IsOpen(deductions[d])
       /\ deductions[d].parent \in Live(sessions)
       /\ DeductionAllowed(d, row)
       /\ PutDeduction(d, row)
       /\ RecordAudit({Image(d, deductions[d])})
       /\ UNCHANGED <<sessions, days, gap, reminders, undo>>

DeleteWorkSession(s) ==
    /\ Elapse
    /\ s \in Live(sessions) /\ Readable(sessions[s])
    /\ Delete(s)
    /\ UNCHANGED <<days, gap, undo>>

DeleteDeduction(d) ==
    /\ Elapse
    /\ d \in Live(deductions)
    /\ PutDeduction(d, [deductions[d] EXCEPT !.dead = TRUE])
    /\ RecordAudit({Image(d, deductions[d])})
    /\ Retire({d})
    /\ UNCHANGED <<sessions, days, gap, undo>>

\* A before-image becomes the row again, and the replaced row an image.
RestoreImage(entry) ==
    /\ Elapse
    /\ \/ /\ entry.of \in SessionIds
          /\ Readable(sessions[entry.of])
          /\ SessionAllowed(entry.of, entry.row)
          /\ PutSession(entry.of, entry.row)
          /\ RecordAudit({Image(entry.of, sessions[entry.of])})
          /\ UNCHANGED deductions
       \/ /\ entry.of \in DeductionIds
          /\ DeductionAllowed(entry.of, entry.row)
          /\ PutDeduction(entry.of, entry.row)
          /\ RecordAudit({Image(entry.of, deductions[entry.of])})
          /\ UNCHANGED sessions
    /\ UNCHANGED <<days, gap, reminders, undo>>

RestoreHistoryEntry(entry) ==
    /\ entry \in audit /\ Now < entry.at + Retention
    /\ entry.of \in DeductionIds => deductions[entry.of].parent \in Live(sessions)
    /\ RestoreImage(entry)

\* restore_work_session and restore_deduction: the latest image of one entry.
\* SQLite compares its expiry with CURRENT_TIMESTAMP as text, which lets it live
\* until the day it expires on is over.
RestoreLatest(x) ==
    \E entry \in audit :
       /\ entry.of = x /\ \A other \in audit : other.of = x => other.at <= entry.at
       /\ DayOf(Now) <= DayOf(entry.at + Retention)
       /\ RestoreImage(entry)

UpdateDayDetails(d, location) ==
    /\ Elapse
    /\ days' = [days EXCEPT ![d] = location]
    /\ UNCHANGED <<sessions, deductions, audit, gap, reminders, undo>>
-----------------------------------------------------------------------------
(* Reminders. *)

ReminderSubject(kind) ==
    IF kind = "work" THEN Running ELSE
        {d \in UNION {RunningIn(s) : s \in Running} : deductions[d].kind = "lunch"}

StartOf(x) == IF x \in SessionIds THEN sessions[x].start ELSE deductions[x].start

\* The timers a reminder is due for: over their threshold, not suppressed.
Due(kind) ==
    {x \in ReminderSubject(kind) :
        /\ Now - StartOf(x) >= (IF kind = "work" THEN WorkThreshold ELSE LunchThreshold)
        /\ ~(snoozed[kind].of = x /\ snoozed[kind].until > Now)
        /\ notified[kind] # x}

DueReminders ==
    /\ Elapse
    /\ \E kind \in {"work", "lunch"} : Due(kind) # {}
    /\ notified' = [kind \in {"work", "lunch"} |->
                      IF Due(kind) = {} THEN notified[kind] ELSE CHOOSE x \in Due(kind) : TRUE]
    /\ UNCHANGED <<sessions, deductions, days, audit, gap, snoozed, undo>>

\* Seeded fault: the delivered reminder is not forgotten when it is snoozed.
SnoozeReminder_KeepsNotified(kind, subject, length) ==
    /\ Elapse
    /\ subject \in ReminderSubject(kind)
    /\ snoozed' = [snoozed EXCEPT ![kind] = [of |-> subject, until |-> Now + length]]
    /\ UNCHANGED <<sessions, deductions, days, audit, gap, notified, undo>>

\* subject is the timer the reminder was shown for.
SnoozeReminder(kind, subject, length) ==
    /\ Elapse
    /\ subject \in ReminderSubject(kind)
    /\ snoozed' = [snoozed EXCEPT ![kind] = [of |-> subject, until |-> Now + length]]
    /\ notified' = [notified EXCEPT ![kind] = NoId]
    /\ UNCHANGED <<sessions, deductions, days, audit, gap, undo>>

Idle == Elapse /\ UNCHANGED <<sessions, deductions, days, audit, gap, reminders, undo>>
-----------------------------------------------------------------------------
Init ==
    /\ clock = 0
    /\ sessions = [s \in SessionIds |-> NoSession]
    /\ deductions = [d \in DeductionIds |-> NoDeduction]
    /\ days = [d \in Days |-> "unset"]
    /\ audit = {}
    /\ gap = NoGap
    /\ notified = [k \in {"work", "lunch"} |-> NoId]
    /\ snoozed = [k \in {"work", "lunch"} |-> NoSnooze]
    /\ undo = NoUndo

TimerCommand ==
    \/ \E s \in SessionIds :
          \/ StartWork(s)
          \/ \E t \in TypedTimes : StartWorkAt(s, t)
          \/ \E t \in TypedTimes \cup {Now} : FinishWork(s, t)
          \/ \E d \in DeductionIds : StartDeduction(s, d) \/ FinishDeduction(s, d)
    \/ UndoTimerAction \/ ForgetUndo

ResolutionCommand ==
    \/ \E s \in SessionIds :
          \/ ContinueRecovery(s) \/ DeleteRecovery(s)
          \/ \E t \in Instants : DetectSleepGap(s, t)
    \/ IncludeSleep \/ ExcludeSleep

CorrectionCommand ==
    \/ \E from, to \in TypedTimes :
          \/ \E s \in SessionIds :
                \/ AddManualSession(s, from, to) \/ UpdateWorkSession(s, from, to)
                \/ \E d \in DeductionIds : AddManualDeduction(s, d, from, to)
          \/ \E d \in DeductionIds : UpdateDeduction(d, from, to)
    \/ \E s \in SessionIds :
          DeleteWorkSession(s) \/ \E t \in TypedTimes : UpdateActiveWorkStart(s, t)
    \/ \E d \in DeductionIds : DeleteDeduction(d)
    \/ \E entry \in audit : RestoreHistoryEntry(entry)
    \/ \E x \in SessionIds \cup DeductionIds : RestoreLatest(x)

ContextCommand ==
    \E d \in Days, location \in {"remote", "office"} : UpdateDayDetails(d, location)

ReminderCommand ==
    \/ DueReminders
    \/ \E kind \in {"work", "lunch"}, x \in SessionIds \cup DeductionIds, n \in Snoozes :
          SnoozeReminder(kind, x, n)

Next ==
    \/ TimerCommand \/ ResolutionCommand \/ CorrectionCommand
    \/ ContextCommand \/ ReminderCommand \/ Restart \/ Idle

Spec == Init /\ [][Next]_vars
-----------------------------------------------------------------------------
(* Properties. *)

Times == Nat \cup {NoTime}
SessionRow == [start : Times, end : Times, dead : BOOLEAN, ack : BOOLEAN,
               rounding : Nat \ {0}, source : {"timer", "manual"}]
DeductionRow == [parent : SessionIds \cup {NoId}, kind : {"lunch", "sleep_break"},
                 start : Times, end : Times, dead : BOOLEAN]
SessionImage == [of : SessionIds, row : SessionRow, at : Nat]
DeductionImage == [of : DeductionIds, row : DeductionRow, at : Nat]
Ids == SessionIds \cup DeductionIds \cup {NoId}

\* Every stored row, setting and before-image has the shape its table gives it.
TypeOK ==
    /\ clock \in Nat
    /\ sessions \in [SessionIds -> SessionRow]
    /\ deductions \in [DeductionIds -> DeductionRow]
    /\ days \in [Days -> {"unset", "remote", "office"}]
    /\ audit \subseteq SessionImage \cup DeductionImage
    /\ gap \in [of : SessionIds \cup {NoId}, start : Times, end : Times]
    /\ notified \in [{"work", "lunch"} -> Ids]
    /\ snoozed \in [{"work", "lunch"} -> [of : Ids, until : Times]]
    /\ undo \in [kind : {"none", "start", "finish", "start_deduction", "finish_deduction"},
                 of : Ids, at : Times]

\* However timers, Undo, corrections, recovery and restored history interleave,
\* at most one session and one lunch run, and a running lunch belongs to the
\* running session: the partial unique indexes of 0001_initial.sql, which would
\* abort the command with a raw database error, are never the check that bites.
OneTimer ==
    /\ AtMostOneOpen(sessions) /\ AtMostOneOpen(deductions)
    /\ \A d \in DeductionIds : IsOpen(deductions[d]) => deductions[d].parent \in Running

TimesheetValid == ValidIntervals(sessions, deductions, clock)

TypedFinish == \E s \in SessionIds, at \in TypedTimes : at # Now /\ FinishWork(s, at)

\* Each command but Undo, Exclude sleep and a typed finish time checks enough
\* before it writes (start_work, for one, looks at no other session, and a
\* correction looks only at what the row meets): it takes a valid timesheet to
\* a valid timesheet, and so does the passing of time.
CheckedCommandsKeepTimesheetValid ==
    [][TimesheetValid /\ ~UndoTimerAction /\ ~ExcludeSleep /\ ~TypedFinish
          => TimesheetValid']_vars

\* Outside Undo, a live row that was complete, or that is deleted, is never
\* replaced without its before-image in the history, the deductions deleted
\* along with their session included.
HistoryKeepsReplacedRows ==
    [][~UndoTimerAction =>
          /\ \A s \in Live(sessions) :
                /\ sessions'[s] # sessions[s]
                /\ sessions[s].end # NoTime \/ sessions'[s].dead
                => Image(s, sessions[s]) \in audit'
          /\ \A d \in Live(deductions) :
                /\ deductions'[d] # deductions[d]
                /\ deductions[d].end # NoTime \/ deductions'[d].dead
                => Image(d, deductions[d]) \in audit']_vars
=============================================================================
