------------------------- MODULE TimeTrackingProofs -------------------------
(***************************************************************************)
(* TimeTracking for any number of sessions and deductions, any thresholds, *)
(* roundings and midnights: its type invariant, one timer at a time, what  *)
(* the history keeps, that the timesheet stays valid, the promises of the  *)
(* reminders, the hours of a day wherever they are shown, and what Exclude *)
(* sleep takes out of them.                                                *)
(***************************************************************************)
EXTENDS ReminderDelivery, DayTotals, FiniteSetTheorems, NaturalsInduction, WellFoundedInduction, TLAPS

\* The values a session row takes when a command creates it.
LEMMA NewSessionType ==
    ASSUME NEW start \in Nat, NEW rounding \in Nat \ {0}, NEW source \in {"timer", "manual"}
    PROVE  /\ NewSession(start, rounding, source) \in SessionRow
           /\ NewSession(start, rounding, source).start = start
           /\ NewSession(start, rounding, source).end = NoTime
           /\ NewSession(start, rounding, source).dead = FALSE
  BY DEF NewSession, NoSession, SessionRow, Times, NoTime

\* A field of a row replaced by a value of its column leaves a row.
LEMMA SessionRowUpdates ==
    ASSUME NEW row \in SessionRow
    PROVE  /\ [row EXCEPT !.dead = TRUE] \in SessionRow
           /\ [row EXCEPT !.ack = TRUE] \in SessionRow
           /\ \A t \in Times : [row EXCEPT !.end = t] \in SessionRow
           /\ \A t, u \in Times :
                 [row EXCEPT !.start = t, !.end = u, !.source = "manual"] \in SessionRow
           /\ \A t \in Times :
                 [row EXCEPT !.start = t, !.rounding = 1, !.source = "manual"] \in SessionRow
  <1>1. /\ [row EXCEPT !.dead = TRUE] \in SessionRow
        /\ [row EXCEPT !.ack = TRUE] \in SessionRow
    BY DEF SessionRow
  <1>2. ASSUME NEW t \in Times PROVE [row EXCEPT !.end = t] \in SessionRow
    BY DEF SessionRow
  <1>3. ASSUME NEW t \in Times, NEW u \in Times
        PROVE  [row EXCEPT !.start = t, !.end = u, !.source = "manual"] \in SessionRow
    BY DEF SessionRow
  <1>4. ASSUME NEW t \in Times
        PROVE  [row EXCEPT !.start = t, !.rounding = 1, !.source = "manual"] \in SessionRow
    <2>1. 1 \in Nat \ {0}
      OBVIOUS
    <2> QED
      BY <2>1, Zenon DEF SessionRow
  <1> QED
    BY <1>1, <1>2, <1>3, <1>4

LEMMA DeductionRowUpdates ==
    ASSUME NEW row \in DeductionRow
    PROVE  /\ [row EXCEPT !.dead = TRUE] \in DeductionRow
           /\ \A t \in Times : [row EXCEPT !.end = t] \in DeductionRow
           /\ \A t, u \in Times : [row EXCEPT !.start = t, !.end = u] \in DeductionRow
  BY DEF DeductionRow

\* The day of an instant is one of the days that have a row in day_details.
LEMMA DayOfInDays == ASSUME NEW t \in Int PROVE DayOf(t) \in Days
  <1>1. IsFiniteSet(Midnights)
    BY TimeTrackingAssumption
  <1>2. {m \in Midnights : m <= t} \subseteq Midnights
    OBVIOUS
  <1>3. /\ Cardinality({m \in Midnights : m <= t}) \in Nat
        /\ Cardinality(Midnights) \in Nat
        /\ Cardinality({m \in Midnights : m <= t}) <= Cardinality(Midnights)
    BY <1>1, <1>2, FS_Subset, FS_CardinalityType
  <1> QED
    BY <1>3 DEF DayOf, Days

\* Copying the location of a day to later days keeps every day a location.
LEMMA CopyOfficeContextType ==
    ASSUME TypeOK, NEW from \in Int, NEW to, CopyOfficeContext(from, to)
    PROVE  days' \in [Days -> {"unset", "remote", "office"}]
  BY DayOfInDays DEF CopyOfficeContext, TypeOK

LEMMA RetireType ==
    ASSUME TypeOK, NEW S, Retire(S)
    PROVE  /\ notified' \in [{"work", "lunch"} -> Ids]
           /\ snoozed' \in [{"work", "lunch"} -> [of : Ids, until : Times]]
  BY DEF Retire, TypeOK, NoSnooze, Ids, Times, NoTime

\* Saving a row keeps the shape of its table.
LEMMA PutType ==
    ASSUME TypeOK
    PROVE  /\ \A s \in SessionIds : \A row \in SessionRow :
                 PutSession(s, row) => sessions' \in [SessionIds -> SessionRow]
           /\ \A d \in DeductionIds : \A row \in DeductionRow :
                 PutDeduction(d, row) => deductions' \in [DeductionIds -> DeductionRow]
  BY DEF TypeOK, PutSession, PutDeduction

\* Recording images of rows that are replaced keeps the history's shape.
LEMMA RecordAuditType ==
    ASSUME TypeOK, NEW S \in SUBSET SessionIds, NEW D \in SUBSET DeductionIds,
           RecordAudit({Image(s, sessions[s]) : s \in S}
                       \cup {Image(d, deductions[d]) : d \in D})
    PROVE  audit' \subseteq SessionImage \cup DeductionImage
  BY DEF TypeOK, RecordAudit, Image, Now, SessionImage, DeductionImage

LEMMA RecordOneType ==
    ASSUME TypeOK
    PROVE  /\ \A s \in SessionIds : RecordAudit({Image(s, sessions[s])})
                 => audit' \subseteq SessionImage \cup DeductionImage
           /\ \A d \in DeductionIds : RecordAudit({Image(d, deductions[d])})
                 => audit' \subseteq SessionImage \cup DeductionImage
  BY DEF TypeOK, RecordAudit, Image, Now, SessionImage, DeductionImage

\* Soft deletion keeps every table's shape.
LEMMA DeleteType ==
    ASSUME TypeOK, clock' \in Nat, NEW s \in SessionIds, Delete(s), UNCHANGED <<days, gap, undo>>
    PROVE  TypeOK'
  <1> DEFINE children == ChildrenOf(s) \cap Live(deductions)
  <1>1. sessions' \in [SessionIds -> SessionRow]
    <2>1. [sessions[s] EXCEPT !.dead = TRUE] \in SessionRow
      BY SessionRowUpdates DEF TypeOK
    <2> QED
      BY <2>1, PutType DEF Delete
  <1>2. deductions' \in [DeductionIds -> DeductionRow]
    <2>1. \A d \in DeductionIds :
             /\ deductions[d] \in DeductionRow
             /\ [deductions[d] EXCEPT !.dead = TRUE] \in DeductionRow
      BY DeductionRowUpdates DEF TypeOK
    <2> QED
      BY <2>1 DEF Delete
  <1>3. audit' \subseteq SessionImage \cup DeductionImage
    <2>1. {s} \in SUBSET SessionIds /\ children \in SUBSET DeductionIds
      BY DEF ChildrenOf
    <2>2. RecordAudit({Image(x, sessions[x]) : x \in {s}}
                      \cup {Image(d, deductions[d]) : d \in children})
      BY DEF Delete
    <2> QED
      BY <2>1, <2>2, RecordAuditType
  <1> QED
    BY <1>1, <1>2, <1>3, RetireType DEF TypeOK, Delete

\* The values Init gives the tables have their shape.
LEMMA InitType == Init => TypeOK
  <1>1. NoSession \in SessionRow
    BY DEF NoSession, SessionRow, Times, NoTime
  <1>2. NoDeduction \in DeductionRow
    BY DEF NoDeduction, DeductionRow, Times, NoTime
  <1> QED
    BY <1>1, <1>2 DEF Init, TypeOK, NoGap, NoUndo, NoSnooze, Ids, Times, NoTime

\* Timer commands keep every table's shape.
LEMMA TimerType == ASSUME TypeOK, TimerCommand PROVE TypeOK'
  <1> USE DEF Elapse
  <1>a. Now \in Nat /\ 1 \in Nat \ {0}
    BY DEF TypeOK, Now
  <1>1. ASSUME NEW s \in SessionIds, StartWork(s) PROVE TypeOK'
    <2>1. PICK r \in Roundings : PutSession(s, NewSession(Now, r, "timer"))
      BY <1>1 DEF StartWork
    <2>2. NewSession(Now, r, "timer") \in SessionRow
      BY <1>a, NewSessionType, TimeTrackingAssumption
    <2>3. sessions' \in [SessionIds -> SessionRow]
      BY <2>1, <2>2, PutType
    <2> QED
      BY <1>a, <1>1, <2>3 DEF StartWork, TypeOK, reminders, Ids, Times
  <1>2. ASSUME NEW s \in SessionIds, NEW t \in TypedTimes, StartWorkAt(s, t) PROVE TypeOK'
    <2>1. NewSession(t, 1, "manual") \in SessionRow
      BY <1>a, NewSessionType, TimeTrackingAssumption
    <2>2. sessions' \in [SessionIds -> SessionRow]
      BY <1>2, <2>1, PutType DEF StartWorkAt
    <2> QED
      BY <1>a, <1>2, <2>2 DEF StartWorkAt, TypeOK, reminders, Ids, Times
  <1>3. ASSUME NEW s \in SessionIds, NEW t \in TypedTimes \cup {Now}, FinishWork(s, t)
        PROVE  TypeOK'
    <2>1. t \in Nat /\ t \in Times
      BY <1>a, TimeTrackingAssumption DEF Times
    <2>2. sessions[s] \in SessionRow /\ sessions[s].start \in Int
      BY DEF TypeOK, SessionRow, Times, NoTime
    <2>3. sessions' \in [SessionIds -> SessionRow]
      BY <1>3, <2>1, <2>2, PutType, SessionRowUpdates DEF FinishWork
    <2>4. days' \in [Days -> {"unset", "remote", "office"}]
      BY <1>3, <2>2, CopyOfficeContextType DEF FinishWork
    <2> QED
      BY <1>a, <1>3, <2>1, <2>3, <2>4, RetireType DEF FinishWork, TypeOK, Ids
  <1>4. ASSUME NEW s \in SessionIds, NEW d \in DeductionIds, StartDeduction(s, d) PROVE TypeOK'
    <2>1. PICK k \in Kinds :
             PutDeduction(d, [NoDeduction EXCEPT !.parent = s, !.kind = k, !.start = Now,
                                                 !.dead = FALSE])
      BY <1>4 DEF StartDeduction
    <2>2. [NoDeduction EXCEPT !.parent = s, !.kind = k, !.start = Now, !.dead = FALSE]
             \in DeductionRow
      BY <1>a, TimeTrackingAssumption DEF NoDeduction, DeductionRow, Times, NoTime
    <2>3. deductions' \in [DeductionIds -> DeductionRow]
      BY <2>1, <2>2, PutType
    <2> QED
      BY <1>a, <1>4, <2>3 DEF StartDeduction, TypeOK, reminders, Ids, Times
  <1>5. ASSUME NEW s \in SessionIds, NEW d \in DeductionIds, FinishDeduction(s, d) PROVE TypeOK'
    <2>1. deductions[d] \in DeductionRow /\ Now \in Times
      BY <1>a DEF TypeOK, Times
    <2>2. deductions' \in [DeductionIds -> DeductionRow]
      BY <1>5, <2>1, PutType, DeductionRowUpdates DEF FinishDeduction
    <2> QED
      BY <1>a, <1>5, <2>2, RetireType DEF FinishDeduction, TypeOK, Ids, Times
  <1>6. ASSUME UndoTimerAction PROVE TypeOK'
    <2>1. undo' = NoUndo /\ UNCHANGED <<days, audit, gap>> /\ clock' = Now
      BY <1>6 DEF UndoTimerAction
    <2>2. NoTime \in Times
      BY DEF Times
    <2>3. ASSUME NEW s \in SessionIds, UndoStart(s) \/ UndoFinish(s) PROVE TypeOK'
      <3>1. sessions[s] \in SessionRow
        BY DEF TypeOK
      <3>2. sessions' \in [SessionIds -> SessionRow]
        BY <2>2, <2>3, <3>1, PutType, SessionRowUpdates DEF UndoStart, UndoFinish
      <3> QED
        BY <1>a, <2>1, <2>2, <2>3, <3>2, RetireType
        DEF UndoStart, UndoFinish, TypeOK, reminders, NoUndo, Ids
    <2>4. ASSUME NEW d \in DeductionIds, UndoStartDeduction(d) \/ UndoFinishDeduction(d)
          PROVE  TypeOK'
      <3>1. deductions[d] \in DeductionRow
        BY DEF TypeOK
      <3>2. deductions' \in [DeductionIds -> DeductionRow]
        BY <2>2, <2>4, <3>1, PutType, DeductionRowUpdates
        DEF UndoStartDeduction, UndoFinishDeduction
      <3> QED
        BY <1>a, <2>1, <2>2, <2>4, <3>2, RetireType
        DEF UndoStartDeduction, UndoFinishDeduction, TypeOK, reminders, NoUndo, Ids
    <2> QED
      BY <1>6, <2>3, <2>4 DEF UndoTimerAction
  <1>7. ASSUME ForgetUndo PROVE TypeOK'
    BY <1>a, <1>7 DEF ForgetUndo, TypeOK, reminders, NoUndo, Ids, Times
  <1> QED
    BY <1>1, <1>2, <1>3, <1>4, <1>5, <1>6, <1>7 DEF TimerCommand

\* Resolving an unfinished day or a sleep interval keeps every table's shape.
LEMMA ResolutionType == ASSUME TypeOK, ResolutionCommand PROVE TypeOK'
  <1> USE DEF Elapse
  <1>a. Now \in Nat
    BY DEF TypeOK, Now
  <1>1. ASSUME NEW s \in SessionIds, ContinueRecovery(s) PROVE TypeOK'
    <2>1. sessions[s] \in SessionRow
      BY DEF TypeOK
    <2>2. sessions' \in [SessionIds -> SessionRow]
      BY <1>1, <2>1, PutType, SessionRowUpdates DEF ContinueRecovery
    <2> QED
      BY <1>a, <1>1, <2>2 DEF ContinueRecovery, TypeOK, reminders
  <1>2. ASSUME NEW s \in SessionIds, DeleteRecovery(s) PROVE TypeOK'
    BY <1>a, <1>2, DeleteType DEF DeleteRecovery
  <1>3. ASSUME NEW s \in SessionIds, NEW t \in Instants, DetectSleepGap(s, t) PROVE TypeOK'
    <2>1. t \in Times /\ sessions[s].start \in Times /\ Now \in Times
      BY <1>a, TimeTrackingAssumption DEF TypeOK, SessionRow, Times, Instants
    <2> QED
      BY <1>a, <1>3, <2>1 DEF DetectSleepGap, TypeOK, reminders
  <1>4. CASE IncludeSleep
    BY <1>a, <1>4 DEF IncludeSleep, TypeOK, NoGap, reminders, Times
  <1>5. CASE ExcludeSleep
    <2>1. ASSUME NEW u \in Uncovered
          PROVE  [parent |-> gap.of, kind |-> "sleep_break", start |-> u[1], end |-> u[2],
                  dead |-> FALSE] \in DeductionRow
      <3>1. \A d \in Covering :
               deductions[d].start \in Times /\ EndAsOf(deductions[d], Now) \in Times
        BY <1>a DEF Covering, ChildrenOf, EndAsOf, TypeOK, DeductionRow, Times
      <3>2. u[1] \in Times /\ u[2] \in Times /\ gap.of \in SessionIds \cup {NoId}
        BY <3>1 DEF Uncovered, TypeOK
      <3> QED
        BY <3>2 DEF DeductionRow
    <2>2. deductions' \in [DeductionIds -> DeductionRow]
      <3>1. PICK id \in [Uncovered -> DeductionIds \ Known(deductions)] :
               deductions' = [d \in DeductionIds |->
                IF \E u \in Uncovered : id[u] = d
                THEN LET u == CHOOSE u \in Uncovered : id[u] = d
                     IN [parent |-> gap.of, kind |-> "sleep_break",
                         start |-> u[1], end |-> u[2], dead |-> FALSE]
                ELSE deductions[d]]
        BY <1>5 DEF ExcludeSleep
      <3>2. ASSUME NEW d \in DeductionIds PROVE deductions'[d] \in DeductionRow
        <4>1. CASE \E u \in Uncovered : id[u] = d
          <5>1. (CHOOSE u \in Uncovered : id[u] = d) \in Uncovered
            BY <4>1
          <5> QED
            BY <2>1, <3>1, <4>1, <5>1
        <4>2. CASE ~ \E u \in Uncovered : id[u] = d
          BY <3>1, <4>2 DEF TypeOK
        <4> QED
          BY <4>1, <4>2
      <3> QED
        BY <3>1, <3>2
    <2> QED
      BY <1>a, <1>5, <2>2 DEF ExcludeSleep, TypeOK, NoGap, reminders, Times
  <1> QED
    BY <1>1, <1>2, <1>3, <1>4, <1>5 DEF ResolutionCommand

\* An image in the history holds a row of the table of the entry it names.
LEMMA ImageTypes ==
    ASSUME TypeOK, NEW entry \in audit
    PROVE  /\ entry.of \in SessionIds \cup DeductionIds
           /\ entry.of \in SessionIds => entry.row \in SessionRow
           /\ entry.of \in DeductionIds => entry.row \in DeductionRow
  BY TimeTrackingAssumption DEF TypeOK, SessionImage, DeductionImage

LEMMA RestoreImageType ==
    ASSUME TypeOK, NEW entry \in audit, RestoreImage(entry)
    PROVE  TypeOK'
  <1> USE DEF Elapse
  <1>1. clock' \in Nat
    BY DEF RestoreImage, TypeOK, Now
  <1>2. ASSUME entry.of \in SessionIds, PutSession(entry.of, entry.row),
               RecordAudit({Image(entry.of, sessions[entry.of])}), UNCHANGED deductions
        PROVE  TypeOK'
    <2>1. sessions' \in [SessionIds -> SessionRow]
      BY <1>2, ImageTypes, PutType
    <2>2. audit' \subseteq SessionImage \cup DeductionImage
      BY <1>2, RecordOneType
    <2> QED
      BY <1>1, <1>2, <2>1, <2>2 DEF RestoreImage, TypeOK, reminders
  <1>3. ASSUME entry.of \in DeductionIds, PutDeduction(entry.of, entry.row),
               RecordAudit({Image(entry.of, deductions[entry.of])}), UNCHANGED sessions
        PROVE  TypeOK'
    <2>1. deductions' \in [DeductionIds -> DeductionRow]
      BY <1>3, ImageTypes, PutType
    <2>2. audit' \subseteq SessionImage \cup DeductionImage
      BY <1>3, RecordOneType
    <2> QED
      BY <1>1, <1>3, <2>1, <2>2 DEF RestoreImage, TypeOK, reminders
  <1> QED
    BY <1>2, <1>3 DEF RestoreImage

\* Manual entries, corrections and restored history keep every table's shape.
LEMMA CorrectionType == ASSUME TypeOK, CorrectionCommand PROVE TypeOK'
  <1> USE DEF Elapse
  <1>a. Now \in Nat /\ 1 \in Nat \ {0} /\ TypedTimes \subseteq Nat /\ Nat \subseteq Times
    BY TimeTrackingAssumption DEF TypeOK, Now, Times
  <1>1. ASSUME NEW s \in SessionIds, NEW from \in TypedTimes, NEW to \in TypedTimes,
               AddManualSession(s, from, to)
        PROVE  TypeOK'
    <2>1. NewSession(from, 1, "manual") \in SessionRow
      BY <1>a, NewSessionType
    <2>2. [NewSession(from, 1, "manual") EXCEPT !.end = to] \in SessionRow
      BY <1>a, <2>1, SessionRowUpdates
    <2>3. sessions' \in [SessionIds -> SessionRow]
      BY <1>1, <2>2, PutType DEF AddManualSession
    <2>4. days' \in [Days -> {"unset", "remote", "office"}]
      BY <1>a, <1>1, CopyOfficeContextType DEF AddManualSession
    <2> QED
      BY <1>a, <1>1, <2>3, <2>4 DEF AddManualSession, TypeOK, reminders
  <1>2. ASSUME NEW s \in SessionIds, NEW from \in TypedTimes, NEW to \in TypedTimes,
               UpdateWorkSession(s, from, to)
        PROVE  TypeOK'
    <2>1. [sessions[s] EXCEPT !.start = from, !.end = to, !.source = "manual"] \in SessionRow
      BY <1>a, SessionRowUpdates DEF TypeOK
    <2>2. sessions' \in [SessionIds -> SessionRow]
      BY <1>2, <2>1, PutType DEF UpdateWorkSession
    <2>3. audit' \subseteq SessionImage \cup DeductionImage
      BY <1>2, RecordOneType DEF UpdateWorkSession
    <2>4. days' \in [Days -> {"unset", "remote", "office"}]
      BY <1>a, <1>2, CopyOfficeContextType DEF UpdateWorkSession
    <2> QED
      BY <1>a, <1>2, <2>2, <2>3, <2>4 DEF UpdateWorkSession, TypeOK, reminders
  <1>3. ASSUME NEW s \in SessionIds, NEW d \in DeductionIds, NEW from \in TypedTimes,
               NEW to \in TypedTimes, AddManualDeduction(s, d, from, to)
        PROVE  TypeOK'
    <2>1. PICK k \in Kinds :
             PutDeduction(d, [parent |-> s, kind |-> k, start |-> from, end |-> to,
                              dead |-> FALSE])
      BY <1>3 DEF AddManualDeduction
    <2>2. [parent |-> s, kind |-> k, start |-> from, end |-> to, dead |-> FALSE]
             \in DeductionRow
      BY <1>a, TimeTrackingAssumption DEF DeductionRow
    <2>3. deductions' \in [DeductionIds -> DeductionRow]
      BY <2>1, <2>2, PutType
    <2> QED
      BY <1>a, <1>3, <2>3 DEF AddManualDeduction, TypeOK, reminders
  <1>4. ASSUME NEW d \in DeductionIds, NEW from \in TypedTimes, NEW to \in TypedTimes,
               UpdateDeduction(d, from, to)
        PROVE  TypeOK'
    <2>1. [deductions[d] EXCEPT !.start = from, !.end = to] \in DeductionRow
      BY <1>a, DeductionRowUpdates DEF TypeOK
    <2>2. deductions' \in [DeductionIds -> DeductionRow]
      BY <1>4, <2>1, PutType DEF UpdateDeduction
    <2>3. audit' \subseteq SessionImage \cup DeductionImage
      BY <1>4, RecordOneType DEF UpdateDeduction
    <2> QED
      BY <1>a, <1>4, <2>2, <2>3 DEF UpdateDeduction, TypeOK, reminders
  <1>5. ASSUME NEW s \in SessionIds, DeleteWorkSession(s) PROVE TypeOK'
    BY <1>a, <1>5, DeleteType DEF DeleteWorkSession
  <1>6. ASSUME NEW s \in SessionIds, NEW t \in TypedTimes, UpdateActiveWorkStart(s, t)
        PROVE  TypeOK'
    <2>1. [sessions[s] EXCEPT !.start = t, !.rounding = 1, !.source = "manual"] \in SessionRow
      BY <1>a, SessionRowUpdates DEF TypeOK
    <2>2. sessions' \in [SessionIds -> SessionRow]
      BY <1>6, <2>1, PutType DEF UpdateActiveWorkStart
    <2>3. audit' \subseteq SessionImage \cup DeductionImage
      BY <1>6, RecordOneType DEF UpdateActiveWorkStart
    <2> QED
      BY <1>a, <1>6, <2>2, <2>3 DEF UpdateActiveWorkStart, TypeOK, reminders
  <1>7. ASSUME NEW d \in DeductionIds, DeleteDeduction(d) PROVE TypeOK'
    <2>1. [deductions[d] EXCEPT !.dead = TRUE] \in DeductionRow
      BY DeductionRowUpdates DEF TypeOK
    <2>2. deductions' \in [DeductionIds -> DeductionRow]
      BY <1>7, <2>1, PutType DEF DeleteDeduction
    <2>3. audit' \subseteq SessionImage \cup DeductionImage
      BY <1>7, RecordOneType DEF DeleteDeduction
    <2> QED
      BY <1>a, <1>7, <2>2, <2>3, RetireType DEF DeleteDeduction, TypeOK
  <1>8. ASSUME NEW entry \in audit, RestoreImage(entry) PROVE TypeOK'
    BY <1>8, RestoreImageType
  <1> QED
    BY <1>1, <1>2, <1>3, <1>4, <1>5, <1>6, <1>7, <1>8
    DEF CorrectionCommand, RestoreHistoryEntry, RestoreLatest

\* Reminders and day details keep every setting's shape.
LEMMA ReminderType == ASSUME TypeOK, ReminderCommand \/ ContextCommand PROVE TypeOK'
  <1> USE DEF Elapse
  <1>a. Now \in Nat
    BY DEF TypeOK, Now
  <1>1. CASE DueReminders
    <2>1. ASSUME NEW k \in {"work", "lunch"}, Due(k) # {}
          PROVE  (CHOOSE x \in Due(k) : TRUE) \in Ids
      BY <2>1 DEF Due, ReminderSubject, Running, RunningIn, ChildrenOf, Ids
    <2>2. notified' \in [{"work", "lunch"} -> Ids]
      BY <1>1, <2>1 DEF DueReminders, TypeOK
    <2> QED
      BY <1>a, <1>1, <2>2 DEF DueReminders, TypeOK
  <1>2. ASSUME NEW kind \in {"work", "lunch"}, NEW x \in SessionIds \cup DeductionIds,
               NEW n \in Snoozes, SnoozeReminder(kind, x, n)
        PROVE  TypeOK'
    <2>1. [of |-> x, until |-> Now + n] \in [of : Ids, until : Times]
      BY <1>a, TimeTrackingAssumption DEF Ids, Times
    <2> QED
      BY <1>a, <1>2, <2>1 DEF SnoozeReminder, TypeOK, Ids
  <1>3. ASSUME NEW d \in Days, NEW location \in {"remote", "office"},
               UpdateDayDetails(d, location)
        PROVE  TypeOK'
    BY <1>a, <1>3 DEF UpdateDayDetails, TypeOK, reminders
  <1> QED
    BY <1>1, <1>2, <1>3 DEF ReminderCommand, ContextCommand

\* Every step keeps the type invariant.
LEMMA NextType == ASSUME TypeOK, [Next]_vars PROVE TypeOK'
  <1>1. CASE Restart \/ Idle
    BY <1>1 DEF Restart, Idle, Elapse, Now, TypeOK, NoUndo, reminders, Ids, Times
  <1>2. CASE UNCHANGED vars
    BY <1>2 DEF vars, reminders, TypeOK
  <1> QED
    BY <1>1, <1>2, TimerType, ResolutionType, CorrectionType, ReminderType DEF Next

\* Whatever the numbers of sessions and deductions, the thresholds, the rounding
\* preferences and the midnights, every stored row, setting and before-image
\* keeps the shape its table gives it.
THEOREM TypeCorrect == Spec => []TypeOK
  <1>1. Init => TypeOK
    BY InitType
  <1>2. TypeOK /\ [Next]_vars => TypeOK'
    BY NextType
  <1> QED
    BY <1>1, <1>2, PTL DEF Spec

-----------------------------------------------------------------------------
(* One timer at a time.  OneTimer is not inductive on its own: a restored  *)
(* before-image replaces a row of the entry it names only if that entry    *)
(* was really stored, and no command hands out an identity twice only      *)
(* because stored rows have a start.  Stored says so.  From the same       *)
(* invariant, the history keeps what the commands replace.                 *)

\* Rows that are live, and entries that have images, were really stored; a
\* deduction never changes its parent; a pending interval names a session.
Stored ==
    /\ \A s \in SessionIds : ~sessions[s].dead => sessions[s].start \in Nat
    /\ \A d \in DeductionIds :
          ~deductions[d].dead => deductions[d].start \in Nat /\ deductions[d].parent \in SessionIds
    /\ \A e \in audit : e.of \in SessionIds => e.row.start \in Nat /\ sessions[e.of].start \in Nat
    /\ \A e \in audit : e.of \in DeductionIds =>
          /\ e.row.start \in Nat /\ deductions[e.of].start \in Nat
          /\ e.row.parent \in SessionIds /\ e.row.parent = deductions[e.of].parent
    /\ gap # NoGap => gap.of \in SessionIds /\ gap.start \in Nat

SafetyInv == TypeOK /\ Stored /\ OneTimer

\* What a step may do to the tables and keep Stored.
SessionsStored ==
    \A s \in SessionIds : sessions'[s] = sessions[s] \/ sessions'[s].start \in Nat
DeductionsStored ==
    \A d \in DeductionIds :
       \/ deductions'[d] = deductions[d]
       \/ /\ deductions'[d].start \in Nat /\ deductions'[d].parent \in SessionIds
          /\ deductions[d].start \in Nat => deductions'[d].parent = deductions[d].parent
ImagesStored ==
    \A e \in audit' :
       \/ e \in audit
       \/ /\ e.of \in SessionIds /\ e.row = sessions[e.of] /\ e.row.start \in Nat
       \/ /\ e.of \in DeductionIds /\ e.row = deductions[e.of]
          /\ e.row.start \in Nat /\ e.row.parent \in SessionIds

LEMMA StoredStep ==
    ASSUME SafetyInv, TypeOK', SessionsStored, DeductionsStored, ImagesStored,
           gap' \in {gap, NoGap} \/ (gap'.of \in SessionIds /\ gap'.start \in Nat)
    PROVE  Stored'
  <1> USE TimeTrackingAssumption DEF SafetyInv
  <1>1. \A s \in SessionIds : ~sessions'[s].dead => sessions'[s].start \in Nat
    BY DEF Stored, SessionsStored
  <1>2. \A s \in SessionIds : sessions[s].start \in Nat => sessions'[s].start \in Nat
    BY DEF SessionsStored
  <1>3. \A d \in DeductionIds : ~deductions'[d].dead =>
           deductions'[d].start \in Nat /\ deductions'[d].parent \in SessionIds
    BY DEF Stored, DeductionsStored
  <1>4. \A d \in DeductionIds : deductions[d].start \in Nat =>
           deductions'[d].start \in Nat /\ deductions'[d].parent = deductions[d].parent
    BY DEF DeductionsStored
  <1>5. \A e \in audit' : e.of \in SessionIds =>
           e.row.start \in Nat /\ sessions'[e.of].start \in Nat
    BY <1>2 DEF Stored, ImagesStored
  <1>6. \A e \in audit' : e.of \in DeductionIds =>
           /\ e.row.start \in Nat /\ deductions'[e.of].start \in Nat
           /\ e.row.parent \in SessionIds /\ e.row.parent = deductions'[e.of].parent
    BY <1>4 DEF Stored, ImagesStored
  <1>7. gap' # NoGap => gap'.of \in SessionIds /\ gap'.start \in Nat
    BY DEF Stored
  <1> QED
    BY <1>1, <1>3, <1>5, <1>6, <1>7 DEF Stored, NoGap

\* A step that starts nothing, and stops no session a running deduction is in.
LEMMA NothingStarts ==
    ASSUME SafetyInv, TypeOK',
           \A s \in SessionIds : IsOpen(sessions'[s]) => IsOpen(sessions[s]),
           \A d \in DeductionIds : IsOpen(deductions'[d]) =>
              /\ IsOpen(deductions[d]) /\ deductions'[d].parent = deductions[d].parent
              /\ IsOpen(sessions'[deductions[d].parent])
    PROVE  OneTimer'
  BY DEF SafetyInv, OneTimer, AtMostOneOpen, TypeOK, Running

\* A step after which no session but s runs, and s if anything does.
LEMMA OneSessionRuns ==
    ASSUME SafetyInv, TypeOK', deductions' = deductions, NEW s \in SessionIds,
           \A x \in SessionIds : IsOpen(sessions'[x]) => x = s,
           \A d \in DeductionIds : IsOpen(deductions[d]) =>
              deductions[d].parent = s /\ IsOpen(sessions'[s])
    PROVE  OneTimer'
  BY DEF SafetyInv, OneTimer, AtMostOneOpen, TypeOK, Running

\* A step after which no deduction but d runs, and only in a running session.
LEMMA OneDeductionRuns ==
    ASSUME SafetyInv, TypeOK', sessions' = sessions, NEW d \in DeductionIds,
           \A e \in DeductionIds : IsOpen(deductions'[e]) => e = d,
           IsOpen(deductions'[d]) => deductions'[d].parent \in Running
    PROVE  OneTimer'
  BY DEF SafetyInv, OneTimer, AtMostOneOpen, TypeOK, Running

\* Saving one row, or one row of each table's children, changes no other row.
LEMMA PutChanges ==
    ASSUME TypeOK
    PROVE  /\ \A s \in SessionIds : \A row : PutSession(s, row) =>
                 /\ sessions'[s] = row
                 /\ \A x \in SessionIds \ {s} : sessions'[x] = sessions[x]
           /\ \A d \in DeductionIds : \A row : PutDeduction(d, row) =>
                 /\ deductions'[d] = row
                 /\ \A x \in DeductionIds \ {d} : deductions'[x] = deductions[x]
  BY DEF TypeOK, PutSession, PutDeduction

\* A row no command created yet is not live.
LEMMA UnknownRows ==
    ASSUME SafetyInv
    PROVE  /\ \A s \in SessionIds : s \notin Known(sessions) =>
                 sessions[s].dead /\ sessions[s].start \notin Nat
           /\ \A d \in DeductionIds : d \notin Known(deductions) =>
                 deductions[d].dead /\ deductions[d].start \notin Nat
  BY DEF SafetyInv, Stored, TypeOK, Known, NoTime

\* A deduction only runs in the running session, which is one.
LEMMA RunningDeductions ==
    ASSUME SafetyInv
    PROVE  /\ \A s, x \in Running : s = x
           /\ \A d \in DeductionIds : IsOpen(deductions[d]) =>
                 deductions[d].parent \in Running /\ d \in RunningIn(deductions[d].parent)
           /\ \A d, e \in DeductionIds :
                 IsOpen(deductions[d]) /\ IsOpen(deductions[e]) => d = e
  BY DEF SafetyInv, OneTimer, AtMostOneOpen, TypeOK, Running, RunningIn, ChildrenOf

\* Soft deletion stops the session and everything that runs in it.
LEMMA DeleteSafe ==
    ASSUME SafetyInv, TypeOK', NEW s \in SessionIds, ~sessions[s].dead, Delete(s), gap' = gap
    PROVE  Stored' /\ OneTimer'
  <1> DEFINE children == ChildrenOf(s) \cap Live(deductions)
  <1>1. /\ sessions'[s] = [sessions[s] EXCEPT !.dead = TRUE]
        /\ \A x \in SessionIds \ {s} : sessions'[x] = sessions[x]
    BY PutChanges DEF SafetyInv, Delete
  <1>2. /\ \A d \in children : deductions'[d] = [deductions[d] EXCEPT !.dead = TRUE]
        /\ \A d \in DeductionIds \ children : deductions'[d] = deductions[d]
    BY DEF Delete, ChildrenOf
  <1>3. sessions[s] \in SessionRow /\ sessions[s].start \in Nat
    BY DEF SafetyInv, Stored, TypeOK
  <1>4. \A d \in children : /\ deductions[d] \in DeductionRow /\ deductions[d].start \in Nat
                            /\ deductions[d].parent \in SessionIds
    BY DEF SafetyInv, Stored, TypeOK, ChildrenOf, Live
  <1>5. SessionsStored
    BY <1>1, <1>3 DEF SessionsStored, SessionRow
  <1>6. DeductionsStored
    <2>1. ASSUME NEW d \in DeductionIds, d \in children
          PROVE  /\ deductions'[d].start = deductions[d].start
                 /\ deductions'[d].parent = deductions[d].parent
      BY <1>2, <1>4, <2>1 DEF DeductionRow
    <2> QED
      BY <1>2, <1>4, <2>1 DEF DeductionsStored
  <1>7. ImagesStored
    BY <1>3, <1>4 DEF Delete, RecordAudit, Image, ImagesStored, ChildrenOf
  <1>8. \A x \in SessionIds : IsOpen(sessions'[x]) => x # s /\ IsOpen(sessions[x])
    BY <1>1, <1>3 DEF IsOpen, SessionRow
  <1>9. ASSUME NEW d \in DeductionIds, IsOpen(deductions'[d])
        PROVE  /\ IsOpen(deductions[d]) /\ deductions'[d].parent = deductions[d].parent
               /\ IsOpen(sessions'[deductions[d].parent])
    <2>1. d \notin children
      BY <1>2, <1>4, <1>9 DEF IsOpen, DeductionRow
    <2>2. IsOpen(deductions[d]) /\ deductions'[d] = deductions[d]
      BY <1>2, <1>9, <2>1
    <2>3. deductions[d].parent # s /\ deductions[d].parent \in Running
      BY <2>1, <2>2, RunningDeductions DEF ChildrenOf, Live, IsOpen, SafetyInv, TypeOK
    <2> QED
      BY <1>1, <2>2, <2>3 DEF Running
  <1>10. Stored'
    BY <1>5, <1>6, <1>7, StoredStep
  <1>11. OneTimer'
    BY <1>8, <1>9, NothingStarts
  <1> QED
    BY <1>10, <1>11

\* What every session command has in common: it replaces one session row by one
\* with a start and leaves deductions, history and pending interval alone.
LEMMA SessionPutStored ==
    ASSUME SafetyInv, TypeOK', NEW s \in SessionIds, NEW row, PutSession(s, row),
           row.start \in Nat, UNCHANGED <<deductions, gap>>, ImagesStored
    PROVE  Stored'
  <1>1. SessionsStored
    BY PutChanges DEF SafetyInv, SessionsStored
  <1>2. DeductionsStored
    BY DEF DeductionsStored
  <1> QED
    BY <1>1, <1>2, StoredStep

\* The same for a deduction row, which keeps its parent if it was stored.
LEMMA DeductionPutStored ==
    ASSUME SafetyInv, TypeOK', NEW d \in DeductionIds, NEW row, PutDeduction(d, row),
           row.start \in Nat, row.parent \in SessionIds,
           deductions[d].start \in Nat => row.parent = deductions[d].parent,
           UNCHANGED <<sessions, gap>>, ImagesStored
    PROVE  Stored'
  <1>1. SessionsStored
    BY DEF SessionsStored
  <1>2. DeductionsStored
    BY PutChanges DEF SafetyInv, DeductionsStored
  <1> QED
    BY <1>1, <1>2, StoredStep

LEMMA NoNewImages == ASSUME audit' = audit PROVE ImagesStored
  BY DEF ImagesStored

LEMMA OneNewImage ==
    ASSUME SafetyInv
    PROVE  /\ \A s \in SessionIds :
                 sessions[s].start \in Nat /\ RecordAudit({Image(s, sessions[s])}) => ImagesStored
           /\ \A d \in DeductionIds :
                 /\ deductions[d].start \in Nat /\ deductions[d].parent \in SessionIds
                 /\ RecordAudit({Image(d, deductions[d])})
                 => ImagesStored
  BY DEF RecordAudit, Image, ImagesStored

\* Starting work: nothing ran.
LEMMA StartSafe ==
    ASSUME SafetyInv, TypeOK', NEW s \in SessionIds, NEW row, PutSession(s, row),
           row.start \in Nat, IsOpen(row), Running = {}, UNCHANGED <<deductions, audit, gap>>
    PROVE  Stored' /\ OneTimer'
  <1>1. Stored'
    BY SessionPutStored, NoNewImages
  <1>2. \A d \in DeductionIds : ~IsOpen(deductions[d])
    BY RunningDeductions
  <1>3. \A x \in SessionIds : IsOpen(sessions'[x]) => x = s
    BY PutChanges DEF SafetyInv, Running
  <1>4. OneTimer'
    BY <1>2, <1>3, OneSessionRuns
  <1> QED
    BY <1>1, <1>4

\* Stopping a session in which no deduction runs.
LEMMA StopSafe ==
    ASSUME SafetyInv, TypeOK', NEW s \in SessionIds, NEW row, PutSession(s, row),
           row.start \in Nat, ~IsOpen(row), UNCHANGED <<deductions, gap>>, ImagesStored,
           \A d \in DeductionIds : IsOpen(deductions[d]) => deductions[d].parent # s
    PROVE  Stored' /\ OneTimer'
  <1>1. Stored'
    BY SessionPutStored
  <1>2. \A x \in SessionIds : IsOpen(sessions'[x]) => IsOpen(sessions[x])
    BY PutChanges DEF SafetyInv
  <1>3. \A d \in DeductionIds : IsOpen(deductions'[d]) =>
           /\ IsOpen(deductions[d]) /\ deductions'[d].parent = deductions[d].parent
           /\ IsOpen(sessions'[deductions[d].parent])
    BY PutChanges, RunningDeductions DEF SafetyInv, Running
  <1>4. OneTimer'
    BY <1>2, <1>3, NothingStarts
  <1> QED
    BY <1>1, <1>4

\* Replacing a deduction row by one that does not run.
LEMMA EndSafe ==
    ASSUME SafetyInv, TypeOK', NEW d \in DeductionIds, NEW row, PutDeduction(d, row),
           row.start \in Nat, row.parent \in SessionIds, ~IsOpen(row),
           deductions[d].start \in Nat => row.parent = deductions[d].parent,
           UNCHANGED <<sessions, gap>>, ImagesStored
    PROVE  Stored' /\ OneTimer'
  <1>1. Stored'
    BY DeductionPutStored
  <1>2. \A e \in DeductionIds : IsOpen(deductions'[e]) =>
           /\ IsOpen(deductions[e]) /\ deductions'[e].parent = deductions[e].parent
           /\ IsOpen(sessions'[deductions[e].parent])
    BY PutChanges, RunningDeductions DEF SafetyInv, Running
  <1>3. OneTimer'
    BY <1>2, NothingStarts
  <1> QED
    BY <1>1, <1>3

\* Timer commands start a timer only when none of its kind runs.
LEMMA TimerSafe == ASSUME SafetyInv, TypeOK', TimerCommand PROVE Stored' /\ OneTimer'
  <1>a. Now \in Nat
    BY DEF SafetyInv, TypeOK, Now
  <1>1. ASSUME NEW s \in SessionIds, StartWork(s) PROVE Stored' /\ OneTimer'
    <2>1. PICK r \in Roundings : PutSession(s, NewSession(Now, r, "timer"))
      BY <1>1 DEF StartWork
    <2>2. /\ NewSession(Now, r, "timer").start \in Nat
          /\ IsOpen(NewSession(Now, r, "timer"))
      BY <1>a DEF NewSession, NoSession, IsOpen
    <2> QED
      BY <1>1, <2>1, <2>2, StartSafe DEF StartWork
  <1>2. ASSUME NEW s \in SessionIds, NEW t \in TypedTimes, StartWorkAt(s, t)
        PROVE  Stored' /\ OneTimer'
    <2>1. /\ NewSession(t, 1, "manual").start \in Nat
          /\ IsOpen(NewSession(t, 1, "manual"))
      BY TimeTrackingAssumption DEF NewSession, NoSession, IsOpen
    <2> QED
      BY <1>2, <2>1, StartSafe DEF StartWorkAt
  <1>3. ASSUME NEW s \in SessionIds, NEW t \in TypedTimes \cup {Now}, FinishWork(s, t)
        PROVE  Stored' /\ OneTimer'
    <2> DEFINE row == [sessions[s] EXCEPT !.end = t]
    <2>1. sessions[s] \in SessionRow /\ sessions[s].start \in Nat /\ t # NoTime
      BY <1>a, <1>3, TimeTrackingAssumption
      DEF FinishWork, Running, IsOpen, SafetyInv, Stored, TypeOK, NoTime
    <2>2. row.start \in Nat /\ ~IsOpen(row)
      BY <2>1 DEF SessionRow, IsOpen
    <2>3. \A d \in DeductionIds : IsOpen(deductions[d]) => deductions[d].parent # s
      BY <1>3, RunningDeductions DEF FinishWork
    <2>4. ImagesStored /\ PutSession(s, row) /\ UNCHANGED <<deductions, gap>>
      BY <1>3, NoNewImages DEF FinishWork
    <2> HIDE DEF row
    <2> QED
      BY <2>2, <2>3, <2>4, StopSafe
  <1>4. ASSUME NEW s \in SessionIds, NEW d \in DeductionIds, StartDeduction(s, d)
        PROVE  Stored' /\ OneTimer'
    <2>1. PICK k \in Kinds :
             PutDeduction(d, [NoDeduction EXCEPT !.parent = s, !.kind = k, !.start = Now,
                                                 !.dead = FALSE])
      BY <1>4 DEF StartDeduction
    <2> DEFINE row == [NoDeduction EXCEPT !.parent = s, !.kind = k, !.start = Now, !.dead = FALSE]
    <2>2. row.start \in Nat /\ row.parent = s
      BY <1>a DEF NoDeduction
    <2>3. s \in Running /\ RunningIn(s) = {} /\ deductions[d].start \notin Nat
      BY <1>4, UnknownRows DEF StartDeduction
    <2>4. \A e \in DeductionIds : ~IsOpen(deductions[e])
      BY <2>3, RunningDeductions
    <2>5. PutDeduction(d, row) /\ UNCHANGED <<sessions, gap, audit>>
      BY <1>4, <2>1 DEF StartDeduction
    <2> HIDE DEF row
    <2>6. Stored'
      BY <2>2, <2>3, <2>5, NoNewImages, DeductionPutStored
    <2>7. deductions'[d] = row /\ \A e \in DeductionIds : IsOpen(deductions'[e]) => e = d
      BY <2>4, <2>5, PutChanges DEF SafetyInv
    <2>8. OneTimer'
      BY <2>2, <2>3, <2>5, <2>7, OneDeductionRuns
    <2> QED
      BY <2>6, <2>8
  <1>5. ASSUME NEW s \in SessionIds, NEW d \in DeductionIds, FinishDeduction(s, d)
        PROVE  Stored' /\ OneTimer'
    <2> DEFINE row == [deductions[d] EXCEPT !.end = Now]
    <2>1. /\ deductions[d] \in DeductionRow /\ deductions[d].start \in Nat
          /\ deductions[d].parent \in SessionIds
      BY <1>5 DEF FinishDeduction, RunningIn, IsOpen, SafetyInv, Stored, TypeOK
    <2>2. /\ row.start \in Nat /\ row.parent = deductions[d].parent
          /\ ~IsOpen(row)
      BY <1>a, <2>1 DEF DeductionRow, IsOpen, NoTime
    <2>3. ImagesStored /\ PutDeduction(d, row) /\ UNCHANGED <<sessions, gap>>
      BY <1>5, NoNewImages DEF FinishDeduction
    <2> HIDE DEF row
    <2> QED
      BY <2>1, <2>2, <2>3, EndSafe
  <1>6. ASSUME UndoTimerAction PROVE Stored' /\ OneTimer'
    <2>a. UNCHANGED <<audit, gap>> /\ ImagesStored
      BY <1>6, NoNewImages DEF UndoTimerAction
    <2>1. ASSUME NEW s \in SessionIds, UndoStart(s) PROVE Stored' /\ OneTimer'
      <3> DEFINE row == [sessions[s] EXCEPT !.dead = TRUE]
      <3>1. sessions[s] \in SessionRow /\ sessions[s].start \in Nat
        BY <2>1 DEF UndoStart, Running, IsOpen, SafetyInv, Stored, TypeOK
      <3>2. row.start \in Nat /\ ~IsOpen(row)
        BY <3>1 DEF SessionRow, IsOpen
      <3>3. \A d \in DeductionIds : IsOpen(deductions[d]) => deductions[d].parent # s
        BY <2>1, RunningDeductions DEF UndoStart
      <3>4. PutSession(s, row) /\ UNCHANGED deductions
        BY <2>1 DEF UndoStart
      <3> HIDE DEF row
      <3> QED
        BY <2>a, <3>2, <3>3, <3>4, StopSafe
    <2>2. ASSUME NEW s \in SessionIds, UndoFinish(s) PROVE Stored' /\ OneTimer'
      <3> DEFINE row == [sessions[s] EXCEPT !.end = NoTime]
      <3>1. sessions[s] \in SessionRow /\ Running = {}
        BY <2>2 DEF UndoFinish, SafetyInv, TypeOK
      <3>2. row.start = sessions[s].start /\ row.dead = sessions[s].dead
        BY <3>1 DEF SessionRow
      <3>3. PutSession(s, row) /\ UNCHANGED deductions
        BY <2>2 DEF UndoFinish
      <3> HIDE DEF row
      <3>4. \A d \in DeductionIds : ~IsOpen(deductions[d])
        BY <3>1, RunningDeductions
      <3>5. OneTimer'
        <4>1. \A x \in SessionIds : IsOpen(sessions'[x]) => x = s
          BY <3>1, <3>3, PutChanges DEF SafetyInv, Running
        <4> QED
          BY <3>3, <3>4, <4>1, OneSessionRuns
      <3>6. Stored'
        <4>1. \A x \in SessionIds : /\ sessions'[x].start = sessions[x].start
                                    /\ sessions'[x].dead = sessions[x].dead
          BY <3>2, <3>3, PutChanges DEF SafetyInv
        <4> QED
          BY <2>a, <3>3, <4>1 DEF SafetyInv, Stored, NoGap
      <3> QED
        BY <3>5, <3>6
    <2>3. ASSUME NEW d \in DeductionIds, UndoStartDeduction(d) PROVE Stored' /\ OneTimer'
      <3> DEFINE row == [deductions[d] EXCEPT !.dead = TRUE]
      <3>1. /\ deductions[d] \in DeductionRow /\ deductions[d].start \in Nat
            /\ deductions[d].parent \in SessionIds
        BY <2>3 DEF UndoStartDeduction, IsOpen, SafetyInv, Stored, TypeOK
      <3>2. row.start \in Nat /\ row.parent = deductions[d].parent /\ ~IsOpen(row)
        BY <3>1 DEF DeductionRow, IsOpen
      <3>3. PutDeduction(d, row) /\ UNCHANGED sessions
        BY <2>3 DEF UndoStartDeduction
      <3> HIDE DEF row
      <3> QED
        BY <2>a, <3>1, <3>2, <3>3, EndSafe
    <2>4. ASSUME NEW d \in DeductionIds, UndoFinishDeduction(d) PROVE Stored' /\ OneTimer'
      <3> DEFINE row == [deductions[d] EXCEPT !.end = NoTime]
      <3>1. /\ deductions[d] \in DeductionRow /\ deductions[d].parent \in Running
            /\ RunningIn(deductions[d].parent) = {}
        BY <2>4 DEF UndoFinishDeduction, SafetyInv, TypeOK
      <3>2. /\ row.start = deductions[d].start /\ row.parent = deductions[d].parent
            /\ row.dead = deductions[d].dead
        BY <3>1 DEF DeductionRow
      <3>3. PutDeduction(d, row) /\ UNCHANGED sessions
        BY <2>4 DEF UndoFinishDeduction
      <3> HIDE DEF row
      <3>4. \A e \in DeductionIds : ~IsOpen(deductions[e])
        BY <3>1, RunningDeductions
      <3>5. OneTimer'
        <4>1. deductions'[d] = row /\ \A e \in DeductionIds : IsOpen(deductions'[e]) => e = d
          BY <3>3, <3>4, PutChanges DEF SafetyInv
        <4> QED
          BY <3>1, <3>2, <3>3, <4>1, OneDeductionRuns
      <3>6. Stored'
        <4>1. \A e \in DeductionIds : /\ deductions'[e].start = deductions[e].start
                                      /\ deductions'[e].parent = deductions[e].parent
                                      /\ deductions'[e].dead = deductions[e].dead
          BY <3>2, <3>3, PutChanges DEF SafetyInv
        <4> QED
          BY <2>a, <3>3, <4>1 DEF SafetyInv, Stored, NoGap
      <3> QED
        BY <3>5, <3>6
    <2> QED
      BY <1>6, <2>1, <2>2, <2>3, <2>4 DEF UndoTimerAction
  <1>7. CASE ForgetUndo
    BY <1>7 DEF ForgetUndo, SafetyInv, Stored, OneTimer, Running, NoGap
  <1> QED
    BY <1>1, <1>2, <1>3, <1>4, <1>5, <1>6, <1>7 DEF TimerCommand

\* Resolving an unfinished day or a sleep interval starts nothing.
LEMMA ResolutionSafe == ASSUME SafetyInv, TypeOK', ResolutionCommand PROVE Stored' /\ OneTimer'
  <1>1. ASSUME NEW s \in SessionIds, ContinueRecovery(s) PROVE Stored' /\ OneTimer'
    <2> DEFINE row == [sessions[s] EXCEPT !.ack = TRUE]
    <2>1. sessions[s] \in SessionRow /\ sessions[s].start \in Nat
      BY <1>1 DEF ContinueRecovery, Running, IsOpen, SafetyInv, Stored, TypeOK
    <2>2. row.start \in Nat /\ (IsOpen(row) => IsOpen(sessions[s])) /\ IsOpen(row)
      BY <1>1, <2>1 DEF ContinueRecovery, Running, SessionRow, IsOpen
    <2>3. PutSession(s, row) /\ UNCHANGED <<deductions, gap>> /\ ImagesStored
      BY <1>1, NoNewImages DEF ContinueRecovery
    <2> HIDE DEF row
    <2>4. Stored'
      BY <2>2, <2>3, SessionPutStored
    <2>5. \A x \in SessionIds : IsOpen(sessions'[x]) <=> IsOpen(sessions[x])
      BY <1>1, <2>2, <2>3, PutChanges DEF SafetyInv, ContinueRecovery, Running
    <2>6. OneTimer'
      BY <2>3, <2>5, RunningDeductions, NothingStarts DEF Running
    <2> QED
      BY <2>4, <2>6
  <1>2. ASSUME NEW s \in SessionIds, DeleteRecovery(s) PROVE Stored' /\ OneTimer'
    BY <1>2, DeleteSafe DEF DeleteRecovery, Running, IsOpen
  <1>3. ASSUME UNCHANGED <<sessions, deductions, audit>>,
               gap' \in {gap, NoGap} \/ (gap'.of \in SessionIds /\ gap'.start \in Nat)
        PROVE  Stored' /\ OneTimer'
    BY <1>3 DEF SafetyInv, Stored, OneTimer, Running, NoGap
  <1>4. ASSUME NEW s \in SessionIds, NEW t \in Instants, DetectSleepGap(s, t)
        PROVE  Stored' /\ OneTimer'
    <2>1. sessions[s].start \in Nat /\ t \in Nat
      BY <1>4, TimeTrackingAssumption
      DEF DetectSleepGap, Running, IsOpen, SafetyInv, Stored, TypeOK, Instants
    <2> QED
      BY <1>3, <1>4, <2>1 DEF DetectSleepGap
  <1>5. CASE IncludeSleep
    BY <1>3, <1>5 DEF IncludeSleep
  <1>6. CASE ExcludeSleep
    <2>1. PICK id \in [Uncovered -> DeductionIds \ Known(deductions)] :
             deductions' = [d \in DeductionIds |->
                IF \E u \in Uncovered : id[u] = d
                THEN LET u == CHOOSE u \in Uncovered : id[u] = d
                     IN [parent |-> gap.of, kind |-> "sleep_break",
                         start |-> u[1], end |-> u[2], dead |-> FALSE]
                ELSE deductions[d]]
      BY <1>6 DEF ExcludeSleep
    <2>2. gap.of \in SessionIds /\ gap.start \in Nat /\ gap.end \in Times /\ Now \in Nat
      BY <1>6 DEF ExcludeSleep, SafetyInv, Stored, TypeOK, Now
    <2>3. \A u \in Uncovered : u[1] \in Nat /\ u[2] # NoTime
      <3>1. \A d \in Covering :
               deductions[d].start \in Times /\ EndAsOf(deductions[d], Now) \in Times
        BY <2>2 DEF Covering, ChildrenOf, EndAsOf, SafetyInv, TypeOK, DeductionRow, Times
      <3>2. ASSUME NEW u \in Uncovered PROVE u[1] \in Times /\ u[2] \in Times
        BY <2>2, <3>1 DEF Uncovered, Times
      <3> QED
        BY <2>2, <3>2 DEF Uncovered, Times, NoTime
    <2>4. ASSUME NEW d \in DeductionIds
          PROVE  \/ deductions'[d] = deductions[d]
                 \/ /\ deductions[d].start \notin Nat
                    /\ deductions'[d].start \in Nat /\ deductions'[d].parent \in SessionIds
                    /\ ~IsOpen(deductions'[d])
      <3>1. CASE \E u \in Uncovered : id[u] = d
        <4>1. (CHOOSE u \in Uncovered : id[u] = d) \in Uncovered /\ d \notin Known(deductions)
          BY <2>1, <3>1
        <4> QED
          BY <2>1, <2>2, <2>3, <3>1, <4>1, UnknownRows DEF IsOpen
      <3>2. CASE ~ \E u \in Uncovered : id[u] = d
        BY <2>1, <3>2
      <3> QED
        BY <3>1, <3>2
    <2>5. SessionsStored /\ DeductionsStored /\ ImagesStored
      BY <1>6, <2>4, NoNewImages DEF ExcludeSleep, SessionsStored, DeductionsStored
    <2>6. Stored'
      BY <1>6, <2>5, StoredStep DEF ExcludeSleep
    <2>7. OneTimer'
      BY <1>6, <2>4, RunningDeductions, NothingStarts DEF ExcludeSleep, Running
    <2> QED
      BY <2>6, <2>7
  <1> QED
    BY <1>1, <1>2, <1>4, <1>5, <1>6 DEF ResolutionCommand

\* validate_intervals accepts a session that would run only when no other
\* session runs, and refuses to end one while a deduction of its own runs.
LEMMA AllowedSessions ==
    ASSUME SafetyInv, NEW s \in SessionIds, NEW row, SessionAllowed(s, row)
    PROVE  /\ IsOpen(row) => Running \subseteq {s}
           /\ \A d \in DeductionIds :
                 IsOpen(deductions[d]) /\ deductions[d].parent = s => IsOpen(row)
  <1> DEFINE others == (Intersecting(row.start, EndAsOf(row, Now))
                          \cup (IF IsOpen(row) THEN Running ELSE {})) \ {s}
             W == [x \in others \cup {s} |-> IF x = s THEN row ELSE sessions[x]]
             P == [d \in ChildrenOf(s) |-> deductions[d]]
  <1>1. ValidIntervals(W, P, Now)
    BY DEF SessionAllowed
  <1>2. /\ AtMostOneOpen(W)
        /\ \A d \in Live(P) : IsOpen(P[d]) => IsOpen(W[P[d].parent])
    BY <1>1 DEF ValidIntervals, SessionsValid, DeductionsValid
  <1>3. ASSUME IsOpen(row), NEW x \in Running, x # s PROVE FALSE
    <2>1. x \in DOMAIN W /\ W[x] = sessions[x] /\ s \in DOMAIN W /\ W[s] = row
      BY <1>3
    <2>2. IsOpen(W[x]) /\ IsOpen(W[s])
      BY <1>3, <2>1 DEF Running
    <2> QED
      BY <1>2, <1>3, <2>1, <2>2 DEF AtMostOneOpen
  <1>4. ASSUME NEW d \in DeductionIds, IsOpen(deductions[d]), deductions[d].parent = s
        PROVE  IsOpen(row)
    <2>1. d \in DOMAIN P /\ P[d] = deductions[d] /\ W[s] = row
      BY <1>4 DEF ChildrenOf
    <2>2. d \in Live(P)
      BY <1>4, <2>1 DEF Live, IsOpen
    <2> QED
      BY <1>2, <1>4, <2>1, <2>2
  <1> QED
    BY <1>3, <1>4 DEF Running

\* It accepts a deduction that would run only in running work with no other
\* running deduction.
LEMMA AllowedDeductions ==
    ASSUME SafetyInv, NEW d \in DeductionIds, NEW row, DeductionAllowed(d, row),
           row.parent \in SessionIds, row.parent = deductions[d].parent, IsOpen(row)
    PROVE  /\ row.parent \in Running
           /\ \A e \in DeductionIds : IsOpen(deductions[e]) => e = d
  <1> DEFINE W == [x \in {row.parent} |-> sessions[x]]
             P == [e \in ChildrenOf(row.parent) |-> IF e = d THEN row ELSE deductions[e]]
  <1>1. ValidIntervals(W, P, Now)
    BY DEF DeductionAllowed
  <1>2. /\ AtMostOneOpen(P)
        /\ \A e \in Live(P) : IsOpen(P[e]) => IsOpen(W[P[e].parent])
    BY <1>1 DEF ValidIntervals, DeductionsValid
  <1>3. d \in DOMAIN P /\ P[d] = row /\ W[row.parent] = sessions[row.parent]
    BY DEF ChildrenOf
  <1>4. row.parent \in Running
    <2>1. d \in Live(P)
      BY <1>3 DEF Live, IsOpen
    <2> QED
      BY <1>2, <1>3, <2>1 DEF Running
  <1>5. ASSUME NEW e \in DeductionIds, IsOpen(deductions[e]), e # d PROVE FALSE
    <2>1. deductions[e].parent = row.parent
      BY <1>4, <1>5, RunningDeductions
    <2>2. e \in DOMAIN P /\ P[e] = deductions[e]
      BY <1>5, <2>1 DEF ChildrenOf
    <2> QED
      BY <1>2, <1>3, <1>5, <2>2 DEF AtMostOneOpen
  <1> QED
    BY <1>4, <1>5

\* Replacing a session row by one that validation accepted.
LEMMA ReplaceSessionSafe ==
    ASSUME SafetyInv, TypeOK', NEW s \in SessionIds, NEW row, SessionAllowed(s, row),
           PutSession(s, row), row.start \in Nat, UNCHANGED <<deductions, gap>>, ImagesStored
    PROVE  Stored' /\ OneTimer'
  <1>1. CASE IsOpen(row)
    <2>1. Stored'
      BY SessionPutStored
    <2>2. sessions'[s] = row /\ \A x \in SessionIds : IsOpen(sessions'[x]) => x = s
      BY <1>1, AllowedSessions, PutChanges DEF SafetyInv, Running
    <2>3. \A d \in DeductionIds : IsOpen(deductions[d]) =>
             deductions[d].parent = s /\ IsOpen(sessions'[s])
      BY <1>1, <2>2, AllowedSessions, RunningDeductions
    <2>4. OneTimer'
      BY <2>2, <2>3, OneSessionRuns
    <2> QED
      BY <2>1, <2>4
  <1>2. CASE ~IsOpen(row)
    BY <1>2, AllowedSessions, StopSafe
  <1> QED
    BY <1>1, <1>2

\* Replacing a deduction row by one that validation accepted.
LEMMA ReplaceDeductionSafe ==
    ASSUME SafetyInv, TypeOK', NEW d \in DeductionIds, NEW row, DeductionAllowed(d, row),
           PutDeduction(d, row), row.start \in Nat, row.parent \in SessionIds,
           row.parent = deductions[d].parent, UNCHANGED <<sessions, gap>>, ImagesStored
    PROVE  Stored' /\ OneTimer'
  <1>1. CASE IsOpen(row)
    <2>1. Stored'
      BY DeductionPutStored
    <2>2. deductions'[d] = row /\ \A e \in DeductionIds : IsOpen(deductions'[e]) => e = d
      BY <1>1, AllowedDeductions, PutChanges DEF SafetyInv
    <2>3. OneTimer'
      BY <1>1, <2>2, AllowedDeductions, OneDeductionRuns
    <2> QED
      BY <2>1, <2>3
  <1>2. CASE ~IsOpen(row)
    BY <1>2, EndSafe
  <1> QED
    BY <1>1, <1>2

LEMMA RestoreImageSafe ==
    ASSUME SafetyInv, TypeOK', NEW entry \in audit, RestoreImage(entry)
    PROVE  Stored' /\ OneTimer'
  <1>1. CASE entry.of \in SessionIds
    <2>1. entry.row.start \in Nat /\ sessions[entry.of].start \in Nat
      BY <1>1 DEF SafetyInv, Stored
    <2>2. /\ SessionAllowed(entry.of, entry.row) /\ PutSession(entry.of, entry.row)
          /\ RecordAudit({Image(entry.of, sessions[entry.of])})
          /\ UNCHANGED <<deductions, gap>>
      BY <1>1, TimeTrackingAssumption DEF RestoreImage
    <2>3. ImagesStored
      BY <1>1, <2>1, <2>2, OneNewImage
    <2> QED
      BY <1>1, <2>1, <2>2, <2>3, ReplaceSessionSafe
  <1>2. CASE entry.of \in DeductionIds
    <2>1. /\ entry.row.start \in Nat /\ deductions[entry.of].start \in Nat
          /\ entry.row.parent \in SessionIds /\ entry.row.parent = deductions[entry.of].parent
      BY <1>2 DEF SafetyInv, Stored
    <2>2. /\ DeductionAllowed(entry.of, entry.row) /\ PutDeduction(entry.of, entry.row)
          /\ RecordAudit({Image(entry.of, deductions[entry.of])})
          /\ UNCHANGED <<sessions, gap>>
      BY <1>2, TimeTrackingAssumption DEF RestoreImage
    <2>3. ImagesStored
      BY <1>2, <2>1, <2>2, OneNewImage
    <2> QED
      BY <1>2, <2>1, <2>2, <2>3, ReplaceDeductionSafe
  <1> QED
    BY <1>1, <1>2, ImageTypes DEF SafetyInv

\* Corrections and restored history never start a second timer.
LEMMA CorrectionSafe == ASSUME SafetyInv, TypeOK', CorrectionCommand PROVE Stored' /\ OneTimer'
  <1>a. TypedTimes \subseteq Nat /\ NoTime \notin TypedTimes
    BY TimeTrackingAssumption DEF NoTime
  <1>1. ASSUME NEW s \in SessionIds, NEW from \in TypedTimes, NEW to \in TypedTimes,
               AddManualSession(s, from, to)
        PROVE  Stored' /\ OneTimer'
    <2> DEFINE row == [NewSession(from, 1, "manual") EXCEPT !.end = to]
    <2>1. row.start = from /\ row.end = to
      BY DEF NewSession, NoSession
    <2>2. row.start \in Nat /\ ~IsOpen(row)
      BY <1>a, <2>1 DEF IsOpen
    <2>3. PutSession(s, row) /\ UNCHANGED <<deductions, gap>> /\ ImagesStored
      BY <1>1, NoNewImages DEF AddManualSession
    <2>4. \A d \in DeductionIds : IsOpen(deductions[d]) => deductions[d].parent # s
      BY <1>1, UnknownRows, RunningDeductions DEF AddManualSession, Running, IsOpen
    <2> HIDE DEF row
    <2> QED
      BY <2>2, <2>3, <2>4, StopSafe
  <1>2. ASSUME NEW s \in SessionIds, NEW from \in TypedTimes, NEW to \in TypedTimes,
               UpdateWorkSession(s, from, to)
        PROVE  Stored' /\ OneTimer'
    <2> DEFINE row == [sessions[s] EXCEPT !.start = from, !.end = to, !.source = "manual"]
    <2>1. sessions[s] \in SessionRow /\ sessions[s].start \in Nat
      BY <1>2 DEF UpdateWorkSession, Live, SafetyInv, Stored, TypeOK
    <2>2. row.start \in Nat
      BY <1>a, <2>1 DEF SessionRow
    <2>3. /\ SessionAllowed(s, row) /\ PutSession(s, row) /\ UNCHANGED <<deductions, gap>>
          /\ RecordAudit({Image(s, sessions[s])})
      BY <1>2 DEF UpdateWorkSession
    <2>4. ImagesStored
      BY <2>1, <2>3, OneNewImage
    <2> HIDE DEF row
    <2> QED
      BY <2>2, <2>3, <2>4, ReplaceSessionSafe
  <1>3. ASSUME NEW s \in SessionIds, NEW d \in DeductionIds, NEW from \in TypedTimes,
               NEW to \in TypedTimes, AddManualDeduction(s, d, from, to)
        PROVE  Stored' /\ OneTimer'
    <2>1. PICK k \in Kinds :
             PutDeduction(d, [parent |-> s, kind |-> k, start |-> from, end |-> to,
                              dead |-> FALSE])
      BY <1>3 DEF AddManualDeduction
    <2> DEFINE row == [parent |-> s, kind |-> k, start |-> from, end |-> to, dead |-> FALSE]
    <2>2. row.start \in Nat /\ row.parent \in SessionIds /\ ~IsOpen(row)
      BY <1>a DEF IsOpen
    <2>3. deductions[d].start \notin Nat
      BY <1>3, UnknownRows DEF AddManualDeduction
    <2>4. PutDeduction(d, row) /\ UNCHANGED <<sessions, gap>> /\ ImagesStored
      BY <1>3, <2>1, NoNewImages DEF AddManualDeduction
    <2> HIDE DEF row
    <2> QED
      BY <2>2, <2>3, <2>4, EndSafe
  <1>4. ASSUME NEW d \in DeductionIds, NEW from \in TypedTimes, NEW to \in TypedTimes,
               UpdateDeduction(d, from, to)
        PROVE  Stored' /\ OneTimer'
    <2> DEFINE row == [deductions[d] EXCEPT !.start = from, !.end = to]
    <2>1. /\ deductions[d] \in DeductionRow /\ deductions[d].start \in Nat
          /\ deductions[d].parent \in SessionIds
      BY <1>4 DEF UpdateDeduction, Live, SafetyInv, Stored, TypeOK
    <2>2. row.start \in Nat /\ row.parent = deductions[d].parent
      BY <1>a, <2>1 DEF DeductionRow
    <2>3. /\ DeductionAllowed(d, row) /\ PutDeduction(d, row) /\ UNCHANGED <<sessions, gap>>
          /\ RecordAudit({Image(d, deductions[d])})
      BY <1>4 DEF UpdateDeduction
    <2>4. ImagesStored
      BY <2>1, <2>3, OneNewImage
    <2> HIDE DEF row
    <2> QED
      BY <2>1, <2>2, <2>3, <2>4, ReplaceDeductionSafe
  <1>5. ASSUME NEW s \in SessionIds, DeleteWorkSession(s) PROVE Stored' /\ OneTimer'
    BY <1>5, DeleteSafe DEF DeleteWorkSession, Live
  <1>6. ASSUME NEW s \in SessionIds, NEW t \in TypedTimes, UpdateActiveWorkStart(s, t)
        PROVE  Stored' /\ OneTimer'
    <2> DEFINE row == [sessions[s] EXCEPT !.start = t, !.rounding = 1, !.source = "manual"]
    <2>1. sessions[s] \in SessionRow /\ sessions[s].start \in Nat
      BY <1>6 DEF UpdateActiveWorkStart, Running, IsOpen, SafetyInv, Stored, TypeOK
    <2>2. row.start \in Nat
      BY <1>a, <2>1 DEF SessionRow
    <2>3. /\ SessionAllowed(s, row) /\ PutSession(s, row) /\ UNCHANGED <<deductions, gap>>
          /\ RecordAudit({Image(s, sessions[s])})
      BY <1>6 DEF UpdateActiveWorkStart
    <2>4. ImagesStored
      BY <2>1, <2>3, OneNewImage
    <2> HIDE DEF row
    <2> QED
      BY <2>2, <2>3, <2>4, ReplaceSessionSafe
  <1>7. ASSUME NEW d \in DeductionIds, DeleteDeduction(d) PROVE Stored' /\ OneTimer'
    <2> DEFINE row == [deductions[d] EXCEPT !.dead = TRUE]
    <2>1. /\ deductions[d] \in DeductionRow /\ deductions[d].start \in Nat
          /\ deductions[d].parent \in SessionIds
      BY <1>7 DEF DeleteDeduction, Live, SafetyInv, Stored, TypeOK
    <2>2. row.start \in Nat /\ row.parent = deductions[d].parent /\ ~IsOpen(row)
      BY <2>1 DEF DeductionRow, IsOpen
    <2>3. /\ PutDeduction(d, row) /\ UNCHANGED <<sessions, gap>>
          /\ RecordAudit({Image(d, deductions[d])})
      BY <1>7 DEF DeleteDeduction
    <2>4. ImagesStored
      BY <2>1, <2>3, OneNewImage
    <2> HIDE DEF row
    <2> QED
      BY <2>1, <2>2, <2>3, <2>4, EndSafe
  <1>8. ASSUME NEW entry \in audit, RestoreImage(entry) PROVE Stored' /\ OneTimer'
    BY <1>8, RestoreImageSafe
  <1> QED
    BY <1>1, <1>2, <1>3, <1>4, <1>5, <1>6, <1>7, <1>8
    DEF CorrectionCommand, RestoreHistoryEntry, RestoreLatest

\* Nothing is stored at first.
LEMMA InitSafe == Init => Stored /\ OneTimer
  BY TimeTrackingAssumption
  DEF Init, Stored, OneTimer, AtMostOneOpen, IsOpen, NoSession, NoDeduction, NoGap

\* Every step keeps the strengthened invariant.
LEMMA NextSafe == ASSUME SafetyInv, [Next]_vars PROVE SafetyInv'
  <1>1. TypeOK'
    BY NextType DEF SafetyInv
  <1>2. ASSUME sessions' = sessions, deductions' = deductions, audit' = audit, gap' = gap
        PROVE  Stored' /\ OneTimer'
    BY <1>2 DEF SafetyInv, Stored, OneTimer, Running, NoGap
  <1>3. CASE ContextCommand
    <2>1. sessions' = sessions /\ deductions' = deductions /\ audit' = audit /\ gap' = gap
      BY <1>3 DEF ContextCommand, UpdateDayDetails
    <2> QED
      BY <1>1, <1>2, <2>1 DEF SafetyInv
  <1>4. CASE ReminderCommand
    <2>1. sessions' = sessions /\ deductions' = deductions /\ audit' = audit /\ gap' = gap
      BY <1>4 DEF ReminderCommand, DueReminders, SnoozeReminder
    <2> QED
      BY <1>1, <1>2, <2>1 DEF SafetyInv
  <1>5. CASE Restart \/ Idle \/ UNCHANGED vars
    <2>1. sessions' = sessions /\ deductions' = deductions /\ audit' = audit /\ gap' = gap
      BY <1>5 DEF Restart, Idle, vars
    <2> QED
      BY <1>1, <1>2, <2>1 DEF SafetyInv
  <1> QED
    BY <1>1, <1>3, <1>4, <1>5, TimerSafe, ResolutionSafe, CorrectionSafe DEF Next, SafetyInv

\* However timers, Undo, corrections, recovery and restored history interleave,
\* at most one session and one lunch run and a running lunch is in the running
\* session: the unique indexes of the database are never the check that bites.
THEOREM OneTimerHolds == Spec => []OneTimer
  <1>1. Init => SafetyInv
    BY InitType, InitSafe DEF SafetyInv
  <1>2. SafetyInv /\ [Next]_vars => SafetyInv'
    BY NextSafe
  <1>3. SafetyInv => OneTimer
    BY DEF SafetyInv
  <1> QED
    BY <1>1, <1>2, <1>3, PTL DEF Spec
-----------------------------------------------------------------------------
\* What HistoryKeepsReplacedRows asks of a step.
SessionsKept ==
    \A s \in Live(sessions) :
       /\ sessions'[s] # sessions[s]
       /\ sessions[s].end # NoTime \/ sessions'[s].dead
       => Image(s, sessions[s]) \in audit'
DeductionsKept ==
    \A d \in Live(deductions) :
       /\ deductions'[d] # deductions[d]
       /\ deductions[d].end # NoTime \/ deductions'[d].dead
       => Image(d, deductions[d]) \in audit'

LEMMA UntouchedKept ==
    /\ UNCHANGED sessions => SessionsKept
    /\ UNCHANGED deductions => DeductionsKept
  BY DEF SessionsKept, DeductionsKept

\* Saving one session: it was not live, or its image is recorded, or it was
\* running and stays live.
LEMMA SessionPutKept ==
    ASSUME SafetyInv, NEW s \in SessionIds, NEW row, PutSession(s, row), UNCHANGED deductions,
           \/ s \notin Live(sessions)
           \/ Image(s, sessions[s]) \in audit'
           \/ sessions[s].end = NoTime /\ ~row.dead
    PROVE  SessionsKept /\ DeductionsKept
  <1>1. DOMAIN sessions = SessionIds /\ TypeOK
    BY DEF SafetyInv, TypeOK
  <1>2. sessions'[s] = row /\ \A x \in SessionIds \ {s} : sessions'[x] = sessions[x]
    BY <1>1, PutChanges
  <1>3. SessionsKept
    BY <1>1, <1>2 DEF SessionsKept, Live
  <1> QED
    BY <1>3, UntouchedKept

LEMMA DeductionPutKept ==
    ASSUME SafetyInv, NEW d \in DeductionIds, NEW row, PutDeduction(d, row), UNCHANGED sessions,
           \/ d \notin Live(deductions)
           \/ Image(d, deductions[d]) \in audit'
           \/ deductions[d].end = NoTime /\ ~row.dead
    PROVE  SessionsKept /\ DeductionsKept
  <1>1. DOMAIN deductions = DeductionIds /\ TypeOK
    BY DEF SafetyInv, TypeOK
  <1>2. deductions'[d] = row /\ \A x \in DeductionIds \ {d} : deductions'[x] = deductions[x]
    BY <1>1, PutChanges
  <1>3. DeductionsKept
    BY <1>1, <1>2 DEF DeductionsKept, Live
  <1> QED
    BY <1>3, UntouchedKept

LEMMA DeleteKept ==
    ASSUME SafetyInv, NEW s \in SessionIds, Delete(s)
    PROVE  SessionsKept /\ DeductionsKept
  <1>1. /\ DOMAIN sessions = SessionIds /\ DOMAIN deductions = DeductionIds /\ TypeOK
    BY DEF SafetyInv, TypeOK
  <1>2. /\ \A x \in SessionIds \ {s} : sessions'[x] = sessions[x]
        /\ Image(s, sessions[s]) \in audit'
    BY <1>1, PutChanges DEF Delete, RecordAudit
  <1>3. \A d \in DeductionIds :
           \/ deductions'[d] = deductions[d]
           \/ Image(d, deductions[d]) \in audit'
    BY DEF Delete, RecordAudit
  <1> QED
    BY <1>1, <1>2, <1>3 DEF SessionsKept, DeductionsKept, Live

LEMMA RecordedOne ==
    ASSUME NEW x, NEW row, RecordAudit({Image(x, row)})
    PROVE  Image(x, row) \in audit'
  BY DEF RecordAudit

LEMMA TimerKept ==
    ASSUME SafetyInv, TimerCommand, ~UndoTimerAction
    PROVE  SessionsKept /\ DeductionsKept
  <1>1. ASSUME NEW s \in SessionIds, StartWork(s) PROVE SessionsKept /\ DeductionsKept
    <2>1. PICK r \in Roundings : PutSession(s, NewSession(Now, r, "timer"))
      BY <1>1 DEF StartWork
    <2>2. s \notin Live(sessions) /\ UNCHANGED deductions
      BY <1>1, UnknownRows DEF StartWork, Live
    <2> QED
      BY <2>1, <2>2, SessionPutKept
  <1>2. ASSUME NEW s \in SessionIds, NEW t \in TypedTimes, StartWorkAt(s, t)
        PROVE  SessionsKept /\ DeductionsKept
    <2>1. /\ PutSession(s, NewSession(t, 1, "manual"))
          /\ s \notin Live(sessions) /\ UNCHANGED deductions
      BY <1>2, UnknownRows DEF StartWorkAt, Live
    <2> QED
      BY <2>1, SessionPutKept
  <1>3. ASSUME NEW s \in SessionIds, NEW t \in TypedTimes \cup {Now}, FinishWork(s, t)
        PROVE  SessionsKept /\ DeductionsKept
    <2> DEFINE row == [sessions[s] EXCEPT !.end = t]
    <2>1. PutSession(s, row) /\ IsOpen(sessions[s]) /\ UNCHANGED deductions
      BY <1>3 DEF FinishWork, Running
    <2>2. row.dead = sessions[s].dead
      BY DEF SafetyInv, TypeOK, SessionRow
    <2>3. sessions[s].end = NoTime /\ ~row.dead
      BY <2>1, <2>2 DEF IsOpen
    <2> QED
      BY <2>1, <2>3, SessionPutKept
  <1>4. ASSUME NEW s \in SessionIds, NEW d \in DeductionIds, StartDeduction(s, d)
        PROVE  SessionsKept /\ DeductionsKept
    <2>1. PICK row : PutDeduction(d, row)
      BY <1>4 DEF StartDeduction
    <2>2. d \notin Live(deductions) /\ UNCHANGED sessions
      BY <1>4, UnknownRows DEF StartDeduction, Live
    <2> QED
      BY <2>1, <2>2, DeductionPutKept
  <1>5. ASSUME NEW s \in SessionIds, NEW d \in DeductionIds, FinishDeduction(s, d)
        PROVE  SessionsKept /\ DeductionsKept
    <2> DEFINE row == [deductions[d] EXCEPT !.end = Now]
    <2>1. PutDeduction(d, row) /\ IsOpen(deductions[d]) /\ UNCHANGED sessions
      BY <1>5 DEF FinishDeduction, RunningIn
    <2>2. row.dead = deductions[d].dead
      BY DEF SafetyInv, TypeOK, DeductionRow
    <2>3. deductions[d].end = NoTime /\ ~row.dead
      BY <2>1, <2>2 DEF IsOpen
    <2> QED
      BY <2>1, <2>3, DeductionPutKept
  <1>6. CASE ForgetUndo
    BY <1>6, UntouchedKept DEF ForgetUndo
  <1> QED
    BY <1>1, <1>2, <1>3, <1>4, <1>5, <1>6 DEF TimerCommand

LEMMA ResolutionKept ==
    ASSUME SafetyInv, ResolutionCommand
    PROVE  SessionsKept /\ DeductionsKept
  <1>1. ASSUME NEW s \in SessionIds, ContinueRecovery(s) PROVE SessionsKept /\ DeductionsKept
    <2> DEFINE row == [sessions[s] EXCEPT !.ack = TRUE]
    <2>1. PutSession(s, row) /\ IsOpen(sessions[s]) /\ UNCHANGED deductions
      BY <1>1 DEF ContinueRecovery, Running
    <2>2. row.dead = sessions[s].dead
      BY DEF SafetyInv, TypeOK, SessionRow
    <2>3. sessions[s].end = NoTime /\ ~row.dead
      BY <2>1, <2>2 DEF IsOpen
    <2> QED
      BY <2>1, <2>3, SessionPutKept
  <1>2. ASSUME NEW s \in SessionIds, DeleteRecovery(s) PROVE SessionsKept /\ DeductionsKept
    BY <1>2, DeleteKept DEF DeleteRecovery
  <1>3. ASSUME NEW s \in SessionIds, NEW t \in Instants, DetectSleepGap(s, t)
        PROVE  SessionsKept /\ DeductionsKept
    BY <1>3, UntouchedKept DEF DetectSleepGap
  <1>4. CASE IncludeSleep
    BY <1>4, UntouchedKept DEF IncludeSleep
  <1>5. CASE ExcludeSleep
    <2>1. PICK id \in [Uncovered -> DeductionIds \ Known(deductions)] :
             deductions' = [d \in DeductionIds |->
                IF \E u \in Uncovered : id[u] = d
                THEN LET u == CHOOSE u \in Uncovered : id[u] = d
                     IN [parent |-> gap.of, kind |-> "sleep_break",
                         start |-> u[1], end |-> u[2], dead |-> FALSE]
                ELSE deductions[d]]
      BY <1>5 DEF ExcludeSleep
    <2>2. ASSUME NEW d \in Live(deductions) PROVE deductions'[d] = deductions[d]
      <3>1. d \in DeductionIds /\ ~deductions[d].dead
        BY DEF Live, SafetyInv, TypeOK
      <3>2. d \in Known(deductions)
        BY <3>1, UnknownRows
      <3>3. ~ \E u \in Uncovered : id[u] = d
        BY <2>1, <3>2
      <3> QED
        BY <2>1, <3>1, <3>3
    <2>3. DeductionsKept
      BY <2>2 DEF DeductionsKept
    <2>4. UNCHANGED sessions
      BY <1>5 DEF ExcludeSleep
    <2> QED
      BY <2>3, <2>4, UntouchedKept
  <1> QED
    BY <1>1, <1>2, <1>3, <1>4, <1>5 DEF ResolutionCommand

LEMMA RestoreKept ==
    ASSUME SafetyInv, NEW entry, RestoreImage(entry)
    PROVE  SessionsKept /\ DeductionsKept
  <1>1. CASE /\ entry.of \in SessionIds /\ PutSession(entry.of, entry.row)
             /\ RecordAudit({Image(entry.of, sessions[entry.of])}) /\ UNCHANGED deductions
    BY <1>1, RecordedOne, SessionPutKept
  <1>2. CASE /\ entry.of \in DeductionIds /\ PutDeduction(entry.of, entry.row)
             /\ RecordAudit({Image(entry.of, deductions[entry.of])}) /\ UNCHANGED sessions
    BY <1>2, RecordedOne, DeductionPutKept
  <1> QED
    BY <1>1, <1>2 DEF RestoreImage

LEMMA CorrectionKept ==
    ASSUME SafetyInv, CorrectionCommand
    PROVE  SessionsKept /\ DeductionsKept
  <1>1. ASSUME NEW s \in SessionIds, NEW from \in TypedTimes, NEW to \in TypedTimes,
               AddManualSession(s, from, to)
        PROVE  SessionsKept /\ DeductionsKept
    <2>1. /\ PutSession(s, [NewSession(from, 1, "manual") EXCEPT !.end = to])
          /\ s \notin Live(sessions) /\ UNCHANGED deductions
      BY <1>1, UnknownRows DEF AddManualSession, Live
    <2> QED
      BY <2>1, SessionPutKept
  <1>2. ASSUME NEW s \in SessionIds, NEW from \in TypedTimes, NEW to \in TypedTimes,
               UpdateWorkSession(s, from, to)
        PROVE  SessionsKept /\ DeductionsKept
    <2>1. /\ PutSession(s, [sessions[s] EXCEPT !.start = from, !.end = to, !.source = "manual"])
          /\ RecordAudit({Image(s, sessions[s])}) /\ UNCHANGED deductions
      BY <1>2 DEF UpdateWorkSession
    <2> QED
      BY <2>1, RecordedOne, SessionPutKept
  <1>3. ASSUME NEW s \in SessionIds, NEW d \in DeductionIds, NEW from \in TypedTimes,
               NEW to \in TypedTimes, AddManualDeduction(s, d, from, to)
        PROVE  SessionsKept /\ DeductionsKept
    <2>1. PICK row : PutDeduction(d, row)
      BY <1>3 DEF AddManualDeduction
    <2>2. d \notin Live(deductions) /\ UNCHANGED sessions
      BY <1>3, UnknownRows DEF AddManualDeduction, Live
    <2> QED
      BY <2>1, <2>2, DeductionPutKept
  <1>4. ASSUME NEW d \in DeductionIds, NEW from \in TypedTimes, NEW to \in TypedTimes,
               UpdateDeduction(d, from, to)
        PROVE  SessionsKept /\ DeductionsKept
    <2>1. /\ PutDeduction(d, [deductions[d] EXCEPT !.start = from, !.end = to])
          /\ RecordAudit({Image(d, deductions[d])}) /\ UNCHANGED sessions
      BY <1>4 DEF UpdateDeduction
    <2> QED
      BY <2>1, RecordedOne, DeductionPutKept
  <1>5. ASSUME NEW s \in SessionIds, DeleteWorkSession(s) PROVE SessionsKept /\ DeductionsKept
    BY <1>5, DeleteKept DEF DeleteWorkSession
  <1>6. ASSUME NEW s \in SessionIds, NEW t \in TypedTimes, UpdateActiveWorkStart(s, t)
        PROVE  SessionsKept /\ DeductionsKept
    <2>1. /\ PutSession(s, [sessions[s] EXCEPT !.start = t, !.rounding = 1, !.source = "manual"])
          /\ RecordAudit({Image(s, sessions[s])}) /\ UNCHANGED deductions
      BY <1>6 DEF UpdateActiveWorkStart
    <2> QED
      BY <2>1, RecordedOne, SessionPutKept
  <1>7. ASSUME NEW d \in DeductionIds, DeleteDeduction(d) PROVE SessionsKept /\ DeductionsKept
    <2>1. /\ PutDeduction(d, [deductions[d] EXCEPT !.dead = TRUE])
          /\ RecordAudit({Image(d, deductions[d])}) /\ UNCHANGED sessions
      BY <1>7 DEF DeleteDeduction
    <2> QED
      BY <2>1, RecordedOne, DeductionPutKept
  <1>8. ASSUME NEW entry, RestoreImage(entry) PROVE SessionsKept /\ DeductionsKept
    BY <1>8, RestoreKept
  <1> QED
    BY <1>1, <1>2, <1>3, <1>4, <1>5, <1>6, <1>7, <1>8
    DEF CorrectionCommand, RestoreHistoryEntry, RestoreLatest

\* Outside Undo every command leaves the before-image of the completed or
\* deleted row it replaces in the history, the deductions deleted along with
\* their session included, for any tables and any history.
THEOREM HistoryKept == Spec => HistoryKeepsReplacedRows
  <1>1. ASSUME SafetyInv, [Next]_vars, ~UndoTimerAction
        PROVE  SessionsKept /\ DeductionsKept
    <2>1. CASE ReminderCommand \/ ContextCommand \/ Restart \/ Idle \/ UNCHANGED vars
      <3>1. UNCHANGED <<sessions, deductions>>
        BY <2>1 DEF ReminderCommand, DueReminders, SnoozeReminder, ContextCommand,
                    UpdateDayDetails, Restart, Idle, vars
      <3> QED
        BY <3>1, UntouchedKept
    <2> QED
      BY <1>1, <2>1, TimerKept, ResolutionKept, CorrectionKept DEF Next
  <1>2. SafetyInv /\ [Next]_vars =>
           [~UndoTimerAction =>
              /\ \A s \in Live(sessions) :
                    /\ sessions'[s] # sessions[s]
                    /\ sessions[s].end # NoTime \/ sessions'[s].dead
                    => Image(s, sessions[s]) \in audit'
              /\ \A d \in Live(deductions) :
                    /\ deductions'[d] # deductions[d]
                    /\ deductions[d].end # NoTime \/ deductions'[d].dead
                    => Image(d, deductions[d]) \in audit']_vars
    BY <1>1 DEF SessionsKept, DeductionsKept
  <1>3. Init => SafetyInv
    BY InitType, InitSafe DEF SafetyInv
  <1>4. SafetyInv /\ [Next]_vars => SafetyInv'
    BY NextSafe
  <1> QED
    BY <1>2, <1>3, <1>4, PTL DEF Spec, HistoryKeepsReplacedRows

-----------------------------------------------------------------------------
(* The timesheet stays valid.  A command compares the row it writes only   *)
(* with the rows it meets or belongs to, and starting work with none; the  *)
(* rest follows from the timesheet having been valid, at an instant that   *)
(* is over when the command runs, and from one timer at a time.            *)

\* The rows of a timesheet that is valid, as the next command finds them.
SheetNow ==
    /\ \A s \in Live(sessions) :
          BoundsAllowed(sessions[s], clock) /\ BoundsAllowed(sessions[s], Now)
    /\ NoOverlap(sessions, Live(sessions), Now)
    /\ \A d \in Live(deductions) :
          /\ deductions[d].parent \in Live(sessions)
          /\ BoundsAllowed(deductions[d], clock) /\ BoundsAllowed(deductions[d], Now)
          /\ Inside(deductions[d], sessions[deductions[d].parent], Now)
    /\ \A d, e \in Live(deductions) :
          d # e /\ deductions[d].parent = deductions[e].parent
             => ~Overlap(deductions[d], deductions[e], Now)

\* Live rows are rows of their table and have a start.
LEMMA LiveRows ==
    ASSUME SafetyInv
    PROVE  /\ \A s \in Live(sessions) :
                 /\ s \in SessionIds /\ ~sessions[s].dead
                 /\ sessions[s].start \in Nat /\ sessions[s].end \in Nat \cup {NoTime}
           /\ \A d \in Live(deductions) :
                 /\ d \in DeductionIds /\ ~deductions[d].dead
                 /\ deductions[d].parent \in SessionIds
                 /\ deductions[d].start \in Nat /\ deductions[d].end \in Nat \cup {NoTime}
           /\ clock \in Nat /\ Now = clock + 1
  BY DEF SafetyInv, Stored, TypeOK, Live, SessionRow, DeductionRow, Times, Now

\* Two intervals that do not overlap, at most one of which runs, never will.
LEMMA ApartLater ==
    ASSUME NEW a, NEW b, a.start \in Nat, b.start \in Nat,
           a.end \in Nat \cup {NoTime}, b.end \in Nat \cup {NoTime}, NEW t \in Nat,
           BoundsAllowed(a, t), BoundsAllowed(b, t),
           a.end # NoTime \/ b.end # NoTime, ~Overlap(a, b, t)
    PROVE  ~Overlap(a, b, t + 1)
  BY DEF BoundsAllowed, Overlap, EndAsOf, Readable, NoTime

\* A valid timesheet is valid an instant later.
LEMMA ValidLater == ASSUME SafetyInv, TimesheetValid PROVE SheetNow
  <1>1. /\ \A s \in Live(sessions) : BoundsAllowed(sessions[s], clock)
        /\ NoOverlap(sessions, Live(sessions), clock)
        /\ AtMostOneOpen(sessions) /\ AtMostOneOpen(deductions)
    BY DEF TimesheetValid, ValidIntervals, SessionsValid, DeductionsValid
  <1>2. /\ \A d \in Live(deductions) :
              /\ deductions[d].parent \in Live(sessions)
              /\ IsOpen(deductions[d]) => IsOpen(sessions[deductions[d].parent])
              /\ BoundsAllowed(deductions[d], clock)
              /\ Inside(deductions[d], sessions[deductions[d].parent], clock)
        /\ \A d, e \in Live(deductions) :
              d # e /\ deductions[d].parent = deductions[e].parent
                 => ~Overlap(deductions[d], deductions[e], clock)
    BY DEF TimesheetValid, ValidIntervals, DeductionsValid
  <1>3. ASSUME NEW row, row.start \in Nat, row.end \in Nat \cup {NoTime},
               BoundsAllowed(row, clock)
        PROVE  BoundsAllowed(row, Now)
    BY <1>3, LiveRows DEF BoundsAllowed, EndAsOf, NoTime
  <1>4. ASSUME NEW x \in Live(sessions), NEW y \in Live(sessions), x # y
        PROVE  ~Overlap(sessions[x], sessions[y], Now)
    <2>1. sessions[x].end # NoTime \/ sessions[y].end # NoTime
      BY <1>1, <1>4, LiveRows DEF AtMostOneOpen, IsOpen, SafetyInv, TypeOK
    <2>2. ~Overlap(sessions[x], sessions[y], clock)
      BY <1>1, <1>4 DEF NoOverlap
    <2> QED
      BY <1>1, <2>1, <2>2, ApartLater, LiveRows
  <1>5. ASSUME NEW d \in Live(deductions)
        PROVE  Inside(deductions[d], sessions[deductions[d].parent], Now)
    <2>1. deductions[d].end = NoTime => sessions[deductions[d].parent].end = NoTime
      BY <1>2, LiveRows DEF IsOpen
    <2> QED
      BY <1>2, <2>1, LiveRows DEF Inside, EndAsOf, BoundsAllowed, NoTime
  <1>6. ASSUME NEW d \in Live(deductions), NEW e \in Live(deductions), d # e,
               deductions[d].parent = deductions[e].parent
        PROVE  ~Overlap(deductions[d], deductions[e], Now)
    <2>1. deductions[d].end # NoTime \/ deductions[e].end # NoTime
      BY <1>1, <1>6, LiveRows DEF AtMostOneOpen, IsOpen, SafetyInv, TypeOK
    <2>2. ~Overlap(deductions[d], deductions[e], clock)
      BY <1>2, <1>6
    <2> QED
      BY <1>2, <2>1, <2>2, ApartLater, LiveRows
  <1>7. \A s \in Live(sessions) : BoundsAllowed(sessions[s], Now)
    BY <1>1, <1>3, LiveRows
  <1>8. \A d \in Live(deductions) : BoundsAllowed(deductions[d], Now)
    BY <1>2, <1>3, LiveRows
  <1> QED
    BY <1>1, <1>2, <1>4, <1>5, <1>6, <1>7, <1>8 DEF SheetNow, NoOverlap

\* What is left to check after a step, one timer at a time being certain.
LEMMA SheetNext ==
    ASSUME SafetyInv', clock' = Now,
           \A s \in Live(sessions') : BoundsAllowed(sessions'[s], Now),
           NoOverlap(sessions', Live(sessions'), Now),
           \A d \in Live(deductions') :
              /\ deductions'[d].parent \in Live(sessions')
              /\ BoundsAllowed(deductions'[d], Now)
              /\ Inside(deductions'[d], sessions'[deductions'[d].parent], Now),
           \A d, e \in Live(deductions') :
              d # e /\ deductions'[d].parent = deductions'[e].parent
                 => ~Overlap(deductions'[d], deductions'[e], Now)
    PROVE  TimesheetValid'
  <1>1. AtMostOneOpen(sessions') /\ AtMostOneOpen(deductions')
    BY DEF SafetyInv, OneTimer
  <1>2. \A d \in Live(deductions') :
           IsOpen(deductions'[d]) => IsOpen(sessions'[deductions'[d].parent])
    BY DEF SafetyInv, OneTimer, Running, TypeOK, Live
  <1> QED
    BY <1>1, <1>2 DEF TimesheetValid, ValidIntervals, SessionsValid, DeductionsValid

\* A session row that may stand beside the other live sessions, and that its
\* deductions may stay in.
StandsApart(s, row) ==
    row.dead \/ (/\ BoundsAllowed(row, Now)
                 /\ \A x \in Live(sessions) \ {s} : ~Overlap(sessions[x], row, Now))
HoldsChildren(s, row) ==
    \A d \in ChildrenOf(s) \cap Live(deductions) : ~row.dead /\ Inside(deductions[d], row, Now)

LEMMA SessionPutValid ==
    ASSUME SafetyInv, SafetyInv', SheetNow, clock' = Now, NEW s \in SessionIds, NEW row,
           PutSession(s, row), deductions' = deductions, StandsApart(s, row), HoldsChildren(s, row)
    PROVE  TimesheetValid'
  <1>1. sessions'[s] = row /\ \A x \in SessionIds \ {s} : sessions'[x] = sessions[x]
    BY PutChanges DEF SafetyInv
  <1>2. \A x \in Live(sessions') :
           /\ x \in SessionIds /\ x = s => ~row.dead
           /\ x # s => x \in Live(sessions) /\ sessions'[x] = sessions[x]
    BY <1>1 DEF Live, SafetyInv, TypeOK
  <1>3. \A x \in Live(sessions') : BoundsAllowed(sessions'[x], Now)
    BY <1>1, <1>2 DEF SheetNow, StandsApart
  <1>4. NoOverlap(sessions', Live(sessions'), Now)
    <2>1. ASSUME NEW x \in Live(sessions'), NEW y \in Live(sessions'), x # y
          PROVE  ~Overlap(sessions'[x], sessions'[y], Now)
      <3>1. CASE x # s /\ y # s
        BY <1>2, <2>1, <3>1 DEF SheetNow, NoOverlap
      <3>2. CASE x = s
        BY <1>1, <1>2, <2>1, <3>2 DEF StandsApart, Overlap
      <3>3. CASE y = s
        BY <1>1, <1>2, <2>1, <3>3 DEF StandsApart
      <3> QED
        BY <3>1, <3>2, <3>3
    <2> QED
      BY <2>1 DEF NoOverlap
  <1>5. ASSUME NEW d \in Live(deductions)
        PROVE  /\ deductions[d].parent \in Live(sessions')
               /\ Inside(deductions[d], sessions'[deductions[d].parent], Now)
    <2>1. CASE deductions[d].parent = s
      <3>1. d \in ChildrenOf(s) \cap Live(deductions)
        BY <2>1, LiveRows DEF ChildrenOf
      <3> QED
        BY <1>1, <2>1, <3>1 DEF HoldsChildren, Live, SafetyInv, TypeOK
    <2>2. CASE deductions[d].parent # s
      BY <1>1, <2>2 DEF SheetNow, Live, SafetyInv, TypeOK
    <2> QED
      BY <2>1, <2>2
  <1> QED
    BY <1>3, <1>4, <1>5, SheetNext DEF SheetNow

\* A deduction row that may stand beside the live deductions of its session.
FitsSession(d, row) ==
    row.dead \/ (/\ row.parent \in Live(sessions) /\ BoundsAllowed(row, Now)
                 /\ Inside(row, sessions[row.parent], Now)
                 /\ \A e \in Live(deductions) \ {d} :
                       deductions[e].parent = row.parent => ~Overlap(deductions[e], row, Now))

LEMMA DeductionPutValid ==
    ASSUME SafetyInv, SafetyInv', SheetNow, clock' = Now, NEW d \in DeductionIds, NEW row,
           PutDeduction(d, row), sessions' = sessions, FitsSession(d, row)
    PROVE  TimesheetValid'
  <1>1. deductions'[d] = row /\ \A x \in DeductionIds \ {d} : deductions'[x] = deductions[x]
    BY PutChanges DEF SafetyInv
  <1>2. \A x \in Live(deductions') :
           /\ x \in DeductionIds /\ x = d => ~row.dead
           /\ x # d => x \in Live(deductions) /\ deductions'[x] = deductions[x]
    BY <1>1 DEF Live, SafetyInv, TypeOK
  <1>3. ASSUME NEW x \in Live(deductions')
        PROVE  /\ deductions'[x].parent \in Live(sessions)
               /\ BoundsAllowed(deductions'[x], Now)
               /\ Inside(deductions'[x], sessions[deductions'[x].parent], Now)
    BY <1>1, <1>2 DEF SheetNow, FitsSession
  <1>4. ASSUME NEW x \in Live(deductions'), NEW y \in Live(deductions'), x # y,
               deductions'[x].parent = deductions'[y].parent
        PROVE  ~Overlap(deductions'[x], deductions'[y], Now)
    <2>1. CASE x # d /\ y # d
      BY <1>2, <1>4, <2>1 DEF SheetNow
    <2>2. CASE x = d
      BY <1>1, <1>2, <1>4, <2>2 DEF FitsSession, Overlap
    <2>3. CASE y = d
      BY <1>1, <1>2, <1>4, <2>3 DEF FitsSession
    <2> QED
      BY <2>1, <2>2, <2>3
  <1> QED
    BY <1>3, <1>4, SheetNext DEF SheetNow

\* A deleted session leaves with everything that was in it.
LEMMA DeleteValid ==
    ASSUME SafetyInv, SafetyInv', SheetNow, clock' = Now, NEW s \in SessionIds, Delete(s)
    PROVE  TimesheetValid'
  <1> DEFINE children == ChildrenOf(s) \cap Live(deductions)
  <1>1. /\ sessions'[s] = [sessions[s] EXCEPT !.dead = TRUE]
        /\ \A x \in SessionIds \ {s} : sessions'[x] = sessions[x]
    BY PutChanges DEF SafetyInv, Delete
  <1>2. /\ \A d \in children : deductions'[d] = [deductions[d] EXCEPT !.dead = TRUE]
        /\ \A d \in DeductionIds \ children : deductions'[d] = deductions[d]
    BY DEF Delete, ChildrenOf
  <1>3. /\ sessions[s] \in SessionRow
        /\ \A d \in children : deductions[d] \in DeductionRow
    BY DEF SafetyInv, TypeOK, ChildrenOf
  <1>4. sessions'[s].dead /\ \A d \in children : deductions'[d].dead
    <2>1. [sessions[s] EXCEPT !.dead = TRUE].dead
      BY <1>3, Zenon DEF SessionRow
    <2>2. ASSUME NEW d \in children PROVE [deductions[d] EXCEPT !.dead = TRUE].dead
      BY <1>3, Zenon DEF DeductionRow
    <2> QED
      BY <1>1, <1>2, <2>1, <2>2
  <1>5. \A x \in Live(sessions') :
           x \in Live(sessions) /\ x # s /\ sessions'[x] = sessions[x]
    BY <1>1, <1>4 DEF Live, SafetyInv, TypeOK
  <1>6. \A d \in Live(deductions') :
           d \in Live(deductions) /\ d \notin children /\ deductions'[d] = deductions[d]
    BY <1>2, <1>4 DEF Live, SafetyInv, TypeOK
  <1>7. ASSUME NEW d \in Live(deductions')
        PROVE  /\ deductions[d].parent \in Live(sessions')
               /\ sessions'[deductions[d].parent] = sessions[deductions[d].parent]
    <2>1. deductions[d].parent # s /\ deductions[d].parent \in Live(sessions)
      BY <1>6, LiveRows DEF SheetNow, ChildrenOf
    <2> QED
      BY <1>1, <2>1 DEF Live, SafetyInv, TypeOK
  <1>8. \A x \in Live(sessions') : BoundsAllowed(sessions'[x], Now)
    BY <1>5 DEF SheetNow
  <1>9. NoOverlap(sessions', Live(sessions'), Now)
    BY <1>5 DEF SheetNow, NoOverlap
  <1>10. \A d \in Live(deductions') :
            /\ deductions'[d].parent \in Live(sessions')
            /\ BoundsAllowed(deductions'[d], Now)
            /\ Inside(deductions'[d], sessions'[deductions'[d].parent], Now)
    BY <1>6, <1>7 DEF SheetNow
  <1>11. \A d, e \in Live(deductions') :
            d # e /\ deductions'[d].parent = deductions'[e].parent
               => ~Overlap(deductions'[d], deductions'[e], Now)
    BY <1>6 DEF SheetNow
  <1> HIDE DEF children
  <1> QED
    BY <1>8, <1>9, <1>10, <1>11, SheetNext

\* A step that touches no row.
LEMMA UntouchedValid ==
    ASSUME SafetyInv', SheetNow, clock' = Now, UNCHANGED <<sessions, deductions>>
    PROVE  TimesheetValid'
  BY SheetNext DEF SheetNow

\* list_intersecting misses no session that overlaps a completed interval.
LEMMA IntersectingMeets ==
    ASSUME SafetyInv, NEW row, row.start \in Nat, row.end \in Nat \cup {NoTime},
           NEW x \in Live(sessions), x \notin Intersecting(row.start, EndAsOf(row, Now))
    PROVE  ~Overlap(sessions[x], row, Now)
  <1>1. EndAsOf(row, Now) \in Nat
    BY LiveRows DEF EndAsOf
  <1>2. \/ ~(sessions[x].start < EndAsOf(row, Now))
        \/ sessions[x].end # NoTime /\ ~(sessions[x].end > row.start)
    BY DEF Intersecting
  <1> QED
    BY <1>1, <1>2, LiveRows DEF Overlap, EndAsOf, NoTime

\* A row that _validate_candidate accepts stands apart from the sessions it does
\* not look at as well, and its deductions stay inside it.
LEMMA AllowedStandsApart ==
    ASSUME SafetyInv, NEW s \in SessionIds, NEW row, row.start \in Nat,
           row.end \in Nat \cup {NoTime}, SessionAllowed(s, row)
    PROVE  StandsApart(s, row) /\ HoldsChildren(s, row)
  <1> DEFINE others == (Intersecting(row.start, EndAsOf(row, Now))
                          \cup (IF IsOpen(row) THEN Running ELSE {})) \ {s}
             W == [x \in others \cup {s} |-> IF x = s THEN row ELSE sessions[x]]
             P == [d \in ChildrenOf(s) |-> deductions[d]]
  <1>1. ValidIntervals(W, P, Now)
    BY DEF SessionAllowed
  <1>2. /\ \A x \in Live(W) : BoundsAllowed(W[x], Now)
        /\ \A x, y \in Live(W) : x # y => ~Overlap(W[x], W[y], Now)
        /\ \A d \in Live(P) : /\ P[d].parent \in Live(W)
                              /\ Inside(P[d], W[P[d].parent], Now)
    BY <1>1 DEF ValidIntervals, SessionsValid, DeductionsValid, NoOverlap
  <1>3. W[s] = row /\ s \in DOMAIN W
    OBVIOUS
  <1>4. StandsApart(s, row)
    <2>1. SUFFICES ASSUME ~row.dead PROVE StandsApart(s, row)
      BY DEF StandsApart
    <2>2. s \in Live(W)
      BY <1>3, <2>1 DEF Live
    <2>3. ASSUME NEW x \in Live(sessions), x # s PROVE ~Overlap(sessions[x], row, Now)
      <3>1. CASE x \in others
        <4>1. x \in DOMAIN W /\ W[x] = sessions[x]
          BY <2>3, <3>1
        <4>2. x \in Live(W)
          BY <2>3, <4>1, LiveRows DEF Live
        <4> QED
          BY <1>2, <1>3, <2>2, <2>3, <4>1, <4>2
      <3>2. CASE x \notin others
        <4>1. x \notin Intersecting(row.start, EndAsOf(row, Now))
          BY <2>3, <3>2
        <4> QED
          BY <2>3, <4>1, IntersectingMeets
      <3> QED
        BY <3>1, <3>2
    <2> QED
      BY <1>2, <1>3, <2>2, <2>3 DEF StandsApart
  <1>5. HoldsChildren(s, row)
    <2>1. ASSUME NEW d \in ChildrenOf(s) \cap Live(deductions)
          PROVE  ~row.dead /\ Inside(deductions[d], row, Now)
      <3>1. d \in DOMAIN P /\ P[d] = deductions[d] /\ deductions[d].parent = s
        BY <2>1 DEF ChildrenOf
      <3>2. d \in Live(P)
        BY <2>1, <3>1, LiveRows DEF Live
      <3>3. s \in Live(W) /\ Inside(deductions[d], row, Now)
        BY <1>2, <1>3, <3>1, <3>2
      <3> QED
        BY <1>3, <3>3 DEF Live
    <2> QED
      BY <2>1 DEF HoldsChildren
  <1> QED
    BY <1>4, <1>5

\* A deduction row that _validate_candidate accepts fits its session.
LEMMA AllowedFits ==
    ASSUME SafetyInv, NEW d \in DeductionIds, NEW row, row.parent \in SessionIds,
           row.parent = deductions[d].parent, DeductionAllowed(d, row)
    PROVE  FitsSession(d, row)
  <1> DEFINE W == [x \in {row.parent} |-> sessions[x]]
             P == [e \in ChildrenOf(row.parent) |-> IF e = d THEN row ELSE deductions[e]]
  <1>1. ValidIntervals(W, P, Now)
    BY DEF DeductionAllowed
  <1>2. /\ \A e \in Live(P) : /\ P[e].parent \in Live(W)
                              /\ BoundsAllowed(P[e], Now)
                              /\ Inside(P[e], W[P[e].parent], Now)
        /\ \A e, f \in Live(P) :
              e # f /\ P[e].parent = P[f].parent => ~Overlap(P[e], P[f], Now)
    BY <1>1 DEF ValidIntervals, DeductionsValid
  <1>3. d \in DOMAIN P /\ P[d] = row /\ W[row.parent] = sessions[row.parent]
    BY DEF ChildrenOf
  <1>4. SUFFICES ASSUME ~row.dead PROVE FitsSession(d, row)
    BY DEF FitsSession
  <1>5. d \in Live(P)
    BY <1>3, <1>4 DEF Live
  <1>6. row.parent \in Live(sessions)
    <2>1. row.parent \in Live(W)
      BY <1>2, <1>3, <1>5
    <2> QED
      BY <1>3, <2>1 DEF Live, SafetyInv, TypeOK
  <1>7. ASSUME NEW e \in Live(deductions), e # d, deductions[e].parent = row.parent
        PROVE  ~Overlap(deductions[e], row, Now)
    <2>1. e \in DOMAIN P /\ P[e] = deductions[e]
      BY <1>7, LiveRows DEF ChildrenOf
    <2>2. e \in Live(P)
      BY <1>7, <2>1, LiveRows DEF Live
    <2> QED
      BY <1>2, <1>3, <1>5, <1>7, <2>1, <2>2
  <1> QED
    BY <1>2, <1>3, <1>5, <1>6, <1>7 DEF FitsSession

\* A session no command created yet has no live deductions.
LEMMA UnknownIsEmpty ==
    ASSUME SafetyInv, SheetNow, NEW s \in SessionIds, s \notin Known(sessions), NEW row
    PROVE  HoldsChildren(s, row)
  BY UnknownRows DEF HoldsChildren, ChildrenOf, SheetNow, Live

\* Starting, pausing and finishing now.
LEMMA TimerValid ==
    ASSUME SafetyInv, SafetyInv', SheetNow, TimerCommand, ~UndoTimerAction, ~TypedFinish
    PROVE  TimesheetValid'
  <1>a. clock \in Nat /\ Now = clock + 1 /\ Now \in Nat
    BY LiveRows
  <1>1. ASSUME NEW s \in SessionIds, StartWork(s) PROVE TimesheetValid'
    <2>1. PICK r \in Roundings : PutSession(s, NewSession(Now, r, "timer"))
      BY <1>1 DEF StartWork
    <2>2. PICK row : row = NewSession(Now, r, "timer")
      OBVIOUS
    <2>3. row.start = Now /\ row.end = NoTime
      BY <2>2 DEF NewSession, NoSession
    <2>4. ASSUME NEW x \in Live(sessions) PROVE ~Overlap(sessions[x], row, Now)
      <3>1. sessions[x].end # NoTime
        BY <1>1, LiveRows DEF StartWork, Running, IsOpen
      <3> QED
        BY <1>a, <2>3, <3>1, LiveRows DEF SheetNow, BoundsAllowed, Overlap, EndAsOf
    <2>5. BoundsAllowed(row, Now)
      BY <1>a, <2>3 DEF BoundsAllowed, EndAsOf, Readable
    <2>6. StandsApart(s, row) /\ HoldsChildren(s, row)
      BY <1>1, <2>4, <2>5, UnknownIsEmpty DEF StandsApart, StartWork
    <2> QED
      BY <1>1, <2>1, <2>2, <2>6, SessionPutValid DEF StartWork, Elapse
  <1>2. ASSUME NEW s \in SessionIds, NEW t \in TypedTimes, StartWorkAt(s, t)
        PROVE  TimesheetValid'
    <2>1. PICK row : row = NewSession(t, 1, "manual")
      OBVIOUS
    <2>2. row.start = t /\ row.end = NoTime /\ t \in Nat /\ t <= Now
      BY <1>2, <2>1, TimeTrackingAssumption DEF NewSession, NoSession, StartWorkAt
    <2>3. Intersecting(row.start, EndAsOf(row, Now)) = {}
      BY <1>2, <2>2 DEF StartWorkAt, EndAsOf
    <2>4. \A x \in Live(sessions) : ~Overlap(sessions[x], row, Now)
      BY <2>2, <2>3, IntersectingMeets
    <2>5. BoundsAllowed(row, Now)
      BY <1>a, <2>2 DEF BoundsAllowed, EndAsOf, Readable
    <2>6. StandsApart(s, row) /\ HoldsChildren(s, row)
      BY <1>2, <2>4, <2>5, UnknownIsEmpty DEF StandsApart, StartWorkAt
    <2> QED
      BY <1>2, <2>1, <2>6, SessionPutValid DEF StartWorkAt, Elapse
  <1>3. ASSUME NEW s \in SessionIds, NEW t \in TypedTimes \cup {Now}, FinishWork(s, t)
        PROVE  TimesheetValid'
    <2>1. t = Now
      BY <1>3 DEF TypedFinish
    <2>2. PICK row : row = [sessions[s] EXCEPT !.end = Now]
      OBVIOUS
    <2>3. s \in Live(sessions) /\ sessions[s].end = NoTime /\ sessions[s] \in SessionRow
      BY <1>3 DEF FinishWork, Running, IsOpen, Live, SafetyInv, TypeOK
    <2>4. row.start = sessions[s].start /\ row.end = Now /\ ~row.dead
      BY <2>2, <2>3 DEF SessionRow, Live
    <2>5. EndAsOf(row, Now) = EndAsOf(sessions[s], Now)
      BY <1>a, <2>3, <2>4 DEF EndAsOf, NoTime
    <2>6. BoundsAllowed(row, Now)
      BY <1>a, <2>3, <2>4, <2>5, LiveRows DEF SheetNow, BoundsAllowed, Readable
    <2>7. StandsApart(s, row)
      BY <2>3, <2>4, <2>5, <2>6 DEF StandsApart, SheetNow, NoOverlap, Overlap
    <2>8. HoldsChildren(s, row)
      BY <2>3, <2>4, <2>5 DEF HoldsChildren, ChildrenOf, SheetNow, Inside
    <2> QED
      BY <1>3, <2>1, <2>2, <2>7, <2>8, SessionPutValid DEF FinishWork, Elapse
  <1>4. ASSUME NEW s \in SessionIds, NEW d \in DeductionIds, StartDeduction(s, d)
        PROVE  TimesheetValid'
    <2>1. PICK row : /\ PutDeduction(d, row)
                     /\ \E k \in Kinds :
                           row = [NoDeduction EXCEPT !.parent = s, !.kind = k, !.start = Now,
                                                     !.dead = FALSE]
      BY <1>4 DEF StartDeduction
    <2>2. row.parent = s /\ row.start = Now /\ row.end = NoTime
      BY <2>1 DEF NoDeduction
    <2>3. s \in Live(sessions) /\ sessions[s].end = NoTime
      BY <1>4 DEF StartDeduction, Running, IsOpen, Live, SafetyInv, TypeOK
    <2>4. ASSUME NEW e \in Live(deductions), deductions[e].parent = s
          PROVE  ~Overlap(deductions[e], row, Now)
      <3>1. deductions[e].end # NoTime
        BY <1>4, <2>4, LiveRows DEF StartDeduction, RunningIn, ChildrenOf, IsOpen
      <3> QED
        BY <1>a, <2>2, <3>1, LiveRows DEF SheetNow, BoundsAllowed, Overlap, EndAsOf
    <2>5. BoundsAllowed(row, Now) /\ Inside(row, sessions[s], Now)
      BY <1>a, <2>2, <2>3 DEF SheetNow, BoundsAllowed, Inside, EndAsOf, Readable
    <2>6. FitsSession(d, row)
      BY <2>2, <2>3, <2>4, <2>5 DEF FitsSession
    <2> QED
      BY <1>4, <2>1, <2>6, DeductionPutValid DEF StartDeduction, Elapse
  <1>5. ASSUME NEW s \in SessionIds, NEW d \in DeductionIds, FinishDeduction(s, d)
        PROVE  TimesheetValid'
    <2>1. PICK row : row = [deductions[d] EXCEPT !.end = Now]
      OBVIOUS
    <2>2. /\ d \in Live(deductions) /\ deductions[d].end = NoTime
          /\ deductions[d] \in DeductionRow
      BY <1>5 DEF FinishDeduction, RunningIn, IsOpen, Live, SafetyInv, TypeOK
    <2>3. /\ row.start = deductions[d].start /\ row.end = Now
          /\ row.parent = deductions[d].parent
      BY <2>1, <2>2 DEF DeductionRow
    <2>4. EndAsOf(row, Now) = EndAsOf(deductions[d], Now)
      BY <1>a, <2>2, <2>3 DEF EndAsOf, NoTime
    <2>5. BoundsAllowed(row, Now)
      BY <1>a, <2>2, <2>3, <2>4, LiveRows DEF SheetNow, BoundsAllowed, Readable
    <2>6. FitsSession(d, row)
      BY <2>2, <2>3, <2>4, <2>5 DEF FitsSession, SheetNow, Overlap, Inside
    <2> QED
      BY <1>5, <2>1, <2>6, DeductionPutValid DEF FinishDeduction, Elapse
  <1>6. CASE ForgetUndo
    BY <1>6, UntouchedValid DEF ForgetUndo, Elapse
  <1> QED
    BY <1>1, <1>2, <1>3, <1>4, <1>5, <1>6 DEF TimerCommand

\* Resolving an unfinished day, and counting a sleep interval as work.
LEMMA ResolutionValid ==
    ASSUME SafetyInv, SafetyInv', SheetNow, ResolutionCommand, ~ExcludeSleep
    PROVE  TimesheetValid'
  <1>1. ASSUME NEW s \in SessionIds, ContinueRecovery(s) PROVE TimesheetValid'
    <2>1. PICK row : row = [sessions[s] EXCEPT !.ack = TRUE]
      OBVIOUS
    <2>2. s \in Live(sessions) /\ sessions[s] \in SessionRow
      BY <1>1 DEF ContinueRecovery, Running, IsOpen, Live, SafetyInv, TypeOK
    <2>3. /\ row.start = sessions[s].start /\ row.end = sessions[s].end
          /\ row.dead = sessions[s].dead
      BY <2>1, <2>2 DEF SessionRow
    <2>4. BoundsAllowed(row, Now)
      BY <2>2, <2>3 DEF SheetNow, BoundsAllowed, EndAsOf, Readable
    <2>5. StandsApart(s, row)
      BY <2>2, <2>3, <2>4 DEF StandsApart, SheetNow, NoOverlap, Overlap, EndAsOf
    <2>6. HoldsChildren(s, row)
      BY <2>2, <2>3, LiveRows DEF HoldsChildren, ChildrenOf, SheetNow, Inside, EndAsOf
    <2> QED
      BY <1>1, <2>1, <2>5, <2>6, SessionPutValid DEF ContinueRecovery, Elapse
  <1>2. ASSUME NEW s \in SessionIds, DeleteRecovery(s) PROVE TimesheetValid'
    BY <1>2, DeleteValid DEF DeleteRecovery, Elapse
  <1>3. ASSUME NEW s \in SessionIds, NEW t \in Instants, DetectSleepGap(s, t)
        PROVE  TimesheetValid'
    BY <1>3, UntouchedValid DEF DetectSleepGap, Elapse
  <1>4. CASE IncludeSleep
    BY <1>4, UntouchedValid DEF IncludeSleep, Elapse
  <1> QED
    BY <1>1, <1>2, <1>3, <1>4 DEF ResolutionCommand

\* A restored before-image is validated like a correction.
LEMMA RestoreValid ==
    ASSUME SafetyInv, SafetyInv', SheetNow, NEW entry \in audit, RestoreImage(entry)
    PROVE  TimesheetValid'
  <1>a. clock' = Now
    BY DEF RestoreImage, Elapse
  <1>1. CASE entry.of \in SessionIds
    <2>1. /\ entry.row \in SessionRow /\ entry.row.start \in Nat
          /\ entry.row.end \in Nat \cup {NoTime}
      BY <1>1, ImageTypes DEF SafetyInv, Stored, SessionRow, Times
    <2>2. /\ SessionAllowed(entry.of, entry.row) /\ PutSession(entry.of, entry.row)
          /\ deductions' = deductions
      BY <1>1, TimeTrackingAssumption DEF RestoreImage
    <2> QED
      BY <1>1, <1>a, <2>1, <2>2, AllowedStandsApart, SessionPutValid
  <1>2. CASE entry.of \in DeductionIds
    <2>1. entry.row.parent \in SessionIds /\ entry.row.parent = deductions[entry.of].parent
      BY <1>2 DEF SafetyInv, Stored
    <2>2. /\ DeductionAllowed(entry.of, entry.row) /\ PutDeduction(entry.of, entry.row)
          /\ sessions' = sessions
      BY <1>2, TimeTrackingAssumption DEF RestoreImage
    <2> QED
      BY <1>2, <1>a, <2>1, <2>2, AllowedFits, DeductionPutValid
  <1> QED
    BY <1>1, <1>2, ImageTypes DEF SafetyInv

\* Manual entries, corrections, deletions and restored history.
LEMMA CorrectionValid ==
    ASSUME SafetyInv, SafetyInv', SheetNow, CorrectionCommand
    PROVE  TimesheetValid'
  <1>a. clock \in Nat /\ Now = clock + 1 /\ Now \in Nat /\ TypedTimes \subseteq Nat
    BY LiveRows, TimeTrackingAssumption
  <1>1. ASSUME NEW s \in SessionIds, NEW from \in TypedTimes, NEW to \in TypedTimes,
               AddManualSession(s, from, to)
        PROVE  TimesheetValid'
    <2>1. PICK row : row = [NewSession(from, 1, "manual") EXCEPT !.end = to]
      OBVIOUS
    <2>2. row.start = from /\ row.end = to
      BY <2>1 DEF NewSession, NoSession
    <2>3. EndAsOf(row, Now) = to /\ from < to /\ to <= Now
      BY <1>1, <1>a, <2>2 DEF EndAsOf, NoTime, AddManualSession, CompletedTimes
    <2>4. \A x \in Live(sessions) : ~Overlap(sessions[x], row, Now)
      BY <1>1, <1>a, <2>2, <2>3, IntersectingMeets DEF AddManualSession
    <2>5. BoundsAllowed(row, Now)
      BY <1>a, <2>2, <2>3 DEF BoundsAllowed, Readable
    <2>6. StandsApart(s, row) /\ HoldsChildren(s, row)
      BY <1>1, <2>4, <2>5, UnknownIsEmpty DEF StandsApart, AddManualSession
    <2> QED
      BY <1>1, <2>1, <2>6, SessionPutValid DEF AddManualSession, Elapse
  <1>2. ASSUME NEW s \in SessionIds, NEW from \in TypedTimes, NEW to \in TypedTimes,
               UpdateWorkSession(s, from, to)
        PROVE  TimesheetValid'
    <2>1. PICK row :
             row = [sessions[s] EXCEPT !.start = from, !.end = to, !.source = "manual"]
      OBVIOUS
    <2>2. row.start \in Nat /\ row.end \in Nat \cup {NoTime}
      BY <1>a, <2>1 DEF SafetyInv, TypeOK, SessionRow
    <2> QED
      BY <1>2, <2>1, <2>2, AllowedStandsApart, SessionPutValid DEF UpdateWorkSession, Elapse
  <1>3. ASSUME NEW s \in SessionIds, NEW d \in DeductionIds, NEW from \in TypedTimes,
               NEW to \in TypedTimes, AddManualDeduction(s, d, from, to)
        PROVE  TimesheetValid'
    <2>1. PICK row : /\ PutDeduction(d, row)
                     /\ \E k \in Kinds : row = [parent |-> s, kind |-> k, start |-> from,
                                                end |-> to, dead |-> FALSE]
      BY <1>3 DEF AddManualDeduction
    <2>2. row.parent = s /\ row.start = from /\ row.end = to
      BY <2>1
    <2>3. EndAsOf(row, Now) = to /\ from < to /\ to <= Now
      BY <1>3, <1>a, <2>2 DEF EndAsOf, NoTime, AddManualDeduction, CompletedTimes
    <2>4. s \in Live(sessions) /\ Fits(s, from, to)
      BY <1>3 DEF AddManualDeduction
    <2>5. ASSUME NEW e \in Live(deductions), deductions[e].parent = s
          PROVE  ~Overlap(deductions[e], row, Now)
      <3>1. e \in ChildrenOf(s) \cap Live(deductions)
        BY <2>5, LiveRows DEF ChildrenOf
      <3>2. \/ to <= deductions[e].start
            \/ deductions[e].end # NoTime /\ deductions[e].end <= from
        BY <2>4, <3>1 DEF Fits
      <3> QED
        BY <1>a, <2>2, <2>3, <3>2, LiveRows DEF Overlap, EndAsOf
    <2>6. BoundsAllowed(row, Now) /\ Inside(row, sessions[s], Now)
      BY <1>a, <2>2, <2>3, <2>4, LiveRows DEF BoundsAllowed, Readable, Inside, Fits, EndAsOf
    <2>7. FitsSession(d, row)
      BY <2>2, <2>4, <2>5, <2>6 DEF FitsSession
    <2> QED
      BY <1>3, <2>1, <2>7, DeductionPutValid DEF AddManualDeduction, Elapse
  <1>4. ASSUME NEW d \in DeductionIds, NEW from \in TypedTimes, NEW to \in TypedTimes,
               UpdateDeduction(d, from, to)
        PROVE  TimesheetValid'
    <2>1. PICK row : row = [deductions[d] EXCEPT !.start = from, !.end = to]
      OBVIOUS
    <2>2. row.parent = deductions[d].parent /\ row.parent \in SessionIds
      BY <1>4, <2>1, LiveRows DEF SafetyInv, TypeOK, DeductionRow, UpdateDeduction
    <2> QED
      BY <1>4, <2>1, <2>2, AllowedFits, DeductionPutValid DEF UpdateDeduction, Elapse
  <1>5. ASSUME NEW s \in SessionIds, DeleteWorkSession(s) PROVE TimesheetValid'
    BY <1>5, DeleteValid DEF DeleteWorkSession, Elapse
  <1>6. ASSUME NEW s \in SessionIds, NEW t \in TypedTimes, UpdateActiveWorkStart(s, t)
        PROVE  TimesheetValid'
    <2>1. PICK row :
             row = [sessions[s] EXCEPT !.start = t, !.rounding = 1, !.source = "manual"]
      OBVIOUS
    <2>2. sessions[s] \in SessionRow
      BY DEF SafetyInv, TypeOK
    <2>3. row.start \in Nat /\ row.end \in Nat \cup {NoTime}
      BY <1>a, <2>1, <2>2 DEF SessionRow, Times
    <2> QED
      BY <1>6, <2>1, <2>3, AllowedStandsApart, SessionPutValid DEF UpdateActiveWorkStart, Elapse
  <1>7. ASSUME NEW d \in DeductionIds, DeleteDeduction(d) PROVE TimesheetValid'
    <2>1. PICK row : row = [deductions[d] EXCEPT !.dead = TRUE]
      OBVIOUS
    <2>2. row.dead
      <3>1. deductions[d] \in DeductionRow
        BY DEF SafetyInv, TypeOK
      <3>2. [deductions[d] EXCEPT !.dead = TRUE].dead
        BY <3>1, Zenon DEF DeductionRow
      <3> QED
        BY <2>1, <3>2
    <2> QED
      BY <1>7, <2>1, <2>2, DeductionPutValid DEF DeleteDeduction, FitsSession, Elapse
  <1>8. ASSUME NEW entry \in audit, RestoreImage(entry) PROVE TimesheetValid'
    BY <1>8, RestoreValid
  <1> QED
    BY <1>1, <1>2, <1>3, <1>4, <1>5, <1>6, <1>7, <1>8
    DEF CorrectionCommand, RestoreHistoryEntry, RestoreLatest

\* Every command but Undo, Exclude sleep and a typed finish time takes a valid
\* timesheet to a valid one, although none of them looks at all of its rows.
THEOREM TimesheetKeptValid == Spec => CheckedCommandsKeepTimesheetValid
  <1>1. ASSUME SafetyInv, SafetyInv', Next, TimesheetValid,
               ~UndoTimerAction, ~ExcludeSleep, ~TypedFinish
        PROVE  TimesheetValid'
    <2>1. SheetNow
      BY <1>1, ValidLater
    <2>2. CASE ReminderCommand \/ ContextCommand \/ Restart \/ Idle
      <3>1. clock' = Now /\ UNCHANGED <<sessions, deductions>>
        BY <2>2 DEF ReminderCommand, DueReminders, SnoozeReminder, ContextCommand,
                    UpdateDayDetails, Restart, Idle, Elapse
      <3> QED
        BY <1>1, <2>1, <3>1, UntouchedValid
    <2> QED
      BY <1>1, <2>1, <2>2, TimerValid, ResolutionValid, CorrectionValid DEF Next
  <1>2. SafetyInv /\ SafetyInv' /\ [Next]_vars =>
           [TimesheetValid /\ ~UndoTimerAction /\ ~ExcludeSleep /\ ~TypedFinish
               => TimesheetValid']_vars
    BY <1>1
  <1>3. Init => SafetyInv
    BY InitType, InitSafe DEF SafetyInv
  <1>4. SafetyInv /\ [Next]_vars => SafetyInv'
    BY NextSafe
  <1> QED
    BY <1>2, <1>3, <1>4, PTL DEF Spec, CheckedCommandsKeepTimesheetValid
-----------------------------------------------------------------------------
\* The slots of the two settings name running timers only.
SlotsNameTimers(k) ==
    /\ notified[k] # NoId => notified[k] \in ReminderSubject(k)
    /\ snoozed[k].of # NoId => snoozed[k].of \in ReminderSubject(k)

\* What a slot says was promised.
SlotsPromised(k) ==
    /\ notified[k] # NoId => [kind |-> k, of |-> notified[k], until |-> Forever] \in promises
    /\ snoozed[k].of # NoId =>
          /\ snoozed[k].until \in Nat
          /\ [kind |-> k, of |-> snoozed[k].of, until |-> snoozed[k].until] \in promises

\* A timer that was reminded of although it had been snoozed: its snooze is over.
SnoozeSpent(k) ==
    notified[k] # NoId /\ notified[k] = snoozed[k].of => snoozed[k].until <= clock

SlotsSound == \A k \in ReminderKinds : SlotsNameTimers(k) /\ SlotsPromised(k) /\ SnoozeSpent(k)

\* Each promise that stands is about a running timer and is still in its slot.
InSlot(p) == \/ p.until = Forever /\ notified[p.kind] = p.of
             \/ snoozed[p.kind].of = p.of /\ snoozed[p.kind].until = p.until
PromiseSet == [kind : ReminderKinds, of : SessionIds \cup DeductionIds, until : Nat]
PromisesInSlots ==
    \A p \in promises : p \in PromiseSet /\ p.of \in ReminderSubject(p.kind) /\ InSlot(p)

ReminderInv == SafetyInv /\ clock <= MaxTime /\ SlotsSound /\ PromisesInSlots

\* The running lunches: each belongs to the session that runs.
Lunches == {d \in DeductionIds : IsOpen(deductions[d]) /\ deductions[d].kind = "lunch"}

LEMMA Subjects ==
    ASSUME SafetyInv
    PROVE  /\ ReminderSubject("work") = Running
           /\ ReminderSubject("lunch") = Lunches
  <1>1. \A d \in DeductionIds : IsOpen(deductions[d]) => deductions[d].parent \in Running
    BY DEF SafetyInv, OneTimer
  <1>2. ReminderSubject("lunch") = Lunches
    BY <1>1 DEF ReminderSubject, Lunches, RunningIn, ChildrenOf
  <1> QED
    BY <1>2 DEF ReminderSubject

\* At most one timer of each kind runs, and it is an identity.
LEMMA OneSubject ==
    ASSUME SafetyInv, NEW k \in ReminderKinds
    PROVE  /\ ReminderSubject(k) \subseteq SessionIds \cup DeductionIds
           /\ NoId \notin ReminderSubject(k)
           /\ \A x, y \in ReminderSubject(k) : x = y
  <1>1. /\ DOMAIN sessions = SessionIds /\ DOMAIN deductions = DeductionIds
        /\ NoId \notin SessionIds /\ NoId \notin DeductionIds
    BY TimeTrackingAssumption DEF SafetyInv, TypeOK
  <1>2. /\ Running \subseteq SessionIds /\ Lunches \subseteq DeductionIds
        /\ \A x, y \in Running : x = y
        /\ \A x, y \in Lunches : x = y
    BY <1>1 DEF SafetyInv, OneTimer, AtMostOneOpen, Running, Lunches
  <1>3. k = "work" \/ k = "lunch"
    BY DEF ReminderKinds
  <1> QED
    BY <1>1, <1>2, <1>3, Subjects

\* The passing of time and of promises, common to every step.
PromisesPass ==
    /\ clock < MaxTime /\ clock' = Now
    /\ promises' = {p \in promises : StillMade(p)} \cup Delivered \cup Snoozed

\* A step that touches no timer's slot but those of the timers it ends.
Frame(k) ==
    /\ notified'[k] \in {notified[k], NoId}
    /\ snoozed'[k] \in {snoozed[k], NoSnooze}
    /\ \A x \in ReminderSubject(k) :
          IF x \in ReminderSubject(k)'
          THEN /\ notified[k] = x => notified'[k] = x
               /\ snoozed[k].of = x => snoozed'[k] = snoozed[k]
          ELSE notified'[k] # x /\ snoozed'[k].of # x

LEMMA FrameSafe ==
    ASSUME ReminderInv, SafetyInv', PromisesPass, \A k \in ReminderKinds : Frame(k)
    PROVE  ReminderInv'
  <1>1. clock \in Nat /\ clock <= clock' /\ clock' <= MaxTime /\ clock' \in Nat
    BY TimeTrackingAssumption DEF PromisesPass, Now, ReminderInv, SafetyInv, TypeOK
  <1>2. Delivered = {}
    <2>1. SUFFICES ASSUME NEW p \in Delivered PROVE FALSE
      OBVIOUS
    <2>2. /\ p.kind \in ReminderKinds /\ p.of \in SessionIds \cup DeductionIds
          /\ notified'[p.kind] = p.of /\ notified[p.kind] # p.of
      BY DEF Delivered
    <2>3. NoId \notin SessionIds \cup DeductionIds
      BY TimeTrackingAssumption
    <2> QED
      BY <2>2, <2>3 DEF Frame
  <1>3. Snoozed = {}
    BY DEF Snoozed, Frame
  <1>4. promises' = {p \in promises : StillMade(p)}
    BY <1>2, <1>3 DEF PromisesPass
  <1>5. ASSUME NEW k \in ReminderKinds
        PROVE  SlotsNameTimers(k)' /\ SlotsPromised(k)' /\ SnoozeSpent(k)'
    <2>1. Frame(k) /\ SlotsNameTimers(k) /\ SlotsPromised(k) /\ SnoozeSpent(k)
      BY DEF ReminderInv, SlotsSound
    <2>n. NoSnooze.of = NoId
      BY DEF NoSnooze
    <2>2. notified'[k] # NoId => /\ notified'[k] = notified[k] /\ notified[k] # NoId
                                 /\ notified[k] \in ReminderSubject(k)
                                 /\ notified[k] \in ReminderSubject(k)'
      BY <2>1 DEF Frame, SlotsNameTimers
    <2>3. snoozed'[k].of # NoId => /\ snoozed'[k] = snoozed[k] /\ snoozed[k].of # NoId
                                   /\ snoozed[k].of \in ReminderSubject(k)
                                   /\ snoozed[k].of \in ReminderSubject(k)'
      BY <2>1, <2>n DEF Frame, SlotsNameTimers
    <2>4. SlotsNameTimers(k)'
      BY <2>2, <2>3 DEF SlotsNameTimers
    <2>5. \A x \in ReminderSubject(k)' \cap ReminderSubject(k) : \A t \in Nat :
             [kind |-> k, of |-> x, until |-> t] \in promises
             => [kind |-> k, of |-> x, until |-> t] \in promises'
      <3>1. SUFFICES ASSUME NEW x \in ReminderSubject(k)' \cap ReminderSubject(k), NEW t \in Nat,
                            [kind |-> k, of |-> x, until |-> t] \in promises
                     PROVE  [kind |-> k, of |-> x, until |-> t] \in promises'
        OBVIOUS
      <3>2. snoozed'[k].of = x => snoozed'[k] = snoozed[k]
        <4>1. x # NoId
          BY <3>1, OneSubject DEF ReminderInv
        <4> QED
          BY <2>1, <2>n, <4>1 DEF Frame
      <3>3. PICK p : p = [kind |-> k, of |-> x, until |-> t]
        OBVIOUS
      <3>4. p.kind = k /\ p.of = x
        BY <3>3
      <3>5. StillMade(p)
        BY <3>1, <3>2, <3>4 DEF StillMade
      <3> QED
        BY <1>4, <3>1, <3>3, <3>5
    <2>6. Forever \in Nat
      BY TimeTrackingAssumption DEF Forever
    <2>7. SlotsPromised(k)'
      <3>1. notified'[k] # NoId => [kind |-> k, of |-> notified'[k], until |-> Forever] \in promises'
        BY <2>1, <2>2, <2>5, <2>6 DEF SlotsPromised
      <3>2. snoozed'[k].of # NoId =>
               /\ snoozed'[k].until \in Nat
               /\ [kind |-> k, of |-> snoozed'[k].of, until |-> snoozed'[k].until] \in promises'
        BY <2>1, <2>3, <2>5 DEF SlotsPromised
      <3>3. Forever' = Forever
        BY DEF Forever
      <3> QED
        BY <3>1, <3>2, <3>3 DEF SlotsPromised
    <2>8. SnoozeSpent(k)'
      <3>1. SUFFICES ASSUME notified'[k] # NoId, notified'[k] = snoozed'[k].of
                     PROVE  snoozed'[k].until <= clock'
        BY DEF SnoozeSpent
      <3>2. snoozed[k].until \in Nat /\ snoozed[k].until <= clock /\ snoozed'[k] = snoozed[k]
        BY <2>1, <2>2, <2>3, <3>1 DEF SnoozeSpent, SlotsPromised
      <3> QED
        BY <1>1, <3>2
    <2> QED
      BY <2>4, <2>7, <2>8
  <1>6. ASSUME NEW p \in promises'
        PROVE  p \in PromiseSet /\ p.of \in ReminderSubject(p.kind)' /\ InSlot(p)'
    <2>1. p \in promises /\ StillMade(p)
      BY <1>4
    <2>2. p \in PromiseSet /\ p.of \in ReminderSubject(p.kind) /\ InSlot(p)
      BY <2>1 DEF ReminderInv, PromisesInSlots
    <2>3. p.kind \in ReminderKinds /\ p.of \in ReminderSubject(p.kind)'
      BY <2>1, <2>2 DEF StillMade, PromiseSet
    <2>4. InSlot(p)'
      BY <2>2, <2>3 DEF InSlot, Frame, Forever
    <2> QED
      BY <2>2, <2>3, <2>4
  <1>7. SlotsSound' /\ PromisesInSlots'
    BY <1>5, <1>6 DEF SlotsSound, PromisesInSlots
  <1> QED
    BY <1>1, <1>7 DEF ReminderInv

\* Steps that leave the slots alone and end no timer.
LEMMA KeepFrame ==
    ASSUME NEW k \in ReminderKinds, UNCHANGED reminders,
           ReminderSubject(k) \subseteq ReminderSubject(k)'
    PROVE  Frame(k)
  BY DEF Frame, reminders

\* Steps that retire exactly the timers they end.
LEMMA RetireFrame ==
    ASSUME SafetyInv, NEW k \in ReminderKinds, NEW S, Retire(S),
           \A x \in ReminderSubject(k) : x \in ReminderSubject(k)' <=> x \notin S
    PROVE  Frame(k)
  <1>1. NoId \notin ReminderSubject(k)
    BY OneSubject
  <1>2. /\ notified'[k] = IF notified[k] \in S THEN NoId ELSE notified[k]
        /\ snoozed'[k] = IF snoozed[k].of \in S THEN NoSnooze ELSE snoozed[k]
    BY DEF Retire, ReminderKinds
  <1> QED
    BY <1>1, <1>2 DEF Frame, NoSnooze

LEMMA SubjectsNext ==
    ASSUME SafetyInv'
    PROVE  ReminderSubject("work")' = Running' /\ ReminderSubject("lunch")' = Lunches'
  <1>1. ReminderSubject("work")' = Running'
    BY DEF ReminderSubject
  <1>2. \A d \in DeductionIds : IsOpen(deductions'[d]) => deductions'[d].parent \in Running'
    BY DEF SafetyInv, OneTimer, IsOpen
  <1>3. ReminderSubject("lunch")' = Lunches'
    BY <1>2 DEF ReminderSubject, Lunches, RunningIn, ChildrenOf, IsOpen
  <1> QED
    BY <1>1, <1>3

\* The frame of a step, from what becomes of the running session and lunch.
LEMMA FramesKept ==
    ASSUME SafetyInv, SafetyInv', UNCHANGED reminders,
           Running \subseteq Running', Lunches \subseteq Lunches'
    PROVE  \A k \in ReminderKinds : Frame(k)
  <1>1. ASSUME NEW k \in ReminderKinds PROVE ReminderSubject(k) \subseteq ReminderSubject(k)'
    BY Subjects, SubjectsNext DEF ReminderKinds
  <1> QED
    BY <1>1, KeepFrame

LEMMA FramesRetired ==
    ASSUME SafetyInv, SafetyInv', NEW S, Retire(S),
           \A x \in Running : x \in Running' <=> x \notin S,
           \A x \in Lunches : x \in Lunches' <=> x \notin S
    PROVE  \A k \in ReminderKinds : Frame(k)
  <1>1. ASSUME NEW k \in ReminderKinds
        PROVE  \A x \in ReminderSubject(k) : x \in ReminderSubject(k)' <=> x \notin S
    BY Subjects, SubjectsNext DEF ReminderKinds
  <1> QED
    BY <1>1, RetireFrame

\* What saving one row does to the timers that run.
LEMMA SessionPutTimers ==
    ASSUME SafetyInv, NEW s \in SessionIds, NEW row, PutSession(s, row), UNCHANGED deductions
    PROVE  /\ Running' = IF IsOpen(row) THEN Running \cup {s} ELSE Running \ {s}
           /\ Lunches' = Lunches
  <1>1. DOMAIN sessions = SessionIds /\ TypeOK
    BY DEF SafetyInv, TypeOK
  <1>2. sessions'[s] = row /\ \A x \in SessionIds \ {s} : sessions'[x] = sessions[x]
    BY <1>1, PutChanges
  <1> QED
    BY <1>2 DEF Running, Lunches

LEMMA DeductionPutTimers ==
    ASSUME SafetyInv, NEW d \in DeductionIds, NEW row, PutDeduction(d, row), UNCHANGED sessions
    PROVE  /\ Lunches' = IF IsOpen(row) /\ row.kind = "lunch" THEN Lunches \cup {d}
                         ELSE Lunches \ {d}
           /\ Running' = Running
  <1>1. DOMAIN deductions = DeductionIds /\ TypeOK
    BY DEF SafetyInv, TypeOK
  <1>2. deductions'[d] = row /\ \A x \in DeductionIds \ {d} : deductions'[x] = deductions[x]
    BY <1>1, PutChanges
  <1> QED
    BY <1>2 DEF Running, Lunches

LEMMA ApartIds == Running \cap DeductionIds = {} /\ Lunches \cap SessionIds = {}
  BY TimeTrackingAssumption DEF Running, Lunches

LEMMA DeleteFrames ==
    ASSUME SafetyInv, SafetyInv', NEW s \in SessionIds, Delete(s)
    PROVE  \A k \in ReminderKinds : Frame(k)
  <1> DEFINE children == ChildrenOf(s) \cap Live(deductions)
  <1>1. /\ DOMAIN sessions = SessionIds /\ DOMAIN deductions = DeductionIds /\ TypeOK
    BY DEF SafetyInv, TypeOK
  <1>2. sessions[s] \in SessionRow /\ [sessions[s] EXCEPT !.dead = TRUE].dead
    BY <1>1 DEF TypeOK, SessionRow
  <1>3. /\ sessions'[s].dead /\ \A x \in SessionIds \ {s} : sessions'[x] = sessions[x]
    BY <1>1, <1>2, PutChanges DEF Delete
  <1>4. \A x \in Running : x \in Running' <=> x # s
    BY <1>3 DEF Running, IsOpen
  <1>5. \A d \in DeductionIds : deductions'[d] =
           IF d \in children THEN [deductions[d] EXCEPT !.dead = TRUE] ELSE deductions[d]
    BY DEF Delete
  <1>6. \A d \in DeductionIds : [deductions[d] EXCEPT !.dead = TRUE].dead
    BY <1>1 DEF TypeOK, DeductionRow
  <1>7. \A x \in Lunches : x \in Lunches' <=> x \notin children
    BY <1>5, <1>6 DEF Lunches, IsOpen
  <1>8. children \subseteq DeductionIds /\ Retire({s} \cup children)
    BY DEF Delete, ChildrenOf
  <1> HIDE DEF children
  <1>9. /\ \A x \in Running : x \in Running' <=> x \notin {s} \cup children
        /\ \A x \in Lunches : x \in Lunches' <=> x \notin {s} \cup children
    BY <1>4, <1>7, <1>8, ApartIds
  <1> QED
    BY <1>8, <1>9, FramesRetired

\* The four ways Undo takes a timer action back.
LEMMA UndoFrames ==
    ASSUME SafetyInv, SafetyInv', UndoTimerAction
    PROVE  \A k \in ReminderKinds : Frame(k)
  <1>a. TypeOK
    BY DEF SafetyInv
  <1>1. ASSUME NEW s \in SessionIds, UndoStart(s) PROVE \A k \in ReminderKinds : Frame(k)
    <2> DEFINE row == [sessions[s] EXCEPT !.dead = TRUE]
    <2>1. PutSession(s, row) /\ Retire({s}) /\ UNCHANGED deductions
      BY <1>1 DEF UndoStart
    <2>2. ~IsOpen(row)
      BY <1>a DEF IsOpen, TypeOK, SessionRow
    <2> HIDE DEF row
    <2>3. Running' = Running \ {s} /\ Lunches' = Lunches
      BY <2>1, <2>2, SessionPutTimers
    <2>4. /\ \A x \in Running : x \in Running' <=> x \notin {s}
          /\ \A x \in Lunches : x \in Lunches' <=> x \notin {s}
      BY <2>3, ApartIds
    <2> QED
      BY <2>1, <2>4, FramesRetired
  <1>2. ASSUME NEW s \in SessionIds, UndoFinish(s) PROVE \A k \in ReminderKinds : Frame(k)
    <2>1. Running \subseteq Running' /\ Lunches \subseteq Lunches'
      BY <1>2 DEF UndoFinish, Lunches
    <2> QED
      BY <1>2, <2>1, FramesKept DEF UndoFinish
  <1>3. ASSUME NEW d \in DeductionIds, UndoStartDeduction(d)
        PROVE  \A k \in ReminderKinds : Frame(k)
    <2> DEFINE row == [deductions[d] EXCEPT !.dead = TRUE]
    <2>1. PutDeduction(d, row) /\ Retire({d}) /\ UNCHANGED sessions
      BY <1>3 DEF UndoStartDeduction
    <2>2. ~IsOpen(row)
      BY <1>a DEF IsOpen, TypeOK, DeductionRow
    <2> HIDE DEF row
    <2>3. Running' = Running /\ Lunches' = Lunches \ {d}
      BY <2>1, <2>2, DeductionPutTimers
    <2>4. /\ \A x \in Running : x \in Running' <=> x \notin {d}
          /\ \A x \in Lunches : x \in Lunches' <=> x \notin {d}
      BY <2>3, ApartIds
    <2> QED
      BY <2>1, <2>4, FramesRetired
  <1>4. ASSUME NEW d \in DeductionIds, UndoFinishDeduction(d)
        PROVE  \A k \in ReminderKinds : Frame(k)
    <2> DEFINE row == [deductions[d] EXCEPT !.end = NoTime]
    <2>1. PutDeduction(d, row) /\ UNCHANGED <<sessions, reminders>> /\ ~IsOpen(deductions[d])
      BY <1>4 DEF UndoFinishDeduction, IsOpen
    <2>2. d \notin Lunches
      BY <2>1 DEF Lunches
    <2> HIDE DEF row
    <2>3. Running \subseteq Running' /\ Lunches \subseteq Lunches'
      BY <2>1, <2>2, DeductionPutTimers
    <2> QED
      BY <2>1, <2>3, FramesKept
  <1> QED
    BY <1>1, <1>2, <1>3, <1>4 DEF UndoTimerAction

LEMMA TimerFrames ==
    ASSUME SafetyInv, SafetyInv', TimerCommand
    PROVE  Elapse /\ \A k \in ReminderKinds : Frame(k)
  <1>a. TypeOK /\ TypedTimes \subseteq Nat /\ Now \in Nat /\ NoTime \notin Nat
    BY TimeTrackingAssumption DEF SafetyInv, TypeOK, Now, NoTime
  <1>1. ASSUME NEW s \in SessionIds, NEW row, PutSession(s, row), s \notin Known(sessions),
               UNCHANGED <<deductions, reminders>>
        PROVE  \A k \in ReminderKinds : Frame(k)
    <2>1. s \notin Running
      BY <1>1, UnknownRows DEF Running, IsOpen
    <2>2. Running \subseteq Running' /\ Lunches \subseteq Lunches'
      BY <1>1, <2>1, SessionPutTimers
    <2> QED
      BY <1>1, <2>2, FramesKept
  <1>2. ASSUME NEW s \in SessionIds, StartWork(s) PROVE Elapse /\ \A k \in ReminderKinds : Frame(k)
    BY <1>1, <1>2 DEF StartWork
  <1>3. ASSUME NEW s \in SessionIds, NEW t \in TypedTimes, StartWorkAt(s, t)
        PROVE  Elapse /\ \A k \in ReminderKinds : Frame(k)
    BY <1>1, <1>3 DEF StartWorkAt
  <1>4. ASSUME NEW s \in SessionIds, NEW t \in TypedTimes \cup {Now}, FinishWork(s, t)
        PROVE  Elapse /\ \A k \in ReminderKinds : Frame(k)
    <2> DEFINE row == [sessions[s] EXCEPT !.end = t]
    <2>1. Elapse /\ PutSession(s, row) /\ Retire({s}) /\ UNCHANGED deductions
      BY <1>4 DEF FinishWork
    <2>2. ~IsOpen(row)
      BY <1>a DEF IsOpen, TypeOK, SessionRow
    <2> HIDE DEF row
    <2>3. Running' = Running \ {s} /\ Lunches' = Lunches
      BY <2>1, <2>2, SessionPutTimers
    <2>4. /\ \A x \in Running : x \in Running' <=> x \notin {s}
          /\ \A x \in Lunches : x \in Lunches' <=> x \notin {s}
      BY <2>3, ApartIds
    <2> QED
      BY <2>1, <2>4, FramesRetired
  <1>5. ASSUME NEW s \in SessionIds, NEW d \in DeductionIds, StartDeduction(s, d)
        PROVE  Elapse /\ \A k \in ReminderKinds : Frame(k)
    <2>1. PICK row : PutDeduction(d, row)
      BY <1>5 DEF StartDeduction
    <2>2. d \notin Lunches /\ UNCHANGED <<sessions, reminders>> /\ Elapse
      BY <1>5, UnknownRows DEF StartDeduction, Lunches, IsOpen
    <2>3. Running \subseteq Running' /\ Lunches \subseteq Lunches'
      BY <2>1, <2>2, DeductionPutTimers
    <2> QED
      BY <2>2, <2>3, FramesKept
  <1>6. ASSUME NEW s \in SessionIds, NEW d \in DeductionIds, FinishDeduction(s, d)
        PROVE  Elapse /\ \A k \in ReminderKinds : Frame(k)
    <2> DEFINE row == [deductions[d] EXCEPT !.end = Now]
    <2>1. Elapse /\ PutDeduction(d, row) /\ Retire({d}) /\ UNCHANGED sessions
      BY <1>6 DEF FinishDeduction
    <2>2. ~IsOpen(row)
      BY <1>a DEF IsOpen, TypeOK, DeductionRow
    <2> HIDE DEF row
    <2>3. Running' = Running /\ Lunches' = Lunches \ {d}
      BY <2>1, <2>2, DeductionPutTimers
    <2>4. /\ \A x \in Running : x \in Running' <=> x \notin {d}
          /\ \A x \in Lunches : x \in Lunches' <=> x \notin {d}
      BY <2>3, ApartIds
    <2> QED
      BY <2>1, <2>4, FramesRetired
  <1>7. CASE UndoTimerAction
    BY <1>7, UndoFrames DEF UndoTimerAction
  <1>8. CASE ForgetUndo
    BY <1>8, FramesKept DEF ForgetUndo, Running, Lunches
  <1> QED
    BY <1>2, <1>3, <1>4, <1>5, <1>6, <1>7, <1>8 DEF TimerCommand

\* The subjects depend on the tables of sessions and deductions only.
LEMMA SameSubjects ==
    ASSUME UNCHANGED <<sessions, deductions>>, NEW k
    PROVE  ReminderSubject(k)' = ReminderSubject(k)
  BY DEF ReminderSubject, Running, RunningIn, ChildrenOf

\* A reminder is delivered for a timer nothing was promised to that still stands.
LEMMA DueSafe ==
    ASSUME ReminderInv, SafetyInv', PromisesPass, DueReminders
    PROVE  ReminderInv'
  <1>1. clock \in Nat /\ clock' = clock + 1 /\ clock' <= MaxTime
    BY TimeTrackingAssumption DEF PromisesPass, Now, ReminderInv, SafetyInv, TypeOK
  <1>2. UNCHANGED <<sessions, deductions>> /\ snoozed' = snoozed
    BY DEF DueReminders
  <1>3. Snoozed = {}
    BY <1>2 DEF Snoozed
  <1>4. \A p \in promises : StillMade(p)
    BY <1>2, SameSubjects DEF StillMade, ReminderInv, PromisesInSlots
  <1>5. promises' = promises \cup Delivered
    BY <1>3, <1>4 DEF PromisesPass
  <1>6. ASSUME NEW k \in ReminderKinds
        PROVE  \/ notified'[k] = notified[k]
               \/ notified'[k] \in Due(k) /\ notified[k] = NoId
    <2>1. notified'[k] = IF Due(k) = {} THEN notified[k] ELSE CHOOSE x \in Due(k) : TRUE
      BY DEF DueReminders, ReminderKinds
    <2>2. Due(k) # {} => notified'[k] \in Due(k)
      BY <2>1
    <2>3. notified'[k] \in Due(k) => notified'[k] # notified[k] /\ notified'[k] \in ReminderSubject(k)
      BY DEF Due
    <2>4. notified[k] # NoId => notified[k] \in ReminderSubject(k)
      BY DEF ReminderInv, SlotsSound, SlotsNameTimers
    <2> QED
      BY <2>1, <2>2, <2>3, <2>4, OneSubject DEF ReminderInv
  <1>f. Forever \in Nat /\ Forever' = Forever
    BY TimeTrackingAssumption DEF Forever
  <1>7. ASSUME NEW k \in ReminderKinds
        PROVE  SlotsNameTimers(k)' /\ SlotsPromised(k)' /\ SnoozeSpent(k)'
    <2>1. SlotsNameTimers(k) /\ SlotsPromised(k) /\ SnoozeSpent(k)
      BY DEF ReminderInv, SlotsSound
    <2>2. ReminderSubject(k)' = ReminderSubject(k)
      BY <1>2, SameSubjects
    <2>3. notified'[k] \in Due(k) =>
             /\ notified'[k] \in ReminderSubject(k)
             /\ ~(snoozed[k].of = notified'[k] /\ snoozed[k].until > Now)
      BY DEF Due
    <2>4. SlotsNameTimers(k)'
      BY <1>2, <1>6, <2>1, <2>2, <2>3 DEF SlotsNameTimers
    <2>5. ASSUME notified'[k] # NoId
          PROVE  [kind |-> k, of |-> notified'[k], until |-> Forever] \in promises'
      <3>1. CASE notified'[k] = notified[k]
        BY <1>5, <2>1, <2>5, <3>1 DEF SlotsPromised
      <3>2. CASE notified'[k] \in Due(k) /\ notified[k] = NoId
        <4>1. notified'[k] \in SessionIds \cup DeductionIds
          BY <2>3, <3>2, OneSubject DEF ReminderInv
        <4>2. PICK p : p = [kind |-> k, of |-> notified'[k], until |-> Forever]
          OBVIOUS
        <4>3. p \in [kind : ReminderKinds, of : SessionIds \cup DeductionIds, until : {Forever}]
          BY <4>1, <4>2
        <4>4. p.kind = k /\ p.of = notified'[k]
          BY <4>2
        <4>5. p \in Delivered
          BY <2>5, <3>2, <4>3, <4>4 DEF Delivered
        <4> QED
          BY <1>5, <4>2, <4>5
      <3> QED
        BY <1>6, <3>1, <3>2
    <2>6. snoozed[k].of # NoId =>
             /\ snoozed[k].until \in Nat
             /\ [kind |-> k, of |-> snoozed[k].of, until |-> snoozed[k].until] \in promises'
      BY <1>5, <2>1 DEF SlotsPromised
    <2>7. SlotsPromised(k)'
      BY <1>2, <1>f, <2>5, <2>6 DEF SlotsPromised
    <2>8. ASSUME notified'[k] # NoId, notified'[k] = snoozed'[k].of
          PROVE  snoozed'[k].until <= clock'
      <3>1. snoozed[k].until \in Nat
        BY <1>2, <2>6, <2>8
      <3>2. CASE notified'[k] = notified[k]
        BY <1>1, <1>2, <2>1, <2>8, <3>1, <3>2 DEF SnoozeSpent
      <3>3. CASE notified'[k] \in Due(k)
        BY <1>1, <1>2, <2>3, <2>8, <3>1, <3>3 DEF Now
      <3> QED
        BY <1>6, <3>2, <3>3
    <2> QED
      BY <2>4, <2>7, <2>8 DEF SnoozeSpent
  <1>8. ASSUME NEW p \in promises'
        PROVE  p \in PromiseSet /\ p.of \in ReminderSubject(p.kind)' /\ InSlot(p)'
    <2>1. CASE p \in promises
      <3>1. p \in PromiseSet /\ p.of \in ReminderSubject(p.kind) /\ InSlot(p)
        BY <2>1 DEF ReminderInv, PromisesInSlots
      <3>2. p.kind \in ReminderKinds /\ p.of # NoId
        BY <3>1, OneSubject DEF PromiseSet, ReminderInv
      <3>3. notified[p.kind] = p.of => notified'[p.kind] = p.of
        BY <1>6, <3>2
      <3> QED
        BY <1>2, <1>f, <3>1, <3>3, SameSubjects DEF InSlot
    <2>2. CASE p \in Delivered
      <3>1. /\ p \in [kind : ReminderKinds, of : SessionIds \cup DeductionIds, until : {Forever}]
            /\ notified'[p.kind] = p.of /\ notified[p.kind] # p.of
        BY <2>2 DEF Delivered
      <3>2. p \in PromiseSet /\ p.until = Forever /\ p.kind \in ReminderKinds
        BY <1>f, <3>1 DEF PromiseSet
      <3>3. p.of \in ReminderSubject(p.kind)
        BY <1>6, <3>1, <3>2 DEF Due
      <3> QED
        BY <1>2, <1>f, <3>1, <3>2, <3>3, SameSubjects DEF InSlot
    <2> QED
      BY <1>5, <2>1, <2>2
  <1>9. SlotsSound' /\ PromisesInSlots'
    BY <1>7, <1>8 DEF SlotsSound, PromisesInSlots
  <1> QED
    BY <1>1, <1>9 DEF ReminderInv

\* A snooze replaces what was promised for the timer it is about, and no more.
LEMMA SnoozeSafe ==
    ASSUME ReminderInv, SafetyInv', PromisesPass, NEW kind \in ReminderKinds,
           NEW x \in SessionIds \cup DeductionIds, NEW n \in Snoozes, SnoozeReminder(kind, x, n)
    PROVE  ReminderInv'
  <1>1. clock \in Nat /\ clock' = clock + 1 /\ clock' <= MaxTime /\ n \in Nat
    BY TimeTrackingAssumption DEF PromisesPass, Now, ReminderInv, SafetyInv, TypeOK
  <1>2. UNCHANGED <<sessions, deductions>> /\ x \in ReminderSubject(kind) /\ x # NoId
    BY OneSubject DEF SnoozeReminder, ReminderInv
  <1>3. PICK until : until = Now + n
    OBVIOUS
  <1>4. until \in Nat /\ until > clock
    BY <1>1, <1>3 DEF Now
  <1>5. /\ notified'[kind] = NoId
        /\ snoozed'[kind] = [of |-> x, until |-> until]
        /\ \A k \in ReminderKinds \ {kind} :
              notified'[k] = notified[k] /\ snoozed'[k] = snoozed[k]
    BY <1>3 DEF SnoozeReminder, ReminderInv, SafetyInv, TypeOK, ReminderKinds
  <1>6. snoozed'[kind].of = x /\ snoozed'[kind].until = until /\ snoozed'[kind] # NoSnooze
    <2>1. snoozed'[kind].of = x /\ snoozed'[kind].until = until /\ NoSnooze.of = NoId
      BY <1>5 DEF NoSnooze
    <2> QED
      BY <1>2, <2>1
  <1>f. Forever \in Nat /\ Forever' = Forever
    BY TimeTrackingAssumption DEF Forever
  <1>7. Delivered = {}
    <2>1. SUFFICES ASSUME NEW p \in Delivered PROVE FALSE
      OBVIOUS
    <2>2. /\ p.kind \in ReminderKinds /\ p.of \in SessionIds \cup DeductionIds
          /\ notified'[p.kind] = p.of /\ notified[p.kind] # p.of
      BY DEF Delivered
    <2>3. NoId \notin SessionIds \cup DeductionIds
      BY TimeTrackingAssumption
    <2> QED
      BY <1>5, <2>2, <2>3
  <1>8. PICK r : r = [kind |-> kind, of |-> x, until |-> until]
    OBVIOUS
  <1>9. r.kind = kind /\ r.of = x /\ r.until = until /\ r \in PromiseSet
    BY <1>4, <1>8 DEF PromiseSet
  <1>10. Snoozed = IF snoozed'[kind] # snoozed[kind] THEN {r} ELSE {}
    BY <1>5, <1>6, <1>8 DEF Snoozed
  <1>11. ASSUME NEW p \in promises
         PROVE  StillMade(p) <=> p.kind # kind \/ snoozed'[kind] = snoozed[kind]
    <2>1. p.kind \in ReminderKinds /\ p.of \in ReminderSubject(p.kind)
      BY DEF ReminderInv, PromisesInSlots, PromiseSet
    <2>2. p.of \in ReminderSubject(p.kind)'
      BY <1>2, <2>1, SameSubjects
    <2>3. p.kind = kind => p.of = x
      BY <1>2, <2>1, OneSubject DEF ReminderInv
    <2> QED
      BY <1>5, <1>6, <2>1, <2>2, <2>3 DEF StillMade
  <1>12. \A p \in promises : p.kind # kind => p \in promises'
    BY <1>11 DEF PromisesPass
  <1>13. r \in promises'
    <2>1. CASE snoozed'[kind] # snoozed[kind]
      BY <1>10, <2>1 DEF PromisesPass
    <2>2. CASE snoozed'[kind] = snoozed[kind]
      <3>1. snoozed[kind].of = x /\ snoozed[kind].until = until
        BY <1>6, <2>2
      <3>2. r \in promises
        BY <1>2, <1>8, <3>1 DEF ReminderInv, SlotsSound, SlotsPromised
      <3> QED
        BY <1>11, <2>2, <3>2 DEF PromisesPass
    <2> QED
      BY <2>1, <2>2
  <1>14. ASSUME NEW k \in ReminderKinds
         PROVE  SlotsNameTimers(k)' /\ SlotsPromised(k)' /\ SnoozeSpent(k)'
    <2>1. SlotsNameTimers(k) /\ SlotsPromised(k) /\ SnoozeSpent(k)
      BY DEF ReminderInv, SlotsSound
    <2>2. ReminderSubject(k)' = ReminderSubject(k)
      BY <1>2, SameSubjects
    <2>3. CASE k = kind
      <3>1. SlotsNameTimers(k)' /\ SnoozeSpent(k)'
        BY <1>2, <1>5, <1>6, <2>2, <2>3 DEF SlotsNameTimers, SnoozeSpent
      <3>2. SlotsPromised(k)'
        BY <1>4, <1>5, <1>6, <1>8, <1>13, <2>3 DEF SlotsPromised
      <3> QED
        BY <3>1, <3>2
    <2>4. CASE k # kind
      <3>1. notified'[k] = notified[k] /\ snoozed'[k] = snoozed[k]
        BY <1>5, <2>4
      <3>2. \A y, t : [kind |-> k, of |-> y, until |-> t] \in promises
                => [kind |-> k, of |-> y, until |-> t] \in promises'
        BY <1>12, <2>4
      <3>3. SlotsPromised(k)'
        BY <1>f, <2>1, <3>1, <3>2 DEF SlotsPromised
      <3>4. SlotsNameTimers(k)'
        BY <2>1, <2>2, <3>1 DEF SlotsNameTimers
      <3>5. ASSUME notified[k] # NoId, notified[k] = snoozed[k].of
            PROVE  snoozed[k].until <= clock'
        BY <1>1, <2>1, <3>5 DEF SnoozeSpent, SlotsPromised
      <3> QED
        BY <3>1, <3>3, <3>4, <3>5 DEF SnoozeSpent
    <2> QED
      BY <2>3, <2>4
  <1>15. ASSUME NEW p \in promises'
         PROVE  p \in PromiseSet /\ p.of \in ReminderSubject(p.kind)' /\ InSlot(p)'
    <2>1. CASE p = r
      BY <1>2, <1>6, <1>9, <2>1, SameSubjects DEF InSlot
    <2>2. CASE p # r
      <3>1. p \in promises /\ StillMade(p)
        BY <1>7, <1>10, <2>2 DEF PromisesPass
      <3>2. p \in PromiseSet /\ p.of \in ReminderSubject(p.kind) /\ InSlot(p)
        BY <3>1 DEF ReminderInv, PromisesInSlots
      <3>3. p.kind \in ReminderKinds
        BY <3>2 DEF PromiseSet
      <3>4. InSlot(p)'
        <4>1. CASE p.kind # kind
          BY <1>5, <1>f, <3>2, <3>3, <4>1 DEF InSlot
        <4>2. CASE p.kind = kind
          <5>1. snoozed[kind].of = x /\ snoozed[kind].until = until
            BY <1>6, <1>11, <3>1, <4>2
          <5>2. p.of = x
            BY <1>2, <3>2, <4>2, OneSubject DEF ReminderInv
          <5>3. notified[kind] # x
            BY <1>2, <1>4, <5>1 DEF ReminderInv, SlotsSound, SnoozeSpent, SafetyInv, TypeOK
          <5>4. p.until = until
            BY <3>2, <4>2, <5>1, <5>2, <5>3 DEF InSlot
          <5> QED
            BY <1>6, <4>2, <5>2, <5>4 DEF InSlot
        <4> QED
          BY <4>1, <4>2
      <3> QED
        BY <1>2, <3>2, <3>4, SameSubjects
    <2> QED
      BY <2>1, <2>2
  <1>16. SlotsSound' /\ PromisesInSlots'
    BY <1>14, <1>15 DEF SlotsSound, PromisesInSlots
  <1> QED
    BY <1>1, <1>16 DEF ReminderInv

\* Nothing runs and nothing is promised at first.
LEMMA RemindersInitInv == RemindersInit => ReminderInv
  <1>1. SUFFICES ASSUME RemindersInit PROVE ReminderInv
    OBVIOUS
  <1>a. Init /\ promises = {}
    BY <1>1 DEF RemindersInit
  <1>2. SafetyInv /\ clock <= MaxTime
    BY <1>a, InitType, InitSafe, TimeTrackingAssumption DEF SafetyInv, Init
  <1>3. PromisesInSlots
    BY <1>a DEF PromisesInSlots
  <1>4. ASSUME NEW k \in ReminderKinds
        PROVE  SlotsNameTimers(k) /\ SlotsPromised(k) /\ SnoozeSpent(k)
    <2>1. notified[k] = NoId /\ snoozed[k] = NoSnooze
      BY <1>a DEF Init, ReminderKinds
    <2>2. snoozed[k].of = NoId
      BY <2>1 DEF NoSnooze
    <2> QED
      BY <2>1, <2>2 DEF SlotsNameTimers, SlotsPromised, SnoozeSpent
  <1> QED
    BY <1>2, <1>3, <1>4 DEF ReminderInv, SlotsSound

\* Every step of the reminders' life keeps slots and promises in agreement.
LEMMA RemindersStep ==
    ASSUME ReminderInv, [RemindersNext]_<<vars, promises>>
    PROVE  ReminderInv'
  <1>1. CASE UNCHANGED <<vars, promises>>
    <2>1. SafetyInv'
      BY <1>1, NextSafe DEF ReminderInv, vars
    <2>2. \A k : ReminderSubject(k)' = ReminderSubject(k)
      BY <1>1, SameSubjects DEF vars
    <2>3. clock' = clock /\ notified' = notified /\ snoozed' = snoozed /\ promises' = promises
      BY <1>1 DEF vars, reminders
    <2>4. SlotsSound' /\ PromisesInSlots'
      BY <2>2, <2>3 DEF ReminderInv, SlotsSound, SlotsNameTimers, SlotsPromised, SnoozeSpent,
                       PromisesInSlots, InSlot, Forever
    <2> QED
      BY <2>1, <2>3, <2>4 DEF ReminderInv
  <1>2. CASE RemindersNext
    <2>1. Next
      BY <1>2 DEF RemindersNext, Next, ResolutionCommand, CorrectionCommand
    <2>2. SafetyInv /\ SafetyInv'
      BY <2>1, NextSafe DEF ReminderInv
    <2>3. ASSUME Elapse, \A k \in ReminderKinds : Frame(k) PROVE ReminderInv'
      BY <1>2, <2>2, <2>3, FrameSafe DEF RemindersNext, PromisesPass, Elapse
    <2>4. CASE TimerCommand
      BY <2>2, <2>3, <2>4, TimerFrames
    <2>5. CASE DueReminders
      BY <1>2, <2>2, <2>5, DueSafe DEF RemindersNext, PromisesPass, Elapse, DueReminders
    <2>6. ASSUME NEW kind \in ReminderKinds, NEW x \in SessionIds \cup DeductionIds,
                 NEW n \in Snoozes, SnoozeReminder(kind, x, n)
          PROVE  ReminderInv'
      BY <1>2, <2>2, <2>6, SnoozeSafe DEF RemindersNext, PromisesPass, Elapse, SnoozeReminder
    <2>7. CASE ContextCommand \/ Restart \/ Idle
      <3>1. Elapse /\ UNCHANGED <<sessions, deductions, reminders>>
        BY <2>7 DEF ContextCommand, UpdateDayDetails, Restart, Idle
      <3>2. Running \subseteq Running' /\ Lunches \subseteq Lunches'
        BY <3>1 DEF Running, Lunches
      <3> QED
        BY <2>2, <2>3, <3>1, <3>2, FramesKept
    <2>8. ASSUME NEW s \in SessionIds, DeleteRecovery(s) \/ DeleteWorkSession(s)
          PROVE  ReminderInv'
      BY <2>2, <2>3, <2>8, DeleteFrames DEF DeleteRecovery, DeleteWorkSession
    <2>9. ASSUME NEW d \in DeductionIds, DeleteDeduction(d) PROVE ReminderInv'
      <3> DEFINE row == [deductions[d] EXCEPT !.dead = TRUE]
      <3>1. Elapse /\ PutDeduction(d, row) /\ Retire({d}) /\ UNCHANGED sessions
        BY <2>9 DEF DeleteDeduction
      <3>2. ~IsOpen(row)
        BY <2>2 DEF IsOpen, SafetyInv, TypeOK, DeductionRow
      <3> HIDE DEF row
      <3>3. Running' = Running /\ Lunches' = Lunches \ {d}
        BY <2>2, <3>1, <3>2, DeductionPutTimers
      <3>4. /\ \A x \in Running : x \in Running' <=> x \notin {d}
            /\ \A x \in Lunches : x \in Lunches' <=> x \notin {d}
        BY <3>3, ApartIds
      <3> QED
        BY <2>2, <2>3, <3>1, <3>4, FramesRetired
    <2> QED
      BY <1>2, <2>4, <2>5, <2>6, <2>7, <2>8, <2>9
      DEF RemindersNext, ReminderCommand, ReminderKinds
  <1> QED
    BY <1>1, <1>2

\* A standing promise is exactly what the slots suppress.
LEMMA PromisesKept == ASSUME ReminderInv PROVE RemindersKeepPromises
  <1>1. ASSUME NEW kind \in ReminderKinds, NEW x \in ReminderSubject(kind),
               PastThreshold(kind, x)
        PROVE  x \in Due(kind) <=>
                  ~ \E p \in promises : p.kind = kind /\ p.of = x /\ p.until > Now
    <2>1. x # NoId /\ Forever > Now /\ Forever \in Nat
      BY OneSubject, TimeTrackingAssumption DEF ReminderInv, Forever, Now, SafetyInv, TypeOK
    <2>2. x \in Due(kind) <=>
             ~(snoozed[kind].of = x /\ snoozed[kind].until > Now) /\ notified[kind] # x
      BY <1>1 DEF Due, PastThreshold
    <2>3. ASSUME notified[kind] = x
          PROVE  \E p \in promises : p.kind = kind /\ p.of = x /\ p.until > Now
      <3>1. PICK p : p = [kind |-> kind, of |-> x, until |-> Forever]
        OBVIOUS
      <3>2. p \in promises /\ p.kind = kind /\ p.of = x /\ p.until = Forever
        BY <2>1, <2>3, <3>1 DEF ReminderInv, SlotsSound, SlotsPromised
      <3> QED
        BY <2>1, <3>2
    <2>4. ASSUME snoozed[kind].of = x, snoozed[kind].until > Now
          PROVE  \E p \in promises : p.kind = kind /\ p.of = x /\ p.until > Now
      <3>1. PICK t : t = snoozed[kind].until
        OBVIOUS
      <3>2. PICK p : p = [kind |-> kind, of |-> x, until |-> t]
        OBVIOUS
      <3>3. p \in promises /\ p.kind = kind /\ p.of = x /\ p.until = t
        BY <2>1, <2>4, <3>1, <3>2 DEF ReminderInv, SlotsSound, SlotsPromised
      <3> QED
        BY <2>4, <3>1, <3>3
    <2>5. ASSUME NEW p \in promises, p.kind = kind, p.of = x, p.until > Now
          PROVE  notified[kind] = x \/ (snoozed[kind].of = x /\ snoozed[kind].until > Now)
      BY <2>5 DEF ReminderInv, PromisesInSlots, InSlot
    <2> QED
      BY <2>2, <2>3, <2>4, <2>5
  <1> QED
    BY <1>1 DEF RemindersKeepPromises

\* For any timers, thresholds and snooze lengths, a running timer past its
\* threshold is due exactly when no promise of silence to it stands: the one
\* pair of slots per kind, reused by timer after timer through starts, ends,
\* Undo, deletions and restarts, never loses, shortens or mixes up a promise.
THEOREM PromisesHold == RemindersSpec => []RemindersKeepPromises
  <1>1. RemindersInit => ReminderInv
    BY RemindersInitInv
  <1>2. ReminderInv /\ [RemindersNext]_<<vars, promises>> => ReminderInv'
    BY RemindersStep
  <1>3. ReminderInv => RemindersKeepPromises
    BY PromisesKept
  <1> QED
    BY <1>1, <1>2, <1>3, PTL DEF RemindersSpec

-----------------------------------------------------------------------------
(* The hours of a day (DayTotals).  The views select rows by their actual   *)
(* bounds and count the effective ones, which rounding moves outwards.  The *)
(* hours agree because that crosses no midnight: TotalsInv, which the       *)
(* commands keep, says so of every session.                                 *)

(* Rounding. *)

\* Division with remainder, as the solvers use it.
LEMMA Divides ==
    ASSUME NEW t \in Nat, NEW r \in Nat \ {0}
    PROVE  /\ t \div r \in Nat /\ t % r \in 0..(r-1)
           /\ t = (t \div r) * r + (t % r)
  OBVIOUS

\* Multiples of a rounding interval are at least that far apart.
LEMMA Multiples ==
    ASSUME NEW a \in Nat, NEW b \in Nat, NEW r \in Nat \ {0}
    PROVE  /\ a * r \in Nat /\ b * r \in Nat
           /\ a < b => a * r + r <= b * r
  <1>0. a * r \in Nat /\ b * r \in Nat
    OBVIOUS
  <1>1. SUFFICES ASSUME a < b PROVE a * r + r <= b * r
    BY <1>0
  <1>2. PICK c \in Nat : b = a + 1 + c
    <2>1. b - a - 1 \in Nat /\ b = a + 1 + (b - a - 1)
      BY <1>1
    <2> QED
      BY <2>1
  <1>3. b * r = a * r + r + c * r
    BY <1>2
  <1>4. c * r >= 0
    OBVIOUS
  <1>5. a * r \in Int /\ c * r \in Int
    OBVIOUS
  <1> QED
    BY <1>3, <1>4, <1>5

\* Rounding up reaches the next multiple, and rounding down the last one.
LEMMA RoundUpReaches ==
    ASSUME NEW t \in Nat, NEW r \in Nat \ {0}
    PROVE  /\ RoundUp(t, r) \in Nat /\ t <= RoundUp(t, r) /\ RoundUp(t, r) < t + r
           /\ \A m \in Nat : m % r = 0 => ~(t <= m /\ m < RoundUp(t, r))
  <1> DEFINE u == t + r - 1
             q == u \div r
  <1>1. u \in Nat
    OBVIOUS
  <1>2. q \in Nat /\ u % r \in 0..(r-1) /\ u = q * r + (u % r)
    BY <1>1, Divides
  <1>3. q * r \in Nat
    BY <1>2, Multiples
  <1>4. RoundUp(t, r) = q * r
    BY DEF RoundUp
  <1>5. ASSUME NEW m \in Nat, m % r = 0, t <= m, m < q * r PROVE FALSE
    <2>1. m \div r \in Nat /\ m = (m \div r) * r
      BY <1>5, Divides
    <2> DEFINE k == m \div r
    <2> HIDE DEF k, q, u
    <2>2. k \in Nat /\ m = k * r
      BY <2>1 DEF k
    <2>3. CASE k < q
      <3>1. k * r + r <= q * r
        BY <1>2, <2>2, <2>3, Multiples
      <3> QED
        BY <1>2, <1>3, <1>5, <2>2, <3>1 DEF u
    <2>4. CASE q <= k
      <3>1. q * r <= k * r
        BY <1>2, <2>2, <2>4, Multiples
      <3> QED
        BY <1>3, <1>5, <2>2, <3>1
    <2> QED
      BY <1>2, <2>2, <2>3, <2>4
  <1>6. t <= q * r /\ q * r < t + r
    <2> HIDE DEF q
    <2> QED
      BY <1>2, <1>3
  <1> QED
    BY <1>3, <1>4, <1>5, <1>6

\* The start of work goes back to a multiple, or stays.
LEMMA WorkStartReaches ==
    ASSUME NEW t \in Nat, NEW r \in Nat \ {0}
    PROVE  /\ EffectiveWorkStart(t, r) \in Nat /\ EffectiveWorkStart(t, r) <= t
           /\ \A m \in Nat : m % r = 0 => ~(EffectiveWorkStart(t, r) < m /\ m <= t)
  <1> DEFINE u == t + r \div 2
             q == u \div r
  <1>1. u \in Nat /\ r \div 2 \in Nat
    OBVIOUS
  <1>2. q \in Nat /\ u % r \in 0..(r-1) /\ u = q * r + (u % r)
    BY <1>1, Divides
  <1>3. q * r \in Nat
    BY <1>2, Multiples
  <1>4. RoundNearest(t, r) = q * r
    BY DEF RoundNearest
  <1>5. EffectiveWorkStart(t, r) = IF q * r <= t THEN q * r ELSE t
    BY <1>4 DEF EffectiveWorkStart
  <1>6. ASSUME NEW m \in Nat, m % r = 0, m <= t, q * r < m PROVE FALSE
    <2>1. m \div r \in Nat /\ m = (m \div r) * r
      BY <1>6, Divides
    <2> DEFINE k == m \div r
    <2> HIDE DEF k, q
    <2>2. k \in Nat /\ m = k * r
      BY <2>1 DEF k
    <2>3. CASE q < k
      <3>1. q * r + r <= k * r
        BY <1>2, <2>2, <2>3, Multiples
      <3> QED
        BY <1>1, <1>2, <1>3, <1>6, <2>2, <3>1
    <2>4. CASE k <= q
      <3>1. k * r <= q * r
        BY <1>2, <2>2, <2>4, Multiples
      <3> QED
        BY <1>3, <1>6, <2>2, <3>1
    <2> QED
      BY <1>2, <2>2, <2>3, <2>4
  <1> HIDE DEF q
  <1> QED
    BY <1>3, <1>5, <1>6


-----------------------------------------------------------------------------
(* Naturals. *)

\* A set of naturals has a least element.
LEMMA Least ==
    ASSUME NEW S \in SUBSET Nat, S # {}
    PROVE  \E m \in S : \A x \in S : m <= x
  <1> DEFINE R == OpToRel(<, Nat)
  <1>1. \A x, y \in Nat : x < y => <<x, y>> \in R
    BY DEF OpToRel
  <1>2. IsWellFoundedOn(R, Nat)
    BY NatLessThanWellFounded
  <1> HIDE DEF R
  <1>3. PICK m \in S : \A y \in S : ~(<<y, m>> \in R)
    BY <1>2, WFMin
  <1>4. \A x \in S : ~(x < m)
    BY <1>1, <1>3
  <1>5. \A x \in S : x \in Nat
    OBVIOUS
  <1> QED
    BY <1>4, <1>5

\* What holds of 0 and of the next number holds up to n.
LEMMA CountsUp ==
    ASSUME NEW n \in Nat, NEW S, 0 \in S, \A i \in 0..(n-1) : i \in S => i + 1 \in S
    PROVE  0..n \subseteq S
  <1> DEFINE T == (0..n) \ S
  <1>1. SUFFICES ASSUME T # {} PROVE FALSE
    OBVIOUS
  <1>2. PICK x \in T : \A y \in T : x <= y
    <2>1. T \in SUBSET Nat
      OBVIOUS
    <2> HIDE DEF T
    <2> QED
      BY <1>1, <2>1, Least
  <1>3. x # 0 /\ x - 1 \in 0..(n-1) /\ (x - 1) + 1 = x
    OBVIOUS
  <1>4. x - 1 \in T
    BY <1>3
  <1> QED
    BY <1>2, <1>3, <1>4

-----------------------------------------------------------------------------
(* The days and their midnights. *)

\* Midnights are instants.
LEMMA MidnightsNat == \A m \in Midnights : m \in Nat
  BY MidnightsAssumption

\* Days are numbered by the midnights that have passed.
LEMMA DaysCount ==
    /\ Cardinality(Midnights) \in Nat
    /\ \A t \in Int : DayOf(t) \in Nat
  <1>1. IsFiniteSet(Midnights)
    BY TimeTrackingAssumption
  <1>2. Cardinality(Midnights) \in Nat
    BY <1>1, FS_CardinalityType
  <1>3. ASSUME NEW t \in Int PROVE DayOf(t) \in Nat
    BY <1>2, DayOfInDays DEF Days
  <1> QED
    BY <1>2, <1>3

\* No midnight between two instants: one day.
LEMMA SameDay ==
    ASSUME NEW t \in Nat, NEW u \in Nat, t <= u, \A m \in Midnights : ~(t < m /\ m <= u)
    PROVE  DayOf(t) = DayOf(u)
  <1>1. ASSUME NEW m \in Midnights PROVE m <= t <=> m <= u
    <2>1. m \in Nat /\ ~(t < m /\ m <= u)
      BY MidnightsNat
    <2> QED
      BY <2>1
  <1>2. {m \in Midnights : m <= t} = {m \in Midnights : m <= u}
    BY <1>1
  <1> QED
    BY <1>2 DEF DayOf

\* A midnight between them: a later day.
LEMMA LaterDay ==
    ASSUME NEW t \in Int, NEW m \in Midnights, NEW u \in Nat, t < m, m <= u
    PROVE  DayOf(t) < DayOf(u)
  <1> DEFINE A == {x \in Midnights : x <= t}
             B == {x \in Midnights : x <= u}
  <1>1. IsFiniteSet(B)
    BY TimeTrackingAssumption, FS_Subset
  <1>2. A \subseteq B \ {m} /\ m \in B
    BY MidnightsNat
  <1>3. IsFiniteSet(B \ {m}) /\ Cardinality(B \ {m}) = Cardinality(B) - 1
    BY <1>1, <1>2, FS_RemoveElement
  <1>4. Cardinality(A) <= Cardinality(B \ {m})
    BY <1>2, <1>3, FS_Subset
  <1>5. IsFiniteSet(A)
    BY <1>2, <1>3, FS_Subset
  <1>6. Cardinality(A) \in Nat /\ Cardinality(B) \in Nat
    BY <1>1, <1>5, FS_CardinalityType
  <1>7. DayOf(t) = Cardinality(A) /\ DayOf(u) = Cardinality(B)
    BY DEF DayOf
  <1> QED
    BY <1>3, <1>4, <1>6, <1>7

\* Every day but the first begins at a midnight.
LEMMA DaysBegin ==
    ASSUME NEW d \in Days, d # 0
    PROVE  DayStart(d) \in Midnights /\ DayOf(DayStart(d)) = d
  <1> DEFINE N == Cardinality(Midnights)
             S == {n \in Nat : n = 0 \/ \E m \in Midnights : DayOf(m) = n}
  <1>1. N \in Nat /\ IsFiniteSet(Midnights)
    BY DaysCount, TimeTrackingAssumption
  <1>2. ASSUME NEW n \in 0..(N-1), n \in S PROVE n + 1 \in S
    <2>1. PICK t \in Int : /\ t >= -1
                           /\ DayOf(t) = n
      <3>1. CASE n = 0
        <4>1. {m \in Midnights : m <= -1} = {}
          BY MidnightsNat
        <4>2. DayOf(-1) = 0
          BY <4>1, FS_EmptySet DEF DayOf
        <4> QED
          BY <3>1, <4>2
      <3>2. CASE n # 0
        <4>1. PICK m \in Midnights : DayOf(m) = n
          BY <1>2, <3>2
        <4>2. m \in Nat
          BY MidnightsNat
        <4> QED
          BY <4>1, <4>2
      <3> QED
        BY <3>1, <3>2
    <2> DEFINE A == {m \in Midnights : m <= t}
               L == {m \in Midnights : t < m}
    <2>2. DayOf(t) = Cardinality(A)
      BY DEF DayOf
    <2>3. L # {}
      <3>1. SUFFICES ASSUME L = {} PROVE FALSE
        OBVIOUS
      <3>2. A = Midnights
        BY <3>1, MidnightsNat
      <3>3. n = N
        BY <2>1, <2>2, <3>2
      <3> QED
        BY <1>1, <1>2, <3>3
    <2>4. L \in SUBSET Nat
      BY MidnightsNat
    <2>5. PICK m \in L : \A x \in L : m <= x
      <3> HIDE DEF L
      <3> QED
        BY <2>3, <2>4, Least
    <2>6. {x \in Midnights : x <= m} = A \cup {m} /\ m \notin A
      BY <2>5, MidnightsNat
    <2>7. IsFiniteSet(A)
      BY <1>1, FS_Subset
    <2>8. Cardinality(A \cup {m}) = Cardinality(A) + 1
      BY <2>6, <2>7, FS_AddElement
    <2>9. DayOf(m) = n + 1
      BY <2>1, <2>2, <2>6, <2>8 DEF DayOf
    <2> QED
      BY <2>9
  <1>3. 0..N \subseteq S
    <2>1. 0 \in S
      OBVIOUS
    <2> HIDE DEF S, N
    <2> QED
      BY <1>1, <1>2, <2>1, CountsUp
  <1>4. \E m \in Midnights : DayOf(m) = d
    BY <1>3 DEF Days
  <1> QED
    BY <1>4 DEF DayStart

\* Max and Min of two numbers.
LEMMA LargerOf ==
    ASSUME NEW a \in Int, NEW b \in Int
    PROVE  /\ Max({a, b}) = IF a <= b THEN b ELSE a
           /\ Min({a, b}) = IF a <= b THEN a ELSE b
  BY DEF Max, Min

\* Every time of the model and every bound rounded from one is before Horizon.
LEMMA HorizonBeyond ==
    /\ Max(Roundings) \in Nat /\ Horizon \in Nat /\ MaxTime \in Nat
    /\ \A r \in Roundings \cup {1} : r \in Nat \ {0} /\ MaxTime + 2 * r <= Horizon
  <1>1. /\ Max(Roundings) \in Roundings /\ \A r \in Roundings : Max(Roundings) >= r
    <2>1. PICK x \in Roundings : \A r \in Roundings : r <= x
      BY RoundingsAssumption
    <2>2. \A r \in Roundings : r \in Nat
      BY TimeTrackingAssumption
    <2>3. \A r \in Roundings : x >= r
      BY <2>1, <2>2
    <2> QED
      BY <2>3, Zenon DEF Max
  <1>2. \A r \in Roundings : r \in Nat \ {0}
    BY TimeTrackingAssumption
  <1>3. MaxTime \in Nat
    BY TimeTrackingAssumption
  <1>4. PICK x \in Nat \ {0} : x = Max(Roundings)
    BY <1>1, <1>2
  <1>5. Horizon = MaxTime + 2 * x
    BY <1>4 DEF Horizon
  <1>6. \A r \in Roundings \cup {1} : r \in Nat \ {0} /\ r <= x
    BY <1>1, <1>2, <1>4
  <1> QED
    BY <1>3, <1>4, <1>5, <1>6

\* b is where the piece that starts at c ends.
Ends(c, end, b) ==
    /\ b \in {end} \cup Midnights /\ c < b /\ b <= end
    /\ \A m \in Midnights : c < m => b <= m

\* A piece has an end ...
LEMMA PieceEnds ==
    ASSUME NEW c \in Nat, NEW end \in Nat, c < end
    PROVE  Ends(c, end, NextCut(c, end))
  <1> DEFINE S == {b \in {end} \cup Midnights : c < b}
  <1>1. S \in SUBSET Nat /\ end \in S
    BY MidnightsNat
  <1>2. PICK b \in S : \A x \in S : b <= x
    <2> HIDE DEF S
    <2> QED
      BY <1>1, Least
  <1>3. /\ b \in {end} \cup Midnights
        /\ c < b /\ b <= end
        /\ \A m \in Midnights : c < m => b <= m
    BY <1>1, <1>2
  <1> QED
    BY <1>3, Zenon DEF Ends, NextCut

\* ... and one only, the same one if the interval ends later or at a midnight.
LEMMA OneEnd ==
    ASSUME NEW c \in Nat, NEW e \in Nat, NEW f \in Nat, NEW a, NEW b,
           Ends(c, e, a), Ends(c, f, b), e <= f, f <= e \/ e \in Midnights
    PROVE  a = b
  <1>1. a \in Nat /\ b \in Nat
    BY MidnightsNat DEF Ends
  <1>2. a <= b
    <2>1. CASE b \in Midnights
      BY <2>1 DEF Ends
    <2>2. CASE b = f
      BY <1>1, <2>2 DEF Ends
    <2> QED
      BY <2>1, <2>2 DEF Ends
  <1>3. b <= a
    <2>1. CASE a \in Midnights
      BY <2>1 DEF Ends
    <2>2. CASE a = e
      BY <1>1, <2>2 DEF Ends
    <2> QED
      BY <2>1, <2>2 DEF Ends
  <1> QED
    BY <1>1, <1>2, <1>3

\* A range bound: the first instant of a day, or after everything.
RangeStart(t) == t = 0 \/ t \in Midnights
RangeEnd(t) == t = Horizon \/ t \in Midnights

\* Cutting an interval to a range of days keeps its pieces of those days whole.
LEMMA PiecesOfRange ==
    ASSUME NEW b0 \in Nat, NEW b1 \in Nat, b1 <= Horizon,
           NEW r0 \in Nat, NEW r1 \in Nat, RangeStart(r0), RangeEnd(r1), NEW p
    PROVE  p \in Pieces(Meet(<<b0, b1>>, <<r0, r1>>))
             <=> p \in Pieces(<<b0, b1>>) /\ r0 <= p[1] /\ p[1] < r1
  <1>1. PICK lo \in Nat : lo = (IF b0 <= r0 THEN r0 ELSE b0)
    OBVIOUS
  <1>2. PICK hi \in Nat : hi = (IF b1 <= r1 THEN b1 ELSE r1)
    OBVIOUS
  <1>3. Meet(<<b0, b1>>, <<r0, r1>>) = <<lo, hi>>
    <2>1. Max({b0, r0}) = lo /\ Min({b1, r1}) = hi
      <3>1. b0 \in Int /\ r0 \in Int /\ b1 \in Int /\ r1 \in Int
        OBVIOUS
      <3>2. Max({b0, r0}) = (IF b0 <= r0 THEN r0 ELSE b0)
        BY <3>1, LargerOf
      <3>3. Min({b1, r1}) = (IF b1 <= r1 THEN b1 ELSE r1)
        BY <3>1, LargerOf
      <3> QED
        BY <1>1, <1>2, <3>2, <3>3
    <2>2. Meet(<<b0, b1>>, <<r0, r1>>) = <<Max({b0, r0}), Min({b1, r1})>>
      BY DEF Meet
    <2> QED
      BY <2>1, <2>2
  <1>4. Pieces(Meet(<<b0, b1>>, <<r0, r1>>)) = SplitAtMidnight(lo, hi)
    BY <1>3 DEF Pieces
  <1>5. Pieces(<<b0, b1>>) = SplitAtMidnight(b0, b1)
    BY DEF Pieces
  <1>6. ASSUME NEW c \in Nat, c < hi, b0 < b1
        PROVE  NextCut(c, hi) = NextCut(c, b1)
    <2>1. c < b1 /\ hi <= b1 /\ (b1 <= hi \/ hi \in Midnights)
      BY <1>2, <1>6, HorizonBeyond DEF RangeEnd
    <2>2. Ends(c, hi, NextCut(c, hi)) /\ Ends(c, b1, NextCut(c, b1))
      BY <1>6, <2>1, PieceEnds
    <2> QED
      BY <2>1, <2>2, OneEnd
  <1>7. ASSUME p \in SplitAtMidnight(lo, hi)
        PROVE  p \in SplitAtMidnight(b0, b1) /\ r0 <= p[1] /\ p[1] < r1
    <2>1. lo < hi
      BY <1>7 DEF SplitAtMidnight
    <2>2. PICK c \in Cuts(lo, hi) : p = <<c, NextCut(c, hi)>>
      BY <1>7 DEF SplitAtMidnight
    <2>3. c \in Nat /\ lo <= c /\ c < hi
      BY <2>1, MidnightsNat DEF Cuts
    <2>4. b0 < b1 /\ b0 <= c /\ c < b1 /\ r0 <= c /\ c < r1
      BY <1>1, <1>2, <2>1, <2>3
    <2>5. c = b0 \/ c \in Midnights
      BY <1>1, <2>3 DEF Cuts, RangeStart
    <2>6. c \in Cuts(b0, b1)
      BY <2>3, <2>4, <2>5 DEF Cuts
    <2>7. p = <<c, NextCut(c, b1)>>
      BY <1>6, <2>2, <2>3, <2>4
    <2>8. p \in SplitAtMidnight(b0, b1)
      BY <2>4, <2>6, <2>7, Zenon DEF SplitAtMidnight
    <2>9. p[1] = c
      BY <2>7
    <2> QED
      BY <2>4, <2>8, <2>9
  <1>8. ASSUME p \in SplitAtMidnight(b0, b1), r0 <= p[1], p[1] < r1
        PROVE  p \in SplitAtMidnight(lo, hi)
    <2>1. b0 < b1
      BY <1>8 DEF SplitAtMidnight
    <2>2. PICK c \in Cuts(b0, b1) : p = <<c, NextCut(c, b1)>>
      BY <1>8 DEF SplitAtMidnight
    <2>3. p[1] = c
      BY <2>2
    <2>4. c \in Nat /\ b0 <= c /\ c < b1
      BY <2>1, MidnightsNat DEF Cuts
    <2>5. lo <= c /\ c < hi /\ lo < hi
      BY <1>1, <1>2, <1>8, <2>3, <2>4
    <2>6. c \in Cuts(lo, hi)
      <3>1. CASE c = lo
        BY <3>1 DEF Cuts
      <3>2. CASE c # lo
        <4>1. lo < c
          BY <2>4, <2>5, <3>2
        <4>2. c # b0
          BY <1>1, <2>4, <4>1
        <4> QED
          BY <2>5, <4>1, <4>2 DEF Cuts
      <3> QED
        BY <3>1, <3>2
    <2>7. p = <<c, NextCut(c, hi)>>
      BY <1>6, <2>1, <2>2, <2>4, <2>5
    <2> QED
      BY <2>5, <2>6, <2>7, Zenon DEF SplitAtMidnight
  <1> QED
    BY <1>4, <1>5, <1>7, <1>8

\* The bounds of a range of days.
LEMMA RangeBounds ==
    ASSUME NEW range \in Ranges
    PROVE  /\ range = <<range[1], range[2]>>
           /\ range[1] \in Nat /\ RangeStart(range[1])
           /\ range[2] \in Nat /\ RangeEnd(range[2])
  <1>1. ASSUME NEW d \in Days PROVE DayStart(d) \in Nat /\ RangeStart(DayStart(d))
    <2>1. CASE d = 0
      BY <2>1 DEF DayStart, RangeStart
    <2>2. CASE d # 0
      BY <2>2, DaysBegin, MidnightsNat DEF RangeStart
    <2> QED
      BY <2>1, <2>2
  <1>2. ASSUME NEW d \in Nat, d # 0 PROVE DayStart(d) \in Nat /\ RangeEnd(DayStart(d))
    <2>1. CASE d \in Days
      BY <1>2, <2>1, DaysBegin, MidnightsNat DEF RangeEnd
    <2>2. CASE d \notin Days
      BY <1>2, <2>2, HorizonBeyond DEF DayStart, RangeEnd
    <2> QED
      BY <2>1, <2>2
  <1>3. PICK x \in Days \X Days : range = <<DayStart(x[1]), DayStart(x[2] + 1)>>
    BY DEF Ranges
  <1>4. x[1] \in Days /\ x[2] + 1 \in Nat /\ x[2] + 1 # 0
    BY DaysCount DEF Days
  <1>5. PICK f, t : f = DayStart(x[1]) /\ t = DayStart(x[2] + 1)
    OBVIOUS
  <1>6. range = <<f, t>>
    BY <1>3, <1>5
  <1>7. f \in Nat /\ RangeStart(f) /\ t \in Nat /\ RangeEnd(t)
    BY <1>1, <1>2, <1>4, <1>5
  <1> QED
    BY <1>6, <1>7

\* What falls on a day of a range falls in the range.
LEMMA DayInRange ==
    ASSUME NEW d \in Days, NEW c \in Nat, DayOf(c) = d,
           NEW r0 \in Nat, NEW r1 \in Nat, RangeStart(r0), RangeEnd(r1),
           r0 <= DayStart(d), DayStart(d) < r1
    PROVE  r0 <= c /\ (r1 \in Midnights => c < r1)
  <1>1. CASE d = 0
    <2>1. DayStart(d) = 0
      BY <1>1 DEF DayStart
    <2>2. ASSUME r1 \in Midnights, r1 <= c PROVE FALSE
      <3>1. -1 < r1
        OBVIOUS
      <3>2. DayOf(-1) < DayOf(c) /\ DayOf(-1) \in Nat
        BY <2>2, <3>1, LaterDay, DaysCount
      <3> QED
        BY <1>1, <3>2
    <2> QED
      BY <2>1, <2>2
  <1>2. CASE d # 0
    <2>1. PICK s \in Midnights : s = DayStart(d) /\ DayOf(s) = d
      BY <1>2, DaysBegin
    <2>2. s \in Nat /\ DayOf(c) \in Nat
      BY MidnightsNat, DaysCount
    <2>3. s <= c
      <3>1. SUFFICES ASSUME c < s PROVE FALSE
        BY <2>2
      <3>2. DayOf(c) < DayOf(s)
        BY <2>2, <3>1, LaterDay
      <3> QED
        BY <2>1, <2>2, <3>2
    <2>4. ASSUME r1 \in Midnights, r1 <= c PROVE FALSE
      <3>1. DayOf(s) < DayOf(c)
        BY <2>1, <2>2, <2>4, LaterDay
      <3> QED
        BY <2>1, <2>2, <3>1
    <2> QED
      BY <2>1, <2>2, <2>3, <2>4
  <1> QED
    BY <1>1, <1>2

-----------------------------------------------------------------------------
(* The bounds of the sessions. *)

\* Rounded bounds reach out from the actual ones, across no midnight.
Rounded(row, e) ==
    /\ e \in Nat \X Nat
    /\ e[1] <= row.start /\ row.end <= e[2] /\ e[2] <= Horizon
    /\ \A m \in Midnights : ~(e[1] < m /\ m <= row.start) /\ ~(row.end <= m /\ m < e[2])

\* The bounds e of a session, in a timesheet of the instant now.
Placed(row, e, now) ==
    /\ row.rounding \in Roundings \cup {1}
    /\ row.start <= now /\ row.end <= now
    /\ row.end = NoTime => e = Unset
    /\ row.end # NoTime => row.start # NoTime /\ row.start < row.end /\ Rounded(row, e)

\* The inductive invariant.
TotalsInv ==
    /\ SafetyInv /\ clock <= MaxTime
    /\ effective \in [SessionIds \cup DeductionIds -> Times \X Times]
    /\ \A s \in SessionIds : Placed(sessions[s], effective[s], clock)

\* What the invariant says of one session.
LEMMA RowFacts ==
    ASSUME TotalsInv, NEW s \in SessionIds
    PROVE  /\ sessions[s] \in SessionRow
           /\ effective[s] \in Times \X Times
           /\ clock \in Nat /\ clock <= MaxTime
           /\ Placed(sessions[s], effective[s], clock)
           /\ ~sessions[s].dead => sessions[s].start \in Nat
  BY DEF TotalsInv, SafetyInv, TypeOK, Stored

\* The interval of a live session ends before the horizon, and no range of days
\* that its rounding reaches misses the session itself.
LEMMA BoundsReach ==
    ASSUME TotalsInv, NEW s \in Live(sessions),
           NEW r0 \in Nat, NEW r1 \in Nat, RangeStart(r0), RangeEnd(r1)
    PROVE  \E b0, b1 \in Nat :
              /\ Bounds(s) = <<b0, b1>> /\ b1 <= Horizon
              /\ b0 < r1 /\ r0 < b1 => s \in Intersecting(r0, r1)
  <1> DEFINE row == sessions[s]
             e == effective[s]
  <1>1. s \in SessionIds /\ row.dead = FALSE
    BY RowFacts DEF Live, TotalsInv, SafetyInv, TypeOK, SessionRow
  <1>2. row \in SessionRow /\ e \in Times \X Times /\ clock \in Nat /\ clock <= MaxTime
        /\ Placed(row, e, clock) /\ (~row.dead => row.start \in Nat)
    BY <1>1, RowFacts
  <1>3. RowOf(s) = row
    BY <1>1 DEF RowOf
  <1> HIDE DEF row, e
  <1>4. row.start \in Nat /\ row.start <= clock /\ row.start < Horizon
        /\ Horizon \in Nat /\ clock + 2 <= Horizon
    <2>1. row.start \in Nat /\ row.start <= clock
      BY <1>1, <1>2 DEF Placed
    <2> QED
      BY <1>2, <2>1, HorizonBeyond
  <1>5. s \in Intersecting(r0, r1) <=> row.start < r1 /\ (row.end = NoTime \/ row.end > r0)
    BY DEF Intersecting, row
  <1>6. row.start < r1 \/ r1 \in Midnights
    BY <1>4 DEF RangeEnd
  <1>7. CASE row.end = NoTime
    <2>1. Bounds(s) = <<row.start, clock + 1>>
      <3>1. e = Unset
        BY <1>2, <1>7 DEF Placed
      <3> QED
        BY <1>3, <1>7, <3>1 DEF Bounds, EndAsOf, Now, e
    <2>2. clock + 1 \in Nat /\ clock + 1 <= Horizon
      BY <1>2, <1>4
    <2>3. row.start < r1 => s \in Intersecting(r0, r1)
      BY <1>5, <1>7
    <2> QED
      BY <1>4, <2>1, <2>2, <2>3
  <1>8. CASE row.end # NoTime
    <2>1. Rounded(row, e) /\ row.start < row.end /\ row.end \in Nat
      <3>1. row.end \in Times
        BY <1>2 DEF SessionRow
      <3> QED
        BY <1>2, <1>8, <3>1 DEF Placed, Times
    <2>2. PICK b0, b1 \in Nat : e = <<b0, b1>>
      BY <2>1 DEF Rounded
    <2>3. b0 <= row.start /\ row.end <= b1 /\ b1 <= Horizon
      BY <2>1, <2>2 DEF Rounded
    <2>4. \A m \in Midnights : ~(b0 < m /\ m <= row.start) /\ ~(row.end <= m /\ m < b1)
      BY <2>1, <2>2 DEF Rounded
    <2>5. e # Unset
      BY <2>2 DEF Unset, NoTime
    <2>6. Bounds(s) = <<b0, b1>>
      BY <2>2, <2>5 DEF Bounds, e
    <2>7. ASSUME b0 < r1, r0 < b1 PROVE row.start < r1 /\ row.end > r0
      <3>1. row.start < r1
        BY <1>4, <1>6, <2>4, <2>7
      <3>2. CASE r0 = 0
        BY <1>4, <2>1, <3>1, <3>2
      <3>3. CASE r0 \in Midnights
        BY <2>1, <2>4, <2>7, <3>1, <3>3
      <3> QED
        BY <3>2, <3>3 DEF RangeStart
    <2> QED
      BY <1>5, <2>3, <2>6, <2>7
  <1> QED
    BY <1>7, <1>8

\* A range of days counts the pieces of every live session that start in it, and
\* needs no session that it does not select.
LEMMA RangeCounts ==
    ASSUME TotalsInv, NEW s \in Live(sessions), NEW p,
           NEW r0 \in Nat, NEW r1 \in Nat, RangeStart(r0), RangeEnd(r1)
    PROVE  /\ p \in Pieces(Bounds(s)) => p[1] \in Nat /\ p[1] < Horizon
           /\ p \in Pieces(Meet(Bounds(s), <<r0, r1>>))
                <=> p \in Pieces(Bounds(s)) /\ r0 <= p[1] /\ p[1] < r1
           /\ p \in Pieces(Bounds(s)) /\ r0 <= p[1] /\ p[1] < r1
                => s \in Intersecting(r0, r1)
  <1>1. PICK b0, b1 \in Nat : /\ Bounds(s) = <<b0, b1>> /\ b1 <= Horizon
                              /\ b0 < r1 /\ r0 < b1 => s \in Intersecting(r0, r1)
    BY BoundsReach
  <1>2. p \in Pieces(Meet(<<b0, b1>>, <<r0, r1>>))
          <=> p \in Pieces(<<b0, b1>>) /\ r0 <= p[1] /\ p[1] < r1
    BY <1>1, PiecesOfRange
  <1>3. ASSUME p \in Pieces(<<b0, b1>>) PROVE p[1] \in Nat /\ b0 <= p[1] /\ p[1] < b1
    <2>1. p \in SplitAtMidnight(b0, b1)
      BY <1>3 DEF Pieces
    <2>2. b0 < b1
      BY <2>1 DEF SplitAtMidnight
    <2>3. PICK c \in Cuts(b0, b1) : p = <<c, NextCut(c, b1)>>
      BY <2>1 DEF SplitAtMidnight
    <2>4. c \in Nat /\ b0 <= c /\ c < b1
      BY <2>2, MidnightsNat DEF Cuts
    <2> QED
      BY <2>3, <2>4
  <1>4. Horizon \in Nat
    BY HorizonBeyond
  <1>5. ASSUME p \in Pieces(<<b0, b1>>) PROVE p[1] < Horizon
    BY <1>1, <1>3, <1>4, <1>5
  <1>6. ASSUME p \in Pieces(<<b0, b1>>), r0 <= p[1], p[1] < r1
        PROVE  s \in Intersecting(r0, r1)
    BY <1>1, <1>3, <1>6
  <1> QED
    BY <1>1, <1>2, <1>3, <1>5, <1>6

\* The pieces of a day are the same ones, whatever range they are asked for.
LEMMA DayCounts ==
    ASSUME TotalsInv, NEW range \in Ranges, NEW day \in DaysOf(range), NEW s \in Live(sessions),
           NEW p, On(day, p)
    PROVE  /\ p \in Pieces(Meet(Bounds(s), range)) <=> p \in Pieces(Bounds(s))
           /\ p \in Pieces(Meet(Bounds(s), Whole)) <=> p \in Pieces(Bounds(s))
           /\ p \in Pieces(Bounds(s)) => /\ s \in Intersecting(range[1], range[2])
                                         /\ s \in Intersecting(Whole[1], Whole[2])
  <1>1. PICK r0, r1 \in Nat : range = <<r0, r1>> /\ RangeStart(r0) /\ RangeEnd(r1)
    BY RangeBounds
  <1>2. day \in Days /\ r0 <= DayStart(day) /\ DayStart(day) < r1
    BY <1>1 DEF DaysOf
  <1>3. Horizon \in Nat /\ RangeStart(0) /\ RangeEnd(Horizon)
    BY HorizonBeyond DEF RangeStart, RangeEnd
  <1>4. p \in Pieces(Bounds(s)) => p[1] \in Nat /\ 0 <= p[1] /\ p[1] < Horizon
    BY <1>1, RangeCounts
  <1>5. ASSUME p \in Pieces(Bounds(s)) PROVE r0 <= p[1] /\ p[1] < r1
    <2>1. p[1] \in Nat /\ DayOf(p[1]) = day
      BY <1>4, <1>5 DEF On
    <2>2. r0 <= p[1] /\ (r1 \in Midnights => p[1] < r1)
      BY <1>1, <1>2, <2>1, DayInRange
    <2> QED
      BY <1>1, <1>4, <1>5, <2>2 DEF RangeEnd
  <1>6. /\ p \in Pieces(Meet(Bounds(s), <<r0, r1>>))
             <=> p \in Pieces(Bounds(s)) /\ r0 <= p[1] /\ p[1] < r1
        /\ p \in Pieces(Bounds(s)) /\ r0 <= p[1] /\ p[1] < r1 => s \in Intersecting(r0, r1)
    BY <1>1, RangeCounts
  <1>7. /\ p \in Pieces(Meet(Bounds(s), <<0, Horizon>>))
             <=> p \in Pieces(Bounds(s)) /\ 0 <= p[1] /\ p[1] < Horizon
        /\ p \in Pieces(Bounds(s)) /\ 0 <= p[1] /\ p[1] < Horizon
             => s \in Intersecting(0, Horizon)
    BY <1>3, RangeCounts
  <1>8. Whole = <<0, Horizon>> /\ Whole[1] = 0 /\ Whole[2] = Horizon
    BY DEF Whole
  <1>9. range[1] = r0 /\ range[2] = r1
    BY <1>1
  <1> QED
    BY <1>1, <1>4, <1>5, <1>6, <1>7, <1>8, <1>9

\* Only live rows are selected.
LEMMA SelectedRows ==
    ASSUME NEW from, NEW to
    PROVE  Intersecting(from, to) \subseteq Live(sessions)
  BY DEF Intersecting

\* Every range that holds a day counts the same pieces for it.
LEMMA PiecesAgree ==
    ASSUME TotalsInv, NEW range \in Ranges, NEW day \in DaysOf(range)
    PROVE  {x \in SummaryPieces(range) : On(day, x[2])}
             = {x \in SummaryPieces(Whole) : On(day, x[2])}
  <1>1. ASSUME NEW x PROVE x \in SummaryPieces(range) /\ On(day, x[2])
                             <=> x \in SummaryPieces(Whole) /\ On(day, x[2])
    <2>1. ASSUME x \in SummaryPieces(range), On(day, x[2]) PROVE x \in SummaryPieces(Whole)
      <3>1. PICK s \in Intersecting(range[1], range[2]) :
               x \in {s} \X Pieces(Meet(Bounds(s), range))
        BY <2>1 DEF SummaryPieces
      <3>2. PICK p \in Pieces(Meet(Bounds(s), range)) : x = <<s, p>>
        BY <3>1
      <3>3. s \in Live(sessions) /\ On(day, p)
        BY <2>1, <3>2, SelectedRows
      <3>4. /\ p \in Pieces(Meet(Bounds(s), Whole))
            /\ s \in Intersecting(Whole[1], Whole[2])
        BY <3>2, <3>3, DayCounts
      <3>5. x \in {s} \X Pieces(Meet(Bounds(s), Whole))
        BY <3>2, <3>4
      <3> QED
        BY <3>4, <3>5, Zenon DEF SummaryPieces
    <2>2. ASSUME x \in SummaryPieces(Whole), On(day, x[2]) PROVE x \in SummaryPieces(range)
      <3>1. PICK s \in Intersecting(Whole[1], Whole[2]) :
               x \in {s} \X Pieces(Meet(Bounds(s), Whole))
        BY <2>2 DEF SummaryPieces
      <3>2. PICK p \in Pieces(Meet(Bounds(s), Whole)) : x = <<s, p>>
        BY <3>1
      <3>3. s \in Live(sessions) /\ On(day, p)
        BY <2>2, <3>2, SelectedRows
      <3>4. /\ p \in Pieces(Meet(Bounds(s), range))
            /\ s \in Intersecting(range[1], range[2])
        BY <3>2, <3>3, DayCounts
      <3>5. x \in {s} \X Pieces(Meet(Bounds(s), range))
        BY <3>2, <3>4
      <3> QED
        BY <3>4, <3>5, Zenon DEF SummaryPieces
    <2> QED
      BY <2>1, <2>2
  <1> QED
    BY <1>1, Zenon

\* The filled timesheet takes the same pieces, of a day without running work.
LEMMA SegmentsAgree ==
    ASSUME TotalsInv, NEW range \in Ranges, NEW day \in DaysOf(range), ~Provisional(range, day)
    PROVE  {x \in Segments(range) : On(day, x[2])}
             = {x \in SummaryPieces(range) : On(day, x[2])}
  <1> DEFINE M == Max(Roundings)
  <1>1. M \in Nat /\ range[1] \in Nat /\ range[2] \in Nat
    BY HorizonBeyond, RangeBounds
  <1> HIDE DEF M
  <1>2. Segments(range) =
          UNION {{s} \X Pieces(Meet(Bounds(s), range)) :
                    s \in {t \in Intersecting(range[1] - M, range[2] + M) :
                              sessions[t].end # NoTime}}
    BY DEF Segments, M
  <1>3. ASSUME NEW x PROVE x \in Segments(range) /\ On(day, x[2])
                             <=> x \in SummaryPieces(range) /\ On(day, x[2])
    <2>1. ASSUME x \in Segments(range), On(day, x[2]) PROVE x \in SummaryPieces(range)
      <3>1. PICK s \in Intersecting(range[1] - M, range[2] + M) :
               x \in {s} \X Pieces(Meet(Bounds(s), range))
        BY <1>2, <2>1
      <3>2. PICK p \in Pieces(Meet(Bounds(s), range)) : x = <<s, p>>
        BY <3>1
      <3>3. s \in Live(sessions) /\ On(day, p)
        BY <2>1, <3>2, SelectedRows
      <3>4. s \in Intersecting(range[1], range[2])
        BY <3>2, <3>3, DayCounts
      <3> QED
        BY <3>1, <3>4, Zenon DEF SummaryPieces
    <2>2. ASSUME x \in SummaryPieces(range), On(day, x[2]) PROVE x \in Segments(range)
      <3>1. PICK s \in Intersecting(range[1], range[2]) :
               x \in {s} \X Pieces(Meet(Bounds(s), range))
        BY <2>2 DEF SummaryPieces
      <3>2. x[1] = s
        BY <3>1
      <3>3. sessions[s].end # NoTime
        BY <2>2, <3>2, Zenon DEF Provisional
      <3>4. s \in Intersecting(range[1] - M, range[2] + M)
        <4>1. sessions[s] \in SessionRow
          BY <3>1, SelectedRows, RowFacts DEF Live, TotalsInv, SafetyInv, TypeOK
        <4>2. sessions[s].start \in Int /\ sessions[s].end \in Int
          BY <4>1 DEF SessionRow, Times, NoTime
        <4>3. s \in Live(sessions) /\ sessions[s].start < range[2] /\ sessions[s].end > range[1]
          BY <3>1, <3>3 DEF Intersecting
        <4>4. sessions[s].start < range[2] + M /\ sessions[s].end > range[1] - M
          BY <1>1, <4>2, <4>3
        <4> QED
          BY <4>3, <4>4 DEF Intersecting
      <3>5. s \in {t \in Intersecting(range[1] - M, range[2] + M) : sessions[t].end # NoTime}
        BY <3>3, <3>4
      <3> QED
        BY <1>2, <3>1, <3>5, Zenon
    <2> QED
      BY <2>1, <2>2
  <1> QED
    BY <1>3, Zenon

\* The views agree where the bounds are placed.
LEMMA ViewsAgreeNow == ASSUME TotalsInv PROVE ViewsAgree
  <1>1. ASSUME NEW range \in Ranges, NEW day \in DaysOf(range)
        PROVE  /\ Summary(range, day) = Summary(Whole, day)
               /\ ~Provisional(range, day) => Filled(range, day) = Summary(range, day)
    <2>1. Summary(range, day) = Summary(Whole, day)
      BY PiecesAgree, Zenon DEF Summary
    <2>2. ASSUME ~Provisional(range, day) PROVE Filled(range, day) = Summary(range, day)
      BY <2>2, SegmentsAgree, Zenon DEF Summary, Filled
    <2> QED
      BY <2>1, <2>2
  <1> QED
    BY <1>1, Zenon DEF ViewsAgree

-----------------------------------------------------------------------------
(* The commands keep the bounds placed. *)

\* No rounding interval straddles a midnight.
LEMMA RoundingsAlign ==
    ASSUME NEW r \in Roundings \cup {1}
    PROVE  r \in Nat \ {0} /\ \A m \in Midnights : m \in Nat /\ m % r = 0
  <1>1. r \in Nat \ {0}
    BY HorizonBeyond
  <1>2. ASSUME NEW m \in Midnights PROVE m \in Nat /\ m % r = 0
    <2>1. m \in Nat
      BY MidnightsNat
    <2>2. CASE r = 1
      BY <2>1, <2>2
    <2>3. CASE r \in Roundings
      BY <2>1, <2>3, AlignmentAssumption
    <2> QED
      BY <2>1, <2>2, <2>3
  <1> QED
    BY <1>1, <1>2

\* What is placed stays placed as time passes.
LEMMA PlacedLater ==
    ASSUME NEW row \in SessionRow, NEW e, NEW now \in Nat, Placed(row, e, now)
    PROVE  Placed(row, e, now + 1)
  <1>1. row.start \in Int /\ row.end \in Int
    BY DEF SessionRow, Times, NoTime
  <1>2. row.start <= now + 1 /\ row.end <= now + 1
    BY <1>1 DEF Placed
  <1> QED
    BY <1>2, Zenon DEF Placed

\* What a finished timer stores.
LEMMA FinishedPlaced ==
    ASSUME NEW r \in Roundings \cup {1}, NEW start \in Nat, NEW end \in Nat, NEW row,
           start < end, end <= MaxTime, row.start = start, row.end = end, row.rounding = r
    PROVE  Placed(row, <<EffectiveWorkStart(start, r), EffectiveWorkEnd(end, r)>>, end)
  <1>1. r \in Nat \ {0} /\ \A m \in Midnights : m \in Nat /\ m % r = 0
    BY RoundingsAlign
  <1>2. MaxTime \in Nat /\ Horizon \in Nat /\ MaxTime + 2 * r <= Horizon
    BY HorizonBeyond
  <1>3. PICK b0 : b0 = EffectiveWorkStart(start, r)
    OBVIOUS
  <1>4. PICK b1 : b1 = EffectiveWorkEnd(end, r)
    OBVIOUS
  <1>5. b0 \in Nat /\ b0 <= start /\ \A m \in Nat : m % r = 0 => ~(b0 < m /\ m <= start)
    BY <1>1, <1>3, WorkStartReaches
  <1>6. /\ b1 \in Nat /\ end <= b1 /\ b1 < end + r
        /\ \A m \in Nat : m % r = 0 => ~(end <= m /\ m < b1)
    BY <1>1, <1>4, RoundUpReaches DEF EffectiveWorkEnd
  <1>7. b1 <= Horizon
    BY <1>1, <1>2, <1>6
  <1>8. \A m \in Midnights : ~(b0 < m /\ m <= start) /\ ~(end <= m /\ m < b1)
    BY <1>1, <1>5, <1>6
  <1>9. Rounded(row, <<b0, b1>>)
    BY <1>5, <1>6, <1>7, <1>8 DEF Rounded
  <1>10. Placed(row, <<b0, b1>>, end)
    BY <1>9 DEF Placed, NoTime
  <1> QED
    BY <1>3, <1>4, <1>10

\* Typed bounds are the actual ones.
LEMMA EnteredPlaced ==
    ASSUME NEW from \in Nat, NEW to \in Nat, NEW now \in Nat, NEW row,
           from < to, to <= now, now <= MaxTime,
           row.start = from, row.end = to, row.rounding \in Roundings \cup {1}
    PROVE  Placed(row, <<from, to>>, now)
  <1>1. MaxTime \in Nat /\ Horizon \in Nat /\ MaxTime <= Horizon
    <2>1. MaxTime \in Nat /\ Horizon \in Nat /\ MaxTime + 2 * 1 <= Horizon
      BY HorizonBeyond
    <2> QED
      BY <2>1
  <1>2. to <= Horizon /\ from <= now
    BY <1>1
  <1>3. Rounded(row, <<from, to>>)
    BY <1>2, MidnightsNat DEF Rounded
  <1> QED
    BY <1>2, <1>3 DEF Placed, NoTime

\* What a started timer stores.
LEMMA StartedPlaced ==
    ASSUME NEW start \in Nat, NEW r \in Roundings \cup {1}, NEW source, NEW now \in Nat,
           start <= now
    PROVE  Placed(NewSession(start, r, source), Unset, now)
  <1> DEFINE row == NewSession(start, r, source)
  <1>1. row.start = start /\ row.end = NoTime /\ row.dead = FALSE /\ row.rounding = r
    BY DEF NewSession, NoSession
  <1> HIDE DEF row
  <1>2. row.start <= now /\ row.end <= now /\ row.start # NoTime
    BY <1>1 DEF NoTime
  <1> QED
    BY <1>1, <1>2 DEF Placed, row

\* Time passes, and at most one session and its bounds change.
LEMMA OnePlaced ==
    ASSUME TotalsInv, NEW s \in SessionIds, NEW row, NEW e \in Times \X Times,
           clock' = clock + 1, PutSession(s, row), effective' = [effective EXCEPT ![s] = e],
           Placed(row, e, clock + 1), clock + 1 <= MaxTime, SafetyInv'
    PROVE  TotalsInv'
  <1>1. effective \in [SessionIds \cup DeductionIds -> Times \X Times]
        /\ sessions \in [SessionIds -> SessionRow] /\ clock \in Nat
    BY DEF TotalsInv, SafetyInv, TypeOK
  <1>2. effective' \in [SessionIds \cup DeductionIds -> Times \X Times]
    BY <1>1
  <1>3. ASSUME NEW x \in SessionIds PROVE Placed(sessions'[x], effective'[x], clock')
    <2>1. CASE x = s
      <3>1. sessions'[x] = row /\ effective'[x] = e
        BY <1>1, <2>1 DEF PutSession
      <3> QED
        BY <3>1
    <2>2. CASE x # s
      <3>1. sessions'[x] = sessions[x] /\ effective'[x] = effective[x]
        BY <1>1, <2>2 DEF PutSession
      <3>2. sessions[x] \in SessionRow /\ Placed(sessions[x], effective[x], clock)
        BY RowFacts
      <3>3. Placed(sessions[x], effective[x], clock + 1)
        BY <1>1, <3>2, PlacedLater
      <3> QED
        BY <3>1, <3>3
    <2> QED
      BY <2>1, <2>2
  <1> QED
    BY <1>2, <1>3 DEF TotalsInv

\* Time passes, and the sessions and their bounds stay.
LEMMA NonePlaced ==
    ASSUME TotalsInv, clock' = clock + 1, sessions' = sessions, clock + 1 <= MaxTime, SafetyInv',
           effective' = effective \/ \E d \in DeductionIds, e \in Times \X Times :
                                        effective' = [effective EXCEPT ![d] = e]
    PROVE  TotalsInv'
  <1>1. effective \in [SessionIds \cup DeductionIds -> Times \X Times] /\ clock \in Nat
        /\ \A d \in DeductionIds : d \notin SessionIds
    BY TimeTrackingAssumption DEF TotalsInv, SafetyInv, TypeOK
  <1>2. effective' \in [SessionIds \cup DeductionIds -> Times \X Times]
    BY <1>1
  <1>3. ASSUME NEW x \in SessionIds PROVE Placed(sessions'[x], effective'[x], clock')
    <2>1. sessions'[x] = sessions[x] /\ effective'[x] = effective[x]
      BY <1>1
    <2>2. sessions[x] \in SessionRow /\ Placed(sessions[x], effective[x], clock)
      BY RowFacts
    <2>3. Placed(sessions[x], effective[x], clock + 1)
      BY <1>1, <2>2, PlacedLater
    <2> QED
      BY <2>1, <2>3
  <1> QED
    BY <1>2, <1>3 DEF TotalsInv

\* Rounding to the nearest boundary gives an instant.
LEMMA NearestType == ASSUME NEW t \in Nat, NEW r \in Nat \ {0} PROVE RoundNearest(t, r) \in Nat
  <1>1. PICK u \in Nat : u = t + r \div 2
    OBVIOUS
  <1>2. PICK q \in Nat : q = u \div r
    BY Divides
  <1>3. q * r \in Nat
    BY Multiples
  <1> QED
    BY <1>1, <1>2, <1>3 DEF RoundNearest

\* A session that runs has no bounds of its own.
LEMMA NoEndPlaced ==
    ASSUME NEW old, NEW e, NEW row, NEW now \in Nat, Placed(old, e, now),
           row.start = old.start, row.end = NoTime, row.rounding = old.rounding
    PROVE  Placed(row, Unset, now)
  BY DEF Placed, NoTime

\* The empty timesheet is placed.
LEMMA TotalsInitInv == ASSUME TotalsInit PROVE TotalsInv
  <1>1. SafetyInv /\ clock = 0
    BY InitType, InitSafe DEF SafetyInv, TotalsInit, Init
  <1>2. Unset \in Times \X Times
    BY DEF Unset, Times
  <1>3. effective \in [SessionIds \cup DeductionIds -> Times \X Times]
        /\ \A s \in SessionIds : effective[s] = Unset /\ sessions[s] = NoSession
    BY <1>2 DEF TotalsInit, Init
  <1>4. Placed(NoSession, Unset, 0)
    BY DEF Placed, NoSession, NoTime
  <1>5. clock <= MaxTime
    BY <1>1, TimeTrackingAssumption
  <1> QED
    BY <1>1, <1>3, <1>4, <1>5 DEF TotalsInv

\* The steps of DayTotals are steps of TimeTracking, and take time.
LEMMA TotalsNextIsNext == ASSUME TotalsNext PROVE Next /\ Elapse
  <1>1. ASSUME NEW s \in SessionIds, Starts(s) PROVE Next /\ Elapse
    BY <1>1 DEF Starts, StartWork, StartWorkAt, StartDeduction, Next, TimerCommand
  <1>2. ASSUME NEW s \in SessionIds, FinishesWork(s) PROVE Next /\ Elapse
    BY <1>2 DEF FinishesWork, FinishWork, Next, TimerCommand
  <1>3. ASSUME NEW s \in SessionIds, NEW d \in DeductionIds, FinishesDeduction(s, d)
        PROVE  Next /\ Elapse
    BY <1>3 DEF FinishesDeduction, FinishDeduction, Next, TimerCommand
  <1>4. ASSUME NEW from \in TypedTimes, NEW to \in TypedTimes, Enters(from, to)
        PROVE  Next /\ Elapse
    <2>1. ASSUME NEW s \in SessionIds, AddManualSession(s, from, to) \/ UpdateWorkSession(s, from, to)
          PROVE  Next /\ Elapse
      BY <2>1 DEF AddManualSession, UpdateWorkSession, Next, CorrectionCommand
    <2>2. ASSUME NEW s \in SessionIds, NEW d \in DeductionIds, AddManualDeduction(s, d, from, to)
          PROVE  Next /\ Elapse
      BY <2>2 DEF AddManualDeduction, Next, CorrectionCommand
    <2> QED
      BY <1>4, <2>1, <2>2 DEF Enters
  <1>5. ASSUME Undoes PROVE Next /\ Elapse
    BY <1>5 DEF Undoes, UndoTimerAction, Next, TimerCommand
  <1>6. ASSUME Waits PROVE Next /\ Elapse
    BY <1>6 DEF Waits, Idle, Next
  <1> QED
    BY <1>1, <1>2, <1>3, <1>4, <1>5, <1>6 DEF TotalsNext

\* Every command keeps the bounds placed.
LEMMA TotalsStep == ASSUME TotalsInv, [TotalsNext]_<<vars, effective>> PROVE TotalsInv'
  <1>1. CASE UNCHANGED <<vars, effective>>
    <2>1. SafetyInv'
      BY <1>1, NextSafe DEF TotalsInv
    <2> QED
      BY <2>1, <1>1 DEF TotalsInv, vars, reminders
  <1>2. CASE TotalsNext
    <2>1. SafetyInv' /\ Elapse
      BY <1>2, TotalsNextIsNext, NextSafe DEF TotalsInv
    <2>2. clock \in Nat /\ MaxTime \in Nat /\ Now = clock + 1
      BY TimeTrackingAssumption DEF TotalsInv, SafetyInv, TypeOK, Now
    <2>3. clock' = clock + 1 /\ clock + 1 \in Nat /\ clock + 1 <= MaxTime
      BY <2>1, <2>2 DEF Elapse
    <2>4. Unset \in Times \X Times
      BY DEF Unset, Times
    <2>5. /\ \A t \in TypedTimes : t \in Nat
          /\ \A r \in Roundings : r \in Nat \ {0}
      BY TimeTrackingAssumption
    <2>6. ASSUME NEW s \in SessionIds, s \notin Known(sessions) PROVE effective[s] = Unset
      <3>1. sessions[s].start \notin Nat
        BY <2>6, UnknownRows DEF TotalsInv
      <3>2. Placed(sessions[s], effective[s], clock) /\ sessions[s] \in SessionRow
        BY RowFacts
      <3>3. sessions[s].start = NoTime
        BY <3>1, <3>2 DEF SessionRow, Times
      <3> QED
        BY <3>2, <3>3 DEF Placed
    <2>7. ASSUME NEW s \in SessionIds, effective[s] = Unset, effective' = effective
          PROVE  effective' = [effective EXCEPT ![s] = Unset]
      BY <2>7 DEF TotalsInv
    <2>8. ASSUME NEW s \in SessionIds, Starts(s) PROVE TotalsInv'
      <3>1. effective' = effective
        BY <2>8 DEF Starts
      <3>2. CASE StartWork(s)
        <4>1. PICK r \in Roundings : PutSession(s, NewSession(Now, r, "timer"))
          BY <3>2 DEF StartWork
        <4>2. s \notin Known(sessions)
          BY <3>2 DEF StartWork
        <4>3. Placed(NewSession(clock + 1, r, "timer"), Unset, clock + 1)
          BY <2>3, StartedPlaced
        <4> QED
          BY <2>1, <2>2, <2>3, <2>4, <2>6, <2>7, <3>1, <4>1, <4>2, <4>3, OnePlaced
      <3>3. ASSUME NEW t \in TypedTimes, StartWorkAt(s, t) PROVE TotalsInv'
        <4>1. t <= Now /\ s \notin Known(sessions) /\ PutSession(s, NewSession(t, 1, "manual"))
          BY <3>3 DEF StartWorkAt
        <4>2. Placed(NewSession(t, 1, "manual"), Unset, clock + 1)
          BY <2>2, <2>3, <2>5, <4>1, StartedPlaced
        <4> QED
          BY <2>1, <2>2, <2>3, <2>4, <2>6, <2>7, <3>1, <4>1, <4>2, OnePlaced
      <3>4. ASSUME NEW d \in DeductionIds, StartDeduction(s, d) PROVE TotalsInv'
        BY <2>1, <2>3, <3>1, <3>4, NonePlaced DEF StartDeduction
      <3> QED
        BY <2>8, <3>2, <3>3, <3>4 DEF Starts
    <2>9. ASSUME NEW s \in SessionIds, FinishesWork(s) PROVE TotalsInv'
      <3> DEFINE row == sessions[s]
                 new == [sessions[s] EXCEPT !.end = Now]
      <3>1. /\ s \in Running /\ PutSession(s, new)
            /\ effective' = [effective EXCEPT ![s] =
                  <<EffectiveWorkStart(row.start, row.rounding),
                    EffectiveWorkEnd(Now, row.rounding)>>]
        BY <2>9 DEF FinishesWork, FinishWork
      <3>2. row \in SessionRow /\ Placed(row, effective[s], clock)
        BY RowFacts
      <3>3. row.dead = FALSE
        BY <3>1, <3>2 DEF Running, IsOpen, SessionRow
      <3>4. row.start \in Nat /\ row.start < clock + 1 /\ row.rounding \in Roundings \cup {1}
        <4>1. row.start \in Nat /\ row.start <= clock /\ row.rounding \in Roundings \cup {1}
          BY <3>2, <3>3, RowFacts DEF Placed
        <4> QED
          BY <2>2, <4>1
      <3>5. new.start = row.start /\ new.end = clock + 1 /\ new.rounding = row.rounding
        BY <2>2, <3>2 DEF SessionRow
      <3> HIDE DEF row, new
      <3>6. Placed(new, <<EffectiveWorkStart(row.start, row.rounding),
                          EffectiveWorkEnd(clock + 1, row.rounding)>>, clock + 1)
        BY <2>3, <3>4, <3>5, FinishedPlaced
      <3>7. <<EffectiveWorkStart(row.start, row.rounding),
              EffectiveWorkEnd(clock + 1, row.rounding)>> \in Times \X Times
        BY <2>3, <3>4, HorizonBeyond, WorkStartReaches, RoundUpReaches DEF EffectiveWorkEnd, Times
      <3> QED
        BY <2>1, <2>2, <2>3, <3>1, <3>6, <3>7, OnePlaced
    <2>10. ASSUME NEW s \in SessionIds, NEW d \in DeductionIds, FinishesDeduction(s, d)
           PROVE  TotalsInv'
      <3>1. sessions' = sessions /\ d \in RunningIn(s)
        BY <2>10 DEF FinishesDeduction, FinishDeduction
      <3>2. PICK r \in Roundings : effective' = [effective EXCEPT ![d] =
               <<EffectivePauseStart(deductions[d].start, Now, r),
                 EffectivePauseEnd(deductions[d].start, Now, r)>>]
        BY <2>10 DEF FinishesDeduction
      <3>3. EffectivePauseStart(deductions[d].start, Now, r) \in Times
            /\ EffectivePauseEnd(deductions[d].start, Now, r) \in Times
        <4>1. PICK t \in Nat : t = deductions[d].start
          BY <3>1 DEF RunningIn, IsOpen, ChildrenOf, TotalsInv, SafetyInv, Stored
        <4>2. /\ r \in Nat \ {0} /\ Now \in Nat
              /\ RoundNearest(t, r) \in Nat /\ RoundNearest(Now, r) \in Nat
          BY <2>2, <2>5, NearestType
        <4> QED
          BY <4>1, <4>2 DEF EffectivePauseStart, EffectivePauseEnd, Times
      <3> QED
        BY <2>1, <2>3, <3>1, <3>2, <3>3, NonePlaced
    <2>11. ASSUME NEW from \in TypedTimes, NEW to \in TypedTimes, Enters(from, to)
           PROVE  TotalsInv'
      <3>1. from \in Nat /\ to \in Nat /\ <<from, to>> \in Times \X Times
        BY <2>5 DEF Times
      <3>2. ASSUME NEW s \in SessionIds, AddManualSession(s, from, to),
                   effective' = [effective EXCEPT ![s] = <<from, to>>]
            PROVE  TotalsInv'
        <4> DEFINE fresh == NewSession(from, 1, "manual")
                   row == [fresh EXCEPT !.end = to]
        <4>1. from < to /\ to <= Now /\ PutSession(s, row)
          BY <3>2 DEF AddManualSession, CompletedTimes
        <4>2. fresh \in SessionRow /\ fresh.start = from /\ fresh.rounding = 1
          <5>1. 1 \in Nat \ {0} /\ "manual" \in {"timer", "manual"}
            OBVIOUS
          <5>2. fresh \in SessionRow /\ fresh.start = from
            BY <3>1, <5>1, NewSessionType
          <5>3. fresh.rounding = 1
            BY DEF NewSession, NoSession
          <5> QED
            BY <5>2, <5>3
        <4>3. row.start = from /\ row.end = to /\ row.rounding = 1
          BY <4>2 DEF SessionRow
        <4> HIDE DEF row
        <4>4. Placed(row, <<from, to>>, clock + 1)
          BY <2>2, <2>3, <3>1, <4>1, <4>3, EnteredPlaced
        <4> QED
          BY <2>1, <2>3, <3>1, <3>2, <4>1, <4>4, OnePlaced
      <3>3. ASSUME NEW s \in SessionIds, UpdateWorkSession(s, from, to),
                   effective' = [effective EXCEPT ![s] = <<from, to>>]
            PROVE  TotalsInv'
        <4> DEFINE row == [sessions[s] EXCEPT !.start = from, !.end = to, !.source = "manual"]
        <4>1. from < to /\ to <= Now /\ PutSession(s, row)
          BY <3>3 DEF UpdateWorkSession, CompletedTimes
        <4>2. sessions[s] \in SessionRow /\ sessions[s].rounding \in Roundings \cup {1}
          BY RowFacts DEF Placed
        <4>3. row.start = from /\ row.end = to /\ row.rounding \in Roundings \cup {1}
          BY <4>2 DEF SessionRow
        <4> HIDE DEF row
        <4>4. Placed(row, <<from, to>>, clock + 1)
          BY <2>2, <2>3, <3>1, <4>1, <4>3, EnteredPlaced
        <4> QED
          BY <2>1, <2>3, <3>1, <3>3, <4>1, <4>4, OnePlaced
      <3>4. ASSUME NEW s \in SessionIds, NEW d \in DeductionIds, AddManualDeduction(s, d, from, to),
                   effective' = [effective EXCEPT ![d] = <<from, to>>]
            PROVE  TotalsInv'
        <4>1. sessions' = sessions
          BY <3>4 DEF AddManualDeduction
        <4> QED
          BY <2>1, <2>3, <3>1, <3>4, <4>1, NonePlaced
      <3> QED
        BY <2>11, <3>2, <3>3, <3>4 DEF Enters
    <2>12. ASSUME Undoes PROVE TotalsInv'
      <3>1. effective' = [effective EXCEPT ![undo.of] = Unset]
        BY <2>12 DEF Undoes
      <3>2. ASSUME NEW s \in SessionIds, UndoStart(s) PROVE TotalsInv'
        <4> DEFINE row == [sessions[s] EXCEPT !.dead = TRUE]
        <4>1. undo.of = s /\ PutSession(s, row) /\ sessions[s].end = NoTime
          BY <3>2 DEF UndoStart, Running, IsOpen
        <4>2. sessions[s] \in SessionRow /\ Placed(sessions[s], effective[s], clock + 1)
          BY <2>2, RowFacts, PlacedLater
        <4>3. row.start = sessions[s].start /\ row.end = NoTime
              /\ row.rounding = sessions[s].rounding
          BY <4>1, <4>2 DEF SessionRow
        <4> HIDE DEF row
        <4>4. Placed(row, Unset, clock + 1)
          BY <2>2, <4>2, <4>3, NoEndPlaced
        <4> QED
          BY <2>1, <2>3, <2>4, <3>1, <4>1, <4>4, OnePlaced
      <3>3. ASSUME NEW s \in SessionIds, UndoFinish(s) PROVE TotalsInv'
        <4> DEFINE row == [sessions[s] EXCEPT !.end = NoTime]
        <4>1. undo.of = s /\ PutSession(s, row)
          BY <3>3 DEF UndoFinish
        <4>2. sessions[s] \in SessionRow /\ Placed(sessions[s], effective[s], clock + 1)
          BY <2>2, RowFacts, PlacedLater
        <4>3. row.start = sessions[s].start /\ row.end = NoTime
              /\ row.rounding = sessions[s].rounding
          BY <4>2 DEF SessionRow
        <4> HIDE DEF row
        <4>4. Placed(row, Unset, clock + 1)
          BY <2>2, <4>2, <4>3, NoEndPlaced
        <4> QED
          BY <2>1, <2>3, <2>4, <3>1, <4>1, <4>4, OnePlaced
      <3>4. ASSUME NEW d \in DeductionIds, UndoStartDeduction(d) \/ UndoFinishDeduction(d)
            PROVE  TotalsInv'
        <4>1. undo.of = d /\ sessions' = sessions
          BY <3>4 DEF UndoStartDeduction, UndoFinishDeduction
        <4> QED
          BY <2>1, <2>3, <2>4, <3>1, <4>1, NonePlaced
      <3> QED
        BY <2>12, <3>2, <3>3, <3>4 DEF Undoes, UndoTimerAction
    <2>13. ASSUME Waits PROVE TotalsInv'
      <3>1. sessions' = sessions /\ effective' = effective
        BY <2>13 DEF Waits, Idle
      <3> QED
        BY <2>1, <2>3, <3>1, NonePlaced
    <2> QED
      BY <1>2, <2>8, <2>9, <2>10, <2>11, <2>12, <2>13 DEF TotalsNext
  <1> QED
    BY <1>1, <1>2

-----------------------------------------------------------------------------
(* Sums over finite sets.  The solvers know no fold, so these lemmas unfold *)
(* SumFunctionOnSet once and reason about what it chooses.  Induction over  *)
(* a finite set is stated of the family of its subsets that are reached.    *)

\* What has n + 1 elements has n without one of them.
LEMMA OneLess ==
    ASSUME NEW A, IsFiniteSet(A), NEW n \in Nat, Cardinality(A) = n + 1
    PROVE  A # {} /\ \A x \in A : Cardinality(A \ {x}) = n
  <1>1. A # {}
    BY FS_EmptySet
  <1>2. ASSUME NEW x \in A PROVE Cardinality(A \ {x}) = n
    BY FS_RemoveElement
  <1> QED
    BY <1>1, <1>2

\* A family that has the empty set and is closed under one element more has S.
LEMMA GrowsTo ==
    ASSUME NEW S, IsFiniteSet(S), NEW F, {} \in F,
           \A A \in SUBSET S, x \in S : A \in F /\ x \notin A => A \cup {x} \in F
    PROVE  S \in F
  <1> DEFINE N == Cardinality(S)
             C == {n \in Nat : \A A \in SUBSET S : Cardinality(A) = n => A \in F}
  <1>1. N \in Nat
    BY FS_CardinalityType
  <1>2. \A A \in SUBSET S : IsFiniteSet(A) /\ Cardinality(A) \in Nat
    BY FS_Subset, FS_CardinalityType
  <1>3. 0 \in C
    BY <1>2, FS_EmptySet
  <1>4. ASSUME NEW n \in 0..(N-1), n \in C PROVE n + 1 \in C
    <2>1. ASSUME NEW A \in SUBSET S, Cardinality(A) = n + 1 PROVE A \in F
      <3>1. A # {} /\ \A x \in A : Cardinality(A \ {x}) = n
        <4>1. IsFiniteSet(A) /\ n \in Nat
          BY <1>2
        <4> QED
          BY ONLY <2>1, <4>1, OneLess
      <3>2. PICK x \in A : TRUE
        BY <3>1
      <3>3. Cardinality(A \ {x}) = n
        BY <3>1
      <3>4. A \ {x} \in F
        BY <1>4, <3>3
      <3>5. (A \ {x}) \cup {x} = A
        OBVIOUS
      <3> QED
        BY <3>4, <3>5
    <2> QED
      BY <2>1
  <1>5. 0..N \subseteq C
    <2> HIDE DEF C, N
    <2> QED
      BY <1>1, <1>3, <1>4, CountsUp
  <1> QED
    BY <1>1, <1>5

\* The element of a set that the fold takes first.
Taken(A) == CHOOSE x \in A : TRUE

\* it is the sum of f over the subsets of S, as the fold computes it.
Sums(it, f, S) ==
    it = [s \in SUBSET S |->
            IF s = {} THEN 0 ELSE f[Taken(s)] + it[s \ {Taken(s)}]]

LEMMA SumUnfolds ==
    ASSUME NEW f, NEW S
    PROVE  SumFunctionOnSet(f, S) = (CHOOSE it : Sums(it, f, S))[S]
  BY DEF SumFunctionOnSet, FoldFunctionOnSet, MapThenFoldSet, Sums, Taken

LEMMA SumsStep ==
    ASSUME NEW f, NEW S, NEW it, Sums(it, f, S), NEW A \in SUBSET S
    PROVE  /\ A = {} => it[A] = 0
           /\ A # {} => Taken(A) \in A /\ it[A] = f[Taken(A)] + it[A \ {Taken(A)}]
  <1>1. it[A] = IF A = {} THEN 0 ELSE f[Taken(A)] + it[A \ {Taken(A)}]
    BY Zenon DEF Sums
  <1>2. A # {} => Taken(A) \in A
    BY DEF Taken
  <1> QED
    BY <1>1, <1>2

\* Two of them agree on the sets they share.
LEMMA SumsAgree ==
    ASSUME NEW f, NEW S, NEW T, NEW it, NEW jt, Sums(it, f, S), Sums(jt, f, T),
           NEW A \in SUBSET S, A \subseteq T, IsFiniteSet(A)
    PROVE  it[A] = jt[A]
  <1> DEFINE N == Cardinality(A)
             C == {n \in Nat : \A B \in SUBSET A : Cardinality(B) = n => it[B] = jt[B]}
  <1>1. N \in Nat
    BY FS_CardinalityType
  <1>2. \A B \in SUBSET A : IsFiniteSet(B) /\ Cardinality(B) \in Nat
    BY FS_Subset, FS_CardinalityType
  <1>3. 0 \in C
    <2>1. ASSUME NEW B \in SUBSET A, Cardinality(B) = 0 PROVE it[B] = jt[B]
      <3>1. B = {} /\ B \in SUBSET S /\ B \in SUBSET T
        BY <1>2, <2>1, FS_EmptySet
      <3> QED
        BY <3>1, SumsStep
    <2> QED
      BY <2>1
  <1>4. ASSUME NEW n \in 0..(N-1), n \in C PROVE n + 1 \in C
    <2>1. ASSUME NEW B \in SUBSET A, Cardinality(B) = n + 1 PROVE it[B] = jt[B]
      <3>0. B # {} /\ \A x \in B : Cardinality(B \ {x}) = n
        <4>1. IsFiniteSet(B) /\ n \in Nat
          BY <1>2
        <4> QED
          BY ONLY <2>1, <4>1, OneLess
      <3>1. B # {} /\ B \in SUBSET S /\ B \in SUBSET T
        BY <3>0
      <3>2. PICK x : x = Taken(B)
        OBVIOUS
      <3>3. /\ x \in B
            /\ it[B] = f[x] + it[B \ {x}] /\ jt[B] = f[x] + jt[B \ {x}]
        <4> HIDE DEF C, N
        <4> QED
          BY <3>1, <3>2, SumsStep
      <3>4. Cardinality(B \ {x}) = n
        BY <3>0, <3>3
      <3>5. it[B \ {x}] = jt[B \ {x}]
        BY <1>4, <3>4
      <3> QED
        BY <3>3, <3>5
    <2> QED
      BY <2>1
  <1>5. 0..N \subseteq C
    <2> HIDE DEF C, N
    <2> QED
      BY <1>1, <1>3, <1>4, CountsUp
  <1> QED
    BY <1>1, <1>5

\* The fold of a finite set exists.
LEMMA SumsExist ==
    ASSUME NEW f, NEW S, IsFiniteSet(S)
    PROVE  Sums(CHOOSE it : Sums(it, f, S), f, S)
  <1> DEFINE N == Cardinality(S)
             D(n) == {s \in SUBSET S : Cardinality(s) <= n}
             Next1(it, s) == IF s = {} THEN 0
                             ELSE f[Taken(s)] + it[s \ {Taken(s)}]
             Good(it, n) == it = [s \in D(n) |-> Next1(it, s)]
             C == {n \in Nat : \E it : Good(it, n)}
  <1>1. N \in Nat
    BY FS_CardinalityType
  <1>2. \A A \in SUBSET S : IsFiniteSet(A) /\ Cardinality(A) \in Nat /\ Cardinality(A) <= N
    BY FS_Subset, FS_CardinalityType
  <1>3. 0 \in C
    <2>1. \A s \in D(0) : s = {}
      BY <1>2, FS_EmptySet
    <2>2. \A s \in D(0) : Next1([t \in D(0) |-> 0], s) = 0
      BY <2>1
    <2>3. Good([t \in D(0) |-> 0], 0)
      <3> HIDE DEF D, Next1
      <3> QED
        BY <2>2
    <2> HIDE DEF Good
    <2> QED
      BY <2>3
  <1>4. ASSUME NEW n \in 0..(N-1), n \in C PROVE n + 1 \in C
    <2>1. PICK it : Good(it, n)
      BY <1>4
    <2>2. PICK jt : jt = [s \in D(n+1) |-> Next1(it, s)]
      OBVIOUS
    <2>3. ASSUME NEW s \in D(n) PROVE s \in D(n+1) /\ jt[s] = it[s]
      <3>1. s \in D(n+1)
        BY <1>2
      <3>2. it[s] = Next1(it, s)
        <4> HIDE DEF D, Next1
        <4> QED
          BY <2>1, Zenon
      <3> HIDE DEF D, Next1
      <3> QED
        BY <2>2, <3>1, <3>2
    <2>4. ASSUME NEW s \in D(n+1) PROVE Next1(it, s) = Next1(jt, s)
      <3>1. CASE s = {}
        BY <3>1
      <3>2. CASE s # {}
        <4>1. PICK x : x = Taken(s)
          OBVIOUS
        <4>2. x \in s
          BY <3>2, <4>1 DEF Taken
        <4>3. s \ {x} \in D(n)
          <5>1. Cardinality(s \ {x}) = Cardinality(s) - 1
            BY <1>2, <4>2, FS_RemoveElement
          <5> QED
            BY <1>2, <5>1
        <4>4. Next1(it, s) = f[x] + it[s \ {x}] /\ Next1(jt, s) = f[x] + jt[s \ {x}]
          BY <3>2, <4>1
        <4> HIDE DEF Next1, D
        <4> QED
          BY <2>3, <4>3, <4>4
      <3> QED
        BY <3>1, <3>2
    <2>5. jt = [s \in D(n+1) |-> Next1(jt, s)]
      <3> HIDE DEF D, Next1
      <3> QED
        BY <2>2, <2>4
    <2>6. Good(jt, n+1)
      BY <2>5
    <2> HIDE DEF Good
    <2> QED
      BY <2>6
  <1>5. 0..N \subseteq C
    <2> HIDE DEF C, N
    <2> QED
      BY <1>1, <1>3, <1>4, CountsUp
  <1>6. PICK it : Good(it, N)
    <2> HIDE DEF Good, N
    <2> QED
      BY <1>1, <1>5
  <1>7. D(N) = SUBSET S
    BY <1>2
  <1>8. Sums(it, f, S)
    <2> HIDE DEF D, N
    <2> QED
      BY <1>6, <1>7 DEF Sums
  <1> QED
    BY <1>8

\* The sum of no elements, and the sum by the element the fold takes first.
LEMMA SumOfNone == ASSUME NEW f PROVE SumFunctionOnSet(f, {}) = 0
  <1>1. Sums(CHOOSE it : Sums(it, f, {}), f, {})
    BY FS_EmptySet, SumsExist
  <1>2. PICK it : it = CHOOSE jt : Sums(jt, f, {})
    OBVIOUS
  <1>3. it[{}] = 0
    BY <1>1, <1>2, SumsStep
  <1> QED
    BY <1>2, <1>3, SumUnfolds

LEMMA SumTakesOne ==
    ASSUME NEW f, NEW S, IsFiniteSet(S), S # {}
    PROVE  \E x \in S : SumFunctionOnSet(f, S) = f[x] + SumFunctionOnSet(f, S \ {x})
  <1>1. PICK x \in S : x = Taken(S)
    BY DEF Taken
  <1>2. PICK T : T = S \ {x}
    OBVIOUS
  <1>3. IsFiniteSet(T) /\ T \in SUBSET S
    BY <1>2, FS_Subset
  <1>4. PICK it : it = CHOOSE kt : Sums(kt, f, S)
    OBVIOUS
  <1>5. PICK jt : jt = CHOOSE kt : Sums(kt, f, T)
    OBVIOUS
  <1>6. Sums(it, f, S) /\ Sums(jt, f, T)
    BY <1>3, <1>4, <1>5, SumsExist
  <1>7. it[T] = jt[T]
    BY <1>3, <1>6, SumsAgree
  <1>8. it[S] = f[x] + it[T]
    BY <1>1, <1>2, <1>6, SumsStep
  <1>9. SumFunctionOnSet(f, S) = it[S] /\ SumFunctionOnSet(f, T) = jt[T]
    BY <1>4, <1>5, SumUnfolds
  <1> QED
    BY <1>2, <1>7, <1>8, <1>9

\* The sum of integers is an integer, and takes any element first.
LEMMA SumOfInts ==
    ASSUME NEW f, NEW S, IsFiniteSet(S), \A x \in S : f[x] \in Int
    PROVE  /\ SumFunctionOnSet(f, S) \in Int
           /\ \A x \in S : SumFunctionOnSet(f, S) = f[x] + SumFunctionOnSet(f, S \ {x})
  <1> DEFINE Sum(A) == SumFunctionOnSet(f, A)
             Fine(A) == Sum(A) \in Int /\ \A x \in A : Sum(A) = f[x] + Sum(A \ {x})
             N == Cardinality(S)
             C == {n \in Nat : \A A \in SUBSET S : Cardinality(A) <= n => Fine(A)}
  <1>1. N \in Nat
    BY FS_CardinalityType
  <1>2. \A A \in SUBSET S : IsFiniteSet(A) /\ Cardinality(A) \in Nat
    BY FS_Subset, FS_CardinalityType
  <1>3. 0 \in C
    <2>1. ASSUME NEW A \in SUBSET S, Cardinality(A) <= 0 PROVE Fine(A)
      <3>1. A = {}
        BY <1>2, <2>1, FS_EmptySet
      <3> QED
        BY <3>1, SumOfNone
    <2> HIDE DEF Fine
    <2> QED
      BY <2>1
  <1>4. ASSUME NEW n \in 0..(N-1), n \in C PROVE n + 1 \in C
    <2>0. ASSUME NEW A \in SUBSET S, Cardinality(A) <= n + 1, ~(Cardinality(A) <= n)
          PROVE  Fine(A)
      <3>0. Cardinality(A) = n + 1
        BY <1>2, <2>0
      <3>1. IsFiniteSet(A) /\ n \in Nat
        BY <1>2
      <3>2. A # {} /\ \A x \in A : Cardinality(A \ {x}) = n
        BY ONLY <3>0, <3>1, OneLess
      <3>3. \A x \in A : Fine(A \ {x})
        <4> HIDE DEF Fine
        <4> QED
          <5>1. \A x \in A : A \ {x} \in SUBSET S /\ Cardinality(A \ {x}) <= n
            BY <3>1, <3>2
          <5> QED
            BY <1>4, <5>1
      <3>4. PICK y \in A : Sum(A) = f[y] + Sum(A \ {y})
        BY <3>1, <3>2, SumTakesOne
      <3>5. \A x \in A : f[x] \in Int /\ Sum(A \ {x}) \in Int
        BY <3>3
      <3>6. ASSUME NEW x \in A PROVE Sum(A) = f[x] + Sum(A \ {x})
        <4>1. CASE x = y
          BY <3>4, <4>1
        <4>2. CASE x # y
          <5>1. PICK B : B = (A \ {x}) \ {y}
            OBVIOUS
          <5>2. B = (A \ {y}) \ {x}
            BY <5>1
          <5>3. y \in A \ {x} /\ x \in A \ {y}
            BY <4>2
          <5>4. Sum(A \ {x}) = f[y] + Sum(B) /\ Sum(A \ {y}) = f[x] + Sum(B)
            BY <3>3, <5>1, <5>2, <5>3
          <5>5. Sum(B) \in Int
            <6>1. B \in SUBSET S /\ Cardinality(B) <= n
              <7>1. IsFiniteSet(A \ {x}) /\ B \in SUBSET (A \ {x})
                BY <1>2, <5>1
              <7>2. Cardinality(B) <= Cardinality(A \ {x})
                BY <7>1, FS_Subset
              <7> QED
                BY <3>2, <5>1, <7>2
            <6>2. Fine(B)
              <7> HIDE DEF Fine
              <7> QED
                BY <1>4, <6>1
            <6> QED
              BY <6>2
          <5> QED
            BY <3>4, <3>5, <5>4, <5>5
        <4> QED
          BY <4>1, <4>2
      <3>7. Sum(A) \in Int
        BY <3>4, <3>5
      <3> QED
        BY <3>6, <3>7
    <2> HIDE DEF Fine
    <2> QED
      BY <1>4, <2>0
  <1>5. 0..N \subseteq C
    <2> HIDE DEF C, N
    <2> QED
      BY <1>1, <1>3, <1>4, CountsUp
  <1>6. Fine(S)
    <2> HIDE DEF Fine
    <2> QED
      BY <1>1, <1>5
  <1> QED
    BY <1>6

\* Sum(S) with one element more.
LEMMA SumAddsOne ==
    ASSUME NEW f, NEW S, NEW x, IsFiniteSet(S), x \notin S, \A y \in S \cup {x} : f[y] \in Int
    PROVE  /\ SumFunctionOnSet(f, S) \in Int
           /\ SumFunctionOnSet(f, S \cup {x}) = f[x] + SumFunctionOnSet(f, S)
  <1>1. PICK T : T = S \cup {x}
    OBVIOUS
  <1>2. IsFiniteSet(T) /\ x \in T /\ T \ {x} = S /\ \A y \in T : f[y] \in Int
    BY <1>1, FS_AddElement
  <1>3. SumFunctionOnSet(f, T) = f[x] + SumFunctionOnSet(f, T \ {x})
    BY <1>2, SumOfInts
  <1>4. SumFunctionOnSet(f, S) \in Int
    BY SumOfInts
  <1> QED
    BY <1>1, <1>2, <1>3, <1>4

\* A sum depends on the values of the elements only.
LEMMA SumOfSame ==
    ASSUME NEW f, NEW g, NEW S, IsFiniteSet(S), \A x \in S : f[x] \in Int /\ f[x] = g[x]
    PROVE  SumFunctionOnSet(f, S) = SumFunctionOnSet(g, S)
  <1> DEFINE F == {A \in SUBSET S : SumFunctionOnSet(f, A) = SumFunctionOnSet(g, A)}
  <1>1. {} \in F
    BY SumOfNone
  <1>2. ASSUME NEW A \in SUBSET S, NEW x \in S, A \in F, x \notin A PROVE A \cup {x} \in F
    <2>1. IsFiniteSet(A) /\ \A y \in A \cup {x} : f[y] \in Int /\ g[y] \in Int
      BY FS_Subset
    <2>2. /\ SumFunctionOnSet(f, A \cup {x}) = f[x] + SumFunctionOnSet(f, A)
          /\ SumFunctionOnSet(g, A \cup {x}) = g[x] + SumFunctionOnSet(g, A)
      BY <1>2, <2>1, SumAddsOne
    <2> QED
      BY <1>2, <2>2
  <1>3. S \in F
    <2> HIDE DEF F
    <2> QED
      BY <1>1, <1>2, GrowsTo
  <1> QED
    BY <1>3

LEMMA FiniteUnion ==
    ASSUME NEW S, NEW T, IsFiniteSet(S), IsFiniteSet(T)
    PROVE  IsFiniteSet(S \cup T)
  <1> DEFINE F == {A \in SUBSET T : IsFiniteSet(S \cup A)}
  <1>1. {} \in F
    OBVIOUS
  <1>2. ASSUME NEW A \in SUBSET T, NEW x \in T, A \in F, x \notin A PROVE A \cup {x} \in F
    <2>1. S \cup (A \cup {x}) = (S \cup A) \cup {x}
      OBVIOUS
    <2>2. IsFiniteSet((S \cup A) \cup {x})
      BY <1>2, FS_AddElement
    <2> QED
      BY <2>1, <2>2
  <1>3. T \in F
    <2> HIDE DEF F
    <2> QED
      BY <1>1, <1>2, GrowsTo
  <1> QED
    BY <1>3

\* The sum of two sets without a common element.
LEMMA SumOfUnion ==
    ASSUME NEW f, NEW S, NEW T, IsFiniteSet(S), IsFiniteSet(T), S \cap T = {},
           \A x \in S \cup T : f[x] \in Int
    PROVE  /\ SumFunctionOnSet(f, S) \in Int /\ SumFunctionOnSet(f, T) \in Int
           /\ SumFunctionOnSet(f, S \cup T) = SumFunctionOnSet(f, S) + SumFunctionOnSet(f, T)
  <1> DEFINE Sum(A) == SumFunctionOnSet(f, A)
             F == {A \in SUBSET T : Sum(S \cup A) = Sum(S) + Sum(A)}
  <1>1. Sum(S) \in Int /\ Sum(T) \in Int
    BY SumOfInts
  <1>2. {} \in F
    <2>1. Sum({}) = 0 /\ S \cup {} = S
      BY SumOfNone
    <2> HIDE DEF Sum
    <2> QED
      BY <1>1, <2>1
  <1>3. ASSUME NEW A \in SUBSET T, NEW x \in T, A \in F, x \notin A PROVE A \cup {x} \in F
    <2>1. PICK B : B = S \cup A
      OBVIOUS
    <2>2. IsFiniteSet(A) /\ IsFiniteSet(B)
      BY <2>1, FS_Subset, FiniteUnion
    <2>3. x \notin B /\ \A y \in B \cup {x} : f[y] \in Int
      BY <1>3, <2>1
    <2>4. /\ Sum(A) \in Int /\ Sum(A \cup {x}) = f[x] + Sum(A)
          /\ Sum(B \cup {x}) = f[x] + Sum(B)
      BY <1>3, <2>2, <2>3, SumAddsOne
    <2>5. S \cup (A \cup {x}) = B \cup {x} /\ f[x] \in Int
      BY <2>1
    <2> HIDE DEF Sum
    <2>6. Sum(B) = Sum(S) + Sum(A)
      BY <1>3, <2>1
    <2>7. Sum(B \cup {x}) = Sum(S) + Sum(A \cup {x})
      BY <1>1, <2>4, <2>5, <2>6
    <2>8. Sum(S \cup (A \cup {x})) = Sum(S) + Sum(A \cup {x})
      BY <2>5, <2>7
    <2> QED
      BY <2>8
  <1>4. T \in F
    <2> HIDE DEF F
    <2> QED
      BY <1>2, <1>3, GrowsTo
  <1> QED
    BY <1>1, <1>4

\* The amount h of every element of S is its own line g and the lines L of its own.
Itemised(S, L, g, h) ==
    /\ \A x \in S : IsFiniteSet(L[x]) /\ L[x] \cap S = {}
    /\ \A x, y \in S : x # y => L[x] \cap L[y] = {}
    /\ \A x \in S : g[x] \in Int /\ \A z \in L[x] : g[z] \in Int
    /\ \A x \in S : h[x] = g[x] + SumFunctionOnSet(g, L[x])

\* A sum by lines: every element x counted apart from the lines L[x] it owns.
LEMMA SumByLines ==
    ASSUME NEW S, IsFiniteSet(S), NEW L, NEW g, NEW h,
           Itemised(S, L, g, h)
    PROVE  SumFunctionOnSet(g, S \cup UNION {L[x] : x \in S}) = SumFunctionOnSet(h, S)
  <1> USE DEF Itemised
  <1> DEFINE Lines(A) == A \cup UNION {L[x] : x \in A}
             F == {A \in SUBSET S : /\ IsFiniteSet(Lines(A))
                                    /\ SumFunctionOnSet(g, Lines(A)) = SumFunctionOnSet(h, A)}
  <1>1. {} \in F
    <2>1. Lines({}) = {}
      OBVIOUS
    <2> HIDE DEF Lines
    <2> QED
      BY <2>1, SumOfNone, FS_EmptySet
  <1>2. \A x \in S : SumFunctionOnSet(g, L[x]) \in Int /\ h[x] \in Int
    <2>1. ASSUME NEW x \in S PROVE SumFunctionOnSet(g, L[x]) \in Int
      BY SumOfInts
    <2> QED
      BY <2>1
  <1>3. ASSUME NEW A \in SUBSET S, NEW x \in S, A \in F, x \notin A PROVE A \cup {x} \in F
    <2>1. PICK B : B = Lines(A)
      OBVIOUS
    <2>2. PICK C : C = B \cup {x}
      OBVIOUS
    <2>3. Lines(A \cup {x}) = C \cup L[x]
      BY <2>1, <2>2
    <2>4. x \notin B /\ C \cap L[x] = {}
      <3>1. \A y \in A : y \in S /\ y # x
        BY <1>3
      <3>2. x \notin B
        BY <1>3, <2>1, <3>1
      <3>3. L[x] \cap B = {} /\ x \notin L[x]
        BY <2>1, <3>1
      <3> QED
        BY <2>2, <3>2, <3>3
    <2>5. \A z \in C \cup L[x] : g[z] \in Int
      BY <2>1, <2>2
    <2>6. IsFiniteSet(B) /\ IsFiniteSet(C) /\ IsFiniteSet(C \cup L[x])
      <3>1. IsFiniteSet(B)
        BY <1>3, <2>1
      <3>2. IsFiniteSet(C)
        BY <2>2, <3>1, FS_AddElement
      <3> QED
        BY <3>1, <3>2, FiniteUnion
    <2>7. SumFunctionOnSet(g, C \cup L[x]) = SumFunctionOnSet(g, C) + SumFunctionOnSet(g, L[x])
      BY <2>4, <2>5, <2>6, SumOfUnion
    <2>8. SumFunctionOnSet(g, C) = g[x] + SumFunctionOnSet(g, B)
      <3>1. \A z \in B \cup {x} : g[z] \in Int
        BY <2>2, <2>5
      <3> QED
        BY <2>2, <2>4, <2>6, <3>1, SumAddsOne
    <2>9. SumFunctionOnSet(h, A \cup {x}) = h[x] + SumFunctionOnSet(h, A)
          /\ SumFunctionOnSet(h, A) \in Int
      <3>1. IsFiniteSet(A) /\ \A y \in A \cup {x} : h[y] \in Int
        BY <1>2, FS_Subset
      <3> QED
        BY <1>3, <3>1, SumAddsOne
    <2>10. SumFunctionOnSet(g, B) = SumFunctionOnSet(h, A)
      BY <1>3, <2>1
    <2>11. g[x] \in Int /\ SumFunctionOnSet(g, L[x]) \in Int
           /\ h[x] = g[x] + SumFunctionOnSet(g, L[x])
      BY <1>2
    <2>12. SumFunctionOnSet(g, C \cup L[x]) = SumFunctionOnSet(h, A \cup {x})
      BY <2>7, <2>8, <2>9, <2>10, <2>11
    <2> HIDE DEF Lines
    <2> QED
      BY <2>3, <2>6, <2>12
  <1>4. S \in F
    <2> HIDE DEF F
    <2> QED
      BY <1>1, <1>3, GrowsTo
  <1> QED
    BY <1>4

\* Every element of K has a line of its own, which takes its value; the rest of
\* D has no value.
Named(D, K, w, g, l) ==
    /\ \A d, e \in K : w[d] = w[e] => d = e
    /\ \A d \in D : l[d] \in Int
    /\ \A d \in K : g[w[d]] = -l[d]
    /\ \A d \in D \ K : l[d] = 0

\* A sum by name: the elements of D that have a line w[d] take its value from
\* the sum of the lines, and the others have none.
LEMMA SumByName ==
    ASSUME NEW D, IsFiniteSet(D), NEW K \in SUBSET D, NEW w, NEW g, NEW l,
           Named(D, K, w, g, l)
    PROVE  /\ IsFiniteSet({w[d] : d \in K})
           /\ SumFunctionOnSet(l, D) \in Int
           /\ SumFunctionOnSet(g, {w[d] : d \in K}) + SumFunctionOnSet(l, D) = 0
  <1> USE DEF Named
  <1> DEFINE W(A) == {w[d] : d \in A \cap K}
             F == {A \in SUBSET D : /\ IsFiniteSet(W(A))
                                    /\ SumFunctionOnSet(g, W(A)) + SumFunctionOnSet(l, A) = 0}
  <1>1. {} \in F
    <2>1. W({}) = {}
      OBVIOUS
    <2>2. SumFunctionOnSet(g, {}) = 0 /\ SumFunctionOnSet(l, {}) = 0 /\ IsFiniteSet({})
      BY SumOfNone, FS_EmptySet
    <2>3. 0 + 0 = 0
      OBVIOUS
    <2> HIDE DEF W
    <2> QED
      BY <2>1, <2>2, <2>3
  <1>2. ASSUME NEW A \in SUBSET D, NEW x \in D, A \in F, x \notin A PROVE A \cup {x} \in F
    <2>1. PICK a : a = SumFunctionOnSet(l, A)
      OBVIOUS
    <2>2. a \in Int /\ SumFunctionOnSet(l, A \cup {x}) = l[x] + a /\ l[x] \in Int
      <3>1. IsFiniteSet(A) /\ \A y \in A \cup {x} : l[y] \in Int
        BY FS_Subset
      <3> QED
        BY <1>2, <2>1, <3>1, SumAddsOne
    <2>3. IsFiniteSet(W(A)) /\ SumFunctionOnSet(g, W(A)) + a = 0
      BY <1>2, <2>1
    <2>4. CASE x \in K
      <3>1. W(A \cup {x}) = W(A) \cup {w[x]}
        BY <2>4
      <3>2. w[x] \notin W(A)
        BY <1>2, <2>4
      <3>3. \A z \in W(A) \cup {w[x]} : g[z] \in Int
        <4>1. \A d \in K : g[w[d]] = -l[d] /\ l[d] \in Int
          OBVIOUS
        <4>2. \A d \in K : g[w[d]] \in Int
          BY <4>1
        <4> QED
          BY <2>4, <4>2
      <3>4. g[w[x]] = -l[x]
        BY <2>4
      <3> HIDE DEF W
      <3>5. /\ IsFiniteSet(W(A) \cup {w[x]})
            /\ SumFunctionOnSet(g, W(A) \cup {w[x]}) = g[w[x]] + SumFunctionOnSet(g, W(A))
        BY <2>3, <3>2, <3>3, SumAddsOne, FS_AddElement
      <3>6. SumFunctionOnSet(g, W(A)) \in Int
        BY <2>3, <3>3, SumOfInts
      <3>7. (g[w[x]] + SumFunctionOnSet(g, W(A))) + (l[x] + a) = 0
        BY <2>2, <2>3, <3>4, <3>6
      <3> QED
        BY <2>2, <3>1, <3>5, <3>7
    <2>5. CASE x \notin K
      <3>1. W(A \cup {x}) = W(A) /\ l[x] = 0
        BY <2>5
      <3> HIDE DEF W
      <3>2. l[x] + a = a
        BY <2>2, <3>1
      <3> QED
        BY <2>2, <2>3, <3>1, <3>2
    <2> QED
      BY <2>4, <2>5
  <1>3. D \in F
    <2> HIDE DEF F
    <2> QED
      BY <1>1, <1>2, GrowsTo
  <1>4. W(D) = {w[d] : d \in K}
    OBVIOUS
  <1>5. SumFunctionOnSet(l, D) \in Int
    BY SumOfInts
  <1> HIDE DEF W
  <1> QED
    BY <1>3, <1>4, <1>5

-----------------------------------------------------------------------------
(* Pieces of days. *)

\* <<a, b>> is the part of one day of the interval from w0 to w1.
DayPart(a, b, w0, w1) ==
    /\ a \in Nat /\ b \in Nat /\ w0 <= a /\ a < b /\ b <= w1
    /\ a \in {w0} \cup Midnights
    /\ Ends(a, w1, b)

\* The pieces of an interval are its parts of single days.
LEMMA PiecesAreParts ==
    ASSUME NEW w0 \in Nat, NEW w1 \in Nat, NEW p
    PROVE  p \in SplitAtMidnight(w0, w1)
             <=> \E a, b \in Nat : p = <<a, b>> /\ DayPart(a, b, w0, w1)
  <1>1. ASSUME p \in SplitAtMidnight(w0, w1)
        PROVE  \E a, b \in Nat : p = <<a, b>> /\ DayPart(a, b, w0, w1)
    <2>1. w0 < w1
      BY <1>1 DEF SplitAtMidnight
    <2>2. PICK a \in Cuts(w0, w1) : p = <<a, NextCut(a, w1)>>
      BY <1>1 DEF SplitAtMidnight
    <2>3. a \in Nat /\ w0 <= a /\ a < w1 /\ a \in {w0} \cup Midnights
      BY <2>1, MidnightsNat DEF Cuts
    <2>4. PICK b : b = NextCut(a, w1)
      OBVIOUS
    <2>5. Ends(a, w1, b)
      BY <2>3, <2>4, PieceEnds
    <2>6. b \in Nat /\ a < b /\ b <= w1
      BY <2>5, MidnightsNat DEF Ends
    <2> QED
      BY <2>2, <2>3, <2>4, <2>5, <2>6 DEF DayPart
  <1>2. ASSUME NEW a \in Nat, NEW b \in Nat, p = <<a, b>>, DayPart(a, b, w0, w1)
        PROVE  p \in SplitAtMidnight(w0, w1)
    <2>1. w0 < w1 /\ a < w1 /\ a \in Cuts(w0, w1)
      BY <1>2 DEF DayPart, Cuts
    <2>2. Ends(a, w1, NextCut(a, w1)) /\ Ends(a, w1, b)
      BY <1>2, <2>1, PieceEnds DEF DayPart
    <2>3. b = NextCut(a, w1)
      BY <2>2, OneEnd
    <2> QED
      BY <1>2, <2>1, <2>3, Zenon DEF SplitAtMidnight
  <1> QED
    BY <1>1, <1>2

\* Every instant of an interval is in a piece of it that starts on its day.
LEMMA PieceOfInstant ==
    ASSUME NEW w0 \in Nat, NEW w1 \in Nat, NEW t \in Nat, w0 <= t, t < w1
    PROVE  \E a, b \in Nat : /\ DayPart(a, b, w0, w1) /\ a <= t /\ t < b
                             /\ DayOf(a) = DayOf(t)
  <1> DEFINE S == {m \in {w0} \cup Midnights : w0 <= m /\ m <= t}
             T == {n \in Nat : n <= t /\ t - n \in S}
  <1>1. \A m \in S : m \in Nat /\ m <= t
    BY MidnightsNat
  <1>2. t - w0 \in T
    OBVIOUS
  <1>3. T \in SUBSET Nat /\ T # {}
    BY <1>2
  <1>4. PICK n \in T : \A x \in T : n <= x
    <2> HIDE DEF T
    <2> QED
      BY <1>3, Least
  <1>5. PICK a \in S : a = t - n
    BY <1>4
  <1>6. a \in Nat /\ n \in Nat
    BY <1>1, <1>4, <1>5
  <1>7. ASSUME NEW m \in Midnights PROVE ~(a < m /\ m <= t)
    <2>1. SUFFICES ASSUME a < m, m <= t PROVE FALSE
      OBVIOUS
    <2>2. m \in Nat /\ m \in S
      BY <1>5, <1>6, <2>1, MidnightsNat
    <2>3. t - m \in T
      BY <2>1, <2>2
    <2>4. n <= t - m
      BY <1>4, <2>3
    <2> QED
      BY <1>5, <1>6, <2>1, <2>2, <2>4
  <1>8. PICK b : b = NextCut(a, w1)
    OBVIOUS
  <1>9. Ends(a, w1, b) /\ w0 <= a /\ a <= t /\ a \in {w0} \cup Midnights
    BY <1>5, <1>6, <1>8, PieceEnds
  <1>10. b \in Nat /\ a < b /\ b <= w1
    BY <1>9, MidnightsNat DEF Ends
  <1>11. t < b
    <2>1. CASE b = w1
      BY <2>1
    <2>2. CASE b \in Midnights
      BY <1>6, <1>7, <1>9, <1>10, <2>2
    <2> QED
      BY <1>9, <2>1, <2>2 DEF Ends
  <1>12. DayOf(a) = DayOf(t)
    BY <1>6, <1>7, <1>9, SameDay
  <1> QED
    BY <1>6, <1>9, <1>10, <1>11, <1>12 DEF DayPart

\* Instants of one day have no midnight between them.
LEMMA NoMidnightBetween ==
    ASSUME NEW t \in Nat, NEW u \in Nat, DayOf(t) = DayOf(u)
    PROVE  \A m \in Midnights : ~(t < m /\ m <= u) /\ ~(u < m /\ m <= t)
  <1>1. DayOf(t) \in Nat /\ DayOf(u) \in Nat
    BY DaysCount
  <1>2. ASSUME NEW m \in Midnights, t < m, m <= u PROVE FALSE
    <2>1. DayOf(t) < DayOf(u)
      BY <1>2, LaterDay
    <2> QED
      BY <1>1, <2>1
  <1>3. ASSUME NEW m \in Midnights, u < m, m <= t PROVE FALSE
    <2>1. DayOf(u) < DayOf(t)
      BY <1>3, LaterDay
    <2> QED
      BY <1>1, <2>1
  <1> QED
    BY <1>2, <1>3

\* The bounds of what two intervals share.
Later(a, b) == IF a <= b THEN b ELSE a
Earlier(a, b) == IF a <= b THEN a ELSE b
Shared(v0, v1, a0, a1, b0, b1) == v0 = Later(a0, b0) /\ v1 = Earlier(a1, b1)

\* What an interval from e0 to e1 has of a day, within a larger one from w0 to
\* w1: the part <<a, b>> of the larger one, cut to the other ...
LEMMA PartIsCut ==
    ASSUME NEW w0 \in Nat, NEW w1 \in Nat, NEW v0 \in Nat, NEW v1 \in Nat,
           NEW e0 \in Int, NEW e1 \in Int, NEW a \in Nat, NEW b \in Nat,
           NEW x \in Nat, NEW y \in Nat, Shared(v0, v1, e0, e1, w0, w1),
           DayPart(a, b, w0, w1), DayPart(x, y, v0, v1), DayOf(x) = DayOf(a)
    PROVE  Shared(x, y, a, b, e0, e1)
  <1>1. /\ w0 <= a /\ a < b /\ b <= w1 /\ a \in {w0} \cup Midnights
        /\ b \in {w1} \cup Midnights /\ \A m \in Midnights : a < m => b <= m
    BY DEF DayPart, Ends
  <1>2. /\ v0 <= x /\ x < y /\ y <= v1 /\ x \in {v0} \cup Midnights
        /\ y \in {v1} \cup Midnights /\ \A m \in Midnights : x < m => y <= m
    BY DEF DayPart, Ends
  <1>3. \A m \in Midnights : ~(x < m /\ m <= a) /\ ~(a < m /\ m <= x)
    BY NoMidnightBetween
  <1>4. v0 = (IF e0 <= w0 THEN w0 ELSE e0) /\ v1 = (IF e1 <= w1 THEN e1 ELSE w1)
    BY DEF Shared, Later, Earlier
  <1>5. a <= x
    <2>1. CASE a = w0
      BY <1>2, <1>4, <2>1
    <2>2. CASE a \in Midnights
      BY <1>3, <2>2
    <2> QED
      BY <1>1, <2>1, <2>2
  <1>6. x = (IF a <= e0 THEN e0 ELSE a)
    <2>1. CASE x = v0
      BY <1>1, <1>2, <1>4, <1>5, <2>1
    <2>2. CASE x \in Midnights
      <3>1. x = a
        BY <1>3, <1>5, <2>2
      <3> QED
        BY <1>2, <1>4, <3>1
    <2> QED
      BY <1>2, <2>1, <2>2
  <1>7. x < b
    <2>1. CASE b = w1
      BY <1>2, <1>4, <2>1
    <2>2. CASE b \in Midnights
      BY <1>1, <1>3, <2>2
    <2> QED
      BY <1>1, <2>1, <2>2
  <1>8. y <= b
    <2>1. CASE b = w1
      BY <1>2, <1>4, <2>1
    <2>2. CASE b \in Midnights
      BY <1>2, <1>7, <2>2
    <2> QED
      BY <1>1, <2>1, <2>2
  <1>9. y = (IF b <= e1 THEN b ELSE e1)
    <2>1. CASE y = v1
      BY <1>1, <1>2, <1>4, <1>8, <2>1
    <2>2. CASE y \in Midnights
      <3>1. y = b
        BY <1>1, <1>2, <1>5, <1>8, <2>2
      <3> QED
        BY <1>2, <1>4, <3>1
    <2> QED
      BY <1>2, <2>1, <2>2
  <1> QED
    BY <1>6, <1>9 DEF Shared, Later, Earlier

\* ... unless nothing is left of it.
LEMMA CutIsPart ==
    ASSUME NEW w0 \in Nat, NEW w1 \in Nat, NEW v0 \in Nat, NEW v1 \in Nat,
           NEW e0 \in Int, NEW e1 \in Int, NEW a \in Nat, NEW b \in Nat,
           NEW x \in Nat, NEW y \in Nat, Shared(v0, v1, e0, e1, w0, w1),
           DayPart(a, b, w0, w1), Shared(x, y, a, b, e0, e1), x < y
    PROVE  DayPart(x, y, v0, v1) /\ DayOf(x) = DayOf(a)
  <1>1. /\ w0 <= a /\ a < b /\ b <= w1 /\ a \in {w0} \cup Midnights
        /\ b \in {w1} \cup Midnights /\ \A m \in Midnights : a < m => b <= m
    BY DEF DayPart, Ends
  <1>2. v0 = (IF e0 <= w0 THEN w0 ELSE e0) /\ v1 = (IF e1 <= w1 THEN e1 ELSE w1)
    BY DEF Shared, Later, Earlier
  <1>3. x = (IF a <= e0 THEN e0 ELSE a) /\ y = (IF b <= e1 THEN b ELSE e1)
    BY DEF Shared, Later, Earlier
  <1>4. a <= x /\ y <= b /\ v0 <= x /\ y <= v1
    BY <1>1, <1>2, <1>3
  <1>5. x \in {v0} \cup Midnights
    <2>1. CASE a = w0
      BY <1>2, <1>3, <2>1
    <2>2. CASE a \in Midnights
      BY <1>1, <1>2, <1>3, <2>2
    <2> QED
      BY <1>1, <2>1, <2>2
  <1>6. y \in {v1} \cup Midnights
    <2>1. CASE b = w1
      BY <1>2, <1>3, <2>1
    <2>2. CASE b \in Midnights
      BY <1>1, <1>2, <1>3, <2>2
    <2> QED
      BY <1>1, <2>1, <2>2
  <1>7. ASSUME NEW m \in Midnights PROVE (x < m => y <= m) /\ ~(a < m /\ m <= x)
    <2>1. m \in Nat /\ (a < m => b <= m)
      BY <1>1, MidnightsNat
    <2> QED
      BY <1>3, <1>4, <2>1
  <1>8. DayOf(x) = DayOf(a)
    BY <1>4, <1>7, SameDay
  <1>9. Ends(x, v1, y)
    BY <1>4, <1>6, <1>7 DEF Ends
  <1> QED
    BY <1>4, <1>5, <1>8, <1>9 DEF DayPart

-----------------------------------------------------------------------------
(* Cutting at midnight loses nothing (split_at_local_midnight). *)

Within(t, u) == u[1] <= t /\ t < u[2]

\* The piece that an instant is in is the only one.
LEMMA OnePieceOfInstant ==
    ASSUME NEW w0 \in Nat, NEW w1 \in Nat, NEW t \in Nat, NEW a \in Nat, NEW b \in Nat,
           NEW x \in Nat, NEW y \in Nat, DayPart(a, b, w0, w1), DayPart(x, y, w0, w1),
           a <= t, t < b, x <= t, t < y
    PROVE  a = x /\ b = y
  <1>1. /\ w0 <= a /\ b <= w1 /\ a \in {w0} \cup Midnights /\ b \in {w1} \cup Midnights
        /\ w0 <= x /\ y <= w1 /\ x \in {w0} \cup Midnights /\ y \in {w1} \cup Midnights
    BY DEF DayPart, Ends
  <1>2. /\ \A m \in Midnights : a < m => b <= m
        /\ \A m \in Midnights : x < m => y <= m
    BY DEF DayPart, Ends
  <1>3. a = x
    BY <1>1, <1>2
  <1>4. b = y
    BY <1>1, <1>2
  <1> QED
    BY <1>3, <1>4

\* All instants of a piece are on the day it starts.
LEMMA PieceOnDay ==
    ASSUME NEW w0 \in Nat, NEW w1 \in Nat, NEW a \in Nat, NEW b \in Nat,
           DayPart(a, b, w0, w1), NEW t \in Nat, a <= t, t < b
    PROVE  DayOf(t) = DayOf(a)
  <1>1. ASSUME NEW m \in Midnights PROVE ~(a < m /\ m <= t)
    BY MidnightsNat DEF DayPart, Ends
  <1> QED
    BY <1>1, SameDay

\* An instant more starts a piece, at a midnight, or makes the last one longer.
LEMMA OneInstantMore ==
    ASSUME NEW w0 \in Nat, NEW e \in Nat, w0 <= e
    PROVE  \/ /\ SplitAtMidnight(w0, e + 1) = SplitAtMidnight(w0, e) \cup {<<e, e + 1>>}
              /\ <<e, e + 1>> \notin SplitAtMidnight(w0, e)
           \/ \E a \in Nat :
                 /\ a < e /\ <<a, e>> \in SplitAtMidnight(w0, e)
                 /\ SplitAtMidnight(w0, e + 1)
                      = (SplitAtMidnight(w0, e) \ {<<a, e>>}) \cup {<<a, e + 1>>}
                 /\ <<a, e + 1>> \notin SplitAtMidnight(w0, e)
  <1>1. PICK f \in Nat : f = e + 1
    OBVIOUS
  <1>2. ASSUME NEW p PROVE
          /\ p \in SplitAtMidnight(w0, e) <=> \E a, b \in Nat : p = <<a, b>> /\ DayPart(a, b, w0, e)
          /\ p \in SplitAtMidnight(w0, f) <=> \E a, b \in Nat : p = <<a, b>> /\ DayPart(a, b, w0, f)
    BY PiecesAreParts
  <1>3. ASSUME NEW a \in Nat, NEW b \in Nat, DayPart(a, b, w0, e) PROVE b <= e /\ a < b
    BY <1>3 DEF DayPart
  <1>4. \A a \in Nat : <<a, f>> \notin SplitAtMidnight(w0, e)
    BY <1>1, <1>2, <1>3
  <1>5. CASE e = w0 \/ e \in Midnights
    <2>1. ASSUME NEW a \in Nat, NEW b \in Nat
          PROVE  DayPart(a, b, w0, f) <=> DayPart(a, b, w0, e) \/ (a = e /\ b = f)
      BY <1>1, <1>5, MidnightsNat DEF DayPart, Ends
    <2>2. ASSUME NEW p
          PROVE  p \in SplitAtMidnight(w0, f) <=> p \in SplitAtMidnight(w0, e) \/ p = <<e, f>>
      BY <1>2, <2>1
    <2>3. SplitAtMidnight(w0, f) = SplitAtMidnight(w0, e) \cup {<<e, f>>}
      BY <2>2, Zenon
    <2> QED
      BY <1>1, <1>4, <2>3
  <1>6. CASE e # w0 /\ e \notin Midnights
    <2>1. PICK t \in Nat : t + 1 = e /\ w0 <= t /\ t < e
      <3>1. e - 1 \in Nat /\ (e - 1) + 1 = e /\ w0 <= e - 1 /\ e - 1 < e
        BY <1>6
      <3> QED
        BY <3>1
    <2>2. PICK a, b \in Nat : DayPart(a, b, w0, e) /\ a <= t /\ t < b
      BY <2>1, PieceOfInstant
    <2>3. b = e
      BY <1>3, <2>1, <2>2
    <2>4. DayPart(a, e, w0, e) /\ a < e
      BY <2>1, <2>2, <2>3
    <2>5. ASSUME NEW x \in Nat, DayPart(x, e, w0, e) PROVE x = a
      <3>1. x <= t /\ t < e
        BY <1>3, <2>1, <2>5
      <3> QED
        BY <2>2, <2>3, <2>5, <3>1, OnePieceOfInstant
    <2>6. ASSUME NEW x \in Nat, NEW y \in Nat
          PROVE  DayPart(x, y, w0, f)
                   <=> (DayPart(x, y, w0, e) /\ y # e) \/ (y = f /\ DayPart(x, e, w0, e))
      BY <1>1, <1>6, MidnightsNat DEF DayPart, Ends
    <2>7. ASSUME NEW p
          PROVE  p \in SplitAtMidnight(w0, f)
                   <=> (p \in SplitAtMidnight(w0, e) /\ p # <<a, e>>) \/ p = <<a, f>>
      BY <1>2, <2>4, <2>5, <2>6
    <2>8. SplitAtMidnight(w0, f) = (SplitAtMidnight(w0, e) \ {<<a, e>>}) \cup {<<a, f>>}
      BY <2>7, Zenon
    <2>9. <<a, e>> \in SplitAtMidnight(w0, e)
      BY <1>2, <2>4
    <2> QED
      BY <1>1, <1>4, <2>4, <2>8, <2>9
  <1> QED
    BY <1>5, <1>6

\* The lengths of pieces, as a function of the intervals.
Lengths == [p \in Nat \X Nat |-> p[2] - p[1]]

\* The pieces are finitely many, and their lengths add up.
LEMMA PiecesAddUp ==
    ASSUME NEW w0 \in Nat, NEW n \in Nat
    PROVE  /\ IsFiniteSet(SplitAtMidnight(w0, w0 + n))
           /\ SplitAtMidnight(w0, w0 + n) \subseteq Nat \X Nat
           /\ SumFunctionOnSet(Lengths, SplitAtMidnight(w0, w0 + n)) = n
  <1> DEFINE AddUp(i, P) == /\ IsFiniteSet(P) /\ P \subseteq Nat \X Nat
                            /\ SumFunctionOnSet(Lengths, P) = i
             C == {i \in Nat : AddUp(i, SplitAtMidnight(w0, w0 + i))}
  <1>1. 0 \in C
    <2>1. SplitAtMidnight(w0, w0 + 0) = {}
      BY DEF SplitAtMidnight
    <2>2. AddUp(0, {})
      BY SumOfNone, FS_EmptySet
    <2> HIDE DEF AddUp
    <2> QED
      BY <2>1, <2>2
  <1>2. ASSUME NEW S, IsFiniteSet(S), S \subseteq Nat \X Nat, NEW a \in Nat, NEW b \in Nat,
               <<a, b>> \notin S
        PROVE  /\ IsFiniteSet(S \cup {<<a, b>>}) /\ S \cup {<<a, b>>} \subseteq Nat \X Nat
               /\ SumFunctionOnSet(Lengths, S) \in Int
               /\ SumFunctionOnSet(Lengths, S \cup {<<a, b>>})
                    = (b - a) + SumFunctionOnSet(Lengths, S)
    <2>1. PICK x : x = <<a, b>>
      OBVIOUS
    <2>2. \A p \in Nat \X Nat : Lengths[p] = p[2] - p[1] /\ p[1] \in Nat /\ p[2] \in Nat
      BY DEF Lengths
    <2>3. S \cup {x} \subseteq Nat \X Nat /\ Lengths[x] = b - a
      BY <1>2, <2>1, <2>2
    <2>4. \A p \in S \cup {x} : Lengths[p] \in Int
      <3>1. \A p \in Nat \X Nat : Lengths[p] \in Int
        BY <2>2
      <3> QED
        BY <2>3, <3>1
    <2>5. /\ SumFunctionOnSet(Lengths, S) \in Int
          /\ SumFunctionOnSet(Lengths, S \cup {x}) = Lengths[x] + SumFunctionOnSet(Lengths, S)
      BY <1>2, <2>1, <2>4, SumAddsOne
    <2>6. IsFiniteSet(S \cup {x})
      BY <1>2, FS_AddElement
    <2> QED
      BY <2>1, <2>3, <2>5, <2>6
  <1>3. ASSUME NEW i \in 0..(n-1), i \in C PROVE i + 1 \in C
    <2>1. PICK e \in Nat : e = w0 + i /\ w0 <= e
      OBVIOUS
    <2>2. w0 + (i + 1) = e + 1
      BY <2>1
    <2>3. PICK P : P = SplitAtMidnight(w0, e)
      OBVIOUS
    <2>4. PICK Q : Q = SplitAtMidnight(w0, e + 1)
      OBVIOUS
    <2>5. IsFiniteSet(P) /\ P \subseteq Nat \X Nat /\ SumFunctionOnSet(Lengths, P) = i
      BY <1>3, <2>1, <2>3
    <2>6. CASE Q = P \cup {<<e, e + 1>>} /\ <<e, e + 1>> \notin P
      <3>1. /\ IsFiniteSet(Q) /\ Q \subseteq Nat \X Nat
            /\ SumFunctionOnSet(Lengths, Q) = ((e + 1) - e) + SumFunctionOnSet(Lengths, P)
        <4>1. PICK f \in Nat : f = e + 1 /\ <<e, f>> \notin P /\ Q = P \cup {<<e, f>>}
          BY <2>6
        <4>2. /\ IsFiniteSet(P \cup {<<e, f>>}) /\ P \cup {<<e, f>>} \subseteq Nat \X Nat
              /\ SumFunctionOnSet(Lengths, P \cup {<<e, f>>})
                   = (f - e) + SumFunctionOnSet(Lengths, P)
          BY <1>2, <2>5, <4>1
        <4> QED
          BY <4>1, <4>2
      <3>2. SumFunctionOnSet(Lengths, Q) = i + 1
        BY <2>5, <3>1
      <3> QED
        BY <2>2, <2>4, <3>1, <3>2
    <2>7. ASSUME NEW a \in Nat, a < e, <<a, e>> \in P, <<a, e + 1>> \notin P,
                 Q = (P \ {<<a, e>>}) \cup {<<a, e + 1>>}
          PROVE  i + 1 \in C
      <3>1. PICK R : R = P \ {<<a, e>>}
        OBVIOUS
      <3>2. /\ IsFiniteSet(R) /\ R \subseteq Nat \X Nat /\ <<a, e>> \notin R
            /\ <<a, e + 1>> \notin R /\ P = R \cup {<<a, e>>}
        BY <2>5, <2>7, <3>1, FS_Subset
      <3>3. /\ SumFunctionOnSet(Lengths, R) \in Int
            /\ SumFunctionOnSet(Lengths, P) = (e - a) + SumFunctionOnSet(Lengths, R)
        BY <1>2, <3>2
      <3>4. Q = R \cup {<<a, e + 1>>} /\ e + 1 \in Nat
        BY <2>7, <3>1
      <3>5. /\ IsFiniteSet(Q) /\ Q \subseteq Nat \X Nat
            /\ SumFunctionOnSet(Lengths, Q) = ((e + 1) - a) + SumFunctionOnSet(Lengths, R)
        <4>1. PICK f \in Nat : f = e + 1 /\ <<a, f>> \notin R /\ Q = R \cup {<<a, f>>}
          BY <3>2, <3>4
        <4>2. /\ IsFiniteSet(R \cup {<<a, f>>}) /\ R \cup {<<a, f>>} \subseteq Nat \X Nat
              /\ SumFunctionOnSet(Lengths, R \cup {<<a, f>>})
                   = (f - a) + SumFunctionOnSet(Lengths, R)
          BY <1>2, <3>2, <4>1
        <4> QED
          BY <4>1, <4>2
      <3>6. SumFunctionOnSet(Lengths, Q) = i + 1
        BY <2>5, <3>3, <3>5
      <3> QED
        BY <2>2, <2>4, <3>5, <3>6
    <2> QED
      BY <2>1, <2>3, <2>4, <2>6, <2>7, OneInstantMore
  <1>4. n \in C
    <2> HIDE DEF C
    <2>1. 0..n \subseteq C
      BY <1>1, <1>3, CountsUp
    <2> QED
      BY <2>1
  <1> QED
    BY <1>4

\* split_at_local_midnight, for any midnights: every instant of an interval is in
\* one piece of it and one only, a piece stays within one local day, and the
\* lengths of the pieces add up to the length of the interval.
THEOREM SplitLosesNothing ==
    ASSUME NEW start \in Nat, NEW end \in Nat
    PROVE  /\ \A t \in Nat : start <= t /\ t < end =>
                 \E p \in SplitAtMidnight(start, end) :
                    /\ Within(t, p)
                    /\ \A q \in SplitAtMidnight(start, end) : Within(t, q) => q = p
           /\ \A p \in SplitAtMidnight(start, end) :
                 /\ start <= p[1] /\ p[1] < p[2] /\ p[2] <= end
                 /\ \A t \in Nat : Within(t, p) => DayOf(t) = DayOf(p[1])
           /\ start <= end =>
                 SumFunction([p \in SplitAtMidnight(start, end) |-> p[2] - p[1]]) = end - start
  <1>1. ASSUME NEW t \in Nat, start <= t, t < end
        PROVE  \E p \in SplitAtMidnight(start, end) :
                  /\ Within(t, p)
                  /\ \A q \in SplitAtMidnight(start, end) : Within(t, q) => q = p
    <2>1. PICK a, b \in Nat : DayPart(a, b, start, end) /\ a <= t /\ t < b
      BY <1>1, PieceOfInstant
    <2>2. <<a, b>> \in SplitAtMidnight(start, end) /\ Within(t, <<a, b>>)
      BY <2>1, PiecesAreParts DEF Within
    <2>3. ASSUME NEW q \in SplitAtMidnight(start, end), Within(t, q) PROVE q = <<a, b>>
      <3>1. PICK x, y \in Nat : q = <<x, y>> /\ DayPart(x, y, start, end)
        BY PiecesAreParts
      <3>2. x <= t /\ t < y
        BY <2>3, <3>1 DEF Within
      <3>3. a = x /\ b = y
        BY <2>1, <3>1, <3>2, OnePieceOfInstant
      <3> QED
        BY <3>1, <3>3
    <2> QED
      BY <2>2, <2>3
  <1>2. ASSUME NEW p \in SplitAtMidnight(start, end)
        PROVE  /\ start <= p[1] /\ p[1] < p[2] /\ p[2] <= end
               /\ \A t \in Nat : Within(t, p) => DayOf(t) = DayOf(p[1])
    <2>1. PICK a, b \in Nat : p = <<a, b>> /\ DayPart(a, b, start, end)
      BY PiecesAreParts
    <2>2. p[1] = a /\ p[2] = b /\ start <= a /\ a < b /\ b <= end
      BY <2>1 DEF DayPart
    <2>3. ASSUME NEW t \in Nat, Within(t, p) PROVE DayOf(t) = DayOf(p[1])
      <3>1. a <= t /\ t < b
        BY <2>2, <2>3 DEF Within
      <3>2. DayOf(t) = DayOf(a)
        BY <2>1, <3>1, PieceOnDay
      <3> QED
        BY <2>2, <3>2
    <2> QED
      BY <2>2, <2>3
  <1>3. ASSUME start <= end
        PROVE  SumFunction([p \in SplitAtMidnight(start, end) |-> p[2] - p[1]]) = end - start
    <2>1. PICK n \in Nat : n = end - start /\ start + n = end
      BY <1>3
    <2>2. PICK P : P = SplitAtMidnight(start, end)
      OBVIOUS
    <2>3. IsFiniteSet(P) /\ P \subseteq Nat \X Nat /\ SumFunctionOnSet(Lengths, P) = n
      <3>1. /\ IsFiniteSet(SplitAtMidnight(start, start + n))
            /\ SplitAtMidnight(start, start + n) \subseteq Nat \X Nat
            /\ SumFunctionOnSet(Lengths, SplitAtMidnight(start, start + n)) = n
        BY ONLY PiecesAddUp, Zenon
      <3> QED
        BY <2>1, <2>2, <3>1
    <2>4. PICK f : f = [p \in P |-> p[2] - p[1]]
      OBVIOUS
    <2>5. \A p \in P : f[p] \in Int /\ f[p] = Lengths[p]
      BY <2>3, <2>4 DEF Lengths
    <2>6. SumFunctionOnSet(f, P) = SumFunctionOnSet(Lengths, P)
      BY <2>3, <2>5, SumOfSame
    <2>7. SumFunction(f) = SumFunctionOnSet(f, P)
      BY <2>4 DEF SumFunction
    <2> QED
      BY <2>1, <2>2, <2>3, <2>4, <2>6, <2>7
  <1> QED
    BY <1>1, <1>2, <1>3

-----------------------------------------------------------------------------
(* The lines of the CSV file. *)

\* Two intervals meet between the later start and the earlier end.
LEMMA MeetOf ==
    ASSUME NEW a0 \in Int, NEW a1 \in Int, NEW b0 \in Int, NEW b1 \in Int
    PROVE  Meet(<<a0, a1>>, <<b0, b1>>)
             = <<Later(a0, b0), Earlier(a1, b1)>>
  BY LargerOf DEF Meet, Later, Earlier

\* An interval has a length, unless it is over before it starts.
LEMMA LengthOf ==
    ASSUME NEW a \in Int, NEW b \in Int
    PROVE  Length(<<a, b>>) = IF a <= b THEN b - a ELSE 0
  <1>1. PICK c \in Int : c = b - a
    OBVIOUS
  <1>2. Max({0, c}) = IF 0 <= c THEN c ELSE 0
    BY LargerOf
  <1>3. Length(<<a, b>>) = Max({0, c})
    BY <1>1 DEF Length
  <1> QED
    BY <1>1, <1>2, <1>3

\* A day has one piece of an interval at most.
LEMMA OnePiece ==
    ASSUME NEW w0 \in Nat, NEW w1 \in Nat, NEW p \in Pieces(<<w0, w1>>),
           NEW q \in Pieces(<<w0, w1>>), NEW day, On(day, p), On(day, q)
    PROVE  p = q
  <1>1. p \in SplitAtMidnight(w0, w1) /\ q \in SplitAtMidnight(w0, w1)
    BY DEF Pieces
  <1>2. PICK a, b \in Nat : p = <<a, b>> /\ DayPart(a, b, w0, w1)
    BY <1>1, PiecesAreParts
  <1>3. PICK x, y \in Nat : q = <<x, y>> /\ DayPart(x, y, w0, w1)
    BY <1>1, PiecesAreParts
  <1>4. DayOf(x) = DayOf(a)
    BY <1>2, <1>3 DEF On
  <1>5. Shared(w0, w1, w0, w1, w0, w1) /\ w0 \in Int /\ w1 \in Int
    BY DEF Shared, Later, Earlier
  <1>6. Shared(x, y, a, b, w0, w1)
    BY <1>2, <1>3, <1>4, <1>5, PartIsCut
  <1>7. w0 <= a /\ b <= w1
    BY <1>2 DEF DayPart
  <1> QED
    BY <1>2, <1>3, <1>6, <1>7 DEF Shared, Later, Earlier

\* What a lunch takes of a day: the part of the work of that day that it meets.
LEMMA PauseParts ==
    ASSUME NEW w0 \in Nat, NEW w1 \in Nat, NEW e0 \in Int, NEW e1 \in Int, NEW day, NEW q
    PROVE  q \in Pieces(Meet(<<e0, e1>>, <<w0, w1>>)) /\ On(day, q)
             <=> \E p \in Pieces(<<w0, w1>>) :
                    On(day, p) /\ q = Meet(p, <<e0, e1>>) /\ Length(q) > 0
  <1>1. PICK v0 \in Nat : v0 = Later(e0, w0) /\ w0 <= v0
    BY DEF Later
  <1>2. PICK v1 \in Int : v1 = Earlier(e1, w1) /\ v1 <= w1 /\ v1 \in {e1, w1}
    BY DEF Earlier
  <1>3. Meet(<<e0, e1>>, <<w0, w1>>) = <<v0, v1>>
    BY <1>1, <1>2, MeetOf
  <1>4. Shared(v0, v1, e0, e1, w0, w1)
    BY <1>1, <1>2 DEF Shared
  <1>5. Pieces(<<v0, v1>>) = SplitAtMidnight(v0, v1)
        /\ Pieces(<<w0, w1>>) = SplitAtMidnight(w0, w1)
    BY DEF Pieces
  <1>6. ASSUME q \in SplitAtMidnight(v0, v1), On(day, q)
        PROVE  \E p \in SplitAtMidnight(w0, w1) :
                  On(day, p) /\ q = Meet(p, <<e0, e1>>) /\ Length(q) > 0
    <2>1. v0 < v1
      BY <1>6 DEF SplitAtMidnight
    <2>2. v1 \in Nat
      BY <2>1
    <2>3. PICK x, y \in Nat : q = <<x, y>> /\ DayPart(x, y, v0, v1)
      BY <1>6, <2>2, PiecesAreParts
    <2>4. v0 <= x /\ x < y /\ y <= v1
      BY <2>3 DEF DayPart
    <2>5. w0 <= x /\ x < w1
      BY <1>1, <1>2, <2>2, <2>4
    <2>6. PICK a, b \in Nat : DayPart(a, b, w0, w1) /\ DayOf(a) = DayOf(x)
      BY <2>5, PieceOfInstant
    <2>7. Shared(x, y, a, b, e0, e1)
      BY <1>4, <2>2, <2>3, <2>6, PartIsCut
    <2>8. q = Meet(<<a, b>>, <<e0, e1>>)
      BY <2>3, <2>7, MeetOf DEF Shared
    <2>9. Length(q) > 0
      BY <2>3, <2>4, LengthOf
    <2>10. <<a, b>> \in SplitAtMidnight(w0, w1)
      BY <2>6, PiecesAreParts
    <2>11. On(day, <<a, b>>)
      BY <1>6, <2>3, <2>6 DEF On
    <2> QED
      BY <2>8, <2>9, <2>10, <2>11
  <1>7. ASSUME NEW p \in SplitAtMidnight(w0, w1),
               On(day, p), q = Meet(p, <<e0, e1>>), Length(q) > 0
        PROVE  q \in SplitAtMidnight(v0, v1) /\ On(day, q)
    <2>1. PICK a, b \in Nat : p = <<a, b>> /\ DayPart(a, b, w0, w1)
      BY PiecesAreParts
    <2>2. PICK x \in Nat : x = Later(a, e0) /\ x \in {a, e0}
      BY DEF Later
    <2>3. PICK y \in Int : y = Earlier(b, e1) /\ y <= b /\ y <= e1
      BY DEF Earlier
    <2>4. q = <<x, y>>
      BY <1>7, <2>1, <2>2, <2>3, MeetOf
    <2>5. x < y
      BY <1>7, <2>4, LengthOf
    <2>6. w1 \in Nat /\ y \in Nat /\ v1 \in Nat
      BY <1>2, <2>3, <2>5
    <2>7. DayPart(x, y, v0, v1) /\ DayOf(x) = DayOf(a)
      <3>1. Shared(x, y, a, b, e0, e1)
        BY <2>2, <2>3 DEF Shared
      <3> QED
        <4>1. PICK i \in Nat, j \in Nat : i = v1 /\ j = y
          BY <2>6
        <4>2. /\ Shared(v0, i, e0, e1, w0, w1) /\ Shared(x, j, a, b, e0, e1)
              /\ DayPart(a, b, w0, w1) /\ x < j
          BY <1>4, <2>1, <2>5, <3>1, <4>1
        <4>3. DayPart(x, j, v0, i) /\ DayOf(x) = DayOf(a)
          BY ONLY <4>2, CutIsPart
        <4> QED
          BY <4>1, <4>3
    <2>8. q \in SplitAtMidnight(v0, v1)
      BY <2>4, <2>6, <2>7, PiecesAreParts
    <2>9. On(day, q)
      BY <1>7, <2>1, <2>4, <2>7 DEF On
    <2> QED
      BY <2>8, <2>9
  <1> QED
    BY <1>3, <1>5, <1>6, <1>7

\* The effective bounds of a lunch or break, whatever they are, are numbers.
LEMMA PauseBounds ==
    ASSUME TotalsInv, NEW d \in DeductionIds
    PROVE  \E e0, e1 \in Int : Bounds(d) = <<e0, e1>>
  <1>1. /\ effective[d] \in Times \X Times /\ deductions[d] \in DeductionRow /\ clock \in Nat
        /\ d \notin SessionIds
    BY TimeTrackingAssumption DEF TotalsInv, SafetyInv, TypeOK
  <1>2. \A t \in Times : t \in Int
    BY DEF Times, NoTime
  <1>3. CASE effective[d] # Unset
    <2>1. Bounds(d) = effective[d]
      BY <1>3 DEF Bounds
    <2>2. PICK e0, e1 \in Times : effective[d] = <<e0, e1>>
      BY <1>1
    <2> QED
      BY <1>2, <2>1, <2>2
  <1>4. CASE effective[d] = Unset
    <2>1. PICK e0 : e0 = deductions[d].start
      OBVIOUS
    <2>2. PICK e1 : e1 = EndAsOf(deductions[d], Now)
      OBVIOUS
    <2>3. Bounds(d) = <<e0, e1>>
      BY <1>1, <1>4, <2>1, <2>2 DEF Bounds, RowOf
    <2>4. deductions[d].start \in Times /\ deductions[d].end \in Times
      BY <1>1 DEF DeductionRow
    <2>5. e0 \in Int /\ e1 \in Int
      BY <1>1, <1>2, <2>1, <2>2, <2>4 DEF EndAsOf, Now
    <2> QED
      BY <2>3, <2>5
  <1> QED
    BY <1>3, <1>4

\* The bounds of a session, cut to a range of days.
LEMMA WorkBounds ==
    ASSUME TotalsInv, NEW s \in Live(sessions), NEW range \in Ranges
    PROVE  \E w0, w1 \in Nat : Meet(Bounds(s), range) = <<w0, w1>>
  <1>1. PICK r0, r1 \in Nat : range = <<r0, r1>> /\ RangeStart(r0) /\ RangeEnd(r1)
    BY RangeBounds
  <1>2. PICK b0, b1 \in Nat : Bounds(s) = <<b0, b1>>
    BY <1>1, BoundsReach
  <1>3. PICK w0 \in Nat : w0 = Later(b0, r0)
    BY DEF Later
  <1>4. PICK w1 \in Nat : w1 = Earlier(b1, r1)
    BY DEF Earlier
  <1>5. Meet(<<b0, b1>>, <<r0, r1>>) = <<w0, w1>>
    BY <1>3, <1>4, MeetOf
  <1> QED
    BY <1>1, <1>2, <1>5

\* The pieces that the hours of a day count, and what the lunches of a session
\* take of one of them.
Counted(range, day) == {x \in SummaryPieces(range) : On(day, x[2])}
Taking(s, p) == {d \in LivePauses(s) : Length(Meet(p, Bounds(d))) > 0}
PauseLines(s, p) == {<<d, Meet(p, Bounds(d))>> : d \in Taking(s, p)}

\* Of a day without running work, only completed sessions are counted.
LEMMA CountedPieces ==
    ASSUME TotalsInv, NEW range \in Ranges, NEW day, ~Provisional(range, day), NEW x
    PROVE  x \in Counted(range, day)
             <=> \E s \in {t \in Intersecting(range[1], range[2]) : sessions[t].end # NoTime} :
                    \E p \in Pieces(Meet(Bounds(s), range)) : x = <<s, p>> /\ On(day, p)
  <1>1. ASSUME x \in Counted(range, day)
        PROVE  \E s \in {t \in Intersecting(range[1], range[2]) : sessions[t].end # NoTime} :
                  \E p \in Pieces(Meet(Bounds(s), range)) : x = <<s, p>> /\ On(day, p)
    <2>1. x \in SummaryPieces(range) /\ On(day, x[2])
      BY <1>1 DEF Counted
    <2>2. PICK s \in Intersecting(range[1], range[2]) : x \in {s} \X Pieces(Meet(Bounds(s), range))
      BY <2>1 DEF SummaryPieces
    <2>3. PICK p \in Pieces(Meet(Bounds(s), range)) : x = <<s, p>>
      BY <2>2
    <2>4. x[1] = s /\ x[2] = p
      BY <2>3
    <2>5. sessions[s].end # NoTime
      BY <2>1, <2>4, Zenon DEF Provisional
    <2> QED
      BY <2>1, <2>3, <2>4, <2>5
  <1>2. ASSUME NEW s \in Intersecting(range[1], range[2]),
               NEW p \in Pieces(Meet(Bounds(s), range)), x = <<s, p>>, On(day, p)
        PROVE  x \in Counted(range, day)
    <2>1. x \in {s} \X Pieces(Meet(Bounds(s), range)) /\ x[2] = p
      BY <1>2
    <2>2. x \in SummaryPieces(range)
      BY <2>1, Zenon DEF SummaryPieces
    <2> QED
      BY <1>2, <2>1, <2>2 DEF Counted
  <1> QED
    BY <1>1, <1>2

\* A session that is completed has no running lunch.
LEMMA CompletedPauses ==
    ASSUME TotalsInv, NEW s \in SessionIds, sessions[s].end # NoTime
    PROVE  /\ LivePauses(s) = {e \in LivePauses(s) : deductions[e].end # NoTime}
           /\ LivePauses(s) \subseteq DeductionIds
           /\ \A t \in SessionIds : t # s => LivePauses(s) \cap LivePauses(t) = {}
  <1>1. deductions \in [DeductionIds -> DeductionRow] /\ OneTimer
    BY DEF TotalsInv, SafetyInv, TypeOK
  <1>2. ASSUME NEW e \in LivePauses(s) PROVE deductions[e].end # NoTime
    <2>1. e \in DeductionIds /\ deductions[e].parent = s /\ ~deductions[e].dead
      BY DEF LivePauses, ChildrenOf, Live
    <2>2. s \notin Running
      BY DEF Running, IsOpen
    <2> QED
      BY <1>1, <2>1, <2>2 DEF OneTimer, IsOpen
  <1>3. LivePauses(s) \subseteq DeductionIds
    BY DEF LivePauses, ChildrenOf
  <1>4. \A t \in SessionIds : t # s => LivePauses(s) \cap LivePauses(t) = {}
    BY DEF LivePauses, ChildrenOf
  <1> QED
    BY <1>2, <1>3, <1>4

\* A line of the CSV file is a piece of a session, or what a lunch shares with one.
LEMMA DetailedLines ==
    ASSUME NEW range, NEW x
    PROVE  x \in DetailedRows(range)
             <=> \E s \in {t \in Intersecting(range[1], range[2]) : sessions[t].end # NoTime} :
                    \/ x \in {s} \X Pieces(Meet(Bounds(s), range))
                    \/ \E d \in {e \in LivePauses(s) : deductions[e].end # NoTime} :
                          x \in {d} \X Pieces(Meet(Bounds(d), Meet(Bounds(s), range)))
  BY DEF DetailedRows

\* The lines of a day are the pieces that its hours count, and what their lunches
\* take of each.
LEMMA ExportedLines ==
    ASSUME TotalsInv, NEW range \in Ranges, NEW day, ~Provisional(range, day)
    PROVE  {y \in DetailedRows(range) : On(day, y[2])}
             = Counted(range, day) \cup UNION {PauseLines(x[1], x[2]) : x \in Counted(range, day)}
  <1> DEFINE Closed == {t \in Intersecting(range[1], range[2]) : sessions[t].end # NoTime}
  <1>1. ASSUME NEW s \in Closed
        PROVE  /\ s \in Live(sessions) /\ s \in SessionIds
               /\ LivePauses(s) = {e \in LivePauses(s) : deductions[e].end # NoTime}
               /\ \E w0, w1 \in Nat : Meet(Bounds(s), range) = <<w0, w1>>
    <2>1. s \in Live(sessions) /\ sessions[s].end # NoTime
      BY SelectedRows
    <2>2. s \in SessionIds
      BY <2>1 DEF Live, TotalsInv, SafetyInv, TypeOK
    <2> QED
      BY <2>1, <2>2, CompletedPauses, WorkBounds
  <1>2. ASSUME NEW s \in Closed, NEW d \in LivePauses(s), NEW q
        PROVE  q \in Pieces(Meet(Bounds(d), Meet(Bounds(s), range))) /\ On(day, q)
                 <=> \E p \in Pieces(Meet(Bounds(s), range)) :
                        On(day, p) /\ q = Meet(p, Bounds(d)) /\ Length(q) > 0
    <2>1. PICK w0, w1 \in Nat : Meet(Bounds(s), range) = <<w0, w1>>
      BY <1>1
    <2>2. d \in DeductionIds
      BY DEF LivePauses, ChildrenOf
    <2>3. PICK e0, e1 \in Int : Bounds(d) = <<e0, e1>>
      BY <2>2, PauseBounds
    <2>4. q \in Pieces(Meet(<<e0, e1>>, <<w0, w1>>)) /\ On(day, q)
            <=> \E p \in Pieces(<<w0, w1>>) :
                   On(day, p) /\ q = Meet(p, <<e0, e1>>) /\ Length(q) > 0
      BY PauseParts
    <2> QED
      BY <2>1, <2>3, <2>4
  <1>3. ASSUME NEW y
        PROVE  y \in Counted(range, day)
                 <=> \E s \in Closed : \E p \in Pieces(Meet(Bounds(s), range)) :
                        y = <<s, p>> /\ On(day, p)
    BY CountedPieces
  <1>4. ASSUME NEW y
        PROVE  y \in DetailedRows(range)
                 <=> \E s \in Closed :
                        \/ y \in {s} \X Pieces(Meet(Bounds(s), range))
                        \/ \E d \in LivePauses(s) :
                              y \in {d} \X Pieces(Meet(Bounds(d), Meet(Bounds(s), range)))
    <2>1. y \in DetailedRows(range)
            <=> \E s \in Closed :
                   \/ y \in {s} \X Pieces(Meet(Bounds(s), range))
                   \/ \E d \in {e \in LivePauses(s) : deductions[e].end # NoTime} :
                         y \in {d} \X Pieces(Meet(Bounds(d), Meet(Bounds(s), range)))
      BY DetailedLines
    <2> HIDE DEF Closed
    <2> QED
      BY <1>1, <2>1
  <1> HIDE DEF Closed
  <1>5. ASSUME NEW y, y \in DetailedRows(range), On(day, y[2])
        PROVE  \/ y \in Counted(range, day)
               \/ \E x \in Counted(range, day) : y \in PauseLines(x[1], x[2])
    <2>1. PICK s \in Closed :
             \/ y \in {s} \X Pieces(Meet(Bounds(s), range))
             \/ \E d \in LivePauses(s) :
                   y \in {d} \X Pieces(Meet(Bounds(d), Meet(Bounds(s), range)))
      BY <1>4, <1>5
    <2>2. CASE y \in {s} \X Pieces(Meet(Bounds(s), range))
      <3>1. PICK p \in Pieces(Meet(Bounds(s), range)) : y = <<s, p>>
        BY <2>2
      <3>2. On(day, p)
        BY <1>5, <3>1
      <3> QED
        BY <1>3, <3>1, <3>2
    <2>3. CASE \E d \in LivePauses(s) :
                  y \in {d} \X Pieces(Meet(Bounds(d), Meet(Bounds(s), range)))
      <3>1. PICK d \in LivePauses(s) :
               y \in {d} \X Pieces(Meet(Bounds(d), Meet(Bounds(s), range)))
        BY <2>3
      <3>2. PICK q \in Pieces(Meet(Bounds(d), Meet(Bounds(s), range))) : y = <<d, q>>
        BY <3>1
      <3>3. On(day, q)
        BY <1>5, <3>2
      <3>4. PICK p \in Pieces(Meet(Bounds(s), range)) :
               On(day, p) /\ q = Meet(p, Bounds(d)) /\ Length(q) > 0
        BY <1>2, <3>2, <3>3
      <3>5. PICK x : x = <<s, p>>
        OBVIOUS
      <3>6. x \in Counted(range, day) /\ x[1] = s /\ x[2] = p
        BY <1>3, <3>4, <3>5
      <3>7. d \in Taking(s, p)
        BY <3>4 DEF Taking
      <3>8. y \in PauseLines(s, p)
        BY <3>2, <3>4, <3>7 DEF PauseLines
      <3> QED
        BY <3>6, <3>8
    <2> QED
      BY <2>1, <2>2, <2>3
  <1>6. ASSUME NEW y, y \in Counted(range, day)
        PROVE  y \in DetailedRows(range) /\ On(day, y[2])
    <2>1. PICK s \in Closed : \E p \in Pieces(Meet(Bounds(s), range)) :
                                y = <<s, p>> /\ On(day, p)
      BY <1>3, <1>6
    <2>2. PICK p \in Pieces(Meet(Bounds(s), range)) : y = <<s, p>> /\ On(day, p)
      BY <2>1
    <2>3. y \in {s} \X Pieces(Meet(Bounds(s), range)) /\ y[2] = p
      BY <2>2
    <2> QED
      BY <1>4, <2>2, <2>3
  <1>7. ASSUME NEW x \in Counted(range, day), NEW y \in PauseLines(x[1], x[2])
        PROVE  y \in DetailedRows(range) /\ On(day, y[2])
    <2>1. PICK s \in Closed : \E p \in Pieces(Meet(Bounds(s), range)) :
                                x = <<s, p>> /\ On(day, p)
      BY <1>3
    <2>2. PICK p \in Pieces(Meet(Bounds(s), range)) : x = <<s, p>> /\ On(day, p)
      BY <2>1
    <2>3. y \in PauseLines(s, p)
      BY <2>2
    <2>4. PICK d \in Taking(s, p) : y = <<d, Meet(p, Bounds(d))>>
      BY <2>3 DEF PauseLines
    <2>5. PICK q : q = Meet(p, Bounds(d))
      OBVIOUS
    <2>6. d \in LivePauses(s) /\ Length(q) > 0
      BY <2>5 DEF Taking
    <2>7. q \in Pieces(Meet(Bounds(d), Meet(Bounds(s), range))) /\ On(day, q)
      BY <1>2, <2>2, <2>5, <2>6
    <2>8. y = <<d, q>> /\ y[2] = q
      BY <2>4, <2>5
    <2>9. y \in {d} \X Pieces(Meet(Bounds(d), Meet(Bounds(s), range)))
      BY <2>7, <2>8
    <2> QED
      BY <1>4, <2>6, <2>7, <2>8, <2>9
  <1>8. ASSUME NEW y
        PROVE  y \in DetailedRows(range) /\ On(day, y[2])
                 <=> \/ y \in Counted(range, day)
                     \/ \E x \in Counted(range, day) : y \in PauseLines(x[1], x[2])
    BY <1>5, <1>6, <1>7, Zenon
  <1> QED
    BY <1>8, Zenon

\* A session has one piece at most among those that a day counts.
LEMMA CountedFacts ==
    ASSUME TotalsInv, NEW range \in Ranges, NEW day, ~Provisional(range, day),
           NEW x \in Counted(range, day)
    PROVE  /\ x[1] \in Live(sessions) /\ x[1] \in SessionIds /\ sessions[x[1]].end # NoTime
           /\ \E a, b \in Nat : a < b /\ x = <<x[1], <<a, b>>>>
           /\ \A y \in Counted(range, day) : y[1] = x[1] => y = x
  <1>1. ASSUME NEW y \in Counted(range, day)
        PROVE  \E s \in Live(sessions) : \E w0, w1 \in Nat : \E p \in Pieces(<<w0, w1>>) :
                  /\ s \in SessionIds /\ sessions[s].end # NoTime
                  /\ Meet(Bounds(s), range) = <<w0, w1>> /\ y = <<s, p>> /\ On(day, p)
    <2>1. PICK s \in {t \in Intersecting(range[1], range[2]) : sessions[t].end # NoTime} :
             \E p \in Pieces(Meet(Bounds(s), range)) : y = <<s, p>> /\ On(day, p)
      BY CountedPieces
    <2>2. s \in Live(sessions) /\ sessions[s].end # NoTime
      BY SelectedRows
    <2>3. s \in SessionIds
      BY <2>2 DEF Live, TotalsInv, SafetyInv, TypeOK
    <2>4. PICK w0, w1 \in Nat : Meet(Bounds(s), range) = <<w0, w1>>
      BY <2>2, WorkBounds
    <2>5. \E p \in Pieces(<<w0, w1>>) : y = <<s, p>> /\ On(day, p)
      BY <2>1, <2>4
    <2> QED
      BY <2>2, <2>3, <2>4, <2>5
  <1>2. PICK s \in Live(sessions) : \E w0, w1 \in Nat : \E p \in Pieces(<<w0, w1>>) :
           /\ s \in SessionIds /\ sessions[s].end # NoTime
           /\ Meet(Bounds(s), range) = <<w0, w1>> /\ x = <<s, p>> /\ On(day, p)
    BY <1>1
  <1>3. PICK w0 \in Nat, w1 \in Nat : \E p \in Pieces(<<w0, w1>>) :
           /\ s \in SessionIds /\ sessions[s].end # NoTime
           /\ Meet(Bounds(s), range) = <<w0, w1>> /\ x = <<s, p>> /\ On(day, p)
    BY <1>2
  <1>4. PICK p \in Pieces(<<w0, w1>>) :
           /\ s \in SessionIds /\ sessions[s].end # NoTime
           /\ Meet(Bounds(s), range) = <<w0, w1>> /\ x = <<s, p>> /\ On(day, p)
    BY <1>3
  <1>5. x[1] = s
    BY <1>4
  <1>6. \E a, b \in Nat : a < b /\ p = <<a, b>>
    <2>1. p \in SplitAtMidnight(w0, w1)
      BY DEF Pieces
    <2>2. PICK a, b \in Nat : p = <<a, b>> /\ DayPart(a, b, w0, w1)
      BY <2>1, PiecesAreParts
    <2> QED
      BY <2>2 DEF DayPart
  <1>7. ASSUME NEW y \in Counted(range, day), y[1] = s PROVE y = x
    <2>1. PICK t \in Live(sessions) : \E v0, v1 \in Nat : \E q \in Pieces(<<v0, v1>>) :
             /\ Meet(Bounds(t), range) = <<v0, v1>> /\ y = <<t, q>> /\ On(day, q)
      BY <1>1
    <2>2. PICK v0 \in Nat, v1 \in Nat : \E q \in Pieces(<<v0, v1>>) :
             /\ Meet(Bounds(t), range) = <<v0, v1>> /\ y = <<t, q>> /\ On(day, q)
      BY <2>1
    <2>3. PICK q \in Pieces(<<v0, v1>>) :
             /\ Meet(Bounds(t), range) = <<v0, v1>> /\ y = <<t, q>> /\ On(day, q)
      BY <2>2
    <2>4. t = s
      BY <1>7, <2>3
    <2>5. q \in Pieces(<<w0, w1>>)
      BY <1>4, <2>3, <2>4
    <2>6. q = p
      BY <1>4, <2>3, <2>5, OnePiece
    <2> QED
      BY <1>4, <2>3, <2>4, <2>6
  <1> QED
    BY <1>4, <1>5, <1>6, <1>7

\* Tables of finitely many live rows.
FiniteRows == IsFiniteSet(Live(sessions)) /\ IsFiniteSet(Live(deductions))

\* A day counts finitely many pieces.
LEMMA CountedFinite ==
    ASSUME TotalsInv, FiniteRows, NEW range \in Ranges, NEW day, ~Provisional(range, day)
    PROVE  IsFiniteSet(Counted(range, day))
  <1> DEFINE A == Counted(range, day)
             f == [x \in A |-> x[1]]
  <1>1. \A x \in A : x[1] \in Live(sessions) /\ \A y \in A : y[1] = x[1] => y = x
    BY CountedFacts
  <1> HIDE DEF A
  <1>2. f \in [A -> Live(sessions)] /\ \A x, y \in A : f[x] = f[y] => x = y
    BY <1>1
  <1> HIDE DEF f
  <1>3. f \in Injection(A, Live(sessions))
    BY <1>2 DEF Injection, IsInjective
  <1> QED
    BY <1>3, FS_Injection DEF FiniteRows, A

\* The net length of a piece is its line in the CSV file and those of its lunches.
LEMMA NetByLines ==
    ASSUME TotalsInv, FiniteRows, NEW s \in SessionIds, sessions[s].end # NoTime,
           NEW a \in Nat, NEW b \in Nat, NEW g,
           \A z \in PauseLines(s, <<a, b>>) : g[z] = -Length(z[2]),
           g[<<s, <<a, b>>>>] = Length(<<a, b>>)
    PROVE  /\ IsFiniteSet(PauseLines(s, <<a, b>>))
           /\ \A z \in PauseLines(s, <<a, b>>) : z[1] \in LivePauses(s) /\ g[z] \in Int
           /\ g[<<s, <<a, b>>>>] \in Int
           /\ NetOf(s, <<a, b>>)
                = g[<<s, <<a, b>>>>] + SumFunctionOnSet(g, PauseLines(s, <<a, b>>))
  <1> DEFINE D == LivePauses(s)
             K == Taking(s, <<a, b>>)
             l == [d \in D |-> Length(Meet(<<a, b>>, Bounds(d)))]
             w == [d \in K |-> <<d, Meet(<<a, b>>, Bounds(d))>>]
  <1>1. IsFiniteSet(D)
    <2>1. D \subseteq Live(deductions)
      BY DEF LivePauses
    <2> QED
      BY <2>1, FS_Subset DEF FiniteRows
  <1>2. K \in SUBSET D
    BY DEF Taking
  <1>3. ASSUME NEW d \in D PROVE l[d] \in Nat
    <2>1. d \in DeductionIds
      BY DEF LivePauses, ChildrenOf
    <2>2. PICK e0, e1 \in Int : Bounds(d) = <<e0, e1>>
      BY <2>1, PauseBounds
    <2>3. PICK c0 \in Int : c0 = Later(a, e0)
      BY DEF Later
    <2>4. PICK c1 \in Int : c1 = Earlier(b, e1)
      BY DEF Earlier
    <2>5. Meet(<<a, b>>, <<e0, e1>>) = <<c0, c1>>
      BY <2>3, <2>4, MeetOf
    <2>6. l[d] = Length(<<c0, c1>>)
      BY <2>2, <2>5
    <2> QED
      BY <2>6, LengthOf
  <1>4. \A d \in K : w[d] = <<d, Meet(<<a, b>>, Bounds(d))>> /\ l[d] > 0
    BY <1>2 DEF Taking
  <1>5. \A d \in D \ K : l[d] = 0
    <2>1. ASSUME NEW d \in D \ K PROVE l[d] = 0
      <3>1. ~(l[d] > 0)
        BY <2>1 DEF Taking
      <3> QED
        BY <1>3, <2>1, <3>1
    <2> QED
      BY <2>1
  <1>6. PauseLines(s, <<a, b>>) = {w[d] : d \in K}
    BY Zenon DEF PauseLines
  <1>7. ASSUME NEW d \in K PROVE w[d] \in PauseLines(s, <<a, b>>) /\ g[w[d]] = -l[d]
    <2>1. w[d] \in PauseLines(s, <<a, b>>)
      BY <1>6
    <2>2. PICK z : z = w[d]
      OBVIOUS
    <2>3. g[z] = -Length(z[2])
      BY <2>1, <2>2
    <2>4. Length(z[2]) = l[d]
      BY <1>2, <1>4, <2>2
    <2> QED
      BY <2>1, <2>2, <2>3, <2>4
  <1>8. \A d, e \in K : w[d] = w[e] => d = e
    BY <1>4
  <1>9. DOMAIN l = D /\ NetOf(s, <<a, b>>) = Length(<<a, b>>) - SumFunctionOnSet(l, D)
    BY DEF NetOf, SumFunction
  <1>10. Length(<<a, b>>) \in Int
    BY LengthOf
  <1> HIDE DEF D, K, l, w
  <1>11. /\ IsFiniteSet({w[d] : d \in K})
         /\ SumFunctionOnSet(l, D) \in Int
         /\ SumFunctionOnSet(g, {w[d] : d \in K}) + SumFunctionOnSet(l, D) = 0
    <2>1. Named(D, K, w, g, l)
      BY <1>3, <1>5, <1>7, <1>8 DEF Named
    <2> QED
      BY <1>1, <1>2, <2>1, SumByName
  <1>12. ASSUME NEW z \in PauseLines(s, <<a, b>>) PROVE z[1] \in LivePauses(s) /\ g[z] \in Int
    <2>1. PICK d \in K : z = w[d]
      BY <1>6
    <2>2. z[1] = d
      BY <1>4, <2>1
    <2>3. g[z] = -l[d] /\ l[d] \in Nat /\ d \in D
      BY <1>2, <1>3, <1>7, <2>1
    <2> QED
      BY <2>2, <2>3 DEF D
  <1>13. SumFunctionOnSet(g, {w[d] : d \in K}) \in Int
    <2>1. \A z \in PauseLines(s, <<a, b>>) : g[z] \in Int
      BY <1>12
    <2> QED
      BY <1>6, <1>11, <2>1, SumOfInts
  <1>14. PICK u \in Int : u = SumFunctionOnSet(g, {w[d] : d \in K})
    BY <1>13
  <1>15. PICK v \in Int : v = SumFunctionOnSet(l, D) /\ u + v = 0
    BY <1>11, <1>14
  <1>16. NetOf(s, <<a, b>>) = g[<<s, <<a, b>>>>] + u
    BY <1>9, <1>10, <1>15
  <1> QED
    BY <1>6, <1>10, <1>11, <1>12, <1>14, <1>16

\* The CSV file counts the lunches of a day where its hours do.
LEMMA ExportAgrees ==
    ASSUME TotalsInv, FiniteRows, NEW range \in Ranges, NEW day, ~Provisional(range, day)
    PROVE  Exported(range, day) = Summary(range, day)
  <1> DEFINE A == Counted(range, day)
             Rows == {y \in DetailedRows(range) : On(day, y[2])}
             g == [x \in Rows |-> IF x[1] \in SessionIds THEN Length(x[2]) ELSE -Length(x[2])]
             h == [x \in A |-> NetOf(x[1], x[2])]
             L == [x \in A |-> PauseLines(x[1], x[2])]
  <1>1. /\ DOMAIN g = Rows /\ DOMAIN h = A /\ \A x \in A : L[x] = PauseLines(x[1], x[2])
        /\ \A z \in Rows : g[z] = IF z[1] \in SessionIds THEN Length(z[2]) ELSE -Length(z[2])
        /\ \A x \in A : h[x] = NetOf(x[1], x[2])
    OBVIOUS
  <1>2. Exported(range, day) = SumFunctionOnSet(g, Rows)
    BY <1>1 DEF Exported, SumFunction
  <1>3. Summary(range, day) = SumFunctionOnSet(h, A)
    BY <1>1 DEF Summary, Hours, SumFunction, Counted
  <1>4. Rows = A \cup UNION {L[x] : x \in A}
    <2>1. Rows = A \cup UNION {PauseLines(x[1], x[2]) : x \in A}
      BY ExportedLines
    <2> QED
      BY <1>1, <2>1
  <1>5. IsFiniteSet(A)
    BY CountedFinite
  <1>6. ASSUME NEW x \in A
        PROVE  /\ x[1] \in SessionIds /\ sessions[x[1]].end # NoTime
               /\ \E a, b \in Nat : x = <<x[1], <<a, b>>>>
               /\ \A y \in A : y[1] = x[1] => y = x
    BY CountedFacts
  <1> HIDE DEF A, Rows, g, h, L
  <1>7. ASSUME NEW x \in A, NEW z \in L[x]
        PROVE  z \in Rows /\ z[1] \in LivePauses(x[1]) /\ z[1] \notin SessionIds
    <2>1. PICK s : s = x[1]
      OBVIOUS
    <2>2. PICK p : p = x[2]
      OBVIOUS
    <2>3. z \in PauseLines(s, p)
      BY <1>1, <2>1, <2>2
    <2>4. PICK d \in Taking(s, p) : z = <<d, Meet(p, Bounds(d))>>
      BY <2>3 DEF PauseLines
    <2>5. z[1] = d /\ d \in LivePauses(s)
      BY <2>4 DEF Taking
    <2>6. LivePauses(s) \subseteq DeductionIds
      BY DEF LivePauses, ChildrenOf
    <2> QED
      BY <1>4, <2>1, <2>5, <2>6, TimeTrackingAssumption
  <1>8. ASSUME NEW x \in A
        PROVE  /\ IsFiniteSet(L[x])
               /\ g[x] \in Int /\ \A z \in L[x] : g[z] \in Int
               /\ h[x] = g[x] + SumFunctionOnSet(g, L[x])
    <2>1. PICK s \in SessionIds : s = x[1] /\ sessions[s].end # NoTime
      BY <1>6
    <2>2. PICK a, b \in Nat : x = <<s, <<a, b>>>>
      BY <1>6, <2>1
    <2>3. L[x] = PauseLines(s, <<a, b>>) /\ h[x] = NetOf(s, <<a, b>>)
      BY <1>1, <2>2
    <2>4. x \in Rows /\ g[x] = Length(<<a, b>>)
      BY <1>1, <1>4, <2>2
    <2>5. \A z \in PauseLines(s, <<a, b>>) : g[z] = -Length(z[2])
      <3>1. ASSUME NEW z \in L[x] PROVE g[z] = -Length(z[2])
        BY <1>1, <1>7
      <3> QED
        BY <2>3, <3>1
    <2>6. /\ IsFiniteSet(PauseLines(s, <<a, b>>))
          /\ \A z \in PauseLines(s, <<a, b>>) : z[1] \in LivePauses(s) /\ g[z] \in Int
          /\ g[<<s, <<a, b>>>>] \in Int
          /\ NetOf(s, <<a, b>>)
               = g[<<s, <<a, b>>>>] + SumFunctionOnSet(g, PauseLines(s, <<a, b>>))
      <3>1. g[<<s, <<a, b>>>>] = Length(<<a, b>>)
        BY <2>2, <2>4
      <3> QED
        BY <2>1, <2>5, <3>1, NetByLines
    <2> QED
      BY <2>2, <2>3, <2>6
  <1>9. ASSUME NEW x \in A PROVE L[x] \cap A = {}
    BY <1>6, <1>7
  <1>10. ASSUME NEW x \in A, NEW y \in A, x # y PROVE L[x] \cap L[y] = {}
    <2>1. x[1] # y[1] /\ x[1] \in SessionIds /\ y[1] \in SessionIds
          /\ sessions[x[1]].end # NoTime
      BY <1>6, <1>10
    <2>2. LivePauses(x[1]) \cap LivePauses(y[1]) = {}
      BY <2>1, CompletedPauses
    <2> QED
      BY <1>7, <2>2
  <1>11. SumFunctionOnSet(g, A \cup UNION {L[x] : x \in A}) = SumFunctionOnSet(h, A)
    <2>1. Itemised(A, L, g, h)
      BY <1>8, <1>9, <1>10 DEF Itemised
    <2> QED
      BY <1>5, <2>1, SumByLines
  <1> QED
    BY <1>2, <1>3, <1>4, <1>11

-----------------------------------------------------------------------------
(* The tables stay finite: a command changes a row at a time. *)

\* One row more or less.
LEMMA LiveFinite ==
    ASSUME NEW rows, NEW x, NEW row, IsFiniteSet(Live(rows))
    PROVE  IsFiniteSet(Live([rows EXCEPT ![x] = row]))
  <1>1. Live([rows EXCEPT ![x] = row]) \subseteq Live(rows) \cup {x}
    BY DEF Live
  <1>2. IsFiniteSet(Live(rows) \cup {x})
    BY FS_AddElement
  <1> QED
    BY <1>1, <1>2, FS_Subset

\* A command of DayTotals writes at most one session or one deduction.
LEMMA OneRowWritten ==
    ASSUME TotalsNext
    PROVE  /\ sessions' = sessions \/ \E s, row : PutSession(s, row)
           /\ deductions' = deductions \/ \E d, row : PutDeduction(d, row)
  <1> DEFINE Goal == /\ sessions' = sessions \/ \E s, row : PutSession(s, row)
                     /\ deductions' = deductions \/ \E d, row : PutDeduction(d, row)
  <1>1. ASSUME NEW s \in SessionIds, Starts(s) PROVE Goal
    BY <1>1 DEF Starts, StartWork, StartWorkAt, StartDeduction
  <1>2. ASSUME NEW s \in SessionIds, FinishesWork(s) PROVE Goal
    BY <1>2 DEF FinishesWork, FinishWork
  <1>3. ASSUME NEW s \in SessionIds, NEW d \in DeductionIds, FinishesDeduction(s, d) PROVE Goal
    BY <1>3 DEF FinishesDeduction, FinishDeduction
  <1>4. ASSUME NEW from \in TypedTimes, NEW to \in TypedTimes, Enters(from, to) PROVE Goal
    <2>1. ASSUME NEW s \in SessionIds, AddManualSession(s, from, to) \/ UpdateWorkSession(s, from, to)
          PROVE  Goal
      BY <2>1 DEF AddManualSession, UpdateWorkSession
    <2>2. ASSUME NEW s \in SessionIds, NEW d \in DeductionIds, AddManualDeduction(s, d, from, to)
          PROVE  Goal
      BY <2>2 DEF AddManualDeduction
    <2> QED
      BY <1>4, <2>1, <2>2 DEF Enters
  <1>5. ASSUME Undoes PROVE Goal
    BY <1>5 DEF Undoes, UndoTimerAction, UndoStart, UndoFinish, UndoStartDeduction,
                UndoFinishDeduction
  <1>6. ASSUME Waits PROVE Goal
    BY <1>6 DEF Waits, Idle
  <1> QED
    BY <1>1, <1>2, <1>3, <1>4, <1>5, <1>6 DEF TotalsNext

\* The empty timesheet has no live rows.
LEMMA FiniteRowsInit == ASSUME TotalsInit PROVE FiniteRows
  <1>1. Live(sessions) = {} /\ Live(deductions) = {}
    BY DEF TotalsInit, Init, Live, NoSession, NoDeduction
  <1> QED
    BY <1>1, FS_EmptySet DEF FiniteRows

LEMMA FiniteRowsStep ==
    ASSUME FiniteRows, [TotalsNext]_<<vars, effective>> PROVE FiniteRows'
  <1>1. /\ sessions' = sessions \/ \E s, row : PutSession(s, row)
        /\ deductions' = deductions \/ \E d, row : PutDeduction(d, row)
    BY OneRowWritten DEF vars
  <1>2. IsFiniteSet(Live(sessions'))
    <2>1. CASE sessions' = sessions
      BY <2>1 DEF FiniteRows
    <2>2. ASSUME NEW s, NEW row, PutSession(s, row) PROVE IsFiniteSet(Live(sessions'))
      <3>1. PICK rows : rows = sessions
        OBVIOUS
      <3>2. sessions' = [rows EXCEPT ![s] = row] /\ IsFiniteSet(Live(rows))
        BY <2>2, <3>1 DEF PutSession, FiniteRows
      <3> QED
        BY <3>2, LiveFinite
    <2> QED
      BY <1>1, <2>1, <2>2
  <1>3. IsFiniteSet(Live(deductions'))
    <2>1. CASE deductions' = deductions
      BY <2>1 DEF FiniteRows
    <2>2. ASSUME NEW d, NEW row, PutDeduction(d, row) PROVE IsFiniteSet(Live(deductions'))
      <3>1. PICK rows : rows = deductions
        OBVIOUS
      <3>2. deductions' = [rows EXCEPT ![d] = row] /\ IsFiniteSet(Live(rows))
        BY <2>2, <3>1 DEF PutDeduction, FiniteRows
      <3> QED
        BY <3>2, LiveFinite
    <2> QED
      BY <1>1, <2>1, <2>2
  <1> QED
    BY <1>2, <1>3 DEF FiniteRows

\* A day has the same hours everywhere: in the Today, Timesheet and week views,
\* whatever range of days they are computed in, and without running work in the
\* filled external timesheet and in the detailed CSV file, which lists the lunches
\* apart; for any midnights, rounding preferences that divide a day, and any
\* number of sessions and lunches.
THEOREM TotalsAgreeHolds == TotalsSpec => []TotalsAgree
  <1>1. TotalsInit => TotalsInv /\ FiniteRows
    BY TotalsInitInv, FiniteRowsInit
  <1>2. TotalsInv /\ FiniteRows /\ [TotalsNext]_<<vars, effective>> => (TotalsInv /\ FiniteRows)'
    BY TotalsStep, FiniteRowsStep
  <1>3. TotalsInv /\ FiniteRows => TotalsAgree
    BY ViewsAgreeNow, ExportAgrees, Zenon DEF TotalsAgree
  <1> QED
    BY <1>1, <1>2, <1>3, PTL DEF TotalsSpec

-----------------------------------------------------------------------------
(* What Exclude sleep leaves behind. *)

\* The live lunches and breaks of session s that cover the instant t.
CoveredBy(rows, s, t) ==
    {d \in DeductionIds : /\ rows[d].parent = s /\ ~rows[d].dead
                          /\ rows[d].start <= t /\ t < EndAsOf(rows[d], Now)}

\* exclude_sleep takes the whole interval out of the work time: every instant of
\* it is in a lunch or break of the session afterwards, and in one only, unless
\* the timesheet was no longer valid (an Undo can let a running lunch overlap a
\* typed one).
SleepExcludedOnce ==
    [][ExcludeSleep =>
          \A t \in Nat : gap.start <= t /\ t < gap.end =>
             /\ CoveredBy(deductions', gap.of, t) # {}
             /\ TimesheetValid =>
                   \E d \in DeductionIds : CoveredBy(deductions', gap.of, t) = {d}]_vars

\* The times that the parts of the interval are made of are numbers.
LEMMA GapTimes ==
    ASSUME SafetyInv, gap # NoGap
    PROVE  /\ gap.of \in SessionIds /\ gap.start \in Nat /\ gap.end \in Int
           /\ \A d \in Covering :
                 /\ d \in DeductionIds /\ deductions[d].parent = gap.of /\ ~deductions[d].dead
                 /\ deductions[d].start \in Nat /\ EndAsOf(deductions[d], Now) \in Int
           /\ \A u \in Uncovered : u = <<u[1], u[2]>> /\ u[1] \in Int /\ u[2] \in Int
  <1>1. gap.of \in SessionIds /\ gap.start \in Nat /\ gap.end \in Int
    BY DEF SafetyInv, Stored, TypeOK, Times, NoTime
  <1>2. ASSUME NEW d \in Covering
        PROVE  /\ d \in DeductionIds /\ deductions[d].parent = gap.of /\ ~deductions[d].dead
               /\ deductions[d].start \in Nat /\ EndAsOf(deductions[d], Now) \in Int
    <2>1. d \in DeductionIds /\ deductions[d].parent = gap.of /\ ~deductions[d].dead
      BY DEF Covering, ChildrenOf, Live
    <2>2. deductions[d] \in DeductionRow /\ clock \in Nat /\ deductions[d].start \in Nat
      BY <2>1 DEF SafetyInv, Stored, TypeOK
    <2> QED
      BY <2>1, <2>2 DEF DeductionRow, Times, NoTime, EndAsOf, Now
  <1>3. ASSUME NEW u \in Uncovered PROVE u = <<u[1], u[2]>> /\ u[1] \in Int /\ u[2] \in Int
    <2>1. u \in ({gap.start} \cup {EndAsOf(deductions[d], Now) : d \in Covering})
                \X ({gap.end} \cup {deductions[d].start : d \in Covering})
      BY DEF Uncovered
    <2>2. /\ u = <<u[1], u[2]>>
          /\ u[1] \in {gap.start} \cup {EndAsOf(deductions[d], Now) : d \in Covering}
          /\ u[2] \in {gap.end} \cup {deductions[d].start : d \in Covering}
      BY <2>1
    <2> QED
      BY <1>1, <1>2, <2>2
  <1> QED
    BY <1>1, <1>2, <1>3

\* An instant of the interval is covered by a live row or is in a part of it.
LEMMA FreeIsUncovered ==
    ASSUME SafetyInv, gap # NoGap, NEW t \in Nat, gap.start <= t, t < gap.end,
           CoveredBy(deductions, gap.of, t) = {}
    PROVE  \E u \in Uncovered : Within(t, u)
  <1> DEFINE S == {gap.start} \cup {EndAsOf(deductions[d], Now) : d \in Covering}
             E == {gap.end} \cup {deductions[d].start : d \in Covering}
             Back == {n \in Nat : t - n \in S}
             Ahead == {n \in Nat : t + n \in E /\ n # 0}
  <1>1. /\ gap.start \in Nat /\ gap.end \in Int
        /\ \A d \in Covering : /\ d \in DeductionIds /\ deductions[d].parent = gap.of
                               /\ ~deductions[d].dead /\ deductions[d].start \in Nat
                               /\ EndAsOf(deductions[d], Now) \in Int
    BY GapTimes
  <1>2. ASSUME NEW d \in Covering
        PROVE  t < deductions[d].start \/ EndAsOf(deductions[d], Now) <= t
    BY <1>1, <1>2 DEF CoveredBy
  <1>3. Back \in SUBSET Nat /\ Ahead \in SUBSET Nat /\ t - gap.start \in Back
        /\ gap.end - t \in Ahead
    BY <1>1
  <1>4. PICK m \in Back : \A x \in Back : m <= x
    <2> HIDE DEF Back
    <2> QED
      BY <1>3, Least
  <1>5. PICK n \in Ahead : \A x \in Ahead : n <= x
    <2> HIDE DEF Ahead
    <2> QED
      BY <1>3, Least
  <1>6. PICK a \in S : a = t - m /\ a \in Int /\ a <= t
    BY <1>3, <1>4
  <1>7. PICK b \in E : b = t + n /\ b \in Int /\ t < b
    BY <1>3, <1>5
  <1>8. gap.start <= a /\ b <= gap.end
    BY <1>1, <1>3, <1>4, <1>5, <1>6, <1>7
  <1>9. ASSUME NEW d \in Covering
        PROVE  b <= deductions[d].start \/ EndAsOf(deductions[d], Now) <= a
    <2>1. PICK c \in Nat : c = deductions[d].start
      BY <1>1
    <2>2. PICK e \in Int : e = EndAsOf(deductions[d], Now)
      BY <1>1
    <2>3. c \in E /\ e \in S
      BY <2>1, <2>2
    <2>4. CASE t < c
      <3>1. c - t \in Ahead
        BY <2>3, <2>4
      <3>2. n <= c - t
        BY <1>5, <3>1
      <3> QED
        BY <1>3, <1>5, <1>7, <2>1, <3>2
    <2>5. CASE e <= t
      <3>1. t - e \in Back
        BY <2>3, <2>5
      <3>2. m <= t - e
        BY <1>4, <3>1
      <3> QED
        BY <1>3, <1>4, <1>6, <2>2, <3>2
    <2> QED
      BY <1>2, <2>1, <2>2, <2>4, <2>5
  <1>10. PICK u : u = <<a, b>>
    OBVIOUS
  <1>11. u[1] = a /\ u[2] = b /\ u \in S \X E
    BY <1>10
  <1>12. a < b
    BY <1>6, <1>7
  <1>13. u \in Uncovered
    BY <1>8, <1>9, <1>11, <1>12 DEF Uncovered
  <1> QED
    BY <1>6, <1>7, <1>11, <1>13 DEF Within

\* A part of the interval meets no live row ...
LEMMA UncoveredIsFree ==
    ASSUME SafetyInv, gap # NoGap, NEW t \in Nat, NEW u \in Uncovered, Within(t, u)
    PROVE  CoveredBy(deductions, gap.of, t) = {}
  <1>1. SUFFICES ASSUME NEW d \in CoveredBy(deductions, gap.of, t) PROVE FALSE
    OBVIOUS
  <1>2. /\ d \in DeductionIds /\ deductions[d].parent = gap.of /\ ~deductions[d].dead
        /\ deductions[d].start <= t /\ t < EndAsOf(deductions[d], Now)
    BY <1>1 DEF CoveredBy
  <1>3. u[1] \in Int /\ u[2] \in Int /\ u[1] <= t /\ t < u[2] /\ gap.start \in Nat /\ gap.end \in Int
        /\ gap.start <= u[1] /\ u[2] <= gap.end
    BY GapTimes DEF Within, Uncovered
  <1>4. /\ deductions \in [DeductionIds -> DeductionRow] /\ clock \in Nat
        /\ deductions[d] \in DeductionRow /\ deductions[d].start \in Nat
    BY <1>2 DEF SafetyInv, Stored, TypeOK
  <1>5. EndAsOf(deductions[d], Now) \in Int
    BY <1>4 DEF DeductionRow, Times, NoTime, EndAsOf, Now
  <1>6. deductions[d].start < gap.end /\ EndAsOf(deductions[d], Now) > gap.start
    BY <1>2, <1>3, <1>4, <1>5
  <1>7. d \in Covering
    BY <1>2, <1>4, <1>6 DEF Covering, ChildrenOf, Live
  <1>8. u[2] <= deductions[d].start \/ EndAsOf(deductions[d], Now) <= u[1]
    BY <1>7 DEF Uncovered
  <1> QED
    BY <1>2, <1>3, <1>4, <1>5, <1>8

\* ... nor another part, if the rows have an end after their start.
LEMMA UncoveredApart ==
    ASSUME SafetyInv, gap # NoGap, TimesheetValid, NEW t \in Nat,
           NEW u \in Uncovered, NEW v \in Uncovered, Within(t, u), Within(t, v)
    PROVE  u = v
  <1>1. /\ u = <<u[1], u[2]>> /\ u[1] \in Int /\ u[2] \in Int
        /\ v = <<v[1], v[2]>> /\ v[1] \in Int /\ v[2] \in Int
        /\ gap.start \in Nat /\ gap.end \in Int
    BY GapTimes
  <1>2. u[1] <= t /\ t < u[2] /\ v[1] <= t /\ t < v[2]
    BY DEF Within
  <1>3. ASSUME NEW x \in Uncovered
        PROVE  /\ x[1] = gap.start \/ \E d \in Covering : x[1] = EndAsOf(deductions[d], Now)
               /\ x[2] = gap.end \/ \E d \in Covering : x[2] = deductions[d].start
               /\ gap.start <= x[1] /\ x[2] <= gap.end
               /\ \A d \in Covering :
                     x[2] <= deductions[d].start \/ EndAsOf(deductions[d], Now) <= x[1]
    <2>1. x \in ({gap.start} \cup {EndAsOf(deductions[d], Now) : d \in Covering})
                \X ({gap.end} \cup {deductions[d].start : d \in Covering})
      BY DEF Uncovered
    <2>2. /\ x[1] \in {gap.start} \cup {EndAsOf(deductions[d], Now) : d \in Covering}
          /\ x[2] \in {gap.end} \cup {deductions[d].start : d \in Covering}
      BY <2>1
    <2>3. /\ gap.start <= x[1] /\ x[2] <= gap.end
          /\ \A d \in Covering :
                x[2] <= deductions[d].start \/ EndAsOf(deductions[d], Now) <= x[1]
      BY DEF Uncovered
    <2> QED
      BY <2>2, <2>3
  <1>4. ASSUME NEW d \in Covering
        PROVE  /\ deductions[d].start \in Nat /\ EndAsOf(deductions[d], Now) \in Int
               /\ deductions[d].start <= EndAsOf(deductions[d], Now)
    <2>1. /\ d \in DeductionIds /\ ~deductions[d].dead /\ deductions[d] \in DeductionRow
          /\ deductions[d].start \in Nat /\ clock \in Nat
          /\ EndAsOf(deductions[d], Now) \in Int
      BY GapTimes DEF SafetyInv, TypeOK
    <2>2. d \in Live(deductions)
      BY <2>1 DEF Live, SafetyInv, TypeOK
    <2>3. BoundsAllowed(deductions[d], clock)
      BY <2>2 DEF TimesheetValid, ValidIntervals, DeductionsValid
    <2>4. deductions[d].end \in Int
      BY <2>1 DEF DeductionRow, Times, NoTime
    <2> QED
      BY <2>1, <2>3, <2>4 DEF BoundsAllowed, Readable, EndAsOf, Now
  <1>5. ASSUME NEW x \in Uncovered, NEW y \in Uncovered, Within(t, x), Within(t, y),
               x[1] < y[1]
        PROVE  FALSE
    <2>1. x[1] \in Int /\ x[2] \in Int /\ y[1] \in Int /\ x[1] <= t /\ t < x[2] /\ y[1] <= t
      BY <1>5, GapTimes DEF Within
    <2>2. gap.start <= x[1] /\ y[1] # gap.start
      BY <1>1, <1>3, <1>5, <2>1
    <2>3. PICK d \in Covering : y[1] = EndAsOf(deductions[d], Now)
      BY <1>3, <2>2
    <2>4. x[2] <= deductions[d].start \/ y[1] <= x[1]
      BY <1>3, <2>3
    <2>5. deductions[d].start \in Nat /\ deductions[d].start <= y[1]
      BY <1>4, <2>3
    <2> QED
      BY <1>5, <2>1, <2>4, <2>5
  <1>6. ASSUME NEW x \in Uncovered, NEW y \in Uncovered, Within(t, x), Within(t, y),
               x[2] < y[2]
        PROVE  FALSE
    <2>1. x[2] \in Int /\ y[1] \in Int /\ y[2] \in Int /\ t < x[2] /\ y[1] <= t
      BY <1>6, GapTimes DEF Within
    <2>2. y[2] <= gap.end /\ x[2] # gap.end
      BY <1>1, <1>3, <1>6, <2>1
    <2>3. PICK d \in Covering : x[2] = deductions[d].start
      BY <1>3, <2>2
    <2>4. y[2] <= x[2] \/ EndAsOf(deductions[d], Now) <= y[1]
      BY <1>3, <2>3
    <2>5. EndAsOf(deductions[d], Now) \in Int /\ x[2] <= EndAsOf(deductions[d], Now)
      BY <1>4, <2>3
    <2> QED
      BY <1>6, <2>1, <2>4, <2>5
  <1>7. ~(u[1] < v[1]) /\ ~(v[1] < u[1]) /\ ~(u[2] < v[2]) /\ ~(v[2] < u[2])
    BY <1>5, <1>6
  <1>8. u[1] = v[1] /\ u[2] = v[2]
    BY <1>1, <1>7
  <1> QED
    BY <1>1, <1>8

\* Before and after: an instant is covered by the rows that covered it, and by
\* the breaks made of the parts it is in.
LEMMA CoveredAfter ==
    ASSUME SafetyInv, ExcludeSleep, NEW t \in Nat
    PROVE  \E id \in [Uncovered -> DeductionIds] :
              /\ \A u, v \in Uncovered : u # v => id[u] # id[v]
              /\ \A d \in DeductionIds :
                    d \in CoveredBy(deductions', gap.of, t)
                      <=> \/ d \in CoveredBy(deductions, gap.of, t)
                          \/ \E u \in Uncovered : id[u] = d /\ Within(t, u)
  <1> DEFINE Break(u) == [parent |-> gap.of, kind |-> "sleep_break",
                          start |-> u[1], end |-> u[2], dead |-> FALSE]
  <1>1. PICK id \in [Uncovered -> DeductionIds \ Known(deductions)] :
           /\ \A u, v \in Uncovered : u # v => id[u] # id[v]
           /\ deductions' = [d \in DeductionIds |->
                 IF \E u \in Uncovered : id[u] = d
                 THEN LET u == CHOOSE u \in Uncovered : id[u] = d IN Break(u)
                 ELSE deductions[d]]
    BY DEF ExcludeSleep
  <1>2. gap # NoGap
    BY DEF ExcludeSleep
  <1>3. ASSUME NEW d \in DeductionIds
        PROVE  d \in CoveredBy(deductions', gap.of, t)
                 <=> \/ d \in CoveredBy(deductions, gap.of, t)
                     \/ \E u \in Uncovered : id[u] = d /\ Within(t, u)
    <2>1. CASE \E u \in Uncovered : id[u] = d
      <3>1. PICK u \in Uncovered : id[u] = d
        BY <2>1
      <3>2. PICK v : v = CHOOSE x \in Uncovered : id[x] = d
        OBVIOUS
      <3>3. v \in Uncovered /\ id[v] = d
        BY <3>1, <3>2
      <3>4. v = u
        BY <1>1, <3>1, <3>3
      <3>5. deductions'[d] = Break(u)
        BY <1>1, <3>1, <3>2, <3>4
      <3>6. u[1] \in Int /\ u[2] \in Int /\ gap.start \in Nat /\ gap.start <= u[1] /\ u[1] < u[2]
        BY <1>2, GapTimes DEF Uncovered
      <3>7. u[2] # NoTime
        BY <3>6 DEF NoTime
      <3>8. d \in CoveredBy(deductions', gap.of, t) <=> Within(t, u)
        BY <3>5, <3>7 DEF CoveredBy, Within, EndAsOf
      <3>9. d \notin CoveredBy(deductions, gap.of, t)
        <4>1. d \notin Known(deductions) /\ deductions \in [DeductionIds -> DeductionRow]
          BY <1>1, <3>1 DEF SafetyInv, TypeOK
        <4>2. deductions[d].start = NoTime
          BY <4>1 DEF Known
        <4>3. deductions[d].start \notin Nat
          BY <4>2 DEF NoTime
        <4>4. deductions[d].dead
          BY <4>1, <4>3 DEF SafetyInv, Stored, DeductionRow
        <4> QED
          BY <4>4 DEF CoveredBy
      <3>10. \A w \in Uncovered : id[w] = d => w = u
        BY <1>1, <3>1
      <3> QED
        BY <3>1, <3>8, <3>9, <3>10
    <2>2. CASE ~\E u \in Uncovered : id[u] = d
      <3>1. deductions'[d] = deductions[d]
        BY <1>1, <2>2
      <3> QED
        BY <2>2, <3>1 DEF CoveredBy
    <2> QED
      BY <2>1, <2>2
  <1>4. id \in [Uncovered -> DeductionIds]
    BY <1>1
  <1> QED
    BY <1>1, <1>3, <1>4

\* In a valid timesheet, a session has one live lunch or break at a time.
LEMMA OneCovers ==
    ASSUME SafetyInv, TimesheetValid, NEW s, NEW t \in Nat,
           NEW d \in CoveredBy(deductions, s, t), NEW e \in CoveredBy(deductions, s, t)
    PROVE  d = e
  <1>1. SUFFICES ASSUME d # e PROVE FALSE
    OBVIOUS
  <1>2. /\ d \in DeductionIds /\ deductions[d].parent = s /\ ~deductions[d].dead
        /\ e \in DeductionIds /\ deductions[e].parent = s /\ ~deductions[e].dead
        /\ deductions[d].start <= t /\ t < EndAsOf(deductions[d], Now)
        /\ deductions[e].start <= t /\ t < EndAsOf(deductions[e], Now)
    BY DEF CoveredBy
  <1>3. d \in Live(deductions) /\ e \in Live(deductions)
    BY <1>2 DEF Live, SafetyInv, TypeOK
  <1>4. ~Overlap(deductions[d], deductions[e], Now)
    BY <1>1, <1>2, <1>3, ValidLater DEF SheetNow
  <1> QED
    BY <1>2, <1>3, <1>4, LiveRows DEF Overlap, EndAsOf

\* Exclude sleep covers every instant of the interval once, in a valid timesheet.
THEOREM SleepExcluded == Spec => SleepExcludedOnce
  <1>1. ASSUME SafetyInv, ExcludeSleep, NEW t \in Nat, gap.start <= t, t < gap.end
        PROVE  /\ CoveredBy(deductions', gap.of, t) # {}
               /\ TimesheetValid =>
                     \E d \in DeductionIds : CoveredBy(deductions', gap.of, t) = {d}
    <2>1. PICK id \in [Uncovered -> DeductionIds] :
             /\ \A u, v \in Uncovered : u # v => id[u] # id[v]
             /\ \A d \in DeductionIds :
                   d \in CoveredBy(deductions', gap.of, t)
                     <=> \/ d \in CoveredBy(deductions, gap.of, t)
                         \/ \E u \in Uncovered : id[u] = d /\ Within(t, u)
      BY <1>1, CoveredAfter
    <2>2. gap # NoGap
      BY <1>1 DEF ExcludeSleep
    <2>3. /\ CoveredBy(deductions, gap.of, t) \subseteq DeductionIds
          /\ CoveredBy(deductions', gap.of, t) \subseteq DeductionIds
      BY DEF CoveredBy
    <2>4. CASE CoveredBy(deductions, gap.of, t) = {}
      <3>1. PICK u \in Uncovered : Within(t, u)
        BY <1>1, <2>2, <2>4, FreeIsUncovered
      <3>2. id[u] \in CoveredBy(deductions', gap.of, t)
        BY <2>1, <3>1
      <3>3. ASSUME TimesheetValid PROVE CoveredBy(deductions', gap.of, t) = {id[u]}
        <4>1. \A v \in Uncovered : Within(t, v) => v = u
          BY <1>1, <2>2, <3>1, <3>3, UncoveredApart
        <4> QED
          BY <2>1, <2>3, <2>4, <3>2, <4>1
      <3> QED
        BY <2>3, <3>2, <3>3
    <2>5. CASE CoveredBy(deductions, gap.of, t) # {}
      <3>1. PICK d \in CoveredBy(deductions, gap.of, t) : TRUE
        BY <2>5
      <3>2. d \in CoveredBy(deductions', gap.of, t) /\ d \in DeductionIds
        BY <2>1, <2>3, <3>1
      <3>3. \A u \in Uncovered : ~Within(t, u)
        BY <1>1, <2>2, <2>5, UncoveredIsFree
      <3>4. ASSUME TimesheetValid PROVE CoveredBy(deductions', gap.of, t) = {d}
        <4>1. \A e \in CoveredBy(deductions, gap.of, t) : e = d
          BY <1>1, <3>1, <3>4, OneCovers
        <4> QED
          BY <2>1, <2>3, <3>2, <3>3, <4>1
      <3> QED
        BY <3>2, <3>4
    <2> QED
      BY <2>4, <2>5
  <1>2. SafetyInv /\ [Next]_vars =>
          [ExcludeSleep =>
             \A t \in Nat : gap.start <= t /\ t < gap.end =>
                /\ CoveredBy(deductions', gap.of, t) # {}
                /\ TimesheetValid =>
                      \E d \in DeductionIds : CoveredBy(deductions', gap.of, t) = {d}]_vars
    BY <1>1
  <1>3. Init => SafetyInv
    BY InitType, InitSafe DEF SafetyInv
  <1>4. SafetyInv /\ [Next]_vars => SafetyInv'
    BY NextSafe
  <1> QED
    BY <1>2, <1>3, <1>4, PTL DEF Spec, SleepExcludedOnce
=============================================================================
