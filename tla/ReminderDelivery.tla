-------------------------- MODULE ReminderDelivery --------------------------
(***************************************************************************)
(* What the user may expect of the reminders.  The service keeps one       *)
(* "notified" and one "snooze" setting per kind of reminder and names the  *)
(* timer inside it, so successive timers go through the same slots; the    *)
(* history variable below remembers, for each timer on its own, until when *)
(* it was promised silence.                                                *)
(***************************************************************************)
EXTENDS TimeTracking, TLC

VARIABLE promises   \* records [kind, of, until]: no reminder of "of" before "until"

ReminderKinds == {"work", "lunch"}
Forever == MaxTime + 2

\* A promise lasts while its timer runs (a timer Undo reopens may be reminded
\* of again) and until a snooze asks for the reminder at another time.
StillMade(p) ==
    /\ p.of \in ReminderSubject(p.kind)'
    /\ snoozed'[p.kind].of = p.of => snoozed'[p.kind] = snoozed[p.kind]

Delivered == {p \in [kind : ReminderKinds, of : SessionIds \cup DeductionIds, until : {Forever}] :
                  notified'[p.kind] = p.of /\ notified[p.kind] # p.of}
Snoozed == {[kind |-> k, of |-> snoozed'[k].of, until |-> snoozed'[k].until] : k \in
               {k \in ReminderKinds : snoozed'[k] # snoozed[k] /\ snoozed'[k] # NoSnooze}}

RemindersInit == Init /\ promises = {}
RemindersNext ==
    /\ \/ TimerCommand \/ ReminderCommand \/ ContextCommand \/ Restart \/ Idle
       \/ \E s \in SessionIds : DeleteRecovery(s) \/ DeleteWorkSession(s)
       \/ \E d \in DeductionIds : DeleteDeduction(d)
    /\ promises' = {p \in promises : StillMade(p)} \cup Delivered \cup Snoozed
RemindersSpec == RemindersInit /\ [][RemindersNext]_<<vars, promises>>

PastThreshold(kind, x) ==
    Now - StartOf(x) >= (IF kind = "work" THEN WorkThreshold ELSE LunchThreshold)

\* A running timer past its threshold is due exactly when no promise of silence
\* stands: each crossing is delivered once, no snooze is cut short, none lasts
\* longer than asked, and no other timer's reminder silences this one
\* (due_reminders, snooze_reminder and every command that retires a reminder).
RemindersKeepPromises ==
    \A kind \in ReminderKinds : \A x \in ReminderSubject(kind) :
        PastThreshold(kind, x) =>
            (x \in Due(kind) <=>
                ~ \E p \in promises : p.kind = kind /\ p.of = x /\ p.until > Now)

Symmetry == Permutations(SessionIds) \cup Permutations(DeductionIds)
=============================================================================
