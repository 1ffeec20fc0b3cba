--------------------------- MODULE MCTimeTracking ---------------------------
(***************************************************************************)
(* A small instance of TimeTracking for TLC: every command that changes a  *)
(* row, in any order.  Reminders have an instance of their own, and the    *)
(* location of a day decides nothing here.                                 *)
(***************************************************************************)
EXTENDS TimeTrackingClaims, TLC

Symmetry == Permutations(SessionIds) \cup Permutations(DeductionIds)

TimesheetSpec ==
    Init /\ [][\/ TimerCommand \/ ResolutionCommand \/ CorrectionCommand
               \/ Restart \/ Idle]_vars

\* Timers and the recovery of a previous day only: no Undo, no correction, no sleep.
RecoveryCommand ==
    \E s \in SessionIds :
        \/ StartWork(s) \/ ContinueRecovery(s)
        \/ \E t \in TypedTimes \cup {Now} : FinishWork(s, t)

RecoverySpec == Init /\ [][RecoveryCommand \/ Restart \/ Idle]_vars
=============================================================================
