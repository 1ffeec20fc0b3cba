------------------------- MODULE TimeTrackingClaims -------------------------
(***************************************************************************)
(* What the repository's decision log says of the time-tracking service    *)
(* and the service, as TimeTracking translates it, does not always do.     *)
(***************************************************************************)
EXTENDS TimeTracking

DeductionsInside ==
    \A d \in Live(deductions) :
       /\ deductions[d].parent \in Live(sessions)
       /\ Inside(deductions[d], sessions[deductions[d].parent], clock)

\* DECISIONS.md D026, "Overlapping work sessions, lunches or breaks outside their
\* parent session, end-before-start, and multiple open intervals are blocked": no
\* such row is ever stored.
IntervalsAreBlocked ==
    /\ NoOverlap(sessions, Live(sessions), clock)
    /\ DeductionsInside
    /\ \A s \in SessionIds : Readable(sessions[s])
    /\ OneTimer
=============================================================================
