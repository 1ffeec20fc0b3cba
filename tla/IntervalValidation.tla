-------------------------- MODULE IntervalValidation --------------------------
(***************************************************************************)
(* qi_flow.domain.interval_validation: when a set of work sessions and the *)
(* lunches and breaks that belong to them form a valid timesheet.          *)
(*                                                                         *)
(* W maps work-session ids, P deduction ids, to rows; a row has a start,   *)
(* an end (NoTime while it runs) and a flag "dead" for deleted_at; a       *)
(* deduction row names its parent session.                                 *)
(***************************************************************************)
EXTENDS TimeRules

Live(rows) == {x \in DOMAIN rows : ~rows[x].dead}

IsOpen(row) == ~row.dead /\ row.end = NoTime

AtMostOneOpen(rows) ==
    \A x, y \in DOMAIN rows : IsOpen(rows[x]) /\ IsOpen(rows[y]) => x = y

\* A running interval ends at the instant of validation.
EndAsOf(row, now) == IF row.end = NoTime THEN now ELSE row.end

\* WorkSession and Deduction refuse to be built with an end that is not after
\* the start: such a row cannot be read back from the database.
Readable(row) == row.end = NoTime \/ row.start < row.end

\* _bounds, for the actual bounds: the effective ones come from TimeRules.
BoundsAllowed(row, now) ==
    /\ row.start <= now
    /\ EndAsOf(row, now) <= now
    /\ Readable(row)

\* _ensure_no_overlap, on half-open intervals.
Overlap(a, b, now) == a.start < EndAsOf(b, now) /\ b.start < EndAsOf(a, now)

NoOverlap(rows, S, now) ==
    \A x, y \in S : x # y => ~Overlap(rows[x], rows[y], now)

Inside(child, parent, now) ==
    parent.start <= child.start /\ EndAsOf(child, now) <= EndAsOf(parent, now)

SessionsValid(W, now) ==
    /\ AtMostOneOpen(W)
    /\ \A s \in Live(W) : BoundsAllowed(W[s], now)
    /\ NoOverlap(W, Live(W), now)

DeductionsValid(W, P, now) ==
    /\ AtMostOneOpen(P)
    /\ \A d \in Live(P) :
          /\ P[d].parent \in Live(W)
          /\ IsOpen(P[d]) => IsOpen(W[P[d].parent])
          /\ BoundsAllowed(P[d], now)
          /\ Inside(P[d], W[P[d].parent], now)
    /\ \A d, e \in Live(P) :
          d # e /\ P[d].parent = P[e].parent => ~Overlap(P[d], P[e], now)

\* validate_intervals: does it return, or raise one of its domain errors?
ValidIntervals(W, P, now) == SessionsValid(W, now) /\ DeductionsValid(W, P, now)
===============================================================================
