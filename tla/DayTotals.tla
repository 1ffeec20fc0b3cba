----------------------------- MODULE DayTotals -----------------------------
(***************************************************************************)
(* The hours of a day, which the program computes three times over: for    *)
(* the Today, Timesheet and week views (_summaries_for_range), for the     *)
(* detailed CSV file (_detailed_rows) and for the external timesheets      *)
(* (completed_segments).  They count effective bounds, which rounding      *)
(* moves away from the actual ones by which the rows are selected.         *)
(*                                                                         *)
(* `effective` holds the two columns of effective bounds; TimeTracking     *)
(* leaves them out, since no command reads them.  A preference that        *)
(* changes while a timer runs rounds its lunches differently.              *)
(***************************************************************************)
EXTENDS TimeTracking, FiniteSetsExt, TLC

VARIABLE effective   \* effective_started_at and effective_ended_at of every row

\* A local midnight is a boundary of every rounding interval, and there is a
\* longest one.
ASSUME AlignmentAssumption == \A m \in Midnights, r \in Roundings : m % r = 0
ASSUME RoundingsAssumption == \E r \in Roundings : \A q \in Roundings : q <= r

Unset == <<NoTime, NoTime>>
-----------------------------------------------------------------------------
(* The commands, with the bounds they store. *)

Starts(s) ==
    /\ \/ StartWork(s) \/ \E t \in TypedTimes : StartWorkAt(s, t)
       \/ \E d \in DeductionIds : StartDeduction(s, d)
    /\ UNCHANGED effective

\* _complete_session
FinishesWork(s) ==
    /\ FinishWork(s, Now)
    /\ effective' = [effective EXCEPT ![s] =
           <<EffectiveWorkStart(sessions[s].start, sessions[s].rounding),
             EffectiveWorkEnd(Now, sessions[s].rounding)>>]

\* Rounded by the preference at the start of the lunch, unless that removes it.
FinishesDeduction(s, d) ==
    /\ FinishDeduction(s, d)
    /\ \E r \in Roundings : effective' = [effective EXCEPT ![d] =
           <<EffectivePauseStart(deductions[d].start, Now, r),
             EffectivePauseEnd(deductions[d].start, Now, r)>>]

Undoes == UndoTimerAction /\ effective' = [effective EXCEPT ![undo.of] = Unset]

\* Typed bounds are exact.
Enters(from, to) ==
    \/ \E s \in SessionIds :
          /\ AddManualSession(s, from, to) \/ UpdateWorkSession(s, from, to)
          /\ effective' = [effective EXCEPT ![s] = <<from, to>>]
    \/ \E s \in SessionIds, d \in DeductionIds :
          /\ AddManualDeduction(s, d, from, to)
          /\ effective' = [effective EXCEPT ![d] = <<from, to>>]

Waits == Idle /\ UNCHANGED effective

TotalsInit == Init /\ effective = [x \in SessionIds \cup DeductionIds |-> Unset]
TotalsNext ==
    \/ \E s \in SessionIds :
          Starts(s) \/ FinishesWork(s) \/ \E d \in DeductionIds : FinishesDeduction(s, d)
    \/ \E from, to \in TypedTimes : Enters(from, to)
    \/ Undoes \/ Waits
TotalsSpec == TotalsInit /\ [][TotalsNext]_<<vars, effective>>
-----------------------------------------------------------------------------
(* What the three computations have in common. *)

\* local_day_bounds; the last day ends after every effective bound.
Horizon == MaxTime + 2 * Max(Roundings)
DayStart(d) ==
    IF d = 0 THEN 0 ELSE IF d \notin Days THEN Horizon
    ELSE CHOOSE m \in Midnights : DayOf(m) = d

\* A range of days as the pair of its bounds.
Ranges == {<<DayStart(x[1]), DayStart(x[2] + 1)>> : x \in {y \in Days \X Days : y[1] <= y[2]}}
Whole == <<0, Horizon>>
DaysOf(range) == {d \in Days : range[1] <= DayStart(d) /\ DayStart(d) < range[2]}

RowOf(x) == IF x \in SessionIds THEN sessions[x] ELSE deductions[x]

\* Effective bounds, or the actual ones, or now for what runs.
Bounds(x) ==
    IF effective[x] # Unset THEN effective[x] ELSE <<RowOf(x).start, EndAsOf(RowOf(x), Now)>>

Meet(i, j) == <<Max({i[1], j[1]}), Min({i[2], j[2]})>>
Length(i) == Max({0, i[2] - i[1]})
Pieces(i) == SplitAtMidnight(i[1], i[2])
LivePauses(s) == ChildrenOf(s) \cap Live(deductions)
On(day, piece) == DayOf(piece[1]) = day

\* Gross seconds of a piece less what its lunches and breaks take of it.
NetOf(s, piece) ==
    Length(piece) - SumFunction([d \in LivePauses(s) |-> Length(Meet(piece, Bounds(d)))])

\* The hours of some pieces, each with its session.
Hours(pieces) == SumFunction([x \in pieces |-> NetOf(x[1], x[2])])
-----------------------------------------------------------------------------
(* The three computations, of one day in a range of days. *)

\* _summaries_for_range, the running session up to now.
SummaryPieces(range) ==
    UNION {{s} \X Pieces(Meet(Bounds(s), range)) : s \in Intersecting(range[1], range[2])}

Summary(range, day) == Hours({x \in SummaryPieces(range) : On(day, x[2])})

Provisional(range, day) ==
    \E x \in SummaryPieces(range) : On(day, x[2]) /\ sessions[x[1]].end = NoTime

\* Seeded fault: lunches are not cut to the bounds of their session.
DetailedRows_Unclipped(range) ==
    UNION {({s} \X Pieces(Meet(Bounds(s), range)))
              \cup UNION {{d} \X Pieces(Meet(Bounds(d), range)) :
                             d \in {e \in LivePauses(s) : deductions[e].end # NoTime}} :
              s \in {t \in Intersecting(range[1], range[2]) : sessions[t].end # NoTime}}

\* _detailed_rows: completed sessions, and their lunches cut to them.
DetailedRows(range) ==
    UNION {LET work == Meet(Bounds(s), range)
           IN  ({s} \X Pieces(work))
                  \cup UNION {{d} \X Pieces(Meet(Bounds(d), work)) :
                                 d \in {e \in LivePauses(s) : deductions[e].end # NoTime}} :
              s \in {t \in Intersecting(range[1], range[2]) : sessions[t].end # NoTime}}

Exported(range, day) ==
    SumFunction([x \in {y \in DetailedRows(range) : On(day, y[2])} |->
                    IF x[1] \in SessionIds THEN Length(x[2]) ELSE -Length(x[2])])

\* completed_segments: sessions are selected with a margin of fifteen minutes.
Segments(range) ==
    UNION {{s} \X Pieces(Meet(Bounds(s), range)) :
              s \in {t \in Intersecting(range[1] - Max(Roundings), range[2] + Max(Roundings)) :
                        sessions[t].end # NoTime}}

Filled(range, day) == Hours({x \in Segments(range) : On(day, x[2])})
-----------------------------------------------------------------------------
\* A day has the same hours in every view, whatever range of days it is computed
\* in, and without running work the filled timesheet shows them too: no rounding
\* moves work into a day, a week or an export that did not select it.
ViewsAgree ==
    \A range \in Ranges : \A day \in DaysOf(range) :
        /\ Summary(range, day) = Summary(Whole, day)
        /\ ~Provisional(range, day) => Filled(range, day) = Summary(range, day)

\* The views agree, and the CSV file, which lists the lunches apart, counts none
\* where its session is not counted.
TotalsAgree ==
    /\ ViewsAgree
    /\ \A range \in Ranges : \A day \in DaysOf(range) :
          ~Provisional(range, day) => Exported(range, day) = Summary(range, day)

\* Stated by decimal_hours, "Net work cannot be negative", for what the Timesheet
\* page and the fill of an external timesheet pass to it: the lunches of a day
\* take no more than its work.
NetIsNotNegative == \A day \in Days : Summary(Whole, day) >= 0

TotalsSymmetry == Permutations(SessionIds) \cup Permutations(DeductionIds)
=============================================================================
