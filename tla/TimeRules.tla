------------------------------ MODULE TimeRules ------------------------------
(***************************************************************************)
(* The pure time rules of qi_flow.domain.time_rules: rounding a timer's    *)
(* instants to the configured boundary and deciding which local day an     *)
(* instant belongs to.  An instant is a natural number of ticks since an   *)
(* epoch; a rounding interval m is a number of ticks.                      *)
(***************************************************************************)
EXTENDS Integers

CONSTANT
    Midnights   \* instants at which a Copenhagen day starts (days may be uneven: DST)

ASSUME MidnightsAssumption == Midnights \subseteq Nat

\* An instant that is not set: the end of a running interval.
NoTime == -1

RoundNearest(t, m) == ((t + m \div 2) \div m) * m
RoundDown(t, m)    == (t \div m) * m
RoundUp(t, m)      == ((t + m - 1) \div m) * m

\* effective_work_interval: the nearer EARLIER boundary, or the actual start.
EffectiveWorkStart(t, m) ==
    IF RoundNearest(t, m) <= t THEN RoundNearest(t, m) ELSE t
EffectiveWorkEnd(t, m) == RoundUp(t, m)
WorkSurvivesRounding(start, end, m) ==
    EffectiveWorkStart(start, m) < EffectiveWorkEnd(end, m)

\* effective_interval and the fallback finish_deduction takes when rounding
\* would remove the lunch: its actual bounds.
PauseSurvivesRounding(start, end, m) == RoundNearest(start, m) < RoundNearest(end, m)
EffectivePauseStart(start, end, m) ==
    IF PauseSurvivesRounding(start, end, m) THEN RoundNearest(start, m) ELSE start
EffectivePauseEnd(start, end, m) ==
    IF PauseSurvivesRounding(start, end, m) THEN RoundNearest(end, m) ELSE end

\* began_on_previous_local_day: a midnight passed since the interval started.
BeganOnPreviousDay(start, now) == \E m \in Midnights : start < m /\ m <= now

\* split_at_local_midnight: [start, end) cut at every midnight inside it.
Cuts(start, end) == {start} \cup {m \in Midnights : start < m /\ m < end}
NextCut(c, end) == CHOOSE b \in {end} \cup Midnights :
    /\ c < b /\ b <= end
    /\ \A m \in Midnights : c < m => b <= m
SplitAtMidnight(start, end) ==
    IF start < end THEN {<<c, NextCut(c, end)>> : c \in Cuts(start, end)} ELSE {}
===============================================================================
