----------------------------- MODULE Recurrence -----------------------------
(***************************************************************************)
(* Which local dates a recurring schedule has                              *)
(* (backend/internal/scheduling/recurrence.go).                            *)
(*                                                                         *)
(* A civil date is a natural number and date 0 is a Sunday.  The code      *)
(* jumps to the first candidate of a window by arithmetic, and so do the   *)
(* definitions here.  A week has WeekLength days, so that a few weeks fit  *)
(* a small instance.                                                       *)
(*                                                                         *)
(* A revision is [version, effective, plan]; a plan has a mode, an anchor, *)
(* an end date or NoDate, and the selectors of its mode.                   *)
(***************************************************************************)
EXTENDS Integers, FiniteSets, FiniteSetsExt

CONSTANT WeekLength      \* 7 in the calendar

ASSUME WeekLengthAssumption == WeekLength \in Nat \ {0}

NoDate == -1

Weekday(d)   == d % WeekLength
WeekStart(d) == d - Weekday(d)

Latest(d, e) == IF d < e THEN e ELSE d
-----------------------------------------------------------------------------
(* ValidatePattern                                                          *)

ValidWeekdayPattern(p) ==
    /\ p.cadence \in {1, 2}
    /\ p.weekdays # {} /\ p.weekdays \subseteq 0 .. WeekLength - 1
    /\ Weekday(p.anchor) \in p.weekdays

ValidInterval(p) == p.count > 0 /\ p.unit \in {"day", "week"}

ValidSelectedDates(p) ==
    /\ p.dates # {} /\ Min(p.dates) = p.anchor
    /\ p.end # NoDate => Max(p.dates) <= p.end

ValidPattern(r) ==
    /\ r.version > 0
    /\ r.plan.end # NoDate => r.plan.anchor <= r.plan.end
    /\ \/ r.plan.mode = "weekday_pattern" /\ ValidWeekdayPattern(r.plan)
       \/ r.plan.mode = "interval" /\ ValidInterval(r.plan)
       \/ r.plan.mode = "selected_dates" /\ ValidSelectedDates(r.plan)
-----------------------------------------------------------------------------
(* OccurrenceDates: the dates of a revision in a window                     *)

\* From the first week at or after lower that is a multiple of the cadence
\* away from the anchor's week.
WeekdayDates(p, lower, upper) ==
    LET anchorWeek == WeekStart(p.anchor)
        week  == (WeekStart(lower) - anchorWeek) \div WeekLength
        rem   == week % p.cadence
        first == IF rem = 0 THEN week ELSE week + p.cadence - rem
    IN  {d \in lower .. upper :
           \E k \in 0 .. upper, day \in p.weekdays :
              d = anchorWeek + (first + k * p.cadence) * WeekLength + day}

StepDays(p) == p.count * (IF p.unit = "week" THEN WeekLength ELSE 1)

\* From the first step at or after lower.
IntervalDates(p, lower, upper) ==
    LET steps == IF lower > p.anchor
                 THEN (lower - p.anchor + StepDays(p) - 1) \div StepDays(p) ELSE 0
        start == p.anchor + steps * StepDays(p)
    IN  {start + k * StepDays(p) : k \in 0 .. upper} \intersect (start .. upper)

SelectedDates(p, lower, upper) == p.dates \intersect (lower .. upper)

OccurrenceDates(r, from, to) ==
    LET p     == r.plan
        lower == Latest(Latest(from, p.anchor), r.effective)
        upper == IF p.end # NoDate /\ p.end < to THEN p.end ELSE to
    IN  IF lower > upper THEN {}
        ELSE CASE p.mode = "weekday_pattern" -> WeekdayDates(p, lower, upper)
               [] p.mode = "interval"        -> IntervalDates(p, lower, upper)
               [] p.mode = "selected_dates"  -> SelectedDates(p, lower, upper)

\* The revision that governs a date, as a set of at most one: the highest
\* version that is effective at or before it.
SelectRevision(revisions, date) ==
    {r \in revisions : /\ r.effective <= date
                       /\ \A s \in revisions : s.effective <= date => s.version <= r.version}

\* The dates of the window that their governing revision generates.
OccurrenceWindow(revisions, from, to) ==
    UNION {{d \in OccurrenceDates(r, from, to) : r \in SelectRevision(revisions, d)} :
             r \in revisions}
=============================================================================
