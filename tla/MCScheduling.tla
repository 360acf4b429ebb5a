---------------------------- MODULE MCScheduling ----------------------------
(* Instances of Scheduling: weeks of two days, months of four, two starts   *)
(* a day; each budget makes one part of the planning busy.                  *)
EXTENDS Scheduling, TLC

Plan(mode, anchor, end, clock, duration) ==
    [mode |-> mode, anchor |-> anchor, end |-> end, clock |-> clock, duration |-> duration]

\* Every second week on its second day, at night and into the next day.
Biweekly == Plan("weekday_pattern", 1, NoDate, 1, 2) @@ [cadence |-> 2, weekdays |-> {1}]
\* Every third day, up to an end date.
ThreeDays == Plan("interval", 1, 6, 0, 1) @@ [count |-> 3, unit |-> "day"]
MCPlans == {Biweekly, ThreeDays}

Patch(moved, times, cancel) == [moved |-> moved, times |-> times, cancel |-> cancel]

MCPatches == {Patch(2, <<>>, "keep"), Patch(5, <<>>, "keep"), Patch(NoDate, <<1, 1>>, "no"),
              Patch(NoDate, <<>>, "yes")}

Budget(s, e, t, o, r) ==
    [series |-> s, edits |-> e, starts |-> t, oneoffs |-> o, roles |-> r]

MCBudgets == {
    Budget(3, 0, 0, 0, 0),   \* a series is changed and stopped
    Budget(2, 1, 1, 0, 0),   \* an edit and a start against a changed series
    Budget(2, 1, 0, 1, 0),   \* an edit and a one-off against a stopped one
    Budget(1, 2, 0, 0, 0),   \* two edits
    Budget(1, 1, 1, 1, 0),   \* one of each
    Budget(1, 0, 1, 1, 1),   \* a role is lost
    Budget(0, 0, 1, 3, 0)}   \* a one-off is changed and started

\* What the modes of recurrence.go mean, without the jumps of its loops.
Occurs(p, d) ==
    /\ d >= p.anchor /\ (p.end # NoDate => d <= p.end)
    /\ CASE p.mode = "weekday_pattern" ->
              /\ Weekday(d) \in p.weekdays
              /\ ((WeekStart(d) - WeekStart(p.anchor)) \div WeekLength) % p.cadence = 0
         [] p.mode = "interval"       -> (d - p.anchor) % StepDays(p) = 0
         [] p.mode = "selected_dates" -> d \in p.dates

Samples ==
    UNION {{Plan("weekday_pattern", a, e, 0, 1) @@ [cadence |-> k, weekdays |-> w] :
              k \in 1 .. 2, w \in SUBSET (0 .. WeekLength - 1)}
           \union {Plan("interval", a, e, 0, 1) @@ [count |-> k, unit |-> u] :
              k \in 1 .. 3, u \in {"day", "week"}}
           \union {Plan("selected_dates", a, e, 0, 1) @@ [dates |-> w] : w \in SUBSET (1 .. 4)} :
             a \in 0 .. 4, e \in {NoDate, 5}}

\* The dates of a valid plan are those that occur, whatever window is asked for
\* and from whatever date the revision is effective.
ASSUME WindowsAgree ==
    \A p \in Samples, effective \in 0 .. 4 :
      LET r == Revision(1, effective, p) IN
        ValidPattern(r) =>
          \A from \in 0 .. 8 : \A to \in 0 .. 8 :
            OccurrenceDates(r, from, to) =
              {d \in from .. to : d >= effective /\ Occurs(p, d)}

ManagerSymmetry == Permutations(Managers)
=============================================================================
