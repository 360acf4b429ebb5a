-------------------------- MODULE SchedulingProofs --------------------------
(***************************************************************************)
(* Theorems about Scheduling, for any managers, plans and interleaving:    *)
(* started history is kept; calendar, occurrence view and start agree; and *)
(* no overlap is committed unseen.                                         *)
(***************************************************************************)
EXTENDS Scheduling, TLAPS
-----------------------------------------------------------------------------
(* The dates of a recurrence do not depend on the window                    *)

\* A date lies in the week and on the weekday that it was made from.
LEMMA WeekOfDate ==
    ASSUME NEW q \in Int, NEW b \in Nat \ {0}, NEW r \in 0 .. b - 1
    PROVE  (b * q + r) \div b = q
OBVIOUS

LEMMA DivMonotone ==
    ASSUME NEW x \in Int, NEW y \in Int, NEW b \in Nat \ {0}, x <= y
    PROVE  x \div b <= y \div b
OBVIOUS

LEMMA Euclid ==
    ASSUME NEW x \in Int, NEW b \in Nat \ {0}
    PROVE  /\ x \div b \in Int /\ x % b \in 0 .. b - 1
           /\ x = b * (x \div b) + (x % b)
OBVIOUS

\* The dates of a weekday pattern, whatever window they are asked in.
OnPattern(p, d) ==
    \E j \in Nat, day \in p.weekdays :
       d = WeekStart(p.anchor) + (j * p.cadence) * WeekLength + day

LEMMA WeekdayDatesInWindow ==
    ASSUME NEW p, ValidWeekdayPattern(p), p.anchor \in Nat,
           NEW lower \in Nat, NEW upper \in Nat, p.anchor <= lower,
           NEW d \in lower .. upper
    PROVE  d \in WeekdayDates(p, lower, upper) <=> OnPattern(p, d)
<1> USE WeekLengthAssumption
<1> DEFINE a == p.anchor \div WeekLength
           l == lower \div WeekLength
           week == (WeekStart(lower) - WeekStart(p.anchor)) \div WeekLength
           rem == week % p.cadence
           first == IF rem = 0 THEN week ELSE week + p.cadence - rem
<1>1. /\ a \in Int /\ l \in Int /\ a <= l
      /\ WeekStart(p.anchor) = WeekLength * a /\ WeekStart(lower) = WeekLength * l
  <2>1. /\ a \in Int /\ p.anchor = WeekLength * a + (p.anchor % WeekLength)
        /\ p.anchor % WeekLength \in 0 .. WeekLength - 1
    <3>1. p.anchor \in Int /\ WeekLength \in Nat \ {0}
      OBVIOUS
    <3> QED BY <3>1, Euclid
  <2>2. /\ l \in Int /\ lower = WeekLength * l + (lower % WeekLength)
        /\ lower % WeekLength \in 0 .. WeekLength - 1
    <3>1. lower \in Int /\ WeekLength \in Nat \ {0}
      OBVIOUS
    <3> QED BY <3>1, Euclid
  <2>3. a <= l
    BY DivMonotone
  <2> HIDE DEF a, l
  <2> QED BY <2>1, <2>2, <2>3 DEF WeekStart, Weekday
<1> HIDE DEF a, l
<1>2. week = l - a
  <2>1. WeekStart(lower) - WeekStart(p.anchor) = WeekLength * (l - a) + 0
    BY <1>1
  <2> QED BY <1>1, <2>1, WeekOfDate
<1>3. p.cadence \in {1, 2} /\ p.weekdays \subseteq 0 .. WeekLength - 1
  BY DEF ValidWeekdayPattern
<1>4. /\ first \in Nat /\ first >= l - a
      /\ \E q \in Nat : first = q * p.cadence
      /\ \A j \in Nat : j * p.cadence >= l - a => j * p.cadence >= first
  <2>1. l - a \in Nat
    BY <1>1
  <2> DEFINE w == l - a
  <2>2. w % 1 = 0 /\ w % 2 \in {0, 1} /\ \E h \in Nat : w = 2 * h + (w % 2)
    <3>1. w % 2 \in 0 .. 1 /\ w = 2 * (w \div 2) + (w % 2) /\ w \div 2 \in Nat
      BY <2>1
    <3> QED BY <3>1, <2>1
  <2>3. PICK h \in Nat : w = 2 * h + (w % 2)
    BY <2>2
  <2>4. CASE p.cadence = 1
    <3>1. week % 1 = 0
      BY <1>2, <2>2
    <3> HIDE DEF week
    <3>2. first = w /\ w = w * 1
      BY <3>1, <2>1, <2>4, <1>2
    <3> HIDE DEF first, w
    <3>3. w \in Nat /\ w = l - a
      BY <2>1 DEF w
    <3> QED BY <2>4, <3>2, <3>3
  <2>5. CASE p.cadence = 2
    <3>1. w \in Nat /\ w = l - a /\ week = w
      BY <2>1, <1>2
    <3> HIDE DEF week, w
    <3>2. first = IF w % 2 = 0 THEN w ELSE w + 1
      <4>1. w % 2 \in {0, 1}
        BY <2>2
      <4>2. first = IF w % 2 = 0 THEN w ELSE w + 2 - (w % 2)
        BY <2>5, <3>1
      <4> QED BY <3>1, <4>1, <4>2
    <3> HIDE DEF first
    <3>3. first = 2 * h \/ (first = 2 * (h + 1) /\ w = 2 * h + 1)
      <4>1. CASE w % 2 = 0
        <5>1. w = 2 * h
          BY <4>1, <2>3, <3>1
        <5>2. first = w
          BY <4>1, <3>2
        <5> QED BY <3>1, <5>1, <5>2
      <4>2. CASE w % 2 = 1
        <5>1. w = 2 * h + 1
          BY <4>2, <2>3, <3>1
        <5>2. first = w + 1
          BY <4>2, <3>2
        <5> QED BY <5>1, <5>2
      <4> QED BY <4>1, <4>2, <2>2
    <3>4. \A j \in Nat : j * 2 >= w => j * 2 >= first
      BY <3>1, <3>3, <2>2, <2>3, <3>2
    <3>5. \E q \in Nat : first = q * 2
      <4>1. h \in Nat /\ h + 1 \in Nat /\ 2 * h = h * 2 /\ 2 * (h + 1) = (h + 1) * 2
        OBVIOUS
      <4> QED BY <3>3, <4>1
    <3>6. first \in Nat /\ first >= w
      BY <3>1, <3>2, <2>2
    <3> QED BY <2>5, <3>1, <3>4, <3>5, <3>6
  <2> QED BY <1>3, <2>4, <2>5
<1> HIDE DEF first
<1>5. WeekdayDates(p, lower, upper) =
        {x \in lower .. upper : \E k \in 0 .. upper, day \in p.weekdays :
           x = WeekStart(p.anchor) + (first + k * p.cadence) * WeekLength + day}
  BY DEF WeekdayDates, first
<1>6. ASSUME NEW k \in 0 .. upper, NEW day \in p.weekdays,
             d = WeekStart(p.anchor) + (first + k * p.cadence) * WeekLength + day
      PROVE  OnPattern(p, d)
  <2>1. PICK q \in Nat : first = q * p.cadence
    BY <1>4
  <2>2. q + k \in Nat /\ first + k * p.cadence = (q + k) * p.cadence
    BY <1>3, <2>1
  <2> QED BY <1>6, <2>2 DEF OnPattern
<1>7. ASSUME NEW j \in Nat, NEW day \in p.weekdays,
             d = WeekStart(p.anchor) + (j * p.cadence) * WeekLength + day
      PROVE  \E k \in 0 .. upper :
               d = WeekStart(p.anchor) + (first + k * p.cadence) * WeekLength + day
  <2>1. d = WeekLength * (a + j * p.cadence) + day
    BY <1>1, <1>3, <1>7
  <2>2. d \div WeekLength = a + j * p.cadence
    <3>1. a + j * p.cadence \in Int /\ day \in 0 .. WeekLength - 1
      BY <1>1, <1>3
    <3> DEFINE q == a + j * p.cadence
    <3> HIDE DEF q
    <3>2. q \in Int /\ d = WeekLength * q + day
      BY <3>1, <2>1 DEF q
    <3>3. (WeekLength * q + day) \div WeekLength = q
      BY <3>1, <3>2, WeekOfDate
    <3> QED BY <3>2, <3>3 DEF q
  <2>3. l <= a + j * p.cadence
    BY <2>2, DivMonotone DEF l
  <2>4. j * p.cadence >= first
    BY <1>1, <1>3, <1>4, <2>3
  <2>5. PICK q \in Nat : first = q * p.cadence
    BY <1>4
  <2>6. j - q \in Nat /\ j * p.cadence = first + (j - q) * p.cadence
    BY <1>3, <2>4, <2>5
  <2>7. j <= d
    <3>1. a >= 0
      BY DEF a
    <3>2. a + j * p.cadence >= j
      BY <3>1, <1>1, <1>3
    <3>3. WeekLength * (a + j * p.cadence) >= a + j * p.cadence
      BY <3>1, <1>1, <1>3
    <3> QED BY <2>1, <3>2, <3>3, <1>1, <1>3
  <2>8. j - q \in 0 .. upper
    BY <2>6, <2>7
  <2> QED BY <1>7, <2>6, <2>8
<1> QED BY <1>5, <1>6, <1>7 DEF OnPattern

\* The dates of an interval, whatever window they are asked in.
OnInterval(p, d) == \E j \in Nat : d = p.anchor + j * StepDays(p)

\* Rounding up a division finds the first multiple.
LEMMA RoundUp ==
    ASSUME NEW x \in Nat, NEW b \in Nat \ {0}
    PROVE  \E q \in Nat : /\ q = (x + b - 1) \div b /\ q * b >= x
                          /\ \A j \in Nat : j * b >= x => j >= q
<1> DEFINE y == x + b - 1
           q == y \div b
<1>1. y \in Nat
  OBVIOUS
<1>2. q \in Int /\ y % b \in 0 .. b - 1 /\ y = b * q + (y % b)
  <2> HIDE DEF y
  <2> QED BY <1>1, Euclid
<1>3. q \in Nat
  <2> HIDE DEF y
  <2> QED BY <1>1
<1> HIDE DEF q
<1>4. q * b >= x
  BY <1>2, <1>3
<1>5. ASSUME NEW j \in Nat, j * b >= x, j < q PROVE FALSE
  <2>1. j + 1 <= q /\ b * (j + 1) <= b * q
    BY <1>3, <1>5
  <2>2. b * (j + 1) = j * b + b /\ b * q <= y
    BY <1>2, <1>3
  <2> QED BY <2>1, <2>2, <1>5, <1>3
<1>6. \A j \in Nat : j * b >= x => j >= q
  BY <1>3, <1>5
<1>7. q = (x + b - 1) \div b
  BY DEF q
<1> QED BY <1>3, <1>4, <1>6, <1>7

LEMMA IntervalDatesInWindow ==
    ASSUME NEW p, ValidInterval(p), p.anchor \in Nat, p.count \in Nat,
           NEW lower \in Nat, NEW upper \in Nat, p.anchor <= lower, NEW d
    PROVE  d \in IntervalDates(p, lower, upper) <=> OnInterval(p, d) /\ d \in lower .. upper
<1> DEFINE b == StepDays(p)
           x == lower - p.anchor
           steps == IF lower > p.anchor THEN (x + b - 1) \div b ELSE 0
           start == p.anchor + steps * b
<1>1. b \in Nat \ {0}
  BY WeekLengthAssumption DEF ValidInterval, StepDays
<1> HIDE DEF b
<1>2. x \in Nat
  OBVIOUS
<1>3. /\ steps \in Nat /\ steps * b >= x
      /\ \A j \in Nat : j * b >= x => j >= steps
  <2>1. CASE lower > p.anchor
    <3>1. steps = (x + b - 1) \div b
      BY <2>1
    <3> HIDE DEF steps, x
    <3> QED BY <3>1, <1>1, <1>2, RoundUp
  <2>2. CASE ~(lower > p.anchor)
    <3>1. steps = 0 /\ x = 0
      BY <2>2
    <3> HIDE DEF steps, x
    <3> QED BY <3>1, <1>1
  <2> QED BY <2>1, <2>2
<1>4. IntervalDates(p, lower, upper) = {start + k * b : k \in 0 .. upper} \intersect (start .. upper)
  BY DEF IntervalDates, b
<1> HIDE DEF steps
<1>5. ASSUME NEW k \in 0 .. upper, d = start + k * b, d \in start .. upper
      PROVE  OnInterval(p, d) /\ d \in lower .. upper
  <2>1. steps + k \in Nat /\ d = p.anchor + (steps + k) * b
    BY <1>1, <1>3, <1>5
  <2>2. start \in Nat /\ start >= lower
    BY <1>1, <1>3
  <2>3. d \in lower .. upper
    BY <1>5, <2>2
  <2> QED BY <2>1, <2>3 DEF OnInterval, b
<1>6. ASSUME NEW j \in Nat, d = p.anchor + j * b, d \in lower .. upper
      PROVE  d \in {start + k * b : k \in 0 .. upper} /\ d \in start .. upper
  <2>1. j * b \in Nat /\ j * b >= x
    BY <1>1, <1>2, <1>6
  <2>2. j >= steps
    BY <1>3, <2>1
  <2>3. j - steps \in Nat /\ j * b = steps * b + (j - steps) * b
    BY <1>1, <1>3, <2>2
  <2>4. (j - steps) * b >= 0 /\ j * b >= j /\ steps * b \in Nat
    BY <1>1, <1>3, <2>3
  <2>5. d = start + (j - steps) * b /\ start <= d /\ start \in Nat
    BY <1>1, <1>3, <1>6, <2>3, <2>4
  <2>6. j - steps \in 0 .. upper
    BY <1>1, <1>3, <1>6, <2>3, <2>4
  <2>7. d \in start .. upper
    BY <1>6, <2>5
  <2> HIDE DEF start
  <2> QED BY <2>5, <2>6, <2>7
<1> QED BY <1>4, <1>5, <1>6 DEF OnInterval, b

\* An occurrence exists in every window that contains its date, or in none:
\* what Generates says of a date is what any longer window shows of it.
LEMMA DatesInWindow ==
    ASSUME NEW r, r.plan.anchor \in Nat, r.effective \in Nat,
           r.plan.end \in Nat \union {NoDate}, ValidPattern(r),
           r.plan.mode = "interval" => r.plan.count \in Nat,
           NEW from \in Nat, NEW to \in Nat, NEW d \in from .. to
    PROVE  d \in OccurrenceDates(r, from, to) <=> Generates(r, d)
<1> DEFINE p == r.plan
           lower(f) == Latest(Latest(f, p.anchor), r.effective)
           upper(t) == IF p.end # NoDate /\ p.end < t THEN p.end ELSE t
           Dated(l, u) == CASE p.mode = "weekday_pattern" -> WeekdayDates(p, l, u)
                            [] p.mode = "interval"        -> IntervalDates(p, l, u)
                            [] p.mode = "selected_dates"  -> SelectedDates(p, l, u)
           On == CASE p.mode = "weekday_pattern" -> OnPattern(p, d)
                   [] p.mode = "interval"        -> OnInterval(p, d)
                   [] p.mode = "selected_dates"  -> d \in p.dates
<1>1. \A f, t \in Nat : OccurrenceDates(r, f, t) =
        IF lower(f) > upper(t) THEN {} ELSE Dated(lower(f), upper(t))
  BY DEF OccurrenceDates
<1>2. \A l, u \in Nat : p.anchor <= l => (d \in Dated(l, u) <=> On /\ d \in l .. u)
  <2> SUFFICES ASSUME NEW l \in Nat, NEW u \in Nat, p.anchor <= l
               PROVE  d \in Dated(l, u) <=> On /\ d \in l .. u
    OBVIOUS
  <2>1. CASE p.mode = "weekday_pattern"
    <3>1. ValidWeekdayPattern(p)
      BY <2>1 DEF ValidPattern
    <3>2. CASE d \in l .. u
      <4>1. d \in WeekdayDates(p, l, u) <=> OnPattern(p, d)
        BY <3>1, <3>2, WeekdayDatesInWindow
      <4> QED BY <2>1, <3>2, <4>1
    <3>3. CASE d \notin l .. u
      <4>1. d \notin WeekdayDates(p, l, u)
        BY <3>3 DEF WeekdayDates
      <4> QED BY <2>1, <3>3, <4>1
    <3> QED BY <3>2, <3>3
  <2>2. CASE p.mode = "interval"
    <3>1. ValidInterval(p) /\ p.count \in Nat
      BY <2>2 DEF ValidPattern
    <3>2. d \in IntervalDates(p, l, u) <=> OnInterval(p, d) /\ d \in l .. u
      BY <3>1, IntervalDatesInWindow
    <3> QED BY <2>2, <3>2
  <2>3. CASE p.mode = "selected_dates"
    BY <2>3 DEF SelectedDates
  <2> QED BY <2>1, <2>2, <2>3 DEF ValidPattern
<1> HIDE DEF Dated, On
<1>3. \A f, t \in Nat : lower(f) \in Nat /\ upper(t) \in Nat /\ p.anchor <= lower(f)
  BY DEF Latest
<1>4. \A f, t \in Nat : d \in OccurrenceDates(r, f, t) <=> On /\ d \in lower(f) .. upper(t)
  <2> SUFFICES ASSUME NEW f \in Nat, NEW t \in Nat
               PROVE  d \in OccurrenceDates(r, f, t) <=> On /\ d \in lower(f) .. upper(t)
    OBVIOUS
  <2>1. lower(f) \in Nat /\ upper(t) \in Nat /\ p.anchor <= lower(f)
    BY <1>3
  <2>2. OccurrenceDates(r, f, t) =
          IF lower(f) > upper(t) THEN {} ELSE Dated(lower(f), upper(t))
    BY <1>1
  <2> HIDE DEF lower, upper
  <2>3. d \in Dated(lower(f), upper(t)) <=> On /\ d \in lower(f) .. upper(t)
    BY <1>2, <2>1
  <2> QED BY <2>1, <2>2, <2>3
<1>5. d \in Nat /\ (d \in lower(from) .. upper(to) <=> d \in lower(d) .. upper(d))
  <2>1. d \in Nat
    OBVIOUS
  <2> QED BY <2>1 DEF Latest
<1> QED BY <1>4, <1>5 DEF Generates
-----------------------------------------------------------------------------
(* The tables, and what a transaction still knows of them                   *)

PlanRow(p) ==
    /\ p.anchor \in Nat /\ p.end \in Nat \union {NoDate} /\ ValidTimes(p.clock, p.duration)
    /\ p.mode = "interval" => p.count \in Nat

RevisionRow(r) ==
    r.version \in Nat /\ r.effective \in Nat /\ PlanRow(r.plan) /\ ValidPattern(r)

ExceptionRow(e) ==
    /\ e.version \in Nat /\ e.moved \in Nat \union {NoDate} /\ e.cancelled \in BOOLEAN
    /\ e.times # <<>> => ValidTimes(e.times[1], e.times[2])
    /\ e.version = 0 => e = NoException

\* The session of an occurrence exists only once it was started.
SessionRow(s) ==
    \/ s = NoSession
    \/ /\ s = [status |-> s.status, at |-> s.at, duration |-> s.duration, cancelled |-> FALSE]
       /\ s.status \in {"active", "ended"}

OneOffRow(o) ==
    /\ o = [status |-> o.status, at |-> o.at, cancelled |-> o.cancelled, version |-> o.version]
    /\ o.status \in {"none", "scheduled", "active", "ended"} /\ o.cancelled \in BOOLEAN

\* Revisions have distinct versions, none above that of the series.
Series(v) ==
    /\ v.schedule = [version |-> v.schedule.version, stopped |-> v.schedule.stopped]
    /\ v.schedule.version \in Nat /\ v.schedule.stopped \in Nat \union {NoDate}
    /\ \A r \in v.revisions : RevisionRow(r) /\ r.version <= v.schedule.version
    /\ \A r, s \in v.revisions : r.version = s.version => r = s

\* A started occurrence was not cancelled, and is not cancelled later.
Occurrences(v) ==
    /\ v.exceptions = [d \in Dates |-> v.exceptions[d]]
    /\ v.sessions = [d \in Dates |-> v.sessions[d]]
    /\ \A d \in Dates : /\ ExceptionRow(v.exceptions[d]) /\ SessionRow(v.sessions[d])
                        /\ v.sessions[d] # NoSession => ~v.exceptions[d].cancelled

Tables(v) ==
    /\ v = [schedule |-> v.schedule, revisions |-> v.revisions, exceptions |-> v.exceptions,
            sessions |-> v.sessions, oneoff |-> v.oneoff]
    /\ Series(v) /\ Occurrences(v) /\ OneOffRow(v.oneoff)

Command(cmd) ==
    /\ cmd.op \in {"create", "change"} => cmd.plan \in Plans
    /\ cmd.op \in {"change", "stop"} => cmd.from \in Boundaries
    /\ cmd.op = "occurrence" => cmd.patch \in Patches

Client(k) ==
    \/ k \in {Idle, [phase |-> "unanswered"]}
    \/ /\ k = [phase |-> "sent", cmd |-> k.cmd, reviewed |-> k.reviewed, attempt |-> k.attempt]
       /\ Command(k.cmd)
    \/ /\ k = [phase |-> "open", cmd |-> k.cmd, reviewed |-> k.reviewed, attempt |-> k.attempt,
               snap |-> k.snap, overtaken |-> k.overtaken]
       /\ Command(k.cmd) /\ IsSerializable(k.cmd) /\ Tables(k.snap) /\ k.overtaken \in BOOLEAN

\* What starts, ends and cancellations leave of an occurrence's session ...
StartedSince(s, v, d) ==
    \/ v.sessions[d] = s.sessions[d]
    \/ /\ s.sessions[d].status = "active" /\ v.sessions[d].status = "ended"
       /\ v.sessions[d].at = s.sessions[d].at /\ v.sessions[d].duration = s.sessions[d].duration
    \/ /\ s.sessions[d] = NoSession /\ v.sessions[d] # NoSession
       /\ Interval(v.sessions[d].at, v.sessions[d].duration) \in StartPlan(s, d)

\* ... and of the one-off.
OneOffSince(o, p) ==
    \/ p = o
    \/ p.cancelled
    \/ /\ p.at = o.at /\ p.cancelled = o.cancelled
       /\ <<o.status, p.status>> \in
            {<<"scheduled", "active">>, <<"scheduled", "ended">>, <<"active", "ended">>}

\* The tables v are those of s after starts, ends and cancellations only, the
\* commands that no serializable transaction notices.
Since(s, v) ==
    /\ v.schedule = s.schedule /\ v.revisions = s.revisions
    /\ \A d \in Dates : v.exceptions[d] = s.exceptions[d] \/ v.exceptions[d].cancelled
    /\ \A d \in Dates : StartedSince(s, v, d)
    /\ OneOffSince(s.oneoff, v.oneoff)

\* An open transaction that was not overtaken knows the tables up to those,
\* unless the series was stopped behind its back.
Follows(k) ==
    k.phase = "open" /\ ~k.overtaken =>
      /\ k.snap.schedule.version <= db.schedule.version
      /\ k.snap.schedule.version = db.schedule.version => Since(k.snap, db)

Inv ==
    /\ Tables(db)
    /\ client = [c \in Managers |-> client[c]]
    /\ \A c \in Managers : Client(client[c]) /\ Follows(client[c])

\* HistoryIsKept, as a relation of the tables before and after a step.
Kept(v, w) ==
    /\ \A d \in Dates : v.sessions[d] # NoSession =>
         \/ w.sessions[d] = v.sessions[d]
         \/ w.sessions[d] = [v.sessions[d] EXCEPT !.status = "ended"]
    /\ \A d \in Dates : v.sessions[d] # NoSession =>
         w.exceptions[d].cancelled = v.exceptions[d].cancelled
    /\ v.oneoff.status \in {"active", "ended"} =>
         \/ w.oneoff = v.oneoff
         \/ w.oneoff = [v.oneoff EXCEPT !.status = "ended"]

LEMMA SinceReflexive == ASSUME NEW v PROVE Since(v, v)
BY DEF Since, StartedSince, OneOffSince

LEMMA SinceTransitive ==
    ASSUME NEW s, NEW v, NEW w, Tables(v), Tables(w), Since(s, v), Since(v, w)
    PROVE  Since(s, w)
<1>1. w.schedule = s.schedule /\ w.revisions = s.revisions
  BY DEF Since
<1>2. ASSUME NEW d \in Dates
      PROVE  w.exceptions[d] = s.exceptions[d] \/ w.exceptions[d].cancelled
  BY DEF Since
<1>3. ASSUME NEW d \in Dates PROVE StartedSince(s, w, d)
  <2>1. StartedSince(s, v, d) /\ StartedSince(v, w, d) /\ SessionRow(v.sessions[d])
    BY DEF Since, Tables, Occurrences
  <2>2. CASE w.sessions[d] = v.sessions[d]
    BY <2>1, <2>2 DEF StartedSince
  <2>3. CASE v.sessions[d] = s.sessions[d]
    <3>1. CASE v.sessions[d] = NoSession /\ w.sessions[d] # NoSession
               /\ Interval(w.sessions[d].at, w.sessions[d].duration) \in StartPlan(v, d)
      <4>1. ~v.exceptions[d].cancelled
        BY <3>1 DEF StartPlan
      <4>2. v.exceptions[d] = s.exceptions[d]
        BY <4>1 DEF Since
      <4>3. StartPlan(v, d) = StartPlan(s, d)
        BY <4>2 DEF Since, StartPlan, GoverningRecord, DateIsStopped
      <4> QED BY <2>3, <3>1, <4>3 DEF StartedSince
    <3>2. CASE ~(v.sessions[d] = NoSession /\ w.sessions[d] # NoSession
                 /\ Interval(w.sessions[d].at, w.sessions[d].duration) \in StartPlan(v, d))
      BY <2>1, <2>3, <3>2 DEF StartedSince
    <3> QED BY <3>1, <3>2
  <2>4. CASE w.sessions[d] # v.sessions[d] /\ v.sessions[d] # s.sessions[d]
    <3>1. v.sessions[d] # NoSession
      <4>1. NoSession.status = "none"
        BY DEF NoSession
      <4> QED BY <2>1, <2>4, <4>1 DEF StartedSince
    <3>2. /\ v.sessions[d].status = "active" /\ w.sessions[d].status = "ended"
          /\ w.sessions[d].at = v.sessions[d].at
          /\ w.sessions[d].duration = v.sessions[d].duration
      BY <2>1, <2>4, <3>1 DEF StartedSince
    <3>3. /\ s.sessions[d] = NoSession
          /\ Interval(v.sessions[d].at, v.sessions[d].duration) \in StartPlan(s, d)
      BY <2>1, <2>4, <3>2 DEF StartedSince
    <3>4. w.sessions[d] # NoSession
      BY <3>2 DEF NoSession
    <3> QED BY <3>2, <3>3, <3>4 DEF StartedSince
  <2> QED BY <2>2, <2>3, <2>4
<1>4. OneOffSince(s.oneoff, w.oneoff)
  <2>1. OneOffSince(s.oneoff, v.oneoff) /\ OneOffSince(v.oneoff, w.oneoff)
    BY DEF Since
  <2>2. v.oneoff.cancelled \in BOOLEAN /\ w.oneoff.cancelled \in BOOLEAN
    BY DEF Tables, OneOffRow
  <2> QED BY <2>1, <2>2 DEF OneOffSince
<1> QED BY <1>1, <1>2, <1>3, <1>4 DEF Since
-----------------------------------------------------------------------------
(* The commands                                                             *)

\* What a committed command may do to the tables.
Effect(c) ==
    /\ Tables(db') /\ Kept(db, db')
    /\ db.schedule.version <= db'.schedule.version
    /\ \/ IsSerializable(client[c].cmd)
       \/ db.schedule.version < db'.schedule.version
       \/ Since(db, db')

\* What a command works on: a snapshot whose rows nobody changed, or the tables.
LEMMA RunsOn ==
    ASSUME Inv, NEW c \in Managers, NEW op, Runs(c, op)
    PROVE  /\ client[c].cmd.op = op /\ Command(client[c].cmd) /\ Tables(View(c))
           /\ IsSerializable(client[c].cmd) =>
                /\ client[c].phase = "open" /\ View(c) = client[c].snap
                /\ ~client[c].overtaken /\ ~RowChanged(client[c].cmd, View(c))
           /\ ~IsSerializable(client[c].cmd) => View(c) = db
<1>1. client[c].cmd.op = op /\ client[c].phase \in {"sent", "open"} /\ Client(client[c])
  BY DEF Inv, Runs
<1>2. Command(client[c].cmd)
  BY <1>1 DEF Client, Idle
<1>3. CASE IsSerializable(client[c].cmd)
  <2>1. client[c].phase = "open" /\ ~SerializationFailure(c)
    BY <1>3 DEF Runs
  <2>2. Tables(client[c].snap)
    BY <1>1, <2>1 DEF Client, Idle
  <2> QED BY <1>1, <1>2, <1>3, <2>1, <2>2 DEF View, SerializationFailure
<1>4. CASE ~IsSerializable(client[c].cmd)
  <2>1. client[c].phase = "sent"
    BY <1>4 DEF Runs
  <2> QED BY <1>1, <1>2, <1>4, <2>1 DEF View, Inv
<1> QED BY <1>3, <1>4

\* No session of an occurrence is ever merely scheduled, so a changed or
\* stopped series leaves the sessions alone.
LEMMA FollowedSessions ==
    ASSUME NEW v, Tables(v), NEW new, new.sessions = [d \in Dates |-> new.sessions[d]]
    PROVE  FollowSeries(v, new) = [new EXCEPT !.sessions = new.sessions]
<1>1. ASSUME NEW d \in Dates PROVE v.sessions[d].status # "scheduled"
  <2> PICK s : s = v.sessions[d]
    OBVIOUS
  <2>1. SessionRow(s)
    BY DEF Tables, Occurrences
  <2>2. s.status \in {"none", "active", "ended"}
    BY <2>1 DEF SessionRow, NoSession
  <2> QED BY <2>2
<1> QED BY <1>1 DEF FollowSeries

\* Exceptions of a superseded part of the series become plain again.
LEMMA PlainAgain ==
    ASSUME Tables(db), NEW dates
    PROVE  /\ WithoutExceptions(dates) = [d \in Dates |-> WithoutExceptions(dates)[d]]
           /\ \A d \in Dates :
                /\ ExceptionRow(WithoutExceptions(dates)[d])
                /\ WithoutExceptions(dates)[d].cancelled => db.exceptions[d].cancelled
<1>1. ExceptionRow(NoException) /\ ~NoException.cancelled
  BY DEF ExceptionRow, NoException
<1> QED BY <1>1 DEF WithoutExceptions, Tables, Occurrences

\* A series with other revisions or another stop boundary keeps its sessions.
LEMMA SeriesReplaced ==
    ASSUME Tables(db), NEW w, NEW dates,
           w = [schedule |-> w.schedule, revisions |-> w.revisions,
                exceptions |-> WithoutExceptions(dates),
                sessions |-> db.sessions, oneoff |-> db.oneoff],
           Series(w)
    PROVE  Tables(w) /\ Kept(db, w)
<1>1. w.exceptions = WithoutExceptions(dates) /\ w.sessions = db.sessions /\ w.oneoff = db.oneoff
  OBVIOUS
<1>2. /\ w.exceptions = [d \in Dates |-> w.exceptions[d]]
      /\ \A d \in Dates : /\ ExceptionRow(w.exceptions[d])
                          /\ w.exceptions[d].cancelled => db.exceptions[d].cancelled
  BY <1>1, PlainAgain
<1>3. Occurrences(w)
  BY <1>1, <1>2 DEF Occurrences, Tables
<1>4. Tables(w)
  BY <1>1, <1>3 DEF Tables
<1>5. \A d \in Dates : db.sessions[d] # NoSession => ~db.exceptions[d].cancelled
                          /\ db.exceptions[d].cancelled \in BOOLEAN
                          /\ w.exceptions[d].cancelled \in BOOLEAN
  BY <1>2 DEF Tables, Occurrences, ExceptionRow
<1> QED BY <1>1, <1>2, <1>4, <1>5 DEF Kept

LEMMA PlanRows == ASSUME NEW p \in Plans PROVE PlanRow(p)
BY SentPlans DEF PlanRow

LEMMA CreateEffect ==
    ASSUME Inv, NEW c \in Managers, CreateSchedule(c)
    PROVE  Effect(c)
<1> DEFINE r == Revision(1, client[c].cmd.plan.anchor, client[c].cmd.plan)
<1>1. Runs(c, "create") /\ db.schedule = NoSchedule /\ ValidNewPlan(r) /\ db' = Created(r)
  BY DEF CreateSchedule, Commit
<1>2. client[c].cmd.op = "create" /\ client[c].cmd.plan \in Plans
  BY <1>1, RunsOn DEF Command
<1>3. /\ r.version = 1 /\ r.effective = client[c].cmd.plan.anchor /\ r.plan = client[c].cmd.plan
      /\ ValidPattern(r)
  BY <1>1 DEF Revision, ValidNewPlan
<1> HIDE DEF r
<1>4. RevisionRow(r)
  BY <1>2, <1>3, PlanRows DEF RevisionRow, PlanRow
<1>5. Tables(db)
  BY DEF Inv
<1> PICK w : w = db'
  OBVIOUS
<1>6. w = [schedule |-> [version |-> 1, stopped |-> NoDate], revisions |-> {r},
           exceptions |-> db.exceptions, sessions |-> db.sessions, oneoff |-> db.oneoff]
  <2> PICK old, rv, ex, se, oo :
        db = [schedule |-> old, revisions |-> rv, exceptions |-> ex, sessions |-> se, oneoff |-> oo]
    BY <1>5 DEF Tables
  <2>1. old = [version |-> 0, stopped |-> NoDate]
    BY <1>1 DEF NoSchedule
  <2>2. [old EXCEPT !.version = 1] = [version |-> 1, stopped |-> NoDate]
    BY <2>1
  <2>3. w = [db EXCEPT !.schedule = [old EXCEPT !.version = 1], !.revisions = {r}]
    BY <1>1 DEF Created
  <2> QED BY <2>2, <2>3
<1>7. Series(w)
  BY <1>3, <1>4, <1>6 DEF Series
<1>8. Tables(w)
  BY <1>5, <1>6, <1>7 DEF Tables, Occurrences
<1>9. Kept(db, w)
  BY <1>6 DEF Kept
<1>10. db.schedule.version = 0 /\ w.schedule.version = 1
  BY <1>1, <1>6 DEF NoSchedule
<1>11. IsSerializable(client[c].cmd)
  BY <1>2 DEF IsSerializable
<1> QED BY <1>8, <1>9, <1>10, <1>11 DEF Effect

LEMMA ChangeEffect ==
    ASSUME Inv, NEW c \in Managers, ChangeSchedule(c)
    PROVE  Effect(c)
<1> PICK v, cmd, r : v = View(c) /\ cmd = client[c].cmd /\ r = Revision(cmd.expected + 1, cmd.from, cmd.plan)
  OBVIOUS
<1>1. /\ Runs(c, "change") /\ v.schedule.version = cmd.expected /\ ValidNewPlan(r)
      /\ db' = FollowSeries(v, Appended(v, r))
  BY DEF ChangeSchedule, Commit
<1>2. cmd.op = "change" /\ Command(cmd) /\ Tables(v)
  BY <1>1, RunsOn
<1>3. IsSerializable(cmd)
  BY <1>2 DEF IsSerializable
<1>4. v.schedule = db.schedule
  <2>1. ~RowChanged(cmd, v)
    BY <1>1, <1>3, RunsOn
  <2> QED BY <1>2, <2>1 DEF RowChanged
<1>5. Tables(db)
  BY DEF Inv
<1>6. cmd.expected = db.schedule.version /\ db.schedule.version \in Nat
  BY <1>1, <1>4, <1>5 DEF Tables, Series
<1>7. /\ r.version = db.schedule.version + 1 /\ r.effective = cmd.from /\ r.plan = cmd.plan
      /\ ValidPattern(r)
  BY <1>1, <1>6 DEF Revision, ValidNewPlan
<1>8. RevisionRow(r)
  <2>1. cmd.plan \in Plans /\ cmd.from \in Nat
    BY <1>2, SentPlans DEF Command
  <2> QED BY <1>6, <1>7, <2>1, PlanRows DEF RevisionRow
<1> PICK w, dates : w = db' /\ dates = Superseded(v, r.effective)
  OBVIOUS
<1>9. Appended(v, r) =
        [schedule |-> [version |-> db.schedule.version + 1, stopped |-> db.schedule.stopped],
         revisions |-> db.revisions \union {r}, exceptions |-> WithoutExceptions(dates),
         sessions |-> db.sessions, oneoff |-> db.oneoff]
  <2>1. Appended(v, r) = [db EXCEPT !.schedule.version = @ + 1, !.revisions = @ \union {r},
                                    !.exceptions = WithoutExceptions(dates)]
    BY DEF Appended
  <2> PICK old, rv, ex, se, oo :
        db = [schedule |-> old, revisions |-> rv, exceptions |-> ex, sessions |-> se, oneoff |-> oo]
    BY <1>5 DEF Tables
  <2>2. old = [version |-> old.version, stopped |-> old.stopped]
    BY <1>5 DEF Tables, Series
  <2>3. [old EXCEPT !.version = @ + 1] = [version |-> old.version + 1, stopped |-> old.stopped]
    BY <2>2
  <2>4. Appended(v, r) = [db EXCEPT !.schedule = [old EXCEPT !.version = @ + 1],
                                    !.revisions = rv \union {r},
                                    !.exceptions = WithoutExceptions(dates)]
    BY <2>1
  <2> QED BY <2>3, <2>4
<1>10. w = Appended(v, r)
  <2>1. Appended(v, r).sessions = [d \in Dates |-> Appended(v, r).sessions[d]]
    BY <1>5, <1>9 DEF Tables, Occurrences
  <2>2. FollowSeries(v, Appended(v, r)) = [Appended(v, r) EXCEPT !.sessions = Appended(v, r).sessions]
    BY <1>2, <2>1, FollowedSessions
  <2> QED BY <1>1, <1>9, <2>2
<1>11. /\ w.schedule = [version |-> db.schedule.version + 1, stopped |-> db.schedule.stopped]
       /\ w.revisions = db.revisions \union {r}
  BY <1>9, <1>10
<1>12. Series(w)
  <2>1. /\ w.schedule.version = db.schedule.version + 1 /\ w.schedule.stopped = db.schedule.stopped
        /\ db.schedule.stopped \in Nat \union {NoDate}
    BY <1>5, <1>11 DEF Series, Tables
  <2>2. ASSUME NEW q \in w.revisions
        PROVE  RevisionRow(q) /\ q.version <= w.schedule.version
    <3>1. CASE q = r
      BY <1>6, <1>7, <1>8, <2>1, <3>1
    <3>2. CASE q \in db.revisions
      <4>1. RevisionRow(q) /\ q.version <= db.schedule.version
        BY <1>5, <3>2 DEF Series, Tables
      <4>2. q.version \in Nat
        BY <4>1 DEF RevisionRow
      <4> QED BY <1>6, <2>1, <4>1, <4>2
    <3> QED BY <1>11, <3>1, <3>2
  <2>3. ASSUME NEW q \in db.revisions PROVE q.version # r.version
    <3>1. q.version \in Nat /\ q.version <= db.schedule.version
      BY <1>5 DEF Series, Tables, RevisionRow
    <3> QED BY <1>6, <1>7, <3>1
  <2>4. ASSUME NEW q \in w.revisions, NEW x \in w.revisions, q.version = x.version PROVE q = x
    <3>1. CASE q \in db.revisions /\ x \in db.revisions
      BY <1>5, <2>4, <3>1 DEF Series, Tables
    <3> QED BY <1>11, <2>3, <2>4, <3>1
  <2> QED BY <1>6, <1>11, <2>1, <2>2, <2>4 DEF Series
<1>13. Tables(w) /\ Kept(db, w)
  BY <1>5, <1>9, <1>10, <1>11, <1>12, SeriesReplaced
<1> QED BY <1>3, <1>6, <1>11, <1>13 DEF Effect

LEMMA StopEffect ==
    ASSUME Inv, NEW c \in Managers, StopSchedule(c)
    PROVE  Effect(c)
<1> PICK cmd : cmd = client[c].cmd
  OBVIOUS
<1>1. Runs(c, "stop") /\ db' = FollowSeries(db, Stopped(cmd.from))
  BY DEF StopSchedule, Commit
<1>2. cmd.op = "stop" /\ Command(cmd)
  BY <1>1, RunsOn
<1>3. cmd.from \in Nat
  BY <1>2, SentPlans DEF Command
<1>4. Tables(db) /\ db.schedule.version \in Nat
  BY DEF Inv, Tables, Series
<1> PICK w, dates : w = db' /\ dates = Superseded(db, cmd.from)
  OBVIOUS
<1>5. Stopped(cmd.from) =
        [schedule |-> [version |-> db.schedule.version + 1, stopped |-> cmd.from],
         revisions |-> db.revisions, exceptions |-> WithoutExceptions(dates),
         sessions |-> db.sessions, oneoff |-> db.oneoff]
  <2>1. Stopped(cmd.from) =
          [db EXCEPT !.schedule = [version |-> @.version + 1, stopped |-> cmd.from],
                     !.exceptions = WithoutExceptions(dates)]
    BY DEF Stopped
  <2> QED BY <1>4, <2>1 DEF Tables, Series
<1>6. w = Stopped(cmd.from)
  <2>1. Stopped(cmd.from).sessions = [d \in Dates |-> Stopped(cmd.from).sessions[d]]
    BY <1>4, <1>5 DEF Tables, Occurrences
  <2>2. FollowSeries(db, Stopped(cmd.from))
          = [Stopped(cmd.from) EXCEPT !.sessions = Stopped(cmd.from).sessions]
    BY <1>4, <2>1, FollowedSessions
  <2> QED BY <1>1, <1>5, <2>2
<1>7. /\ w.schedule = [version |-> db.schedule.version + 1, stopped |-> cmd.from]
      /\ w.revisions = db.revisions
  BY <1>5, <1>6
<1>8. Series(w)
  <2>1. w.schedule.version = db.schedule.version + 1 /\ w.schedule.stopped = cmd.from
    BY <1>7
  <2>2. ASSUME NEW q \in w.revisions
        PROVE  RevisionRow(q) /\ q.version <= w.schedule.version
    <3>1. RevisionRow(q) /\ q.version <= db.schedule.version
      BY <1>4, <1>7 DEF Series, Tables
    <3>2. q.version \in Nat
      BY <3>1 DEF RevisionRow
    <3> QED BY <1>4, <2>1, <3>1, <3>2
  <2>3. \A q, x \in w.revisions : q.version = x.version => q = x
    BY <1>4, <1>7 DEF Series, Tables
  <2> QED BY <1>3, <1>4, <1>7, <2>1, <2>2, <2>3 DEF Series
<1>9. Tables(w) /\ Kept(db, w)
  BY <1>4, <1>5, <1>6, <1>7, <1>8, SeriesReplaced
<1> QED BY <1>4, <1>7, <1>9 DEF Effect

\* The interval of an occurrence begins on its effective date and is not longer
\* than the longest plan.
LEMMA ResolvedInterval ==
    ASSUME NEW r, RevisionRow(r), NEW e, ExceptionRow(e), NEW d \in Nat
    PROVE  \E clock \in 0 .. SlotsPerDay - 1, duration \in 1 .. MaxDuration :
             /\ Resolved(r, e, d) =
                  Interval(SlotsPerDay * EffectiveDate(e, d) + clock, duration)
             /\ EffectiveDate(e, d) \in Nat
<1>1. EffectiveDate(e, d) \in Nat
  BY DEF ExceptionRow, EffectiveDate
<1>2. CASE e.times = <<>>
  <2>1. Resolved(r, e, d) =
          Interval(SlotsPerDay * EffectiveDate(e, d) + r.plan.clock, r.plan.duration)
    BY <1>2 DEF Resolved, ResolveStart
  <2>2. r.plan.clock \in 0 .. SlotsPerDay - 1 /\ r.plan.duration \in 1 .. MaxDuration
    BY DEF RevisionRow, PlanRow, ValidTimes
  <2> QED BY <1>1, <2>1, <2>2
<1>3. CASE e.times # <<>>
  <2>1. Resolved(r, e, d) =
          Interval(SlotsPerDay * EffectiveDate(e, d) + e.times[1], e.times[2])
    BY <1>3 DEF Resolved, ResolveStart
  <2>2. e.times[1] \in 0 .. SlotsPerDay - 1 /\ e.times[2] \in 1 .. MaxDuration
    BY <1>3 DEF ExceptionRow, ValidTimes
  <2> QED BY <1>1, <2>1, <2>2
<1> QED BY <1>2, <1>3

LEMMA OccurrenceEffect ==
    ASSUME Inv, NEW c \in Managers, ChangeOccurrence(c)
    PROVE  Effect(c)
<1> PICK v, cmd, d : v = View(c) /\ cmd = client[c].cmd /\ d = cmd.date
  OBVIOUS
<1> PICK e : e = Patched(v.exceptions[d], cmd.patch)
  OBVIOUS
<1>1. Runs(c, "occurrence") /\ Unstarted(v, d)
  BY DEF ChangeOccurrence
<1>2. PICK i : db' = [db EXCEPT !.exceptions[d] = e,
                        !.sessions[d] = IF v.sessions[d] = NoSession THEN @
                                        ELSE Rewritten(@, i, e.cancelled)]
  BY DEF ChangeOccurrence, Commit
<1>3. cmd.op = "occurrence" /\ cmd.patch \in Patches /\ Tables(v) /\ Tables(db)
  BY <1>1, RunsOn DEF Command, Inv
<1>4. d \in Dates => v.sessions[d] = NoSession
  <2>1. d \in Dates => SessionRow(v.sessions[d])
    BY <1>3 DEF Tables, Occurrences
  <2> QED BY <1>1, <2>1 DEF SessionRow, Unstarted
<1> PICK w : w = db'
  OBVIOUS
<1>5. w = [schedule |-> db.schedule, revisions |-> db.revisions,
           exceptions |-> [db.exceptions EXCEPT ![d] = e],
           sessions |-> db.sessions, oneoff |-> db.oneoff]
  <2> PICK sc, rv, ex, se, oo :
        db = [schedule |-> sc, revisions |-> rv, exceptions |-> ex, sessions |-> se, oneoff |-> oo]
    BY <1>3 DEF Tables
  <2>1. ex = [x \in Dates |-> ex[x]] /\ se = [x \in Dates |-> se[x]]
    BY <1>3 DEF Tables, Occurrences
  <2>2. [se EXCEPT ![d] = IF v.sessions[d] = NoSession THEN @ ELSE Rewritten(@, i, e.cancelled)] = se
    BY <1>4, <2>1
  <2>3. w = [db EXCEPT !.exceptions = [ex EXCEPT ![d] = e],
                       !.sessions = [se EXCEPT ![d] = IF v.sessions[d] = NoSession THEN @
                                                      ELSE Rewritten(@, i, e.cancelled)]]
    BY <1>2
  <2> QED BY <2>2, <2>3
<1>6. d \in Dates => ExceptionRow(e)
  <2> SUFFICES ASSUME d \in Dates PROVE ExceptionRow(e)
    OBVIOUS
  <2>1. ExceptionRow(v.exceptions[d])
    BY <1>3 DEF Tables, Occurrences
  <2>2. /\ cmd.patch.moved \in Nat \union {NoDate}
        /\ cmd.patch.times # <<>> => ValidTimes(cmd.patch.times[1], cmd.patch.times[2])
    BY <1>3, SentPlans
  <2>3. e.version \in Nat \ {0} /\ e.cancelled \in BOOLEAN
    <3>1. PICK old : old = v.exceptions[d] /\ ExceptionRow(old)
      BY <2>1
    <3>2. e.version = old.version + 1 /\ old.version \in Nat /\ old.cancelled \in BOOLEAN
      BY <3>1 DEF Patched, ExceptionRow
    <3>3. CASE cmd.patch.cancel = "keep"
      <4>1. e.cancelled = old.cancelled
        BY <3>1, <3>3 DEF Patched
      <4> QED BY <3>2, <4>1
    <3>4. CASE cmd.patch.cancel # "keep"
      <4>1. e.cancelled = (cmd.patch.cancel = "yes")
        BY <3>1, <3>4 DEF Patched
      <4>2. e.cancelled \in BOOLEAN
        BY <4>1
      <4> QED BY <3>2, <4>2
    <3> QED BY <3>3, <3>4
  <2>4. /\ e.moved \in Nat \union {NoDate}
        /\ e.times # <<>> => ValidTimes(e.times[1], e.times[2])
    BY <2>1, <2>2 DEF Patched, ExceptionRow
  <2> QED BY <2>3, <2>4 DEF ExceptionRow
\* Behind an edit's back the occurrence may have started, and is not cancelled then.
<1>7. ASSUME d \in Dates, db.sessions[d] # NoSession
      PROVE  IsSerializable(cmd) /\ ~db.exceptions[d].cancelled /\ ~e.cancelled
  <2>1. IsSerializable(cmd)
    BY <1>1, <1>4, <1>7, RunsOn
  <2>2. v.exceptions[d] = db.exceptions[d]
    BY <1>1, <1>3, <2>1, RunsOn DEF RowChanged
  <2>3. ~db.exceptions[d].cancelled
    BY <1>3, <1>7 DEF Tables, Occurrences
  <2>4. cmd.patch.cancel # "yes"
    BY <1>3, <2>1 DEF IsSerializable
  <2> QED BY <2>1, <2>2, <2>3, <2>4 DEF Patched
<1>8. /\ w.exceptions = [x \in Dates |-> w.exceptions[x]]
      /\ \A x \in Dates : w.exceptions[x] = IF x = d THEN e ELSE db.exceptions[x]
  BY <1>3, <1>5 DEF Tables, Occurrences
<1>9. Tables(w)
  <2>1. Occurrences(w)
    <3>1. w.sessions = db.sessions /\ Occurrences(db)
      BY <1>3, <1>5 DEF Tables
    <3>2. ASSUME NEW x \in Dates
          PROVE  /\ ExceptionRow(w.exceptions[x]) /\ SessionRow(w.sessions[x])
                 /\ w.sessions[x] # NoSession => ~w.exceptions[x].cancelled
      BY <1>6, <1>7, <1>8, <3>1 DEF Occurrences
    <3>3. w.sessions = [x \in Dates |-> w.sessions[x]]
      BY <3>1 DEF Occurrences
    <3> QED BY <1>8, <3>2, <3>3 DEF Occurrences
  <2>2. Series(w)
    BY <1>3, <1>5 DEF Tables, Series
  <2> QED BY <1>3, <1>5, <2>1, <2>2 DEF Tables
<1>10. Kept(db, w)
  <2>1. ASSUME NEW x \in Dates, db.sessions[x] # NoSession
        PROVE  w.exceptions[x].cancelled = db.exceptions[x].cancelled
    <3>1. CASE x = d
      <4>1. w.exceptions[x].cancelled \in BOOLEAN /\ db.exceptions[x].cancelled \in BOOLEAN
        BY <1>3, <1>9 DEF Tables, Occurrences, ExceptionRow
      <4> QED BY <1>7, <1>8, <2>1, <3>1, <4>1
    <3> QED BY <1>8, <3>1
  <2>2. w.sessions = db.sessions /\ w.oneoff = db.oneoff
    BY <1>5
  <2> QED BY <2>1, <2>2 DEF Kept
<1>11. IsSerializable(cmd) \/ Since(db, w)
  <2> SUFFICES ASSUME ~IsSerializable(cmd) PROVE Since(db, w)
    OBVIOUS
  <2>1. e.cancelled
    BY <1>3 DEF IsSerializable, Patched
  <2> QED BY <1>5, <1>8, <2>1 DEF Since, StartedSince, OneOffSince
<1>12. w.schedule = db.schedule /\ db.schedule.version \in Nat
  BY <1>3, <1>5 DEF Tables, Series
<1> QED BY <1>9, <1>10, <1>11, <1>12 DEF Effect

LEMMA StartEffect ==
    ASSUME Inv, NEW c \in Managers, StartOccurrence(c)
    PROVE  Effect(c)
<1> PICK d : d = client[c].cmd.date
  OBVIOUS
<1>1. PICK i \in StartPlan(db, d) :
        \/ /\ db.sessions[d] = NoSession
           /\ db' = [db EXCEPT !.sessions[d] =
                [status |-> "active", at |-> i.from, duration |-> i.to - i.from,
                 cancelled |-> FALSE]]
        \/ db' = db
  BY DEF StartOccurrence, Commit
<1>2. Tables(db) /\ db.schedule.version \in Nat
  BY DEF Inv, Tables, Series
<1>3. CASE db' = db
  BY <1>2, <1>3, SinceReflexive DEF Effect, Kept
<1>4. CASE /\ db.sessions[d] = NoSession
           /\ db' = [db EXCEPT !.sessions[d] =
                [status |-> "active", at |-> i.from, duration |-> i.to - i.from,
                 cancelled |-> FALSE]]
  <2> PICK w, s : w = db' /\ s = [status |-> "active", at |-> i.from, duration |-> i.to - i.from,
                                  cancelled |-> FALSE]
    OBVIOUS
  <2>1. w = [schedule |-> db.schedule, revisions |-> db.revisions, exceptions |-> db.exceptions,
             sessions |-> [db.sessions EXCEPT ![d] = s], oneoff |-> db.oneoff]
    <3> PICK sc, rv, ex, se, oo :
          db = [schedule |-> sc, revisions |-> rv, exceptions |-> ex, sessions |-> se, oneoff |-> oo]
      BY <1>2 DEF Tables
    <3>1. w = [db EXCEPT !.sessions = [se EXCEPT ![d] = s]]
      BY <1>4
    <3> QED BY <3>1
  <2>2. /\ w.sessions = [x \in Dates |-> w.sessions[x]]
        /\ \A x \in Dates : w.sessions[x] = IF x = d THEN s ELSE db.sessions[x]
    <3> PICK se : se = db.sessions /\ se = [x \in Dates |-> se[x]]
      BY <1>2 DEF Tables, Occurrences
    <3>1. w.sessions = [se EXCEPT ![d] = s]
      BY <2>1
    <3> QED BY <3>1
  <2>3. SessionRow(s) /\ s # NoSession
    BY DEF SessionRow, NoSession
  <2>4. ~db.exceptions[d].cancelled
    BY <1>1 DEF StartPlan
  <2>5. Tables(w)
    <3>1. Occurrences(w)
      <4>1. w.exceptions = db.exceptions /\ Occurrences(db)
        BY <1>2, <2>1 DEF Tables
      <4>2. ASSUME NEW x \in Dates
            PROVE  /\ ExceptionRow(w.exceptions[x]) /\ SessionRow(w.sessions[x])
                   /\ w.sessions[x] # NoSession => ~w.exceptions[x].cancelled
        BY <2>2, <2>3, <2>4, <4>1 DEF Occurrences
      <4>3. w.exceptions = [x \in Dates |-> w.exceptions[x]]
        BY <4>1 DEF Occurrences
      <4> QED BY <2>2, <4>2, <4>3 DEF Occurrences
    <3>2. Series(w)
      BY <1>2, <2>1 DEF Tables, Series
    <3> QED BY <1>2, <2>1, <3>1, <3>2 DEF Tables
  <2>6. Kept(db, w)
    BY <1>4, <2>1, <2>2 DEF Kept
  <2>7. d \in Dates => Interval(s.at, s.duration) = i
    <3> SUFFICES ASSUME d \in Dates PROVE Interval(s.at, s.duration) = i
      OBVIOUS
    <3>1. PICK r \in db.revisions : i = Resolved(r, db.exceptions[d], d)
      BY <1>1 DEF StartPlan, GoverningRecord, SelectRevision
    <3>2. RevisionRow(r) /\ ExceptionRow(db.exceptions[d]) /\ d \in Nat
      BY <1>2 DEF Tables, Series, Occurrences, Dates
    <3> PICK e : e = db.exceptions[d]
      OBVIOUS
    <3>3. PICK clock \in 0 .. SlotsPerDay - 1, duration \in 1 .. MaxDuration :
            /\ i = Interval(SlotsPerDay * EffectiveDate(e, d) + clock, duration)
            /\ EffectiveDate(e, d) \in Nat
      BY <3>1, <3>2, ResolvedInterval
    <3> PICK at : at = SlotsPerDay * EffectiveDate(e, d) + clock
      OBVIOUS
    <3>4. at \in Int
      BY <3>3, SchedulingConstants
    <3>5. i.from = at /\ i.to = at + duration
      BY <3>3 DEF Interval
    <3>6. i.to - i.from = duration
      BY <3>4, <3>5
    <3> QED BY <3>3, <3>5, <3>6
  <2>8. ASSUME NEW x \in Dates PROVE StartedSince(db, w, x)
    <3>1. CASE x = d
      BY <1>1, <1>4, <2>2, <2>3, <2>7, <3>1 DEF StartedSince
    <3>2. CASE x # d
      BY <2>2, <3>2 DEF StartedSince
    <3> QED BY <3>1, <3>2
  <2>9. Since(db, w)
    BY <2>1, <2>8 DEF Since, OneOffSince
  <2>10. w.schedule = db.schedule
    BY <2>1
  <2> QED BY <1>2, <2>5, <2>6, <2>9, <2>10 DEF Effect
<1> QED BY <1>1, <1>3, <1>4

\* Only the one-off changes, and only while it has not started.
LEMMA OneOffChanged ==
    ASSUME Tables(db), NEW o, OneOffRow(o), db.oneoff.status \in {"none", "scheduled"},
           NEW w, w = [schedule |-> db.schedule, revisions |-> db.revisions,
                       exceptions |-> db.exceptions, sessions |-> db.sessions, oneoff |-> o]
    PROVE  /\ Tables(w) /\ Kept(db, w) /\ db.schedule.version <= w.schedule.version
           /\ OneOffSince(db.oneoff, o) => Since(db, w)
<1>1. Tables(w)
  BY DEF Tables, Series, Occurrences
<1>2. Kept(db, w)
  BY DEF Kept
<1>3. db.schedule.version <= w.schedule.version
  BY DEF Tables, Series
<1> QED BY <1>1, <1>2, <1>3 DEF Since, StartedSince

LEMMA OneOffFields ==
    ASSUME Tables(db), NEW o, NEW w, w = [db EXCEPT !.oneoff = o]
    PROVE  w = [schedule |-> db.schedule, revisions |-> db.revisions,
                exceptions |-> db.exceptions, sessions |-> db.sessions, oneoff |-> o]
<1> PICK sc, rv, ex, se, oo :
      db = [schedule |-> sc, revisions |-> rv, exceptions |-> ex, sessions |-> se, oneoff |-> oo]
  BY DEF Tables
<1> QED OBVIOUS

LEMMA OneOffEffect ==
    ASSUME Inv, NEW c \in Managers,
           CreateOneOff(c) \/ ChangeOneOff(c) \/ RestoreOneOff(c) \/ CancelOneOff(c)
    PROVE  Effect(c)
<1> PICK v, cmd, w, x : v = View(c) /\ cmd = client[c].cmd /\ w = db' /\ x = db.oneoff
  OBVIOUS
<1>1. Tables(db) /\ OneOffRow(x)
  BY DEF Inv, Tables
<1>2. CASE CreateOneOff(c)
  <2> PICK o : o = [status |-> "scheduled", at |-> cmd.at, cancelled |-> FALSE, version |-> 1]
    OBVIOUS
  <2>1. Runs(c, "newOneoff") /\ w = [db EXCEPT !.oneoff = o] /\ x.status = "none"
    BY <1>2 DEF CreateOneOff, Commit, NoOneOff
  <2>2. IsSerializable(cmd)
    BY <2>1, RunsOn DEF IsSerializable
  <2>3. OneOffRow(o)
    BY DEF OneOffRow
  <2>4. w = [schedule |-> db.schedule, revisions |-> db.revisions,
             exceptions |-> db.exceptions, sessions |-> db.sessions, oneoff |-> o]
    BY <1>1, <2>1, OneOffFields
  <2> QED BY <1>1, <2>1, <2>2, <2>3, <2>4, OneOffChanged DEF Effect
<1>3. CASE ChangeOneOff(c) \/ RestoreOneOff(c)
  <2>1. PICK o : /\ o = [x EXCEPT !.at = cmd.at, !.version = @ + 1]
                      \/ o = [x EXCEPT !.cancelled = FALSE, !.version = @ + 1]
                 /\ w = [db EXCEPT !.oneoff = o]
    <3>1. CASE ChangeOneOff(c)
      BY <3>1 DEF ChangeOneOff, Commit
    <3>2. CASE RestoreOneOff(c)
      BY <3>2 DEF RestoreOneOff, Commit
    <3> QED BY <1>3, <3>1, <3>2
  <2>2. PICK op \in {"oneoff", "restoreOneoff"} : Runs(c, op) /\ OneOffLocked(v, cmd)
    BY <1>3 DEF ChangeOneOff, RestoreOneOff
  <2>3. cmd.op = op
    BY <2>2, RunsOn
  <2>4. IsSerializable(cmd)
    BY <2>3 DEF IsSerializable
  <2>5. v.oneoff = x
    BY <2>2, <2>3, <2>4, RunsOn DEF RowChanged
  <2>6. x.status = "scheduled"
    BY <2>2, <2>5 DEF OneOffLocked
  <2>7. OneOffRow(o)
    BY <1>1, <2>1 DEF OneOffRow
  <2>8. w = [schedule |-> db.schedule, revisions |-> db.revisions,
             exceptions |-> db.exceptions, sessions |-> db.sessions, oneoff |-> o]
    BY <1>1, <2>1, OneOffFields
  <2> QED BY <1>1, <2>4, <2>6, <2>7, <2>8, OneOffChanged DEF Effect
<1>4. CASE CancelOneOff(c)
  <2> PICK o : o = [x EXCEPT !.cancelled = TRUE, !.version = @ + 1]
    OBVIOUS
  <2>1. x.status = "scheduled" /\ w = [db EXCEPT !.oneoff = o]
    BY <1>4 DEF CancelOneOff, Commit, OneOffLocked
  <2>2. OneOffRow(o) /\ o.cancelled
    BY <1>1 DEF OneOffRow
  <2>3. w = [schedule |-> db.schedule, revisions |-> db.revisions,
             exceptions |-> db.exceptions, sessions |-> db.sessions, oneoff |-> o]
    BY <1>1, <2>1, OneOffFields
  <2> QED BY <1>1, <2>1, <2>2, <2>3, OneOffChanged DEF Effect, OneOffSince
<1> QED BY <1>2, <1>3, <1>4
-----------------------------------------------------------------------------
(* The invariant                                                            *)

LEMMA InvInit == Init => Inv
<1> SUFFICES ASSUME Init PROVE Inv
  OBVIOUS
<1>1. db.schedule = NoSchedule /\ db.revisions = {} /\ db.oneoff = NoOneOff
  BY DEF Init
<1>2. Series(db)
  BY <1>1 DEF Series, NoSchedule
<1>3. Occurrences(db)
  <2>1. ExceptionRow(NoException) /\ SessionRow(NoSession)
    BY DEF ExceptionRow, NoException, SessionRow
  <2> QED BY <2>1 DEF Init, Occurrences
<1>4. OneOffRow(db.oneoff)
  BY <1>1 DEF OneOffRow, NoOneOff
<1>5. Tables(db)
  BY <1>2, <1>3, <1>4 DEF Tables, Init
<1>6. \A c \in Managers : client[c] = Idle
  BY DEF Init
<1>7. client = [c \in Managers |-> client[c]]
  BY DEF Init
<1> QED BY <1>5, <1>6, <1>7 DEF Inv, Client, Follows, Idle

\* The tables move on and other transactions are overtaken, or may ignore it.
LEMMA FollowsOn ==
    ASSUME Inv, NEW x \in Managers, client[x].phase = "open", ~client[x].overtaken,
           Tables(db'), db.schedule.version <= db'.schedule.version,
           db.schedule.version < db'.schedule.version \/ Since(db, db')
    PROVE  /\ client[x].snap.schedule.version <= db'.schedule.version
           /\ client[x].snap.schedule.version = db'.schedule.version => Since(client[x].snap, db')
<1> PICK s, v, w : s = client[x].snap /\ v = db /\ w = db'
  OBVIOUS
<1>1. Tables(s) /\ Tables(v) /\ Tables(w)
  BY DEF Inv, Client, Idle
<1>2. s.schedule.version <= v.schedule.version
      /\ (s.schedule.version = v.schedule.version => Since(s, v))
  BY DEF Inv, Follows
<1>3. s.schedule.version \in Nat /\ v.schedule.version \in Nat /\ w.schedule.version \in Nat
  BY <1>1 DEF Tables, Series
<1>4. s.schedule.version <= w.schedule.version
  BY <1>2, <1>3
<1>5. ASSUME s.schedule.version = w.schedule.version PROVE Since(s, w)
  <2>1. Since(v, w) /\ Since(s, v)
    BY <1>2, <1>3, <1>5
  <2> QED BY <1>1, <2>1, SinceTransitive
<1> QED BY <1>4, <1>5

LEMMA CommitInv ==
    ASSUME Inv, NEW c \in Managers, \E new : Commit(c, new), Effect(c)
    PROVE  Inv'
<1>1. PICK answer \in {Idle, [phase |-> "unanswered"]} :
        client' = [x \in Managers |->
           IF x = c THEN answer
           ELSE IF client[x].phase = "open" /\ IsSerializable(client[c].cmd)
           THEN [client[x] EXCEPT !.overtaken = TRUE] ELSE client[x]]
  BY DEF Commit
<1>2. Tables(db') /\ db.schedule.version <= db'.schedule.version
  BY DEF Effect
<1>3. ASSUME NEW x \in Managers PROVE Client(client'[x]) /\ Follows(client[x])'
  <2>1. CASE x = c
    BY <1>1, <2>1 DEF Client, Follows, Idle
  <2>2. CASE x # c /\ client[x].phase = "open" /\ IsSerializable(client[c].cmd)
    <3> PICK k : k = client[x] /\ Client(k) /\ k.phase = "open"
      BY <2>2 DEF Inv
    <3>1. client'[x] = [k EXCEPT !.overtaken = TRUE]
      BY <1>1, <2>2
    <3>2. /\ k = [phase |-> "open", cmd |-> k.cmd, reviewed |-> k.reviewed,
                  attempt |-> k.attempt, snap |-> k.snap, overtaken |-> k.overtaken]
          /\ Command(k.cmd) /\ IsSerializable(k.cmd) /\ Tables(k.snap)
      BY DEF Client, Idle
    <3>3. client'[x] = [phase |-> "open", cmd |-> k.cmd, reviewed |-> k.reviewed,
                        attempt |-> k.attempt, snap |-> k.snap, overtaken |-> TRUE]
      BY <3>1, <3>2
    <3>4. Client(client'[x])
      BY <3>2, <3>3 DEF Client
    <3> QED BY <3>3, <3>4 DEF Follows
  <2>3. CASE x # c /\ ~(client[x].phase = "open" /\ IsSerializable(client[c].cmd))
    <3>1. client'[x] = client[x]
      BY <1>1, <2>3
    <3>2. client[x].phase = "open" =>
            db.schedule.version < db'.schedule.version \/ Since(db, db')
      BY <2>3 DEF Effect
    <3> QED BY <1>2, <3>1, <3>2, FollowsOn DEF Inv, Follows
  <2> QED BY <2>1, <2>2, <2>3
<1>4. client' = [x \in Managers |-> client'[x]]
  BY <1>1
<1> QED BY <1>2, <1>3, <1>4 DEF Inv

\* A client moves on and the tables stay.
LEMMA ClientInv ==
    ASSUME Inv, NEW c \in Managers, NEW k, client' = [client EXCEPT ![c] = k], db' = db,
           Client(k), Follows(k)
    PROVE  Inv'
<1>1. \A x \in Managers : client'[x] = IF x = c THEN k ELSE client[x]
  BY DEF Inv
<1>2. client' = [x \in Managers |-> client'[x]]
  BY DEF Inv
<1>3. \A x \in Managers : Client(client'[x]) /\ Follows(client'[x])
  BY <1>1 DEF Inv
<1> QED BY <1>2, <1>3 DEF Inv, Follows

LEMMA SendInv ==
    ASSUME Inv, NEW c \in Managers, NEW kind, NEW cmd, Send(c, kind, cmd), Command(cmd)
    PROVE  Inv'
<1>1. PICK reviewed : client' = [client EXCEPT ![c] =
           [phase |-> "sent", cmd |-> cmd, reviewed |-> reviewed, attempt |-> 1]]
  BY DEF Send
<1> PICK k : k = [phase |-> "sent", cmd |-> cmd, reviewed |-> reviewed, attempt |-> 1]
  OBVIOUS
<1>2. Client(k) /\ Follows(k)
  BY DEF Client, Follows
<1> QED BY <1>1, <1>2, ClientInv DEF Send

LEMMA SendsInv ==
    ASSUME Inv, NEW c \in Managers,
           \/ SendCreate(c) \/ SendChange(c) \/ SendOccurrence(c) \/ SendStart(c)
           \/ SendNewOneOff(c) \/ SendOneOff(c)
    PROVE  Inv'
<1> SUFFICES \E kind, cmd : Send(c, kind, cmd) /\ Command(cmd)
  BY SendInv
<1>1. CASE SendCreate(c)
  <2>1. PICK p \in Plans : Send(c, "series", [op |-> "create", plan |-> p])
    BY <1>1 DEF SendCreate
  <2>2. Command([op |-> "create", plan |-> p])
    BY DEF Command
  <2> QED BY <2>1, <2>2
<1>2. CASE SendChange(c)
  <2>1. PICK b \in Boundaries :
          \/ \E p \in Plans : Send(c, "series", [op |-> "change", plan |-> p, from |-> b,
                                               expected |-> db.schedule.version])
          \/ Send(c, "series", [op |-> "stop", from |-> b, expected |-> db.schedule.version])
    BY <1>2 DEF SendChange
  <2>2. \A p \in Plans : Command([op |-> "change", plan |-> p, from |-> b,
                                  expected |-> db.schedule.version])
    BY DEF Command
  <2>3. Command([op |-> "stop", from |-> b, expected |-> db.schedule.version])
    BY DEF Command
  <2> QED BY <2>1, <2>2, <2>3
<1>3. CASE SendOccurrence(c)
  <2>1. PICK d \in EditDates, p \in Patches :
          Send(c, "edits", [op |-> "occurrence", date |-> d, patch |-> p, seen |-> Listed(d)])
    BY <1>3 DEF SendOccurrence
  <2>2. Command([op |-> "occurrence", date |-> d, patch |-> p, seen |-> Listed(d)])
    BY DEF Command
  <2> QED BY <2>1, <2>2
<1>4. CASE SendStart(c)
  <2>1. PICK d : Send(c, "starts", [op |-> "start", date |-> d])
    BY <1>4 DEF SendStart
  <2>2. Command([op |-> "start", date |-> d])
    BY DEF Command
  <2> QED BY <2>1, <2>2
<1>5. CASE SendNewOneOff(c)
  <2>1. PICK at : Send(c, "oneoffs", [op |-> "newOneoff", at |-> at])
    BY <1>5 DEF SendNewOneOff
  <2>2. Command([op |-> "newOneoff", at |-> at])
    BY DEF Command
  <2> QED BY <2>1, <2>2
<1>6. CASE SendOneOff(c)
  <2>1. PICK at \in OneOffStarts, op \in {"oneoff", "restoreOneoff", "cancelOneoff"} :
          Send(c, "oneoffs", [op |-> op, at |-> at, expected |-> db.oneoff.version])
    BY <1>6 DEF SendOneOff
  <2>2. Command([op |-> op, at |-> at, expected |-> db.oneoff.version])
    BY DEF Command
  <2> QED BY <2>1, <2>2
<1> QED BY <1>1, <1>2, <1>3, <1>4, <1>5, <1>6

LEMMA TransactionInv ==
    ASSUME Inv, NEW c \in Managers, Begin(c) \/ Retry(c) \/ Refuse(c) \/ Replay(c)
    PROVE  Inv'
<1> PICK k : k = client[c] /\ Client(k)
  BY DEF Inv
<1>1. Client(Idle) /\ Follows(Idle)
  BY DEF Client, Follows, Idle
<1>2. CASE Begin(c)
  <2> PICK n : n = [phase |-> "open", cmd |-> k.cmd, reviewed |-> k.reviewed,
                    attempt |-> k.attempt, snap |-> db, overtaken |-> FALSE]
    OBVIOUS
  <2>1. client' = [client EXCEPT ![c] = n] /\ db' = db
    BY <1>2 DEF Begin, Inv
  <2>2. k.phase = "sent" /\ IsSerializable(k.cmd)
    BY <1>2 DEF Begin
  <2>3. Command(k.cmd)
    BY <2>2 DEF Client, Idle
  <2>4. Tables(db) /\ db.schedule.version \in Nat
    BY DEF Inv, Tables, Series
  <2>5. Client(n)
    BY <2>2, <2>3, <2>4 DEF Client
  <2>6. Follows(n)
    BY <2>4, SinceReflexive DEF Follows
  <2> QED BY <2>1, <2>5, <2>6, ClientInv
<1>3. CASE Retry(c)
  <2> PICK n : n = IF k.attempt < MaxAttempts
                   THEN [phase |-> "sent", cmd |-> k.cmd, reviewed |-> k.reviewed,
                         attempt |-> k.attempt + 1]
                   ELSE Idle
    OBVIOUS
  <2>1. client' = [client EXCEPT ![c] = n] /\ db' = db
    BY <1>3 DEF Retry, Inv
  <2>2. Command(k.cmd)
    BY <1>3 DEF Retry, Client, Idle
  <2>3. Client(n) /\ Follows(n)
    BY <1>1, <2>2 DEF Client, Follows
  <2> QED BY <2>1, <2>3, ClientInv
<1>4. CASE Refuse(c) \/ Replay(c)
  <2>1. client' = [client EXCEPT ![c] = Idle] /\ db' = db
    BY <1>4 DEF Refuse, Replay
  <2> PICK n : n = Idle
    OBVIOUS
  <2> QED BY <1>1, <2>1, ClientInv
<1> QED BY <1>2, <1>3, <1>4

LEMMA EndedRow ==
    ASSUME NEW s, SessionRow(s), s # NoSession, NEW n, n = [s EXCEPT !.status = "ended"]
    PROVE  /\ n.status = "ended" /\ n.at = s.at /\ n.duration = s.duration
           /\ SessionRow(n) /\ n # NoSession
<1> PICK st, at, du : s = [status |-> st, at |-> at, duration |-> du, cancelled |-> FALSE]
  BY DEF SessionRow
<1>1. n = [status |-> "ended", at |-> at, duration |-> du, cancelled |-> FALSE]
  OBVIOUS
<1>2. n.status = "ended" /\ n.at = at /\ n.duration = du
  BY <1>1
<1>3. SessionRow(n)
  BY <1>1, <1>2 DEF SessionRow
<1>4. NoSession.status = "none"
  BY DEF NoSession
<1>5. s.at = at /\ s.duration = du
  OBVIOUS
<1> QED BY <1>2, <1>3, <1>4, <1>5

\* Sessions that live sessions start and end.
LEMMA SessionSteps ==
    ASSUME Inv, StartOneOff \/ EndSession
    PROVE  Tables(db') /\ Kept(db, db') /\ Since(db, db')
           /\ db.schedule.version <= db'.schedule.version
<1>1. Tables(db) /\ OneOffRow(db.oneoff)
  BY DEF Inv, Tables
<1> PICK w, x : w = db' /\ x = db.oneoff
  OBVIOUS
<1>2. ASSUME NEW o, w = [db EXCEPT !.oneoff = o],
             \/ o = [x EXCEPT !.status = "active"] /\ x.status = "scheduled"
             \/ o = [x EXCEPT !.status = "ended"] /\ x.status = "active"
      PROVE  Tables(w) /\ Kept(db, w) /\ Since(db, w) /\ db.schedule.version <= w.schedule.version
  <2>1. OneOffRow(o) /\ OneOffSince(x, o) /\ o.at = x.at
    BY <1>1, <1>2 DEF OneOffRow, OneOffSince
  <2>2. w = [schedule |-> db.schedule, revisions |-> db.revisions,
             exceptions |-> db.exceptions, sessions |-> db.sessions, oneoff |-> o]
    BY <1>1, <1>2, OneOffFields
  <2>3. Tables(w)
    BY <1>1, <2>1, <2>2 DEF Tables, Series, Occurrences
  <2>4. Kept(db, w)
    BY <1>2, <2>2 DEF Kept
  <2>5. Since(db, w)
    BY <2>1, <2>2 DEF Since, StartedSince
  <2>6. db.schedule.version <= w.schedule.version
    BY <1>1, <2>2 DEF Tables, Series
  <2> QED BY <2>3, <2>4, <2>5, <2>6
<1>3. ASSUME NEW d \in Dates, db.sessions[d].status = "active",
             w = [db EXCEPT !.sessions[d].status = "ended"]
      PROVE  Tables(w) /\ Kept(db, w) /\ Since(db, w) /\ db.schedule.version <= w.schedule.version
  <2> PICK s : s = db.sessions[d] /\ SessionRow(s) /\ s # NoSession
    BY <1>1, <1>3 DEF Tables, Occurrences, NoSession
  <2> PICK n : n = [s EXCEPT !.status = "ended"]
    OBVIOUS
  <2>1. /\ n.status = "ended" /\ n.at = s.at /\ n.duration = s.duration
        /\ SessionRow(n) /\ n # NoSession
    BY EndedRow
  <2>2. w = [schedule |-> db.schedule, revisions |-> db.revisions, exceptions |-> db.exceptions,
             sessions |-> [db.sessions EXCEPT ![d] = n], oneoff |-> db.oneoff]
    <3> PICK sc, rv, ex, se, oo :
          db = [schedule |-> sc, revisions |-> rv, exceptions |-> ex, sessions |-> se, oneoff |-> oo]
      BY <1>1 DEF Tables
    <3>1. w = [db EXCEPT !.sessions = [se EXCEPT ![d] = [se[d] EXCEPT !.status = "ended"]]]
      BY <1>3
    <3>2. [se[d] EXCEPT !.status = "ended"] = n
      OBVIOUS
    <3>3. w = [db EXCEPT !.sessions = [se EXCEPT ![d] = n]]
      BY <3>1, <3>2
    <3> QED BY <3>3
  <2>3. /\ w.sessions = [x1 \in Dates |-> w.sessions[x1]]
        /\ \A x1 \in Dates : w.sessions[x1] = IF x1 = d THEN n ELSE db.sessions[x1]
    <3> PICK se : se = db.sessions /\ se = [x1 \in Dates |-> se[x1]]
      BY <1>1 DEF Tables, Occurrences
    <3>1. w.sessions = [se EXCEPT ![d] = n]
      BY <2>2
    <3> QED BY <3>1
  <2>5. Tables(w)
    <3>1. w.exceptions = db.exceptions /\ Occurrences(db)
      BY <1>1, <2>2 DEF Tables
    <3>2. ASSUME NEW x1 \in Dates
          PROVE  /\ ExceptionRow(w.exceptions[x1]) /\ SessionRow(w.sessions[x1])
                 /\ w.sessions[x1] # NoSession => ~w.exceptions[x1].cancelled
      BY <2>1, <2>3, <3>1 DEF Occurrences
    <3>3. Occurrences(w)
      BY <2>3, <3>1, <3>2 DEF Occurrences
    <3>4. Series(w)
      BY <1>1, <2>2 DEF Tables, Series
    <3> QED BY <1>1, <2>2, <3>3, <3>4 DEF Tables
  <2>6. Kept(db, w)
    BY <2>2, <2>3 DEF Kept
  <2>7. ASSUME NEW x1 \in Dates PROVE StartedSince(db, w, x1)
    BY <1>3, <2>1, <2>3 DEF StartedSince
  <2>8. Since(db, w)
    BY <2>2, <2>7 DEF Since, OneOffSince
  <2>9. db.schedule.version <= w.schedule.version
    BY <1>1, <2>2 DEF Tables, Series
  <2> QED BY <2>5, <2>6, <2>8, <2>9
<1>4. CASE StartOneOff
  <2>1. x.status = "scheduled" /\ w = [db EXCEPT !.oneoff.status = "active"]
    BY <1>4 DEF StartOneOff
  <2> PICK o : o = [x EXCEPT !.status = "active"]
    OBVIOUS
  <2>2. w = [db EXCEPT !.oneoff = o]
    BY <2>1
  <2> QED BY <1>2, <2>1, <2>2
<1>5. CASE EndSession
  <2>1. CASE \E d \in Dates : /\ db.sessions[d].status = "active"
                              /\ w = [db EXCEPT !.sessions[d].status = "ended"]
    BY <1>3, <2>1
  <2>2. CASE x.status = "active" /\ w = [db EXCEPT !.oneoff.status = "ended"]
    <3> PICK o : o = [x EXCEPT !.status = "ended"]
      OBVIOUS
    <3>1. w = [db EXCEPT !.oneoff = o]
      BY <2>2
    <3> QED BY <1>2, <2>2, <3>1
  <2> QED BY <1>5, <2>1, <2>2 DEF EndSession
<1> QED BY <1>4, <1>5

LEMMA CommandEffect ==
    ASSUME Inv, NEW c \in Managers,
           \/ CreateSchedule(c) \/ ChangeSchedule(c) \/ StopSchedule(c)
           \/ ChangeOccurrence(c) \/ StartOccurrence(c)
           \/ CreateOneOff(c) \/ ChangeOneOff(c) \/ RestoreOneOff(c) \/ CancelOneOff(c)
    PROVE  Effect(c) /\ \E new : Commit(c, new)
<1>1. CASE CreateSchedule(c)
  BY <1>1, CreateEffect DEF CreateSchedule
<1>2. CASE ChangeSchedule(c)
  BY <1>2, ChangeEffect DEF ChangeSchedule
<1>3. CASE StopSchedule(c)
  BY <1>3, StopEffect DEF StopSchedule
<1>4. CASE ChangeOccurrence(c)
  BY <1>4, OccurrenceEffect DEF ChangeOccurrence
<1>5. CASE StartOccurrence(c)
  BY <1>5, StartEffect DEF StartOccurrence
<1>6. CASE CreateOneOff(c)
  BY <1>6, OneOffEffect DEF CreateOneOff
<1>7. CASE ChangeOneOff(c)
  BY <1>7, OneOffEffect DEF ChangeOneOff
<1>8. CASE RestoreOneOff(c)
  BY <1>8, OneOffEffect DEF RestoreOneOff
<1>9. CASE CancelOneOff(c)
  BY <1>9, OneOffEffect DEF CancelOneOff
<1> QED BY <1>1, <1>2, <1>3, <1>4, <1>5, <1>6, <1>7, <1>8, <1>9

LEMMA InvStep == Inv /\ [Next]_vars => Inv' /\ Kept(db, db')
<1> SUFFICES ASSUME Inv, [Next]_vars PROVE Inv' /\ Kept(db, db')
  OBVIOUS
<1>1. db' = db => Kept(db, db')
  BY DEF Kept
<1>2. CASE UNCHANGED <<db, client>>
  BY <1>1, <1>2 DEF Inv, Follows
<1>3. ASSUME NEW c \in Managers,
             \/ SendCreate(c) \/ SendChange(c) \/ SendOccurrence(c) \/ SendStart(c)
             \/ SendNewOneOff(c) \/ SendOneOff(c)
      PROVE  Inv' /\ Kept(db, db')
  <2>1. db' = db
    BY <1>3 DEF SendCreate, SendChange, SendOccurrence, SendStart, SendNewOneOff, SendOneOff, Send
  <2> QED BY <1>1, <1>3, <2>1, SendsInv
<1>4. ASSUME NEW c \in Managers, Begin(c) \/ Retry(c) \/ Refuse(c) \/ Replay(c)
      PROVE  Inv' /\ Kept(db, db')
  <2>1. db' = db
    BY <1>4 DEF Begin, Retry, Refuse, Replay
  <2> QED BY <1>1, <1>4, <2>1, TransactionInv
<1>5. ASSUME NEW c \in Managers,
             \/ CreateSchedule(c) \/ ChangeSchedule(c) \/ StopSchedule(c)
             \/ ChangeOccurrence(c) \/ StartOccurrence(c)
             \/ CreateOneOff(c) \/ ChangeOneOff(c) \/ RestoreOneOff(c) \/ CancelOneOff(c)
      PROVE  Inv' /\ Kept(db, db')
  BY <1>5, CommandEffect, CommitInv DEF Effect
<1>6. CASE StartOneOff \/ EndSession
  <2>1. Tables(db') /\ Kept(db, db') /\ Since(db, db')
        /\ db.schedule.version <= db'.schedule.version /\ client' = client
    BY <1>6, SessionSteps DEF StartOneOff, EndSession
  <2>2. ASSUME NEW x \in Managers PROVE Client(client[x]) /\ Follows(client[x])'
    BY <2>1, FollowsOn DEF Inv, Follows
  <2> QED BY <2>1, <2>2 DEF Inv
<1>7. CASE CircleChanges \/ Tick
  BY <1>2, <1>7 DEF CircleChanges, Tick
<1>8. CASE UNCHANGED vars
  BY <1>2, <1>8 DEF vars
<1> QED BY <1>3, <1>4, <1>5, <1>6, <1>7, <1>8 DEF Next

LEMMA InvAlways == Spec => []Inv
<1>1. Inv /\ [Next]_vars => Inv'
  BY InvStep
<1> QED BY InvInit, <1>1, PTL DEF Spec
-----------------------------------------------------------------------------
(* The calendar of a month                                                  *)

LEMMA Larger ==
    ASSUME NEW b \in Nat \ {0}, NEW x \in Int, NEW y \in Int, b * x < b * y
    PROVE  x < y
OBVIOUS

\* The window of dates that is read for a month is wide enough.
LEMMA WindowSuffices ==
    ASSUME NEW r, RevisionRow(r), NEW e, ExceptionRow(e), NEW d \in Nat, NEW m \in Months,
           Intersects(Resolved(r, e, d), m)
    PROVE  EffectiveDate(e, d) \in FromDate(m) .. ToDate(m)
<1> DEFINE S == SlotsPerDay
           x == EffectiveDate(e, d)
<1>1. S \in Nat \ {0} /\ MonthLength \in Nat \ {0} /\ m \in Nat /\ MaxDuration \in Nat
  BY SchedulingConstants
<1>2. PICK clock \in 0 .. S - 1, duration \in 1 .. MaxDuration :
        Resolved(r, e, d) = Interval(S * x + clock, duration) /\ x \in Nat
  BY ResolvedInterval
<1> HIDE DEF x
<1>3. S * x + clock < MonthEnd(m) /\ S * x + clock + duration > MonthStart(m)
  BY <1>2 DEF Intersects, Interval
<1>4. x < MonthLength * (m + 1)
  <2>1. MonthEnd(m) = S * (MonthLength * (m + 1)) /\ MonthLength * (m + 1) \in Int
    BY <1>1 DEF MonthEnd, MonthStart
  <2>2. S * x < S * (MonthLength * (m + 1))
    BY <1>1, <1>2, <1>3, <2>1
  <2> QED BY <1>1, <1>2, <2>1, <2>2, Larger
<1>5. x >= (MonthStart(m) - MaxDuration) \div S
  <2> DEFINE z == MonthStart(m) - MaxDuration
             q == z \div S
  <2>1. z \in Int
    BY <1>1 DEF MonthStart
  <2>2. q \in Int /\ S * q <= z
    <3> HIDE DEF z
    <3>1. z % S \in 0 .. S - 1 /\ z = S * q + (z % S) /\ q \in Int
      BY <1>1, <2>1, Euclid
    <3> HIDE DEF q
    <3>2. S * q \in Int
      BY <1>1, <3>1
    <3> QED BY <1>1, <3>1, <3>2
  <2>3. z < S * x + clock
    BY <1>1, <1>2, <1>3, <2>1 DEF MonthStart
  <2> HIDE DEF q, z
  <2>4. S * q < S * (x + 1)
    <3>1. S * (x + 1) = S * x + S /\ S * x \in Int /\ S * q \in Int
      BY <1>1, <1>2, <2>2
    <3> QED BY <1>1, <1>2, <2>1, <2>2, <2>3, <3>1
  <2>5. q < x + 1
    BY <1>1, <1>2, <2>2, <2>4, Larger
  <2> QED BY <1>2, <2>2, <2>5 DEF q, z
<1>6. FromDate(m) <= x /\ FromDate(m) \in Nat
  <2> DEFINE q == (MonthStart(m) - MaxDuration) \div S
  <2>1. q \in Int
    <3>1. MonthStart(m) - MaxDuration \in Int
      BY <1>1 DEF MonthStart
    <3> QED BY <1>1, <3>1
  <2>2. FromDate(m) = Latest(0, q - 1)
    BY DEF FromDate
  <2>3. x >= q
    BY <1>5
  <2> HIDE DEF q
  <2> QED BY <1>2, <2>1, <2>2, <2>3 DEF Latest
<1>7. x <= ToDate(m) /\ ToDate(m) \in Nat
  <2>1. MonthLength * (m + 1) \in Nat
    BY <1>1
  <2> QED BY <1>2, <1>4, <2>1 DEF ToDate
<1> QED BY <1>2, <1>6, <1>7 DEF x

LEMMA WindowBounds ==
    ASSUME NEW m \in Months PROVE FromDate(m) \in Nat /\ ToDate(m) \in Nat
<1>1. SlotsPerDay \in Nat \ {0} /\ MonthLength \in Nat \ {0} /\ m \in Nat /\ MaxDuration \in Nat
  BY SchedulingConstants
<1>2. MonthStart(m) - MaxDuration \in Int
  BY <1>1 DEF MonthStart
<1> PICK q : q = (MonthStart(m) - MaxDuration) \div SlotsPerDay
  OBVIOUS
<1>3. q \in Int
  BY <1>1, <1>2
<1>4. FromDate(m) = Latest(0, q - 1)
  BY DEF FromDate
<1>5. MonthLength * (m + 1) \in Nat
  BY <1>1
<1> QED BY <1>3, <1>4, <1>5 DEF Latest, ToDate

\* One revision at most governs a date.
LEMMA OneGoverns ==
    ASSUME NEW v, Series(v), NEW d, NEW r \in SelectRevision(v.revisions, d),
           NEW s \in SelectRevision(v.revisions, d)
    PROVE  r = s
<1>1. /\ r \in v.revisions /\ s \in v.revisions
      /\ r.version <= s.version /\ s.version <= r.version
  BY DEF SelectRevision
<1>2. r.version \in Nat /\ s.version \in Nat
  BY <1>1 DEF Series, RevisionRow
<1>3. r.version = s.version
  BY <1>1, <1>2
<1> QED BY <1>1, <1>3 DEF Series

\* A date of the window is listed exactly when its governing revision has it.
LEMMA ListedDates ==
    ASSUME NEW v, Series(v), NEW m \in Months, NEW d \in FromDate(m) .. ToDate(m),
           NEW r \in SelectRevision(v.revisions, d)
    PROVE  d \in OccurrenceWindow(v.revisions, FromDate(m), ToDate(m)) <=> Generates(r, d)
<1>1. r \in v.revisions /\ RevisionRow(r)
  BY DEF SelectRevision, Series
<1>2. d \in OccurrenceDates(r, FromDate(m), ToDate(m)) <=> Generates(r, d)
  <2>1. /\ r.plan.anchor \in Nat /\ r.effective \in Nat /\ r.plan.end \in Nat \union {NoDate}
        /\ ValidPattern(r) /\ (r.plan.mode = "interval" => r.plan.count \in Nat)
    BY <1>1 DEF RevisionRow, PlanRow
  <2> QED BY <2>1, WindowBounds, DatesInWindow
<1>3. ASSUME NEW s \in v.revisions, d \in OccurrenceDates(s, FromDate(m), ToDate(m)),
             s \in SelectRevision(v.revisions, d)
      PROVE  s = r
  BY <1>3, OneGoverns
<1> QED BY <1>1, <1>2, <1>3 DEF OccurrenceWindow

\* The virtual items of a month are the occurrences whose interval meets it.
LEMMA VirtualItems ==
    ASSUME NEW v, Tables(v), NEW m \in Months, NEW d \in Dates
    PROVE  \A i : (/\ i \in PlainItems(v, m) \union ExceptionItems(v, m)
                  /\ Intersects(i.interval, m) /\ i.key = d)
                 <=> i \in InMonth(OccurrenceView(v, d), m)
<1> PICK e : e = v.exceptions[d]
  OBVIOUS
<1>1. d \in Nat /\ Series(v) /\ ExceptionRow(e)
  BY DEF Tables, Occurrences, Dates
<1>2. \A r \in SelectRevision(v.revisions, d) : RevisionRow(r)
  BY <1>1 DEF SelectRevision, Series
<1> DEFINE Plain(r)  == Item(d, Resolved(r, NoException, d), "scheduled")
           Altered(r) == Item(d, Resolved(r, e, d), IF e.cancelled THEN "cancelled" ELSE "scheduled")
<1>7. \A i : i \in PlainItems(v, m) /\ i.key = d <=>
               /\ d \in OccurrenceWindow(v.revisions, FromDate(m), ToDate(m))
               /\ ~ListedException(e, d, m) /\ ~DateIsStopped(v, d)
               /\ \E r \in SelectRevision(v.revisions, d) : i = Plain(r)
  BY DEF PlainItems, Item
<1>8. \A i : i \in ExceptionItems(v, m) /\ i.key = d <=>
               /\ ListedException(e, d, m) /\ ~DateIsStopped(v, EffectiveDate(e, d))
               /\ \E r \in SelectRevision(v.revisions, d) : Generates(r, d) /\ i = Altered(r)
  BY DEF ExceptionItems, Item
<1>9. \A i : i \in InMonth(OccurrenceView(v, d), m) <=>
               /\ ~DateIsStopped(v, EffectiveDate(e, d)) /\ Intersects(i.interval, m)
               /\ \E r \in SelectRevision(v.revisions, d) : Generates(r, d) /\ i = Altered(r)
  BY DEF InMonth, OccurrenceView, ResolveOccurrence, GoverningRecord
<1>10. \A r : Plain(r).interval = Resolved(r, NoException, d)
              /\ Altered(r).interval = Resolved(r, e, d) /\ Plain(r).key = d /\ Altered(r).key = d
  BY DEF Item
<1>11. ExceptionRow(NoException) /\ EffectiveDate(NoException, d) = d /\ ~NoException.cancelled
  BY DEF ExceptionRow, NoException, EffectiveDate
<1>12. \A r \in SelectRevision(v.revisions, d) :
         Intersects(Resolved(r, NoException, d), m) => d \in FromDate(m) .. ToDate(m)
  BY <1>1, <1>2, <1>11, WindowSuffices
<1>13. \A r \in SelectRevision(v.revisions, d) :
         Intersects(Resolved(r, e, d), m) => EffectiveDate(e, d) \in FromDate(m) .. ToDate(m)
  BY <1>1, <1>2, WindowSuffices
<1> HIDE DEF Plain, Altered
<1>14. CASE ListedException(e, d, m)
  BY <1>7, <1>8, <1>9, <1>10, <1>14
<1>15. CASE ~ListedException(e, d, m) /\ e.version = 0
  <2>1. e = NoException
    BY <1>1, <1>15 DEF ExceptionRow
  <2>2. \A r : Plain(r) = Altered(r)
    BY <1>11, <2>1 DEF Plain, Altered
  <2>3. \A r \in SelectRevision(v.revisions, d) : Intersects(Plain(r).interval, m) =>
          (d \in OccurrenceWindow(v.revisions, FromDate(m), ToDate(m)) <=> Generates(r, d))
    BY <1>1, <1>10, <1>12, ListedDates
  <2> QED BY <1>7, <1>8, <1>9, <1>10, <1>11, <1>15, <2>1, <2>2, <2>3
<1>16. CASE ~ListedException(e, d, m) /\ e.version # 0
  <2>1. e.version > 0 /\ d \notin FromDate(m) .. ToDate(m) /\ e.moved \notin FromDate(m) .. ToDate(m)
    BY <1>1, <1>16 DEF ListedException, ExceptionRow
  <2>2. EffectiveDate(e, d) \notin FromDate(m) .. ToDate(m)
    BY <2>1 DEF EffectiveDate
  <2>3. \A r \in SelectRevision(v.revisions, d) :
          ~Intersects(Plain(r).interval, m) /\ ~Intersects(Altered(r).interval, m)
    BY <1>10, <1>12, <1>13, <2>1, <2>2
  <2> QED BY <1>7, <1>8, <1>9, <1>16, <2>3
<1> QED BY <1>14, <1>15, <1>16

\* An occurrence without a session is shown in exactly the months of its interval.
LEMMA MonthShows ==
    ASSUME NEW v, Tables(v), NEW m \in Months, NEW d \in Dates, v.sessions[d] = NoSession
    PROVE  {i \in Month(v, m) : i.key = d} = InMonth(OccurrenceView(v, d), m)
<1>1. OneOffKey # d
  BY DEF OneOffKey, Dates
<1>2. \A i : i \in InMonth(OneOffItems(v), m) => i.key # d
  BY <1>1 DEF InMonth, OneOffItems, Item
<1>3. \A i : i \in InMonth(MaterializedItems(v), m) => i.key # d
  BY DEF InMonth, MaterializedItems, Item, NoSession
<1>4. \A i : i \in Month(v, m) /\ i.key = d <=>
               /\ i \in PlainItems(v, m) \union ExceptionItems(v, m)
               /\ Intersects(i.interval, m) /\ i.key = d
  BY <1>2, <1>3 DEF Month, InMonth
<1> QED BY <1>4, VirtualItems

\* What is shown as cancelled is the only occurrence that does not start.
LEMMA StartsAreShown ==
    ASSUME NEW v, NEW d
    PROVE  StartPlan(v, d)
             = {i.interval : i \in {j \in OccurrenceView(v, d) : j.state = "scheduled"}}
<1> PICK e, live : e = v.exceptions[d] /\ live = ResolveOccurrence(v, d)
  OBVIOUS
<1>1. CASE e.cancelled
  BY <1>1 DEF StartPlan, OccurrenceView, Item
<1>2. CASE ~e.cancelled
  <2>1. StartPlan(v, d) = {Resolved(r, e, d) : r \in live}
    BY <1>2 DEF StartPlan, ResolveOccurrence
  <2>2. OccurrenceView(v, d) = {Item(d, Resolved(r, e, d), "scheduled") : r \in live}
    BY <1>2 DEF OccurrenceView
  <2>3. \A i : Item(d, i, "scheduled").interval = i
              /\ Item(d, i, "scheduled").state = "scheduled"
    BY DEF Item
  <2> QED BY <2>1, <2>2, <2>3
<1> QED BY <1>1, <1>2
-----------------------------------------------------------------------------
(* Overlaps                                                                 *)

Standing(i) == i.state \in {"scheduled", "active"}

\* Starts, ends and cancellations give the circle no new commitment: what a
\* month shows as standing was shown there before, at the same time.
LEMMA NothingNew ==
    ASSUME NEW s, Tables(s), NEW v, Tables(v), Since(s, v), NEW m \in Months,
           NEW i \in Month(v, m), Standing(i)
    PROVE  \E j \in Month(s, m) : Standing(j) /\ j.key = i.key /\ j.interval = i.interval
<1>1. Intersects(i.interval, m)
  BY DEF Month, InMonth
<1>2. CASE i \in InMonth(OneOffItems(v), m)
  <2> PICK o, p : o = s.oneoff /\ p = v.oneoff
    OBVIOUS
  <2>1. /\ OneOffRow(o) /\ OneOffRow(p) /\ OneOffSince(o, p)
    BY DEF Tables, Since
  <2>2. /\ p # NoOneOff
        /\ i = Item(OneOffKey, Interval(p.at, 1), CalendarState(p.status, p.cancelled))
    BY <1>2 DEF InMonth, OneOffItems
  <2>3. ~p.cancelled
    BY <2>2 DEF Standing, Item, CalendarState
  <2>4. CASE p = o
    BY <1>1, <2>2, <2>4 DEF Month, InMonth, OneOffItems
  <2>5. CASE p # o
    <3>1. /\ p.at = o.at /\ ~o.cancelled /\ o.status \in {"scheduled", "active"}
      BY <2>1, <2>3, <2>5 DEF OneOffSince
    <3>2. o # NoOneOff
      BY <3>1 DEF NoOneOff
    <3> PICK j : j = Item(OneOffKey, Interval(o.at, 1), CalendarState(o.status, o.cancelled))
      OBVIOUS
    <3>3. j.key = i.key /\ j.interval = i.interval
      BY <2>2, <3>1 DEF Item
    <3>4. Standing(j)
      BY <3>1 DEF Standing, Item, CalendarState
    <3>5. j \in Month(s, m)
      BY <1>1, <3>2, <3>3 DEF Month, InMonth, OneOffItems
    <3> QED BY <3>3, <3>4, <3>5
  <2> QED BY <2>4, <2>5
<1>3. CASE i \in InMonth(MaterializedItems(v), m)
  <2>1. PICK d \in Dates : /\ v.sessions[d].status # "none"
                           /\ i = Item(d, Interval(v.sessions[d].at, v.sessions[d].duration),
                                CalendarState(v.sessions[d].status, v.sessions[d].cancelled))
    BY <1>3 DEF InMonth, MaterializedItems
  <2>2. v.sessions[d].status # "ended"
    <3>1. SessionRow(v.sessions[d])
      BY DEF Tables, Occurrences
    <3>2. ~v.sessions[d].cancelled
      BY <3>1 DEF SessionRow, NoSession
    <3> QED BY <2>1, <3>2 DEF Standing, Item, CalendarState
  <2>3. StartedSince(s, v, d)
    BY DEF Since
  <2>4. CASE v.sessions[d] = s.sessions[d]
    <3>1. i \in InMonth(MaterializedItems(s), m)
      BY <1>1, <2>1, <2>4 DEF InMonth, MaterializedItems
    <3> QED BY <3>1 DEF Month
  <2>5. CASE v.sessions[d] # s.sessions[d]
    <3>1. /\ s.sessions[d] = NoSession
          /\ i.interval \in StartPlan(s, d) /\ i.key = d
      BY <2>1, <2>2, <2>3, <2>5 DEF StartedSince, Item
    <3>2. PICK j \in OccurrenceView(s, d) : j.state = "scheduled" /\ j.interval = i.interval
      BY <3>1, StartsAreShown
    <3>3. j \in InMonth(OccurrenceView(s, d), m)
      BY <1>1, <3>2 DEF InMonth
    <3>4. j \in Month(s, m) /\ j.key = d
      BY <3>1, <3>3, MonthShows
    <3> QED BY <3>1, <3>2, <3>4 DEF Standing
  <2> QED BY <2>4, <2>5
<1>4. CASE /\ i \in PlainItems(v, m) \union ExceptionItems(v, m)
           /\ \A j \in InMonth(MaterializedItems(v), m) : j.key # i.key
  <2>1. PICK d \in Dates : i.key = d
    BY <1>4 DEF PlainItems, ExceptionItems, Item
  <2>2. i \in OccurrenceView(v, d)
    <3>1. i \in InMonth(OccurrenceView(v, d), m)
      BY <1>1, <1>4, <2>1, VirtualItems
    <3> QED BY <3>1 DEF InMonth
  <2>3. ~v.exceptions[d].cancelled
    BY <2>2 DEF OccurrenceView, Standing, Item
  <2>4. v.exceptions[d] = s.exceptions[d]
    BY <2>3 DEF Since
  <2>5. i \in InMonth(OccurrenceView(s, d), m)
    BY <1>1, <2>2, <2>4
       DEF Since, InMonth, OccurrenceView, ResolveOccurrence, GoverningRecord, DateIsStopped
  <2>6. i \in PlainItems(s, m) \union ExceptionItems(s, m)
    BY <2>5, VirtualItems
  <2>7. ASSUME NEW j \in InMonth(MaterializedItems(s), m), j.key = i.key PROVE FALSE
    <3>1. /\ s.sessions[d].status # "none" /\ Intersects(j.interval, m)
          /\ j.interval = Interval(s.sessions[d].at, s.sessions[d].duration)
      BY <2>1, <2>7 DEF InMonth, MaterializedItems, Item
    <3>2. s.sessions[d] # NoSession
      BY <3>1 DEF NoSession
    <3>3. /\ v.sessions[d].status # "none"
          /\ j.interval = Interval(v.sessions[d].at, v.sessions[d].duration)
      BY <3>1, <3>2 DEF Since, StartedSince
    <3> PICK k : k = Item(d, Interval(v.sessions[d].at, v.sessions[d].duration),
                          CalendarState(v.sessions[d].status, v.sessions[d].cancelled))
      OBVIOUS
    <3>4. k.key = d /\ k.interval = j.interval
      BY <3>3 DEF Item
    <3>5. k \in InMonth(MaterializedItems(v), m)
      BY <3>1, <3>3, <3>4 DEF InMonth, MaterializedItems
    <3> QED BY <1>4, <2>1, <3>4, <3>5
  <2>8. i \in Month(s, m)
    BY <1>1, <2>6, <2>7 DEF Month, InMonth
  <2> QED BY <2>8
<1> QED BY <1>2, <1>3, <1>4 DEF Month, InMonth

\* A plan has no overlaps that it did not have before them.
LEMMA WarningsShrink ==
    ASSUME NEW s, Tables(s), NEW v, Tables(v), Since(s, v), NEW r, NEW exclude
    PROVE  Warnings(v, r, exclude) \subseteq Warnings(s, r, exclude)
<1> DEFINE proposed == {<<d, Resolved(r, NoException, d)>> : d \in PreviewDates(r)}
           months == {m \in Months : \E p \in proposed : Intersects(p[2], m)}
           existing(x) == {i \in UNION {Month(x, m) : m \in months} :
                             i.state \in {"scheduled", "active"} /\ i.key \notin exclude}
           clashes(x) == {c \in proposed \X existing(x) :
                            /\ c[1][2].from < c[2].interval.to
                            /\ c[2].interval.from < c[1][2].to}
           Warning(p, i) == [date |-> p[1], other |-> i.key,
                             from |-> Latest(p[2].from, i.interval.from)]
<1>1. \A x : Warnings(x, r, exclude) = {Warning(c[1], c[2]) : c \in clashes(x)}
  BY DEF Warnings
<1>2. ASSUME NEW i \in existing(v)
      PROVE  \E j \in existing(s) : j.key = i.key /\ j.interval = i.interval
  <2>1. PICK m \in months : i \in Month(v, m)
    OBVIOUS
  <2>2. m \in Months /\ Standing(i) /\ i.key \notin exclude
    BY DEF Standing
  <2>3. PICK j \in Month(s, m) : Standing(j) /\ j.key = i.key /\ j.interval = i.interval
    BY <2>1, <2>2, NothingNew
  <2> QED BY <2>2, <2>3 DEF Standing
<1> HIDE DEF proposed, existing
<1>3. ASSUME NEW c \in clashes(v)
      PROVE  \E k \in clashes(s) : Warning(k[1], k[2]) = Warning(c[1], c[2])
  <2>1. PICK p \in proposed, i \in existing(v) :
          c = <<p, i>> /\ p[2].from < i.interval.to /\ i.interval.from < p[2].to
    OBVIOUS
  <2>2. PICK j \in existing(s) : j.key = i.key /\ j.interval = i.interval
    BY <1>2
  <2>3. <<p, j>> \in clashes(s)
    BY <2>1, <2>2
  <2>4. Warning(p, j) = Warning(p, i)
    BY <2>2
  <2> HIDE DEF clashes, Warning
  <2> PICK k : k = <<p, j>>
    OBVIOUS
  <2>5. k \in clashes(s) /\ k[1] = p /\ k[2] = j /\ c[1] = p /\ c[2] = i
    BY <2>1, <2>3
  <2> QED BY <2>4, <2>5
<1> HIDE DEF clashes, Warning
<1> QED BY <1>1, <1>3

\* A transaction ends with a change of the tables only by its own command.
LEMMA OwnCommand ==
    ASSUME Inv, [Next]_vars, NEW c \in Managers, client[c].phase = "open", db' # db,
           client'[c].phase # "open"
    PROVE  \/ CreateSchedule(c) \/ ChangeSchedule(c) \/ StopSchedule(c)
           \/ ChangeOccurrence(c) \/ StartOccurrence(c)
           \/ CreateOneOff(c) \/ ChangeOneOff(c) \/ RestoreOneOff(c) \/ CancelOneOff(c)
<1>1. ASSUME NEW x \in Managers, NEW new, Commit(x, new) PROVE x = c
  <2> SUFFICES ASSUME x # c PROVE FALSE
    OBVIOUS
  <2>1. client'[c] \in {client[c], [client[c] EXCEPT !.overtaken = TRUE]}
    BY <1>1 DEF Commit
  <2> PICK k : k = client[c] /\ Client(k) /\ k.phase = "open"
    BY DEF Inv
  <2>2. k = [phase |-> "open", cmd |-> k.cmd, reviewed |-> k.reviewed, attempt |-> k.attempt,
             snap |-> k.snap, overtaken |-> k.overtaken]
    BY DEF Client, Idle
  <2>3. [k EXCEPT !.overtaken = TRUE].phase = "open"
    BY <2>2
  <2> QED BY <2>1, <2>3
<1>2. ASSUME NEW x \in Managers,
             \/ SendCreate(x) \/ SendChange(x) \/ SendOccurrence(x) \/ SendStart(x)
             \/ SendNewOneOff(x) \/ SendOneOff(x)
      PROVE  FALSE
  BY <1>2 DEF SendCreate, SendChange, SendOccurrence, SendStart, SendNewOneOff, SendOneOff, Send
<1>3. ASSUME NEW x \in Managers, Begin(x) \/ Retry(x) \/ Refuse(x) \/ Replay(x) PROVE FALSE
  BY <1>3 DEF Begin, Retry, Refuse, Replay
<1>4. ASSUME StartOneOff \/ EndSession \/ CircleChanges \/ Tick \/ UNCHANGED vars PROVE FALSE
  BY <1>4 DEF StartOneOff, EndSession, CircleChanges, Tick, vars
<1>5. ASSUME NEW x \in Managers,
             \/ CreateSchedule(x) \/ ChangeSchedule(x) \/ StopSchedule(x)
             \/ ChangeOccurrence(x) \/ StartOccurrence(x)
             \/ CreateOneOff(x) \/ ChangeOneOff(x) \/ RestoreOneOff(x) \/ CancelOneOff(x)
      PROVE  x = c
  <2>1. PICK new : Commit(x, new)
    BY <1>5, CommandEffect
  <2> QED BY <1>1, <2>1
<1> QED BY <1>2, <1>3, <1>4, <1>5 DEF Next

\* Its overlaps with the tables are among those that its manager confirmed.
LEMMA ReviewedCommand ==
    ASSUME Inv, NEW c \in Managers, client[c].phase = "open",
           client[c].snap.schedule = db.schedule, NEW r \in Proposal(db, client[c].cmd),
           \/ CreateSchedule(c) \/ ChangeSchedule(c) \/ StopSchedule(c)
           \/ ChangeOccurrence(c) \/ StartOccurrence(c)
           \/ CreateOneOff(c) \/ ChangeOneOff(c) \/ RestoreOneOff(c) \/ CancelOneOff(c)
    PROVE  \/ Warnings(db, r, Exclusion(client[c].cmd)) \subseteq client[c].reviewed
           \/ client[c].cmd.op = "occurrence"
                /\ Patched(db.exceptions[client[c].cmd.date], client[c].cmd.patch).cancelled
<1> PICK k, cmd, v : k = client[c] /\ cmd = k.cmd /\ v = k.snap
  OBVIOUS
<1>1. k.phase = "open" /\ Client(k) /\ View(c) = v
  BY DEF Inv, View
<1>2. IsSerializable(cmd) /\ Tables(v) /\ Tables(db)
  BY <1>1 DEF Client, Idle, Inv
<1>3. PICK op : Runs(c, op)
  BY DEF CreateSchedule, ChangeSchedule, StopSchedule, ChangeOccurrence, StartOccurrence,
         CreateOneOff, ChangeOneOff, RestoreOneOff, CancelOneOff
<1>4. ~k.overtaken /\ ~RowChanged(cmd, v)
  BY <1>1, <1>2, <1>3, RunsOn
<1>5. Since(v, db)
  BY <1>1, <1>4 DEF Inv, Follows
\* It is enough that the command confirmed this plan in its snapshot.
<1>6. ASSUME Confirmed(v, r, Exclusion(cmd), k.reviewed)
      PROVE  Warnings(db, r, Exclusion(cmd)) \subseteq k.reviewed
  BY <1>2, <1>5, <1>6, WarningsShrink DEF Confirmed
<1>7. ASSUME NEW o, Runs(c, o) PROVE cmd.op = o
  BY <1>7 DEF Runs
<1>8. CASE CreateSchedule(c)
  <2>1. /\ cmd.op = "create"
        /\ Confirmed(v, Revision(1, cmd.plan.anchor, cmd.plan), {}, k.reviewed)
    BY <1>1, <1>7, <1>8 DEF CreateSchedule
  <2>2. r = Revision(1, cmd.plan.anchor, cmd.plan) /\ Exclusion(cmd) = {}
    BY <2>1 DEF Proposal, Exclusion
  <2> QED BY <1>6, <2>1, <2>2
<1>9. CASE ChangeSchedule(c)
  <2>1. /\ cmd.op = "change"
        /\ Confirmed(v, Revision(cmd.expected + 1, cmd.from, cmd.plan), OfSeries, k.reviewed)
    BY <1>1, <1>7, <1>9 DEF ChangeSchedule
  <2>2. r = Revision(cmd.expected + 1, cmd.from, cmd.plan) /\ Exclusion(cmd) = OfSeries
    BY <2>1 DEF Proposal, Exclusion
  <2> QED BY <1>6, <2>1, <2>2
<1>10. CASE CreateOneOff(c)
  <2>1. cmd.op = "newOneoff" /\ Confirmed(v, AtInterval(Interval(cmd.at, 1)), {}, k.reviewed)
    BY <1>1, <1>7, <1>10 DEF CreateOneOff
  <2>2. r = AtInterval(Interval(cmd.at, 1)) /\ Exclusion(cmd) = {}
    BY <2>1 DEF Proposal, Exclusion
  <2> QED BY <1>6, <2>1, <2>2
<1>11. CASE ChangeOneOff(c)
  <2>1. /\ cmd.op = "oneoff"
        /\ Confirmed(v, AtInterval(Interval(cmd.at, 1)), {OneOffKey}, k.reviewed)
    BY <1>1, <1>7, <1>11 DEF ChangeOneOff
  <2>2. r = AtInterval(Interval(cmd.at, 1)) /\ Exclusion(cmd) = {OneOffKey}
    BY <2>1 DEF Proposal, Exclusion
  <2> QED BY <1>6, <2>1, <2>2
<1>12. CASE RestoreOneOff(c)
  <2>1. /\ cmd.op = "restoreOneoff"
        /\ Confirmed(v, AtInterval(Interval(v.oneoff.at, 1)), {OneOffKey}, k.reviewed)
    BY <1>1, <1>7, <1>12 DEF RestoreOneOff
  <2>2. v.oneoff = db.oneoff
    BY <1>4, <2>1 DEF RowChanged
  <2>3. r = AtInterval(Interval(v.oneoff.at, 1)) /\ Exclusion(cmd) = {OneOffKey}
    BY <2>1, <2>2 DEF Proposal, Exclusion
  <2> QED BY <1>6, <2>1, <2>3
<1>13. CASE ChangeOccurrence(c)
  <2> PICK d, e : d = cmd.date /\ e = Patched(v.exceptions[d], cmd.patch)
    OBVIOUS
  <2>1. cmd.op = "occurrence"
    BY <1>7, <1>13 DEF ChangeOccurrence
  <2>2. PICK s \in ResolveOccurrence(v, d) :
          e.cancelled \/ Confirmed(v, AtInterval(Resolved(s, e, d)), {d}, k.reviewed)
    BY <1>1, <1>13 DEF ChangeOccurrence
  <2>3. v.exceptions[d] = db.exceptions[d]
    BY <1>4, <2>1 DEF RowChanged
  <2>4. ResolveOccurrence(db, d) = ResolveOccurrence(v, d)
    BY <1>5, <2>3 DEF Since, ResolveOccurrence, GoverningRecord, DateIsStopped
  <2>5. PICK x \in ResolveOccurrence(v, d) : r = AtInterval(Resolved(x, e, d))
    BY <2>1, <2>3, <2>4 DEF Proposal
  <2>6. x = s
    <3>1. x \in SelectRevision(v.revisions, d) /\ s \in SelectRevision(v.revisions, d)
      BY DEF ResolveOccurrence, GoverningRecord
    <3>2. Series(v)
      BY <1>2 DEF Tables
    <3> QED BY ONLY <3>1, <3>2, OneGoverns
  <2>7. Exclusion(cmd) = {d}
    BY <2>1 DEF Exclusion
  <2> QED BY <1>6, <2>1, <2>2, <2>3, <2>5, <2>6, <2>7
<1>14. CASE StopSchedule(c) \/ StartOccurrence(c) \/ CancelOneOff(c)
  <2>1. cmd.op \in {"stop", "start", "cancelOneoff"}
    BY <1>7, <1>14 DEF StopSchedule, StartOccurrence, CancelOneOff
  <2> QED BY <1>2, <2>1 DEF IsSerializable
<1> QED BY <1>8, <1>9, <1>10, <1>11, <1>12, <1>13, <1>14
-----------------------------------------------------------------------------
(* Theorems                                                                 *)

\* Started history is kept (ADR-026): whatever snapshot a command read, it does
\* not move, cancel or restart a session that has started, nor give its
\* occurrence another one; lockUnstartedOccurrence and lockOneOff look at rows
\* that nobody has changed since.
THEOREM StartedHistoryKept == Spec => HistoryIsKept
<1>1. ASSUME Inv, [Next]_vars
      PROVE  [/\ \A d \in Dates : db.sessions[d] # NoSession =>
                   \/ db'.sessions[d] = db.sessions[d]
                   \/ db'.sessions[d] = [db.sessions[d] EXCEPT !.status = "ended"]
              /\ \A d \in Dates : db.sessions[d] # NoSession =>
                   db'.exceptions[d].cancelled = db.exceptions[d].cancelled
              /\ db.oneoff.status \in {"active", "ended"} =>
                   \/ db'.oneoff = db.oneoff
                   \/ db'.oneoff = [db.oneoff EXCEPT !.status = "ended"]]_vars
  BY <1>1, InvStep DEF Kept
<1> QED BY InvAlways, <1>1, PTL DEF Spec, HistoryIsKept

\* Calendar, occurrence view and start agree, for every plan, edit, stop and
\* month: an occurrence without a session is shown in exactly the months of its
\* interval, and is started at that interval exactly while shown as scheduled
\* (month, resolveOccurrence, resolveOccurrenceStartPlan).
THEOREM CalendarsAgree == Spec => []CalendarAgrees
<1>1. Inv => CalendarAgrees
  <2> SUFFICES ASSUME Tables(db) PROVE CalendarAgrees
    BY DEF Inv
  <2>1. \A m \in Months, d \in Dates : db.sessions[d] = NoSession =>
          {i \in Month(db, m) : i.key = d} = InMonth(OccurrenceView(db, d), m)
    BY MonthShows
  <2>2. \A d \in Dates :
          StartPlan(db, d) = {i.interval : i \in {j \in OccurrenceView(db, d) : j.state = "scheduled"}}
    BY StartsAreShown
  <2> QED BY <2>1, <2>2 DEF CalendarAgrees
<1> QED BY InvAlways, <1>1, PTL

\* No overlap is committed unseen, for any plans, snapshots and interleaving:
\* the check of a serializable command covers all that stands at its commit,
\* because what others did since then gave the circle no new commitment
\* (Check in overlap_service.go, withSerializableTx).
THEOREM OverlapsReviewed == Spec => OverlapsWereReviewed
<1> DEFINE Reviewed(c) ==
      (client[c].phase = "open" /\ db' # db /\ client'[c].phase # "open"
         /\ client[c].snap.schedule = db.schedule) =>
        \A r \in Proposal(db, client[c].cmd) :
           \/ Warnings(db, r, Exclusion(client[c].cmd)) \subseteq client[c].reviewed
           \/ client[c].cmd.op = "occurrence"
                /\ Patched(db.exceptions[client[c].cmd.date], client[c].cmd.patch).cancelled
<1>1. ASSUME Inv, [Next]_vars PROVE [\A c \in Managers : Reviewed(c)]_vars
  <2> SUFFICES ASSUME NEW c \in Managers, client[c].phase = "open", db' # db,
                      client'[c].phase # "open", client[c].snap.schedule = db.schedule,
                      NEW r \in Proposal(db, client[c].cmd)
               PROVE  \/ Warnings(db, r, Exclusion(client[c].cmd)) \subseteq client[c].reviewed
                      \/ client[c].cmd.op = "occurrence"
                           /\ Patched(db.exceptions[client[c].cmd.date], client[c].cmd.patch).cancelled
    OBVIOUS
  <2>1. \/ CreateSchedule(c) \/ ChangeSchedule(c) \/ StopSchedule(c)
        \/ ChangeOccurrence(c) \/ StartOccurrence(c)
        \/ CreateOneOff(c) \/ ChangeOneOff(c) \/ RestoreOneOff(c) \/ CancelOneOff(c)
    BY <1>1, OwnCommand
  <2> QED BY <1>1, <2>1, ReviewedCommand
<1> QED BY InvAlways, <1>1, PTL DEF Spec, OverlapsWereReviewed
=============================================================================
