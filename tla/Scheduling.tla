----------------------------- MODULE Scheduling -----------------------------
(***************************************************************************)
(* Planned sessions of one circle (backend/internal/scheduling): a         *)
(* recurring series with its revisions, the exceptions of single           *)
(* occurrences, a stop boundary, a one-off session, starting an occurrence,*)
(* the calendar and the overlap warnings.                                  *)
(*                                                                         *)
(* An occurrence is named by its original local date.  Time runs in slots, *)
(* SlotsPerDay to the day; a start clock is a slot of the day.  There is   *)
(* one planning timezone.  Titles are left out.                            *)
(*                                                                         *)
(* Every command runs in one transaction that first locks the circle and   *)
(* the manager's membership.  Commands that may add a commitment run at    *)
(* the SERIALIZABLE level: what they read is the state before they waited  *)
(* for that lock, and they fail when another serializable command          *)
(* committed since, or when a row they lock or write was changed since.    *)
(* The others (stop, cancel, start) run at READ COMMITTED and are one      *)
(* step.  A manager sends one command at a time; it may be sent again,     *)
(* with the same idempotency key, when its answer was lost.                *)
(***************************************************************************)
EXTENDS Recurrence

CONSTANTS
    Managers,
    SlotsPerDay,
    MonthLength, Months,    \* month m has the days m * MonthLength up to the next
    PreviewDays,            \* 30: how far the overlap preview looks
    MaxDuration,            \* slots: the longest plan
    MaxAttempts,            \* 3: tries of a serializable transaction
    Plans,                  \* recurring plans that are sent
    Boundaries,             \* dates from which a series is changed or stopped
    EditDates, Patches,     \* occurrences that are edited and started, and the
                            \* edits: [moved, times, cancel]
    OneOffStarts,           \* first slots of one-off sessions, one slot long
    MaxNow,                 \* bound: the clock stops here
    Budgets                 \* bounds: how many commands of each kind

Spendings == {"series", "edits", "starts", "oneoffs", "roles"}

ASSUME SchedulingConstants ==
    /\ SlotsPerDay \in Nat \ {0} /\ MonthLength \in Nat \ {0} /\ Months \subseteq Nat
    /\ PreviewDays \in Nat /\ MaxDuration \in Nat \ {0} /\ MaxAttempts \in Nat \ {0}
    /\ MaxNow \in Nat /\ Budgets \subseteq [Spendings -> Nat]

\* ValidatePlannedClocks: a start clock lies in the day, a duration is bounded.
ValidTimes(clock, duration) == clock \in 0 .. SlotsPerDay - 1 /\ duration \in 1 .. MaxDuration

\* What is sent has been parsed: dates are civil dates, and the times of a plan
\* or of an edit are valid.
ASSUME SentPlans ==
    /\ Boundaries \subseteq Nat /\ OneOffStarts \subseteq Nat
    /\ \A p \in Plans :
         /\ p.anchor \in Nat /\ p.end \in Nat \union {NoDate} /\ ValidTimes(p.clock, p.duration)
         /\ p.mode = "interval" => p.count \in Nat
         /\ p.mode = "selected_dates" => p.dates \subseteq Nat
    /\ \A q \in Patches :
         /\ q.moved \in Nat \union {NoDate}
         /\ q.times # <<>> => ValidTimes(q.times[1], q.times[2])

VARIABLES
    now,        \* the clock, in slots
    db,         \* schedules, revisions, exceptions, sessions and their details
    manages,    \* the managers still manage the circle and it is not archived
    client,     \* per manager: the command in flight and its transaction
    left        \* what is left of the budget

vars == <<now, db, manages, client, left>>

LastDate == MonthLength * (Max(Months) + 1) - 1
Dates    == 0 .. LastDate

NoException == [version |-> 0, moved |-> NoDate, times |-> <<>>, cancelled |-> FALSE]
NoSession   == [status |-> "none", at |-> 0, duration |-> 0, cancelled |-> FALSE]
NoOneOff    == [status |-> "none", at |-> 0, cancelled |-> FALSE, version |-> 0]
NoSchedule  == [version |-> 0, stopped |-> NoDate]
Idle        == [phase |-> "idle"]
OneOffKey   == -2

Init ==
    /\ now = 0 /\ manages = TRUE
    /\ db = [schedule   |-> NoSchedule,
             revisions  |-> {},
             exceptions |-> [d \in Dates |-> NoException],
             sessions   |-> [d \in Dates |-> NoSession],
             oneoff     |-> NoOneOff]
    /\ client = [c \in Managers |-> Idle]
    /\ left \in Budgets

Today == now \div SlotsPerDay

ResolveStart(date, clock) == SlotsPerDay * date + clock

Interval(at, duration) == [from |-> at, to |-> at + duration]
-----------------------------------------------------------------------------
(* Resolving an occurrence; v is the state that a transaction reads         *)

GoverningRecord(v, date) == SelectRevision(v.revisions, date)

Generates(r, date) == date \in OccurrenceDates(r, date, date)

DateIsStopped(v, date) == v.schedule.stopped # NoDate /\ date >= v.schedule.stopped

EffectiveDate(e, date) == IF e.moved = NoDate THEN date ELSE e.moved

\* resolvedException: the interval of an occurrence under revision r.
Resolved(r, e, date) ==
    LET times == IF e.times = <<>> THEN <<r.plan.clock, r.plan.duration>> ELSE e.times
    IN  Interval(ResolveStart(EffectiveDate(e, date), times[1]), times[2])

\* resolveOccurrence: the governing revision of an occurrence that exists, as
\* a set of at most one.  The stop boundary applies to the effective date.
ResolveOccurrence(v, date) ==
    {r \in GoverningRecord(v, date) :
       Generates(r, date) /\ ~DateIsStopped(v, EffectiveDate(v.exceptions[date], date))}

\* resolveOccurrenceStartPlan: the intervals, at most one, at which
\* StartOccurrence would hold the occurrence.
StartPlan(v, date) ==
    {Resolved(r, v.exceptions[date], date) :
       r \in {s \in GoverningRecord(v, date) :
                /\ Generates(s, date)
                /\ ~v.exceptions[date].cancelled
                /\ ~DateIsStopped(v, EffectiveDate(v.exceptions[date], date))}}
-----------------------------------------------------------------------------
(* The calendar of a month                                                  *)

MonthStart(m) == SlotsPerDay * MonthLength * m
MonthEnd(m)   == MonthStart(m + 1)

\* The window of civil dates that is read for a month: the longest duration
\* and a day before it, a day after it.
FromDate(m) == Latest(0, (MonthStart(m) - MaxDuration) \div SlotsPerDay - 1)
ToDate(m)   == MonthLength * (m + 1) + 1

Intersects(i, m) == i.from < MonthEnd(m) /\ i.to > MonthStart(m)

Item(key, interval, state) == [key |-> key, interval |-> interval, state |-> state]

\* OccurrenceView: one occurrence, as the answer to its edit shows it.
OccurrenceView(v, date) ==
    {Item(date, Resolved(r, v.exceptions[date], date),
          IF v.exceptions[date].cancelled THEN "cancelled" ELSE "scheduled") :
       r \in ResolveOccurrence(v, date)}

\* calendarState
CalendarState(status, cancelled) ==
    IF cancelled THEN "cancelled"
    ELSE CASE status = "active" -> "active"
           [] status = "ended"  -> "completed"
           [] OTHER             -> "scheduled"

\* Mutation: an exception is looked up by the original date alone.
ListedByOriginal(e, d, m) == e.version > 0 /\ d \in FromDate(m) .. ToDate(m)

\* calendarExceptionsQuery
ListedException(e, d, m) ==
    /\ e.version > 0
    /\ d \in FromDate(m) .. ToDate(m) \/ e.moved \in FromDate(m) .. ToDate(m)

\* Virtual occurrences without a listed exception.
PlainItems(v, m) ==
    UNION {{Item(d, Resolved(r, NoException, d), "scheduled") :
              r \in SelectRevision(v.revisions, d)} :
             d \in {x \in OccurrenceWindow(v.revisions, FromDate(m), ToDate(m)) \intersect Dates :
                      ~ListedException(v.exceptions[x], x, m) /\ ~DateIsStopped(v, x)}}

\* Occurrences with one, rebuilt from the revision that governs the original
\* date when that date lies outside the window.
ExceptionItems(v, m) ==
    UNION {{Item(d, Resolved(r, v.exceptions[d], d),
                 IF v.exceptions[d].cancelled THEN "cancelled" ELSE "scheduled") :
              r \in {s \in SelectRevision(v.revisions, d) : Generates(s, d)}} :
             d \in {x \in Dates : /\ ListedException(v.exceptions[x], x, m)
                                 /\ ~DateIsStopped(v, EffectiveDate(v.exceptions[x], x))}}

\* calendarMaterializedQuery: these replace the virtual item of their key.
MaterializedItems(v) ==
    {Item(d, Interval(v.sessions[d].at, v.sessions[d].duration),
          CalendarState(v.sessions[d].status, v.sessions[d].cancelled)) :
       d \in {x \in Dates : v.sessions[x].status # "none"}}

\* calendarOneOffsQuery
OneOffItems(v) ==
    {Item(OneOffKey, Interval(o.at, 1), CalendarState(o.status, o.cancelled)) :
       o \in {v.oneoff} \ {NoOneOff}}

InMonth(items, m) == {i \in items : Intersects(i.interval, m)}

Month(v, m) ==
    LET materialized == InMonth(MaterializedItems(v), m)
        virtual      == InMonth(PlainItems(v, m) \union ExceptionItems(v, m), m)
    IN  InMonth(OneOffItems(v), m) \union materialized
          \union {i \in virtual : \A j \in materialized : j.key # i.key}
-----------------------------------------------------------------------------
(* Overlap warnings                                                         *)

\* previewWindow: the occurrences of a proposed revision.
PreviewDates(r) ==
    LET from == Latest(r.plan.anchor, r.effective)
    IN  OccurrenceDates(r, from, IF r.plan.mode = "selected_dates" THEN LastDate
                                 ELSE from + PreviewDays)

\* shouldExcludeOverlap: a changed series ignores its own occurrences.
OfSeries == Dates

\* Warnings: the overlaps of a proposed revision with what the calendar shows
\* as scheduled or active in the months that it touches.
Warnings(v, r, exclude) ==
    LET proposed == {<<d, Resolved(r, NoException, d)>> : d \in PreviewDates(r)}
        months   == {m \in Months : \E p \in proposed : Intersects(p[2], m)}
        existing == {i \in UNION {Month(v, m) : m \in months} :
                       i.state \in {"scheduled", "active"} /\ i.key \notin exclude}
        clashes  == {c \in proposed \X existing :
                       /\ c[1][2].from < c[2].interval.to
                       /\ c[2].interval.from < c[1][2].to}
    IN  {[date |-> c[1][1], other |-> c[2].key,
          from |-> Latest(c[1][2].from, c[2].interval.from)] : c \in clashes}

\* requireOverlapConfirmation
Confirmed(v, r, exclude, reviewed) == Warnings(v, r, exclude) \subseteq reviewed

\* plannedRevision, and the plan of one edited occurrence: a single date.
OneDate(version, date, clock, duration) ==
    [version |-> version, effective |-> date,
     plan |-> [mode |-> "selected_dates", anchor |-> date, end |-> NoDate,
               dates |-> {date}, clock |-> clock, duration |-> duration]]

AtInterval(i) == OneDate(1, i.from \div SlotsPerDay, i.from % SlotsPerDay, i.to - i.from)
-----------------------------------------------------------------------------
(* Validation                                                               *)

Revision(version, effective, plan) ==
    [version |-> version, effective |-> effective, plan |-> plan]

\* validateNewPlan: the first affected start and every selected date that is
\* affected lie ahead.
ValidNewPlan(r) ==
    /\ ValidPattern(r)
    /\ ResolveStart(Latest(r.plan.anchor, r.effective), r.plan.clock) >= now
    /\ r.plan.mode = "selected_dates" =>
         \A d \in r.plan.dates : d >= r.effective => ResolveStart(d, r.plan.clock) >= now

\* validateSeriesBoundary: not before today, nor after the start of an
\* occurrence of that very day.
ValidBoundary(v, date) ==
    /\ v.revisions # {} /\ date >= Today
    /\ \A r \in GoverningRecord(v, date) :
         Generates(r, date) => ResolveStart(date, r.plan.clock) >= now

\* applyOccurrencePatch: what a patch leaves out keeps its earlier value.
Patched(e, patch) ==
    [version   |-> e.version + 1,
     moved     |-> IF patch.moved = NoDate THEN e.moved ELSE patch.moved,
     times     |-> IF patch.times = <<>> THEN e.times ELSE patch.times,
     cancelled |-> IF patch.cancel = "keep" THEN e.cancelled ELSE patch.cancel = "yes"]

\* Mutation: the session of the occurrence is not looked at.
AlwaysUnstarted(v, date) == TRUE

\* lockUnstartedOccurrence
Unstarted(v, date) == v.sessions[date].status \in {"none", "scheduled"}

\* supersedeUnstartedExceptionsQuery: the exceptions, as v shows them, whose
\* occurrence lives at or after the boundary and was not started.
Superseded(v, boundary) ==
    {d \in Dates : /\ v.exceptions[d].version > 0
                   /\ EffectiveDate(v.exceptions[d], d) >= boundary
                   /\ Unstarted(v, d)}

WithoutExceptions(dates) ==
    [d \in Dates |-> IF d \in dates THEN NoException ELSE db.exceptions[d]]

\* Repository.CreateSchedule, AppendRevision and StopSchedule.
Created(r) == [db EXCEPT !.schedule.version = 1, !.revisions = {r}]

Appended(v, r) ==
    [db EXCEPT !.schedule.version = @ + 1, !.revisions = @ \union {r},
               !.exceptions = WithoutExceptions(Superseded(v, r.effective))]

Stopped(boundary) ==
    [db EXCEPT !.schedule = [version |-> @.version + 1, stopped |-> boundary],
               !.exceptions = WithoutExceptions(Superseded(db, boundary))]

\* writeMaterializedOccurrence: the detail of the session, if it has one.
Rewritten(s, interval, cancelled) ==
    IF s.status = "none" THEN s
    ELSE [s EXCEPT !.duration = interval.to - interval.from, !.cancelled = cancelled,
                   !.at = IF s.status = "scheduled" THEN interval.from ELSE @]
-----------------------------------------------------------------------------
(* Sending a command                                                        *)

Exclusion(cmd) ==
    CASE cmd.op = "change" -> OfSeries
      [] cmd.op = "occurrence" -> {cmd.date}
      [] cmd.op \in {"oneoff", "restoreOneoff"} -> {OneOffKey}
      [] OTHER -> {}

\* The revisions, at most one, that the overlap check of a command looks at.
Proposal(v, cmd) ==
    CASE cmd.op = "create" -> {Revision(1, cmd.plan.anchor, cmd.plan)}
      [] cmd.op = "change" -> {Revision(cmd.expected + 1, cmd.from, cmd.plan)}
      [] cmd.op = "occurrence" ->
           {AtInterval(Resolved(r, Patched(v.exceptions[cmd.date], cmd.patch), cmd.date)) :
              r \in ResolveOccurrence(v, cmd.date)}
      [] cmd.op \in {"newOneoff", "oneoff"} -> {AtInterval(Interval(cmd.at, 1))}
      [] cmd.op = "restoreOneoff" -> {AtInterval(Interval(v.oneoff.at, 1))}
      [] OTHER -> {}

\* The manager may have seen the warnings of a preview, and confirms those.
Reviews(cmd) ==
    {{}} \union {Warnings(db, r, Exclusion(cmd)) : r \in Proposal(db, cmd)}

Send(c, kind, cmd) ==
    /\ client[c].phase = "idle" /\ left[kind] > 0
    /\ left' = [left EXCEPT ![kind] = @ - 1]
    /\ \E reviewed \in Reviews(cmd) :
         client' = [client EXCEPT ![c] =
           [phase |-> "sent", cmd |-> cmd, reviewed |-> reviewed, attempt |-> 1]]
    /\ UNCHANGED <<now, db, manages>>

\* The versions that a list of the schedules showed last.
Listed(d) == [series |-> db.schedule.version, expected |-> db.exceptions[d].version]

SendCreate(c) ==
    \E p \in Plans : Send(c, "series", [op |-> "create", plan |-> p])

SendChange(c) ==
    \E b \in Boundaries :
       /\ db.schedule # NoSchedule
       /\ \/ \E p \in Plans : Send(c, "series", [op |-> "change", plan |-> p, from |-> b,
                                                expected |-> db.schedule.version])
          \/ Send(c, "series", [op |-> "stop", from |-> b, expected |-> db.schedule.version])

SendOccurrence(c) ==
    \E d \in EditDates, p \in Patches :
       /\ OccurrenceView(db, d) # {}
       /\ Send(c, "edits", [op |-> "occurrence", date |-> d, patch |-> p, seen |-> Listed(d)])

SendStart(c) ==
    \E d \in EditDates : StartPlan(db, d) # {} /\ Send(c, "starts", [op |-> "start", date |-> d])

SendNewOneOff(c) ==
    \E at \in OneOffStarts : Send(c, "oneoffs", [op |-> "newOneoff", at |-> at])

\* A one-off is moved, cancelled or restored.
SendOneOff(c) ==
    \E at \in OneOffStarts, op \in {"oneoff", "restoreOneoff", "cancelOneoff"} :
       /\ db.oneoff # NoOneOff
       /\ op # "oneoff" => at = db.oneoff.at
       /\ Send(c, "oneoffs", [op |-> op, at |-> at, expected |-> db.oneoff.version])
-----------------------------------------------------------------------------
(* Transactions                                                             *)

IsSerializable(cmd) ==
    \/ cmd.op \in {"create", "change", "newOneoff", "oneoff", "restoreOneoff"}
    \/ cmd.op = "occurrence" /\ cmd.patch.cancel # "yes"

\* The first statement takes the snapshot, and then waits for the circle.
Begin(c) ==
    /\ client[c].phase = "sent" /\ IsSerializable(client[c].cmd)
    /\ client' = [client EXCEPT ![c] =
         [phase |-> "open", cmd |-> @.cmd, reviewed |-> @.reviewed, attempt |-> @.attempt,
          snap |-> db, overtaken |-> FALSE]]
    /\ UNCHANGED <<now, db, manages, left>>

View(c) == IF client[c].phase = "open" THEN client[c].snap ELSE db

\* A row that the command locks or writes was changed since its snapshot.
RowChanged(cmd, v) ==
    \/ cmd.op \in {"change", "occurrence"} /\ v.schedule # db.schedule
    \/ cmd.op = "occurrence" /\ v.exceptions[cmd.date] # db.exceptions[cmd.date]
    \/ cmd.op = "change" /\ \E d \in Superseded(v, cmd.from) : v.exceptions[d] # db.exceptions[d]
    \/ cmd.op \in {"oneoff", "restoreOneoff"} /\ v.oneoff # db.oneoff

\* Mutation: REPEATABLE READ, which only looks at the rows that are written.
OnlyRowsChanged(c) == RowChanged(client[c].cmd, client[c].snap)

\* SQLSTATE 40001.
SerializationFailure(c) == client[c].overtaken \/ RowChanged(client[c].cmd, client[c].snap)

\* withSerializableTx tries again, and gives up with ErrScheduleConflict.
Retry(c) ==
    /\ client[c].phase = "open" /\ SerializationFailure(c)
    /\ client' = [client EXCEPT ![c] =
         IF @.attempt < MaxAttempts
         THEN [phase |-> "sent", cmd |-> @.cmd, reviewed |-> @.reviewed, attempt |-> @.attempt + 1]
         ELSE Idle]
    /\ UNCHANGED <<now, db, manages, left>>

\* A command is refused, or its transaction fails: nothing changes.
Refuse(c) ==
    /\ client[c].phase \in {"sent", "open"}
    /\ client' = [client EXCEPT ![c] = Idle]
    /\ UNCHANGED <<now, db, manages, left>>

\* RequireCircleManage, and the level that the command runs at.
Runs(c, op) ==
    /\ client[c].phase \in {"sent", "open"} /\ client[c].cmd.op = op /\ manages
    /\ IF IsSerializable(client[c].cmd) THEN client[c].phase = "open" /\ ~SerializationFailure(c)
       ELSE client[c].phase = "sent"

\* The change and the replay record of its key commit together; the answer
\* arrives or is lost.  Other open snapshots are overtaken.
Commit(c, new) ==
    /\ db' = new
    /\ \E answer \in {Idle, [phase |-> "unanswered"]} :
         client' = [x \in Managers |->
           IF x = c THEN answer
           ELSE IF client[x].phase = "open" /\ IsSerializable(client[c].cmd)
           THEN [client[x] EXCEPT !.overtaken = TRUE] ELSE client[x]]
    /\ UNCHANGED <<now, manages, left>>

\* ReplayOrExecute: a command that is sent again finds its record.
Replay(c) ==
    /\ client[c].phase = "unanswered"
    /\ client' = [client EXCEPT ![c] = Idle]
    /\ UNCHANGED <<now, db, manages, left>>
-----------------------------------------------------------------------------
(* The commands                                                             *)

\* Bound: one series.
CreateSchedule(c) ==
    /\ Runs(c, "create") /\ db.schedule = NoSchedule
    /\ LET r == Revision(1, client[c].cmd.plan.anchor, client[c].cmd.plan)
       IN  /\ ValidNewPlan(r)
           /\ Confirmed(View(c), r, {}, client[c].reviewed)
           /\ Commit(c, Created(r))

\* updateSeriesDetails: details of sessions that were not started follow the
\* changed series, or are cancelled with their occurrence.
FollowSeries(v, new) ==
    [new EXCEPT !.sessions = [d \in Dates |->
       IF v.sessions[d].status # "scheduled" THEN @[d]
       ELSE IF ResolveOccurrence(new, d) = {} THEN [@[d] EXCEPT !.cancelled = TRUE]
       ELSE LET r == CHOOSE r \in ResolveOccurrence(new, d) : TRUE
                e == new.exceptions[d]
            IN  Rewritten(@[d], Resolved(r, e, d), e.cancelled)]]

ChangeSchedule(c) ==
    /\ Runs(c, "change")
    /\ LET v == View(c)
           cmd == client[c].cmd
           r == Revision(cmd.expected + 1, cmd.from, cmd.plan)
       IN  /\ v.schedule.version = cmd.expected
           /\ ValidBoundary(v, cmd.from) /\ ValidNewPlan(r)
           /\ Confirmed(v, r, OfSeries, client[c].reviewed)
           /\ Commit(c, FollowSeries(v, Appended(v, r)))

StopSchedule(c) ==
    /\ Runs(c, "stop")
    /\ LET cmd == client[c].cmd
       IN  /\ db.schedule.version = cmd.expected
           /\ ValidBoundary(db, cmd.from)
           /\ Commit(c, FollowSeries(db, Stopped(cmd.from)))

ChangeOccurrence(c) ==
    /\ Runs(c, "occurrence")
    /\ LET v == View(c)
           cmd == client[c].cmd
           d == cmd.date
           e == Patched(v.exceptions[d], cmd.patch)
       IN  /\ v.schedule.version = cmd.seen.series
           /\ v.exceptions[d].version = cmd.seen.expected
           /\ Unstarted(v, d)
           /\ ~DateIsStopped(v, EffectiveDate(e, d))
           /\ \E r \in ResolveOccurrence(v, d) :
                LET i == Resolved(r, e, d)
                IN  /\ i.from >= now
                    /\ e.cancelled \/ Confirmed(v, AtInterval(i), {d}, client[c].reviewed)
                    /\ Commit(c, [db EXCEPT !.exceptions[d] = e,
                         !.sessions[d] = IF v.sessions[d] = NoSession THEN @
                                         ELSE Rewritten(@, i, e.cancelled)])

\* The occurrence gets its session and that session starts in one transaction.
StartOccurrence(c) ==
    /\ Runs(c, "start")
    /\ LET d == client[c].cmd.date
           s == db.sessions[d]
       IN  \E i \in StartPlan(db, d) :
             \/ /\ s = NoSession
                /\ Commit(c, [db EXCEPT !.sessions[d] =
                     [status |-> "active", at |-> i.from, duration |-> i.to - i.from,
                      cancelled |-> FALSE]])
             \/ s.status = "active" /\ ~s.cancelled /\ Commit(c, db)

\* Bound: one one-off.
CreateOneOff(c) ==
    /\ Runs(c, "newOneoff") /\ db.oneoff = NoOneOff
    /\ LET at == client[c].cmd.at
       IN  /\ at >= now
           /\ Confirmed(View(c), AtInterval(Interval(at, 1)), {}, client[c].reviewed)
           /\ Commit(c, [db EXCEPT !.oneoff =
                [status |-> "scheduled", at |-> at, cancelled |-> FALSE, version |-> 1]])

\* lockOneOff: the one-off as expected, and not started.
OneOffLocked(v, cmd) == v.oneoff.status = "scheduled" /\ v.oneoff.version = cmd.expected

ChangeOneOff(c) ==
    /\ Runs(c, "oneoff")
    /\ LET at == client[c].cmd.at
       IN  /\ OneOffLocked(View(c), client[c].cmd) /\ at >= now
           /\ Confirmed(View(c), AtInterval(Interval(at, 1)), {OneOffKey}, client[c].reviewed)
           /\ Commit(c, [db EXCEPT !.oneoff.at = at, !.oneoff.version = @ + 1])

RestoreOneOff(c) ==
    /\ Runs(c, "restoreOneoff")
    /\ LET at == View(c).oneoff.at
       IN  /\ OneOffLocked(View(c), client[c].cmd) /\ at >= now
           /\ Confirmed(View(c), AtInterval(Interval(at, 1)), {OneOffKey}, client[c].reviewed)
           /\ Commit(c, [db EXCEPT !.oneoff.cancelled = FALSE, !.oneoff.version = @ + 1])

CancelOneOff(c) ==
    /\ Runs(c, "cancelOneoff") /\ OneOffLocked(db, client[c].cmd)
    /\ Commit(c, [db EXCEPT !.oneoff.cancelled = TRUE, !.oneoff.version = @ + 1])
-----------------------------------------------------------------------------
(* Outside the module: live sessions, the circle and the clock              *)

\* sessions: a planned one-off starts unless it is cancelled.
StartOneOff ==
    /\ left["starts"] > 0 /\ left' = [left EXCEPT !["starts"] = @ - 1]
    /\ manages /\ db.oneoff.status = "scheduled" /\ ~db.oneoff.cancelled
    /\ db' = [db EXCEPT !.oneoff.status = "active"]
    /\ UNCHANGED <<now, manages, client>>

EndSession ==
    /\ \/ \E d \in Dates : /\ db.sessions[d].status = "active"
                           /\ db' = [db EXCEPT !.sessions[d].status = "ended"]
       \/ db.oneoff.status = "active" /\ db' = [db EXCEPT !.oneoff.status = "ended"]
    /\ UNCHANGED <<now, manages, client, left>>

\* The managers' roles, or the circle, are taken away or given back.
CircleChanges ==
    /\ left["roles"] > 0 /\ left' = [left EXCEPT !["roles"] = @ - 1]
    /\ manages' = ~manages
    /\ UNCHANGED <<now, db, client>>

Tick ==
    /\ now < MaxNow /\ now' = now + 1
    /\ UNCHANGED <<db, manages, client, left>>

Next ==
    \/ \E c \in Managers :
         \/ SendCreate(c) \/ SendChange(c) \/ SendOccurrence(c) \/ SendStart(c)
         \/ SendNewOneOff(c) \/ SendOneOff(c)
         \/ Begin(c) \/ Retry(c) \/ Refuse(c) \/ Replay(c)
         \/ CreateSchedule(c) \/ ChangeSchedule(c) \/ StopSchedule(c)
         \/ ChangeOccurrence(c) \/ StartOccurrence(c)
         \/ CreateOneOff(c) \/ ChangeOneOff(c) \/ RestoreOneOff(c) \/ CancelOneOff(c)
    \/ StartOneOff \/ EndSession \/ CircleChanges \/ Tick

Spec == Init /\ [][Next]_vars
-----------------------------------------------------------------------------
(* Properties                                                               *)

\* Calendar, occurrence view and start agree (calendar_service.go month,
\* schedule_service.go resolveOccurrence, occurrence_start_service.go): an
\* occurrence that has no session is shown in exactly the months of its
\* resolved interval, whatever revision, move, cancellation or stop applies
\* to it, and StartOccurrence would hold it at that interval exactly when it
\* is shown as scheduled.
CalendarAgrees ==
    /\ \A m \in Months :
         LET shown == Month(db, m)
         IN  \A d \in Dates : db.sessions[d] = NoSession =>
               {i \in shown : i.key = d} = InMonth(OccurrenceView(db, d), m)
    /\ \A d \in Dates :
         StartPlan(db, d) = {i.interval : i \in {j \in OccurrenceView(db, d) : j.state = "scheduled"}}

\* Started history is kept (ADR-026; lockUnstartedOccurrence, lockOneOff): no
\* command moves, cancels or restarts a session that has started, whatever
\* snapshot it read, and no second session takes its occurrence.
HistoryIsKept ==
    [][/\ \A d \in Dates : db.sessions[d] # NoSession =>
            \/ db'.sessions[d] = db.sessions[d]
            \/ db'.sessions[d] = [db.sessions[d] EXCEPT !.status = "ended"]
       /\ \A d \in Dates : db.sessions[d] # NoSession =>
            db'.exceptions[d].cancelled = db.exceptions[d].cancelled
       /\ db.oneoff.status \in {"active", "ended"} =>
            \/ db'.oneoff = db.oneoff
            \/ db'.oneoff = [db.oneoff EXCEPT !.status = "ended"]]_vars

\* No overlap is committed unseen (overlap_service.go Check): when a command
\* that plans something commits, every overlap of its plan with the circle's
\* commitments at that moment was confirmed by its manager, although the
\* check read an older snapshot.  Only a stop that ran in between is
\* excepted: it is no serializable command, and may give an occurrence that
\* had been moved its original date back.
OverlapsWereReviewed ==
    [][\A c \in Managers :
         (client[c].phase = "open" /\ db' # db /\ client'[c].phase # "open"
            /\ client[c].snap.schedule = db.schedule) =>
           \A r \in Proposal(db, client[c].cmd) :
              \/ Warnings(db, r, Exclusion(client[c].cmd)) \subseteq client[c].reviewed
              \/ client[c].cmd.op = "occurrence"
                   /\ Patched(db.exceptions[client[c].cmd.date], client[c].cmd.patch).cancelled]_vars
=============================================================================
