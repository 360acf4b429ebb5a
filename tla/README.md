# TLA+ models of Halaqaty

Halaqaty runs live Quran recitation circles: a Go backend over PostgreSQL, a
LiveKit media server beside it, and a Flutter application. This project models
the parts of the backend that keep state, each with the concurrency, the
failures and the retries its code meets: circles and their members, accounts,
planned and live sessions, attendance, the recitation queue with its events down
to the phone that shows it, and chat.

## 1. Inventory

| Component | State | Operations | Interaction | What is hard |
|---|---|---|---|---|
| **Recitation queue** `backend/internal/queue` | rounds, entries, preorders, opt-out requests, progress rows, policy columns, outbox rows | prepare, reorder, move, advance, start, complete, correct, skip, opt out, decide, reset, finalize, late join | called by HTTP handlers; told by `sessions` of starts, joins and ends; writes the outbox in its transactions | several managers and students at once, versions read earlier, a reset in two transactions, reads before locks |
| **Queue outbox and dispatcher** `queue/outbox.go`, `cmd/api/main.go` | `queue_event_outbox` rows with lease, attempts, parking | claim, project, deliver, retry, park, replay at startup | reads the queue, calls the hub | crashes, failing updates, retries, batches |
| **Realtime hub** `backend/internal/realtime` | connections, topics, seen event IDs | connect, subscribe (with snapshots), broadcast, send to user, remove | called by dispatchers, serves phones | broken connections, duplicates, snapshots overtaken by events |
| **Mobile queue client** `mobile/lib/features/sessions` | view, refresh generation, decoder position | refresh, handle event, reconnect | REST for truth, WebSocket for hints | several refreshes under way, gaps, stale snapshots |
| **Live sessions** `backend/internal/sessions` | session row, presence rows, lock and hand flags; rooms at LiveKit | create, start, join, lock, remove, raise hand, end, recover | LiveKit gateway, queue observer, attendance in the same transactions | requests authorized earlier; a local commit and a remote effect that fail apart |
| **Attendance** `backend/internal/attendance` | roster, first presence, corrections, receipts | snapshot, record, classify, finalize, correct | called by sessions and by its reconciler | finalization repeated after corrections |
| **Circles and membership** `backend/internal/rbac` | circles, members, roles, invitations | create, join, assign role, remove, update, refresh code, archive | everybody reads the membership | limits across circles, the last teacher, roles that change meanwhile |
| **Accounts and profiles** `backend/internal/auth`, `profile`, `middleware` | users, tombstones, profiles, backend sessions; identities at Firebase | register, log in, admit, log out, update, close, reconcile | Firebase; sessions and chat look at `deleted_at` | a closure between any two statements of other requests; deletion in two systems |
| **Chat** `backend/internal/chat` | messages, receipts, uploads, pins, outbox; objects in the store | send, reply, upload, attach, mark read, pin, delete, clean up, reconcile, dispatch | object store, hub | media in two stores, events out of order |
| **Scheduling** `backend/internal/scheduling` | schedules, revisions, exceptions, planned details, replay records | create, change, stop, edit, cancel, restore, start, preview, calendar | creates and starts sessions | two isolation levels, snapshots, three places that resolve an occurrence |

What makes them correct: one turn at a time, rounds in order and a history that
agrees with them; no event lost; a screen that ends up with what the server has;
nobody admitted who may not be; rooms, identities and objects that end up as the
database says; limits that hold under concurrency; a calendar that says what a
start would do; nothing planned over something unseen. The properties below
state these. The hazards, each at its line, are listed in `PROJECT.json`.

## 2. Modules

| Module | Models |
|---|---|
| `RecitationQueue` | the queue of one live session, one action per committed transaction |
| `MCRecitationQueue`, `RecitationQueueProofs` | the policies of its runs; theorems about it |
| `QueueDelivery` | outbox, dispatcher, hub and the process that runs them |
| `MCQueueDelivery`, `QueueDeliveryProofs` | a student with two devices, a teacher with one, and their events; theorems |
| `QueueSync` | the phone that follows the queue |
| `SessionLifecycle` | what a live session promises, without tables or requests |
| `LiveSession`, `MCLiveSession`, `LiveSessionProofs` | one live session with presence and attendance, between authorized requests and commits; implements `SessionLifecycle`, with its proof |
| `SessionRecovery`, `SessionRecoveryProofs` | rooms at the media provider and the worker that repairs them |
| `Accounts`, `AccountsProofs` | accounts, backend sessions, profiles and closure, statement by statement |
| `Circles`, `MCCircles`, `CirclesProofs` | circles and members, transactions with their row locks |
| `Chat`, `MCChat`, `ChatProofs` | messages, media, receipts, pins, deletion, workers and outbox |
| `Recurrence` | the dates of a recurring plan, as pure operators |
| `Scheduling`, `MCScheduling`, `SchedulingProofs` | series, exceptions, one-offs, starts, calendar and overlaps |

The queue's modules share interfaces rather than variables: what `RecitationQueue`
announces (`deltas`, `notices`) is what `QueueDelivery` delivers and `QueueSync`
receives; the callbacks it gets are those that `LiveSession` raises. Attendance is
part of `LiveSession`, because it is written in the same transactions, and the
circle and the closure of accounts are its environment; their own concurrency is
the subject of `Circles` and `Accounts`. `Scheduling` ends where a session starts.

### RecitationQueue

The tables are variables: `round` (`recitation_queue` with the preorder of the
round), `entry`, `progress` (`memorization_progress`), `requests`
(`queue_opt_out_requests`), `policy` and `policyVersion` (columns of `sessions`),
`members`/`staff` (`circle_members`), `present`/`barred` (presence rows), and of
the outbox what the properties need: `deltas`, the versions announced in commit
order, and `notices`, the events that announce none. Every service method of
`queue` that commits is one action with its guards in code order; a command that
is refused commits nothing and is not a step. Every version a client may send is
an input, so a stale command is simply one whose guard fails.

Where the code is not one transaction, the model is not either:

- an opt-out request reads entry and request before it locks the session
  (`RequestRead`) and acts on that reading later (`RequestApprovalRequired`,
  `RequestAutoApprove`, `RequestEnd`); `call` holds what was read;
- a reset without idempotency key is `ResetFinalize` and `ResetActivate`, with
  `resetting` for the advisory lock held in between, and `ResetCrash` for a
  process that dies there; with a key it is one transaction (`ResetKeyed`);
- `startNotice` and `joinNotices` are the observer callbacks of `sessions` that
  have not run; `LoseCallback` is a timeout or a swallowed error. `StartSession`
  raises its notice also for a session that is active already, as the code does;
  the start of a planned occurrence, which creates the session in the same
  transaction, raises none.

Abstractions: text, Quran ranges and notes are dropped; the order of students
without preorder (join time, then ID) is any order. `joined_at` is compared with
`activated_at` only. Both are `NOW()`, the start of their transaction, so what the
comparison says is not the order of commits: `joined` records for each member whether
the join began and committed before the last activation (`"before"`), began before and
committed after it (`"across"`), or began after it (`"after"`); `"initial"` are the
members from before the session. `JoinCircle` may commit either of the last two,
and an activation sees each of its newcomers as older or newer than itself, since its
own transaction may have begun before theirs (`RestampJoins`). Grade visibility
only filters what readers see.

### QueueDelivery

A row is absent, pending (due or leased), parked or delivered, with its attempt
count. The dispatcher is one goroutine: it claims a batch (`DispatchDue`,
`Replay`), projects the first row into a plan of hub calls (`Project`), makes
them one by one (`Send`, each under the hub's mutex), and stores the outcome.
`AbortBatch` is a failed `UPDATE`, `Crash` loses everything but the table.
`Broadcast` remembers an event ID after all writes, `SendToUser` before, as the
code does. The claim returns rows in any order and, if more are due than fit, any
of them: `UPDATE ... RETURNING` promises no order.
A claimed row whose lease runs out is not claimed twice, since the one dispatcher
finishes its batch first; a second backend process is outside the model.

### QueueSync

The queue is three numbers: displayed round, its version, the policy's version.
`Change`, `Reset` and `UpdatePolicy` commit and leave an event; the hub subscribes
the connection, then reads the snapshot, then writes it; the phone loads the queue,
opens the socket and handles one frame at a time. A refresh reads the server some
time after it was sent and returns later still. The participant is a manager, to
whom every delta is sent: those of the queue are broadcast (`Broadcast`), those of
grades under restricted visibility and of preorders go through `SendToUser`, whose
retry the hub takes for a duplicate. If another device of the manager breaks during
the first attempt, such an event may never reach this one (`swallowed`; the trace
itself is `lost_prompt`). Not in the module: the answers of the manager's own commands,
which replace the view unconditionally, and a snapshot whose read fails.

### LiveSession and SessionLifecycle

`Request` is what the middleware and `authorize` check; the transaction (`Handle`
in every action) comes later, when roles, membership, account or session may have
changed. Each transaction holds the session's advisory or row lock and is one
step: presence, seat count, roster and status change together. Time is one bit, the
ten minutes after which a join is late. `ImplementsLifecycle` maps the rows to
`SessionLifecycle`: seats are the present rows, who is barred has a removed row,
who is entitled is a member of a live circle with an open account *now*. The
interesting step is the join: it satisfies the abstract guard only because
`CheckStudentJoin` and `lockActiveParticipantAccount` read again under locks.
`LeaveSession` and `ReconnectPresence` are reached only with a store other than
the repository, and the LiveKit webhook is acknowledged without effect: neither
is an action.

### SessionRecovery

A row is its status and its place in the order of `updated_at`. A start ensures the
room inside its transaction, an end closes it after the commit and drops the
error; calls fail, or take effect after their timeout (`late`), rooms vanish, the
process dies. `lost` are the rooms that vanished by themselves, `torn` those that were
removed by a close the program had given up waiting for. The worker lists `Limit` rows of each status, and reads each again
under `TrySessionLock`.

### Accounts

Requests are sequences of statements (`pc`); a closure, which is one transaction,
may come between any two. `Tombstone` is the hash that survives the removal of the
Firebase UID. `DeleteUser` may fail with or without effect; `worker` is
`ReconcilePending` with its cursor, which lives in memory.

### Circles

A command locks the circle (`FOR UPDATE`), reads, decides from what it read, and
commits in another step; a join then locks the user, and the foreign keys of a
creation take key-share locks (`UserFree`, `UserReferable`). The model would let
two commands act on stale readings; only the locks prevent it, and the mutants
remove them.

### Chat

Database and object store change in separate steps. Deletion and pinning are
transactions of several steps, since one calls the store in between and the two
take message and circle in opposite orders (PostgreSQL aborts one: `Abort`). A
member of `Messages` stands for a sender with an idempotency key. The reconciler
reads without lock and acts later; the dispatcher loads a message and projects it
later. `shown` is what clients last saw.

### Recurrence and Scheduling

A civil date is a number; `Recurrence` follows the loops of `recurrence.go` with
their arithmetic jumps. `WindowsAgree` in `MCScheduling`, evaluated in each run,
compares them with the plain meaning of the modes over all small plans, windows
and effective dates. In `Scheduling` `db` is the tables, and every definition that
resolves something takes the state `v` a transaction reads. Commands that may add a
commitment run at SERIALIZABLE: `Begin` takes their snapshot, `overtaken` and
`RowChanged` stand for SQLSTATE 40001, `Retry` for `withSerializableTx`. Stop,
cancel and start run at READ COMMITTED and are one step over the current rows:
that a serializable command does not see them is part of the model. PostgreSQL's
serializable level is modelled as refusing every command whose snapshot was
followed by another serializable commit; it may refuse fewer, where the readings
of the two do not meet, which changes no outcome: all commands of the model are on
one circle, whose whole plan each of them reads. Across circles nothing is claimed. The calendar is computed as
`calendar_service.go` does, from plain occurrences, exceptions found by either
date, materialized rows and one-offs.

## 3. Runs

| Run | Shows | Bounds |
|---|---|---|
| `turns` | one turn at a time, live selection, history equal to the queue, contiguous places, versions that guard content, final turns | 3 students (interchangeable), 1 round, 2 grades, versions to 8: two complete turns, or one with moves, corrections and skips between |
| `failures` | rounds in order, lifecycles forward, each version announced once, an approval means an opted-out entry | 2 rounds, lost callbacks, crashed resets, 2 opt-out handlers at once, the opt-out policy switched once |
| `latejoin` | B1 (a prepared round waits only behind an active one), joins honoured | 2 students, one joins the circle late, is removed and joins again, the other changes role; 2 rounds |
| `delivery` | types, no broadcast lost, parking only after all retries, every row settles | 2 events, 2 devices, 1 retry, 1 crash or failed call anywhere |
| `lost_prompt` *violated* | a retried prompt is suppressed | 1 student with 2 devices |
| `sync` | the view converges within a round | 3 changes, 1 reconnect, 1 swallowed event, 1 failure, 2 refreshes at once |
| `livesession` | the session implements its lifecycle; seats counted, closed accounts not inside, corrections win | 3 people, 2 seats, 2 requests under way, 1 change of roles, circle or accounts, 2 correction keys |
| `recovery` | no close that takes effect in time hits an active session; rooms of ended ones are closed, those of active ones come back | 2 sessions, pages of 1, 3 faults, one room that never closes |
| `accounts` | closure is final, leaves no session, no profile, no identity; nobody closed is admitted | 2 identities, 3 accounts, 2 sessions, 2 requests, 1 fault, 1 identity that cannot be removed, batches of 1 |
| `circles` | a teacher always, joins welcome and within the limit, actors still manage | 3 people, 2 circles, 2 open transactions, 3 commands, capacities 1 and 2, limit 1 |
| `chat` | limits, media follow messages, deletions shown last, events settle | 2 people, 2 messages, 2 uploads, 2 transactions, limits 1, 2 attempts; 7 budgets, each making one part busy |
| `scheduling` | calendar, occurrence and start agree; started sessions are left alone; overlaps were reviewed | 2 managers, weeks of 2 days, months of 4, 2 starts a day, 2 plans, 4 edits; 7 budgets |

Three students are what positions need (a move has a first, a middle and a last
place). The retry limit of 5 is a parameter: with 1 a row runs through first
attempt, retry and parking. Three changes let one be lost before the subscription,
one race the snapshot and one race a refresh. Two seats and two requests let the
last seat be contested; a page of one with a row in front that cannot be repaired
shows starvation; limits of one are reached by two requests at once. Two short
months contain an occurrence that crosses a month's end, a move into the other
month, and a stop boundary on either side. `Budgets` (in `Chat` and `Scheduling`)
are sets of allowances, one of which a behaviour chooses at the start: the instance
covers each combination of operations that can interact without multiplying all of
them. All bounds are named constants and cut by guards, which removes behaviours
and adds none. Deadlock is not checked, because every bounded run ends.

`lost_prompt` states what a contract says of delivery; the finding in
`PROJECT.json` quotes it.

### Known differences without a run

Where the code, as modelled, does less than a document or a comment says, or than
one might expect, the properties say exactly how far it goes. To see a trace, drop
the exception that is named, or state the sentence as an invariant.

*Queue.*
- A reset without key is two transactions (`round_service.go:404`): a crash between
  them breaks B1 (data-model.md:57, 188). Set `ResetCrashes` in `latejoin.cfg`.
- An opt-out read before a reset changes an entry of the finalized round
  (`optout_service.go:150`, data-model.md:184).
- A switch of the population policy makes a late joiner look materialised
  (`round_service.go:303` against its comment at 265); so does a student's time as
  staff, hence the `Promotable` in `JoinIsHonoured`; so does a join transaction open
  across the activation, whose `joined_at` is the earlier time although the population
  was read without it (`JoinedAcross`): the student has no place in that round, while
  plan.md:119 of specs/003 serves whoever was added after the activation.
- An opted-out entry may have only a declined or pending request
  (`optout_service.go:173` against line 57). A lost `OnSessionStarted` is
  repaired only by the next prepare or another `StartSession`, not by a
  reconciliation as `queue_observer.go:41` says. A move makes a `complete` under way
  stale (`queue_repository.go:407`). A reset does not use the `expected_version` it
  demands (`handler.go:168`).
- On the phone, a snapshot overtaken by a reset sticks (`queue_controller.dart:148`,
  research.md:73), a policy change before the subscription is never seen
  (`queue_controller.dart:142`), and a failed refresh whose error an older snapshot
  clears leaves an old version: `RoundConverges` is stated within a round, for
  refreshes that succeed, and unless the last version's event was swallowed.

*Sessions.* A sweep's close of a scheduled session's room may time out and take effect
after a start ensured that room (`reconciler.go:144`): the lock was given back with the
call, so it does not exclude what the comment at `reconciler.go:22` says, hence `torn`
in `ActiveKeepsRoom`. The next sweep that reaches the row restores the room. Scheduled and active rows do not rotate in the recovery scan
(`session_repository.go:793`): beyond the page they wait, hence `InActivePage`.

*Accounts.* `Touch` matches a backend session by its ID alone: a request whose session
is logged out between the middleware's reading and that statement is still admitted,
so `AdmittedIsActive` speaks of the account only. A profile update whose statement began before the closure writes
personal data back (`overtaken` in `ClosedProfileIsErased`; specs/001 FR-016). A
registration that dies between user and profile leaves a user without one.
Realtime tickets of 60 seconds outlive closure and logout.

*Circles.* `AssignRole` does not look at `deleted_at`: a closed account that is
still a member can be promoted.

*Chat.* An event whose last attempt is interrupted is neither claimed nor parked
again (`Stranded` in `EventsSettle`; `outbox_queries.go:50`). The reconciler takes
the first 100 media messages without cursor (`queries.go:472`). A cleaner that dies
after its claim leaves a revoked row. `DeletionIsLast` needs the one dispatcher
process that `main.go` starts. A page of messages fails as a whole if one media
message is deleted between its load and `RenewMediaURL`.

*Scheduling.* An edit with an older snapshot may commit after a start and leave an
exception that shows the started occurrence as scheduled in the month it was moved
to (specs/006 FR-013); `HistoryIsKept` covers the session, not that item. A stop
gives a moved occurrence its original date back, unseen by an overlap check under
way (hence the exception in `OverlapsWereReviewed`), and a past occurrence that had
been moved can reappear as scheduled. The preview looks 30 days ahead.

### Fairness

`RecitationQueue`, `LiveSession`, `Circles` and `Scheduling` have none: people act
when they like, and their properties are safety. `QueueDelivery` assumes that the
dispatcher's loop goes on (it is a ticker that only ends with the process), that
leases and backoffs, which are times, run out, and that a dead process is started
again. `QueueSync` assumes that what is under way goes on: the dispatcher
sends, the hub serves the connection, requests are answered, frames are
handled. `SessionRecovery` assumes the sweep, which runs every 30 seconds, that a
start which holds the lock ends, and that late effects arrive. `Accounts` assumes
the hourly `ReconcilePending`. `Chat` assumes only its dispatcher and its media
reconciler, both tickers whose leases and backoffs run out; nothing of open
transactions or of the cleaner. Nobody is assumed to join, send, retry or reconnect.

## 4. Proofs

`tlapm` proves every invariant and every action property that a passing run
checks, and the refinement of `SessionLifecycle`, for all values of the
constants: any number of students, events, accounts, circles, open transactions,
plans; the bounds of the runs are constants like the others. Each `...Proofs`
module states an inductive invariant `Inv` (or named parts of it), proves it
action by action, and derives the theorems from it. The type invariants of
`LiveSession`, `Accounts`, `Circles` and `Chat` are proved and in no run: they are part
of those inductive invariants.

The assumptions are those the modules name. They say what the schema, the
configuration or the validation of a request guarantees: sets of people, rows and
keys are finite; a null, a tombstone or an idle value is none of the things it
stands beside (`Null`, `All`, `"none" \notin Uids`); limits and counters are
natural numbers, the retry limit, page and batch sizes and capacities positive; a
correction names a status of the attendance enumeration (`Corrections`); a plan or an
edit that is sent has passed `ValidatePlannedClocks` and its dates were parsed
(`SentPlans`). Two theorems have a hypothesis of their own, named below.

### RecitationQueueProofs

- `TypeCorrect` (`TypeOK` is inductive), and `RoundsInOrder` (`RoundOrder`). The latter
  is not inductive by itself: an activation takes the lowest *prepared* round, and
  says nothing of rounds that do not exist. `OrderedRows` adds that round numbers
  are used without gaps, which `NextRoundNumber` keeps; the lower rounds are then
  neither prepared nor absent, and none is active, so they are finalized.
- `TurnsOneAtATime` (`OneReciter`, `SelectionIsLive`). Each of the two needs the other
  (`LiveRow`): a start is safe because whoever recites is the selected one, and a
  selection is only replaced when nobody recites.
- Four theorems share one description of steps, `NextSteps`: for each round, any
  transaction is a creation, an activation, a move, a late join, a finalization
  or one turn (`Created`, `Populated`, `Rearranged`, `Joined`, `Skipped`, `Turned`), and
  raises the version and announces it exactly if it changes anything (`Raised`).
  `Kept` is the invariant of one round: its deltas are the versions 2 to the present
  one, its places are a bijection, and a round not yet activated has no entries.
  From these: `VersionsAnnounced`, `PlacesContiguous`, `VersionsGuard`
  (`VersionGuardsContent`), `TurnsStayFinished` (`TerminalIsFinal`).
- `RoundsMoveForward` (`RoundLifecycleForward`), from the session's status as each
  transaction reads it under its lock.
- `ProgressRecorded` (`ProgressMatchesQueue`): the only steps that write an entry's
  grade or completion write its progress row in the same transaction.
- `ApprovalsStand` (`ApprovedIsOptedOut`): an opt-out that was read before any lock
  cannot leave an approved request on another entry state, since the version it
  read still stands when it commits.
- `NoRoundLeftWaiting` (`ActivationInvariant`), *if no callback is lost and no reset
  dies between its transactions*. Without either hypothesis it is false, see
  "Known differences".
- `JoinsAreHonoured` (`JoinIsHonoured`), *if no callback is lost and the policies that
  may be set agree on the population*. Under `all_active_students` a late join
  serves only members newer than the last activation; `Seating` says why this leaves
  nobody out: every other member has an entry of the active round (`Settled`), except
  who was staff at the activation and who joined in a transaction open across it. The
  theorem excepts both by name; without the latter TLC finds the skipped student in
  the `latejoin` run. Switching the population does break it, as reported above.

### QueueDeliveryProofs

- `DeliveryTypeCorrect`: `TypeOK` with `HoldsRow` (the dispatcher works on a row only
  while it holds one, and none before the process has started).
- `NoBroadcastLost` (`BroadcastReachesAll`): a device is owed an event only while its
  connection is whole (`OwedAreOpen`); the hub remembers a broadcast only when all
  that are owed it have it (`SeenIsWritten`, the place where `SendToUser` differs);
  while a row is dispatched its broadcast is still to come or was remembered
  (`ToComeOrSeen`); rows being dispatched and remembered messages were committed
  (`Committed`), so a new row starts unseen.
- `NoRowParkedEarly` (`ParkedAfterRetries`): attempts are counted only with an outcome
  that is stored, so neither an aborted batch nor a crash uses one up (`RetryInv`).

### LiveSessionProofs

`Inv` joins `TypeOK`, `Seating` (the count is the number of present rows while
active, and no row is present otherwise), `History` (corrections belong to an ended
session and have a youngest one), and the two properties. From it `LiveTypeCorrect`,
`SeatsCounted`, `ClosedStayOut` (`DeletedNotPresent`), `CorrectionsPrevail`
(`CorrectionWins`), and `LifecycleImplemented`: each action is mapped to a step or a
stutter of `SessionLifecycle`, one lemma per kind of action. The join is the step
that needs the rows read again in the transaction: what its request was admitted
with does not occur in the proof.

### SessionRecoveryProofs

`RoomsKept` (`ActiveKeepsRoom`). A start that has ensured its room holds the lock, so
its row still says scheduled (`Locked`); the room is there from `EnsureRoom` on
(`Housed`), and no row that says active has it closed by a call in progress. What the
worker has listed, and the order of its page, play no part: it reads each row again.
The theorem is about closes that take effect within their call: a room removed by the
provider is in `lost`, one removed by a close that had timed out in `torn`. No
lock helps against the latter: without `torn` TLC finds the room of an active session
removed within one fault.

### AccountsProofs

`AccountsTypeCorrect`, `TombstonesStand`, `ClosedSessionsGone`, `ClosedProfilesErased`
and `AdmissionIsCurrent`. The invariant says what a request may rely on between two
statements (`Relies`): a row that was found deleted stays so and a session stays its
user's, while an account found open may have been closed since; hence the
conditions in the writing statements. `Identities` (an identity has one row at most,
and only a tombstone loses its UID) carries the tombstone through the worker's
removal, and `StoredActive` is the induction for sessions.

### CirclesProofs

`CirclesTypeCorrect`, `TeacherRemains` (`AlwaysATeacher`), `JoinsAreWelcome`,
`JoinsStayWithinLimit`, `ActorsManage`. A circle belongs to one transaction at a time
(`OneHolder`); so what was read under its lock is what the tables still hold when
the transaction commits (`Snapshot`), and the decision made from it is a decision
about the present. The membership limit spans circles: there it is the lock of the
user's row that keeps a count true (`Counted`, `UserHeld`).

### ChatProofs

`ChatTypeCorrect`, `LimitsAlwaysHold`, `DeletionsAreLast`. A pin that was counted under
the circle's lock still counts when it commits (`Locks`, `Pins`); an upload is within
the hour's quota because it is counted again under its owner's lock when its row is
inserted, and what the cleaner may hand back no longer counts (`Quota`). `Announced` is the invariant behind the
order of events: a deletion is announced only after it committed, and by then no
event loaded before it is still to be delivered by the one dispatcher.

### SchedulingProofs

- First the lemmas about recurrence: whether a date occurs does not depend on the
  window it is asked in (`WeekdayDatesInWindow`, `IntervalDatesInWindow`, hence
  `DatesInWindow`); the arithmetic jumps of `recurrence.go` are the reason this needs
  a proof.
- `StartedHistoryKept` (`HistoryIsKept`): a command sees either rows that nobody has
  changed since its snapshot, or the current ones; either way it finds a started
  occurrence started (`RunsOn`, `CommandEffect`).
- `CalendarsAgree`: the dates a month reads are enough for occurrences that cross its
  edge (`WindowSuffices`, with `ResolvedInterval`), at most one revision governs a
  date (`OneGoverns`), and the four sources of items neither miss nor repeat one
  (`VirtualItems`, `MonthShows`, `StartsAreShown`).
- `OverlapsReviewed`: the tables differ from the snapshot of a transaction that was
  not overtaken by starts, ends and cancellations only (`Since`, part of `Inv`), or
  the series was stopped; none of these adds a commitment (`NothingNew`,
  `WarningsShrink`), so what was reviewed covers what stands.

### Model-checked only

- Liveness, which is outside the prover: `EveryRowSettles`, `RoundConverges`,
  `EndedRoomIsClosed`, `ActiveRoomIsRestored`, `IdentityIsRemoved`,
  `MediaFollowsMessage`, `EventsSettle`. `QueueSync` has no other property.
- That the dates of a plan are the plain meaning of its modes (`WindowsAgree`,
  over all small plans): the proofs show that windows do not matter, and leave the
  definition of an occurrence to the comparison.
- `lost_prompt`, which is a counterexample.

## 5. Not modelled

- Realtime tickets, rate limits, configuration, logging, metrics, routing and
  screens: request plumbing without state that these properties are about.
- Muting, credentials and the payload of webhooks: forwarded or acknowledged.
- The queue's command receipts and row locks (transactions are atomic steps), the
  timing of convergence, and the phone's own manager commands.
- Chat's typing indicators, send limiter, search ranking, and media re-encoding.
- Scheduling's timezones, daylight saving, titles and reminder eligibility: the
  conversion of a date and a clock to an instant is linear in the model.

## 6. Plan

1. **Lemmas behind the liveness runs**: the ranking arguments of `EveryRowSettles` and
   `EventsSettle` rest on safety facts (a claimed row is in the batch, attempts
   only grow) that can be stated and proved although the conclusion cannot.
2. **The queue's commands and locks**: receipts of idempotent commands, and the lock
   order of `Decide` against the other commands, as a module beside `RecitationQueue`.
3. **The phone's own commands** in `QueueSync`, whose answers replace the view.
