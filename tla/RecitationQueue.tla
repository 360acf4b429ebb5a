--------------------------- MODULE RecitationQueue ---------------------------
(***************************************************************************)
(* The recitation queue of ONE live session (backend/internal/queue, F-003)*)
(* as PostgreSQL sees it: one action per committed transaction.            *)
(*                                                                         *)
(* A session moves scheduled -> active -> ended.  Managers stack prepared  *)
(* rounds; while the session is active the lowest one is activated, which  *)
(* materialises one waiting entry per eligible student.  A turn is         *)
(* advance (select) -> start (reciting) -> complete | skip; a student may  *)
(* opt out.  Reset finalizes the active round and opens its successor; the *)
(* end of the session lets a background convergence finalize what is open. *)
(*                                                                         *)
(* Two operations are NOT one transaction in the code and are split here:  *)
(*  - an opt-out request reads the entry and its last request before it    *)
(*    takes any lock (RequestRead), and acts on that reading later         *)
(*    (RequestApprovalRequired, RequestAutoApprove);                       *)
(*  - a reset without an idempotency key runs two transactions under a     *)
(*    session-level advisory lock (ResetFinalize, ResetActivate).          *)
(* The sessions package reports its committed facts to the queue through a *)
(* bounded observer whose errors are dropped: startNotice and joinNotices  *)
(* are the callbacks that have not run yet, and may be lost.               *)
(* Timestamps are taken at the start of a transaction, so joined tells a   *)
(* join that began before an activation from one that committed before it. *)
(*                                                                         *)
(* A rejected command commits nothing, so it is not a step.                *)
(***************************************************************************)
EXTENDS Integers, FiniteSets, Sequences

CONSTANTS
    Students,         \* users that may hold the role student in the circle
    InitialMembers,   \* those that are members when the session is created
    Grades,           \* the closed set of recitation grades
    Null,             \* SQL NULL: no selection, no grade
    Calls,            \* opt-out request handlers that may run at once
    Policies,         \* the policy values a manager chooses from
    InitialPolicy,
    LostCallbacks,    \* may an observer callback be lost (timeout, error)?
    ResetCrashes,     \* may the process die between the two reset transactions?
    MaxRounds,        \* bound: rounds of the session
    MaxVersion,       \* bound: version of a round
    MaxPolicyVersion, \* bound: version of the policy
    MaxRequests,      \* bound: opt-out requests of one entry
    MaxPreorder,      \* bound: length of a preorder
    Promotable,       \* bound: students whose role in the circle changes
    Removable         \* bound: students who are removed from circle or session

RoundIds == 1 .. MaxRounds
Versions == 1 .. MaxVersion

Populations    == {"present_at_activation", "all_active_students"}
Finalizations  == {"mark_unfinished_skipped", "preserve_last_state"}
OptOutPolicies == {"approval_required", "auto_approve"}
Corrections    == {"audited_any_time", "before_round_finalization", "immutable"}

\* Grade visibility, the fifth dimension, only filters what readers see.
PolicyValue == [population : Populations, finalization : Finalizations,
                optOut : OptOutPolicies, correction : Corrections]

ASSUME QueueConstants ==
    /\ IsFiniteSet(Students)
    /\ InitialMembers \subseteq Students
    /\ Null \notin Students
    /\ Null \notin Grades
    /\ Policies \subseteq PolicyValue
    /\ InitialPolicy \in PolicyValue
    /\ LostCallbacks \in BOOLEAN
    /\ ResetCrashes \in BOOLEAN
    /\ MaxRounds \in Nat
    /\ MaxVersion \in Nat
    /\ MaxPolicyVersion \in Nat
    /\ MaxRequests \in Nat
    /\ MaxPreorder \in Nat
    /\ Promotable \subseteq Students
    /\ Removable \subseteq Students

VARIABLES
    session,       \* sessions.status
    policy,        \* the queue_*_policy columns of sessions
    policyVersion, \* sessions.queue_policy_version
    members,       \* circle_members with role student
    staff,         \* circle_members with another role
    present,       \* session_participant_presence.is_currently_present
    barred,        \* session_participant_presence.removed_at is set
    joined,        \* circle_members.joined_at, as far as it is ever compared
    startNotice,   \* OnSessionStarted has still to run
    joinNotices,   \* students whose OnParticipantJoined has still to run
    round,         \* recitation_queue, by round number (with its preorder)
    entry,         \* recitation_queue_entries, by round and student
    progress,      \* memorization_progress, by queue entry
    requests,      \* queue_opt_out_requests of an entry, oldest first
    call,          \* what each running opt-out handler has read
    resetting,     \* the session advisory lock is held between reset's two steps
    deltas,        \* queue_event_outbox: versions announced by delta events
    notices        \* queue_event_outbox: events that announce no new version

sessionVars == <<session, policy, policyVersion, members, staff, present, barred>>

vars == <<sessionVars, joined, startNotice, joinNotices, round, entry,
          progress, requests, call, resetting, deltas, notices>>

-----------------------------------------------------------------------------
(* Rows                                                                    *)

Lifecycles      == {"absent", "prepared", "active", "finalized"}
EntryStatuses   == {"waiting", "reciting", "completed", "skipped", "opted_out"}
Unfinished      == {"waiting", "reciting"}
Terminal        == {"completed", "skipped", "opted_out"}
RequestStatuses == {"pending", "approved", "declined"}

NoRound == [lifecycle |-> "absent", selected |-> Null, version |-> 0,
            grading |-> FALSE, preorder |-> <<>>]

\* CreateRound followed by ReplacePreorder.
NewRound(grading, preorder) ==
    [lifecycle |-> "prepared", selected |-> Null, version |-> 1,
     grading |-> grading, preorder |-> preorder]

NoEntry == [status |-> "absent", position |-> 0, grade |-> Null, version |-> 0]

InsertQueueEntry(position) ==
    [status |-> "waiting", position |-> position, grade |-> Null, version |-> 1]

Idle == [student |-> Null, round |-> 0, status |-> "absent", version |-> 0]

\* Mutant: a skip is taken from any state.
CanAlwaysSkip(from, to) ==
    \/ from = "waiting"  /\ to = "reciting"
    \/ from = "reciting" /\ to = "completed"
    \/ from \in Unfinished /\ to = "opted_out"
    \/ to = "skipped"

\* legalEntryTransitions of queue_types.go.
CanTransitionEntry(from, to) ==
    \/ from = "waiting"  /\ to = "reciting"
    \/ from = "reciting" /\ to = "completed"
    \/ from \in Unfinished /\ to \in {"skipped", "opted_out"}

\* When a member joined, seen from the session and its last activation: before
\* the session was created; in a transaction that began before the activation's
\* and had committed ("before") or not ("across") when it read its population;
\* in one that began after the activation's ("after").
JoinTimes == {"absent", "initial", "before", "across", "after"}

Elems(q) == {q[i] : i \in DOMAIN q}

\* Distinct students in some order: what validatePreorderIDs lets through.
Preorders ==
    {q \in UNION {[1 .. n -> Students] : n \in 0 .. MaxPreorder} :
        \A i, j \in DOMAIN q : q[i] = q[j] => i = j}

Entries(r) == {s \in Students : entry[r][s].status # "absent"}

ActiveRounds(rs)   == {r \in RoundIds : rs[r].lifecycle = "active"}
PreparedRounds(rs) == {r \in RoundIds : rs[r].lifecycle = "prepared"}

\* Mutant: the order of the prepared rounds is not looked at.
AnyPrepared(rs, r) == r \in PreparedRounds(rs)

\* LowestPreparedRound: ORDER BY round_number LIMIT 1.
LowestPrepared(rs, r) ==
    r \in PreparedRounds(rs) /\ \A q \in PreparedRounds(rs) : r <= q

-----------------------------------------------------------------------------
(* What the transactions share                                             *)

\* MAX(round_number) + 1, read under the round allocation lock.
NextRoundNumber(n) ==
    /\ n \in RoundIds
    /\ \A r \in RoundIds : (r < n) <=> (round[r].lifecycle # "absent")

\* PopulationOrder: the students an activation materialises, each with its
\* position.  Preordered students come first in their relative order; the
\* order of the others (join time, then id) is left open.
Eligible == IF policy.population = "present_at_activation"
            THEN members \cap present
            ELSE members

PopulationOrders(preorder) ==
    {f \in [Eligible -> 1 .. Cardinality(Eligible)] :
        /\ \A s, t \in Eligible : f[s] = f[t] => s = t
        /\ \A i, j \in DOMAIN preorder :
              i < j /\ {preorder[i], preorder[j]} \subseteq Eligible
                  => f[preorder[i]] < f[preorder[j]]
        /\ \A s \in Eligible \cap Elems(preorder) :
              \A t \in Eligible \ Elems(preorder) : f[s] < f[t]}

\* Members whose row was inserted after the session's: their joined_at may be
\* later than the start of any transaction that activates a round.
Newcomers == {s \in Students : joined[s] \in {"before", "across", "after"}}

\* joined_at and activated_at are NOW(), the START of a transaction.  One that
\* activates a round may have begun before joins that committed ahead of it:
\* those members are newer than the round and part of its population.
RestampJoins ==
    \E newer \in SUBSET Newcomers :
        joined' = [s \in Students |-> IF s \in newer THEN "after"
                                     ELSE IF s \in Newcomers THEN "before"
                                     ELSE joined[s]]

\* activateLowest, on the rows rs, es and ds the transaction has written so far.
ActivateLowest(rs, es, ds) ==
    \/ /\ ActiveRounds(rs) # {} \/ PreparedRounds(rs) = {}
       /\ round' = rs
       /\ entry' = es
       /\ deltas' = ds
       /\ UNCHANGED joined
    \/ /\ ActiveRounds(rs) = {}
       /\ \E r \in RoundIds :
            /\ LowestPrepared(rs, r)
            /\ rs[r].version < MaxVersion
            /\ \E position \in PopulationOrders(rs[r].preorder) :
                 entry' = [es EXCEPT ![r] =
                    [s \in Students |-> IF s \in Eligible
                                        THEN InsertQueueEntry(position[s])
                                        ELSE NoEntry]]
            /\ round' = [rs EXCEPT ![r].lifecycle = "active",
                                   ![r].version = rs[r].version + 1]
            /\ deltas' = [ds EXCEPT ![r] = Append(@, rs[r].version + 1)]
       /\ RestampJoins

\* FinalizeRound: the row of r, and its entries under the finalization policy.
FinalizedRound(r) ==
    [round EXCEPT ![r].lifecycle = "finalized",
                  ![r].selected = Null,
                  ![r].version = round[r].version + 1]

MarkUnfinishedSkipped(r) ==
    IF policy.finalization = "mark_unfinished_skipped"
    THEN [entry EXCEPT ![r] = [s \in Students |->
            IF entry[r][s].status \in Unfinished
            THEN [entry[r][s] EXCEPT !.status = "skipped",
                                     !.version = entry[r][s].version + 1]
            ELSE entry[r][s]]]
    ELSE entry

\* Mutant: the event carries the version read before the update.
AnnounceOld(r) == deltas' = [deltas EXCEPT ![r] = Append(@, round[r].version)]

\* BumpRoundVersion and the delta event that announces the new version.
Announce(r) == deltas' = [deltas EXCEPT ![r] = Append(@, round[r].version + 1)]

Bump(r) ==
    /\ round[r].version < MaxVersion
    /\ round' = [round EXCEPT ![r].version = round[r].version + 1]
    /\ Announce(r)

\* Mutant: the selection survives the end of the turn.
KeepSelection(r, s) == Bump(r)

\* ClearRoundSelection if s is selected, BumpRoundVersion otherwise.
Release(r, s) ==
    /\ round[r].version < MaxVersion
    /\ round' = [round EXCEPT
                    ![r].selected = IF round[r].selected = s THEN Null
                                    ELSE round[r].selected,
                    ![r].version = round[r].version + 1]
    /\ Announce(r)

\* TransitionEntry: a legal transition guarded by the entry's version.
TransitionEntry(r, s, to, grade) ==
    /\ CanTransitionEntry(entry[r][s].status, to)
    /\ entry' = [entry EXCEPT ![r][s].status = to,
                              ![r][s].grade = grade,
                              ![r][s].version = entry[r][s].version + 1]

-----------------------------------------------------------------------------
(* The session and the circle, as far as the queue depends on them         *)

\* StartSession reports to the queue, for a session that is active already too.
\* StartOccurrence creates the session and starts it in one transaction, hence
\* without rounds, and reports nothing.
StartSession ==
    /\ session \in {"scheduled", "active"}
    /\ session' = "active"
    /\ \/ startNotice' = TRUE
       \/ /\ session = "scheduled"
          /\ \A r \in RoundIds : round[r] = NoRound
          /\ policyVersion = 1
          /\ startNotice' = FALSE
    /\ UNCHANGED <<policy, policyVersion, members, staff, present, barred,
                   joined, joinNotices, round, entry, progress, requests,
                   call, resetting, deltas, notices>>

\* The end clears every presence row in the same statement group.
EndSession ==
    /\ session = "active"
    /\ session' = "ended"
    /\ present' = {}
    /\ UNCHANGED <<policy, policyVersion, members, staff, barred, joined,
                   startNotice, joinNotices, round, entry, progress, requests,
                   call, resetting, deltas, notices>>

\* Joining while present is a no-op that is reported all the same.  Nobody
\* leaves: presence ends with the session or with a removal.
JoinSession(s) ==
    /\ session = "active"
    /\ s \in (members \cup staff) \ barred
    /\ present' = present \cup {s}
    /\ joinNotices' = joinNotices \cup {s}
    /\ UNCHANGED <<session, policy, policyVersion, members, staff, barred,
                   joined, startNotice, round, entry, progress, requests,
                   call, resetting, deltas, notices>>

RemoveParticipant(s) ==
    /\ s \in Removable
    /\ s \in present
    /\ present' = present \ {s}
    /\ barred' = barred \cup {s}
    /\ UNCHANGED <<session, policy, policyVersion, members, staff,
                   joined, startNotice, joinNotices, round, entry,
                   progress, requests, call, resetting, deltas, notices>>

\* A new circle_members row, with joined_at = NOW(): the join may have begun
\* before the last activation did, and commits only now, after it.
JoinCircle(s) ==
    /\ s \in Students \ (members \cup staff)
    /\ members' = members \cup {s}
    /\ \/ joined' = [joined EXCEPT ![s] = "after"]
       \/ /\ \E r \in RoundIds : round[r].lifecycle \in {"active", "finalized"}
          /\ joined' = [joined EXCEPT ![s] = "across"]
    /\ UNCHANGED <<session, policy, policyVersion, staff, present, barred,
                   startNotice, joinNotices, round, entry, progress, requests,
                   call, resetting, deltas, notices>>

\* AssignRole to or from student; joined_at stays as it is.
AssignRole(s) ==
    /\ s \in Promotable
    /\ \/ s \in members /\ members' = members \ {s} /\ staff' = staff \cup {s}
       \/ s \in staff /\ members' = members \cup {s} /\ staff' = staff \ {s}
    /\ UNCHANGED <<session, policy, policyVersion, present, barred,
                   joined, startNotice, joinNotices, round, entry,
                   progress, requests, call, resetting, deltas, notices>>

\* The circle forgets the member; the session and the queue are not told.
RemoveMember(s) ==
    /\ s \in Removable
    /\ s \in members \cup staff
    /\ members' = members \ {s}
    /\ staff' = staff \ {s}
    /\ joined' = [joined EXCEPT ![s] = "absent"]
    /\ UNCHANGED <<session, policy, policyVersion, present, barred,
                   startNotice, joinNotices, round, entry, progress, requests,
                   call, resetting, deltas, notices>>

\* UpdateSessionPolicyForManager; an equal policy is a no-op.
UpdatePolicy(next, expected) ==
    /\ session \in {"scheduled", "active"}
    /\ policyVersion = expected
    /\ policyVersion < MaxPolicyVersion
    /\ next # policy
    /\ policy' = next
    /\ policyVersion' = policyVersion + 1
    /\ notices' = [r \in RoundIds |->
          IF session = "active" /\ round[r].lifecycle = "active"
          THEN notices[r] \cup {<<"policy_changed", policyVersion + 1>>}
          ELSE notices[r]]
    /\ UNCHANGED <<session, members, staff, present, barred, joined,
                   startNotice, joinNotices, round, entry, progress, requests,
                   call, resetting, deltas>>

-----------------------------------------------------------------------------
(* RoundService                                                            *)

Prepare(grading, preorder) ==
    /\ ~resetting
    /\ session \in {"scheduled", "active"}
    /\ Elems(preorder) \subseteq members
    /\ \E n \in RoundIds :
         /\ NextRoundNumber(n)
         /\ LET created == [round EXCEPT ![n] = NewRound(grading, preorder)]
            IN  \/ /\ session = "scheduled"
                   /\ round' = created
                   /\ UNCHANGED <<entry, deltas, joined>>
                \/ /\ session = "active"
                   /\ ActivateLowest(created, entry, deltas)
    /\ UNCHANGED <<sessionVars, startNotice, joinNotices, progress, requests,
                   call, resetting, notices>>

\* Mutant: the callback is acknowledged and nothing is activated.
IgnoreStart ==
    /\ startNotice
    /\ ~resetting
    /\ startNotice' = FALSE
    /\ UNCHANGED <<sessionVars, joined, joinNotices, round, entry,
                   progress, requests, call, resetting, deltas, notices>>

\* OnSessionStarted: ActivateIfNeeded.
OnSessionStarted ==
    /\ startNotice
    /\ ~resetting
    /\ startNotice' = FALSE
    /\ \/ /\ session = "active"
          /\ ActivateLowest(round, entry, deltas)
       \/ /\ session # "active"
          /\ UNCHANGED <<round, entry, deltas, joined>>
    /\ UNCHANGED <<sessionVars, joinNotices, progress, requests, call,
                   resetting, notices>>

\* Reorder takes the round lock only, never the session's.
Reorder(r, expected, preorder) ==
    /\ round[r].lifecycle = "prepared"
    /\ round[r].version = expected
    /\ round[r].version < MaxVersion
    /\ Elems(preorder) \subseteq members
    /\ round' = [round EXCEPT ![r].preorder = preorder,
                              ![r].version = round[r].version + 1]
    /\ Announce(r)
    /\ UNCHANGED <<sessionVars, joined, startNotice, joinNotices, entry,
                   progress, requests, call, resetting, notices>>

\* Mutant: a move down also shifts what stands before the moved entry.
ShiftWithoutLowerBound(p, from, to) ==
    CASE p = from                         -> to
      [] from < to /\ p <= to             -> p - 1
      [] to < from /\ to <= p /\ p < from -> p + 1
      [] OTHER                            -> p

\* The slot an entry at p ends in when the one at from moves to to.
ShiftedPosition(p, from, to) ==
    CASE p = from                       -> to
      [] from < to /\ from < p /\ p <= to -> p - 1
      [] to < from /\ to <= p /\ p < from -> p + 1
      [] OTHER                          -> p

\* Mutant: the moved rows keep their versions.
RepositionSilently(r, s, to) ==
    [entry EXCEPT ![r] = [t \in Students |->
        IF entry[r][t].status = "absent" THEN entry[r][t]
        ELSE [entry[r][t] EXCEPT
                !.position = ShiftedPosition(entry[r][t].position,
                                             entry[r][s].position, to)]]]

\* RepositionEntry rewrites every row of the round, so every version moves.
Reposition(r, s, to) ==
    [entry EXCEPT ![r] = [t \in Students |->
        IF entry[r][t].status = "absent" THEN entry[r][t]
        ELSE [entry[r][t] EXCEPT
                !.position = ShiftedPosition(entry[r][t].position,
                                             entry[r][s].position, to),
                !.version = entry[r][t].version + 1]]]

Move(r, s, expected, to) ==
    /\ entry[r][s].status = "waiting"
    /\ round[r].lifecycle = "active"
    /\ round[r].version = expected
    /\ to \in 1 .. Cardinality(Entries(r))
    /\ entry' = Reposition(r, s, to)
    /\ Bump(r)
    /\ UNCHANGED <<sessionVars, joined, startNotice, joinNotices,
                   progress, requests, call, resetting, notices>>

\* MAX(position) + 1 over the entries of the round.
NextEntryPosition(r, p) ==
    /\ p \in 1 .. Cardinality(Students) + 1
    /\ \A s \in Entries(r) : entry[r][s].position < p
    /\ p = 1 \/ \E s \in Entries(r) : entry[r][s].position = p - 1

\* Mutant: under all_active_students nobody joins late, new members included.
LateJoinSkippedForAll(r, s) ==
    \/ entry[r][s].status # "absent"
    \/ s \notin members
    \/ policy.population = "all_active_students"

\* AppendLateJoiner skips a student the population policy leaves out.
LateJoinSkipped(r, s) ==
    \/ entry[r][s].status # "absent"
    \/ s \notin members
    \/ policy.population = "all_active_students" /\ joined[s] # "after"

\* OnParticipantJoined: AppendLateJoiner.
OnParticipantJoined(s) ==
    /\ s \in joinNotices
    /\ joinNotices' = joinNotices \ {s}
    /\ \/ /\ \/ session # "active"
             \/ ActiveRounds(round) = {}
             \/ \E r \in ActiveRounds(round) : LateJoinSkipped(r, s)
          /\ UNCHANGED <<round, entry, deltas>>
       \/ /\ session = "active"
          /\ \E r \in ActiveRounds(round) :
               /\ ~LateJoinSkipped(r, s)
               /\ \E p \in 1 .. Cardinality(Students) + 1 :
                    /\ NextEntryPosition(r, p)
                    /\ entry' = [entry EXCEPT ![r][s] = InsertQueueEntry(p)]
               /\ Bump(r)
    /\ UNCHANGED <<sessionVars, joined, startNotice, progress, requests,
                   call, resetting, notices>>

\* The bounded observer drops a callback that errs, panics or times out.
LoseCallback ==
    /\ LostCallbacks
    /\ \/ startNotice /\ startNotice' = FALSE /\ UNCHANGED joinNotices
       \/ \E s \in joinNotices : /\ joinNotices' = joinNotices \ {s}
                                 /\ UNCHANGED startNotice
    /\ UNCHANGED <<sessionVars, joined, round, entry, progress, requests,
                   call, resetting, deltas, notices>>

\* First transaction of a reset: finalize the active round, prepare the next.
ResetRows(a, n, grading, preorder) ==
    /\ ~resetting
    /\ session = "active"
    /\ round[a].lifecycle = "active"
    /\ round[a].version < MaxVersion
    /\ Elems(preorder) \subseteq members
    /\ NextRoundNumber(n)

ResetFinalize(grading, preorder) ==
    /\ \E a, n \in RoundIds :
         /\ ResetRows(a, n, grading, preorder)
         /\ round' = [FinalizedRound(a) EXCEPT ![n] = NewRound(grading, preorder)]
         /\ entry' = MarkUnfinishedSkipped(a)
         /\ Announce(a)
    /\ resetting' = TRUE
    /\ UNCHANGED <<sessionVars, joined, startNotice, joinNotices,
                   progress, requests, call, notices>>

\* Mutant: the second transaction does not look at the session again.
ResetActivateUnchecked ==
    /\ resetting
    /\ resetting' = FALSE
    /\ ActivateLowest(round, entry, deltas)
    /\ UNCHANGED <<sessionVars, startNotice, joinNotices, progress, requests,
                   call, notices>>

\* Second transaction, under the same advisory lock; an ended session aborts it.
ResetActivate ==
    /\ resetting
    /\ resetting' = FALSE
    /\ \/ session = "active" /\ ActivateLowest(round, entry, deltas)
       \/ session # "active" /\ UNCHANGED <<round, entry, deltas, joined>>
    /\ UNCHANGED <<sessionVars, startNotice, joinNotices, progress, requests,
                   call, notices>>

\* The process or its connection dies: PostgreSQL releases the advisory lock.
ResetCrash ==
    /\ ResetCrashes
    /\ resetting
    /\ resetting' = FALSE
    /\ UNCHANGED <<sessionVars, joined, startNotice, joinNotices, round,
                   entry, progress, requests, call, deltas, notices>>

\* With an idempotency key both halves run inside the receipt's transaction.
ResetKeyed(grading, preorder) ==
    /\ \E a, n \in RoundIds :
         /\ ResetRows(a, n, grading, preorder)
         /\ ActivateLowest(
              [FinalizedRound(a) EXCEPT ![n] = NewRound(grading, preorder)],
              MarkUnfinishedSkipped(a),
              [deltas EXCEPT ![a] = Append(@, round[a].version + 1)])
    /\ UNCHANGED <<sessionVars, startNotice, joinNotices, progress, requests,
                   call, resetting, notices>>

\* Convergence: one round of an ended session, in a transaction of its own.
FinalizeRound(r) ==
    /\ session = "ended"
    /\ ~resetting
    /\ round[r].lifecycle \in {"active", "prepared"}
    /\ round[r].version < MaxVersion
    /\ round' = FinalizedRound(r)
    /\ entry' = MarkUnfinishedSkipped(r)
    /\ Announce(r)
    /\ UNCHANGED <<sessionVars, joined, startNotice, joinNotices,
                   progress, requests, call, resetting, notices>>

-----------------------------------------------------------------------------
(* TurnService                                                             *)

\* The lowest waiting entry other than the one already selected.
NextWaiting(r, s) ==
    /\ entry[r][s].status = "waiting"
    /\ round[r].selected # s
    /\ \A t \in Students :
          entry[r][t].status = "waiting" /\ round[r].selected # t
              => entry[r][s].position <= entry[r][t].position

\* Mutant: the guard against a turn in progress is dropped.
AdvanceDuringTurn(r, expected) ==
    /\ round[r].lifecycle = "active"
    /\ round[r].version = expected
    /\ round[r].version < MaxVersion
    /\ \E s \in Students :
         /\ NextWaiting(r, s)
         /\ round' = [round EXCEPT ![r].selected = s,
                                   ![r].version = round[r].version + 1]
    /\ Announce(r)
    /\ UNCHANGED <<sessionVars, joined, startNotice, joinNotices, entry,
                   progress, requests, call, resetting, notices>>

Advance(r, expected) ==
    /\ round[r].lifecycle = "active"
    /\ round[r].version = expected
    /\ round[r].version < MaxVersion
    /\ \A s \in Students : entry[r][s].status # "reciting"
    /\ \E s \in Students :
         /\ NextWaiting(r, s)
         /\ round' = [round EXCEPT ![r].selected = s,
                                   ![r].version = round[r].version + 1]
    /\ Announce(r)
    /\ UNCHANGED <<sessionVars, joined, startNotice, joinNotices, entry,
                   progress, requests, call, resetting, notices>>

Start(r, s, expected) ==
    /\ round[r].lifecycle = "active"
    /\ entry[r][s].version = expected
    /\ round[r].selected = s
    /\ entry[r][s].status = "waiting"
    /\ TransitionEntry(r, s, "reciting", Null)
    /\ Bump(r)
    /\ UNCHANGED <<sessionVars, joined, startNotice, joinNotices,
                   progress, requests, call, resetting, notices>>

\* A grade is required in a grading round and refused in any other.
Complete(r, s, expected, grade) ==
    /\ round[r].lifecycle = "active"
    /\ entry[r][s].version = expected
    /\ entry[r][s].status = "reciting"
    /\ round[r].grading <=> grade # Null
    /\ TransitionEntry(r, s, "completed", grade)
    /\ progress' = [progress EXCEPT ![r][s] = [row |-> TRUE, grade |-> grade]]
    /\ Release(r, s)
    /\ UNCHANGED <<sessionVars, joined, startNotice, joinNotices,
                   requests, call, resetting, notices>>

\* Mutant: the correction stops at the entry.
CorrectEntryOnly(r, s, expected, grade) ==
    /\ entry[r][s].version = expected
    /\ entry[r][s].status = "completed"
    /\ policy.correction # "immutable"
    /\ grade # Null
    /\ entry' = [entry EXCEPT ![r][s].grade = grade,
                              ![r][s].version = entry[r][s].version + 1]
    /\ Bump(r)
    /\ UNCHANGED <<sessionVars, joined, startNotice, joinNotices,
                   progress, requests, call, resetting, notices>>

\* grade = Null is a correction of the note alone.
Correct(r, s, expected, grade) ==
    LET corrected == IF grade = Null THEN entry[r][s].grade ELSE grade
    IN  /\ entry[r][s].version = expected
        /\ entry[r][s].status = "completed"
        /\ policy.correction # "immutable"
        /\ policy.correction = "before_round_finalization"
              => round[r].lifecycle # "finalized"
        /\ entry' = [entry EXCEPT ![r][s].grade = corrected,
                                  ![r][s].version = entry[r][s].version + 1]
        /\ progress' = [progress EXCEPT ![r][s] =
                            [row |-> TRUE, grade |-> corrected]]
        /\ Bump(r)
        /\ UNCHANGED <<sessionVars, joined, startNotice, joinNotices,
                       requests, call, resetting, notices>>

Skip(r, s, expected) ==
    /\ round[r].lifecycle = "active"
    /\ entry[r][s].version = expected
    /\ TransitionEntry(r, s, "skipped", Null)
    /\ Release(r, s)
    /\ UNCHANGED <<sessionVars, joined, startNotice, joinNotices,
                   progress, requests, call, resetting, notices>>

-----------------------------------------------------------------------------
(* OptOutService                                                           *)

\* Status of the latest request of an entry, if there is one.
LatestRequest(r, s) ==
    IF requests[r][s] = <<>> THEN "none"
    ELSE requests[r][s][Len(requests[r][s])]

HasPending(r, s) == \E i \in DOMAIN requests[r][s] : requests[r][s][i] = "pending"

\* The unlocked reads of Request: own entry in the active round, last request.
\* A pending or approved request is replayed and a terminal entry refused.
RequestRead(c, s) ==
    /\ call[c] = Idle
    /\ \E r \in ActiveRounds(round) :
         /\ entry[r][s].status \in Unfinished
         /\ LatestRequest(r, s) \in {"none", "declined"}
         /\ call' = [call EXCEPT ![c] =
               [student |-> s, round |-> r, status |-> entry[r][s].status,
                version |-> entry[r][s].version]]
    /\ UNCHANGED <<sessionVars, joined, startNotice, joinNotices, round,
                   entry, progress, requests, resetting, deltas, notices>>

\* Under approval_required: one pending row and its event, nothing else.
RequestApprovalRequired(c) ==
    /\ call[c] # Idle
    /\ call' = [call EXCEPT ![c] = Idle]
    /\ LET r == call[c].round
           s == call[c].student
       IN  /\ session = "active"
           /\ policy.optOut = "approval_required"
           /\ ~HasPending(r, s)
           /\ Len(requests[r][s]) < MaxRequests
           /\ requests' = [requests EXCEPT ![r][s] = Append(@, "pending")]
           /\ notices' = [notices EXCEPT ![r] =
                 @ \cup {<<"opt_out_requested", round[r].version>>}]
    /\ UNCHANGED <<sessionVars, joined, startNotice, joinNotices, round,
                   entry, progress, resetting, deltas>>

\* Under auto_approve: the entry as it was read is opted out; an older request
\* is kept as it is, and an approved row is inserted only if there is none.
RequestAutoApprove(c) ==
    /\ call[c] # Idle
    /\ call' = [call EXCEPT ![c] = Idle]
    /\ LET r == call[c].round
           s == call[c].student
       IN  /\ session = "active"
           /\ policy.optOut = "auto_approve"
           /\ LatestRequest(r, s) # "approved"
           /\ entry[r][s].status = call[c].status
           /\ entry[r][s].version = call[c].version
           /\ TransitionEntry(r, s, "opted_out", Null)
           /\ Release(r, s)
           /\ requests' = IF requests[r][s] = <<>>
                          THEN [requests EXCEPT ![r][s] = <<"approved">>]
                          ELSE requests
    /\ UNCHANGED <<sessionVars, joined, startNotice, joinNotices,
                   progress, resetting, notices>>

\* A call that finds nothing to do, or is refused, ends without a commit.
RequestEnd(c) ==
    /\ call[c] # Idle
    /\ call' = [call EXCEPT ![c] = Idle]
    /\ UNCHANGED <<sessionVars, joined, startNotice, joinNotices, round,
                   entry, progress, requests, resetting, deltas, notices>>

Decide(r, s, i, decision, expected) ==
    /\ i \in DOMAIN requests[r][s]
    /\ round[r].lifecycle # "finalized"
    /\ requests[r][s][i] = "pending"
    /\ entry[r][s].version = expected
    /\ requests' = [requests EXCEPT ![r][s][i] = decision]
    /\ \/ /\ decision = "approved"
          /\ TransitionEntry(r, s, "opted_out", Null)
          /\ Release(r, s)
       \/ /\ decision = "declined"
          /\ UNCHANGED <<round, entry, deltas>>
    /\ UNCHANGED <<sessionVars, joined, startNotice, joinNotices,
                   progress, call, resetting, notices>>

-----------------------------------------------------------------------------
Init ==
    /\ session = "scheduled"
    /\ policy = InitialPolicy
    /\ policyVersion = 1
    /\ members = InitialMembers
    /\ joined = [s \in Students |-> IF s \in InitialMembers THEN "initial" ELSE "absent"]
    /\ staff = {}
    /\ present = {}
    /\ barred = {}
    /\ startNotice = FALSE
    /\ joinNotices = {}
    /\ round = [r \in RoundIds |-> NoRound]
    /\ entry = [r \in RoundIds |-> [s \in Students |-> NoEntry]]
    /\ progress = [r \in RoundIds |->
                      [s \in Students |-> [row |-> FALSE, grade |-> Null]]]
    /\ requests = [r \in RoundIds |-> [s \in Students |-> <<>>]]
    /\ call = [c \in Calls |-> Idle]
    /\ resetting = FALSE
    /\ deltas = [r \in RoundIds |-> <<>>]
    /\ notices = [r \in RoundIds |-> {}]

SessionNext ==
    \/ StartSession
    \/ EndSession
    \/ \E s \in Students :
         \/ JoinSession(s)
         \/ RemoveParticipant(s)
         \/ JoinCircle(s)
         \/ AssignRole(s)
         \/ RemoveMember(s)
    \/ \E p \in Policies, v \in 1 .. MaxPolicyVersion : UpdatePolicy(p, v)

RoundNext ==
    \/ \E g \in BOOLEAN, q \in Preorders :
         Prepare(g, q) \/ ResetFinalize(g, q) \/ ResetKeyed(g, q)
    \/ OnSessionStarted
    \/ \E s \in Students : OnParticipantJoined(s)
    \/ LoseCallback
    \/ ResetActivate
    \/ ResetCrash
    \/ \E r \in RoundIds :
         \/ FinalizeRound(r)
         \/ \E v \in Versions :
              \/ \E q \in Preorders : Reorder(r, v, q)
              \/ \E s \in Students, p \in 1 .. Cardinality(Students) :
                   Move(r, s, v, p)

TurnNext ==
    \E r \in RoundIds, v \in Versions :
        \/ Advance(r, v)
        \/ \E s \in Students :
             \/ Start(r, s, v)
             \/ Skip(r, s, v)
             \/ \E g \in Grades \cup {Null} : Complete(r, s, v, g) \/ Correct(r, s, v, g)

OptOutNext ==
    \/ \E c \in Calls :
         \/ \E s \in Students : RequestRead(c, s)
         \/ RequestApprovalRequired(c)
         \/ RequestAutoApprove(c)
         \/ RequestEnd(c)
    \/ \E r \in RoundIds, s \in Students, v \in Versions, i \in 1 .. MaxRequests,
          d \in {"approved", "declined"} : Decide(r, s, i, d, v)

Next == SessionNext \/ RoundNext \/ TurnNext \/ OptOutNext

Spec == Init /\ [][Next]_vars
-----------------------------------------------------------------------------
(* Types                                                                   *)

RoundRow == [lifecycle : Lifecycles, selected : Students \cup {Null},
             version : Nat, grading : BOOLEAN, preorder : Seq(Students)]

EntryRow == [status : EntryStatuses \cup {"absent"}, position : Nat,
             grade : Grades \cup {Null}, version : Nat]

CallState == [student : Students \cup {Null}, round : RoundIds \cup {0},
              status : Unfinished \cup {"absent"}, version : Nat]

\* Every table holds rows of the shape its migration declares, and a handler
\* that runs has read a real entry of a real round.
TypeOK ==
    /\ session \in {"scheduled", "active", "ended"}
    /\ policy \in PolicyValue
    /\ policyVersion \in Nat
    /\ members \subseteq Students
    /\ joined \in [Students -> JoinTimes]
    /\ staff \subseteq Students
    /\ present \subseteq Students
    /\ barred \subseteq Students
    /\ startNotice \in BOOLEAN
    /\ joinNotices \subseteq Students
    /\ round \in [RoundIds -> RoundRow]
    /\ entry \in [RoundIds -> [Students -> EntryRow]]
    /\ progress \in [RoundIds -> [Students -> [row : BOOLEAN, grade : Grades \cup {Null}]]]
    /\ requests \in [RoundIds -> [Students -> Seq(RequestStatuses)]]
    /\ call \in [Calls -> CallState]
    /\ \A c \in Calls : call[c] = Idle \/ (call[c].student \in Students /\ call[c].round \in RoundIds)
    /\ resetting \in BOOLEAN
    /\ deltas \in [RoundIds -> Seq(Nat)]
    /\ notices \in [RoundIds -> SUBSET ({"policy_changed", "opt_out_requested"} \X Nat)]

-----------------------------------------------------------------------------
(* Safety                                                                  *)

\* A round is active only when every round below it is finalized, so there is
\* never a second active round and a later round never overtakes an earlier
\* one, whatever Prepare, Reset, the start callback and convergence interleave.
RoundOrder ==
    \A r, q \in RoundIds :
        q < r /\ round[r].lifecycle = "active" => round[q].lifecycle = "finalized"

\* One student recites at a time, in a finalized round too: neither a moved
\* queue, nor a late opt-out, nor a second Advance opens a second turn.
OneReciter ==
    \A r \in RoundIds : \A s, t \in Students :
        entry[r][s].status = "reciting" /\ entry[r][t].status = "reciting" => s = t

\* The selection points into a live turn: it is held only by an active round,
\* names an unfinished entry, and while somebody recites names exactly them.
SelectionIsLive ==
    \A r \in RoundIds :
        /\ round[r].selected # Null =>
              /\ round[r].lifecycle = "active"
              /\ entry[r][round[r].selected].status \in Unfinished
        /\ round[r].lifecycle = "active" =>
              \A s \in Students :
                 entry[r][s].status = "reciting" => round[r].selected = s

\* The progress history and the queue agree: a memorization_progress row exists
\* exactly for the completed entries and carries the entry's present grade,
\* which a grading round never leaves empty, through corrections and resets.
ProgressMatchesQueue ==
    \A r \in RoundIds : \A s \in Students :
        /\ progress[r][s].row <=> entry[r][s].status = "completed"
        /\ progress[r][s].row => progress[r][s].grade = entry[r][s].grade
        /\ progress[r][s].row /\ round[r].grading => progress[r][s].grade # Null

\* The entries of a round always hold the places 1 .. n, each exactly once,
\* through population, moves and late joiners.
PositionsAreContiguous ==
    \A r \in RoundIds :
        {entry[r][s].position : s \in Entries(r)} = 1 .. Cardinality(Entries(r))

\* A client that applies the delta events of a round in order sees each of its
\* versions exactly once: no committed change is silent, none is doubled.
EveryVersionAnnounced ==
    \A r \in RoundIds : round[r].lifecycle # "absent" =>
        /\ Len(deltas[r]) = round[r].version - 1
        /\ \A i \in DOMAIN deltas[r] : deltas[r][i] = i + 1

\* An approved opt-out is never lost: its entry is opted out, whatever turn
\* command, reset or second request ran in between.
ApprovedIsOptedOut ==
    \A r \in RoundIds : \A s \in Students :
        (\E i \in DOMAIN requests[r][s] : requests[r][s][i] = "approved")
            => entry[r][s].status = "opted_out"

\* While the session is live and no activation is under way, a prepared round
\* waits only behind an active one (B1).
ActivationInvariant ==
    session = "active" /\ ~startNotice /\ ~resetting
    /\ PreparedRounds(round) # {} => ActiveRounds(round) # {}

-----------------------------------------------------------------------------
(* Action properties                                                       *)

\* The versions clients send back guard what they saw: a step that changes
\* anything visible of a round or of one of its entries raises the version of
\* the round, and one that changes an entry raises the entry's version too;
\* versions never fall.
VersionGuardsContent ==
    [][\A r \in RoundIds :
         /\ round'[r] # round[r] => round'[r].version > round[r].version
         /\ entry'[r] # entry[r] => round'[r].version > round[r].version
         /\ \A s \in Students : entry'[r][s] # entry[r][s] =>
              entry'[r][s].version > entry[r][s].version]_vars

\* A finished turn is never reopened: a terminal entry keeps its status, and a
\* row once inserted is never removed.
TerminalIsFinal ==
    [][\A r \in RoundIds, s \in Students :
         /\ entry[r][s].status \in Terminal => entry'[r][s].status = entry[r][s].status
         /\ entry[r][s].status # "absent" => entry'[r][s].status # "absent"]_vars

\* Rounds only move forward, prepared to finalized is left to the convergence
\* of an ended session, and an ended session never gains or activates a round.
RoundLifecycleForward ==
    [][\A r \in RoundIds : round'[r].lifecycle # round[r].lifecycle =>
         \/ round[r].lifecycle = "absent" /\ round'[r].lifecycle \in {"prepared", "active"}
            /\ session # "ended"
         \/ round[r].lifecycle = "prepared" /\ round'[r].lifecycle = "active"
            /\ session = "active"
         \/ round[r].lifecycle = "prepared" /\ round'[r].lifecycle = "finalized"
            /\ session = "ended"
         \/ round[r].lifecycle = "active" /\ round'[r].lifecycle = "finalized"]_vars

\* A member who is no part of the last activation's population, although the
\* row's joined_at says so.
JoinedAcross(s) ==
    policy.population = "all_active_students" /\ joined[s] = "across"

\* A join is honoured: when the report that a student entered the live session
\* has been handled, the student has a place in the active round, given by the
\* activation or by AppendLateJoiner, whoever else changed role or was removed.
\* Two kinds of student get no place: one who was staff while the round was
\* activated and, under all_active_students, one whose join of the circle was
\* still open then (JoinedAcross).
JoinIsHonoured ==
    [][\A r \in ActiveRounds(round), s \in ((joinNotices \ joinNotices') \cap members) \ Promotable :
         session = "active" /\ ~JoinedAcross(s) => entry'[r][s].status # "absent"]_vars
=============================================================================
