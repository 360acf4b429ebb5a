----------------------------- MODULE LiveSession -----------------------------
(***************************************************************************)
(* One live session of a circle (backend/internal/sessions) with its       *)
(* attendance (backend/internal/attendance), which is written in the same  *)
(* transactions, and the two neighbours whose changes race it: the circle  *)
(* (roles, retirement) and the closure of accounts.                        *)
(*                                                                         *)
(* A request is authenticated and authorized first (Request) and runs its  *)
(* transaction later; in between roles change and accounts close.  Each    *)
(* transaction holds the session's advisory lock or row lock, so it is one *)
(* step.  A command that is refused, or whose provider call fails, rolls   *)
(* back and is no step here; what it leaves at the provider is the subject *)
(* of SessionRecovery.                                                     *)
(*                                                                         *)
(* Time is one bit: whether more than ten minutes passed since the start.  *)
(***************************************************************************)
EXTENDS Naturals, Sequences, FiniteSets

CONSTANTS
    Users,
    Teacher,          \* the first teacher of the circle
    Keys,             \* idempotency keys of corrections
    MaxParticipants,  \* maxParticipants
    Corrections,      \* statuses a correction may choose
    MaxRequests,      \* bound: requests between authorization and transaction
    MaxChanges        \* bound: changes of the circle and of accounts

Roles      == {"none", "student", "supervisor", "teacher"}
Moderators == {"supervisor", "teacher"}
Statuses   == {"present", "late", "absent", "excused"}
Joined     == {"never", "ontime", "late"}

ASSUME LiveSessionConstants ==
    /\ IsFiniteSet(Users) /\ Teacher \in Users
    /\ IsFiniteSet(Keys)
    /\ Corrections \subseteq Statuses
    /\ MaxRequests \in Nat
    /\ MaxParticipants \in Nat \ {0}
    /\ MaxChanges \in Nat

VARIABLES
    session,      \* the row of sessions
    presence,     \* session_participant_presence
    tenMinutes,   \* NOW() > actual_start + 10 minutes
    roster,       \* session_attendance
    corrections,  \* attendance_corrections, oldest first
    receipts,     \* schedule_request_replays: key -> index of its correction
    role,         \* circle_members
    archived,     \* circles.is_archived
    deleted,      \* users.deleted_at
    request,      \* the request of a user under way, by what it was checked for
    changes

sessionVars    == <<session, presence, tenMinutes>>
attendanceVars == <<roster, corrections, receipts>>
circleVars     == <<role, archived, deleted, changes>>
vars           == <<sessionVars, attendanceVars, circleVars, request>>

NoPresence == [row |-> "none", hand |-> FALSE, joined |-> "never"]
NoRecord   == [listed |-> FALSE, first |-> "never", base |-> "none", effective |-> "none"]

Init ==
    /\ session = [status |-> "none", locked |-> FALSE, count |-> 0]
    /\ presence = [u \in Users |-> NoPresence]
    /\ tenMinutes = FALSE
    /\ roster = [u \in Users |-> NoRecord]
    /\ corrections = <<>>
    /\ receipts = [k \in Keys |-> 0]
    /\ role \in [Users -> Roles]
    /\ \A u \in Users : role[u] = "teacher" <=> u = Teacher
    /\ archived = FALSE
    /\ deleted = {}
    /\ request = [u \in Users |-> "none"]
    /\ changes = 0

-----------------------------------------------------------------------------
(* Requests                                                                *)

\* authorize: a member, and a teacher or supervisor where moderation is asked for.
Authorized(u, level) ==
    role[u] \in IF level = "moderator" THEN Moderators ELSE Roles \ {"none"}

\* The middleware resolves the account, the service reads session and role.
Request(u, level) ==
    /\ Cardinality({v \in Users : request[v] # "none"}) < MaxRequests
    /\ request[u] = "none"
    /\ u \notin deleted
    /\ Authorized(u, level)
    /\ request' = [request EXCEPT ![u] = level]
    /\ UNCHANGED <<sessionVars, attendanceVars, circleVars>>

\* The transaction of an authorized request.
Handle(u, level) ==
    /\ request[u] = level
    /\ request' = [request EXCEPT ![u] = "none"]

-----------------------------------------------------------------------------
(* Presence                                                                *)

Present == {u \in Users : presence[u].row = "present"}

\* validateAdmission, or for somebody who was inside before only the capacity.
AdmissionOpen(u) ==
    /\ presence[u].row # "removed"
    /\ session.count < MaxParticipants
    /\ presence[u].row = "none" => ~session.locked

\* Mutant: the membership read by authorize is relied upon.
MemberOnceIsEnough(u) == TRUE

\* CheckStudentJoin: the membership is read again under a lock.
StillMember(u) == role[u] # "none" /\ ~archived

\* Mutant: the account is not read again.
AccountAssumedActive(u) == TRUE

\* lockActiveParticipantAccount.
AccountActive(u) == u \notin deleted

\* admitPresence: the first join is dated, a later one is not.
AdmitPresence(u) ==
    presence' = [presence EXCEPT ![u].row = "present",
                                 ![u].joined = IF @ # "never" THEN @
                                               ELSE IF tenMinutes THEN "late" ELSE "ontime"]

\* RecordStudentJoin: a student who was not on the roster is added to it.
RecordStudentJoin(u, rows) ==
    IF role[u] # "student" \/ rows[u].listed THEN rows
    ELSE [rows EXCEPT ![u].listed = TRUE, ![u].first = presence'[u].joined]

\* Mutant: a join that is repeated takes another seat.
AdmitAgain(u, status, rows) ==
    /\ AdmissionOpen(u)
    /\ StillMember(u)
    /\ AdmitPresence(u)
    /\ session' = [session EXCEPT !.status = status, !.count = @ + 1]
    /\ roster' = RecordStudentJoin(u, rows)

\* admitIfCapacity and the attendance hook; nothing for somebody already inside.
Admit(u, status, rows) ==
    IF u \in Present
    THEN /\ session' = [session EXCEPT !.status = status]
         /\ roster' = rows
         /\ UNCHANGED presence
    ELSE /\ AdmissionOpen(u)
         /\ StillMember(u)
         /\ AdmitPresence(u)
         /\ session' = [session EXCEPT !.status = status, !.count = @ + 1]
         /\ roster' = RecordStudentJoin(u, rows)

-----------------------------------------------------------------------------
(* Lifecycle                                                               *)

CreateAdHocSession(u) ==
    /\ Handle(u, "moderator")
    /\ session.status = "none"
    /\ session' = [session EXCEPT !.status = "scheduled"]
    /\ UNCHANGED <<presence, tenMinutes, attendanceVars, circleVars>>

\* SnapshotStartRoster: the students of the circle at the start.
SnapshotStartRoster ==
    [u \in Users |-> IF role[u] = "student" /\ ~archived
                     THEN [roster[u] EXCEPT !.listed = TRUE] ELSE roster[u]]

\* Activates, or joins what is active already.
StartSessionWithConnection(u) ==
    /\ AccountActive(u)
    /\ \/ session.status = "scheduled" /\ Admit(u, "active", SnapshotStartRoster)
       \/ session.status = "active" /\ Admit(u, "active", roster)

StartSession(u) ==
    /\ Handle(u, "moderator")
    /\ StartSessionWithConnection(u)
    /\ UNCHANGED <<tenMinutes, corrections, receipts, circleVars>>

JoinSessionWithConnection(u) ==
    /\ AccountActive(u)
    /\ session.status = "active"
    /\ Admit(u, "active", roster)

JoinSession(u) ==
    /\ Handle(u, "member")
    /\ JoinSessionWithConnection(u)
    /\ UNCHANGED <<tenMinutes, corrections, receipts, circleVars>>

SetLock(u, locked) ==
    /\ Handle(u, "moderator")
    /\ session.status = "active"
    /\ session' = [session EXCEPT !.locked = locked]
    /\ UNCHANGED <<presence, tenMinutes, attendanceVars, circleVars>>

\* ClassifyEndedSession for one row of the roster.
Classify(first) ==
    CASE first = "never" -> "absent" [] first = "ontime" -> "present" [] first = "late" -> "late"

CorrectionsOf(u) == {i \in DOMAIN corrections : corrections[i].user = u}

\* ORDER BY at DESC LIMIT 1: the status of the youngest correction.
LatestCorrection(u) ==
    corrections[CHOOSE i \in CorrectionsOf(u) : \A j \in CorrectionsOf(u) : j <= i].status

\* Mutant: the automatic status replaces the effective one.
FinalizeRowAutomatic(u) ==
    LET first == IF roster[u].first # "never" THEN roster[u].first ELSE presence[u].joined
    IN [listed |-> TRUE, first |-> first, base |-> Classify(first), effective |-> Classify(first)]

\* FinalizeSession: base status from the first presence, effective status from
\* the latest correction if there is one.
FinalizeRow(u) ==
    LET first == IF roster[u].first # "never" THEN roster[u].first ELSE presence[u].joined
    IN [listed |-> TRUE, first |-> first, base |-> Classify(first),
        effective |-> IF CorrectionsOf(u) = {} THEN Classify(first) ELSE LatestCorrection(u)]

FinalizeSession ==
    roster' = [u \in Users |-> IF roster[u].listed THEN FinalizeRow(u) ELSE roster[u]]

\* The count stays: only the rows of who is inside are cleared.
MarkEnded ==
    /\ session.status = "active"
    /\ session' = [session EXCEPT !.status = "ended"]
    /\ presence' = [v \in Users |-> IF v \in Present
                                    THEN [presence[v] EXCEPT !.row = "away", !.hand = FALSE]
                                    ELSE presence[v]]
    /\ FinalizeSession

EndSession(u) ==
    /\ Handle(u, "moderator")
    /\ MarkEnded
    /\ UNCHANGED <<tenMinutes, corrections, receipts, circleVars>>

\* The reconciler finalizes an ended session again in each sweep.
Refinalize ==
    /\ session.status = "ended"
    /\ FinalizeSession
    /\ UNCHANGED <<sessionVars, corrections, receipts, circleVars, request>>

TimePasses ==
    /\ session.status = "active"
    /\ ~tenMinutes
    /\ tenMinutes' = TRUE
    /\ UNCHANGED <<session, presence, attendanceVars, circleVars, request>>

-----------------------------------------------------------------------------
(* Moderation                                                              *)

\* Only who was inside gives a seat back.
SeatsGivenBack(v) == IF v \in Present THEN 1 ELSE 0

\* In any state of the session; a second removal changes nothing.
ApplyRemoval(v) ==
    /\ presence[v].row # "none"
    /\ IF presence[v].row = "removed" THEN UNCHANGED <<session, presence>>
       ELSE /\ presence' = [presence EXCEPT ![v].row = "removed", ![v].hand = FALSE]
            /\ session' = [session EXCEPT !.count = @ - SeatsGivenBack(v)]

RemoveParticipant(u, v) ==
    /\ Handle(u, "moderator")
    /\ ApplyRemoval(v)
    /\ UNCHANGED <<tenMinutes, attendanceVars, circleVars>>

\* SetHandRaised and SetHandLowered.
SetHand(u, raised) ==
    /\ Handle(u, "member")
    /\ u \in Present
    /\ presence' = [presence EXCEPT ![u].hand = raised]
    /\ UNCHANGED <<session, tenMinutes, attendanceVars, circleVars>>

AppendCorrection(v, status, k) ==
    /\ corrections' = Append(corrections, [user |-> v, status |-> status, key |-> k])
    /\ receipts' = [receipts EXCEPT ![k] = Len(corrections) + 1]
    /\ roster' = [roster EXCEPT ![v].effective = status]

\* CorrectAttendance: the role is read in the transaction itself, and the
\* account of a teacher of a live circle cannot close.  A known key returns the stored
\* answer, or a conflict if the command differs.
CorrectAttendance(u, v, status, k) ==
    /\ ~archived
    /\ session.status = "ended"
    /\ role[u] = "teacher"
    /\ receipts[k] = 0
    /\ roster[v].effective # "none"
    /\ AppendCorrection(v, status, k)
    /\ UNCHANGED <<sessionVars, circleVars, request>>

-----------------------------------------------------------------------------
(* The neighbours                                                          *)

Change ==
    /\ changes < MaxChanges
    /\ changes' = changes + 1
    /\ UNCHANGED <<sessionVars, attendanceVars, request>>

\* JoinCircle: who comes in is a student.
JoinCircle(u) ==
    /\ Change
    /\ ~archived
    /\ role[u] = "none"
    /\ role' = [role EXCEPT ![u] = "student"]
    /\ UNCHANGED <<archived, deleted>>

\* AssignRole and RemoveMember: never of the last teacher.
ChangeRole(u, r) ==
    /\ Change
    /\ ~archived
    /\ role[u] \notin {"none", r}
    /\ role[u] = "teacher" => \E v \in Users \ {u} : role[v] = "teacher"
    /\ role' = [role EXCEPT ![u] = r]
    /\ UNCHANGED <<archived, deleted>>

ArchiveCircle ==
    /\ Change
    /\ ~archived
    /\ archived' = TRUE
    /\ UNCHANGED <<role, deleted>>

\* CloseStudentAccount: not for managers of a live circle, nor for who is inside.
ClosureAllowed(u) ==
    /\ archived \/ role[u] \notin Moderators
    /\ ~(session.status = "active" /\ u \in Present)

CloseAccount(u) ==
    /\ Change
    /\ u \notin deleted
    /\ ClosureAllowed(u)
    /\ deleted' = deleted \cup {u}
    /\ UNCHANGED <<role, archived>>

-----------------------------------------------------------------------------
Levels == {"member", "moderator"}

Next ==
    \/ \E u \in Users, level \in Levels : Request(u, level)
    \/ \E u \in Users : CreateAdHocSession(u) \/ StartSession(u) \/ JoinSession(u) \/ EndSession(u)
    \/ \E u \in Users, b \in BOOLEAN : SetLock(u, b) \/ SetHand(u, b)
    \/ \E u, v \in Users : RemoveParticipant(u, v)
    \/ \E u, v \in Users, s \in Corrections, k \in Keys : CorrectAttendance(u, v, s, k)
    \/ Refinalize \/ TimePasses
    \/ \E u \in Users, r \in Roles : ChangeRole(u, r)
    \/ ArchiveCircle
    \/ \E u \in Users : JoinCircle(u) \/ CloseAccount(u)

Spec == Init /\ [][Next]_vars

-----------------------------------------------------------------------------
(* Properties                                                              *)

\* The rows and columns have the types the migrations give them; the count
\* never leaves 0..MaxParticipants (the CHECK of sessions.participant_count).
TypeOK ==
    /\ session \in [status : {"none", "scheduled", "active", "ended"},
                    locked : BOOLEAN, count : 0..MaxParticipants]
    /\ presence \in [Users -> [row : {"none", "present", "away", "removed"},
                               hand : BOOLEAN, joined : Joined]]
    /\ tenMinutes \in BOOLEAN
    /\ roster \in [Users -> [listed : BOOLEAN, first : Joined,
                             base : Statuses \cup {"none"}, effective : Statuses \cup {"none"}]]
    /\ corrections \in Seq([user : Users, status : Statuses, key : Keys])
    /\ receipts \in [Keys -> Nat]
    /\ role \in [Users -> Roles]
    /\ archived \in BOOLEAN
    /\ deleted \in SUBSET Users
    /\ request \in [Users -> Levels \cup {"none"}]
    /\ changes \in 0..MaxChanges

\* While the session is active, participant_count is the number of rows that
\* are present: joins, repeated starts and removals (session_repository.go)
\* keep the two tables in step, so that the capacity means what it says.
SeatsAreCounted ==
    session.status = "active" => session.count = Cardinality(Present)

\* A closed account is inside no active session: CloseStudentAccount looks for
\* presence, admission for the tombstone, both under the lock of the user row.
DeletedNotPresent ==
    session.status = "active" => deleted \cap Present = {}

\* The effective attendance is the latest correction, else what the first
\* presence gives: neither the end of the session nor a sweep of the
\* reconciler undoes what a teacher corrected.
CorrectionWins ==
    session.status = "ended" =>
        \A u \in Users : roster[u].listed =>
            roster[u].effective = IF CorrectionsOf(u) = {} THEN Classify(presence[u].joined)
                                  ELSE LatestCorrection(u)

\* What SessionLifecycle sees of the tables.
LifecycleState ==
    CASE session.status = "none"   -> "none"  [] session.status = "scheduled" -> "waiting"
      [] session.status = "active" -> "open"  [] session.status = "ended"     -> "closed"

Known    == {u \in Users : presence[u].row # "none"}
Barred   == {u \in Users : presence[u].row = "removed"}
Entitled == {u \in Users : role[u] # "none" /\ ~archived /\ u \notin deleted}

Lifecycle == INSTANCE SessionLifecycle WITH
    Seats <- MaxParticipants, state <- LifecycleState, door <- session.locked,
    seated <- Present, known <- Known, barred <- Barred, entitled <- Entitled

\* The session keeps the promise of SessionLifecycle: nobody is admitted before
\* the start, after the end, after a removal, through a lock, beyond the
\* capacity, or without being a member at the moment of admission, although
\* the role was read in an earlier step.
ImplementsLifecycle == Lifecycle!Spec

=============================================================================
