------------------------------- MODULE Circles -------------------------------
(***************************************************************************)
(* Circles and their members (backend/internal/rbac): creation, joining,   *)
(* roles, removal, settings, invitations and retirement.                   *)
(*                                                                         *)
(* Every command is a transaction of two or three steps that holds row     *)
(* locks in between: first the circle (FOR UPDATE), for a join then the    *)
(* user (FOR UPDATE), while a creation holds the key-share locks that its  *)
(* foreign keys take on the users.  What a command read is in tx, what it  *)
(* writes is decided from there, as in the code; only the locks make the   *)
(* two agree.                                                              *)
(***************************************************************************)
EXTENDS Naturals, FiniteSets

CONSTANTS
    Users, Circles, Txs,
    Codes,            \* invitation codes
    Capacities,       \* values of max_capacity
    MembershipLimit,  \* active circles per user that a join may lead to
    MaxCommands       \* bound: commands that are begun

ASSUME CirclesConstants ==
    /\ IsFiniteSet(Users) /\ IsFiniteSet(Circles)
    /\ Capacities \subseteq Nat \ {0}
    /\ MembershipLimit \in Nat /\ MaxCommands \in Nat

Roles    == {"none", "student", "supervisor", "teacher"}
Managers == {"supervisor", "teacher"}

VARIABLES
    circle,    \* circles
    role,      \* circle_members
    tx,        \* transactions that are open
    commands

vars == <<circle, role, tx, commands>>

NoCircle  == [state |-> "none", capacity |-> 0, private |-> FALSE, code |-> "none"]
NoMembers == [u \in Users |-> "none"]
LiveCircle(capacity, private, code) ==
    [state |-> "live", capacity |-> capacity, private |-> private, code |-> code]
Closed    == [pc |-> "idle"]

\* A first circle exists, as its creation left it; the others are to come.
Init ==
    /\ \E c \in Circles, u \in Users, code \in Codes, k \in Capacities, p \in BOOLEAN :
         /\ circle = [d \in Circles |-> IF d = c THEN LiveCircle(k, p, code) ELSE NoCircle]
         /\ role = [d \in Circles |-> IF d = c THEN [NoMembers EXCEPT ![u] = "teacher"] ELSE NoMembers]
    /\ tx = [t \in Txs |-> Closed]
    /\ commands = 0

Open == {t \in Txs : tx[t].pc # "idle"}

WithRole(members, r) == {u \in Users : members[u] = r}

ActiveMemberships(u) == {c \in Circles : circle[c].state = "live" /\ role[c][u] # "none"}

-----------------------------------------------------------------------------
(* Locks                                                                   *)

\* Mutant: the circle is read without FOR UPDATE.
CircleAlwaysFree(c) == TRUE

\* FindCircleByIDForUpdate, FindCircleByInviteCode.
CircleFree(c) == \A t \in Open : tx[t].circle # c

\* Mutant: the user is not locked.
UserAlwaysFree(u) == TRUE

\* LockUser waits for another join and for the creation of a circle with u.
UserFree(u) ==
    \A t \in Open : /\ tx[t].pc = "counted" => tx[t].actor # u
                    /\ tx[t].pc = "created" => tx[t].members[u] = "none"

\* The foreign key of an inserted member waits only for who holds FOR UPDATE.
UserReferable(u) == \A t \in Open : tx[t].pc = "counted" => tx[t].actor # u

-----------------------------------------------------------------------------
(* Creation                                                                *)

\* The members of a new circle: the creator teaches unless teachers are named,
\* and then supervises beside the backup supervisor.
InitialMembers(u, teachers, backup) ==
    [v \in Users |-> CASE v = u -> IF teachers = {} THEN "teacher" ELSE "supervisor"
                       [] v \in teachers -> "teacher"
                       [] v \in backup \ teachers -> "supervisor"
                       [] OTHER -> "none"]

\* validateCreateCircleRequest refuses a creator among the others.
CreateRequest(u, teachers, backup) ==
    /\ u \notin teachers \cup backup
    /\ teachers \cap backup = {}
    /\ Cardinality(backup) <= 1

\* A taken code is a unique violation, tried again with another code.
CodeTaken(code) ==
    \/ \E c \in Circles : circle[c].code = code
    \/ \E t \in Open : tx[t].code = code

\* InsertCircle and InsertMember; nobody sees the rows before the commit.
CreateCircle(t, u, c, teachers, backup, capacity, private, code) ==
    /\ commands < MaxCommands /\ commands' = commands + 1
    /\ tx[t] = Closed
    /\ circle[c] = NoCircle /\ CircleFree(c)
    /\ CreateRequest(u, teachers, backup)
    /\ ~CodeTaken(code)
    /\ \A v \in {u} \cup teachers \cup backup : UserReferable(v)
    /\ tx' = [tx EXCEPT ![t] =
                [pc |-> "created", actor |-> u, circle |-> c, code |-> code,
                 members |-> InitialMembers(u, teachers, backup),
                 row |-> LiveCircle(capacity, private, code)]]
    /\ UNCHANGED <<circle, role>>

CommitCreate(t) ==
    /\ tx[t].pc = "created"
    /\ circle' = [circle EXCEPT ![tx[t].circle] = tx[t].row]
    /\ role' = [role EXCEPT ![tx[t].circle] = tx[t].members]
    /\ tx' = [tx EXCEPT ![t] = Closed]
    /\ UNCHANGED commands

-----------------------------------------------------------------------------
(* Commands on a circle                                                    *)

\* The circle row is locked; row and members are read.
Lock(t, u, c, op, code) ==
    /\ commands < MaxCommands /\ commands' = commands + 1
    /\ tx[t] = Closed
    /\ circle[c].state # "none" /\ CircleFree(c)
    /\ tx' = [tx EXCEPT ![t] = [pc |-> op, actor |-> u, circle |-> c, code |-> code,
                                members |-> role[c], row |-> circle[c]]]
    /\ UNCHANGED <<circle, role>>

Commands == {"assign", "remove", "update", "refresh", "archive"}

\* The transaction ends; a refusal changes nothing.
Finish(t) == tx' = [tx EXCEPT ![t] = Closed] /\ UNCHANGED commands

Rollback(t) ==
    /\ tx[t].pc # "idle"
    /\ Finish(t)
    /\ UNCHANGED <<circle, role>>

\* Join by invitation or, for a public circle, by its ID.
LockForJoin(t, u, c, code) ==
    /\ code = circle[c].code \/ (code = "none" /\ ~circle[c].private)
    /\ Lock(t, u, c, "join", code)

\* joinCircle after LockMembers: the user's row is locked, memberships counted.
JoinLocksUser(t) ==
    /\ tx[t].pc = "join"
    /\ tx[t].row.state = "live"
    /\ tx[t].members[tx[t].actor] = "none"
    /\ UserFree(tx[t].actor)
    /\ Cardinality(WithRole(tx[t].members, "student")) < tx[t].row.capacity
    /\ Cardinality(ActiveMemberships(tx[t].actor)) < MembershipLimit
    /\ tx' = [tx EXCEPT ![t].pc = "counted"]
    /\ UNCHANGED <<circle, role, commands>>

\* InsertMember and commit.
JoinCommits(t) ==
    /\ tx[t].pc = "counted"
    /\ role' = [role EXCEPT ![tx[t].circle][tx[t].actor] = "student"]
    /\ Finish(t)
    /\ UNCHANGED circle

\* Mutant: the target is not counted among the teachers.
LosesNoTeacher(members, v, r) == TRUE

\* ErrFinalTeacher.
KeepsATeacher(members, v, r) ==
    members[v] = "teacher" /\ r # "teacher" => Cardinality(WithRole(members, "teacher")) > 1

\* By a teacher or a supervisor, for another member.
AssignRole(t, v, r) ==
    /\ tx[t].pc = "assign"
    /\ tx[t].row.state = "live"
    /\ v # tx[t].actor
    /\ tx[t].members[tx[t].actor] \in Managers
    /\ tx[t].members[v] # "none"
    /\ KeepsATeacher(tx[t].members, v, r)
    /\ role' = [role EXCEPT ![tx[t].circle][v] = r]
    /\ Finish(t)
    /\ UNCHANGED circle

\* Mutant: supervisors pass as well.
IsStaff(t) == tx[t].members[tx[t].actor] \in Managers

\* Only RoleTeacher.
IsTeacher(t) == tx[t].members[tx[t].actor] = "teacher"

RemoveMember(t, v) ==
    /\ tx[t].pc = "remove"
    /\ tx[t].row.state = "live"
    /\ v # tx[t].actor
    /\ IsTeacher(t)
    /\ tx[t].members[v] # "none"
    /\ KeepsATeacher(tx[t].members, v, "none")
    /\ role' = [role EXCEPT ![tx[t].circle][v] = "none"]
    /\ Finish(t)
    /\ UNCHANGED circle

\* mergeCircleUpdate: what is not given keeps the value that was read.  The
\* capacity may fall below the number of students.
UpdateCircle(t, capacity, private) ==
    /\ tx[t].pc = "update"
    /\ tx[t].row.state = "live"
    /\ IsTeacher(t)
    /\ circle' = [circle EXCEPT ![tx[t].circle].capacity = capacity,
                                ![tx[t].circle].private = private]
    /\ Finish(t)
    /\ UNCHANGED role

RefreshInviteCode(t, code) ==
    /\ tx[t].pc = "refresh"
    /\ tx[t].row.state = "live"
    /\ IsTeacher(t)
    /\ ~CodeTaken(code)
    /\ circle' = [circle EXCEPT ![tx[t].circle].code = code]
    /\ Finish(t)
    /\ UNCHANGED role

\* Also for a circle that is archived already.
ArchiveCircle(t) ==
    /\ tx[t].pc = "archive"
    /\ IsTeacher(t)
    /\ circle' = [circle EXCEPT ![tx[t].circle].state = "archived"]
    /\ Finish(t)
    /\ UNCHANGED role

-----------------------------------------------------------------------------
Next ==
    \/ \E t \in Txs, u \in Users, c \in Circles, code \in Codes, k \in Capacities, p \in BOOLEAN :
         \E teachers, backup \in SUBSET Users : CreateCircle(t, u, c, teachers, backup, k, p, code)
    \/ \E t \in Txs, u \in Users, c \in Circles, op \in Commands : Lock(t, u, c, op, "none")
    \/ \E t \in Txs, u \in Users, c \in Circles, code \in Codes \cup {"none"} : LockForJoin(t, u, c, code)
    \/ \E t \in Txs : \/ CommitCreate(t) \/ Rollback(t) \/ JoinLocksUser(t) \/ JoinCommits(t)
                      \/ ArchiveCircle(t)
                      \/ \E v \in Users : RemoveMember(t, v) \/ \E r \in Roles \ {"none"} : AssignRole(t, v, r)
                      \/ \E k \in Capacities, p \in BOOLEAN : UpdateCircle(t, k, p)
                      \/ \E code \in Codes : RefreshInviteCode(t, code)

Spec == Init /\ [][Next]_vars

-----------------------------------------------------------------------------
(* Properties                                                              *)

\* Circles and members have the shape of their tables.
TypeOK ==
    /\ circle \in [Circles -> [state : {"none", "live", "archived"}, capacity : Capacities \cup {0},
                               private : BOOLEAN, code : Codes \cup {"none"}]]
    /\ role \in [Circles -> [Users -> Roles]]
    /\ commands \in 0..MaxCommands

\* A circle always has a teacher: role changes and removals by several
\* managers at once never leave it without one (ErrFinalTeacher).
AlwaysATeacher ==
    \A c \in Circles : circle[c].state # "none" => WithRole(role[c], "teacher") # {}

Joins(c, u) == role[c][u] = "none" /\ role'[c][u] = "student" /\ circle[c].state # "none"

\* Who joins is welcome at that moment: the circle is live, its code is still
\* the one presented (or it is public), and the student has a place.
JoinIsWelcome ==
    [][\A c \in Circles, u \in Users : Joins(c, u) =>
         /\ circle[c].state = "live"
         /\ Cardinality(WithRole(role'[c], "student")) <= circle[c].capacity
         /\ \E t \in Txs : /\ tx[t].pc = "counted" /\ tx[t].circle = c /\ tx[t].actor = u
                           /\ tx[t].code \in {circle[c].code} \cup (IF circle[c].private THEN {} ELSE {"none"})]_vars

\* No join takes a user beyond the limit of active circles, although joins to
\* different circles, creations with the user as teacher and retirements of
\* circles lock no common circle.
JoinWithinLimit ==
    [][\A c \in Circles, u \in Users : Joins(c, u) =>
         Cardinality(ActiveMemberships(u)') <= MembershipLimit]_vars

\* A command takes effect only while its actor manages the circle, whatever
\* was decided about the actor while the command was under way.
ActorStillManages ==
    [][\A t \in Txs : tx[t].pc \in Commands /\ (role' # role \/ circle' # circle)
                      /\ tx'[t] = Closed =>
         role[tx[t].circle][tx[t].actor] \in IF tx[t].pc = "assign" THEN Managers ELSE {"teacher"}]_vars

=============================================================================
