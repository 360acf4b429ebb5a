---------------------------- MODULE CirclesProofs ----------------------------
(***************************************************************************)
(* Theorems about circles and their members, for any number of users,      *)
(* circles and transactions that are open at the same time.                *)
(***************************************************************************)
EXTENDS Circles, FiniteSetTheorems, TLAPS

-----------------------------------------------------------------------------
(* The invariant                                                           *)

CircleRow == [state : {"none", "live", "archived"}, capacity : Capacities \cup {0},
              private : BOOLEAN, code : Codes \cup {"none"}]

TxRow == [pc : {"created", "join", "counted"} \cup Commands, actor : Users, circle : Circles,
          code : Codes \cup {"none"}, members : [Users -> Roles], row : CircleRow]

Shape ==
    /\ circle \in [Circles -> CircleRow]
    /\ role \in [Circles -> [Users -> Roles]]
    /\ tx \in [Txs -> TxRow \cup {Closed}]

\* FOR UPDATE: a circle belongs to one transaction at a time.
OneHolder == \A s, t \in Open : s # t => tx[s].circle # tx[t].circle

\* What was read under the lock is what the tables still hold; the rows of a
\* creation are not there yet, and name a teacher.
Snapshot(t) ==
    IF tx[t].pc = "created"
    THEN /\ circle[tx[t].circle].state = "none"
         /\ tx[t].row.state = "live"
         /\ WithRole(tx[t].members, "teacher") # {}
    ELSE /\ circle[tx[t].circle] = tx[t].row
         /\ role[tx[t].circle] = tx[t].members
         /\ tx[t].row.state # "none"

\* The code that a join presented.
Invited(t) ==
    tx[t].pc \in {"join", "counted"} =>
        tx[t].code \in {tx[t].row.code} \cup (IF tx[t].row.private THEN {} ELSE {"none"})

\* What a join has counted still holds: the circle by its lock, the memberships
\* because nobody else can add one while the user's row is locked.
Counted(t) ==
    tx[t].pc = "counted" =>
        /\ tx[t].row.state = "live"
        /\ tx[t].members[tx[t].actor] = "none"
        /\ Cardinality(WithRole(tx[t].members, "student")) < tx[t].row.capacity
        /\ Cardinality(ActiveMemberships(tx[t].actor)) < MembershipLimit

\* The lock of the user's row against other joins and against creations.
UserHeld(s, t) ==
    tx[s].pc = "counted" =>
        /\ tx[t].pc = "counted" => tx[t].actor # tx[s].actor
        /\ tx[t].pc = "created" => tx[t].members[tx[s].actor] = "none"

Inv ==
    /\ TypeOK /\ Shape /\ OneHolder /\ AlwaysATeacher
    /\ \A t \in Open : Snapshot(t) /\ Invited(t) /\ Counted(t)
    /\ \A s, t \in Open : s # t => UserHeld(s, t)

LEMMA OpenType ==
  ASSUME Shape, NEW t \in Open
  PROVE  t \in Txs /\ tx[t] \in TxRow /\ tx[t] # Closed
  BY DEF Shape, Open, Closed

LEMMA WithRoleFinite ==
  ASSUME NEW members, NEW r
  PROVE  IsFiniteSet(WithRole(members, r)) /\ Cardinality(WithRole(members, r)) \in Nat
<1>1. WithRole(members, r) \in SUBSET Users /\ IsFiniteSet(Users)
  BY CirclesConstants DEF WithRole
<1> QED BY <1>1, FS_Subset, FS_CardinalityType

LEMMA MembershipsFinite ==
  ASSUME NEW u
  PROVE  IsFiniteSet(ActiveMemberships(u)) /\ Cardinality(ActiveMemberships(u)) \in Nat
<1>1. ActiveMemberships(u) \in SUBSET Circles /\ IsFiniteSet(Circles)
  BY CirclesConstants DEF ActiveMemberships
<1> QED BY <1>1, FS_Subset, FS_CardinalityType

LEMMA InvInit == Init => Inv
<1> SUFFICES ASSUME Init PROVE Inv
  OBVIOUS
<1>1. PICK c \in Circles, u \in Users, code \in Codes, k \in Capacities, p \in BOOLEAN :
         /\ circle = [d \in Circles |-> IF d = c THEN LiveCircle(k, p, code) ELSE NoCircle]
         /\ role = [d \in Circles |-> IF d = c THEN [NoMembers EXCEPT ![u] = "teacher"] ELSE NoMembers]
  BY DEF Init
<1>2. LiveCircle(k, p, code) \in CircleRow /\ NoCircle \in CircleRow /\ NoCircle.state = "none"
  BY DEF LiveCircle, NoCircle, CircleRow
<1>3. /\ [NoMembers EXCEPT ![u] = "teacher"] \in [Users -> Roles] /\ NoMembers \in [Users -> Roles]
      /\ [NoMembers EXCEPT ![u] = "teacher"][u] = "teacher"
  BY DEF NoMembers, Roles
<1>4. circle \in [Circles -> CircleRow] /\ role \in [Circles -> [Users -> Roles]]
  BY <1>1, <1>2, <1>3
<1>5. tx = [t \in Txs |-> Closed] /\ Open = {} /\ commands = 0
  BY DEF Init, Open, Closed
<1>6. TypeOK /\ Shape
  BY <1>4, <1>5, CirclesConstants DEF TypeOK, Shape, CircleRow
<1>7. AlwaysATeacher
  BY <1>1, <1>2, <1>3 DEF AlwaysATeacher, WithRole
<1> QED BY <1>5, <1>6, <1>7 DEF Inv, OneHolder

-----------------------------------------------------------------------------
(* Frames                                                                  *)

\* A transaction ends and has changed nothing but its own circle.
LEMMA EndKeeps ==
  ASSUME Inv, NEW t \in Open,
         tx' = [tx EXCEPT ![t] = Closed], UNCHANGED commands,
         circle' \in [Circles -> CircleRow], role' \in [Circles -> [Users -> Roles]],
         \A d \in Circles \ {tx[t].circle} : circle'[d] = circle[d] /\ role'[d] = role[d],
         circle'[tx[t].circle].state # "none" => WithRole(role'[tx[t].circle], "teacher") # {},
         \A s \in Open \ {t} : tx[s].pc = "counted" =>
             ActiveMemberships(tx[s].actor)' \subseteq ActiveMemberships(tx[s].actor)
  PROVE  Inv'
<1>1. Shape /\ t \in Txs
  BY OpenType DEF Inv
<1>2. TypeOK' /\ Shape'
  <2>1. tx' \in [Txs -> TxRow \cup {Closed}]
    BY <1>1 DEF Shape
  <2> QED BY <2>1 DEF Inv, TypeOK, Shape, CircleRow
<1>3. Open' = Open \ {t} /\ \A s \in Open' : tx'[s] = tx[s]
  BY <1>1 DEF Open, Shape, Closed
<1>4. OneHolder'
  BY <1>3 DEF Inv, OneHolder
<1>5. AlwaysATeacher'
  BY DEF Inv, AlwaysATeacher
<1>6. ASSUME NEW s \in Open'
      PROVE  Snapshot(s)' /\ Invited(s)'
  <2>1. tx'[s] = tx[s] /\ Snapshot(s) /\ Invited(s) /\ tx[s] \in TxRow
    BY <1>1, <1>3, <1>6, OpenType DEF Inv
  <2>2. tx[s].circle \in Circles \ {tx[t].circle}
    BY <1>3, <1>6, <2>1 DEF Inv, OneHolder, TxRow
  <2>3. circle'[tx[s].circle] = circle[tx[s].circle] /\ role'[tx[s].circle] = role[tx[s].circle]
    BY <2>2
  <2> QED BY <2>1, <2>3 DEF Snapshot, Invited
<1>7. ASSUME NEW s \in Open'
      PROVE  Counted(s)'
  <2>1. tx'[s] = tx[s] /\ Counted(s) /\ s \in Open \ {t}
    BY <1>3, <1>7 DEF Inv
  <2>2. SUFFICES ASSUME tx[s].pc = "counted"
                 PROVE  Cardinality(ActiveMemberships(tx[s].actor)') < MembershipLimit
    BY <2>1 DEF Counted, ActiveMemberships
  <2>3. Cardinality(ActiveMemberships(tx[s].actor)') <= Cardinality(ActiveMemberships(tx[s].actor))
    BY <2>1, <2>2, MembershipsFinite, FS_Subset
  <2>4. /\ Cardinality(ActiveMemberships(tx[s].actor)) < MembershipLimit
        /\ Cardinality(ActiveMemberships(tx[s].actor)) \in Nat /\ MembershipLimit \in Nat
    BY <2>1, <2>2, MembershipsFinite, CirclesConstants DEF Counted
  <2>5. Cardinality(ActiveMemberships(tx[s].actor)') \in Nat
    BY <2>1, <2>2, MembershipsFinite, FS_Subset, FS_CardinalityType
  <2> QED BY <2>3, <2>4, <2>5
<1>8. \A r, s \in Open' : r # s => UserHeld(r, s)'
  BY <1>3 DEF Inv, UserHeld
<1> QED BY <1>2, <1>4, <1>5, <1>6, <1>7, <1>8 DEF Inv

\* A transaction goes on; the tables stay.
LEMMA TxFrame ==
  ASSUME Inv, NEW t \in Txs, NEW x \in TxRow, x.pc # "idle",
         tx' = [tx EXCEPT ![t] = x], UNCHANGED <<circle, role>>, commands' \in 0..MaxCommands
  PROVE  /\ TypeOK' /\ Shape' /\ AlwaysATeacher'
         /\ tx'[t] = x /\ Open' = Open \cup {t}
         /\ \A s \in Open \ {t} : /\ s \in Txs /\ tx'[s] = tx[s]
                                  /\ Snapshot(s)' /\ Invited(s)' /\ Counted(s)'
<1>1. Shape
  BY DEF Inv
<1>2. TypeOK' /\ Shape' /\ AlwaysATeacher'
  BY <1>1 DEF Inv, TypeOK, Shape, AlwaysATeacher
<1>3. tx'[t] = x /\ Open' = Open \cup {t} /\ \A s \in Open \ {t} : s \in Txs /\ tx'[s] = tx[s]
  BY <1>1 DEF Open, Shape
<1>4. ASSUME NEW s \in Open \ {t}
      PROVE  Snapshot(s)' /\ Invited(s)' /\ Counted(s)'
  BY <1>3 DEF Inv, Snapshot, Invited, Counted, ActiveMemberships
<1> QED BY <1>2, <1>3, <1>4

-----------------------------------------------------------------------------
(* Actions                                                                 *)

LEMMA NextCommand ==
  ASSUME Inv, commands < MaxCommands, commands' = commands + 1
  PROVE  commands' \in 0..MaxCommands
<1>1. commands \in 0..MaxCommands /\ MaxCommands \in Nat
  BY CirclesConstants DEF Inv, TypeOK
<1> QED BY <1>1

\* A creation holds its circle and its members against joins.
LEMMA CreateKeeps ==
  ASSUME Inv, NEW t \in Txs, NEW u \in Users, NEW c \in Circles, NEW code \in Codes,
         NEW k \in Capacities, NEW p \in BOOLEAN,
         NEW teachers \in SUBSET Users, NEW backup \in SUBSET Users,
         CreateCircle(t, u, c, teachers, backup, k, p, code)
  PROVE  Inv'
<1> DEFINE members == InitialMembers(u, teachers, backup)
           x == [pc |-> "created", actor |-> u, circle |-> c, code |-> code,
                 members |-> members, row |-> LiveCircle(k, p, code)]
<1>1. members \in [Users -> Roles]
  BY DEF InitialMembers, Roles
<1>2. WithRole(members, "teacher") # {}
  <2>1. CASE teachers = {}
    <3>1. members[u] = IF teachers = {} THEN "teacher" ELSE "supervisor"
      BY DEF InitialMembers, CreateCircle, CreateRequest
    <3> HIDE DEF members
    <3>2. members[u] = "teacher"
      BY <2>1, <3>1
    <3> QED BY <3>2 DEF WithRole
  <2>2. CASE teachers # {}
    <3>1. PICK v \in teachers : v \in Users /\ v # u
      BY <2>2 DEF CreateCircle, CreateRequest
    <3>2. members[v] = "teacher"
      BY <3>1 DEF InitialMembers
    <3> QED BY <3>1, <3>2 DEF WithRole
  <2> QED BY <2>1, <2>2
<1>3. \A v \in Users : members[v] # "none" => v \in {u} \cup teachers \cup backup
  BY DEF InitialMembers
<1> HIDE DEF members
<1>4. x \in TxRow
  BY <1>1 DEF TxRow, LiveCircle, CircleRow
<1>5. /\ commands < MaxCommands /\ commands' = commands + 1 /\ tx[t] = Closed
      /\ circle[c] = NoCircle /\ CircleFree(c)
      /\ \A v \in {u} \cup teachers \cup backup : UserReferable(v)
      /\ tx' = [tx EXCEPT ![t] = x] /\ UNCHANGED <<circle, role>>
  BY DEF CreateCircle, members
<1>6. t \notin Open
  BY <1>5 DEF Open, Closed
<1>7. /\ TypeOK' /\ Shape' /\ AlwaysATeacher'
      /\ tx'[t] = x /\ Open' = Open \cup {t}
      /\ \A s \in Open : /\ s \in Txs /\ tx'[s] = tx[s]
                         /\ Snapshot(s)' /\ Invited(s)' /\ Counted(s)'
  BY <1>4, <1>5, <1>6, NextCommand, TxFrame
<1>8. OneHolder'
  BY <1>5, <1>7 DEF Inv, OneHolder, CircleFree
<1>9. Snapshot(t)' /\ Invited(t)' /\ Counted(t)'
  BY <1>2, <1>5, <1>7 DEF Snapshot, Invited, Counted, NoCircle, LiveCircle, WithRole
<1>10. ASSUME NEW s \in Open, tx[s].pc = "counted"
       PROVE  members[tx[s].actor] = "none"
  <2>1. tx[s].actor \in Users
    BY OpenType DEF Inv, TxRow
  <2> QED BY <1>3, <1>5, <1>10, <2>1 DEF UserReferable
<1>11. \A r, s \in Open' : r # s => UserHeld(r, s)'
  BY <1>7, <1>10 DEF Inv, UserHeld
<1> QED BY <1>7, <1>8, <1>9, <1>11 DEF Inv

\* The circle's row is locked, and what is read is what the tables hold.
LEMMA LockKeeps ==
  ASSUME Inv, NEW t \in Txs, NEW u \in Users, NEW c \in Circles,
         NEW op \in Commands \cup {"join"}, NEW code \in Codes \cup {"none"},
         Lock(t, u, c, op, code),
         op = "join" => code = circle[c].code \/ (code = "none" /\ ~circle[c].private)
  PROVE  Inv'
<1> DEFINE x == [pc |-> op, actor |-> u, circle |-> c, code |-> code,
                 members |-> role[c], row |-> circle[c]]
<1>1. x \in TxRow /\ x.pc # "idle"
  BY DEF Inv, Shape, TxRow, Commands
<1>2. /\ commands < MaxCommands /\ commands' = commands + 1 /\ tx[t] = Closed
      /\ circle[c].state # "none" /\ CircleFree(c)
      /\ tx' = [tx EXCEPT ![t] = x] /\ UNCHANGED <<circle, role>>
  BY DEF Lock
<1>3. t \notin Open
  BY <1>2 DEF Open, Closed
<1>4. /\ TypeOK' /\ Shape' /\ AlwaysATeacher'
      /\ tx'[t] = x /\ Open' = Open \cup {t}
      /\ \A s \in Open : /\ s \in Txs /\ tx'[s] = tx[s]
                         /\ Snapshot(s)' /\ Invited(s)' /\ Counted(s)'
  BY <1>1, <1>2, <1>3, NextCommand, TxFrame
<1>5. OneHolder'
  BY <1>2, <1>4 DEF Inv, OneHolder, CircleFree
<1>6. op \notin {"created", "counted"}
  BY DEF Commands
<1>7. Snapshot(t)' /\ Counted(t)'
  BY <1>2, <1>4, <1>6 DEF Snapshot, Counted
<1>8. Invited(t)'
  BY <1>4, <1>6 DEF Invited, Commands
<1>9. \A r, s \in Open' : r # s => UserHeld(r, s)'
  BY <1>4, <1>6 DEF Inv, UserHeld
<1> QED BY <1>4, <1>5, <1>7, <1>8, <1>9 DEF Inv

\* The user's row is locked, and only then the memberships are counted.
LEMMA JoinLocksKeeps ==
  ASSUME Inv, NEW t \in Txs, JoinLocksUser(t)
  PROVE  Inv'
<1>1. /\ tx[t].pc = "join" /\ tx[t].row.state = "live"
      /\ tx[t].members[tx[t].actor] = "none" /\ UserFree(tx[t].actor)
      /\ Cardinality(WithRole(tx[t].members, "student")) < tx[t].row.capacity
      /\ Cardinality(ActiveMemberships(tx[t].actor)) < MembershipLimit
      /\ UNCHANGED <<circle, role, commands>>
  BY DEF JoinLocksUser
<1>2. t \in Open /\ tx[t] \in TxRow
  BY <1>1, OpenType DEF Open, Inv
<1>3. PICK x \in TxRow :
         /\ x.pc = "counted" /\ x.actor = tx[t].actor /\ x.circle = tx[t].circle
         /\ x.code = tx[t].code /\ x.members = tx[t].members /\ x.row = tx[t].row
         /\ tx' = [tx EXCEPT ![t] = x]
  <2> DEFINE x == [tx[t] EXCEPT !.pc = "counted"]
  <2>1. /\ x \in TxRow /\ x.pc = "counted" /\ x.actor = tx[t].actor /\ x.circle = tx[t].circle
        /\ x.code = tx[t].code /\ x.members = tx[t].members /\ x.row = tx[t].row
    BY <1>2 DEF TxRow
  <2>2. tx' = [tx EXCEPT ![t] = x]
    BY DEF JoinLocksUser
  <2> HIDE DEF x
  <2> QED BY <2>1, <2>2
<1>4. commands' \in 0..MaxCommands /\ x.pc # "idle"
  BY <1>1, <1>3 DEF Inv, TypeOK
<1>5. /\ TypeOK' /\ Shape' /\ AlwaysATeacher'
      /\ tx'[t] = x /\ Open' = Open
      /\ \A s \in Open \ {t} : /\ s \in Txs /\ tx'[s] = tx[s]
                               /\ Snapshot(s)' /\ Invited(s)' /\ Counted(s)'
  <2>1. UNCHANGED <<circle, role>> /\ Open \cup {t} = Open
    BY <1>1, <1>2
  <2>2. Open' = Open \cup {t}
    BY <1>3, <1>4, <2>1, TxFrame
  <2> QED BY <1>3, <1>4, <2>1, <2>2, TxFrame
<1>6. OneHolder'
  BY <1>2, <1>3, <1>5 DEF Inv, OneHolder
<1>7. Snapshot(t)' /\ Invited(t)'
  BY <1>1, <1>2, <1>3, <1>5 DEF Inv, Snapshot, Invited
<1>8. Counted(t)'
  <2>1. ActiveMemberships(tx[t].actor)' = ActiveMemberships(tx[t].actor)
    BY <1>1, <1>3, <1>5 DEF ActiveMemberships
  <2>2. WithRole(tx'[t].members, "student") = WithRole(tx[t].members, "student")
    BY <1>3, <1>5
  <2> QED BY <1>1, <1>3, <1>5, <2>1, <2>2 DEF Counted
<1>9. \A r, s \in Open' : r # s => UserHeld(r, s)'
  BY <1>1, <1>2, <1>3, <1>5 DEF Inv, UserHeld, UserFree
<1> QED BY <1>5, <1>6, <1>7, <1>8, <1>9 DEF Inv

-----------------------------------------------------------------------------
(* Commits                                                                 *)

\* A commit of some other command on a circle.
LEMMA CommandFacts ==
  ASSUME Inv, NEW t \in Txs, tx[t].pc # "idle", tx[t].pc # "created"
  PROVE  /\ t \in Open /\ tx[t] \in TxRow
         /\ tx[t].circle \in Circles /\ tx[t].actor \in Users
         /\ circle[tx[t].circle] = tx[t].row /\ circle[tx[t].circle] \in CircleRow
         /\ role[tx[t].circle] = tx[t].members /\ role[tx[t].circle] \in [Users -> Roles]
         /\ circle[tx[t].circle].state # "none"
         /\ WithRole(role[tx[t].circle], "teacher") # {}
<1>1. t \in Open /\ tx[t] \in TxRow
  BY OpenType DEF Inv, Open
<1>2. tx[t].circle \in Circles /\ tx[t].actor \in Users
  BY <1>1 DEF TxRow
<1>3. Snapshot(t)
  BY <1>1 DEF Inv
<1> QED BY <1>1, <1>2, <1>3 DEF Inv, Snapshot, Shape, AlwaysATeacher

\* A change of one member that adds no membership of a counted user.
LEMMA MemberChangeKeeps ==
  ASSUME Inv, NEW t \in Open, NEW v \in Users, NEW r \in Roles,
         tx[t].pc # "created",
         role' = [role EXCEPT ![tx[t].circle][v] = r],
         Finish(t), UNCHANGED circle,
         WithRole(role'[tx[t].circle], "teacher") # {},
         \A s \in Open \ {t} : tx[s].pc = "counted" /\ tx[s].actor = v =>
             r = "none" \/ role[tx[t].circle][v] # "none"
  PROVE  /\ Inv'
         /\ role'[tx[t].circle] = [role[tx[t].circle] EXCEPT ![v] = r]
         /\ \A d \in Circles \ {tx[t].circle} : role'[d] = role[d]
<1> DEFINE c == tx[t].circle
<1>1. tx[t].pc # "idle" /\ t \in Txs
  BY DEF Open
<1>2. c \in Circles /\ role \in [Circles -> [Users -> Roles]] /\ circle \in [Circles -> CircleRow]
  BY <1>1, CommandFacts DEF Inv, Shape
<1> HIDE DEF c
<1>3. /\ role' \in [Circles -> [Users -> Roles]]
      /\ role'[c] = [role[c] EXCEPT ![v] = r]
      /\ \A d \in Circles \ {c} : role'[d] = role[d]
  BY <1>2 DEF c
<1>4. ASSUME NEW s \in Open \ {t}, tx[s].pc = "counted"
      PROVE  ActiveMemberships(tx[s].actor)' \subseteq ActiveMemberships(tx[s].actor)
  <2>1. tx'[s].actor = tx[s].actor /\ tx[s].actor \in Users
    BY <1>1, OpenType DEF Finish, Inv, Shape, TxRow
  <2>2. \A d \in Circles : role'[d][tx[s].actor] # "none" => role[d][tx[s].actor] # "none"
    <3>1. role'[c][tx[s].actor] # "none" => role[c][tx[s].actor] # "none"
      BY <1>2, <1>3, <1>4, <2>1 DEF c
    <3> QED BY <1>3, <3>1
  <2> QED BY <2>1, <2>2 DEF ActiveMemberships
<1>5. Inv'
  <2>1. circle'[c].state # "none" => WithRole(role'[c], "teacher") # {}
    BY DEF c
  <2> QED BY <1>2, <1>3, <1>4, <2>1, EndKeeps DEF Finish, c
<1> QED BY <1>3, <1>5 DEF c

\* ErrFinalTeacher, decided on the members that were read, holds of the table.
LEMMA TeacherStays ==
  ASSUME NEW members \in [Users -> Roles], NEW v \in Users, NEW r \in Roles,
         KeepsATeacher(members, v, r), WithRole(members, "teacher") # {}
  PROVE  WithRole([members EXCEPT ![v] = r], "teacher") # {}
<1>1. CASE members[v] = "teacher" /\ r # "teacher"
  <2>1. Cardinality(WithRole(members, "teacher")) > 1
    BY <1>1 DEF KeepsATeacher
  <2>2. WithRole(members, "teacher") # {v}
    BY <2>1, FS_Singleton
  <2>3. PICK w \in Users : w # v /\ members[w] = "teacher"
    BY <1>1, <2>2 DEF WithRole
  <2> QED BY <2>3 DEF WithRole
<1>2. CASE members[v] # "teacher"
  <2>1. PICK w \in Users : members[w] = "teacher"
    BY DEF WithRole
  <2> QED BY <1>2, <2>1 DEF WithRole
<1>3. CASE r = "teacher"
  BY <1>3 DEF WithRole
<1> QED BY <1>1, <1>2, <1>3

\* AssignRole and RemoveMember.
LEMMA RoleKeeps ==
  ASSUME Inv, NEW t \in Txs, NEW v \in Users,
         RemoveMember(t, v) \/ \E r \in Roles \ {"none"} : AssignRole(t, v, r)
  PROVE  Inv'
<1>1. PICK r \in Roles :
         /\ tx[t].pc \in {"assign", "remove"}
         /\ tx[t].members[v] # "none" /\ KeepsATeacher(tx[t].members, v, r)
         /\ role' = [role EXCEPT ![tx[t].circle][v] = r]
         /\ Finish(t) /\ UNCHANGED circle
  BY DEF RemoveMember, AssignRole, Roles
<1>2. /\ t \in Open /\ tx[t].circle \in Circles /\ tx[t].members = role[tx[t].circle]
      /\ role[tx[t].circle] \in [Users -> Roles] /\ WithRole(role[tx[t].circle], "teacher") # {}
  BY <1>1, CommandFacts
<1>3. role'[tx[t].circle] = [role[tx[t].circle] EXCEPT ![v] = r]
  BY <1>1, <1>2 DEF Inv, Shape
<1>4. WithRole(role'[tx[t].circle], "teacher") # {}
  BY <1>1, <1>2, <1>3, TeacherStays
<1> QED BY <1>1, <1>2, <1>4, MemberChangeKeeps

\* A join inserts a student where nobody was.
LEMMA JoinKeeps ==
  ASSUME Inv, NEW t \in Txs, JoinCommits(t)
  PROVE  /\ Inv'
         /\ role'[tx[t].circle] = [role[tx[t].circle] EXCEPT ![tx[t].actor] = "student"]
         /\ \A d \in Circles \ {tx[t].circle} : role'[d] = role[d]
<1> DEFINE c == tx[t].circle
           u == tx[t].actor
<1>1. /\ tx[t].pc = "counted" /\ role' = [role EXCEPT ![c][u] = "student"]
      /\ Finish(t) /\ UNCHANGED circle
  BY DEF JoinCommits
<1>2. /\ t \in Open /\ c \in Circles /\ u \in Users /\ tx[t].members = role[c]
      /\ role[c] \in [Users -> Roles] /\ WithRole(role[c], "teacher") # {}
  BY <1>1, CommandFacts
<1>3. role[c][u] = "none"
  BY <1>1, <1>2 DEF Inv, Counted
<1>4. role'[c] = [role[c] EXCEPT ![u] = "student"]
  BY <1>1, <1>2 DEF Inv, Shape
<1>5. WithRole(role'[c], "teacher") # {}
  <2>1. PICK w \in Users : role[c][w] = "teacher"
    BY <1>2 DEF WithRole
  <2> QED BY <1>2, <1>3, <1>4, <2>1 DEF WithRole
<1>6. \A s \in Open \ {t} : tx[s].pc = "counted" => tx[s].actor # u
  BY <1>1, <1>2 DEF Inv, UserHeld
<1>7. "student" \in Roles /\ tx[t].pc # "created"
  BY <1>1 DEF Roles
<1>8. \A s \in Open \ {t} : tx[s].pc = "counted" /\ tx[s].actor = u =>
         "student" = "none" \/ role[c][u] # "none"
  BY <1>6
<1> QED BY <1>1, <1>2, <1>5, <1>7, <1>8, MemberChangeKeeps

\* Commands on the circle's own row: settings, invitation, retirement.
LEMMA CircleChangeKeeps ==
  ASSUME Inv, NEW t \in Txs,
         \/ \E k \in Capacities, p \in BOOLEAN : UpdateCircle(t, k, p)
         \/ \E code \in Codes : RefreshInviteCode(t, code)
         \/ ArchiveCircle(t)
  PROVE  Inv'
<1> DEFINE c == tx[t].circle
<1>1. tx[t].pc \in {"update", "refresh", "archive"} /\ Finish(t) /\ UNCHANGED role
  BY DEF UpdateCircle, RefreshInviteCode, ArchiveCircle
<1>2. /\ t \in Open /\ c \in Circles /\ circle[c] \in CircleRow /\ circle[c].state # "none"
      /\ WithRole(role[c], "teacher") # {} /\ circle \in [Circles -> CircleRow]
      /\ role \in [Circles -> [Users -> Roles]]
  BY <1>1, CommandFacts DEF Inv, Shape
<1>3. /\ circle' \in [Circles -> CircleRow]
      /\ \A d \in Circles \ {c} : circle'[d] = circle[d]
      /\ circle'[c].state = "live" => circle[c].state = "live"
  <2>1. CASE \E k \in Capacities, p \in BOOLEAN : UpdateCircle(t, k, p)
    <3>1. PICK k \in Capacities, p \in BOOLEAN :
             circle' = [circle EXCEPT ![c].capacity = k, ![c].private = p]
      BY <2>1 DEF UpdateCircle
    <3> HIDE DEF c
    <3> QED BY <1>2, <3>1 DEF CircleRow
  <2>2. CASE \E code \in Codes : RefreshInviteCode(t, code)
    <3>1. PICK code \in Codes : circle' = [circle EXCEPT ![c].code = code]
      BY <2>2 DEF RefreshInviteCode
    <3> HIDE DEF c
    <3> QED BY <1>2, <3>1 DEF CircleRow
  <2>3. CASE ArchiveCircle(t)
    <3>1. circle' = [circle EXCEPT ![c].state = "archived"]
      BY <2>3 DEF ArchiveCircle
    <3> HIDE DEF c
    <3> QED BY <1>2, <3>1 DEF CircleRow
  <2> QED BY <2>1, <2>2, <2>3
<1>4. ASSUME NEW s \in Open \ {t}, tx[s].pc = "counted"
      PROVE  ActiveMemberships(tx[s].actor)' \subseteq ActiveMemberships(tx[s].actor)
  <2>1. tx'[s] = tx[s]
    BY <1>1, OpenType DEF Finish, Inv, Shape
  <2> QED BY <1>1, <1>3, <2>1 DEF ActiveMemberships
<1>5. WithRole(role'[c], "teacher") # {}
  BY <1>1, <1>2
<1> HIDE DEF c
<1> QED BY <1>1, <1>2, <1>3, <1>4, <1>5, EndKeeps DEF Finish, c

LEMMA RollbackKeeps ==
  ASSUME Inv, NEW t \in Txs, Rollback(t)
  PROVE  Inv'
<1>1. t \in Open /\ UNCHANGED <<circle, role, commands>> /\ tx' = [tx EXCEPT ![t] = Closed]
  BY DEF Rollback, Open, Finish
<1>2. tx[t].circle \in Circles
  BY <1>1, OpenType DEF Inv, TxRow
<1>3. ASSUME NEW s \in Open \ {t}
      PROVE  ActiveMemberships(tx[s].actor)' \subseteq ActiveMemberships(tx[s].actor)
  <2>1. tx'[s] = tx[s]
    BY <1>1, OpenType DEF Inv, Shape
  <2> QED BY <1>1, <2>1 DEF ActiveMemberships
<1>4. circle'[tx[t].circle].state # "none" => WithRole(role'[tx[t].circle], "teacher") # {}
  BY <1>1, <1>2 DEF Inv, AlwaysATeacher
<1> QED BY <1>1, <1>3, <1>4, EndKeeps DEF Inv, Shape

\* The new circle appears with its members; no user who is counted is one.
LEMMA CommitCreateKeeps ==
  ASSUME Inv, NEW t \in Txs, CommitCreate(t)
  PROVE  Inv'
<1> DEFINE c == tx[t].circle
<1>1. /\ tx[t].pc = "created"
      /\ circle' = [circle EXCEPT ![c] = tx[t].row]
      /\ role' = [role EXCEPT ![c] = tx[t].members]
      /\ tx' = [tx EXCEPT ![t] = Closed] /\ UNCHANGED commands
  BY DEF CommitCreate
<1>2. t \in Open /\ tx[t] \in TxRow
  BY <1>1, OpenType DEF Inv, Open
<1>3. c \in Circles /\ tx[t].row \in CircleRow /\ tx[t].members \in [Users -> Roles]
  BY <1>2 DEF TxRow
<1>4. circle[c].state = "none" /\ WithRole(tx[t].members, "teacher") # {}
  BY <1>1, <1>2 DEF Inv, Snapshot
<1> HIDE DEF c
<1>5. /\ circle' \in [Circles -> CircleRow] /\ role' \in [Circles -> [Users -> Roles]]
      /\ circle'[c] = tx[t].row /\ role'[c] = tx[t].members
      /\ \A d \in Circles \ {c} : circle'[d] = circle[d] /\ role'[d] = role[d]
  BY <1>1, <1>3 DEF Inv, Shape
<1>6. ASSUME NEW s \in Open \ {t}, tx[s].pc = "counted"
      PROVE  ActiveMemberships(tx[s].actor)' \subseteq ActiveMemberships(tx[s].actor)
  <2>1. tx'[s] = tx[s]
    BY <1>1, OpenType DEF Inv, Shape
  <2>2. tx[t].members[tx[s].actor] = "none"
    BY <1>1, <1>2, <1>6 DEF Inv, UserHeld
  <2> QED BY <1>5, <2>1, <2>2 DEF ActiveMemberships
<1>7. WithRole(role'[c], "teacher") # {}
  BY <1>4, <1>5
<1> QED BY <1>1, <1>2, <1>5, <1>6, <1>7, EndKeeps DEF c

LEMMA InvNext ==
  ASSUME Inv, [Next]_vars
  PROVE  Inv'
<1>1. CASE UNCHANGED vars
  <2>1. UNCHANGED <<circle, role, tx, commands>>
    BY <1>1 DEF vars
  <2>2. TypeOK' /\ Shape' /\ OneHolder' /\ AlwaysATeacher' /\ Open' = Open
    BY <2>1 DEF Inv, TypeOK, Shape, OneHolder, AlwaysATeacher, Open
  <2>3. ASSUME NEW t \in Open PROVE Snapshot(t)' /\ Invited(t)' /\ Counted(t)'
    BY <2>1, <2>3 DEF Inv, Snapshot, Invited, Counted, ActiveMemberships
  <2>4. \A s, t \in Open : s # t => UserHeld(s, t)'
    BY <2>1 DEF Inv, UserHeld
  <2> QED BY <2>2, <2>3, <2>4 DEF Inv
<1>2. CASE Next
  <2>1. CASE \E t \in Txs, u \in Users, c \in Circles, code \in Codes, k \in Capacities, p \in BOOLEAN :
               \E teachers, backup \in SUBSET Users : CreateCircle(t, u, c, teachers, backup, k, p, code)
    BY <2>1, CreateKeeps
  <2>2. CASE \E t \in Txs, u \in Users, c \in Circles, op \in Commands : Lock(t, u, c, op, "none")
    <3>1. PICK t \in Txs, u \in Users, c \in Circles, op \in Commands : Lock(t, u, c, op, "none")
      BY <2>2
    <3>2. op # "join"
      BY DEF Commands
    <3> QED BY <3>1, <3>2, LockKeeps
  <2>3. CASE \E t \in Txs, u \in Users, c \in Circles, code \in Codes \cup {"none"} : LockForJoin(t, u, c, code)
    BY <2>3, LockKeeps DEF LockForJoin
  <2>4. CASE \E t \in Txs : CommitCreate(t) \/ Rollback(t) \/ JoinLocksUser(t) \/ JoinCommits(t)
    BY <2>4, CommitCreateKeeps, RollbackKeeps, JoinLocksKeeps, JoinKeeps
  <2>5. CASE \E t \in Txs, v \in Users : RemoveMember(t, v) \/ \E r \in Roles \ {"none"} : AssignRole(t, v, r)
    BY <2>5, RoleKeeps
  <2>6. CASE \E t \in Txs : \/ \E k \in Capacities, p \in BOOLEAN : UpdateCircle(t, k, p)
                            \/ \E code \in Codes : RefreshInviteCode(t, code)
                            \/ ArchiveCircle(t)
    BY <2>6, CircleChangeKeeps
  <2> QED BY <1>2, <2>1, <2>2, <2>3, <2>4, <2>5, <2>6 DEF Next
<1> QED BY <1>1, <1>2

LEMMA InvAlways == Spec => []Inv
<1>1. Inv /\ [Next]_vars => Inv'
  BY InvNext
<1> QED BY InvInit, <1>1, PTL DEF Spec

-----------------------------------------------------------------------------
(* Theorems                                                                *)

\* Circles and members keep the shape of their tables.
THEOREM CirclesTypeCorrect == Spec => []TypeOK
<1>1. Inv => TypeOK
  BY DEF Inv
<1> QED BY InvAlways, <1>1, PTL

\* Two managers who demote or remove each other's last colleague at the same
\* time never leave a circle without a teacher: ErrFinalTeacher is decided on
\* rows that the lock of the circle keeps current until the commit.
THEOREM TeacherRemains == Spec => []AlwaysATeacher
<1>1. Inv => AlwaysATeacher
  BY DEF Inv
<1> QED BY InvAlways, <1>1, PTL

\* A student appears in an existing circle by the commit of a join only.
LEMMA JoinStep ==
  ASSUME Inv, Next, NEW c \in Circles, NEW u \in Users, Joins(c, u)
  PROVE  \E t \in Txs : JoinCommits(t) /\ tx[t].circle = c /\ tx[t].actor = u
<1>1. /\ role' # role /\ role \in [Circles -> [Users -> Roles]] /\ circle[c].state # "none"
      /\ role[c][u] = "none" /\ role'[c][u] = "student"
  BY DEF Joins, Inv, Shape
<1>2. ASSUME NEW t \in Txs, CommitCreate(t) PROVE FALSE
  <2>1. t \in Open /\ circle[tx[t].circle].state = "none"
    BY <1>2 DEF CommitCreate, Open, Inv, Snapshot
  <2> QED BY <1>1, <1>2, <2>1 DEF CommitCreate
<1>3. ASSUME NEW t \in Txs, NEW v \in Users,
             RemoveMember(t, v) \/ \E r \in Roles \ {"none"} : AssignRole(t, v, r)
      PROVE  FALSE
  <2>1. PICK r \in Roles : /\ role' = [role EXCEPT ![tx[t].circle][v] = r]
                          /\ tx[t].members[v] # "none" /\ tx[t].pc \in {"assign", "remove"}
    BY <1>3 DEF RemoveMember, AssignRole, Roles
  <2>2. tx[t].circle \in Circles /\ role[tx[t].circle] = tx[t].members
    BY <2>1, CommandFacts
  <2>3. tx[t].circle = c /\ v = u
    BY <1>1, <2>1, <2>2
  <2> QED BY <1>1, <2>1, <2>2, <2>3
<1>4. PICK t \in Txs : JoinCommits(t)
  <2>1. PICK t \in Txs :
           \/ CommitCreate(t) \/ JoinCommits(t) \/ ArchiveCircle(t)
           \/ \E v \in Users : RemoveMember(t, v) \/ \E r \in Roles \ {"none"} : AssignRole(t, v, r)
           \/ \E k \in Capacities, p \in BOOLEAN : UpdateCircle(t, k, p)
           \/ \E code \in Codes : RefreshInviteCode(t, code)
    BY <1>1 DEF Next, CreateCircle, Lock, LockForJoin, Rollback, JoinLocksUser
  <2> QED BY <1>1, <1>2, <1>3, <2>1 DEF ArchiveCircle, UpdateCircle, RefreshInviteCode
<1>5. tx[t].circle \in Circles /\ tx[t].actor \in Users
  BY <1>4, CommandFacts DEF JoinCommits
<1>6. /\ role'[tx[t].circle] = [role[tx[t].circle] EXCEPT ![tx[t].actor] = "student"]
      /\ \A d \in Circles \ {tx[t].circle} : role'[d] = role[d]
  BY <1>4, JoinKeeps
<1> QED BY <1>1, <1>4, <1>5, <1>6

\* What a commit of a join relies on, as the tables say it at the commit.
LEMMA JoinFacts ==
  ASSUME Inv, NEW t \in Txs, JoinCommits(t)
  PROVE  /\ t \in Open /\ tx[t].pc = "counted" /\ circle' = circle
         /\ circle[tx[t].circle] = tx[t].row /\ role[tx[t].circle] = tx[t].members
         /\ circle[tx[t].circle] \in CircleRow /\ circle[tx[t].circle].state = "live"
         /\ tx[t].actor \in Users /\ tx[t].circle \in Circles
         /\ role[tx[t].circle] \in [Users -> Roles]
         /\ Cardinality(WithRole(role[tx[t].circle], "student")) < circle[tx[t].circle].capacity
         /\ Cardinality(ActiveMemberships(tx[t].actor)) < MembershipLimit
         /\ tx[t].code \in {circle[tx[t].circle].code}
                \cup (IF circle[tx[t].circle].private THEN {} ELSE {"none"})
<1>1. tx[t].pc = "counted" /\ circle' = circle
  BY DEF JoinCommits
<1>2. /\ t \in Open /\ circle[tx[t].circle] = tx[t].row /\ role[tx[t].circle] = tx[t].members
      /\ circle[tx[t].circle] \in CircleRow /\ tx[t].actor \in Users /\ tx[t].circle \in Circles
      /\ role[tx[t].circle] \in [Users -> Roles]
  BY <1>1, CommandFacts
<1>3. Counted(t) /\ Invited(t)
  BY <1>2 DEF Inv
<1> QED BY <1>1, <1>2, <1>3 DEF Counted, Invited

\* Who joins is welcome at that moment: the circle is live, the code presented
\* is still its code, and there is a place, although all of it was read by
\* earlier statements of the transaction.
THEOREM JoinsAreWelcome == Spec => JoinIsWelcome
<1> DEFINE Welcome(c, u) ==
      /\ circle[c].state = "live"
      /\ Cardinality(WithRole(role'[c], "student")) <= circle[c].capacity
      /\ \E t \in Txs : /\ tx[t].pc = "counted" /\ tx[t].circle = c /\ tx[t].actor = u
                        /\ tx[t].code \in {circle[c].code} \cup (IF circle[c].private THEN {} ELSE {"none"})
<1>1. ASSUME Inv, Next, NEW c \in Circles, NEW u \in Users, Joins(c, u)
      PROVE  Welcome(c, u)
  <2>1. PICK t \in Txs : JoinCommits(t) /\ tx[t].circle = c /\ tx[t].actor = u
    BY <1>1, JoinStep
  <2>2. /\ tx[t].pc = "counted" /\ circle[c].state = "live" /\ circle[c] \in CircleRow
        /\ role[c] \in [Users -> Roles]
        /\ Cardinality(WithRole(role[c], "student")) < circle[c].capacity
        /\ tx[t].code \in {circle[c].code} \cup (IF circle[c].private THEN {} ELSE {"none"})
    BY <1>1, <2>1, JoinFacts
  <2>3. role'[c] = [role[c] EXCEPT ![u] = "student"]
    BY <1>1, <2>1, JoinKeeps
  <2>4. u \notin WithRole(role[c], "student")
    BY <1>1 DEF Joins, WithRole
  <2>5. WithRole(role'[c], "student") = WithRole(role[c], "student") \cup {u}
    BY <2>2, <2>3 DEF WithRole
  <2>6. Cardinality(WithRole(role'[c], "student")) = Cardinality(WithRole(role[c], "student")) + 1
    BY <2>4, <2>5, WithRoleFinite, FS_AddElement
  <2>7. circle[c].capacity \in Nat
    <3>1. circle[c].capacity \in Capacities \/ circle[c].capacity = 0
      BY <2>2 DEF CircleRow
    <3>2. \A k \in Capacities : k \in Nat
      BY CirclesConstants
    <3>3. CASE circle[c].capacity = 0
      BY <3>3
    <3>4. CASE circle[c].capacity \in Capacities
      BY ONLY <3>2, <3>4
    <3> QED BY <3>1, <3>3, <3>4
  <2>8. Cardinality(WithRole(role'[c], "student")) <= circle[c].capacity
    BY <2>2, <2>6, <2>7, WithRoleFinite
  <2> QED BY <2>1, <2>2, <2>8
<1>2. ASSUME Inv, [Next]_vars
      PROVE  [\A c \in Circles, u \in Users : Joins(c, u) => Welcome(c, u)]_vars
  <2> HIDE DEF Welcome
  <2> QED BY <1>1, <1>2
<1> QED BY InvAlways, <1>2, PTL DEF Spec, JoinIsWelcome

\* The limit of active circles holds for joins to different circles that lock
\* nothing in common but the user's row, and for creations that name the user.
THEOREM JoinsStayWithinLimit == Spec => JoinWithinLimit
<1>1. ASSUME Inv, Next, NEW c \in Circles, NEW u \in Users, Joins(c, u)
      PROVE  Cardinality(ActiveMemberships(u)') <= MembershipLimit
  <2>1. PICK t \in Txs : JoinCommits(t) /\ tx[t].circle = c /\ tx[t].actor = u
    BY <1>1, JoinStep
  <2>2. /\ circle' = circle /\ circle[c].state = "live" /\ role[c] \in [Users -> Roles]
        /\ Cardinality(ActiveMemberships(u)) < MembershipLimit
    BY <1>1, <2>1, JoinFacts
  <2>3. /\ role'[c] = [role[c] EXCEPT ![u] = "student"]
        /\ \A d \in Circles \ {c} : role'[d] = role[d]
    BY <1>1, <2>1, JoinKeeps
  <2>4. ActiveMemberships(u)' = ActiveMemberships(u) \cup {c}
    BY <2>2, <2>3 DEF ActiveMemberships
  <2>5. c \notin ActiveMemberships(u)
    BY <1>1 DEF Joins, ActiveMemberships
  <2>6. Cardinality(ActiveMemberships(u)') = Cardinality(ActiveMemberships(u)) + 1
    BY <2>4, <2>5, MembershipsFinite, FS_AddElement
  <2> QED BY <2>2, <2>6, MembershipsFinite, CirclesConstants
<1>2. ASSUME Inv, [Next]_vars
      PROVE  [\A c \in Circles, u \in Users : Joins(c, u) =>
                Cardinality(ActiveMemberships(u)') <= MembershipLimit]_vars
  BY <1>1, <1>2
<1> QED BY InvAlways, <1>2, PTL DEF Spec, JoinWithinLimit

\* A command takes effect only while its actor manages the circle: a demotion
\* that committed before is what the command has read.
THEOREM ActorsManage == Spec => ActorStillManages
<1> DEFINE Ends(t)    == tx[t].pc \in Commands /\ (role' # role \/ circle' # circle) /\ tx'[t] = Closed
           Manages(t) == role[tx[t].circle][tx[t].actor]
                           \in IF tx[t].pc = "assign" THEN Managers ELSE {"teacher"}
<1>1. ASSUME Inv, Next, NEW t \in Txs, Ends(t)
      PROVE  Manages(t)
  <2>1. tx[t].pc \in Commands /\ tx'[t] = Closed /\ (role' # role \/ circle' # circle)
    BY <1>1
  <2>2. tx[t].pc # "idle" /\ tx[t].pc # "created" /\ tx[t].pc # "counted"
    BY <2>1 DEF Commands
  <2>3. role[tx[t].circle] = tx[t].members /\ tx[t] # Closed
    BY <1>1, <2>2, CommandFacts DEF Closed
  <2>4. \A s \in Txs : tx' = [tx EXCEPT ![s] = Closed] => s = t
    BY <2>1, <2>3, <1>1 DEF Inv, Shape
  <2>5. PICK s \in Txs :
           \/ CommitCreate(s) \/ JoinCommits(s) \/ ArchiveCircle(s)
           \/ \E v \in Users : RemoveMember(s, v) \/ \E r \in Roles \ {"none"} : AssignRole(s, v, r)
           \/ \E k \in Capacities, p \in BOOLEAN : UpdateCircle(s, k, p)
           \/ \E code \in Codes : RefreshInviteCode(s, code)
    BY <1>1, <2>1 DEF Next, CreateCircle, Lock, LockForJoin, Rollback, JoinLocksUser
  <2>6. tx' = [tx EXCEPT ![s] = Closed]
    BY <2>5 DEF CommitCreate, JoinCommits, ArchiveCircle, RemoveMember, AssignRole, UpdateCircle,
                RefreshInviteCode, Finish
  <2>7. s = t
    BY <2>4, <2>6
  <2>8. tx[t].members[tx[t].actor] \in IF tx[t].pc = "assign" THEN Managers ELSE {"teacher"}
    BY <2>2, <2>5, <2>7 DEF CommitCreate, JoinCommits, ArchiveCircle, RemoveMember, AssignRole,
                            UpdateCircle, RefreshInviteCode, IsTeacher
  <2> QED BY <2>3, <2>8
<1>2. ASSUME Inv, [Next]_vars
      PROVE  [\A t \in Txs : Ends(t) => Manages(t)]_vars
  <2> HIDE DEF Ends, Manages
  <2> QED BY <1>1, <1>2
<1> QED BY InvAlways, <1>2, PTL DEF Spec, ActorStillManages
=============================================================================
