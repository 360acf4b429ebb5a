---------------------------- MODULE AccountsProofs ----------------------------
(***************************************************************************)
(* Theorems about accounts, their sessions and their profiles, for any     *)
(* number of identities, rows and requests.                                *)
(***************************************************************************)
EXTENDS Accounts, FiniteSetTheorems, WellFoundedInduction, TLAPS

-----------------------------------------------------------------------------
(* Least and greatest elements                                             *)

LEMMA LeastExists ==
  ASSUME NEW S \in SUBSET Nat, S # {}
  PROVE  \E x \in S : \A y \in S : x <= y
<1>1. PICK x \in S : \A y \in S : ~(<<y, x>> \in OpToRel(<, Nat))
  BY WFMin, NatLessThanWellFounded
<1>2. \A y \in S : <<y, x>> \in OpToRel(<, Nat) <=> y < x
  BY DEF OpToRel
<1>3. \A y \in S : ~(y < x) /\ y \in Nat /\ x \in Nat
  BY <1>1, <1>2
<1> QED BY <1>3

LEMMA MinIs ==
  ASSUME NEW S \in SUBSET Nat, S # {}
  PROVE  Min(S) \in S /\ \A y \in S : Min(S) <= y
  BY LeastExists DEF Min

\* The element with the fewest elements above it has none above it.
LEMMA GreatestExists ==
  ASSUME NEW S \in SUBSET Nat, S # {}, IsFiniteSet(S)
  PROVE  \E x \in S : \A y \in S : x >= y
<1> DEFINE Above(x) == {y \in S : y > x}
           Counts   == {Cardinality(Above(x)) : x \in S}
<1>1. \A x \in S : IsFiniteSet(Above(x)) /\ Cardinality(Above(x)) \in Nat
  BY FS_Subset, FS_CardinalityType
<1>2. PICK n \in Counts : \A m \in Counts : n <= m
  <2>1. Counts \in SUBSET Nat /\ Counts # {}
    BY <1>1
  <2> HIDE DEF Counts
  <2> QED BY <2>1, LeastExists
<1>3. PICK x \in S : n = Cardinality(Above(x))
  OBVIOUS
<1>4. ASSUME NEW y \in S, y > x
      PROVE  FALSE
  <2>1. Above(y) \subseteq Above(x) /\ x \in Nat /\ y \in Nat
    <3>1. \A z \in S : z \in Nat /\ x \in Nat /\ y \in Nat
      OBVIOUS
    <3>2. \A z \in S : z > y => z > x
      BY <1>4, <3>1
    <3> QED BY <3>1, <3>2
  <2>2. y \in Above(x) /\ y \notin Above(y)
    BY <1>4
  <2>3. Cardinality(Above(y)) < Cardinality(Above(x))
    <3> HIDE DEF Above
    <3>1. Cardinality(Above(y)) <= Cardinality(Above(x)) /\ Cardinality(Above(y)) # Cardinality(Above(x))
      BY <1>1, <2>1, <2>2, FS_Subset
    <3> QED BY <1>1, <1>4, <3>1
  <2>4. Cardinality(Above(x)) <= Cardinality(Above(y))
    BY <1>2, <1>3
  <2> HIDE DEF Above
  <2>5. Cardinality(Above(x)) \in Nat /\ Cardinality(Above(y)) \in Nat
    BY <1>1, <1>4
  <2> QED BY <2>3, <2>4, <2>5
<1>5. \A y \in S : x >= y
  BY <1>4
<1> QED BY <1>5

LEMMA MaxIs ==
  ASSUME NEW S \in SUBSET Nat, S # {}, IsFiniteSet(S)
  PROVE  Max(S) \in S /\ \A y \in S : Max(S) >= y
  BY GreatestExists DEF Max

-----------------------------------------------------------------------------
(* The invariant                                                           *)

UserRow    == [uid : Uids \cup {"none"}, deleted : BOOLEAN, linked : BOOLEAN]
SessionRow == [user : Ids \cup {0}, state : {"unused", "live", "ended", "deleted"}]

\* Where a request stands on behalf of an account it has found or inserted.
Known == {"session", "name", "resolved", "checked", "admitted", "update", "writing",
          "remove", "clear"}

RequestRow == [pc : Known \cup {"idle", "upsert"}, uid : Uids \cup {"none"},
               user : Ids \cup {0}, session : SessionIds \cup {"none"}]

Shape ==
    /\ users \in [Ids -> UserRow]
    /\ sessions \in [SessionIds -> SessionRow]
    /\ request \in [Requests -> RequestRow]

\* An identity has one row at most, a tombstone remembers its identity, and
\* only a tombstone loses its Firebase UID.
Identities ==
    /\ \A i, j \in Ids : users[i].uid # "none" /\ users[i].uid = users[j].uid => i = j
    /\ \A i \in Ids : users[i].deleted => users[i].uid # "none"
    /\ \A i \in Ids : Active(i) => users[i].linked

\* What a request may rely on after the statement that found it, although the
\* tables moved on: a row stays deleted, a session stays its user's, and an
\* update that saw its account active was overtaken or still sees it so.
Relies(q) ==
    /\ q.pc \in Known => q.user \in Ids
    /\ q.pc \in {"resolved", "checked"} => q.session \in SessionIds
    /\ q.pc \in {"remove", "clear"} => users[q.user].deleted
    /\ q.pc = "checked" => /\ sessions[q.session].user = q.user
                           /\ sessions[q.session] # Unused
    /\ q.pc = "writing" => Active(q.user) \/ q.user \in overtaken

Targets ==
    /\ \A r \in Requests : Relies(request[r])
    /\ \A i \in worker.page : users[i].deleted

\* A stored session belongs to an account that is open.
StoredActive == \A s \in Stored : sessions[s].user \in Ids /\ Active(sessions[s].user)

Inv == /\ TypeOK /\ Shape /\ Identities /\ Targets /\ StoredActive
       /\ ClosedProfileIsErased

LEMMA InvInit == Init => Inv
<1> SUFFICES ASSUME Init PROVE Inv
  OBVIOUS
<1>1. PICK at \in Injection(Undeletable, Ids) :
         users = [i \in Ids |-> IF i \in Range(at)
                               THEN [uid |-> Inverse(at, Undeletable, Ids)[i], deleted |-> TRUE, linked |-> TRUE]
                               ELSE NoUser]
  BY DEF Init
<1>2. at \in [Undeletable -> Ids] /\ Undeletable \subseteq Uids /\ "none" \notin Uids
  BY AccountsConstants DEF Injection
<1>3. ASSUME NEW i \in Range(at)
      PROVE  /\ Inverse(at, Undeletable, Ids)[i] \in Undeletable
             /\ at[Inverse(at, Undeletable, Ids)[i]] = i
  <2>1. i \in Ids /\ \E u \in Undeletable : at[u] = i
    BY <1>2, <1>3 DEF Range
  <2>2. Inverse(at, Undeletable, Ids)[i] = CHOOSE u \in Undeletable : i \in Range(at) => at[u] = i
    BY <2>1 DEF Inverse
  <2> QED BY <1>3, <2>1, <2>2
<1>4. ASSUME NEW i \in Ids
      PROVE  /\ users[i] \in UserRow
             /\ i \notin Range(at) => users[i] = NoUser
             /\ i \in Range(at) => /\ users[i].uid = Inverse(at, Undeletable, Ids)[i]
                                   /\ users[i].uid \in Undeletable
                                   /\ users[i].deleted /\ at[users[i].uid] = i
  BY <1>1, <1>2, <1>3 DEF UserRow, NoUser
<1>5. users \in [Ids -> UserRow]
  BY <1>1, <1>4
<1>6. /\ profile = [i \in Ids |-> "none"] /\ sessions = [s \in SessionIds |-> Unused]
      /\ request = [r \in Requests |-> NoRequest]
      /\ firebase = Uids /\ worker = [cursor |-> 0, page |-> {}] /\ overtaken = {} /\ faults = 0
  BY DEF Init
<1>7. Shape
  BY <1>5, <1>6 DEF Shape, SessionRow, RequestRow, Unused, NoRequest
<1>8. TypeOK
  BY <1>6, <1>7, AccountsConstants DEF TypeOK, Shape, UserRow, SessionRow
<1>9. Identities
  BY <1>2, <1>4 DEF Identities, Active, NoUser
<1>10. Targets
  BY <1>6 DEF Targets, Relies, NoRequest, Known
<1>11. StoredActive /\ ClosedProfileIsErased
  BY <1>6 DEF StoredActive, Stored, Unused, ClosedProfileIsErased
<1> QED BY <1>7, <1>8, <1>9, <1>10, <1>11 DEF Inv

-----------------------------------------------------------------------------
(* Frames                                                                  *)

\* How a request moves on.
LEMMA Moves ==
  ASSUME Shape, NEW r \in Requests, NEW pc \in Known,
         Goto(r, pc) \/ Enter(r, pc) \/ Answer(r)
  PROVE  /\ request' \in [Requests -> RequestRow]
         /\ \A x \in Requests \ {r} : request'[x] = request[x]
         /\ Goto(r, pc)  => /\ request'[r].pc = pc /\ request'[r].user = request[r].user
                            /\ request'[r].session = request[r].session
         /\ Enter(r, pc) => request'[r].pc = pc /\ request'[r].user = request[r].user
         /\ Answer(r)    => request'[r] = NoRequest
<1>1. CASE Goto(r, pc)
  BY <1>1 DEF Shape, RequestRow, Goto, Enter, Answer, NoRequest
<1>2. CASE Enter(r, pc)
  BY <1>2 DEF Shape, RequestRow, Goto, Enter, Answer, NoRequest
<1>3. CASE Answer(r)
  BY <1>3 DEF Shape, RequestRow, Goto, Enter, Answer, NoRequest
<1> QED BY <1>1, <1>2, <1>3

\* A request that moves on without a change of the tables.
LEMMA RequestFrame ==
  ASSUME Inv, NEW r \in Requests,
         UNCHANGED <<dbVars, firebase, worker, faults>>,
         request' \in [Requests -> RequestRow],
         \A x \in Requests \ {r} : request'[x] = request[x],
         Relies(request'[r])
  PROVE  Inv'
<1>1. UNCHANGED <<users, profile, sessions, overtaken, firebase, worker, faults>>
  BY DEF dbVars
<1>2. TypeOK' /\ Shape'
  BY <1>1 DEF Inv, TypeOK, Shape
<1>3. Identities' /\ StoredActive' /\ ClosedProfileIsErased'
  BY <1>1 DEF Inv, Identities, StoredActive, Stored, ClosedProfileIsErased, Active
<1>4. \A x \in Requests : Relies(request'[x])
  BY DEF Inv, Targets
<1>5. ASSUME NEW x \in Requests
      PROVE  Relies(request[x])'
  <2> DEFINE q == request'[x]
  <2>1. Relies(q)
    BY <1>4
  <2> QED BY <1>1, <2>1 DEF Relies, Active
<1>6. Targets'
  BY <1>1, <1>5 DEF Inv, Targets
<1> QED BY <1>2, <1>3, <1>6 DEF Inv

LEMMA NoRequestRelies == Relies(NoRequest) /\ NoRequest \in RequestRow
  BY DEF Relies, NoRequest, Known, RequestRow

\* What the other requests rely on survives a step of the tables that keeps it.
LEMMA TargetsFrame ==
  ASSUME Inv, request' \in [Requests -> RequestRow],
         \A i \in Ids : users[i].deleted => users'[i].deleted,
         \A s \in SessionIds : sessions[s] # Unused =>
             sessions'[s] # Unused /\ sessions'[s].user = sessions[s].user,
         \A x \in Requests : request'[x].pc = "writing" =>
             (Active(request[x].user) \/ request[x].user \in overtaken =>
                 Active(request[x].user)' \/ request[x].user \in overtaken'),
         \A x \in Requests :
             \/ request'[x] = request[x]
             \/ request'[x] = NoRequest
             \/ request'[x].pc \in {"session", "name", "update"} /\ request'[x].user \in Ids
             \/ /\ request'[x].pc \in {"remove", "clear"} /\ request'[x].user \in Ids
                /\ users'[request'[x].user].deleted,
         \A i \in worker'.page : i \in Ids /\ users'[i].deleted
  PROVE  Targets'
<1>1. ASSUME NEW x \in Requests
      PROVE  Relies(request[x])'
  <2>1. CASE request'[x] = request[x]
    <3>1. Relies(request[x]) /\ request[x] \in RequestRow
      BY DEF Inv, Targets, Shape
    <3>2. request[x].pc \in Known => request[x].user \in Ids
      BY <3>1 DEF Relies
    <3>3. request[x].pc \in {"resolved", "checked"} => request[x].session \in SessionIds
      BY <3>1 DEF Relies
    <3>4. request[x].pc \in {"remove", "clear"} => users'[request[x].user].deleted
      BY <3>1, <3>2 DEF Relies, Known
    <3>5. request[x].pc = "checked" => /\ sessions'[request[x].session].user = request[x].user
                                      /\ sessions'[request[x].session] # Unused
      BY <3>1, <3>3 DEF Relies
    <3>6. request[x].pc = "writing" => Active(request[x].user)' \/ request[x].user \in overtaken'
      <4>1. request[x].pc = "writing" => Active(request[x].user) \/ request[x].user \in overtaken
        BY <3>1 DEF Relies
      <4> QED BY <2>1, <4>1
    <3> QED BY <2>1, <3>2, <3>3, <3>4, <3>5, <3>6 DEF Relies, Active
  <2>2. CASE request'[x] # request[x]
    BY <2>2 DEF Relies, NoRequest, Known
  <2> QED BY <2>1, <2>2
<1> QED BY <1>1 DEF Targets

\* Steps that leave the accounts alone.
LEMMA AccountsFrame ==
  ASSUME Inv, UNCHANGED <<users, overtaken>>, worker'.page \subseteq worker.page,
         request' \in [Requests -> RequestRow],
         \A s \in SessionIds : sessions[s] # Unused =>
             sessions'[s] # Unused /\ sessions'[s].user = sessions[s].user,
         \A x \in Requests :
             \/ request'[x] = request[x]
             \/ request'[x] = NoRequest
             \/ request'[x].pc \in {"session", "name", "update"} /\ request'[x].user \in Ids
             \/ /\ request'[x].pc \in {"remove", "clear"} /\ request'[x].user \in Ids
                /\ users[request'[x].user].deleted
  PROVE  Identities' /\ Targets'
<1>1. Identities'
  BY DEF Inv, Identities, Active
<1>2. \A x \in Requests : request'[x].pc = "writing" => request'[x] = request[x]
  BY DEF NoRequest
<1>3. ASSUME NEW x \in Requests, request'[x].pc = "writing",
             Active(request[x].user) \/ request[x].user \in overtaken
      PROVE  Active(request[x].user)' \/ request[x].user \in overtaken'
  BY <1>2, <1>3 DEF Active
<1>4. \A i \in worker'.page : i \in Ids /\ users'[i].deleted
  BY DEF Inv, TypeOK, Targets
<1>5. \A i \in Ids : users[i].deleted => users'[i].deleted
  OBVIOUS
<1>6. \A x \in Requests :
         \/ request'[x] = request[x]
         \/ request'[x] = NoRequest
         \/ request'[x].pc \in {"session", "name", "update"} /\ request'[x].user \in Ids
         \/ /\ request'[x].pc \in {"remove", "clear"} /\ request'[x].user \in Ids
            /\ users'[request'[x].user].deleted
  OBVIOUS
<1>7. Targets'
  BY <1>3, <1>4, <1>5, <1>6, TargetsFrame
<1> QED BY <1>1, <1>7

-----------------------------------------------------------------------------
(* Actions                                                                 *)

\* The statements of requests that only read.
LEMMA ReadsKeep ==
  ASSUME Inv, NEW r \in Requests,
         \/ \E u \in Uids : VerifyRegistration(r, u) \/ VerifyLogin(r, u)
         \/ \E u \in Uids, s \in SessionIds : ResolveUser(r, u, s)
         \/ CheckSession(r) \/ Touch(r) \/ LoadProfile(r) \/ BeginUpdate(r) \/ Abandon(r)
  PROVE  Inv'
<1>1. Shape /\ Relies(request[r]) /\ request[r] \in RequestRow
  BY DEF Inv, Targets, Shape
<1>2. request[r].pc \in Known => request[r].user \in Ids
  BY <1>1 DEF Relies
<1>3. UNCHANGED <<dbVars, firebase, worker, faults>>
  BY DEF VerifyRegistration, VerifyLogin, ResolveUser, CheckSession, Touch, LoadProfile,
         BeginUpdate, Abandon
<1>4. SUFFICES /\ request' \in [Requests -> RequestRow]
               /\ \A x \in Requests \ {r} : request'[x] = request[x]
               /\ Relies(request'[r])
  BY <1>3, RequestFrame
<1>5. ASSUME Answer(r) PROVE <1>4!1
  <2>1. /\ request' \in [Requests -> RequestRow] /\ request'[r] = NoRequest
        /\ \A x \in Requests \ {r} : request'[x] = request[x]
    BY <1>1, <1>5, Moves DEF Known
  <2> QED BY <2>1, NoRequestRelies
<1>6. CASE \E u \in Uids : VerifyRegistration(r, u) \/ VerifyLogin(r, u)
  <2>1. /\ request' \in [Requests -> RequestRow]
        /\ \A x \in Requests \ {r} : request'[x] = request[x]
        /\ \/ request'[r].pc = "upsert"
           \/ request'[r].pc = "session" /\ request'[r].user \in Ids
    <3>1. CASE \E u \in Uids : VerifyRegistration(r, u)
      <4>1. PICK u \in Uids :
               request' = [request EXCEPT ![r] = [request[r] EXCEPT !.pc = "upsert", !.uid = u]]
        BY <3>1 DEF VerifyRegistration
      <4> QED BY <1>1, <4>1 DEF Shape, RequestRow
    <3>2. CASE \E u \in Uids : VerifyLogin(r, u)
      <4>1. PICK i \in Ids :
               request' = [request EXCEPT ![r] = [request[r] EXCEPT !.pc = "session", !.user = i]]
        BY <3>2 DEF VerifyLogin
      <4> QED BY <1>1, <4>1 DEF Shape, RequestRow, Known
    <3> QED BY <1>6, <3>1, <3>2
  <2> QED BY <2>1 DEF Relies, Known
<1>7. CASE \E u \in Uids, s \in SessionIds : ResolveUser(r, u, s)
  <2>1. /\ request' \in [Requests -> RequestRow]
        /\ \A x \in Requests \ {r} : request'[x] = request[x]
        /\ request'[r].pc = "resolved" /\ request'[r].user \in Ids
        /\ request'[r].session \in SessionIds
    <3>1. PICK i \in Ids, s \in SessionIds :
             request' = [request EXCEPT ![r] =
                           [request[r] EXCEPT !.pc = "resolved", !.user = i, !.session = s]]
      BY <1>7 DEF ResolveUser
    <3> QED BY <1>1, <3>1 DEF Shape, RequestRow, Known
  <2> QED BY <2>1 DEF Relies, Known
<1>8. CASE CheckSession(r)
  <2>1. CASE ~Answer(r)
    <3>1. /\ request[r].pc = "resolved" /\ Goto(r, "checked")
          /\ sessions[request[r].session] = [user |-> request[r].user, state |-> "live"]
      BY <1>8, <2>1 DEF CheckSession, At
    <3>2. /\ request' \in [Requests -> RequestRow]
          /\ \A x \in Requests \ {r} : request'[x] = request[x]
          /\ request'[r].pc = "checked" /\ request'[r].user = request[r].user
          /\ request'[r].session = request[r].session
      BY <1>1, <3>1, Moves DEF Known
    <3>3. request[r].session \in SessionIds
      BY <1>1, <3>1 DEF Relies
    <3>4. sessions[request[r].session] # Unused /\ sessions[request[r].session].user = request[r].user
      BY <3>1 DEF Unused
    <3> QED BY <1>2, <3>1, <3>2, <3>3, <3>4 DEF Relies, Known
  <2> QED BY <1>5, <2>1
<1>9. CASE Touch(r) \/ LoadProfile(r)
  <2>1. CASE ~Answer(r)
    <3>1. PICK pc \in {"admitted", "update"} :
             request[r].pc \in {"checked", "admitted"} /\ (Goto(r, pc) \/ Enter(r, pc))
      BY <1>9, <2>1 DEF Touch, LoadProfile, At
    <3>2. /\ request' \in [Requests -> RequestRow]
          /\ \A x \in Requests \ {r} : request'[x] = request[x]
          /\ request'[r].pc \in {"admitted", "update"} /\ request'[r].user = request[r].user
      BY <1>1, <3>1, Moves DEF Known
    <3> QED BY <1>2, <3>1, <3>2 DEF Relies, Known
  <2> QED BY <1>5, <2>1
<1>10. CASE BeginUpdate(r)
  <2>1. CASE ~Answer(r)
    <3>1. request[r].pc = "update" /\ Goto(r, "writing") /\ Active(request[r].user)
      BY <1>10, <2>1 DEF BeginUpdate, At, UpdateSeesAccount
    <3>2. /\ request' \in [Requests -> RequestRow]
          /\ \A x \in Requests \ {r} : request'[x] = request[x]
          /\ request'[r].pc = "writing" /\ request'[r].user = request[r].user
      BY <1>1, <3>1, Moves DEF Known
    <3> QED BY <1>2, <3>1, <3>2 DEF Relies, Known
  <2> QED BY <1>5, <2>1
<1>11. CASE Abandon(r)
  BY <1>5, <1>11 DEF Abandon
<1> QED BY <1>6, <1>7, <1>8, <1>9, <1>10, <1>11

\* A registration finds its row, is refused, or inserts the only row of its identity.
LEMMA UpsertKeeps ==
  ASSUME Inv, NEW r \in Requests, UpsertUserByFirebaseUID(r)
  PROVE  Inv'
<1> DEFINE u == request[r].uid
           known == {i \in Ids : users[i].uid = u /\ users[i].linked}
<1>1. /\ Shape /\ users \in [Ids -> UserRow] /\ request[r] \in RequestRow
      /\ u \in Uids \cup {"none"}
  BY DEF Inv, Shape, RequestRow
<1>2. UNCHANGED <<profile, sessions, overtaken, firebase, worker, faults>>
  BY DEF UpsertUserByFirebaseUID
<1>3. /\ request' \in [Requests -> RequestRow]
      /\ \A x \in Requests \ {r} : request'[x] = request[x]
      /\ \/ request'[r] = NoRequest
         \/ request'[r].pc \in {"session", "name"} /\ request'[r].user \in Ids
  <2>1. CASE Answer(r)
    BY <1>1, <2>1, Moves DEF Known
  <2>2. CASE ~Answer(r)
    <3>1. PICK i \in Ids, pc \in {"session", "name"} :
             request' = [request EXCEPT ![r] = [NoRequest EXCEPT !.pc = pc, !.user = i]]
      BY <2>2 DEF UpsertUserByFirebaseUID
    <3> QED BY <1>1, <3>1 DEF Shape, RequestRow, NoRequest, Known
  <2> QED BY <2>1, <2>2
<1>4. CASE users' = users
  <2>1. TypeOK' /\ Shape'
    BY <1>2, <1>3, <1>4 DEF Inv, TypeOK, Shape
  <2>2. StoredActive' /\ ClosedProfileIsErased'
    BY <1>2, <1>4 DEF Inv, StoredActive, Stored, ClosedProfileIsErased, Active
  <2>3. Identities' /\ Targets'
    BY <1>2, <1>3, <1>4, AccountsFrame
  <2> QED BY <2>1, <2>2, <2>3 DEF Inv
<1>5. CASE users' # users
  <2>1. PICK i \in Ids : /\ ~Tombstone(u) /\ known = {}
                        /\ users[i] = NoUser
                        /\ users' = [users EXCEPT ![i] = [uid |-> u, deleted |-> FALSE, linked |-> TRUE]]
    BY <1>5 DEF UpsertUserByFirebaseUID
  <2> HIDE DEF u, known
  <2>2. /\ users' \in [Ids -> UserRow]
        /\ users'[i].uid = u /\ ~users'[i].deleted /\ users'[i].linked
        /\ \A j \in Ids \ {i} : users'[j] = users[j]
    BY <1>1, <2>1 DEF UserRow
  <2>3. users[i].uid = "none" /\ ~users[i].deleted
    BY <2>1 DEF NoUser
  <2>4. u # "none" => \A j \in Ids : users[j].uid # u
    <3>1. ASSUME NEW j \in Ids, users[j].uid = u, u # "none" PROVE FALSE
      <4>1. ~users[j].deleted
        BY <2>1, <3>1 DEF Tombstone
      <4>2. users[j].linked
        BY <3>1, <4>1 DEF Inv, Identities, Active
      <4> QED BY <2>1, <3>1, <4>2 DEF known
    <3> QED BY <3>1
  <2>5. TypeOK' /\ Shape'
    BY <1>2, <1>3, <2>2 DEF Inv, TypeOK, Shape, UserRow
  <2>6. Identities'
    <3>1. \A j, k \in Ids : users'[j].uid # "none" /\ users'[j].uid = users'[k].uid => j = k
      BY <2>2, <2>4 DEF Inv, Identities
    <3>2. \A j \in Ids : users'[j].deleted => users'[j].uid # "none"
      BY <2>2 DEF Inv, Identities
    <3>3. \A j \in Ids : users'[j].uid # "none" /\ ~users'[j].deleted => users'[j].linked
      BY <2>2 DEF Inv, Identities, Active
    <3> QED BY <3>1, <3>2, <3>3 DEF Identities, Active
  <2>7. \A j \in Ids : /\ users'[j].deleted <=> users[j].deleted
                       /\ Active(j) => Active(j)'
    BY <2>2, <2>3 DEF Active
  <2>8. StoredActive' /\ ClosedProfileIsErased'
    BY <1>2, <2>7 DEF Inv, StoredActive, Stored, ClosedProfileIsErased
  <2>9. Targets'
    <3>1. \A j \in worker'.page : j \in Ids /\ users'[j].deleted
      BY <1>2, <2>7 DEF Inv, TypeOK, Targets
    <3>2. ASSUME NEW x \in Requests, request'[x].pc = "writing",
                 Active(request[x].user) \/ request[x].user \in overtaken
          PROVE  Active(request[x].user)' \/ request[x].user \in overtaken'
      <4>1. request'[x] = request[x]
        BY <1>3, <3>2 DEF NoRequest
      <4>2. request[x].user \in Ids
        BY <3>2, <4>1 DEF Inv, Targets, Relies, Known
      <4>3. request'[x].user = request[x].user
        BY <4>1
      <4> QED BY <1>2, <2>7, <3>2, <4>2, <4>3 DEF Active
    <3> QED BY <1>2, <1>3, <2>7, <3>1, <3>2, TargetsFrame
  <2> QED BY <2>5, <2>6, <2>8, <2>9 DEF Inv
<1> QED BY <1>4, <1>5

\* Profiles are written for accounts that were open when the statement began.
LEMMA ProfilesKeep ==
  ASSUME Inv, NEW r \in Requests, UpsertProfileOnRegister(r) \/ WriteProfile(r)
  PROVE  Inv'
<1>1. UNCHANGED <<users, sessions, overtaken, firebase, worker, faults>>
  BY DEF UpsertProfileOnRegister, WriteProfile
<1>2. Shape /\ Relies(request[r]) /\ request[r].pc \in {"name", "writing"}
  BY DEF Inv, Targets, UpsertProfileOnRegister, WriteProfile, At
<1>3. request[r].user \in Ids
  BY <1>2 DEF Relies, Known
<1>4. /\ request' \in [Requests -> RequestRow]
      /\ \A x \in Requests \ {r} : request'[x] = request[x]
      /\ request'[r] = NoRequest \/ (request'[r].pc = "session" /\ request'[r].user \in Ids)
  BY <1>2, <1>3, Moves DEF UpsertProfileOnRegister, WriteProfile, Known
<1>5. Identities' /\ Targets'
  BY <1>1, <1>4, AccountsFrame
<1>6. StoredActive'
  BY <1>1 DEF Inv, StoredActive, Stored, Active
<1>7. /\ profile' \in [Ids -> {"none", "named", "personal", "scrubbed"}]
      /\ ClosedProfileIsErased'
  <2>1. profile \in [Ids -> {"none", "named", "personal", "scrubbed"}]
    BY DEF Inv, TypeOK
  <2>2. CASE UpsertProfileOnRegister(r)
    <3>1. profile' = [profile EXCEPT ![request[r].user] =
                        IF profile[request[r].user] = "none" THEN "named" ELSE profile[request[r].user]]
      BY <2>2 DEF UpsertProfileOnRegister
    <3> QED BY <1>1, <1>3, <2>1, <3>1 DEF Inv, ClosedProfileIsErased
  <2>3. CASE WriteProfile(r)
    <3>1. profile' = [profile EXCEPT ![request[r].user] = "personal"]
      BY <2>3 DEF WriteProfile
    <3>2. ~users[request[r].user].deleted \/ request[r].user \in overtaken
      BY <1>2, <2>3 DEF WriteProfile, At, Relies, Active
    <3> QED BY <1>1, <1>3, <2>1, <3>1, <3>2 DEF Inv, ClosedProfileIsErased
  <2> QED BY <2>2, <2>3 DEF UpsertProfileOnRegister, WriteProfile
<1>8. TypeOK' /\ Shape'
  BY <1>1, <1>4, <1>7 DEF Inv, TypeOK, Shape
<1> QED BY <1>5, <1>6, <1>7, <1>8 DEF Inv

\* A session is stored for an open account and never changes hands.
LEMMA SessionsKeep ==
  ASSUME Inv, (\E r \in Requests : CreateSession(r) \/ Logout(r)) \/ (\E s \in SessionIds : Expire(s))
  PROVE  Inv'
<1>1. UNCHANGED <<users, profile, overtaken, firebase, worker, faults>>
  BY DEF CreateSession, Logout, Expire
<1>2. Shape /\ sessions \in [SessionIds -> SessionRow]
  BY DEF Inv, Shape
<1>3. /\ request' \in [Requests -> RequestRow]
      /\ \A x \in Requests : request'[x] = request[x] \/ request'[x] = NoRequest
  <2>1. CASE \E s \in SessionIds : Expire(s)
    BY <1>2, <2>1 DEF Expire, Shape
  <2>2. CASE \E r \in Requests : CreateSession(r) \/ Logout(r)
    <3>1. PICK r \in Requests : Answer(r)
      BY <2>2 DEF CreateSession, Logout
    <3> QED BY <1>2, <3>1, Moves DEF Known
  <2> QED BY <2>1, <2>2
<1> DEFINE Handed ==
      /\ sessions' \in [SessionIds -> SessionRow]
      /\ \A t \in SessionIds :
            /\ sessions[t] # Unused => sessions'[t] # Unused /\ sessions'[t].user = sessions[t].user
            /\ sessions'[t].state \in {"live", "ended"} =>
                  \/ sessions[t].state \in {"live", "ended"} /\ sessions'[t].user = sessions[t].user
                  \/ sessions'[t].user \in Ids /\ Active(sessions'[t].user)
<1>4. Handed
  <2>1. CASE sessions' = sessions
    BY <1>2, <2>1
  <2>2. ASSUME NEW s \in SessionIds, sessions[s].state \in {"live", "ended"},
               sessions' = [sessions EXCEPT ![s].state = "ended"]
        PROVE  Handed
    <3>1. sessions'[s].user = sessions[s].user /\ sessions'[s].state = "ended"
      BY <1>2, <2>2 DEF SessionRow
    <3>2. sessions' \in [SessionIds -> SessionRow]
      BY <1>2, <2>2 DEF SessionRow
    <3> QED BY <2>2, <3>1, <3>2 DEF Unused
  <2>3. ASSUME NEW r \in Requests, CreateSession(r), sessions' # sessions
        PROVE  Handed
    <3>1. PICK s \in SessionIds :
             /\ Active(request[r].user) /\ sessions[s] = Unused
             /\ sessions' = [sessions EXCEPT ![s] = [user |-> request[r].user, state |-> "live"]]
      BY <2>3 DEF CreateSession, LockActiveAccount
    <3>2. request[r].user \in Ids
      BY <2>3 DEF Inv, Targets, Relies, CreateSession, At, Known
    <3> QED BY <1>2, <3>1, <3>2 DEF SessionRow, Unused
  <2>4. ASSUME NEW r \in Requests, Logout(r), sessions' # sessions
        PROVE  Handed
    <3> DEFINE s == request[r].session
    <3>1. sessions' = [sessions EXCEPT ![s].state = IF s \in Stored THEN "ended" ELSE sessions[s].state]
      BY <2>4 DEF Logout
    <3>2. CASE s \in Stored
      <4>1. /\ s \in SessionIds /\ sessions[s].state \in {"live", "ended"}
            /\ sessions' = [sessions EXCEPT ![s].state = "ended"]
        BY <3>1, <3>2 DEF Stored
      <4> HIDE DEF s
      <4> QED BY <2>2, <4>1
    <3>3. CASE s \notin Stored
      <4>1. sessions' = sessions
        BY <1>2, <3>1, <3>3 DEF SessionRow
      <4> QED BY <2>4, <4>1
    <3> QED BY <3>2, <3>3
  <2>5. CASE \E s \in SessionIds : Expire(s)
    <3> HIDE DEF Handed
    <3> QED BY <2>2, <2>5 DEF Expire
  <2> HIDE DEF Handed
  <2> QED BY <2>1, <2>3, <2>4, <2>5
<1>5. Identities' /\ Targets'
  BY <1>1, <1>3, <1>4, AccountsFrame
<1>6. StoredActive'
  BY <1>1, <1>4 DEF Inv, StoredActive, Stored, Active
<1>7. ClosedProfileIsErased'
  BY <1>1 DEF Inv, ClosedProfileIsErased
<1>8. TypeOK' /\ Shape'
  BY <1>1, <1>3, <1>4 DEF Inv, TypeOK, Shape, SessionRow
<1> QED BY <1>5, <1>6, <1>7, <1>8 DEF Inv

\* The closure erases in one transaction what every other statement looks at.
LEMMA CloseKeeps ==
  ASSUME Inv, NEW r \in Requests, CloseStudentAccount(r)
  PROVE  Inv'
<1> DEFINE i == request[r].user
<1>1. /\ Shape /\ users \in [Ids -> UserRow] /\ sessions \in [SessionIds -> SessionRow]
      /\ profile \in [Ids -> {"none", "named", "personal", "scrubbed"}]
      /\ overtaken \subseteq Ids
  BY DEF Inv, Shape, TypeOK
<1>2. i \in Ids /\ UNCHANGED <<firebase, worker, faults>>
  BY DEF Inv, Targets, Relies, CloseStudentAccount, At, Known
<1>3. CASE ~Active(i)
  <2>1. /\ request' \in [Requests -> RequestRow] /\ request'[r] = NoRequest
        /\ \A x \in Requests \ {r} : request'[x] = request[x]
    BY <1>1, <1>3, Moves DEF CloseStudentAccount, Known
  <2>2. UNCHANGED <<dbVars, firebase, worker, faults>>
    BY <1>2, <1>3 DEF CloseStudentAccount
  <2> QED BY <2>1, <2>2, NoRequestRelies, RequestFrame
<1>4. CASE Active(i)
  <2>1. /\ Erase(i) /\ Enter(r, "remove")
        /\ overtaken' = IF \E q \in Requests : At(q, "writing") /\ request[q].user = i
                        THEN overtaken \cup {i} ELSE overtaken
    BY <1>4 DEF CloseStudentAccount
  <2> HIDE DEF i
  <2>2. /\ request' \in [Requests -> RequestRow]
        /\ \A x \in Requests \ {r} : request'[x] = request[x]
        /\ request'[r].pc = "remove" /\ request'[r].user = i
    BY <1>1, <2>1, Moves DEF Known, i
  <2>3. /\ users' \in [Ids -> UserRow]
        /\ \A j \in Ids : users'[j].uid = users[j].uid /\ users'[j].linked = users[j].linked
        /\ users'[i].deleted
        /\ \A j \in Ids \ {i} : users'[j] = users[j]
    BY <1>1, <1>2, <2>1 DEF Erase, UserRow
  <2>4. /\ profile' \in [Ids -> {"none", "named", "personal", "scrubbed"}]
        /\ profile'[i] # "personal"
        /\ \A j \in Ids \ {i} : profile'[j] = profile[j]
    BY <1>1, <1>2, <2>1 DEF Erase
  <2>5. /\ sessions' \in [SessionIds -> SessionRow]
        /\ \A s \in SessionIds : /\ sessions'[s].user = sessions[s].user
                                 /\ sessions[s].user = i => sessions'[s].state = "deleted"
                                 /\ sessions[s].user # i => sessions'[s] = sessions[s]
    BY <1>1, <2>1 DEF Erase, SessionRow
  <2>6. users[i].uid # "none" /\ ~users[i].deleted
    BY <1>4 DEF Active
  <2>7. Identities'
    BY <1>2, <2>3, <2>6 DEF Inv, Identities, Active
  <2>8. StoredActive'
    <3>1. ASSUME NEW s \in SessionIds, sessions'[s].state \in {"live", "ended"}
          PROVE  sessions'[s].user \in Ids /\ users'[sessions'[s].user].uid # "none"
                 /\ ~users'[sessions'[s].user].deleted
      <4>1. sessions[s].user # i /\ sessions'[s] = sessions[s]
        BY <2>5, <3>1
      <4>2. sessions[s].user \in Ids /\ Active(sessions[s].user)
        BY <3>1, <4>1 DEF Inv, StoredActive, Stored
      <4> QED BY <2>3, <4>1, <4>2 DEF Active
    <3> QED BY <3>1 DEF StoredActive, Stored, Active
  <2>9. overtaken \subseteq overtaken' /\ overtaken' \subseteq Ids
    BY <1>1, <1>2, <2>1
  <2>10. ClosedProfileIsErased'
    BY <2>3, <2>4, <2>9 DEF Inv, ClosedProfileIsErased
  <2>11. Targets'
    <3>1. ASSUME NEW x \in Requests, request'[x].pc = "writing",
                 Active(request[x].user) \/ request[x].user \in overtaken
          PROVE  Active(request[x].user)' \/ request[x].user \in overtaken'
      <4>1. x # r /\ request'[x] = request[x]
        BY <2>2, <3>1
      <4>2. request[x].user \in Ids
        BY <3>1, <4>1 DEF Inv, Targets, Relies, Known
      <4>3. request[x].user = i => i \in overtaken'
        BY <2>1, <3>1, <4>1 DEF At
      <4> QED BY <2>3, <2>9, <3>1, <4>1, <4>2, <4>3 DEF Active
    <3>2. \A j \in Ids : users[j].deleted => users'[j].deleted
      BY <2>3
    <3>3. \A s \in SessionIds : sessions[s] # Unused =>
             sessions'[s] # Unused /\ sessions'[s].user = sessions[s].user
      BY <2>5 DEF Unused
    <3>4. \A j \in worker'.page : j \in Ids /\ users'[j].deleted
      BY <1>2, <3>2 DEF Inv, TypeOK, Targets
    <3> QED BY <1>2, <2>2, <2>3, <3>1, <3>2, <3>3, <3>4, TargetsFrame
  <2>12. TypeOK' /\ Shape'
    BY <1>2, <2>2, <2>3, <2>4, <2>5, <2>9 DEF Inv, TypeOK, Shape, UserRow, SessionRow
  <2> QED BY <2>7, <2>8, <2>10, <2>11, <2>12 DEF Inv
<1> QED BY <1>3, <1>4

LEMMA FaultType ==
  ASSUME TypeOK, Fault
  PROVE  faults' \in 0..MaxFaults
<1>1. faults \in 0..MaxFaults /\ faults < MaxFaults /\ faults' = faults + 1 /\ MaxFaults \in Nat
  BY AccountsConstants DEF TypeOK, Fault
<1> QED BY <1>1

LEMMA DeleteUserType ==
  ASSUME TypeOK, NEW u, DeleteUser(u)
  PROVE  firebase' \subseteq Uids /\ faults' \in 0..MaxFaults
  BY FaultType DEF DeleteUser, TypeOK

\* A tombstone loses its Firebase UID; nothing else of the row changes.
LEMMA UnlinkKeeps ==
  ASSUME Inv, UNCHANGED <<profile, sessions, overtaken>>,
         users' \in [Ids -> UserRow],
         \A j \in Ids : /\ users'[j].uid = users[j].uid /\ users'[j].deleted = users[j].deleted
                        /\ users[j].deleted \/ users'[j].linked = users[j].linked,
         firebase' \subseteq Uids, faults' \in 0..MaxFaults,
         worker'.cursor \in Ids \cup {0}, worker'.page \subseteq worker.page,
         request' \in [Requests -> RequestRow],
         \A x \in Requests :
             \/ request'[x] = request[x]
             \/ request'[x] = NoRequest
             \/ request'[x].pc = "clear" /\ request[x].pc = "remove" /\ request'[x].user = request[x].user
  PROVE  Inv'
<1>1. TypeOK' /\ Shape'
  BY DEF Inv, TypeOK, Shape, UserRow
<1>2. \A j \in Ids : Active(j)' <=> Active(j)
  BY DEF Active
<1>3. Identities'
  BY <1>2 DEF Inv, Identities, Active
<1>4. StoredActive' /\ ClosedProfileIsErased'
  BY <1>2 DEF Inv, StoredActive, Stored, ClosedProfileIsErased
<1>5. \A j \in Ids : users[j].deleted => users'[j].deleted
  OBVIOUS
<1>6. ASSUME NEW x \in Requests, request'[x].pc = "writing",
             Active(request[x].user) \/ request[x].user \in overtaken
      PROVE  Active(request[x].user)' \/ request[x].user \in overtaken'
  <2>1. request'[x] = request[x]
    BY <1>6 DEF NoRequest
  <2>2. request[x].user \in Ids
    BY <1>6, <2>1 DEF Inv, Targets, Relies, Known
  <2> QED BY <1>6, <2>1, <2>2 DEF Active
<1>7. \A j \in worker'.page : j \in Ids /\ users'[j].deleted
  BY <1>5 DEF Inv, TypeOK, Targets
<1>8. ASSUME NEW x \in Requests
      PROVE  \/ request'[x] = request[x]
             \/ request'[x] = NoRequest
             \/ /\ request'[x].pc \in {"remove", "clear"} /\ request'[x].user \in Ids
                /\ users'[request'[x].user].deleted
  BY <1>5 DEF Inv, Targets, Relies, Known
<1>9. Targets'
  BY <1>5, <1>6, <1>7, <1>8, TargetsFrame
<1> QED BY <1>1, <1>3, <1>4, <1>9 DEF Inv

LEMMA RemovalKeeps ==
  ASSUME Inv, NEW r \in Requests, RemoveIdentity(r) \/ ClearDeletedAccountFirebaseUID(r)
  PROVE  Inv'
<1>1. /\ TypeOK /\ Shape /\ users \in [Ids -> UserRow] /\ firebase \subseteq Uids
      /\ faults \in 0..MaxFaults /\ worker.cursor \in Ids \cup {0}
  BY DEF Inv, TypeOK, Shape
<1>2. CASE RemoveIdentity(r)
  <2>1. /\ request' \in [Requests -> RequestRow]
        /\ \A x \in Requests \ {r} : request'[x] = request[x]
        /\ \/ request'[r] = NoRequest
           \/ request'[r].pc = "clear" /\ request[r].pc = "remove" /\ request'[r].user = request[r].user
    BY <1>1, <1>2, Moves DEF RemoveIdentity, At, Known
  <2>2. firebase' \subseteq Uids /\ faults' \in 0..MaxFaults
    BY <1>1, <1>2, DeleteUserType DEF RemoveIdentity
  <2>3. UNCHANGED <<users, profile, sessions, overtaken, worker>>
    BY <1>2 DEF RemoveIdentity, dbVars
  <2> QED BY <1>1, <2>1, <2>2, <2>3, UnlinkKeeps
<1>3. CASE ClearDeletedAccountFirebaseUID(r)
  <2>1. /\ request' \in [Requests -> RequestRow] /\ request'[r] = NoRequest
        /\ \A x \in Requests \ {r} : request'[x] = request[x]
    BY <1>1, <1>3, Moves DEF ClearDeletedAccountFirebaseUID, Known
  <2>2. request[r].user \in Ids /\ users[request[r].user].deleted
    BY <1>3 DEF Inv, Targets, Relies, ClearDeletedAccountFirebaseUID, At, Known
  <2>3. /\ users' = [users EXCEPT ![request[r].user].linked = FALSE]
        /\ UNCHANGED <<profile, sessions, overtaken, firebase, worker, faults>>
    BY <1>3 DEF ClearDeletedAccountFirebaseUID
  <2>4. /\ users' \in [Ids -> UserRow]
        /\ \A j \in Ids : /\ users'[j].uid = users[j].uid /\ users'[j].deleted = users[j].deleted
                          /\ users[j].deleted \/ users'[j].linked = users[j].linked
    BY <1>1, <2>2, <2>3 DEF UserRow
  <2> QED BY <1>1, <2>1, <2>3, <2>4, UnlinkKeeps
<1> QED BY <1>2, <1>3

\* The worker touches closed accounts only: the page was read as deleted, and
\* an account never opens again.
LEMMA WorkerKeeps ==
  ASSUME Inv, ListPending \/ ReconcileNext \/ Restart
  PROVE  Inv'
<1>1. /\ TypeOK /\ Shape /\ users \in [Ids -> UserRow] /\ firebase \subseteq Uids
      /\ request \in [Requests -> RequestRow]
      /\ faults \in 0..MaxFaults /\ worker.cursor \in Ids \cup {0} /\ worker.page \subseteq Ids
  BY DEF Inv, TypeOK, Shape
<1>2. CASE ListPending
  <2>1. /\ NextPage # {} /\ worker' = [cursor |-> Max(NextPage), page |-> NextPage]
        /\ UNCHANGED <<dbVars, firebase, request, faults>>
    BY <1>2 DEF ListPending
  <2>2. NextPage \subseteq Ids /\ \A j \in NextPage : users[j].deleted
    BY DEF NextPage, Page, Pending
  <2>3. Ids \subseteq Nat /\ IsFiniteSet(NextPage)
    BY <2>2, AccountsConstants, FS_Subset
  <2>4. Max(NextPage) \in NextPage
    BY <2>1, <2>2, <2>3, MaxIs
  <2>5. worker'.cursor \in Ids \cup {0} /\ worker'.page = NextPage
    BY <2>1, <2>2, <2>4
  <2>6. UNCHANGED <<users, profile, sessions, overtaken>>
    BY <2>1 DEF dbVars
  <2>7. TypeOK' /\ Shape'
    BY <2>1, <2>2, <2>5, <2>6 DEF Inv, TypeOK, Shape
  <2>8. Identities' /\ StoredActive' /\ ClosedProfileIsErased'
    BY <2>6 DEF Inv, Identities, StoredActive, Stored, ClosedProfileIsErased, Active
  <2>9. Targets'
    BY <2>1, <2>2, <2>5, <2>6 DEF Inv, Targets, Relies, Active
  <2> QED BY <2>7, <2>8, <2>9 DEF Inv
<1>3. CASE ReconcileNext
  <2> DEFINE i == Min(worker.page)
             u == users[i].uid
  <2>1. /\ worker.page # {} /\ DeleteUser(u)
        /\ users' = users \/ users' = [users EXCEPT ![i].linked = FALSE]
        /\ worker' = [worker EXCEPT !.page = @ \ {i}]
        /\ UNCHANGED <<profile, sessions, overtaken, request>>
    BY <1>3 DEF ReconcileNext
  <2>2. i \in worker.page
    BY <1>1, <2>1, MinIs, AccountsConstants
  <2>3. i \in Ids /\ users[i].deleted
    BY <1>1, <2>2 DEF Inv, Targets
  <2>4. firebase' \subseteq Uids /\ faults' \in 0..MaxFaults
    BY <1>1, <2>1, DeleteUserType
  <2> HIDE DEF i, u
  <2>5. /\ users' \in [Ids -> UserRow]
        /\ \A j \in Ids : /\ users'[j].uid = users[j].uid /\ users'[j].deleted = users[j].deleted
                          /\ users[j].deleted \/ users'[j].linked = users[j].linked
    <3>1. CASE users' = users
      BY <1>1, <3>1
    <3>2. CASE users' = [users EXCEPT ![i].linked = FALSE]
      BY <1>1, <2>3, <3>2 DEF UserRow
    <3> QED BY <2>1, <3>1, <3>2
  <2>6. worker'.cursor \in Ids \cup {0} /\ worker'.page \subseteq worker.page
    BY <1>1, <2>1
  <2> QED BY <1>1, <2>1, <2>4, <2>5, <2>6, UnlinkKeeps
<1>4. CASE Restart
  <2>1. /\ Fault /\ request' = [r \in Requests |-> NoRequest]
        /\ worker' = [cursor |-> 0, page |-> {}]
        /\ UNCHANGED <<users, profile, sessions, overtaken, firebase>>
    BY <1>4 DEF Restart, dbVars
  <2>2. /\ request' \in [Requests -> RequestRow]
        /\ \A x \in Requests : request'[x] = NoRequest
    BY <2>1, NoRequestRelies
  <2>3. faults' \in 0..MaxFaults
    BY <1>1, <2>1, FaultType
  <2> QED BY <1>1, <2>1, <2>2, <2>3, UnlinkKeeps
<1> QED BY <1>2, <1>3, <1>4

LEMMA InvNext ==
  ASSUME Inv, [Next]_vars
  PROVE  Inv'
<1>1. CASE UNCHANGED vars
  <2>1. UNCHANGED <<users, profile, sessions, overtaken, firebase, request, worker, faults>>
    BY <1>1 DEF vars, dbVars
  <2> QED BY <2>1 DEF Inv, TypeOK, Shape, Identities, Targets, Relies, StoredActive, Stored,
                      ClosedProfileIsErased, Active
<1>2. CASE Next
  <2>1. CASE \E r \in Requests :
               \/ \E u \in Uids : VerifyRegistration(r, u) \/ VerifyLogin(r, u)
               \/ \E u \in Uids, s \in SessionIds : ResolveUser(r, u, s)
               \/ CheckSession(r) \/ Touch(r) \/ LoadProfile(r) \/ BeginUpdate(r) \/ Abandon(r)
    BY <2>1, ReadsKeep
  <2>2. CASE \E r \in Requests : UpsertUserByFirebaseUID(r)
    BY <2>2, UpsertKeeps
  <2>3. CASE \E r \in Requests : UpsertProfileOnRegister(r) \/ WriteProfile(r)
    BY <2>3, ProfilesKeep
  <2>4. CASE (\E r \in Requests : CreateSession(r) \/ Logout(r)) \/ (\E s \in SessionIds : Expire(s))
    BY <2>4, SessionsKeep
  <2>5. CASE \E r \in Requests : CloseStudentAccount(r)
    BY <2>5, CloseKeeps
  <2>6. CASE \E r \in Requests : RemoveIdentity(r) \/ ClearDeletedAccountFirebaseUID(r)
    BY <2>6, RemovalKeeps
  <2>7. CASE ListPending \/ ReconcileNext \/ Restart
    BY <2>7, WorkerKeeps
  <2> QED BY <1>2, <2>1, <2>2, <2>3, <2>4, <2>5, <2>6, <2>7 DEF Next
<1> QED BY <1>1, <1>2

LEMMA InvAlways == Spec => []Inv
<1>1. Inv /\ [Next]_vars => Inv'
  BY InvNext
<1> QED BY InvInit, <1>1, PTL DEF Spec

-----------------------------------------------------------------------------
(* Theorems                                                                *)

\* Rows, requests and the worker keep their shape; in particular the cursor of
\* ReconcilePending is always the ID of some row, or nil.
THEOREM AccountsTypeCorrect == Spec => []TypeOK
<1>1. Inv => TypeOK
  BY DEF Inv
<1> QED BY InvAlways, <1>1, PTL

\* A closed identity gets no second account, whatever a registration had
\* verified before the closure and however late it runs: the hash of the UID
\* outlives the UID (UpsertUserByFirebaseUID, ClearDeletedAccountFirebaseUID).
THEOREM TombstonesStand == Spec => []TombstoneIsFinal
<1>1. Inv => TombstoneIsFinal
  BY DEF Inv, Identities, TombstoneIsFinal
<1> QED BY InvAlways, <1>1, PTL

\* A login that passed its checks before the closure leaves no session behind:
\* CreateSession looks at the account again under its row lock.
THEOREM ClosedSessionsGone == Spec => []ClosedHasNoSession
<1>1. Inv => ClosedHasNoSession
  BY DEF Inv, StoredActive, Active, ClosedHasNoSession
<1> QED BY InvAlways, <1>1, PTL

\* Personal data of a closed account survives only a profile update that was
\* inside its statement when the account closed.
THEOREM ClosedProfilesErased == Spec => []ClosedProfileIsErased
<1>1. Inv => ClosedProfileIsErased
  BY DEF Inv
<1> QED BY InvAlways, <1>1, PTL

\* The only way into "admitted" is Touch, which finds the session stored, and
\* so its account open.
LEMMA AdmissionStep ==
  ASSUME Inv, Next, NEW r \in Requests,
         request[r].pc # "admitted", request'[r].pc = "admitted"
  PROVE  Active(request[r].user)
<1>1. Shape /\ request \in [Requests -> RequestRow]
  BY DEF Inv, Shape
<1>2. ~\E q \in Requests : Answer(q)
  BY <1>1 DEF Answer, NoRequest
<1>3. \A q \in Requests, pc \in Known \ {"admitted"} : ~Goto(q, pc) /\ ~Enter(q, pc)
  BY <1>1 DEF Goto, Enter, RequestRow
<1>4. request' # request
  OBVIOUS
<1>5. ASSUME NEW q \in Requests,
             \/ \E u \in Uids : VerifyRegistration(q, u) \/ VerifyLogin(q, u)
             \/ \E u \in Uids, s \in SessionIds : ResolveUser(q, u, s)
             \/ UpsertUserByFirebaseUID(q)
      PROVE  FALSE
  <2>1. PICK row : request' = [request EXCEPT ![q] = row] /\ row.pc # "admitted"
    <3>1. CASE \E u \in Uids : VerifyRegistration(q, u)
      BY <1>1, <3>1 DEF VerifyRegistration, RequestRow
    <3>2. CASE \E u \in Uids : VerifyLogin(q, u)
      BY <1>1, <3>2 DEF VerifyLogin, RequestRow
    <3>3. CASE \E u \in Uids, s \in SessionIds : ResolveUser(q, u, s)
      BY <1>1, <3>3 DEF ResolveUser, RequestRow
    <3>4. CASE UpsertUserByFirebaseUID(q)
      <4>1. PICK i \in Ids, pc \in {"session", "name"} :
               request' = [request EXCEPT ![q] = [NoRequest EXCEPT !.pc = pc, !.user = i]]
        BY <1>2, <3>4 DEF UpsertUserByFirebaseUID
      <4> QED BY <4>1 DEF NoRequest
    <3> QED BY <1>5, <3>1, <3>2, <3>3, <3>4
  <2> QED BY <1>1, <2>1
<1>6. ASSUME NEW q \in Requests,
             \/ UpsertProfileOnRegister(q) \/ CreateSession(q) \/ CheckSession(q) \/ Logout(q)
             \/ LoadProfile(q) \/ BeginUpdate(q) \/ WriteProfile(q) \/ CloseStudentAccount(q)
             \/ RemoveIdentity(q) \/ ClearDeletedAccountFirebaseUID(q) \/ Abandon(q)
      PROVE  FALSE
  BY <1>2, <1>3, <1>6 DEF UpsertProfileOnRegister, CreateSession, CheckSession, Logout,
       LoadProfile, BeginUpdate, WriteProfile, CloseStudentAccount, RemoveIdentity,
       ClearDeletedAccountFirebaseUID, Abandon, Known
<1>7. ~ListPending /\ ~ReconcileNext /\ ~(\E s \in SessionIds : Expire(s))
  BY <1>4 DEF ListPending, ReconcileNext, Expire
<1>8. ~Restart
  BY DEF Restart, NoRequest
<1>9. PICK q \in Requests : Touch(q)
  BY <1>5, <1>6, <1>7, <1>8 DEF Next
<1>10. Goto(q, "admitted") /\ Touched(q) /\ request[q].pc = "checked"
  BY <1>2, <1>9 DEF Touch, At
<1>11. q = r
  BY <1>1, <1>10 DEF Goto
<1>12. sessions[request[r].session].user = request[r].user /\ request[r].session \in Stored
  BY <1>10, <1>11 DEF Inv, Targets, Relies, Touched
<1> QED BY <1>12 DEF Inv, StoredActive

\* FR-019: no request is admitted after the account closed, although account
\* and session were read by earlier statements of the middleware.
THEOREM AdmissionIsCurrent == Spec => AdmittedIsActive
<1>1. ASSUME Inv, [Next]_vars
      PROVE  [\A r \in Requests : request[r].pc # "admitted" /\ request'[r].pc = "admitted"
                                  => Active(request[r].user)]_vars
  BY <1>1, AdmissionStep DEF vars
<1> QED BY InvAlways, <1>1, PTL DEF Spec, AdmittedIsActive
=============================================================================
