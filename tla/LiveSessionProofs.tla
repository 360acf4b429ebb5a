-------------------------- MODULE LiveSessionProofs --------------------------
(***************************************************************************)
(* Theorems about a live session, for any number of users, seats, requests *)
(* and changes of the circle.                                              *)
(***************************************************************************)
EXTENDS LiveSession, FiniteSetTheorems, SequenceTheorems, TLAPS

-----------------------------------------------------------------------------
(* The rows                                                                *)

SessionRow  == [status : {"none", "scheduled", "active", "ended"},
                locked : BOOLEAN, count : 0..MaxParticipants]
PresenceRow == [row : {"none", "present", "away", "removed"},
                hand : BOOLEAN, joined : Joined]
RosterRow   == [listed : BOOLEAN, first : Joined,
                base : Statuses \cup {"none"}, effective : Statuses \cup {"none"}]

LEMMA Rows ==
  ASSUME TypeOK
  PROVE  /\ session \in SessionRow
         /\ presence \in [Users -> PresenceRow]
         /\ roster \in [Users -> RosterRow]
  BY DEF TypeOK, SessionRow, PresenceRow, RosterRow

\* The count is the number of seats taken while the session is active; nobody
\* sits anywhere in a session that is not.
Seating ==
    /\ session.status = "active" => session.count = Cardinality(Present)
    /\ session.status # "active" => Present = {}
    /\ session.status \in {"none", "scheduled"} => session.count = 0

LEMMA PresentFinite == IsFiniteSet(Present) /\ Cardinality(Present) \in Nat
<1>1. IsFiniteSet(Users) /\ Present \in SUBSET Users
  BY LiveSessionConstants DEF Present
<1> QED BY <1>1, FS_Subset, FS_CardinalityType

\* Somebody sits down.
LEMMA AdmitEffect ==
  ASSUME TypeOK, NEW u \in Users, u \notin Present, AdmitPresence(u)
  PROVE  /\ presence' \in [Users -> PresenceRow]
         /\ presence'[u].row = "present"
         /\ presence'[u].joined # "never"
         /\ presence[u].joined # "never" => presence'[u].joined = presence[u].joined
         /\ \A v \in Users \ {u} : presence'[v] = presence[v]
         /\ Present' = Present \cup {u}
         /\ Cardinality(Present') = Cardinality(Present) + 1
<1>1. /\ presence' \in [Users -> PresenceRow]
      /\ presence'[u].row = "present"
      /\ presence'[u].joined # "never"
      /\ presence[u].joined # "never" => presence'[u].joined = presence[u].joined
      /\ \A v \in Users \ {u} : presence'[v] = presence[v]
  BY Rows DEF AdmitPresence, PresenceRow, Joined
<1>2. Present' = Present \cup {u}
  BY <1>1 DEF Present
<1>3. Cardinality(Present \cup {u}) = Cardinality(Present) + 1
  BY PresentFinite, FS_AddElement
<1> QED BY <1>1, <1>2, <1>3

\* A student who was not listed is listed with the first presence.
LEMMA RecordEffect ==
  ASSUME NEW u \in Users, NEW rows \in [Users -> RosterRow],
         presence' \in [Users -> PresenceRow]
  PROVE  /\ RecordStudentJoin(u, rows) \in [Users -> RosterRow]
         /\ \A v \in Users \ {u} : RecordStudentJoin(u, rows)[v] = rows[v]
         /\ \/ RecordStudentJoin(u, rows)[u] = rows[u]
            \/ RecordStudentJoin(u, rows)[u].first = presence'[u].joined
  BY DEF RecordStudentJoin, RosterRow, PresenceRow

LEMMA SnapshotType ==
  ASSUME TypeOK
  PROVE  /\ SnapshotStartRoster \in [Users -> RosterRow]
         /\ \A u \in Users : SnapshotStartRoster[u].first = roster[u].first
  BY Rows DEF SnapshotStartRoster, RosterRow

\* One row of the roster when the session is finalized.
LEMMA FinalizeType ==
  ASSUME TypeOK, NEW u \in Users,
         CorrectionsOf(u) = {} \/ LatestCorrection(u) \in Statuses
  PROVE  /\ FinalizeRow(u) \in RosterRow
         /\ FinalizeRow(u).first = IF roster[u].first # "never" THEN roster[u].first
                                   ELSE presence[u].joined
<1> DEFINE first == IF roster[u].first # "never" THEN roster[u].first ELSE presence[u].joined
<1>1. first \in Joined
  BY Rows DEF RosterRow, PresenceRow
<1>2. FinalizeRow(u) = [listed |-> TRUE, first |-> first, base |-> Classify(first),
                        effective |-> IF CorrectionsOf(u) = {} THEN Classify(first)
                                      ELSE LatestCorrection(u)]
  BY DEF FinalizeRow
<1> HIDE DEF first
<1>3. Classify(first) \in Statuses
  BY <1>1 DEF Classify, Joined, Statuses
<1>4. FinalizeRow(u) \in RosterRow /\ FinalizeRow(u).first = first
  BY <1>1, <1>2, <1>3 DEF RosterRow
<1> QED BY <1>4 DEF first

-----------------------------------------------------------------------------
(* Corrections                                                             *)

\* Whoever was corrected has a youngest correction, and only an ended session
\* has corrections at all; a dated first presence is that of the presence row.
History ==
    /\ \A u \in Users : CorrectionsOf(u) # {} =>
          \E i \in CorrectionsOf(u) : \A j \in CorrectionsOf(u) : j <= i
    /\ session.status # "ended" => corrections = <<>>
    /\ \A u \in Users : roster[u].first # "never" => roster[u].first = presence[u].joined

\* A set of numbers has at most one greatest element.
LEMMA GreatestIs ==
  ASSUME NEW S \in SUBSET Nat, NEW i \in S, \A j \in S : j <= i
  PROVE  (CHOOSE k \in S : \A j \in S : j <= k) = i
<1> DEFINE greatest == CHOOSE k \in S : \A j \in S : j <= k
<1>1. greatest \in S /\ \A j \in S : j <= greatest
  OBVIOUS
<1> HIDE DEF greatest
<1>2. greatest \in Nat /\ i \in Nat /\ greatest <= i /\ i <= greatest
  BY <1>1
<1>3. greatest = i
  BY <1>2
<1> QED BY <1>3 DEF greatest

LEMMA LatestIs ==
  ASSUME TypeOK, NEW u \in Users, NEW i \in CorrectionsOf(u),
         \A j \in CorrectionsOf(u) : j <= i
  PROVE  /\ LatestCorrection(u) = corrections[i].status
         /\ LatestCorrection(u) \in Statuses
<1>1. corrections \in Seq([user : Users, status : Statuses, key : Keys])
  BY DEF TypeOK
<1>2. CorrectionsOf(u) \subseteq DOMAIN corrections /\ DOMAIN corrections \subseteq Nat
  BY <1>1 DEF CorrectionsOf
<1>4. CorrectionsOf(u) \in SUBSET Nat
  BY <1>2
<1>5. LatestCorrection(u) = corrections[i].status
  BY <1>4, GreatestIs DEF LatestCorrection
<1>6. corrections[i] \in [user : Users, status : Statuses, key : Keys]
  <2>1. i \in 1..Len(corrections)
    BY <1>1, <1>2
  <2> QED BY ONLY <1>1, <2>1, ElementOfSeq
<1> QED BY <1>5, <1>6

LEMMA SameCorrections ==
  ASSUME UNCHANGED corrections, NEW u
  PROVE  CorrectionsOf(u)' = CorrectionsOf(u) /\ LatestCorrection(u)' = LatestCorrection(u)
  BY DEF CorrectionsOf, LatestCorrection

LEMMA LatestType ==
  ASSUME TypeOK, History, NEW u \in Users
  PROVE  CorrectionsOf(u) = {} \/ LatestCorrection(u) \in Statuses
  BY LatestIs DEF History

-----------------------------------------------------------------------------
(* The invariant                                                           *)

Inv == TypeOK /\ Seating /\ History /\ DeletedNotPresent /\ CorrectionWins

LEMMA InvInit == Init => Inv
<1> SUFFICES ASSUME Init PROVE Inv
  OBVIOUS
<1>1. TypeOK
  <2>1. corrections \in Seq([user : Users, status : Statuses, key : Keys])
    BY DEF Init
  <2>2. role \in [Users -> Roles]
    BY DEF Init
  <2>3. session \in SessionRow
    BY LiveSessionConstants DEF Init, SessionRow
  <2>4. roster \in [Users -> RosterRow]
    BY DEF Init, NoRecord, RosterRow, Joined
  <2>5. presence \in [Users -> PresenceRow]
    BY DEF Init, NoPresence, PresenceRow, Joined
  <2>6. /\ receipts \in [Keys -> Nat] /\ deleted \in SUBSET Users
        /\ request \in [Users -> Levels \cup {"none"}] /\ changes \in 0..MaxChanges
    BY LiveSessionConstants DEF Init
  <2>7. tenMinutes \in BOOLEAN /\ archived \in BOOLEAN
    BY Zenon DEF Init
  <2> QED BY <2>1, <2>2, <2>3, <2>4, <2>5, <2>6, <2>7 DEF TypeOK, SessionRow, PresenceRow, RosterRow
<1>2. Seating
  BY DEF Init, Seating, Present, NoPresence
<1>3. History
  BY DEF Init, History, CorrectionsOf, NoRecord
<1>4. DeletedNotPresent /\ CorrectionWins
  BY DEF Init, DeletedNotPresent, CorrectionWins
<1> QED BY <1>1, <1>2, <1>3, <1>4 DEF Inv

\* Steps that leave session, presence and attendance alone.
LEMMA InvFrame ==
  ASSUME Inv, UNCHANGED <<session, presence, roster, corrections, receipts>>,
         tenMinutes' \in BOOLEAN, role' \in [Users -> Roles], archived' \in BOOLEAN,
         deleted' \in SUBSET Users, request' \in [Users -> Levels \cup {"none"}],
         changes' \in 0..MaxChanges, DeletedNotPresent'
  PROVE  Inv'
<1>1. TypeOK'
  BY DEF Inv, TypeOK
<1>2. Seating'
  BY DEF Inv, Seating, Present
<1>3. History'
  BY DEF Inv, History, CorrectionsOf
<1>4. CorrectionWins'
  BY DEF Inv, CorrectionWins, CorrectionsOf, LatestCorrection
<1> QED BY <1>1, <1>2, <1>3, <1>4 DEF Inv

\* Steps of an authorized request that change session, presence or roster but
\* no correction.
LEMMA TypeFrame ==
  ASSUME TypeOK, session' \in SessionRow, presence' \in [Users -> PresenceRow],
         roster' \in [Users -> RosterRow],
         request' \in [Users -> Levels \cup {"none"}],
         UNCHANGED <<tenMinutes, corrections, receipts, circleVars>>
  PROVE  TypeOK'
  BY DEF TypeOK, circleVars, SessionRow, PresenceRow, RosterRow

LEMMA HandleType ==
  ASSUME TypeOK, NEW u \in Users, NEW level, Handle(u, level)
  PROVE  request' \in [Users -> Levels \cup {"none"}]
  BY DEF TypeOK, Handle

\* Admission, by a start or a join.
LEMMA AdmitKeeps ==
  ASSUME Inv, NEW u \in Users, session.status \in {"scheduled", "active"},
         NEW rows \in [Users -> RosterRow],
         \A v \in Users : rows[v].first = roster[v].first,
         u \notin deleted, Admit(u, "active", rows), UNCHANGED <<corrections, deleted>>
  PROVE  /\ session' \in SessionRow
         /\ presence' \in [Users -> PresenceRow]
         /\ roster' \in [Users -> RosterRow]
         /\ Seating' /\ History' /\ DeletedNotPresent' /\ CorrectionWins'
<1> USE DEF Inv
<1>1. CASE u \in Present
  <2>1. /\ session' = [session EXCEPT !.status = "active"]
        /\ roster' = rows /\ presence' = presence
    BY <1>1 DEF Admit
  <2>2. session.status = "active"
    BY <1>1 DEF Seating
  <2>3. session' = session
    BY <2>1, <2>2, Rows DEF SessionRow
  <2>4. Seating'
    BY <2>1, <2>3 DEF Seating, Present
  <2>5. History'
    BY <2>1, <2>3 DEF History, CorrectionsOf
  <2>6. DeletedNotPresent' /\ CorrectionWins'
    BY <2>1, <2>2, <2>3 DEF DeletedNotPresent, CorrectionWins, Present
  <2> QED BY <2>1, <2>3, <2>4, <2>5, <2>6, Rows
<1>2. CASE u \notin Present
  <2>1. /\ AdmissionOpen(u) /\ AdmitPresence(u)
        /\ session' = [session EXCEPT !.status = "active", !.count = @ + 1]
        /\ roster' = RecordStudentJoin(u, rows)
    BY <1>2 DEF Admit
  <2>2. /\ session'.status = "active" /\ session'.count = session.count + 1
        /\ session' \in SessionRow
    <3>1. /\ session \in SessionRow /\ session.count < MaxParticipants
          /\ MaxParticipants \in Nat
      BY <2>1, Rows, LiveSessionConstants DEF AdmissionOpen
    <3>2. session.count + 1 \in 0..MaxParticipants
      <4>1. session.count \in 0..MaxParticipants
        BY <3>1 DEF SessionRow
      <4> QED BY <3>1, <4>1
    <3>3. session' = [status |-> "active", locked |-> session.locked, count |-> session.count + 1]
      BY <2>1, <3>1 DEF SessionRow
    <3>4. session.locked \in BOOLEAN
      BY <3>1 DEF SessionRow
    <3> QED BY <3>2, <3>3, <3>4 DEF SessionRow
  <2>3. /\ presence' \in [Users -> PresenceRow]
        /\ presence[u].joined # "never" => presence'[u].joined = presence[u].joined
        /\ \A v \in Users \ {u} : presence'[v] = presence[v]
        /\ Present' = Present \cup {u}
        /\ Cardinality(Present') = Cardinality(Present) + 1
    BY <1>2, <2>1, AdmitEffect
  <2>4. session.count = Cardinality(Present)
    BY FS_EmptySet DEF Seating
  <2>5. Seating'
    BY <2>2, <2>3, <2>4 DEF Seating
  <2>6. /\ roster' \in [Users -> RosterRow]
        /\ \A v \in Users \ {u} : roster'[v] = rows[v]
        /\ roster'[u] = rows[u] \/ roster'[u].first = presence'[u].joined
    BY <2>1, <2>3, RecordEffect
  <2>7. \A v \in Users : roster'[v].first # "never" => roster'[v].first = presence'[v].joined
    BY <2>3, <2>6 DEF History
  <2>8. History'
    BY <2>2, <2>7 DEF History, CorrectionsOf
  <2>9. CorrectionWins'
    BY <2>2 DEF CorrectionWins
  <2>10. DeletedNotPresent'
    BY <2>3 DEF DeletedNotPresent, Seating
  <2> QED BY <2>2, <2>3, <2>5, <2>6, <2>8, <2>9, <2>10
<1> QED BY <1>1, <1>2

-----------------------------------------------------------------------------
(* One lemma per group of actions                                          *)

\* Requests, time, and the circle around the session.
LEMMA CircleKeeps ==
  ASSUME Inv, NEW u \in Users,
         \/ \E level \in Levels : Request(u, level)
         \/ TimePasses
         \/ JoinCircle(u)
         \/ \E r \in Roles : ChangeRole(u, r)
         \/ ArchiveCircle
         \/ CloseAccount(u)
  PROVE  Inv'
<1>1. TypeOK
  BY DEF Inv
<1>2. /\ tenMinutes \in BOOLEAN /\ role \in [Users -> Roles] /\ archived \in BOOLEAN
      /\ deleted \in SUBSET Users /\ request \in [Users -> Levels \cup {"none"}]
      /\ changes \in 0..MaxChanges
  BY <1>1 DEF TypeOK
<1>3. CASE \E level \in Levels : Request(u, level)
  <2>1. /\ UNCHANGED <<sessionVars, attendanceVars, circleVars>>
        /\ request' \in [Users -> Levels \cup {"none"}]
    BY <1>2, <1>3 DEF Request
  <2>2. DeletedNotPresent'
    BY <2>1 DEF Inv, DeletedNotPresent, Present, sessionVars, circleVars
  <2> QED BY <1>2, <2>1, <2>2, InvFrame DEF sessionVars, attendanceVars, circleVars
<1>4. CASE TimePasses
  <2>1. /\ UNCHANGED <<session, presence, attendanceVars, circleVars, request>>
        /\ tenMinutes' = TRUE
    BY <1>4 DEF TimePasses
  <2>2. DeletedNotPresent'
    BY <2>1 DEF Inv, DeletedNotPresent, Present, circleVars
  <2> QED BY <1>2, <2>1, <2>2, InvFrame DEF attendanceVars, circleVars
<1>5. ASSUME Change, role' \in [Users -> Roles], archived' \in BOOLEAN,
             deleted' \in SUBSET Users, DeletedNotPresent'
      PROVE  Inv'
  <2>1. changes' \in 0..MaxChanges
    BY <1>2, <1>5, LiveSessionConstants DEF Change
  <2>2. UNCHANGED <<sessionVars, attendanceVars, request>>
    BY <1>5 DEF Change
  <2> QED BY <1>2, <1>5, <2>1, <2>2, InvFrame DEF sessionVars, attendanceVars
<1>6. ASSUME Change, deleted' = deleted
      PROVE  DeletedNotPresent'
  BY <1>6 DEF Inv, Change, DeletedNotPresent, Present, sessionVars
<1>7. CASE JoinCircle(u)
  <2>1. Change /\ role' \in [Users -> Roles] /\ archived' = archived /\ deleted' = deleted
    BY <1>2, <1>7 DEF JoinCircle, Roles
  <2> QED BY <1>2, <1>5, <1>6, <2>1
<1>8. CASE \E r \in Roles : ChangeRole(u, r)
  <2>1. Change /\ role' \in [Users -> Roles] /\ archived' = archived /\ deleted' = deleted
    BY <1>2, <1>8 DEF ChangeRole
  <2> QED BY <1>2, <1>5, <1>6, <2>1
<1>9. CASE ArchiveCircle
  <2>1. Change /\ role' = role /\ archived' = TRUE /\ deleted' = deleted
    BY <1>9 DEF ArchiveCircle
  <2> QED BY <1>2, <1>5, <1>6, <2>1
<1>10. CASE CloseAccount(u)
  <2>1. /\ Change /\ role' = role /\ archived' = archived /\ deleted' = deleted \cup {u}
        /\ session.status = "active" => u \notin Present
    BY <1>10 DEF CloseAccount, ClosureAllowed
  <2>2. DeletedNotPresent'
    BY <2>1 DEF Inv, Change, DeletedNotPresent, Present, sessionVars
  <2> QED BY <1>2, <1>5, <2>1, <2>2
<1> QED BY <1>3, <1>4, <1>7, <1>8, <1>9, <1>10

\* StartSession and JoinSession.
LEMMA EnterKeeps ==
  ASSUME Inv, NEW u \in Users, StartSession(u) \/ JoinSession(u)
  PROVE  Inv'
<1>1. TypeOK
  BY DEF Inv
<1>2. /\ UNCHANGED <<tenMinutes, corrections, receipts, circleVars>>
      /\ request' \in [Users -> Levels \cup {"none"}]
  BY <1>1, HandleType DEF StartSession, JoinSession
<1>3. u \notin deleted /\ UNCHANGED deleted
  BY <1>2 DEF StartSession, JoinSession, StartSessionWithConnection,
              JoinSessionWithConnection, AccountActive, circleVars
<1>4. PICK rows \in [Users -> RosterRow] :
         /\ \A v \in Users : rows[v].first = roster[v].first
         /\ session.status \in {"scheduled", "active"}
         /\ Admit(u, "active", rows)
  BY <1>1, Rows, SnapshotType DEF StartSession, JoinSession, StartSessionWithConnection,
                                  JoinSessionWithConnection
<1>5. /\ session' \in SessionRow /\ presence' \in [Users -> PresenceRow]
      /\ roster' \in [Users -> RosterRow]
      /\ Seating' /\ History' /\ DeletedNotPresent' /\ CorrectionWins'
  BY <1>2, <1>3, <1>4, AdmitKeeps
<1> QED BY <1>1, <1>2, <1>5, TypeFrame DEF Inv

\* CreateAdHocSession and SetLock touch nothing but the session's own row.
LEMMA RowKeeps ==
  ASSUME Inv, NEW u \in Users, CreateAdHocSession(u) \/ \E b \in BOOLEAN : SetLock(u, b)
  PROVE  Inv'
<1>1. TypeOK /\ session \in SessionRow
  BY Rows DEF Inv
<1>2. /\ UNCHANGED <<presence, tenMinutes, attendanceVars, circleVars>>
      /\ request' \in [Users -> Levels \cup {"none"}]
  BY <1>1, HandleType DEF CreateAdHocSession, SetLock
<1>3. /\ session' \in SessionRow
      /\ session'.count = session.count
      /\ \/ session.status = "none" /\ session'.status = "scheduled"
         \/ session.status = "active" /\ session'.status = "active"
  BY <1>1 DEF CreateAdHocSession, SetLock, SessionRow
<1>4. Present' = Present
  BY <1>2 DEF Present
<1>5. TypeOK'
  BY <1>1, <1>2, <1>3, Rows, TypeFrame DEF attendanceVars
<1>6. Seating' /\ DeletedNotPresent'
  BY <1>2, <1>3, <1>4 DEF Inv, Seating, DeletedNotPresent, circleVars
<1>7. History' /\ CorrectionWins'
  BY <1>2, <1>3 DEF Inv, History, CorrectionWins, CorrectionsOf, attendanceVars
<1> QED BY <1>5, <1>6, <1>7 DEF Inv

\* What finalization writes into a listed row.
LEMMA FinalizeEffect ==
  ASSUME Inv, FinalizeSession, UNCHANGED corrections,
         \A u \in Users : presence'[u].joined = presence[u].joined
  PROVE  /\ roster' \in [Users -> RosterRow]
         /\ \A u \in Users : roster'[u].first # "never" => roster'[u].first = presence'[u].joined
         /\ \A u \in Users : roster'[u].listed =>
               roster'[u].effective = IF CorrectionsOf(u) = {} THEN Classify(presence'[u].joined)
                                      ELSE LatestCorrection(u)
<1>1. TypeOK /\ History /\ roster \in [Users -> RosterRow]
  BY Rows DEF Inv
<1>2. \A u \in Users : /\ FinalizeRow(u) \in RosterRow
                      /\ FinalizeRow(u).first = IF roster[u].first # "never" THEN roster[u].first
                                                ELSE presence[u].joined
  BY <1>1, FinalizeType, LatestType
<1>3. roster' = [u \in Users |-> IF roster[u].listed THEN FinalizeRow(u) ELSE roster[u]]
  BY DEF FinalizeSession
<1>4. roster' \in [Users -> RosterRow]
  BY <1>1, <1>2, <1>3
<1>5. ASSUME NEW u \in Users, roster'[u].first # "never"
      PROVE  roster'[u].first = presence'[u].joined
  BY <1>1, <1>2, <1>3, <1>5 DEF History
<1>6. ASSUME NEW u \in Users, roster'[u].listed
      PROVE  roster'[u].effective = IF CorrectionsOf(u) = {} THEN Classify(presence'[u].joined)
                                    ELSE LatestCorrection(u)
  <2>1. roster'[u] = FinalizeRow(u)
    BY <1>3, <1>6
  <2>2. (IF roster[u].first # "never" THEN roster[u].first ELSE presence[u].joined)
           = presence'[u].joined
    BY <1>1 DEF History
  <2> QED BY <2>1, <2>2 DEF FinalizeRow
<1> QED BY <1>4, <1>5, <1>6

\* EndSession empties the room and finalizes the roster; a sweep finalizes again.
LEMMA EndKeeps ==
  ASSUME Inv, (\E u \in Users : EndSession(u)) \/ Refinalize
  PROVE  Inv'
<1>1. TypeOK /\ session \in SessionRow /\ presence \in [Users -> PresenceRow]
  BY Rows DEF Inv
<1>2. /\ FinalizeSession
      /\ UNCHANGED <<tenMinutes, corrections, receipts, circleVars>>
      /\ request' \in [Users -> Levels \cup {"none"}]
  BY <1>1, HandleType DEF EndSession, MarkEnded, Refinalize, sessionVars, TypeOK
<1>3. /\ session' \in SessionRow /\ session'.status = "ended"
      /\ presence' \in [Users -> PresenceRow]
      /\ \A u \in Users : presence'[u].joined = presence[u].joined
      /\ Present' = {}
  <2>1. CASE Refinalize
    BY <1>1, <2>1 DEF Refinalize, sessionVars, Inv, Seating, Present
  <2>2. CASE \E u \in Users : EndSession(u)
    <3>1. /\ session' = [session EXCEPT !.status = "ended"]
          /\ presence' = [v \in Users |-> IF v \in Present
                                          THEN [presence[v] EXCEPT !.row = "away", !.hand = FALSE]
                                          ELSE presence[v]]
      BY <2>2 DEF EndSession, MarkEnded
    <3>2. session' \in SessionRow /\ session'.status = "ended"
      BY <1>1, <3>1 DEF SessionRow
    <3>3. /\ presence' \in [Users -> PresenceRow]
          /\ \A u \in Users : presence'[u].joined = presence[u].joined
          /\ \A u \in Users : presence'[u].row # "present"
      BY <1>1, <3>1 DEF PresenceRow, Present
    <3> QED BY <3>2, <3>3 DEF Present
  <2> QED BY <2>1, <2>2
<1>4. /\ roster' \in [Users -> RosterRow]
      /\ \A u \in Users : roster'[u].first # "never" => roster'[u].first = presence'[u].joined
      /\ \A u \in Users : roster'[u].listed =>
            roster'[u].effective = IF CorrectionsOf(u) = {} THEN Classify(presence'[u].joined)
                                   ELSE LatestCorrection(u)
  BY <1>2, <1>3, FinalizeEffect
<1>5. TypeOK'
  BY <1>1, <1>2, <1>3, <1>4, TypeFrame
<1>6. Seating' /\ DeletedNotPresent'
  BY <1>3 DEF Seating, DeletedNotPresent
<1>7. History'
  BY <1>2, <1>3, <1>4 DEF Inv, History, CorrectionsOf
<1>8. CorrectionWins'
  <2>1. \A u \in Users : CorrectionsOf(u)' = CorrectionsOf(u) /\ LatestCorrection(u)' = LatestCorrection(u)
    BY <1>2, SameCorrections
  <2> QED BY <1>4, <2>1 DEF CorrectionWins
<1> QED BY <1>5, <1>6, <1>7, <1>8 DEF Inv

\* RemoveParticipant gives the seat of somebody inside back; a raised hand
\* takes none.
LEMMA ModerationKeeps ==
  ASSUME Inv, NEW u \in Users,
         (\E v \in Users : RemoveParticipant(u, v)) \/ (\E b \in BOOLEAN : SetHand(u, b))
  PROVE  Inv'
<1>1. TypeOK /\ session \in SessionRow /\ presence \in [Users -> PresenceRow]
  BY Rows DEF Inv
<1>2. /\ UNCHANGED <<tenMinutes, attendanceVars, circleVars>>
      /\ request' \in [Users -> Levels \cup {"none"}]
  BY <1>1, HandleType DEF RemoveParticipant, SetHand
<1>3. /\ session' \in SessionRow /\ session'.status = session.status
      /\ presence' \in [Users -> PresenceRow]
      /\ \A w \in Users : presence'[w].joined = presence[w].joined
      /\ Present' \subseteq Present
      /\ Seating'
  <2>1. CASE session' = session /\ presence' = presence
    BY <1>1, <2>1 DEF Inv, Seating, Present
  <2>2. ASSUME NEW v \in Users, presence[v].row # "removed",
               presence' = [presence EXCEPT ![v].row = "removed", ![v].hand = FALSE],
               session' = [session EXCEPT !.count = @ - SeatsGivenBack(v)]
        PROVE  /\ session' \in SessionRow /\ session'.status = session.status
               /\ presence' \in [Users -> PresenceRow]
               /\ \A w \in Users : presence'[w].joined = presence[w].joined
               /\ Present' \subseteq Present
               /\ Seating'
    <3>1. /\ presence' \in [Users -> PresenceRow]
          /\ \A w \in Users : presence'[w].joined = presence[w].joined
          /\ presence'[v].row = "removed"
          /\ \A w \in Users \ {v} : presence'[w] = presence[w]
      BY <1>1, <2>2 DEF PresenceRow
    <3>2. Present' = Present \ {v}
      BY <3>1 DEF Present
    <3>3. CASE v \notin Present
      <4>1. session' = session
        BY <1>1, <2>2, <3>3 DEF SeatsGivenBack, SessionRow
      <4>2. Present' = Present
        BY <3>2, <3>3
      <4> QED BY <1>1, <3>1, <4>1, <4>2 DEF Inv, Seating
    <3>4. CASE v \in Present
      <4>1. session.status = "active" /\ session.count = Cardinality(Present)
        BY <3>4 DEF Inv, Seating
      <4>2. Cardinality(Present') = Cardinality(Present) - 1 /\ Cardinality(Present') \in Nat
        BY <3>2, <3>4, PresentFinite, FS_RemoveElement, FS_CardinalityType
      <4>3. session.count - 1 \in 0..MaxParticipants
        <5>1. session.count \in 0..MaxParticipants /\ MaxParticipants \in Nat
          BY <1>1, LiveSessionConstants DEF SessionRow
        <5> QED BY <4>1, <4>2, <5>1
      <4>4. /\ session' = [session EXCEPT !.count = session.count - 1]
            /\ session.locked \in BOOLEAN
        BY <1>1, <2>2, <3>4 DEF SeatsGivenBack, SessionRow
      <4>5. session' \in SessionRow /\ session'.status = "active" /\ session'.count = session.count - 1
        BY <1>1, <4>1, <4>3, <4>4 DEF SessionRow
      <4> QED BY <3>1, <3>2, <4>1, <4>2, <4>5 DEF Seating
    <3> QED BY <3>3, <3>4
  <2>3. ASSUME NEW b \in BOOLEAN, presence' = [presence EXCEPT ![u].hand = b], session' = session
        PROVE  /\ presence' \in [Users -> PresenceRow]
               /\ \A w \in Users : presence'[w].joined = presence[w].joined
               /\ Present' = Present
               /\ Seating'
    <3>1. /\ presence' \in [Users -> PresenceRow]
          /\ \A w \in Users : presence'[w].joined = presence[w].joined /\ presence'[w].row = presence[w].row
      BY <1>1, <2>3 DEF PresenceRow
    <3>2. Present' = Present
      BY <3>1 DEF Present
    <3> QED BY <2>3, <3>1, <3>2 DEF Inv, Seating
  <2>4. CASE \E v \in Users : RemoveParticipant(u, v)
    BY <2>1, <2>2, <2>4 DEF RemoveParticipant, ApplyRemoval
  <2>5. CASE \E b \in BOOLEAN : SetHand(u, b)
    BY <1>1, <2>3, <2>5 DEF SetHand
  <2> QED BY <2>4, <2>5
<1>4. TypeOK'
  BY <1>1, <1>2, <1>3, Rows, TypeFrame DEF attendanceVars
<1>5. DeletedNotPresent'
  BY <1>2, <1>3 DEF Inv, DeletedNotPresent, circleVars
<1>6. \A w \in Users : CorrectionsOf(w)' = CorrectionsOf(w) /\ LatestCorrection(w)' = LatestCorrection(w)
  BY <1>2, SameCorrections DEF attendanceVars
<1>7. History' /\ CorrectionWins'
  BY <1>2, <1>3, <1>6 DEF Inv, History, CorrectionWins, attendanceVars
<1> QED BY <1>3, <1>4, <1>5, <1>7 DEF Inv

\* CorrectAttendance: the new correction is the youngest of its student, and
\* the history of every other student stays what it was.
LEMMA CorrectKeeps ==
  ASSUME Inv, NEW u \in Users, NEW v \in Users, NEW s \in Corrections, NEW k \in Keys,
         CorrectAttendance(u, v, s, k)
  PROVE  Inv'
<1> DEFINE R == [user : Users, status : Statuses, key : Keys]
           c == [user |-> v, status |-> s, key |-> k]
           n == Len(corrections)
<1>1. TypeOK /\ roster \in [Users -> RosterRow] /\ corrections \in Seq(R) /\ receipts \in [Keys -> Nat]
  BY Rows DEF Inv, TypeOK
<1>2. s \in Statuses
  BY LiveSessionConstants
<1>3. /\ corrections' = Append(corrections, c)
      /\ receipts' = [receipts EXCEPT ![k] = n + 1]
      /\ roster' = [roster EXCEPT ![v].effective = s]
      /\ session.status = "ended"
      /\ UNCHANGED <<sessionVars, circleVars, request>>
  BY DEF CorrectAttendance, AppendCorrection
<1>4. n \in Nat /\ c \in R
  BY <1>1, <1>2
<1>5. /\ corrections' \in Seq(R)
      /\ DOMAIN corrections = 1..n
      /\ DOMAIN corrections' = 1..(n + 1)
      /\ \A i \in 1..n : corrections'[i] = corrections[i]
      /\ corrections'[n + 1] = c
  BY <1>1, <1>3, <1>4
<1>6. /\ roster' \in [Users -> RosterRow]
      /\ roster'[v].effective = s
      /\ \A w \in Users : roster'[w].first = roster[w].first /\ roster'[w].listed = roster[w].listed
      /\ \A w \in Users \ {v} : roster'[w] = roster[w]
  BY <1>1, <1>2, <1>3 DEF RosterRow
<1>7. TypeOK'
  <2>1. receipts' \in [Keys -> Nat]
    BY <1>1, <1>3, <1>4
  <2> QED BY <1>1, <1>3, <1>5, <1>6, <2>1 DEF TypeOK, RosterRow, sessionVars, circleVars
<1>8. Seating' /\ DeletedNotPresent'
  BY <1>3 DEF Inv, Seating, DeletedNotPresent, Present, sessionVars, circleVars
<1>9. \A w \in Users \ {v} : CorrectionsOf(w)' = CorrectionsOf(w)
  BY <1>4, <1>5 DEF CorrectionsOf
<1>10. n + 1 \in CorrectionsOf(v)' /\ \A j \in CorrectionsOf(v)' : j <= n + 1
  BY <1>4, <1>5 DEF CorrectionsOf
<1>11. History'
  <2>1. ASSUME NEW w \in Users, CorrectionsOf(w)' # {}
        PROVE  \E i \in CorrectionsOf(w)' : \A j \in CorrectionsOf(w)' : j <= i
    BY <1>9, <1>10, <2>1 DEF Inv, History
  <2>2. \A w \in Users : roster'[w].first # "never" => roster'[w].first = presence'[w].joined
    BY <1>3, <1>6 DEF Inv, History, sessionVars
  <2> QED BY <1>3, <2>1, <2>2 DEF History, sessionVars
<1>12. LatestCorrection(v)' = s
  <2>1. LatestCorrection(v)' = corrections'[n + 1].status
    <3>1. CorrectionsOf(v)' \in SUBSET Nat
      BY <1>4, <1>5 DEF CorrectionsOf
    <3> QED BY <1>10, <3>1, GreatestIs DEF LatestCorrection
  <2> QED BY <1>5, <2>1
<1>13. ASSUME NEW w \in Users \ {v}, CorrectionsOf(w) # {}
       PROVE  LatestCorrection(w)' = LatestCorrection(w)
  <2>1. PICK i \in CorrectionsOf(w) : \A j \in CorrectionsOf(w) : j <= i
    BY <1>13 DEF Inv, History
  <2>2. LatestCorrection(w) = corrections[i].status
    BY <1>1, <2>1, LatestIs
  <2>3. LatestCorrection(w)' = corrections'[i].status
    <3>1. CorrectionsOf(w)' \in SUBSET Nat
      BY <1>4, <1>5 DEF CorrectionsOf
    <3> QED BY <1>9, <2>1, <3>1, GreatestIs DEF LatestCorrection
  <2>4. corrections'[i] = corrections[i]
    BY <1>5, <2>1 DEF CorrectionsOf
  <2> QED BY <2>2, <2>3, <2>4
<1>14. CorrectionWins'
  <2> SUFFICES ASSUME NEW w \in Users, roster'[w].listed
               PROVE  roster'[w].effective = IF CorrectionsOf(w)' = {} THEN Classify(presence'[w].joined)
                                             ELSE LatestCorrection(w)'
    BY DEF CorrectionWins
  <2>1. CASE w = v
    BY <1>6, <1>10, <1>12, <2>1
  <2>2. CASE w # v
    <3>1. roster[w].listed /\ roster'[w] = roster[w] /\ presence' = presence
      BY <1>3, <1>6, <2>2 DEF sessionVars
    <3>2. roster[w].effective = IF CorrectionsOf(w) = {} THEN Classify(presence[w].joined)
                                ELSE LatestCorrection(w)
      BY <1>3, <3>1 DEF Inv, CorrectionWins
    <3> QED BY <1>9, <1>13, <2>2, <3>1, <3>2
  <2> QED BY <2>1, <2>2
<1> QED BY <1>7, <1>8, <1>11, <1>14 DEF Inv

-----------------------------------------------------------------------------
(* The theorems about states                                               *)

LEMMA InvNext ==
  ASSUME Inv, [Next]_vars
  PROVE  Inv'
<1>1. CASE UNCHANGED vars
  <2>1. TypeOK' /\ Seating' /\ DeletedNotPresent'
    BY <1>1 DEF Inv, TypeOK, Seating, DeletedNotPresent, Present, vars, sessionVars,
                attendanceVars, circleVars
  <2>2. \A u \in Users : CorrectionsOf(u)' = CorrectionsOf(u) /\ LatestCorrection(u)' = LatestCorrection(u)
    BY <1>1, SameCorrections DEF vars, attendanceVars
  <2>3. History' /\ CorrectionWins'
    BY <1>1, <2>2 DEF Inv, History, CorrectionWins, vars, sessionVars, attendanceVars
  <2> QED BY <2>1, <2>3 DEF Inv
<1>2. CASE Next
  <2>1. CASE \/ \E u \in Users, level \in Levels : Request(u, level)
             \/ TimePasses \/ ArchiveCircle
             \/ \E u \in Users, r \in Roles : ChangeRole(u, r)
             \/ \E u \in Users : JoinCircle(u) \/ CloseAccount(u)
    BY <2>1, CircleKeeps, LiveSessionConstants
  <2>2. CASE \E u \in Users : StartSession(u) \/ JoinSession(u)
    BY <2>2, EnterKeeps
  <2>3. CASE \E u \in Users : CreateAdHocSession(u) \/ \E b \in BOOLEAN : SetLock(u, b)
    BY <2>3, RowKeeps
  <2>4. CASE (\E u \in Users : EndSession(u)) \/ Refinalize
    BY <2>4, EndKeeps
  <2>5. CASE \E u \in Users : \/ \E v \in Users : RemoveParticipant(u, v)
                              \/ \E b \in BOOLEAN : SetHand(u, b)
    BY <2>5, ModerationKeeps
  <2>6. CASE \E u, v \in Users, s \in Corrections, k \in Keys : CorrectAttendance(u, v, s, k)
    BY <2>6, CorrectKeeps
  <2> QED BY <1>2, <2>1, <2>2, <2>3, <2>4, <2>5, <2>6 DEF Next
<1> QED BY <1>1, <1>2

LEMMA InvAlways == Spec => []Inv
<1>1. Inv /\ [Next]_vars => Inv'
  BY InvNext
<1> QED BY InvInit, <1>1, PTL DEF Spec

\* The rows keep the types of the migrations, and participant_count its CHECK,
\* through every interleaving of requests with changes of the circle.
THEOREM LiveTypeCorrect == Spec => []TypeOK
<1>1. Inv => TypeOK
  BY DEF Inv
<1> QED BY InvAlways, <1>1, PTL

\* participant_count is the number of people inside whenever the session is
\* active, so the comparison of admitIfCapacity with maxParticipants is one
\* with the room itself, for any capacity and any number of joins and removals.
THEOREM SeatsCounted == Spec => []SeatsAreCounted
<1>1. Inv => SeatsAreCounted
  BY DEF Inv, Seating, SeatsAreCounted
<1> QED BY InvAlways, <1>1, PTL

\* CloseStudentAccount and admission exclude each other on the user row: no
\* closed account sits in an active session.
THEOREM ClosedStayOut == Spec => []DeletedNotPresent
<1>1. Inv => DeletedNotPresent
  BY DEF Inv
<1> QED BY InvAlways, <1>1, PTL

\* Whatever the order of corrections, and however often the reconciler
\* finalizes again, the effective attendance is the youngest correction.
THEOREM CorrectionsPrevail == Spec => []CorrectionWins
<1>1. Inv => CorrectionWins
  BY DEF Inv
<1> QED BY InvAlways, <1>1, PTL

-----------------------------------------------------------------------------
(* The session implements SessionLifecycle                                 *)

\* What the abstract session sees, as one tuple.
View == <<LifecycleState, session.locked, Present, Known, Barred, Entitled>>

LEMMA ViewIs == Lifecycle!vars = View
  BY DEF Lifecycle!vars, View

\* The two modules speak of the same cardinality.
LEMMA SameCardinality == \A S : Lifecycle!Cardinality(S) = Cardinality(S)
  BY DEF Lifecycle!Cardinality, Cardinality

LEMMA LifecycleInit == Init => Lifecycle!Init
  BY DEF Init, Lifecycle!Init, LifecycleState, Present, Known, Barred, Entitled, NoPresence

\* Steps that touch neither the session, nor a presence row, nor the circle.
LEMMA ViewSame ==
  ASSUME UNCHANGED <<session, presence, role, archived, deleted>>
  PROVE  UNCHANGED View
  BY DEF View, LifecycleState, Present, Known, Barred, Entitled

\* Somebody sits down: the seat is one the lifecycle would give.
LEMMA SeatStep ==
  ASSUME Inv, NEW u \in Users, NEW rows, u \notin Present, u \notin deleted,
         session.status \in {"scheduled", "active"},
         Admit(u, "active", rows), UNCHANGED circleVars
  PROVE  Lifecycle!Open(u) \/ Lifecycle!Enter(u)
<1>1. TypeOK /\ session \in SessionRow /\ presence \in [Users -> PresenceRow]
  BY Rows DEF Inv
<1>2. /\ AdmissionOpen(u) /\ StillMember(u) /\ AdmitPresence(u)
      /\ session' = [session EXCEPT !.status = "active", !.count = @ + 1]
  BY DEF Admit
<1>3. /\ presence'[u].row = "present"
      /\ \A v \in Users \ {u} : presence'[v] = presence[v]
      /\ Present' = Present \cup {u}
  BY <1>1, <1>2, AdmitEffect
<1>4. Known' = Known \cup {u} /\ Barred' = Barred /\ Entitled' = Entitled
  BY <1>2, <1>3 DEF Known, Barred, Entitled, AdmissionOpen, circleVars
<1>5. session'.locked = session.locked /\ session'.status = "active"
  BY <1>1, <1>2 DEF SessionRow
<1>6. Cardinality(Present) < MaxParticipants
  BY <1>2, FS_EmptySet DEF Inv, Seating, AdmissionOpen
<1>7. u \in Entitled \ (Barred \cup Present) /\ (session.locked => u \in Known)
  BY <1>2 DEF Entitled, Barred, Known, AdmissionOpen, StillMember
<1>8. Lifecycle!Seat(u)
  BY <1>3, <1>4, <1>6, <1>7, SameCardinality DEF Lifecycle!Seat, Lifecycle!MayEnter
<1>9. LifecycleState' = "open"
  BY <1>5 DEF LifecycleState
<1>10. CASE session.status = "scheduled"
  BY <1>4, <1>5, <1>8, <1>9, <1>10 DEF Lifecycle!Open, LifecycleState
<1>11. CASE session.status = "active"
  BY <1>4, <1>5, <1>8, <1>9, <1>11 DEF Lifecycle!Enter, LifecycleState
<1> QED BY <1>10, <1>11

\* StartSession and JoinSession: a seat is taken, or its holder comes again.
LEMMA EnterStep ==
  ASSUME Inv, NEW u \in Users, StartSession(u) \/ JoinSession(u)
  PROVE  Lifecycle!Open(u) \/ Lifecycle!Enter(u) \/ UNCHANGED View
<1>1. PICK rows :
         /\ u \notin deleted
         /\ session.status \in {"scheduled", "active"}
         /\ Admit(u, "active", rows)
         /\ UNCHANGED circleVars
  BY DEF StartSession, JoinSession, StartSessionWithConnection, JoinSessionWithConnection,
         AccountActive
<1>2. CASE u \notin Present
  BY <1>1, <1>2, SeatStep
<1>3. CASE u \in Present
  <2>1. session \in SessionRow /\ session.status = "active"
    BY <1>3, Rows DEF Inv, Seating
  <2>2. session' = [session EXCEPT !.status = "active"] /\ presence' = presence
    BY <1>1, <1>3 DEF Admit
  <2>3. session' = session
    BY <2>1, <2>2 DEF SessionRow
  <2> QED BY <1>1, <2>2, <2>3, ViewSame DEF circleVars
<1> QED BY <1>2, <1>3

\* CreateAdHocSession, SetLock and EndSession.
LEMMA RowStep ==
  ASSUME Inv, NEW u \in Users,
         CreateAdHocSession(u) \/ (\E b \in BOOLEAN : SetLock(u, b)) \/ EndSession(u)
  PROVE  Lifecycle!Announce \/ Lifecycle!TurnLock \/ Lifecycle!Close \/ UNCHANGED View
<1>1. session \in SessionRow /\ presence \in [Users -> PresenceRow]
  BY Rows DEF Inv
<1>2. CASE CreateAdHocSession(u)
  <2>1. /\ session.status = "none" /\ session'.status = "scheduled" /\ session'.locked = session.locked
        /\ UNCHANGED <<presence, circleVars>>
    BY <1>1, <1>2 DEF CreateAdHocSession, SessionRow
  <2>2. UNCHANGED <<Present, Known, Barred, Entitled>>
    BY <2>1 DEF Present, Known, Barred, Entitled, circleVars
  <2> QED BY <2>1, <2>2 DEF Lifecycle!Announce, LifecycleState
<1>3. ASSUME NEW b \in BOOLEAN, SetLock(u, b)
      PROVE  Lifecycle!TurnLock \/ UNCHANGED View
  <2>1. /\ session.status = "active" /\ session'.status = "active" /\ session'.locked = b
        /\ UNCHANGED <<presence, circleVars>>
    BY <1>1, <1>3 DEF SetLock, SessionRow
  <2>2. UNCHANGED <<LifecycleState, Present, Known, Barred, Entitled>>
    BY <2>1 DEF LifecycleState, Present, Known, Barred, Entitled, circleVars
  <2>3. session.locked \in BOOLEAN
    BY <1>1 DEF SessionRow
  <2>4. LifecycleState = "open"
    BY <2>1 DEF LifecycleState
  <2>5. session'.locked = session.locked \/ session'.locked = ~session.locked
    BY <2>1, <2>3
  <2> QED BY <2>2, <2>4, <2>5 DEF Lifecycle!TurnLock, View
<1>4. CASE EndSession(u)
  <2>1. /\ session.status = "active" /\ session'.status = "ended" /\ session'.locked = session.locked
        /\ UNCHANGED circleVars
        /\ presence' = [v \in Users |-> IF v \in Present
                                        THEN [presence[v] EXCEPT !.row = "away", !.hand = FALSE]
                                        ELSE presence[v]]
    BY <1>1, <1>4 DEF EndSession, MarkEnded, SessionRow
  <2>2. \A v \in Users : presence'[v].row = IF v \in Present THEN "away" ELSE presence[v].row
    BY <1>1, <2>1 DEF PresenceRow
  <2>3. Present' = {} /\ Known' = Known /\ Barred' = Barred
    BY <2>2 DEF Present, Known, Barred
  <2>4. Entitled' = Entitled
    BY <2>1 DEF Entitled, circleVars
  <2> QED BY <2>1, <2>3, <2>4 DEF Lifecycle!Close, LifecycleState
<1> QED BY <1>2, <1>3, <1>4

\* RemoveParticipant bars; a raised hand is not seen.
LEMMA ModerationStep ==
  ASSUME Inv, NEW u \in Users,
         (\E v \in Users : RemoveParticipant(u, v)) \/ (\E b \in BOOLEAN : SetHand(u, b))
  PROVE  (\E v \in Users : Lifecycle!Bar(v)) \/ UNCHANGED View
<1>1. session \in SessionRow /\ presence \in [Users -> PresenceRow]
  BY Rows DEF Inv
<1>2. ASSUME NEW v \in Users, RemoveParticipant(u, v)
      PROVE  Lifecycle!Bar(v) \/ UNCHANGED View
  <2>1. UNCHANGED circleVars /\ presence[v].row # "none"
    BY <1>2 DEF RemoveParticipant, ApplyRemoval
  <2>2. CASE presence[v].row = "removed"
    BY <1>2, <2>1, <2>2, ViewSame DEF RemoveParticipant, ApplyRemoval, circleVars
  <2>3. CASE presence[v].row # "removed"
    <3>1. /\ presence' = [presence EXCEPT ![v].row = "removed", ![v].hand = FALSE]
          /\ session'.status = session.status /\ session'.locked = session.locked
      BY <1>1, <1>2, <2>3 DEF RemoveParticipant, ApplyRemoval, SessionRow
    <3>2. presence'[v].row = "removed" /\ \A w \in Users \ {v} : presence'[w] = presence[w]
      BY <1>1, <3>1 DEF PresenceRow
    <3>3. /\ v \in Known /\ Known' = Known
          /\ Barred' = Barred \cup {v} /\ Present' = Present \ {v}
      BY <2>1, <3>2 DEF Present, Known, Barred
    <3>4. LifecycleState' = LifecycleState /\ Entitled' = Entitled
      BY <2>1, <3>1 DEF Entitled, LifecycleState, circleVars
    <3> QED BY <3>1, <3>3, <3>4 DEF Lifecycle!Bar
  <2> QED BY <2>2, <2>3
<1>3. ASSUME NEW b \in BOOLEAN, SetHand(u, b)
      PROVE  UNCHANGED View
  <2>1. /\ UNCHANGED <<session, circleVars>>
        /\ \A v \in Users : presence'[v].row = presence[v].row
    BY <1>1, <1>3 DEF SetHand, PresenceRow
  <2> QED BY <2>1 DEF View, LifecycleState, Present, Known, Barred, Entitled, circleVars
<1> QED BY <1>2, <1>3

\* The circle around the session.
LEMMA EntitleStep ==
  ASSUME Change
  PROVE  Lifecycle!Entitle
<1>1. UNCHANGED <<session, presence>>
  BY DEF Change, sessionVars
<1>2. UNCHANGED <<LifecycleState, session.locked, Present, Known, Barred>>
  BY <1>1 DEF LifecycleState, Present, Known, Barred
<1>3. Entitled' \in SUBSET Users
  BY DEF Entitled
<1> QED BY <1>2, <1>3 DEF Lifecycle!Entitle

LEMMA LifecycleNext ==
  ASSUME Inv, [Next]_vars
  PROVE  [Lifecycle!Next]_(Lifecycle!vars)
<1> SUFFICES Lifecycle!Next \/ UNCHANGED View
  BY ViewIs DEF View, Lifecycle!vars
<1>1. CASE UNCHANGED vars
  BY <1>1, ViewSame DEF vars, sessionVars, circleVars
<1>2. CASE \/ \E u \in Users, level \in Levels : Request(u, level)
           \/ TimePasses \/ Refinalize
           \/ \E u, v \in Users, s \in Corrections, k \in Keys : CorrectAttendance(u, v, s, k)
  BY <1>2, ViewSame DEF Request, TimePasses, Refinalize, CorrectAttendance, sessionVars, circleVars
<1>3. CASE \/ \E u \in Users, r \in Roles : ChangeRole(u, r)
           \/ ArchiveCircle
           \/ \E u \in Users : JoinCircle(u) \/ CloseAccount(u)
  BY <1>3, EntitleStep DEF ChangeRole, ArchiveCircle, JoinCircle, CloseAccount, Lifecycle!Next
<1>4. CASE \E u \in Users : StartSession(u) \/ JoinSession(u)
  BY <1>4, EnterStep DEF Lifecycle!Next
<1>5. CASE \E u \in Users : \/ CreateAdHocSession(u) \/ EndSession(u)
                            \/ \E b \in BOOLEAN : SetLock(u, b)
  BY <1>5, RowStep DEF Lifecycle!Next
<1>6. CASE \E u \in Users : \/ \E v \in Users : RemoveParticipant(u, v)
                            \/ \E b \in BOOLEAN : SetHand(u, b)
  BY <1>6, ModerationStep DEF Lifecycle!Next
<1> QED BY <1>1, <1>2, <1>3, <1>4, <1>5, <1>6 DEF Next

\* The tables of a session behave like the small machine of SessionLifecycle:
\* a seat is given only to somebody who is a member with a live account at the
\* moment of admission, never past a removal, a lock or the capacity, although
\* the role was read in an earlier step (authorize, before the transaction).
THEOREM LifecycleImplemented == Spec => ImplementsLifecycle
<1>1. Init => Lifecycle!Init
  BY LifecycleInit
<1>2. Inv /\ [Next]_vars => [Lifecycle!Next]_(Lifecycle!vars)
  BY LifecycleNext
<1> QED BY InvAlways, <1>1, <1>2, PTL DEF Spec, ImplementsLifecycle, Lifecycle!Spec
=============================================================================
