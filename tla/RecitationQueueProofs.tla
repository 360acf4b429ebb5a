------------------------ MODULE RecitationQueueProofs ------------------------
(***************************************************************************)
(* Theorems about the recitation queue, for any number of students, rounds *)
(* and opt-out handlers and any bounds.                                    *)
(***************************************************************************)
EXTENDS RecitationQueue, FiniteSetTheorems, TLAPS

-----------------------------------------------------------------------------
(* The rows the helpers build are rows                                     *)

\* An order of distinct students is a sequence of students.
LEMMA PreorderType == \A q \in Preorders : q \in Seq(Students)
  BY DEF Preorders

LEMMA NewRoundType ==
  ASSUME NEW g \in BOOLEAN, NEW q \in Preorders
  PROVE  NewRound(g, q) \in RoundRow
  BY PreorderType DEF NewRound, RoundRow, Lifecycles

LEMMA NoRowsType == NoRound \in RoundRow /\ NoEntry \in EntryRow
  BY DEF NoRound, NoEntry, RoundRow, EntryRow, Lifecycles, EntryStatuses

LEMMA InsertType ==
  ASSUME NEW p \in Nat PROVE InsertQueueEntry(p) \in EntryRow
  BY DEF InsertQueueEntry, EntryRow, EntryStatuses

\* Activation keeps the tables well typed, whatever the transaction wrote
\* into them before.
LEMMA ActivateLowestType ==
  ASSUME joined \in [Students -> JoinTimes],
         members \subseteq Students,
         NEW rs \in [RoundIds -> RoundRow],
         NEW es \in [RoundIds -> [Students -> EntryRow]],
         NEW ds \in [RoundIds -> Seq(Nat)],
         ActivateLowest(rs, es, ds)
  PROVE  /\ round' \in [RoundIds -> RoundRow]
         /\ entry' \in [RoundIds -> [Students -> EntryRow]]
         /\ deltas' \in [RoundIds -> Seq(Nat)]
         /\ joined' \in [Students -> JoinTimes]
<1> DEFINE Typed == /\ round' \in [RoundIds -> RoundRow]
                    /\ entry' \in [RoundIds -> [Students -> EntryRow]]
                    /\ deltas' \in [RoundIds -> Seq(Nat)]
                    /\ joined' \in [Students -> JoinTimes]
           Populated(r, position) ==
              [es EXCEPT ![r] = [s \in Students |->
                  IF s \in Eligible THEN InsertQueueEntry(position[s]) ELSE NoEntry]]
<1>1. CASE round' = rs /\ entry' = es /\ deltas' = ds /\ UNCHANGED joined
  BY <1>1
<1>2. ASSUME NEW r \in RoundIds,
             NEW position \in PopulationOrders(rs[r].preorder),
             entry' = Populated(r, position),
             round' = [rs EXCEPT ![r].lifecycle = "active",
                                 ![r].version = rs[r].version + 1],
             deltas' = [ds EXCEPT ![r] = Append(@, rs[r].version + 1)],
             RestampJoins
      PROVE  Typed
  <2>1. rs[r] \in RoundRow /\ rs[r].version + 1 \in Nat
    BY DEF RoundRow
  <2>2. round' \in [RoundIds -> RoundRow]
    BY <1>2, <2>1 DEF RoundRow, Lifecycles
  <2>3. \A s \in Eligible : position[s] \in Nat
    <3>1. IsFiniteSet(Eligible)
      BY FS_Subset, QueueConstants DEF Eligible
    <3>2. Cardinality(Eligible) \in Nat
      BY <3>1, FS_CardinalityType
    <3>3. position \in [Eligible -> 1 .. Cardinality(Eligible)]
      BY Zenon DEF PopulationOrders
    <3> QED BY <3>2, <3>3
  <2>4. entry' \in [RoundIds -> [Students -> EntryRow]]
    BY <1>2, <2>3, NoRowsType, InsertType
  <2>5. deltas' \in [RoundIds -> Seq(Nat)]
    BY <1>2, <2>1
  <2>6. joined' \in [Students -> JoinTimes]
    BY <1>2 DEF RestampJoins, Newcomers, JoinTimes
  <2> QED BY <1>2, <2>2, <2>4, <2>5, <2>6
<1>3. ASSUME ActiveRounds(rs) = {},
             \E r \in RoundIds :
               /\ \E position \in PopulationOrders(rs[r].preorder) :
                     entry' = Populated(r, position)
               /\ round' = [rs EXCEPT ![r].lifecycle = "active",
                                      ![r].version = rs[r].version + 1]
               /\ deltas' = [ds EXCEPT ![r] = Append(@, rs[r].version + 1)],
             RestampJoins
      PROVE  Typed
  <2>1. PICK r \in RoundIds :
               /\ \E position \in PopulationOrders(rs[r].preorder) :
                     entry' = Populated(r, position)
               /\ round' = [rs EXCEPT ![r].lifecycle = "active",
                                      ![r].version = rs[r].version + 1]
               /\ deltas' = [ds EXCEPT ![r] = Append(@, rs[r].version + 1)]
    BY <1>3
  <2>2. PICK position \in PopulationOrders(rs[r].preorder) : entry' = Populated(r, position)
    BY <2>1
  <2> HIDE DEF Populated, Typed
  <2> QED BY <2>1, <2>2, <1>2, <1>3
<1> QED BY <1>1, <1>3, Zenon DEF ActivateLowest

\* The tables of the queue, without the rest of TypeOK.
LEMMA Tables ==
  ASSUME TypeOK
  PROVE  /\ round \in [RoundIds -> RoundRow]
         /\ entry \in [RoundIds -> [Students -> EntryRow]]
         /\ deltas \in [RoundIds -> Seq(Nat)]
  BY DEF TypeOK

LEMMA RoundRowOf ==
  ASSUME TypeOK, NEW r \in RoundIds
  PROVE  round[r] \in RoundRow /\ round[r].version + 1 \in Nat
<1>1. round[r] \in RoundRow
  BY Tables
<1> QED BY <1>1 DEF RoundRow

LEMMA EntryRowOf ==
  ASSUME TypeOK, NEW r \in RoundIds, NEW s \in Students
  PROVE  /\ entry[r] \in [Students -> EntryRow]
         /\ entry[r][s] \in EntryRow
         /\ entry[r][s].version + 1 \in Nat
<1>1. entry[r] \in [Students -> EntryRow] /\ entry[r][s] \in EntryRow
  BY Tables
<1> QED BY <1>1 DEF EntryRow

LEMMA FinalizedType ==
  ASSUME TypeOK, NEW r \in RoundIds
  PROVE  /\ FinalizedRound(r) \in [RoundIds -> RoundRow]
         /\ MarkUnfinishedSkipped(r) \in [RoundIds -> [Students -> EntryRow]]
<1>1. FinalizedRound(r) \in [RoundIds -> RoundRow]
  BY RoundRowOf, Tables DEF FinalizedRound, RoundRow, Lifecycles
<1>2. ASSUME NEW s \in Students
      PROVE  [entry[r][s] EXCEPT !.status = "skipped",
                                 !.version = entry[r][s].version + 1] \in EntryRow
  BY EntryRowOf DEF EntryRow, EntryStatuses
<1>3. MarkUnfinishedSkipped(r) \in [RoundIds -> [Students -> EntryRow]]
  BY <1>2, EntryRowOf, Tables DEF MarkUnfinishedSkipped
<1> QED BY <1>1, <1>3

LEMMA AnnounceType ==
  ASSUME TypeOK, NEW r \in RoundIds, Announce(r)
  PROVE  deltas' \in [RoundIds -> Seq(Nat)]
  BY RoundRowOf, Tables DEF Announce

LEMMA BumpType ==
  ASSUME TypeOK, NEW r \in RoundIds, Bump(r)
  PROVE  round' \in [RoundIds -> RoundRow] /\ deltas' \in [RoundIds -> Seq(Nat)]
<1>1. round' \in [RoundIds -> RoundRow]
  BY RoundRowOf, Tables DEF Bump, RoundRow
<1> QED BY <1>1, AnnounceType DEF Bump

LEMMA ReleaseType ==
  ASSUME TypeOK, NEW r \in RoundIds, NEW s \in Students, Release(r, s)
  PROVE  round' \in [RoundIds -> RoundRow] /\ deltas' \in [RoundIds -> Seq(Nat)]
<1> DEFINE left == IF round[r].selected = s THEN Null ELSE round[r].selected
<1>1. left \in Students \cup {Null}
  BY RoundRowOf DEF RoundRow
<1>2. round' = [round EXCEPT ![r].selected = left, ![r].version = round[r].version + 1]
  BY DEF Release
<1> HIDE DEF left
<1>3. round' \in [RoundIds -> RoundRow]
  BY <1>1, <1>2, RoundRowOf, Tables DEF RoundRow
<1> QED BY <1>3, AnnounceType DEF Release

LEMMA TransitionType ==
  ASSUME TypeOK, NEW r \in RoundIds, NEW s \in Students,
         NEW to \in EntryStatuses, NEW g \in Grades \cup {Null},
         TransitionEntry(r, s, to, g)
  PROVE  entry' \in [RoundIds -> [Students -> EntryRow]]
<1>1. [entry[r][s] EXCEPT !.status = to, !.grade = g,
                          !.version = entry[r][s].version + 1] \in EntryRow
  BY EntryRowOf DEF EntryRow
<1>2. entry' = [entry EXCEPT ![r][s].status = to, ![r][s].grade = g,
                             ![r][s].version = entry[r][s].version + 1]
  BY DEF TransitionEntry
<1>3. PICK f \in EntryRow :
         f = [entry[r][s] EXCEPT !.status = to, !.grade = g, !.version = entry[r][s].version + 1]
  BY <1>1
<1>4. entry' = [entry EXCEPT ![r] = [entry[r] EXCEPT ![s] = f]]
  BY <1>2, <1>3, EntryRowOf, Tables
<1> QED BY <1>3, <1>4, EntryRowOf, Tables

LEMMA RepositionType ==
  ASSUME TypeOK, NEW r \in RoundIds, NEW s \in Students, NEW to \in Nat \ {0}
  PROVE  Reposition(r, s, to) \in [RoundIds -> [Students -> EntryRow]]
<1>1. \A p, from \in Nat : ShiftedPosition(p, from, to) \in Nat
  BY DEF ShiftedPosition
<1>2. entry[r][s].position \in Nat
  BY EntryRowOf DEF EntryRow
<1>3. ASSUME NEW t \in Students
      PROVE  [entry[r][t] EXCEPT
                !.position = ShiftedPosition(entry[r][t].position, entry[r][s].position, to),
                !.version = entry[r][t].version + 1] \in EntryRow
  <2>1. entry[r][t].position \in Nat
    BY EntryRowOf DEF EntryRow
  <2>2. ShiftedPosition(entry[r][t].position, entry[r][s].position, to) \in Nat
    BY <1>1, <1>2, <2>1
  <2> QED BY <2>2, EntryRowOf DEF EntryRow
<1> QED BY <1>3, EntryRowOf, Tables DEF Reposition

-----------------------------------------------------------------------------
(* Type correctness                                                        *)

LEMMA TypeInit == Init => TypeOK
<1> SUFFICES ASSUME Init PROVE TypeOK
  OBVIOUS
<1>1. call \in [Calls -> CallState]
  BY DEF Init, Idle, CallState
<1>2. requests \in [RoundIds -> [Students -> Seq(RequestStatuses)]]
  BY DEF Init
<1>3. deltas \in [RoundIds -> Seq(Nat)]
  BY DEF Init
<1>4. round \in [RoundIds -> RoundRow] /\ entry \in [RoundIds -> [Students -> EntryRow]]
  BY NoRowsType DEF Init
<1>5. progress \in [RoundIds -> [Students -> [row : BOOLEAN, grade : Grades \cup {Null}]]]
  BY DEF Init
<1>6. notices \in [RoundIds -> SUBSET ({"policy_changed", "opt_out_requested"} \X Nat)]
  BY DEF Init
<1>7. joined \in [Students -> JoinTimes]
  BY DEF Init, JoinTimes
<1> QED BY <1>1, <1>2, <1>3, <1>4, <1>5, <1>6, <1>7, QueueConstants DEF Init, TypeOK

LEMMA TypeSession ==
  ASSUME TypeOK, SessionNext
  PROVE  TypeOK'
<1>1. CASE StartSession
  BY <1>1 DEF TypeOK, StartSession
<1>2. CASE EndSession
  BY <1>2 DEF TypeOK, EndSession
<1>3. ASSUME NEW s \in Students, JoinSession(s) PROVE TypeOK'
  BY <1>3 DEF TypeOK, JoinSession
<1>4. ASSUME NEW s \in Students, RemoveParticipant(s) PROVE TypeOK'
  BY <1>4 DEF TypeOK, RemoveParticipant
<1>5. ASSUME NEW s \in Students, JoinCircle(s) PROVE TypeOK'
  BY <1>5 DEF TypeOK, JoinCircle, JoinTimes
<1>6. ASSUME NEW s \in Students, AssignRole(s) PROVE TypeOK'
  BY <1>6 DEF TypeOK, AssignRole
<1>7. ASSUME NEW s \in Students, RemoveMember(s) PROVE TypeOK'
  BY <1>7 DEF TypeOK, RemoveMember, JoinTimes
<1>8. ASSUME NEW p \in Policies, NEW v \in 1 .. MaxPolicyVersion, UpdatePolicy(p, v)
      PROVE  TypeOK'
  <2>1. policyVersion' \in Nat /\ policy' \in PolicyValue
    BY <1>8, QueueConstants DEF TypeOK, UpdatePolicy
  <2>2. notices' \in [RoundIds -> SUBSET ({"policy_changed", "opt_out_requested"} \X Nat)]
    BY <1>8, <2>1 DEF TypeOK, UpdatePolicy
  <2> QED BY <1>8, <2>1, <2>2 DEF TypeOK, UpdatePolicy
<1> QED BY <1>1, <1>2, <1>3, <1>4, <1>5, <1>6, <1>7, <1>8 DEF SessionNext

\* A step that rewrites only the four tables of an activation keeps TypeOK if
\* it keeps theirs.
LEMMA TypeFrame ==
  ASSUME TypeOK,
         round' \in [RoundIds -> RoundRow],
         entry' \in [RoundIds -> [Students -> EntryRow]],
         deltas' \in [RoundIds -> Seq(Nat)],
         joined' \in [Students -> JoinTimes],
         joinNotices' \subseteq Students,
         startNotice' \in BOOLEAN,
         resetting' \in BOOLEAN,
         UNCHANGED <<sessionVars, progress, requests, call, notices>>
  PROVE  TypeOK'
  BY DEF TypeOK, sessionVars

LEMMA TypeRound ==
  ASSUME TypeOK, RoundNext
  PROVE  TypeOK'
<1>0. /\ joined \in [Students -> JoinTimes] /\ members \subseteq Students
      /\ joinNotices \subseteq Students
      /\ startNotice \in BOOLEAN /\ resetting \in BOOLEAN
  BY DEF TypeOK
<1>1. ASSUME NEW g \in BOOLEAN, NEW q \in Preorders, Prepare(g, q)
      PROVE  TypeOK'
  <2>1. PICK n \in RoundIds :
           LET created == [round EXCEPT ![n] = NewRound(g, q)]
           IN  \/ /\ round' = created
                  /\ UNCHANGED <<entry, deltas, joined>>
               \/ ActivateLowest(created, entry, deltas)
    BY <1>1 DEF Prepare
  <2>2. [round EXCEPT ![n] = NewRound(g, q)] \in [RoundIds -> RoundRow]
    BY NewRoundType, Tables
  <2>3. /\ round' \in [RoundIds -> RoundRow]
        /\ entry' \in [RoundIds -> [Students -> EntryRow]]
        /\ deltas' \in [RoundIds -> Seq(Nat)]
        /\ joined' \in [Students -> JoinTimes]
    BY <1>0, <2>1, <2>2, Tables, ActivateLowestType
  <2> QED BY <1>0, <1>1, <2>3, TypeFrame DEF Prepare
<1>2. CASE OnSessionStarted
  <2>1. /\ round' \in [RoundIds -> RoundRow]
        /\ entry' \in [RoundIds -> [Students -> EntryRow]]
        /\ deltas' \in [RoundIds -> Seq(Nat)]
        /\ joined' \in [Students -> JoinTimes]
    BY <1>0, <1>2, Tables, ActivateLowestType DEF OnSessionStarted
  <2> QED BY <1>0, <1>2, <2>1, TypeFrame DEF OnSessionStarted
<1>3. ASSUME NEW r \in RoundIds, NEW v \in Versions, NEW q \in Preorders, Reorder(r, v, q)
      PROVE  TypeOK'
  <2>1. round' \in [RoundIds -> RoundRow]
    BY <1>3, PreorderType, RoundRowOf, Tables DEF Reorder, RoundRow
  <2>2. deltas' \in [RoundIds -> Seq(Nat)]
    BY <1>3, AnnounceType DEF Reorder
  <2> QED BY <1>0, <1>3, <2>1, <2>2, Tables, TypeFrame DEF Reorder
<1>4. ASSUME NEW r \in RoundIds, NEW v \in Versions, NEW s \in Students,
             NEW p \in 1 .. Cardinality(Students), Move(r, s, v, p)
      PROVE  TypeOK'
  <2>1. p \in Nat \ {0}
    OBVIOUS
  <2>2. /\ round' \in [RoundIds -> RoundRow]
        /\ deltas' \in [RoundIds -> Seq(Nat)]
        /\ entry' \in [RoundIds -> [Students -> EntryRow]]
    BY <1>4, <2>1, BumpType, RepositionType DEF Move
  <2> QED BY <1>0, <1>4, <2>2, TypeFrame DEF Move
<1>5. ASSUME NEW s \in Students, OnParticipantJoined(s)
      PROVE  TypeOK'
  <2>1. joinNotices' \subseteq Students
    BY <1>0, <1>5 DEF OnParticipantJoined
  <2>2. CASE UNCHANGED <<round, entry, deltas>>
    BY <1>0, <1>5, <2>1, <2>2, Tables, TypeFrame DEF OnParticipantJoined
  <2>3. ASSUME NEW r \in RoundIds, NEW p \in Nat,
               entry' = [entry EXCEPT ![r][s] = InsertQueueEntry(p)], Bump(r)
        PROVE  TypeOK'
    <3>1. entry' \in [RoundIds -> [Students -> EntryRow]]
      BY <2>3, InsertType, Tables, EntryRowOf
    <3>2. round' \in [RoundIds -> RoundRow] /\ deltas' \in [RoundIds -> Seq(Nat)]
      BY <2>3, BumpType
    <3> QED BY <1>0, <1>5, <2>1, <3>1, <3>2, TypeFrame DEF OnParticipantJoined
  <2>4. 1 .. Cardinality(Students) + 1 \subseteq Nat
    BY QueueConstants, FS_CardinalityType
  <2> QED BY <1>5, <2>2, <2>3, <2>4 DEF OnParticipantJoined, ActiveRounds
<1>6. CASE LoseCallback
  BY <1>0, <1>6, Tables, TypeFrame DEF LoseCallback
<1>7. ASSUME NEW g \in BOOLEAN, NEW q \in Preorders, ResetFinalize(g, q)
      PROVE  TypeOK'
  <2>1. PICK a \in RoundIds, n \in RoundIds :
           /\ round' = [FinalizedRound(a) EXCEPT ![n] = NewRound(g, q)]
           /\ entry' = MarkUnfinishedSkipped(a)
           /\ Announce(a)
    BY <1>7 DEF ResetFinalize
  <2>2. /\ round' \in [RoundIds -> RoundRow]
        /\ entry' \in [RoundIds -> [Students -> EntryRow]]
        /\ deltas' \in [RoundIds -> Seq(Nat)]
    BY <2>1, NewRoundType, FinalizedType, AnnounceType
  <2> QED BY <1>0, <1>7, <2>2, TypeFrame DEF ResetFinalize
<1>8. CASE ResetActivate
  <2>1. /\ round' \in [RoundIds -> RoundRow]
        /\ entry' \in [RoundIds -> [Students -> EntryRow]]
        /\ deltas' \in [RoundIds -> Seq(Nat)]
        /\ joined' \in [Students -> JoinTimes]
    BY <1>0, <1>8, Tables, ActivateLowestType DEF ResetActivate
  <2> QED BY <1>0, <1>8, <2>1, TypeFrame DEF ResetActivate
<1>9. CASE ResetCrash
  BY <1>0, <1>9, Tables, TypeFrame DEF ResetCrash
<1>10. ASSUME NEW g \in BOOLEAN, NEW q \in Preorders, ResetKeyed(g, q)
       PROVE  TypeOK'
  <2>1. PICK a \in RoundIds, n \in RoundIds :
           ActivateLowest([FinalizedRound(a) EXCEPT ![n] = NewRound(g, q)],
                          MarkUnfinishedSkipped(a),
                          [deltas EXCEPT ![a] = Append(@, round[a].version + 1)])
    BY <1>10 DEF ResetKeyed
  <2>2. /\ [FinalizedRound(a) EXCEPT ![n] = NewRound(g, q)] \in [RoundIds -> RoundRow]
        /\ MarkUnfinishedSkipped(a) \in [RoundIds -> [Students -> EntryRow]]
    BY NewRoundType, FinalizedType
  <2>3. [deltas EXCEPT ![a] = Append(@, round[a].version + 1)] \in [RoundIds -> Seq(Nat)]
    BY RoundRowOf, Tables
  <2>4. /\ round' \in [RoundIds -> RoundRow]
        /\ entry' \in [RoundIds -> [Students -> EntryRow]]
        /\ deltas' \in [RoundIds -> Seq(Nat)]
        /\ joined' \in [Students -> JoinTimes]
    BY <1>0, <2>1, <2>2, <2>3, ActivateLowestType
  <2> QED BY <1>0, <1>10, <2>4, TypeFrame DEF ResetKeyed
<1>11. ASSUME NEW r \in RoundIds, FinalizeRound(r)
       PROVE  TypeOK'
  <2>1. /\ round' \in [RoundIds -> RoundRow]
        /\ entry' \in [RoundIds -> [Students -> EntryRow]]
        /\ deltas' \in [RoundIds -> Seq(Nat)]
    BY <1>11, FinalizedType, AnnounceType DEF FinalizeRound
  <2> QED BY <1>0, <1>11, <2>1, TypeFrame DEF FinalizeRound
<1> QED BY <1>1, <1>2, <1>3, <1>4, <1>5, <1>6, <1>7, <1>8, <1>9, <1>10, <1>11
        DEF RoundNext

LEMMA TypeTurn ==
  ASSUME TypeOK, TurnNext
  PROVE  TypeOK'
<1> DEFINE ProgressTable ==
              [RoundIds -> [Students -> [row : BOOLEAN, grade : Grades \cup {Null}]]]
<1>0. /\ joined \in [Students -> JoinTimes] /\ joinNotices \subseteq Students
      /\ startNotice \in BOOLEAN /\ resetting \in BOOLEAN
      /\ progress \in ProgressTable
  BY DEF TypeOK
<1>1. ASSUME NEW r \in RoundIds, NEW v \in Versions, Advance(r, v)
      PROVE  TypeOK'
  <2>1. PICK s \in Students : round' = [round EXCEPT ![r].selected = s,
                                          ![r].version = round[r].version + 1]
    BY <1>1 DEF Advance
  <2>2. round' \in [RoundIds -> RoundRow]
    BY <2>1, RoundRowOf, Tables DEF RoundRow
  <2>3. deltas' \in [RoundIds -> Seq(Nat)]
    BY <1>1, AnnounceType DEF Advance
  <2> QED BY <1>0, <1>1, <2>2, <2>3, Tables, TypeFrame DEF Advance
<1>2. ASSUME NEW r \in RoundIds, NEW v \in Versions, NEW s \in Students, Start(r, s, v)
      PROVE  TypeOK'
  <2>1. "reciting" \in EntryStatuses
    BY DEF EntryStatuses
  <2>2. /\ round' \in [RoundIds -> RoundRow]
        /\ deltas' \in [RoundIds -> Seq(Nat)]
        /\ entry' \in [RoundIds -> [Students -> EntryRow]]
    BY <1>2, <2>1, BumpType, TransitionType DEF Start
  <2> QED BY <1>0, <1>2, <2>2, TypeFrame DEF Start
<1>3. ASSUME NEW r \in RoundIds, NEW v \in Versions, NEW s \in Students, Skip(r, s, v)
      PROVE  TypeOK'
  <2>1. "skipped" \in EntryStatuses
    BY DEF EntryStatuses
  <2>2. /\ round' \in [RoundIds -> RoundRow]
        /\ deltas' \in [RoundIds -> Seq(Nat)]
        /\ entry' \in [RoundIds -> [Students -> EntryRow]]
    BY <1>3, <2>1, ReleaseType, TransitionType DEF Skip
  <2> QED BY <1>0, <1>3, <2>2, TypeFrame DEF Skip
<1>4. ASSUME NEW r \in RoundIds, NEW v \in Versions, NEW s \in Students,
             NEW g \in Grades \cup {Null}, Complete(r, s, v, g)
      PROVE  TypeOK'
  <2>1. "completed" \in EntryStatuses
    BY DEF EntryStatuses
  <2>2. /\ round' \in [RoundIds -> RoundRow]
        /\ deltas' \in [RoundIds -> Seq(Nat)]
        /\ entry' \in [RoundIds -> [Students -> EntryRow]]
    BY <1>4, <2>1, ReleaseType, TransitionType DEF Complete
  <2>3. progress' \in ProgressTable
    BY <1>0, <1>4 DEF Complete
  <2> QED BY <1>4, <2>2, <2>3 DEF TypeOK, Complete, sessionVars
<1>5. ASSUME NEW r \in RoundIds, NEW v \in Versions, NEW s \in Students,
             NEW g \in Grades \cup {Null}, Correct(r, s, v, g)
      PROVE  TypeOK'
  <2> DEFINE corrected == IF g = Null THEN entry[r][s].grade ELSE g
  <2>1. corrected \in Grades \cup {Null}
    BY EntryRowOf DEF EntryRow
  <2>2. /\ entry' = [entry EXCEPT ![r][s].grade = corrected,
                                  ![r][s].version = entry[r][s].version + 1]
        /\ progress' = [progress EXCEPT ![r][s] = [row |-> TRUE, grade |-> corrected]]
    BY <1>5 DEF Correct
  <2> HIDE DEF corrected
  <2>3. [entry[r][s] EXCEPT !.grade = corrected,
                            !.version = entry[r][s].version + 1] \in EntryRow
    BY <2>1, EntryRowOf DEF EntryRow
  <2>4. entry' \in [RoundIds -> [Students -> EntryRow]]
    BY <2>2, <2>3, EntryRowOf, Tables
  <2>5. progress' \in ProgressTable
    BY <1>0, <2>1, <2>2
  <2>6. round' \in [RoundIds -> RoundRow] /\ deltas' \in [RoundIds -> Seq(Nat)]
    BY <1>5, BumpType DEF Correct
  <2> QED BY <1>5, <2>4, <2>5, <2>6 DEF TypeOK, Correct, sessionVars
<1> QED BY <1>1, <1>2, <1>3, <1>4, <1>5 DEF TurnNext

LEMMA TypeOptOut ==
  ASSUME TypeOK, OptOutNext
  PROVE  TypeOK'
<1> DEFINE Idled(c) == call' = [call EXCEPT ![c] = Idle]
           CallsOK == /\ call \in [Calls -> CallState]
                      /\ \A c \in Calls : \/ call[c] = Idle
                                          \/ /\ call[c].student \in Students
                                             /\ call[c].round \in RoundIds
<1>0. CallsOK
  BY DEF TypeOK
<1>1. ASSUME NEW c \in Calls, Idled(c) PROVE CallsOK'
  <2>1. Idle \in CallState
    BY DEF Idle, CallState
  <2> QED BY <1>0, <1>1, <2>1
<1>2. ASSUME NEW c \in Calls, NEW s \in Students, RequestRead(c, s) PROVE TypeOK'
  <2>1. PICK r \in RoundIds :
           /\ entry[r][s].status \in Unfinished
           /\ call' = [call EXCEPT ![c] =
                [student |-> s, round |-> r, status |-> entry[r][s].status,
                 version |-> entry[r][s].version]]
    BY <1>2 DEF RequestRead, ActiveRounds
  <2>2. entry[r][s].version \in Nat
    BY EntryRowOf DEF EntryRow
  <2>3. [student |-> s, round |-> r, status |-> entry[r][s].status,
         version |-> entry[r][s].version] \in CallState
    BY <2>1, <2>2 DEF CallState
  <2>4. CallsOK'
    BY <1>0, <2>1, <2>3
  <2> QED BY <1>2, <2>4 DEF TypeOK, RequestRead, sessionVars
<1>3. ASSUME NEW c \in Calls, RequestApprovalRequired(c) PROVE TypeOK'
  <2> DEFINE r == call[c].round
             s == call[c].student
  <2>1. r \in RoundIds /\ s \in Students /\ CallsOK'
    BY <1>0, <1>1, <1>3 DEF RequestApprovalRequired
  <2>2. /\ requests' = [requests EXCEPT ![r][s] = Append(@, "pending")]
        /\ notices' = [notices EXCEPT ![r] =
                          @ \cup {<<"opt_out_requested", round[r].version>>}]
    BY <1>3 DEF RequestApprovalRequired
  <2>3. /\ requests \in [RoundIds -> [Students -> Seq(RequestStatuses)]]
        /\ notices \in [RoundIds -> SUBSET ({"policy_changed", "opt_out_requested"} \X Nat)]
    BY DEF TypeOK
  <2> HIDE DEF r, s
  <2>4. requests[r][s] \in Seq(RequestStatuses) /\ "pending" \in RequestStatuses
    BY <2>1, <2>3 DEF RequestStatuses
  <2>5. requests' \in [RoundIds -> [Students -> Seq(RequestStatuses)]]
    BY <2>1, <2>2, <2>3, <2>4
  <2>6. round[r].version \in Nat
    BY <2>1, RoundRowOf DEF RoundRow
  <2>7. notices' \in [RoundIds -> SUBSET ({"policy_changed", "opt_out_requested"} \X Nat)]
    BY <2>1, <2>2, <2>3, <2>6
  <2> QED BY <1>3, <2>1, <2>5, <2>7 DEF TypeOK, RequestApprovalRequired, sessionVars
<1>4. ASSUME NEW c \in Calls, RequestAutoApprove(c) PROVE TypeOK'
  <2> DEFINE r == call[c].round
             s == call[c].student
  <2>1. r \in RoundIds /\ s \in Students /\ CallsOK'
    BY <1>0, <1>1, <1>4 DEF RequestAutoApprove
  <2>2. /\ requests' = IF requests[r][s] = <<>>
                       THEN [requests EXCEPT ![r][s] = <<"approved">>]
                       ELSE requests
        /\ TransitionEntry(r, s, "opted_out", Null)
        /\ Release(r, s)
    BY <1>4 DEF RequestAutoApprove
  <2> HIDE DEF r, s
  <2>3. requests' \in [RoundIds -> [Students -> Seq(RequestStatuses)]]
    <3>1. requests \in [RoundIds -> [Students -> Seq(RequestStatuses)]]
      BY DEF TypeOK
    <3>2. <<"approved">> \in Seq(RequestStatuses)
      BY DEF RequestStatuses
    <3> QED BY <2>1, <2>2, <3>1, <3>2
  <2>4. "opted_out" \in EntryStatuses /\ Null \in Grades \cup {Null}
    BY DEF EntryStatuses
  <2>5. entry' \in [RoundIds -> [Students -> EntryRow]]
    BY <2>1, <2>2, <2>4, TransitionType
  <2>6. round' \in [RoundIds -> RoundRow] /\ deltas' \in [RoundIds -> Seq(Nat)]
    BY <2>1, <2>2, ReleaseType
  <2> QED BY <1>4, <2>1, <2>3, <2>5, <2>6 DEF TypeOK, RequestAutoApprove, sessionVars
<1>5. ASSUME NEW c \in Calls, RequestEnd(c) PROVE TypeOK'
  <2>1. CallsOK'
    BY <1>1, <1>5 DEF RequestEnd
  <2> QED BY <1>5, <2>1 DEF TypeOK, RequestEnd, sessionVars
<1>6. ASSUME NEW r \in RoundIds, NEW s \in Students, NEW v \in Versions,
             NEW i \in 1 .. MaxRequests, NEW d \in {"approved", "declined"},
             Decide(r, s, i, d, v)
      PROVE  TypeOK'
  <2>1. requests' \in [RoundIds -> [Students -> Seq(RequestStatuses)]]
    <3>1. requests \in [RoundIds -> [Students -> Seq(RequestStatuses)]]
      BY DEF TypeOK
    <3>2. /\ requests[r][s] \in Seq(RequestStatuses)
          /\ i \in DOMAIN requests[r][s]
          /\ d \in RequestStatuses
      BY <1>6, <3>1 DEF Decide, RequestStatuses
    <3>3. [requests[r][s] EXCEPT ![i] = d] \in Seq(RequestStatuses)
      BY <3>2
    <3> QED BY <1>6, <3>1, <3>3 DEF Decide
  <2>2. "opted_out" \in EntryStatuses /\ Null \in Grades \cup {Null}
    BY DEF EntryStatuses
  <2>3. /\ entry' \in [RoundIds -> [Students -> EntryRow]]
        /\ round' \in [RoundIds -> RoundRow] /\ deltas' \in [RoundIds -> Seq(Nat)]
    BY <1>6, <2>2, Tables, TransitionType, ReleaseType DEF Decide
  <2> QED BY <1>6, <2>1, <2>3 DEF TypeOK, Decide, sessionVars
<1> QED BY <1>2, <1>3, <1>4, <1>5, <1>6 DEF OptOutNext

LEMMA TypeStep == TypeOK /\ [Next]_vars => TypeOK'
<1> SUFFICES ASSUME TypeOK, [Next]_vars PROVE TypeOK'
  OBVIOUS
<1>1. CASE UNCHANGED vars
  BY <1>1 DEF TypeOK, vars, sessionVars
<1> QED BY <1>1, TypeSession, TypeRound, TypeTurn, TypeOptOut DEF Next

\* Every table keeps the shape its migration declares, and an opt-out handler
\* that runs has read an entry of a round (Request in optout_service.go).
THEOREM TypeCorrect == Spec => []TypeOK
  BY TypeInit, TypeStep, PTL DEF Spec

-----------------------------------------------------------------------------
(* Rounds take their turns in order                                        *)

\* RoundOrder is not inductive by itself: that the lowest prepared round may be
\* activated needs every lower round to exist, so numbers have no gaps.
OrderedRows(rs) ==
    \A r, q \in RoundIds : q < r =>
        /\ rs[r].lifecycle = "active" => rs[q].lifecycle = "finalized"
        /\ rs[r].lifecycle # "absent" => rs[q].lifecycle # "absent"

\* Two cases of an activation: nothing to activate, or the lowest prepared
\* round becomes active and nothing else of the round table changes.
LEMMA ActivateRounds ==
  ASSUME NEW rs, NEW es, NEW ds, ActivateLowest(rs, es, ds)
  PROVE  \/ round' = rs
         \/ /\ ActiveRounds(rs) = {}
            /\ \E r \in RoundIds :
                 /\ LowestPrepared(rs, r)
                 /\ round' = [rs EXCEPT ![r].lifecycle = "active",
                                        ![r].version = rs[r].version + 1]
  BY Zenon DEF ActivateLowest

LEMMA ActivateOrdered ==
  ASSUME NEW rs \in [RoundIds -> RoundRow], NEW es, NEW ds,
         OrderedRows(rs), ActivateLowest(rs, es, ds)
  PROVE  OrderedRows(round')
<1>1. CASE round' = rs
  BY <1>1
<1>2. ASSUME ActiveRounds(rs) = {}, NEW a \in RoundIds, LowestPrepared(rs, a),
             round' = [rs EXCEPT ![a].lifecycle = "active",
                                 ![a].version = rs[a].version + 1]
      PROVE  OrderedRows(round')
  <2>1. \A r \in RoundIds : /\ rs[r].lifecycle \in Lifecycles
                            /\ rs[r].lifecycle # "active"
                            /\ r < a => rs[r].lifecycle # "prepared"
    BY <1>2 DEF RoundRow, ActiveRounds, LowestPrepared, PreparedRounds, RoundIds
  <2>2. \A r \in RoundIds :
           round'[r].lifecycle = IF r = a THEN "active" ELSE rs[r].lifecycle
    BY <1>2 DEF RoundRow
  <2>3. rs[a].lifecycle = "prepared"
    BY <1>2 DEF LowestPrepared, PreparedRounds
  <2>4. \A q \in RoundIds : q < a => rs[q].lifecycle = "finalized"
    BY <2>1, <2>3 DEF OrderedRows, Lifecycles
  <2> QED BY <2>1, <2>2, <2>3, <2>4 DEF OrderedRows
<1> QED BY <1>1, <1>2, ActivateRounds

\* Appending the next round, and finalizing one that exists, keep the order.
LEMMA CreateOrdered ==
  ASSUME NEW rs \in [RoundIds -> RoundRow], OrderedRows(rs),
         NEW n \in RoundIds, NEW g, NEW q,
         \A r \in RoundIds : (r < n) <=> (rs[r].lifecycle # "absent")
  PROVE  OrderedRows([rs EXCEPT ![n] = NewRound(g, q)])
<1>1. \A r \in RoundIds : [rs EXCEPT ![n] = NewRound(g, q)][r].lifecycle
                          = IF r = n THEN "prepared" ELSE rs[r].lifecycle
  BY DEF NewRound
<1> QED BY <1>1 DEF OrderedRows, RoundIds

LEMMA FinalizeOrdered ==
  ASSUME TypeOK, OrderedRows(round), NEW a \in RoundIds,
         round[a].lifecycle # "absent"
  PROVE  OrderedRows(FinalizedRound(a))
<1>1. \A r \in RoundIds : FinalizedRound(a)[r].lifecycle
                          = IF r = a THEN "finalized" ELSE round[r].lifecycle
  BY Tables, RoundRowOf DEF FinalizedRound, RoundRow
<1> QED BY <1>1 DEF OrderedRows

\* What both forms of a reset write before they activate.
LEMMA ResetOrdered ==
  ASSUME TypeOK, OrderedRows(round), NEW a \in RoundIds, NEW n \in RoundIds,
         NEW g, NEW q, ResetRows(a, n, g, q)
  PROVE  OrderedRows([FinalizedRound(a) EXCEPT ![n] = NewRound(g, q)])
<1>1. round[a].lifecycle = "active"
  BY DEF ResetRows
<1>2. OrderedRows(FinalizedRound(a)) /\ FinalizedRound(a) \in [RoundIds -> RoundRow]
  BY <1>1, FinalizeOrdered, FinalizedType
<1>3. \A r \in RoundIds : FinalizedRound(a)[r].lifecycle
                          = IF r = a THEN "finalized" ELSE round[r].lifecycle
  BY Tables, RoundRowOf DEF FinalizedRound, RoundRow
<1>4. \A r \in RoundIds : (r < n) <=> (FinalizedRound(a)[r].lifecycle # "absent")
  BY <1>1, <1>3 DEF ResetRows, NextRoundNumber
<1> QED BY <1>2, <1>4, CreateOrdered

\* Commands that touch no lifecycle.
LEMMA SameLifecycles ==
  ASSUME OrderedRows(round),
         \A r \in RoundIds : round'[r].lifecycle = round[r].lifecycle
  PROVE  OrderedRows(round')
  BY DEF OrderedRows

LEMMA BumpKeepsLifecycles ==
  ASSUME TypeOK, NEW r \in RoundIds, NEW s, Bump(r) \/ Release(r, s)
  PROVE  \A q \in RoundIds : round'[q].lifecycle = round[q].lifecycle
<1>1. CASE Bump(r)
  BY <1>1, Tables DEF Bump, RoundRow
<1>2. CASE Release(r, s)
  BY <1>2, Tables DEF Release, RoundRow
<1> QED BY <1>1, <1>2

LEMMA OrderStep == TypeOK /\ OrderedRows(round) /\ [Next]_vars => OrderedRows(round)'
<1> SUFFICES ASSUME TypeOK, OrderedRows(round), [Next]_vars
             PROVE  OrderedRows(round')
  OBVIOUS
<1>1. CASE UNCHANGED round
  BY <1>1
<1>2. ASSUME NEW g \in BOOLEAN, NEW q \in Preorders, Prepare(g, q)
      PROVE  OrderedRows(round')
  <2>1. PICK n \in RoundIds :
           /\ NextRoundNumber(n)
           /\ \/ round' = [round EXCEPT ![n] = NewRound(g, q)]
              \/ ActivateLowest([round EXCEPT ![n] = NewRound(g, q)], entry, deltas)
    BY <1>2 DEF Prepare
  <2>2. OrderedRows([round EXCEPT ![n] = NewRound(g, q)])
    BY <2>1, Tables, CreateOrdered DEF NextRoundNumber
  <2>3. [round EXCEPT ![n] = NewRound(g, q)] \in [RoundIds -> RoundRow]
    BY NewRoundType, Tables
  <2> QED BY <2>1, <2>2, <2>3, ActivateOrdered
<1>3. CASE OnSessionStarted \/ ResetActivate
  BY <1>3, <1>1, Tables, ActivateOrdered DEF OnSessionStarted, ResetActivate
<1>4. ASSUME NEW g \in BOOLEAN, NEW q \in Preorders, ResetFinalize(g, q)
      PROVE  OrderedRows(round')
  <2>1. PICK a \in RoundIds, n \in RoundIds :
           /\ ResetRows(a, n, g, q)
           /\ round' = [FinalizedRound(a) EXCEPT ![n] = NewRound(g, q)]
    BY <1>4 DEF ResetFinalize
  <2> QED BY <2>1, ResetOrdered
<1>5. ASSUME NEW g \in BOOLEAN, NEW q \in Preorders, ResetKeyed(g, q)
      PROVE  OrderedRows(round')
  <2>1. PICK a \in RoundIds, n \in RoundIds :
           /\ ResetRows(a, n, g, q)
           /\ ActivateLowest([FinalizedRound(a) EXCEPT ![n] = NewRound(g, q)],
                             MarkUnfinishedSkipped(a),
                             [deltas EXCEPT ![a] = Append(@, round[a].version + 1)])
    BY <1>5 DEF ResetKeyed
  <2>2. [FinalizedRound(a) EXCEPT ![n] = NewRound(g, q)] \in [RoundIds -> RoundRow]
    BY NewRoundType, FinalizedType
  <2>3. OrderedRows([FinalizedRound(a) EXCEPT ![n] = NewRound(g, q)])
    BY <2>1, ResetOrdered
  <2> QED BY <2>1, <2>2, <2>3, ActivateOrdered
<1>6. ASSUME NEW r \in RoundIds, FinalizeRound(r)
      PROVE  OrderedRows(round')
  BY <1>6, FinalizeOrdered DEF FinalizeRound
<1>7. ASSUME NEW r \in RoundIds, NEW s, Bump(r) \/ Release(r, s)
      PROVE  OrderedRows(round')
  BY <1>7, BumpKeepsLifecycles, SameLifecycles
<1>8. ASSUME NEW r \in RoundIds, NEW v, NEW q, Reorder(r, v, q) \/ Advance(r, v)
      PROVE  OrderedRows(round')
  <2>1. CASE Reorder(r, v, q)
    <3>1. \A p \in RoundIds : round'[p].lifecycle = round[p].lifecycle
      BY <2>1, Tables DEF Reorder, RoundRow
    <3> QED BY <3>1, SameLifecycles
  <2>2. CASE Advance(r, v)
    <3>1. PICK s \in Students : round' = [round EXCEPT ![r].selected = s,
                                            ![r].version = round[r].version + 1]
      BY <2>2 DEF Advance
    <3>2. \A p \in RoundIds : round'[p].lifecycle = round[p].lifecycle
      BY <3>1, Tables DEF RoundRow
    <3> QED BY <3>2, SameLifecycles
  <2> QED BY <1>8, <2>1, <2>2
<1>9. CASE SessionNext
  <2>1. UNCHANGED round
    BY <1>9 DEF SessionNext, StartSession, EndSession, JoinSession,
                RemoveParticipant, JoinCircle, AssignRole, RemoveMember, UpdatePolicy
  <2> QED BY <1>1, <2>1
<1>10. CASE RoundNext
  <2>1. ASSUME NEW r \in RoundIds, NEW v, NEW s, NEW p, Move(r, s, v, p)
        PROVE  OrderedRows(round')
    BY <2>1, <1>7 DEF Move
  <2>2. ASSUME NEW s, OnParticipantJoined(s)
        PROVE  OrderedRows(round')
    BY <2>2, <1>1, <1>7 DEF OnParticipantJoined, ActiveRounds
  <2>3. CASE LoseCallback \/ ResetCrash
    BY <2>3, <1>1 DEF LoseCallback, ResetCrash
  <2> QED BY <1>10, <1>2, <1>3, <1>4, <1>5, <1>6, <1>8, <2>1, <2>2, <2>3 DEF RoundNext
<1>11. CASE TurnNext
  <2>1. ASSUME NEW r \in RoundIds, NEW s, NEW v, NEW g,
               Start(r, s, v) \/ Skip(r, s, v) \/ Complete(r, s, v, g) \/ Correct(r, s, v, g)
        PROVE  OrderedRows(round')
    BY <2>1, <1>7 DEF Start, Skip, Complete, Correct
  <2> QED BY <1>11, <1>8, <2>1 DEF TurnNext
<1>12. CASE OptOutNext
  <2>1. ASSUME NEW c \in Calls, RequestAutoApprove(c)
        PROVE  OrderedRows(round')
    <3>1. call[c].round \in RoundIds
      BY <2>1 DEF TypeOK, RequestAutoApprove
    <3> QED BY <2>1, <3>1, <1>7 DEF RequestAutoApprove
  <2>2. ASSUME NEW r \in RoundIds, NEW s, NEW v, NEW i, NEW d, Decide(r, s, i, d, v)
        PROVE  OrderedRows(round')
    BY <2>2, <1>1, <1>7 DEF Decide
  <2>3. ASSUME NEW c, NEW s,
               RequestRead(c, s) \/ RequestApprovalRequired(c) \/ RequestEnd(c)
        PROVE  OrderedRows(round')
    BY <2>3, <1>1 DEF RequestRead, RequestApprovalRequired, RequestEnd
  <2> QED BY <1>12, <2>1, <2>2, <2>3 DEF OptOutNext
<1> QED BY <1>1, <1>9, <1>10, <1>11, <1>12 DEF Next, vars

\* Rounds take their turns in order, and at most one is active, for any number
\* of rounds and whatever callbacks and resets are lost (activateLowest and
\* NextRoundNumber under the round allocation lock).
THEOREM RoundsInOrder == Spec => []RoundOrder
<1>1. Init => OrderedRows(round)
  BY DEF Init, OrderedRows, NoRound
<1>2. OrderedRows(round) => RoundOrder
  BY DEF OrderedRows, RoundOrder
<1> QED BY <1>1, <1>2, OrderStep, TypeCorrect, PTL DEF Spec

-----------------------------------------------------------------------------
(* One turn at a time                                                      *)

\* What the row x of a round and the rows of its entries must agree on; the
\* conjunction of OneReciter and SelectionIsLive for one round.  Each of the two
\* needs the other: Start is safe because whoever recites is the selected one.
LiveRow(x, row) ==
    /\ \A s, t \in Students :
          row[s].status = "reciting" /\ row[t].status = "reciting" => s = t
    /\ x.selected # Null => /\ x.lifecycle = "active"
                            /\ row[x.selected].status \in Unfinished
    /\ x.lifecycle = "active" =>
          \A s \in Students : row[s].status = "reciting" => x.selected = s

LiveTables(rs, es) == \A r \in RoundIds : LiveRow(rs[r], es[r])

\* A step that touches one round has to look at that round only.
LEMMA LiveFrame ==
  ASSUME LiveTables(round, entry), NEW r \in RoundIds,
         LiveRow(round'[r], entry'[r]),
         \A q \in RoundIds \ {r} : round'[q] = round[q] /\ entry'[q] = entry[q]
  PROVE  LiveTables(round', entry')
  BY DEF LiveTables

\* Nothing that LiveRow reads has changed.
LEMMA LiveSame ==
  ASSUME NEW x, NEW row, NEW y, NEW new, LiveRow(x, row),
         x.selected \in Students \cup {Null},
         y.lifecycle = x.lifecycle, y.selected = x.selected,
         \A s \in Students : new[s].status = row[s].status
  PROVE  LiveRow(y, new)
  BY DEF LiveRow

\* The turn of s ends, or its entry leaves the queue: Release.
LEMMA LiveReleased ==
  ASSUME NEW x, NEW row, NEW y, NEW new, NEW s \in Students, LiveRow(x, row),
         x.selected \in Students \cup {Null},
         y.lifecycle = x.lifecycle,
         y.selected = IF x.selected = s THEN Null ELSE x.selected,
         new[s].status # "reciting",
         \A t \in Students \ {s} : new[t].status = row[t].status
  PROVE  LiveRow(y, new)
  BY DEF LiveRow

\* A round is finalized: no selection, and nobody starts to recite.
LEMMA LiveFinalized ==
  ASSUME NEW x, NEW row, NEW y, NEW new, LiveRow(x, row),
         y.lifecycle # "active", y.selected = Null,
         \A s \in Students : new[s].status = "reciting" => row[s].status = "reciting"
  PROVE  LiveRow(y, new)
  BY DEF LiveRow

LEMMA LiveActivate ==
  ASSUME NEW rs \in [RoundIds -> RoundRow],
         NEW es \in [RoundIds -> [Students -> EntryRow]], NEW ds,
         LiveTables(rs, es), ActivateLowest(rs, es, ds)
  PROVE  LiveTables(round', entry')
<1> DEFINE Rows(position) ==
              [s \in Students |-> IF s \in Eligible THEN InsertQueueEntry(position[s])
                                  ELSE NoEntry]
<1>1. CASE round' = rs /\ entry' = es
  BY <1>1
<1>2. ASSUME NEW r \in RoundIds, LowestPrepared(rs, r), NEW position,
             entry' = [es EXCEPT ![r] = Rows(position)],
             round' = [rs EXCEPT ![r].lifecycle = "active",
                                 ![r].version = rs[r].version + 1]
      PROVE  LiveTables(round', entry')
  <2>1. rs[r].lifecycle = "prepared"
    BY <1>2 DEF LowestPrepared, PreparedRounds
  <2>2. rs[r].selected = Null
    BY <2>1 DEF LiveTables, LiveRow
  <2>3. round'[r].selected = Null /\ entry'[r] = Rows(position)
    BY <1>2, <2>2 DEF RoundRow
  <2>4. \A s \in Students : Rows(position)[s].status # "reciting"
    BY DEF InsertQueueEntry, NoEntry
  <2>5. LiveRow(round'[r], entry'[r])
    BY <2>3, <2>4 DEF LiveRow
  <2>6. \A q \in RoundIds \ {r} : round'[q] = rs[q] /\ entry'[q] = es[q]
    BY <1>2
  <2> QED BY <2>5, <2>6 DEF LiveTables
<1> HIDE DEF Rows
<1>3. \/ round' = rs /\ entry' = es
      \/ \E r \in RoundIds :
            /\ LowestPrepared(rs, r)
            /\ \E position : entry' = [es EXCEPT ![r] = Rows(position)]
            /\ round' = [rs EXCEPT ![r].lifecycle = "active",
                                   ![r].version = rs[r].version + 1]
  BY Zenon DEF ActivateLowest, Rows
<1> QED BY <1>1, <1>2, <1>3

\* Closing round a, and opening round n.
LEMMA LiveClosed ==
  ASSUME TypeOK, LiveTables(round, entry), NEW a \in RoundIds
  PROVE  LiveTables(FinalizedRound(a), MarkUnfinishedSkipped(a))
<1>1. /\ FinalizedRound(a)[a].lifecycle = "finalized"
      /\ FinalizedRound(a)[a].selected = Null
      /\ \A q \in RoundIds \ {a} : FinalizedRound(a)[q] = round[q]
  BY Tables DEF FinalizedRound, RoundRow
<1>2. \A q \in RoundIds \ {a} : MarkUnfinishedSkipped(a)[q] = entry[q]
  BY Tables DEF MarkUnfinishedSkipped
<1>3. ASSUME NEW s \in Students,
             MarkUnfinishedSkipped(a)[a][s].status = "reciting"
      PROVE  entry[a][s].status = "reciting"
  BY <1>3, Tables, EntryRowOf DEF MarkUnfinishedSkipped, EntryRow
<1>4. LiveRow(FinalizedRound(a)[a], MarkUnfinishedSkipped(a)[a])
  BY <1>1, <1>3, LiveFinalized DEF LiveTables
<1> QED BY <1>1, <1>2, <1>4 DEF LiveTables

LEMMA LiveOpened ==
  ASSUME NEW rs \in [RoundIds -> RoundRow], NEW es, LiveTables(rs, es),
         NEW n \in RoundIds, NEW g, NEW q
  PROVE  LiveTables([rs EXCEPT ![n] = NewRound(g, q)], es)
<1>1. NewRound(g, q).lifecycle # "active" /\ NewRound(g, q).selected = Null
  BY DEF NewRound
<1>2. LiveRow(NewRound(g, q), es[n])
  BY <1>1, LiveFinalized DEF LiveTables
<1> QED BY <1>2 DEF LiveTables

\* How the small updates look to LiveRow.
LEMMA ReleaseEffect ==
  ASSUME TypeOK, NEW r \in RoundIds, NEW s, Release(r, s)
  PROVE  /\ round'[r].lifecycle = round[r].lifecycle
         /\ round'[r].selected = IF round[r].selected = s THEN Null ELSE round[r].selected
         /\ \A q \in RoundIds \ {r} : round'[q] = round[q]
  BY Tables, RoundRowOf DEF Release, RoundRow

LEMMA BumpEffect ==
  ASSUME TypeOK, NEW r \in RoundIds, Bump(r)
  PROVE  /\ round'[r].lifecycle = round[r].lifecycle
         /\ round'[r].selected = round[r].selected
         /\ \A q \in RoundIds \ {r} : round'[q] = round[q]
  BY Tables, RoundRowOf DEF Bump, RoundRow

LEMMA TransitionEffect ==
  ASSUME TypeOK, NEW r \in RoundIds, NEW s \in Students, NEW to, NEW g,
         TransitionEntry(r, s, to, g)
  PROVE  /\ entry'[r][s].status = to /\ entry'[r][s].grade = g
         /\ \A t \in Students \ {s} : entry'[r][t] = entry[r][t]
         /\ \A q \in RoundIds \ {r} : entry'[q] = entry[q]
<1>1. entry[r] \in [Students -> EntryRow] /\ entry[r][s] \in EntryRow
  BY Tables
<1> QED BY <1>1, Tables DEF TransitionEntry, EntryRow

\* A turn that ends frees the selection in the same transaction.
LEMMA LiveTurnEnds ==
  ASSUME TypeOK, LiveTables(round, entry), NEW r \in RoundIds, NEW s \in Students,
         NEW to, NEW g, to # "reciting",
         TransitionEntry(r, s, to, g), Release(r, s)
  PROVE  LiveTables(round', entry')
<1>1. /\ round'[r].lifecycle = round[r].lifecycle
      /\ round'[r].selected = IF round[r].selected = s THEN Null ELSE round[r].selected
      /\ \A q \in RoundIds \ {r} : round'[q] = round[q]
  BY ReleaseEffect
<1>2. /\ entry'[r][s].status = to
      /\ \A t \in Students \ {s} : entry'[r][t] = entry[r][t]
      /\ \A q \in RoundIds \ {r} : entry'[q] = entry[q]
  BY TransitionEffect
<1>3. LiveRow(round[r], entry[r]) /\ round[r].selected \in Students \cup {Null}
  BY RoundRowOf DEF LiveTables, RoundRow
<1>4. /\ entry'[r][s].status # "reciting"
      /\ \A t \in Students \ {s} : entry'[r][t].status = entry[r][t].status
  BY <1>2
<1>5. LiveRow(round'[r], entry'[r])
  <2> DEFINE y == round'[r]
             new == entry'[r]
  <2>1. /\ y.lifecycle = round[r].lifecycle
        /\ y.selected = IF round[r].selected = s THEN Null ELSE round[r].selected
        /\ new[s].status # "reciting"
        /\ \A t \in Students \ {s} : new[t].status = entry[r][t].status
    BY <1>1, <1>4
  <2> HIDE DEF y, new
  <2>2. LiveRow(y, new)
    BY <1>3, <2>1, LiveReleased
  <2> QED BY <2>2 DEF y, new
<1> QED BY <1>1, <1>2, <1>5, LiveFrame

LEMMA LiveRound ==
  ASSUME TypeOK, LiveTables(round, entry), RoundNext
  PROVE  LiveTables(round', entry')
<1>1. ASSUME NEW g \in BOOLEAN, NEW q \in Preorders, Prepare(g, q)
      PROVE  LiveTables(round', entry')
  <2>1. PICK n \in RoundIds :
           \/ round' = [round EXCEPT ![n] = NewRound(g, q)] /\ entry' = entry
           \/ ActivateLowest([round EXCEPT ![n] = NewRound(g, q)], entry, deltas)
    BY <1>1 DEF Prepare
  <2>2. [round EXCEPT ![n] = NewRound(g, q)] \in [RoundIds -> RoundRow]
    BY NewRoundType, Tables
  <2>3. LiveTables([round EXCEPT ![n] = NewRound(g, q)], entry)
    BY Tables, LiveOpened
  <2> QED BY <2>1, <2>2, <2>3, Tables, LiveActivate
<1>2. CASE OnSessionStarted \/ ResetActivate
  <2>1. \/ ActivateLowest(round, entry, deltas)
        \/ round' = round /\ entry' = entry
    BY <1>2 DEF OnSessionStarted, ResetActivate
  <2> QED BY <2>1, Tables, LiveActivate
<1>3. ASSUME NEW g \in BOOLEAN, NEW q \in Preorders, ResetFinalize(g, q)
      PROVE  LiveTables(round', entry')
  <2>1. PICK a \in RoundIds, n \in RoundIds :
           /\ round' = [FinalizedRound(a) EXCEPT ![n] = NewRound(g, q)]
           /\ entry' = MarkUnfinishedSkipped(a)
    BY <1>3 DEF ResetFinalize
  <2> QED BY <2>1, FinalizedType, LiveClosed, LiveOpened
<1>4. ASSUME NEW g \in BOOLEAN, NEW q \in Preorders, ResetKeyed(g, q)
      PROVE  LiveTables(round', entry')
  <2>1. PICK a \in RoundIds, n \in RoundIds :
           ActivateLowest([FinalizedRound(a) EXCEPT ![n] = NewRound(g, q)],
                          MarkUnfinishedSkipped(a),
                          [deltas EXCEPT ![a] = Append(@, round[a].version + 1)])
    BY <1>4 DEF ResetKeyed
  <2>2. /\ [FinalizedRound(a) EXCEPT ![n] = NewRound(g, q)] \in [RoundIds -> RoundRow]
        /\ MarkUnfinishedSkipped(a) \in [RoundIds -> [Students -> EntryRow]]
    BY NewRoundType, FinalizedType
  <2>3. LiveTables([FinalizedRound(a) EXCEPT ![n] = NewRound(g, q)], MarkUnfinishedSkipped(a))
    BY FinalizedType, LiveClosed, LiveOpened
  <2> QED BY <2>1, <2>2, <2>3, LiveActivate
<1>5. ASSUME NEW r \in RoundIds, FinalizeRound(r)
      PROVE  LiveTables(round', entry')
  BY <1>5, LiveClosed DEF FinalizeRound
<1>6. ASSUME NEW r \in RoundIds, NEW v, NEW q, Reorder(r, v, q)
      PROVE  LiveTables(round', entry')
  <2>1. /\ round'[r].lifecycle = round[r].lifecycle
        /\ round'[r].selected = round[r].selected
        /\ \A p \in RoundIds \ {r} : round'[p] = round[p]
        /\ entry' = entry
    BY <1>6, Tables, RoundRowOf DEF Reorder, RoundRow
  <2>2. LiveRow(round[r], entry[r]) /\ round[r].selected \in Students \cup {Null}
    BY RoundRowOf DEF LiveTables, RoundRow
  <2>3. LiveRow(round'[r], entry'[r])
    BY <2>1, <2>2, LiveSame
  <2> QED BY <2>1, <2>3, LiveFrame
<1>7. ASSUME NEW r \in RoundIds, NEW v, NEW s, NEW p, Move(r, s, v, p)
      PROVE  LiveTables(round', entry')
  <2>1. \A t \in Students : entry'[r][t].status = entry[r][t].status
    BY <1>7, Tables, EntryRowOf DEF Move, Reposition, EntryRow
  <2>2. \A q \in RoundIds \ {r} : entry'[q] = entry[q]
    BY <1>7, Tables DEF Move, Reposition
  <2>3. /\ round'[r].lifecycle = round[r].lifecycle
        /\ round'[r].selected = round[r].selected
        /\ \A q \in RoundIds \ {r} : round'[q] = round[q]
    BY <1>7, BumpEffect DEF Move
  <2>4. LiveRow(round[r], entry[r]) /\ round[r].selected \in Students \cup {Null}
    BY RoundRowOf DEF LiveTables, RoundRow
  <2>5. LiveRow(round'[r], entry'[r])
    BY <2>1, <2>3, <2>4, LiveSame
  <2> QED BY <2>2, <2>3, <2>5, LiveFrame
<1>8. ASSUME NEW s \in Students, OnParticipantJoined(s)
      PROVE  LiveTables(round', entry')
  <2>1. CASE UNCHANGED <<round, entry>>
    BY <2>1
  <2>2. ASSUME NEW r \in RoundIds, NEW p, ~LateJoinSkipped(r, s), Bump(r),
               entry' = [entry EXCEPT ![r][s] = InsertQueueEntry(p)]
        PROVE  LiveTables(round', entry')
    <3>1. entry[r][s].status = "absent"
      BY <2>2 DEF LateJoinSkipped
    <3>2. /\ entry'[r][s].status = "waiting"
          /\ \A t \in Students \ {s} : entry'[r][t] = entry[r][t]
          /\ \A q \in RoundIds \ {r} : entry'[q] = entry[q]
      BY <2>2, Tables, EntryRowOf DEF InsertQueueEntry
    <3>3. /\ round'[r].lifecycle = round[r].lifecycle
          /\ round'[r].selected = round[r].selected
          /\ \A q \in RoundIds \ {r} : round'[q] = round[q]
      BY <2>2, BumpEffect
    <3>4. LiveRow(round[r], entry[r])
      BY DEF LiveTables
    <3>5. round[r].selected # Null => round[r].selected \in Students
      BY RoundRowOf DEF RoundRow
    <3>6. LiveRow(round'[r], entry'[r])
      BY <3>1, <3>2, <3>3, <3>4, <3>5 DEF LiveRow, Unfinished
    <3> QED BY <3>2, <3>3, <3>6, LiveFrame
  <2> QED BY <1>8, <2>1, <2>2 DEF OnParticipantJoined, ActiveRounds
<1>9. CASE LoseCallback \/ ResetCrash
  BY <1>9 DEF LoseCallback, ResetCrash
<1> QED BY <1>1, <1>2, <1>3, <1>4, <1>5, <1>6, <1>7, <1>8, <1>9 DEF RoundNext

LEMMA LiveTurn ==
  ASSUME TypeOK, LiveTables(round, entry), TurnNext
  PROVE  LiveTables(round', entry')
<1>0. ASSUME NEW r \in RoundIds
      PROVE  LiveRow(round[r], entry[r]) /\ round[r].selected \in Students \cup {Null}
  BY RoundRowOf DEF LiveTables, RoundRow
<1>1. ASSUME NEW r \in RoundIds, NEW v, Advance(r, v)
      PROVE  LiveTables(round', entry')
  <2>1. PICK s \in Students :
           /\ entry[r][s].status = "waiting"
           /\ round' = [round EXCEPT ![r].selected = s,
                                     ![r].version = round[r].version + 1]
    BY <1>1 DEF Advance, NextWaiting
  <2>2. /\ round'[r].selected = s
        /\ round'[r].lifecycle = "active"
        /\ \A q \in RoundIds \ {r} : round'[q] = round[q]
        /\ entry' = entry
    BY <1>1, <2>1, Tables, RoundRowOf DEF Advance, RoundRow
  <2>3. \A t \in Students : entry[r][t].status # "reciting"
    BY <1>1 DEF Advance
  <2>4. LiveRow(round'[r], entry'[r])
    BY <2>1, <2>2, <2>3 DEF LiveRow, Unfinished
  <2> QED BY <2>2, <2>4, LiveFrame
<1>2. ASSUME NEW r \in RoundIds, NEW v, NEW s \in Students, Start(r, s, v)
      PROVE  LiveTables(round', entry')
  <2>1. round[r].lifecycle = "active" /\ round[r].selected = s /\ entry[r][s].status = "waiting"
    BY <1>2 DEF Start
  <2>2. /\ entry'[r][s].status = "reciting"
        /\ \A t \in Students \ {s} : entry'[r][t] = entry[r][t]
        /\ \A q \in RoundIds \ {r} : entry'[q] = entry[q]
    BY <1>2, TransitionEffect DEF Start
  <2>3. /\ round'[r].lifecycle = round[r].lifecycle
        /\ round'[r].selected = round[r].selected
        /\ \A q \in RoundIds \ {r} : round'[q] = round[q]
    BY <1>2, BumpEffect DEF Start
  <2>4. \A t \in Students \ {s} : entry[r][t].status # "reciting"
    BY <1>0, <2>1 DEF LiveRow
  <2>5. LiveRow(round'[r], entry'[r])
    BY <2>1, <2>2, <2>3, <2>4 DEF LiveRow, Unfinished
  <2> QED BY <2>2, <2>3, <2>5, LiveFrame
<1>3. ASSUME NEW r \in RoundIds, NEW v, NEW s \in Students, NEW g,
             Skip(r, s, v) \/ Complete(r, s, v, g)
      PROVE  LiveTables(round', entry')
  <2>1. CASE Skip(r, s, v)
    BY <2>1, LiveTurnEnds DEF Skip
  <2>2. CASE Complete(r, s, v, g)
    BY <2>2, LiveTurnEnds DEF Complete
  <2> QED BY <1>3, <2>1, <2>2
<1>4. ASSUME NEW r \in RoundIds, NEW v, NEW s \in Students, NEW g, Correct(r, s, v, g)
      PROVE  LiveTables(round', entry')
  <2>1. PICK h : entry' = [entry EXCEPT ![r][s].grade = h,
                                        ![r][s].version = entry[r][s].version + 1]
    BY <1>4 DEF Correct
  <2>2. entry[r] \in [Students -> EntryRow] /\ entry[r][s] \in EntryRow
    BY Tables
  <2>3. /\ \A t \in Students : entry'[r][t].status = entry[r][t].status
        /\ \A q \in RoundIds \ {r} : entry'[q] = entry[q]
    BY <2>1, <2>2, Tables DEF EntryRow
  <2>4. /\ round'[r].lifecycle = round[r].lifecycle
        /\ round'[r].selected = round[r].selected
        /\ \A q \in RoundIds \ {r} : round'[q] = round[q]
    BY <1>4, BumpEffect DEF Correct
  <2>5. LiveRow(round'[r], entry'[r])
    BY <1>0, <2>3, <2>4, LiveSame
  <2> QED BY <2>3, <2>4, <2>5, LiveFrame
<1> QED BY <1>1, <1>2, <1>3, <1>4 DEF TurnNext

LEMMA LiveOptOut ==
  ASSUME TypeOK, LiveTables(round, entry), OptOutNext
  PROVE  LiveTables(round', entry')
<1>1. ASSUME NEW c \in Calls, RequestAutoApprove(c)
      PROVE  LiveTables(round', entry')
  <2>1. call[c].round \in RoundIds /\ call[c].student \in Students
    BY <1>1 DEF TypeOK, RequestAutoApprove
  <2>2. /\ TransitionEntry(call[c].round, call[c].student, "opted_out", Null)
        /\ Release(call[c].round, call[c].student)
    BY <1>1 DEF RequestAutoApprove
  <2> QED BY <2>1, <2>2, LiveTurnEnds
<1>2. ASSUME NEW r \in RoundIds, NEW s \in Students, NEW v, NEW i, NEW d,
             Decide(r, s, i, d, v)
      PROVE  LiveTables(round', entry')
  <2>1. \/ TransitionEntry(r, s, "opted_out", Null) /\ Release(r, s)
        \/ round' = round /\ entry' = entry
    BY <1>2 DEF Decide
  <2> QED BY <2>1, LiveTurnEnds
<1>3. ASSUME NEW c, NEW s,
             RequestRead(c, s) \/ RequestApprovalRequired(c) \/ RequestEnd(c)
      PROVE  LiveTables(round', entry')
  BY <1>3 DEF RequestRead, RequestApprovalRequired, RequestEnd
<1> QED BY <1>1, <1>2, <1>3 DEF OptOutNext

LEMMA LiveStep ==
  TypeOK /\ LiveTables(round, entry) /\ [Next]_vars => LiveTables(round, entry)'
<1> SUFFICES ASSUME TypeOK, LiveTables(round, entry), [Next]_vars
             PROVE  LiveTables(round', entry')
  OBVIOUS
<1>1. CASE UNCHANGED <<round, entry>>
  BY <1>1
<1>2. CASE SessionNext
  <2>1. UNCHANGED <<round, entry>>
    BY <1>2 DEF SessionNext, StartSession, EndSession, JoinSession,
                RemoveParticipant, JoinCircle, AssignRole, RemoveMember, UpdatePolicy
  <2> QED BY <1>1, <2>1
<1> QED BY <1>1, <1>2, LiveRound, LiveTurn, LiveOptOut DEF Next, vars

\* Turns are taken one at a time: in any round at most one entry recites, and
\* the selection that Start checks always names an unfinished entry of an active
\* round, the reciting one while there is one (turn_service.go).
THEOREM TurnsOneAtATime == Spec => [](OneReciter /\ SelectionIsLive)
<1>1. Init => LiveTables(round, entry)
  BY DEF Init, LiveTables, LiveRow, NoRound, NoEntry
<1>2. LiveTables(round, entry) => OneReciter /\ SelectionIsLive
  BY DEF LiveTables, LiveRow, OneReciter, SelectionIsLive
<1> QED BY <1>1, <1>2, LiveStep, TypeCorrect, PTL DEF Spec

-----------------------------------------------------------------------------
(* What a step does to one round                                           *)

\* The properties of versions, positions and finished turns follow from what a
\* step may do to the row x of a round, the rows of its entries and the versions
\* announced for it, whatever it does to other rounds: they become y, new and
\* dy.  An activation in the transaction that created the round is two moves.
EntryRows == [Students -> EntryRow]
NoEntries == [s \in Students |-> NoEntry]

Here(row) == {s \in Students : row[s].status # "absent"}

\* A turn moves on, or its grade is corrected.
Turned(row, new) ==
    \E s \in Students, f \in EntryRow :
        /\ new = [row EXCEPT ![s] = f]
        /\ s \in Here(row) /\ f.position = row[s].position /\ f.version = row[s].version + 1
        /\ f.status = row[s].status \/ CanTransitionEntry(row[s].status, f.status)

Joined(row, new) ==
    \E s \in Students \ Here(row), p \in Nat \ {0} :
        /\ new = [row EXCEPT ![s] = InsertQueueEntry(p)]
        /\ \A t \in Here(row) : row[t].position < p
        /\ p = 1 \/ \E t \in Here(row) : row[t].position = p - 1

Rearranged(row, new) ==
    \E s \in Here(row), to \in 1 .. Cardinality(Here(row)) :
        new = [t \in Students |->
                 IF row[t].status = "absent" THEN row[t]
                 ELSE [row[t] EXCEPT
                         !.position = ShiftedPosition(row[t].position, row[s].position, to),
                         !.version = row[t].version + 1]]

Skipped(row, new) ==
    new = [s \in Students |->
             IF row[s].status \in Unfinished
             THEN [row[s] EXCEPT !.status = "skipped", !.version = row[s].version + 1]
             ELSE row[s]]

Populated(row, new) ==
    /\ row = NoEntries
    /\ \E S \in SUBSET Students : \E position \in Injection(S, 1 .. Cardinality(S)) :
          new = [s \in Students |-> IF s \in S THEN InsertQueueEntry(position[s]) ELSE NoEntry]

\* The version is raised and announced.
Raised(x, dx, y, dy) ==
    /\ x.lifecycle # "absent" /\ y.lifecycle # "absent"
    /\ y.version = x.version + 1 /\ y.grading = x.grading
    /\ dy = Append(dx, x.version + 1)

Moved(x, row, dx, y, new, dy) ==
    \/ y = x /\ new = row /\ dy = dx
    \/ /\ Raised(x, dx, y, dy)
       /\ \/ /\ y.lifecycle = x.lifecycle
             /\ \/ new = row
                \/ x.lifecycle = "active" /\ (Joined(row, new) \/ Rearranged(row, new))
          \/ /\ x.lifecycle \in {"active", "prepared"} /\ y.lifecycle = "finalized"
             /\ new = row \/ Skipped(row, new)
          \/ /\ x.lifecycle = "prepared" /\ y.lifecycle = "active"
             /\ Populated(row, new)

\* The step of a turn command, of an opt-out or of a correction.
TurnStep(x, row, dx, y, new, dy) ==
    Raised(x, dx, y, dy) /\ y.lifecycle = x.lifecycle /\ Turned(row, new)

Created(x, y) == x = NoRound /\ y.lifecycle = "prepared" /\ y.version = 1

RoundStep(x, row, dx, y, new, dy) ==
    \/ Moved(x, row, dx, y, new, dy)
    \/ \E mid \in RoundRow : Created(x, mid) /\ Moved(mid, row, dx, y, new, dy)

-----------------------------------------------------------------------------
(* What is kept of one round                                               *)

\* The entries hold the places 1 .. n, each once.
Placed(row) ==
    /\ \A s \in Here(row) : row[s].position \in 1 .. Cardinality(Here(row))
    /\ \A s, t \in Here(row) : row[s].position = row[t].position => s = t

\* Every version but the first was announced, in order.
Told(x, dx) ==
    IF x.lifecycle = "absent" THEN dx = <<>>
    ELSE /\ x.version > 0 /\ Len(dx) = x.version - 1
         /\ \A i \in 1 .. Len(dx) : dx[i] = i + 1

\* A round that was not activated has no entries.
Kept(x, row, dx) ==
    /\ x.lifecycle = "absent" => x = NoRound
    /\ x.lifecycle \in {"absent", "prepared"} => row = NoEntries
    /\ \A s \in Students \ Here(row) : row[s] = NoEntry
    /\ Told(x, dx) /\ Placed(row)

LEMMA HereFinite ==
  ASSUME NEW row
  PROVE  IsFiniteSet(Here(row)) /\ Cardinality(Here(row)) \in Nat
<1>1. Here(row) \in SUBSET Students /\ IsFiniteSet(Students)
  BY QueueConstants DEF Here
<1> QED BY <1>1, FS_Subset, FS_CardinalityType

\* Every place up to the last is taken.
LEMMA PlacesFull ==
  ASSUME NEW row, Placed(row), NEW i \in 1 .. Cardinality(Here(row))
  PROVE  \E s \in Here(row) : row[s].position = i
<1> DEFINE S == Here(row)
           T == 1 .. Cardinality(S)
           f == [s \in S |-> row[s].position]
<1>1. f \in Injection(S, T)
  BY DEF Placed, Injection, IsInjective
<1>2. IsFiniteSet(S) /\ Cardinality(S) \in Nat
  BY HereFinite
<1>3. IsFiniteSet(T) /\ Cardinality(T) = Cardinality(S)
  <2>1. 1 \in Int /\ Cardinality(S) \in Int /\ Cardinality(S) \in Nat
    BY <1>2
  <2> QED BY <2>1, FS_Interval
<1>4. f \in Surjection(S, T)
  <2> HIDE DEF S, T, f
  <2> QED BY <1>1, <1>3, FS_Injection
<1> QED BY <1>4 DEF Surjection

\* Entries that keep their status and their place.
LEMMA SamePlaces ==
  ASSUME NEW row, NEW new, Placed(row), Here(new) = Here(row),
         \A s \in Here(row) : new[s].position = row[s].position
  PROVE  Placed(new)
  BY DEF Placed

LEMMA TurnedPlaced ==
  ASSUME NEW row \in EntryRows, NEW new, Placed(row), Turned(row, new)
  PROVE  Placed(new)
<1>1. PICK s \in Students, f \in EntryRow :
        /\ new = [row EXCEPT ![s] = f]
        /\ s \in Here(row) /\ f.position = row[s].position
        /\ f.status = row[s].status \/ CanTransitionEntry(row[s].status, f.status)
  BY DEF Turned
<1>2. \A t \in Students : new[t] = IF t = s THEN f ELSE row[t]
  BY <1>1 DEF EntryRows
<1>3. f.status # "absent"
  BY <1>1 DEF Here, CanTransitionEntry
<1>4. Here(new) = Here(row)
  BY <1>1, <1>2, <1>3 DEF Here
<1>5. \A t \in Here(row) : new[t].position = row[t].position
  BY <1>1, <1>2 DEF Here
<1> QED BY <1>4, <1>5, SamePlaces

LEMMA SkippedPlaced ==
  ASSUME NEW row \in EntryRows, NEW new, Placed(row), Skipped(row, new)
  PROVE  Placed(new)
<1>1. ASSUME NEW s \in Students
      PROVE  /\ (new[s].status = "absent") <=> (row[s].status = "absent")
             /\ new[s].position = row[s].position
  BY DEF Skipped, EntryRows, EntryRow, Unfinished
<1>2. Here(new) = Here(row)
  BY <1>1 DEF Here
<1> QED BY <1>1, <1>2, SamePlaces DEF Here

LEMMA JoinedPlaced ==
  ASSUME NEW row \in EntryRows, NEW new, Placed(row), Joined(row, new)
  PROVE  Placed(new)
<1>1. PICK s \in Students \ Here(row), p \in Nat \ {0} :
        /\ new = [row EXCEPT ![s] = InsertQueueEntry(p)]
        /\ \A t \in Here(row) : row[t].position < p
        /\ p = 1 \/ \E t \in Here(row) : row[t].position = p - 1
  BY DEF Joined
<1> DEFINE n == Cardinality(Here(row))
<1>2. n \in Nat
  BY HereFinite
<1>3. p = n + 1
  <2>1. p <= n + 1
    <3>1. CASE p = 1
      BY <1>2, <3>1
    <3>2. ASSUME NEW t \in Here(row), row[t].position = p - 1
          PROVE  p <= n + 1
      <4>1. row[t].position \in 1 .. n
        BY DEF Placed
      <4> QED BY <1>2, <3>2, <4>1
    <3> QED BY <1>1, <3>1, <3>2
  <2>2. n > 0 => p > n
    <3>1. n > 0 => \E t \in Here(row) : row[t].position = n
      BY <1>2, PlacesFull
    <3> QED BY <1>1, <3>1
  <2> QED BY <1>2, <2>1, <2>2
<1>4. \A t \in Students : new[t] = IF t = s THEN InsertQueueEntry(p) ELSE row[t]
  BY <1>1 DEF EntryRows
<1>5. InsertQueueEntry(p).status # "absent" /\ InsertQueueEntry(p).position = p
  BY DEF InsertQueueEntry
<1>6. Here(new) = Here(row) \cup {s}
  BY <1>4, <1>5 DEF Here
<1>7. Cardinality(Here(new)) = n + 1
  BY <1>6, HereFinite, FS_AddElement
<1>8. \A t \in Here(row) : new[t].position = row[t].position /\ row[t].position \in 1 .. n
  BY <1>4 DEF Here, Placed
<1>9. new[s].position = n + 1
  BY <1>3, <1>4, <1>5
<1> HIDE DEF n
<1>10. \A t \in Here(new) : new[t].position \in 1 .. n + 1
  BY <1>2, <1>6, <1>8, <1>9
<1>11. ASSUME NEW t \in Here(new), NEW u \in Here(new), new[t].position = new[u].position
       PROVE  t = u
  <2>1. CASE t = s \/ u = s
    BY <1>2, <1>6, <1>8, <1>9, <1>11, <2>1
  <2>2. CASE t # s /\ u # s
    <3>1. t \in Here(row) /\ u \in Here(row)
      BY <1>6, <2>2
    <3> QED BY <1>8, <1>11, <3>1 DEF Placed
  <2> QED BY <2>1, <2>2
<1> QED BY <1>7, <1>10, <1>11 DEF Placed

LEMMA ShiftIsPermutation ==
  ASSUME NEW n \in Nat, NEW from \in 1 .. n, NEW to \in 1 .. n
  PROVE  /\ \A p \in 1 .. n : ShiftedPosition(p, from, to) \in 1 .. n
         /\ \A p, q \in 1 .. n :
               ShiftedPosition(p, from, to) = ShiftedPosition(q, from, to) => p = q
  BY DEF ShiftedPosition

LEMMA RearrangedPlaced ==
  ASSUME NEW row \in EntryRows, NEW new, Placed(row), Rearranged(row, new)
  PROVE  Placed(new)
<1> DEFINE n == Cardinality(Here(row))
<1>1. PICK s \in Here(row), to \in 1 .. n :
        new = [t \in Students |->
                 IF row[t].status = "absent" THEN row[t]
                 ELSE [row[t] EXCEPT
                         !.position = ShiftedPosition(row[t].position, row[s].position, to),
                         !.version = row[t].version + 1]]
  BY DEF Rearranged
<1>2. n \in Nat /\ row[s].position \in 1 .. n
  BY HereFinite DEF Placed
<1>3. ASSUME NEW t \in Students
      PROVE  /\ (new[t].status = "absent") <=> (row[t].status = "absent")
             /\ t \in Here(row) =>
                  new[t].position = ShiftedPosition(row[t].position, row[s].position, to)
  <2>1. row[t] \in EntryRow
    BY DEF EntryRows
  <2>2. CASE row[t].status = "absent"
    BY <1>1, <2>2 DEF Here
  <2>3. CASE row[t].status # "absent"
    <3>1. new[t] = [row[t] EXCEPT
                         !.position = ShiftedPosition(row[t].position, row[s].position, to),
                         !.version = row[t].version + 1]
      BY <1>1, <2>3
    <3> QED BY <2>1, <2>3, <3>1 DEF EntryRow
  <2> QED BY <2>2, <2>3
<1>4. Here(new) = Here(row)
  BY <1>3 DEF Here
<1>5. \A t \in Here(row) : row[t].position \in 1 .. n
  BY DEF Placed
<1>6. \A t \in Here(row) : new[t].position = ShiftedPosition(row[t].position, row[s].position, to)
  BY <1>3 DEF Here
<1>7. Cardinality(Here(new)) = n
  BY <1>4
<1> HIDE DEF n
<1>8. /\ \A p \in 1 .. n : ShiftedPosition(p, row[s].position, to) \in 1 .. n
      /\ \A p, q \in 1 .. n :
           ShiftedPosition(p, row[s].position, to) = ShiftedPosition(q, row[s].position, to) => p = q
  BY <1>2, ShiftIsPermutation
<1>9. \A t \in Here(row) : new[t].position \in 1 .. n
  BY <1>5, <1>6, <1>8
<1>10. ASSUME NEW t \in Here(row), NEW u \in Here(row), new[t].position = new[u].position
      PROVE  t = u
  <2>1. row[t].position = row[u].position
    BY <1>5, <1>6, <1>8, <1>10
  <2> QED BY <2>1 DEF Placed
<1> QED BY <1>4, <1>7, <1>9, <1>10 DEF Placed

LEMMA PopulatedPlaced ==
  ASSUME NEW row, NEW new, Populated(row, new)
  PROVE  Placed(new)
<1>0. PICK S \in SUBSET Students : \E position \in Injection(S, 1 .. Cardinality(S)) :
          new = [s \in Students |-> IF s \in S THEN InsertQueueEntry(position[s]) ELSE NoEntry]
  BY Zenon DEF Populated
<1>1. PICK position \in Injection(S, 1 .. Cardinality(S)) :
          new = [s \in Students |-> IF s \in S THEN InsertQueueEntry(position[s]) ELSE NoEntry]
  BY <1>0
<1>2. \A s \in Students : new[s].status # "absent" <=> s \in S
  BY <1>1 DEF InsertQueueEntry, NoEntry
<1>3. Here(new) = S
  BY <1>2 DEF Here
<1>4. \A s \in S : new[s].position = position[s]
  BY <1>1 DEF InsertQueueEntry
<1>5. \A s \in S : position[s] \in 1 .. Cardinality(S)
  BY <1>1 DEF Injection
<1>6. \A s, t \in S : position[s] = position[t] => s = t
  BY <1>1 DEF Injection, IsInjective
<1> QED BY <1>3, <1>4, <1>5, <1>6 DEF Placed

LEMMA NoneHere == Here(NoEntries) = {} /\ Placed(NoEntries) /\ NoEntries \in EntryRows
<1>1. Here(NoEntries) = {}
  BY DEF Here, NoEntries, NoEntry
<1>2. NoEntries \in EntryRows
  BY NoRowsType DEF NoEntries, EntryRows
<1> QED BY <1>1, <1>2 DEF Placed

LEMMA RaisedTold ==
  ASSUME NEW x \in RoundRow, NEW dx \in Seq(Nat), NEW y, NEW dy, Told(x, dx), Raised(x, dx, y, dy)
  PROVE  Told(y, dy)
<1>1. /\ x.version \in Nat \ {0} /\ Len(dx) = x.version - 1 /\ \A i \in 1 .. Len(dx) : dx[i] = i + 1
      /\ y.version = x.version + 1 /\ dy = Append(dx, x.version + 1) /\ y.lifecycle # "absent"
  BY DEF Raised, Told, RoundRow
<1>2. Len(dy) = Len(dx) + 1 /\ \A i \in 1 .. Len(dx) : dy[i] = dx[i]
  BY <1>1
<1>3. dy[Len(dx) + 1] = x.version + 1
  BY <1>1
<1>4. \A i \in 1 .. Len(dy) : i \in 1 .. Len(dx) \/ i = Len(dx) + 1
  BY <1>1, <1>2
<1>5. \A i \in 1 .. Len(dy) : dy[i] = i + 1
  BY <1>1, <1>2, <1>3, <1>4
<1> QED BY <1>1, <1>2, <1>5 DEF Told

\* What a move does to one entry.
EntryMoved(e, f) ==
    \/ f = e
    \/ /\ f.version = e.version + 1
       /\ \/ e.status = "absent" /\ f.status = "waiting"
          \/ e.status # "absent" /\ f.status = e.status
          \/ CanTransitionEntry(e.status, f.status)

LEMMA TurnedEntry ==
  ASSUME NEW row \in EntryRows, NEW new, Turned(row, new), NEW s \in Students
  PROVE  EntryMoved(row[s], new[s])
<1>1. PICK u \in Students, f \in EntryRow :
        /\ new = [row EXCEPT ![u] = f]
        /\ u \in Here(row) /\ f.version = row[u].version + 1
        /\ f.status = row[u].status \/ CanTransitionEntry(row[u].status, f.status)
  BY DEF Turned
<1>2. new[s] = IF s = u THEN f ELSE row[s]
  BY <1>1 DEF EntryRows
<1> QED BY <1>1, <1>2 DEF EntryMoved, Here

LEMMA MovedEntry ==
  ASSUME NEW x, NEW row \in EntryRows, NEW dx, NEW y, NEW new, NEW dy,
         \A s \in Students \ Here(row) : row[s] = NoEntry,
         Moved(x, row, dx, y, new, dy), NEW s \in Students
  PROVE  EntryMoved(row[s], new[s])
<1>0. row[s] \in EntryRow
  BY DEF EntryRows
<1>1. CASE new = row
  BY <1>1 DEF EntryMoved
<1>3. CASE Joined(row, new)
  <2>1. PICK u \in Students \ Here(row), p \in Nat \ {0} : new = [row EXCEPT ![u] = InsertQueueEntry(p)]
    BY <1>3 DEF Joined
  <2>2. new[s] = IF s = u THEN InsertQueueEntry(p) ELSE row[s]
    BY <2>1 DEF EntryRows
  <2>3. row[u] = NoEntry
    BY <2>1
  <2> QED BY <2>2, <2>3 DEF EntryMoved, InsertQueueEntry, NoEntry
<1>4. CASE Rearranged(row, new)
  <2>1. \/ row[s].status = "absent" /\ new[s] = row[s]
        \/ \E q : /\ row[s].status # "absent"
                  /\ new[s] = [row[s] EXCEPT !.position = q, !.version = row[s].version + 1]
    BY <1>4 DEF Rearranged
  <2> QED BY <1>0, <2>1 DEF EntryMoved, EntryRow
<1>5. CASE Skipped(row, new)
  <2>1. \/ new[s] = row[s]
        \/ /\ row[s].status \in Unfinished
           /\ new[s] = [row[s] EXCEPT !.status = "skipped", !.version = row[s].version + 1]
    BY <1>5 DEF Skipped
  <2> QED BY <1>0, <2>1 DEF EntryMoved, EntryRow, CanTransitionEntry
<1>6. CASE Populated(row, new)
  <2>1. row[s] = NoEntry /\ (new[s] = NoEntry \/ \E p : new[s] = InsertQueueEntry(p))
    BY <1>6 DEF Populated, NoEntries
  <2>2. CASE new[s] = NoEntry
    BY <2>1, <2>2 DEF EntryMoved
  <2>3. ASSUME NEW p, new[s] = InsertQueueEntry(p)
        PROVE  EntryMoved(row[s], new[s])
    BY <2>1, <2>3 DEF EntryMoved, InsertQueueEntry, NoEntry
  <2> QED BY <2>1, <2>2, <2>3
<1> QED BY <1>1, <1>3, <1>4, <1>5, <1>6 DEF Moved

LEMMA MovedKept ==
  ASSUME NEW x \in RoundRow, NEW row \in EntryRows, NEW dx \in Seq(Nat),
         NEW y, NEW new, NEW dy,
         Kept(x, row, dx), Moved(x, row, dx, y, new, dy)
  PROVE  Kept(y, new, dy)
<1>1. CASE y = x /\ new = row /\ dy = dx
  BY <1>1
<1>2. CASE Raised(x, dx, y, dy)
  <2>1. Told(y, dy)
    BY <1>2, RaisedTold DEF Kept
  <2>2. Placed(new)
    <3>1. new = row \/ Joined(row, new) \/ Rearranged(row, new)
          \/ Skipped(row, new) \/ Populated(row, new)
      BY <1>1, <1>2 DEF Moved
    <3> QED BY <3>1, JoinedPlaced, RearrangedPlaced, SkippedPlaced, PopulatedPlaced DEF Kept
  <2>3. y.lifecycle # "absent"
    BY <1>2 DEF Raised
  <2>4. ASSUME y.lifecycle = "prepared"
        PROVE  new = NoEntries
    <3>1. x.lifecycle = "prepared" /\ new = row
      BY <1>2, <2>4 DEF Moved, Raised
    <3> QED BY <3>1 DEF Kept
  <2>5. ASSUME NEW s \in Students \ Here(new)
        PROVE  new[s] = NoEntry
    <3>1. EntryMoved(row[s], new[s]) /\ new[s].status = "absent"
      BY <2>5, MovedEntry DEF Kept, Here
    <3>2. new[s] = row[s]
      BY <3>1 DEF EntryMoved, CanTransitionEntry
    <3> QED BY <3>1, <3>2 DEF Kept, Here
  <2> QED BY <2>1, <2>2, <2>3, <2>4, <2>5 DEF Kept
<1> QED BY <1>1, <1>2 DEF Moved

LEMMA TurnKept ==
  ASSUME NEW x \in RoundRow, NEW row \in EntryRows, NEW dx \in Seq(Nat),
         NEW y, NEW new, NEW dy,
         Kept(x, row, dx), TurnStep(x, row, dx, y, new, dy)
  PROVE  Kept(y, new, dy)
<1>1. Told(y, dy) /\ y.lifecycle # "absent"
  BY RaisedTold DEF Kept, TurnStep, Raised
<1>2. Placed(new)
  BY TurnedPlaced DEF Kept, TurnStep
<1>3. ~(y.lifecycle = "prepared")
  <2>1. ASSUME row = NoEntries PROVE FALSE
    BY <2>1, NoneHere DEF TurnStep, Turned
  <2> QED BY <2>1 DEF Kept, TurnStep
<1>4. ASSUME NEW s \in Students \ Here(new)
      PROVE  new[s] = NoEntry
  <2>1. EntryMoved(row[s], new[s]) /\ new[s].status = "absent"
    BY <1>4, TurnedEntry DEF TurnStep, Here
  <2>2. new[s] = row[s]
    BY <2>1 DEF EntryMoved, CanTransitionEntry
  <2> QED BY <2>1, <2>2 DEF Kept, Here
<1> QED BY <1>1, <1>2, <1>3, <1>4 DEF Kept

LEMMA CreatedKept ==
  ASSUME NEW x, NEW row, NEW dx, NEW y, Kept(x, row, dx), Created(x, y)
  PROVE  Kept(y, row, dx)
<1>1. x.lifecycle = "absent"
  BY DEF Created, NoRound
<1>2. row = NoEntries /\ dx = <<>>
  BY <1>1 DEF Kept, Told
<1>3. Told(y, dx)
  BY <1>2 DEF Told, Created
<1> QED BY <1>2, <1>3, NoneHere DEF Kept, Created

LEMMA StepKept ==
  ASSUME NEW x \in RoundRow, NEW row \in EntryRows, NEW dx \in Seq(Nat),
         NEW y, NEW new, NEW dy,
         Kept(x, row, dx),
         RoundStep(x, row, dx, y, new, dy) \/ TurnStep(x, row, dx, y, new, dy)
  PROVE  Kept(y, new, dy)
<1>1. ASSUME NEW mid \in RoundRow, Created(x, mid), Moved(mid, row, dx, y, new, dy)
      PROVE  Kept(y, new, dy)
  BY <1>1, CreatedKept, MovedKept
<1> QED BY <1>1, MovedKept, TurnKept DEF RoundStep

-----------------------------------------------------------------------------
(* What is true of every step of one round                                 *)

LEMMA StepEntry ==
  ASSUME NEW x, NEW row \in EntryRows, NEW dx, NEW y, NEW new, NEW dy,
         Kept(x, row, dx),
         RoundStep(x, row, dx, y, new, dy) \/ TurnStep(x, row, dx, y, new, dy), NEW s \in Students
  PROVE  EntryMoved(row[s], new[s])
  BY MovedEntry, TurnedEntry DEF RoundStep, TurnStep, Kept

LEMMA StepVersion ==
  ASSUME NEW x \in RoundRow, NEW row, NEW dx, NEW y, NEW new, NEW dy,
         RoundStep(x, row, dx, y, new, dy) \/ TurnStep(x, row, dx, y, new, dy)
  PROVE  \/ y = x /\ new = row
         \/ y.version > x.version
<1>1. \A r \in RoundRow : r.version \in Nat
  BY DEF RoundRow
<1>2. ASSUME NEW r \in RoundRow, Moved(r, row, dx, y, new, dy)
      PROVE  (y = r /\ new = row) \/ y.version = r.version + 1
  BY <1>2 DEF Moved, Raised
<1>3. ASSUME NEW mid \in RoundRow, Created(x, mid), Moved(mid, row, dx, y, new, dy)
      PROVE  y.version > x.version
  <2>1. x.version = 0 /\ mid.version = 1
    BY <1>3 DEF Created, NoRound
  <2> QED BY <1>2, <1>3, <2>1
<1>4. CASE TurnStep(x, row, dx, y, new, dy)
  BY <1>1, <1>4 DEF TurnStep, Raised
<1> QED BY <1>1, <1>2, <1>3, <1>4 DEF RoundStep

-----------------------------------------------------------------------------
(* Every step of the queue is such a step of each round                    *)

Rounds == \A r \in RoundIds : Kept(round[r], entry[r], deltas[r])
Arranged ==
    \A r \in RoundIds :
       RoundStep(round[r], entry[r], deltas[r], round'[r], entry'[r], deltas'[r])
Stepped ==
    \A r \in RoundIds :
       \/ RoundStep(round[r], entry[r], deltas[r], round'[r], entry'[r], deltas'[r])
       \/ TurnStep(round[r], entry[r], deltas[r], round'[r], entry'[r], deltas'[r])

LEMMA RowsOf ==
  ASSUME TypeOK, NEW r \in RoundIds
  PROVE  round[r] \in RoundRow /\ entry[r] \in EntryRows /\ deltas[r] \in Seq(Nat)
  BY DEF TypeOK, EntryRows

LEMMA StillSteps ==
  ASSUME UNCHANGED <<round, entry, deltas>>
  PROVE  Arranged
  BY DEF Arranged, RoundStep, Moved

LEMMA ArrangedStepped == Arranged => Stepped
  BY DEF Arranged, Stepped

LEMMA OneSteps ==
  ASSUME NEW r \in RoundIds,
         Moved(round[r], entry[r], deltas[r], round'[r], entry'[r], deltas'[r]),
         \A q \in RoundIds \ {r} : /\ round'[q] = round[q] /\ entry'[q] = entry[q]
                                   /\ deltas'[q] = deltas[q]
  PROVE  Arranged
  BY DEF Arranged, RoundStep, Moved

LEMMA OneTurns ==
  ASSUME NEW r \in RoundIds,
         TurnStep(round[r], entry[r], deltas[r], round'[r], entry'[r], deltas'[r]),
         \A q \in RoundIds \ {r} : /\ round'[q] = round[q] /\ entry'[q] = entry[q]
                                   /\ deltas'[q] = deltas[q]
  PROVE  Stepped
  BY DEF Stepped, RoundStep, Moved

\* Bump and Release.
LEMMA BumpRaises ==
  ASSUME TypeOK, NEW r \in RoundIds, round[r].lifecycle # "absent",
         Bump(r) \/ \E s \in Students : Release(r, s)
  PROVE  /\ Raised(round[r], deltas[r], round'[r], deltas'[r])
         /\ round'[r].lifecycle = round[r].lifecycle
         /\ \A q \in RoundIds \ {r} : round'[q] = round[q] /\ deltas'[q] = deltas[q]
<1>1. /\ round[r] \in RoundRow /\ round \in [RoundIds -> RoundRow]
      /\ deltas \in [RoundIds -> Seq(Nat)]
  BY DEF TypeOK
<1>2. /\ round'[r].lifecycle = round[r].lifecycle /\ round'[r].grading = round[r].grading
      /\ round'[r].version = round[r].version + 1
      /\ \A q \in RoundIds \ {r} : round'[q] = round[q]
  <2>1. CASE Bump(r)
    BY <1>1, <2>1 DEF Bump, RoundRow
  <2>2. CASE \E s \in Students : Release(r, s)
    BY <1>1, <2>2 DEF Release, RoundRow
  <2> QED BY <2>1, <2>2
<1>3. deltas' = [deltas EXCEPT ![r] = Append(deltas[r], round[r].version + 1)]
  BY DEF Bump, Release, Announce
<1>4. deltas'[r] = Append(deltas[r], round[r].version + 1) /\ \A q \in RoundIds \ {r} : deltas'[q] = deltas[q]
  BY <1>1, <1>3
<1> QED BY <1>2, <1>4 DEF Raised

LEMMA CorrectedEntry ==
  ASSUME NEW e \in EntryRow, NEW g \in Grades \cup {Null}
  PROVE  \E f \in EntryRow :
           /\ f = [[e EXCEPT !.grade = g] EXCEPT !.version = e.version + 1]
           /\ f.status = e.status /\ f.position = e.position /\ f.version = e.version + 1
<1>1. PICK v \in Nat : v = e.version + 1
  BY DEF EntryRow
<1>2. [e EXCEPT !.grade = g] \in EntryRow
  BY DEF EntryRow
<1>3. LET f == [[e EXCEPT !.grade = g] EXCEPT !.version = v]
      IN  /\ f \in EntryRow /\ f.status = e.status
          /\ f.position = e.position /\ f.version = v
  BY <1>2 DEF EntryRow
<1> QED BY <1>1, <1>3

LEMMA TransitionedEntry ==
  ASSUME NEW e \in EntryRow, NEW g \in Grades \cup {Null}, NEW to \in EntryStatuses
  PROVE  \E f \in EntryRow :
           /\ f = [[[e EXCEPT !.status = to] EXCEPT !.grade = g] EXCEPT !.version = e.version + 1]
           /\ f.status = to /\ f.position = e.position /\ f.version = e.version + 1
<1>1. PICK d \in EntryRow : d = [e EXCEPT !.status = to]
  BY DEF EntryRow
<1>2. d.status = to /\ d.position = e.position /\ d.version = e.version
  BY <1>1 DEF EntryRow
<1>3. PICK f \in EntryRow :
        /\ f = [[d EXCEPT !.grade = g] EXCEPT !.version = d.version + 1]
        /\ f.status = d.status /\ f.position = d.position /\ f.version = d.version + 1
  BY CorrectedEntry
<1> QED BY <1>1, <1>2, <1>3

LEMMA TransitionTurns ==
  ASSUME TypeOK, Rounds, NEW r \in RoundIds, NEW s \in Students, NEW to, NEW g \in Grades \cup {Null},
         TransitionEntry(r, s, to, g)
  PROVE  /\ Turned(entry[r], entry'[r]) /\ round[r].lifecycle \notin {"absent", "prepared"}
         /\ \A q \in RoundIds \ {r} : entry'[q] = entry[q]
<1>1. /\ entry \in [RoundIds -> EntryRows] /\ entry[r] \in EntryRows /\ entry[r][s] \in EntryRow
  BY DEF TypeOK, EntryRows
<1>2. PICK e \in EntryRow : e = entry[r][s]
  BY <1>1
<1>3. /\ CanTransitionEntry(e.status, to)
      /\ entry' = [entry EXCEPT ![r] = [entry[r] EXCEPT ![s] =
           [[[e EXCEPT !.status = to] EXCEPT !.grade = g] EXCEPT !.version = e.version + 1]]]
  BY <1>1, <1>2 DEF TransitionEntry, EntryRows
<1>4. e.status # "absent" /\ to \in EntryStatuses
  BY <1>3 DEF CanTransitionEntry, Unfinished, EntryStatuses
<1>5. PICK f \in EntryRow :
        /\ f = [[[e EXCEPT !.status = to] EXCEPT !.grade = g] EXCEPT !.version = e.version + 1]
        /\ f.status = to /\ f.position = e.position /\ f.version = e.version + 1
  BY <1>4, TransitionedEntry
<1>6. /\ entry'[r] = [entry[r] EXCEPT ![s] = f] /\ s \in Here(entry[r])
      /\ \A q \in RoundIds \ {r} : entry'[q] = entry[q]
  BY <1>1, <1>2, <1>3, <1>4, <1>5 DEF Here
<1>7. Turned(entry[r], entry'[r])
  <2>1. f.position = entry[r][s].position /\ f.version = entry[r][s].version + 1
    BY <1>2, <1>5
  <2>2. CanTransitionEntry(entry[r][s].status, f.status)
    BY <1>2, <1>3, <1>5
  <2> QED BY <1>6, <2>1, <2>2, Zenon DEF Turned
<1>8. round[r].lifecycle \notin {"absent", "prepared"}
  BY <1>2, <1>4 DEF Rounds, Kept, NoEntries, NoEntry
<1> QED BY <1>6, <1>7, <1>8

LEMMA TransitionSteps ==
  ASSUME TypeOK, Rounds, NEW r \in RoundIds, NEW s \in Students, NEW to, NEW g \in Grades \cup {Null},
         TransitionEntry(r, s, to, g), Bump(r) \/ Release(r, s)
  PROVE  Stepped
<1>1. /\ Turned(entry[r], entry'[r]) /\ round[r].lifecycle # "absent"
      /\ \A q \in RoundIds \ {r} : entry'[q] = entry[q]
  BY TransitionTurns
<1>2. /\ Raised(round[r], deltas[r], round'[r], deltas'[r])
      /\ round'[r].lifecycle = round[r].lifecycle
      /\ \A q \in RoundIds \ {r} : round'[q] = round[q] /\ deltas'[q] = deltas[q]
  BY <1>1, BumpRaises
<1>3. TurnStep(round[r], entry[r], deltas[r], round'[r], entry'[r], deltas'[r])
  BY <1>1, <1>2 DEF TurnStep
<1> QED BY <1>1, <1>2, <1>3, OneTurns

LEMMA TurnSteps ==
  ASSUME TypeOK, Rounds, TurnNext
  PROVE  Stepped
<1>1. ASSUME NEW r \in RoundIds, NEW v, Advance(r, v)
      PROVE  Stepped
  <2>1. PICK s \in Students :
           /\ round' = [round EXCEPT ![r].selected = s, ![r].version = round[r].version + 1]
           /\ Announce(r) /\ entry' = entry /\ round[r].lifecycle = "active"
    BY <1>1 DEF Advance
  <2>2. /\ round'[r].lifecycle = "active" /\ round'[r].grading = round[r].grading
        /\ round'[r].version = round[r].version + 1
        /\ \A q \in RoundIds \ {r} : round'[q] = round[q]
    BY <2>1, Tables, RoundRowOf DEF RoundRow
  <2>3. /\ deltas'[r] = Append(deltas[r], round[r].version + 1)
        /\ \A q \in RoundIds \ {r} : deltas'[q] = deltas[q]
    BY <2>1, Tables DEF Announce
  <2>4. Moved(round[r], entry[r], deltas[r], round'[r], entry'[r], deltas'[r])
    BY <2>1, <2>2, <2>3 DEF Moved, Raised
  <2> QED BY <2>1, <2>2, <2>3, <2>4, OneSteps, ArrangedStepped
<1>2. ASSUME NEW r \in RoundIds, NEW v, NEW s \in Students, Start(r, s, v) \/ Skip(r, s, v)
      PROVE  Stepped
  BY <1>2, TransitionSteps DEF Start, Skip
<1>3. ASSUME NEW r \in RoundIds, NEW v, NEW s \in Students, NEW g \in Grades \cup {Null},
             Complete(r, s, v, g)
      PROVE  Stepped
  BY <1>3, TransitionSteps DEF Complete
<1>4. ASSUME NEW r \in RoundIds, NEW v, NEW s \in Students, NEW g \in Grades \cup {Null},
             Correct(r, s, v, g)
      PROVE  Stepped
  <2>1. entry \in [RoundIds -> EntryRows] /\ entry[r] \in EntryRows /\ entry[r][s] \in EntryRow
    BY DEF TypeOK, EntryRows
  <2>2. PICK e \in EntryRow, h \in Grades \cup {Null} :
           /\ e = entry[r][s]
           /\ entry' = [entry EXCEPT ![r][s].grade = h, ![r][s].version = entry[r][s].version + 1]
    BY <1>4, <2>1 DEF Correct, EntryRow
  <2>3. PICK f \in EntryRow :
           /\ f = [[e EXCEPT !.grade = h] EXCEPT !.version = e.version + 1]
           /\ f.status = e.status /\ f.position = e.position /\ f.version = e.version + 1
    BY CorrectedEntry
  <2>4. entry' = [entry EXCEPT ![r] = [entry[r] EXCEPT ![s] = f]]
    BY <2>1, <2>2, <2>3 DEF EntryRows
  <2>5. entry[r][s].status = "completed" /\ Bump(r)
    BY <1>4 DEF Correct
  <2>6. Turned(entry[r], entry'[r])
    <3>1. entry'[r] = [entry[r] EXCEPT ![s] = f] /\ s \in Here(entry[r])
      BY <2>1, <2>4, <2>5 DEF Here
    <3> QED BY <2>2, <2>3, <3>1 DEF Turned
  <2>7. round[r].lifecycle # "absent"
    BY <2>5 DEF Rounds, Kept, NoEntries, NoEntry
  <2>8. \A q \in RoundIds \ {r} : entry'[q] = entry[q]
    BY <2>1, <2>4
  <2>9. /\ Raised(round[r], deltas[r], round'[r], deltas'[r])
        /\ round'[r].lifecycle = round[r].lifecycle
        /\ \A q \in RoundIds \ {r} : round'[q] = round[q] /\ deltas'[q] = deltas[q]
    BY <2>5, <2>7, BumpRaises
  <2>10. TurnStep(round[r], entry[r], deltas[r], round'[r], entry'[r], deltas'[r])
    BY <2>6, <2>9 DEF TurnStep
  <2> QED BY <2>8, <2>9, <2>10, OneTurns
<1> QED BY <1>1, <1>2, <1>3, <1>4 DEF TurnNext

LEMMA OptOutSteps ==
  ASSUME TypeOK, Rounds, OptOutNext
  PROVE  Stepped
<1>1. ASSUME NEW c \in Calls, RequestAutoApprove(c)
      PROVE  Stepped
  <2>1. call[c].round \in RoundIds /\ call[c].student \in Students
    BY <1>1 DEF TypeOK, RequestAutoApprove
  <2>2. /\ TransitionEntry(call[c].round, call[c].student, "opted_out", Null)
        /\ Release(call[c].round, call[c].student)
    BY <1>1 DEF RequestAutoApprove
  <2> QED BY <2>1, <2>2, TransitionSteps
<1>2. ASSUME NEW r \in RoundIds, NEW s \in Students, NEW v, NEW i, NEW d,
             Decide(r, s, i, d, v)
      PROVE  Stepped
  <2>1. \/ TransitionEntry(r, s, "opted_out", Null) /\ Release(r, s)
        \/ UNCHANGED <<round, entry, deltas>>
    BY <1>2 DEF Decide
  <2> QED BY <2>1, TransitionSteps, StillSteps, ArrangedStepped
<1>3. ASSUME NEW c, NEW s,
             RequestRead(c, s) \/ RequestApprovalRequired(c) \/ RequestEnd(c)
      PROVE  Stepped
  BY <1>3, StillSteps, ArrangedStepped DEF RequestRead, RequestApprovalRequired, RequestEnd
<1> QED BY <1>1, <1>2, <1>3 DEF OptOutNext

\* activateLowest is a move of every round; it leaves alone what is not prepared.
LEMMA ActivateMoves ==
  ASSUME members \subseteq Students,
         NEW rs \in [RoundIds -> RoundRow], NEW es \in [RoundIds -> EntryRows],
         NEW ds \in [RoundIds -> Seq(Nat)], ActivateLowest(rs, es, ds),
         NEW q \in RoundIds, rs[q].lifecycle = "prepared" => es[q] = NoEntries
  PROVE  /\ Moved(rs[q], es[q], ds[q], round'[q], entry'[q], deltas'[q])
         /\ rs[q].lifecycle # "prepared" =>
               round'[q] = rs[q] /\ entry'[q] = es[q] /\ deltas'[q] = ds[q]
<1>1. CASE round' = rs /\ entry' = es /\ deltas' = ds
  BY <1>1 DEF Moved
<1>2. ASSUME NEW r \in RoundIds, LowestPrepared(rs, r),
             \E position \in PopulationOrders(rs[r].preorder) :
                entry' = [es EXCEPT ![r] = [s \in Students |->
                   IF s \in Eligible THEN InsertQueueEntry(position[s]) ELSE NoEntry]],
             round' = [rs EXCEPT ![r].lifecycle = "active", ![r].version = rs[r].version + 1],
             deltas' = [ds EXCEPT ![r] = Append(@, rs[r].version + 1)]
      PROVE  /\ Moved(rs[q], es[q], ds[q], round'[q], entry'[q], deltas'[q])
             /\ rs[q].lifecycle # "prepared" =>
                   round'[q] = rs[q] /\ entry'[q] = es[q] /\ deltas'[q] = ds[q]
  <2>1. PICK position \in PopulationOrders(rs[r].preorder) :
           entry' = [es EXCEPT ![r] = [s \in Students |->
              IF s \in Eligible THEN InsertQueueEntry(position[s]) ELSE NoEntry]]
    BY <1>2
  <2>2. rs[r].lifecycle = "prepared"
    BY <1>2 DEF LowestPrepared, PreparedRounds
  <2>3. CASE q # r
    <3>1. round'[q] = rs[q] /\ entry'[q] = es[q] /\ deltas'[q] = ds[q]
      BY <1>2, <2>1, <2>3
    <3> QED BY <3>1 DEF Moved
  <2>4. CASE q = r
    <3>1. entry'[r] = [s \in Students |->
              IF s \in Eligible THEN InsertQueueEntry(position[s]) ELSE NoEntry]
      BY <2>1
    <3>2. position \in Injection(Eligible, 1 .. Cardinality(Eligible))
      <4>1. /\ position \in [Eligible -> 1 .. Cardinality(Eligible)]
            /\ \A s, t \in Eligible : position[s] = position[t] => s = t
        BY Zenon DEF PopulationOrders
      <4> QED BY <4>1 DEF Injection, IsInjective
    <3>3. Eligible \in SUBSET Students
      BY DEF Eligible
    <3>4. es[r] = NoEntries
      BY <2>2, <2>4
    <3>5. Populated(es[r], entry'[r])
      BY <3>1, <3>2, <3>3, <3>4, Zenon DEF Populated
    <3>6. /\ round'[r].lifecycle = "active" /\ round'[r].version = rs[r].version + 1
          /\ round'[r].grading = rs[r].grading
      BY <1>2 DEF RoundRow
    <3>7. deltas'[r] = Append(ds[r], rs[r].version + 1)
      BY <1>2
    <3> QED BY <2>2, <2>4, <3>5, <3>6, <3>7 DEF Moved, Raised
  <2> QED BY <2>3, <2>4
<1>3. \/ round' = rs /\ entry' = es /\ deltas' = ds
      \/ \E r \in RoundIds :
           /\ LowestPrepared(rs, r)
           /\ \E position \in PopulationOrders(rs[r].preorder) :
                entry' = [es EXCEPT ![r] = [s \in Students |->
                   IF s \in Eligible THEN InsertQueueEntry(position[s]) ELSE NoEntry]]
           /\ round' = [rs EXCEPT ![r].lifecycle = "active", ![r].version = rs[r].version + 1]
           /\ deltas' = [ds EXCEPT ![r] = Append(@, rs[r].version + 1)]
  BY Zenon DEF ActivateLowest
<1> QED BY <1>1, <1>2, <1>3

\* The transaction has created round n, or none, and then activates.
LEMMA ActivateSteps ==
  ASSUME TypeOK, Rounds,
         NEW rs \in [RoundIds -> RoundRow], NEW n \in RoundIds,
         rs[n] = round[n] \/ Created(round[n], rs[n]),
         \A r \in RoundIds \ {n} : rs[r] = round[r],
         ActivateLowest(rs, entry, deltas)
  PROVE  Arranged
<1> SUFFICES ASSUME NEW q \in RoundIds
             PROVE  RoundStep(round[q], entry[q], deltas[q], round'[q], entry'[q], deltas'[q])
  BY DEF Arranged
<1>1. rs[q] = round[q] \/ Created(round[q], rs[q])
  OBVIOUS
<1>2. Kept(round[q], entry[q], deltas[q])
  BY DEF Rounds
<1>3. rs[q].lifecycle = "prepared" => entry[q] = NoEntries
  BY <1>1, <1>2 DEF Kept, Created, NoRound
<1>4. members \subseteq Students /\ entry \in [RoundIds -> EntryRows] /\ deltas \in [RoundIds -> Seq(Nat)]
  BY DEF TypeOK, EntryRows
<1>5. Moved(rs[q], entry[q], deltas[q], round'[q], entry'[q], deltas'[q])
  BY <1>3, <1>4, ActivateMoves
<1>6. rs[q] \in RoundRow
  OBVIOUS
<1> QED BY <1>1, <1>5, <1>6 DEF RoundStep

\* FinalizeRound and the first half of a reset, for the finalized round itself.
LEMMA FinalizeMoves ==
  ASSUME TypeOK, NEW a \in RoundIds, round[a].lifecycle \in {"active", "prepared"}
  PROVE  /\ Moved(round[a], entry[a], deltas[a], FinalizedRound(a)[a],
                  MarkUnfinishedSkipped(a)[a], Append(deltas[a], round[a].version + 1))
         /\ FinalizedRound(a)[a].lifecycle = "finalized"
         /\ \A q \in RoundIds \ {a} : /\ FinalizedRound(a)[q] = round[q]
                                      /\ MarkUnfinishedSkipped(a)[q] = entry[q]
<1>1. /\ FinalizedRound(a)[a].lifecycle = "finalized"
      /\ FinalizedRound(a)[a].version = round[a].version + 1
      /\ FinalizedRound(a)[a].grading = round[a].grading
      /\ \A q \in RoundIds \ {a} : FinalizedRound(a)[q] = round[q]
  BY Tables, RoundRowOf DEF FinalizedRound, RoundRow
<1>2. /\ MarkUnfinishedSkipped(a)[a] = entry[a] \/ Skipped(entry[a], MarkUnfinishedSkipped(a)[a])
      /\ \A q \in RoundIds \ {a} : MarkUnfinishedSkipped(a)[q] = entry[q]
  BY Tables DEF MarkUnfinishedSkipped, Skipped
<1>3. Raised(round[a], deltas[a], FinalizedRound(a)[a], Append(deltas[a], round[a].version + 1))
  BY <1>1 DEF Raised
<1> QED BY <1>1, <1>2, <1>3 DEF Moved

LEMMA NewIsCreated ==
  ASSUME Rounds, NEW n \in RoundIds, NextRoundNumber(n), NEW g, NEW p
  PROVE  Created(round[n], NewRound(g, p))
<1>1. round[n].lifecycle = "absent"
  BY DEF NextRoundNumber, RoundIds
<1> QED BY <1>1 DEF Rounds, Kept, Created, NewRound

\* Both forms of a reset, up to the activation.
LEMMA ResetCreates ==
  ASSUME Rounds, NEW a \in RoundIds, NEW n \in RoundIds,
         NEW g \in BOOLEAN, NEW p \in Preorders, ResetRows(a, n, g, p)
  PROVE  \E x \in RoundRow : /\ x = NewRound(g, p) /\ Created(round[n], x)
                             /\ round[a].lifecycle = "active" /\ round[n].lifecycle = "absent"
<1>1. round[a].lifecycle = "active" /\ NextRoundNumber(n)
  BY DEF ResetRows
<1>2. Created(round[n], NewRound(g, p)) /\ round[n].lifecycle = "absent"
  BY <1>1, NewIsCreated DEF NextRoundNumber, RoundIds
<1> QED BY <1>1, <1>2, NewRoundType

\* What the first half writes, given the new row x.
ResetRounds(a, n, x) == [FinalizedRound(a) EXCEPT ![n] = x]
ResetDeltas(a) == [deltas EXCEPT ![a] = Append(deltas[a], round[a].version + 1)]

LEMMA ResetSteps ==
  ASSUME TypeOK, Rounds, NEW a \in RoundIds, NEW n \in RoundIds,
         round[a].lifecycle = "active", round[n].lifecycle = "absent",
         NEW x \in RoundRow, Created(round[n], x), NEW rs, NEW es, NEW ds,
         rs = ResetRounds(a, n, x), es = MarkUnfinishedSkipped(a), ds = ResetDeltas(a)
  PROVE  /\ rs \in [RoundIds -> RoundRow] /\ es \in [RoundIds -> EntryRows]
         /\ ds \in [RoundIds -> Seq(Nat)]
         /\ n # a /\ Created(round[n], rs[n])
         /\ Moved(round[a], entry[a], deltas[a], rs[a], es[a], ds[a]) /\ rs[a].lifecycle = "finalized"
         /\ \A q \in RoundIds \ {a} : es[q] = entry[q] /\ ds[q] = deltas[q]
         /\ \A q \in RoundIds \ {a, n} : rs[q] = round[q]
<1>1. rs \in [RoundIds -> RoundRow]
  BY FinalizedType DEF ResetRounds
<1>2. es \in [RoundIds -> EntryRows]
  BY FinalizedType DEF EntryRows
<1>3. ds \in [RoundIds -> Seq(Nat)]
  <2>1. deltas[a] \in Seq(Nat) /\ round[a].version + 1 \in Nat
    BY RowsOf, RoundRowOf
  <2>2. Append(deltas[a], round[a].version + 1) \in Seq(Nat)
    BY <2>1
  <2> QED BY <2>2, Tables DEF ResetDeltas
<1>5. n # a
  OBVIOUS
<1>6. /\ rs[n] = x /\ \A q \in RoundIds \ {n} : rs[q] = FinalizedRound(a)[q]
  BY FinalizedType DEF ResetRounds
<1>7. /\ ds[a] = Append(deltas[a], round[a].version + 1)
      /\ \A q \in RoundIds \ {a} : ds[q] = deltas[q]
  BY Tables DEF ResetDeltas
<1>8. /\ Moved(round[a], entry[a], deltas[a], rs[a], es[a], ds[a]) /\ rs[a].lifecycle = "finalized"
      /\ \A q \in RoundIds \ {a} : FinalizedRound(a)[q] = round[q] /\ es[q] = entry[q]
  BY <1>5, <1>6, <1>7, FinalizeMoves
<1> QED BY <1>1, <1>2, <1>3, <1>5, <1>6, <1>7, <1>8

LEMMA RoundSteps ==
  ASSUME TypeOK, Rounds, RoundNext
  PROVE  Arranged
<1>0. /\ members \subseteq Students /\ round \in [RoundIds -> RoundRow]
      /\ entry \in [RoundIds -> EntryRows] /\ deltas \in [RoundIds -> Seq(Nat)]
  BY DEF TypeOK, EntryRows
<1>1. ASSUME NEW g \in BOOLEAN, NEW p \in Preorders, Prepare(g, p)
      PROVE  Arranged
  <2>1. PICK n \in RoundIds :
           /\ NextRoundNumber(n)
           /\ \/ round' = [round EXCEPT ![n] = NewRound(g, p)] /\ UNCHANGED <<entry, deltas>>
              \/ ActivateLowest([round EXCEPT ![n] = NewRound(g, p)], entry, deltas)
    BY <1>1 DEF Prepare
  <2>2. PICK rs \in [RoundIds -> RoundRow] : rs = [round EXCEPT ![n] = NewRound(g, p)]
    BY <1>0, NewRoundType
  <2>3. /\ rs[n] = NewRound(g, p) /\ Created(round[n], rs[n])
        /\ \A q \in RoundIds \ {n} : rs[q] = round[q]
    BY <1>0, <2>1, <2>2, NewIsCreated
  <2>4. CASE round' = rs /\ UNCHANGED <<entry, deltas>>
    <3> SUFFICES ASSUME NEW q \in RoundIds
                 PROVE  RoundStep(round[q], entry[q], deltas[q], round'[q], entry'[q], deltas'[q])
      BY DEF Arranged
    <3>1. round'[q] \in RoundRow /\ entry'[q] = entry[q] /\ deltas'[q] = deltas[q]
      BY <2>4
    <3>2. round'[q] = round[q] \/ Created(round[q], round'[q])
      BY <2>3, <2>4
    <3>3. Moved(round'[q], entry[q], deltas[q], round'[q], entry'[q], deltas'[q])
      BY <3>1 DEF Moved
    <3> QED BY <3>1, <3>2, <3>3 DEF RoundStep
  <2>5. CASE ActivateLowest(rs, entry, deltas)
    BY <2>3, <2>5, ActivateSteps
  <2> QED BY <2>1, <2>2, <2>4, <2>5
<1>2. CASE OnSessionStarted \/ ResetActivate
  <2>1. ActivateLowest(round, entry, deltas) \/ UNCHANGED <<round, entry, deltas>>
    BY <1>2 DEF OnSessionStarted, ResetActivate
  <2>2. ASSUME ActivateLowest(round, entry, deltas)
        PROVE  Arranged
    <3> SUFFICES ASSUME NEW q \in RoundIds
                 PROVE  RoundStep(round[q], entry[q], deltas[q], round'[q], entry'[q], deltas'[q])
      BY DEF Arranged
    <3>1. round[q].lifecycle = "prepared" => entry[q] = NoEntries
      BY DEF Rounds, Kept
    <3> QED BY <1>0, <2>2, <3>1, ActivateMoves DEF RoundStep
  <2> QED BY <2>1, <2>2, StillSteps
<1>3. ASSUME NEW r \in RoundIds, NEW v, NEW p, Reorder(r, v, p)
      PROVE  Arranged
  <2>1. /\ round' = [round EXCEPT ![r].preorder = p, ![r].version = round[r].version + 1]
        /\ Announce(r) /\ entry' = entry /\ round[r].lifecycle = "prepared"
    BY <1>3 DEF Reorder
  <2>2. /\ round'[r].lifecycle = "prepared" /\ round'[r].grading = round[r].grading
        /\ round'[r].version = round[r].version + 1
        /\ \A q \in RoundIds \ {r} : round'[q] = round[q]
    BY <2>1, Tables, RoundRowOf DEF RoundRow
  <2>3. /\ deltas'[r] = Append(deltas[r], round[r].version + 1)
        /\ \A q \in RoundIds \ {r} : deltas'[q] = deltas[q]
    BY <2>1, Tables DEF Announce
  <2>4. Moved(round[r], entry[r], deltas[r], round'[r], entry'[r], deltas'[r])
    BY <2>1, <2>2, <2>3 DEF Moved, Raised
  <2> QED BY <2>1, <2>2, <2>3, <2>4, OneSteps
<1>4. ASSUME NEW r \in RoundIds, NEW v, NEW s \in Students, NEW to, Move(r, s, v, to)
      PROVE  Arranged
  <2>1. /\ entry[r][s].status = "waiting" /\ round[r].lifecycle = "active"
        /\ to \in 1 .. Cardinality(Here(entry[r])) /\ entry' = Reposition(r, s, to) /\ Bump(r)
    BY <1>4 DEF Move, Entries, Here
  <2>2. /\ Rearranged(entry[r], entry'[r])
        /\ \A q \in RoundIds \ {r} : entry'[q] = entry[q]
    <3>1. s \in Here(entry[r])
      BY <2>1 DEF Here
    <3> QED BY <1>0, <2>1, <3>1 DEF Reposition, Rearranged
  <2>3. /\ Raised(round[r], deltas[r], round'[r], deltas'[r])
        /\ round'[r].lifecycle = round[r].lifecycle
        /\ \A q \in RoundIds \ {r} : round'[q] = round[q] /\ deltas'[q] = deltas[q]
    BY <2>1, BumpRaises
  <2>4. Moved(round[r], entry[r], deltas[r], round'[r], entry'[r], deltas'[r])
    BY <2>1, <2>2, <2>3 DEF Moved
  <2> QED BY <2>2, <2>3, <2>4, OneSteps
<1>5. ASSUME NEW s \in Students, OnParticipantJoined(s)
      PROVE  Arranged
  <2>1. CASE UNCHANGED <<round, entry, deltas>>
    BY <2>1, StillSteps
  <2>2. ASSUME NEW r \in RoundIds, round[r].lifecycle = "active", ~LateJoinSkipped(r, s),
               NEW p \in 1 .. Cardinality(Students) + 1, NextEntryPosition(r, p),
               entry' = [entry EXCEPT ![r][s] = InsertQueueEntry(p)], Bump(r)
        PROVE  Arranged
    <3>1. s \in Students \ Here(entry[r])
      BY <2>2 DEF LateJoinSkipped, Here
    <3>2. p \in Nat \ {0}
      BY QueueConstants, FS_CardinalityType
    <3>3. entry'[r] = [entry[r] EXCEPT ![s] = InsertQueueEntry(p)]
          /\ \A q \in RoundIds \ {r} : entry'[q] = entry[q]
      BY <1>0, <2>2
    <3>4. Joined(entry[r], entry'[r])
      BY <2>2, <3>1, <3>2, <3>3 DEF Joined, NextEntryPosition, Entries, Here
    <3>5. /\ Raised(round[r], deltas[r], round'[r], deltas'[r])
          /\ round'[r].lifecycle = round[r].lifecycle
          /\ \A q \in RoundIds \ {r} : round'[q] = round[q] /\ deltas'[q] = deltas[q]
      BY <2>2, BumpRaises
    <3>6. Moved(round[r], entry[r], deltas[r], round'[r], entry'[r], deltas'[r])
      BY <2>2, <3>4, <3>5 DEF Moved
    <3> QED BY <3>3, <3>5, <3>6, OneSteps
  <2> QED BY <1>5, <2>1, <2>2 DEF OnParticipantJoined, ActiveRounds
<1>6. CASE LoseCallback \/ ResetCrash
  BY <1>6, StillSteps DEF LoseCallback, ResetCrash
<1>7. ASSUME NEW g \in BOOLEAN, NEW p \in Preorders, ResetFinalize(g, p)
      PROVE  Arranged
  <2>1. PICK a \in RoundIds, n \in RoundIds :
           /\ ResetRows(a, n, g, p)
           /\ round' = [FinalizedRound(a) EXCEPT ![n] = NewRound(g, p)]
           /\ entry' = MarkUnfinishedSkipped(a)
           /\ deltas' = [deltas EXCEPT ![a] = Append(deltas[a], round[a].version + 1)]
    BY <1>7 DEF ResetFinalize, Announce
  <2>0. PICK x \in RoundRow :
           /\ x = NewRound(g, p) /\ Created(round[n], x)
           /\ round[a].lifecycle = "active" /\ round[n].lifecycle = "absent"
    BY <2>1, ResetCreates
  <2>2. /\ round' \in [RoundIds -> RoundRow] /\ Created(round[n], round'[n]) /\ n # a
        /\ Moved(round[a], entry[a], deltas[a], round'[a], entry'[a], deltas'[a])
        /\ \A q \in RoundIds \ {a} : entry'[q] = entry[q] /\ deltas'[q] = deltas[q]
        /\ \A q \in RoundIds \ {a, n} : round'[q] = round[q]
    <3>1. PICK rs, es, ds : rs = round' /\ es = entry' /\ ds = deltas'
      OBVIOUS
    <3>2. rs = ResetRounds(a, n, x) /\ es = MarkUnfinishedSkipped(a) /\ ds = ResetDeltas(a)
      BY <2>0, <2>1, <3>1 DEF ResetRounds, ResetDeltas
    <3>3. /\ rs \in [RoundIds -> RoundRow] /\ Created(round[n], rs[n]) /\ n # a
          /\ Moved(round[a], entry[a], deltas[a], rs[a], es[a], ds[a])
          /\ \A q \in RoundIds \ {a} : es[q] = entry[q] /\ ds[q] = deltas[q]
          /\ \A q \in RoundIds \ {a, n} : rs[q] = round[q]
      BY <2>0, <3>2, ResetSteps
    <3> QED BY <3>1, <3>3
  <2> SUFFICES ASSUME NEW q \in RoundIds
               PROVE  RoundStep(round[q], entry[q], deltas[q], round'[q], entry'[q], deltas'[q])
    BY DEF Arranged
  <2>3. CASE q = a
    BY <2>2, <2>3 DEF RoundStep
  <2>4. CASE q = n
    <3>1. Moved(round'[n], entry[n], deltas[n], round'[n], entry'[n], deltas'[n])
      BY <2>2 DEF Moved
    <3>2. round'[n] \in RoundRow
      BY <2>2
    <3> QED BY <2>2, <2>4, <3>1, <3>2 DEF RoundStep
  <2>5. CASE q \notin {a, n}
    BY <2>2, <2>5 DEF RoundStep, Moved
  <2> QED BY <2>3, <2>4, <2>5
<1>8. ASSUME NEW g \in BOOLEAN, NEW p \in Preorders, ResetKeyed(g, p)
      PROVE  Arranged
  <2>1. PICK a \in RoundIds, n \in RoundIds :
           /\ ResetRows(a, n, g, p)
           /\ ActivateLowest([FinalizedRound(a) EXCEPT ![n] = NewRound(g, p)],
                             MarkUnfinishedSkipped(a),
                             [deltas EXCEPT ![a] = Append(deltas[a], round[a].version + 1)])
    BY <1>8 DEF ResetKeyed
  <2>8. PICK x \in RoundRow :
           /\ x = NewRound(g, p) /\ Created(round[n], x)
           /\ round[a].lifecycle = "active" /\ round[n].lifecycle = "absent"
    BY <2>1, ResetCreates
  <2>0. PICK rs, es, ds :
           rs = ResetRounds(a, n, x) /\ es = MarkUnfinishedSkipped(a) /\ ds = ResetDeltas(a)
    OBVIOUS
  <2>9. ActivateLowest(rs, es, ds)
    BY <2>1, <2>0, <2>8 DEF ResetRounds, ResetDeltas
  <2>2. /\ rs \in [RoundIds -> RoundRow] /\ es \in [RoundIds -> EntryRows] /\ ds \in [RoundIds -> Seq(Nat)]
        /\ n # a /\ Created(round[n], rs[n])
        /\ Moved(round[a], entry[a], deltas[a], rs[a], es[a], ds[a]) /\ rs[a].lifecycle = "finalized"
        /\ \A q \in RoundIds \ {a} : es[q] = entry[q] /\ ds[q] = deltas[q]
        /\ \A q \in RoundIds \ {a, n} : rs[q] = round[q]
    BY <2>8, <2>0, ResetSteps
  <2> SUFFICES ASSUME NEW q \in RoundIds
               PROVE  RoundStep(round[q], entry[q], deltas[q], round'[q], entry'[q], deltas'[q])
    BY DEF Arranged
  <2>3. Kept(round[q], entry[q], deltas[q])
    BY DEF Rounds
  <2>4. rs[q].lifecycle = "prepared" => es[q] = NoEntries
    <3>1. CASE q = a
      BY <2>2, <3>1
    <3>2. CASE q = n
      BY <2>2, <2>3, <3>2 DEF Created, NoRound, Kept
    <3>3. CASE q \notin {a, n}
      BY <2>2, <2>3, <3>3 DEF Kept
    <3> QED BY <3>1, <3>2, <3>3
  <2>5. /\ Moved(rs[q], es[q], ds[q], round'[q], entry'[q], deltas'[q])
        /\ rs[q].lifecycle # "prepared" =>
              round'[q] = rs[q] /\ entry'[q] = es[q] /\ deltas'[q] = ds[q]
    BY <1>0, <2>2, <2>9, <2>4, ActivateMoves
  <2>6. CASE q = a
    BY <2>2, <2>5, <2>6 DEF RoundStep
  <2>7. CASE q = n
    <3>1. rs[n] \in RoundRow
      BY <2>2
    <3> QED BY <2>2, <2>5, <2>7, <3>1 DEF RoundStep
  <2>10. CASE q \notin {a, n}
    BY <2>2, <2>5, <2>10 DEF RoundStep
  <2> QED BY <2>6, <2>7, <2>10
<1>9. ASSUME NEW r \in RoundIds, FinalizeRound(r)
      PROVE  Arranged
  <2>1. /\ round[r].lifecycle \in {"active", "prepared"}
        /\ round' = FinalizedRound(r) /\ entry' = MarkUnfinishedSkipped(r)
        /\ deltas' = [deltas EXCEPT ![r] = Append(@, round[r].version + 1)]
    BY <1>9 DEF FinalizeRound, Announce
  <2>2. /\ Moved(round[r], entry[r], deltas[r], round'[r], entry'[r], Append(deltas[r], round[r].version + 1))
        /\ \A q \in RoundIds \ {r} : round'[q] = round[q] /\ entry'[q] = entry[q]
    BY <2>1, FinalizeMoves
  <2>3. /\ deltas'[r] = Append(deltas[r], round[r].version + 1)
        /\ \A q \in RoundIds \ {r} : deltas'[q] = deltas[q]
    BY <1>0, <2>1
  <2> QED BY <2>2, <2>3, OneSteps
<1> QED BY <1>1, <1>2, <1>3, <1>4, <1>5, <1>6, <1>7, <1>8, <1>9 DEF RoundNext

LEMMA SessionStill ==
  ASSUME SessionNext
  PROVE  UNCHANGED <<round, entry, deltas, progress, requests>>
  BY DEF SessionNext, StartSession, EndSession, JoinSession, RemoveParticipant,
         JoinCircle, AssignRole, RemoveMember, UpdatePolicy

LEMMA NextSteps == TypeOK /\ Rounds /\ [Next]_vars => Stepped
<1> SUFFICES ASSUME TypeOK, Rounds, [Next]_vars PROVE Stepped
  OBVIOUS
<1>1. CASE SessionNext
  BY <1>1, SessionStill, StillSteps, ArrangedStepped
<1>2. CASE UNCHANGED vars
  BY <1>2, StillSteps, ArrangedStepped DEF vars
<1> QED BY <1>1, <1>2, RoundSteps, TurnSteps, OptOutSteps, ArrangedStepped DEF Next

LEMMA RoundsInit == Init => Rounds
<1> SUFFICES ASSUME Init, NEW r \in RoundIds PROVE Kept(round[r], entry[r], deltas[r])
  BY DEF Rounds
<1>1. round[r] = NoRound /\ entry[r] = NoEntries /\ deltas[r] = <<>>
  BY DEF Init, NoEntries
<1>2. \A s \in Students : NoEntries[s] = NoEntry
  BY DEF NoEntries
<1> QED BY <1>1, <1>2, NoneHere DEF Kept, Told, NoRound

LEMMA RoundsStep == TypeOK /\ Rounds /\ [Next]_vars => Rounds'
<1> SUFFICES ASSUME TypeOK, Rounds, [Next]_vars, NEW r \in RoundIds
             PROVE  Kept(round'[r], entry'[r], deltas'[r])
  BY DEF Rounds
<1>1. \/ RoundStep(round[r], entry[r], deltas[r], round'[r], entry'[r], deltas'[r])
      \/ TurnStep(round[r], entry[r], deltas[r], round'[r], entry'[r], deltas'[r])
  BY NextSteps DEF Stepped
<1>2. Kept(round[r], entry[r], deltas[r])
  BY DEF Rounds
<1> QED BY <1>1, <1>2, RowsOf, StepKept

LEMMA RoundsAlways == Spec => [](TypeOK /\ Rounds)
  BY TypeCorrect, RoundsInit, RoundsStep, PTL DEF Spec

\* A client that applies the delta events of a round in order misses no version
\* and sees none twice: every transaction that moves a round announces exactly
\* the version it commits (BumpRoundVersion and the outbox insert beside it).
THEOREM VersionsAnnounced == Spec => []EveryVersionAnnounced
<1>1. ASSUME TypeOK, Rounds, NEW r \in RoundIds, round[r].lifecycle # "absent"
      PROVE  /\ Len(deltas[r]) = round[r].version - 1
             /\ \A i \in DOMAIN deltas[r] : deltas[r][i] = i + 1
  <2>1. Told(round[r], deltas[r]) /\ DOMAIN deltas[r] = 1 .. Len(deltas[r])
    BY <1>1, RowsOf DEF Rounds, Kept
  <2> QED BY <1>1, <2>1 DEF Told
<1>2. TypeOK /\ Rounds => EveryVersionAnnounced
  BY <1>1 DEF EveryVersionAnnounced
<1> QED BY <1>2, RoundsAlways, PTL

\* The places of a round are 1 .. n without gap or tie, through population,
\* every move and every late joiner (PopulationOrder, RepositionEntry and
\* MAX(position) + 1 of AppendLateJoiner), for any number of students.
THEOREM PlacesContiguous == Spec => []PositionsAreContiguous
<1>1. ASSUME Rounds, NEW r \in RoundIds
      PROVE  {entry[r][s].position : s \in Entries(r)} = 1 .. Cardinality(Entries(r))
  <2>1. Placed(entry[r])
    BY <1>1 DEF Rounds, Kept
  <2>2. Entries(r) = Here(entry[r])
    BY DEF Entries, Here
  <2>3. \A s \in Here(entry[r]) : entry[r][s].position \in 1 .. Cardinality(Here(entry[r]))
    BY <2>1 DEF Placed
  <2>4. \A i \in 1 .. Cardinality(Here(entry[r])) : \E s \in Here(entry[r]) : entry[r][s].position = i
    BY <2>1, PlacesFull
  <2> QED BY <2>2, <2>3, <2>4
<1>2. Rounds => PositionsAreContiguous
  BY <1>1 DEF PositionsAreContiguous
<1> QED BY <1>2, RoundsAlways, PTL

\* What a client saw is guarded by the versions it sends back: no transaction
\* changes a round or an entry without raising the round's version, nor an entry
\* without raising its own, moves and corrections included.
THEOREM VersionsGuard == Spec => VersionGuardsContent
<1>1. ASSUME TypeOK, Rounds, [Next]_vars, NEW r \in RoundIds
      PROVE  /\ round'[r] # round[r] => round'[r].version > round[r].version
             /\ entry'[r] # entry[r] => round'[r].version > round[r].version
             /\ \A s \in Students : entry'[r][s] # entry[r][s] =>
                   entry'[r][s].version > entry[r][s].version
  <2>1. \/ RoundStep(round[r], entry[r], deltas[r], round'[r], entry'[r], deltas'[r])
        \/ TurnStep(round[r], entry[r], deltas[r], round'[r], entry'[r], deltas'[r])
    BY <1>1, NextSteps DEF Stepped
  <2>2. Kept(round[r], entry[r], deltas[r])
    BY <1>1 DEF Rounds
  <2>3. \/ round'[r] = round[r] /\ entry'[r] = entry[r]
        \/ round'[r].version > round[r].version
    BY <1>1, <2>1, RowsOf, StepVersion
  <2>4. ASSUME NEW s \in Students, entry'[r][s] # entry[r][s]
        PROVE  entry'[r][s].version > entry[r][s].version
    <3>1. EntryMoved(entry[r][s], entry'[r][s])
      BY <1>1, <2>1, <2>2, RowsOf, StepEntry
    <3>2. entry[r][s].version \in Nat
      BY <1>1, EntryRowOf DEF EntryRow
    <3> QED BY <2>4, <3>1, <3>2 DEF EntryMoved
  <2> QED BY <2>3, <2>4
<1>2. TypeOK /\ Rounds /\ [Next]_vars =>
        [\A r \in RoundIds :
           /\ round'[r] # round[r] => round'[r].version > round[r].version
           /\ entry'[r] # entry[r] => round'[r].version > round[r].version
           /\ \A s \in Students : entry'[r][s] # entry[r][s] =>
                entry'[r][s].version > entry[r][s].version]_vars
  BY <1>1
<1> QED BY <1>2, RoundsAlways, PTL DEF Spec, VersionGuardsContent

\* A finished turn is never reopened and a row never disappears, whichever of
\* turn command, correction, opt-out, reset and convergence comes late
\* (legalEntryTransitions; no statement deletes an entry).
THEOREM TurnsStayFinished == Spec => TerminalIsFinal
<1>1. ASSUME TypeOK, Rounds, [Next]_vars, NEW r \in RoundIds, NEW s \in Students
      PROVE  /\ entry[r][s].status \in Terminal => entry'[r][s].status = entry[r][s].status
             /\ entry[r][s].status # "absent" => entry'[r][s].status # "absent"
  <2>1. \/ RoundStep(round[r], entry[r], deltas[r], round'[r], entry'[r], deltas'[r])
        \/ TurnStep(round[r], entry[r], deltas[r], round'[r], entry'[r], deltas'[r])
    BY <1>1, NextSteps DEF Stepped
  <2>2. Kept(round[r], entry[r], deltas[r])
    BY <1>1 DEF Rounds
  <2>3. EntryMoved(entry[r][s], entry'[r][s])
    BY <1>1, <2>1, <2>2, RowsOf, StepEntry
  <2> QED BY <2>3 DEF EntryMoved, CanTransitionEntry, Terminal, Unfinished
<1>2. TypeOK /\ Rounds /\ [Next]_vars =>
        [\A r \in RoundIds, s \in Students :
           /\ entry[r][s].status \in Terminal => entry'[r][s].status = entry[r][s].status
           /\ entry[r][s].status # "absent" => entry'[r][s].status # "absent"]_vars
  BY <1>1
<1> QED BY <1>2, RoundsAlways, PTL DEF Spec, TerminalIsFinal

-----------------------------------------------------------------------------
(* Progress, opt-outs, lifecycles and activation                           *)

\* An arrangement of the queue completes nothing and changes no grade.
SameResult(e, f) ==
    /\ f.status = "completed" <=> e.status = "completed"
    /\ e.status = "completed" => f.grade = e.grade

LEMMA MovedResult ==
  ASSUME NEW x, NEW row \in EntryRows, NEW dx, NEW y, NEW new, NEW dy,
         Kept(x, row, dx), Moved(x, row, dx, y, new, dy), NEW s \in Students
  PROVE  SameResult(row[s], new[s])
<1>0. row[s] \in EntryRow
  BY DEF EntryRows
<1>1. CASE new = row
  BY <1>1 DEF SameResult
<1>2. CASE Joined(row, new)
  <2>1. PICK u \in Students \ Here(row), p \in Nat \ {0} : new = [row EXCEPT ![u] = InsertQueueEntry(p)]
    BY <1>2 DEF Joined
  <2>2. new[s] = IF s = u THEN InsertQueueEntry(p) ELSE row[s]
    BY <2>1 DEF EntryRows
  <2>3. row[u].status = "absent"
    BY <2>1 DEF Here
  <2> QED BY <2>2, <2>3 DEF SameResult, InsertQueueEntry
<1>3. CASE Rearranged(row, new)
  <2>1. \/ new[s] = row[s]
        \/ \E q : new[s] = [row[s] EXCEPT !.position = q, !.version = row[s].version + 1]
    BY <1>3 DEF Rearranged
  <2> QED BY <1>0, <2>1 DEF SameResult, EntryRow
<1>4. CASE Skipped(row, new)
  <2>1. \/ new[s] = row[s]
        \/ /\ row[s].status \in Unfinished
           /\ new[s] = [row[s] EXCEPT !.status = "skipped", !.version = row[s].version + 1]
    BY <1>4 DEF Skipped
  <2> QED BY <1>0, <2>1 DEF SameResult, EntryRow, Unfinished
<1>5. CASE Populated(row, new)
  <2>1. row[s] = NoEntry /\ (new[s] = NoEntry \/ \E p : new[s] = InsertQueueEntry(p))
    BY <1>5 DEF Populated, NoEntries
  <2>2. ASSUME NEW p, new[s] = InsertQueueEntry(p)
        PROVE  new[s].status = "waiting"
    BY <2>2 DEF InsertQueueEntry
  <2>3. row[s].status = "absent" /\ (new[s] = row[s] \/ new[s].status = "waiting")
    BY <2>1, <2>2 DEF NoEntry
  <2> QED BY <2>3 DEF SameResult
<1> QED BY <1>1, <1>2, <1>3, <1>4, <1>5 DEF Moved

\* The rows of an absent round are created, so its grading may change; whatever
\* exists keeps its grading.
LEMMA ArrangedResult ==
  ASSUME TypeOK, Rounds, Arranged, NEW r \in RoundIds, NEW s \in Students
  PROVE  /\ SameResult(entry[r][s], entry'[r][s])
         /\ entry[r][s].status = "completed" => round'[r].grading = round[r].grading
<1>1. RoundStep(round[r], entry[r], deltas[r], round'[r], entry'[r], deltas'[r])
  BY DEF Arranged
<1>2. Kept(round[r], entry[r], deltas[r]) /\ entry[r] \in EntryRows
  BY RowsOf DEF Rounds
<1>3. CASE Moved(round[r], entry[r], deltas[r], round'[r], entry'[r], deltas'[r])
  <2>1. SameResult(entry[r][s], entry'[r][s])
    BY <1>2, <1>3, MovedResult
  <2>2. round'[r].grading = round[r].grading
    BY <1>3 DEF Moved, Raised
  <2> QED BY <2>1, <2>2
<1>4. ASSUME NEW mid \in RoundRow, Created(round[r], mid),
             Moved(mid, entry[r], deltas[r], round'[r], entry'[r], deltas'[r])
      PROVE  /\ SameResult(entry[r][s], entry'[r][s])
             /\ entry[r][s].status # "completed"
  <2>1. Kept(mid, entry[r], deltas[r])
    BY <1>2, <1>4, CreatedKept
  <2>2. SameResult(entry[r][s], entry'[r][s])
    BY <1>2, <1>4, <2>1, MovedResult
  <2>3. entry[r] = NoEntries
    BY <1>2, <1>4 DEF Created, NoRound, Kept
  <2> QED BY <2>2, <2>3 DEF NoEntries, NoEntry
<1> QED BY <1>1, <1>3, <1>4 DEF RoundStep

\* ProgressMatchesQueue for one entry e of a round that is graded or not.
Recorded(graded, e, p) ==
    /\ p.row <=> e.status = "completed"
    /\ p.row => p.grade = e.grade
    /\ p.row /\ graded => p.grade # Null

LEMMA RecordedSame ==
  ASSUME NEW e, NEW f, NEW p, NEW b, NEW c, Recorded(b, e, p), SameResult(e, f),
         e.status = "completed" => c = b
  PROVE  Recorded(c, f, p)
  BY DEF Recorded, SameResult

\* A transition of one entry, for the other entries and the gradings.
LEMMA RecordedElsewhere ==
  ASSUME TypeOK, ProgressMatchesQueue, NEW r \in RoundIds, NEW s \in Students,
         round'[r].grading = round[r].grading,
         \A q \in RoundIds \ {r} : round'[q] = round[q] /\ entry'[q] = entry[q] /\ progress'[q] = progress[q],
         \A t \in Students \ {s} : entry'[r][t] = entry[r][t] /\ progress'[r][t] = progress[r][t],
         Recorded(round[r].grading, entry'[r][s], progress'[r][s])
  PROVE  ProgressMatchesQueue'
<1> SUFFICES ASSUME NEW q \in RoundIds, NEW t \in Students
             PROVE  Recorded(round'[q].grading, entry'[q][t], progress'[q][t])
  BY DEF ProgressMatchesQueue, Recorded
<1>1. Recorded(round[q].grading, entry[q][t], progress[q][t])
  BY DEF ProgressMatchesQueue, Recorded
<1>2. CASE q = r /\ t = s
  BY <1>2
<1>3. CASE ~(q = r /\ t = s)
  BY <1>1, <1>3
<1> QED BY <1>2, <1>3

\* Release and Bump keep the grading of every round.
LEMMA BumpGrading ==
  ASSUME TypeOK, NEW r \in RoundIds, Bump(r) \/ \E s \in Students : Release(r, s)
  PROVE  /\ round'[r].grading = round[r].grading
         /\ \A q \in RoundIds \ {r} : round'[q] = round[q]
<1>1. CASE Bump(r)
  BY <1>1, Tables, RoundRowOf DEF Bump, RoundRow
<1>2. CASE \E s \in Students : Release(r, s)
  BY <1>2, Tables, RoundRowOf DEF Release, RoundRow
<1> QED BY <1>1, <1>2

\* A transition that does not complete, and changes no progress.
LEMMA RecordedTransition ==
  ASSUME TypeOK, ProgressMatchesQueue, NEW r \in RoundIds, NEW s \in Students,
         NEW to, NEW g, to # "completed", TransitionEntry(r, s, to, g),
         Bump(r) \/ Release(r, s), UNCHANGED progress
  PROVE  ProgressMatchesQueue'
<1>1. /\ entry'[r][s].status = to
      /\ \A t \in Students \ {s} : entry'[r][t] = entry[r][t]
      /\ \A q \in RoundIds \ {r} : entry'[q] = entry[q]
  BY TransitionEffect
<1>2. entry[r][s].status # "completed"
  BY DEF TransitionEntry, CanTransitionEntry, Unfinished
<1>3. Recorded(round[r].grading, entry'[r][s], progress'[r][s])
  BY <1>1, <1>2 DEF ProgressMatchesQueue, Recorded
<1>4. /\ round'[r].grading = round[r].grading
      /\ \A q \in RoundIds \ {r} : round'[q] = round[q]
  BY BumpGrading
<1> QED BY <1>1, <1>3, <1>4, RecordedElsewhere

LEMMA RecordedArranged ==
  ASSUME TypeOK, Rounds, ProgressMatchesQueue, Arranged, UNCHANGED progress
  PROVE  ProgressMatchesQueue'
<1> SUFFICES ASSUME NEW r \in RoundIds, NEW s \in Students
             PROVE  Recorded(round'[r].grading, entry'[r][s], progress[r][s])
  BY DEF ProgressMatchesQueue, Recorded
<1>1. Recorded(round[r].grading, entry[r][s], progress[r][s])
  BY DEF ProgressMatchesQueue, Recorded
<1> QED BY <1>1, ArrangedResult, RecordedSame

LEMMA RecordedTurn ==
  ASSUME TypeOK, Rounds, ProgressMatchesQueue, TurnNext
  PROVE  ProgressMatchesQueue'
<1>0. progress \in [RoundIds -> [Students -> [row : BOOLEAN, grade : Grades \cup {Null}]]]
  BY DEF TypeOK
<1>1. ASSUME NEW r \in RoundIds, NEW v, Advance(r, v)
      PROVE  ProgressMatchesQueue'
  <2>1. PICK s \in Students :
           /\ round' = [round EXCEPT ![r].selected = s, ![r].version = round[r].version + 1]
           /\ entry' = entry /\ progress' = progress
    BY <1>1 DEF Advance
  <2>2. \A q \in RoundIds : round'[q].grading = round[q].grading
    BY <2>1, Tables DEF RoundRow
  <2> QED BY <2>1, <2>2 DEF ProgressMatchesQueue
<1>2. ASSUME NEW r \in RoundIds, NEW v, NEW s \in Students, Start(r, s, v) \/ Skip(r, s, v)
      PROVE  ProgressMatchesQueue'
  BY <1>2, RecordedTransition DEF Start, Skip
<1>3. ASSUME NEW r \in RoundIds, NEW v, NEW s \in Students, NEW g \in Grades \cup {Null},
             Complete(r, s, v, g)
      PROVE  ProgressMatchesQueue'
  <2>1. /\ TransitionEntry(r, s, "completed", g) /\ Release(r, s)
        /\ round[r].grading <=> g # Null
        /\ progress' = [progress EXCEPT ![r][s] = [row |-> TRUE, grade |-> g]]
    BY <1>3 DEF Complete
  <2>2. /\ entry'[r][s].status = "completed" /\ entry'[r][s].grade = g
        /\ \A t \in Students \ {s} : entry'[r][t] = entry[r][t]
        /\ \A q \in RoundIds \ {r} : entry'[q] = entry[q]
    BY <2>1, TransitionEffect
  <2>3. /\ progress'[r][s] = [row |-> TRUE, grade |-> g]
        /\ \A t \in Students \ {s} : progress'[r][t] = progress[r][t]
        /\ \A q \in RoundIds \ {r} : progress'[q] = progress[q]
    BY <1>0, <2>1
  <2>4. Recorded(round[r].grading, entry'[r][s], progress'[r][s])
    BY <2>1, <2>2, <2>3 DEF Recorded
  <2>5. /\ round'[r].grading = round[r].grading
        /\ \A q \in RoundIds \ {r} : round'[q] = round[q]
    BY <2>1, BumpGrading
  <2> QED BY <2>2, <2>3, <2>4, <2>5, RecordedElsewhere
<1>4. ASSUME NEW r \in RoundIds, NEW v, NEW s \in Students, NEW g \in Grades \cup {Null},
             Correct(r, s, v, g)
      PROVE  ProgressMatchesQueue'
  <2> DEFINE corrected == IF g = Null THEN entry[r][s].grade ELSE g
  <2>1. /\ entry[r][s].status = "completed" /\ Bump(r)
        /\ entry' = [entry EXCEPT ![r][s].grade = corrected,
                                  ![r][s].version = entry[r][s].version + 1]
        /\ progress' = [progress EXCEPT ![r][s] = [row |-> TRUE, grade |-> corrected]]
    BY <1>4 DEF Correct
  <2>2. round[r].grading => corrected # Null
    BY <2>1 DEF ProgressMatchesQueue
  <2> HIDE DEF corrected
  <2>3. /\ entry'[r][s].status = "completed" /\ entry'[r][s].grade = corrected
        /\ \A t \in Students \ {s} : entry'[r][t] = entry[r][t]
        /\ \A q \in RoundIds \ {r} : entry'[q] = entry[q]
    BY <2>1, EntryRowOf, Tables DEF EntryRow
  <2>4. /\ progress'[r][s] = [row |-> TRUE, grade |-> corrected]
        /\ \A t \in Students \ {s} : progress'[r][t] = progress[r][t]
        /\ \A q \in RoundIds \ {r} : progress'[q] = progress[q]
    BY <1>0, <2>1
  <2>5. Recorded(round[r].grading, entry'[r][s], progress'[r][s])
    BY <2>2, <2>3, <2>4 DEF Recorded
  <2>6. /\ round'[r].grading = round[r].grading
        /\ \A q \in RoundIds \ {r} : round'[q] = round[q]
    BY <2>1, BumpGrading
  <2> QED BY <2>3, <2>4, <2>5, <2>6, RecordedElsewhere
<1> QED BY <1>1, <1>2, <1>3, <1>4 DEF TurnNext

LEMMA RecordedOptOut ==
  ASSUME TypeOK, Rounds, ProgressMatchesQueue, OptOutNext
  PROVE  ProgressMatchesQueue'
<1>1. ASSUME NEW c \in Calls, RequestAutoApprove(c)
      PROVE  ProgressMatchesQueue'
  <2>1. call[c].round \in RoundIds /\ call[c].student \in Students
    BY <1>1 DEF TypeOK, RequestAutoApprove
  <2>2. /\ TransitionEntry(call[c].round, call[c].student, "opted_out", Null)
        /\ Release(call[c].round, call[c].student) /\ UNCHANGED progress
    BY <1>1 DEF RequestAutoApprove
  <2> QED BY <2>1, <2>2, RecordedTransition
<1>2. ASSUME NEW r \in RoundIds, NEW s \in Students, NEW v, NEW i, NEW d,
             Decide(r, s, i, d, v)
      PROVE  ProgressMatchesQueue'
  <2>1. /\ UNCHANGED progress
        /\ \/ TransitionEntry(r, s, "opted_out", Null) /\ Release(r, s)
           \/ UNCHANGED <<round, entry, deltas>>
    BY <1>2 DEF Decide
  <2> QED BY <2>1, RecordedTransition, RecordedArranged, StillSteps
<1>3. ASSUME NEW c, NEW s,
             RequestRead(c, s) \/ RequestApprovalRequired(c) \/ RequestEnd(c)
      PROVE  ProgressMatchesQueue'
  BY <1>3, RecordedArranged, StillSteps DEF RequestRead, RequestApprovalRequired, RequestEnd
<1> QED BY <1>1, <1>2, <1>3 DEF OptOutNext

LEMMA RecordedStep == TypeOK /\ Rounds /\ ProgressMatchesQueue /\ [Next]_vars => ProgressMatchesQueue'
<1> SUFFICES ASSUME TypeOK, Rounds, ProgressMatchesQueue, [Next]_vars PROVE ProgressMatchesQueue'
  OBVIOUS
<1>1. CASE UNCHANGED vars
  BY <1>1, RecordedArranged, StillSteps DEF vars
<1>2. CASE SessionNext
  BY <1>2, SessionStill, RecordedArranged, StillSteps
<1>3. CASE RoundNext
  <2>1. UNCHANGED progress
    BY <1>3 DEF RoundNext, Prepare, ResetFinalize, ResetKeyed, OnSessionStarted, OnParticipantJoined,
                LoseCallback, ResetActivate, ResetCrash, FinalizeRound, Reorder, Move
  <2> QED BY <1>3, <2>1, RoundSteps, RecordedArranged
<1> QED BY <1>1, <1>2, <1>3, RecordedTurn, RecordedOptOut DEF Next

\* The progress history and the queue never disagree: Complete inserts the
\* row in the transaction that completes the entry and Correct updates both,
\* so a completed entry has its row and its present grade through everything.
THEOREM ProgressRecorded == Spec => []ProgressMatchesQueue
<1>1. Init => ProgressMatchesQueue
  BY DEF Init, ProgressMatchesQueue, NoEntry
<1> QED BY <1>1, RecordedStep, RoundsAlways, PTL DEF Spec

Approved(q) == \E i \in DOMAIN q : q[i] = "approved"

\* Steps that approve nothing keep what was opted out.
LEMMA ApprovedKept ==
  ASSUME TypeOK, Rounds, ApprovedIsOptedOut, Stepped,
         \A r \in RoundIds, s \in Students :
            Approved(requests'[r][s]) => Approved(requests[r][s]) \/ entry'[r][s].status = "opted_out"
  PROVE  ApprovedIsOptedOut'
<1> SUFFICES ASSUME NEW r \in RoundIds, NEW s \in Students, Approved(requests'[r][s])
             PROVE  entry'[r][s].status = "opted_out"
  BY DEF ApprovedIsOptedOut, Approved
<1>1. CASE Approved(requests[r][s])
  <2>1. entry[r][s].status = "opted_out"
    BY <1>1 DEF ApprovedIsOptedOut, Approved
  <2>2. \/ RoundStep(round[r], entry[r], deltas[r], round'[r], entry'[r], deltas'[r])
        \/ TurnStep(round[r], entry[r], deltas[r], round'[r], entry'[r], deltas'[r])
    BY DEF Stepped
  <2>3. Kept(round[r], entry[r], deltas[r])
    BY DEF Rounds
  <2>4. EntryMoved(entry[r][s], entry'[r][s])
    BY <2>2, <2>3, RowsOf, StepEntry
  <2> QED BY <2>1, <2>4 DEF EntryMoved, CanTransitionEntry, Unfinished
<1> QED BY <1>1

LEMMA ApprovedOptOut ==
  ASSUME TypeOK, Rounds, ApprovedIsOptedOut, OptOutNext
  PROVE  ApprovedIsOptedOut'
<1>0. Stepped
  BY OptOutSteps
<1>1. requests \in [RoundIds -> [Students -> Seq(RequestStatuses)]]
  BY DEF TypeOK
<1>2. ASSUME NEW c \in Calls, RequestAutoApprove(c)
      PROVE  ApprovedIsOptedOut'
  <2> DEFINE r == call[c].round
             s == call[c].student
  <2>1. r \in RoundIds /\ s \in Students
    BY <1>2 DEF TypeOK, RequestAutoApprove
  <2>2. /\ TransitionEntry(r, s, "opted_out", Null)
        /\ requests' = requests \/ requests' = [requests EXCEPT ![r][s] = <<"approved">>]
    BY <1>2 DEF RequestAutoApprove
  <2> HIDE DEF r, s
  <2>3. entry'[r][s].status = "opted_out"
    BY <2>1, <2>2, TransitionEffect
  <2>4. \A q \in RoundIds, t \in Students :
           requests'[q][t] = requests[q][t] \/ (q = r /\ t = s)
    BY <1>1, <2>1, <2>2
  <2>5. \A q \in RoundIds, t \in Students :
           Approved(requests'[q][t]) => Approved(requests[q][t]) \/ entry'[q][t].status = "opted_out"
    BY <2>3, <2>4
  <2> QED BY <1>0, <2>5, ApprovedKept
<1>3. ASSUME NEW r \in RoundIds, NEW s \in Students, NEW v, NEW i, NEW d,
             d \in {"approved", "declined"}, Decide(r, s, i, d, v)
      PROVE  ApprovedIsOptedOut'
  <2>1. requests' = [requests EXCEPT ![r][s][i] = d] /\ i \in DOMAIN requests[r][s]
    BY <1>3 DEF Decide
  <2>2. /\ requests'[r][s] = [requests[r][s] EXCEPT ![i] = d]
        /\ \A q \in RoundIds, t \in Students :
              requests'[q][t] = requests[q][t] \/ (q = r /\ t = s)
    BY <1>1, <2>1
  <2>3. CASE d = "approved"
    <3>1. TransitionEntry(r, s, "opted_out", Null)
      BY <1>3, <2>3 DEF Decide
    <3>2. entry'[r][s].status = "opted_out"
      BY <3>1, TransitionEffect
    <3>3. \A q \in RoundIds, t \in Students :
             Approved(requests'[q][t]) => Approved(requests[q][t]) \/ entry'[q][t].status = "opted_out"
      BY <2>2, <3>2
    <3> QED BY <1>0, <3>3, ApprovedKept
  <2>4. CASE d = "declined"
    <3>1. Approved(requests'[r][s]) => Approved(requests[r][s])
      BY <1>1, <2>2, <2>4 DEF Approved
    <3>2. \A q \in RoundIds, t \in Students :
             Approved(requests'[q][t]) => Approved(requests[q][t]) \/ entry'[q][t].status = "opted_out"
      BY <2>2, <3>1
    <3> QED BY <1>0, <3>2, ApprovedKept
  <2> QED BY <1>3, <2>3, <2>4
<1>4. ASSUME NEW c \in Calls, RequestApprovalRequired(c)
      PROVE  ApprovedIsOptedOut'
  <2> DEFINE r == call[c].round
             s == call[c].student
  <2>1. r \in RoundIds /\ s \in Students
    BY <1>4 DEF TypeOK, RequestApprovalRequired
  <2>2. requests' = [requests EXCEPT ![r][s] = Append(@, "pending")]
    BY <1>4 DEF RequestApprovalRequired
  <2> HIDE DEF r, s
  <2>3. requests[r][s] \in Seq(RequestStatuses)
    BY <1>1, <2>1
  <2>4. /\ requests'[r][s] = Append(requests[r][s], "pending")
        /\ \A q \in RoundIds, t \in Students :
              requests'[q][t] = requests[q][t] \/ (q = r /\ t = s)
    BY <1>1, <2>1, <2>2
  <2>5. \A i \in DOMAIN requests'[r][s] :
           \/ i \in DOMAIN requests[r][s] /\ requests'[r][s][i] = requests[r][s][i]
           \/ requests'[r][s][i] = "pending"
    BY <2>3, <2>4
  <2>6. Approved(requests'[r][s]) => Approved(requests[r][s])
    BY <2>5 DEF Approved
  <2>7. \A q \in RoundIds, t \in Students :
           Approved(requests'[q][t]) => Approved(requests[q][t]) \/ entry'[q][t].status = "opted_out"
    BY <2>4, <2>6
  <2> QED BY <1>0, <2>7, ApprovedKept
<1>5. ASSUME NEW c, NEW s, RequestRead(c, s) \/ RequestEnd(c)
      PROVE  ApprovedIsOptedOut'
  BY <1>0, <1>5, ApprovedKept DEF RequestRead, RequestEnd
<1> QED BY <1>2, <1>3, <1>4, <1>5 DEF OptOutNext

LEMMA ApprovedStep == TypeOK /\ Rounds /\ ApprovedIsOptedOut /\ [Next]_vars => ApprovedIsOptedOut'
<1> SUFFICES ASSUME TypeOK, Rounds, ApprovedIsOptedOut, [Next]_vars PROVE ApprovedIsOptedOut'
  OBVIOUS
<1>1. CASE UNCHANGED vars
  BY <1>1, NextSteps, ApprovedKept DEF vars
<1>2. CASE SessionNext
  BY <1>2, SessionStill, NextSteps, ApprovedKept
<1>3. CASE RoundNext
  <2>1. UNCHANGED requests
    BY <1>3 DEF RoundNext, Prepare, ResetFinalize, ResetKeyed, OnSessionStarted, OnParticipantJoined,
                LoseCallback, ResetActivate, ResetCrash, FinalizeRound, Reorder, Move
  <2> QED BY <2>1, NextSteps, ApprovedKept
<1>4. CASE TurnNext
  <2>1. UNCHANGED requests
    <3>1. ASSUME NEW r, NEW v, NEW s, NEW g, Complete(r, s, v, g) \/ Correct(r, s, v, g)
          PROVE  UNCHANGED requests
      BY <3>1 DEF Complete, Correct
    <3>2. ASSUME NEW r, NEW v, NEW s, Advance(r, v) \/ Start(r, s, v) \/ Skip(r, s, v)
          PROVE  UNCHANGED requests
      BY <3>2 DEF Advance, Start, Skip
    <3> QED BY <1>4, <3>1, <3>2 DEF TurnNext
  <2> QED BY <2>1, NextSteps, ApprovedKept
<1> QED BY <1>1, <1>2, <1>3, <1>4, ApprovedOptOut DEF Next

\* An approved opt-out stands: an entry whose request was approved, by a manager
\* or by the policy, is opted out from that transaction on, although the request
\* was read before any lock was taken (Request and Decide of OptOutService).
THEOREM ApprovalsStand == Spec => []ApprovedIsOptedOut
<1>1. Init => ApprovedIsOptedOut
  BY DEF Init, ApprovedIsOptedOut
<1> QED BY <1>1, ApprovedStep, RoundsAlways, PTL DEF Spec

\* A lifecycle changes from x to y while the session is in the given status.
Forward(status, x, y) ==
    \/ x = y
    \/ x = "absent" /\ y \in {"prepared", "active"} /\ status # "ended"
    \/ x = "prepared" /\ y = "active" /\ status = "active"
    \/ x = "prepared" /\ y = "finalized" /\ status = "ended"
    \/ x = "active" /\ y = "finalized"

\* An activation changes no lifecycle but that of one prepared round.
LEMMA ActivateForward ==
  ASSUME NEW rs \in [RoundIds -> RoundRow], NEW es, NEW ds, ActivateLowest(rs, es, ds),
         NEW q \in RoundIds
  PROVE  \/ round'[q].lifecycle = rs[q].lifecycle
         \/ rs[q].lifecycle = "prepared" /\ round'[q].lifecycle = "active"
<1>1. CASE round' = rs
  BY <1>1
<1>2. ASSUME NEW a \in RoundIds, LowestPrepared(rs, a),
             round' = [rs EXCEPT ![a].lifecycle = "active", ![a].version = rs[a].version + 1]
      PROVE  \/ round'[q].lifecycle = rs[q].lifecycle
             \/ rs[q].lifecycle = "prepared" /\ round'[q].lifecycle = "active"
  BY <1>2 DEF RoundRow, LowestPrepared, PreparedRounds
<1> QED BY <1>1, <1>2, ActivateRounds

LEMMA ForwardRound ==
  ASSUME TypeOK, RoundNext, NEW r \in RoundIds
  PROVE  Forward(session, round[r].lifecycle, round'[r].lifecycle)
<1> DEFINE Goal == Forward(session, round[r].lifecycle, round'[r].lifecycle)
<1>1. ASSUME NEW g \in BOOLEAN, NEW p \in Preorders, Prepare(g, p)
      PROVE  Goal
  <2>1. PICK n \in RoundIds :
           /\ NextRoundNumber(n)
           /\ \/ round' = [round EXCEPT ![n] = NewRound(g, p)] /\ session = "scheduled"
              \/ /\ ActivateLowest([round EXCEPT ![n] = NewRound(g, p)], entry, deltas)
                 /\ session = "active"
    BY <1>1 DEF Prepare
  <2>2. PICK rs \in [RoundIds -> RoundRow] : rs = [round EXCEPT ![n] = NewRound(g, p)]
    BY Tables, NewRoundType
  <2>3. /\ rs[n].lifecycle = "prepared" /\ round[n].lifecycle = "absent"
        /\ \A q \in RoundIds \ {n} : rs[q] = round[q]
    BY <2>1, <2>2, Tables DEF NewRound, NextRoundNumber, RoundIds
  <2>4. /\ session \in {"scheduled", "active"}
        /\ \/ round'[r].lifecycle = rs[r].lifecycle
           \/ rs[r].lifecycle = "prepared" /\ round'[r].lifecycle = "active" /\ session = "active"
    BY <2>1, <2>2, ActivateForward
  <2> QED BY <2>3, <2>4 DEF Forward
<1>2. CASE OnSessionStarted \/ ResetActivate
  <2>1. UNCHANGED round \/ (session = "active" /\ ActivateLowest(round, entry, deltas))
    BY <1>2 DEF OnSessionStarted, ResetActivate
  <2> QED BY <2>1, Tables, ActivateForward DEF Forward
<1>3. ASSUME NEW q \in RoundIds, NEW v, NEW p, Reorder(q, v, p)
      PROVE  Goal
  <2>1. round' = [round EXCEPT ![q].preorder = p, ![q].version = round[q].version + 1]
    BY <1>3 DEF Reorder
  <2>2. round'[r].lifecycle = round[r].lifecycle
    BY <2>1, Tables DEF RoundRow
  <2> QED BY <2>2 DEF Forward
<1>7. ASSUME NEW q \in RoundIds, Bump(q)
      PROVE  Goal
  <2>1. round'[r].lifecycle = round[r].lifecycle
    BY <1>7, BumpEffect
  <2> QED BY <2>1 DEF Forward
<1>8. ASSUME NEW q \in RoundIds, NEW v, NEW s, NEW p, Move(q, s, v, p)
      PROVE  Goal
  BY <1>7, <1>8 DEF Move
<1>9. ASSUME NEW s, OnParticipantJoined(s)
      PROVE  Goal
  BY <1>7, <1>9 DEF OnParticipantJoined, ActiveRounds, Forward
<1>4. CASE LoseCallback \/ ResetCrash
  BY <1>4 DEF LoseCallback, ResetCrash, Forward
<1>5. ASSUME NEW g \in BOOLEAN, NEW p \in Preorders, ResetFinalize(g, p) \/ ResetKeyed(g, p)
      PROVE  Goal
  <2>1. PICK a \in RoundIds, n \in RoundIds :
           /\ ResetRows(a, n, g, p)
           /\ \/ round' = [FinalizedRound(a) EXCEPT ![n] = NewRound(g, p)]
              \/ ActivateLowest([FinalizedRound(a) EXCEPT ![n] = NewRound(g, p)],
                                MarkUnfinishedSkipped(a),
                                [deltas EXCEPT ![a] = Append(@, round[a].version + 1)])
    BY <1>5 DEF ResetFinalize, ResetKeyed
  <2>2. PICK rs \in [RoundIds -> RoundRow] : rs = [FinalizedRound(a) EXCEPT ![n] = NewRound(g, p)]
    BY FinalizedType, NewRoundType
  <2>3. /\ session = "active" /\ round[a].lifecycle = "active" /\ round[n].lifecycle = "absent"
    BY <2>1 DEF ResetRows, NextRoundNumber, RoundIds
  <2>4. \A q \in RoundIds : FinalizedRound(a)[q].lifecycle
                               = IF q = a THEN "finalized" ELSE round[q].lifecycle
    BY Tables, RoundRowOf DEF FinalizedRound, RoundRow
  <2>5. \A q \in RoundIds : rs[q].lifecycle
                               = IF q = n THEN "prepared" ELSE FinalizedRound(a)[q].lifecycle
    BY <2>2, FinalizedType DEF NewRound
  <2>6. \/ round'[r].lifecycle = rs[r].lifecycle
        \/ rs[r].lifecycle = "prepared" /\ round'[r].lifecycle = "active"
    BY <2>1, <2>2, ActivateForward
  <2> QED BY <2>3, <2>4, <2>5, <2>6 DEF Forward
<1>6. ASSUME NEW q \in RoundIds, FinalizeRound(q)
      PROVE  Goal
  <2>1. /\ session = "ended" /\ round[q].lifecycle \in {"active", "prepared"}
        /\ round' = FinalizedRound(q)
    BY <1>6 DEF FinalizeRound
  <2>2. round'[r].lifecycle = IF r = q THEN "finalized" ELSE round[r].lifecycle
    BY <2>1, Tables, RoundRowOf DEF FinalizedRound, RoundRow
  <2> QED BY <2>1, <2>2 DEF Forward
<1> QED BY <1>1, <1>2, <1>3, <1>4, <1>5, <1>6, <1>8, <1>9 DEF RoundNext

\* Turns, opt-outs and the session itself move no lifecycle.
LEMMA TurnsKeepLifecycles ==
  ASSUME TypeOK, SessionNext \/ TurnNext \/ OptOutNext \/ UNCHANGED vars
  PROVE  \A r \in RoundIds : round'[r].lifecycle = round[r].lifecycle
<1> DEFINE Same == \A r \in RoundIds : round'[r].lifecycle = round[r].lifecycle
<1>1. ASSUME NEW r \in RoundIds, NEW s, Bump(r) \/ Release(r, s)
      PROVE  Same
  BY <1>1, BumpKeepsLifecycles
<1>2. ASSUME NEW r \in RoundIds, NEW v, Advance(r, v)
      PROVE  Same
  <2>1. PICK s \in Students : round' = [round EXCEPT ![r].selected = s,
                                          ![r].version = round[r].version + 1]
    BY <1>2 DEF Advance
  <2> QED BY <2>1, Tables DEF RoundRow
<1>3. CASE TurnNext
  <2>1. ASSUME NEW r \in RoundIds, NEW s, NEW v, NEW g,
               Start(r, s, v) \/ Skip(r, s, v) \/ Complete(r, s, v, g) \/ Correct(r, s, v, g)
        PROVE  Same
    BY <2>1, <1>1 DEF Start, Skip, Complete, Correct
  <2> QED BY <1>2, <1>3, <2>1 DEF TurnNext
<1>4. CASE OptOutNext
  <2>1. ASSUME NEW c \in Calls, RequestAutoApprove(c)
        PROVE  Same
    <3>1. call[c].round \in RoundIds
      BY <2>1 DEF TypeOK, RequestAutoApprove
    <3> QED BY <2>1, <3>1, <1>1 DEF RequestAutoApprove
  <2>2. ASSUME NEW r \in RoundIds, NEW s, NEW v, NEW i, NEW d, Decide(r, s, i, d, v)
        PROVE  Same
    BY <2>2, <1>1 DEF Decide
  <2>3. ASSUME NEW c, NEW s,
               RequestRead(c, s) \/ RequestApprovalRequired(c) \/ RequestEnd(c)
        PROVE  Same
    BY <2>3 DEF RequestRead, RequestApprovalRequired, RequestEnd
  <2> QED BY <1>4, <2>1, <2>2, <2>3 DEF OptOutNext
<1>5. CASE SessionNext
  BY <1>5, SessionStill
<1>6. CASE UNCHANGED vars
  BY <1>6 DEF vars
<1> QED BY <1>3, <1>4, <1>5, <1>6

\* Rounds only move forward: a round of a live session is never finalized before
\* it was active, convergence finalizes prepared rounds of an ended session only,
\* and an ended session gains and activates nothing, although a start callback or
\* the second half of a reset may still be on its way when it ends.
THEOREM RoundsMoveForward == Spec => RoundLifecycleForward
<1>1. ASSUME TypeOK, [Next]_vars, NEW r \in RoundIds
      PROVE  Forward(session, round[r].lifecycle, round'[r].lifecycle)
  BY <1>1, ForwardRound, TurnsKeepLifecycles DEF Next, Forward
<1>2. ASSUME TypeOK, [Next]_vars, NEW r \in RoundIds, round'[r].lifecycle # round[r].lifecycle
      PROVE  \/ round[r].lifecycle = "absent" /\ round'[r].lifecycle \in {"prepared", "active"}
                /\ session # "ended"
             \/ round[r].lifecycle = "prepared" /\ round'[r].lifecycle = "active"
                /\ session = "active"
             \/ round[r].lifecycle = "prepared" /\ round'[r].lifecycle = "finalized"
                /\ session = "ended"
             \/ round[r].lifecycle = "active" /\ round'[r].lifecycle = "finalized"
  BY <1>1, <1>2 DEF Forward
<1>3. TypeOK /\ [Next]_vars =>
        [\A r \in RoundIds : round'[r].lifecycle # round[r].lifecycle =>
           \/ round[r].lifecycle = "absent" /\ round'[r].lifecycle \in {"prepared", "active"}
              /\ session # "ended"
           \/ round[r].lifecycle = "prepared" /\ round'[r].lifecycle = "active"
              /\ session = "active"
           \/ round[r].lifecycle = "prepared" /\ round'[r].lifecycle = "finalized"
              /\ session = "ended"
           \/ round[r].lifecycle = "active" /\ round'[r].lifecycle = "finalized"]_vars
  BY <1>2
<1> QED BY <1>3, TypeCorrect, PTL DEF Spec, RoundLifecycleForward

\* After activateLowest a prepared round waits behind an active one.
Served(rs) == PreparedRounds(rs) # {} => ActiveRounds(rs) # {}

LEMMA ActivateServes ==
  ASSUME NEW rs \in [RoundIds -> RoundRow], NEW es, NEW ds, ActivateLowest(rs, es, ds)
  PROVE  Served(round')
<1>1. CASE (ActiveRounds(rs) # {} \/ PreparedRounds(rs) = {}) /\ round' = rs
  BY <1>1 DEF Served
<1>2. ASSUME NEW a \in RoundIds,
             round' = [rs EXCEPT ![a].lifecycle = "active", ![a].version = rs[a].version + 1]
      PROVE  Served(round')
  <2>1. round'[a].lifecycle = "active"
    BY <1>2 DEF RoundRow
  <2> QED BY <2>1 DEF Served, ActiveRounds
<1>3. \/ (ActiveRounds(rs) # {} \/ PreparedRounds(rs) = {}) /\ round' = rs
      \/ \E a \in RoundIds :
           round' = [rs EXCEPT ![a].lifecycle = "active", ![a].version = rs[a].version + 1]
  BY Zenon DEF ActivateLowest
<1> QED BY <1>1, <1>2, <1>3

LEMMA SameServed ==
  ASSUME Served(round), \A r \in RoundIds : round'[r].lifecycle = round[r].lifecycle
  PROVE  Served(round')
<1>1. PreparedRounds(round') = PreparedRounds(round) /\ ActiveRounds(round') = ActiveRounds(round)
  BY DEF PreparedRounds, ActiveRounds
<1> QED BY <1>1 DEF Served

\* No step but a loss or a crash withdraws a notice without its activation.
LEMMA ActivationStep ==
  ASSUME ~LostCallbacks, ~ResetCrashes, TypeOK, ActivationInvariant, [Next]_vars
  PROVE  ActivationInvariant'
<1> SUFFICES ASSUME session' = "active", ~startNotice', ~resetting'
             PROVE  Served(round')
  BY DEF ActivationInvariant, Served
<1>0. session = "active" /\ ~startNotice /\ ~resetting => Served(round)
  BY DEF ActivationInvariant, Served
<1>1. ASSUME NEW rs \in [RoundIds -> RoundRow], NEW es, NEW ds, ActivateLowest(rs, es, ds)
      PROVE  Served(round')
  BY <1>1, ActivateServes
<1>2. ASSUME UNCHANGED <<session, startNotice, resetting>>,
             \A r \in RoundIds : round'[r].lifecycle = round[r].lifecycle
      PROVE  Served(round')
  BY <1>0, <1>2, SameServed
<1>3. CASE SessionNext
  <2>1. CASE StartSession
    <3>1. UNCHANGED round /\ \A r \in RoundIds : round[r] = NoRound
      BY <2>1 DEF StartSession
    <3> QED BY <3>1 DEF Served, PreparedRounds, NoRound
  <2>2. CASE ~StartSession
    <3>1. UNCHANGED <<session, startNotice, resetting>>
      <4>1. ~EndSession
        BY DEF EndSession
      <4> QED BY <1>3, <2>2, <4>1 DEF SessionNext, JoinSession, RemoveParticipant, JoinCircle,
                                      AssignRole, RemoveMember, UpdatePolicy
    <3> QED BY <1>2, <1>3, <3>1, TurnsKeepLifecycles
  <2> QED BY <2>1, <2>2
<1>4. CASE TurnNext
  <2>1. ASSUME NEW r, NEW v, NEW s, NEW g, Complete(r, s, v, g) \/ Correct(r, s, v, g)
        PROVE  UNCHANGED <<session, startNotice, resetting>>
    BY <2>1 DEF Complete, Correct, sessionVars
  <2>2. ASSUME NEW r, NEW v, NEW s, Advance(r, v) \/ Start(r, s, v) \/ Skip(r, s, v)
        PROVE  UNCHANGED <<session, startNotice, resetting>>
    BY <2>2 DEF Advance, Start, Skip, sessionVars
  <2>3. UNCHANGED <<session, startNotice, resetting>>
    BY <1>4, <2>1, <2>2 DEF TurnNext
  <2> QED BY <1>2, <1>4, <2>3, TurnsKeepLifecycles
<1>5. CASE OptOutNext
  <2>1. UNCHANGED <<session, startNotice, resetting>>
    BY <1>5 DEF OptOutNext, RequestRead, RequestApprovalRequired, RequestAutoApprove, RequestEnd,
                Decide, sessionVars
  <2> QED BY <1>2, <1>5, <2>1, TurnsKeepLifecycles
<1>6. CASE UNCHANGED vars
  <2>1. UNCHANGED <<session, startNotice, resetting>>
    BY <1>6 DEF vars, sessionVars
  <2> QED BY <1>2, <1>6, <2>1, TurnsKeepLifecycles
<1>7. CASE RoundNext
  <2>1. ASSUME NEW g \in BOOLEAN, NEW p \in Preorders, Prepare(g, p)
        PROVE  Served(round')
    <3>1. PICK n \in RoundIds :
             session = "active" => ActivateLowest([round EXCEPT ![n] = NewRound(g, p)], entry, deltas)
      BY <2>1 DEF Prepare
    <3>2. session = "active"
      BY <2>1 DEF Prepare, sessionVars
    <3>3. [round EXCEPT ![n] = NewRound(g, p)] \in [RoundIds -> RoundRow]
      BY NewRoundType, Tables
    <3> QED BY <1>1, <3>1, <3>2, <3>3
  <2>2. CASE OnSessionStarted \/ ResetActivate
    <3>1. session = "active"
      BY <2>2 DEF OnSessionStarted, ResetActivate, sessionVars
    <3>2. ActivateLowest(round, entry, deltas)
      BY <2>2, <3>1 DEF OnSessionStarted, ResetActivate
    <3> QED BY <1>1, <3>2, Tables
  <2>3. ASSUME NEW q \in RoundIds, NEW v, NEW p, Reorder(q, v, p)
        PROVE  Served(round')
    <3>1. round' = [round EXCEPT ![q].preorder = p, ![q].version = round[q].version + 1]
      BY <2>3 DEF Reorder
    <3>2. \A r \in RoundIds : round'[r].lifecycle = round[r].lifecycle
      BY <3>1, Tables DEF RoundRow
    <3>3. UNCHANGED <<session, startNotice, resetting>>
      BY <2>3 DEF Reorder, sessionVars
    <3> QED BY <1>2, <3>2, <3>3
  <2>4. ASSUME NEW q \in RoundIds, NEW v, NEW s, NEW p, Move(q, s, v, p)
        PROVE  Served(round')
    <3>1. \A r \in RoundIds : round'[r].lifecycle = round[r].lifecycle
      BY <2>4, BumpKeepsLifecycles DEF Move
    <3>2. UNCHANGED <<session, startNotice, resetting>>
      BY <2>4 DEF Move, sessionVars
    <3> QED BY <1>2, <3>1, <3>2
  <2>5. ASSUME NEW s, OnParticipantJoined(s)
        PROVE  Served(round')
    <3>1. UNCHANGED round \/ \E q \in RoundIds : Bump(q)
      BY <2>5 DEF OnParticipantJoined, ActiveRounds
    <3>2. \A r \in RoundIds : round'[r].lifecycle = round[r].lifecycle
      BY <3>1, BumpKeepsLifecycles
    <3>3. UNCHANGED <<session, startNotice, resetting>>
      BY <2>5 DEF OnParticipantJoined, sessionVars
    <3> QED BY <1>2, <3>2, <3>3
  <2>6. ASSUME NEW g \in BOOLEAN, NEW p \in Preorders, ResetKeyed(g, p)
        PROVE  Served(round')
    <3>1. PICK a \in RoundIds, n \in RoundIds :
             ActivateLowest([FinalizedRound(a) EXCEPT ![n] = NewRound(g, p)],
                            MarkUnfinishedSkipped(a),
                            [deltas EXCEPT ![a] = Append(@, round[a].version + 1)])
      BY <2>6 DEF ResetKeyed
    <3>2. [FinalizedRound(a) EXCEPT ![n] = NewRound(g, p)] \in [RoundIds -> RoundRow]
      BY NewRoundType, FinalizedType
    <3> QED BY <1>1, <3>1, <3>2
  <2>7. ~LoseCallback /\ ~ResetCrash
    BY DEF LoseCallback, ResetCrash
  <2>8. ASSUME NEW g, NEW p PROVE ~ResetFinalize(g, p)
    BY DEF ResetFinalize
  <2>9. ASSUME NEW r PROVE ~FinalizeRound(r)
    BY DEF FinalizeRound, sessionVars
  <2> QED BY <1>7, <2>1, <2>2, <2>3, <2>4, <2>5, <2>6, <2>7, <2>8, <2>9 DEF RoundNext
<1> QED BY <1>3, <1>4, <1>5, <1>6, <1>7 DEF Next

\* A prepared round of a live session waits only behind an active one, once no
\* activation is under way: Prepare, the start callback and the two halves of a
\* reset leave none behind, provided no callback is lost and no process dies
\* between the two halves.
THEOREM NoRoundLeftWaiting ==
  ASSUME ~LostCallbacks, ~ResetCrashes
  PROVE  Spec => []ActivationInvariant
<1>1. Init => ActivationInvariant
  BY DEF Init, ActivationInvariant
<1>2. TypeOK /\ ActivationInvariant /\ [Next]_vars => ActivationInvariant'
  BY ActivationStep
<1> QED BY <1>1, <1>2, TypeCorrect, PTL DEF Spec

-----------------------------------------------------------------------------
(* Joins are honoured                                                      *)

\* Under all_active_students AppendLateJoiner serves only members whose
\* joined_at is after the last activation.  The others it leaves out have a
\* place already, apart from those who came from the staff and those whose join
\* was open while the population was read.
Settled ==
    {s \in members \ Promotable : joined[s] \notin {"across", "after"}}

HasPlaces(rs, es) ==
    \A r \in ActiveRounds(rs), s \in Settled : es[r][s].status # "absent"

AllInvited == policy.population = "all_active_students"

Seating ==
    /\ staff \subseteq Promotable
    /\ policy.population = InitialPolicy.population
    /\ AllInvited => HasPlaces(round, entry)

LEMMA StepsKeepPlaces ==
  ASSUME TypeOK, Rounds, [Next]_vars, NEW r \in RoundIds, NEW s \in Students,
         entry[r][s].status # "absent"
  PROVE  entry'[r][s].status # "absent"
<1>1. \/ RoundStep(round[r], entry[r], deltas[r], round'[r], entry'[r], deltas'[r])
      \/ TurnStep(round[r], entry[r], deltas[r], round'[r], entry'[r], deltas'[r])
  BY NextSteps DEF Stepped
<1>2. Kept(round[r], entry[r], deltas[r])
  BY DEF Rounds
<1>3. EntryMoved(entry[r][s], entry'[r][s])
  BY <1>1, <1>2, RowsOf, StepEntry
<1> QED BY <1>3 DEF EntryMoved, CanTransitionEntry

\* Whoever was settled keeps the place, if the step activates no round and
\* settles nobody.
LEMMA QuietSeating ==
  ASSUME TypeOK, Rounds, Seating, [Next]_vars,
         UNCHANGED <<policy, staff>>,
         Settled' \subseteq Settled,
         \A r \in RoundIds : round'[r].lifecycle = "active" => round[r].lifecycle = "active"
  PROVE  Seating'
<1> SUFFICES ASSUME AllInvited, NEW r \in RoundIds, round'[r].lifecycle = "active",
                    NEW s \in Settled'
             PROVE  entry'[r][s].status # "absent"
  BY DEF Seating, AllInvited, HasPlaces, ActiveRounds
<1>1. s \in Settled /\ s \in Students
  BY DEF TypeOK, Settled
<1>2. entry[r][s].status # "absent"
  BY <1>1 DEF Seating, HasPlaces, ActiveRounds
<1> QED BY <1>1, <1>2, StepsKeepPlaces

LEMMA SessionSeating ==
  ASSUME TypeOK, Rounds, Seating, SessionNext,
         \A p \in Policies : p.population = InitialPolicy.population
  PROVE  Seating'
<1>1. \A r \in RoundIds : round'[r] = round[r] /\ entry'[r] = entry[r]
  BY SessionStill
<1>2. ASSUME UNCHANGED <<policy, staff>>,
             Settled' \subseteq Settled
      PROVE  Seating'
  BY <1>1, <1>2, QuietSeating DEF Next
<1>3. CASE StartSession \/ EndSession \/ \E s \in Students : JoinSession(s) \/ RemoveParticipant(s)
  BY <1>2, <1>3 DEF StartSession, EndSession, JoinSession, RemoveParticipant, Settled
<1>4. ASSUME NEW s \in Students, JoinCircle(s)
      PROVE  Seating'
  <2>1. joined'[s] \in {"across", "after"} /\ \A t \in Students \ {s} : joined'[t] = joined[t]
    BY <1>4 DEF JoinCircle, TypeOK
  <2>2. Settled' \subseteq Settled
    BY <1>4, <2>1 DEF JoinCircle, TypeOK, Settled
  <2> QED BY <1>2, <1>4, <2>2 DEF JoinCircle
<1>5. ASSUME NEW s \in Students, AssignRole(s) \/ RemoveMember(s)
      PROVE  Seating'
  <2>1. /\ staff' \subseteq Promotable /\ UNCHANGED policy
    BY <1>5 DEF AssignRole, RemoveMember, Seating
  <2>3. \A t \in Students \ {s} : joined'[t] = joined[t]
    BY <1>5 DEF AssignRole, RemoveMember, TypeOK
  <2>4. \/ s \in Promotable /\ joined' = joined
        \/ s \notin members'
    BY <1>5 DEF AssignRole, RemoveMember
  <2>5. Settled' \subseteq Settled
    BY <1>5, <2>3, <2>4 DEF AssignRole, RemoveMember, TypeOK, Settled
  <2>2. ASSUME AllInvited
        PROVE  HasPlaces(round, entry)'
    BY <1>1, <2>1, <2>2, <2>5 DEF HasPlaces, ActiveRounds, Seating, AllInvited
  <2> QED BY <2>1, <2>2 DEF Seating, AllInvited
<1>6. ASSUME NEW p \in Policies, NEW v, UpdatePolicy(p, v)
      PROVE  Seating'
  <2>1. /\ policy'.population = policy.population
        /\ UNCHANGED <<staff, members, joined>>
    BY <1>6 DEF UpdatePolicy, Seating
  <2>2. ASSUME AllInvited
        PROVE  HasPlaces(round, entry)'
    BY <1>1, <2>1, <2>2 DEF HasPlaces, ActiveRounds, Seating, Settled, AllInvited
  <2> QED BY <2>1, <2>2 DEF Seating, AllInvited
<1> QED BY <1>3, <1>4, <1>5, <1>6 DEF SessionNext

\* An activation leaves the tables alone, or gives every invited member a place.
LEMMA ActivateSeats ==
  ASSUME TypeOK, NEW rs \in [RoundIds -> RoundRow], NEW es \in [RoundIds -> EntryRows],
         NEW ds, ActivateLowest(rs, es, ds)
  PROVE  \/ round' = rs /\ joined' = joined
         \/ \A r \in ActiveRounds(round)' : \A s \in Eligible : entry'[r][s].status # "absent"
<1>1. CASE round' = rs /\ UNCHANGED joined
  BY <1>1
<1>2. ASSUME ActiveRounds(rs) = {}, NEW a \in RoundIds, NEW position,
             entry' = [es EXCEPT ![a] =
                        [s \in Students |-> IF s \in Eligible
                                            THEN InsertQueueEntry(position[s])
                                            ELSE NoEntry]],
             round' = [rs EXCEPT ![a].lifecycle = "active", ![a].version = rs[a].version + 1]
      PROVE  \A r \in ActiveRounds(round)' : \A s \in Eligible : entry'[r][s].status # "absent"
  <2> SUFFICES ASSUME NEW r \in RoundIds, round'[r].lifecycle = "active", NEW s \in Eligible
               PROVE  entry'[r][s].status # "absent"
    BY DEF ActiveRounds
  <2>1. r = a
    BY <1>2 DEF ActiveRounds
  <2>2. s \in Students
    BY DEF Eligible, TypeOK
  <2>3. entry'[r][s] = InsertQueueEntry(position[s])
    BY <1>2, <2>1, <2>2
  <2> QED BY <2>3 DEF InsertQueueEntry
<1>3. \/ round' = rs /\ UNCHANGED joined
      \/ /\ ActiveRounds(rs) = {}
         /\ \E a \in RoundIds :
              /\ \E position :
                   entry' = [es EXCEPT ![a] =
                              [s \in Students |-> IF s \in Eligible
                                                  THEN InsertQueueEntry(position[s])
                                                  ELSE NoEntry]]
              /\ round' = [rs EXCEPT ![a].lifecycle = "active", ![a].version = rs[a].version + 1]
  BY Zenon DEF ActivateLowest
<1> QED BY <1>1, <1>2, <1>3

LEMMA ActivateSeating ==
  ASSUME TypeOK, Rounds, Seating, [Next]_vars, UNCHANGED <<policy, staff, members>>,
         NEW rs \in [RoundIds -> RoundRow], NEW es \in [RoundIds -> EntryRows],
         NEW ds, ActivateLowest(rs, es, ds),
         \A r \in RoundIds : rs[r].lifecycle = "active" => round[r].lifecycle = "active"
  PROVE  Seating'
<1>1. CASE round' = rs /\ joined' = joined
  BY <1>1, QuietSeating DEF Settled
<1>2. CASE \A r \in ActiveRounds(round)' : \A s \in Eligible : entry'[r][s].status # "absent"
  <2>1. AllInvited => Eligible = members
    BY DEF AllInvited, Eligible
  <2>2. Settled' \subseteq members
    BY DEF Settled
  <2> QED BY <1>2, <2>1, <2>2 DEF Seating, AllInvited, HasPlaces
<1> QED BY <1>1, <1>2, ActivateSeats

LEMMA RoundSeating ==
  ASSUME TypeOK, Rounds, Seating, RoundNext
  PROVE  Seating'
<1>0. /\ [Next]_vars
      /\ UNCHANGED <<policy, staff, members>>
  BY DEF Next, RoundNext, Prepare, OnSessionStarted, Reorder, Move, OnParticipantJoined,
         LoseCallback, ResetFinalize, ResetActivate, ResetCrash, ResetKeyed, FinalizeRound,
         sessionVars
<1>1. ASSUME UNCHANGED joined,
             \A r \in RoundIds : round'[r].lifecycle = "active" => round[r].lifecycle = "active"
      PROVE  Seating'
  BY <1>0, <1>1, QuietSeating DEF Settled
<1>2. ASSUME NEW rs \in [RoundIds -> RoundRow], NEW es \in [RoundIds -> EntryRows],
             NEW ds, ActivateLowest(rs, es, ds),
             \A r \in RoundIds : rs[r].lifecycle = "active" => round[r].lifecycle = "active"
      PROVE  Seating'
  BY <1>0, <1>2, ActivateSeating
<1>3. round \in [RoundIds -> RoundRow] /\ entry \in [RoundIds -> EntryRows]
  BY DEF TypeOK, EntryRows
<1>4. ASSUME NEW g \in BOOLEAN, NEW p \in Preorders, Prepare(g, p)
      PROVE  Seating'
  <2>1. PICK n \in RoundIds :
           \/ round' = [round EXCEPT ![n] = NewRound(g, p)] /\ UNCHANGED joined
           \/ ActivateLowest([round EXCEPT ![n] = NewRound(g, p)], entry, deltas)
    BY <1>4 DEF Prepare
  <2>2. PICK rs \in [RoundIds -> RoundRow] : rs = [round EXCEPT ![n] = NewRound(g, p)]
    BY <1>3, NewRoundType
  <2>3. \A r \in RoundIds : rs[r].lifecycle = "active" => round[r].lifecycle = "active"
    BY <1>3, <2>2 DEF NewRound
  <2> QED BY <1>1, <1>2, <1>3, <2>1, <2>2, <2>3
<1>5. CASE OnSessionStarted \/ ResetActivate
  <2>1. UNCHANGED <<round, joined>> \/ ActivateLowest(round, entry, deltas)
    BY <1>5 DEF OnSessionStarted, ResetActivate
  <2> QED BY <1>1, <1>2, <1>3, <2>1
<1>6. ASSUME NEW r \in RoundIds, NEW v, NEW p, Reorder(r, v, p)
      PROVE  Seating'
  <2>1. round' = [round EXCEPT ![r].preorder = p, ![r].version = round[r].version + 1]
    BY <1>6 DEF Reorder
  <2>2. \A q \in RoundIds : round'[q].lifecycle = round[q].lifecycle
    BY <2>1, <1>3 DEF RoundRow
  <2>3. UNCHANGED joined
    BY <1>6 DEF Reorder
  <2> QED BY <1>1, <2>2, <2>3
<1>7. ASSUME NEW r \in RoundIds, NEW v, NEW s, NEW p, Move(r, s, v, p)
      PROVE  Seating'
  BY <1>1, <1>7, BumpKeepsLifecycles DEF Move
<1>8. ASSUME NEW s, OnParticipantJoined(s)
      PROVE  Seating'
  <2>1. UNCHANGED joined /\ (UNCHANGED round \/ \E r \in RoundIds : Bump(r))
    BY <1>8 DEF OnParticipantJoined, ActiveRounds
  <2> QED BY <1>1, <2>1, BumpKeepsLifecycles
<1>9. CASE LoseCallback \/ ResetCrash
  BY <1>1, <1>9 DEF LoseCallback, ResetCrash
<1>10. ASSUME NEW a \in RoundIds
       PROVE  \A r \in RoundIds : FinalizedRound(a)[r].lifecycle
                                     = IF r = a THEN "finalized" ELSE round[r].lifecycle
  BY <1>3, RoundRowOf DEF FinalizedRound, RoundRow
<1>11. ASSUME NEW g \in BOOLEAN, NEW p \in Preorders, ResetFinalize(g, p) \/ ResetKeyed(g, p)
       PROVE  Seating'
  <2>1. PICK a \in RoundIds, n \in RoundIds :
           \/ /\ round' = [FinalizedRound(a) EXCEPT ![n] = NewRound(g, p)]
              /\ UNCHANGED joined
           \/ ActivateLowest([FinalizedRound(a) EXCEPT ![n] = NewRound(g, p)],
                             MarkUnfinishedSkipped(a),
                             [deltas EXCEPT ![a] = Append(@, round[a].version + 1)])
    BY <1>11 DEF ResetFinalize, ResetKeyed
  <2>2. PICK rs \in [RoundIds -> RoundRow] : rs = [FinalizedRound(a) EXCEPT ![n] = NewRound(g, p)]
    BY FinalizedType, NewRoundType
  <2>3. \A r \in RoundIds : rs[r].lifecycle = "active" => round[r].lifecycle = "active"
    BY <1>10, <2>2, FinalizedType DEF NewRound
  <2>4. MarkUnfinishedSkipped(a) \in [RoundIds -> EntryRows]
    BY FinalizedType DEF EntryRows
  <2> QED BY <1>1, <1>2, <2>1, <2>2, <2>3, <2>4
<1>12. ASSUME NEW r \in RoundIds, FinalizeRound(r)
       PROVE  Seating'
  BY <1>1, <1>10, <1>12 DEF FinalizeRound
<1> QED BY <1>4, <1>5, <1>6, <1>7, <1>8, <1>9, <1>11, <1>12 DEF RoundNext

LEMMA TurnsLeavePeople ==
  ASSUME TurnNext
  PROVE  UNCHANGED <<policy, staff, members, joined, joinNotices>>
<1>1. ASSUME NEW r, NEW v, NEW s, NEW g, Complete(r, s, v, g) \/ Correct(r, s, v, g)
      PROVE  UNCHANGED <<policy, staff, members, joined, joinNotices>>
  BY <1>1 DEF Complete, Correct, sessionVars
<1>2. ASSUME NEW r, NEW v, NEW s, Advance(r, v) \/ Start(r, s, v) \/ Skip(r, s, v)
      PROVE  UNCHANGED <<policy, staff, members, joined, joinNotices>>
  BY <1>2 DEF Advance, Start, Skip, sessionVars
<1> QED BY <1>1, <1>2 DEF TurnNext

LEMMA SeatingStep ==
  ASSUME \A p \in Policies : p.population = InitialPolicy.population,
         TypeOK, Rounds, Seating, [Next]_vars
  PROVE  Seating'
<1>1. ASSUME TurnNext \/ OptOutNext \/ UNCHANGED vars
      PROVE  Seating'
  <2>1. UNCHANGED <<policy, staff, members, joined>>
    <3>1. CASE TurnNext
      BY <3>1, TurnsLeavePeople
    <3>2. CASE OptOutNext
      BY <3>2 DEF OptOutNext, RequestRead, RequestApprovalRequired, RequestAutoApprove,
                  RequestEnd, Decide, sessionVars
    <3> QED BY <1>1, <3>1, <3>2 DEF vars, sessionVars
  <2> QED BY <1>1, <2>1, TurnsKeepLifecycles, QuietSeating DEF Settled
<1> QED BY <1>1, SessionSeating, RoundSeating DEF Next

LEMMA OneActive ==
  ASSUME RoundOrder, NEW r \in ActiveRounds(round), NEW q \in ActiveRounds(round)
  PROVE  q = r
<1>1. r \in RoundIds /\ q \in RoundIds /\ RoundIds \subseteq Nat
  BY QueueConstants DEF ActiveRounds, RoundIds
<1>2. ~(r < q) /\ ~(q < r)
  BY <1>1 DEF RoundOrder, ActiveRounds
<1> QED BY <1>1, <1>2

\* Only the callback itself takes a notice away, if none is lost.
LEMMA NoticesAreHandled ==
  ASSUME ~LostCallbacks, [Next]_vars, NEW s \in joinNotices, s \notin joinNotices'
  PROVE  OnParticipantJoined(s)
<1>1. CASE SessionNext
  BY <1>1 DEF SessionNext, StartSession, EndSession, JoinSession, RemoveParticipant,
              JoinCircle, AssignRole, RemoveMember, UpdatePolicy
<1>2. CASE TurnNext
  BY <1>2, TurnsLeavePeople
<1>3. CASE OptOutNext
  BY <1>3 DEF OptOutNext, RequestRead, RequestApprovalRequired, RequestAutoApprove,
              RequestEnd, Decide
<1>4. CASE RoundNext
  <2>1. ASSUME NEW t, OnParticipantJoined(t)
        PROVE  OnParticipantJoined(s)
    BY <2>1 DEF OnParticipantJoined
  <2>2. ASSUME NEW g, NEW p, Prepare(g, p) \/ ResetFinalize(g, p) \/ ResetKeyed(g, p)
        PROVE  UNCHANGED joinNotices
    BY <2>2 DEF Prepare, ResetFinalize, ResetKeyed
  <2>3. ASSUME NEW r, NEW v, NEW t, NEW p,
               Reorder(r, v, p) \/ Move(r, t, v, p) \/ FinalizeRound(r)
        PROVE  UNCHANGED joinNotices
    BY <2>3 DEF Reorder, Move, FinalizeRound
  <2>4. ASSUME OnSessionStarted \/ ResetActivate \/ ResetCrash
        PROVE  UNCHANGED joinNotices
    BY <2>4 DEF OnSessionStarted, ResetActivate, ResetCrash
  <2>5. ~LoseCallback
    BY DEF LoseCallback
  <2> QED BY <1>4, <2>1, <2>2, <2>3, <2>4, <2>5 DEF RoundNext
<1>5. CASE UNCHANGED vars
  BY <1>5 DEF vars
<1> QED BY <1>1, <1>2, <1>3, <1>4, <1>5 DEF Next

\* A join is honoured: after OnParticipantJoined has run, the student has a place
\* in the active round.  It rests on the callbacks being run at all, and on a
\* population policy that is not switched while the session lives (a switch does
\* leave students out).  It does not cover a student who was staff when the round
\* was activated nor, under all_active_students, one whose join of the circle was
\* still open then (JoinedAcross): AppendLateJoiner compares transaction starts.
THEOREM JoinsAreHonoured ==
  ASSUME ~LostCallbacks, \A p \in Policies : p.population = InitialPolicy.population
  PROVE  Spec => JoinIsHonoured
<1> DEFINE Honoured ==
      \A r \in ActiveRounds(round), s \in ((joinNotices \ joinNotices') \cap members) \ Promotable :
         session = "active" /\ ~JoinedAcross(s) => entry'[r][s].status # "absent"
<1>1. Init => Seating
  BY DEF Init, Seating, HasPlaces, ActiveRounds, NoRound
<1>2. TypeOK /\ Rounds /\ Seating /\ [Next]_vars => Seating'
  BY SeatingStep
<1>3. ASSUME TypeOK, Rounds, RoundOrder, Seating, [Next]_vars
      PROVE  Honoured
  <2> SUFFICES ASSUME NEW r \in ActiveRounds(round), NEW s \in joinNotices, s \notin joinNotices',
                      s \in members, s \notin Promotable, session = "active",
                      ~JoinedAcross(s)
               PROVE  entry'[r][s].status # "absent"
    OBVIOUS
  <2>1. OnParticipantJoined(s)
    BY <1>3, NoticesAreHandled
  <2>2. r \in RoundIds /\ s \in Students
    BY <1>3 DEF ActiveRounds, TypeOK
  <2>3. CASE LateJoinSkipped(r, s)
    <3>1. entry[r][s].status # "absent"
      BY <1>3, <2>3 DEF LateJoinSkipped, Seating, AllInvited, HasPlaces, Settled, JoinedAcross
    <3> QED BY <1>3, <2>2, <3>1, StepsKeepPlaces
  <2>4. CASE ~LateJoinSkipped(r, s)
    <3>1. PICK q \in ActiveRounds(round), p \in 1 .. Cardinality(Students) + 1 :
             entry' = [entry EXCEPT ![q][s] = InsertQueueEntry(p)]
      BY <1>3, <2>1, <2>4, OneActive DEF OnParticipantJoined
    <3>2. q = r
      BY <1>3, OneActive
    <3>3. entry'[r][s] = InsertQueueEntry(p)
      BY <1>3, <2>2, <3>1, <3>2 DEF TypeOK
    <3> QED BY <3>3 DEF InsertQueueEntry
  <2> QED BY <2>3, <2>4
<1>4. TypeOK /\ Rounds /\ RoundOrder /\ Seating /\ [Next]_vars => [Honoured]_vars
  BY <1>3
<1> QED BY <1>1, <1>2, <1>4, RoundsAlways, RoundsInOrder, PTL DEF Spec, JoinIsHonoured
=============================================================================
