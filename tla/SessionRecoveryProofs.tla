------------------------ MODULE SessionRecoveryProofs ------------------------
(***************************************************************************)
(* No call of the program that takes effect in time removes the room of an *)
(* active session, for any number of sessions, any page size and any       *)
(* faults of the provider.  A close that takes effect after its timeout    *)
(* may: the invariant accounts for those rooms in torn.                    *)
(***************************************************************************)
EXTENDS SessionRecovery, TLAPS

-----------------------------------------------------------------------------
(* The invariant                                                           *)

\* The rows and calls under way.  Neither the order of the rows nor what the
\* sweep has read matters: a candidate is read again under the lock.
Calls ==
    /\ status \in [Sessions -> {"scheduled", "active", "ended"}]
    /\ start \in [Sessions -> {"none", "ensured"}]

\* A start that has its room holds the session's lock, so the row still says
\* scheduled; a pending close belongs to a row that says ended.
Locked ==
    /\ \A s \in Sessions : start[s] = "ensured" => status[s] = "scheduled"
    /\ \A s \in Sessions : s \in ending => status[s] = "ended"

\* The room is there from the call of EnsureRoom on, before the row says active.
Housed ==
    \A s \in Sessions : status[s] = "active" \/ start[s] = "ensured" => s \in room \cup lost \cup torn

Inv == Calls /\ Locked /\ Housed

LEMMA InvInit == Init => Inv
  BY DEF Init, Inv, Calls, Locked, Housed

-----------------------------------------------------------------------------
(* Steps                                                                   *)

\* A step that leaves rows and calls alone may not take a room that is needed.
LEMMA RoomsFrame ==
  ASSUME Inv, UNCHANGED <<status, start, ending>>,
         \A s \in Sessions : s \in room \cup lost \cup torn /\ s \notin room' \cup lost' \cup torn' =>
             status[s] # "active" /\ start[s] = "none"
  PROVE  Inv'
  BY DEF Inv, Calls, Locked, Housed

LEMMA CallFailsKeeps ==
  ASSUME NEW s, NEW call, CallFails(s, call)
  PROVE  UNCHANGED <<room, lost, torn>>
  BY DEF CallFails

\* A room the provider removes is a lost one, one a late close removes a torn one.
LEMMA ProviderKeeps ==
  ASSUME Inv, NEW s \in Sessions, LateEffect(s) \/ RoomLost(s)
  PROVE  Inv'
<1>1. UNCHANGED <<status, start, ending>>
  BY DEF LateEffect, RoomLost, rowVars, callVars
<1>2. room \cup lost \cup torn \subseteq room' \cup lost' \cup torn'
  BY DEF LateEffect, RoomExists, RoomLost
<1> QED BY <1>1, <1>2, RoomsFrame

LEMMA StartKeeps ==
  ASSUME Inv, NEW s \in Sessions, BeginStart(s) \/ CommitStart(s) \/ RollbackStart(s)
  PROVE  Inv'
<1>1. CASE BeginStart(s)
  <2>1. UNCHANGED <<status, ending>> /\ status[s] = "scheduled" /\ start[s] = "none"
    BY <1>1 DEF BeginStart, rowVars
  <2>2. CASE EnsureRoom(s) /\ start' = [start EXCEPT ![s] = "ensured"]
    <3>1. room \cup lost \cup torn \subseteq room' \cup lost' \cup torn' /\ s \in room'
      BY <2>2 DEF EnsureRoom, RoomExists
    <3> QED BY <2>1, <2>2, <3>1 DEF Inv, Calls, Locked, Housed
  <2>3. CASE CallFails(s, "ensure") /\ UNCHANGED start
    BY <2>1, <2>3, CallFailsKeeps, RoomsFrame
  <2> QED BY <1>1, <2>2, <2>3 DEF BeginStart
<1>2. CASE CommitStart(s)
  <2>1. /\ start[s] = "ensured"
        /\ start' = [start EXCEPT ![s] = "none"]
        /\ status' = [status EXCEPT ![s] = "active"]
        /\ UNCHANGED <<room, lost, torn, ending>>
    BY <1>2 DEF CommitStart, roomVars
  <2> QED BY <2>1 DEF Inv, Calls, Locked, Housed
<1>3. CASE RollbackStart(s)
  <2>1. start' = [start EXCEPT ![s] = "none"] /\ UNCHANGED <<status, room, lost, torn, ending>>
    BY <1>3 DEF RollbackStart, rowVars, roomVars
  <2> QED BY <2>1 DEF Inv, Calls, Locked, Housed
<1> QED BY <1>1, <1>2, <1>3

LEMMA EndKeeps ==
  ASSUME Inv, NEW s \in Sessions, Touch(s) \/ EndSession(s) \/ EndCloses(s)
  PROVE  Inv'
<1>1. CASE Touch(s)
  BY <1>1, RoomsFrame DEF Touch, roomVars, callVars
<1>2. CASE EndSession(s)
  <2>1. /\ status' = [status EXCEPT ![s] = "ended"]
        /\ ending' = ending \cup {s} /\ start[s] = "none"
        /\ UNCHANGED <<room, lost, torn, start>>
    BY <1>2 DEF EndSession, roomVars
  <2> QED BY <2>1 DEF Inv, Calls, Locked, Housed
<1>3. CASE EndCloses(s)
  <2>1. s \in ending /\ ending' = ending \ {s} /\ UNCHANGED <<status, start>>
    BY <1>3 DEF EndCloses, rowVars
  <2>2. UNCHANGED <<lost, torn>> /\ (room' = room \/ room' = room \ {s})
    BY <1>3, CallFailsKeeps DEF EndCloses, CloseRoom, roomVars
  <2>3. status[s] = "ended" /\ start[s] = "none"
    BY <2>1 DEF Inv, Calls, Locked
  <2> QED BY <2>1, <2>2, <2>3 DEF Inv, Calls, Locked, Housed
<1> QED BY <1>1, <1>2, <1>3

\* The reconciler closes rooms by the status it reads under the lock.
LEMMA ReconcilerKeeps ==
  ASSUME Inv, ListRecoveryCandidates \/ ReconcileCandidate
  PROVE  Inv'
<1>1. CASE ListRecoveryCandidates
  BY <1>1, RoomsFrame DEF ListRecoveryCandidates, rowVars, roomVars, callVars
<1>2. CASE ReconcileCandidate
  <2> DEFINE s == Head(sweep.page)
  <2>1. UNCHANGED <<status, start, ending>>
    BY <1>2 DEF ReconcileCandidate, callVars
  <2>2. CASE start[s] # "none"
    <3>1. UNCHANGED <<room, lost, torn>>
      BY <1>2, <2>2 DEF ReconcileCandidate, roomVars
    <3> QED BY <2>1, <3>1, RoomsFrame
  <2>3. CASE start[s] = "none"
    <3>1. Repair(s)
      BY <1>2, <2>3 DEF ReconcileCandidate
    <3>2. \/ room \cup lost \cup torn \subseteq room' \cup lost' \cup torn'
          \/ status[s] # "active" /\ room' = room \ {s} /\ UNCHANGED <<lost, torn>>
      BY <3>1, CallFailsKeeps DEF Repair, CurrentStatus, CloseRoom, EnsureRoom, RoomExists, roomVars
    <3> HIDE DEF s
    <3> QED BY <2>1, <2>3, <3>2, RoomsFrame
  <2> QED BY <2>2, <2>3
<1> QED BY <1>1, <1>2

LEMMA CrashKeeps ==
  ASSUME Inv, Crash
  PROVE  Inv'
<1>1. /\ start' = [s \in Sessions |-> "none"] /\ ending' = {}
      /\ UNCHANGED <<status, room, lost, torn>>
  BY DEF Crash, rowVars, roomVars
<1> QED BY <1>1 DEF Inv, Calls, Locked, Housed

LEMMA InvNext ==
  ASSUME Inv, [Next]_vars
  PROVE  Inv'
<1>1. CASE UNCHANGED vars
  BY <1>1, RoomsFrame DEF vars, rowVars, roomVars, callVars
<1>2. CASE Next
  BY <1>2, ProviderKeeps, StartKeeps, EndKeeps, ReconcilerKeeps, CrashKeeps DEF Next
<1> QED BY <1>1, <1>2

-----------------------------------------------------------------------------
\* No close of a sweep or of EndSession that takes effect within its call removes
\* the room of an active session (reconcileCandidate, StartSession, EndSession):
\* the advisory lock and the second read of the row see to that, although
\* EndSession holds no lock when it closes.  A missing room is one the provider
\* removed, or one a close removed after it had timed out.  Fairness is not used.
THEOREM RoomsKept == Spec => []ActiveKeepsRoom
<1>1. Inv /\ [Next]_vars => Inv'
  BY InvNext
<1>2. Inv => ActiveKeepsRoom
  BY DEF Inv, Housed, ActiveKeepsRoom
<1> QED BY InvInit, <1>1, <1>2, PTL DEF Spec
=============================================================================
