--------------------------- MODULE SessionRecovery ---------------------------
(***************************************************************************)
(* The rooms of live sessions at the media provider, and the worker that   *)
(* brings them back in line with the sessions table                        *)
(* (backend/internal/sessions/reconciler.go).                              *)
(*                                                                         *)
(* A start calls the provider inside its transaction, an end after it;     *)
(* both may fail, time out with the effect arriving later, or die with the *)
(* process.  The worker sweeps the oldest Limit sessions of each status.   *)
(* A row is only as much as the worker reads: status and updated_at.       *)
(***************************************************************************)
EXTENDS Naturals, Sequences, FiniteSets, SequencesExt

CONSTANTS
    Sessions,
    Broken,      \* sessions whose room the provider never closes
    Limit,       \* RecoveryCandidateLimit
    MaxFaults,   \* bound: provider failures, lost rooms and crashes
    MaxTouches   \* bound: joins, locks and removals that refresh updated_at

ASSUME RecoveryConstants ==
    /\ IsFiniteSet(Sessions) /\ Broken \subseteq Sessions
    /\ Limit \in Nat \ {0}
    /\ MaxFaults \in Nat /\ MaxTouches \in Nat

Statuses == <<"scheduled", "active", "ended">>   \* the order of a sweep

VARIABLES
    status,   \* sessions.status
    order,    \* the sessions by updated_at, oldest first
    room,     \* rooms that exist at the provider
    lost,     \* rooms the provider removed by itself
    torn,     \* rooms removed by a close that had timed out before
    late,     \* calls that timed out and still take effect
    start,    \* starts that hold the session's lock, by progress
    ending,   \* ended sessions whose EndSession has yet to call CloseRoom
    sweep,    \* the worker: the status it is at and the rest of the page
    faults, touches

rowVars    == <<status, order, touches>>
roomVars   == <<room, lost, torn, late>>
callVars   == <<start, ending>>
vars       == <<rowVars, roomVars, callVars, sweep, faults>>

Idle == [at |-> 0, page |-> <<>>]

Init ==
    /\ status = [s \in Sessions |-> "scheduled"]
    /\ order \in SetToSeqs(Sessions)
    /\ room = {} /\ lost = {} /\ torn = {} /\ late = {}
    /\ start = [s \in Sessions |-> "none"]
    /\ ending = {}
    /\ sweep = Idle
    /\ faults = 0 /\ touches = 0

\* updated_at = NOW(): the session becomes the youngest.
Refresh(s) == order' = Append(Remove(order, s), s)

-----------------------------------------------------------------------------
(* The provider                                                            *)

Fault == faults < MaxFaults /\ faults' = faults + 1

\* Mutant: a room that was created once is taken to exist still.
EnsureRoomUnlessLost(s) ==
    /\ room' = IF s \in lost THEN room ELSE room \cup {s}
    /\ UNCHANGED <<lost, torn, late>>

\* CreateRoom and DeleteRoom, both idempotent.
RoomExists(s) == room' = room \cup {s} /\ lost' = lost \ {s} /\ torn' = torn \ {s}
EnsureRoom(s) == RoomExists(s) /\ UNCHANGED late
CloseRoom(s)  == room' = room \ {s} /\ UNCHANGED <<lost, torn, late>>

\* A call without effect, or with an effect that comes after the timeout.
CallFails(s, call) ==
    /\ Fault
    /\ \/ UNCHANGED late
       \/ late' = late \cup {<<call, s>>}
    /\ UNCHANGED <<room, lost, torn>>

\* The caller gave the call up, and its lock with it: a session whose close
\* timed out in a sweep may have been started since.
LateEffect(s) ==
    /\ \/ /\ <<"ensure", s>> \in late
          /\ late' = late \ {<<"ensure", s>>}
          /\ RoomExists(s)
       \/ /\ <<"close", s>> \in late
          /\ late' = late \ {<<"close", s>>}
          /\ room' = room \ {s} /\ torn' = torn \cup {s} /\ UNCHANGED lost
    /\ UNCHANGED <<rowVars, callVars, sweep, faults>>

\* The provider restarts, or its idle timeout closes an empty room.
RoomLost(s) ==
    /\ Fault
    /\ s \in room
    /\ room' = room \ {s} /\ lost' = lost \cup {s}
    /\ UNCHANGED <<torn, late, rowVars, callVars, sweep>>

-----------------------------------------------------------------------------
(* Foreground                                                              *)

\* StartSession takes the session's advisory lock and calls EnsureRoom.
BeginStart(s) ==
    /\ status[s] = "scheduled" /\ start[s] = "none"
    /\ \/ EnsureRoom(s) /\ start' = [start EXCEPT ![s] = "ensured"] /\ UNCHANGED faults
       \/ CallFails(s, "ensure") /\ UNCHANGED start
    /\ UNCHANGED <<rowVars, ending, sweep>>

CommitStart(s) ==
    /\ start[s] = "ensured"
    /\ start' = [start EXCEPT ![s] = "none"]
    /\ status' = [status EXCEPT ![s] = "active"]
    /\ Refresh(s)
    /\ UNCHANGED <<touches, roomVars, ending, sweep, faults>>

\* A check after EnsureRoom refuses, or the credential cannot be issued: the
\* row is as before, the room stays.
RollbackStart(s) ==
    /\ Fault
    /\ start[s] = "ensured"
    /\ start' = [start EXCEPT ![s] = "none"]
    /\ UNCHANGED <<rowVars, roomVars, ending, sweep>>

\* Joins, locks and removals refresh updated_at of the session.
Touch(s) ==
    /\ touches < MaxTouches
    /\ status[s] = "active"
    /\ touches' = touches + 1
    /\ Refresh(s)
    /\ UNCHANGED <<status, roomVars, callVars, sweep, faults>>

EndSession(s) ==
    /\ status[s] = "active" /\ start[s] = "none"
    /\ status' = [status EXCEPT ![s] = "ended"]
    /\ Refresh(s)
    /\ ending' = ending \cup {s}
    /\ UNCHANGED <<touches, roomVars, start, sweep, faults>>

\* After the commit; the error is dropped.  No call at all if the row that
\* was read before authorization had no room reference yet.
EndCloses(s) ==
    /\ s \in ending
    /\ ending' = ending \ {s}
    /\ \/ s \notin Broken /\ CloseRoom(s) /\ UNCHANGED faults
       \/ UNCHANGED <<roomVars, faults>>
       \/ CallFails(s, "close")
    /\ UNCHANGED <<rowVars, start, sweep>>

-----------------------------------------------------------------------------
(* The reconciler                                                          *)

\* ListRecoveryCandidates.
Candidates(st) ==
    LET rows == SelectSeq(order, LAMBDA s : status[s] = st)
    IN SubSeq(rows, 1, IF Len(rows) < Limit THEN Len(rows) ELSE Limit)

\* The next status of the sweep, and after the last one the next sweep.
ListRecoveryCandidates ==
    /\ sweep.page = <<>>
    /\ LET at == (sweep.at % Len(Statuses)) + 1
       IN sweep' = [at |-> at, page |-> Candidates(Statuses[at])]
    /\ UNCHANGED <<rowVars, roomVars, callVars, faults>>

\* Mutant: the status of the page is acted upon.
StatusOfPage(s) == Statuses[sweep.at]

\* reconcileCandidate reads the row again under the lock.
CurrentStatus(s) == status[s]

\* Mutant: finalization leaves updated_at alone.
KeepOrder(s) == UNCHANGED order

\* attendance.Finalize commits in a transaction of its own, before the room
\* is closed, and moves the session to the end of the next page.
Finalize(s) == Refresh(s)

Repair(s) ==
    \/ /\ CurrentStatus(s) = "scheduled"
       /\ CloseRoom(s)
       /\ UNCHANGED <<order, faults>>
    \/ /\ CurrentStatus(s) = "active"
       /\ EnsureRoom(s)
       /\ UNCHANGED <<order, faults>>
    \/ /\ CurrentStatus(s) = "ended"
       /\ Finalize(s)
       /\ IF s \in Broken THEN UNCHANGED roomVars ELSE CloseRoom(s)
       /\ UNCHANGED faults
    \/ /\ CallFails(s, IF CurrentStatus(s) = "active" THEN "ensure" ELSE "close")
       /\ IF CurrentStatus(s) = "ended" THEN Finalize(s) ELSE UNCHANGED order

\* TrySessionLock: a busy session is passed over.
ReconcileCandidate ==
    /\ sweep.page # <<>>
    /\ sweep' = [sweep EXCEPT !.page = Tail(@)]
    /\ LET s == Head(sweep.page)
       IN IF start[s] = "none" THEN Repair(s) ELSE UNCHANGED <<order, roomVars, faults>>
    /\ UNCHANGED <<status, touches, callVars>>

\* Transactions roll back, CloseRoom is never called, the sweep starts over.
Crash ==
    /\ Fault
    /\ start' = [s \in Sessions |-> "none"]
    /\ ending' = {}
    /\ sweep' = Idle
    /\ UNCHANGED <<rowVars, roomVars>>

-----------------------------------------------------------------------------
Next ==
    \/ \E s \in Sessions : \/ BeginStart(s) \/ CommitStart(s) \/ RollbackStart(s)
                           \/ Touch(s) \/ EndSession(s) \/ EndCloses(s)
                           \/ LateEffect(s) \/ RoomLost(s)
    \/ ListRecoveryCandidates \/ ReconcileCandidate
    \/ Crash

\* Run sweeps at startup and every 30 seconds; a start that holds the lock
\* commits or is rolled back with its connection.
Fairness ==
    /\ WF_vars(ListRecoveryCandidates) /\ WF_vars(ReconcileCandidate)
    /\ \A s \in Sessions : WF_vars(CommitStart(s)) /\ WF_vars(LateEffect(s))

Spec == Init /\ [][Next]_vars /\ Fairness

-----------------------------------------------------------------------------
(* Properties                                                              *)

\* The variables have the values the code gives them; order stays a
\* permutation of the sessions.
TypeOK ==
    /\ status \in [Sessions -> Range(Statuses)]
    /\ order \in SetToSeqs(Sessions)
    /\ room \subseteq Sessions /\ lost \subseteq Sessions /\ torn \subseteq Sessions
    /\ late \subseteq {"ensure", "close"} \X Sessions
    /\ start \in [Sessions -> {"none", "ensured"}]
    /\ ending \subseteq Sessions
    /\ sweep.at \in 0..3 /\ sweep.page \in Seq(Sessions)
    /\ faults \in 0..MaxFaults /\ touches \in 0..MaxTouches

\* No close that takes effect within its call hits an active session, however
\* sweeps, starts and the close of EndSession interleave.  What can take the room
\* of an active session away is the provider (lost) or a close that takes effect
\* after its caller gave it up (torn).
ActiveKeepsRoom ==
    \A s \in Sessions : status[s] = "active" => s \in room \cup lost \cup torn

\* Every ended session loses its room for good, whatever became of the close
\* in EndSession, even if the room of another session in front of it can
\* never be closed: Finalize rotates the page.
EndedRoomIsClosed ==
    \A s \in Sessions \ Broken : status[s] = "ended" ~> [](s \notin room)

\* Among the first Limit active rows, by updated_at.
InActivePage(s) == s \in Range(Candidates("active"))

\* An active session without a room gets it back as long as it stays in the
\* page of its status.  (Beyond the page it waits: active rows do not rotate.)
ActiveRoomIsRestored ==
    \A s \in Sessions :
        (InActivePage(s) /\ s \notin room) ~> (s \in room \/ ~InActivePage(s))

=============================================================================
