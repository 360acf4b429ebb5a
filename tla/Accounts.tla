------------------------------- MODULE Accounts -------------------------------
(***************************************************************************)
(* Accounts and their backend sessions (backend/internal/auth), profiles   *)
(* (backend/internal/profile) and the middleware that admits requests.     *)
(*                                                                         *)
(* A request goes through several statements, each a step of its own:      *)
(* other requests, the closure of the account and the worker that removes  *)
(* closed identities from Firebase run in between.  Closing an account is  *)
(* one transaction; the identity is removed after it, by the request or by *)
(* the worker.  Any request may stop after any step (Abandon).             *)
(***************************************************************************)
EXTENDS Naturals, FiniteSets, FiniteSetsExt, Functions

CONSTANTS
    Uids,         \* Firebase identities
    Ids,          \* users.id, ordered
    SessionIds,   \* user_sessions.session_id
    Requests,
    Undeletable,  \* identities whose removal Firebase always refuses
    BatchSize,    \* defaultDeletionBatchSize
    MaxFaults     \* bound: failed calls and restarts

ASSUME AccountsConstants ==
    /\ IsFiniteSet(Uids) /\ Undeletable \subseteq Uids /\ "none" \notin Uids
    /\ Ids \subseteq Nat \ {0} /\ IsFiniteSet(Ids)
    /\ BatchSize \in Nat \ {0}
    /\ MaxFaults \in Nat

VARIABLES
    users,      \* rows of users; uid is what the tombstone's hash still knows
    profile,    \* rows of profiles, by what they hold
    sessions,   \* rows of user_sessions; ended by logout or by time
    firebase,   \* identities that exist at Firebase
    request,    \* requests under way
    worker,     \* ReconcilePending: cursor (0 for nil) and what is left of the batch
    overtaken,  \* accounts closed while an update of their profile was running
    faults

dbVars  == <<users, profile, sessions, overtaken>>
vars    == <<dbVars, firebase, request, worker, faults>>

NoUser    == [uid |-> "none", deleted |-> FALSE, linked |-> FALSE]
Unused    == [user |-> 0, state |-> "unused"]
NoRequest == [pc |-> "idle", uid |-> "none", user |-> 0, session |-> "none"]

\* The accounts of undeletable identities were closed before, and are pending.
Init ==
    /\ \E at \in Injection(Undeletable, Ids) :
         users = [i \in Ids |-> IF i \in Range(at)
                                THEN [uid |-> Inverse(at, Undeletable, Ids)[i], deleted |-> TRUE, linked |-> TRUE]
                                ELSE NoUser]
    /\ profile = [i \in Ids |-> "none"]
    /\ sessions = [s \in SessionIds |-> Unused]
    /\ firebase = Uids
    /\ request = [r \in Requests |-> NoRequest]
    /\ worker = [cursor |-> 0, page |-> {}]
    /\ overtaken = {}
    /\ faults = 0

Active(i) == users[i].uid # "none" /\ ~users[i].deleted

\* The sessions that have a row; their IDs are never used again.
Stored == {s \in SessionIds : sessions[s].state \in {"live", "ended"}}

Goto(r, pc)  == request' = [request EXCEPT ![r].pc = pc]
Enter(r, pc) == request' = [request EXCEPT ![r].pc = pc, ![r].session = "none"]
Answer(r)    == request' = [request EXCEPT ![r] = NoRequest]
At(r, pc)    == request[r].pc = pc

-----------------------------------------------------------------------------
(* Registration and login                                                  *)

\* RequireVerifiedFirebase: Firebase is asked whether the token is revoked.
VerifyRegistration(r, u) ==
    /\ At(r, "idle")
    /\ u \in firebase
    /\ request' = [request EXCEPT ![r] = [@ EXCEPT !.pc = "upsert", !.uid = u]]
    /\ UNCHANGED <<dbVars, firebase, worker, faults>>

\* Mutant: only a row that still carries the Firebase UID counts.
TombstoneLinked(u) == \E i \in Ids : users[i].uid = u /\ users[i].deleted /\ users[i].linked

\* The hash survives the removal of the Firebase UID.
Tombstone(u) == \E i \in Ids : users[i].uid = u /\ users[i].deleted

\* One transaction under the identity's advisory lock.
UpsertUserByFirebaseUID(r) ==
    /\ At(r, "upsert")
    /\ LET u == request[r].uid
           known == {i \in Ids : users[i].uid = u /\ users[i].linked}
       IN \/ /\ Tombstone(u)
             /\ Answer(r)
             /\ UNCHANGED users
          \/ /\ ~Tombstone(u) /\ known # {}
             /\ \E i \in known :
                  request' = [request EXCEPT ![r] = [NoRequest EXCEPT !.pc = "session", !.user = i]]
             /\ UNCHANGED users
          \/ /\ ~Tombstone(u) /\ known = {}
             /\ \E i \in Ids :
                  /\ users[i] = NoUser
                  /\ users' = [users EXCEPT ![i] = [uid |-> u, deleted |-> FALSE, linked |-> TRUE]]
                  /\ request' = [request EXCEPT ![r] = [NoRequest EXCEPT !.pc = "name", !.user = i]]
    /\ UNCHANGED <<profile, sessions, overtaken, firebase, worker, faults>>

\* Only for a user this request inserted; an existing row is left alone.
UpsertProfileOnRegister(r) ==
    /\ At(r, "name")
    /\ profile' = [profile EXCEPT ![request[r].user] = IF @ = "none" THEN "named" ELSE @]
    /\ Goto(r, "session")
    /\ UNCHANGED <<users, sessions, overtaken, firebase, worker, faults>>

\* RequireRevocationCheckedBearer on POST /auth/sessions.
VerifyLogin(r, u) ==
    /\ At(r, "idle")
    /\ u \in firebase
    /\ \E i \in Ids :
         /\ users[i].uid = u /\ users[i].linked /\ Active(i)
         /\ request' = [request EXCEPT ![r] = [@ EXCEPT !.pc = "session", !.user = i]]
    /\ UNCHANGED <<dbVars, firebase, worker, faults>>

\* Mutant: the account found when the request came in is taken as active.
LockAnyAccount(i) == TRUE

\* lockActiveAccountQuery: FOR UPDATE, against the closure.
LockActiveAccount(i) == Active(i)

CreateSession(r) ==
    /\ At(r, "session")
    /\ LET i == request[r].user
       IN IF LockActiveAccount(i)
          THEN \E s \in SessionIds :
                 /\ sessions[s] = Unused
                 /\ sessions' = [sessions EXCEPT ![s] = [user |-> i, state |-> "live"]]
          ELSE UNCHANGED sessions
    /\ Answer(r)
    /\ UNCHANGED <<users, profile, overtaken, firebase, worker, faults>>

-----------------------------------------------------------------------------
(* The middleware of all other requests                                    *)

\* authenticateBearer: a token outlives its identity, the local row decides.
ResolveUser(r, u, s) ==
    /\ At(r, "idle")
    /\ \E i \in Ids :
         /\ users[i].uid = u /\ users[i].linked /\ Active(i)
         /\ request' = [request EXCEPT ![r] = [@ EXCEPT !.pc = "resolved", !.user = i, !.session = s]]
    /\ UNCHANGED <<dbVars, firebase, worker, faults>>

\* requireSession: the session exists, is the user's, not revoked, not expired.
CheckSession(r) ==
    /\ At(r, "resolved")
    /\ IF sessions[request[r].session] = [user |-> request[r].user, state |-> "live"]
       THEN Goto(r, "checked") ELSE Answer(r)
    /\ UNCHANGED <<dbVars, firebase, worker, faults>>

\* Mutant: an update that matched no row is taken for a success.
TouchedAnyway(r) == TRUE

\* Touch matches the session by its ID alone.
Touched(r) == request[r].session \in Stored

Touch(r) ==
    /\ At(r, "checked")
    /\ IF Touched(r) THEN Goto(r, "admitted") ELSE Answer(r)
    /\ UNCHANGED <<dbVars, firebase, worker, faults>>

Logout(r) ==
    /\ At(r, "admitted")
    /\ sessions' = [sessions EXCEPT ![request[r].session].state =
                      IF request[r].session \in Stored THEN "ended" ELSE @]
    /\ Answer(r)
    /\ UNCHANGED <<users, profile, overtaken, firebase, worker, faults>>

\* The absolute lifetime or the inactivity timeout passes.
Expire(s) ==
    /\ sessions[s].state = "live"
    /\ sessions' = [sessions EXCEPT ![s].state = "ended"]
    /\ UNCHANGED <<users, profile, overtaken, firebase, request, worker, faults>>

-----------------------------------------------------------------------------
(* Profile                                                                 *)

\* GetByUserID before the update; a closed account is not found.
LoadProfile(r) ==
    /\ At(r, "admitted")
    /\ IF Active(request[r].user) THEN Enter(r, "update") ELSE Answer(r)
    /\ UNCHANGED <<dbVars, firebase, worker, faults>>

\* Mutant: the update looks at no account.
UpdateSeesAnyAccount(i) == TRUE

\* WHERE EXISTS (... deleted_at IS NULL), in the statement's snapshot.
UpdateSeesAccount(i) == Active(i)

\* The statement starts; at a row that another transaction holds it waits.
BeginUpdate(r) ==
    /\ At(r, "update")
    /\ IF UpdateSeesAccount(request[r].user) THEN Goto(r, "writing") ELSE Answer(r)
    /\ UNCHANGED <<dbVars, firebase, worker, faults>>

\* ON CONFLICT DO UPDATE: EXISTS is not evaluated again.
WriteProfile(r) ==
    /\ At(r, "writing")
    /\ profile' = [profile EXCEPT ![request[r].user] = "personal"]
    /\ Answer(r)
    /\ UNCHANGED <<users, sessions, overtaken, firebase, worker, faults>>

-----------------------------------------------------------------------------
(* Closure                                                                 *)

\* closeAccountQuery, scrubClosedProfileQuery, deleteUserSessionsQuery.
Erase(i) ==
    /\ users' = [users EXCEPT ![i].deleted = TRUE]
    /\ profile' = [profile EXCEPT ![i] = IF @ = "none" THEN @ ELSE "scrubbed"]
    /\ sessions' = [s \in SessionIds |->
                      IF sessions[s].user = i THEN [sessions[s] EXCEPT !.state = "deleted"] ELSE sessions[s]]

\* A manager, or somebody inside a live session, is refused: no step.
CloseStudentAccount(r) ==
    /\ At(r, "admitted")
    /\ LET i == request[r].user
       IN IF Active(i)
          THEN /\ Erase(i)
               /\ overtaken' = IF \E q \in Requests : At(q, "writing") /\ request[q].user = i
                               THEN overtaken \cup {i} ELSE overtaken
               /\ Enter(r, "remove")
          ELSE Answer(r) /\ UNCHANGED dbVars
    /\ UNCHANGED <<firebase, worker, faults>>

Fault == faults < MaxFaults /\ faults' = faults + 1

\* DeleteUser: gone, was gone, or an error; a timeout may hide either.
DeleteUser(u) ==
    \/ u \notin Undeletable /\ firebase' = firebase \ {u} /\ UNCHANGED faults
    \/ Fault /\ u \notin Undeletable /\ firebase' = firebase \ {u}
    \/ Fault /\ UNCHANGED firebase
    \/ u \in Undeletable /\ UNCHANGED <<firebase, faults>>

\* The call failed, as the caller sees it.
Removed(u) == u \notin firebase' /\ faults' = faults

RemoveIdentity(r) ==
    /\ At(r, "remove")
    /\ DeleteUser(users[request[r].user].uid)
    /\ IF Removed(users[request[r].user].uid) THEN Goto(r, "clear") ELSE Answer(r)
    /\ UNCHANGED <<dbVars, worker>>

ClearDeletedAccountFirebaseUID(r) ==
    /\ At(r, "clear")
    /\ users' = [users EXCEPT ![request[r].user].linked = FALSE]
    /\ Answer(r)
    /\ UNCHANGED <<profile, sessions, overtaken, firebase, worker, faults>>

-----------------------------------------------------------------------------
(* ReconcilePending                                                        *)

Pending(after) == {i \in Ids : users[i].deleted /\ users[i].linked /\ i > after}

\* The first BatchSize of them, by ID.
Page(after) == {i \in Pending(after) : Cardinality({j \in Pending(after) : j < i}) < BatchSize}

\* Mutant: every batch starts at the front.
FirstPage == Page(0)

\* After the last page the next sweep starts over.
NextPage == IF Page(worker.cursor) # {} THEN Page(worker.cursor) ELSE Page(0)

\* The cursor moves to the last of the batch whatever becomes of it; only the
\* next batch reads it.
ListPending ==
    /\ worker.page = {}
    /\ NextPage # {}
    /\ worker' = [cursor |-> Max(NextPage), page |-> NextPage]
    /\ UNCHANGED <<dbVars, firebase, request, faults>>

\* removeFirebaseIdentity for the next of the batch.
ReconcileNext ==
    /\ worker.page # {}
    /\ LET i == Min(worker.page)
           u == users[i].uid
       IN /\ DeleteUser(u)
          /\ users' = IF Removed(u) THEN [users EXCEPT ![i].linked = FALSE] ELSE users
          /\ worker' = [worker EXCEPT !.page = @ \ {i}]
    /\ UNCHANGED <<profile, sessions, overtaken, request>>

\* The process dies with everything under way; the cursor is in memory.
Restart ==
    /\ Fault
    /\ request' = [r \in Requests |-> NoRequest]
    /\ worker' = [cursor |-> 0, page |-> {}]
    /\ UNCHANGED <<dbVars, firebase>>

\* The client gives up or a statement fails.
Abandon(r) ==
    /\ request[r].pc # "idle"
    /\ Answer(r)
    /\ UNCHANGED <<dbVars, firebase, worker, faults>>

-----------------------------------------------------------------------------
Next ==
    \/ \E r \in Requests, u \in Uids :
         \/ VerifyRegistration(r, u) \/ VerifyLogin(r, u)
         \/ \E s \in SessionIds : ResolveUser(r, u, s)
    \/ \E r \in Requests :
         \/ UpsertUserByFirebaseUID(r) \/ UpsertProfileOnRegister(r) \/ CreateSession(r)
         \/ CheckSession(r) \/ Touch(r) \/ Logout(r)
         \/ LoadProfile(r) \/ BeginUpdate(r) \/ WriteProfile(r)
         \/ CloseStudentAccount(r) \/ RemoveIdentity(r) \/ ClearDeletedAccountFirebaseUID(r)
         \/ Abandon(r)
    \/ \E s \in SessionIds : Expire(s)
    \/ ListPending \/ ReconcileNext \/ Restart

\* main.go runs ReconcilePending at startup and every hour.
Spec == Init /\ [][Next]_vars /\ WF_vars(ListPending) /\ WF_vars(ReconcileNext)

-----------------------------------------------------------------------------
(* Properties                                                              *)

\* Rows, requests and the worker have the shape the code gives them.
TypeOK ==
    /\ users \in [Ids -> [uid : Uids \cup {"none"}, deleted : BOOLEAN, linked : BOOLEAN]]
    /\ profile \in [Ids -> {"none", "named", "personal", "scrubbed"}]
    /\ sessions \in [SessionIds -> [user : Ids \cup {0}, 
                                   state : {"unused", "live", "ended", "deleted"}]]
    /\ firebase \subseteq Uids
    /\ worker.cursor \in Ids \cup {0} /\ worker.page \subseteq Ids
    /\ overtaken \subseteq Ids /\ faults \in 0..MaxFaults

\* A closed identity never gets another account, even by a registration that
\* was verified before the closure and runs after the Firebase UID is cleared.
TombstoneIsFinal ==
    \A i, j \in Ids : users[i].deleted /\ users[j].uid = users[i].uid => i = j

\* A closed account has no backend session: a login or a registration that
\* passed its checks before the closure must not leave one behind.
ClosedHasNoSession ==
    \A s \in Stored : ~users[sessions[s].user].deleted

\* No request is admitted once the account is closed (FR-019), although the
\* middleware read account and session in earlier statements.  A session that
\* was logged out in between is another matter: Touch does not look at that.
AdmittedIsActive ==
    [][\A r \in Requests : request[r].pc # "admitted" /\ request'[r].pc = "admitted"
                           => Active(request[r].user)]_vars

\* Personal data of a closed account is erased and stays so, except where a
\* profile update was in the middle of its statement when the account closed.
ClosedProfileIsErased ==
    \A i \in Ids : users[i].deleted /\ profile[i] = "personal" => i \in overtaken

\* Every closed account eventually loses its Firebase UID, even if Firebase
\* keeps refusing another one: the cursor passes it by.
IdentityIsRemoved ==
    \A i \in Ids :
        (users[i].deleted /\ users[i].uid \notin Undeletable) ~> ~users[i].linked

=============================================================================
