-------------------------------- MODULE Chat --------------------------------
(***************************************************************************)
(* Chat of one circle and of the pairs in it (backend/internal/chat):      *)
(* staged uploads and their objects, messages, replies, read receipts,     *)
(* pins, deletion, the cleaner, the media reconciler and the outbox.       *)
(*                                                                         *)
(* The database and the object store change in separate steps.  Deletion   *)
(* and pinning are transactions of several steps, because the one calls    *)
(* the object store in between and both take their row locks one by one;   *)
(* the other commands take their locks at once and are one step.           *)
(*                                                                         *)
(* A member of Messages stands for a pair of sender and idempotency key:   *)
(* a send whose key is taken either returns the stored message or is       *)
(* refused, and changes nothing.  Time is left out: the ten minutes of     *)
(* deletion, the 24 hours of staging, leases and backoffs end at any       *)
(* moment; only whether an upload still counts for the hour is kept.       *)
(***************************************************************************)
EXTENDS Naturals, FiniteSets

CONSTANTS
    Users,
    Staff,                \* teachers and supervisors among the users
    Teachers,             \* teachers among the staff
    Messages,             \* numbers, ordered as the message IDs are
    Uploads, Txs,         \* numbered, and taken in order
    PinLimit,             \* 5
    UploadLimit,          \* MaxUploadsPerRollingHour
    AttemptLimit,         \* chatOutboxAttemptLimit
    ReconciliationLimit,  \* DefaultMediaReconciliationLimit
    Budgets               \* bounds: how many requests of each kind, changes of
                          \* the circle and faults a behaviour may have

Spendings == {"changes", "uploads", "sends", "reads", "deletes", "pins", "faults"}

ASSUME ChatConstants ==
    /\ IsFiniteSet(Users) /\ Teachers \subseteq Staff /\ Staff \subseteq Users
    /\ IsFiniteSet(Messages) /\ Messages \subseteq Nat
    /\ IsFiniteSet(Uploads)
    /\ PinLimit \in Nat /\ UploadLimit \in Nat /\ ReconciliationLimit \in Nat
    /\ AttemptLimit \in Nat \ {0} /\ Budgets \subseteq [Spendings -> Nat]

Nobody == "nobody"
Group  == "group"      \* the conversation of the circle; a pair is named by the peer
None   == "none"

VARIABLES
    members,     \* current members of the circle
    archived,    \* circles.is_archived
    message,     \* messages
    reads,       \* message_reads
    upload,      \* chat_uploads
    object,      \* the object of an upload: none, visible, or under a delete marker
    tx,          \* open transactions of deletions and pins
    claimed,     \* uploads that the cleaner is working on
    sweep,       \* the reconciler: the message it is at and the state it read
    event,       \* chat_event_outbox
    batch,       \* events that the dispatcher has claimed
    loaded,      \* of these, the one whose message it has loaded
    shown,       \* what clients were last shown of a message
    left         \* what is left of the budget

rows    == <<members, archived, message, reads>>
media   == <<upload, object>>
workers == <<claimed, sweep>>
outbox  == <<event, batch, loaded, shown>>
vars    == <<rows, media, tx, workers, outbox, left>>

Kinds  == {"message", "echo", "read", "deleted"}
Events == Messages \X Kinds

NoMessage == [state |-> "none", sender |-> Nobody, to |-> None, upload |-> 0,
              reply |-> 0, pinned |-> FALSE]
NoUpload  == [state |-> "none", owner |-> Nobody, to |-> None, recent |-> FALSE]
NoEvent   == [state |-> "none", attempt |-> 0]
Idle      == [pc |-> "idle"]

Init ==
    /\ members = Users /\ archived = FALSE
    /\ message = [m \in Messages |-> NoMessage]
    /\ reads = [m \in Messages |-> {}]
    /\ upload = [u \in Uploads |-> NoUpload]
    /\ object = [u \in Uploads |-> "none"]
    /\ tx = [t \in Txs |-> Idle]
    /\ claimed = {} /\ sweep = [at |-> 0, saw |-> "done"]
    /\ event = [e \in Events |-> NoEvent]
    /\ batch = {} /\ loaded = {}
    /\ shown = [m \in Messages |-> "nothing"]
    /\ left \in Budgets

Spend(kind) == left[kind] > 0 /\ left' = [left EXCEPT ![kind] = @ - 1]

-----------------------------------------------------------------------------
(* Who may do what, and the row locks that keep it true                    *)

\* A pair shares an unarchived circle in which one of them is staff and the
\* other a student.
DMEligible(u, v) ==
    /\ u # v /\ {u, v} \subseteq members /\ ~archived
    /\ (u \in Staff) # (v \in Staff)

ActiveMember(u) == u \in members /\ ~archived

Authorized(u, to) == IF to = Group THEN ActiveMember(u) ELSE DMEligible(u, to)

Open == {t \in Txs : tx[t].pc # "idle"}

\* Mutant: the circle is not locked for a pin.
CircleAlwaysFree == TRUE

\* LockActiveCircleMember, LockCirclePinActor and LockQualifyingDMCircle wait
\* for who holds the circle.
CircleFree == \A t \in Open : tx[t].pc = "deleting"

\* The row of a message, taken FOR UPDATE or FOR SHARE.
MessageFree(m) == \A t \in Open : tx[t].message = m => tx[t].pc = "pinning"

MediaMessages == {m \in Messages : message[m].upload # 0}

\* The circle changes outside the chat: somebody is removed or it is archived.
MembershipEnds(u) ==
    /\ Spend("changes") /\ CircleFree
    /\ u \in members /\ members' = members \ {u}
    /\ UNCHANGED <<archived, message, reads, media, tx, workers, outbox>>

CircleArchived ==
    /\ Spend("changes") /\ CircleFree
    /\ ~archived /\ archived' = TRUE
    /\ UNCHANGED <<members, message, reads, media, tx, workers, outbox>>

-----------------------------------------------------------------------------
(* Outbox rows                                                             *)

\* InsertOutboxEvent.
Inserted(es) == [e \in Events |-> IF e \in es THEN [state |-> "pending", attempt |-> 0] ELSE event[e]]
Announce(es) == event' = Inserted(es) /\ UNCHANGED <<batch, loaded, shown>>

\* A message of the circle has one event, a direct one has one for each side.
SendEvents(m, to) == IF to = Group THEN {<<m, "message">>} ELSE {<<m, "message">>, <<m, "echo">>}

-----------------------------------------------------------------------------
(* Uploads                                                                 *)

\* countRecentUploadsQuery.
RecentUploads(u) ==
    {p \in Uploads : upload[p].owner = u /\ upload[p].recent /\ upload[p].state \in {"staged", "attached"}}

WithinBudget(u) == Cardinality(RecentUploads(u)) < UploadLimit

\* Stage until the object is written; the budget is looked at without a lock.
StageObject(p, u, to) ==
    /\ Spend("uploads")
    /\ upload[p] = NoUpload /\ \A q \in Uploads : q < p => upload[q] # NoUpload
    /\ Authorized(u, to) /\ WithinBudget(u)
    /\ upload' = [upload EXCEPT ![p] = [state |-> "storing", owner |-> u, to |-> to, recent |-> FALSE]]
    /\ object' = [object EXCEPT ![p] = "visible"]
    /\ UNCHANGED <<rows, tx, workers, outbox>>

\* InsertUploadWithinBudget counts again under the advisory lock of the user.
InsertUpload(p) ==
    /\ upload[p].state = "storing" /\ WithinBudget(upload[p].owner)
    /\ upload' = [upload EXCEPT ![p].state = "staged", ![p].recent = TRUE]
    /\ UNCHANGED <<rows, object, tx, workers, outbox, left>>

\* cleanupStagedObject after a refused or failed insert; its own failure, like
\* that of the process, leaves an object without a row.
UploadRefused(p) ==
    /\ upload[p].state = "storing"
    /\ upload' = [upload EXCEPT ![p].state = "gone"]
    /\ object' \in {object, [object EXCEPT ![p] = "marked"]}
    /\ UNCHANGED <<rows, tx, workers, outbox, left>>

HourPasses(p) ==
    /\ upload[p].recent
    /\ upload' = [upload EXCEPT ![p].recent = FALSE]
    /\ UNCHANGED <<rows, object, tx, workers, outbox, left>>

-----------------------------------------------------------------------------
(* Messages                                                                *)

\* InsertMessage, which a taken key turns into a replay or a conflict, and the
\* events of an inserted message.
InsertMessage(m, u, to, p, reply) ==
    /\ message[m] = NoMessage /\ \A n \in Messages : n < m => message[n] # NoMessage
    /\ message' = [message EXCEPT ![m] = [state |-> "active", sender |-> u, to |-> to, upload |-> p,
                                          reply |-> reply, pinned |-> FALSE]]
    /\ Announce(SendEvents(m, to))
    /\ UNCHANGED <<members, archived, reads>>

SendText(m, u, to) ==
    /\ Spend("sends") /\ CircleFree
    /\ Authorized(u, to)
    /\ InsertMessage(m, u, to, 0, 0)
    /\ UNCHANGED <<media, tx, workers>>

\* The two ends of a conversation.
Conversation(u, to) == IF to = Group THEN {Group} ELSE {u, to}

\* The target is active, in the same conversation, and share-locked.
ReplyText(m, u, to, target) ==
    /\ Spend("sends") /\ CircleFree /\ MessageFree(target)
    /\ Authorized(u, to)
    /\ message[target].state = "active"
    /\ Conversation(message[target].sender, message[target].to) = Conversation(u, to)
    /\ InsertMessage(m, u, to, 0, target)
    /\ UNCHANGED <<media, tx, workers>>

\* checkAttachableUpload: the sender's own staged upload for this conversation.
Attachable(p, u, to) == upload[p].state = "staged" /\ upload[p].owner = u /\ upload[p].to = to

\* AttachUpload uses the upload up.
Attach(p) == upload' = [upload EXCEPT ![p].state = "attached"]

SendGroupMedia(m, u, p) ==
    /\ Spend("sends") /\ CircleFree
    /\ ActiveMember(u) /\ Attachable(p, u, Group)
    /\ InsertMessage(m, u, Group, p, 0)
    /\ Attach(p)
    /\ UNCHANGED <<object, tx, workers>>

SendDirectMedia(m, u, peer, p) ==
    /\ Spend("sends") /\ CircleFree
    /\ DMEligible(u, peer) /\ Attachable(p, u, peer)
    /\ InsertMessage(m, u, peer, p, 0)
    /\ Attach(p)
    /\ UNCHANGED <<object, tx, workers>>

\* A repeated mark is no new fact and no event.
InsertMessageRead(m, u) ==
    /\ u \notin reads[m]
    /\ reads' = [reads EXCEPT ![m] = @ \cup {u}]
    /\ Announce({<<m, "read">>})
    /\ UNCHANGED <<members, archived, message>>

MarkGroupMessageRead(m, u) ==
    /\ Spend("reads") /\ CircleFree /\ MessageFree(m)
    /\ ActiveMember(u)
    /\ message[m].state = "active" /\ message[m].to = Group /\ message[m].sender # u
    /\ InsertMessageRead(m, u)
    /\ UNCHANGED <<media, tx, workers>>

\* Only the message is locked.
MarkDirectMessageRead(m, u) ==
    /\ Spend("reads") /\ MessageFree(m)
    /\ message[m].state = "active" /\ message[m].to = u /\ DMEligible(message[m].sender, u)
    /\ InsertMessageRead(m, u)
    /\ UNCHANGED <<media, tx, workers>>

\* What History, Search and ListPinned return to a member, also of an archived
\* circle, and to a pair while it is eligible.
CanView(u, m) ==
    IF message[m].to = Group THEN u \in members
    ELSE \E v \in Users : {u, v} = {message[m].sender, message[m].to} /\ DMEligible(u, v)

InHistory(u, m) == message[m].state = "active" /\ CanView(u, m)

\* A link to an attached upload of an active message.
RenewMediaURL(u, m) ==
    message[m].state = "active" /\ upload[message[m].upload].state = "attached" /\ CanView(u, m)

\* projectMessageMedia: a page with media needs its links.
Projectable(u, m) == message[m].upload # 0 => RenewMediaURL(u, m)

-----------------------------------------------------------------------------
(* Deletion                                                                *)

Begin(t, row) ==
    /\ tx[t].pc = "idle" /\ \A s \in Txs : s < t => tx[s].pc # "idle"
    /\ tx' = [tx EXCEPT ![t] = row]
Finish(t) == tx' = [tx EXCEPT ![t] = Idle]

\* LockMessageForModeration: the message is locked first.
DeleteLocksMessage(t, u, m) ==
    /\ Spend("deletes") /\ MessageFree(m)
    /\ message[m].state # "none"
    /\ Begin(t, [pc |-> "deleting", message |-> m, actor |-> u])
    /\ UNCHANGED <<rows, media, workers, outbox>>

\* A group message by its sender, while the ten minutes last, or by a teacher;
\* a direct one by its sender.
MayDelete(u, m) ==
    IF message[m].to = Group
    THEN ActiveMember(u) /\ (u = message[m].sender \/ u \in Teachers)
    ELSE u = message[m].sender /\ DMEligible(u, message[m].to)

\* The circle and the actor are locked, the authority is checked, and a message
\* that is deleted already ends the transaction (Abort).
DeleteAuthorizes(t) ==
    /\ tx[t].pc = "deleting" /\ CircleFree
    /\ MayDelete(tx[t].actor, tx[t].message)
    /\ message[tx[t].message].state = "active"
    /\ tx' = [tx EXCEPT ![t].pc = "authorized"]
    /\ UNCHANGED <<rows, media, workers, outbox, left>>

\* ApplyDeleteMarker before the commit; text has no object.
DeleteMarks(t) ==
    /\ tx[t].pc = "authorized"
    /\ LET p == message[tx[t].message].upload IN
         object' = IF p = 0 THEN object ELSE [object EXCEPT ![p] = "marked"]
    /\ tx' = [tx EXCEPT ![t].pc = "marked"]
    /\ UNCHANGED <<rows, upload, workers, outbox, left>>

\* softDeleteMessageQuery.
SoftDeleted(row) == [row EXCEPT !.state = "deleted", !.pinned = FALSE]

DeleteCommits(t) ==
    /\ tx[t].pc = "marked"
    /\ message' = [message EXCEPT ![tx[t].message] = SoftDeleted(@)]
    /\ Announce({<<tx[t].message, "deleted">>})
    /\ Finish(t)
    /\ UNCHANGED <<members, archived, reads, media, workers, left>>

-----------------------------------------------------------------------------
(* Pins                                                                    *)

\* LockCirclePinActor.
PinLocksCircle(t, u, m) ==
    /\ Spend("pins") /\ CircleFree
    /\ ActiveMember(u) /\ u \in Staff
    /\ message[m].to = Group
    /\ Begin(t, [pc |-> "pinning", message |-> m, actor |-> u])
    /\ UNCHANGED <<rows, media, workers, outbox>>

Pinned == {m \in Messages : message[m].pinned /\ message[m].state = "active"}

\* LockVisibleGroupMessagePinState and CountPinnedMessages.
PinCounts(t) ==
    /\ tx[t].pc = "pinning" /\ MessageFree(tx[t].message)
    /\ message[tx[t].message].state = "active" /\ ~message[tx[t].message].pinned
    /\ Cardinality(Pinned) < PinLimit
    /\ tx' = [tx EXCEPT ![t].pc = "counted"]
    /\ UNCHANGED <<rows, media, workers, outbox, left>>

PinCommits(t) ==
    /\ tx[t].pc = "counted"
    /\ message' = [message EXCEPT ![tx[t].message].pinned = TRUE]
    /\ Finish(t)
    /\ UNCHANGED <<members, archived, reads, media, workers, outbox, left>>

Unpin(t) ==
    /\ tx[t].pc = "pinning" /\ MessageFree(tx[t].message)
    /\ tx[t].message \in Pinned
    /\ message' = [message EXCEPT ![tx[t].message].pinned = FALSE]
    /\ Finish(t)
    /\ UNCHANGED <<members, archived, reads, media, workers, outbox, left>>

\* A refusal, a failed call, a lost connection, or the victim of a deadlock
\* between a deletion, which holds the message, and a pin, which holds the
\* circle.  A marker that was set stays.
Abort(t) ==
    /\ tx[t].pc # "idle"
    /\ Finish(t)
    /\ UNCHANGED <<rows, media, workers, outbox, left>>

-----------------------------------------------------------------------------
(* The cleaner of staged uploads, once an hour                             *)

\* ClaimExpiredStaged; which of them are a day old is open.
ClaimExpired(ps) ==
    /\ claimed = {} /\ ps # {}
    /\ \A p \in ps : upload[p].state = "staged" /\ ~upload[p].recent
    /\ upload' = [p \in Uploads |-> IF p \in ps THEN [upload[p] EXCEPT !.state = "revoked"] ELSE upload[p]]
    /\ claimed' = ps
    /\ UNCHANGED <<rows, object, tx, sweep, outbox, left>>

\* The marker is set and FinalizeExpiredStaged removes the row.
Cleaned(p) ==
    /\ p \in claimed
    /\ object' = [object EXCEPT ![p] = "marked"]
    /\ upload' = [upload EXCEPT ![p].state = "gone"]
    /\ claimed' = claimed \ {p}
    /\ UNCHANGED <<rows, tx, sweep, outbox, left>>

\* The marker call fails, with or without effect, and ReleaseExpiredStaged makes
\* the upload attachable again; or the call after it fails, and the row stays
\* revoked for good.
CleaningFails(p) ==
    /\ Spend("faults") /\ p \in claimed
    /\ object' \in {object, [object EXCEPT ![p] = "marked"]}
    /\ upload' \in {upload, [upload EXCEPT ![p].state = "staged"]}
    /\ claimed' = claimed \ {p}
    /\ UNCHANGED <<rows, tx, sweep, outbox>>

-----------------------------------------------------------------------------
(* The media reconciler, every 30 seconds                                  *)

\* Mutant: the sweep passes over deleted messages.
ActivePage ==
    {m \in MediaMessages : /\ message[m].state = "active"
                           /\ Cardinality({n \in MediaMessages : n < m}) < ReconciliationLimit}

\* FindMediaReconciliationMessageIDs: the first messages with media, without a
\* cursor.  (The code lists them when a sweep begins; here a message may join
\* a sweep under way.)
Page == {m \in MediaMessages : Cardinality({n \in MediaMessages : n < m}) < ReconciliationLimit}

\* The next message of the sweep, or the first of the next sweep.
IsNext(m) ==
    /\ m \in Page
    /\ LET later == {n \in Page : n > sweep.at}
       IN IF later # {} THEN m \in later /\ \A n \in later : m <= n ELSE \A n \in Page : m <= n

\* FindMessageUpload takes no lock.
ReconcileReads(m) ==
    /\ sweep.saw = "done" /\ IsNext(m)
    /\ sweep' = [at |-> m, saw |-> message[m].state]
    /\ UNCHANGED <<rows, media, tx, claimed, outbox, left>>

\* The store follows what was read.
ReconcileActs ==
    /\ sweep.saw # "done"
    /\ object' = [object EXCEPT ![message[sweep.at].upload] =
                    IF sweep.saw = "deleted" THEN "marked" ELSE "visible"]
    /\ sweep' = [sweep EXCEPT !.saw = "done"]
    /\ UNCHANGED <<rows, upload, tx, claimed, outbox, left>>

\* A failed call is kept for the log and the sweep goes on.
ReconcileFails ==
    /\ Spend("faults") /\ sweep.saw # "done"
    /\ sweep' = [sweep EXCEPT !.saw = "done"]
    /\ UNCHANGED <<rows, media, tx, claimed, outbox>>

-----------------------------------------------------------------------------
(* The outbox dispatcher                                                   *)

\* Mutant: the last attempt is never claimed.
ClaimableEarly == {e \in Events : event[e].state = "pending" /\ event[e].attempt + 1 < AttemptLimit}

\* claimOutboxEventsQuery, but for the time that leases and backoffs last.
Claimable == {e \in Events : event[e].state = "pending" /\ event[e].attempt < AttemptLimit}

\* The claim counts the attempt.
ClaimDue(es) ==
    /\ batch = {} /\ es # {} /\ es \subseteq Claimable
    /\ event' = [e \in Events |-> IF e \in es THEN [event[e] EXCEPT !.attempt = @ + 1] ELSE event[e]]
    /\ batch' = es
    /\ UNCHANGED <<rows, media, tx, workers, loaded, shown, left>>

\* Mutant: only a message that is gone is stale.
NeverStale(e) == FALSE

\* The message was deleted and the event is not about that.
Stale(e) == e[2] # "deleted" /\ message[e[1]].state = "deleted"

Settle(e, row) == event' = [event EXCEPT ![e] = row] /\ batch' = batch \ {e}

\* Dispatch reloads the message; a stale event is marked delivered unsent.
DispatchLoads(e) ==
    /\ loaded = {} /\ e \in batch
    /\ IF Stale(e)
       THEN Settle(e, [event[e] EXCEPT !.state = "delivered"]) /\ UNCHANGED loaded
       ELSE loaded' = {e} /\ UNCHANGED <<event, batch>>
    /\ UNCHANGED <<rows, media, tx, workers, shown, left>>

\* What ProjectMessage, projectDeletedMessage and projectRead put before the
\* clients.
Projected(e) ==
    CASE e[2] \in {"message", "echo"} -> [shown EXCEPT ![e[1]] = "message"]
      [] e[2] = "deleted"             -> [shown EXCEPT ![e[1]] = "deleted"]
      [] e[2] = "read"                -> shown

DispatchDelivers(e) ==
    /\ e \in loaded
    /\ shown' = Projected(e)
    /\ Settle(e, [event[e] EXCEPT !.state = "delivered"])
    /\ loaded' = {}
    /\ UNCHANGED <<rows, media, tx, workers, left>>

\* Nobody or only some were written to: the event is parked at its last attempt
\* and waits for another one before.
DispatchFails(e) ==
    /\ Spend("faults") /\ e \in loaded
    /\ shown' \in {shown, Projected(e)}
    /\ Settle(e, [event[e] EXCEPT
                    !.state = IF event[e].attempt >= AttemptLimit THEN "parked" ELSE "pending"])
    /\ loaded' = {}
    /\ UNCHANGED <<rows, media, tx, workers>>

\* The database fails before or after the projection; dispatchAll gives up the
\* batch, whose attempts stay counted.
DispatchAborts ==
    /\ Spend("faults") /\ batch # {}
    /\ shown' \in {shown} \cup {Projected(e) : e \in loaded}
    /\ batch' = {} /\ loaded' = {}
    /\ UNCHANGED <<rows, media, tx, workers, event>>

Parked == {e \in Events : event[e].state = "parked"}

\* The process dies and starts again: transactions roll back, the workers forget
\* what they did, and Replay claims parked events, with a fresh count, and due
\* ones.
Restart(es) ==
    /\ Spend("faults")
    /\ es = {} \/ (Parked \subseteq es /\ es \subseteq Claimable \cup Parked)
    /\ event' = [e \in Events |->
                   IF e \notin es THEN event[e]
                   ELSE [state |-> "pending",
                         attempt |-> IF e \in Parked THEN 1 ELSE event[e].attempt + 1]]
    /\ batch' = es /\ loaded' = {}
    /\ tx' = [t \in Txs |-> Idle]
    /\ claimed' = {} /\ sweep' = [at |-> 0, saw |-> "done"]
    /\ UNCHANGED <<rows, media, shown>>

-----------------------------------------------------------------------------
(* Requests, one definition for each handler                               *)

UploadMedia(p, u) == \E to \in {Group} \cup Users : StageObject(p, u, to)

\* Media cannot be replies.
SendCircleMessage(m, u) ==
    \/ SendText(m, u, Group)
    \/ \E n \in Messages : ReplyText(m, u, Group, n)
    \/ \E p \in Uploads : SendGroupMedia(m, u, p)

SendDirectMessage(m, u, peer) ==
    \/ SendText(m, u, peer)
    \/ \E n \in Messages : ReplyText(m, u, peer, n)
    \/ \E p \in Uploads : SendDirectMedia(m, u, peer, p)

MarkMessageRead(m, u) == MarkGroupMessageRead(m, u) \/ MarkDirectMessageRead(m, u)

\* DeleteMessage looks at the pair before the transaction does.
DeleteDirectMessage(t, u, m) ==
    message[m].to \in Users /\ DMEligible(u, message[m].to) /\ DeleteLocksMessage(t, u, m)

DeleteCircleMessage(t, u, m) == message[m].to = Group /\ DeleteLocksMessage(t, u, m)

PinCircleMessage(t, u, m) == PinLocksCircle(t, u, m)

Dispatcher == \E e \in batch : DispatchLoads(e) \/ DispatchDelivers(e) \/ DispatchFails(e)

Next ==
    \/ \E u \in Users : MembershipEnds(u)
    \/ CircleArchived
    \/ \E p \in Uploads : \/ \E u \in Users : UploadMedia(p, u)
                          \/ InsertUpload(p) \/ UploadRefused(p) \/ HourPasses(p)
                          \/ Cleaned(p) \/ CleaningFails(p)
    \/ \E m \in Messages, u \in Users :
         \/ SendCircleMessage(m, u) \/ MarkMessageRead(m, u)
         \/ \E v \in Users : SendDirectMessage(m, u, v)
         \/ \E t \in Txs : \/ DeleteCircleMessage(t, u, m) \/ DeleteDirectMessage(t, u, m)
                           \/ PinCircleMessage(t, u, m)
    \/ \E t \in Txs : \/ DeleteAuthorizes(t) \/ DeleteMarks(t) \/ DeleteCommits(t)
                      \/ PinCounts(t) \/ PinCommits(t) \/ Unpin(t) \/ Abort(t)
    \/ \E ps \in SUBSET Uploads : ClaimExpired(ps)
    \/ \E m \in Messages : ReconcileReads(m)
    \/ ReconcileActs \/ ReconcileFails
    \/ \E es \in SUBSET Claimable : ClaimDue(es)
    \/ Dispatcher
    \/ DispatchAborts
    \/ \E es \in SUBSET (Claimable \cup Parked) : Restart(es)

\* The workers are loops of the process, which PostgreSQL and the object store
\* answer; requests and faults owe nothing.
Fairness ==
    /\ WF_vars(\E m \in Messages : ReconcileReads(m))
    /\ WF_vars(ReconcileActs)
    /\ WF_vars(\E es \in SUBSET Claimable : ClaimDue(es))
    /\ WF_vars(Dispatcher)

Spec == Init /\ [][Next]_vars /\ Fairness

-----------------------------------------------------------------------------
(* Properties                                                              *)

\* Rows have the shape of their tables.
TypeOK ==
    /\ members \subseteq Users
    /\ message \in [Messages -> [state : {"none", "active", "deleted"}, sender : Users \cup {Nobody},
                                 to : Users \cup {Group, None}, upload : Uploads \cup {0},
                                 reply : Messages \cup {0}, pinned : BOOLEAN]]
    /\ event \in [Events -> [state : {"none", "pending", "delivered", "parked"}, attempt : 0..AttemptLimit]]
    /\ object \in [Uploads -> {"none", "visible", "marked"}]

\* Concurrent requests exceed neither the pins of a circle nor the uploads of
\* an hour, and a deleted message is not pinned: the counts are taken under the
\* locks of setPinned and of InsertUploadWithinBudget.
LimitsHold ==
    /\ Cardinality({m \in Messages : message[m].pinned}) <= PinLimit
    /\ \A m \in Messages : message[m].pinned => message[m].state = "active"
    /\ \A u \in Users : Cardinality(RecentUploads(u)) <= UploadLimit

\* Markers and messages come together for good once commands and faults end:
\* whoever sees a media message can play it, and the object of a deleted one
\* is behind its marker, although Delete marks before it commits, the cleaner
\* marks what may yet be attached, and the reconciler acts on an unlocked read.
MediaFollowsMessage ==
    <>[](\A m \in MediaMessages :
           /\ message[m].state = "deleted" => object[message[m].upload] = "marked"
           /\ \A u \in Users : InHistory(u, m) =>
                Projectable(u, m) /\ object[message[m].upload] = "visible")

\* Clients that were shown a deletion are not shown the message again, although
\* events are retried, replayed and dispatched in any order.
DeletionIsLast == [][\A m \in Messages : shown[m] = "deleted" => shown'[m] = "deleted"]_vars

\* The last attempt was claimed and then interrupted: neither claim looks at
\* such a row again.
Stranded(e) == event[e].state = "pending" /\ event[e].attempt = AttemptLimit /\ e \notin batch

\* Once requests and faults end, every event is delivered or parked for good,
\* unless its last attempt was interrupted: attempts that the claims counted and
\* batches that were given up do not lose the others.
EventsSettle == <>[](\A e \in Events : event[e].state = "pending" => Stranded(e))

=============================================================================
