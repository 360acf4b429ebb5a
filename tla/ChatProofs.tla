----------------------------- MODULE ChatProofs -----------------------------
(***************************************************************************)
(* Theorems about the chat, for any number of users, messages, uploads and *)
(* transactions that are open at the same time.                            *)
(***************************************************************************)
EXTENDS Chat, FiniteSetTheorems, TLAPS

-----------------------------------------------------------------------------
(* The invariant                                                           *)

MessageRow == [state : {"none", "active", "deleted"}, sender : Users \cup {Nobody},
               to : Users \cup {Group, None}, upload : Uploads \cup {0},
               reply : Messages \cup {0}, pinned : BOOLEAN]

UploadRow == [state : {"none", "storing", "staged", "attached", "revoked", "gone"},
              owner : Users \cup {Nobody}, to : Users \cup {Group, None}, recent : BOOLEAN]

EventRow == [state : {"none", "pending", "delivered", "parked"}, attempt : 0..AttemptLimit]

\* Those that hold the circle, and a deletion that holds only its message.
Holding == {"pinning", "counted", "authorized", "marked"}
TxRow   == [pc : Holding \cup {"deleting"}, message : Messages, actor : Users]

Shape ==
    /\ members \subseteq Users
    /\ message \in [Messages -> MessageRow]
    /\ upload \in [Uploads -> UploadRow]
    /\ object \in [Uploads -> {"none", "visible", "marked"}]
    /\ tx \in [Txs -> TxRow \cup {Idle}]
    /\ event \in [Events -> EventRow]
    /\ batch \subseteq Events /\ loaded \subseteq batch

\* The row of the circle belongs to one transaction at a time, and what a pin
\* has counted under it still holds when it commits.
Locks ==
    /\ \A s, t \in Txs : tx[s].pc \in Holding /\ tx[t].pc \in Holding => s = t
    /\ \A t \in Txs : tx[t].pc = "counted" =>
         /\ message[tx[t].message].state = "active" /\ ~message[tx[t].message].pinned
         /\ Cardinality(Pinned) < PinLimit

Pins ==
    /\ \A m \in Messages : message[m].pinned => message[m].state = "active"
    /\ Cardinality(Pinned) <= PinLimit

\* What the cleaner may hand back no longer counts for the hour.
Quota ==
    /\ \A p \in claimed : p \in Uploads /\ upload[p].state = "revoked" /\ ~upload[p].recent
    /\ \A u \in Users : Cardinality(RecentUploads(u)) <= UploadLimit

\* A deletion is announced and shown only after it committed, and no event of
\* the message that was loaded before is still to be delivered then.
Deleted(m) == message[m].state = "deleted"

Announced ==
    /\ \A m \in Messages : event[<<m, "deleted">>].state # "none" => Deleted(m)
    /\ \A e \in batch : event[e].state # "none"
    /\ \A m \in Messages : shown[m] = "deleted" => Deleted(m)
    /\ \A e \in loaded : e[2] \in {"message", "echo"} => shown[e[1]] # "deleted"

Shown == shown \in [Messages -> {"nothing", "message", "deleted"}]

Inv == Shape /\ Shown /\ Locks /\ Pins /\ Quota /\ Announced

LEMMA PinnedFinite == IsFiniteSet(Pinned) /\ Cardinality(Pinned) \in Nat
<1>1. Pinned \in SUBSET Messages /\ IsFiniteSet(Messages)
  BY ChatConstants DEF Pinned
<1> QED BY <1>1, FS_Subset, FS_CardinalityType

LEMMA RecentFinite ==
  ASSUME NEW u
  PROVE  IsFiniteSet(RecentUploads(u)) /\ Cardinality(RecentUploads(u)) \in Nat
<1>1. RecentUploads(u) \in SUBSET Uploads /\ IsFiniteSet(Uploads)
  BY ChatConstants DEF RecentUploads
<1> QED BY <1>1, FS_Subset, FS_CardinalityType

LEMMA InvInit == Init => Inv
<1> SUFFICES ASSUME Init PROVE Inv
  OBVIOUS
<1>1. Cardinality({}) = 0 /\ PinLimit \in Nat /\ UploadLimit \in Nat /\ AttemptLimit \in Nat
  BY FS_EmptySet, ChatConstants
<1>2. NoMessage \in MessageRow /\ NoUpload \in UploadRow /\ NoEvent \in EventRow
  BY <1>1 DEF NoMessage, MessageRow, NoUpload, UploadRow, NoEvent, EventRow
<1>3. Shape /\ Shown
  BY <1>2 DEF Init, Shape, Shown
<1>4. Pinned = {} /\ \A u \in Users : RecentUploads(u) = {}
  BY DEF Init, Pinned, RecentUploads, NoMessage, NoUpload
<1>5. Locks
  BY DEF Init, Locks, Idle, Holding
<1>6. Pins
  BY <1>1, <1>4 DEF Init, Pins, NoMessage
<1>7. Quota
  <2>1. \A u \in Users : Cardinality(RecentUploads(u)) = 0
    BY <1>1, <1>4
  <2>2. claimed = {} /\ 0 <= UploadLimit
    BY <1>1 DEF Init
  <2> QED BY <2>1, <2>2 DEF Quota
<1>8. Announced
  BY DEF Init, Announced, Events, Kinds, NoEvent
<1> QED BY <1>3, <1>5, <1>6, <1>7, <1>8 DEF Inv

-----------------------------------------------------------------------------
(* What a step does to messages, transactions, uploads and events          *)

Row(u, to, p, reply) ==
    [state |-> "active", sender |-> u, to |-> to, upload |-> p, reply |-> reply, pinned |-> FALSE]

\* A message is sent while nobody holds the circle.
Sent(m, row) ==
    /\ CircleFree /\ message[m] = NoMessage /\ row \in MessageRow /\ row.state = "active" /\ ~row.pinned
    /\ message' = [message EXCEPT ![m] = row] /\ UNCHANGED tx

LEMMA SendStep ==
  ASSUME NEW m \in Messages, NEW u \in Users, NEW to \in Users \cup {Group},
         NEW p \in Uploads \cup {0}, NEW r \in Messages \cup {0},
         CircleFree, InsertMessage(m, u, to, p, r), UNCHANGED tx
  PROVE  \E row : Sent(m, row)
<1>1. Row(u, to, p, r) \in MessageRow /\ Row(u, to, p, r).state = "active" /\ ~Row(u, to, p, r).pinned
  BY DEF Row, MessageRow
<1>2. Sent(m, Row(u, to, p, r))
  BY <1>1 DEF Sent, InsertMessage, Row
<1> QED BY <1>2

\* A request locks its message or its circle.
Locking(t, row) ==
    /\ row \in TxRow /\ row.pc \in {"deleting", "pinning"} /\ (row.pc = "pinning" => CircleFree)
    /\ tx[t].pc = "idle" /\ tx' = [tx EXCEPT ![t] = row] /\ UNCHANGED message

LEMMA RequestStep ==
  ASSUME NEW m \in Messages, NEW u \in Users,
         \/ SendCircleMessage(m, u) \/ MarkMessageRead(m, u)
         \/ \E v \in Users : SendDirectMessage(m, u, v)
         \/ \E t \in Txs : \/ DeleteCircleMessage(t, u, m) \/ DeleteDirectMessage(t, u, m)
                           \/ PinCircleMessage(t, u, m)
  PROVE  \/ UNCHANGED <<message, tx>>
         \/ \E row : Sent(m, row)
         \/ \E t \in Txs, row \in TxRow : Locking(t, row)
<1>1. CASE SendCircleMessage(m, u)
  <2>1. \E p \in Uploads \cup {0}, r \in Messages \cup {0} :
           CircleFree /\ InsertMessage(m, u, Group, p, r) /\ UNCHANGED tx
    BY <1>1 DEF SendCircleMessage, SendText, ReplyText, SendGroupMedia
  <2> QED BY <2>1, SendStep
<1>2. CASE MarkMessageRead(m, u)
  BY <1>2 DEF MarkMessageRead, MarkGroupMessageRead, MarkDirectMessageRead, InsertMessageRead
<1>3. CASE \E v \in Users : SendDirectMessage(m, u, v)
  <2>1. \E v \in Users, p \in Uploads \cup {0}, r \in Messages \cup {0} :
           CircleFree /\ InsertMessage(m, u, v, p, r) /\ UNCHANGED tx
    BY <1>3 DEF SendDirectMessage, SendText, ReplyText, SendDirectMedia
  <2> QED BY <2>1, SendStep
<1>4. ASSUME NEW t \in Txs, DeleteCircleMessage(t, u, m) \/ DeleteDirectMessage(t, u, m)
      PROVE  Locking(t, [pc |-> "deleting", message |-> m, actor |-> u])
  BY <1>4 DEF DeleteCircleMessage, DeleteDirectMessage, DeleteLocksMessage, Begin, Locking, TxRow, rows
<1>5. ASSUME NEW t \in Txs, PinCircleMessage(t, u, m)
      PROVE  Locking(t, [pc |-> "pinning", message |-> m, actor |-> u])
  BY <1>5 DEF PinCircleMessage, PinLocksCircle, Begin, Locking, TxRow, Holding, rows
<1>6. \A t \in Txs : \A row : Locking(t, row) => row \in TxRow
  BY DEF Locking
<1> QED BY <1>1, <1>2, <1>3, <1>4, <1>5, <1>6

Transacts(t) ==
    \/ DeleteAuthorizes(t) \/ DeleteMarks(t) \/ DeleteCommits(t)
    \/ PinCounts(t) \/ PinCommits(t) \/ Unpin(t) \/ Abort(t)

LEMMA NextStep ==
  ASSUME [Next]_vars
  PROVE  \/ UNCHANGED <<message, tx>>
         \/ \E m \in Messages : \E row : Sent(m, row)
         \/ \E t \in Txs, row \in TxRow : Locking(t, row)
         \/ \E t \in Txs : Transacts(t)
         \/ UNCHANGED message /\ tx' = [t \in Txs |-> Idle]
<1>1. CASE UNCHANGED vars
  BY <1>1 DEF vars, rows
<1>2. ASSUME NEW m \in Messages, NEW u \in Users,
             \/ SendCircleMessage(m, u) \/ MarkMessageRead(m, u)
             \/ \E v \in Users : SendDirectMessage(m, u, v)
             \/ \E t \in Txs : \/ DeleteCircleMessage(t, u, m) \/ DeleteDirectMessage(t, u, m)
                               \/ PinCircleMessage(t, u, m)
      PROVE  \/ UNCHANGED <<message, tx>>
             \/ \E row : Sent(m, row)
             \/ \E t \in Txs, row \in TxRow : Locking(t, row)
  BY <1>2, RequestStep
<1>3. ASSUME NEW t \in Txs, Transacts(t)
      PROVE  \E s \in Txs : Transacts(s)
  BY <1>3
<1>4. CASE \/ \E u \in Users : MembershipEnds(u)
           \/ CircleArchived
           \/ \E p \in Uploads : \/ \E u \in Users : UploadMedia(p, u)
                                 \/ InsertUpload(p) \/ UploadRefused(p) \/ HourPasses(p)
                                 \/ Cleaned(p) \/ CleaningFails(p)
           \/ \E ps \in SUBSET Uploads : ClaimExpired(ps)
           \/ \E m \in Messages : ReconcileReads(m)
           \/ ReconcileActs \/ ReconcileFails
  BY <1>4 DEF MembershipEnds, CircleArchived, UploadMedia, StageObject, InsertUpload, UploadRefused,
              HourPasses, Cleaned, CleaningFails, ClaimExpired, ReconcileReads, ReconcileActs,
              ReconcileFails, rows
<1>5. CASE \/ \E es \in SUBSET Claimable : ClaimDue(es)
           \/ Dispatcher
           \/ DispatchAborts
  BY <1>5 DEF ClaimDue, Dispatcher, DispatchLoads, DispatchDelivers, DispatchFails, DispatchAborts, rows
<1>6. CASE \E es \in SUBSET (Claimable \cup Parked) : Restart(es)
  BY <1>6 DEF Restart, rows
<1>7. CASE Next
  BY <1>2, <1>3, <1>4, <1>5, <1>6, <1>7 DEF Next, Transacts
<1> QED BY <1>1, <1>7

-----------------------------------------------------------------------------
(* Messages and transactions                                               *)

\* What every step keeps of messages and transactions; a message that is
\* deleted stays so.
Rows ==
    /\ message \in [Messages -> MessageRow] /\ tx \in [Txs -> TxRow \cup {Idle}]
    /\ Locks /\ Pins

Stays == \A m \in Messages : Deleted(m) => message'[m].state = "deleted"

LEMMA RowsOfInv == Inv => Rows
  BY DEF Inv, Rows, Shape

LEMMA BusyRow ==
  ASSUME Rows, NEW t \in Txs, tx[t].pc # "idle"
  PROVE  tx[t] \in TxRow /\ tx[t].message \in Messages
  BY DEF Rows, Idle, TxRow

LEMMA ChangedRow ==
  ASSUME NEW x \in MessageRow
  PROVE  /\ \A b \in BOOLEAN : /\ [x EXCEPT !.pinned = b] \in MessageRow
                               /\ [x EXCEPT !.pinned = b].pinned = b
                               /\ [x EXCEPT !.pinned = b].state = x.state
         /\ SoftDeleted(x) \in MessageRow /\ ~SoftDeleted(x).pinned /\ SoftDeleted(x).state = "deleted"
  BY DEF MessageRow, SoftDeleted

LEMMA MovedRow ==
  ASSUME NEW x \in TxRow, NEW pc \in Holding
  PROVE  /\ [x EXCEPT !.pc = pc] \in TxRow /\ [x EXCEPT !.pc = pc].pc = pc
         /\ [x EXCEPT !.pc = pc].message = x.message
  BY DEF TxRow

\* A transaction moves on, or all of them are gone, and no message changes.
LEMMA TxMoves ==
  ASSUME Rows, UNCHANGED message, tx' \in [Txs -> TxRow \cup {Idle}],
         \A t \in Txs : tx'[t].pc = "counted" =>
           /\ message[tx'[t].message].state = "active" /\ ~message[tx'[t].message].pinned
           /\ Cardinality(Pinned) < PinLimit,
         \A s, t \in Txs : tx'[s].pc \in Holding /\ tx'[t].pc \in Holding => s = t
  PROVE  Rows' /\ Stays
<1>1. Pinned' = Pinned
  BY DEF Pinned
<1>2. Pins'
  BY <1>1 DEF Rows, Pins
<1>3. Locks'
  BY <1>1 DEF Rows, Locks
<1>4. Stays
  BY DEF Stays, Deleted
<1> QED BY <1>2, <1>3, <1>4 DEF Rows

LEMMA SentKeeps ==
  ASSUME Rows, NEW m \in Messages, NEW row, Sent(m, row)
  PROVE  Rows' /\ Stays
<1>1. /\ message' = [message EXCEPT ![m] = row] /\ tx' = tx
      /\ message[m] = NoMessage /\ row \in MessageRow /\ row.state = "active" /\ ~row.pinned
      /\ message \in [Messages -> MessageRow]
  BY DEF Sent, Rows
<1>2. message' \in [Messages -> MessageRow]
  BY <1>1
<1>3. Pinned' = Pinned
  BY <1>1 DEF Pinned, NoMessage
<1>4. \A t \in Txs : tx[t].pc \notin Holding
  BY DEF Sent, CircleFree, Open, Holding
<1>5. Locks'
  BY <1>1, <1>4 DEF Locks, Holding
<1>6. Pins'
  BY <1>1, <1>3 DEF Rows, Pins
<1>7. Stays
  BY <1>1 DEF Stays, Deleted, NoMessage
<1> QED BY <1>1, <1>2, <1>5, <1>6, <1>7 DEF Rows

LEMMA LockingKeeps ==
  ASSUME Rows, NEW t \in Txs, NEW row, Locking(t, row)
  PROVE  Rows' /\ Stays
<1>1. /\ tx' = [tx EXCEPT ![t] = row] /\ UNCHANGED message /\ row \in TxRow
      /\ row.pc \in {"deleting", "pinning"} /\ (row.pc = "pinning" => CircleFree)
      /\ tx \in [Txs -> TxRow \cup {Idle}]
  BY DEF Locking, Rows
<1>2. tx' \in [Txs -> TxRow \cup {Idle}]
  BY <1>1
<1>3. \A s \in Txs : tx'[s] = IF s = t THEN row ELSE tx[s]
  BY <1>1
<1>4. CircleFree => \A s \in Txs : tx[s].pc \notin Holding
  BY DEF CircleFree, Open, Holding
<1>5. \A r, s \in Txs : tx'[r].pc \in Holding /\ tx'[s].pc \in Holding => r = s
  BY <1>1, <1>3, <1>4 DEF Rows, Locks, Holding
<1>6. \A s \in Txs : tx'[s].pc = "counted" => tx'[s] = tx[s]
  BY <1>1, <1>3
<1> QED BY <1>1, <1>2, <1>5, <1>6, TxMoves DEF Rows, Locks

\* A message is no longer pinned, and its transaction ends.
LEMMA UnpinnedKeeps ==
  ASSUME Rows, NEW t \in Txs, tx[t].pc \in Holding, tx' = [tx EXCEPT ![t] = Idle],
         NEW m \in Messages, NEW row \in MessageRow, ~row.pinned, Deleted(m) => row.state = "deleted",
         message' = [message EXCEPT ![m] = row]
  PROVE  Rows' /\ Stays
<1>1. message \in [Messages -> MessageRow] /\ tx \in [Txs -> TxRow \cup {Idle}]
  BY DEF Rows
<1>2. /\ message' \in [Messages -> MessageRow] /\ tx' \in [Txs -> TxRow \cup {Idle}]
      /\ \A s \in Txs : tx'[s].pc \notin Holding
  <2>1. tx' \in [Txs -> TxRow \cup {Idle}] /\ \A s \in Txs : tx'[s] = IF s = t THEN Idle ELSE tx[s]
    BY <1>1
  <2>2. \A s \in Txs \ {t} : tx[s].pc \notin Holding
    BY DEF Rows, Locks
  <2>3. Idle.pc \notin Holding
    BY DEF Idle, Holding
  <2> QED BY <1>1, <2>1, <2>2, <2>3
<1>3. Locks'
  BY <1>2 DEF Locks, Holding
<1>4. \A n \in Messages : message'[n] = IF n = m THEN row ELSE message[n]
  BY <1>1
<1>5. Pinned' \subseteq Pinned
  BY <1>4 DEF Pinned
<1>6. Cardinality(Pinned') <= Cardinality(Pinned) /\ Cardinality(Pinned') \in Nat
  BY <1>5, PinnedFinite, FS_Subset, FS_CardinalityType
<1>7. Cardinality(Pinned') <= PinLimit
  BY <1>6, PinnedFinite, ChatConstants DEF Rows, Pins
<1>8. Pins'
  BY <1>4, <1>7 DEF Rows, Pins
<1>9. Stays
  BY <1>4 DEF Stays, Deleted
<1> QED BY <1>2, <1>3, <1>8, <1>9 DEF Rows

LEMMA PinnedKeeps ==
  ASSUME Rows, NEW t \in Txs, PinCommits(t)
  PROVE  Rows' /\ Stays
<1> DEFINE m == tx[t].message
<1>1. /\ message \in [Messages -> MessageRow] /\ tx \in [Txs -> TxRow \cup {Idle}]
      /\ tx[t].pc = "counted" /\ tx' = [tx EXCEPT ![t] = Idle]
      /\ message' = [message EXCEPT ![m].pinned = TRUE]
  BY DEF Rows, PinCommits, Finish
<1>2. m \in Messages
  BY <1>1, BusyRow
<1>3. message[m].state = "active" /\ ~message[m].pinned /\ Cardinality(Pinned) < PinLimit
  BY <1>1 DEF Rows, Locks
<1>4. message[m] \in MessageRow
  BY <1>1, <1>2
<1>5. /\ [message[m] EXCEPT !.pinned = TRUE] \in MessageRow
      /\ [message[m] EXCEPT !.pinned = TRUE].pinned /\ [message[m] EXCEPT !.pinned = TRUE].state = "active"
  BY <1>3, <1>4, ChangedRow
<1>6. PICK row \in MessageRow : row.pinned /\ row.state = "active" /\ message' = [message EXCEPT ![m] = row]
  BY <1>1, <1>4, <1>5
<1>7. \A n \in Messages : message'[n] = IF n = m THEN row ELSE message[n]
  BY <1>1, <1>6
<1> HIDE DEF m
<1>8. Pinned' = Pinned \cup {m} /\ m \notin Pinned
  BY <1>2, <1>3, <1>6, <1>7 DEF Pinned
<1>9. Cardinality(Pinned') = Cardinality(Pinned) + 1
  BY <1>8, PinnedFinite, FS_AddElement
<1>10. Cardinality(Pinned') <= PinLimit
  BY <1>3, <1>9, PinnedFinite, ChatConstants
<1>11. Pins'
  BY <1>6, <1>7, <1>10 DEF Rows, Pins
<1>12. /\ tx' \in [Txs -> TxRow \cup {Idle}]
       /\ \A s \in Txs : tx'[s].pc \notin Holding
  <2>1. tx' \in [Txs -> TxRow \cup {Idle}] /\ \A s \in Txs : tx'[s] = IF s = t THEN Idle ELSE tx[s]
    BY <1>1
  <2>2. tx[t].pc \in Holding /\ Idle.pc \notin Holding
    BY <1>1 DEF Idle, Holding
  <2>3. \A s \in Txs \ {t} : tx[s].pc \notin Holding
    BY <2>2 DEF Rows, Locks
  <2> QED BY <2>1, <2>2, <2>3
<1>13. Locks'
  BY <1>12 DEF Locks, Holding
<1>14. Stays
  BY <1>3, <1>7 DEF Stays, Deleted
<1>15. message' \in [Messages -> MessageRow]
  BY <1>1, <1>6
<1> QED BY <1>11, <1>12, <1>13, <1>14, <1>15 DEF Rows

LEMMA AuthorizedKeeps ==
  ASSUME Rows, NEW t \in Txs, DeleteAuthorizes(t)
  PROVE  Rows' /\ Stays
<1>1. /\ UNCHANGED message /\ tx' = [tx EXCEPT ![t] = [tx[t] EXCEPT !.pc = "authorized"]]
      /\ tx \in [Txs -> TxRow \cup {Idle}] /\ tx[t].pc = "deleting" /\ CircleFree
  BY DEF Rows, DeleteAuthorizes, rows
<1>2. PICK row \in TxRow : row.pc = "authorized" /\ tx' = [tx EXCEPT ![t] = row]
  BY <1>1, BusyRow, MovedRow DEF Holding
<1>3. tx' \in [Txs -> TxRow \cup {Idle}] /\ \A s \in Txs : tx'[s] = IF s = t THEN row ELSE tx[s]
  BY <1>1, <1>2
<1>4. \A s \in Txs : tx[s].pc \notin Holding
  BY <1>1 DEF CircleFree, Open, Holding
<1>5. \A s \in Txs \ {t} : tx'[s].pc \notin Holding
  BY <1>3, <1>4
<1>6. \A s \in Txs : tx'[s].pc # "counted"
  BY <1>2, <1>3, <1>4 DEF Holding
<1> QED BY <1>1, <1>3, <1>5, <1>6, TxMoves

LEMMA MarkedKeeps ==
  ASSUME Rows, NEW t \in Txs, DeleteMarks(t)
  PROVE  Rows' /\ Stays
<1>1. /\ UNCHANGED message /\ tx' = [tx EXCEPT ![t] = [tx[t] EXCEPT !.pc = "marked"]]
      /\ tx \in [Txs -> TxRow \cup {Idle}] /\ tx[t].pc = "authorized"
  BY DEF Rows, DeleteMarks, rows
<1>2. PICK row \in TxRow : row.pc = "marked" /\ tx' = [tx EXCEPT ![t] = row]
  BY <1>1, BusyRow, MovedRow DEF Holding
<1>3. tx' \in [Txs -> TxRow \cup {Idle}] /\ \A s \in Txs : tx'[s] = IF s = t THEN row ELSE tx[s]
  BY <1>1, <1>2
<1>4. \A s \in Txs \ {t} : tx[s].pc \notin Holding
  BY <1>1 DEF Rows, Locks, Holding
<1>5. \A s \in Txs : tx'[s].pc \in Holding => s = t
  BY <1>3, <1>4
<1>6. \A s \in Txs : tx'[s].pc # "counted"
  BY <1>2, <1>3, <1>4 DEF Holding
<1> QED BY <1>1, <1>3, <1>5, <1>6, TxMoves

LEMMA CountedKeeps ==
  ASSUME Rows, NEW t \in Txs, PinCounts(t)
  PROVE  Rows' /\ Stays
<1>1. /\ UNCHANGED message /\ tx' = [tx EXCEPT ![t] = [tx[t] EXCEPT !.pc = "counted"]]
      /\ tx \in [Txs -> TxRow \cup {Idle}] /\ tx[t].pc = "pinning"
      /\ message[tx[t].message].state = "active" /\ ~message[tx[t].message].pinned
      /\ Cardinality(Pinned) < PinLimit
  BY DEF Rows, PinCounts, rows
<1>2. PICK row \in TxRow : /\ row.pc = "counted" /\ row.message = tx[t].message
                           /\ tx' = [tx EXCEPT ![t] = row]
  BY <1>1, BusyRow, MovedRow DEF Holding
<1>3. tx' \in [Txs -> TxRow \cup {Idle}] /\ \A s \in Txs : tx'[s] = IF s = t THEN row ELSE tx[s]
  BY <1>1, <1>2
<1>4. \A s \in Txs \ {t} : tx[s].pc \notin Holding
  BY <1>1 DEF Rows, Locks, Holding
<1>5. \A s \in Txs : tx'[s].pc \in Holding => s = t
  BY <1>3, <1>4
<1>6. \A s \in Txs : tx'[s].pc = "counted" => tx'[s].message = tx[t].message
  BY <1>2, <1>3, <1>5 DEF Holding
<1> QED BY <1>1, <1>3, <1>5, <1>6, TxMoves

LEMMA AbortKeeps ==
  ASSUME Rows, UNCHANGED message,
         \/ \E t \in Txs : Finish(t)
         \/ tx' = [t \in Txs |-> Idle]
         \/ UNCHANGED tx
  PROVE  Rows' /\ Stays
<1>1. tx \in [Txs -> TxRow \cup {Idle}] /\ Idle.pc \notin Holding /\ Idle.pc # "counted"
  BY DEF Rows, Idle, Holding
<1>2. \A t \in Txs : tx'[t] = Idle \/ tx'[t] = tx[t]
  BY <1>1 DEF Finish
<1>3. tx' \in [Txs -> TxRow \cup {Idle}]
  BY <1>1 DEF Finish
<1>4. \A s, t \in Txs : tx'[s].pc \in Holding /\ tx'[t].pc \in Holding => s = t
  BY <1>1, <1>2 DEF Rows, Locks
<1>5. \A t \in Txs : tx'[t].pc = "counted" =>
           /\ message[tx'[t].message].state = "active" /\ ~message[tx'[t].message].pinned
           /\ Cardinality(Pinned) < PinLimit
  BY <1>1, <1>2 DEF Rows, Locks
<1> QED BY <1>3, <1>4, <1>5, TxMoves

LEMMA TransactsKeeps ==
  ASSUME Rows, NEW t \in Txs, Transacts(t)
  PROVE  Rows' /\ Stays
<1> DEFINE m == tx[t].message
<1>1. message \in [Messages -> MessageRow]
  BY DEF Rows
<1>2. CASE DeleteCommits(t)
  <2>1. /\ tx[t].pc \in Holding /\ tx' = [tx EXCEPT ![t] = Idle]
        /\ message' = [message EXCEPT ![m] = SoftDeleted(message[m])] /\ m \in Messages
    BY <1>2, BusyRow DEF DeleteCommits, Finish, Holding
  <2>2. PICK row \in MessageRow : /\ ~row.pinned /\ row.state = "deleted"
                                  /\ message' = [message EXCEPT ![m] = row]
    BY <1>1, <2>1, ChangedRow
  <2> QED BY <2>1, <2>2, UnpinnedKeeps
<1>3. CASE Unpin(t)
  <2>1. /\ tx[t].pc \in Holding /\ tx' = [tx EXCEPT ![t] = Idle]
        /\ message' = [message EXCEPT ![m] = [message[m] EXCEPT !.pinned = FALSE]] /\ m \in Messages
    BY <1>3, BusyRow DEF Unpin, Finish, Holding
  <2>2. PICK row \in MessageRow : /\ ~row.pinned /\ row.state = message[m].state
                                  /\ message' = [message EXCEPT ![m] = row]
    BY <1>1, <2>1, ChangedRow
  <2> QED BY <2>1, <2>2, UnpinnedKeeps DEF Deleted
<1>4. CASE Abort(t)
  BY <1>4, AbortKeeps DEF Abort, rows
<1> QED BY <1>2, <1>3, <1>4, AuthorizedKeeps, MarkedKeeps, CountedKeeps, PinnedKeeps DEF Transacts

LEMMA RowsNext ==
  ASSUME Inv, [Next]_vars
  PROVE  Rows' /\ Stays
  BY RowsOfInv, NextStep, SentKeeps, LockingKeeps, TransactsKeeps, AbortKeeps

-----------------------------------------------------------------------------
(* Uploads                                                                 *)

Media == upload \in [Uploads -> UploadRow] /\ Quota

Counts(row) == row.recent /\ row.state \in {"staged", "attached"}

\* A step that makes no upload count for the hour.
LEMMA QuotaKeeps ==
  ASSUME Media, upload' \in [Uploads -> UploadRow],
         \A p \in Uploads : Counts(upload'[p]) => Counts(upload[p]) /\ upload'[p].owner = upload[p].owner,
         \A p \in claimed' : p \in Uploads /\ upload'[p].state = "revoked" /\ ~upload'[p].recent
  PROVE  Media'
<1>1. ASSUME NEW u \in Users
      PROVE  Cardinality(RecentUploads(u)') <= UploadLimit
  <2>1. RecentUploads(u)' \subseteq RecentUploads(u)
    BY DEF RecentUploads, Counts
  <2>2. Cardinality(RecentUploads(u)') <= Cardinality(RecentUploads(u)) /\ Cardinality(RecentUploads(u)') \in Nat
    BY <2>1, RecentFinite, FS_Subset, FS_CardinalityType
  <2> QED BY <2>2, RecentFinite, ChatConstants DEF Media, Quota
<1> QED BY <1>1 DEF Media, Quota

\* One upload changes.
LEMMA RowKeeps ==
  ASSUME Media, NEW p \in Uploads, NEW row \in UploadRow, upload' = [upload EXCEPT ![p] = row],
         Counts(row) => Counts(upload[p]) /\ row.owner = upload[p].owner,
         claimed' \subseteq claimed, p \in claimed' => row.state = "revoked" /\ ~row.recent
  PROVE  Media'
<1>1. upload \in [Uploads -> UploadRow] /\ \A q \in Uploads : upload'[q] = IF q = p THEN row ELSE upload[q]
  BY DEF Media
<1>2. upload' \in [Uploads -> UploadRow]
  BY <1>1
<1>3. \A q \in claimed' : q \in Uploads /\ upload'[q].state = "revoked" /\ ~upload'[q].recent
  BY <1>1 DEF Media, Quota
<1> QED BY <1>1, <1>2, <1>3, QuotaKeeps

LEMMA ChangedUpload ==
  ASSUME NEW x \in UploadRow
  PROVE  /\ \A st \in {"staged", "attached", "gone", "revoked"} :
              /\ [x EXCEPT !.state = st] \in UploadRow
              /\ [x EXCEPT !.state = st].state = st
              /\ [x EXCEPT !.state = st].recent = x.recent
              /\ [x EXCEPT !.state = st].owner = x.owner
         /\ \A b \in BOOLEAN :
              /\ [x EXCEPT !.recent = b] \in UploadRow
              /\ [x EXCEPT !.recent = b].recent = b
              /\ [x EXCEPT !.recent = b].state = x.state
              /\ [x EXCEPT !.recent = b].owner = x.owner
  BY DEF UploadRow

\* The advisory lock of the user makes the count and the insert one step.
LEMMA InsertKeeps ==
  ASSUME Media, NEW p \in Uploads, InsertUpload(p)
  PROVE  Media'
<1>1. /\ upload \in [Uploads -> UploadRow] /\ upload[p].state = "storing" /\ claimed' = claimed
      /\ upload' = [upload EXCEPT ![p] = [[upload[p] EXCEPT !.state = "staged"] EXCEPT !.recent = TRUE]]
      /\ Cardinality(RecentUploads(upload[p].owner)) < UploadLimit
  BY DEF Media, InsertUpload, WithinBudget, workers
<1>2. PICK mid \in UploadRow : /\ mid = [upload[p] EXCEPT !.state = "staged"]
                               /\ mid.state = "staged" /\ mid.owner = upload[p].owner
  <2>1. upload[p] \in UploadRow
    BY <1>1
  <2>2. /\ [upload[p] EXCEPT !.state = "staged"] \in UploadRow
        /\ [upload[p] EXCEPT !.state = "staged"].state = "staged"
        /\ [upload[p] EXCEPT !.state = "staged"].owner = upload[p].owner
    BY <2>1, ChangedUpload
  <2> QED BY <2>2
<1>3. PICK row \in UploadRow : /\ row = [mid EXCEPT !.recent = TRUE] /\ row.recent
                               /\ row.state = "staged" /\ row.owner = upload[p].owner
  <2>1. /\ [mid EXCEPT !.recent = TRUE] \in UploadRow /\ [mid EXCEPT !.recent = TRUE].recent = TRUE
        /\ [mid EXCEPT !.recent = TRUE].state = mid.state /\ [mid EXCEPT !.recent = TRUE].owner = mid.owner
    BY ChangedUpload
  <2> QED BY <1>2, <2>1
<1>4. \A q \in Uploads : upload'[q] = IF q = p THEN row ELSE upload[q]
  BY <1>1, <1>2, <1>3
<1>5. upload' \in [Uploads -> UploadRow]
  BY <1>1, <1>2, <1>3
<1>6. ASSUME NEW u \in Users
      PROVE  Cardinality(RecentUploads(u)') <= UploadLimit
  <2>1. CASE u = upload[p].owner
    <3>1. RecentUploads(u)' = RecentUploads(u) \cup {p} /\ p \notin RecentUploads(u)
      BY <1>1, <1>3, <1>4, <2>1 DEF RecentUploads
    <3>2. Cardinality(RecentUploads(u)') = Cardinality(RecentUploads(u)) + 1
      BY <3>1, RecentFinite, FS_AddElement
    <3> QED BY <1>1, <2>1, <3>2, RecentFinite, ChatConstants
  <2>2. CASE u # upload[p].owner
    <3>1. RecentUploads(u)' = RecentUploads(u)
      BY <1>1, <1>3, <1>4, <2>2 DEF RecentUploads
    <3> QED BY <3>1 DEF Media, Quota
  <2> QED BY <2>1, <2>2
<1>7. \A q \in claimed' : q \in Uploads /\ upload'[q].state = "revoked" /\ ~upload'[q].recent
  BY <1>1, <1>4 DEF Media, Quota
<1> QED BY <1>5, <1>6, <1>7 DEF Media, Quota

\* The other steps of one upload.
Uploading(p) ==
    \/ \E u \in Users : UploadMedia(p, u)
    \/ InsertUpload(p) \/ UploadRefused(p) \/ HourPasses(p) \/ Cleaned(p) \/ CleaningFails(p)

Attaching(p) == upload[p].state = "staged" /\ Attach(p) /\ UNCHANGED claimed

LEMMA UploadingKeeps ==
  ASSUME Media, NEW p \in Uploads, Uploading(p) \/ Attaching(p)
  PROVE  Media'
<1>1. upload \in [Uploads -> UploadRow] /\ upload[p] \in UploadRow
  BY DEF Media
<1>2. CASE \E u \in Users : UploadMedia(p, u)
  <2>1. PICK u \in Users, to \in {Group} \cup Users : StageObject(p, u, to)
    BY <1>2 DEF UploadMedia
  <2>2. PICK row : row = [state |-> "storing", owner |-> u, to |-> to, recent |-> FALSE]
    OBVIOUS
  <2>3. row \in UploadRow /\ ~row.recent
    BY <2>2 DEF UploadRow
  <2>4. upload' = [upload EXCEPT ![p] = row] /\ claimed' = claimed /\ upload[p].state = "none"
    BY <2>1, <2>2 DEF StageObject, NoUpload, workers
  <2>5. p \notin claimed'
    BY <2>4 DEF Media, Quota
  <2> QED BY <2>3, <2>4, <2>5, RowKeeps DEF Counts
<1>3. CASE UploadRefused(p)
  <2>1. /\ upload' = [upload EXCEPT ![p] = [upload[p] EXCEPT !.state = "gone"]]
        /\ claimed' = claimed /\ upload[p].state = "storing"
    BY <1>3 DEF UploadRefused, workers
  <2>2. PICK row \in UploadRow : row.state = "gone" /\ upload' = [upload EXCEPT ![p] = row]
    BY <1>1, <2>1, ChangedUpload
  <2>3. p \notin claimed'
    BY <2>1 DEF Media, Quota
  <2> QED BY <2>1, <2>2, <2>3, RowKeeps DEF Counts
<1>4. CASE HourPasses(p)
  <2>1. /\ upload' = [upload EXCEPT ![p] = [upload[p] EXCEPT !.recent = FALSE]]
        /\ claimed' = claimed
    BY <1>4 DEF HourPasses, workers
  <2>2. PICK row \in UploadRow : /\ ~row.recent /\ row.state = upload[p].state
                                 /\ upload' = [upload EXCEPT ![p] = row]
    BY <1>1, <2>1, ChangedUpload
  <2>3. p \in claimed' => row.state = "revoked"
    BY <2>1, <2>2 DEF Media, Quota
  <2> QED BY <2>1, <2>2, <2>3, RowKeeps DEF Counts
<1>5. CASE Cleaned(p)
  <2>1. /\ upload' = [upload EXCEPT ![p] = [upload[p] EXCEPT !.state = "gone"]]
        /\ claimed' = claimed \ {p}
    BY <1>5 DEF Cleaned
  <2>2. PICK row \in UploadRow : row.state = "gone" /\ upload' = [upload EXCEPT ![p] = row]
    BY <1>1, <2>1, ChangedUpload
  <2> QED BY <2>1, <2>2, RowKeeps DEF Counts
<1>6. CASE CleaningFails(p)
  <2>1. /\ \/ upload' = [upload EXCEPT ![p] = [upload[p] EXCEPT !.state = "staged"]]
           \/ upload' = [upload EXCEPT ![p] = upload[p]]
        /\ claimed' = claimed \ {p} /\ p \in claimed
    BY <1>1, <1>6 DEF CleaningFails
  <2>2. ~upload[p].recent
    BY <2>1 DEF Media, Quota
  <2>3. PICK row \in UploadRow : ~row.recent /\ upload' = [upload EXCEPT ![p] = row]
    BY <1>1, <2>1, <2>2, ChangedUpload
  <2> QED BY <2>1, <2>3, RowKeeps DEF Counts
<1>7. CASE Attaching(p)
  <2>1. /\ upload' = [upload EXCEPT ![p] = [upload[p] EXCEPT !.state = "attached"]]
        /\ claimed' = claimed /\ upload[p].state = "staged"
    BY <1>7 DEF Attaching, Attach
  <2>2. PICK row \in UploadRow : /\ row.recent = upload[p].recent /\ row.owner = upload[p].owner
                                 /\ upload' = [upload EXCEPT ![p] = row]
    BY <1>1, <2>1, ChangedUpload
  <2>3. p \notin claimed'
    BY <2>1 DEF Media, Quota
  <2> QED BY <2>1, <2>2, <2>3, RowKeeps DEF Counts
<1> QED BY <1>2, <1>3, <1>4, <1>5, <1>6, <1>7, InsertKeeps DEF Uploading

LEMMA ClaimedKeeps ==
  ASSUME Media, NEW ps \in SUBSET Uploads, ClaimExpired(ps)
  PROVE  Media'
<1>1. /\ upload \in [Uploads -> UploadRow] /\ claimed' = ps
      /\ \A p \in ps : ~upload[p].recent
      /\ upload' = [p \in Uploads |-> IF p \in ps THEN [upload[p] EXCEPT !.state = "revoked"] ELSE upload[p]]
  BY DEF Media, ClaimExpired
<1>2. ASSUME NEW p \in Uploads
      PROVE  /\ upload'[p] \in UploadRow
             /\ p \notin ps => upload'[p] = upload[p]
             /\ p \in ps => upload'[p].state = "revoked" /\ ~upload'[p].recent
  <2>1. upload[p] \in UploadRow
    BY <1>1
  <2>2. CASE p \in ps
    <3>1. upload'[p] = [upload[p] EXCEPT !.state = "revoked"]
      BY <1>1, <2>2
    <3> QED BY <1>1, <2>1, <2>2, <3>1, ChangedUpload
  <2>3. CASE p \notin ps
    <3>1. upload'[p] = upload[p]
      BY <1>1, <2>3
    <3> QED BY <2>1, <2>3, <3>1
  <2> QED BY <2>2, <2>3
<1>3. upload' \in [Uploads -> UploadRow]
  BY <1>1, <1>2
<1>4. \A p \in Uploads : Counts(upload'[p]) => Counts(upload[p]) /\ upload'[p].owner = upload[p].owner
  BY <1>2 DEF Counts
<1> QED BY <1>1, <1>2, <1>3, <1>4, QuotaKeeps

LEMMA UploadStep ==
  ASSUME [Next]_vars
  PROVE  \/ UNCHANGED <<upload, claimed>>
         \/ UNCHANGED upload /\ claimed' = {}
         \/ \E p \in Uploads : Uploading(p) \/ Attaching(p)
         \/ \E ps \in SUBSET Uploads : ClaimExpired(ps)
<1>1. CASE UNCHANGED vars
  BY <1>1 DEF vars, media, workers
<1>2. ASSUME NEW m \in Messages, NEW u \in Users, SendCircleMessage(m, u)
      PROVE  UNCHANGED <<upload, claimed>> \/ \E p \in Uploads : Attaching(p)
  BY <1>2 DEF SendCircleMessage, SendText, ReplyText, SendGroupMedia, Attachable, Attaching, media, workers
<1>3. ASSUME NEW m \in Messages, NEW u \in Users, NEW v \in Users, SendDirectMessage(m, u, v)
      PROVE  UNCHANGED <<upload, claimed>> \/ \E p \in Uploads : Attaching(p)
  BY <1>3 DEF SendDirectMessage, SendText, ReplyText, SendDirectMedia, Attachable, Attaching, media, workers
<1>4. CASE \/ \E u \in Users : MembershipEnds(u)
           \/ CircleArchived
           \/ \E m \in Messages, u \in Users :
                \/ MarkMessageRead(m, u)
                \/ \E t \in Txs : \/ DeleteCircleMessage(t, u, m) \/ DeleteDirectMessage(t, u, m)
                                  \/ PinCircleMessage(t, u, m)
           \/ \E t \in Txs : Transacts(t)
  BY <1>4 DEF MembershipEnds, CircleArchived, MarkMessageRead, MarkGroupMessageRead, MarkDirectMessageRead,
              DeleteCircleMessage, DeleteDirectMessage, DeleteLocksMessage, PinCircleMessage, PinLocksCircle,
              Transacts, DeleteAuthorizes, DeleteMarks, DeleteCommits, PinCounts, PinCommits, Unpin, Abort,
              media, workers
<1>5. CASE \/ \E m \in Messages : ReconcileReads(m)
           \/ ReconcileActs \/ ReconcileFails
           \/ \E es \in SUBSET Claimable : ClaimDue(es)
           \/ Dispatcher
           \/ DispatchAborts
           \/ \E es \in SUBSET (Claimable \cup Parked) : Restart(es)
  BY <1>5 DEF ReconcileReads, ReconcileActs, ReconcileFails, ClaimDue, Dispatcher, DispatchLoads,
              DispatchDelivers, DispatchFails, DispatchAborts, Restart, media, workers
<1>6. CASE Next
  BY <1>2, <1>3, <1>4, <1>5, <1>6 DEF Next, Transacts, Uploading
<1> QED BY <1>1, <1>6

LEMMA MediaNext ==
  ASSUME Inv, [Next]_vars
  PROVE  Media'
<1>1. Media
  BY DEF Inv, Media, Shape
<1>2. CASE UNCHANGED <<upload, claimed>> \/ (UNCHANGED upload /\ claimed' = {})
  BY <1>1, <1>2, QuotaKeeps DEF Media, Quota
<1> QED BY <1>1, <1>2, UploadStep, UploadingKeeps, ClaimedKeeps

-----------------------------------------------------------------------------
(* Events                                                                  *)

Outbox ==
    /\ event \in [Events -> EventRow]
    /\ batch \subseteq Events /\ loaded \subseteq batch
    /\ Shown /\ Announced

\* A step that records events, of messages that are deleted if it is a deletion
\* that they announce, and leaves the dispatcher alone.
LEMMA AnnounceKeeps ==
  ASSUME Outbox, Stays, NEW es, Announce(es),
         \A m \in Messages : <<m, "deleted">> \in es => message'[m].state = "deleted"
  PROVE  Outbox'
<1>1. /\ event' = [e \in Events |-> IF e \in es THEN [state |-> "pending", attempt |-> 0] ELSE event[e]]
      /\ event \in [Events -> EventRow] /\ UNCHANGED <<batch, loaded, shown>>
      /\ batch \subseteq Events /\ loaded \subseteq batch
  BY DEF Outbox, Announce, Inserted
<1>2. PICK row : row = [state |-> "pending", attempt |-> 0]
  OBVIOUS
<1>3. row \in EventRow /\ row.state = "pending"
  BY <1>2, ChatConstants DEF EventRow
<1>4. \A e \in Events : event'[e] = IF e \in es THEN row ELSE event[e]
  BY <1>1, <1>2
<1>5. event' \in [Events -> EventRow]
  BY <1>1, <1>2, <1>3
<1>6. \A m \in Messages : event'[<<m, "deleted">>].state # "none" => Deleted(m)'
  <2>1. ASSUME NEW m \in Messages, event'[<<m, "deleted">>].state # "none"
        PROVE  message'[m].state = "deleted"
    <3>1. <<m, "deleted">> \in Events
      BY DEF Events, Kinds
    <3>2. CASE <<m, "deleted">> \in es
      BY <3>2
    <3>3. CASE <<m, "deleted">> \notin es
      <4>1. event[<<m, "deleted">>].state # "none"
        BY <1>4, <2>1, <3>1, <3>3
      <4> QED BY <4>1 DEF Outbox, Announced, Stays
    <3> QED BY <3>2, <3>3
  <2> QED BY <2>1 DEF Deleted
<1>7. \A e \in batch' : event'[e].state # "none"
  BY <1>1, <1>3, <1>4 DEF Outbox, Announced
<1>8. /\ \A m \in Messages : shown'[m] = "deleted" => Deleted(m)'
      /\ \A e \in loaded' : e[2] \in {"message", "echo"} => shown'[e[1]] # "deleted"
  BY <1>1 DEF Outbox, Announced, Stays, Deleted
<1>9. Shown'
  BY <1>1 DEF Outbox, Shown
<1> QED BY <1>1, <1>5, <1>6, <1>7, <1>8, <1>9 DEF Outbox, Announced

\* A step of the dispatcher, in which no event goes away and what is shown of a
\* message is what its events say.
LEMMA DispatchKeeps ==
  ASSUME Outbox, Stays, event' \in [Events -> EventRow],
         \A e \in Events : (event'[e].state = "none") <=> (event[e].state = "none"),
         batch' \subseteq Events, \A e \in batch' : event[e].state # "none", loaded' \subseteq batch',
         shown' = shown \/ (loaded' = {} /\ \E e \in loaded : shown' = Projected(e)),
         \A e \in loaded' : e[2] \in {"message", "echo"} => shown[e[1]] # "deleted"
  PROVE  Outbox'
<1>1. \A m \in Messages : event'[<<m, "deleted">>].state # "none" => Deleted(m)'
  <2>1. ASSUME NEW m \in Messages
        PROVE  <<m, "deleted">> \in Events
    BY DEF Events, Kinds
  <2> QED BY <2>1 DEF Outbox, Announced, Stays, Deleted
<1>2. \A e \in batch' : event'[e].state # "none"
  OBVIOUS
<1>3. CASE shown' = shown
  <2>1. /\ \A m \in Messages : shown'[m] = "deleted" => Deleted(m)'
        /\ \A e \in loaded' : e[2] \in {"message", "echo"} => shown'[e[1]] # "deleted"
    BY <1>3 DEF Outbox, Announced, Stays, Deleted
  <2>2. Shown'
    BY <1>3 DEF Outbox, Shown
  <2> QED BY <1>1, <1>2, <2>1, <2>2 DEF Outbox, Announced
<1>4. ASSUME loaded' = {}, NEW e \in loaded, shown' = Projected(e)
      PROVE  Outbox'
  <2>1. /\ e \in Events /\ event[e].state # "none" /\ shown \in [Messages -> {"nothing", "message", "deleted"}]
    BY <1>4 DEF Outbox, Announced, Shown
  <2>2. PICK m \in Messages, k \in Kinds : e = <<m, k>>
    BY <2>1 DEF Events
  <2>3. k = "deleted" => Deleted(m)
    BY <2>1, <2>2 DEF Outbox, Announced
  <2>4. \/ shown' = shown
        \/ shown' = [shown EXCEPT ![m] = "message"]
        \/ k = "deleted" /\ shown' = [shown EXCEPT ![m] = "deleted"]
    BY <1>4, <2>2 DEF Projected, Kinds
  <2>5. Shown'
    BY <2>1, <2>4 DEF Shown
  <2>6. \A n \in Messages : shown'[n] = "deleted" => shown[n] = "deleted" \/ Deleted(n)
    BY <2>1, <2>3, <2>4
  <2>7. \A n \in Messages : shown'[n] = "deleted" => Deleted(n)'
    BY <2>6 DEF Outbox, Announced, Stays, Deleted
  <2> QED BY <1>1, <1>2, <1>4, <2>5, <2>7 DEF Outbox, Announced
<1> QED BY <1>3, <1>4

\* What the requests announce.
Announcing(es) ==
    /\ Announce(es)
    /\ \A e \in es : e[2] = "deleted" => \E t \in Txs : DeleteCommits(t) /\ e[1] = tx[t].message

LEMMA EventStep ==
  ASSUME [Next]_vars
  PROVE  \/ UNCHANGED outbox
         \/ \E es \in SUBSET Events : Announcing(es)
         \/ \E es \in SUBSET Claimable : ClaimDue(es)
         \/ \E e \in batch : DispatchLoads(e) \/ DispatchDelivers(e) \/ DispatchFails(e)
         \/ DispatchAborts
         \/ \E es \in SUBSET (Claimable \cup Parked) : Restart(es)
<1>1. CASE UNCHANGED vars
  BY <1>1 DEF vars
<1>2. ASSUME NEW m \in Messages, NEW to, Announce(SendEvents(m, to))
      PROVE  \E es \in SUBSET Events : Announcing(es)
  <2>1. SendEvents(m, to) \subseteq Events /\ \A e \in SendEvents(m, to) : e[2] # "deleted"
    BY DEF SendEvents, Events, Kinds
  <2>2. Announcing(SendEvents(m, to))
    BY <1>2, <2>1 DEF Announcing
  <2> QED BY <2>1, <2>2
<1>3. ASSUME NEW m \in Messages, NEW u \in Users,
             SendCircleMessage(m, u) \/ \E v \in Users : SendDirectMessage(m, u, v)
      PROVE  \E to : Announce(SendEvents(m, to))
  BY <1>3 DEF SendCircleMessage, SendDirectMessage, SendText, ReplyText, SendGroupMedia, SendDirectMedia,
              InsertMessage
<1>4. ASSUME NEW m \in Messages, NEW u \in Users, MarkMessageRead(m, u)
      PROVE  \E es \in SUBSET Events : Announcing(es)
  <2>1. {<<m, "read">>} \subseteq Events /\ \A e \in {<<m, "read">>} : e[2] # "deleted"
    BY DEF Events, Kinds
  <2>2. Announcing({<<m, "read">>})
    BY <1>4, <2>1 DEF Announcing, MarkMessageRead, MarkGroupMessageRead, MarkDirectMessageRead, InsertMessageRead
  <2> QED BY <2>1, <2>2
<1>5. ASSUME NEW t \in Txs, DeleteCommits(t)
      PROVE  Announcing({<<tx[t].message, "deleted">>})
  <2>1. Announce({<<tx[t].message, "deleted">>})
    BY <1>5 DEF DeleteCommits
  <2>2. \A e \in {<<tx[t].message, "deleted">>} : e[1] = tx[t].message
    OBVIOUS
  <2> QED BY <1>5, <2>1, <2>2 DEF Announcing
<1>6. CASE \/ \E u \in Users : MembershipEnds(u)
           \/ CircleArchived
           \/ \E p \in Uploads : Uploading(p)
           \/ \E m \in Messages, u \in Users, t \in Txs :
                \/ DeleteCircleMessage(t, u, m) \/ DeleteDirectMessage(t, u, m)
                \/ PinCircleMessage(t, u, m)
           \/ \E t \in Txs : \/ DeleteAuthorizes(t) \/ DeleteMarks(t)
                             \/ PinCounts(t) \/ PinCommits(t) \/ Unpin(t) \/ Abort(t)
  BY <1>6 DEF MembershipEnds, CircleArchived, Uploading, UploadMedia, StageObject, InsertUpload,
              UploadRefused, HourPasses, Cleaned, CleaningFails, DeleteCircleMessage, DeleteDirectMessage,
              DeleteLocksMessage, PinCircleMessage, PinLocksCircle, DeleteAuthorizes, DeleteMarks,
              PinCounts, PinCommits, Unpin, Abort
<1>7. CASE \/ \E ps \in SUBSET Uploads : ClaimExpired(ps)
           \/ \E m \in Messages : ReconcileReads(m)
           \/ ReconcileActs \/ ReconcileFails
  BY <1>7 DEF ClaimExpired, ReconcileReads, ReconcileActs, ReconcileFails
<1>8. CASE \E t \in Txs : DeleteCommits(t)
  <2>1. PICK t \in Txs : DeleteCommits(t)
    BY <1>8
  <2>2. Announcing({<<tx[t].message, "deleted">>} \cap Events)
    BY <2>1, <1>5 DEF Announcing, Announce, Inserted
  <2> QED BY <2>2
<1>9. CASE Next
  BY <1>2, <1>3, <1>4, <1>6, <1>7, <1>8, <1>9 DEF Next, Uploading, Dispatcher
<1> QED BY <1>1, <1>9

LEMMA ChangedEvent ==
  ASSUME NEW x \in EventRow
  PROVE  /\ \A st \in {"pending", "delivered", "parked"} :
              [x EXCEPT !.state = st] \in EventRow /\ [x EXCEPT !.state = st].state = st
         /\ x.attempt < AttemptLimit =>
              [x EXCEPT !.attempt = @ + 1] \in EventRow /\ [x EXCEPT !.attempt = @ + 1].state = x.state
  BY ChatConstants DEF EventRow

\* An event is settled.
LEMMA SettleKeeps ==
  ASSUME Outbox, Stays, NEW e \in batch, NEW st \in {"pending", "delivered", "parked"},
         Settle(e, [event[e] EXCEPT !.state = st]), loaded' = {},
         shown' = shown \/ \E f \in loaded : shown' = Projected(f)
  PROVE  Outbox'
<1>1. /\ event \in [Events -> EventRow] /\ batch \subseteq Events /\ e \in Events /\ event[e].state # "none"
      /\ event' = [event EXCEPT ![e] = [event[e] EXCEPT !.state = st]] /\ batch' = batch \ {e}
  BY DEF Outbox, Announced, Settle
<1>2. PICK row \in EventRow : row.state = st /\ event' = [event EXCEPT ![e] = row]
  BY <1>1, ChangedEvent
<1>3. event' \in [Events -> EventRow] /\ \A f \in Events : event'[f] = IF f = e THEN row ELSE event[f]
  BY <1>1, <1>2
<1>4. \A f \in Events : (event'[f].state = "none") <=> (event[f].state = "none")
  BY <1>1, <1>2, <1>3
<1>5. \A f \in batch' : event[f].state # "none"
  BY <1>1 DEF Outbox, Announced
<1> QED BY <1>1, <1>3, <1>4, <1>5, DispatchKeeps

\* Pending events are claimed, whose attempt may be counted, or put back.
LEMMA ClaimKeeps ==
  ASSUME Outbox, Stays, NEW es \in SUBSET Events, UNCHANGED shown, batch' = es, loaded' \subseteq {},
         \A e \in es : event[e].state # "none",
         event' \in [Events -> EventRow],
         \A e \in Events \ es : event'[e] = event[e],
         \A e \in es : event'[e].state = "pending"
  PROVE  Outbox'
<1>1. \A e \in Events : (event'[e].state = "none") <=> (event[e].state = "none")
  OBVIOUS
<1> QED BY <1>1, DispatchKeeps

LEMMA LoadsKeeps ==
  ASSUME Outbox, Stays, NEW e \in batch, DispatchLoads(e)
  PROVE  Outbox'
<1>1. e \in Events /\ shown' = shown /\ loaded = {}
  BY DEF Outbox, DispatchLoads
<1>2. CASE Stale(e)
  BY <1>1, <1>2, SettleKeeps DEF DispatchLoads
<1>3. CASE ~Stale(e)
  <2>1. loaded' = {e} /\ UNCHANGED <<event, batch>>
    BY <1>3 DEF DispatchLoads
  <2>2. e[2] \in {"message", "echo"} => shown[e[1]] # "deleted"
    BY <1>1, <1>3 DEF Stale, Outbox, Announced, Deleted, Events
  <2> QED BY <1>1, <2>1, <2>2, DispatchKeeps DEF Outbox, Announced
<1> QED BY <1>2, <1>3

LEMMA RestartKeeps ==
  ASSUME Outbox, Stays, NEW es \in SUBSET (Claimable \cup Parked), Restart(es)
  PROVE  Outbox'
<1>1. /\ event \in [Events -> EventRow] /\ batch' = es /\ loaded' = {} /\ shown' = shown
      /\ event' = [e \in Events |->
                    IF e \notin es THEN event[e]
                    ELSE [state |-> "pending",
                          attempt |-> IF e \in Parked THEN 1 ELSE event[e].attempt + 1]]
  BY DEF Outbox, Restart
<1>2. es \subseteq Events /\ \A e \in es : event[e].state \in {"pending", "parked"}
  BY DEF Claimable, Parked
<1>3. ASSUME NEW e \in es
      PROVE  event'[e] \in EventRow /\ event'[e].state = "pending"
  <2>1. PICK k : k = IF e \in Parked THEN 1 ELSE event[e].attempt + 1
    OBVIOUS
  <2>2. k \in 0..AttemptLimit
    <3>1. CASE e \in Parked
      BY <2>1, <3>1, ChatConstants
    <3>2. CASE e \notin Parked
      BY <1>1, <2>1, <3>2, ChatConstants DEF Claimable, EventRow
    <3> QED BY <3>1, <3>2
  <2>3. event'[e] = [state |-> "pending", attempt |-> k]
    BY <1>1, <1>2, <2>1
  <2> QED BY <2>2, <2>3 DEF EventRow
<1>4. \A e \in Events \ es : event'[e] = event[e]
  BY <1>1
<1>5. event' \in [Events -> EventRow]
  BY <1>1, <1>3, <1>4
<1> QED BY <1>1, <1>2, <1>3, <1>4, <1>5, ClaimKeeps

LEMMA ClaimDueKeeps ==
  ASSUME Outbox, Stays, NEW es \in SUBSET Claimable, ClaimDue(es)
  PROVE  Outbox'
<1>1. /\ event \in [Events -> EventRow] /\ batch' = es /\ loaded' = loaded /\ shown' = shown
      /\ batch = {} /\ loaded \subseteq batch
      /\ event' = [e \in Events |-> IF e \in es THEN [event[e] EXCEPT !.attempt = @ + 1] ELSE event[e]]
  BY DEF Outbox, ClaimDue
<1>2. es \subseteq Events /\ \A e \in es : event[e].state = "pending" /\ event[e].attempt < AttemptLimit
  BY DEF Claimable
<1>3. ASSUME NEW e \in es
      PROVE  event'[e] \in EventRow /\ event'[e].state = "pending"
  <2>1. event'[e] = [event[e] EXCEPT !.attempt = @ + 1]
    BY <1>1, <1>2
  <2>2. event[e] \in EventRow /\ event[e].state = "pending" /\ event[e].attempt < AttemptLimit
    BY <1>1, <1>2
  <2> QED BY <2>1, <2>2, ChangedEvent
<1>4. \A e \in Events \ es : event'[e] = event[e]
  BY <1>1
<1>5. event' \in [Events -> EventRow]
  BY <1>1, <1>3, <1>4
<1> QED BY <1>1, <1>2, <1>3, <1>4, <1>5, ClaimKeeps

LEMMA OutboxNext ==
  ASSUME Inv, [Next]_vars
  PROVE  Outbox'
<1>1. Outbox
  BY DEF Inv, Outbox, Shape
<1>2. Stays /\ Rows
  BY RowsNext, RowsOfInv
<1>3. CASE UNCHANGED outbox
  BY <1>1, <1>2, <1>3 DEF outbox, Outbox, Announced, Stays, Deleted, Shown
<1>4. ASSUME NEW es \in SUBSET Events, Announcing(es)
      PROVE  Outbox'
  <2>1. ASSUME NEW t \in Txs, DeleteCommits(t)
        PROVE  message'[tx[t].message].state = "deleted"
    <3>1. tx[t].message \in Messages /\ message[tx[t].message] \in MessageRow
      BY <1>2, <2>1, BusyRow DEF DeleteCommits, Rows
    <3>2. message' = [message EXCEPT ![tx[t].message] = SoftDeleted(message[tx[t].message])]
      BY <2>1 DEF DeleteCommits
    <3>3. message'[tx[t].message] = SoftDeleted(message[tx[t].message])
      BY <1>2, <3>1, <3>2 DEF Rows
    <3> QED BY <3>1, <3>3, ChangedRow
  <2>2. ASSUME NEW m \in Messages, <<m, "deleted">> \in es
        PROVE  message'[m].state = "deleted"
    <3>1. \E t \in Txs : DeleteCommits(t) /\ m = tx[t].message
      BY <1>4, <2>2 DEF Announcing
    <3> QED BY <2>1, <3>1
  <2> QED BY <1>1, <1>2, <1>4, <2>2, AnnounceKeeps DEF Announcing
<1>5. ASSUME NEW e \in batch, DispatchDelivers(e)
      PROVE  Outbox'
  <2>1. /\ Settle(e, [event[e] EXCEPT !.state = "delivered"]) /\ loaded' = {}
        /\ \E f \in loaded : shown' = Projected(f)
    BY <1>5 DEF DispatchDelivers
  <2> QED BY <1>1, <1>2, <2>1, SettleKeeps
<1>6. ASSUME NEW e \in batch, DispatchFails(e)
      PROVE  Outbox'
  <2>1. PICK st \in {"pending", "parked"} : Settle(e, [event[e] EXCEPT !.state = st])
    BY <1>6 DEF DispatchFails
  <2>2. loaded' = {} /\ (shown' = shown \/ \E f \in loaded : shown' = Projected(f))
    BY <1>6 DEF DispatchFails
  <2> QED BY <1>1, <1>2, <2>1, <2>2, SettleKeeps
<1>7. CASE DispatchAborts
  <2>1. /\ UNCHANGED event /\ batch' = {} /\ loaded' = {}
        /\ shown' = shown \/ \E f \in loaded : shown' = Projected(f)
    BY <1>7 DEF DispatchAborts
  <2>2. event' \in [Events -> EventRow]
    BY <1>1, <2>1 DEF Outbox
  <2> QED BY <1>1, <1>2, <2>1, <2>2, DispatchKeeps
<1> QED BY <1>1, <1>2, <1>3, <1>4, <1>5, <1>6, <1>7, EventStep, ClaimDueKeeps, LoadsKeeps, RestartKeeps

-----------------------------------------------------------------------------
(* Members and objects                                                     *)

MembersOrObject ==
    /\ members' \subseteq members
    /\ object' = object \/ \E p, st : /\ st \in {"visible", "marked"}
                                      /\ object' = [object EXCEPT ![p] = st]

LEMMA NextObjects ==
  ASSUME [Next]_vars
  PROVE  MembersOrObject
<1>1. CASE UNCHANGED vars
  BY <1>1 DEF vars, rows, media, MembersOrObject
<1>2. CASE \/ \E u \in Users : MembershipEnds(u)
           \/ CircleArchived
  BY <1>2 DEF MembershipEnds, CircleArchived, MembersOrObject, media
<1>3. ASSUME NEW m \in Messages, NEW u \in Users,
             \/ SendCircleMessage(m, u) \/ MarkMessageRead(m, u)
             \/ \E v \in Users : SendDirectMessage(m, u, v)
      PROVE  MembersOrObject
  BY <1>3 DEF SendCircleMessage, SendDirectMessage, SendText, ReplyText, SendGroupMedia, SendDirectMedia,
              InsertMessage, MarkMessageRead, MarkGroupMessageRead, MarkDirectMessageRead,
              InsertMessageRead, MembersOrObject, media
<1>4. CASE \E m \in Messages, u \in Users, t \in Txs :
                \/ DeleteCircleMessage(t, u, m) \/ DeleteDirectMessage(t, u, m)
                \/ PinCircleMessage(t, u, m)
  BY <1>4 DEF DeleteCircleMessage, DeleteDirectMessage, DeleteLocksMessage, PinCircleMessage,
              PinLocksCircle, MembersOrObject, rows, media
<1>5. ASSUME NEW t \in Txs, Transacts(t)
      PROVE  MembersOrObject
  <2>1. CASE DeleteMarks(t)
    <3>1. members' = members
      BY <2>1 DEF DeleteMarks, rows
    <3>2. \/ object' = object
          \/ object' = [object EXCEPT ![message[tx[t].message].upload] = "marked"]
      BY <2>1 DEF DeleteMarks
    <3> QED BY <3>1, <3>2 DEF MembersOrObject
  <2>2. CASE ~DeleteMarks(t)
    BY <1>5, <2>2 DEF Transacts, DeleteAuthorizes, DeleteCommits, PinCounts, PinCommits, Unpin, Abort,
                      MembersOrObject, rows, media
  <2> QED BY <2>1, <2>2
<1>6. ASSUME NEW p \in Uploads, Uploading(p)
      PROVE  MembersOrObject
  <2>1. members' = members
    BY <1>6 DEF Uploading, UploadMedia, StageObject, InsertUpload, UploadRefused, HourPasses, Cleaned,
                CleaningFails, rows
  <2>2. \/ object' = object \/ object' = [object EXCEPT ![p] = "visible"]
        \/ object' = [object EXCEPT ![p] = "marked"]
    BY <1>6 DEF Uploading, UploadMedia, StageObject, InsertUpload, UploadRefused, HourPasses, Cleaned,
                CleaningFails
  <2> QED BY <2>1, <2>2 DEF MembersOrObject
<1>7. CASE ReconcileActs
  <2>1. members' = members
    BY <1>7 DEF ReconcileActs, rows
  <2>2. \/ object' = [object EXCEPT ![message[sweep.at].upload] = "visible"]
        \/ object' = [object EXCEPT ![message[sweep.at].upload] = "marked"]
    BY <1>7 DEF ReconcileActs
  <2> QED BY <2>1, <2>2 DEF MembersOrObject
<1>8. CASE \/ \E ps \in SUBSET Uploads : ClaimExpired(ps)
           \/ \E m \in Messages : ReconcileReads(m)
           \/ ReconcileFails
           \/ \E es \in SUBSET Claimable : ClaimDue(es)
           \/ Dispatcher
           \/ DispatchAborts
           \/ \E es \in SUBSET (Claimable \cup Parked) : Restart(es)
  BY <1>8 DEF ClaimExpired, ReconcileReads, ReconcileFails, ClaimDue, Dispatcher, DispatchLoads,
              DispatchDelivers, DispatchFails, DispatchAborts, Restart, MembersOrObject, rows, media
<1>9. CASE Next
  BY <1>2, <1>3, <1>4, <1>5, <1>6, <1>7, <1>8, <1>9 DEF Next, Transacts, Uploading
<1> QED BY <1>1, <1>9

LEMMA ObjectsNext ==
  ASSUME Inv, [Next]_vars
  PROVE  members' \subseteq Users /\ object' \in [Uploads -> {"none", "visible", "marked"}]
<1> DEFINE States == {"none", "visible", "marked"}
<1>1. members \subseteq Users /\ object \in [Uploads -> States]
  BY DEF Inv, Shape
<1>2. members' \subseteq members
  BY NextObjects DEF MembersOrObject
<1>3. object' = object \/ \E p, st : st \in {"visible", "marked"} /\ object' = [object EXCEPT ![p] = st]
  BY NextObjects DEF MembersOrObject
<1> QED BY <1>1, <1>2, <1>3

LEMMA InvNext ==
  ASSUME Inv, [Next]_vars
  PROVE  Inv'
  BY RowsNext, MediaNext, OutboxNext, ObjectsNext DEF Inv, Shape, Rows, Media, Outbox

LEMMA InvAlways == Spec => []Inv
  BY InvInit, InvNext, PTL DEF Spec

-----------------------------------------------------------------------------
(* Theorems                                                                *)

\* Messages, events, objects and members have the shape of their tables, whatever
\* requests, workers, restarts and faults come in between.
THEOREM ChatTypeCorrect == Spec => []TypeOK
<1>1. Inv => TypeOK
  BY DEF Inv, Shape, TypeOK, MessageRow, EventRow
<1> QED BY InvAlways, <1>1, PTL

\* The pins of the circle and the uploads of an hour stay within their limits:
\* setPinned counts under the lock of the circle, InsertUploadWithinBudget under
\* that of the user, and what the cleaner hands back no longer counts.
THEOREM LimitsAlwaysHold == Spec => []LimitsHold
<1>1. ASSUME Inv PROVE LimitsHold
  <2>1. {m \in Messages : message[m].pinned} = Pinned
    BY <1>1 DEF Inv, Pins, Pinned
  <2> QED BY <1>1, <2>1 DEF Inv, Pins, Quota, LimitsHold
<1> QED BY InvAlways, <1>1, PTL

\* A deletion that clients have seen is final: the dispatcher has no older event
\* of the message in hand then, and finds those that it loads later stale.
THEOREM DeletionsAreLast == Spec => DeletionIsLast
<1>1. ASSUME Inv, [Next]_vars
      PROVE  [\A m \in Messages : shown[m] = "deleted" => shown'[m] = "deleted"]_vars
  <2>1. shown' = shown \/ \E e \in loaded : shown' = Projected(e)
    BY <1>1, EventStep DEF outbox, Announcing, Announce, ClaimDue, DispatchLoads, DispatchDelivers,
                           DispatchFails, DispatchAborts, Restart
  <2>2. ASSUME NEW e \in loaded, shown' = Projected(e),
               NEW m \in Messages, shown[m] = "deleted"
        PROVE  shown'[m] = "deleted"
    <3>1. /\ e \in Events /\ shown \in [Messages -> {"nothing", "message", "deleted"}]
          /\ e[2] \in {"message", "echo"} => shown[e[1]] # "deleted"
      BY <1>1, <2>2 DEF Inv, Shape, Shown, Announced
    <3>2. PICK n \in Messages, k \in Kinds : e = <<n, k>>
      BY <3>1 DEF Events
    <3>3. \/ shown' = shown
          \/ shown' = [shown EXCEPT ![n] = "message"] /\ n # m
          \/ shown' = [shown EXCEPT ![n] = "deleted"]
      BY <2>2, <3>1, <3>2 DEF Projected, Kinds
    <3> QED BY <2>2, <3>1, <3>3
  <2> QED BY <2>1, <2>2
<1> QED BY InvAlways, <1>1, PTL DEF Spec, DeletionIsLast

=============================================================================
