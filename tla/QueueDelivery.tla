---------------------------- MODULE QueueDelivery ----------------------------
(***************************************************************************)
(* Delivery of the committed queue events of one session: the outbox table *)
(* and its dispatcher (backend/internal/queue/outbox.go), the WebSocket    *)
(* hub (backend/internal/realtime/hub.go) and the process that runs them   *)
(* (backend/cmd/api/main.go).                                              *)
(*                                                                         *)
(* A queue transaction inserts a row.  The dispatcher, one goroutine,      *)
(* leases due rows, projects each of them into hub calls, and marks the    *)
(* row delivered, schedules a retry or parks it.  After a restart the      *)
(* pending and parked rows are replayed once before the loop begins and    *)
(* before the server accepts connections.                                  *)
(*                                                                         *)
(* What a row is projected into is a sequence of targets: All is one       *)
(* Broadcast to the session topic, a user is one SendToUser.  It is read   *)
(* from the database at each attempt (the prompt "next soon" goes to       *)
(* whoever is next at that moment), hence a set of possible plans per row. *)
(*                                                                         *)
(* Time is abstract: available_at lies in the future until TimePasses.     *)
(***************************************************************************)
EXTENDS Naturals, Sequences, FiniteSets, SequencesExt

CONSTANTS
    Events,         \* rows of queue_event_outbox
    Users,
    All,            \* the whole topic, as a target
    Devices,
    Owner,          \* the user behind a device
    Plans,          \* the target sequences a row may be projected into
    RetryLimit,     \* outboxRetryLimit
    BatchSize,      \* queueOutboxBatchSize
    MaxConnections, \* maxConnectionsPerUser
    MaxFaults       \* bound: process crashes and failed database calls

Targets == Users \cup {All}

ASSUME DeliveryConstants ==
    /\ IsFiniteSet(Events) /\ IsFiniteSet(Devices)
    /\ All \notin Users
    /\ Owner \in [Devices -> Users]
    /\ Plans \in [Events -> SUBSET Seq(Targets)]
    /\ RetryLimit \in Nat
    /\ BatchSize \in Nat \ {0}
    /\ MaxConnections \in Nat
    /\ MaxFaults \in Nat

VARIABLES
    row,       \* queue_event_outbox
    process,   \* where the process that dispatches is
    batch,     \* the claimed rows, the one being dispatched first
    stage,     \* how far Dispatch is with that row
    sends,     \* the hub calls it still has to make
    conn,      \* Hub.clients: the connection of a device
    seen,      \* Hub.seenEvents
    got,       \* the messages a device has received
    owed,      \* history: devices connected without a break since the commit
    fails,     \* history: failed attempts to deliver a row
    faults

dispatchVars == <<batch, stage, sends>>
hubVars      == <<conn, seen, got, owed>>
vars         == <<row, process, dispatchVars, hubVars, fails, faults>>

Messages == Events \X Targets

NoRow  == [state |-> "absent", due |-> FALSE, attempts |-> 0]

Open   == {d \in Devices : conn[d] = "open"}
Broken == {d \in Devices : conn[d] = "broken"}
Of(u)  == {d \in Devices : u = All \/ Owner[d] = u}

-----------------------------------------------------------------------------
(* The outbox table                                                        *)

\* InsertOutboxEvent, in the transaction of the change it announces.
InsertOutboxEvent(e) ==
    /\ process = "loop"
    /\ row[e].state = "absent"
    /\ row' = [row EXCEPT ![e] = [state |-> "pending", due |-> TRUE, attempts |-> 0]]
    /\ owed' = [owed EXCEPT ![e] = Open]
    /\ UNCHANGED <<process, dispatchVars, conn, seen, got, fails, faults>>

\* A lease or a backoff runs out.
TimePasses(e) ==
    /\ row[e].state = "pending"
    /\ ~row[e].due
    /\ row' = [row EXCEPT ![e].due = TRUE]
    /\ UNCHANGED <<process, dispatchVars, hubVars, fails, faults>>

\* available_at = NOW() + 30 s, parked_at = NULL for the claimed rows.
Lease(rows) ==
    row' = [e \in Events |->
              IF e \in rows THEN [row[e] EXCEPT !.state = "pending", !.due = FALSE]
              ELSE row[e]]

\* LIMIT BatchSize of the candidates; RETURNING promises no order.
Claimable(candidates, claimed) ==
    /\ claimed # <<>>
    /\ ToSet(claimed) \subseteq candidates
    /\ Len(claimed) = IF Cardinality(candidates) < BatchSize
                      THEN Cardinality(candidates) ELSE BatchSize

Claim(candidates) ==
    \E claimed \in SetToAllKPermutations(candidates) :
        /\ Claimable(candidates, claimed)
        /\ batch' = claimed
        /\ Lease(ToSet(claimed))

\* Mutant: only fresh rows are looked for.
DueFresh == {e \in Events : row[e].state = "pending" /\ row[e].due /\ row[e].attempts = 0}

\* The WHERE clauses of the two claim queries.
Due == {e \in Events : row[e].state = "pending" /\ row[e].due}

Parked == {e \in Events : row[e].state = "parked"}

-----------------------------------------------------------------------------
(* OutboxDispatcher                                                        *)

\* One tick of the loop: DispatchDue claims what is due.
DispatchDue ==
    /\ process = "loop"
    /\ batch = <<>>
    /\ Claim(Due)
    /\ UNCHANGED <<process, stage, sends, hubVars, fails, faults>>

\* The replay of a starting process; a failed claim is logged and skipped.
Replay ==
    /\ process = "boot"
    /\ process' = "replay"
    /\ \/ /\ Claim(Due \cup Parked)
          /\ UNCHANGED faults
       \/ /\ Due \cup Parked = {} \/ faults < MaxFaults
          /\ faults' = IF Due \cup Parked = {} THEN faults ELSE faults + 1
          /\ UNCHANGED <<row, batch>>
    /\ UNCHANGED <<stage, sends, hubVars, fails>>

StartLoop ==
    /\ process = "replay"
    /\ batch = <<>>
    /\ process' = "loop"
    /\ UNCHANGED <<row, dispatchVars, hubVars, fails, faults>>

\* ProjectAndDeliver reads the state of the queue; the read may fail.
Project ==
    /\ batch # <<>>
    /\ stage = "idle"
    /\ \/ /\ \E plan \in Plans[Head(batch)] : sends' = plan
          /\ stage' = "sending"
          /\ UNCHANGED <<fails, faults>>
       \/ /\ faults < MaxFaults
          /\ faults' = faults + 1
          /\ stage' = "failed"
          /\ fails' = [fails EXCEPT ![Head(batch)] = @ + 1]
          /\ UNCHANGED sends
    /\ UNCHANGED <<row, process, batch, hubVars>>

\* One hub call, under the mutex of the hub.  A write to a broken connection
\* may fail; the clients are visited in any order, so that a failure leaves
\* any part of the healthy ones written.
Write(m, failing) ==
    \/ /\ failing = {}
       /\ got' = [d \in Devices |-> IF d \in Open \cap Of(m[2]) THEN got[d] \cup {m}
                                    ELSE got[d]]
       /\ sends' = Tail(sends)
       /\ UNCHANGED <<stage, fails>>
    \/ /\ failing # {}
       /\ \E written \in SUBSET (Open \cap Of(m[2])) :
            got' = [d \in Devices |-> IF d \in written THEN got[d] \cup {m} ELSE got[d]]
       /\ sends' = <<>>
       /\ stage' = "failed"
       /\ fails' = [fails EXCEPT ![Head(batch)] = @ + 1]

\* An event ID the hub has seen is suppressed, and counts as delivered.
Suppress ==
    /\ sends' = Tail(sends)
    /\ UNCHANGED <<seen, got, stage, fails>>

\* Mutant: the ID is remembered before the writes, as SendToUser does.
BroadcastSeenFirst(m) ==
    \/ m \in seen /\ Suppress
    \/ /\ m \notin seen
       /\ \E failing \in SUBSET Broken : Write(m, failing)
       /\ seen' = seen \cup {m}

\* Broadcast remembers the ID once every write went well.
Broadcast(m) ==
    \/ m \in seen /\ Suppress
    \/ /\ m \notin seen
       /\ \E failing \in SUBSET Broken :
            /\ Write(m, failing)
            /\ seen' = IF failing = {} THEN seen \cup {m} ELSE seen

\* SendToUser remembers the ID before it writes.
SendToUser(m) ==
    \/ m \in seen /\ Suppress
    \/ /\ m \notin seen
       /\ \E failing \in SUBSET (Broken \cap Of(m[2])) : Write(m, failing)
       /\ seen' = seen \cup {m}

Send ==
    /\ stage = "sending"
    /\ sends # <<>>
    /\ LET m == <<Head(batch), Head(sends)>>
       IN  IF Head(sends) = All THEN Broadcast(m) ELSE SendToUser(m)
    /\ UNCHANGED <<row, process, batch, conn, owed, faults>>

\* The dispatcher is done with the first row of its batch.
NextRow ==
    /\ batch' = Tail(batch)
    /\ stage' = "idle"
    /\ UNCHANGED <<process, sends, hubVars, fails, faults>>

MarkOutboxDelivered ==
    /\ stage = "sending"
    /\ sends = <<>>
    /\ row' = [row EXCEPT ![Head(batch)].state = "delivered"]
    /\ NextRow

\* Mutant: the last retry is not made.
ExhaustedEarly(attempts) == attempts + 1 >= RetryLimit

Exhausted(attempts) == attempts >= RetryLimit

\* Mutant: the limit is not looked at.
RetryForever ==
    /\ stage = "failed"
    /\ row' = [row EXCEPT ![Head(batch)].attempts = @ + 1, ![Head(batch)].due = FALSE]
    /\ NextRow

RetryOutboxEvent ==
    /\ stage = "failed"
    /\ ~Exhausted(row[Head(batch)].attempts)
    /\ row' = [row EXCEPT ![Head(batch)].attempts = @ + 1, ![Head(batch)].due = FALSE]
    /\ NextRow

ParkOutboxEvent ==
    /\ stage = "failed"
    /\ Exhausted(row[Head(batch)].attempts)
    /\ row' = [row EXCEPT ![Head(batch)].state = "parked"]
    /\ NextRow

\* The outcome cannot be stored: DispatchDue gives up the rest of its batch,
\* whose rows stay leased.
AbortBatch ==
    /\ faults < MaxFaults
    /\ faults' = faults + 1
    /\ stage = "failed" \/ (stage = "sending" /\ sends = <<>>)
    /\ batch' = <<>>
    /\ stage' = "idle"
    /\ UNCHANGED <<row, process, sends, hubVars, fails>>

-----------------------------------------------------------------------------
(* Connections and the process                                             *)

\* ServeHTTP up to the subscription of the topic.
Connect(d) ==
    /\ process = "loop"
    /\ conn[d] = "closed"
    /\ Cardinality({x \in Of(Owner[d]) : conn[x] # "closed"}) < MaxConnections
    /\ conn' = [conn EXCEPT ![d] = "open"]
    /\ UNCHANGED <<row, process, dispatchVars, seen, got, owed, fails, faults>>

\* The peer is gone and the read loop has not noticed.
Break(d) ==
    /\ conn[d] = "open"
    /\ conn' = [conn EXCEPT ![d] = "broken"]
    /\ owed' = [e \in Events |-> owed[e] \ {d}]
    /\ UNCHANGED <<row, process, dispatchVars, seen, got, fails, faults>>

\* The read loop ends and removes the client.
RemoveClient(d) ==
    /\ conn[d] # "closed"
    /\ conn' = [conn EXCEPT ![d] = "closed"]
    /\ owed' = [e \in Events |-> owed[e] \ {d}]
    /\ UNCHANGED <<row, process, dispatchVars, seen, got, fails, faults>>

\* Only the table survives; the hub forgets connections and seen IDs.
Crash ==
    /\ faults < MaxFaults
    /\ process # "down"
    /\ process' = "down"
    /\ batch' = <<>>
    /\ stage' = "idle"
    /\ sends' = <<>>
    /\ conn' = [d \in Devices |-> "closed"]
    /\ seen' = {}
    /\ owed' = [e \in Events |-> {}]
    /\ faults' = faults + 1
    /\ UNCHANGED <<row, got, fails>>

Restart ==
    /\ process = "down"
    /\ process' = "boot"
    /\ UNCHANGED <<row, dispatchVars, hubVars, fails, faults>>

-----------------------------------------------------------------------------
Init ==
    /\ row = [e \in Events |-> NoRow]
    /\ process = "boot"
    /\ batch = <<>>
    /\ stage = "idle"
    /\ sends = <<>>
    /\ conn = [d \in Devices |-> "closed"]
    /\ seen = {}
    /\ got = [d \in Devices |-> {}]
    /\ owed = [e \in Events |-> {}]
    /\ fails = [e \in Events |-> 0]
    /\ faults = 0

Worker ==
    \/ DispatchDue \/ Replay \/ StartLoop
    \/ Project \/ Send
    \/ MarkOutboxDelivered \/ RetryOutboxEvent \/ ParkOutboxEvent

Next ==
    \/ Worker
    \/ AbortBatch \/ Crash \/ Restart
    \/ \E e \in Events : InsertOutboxEvent(e) \/ TimePasses(e)
    \/ \E d \in Devices : Connect(d) \/ Break(d) \/ RemoveClient(d)

\* The dispatcher's goroutine keeps running, leases and backoffs run out, and
\* a process that died is started again.
Fairness ==
    /\ WF_vars(Worker)
    /\ WF_vars(Restart)
    /\ \A e \in Events : WF_vars(TimePasses(e))

Spec == Init /\ [][Next]_vars

FairSpec == Spec /\ Fairness
-----------------------------------------------------------------------------
\* Every row and every message is of its kind, and a row that is dispatched is
\* a row of the table.
TypeOK ==
    /\ row \in [Events -> [state : {"absent", "pending", "parked", "delivered"},
                           due : BOOLEAN, attempts : 0 .. RetryLimit]]
    /\ process \in {"down", "boot", "replay", "loop"}
    /\ batch \in Seq(Events)
    /\ stage \in {"idle", "sending", "failed"}
    /\ sends \in Seq(Targets)
    /\ conn \in [Devices -> {"closed", "open", "broken"}]
    /\ seen \subseteq Messages
    /\ got \in [Devices -> SUBSET Messages]
    /\ owed \in [Events -> SUBSET Devices]
    /\ fails \in [Events -> Nat]
    /\ faults \in 0 .. MaxFaults

\* What every plan of a row contains is owed to the devices it names.
Promised(e, t) == \A plan \in Plans[e] : t \in ToSet(plan)

\* A row that is marked delivered has reached every device that was subscribed
\* when the change was committed and has not lost its connection since: retries,
\* suppressed duplicates and other clients' broken connections lose no broadcast.
BroadcastReachesAll ==
    \A e \in Events :
        row[e].state = "delivered" /\ Promised(e, All)
            => \A d \in owed[e] : <<e, All>> \in got[d]

\* A row is parked only after the first attempt and all RetryLimit retries have
\* failed; crashes, lost leases and aborted batches use up no attempt.
ParkedAfterRetries ==
    \A e \in Events : row[e].state = "parked" => fails[e] > RetryLimit

\* A committed event is never forgotten: whatever connections break, whenever
\* the process dies, each row is delivered or parked in the end.
EveryRowSettles ==
    \A e \in Events :
        row[e].state = "pending" ~> row[e].state \in {"delivered", "parked"}

\* A prompt or a message to managers reaches every device of its addressee
\* that stayed connected since the commit.
PromptReachesDevices ==
    \A e \in Events, u \in Users :
        row[e].state = "delivered" /\ Promised(e, u)
            => \A d \in owed[e] \cap Of(u) : <<e, u>> \in got[d]
=============================================================================
