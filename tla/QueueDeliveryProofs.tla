------------------------- MODULE QueueDeliveryProofs -------------------------
(***************************************************************************)
(* The rows of the outbox keep their shape, and no row is marked delivered *)
(* before its broadcast reached every healthy subscriber, for any number   *)
(* of events, users, devices, retries, crashes and failed database calls.  *)
(***************************************************************************)
EXTENDS QueueDelivery, SequenceTheorems, FiniteSetTheorems, TLAPS

-----------------------------------------------------------------------------
(* Sequences                                                               *)

\* What a sequence holds is its head and what its tail holds.
LEMMA TailElements ==
    ASSUME NEW S, NEW s \in Seq(S), s # <<>>
    PROVE  /\ Head(s) \in S /\ Tail(s) \in Seq(S)
           /\ ToSet(Tail(s)) \subseteq ToSet(s)
           /\ Head(s) \in ToSet(s)
           /\ ToSet(s) \subseteq ToSet(Tail(s)) \cup {Head(s)}
<1>1. /\ Head(s) \in S /\ Tail(s) \in Seq(S) /\ Len(Tail(s)) = Len(s) - 1
      /\ \A i \in 1 .. Len(Tail(s)) : Tail(s)[i] = s[i+1]
  BY HeadTailProperties
<1>2. Len(s) \in Nat \ {0} /\ DOMAIN s = 1 .. Len(s) /\ DOMAIN Tail(s) = 1 .. Len(Tail(s))
      /\ Head(s) = s[1]
  BY <1>1
<1>3. ToSet(Tail(s)) \subseteq ToSet(s)
  BY <1>1, <1>2 DEF ToSet
<1>4. Head(s) \in ToSet(s)
  BY <1>2 DEF ToSet
<1>5. ToSet(s) \subseteq ToSet(Tail(s)) \cup {Head(s)}
  <2>1. SUFFICES ASSUME NEW i \in 1 .. Len(s), i # 1
                 PROVE  s[i] \in ToSet(Tail(s))
    BY <1>2 DEF ToSet
  <2>2. i - 1 \in 1 .. Len(Tail(s)) /\ Tail(s)[i - 1] = s[(i - 1) + 1] /\ (i - 1) + 1 = i
    BY <1>1, <1>2, <2>1
  <2> QED
    BY <1>2, <2>2 DEF ToSet
<1> QED
  BY <1>1, <1>3, <1>4, <1>5

\* A claimed batch is a sequence of the candidates.
LEMMA ClaimedIsSeq ==
    ASSUME NEW candidates \in SUBSET Events,
           NEW claimed \in SetToAllKPermutations(candidates)
    PROVE  claimed \in Seq(Events) /\ ToSet(claimed) \subseteq candidates
<1>1. PICK c \in SUBSET candidates : claimed \in SetToSeqs(c)
  BY DEF SetToAllKPermutations
<1>2. IsFiniteSet(c)
  BY DeliveryConstants, FS_Subset
<1>3. Cardinality(c) \in Nat
  BY <1>2, FS_CardinalityType
<1>4. claimed \in [1 .. Cardinality(c) -> c]
  BY <1>1 DEF SetToSeqs
<1>5. claimed \in [1 .. Cardinality(c) -> Events]
  BY <1>4
<1>6. claimed \in Seq(Events)
  BY <1>3, <1>5
<1> QED
  BY <1>4, <1>6 DEF ToSet

-----------------------------------------------------------------------------
(* Types                                                                   *)

\* The dispatcher works on a row only while it holds one, and holds none before
\* the process has started.
HoldsRow ==
    /\ stage # "idle" => batch # <<>>
    /\ process \in {"down", "boot"} => batch = <<>>

TypeInv == TypeOK /\ HoldsRow

LEMMA TypeInit == Init => TypeInv
<1> SUFFICES ASSUME Init PROVE TypeInv
  OBVIOUS
<1>1. row \in [Events -> [state : {"absent", "pending", "parked", "delivered"},
                          due : BOOLEAN, attempts : 0 .. RetryLimit]]
  BY DeliveryConstants DEF Init, NoRow
<1>2. /\ process \in {"down", "boot", "replay", "loop"}
      /\ batch \in Seq(Events) /\ sends \in Seq(Targets)
      /\ stage = "idle" /\ batch = <<>>
      /\ conn \in [Devices -> {"closed", "open", "broken"}]
      /\ seen \subseteq Messages
      /\ got \in [Devices -> SUBSET Messages]
      /\ owed \in [Events -> SUBSET Devices]
      /\ fails \in [Events -> Nat]
      /\ faults \in 0 .. MaxFaults
  BY DeliveryConstants DEF Init
<1> QED
  BY <1>1, <1>2 DEF TypeInv, TypeOK, HoldsRow

\* Claiming rows leases them and makes a batch of them.
LEMMA ClaimType ==
    ASSUME TypeOK, NEW candidates \in SUBSET Events, Claim(candidates)
    PROVE  /\ batch' \in Seq(Events)
           /\ row' \in [Events -> [state : {"absent", "pending", "parked", "delivered"},
                                   due : BOOLEAN, attempts : 0 .. RetryLimit]]
           /\ ToSet(batch') \subseteq candidates
<1>1. PICK claimed \in SetToAllKPermutations(candidates) :
          batch' = claimed /\ Lease(ToSet(claimed))
  BY DEF Claim
<1>2. claimed \in Seq(Events) /\ ToSet(claimed) \subseteq candidates
  BY ClaimedIsSeq
<1>3. row' \in [Events -> [state : {"absent", "pending", "parked", "delivered"},
                           due : BOOLEAN, attempts : 0 .. RetryLimit]]
  BY <1>1 DEF Lease, TypeOK
<1> QED
  BY <1>1, <1>2, <1>3

\* The hub records, writes and suppresses messages; it touches no row.
LEMMA SendEffect ==
    ASSUME TypeInv, Send
    PROVE  LET m == <<Head(batch), Head(sends)>>
           IN  /\ m \in Messages
               /\ batch # <<>> /\ sends # <<>>
               /\ seen \subseteq seen' /\ seen' \subseteq seen \cup {m}
               /\ got' \in [Devices -> SUBSET Messages]
               /\ \A d \in Devices : got[d] \subseteq got'[d]
               /\ fails' \in [Events -> Nat]
               /\ \/ stage' = "sending" /\ sends' = Tail(sends)
                  \/ stage' = "failed" /\ sends' = <<>>
<1> DEFINE m == <<Head(batch), Head(sends)>>
<1>1. stage = "sending" /\ sends # <<>> /\ batch # <<>>
      /\ batch \in Seq(Events) /\ sends \in Seq(Targets)
  BY DEF Send, TypeInv, HoldsRow, TypeOK
<1>2. Head(batch) \in Events /\ Head(sends) \in Targets
  BY <1>1, TailElements
<1>3. m \in Messages
  BY <1>2 DEF Messages
<1>4. ASSUME Suppress
      PROVE  /\ seen' = seen /\ got' = got /\ fails' = fails
             /\ stage' = "sending" /\ sends' = Tail(sends)
  BY <1>1, <1>4 DEF Suppress
<1>5. ASSUME NEW failing \in SUBSET Devices, Write(m, failing)
      PROVE  /\ got' \in [Devices -> SUBSET Messages]
             /\ \A d \in Devices : got[d] \subseteq got'[d]
             /\ fails' \in [Events -> Nat]
             /\ \/ stage' = "sending" /\ sends' = Tail(sends)
                \/ stage' = "failed" /\ sends' = <<>>
  <2>1. CASE failing = {}
    <3>1. got' = [d \in Devices |-> IF d \in Open \cap Of(m[2]) THEN got[d] \cup {m}
                                    ELSE got[d]]
          /\ sends' = Tail(sends) /\ stage' = stage /\ fails' = fails
      BY <1>5, <2>1 DEF Write
    <3> QED
      BY <1>1, <1>3, <3>1 DEF TypeInv, TypeOK
  <2>2. CASE failing # {}
    <3>1. PICK written \in SUBSET (Open \cap Of(m[2])) :
              got' = [d \in Devices |-> IF d \in written THEN got[d] \cup {m} ELSE got[d]]
      BY <1>5, <2>2 DEF Write
    <3>2. sends' = <<>> /\ stage' = "failed"
          /\ fails' = [fails EXCEPT ![Head(batch)] = fails[Head(batch)] + 1]
      BY <1>5, <2>2 DEF Write
    <3>3. fails' \in [Events -> Nat]
      BY <1>2, <3>2 DEF TypeInv, TypeOK
    <3> QED
      BY <1>3, <3>1, <3>2, <3>3 DEF TypeInv, TypeOK
  <2> QED
    BY <2>1, <2>2
<1>6. CASE Head(sends) = All
  <2>1. Broadcast(m)
    BY <1>6 DEF Send
  <2>2. CASE m \in seen /\ Suppress
    BY <1>1, <1>3, <1>4, <2>2 DEF TypeInv, TypeOK
  <2>3. ASSUME NEW failing \in SUBSET Broken, Write(m, failing),
               seen' = IF failing = {} THEN seen \cup {m} ELSE seen
        PROVE  seen \subseteq seen' /\ seen' \subseteq seen \cup {m} /\ failing \in SUBSET Devices
    BY <2>3 DEF Broken
  <2> QED
    BY <1>1, <1>3, <1>5, <2>1, <2>2, <2>3 DEF Broadcast
<1>7. CASE Head(sends) # All
  <2>1. SendToUser(m)
    BY <1>7 DEF Send
  <2>2. CASE m \in seen /\ Suppress
    BY <1>1, <1>3, <1>4, <2>2 DEF TypeInv, TypeOK
  <2>3. ASSUME NEW failing \in SUBSET (Broken \cap Of(m[2])), Write(m, failing),
               seen' = seen \cup {m}
        PROVE  seen \subseteq seen' /\ seen' \subseteq seen \cup {m} /\ failing \in SUBSET Devices
    BY <2>3 DEF Broken
  <2> QED
    BY <1>1, <1>3, <1>5, <2>1, <2>2, <2>3 DEF SendToUser
<1> QED
  BY <1>6, <1>7

\* Every step keeps the types.
LEMMA TypeStep == TypeInv /\ [Next]_vars => TypeInv'
<1> SUFFICES ASSUME TypeInv, [Next]_vars PROVE TypeInv'
  OBVIOUS
<1> USE DeliveryConstants DEF TypeInv, TypeOK, HoldsRow
<1>1. CASE UNCHANGED vars
  BY <1>1 DEF vars, dispatchVars, hubVars
<1>2. CASE DispatchDue
  <2>1. Due \in SUBSET Events /\ Claim(Due)
    BY <1>2 DEF DispatchDue, Due
  <2> QED
    BY <1>2, <2>1, ClaimType DEF DispatchDue, hubVars
<1>3. CASE Replay
  <2>1. Due \cup Parked \in SUBSET Events
    BY DEF Due, Parked
  <2>2. CASE Claim(Due \cup Parked) /\ UNCHANGED faults
    <3>1. stage = "idle" \/ batch' # <<>>
      BY <2>2 DEF Claim, Claimable
    <3> QED
      BY <1>3, <2>1, <2>2, <3>1, ClaimType DEF Replay, hubVars
  <2>3. CASE /\ Due \cup Parked = {} \/ faults < MaxFaults
             /\ faults' = IF Due \cup Parked = {} THEN faults ELSE faults + 1
             /\ UNCHANGED <<row, batch>>
    <3>1. faults' \in 0 .. MaxFaults
      BY <2>3
    <3> QED
      BY <1>3, <2>3, <3>1 DEF Replay, hubVars
  <2> QED
    BY <1>3, <2>2, <2>3 DEF Replay
<1>4. CASE StartLoop
  BY <1>4 DEF StartLoop, dispatchVars, hubVars
<1>5. CASE Project
  <2>1. batch # <<>> /\ Head(batch) \in Events
    BY <1>5, TailElements DEF Project
  <2>2. CASE /\ \E plan \in Plans[Head(batch)] : sends' = plan
             /\ stage' = "sending"
             /\ UNCHANGED <<fails, faults>>
    <3>1. Plans[Head(batch)] \subseteq Seq(Targets)
      BY <2>1
    <3> QED
      BY <1>5, <2>1, <2>2, <3>1 DEF Project, hubVars
  <2>3. CASE /\ faults < MaxFaults
             /\ faults' = faults + 1
             /\ stage' = "failed"
             /\ fails' = [fails EXCEPT ![Head(batch)] = fails[Head(batch)] + 1]
             /\ UNCHANGED sends
    <3>1. fails' \in [Events -> Nat] /\ faults' \in 0 .. MaxFaults
      BY <2>1, <2>3
    <3> QED
      BY <1>5, <2>1, <2>3, <3>1 DEF Project, hubVars
  <2> QED
    BY <1>5, <2>2, <2>3 DEF Project
<1>6. CASE Send
  <2>1. sends' \in Seq(Targets)
    <3>1. sends # <<>> /\ (sends' = Tail(sends) \/ sends' = <<>>)
      BY <1>6, SendEffect
    <3>2. sends \in Seq(Targets)
      OBVIOUS
    <3>3. Tail(sends) \in Seq(Targets)
      BY <3>1, <3>2, TailElements
    <3>4. <<>> \in Seq(Targets)
      OBVIOUS
    <3> QED
      BY <3>1, <3>3, <3>4
  <2>2. seen' \subseteq Messages
    BY <1>6, SendEffect
  <2> QED
    BY <1>6, <2>1, <2>2, SendEffect DEF Send
<1>7. ASSUME MarkOutboxDelivered \/ RetryOutboxEvent \/ ParkOutboxEvent
      PROVE  TypeInv'
  <2>1. NextRow /\ batch # <<>>
    BY <1>7 DEF MarkOutboxDelivered, RetryOutboxEvent, ParkOutboxEvent
  <2>2. Head(batch) \in Events /\ Tail(batch) \in Seq(Events)
    BY <2>1, TailElements
  <2>3. row' \in [Events -> [state : {"absent", "pending", "parked", "delivered"},
                             due : BOOLEAN, attempts : 0 .. RetryLimit]]
    <3>1. CASE MarkOutboxDelivered
      BY <2>2, <3>1 DEF MarkOutboxDelivered
    <3>2. CASE ParkOutboxEvent
      BY <2>2, <3>2 DEF ParkOutboxEvent
    <3>3. CASE RetryOutboxEvent
      <4>1. row[Head(batch)].attempts + 1 \in 0 .. RetryLimit
        BY <2>2, <3>3 DEF RetryOutboxEvent, Exhausted
      <4> QED
        BY <2>2, <3>3, <4>1 DEF RetryOutboxEvent
    <3> QED
      BY <1>7, <3>1, <3>2, <3>3
  <2> QED
    BY <2>1, <2>2, <2>3 DEF NextRow, hubVars
<1>8. CASE AbortBatch
  BY <1>8 DEF AbortBatch, hubVars
<1>9. CASE Crash
  BY <1>9 DEF Crash
<1>10. CASE Restart
  BY <1>10 DEF Restart, dispatchVars, hubVars
<1>11. ASSUME NEW e \in Events, InsertOutboxEvent(e)
       PROVE  TypeInv'
  BY <1>11 DEF InsertOutboxEvent, dispatchVars, Open
<1>12. ASSUME NEW e \in Events, TimePasses(e)
       PROVE  TypeInv'
  BY <1>12 DEF TimePasses, dispatchVars, hubVars
<1>13. ASSUME NEW d \in Devices, Connect(d) \/ Break(d) \/ RemoveClient(d)
       PROVE  TypeInv'
  <2>1. conn' \in [Devices -> {"closed", "open", "broken"}]
    BY <1>13 DEF Connect, Break, RemoveClient
  <2>2. owed' \in [Events -> SUBSET Devices]
    BY <1>13 DEF Connect, Break, RemoveClient
  <2> QED
    BY <1>13, <2>1, <2>2 DEF Connect, Break, RemoveClient, dispatchVars
<1> QED
  BY <1>1, <1>2, <1>3, <1>4, <1>5, <1>6, <1>7, <1>8, <1>9, <1>10, <1>11, <1>12, <1>13
     DEF Next, Worker

\* The outbox table and the hub keep their shape; in particular no row is ever
\* retried more than RetryLimit times (Dispatch and RetryOutboxEvent).
THEOREM DeliveryTypeCorrect == Spec => []TypeOK
<1>1. TypeInv => TypeOK
  BY DEF TypeInv
<1> QED
  BY <1>1, TypeInit, TypeStep, PTL DEF Spec

-----------------------------------------------------------------------------
(* Delivery                                                                *)

\* A device is owed an event only while its connection is whole.
OwedAreOpen == \A e \in Events : owed[e] \subseteq Open

\* Rows that are dispatched, and messages the hub remembers, were committed.
Committed ==
    /\ \A e \in ToSet(batch) : row[e].state # "absent"
    /\ \A e \in Events : <<e, All>> \in seen => row[e].state # "absent"

\* The hub remembers a broadcast only when all that are owed it have it.
SeenIsWritten ==
    \A e \in Events : <<e, All>> \in seen => \A d \in owed[e] : <<e, All>> \in got[d]

\* While a row is dispatched its broadcast is still to come or was remembered.
ToComeOrSeen ==
    stage = "sending" /\ Promised(Head(batch), All)
        => All \in ToSet(sends) \/ <<Head(batch), All>> \in seen

DeliveryInv ==
    /\ TypeInv
    /\ OwedAreOpen
    /\ Committed
    /\ SeenIsWritten
    /\ ToComeOrSeen
    /\ BroadcastReachesAll

LEMMA DeliveryInit == Init => DeliveryInv
<1> SUFFICES ASSUME Init PROVE DeliveryInv
  OBVIOUS
<1>1. TypeInv
  BY TypeInit
<1>2. OwedAreOpen /\ SeenIsWritten /\ ToComeOrSeen
  BY DEF Init, OwedAreOpen, SeenIsWritten, ToComeOrSeen
<1>3. Committed
  BY DEF Init, Committed, ToSet
<1>4. BroadcastReachesAll
  BY DEF Init, BroadcastReachesAll, NoRow
<1> QED
  BY <1>1, <1>2, <1>3, <1>4 DEF DeliveryInv

\* Steps of the table and the loop: the hub stands still.
LEMMA RowsOnly ==
    ASSUME DeliveryInv, TypeInv', UNCHANGED hubVars,
           \A e \in Events : /\ row[e].state # "absent" => row'[e].state # "absent"
                             /\ row'[e].state = "delivered" => row[e].state = "delivered",
           ToSet(batch') \subseteq ToSet(batch)
              \/ \A e \in ToSet(batch') : row'[e].state # "absent",
           ToComeOrSeen'
    PROVE  DeliveryInv'
<1>1. OwedAreOpen' /\ SeenIsWritten'
  BY DEF DeliveryInv, OwedAreOpen, SeenIsWritten, Open, hubVars
<1>2. Committed'
  <2>1. \A e \in ToSet(batch) : e \in Events
    BY DEF DeliveryInv, TypeInv, TypeOK, ToSet
  <2> QED
    BY <2>1 DEF DeliveryInv, Committed, hubVars
<1>3. BroadcastReachesAll'
  BY DEF DeliveryInv, BroadcastReachesAll, Promised, hubVars
<1> QED
  BY <1>1, <1>2, <1>3 DEF DeliveryInv

\* A hub call leaves every device that is owed the broadcast with it, or fails.
LEMMA DeliverySend ==
    ASSUME DeliveryInv, TypeInv', Send
    PROVE  DeliveryInv'
<1> DEFINE m == <<Head(batch), Head(sends)>>
<1>1. /\ m \in Messages /\ batch # <<>> /\ sends # <<>>
      /\ seen \subseteq seen' /\ seen' \subseteq seen \cup {m}
      /\ \A d \in Devices : got[d] \subseteq got'[d]
      /\ \/ stage' = "sending" /\ sends' = Tail(sends)
         \/ stage' = "failed" /\ sends' = <<>>
  BY SendEffect DEF DeliveryInv
<1>2. stage = "sending" /\ UNCHANGED <<row, process, batch, conn, owed, faults>>
  BY DEF Send
<1>3. Head(batch) \in Events /\ Head(sends) \in Targets
  BY <1>1 DEF Messages
<1>4. Head(batch) \in ToSet(batch)
  BY <1>1, TailElements DEF DeliveryInv, TypeInv, TypeOK
<1>5. OwedAreOpen'
  BY <1>2 DEF DeliveryInv, OwedAreOpen, Open
<1>6. Committed'
  BY <1>1, <1>2, <1>4 DEF DeliveryInv, Committed
<1>7. ASSUME Head(sends) = All, stage' = "sending"
      PROVE  /\ m \in seen'
             /\ \A d \in Open : m \in got'[d] \/ m \in seen
  <2>1. Broadcast(m)
    BY <1>7 DEF Send
  <2>2. CASE m \in seen
    BY <1>1, <2>2
  <2>3. CASE m \notin seen
    <3>1. PICK failing \in SUBSET Broken :
              Write(m, failing) /\ seen' = IF failing = {} THEN seen \cup {m} ELSE seen
      BY <2>1, <2>3 DEF Broadcast
    <3>2. failing = {}
      BY <1>7, <3>1 DEF Write
    <3>3. got' = [d \in Devices |-> IF d \in Open \cap Of(m[2]) THEN got[d] \cup {m}
                                    ELSE got[d]]
      BY <3>1, <3>2 DEF Write
    <3>4. Open \cap Of(m[2]) = Open
      BY <1>7 DEF Open, Of
    <3> QED
      BY <3>1, <3>2, <3>3, <3>4 DEF Open
  <2> QED
    BY <2>2, <2>3
<1>8. ASSUME Head(sends) = All, stage' = "failed"
      PROVE  seen' = seen
  <2>1. Broadcast(m)
    BY <1>8 DEF Send
  <2>2. CASE m \in seen
    BY <1>1, <2>2
  <2>3. CASE m \notin seen
    <3>1. PICK failing \in SUBSET Broken :
              Write(m, failing) /\ seen' = IF failing = {} THEN seen \cup {m} ELSE seen
      BY <2>1, <2>3 DEF Broadcast
    <3>2. failing # {}
      BY <1>2, <1>8, <3>1 DEF Write
    <3> QED
      BY <3>1, <3>2
  <2> QED
    BY <2>2, <2>3
<1>9. SeenIsWritten'
  <2>1. SUFFICES ASSUME NEW e \in Events, <<e, All>> \in seen', NEW d \in owed[e]
                 PROVE  <<e, All>> \in got'[d]
    BY <1>2 DEF SeenIsWritten
  <2>2. d \in Devices /\ d \in Open
    BY DEF DeliveryInv, OwedAreOpen, Open
  <2>3. CASE <<e, All>> \in seen
    BY <1>1, <2>2, <2>3 DEF DeliveryInv, SeenIsWritten
  <2>4. CASE <<e, All>> \notin seen
    <3>1. <<e, All>> = m /\ Head(sends) = All /\ seen' # seen
      BY <1>1, <2>1, <2>4
    <3> QED
      BY <1>1, <1>7, <1>8, <2>2, <2>4, <3>1
  <2> QED
    BY <2>3, <2>4
<1>10. ToComeOrSeen'
  <2>1. SUFFICES ASSUME stage' = "sending", Promised(Head(batch), All)
                 PROVE  All \in ToSet(sends') \/ <<Head(batch), All>> \in seen'
    BY <1>2 DEF ToComeOrSeen, Promised
  <2>2. All \in ToSet(sends) \/ <<Head(batch), All>> \in seen
    BY <1>2, <2>1 DEF DeliveryInv, ToComeOrSeen
  <2>3. ToSet(sends) \subseteq ToSet(Tail(sends)) \cup {Head(sends)}
    BY <1>1, TailElements DEF DeliveryInv, TypeInv, TypeOK
  <2> QED
    BY <1>1, <1>7, <2>1, <2>2, <2>3
<1>11. BroadcastReachesAll'
  <2>1. \A e \in Events : owed[e] \subseteq Devices
    BY DEF DeliveryInv, TypeInv, TypeOK
  <2> QED
    BY <1>1, <1>2, <2>1 DEF DeliveryInv, BroadcastReachesAll, Promised
<1> QED
  BY <1>5, <1>6, <1>9, <1>10, <1>11 DEF DeliveryInv

LEMMA DeliveryStep == DeliveryInv /\ [Next]_vars => DeliveryInv'
<1> SUFFICES ASSUME DeliveryInv, [Next]_vars PROVE DeliveryInv'
  OBVIOUS
<1>0. TypeInv'
  BY TypeStep DEF DeliveryInv
<1>a. TypeInv /\ row \in [Events -> [state : {"absent", "pending", "parked", "delivered"},
                                     due : BOOLEAN, attempts : 0 .. RetryLimit]]
      /\ batch \in Seq(Events) /\ ToSet(batch) \subseteq Events
  BY DEF DeliveryInv, TypeInv, TypeOK, ToSet
<1>1. CASE UNCHANGED vars
  <2>1. ToComeOrSeen'
    BY <1>1 DEF DeliveryInv, ToComeOrSeen, Promised, vars, dispatchVars, hubVars
  <2> QED
    BY <1>0, <1>1, <2>1, RowsOnly DEF vars, dispatchVars
<1>b. ASSUME NEW candidates \in SUBSET {e \in Events : row[e].state \in {"pending", "parked"}},
             Claim(candidates)
      PROVE  /\ \A e \in Events : /\ row[e].state # "absent" => row'[e].state # "absent"
                                  /\ row'[e].state = "delivered" => row[e].state = "delivered"
             /\ \A e \in ToSet(batch') : row'[e].state # "absent"
  <2>1. PICK claimed : batch' = claimed /\ Lease(ToSet(claimed))
    BY <1>b DEF Claim
  <2>2. ToSet(batch') \subseteq candidates
    BY <1>a, <1>b, ClaimType DEF TypeInv
  <2>3. \A e \in Events : row'[e] = IF e \in ToSet(batch')
                                    THEN [row[e] EXCEPT !.state = "pending", !.due = FALSE]
                                    ELSE row[e]
    BY <2>1 DEF Lease
  <2> QED
    BY <1>a, <2>2, <2>3
<1>2. CASE DispatchDue
  <2>1. Due \in SUBSET {e \in Events : row[e].state \in {"pending", "parked"}} /\ Claim(Due)
    BY <1>2 DEF DispatchDue, Due
  <2>2. ToComeOrSeen'
    BY <1>2 DEF DispatchDue, DeliveryInv, TypeInv, HoldsRow, TypeOK, ToComeOrSeen
  <2> QED
    BY <1>0, <1>2, <1>b, <2>1, <2>2, RowsOnly DEF DispatchDue
<1>3. CASE Replay
  <2>1. Due \cup Parked \in SUBSET {e \in Events : row[e].state \in {"pending", "parked"}}
    BY DEF Due, Parked
  <2>2. CASE Claim(Due \cup Parked)
    <3>1. ToComeOrSeen'
      BY <1>3, <1>a, <2>2 DEF Replay, ToComeOrSeen, TypeInv, HoldsRow
    <3> QED
      BY <1>0, <1>3, <1>b, <2>1, <2>2, <3>1, RowsOnly DEF Replay
  <2>3. CASE UNCHANGED <<row, batch>>
    <3>1. ToComeOrSeen'
      BY <1>3, <2>3 DEF Replay, DeliveryInv, ToComeOrSeen, Promised, hubVars
    <3> QED
      BY <1>0, <1>3, <2>3, <3>1, RowsOnly DEF Replay
  <2> QED
    BY <1>3, <2>2, <2>3 DEF Replay
<1>4. CASE StartLoop \/ Restart
  <2>1. ToComeOrSeen'
    BY <1>4 DEF StartLoop, Restart, DeliveryInv, ToComeOrSeen, Promised, dispatchVars, hubVars
  <2> QED
    BY <1>0, <1>4, <2>1, RowsOnly DEF StartLoop, Restart, dispatchVars
<1>5. CASE Project
  <2>1. ToComeOrSeen'
    BY <1>5 DEF Project, ToComeOrSeen, Promised
  <2> QED
    BY <1>0, <1>5, <2>1, RowsOnly DEF Project
<1>6. CASE Send
  BY <1>0, <1>6, DeliverySend
<1>c. ASSUME NextRow, batch # <<>>
      PROVE  /\ ToSet(batch') \subseteq ToSet(batch) /\ Head(batch) \in Events
             /\ ToComeOrSeen' /\ UNCHANGED hubVars
  <2>1. ToComeOrSeen'
    BY <1>c DEF NextRow, ToComeOrSeen
  <2> QED
    BY <1>a, <1>c, <2>1, TailElements DEF NextRow
<1>d. MarkOutboxDelivered \/ RetryOutboxEvent \/ ParkOutboxEvent => NextRow /\ batch # <<>>
  BY <1>a DEF MarkOutboxDelivered, RetryOutboxEvent, ParkOutboxEvent, TypeInv, HoldsRow
<1>7. CASE RetryOutboxEvent \/ ParkOutboxEvent
  <2>1. \A e \in Events : /\ row[e].state # "absent" => row'[e].state # "absent"
                          /\ row'[e].state = "delivered" => row[e].state = "delivered"
    <3>1. Head(batch) \in Events
      BY <1>7, <1>c, <1>d
    <3>2. CASE RetryOutboxEvent
      BY <1>a, <3>1, <3>2 DEF RetryOutboxEvent
    <3>3. CASE ParkOutboxEvent
      BY <1>a, <3>1, <3>3 DEF ParkOutboxEvent
    <3> QED
      BY <1>7, <3>2, <3>3
  <2> QED
    BY <1>0, <1>7, <1>c, <1>d, <2>1, RowsOnly
<1>8. CASE MarkOutboxDelivered
  <2>1. /\ ToSet(batch') \subseteq ToSet(batch) /\ Head(batch) \in Events
        /\ ToComeOrSeen' /\ UNCHANGED hubVars
    BY <1>8, <1>c, <1>d
  <2>2. stage = "sending" /\ sends = <<>>
        /\ row' = [row EXCEPT ![Head(batch)].state = "delivered"]
    BY <1>8 DEF MarkOutboxDelivered
  <2>3. Promised(Head(batch), All) => <<Head(batch), All>> \in seen
    BY <2>2 DEF DeliveryInv, ToComeOrSeen, ToSet
  <2>4. OwedAreOpen' /\ SeenIsWritten'
    BY <2>1 DEF DeliveryInv, OwedAreOpen, SeenIsWritten, Open, hubVars
  <2>5. \A e \in Events : /\ row[e].state # "absent" => row'[e].state # "absent"
                          /\ e # Head(batch) => row'[e] = row[e]
    BY <1>a, <2>1, <2>2
  <2>6. Committed'
    BY <1>a, <2>1, <2>5 DEF DeliveryInv, Committed, hubVars
  <2>7. BroadcastReachesAll'
    <3>1. SUFFICES ASSUME NEW e \in Events, row'[e].state = "delivered", Promised(e, All),
                          NEW d \in owed[e]
                   PROVE  <<e, All>> \in got[d]
      BY <2>1 DEF BroadcastReachesAll, Promised, hubVars
    <3>2. CASE e = Head(batch)
      BY <2>3, <3>1, <3>2 DEF DeliveryInv, SeenIsWritten
    <3>3. CASE e # Head(batch)
      BY <2>5, <3>1, <3>3 DEF DeliveryInv, BroadcastReachesAll
    <3> QED
      BY <3>2, <3>3
  <2> QED
    BY <1>0, <2>1, <2>4, <2>6, <2>7 DEF DeliveryInv
<1>9. CASE AbortBatch
  <2>1. ToComeOrSeen'
    BY <1>9 DEF AbortBatch, ToComeOrSeen
  <2>2. ToSet(batch') \subseteq ToSet(batch)
    BY <1>9 DEF AbortBatch, ToSet
  <2> QED
    BY <1>0, <1>9, <2>1, <2>2, RowsOnly DEF AbortBatch
<1>10. CASE Crash
  <2>1. OwedAreOpen' /\ SeenIsWritten' /\ ToComeOrSeen'
    BY <1>10 DEF Crash, OwedAreOpen, SeenIsWritten, ToComeOrSeen
  <2>2. Committed'
    BY <1>10 DEF Crash, Committed, ToSet
  <2>3. BroadcastReachesAll'
    BY <1>10 DEF Crash, BroadcastReachesAll
  <2> QED
    BY <1>0, <2>1, <2>2, <2>3 DEF DeliveryInv
<1>11. ASSUME NEW e \in Events, InsertOutboxEvent(e)
       PROVE  DeliveryInv'
  <2>1. /\ row[e].state = "absent"
        /\ row' = [row EXCEPT ![e] = [state |-> "pending", due |-> TRUE, attempts |-> 0]]
        /\ owed' = [owed EXCEPT ![e] = Open]
        /\ UNCHANGED <<batch, stage, sends, conn, seen, got>>
    BY <1>11 DEF InsertOutboxEvent, dispatchVars
  <2>2. owed \in [Events -> SUBSET Devices]
    BY <1>a DEF TypeInv, TypeOK
  <2>3. OwedAreOpen'
    BY <2>1, <2>2 DEF DeliveryInv, OwedAreOpen, Open
  <2>4. Committed'
    BY <1>a, <2>1 DEF DeliveryInv, Committed
  <2>5. <<e, All>> \notin seen
    BY <2>1 DEF DeliveryInv, Committed
  <2>6. SeenIsWritten'
    BY <2>1, <2>2, <2>5 DEF DeliveryInv, SeenIsWritten
  <2>7. ToComeOrSeen'
    BY <2>1 DEF DeliveryInv, ToComeOrSeen, Promised
  <2>8. BroadcastReachesAll'
    BY <1>a, <2>1, <2>2 DEF DeliveryInv, BroadcastReachesAll, Promised
  <2> QED
    BY <1>0, <2>3, <2>4, <2>6, <2>7, <2>8 DEF DeliveryInv
<1>12. ASSUME NEW e \in Events, TimePasses(e)
       PROVE  DeliveryInv'
  <2>1. \A x \in Events : row'[x].state = row[x].state
    BY <1>12, <1>a DEF TimePasses
  <2>2. ToComeOrSeen'
    BY <1>12 DEF TimePasses, DeliveryInv, ToComeOrSeen, Promised, dispatchVars, hubVars
  <2> QED
    BY <1>0, <1>12, <2>1, <2>2, RowsOnly DEF TimePasses, dispatchVars
<1>13. ASSUME NEW d \in Devices, Connect(d) \/ Break(d) \/ RemoveClient(d)
       PROVE  DeliveryInv'
  <2>1. UNCHANGED <<row, batch, stage, sends, seen, got>>
    BY <1>13 DEF Connect, Break, RemoveClient, dispatchVars
  <2>2. conn \in [Devices -> {"closed", "open", "broken"}] /\ owed \in [Events -> SUBSET Devices]
    BY <1>a DEF TypeInv, TypeOK
  <2>3. \A e \in Events : owed'[e] \subseteq owed[e] /\ owed'[e] \subseteq Open'
    <3>1. CASE Connect(d)
      BY <2>2, <3>1 DEF Connect, DeliveryInv, OwedAreOpen, Open
    <3>2. CASE Break(d)
      BY <2>2, <3>2 DEF Break, DeliveryInv, OwedAreOpen, Open
    <3>3. CASE RemoveClient(d)
      BY <2>2, <3>3 DEF RemoveClient, DeliveryInv, OwedAreOpen, Open
    <3> QED
      BY <1>13, <3>1, <3>2, <3>3
  <2>4. OwedAreOpen'
    BY <2>3 DEF OwedAreOpen
  <2>5. Committed' /\ ToComeOrSeen'
    BY <2>1 DEF DeliveryInv, Committed, ToComeOrSeen, Promised
  <2>6. SeenIsWritten'
    BY <2>1, <2>3 DEF DeliveryInv, SeenIsWritten
  <2>7. BroadcastReachesAll'
    BY <2>1, <2>3 DEF DeliveryInv, BroadcastReachesAll, Promised
  <2> QED
    BY <1>0, <2>4, <2>5, <2>6, <2>7 DEF DeliveryInv
<1> QED
  BY <1>1, <1>2, <1>3, <1>4, <1>5, <1>6, <1>7, <1>8, <1>9, <1>10, <1>11, <1>12, <1>13
     DEF Next, Worker

\* Hub.Broadcast and OutboxDispatcher.Dispatch together lose no broadcast: a row
\* is marked delivered only when every device that was subscribed at the commit
\* and kept its connection has received it, however often the row was retried.
THEOREM NoBroadcastLost == Spec => []BroadcastReachesAll
<1>1. DeliveryInv => BroadcastReachesAll
  BY DEF DeliveryInv
<1> QED
  BY <1>1, DeliveryInit, DeliveryStep, PTL DEF Spec

-----------------------------------------------------------------------------
(* Retries                                                                 *)

\* ParkedAfterRetries needs that no retry is counted that did not fail, and that
\* the failure of the attempt in hand is counted before its outcome is stored.
RetriesFailed ==
    /\ \A e \in Events : row[e].attempts <= fails[e]
    /\ stage = "failed" => fails[Head(batch)] > row[Head(batch)].attempts

RetryInv == TypeInv /\ RetriesFailed /\ ParkedAfterRetries

\* Steps that store no failed attempt.
LEMMA RetryFrame ==
    ASSUME RetryInv, TypeInv',
           \A e \in Events : /\ fails'[e] >= fails[e]
                             /\ row'[e].attempts <= row[e].attempts
                             /\ row'[e].state = "parked" => row[e].state = "parked",
           stage' = "failed" => /\ batch' = batch /\ batch # <<>>
                                /\ stage = "failed" \/ fails'[Head(batch)] > fails[Head(batch)]
    PROVE  RetryInv'
<1>1. ASSUME NEW e \in Events
      PROVE  /\ row[e].attempts \in Nat /\ row'[e].attempts \in Nat
             /\ fails[e] \in Nat /\ fails'[e] \in Nat /\ row[e].attempts <= fails[e]
  BY DeliveryConstants DEF RetryInv, RetriesFailed, TypeInv, TypeOK
<1>2. \A e \in Events : row'[e].attempts <= fails'[e]
  BY <1>1
<1>3. ParkedAfterRetries'
  BY <1>1, DeliveryConstants DEF RetryInv, ParkedAfterRetries
<1>4. ASSUME stage' = "failed"
      PROVE  fails'[Head(batch')] > row'[Head(batch')].attempts
  <2>1. batch' = batch /\ Head(batch) \in Events
    BY <1>4, TailElements DEF RetryInv, TypeInv, TypeOK
  <2>2. stage = "failed" => fails[Head(batch)] > row[Head(batch)].attempts
    BY DEF RetryInv, RetriesFailed
  <2> QED
    BY <1>1, <1>4, <2>1, <2>2
<1> QED
  BY <1>2, <1>3, <1>4 DEF RetryInv, RetriesFailed

\* The outcome of the attempt in hand is stored.
LEMMA RetryStored ==
    ASSUME RetryInv, TypeInv', RetryOutboxEvent \/ ParkOutboxEvent
    PROVE  RetryInv'
<1>1. /\ stage = "failed" /\ batch # <<>> /\ Head(batch) \in Events
      /\ stage' = "idle" /\ fails' = fails
  BY TailElements DEF RetryInv, TypeInv, TypeOK, HoldsRow, RetryOutboxEvent, ParkOutboxEvent, NextRow
<1>2. PICK h \in Events : h = Head(batch)
  BY <1>1
<1>3. /\ row[h].attempts \in Nat /\ fails[h] \in Nat /\ fails[h] > row[h].attempts
      /\ RetryLimit \in Nat
  BY <1>1, <1>2, DeliveryConstants DEF RetryInv, RetriesFailed, TypeInv, TypeOK
<1>4. CASE RetryOutboxEvent
  <2>1. /\ row'[h].attempts = row[h].attempts + 1 /\ row'[h].state = row[h].state
        /\ \A e \in Events \ {h} : row'[e] = row[e]
    BY <1>2, <1>4 DEF RetryOutboxEvent, RetryInv, TypeInv, TypeOK
  <2>2. \A e \in Events : row'[e].attempts <= fails[e] /\ row'[e].state = row[e].state
    BY <1>3, <2>1 DEF RetryInv, RetriesFailed
  <2> QED
    BY <1>1, <2>2 DEF RetryInv, RetriesFailed, ParkedAfterRetries
<1>5. CASE ParkOutboxEvent
  <2>1. /\ row'[h].attempts = row[h].attempts /\ row[h].attempts >= RetryLimit
        /\ \A e \in Events \ {h} : row'[e] = row[e]
    BY <1>2, <1>5 DEF ParkOutboxEvent, Exhausted, RetryInv, TypeInv, TypeOK
  <2>2. fails[h] > RetryLimit
    BY <1>3, <2>1
  <2>3. \A e \in Events : row'[e].attempts = row[e].attempts
    BY <2>1
  <2>4. RetriesFailed'
    BY <1>1, <2>3 DEF RetryInv, RetriesFailed
  <2>5. ParkedAfterRetries'
    BY <1>1, <2>1, <2>2 DEF RetryInv, ParkedAfterRetries
  <2> QED
    BY <2>4, <2>5 DEF RetryInv
<1> QED
  BY <1>4, <1>5

\* A lease keeps the attempts of a row and revives what was parked.
LEMMA ClaimKeepsAttempts ==
    ASSUME TypeOK, NEW candidates, Claim(candidates)
    PROVE  \A e \in Events : /\ row'[e].attempts = row[e].attempts
                             /\ row'[e].state = "parked" => row[e].state = "parked"
<1>1. PICK claimed \in SetToAllKPermutations(candidates) : Lease(ToSet(claimed))
  BY DEF Claim
<1>2. PICK rows : rows = ToSet(claimed)
  OBVIOUS
<1>3. Lease(rows)
  BY <1>1, <1>2
<1> QED
  BY <1>3 DEF Lease, TypeOK

LEMMA RetryStep == RetryInv /\ [Next]_vars => RetryInv'
<1> SUFFICES ASSUME RetryInv, [Next]_vars PROVE RetryInv'
  OBVIOUS
<1>0. TypeInv /\ TypeInv' /\ TypeOK
  BY TypeStep DEF RetryInv, TypeInv
<1>00. \A e \in Events : fails[e] \in Nat /\ row[e].attempts \in Nat
  BY <1>0, DeliveryConstants DEF TypeOK
<1>1. ASSUME UNCHANGED <<row, fails>>, stage' = "idle" \/ UNCHANGED <<stage, batch>>
      PROVE  RetryInv'
  <2>1. stage = "failed" => batch # <<>>
    BY <1>0 DEF TypeInv, HoldsRow
  <2> QED
    BY <1>0, <1>00, <1>1, <2>1, RetryFrame
<1>2. CASE DispatchDue \/ Replay
  <2>1. /\ UNCHANGED <<stage, fails>> /\ batch = <<>>
        /\ UNCHANGED row \/ \E candidates : Claim(candidates)
    BY <1>0, <1>2 DEF DispatchDue, Replay, TypeInv, HoldsRow
  <2>2. stage # "failed"
    BY <1>0, <2>1 DEF TypeInv, HoldsRow
  <2>3. \A e \in Events : /\ row'[e].attempts = row[e].attempts
                          /\ row'[e].state = "parked" => row[e].state = "parked"
    BY <1>0, <2>1, ClaimKeepsAttempts
  <2> QED
    BY <1>0, <1>00, <2>1, <2>2, <2>3, RetryFrame
<1>3. CASE Project
  <2>1. batch # <<>> /\ Head(batch) \in Events /\ batch' = batch /\ row' = row
    BY <1>0, <1>3, TailElements DEF Project, TypeOK
  <2>2. \/ stage' = "sending" /\ fails' = fails
        \/ fails' = [fails EXCEPT ![Head(batch)] = fails[Head(batch)] + 1]
    BY <1>3 DEF Project
  <2>3. /\ \A e \in Events : fails'[e] >= fails[e]
        /\ stage' = "failed" => fails'[Head(batch)] > fails[Head(batch)]
    <3>1. PICK h \in Events : h = Head(batch)
      BY <2>1
    <3>2. CASE fails' = fails /\ stage' # "failed"
      BY <1>00, <3>2
    <3>3. CASE fails' = [fails EXCEPT ![h] = fails[h] + 1]
      <4>1. fails \in [Events -> Nat]
        BY <1>0 DEF TypeOK
      <4>2. fails'[h] = fails[h] + 1 /\ \A e \in Events \ {h} : fails'[e] = fails[e]
        BY <3>3, <4>1
      <4> QED
        BY <1>00, <3>1, <4>2
    <3> QED
      BY <2>1, <2>2, <3>1, <3>2, <3>3
  <2> QED
    BY <1>0, <1>00, <2>1, <2>3, RetryFrame
<1>4. CASE Send
  <2>1. /\ batch # <<>> /\ Head(batch) \in Events /\ batch' = batch /\ row' = row
        /\ stage = "sending"
    BY <1>0, <1>4, TailElements DEF Send, TypeInv, TypeOK, HoldsRow
  <2>2. \/ UNCHANGED <<stage, fails>>
        \/ fails' = [fails EXCEPT ![Head(batch)] = fails[Head(batch)] + 1]
    <3> DEFINE m == <<Head(batch), Head(sends)>>
    <3>1. Suppress \/ \E failing : Write(m, failing)
      BY <1>4 DEF Send, Broadcast, SendToUser
    <3> HIDE DEF m
    <3> QED
      BY <3>1 DEF Suppress, Write
  <2>3. /\ \A e \in Events : fails'[e] >= fails[e]
        /\ stage' = "failed" => fails'[Head(batch)] > fails[Head(batch)]
    <3>1. PICK h \in Events : h = Head(batch)
      BY <2>1
    <3>2. CASE fails' = fails /\ stage' # "failed"
      BY <1>00, <3>2
    <3>3. CASE fails' = [fails EXCEPT ![h] = fails[h] + 1]
      <4>1. fails \in [Events -> Nat]
        BY <1>0 DEF TypeOK
      <4>2. fails'[h] = fails[h] + 1 /\ \A e \in Events \ {h} : fails'[e] = fails[e]
        BY <3>3, <4>1
      <4> QED
        BY <1>00, <3>1, <4>2
    <3> QED
      BY <2>1, <2>2, <3>1, <3>2, <3>3
  <2> QED
    BY <1>0, <1>00, <2>1, <2>3, RetryFrame
<1>5. CASE RetryOutboxEvent \/ ParkOutboxEvent
  BY <1>0, <1>5, RetryStored
<1>6. CASE MarkOutboxDelivered
  <2>1. Head(batch) \in Events
    BY <1>0, <1>6, TailElements DEF MarkOutboxDelivered, TypeInv, TypeOK, HoldsRow
  <2>2. /\ stage' = "idle" /\ fails' = fails
        /\ row' = [row EXCEPT ![Head(batch)].state = "delivered"]
    BY <1>6 DEF MarkOutboxDelivered, NextRow
  <2>3. \A e \in Events : /\ row'[e].attempts = row[e].attempts
                          /\ row'[e].state = "parked" => row[e].state = "parked"
    BY <1>0, <2>1, <2>2 DEF TypeOK
  <2> QED
    BY <1>0, <1>00, <2>2, <2>3, RetryFrame
<1>7. CASE StartLoop \/ AbortBatch \/ Crash \/ Restart \/ UNCHANGED vars
  <2>1. UNCHANGED <<row, fails>> /\ (stage' = "idle" \/ UNCHANGED <<stage, batch>>)
    BY <1>7 DEF StartLoop, AbortBatch, Crash, Restart, vars, dispatchVars
  <2> QED
    BY <1>1, <2>1
<1>8. ASSUME NEW e \in Events, InsertOutboxEvent(e) \/ TimePasses(e)
      PROVE  RetryInv'
  <2>1. UNCHANGED <<fails, stage, batch>>
    BY <1>8 DEF InsertOutboxEvent, TimePasses, dispatchVars
  <2>2. \A f \in Events : /\ row'[f].attempts <= row[f].attempts
                          /\ row'[f].state = "parked" => row[f].state = "parked"
    <3>1. CASE InsertOutboxEvent(e)
      BY <1>0, <1>00, <3>1 DEF InsertOutboxEvent, TypeOK
    <3>2. CASE TimePasses(e)
      BY <1>0, <1>00, <3>2 DEF TimePasses, TypeOK
    <3> QED
      BY <1>8, <3>1, <3>2
  <2>3. stage = "failed" => batch # <<>>
    BY <1>0 DEF TypeInv, HoldsRow
  <2> QED
    BY <1>0, <1>00, <2>1, <2>2, <2>3, RetryFrame
<1>9. ASSUME NEW d \in Devices, Connect(d) \/ Break(d) \/ RemoveClient(d)
      PROVE  RetryInv'
  <2>1. UNCHANGED <<row, fails, stage, batch>>
    BY <1>9 DEF Connect, Break, RemoveClient, dispatchVars
  <2> QED
    BY <1>1, <2>1
<1> QED
  BY <1>2, <1>3, <1>4, <1>5, <1>6, <1>7, <1>8, <1>9 DEF Next, Worker

\* A row is parked only after its first attempt and all RetryLimit retries have
\* failed: neither an expired lease, an aborted batch, a crash nor the replay of
\* the parked rows uses up an attempt (Dispatch, RetryOutboxEvent, Replay).
THEOREM NoRowParkedEarly == Spec => []ParkedAfterRetries
<1>1. Init => RetryInv
  <2> SUFFICES ASSUME Init PROVE RetryInv
    OBVIOUS
  <2>1. \A e \in Events : row[e].attempts = 0 /\ fails[e] = 0 /\ row[e].state = "absent"
    BY DEF Init, NoRow
  <2>2. stage = "idle"
    BY DEF Init
  <2> QED
    BY <2>1, <2>2, TypeInit DEF RetryInv, RetriesFailed, ParkedAfterRetries
<1>2. RetryInv => ParkedAfterRetries
  BY DEF RetryInv
<1> QED
  BY <1>1, <1>2, RetryStep, PTL DEF Spec
=============================================================================
