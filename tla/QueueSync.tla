------------------------------ MODULE QueueSync ------------------------------
(***************************************************************************)
(* How the queue a participant sees on the phone follows the queue in the  *)
(* database: the server's displayed round, the events and the snapshot     *)
(* that travel over one WebSocket, and the mobile client that turns them   *)
(* into REST refreshes (mobile/lib/features/sessions:                      *)
(* realtime_session_client.dart, queue_controller.dart,                    *)
(* session_room_controller.dart).                                          *)
(*                                                                         *)
(* The queue is abstracted to what identifies a state of it: the displayed *)
(* round, its version and the version of the policy.  Events arrive as     *)
(* QueueDelivery has them, in any order: a broadcast once per live         *)
(* connection; what SendToUser addresses to the managers (grades that not  *)
(* everybody may see, the order of a preorder) at most once, since a write *)
(* that fails on another device of the user is not repeated.  The          *)
(* participant is a manager, to whom every delta is sent; messages that    *)
(* announce no new version (prompts, opt-out requests) are left out.       *)
(*                                                                         *)
(* A refresh is an HTTP request: it is sent, reads the database some time  *)
(* later, and its answer arrives still later; only the answer of the       *)
(* latest refresh counts.                                                  *)
(***************************************************************************)
EXTENDS Naturals, Sequences, FiniteSets

CONSTANTS
    MaxChanges,     \* bound: committed changes of the queue
    MaxDisconnects, \* bound: lost connections
    MaxSwallowed,   \* bound: direct events that another broken device swallows
    MaxFailures,    \* bound: refreshes that fail
    MaxRefreshes    \* bound: refreshes under way at once

ASSUME SyncConstants ==
    {MaxChanges, MaxDisconnects, MaxSwallowed, MaxFailures, MaxRefreshes} \subseteq Nat

VARIABLES
    server,      \* what GET queue and the snapshot would return now
    events,      \* committed events the dispatcher has not yet sent
    swallowed,   \* round and version of the direct events that were never sent
    link,        \* the connection, as the hub's read loop sees it
    snap,        \* the snapshot the read loop has read and not yet written
    wire,        \* frames on their way to the client
    phase,       \* SessionRoomController: where _connect is
    view,        \* QueueControllerState.queue
    failed,      \* QueueControllerState.status is error
    decoder,     \* round and version the decoder saw last
    generation,  \* _refreshGeneration
    refreshes,   \* refreshes that have not returned
    changes,
    disconnects,
    failures

serverVars == <<server, events, swallowed, changes>>
linkVars   == <<link, snap, wire>>
clientVars == <<phase, view, failed, decoder, generation, refreshes>>
vars       == <<serverVars, linkVars, clientVars, disconnects, failures>>

NoQueue == [round |-> 0, version |-> 0, policy |-> 0]
Unread  == [round |-> 0, version |-> 0, policy |-> 1]

-----------------------------------------------------------------------------
(* The server                                                              *)

Commit == changes < MaxChanges /\ changes' = changes + 1

\* Any command on the displayed round, its activation included: the version
\* rises and an event announces it, to the topic or to the managers alone.
Change ==
    /\ Commit
    /\ server' = [server EXCEPT !.version = @ + 1]
    /\ \E kind \in {"delta", "direct"} :
          events' = events \cup
             {[kind |-> kind, round |-> server.round, version |-> server.version + 1]}
    /\ UNCHANGED <<swallowed, linkVars, clientVars, disconnects, failures>>

\* A reset announces the end of the round; CurrentRound then shows its
\* successor, which starts at version 1.
Reset ==
    /\ Commit
    /\ server' = [server EXCEPT !.round = @ + 1, !.version = 1]
    /\ events' = events \cup
          {[kind |-> "delta", round |-> server.round, version |-> server.version + 1]}
    /\ UNCHANGED <<swallowed, linkVars, clientVars, disconnects, failures>>

\* UpdateSessionPolicyForManager leaves the version of the round alone.
UpdatePolicy ==
    /\ Commit
    /\ server' = [server EXCEPT !.policy = @ + 1]
    /\ events' = events \cup
          {[kind |-> "policy", round |-> server.round, version |-> server.policy + 1]}
    /\ UNCHANGED <<swallowed, linkVars, clientVars, disconnects, failures>>

\* The hub writes to the subscribed connection; without one the event is gone.
WriteEvent(kind, e) ==
    wire' = IF link \in {"subscribed", "reading", "live"}
            THEN Append(wire, [kind |-> kind, queue |->
                     [round |-> e.round, version |-> e.version, policy |-> 0]])
            ELSE wire

\* Repeated by the outbox until the write to this connection was done.
Broadcast(e) ==
    /\ e.kind # "direct"
    /\ events' = events \ {e}
    /\ WriteEvent(e.kind, e)
    /\ UNCHANGED <<server, swallowed, changes, link, snap, clientVars, disconnects, failures>>

\* SendToUser remembers the event before it writes: if another device of the
\* participant breaks first, the retry is taken for a duplicate.
SendToUser(e) ==
    /\ e.kind = "direct"
    /\ events' = events \ {e}
    /\ \/ WriteEvent("delta", e) /\ UNCHANGED swallowed
       \/ /\ Cardinality(swallowed) < MaxSwallowed
          /\ swallowed' = swallowed \cup {<<e.round, e.version>>}
          /\ UNCHANGED wire
    /\ UNCHANGED <<server, changes, link, snap, clientVars, disconnects, failures>>

\* Hub.ServeHTTP: the topic is added first, then the queue state is read, then
\* it is written.
Subscribe ==
    /\ link = "connected"
    /\ link' = "subscribed"
    /\ UNCHANGED <<serverVars, snap, wire, clientVars, disconnects, failures>>

ReadSnapshot ==
    /\ link = "subscribed"
    /\ link' = "reading"
    /\ snap' = server
    /\ UNCHANGED <<serverVars, wire, clientVars, disconnects, failures>>

WriteSnapshot ==
    /\ link = "reading"
    /\ link' = "live"
    /\ snap' = NoQueue
    /\ wire' = Append(wire, [kind |-> "state", queue |-> snap])
    /\ UNCHANGED <<serverVars, clientVars, disconnects, failures>>

Disconnect ==
    /\ disconnects < MaxDisconnects
    /\ disconnects' = disconnects + 1
    /\ link # "down"
    /\ link' = "down"
    /\ snap' = NoQueue
    /\ wire' = <<>>
    /\ phase' = "idle"
    /\ UNCHANGED <<serverVars, view, failed, decoder, generation, refreshes, failures>>

-----------------------------------------------------------------------------
(* The client                                                              *)

\* Mutant: the request carries the next generation, which is not recorded.
RefreshUncounted ==
    /\ Cardinality(refreshes) < MaxRefreshes
    /\ generation' = generation
    /\ refreshes' = refreshes \cup {[generation |-> generation + 1, queue |-> Unread]}

\* _refresh up to its request.
StartRefresh ==
    /\ Cardinality(refreshes) < MaxRefreshes
    /\ generation' = generation + 1
    /\ refreshes' = refreshes \cup {[generation |-> generation + 1, queue |-> Unread]}

\* _connect: the first refresh is awaited before the socket is opened.
Join ==
    /\ phase = "idle"
    /\ phase' = "loading"
    /\ failed' = FALSE
    /\ StartRefresh
    /\ UNCHANGED <<serverVars, linkVars, view, decoder, disconnects, failures>>

OpenSocket ==
    /\ phase = "loading"
    /\ \A f \in refreshes : f.generation # generation
    /\ phase' = "listening"
    /\ link' = "connected"
    /\ decoder' = NoQueue
    /\ UNCHANGED <<serverVars, snap, wire, view, failed, generation,
                   refreshes, disconnects, failures>>

\* The request reaches the database.
ReadQueue(f) ==
    /\ f.queue = Unread
    /\ refreshes' = (refreshes \ {f}) \cup {[f EXCEPT !.queue = server]}
    /\ UNCHANGED <<serverVars, linkVars, phase, view, failed, decoder, generation,
                   disconnects, failures>>

\* Mutant: an answer is applied whatever refresh it belongs to.
AnyGeneration(f) == TRUE

\* _refreshGeneration: a newer refresh has made this one obsolete otherwise.
LatestRefresh(f) == f.generation = generation

FinishRefresh(f) ==
    /\ f.queue # Unread
    /\ refreshes' = refreshes \ {f}
    /\ IF LatestRefresh(f)
       THEN view' = f.queue /\ failed' = FALSE
       ELSE UNCHANGED <<view, failed>>
    /\ UNCHANGED <<serverVars, linkVars, phase, decoder, generation, disconnects, failures>>

FailRefresh(f) ==
    /\ failures < MaxFailures
    /\ failures' = failures + 1
    /\ refreshes' = refreshes \ {f}
    /\ failed' = (failed \/ LatestRefresh(f))
    /\ UNCHANGED <<serverVars, linkVars, phase, view, decoder, generation, disconnects>>

\* QueueRealtimeEventDecoder.decode: a delta older than the last frame of its
\* round is dropped.
Dropped(frame) ==
    /\ frame.kind = "delta"
    /\ decoder.round = frame.queue.round
    /\ frame.queue.version < decoder.version

Gap(frame) ==
    /\ frame.kind = "delta"
    /\ decoder.round = frame.queue.round
    /\ frame.queue.version > decoder.version + 1

\* Mutant: the snapshot of a subscription is taken for known.
SnapshotAlwaysKnown(q) == view # NoQueue

\* handleRealtimeEvent on a QueueStateEvent.
SnapshotIsKnown(q) ==
    view # NoQueue /\ q.round = view.round /\ q.version <= view.version

SnapshotSkips(q) ==
    view # NoQueue /\ q.round = view.round /\ q.version > view.version + 1

\* handleRealtimeEvent on a QueueChangeEvent; the round is not compared.
ChangeIsStale(q) == view # NoQueue /\ q.version < view.version

\* One frame is decoded and handled: it is ignored, it replaces the view, or
\* it starts a refresh.
Ignores(frame) ==
    \/ Dropped(frame)
    \/ frame.kind = "state" /\ SnapshotIsKnown(frame.queue)
    \/ frame.kind = "delta" /\ ~Gap(frame) /\ ChangeIsStale(frame.queue)

Replaces(frame) ==
    frame.kind = "state" /\ ~SnapshotIsKnown(frame.queue) /\ ~SnapshotSkips(frame.queue)

HandleFrame ==
    /\ wire # <<>>
    /\ wire' = Tail(wire)
    /\ LET frame == Head(wire)
       IN  /\ decoder' = IF Dropped(frame) \/ frame.kind = "policy" THEN decoder
                         ELSE frame.queue
           /\ \/ /\ Ignores(frame)
                 /\ UNCHANGED <<view, failed, generation, refreshes>>
              \/ /\ Replaces(frame)
                 /\ view' = frame.queue
                 /\ failed' = FALSE
                 /\ UNCHANGED <<generation, refreshes>>
              \/ /\ ~Ignores(frame)
                 /\ ~Replaces(frame)
                 /\ StartRefresh
                 /\ UNCHANGED <<view, failed>>
    /\ UNCHANGED <<serverVars, link, snap, phase, disconnects, failures>>

-----------------------------------------------------------------------------
Init ==
    /\ server = [round |-> 1, version |-> 1, policy |-> 1]
    /\ events = {}
    /\ swallowed = {}
    /\ changes = 0
    /\ link = "down"
    /\ snap = NoQueue
    /\ wire = <<>>
    /\ phase = "idle"
    /\ view = NoQueue
    /\ failed = FALSE
    /\ decoder = NoQueue
    /\ generation = 0
    /\ refreshes = {}
    /\ disconnects = 0
    /\ failures = 0

Steady ==
    \/ \E e \in events : Broadcast(e) \/ SendToUser(e)
    \/ Subscribe \/ ReadSnapshot \/ WriteSnapshot
    \/ OpenSocket \/ HandleFrame
    \/ \E f \in refreshes : ReadQueue(f) \/ FinishRefresh(f)

Next ==
    \/ Steady
    \/ Change \/ Reset \/ UpdatePolicy
    \/ Disconnect \/ Join
    \/ \E f \in refreshes : FailRefresh(f)

Spec == Init /\ [][Next]_vars

\* What is under way goes on: the dispatcher sends, the hub serves the
\* connection, requests are answered, frames are handled.  Nothing is assumed
\* of the people who change the queue, join and retry.
FairSpec == Spec /\ WF_vars(Steady)
-----------------------------------------------------------------------------
Queues == [round : Nat, version : Nat, policy : Nat]

\* Every frame, request and view is of its kind; every refresh under way has a
\* generation that was handed out.
TypeOK ==
    /\ server \in Queues
    /\ events \subseteq [kind : {"delta", "direct", "policy"}, round : Nat, version : Nat]
    /\ swallowed \subseteq Nat \X Nat
    /\ link \in {"down", "connected", "subscribed", "reading", "live"}
    /\ snap \in Queues
    /\ wire \in Seq([kind : {"state", "delta", "policy"},
                     queue : Queues])
    /\ phase \in {"idle", "loading", "listening"}
    /\ view \in Queues
    /\ failed \in BOOLEAN
    /\ generation \in Nat
    /\ refreshes \subseteq [generation : 1..generation, queue : Queues]

\* The view agrees with the database on the displayed round and its version.
UpToDate == view.round = server.round /\ view.version = server.version

\* While one round is displayed and no refresh that counts fails, a client that
\* listens ends up with its latest version, unless just the event of that version
\* was swallowed: events that are broadcast before the subscription, overtake each
\* other or race a refresh, earlier events that never come, and a snapshot that is
\* written after the events that followed it, leave no stale queue on the screen.
RoundConverges ==
    ( /\ [](server.round = 1 /\ ~failed)
      /\ <>[](<<server.round, server.version>> \notin swallowed) )
    => <>[](phase = "listening" => UpToDate)
=============================================================================
