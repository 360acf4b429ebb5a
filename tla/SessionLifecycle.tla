--------------------------- MODULE SessionLifecycle ---------------------------
(***************************************************************************)
(* What a live session promises to its circle, without tables, requests or *)
(* providers: it opens once and closes once; a seat is taken only while it *)
(* is open, only by somebody entitled to it at that moment, never by       *)
(* somebody who was barred, and a locked door lets nobody in who was not   *)
(* seated before; there are never more seats taken than exist.             *)
(***************************************************************************)
EXTENDS Naturals, FiniteSets

CONSTANTS Users, Seats

VARIABLES
    state,     \* "none", "waiting", "open", "closed"
    door,      \* is the door locked
    seated,    \* who sits inside
    known,     \* who ever sat inside
    barred,    \* who was sent out for good
    entitled   \* who may come in

vars == <<state, door, seated, known, barred, entitled>>

Init ==
    /\ state = "none"
    /\ door = FALSE
    /\ seated = {} /\ known = {} /\ barred = {}
    /\ entitled \subseteq Users

Announce ==
    /\ state = "none"
    /\ state' = "waiting"
    /\ UNCHANGED <<door, seated, known, barred, entitled>>

MayEnter(u) ==
    /\ u \in entitled \ (barred \cup seated)
    /\ door => u \in known
    /\ Cardinality(seated) < Seats

Seat(u) ==
    /\ MayEnter(u)
    /\ seated' = seated \cup {u}
    /\ known' = known \cup {u}

\* Whoever opens the session takes the first seat.
Open(u) ==
    /\ state = "waiting"
    /\ state' = "open"
    /\ Seat(u)
    /\ UNCHANGED <<door, barred, entitled>>

Enter(u) ==
    /\ state = "open"
    /\ Seat(u)
    /\ UNCHANGED <<state, door, barred, entitled>>

TurnLock ==
    /\ state = "open"
    /\ door' = ~door
    /\ UNCHANGED <<state, seated, known, barred, entitled>>

Bar(u) ==
    /\ u \in known
    /\ barred' = barred \cup {u}
    /\ seated' = seated \ {u}
    /\ UNCHANGED <<state, door, known, entitled>>

Close ==
    /\ state = "open"
    /\ state' = "closed"
    /\ seated' = {}
    /\ UNCHANGED <<door, known, barred, entitled>>

\* The circle changes around the session.
Entitle ==
    /\ entitled' \in SUBSET Users
    /\ UNCHANGED <<state, door, seated, known, barred>>

Next ==
    \/ Announce \/ TurnLock \/ Close \/ Entitle
    \/ \E u \in Users : Open(u) \/ Enter(u) \/ Bar(u)

Spec == Init /\ [][Next]_vars

=============================================================================
