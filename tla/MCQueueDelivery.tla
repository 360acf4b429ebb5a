--------------------------- MODULE MCQueueDelivery ---------------------------
(***************************************************************************)
(* A small instance of the event delivery: a student with two devices and  *)
(* a teacher with one; an event that is broadcast and prompts the student, *)
(* and one that is addressed to users.                                     *)
(***************************************************************************)
EXTENDS QueueDelivery

CONSTANTS e1, e2, student, teacher, phone, tablet, laptop

OwnerOf == [d \in Devices |-> IF d = laptop THEN teacher ELSE student]

\* queue.advanced: broadcast, then "next soon" for whoever is next, if anybody;
\* queue.opt_out_requested: the managers only.
AdvancedAndOptOut == [e \in Events |->
    IF e = e1 THEN {<<All>>, <<All, student>>} ELSE {<<teacher>>}]

\* queue.entry_updated to reciting: broadcast, then "your turn".
YourTurn == [e \in Events |-> {<<All, student>>}]
=============================================================================
