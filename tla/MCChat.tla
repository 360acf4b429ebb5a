------------------------------- MODULE MCChat -------------------------------
(* Instances of Chat: each budget makes one part of the chat busy.          *)
EXTENDS Chat

Budget(c, u, s, r, d, p, f) ==
    [changes |-> c, uploads |-> u, sends |-> s, reads |-> r, deletes |-> d, pins |-> p, faults |-> f]

MCBudgets == {
    Budget(0, 1, 1, 0, 2, 0, 1),   \* one media message, deletions and a fault
    Budget(0, 2, 1, 0, 0, 0, 0),   \* uploads at once
    Budget(0, 0, 2, 0, 0, 2, 0),   \* pins at once
    Budget(0, 0, 1, 0, 1, 1, 0),   \* a pin and a deletion
    Budget(1, 0, 2, 1, 0, 0, 0),   \* replies, receipts and a removal
    Budget(1, 0, 1, 1, 1, 0, 0),   \* a removal, a receipt and a deletion
    Budget(0, 0, 1, 0, 1, 0, 3)}   \* the outbox under faults

=============================================================================
