------------------------------- MODULE TxPool --------------------------------
(***************************************************************************)
(* What the transmit half of EFI_SIMPLE_NETWORK_PROTOCOL promises its      *)
(* client, with no ring, no descriptor and no index in it: a buffer that   *)
(* was accepted for transmission goes to the wire once and comes back      *)
(* once, after it was sent, and at most MaxPending buffers are away at a   *)
(* time.                                                                   *)
(***************************************************************************)
EXTENDS Naturals, FiniteSets

CONSTANTS Bufs, MaxPending

VARIABLE owner   \* where each buffer is: "client", "queued" or "sent"

Away == {b \in Bufs : owner[b] # "client"}

Init == owner = [b \in Bufs |-> "client"]

Queue(b) == /\ owner[b] = "client"
            /\ Cardinality(Away) < MaxPending
            /\ owner' = [owner EXCEPT ![b] = "queued"]

Send(b) == /\ owner[b] = "queued"
           /\ owner' = [owner EXCEPT ![b] = "sent"]

Return(b) == /\ owner[b] = "sent"
             /\ owner' = [owner EXCEPT ![b] = "client"]

Next == \E b \in Bufs : Queue(b) \/ Send(b) \/ Return(b)

Spec == Init /\ [][Next]_owner
=============================================================================
