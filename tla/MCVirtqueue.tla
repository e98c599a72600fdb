--------------------------- MODULE MCVirtqueue ---------------------------
(* Instances of Virtqueue: the transmit queues wait for notifications and  *)
(* take one buffer per packet, the receive queue polls and takes up to two.*)
EXTENDS Virtqueue

Tx(e) == [use_event_idx |-> e, polls |-> FALSE, batches |-> {1}]
Rx(e) == [use_event_idx |-> e, polls |-> TRUE, batches |-> {1, 2}]

AllQueues  == {Tx(e) : e \in BOOLEAN} \cup {Rx(e) : e \in BOOLEAN}
EventQueue == {Tx(TRUE)}
=============================================================================
