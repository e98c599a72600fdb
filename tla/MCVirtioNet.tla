---------------------------- MODULE MCVirtioNet ----------------------------
(* The loads of the backend: a transmitted or a control buffer beside a    *)
(* received packet; two packets one way, which reach CoalCnt; probes that  *)
(* give up, removals and new probes with a packet in flight either way.    *)
EXTENDS VirtioNet

Posts(r, t, c) == [q \in Vqs |-> CASE q = "rx" -> r [] q = "tx" -> t [] OTHER -> c]
LoadOf(p, n, probing, quits, acks) ==
    [posts |-> p, packets |-> n, probes |-> probing, gives_up |-> quits, posts_ack |-> acks]

AllLoads ==
    { LoadOf(Posts(1, 1, 0), 1, 1, FALSE, TRUE), LoadOf(Posts(1, 0, 1), 1, 1, FALSE, FALSE),
      LoadOf(Posts(0, 2, 0), 0, 1, FALSE, TRUE), LoadOf(Posts(2, 0, 0), 2, 1, FALSE, TRUE),
      LoadOf(Posts(0, 1, 0), 0, 2, TRUE, TRUE), LoadOf(Posts(1, 0, 0), 1, 2, FALSE, FALSE) }
=============================================================================
