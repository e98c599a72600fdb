---------------------------- MODULE MCNetSwitch ----------------------------
(* An ENET remote port e, a virtio-net port v and a software port w, into  *)
(* which a second task, w2, may push packets.                             *)
EXTENDS NetSwitch
CONSTANTS e, v, w, w2, macV, macW, grp

OneTask  == <<>>
TwoTasks == w2 :> w

LocalsVW == <<v, w>>
KindAll  == (e :> "enet") @@ (v :> "vnet") @@ (w :> "soft")
MacAll   == (e :> macV) @@ (v :> macV) @@ (w :> macW)
FdbW     == (e :> {}) @@ (v :> {}) @@ (w :> {grp})

Packets(i, j, k) == [s \in Sources |-> IF s = e THEN i ELSE IF s = v THEN j ELSE k]
LoadOf(b, d, c)  == [budget |-> b, dsts |-> d, changes |-> c]

(* A frame of the network while ports change; two packets of one source;  *)
(* packets of the network or of the virtio-net guest and one of software. *)
AllLoads ==
    { LoadOf(Packets(1, 0, 0), Addrs, 2), LoadOf(Packets(0, 0, 2), Addrs, 0),
      LoadOf(Packets(1, 0, 1), Addrs, 0), LoadOf(Packets(0, 1, 1), Addrs, 0) }
SoftLoad      == { LoadOf(Packets(0, 0, 1), {macV}, 0) }
BroadcastLoad == { LoadOf(Packets(1, 0, 0), {Broadcast}, 0) }
=============================================================================
