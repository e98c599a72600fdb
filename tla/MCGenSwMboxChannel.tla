----------------------- MODULE MCGenSwMboxChannel -----------------------
(* Instances of GenSwMboxChannel: one sending task on each side, the       *)
(* master's on channel 0 and the remote's on channel 1 (Duplex), or on one *)
(* channel (Shared), or a single sending task of the master (Simplex).     *)
EXTENDS GenSwMboxChannel, TLC

CONSTANTS m1, r1

Duplex     == {m1, r1}
DuplexSide == (m1 :> "master") @@ (r1 :> "remote")
DuplexChan == (m1 :> 0) @@ (r1 :> 1)
SharedChan == (m1 :> 0) @@ (r1 :> 0)

Simplex     == {m1}
SimplexSide == (m1 :> "master")
SimplexChan == (m1 :> 1)
=============================================================================
