---------------------- MODULE MCGenSwMboxRegistry ----------------------
(* Instances of GenSwMboxRegistry: more pages than the table has room for. *)
EXTENDS GenSwMboxRegistry
=============================================================================
