---------------------------- MODULE MCRtLatency ----------------------------
EXTENDS RtLatency

(* A TPM without load under software slow enough to arm an alarm too late; *)
(* a GPT with load under software that keeps ahead of the load alarm.      *)
MCSettings == {[gpt |-> FALSE, load |-> FALSE, delay |-> 2],
               [gpt |-> TRUE,  load |-> TRUE,  delay |-> 1]}
=============================================================================
