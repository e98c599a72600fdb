--------------------------- MODULE LossyChannel ---------------------------
(* What a channel of the generic software mailbox promises its two users:  *)
(* a register with one writer and one reader.  A posted message replaces   *)
(* the one before it, seen or not; the reader is given messages in the     *)
(* order they were posted, each at most once, none that was never posted.  *)
(* Messages are numbered in the order they are sent.                       *)
EXTENDS Naturals

CONSTANTS Link      \* the channels, one per direction

VARIABLES
  posted,     \* posted[l]: the last message written to the channel
  received,   \* received[l]: the last message its reader was given
  count       \* count[l]: how many it was given

Init ==
  /\ posted   = [l \in Link |-> 0]
  /\ received = [l \in Link |-> 0]
  /\ count    = [l \in Link |-> 0]

(* Some messages may be given up before they are written: numbers skip.    *)
Post(l) ==
  /\ posted'[l] > posted[l]
  /\ posted' = [posted EXCEPT ![l] = posted'[l]]
  /\ UNCHANGED <<received, count>>

Deliver(l) ==
  /\ received'[l] > received[l]
  /\ received'[l] <= posted[l]
  /\ received' = [received EXCEPT ![l] = received'[l]]
  /\ count'    = [count EXCEPT ![l] = @ + 1]
  /\ UNCHANGED posted

Next == \E l \in Link : Post(l) \/ Deliver(l)

Spec == Init /\ [][Next]_<<posted, received, count>>
=============================================================================
