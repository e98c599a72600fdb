------------------------- MODULE GenSwMboxChannel -------------------------
(***************************************************************************)
(* The data plane of the generic software mailbox                          *)
(* (src/libs/gen_sw_mbox/gen_sw_mbox.c): two cores that run the same code  *)
(* exchange 32-bit messages over the channels of one page of shared        *)
(* memory.  The tx_status/tx_ch words of one side are the rx_status/rx_ch  *)
(* words of the other (GEN_SW_MBOX_MASTER swaps the two structures), so    *)
(* the model names every word by the side that transmits on it.            *)
(*                                                                         *)
(* The two sides are two processors: their accesses to the shared words    *)
(* interleave one by one.  On one side the interrupt handler preempts the  *)
(* tasks and runs to completion, the tasks preempt each other anywhere.    *)
(***************************************************************************)
EXTENDS Integers

CONSTANTS
  MaxCh,      \* MAX_CH, the channels of the page
  Ack,        \* the channels whose bit is set in ch_ack_flags
  Sender,     \* the tasks that call gen_sw_mbox_sendmsg()
  SideOf,     \* the side a task runs on
  ChanOf,     \* the channel it sends on
  MaxMsg,     \* bound: messages offered per channel and direction
  MaxAttach   \* bound: gen_sw_mbox_register() calls per side

Side    == {"master", "remote"}
Channel == 0 .. MaxCh - 1
Peer(s) == IF s = "master" THEN "remote" ELSE "master"

ASSUME ChannelAssumption ==
  /\ MaxCh \in Nat \ {0}
  /\ Ack \subseteq Channel
  /\ SideOf \in [Sender -> Side]
  /\ ChanOf \in [Sender -> Channel]
  /\ MaxMsg \in Nat
  /\ MaxAttach \in Nat

VARIABLES
  status,   \* status[s][c]: tx_status of s = rx_status of its peer
  data,     \* data[s][c]: tx_ch of s, a message number (0: never written)
  pend,     \* pend[s]: the interrupt of s is pending at the GIC
  att,      \* att[s]: has s registered the mailbox?
  zero,     \* zero[s]: the next channel gen_sw_mbox_register() clears
  attaches, \* attaches[s]: registrations of s so far (bounded)
  cb,       \* cb[s][c]: chan[c].recv_cb # NULL
  ref,      \* ref[s]: ref_cnt
  ipc,      \* ipc[s], ich[s], imsg[s]: point reached, i and msg of the handler
  ich,
  imsg,
  spc,      \* spc[t], smsg[t], sblk[t]: point reached, msg and block of a sender
  smsg,
  sblk,
  offered,  \* history: messages offered per side and channel
  got,      \* history: got[s][c], the last message recv_cb of s was given
  given     \* history: given[s][c], how many it was given

shared == <<status, data, pend>>
handler == <<ipc, ich, imsg>>
sender  == <<spc, smsg, sblk, offered>>
delivery == <<got, given>>
control == <<att, zero, attaches>>
vars == <<status, data, pend, att, zero, attaches, cb, ref, ipc, ich, imsg,
          spc, smsg, sblk, offered, got, given>>

Status  == {"ready", "busy", "done"}      \* S_READY, S_BUSY, S_DONE
Message == 1 .. MaxMsg
IPc == {"idle", "ack", "take", "done", "doneirq", "cb", "fin", "finirq"}
SPc == {"idle", "poll", "write", "busy", "kick", "put"}

TypeOK ==
  /\ status   \in [Side -> [Channel -> Status]]
  /\ data     \in [Side -> [Channel -> 0 .. MaxMsg]]
  /\ pend     \in [Side -> BOOLEAN]
  /\ att      \in [Side -> {"down", "clear", "cleartx", "up"}]
  /\ zero     \in [Side -> 0 .. MaxCh]
  /\ \A s \in Side : att[s] = "cleartx" => zero[s] < MaxCh
  /\ attaches \in [Side -> 0 .. MaxAttach]
  /\ cb       \in [Side -> [Channel -> BOOLEAN]]
  /\ ref      \in [Side -> Int]
  /\ ipc      \in [Side -> IPc]
  /\ ich      \in [Side -> Channel]
  /\ imsg     \in [Side -> 0 .. MaxMsg]
  /\ spc      \in [Sender -> SPc]
  /\ smsg     \in [Sender -> 0 .. MaxMsg]
  /\ sblk     \in [Sender -> BOOLEAN]
  /\ offered  \in [Side -> [Channel -> 0 .. MaxMsg]]
  /\ got      \in [Side -> [Channel -> 0 .. MaxMsg]]
  /\ given    \in [Side -> [Channel -> Nat]]

-----------------------------------------------------------------------------
(* Helpers: one write to a shared word, the interrupt of the other side.   *)

SetStatus(s, c, v) == status' = [status EXCEPT ![s][c] = v]
SetPendingIRQ(s)   == pend' = [pend EXCEPT ![s] = TRUE]
TasksRun(s)        == ipc[s] = "idle"      \* no handler preempts the tasks

-----------------------------------------------------------------------------
(* gen_sw_mbox_register(): clear both status words of every channel, then  *)
(* enable the interrupt.  The other side runs meanwhile.                   *)

Attach(s) ==
  /\ att[s] = "down"
  /\ attaches[s] < MaxAttach
  /\ att'      = [att EXCEPT ![s] = "clear"]
  /\ zero'     = [zero EXCEPT ![s] = 0]
  /\ attaches' = [attaches EXCEPT ![s] = @ + 1]
  /\ UNCHANGED <<shared, cb, ref, handler, sender, delivery>>

ClearRx(s) ==
  /\ att[s] = "clear"
  /\ zero[s] < MaxCh
  /\ SetStatus(Peer(s), zero[s], "ready")
  /\ att' = [att EXCEPT ![s] = "cleartx"]
  /\ UNCHANGED <<data, pend, zero, attaches, cb, ref, handler, sender, delivery>>

ClearTx(s) ==
  /\ att[s] = "cleartx"
  /\ SetStatus(s, zero[s], "ready")
  /\ cb'   = [cb EXCEPT ![s][zero[s]] = FALSE]
  /\ zero' = [zero EXCEPT ![s] = @ + 1]
  /\ att'  = [att EXCEPT ![s] = "clear"]
  /\ UNCHANGED <<data, pend, attaches, ref, handler, sender, delivery>>

ClearChannel(s) == ClearRx(s) \/ ClearTx(s)

EnableIRQ(s) ==
  /\ att[s] = "clear"
  /\ zero[s] = MaxCh
  /\ att' = [att EXCEPT ![s] = "up"]
  /\ ref' = [ref EXCEPT ![s] = 0]
  /\ UNCHANGED <<shared, zero, attaches, cb, handler, sender, delivery>>

(* Slip: the reference count is not looked at.                             *)
DetachInUse(s) ==
  /\ TasksRun(s)
  /\ att[s] = "up"
  /\ att' = [att EXCEPT ![s] = "down"]
  /\ UNCHANGED <<shared, zero, attaches, cb, ref, handler, sender, delivery>>

(* gen_sw_mbox_unregister(): refused while references are held.            *)
Detach(s) ==
  /\ TasksRun(s)
  /\ att[s] = "up"
  /\ ref[s] <= 0
  /\ att' = [att EXCEPT ![s] = "down"]
  /\ UNCHANGED <<shared, zero, attaches, cb, ref, handler, sender, delivery>>

(* Each registered callback keeps a reference.                             *)
RegisterCallback(s, c) ==
  /\ TasksRun(s)
  /\ att[s] = "up"
  /\ ~cb[s][c]
  /\ cb'  = [cb EXCEPT ![s][c] = TRUE]
  /\ ref' = [ref EXCEPT ![s] = @ + 1]
  /\ UNCHANGED <<shared, control, handler, sender, delivery>>

UnregisterCallback(s, c) ==
  /\ TasksRun(s)
  /\ att[s] = "up"
  /\ cb[s][c]
  /\ cb'  = [cb EXCEPT ![s][c] = FALSE]
  /\ ref' = [ref EXCEPT ![s] = @ - 1]
  /\ UNCHANGED <<shared, control, handler, sender, delivery>>

-----------------------------------------------------------------------------
(* gen_sw_mbox_handler(): one pass over the channels per interrupt.  The   *)
(* test and the write of "ack" are one step: between them only the peer's  *)
(* handler may write the word, and the write covers whatever it stored.    *)

EnterHandler(s) ==
  /\ att[s] = "up"
  /\ ipc[s] = "idle"
  /\ pend[s]
  /\ pend' = [pend EXCEPT ![s] = FALSE]
  /\ ipc'  = [ipc EXCEPT ![s] = "ack"]
  /\ ich'  = [ich EXCEPT ![s] = 0]
  /\ UNCHANGED <<status, data, control, cb, ref, imsg, sender, delivery>>

(* Slip: tx_status "done" is left for the sender to clear.                 *)
HandleTxNothing(s) ==
  /\ ipc[s] = "ack"
  /\ ipc' = [ipc EXCEPT ![s] = "take"]
  /\ UNCHANGED <<shared, control, cb, ref, ich, imsg, sender, delivery>>

HandleTxDone(s) ==
  /\ ipc[s] = "ack"
  /\ IF status[s][ich[s]] = "done"
       THEN SetStatus(s, ich[s], "ready")
       ELSE UNCHANGED status
  /\ ipc' = [ipc EXCEPT ![s] = "take"]
  /\ UNCHANGED <<data, pend, control, cb, ref, ich, imsg, sender, delivery>>

(* Slip: the loop runs one channel too far.                                *)
NextChannelTooFar(s) ==
  IF ich[s] = MaxCh
    THEN /\ ipc' = [ipc EXCEPT ![s] = "idle"]
         /\ UNCHANGED ich
    ELSE /\ ipc' = [ipc EXCEPT ![s] = "ack"]
         /\ ich' = [ich EXCEPT ![s] = @ + 1]

NextChannel(s) ==
  IF ich[s] = MaxCh - 1
    THEN /\ ipc' = [ipc EXCEPT ![s] = "idle"]
         /\ UNCHANGED ich
    ELSE /\ ipc' = [ipc EXCEPT ![s] = "ack"]
         /\ ich' = [ich EXCEPT ![s] = @ + 1]

SkipIdle(s) ==
  /\ ipc[s] = "take"
  /\ status[Peer(s)][ich[s]] # "busy"
  /\ NextChannel(s)
  /\ UNCHANGED <<shared, control, cb, ref, imsg, sender, delivery>>

ReadMessage(s) ==
  /\ ipc[s] = "take"
  /\ status[Peer(s)][ich[s]] = "busy"
  /\ imsg' = [imsg EXCEPT ![s] = data[Peer(s)][ich[s]]]
  /\ ipc'  = [ipc EXCEPT ![s] = "done"]
  /\ UNCHANGED <<shared, control, cb, ref, ich, sender, delivery>>

MarkDone(s) ==
  /\ ipc[s] = "done"
  /\ SetStatus(Peer(s), ich[s], "done")
  /\ ipc' = [ipc EXCEPT ![s] = "doneirq"]
  /\ UNCHANGED <<data, pend, control, cb, ref, ich, imsg, sender, delivery>>

NotifyDone(s) ==
  /\ ipc[s] = "doneirq"
  /\ SetPendingIRQ(Peer(s))
  /\ ipc' = [ipc EXCEPT ![s] = "cb"]
  /\ UNCHANGED <<status, data, control, cb, ref, ich, imsg, sender, delivery>>

CallRecvCb(s) ==
  /\ ipc[s] = "cb"
  /\ IF cb[s][ich[s]]
       THEN /\ got'   = [got EXCEPT ![s][ich[s]] = imsg[s]]
            /\ given' = [given EXCEPT ![s][ich[s]] = @ + 1]
       ELSE UNCHANGED delivery
  /\ ipc' = [ipc EXCEPT ![s] = "fin"]
  /\ UNCHANGED <<shared, control, cb, ref, ich, imsg, sender>>

FinishWithAck(s) ==
  /\ ipc[s] = "fin"
  /\ ich[s] \in Ack
  /\ SetStatus(Peer(s), ich[s], "done")
  /\ ipc' = [ipc EXCEPT ![s] = "finirq"]
  /\ UNCHANGED <<data, pend, control, cb, ref, ich, imsg, sender, delivery>>

(* Slip: no interrupt for the second "done" of a channel.                  *)
NotifyAckSilent(s) ==
  /\ ipc[s] = "finirq"
  /\ NextChannel(s)
  /\ UNCHANGED <<shared, control, cb, ref, imsg, sender, delivery>>

NotifyAck(s) ==
  /\ ipc[s] = "finirq"
  /\ SetPendingIRQ(Peer(s))
  /\ NextChannel(s)
  /\ UNCHANGED <<status, data, control, cb, ref, imsg, sender, delivery>>

FinishNoAck(s) ==
  /\ ipc[s] = "fin"
  /\ ich[s] \notin Ack
  /\ SetStatus(Peer(s), ich[s], "ready")
  /\ NextChannel(s)
  /\ UNCHANGED <<data, pend, control, cb, ref, imsg, sender, delivery>>

Handler(s) ==
  \/ EnterHandler(s) \/ HandleTxDone(s) \/ SkipIdle(s) \/ ReadMessage(s)
  \/ MarkDone(s) \/ NotifyDone(s) \/ CallRecvCb(s)
  \/ FinishWithAck(s) \/ NotifyAck(s) \/ FinishNoAck(s)

-----------------------------------------------------------------------------
(* gen_sw_mbox_sendmsg() by task t with the next message of its channel.   *)

SendStart(t, block) ==
  LET s == SideOf[t]
      c == ChanOf[t]
  IN  /\ TasksRun(s)
      /\ att[s] = "up"
      /\ spc[t] = "idle"
      /\ offered[s][c] < MaxMsg
      /\ offered' = [offered EXCEPT ![s][c] = @ + 1]
      /\ smsg'    = [smsg EXCEPT ![t] = offered[s][c] + 1]
      /\ sblk'    = [sblk EXCEPT ![t] = block]
      /\ spc'     = [spc EXCEPT ![t] = "poll"]
      /\ ref'     = [ref EXCEPT ![s] = @ + 1]
      /\ UNCHANGED <<shared, control, cb, handler, delivery>>

SenderAt(t, pc) == spc[t] = pc /\ TasksRun(SideOf[t])
SenderTo(t, pc) ==
  /\ spc' = [spc EXCEPT ![t] = pc]
  /\ UNCHANGED <<control, cb, handler, smsg, sblk, offered, delivery>>

(* Slip: the channel is claimed by marking it busy before the data.        *)
PollReadyClaims(t) ==
  /\ SenderAt(t, "poll")
  /\ status[SideOf[t]][ChanOf[t]] = "ready"
  /\ SetStatus(SideOf[t], ChanOf[t], "busy")
  /\ SenderTo(t, "write")
  /\ UNCHANGED <<data, pend, ref>>

PollReady(t) ==
  /\ SenderAt(t, "poll")
  /\ status[SideOf[t]][ChanOf[t]] = "ready"
  /\ SenderTo(t, "write")
  /\ UNCHANGED <<shared, ref>>

(* Returns -2; the reference taken by SendStart is not given back.         *)
GiveUp(t) ==
  /\ SenderAt(t, "poll")
  /\ status[SideOf[t]][ChanOf[t]] # "ready"
  /\ ~sblk[t]
  /\ SenderTo(t, "idle")
  /\ UNCHANGED <<shared, ref>>

WriteData(t) ==
  /\ SenderAt(t, "write")
  /\ data' = [data EXCEPT ![SideOf[t]][ChanOf[t]] = smsg[t]]
  /\ SenderTo(t, "busy")
  /\ UNCHANGED <<status, pend, ref>>

WriteBusy(t) ==
  /\ SenderAt(t, "busy")
  /\ SetStatus(SideOf[t], ChanOf[t], "busy")
  /\ SenderTo(t, "kick")
  /\ UNCHANGED <<data, pend, ref>>

(* Slip: no interrupt while the peer's handler runs anyway.                *)
KickRemoteIfIdle(t) ==
  /\ SenderAt(t, "kick")
  /\ IF ipc[Peer(SideOf[t])] = "idle"
       THEN SetPendingIRQ(Peer(SideOf[t]))
       ELSE UNCHANGED pend
  /\ SenderTo(t, "put")
  /\ UNCHANGED <<status, data, ref>>

KickRemote(t) ==
  /\ SenderAt(t, "kick")
  /\ SetPendingIRQ(Peer(SideOf[t]))
  /\ SenderTo(t, "put")
  /\ UNCHANGED <<status, data, ref>>

PutRef(t) ==
  /\ SenderAt(t, "put")
  /\ ref' = [ref EXCEPT ![SideOf[t]] = @ - 1]
  /\ SenderTo(t, "idle")
  /\ UNCHANGED shared

SendStep(t) ==
  PollReady(t) \/ GiveUp(t) \/ WriteData(t) \/ WriteBusy(t)
    \/ KickRemote(t) \/ PutRef(t)

-----------------------------------------------------------------------------
Quiet ==
  /\ status   = [s \in Side |-> [c \in Channel |-> "ready"]]
  /\ data     = [s \in Side |-> [c \in Channel |-> 0]]
  /\ pend     = [s \in Side |-> FALSE]
  /\ zero     = [s \in Side |-> 0]
  /\ ipc      = [s \in Side |-> "idle"]
  /\ ich      = [s \in Side |-> 0]
  /\ imsg     = [s \in Side |-> 0]
  /\ spc      = [t \in Sender |-> "idle"]
  /\ smsg     = [t \in Sender |-> 0]
  /\ sblk     = [t \in Sender |-> FALSE]
  /\ offered  = [s \in Side |-> [c \in Channel |-> 0]]
  /\ got      = [s \in Side |-> [c \in Channel |-> 0]]
  /\ given    = [s \in Side |-> [c \in Channel |-> 0]]
  /\ attaches = [s \in Side |-> 0]

(* Neither side has registered the mailbox yet.                            *)
Init ==
  /\ Quiet
  /\ att = [s \in Side |-> "down"]
  /\ cb  = [s \in Side |-> [c \in Channel |-> FALSE]]
  /\ ref = [s \in Side |-> 0]

(* Both sides have registered it and all their callbacks, nothing sent.    *)
LinkedInit ==
  /\ Quiet
  /\ att = [s \in Side |-> "up"]
  /\ cb  = [s \in Side |-> [c \in Channel |-> TRUE]]
  /\ ref = [s \in Side |-> MaxCh]

Attachment(s) ==
  \/ Attach(s) \/ ClearChannel(s) \/ EnableIRQ(s) \/ Detach(s)
  \/ \E c \in Channel : RegisterCallback(s, c) \/ UnregisterCallback(s, c)

Traffic ==
  \/ \E s \in Side : Handler(s)
  \/ \E t \in Sender :
       SendStep(t) \/ \E block \in BOOLEAN : SendStart(t, block)

Next == Traffic \/ \E s \in Side : Attachment(s)

Spec       == Init /\ [][Next]_vars
LinkedSpec == LinkedInit /\ [][Traffic]_vars

(* The handler runs whenever its interrupt is pending, a task that is not  *)
(* blocked is scheduled, and a registration once begun runs to its end.    *)
Fairness ==
  /\ \A s \in Side   : WF_vars(Handler(s))
  /\ \A s \in Side   : WF_vars(ClearChannel(s) \/ EnableIRQ(s))
  /\ \A t \in Sender : WF_vars(SendStep(t))

FairSpec == Spec /\ Fairness

-----------------------------------------------------------------------------
(* Properties.                                                             *)

(* The handler of s has still to look at channel c in the current pass:    *)
(* "ack" and "take" of c are yet to come.                                  *)
StillToVisit(s, c, pcs) ==
  /\ ipc[s] # "idle"
  /\ ich[s] < c \/ (ich[s] = c /\ ipc[s] \in pcs)

(* A message is never left in a busy channel unnoticed: the receiver's     *)
(* interrupt is pending, or the sender is about to raise it, or the        *)
(* receiver's handler has not finished with that channel.                  *)
BusyNoticed(s, c) ==
  \/ pend[Peer(s)]
  \/ \E t \in Sender : SideOf[t] = s /\ ChanOf[t] = c /\ spc[t] = "kick"
  \/ StillToVisit(Peer(s), c, {"ack", "take", "done", "doneirq", "cb", "fin"})

NoLostInterrupt ==
  \A s \in Side, c \in Channel : status[s][c] = "busy" => BusyNoticed(s, c)

(* An acknowledged channel always gets back to ready: while it is done,    *)
(* the sender's interrupt is pending or about to be raised, or its handler *)
(* has still to turn the channel to ready.                                 *)
DoneNoticed(s, c) ==
  \/ pend[s]
  \/ ich[Peer(s)] = c /\ ipc[Peer(s)] \in {"doneirq", "finirq"}
  \/ StillToVisit(s, c, {"ack"})

NoLostAck ==
  \A s \in Side, c \in Channel : status[s][c] = "done" => DoneNoticed(s, c)

(* Each channel implements a lossy register: a callback is given messages  *)
(* in the order they were written, each at most once, none that was never  *)
(* written - whatever is overwritten or lost, over any number of           *)
(* registrations, as long as one task at a time sends on a channel.        *)
Link == Side \X Channel

Register == INSTANCE LossyChannel WITH
  posted   <- [l \in Link |-> data[l[1]][l[2]]],
  received <- [l \in Link |-> got[Peer(l[1])][l[2]]],
  count    <- [l \in Link |-> given[Peer(l[1])][l[2]]]

IsLossyRegister == Register!Spec

(* The invariant that refinement rests on: the data word of a channel *)
(* never runs behind the receiver, a busy channel and a sender about to    *)
(* mark it busy hold a message newer than any the receiver has read, and   *)
(* the receiver does not look while the sender writes.                     *)
OneSenderPerChannel ==
  \A t, u \in Sender :
    SideOf[t] = SideOf[u] /\ ChanOf[t] = ChanOf[u] => t = u

Holding(s, c) == ich[s] = c /\ ipc[s] \in {"done", "doneirq", "cb"}

Fresh(s, c) ==
  /\ got[Peer(s)][c] < data[s][c]
  /\ Holding(Peer(s), c) => imsg[Peer(s)] < data[s][c]

OrderAt(s, c) ==
  /\ got[Peer(s)][c] <= data[s][c]
  /\ data[s][c] <= offered[s][c]
  /\ Holding(Peer(s), c) =>
       got[Peer(s)][c] < imsg[Peer(s)] /\ imsg[Peer(s)] <= data[s][c]
  /\ status[s][c] = "busy" =>
       Fresh(s, c) \/ (ich[Peer(s)] = c /\ ipc[Peer(s)] = "done")
  /\ \A t \in Sender : SideOf[t] = s /\ ChanOf[t] = c =>
       /\ spc[t] \in {"poll", "write"} =>
            data[s][c] < smsg[t] /\ smsg[t] <= offered[s][c]
       /\ spc[t] = "busy" => Fresh(s, c)
       /\ spc[t] \in {"write", "busy"} => status[s][c] # "busy"

OrderInv == \A s \in Side, c \in Channel : OrderAt(s, c)

(* A reference is held for each sender inside a call and for each          *)
(* registered callback, so the mailbox is never freed under their feet.    *)
Referenced ==
  \A s \in Side :
    att[s] # "up" =>
      /\ ipc[s] = "idle"
      /\ \A t \in Sender : SideOf[t] = s => spc[t] = "idle"

(* A blocking send terminates: the poll loop ends, or the peer is gone.    *)
BlockingSendReturns ==
  \A t \in Sender :
    spc[t] = "poll" ~> (spc[t] # "poll" \/ att[Peer(SideOf[t])] # "up")

(* gen_sw_mbox.c:24-26 and :30-33 say that a status of 2 means "received   *)
(* by the peer" and that the status returns to 0 "after the transmission   *)
(* done".  So outside a call of sendmsg() a channel that is not busy holds *)
(* no message its receiver has not read.                                   *)
ClearedMeansReceived ==
  \A s \in Side, c \in Channel :
    ( /\ status[s][c] # "busy"
      /\ \A t \in Sender : SideOf[t] = s /\ ChanOf[t] = c => spc[t] = "idle" )
      => \/ got[Peer(s)][c] >= data[s][c]
         \/ /\ ich[Peer(s)] = c
            /\ ipc[Peer(s)] # "idle"
            /\ imsg[Peer(s)] >= data[s][c]
=============================================================================
