----------------------------- MODULE RpmsgPerf -----------------------------
(* The RPMsg bandwidth measurement: apps/rpmsg_perf on a core, and the     *)
(* tool of Linux, tools/rpmsg_perf, that orders one test after another.    *)
(* The core's receive task counts the bytes of Linux's packets between two *)
(* commands, or has its send task, which has the higher priority and spins *)
(* for buffers, send packets until a time has passed.  The two tasks share *)
(* args without a lock.  rpmsg-lite and the driver of Linux are external:  *)
(* two queues that keep the order and lose nothing.  The tool refuses a    *)
(* packet that does not fit a buffer, so a packet is one message.          *)
EXTENDS Integers, Sequences

CONSTANTS
    CountWidth, \* counters are modulo CountWidth (2^32 in the code; bound)
    TickWidth,  \* ticks are modulo TickWidth (2^32 in the code; bound)
    Buffers,    \* buffers in each direction (bound)
    Scripts     \* the tests Linux orders in a behaviour (bound), see below

(* A test is a record: whether Linux is the sender, whether the core is to *)
(* use the calls without a copy, the size of a packet, how many packets    *)
(* Linux sends or how many ticks the core sends, and whether the tool is   *)
(* killed before it ends the test.  A script is a record: the tests, and   *)
(* the tick count at which the core starts.                                *)

Tests ==
    [sender : BOOLEAN, no_copy : BOOLEAN, packet_size : 1..(CountWidth - 1),
     length : 0..(TickWidth - 1), killed : BOOLEAN]

PerfAssumption ==
    /\ Buffers \in Nat \ {0} /\ TickWidth \in Nat \ {0} /\ CountWidth \in Nat \ {0, 1}
    /\ \A s \in Scripts : s.tick \in 0..(TickWidth - 1) /\ s.tests \in Seq(Tests)

VARIABLES
    todo, test, linux, sent, ended,    \* Linux: tests to come, its test,
                                            \* what it does, what it counted
    begun, fault,           \* steps of rpmsg_init_task() to do; why it stopped
    recv, p_in, release_buf,    \* the receive task, its message
    no_copy, no_copy_old, packet_size, rx_len,
    send, signal, args,     \* the send task, send_packet_sig, what they share
    inbox, loaned, outbox,  \* messages to the core, buffers it holds, to Linux
    tick,                   \* the tick count
    made, wrapped           \* history, see below

(* History.  made: packets the send task sent in its test.  wrapped: the   *)
(* ticks, or the end of a test, passed the wrap.                           *)
linuxVars == <<todo, test, linux, sent, ended>>
recvVars  == <<recv, p_in, release_buf, no_copy, no_copy_old, packet_size, rx_len>>
sendVars  == <<send, signal, args, made, wrapped>>
vars == <<linuxVars, begun, fault, recvVars, sendVars, inbox, loaned, outbox, tick>>

NoTest == [sender |-> FALSE, no_copy |-> FALSE, packet_size |-> 1, length |-> 0, killed |-> FALSE]
Msg(preamble, t, count) == [preamble |-> preamble, test |-> t, packet_cnt |-> count]
NoMsg  == Msg("none", NoTest, 0)
NoArgs == [end_ticks |-> 0, send_packet_cnt |-> 0]

-----------------------------------------------------------------------------
(* Linux.  It may send from the announcement of the endpoint on.           *)

ToCore(m) ==
    /\ Len(inbox) + loaned < Buffers
    /\ inbox' = Append(inbox, m)
CoreRest == UNCHANGED <<begun, fault, recvVars, sendVars, loaned, tick>>

StartTest ==
    /\ linux = "idle" /\ todo # <<>> /\ "endpoint" \notin begun
    /\ test' = Head(todo) /\ todo' = Tail(todo)
    /\ ToCore(Msg(IF test'.sender THEN "SENDER_START" ELSE "RECEIVER_START", test', 0))
    /\ linux' = IF test'.sender THEN "sending" ELSE "receiving"
    /\ sent' = 0 /\ ended' = FALSE

SendPackets ==
    /\ linux = "sending" /\ sent < test.length
    /\ ToCore(Msg("data", test, 0))
    /\ sent' = sent + 1 /\ UNCHANGED <<todo, test, linux, ended>>

EndSending ==
    /\ linux = "sending" /\ sent = test.length
    /\ IF test.killed THEN linux' = "idle" /\ UNCHANGED inbox
                      ELSE linux' = "acked" /\ ToCore(Msg("SENDER_END", test, 0))
    /\ UNCHANGED <<todo, test, sent, ended>>

(* The tool sleeps by a clock of its own, and then does not wait for the   *)
(* core's end of the test.                                                 *)
EndReceiving ==
    /\ linux = "receiving"
    /\ IF test.killed THEN linux' = "idle" /\ UNCHANGED inbox
       ELSE /\ linux' = IF ended THEN "idle" ELSE "ended"
            /\ ToCore(Msg("RECEIVER_END_ACK", test, 0))
    /\ UNCHANGED <<todo, test, sent, ended>>

Tool == /\ fault = "none"
        /\ StartTest \/ SendPackets \/ EndSending \/ EndReceiving
        /\ UNCHANGED outbox /\ CoreRest

LinuxReceives ==
    /\ outbox # <<>> /\ outbox' = Tail(outbox)
    /\ ended' = (ended \/ Head(outbox).preamble = "RECEIVER_END")
    /\ linux' = IF \/ linux = "acked" /\ Head(outbox).preamble = "SENDER_END_ACK"
                   \/ linux = "ended" /\ ended'
                THEN "idle" ELSE linux
    /\ UNCHANGED <<todo, test, sent, inbox>> /\ CoreRest

-----------------------------------------------------------------------------
(* rpmsg_init_task() stops at an assertion if one of its steps fails.  The *)
(* receive task, of the same priority, may run before the last one.        *)

Before(step) == CASE step = "endpoint" -> {} [] step = "recv" -> {"endpoint"} [] OTHER -> {"endpoint", "recv"}

InitTask ==
    /\ fault = "none"
    /\ \E step \in begun :
        /\ Before(step) \cap begun = {}
        /\ \/ begun' = begun \ {step} /\ UNCHANGED fault
           \/ fault' = "init" /\ UNCHANGED begun
    /\ UNCHANGED <<linuxVars, recvVars, sendVars, inbox, loaned, outbox, tick>>

(* A slip: both tasks have the same priority.                              *)
RecvRunsAnyway == fault = "none" /\ "recv" \notin begun
(* The receive task runs while the send task waits, or is not there yet.   *)
RecvRuns ==
    /\ fault = "none" /\ "recv" \notin begun
    /\ "send" \in begun \/ (send = "wait" /\ signal = 0)
SendRuns == fault = "none" /\ "send" \notin begun

(* APP_SendPacket() spins until there is a buffer.                         *)
APP_SendPacket(m) ==
    /\ Len(outbox) < Buffers
    /\ outbox' = Append(outbox, m)

-----------------------------------------------------------------------------
(* rpmsg_recv_task().  Without a copy the buffer stays with the task until *)
(* it has handled the message.                                             *)

Receive ==
    /\ RecvRuns /\ recv = "wait" /\ inbox # <<>>
    /\ p_in' = Head(inbox) /\ inbox' = Tail(inbox)
    /\ recv' = "handle"
    /\ release_buf' = no_copy
    /\ loaned' = IF no_copy THEN loaned + 1 ELSE loaned
    /\ UNCHANGED <<linuxVars, begun, fault, no_copy, no_copy_old, packet_size, rx_len, sendVars, outbox, tick>>

Handles(preamble) ==
    /\ RecvRuns /\ recv = "handle" /\ p_in.preamble = preamble
    /\ recv' = "release" /\ UNCHANGED <<p_in, release_buf>>

(* A slip: what a test without an end left is counted with the next.       *)
RxLenKept(len) == len
(* What rx_len begins a test with.                                         *)
RxLenAtStart(len) == 0

SenderStart ==
    /\ Handles("SENDER_START")
    /\ no_copy_old' = no_copy /\ no_copy' = p_in.test.no_copy
    /\ packet_size' = p_in.test.packet_size
    /\ rx_len' = RxLenAtStart(rx_len)
    /\ UNCHANGED <<fault, sendVars, outbox>>

Data ==
    /\ Handles("data")
    /\ rx_len' = (rx_len + p_in.test.packet_size) % CountWidth
    /\ UNCHANGED <<fault, no_copy, no_copy_old, packet_size, sendVars, outbox>>

SenderEnd ==
    /\ Handles("SENDER_END")
    /\ APP_SendPacket(Msg("SENDER_END_ACK", NoTest, rx_len \div packet_size))
    /\ rx_len' = 0 /\ no_copy' = no_copy_old
    /\ UNCHANGED <<fault, no_copy_old, packet_size, sendVars>>

ReceiverStart ==
    /\ Handles("RECEIVER_START")
    /\ args' = [end_ticks |-> (tick + p_in.test.length) % TickWidth, send_packet_cnt |-> 0]
    /\ no_copy' = p_in.test.no_copy
    /\ signal' = 1
    /\ fault' = IF signal = 1 THEN "assert" ELSE "none"
    /\ wrapped' = (wrapped \/ args'.end_ticks < tick)
    /\ UNCHANGED <<no_copy_old, packet_size, rx_len, send, made, outbox>>

(* The loss is only printed.                                               *)
ReceiverEndAck ==
    /\ Handles("RECEIVER_END_ACK")
    /\ UNCHANGED <<fault, no_copy, no_copy_old, packet_size, rx_len, sendVars, outbox>>

Handle ==
    /\ SenderStart \/ Data \/ SenderEnd \/ ReceiverStart \/ ReceiverEndAck
    /\ UNCHANGED <<linuxVars, begun, inbox, loaned, tick>>

Release ==
    /\ RecvRuns /\ recv = "release" /\ recv' = "wait" /\ p_in' = NoMsg
    /\ loaned' = IF release_buf THEN loaned - 1 ELSE loaned
    /\ UNCHANGED <<linuxVars, begun, fault, release_buf, no_copy, no_copy_old, packet_size, rx_len,
                   sendVars, inbox, outbox, tick>>

RecvTask == Receive \/ Handle \/ Release

-----------------------------------------------------------------------------
(* rpmsg_send_task(), which always sends a packet before it looks at the   *)
(* time.                                                                   *)

SendRest == UNCHANGED <<linuxVars, begun, fault, recvVars, inbox, loaned, tick, wrapped>>

TakeSignal ==
    /\ SendRuns /\ send = "wait" /\ signal = 1
    /\ signal' = 0 /\ made' = 0 /\ send' = "packet"
    /\ UNCHANGED <<args, outbox>> /\ SendRest

SendPacket ==
    /\ SendRuns /\ send = "packet"
    /\ APP_SendPacket(Msg("data", NoTest, 0))
    /\ made' = (made + 1) % CountWidth /\ send' = "check"
    /\ UNCHANGED <<signal, args>> /\ SendRest

CheckTime ==
    /\ SendRuns /\ send = "check"
    /\ args' = [args EXCEPT !.send_packet_cnt = (@ + 1) % CountWidth]
    /\ send' = IF tick >= args.end_ticks THEN "end" ELSE "packet"
    /\ UNCHANGED <<signal, made, outbox>> /\ SendRest

SendEnd ==
    /\ SendRuns /\ send = "end"
    /\ APP_SendPacket(Msg("RECEIVER_END", NoTest, args.send_packet_cnt))
    /\ send' = "wait"
    /\ UNCHANGED <<signal, args, made>> /\ SendRest

SendTask == TakeSignal \/ SendPacket \/ CheckTime \/ SendEnd

(* The ticks matter while the send task looks at them.                     *)
Tick ==
    /\ fault = "none" /\ send \in {"packet", "check"}
    /\ tick' = (tick + 1) % TickWidth
    /\ wrapped' = (wrapped \/ tick' = 0)
    /\ UNCHANGED <<linuxVars, begun, fault, recvVars, send, signal, args, made, inbox, loaned, outbox>>

-----------------------------------------------------------------------------
InitWith(s) ==
    /\ todo = s.tests /\ test = NoTest /\ linux = "idle" /\ sent = 0 /\ ended = FALSE
    /\ begun = {"endpoint", "recv", "send"} /\ fault = "none"
    /\ recv = "wait" /\ p_in = NoMsg /\ release_buf = FALSE
    /\ no_copy = TRUE /\ no_copy_old = TRUE /\ packet_size = 1 /\ rx_len = 0
    /\ send = "wait" /\ signal = 0 /\ args = NoArgs
    /\ inbox = <<>> /\ loaned = 0 /\ outbox = <<>>
    /\ tick = s.tick
    /\ made = 0 /\ wrapped = FALSE

Init == \E s \in Scripts : InitWith(s)

Next == Tool \/ LinuxReceives \/ InitTask \/ RecvTask \/ SendTask \/ Tick

Fairness ==
    /\ WF_vars(Tool) /\ WF_vars(LinuxReceives) /\ WF_vars(InitTask)
    /\ WF_vars(RecvTask) /\ WF_vars(SendTask) /\ WF_vars(Tick)

Spec == Init /\ [][Next]_vars /\ Fairness
-----------------------------------------------------------------------------
(* The state keeps its shape: at most one buffer is lent to the receive    *)
(* task.                                                                   *)
TypeOK ==
    /\ linux \in {"idle", "sending", "acked", "receiving", "ended"} /\ ended \in BOOLEAN
    /\ fault \in {"none", "init", "assert"}
    /\ recv \in {"wait", "handle", "release"} /\ send \in {"wait", "packet", "check", "end"}
    /\ no_copy \in BOOLEAN /\ no_copy_old \in BOOLEAN /\ release_buf \in BOOLEAN
    /\ rx_len \in 0..(CountWidth - 1) /\ packet_size \in 1..(CountWidth - 1)
    /\ signal \in {0, 1} /\ tick \in 0..(TickWidth - 1) /\ args.end_ticks \in 0..(TickWidth - 1)
    /\ loaned \in {0, 1} /\ Len(inbox) + loaned <= Buffers /\ Len(outbox) <= Buffers

(* The semaphore is never given twice, unless two tests come before the    *)
(* send task is created.                                                   *)
NoFault == fault = "assert" => "send" \in begun

(* The count Linux is told is that of the packets it sent in the test, if  *)
(* their bytes do not pass the wrap; the one the core tells, and compares  *)
(* with what Linux received, is that of the packets of its own test,       *)
(* though args is not locked.                                              *)
CountsAgree ==
    /\ \A k \in DOMAIN outbox :
        outbox[k].preamble = "SENDER_END_ACK" =>
            outbox[k].packet_cnt = sent \/ sent * test.packet_size >= CountWidth
    /\ send = "end" \/ (RecvRuns /\ recv = "handle" /\ p_in.preamble = "RECEIVER_END_ACK") =>
            args.send_packet_cnt = made

(* Every test that is ordered comes to its end, and the core is ready for  *)
(* the next, unless the core could not start or the ticks wrapped.         *)
TestsOver ==
    \/ fault # "none" \/ wrapped
    \/ todo = <<>> /\ linux = "idle" /\ inbox = <<>> /\ recv = "wait" /\ send = "wait" /\ signal = 0
TestsEnd == <>[]TestsOver
=============================================================================
