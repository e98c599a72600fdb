----------------------------- MODULE VirtioNet -----------------------------
(* The virtio-net backend (virtio/devices/network.c) on the MMIO transport *)
(* (virtio/devices/mmio.c, core.c): the register writes the driver posts,  *)
(* handled in the mailbox interrupt; the transmit and control tasks; the   *)
(* receive callback, run by the switch's task; the timer that coalesces    *)
(* interrupts; and the kicks to the driver, over a mailbox channel.        *)
(*                                                                         *)
(* The backend's core runs one thing at a time, so an interrupt is one     *)
(* step between two steps of the tasks; the driver runs on another core.   *)
(* A ring is three counters here: Virtqueue has its slots, its wrap and    *)
(* the driver's kick suppression.  Event indices are negotiated.           *)
EXTENDS Integers, Sequences, FiniteSets

CONSTANTS
    TimerLen,       \* configTIMER_QUEUE_LENGTH
    CoalCnt,        \* VNET_COAL_CNT
    MaxBufs,        \* buffers one received packet takes, at most (bound)
    Loads           \* how much may happen in one behaviour (bound), see Load

Vqs   == {"rx", "tx", "ctrl"}       \* queues 0, 1 and 2, with who serves them
Tasks == Vqs \cup {"timer"}         \* everyone who interrupts the driver

(* A load: buffers the driver posts per queue and probe, packets from the  *)
(* switch, probes of the device, whether a probe may give up half way, and *)
(* whether the driver also posts its acknowledgements.                     *)
Load == [posts : [Vqs -> Nat], packets : Nat, probes : Nat,
         gives_up : BOOLEAN, posts_ack : BOOLEAN]

ASSUME NetAssumption ==
    /\ TimerLen \in Nat \ {0} /\ CoalCnt \in Nat \ {0} /\ MaxBufs \in Nat \ {0}
    /\ Loads \subseteq Load

VARIABLES
    live, run, link_on, conf_up,    \* vdev->state, ndev->status, link_on, conf
    vq,             \* vq[q]: struct virtqueue, cleared by a memset
    sig, note,      \* start semaphore and notification count of each task
    pc, got, cnt,   \* tasks; num_buffers; rx_cnt and tx_cnt, up to CoalCnt
    active, cmds,   \* the kick timer; commands queued to the timer daemon
    intStatus,      \* hdr->interrupt_status: only the VRING bit is ever set
    halted,         \* the core took a fault on a cleared queue
    ring,           \* ring[q]: the indices both sides share
    write,          \* the register write in progress; wd_status when none
    script, goal, seen, due, isr, napi, probes,             \* the driver
    rung,           \* a kick waits in the channel to the driver
    packets, load,  \* packets received so far; the load of this behaviour
    pulled, missed  \* history: a busy queue was cleared; a kick was lost

statusVars == <<live, run, link_on, conf_up>>
timerVars  == <<active, cmds>>
driverVars == <<script, goal, seen, due, isr, napi, probes, load>>
kickVars   == <<intStatus, rung, missed>>
taskVars   == <<pc, got, cnt, packets>>
vars == <<statusVars, vq, sig, note, taskVars, timerVars, kickVars, halted, ring,
          write, driverVars, pulled>>

None   == [reg |-> "none"]
Status(v) == [reg |-> "status", val |-> v]
Pfn(q, v) == [reg |-> "pfn", vq |-> q, val |-> v]
Notify(q) == [reg |-> "notify", vq |-> q]
Ack    == [reg |-> "ack"]

NoVq    == [enabled |-> FALSE, last_avail |-> 0, last_notified |-> 0]
NewRing == [avail |-> 0, used |-> 0, event |-> 0]

DriverOK(v) == (v \div 4) % 2 = 1       \* VIRTIO_CONFIG_S_DRIVER_OK

Goto(t, where) == pc' = [pc EXCEPT ![t] = where]

(* Where a task goes when it has done its work.                            *)
Home(t) == IF t \in {"rx", "timer"} THEN "idle" ELSE "get"

-----------------------------------------------------------------------------
(* Device status and queue set-up, in the mailbox interrupt.               *)

(* Whether the code that serves q is about to use its ring.                *)
Busy(q) ==
    IF q = "rx" THEN pc[q] \in {"get", "copy", "update", "notify"}
    ELSE (pc[q] = "start" => sig[q] > 0) /\ (pc[q] = "wait" => note[q])

(* A slip: the indices survive.                                            *)
ExitShallow(Q) ==
    /\ vq' = [q \in Vqs |-> IF q \in Q THEN [vq[q] EXCEPT !.enabled = FALSE] ELSE vq[q]]
    /\ pulled' = (pulled \/ \E q \in Q : Busy(q))
    /\ UNCHANGED sig

(* virtio_exit_vq: the queue is zeroed, whoever is using it.               *)
Exit(Q) ==
    /\ vq' = [q \in Vqs |-> IF q \in Q THEN NoVq ELSE vq[q]]
    /\ pulled' = (pulled \/ \E q \in Q : Busy(q))
    /\ UNCHANGED sig

InitVq(q) ==
    /\ vq' = [vq EXCEPT ![q].enabled = TRUE]
    /\ sig' = IF q = "rx" THEN sig ELSE [sig EXCEPT ![q] = @ + 1]
    /\ UNCHANGED pulled

(* The device's handler, which looks at the state before the core does.    *)
Start(v) == DriverOK(v) /\ ~live
Stop(v)  == v = 0 /\ live

HandleDevStatus(v) ==
    /\ conf_up' = (conf_up \/ v = 0)
    /\ run' = IF Start(v) THEN TRUE ELSE IF Stop(v) THEN FALSE ELSE run
    /\ link_on' = CASE Start(v) -> link_on \/ conf_up
                    [] Stop(v) -> FALSE
                    [] OTHER -> link_on \/ (v = 0 /\ run)

(* A slip: the core's state changes before the device's handler looks.     *)
HandleStatusLate(v) ==
    /\ conf_up' = (conf_up \/ v = 0) /\ UNCHANGED run
    /\ link_on' = (link_on \/ (v = 0 /\ run))
    /\ live' = IF live THEN v # 0 ELSE DriverOK(v)
    /\ IF live /\ v = 0 THEN Exit(Vqs) ELSE UNCHANGED <<vq, sig, pulled>>

HandleStatus(v) ==
    /\ HandleDevStatus(v)
    /\ IF ~live
       THEN live' = DriverOK(v) /\ UNCHANGED <<vq, sig, pulled>>
       ELSE /\ live' = (v # 0)
            /\ IF v = 0 THEN Exit(Vqs) ELSE UNCHANGED <<vq, sig, pulled>>

(* A slip: the control queue is even too.                                  *)
NotifyVqOdd(q) == note' = IF q # "tx" THEN note ELSE [note EXCEPT ![q] = TRUE]

(* notify_vq: the receive queue has no task.                               *)
NotifyVq(q) == note' = IF q = "rx" THEN note ELSE [note EXCEPT ![q] = TRUE]

(* virtio_mmio_mmio_callback: the write takes effect, wd_status is set.    *)
HandleWrite ==
    /\ write # None /\ write' = None
    /\ IF write.reg = "status"
       THEN HandleStatus(write.val)
       ELSE /\ UNCHANGED statusVars
            /\ IF write.reg # "pfn" THEN UNCHANGED <<vq, sig, pulled>>
               ELSE IF write.val # 0 THEN InitVq(write.vq) ELSE Exit({write.vq})
    /\ IF write.reg = "notify" THEN NotifyVq(write.vq) ELSE UNCHANGED note
    /\ intStatus' = (intStatus /\ write.reg # "ack")
    /\ UNCHANGED <<taskVars, timerVars, rung, missed, halted, ring, driverVars>>

-----------------------------------------------------------------------------
(* The tasks.  vq[q] zeroed means null pointers and a division by zero.    *)

ringVars == <<vq, ring>>

Fault(q) ==
    /\ pc[q] \in {"get", "copy", "used", "update", "notify"} /\ ~vq[q].enabled
    /\ halted' = TRUE
    /\ UNCHANGED <<statusVars, vq, sig, note, taskVars, timerVars, kickVars, ring,
                   write, driverVars, pulled>>

Uses(q, where) == pc[q] = where /\ vq[q].enabled

(* A slip: the semaphore is not waited for.                                *)
StartTaskEarly(q) ==
    /\ pc[q] = "start"
    /\ sig' = [sig EXCEPT ![q] = @ - 1]
    /\ Goto(q, "get")
    /\ UNCHANGED <<note, ringVars, got, cnt, packets, timerVars, kickVars>>

(* The task of a queue waits until the driver has set the queue up.        *)
StartTask(q) ==
    /\ pc[q] = "start" /\ sig[q] > 0
    /\ sig' = [sig EXCEPT ![q] = @ - 1]
    /\ Goto(q, "get")
    /\ UNCHANGED <<note, ringVars, got, cnt, packets, timerVars, kickVars>>

(* virtio_net_rx_callback: a packet for a stopped device is dropped.       *)
RxCallback ==
    /\ pc["rx"] = "idle" /\ packets < load.packets
    /\ packets' = packets + 1
    /\ IF run THEN Goto("rx", "get") ELSE UNCHANGED pc
    /\ got' = 0
    /\ UNCHANGED <<sig, note, ringVars, cnt, timerVars, kickVars>>

(* An empty queue: the tasks wait for a notification, the receive callback *)
(* sleeps and looks again.                                                 *)
GetIovEmpty(q) ==
    /\ Uses(q, "get") /\ q # "rx" /\ ring[q].avail = vq[q].last_avail
    /\ Goto(q, "wait")
    /\ UNCHANGED <<sig, note, ringVars, got, cnt, packets, timerVars, kickVars>>

WakeUp(q) ==
    /\ pc[q] = "wait" /\ note[q]
    /\ note' = [note EXCEPT ![q] = FALSE]
    /\ Goto(q, "get")
    /\ UNCHANGED <<sig, ringVars, got, cnt, packets, timerVars, kickVars>>

GetIovTake(q) ==
    /\ Uses(q, "get") /\ ring[q].avail # vq[q].last_avail
    /\ vq' = [vq EXCEPT ![q].last_avail = @ + 1]
    /\ Goto(q, CASE q = "rx" -> "copy" [] q = "tx" -> "send" [] OTHER -> "used")
    /\ UNCHANGED <<sig, note, ring, got, cnt, packets, timerVars, kickVars>>

Count(q) == cnt' = [cnt EXCEPT ![q] = IF @ < CoalCnt THEN @ + 1 ELSE @]

(* A packet sent while the link is off is discarded and not counted.       *)
TxSend ==
    /\ pc["tx"] = "send" /\ Goto("tx", "used")
    /\ IF link_on THEN Count("tx") ELSE UNCHANGED cnt
    /\ UNCHANGED <<sig, note, ringVars, got, packets, timerVars, kickVars>>

UpdateUsed(q, n) == ring' = [ring EXCEPT ![q].used = @ + n]

UpdateUsedElem(q) ==
    /\ Uses(q, "used")
    /\ UpdateUsed(q, 1)
    /\ Goto(q, "notify")
    /\ UNCHANGED <<sig, note, vq, got, cnt, packets, timerVars, kickVars>>

(* One more buffer of the packet is filled; the packet may need another.   *)
RxCopy ==
    /\ Uses("rx", "copy")
    /\ got' = got + 1
    /\ \/ got + 1 < MaxBufs /\ Goto("rx", "get")
       \/ Goto("rx", "update")
    /\ UNCHANGED <<sig, note, ringVars, cnt, packets, timerVars, kickVars>>

RxUpdate ==
    /\ Uses("rx", "update")
    /\ UpdateUsed("rx", got)
    /\ Count("rx")
    /\ Goto("rx", "notify")
    /\ UNCHANGED <<sig, note, vq, got, packets, timerVars, kickVars>>

(* A slip: one index late.                                                 *)
MustNotifyLate(q) ==
    vq[q].last_notified < ring[q].event /\ ring[q].event < ring[q].used

(* virtio_queue_must_notify with event indices (Virtqueue has the wrap).   *)
MustNotify(q) ==
    vq[q].last_notified <= ring[q].event /\ ring[q].event < ring[q].used

(* The control task always interrupts, the others after CoalCnt packets.   *)
NotifyCheck(q) ==
    LET full == q = "ctrl" \/ cnt[q] >= CoalCnt
    IN  /\ Uses(q, "notify")
        /\ IF MustNotify(q)
           THEN /\ vq' = [vq EXCEPT ![q].last_notified = ring[q].used]
                /\ Goto(q, IF full THEN "status" ELSE "arm")
                /\ cnt' = IF full /\ q # "ctrl" THEN [cnt EXCEPT ![q] = 0] ELSE cnt
           ELSE Goto(q, Home(q)) /\ UNCHANGED <<vq, cnt>>
        /\ UNCHANGED <<sig, note, ring, got, packets, timerVars, kickVars>>

(* A slip: the timer is started only when it runs.                         *)
TestTimerInverted(q) ==
    /\ pc[q] = "arm" /\ Goto(q, IF active THEN "post" ELSE Home(q))
    /\ UNCHANGED <<sig, note, ringVars, got, cnt, packets, timerVars, kickVars>>

(* xTimerIsTimerActive, then xTimerChangePeriod: a command to the daemon,  *)
(* dropped when its queue is full.                                         *)
TestTimer(q) ==
    /\ pc[q] = "arm" /\ Goto(q, IF active THEN Home(q) ELSE "post")
    /\ UNCHANGED <<sig, note, ringVars, got, cnt, packets, timerVars, kickVars>>

PostCommand(q) ==
    /\ pc[q] = "post" /\ Goto(q, Home(q))
    /\ cmds' = IF cmds < TimerLen THEN cmds + 1 ELSE cmds
    /\ UNCHANGED <<sig, note, ringVars, got, cnt, packets, active, kickVars>>

(* The timer daemon: commands start the timer; a timer that expires is no  *)
(* longer active when its callback runs.                                   *)
StartTimer ==
    /\ pc["timer"] = "idle" /\ cmds > 0
    /\ cmds' = cmds - 1 /\ active' = TRUE
    /\ UNCHANGED <<sig, note, ringVars, taskVars, kickVars>>

Expire ==
    /\ pc["timer"] = "idle" /\ active
    /\ active' = FALSE
    /\ Goto("timer", "status")
    /\ UNCHANGED <<sig, note, ringVars, got, cnt, packets, cmds, kickVars>>

(* virtio_mmio_interrupt_front: the status bit, then the mailbox message.  *)
InterruptFront(t) ==
    /\ pc[t] = "status" /\ Goto(t, "kick")
    /\ intStatus' = TRUE
    /\ UNCHANGED <<sig, note, ringVars, got, cnt, packets, timerVars, rung, missed>>

(* The channel is a LossyChannel: a message sent while the driver's        *)
(* callback for the previous one runs may be cleared without being read.   *)
KickFront(t) ==
    /\ pc[t] = "kick" /\ Goto(t, Home(t))
    /\ \/ rung' = TRUE /\ missed' = FALSE
       \/ isr # "idle" /\ ~rung /\ rung' = FALSE /\ missed' = TRUE
    /\ UNCHANGED <<sig, note, ringVars, got, cnt, packets, timerVars, intStatus>>

-----------------------------------------------------------------------------
(* The driver, on the other core: not in the repository, modelled from the *)
(* registers it may write and the rings it may change.  One register write *)
(* at a time: it waits for wd_status (virtio-mmio-transport.h:41).         *)

deviceVars == <<statusVars, vq, sig, note, taskVars, timerVars, halted, pulled>>

SetUp    == <<Status(0), Status(3), Pfn("rx", 1), Pfn("tx", 1), Pfn("ctrl", 1)>>
TearDown == <<Status(0), Pfn("rx", 0), Pfn("tx", 0), Pfn("ctrl", 0)>>

Written == script = <<>> /\ (write = None \/ write.reg \in {"notify", "ack"})
Up == goal = "up" /\ Written

Probe ==
    /\ goal = "down" /\ script = <<>> /\ write = None /\ probes < load.probes
    /\ probes' = probes + 1
    /\ \/ goal' = "up" /\ script' = Append(SetUp, Status(7))
       \/ load.gives_up /\ goal' = "down" /\ script' = SetUp \o TearDown
    /\ ring' = [q \in Vqs |-> NewRing]
    /\ seen' = [q \in Vqs |-> 0]
    /\ due' = [q \in Vqs |-> FALSE]
    /\ napi' = [q \in Vqs |-> "off"]
    /\ UNCHANGED <<deviceVars, kickVars, write, isr, load>>

Remove ==
    /\ Up /\ write = None /\ probes < load.probes
    /\ goal' = "down" /\ script' = TearDown
    /\ UNCHANGED <<deviceVars, kickVars, ring, write, seen, due, isr, napi, probes, load>>

WriteRegister ==
    /\ script # <<>> /\ write = None
    /\ write' = Head(script) /\ script' = Tail(script)
    /\ UNCHANGED <<deviceVars, kickVars, ring, goal, seen, due, isr, napi, probes, load>>

(* Buffers are made available, then the device is notified.                *)
Post(q) ==
    /\ Up /\ ring[q].avail < load.posts[q]
    /\ ring' = [ring EXCEPT ![q].avail = @ + 1]
    /\ due' = [due EXCEPT ![q] = TRUE]
    /\ UNCHANGED <<deviceVars, kickVars, write, script, goal, seen, isr, napi, probes, load>>

NotifyQueue(q) ==
    /\ Up /\ due[q] /\ write = None
    /\ write' = Notify(q)
    /\ due' = [due EXCEPT ![q] = FALSE]
    /\ UNCHANGED <<deviceVars, kickVars, ring, script, goal, seen, isr, napi, probes, load>>

(* The interrupt: the status bit, its acknowledgement, then every queue.   *)
Interrupted ==
    /\ isr = "idle" /\ rung
    /\ rung' = FALSE /\ isr' = "read"
    /\ UNCHANGED <<deviceVars, intStatus, missed, ring, write, script, goal, seen, due,
                   napi, probes, load>>

ReadStatus ==
    /\ isr = "read"
    /\ isr' = IF ~intStatus THEN "done" ELSE IF load.posts_ack THEN "ack" ELSE "scan"
    /\ UNCHANGED <<deviceVars, kickVars, ring, write, script, goal, seen, due, napi,
                   probes, load>>

PostAck ==
    /\ isr = "ack" /\ write = None
    /\ write' = Ack /\ isr' = "scan"
    /\ UNCHANGED <<deviceVars, kickVars, ring, script, goal, seen, due, napi, probes, load>>

ScanQueues ==
    /\ isr = "scan" /\ write # Ack
    /\ isr' = "done"
    /\ napi' = [q \in Vqs |-> IF Up /\ ring[q].used # seen[q] THEN "poll" ELSE napi[q]]
    /\ UNCHANGED <<deviceVars, kickVars, ring, write, script, goal, seen, due, probes, load>>

EndInterrupt ==
    /\ isr = "done" /\ isr' = "idle"
    /\ UNCHANGED <<deviceVars, kickVars, ring, write, script, goal, seen, due, napi,
                   probes, load>>

(* Used buffers are taken and the next interrupt is asked for; then the    *)
(* ring is looked at once more.                                            *)
Poll(q) ==
    /\ Up /\ napi[q] = "poll"
    /\ seen' = [seen EXCEPT ![q] = ring[q].used]
    /\ ring' = [ring EXCEPT ![q].event = ring[q].used]
    /\ napi' = [napi EXCEPT ![q] = "recheck"]
    /\ UNCHANGED <<deviceVars, kickVars, write, script, goal, due, isr, probes, load>>

Recheck(q) ==
    /\ Up /\ napi[q] = "recheck"
    /\ napi' = [napi EXCEPT ![q] = IF ring[q].used # seen[q] THEN "poll" ELSE "off"]
    /\ UNCHANGED <<deviceVars, kickVars, ring, write, script, goal, seen, due, isr, probes, load>>

-----------------------------------------------------------------------------
(* Specification.                                                          *)

Init ==
    /\ live = FALSE /\ run = FALSE /\ link_on = FALSE /\ conf_up \in BOOLEAN
    /\ vq = [q \in Vqs |-> NoVq] /\ ring = [q \in Vqs |-> NewRing]
    /\ sig = [q \in {"tx", "ctrl"} |-> 0] /\ note = [q \in {"tx", "ctrl"} |-> FALSE]
    /\ pc = [t \in Tasks |-> IF t \in {"rx", "timer"} THEN "idle" ELSE "start"]
    /\ got = 0 /\ cnt = [q \in {"rx", "tx"} |-> 0] /\ packets = 0
    /\ active = FALSE /\ cmds = 0
    /\ intStatus = FALSE /\ rung = FALSE /\ missed = FALSE
    /\ halted = FALSE /\ pulled = FALSE /\ write = None
    /\ script = <<>> /\ goal = "down" /\ isr = "idle" /\ probes = 0
    /\ seen = [q \in Vqs |-> 0] /\ due = [q \in Vqs |-> FALSE]
    /\ napi = [q \in Vqs |-> "off"]
    /\ load \in Loads

QueueStep(q) ==
    \/ q # "rx" /\ (StartTask(q) \/ GetIovEmpty(q) \/ WakeUp(q) \/ UpdateUsedElem(q))
    \/ GetIovTake(q) \/ NotifyCheck(q)
    \/ q = "tx" /\ TxSend
    \/ q = "rx" /\ (RxCopy \/ RxUpdate)
    \/ q # "ctrl" /\ (TestTimer(q) \/ PostCommand(q))
InterruptStep(t) == InterruptFront(t) \/ KickFront(t)
DaemonStep == StartTimer \/ Expire

(* A step of a task, while the core runs.                                  *)
OnCore(A) == ~halted /\ A /\ UNCHANGED <<statusVars, halted, write, driverVars, pulled>>

IsrStep == Interrupted \/ ReadStatus \/ PostAck \/ ScanQueues \/ EndInterrupt
NapiStep(q) == Poll(q) \/ Recheck(q)

Next ==
    \/ OnCore(RxCallback)
    \/ \E q \in Vqs : OnCore(QueueStep(q))
    \/ \E t \in Tasks : OnCore(InterruptStep(t))
    \/ OnCore(DaemonStep)
    \/ ~halted /\ (HandleWrite \/ \E q \in Vqs : Fault(q))
    \/ Probe \/ Remove \/ WriteRegister
    \/ \E q \in Vqs : Post(q) \/ NotifyQueue(q) \/ NapiStep(q)
    \/ IsrStep

(* Interrupts are taken, tasks and timers run, and the driver finishes     *)
(* what it has begun; it need not post, probe or remove anything.          *)
Fairness ==
    /\ \A q \in Vqs : /\ WF_vars(OnCore(QueueStep(q) \/ InterruptStep(q)))
                      /\ WF_vars(NotifyQueue(q)) /\ WF_vars(NapiStep(q))
    /\ WF_vars(OnCore(DaemonStep \/ InterruptStep("timer")))
    /\ WF_vars(~halted /\ HandleWrite)
    /\ WF_vars(WriteRegister) /\ WF_vars(IsrStep)

Spec == Init /\ [][Next]_vars
FairSpec == Spec /\ Fairness

-----------------------------------------------------------------------------
(* Properties.                                                             *)

Writes == {None, Ack} \cup {Status(v) : v \in {0, 3, 7}} \cup {Notify(q) : q \in Vqs}
            \cup {Pfn(q, v) : q \in Vqs, v \in 0..1}

(* Every variable keeps its type; network.c:112 and :149 bound the counts. *)
TypeOK ==
    /\ {live, run, link_on, conf_up, active, intStatus, halted, rung} \subseteq BOOLEAN
    /\ {pulled, missed} \subseteq BOOLEAN
    /\ vq \in [Vqs -> [enabled : BOOLEAN, last_avail : Nat, last_notified : Nat]]
    /\ ring \in [Vqs -> [avail : Nat, used : Nat, event : Nat]]
    /\ sig \in [{"tx", "ctrl"} -> Nat] /\ note \in [{"tx", "ctrl"} -> BOOLEAN]
    /\ pc["rx"] \in {"idle", "get", "copy", "update", "notify", "arm", "post", "status", "kick"}
    /\ pc["tx"] \in {"start", "get", "wait", "send", "used", "notify", "arm", "post",
                      "status", "kick"}
    /\ pc["ctrl"] \in {"start", "get", "wait", "used", "notify", "status", "kick"}
    /\ pc["timer"] \in {"idle", "status", "kick"}
    /\ got \in 0..MaxBufs /\ cnt \in [{"rx", "tx"} -> 0..CoalCnt]
    /\ cmds \in 0..TimerLen /\ write \in Writes /\ script \in Seq(Writes)
    /\ goal \in {"up", "down"} /\ isr \in {"idle", "read", "ack", "scan", "done"}
    /\ napi \in [Vqs -> {"off", "poll", "recheck"}] /\ due \in [Vqs -> BOOLEAN]
    /\ seen \in [Vqs -> Nat] /\ probes \in Nat /\ packets \in Nat /\ load \in Loads

(* A driver that clears the queues only while no task is about to use them *)
(* never halts the core: every task waits for its queue (network.c:112,    *)
(* :167), and whatever wakes it later finds a queue set up again.          *)
QuietResetIsSafe == halted => pulled

(* Until a busy queue is cleared, the indices of a queue set up stay in    *)
(* order over removals and new probes: the device never uses a buffer it   *)
(* did not take, nor takes one that was not posted.                        *)
IndicesInOrder ==
    \A q \in Vqs : vq[q].enabled /\ ~pulled =>
        /\ ring[q].used <= vq[q].last_avail /\ vq[q].last_avail <= ring[q].avail
        /\ vq[q].last_notified <= ring[q].used

(* The backend runs, with its link on, exactly while the core has the      *)
(* device live: the handler of network.c:251-262 looks at the core's state *)
(* before the core changes it (core.c:144-155).                            *)
RunFollowsLive == run = live /\ link_on = live

(* Every probe starts with the state of a new device.                      *)
ProbesStartAfresh == IndicesInOrder /\ RunFollowsLive

(* Someone will still send a kick after the status bit is set.             *)
WillKick ==
    \/ \E t \in Tasks : pc[t] \in {"arm", "post", "status", "kick"}
    \/ cmds > 0 \/ active

(* The driver will still look at q.                                        *)
WillLook(q) ==
    \/ intStatus /\ (rung \/ isr = "read")
    \/ isr \in {"ack", "scan"} \/ napi[q] # "off"

(* A used buffer the driver asked to be told about is never forgotten: its *)
(* server will still ask for an interrupt, the shared timer or a task will *)
(* still kick, or the driver will still look, unless a kick was lost in    *)
(* the channel because the driver was in its callback.                     *)
NoLostInterrupt ==
    \A q \in Vqs : Up /\ ~pulled /\ ring[q].event < ring[q].used =>
        \/ pc[q] = "notify" /\ MustNotify(q)
        \/ WillKick \/ WillLook(q) \/ missed

(* A buffer the driver posts to a queue served by a task is used, unless   *)
(* the driver leaves or a busy queue was cleared.                          *)
PostedIsUsed ==
    \A q \in {"tx", "ctrl"} :
        ring[q].used < ring[q].avail ~> ring[q].used >= ring[q].avail \/ pulled \/ ~Up

(* A used buffer is seen by the driver, unless it leaves, a busy queue was *)
(* cleared or a kick was lost.                                             *)
UsedIsSeen ==
    \A q \in Vqs : seen[q] # ring[q].used ~> seen[q] = ring[q].used \/ pulled \/ ~Up \/ missed

(* A buffer goes all the way: from the driver, to the device, and back.    *)
BuffersUsedAndSeen == PostedIsUsed /\ UsedIsSeen
=============================================================================
