---------------------------- MODULE VirtioTrans ----------------------------
(* The virtio trans device (virtio/devices/trans.c), which measures how    *)
(* fast buffers move between driver and device, with the part of the       *)
(* mailbox wrapper (virtio/mailbox/generic_software_mailbox.c) under it:   *)
(* virtio_trans_init() while the driver may already write; the register    *)
(* writes, handled in the mailbox interrupt; rx_task and tx_task, of which *)
(* tx_task has the higher priority; their kicks, under mbox_lock.          *)
(*                                                                         *)
(* One core runs everything but the driver.  A ring is the sequence of     *)
(* chains the driver made available, a chain its number of descriptors.    *)
EXTENDS Integers, Sequences

CONSTANTS
    Width,      \* the counters are modulo Width (2^32 in the code; bound)
    Sessions    \* what the driver does in a behaviour (bound), see below

Dirs == {"rx", "tx"}        \* queue 0, served by rx_task, and queue 1

(* The registers a driver writes, but for its notifications: a queue, all  *)
(* of them, and the device's configuration page.                           *)
Configs == [dirs : SUBSET Dirs, back_poll : BOOLEAN, front_poll : BOOLEAN]
Writes ==
    [reg : {"pfn"}, vq : Dirs, up : BOOLEAN] \cup [reg : {"reset"}] \cup
    [reg : {"config"}, val : Configs] \cup [reg : {"control"}, start : BOOLEAN] \cup
    [reg : {"regression"}, val : 0..(Width - 1)]

(* A session is a record: whether the page still holds the magic of an     *)
(* earlier boot (warm), whether the driver comes while virtio_trans_init() *)
(* runs (early), the ticks in the millisecond of block_time, which are 0   *)
(* on a board with 200 a second, the registers the driver writes (script)  *)
(* and the chains it provides on each queue.                               *)

(* Before its i-th write the driver has set up queue d and not cleared it. *)
Clears(w, d) == (w.reg = "pfn" /\ w.vq = d /\ ~w.up) \/ w.reg = "reset"
SetUpBefore(script_, d, i) ==
    \E k \in 1..(i - 1) :
        /\ script_[k].reg = "pfn" /\ script_[k].vq = d /\ script_[k].up
        /\ \A m \in (k + 1)..(i - 1) : ~Clears(script_[m], d)

(* The directions a test starts in are those of the last configuration.    *)
Starts(script_, d, i) ==
    /\ script_[i].reg = "control" /\ script_[i].start
    /\ \E j \in 1..(i - 1) :
        /\ script_[j].reg = "config" /\ d \in script_[j].val.dirs
        /\ \A m \in (j + 1)..(i - 1) : script_[m].reg # "config"

(* A driver sets a queue up before it starts a test on it.                 *)
TransAssumption ==
    /\ Width \in Nat \ {0}
    /\ \A s \in Sessions :
        /\ s.warm \in BOOLEAN /\ s.early \in BOOLEAN /\ s.block_time \in Nat
        /\ s.script \in Seq(Writes) /\ s.chains \in [Dirs -> Seq(1..(Width - 1))]
        /\ \A i \in DOMAIN s.script, d \in Dirs :
            Starts(s.script, d, i) => SetUpBefore(s.script, d, i)

VARIABLES
    boot,               \* steps of BootOrder still to do
    fault,              \* what the core faulted on, "none" while it runs
    write, script, warm,    \* the driver: its write, writes to come, old magic
    block_time,         \* ticks of a delay
    chains, due,        \* chains to come; notifications owed
    conf, regression,   \* the device's configuration page
    back_poll, front_poll,
    running, count,     \* rx_running and tx_running; tx_count and rx_count
    on, avail,          \* queue set up; chains available
    sem, note,          \* recv_packet_sig and send_packet_sig; notifications
    pc, left, hand, iov,    \* tasks; iov is the task whose chain it holds
    ret, lock,          \* where a kick returns to; mbox_lock
    size, pulled, hurried, switched, split      \* history, see below

(* History.  size: the regression count a test began with.  pulled: a      *)
(* reset cleared the queues under a test.  hurried: the driver stopped or  *)
(* resized a test before it read its count.  switched: the polling mode    *)
(* changed under a test.  split: a kick went on without the lock.          *)
history == <<size, pulled, hurried, switched, split>>
driver  == <<script, warm, block_time, chains, due, conf, regression>>
modes   == <<back_poll, front_poll, running, on>>
work    == <<pc, left, hand, iov, ret, lock>>
vars == <<boot, fault, write, driver, modes, count, avail, sem, note, work, history>>

None == [reg |-> "none"]
Lost == [reg |-> "lost"]
Nobody == "nobody"
NoConf == [dirs |-> {}, back_poll |-> FALSE, front_poll |-> FALSE]

-----------------------------------------------------------------------------
(* A slip: the header is filled in before the callback's entry.            *)
BootOrderHeaderFirst == <<"irq", "event", "hdr", "magic", "write_cb", "data",
                          "recv_sig", "send_sig", "rx", "tx">>

(* virtio_trans_init(), in a task above the others.  gen_sw_mbox_register() *)
(* enables the interrupt although mbox_interrupt_disable() was called.     *)
BootOrder == <<"irq", "event", "write_cb", "data", "hdr", "magic",
               "recv_sig", "send_sig", "rx", "tx">>

Up(step) == \A i \in DOMAIN boot : boot[i] # step
Booted == boot = <<>>
Boot ==
    /\ ~Booted /\ fault = "none" /\ boot' = Tail(boot)
    /\ UNCHANGED <<fault, write, driver, modes, count, avail, sem, note, work, history>>

-----------------------------------------------------------------------------
(* The driver.  It looks for the magic of the header before it writes, and *)
(* finds it early if the page still holds that of an earlier boot.         *)
Testing(d) == sem[d] > 0 \/ pc[d] # "wait"
Unread(d)  == running[d] /\ count[d] = 0

PostWrite(w) ==
    /\ write = None /\ Up("irq") /\ (warm \/ Up("magic"))
    /\ write' = w
    /\ conf' = IF w.reg = "config" THEN w.val ELSE conf
    /\ regression' = IF w.reg = "regression" THEN w.val ELSE regression
    /\ hurried' = IF w.reg = "regression" \/ (w.reg = "control" /\ ~w.start)
                  THEN [d \in Dirs |-> hurried[d] \/ Unread(d)] ELSE hurried

NextWrite ==
    /\ script # <<>> /\ PostWrite(Head(script)) /\ script' = Tail(script)
    /\ UNCHANGED <<boot, fault, warm, block_time, chains, due, modes, count, avail, sem, note, work,
                   size, pulled, switched, split>>

NotifyQueue(d) ==
    /\ due[d] /\ PostWrite([reg |-> "notify", vq |-> d])
    /\ due' = [due EXCEPT ![d] = FALSE]
    /\ UNCHANGED <<boot, fault, script, warm, block_time, chains, modes, count, avail, sem, note, work,
                   size, pulled, switched, split>>

Provide(d) ==
    /\ on[d] /\ chains[d] # <<>>
    /\ avail' = [avail EXCEPT ![d] = Append(@, Head(chains[d]))]
    /\ chains' = [chains EXCEPT ![d] = Tail(@)]
    /\ due' = [due EXCEPT ![d] = TRUE]
    /\ UNCHANGED <<boot, fault, write, script, warm, block_time, conf, regression, modes, count, sem,
                   note, work, history>>

-----------------------------------------------------------------------------
(* Register writes, in the mailbox interrupt.                              *)

Crash(what) == fault' = what /\ UNCHANGED <<modes, avail, count, sem, note, pulled, switched>>

SetQueues(D, up) ==
    /\ on' = [d \in Dirs |-> IF d \in D THEN up ELSE on[d]]
    /\ avail' = [d \in Dirs |-> IF d \in D THEN <<>> ELSE avail[d]]
    /\ pulled' = (pulled \/ (~up /\ \E d \in D : Testing(d)))
    /\ UNCHANGED <<fault, back_poll, front_poll, running, count, sem, note, switched>>

Configure ==
    /\ back_poll' = conf.back_poll /\ front_poll' = conf.front_poll
    /\ switched' = (switched \/ (back_poll # conf.back_poll /\ \E d \in Dirs : Testing(d)))
    /\ UNCHANGED <<fault, running, on, count, avail, sem, note, pulled>>

Signal(d) == IF d = "rx" THEN "recv_sig" ELSE "send_sig"

(* A slip: a test is started although one is running.                      *)
StartedAgain == conf.dirs
(* The tests a start begins.                                               *)
Started == {d \in conf.dirs : ~running[d]}

Start ==
    IF \E d \in Started : ~Up(Signal(d)) THEN Crash("device")
    ELSE /\ running' = [d \in Dirs |-> running[d] \/ d \in Started]
         /\ count' = [d \in Dirs |-> IF d \in Started THEN 0 ELSE count[d]]
         /\ sem' = [d \in Dirs |-> IF d \in Started THEN sem[d] + 1 ELSE sem[d]]
         /\ UNCHANGED <<fault, back_poll, front_poll, on, avail, note, pulled, switched>>

Stop ==
    /\ running' = [d \in Dirs |-> running[d] /\ d \notin conf.dirs]
    /\ UNCHANGED <<fault, back_poll, front_poll, on, count, avail, sem, note, pulled, switched>>

(* A slip: the notification is given to a task that polls.                 *)
NotifiesPolling == back_poll
Notifies == ~back_poll

NotifyVq(d) ==
    IF Notifies /\ ~Up(d) THEN Crash("device")
    ELSE /\ note' = [note EXCEPT ![d] = @ \/ Notifies]
         /\ UNCHANGED <<fault, modes, count, avail, sem, pulled, switched>>

Dispatch(w) ==
    \/ w.reg = "pfn" /\ SetQueues({w.vq}, w.up)
    \/ w.reg = "reset" /\ SetQueues(Dirs, FALSE)
    \/ w.reg = "config" /\ Configure
    \/ w.reg = "control" /\ w.start /\ Start
    \/ w.reg = "control" /\ ~w.start /\ Stop
    \/ w.reg = "notify" /\ NotifyVq(w.vq)
    \/ w.reg = "regression" /\ UNCHANGED <<fault, modes, count, avail, sem, note, pulled, switched>>

(* call_isr() and virtio_mmio_mmio_callback(): the callback's entry may be *)
(* half made, and the header not known yet.  A write that finds no entry   *)
(* is never acknowledged in wd_status.                                     *)
HandleWrite ==
    /\ write \notin {None, Lost} /\ fault = "none"
    /\ write' = IF Up("event") /\ Up("write_cb") THEN None ELSE Lost
    /\ IF ~(Up("event") /\ Up("write_cb"))
       THEN UNCHANGED <<fault, modes, count, avail, sem, note, pulled, switched>>
       ELSE IF ~(Up("data") /\ Up("hdr")) THEN Crash("transport")
       ELSE Dispatch(write)
    /\ UNCHANGED <<boot, driver, work, size, hurried, split>>

-----------------------------------------------------------------------------
(* The tasks.                                                              *)

Goto(d, where) == pc' = [pc EXCEPT ![d] = where]

(* Whether a task can go on; tx_task then keeps rx_task from running.      *)
Ready(d) ==
    CASE pc[d] = "wait" -> sem[d] > 0
      [] pc[d] = "notified" -> note[d]
      [] pc[d] = "delay" -> block_time = 0
      [] pc[d] = "lock" -> lock > 0
      [] OTHER -> TRUE

(* A slip: both tasks have the same priority.                              *)
RunsEqually(d) == Booted /\ fault = "none"
Runs(d) == Booted /\ fault = "none" /\ (d = "rx" => ~Ready("tx"))

BeginTest(d) ==
    /\ pc[d] = "wait" /\ sem[d] > 0 /\ Runs(d)
    /\ sem' = [sem EXCEPT ![d] = @ - 1]
    /\ left' = [left EXCEPT ![d] = regression]
    /\ size' = [size EXCEPT ![d] = regression]
    /\ Goto(d, IF regression = 0 THEN "end" ELSE "get")
    /\ UNCHANGED <<boot, fault, write, driver, modes, count, avail, note, hand, iov, ret,
                   lock, pulled, hurried, switched, split>>

(* The ring of a queue that a reset cleared is at address 0, and has no     *)
(* entries to take an index modulo of.                                     *)
UseNowhere(d) ==
    /\ ~on[d] /\ Runs(d)
    /\ pc[d] \in {"get", "copy"} \/ (pc[d] = "check" /\ ~front_poll)
    /\ fault' = "queue"
    /\ UNCHANGED <<boot, write, driver, modes, count, avail, sem, note, work, history>>

GetEmpty(d) ==
    /\ pc[d] = "get" /\ on[d] /\ avail[d] = <<>> /\ Runs(d)
    /\ Goto(d, "choose")
    /\ UNCHANGED <<boot, fault, write, driver, modes, count, avail, sem, note, left, hand,
                   iov, ret, lock, history>>

GetChain(d) ==
    /\ pc[d] = "get" /\ on[d] /\ avail[d] # <<>> /\ Runs(d)
    /\ hand' = [hand EXCEPT ![d] = Head(avail[d])] /\ iov' = d
    /\ avail' = [avail EXCEPT ![d] = Tail(@)]
    /\ Goto(d, "copy")
    /\ UNCHANGED <<boot, fault, write, driver, modes, count, sem, note, left, ret, lock, history>>

ChooseWait(d) ==
    /\ pc[d] = "choose" /\ Runs(d)
    /\ Goto(d, IF back_poll THEN "delay" ELSE "notified")
    /\ UNCHANGED <<boot, fault, write, driver, modes, count, avail, sem, note, left, hand,
                   iov, ret, lock, history>>

WakeUp(d) ==
    /\ Runs(d)
    /\ \/ pc[d] = "notified" /\ note[d] /\ note' = [note EXCEPT ![d] = FALSE]
       \/ pc[d] = "delay" /\ UNCHANGED note
    /\ Goto(d, "get")
    /\ UNCHANGED <<boot, fault, write, driver, modes, count, avail, sem, left, hand, iov,
                   ret, lock, history>>

Minus(a, b) == (a - b) % Width

(* The chain is copied from or to iov and published as used.               *)

Use(d) ==
    /\ pc[d] = "copy" /\ on[d] /\ Runs(d)
    /\ left' = [left EXCEPT ![d] = Minus(@, hand[d])]
    /\ hand' = [hand EXCEPT ![d] = 0]
    /\ iov' = IF iov = d THEN Nobody ELSE iov
    /\ Goto(d, "check")
    /\ UNCHANGED <<boot, fault, write, driver, modes, count, avail, sem, note, ret, lock, history>>

(* The front-end is interrupted if virtio_queue_must_notify() says so,     *)
(* which Virtqueue details.                                                *)
Check(d) ==
    /\ pc[d] = "check" /\ (front_poll \/ on[d]) /\ Runs(d)
    /\ LET next == IF left[d] = 0 THEN "end" ELSE "get" IN
       \/ Goto(d, next) /\ UNCHANGED ret
       \/ ~front_poll /\ Goto(d, "lock") /\ ret' = [ret EXCEPT ![d] = next]
    /\ UNCHANGED <<boot, fault, write, driver, modes, count, avail, sem, note, left, hand,
                   iov, lock, history>>

LastKick(d) ==
    /\ pc[d] = "end" /\ Runs(d)
    /\ IF front_poll THEN Goto(d, "report") /\ UNCHANGED ret
       ELSE Goto(d, "lock") /\ ret' = [ret EXCEPT ![d] = "report"]
    /\ UNCHANGED <<boot, fault, write, driver, modes, count, avail, sem, note, left, hand,
                   iov, lock, history>>

(* The count reported is the regression as it is now.                      *)
Report(d) ==
    /\ pc[d] = "report" /\ Runs(d)
    /\ count' = [count EXCEPT ![d] = regression]
    /\ Goto(d, "wait")
    /\ UNCHANGED <<boot, fault, write, driver, modes, avail, sem, note, left, hand, iov, ret,
                   lock, history>>

-----------------------------------------------------------------------------
(* mbox_kick_front().  The take waits one millisecond; its result is not   *)
(* looked at, and the lock is given back whether it was taken or not.      *)
TakeLock(d) ==
    /\ pc[d] = "lock" /\ Runs(d)
    /\ lock' = IF lock > 0 THEN lock - 1 ELSE lock
    /\ split' = (split \/ lock = 0)
    /\ Goto(d, "send")
    /\ UNCHANGED <<boot, fault, write, driver, modes, count, avail, sem, note, left, hand,
                   iov, ret, size, pulled, hurried, switched>>

Send(d) ==
    /\ pc[d] = "send" /\ Runs(d) /\ Goto(d, "give")
    /\ UNCHANGED <<boot, fault, write, driver, modes, count, avail, sem, note, left, hand,
                   iov, ret, lock, history>>

GiveLock(d) ==
    /\ pc[d] = "give" /\ Runs(d)
    /\ lock' = lock + 1 /\ Goto(d, ret[d])
    /\ UNCHANGED <<boot, fault, write, driver, modes, count, avail, sem, note, left, hand,
                   iov, ret, history>>

-----------------------------------------------------------------------------
Task(d) ==
    \/ BeginTest(d) \/ UseNowhere(d) \/ GetEmpty(d) \/ GetChain(d) \/ ChooseWait(d)
    \/ WakeUp(d) \/ Use(d) \/ Check(d) \/ LastKick(d) \/ Report(d)
    \/ TakeLock(d) \/ Send(d) \/ GiveLock(d)

InitWith(s) ==
    /\ script = s.script /\ warm = s.warm /\ block_time = s.block_time
    /\ chains = s.chains
    /\ boot = IF s.early THEN BootOrder ELSE <<>>
    /\ fault = "none" /\ write = None
    /\ due = [d \in Dirs |-> FALSE]
    /\ conf = NoConf /\ regression = 0
    /\ back_poll = FALSE /\ front_poll = FALSE
    /\ running = [d \in Dirs |-> FALSE] /\ count = [d \in Dirs |-> 0]
    /\ on = [d \in Dirs |-> FALSE] /\ avail = [d \in Dirs |-> <<>>]
    /\ sem = [d \in Dirs |-> 0] /\ note = [d \in Dirs |-> FALSE]
    /\ pc = [d \in Dirs |-> "wait"] /\ left = [d \in Dirs |-> 0]
    /\ hand = [d \in Dirs |-> 0] /\ iov = Nobody
    /\ ret = [d \in Dirs |-> "wait"] /\ lock = 1
    /\ size = [d \in Dirs |-> 0] /\ hurried = [d \in Dirs |-> FALSE]
    /\ pulled = FALSE /\ switched = FALSE /\ split = FALSE

Init == \E s \in Sessions : InitWith(s)

Next ==
    \/ Boot \/ NextWrite \/ HandleWrite
    \/ \E d \in Dirs : NotifyQueue(d) \/ Provide(d) \/ Task(d)

Fairness ==
    /\ WF_vars(Boot) /\ WF_vars(HandleWrite)
    /\ \A d \in Dirs : WF_vars(NotifyQueue(d)) /\ WF_vars(Provide(d))
    /\ WF_vars(Task("tx")) /\ SF_vars(Task("rx"))  \* rx_task runs when tx_task blocks

Spec == Init /\ [][Next]_vars /\ Fairness
-----------------------------------------------------------------------------
(* The state keeps its shape: the counts stay within their width, a task   *)
(* is at one of its points, and a notification is a flag.                  *)
TypeOK ==
    /\ boot \in {SubSeq(BootOrder, i, Len(BootOrder)) : i \in 1..(Len(BootOrder) + 1)}
    /\ fault \in {"none", "transport", "device", "queue"}
    /\ \A d \in Dirs :
        /\ left[d] \in 0..(Width - 1) /\ count[d] \in 0..(Width - 1)
        /\ hand[d] \in 0..(Width - 1)
        /\ pc[d] \in {"wait", "get", "choose", "notified", "delay", "copy", "check",
                      "lock", "send", "give", "end", "report"}
    /\ note \in [Dirs -> BOOLEAN] /\ running \in [Dirs -> BOOLEAN]
    /\ iov \in Dirs \cup {Nobody} /\ lock \in Nat

(* virtio_mmio_init() registers the callback and enables the interrupt     *)
(* before it knows the header, and the tasks come last.  Still a write     *)
(* from a driver that waited for the magic never goes through a null       *)
(* pointer of the transport, and only a start or a notification that comes *)
(* before virtio_trans_init() returned finds no semaphore or task.  A task *)
(* touches a cleared queue only if the reset came in the middle of a test. *)
NoFault ==
    /\ fault = "transport" => warm
    /\ fault = "device" => ~Booted
    /\ fault = "queue" => pulled

(* tx_task fills and uses the one iov[] both tasks share without being     *)
(* disturbed by rx_task: the higher priority holds whenever tx_task has a  *)
(* chain, and it is done with the vector when it may block, on mbox_lock   *)
(* too.  (rx_task has no such luck: tx_task preempts it.)  And both send   *)
(* on the channel at once only after a take of mbox_lock timed out.        *)
Exclusion ==
    /\ pc["tx"] = "copy" => iov = "tx"
    /\ pc["tx"] = "send" /\ pc["rx"] = "send" => split

(* A count other than 0 tells the driver that its last test is over, and   *)
(* how many buffers it moved, if the driver stopped or resized no test it  *)
(* had not read the count of: a stop does not end a test, and the count    *)
(* of the test it left running would be taken for that of the next.        *)
CountIsCurrent ==
    \A d \in Dirs : count[d] # 0 /\ ~hurried[d] => ~Testing(d) /\ count[d] = size[d]

(* A test for which the driver provides the buffers ends, unless the       *)
(* polling mode changed under it: a task that waits for a notification is  *)
(* then not given one.  Where a millisecond is no tick, a tx_task that     *)
(* polls for buffers also keeps rx_task from its.                          *)
Starved(d) == chains[d] = <<>> /\ avail[d] = <<>>
TestsOver ==
    \A d \in Dirs :
        \/ pc[d] = "wait" \/ fault # "none" \/ switched
        \/ Starved(d) \/ (block_time = 0 /\ Starved("tx"))
TestEnds == <>[]TestsOver
====
