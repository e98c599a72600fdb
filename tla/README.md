# TLA+ models of the heterogeneous multicore framework

This directory holds the formal models of the framework: what its components
keep as state, the steps they take, the properties that make them correct, the
TLC instances that check them, and TLAPS proofs about them. Every module
translates the C code under `src/`; `PROJECT.json` says which lines each
definition stands for and lists the hazards the properties are aimed at.

1. [The system](#1-the-system)
2. [The modules](#2-the-modules)
3. [The runs: what is checked](#3-the-runs-what-is-checked)
4. [Bounds](#4-bounds)
5. [Fairness and deadlock](#5-fairness-and-deadlock)
6. [The proofs](#6-the-proofs)
7. [What the models found](#7-what-the-models-found)
8. [What is abstracted, and what is not modelled](#8-what-is-abstracted-and-what-is-not-modelled)
9. [Plan](#9-plan)

To check one instance: `tlc -config NetSwitch.cfg MCNetSwitch`. To check the
proofs of one component: `tlapm NetSwitch_proofs.tla`; the modules with proofs are
those whose name ends in `_proofs`, and each takes minutes, the longest a quarter of
an hour.

## 1. The system

Several cores of one i.MX chip run different operating systems (Linux, FreeRTOS,
Zephyr) and share memory, interrupts and devices. The framework gives them
mailboxes, virtio devices, an Ethernet switch and RPMsg, and the applications
that use them.

```
  virtio-net driver (Linux)            network            PTP stack
      |  rings, registers                 |                   |
      |  (shared memory)              port_enet        port_software
  network.c ---- core.c                   |                   |
      |            |                      +---- net_switch ---+
    mmio.c      trans.c                             |
      |            |                         network.c (a port)
  mailbox wrapper (generic, MU)
      |
  gen_sw_mbox / hardware MU  ---- shared page, GIC ----  the other core
```

A virtio device asks the virtio core whether to notify, sets the interrupt
status in the MMIO page and kicks the front-end through the mailbox wrapper,
which sends on a channel of the software mailbox. The front-end writes a
register by sending on another channel; the wrapper's callback handles it in the
mailbox interrupt and wakes the device's tasks. The virtio-net device is a port
of the switch; the switch's task calls its receive callback.

### Components

State, operations, what is hard, and what correctness means. "Modelled" parts
name their module.

**Generic software mailbox, data plane** (`libs/gen_sw_mbox`, *GenSwMboxChannel*).
State: per channel and direction a status word (ready, busy, done) and a data
word in a page both cores map; one interrupt per side; callbacks, a reference
count. Operations: send (blocking or not), interrupt handler, register and
unregister. Hard: two processors write the same words without a lock;
interrupts are merged; the handler writes the status twice, before and after the
callback; registration clears words the peer may be using. Correct when no busy
or done word goes unnoticed, a blocking send returns, and the callbacks see
messages in order, at most once, never invented.

**Generic software mailbox, registry** (*GenSwMboxRegistry*). State: table of
instances, reference counts, a global semaphore, interrupt registrations.
Operations: register, unregister, set and clear a callback, send. Hard: the
semaphore does not cover the use of what it looked up; error paths return
without giving back what they took. Correct when nothing is used after it is
freed, references and the semaphore are accounted for, one mailbox per page, and
every call returns.

**Mailbox wrappers** (`virtio/mailbox`, *VirtioTrans* and *VirtioNet*). State: a
table of callbacks per channel and interrupt number, a lock, a nested disable
counter. Hard: the interrupt looks an entry up while it is being made; the lock
is taken with a timeout of a millisecond whose result is ignored.

**Virtio core** (`virtio/devices/core.c`, *Virtqueue* and *VirtioNet*). State:
queue indices, event indices. Operations: take a buffer, publish used ones,
decide on a notification, status changes. Hard: the ring is shared with a driver
on another core; the decision to notify races with the driver going to sleep;
16-bit indices wrap. Correct when a buffer has one owner, no kick and no
interrupt is lost, and posted buffers come back.

**Virtio MMIO transport** (`virtio/devices/mmio.c`, *VirtioNet*). State: the
register page, interrupt status. Operations: each register write, the interrupt
to the front-end. Hard: writes are handled in an interrupt that preempts the
tasks; the driver acknowledges while a task sets the status again.

**Virtio network backend** (`virtio/devices/network.c`, *VirtioNet*; its
packets in *NetSwitch*). State: device and link status, start semaphores, a coalescing
timer, counters. Operations: start, stop, transmit task, control task, receive
callback, timer. Hard: a reset zeroes queues that tasks are using; two tasks and
a timer share one decision to kick; probes are abandoned half way. Correct when
a reset that finds the queues idle is safe, queues start afresh after each
probe, the link follows the status, and no used buffer waits for ever.

**Network switch, ports and packets** (`net/net_switch.c`, `data_pkt.c`,
`port_enet.c`, `port_software.c`, *NetSwitch*). State: ports with output lists,
`need_notify` flags and message queues; forwarding tables; a pool of static
buffers. Operations: receive on a port, unicast, broadcast and multicast, notify,
drain, change an address or table, link changes. Hard: lists are under a
semaphore, but counts, flags, message queues and the iteration of the drain are
not; posting an event may fail; a packet's original goes to the last port only.
Correct when every buffer has one owner, none leaks, each source's packets leave
in order, nothing is reflected, and no queued packet is forgotten.

**Virtio trans device** (`virtio/devices/trans.c`, *VirtioTrans*; its descriptors
and event index are the device of *Virtqueue*). State: two queues, one static
buffer vector, polling modes, a running flag and a count per direction. Hard:
register writes arrive in an interrupt while the device starts and while its
tasks run; both tasks share the vector; a stop only clears a flag. Correct when
no write goes through a null pointer, the vector has one user, the count the
driver reads is its last test's, and a test ends.

**Counters and alarms** (`os/freertos/os/counter_*.c`, *CounterAlarm*). State:
compare register, interrupt enable, the alarm's callback and flags. Operations:
start, stop, set, cancel, interrupt. Hard: the interrupt handler clears the alarm
after the callback ran; set and cancel race with it; the interrupt is enabled
before the compare value is written. Correct when every alarm set in time fires
once at its time, and a loop goes on across wraps.

**Latency measurement** (`apps/rt_latency`, *RtLatency*). State: programmed and
observed time, two semaphores, statistics. Hard: a timeout races with a late
alarm; the load counter's alarm races with the creation of its semaphore; tests
are deleted wherever their task is blocked. Correct when arming never fails, each
measurement is of the round it is counted for, and rounds end.

**EtherCAT servo** (`apps/soem_servo*`; its clock in *ServoClock*, its drives in
*ServoDrives*). State: a 64-bit clock extended from the 32-bit counter; the
outputs and inputs of the process image, the control word, the point reached on
the path. Operations: the alarm handler, `osal_gettime()`, the control cycle.
Hard: the clock is read without a lock while the handler changes it; the drive
faults at any time, frames get lost either way, and notifications pile up
meanwhile. Correct when time read is the time elapsed, up to the handler's
latency, when no target is further from the axis than it may go in a period, and
when a drive operates again after a fault.

**RPMsg wrapper** (`libs/rpmsg`, *Rpmsg*) with the two ping-pong applications.
State: endpoints, a name service queue. Operations: start-up, create, destroy,
send, receive, announce. Hard: the name service task frees an endpoint that
others use; announcements come before anyone listens, or while the queue is
full; the other side takes back what it announced. Correct when the master has
the endpoints that are there, and the application plays its rounds.

**RPMsg measurement** (`apps/rpmsg_perf`, and the tool that orders its tests,
`tools/rpmsg_perf`; *RpmsgPerf*). State: a byte count and a packet size, the
parameters and the count of the core's own test, a semaphore, the buffers held.
Operations: the commands that begin and end a test on either side, packets both
ways. Hard: two tasks share the parameters without a lock; a test may end without
its last command and the next be ordered while the core still sends. Correct when
the counts told are those of the test, every buffer comes back, and every test
ends.

**PTP over several SoCs** (`net/ptp_stack`, *PtpStack*; as a source of packets in
*NetSwitch*). State: sockets per port, two event queues, a software port of the
switch. Operations: set-up and its unwinding, callbacks, receive task, time stamp
task, output callback. Hard: callbacks come while the sockets are still set up,
or after the device was freed; every error path must enable the callback again.
Correct when no event is lost or doubled, the queues never overflow, and the
host gets the time stamps of its own frames.

**SRTM link** (`apps/netc_share`, `apps/rpmsg_uart_sharing`, *SrtmLink*). State:
what the monitor is to do, the RPMsg instance, the peer core, a timer, queued
polls. Operations: the monitor's cases, the poll, a reset of the other side told
by an interrupt. Hard: one state word is written by the monitor, the poll and
the interrupt; a poll from before a reset runs after it. Correct when, once the
monitor rests, instance and peer core are those of the last reset, and the link
comes up.

**Statistics** (`libs/stats`, *Stats*). State: a running set, its results, a
snapshot, a histogram. Hard: the measuring task dumps, a lower task prints in
place, the deletion of a test does both. Correct when each report is of the
samples between two dumps and every sample is reported once.

**Interrupt wrapper** (`Core_AArch64/irq.c`), **OS abstraction** (`os/`),
**demonstration applications**, **tools and board files**: no concurrency of
their own, or third-party; `PROJECT.json` lists each with the reason it has no
module.

## 2. The modules

| Module | Models | Role |
|---|---|---|
| `LossyChannel` | what a mailbox channel promises | abstract specification |
| `GenSwMboxChannel` | shared words, handler, senders, registration | implements `LossyChannel` |
| `GenSwMboxChannel_proofs` | | theorems about the above |
| `GenSwMboxRegistry` | the table of mailboxes on one core | |
| `GenSwMboxRegistry_proofs` | | its theorems |
| `Virtqueue` | one split ring, both ends, all notifications | |
| `Virtqueue_proofs` | | its theorems |
| `NetSwitch` | switch, packets, ENET, virtio-net and software ports | |
| `NetSwitch_proofs` | | its theorems |
| `VirtioNet` | virtio-net backend over MMIO, status and interrupts | |
| `VirtioNet_proofs` | | its theorems |
| `CounterAlarm` | counter hardware, alarm driver, interrupt handler | used by the next two |
| `RtLatency` | the latency measurement over two counters | |
| `RtLatency_proofs` | | its theorems |
| `ServoClock` | the servo's clock over a loop alarm | |
| `VirtioTrans` | the trans device: start-up, register writes, both tasks, kicks | |
| `ServoDrives` | the servo's control task, one drive, the path | |
| `PtpStack` | sockets, callbacks, tasks and time stamps of the PTP stack | |
| `Rpmsg` | name service, endpoints and the applications of two cores | |
| `RpmsgPerf` | the two tasks of the bandwidth measurement, and Linux | |
| `SrtmLink` | monitor, polls and resets of the link to Linux | |
| `Stats` | statistics between three tasks | |
| `MCServices` | the eight services from `ServoClock` on, one of them in each behaviour | |
| `ServiceInvariants_proofs` | | inductive invariants of five of them: `VirtioTrans`, `RpmsgPerf`, `SrtmLink`, `ServoClock` and `Stats` |
| `MCServices_proofs` | | those of `ServoDrives`, `PtpStack` and `Rpmsg`, and the theorems about all eight |
| `MC*` | instances for TLC | |

The modules meet at narrow contracts, so that each can be checked to the grain
its own hazards need: `VirtioNet` uses a mailbox channel as `LossyChannel`
describes it (a kick may be merged or, while the callback runs, lost) and a ring
as counters, since `Virtqueue` has its slots, wrap and suppression of kicks;
`NetSwitch` has the network backend as a port whose output blocks for ever at
most if the guest gives it no buffer. `NetSwitch` takes from the PTP stack that
it kicks its port after its packets, from one task or from two; `PtpStack` has
the tasks that do. `VirtioTrans` has the tasks and register writes above the
rings, and takes the decision to interrupt, which `Virtqueue` details, as open.

The services that share neither state nor calls are checked in one state space,
`MCServices`: `alive` says which one a behaviour is of. Each is a module of its
own with its own `Spec`; `MCServices` instantiates them, renaming the variables
whose names collide, and states one invariant per property that matters and one
temporal property, `WorkEnds`, the conjunction over the services of the formulas
`TestEnds`, `AxisOperates`, `SocketsAreRead`, `PingPongEnds`, `TestsEnd` and
`LinkComesUp` of their modules. All six have the form `<>[]P`, so that `WorkEnds` is `<>[]` of
one state predicate.

Conventions: variables have the names of the C fields; `pc`, `spc`, `dpc`...
hold the point a task has reached, and each action is the code between two
points at which another task, the interrupt or the other core can see a
difference. Every module ends with its properties. A definition introduced by
"A slip:" is a plausible mistake in the definition after it, kept to show that a
property notices it; no specification uses one.

### GenSwMboxChannel

The `tx` words of one side are the `rx` words of the other, so `status[s][c]`
and `data[s][c]` are named by the side that transmits. Messages are numbered in
the order they are offered. `pend[s]` is the interrupt at the GIC: level of a
single bit, so two interrupts merge. The handler (`EnterHandler` ...
`FinishNoAck`) walks all channels, one access to a shared word per action; it
preempts the senders of its side, and runs to completion. `Attach`, `ClearRx`,
`ClearTx` and `EnableIRQ` are `gen_sw_mbox_register()`; the page is cleared word
by word while the peer may be live. Sending is `SendStart`, `PollReady` or
`GiveUp`, `WriteData`, `WriteBusy`, `KickRemote`, `PutRef`.

### GenSwMboxRegistry

A call is `Call` (the task picks a function and a page), `Acquire` (semaphore),
then the action of the function; what runs under `mbox->lock` is one step.
Freed objects can be allocated again, so that a stale pointer may reach a new
mailbox. `sem`, `inst`, `ref` and `irq` are the code's; `owed`, `leaked`,
`refused` and `torn` are history variables that count what the properties
relate to them.

### Virtqueue

The device (`GetIovEmpty`, `GetIovTake`, `GetIovSetEvent`, `AddUsedElem`,
`UpdateUsedIdx`, `NotifyCheck`, `InterruptFront`) translates `core.c`, with the
waiting loop of `trans.c`. The driver (`Publish`, `KickCheck`, `Reap`, `Arm`,
`Recheck`, `Interrupted`) is not in the repository: it is the peer that
`virtio_ring.h` describes, marked external. `Settings` is the set of queues
checked: with or without event index, a device that polls or waits, one or
several buffers per packet.

### NetSwitch

Each port has a source (`Receive`, `SwitchPkt`, `Unicast` or `VisitPort`...,
`CountOut`, `AnnounceOut`, `EndPacket`, `EndBatch`, then `TestNotify` and
`PostNotify`) and a drain (`ReceiveEvent`, `Scan`, `Output`, `Reclaim`,
`Advance`). A list operation is one step, since it is under `data_out_sem`; the
read of the list's length, the test, clearing and setting of the flag and the
post of the event are steps of their own, since they are not. The drain fetches
the next entry before it works on the current one, as
`list_for_each_entry_safe` does. Addresses, tables and links change while
traffic runs. `Second` gives a software port a second source: the tasks of the
PTP stack share `in_count` and `need_notify` of one port.

### VirtioNet

The driver runs `SetUp` and `TearDown` as scripts of register writes; each write
is sent over the mailbox, handled by `HandleWrite` in the backend's interrupt,
and acknowledged before the next. The device's tasks share one core, so an
interrupt is a step between two of theirs. The transmit, control and receive
paths are actions over `t \in Vqs`, guarded by whose turn it is. The timer is
modelled through its command queue (`cmds`) and `active`, as the FreeRTOS timer
daemon works. `pulled` records that a reset found a queue in use, and `missed`
that a kick was lost in the channel: the properties are stated up to these two,
see below.

### CounterAlarm, RtLatency, ServoClock

`hw[d]` is a counter with its compare register, interrupt enable and flag;
`Tick` moves all of them. Time is discrete and the core runs one thing at a
time, interrupts before tasks; while it has something to run, at most
`setting.delay` ticks pass between two of its steps. The driver's calls are cut
where an interrupt or a match makes a difference: `Claim`, `EnableIrq`,
`SetCompare` are `set_channel_alarm()`, `DisableIrq`, `CancelAlarm` are
`cancel_channel_alarm()`, `EnterHandler` to `ExitHandler` the handler around its
callback. The GPT and TPM drivers have the same control flow; a GPT starts from
0 again.

In `RtLatency`, `todo` is what `rt_latency_test()` still does, a sequence of
steps that each action takes the head of; `Retry`, `Measure` and `Test` are its
branches, and `script` is the same for `rt_latency_destroy()`. `early[d]` is a
history variable, see below. In `ServoClock` each read of a shared word in
`osal_gettime()` is a step, the two halves of the 64-bit sum in any order; `real`
and `took` record the true time.

### VirtioTrans

`boot` is what `virtio_trans_init()` still has to do, one element per effect an
early register write can tell apart. `HandleWrite` is the mailbox interrupt:
`call_isr()`, `virtio_mmio_mmio_callback()` and the device's handlers
(`Dispatch`). `BeginTest` ... `Report` are the points of `rx_task()` and
`tx_task()`, which have the same code; `Runs(d)` is their priorities, `ret[d]`
where a kick (`TakeLock`, `Send`, `GiveLock`) returns to. A chain is its number of
descriptors; the ring is the sequence of chains available. The driver is
external: it writes the registers of its session, each after the last one was
acknowledged, and makes chains available with a notification. Its `warm` page
still holds the magic of an earlier boot. A session starts a test only on queues
it has set up before and not cleared since, as virtio wants of a driver
(`TransAssumption`): the device does not check (`trans.c:304-320`). History
variables `pulled`, `hurried`, `switched` and `split` name the cases the properties
except, see section 3.

### ServoDrives

`control_task` is start-up (`axis_nc_init`, `ReachOperational`) and the cycle
(`Send`, `TakeNote`, `Cycle`); `out` and `status` are the two words of the
process image, `frame` the frame on its way back. `NextPeriod` is the loop alarm,
which notifies the task, and what the drive does meanwhile (`Operates`, `Faults`,
`Reacts`); the drive (`Answer`) is external, by the rules of CiA 402 for the bits
`cia402.c` sets. The path is in whole steps, one of which the axis may go in a
period; the profile of `trajectory_planner()` is a straight line.

### PtpStack

A socket is a port and a kind. `setup` is where `port_genavb_init()` is: a port, and
one of the steps in which `port_genavb_setup_sockets()` opens its sockets
(`SocketSteps`: nine of them, or the first four without PTP). `SetUpFails` is its
unwinding, as far as it goes. `armed` are the sockets of
which the library may call back; a callback disarms its socket, and the task
that serves the event enables it again (`Enable`). `HostSend` is
`genavb_host_to_sw_stack()`: `SentOn` picks the socket by tag, flags and port.
Frames and time stamps are counted, stamps with their id.

### Rpmsg

The master's tasks, `NameService` and `Application`, run on one core at one
priority, and its interrupt, `Receive`, comes at any time; the remote creates its
endpoints (`Remote`) and answers (`Echo`). `ept[s]` is the master's endpoint at
address `s`, whose `q` holds the senders of its messages. `Touch` is a use of an
endpoint, which `fault` records if it was freed. `Search` and `Compare` are
`rpmsg_get_endpoint_by_dst()`, cut where the name service task may run.

### RpmsgPerf

`Tool` is Linux: one test after another, of which the tool may be killed before it
ends it. `recv` and `send` are the points of the core's two tasks, `inbox` and
`outbox` the messages under way. A buffer the receive task uses in place counts as
`loaned` until it has handled the message; `Buffers` bounds what is under way in
each direction. The send task has the higher priority and never blocks while it
sends, so the receive task runs only while it waits (`RecvRuns`). The mode without
a copy matters for the receiver only, who gives the buffer back; sending spins
for a buffer either way. `Tests` are the parameters the tool accepts: a packet has
at least a byte, and less than the counters hold.

### SrtmLink

`m_pc` is the point of `SRTM_MonitorTask()`, `doing` the case it is in; `srtmState`
is the shared word. `PollLinkup` is `APP_SRTM_PollLinkup()` on the dispatcher task,
which runs while the monitor waits; `LinkupTimerCallback` and `TimerCommand` are
the timer daemon. `peer` counts the resets of the other side, and `epoch` says
which of them an instance or a core belongs to. The handler of a reset,
`APP_SRTM_HandleLmmPowerChange()`, is called by the system manager's notification,
which is not in the repository.

### Stats

`Measure` is a round's update with its dump, `PrintCompute`, `PrintReport` and
`Clear` are `print_stats()` on the log task, `Destroy` and `Restart` the deletion
and start of a test. `window` and `snap_window` are the samples themselves: the
properties compute from them what the code accumulates.

## 3. The runs: what is checked

| Run | Properties | Shows |
|---|---|---|
| `mbox_attach` | `TypeOK`, `Referenced`, `BlockingSendReturns` | while both sides register and unregister, a reference protects each call in progress and a blocking send ends unless the peer is gone |
| `mbox_link` | `NoLostInterrupt`, `NoLostAck`, `IsLossyRegister` | no busy or done word goes unnoticed; each channel implements `LossyChannel` (refinement) |
| `mbox_loss` | `ClearedMeansReceived` (violated) | a message sent while the callback runs is cleared unread |
| `mbox_registry` | `TypeOK`, `NoUseAfterFree`, `Accounted`, `PagesOwned`, `CallsReturn` | two tasks use every function on more pages than the table holds |
| `virtqueue` | `TypeOK`, `OneOwner`, `NoLostNotification`, `BuffersReturn` | every kind of queue, through several wraps |
| `virtqueue_wrap` | `EventWhenPassed` (violated) | an event missed after a full turn of the index |
| `net_switch` | `TypeOK`, `BuffersAccounted`, `Announced`, `FlowInOrder`, `QueuedIsSent` | packets of every kind of port, with full queues, and configuration changes under traffic |
| `switch_static` | `StaticFlagMeansStatic` (violated) | a heap clone carries the flag of a static buffer |
| `switch_two_tasks` | `QueuedIsSent` (violated) | two tasks push into one software port: the kick of one forgets the packet of the other |
| `virtio_net` | `TypeOK`, `QuietResetIsSafe`, `ProbesStartAfresh`, `NoLostInterrupt`, `BuffersUsedAndSeen` | packets both ways, control commands, probes, removals and abandoned probes |
| `rt_latency` | `TypeOK`, `AlarmsAreFree`, `MeasuredIsProgrammed`, `MeasurementEnds` | late alarms, timeouts and retries; interrupt load; tests deleted and started again |
| `services` | `TypeOK`, `NoFault`, `Exclusion`, `CountIsCurrent`, `ClockKeepsTime`, `NoJump`, `SocketsServed`, `NamesAgree`, `PeerLinked`, `StatsAreThose`, `WorkEnds` | the trans device, the servo's clock and drive, the PTP stack, the RPMsg wrapper and its measurement, the SRTM link and the statistics, each with the failures, races and restarts its code meets |

Several properties are a conjunction of named parts: `Accounted` is `RefsAccounted`
and `SemaphoreAccounted`; `PagesOwned` is `OneMboxPerBase` and `InterruptOwned`;
`NoLostNotification` is `NoLostKick` and `NoLostInterrupt`; `BuffersAccounted` is
`OneOwner` and `OnlyClonesLeak`; `Announced` is `QueuedIsAnnounced` and
`FlagIsFollowed`; `ProbesStartAfresh` is `IndicesInOrder` and `RunFollowsLive`;
`BuffersUsedAndSeen` is `PostedIsUsed` and `UsedIsSeen`; `ClockKeepsTime` is
`LoopAhead`, `NoDrift` and `TimeRead`; `SocketsServed` of `MCServices` is
`SocketsServed` and `StampsAreThose` of `PtpStack`; `CountIsCurrent` of `MCServices`
is that of `VirtioTrans` and `CountsAgree` of `RpmsgPerf`.

Some properties hold with an exception the code really needs, and say so:

- `RefsAccounted` counts the sends that gave up (`gen_sw_mbox.c:175`), which
  never return their reference; `SemaphoreAccounted` and `CallsReturn` except a
  refused unregister (`:367`), after which the semaphore is gone.
- `InterruptOwned` excepts a mailbox registered while another one of the same
  page is removed (`:375`).
- `OnlyClonesLeak` excepts heap clones of static packets.
- `QuietResetIsSafe`: a reset is safe when no task is about to use the queues it
  clears; one that zeroes a busy queue may fault the core (`core.c:75` divides by
  `num`), and nothing in the transport makes a driver wait for the tasks.
- `NoLostInterrupt` and `UsedIsSeen` of `VirtioNet` hold until a kick is lost in
  the channel.
- `NoLostInterrupt` of `Virtqueue` excepts the stall that `virtqueue_wrap` exhibits
  (`quiet` counts the entries since the last interrupt); `BuffersReturn` is about
  the queues without event index, where it cannot happen, whose device does not
  wait for a second buffer.

- `MeasuredIsProgrammed` excepts a round whose counter passed the compare value
  of an earlier round between the enabling of the interrupt and the new value
  (`counter_gpt.c:211-212`); `AlarmsAreFree` excepts the same for the load alarm,
  whose handler may then give a semaphore not made yet (`rt_latency.c:141-143`).
- `TimeRead` excepts a count equal to that of the last handler, where the code
  adds 2^32-1 ticks (`soem_servo/freertos/main.c:126`), and allows for the tick a
  wrap costs. Before the first alarm the time runs ahead by the count at the
  start, and each handler moves it by its own lateness: the property bounds
  both, so the clock may step back by as much.

- `NoFault` of `VirtioTrans`: a driver that finds the magic of an earlier boot
  writes before the header is known (`mmio.c:168-171`); a start or notification
  that comes before `virtio_trans_init()` returns finds no semaphore or task; a
  reset in the middle of a test clears the ring the task is at.
- `Exclusion` is about `tx_task`, whose priority protects its use of the one
  `iov[]`; `rx_task` may go on with the other's buffers (`trans.c:71`). Both tasks
  send at once only after a take of `mbox_lock` timed out
  (`generic_software_mailbox.c:162`).
- `CountIsCurrent` excepts a test the driver stopped or resized before it read
  the count: the stop leaves it running (`trans.c:322`). `TestsOver` excepts a
  change of the polling mode under a test, after which a waiting task is not
  notified any more, and buffers the driver does not provide.
- `NoJump` excepts the cycles that make up for notifications missed during a lost
  frame (`soem_servo/freertos/main.c:319`), a position that could not be read
  (`axis_nc.c:287`) and a fault that left the axis off its target. `Operating`
  excepts a fault reset while the drive still reacted to the fault: the bit stays
  set, and the drive waits for it to rise (`cia402.c:112-115`).
- `NoFault` of `PtpStack`: a frame that comes between `ptp_multisoc_stack.c:494`
  and `:498` meets a null port; a set-up that fails at a bridge port leaves the
  PTP sockets of the endpoint ports open, with callbacks into freed memory
  (`:651-668`). `SocketsServed` and `AllRead` except a socket whose callback could
  not be enabled again, which is only logged.
- `NoFault` of `Rpmsg`: the application uses a freed endpoint only if its own peer
  withdrew it. `NamesAgree` and `RoundsOver` except peers whose announcement came
  before the name service was bound or while its queue was full
  (`rpmsg.c:92`), or that the name service had no memory for.
- `CountsAgree` excepts a test of Linux whose bytes pass 2^32: `rx_len` wraps
  (`rpmsg_perf/freertos/main.c:246`). `NoFault` of `RpmsgPerf` excepts two tests
  ordered before the send task is created, which give its semaphore twice
  (`:228`). Its `TestsOver` excepts ticks that wrap under a test, which then ends
  at its first packet or a whole turn late (`:225`, `:141`).
- `NoFault` and `PeerLinked` of `SrtmLink` except a reset that comes before the
  monitor's first start (`app_srtm.c:671`), while a core is being destroyed
  (`:599`) or while a reset is still handled, which `:686` overwrites; and a poll
  left from before a reset that links a second time. `LinkIsUp` excepts a poll
  that could not be allocated (`:361`), and a main task that waits for the link
  when it was up at once (`rpmsg_uart_sharing/freertos/main.c:35`).
- `StatsAreThose` excepts samples in a full set, which no one prints, and those
  after a snapshot that is still pending when the test is deleted
  (`rt_latency.c:91`).

The exceptions are kept as narrow as the code allows, and each is a hazard in
`PROJECT.json`.

For every property there is a mutant: a plausible mistake in one definition of
the model that makes TLC report that property. Properties that cover several services or parts have more
than one.

## 4. Bounds

| Constant | Value | Why it is enough |
|---|---|---|
| `MaxCh` | 2 | one channel the handler has passed and one still to come |
| `MaxMsg` | 2 | one message in the callback, the next one overwriting its word |
| `MaxAttach` | 2 | a registration after an unregister |
| `Ack` | {1} or {0} | both paths of the handler in one instance |
| `MaxInst`, pages, calls | 2, 3, 2 | more pages than entries; each task can undo or repeat what it did |
| `Num`, `Modulus` | 2, 4 | ring shorter than the index range; every index wraps, without limit on the number of buffers |
| `Heap`, `Pool` | 2, 1 | allocation and clone failures happen |
| `Urgent`, `Depth`, `Threshold` | 2, 1, 0 | the second packet of a list posts its own event; the queue overflows at once; a software port announces every second packet |
| `Loads` (switch) | up to 2 packets, 2 changes | one packet in a list while another is added or announced; a change between two steps of a broadcast |
| `TimerLen`, `CoalCnt`, `MaxBufs` | 1, 2, 2 | the timer's command queue overflows; both the count and the timer end a batch; a packet over two buffers |
| `Loads` (virtio-net) | up to 2 buffers a queue, 2 packets, 2 probes | traffic both ways, in one probe and across a removal |
| `Top` (latency) | 25 | leaves a timeout and the steps after it room before the wrap, as the comment at `rt_latency.c:166-169` requires (`LatencyAssumption`) |
| `Ticks`, `LoadTicks`, `Spin`, `Timeout` | 5, 4, 1, 7 | load interrupt just before the measured one; timeout after both |
| settings (latency) | TPM without load and delay 2; GPT with load and delay 1 | alarms armed too late, and interrupts that collide |
| `Top`, `Period`, `Words` (servo) | 22, 17, 2 | 17 is prime to 23: alarms at every phase of the counter, and the upper word changes at every phase of a read; `ClockAssumption` keeps a second alarm out of one read |
| `Width`, `Sessions` (trans) | 4; 16 sessions | a chain longer than what is left wraps the count; writes during start-up, both directions at once, repeated tests with stops, a change of the polling mode, a reset and a cleared queue under a test; `block_time` of 0 and 1 tick |
| `Jobs`, `MaxLost`, `Patience` (drive) | 2 jobs; 1, 1 | a cyclic path with a fault and two lost frames, and one that ends, with two faults; the task gives up at the second frame lost while it operates |
| `Depth`, `Plans` (PTP) | 4; 3 plans | the two ports of a plan have three sockets with callbacks each, of which two share a queue: `Depth` is all that can be waiting, and `SocketsServed` says that no more can be; set-up with a failure at each call, time stamps on two ports, a call that fails at each point |
| `QueueLen`, `Rounds`, `Cases` (RPMsg) | 1, 2; 3 cases | a second announcement finds the queue full; a pong before the last ping; two endpoints in both orders, one call that fails |
| `CountWidth`, `TickWidth`, `Buffers`, `Scripts` (measurement) | 7, 5, 2; 3 scripts | bytes that pass the wrap, ticks that do; both directions full; a test without an end before one that has it, tests ordered while the one before runs or before the send task is there; each of the modes |
| `Setups` (SRTM) | 3 | three resets, the third while the second is handled; a main task; a failed allocation, with and without a reset |
| `Samples`, `StatsPeriod`, `Log2Size`, `Slots`, `MaxSamples`, `MaxTests` | {0, 2, 7}, 2, 2, 2, 4, 2 | the least and the greatest sample in any order; a dump every second sample; a full set at the fourth; a second test on the first one's state |

The drift of a TPM's counters against each other makes the latency test with load
on a TPM too large for a run; its first steps show the case that
`AlarmsAreFree` excepts.

What may happen in one behaviour of the switch and the network backend is chosen
in `Init` from a set of loads, so one run covers several scenarios without their
product.

## 5. Fairness and deadlock

Weak fairness throughout, but for two actions, named below.

- `GenSwMboxChannel`: the handler runs when its interrupt is pending; a task
  that is not blocked is scheduled; a registration once begun ends. Nothing
  obliges a task to send or a side to register.
- `GenSwMboxRegistry`: a task in a call goes on. Waiters for the semaphore get
  it under weak fairness because the calls are bounded.
- `Virtqueue`: the device runs; the driver, having published, decides whether to
  kick, handles its interrupts, and rechecks after arming. It need not publish.
- `NetSwitch`: every task is scheduled; a source finishes what it began; the
  owner of a software port kicks after its packets, as
  `ptp_multisoc_stack.c:288-290` and `:382-383` do. The output callback returns.
- `VirtioNet`: interrupts are taken, tasks and the timer daemon run, the driver
  finishes a register script and an interrupt it began.

- `RtLatency`: tasks and interrupts take their steps and time passes; nothing
  obliges anyone to delete a test. `ServoClock` and `Stats` state safety only.
- `VirtioTrans`: the device starts, writes are handled, a driver that made chains
  available says so and provides the rest, `tx_task` runs. Strong fairness for
  `rx_task`, which runs whenever `tx_task` blocks, again and again: FreeRTOS gives
  a ready task of lower priority the core as soon as no higher one is ready.
- `ServoDrives`: the control task and the alarm go on; strong fairness for the
  drive's reaction to a fault, which ends after some periods by the drive's own
  time, though at each period it may also still last.
- `PtpStack`: set-up goes on, the library calls back for an armed socket with
  something to read, the two tasks run. The network and the host need not send.
- `Rpmsg`: start-up goes on, messages on a channel arrive, tasks run; two tasks of
  one priority share the core by time slices.
- `RpmsgPerf`: the tool and the driver of Linux go on, the core's tasks run when
  their priority lets them, ticks come.
- `SrtmLink`: the monitor, the dispatcher and the timer daemon run, the other
  side's driver gets ready after a reset; resets need not come.

`CHECK_DEADLOCK FALSE` is in the configurations whose instances end:
messages, calls, packets and probes are bounded, and a core that took a fault
stays halted. Two behaviours also stop before that for reasons of the code: a
refused unregister leaves the library's semaphore taken, and the stall of
`virtqueue_wrap`. `CallsReturn`, `BuffersReturn`, `WorkEnds` and the other liveness
properties cover what deadlock checking would have.

## 6. The proofs

TLC checks an instance; the modules `*_proofs` prove the same properties for every
value of the constants: any number of channels, tasks, pages, ports, buffers,
entries, messages, ring sizes and widths of the counters, and any load, session or
script. Each module states an inductive invariant, proves that the initial states
satisfy it and that every action keeps it, one step per action, and derives the
properties. The theorems that state a property of a run:

| Module | Theorem | Property |
|---|---|---|
| `GenSwMboxChannel_proofs` | `TypeCorrect` | `TypeOK` |
| | `LostInterruptImpossible` | `NoLostInterrupt`: a busy channel always has a receiver that will look at it, also with several tasks sending on one channel |
| | `LostAckImpossible` | `NoLostAck`: a channel left at done always has a handler that will turn it to ready |
| | `NeverFreedInUse` | `Referenced`: a call in progress keeps the mailbox registered |
| | `ImplementsLossyRegister` | `IsLossyRegister`, the refinement of `LossyChannel`, assuming `OneSenderPerChannel` |
| `GenSwMboxRegistry_proofs` | `TypeCorrect` | `TypeOK` |
| | `NeverUsedAfterFree` | `NoUseAfterFree`: no call touches a mailbox that was freed |
| | `AlwaysAccounted` | `Accounted`: references and the semaphore are those the calls in progress hold |
| | `PagesAlwaysOwned` | `PagesOwned`: a page has one mailbox, which has its interrupt |
| `Virtqueue_proofs` | `TypeCorrect` | `TypeOK` |
| | `OwnedOnce` | `OneOwner`: every descriptor is with the driver, available, with the device or used, and only one of these |
| | `NotificationsKept` | `NoLostNotification`: neither side sleeps on what the other has done, but for the stall of `virtqueue_wrap` |
| `NetSwitch_proofs` | `TypeCorrect` | `TypeOK` |
| | `BuffersAlwaysAccounted` | `BuffersAccounted`: a buffer is in one place, and only clones of static ones leak |
| | `FlowsStayInOrder` | `FlowInOrder`: what a source sent leaves each port in that order, once |
| | `AlwaysAnnounced` | `Announced`, assuming `OneSource`; its first half, `QueuedIsAnnounced`, without (`QueuedAlwaysAnnounced`) |
| `VirtioNet_proofs` | `TypeCorrect` | `TypeOK` |
| | `ResetsAreSafe` | `QuietResetIsSafe`: clearing queues no task is at never halts the core |
| | `ProbesAreFresh` | `ProbesStartAfresh`: indices start at 0 in each probe, and the link follows the status |
| | `InterruptsAreKept` | `NoLostInterrupt`: a used buffer the driver asked about is announced, unless a kick was lost |
| `RtLatency_proofs` | `TypeCorrect` | `TypeOK` |
| | `AlarmsAlwaysFree` | `AlarmsAreFree`: no claim of an alarm is refused and no semaphore is given that does not exist, unless the load alarm was early |
| | `MeasuresTheRound` | `MeasuredIsProgrammed`: a round measures its own interrupt, unless its alarm was early |
| `MCServices_proofs` | `TypeCorrect` | `TypeOK` |
| | `FaultsAreThose` | `NoFault`: no null or freed pointer, failed assertion or semaphore given twice in five services, but in the cases their `NoFault` names |
| | `ServicesExclude` | `Exclusion` of the trans device |
| | `CountsAreCurrent` | `CountIsCurrent` of the trans device and of `RpmsgPerf` |
| | `ClockKeepsItsTime` | `ClockKeepsTime`: the servo's loop never loses its alarm, its sum of ticks does not drift, and `osal_gettime()` returns the time of its reading, whatever interrupts come between its reads |
| | `DriveNeverJumps` | `NoJump`: a drive that follows is sent at most one step away from where it is |
| | `SocketsAreServed` | `SocketsServed`: a socket with a callback is armed, queued or being served, and a queue is never full; the host gets the time stamps it asked for |
| | `NamesAreAgreed` | `NamesAgree`: the master has one endpoint for each peer there is, none for one that is gone |
| | `LinkFollowsResets` | `PeerLinked` of the SRTM link |
| | `StatisticsAreThose` | `StatsAreThose`: what is printed are the extremes, mean and variance of the samples of its window, and no sample is lost uncounted |

Every invariant that a run checks is stated by one of these theorems. The services
are proved about in the modules that know all of them, not one by one: a theorem
of `MCServices` is about the state its run checks. `ServiceInvariants_proofs` has
the first five inductive invariants; `MCServices_proofs` extends it with the other
three, and shows that the conjunction, `ServicesInv`, is the invariant of `Spec`:
a step of the services is a step of one of them, and leaves the others as they
were (`ServicesSteps`).

### Assumptions

The named `ASSUME`s of the modules, which TLC evaluates on every run: types of the
constants, and

- `RegistryAssumption`: finitely many tasks, since references are counted, and at
  least one page;
- `RingAssumption`: the ring size divides the range of the indices and is less;
- `SwitchAssumption`: a second source is one of a software port;
- `LatencyAssumption`: the load alarm is set to fire before the other one, a round and
  its timeout end before the counter is back where it began, as the comment at
  `rt_latency.c:166-169` requires, and three interrupt delays are less than the
  period of the load alarm (100 us less 1, `rt_latency.h:21`), so that its semaphore
  is made before the alarm it is for can fire (`rt_latency.c:133-144`);
- `TransAssumption`: a session starts a test on queues it has set up;
- `PerfAssumption`: packets have a byte at least and fit the counters, as the tool
  demands (`tools/rpmsg_perf/rpmsg_perf.c:77-81`);
- `ClockAssumption`: the handler and the reader do a step in time: 16 delays are
  less than a period, so that no second alarm comes in one read, and a period and
  four delays less than the range of the counter, so that the alarm is always less
  than a turn ahead. The code has a period of a millisecond (`soem_servo` `main.c:34`)
  on a counter of 32 bits;
- `DrivesAssumption`: a path is not empty, each segment of it takes a period at least,
  and a step along it is one at most, which is the unit of the model;
- `PtpAssumption`: a device has each port once, its bridge ports have hardware
  numbers of their own, and a queue holds an event of each socket that posts to it:
  100 (`ptp_multisoc_stack.c:573`, `:596`), and there are `CFG_EP_NUM` and
  `CFG_BRIDGE_NUM` ports at most, 2 and 4 (`lib_port_genavb.h:22-23`);
- `RpmsgAssumption`: finitely many peers, of different addresses that are not 0;
- `StatsAssumption`: samples are not negative, and a period, a slot and a set are not
  empty. That `2^Log2Size` is a number is part of it, since the provers know
  nothing of powers.

Two theorems have a hypothesis of their own, for a reason that a run shows. The
refinement needs `OneSenderPerChannel`, which the code does not enforce:
`gen_sw_mbox_sendmsg()` holds no lock between the poll and the write of busy
(`gen_sw_mbox.c:173-180`). `AlwaysAnnounced` needs `OneSource`, that one task pushes
into each port: with two, a port's flag may stay set with no kick to come, which is
what `switch_two_tasks` exhibits. That what is queued is at least flagged
(`QueuedIsAnnounced`) holds even then.

### The invariants, and why they are what they are

Few of the properties are inductive by themselves. TLC checked each invariant below
before it was proved, on the run's instance and on larger ones, and, where the
domains allow, that it is inductive, from every state of a small domain that
satisfies it. The figures are distinct states of the largest instance.

- **Channel** (348,683). `TypeOK`, `NoLostInterrupt` and `NoLostAck` with it, go
  action by action: the handler, having left a channel behind, is idle only after a
  full pass, and every write of busy is followed by an interrupt. `RefsHeld` counts
  the references of the calls. The refinement needs `OrderInv`: the data word never
  runs behind the receiver; a busy channel and a sender about to mark it busy hold a
  message newer than any the receiver has read; and while a sender writes, the
  channel is not busy. Without the last part a reader could be given the message
  that is just being written and again when it is marked busy.
- **Registry** (18.2 million). What a task looked up under the semaphore is still so
  (`LookupHolds`); a mailbox in use stays in the table (`UsersHold`); one on its way
  out has one remover, which switched its interrupt off before it frees
  (`RemoversOwn`, `IrqOffFirst`); a page's interrupt is given to a live mailbox of
  that page (`IrqOfPage`, `IrqGiven`). `OwedCovers` ties the calls that unregister a
  callback to the callbacks there are: without it two could unregister the same one,
  and the second would meet a mailbox that is gone. `RefsAccounted` needs that a set
  of tasks changes by one at a time, hence finitely many.
- **Virtqueue** (18.5 million). `Owned` says that the four places of a head are
  disjoint, that no ring repeats one and that their sizes add up to `Num`, which is
  more than `OneOwner`: an entry of a ring overwritten too early is only excluded by
  the count. `Staged`: the device's packet is already in the used ring, ahead of the
  index. `KickComing`, `Armed` and `QuietCounted` describe the two handshakes, in
  which each side asks for a notification and looks again; the lemmas on distances
  between indices modulo `Modulus` are proved once.
- **Switch** (3.0 million with two sources, 7.2 million of a larger load). `DrainAt`: the entry a pass
  works on is the head, and the next one it remembers is behind it, whatever was
  appended meanwhile. `Numbered` and `Ordered` are `FlowInOrder` by index, with the
  packet in hand: a port not yet visited has only earlier ones. `QueuedIsAnnounced`
  is inductive with these; `FlagIsFollowed` needs `OneSource`.
- **Network backend** (16.8 million). `Scripted` and `SetUpTo` say how far the
  driver's register writes have got and what the device has made of them;
  `NobodyThere` that a task is only at a queue that is enabled. `AllHeard` follows
  the announcement of a used buffer through its stages: the decision to notify, the
  timer, the status bit, the kick, the driver's scan.
- **Latency test** (1.9 million; a larger one, with load on either kind of counter,
  to 21 million states). `State` says for each of the places the two tasks can be at
  in their code what is left of it, `TaskAt` and `ScriptAt`; how far either alarm is,
  from its claim to the end of its interrupt (`MainAlarm`, `LoadAlarm`); and the time.
  Neither property is inductive without the time. That a retry finds the alarm free
  needs that a timeout comes after every interrupt it could race with, hence the
  ticks since the round was programmed, `RoundAt`, bounded by what each step and each
  handler can take (`RoundSpent`, `LoadSpent`) and never a whole turn of the counter.
  That the load alarm gives a semaphore that exists needs the ticks it still has
  (`LoadDue`). `Measured` is about the time read, from the handler to the
  measurement. The counters wrap, so the lemmas on differences modulo `Top + 1` come
  first.
- **Trans device** (159,907). `FollowsSession` says where the driver is in its
  session, by positions, so that a start finds its queues set up; `TestsServed`,
  `VectorHeld` and `LockHeld` are about who is where in the tasks; `CountKept` that a
  test not hurried is the only one, with its size in hand.
- **`RpmsgPerf`** (169,431). `TestUnderWay` describes the messages not handled yet,
  the one in hand first: the start, the packets and the end of the test, or the
  packets that `rx_len` does not count yet. `CountsAt` is the sum of the two counts
  of the send task, and `LoanAt` the buffer lent.
- **SRTM link** (79,184; inductive from 2.4 million states). Until a fault: `CaseAt`
  ties the shared state word to the case the monitor is in, `PollsAt` says when a
  poll can be at work, `ResetPending` where a reset not handled is remembered,
  `CoresCounted` and `LinkedOnce` that one core is linked but for the stale poll
  that `PeerLinked` excepts. Nothing is assumed of its constants.
- **Servo's clock** (382,075). After the boot (`BootAt`), `LoopAt` relates all that
  runs at its own pace - the count, the compare register, `system_ticks`,
  `ticks_last` - to the true time, by how far each is behind it; three numbers are
  enough, and each point of the handler has its range for them. `ReadingAt` says
  what `osal_gettime()` has in hand at each of its steps: what it read is still so,
  or an alarm has come so shortly before (`Fresh`) that there is not time for another
  until the reading is over, and the check that follows finds it. The sums and
  differences are modulo the turn of the counter and modulo the words of the sum;
  lemmas on remainders come first.
- **Servo's drive** (19.3 million). `Course` and `Joined`: the next target is a step
  at most from the last, also from segment to segment and from the end of a cyclic
  path to its start. `TargetsAt` has the target in the process image, the drive's
  and the position one step at most apart, and needs to know at which points the
  frame in flight has found the drive operating, since only such a frame moves the
  target on.
- **PTP stack** (23,733; 159,063 on larger plans). `SetupAt` says which sockets are
  open, hooked and marked, by the step the set-up has reached; `TasksAt`, `QueuesAt`
  and `NoneForgotten` that a socket is in one place. That a queue has room is then a
  count: its events are of different sockets, at most two of each port.
- **RPMsg wrapper** (4,201; 27,318 on larger cases). `PipeAt` follows an announcement
  from the channel through the queue to the task, in one place at a time and each
  peer's creation before its end. `EndpointsAt` and `PeersAt` relate the table to
  it, `AddressesAt` shows that addresses do not run out, `RemoteAt` that each peer is
  announced once, and `PlayAt` that the endpoint the application holds is that of
  the peer it looked for.
- **Statistics** (1.4 million). `SetOf`: the fields of a set are the count, sums and
  extremes of the samples in it; `SeenAt` the same since the test began; `ResultsOf`
  of a set that was computed, by shifts or by divisions; `HistAt` and `AccountAt` that
  every sample is in the histogram and in one set, or was counted as lost. A sum
  over a window is a recursive function of its length. The library's induction
  theorems cannot be used (they take an operator), so induction is proved as a
  lemma about sets, `Numbers`: a set that has 0, and with each number the next, has
  them all, since otherwise the step down would be an injection of finitely many
  numbers into all but the last of them. That the sum exists, and grows by what is
  appended, follows (`SumsExist`, `TotalIs`, `TotalMore`).

### What is only model-checked

- Liveness: `BlockingSendReturns`, `CallsReturn`, `BuffersReturn`, `QueuedIsSent`,
  `BuffersUsedAndSeen`, `MeasurementEnds`, `WorkEnds`. The prover has neither fairness
  nor `ENABLED`.

No module uses a `RECURSIVE` operator.

## 7. What the models found

- `mbox_loss` - `gen_sw_mbox.c:151`. The handler marks the channel done before
  the callback, and ready or done again after it. The sender may already have
  sent the next message: its busy is overwritten and the message is never read.
- `virtqueue_wrap` - `core.c:127`. The index of the last event is only stored
  when one is due. After a whole turn of the 16-bit index without an event,
  nothing seems to have been added, and the event the driver then sleeps for is
  missed.
- `switch_static` - `data_pkt.c:53`. Cloning copies the flag that says the packet
  is in a static buffer; freeing the clone never returns it to the heap.
- `switch_two_tasks` - `port_software.c:36`. The kick tests and resets `in_count`
  without a lock. When both tasks of the PTP stack push into one port, one kick
  resets the count for a packet of the other that is not queued yet; the other's
  kick then finds 0 and notifies no one, and the packet waits for later traffic.

## 8. What is abstracted, and what is not modelled

- Memory is sequentially consistent. The code's barriers are therefore not
  tested; a missing one would not be seen.
- Frames, headers, register layouts and log output are left out. A message is a
  number, a packet has a source, a destination class and a sequence number.
- `HandleTxDone` tests and writes a status word in one step: only its own
  side's sender also writes that word, and the handler preempts it.
- An interrupt has one handler and argument, the last registered, as
  `Core_AArch64/irq.c:23-46` keeps them.
- In the switch, ports are fixed: `switch_remove_port()` has no caller. The scan
  of `find_dst_port()` is one step. What a freed block still contains is
  forgotten; using a freed block is what `OneOwner` forbids.
- The alarm driver has one channel per counter, as its code. A local variable is
  0 when its function has returned, and the times of a round after their last
  use. Whoever reads the servo's time does so whenever it likes.
- `counter_gpt.c:161` says an alarm can be set again from its own callback. The
  handler resets the alarm after the callback (`:86-87`), so set_channel_alarm()
  returns -1 there; no caller in the repository does it, and no module models it.
- In `VirtioNet` the device starts initialised (`VirtioTrans` has the start-up,
  which is the transport's and the same); only the queue bit of the interrupt
  status is ever set; kick suppression is in `Virtqueue`; every sender on the
  channel sends the same word, so the lock of `mbox_kick_front()` is only in
  `VirtioTrans`.
- In `PtpStack` the contents of tags, the counters of the statistics and the
  conversion between clocks are left out. In `Rpmsg` what the task reads, for the
  log, of an endpoint just freed (`rpmsg.c:74`) is what the block still holds; a
  message is its sender. The master's branch of `rpmsg_deinit()` has no caller; the
  remote's is the end of a failed start-up, before the core stops at an assertion.
- In `RpmsgPerf` the driver of Linux, which is not in the repository, is what the
  core's messages and the tool require of it; the contents of packets, the loss
  printed and the load statistics are left out.
- In `ServoDrives` there is one axis. The check of the slaves, the remapping of
  PDOs and the parsing of the configuration come before it, and a profile that
  cannot be planned is left out. `soem_servo_rt1180` does not give up after lost
  frames.
- In `SrtmLink` the services on the link (Ethernet, I2C, PCI, audio, UART) are the
  SRTM library's. The i.MX 95 variant adds the peer core twice.
- In `Stats` the samples are not negative and the square of their sum fits 64
  bits; `hist_init()` with more slots than there are is not called.
- A hazard without a model: a load task of the latency test that cannot be created
  jumps to `destroy_test_case()`, which returns at once because the test is not
  started (`rt_latency/freertos/main.c:206`): the tasks already made run on.
- Not modelled: the wrapper over the hardware message unit, lwIP and
  EtherCAT digital I/O demonstrations, driver examples, and the parts of section 1
  that name no module. The pin, clock, memory and console set-up of each board
  under `apps/*/*/boards` and `os/*/boards` is most of the repository's lines: it
  is generated, runs once before anything else does, and keeps no state a property
  could relate.

## 9. Plan

Done, in this order: the mailbox channel (core of all communication) with its
abstract specification and proofs, the registry, the virtqueue, the switch, the
network backend, the counters with the latency measurement and the servo's clock;
then the trans device, the servo's drives, the PTP stack, RPMsg with its measurement,
the SRTM link and the statistics, and the software port used by two tasks.

The proofs of section 6 cover the safety of all of these.

Left: several axes in `ServoDrives`, and the disable counter of the mailbox
wrappers, with the invariants they need.
