---------------------------- MODULE Virtqueue ----------------------------
(***************************************************************************)
(* One split virtqueue between the back-end of this framework              *)
(* (src/virtio/devices/core.c) and a front-end driver on another core.     *)
(* The device side translates the code; the driver side is the peer the    *)
(* ring's header (src/include/virtio/uapi/virtio_ring.h) describes, and is *)
(* external.  Indices are free-running counters of fixed width: Modulus    *)
(* stands for 2^16.  The device takes Batch buffers per packet: one in the *)
(* transmit tasks, as many as the frame needs in virtio_net_rx_callback(). *)
(***************************************************************************)
EXTENDS Integers, Sequences, FiniteSets

CONSTANTS
  Num,        \* vring.num
  Modulus,    \* 2^16
  Settings    \* the kinds of queue, see Setting

(* What a queue is set up with: use_event_idx (VIRTIO_RING_F_EVENT_IDX),   *)
(* whether its idle task polls or waits for a notification, and the        *)
(* numbers of buffers a packet may need.                                   *)
Setting == [use_event_idx : BOOLEAN, polls : BOOLEAN,
            batches : SUBSET (1 .. Num) \ {{}}]

(* "We assume num is a power of 2" (virtio_ring.h): what the code needs is *)
(* that num divides the range of the indices and is smaller.               *)
ASSUME RingAssumption ==
  /\ Num \in Nat \ {0}
  /\ Modulus \in Nat
  /\ Modulus % Num = 0 /\ Num < Modulus
  /\ Settings \subseteq Setting

VARIABLES
  avail_idx, avail_ring, used_idx, used_ring,  \* the shared rings
  used_event, avail_event, no_interrupt,       \* the shared event words
  setting,                                     \* fixed at set-up
  last_avail_idx, last_notified_idx,           \* struct virtqueue
  dpc,      \* point reached by the device task
  batch,    \* buffers its packet needs
  taken,    \* heads taken for the packet, in order
  notified, \* the device task has a notification pending
  irq,      \* the front-end has an interrupt pending
  kicking,  \* the driver has published a buffer and not yet decided to kick
  rpc,      \* point reached by the driver's completion loop
  free,     \* heads the driver owns
  last_used,\* the driver's index into the used ring
  quiet     \* history: entries used since the last interrupt (capped)

ring   == <<avail_idx, avail_ring, used_idx, used_ring>>
events == <<used_event, avail_event, no_interrupt>>
device == <<last_avail_idx, last_notified_idx, dpc, batch, taken>>
driver == <<kicking, rpc, free, last_used>>
vars == <<avail_idx, avail_ring, used_idx, used_ring, used_event, avail_event,
          no_interrupt, setting, last_avail_idx, last_notified_idx, dpc,
          batch, taken, notified, irq, kicking, rpc, free, last_used, quiet>>

Index == 0 .. Modulus - 1
Buf  == 0 .. Num - 1
DPc   == {"poll", "event", "fill", "wait", "publish", "notify", "interrupt"}
RPc   == {"run", "armed", "asleep"}

TypeOK ==
  /\ avail_idx \in Index /\ used_idx \in Index
  /\ avail_ring \in [Buf -> Buf] /\ used_ring \in [Buf -> Buf]
  /\ used_event \in Index /\ avail_event \in Index
  /\ no_interrupt \in BOOLEAN /\ setting \in Settings
  /\ last_avail_idx \in Index /\ last_notified_idx \in Index
  /\ dpc \in DPc
  /\ batch \in setting.batches
  /\ taken \in Seq(Buf) /\ Len(taken) <= Num
  /\ notified \in BOOLEAN /\ irq \in BOOLEAN /\ kicking \in BOOLEAN
  /\ rpc \in RPc
  /\ free \subseteq Buf
  /\ last_used \in Index
  /\ quiet \in 0 .. Modulus

-----------------------------------------------------------------------------
(* Arithmetic of the uint16_t indices.                                     *)
AddWide(i, n)  == i + n                  \* slip: wider than uint16_t
Add(i, n)      == (i + n) % Modulus
Distance(i, j) == (j - i) % Modulus
SlotOf(i)      == i % Num

(* Slip: the event is signalled one entry late.                            *)
NeedEventLate(event, new, old) == Distance(event, new) < Distance(old, new)

(* vring_need_event()                                                      *)
NeedEvent(event, new, old) == Distance(event + 1, new) < Distance(old, new)

-----------------------------------------------------------------------------
(* The device.                                                             *)

(* virtio_queue_get_iov() finds nothing: -1.                               *)
GetIovEmpty ==
  /\ dpc = "poll"
  /\ avail_idx = last_avail_idx
  /\ dpc' = "wait"
  /\ UNCHANGED <<ring, events, setting, last_avail_idx,
                 last_notified_idx, batch, taken, notified, irq, driver, quiet>>

(* The task blocks in ulTaskNotifyTake(), or delays and polls again.       *)
WakeUp ==
  /\ dpc = "wait"
  /\ setting.polls \/ notified
  /\ notified' = FALSE
  /\ dpc' = "poll"
  /\ UNCHANGED <<ring, events, setting, last_avail_idx,
                 last_notified_idx, batch, taken, irq, driver, quiet>>

GetIovTake ==
  /\ dpc = "poll"
  /\ avail_idx # last_avail_idx
  /\ taken' = Append(taken, avail_ring[SlotOf(last_avail_idx)])
  /\ last_avail_idx' = Add(last_avail_idx, 1)
  /\ dpc' = IF setting.use_event_idx THEN "event" ELSE "fill"
  /\ UNCHANGED <<ring, events, setting, last_notified_idx, batch,
                 notified, irq, driver, quiet>>

(* Slip: the event index of the buffer just taken, not of the next.        *)
GetIovSetEventStale ==
  /\ dpc = "event"
  /\ avail_event' = Add(last_avail_idx, -1)
  /\ dpc' = "fill"
  /\ UNCHANGED <<ring, used_event, no_interrupt, setting, last_avail_idx,
                 last_notified_idx, batch, taken, notified, irq, driver, quiet>>

GetIovSetEvent ==
  /\ dpc = "event"
  /\ avail_event' = last_avail_idx
  /\ dpc' = "fill"
  /\ UNCHANGED <<ring, used_event, no_interrupt, setting, last_avail_idx,
                 last_notified_idx, batch, taken, notified, irq, driver, quiet>>

(* Slip: the offset in the packet is ignored.                              *)
AddUsedElemFirst ==
  /\ dpc = "fill"
  /\ used_ring' = [used_ring EXCEPT ![SlotOf(used_idx)] = taken[Len(taken)]]
  /\ dpc' = IF Len(taken) = batch THEN "publish" ELSE "poll"
  /\ UNCHANGED <<avail_idx, avail_ring, used_idx, events, setting,
                 last_avail_idx, last_notified_idx, batch, taken, notified,
                 irq, driver, quiet>>

(* virtio_queue_add_used_elem(): the slot of the next used entry plus the  *)
(* offset in the packet, not yet visible to the driver.                    *)
AddUsedElem ==
  /\ dpc = "fill"
  /\ used_ring' = [used_ring EXCEPT
       ![SlotOf(Add(used_idx, Len(taken) - 1))] = taken[Len(taken)]]
  /\ dpc' = IF Len(taken) = batch THEN "publish" ELSE "poll"
  /\ UNCHANGED <<avail_idx, avail_ring, used_idx, events, setting,
                 last_avail_idx, last_notified_idx, batch, taken, notified,
                 irq, driver, quiet>>

(* virtio_queue_update_used_idx()                                          *)
UpdateUsedIdx ==
  /\ dpc = "publish"
  /\ used_idx' = Add(used_idx, Len(taken))
  /\ quiet' = IF quiet + Len(taken) > Modulus THEN Modulus
                                              ELSE quiet + Len(taken)
  /\ taken' = << >>
  /\ dpc' = "notify"
  /\ UNCHANGED <<avail_idx, avail_ring, used_ring, events, setting,
                 last_avail_idx, last_notified_idx, batch, notified, irq,
                 driver>>

(* Slip: the flag is read the wrong way round.                             *)
MustNotifyIfForbidden ==
  IF setting.use_event_idx
    THEN NeedEvent(used_event, used_idx, last_notified_idx)
    ELSE no_interrupt

(* virtio_queue_must_notify(); the device then starts its next packet.     *)
MustNotify ==
  IF setting.use_event_idx
    THEN NeedEvent(used_event, used_idx, last_notified_idx)
    ELSE ~no_interrupt

NotifyCheck ==
  /\ dpc = "notify"
  /\ dpc' = IF MustNotify THEN "interrupt" ELSE "poll"
  /\ last_notified_idx' = IF MustNotify /\ setting.use_event_idx
                            THEN used_idx
                            ELSE last_notified_idx
  /\ quiet' = IF MustNotify THEN 0 ELSE quiet
  /\ batch' \in setting.batches
  /\ UNCHANGED <<ring, events, setting, last_avail_idx, taken, notified,
                 irq, driver>>

(* ops->interrupt_front()                                                  *)
InterruptFront ==
  /\ dpc = "interrupt"
  /\ irq' = TRUE
  /\ dpc' = "poll"
  /\ UNCHANGED <<ring, events, setting, last_avail_idx,
                 last_notified_idx, batch, taken, notified, driver, quiet>>

Device ==
  \/ GetIovEmpty \/ WakeUp \/ GetIovTake \/ GetIovSetEvent \/ AddUsedElem
  \/ UpdateUsedIdx \/ NotifyCheck \/ InterruptFront

-----------------------------------------------------------------------------
(* The driver (external).  It publishes a buffer, orders that before the   *)
(* read of the event index, and kicks if the device asked for it.          *)

Publish ==
  /\ ~kicking
  /\ \E h \in free :
       /\ free' = free \ {h}
       /\ avail_ring' = [avail_ring EXCEPT ![SlotOf(avail_idx)] = h]
  /\ avail_idx' = Add(avail_idx, 1)
  /\ kicking' = TRUE
  /\ UNCHANGED <<used_idx, used_ring, events, setting, device, notified,
                 irq, rpc, last_used, quiet>>

KickCheck ==
  /\ kicking
  /\ kicking' = FALSE
  /\ notified' = (notified \/ ~setting.use_event_idx
                   \/ NeedEvent(avail_event, avail_idx, Add(avail_idx, -1)))
  /\ UNCHANGED <<ring, events, setting, device, irq, rpc, free,
                 last_used, quiet>>

(* The completion loop: take used entries, with interrupts off or not.     *)
Reap ==
  /\ rpc = "run"
  /\ used_idx # last_used
  /\ free' = free \cup {used_ring[SlotOf(last_used)]}
  /\ last_used' = Add(last_used, 1)
  /\ UNCHANGED <<ring, events, setting, device, notified, irq, kicking,
                 rpc, quiet>>

(* Nothing left: ask for an interrupt, then look again before sleeping.    *)
Arm ==
  /\ rpc = "run"
  /\ used_idx = last_used
  /\ used_event'   = IF setting.use_event_idx THEN last_used ELSE used_event
  /\ no_interrupt' = FALSE
  /\ rpc' = "armed"
  /\ UNCHANGED <<ring, avail_event, setting, device, notified, irq,
                 kicking, free, last_used, quiet>>

Recheck ==
  /\ rpc = "armed"
  /\ rpc' = IF used_idx = last_used THEN "asleep" ELSE "run"
  /\ no_interrupt' = (used_idx # last_used /\ ~setting.use_event_idx)
  /\ UNCHANGED <<ring, used_event, avail_event, setting, device,
                 notified, irq, kicking, free, last_used, quiet>>

Interrupted ==
  /\ irq
  /\ irq' = FALSE
  /\ rpc' = IF rpc = "asleep" THEN "run" ELSE rpc
  /\ no_interrupt' = IF rpc = "asleep" THEN ~setting.use_event_idx ELSE no_interrupt
  /\ UNCHANGED <<ring, used_event, avail_event, setting, device,
                 notified, kicking, free, last_used, quiet>>

Completion == Reap \/ Arm \/ Recheck \/ Interrupted
Driver == Publish \/ KickCheck \/ Completion

-----------------------------------------------------------------------------
(* A queue as virtio_exit_vq() and init_vq() leave it.                     *)
Init ==
  /\ avail_idx = 0 /\ used_idx = 0
  /\ avail_ring = [i \in Buf |-> 0] /\ used_ring = [i \in Buf |-> 0]
  /\ used_event = 0 /\ avail_event = 0 /\ no_interrupt = FALSE
  /\ setting \in Settings
  /\ last_avail_idx = 0 /\ last_notified_idx = 0
  /\ dpc = "poll"
  /\ batch \in setting.batches
  /\ taken = << >>
  /\ notified = FALSE /\ irq = FALSE /\ kicking = FALSE
  /\ rpc = "run"
  /\ free = Buf
  /\ last_used = 0
  /\ quiet = 0

Next == Device \/ Driver

Spec == Init /\ [][Next]_vars

(* The device's task and the driver's completion loop are scheduled; the   *)
(* driver need not publish anything, but decides about a kick it began.    *)
FairSpec == Spec /\ WF_vars(Device) /\ WF_vars(KickCheck) /\ WF_vars(Completion)

-----------------------------------------------------------------------------
(* Properties.                                                             *)

(* Heads published and not yet taken; used and not yet reaped.             *)
Avail == {avail_ring[SlotOf(last_avail_idx + k)] :
            k \in 0 .. Distance(last_avail_idx, avail_idx) - 1}
Used  == {used_ring[SlotOf(last_used + k)] :
            k \in 0 .. Distance(last_used, used_idx) - 1}
Taken == {taken[k] : k \in 1 .. Len(taken)}

(* Every descriptor head has exactly one owner: none is lost, none is      *)
(* taken, used or reaped twice, and no ring entry is overwritten early.    *)
OneOwner ==
  /\ free \cup Avail \cup Taken \cup Used = Buf
  /\ Cardinality(free) + Distance(last_avail_idx, avail_idx) + Len(taken)
       + Distance(last_used, used_idx) = Num

(* A device about to sleep, or asleep, with buffers available has been     *)
(* notified, or the driver is about to decide to notify it.                *)
NoLostKick ==
  dpc = "wait" /\ avail_idx # last_avail_idx /\ ~notified =>
    /\ kicking
    /\ setting.use_event_idx =>
         NeedEvent(avail_event, avail_idx, Add(avail_idx, -1))

(* A driver asleep with used buffers has an interrupt pending or coming,   *)
(* as long as fewer than 2^16 buffers were used since the last interrupt.  *)
NoLostInterrupt ==
  rpc = "asleep" /\ used_idx # last_used /\ quiet < Modulus =>
    \/ irq
    \/ dpc = "interrupt"
    \/ dpc = "notify" /\ MustNotify

(* Neither side sleeps while the other has something for it.               *)
NoLostNotification == NoLostKick /\ NoLostInterrupt

(* The comment of vring_need_event() (virtio_ring.h:215-217) asks for the  *)
(* index as it was before the last increment, and promises an event when   *)
(* the event index was passed.  Without the bound on quiet.                *)
EventWhenPassed ==
  rpc = "asleep" /\ used_idx # last_used =>
    \/ irq
    \/ dpc = "interrupt"
    \/ dpc = "notify" /\ MustNotify

(* Every buffer the driver publishes comes back to it, where the device    *)
(* does not wait for a second buffer and no event index can be missed.     *)
BuffersReturn ==
  \A h \in Buf :
    (h \notin free /\ setting.batches = {1} /\ ~setting.use_event_idx)
      ~> h \in free
=============================================================================
