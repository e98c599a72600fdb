----------------------------- MODULE NetSwitch -----------------------------
(* The layer 2 switch of net/net_switch.c with the packets of             *)
(* net/data_pkt.c, fed by three kinds of port: the ENET port              *)
(* (net/port_enet.c), the virtio-net backend (virtio/devices/network.c)   *)
(* and software ports (net/port_software.c).                              *)
(*                                                                        *)
(* Every port p has two tasks: a source that pushes received packets into *)
(* the output lists of other ports (pc, hand, todo, out, batchNotify),    *)
(* and port_process_pkts, which drains p's own list (tpc, cur, tmp); a    *)
(* software port may have a second source, as that of the PTP stack.  The *)
(* list is changed under data_out_sem, but its count, the need_notify     *)
(* flags, the message queues and the iteration of the drain are not       *)
(* covered by any lock.  Ports are added before traffic starts and never  *)
(* removed: no caller of switch_remove_port exists in the repository.     *)
EXTENDS Integers, Sequences, SequencesExt

CONSTANTS
    Remote,         \* the remote port
    Locals,         \* the sequence local_port_list
    Kind,           \* Kind[p]: "enet", "vnet" or "soft"
    Macs,           \* unicast addresses
    Groups,         \* multicast addresses
    Broadcast,      \* the broadcast address
    Second,         \* Second[s]: the port whose second source is s
    InitMac,        \* InitMac[p]: the address a port is added with
    InitFdb,        \* InitFdb[p]: the groups a port has joined at start
    Heap,           \* blocks os_malloc can return
    Pool,           \* the static receive buffers of the ENET port
    Urgent,         \* list length from which a packet posts its own event
    Depth,          \* depth of a port's message queue
    Threshold,      \* in_threshhold of a software port
    Loads,          \* how much may happen in one behaviour (bound), see Load
    None

Ports == Range(Locals) \cup {Remote}
Sources == Ports \cup DOMAIN Second
Bufs  == Heap \cup Pool
Addrs == Macs \cup Groups \cup {Broadcast}

(* A load: the packets each task receives, the addresses they are sent to, *)
(* and the number of address, group and link changes.                     *)
Load == [budget : [Sources -> Nat], dsts : SUBSET Addrs, changes : Nat]

ASSUME SwitchAssumption ==
    /\ Locals \in Seq(Range(Locals)) /\ IsInjective(Locals) /\ Remote \notin Range(Locals)
    /\ Kind \in [Ports -> {"enet", "vnet", "soft"}]
    /\ DOMAIN Second \cap Ports = {}
    /\ \A s \in DOMAIN Second : Second[s] \in Ports /\ Kind[Second[s]] = "soft"
    /\ InitMac \in [Ports -> Macs] /\ InitFdb \in [Ports -> SUBSET Groups]
    /\ Heap \cap Pool = {} /\ None \notin Ports \cup Bufs \cup Macs
    /\ Macs \cap Groups = {} /\ Broadcast \notin Macs \cup Groups
    /\ Urgent \in Nat \ {0} /\ Depth \in Nat \ {0} /\ Threshold \in Nat
    /\ Loads \subseteq Load

VARIABLES
    power_on, dev_end_on, mac, fdb, fdb_enabled,    \* struct switch_port
    data_out, need_notify, mqueue,
    pkt,            \* contents of every buffer
    live,           \* blocks not freed and pool buffers marked used
    pc, hand, todo, out, batchNotify, in_count, arrived,    \* sources
    tpc, cur, tmp,  \* port_process_pkts: data_entry and tmp
    admin, changes, \* the task changing addresses; changes made so far
    load,           \* the load of this behaviour
    sent            \* sent[p][s]: number of the last packet of s that p put out

cfgVars  == <<power_on, dev_end_on, mac, fdb, fdb_enabled, admin, changes, load>>
srcVars  == <<pc, hand, todo, out, batchNotify, in_count, arrived>>
taskVars == <<tpc, cur, tmp, sent>>
vars == <<cfgVars, data_out, need_notify, mqueue, pkt, live, srcVars, taskVars>>

Owner(s)   == IF s \in Ports THEN s ELSE Second[s]
KindOf(s)  == Kind[Owner(s)]
IsLocal(s) == Owner(s) # Remote
LinkOn(p)  == power_on[p] /\ dev_end_on[p]
IsGroup(d) == d \in Groups \cup {Broadcast}

-----------------------------------------------------------------------------
(* Packets.  data_pkt_free of a packet whose flags say STATIC_BUFF only   *)
(* clears used, whatever memory the packet is in.                         *)

Fresh(S) == CHOOSE b \in S : TRUE

NoPkt == [src |-> Remote, num |-> 0, dst |-> Broadcast, static |-> FALSE]

(* What a freed block still holds is never read, so it is forgotten.      *)
Free(b) ==
    IF pkt[b].static /\ b \in Heap
    THEN UNCHANGED <<live, pkt>>
    ELSE live' = live \ {b} /\ pkt' = [pkt EXCEPT ![b] = NoPkt]

Goto(s, where) == pc' = [pc EXCEPT ![s] = where]

-----------------------------------------------------------------------------
(* A packet enters the switch.                                            *)

(* enet_process_pkts: a static buffer; virtio_net_tx_task: port_in_pkt    *)
(* copies into a heap packet when the port is on; soft_vport_in_nocpy: a  *)
(* heap packet, and every Threshold + 2nd call notifies.                  *)
CanReceive(s) ==
    CASE KindOf(s) = "enet" -> pc[s] \in {"idle", "batch"} /\ Pool \ live # {}
      [] KindOf(s) = "vnet" -> /\ \/ pc[s] = "idle" /\ LinkOn(s)
                                  \/ pc[s] = "batch" /\ power_on[s]
                               /\ Heap \ live # {}
      [] KindOf(s) = "soft" -> pc[s] \in {"idle", "batch"} /\ Heap \ live # {}

Receive(s, d) ==
    LET isEnet == KindOf(s) = "enet"
        b == Fresh((IF isEnet THEN Pool ELSE Heap) \ live)
    IN  /\ d \in load.dsts /\ arrived[s] < load.budget[s]
        /\ CanReceive(s)
        /\ live' = live \cup {b}
        /\ pkt' = [pkt EXCEPT ![b] = [src |-> s, num |-> arrived[s] + 1,
                                      dst |-> d, static |-> isEnet]]
        /\ arrived' = [arrived EXCEPT ![s] = @ + 1]
        /\ hand' = [hand EXCEPT ![s] = b]
        /\ IF KindOf(s) = "soft"
           THEN /\ batchNotify' = [batchNotify EXCEPT ![s] = in_count[Owner(s)] > Threshold]
                /\ in_count' = [in_count EXCEPT ![Owner(s)] =
                                    IF @ > Threshold THEN 0 ELSE @ + 1]
           ELSE UNCHANGED <<batchNotify, in_count>>
        /\ Goto(s, "switch")
        /\ UNCHANGED <<cfgVars, data_out, need_notify, mqueue, todo, out, taskVars>>

(* port_in_pkt has no memory for the copy; the batch goes on without it.  *)
NoMemory(s) ==
    /\ KindOf(s) = "vnet" /\ pc[s] = "idle" /\ LinkOn(s) /\ Heap \subseteq live
    /\ arrived[s] < load.budget[s]
    /\ Goto(s, "batch")
    /\ UNCHANGED <<cfgVars, data_out, need_notify, mqueue, pkt, live, hand, todo,
                   out, batchNotify, in_count, arrived, taskVars>>

(* The ports a group packet is offered to, in the order they are visited; *)
(* the packet's own port is passed over, see Wants.                       *)
Candidates(s) == IF IsLocal(s) THEN Locals \o <<Remote>> ELSE Locals

(* find_dst_port: the first local port that is on and has the address;    *)
(* else a packet of a local port goes out of the remote port.             *)
FindDstPort(s, d) ==
    LET match == {i \in 1..Len(Locals) : power_on[Locals[i]] /\ mac[Locals[i]] = d}
    IN  IF match # {} THEN Locals[Min(match)] ELSE IF IsLocal(s) THEN Remote ELSE None

SwitchPkt(s) ==
    LET d == pkt[hand[s]].dst IN
    /\ pc[s] = "switch"
    /\ IF IsGroup(d)
       THEN /\ todo' = [todo EXCEPT ![s] = Candidates(s)]
            /\ Goto(s, "visit")
            /\ out' = out
       ELSE /\ out' = [out EXCEPT ![s] = FindDstPort(s, d)]
            /\ Goto(s, "unicast")
            /\ todo' = todo
    /\ UNCHANGED <<cfgVars, data_out, need_notify, mqueue, pkt, live, hand,
                   batchNotify, in_count, arrived, taskVars>>

-----------------------------------------------------------------------------
(* Putting a packet into an output list.                                  *)

AddHead(q, b) == <<b>> \o q
AddTail(q, b) == Append(q, b)

(* port_out_pkt, the part under data_out_sem.                             *)
PortOut(s, p, b) ==
    /\ data_out' = [data_out EXCEPT ![p] = AddTail(@, b)]
    /\ out' = [out EXCEPT ![s] = p]
    /\ Goto(s, "count")

HandOverKept(s) == hand' = hand
HandOver(s)     == hand' = [hand EXCEPT ![s] = None]

DropInHandLost(s) == HandOver(s) /\ UNCHANGED <<live, pkt>>

(* data_pkt_free of the packet in hand.                                   *)
DropInHand(s) ==
    /\ Free(hand[s])
    /\ hand' = [hand EXCEPT ![s] = None]

Unicast(s) ==
    /\ pc[s] = "unicast"
    /\ IF out[s] # None /\ LinkOn(out[s])
       THEN /\ PortOut(s, out[s], hand[s])
            /\ HandOver(s)
            /\ UNCHANGED <<live, pkt>>
       ELSE /\ DropInHand(s)
            /\ Goto(s, "done")
            /\ out' = [out EXCEPT ![s] = None]
            /\ data_out' = data_out
    /\ UNCHANGED <<cfgVars, need_notify, mqueue, todo, batchNotify, in_count,
                   arrived, taskVars>>

(* broadcast_pkt and multicast_pkt: does port p want this packet?         *)
Wants(s, p, d) ==
    /\ LinkOn(p) /\ p # Owner(s)
    /\ d \in Groups /\ IsLocal(p) => d \in fdb[p] /\ (IsLocal(s) => fdb_enabled[p])

(* The original goes to the remote port, or to the last local port.       *)
TakesOriginal(s, p) == IF IsLocal(s) THEN p = Remote ELSE p = Last(Locals)

SkipPort(s) ==
    /\ pc[s] = "visit" /\ todo[s] # <<>>
    /\ \/ ~Wants(s, Head(todo[s]), pkt[hand[s]].dst)
       \/ ~TakesOriginal(s, Head(todo[s])) /\ Heap \subseteq live   \* clone fails
    /\ todo' = [todo EXCEPT ![s] = Tail(@)]
    /\ UNCHANGED <<cfgVars, data_out, need_notify, mqueue, pkt, live, pc, hand,
                   out, batchNotify, in_count, arrived, taskVars>>

(* The visits of a port: data_pkt_clone copies the flags, too.            *)
VisitPort(s) ==
    LET p == Head(todo[s])
        copy == Fresh(Heap \ live)
    IN  /\ pc[s] = "visit" /\ todo[s] # <<>>
        /\ Wants(s, p, pkt[hand[s]].dst)
        /\ IF TakesOriginal(s, p)
           THEN /\ PortOut(s, p, hand[s])
                /\ HandOver(s)
                /\ UNCHANGED <<live, pkt>>
           ELSE /\ Heap \ live # {}
                /\ live' = live \cup {copy}
                /\ pkt' = [pkt EXCEPT ![copy] = pkt[hand[s]]]
                /\ PortOut(s, p, copy)
                /\ hand' = hand
        /\ todo' = [todo EXCEPT ![s] = Tail(@)]
        /\ UNCHANGED <<cfgVars, need_notify, mqueue, batchNotify, in_count,
                       arrived, taskVars>>

(* After the last port the original is freed unless it was passed on.     *)
EndVisits(s) ==
    /\ pc[s] = "visit" /\ todo[s] = <<>>
    /\ IF hand[s] # None THEN DropInHand(s) ELSE UNCHANGED <<hand, live, pkt>>
    /\ Goto(s, "done")
    /\ UNCHANGED <<cfgVars, data_out, need_notify, mqueue, todo, out,
                   batchNotify, in_count, arrived, taskVars>>

(* The original goes to the last port visited, or to the only one.        *)
PassedOn(s) == IF hand[s] = None THEN "done" ELSE "visit"

(* port_out_pkt after the lock: the count decides how p hears of it ...   *)
Announcement(p) == IF Len(data_out[p]) >= Urgent THEN "event" ELSE "flag"

CountOut(s) ==
    /\ pc[s] = "count"
    /\ Goto(s, Announcement(out[s]))
    /\ UNCHANGED <<cfgVars, data_out, need_notify, mqueue, pkt, live, hand, todo,
                   out, batchNotify, in_count, arrived, taskVars>>

PostedUnbounded(p) == [mqueue EXCEPT ![p] = @ + 1]

(* os_mq_send with timeout 0: an event for a full queue is lost.          *)
Posted(p) == [mqueue EXCEPT ![p] = IF @ < Depth THEN @ + 1 ELSE @]

(* ... and post an event or leave it to the next notify_ports.            *)
AnnounceOut(s) ==
    /\ pc[s] \in {"event", "flag"}
    /\ IF pc[s] = "event"
       THEN mqueue' = Posted(out[s]) /\ need_notify' = need_notify
       ELSE need_notify' = [need_notify EXCEPT ![out[s]] = TRUE] /\ mqueue' = mqueue
    /\ Goto(s, PassedOn(s))
    /\ out' = [out EXCEPT ![s] = None]
    /\ UNCHANGED <<cfgVars, data_out, pkt, live, hand, todo, batchNotify, in_count,
                   arrived, taskVars>>

-----------------------------------------------------------------------------
(* notify_ports: the remote port, then the local ports.                   *)

NotifyRemoteOnly == <<Remote>>
NotifyOrder      == <<Remote>> \o Locals

StartNotify(s) == todo' = [todo EXCEPT ![s] = NotifyOrder] /\ Goto(s, "notify")

(* The packet is switched, and the source goes on with its batch; that of *)
(* a software port notifies first if this call reached the threshold.     *)
EndPacket(s) ==
    /\ pc[s] = "done"
    /\ IF batchNotify[s] THEN StartNotify(s) ELSE Goto(s, "batch") /\ todo' = todo
    /\ UNCHANGED <<cfgVars, data_out, need_notify, mqueue, pkt, live, hand, out,
                   batchNotify, in_count, arrived, taskVars>>

EndBatch(s) ==
    /\ KindOf(s) # "soft" /\ pc[s] = "batch"
    /\ StartNotify(s)
    /\ UNCHANGED <<cfgVars, data_out, need_notify, mqueue, pkt, live, hand, out,
                   batchNotify, in_count, arrived, taskVars>>

(* soft_vport_in_kick, called by every task that pushes into a software   *)
(* port, after its packets.                                               *)
Kick(s) ==
    /\ KindOf(s) = "soft" /\ pc[s] = "batch"
    /\ in_count' = [in_count EXCEPT ![Owner(s)] = 0]
    /\ IF in_count[Owner(s)] > 0 THEN StartNotify(s) ELSE Goto(s, "idle") /\ todo' = todo
    /\ UNCHANGED <<cfgVars, data_out, need_notify, mqueue, pkt, live, hand, out,
                   batchNotify, arrived, taskVars>>

TestNotify(s) ==
    /\ pc[s] = "notify" /\ todo[s] # <<>>
    /\ IF need_notify[Head(todo[s])]
       THEN /\ need_notify' = [need_notify EXCEPT ![Head(todo[s])] = FALSE]
            /\ Goto(s, "post")
            /\ todo' = todo
       ELSE /\ todo' = [todo EXCEPT ![s] = Tail(@)]
            /\ UNCHANGED <<need_notify, pc>>
    /\ UNCHANGED <<cfgVars, data_out, mqueue, pkt, live, hand, out, batchNotify,
                   in_count, arrived, taskVars>>

PostNotify(s) ==
    /\ pc[s] = "post"
    /\ mqueue' = Posted(Head(todo[s]))
    /\ todo' = [todo EXCEPT ![s] = Tail(@)]
    /\ Goto(s, "notify")
    /\ UNCHANGED <<cfgVars, data_out, need_notify, pkt, live, hand, out,
                   batchNotify, in_count, arrived, taskVars>>

EndNotify(s) ==
    /\ pc[s] = "notify" /\ todo[s] = <<>>
    /\ Goto(s, IF batchNotify[s] THEN "batch" ELSE "idle")
    /\ batchNotify' = [batchNotify EXCEPT ![s] = FALSE]
    /\ UNCHANGED <<cfgVars, data_out, need_notify, mqueue, pkt, live, hand, todo,
                   out, in_count, arrived, taskVars>>

SourceStep(s) ==
    \/ SwitchPkt(s) \/ Unicast(s) \/ SkipPort(s) \/ VisitPort(s) \/ EndVisits(s)
    \/ CountOut(s) \/ AnnounceOut(s) \/ EndPacket(s) \/ EndBatch(s) \/ Kick(s)
    \/ TestNotify(s) \/ PostNotify(s) \/ EndNotify(s)

-----------------------------------------------------------------------------
(* port_process_pkts.  list_for_each_entry_safe reads the next entry      *)
(* before it works on the current one, without data_out_sem.              *)

Place(q, b) == CHOOSE i \in 1..Len(q) : q[i] = b

NextEntry(p, b) ==
    LET q == data_out[p]
        i == Place(q, b)
    IN  IF b = None \/ i = Len(q) THEN None ELSE q[i + 1]

FirstEntry(p) == IF data_out[p] = <<>> THEN None ELSE Head(data_out[p])

ReceiveEvent(p) ==
    /\ tpc[p] = "wait" /\ mqueue[p] > 0
    /\ mqueue' = [mqueue EXCEPT ![p] = @ - 1]
    /\ tpc' = [tpc EXCEPT ![p] = "scan"]
    /\ UNCHANGED <<cfgVars, data_out, need_notify, pkt, live, srcVars, cur, tmp, sent>>

Entered(p, b) ==
    /\ cur' = [cur EXCEPT ![p] = b]
    /\ tmp' = [tmp EXCEPT ![p] = NextEntry(p, b)]
    /\ tpc' = [tpc EXCEPT ![p] = IF b = None THEN "wait" ELSE "output"]
    /\ UNCHANGED <<cfgVars, data_out, need_notify, mqueue, pkt, live, srcVars, sent>>

Scan(p) == tpc[p] = "scan" /\ Entered(p, FirstEntry(p))

(* port_out_cb                                                            *)
Output(p) ==
    /\ tpc[p] = "output"
    /\ sent' = [sent EXCEPT ![p][pkt[cur[p]].src] = pkt[cur[p]].num]
    /\ tpc' = [tpc EXCEPT ![p] = "reclaim"]
    /\ UNCHANGED <<cfgVars, data_out, need_notify, mqueue, pkt, live, srcVars, cur, tmp>>

(* list_del under data_out_sem, then data_pkt_free.  Every packet of the  *)
(* repository is built with CAN_FREE.                                     *)
Reclaim(p) ==
    /\ tpc[p] = "reclaim"
    /\ data_out' = [data_out EXCEPT ![p] = RemoveAt(@, Place(@, cur[p]))]
    /\ Free(cur[p])
    /\ tpc' = [tpc EXCEPT ![p] = "advance"]
    /\ UNCHANGED <<cfgVars, need_notify, mqueue, srcVars, cur, tmp, sent>>

AdvanceOnce(p) == tpc[p] = "advance" /\ Entered(p, None)
Advance(p) == tpc[p] = "advance" /\ Entered(p, tmp[p])

DrainStep(p) ==
    ReceiveEvent(p) \/ Scan(p) \/ Output(p) \/ Reclaim(p) \/ Advance(p)

-----------------------------------------------------------------------------
(* Configuration while traffic runs.  A port is switched off while its    *)
(* address or its table changes, then on, whatever it was before.         *)

Idle == [op |-> "none", port |-> None, addr |-> None]

BeginChange(p, op, a) ==
    /\ admin.op = "none" /\ changes < load.changes
    /\ admin' = [op |-> op, port |-> p, addr |-> a]
    /\ changes' = changes + 1
    /\ power_on' = [power_on EXCEPT ![p] = FALSE]
    /\ UNCHANGED <<dev_end_on, mac, fdb, fdb_enabled, load, data_out, need_notify, mqueue,
                   pkt, live, srcVars, taskVars>>

(* port_update_addr, from virtio_net_ctrl_task and soft_vport_update_addr *)
UpdateAddr(p, a)  == a \in Macs /\ BeginChange(p, "mac", a)
(* vs_port_add_fdb_entry and vs_port_remove_fdb_entry                     *)
AddFdb(p, a)      == IsLocal(p) /\ a \in Groups \ fdb[p] /\ BeginChange(p, "add", a)
RemoveFdb(p, a)   == /\ IsLocal(p) /\ fdb_enabled[p] /\ a \in fdb[p]
                     /\ BeginChange(p, "remove", a)

MakeChange ==
    LET p == admin.port IN
    /\ admin.op \in {"mac", "add", "remove"}
    /\ CASE admin.op = "mac" ->
                mac' = [mac EXCEPT ![p] = admin.addr] /\ UNCHANGED <<fdb, fdb_enabled>>
         [] admin.op = "add" ->
                /\ fdb' = [fdb EXCEPT ![p] = @ \cup {admin.addr}]
                /\ fdb_enabled' = [fdb_enabled EXCEPT ![p] = TRUE]
                /\ mac' = mac
         [] admin.op = "remove" ->
                /\ fdb' = [fdb EXCEPT ![p] = @ \ {admin.addr}]
                /\ fdb_enabled' = [fdb_enabled EXCEPT ![p] = @ /\ fdb[p] # {admin.addr}]
                /\ mac' = mac
    /\ admin' = [admin EXCEPT !.op = "on"]
    /\ UNCHANGED <<power_on, dev_end_on, changes, load, data_out, need_notify, mqueue, pkt,
                   live, srcVars, taskVars>>

EndChange ==
    /\ admin.op = "on"
    /\ power_on' = [power_on EXCEPT ![admin.port] = TRUE]
    /\ admin' = Idle
    /\ UNCHANGED <<dev_end_on, mac, fdb, fdb_enabled, changes, load, data_out, need_notify,
                   mqueue, pkt, live, srcVars, taskVars>>

(* virtio_net_start, virtio_net_stop and enet_phy_status flip *dev_end_on. *)
LinkChange(p) ==
    /\ changes < load.changes /\ Kind[p] # "soft"
    /\ changes' = changes + 1
    /\ dev_end_on' = [dev_end_on EXCEPT ![p] = ~@]
    /\ UNCHANGED <<power_on, mac, fdb, fdb_enabled, admin, load, data_out, need_notify, mqueue,
                   pkt, live, srcVars, taskVars>>

-----------------------------------------------------------------------------

Init ==
    /\ power_on = [p \in Ports |-> TRUE] /\ dev_end_on = [p \in Ports |-> TRUE]
    /\ mac = InitMac /\ fdb = InitFdb
    /\ fdb_enabled = [p \in Ports |-> InitFdb[p] # {}]
    /\ data_out = [p \in Ports |-> <<>>]
    /\ need_notify = [p \in Ports |-> FALSE] /\ mqueue = [p \in Ports |-> 0]
    /\ pkt = [b \in Bufs |-> NoPkt] /\ live = {}
    /\ pc = [s \in Sources |-> "idle"] /\ hand = [s \in Sources |-> None]
    /\ todo = [s \in Sources |-> <<>>] /\ out = [s \in Sources |-> None]
    /\ batchNotify = [s \in Sources |-> FALSE] /\ in_count = [p \in Ports |-> 0]
    /\ arrived = [s \in Sources |-> 0]
    /\ tpc = [p \in Ports |-> "wait"] /\ cur = [p \in Ports |-> None]
    /\ tmp = [p \in Ports |-> None]
    /\ admin = Idle /\ changes = 0 /\ load \in Loads
    /\ sent = [p \in Ports |-> [s \in Sources |-> 0]]

Configure ==
    \/ \E p \in Range(Locals) : \/ \E a \in Macs : UpdateAddr(p, a)
                                \/ \E a \in Groups : AddFdb(p, a) \/ RemoveFdb(p, a)
    \/ MakeChange \/ EndChange
    \/ \E p \in Ports : LinkChange(p)

Next ==
    \/ \E s \in Sources : \/ \E d \in Addrs : Receive(s, d)
                          \/ NoMemory(s) \/ SourceStep(s)
    \/ \E p \in Ports : DrainStep(p)
    \/ Configure

(* The scheduler runs every task; sources finish what they began and the  *)
(* owner of a software port calls soft_vport_in_kick after its packets    *)
(* (ptp_multisoc_stack.c:288-290, 382-383).                               *)
Fairness ==
    /\ \A s \in Sources : WF_vars(SourceStep(s))
    /\ \A p \in Ports : WF_vars(DrainStep(p))

Spec == Init /\ [][Next]_vars
FairSpec == Spec /\ Fairness

-----------------------------------------------------------------------------
(* Properties.                                                            *)

(* Every variable keeps its type.                                         *)
TypeOK ==
    /\ power_on \in [Ports -> BOOLEAN] /\ dev_end_on \in [Ports -> BOOLEAN]
    /\ mac \in [Ports -> Macs] /\ fdb \in [Ports -> SUBSET Groups]
    /\ fdb_enabled \in [Ports -> BOOLEAN]
    /\ data_out \in [Ports -> Seq(Bufs)]
    /\ need_notify \in [Ports -> BOOLEAN] /\ mqueue \in [Ports -> 0..Depth]
    /\ pkt \in [Bufs -> [src : Sources, num : Nat, dst : Addrs, static : BOOLEAN]]
    /\ live \subseteq Bufs
    /\ pc \in [Sources -> {"idle", "switch", "unicast", "visit", "count", "event",
                           "flag", "done", "batch", "notify", "post"}]
    /\ hand \in [Sources -> Bufs \cup {None}] /\ out \in [Sources -> Ports \cup {None}]
    /\ todo \in [Sources -> Seq(Ports)]
    /\ batchNotify \in [Sources -> BOOLEAN] /\ in_count \in [Ports -> 0..Threshold + 1]
    /\ arrived \in [Sources -> Nat]
    /\ tpc \in [Ports -> {"wait", "scan", "output", "reclaim", "advance"}]
    /\ cur \in [Ports -> Bufs \cup {None}] /\ tmp \in [Ports -> Bufs \cup {None}]
    /\ changes \in 0..load.changes /\ load \in Loads /\ sent \in [Ports -> [Sources -> Nat]]

(* A source has buffer b in hand, or a port in its list.                  *)
Held(b) ==
    \/ \E s \in Sources : hand[s] = b
    \/ \E p \in Ports : b \in Range(data_out[p])

(* Every packet has one owner: a buffer is held in at most one place, and *)
(* a buffer that is held has not been freed.  The broadcast and multicast *)
(* paths clone for some ports, pass the original to one, and free it      *)
(* otherwise (net_switch.c:100-191).                                      *)
OneOwner ==
    /\ \A s, t \in Sources : hand[s] # None /\ hand[s] = hand[t] => s = t
    /\ \A s \in Sources, p \in Ports : hand[s] \notin Range(data_out[p])
    /\ \A p \in Ports : IsInjective(data_out[p])
    /\ \A p, q \in Ports : p # q => Range(data_out[p]) \cap Range(data_out[q]) = {}
    /\ \A b \in Bufs : Held(b) => b \in live

(* No packet is lost from memory: what has not been freed is in a list or *)
(* in a source's hands, except for heap clones of static packets.         *)
OnlyClonesLeak == \A b \in live : Held(b) \/ (b \in Heap /\ pkt[b].static)

(* Every buffer has one place, or is free.                                 *)
BuffersAccounted == OneOwner /\ OnlyClonesLeak

(* What data_pkt.h:22,56 says of DATA_PKT_FLAG_STATIC_BUFF: a live packet *)
(* with the flag is in a static buffer.  data_pkt_clone copies the flag   *)
(* to a heap packet, which data_pkt_free then never returns to the heap.  *)
StaticFlagMeansStatic == \A b \in live : pkt[b].static => b \in Pool

(* The packets of p's list that the pass in progress will still put out.  *)
AheadOf(p) ==
    CASE tpc[p] = "wait" -> {}
      [] tpc[p] = "scan" -> Range(data_out[p])
      [] OTHER -> IF tmp[p] = None
                  THEN IF tpc[p] = "advance" THEN {} ELSE {cur[p]}
                  ELSE Range(data_out[p])

(* Source s is about to announce what it put into p's list.               *)
AboutToAnnounce(s, p) ==
    \/ pc[s] \in {"count", "event", "flag"} /\ out[s] = p
    \/ pc[s] = "post" /\ Head(todo[s]) = p

(* A queued packet is always announced: unless the pass in progress will  *)
(* still reach it, an event is queued, or the flag is set, or a source is *)
(* about to do either.  All of this is read and written without a lock.   *)
QueuedIsAnnounced ==
    \A p \in Ports : Range(data_out[p]) \subseteq AheadOf(p) \/ mqueue[p] > 0
        \/ need_notify[p] \/ \E s \in Sources : AboutToAnnounce(s, p)

(* Source s will pass p in a call of notify_ports.                        *)
WillNotify(s, p) ==
    \/ pc[s] = "notify" /\ p \in Range(todo[s])
    \/ pc[s] = "post" /\ p \in Range(Tail(todo[s]))
    \/ pc[s] \notin {"idle", "notify", "post"} /\ KindOf(s) # "soft"
    \/ pc[s] \notin {"idle", "notify", "post", "batch"} /\ batchNotify[s]
    \/ /\ pc[s] # "idle" /\ (pc[s] \in {"notify", "post"} => batchNotify[s])
       /\ in_count[Owner(s)] > 0

(* A need_notify flag never stays behind: some source still has to call   *)
(* notify_ports, or is in it and has not passed the port yet.             *)
FlagIsFollowed == \A p \in Ports : need_notify[p] => \E s \in Sources : WillNotify(s, p)

(* Whatever is queued or flagged, somebody still acts on it.               *)
Announced == QueuedIsAnnounced /\ FlagIsFollowed

(* What a port has put out and will put out of one source is in the order *)
(* the source received it, each packet once, clones and flags included.   *)
FlowInOrder ==
    \A p \in Ports, s \in Sources :
        LET unsent == IF tpc[p] = "reclaim" THEN Tail(data_out[p]) ELSE data_out[p]
            flow == {i \in 1..Len(unsent) : pkt[unsent[i]].src = s}
        IN  /\ \A i \in flow : pkt[unsent[i]].num > sent[p][s]
            /\ \A i, j \in flow : i < j => pkt[unsent[i]].num < pkt[unsent[j]].num

(* Every packet put into a list is put out: with lossy event queues,      *)
(* flags and thresholds no list waits for traffic that may never come.    *)
QueuedIsSent == \A p \in Ports : data_out[p] # <<>> ~> data_out[p] = <<>>
=============================================================================
