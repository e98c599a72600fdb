------------------------------ MODULE PtpStack ------------------------------
(* The PTP multi-SoC stack (net/ptp_stack): port_genavb_init() opens the   *)
(* sockets of every port while frames already arrive; the callbacks of the *)
(* sockets post events; one task moves received frames into the switch,    *)
(* another the time stamps of sent frames; the task of the software port   *)
(* sends the host's frames.  The switch is in NetSwitch.  The GenAVB       *)
(* library is external: a callback comes once, for a socket with something *)
(* to read, and again only after it was enabled again.                     *)
EXTENDS Integers, Sequences, FiniteSets, Functions

CONSTANTS
    Depth,      \* messages a queue holds (100 in the code; bound)
    Plans       \* the devices and their traffic (bound), see below

(* A plan is a record: the ports of each kind (ep, br), their hardware_id, *)
(* the flags, whether the device is still to be set up (early), how many   *)
(* frames arrive (arrivals), what the host sends (host), and how many      *)
(* calls may fail (fails).  A frame of the host is a record, too: its tag, *)
(* the port and time stamp id in it, and whether it is too short.          *)
NoStamp == 0

PortsOf(p) == p.ep \o p.br
AllPorts   == UNION {Range(PortsOf(p)) : p \in Plans}
AllSockets == AllPorts \X {"tx", "rx", "ts", "ptp"}

PlanTypes ==
    [ep : Seq(AllPorts), br : Seq(AllPorts), hardware_id : [AllPorts -> Nat],
     flags : SUBSET {"ptp_socket", "tx_remove_dsa", "tx_remove_vlan"}, early : BOOLEAN,
     arrivals : Nat, fails : Nat,
     host : Seq([tag : {"dsa", "vlan", "meta"}, port : Nat, id : Nat, short : BOOLEAN])]

(* A queue has room for an event of each socket that posts to it: it holds *)
(* 100, and a device has CFG_EP_NUM and CFG_BRIDGE_NUM ports at most.      *)
PtpAssumption ==
    /\ Depth \in Nat /\ Plans \subseteq PlanTypes
    /\ \A p \in Plans : /\ IsInjective(PortsOf(p)) /\ 2 * Len(PortsOf(p)) <= Depth
                        /\ \A i, j \in DOMAIN p.br :
                             p.hardware_id[p.br[i]] = p.hardware_id[p.br[j]] => i = j

Tasks == {"rx", "ts"}       \* genavb_receive_pkts, genavb_retrieve_ptp_ts

VARIABLES
    plan,           \* the device; what is left of its traffic and failures
    setup,          \* where port_genavb_init() is: a port and a step of it
    dev,            \* "setup", "up" or "freed"
    open, opened,   \* sockets that are open, and known to be (sock_..._opened)
    hooked, linked, \* sockets with a callback, with sock_rx.port assigned
    armed,          \* sockets whose callback may come
    frames, stamps, \* what can be read from the sockets
    mqueue,         \* mqueue and ptp_ts_mqueue
    pc, sock,       \* of each task; avb_port_dev, as the socket it reads
    fault,          \* what net_callback() faulted on
    asked, returned, lost, deaf     \* history, see below

(* History.  asked and returned: the time stamps the host asked for and    *)
(* was given, each an id and a hardware port.  lost: those dropped for     *)
(* lack of memory.  deaf: sockets whose callback could not be enabled.     *)
history == <<asked, returned, lost, deaf>>
sockets == <<setup, dev, open, opened, hooked, linked>>
vars == <<plan, sockets, armed, frames, stamps, mqueue, pc, sock, fault, history>>

None == <<"none", "none">>
HasPtp    == "ptp_socket" \in plan.flags
Ports     == PortsOf(plan)
ServedBy(s) == IF s[2] = "ts" THEN "ts" ELSE "rx"
Waiting(s) == IF s[2] = "ts" THEN stamps[s[1]] # <<>> ELSE frames[s] > 0

MayFail == plan.fails > 0 /\ plan' = [plan EXCEPT !.fails = @ - 1]

-----------------------------------------------------------------------------
(* port_genavb_init() and, for each port, port_genavb_setup_sockets().     *)

(* The callback is set before the port is assigned and the socket counts   *)
(* as opened; the stamp socket needs no port, the plain one no callback.   *)
SocketSteps ==
    <<<<"open", "tx">>, <<"open", "rx">>, <<"hook", "rx">>, <<"link", "rx">>,
      <<"open", "ts">>, <<"hook", "ts">>, <<"open", "ptp">>, <<"hook", "ptp">>, <<"link", "ptp">>>>
PortSteps == IF HasPtp THEN 9 ELSE 4

(* The step after which the flag of the socket is set.                     *)
MarksOpened(k) == \A l \in (k + 1)..9 : SocketSteps[l][2] # SocketSteps[k][2]

InSetup  == dev = "setup" /\ fault = "none" /\ setup.port <= Len(Ports)
SetupOp  == SocketSteps[setup.step][1]
SocketOf == <<Ports[setup.port], SocketSteps[setup.step][2]>>

SetUpStep ==
    /\ InSetup
    /\ open' = IF SetupOp = "open" THEN open \cup {SocketOf} ELSE open
    /\ hooked' = IF SetupOp = "hook" THEN hooked \cup {SocketOf} ELSE hooked
    /\ armed' = IF SetupOp = "hook" THEN armed \cup {SocketOf} ELSE armed
    /\ linked' = IF SetupOp = "link" THEN linked \cup {SocketOf} ELSE linked
    /\ opened' = IF MarksOpened(setup.step) THEN opened \cup {SocketOf} ELSE opened
    /\ setup' = IF setup.step < PortSteps THEN [port |-> setup.port, step |-> setup.step + 1]
                ELSE [port |-> setup.port + 1, step |-> 1]
    /\ UNCHANGED <<plan, dev, frames, stamps, mqueue, pc, sock, fault, history>>

(* The port of the switch and the tasks are made when all sockets are.     *)
CreateTasks ==
    /\ dev = "setup" /\ fault = "none" /\ setup.port > Len(Ports)
    /\ dev' = "up"
    /\ UNCHANGED <<plan, setup, open, opened, hooked, linked, armed, frames, stamps, mqueue,
                   pc, sock, fault, history>>

SetUp == SetUpStep \/ CreateTasks

(* The unwinding closes all sockets of the port that failed, and of the    *)
(* ports before it those named at port_genavb_init()'s err: not the PTP    *)
(* sockets of an endpoint port.  The device is freed.                      *)
ClosedAtErr(s) == s[1] \in Range(plan.br) \/ s[2] \in {"tx", "rx"}

SetUpFails ==
    /\ InSetup /\ SetupOp \in {"open", "hook"} /\ MayFail
    /\ LET closed == {s \in opened : s[1] = Ports[setup.port] \/ ClosedAtErr(s)} IN
       /\ open' = open \ closed /\ opened' = opened \ closed
       /\ hooked' = hooked \ closed /\ armed' = armed \ closed
    /\ dev' = "freed"
    /\ UNCHANGED <<setup, linked, frames, stamps, mqueue, pc, sock, fault, history>>

-----------------------------------------------------------------------------
(* The network and the library.                                            *)

Arrive(s) ==
    /\ s \in open /\ s[2] \in {"rx", "ptp"} /\ plan.arrivals > 0
    /\ plan' = [plan EXCEPT !.arrivals = @ - 1]
    /\ frames' = [frames EXCEPT ![s] = @ + 1]
    /\ UNCHANGED <<sockets, armed, stamps, mqueue, pc, sock, fault, history>>

(* net_callback() and ptp_ts_callback(): the queue is not waited for.      *)
Callback(s) ==
    LET t == ServedBy(s) IN
    /\ s \in armed /\ Waiting(s) /\ fault = "none"
    /\ armed' = armed \ {s}
    /\ fault' = IF dev = "freed" THEN "freed"
                ELSE IF s[2] # "ts" /\ s \notin linked THEN "port" ELSE "none"
    /\ mqueue' = IF fault' = "none" /\ Len(mqueue[t]) < Depth
                 THEN [mqueue EXCEPT ![t] = Append(@, s)] ELSE mqueue
    /\ UNCHANGED <<plan, sockets, frames, stamps, pc, sock, history>>

-----------------------------------------------------------------------------
(* The tasks.                                                              *)

Goto(t, where) == pc' = [pc EXCEPT ![t] = where]

GetEvent(t) ==
    /\ dev = "up" /\ pc[t] = "wait" /\ mqueue[t] # <<>>
    /\ sock' = [sock EXCEPT ![t] = Head(mqueue[t])]
    /\ mqueue' = [mqueue EXCEPT ![t] = Tail(@)]
    /\ Goto(t, "drain")
    /\ UNCHANGED <<plan, sockets, armed, frames, stamps, fault, history>>

Drained(t) ==
    /\ pc[t] = "drain" /\ ~Waiting(sock[t])
    /\ Goto(t, "enable")
    /\ UNCHANGED <<plan, sockets, armed, frames, stamps, mqueue, sock, fault, history>>

(* The frame goes into the switch, and the port is kicked.                 *)
TakeFrame ==
    /\ pc["rx"] = "drain" /\ Waiting(sock["rx"])
    /\ frames' = [frames EXCEPT ![sock["rx"]] = @ - 1]
    /\ UNCHANGED <<plan, sockets, armed, stamps, mqueue, pc, sock, fault, history>>

(* A slip: an error ends the work on the event.                            *)
AfterErrorWait == "wait"
AfterError     == "enable"

(* No memory for the frame, or an error of the socket: the loop is left    *)
(* although there may be more.                                             *)
RxFails ==
    /\ pc["rx"] = "drain" /\ MayFail
    /\ \/ frames' = frames
       \/ Waiting(sock["rx"]) /\ frames' = [frames EXCEPT ![sock["rx"]] = @ - 1]
    /\ Goto("rx", AfterError)
    /\ UNCHANGED <<sockets, armed, stamps, mqueue, sock, fault, history>>

(* handle_tx_ts(): a stamp for which there is no memory is dropped.        *)
Returned(p) == <<Head(stamps[p]), plan.hardware_id[p]>>

TakeStamp ==
    LET p == sock["ts"][1] IN
    /\ pc["ts"] = "drain" /\ Waiting(sock["ts"])
    /\ stamps' = [stamps EXCEPT ![p] = Tail(@)]
    /\ \/ returned' = returned \cup {Returned(p)} /\ UNCHANGED <<lost, plan>>
       \/ lost' = lost \cup {Returned(p)} /\ MayFail /\ UNCHANGED returned
    /\ UNCHANGED <<sockets, armed, frames, mqueue, pc, sock, fault, asked, deaf>>

(* The callback is enabled again; a failure is only reported.              *)
Enable(t) ==
    /\ pc[t] = "enable"
    /\ \/ armed' = armed \cup {sock[t]} /\ UNCHANGED <<deaf, plan>>
       \/ deaf' = deaf \cup {sock[t]} /\ MayFail /\ UNCHANGED armed
    /\ sock' = [sock EXCEPT ![t] = None]
    /\ Goto(t, "wait")
    /\ UNCHANGED <<sockets, frames, stamps, mqueue, fault, asked, returned, lost>>

Task(t) ==
    \/ GetEvent(t) \/ Drained(t) \/ Enable(t)
    \/ t = "rx" /\ (TakeFrame \/ RxFails)
    \/ t = "ts" /\ TakeStamp

-----------------------------------------------------------------------------
(* genavb_host_to_sw_stack(), called by the task of the software port.     *)

(* find_switch_port_idx().                                                 *)
FindByIndex(port) == {plan.br[i] : i \in {j \in DOMAIN plan.br : j = port}}
FindPort(port) == {p \in Range(plan.br) : plan.hardware_id[p] = port}

ForSwitch(f) ==
    \/ f.tag = "vlan" /\ "tx_remove_vlan" \in plan.flags
    \/ f.tag = "dsa" /\ "tx_remove_dsa" \in plan.flags

IsMeta(f) == f.tag = "meta" /\ "tx_remove_dsa" \in plan.flags

(* The socket a frame is sent on, if any: frames the format of which is    *)
(* wrong, for a port there is not, or with nowhere to go are dropped.      *)
SentOn(f) ==
    IF ForSwitch(f)
    THEN {<<p, IF f.id # NoStamp /\ HasPtp THEN "ts" ELSE "tx">> :
            p \in IF f.short THEN {} ELSE FindPort(f.port)}
    ELSE {<<p, "tx">> : p \in IF plan.ep = <<>> \/ IsMeta(f) THEN {} ELSE {Head(plan.ep)}}

HostSend ==
    /\ dev = "up" /\ plan.host # <<>>
    /\ LET f == Head(plan.host)
           sent == {s \in SentOn(f) : s[2] = "ts"} IN
       \/ /\ stamps' = [p \in AllPorts |->
                           IF <<p, "ts">> \in sent THEN Append(stamps[p], f.id) ELSE stamps[p]]
          /\ asked' = IF sent # {} THEN asked \cup {<<f.id, f.port>>} ELSE asked
          /\ plan' = [plan EXCEPT !.host = Tail(@)]
       \/ /\ SentOn(f) # {} /\ plan.fails > 0
          /\ plan' = [plan EXCEPT !.host = Tail(@), !.fails = @ - 1]
          /\ UNCHANGED <<stamps, asked>>
    /\ UNCHANGED <<sockets, armed, frames, mqueue, pc, sock, fault, returned, lost, deaf>>

-----------------------------------------------------------------------------
InitWith(p) ==
    LET kinds == IF "ptp_socket" \in p.flags THEN <<"tx", "rx", "ts", "ptp">> ELSE <<"tx", "rx">>
        all == IF p.early THEN {} ELSE Range(PortsOf(p)) \X Range(kinds)
        calls == {s \in all : s[2] # "tx"} IN
    /\ plan = p
    /\ setup = [port |-> IF p.early THEN 1 ELSE Len(PortsOf(p)) + 1, step |-> 1]
    /\ dev = IF p.early THEN "setup" ELSE "up"
    /\ open = all /\ opened = all /\ hooked = calls /\ armed = calls
    /\ linked = {s \in calls : s[2] # "ts"}
    /\ frames = [s \in AllPorts \X {"rx", "ptp"} |-> 0]
    /\ stamps = [q \in AllPorts |-> <<>>]
    /\ mqueue = [t \in Tasks |-> <<>>]
    /\ pc = [t \in Tasks |-> "wait"] /\ sock = [t \in Tasks |-> None]
    /\ fault = "none"
    /\ asked = {} /\ returned = {} /\ lost = {} /\ deaf = {}

Init == \E p \in Plans : InitWith(p)

Next ==
    \/ SetUp \/ SetUpFails \/ HostSend
    \/ \E s \in AllSockets : Callback(s)
    \/ \E s \in DOMAIN frames : Arrive(s)
    \/ \E t \in Tasks : Task(t)

Fairness ==
    /\ WF_vars(SetUp) /\ WF_vars(\E s \in AllSockets : Callback(s))
    /\ \A t \in Tasks : WF_vars(Task(t))

Spec == Init /\ [][Next]_vars /\ Fairness
-----------------------------------------------------------------------------
(* The state keeps its shape.                                              *)
TypeOK ==
    /\ dev \in {"setup", "up", "freed"} /\ fault \in {"none", "port", "freed"}
    /\ opened \subseteq open /\ open \subseteq AllSockets
    /\ armed \subseteq hooked /\ hooked \subseteq open
    /\ \A t \in Tasks : /\ pc[t] \in {"wait", "drain", "enable"}
                        /\ Len(mqueue[t]) <= Depth

(* net_callback() finds a device and a port: it goes through the null port *)
(* only of a frame that comes between the callback and the assignment, so  *)
(* never once port_genavb_init() is over, and into freed memory only when  *)
(* that failed after an endpoint port got its PTP sockets, which the       *)
(* unwinding leaves open.                                                  *)
NoFault ==
    /\ fault = "port" => \E s \in hooked : s[2] # "ts" /\ s \notin linked
    /\ fault = "freed" => dev = "freed" /\ HasPtp /\ \E s \in hooked : s[1] \in Range(plan.ep)

(* A socket with a callback is in one place: it will be called back, or    *)
(* one event of it is queued, or its task is at it.  So the queues, which  *)
(* are not waited for, never overflow, and no error path leaves a port     *)
(* unserved; but a callback that could not be enabled again is gone.       *)
Places(s) ==
    (IF s \in armed THEN 1 ELSE 0)
      + Cardinality({i \in DOMAIN mqueue[ServedBy(s)] : mqueue[ServedBy(s)][i] = s})
      + (IF sock[ServedBy(s)] = s THEN 1 ELSE 0)
SocketsServed ==
    dev # "freed" /\ fault = "none" => \A s \in hooked \ deaf : Places(s) = 1

(* The host gets the time stamps it asked for, with the id and the port of *)
(* the frame: never another, and unless memory ran out none is missing     *)
(* once the sockets are empty.                                             *)
Stamped == UNION {{<<stamps[p][i], plan.hardware_id[p]>> : i \in DOMAIN stamps[p]} : p \in AllPorts}
StampsAreThose == returned \cup lost \cup Stamped = asked

(* What arrives is read: once the plan's traffic is over, every socket is  *)
(* empty, unless its callback could not be enabled.                        *)
AllRead == fault # "none" \/ dev = "freed" \/ \A s \in hooked \ deaf : ~Waiting(s)
SocketsAreRead == <>[]AllRead
=============================================================================
