------------------------------- MODULE Rpmsg -------------------------------
(* The RPMsg wrapper (libs/rpmsg/rpmsg.c) on two cores.  The master is     *)
(* apps/rpmsg_pingpong's main_master.c: rpmsg_init(), the name service     *)
(* task that creates and destroys an endpoint for each announcement, and   *)
(* the application that polls for its peer's endpoint and plays ping-pong  *)
(* on it; both tasks have the same priority.  The remote creates several   *)
(* endpoints with a task each, as rpmsg_str_echo's main.c, or one, as      *)
(* main_remote.c, and takes them back when it cannot.  The rpmsg-lite      *)
(* library is external: two channels that keep the order.                  *)
EXTENDS Integers, Sequences, FiniteSets, Functions

CONSTANTS
    QueueLen,   \* messages ns_mq holds (100 in the code; bound)
    Rounds,     \* pings of the application (51 in the code; bound)
    Peers,      \* addresses of the remote's endpoints
    Cases       \* the remotes (bound), see below

(* A case is a record: the endpoints in the order they are created         *)
(* (ept_addr), the one that the application polls for (dst), and how many  *)
(* calls may fail (fails).                                                 *)

RpmsgAssumption ==
    /\ QueueLen \in Nat /\ Rounds \in Nat \ {0} /\ IsFiniteSet(Peers) /\ 0 \notin Peers
    /\ Cases \subseteq [ept_addr : Seq(Peers), dst : Peers, fails : Nat]
    /\ \A c \in Cases : /\ IsInjective(c.ept_addr) /\ Range(c.ept_addr) \subseteq Peers
                       /\ c.dst \in Range(c.ept_addr)

ANY  == 0                       \* RL_ADDR_ANY
Srcs == 1..Cardinality(Peers)   \* values of rpmsg_src

VARIABLES
    case,               \* the remote, and the calls that may still fail
    boot,               \* steps of rpmsg_init() on the master still to do
    fault,              \* why a core stopped, "none" while they run
    rpmsg_src, ept,     \* next address; the master's endpoints by address
    ns_mq, ns, msg,     \* the queue and the task of the name service
    app, i, held, round,    \* the application: i of its search, its endpoint
    rinit, n, rept, rtask,  \* the remote: its init task, endpoints and tasks
    up, down,           \* messages to the master and to the remote
    announced, withdrawn, missed    \* history, see below

(* History.  announced and withdrawn: peers of which CREATE and DESTROY    *)
(* was sent.  missed: those of which the name service lost a message or    *)
(* for which it had no memory.                                             *)
history  == <<announced, withdrawn, missed>>
appVars  == <<app, i, held, round>>
nsVars   == <<ns_mq, ns, msg>>
peerVars == <<rinit, n, rept, rtask>>
vars == <<case, boot, fault, rpmsg_src, ept, nsVars, appVars, peerVars, up, down, history>>

NoMsg == [flags |-> "none", dst |-> ANY]
NoEpt == [live |-> FALSE, remote_addr |-> ANY, q |-> <<>>]

MayFail == case.fails > 0 /\ case' = [case EXCEPT !.fails = @ - 1]
Runs    == fault = "none" /\ boot = <<>>

-----------------------------------------------------------------------------
(* rpmsg_master_init().  The link is up before the name service is bound.  *)

BootOrder == <<"lite", "mq", "task", "bind">>
Bound == boot = <<>>
LinkUp == boot # BootOrder

MasterInit ==
    /\ boot # <<>> /\ fault = "none"
    /\ \/ boot' = Tail(boot) /\ UNCHANGED <<fault, case>>
       \/ fault' = "init" /\ MayFail /\ UNCHANGED boot
    /\ UNCHANGED <<rpmsg_src, ept, nsVars, appVars, peerVars, up, down, history>>

(* Reception, in an interrupt: rpmsg_nameservice_isr_cb() does not wait    *)
(* for the queue, rpmsg_queue_rx_cb() has the endpoint's.  A message for   *)
(* an address without an endpoint is dropped.                              *)
Receive ==
    /\ up # <<>> /\ fault = "none" /\ up' = Tail(up)
    /\ LET m == Head(up) IN
       IF m.flags = "data"
       THEN /\ ept' = IF ept[m.dst].live THEN [ept EXCEPT ![m.dst].q = Append(@, m.src)] ELSE ept
            /\ UNCHANGED <<ns_mq, missed>>
       ELSE /\ ns_mq' = IF Bound /\ Len(ns_mq) < QueueLen THEN Append(ns_mq, m) ELSE ns_mq
            /\ missed' = IF ns_mq' = ns_mq THEN missed \cup {m.dst} ELSE missed
            /\ UNCHANGED ept
    /\ UNCHANGED <<case, boot, fault, rpmsg_src, ns, msg, appVars, peerVars, down, announced, withdrawn>>

-----------------------------------------------------------------------------
(* rpmsg_nameservice_task().                                               *)

NsReceive ==
    /\ Runs /\ ns = "wait" /\ ns_mq # <<>>
    /\ msg' = Head(ns_mq) /\ ns_mq' = Tail(ns_mq)
    /\ ns' = Head(ns_mq).flags
    /\ UNCHANGED <<case, boot, fault, rpmsg_src, ept, appVars, peerVars, up, down, history>>

(* rpmsg_get_ept_addr() and rpmsg_create_ept(): the address is used up if  *)
(* there is no memory, too.                                                *)
NsCreate ==
    /\ Runs /\ ns = "CREATE"
    /\ rpmsg_src' = rpmsg_src + 1
    /\ \/ /\ ept' = [ept EXCEPT ![rpmsg_src] = [NoEpt EXCEPT !.live = TRUE]]
          /\ ns' = "address" /\ UNCHANGED <<msg, case, missed>>
       \/ /\ MayFail /\ missed' = missed \cup {msg.dst}
          /\ ns' = "wait" /\ msg' = NoMsg /\ UNCHANGED ept
    /\ UNCHANGED <<boot, fault, ns_mq, appVars, peerVars, up, down, announced, withdrawn>>

NsAddress ==
    /\ Runs /\ ns = "address"
    /\ ept' = [ept EXCEPT ![rpmsg_src - 1].remote_addr = msg.dst]
    /\ ns' = "wait" /\ msg' = NoMsg
    /\ UNCHANGED <<case, boot, fault, rpmsg_src, ns_mq, appVars, peerVars, up, down, history>>

(* A slip: the search stops an address early.                              *)
SearchedShort == 1..(rpmsg_src - 2)
(* The addresses rpmsg_get_endpoint_by_dst() looks at, in this order.      *)
Searched == 1..(rpmsg_src - 1)

(* A slip: any endpoint will do.                                           *)
IsForAny(s, dst) == ept[s].live
IsFor(s, dst) == ept[s].live /\ ept[s].remote_addr = dst

(* The first endpoint found is freed, with its queue.  What is then read   *)
(* of it, for the log, the freed block still holds.                        *)
NsDestroy ==
    LET found == {s \in Searched : IsFor(s, msg.dst)} IN
    /\ Runs /\ ns = "DESTROY"
    /\ ept' = [s \in Srcs |-> IF s \in found /\ \A t \in found : s <= t
                              THEN [ept[s] EXCEPT !.live = FALSE, !.q = <<>>] ELSE ept[s]]
    /\ ns' = "wait" /\ msg' = NoMsg
    /\ UNCHANGED <<case, boot, fault, rpmsg_src, ns_mq, appVars, peerVars, up, down, history>>

NameService == NsReceive \/ NsCreate \/ NsAddress \/ NsDestroy

-----------------------------------------------------------------------------
(* The application.  It finds an endpoint in two steps, looks at what it   *)
(* has found a tick later, and uses it from then on.                       *)

AppStep(from) == Runs /\ app = from
AppRest == UNCHANGED <<case, boot, rpmsg_src, nsVars, peerVars, history>>

Search ==
    /\ AppStep("search") /\ AppRest
    /\ IF i \in Searched
       THEN IF ept[i].live THEN app' = "compare" /\ UNCHANGED i ELSE i' = i + 1 /\ UNCHANGED app
       ELSE i' = 1 /\ UNCHANGED app     \* none, a tick later again
    /\ UNCHANGED <<fault, ept, held, round, up, down>>

(* The endpoint may have been freed since.                                 *)
Touch(s) == fault' = IF ept[s].live THEN "none" ELSE "freed"

Compare ==
    /\ AppStep("compare") /\ AppRest /\ Touch(i)
    /\ IF ept[i].remote_addr = case.dst
       THEN app' = "send" /\ held' = i /\ i' = 1
       ELSE app' = "search" /\ i' = i + 1 /\ UNCHANGED held
    /\ UNCHANGED <<ept, round, up, down>>

AppSend ==
    /\ AppStep("send") /\ AppRest /\ Touch(held)
    /\ down' = Append(down, [dst |-> ept[held].remote_addr, src |-> held])
    /\ app' = "recv"
    /\ UNCHANGED <<ept, i, held, round, up>>

(* rpmsg_recv(): a task that waits on a queue that is destroyed waits for  *)
(* ever; the message of another peer is refused.                           *)
AppRecv ==
    /\ AppStep("recv") /\ AppRest /\ ept[held].live /\ ept[held].q # <<>>
    /\ ept' = [ept EXCEPT ![held].q = Tail(@)]
    /\ IF Head(ept[held].q) = ept[held].remote_addr
       THEN /\ round' = round + 1 /\ app' = IF round + 1 = Rounds THEN "done" ELSE "send"
            /\ UNCHANGED fault
       ELSE fault' = "assert" /\ UNCHANGED <<round, app>>
    /\ UNCHANGED <<i, held, up, down>>

Application == Search \/ Compare \/ AppSend \/ AppRecv

-----------------------------------------------------------------------------
(* The remote.  Its init task creates endpoint n and then the task of it;  *)
(* the first that fails makes it destroy all it has, the last one first.   *)

Announce(flags, a) ==
    /\ up' = Append(up, [flags |-> flags, dst |-> a])
    /\ announced' = IF flags = "CREATE" THEN announced \cup {a} ELSE announced
    /\ withdrawn' = IF flags = "DESTROY" THEN withdrawn \cup {a} ELSE withdrawn
RemoteRest == UNCHANGED <<boot, fault, rpmsg_src, ept, nsVars, appVars, missed>>
Addr == case.ept_addr[n]

NextPeer == /\ n' = n + 1
            /\ rinit' = IF n = Len(case.ept_addr) THEN "suspended" ELSE "create"

RemoteCreate ==
    /\ rinit = "create" /\ LinkUp /\ RemoteRest
    /\ \/ /\ rept' = [rept EXCEPT ![Addr] = [NoEpt EXCEPT !.live = TRUE]]
          /\ Announce("CREATE", Addr)
          /\ rinit' = "task" /\ UNCHANGED <<n, case>>
       \/ /\ MayFail /\ rinit' = "undo" /\ n' = n - 1
          /\ UNCHANGED <<rept, up, announced, withdrawn>>
    /\ UNCHANGED <<rtask, down>>

RemoteTask ==
    /\ rinit = "task" /\ RemoteRest
    /\ \/ rtask' = rtask \cup {Addr} /\ NextPeer /\ UNCHANGED case
       \/ rinit' = "undo" /\ MayFail /\ UNCHANGED <<rtask, n>>
    /\ UNCHANGED <<rept, up, down, announced, withdrawn>>

RemoteUndo ==
    /\ rinit = "undo" /\ RemoteRest
    /\ IF n = 0 THEN rinit' = "failed" /\ UNCHANGED <<n, rept, rtask, up, announced, withdrawn>>
       ELSE /\ rtask' = rtask \ {Addr} /\ rept' = [rept EXCEPT ![Addr] = NoEpt]
            /\ Announce("DESTROY", Addr)
            /\ n' = n - 1 /\ UNCHANGED rinit
    /\ UNCHANGED <<case, down>>

RemoteReceive ==
    /\ down # <<>> /\ down' = Tail(down)
    /\ LET m == Head(down) IN
       rept' = IF rept[m.dst].live THEN [rept EXCEPT ![m.dst].q = Append(@, m.src)] ELSE rept
    /\ UNCHANGED <<case, boot, fault, rpmsg_src, ept, nsVars, appVars, rinit, n, rtask, up, history>>

(* rpmsg_ept_task(): the first sender becomes the endpoint's peer, a       *)
(* message of another is refused, and every other one is answered.         *)
Echo(a) ==
    /\ fault = "none" /\ a \in rtask /\ rept[a].q # <<>>
    /\ LET src == Head(rept[a].q) IN
       /\ rept' = [rept EXCEPT ![a].q = Tail(@),
                               ![a].remote_addr = IF @ = ANY THEN src ELSE @]
       /\ IF rept'[a].remote_addr = src
          THEN up' = Append(up, [flags |-> "data", dst |-> src, src |-> a]) /\ UNCHANGED fault
          ELSE fault' = "assert" /\ UNCHANGED up
    /\ UNCHANGED <<case, boot, rpmsg_src, ept, nsVars, appVars, rinit, n, rtask, down, history>>

Remote == RemoteCreate \/ RemoteTask \/ RemoteUndo

-----------------------------------------------------------------------------
InitWith(c) ==
    /\ case = c
    /\ boot = BootOrder /\ fault = "none"
    /\ rpmsg_src = 1 /\ ept = [s \in Srcs |-> NoEpt]
    /\ ns_mq = <<>> /\ ns = "wait" /\ msg = NoMsg
    /\ app = "search" /\ i = 1 /\ held = 0 /\ round = 0
    /\ rinit = "create" /\ n = 1 /\ rept = [a \in Peers |-> NoEpt] /\ rtask = {}
    /\ up = <<>> /\ down = <<>>
    /\ announced = {} /\ withdrawn = {} /\ missed = {}

Init == \E c \in Cases : InitWith(c)

Next ==
    \/ MasterInit \/ Receive \/ NameService \/ Application
    \/ Remote \/ RemoteReceive \/ \E a \in Peers : Echo(a)

Fairness ==
    /\ WF_vars(MasterInit) /\ WF_vars(Receive)
    /\ WF_vars(NameService) /\ WF_vars(Application)
    /\ WF_vars(Remote) /\ WF_vars(RemoteReceive)
    /\ \A a \in Peers : WF_vars(Echo(a))

Spec == Init /\ [][Next]_vars /\ Fairness
-----------------------------------------------------------------------------
(* The state keeps its shape.                                              *)
TypeOK ==
    /\ fault \in {"none", "init", "freed", "assert"} /\ rpmsg_src \in Srcs \cup {Cardinality(Peers) + 1}
    /\ \A s \in Srcs : ept[s].live \in BOOLEAN /\ ept[s].remote_addr \in Peers \cup {ANY}
    /\ Len(ns_mq) <= QueueLen /\ ns \in {"wait", "CREATE", "DESTROY", "address"}
    /\ app \in {"search", "compare", "send", "recv", "done"} /\ round \in 0..Rounds
    /\ i \in Srcs \cup {Cardinality(Peers) + 1} /\ held \in Srcs \cup {0}
    /\ rinit \in {"create", "task", "undo", "suspended", "failed"} /\ rtask \subseteq Peers

(* The application looks into a freed endpoint only if the peer of that    *)
(* endpoint withdrew it: no announcement of another peer takes it away.    *)
NoFault ==
    /\ fault # "assert"
    /\ fault = "freed" => ept[IF app = "search" THEN i - 1 ELSE held].remote_addr \in withdrawn

(* Once the name service has done all it was told, every peer it missed    *)
(* nothing of has one endpoint, with its address, if it is there, and none *)
(* if it is not.                                                           *)
Told == \A k \in DOMAIN up : up[k].flags = "data"
NamesAgree ==
    Told /\ ns_mq = <<>> /\ ns = "wait" =>
        \A a \in Peers \ missed :
            Cardinality({s \in Srcs : ept[s].live /\ ept[s].remote_addr = a}) = (IF a \in announced \ withdrawn THEN 1 ELSE 0)

(* The application finds its peer and plays all its rounds, unless a call  *)
(* failed or the peer's announcement came before the name service was      *)
(* bound or while its queue was full.                                      *)
RoundsOver   == app = "done" \/ fault = "init" \/ rinit = "failed" \/ case.dst \in missed
PingPongEnds == <>[]RoundsOver
=============================================================================
