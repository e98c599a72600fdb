------------------------------ MODULE SrtmLink ------------------------------
(* The link with the Linux side in the applications over SRTM (app_srtm.c  *)
(* of apps/netc_share and, without resets, of apps/rpmsg_uart_sharing):    *)
(* the monitor task makes the RPMsg instance and the peer core, a timer    *)
(* and the dispatcher task poll until the link is up, and a reset of the   *)
(* other side, told by an interrupt, has the monitor do it all again.      *)
(* SRTM, RPMsg-Lite, the timer daemon and the other side are external.     *)
(* One core: the dispatcher runs while the monitor waits; the daemon has   *)
(* the monitor's priority; the interrupt comes at any time.                *)
EXTENDS Integers, Sequences

(* A setup is a record: whether a main task waits for the link (main), how *)
(* often the other side resets, and whether an allocation may fail.        *)
CONSTANT Setups     \* bound

SrtmAssumption ==
    \A s \in Setups : s.main \in BOOLEAN /\ {s.resets, s.allocs} \subseteq Nat

VARIABLES
    env,            \* what may still happen, see Setups
    srtmState,      \* what the monitor is to do
    state, doing, m_pc,     \* the monitor: its state, its case, its point
    monSig,         \* the semaphore it waits for
    disp, procs, poll,      \* dispatcher started; queued polls; its point in one
    linkupTimer, commands,  \* timer running; what is sent to its daemon
    rpmsgHandle, core,
    peer, kicked,   \* resets of the other side; its driver is ready
    main_pc, fault,
    live,           \* history: peer cores that exist
    again, stale, early, direct     \* history, see below

(* History.  again: a reset came after the instance was made again for an  *)
(* earlier one, or between a core's end and its pointer's.  stale: a link  *)
(* was made at a reset while a poll from before it was yet to come.        *)
(* early: a reset came before the monitor's first start.  direct: the link *)
(* was up as soon as the instance was made.                                *)
history == <<again, stale, early, direct>>
monitor == <<state, doing, m_pc>>
timer   == <<linkupTimer, commands>>
vars == <<env, srtmState, monitor, monSig, disp, procs, poll, timer, rpmsgHandle, core,
          peer, kicked, main_pc, fault, live, history>>

NoRpmsg == [epoch |-> -1, up |-> FALSE]
NoCore  == [epoch |-> -1, active |-> FALSE]
States  == {"run", "linked", "reboot", "shutdown"}

-----------------------------------------------------------------------------
(* SRTM_MonitorTask().                                                     *)

Take ==
    /\ m_pc = "take" /\ monSig /\ monSig' = FALSE /\ m_pc' = "compare"
    /\ UNCHANGED <<env, srtmState, state, doing, disp, procs, poll, timer, rpmsgHandle, core,
                   peer, kicked, main_pc, fault, live, history>>

Compare ==
    /\ m_pc = "compare" /\ m_pc' = IF state = srtmState THEN "take" ELSE "switch"
    /\ UNCHANGED <<env, srtmState, state, doing, monSig, disp, procs, poll, timer, rpmsgHandle, core,
                   peer, kicked, main_pc, fault, live, history>>

Asserted == CASE srtmState = "run" -> state = "shutdown"
              [] srtmState = "linked" -> TRUE
              [] srtmState = "reboot" -> state = "run"
              [] OTHER -> FALSE

Switch ==
    /\ m_pc = "switch" /\ doing' = srtmState
    /\ m_pc' = IF srtmState = "linked" /\ state # "run" THEN "take" ELSE "stop"
    /\ fault' = IF Asserted THEN fault ELSE "assert"
    /\ again' = (again /\ srtmState # "reboot")
    /\ UNCHANGED <<env, srtmState, state, monSig, disp, procs, poll, timer, rpmsgHandle, core,
                   peer, kicked, main_pc, live, stale, early, direct>>

(* The dispatcher stops between two procedures.                            *)
StopDispatcher ==
    /\ m_pc = "stop" /\ poll = "idle" /\ disp' = FALSE
    /\ m_pc' = CASE doing = "run" -> "init" [] doing = "linked" -> "link" [] OTHER -> "deinit"
    /\ UNCHANGED <<env, srtmState, state, doing, monSig, procs, poll, timer, rpmsgHandle, core,
                   peer, kicked, main_pc, fault, live, history>>

(* A slip: the core that was is left alone.                                *)
DeinitPeerCoreKeeps ==
    /\ m_pc = "deinit" /\ m_pc' = "gone" /\ commands' = Append(commands, "stop")
    /\ UNCHANGED <<env, srtmState, state, doing, monSig, disp, procs, poll, linkupTimer, rpmsgHandle, core,
                   peer, kicked, main_pc, fault, live, history>>

DeinitPeerCore ==
    /\ m_pc = "deinit" /\ m_pc' = "gone" /\ commands' = Append(commands, "stop")
    /\ live' = IF core = NoCore THEN live ELSE live - 1
    /\ UNCHANGED <<env, srtmState, state, doing, monSig, disp, procs, poll, linkupTimer, rpmsgHandle, core,
                   peer, kicked, main_pc, fault, history>>

Gone ==
    /\ m_pc = "gone" /\ m_pc' = "init" /\ core' = NoCore /\ rpmsgHandle' = NoRpmsg
    /\ UNCHANGED <<env, srtmState, state, doing, monSig, disp, procs, poll, timer,
                   peer, kicked, main_pc, fault, live, history>>

InitPeerCore ==
    /\ m_pc = "init" /\ m_pc' = "up" /\ rpmsgHandle' = [epoch |-> peer, up |-> kicked]
    /\ UNCHANGED <<env, srtmState, state, doing, monSig, disp, procs, poll, timer, core,
                   peer, kicked, main_pc, fault, live, history>>

IsLinkUp ==
    /\ m_pc = "up"
    /\ \/ rpmsgHandle.up /\ m_pc' = "link" /\ direct' = TRUE /\ UNCHANGED commands
       \/ /\ ~rpmsgHandle.up /\ m_pc' = "start" /\ commands' = Append(commands, "start")
          /\ UNCHANGED direct
    /\ UNCHANGED <<env, srtmState, state, doing, monSig, disp, procs, poll, linkupTimer, rpmsgHandle, core,
                   peer, kicked, main_pc, fault, live, again, stale, early>>

PollToCome == procs > 0 \/ linkupTimer \/ \E k \in DOMAIN commands : commands[k] = "start"

Linkup ==
    /\ m_pc = "link" /\ m_pc' = "start"
    /\ core' = [epoch |-> rpmsgHandle.epoch, active |-> TRUE] /\ live' = live + 1
    /\ stale' = (stale \/ (doing = "reboot" /\ PollToCome))
    /\ UNCHANGED <<env, srtmState, state, doing, monSig, disp, procs, poll, timer, rpmsgHandle,
                   peer, kicked, main_pc, fault, again, early, direct>>

(* A slip: the state stays at the reset that was handled.                  *)
RestoredNot == srtmState

Restored == IF doing = "reboot" THEN "run" ELSE srtmState

StartDispatcher ==
    /\ m_pc = "start" /\ m_pc' = "take" /\ disp' = TRUE /\ srtmState' = Restored
    /\ state' = IF doing = "run" THEN "run" ELSE state
    /\ UNCHANGED <<env, doing, monSig, procs, poll, timer, rpmsgHandle, core,
                   peer, kicked, main_pc, fault, live, history>>

MonitorTask ==
    \/ Take \/ Compare \/ Switch \/ StopDispatcher \/ DeinitPeerCore \/ Gone
    \/ InitPeerCore \/ IsLinkUp \/ Linkup \/ StartDispatcher

-----------------------------------------------------------------------------
(* The polls.                                                              *)

MonitorWaits == (m_pc = "take" /\ ~monSig) \/ (m_pc = "stop" /\ poll # "idle")

RunProc ==
    /\ poll = "idle" /\ disp /\ procs > 0 /\ procs' = procs - 1
    /\ poll' = IF srtmState = "run" THEN "check" ELSE "idle"
    /\ UNCHANGED <<srtmState, monSig, commands>>

(* A slip: a link that is down is not polled again.                        *)
CheckLinkOnce ==
    /\ poll = "check"
    /\ \/ rpmsgHandle.up /\ srtmState' = "linked" /\ poll' = "give"
       \/ ~rpmsgHandle.up /\ poll' = "idle" /\ UNCHANGED srtmState
    /\ UNCHANGED <<monSig, procs, commands>>

CheckLink ==
    /\ poll = "check"
    /\ \/ rpmsgHandle.up /\ srtmState' = "linked" /\ poll' = "give" /\ UNCHANGED commands
       \/ /\ ~rpmsgHandle.up /\ poll' = "idle" /\ commands' = Append(commands, "start")
          /\ UNCHANGED srtmState
    /\ UNCHANGED <<monSig, procs>>

Give ==
    /\ poll = "give" /\ poll' = "idle" /\ monSig' = TRUE
    /\ UNCHANGED <<srtmState, procs, commands>>

PollLinkup ==
    /\ MonitorWaits /\ (RunProc \/ CheckLink \/ Give)
    /\ UNCHANGED <<env, monitor, disp, linkupTimer, rpmsgHandle, core, peer, kicked, main_pc, fault, live, history>>

(* A poll that cannot be allocated is not made up for.                     *)
LinkupTimerCallback ==
    /\ linkupTimer /\ linkupTimer' = FALSE
    /\ \/ procs' = procs + 1 /\ UNCHANGED env
       \/ env.allocs > 0 /\ env' = [env EXCEPT !.allocs = -1] /\ UNCHANGED procs
    /\ UNCHANGED <<srtmState, monitor, monSig, disp, poll, commands, rpmsgHandle, core,
                   peer, kicked, main_pc, fault, live, history>>

TimerCommand ==
    /\ commands # <<>> /\ commands' = Tail(commands) /\ linkupTimer' = (Head(commands) = "start")
    /\ UNCHANGED <<env, srtmState, monitor, monSig, disp, procs, poll, rpmsgHandle, core,
                   peer, kicked, main_pc, fault, live, history>>

-----------------------------------------------------------------------------
(* The other side resets, and its driver gets ready, in that order.        *)

HandleLmmPowerChange ==
    /\ env.resets > 0 /\ env' = [env EXCEPT !.resets = @ - 1]
    /\ peer' = peer + 1 /\ kicked' = FALSE
    /\ core' = IF core = NoCore THEN core ELSE [core EXCEPT !.active = FALSE]
    /\ fault' = IF core # NoCore /\ m_pc = "gone" THEN "freed" ELSE fault
    /\ srtmState' = "reboot" /\ monSig' = TRUE
    /\ again' = (again \/ (doing = "reboot" /\ m_pc \in {"gone", "up", "link", "start"}))
    /\ early' = (early \/ (state = "shutdown" /\ m_pc \in {"take", "compare", "switch"}))
    /\ UNCHANGED <<monitor, disp, procs, poll, timer, rpmsgHandle, main_pc, live, stale, direct>>

PeerKicks ==
    /\ ~kicked /\ (rpmsgHandle = NoRpmsg \/ rpmsgHandle.epoch = peer)
    /\ kicked' = TRUE
    /\ rpmsgHandle' = IF rpmsgHandle = NoRpmsg THEN NoRpmsg ELSE [rpmsgHandle EXCEPT !.up = TRUE]
    /\ UNCHANGED <<env, srtmState, monitor, monSig, disp, procs, poll, timer, core,
                   peer, main_pc, fault, live, history>>

MainTask ==
    /\ env.main /\ main_pc = "wait" /\ srtmState = "linked" /\ main_pc' = "works"
    /\ UNCHANGED <<env, srtmState, monitor, monSig, disp, procs, poll, timer, rpmsgHandle, core,
                   peer, kicked, fault, live, history>>

-----------------------------------------------------------------------------
(* Init: APP_SRTM_Init() and APP_SRTM_StartCommunication() are done.       *)
InitWith(s) ==
    /\ env = s
    /\ srtmState = "run" /\ state = "shutdown" /\ doing = "shutdown" /\ m_pc = "take" /\ monSig = TRUE
    /\ disp = TRUE /\ procs = 0 /\ poll = "idle" /\ linkupTimer = FALSE /\ commands = <<>>
    /\ rpmsgHandle = NoRpmsg /\ core = NoCore /\ peer = 0 /\ kicked = FALSE
    /\ main_pc = "wait" /\ fault = "none" /\ live = 0
    /\ again = FALSE /\ stale = FALSE /\ early = FALSE /\ direct = FALSE

Init == \E s \in Setups : InitWith(s)

Next ==
    /\ fault = "none"
    /\ MonitorTask \/ PollLinkup \/ LinkupTimerCallback \/ TimerCommand
       \/ HandleLmmPowerChange \/ PeerKicks \/ MainTask

Fairness ==
    /\ WF_vars(fault = "none" /\ MonitorTask) /\ WF_vars(fault = "none" /\ PollLinkup)
    /\ WF_vars(fault = "none" /\ LinkupTimerCallback) /\ WF_vars(fault = "none" /\ TimerCommand)
    /\ WF_vars(fault = "none" /\ PeerKicks) /\ WF_vars(fault = "none" /\ MainTask)

Spec == Init /\ [][Next]_vars /\ Fairness
-----------------------------------------------------------------------------
(* The state keeps its shape.                                              *)
TypeOK ==
    /\ {srtmState, state, doing} \subseteq States
    /\ m_pc \in {"take", "compare", "switch", "stop", "deinit", "gone", "init", "up", "link", "start"}
    /\ poll \in {"idle", "check", "give"} /\ (poll = "idle" \/ disp)
    /\ {procs, live, peer} \subseteq Nat /\ fault \in {"none", "assert", "freed"}

(* No assertion of the monitor fails and no interrupt uses a core that is  *)
(* gone, unless a reset comes before the monitor's first start             *)
(* (app_srtm.c:671) or while it still handles another (app_srtm.c:599).    *)
NoFault == fault # "none" => early \/ again

(* When the monitor has nothing left to do, its instance is the one for    *)
(* the other side's last reset, and so is the peer core, of which there is *)
(* one; but for a reset that line 686 overwrites, and for a poll from      *)
(* before a reset that runs after it and links a second time.              *)
PeerLinked ==
    m_pc = "take" /\ ~monSig /\ fault = "none" =>
        /\ rpmsgHandle.epoch = peer \/ again
        /\ core # NoCore => core.epoch = rpmsgHandle.epoch
        /\ live = (IF core = NoCore THEN 0 ELSE 1) \/ stale

(* Once resets end the link comes up, and a main task that waits for it    *)
(* goes on, which it never does when the link was up at once: srtmState    *)
(* then stays at Run (rpmsg_uart_sharing/freertos/main.c:35).              *)
LinkIsUp ==
    \/ env.allocs = -1
    \/ /\ core.active \/ again \/ fault # "none"
       /\ ~env.main \/ main_pc = "works" \/ direct
LinkComesUp == <>[]LinkIsUp
=============================================================================
