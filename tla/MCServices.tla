----------------------------- MODULE MCServices -----------------------------
(* The services that share nothing with each other and with the data path, *)
(* in one state space: a behaviour is one of the virtio trans device, of   *)
(* the servo's clock, of the servo's drive, of the PTP stack, of the RPMsg *)
(* wrapper, of the RPMsg measurement, of the SRTM link or of the           *)
(* statistics, while the others stay where they begin.                     *)
EXTENDS Integers, Sequences, FiniteSets, TLC

CONSTANTS
    Width, Sessions,                \* VirtioTrans
    Top, Settings, Period, Words,   \* CounterAlarm and ServoClock
    Jobs, MaxLost, Patience,        \* ServoDrives
    Depth, Plans,                   \* PtpStack
    QueueLen, Rounds, Peers, Cases, \* Rpmsg
    CountWidth, TickWidth, Buffers, Scripts,    \* RpmsgPerf
    Setups,                         \* SrtmLink
    Samples, MaxInt, StatsPeriod, Log2Size, Slots, SlotSize,
    MaxSamples, MaxTests            \* Stats

VARIABLES
    alive,  \* the service of this behaviour
    t_boot, t_fault, write, script, warm, block_time, chains, due, conf,
    regression, back_poll, front_poll, running, count, on, avail, sem, note,
    t_pc, left, hand, iov, ret, lock, size, pulled, hurried, switched, split,
    setting, hw, alarm, next, isr, now, lag, c_pc, again, system_ticks,
    ticks_last, sys_ticks, last, ticks, real, took,
    job, d_pc, chk, notes, timer, tp, csp, out, status, frame, wkc_lost,
    state, cmd, prev, act, misread, coasted, early, behind,
    plan, setup, dev, open, opened, hooked, linked, armed, frames, stamps,
    mqueue, p_pc, sock, p_fault, asked, returned, lost, deaf,
    case, r_boot, r_fault, rpmsg_src, ept, ns_mq, ns, msg, app, i, held, round,
    rinit, n, rept, rtask, up, down, announced, withdrawn, missed,
    todo, test, linux, sent, ended, begun, f_fault, recv, p_in, release_buf,
    no_copy, no_copy_old, packet_size, rx_len, send, signal, args,
    inbox, loaned, outbox, tick, made, wrapped,
    env, srtmState, s_state, doing, m_pc, monSig, disp, procs, poll, linkupTimer,
    commands, rpmsgHandle, core, peer, kicked, main_pc, s_fault, live,
    s_again, stale, s_early, direct,
    tests, taken, test_on, st, snap, hist, pending, stats_cnt, l_pc,
    window, snap_window, seen, printed, shown, overrun, skipped

transVars ==
    <<t_boot, t_fault, write, script, warm, block_time, chains, due, conf,
      regression, back_poll, front_poll, running, count, on, avail, sem, note,
      t_pc, left, hand, iov, ret, lock, size, pulled, hurried, switched, split>>
clockVars ==
    <<setting, hw, alarm, next, isr, now, lag, c_pc, again, system_ticks,
      ticks_last, sys_ticks, last, ticks, real, took>>
drivesVars ==
    <<job, d_pc, chk, notes, timer, tp, csp, out, status, frame, wkc_lost,
      state, cmd, prev, act, misread, coasted, early, behind>>
ptpVars ==
    <<plan, setup, dev, open, opened, hooked, linked, armed, frames, stamps,
      mqueue, p_pc, sock, p_fault, asked, returned, lost, deaf>>
rpmsgVars ==
    <<case, r_boot, r_fault, rpmsg_src, ept, ns_mq, ns, msg, app, i, held, round,
      rinit, n, rept, rtask, up, down, announced, withdrawn, missed>>
perfVars ==
    <<todo, test, linux, sent, ended, begun, f_fault, recv, p_in, release_buf,
      no_copy, no_copy_old, packet_size, rx_len, send, signal, args,
      inbox, loaned, outbox, tick, made, wrapped>>
srtmVars ==
    <<env, srtmState, s_state, doing, m_pc, monSig, disp, procs, poll, linkupTimer,
      commands, rpmsgHandle, core, peer, kicked, main_pc, s_fault, live,
      s_again, stale, s_early, direct>>
statsVars ==
    <<tests, taken, test_on, st, snap, hist, pending, stats_cnt, l_pc,
      window, snap_window, seen, printed, shown, overrun, skipped>>

Trans == INSTANCE VirtioTrans WITH boot <- t_boot, fault <- t_fault, pc <- t_pc
Clock == INSTANCE ServoClock WITH pc <- c_pc
Drives == INSTANCE ServoDrives WITH pc <- d_pc
Ptp   == INSTANCE PtpStack WITH fault <- p_fault, pc <- p_pc
Rpmsg == INSTANCE Rpmsg WITH boot <- r_boot, fault <- r_fault
Perf  == INSTANCE RpmsgPerf WITH fault <- f_fault
Srtm  == INSTANCE SrtmLink WITH state <- s_state, fault <- s_fault, again <- s_again, early <- s_early
Stats == INSTANCE Stats

ASSUME ServicesAssumption ==
    /\ Trans!TransAssumption /\ Clock!CounterAssumption /\ Clock!ClockAssumption
    /\ Drives!DrivesAssumption /\ Ptp!PtpAssumption /\ Rpmsg!RpmsgAssumption
    /\ Perf!PerfAssumption /\ Srtm!SrtmAssumption /\ Stats!StatsAssumption

-----------------------------------------------------------------------------
(* The bounds.  The records are made here: a value of a constant may not   *)
(* use the instances that take the constant.                               *)

Session(w, e, b, s, c) ==
    [warm |-> w, early |-> e, block_time |-> b, script |-> s, chains |-> c]
Job(path, cyclic, at, faults, losses) ==
    [path |-> path, cyclic |-> cyclic, at |-> at, faults |-> faults, losses |-> losses]
Point(to, periods) == [to |-> to, periods |-> periods]
Plan(ep, br, ids, fl, arrive, k, host, fails) ==
    [ep |-> ep, br |-> br, hardware_id |-> ids, flags |-> fl, early |-> arrive,
     arrivals |-> k, host |-> host, fails |-> fails]
Frame(tag, port, id, short) == [tag |-> tag, port |-> port, id |-> id, short |-> short]
Case(ept_addr, dst, fails) == [ept_addr |-> ept_addr, dst |-> dst, fails |-> fails]
PerfTest(s, nc, z, l, k) ==
    [sender |-> s, no_copy |-> nc, packet_size |-> z, length |-> l, killed |-> k]
Script(tests_, at) == [tests |-> tests_, tick |-> at]
Setup(main, resets, allocs) == [main |-> main, resets |-> resets, allocs |-> allocs]

Pfn(q, u) == [reg |-> "pfn", vq |-> q, up |-> u]
Config(D, b, f) == [reg |-> "config", val |-> [dirs |-> D, back_poll |-> b, front_poll |-> f]]
Regression(k) == [reg |-> "regression", val |-> k]
Control(s) == [reg |-> "control", start |-> s]
Reset == [reg |-> "reset"]
Dirs == {"rx", "tx"}
Chains(r, t) == [d \in Dirs |-> IF d = "rx" THEN r ELSE t]
BothUp == <<Pfn("rx", TRUE), Pfn("tx", TRUE)>>
Again == <<Control(TRUE), Control(TRUE), Control(FALSE), Control(TRUE)>>
MCSessions ==
    \* the first writes come while the device starts
    {Session(w, TRUE, 1,
        <<Pfn("tx", TRUE), Config({"tx"}, b, TRUE), Regression(1), Control(TRUE)>>,
        Chains(<<>>, <<1>>)) : w \in BOOLEAN, b \in BOOLEAN} \cup
    \* both directions, with interrupts to the driver
    {Session(FALSE, FALSE, t, BothUp \o <<Config(Dirs, b, FALSE), Regression(2), Control(TRUE)>>,
        Chains(<<1, 1>>, <<1, 1>>)) : b \in BOOLEAN, t \in {0, 1}} \cup
    \* one test after another, the last chain longer than what is left
    {Session(FALSE, FALSE, 1,
        <<Pfn(d, TRUE), Config({d}, b, TRUE), Regression(2)>> \o Again \o <<Regression(1)>>,
        Chains(<<1, 1, 1, 1>>, <<1, 1, 2>>)) : d \in Dirs, b \in BOOLEAN} \cup
    \* the polling mode changes, and a queue is cleared
    {Session(FALSE, FALSE, 1,
        <<Pfn("tx", TRUE), Config({"tx"}, b, TRUE), Regression(1), Control(TRUE), Config({"tx"}, ~b, FALSE), s>>,
        Chains(<<>>, <<2, 1>>)) : b \in BOOLEAN, s \in {Reset, Pfn("tx", FALSE)}}

\* a GPT, and software that does at least a step per tick
MCSettings == {[gpt |-> TRUE, load |-> FALSE, delay |-> 1]}

\* a cyclic path with a fault, and one that ends, with two lost frames
MCJobs ==
    {Job(<<Point(3, 3), Point(2, 1)>>, TRUE, 1, 1, 2),
     Job(<<Point(-1, 1), Point(1, 3)>>, FALSE, 0, 2, 0)}

PtpFlags == {"ptp_socket", "tx_remove_dsa", "tx_remove_vlan"}
TwoHw == ("e" :> 0) @@ ("a" :> 2) @@ ("b" :> 1)
MCPlans ==
    { Plan(<<"e">>, <<"a">>, TwoHw, PtpFlags, TRUE, 1, <<>>, 1),
      Plan(<<>>, <<"a", "b">>, TwoHw, PtpFlags, FALSE, 2,
          <<Frame("dsa", 1, 1, FALSE), Frame("dsa", 2, 2, FALSE)>>, 1),
      Plan(<<"e">>, <<"a">>, TwoHw, PtpFlags \ {"tx_remove_vlan"}, FALSE, 1,
          <<Frame("vlan", 2, 0, FALSE), Frame("dsa", 3, 1, FALSE),
            Frame("meta", 2, 0, FALSE), Frame("dsa", 2, 2, TRUE)>>, 0) }

MCCases == {Case(<<31, 30>>, 30, 1), Case(<<30, 31>>, 30, 1), Case(<<30>>, 30, 0)}

\* a sender's test without an end, and bytes that pass the wrap; tests that
\* come before the send task, or while the one before is running
MCScripts ==
    {Script(<<PerfTest(TRUE, FALSE, 2, 3, TRUE), PerfTest(TRUE, TRUE, 2, 2, FALSE),
              PerfTest(FALSE, FALSE, 1, 1, FALSE)>>, 0),
     Script(<<PerfTest(FALSE, FALSE, 1, 1, TRUE), PerfTest(FALSE, TRUE, 1, 2, FALSE),
              PerfTest(TRUE, FALSE, 2, 4, FALSE)>>, 0),
     Script(<<PerfTest(FALSE, TRUE, 1, 2, FALSE)>>, 3)}

\* three resets; a main task and a failed allocation; a reset and one
MCSetups == {Setup(FALSE, 3, 0), Setup(TRUE, 0, 1), Setup(FALSE, 1, 1)}

-----------------------------------------------------------------------------
Init ==
    /\ alive \in {"trans", "clock", "drives", "ptp", "rpmsg", "perf", "srtm", "stats"}
    /\ \E s \in Sessions : Trans!InitWith(s) /\ (alive = "trans" \/ s = CHOOSE x \in Sessions : TRUE)
    /\ \E j \in Jobs : Drives!InitWith(j) /\ (alive = "drives" \/ j = CHOOSE x \in Jobs : TRUE)
    /\ \E p \in Plans : Ptp!InitWith(p) /\ (alive = "ptp" \/ p = CHOOSE x \in Plans : TRUE)
    /\ \E c \in Cases : Rpmsg!InitWith(c) /\ (alive = "rpmsg" \/ c = CHOOSE x \in Cases : TRUE)
    /\ \E f \in Scripts : Perf!InitWith(f) /\ (alive = "perf" \/ f = CHOOSE x \in Scripts : TRUE)
    /\ \E u \in Setups : Srtm!InitWith(u) /\ (alive = "srtm" \/ u = CHOOSE x \in Setups : TRUE)
    /\ Clock!Init /\ Stats!Init

Next ==
    /\ UNCHANGED alive
    /\ \/ alive = "trans" /\ Trans!Next
          /\ UNCHANGED <<clockVars, drivesVars, ptpVars, rpmsgVars, perfVars, srtmVars, statsVars>>
       \/ alive = "clock" /\ Clock!Next
          /\ UNCHANGED <<transVars, drivesVars, ptpVars, rpmsgVars, perfVars, srtmVars, statsVars>>
       \/ alive = "drives" /\ Drives!Next
          /\ UNCHANGED <<transVars, clockVars, ptpVars, rpmsgVars, perfVars, srtmVars, statsVars>>
       \/ alive = "ptp" /\ Ptp!Next
          /\ UNCHANGED <<transVars, clockVars, drivesVars, rpmsgVars, perfVars, srtmVars, statsVars>>
       \/ alive = "rpmsg" /\ Rpmsg!Next
          /\ UNCHANGED <<transVars, clockVars, drivesVars, ptpVars, perfVars, srtmVars, statsVars>>
       \/ alive = "perf" /\ Perf!Next
          /\ UNCHANGED <<transVars, clockVars, drivesVars, ptpVars, rpmsgVars, srtmVars, statsVars>>
       \/ alive = "srtm" /\ Srtm!Next
          /\ UNCHANGED <<transVars, clockVars, drivesVars, ptpVars, rpmsgVars, perfVars, statsVars>>
       \/ alive = "stats" /\ Stats!Next
          /\ UNCHANGED <<transVars, clockVars, drivesVars, ptpVars, rpmsgVars, perfVars, srtmVars>>

\* the Fairness of each module
TransFairness ==
    /\ WF_transVars(alive = "trans" /\ Trans!Boot)
    /\ WF_transVars(alive = "trans" /\ Trans!HandleWrite)
    /\ \A d \in {"rx", "tx"} :
        /\ WF_transVars(alive = "trans" /\ Trans!NotifyQueue(d))
        /\ WF_transVars(alive = "trans" /\ Trans!Provide(d))
    /\ WF_transVars(alive = "trans" /\ Trans!Task("tx"))
    /\ SF_transVars(alive = "trans" /\ Trans!Task("rx"))

DrivesFairness ==
    /\ WF_drivesVars(alive = "drives" /\ Drives!control_task)
    /\ WF_drivesVars(alive = "drives" /\ Drives!NextPeriod)
    /\ SF_drivesVars(alive = "drives" /\ Drives!NextPeriod /\ Drives!Reacts)

PtpFairness ==
    /\ WF_ptpVars(alive = "ptp" /\ Ptp!SetUp)
    /\ WF_ptpVars(alive = "ptp" /\ \E s \in Ptp!AllSockets : Ptp!Callback(s))
    /\ \A t \in {"rx", "ts"} : WF_ptpVars(alive = "ptp" /\ Ptp!Task(t))

RpmsgFairness ==
    /\ WF_rpmsgVars(alive = "rpmsg" /\ Rpmsg!MasterInit)
    /\ WF_rpmsgVars(alive = "rpmsg" /\ Rpmsg!Receive)
    /\ WF_rpmsgVars(alive = "rpmsg" /\ Rpmsg!NameService)
    /\ WF_rpmsgVars(alive = "rpmsg" /\ Rpmsg!Application)
    /\ WF_rpmsgVars(alive = "rpmsg" /\ Rpmsg!Remote)
    /\ WF_rpmsgVars(alive = "rpmsg" /\ Rpmsg!RemoteReceive)
    /\ \A a \in Peers : WF_rpmsgVars(alive = "rpmsg" /\ Rpmsg!Echo(a))

PerfFairness ==
    /\ WF_perfVars(alive = "perf" /\ Perf!Tool) /\ WF_perfVars(alive = "perf" /\ Perf!LinuxReceives)
    /\ WF_perfVars(alive = "perf" /\ Perf!InitTask) /\ WF_perfVars(alive = "perf" /\ Perf!RecvTask)
    /\ WF_perfVars(alive = "perf" /\ Perf!SendTask) /\ WF_perfVars(alive = "perf" /\ Perf!Tick)

SrtmStep(A) == alive = "srtm" /\ s_fault = "none" /\ A
SrtmFairness ==
    /\ WF_srtmVars(SrtmStep(Srtm!MonitorTask)) /\ WF_srtmVars(SrtmStep(Srtm!PollLinkup))
    /\ WF_srtmVars(SrtmStep(Srtm!LinkupTimerCallback)) /\ WF_srtmVars(SrtmStep(Srtm!TimerCommand))
    /\ WF_srtmVars(SrtmStep(Srtm!PeerKicks)) /\ WF_srtmVars(SrtmStep(Srtm!MainTask))

Spec ==
    /\ Init
    /\ [][Next]_<<alive, transVars, clockVars, drivesVars, ptpVars, rpmsgVars, perfVars, srtmVars, statsVars>>
    /\ TransFairness /\ DrivesFairness /\ PtpFairness /\ RpmsgFairness
    /\ PerfFairness /\ SrtmFairness

-----------------------------------------------------------------------------
(* Every service keeps the shape of its state.                             *)
TypeOK ==
    CASE alive = "trans"  -> Trans!TypeOK
      [] alive = "clock"  -> Clock!TypeOK
      [] alive = "drives" -> Drives!TypeOK
      [] alive = "ptp"    -> Ptp!TypeOK
      [] alive = "rpmsg"  -> Rpmsg!TypeOK
      [] alive = "perf"   -> Perf!TypeOK
      [] alive = "srtm"   -> Srtm!TypeOK
      [] OTHER            -> Stats!TypeOK

(* No service goes through a null or freed pointer, but for the sequences  *)
(* of calls that each module's NoFault names.                              *)
NoFault == Trans!NoFault /\ Ptp!NoFault /\ Rpmsg!NoFault /\ Perf!NoFault /\ Srtm!NoFault

(* The trans device: the shared iov and the channel are one task's at a    *)
(* time.                                                                   *)
Exclusion == alive = "trans" => Trans!Exclusion

(* The two measurements report what was moved in the test they are of: the *)
(* trans device to its driver, rpmsg_perf to Linux.                        *)
CountIsCurrent ==
    /\ alive = "trans" => Trans!CountIsCurrent
    /\ alive = "perf" => Perf!CountsAgree

(* The servo's clock: the loop keeps its alarm, its sum does not drift,    *)
(* and the time read is that of the reading.                               *)
ClockKeepsTime == alive = "clock" => Clock!LoopAhead /\ Clock!NoDrift /\ Clock!TimeRead

(* The servo's drive: it is never sent off in a jump.                      *)
NoJump == alive = "drives" => Drives!NoJump

(* The PTP stack: a socket is served by one event, and the time stamps     *)
(* that come back are those asked for.                                     *)
SocketsServed == alive = "ptp" => Ptp!SocketsServed /\ Ptp!StampsAreThose

(* The RPMsg wrapper: the master knows the peers that are there.           *)
NamesAgree == alive = "rpmsg" => Rpmsg!NamesAgree

(* The SRTM link: the instance and its peer core are those of the other    *)
(* side's last reset.                                                      *)
PeerLinked == alive = "srtm" => Srtm!PeerLinked

(* The statistics printed are those of the samples taken.                  *)
StatsAreThose == alive = "stats" => Stats!StatsAreThose

(* Work comes to its end: a test of the trans device, the recovery of a    *)
(* drive from a fault, the frames of a PTP socket, the rounds of the       *)
(* application on RPMsg, the tests of rpmsg_perf, and the link over SRTM.  *)
WorkOver ==
    CASE alive = "trans"  -> Trans!TestsOver
      [] alive = "drives" -> Drives!Operating
      [] alive = "ptp"    -> Ptp!AllRead
      [] alive = "rpmsg"  -> Rpmsg!RoundsOver
      [] alive = "perf"   -> Perf!TestsOver
      [] alive = "srtm"   -> Srtm!LinkIsUp
      [] OTHER            -> TRUE
WorkEnds == <>[]WorkOver
=============================================================================
