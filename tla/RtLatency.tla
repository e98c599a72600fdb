----------------------------- MODULE RtLatency -----------------------------
(* The latency measurement of apps/rt_latency: the task benchmark_task     *)
(* arms an alarm, waits for its interrupt with a timeout, and measures;    *)
(* with interrupt load a second counter interrupts at nearly the same time *)
(* and keeps the core busy; main_task deletes the test and starts another. *)
EXTENDS CounterAlarm, Sequences

CONSTANTS
    Ticks,          \* COUNTER_PERIOD_US_VAL in ticks
    LoadTicks,      \* COUNTER_PERIOD_US_VAL - 1
    Spin,           \* IRQ_LOAD_ISR_DURATION_US
    Timeout         \* COUNTER_IRQ_TIMEOUT_MS

(* The load alarm fires before the other one, and not before the software  *)
(* has set it and made its semaphore (rt_latency.c:133-144).  A round, of  *)
(* at most Steps steps after its wait, ends before the counter is back     *)
(* where the round began (rt_latency.c:166-169).                           *)
Steps == 8

ASSUME LatencyAssumption ==
    /\ {Ticks, LoadTicks, Spin, Timeout} \subseteq Nat \ {0}
    /\ LoadTicks < Ticks /\ Ticks < Timeout
    /\ \A s \in Settings : s.load => 3 * s.delay < LoadTicks
    /\ \A s \in Settings : Timeout + Spin + Steps * s.delay < Top

VARIABLES
    tc_load,        \* RT_LATENCY_WITH_IRQ_LOAD of the test
    todo,           \* what the benchmark task still does, see Op
    script,         \* what main_task still does
    wait,           \* ticks spent in os_sem_take(&ctx->semaphore)
    sem, irq_load_sem,      \* counts of the semaphores
    exists,         \* the semaphores that are initialised
    time_prog, time_irq,    \* struct rt_latency_ctx
    start,          \* start of load_alarm_handler
    early,          \* history: early[d], d matched before its new compare value
    crashed         \* an assertion failed, or a semaphore given did not exist

latencyVars == <<tc_load, todo, script, wait, sem, irq_load_sem, exists, time_prog, time_irq,
                 start, early, crashed>>

-----------------------------------------------------------------------------
(* rt_latency_test(), as the sequence of its driver calls and of the steps *)
(* between them; a call that takes several steps is several entries.       *)
Op(name, d) == [op |-> name, dev |-> d]

Arm(d) == << Op("claim", d), Op("enable", d), Op("compare", d) >>

StartUp(load) ==
    << Op("start", "main") >> \o
    IF load THEN << Op("start", "load") >> \o Arm("load") \o << Op("seminit", "load") >>
    ELSE << >>

Round == << Op("prog", "main") >> \o Arm("main") \o << Op("take", "main") >>

Measure(load) ==
    << Op("now", "main"), Op("stop", "main") >> \o
    IF load THEN << Op("take", "load") >> ELSE << >>

CancelOps(d) == << Op("disable", d), Op("clear", d) >>

(* Slip: the next round is armed without cancelling the late alarm.        *)
RetryAtOnce == Round

(* The wait timed out: the alarm is cancelled, and the round goes again.   *)
Retry == CancelOps("main") \o Round

Test(load) == StartUp(load) \o Round

(* rt_latency_destroy(), then rt_latency_init() and a new benchmark task.  *)
Destroy(load) ==
    (IF load THEN << Op("stop", "load") >> \o CancelOps("load") \o << Op("semdel", "load") >>
     ELSE << >>)
    \o << Op("stop", "main") >> \o CancelOps("main")
    \o << Op("semdel", "main"), Op("seminit", "main") >>

(* A step of the driver on behalf of a task.                               *)
Driver(o) ==
    /\ CASE o.op = "start"   -> Start(o.dev)
         [] o.op = "stop"    -> Stop(o.dev)
         [] o.op = "claim" /\ o.dev = "main" ->
                Claim("main", "latency", "absolute", time_prog)
         [] o.op = "claim" /\ o.dev = "load" -> Claim("load", "spin", "relative", LoadTicks)
         [] o.op = "enable"  -> EnableIrq(o.dev)
         [] o.op = "compare" -> SetCompare(o.dev)
         [] o.op = "disable" -> DisableIrq(o.dev)
         [] OTHER            -> CancelAlarm(o.dev)
    /\ early' = IF o.op = "claim" THEN [early EXCEPT ![o.dev] = hw[o.dev].flag] ELSE early
    /\ UNCHANGED <<setting, isr, now, wait, sem, irq_load_sem, exists, time_prog,
                   time_irq, start>>

DriverOps == {"start", "stop", "claim", "enable", "compare", "disable", "clear"}
Untouched == <<setting, hw, alarm, next, isr, now>>

(* Slip: a semaphore made again keeps its count.                           *)
SetSemKeeps(o) ==
    /\ exists' = [exists EXCEPT ![o.dev] = o.op = "seminit"]
    /\ UNCHANGED <<Untouched, wait, sem, irq_load_sem, time_prog, time_irq, start, early>>

(* os_sem_init() and os_sem_destroy(), main_task's or at the end of Arm.   *)
SetSem(o) ==
    /\ exists' = [exists EXCEPT ![o.dev] = o.op = "seminit"]
    /\ IF o.dev = "main" THEN sem' = 0 /\ UNCHANGED irq_load_sem
       ELSE irq_load_sem' = 0 /\ UNCHANGED sem
    /\ UNCHANGED <<Untouched, wait, time_prog, time_irq, start, early>>

-----------------------------------------------------------------------------
(* Tasks.  benchmark_task has the higher priority: main_task runs while it *)
(* is blocked or gone.                                                     *)

At(name, d) == todo # << >> /\ Head(todo) = Op(name, d)

Blocked ==
    \/ At("take", "main") /\ sem = 0 /\ wait < Timeout
    \/ At("take", "load") /\ irq_load_sem = 0

CanRun == InTask /\ ~crashed

(* The next entry, or the next test (benchmark_task loops).                *)
Onward == todo' = IF Tail(todo) = << >> THEN Test(tc_load) ELSE Tail(todo)

Drive ==
    /\ CanRun /\ todo # << >> /\ Head(todo).op \in DriverOps
    /\ IF Head(todo).op = "claim" /\ ~CanClaim(Head(todo).dev)
       THEN crashed' = TRUE /\ UNCHANGED <<Untouched, todo, wait, sem, irq_load_sem, exists,
                                          time_prog, time_irq, start, early>>
       ELSE Driver(Head(todo)) /\ Onward /\ UNCHANGED crashed
    /\ Ran /\ UNCHANGED <<tc_load, script>>

InitLoadSem ==
    /\ CanRun /\ At("seminit", "load")
    /\ SetSem(Head(todo)) /\ Onward
    /\ Ran /\ UNCHANGED <<tc_load, script, crashed>>

(* Slip: the sum is not taken in the counter's width.                      *)
ProgramWide ==
    /\ CanRun /\ At("prog", "main")
    /\ time_prog' = hw["main"].cnt + Ticks
    /\ Onward
    /\ Ran /\ UNCHANGED <<Untouched, tc_load, script, wait, sem, irq_load_sem, exists, time_irq,
                          start, early, crashed>>

Program ==
    /\ CanRun /\ At("prog", "main")
    /\ time_prog' = Wrap(hw["main"].cnt + Ticks)
    /\ Onward
    /\ Ran /\ UNCHANGED <<Untouched, tc_load, script, wait, sem, irq_load_sem, exists, time_irq,
                          start, early, crashed>>

Take ==
    /\ CanRun /\ At("take", "main") /\ sem > 0
    /\ sem' = sem - 1
    /\ todo' = Measure(tc_load)
    /\ wait' = 0
    /\ Ran /\ UNCHANGED <<Untouched, tc_load, script, irq_load_sem, exists, time_prog, time_irq,
                          start, early, crashed>>

TimeOut ==
    /\ CanRun /\ At("take", "main") /\ sem = 0 /\ wait = Timeout
    /\ todo' = Retry
    /\ wait' = 0
    /\ Ran /\ UNCHANGED <<Untouched, tc_load, script, sem, irq_load_sem, exists, time_prog,
                          time_irq, start, early, crashed>>

(* The counter is read for irq_to_sched; both delays are computed then,    *)
(* and the times of this round are not read again.                         *)
ReadNow ==
    /\ CanRun /\ At("now", "main")
    /\ time_prog' = 0 /\ time_irq' = 0
    /\ Onward
    /\ Ran /\ UNCHANGED <<Untouched, tc_load, script, wait, sem, irq_load_sem, exists, start,
                          early, crashed>>

TakeLoad ==
    /\ CanRun /\ At("take", "load") /\ irq_load_sem > 0
    /\ irq_load_sem' = irq_load_sem - 1
    /\ Onward
    /\ Ran /\ UNCHANGED <<Untouched, tc_load, script, wait, sem, exists, time_prog, time_irq, start, early, crashed>>

Benchmark == Drive \/ InitLoadSem \/ Program \/ Take \/ TimeOut \/ ReadNow \/ TakeLoad

(* destroy_test_case() deletes the task where it is blocked.               *)
Delete ==
    /\ CanRun /\ Blocked /\ script = << >>
    /\ todo' = << >>
    /\ script' = Destroy(tc_load)
    /\ wait' = 0
    /\ Ran /\ UNCHANGED <<Untouched, tc_load, sem, irq_load_sem, exists, time_prog, time_irq,
                          start, early, crashed>>

DestroyStep ==
    /\ CanRun /\ script # << >>
    /\ IF Head(script).op \in DriverOps THEN Driver(Head(script)) ELSE SetSem(Head(script))
    /\ script' = Tail(script)
    /\ IF Tail(script) = << >>
       THEN \E l \in {FALSE, setting.load} : tc_load' = l /\ todo' = Test(l)
       ELSE UNCHANGED <<tc_load, todo>>
    /\ Ran /\ UNCHANGED crashed

-----------------------------------------------------------------------------
(* Interrupts.                                                             *)

LatencyEnter(d) ==
    /\ EnterHandler(d)
    /\ UNCHANGED <<tc_load, todo, script, wait, sem, irq_load_sem, exists, time_prog, time_irq,
                   start, early, crashed>>

latency_alarm_handler ==
    /\ InCallback("main", "latency")
    /\ time_irq' = now["main"]
    /\ sem' = sem + 1
    /\ crashed' = (crashed \/ ~exists["main"])
    /\ Return("main")
    /\ UNCHANGED <<setting, hw, alarm, next, now, tc_load, todo, script, wait, irq_load_sem, exists,
                   time_prog, start, early>>

(* load_alarm_handler reads its counter until Spin has passed, ...         *)
StartSpin ==
    /\ InCallback("load", "spin")
    /\ start' = hw["load"].cnt
    /\ isr' = [isr EXCEPT !["load"] = "spin"]
    /\ Ran /\ UNCHANGED <<setting, hw, alarm, next, now, tc_load, todo, script, wait, sem, irq_load_sem,
                          exists, time_prog, time_irq, early, crashed>>

(* calc_diff_ns(): one short when the counter has wrapped.                 *)
Diff(cnt_1, cnt_2) == IF cnt_2 < cnt_1 THEN cnt_2 + Top - cnt_1 ELSE cnt_2 - cnt_1

Spinning == isr["load"] = "spin" /\ Diff(start, hw["load"].cnt) < Spin

(* Slip: it only stops the counter.                                        *)
EndSpinSilent ==
    /\ isr["load"] = "spin" /\ ~Spinning
    /\ Stop("load")
    /\ start' = 0
    /\ Return("load")
    /\ UNCHANGED <<setting, now, tc_load, todo, script, wait, sem, irq_load_sem, exists,
                   time_prog, time_irq, early, crashed>>

(* ... then stops the counter and gives the semaphore.                     *)
EndSpin ==
    /\ isr["load"] = "spin" /\ ~Spinning
    /\ Stop("load")
    /\ start' = 0
    /\ irq_load_sem' = irq_load_sem + 1
    /\ crashed' = (crashed \/ ~exists["load"])
    /\ Return("load")
    /\ UNCHANGED <<setting, now, tc_load, todo, script, wait, sem, exists, time_prog,
                   time_irq, early>>

LatencyExit(d) == ExitHandler(d) /\ UNCHANGED latencyVars

LatencyInterrupt ==
    \/ \E d \in Dev : LatencyEnter(d) \/ LatencyExit(d)
    \/ latency_alarm_handler \/ StartSpin \/ EndSpin

-----------------------------------------------------------------------------
LatencyBusy ==
    ~crashed /\ ~Spinning /\ (InTask => script # << >> \/ ~Blocked)

(* The alarm of d is claimed and its compare value not yet written.        *)
Arming(d) == At("enable", d) \/ At("compare", d)

LatencyTick ==
    /\ Tick(LatencyBusy)
    /\ wait' = IF At("take", "main") /\ wait < Timeout THEN wait + 1 ELSE wait
    /\ early' = [d \in Dev |-> early[d] \/ (Arming(d) /\ hw'[d].flag)]
    /\ UNCHANGED <<tc_load, todo, script, sem, irq_load_sem, exists, time_prog, time_irq,
                   start, crashed>>

Init ==
    /\ CounterInit
    /\ tc_load = setting.load
    /\ todo = Test(tc_load)
    /\ script = << >>
    /\ wait = 0 /\ sem = 0 /\ irq_load_sem = 0
    /\ exists = [d \in Dev |-> d = "main"]
    /\ time_prog = 0 /\ time_irq = 0 /\ start = 0
    /\ early = [d \in Dev |-> FALSE] /\ crashed = FALSE

vars == <<counterVars, latencyVars>>

Next == Benchmark \/ Delete \/ DestroyStep \/ LatencyInterrupt \/ LatencyTick

(* Tasks and interrupts run, and time passes.                              *)
Fairness ==
    /\ WF_vars(Benchmark) /\ WF_vars(DestroyStep)
    /\ WF_vars(LatencyInterrupt) /\ WF_vars(LatencyTick)

Spec == Init /\ [][Next]_vars /\ Fairness

-----------------------------------------------------------------------------
(* Properties.                                                             *)

TypeOK ==
    /\ CounterTypeOK
    /\ wait \in 0..Timeout /\ {sem, irq_load_sem} \subseteq Nat
    /\ {time_prog, time_irq, start} \subseteq 0..Top
    /\ {exists, early} \subseteq [Dev -> BOOLEAN] /\ tc_load \in BOOLEAN /\ crashed \in BOOLEAN

(* No assertion of rt_latency_test() fails and no handler gives a          *)
(* semaphore that does not exist: when a round begins the alarm of the one *)
(* before is gone, whether it fired, was cancelled after a timeout         *)
(* (rt_latency.c:158-171) or its task was deleted (:241-269).  The load    *)
(* alarm may give too soon when a match of its old compare value found the *)
(* interrupt enabled, before :143 made the semaphore.                      *)
AlarmsAreFree == crashed => early["load"]

(* The longest an interrupt waits for the core, and behind the other one.  *)
MaxIrqDelay == setting.delay + IF setting.load THEN Spin + 4 * setting.delay ELSE 0

(* A measurement is one of the round it is counted for: time_irq lies at   *)
(* most the latency of the interrupt behind time_prog.  It does not when   *)
(* the counter passed the compare value of an earlier round before the new *)
(* one was written, the interrupt already enabled (counter_gpt.c:211-212). *)
MeasuredIsProgrammed ==
    At("now", "main") /\ ~early["main"] => Diff(time_prog, time_irq) <= MaxIrqDelay

(* A round armed in time ends, the wait for the load included, unless its  *)
(* task is deleted.                                                        *)
MeasurementEnds ==
    (At("take", "main") /\ hw["main"].on /\ hw["main"].en /\ ~early["load"]
        /\ Ahead("main") \in 1..Ticks)
        ~> At("start", "main") \/ todo = << >>
=============================================================================
