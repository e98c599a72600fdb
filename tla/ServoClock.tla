----------------------------- MODULE ServoClock -----------------------------
(* The clock of apps/soem_servo: a loop alarm counts periods and wakes the *)
(* control task, and osal_gettime() reads the time without a lock, again   *)
(* when the alarm came in between.  The 64-bit sum of ticks is two words:  *)
(* the build may read them one at a time, in either order.                 *)
EXTENDS CounterAlarm

CONSTANTS
    Period,         \* ticks_per_period
    Words           \* values of the upper word of system_ticks

ClockAssumption ==
    /\ Period \in 1..Top /\ Words \in Nat \ {0, 1}
    /\ \A s \in Settings : 16 * s.delay < Period /\ Period + 4 * s.delay <= Top

VARIABLES
    pc,             \* point reached by osal_timer_init() or osal_gettime()
    again,          \* the second reading of osal_gettime()
    system_ticks, ticks_last,
    sys_ticks,      \* [lo, hi], and the words read so far
    last,           \* ticks_last_temp
    ticks,
    real,           \* history: ticks since the counter was started
    took            \* history: real when ticks was read

clockVars == <<pc, again, system_ticks, ticks_last, sys_ticks, last, ticks, real, took>>
locals == <<again, sys_ticks, last, ticks, took>>
vars == <<counterVars, clockVars>>

Sum(n)  == n % (Words * (Top + 1))
Lo(n)   == n % (Top + 1)
Hi(n)   == n \div (Top + 1)
NoWords == [lo |-> 0, hi |-> 0, read |-> {}]

-----------------------------------------------------------------------------
(* osal_timer_init(): each call of the driver is a step or several.        *)

Boot == {"start", "now", "claim", "enable", "compare"}

Driver(from, A, to) ==
    /\ InTask /\ pc = from /\ A /\ pc' = to
    /\ Ran /\ UNCHANGED <<setting, isr, now, system_ticks, ticks_last, locals, real>>

BootNow ==
    /\ InTask /\ pc = "now"
    /\ system_ticks' = hw["main"].cnt
    /\ pc' = "claim"
    /\ Ran /\ UNCHANGED <<setting, hw, alarm, next, isr, now, ticks_last, locals, real>>

osal_timer_init ==
    \/ Driver("start", Start("main"), "now")
    \/ BootNow
    \/ Driver("claim", Claim("main", "wakeup", "loop", Period), "enable")
    \/ Driver("enable", EnableIrq("main"), "compare")
    \/ Driver("compare", SetCompare("main"), "idle")

-----------------------------------------------------------------------------
(* osal_gettime().                                                         *)

InClock == /\ InTask /\ Ran
           /\ UNCHANGED <<setting, hw, alarm, next, isr, now, system_ticks, ticks_last, real>>

Call ==
    /\ InClock /\ pc = "idle"
    /\ pc' = "words"
    /\ UNCHANGED locals

ReadWord(w) ==
    /\ InClock /\ pc = "words" /\ w \notin sys_ticks.read
    /\ sys_ticks' = [sys_ticks EXCEPT
                        ![w] = IF w = "lo" THEN Lo(system_ticks) ELSE Hi(system_ticks),
                        !.read = @ \cup {w}]
    /\ pc' = IF sys_ticks'.read = {"lo", "hi"} THEN "last" ELSE "words"
    /\ UNCHANGED <<again, last, ticks, took>>

ReadLast ==
    /\ InClock /\ pc = "last"
    /\ last' = ticks_last
    /\ pc' = "count"
    /\ UNCHANGED <<again, sys_ticks, ticks, took>>

ReadCount ==
    /\ InClock /\ pc = "count"
    /\ ticks' = hw["main"].cnt
    /\ took' = real
    /\ pc' = IF again THEN "sum" ELSE "check"
    /\ UNCHANGED <<again, sys_ticks, last>>

(* The first reading is good when neither variable has changed; the words  *)
(* are compared one by one as well, sys_ticks.read holding those left.     *)
Changed(w) == sys_ticks[w] # IF w = "lo" THEN Lo(system_ticks) ELSE Hi(system_ticks)

ReadAgain == /\ pc' = "words"
             /\ again' = TRUE
             /\ sys_ticks' = NoWords

(* Slip: the words are not compared.                                       *)
CheckWordNever(w) ==
    /\ InClock /\ pc = "check" /\ w \in sys_ticks.read
    /\ sys_ticks' = [sys_ticks EXCEPT !.read = @ \ {w}]
    /\ UNCHANGED <<pc, again, last, ticks, took>>

CheckWord(w) ==
    /\ InClock /\ pc = "check" /\ w \in sys_ticks.read
    /\ IF Changed(w) THEN ReadAgain
       ELSE sys_ticks' = [sys_ticks EXCEPT !.read = @ \ {w}] /\ UNCHANGED <<pc, again>>
    /\ UNCHANGED <<last, ticks, took>>

CheckLast ==
    /\ InClock /\ pc = "check" /\ sys_ticks.read = {}
    /\ IF last # ticks_last THEN ReadAgain ELSE pc' = "sum" /\ UNCHANGED <<again, sys_ticks>>
    /\ UNCHANGED <<last, ticks, took>>

(* The time the function computes: one short when the counter has wrapped, *)
(* and a whole turn too far when it has not moved (main.c:126).            *)
Time == Sum(sys_ticks.hi * (Top + 1) + sys_ticks.lo
              + IF ticks > last THEN ticks - last ELSE Top - last + ticks)

Return_gettime ==
    /\ InClock /\ pc = "sum"
    /\ pc' = "idle"
    /\ again' = FALSE /\ sys_ticks' = NoWords /\ last' = 0 /\ ticks' = 0 /\ took' = 0

osal_gettime ==
    \/ Call \/ ReadLast \/ ReadCount \/ CheckLast \/ Return_gettime
    \/ \E w \in {"lo", "hi"} : ReadWord(w) \/ CheckWord(w)

-----------------------------------------------------------------------------
(* The interrupt: the notification that wakes the task is left out, it     *)
(* reads the time whenever it likes.                                       *)

rt_task_wakeup_alarm_handler ==
    /\ InCallback("main", "wakeup")
    /\ ticks_last' = hw["main"].cnt
    /\ system_ticks' = Sum(system_ticks + Period)
    /\ Return("main")
    /\ UNCHANGED <<setting, hw, alarm, next, now, pc, locals, real>>

Interrupt ==
    \/ (EnterHandler("main") \/ ExitHandler("main")) /\ UNCHANGED clockVars
    \/ rt_task_wakeup_alarm_handler

ClockTick ==
    /\ Tick(~InTask \/ pc # "idle")
    /\ real' = IF hw["main"].on THEN Sum(real + 1) ELSE real
    /\ UNCHANGED <<pc, system_ticks, ticks_last, locals>>

Init ==
    /\ CounterInit
    /\ pc = "start"
    /\ again = FALSE /\ sys_ticks = NoWords
    /\ system_ticks = 0 /\ ticks_last = 0
    /\ last = 0 /\ ticks = 0 /\ real = 0 /\ took = 0

Next == osal_timer_init \/ osal_gettime \/ Interrupt \/ ClockTick

Spec == Init /\ [][Next]_vars

-----------------------------------------------------------------------------
(* Properties.                                                             *)

TypeOK ==
    /\ CounterTypeOK
    /\ pc \in Boot \cup {"idle", "words", "last", "count", "check", "sum"}
    /\ {system_ticks, real, took} \subseteq 0..(Words * (Top + 1) - 1)
    /\ {ticks_last, last, ticks} \subseteq 0..Top
    /\ sys_ticks \in [lo : 0..Top, hi : 0..(Words - 1), read : SUBSET {"lo", "hi"}]

(* How far a is behind b, and how late the software may be: from reading   *)
(* the count to setting the alarm (main.c:101-105), and from a match to    *)
(* the handler's reading of the count (:80).                               *)
Behind(a, b) == LET d == Sum(b - a) IN IF 2 * d < Words * (Top + 1) THEN d ELSE d - Words * (Top + 1)
BootLag   == setting.delay
HandleLag == 2 * setting.delay

(* The loop never loses its alarm: while no interrupt waits, the compare   *)
(* value is less than a period ahead, across wraps of the counter          *)
(* (counter_gpt.c:75-79).                                                  *)
LoopAhead ==
    pc \notin Boot /\ isr["main"] = "idle" /\ ~hw["main"].flag => Ahead("main") \in 1..Period

(* system_ticks is the sum of ticks since the start (main.c:51): however   *)
(* late each handler runs, it is at most a period and the delays of one    *)
(* alarm behind, and never ahead.                                          *)
NoDrift ==
    pc \notin Boot => Behind(system_ticks, real) \in 0..(Period + BootLag + HandleLag)

(* osal_gettime() returns the time at which it read the counter, less the  *)
(* lags and the tick that a wrap costs, plus the count at the start until  *)
(* the first alarm; except when the count is that of the last handler.     *)
TimeRead ==
    pc = "sum" /\ ticks # last =>
        Behind(Time, took) \in (-setting.delay)..(BootLag + HandleLag + 1)
=============================================================================
