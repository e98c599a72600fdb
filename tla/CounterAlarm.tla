---------------------------- MODULE CounterAlarm ----------------------------
(* The counters of os/freertos/os/counter_gpt.c and counter_tpm.c: a       *)
(* hardware counter that wraps, one compare register with an interrupt,    *)
(* and the alarm the driver keeps for it.  The two drivers have the same   *)
(* control flow; a GPT that is started counts from 0 again (its default    *)
(* configuration sets enableMode), a TPM goes on.                          *)
(*                                                                         *)
(* Time is discrete: Tick is one period of the counters' clock.  The core  *)
(* runs one thing at a time, interrupts before tasks, and while it has     *)
(* something to run at most setting.delay ticks pass from step to step.    *)
(* A local variable of the code is 0 when its function has returned.       *)
EXTENDS Integers

CONSTANTS
    Top,            \* the greatest value of a counter
    Settings        \* the systems checked, see Setting

Dev == {"main", "load"}
Callbacks == {"none", "latency", "spin", "wakeup"}

(* The kind of counter, whether the second counter is used (the interrupt  *)
(* load of the latency test), and how slow the software may be.            *)
Setting == [gpt : BOOLEAN, load : BOOLEAN, delay : Nat]

ASSUME CounterAssumption == Top \in Nat \ {0} /\ Settings \subseteq Setting

VARIABLES
    setting,
    hw,             \* hw[d]: count, running, compare value, interrupt enable, flag
    alarm,          \* alarm[d]: dev->alarms[0]
    next,           \* next of a set_channel_alarm in progress
    isr, now,       \* isr[d], now[d]: point reached by the handler, its now
    lag             \* ticks since the last step of the software

counterVars == <<setting, hw, alarm, next, isr, now, lag>>

Wrap(n)   == n % (Top + 1)
Ahead(d)  == Wrap(hw[d].cmp - hw[d].cnt)
Ran       == lag' = 0

-----------------------------------------------------------------------------
(* Hardware.                                                               *)

(* A compare value equal to the count may or may not match at once.        *)
Compared(h, v) ==
    {[h EXCEPT !.cmp = v, !.flag = f] : f \in {h.flag, h.flag \/ v = h.cnt}}

Counted(h) ==
    IF ~h.on THEN h
    ELSE [h EXCEPT !.cnt = Wrap(@ + 1), !.flag = @ \/ Wrap(h.cnt + 1) = h.cmp]

Tick(busy) ==
    /\ busy => lag < setting.delay
    /\ lag' = IF busy THEN lag + 1 ELSE 0
    /\ hw' = [d \in Dev |-> Counted(hw[d])]
    /\ UNCHANGED <<setting, alarm, next, isr, now>>

Pending(d) == hw[d].en /\ hw[d].flag
InTask     == \A d \in Dev : isr[d] = "idle" /\ ~Pending(d)

-----------------------------------------------------------------------------
(* The driver's operations, each a step of a task.                         *)

Start(d) == hw' = [hw EXCEPT ![d].on = TRUE] /\ UNCHANGED <<alarm, next>>

(* Nothing reads a counter that is stopped, so a GPT is back at 0 at once. *)
Stop(d) == /\ hw' = [hw EXCEPT ![d].on = FALSE,
                               ![d].cnt = IF setting.gpt THEN 0 ELSE @]
           /\ UNCHANGED <<alarm, next>>

(* set_channel_alarm: it fails while the channel has a callback, ...       *)
CanClaim(d) == alarm[d].cb = "none"

(* ... else it keeps the callback, the flags and, for a loop, the times ...*)
Target(d, flags, ticks) == IF flags = "absolute" THEN ticks ELSE Wrap(hw[d].cnt + ticks)

(* Slip: the period of a loop alarm is not kept.                           *)
ClaimNoPeriod(d, f, flags, ticks) ==
    /\ alarm' = [alarm EXCEPT ![d] = [@ EXCEPT !.cb = f, !.loop = flags = "loop",
                                              !.last = Target(d, flags, ticks)]]
    /\ next' = Target(d, flags, ticks)
    /\ UNCHANGED hw

Claim(d, f, flags, ticks) ==
    /\ alarm' = [alarm EXCEPT ![d] =
            IF flags = "loop"
            THEN [cb |-> f, loop |-> TRUE, last |-> Target(d, flags, ticks), ticks |-> ticks]
            ELSE [@ EXCEPT !.cb = f, !.loop = FALSE]]
    /\ next' = Target(d, flags, ticks)
    /\ UNCHANGED hw

(* ... enables the interrupt, and writes the compare register.             *)
EnableIrq(d)  == hw' = [hw EXCEPT ![d].en = TRUE] /\ UNCHANGED <<alarm, next>>
SetCompare(d) == /\ \E h \in Compared(hw[d], next) : hw' = [hw EXCEPT ![d] = h]
                 /\ next' = 0
                 /\ UNCHANGED alarm

(* cancel_channel_alarm: the interrupt first, then the flag and the alarm. *)
DisableIrq(d) == hw' = [hw EXCEPT ![d].en = FALSE] /\ UNCHANGED <<alarm, next>>

CancelAlarm(d) == /\ hw' = [hw EXCEPT ![d].flag = FALSE]
                  /\ alarm' = [alarm EXCEPT ![d].cb = "none"]
                  /\ UNCHANGED next

-----------------------------------------------------------------------------
(* gpt_irq_handler and tpm_irq_handler.                                    *)

(* Slip: the next period is counted from the time of the interrupt.        *)
NextCompareDrift(d) == Wrap(hw[d].cnt + alarm[d].ticks)

(* Slip: the sum is not taken in the counter's width.                      *)
NextCompareWide(d) == alarm[d].last + alarm[d].ticks

NextCompare(d) == Wrap(alarm[d].last + alarm[d].ticks)

Acknowledge(d) ==
    IF alarm[d].loop
    THEN /\ \E h \in Compared([hw[d] EXCEPT !.flag = FALSE], NextCompare(d)) :
                hw' = [hw EXCEPT ![d] = h]
         /\ alarm' = [alarm EXCEPT ![d].last = NextCompare(d)]
    ELSE /\ hw' = [hw EXCEPT ![d] = [@ EXCEPT !.en = FALSE, !.flag = FALSE]]
         /\ UNCHANGED alarm

EnterHandler(d) ==
    /\ Pending(d) /\ \A e \in Dev : isr[e] = "idle"
    /\ now' = [now EXCEPT ![d] = hw[d].cnt]
    /\ Acknowledge(d)
    /\ isr' = [isr EXCEPT ![d] = IF alarm[d].cb = "none" THEN "reset" ELSE "callback"]
    /\ Ran /\ UNCHANGED <<setting, next>>

(* What the callback of d starts with; the applications add its effect.    *)
InCallback(d, f) == isr[d] = "callback" /\ alarm[d].cb = f
Return(d)        == isr' = [isr EXCEPT ![d] = "reset"] /\ Ran

ResetAlarm(d) ==
    alarm' = IF alarm[d].loop THEN alarm ELSE [alarm EXCEPT ![d].cb = "none"]

ExitHandler(d) ==
    /\ isr[d] = "reset"
    /\ ResetAlarm(d)
    /\ isr' = [isr EXCEPT ![d] = "idle"]
    /\ now' = [now EXCEPT ![d] = 0]
    /\ Ran /\ UNCHANGED <<setting, hw, next>>

CounterInit ==
    /\ setting \in Settings
    /\ hw = [d \in Dev |-> [cnt |-> 0, on |-> FALSE, cmp |-> Top, en |-> FALSE, flag |-> FALSE]]
    /\ alarm = [d \in Dev |-> [cb |-> "none", loop |-> FALSE, last |-> 0, ticks |-> 0]]
    /\ next = 0
    /\ isr = [d \in Dev |-> "idle"]
    /\ now = [d \in Dev |-> 0]
    /\ lag = 0

CounterTypeOK ==
    /\ setting \in Settings
    /\ hw \in [Dev -> [cnt : 0..Top, on : BOOLEAN, cmp : 0..Top, en : BOOLEAN, flag : BOOLEAN]]
    /\ alarm \in [Dev -> [cb : Callbacks, loop : BOOLEAN, last : 0..Top, ticks : 0..Top]]
    /\ next \in 0..Top /\ now \in [Dev -> 0..Top]
    /\ isr \in [Dev -> {"idle", "callback", "spin", "reset"}]
    /\ lag \in 0..setting.delay
=============================================================================
