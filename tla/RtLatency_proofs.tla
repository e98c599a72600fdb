------------------------- MODULE RtLatency_proofs ---------------------------
(***************************************************************************)
(* Proofs about the latency test, for every width of the counters, delay of*)
(* an interrupt, period, load and timeout the assumptions allow: an alarm  *)
(* is free whenever the test claims it, and what a round measures, unless  *)
(* its alarm was early, is the latency of the round's own interrupt.       *)
(*                                                                         *)
(* The invariant says where benchmark_task and main_task are in their code *)
(* (Places), and for each place how far either alarm is and how much time  *)
(* has passed since it was set, counted in ticks of its counter.           *)
(***************************************************************************)
EXTENDS RtLatency, SequenceTheorems, TLAPS
-----------------------------------------------------------------------------
(* Where the test is.                                                      *)

(* The code from each place on: the next step, then the code from the next *)
(* place.                                                                  *)
TakeOn       == << Op("take", "main") >>
CompareOn    == << Op("compare", "main") >> \o TakeOn
EnableOn     == << Op("enable", "main") >> \o CompareOn
ClaimOn      == << Op("claim", "main") >> \o EnableOn
ProgOn       == << Op("prog", "main") >> \o ClaimOn
SemInitOn    == << Op("seminit", "load") >> \o ProgOn
LoadCompareOn == << Op("compare", "load") >> \o SemInitOn
LoadEnableOn == << Op("enable", "load") >> \o LoadCompareOn
LoadClaimOn  == << Op("claim", "load") >> \o LoadEnableOn
LoadStartOn  == << Op("start", "load") >> \o LoadClaimOn
StartOn(l)   == << Op("start", "main") >> \o IF l THEN LoadStartOn ELSE ProgOn
ClearOn      == << Op("clear", "main") >> \o ProgOn
DisableOn    == << Op("disable", "main") >> \o ClearOn
LoadTakeOn   == << Op("take", "load") >>
StopOn(l)    == << Op("stop", "main") >> \o IF l THEN LoadTakeOn ELSE << >>
NowOn(l)     == << Op("now", "main") >> \o StopOn(l)

DSemInitOn   == << Op("seminit", "main") >>
DSemDelOn    == << Op("semdel", "main") >> \o DSemInitOn
DClearOn     == << Op("clear", "main") >> \o DSemDelOn
DDisableOn   == << Op("disable", "main") >> \o DClearOn
DStopOn      == << Op("stop", "main") >> \o DDisableOn
DLoadSemDelOn == << Op("semdel", "load") >> \o DStopOn
DLoadClearOn == << Op("clear", "load") >> \o DLoadSemDelOn
DLoadDisableOn == << Op("disable", "load") >> \o DLoadClearOn
DLoadStopOn  == << Op("stop", "load") >> \o DLoadDisableOn

(* The places before the load alarm is complete, those of a round, ...     *)
LoadSetup == {"load start", "load claim", "load enable", "load compare", "seminit"}
Rounds    == {"prog", "claim", "enable", "compare", "take", "disable", "clear"}
Measures  == {"now", "stop", "load take"}
(* ... and those of main_task.                                             *)
DLoad == {"d load stop", "d load disable", "d load clear", "d load semdel"}
DMain == {"d stop", "d disable", "d clear", "d semdel", "d seminit"}

(* The task is at p: what it still does.                                   *)
TaskAt(p) ==
    /\ script = << >>
    /\ \/ p = "start" /\ todo = StartOn(tc_load)
       \/ p = "load start" /\ todo = LoadStartOn /\ tc_load
       \/ p = "load claim" /\ todo = LoadClaimOn /\ tc_load
       \/ p = "load enable" /\ todo = LoadEnableOn /\ tc_load
       \/ p = "load compare" /\ todo = LoadCompareOn /\ tc_load
       \/ p = "seminit" /\ todo = SemInitOn /\ tc_load
       \/ p = "prog" /\ todo = ProgOn
       \/ p = "claim" /\ todo = ClaimOn
       \/ p = "enable" /\ todo = EnableOn
       \/ p = "compare" /\ todo = CompareOn
       \/ p = "take" /\ todo = TakeOn
       \/ p = "disable" /\ todo = DisableOn
       \/ p = "clear" /\ todo = ClearOn
       \/ p = "now" /\ todo = NowOn(tc_load)
       \/ p = "stop" /\ todo = StopOn(tc_load)
       \/ p = "load take" /\ todo = LoadTakeOn /\ tc_load

ScriptAt(p) ==
    /\ todo = << >>
    /\ \/ p = "d load stop" /\ script = DLoadStopOn /\ tc_load
       \/ p = "d load disable" /\ script = DLoadDisableOn /\ tc_load
       \/ p = "d load clear" /\ script = DLoadClearOn /\ tc_load
       \/ p = "d load semdel" /\ script = DLoadSemDelOn /\ tc_load
       \/ p = "d stop" /\ script = DStopOn
       \/ p = "d disable" /\ script = DDisableOn
       \/ p = "d clear" /\ script = DClearOn
       \/ p = "d semdel" /\ script = DSemDelOn
       \/ p = "d seminit" /\ script = DSemInitOn

-----------------------------------------------------------------------------
(* How far an alarm is: not claimed, to be enabled or disabled already,    *)
(* armed, in its handler before the semaphore is given, and after.         *)
Callback(d) == IF d = "main" THEN "latency" ELSE "spin"
Idle(d)     == isr[d] = "idle" /\ ~hw[d].en
Free(d)     == Idle(d) /\ alarm[d].cb = "none"
Claimed(d)  == Idle(d) /\ alarm[d].cb = Callback(d)
Armed(d)    == isr[d] = "idle" /\ hw[d].en /\ alarm[d].cb = Callback(d)
Firing(d)   == isr[d] \in {"callback", "spin"} /\ ~hw[d].en /\ alarm[d].cb = Callback(d)
Given(d)    == isr[d] = "reset" /\ ~hw[d].en /\ alarm[d].cb = Callback(d)
Waited(d)   == Armed(d) \/ Firing(d)
Over(d)     == Given(d) \/ Free(d)

(* The latency alarm is over when its semaphore is given, and no semaphore *)
(* is left over for the next round.                                        *)
MainAlarm(p) ==
    /\ p \in {"start", "prog", "claim", "d seminit"} \cup LoadSetup \cup Measures
       => Free("main") /\ sem = 0
    /\ p \in {"enable", "clear"} => Claimed("main") /\ sem = 0
    /\ p \in {"compare", "take"} => \/ Waited("main") /\ sem = 0
                                    \/ Over("main") /\ sem = 1
    /\ p = "disable" => Armed("main") /\ ~hw["main"].flag /\ sem = 0
    /\ p \in DLoad \cup {"d stop", "d disable"} => Waited("main") \/ Over("main")
    /\ p = "d clear" => Idle("main")
    /\ p = "d semdel" => Free("main")
    /\ p # "d seminit" => exists["main"]

(* So is the load alarm, and its semaphore exists when it is to be given,  *)
(* unless its alarm was early.                                             *)
LoadAlarm(p) ==
    /\ ~tc_load \/ p \in {"start", "load start", "load claim", "d load semdel"} \cup DMain
       => Free("load")
    /\ p = "load enable" => Claimed("load")
    /\ p \in {"load compare", "seminit", "d load stop", "d load disable"}
       => Waited("load") \/ Over("load")
    /\ p = "d load clear" => Idle("load")
    /\ tc_load /\ p \in Rounds \cup Measures => \/ Waited("load") /\ irq_load_sem = 0
                                                \/ Given("load") /\ irq_load_sem = 1
                                                \/ Free("load") /\ irq_load_sem \in {0, 1}
    /\ tc_load /\ p \in Rounds \cup Measures \cup DLoad => exists["load"]
    /\ Waited("load") => exists["load"] \/ p \in {"load compare", "seminit"}
    /\ Firing("load") => exists["load"] \/ early["load"]

-----------------------------------------------------------------------------
(* When it is.                                                             *)
Delay   == setting.delay
Due(v)  == Wrap(v - hw["load"].cnt)
Spun    == Wrap(hw["load"].cnt - start)

(* The load alarm is due in at most LoadTicks, and not before its          *)
(* semaphore is made.                                                      *)
LoadDue(p) ==
    /\ p \in (LoadSetup \ {"load start"}) \cup Rounds \cup Measures /\ tc_load /\ ~Over("load")
       => hw["load"].on
    /\ p = "load claim" => hw["load"].on
    /\ p \in {"load enable", "load compare"} /\ hw["load"].flag => early["load"]
    /\ p = "load enable" => Due(next) \in (LoadTicks - lag)..LoadTicks
    /\ p = "load compare" /\ Armed("load") /\ ~hw["load"].flag =>
            Due(next) \in (LoadTicks - Delay - lag)..LoadTicks
    /\ p = "seminit" /\ Waited("load") =>
            Armed("load") /\ ~hw["load"].flag
            /\ Due(hw["load"].cmp) \in (LoadTicks - 2 * Delay - lag)..LoadTicks
    /\ p \in Rounds /\ Armed("load") /\ ~hw["load"].flag => Due(hw["load"].cmp) \in 1..LoadTicks
    /\ p \notin DLoad /\ isr["load"] = "spin" =>
            /\ Spun <= Spin + 1 + lag
            /\ Spinning => lag = 0

(* The time the core has spent on the load alarm's handler, at most.       *)
LoadSpent ==
    IF ~tc_load \/ Armed("load") THEN lag
    ELSE IF isr["load"] = "callback" THEN Delay + lag
    ELSE IF isr["load"] = "spin" THEN 2 * Delay + Spun
    ELSE IF isr["load"] = "reset" THEN 3 * Delay + Spin + 1 + lag
    ELSE 4 * Delay + Spin + 1 + lag

(* The time since the round was programmed, at most.                       *)
RoundSpent(p) ==
    LoadSpent + IF p = "claim" THEN 0
                ELSE IF p = "enable" THEN Delay
                ELSE IF p = "compare" THEN 2 * Delay
                ELSE IF p = "take" THEN 3 * Delay + wait
                ELSE 4 * Delay + Timeout

(* The counter e ticks after the round was programmed.                     *)
Since(e) == hw["main"].cnt = Wrap(time_prog - Ticks + e)

(* What is left of MaxIrqDelay, less one while the load alarm, which is    *)
(* the first of the two, still has to fire.                                *)
LateBy ==
    IF Armed("load") THEN IF hw["load"].flag THEN lag - 1 ELSE lag
    ELSE IF isr["load"] = "callback" THEN Delay + lag - 1
    ELSE IF isr["load"] = "spin" THEN 2 * Delay + Spun - 1
    ELSE IF isr["load"] = "reset" THEN 3 * Delay + Spin + lag
    ELSE IF setting.load THEN 4 * Delay + Spin + lag ELSE lag

RoundAt(p, e) ==
    /\ e <= RoundSpent(p) /\ Since(e)
    /\ Armed("load") /\ ~hw["load"].flag /\ p # "disable" => Due(hw["load"].cmp) + e < Ticks
    /\ p = "take" => hw["main"].cmp = time_prog
    /\ p = "take" /\ ~hw["main"].flag => e >= Ticks \/ wait <= e
    /\ p = "take" /\ hw["main"].flag /\ ~early["main"] => e \in Ticks..(Ticks + LateBy)
    /\ p = "disable" => e >= Ticks /\ hw["main"].cmp = time_prog

(* A round that is not over.                                               *)
RoundTime(p) ==
    /\ p \in LoadSetup \cup Rounds => hw["main"].on
    /\ p # "take" => wait = 0
    /\ p = "take" /\ InTask /\ sem = 0 /\ wait < Timeout => lag = 0
    /\ p \in Rounds \ {"prog", "clear"} /\ (p \in {"compare", "take"} => Armed("main"))
       => \E e \in Nat : RoundAt(p, e)
    /\ p \in {"enable", "compare"} => next = time_prog

(* A match before the new compare value is early, and what is measured of  *)
(* another is right.                                                       *)
Measured(p) ==
    /\ p \in {"enable", "compare"} /\ hw["main"].flag => early["main"]
    /\ p = "compare" /\ ~Armed("main") => early["main"]
    /\ p = "take" /\ Firing("main") /\ ~early["main"]
       => Wrap(now["main"] - time_prog) <= MaxIrqDelay
    /\ p = "take" /\ sem = 1 /\ ~early["main"] => Wrap(time_irq - time_prog) <= MaxIrqDelay
    /\ p = "now" /\ ~early["main"] => Wrap(time_irq - time_prog) <= MaxIrqDelay

-----------------------------------------------------------------------------
(* The inductive invariant.                                                *)

(* Where the two tasks can be.                                             *)
Places ==
    {"start"} \cup LoadSetup \cup Rounds \cup Measures \cup DLoad \cup DMain

(* What is the case at p.                                                  *)
State(p) ==
    /\ TaskAt(p) \/ ScriptAt(p)
    /\ MainAlarm(p) /\ LoadAlarm(p)
    /\ LoadDue(p) /\ RoundTime(p) /\ Measured(p)

(* Types, and what no step changes: load needs the setting, one interrupt  *)
(* is served at a time, and no alarm repeats.                              *)
Shape ==
    /\ TypeOK
    /\ tc_load => setting.load
    /\ (isr["main"] = "idle" \/ isr["load"] = "idle") /\ isr["main"] # "spin"
    /\ ~alarm["main"].loop /\ ~alarm["load"].loop

(* An assertion that failed, or a semaphore given before it exists, is     *)
(* only met after an early load alarm; until then the test is at one of    *)
(* its places.                                                             *)
IInv ==
    /\ Shape
    /\ crashed => early["load"] /\ ~At("now", "main")
    /\ ~crashed => \E p \in Places : State(p)

(* The places where the load is one.                                       *)
ForLoad(p) == p \in LoadSetup \cup DLoad \cup {"load take"}

-----------------------------------------------------------------------------
(* The counter's width.                                                    *)

(* A count has one remainder.                                              *)
LEMMA WrapUnique ==
    ASSUME NEW a \in Int, NEW k \in Int, NEW r \in 0..Top, a = k * (Top + 1) + r
    PROVE  Wrap(a) = r
BY CounterAssumption DEF Wrap

(* A count is a number of turns and its remainder.                         *)
LEMMA WrapParts ==
    ASSUME NEW a \in Int
    PROVE  Wrap(a) \in 0..Top /\ \E k \in Int : a = k * (Top + 1) + Wrap(a)
<1>1. Wrap(a) \in 0..Top
  BY CounterAssumption DEF Wrap
<1>2. a = (a \div (Top + 1)) * (Top + 1) + Wrap(a) /\ a \div (Top + 1) \in Int
  BY CounterAssumption DEF Wrap
<1> QED BY <1>1, <1>2

LEMMA WrapIn == ASSUME NEW a \in Int PROVE Wrap(a) \in 0..Top
BY WrapParts

LEMMA WrapSmall == ASSUME NEW a \in 0..Top PROVE Wrap(a) = a
<1>1. a = 0 * (Top + 1) + a
  BY CounterAssumption
<1> QED BY <1>1, WrapUnique

(* A turn more or less.                                                    *)
LEMMA WrapTurn ==
    ASSUME NEW a \in Int, NEW k \in Int
    PROVE  Wrap(a + k * (Top + 1)) = Wrap(a)
<1>1. PICK q \in Int : a = q * (Top + 1) + Wrap(a)
  BY WrapParts
<1> DEFINE r == Wrap(a)
<1>2. r \in 0..Top /\ Top \in Nat
  BY WrapIn, CounterAssumption
<1> HIDE DEF r
<1>3. a + k * (Top + 1) = (q + k) * (Top + 1) + r
  BY <1>1, <1>2 DEF r
<1>4. a + k * (Top + 1) \in Int /\ q + k \in Int
  BY <1>2
<1>5. Wrap(a + k * (Top + 1)) = r
  BY <1>2, <1>3, <1>4, WrapUnique
<1> QED BY <1>5 DEF r

(* Sums and differences of counts.                                         *)
LEMMA WrapSum ==
    ASSUME NEW a \in Int, NEW b \in Int
    PROVE  Wrap(Wrap(a) + b) = Wrap(a + b) /\ Wrap(b - Wrap(a)) = Wrap(b - a)
<1>1. PICK k \in Int : a = k * (Top + 1) + Wrap(a)
  BY WrapParts
<1> DEFINE w == Wrap(a)
<1>2. w \in Int
  BY WrapIn
<1> HIDE DEF w
<1>3. /\ (w + b) + k * (Top + 1) = a + b /\ w + b \in Int
      /\ (b - w) + (-k) * (Top + 1) = b - a /\ b - w \in Int /\ -k \in Int
  BY <1>1, <1>2, CounterAssumption DEF w
<1>4. Wrap((w + b) + k * (Top + 1)) = Wrap(w + b) /\ Wrap((b - w) + (-k) * (Top + 1)) = Wrap(b - w)
  BY <1>3, WrapTurn
<1> QED BY <1>3, <1>4 DEF w

(* Less than a turn apart, two counts differ.                              *)
LEMMA WrapApart ==
    ASSUME NEW a \in Int, NEW b \in Int, Wrap(a) = Wrap(b), a - b \in (-Top)..Top
    PROVE  a = b
<1>1. PICK k \in Int : a = k * (Top + 1) + Wrap(a)
  BY WrapParts
<1>2. PICK l \in Int : b = l * (Top + 1) + Wrap(b)
  BY WrapParts
<1> DEFINE m == Top + 1
           d == k - l
<1>3. m \in Nat /\ m > Top /\ d \in Int
  BY CounterAssumption
<1>4. a - b = d * m
  BY <1>1, <1>2, WrapIn, CounterAssumption
<1> HIDE DEF m, d
<1>5. d = 0
  <2>1. CASE d >= 1
    <3>1. d * m >= m
      BY <2>1, <1>3
    <3> QED BY <3>1, <1>3, <1>4, CounterAssumption
  <2>2. CASE d <= -1
    <3>1. d * m <= -m
      BY <2>2, <1>3
    <3> QED BY <3>1, <1>3, <1>4, CounterAssumption
  <2> QED BY <2>1, <2>2, <1>3
<1> QED BY <1>3, <1>4, <1>5

(* A tick brings an alarm at v nearer by one, and matches it when it is    *)
(* the last.                                                               *)
LEMMA TickDue ==
    ASSUME NEW c \in 0..Top, NEW v \in 0..Top
    PROVE  /\ Wrap(c + 1) = v <=> Wrap(v - c) = 1
           /\ Wrap(v - c) >= 1 => Wrap(v - Wrap(c + 1)) = Wrap(v - c) - 1
<1> DEFINE d == Wrap(v - c)
<1>1. d \in 0..Top /\ v - c \in Int /\ c + 1 \in Int /\ v \in Int /\ Top \in Nat \ {0}
  BY WrapIn, CounterAssumption
<1>2. Wrap(v - Wrap(c + 1)) = Wrap(v - (c + 1)) /\ v - (c + 1) = (v - c) + (-1)
  BY <1>1, WrapSum
<1>3. Wrap((v - c) + (-1)) = Wrap(d + (-1))
  BY <1>1, WrapSum
<1>4. d >= 1 => Wrap(d + (-1)) = d - 1
  <2> SUFFICES ASSUME d >= 1 PROVE Wrap(d + (-1)) = d - 1
    OBVIOUS
  <2> HIDE DEF d
  <2>1. d + (-1) \in 0..Top /\ d + (-1) = d - 1
    BY <1>1
  <2> QED BY <2>1, WrapSmall
<1>5. Wrap(c + 1) = v => d = 1
  <2> SUFFICES ASSUME Wrap(c + 1) = v PROVE Wrap(v - c) = 1
    OBVIOUS
  <2>1. Wrap(Wrap(c + 1) + (-c)) = Wrap(c + 1 + (-c))
    BY <1>1, WrapSum
  <2>2. c + 1 + (-c) = 1 /\ v + (-c) = v - c /\ 1 \in 0..Top
    BY <1>1
  <2> QED BY <2>1, <2>2, WrapSmall
<1>6. d = 1 => Wrap(c + 1) = v
  <2> SUFFICES ASSUME Wrap(v - c) = 1 PROVE Wrap(c + 1) = v
    OBVIOUS
  <2>1. Wrap(Wrap(v - c) + c) = Wrap((v - c) + c)
    BY <1>1, WrapSum
  <2>2. (v - c) + c = v /\ 1 + c = c + 1
    BY <1>1
  <2> QED BY <2>1, <2>2, WrapSmall
<1> QED BY <1>2, <1>3, <1>4, <1>5, <1>6

(* A value set n ahead is n ahead.                                         *)
LEMMA WrapAhead ==
    ASSUME NEW c \in 0..Top, NEW n \in 0..Top
    PROVE  Wrap(Wrap(c + n) - c) = n
<1>1. c + n \in Int /\ -c \in Int /\ Wrap(c + n) \in Int /\ c + n + (-c) = n
  BY WrapIn
<1>2. Wrap(Wrap(c + n) + (-c)) = Wrap(c + n + (-c))
  BY <1>1, WrapSum
<1>3. Wrap(c + n) - c = Wrap(c + n) + (-c)
  BY <1>1
<1> QED BY <1>1, <1>2, <1>3, WrapSmall

(* The count e ticks after t was set n ahead of it: at first, ...          *)
LEMMA SinceSet ==
    ASSUME NEW c \in 0..Top, NEW n \in 0..Top, NEW t, t = Wrap(c + n)
    PROVE  c = Wrap(t - n + 0)
<1>1. c + n \in Int /\ -n \in Int /\ Wrap(c + n) \in Int /\ c + n + (-n) = c
  BY WrapIn
<1>2. Wrap(Wrap(c + n) + (-n)) = Wrap(c + n + (-n))
  BY <1>1, WrapSum
<1>3. t - n + 0 = Wrap(c + n) + (-n)
  BY <1>1
<1> QED BY <1>1, <1>2, <1>3, WrapSmall

(* ... a tick later, ...                                                   *)
LEMMA SinceNext ==
    ASSUME NEW a \in Int, NEW e \in Nat
    PROVE  Wrap(Wrap(a + e) + 1) = Wrap(a + (e + 1))
<1>1. a + e \in Int /\ 1 \in Int /\ a + e + 1 = a + (e + 1)
  OBVIOUS
<1> QED BY <1>1, WrapSum

(* ... and when it is t.                                                   *)
LEMMA SinceAll ==
    ASSUME NEW t \in 0..Top, NEW n \in Nat, NEW e \in Nat, t = Wrap(t - n + e),
           e - n \in (-Top)..Top
    PROVE  e = n
<1>1. t - n + e \in Int /\ t \in Int /\ Top \in Nat
  BY CounterAssumption
<1>2. Wrap(t - n + e) = Wrap(t)
  BY WrapSmall
<1>3. (t - n + e) - t \in (-Top)..Top
  BY <1>1
<1>4. t - n + e = t
  BY <1>1, <1>2, <1>3, WrapApart
<1> QED BY <1>4, <1>1

-----------------------------------------------------------------------------
(* The sequences of steps.                                                 *)
OpNames ==
    {"start", "stop", "claim", "enable", "compare", "take", "now", "prog", "disable", "clear",
     "seminit", "semdel"}
Ops == [op : OpNames, dev : Dev]

(* The steps and the sequences of them: first, last and the rest.          *)
LEMMA OpIn == \A a \in OpNames, d \in Dev : Op(a, d) \in Ops
BY DEF Op, Ops

LEMMA Cons ==
    ASSUME NEW a \in Ops, NEW q \in Seq(Ops)
    PROVE  <<a>> \o q \in Seq(Ops) /\ <<a>> \o q # << >> /\ Head(<<a>> \o q) = a
           /\ Tail(<<a>> \o q) = q
OBVIOUS

LEMMA Single ==
    ASSUME NEW a \in Ops
    PROVE  <<a>> \in Seq(Ops) /\ <<a>> # << >> /\ Head(<<a>>) = a /\ Tail(<<a>>) = << >>
OBVIOUS

(* A literal in front.                                                     *)
LEMMA Cons2 ==
    ASSUME NEW a \in Ops, NEW b \in Ops, NEW q \in Seq(Ops)
    PROVE  <<a, b>> \o q = <<a>> \o (<<b>> \o q)
<1> DEFINE l == <<a, b>> \o q
           r == <<a>> \o (<<b>> \o q)
<1>1. l \in Seq(Ops) /\ Len(l) = Len(q) + 2 /\ l[1] = a /\ l[2] = b
      /\ \A k \in 1..Len(q) : l[k + 2] = q[k]
  OBVIOUS
<1>2. r \in Seq(Ops) /\ Len(r) = Len(q) + 2 /\ r[1] = a /\ r[2] = b
      /\ \A k \in 1..Len(q) : r[k + 2] = q[k]
  OBVIOUS
<1>3. \A k \in 1..Len(l) : l[k] = r[k]
  <2> SUFFICES ASSUME NEW k \in 1..Len(l) PROVE l[k] = r[k]
    OBVIOUS
  <2> HIDE DEF l, r
  <2>1. Len(q) \in Nat /\ (k = 1 \/ k = 2 \/ (k - 2 \in 1..Len(q) /\ (k - 2) + 2 = k))
    BY <1>1
  <2> QED BY <2>1, <1>1, <1>2
<1> HIDE DEF l, r
<1>4. l = r
  BY <1>1, <1>2, <1>3, SeqEqual
<1> QED BY <1>4 DEF l, r

LEMMA Cons3 ==
    ASSUME NEW a \in Ops, NEW b \in Ops, NEW c \in Ops, NEW q \in Seq(Ops)
    PROVE  <<a, b, c>> \o q = <<a>> \o (<<b>> \o (<<c>> \o q))
<1> DEFINE l == <<a, b, c>> \o q
           t == <<c>> \o q
           r == <<a, b>> \o t
<1>1. l \in Seq(Ops) /\ Len(l) = Len(q) + 3 /\ l[1] = a /\ l[2] = b /\ l[3] = c
      /\ \A k \in 1..Len(q) : l[k + 3] = q[k]
  OBVIOUS
<1>t. t \in Seq(Ops) /\ Len(t) = Len(q) + 1 /\ t[1] = c /\ \A k \in 1..Len(q) : t[k + 1] = q[k]
  OBVIOUS
<1> HIDE DEF t
<1>r. r \in Seq(Ops) /\ Len(r) = Len(t) + 2 /\ r[1] = a /\ r[2] = b
      /\ \A k \in 1..Len(t) : r[k + 2] = t[k]
  BY <1>t
<1> HIDE DEF l, r
<1>2. Len(q) \in Nat
  OBVIOUS
<1>s. r[3] = c
  <2>1. 1 \in 1..Len(t) /\ 1 + 2 = 3
    BY <1>t, <1>2
  <2> QED BY <2>1, <1>t, <1>r
<1>3. \A k \in 1..Len(l) : l[k] = r[k]
  <2> SUFFICES ASSUME NEW k \in 1..Len(l) PROVE l[k] = r[k]
    OBVIOUS
  <2>1. CASE k \in {1, 2, 3}
    BY <2>1, <1>1, <1>r, <1>s
  <2>2. CASE k \notin {1, 2, 3}
    <3>1. k - 3 \in 1..Len(q) /\ (k - 3) + 3 = k /\ k - 2 \in 1..Len(t) /\ (k - 2) + 2 = k
          /\ (k - 3) + 1 = k - 2
      BY <2>2, <1>1, <1>t, <1>2
    <3>2. l[k] = q[k - 3]
      BY <3>1, <1>1
    <3>3. r[k] = t[k - 2]
      BY <3>1, <1>r
    <3>4. t[k - 2] = q[k - 3]
      BY <3>1, <1>t
    <3> QED BY <3>2, <3>3, <3>4
  <2> QED BY <2>1, <2>2
<1>4. l = r
  BY <1>1, <1>r, <1>t, <1>2, <1>3, SeqEqual
<1>5. r = <<a>> \o (<<b>> \o t)
  BY <1>t, Cons2 DEF r
<1> QED BY <1>4, <1>5 DEF l, t

(* Each place: the next step, and the code from the next place.            *)
LEMMA Codes ==
    /\ TakeOn \in Seq(Ops) /\ CompareOn \in Seq(Ops) /\ EnableOn \in Seq(Ops)
    /\ ClaimOn \in Seq(Ops)
    /\ ProgOn \in Seq(Ops) /\ SemInitOn \in Seq(Ops) /\ LoadCompareOn \in Seq(Ops)
    /\ LoadEnableOn \in Seq(Ops) /\ LoadClaimOn \in Seq(Ops) /\ LoadStartOn \in Seq(Ops)
    /\ ClearOn \in Seq(Ops) /\ DisableOn \in Seq(Ops) /\ LoadTakeOn \in Seq(Ops)
    /\ \A l \in BOOLEAN : StartOn(l) \in Seq(Ops) /\ StopOn(l) \in Seq(Ops) /\ NowOn(l) \in Seq(Ops)
    /\ DSemInitOn \in Seq(Ops) /\ DSemDelOn \in Seq(Ops) /\ DClearOn \in Seq(Ops)
    /\ DDisableOn \in Seq(Ops) /\ DStopOn \in Seq(Ops) /\ DLoadSemDelOn \in Seq(Ops)
    /\ DLoadClearOn \in Seq(Ops) /\ DLoadDisableOn \in Seq(Ops) /\ DLoadStopOn \in Seq(Ops)
<1>0. << >> \in Seq(Ops)
  OBVIOUS
<1>1. TakeOn \in Seq(Ops) /\ LoadTakeOn \in Seq(Ops) /\ DSemInitOn \in Seq(Ops)
  BY OpIn, Single DEF TakeOn, LoadTakeOn, DSemInitOn, OpNames, Dev
<1>2. CompareOn \in Seq(Ops)
  BY <1>1, OpIn, Cons DEF CompareOn, OpNames, Dev
<1>3. EnableOn \in Seq(Ops)
  BY <1>2, OpIn, Cons DEF EnableOn, OpNames, Dev
<1>4. ClaimOn \in Seq(Ops)
  BY <1>3, OpIn, Cons DEF ClaimOn, OpNames, Dev
<1>5. ProgOn \in Seq(Ops)
  BY <1>4, OpIn, Cons DEF ProgOn, OpNames, Dev
<1>6. SemInitOn \in Seq(Ops) /\ ClearOn \in Seq(Ops)
  BY <1>5, OpIn, Cons DEF SemInitOn, ClearOn, OpNames, Dev
<1>7. LoadCompareOn \in Seq(Ops) /\ DisableOn \in Seq(Ops)
  BY <1>6, OpIn, Cons DEF LoadCompareOn, DisableOn, OpNames, Dev
<1>8. LoadEnableOn \in Seq(Ops)
  BY <1>7, OpIn, Cons DEF LoadEnableOn, OpNames, Dev
<1>9. LoadClaimOn \in Seq(Ops)
  BY <1>8, OpIn, Cons DEF LoadClaimOn, OpNames, Dev
<1>10. LoadStartOn \in Seq(Ops)
  BY <1>9, OpIn, Cons DEF LoadStartOn, OpNames, Dev
<1>11. \A l \in BOOLEAN : StartOn(l) \in Seq(Ops)
  BY <1>5, <1>10, OpIn, Cons DEF StartOn, OpNames, Dev
<1>12. \A l \in BOOLEAN : StopOn(l) \in Seq(Ops)
  BY <1>0, <1>1, OpIn, Cons DEF StopOn, OpNames, Dev
<1>13. \A l \in BOOLEAN : NowOn(l) \in Seq(Ops)
  BY <1>12, OpIn, Cons DEF NowOn, OpNames, Dev
<1>14. DSemDelOn \in Seq(Ops)
  BY <1>1, OpIn, Cons DEF DSemDelOn, OpNames, Dev
<1>15. DClearOn \in Seq(Ops)
  BY <1>14, OpIn, Cons DEF DClearOn, OpNames, Dev
<1>16. DDisableOn \in Seq(Ops)
  BY <1>15, OpIn, Cons DEF DDisableOn, OpNames, Dev
<1>17. DStopOn \in Seq(Ops)
  BY <1>16, OpIn, Cons DEF DStopOn, OpNames, Dev
<1>18. DLoadSemDelOn \in Seq(Ops)
  BY <1>17, OpIn, Cons DEF DLoadSemDelOn, OpNames, Dev
<1>19. DLoadClearOn \in Seq(Ops)
  BY <1>18, OpIn, Cons DEF DLoadClearOn, OpNames, Dev
<1>20. DLoadDisableOn \in Seq(Ops)
  BY <1>19, OpIn, Cons DEF DLoadDisableOn, OpNames, Dev
<1>21. DLoadStopOn \in Seq(Ops)
  BY <1>20, OpIn, Cons DEF DLoadStopOn, OpNames, Dev
<1> QED BY <1>1, <1>2, <1>3, <1>4, <1>5, <1>6, <1>7, <1>8, <1>9, <1>10, <1>11, <1>12, <1>13, <1>14,
   <1>15, <1>16, <1>17, <1>18, <1>19, <1>20, <1>21

(* The sequences of the model are these.                                   *)
LEMMA RoundCode == Round = ProgOn
<1> DEFINE q == <<Op("take", "main")>>
           m == <<Op("claim", "main")>>
           \o (<<Op("enable", "main")>> \o (<<Op("compare", "main")>> \o q))
<1>1. q \in Seq(Ops) /\ q = TakeOn
  BY OpIn, Single DEF TakeOn, OpNames, Dev
<1>2. Arm("main") \o q = m
  <2>1. Op("claim", "main") \in Ops /\ Op("enable", "main") \in Ops /\ Op("compare", "main") \in Ops
    BY OpIn DEF OpNames, Dev
  <2> HIDE DEF q
  <2>2. <<Op("claim", "main"), Op("enable", "main"), Op("compare", "main")>> \o q = m
    BY <1>1, <2>1, Cons3, ZenonT(40)
  <2> QED BY <2>2 DEF Arm
<1>3. Arm("main") \in Seq(Ops)
  BY OpIn DEF Arm, OpNames, Dev
<1>4. <<Op("prog", "main")>> \in Seq(Ops)
  BY OpIn DEF OpNames, Dev
<1>5. (<<Op("prog", "main")>> \o Arm("main")) \o q = <<Op("prog", "main")>> \o (Arm("main") \o q)
  BY <1>1, <1>3, <1>4
<1>6. m = ClaimOn
  BY <1>1 DEF ClaimOn, EnableOn, CompareOn
<1> QED BY <1>2, <1>5, <1>6 DEF Round, ProgOn

(* The code of the test as the chain of its places.                        *)
LEMMA TestCode == ASSUME NEW l \in BOOLEAN PROVE Test(l) = StartOn(l)
<1> DEFINE s == <<Op("start", "main")>>
           sl == <<Op("start", "load")>>
           i == <<Op("seminit", "load")>>
<1>0. s \in Seq(Ops) /\ sl \in Seq(Ops) /\ i \in Seq(Ops) /\ Arm("load") \in Seq(Ops)
      /\ ProgOn \in Seq(Ops)
  BY OpIn, Codes DEF Arm, OpNames, Dev
<1>1. CASE l = FALSE
  <2>1. Test(l) = (s \o << >>) \o ProgOn
    BY <1>1, RoundCode DEF Test, StartUp
  <2>2. s \o << >> = s
    BY <1>0
  <2> QED BY <1>1, <2>1, <2>2 DEF StartOn
<1>2. CASE l = TRUE
  <2>1. Test(l) = (s \o ((sl \o Arm("load")) \o i)) \o ProgOn
    BY <1>2, RoundCode DEF Test, StartUp
  <2>2. Test(l) = s \o (sl \o (Arm("load") \o (i \o ProgOn)))
    <3> DEFINE a == Arm("load")
    <3> HIDE DEF s, sl, i, a
    <3>0. s \in Seq(Ops) /\ sl \in Seq(Ops) /\ i \in Seq(Ops) /\ a \in Seq(Ops)
          /\ ProgOn \in Seq(Ops)
      BY <1>0 DEF a
    <3>1. sl \o a \in Seq(Ops) /\ (sl \o a) \o i \in Seq(Ops) /\ i \o ProgOn \in Seq(Ops)
      BY <3>0
    <3>2. (s \o ((sl \o a) \o i)) \o ProgOn = s \o (((sl \o a) \o i) \o ProgOn)
      <4> DEFINE v == (sl \o a) \o i
      <4>1. v \in Seq(Ops)
        BY <3>1
      <4> HIDE DEF v
      <4>2. (s \o v) \o ProgOn = s \o (v \o ProgOn)
        BY <3>0, <4>1, SMTT(30)
      <4> QED BY <4>2 DEF v
    <3>3. ((sl \o a) \o i) \o ProgOn = (sl \o a) \o (i \o ProgOn)
      <4> DEFINE v == sl \o a
      <4>1. v \in Seq(Ops)
        BY <3>1
      <4> HIDE DEF v
      <4>2. (v \o i) \o ProgOn = v \o (i \o ProgOn)
        BY <3>0, <4>1, SMTT(30)
      <4> QED BY <4>2 DEF v
    <3>4. (sl \o a) \o (i \o ProgOn) = sl \o (a \o (i \o ProgOn))
      <4> DEFINE v == i \o ProgOn
      <4>1. v \in Seq(Ops)
        BY <3>1
      <4> HIDE DEF v
      <4>2. (sl \o a) \o v = sl \o (a \o v)
        BY <3>0, <4>1, SMTT(30)
      <4> QED BY <4>2 DEF v
    <3> QED BY <2>1, <3>2, <3>3, <3>4 DEF a
  <2>3. i \o ProgOn = SemInitOn
    BY DEF SemInitOn
  <2>4. Arm("load") \o SemInitOn = LoadClaimOn
    <3>1. SemInitOn \in Seq(Ops)
      BY Codes
    <3>2. Arm("load") \o SemInitOn = <<Op("claim", "load")>>
          \o (<<Op("enable", "load")>> \o (<<Op("compare", "load")>> \o SemInitOn))
      <4>1. Op("claim", "load") \in Ops /\ Op("enable", "load") \in Ops
            /\ Op("compare", "load") \in Ops
        BY OpIn DEF OpNames, Dev
      <4>2. <<Op("claim", "load"), Op("enable", "load"), Op("compare", "load")>> \o SemInitOn
            = <<Op("claim", "load")>>
            \o (<<Op("enable", "load")>> \o (<<Op("compare", "load")>> \o SemInitOn))
        BY <3>1, <4>1, Cons3, Zenon
      <4> QED BY <4>2 DEF Arm
    <3> QED BY <3>2 DEF LoadClaimOn, LoadEnableOn, LoadCompareOn
  <2> QED BY <1>2, <2>2, <2>3, <2>4 DEF StartOn, LoadStartOn
<1> QED BY <1>1, <1>2

LEMMA MeasureCode == ASSUME NEW l \in BOOLEAN PROVE Measure(l) = NowOn(l)
<1> DEFINE q == IF l THEN LoadTakeOn ELSE << >>
<1>1. q \in Seq(Ops)
  BY Codes
<1>2. Measure(l) = <<Op("now", "main"), Op("stop", "main")>> \o q
  BY DEF Measure, LoadTakeOn
<1>3. <<Op("now", "main"), Op("stop", "main")>> \o q
      = <<Op("now", "main")>> \o (<<Op("stop", "main")>> \o q)
  <2>1. Op("now", "main") \in Ops /\ Op("stop", "main") \in Ops
    BY OpIn DEF OpNames, Dev
  <2> QED BY <1>1, <2>1, Cons2, Zenon
<1> QED BY <1>2, <1>3 DEF NowOn, StopOn

LEMMA RetryCode == Retry = DisableOn
<1>1. ProgOn \in Seq(Ops)
  BY Codes
<1>2. <<Op("disable", "main"), Op("clear", "main")>> \o ProgOn
      = <<Op("disable", "main")>> \o (<<Op("clear", "main")>> \o ProgOn)
  <2>1. Op("disable", "main") \in Ops /\ Op("clear", "main") \in Ops
    BY OpIn DEF OpNames, Dev
  <2> QED BY <1>1, <2>1, Cons2, Zenon
<1> QED BY <1>2, RoundCode DEF Retry, CancelOps, DisableOn, ClearOn

-----------------------------------------------------------------------------
(* The steps, from place to place.                                         *)

(* The driver's calls.                                                     *)
Calls(p, q) ==
    \/ p = "start" /\ q = (IF tc_load THEN "load start" ELSE "prog") /\ Start("main")
    \/ p = "load start" /\ q = "load claim" /\ Start("load")
    \/ p = "load claim" /\ q = "load enable" /\ Claim("load", "spin", "relative", LoadTicks)
    \/ p = "load enable" /\ q = "load compare" /\ EnableIrq("load")
    \/ p = "load compare" /\ q = "seminit" /\ SetCompare("load")
    \/ p = "claim" /\ q = "enable" /\ Claim("main", "latency", "absolute", time_prog)
    \/ p = "enable" /\ q = "compare" /\ EnableIrq("main")
    \/ p = "compare" /\ q = "take" /\ SetCompare("main")
    \/ p = "disable" /\ q = "clear" /\ DisableIrq("main")
    \/ p = "clear" /\ q = "prog" /\ CancelAlarm("main")
    \/ p = "stop" /\ q = (IF tc_load THEN "load take" ELSE "start") /\ Stop("main")
    \/ p = "d load stop" /\ q = "d load disable" /\ Stop("load")
    \/ p = "d load disable" /\ q = "d load clear" /\ DisableIrq("load")
    \/ p = "d load clear" /\ q = "d load semdel" /\ CancelAlarm("load")
    \/ p = "d stop" /\ q = "d disable" /\ Stop("main")
    \/ p = "d disable" /\ q = "d clear" /\ DisableIrq("main")
    \/ p = "d clear" /\ q = "d semdel" /\ CancelAlarm("main")

CallStep(p, q) ==
    /\ Calls(p, q)
    /\ early' = IF p = "claim" THEN [early EXCEPT !["main"] = hw["main"].flag]
                ELSE IF p = "load claim" THEN [early EXCEPT !["load"] = hw["load"].flag] ELSE early
    /\ tc_load' = tc_load
    /\ UNCHANGED <<wait, sem, irq_load_sem, exists, time_prog, time_irq>>

(* The steps between them, which leave the counters alone.                 *)
Others(p, q) ==
    \/ /\ p = "seminit" /\ q = "prog"
       /\ exists' = [exists EXCEPT !["load"] = TRUE] /\ irq_load_sem' = 0
       /\ UNCHANGED <<tc_load, wait, sem, time_prog, time_irq>>
    \/ /\ p = "prog" /\ q = "claim" /\ time_prog' = Wrap(hw["main"].cnt + Ticks)
       /\ UNCHANGED <<tc_load, wait, sem, irq_load_sem, exists, time_irq>>
    \/ /\ p = "take" /\ q = "now" /\ sem > 0 /\ sem' = sem - 1 /\ wait' = 0
       /\ UNCHANGED <<tc_load, irq_load_sem, exists, time_prog, time_irq>>
    \/ /\ p = "take" /\ q = "disable" /\ sem = 0 /\ wait = Timeout /\ wait' = 0
       /\ UNCHANGED <<tc_load, sem, irq_load_sem, exists, time_prog, time_irq>>
    \/ /\ p = "now" /\ q = "stop" /\ time_prog' = 0 /\ time_irq' = 0
       /\ UNCHANGED <<tc_load, wait, sem, irq_load_sem, exists>>
    \/ /\ p = "load take" /\ q = "start" /\ irq_load_sem > 0 /\ irq_load_sem' = irq_load_sem - 1
       /\ UNCHANGED <<tc_load, wait, sem, exists, time_prog, time_irq>>
    \/ /\ p \in {"take", "load take"} /\ q = (IF tc_load THEN "d load stop" ELSE "d stop")
          /\ wait' = 0
       /\ UNCHANGED <<tc_load, sem, irq_load_sem, exists, time_prog, time_irq>>
    \/ /\ p = "d load semdel" /\ q = "d stop"
       /\ exists' = [exists EXCEPT !["load"] = FALSE] /\ irq_load_sem' = 0
       /\ UNCHANGED <<tc_load, wait, sem, time_prog, time_irq>>
    \/ /\ p = "d semdel" /\ q = "d seminit"
       /\ exists' = [exists EXCEPT !["main"] = FALSE] /\ sem' = 0
       /\ UNCHANGED <<tc_load, wait, irq_load_sem, time_prog, time_irq>>
    \/ /\ p = "d seminit" /\ q = "start" /\ tc_load' \in {FALSE, setting.load}
       /\ exists' = [exists EXCEPT !["main"] = TRUE] /\ sem' = 0
       /\ UNCHANGED <<wait, irq_load_sem, time_prog, time_irq>>

OtherStep(p, q) == Others(p, q) /\ UNCHANGED <<hw, alarm, next, early>>

(* A task's step: no interrupt waits.                                      *)
TaskStep(p, q) ==
    /\ InTask /\ ~crashed' /\ lag' = 0
    /\ UNCHANGED <<setting, isr, now, start>>
    /\ CallStep(p, q) \/ OtherStep(p, q)

(* What the driver does for each step.                                     *)
LEMMA DriverIs ==
    ASSUME NEW d \in Dev
    PROVE  /\ Driver(Op("start", d)) => Start(d)
           /\ Driver(Op("stop", d)) => Stop(d)
           /\ Driver(Op("enable", d)) => EnableIrq(d)
           /\ Driver(Op("compare", d)) => SetCompare(d)
           /\ Driver(Op("disable", d)) => DisableIrq(d)
           /\ Driver(Op("clear", d)) => CancelAlarm(d)
           /\ Driver(Op("claim", "main")) => Claim("main", "latency", "absolute", time_prog)
           /\ Driver(Op("claim", "load")) => Claim("load", "spin", "relative", LoadTicks)
           /\ \A a \in DriverOps : Driver(Op(a, d)) =>
                 /\ early' = IF a = "claim" THEN [early EXCEPT ![d] = hw[d].flag] ELSE early
                 /\ UNCHANGED <<setting, isr, now, wait, sem, irq_load_sem, exists, time_prog,
                      time_irq, start>>
BY DEF Driver, Op, Dev, DriverOps

(* The next step at each place, and what is to be done after it.           *)
LEMMA Heads ==
    ASSUME NEW p, TaskAt(p), tc_load \in BOOLEAN
    PROVE  /\ script = << >> /\ todo # << >>
           /\ p = "start"
              => Head(todo) = Op("start", "main")
                 /\ Tail(todo) = (IF tc_load THEN LoadStartOn ELSE ProgOn)
           /\ p = "load start" => Head(todo) = Op("start", "load") /\ Tail(todo) = LoadClaimOn
           /\ p = "load claim" => Head(todo) = Op("claim", "load") /\ Tail(todo) = LoadEnableOn
           /\ p = "load enable" => Head(todo) = Op("enable", "load") /\ Tail(todo) = LoadCompareOn
           /\ p = "load compare" => Head(todo) = Op("compare", "load") /\ Tail(todo) = SemInitOn
           /\ p = "seminit" => Head(todo) = Op("seminit", "load") /\ Tail(todo) = ProgOn
           /\ p = "prog" => Head(todo) = Op("prog", "main") /\ Tail(todo) = ClaimOn
           /\ p = "claim" => Head(todo) = Op("claim", "main") /\ Tail(todo) = EnableOn
           /\ p = "enable" => Head(todo) = Op("enable", "main") /\ Tail(todo) = CompareOn
           /\ p = "compare" => Head(todo) = Op("compare", "main") /\ Tail(todo) = TakeOn
           /\ p = "take" => Head(todo) = Op("take", "main") /\ Tail(todo) = << >>
           /\ p = "disable" => Head(todo) = Op("disable", "main") /\ Tail(todo) = ClearOn
           /\ p = "clear" => Head(todo) = Op("clear", "main") /\ Tail(todo) = ProgOn
           /\ p = "now" => Head(todo) = Op("now", "main") /\ Tail(todo) = StopOn(tc_load)
           /\ p = "stop" => Head(todo) = Op("stop", "main")
              /\ Tail(todo) = (IF tc_load THEN LoadTakeOn ELSE << >>)
           /\ p = "load take" => Head(todo) = Op("take", "load") /\ Tail(todo) = << >>
<1>1. CASE p = "start"
  <2>1. todo = StartOn(tc_load) /\ script = << >> /\ Op("start", "main") \in Ops
    BY <1>1, OpIn DEF TaskAt, OpNames, Dev
  <2>2. (IF tc_load THEN LoadStartOn ELSE ProgOn) \in Seq(Ops)
    BY Codes
  <2>3. StartOn(tc_load) = <<Op("start", "main")>> \o (IF tc_load THEN LoadStartOn ELSE ProgOn)
    BY DEF StartOn
  <2> QED BY <1>1, <2>1, <2>2, <2>3, Cons
<1>2. CASE p = "load start"
  <2>1. todo = LoadStartOn /\ script = << >> /\ Op("start", "load") \in Ops
    BY <1>2, OpIn DEF TaskAt, OpNames, Dev
  <2>2. LoadClaimOn \in Seq(Ops)
    BY Codes
  <2>3. LoadStartOn = <<Op("start", "load")>> \o LoadClaimOn
    BY DEF LoadStartOn
  <2> QED BY <1>2, <2>1, <2>2, <2>3, Cons
<1>3. CASE p = "load claim"
  <2>1. todo = LoadClaimOn /\ script = << >> /\ Op("claim", "load") \in Ops
    BY <1>3, OpIn DEF TaskAt, OpNames, Dev
  <2>2. LoadEnableOn \in Seq(Ops)
    BY Codes
  <2>3. LoadClaimOn = <<Op("claim", "load")>> \o LoadEnableOn
    BY DEF LoadClaimOn
  <2> QED BY <1>3, <2>1, <2>2, <2>3, Cons
<1>4. CASE p = "load enable"
  <2>1. todo = LoadEnableOn /\ script = << >> /\ Op("enable", "load") \in Ops
    BY <1>4, OpIn DEF TaskAt, OpNames, Dev
  <2>2. LoadCompareOn \in Seq(Ops)
    BY Codes
  <2>3. LoadEnableOn = <<Op("enable", "load")>> \o LoadCompareOn
    BY DEF LoadEnableOn
  <2> QED BY <1>4, <2>1, <2>2, <2>3, Cons
<1>5. CASE p = "load compare"
  <2>1. todo = LoadCompareOn /\ script = << >> /\ Op("compare", "load") \in Ops
    BY <1>5, OpIn DEF TaskAt, OpNames, Dev
  <2>2. SemInitOn \in Seq(Ops)
    BY Codes
  <2>3. LoadCompareOn = <<Op("compare", "load")>> \o SemInitOn
    BY DEF LoadCompareOn
  <2> QED BY <1>5, <2>1, <2>2, <2>3, Cons
<1>6. CASE p = "seminit"
  <2>1. todo = SemInitOn /\ script = << >> /\ Op("seminit", "load") \in Ops
    BY <1>6, OpIn DEF TaskAt, OpNames, Dev
  <2>2. ProgOn \in Seq(Ops)
    BY Codes
  <2>3. SemInitOn = <<Op("seminit", "load")>> \o ProgOn
    BY DEF SemInitOn
  <2> QED BY <1>6, <2>1, <2>2, <2>3, Cons
<1>7. CASE p = "prog"
  <2>1. todo = ProgOn /\ script = << >> /\ Op("prog", "main") \in Ops
    BY <1>7, OpIn DEF TaskAt, OpNames, Dev
  <2>2. ClaimOn \in Seq(Ops)
    BY Codes
  <2>3. ProgOn = <<Op("prog", "main")>> \o ClaimOn
    BY DEF ProgOn
  <2> QED BY <1>7, <2>1, <2>2, <2>3, Cons
<1>8. CASE p = "claim"
  <2>1. todo = ClaimOn /\ script = << >> /\ Op("claim", "main") \in Ops
    BY <1>8, OpIn DEF TaskAt, OpNames, Dev
  <2>2. EnableOn \in Seq(Ops)
    BY Codes
  <2>3. ClaimOn = <<Op("claim", "main")>> \o EnableOn
    BY DEF ClaimOn
  <2> QED BY <1>8, <2>1, <2>2, <2>3, Cons
<1>9. CASE p = "enable"
  <2>1. todo = EnableOn /\ script = << >> /\ Op("enable", "main") \in Ops
    BY <1>9, OpIn DEF TaskAt, OpNames, Dev
  <2>2. CompareOn \in Seq(Ops)
    BY Codes
  <2>3. EnableOn = <<Op("enable", "main")>> \o CompareOn
    BY DEF EnableOn
  <2> QED BY <1>9, <2>1, <2>2, <2>3, Cons
<1>10. CASE p = "compare"
  <2>1. todo = CompareOn /\ script = << >> /\ Op("compare", "main") \in Ops
    BY <1>10, OpIn DEF TaskAt, OpNames, Dev
  <2>2. TakeOn \in Seq(Ops)
    BY Codes
  <2>3. CompareOn = <<Op("compare", "main")>> \o TakeOn
    BY DEF CompareOn
  <2> QED BY <1>10, <2>1, <2>2, <2>3, Cons
<1>11. CASE p = "take"
  <2>1. todo = TakeOn /\ script = << >> /\ Op("take", "main") \in Ops
    BY <1>11, OpIn DEF TaskAt, OpNames, Dev
  <2> QED BY <1>11, <2>1, Single DEF TakeOn
<1>12. CASE p = "disable"
  <2>1. todo = DisableOn /\ script = << >> /\ Op("disable", "main") \in Ops
    BY <1>12, OpIn DEF TaskAt, OpNames, Dev
  <2>2. ClearOn \in Seq(Ops)
    BY Codes
  <2>3. DisableOn = <<Op("disable", "main")>> \o ClearOn
    BY DEF DisableOn
  <2> QED BY <1>12, <2>1, <2>2, <2>3, Cons
<1>13. CASE p = "clear"
  <2>1. todo = ClearOn /\ script = << >> /\ Op("clear", "main") \in Ops
    BY <1>13, OpIn DEF TaskAt, OpNames, Dev
  <2>2. ProgOn \in Seq(Ops)
    BY Codes
  <2>3. ClearOn = <<Op("clear", "main")>> \o ProgOn
    BY DEF ClearOn
  <2> QED BY <1>13, <2>1, <2>2, <2>3, Cons
<1>14. CASE p = "now"
  <2>1. todo = NowOn(tc_load) /\ script = << >> /\ Op("now", "main") \in Ops
    BY <1>14, OpIn DEF TaskAt, OpNames, Dev
  <2>2. StopOn(tc_load) \in Seq(Ops)
    BY Codes
  <2>3. NowOn(tc_load) = <<Op("now", "main")>> \o StopOn(tc_load)
    BY DEF NowOn
  <2> QED BY <1>14, <2>1, <2>2, <2>3, Cons
<1>15. CASE p = "stop"
  <2>1. todo = StopOn(tc_load) /\ script = << >> /\ Op("stop", "main") \in Ops
    BY <1>15, OpIn DEF TaskAt, OpNames, Dev
  <2>2. (IF tc_load THEN LoadTakeOn ELSE << >>) \in Seq(Ops)
    BY Codes
  <2>3. StopOn(tc_load) = <<Op("stop", "main")>> \o (IF tc_load THEN LoadTakeOn ELSE << >>)
    BY DEF StopOn
  <2> QED BY <1>15, <2>1, <2>2, <2>3, Cons
<1>16. CASE p = "load take"
  <2>1. todo = LoadTakeOn /\ script = << >> /\ Op("take", "load") \in Ops
    BY <1>16, OpIn DEF TaskAt, OpNames, Dev
  <2> QED BY <1>16, <2>1, Single DEF LoadTakeOn
<1> QED BY <1>1, <1>2, <1>3, <1>4, <1>5, <1>6, <1>7, <1>8, <1>9, <1>10, <1>11, <1>12, <1>13,
    <1>14, <1>15, <1>16 DEF TaskAt

(* The same for main_task.                                                 *)
LEMMA ScriptHeads ==
    ASSUME NEW p, ScriptAt(p)
    PROVE  /\ todo = << >> /\ script # << >>
           /\ p = "d load stop"
              => Head(script) = Op("stop", "load") /\ Tail(script) = DLoadDisableOn
           /\ p = "d load disable"
              => Head(script) = Op("disable", "load") /\ Tail(script) = DLoadClearOn
           /\ p = "d load clear"
              => Head(script) = Op("clear", "load") /\ Tail(script) = DLoadSemDelOn
           /\ p = "d load semdel" => Head(script) = Op("semdel", "load") /\ Tail(script) = DStopOn
           /\ p = "d stop" => Head(script) = Op("stop", "main") /\ Tail(script) = DDisableOn
           /\ p = "d disable" => Head(script) = Op("disable", "main") /\ Tail(script) = DClearOn
           /\ p = "d clear" => Head(script) = Op("clear", "main") /\ Tail(script) = DSemDelOn
           /\ p = "d semdel" => Head(script) = Op("semdel", "main") /\ Tail(script) = DSemInitOn
           /\ p = "d seminit" => Head(script) = Op("seminit", "main") /\ Tail(script) = << >>
<1>1. CASE p = "d load stop"
  <2>1. script = DLoadStopOn /\ todo = << >> /\ Op("stop", "load") \in Ops
    BY <1>1, OpIn DEF ScriptAt, OpNames, Dev
  <2>2. DLoadDisableOn \in Seq(Ops)
    BY Codes
  <2>3. DLoadStopOn = <<Op("stop", "load")>> \o DLoadDisableOn
    BY DEF DLoadStopOn
  <2> QED BY <1>1, <2>1, <2>2, <2>3, Cons
<1>2. CASE p = "d load disable"
  <2>1. script = DLoadDisableOn /\ todo = << >> /\ Op("disable", "load") \in Ops
    BY <1>2, OpIn DEF ScriptAt, OpNames, Dev
  <2>2. DLoadClearOn \in Seq(Ops)
    BY Codes
  <2>3. DLoadDisableOn = <<Op("disable", "load")>> \o DLoadClearOn
    BY DEF DLoadDisableOn
  <2> QED BY <1>2, <2>1, <2>2, <2>3, Cons
<1>3. CASE p = "d load clear"
  <2>1. script = DLoadClearOn /\ todo = << >> /\ Op("clear", "load") \in Ops
    BY <1>3, OpIn DEF ScriptAt, OpNames, Dev
  <2>2. DLoadSemDelOn \in Seq(Ops)
    BY Codes
  <2>3. DLoadClearOn = <<Op("clear", "load")>> \o DLoadSemDelOn
    BY DEF DLoadClearOn
  <2> QED BY <1>3, <2>1, <2>2, <2>3, Cons
<1>4. CASE p = "d load semdel"
  <2>1. script = DLoadSemDelOn /\ todo = << >> /\ Op("semdel", "load") \in Ops
    BY <1>4, OpIn DEF ScriptAt, OpNames, Dev
  <2>2. DStopOn \in Seq(Ops)
    BY Codes
  <2>3. DLoadSemDelOn = <<Op("semdel", "load")>> \o DStopOn
    BY DEF DLoadSemDelOn
  <2> QED BY <1>4, <2>1, <2>2, <2>3, Cons
<1>5. CASE p = "d stop"
  <2>1. script = DStopOn /\ todo = << >> /\ Op("stop", "main") \in Ops
    BY <1>5, OpIn DEF ScriptAt, OpNames, Dev
  <2>2. DDisableOn \in Seq(Ops)
    BY Codes
  <2>3. DStopOn = <<Op("stop", "main")>> \o DDisableOn
    BY DEF DStopOn
  <2> QED BY <1>5, <2>1, <2>2, <2>3, Cons
<1>6. CASE p = "d disable"
  <2>1. script = DDisableOn /\ todo = << >> /\ Op("disable", "main") \in Ops
    BY <1>6, OpIn DEF ScriptAt, OpNames, Dev
  <2>2. DClearOn \in Seq(Ops)
    BY Codes
  <2>3. DDisableOn = <<Op("disable", "main")>> \o DClearOn
    BY DEF DDisableOn
  <2> QED BY <1>6, <2>1, <2>2, <2>3, Cons
<1>7. CASE p = "d clear"
  <2>1. script = DClearOn /\ todo = << >> /\ Op("clear", "main") \in Ops
    BY <1>7, OpIn DEF ScriptAt, OpNames, Dev
  <2>2. DSemDelOn \in Seq(Ops)
    BY Codes
  <2>3. DClearOn = <<Op("clear", "main")>> \o DSemDelOn
    BY DEF DClearOn
  <2> QED BY <1>7, <2>1, <2>2, <2>3, Cons
<1>8. CASE p = "d semdel"
  <2>1. script = DSemDelOn /\ todo = << >> /\ Op("semdel", "main") \in Ops
    BY <1>8, OpIn DEF ScriptAt, OpNames, Dev
  <2>2. DSemInitOn \in Seq(Ops)
    BY Codes
  <2>3. DSemDelOn = <<Op("semdel", "main")>> \o DSemInitOn
    BY DEF DSemDelOn
  <2> QED BY <1>8, <2>1, <2>2, <2>3, Cons
<1>9. CASE p = "d seminit"
  <2>1. script = DSemInitOn /\ todo = << >> /\ Op("seminit", "main") \in Ops
    BY <1>9, OpIn DEF ScriptAt, OpNames, Dev
  <2> QED BY <1>9, <2>1, Single DEF DSemInitOn
<1> QED BY <1>1, <1>2, <1>3, <1>4, <1>5, <1>6, <1>7, <1>8, <1>9 DEF ScriptAt

(* None of them is empty.                                                  *)
LEMMA NotEmpty ==
    ASSUME tc_load \in BOOLEAN
    PROVE  /\ TakeOn # << >>
           /\ CompareOn # << >>
           /\ EnableOn # << >>
           /\ ClaimOn # << >>
           /\ ProgOn # << >>
           /\ SemInitOn # << >>
           /\ LoadCompareOn # << >>
           /\ LoadEnableOn # << >>
           /\ LoadClaimOn # << >>
           /\ LoadStartOn # << >>
           /\ ClearOn # << >>
           /\ LoadTakeOn # << >>
           /\ StopOn(tc_load) # << >>
           /\ DSemInitOn # << >>
           /\ DSemDelOn # << >>
           /\ DClearOn # << >>
           /\ DDisableOn # << >>
           /\ DStopOn # << >>
           /\ DLoadSemDelOn # << >>
           /\ DLoadClearOn # << >>
           /\ DLoadDisableOn # << >>
<1>1. TakeOn # << >>
  BY OpIn, Single, Cons, Codes DEF TakeOn, OpNames, Dev
<1>2. CompareOn # << >>
  BY OpIn, Cons, Codes DEF CompareOn, OpNames, Dev
<1>3. EnableOn # << >>
  BY OpIn, Cons, Codes DEF EnableOn, OpNames, Dev
<1>4. ClaimOn # << >>
  BY OpIn, Cons, Codes DEF ClaimOn, OpNames, Dev
<1>5. ProgOn # << >>
  BY OpIn, Cons, Codes DEF ProgOn, OpNames, Dev
<1>6. SemInitOn # << >>
  BY OpIn, Cons, Codes DEF SemInitOn, OpNames, Dev
<1>7. LoadCompareOn # << >>
  BY OpIn, Cons, Codes DEF LoadCompareOn, OpNames, Dev
<1>8. LoadEnableOn # << >>
  BY OpIn, Cons, Codes DEF LoadEnableOn, OpNames, Dev
<1>9. LoadClaimOn # << >>
  BY OpIn, Cons, Codes DEF LoadClaimOn, OpNames, Dev
<1>10. LoadStartOn # << >>
  BY OpIn, Cons, Codes DEF LoadStartOn, OpNames, Dev
<1>11. ClearOn # << >>
  BY OpIn, Cons, Codes DEF ClearOn, OpNames, Dev
<1>12. LoadTakeOn # << >>
  BY OpIn, Single, Cons, Codes DEF LoadTakeOn, OpNames, Dev
<1>13. StopOn(tc_load) # << >>
  <2>1. (IF tc_load THEN LoadTakeOn ELSE << >>) \in Seq(Ops)
    BY Codes
  <2> QED BY <2>1, OpIn, Cons DEF StopOn, OpNames, Dev
<1>14. DSemInitOn # << >>
  BY OpIn, Single, Cons, Codes DEF DSemInitOn, OpNames, Dev
<1>15. DSemDelOn # << >>
  BY OpIn, Cons, Codes DEF DSemDelOn, OpNames, Dev
<1>16. DClearOn # << >>
  BY OpIn, Cons, Codes DEF DClearOn, OpNames, Dev
<1>17. DDisableOn # << >>
  BY OpIn, Cons, Codes DEF DDisableOn, OpNames, Dev
<1>18. DStopOn # << >>
  BY OpIn, Cons, Codes DEF DStopOn, OpNames, Dev
<1>19. DLoadSemDelOn # << >>
  BY OpIn, Cons, Codes DEF DLoadSemDelOn, OpNames, Dev
<1>20. DLoadClearOn # << >>
  BY OpIn, Cons, Codes DEF DLoadClearOn, OpNames, Dev
<1>21. DLoadDisableOn # << >>
  BY OpIn, Cons, Codes DEF DLoadDisableOn, OpNames, Dev
<1> QED BY <1>1, <1>2, <1>3, <1>4, <1>5, <1>6, <1>7, <1>8, <1>9, <1>10, <1>11, <1>12, <1>13,
    <1>14, <1>15, <1>16, <1>17, <1>18, <1>19, <1>20, <1>21

LEMMA NoneLeft == << >> \in Seq(Ops)
OBVIOUS

(* rt_latency_test_destroy() as the chain of its places.                   *)
LEMMA DestroyCode == ASSUME NEW l \in BOOLEAN PROVE Destroy(l) = IF l THEN DLoadStopOn ELSE DStopOn
<1> DEFINE x == IF l THEN << Op("stop", "load") >> \o CancelOps("load")
    \o << Op("semdel", "load") >> ELSE << >>
           s == << Op("stop", "main") >>
           c == CancelOps("main")
           e == << Op("semdel", "main"), Op("seminit", "main") >>
<1>1. /\ Op("stop", "load") \in Ops /\ Op("disable", "load") \in Ops /\ Op("clear", "load") \in Ops
      /\ Op("semdel", "load") \in Ops /\ Op("stop", "main") \in Ops /\ Op("disable", "main") \in Ops
      /\ Op("clear", "main") \in Ops /\ Op("semdel", "main") \in Ops
      /\ Op("seminit", "main") \in Ops
  BY OpIn DEF OpNames, Dev
<1>2. s \in Seq(Ops) /\ c \in Seq(Ops) /\ e \in Seq(Ops)
  BY <1>1 DEF CancelOps
<1>3. x \in Seq(Ops)
  BY <1>1 DEF CancelOps
<1>4. e = DSemDelOn
  <2>1. << >> \in Seq(Ops)
    OBVIOUS
  <2>2. e \o << >> = << Op("semdel", "main") >> \o (<< Op("seminit", "main") >> \o << >>)
    BY <1>1, <2>1, Cons2
  <2>3. e \o << >> = e /\ << Op("seminit", "main") >> \o << >> = << Op("seminit", "main") >>
    BY <1>1
  <2> QED BY <2>2, <2>3 DEF DSemDelOn, DSemInitOn
<1>5. c \o e = DDisableOn
  <2>1. DSemDelOn \in Seq(Ops)
    BY Codes
  <2>2. << Op("disable", "main"), Op("clear", "main") >> \o DSemDelOn
        = << Op("disable", "main") >> \o (<< Op("clear", "main") >> \o DSemDelOn)
    BY <1>1, <2>1, Cons2
  <2> QED BY <1>4, <2>2 DEF CancelOps, DDisableOn, DClearOn
<1>6. s \o DDisableOn = DStopOn
  BY DEF DStopOn
<1>7. x \o DStopOn = IF l THEN DLoadStopOn ELSE DStopOn
  <2>1. DStopOn \in Seq(Ops)
    BY Codes
  <2>2. CASE l = TRUE
    <3> DEFINE a == <<Op("stop", "load")>>
               b == CancelOps("load")
               d == <<Op("semdel", "load")>>
    <3>1. a \in Seq(Ops) /\ b \in Seq(Ops) /\ d \in Seq(Ops)
      BY <1>1 DEF CancelOps
    <3>2. d \o DStopOn = DLoadSemDelOn /\ DLoadSemDelOn \in Seq(Ops)
      BY Codes DEF DLoadSemDelOn
    <3>3. b \o DLoadSemDelOn = DLoadDisableOn
      <4>1. <<Op("disable", "load"), Op("clear", "load")>> \o DLoadSemDelOn
            = <<Op("disable", "load")>> \o (<<Op("clear", "load")>> \o DLoadSemDelOn)
        BY <1>1, <3>2, Cons2, ZenonT(40)
      <4> QED BY <4>1 DEF CancelOps, DLoadDisableOn, DLoadClearOn
    <3>4. a \o DLoadDisableOn = DLoadStopOn
      BY DEF DLoadStopOn
    <3>5. x = (a \o b) \o d
      BY <2>2
    <3> HIDE DEF a, b, d
    <3>6. ((a \o b) \o d) \o DStopOn = (a \o b) \o (d \o DStopOn)
      <4> DEFINE v == a \o b
      <4>1. v \in Seq(Ops)
        BY <3>1
      <4> HIDE DEF v
      <4>2. (v \o d) \o DStopOn = v \o (d \o DStopOn)
        BY <2>1, <3>1, <4>1, SMTT(30)
      <4> QED BY <4>2 DEF v
    <3>7. (a \o b) \o DLoadSemDelOn = a \o (b \o DLoadSemDelOn)
      BY <3>1, <3>2, SMTT(30)
    <3> QED BY <2>2, <3>2, <3>3, <3>4, <3>5, <3>6, <3>7
  <2>3. CASE l = FALSE
    <3>1. << >> \o DStopOn = DStopOn
      BY <2>1
    <3> QED BY <2>3, <3>1
  <2> QED BY <2>2, <2>3
<1>8. Destroy(l) = ((x \o s) \o c) \o e
  BY DEF Destroy
<1> HIDE DEF x, s, c, e
<1>9. ((x \o s) \o c) \o e = (x \o s) \o (c \o e)
  <2>1. x \o s \in Seq(Ops)
    BY <1>2, <1>3
  <2> DEFINE u == x \o s
  <2> HIDE DEF u
  <2>2. (u \o c) \o e = u \o (c \o e)
    BY <2>1, <1>2 DEF u
  <2> QED BY <2>2 DEF u
<1>10. (x \o s) \o DDisableOn = x \o (s \o DDisableOn)
  <2>1. DDisableOn \in Seq(Ops)
    BY Codes
  <2> QED BY <1>2, <1>3, <2>1
<1> QED BY <1>5, <1>6, <1>7, <1>8, <1>9, <1>10

(* Which step is the next.                                                 *)
LEMMA AtIs ==
    ASSUME NEW a, NEW d, todo # << >>, Head(todo) = Op(a, d)
    PROVE  /\ Head(todo).op = a /\ Head(todo).dev = d
           /\ \A b, e : At(b, e) <=> b = a /\ e = d
BY DEF At, Op

(* What remains after a step; a test that is over starts again.            *)
LEMMA OnwardIs ==
    ASSUME NEW t \in Seq(Ops), Tail(todo) = t, tc_load \in BOOLEAN, Onward
    PROVE  /\ t # << >> => todo' = t
           /\ t = << >> => todo' = StartOn(tc_load)
BY TestCode DEF Onward

(* benchmark_task goes from place to place.                                *)
LEMMA BenchmarkSteps ==
    ASSUME NEW p \in Places, TaskAt(p), ~crashed, tc_load \in BOOLEAN, Benchmark,
           p = "claim" => CanClaim("main"), p = "load claim" => CanClaim("load")
    PROVE  \E q \in Places : TaskAt(q)' /\ TaskStep(p, q)
<1> DEFINE Goal == \E q \in Places : TaskAt(q)' /\ TaskStep(p, q)
<1>0. script = << >> /\ todo # << >> /\ InTask /\ lag' = 0 /\ tc_load' = tc_load /\ script' = script
  BY Heads DEF Benchmark, Drive, InitLoadSem, Program, Take, TimeOut, ReadNow, TakeLoad, CanRun, Ran
<1>1. CASE p = "start"
  <2>1. Head(todo) = Op("start", "main") /\ Tail(todo) = (IF tc_load THEN LoadStartOn ELSE ProgOn)
    BY <1>1, Heads
  <2>2. Head(todo).op = "start" /\ Head(todo).dev = "main"
        /\ \A b, e : At(b, e) <=> b = "start" /\ e = "main"
    BY <1>0, <2>1, AtIs
  <2>3. Drive
    BY <2>2 DEF Benchmark, InitLoadSem, Program, Take, TimeOut, ReadNow, TakeLoad
  <2>4. Driver(Op("start", "main")) /\ Onward /\ UNCHANGED crashed
    BY <1>1, <2>1, <2>2, <2>3 DEF Drive
  <2>5. /\ Start("main")
        /\ early' = early
        /\ UNCHANGED <<setting, isr, now, wait, sem, irq_load_sem, exists, time_prog, time_irq,
             start>>
    BY <2>4, DriverIs DEF Dev, DriverOps
  <2>6. todo' = IF tc_load THEN LoadStartOn ELSE ProgOn
    BY <2>1, <2>4, OnwardIs, Codes, NotEmpty
  <2>7. \E q \in Places : q = (IF tc_load THEN "load start" ELSE "prog") /\ TaskAt(q)'
    BY <1>0, <2>6 DEF TaskAt, Places, LoadSetup, Rounds
  <2>8. CallStep(p, IF tc_load THEN "load start" ELSE "prog")
    BY <1>0, <1>1, <2>5 DEF CallStep, Calls
  <2> QED BY <1>0, <2>4, <2>5, <2>7, <2>8 DEF TaskStep
<1>2. CASE p = "load start"
  <2>1. Head(todo) = Op("start", "load") /\ Tail(todo) = LoadClaimOn
    BY <1>2, Heads
  <2>2. Head(todo).op = "start" /\ Head(todo).dev = "load"
        /\ \A b, e : At(b, e) <=> b = "start" /\ e = "load"
    BY <1>0, <2>1, AtIs
  <2>3. Drive
    BY <2>2 DEF Benchmark, InitLoadSem, Program, Take, TimeOut, ReadNow, TakeLoad
  <2>4. Driver(Op("start", "load")) /\ Onward /\ UNCHANGED crashed
    BY <1>2, <2>1, <2>2, <2>3 DEF Drive
  <2>5. /\ Start("load")
        /\ early' = early
        /\ UNCHANGED <<setting, isr, now, wait, sem, irq_load_sem, exists, time_prog, time_irq,
             start>>
    BY <2>4, DriverIs DEF Dev, DriverOps
  <2>6. todo' = LoadClaimOn
    BY <2>1, <2>4, OnwardIs, Codes, NotEmpty
  <2>a. tc_load
    BY <1>2 DEF TaskAt
  <2>7. "load claim" \in Places /\ TaskAt("load claim")'
    BY <1>0, <2>6, <2>a DEF TaskAt, Places, LoadSetup, Rounds
  <2>8. CallStep(p, "load claim")
    BY <1>0, <1>2, <2>5 DEF CallStep, Calls
  <2> QED BY <1>0, <2>4, <2>5, <2>7, <2>8 DEF TaskStep
<1>3. CASE p = "load claim"
  <2>1. Head(todo) = Op("claim", "load") /\ Tail(todo) = LoadEnableOn
    BY <1>3, Heads
  <2>2. Head(todo).op = "claim" /\ Head(todo).dev = "load"
        /\ \A b, e : At(b, e) <=> b = "claim" /\ e = "load"
    BY <1>0, <2>1, AtIs
  <2>3. Drive
    BY <2>2 DEF Benchmark, InitLoadSem, Program, Take, TimeOut, ReadNow, TakeLoad
  <2>4. Driver(Op("claim", "load")) /\ Onward /\ UNCHANGED crashed
    BY <1>3, <2>1, <2>2, <2>3 DEF Drive
  <2>5. /\ Claim("load", "spin", "relative", LoadTicks)
        /\ early' = [early EXCEPT !["load"] = hw["load"].flag]
        /\ UNCHANGED <<setting, isr, now, wait, sem, irq_load_sem, exists, time_prog, time_irq,
             start>>
    BY <2>4, DriverIs DEF Dev, DriverOps
  <2>6. todo' = LoadEnableOn
    BY <2>1, <2>4, OnwardIs, Codes, NotEmpty
  <2>a. tc_load
    BY <1>3 DEF TaskAt
  <2>7. "load enable" \in Places /\ TaskAt("load enable")'
    BY <1>0, <2>6, <2>a DEF TaskAt, Places, LoadSetup, Rounds
  <2>8. CallStep(p, "load enable")
    BY <1>0, <1>3, <2>5 DEF CallStep, Calls
  <2> QED BY <1>0, <2>4, <2>5, <2>7, <2>8 DEF TaskStep
<1>4. CASE p = "load enable"
  <2>1. Head(todo) = Op("enable", "load") /\ Tail(todo) = LoadCompareOn
    BY <1>4, Heads
  <2>2. Head(todo).op = "enable" /\ Head(todo).dev = "load"
        /\ \A b, e : At(b, e) <=> b = "enable" /\ e = "load"
    BY <1>0, <2>1, AtIs
  <2>3. Drive
    BY <2>2 DEF Benchmark, InitLoadSem, Program, Take, TimeOut, ReadNow, TakeLoad
  <2>4. Driver(Op("enable", "load")) /\ Onward /\ UNCHANGED crashed
    BY <1>4, <2>1, <2>2, <2>3 DEF Drive
  <2>5. /\ EnableIrq("load")
        /\ early' = early
        /\ UNCHANGED <<setting, isr, now, wait, sem, irq_load_sem, exists, time_prog, time_irq,
             start>>
    BY <2>4, DriverIs DEF Dev, DriverOps
  <2>6. todo' = LoadCompareOn
    BY <2>1, <2>4, OnwardIs, Codes, NotEmpty
  <2>a. tc_load
    BY <1>4 DEF TaskAt
  <2>7. "load compare" \in Places /\ TaskAt("load compare")'
    BY <1>0, <2>6, <2>a DEF TaskAt, Places, LoadSetup, Rounds
  <2>8. CallStep(p, "load compare")
    BY <1>0, <1>4, <2>5 DEF CallStep, Calls
  <2> QED BY <1>0, <2>4, <2>5, <2>7, <2>8 DEF TaskStep
<1>5. CASE p = "load compare"
  <2>1. Head(todo) = Op("compare", "load") /\ Tail(todo) = SemInitOn
    BY <1>5, Heads
  <2>2. Head(todo).op = "compare" /\ Head(todo).dev = "load"
        /\ \A b, e : At(b, e) <=> b = "compare" /\ e = "load"
    BY <1>0, <2>1, AtIs
  <2>3. Drive
    BY <2>2 DEF Benchmark, InitLoadSem, Program, Take, TimeOut, ReadNow, TakeLoad
  <2>4. Driver(Op("compare", "load")) /\ Onward /\ UNCHANGED crashed
    BY <1>5, <2>1, <2>2, <2>3 DEF Drive
  <2>5. /\ SetCompare("load")
        /\ early' = early
        /\ UNCHANGED <<setting, isr, now, wait, sem, irq_load_sem, exists, time_prog, time_irq,
             start>>
    BY <2>4, DriverIs DEF Dev, DriverOps
  <2>6. todo' = SemInitOn
    BY <2>1, <2>4, OnwardIs, Codes, NotEmpty
  <2>a. tc_load
    BY <1>5 DEF TaskAt
  <2>7. "seminit" \in Places /\ TaskAt("seminit")'
    BY <1>0, <2>6, <2>a DEF TaskAt, Places, LoadSetup, Rounds
  <2>8. CallStep(p, "seminit")
    BY <1>0, <1>5, <2>5 DEF CallStep, Calls
  <2> QED BY <1>0, <2>4, <2>5, <2>7, <2>8 DEF TaskStep
<1>6. CASE p = "seminit"
  <2>1. Head(todo) = Op("seminit", "load") /\ Tail(todo) = ProgOn
    BY <1>6, Heads
  <2>2. Head(todo).op = "seminit" /\ Head(todo).dev = "load"
        /\ \A b, e : At(b, e) <=> b = "seminit" /\ e = "load"
    BY <1>0, <2>1, AtIs
  <2>3. InitLoadSem
    BY <2>2 DEF Benchmark, Drive, DriverOps, Program, Take, TimeOut, ReadNow, TakeLoad
  <2>4. Onward
    BY <2>3 DEF InitLoadSem
  <2>6. todo' = ProgOn
    BY <2>1, <2>4, OnwardIs, Codes, NotEmpty
  <2>7. "prog" \in Places /\ TaskAt("prog")'
    BY <1>0, <2>6 DEF TaskAt, Places, Rounds, Measures
  <2>8. OtherStep(p, "prog") /\ UNCHANGED <<setting, isr, now, start, crashed>>
    BY <1>0, <1>6, <2>1, <2>2, <2>3 DEF InitLoadSem, OtherStep, Others, Untouched, SetSem, Op
  <2> QED BY <1>0, <2>7, <2>8 DEF TaskStep
<1>7. CASE p = "prog"
  <2>1. Head(todo) = Op("prog", "main") /\ Tail(todo) = ClaimOn
    BY <1>7, Heads
  <2>2. Head(todo).op = "prog" /\ Head(todo).dev = "main"
        /\ \A b, e : At(b, e) <=> b = "prog" /\ e = "main"
    BY <1>0, <2>1, AtIs
  <2>3. Program
    BY <2>2 DEF Benchmark, Drive, DriverOps, InitLoadSem, Take, TimeOut, ReadNow, TakeLoad
  <2>4. Onward
    BY <2>3 DEF Program
  <2>6. todo' = ClaimOn
    BY <2>1, <2>4, OnwardIs, Codes, NotEmpty
  <2>7. "claim" \in Places /\ TaskAt("claim")'
    BY <1>0, <2>6 DEF TaskAt, Places, Rounds, Measures
  <2>8. OtherStep(p, "claim") /\ UNCHANGED <<setting, isr, now, start, crashed>>
    BY <1>0, <1>7, <2>1, <2>2, <2>3 DEF Program, OtherStep, Others, Untouched, SetSem, Op
  <2> QED BY <1>0, <2>7, <2>8 DEF TaskStep
<1>8. CASE p = "claim"
  <2>1. Head(todo) = Op("claim", "main") /\ Tail(todo) = EnableOn
    BY <1>8, Heads
  <2>2. Head(todo).op = "claim" /\ Head(todo).dev = "main"
        /\ \A b, e : At(b, e) <=> b = "claim" /\ e = "main"
    BY <1>0, <2>1, AtIs
  <2>3. Drive
    BY <2>2 DEF Benchmark, InitLoadSem, Program, Take, TimeOut, ReadNow, TakeLoad
  <2>4. Driver(Op("claim", "main")) /\ Onward /\ UNCHANGED crashed
    BY <1>8, <2>1, <2>2, <2>3 DEF Drive
  <2>5. /\ Claim("main", "latency", "absolute", time_prog)
        /\ early' = [early EXCEPT !["main"] = hw["main"].flag]
        /\ UNCHANGED <<setting, isr, now, wait, sem, irq_load_sem, exists, time_prog, time_irq,
             start>>
    BY <2>4, DriverIs DEF Dev, DriverOps
  <2>6. todo' = EnableOn
    BY <2>1, <2>4, OnwardIs, Codes, NotEmpty
  <2>7. "enable" \in Places /\ TaskAt("enable")'
    BY <1>0, <2>6 DEF TaskAt, Places, LoadSetup, Rounds
  <2>8. CallStep(p, "enable")
    BY <1>0, <1>8, <2>5 DEF CallStep, Calls
  <2> QED BY <1>0, <2>4, <2>5, <2>7, <2>8 DEF TaskStep
<1>9. CASE p = "enable"
  <2>1. Head(todo) = Op("enable", "main") /\ Tail(todo) = CompareOn
    BY <1>9, Heads
  <2>2. Head(todo).op = "enable" /\ Head(todo).dev = "main"
        /\ \A b, e : At(b, e) <=> b = "enable" /\ e = "main"
    BY <1>0, <2>1, AtIs
  <2>3. Drive
    BY <2>2 DEF Benchmark, InitLoadSem, Program, Take, TimeOut, ReadNow, TakeLoad
  <2>4. Driver(Op("enable", "main")) /\ Onward /\ UNCHANGED crashed
    BY <1>9, <2>1, <2>2, <2>3 DEF Drive
  <2>5. /\ EnableIrq("main")
        /\ early' = early
        /\ UNCHANGED <<setting, isr, now, wait, sem, irq_load_sem, exists, time_prog, time_irq,
             start>>
    BY <2>4, DriverIs DEF Dev, DriverOps
  <2>6. todo' = CompareOn
    BY <2>1, <2>4, OnwardIs, Codes, NotEmpty
  <2>7. "compare" \in Places /\ TaskAt("compare")'
    BY <1>0, <2>6 DEF TaskAt, Places, LoadSetup, Rounds
  <2>8. CallStep(p, "compare")
    BY <1>0, <1>9, <2>5 DEF CallStep, Calls
  <2> QED BY <1>0, <2>4, <2>5, <2>7, <2>8 DEF TaskStep
<1>10. CASE p = "compare"
  <2>1. Head(todo) = Op("compare", "main") /\ Tail(todo) = TakeOn
    BY <1>10, Heads
  <2>2. Head(todo).op = "compare" /\ Head(todo).dev = "main"
        /\ \A b, e : At(b, e) <=> b = "compare" /\ e = "main"
    BY <1>0, <2>1, AtIs
  <2>3. Drive
    BY <2>2 DEF Benchmark, InitLoadSem, Program, Take, TimeOut, ReadNow, TakeLoad
  <2>4. Driver(Op("compare", "main")) /\ Onward /\ UNCHANGED crashed
    BY <1>10, <2>1, <2>2, <2>3 DEF Drive
  <2>5. /\ SetCompare("main")
        /\ early' = early
        /\ UNCHANGED <<setting, isr, now, wait, sem, irq_load_sem, exists, time_prog, time_irq,
             start>>
    BY <2>4, DriverIs DEF Dev, DriverOps
  <2>6. todo' = TakeOn
    BY <2>1, <2>4, OnwardIs, Codes, NotEmpty
  <2>7. "take" \in Places /\ TaskAt("take")'
    BY <1>0, <2>6 DEF TaskAt, Places, LoadSetup, Rounds
  <2>8. CallStep(p, "take")
    BY <1>0, <1>10, <2>5 DEF CallStep, Calls
  <2> QED BY <1>0, <2>4, <2>5, <2>7, <2>8 DEF TaskStep
<1>11. CASE p = "take"
  <2>1. Head(todo) = Op("take", "main") /\ Tail(todo) = << >>
    BY <1>11, Heads
  <2>2. Head(todo).op = "take" /\ Head(todo).dev = "main"
        /\ \A b, e : At(b, e) <=> b = "take" /\ e = "main"
    BY <1>0, <2>1, AtIs
  <2>3. CASE Take
    <3>1. todo' = NowOn(tc_load)
      BY <2>3, MeasureCode DEF Take
    <3>2. "now" \in Places /\ TaskAt("now")'
      BY <1>0, <3>1 DEF TaskAt, Places, Measures
    <3>3. OtherStep(p, "now") /\ UNCHANGED <<setting, isr, now, start, crashed>>
      BY <1>0, <1>11, <2>3 DEF Take, OtherStep, Others, Untouched
    <3> QED BY <1>0, <3>2, <3>3 DEF TaskStep
  <2>4. CASE TimeOut
    <3>1. todo' = DisableOn
      BY <2>4, RetryCode DEF TimeOut
    <3>2. "disable" \in Places /\ TaskAt("disable")'
      BY <1>0, <3>1 DEF TaskAt, Places, Rounds
    <3>3. OtherStep(p, "disable") /\ UNCHANGED <<setting, isr, now, start, crashed>>
      BY <1>0, <1>11, <2>4 DEF TimeOut, OtherStep, Others, Untouched
    <3> QED BY <1>0, <3>2, <3>3 DEF TaskStep
  <2> QED BY <2>2, <2>3, <2>4
      DEF Benchmark, Drive, DriverOps, InitLoadSem, Program, ReadNow, TakeLoad
<1>12. CASE p = "disable"
  <2>1. Head(todo) = Op("disable", "main") /\ Tail(todo) = ClearOn
    BY <1>12, Heads
  <2>2. Head(todo).op = "disable" /\ Head(todo).dev = "main"
        /\ \A b, e : At(b, e) <=> b = "disable" /\ e = "main"
    BY <1>0, <2>1, AtIs
  <2>3. Drive
    BY <2>2 DEF Benchmark, InitLoadSem, Program, Take, TimeOut, ReadNow, TakeLoad
  <2>4. Driver(Op("disable", "main")) /\ Onward /\ UNCHANGED crashed
    BY <1>12, <2>1, <2>2, <2>3 DEF Drive
  <2>5. /\ DisableIrq("main")
        /\ early' = early
        /\ UNCHANGED <<setting, isr, now, wait, sem, irq_load_sem, exists, time_prog, time_irq,
             start>>
    BY <2>4, DriverIs DEF Dev, DriverOps
  <2>6. todo' = ClearOn
    BY <2>1, <2>4, OnwardIs, Codes, NotEmpty
  <2>7. "clear" \in Places /\ TaskAt("clear")'
    BY <1>0, <2>6 DEF TaskAt, Places, LoadSetup, Rounds
  <2>8. CallStep(p, "clear")
    BY <1>0, <1>12, <2>5 DEF CallStep, Calls
  <2> QED BY <1>0, <2>4, <2>5, <2>7, <2>8 DEF TaskStep
<1>13. CASE p = "clear"
  <2>1. Head(todo) = Op("clear", "main") /\ Tail(todo) = ProgOn
    BY <1>13, Heads
  <2>2. Head(todo).op = "clear" /\ Head(todo).dev = "main"
        /\ \A b, e : At(b, e) <=> b = "clear" /\ e = "main"
    BY <1>0, <2>1, AtIs
  <2>3. Drive
    BY <2>2 DEF Benchmark, InitLoadSem, Program, Take, TimeOut, ReadNow, TakeLoad
  <2>4. Driver(Op("clear", "main")) /\ Onward /\ UNCHANGED crashed
    BY <1>13, <2>1, <2>2, <2>3 DEF Drive
  <2>5. /\ CancelAlarm("main")
        /\ early' = early
        /\ UNCHANGED <<setting, isr, now, wait, sem, irq_load_sem, exists, time_prog, time_irq,
             start>>
    BY <2>4, DriverIs DEF Dev, DriverOps
  <2>6. todo' = ProgOn
    BY <2>1, <2>4, OnwardIs, Codes, NotEmpty
  <2>7. "prog" \in Places /\ TaskAt("prog")'
    BY <1>0, <2>6 DEF TaskAt, Places, LoadSetup, Rounds
  <2>8. CallStep(p, "prog")
    BY <1>0, <1>13, <2>5 DEF CallStep, Calls
  <2> QED BY <1>0, <2>4, <2>5, <2>7, <2>8 DEF TaskStep
<1>14. CASE p = "now"
  <2>1. Head(todo) = Op("now", "main") /\ Tail(todo) = StopOn(tc_load)
    BY <1>14, Heads
  <2>2. Head(todo).op = "now" /\ Head(todo).dev = "main"
        /\ \A b, e : At(b, e) <=> b = "now" /\ e = "main"
    BY <1>0, <2>1, AtIs
  <2>3. ReadNow
    BY <2>2 DEF Benchmark, Drive, DriverOps, InitLoadSem, Program, Take, TimeOut, TakeLoad
  <2>4. Onward
    BY <2>3 DEF ReadNow
  <2>6. todo' = StopOn(tc_load)
    BY <2>1, <2>4, OnwardIs, Codes, NotEmpty
  <2>7. "stop" \in Places /\ TaskAt("stop")'
    BY <1>0, <2>6 DEF TaskAt, Places, Rounds, Measures
  <2>8. OtherStep(p, "stop") /\ UNCHANGED <<setting, isr, now, start, crashed>>
    BY <1>0, <1>14, <2>1, <2>2, <2>3 DEF ReadNow, OtherStep, Others, Untouched, SetSem, Op
  <2> QED BY <1>0, <2>7, <2>8 DEF TaskStep
<1>15. CASE p = "stop"
  <2>1. Head(todo) = Op("stop", "main") /\ Tail(todo) = (IF tc_load THEN LoadTakeOn ELSE << >>)
    BY <1>15, Heads
  <2>2. Head(todo).op = "stop" /\ Head(todo).dev = "main"
        /\ \A b, e : At(b, e) <=> b = "stop" /\ e = "main"
    BY <1>0, <2>1, AtIs
  <2>3. Drive
    BY <2>2 DEF Benchmark, InitLoadSem, Program, Take, TimeOut, ReadNow, TakeLoad
  <2>4. Driver(Op("stop", "main")) /\ Onward /\ UNCHANGED crashed
    BY <1>15, <2>1, <2>2, <2>3 DEF Drive
  <2>5. /\ Stop("main")
        /\ early' = early
        /\ UNCHANGED <<setting, isr, now, wait, sem, irq_load_sem, exists, time_prog, time_irq,
             start>>
    BY <2>4, DriverIs DEF Dev, DriverOps
  <2>6. todo' = IF tc_load THEN LoadTakeOn ELSE StartOn(tc_load)
    <3>1. CASE tc_load
      BY <3>1, <2>1, <2>4, OnwardIs, Codes, NotEmpty
    <3>2. CASE ~tc_load
      <4>1. << >> \in Seq(Ops)
        BY NoneLeft
      <4> QED BY <3>2, <4>1, <2>1, <2>4, OnwardIs
    <3> QED BY <3>1, <3>2
  <2>7. \E q \in Places : q = (IF tc_load THEN "load take" ELSE "start") /\ TaskAt(q)'
    BY <1>0, <2>6 DEF TaskAt, Places, Measures
  <2>8. CallStep(p, IF tc_load THEN "load take" ELSE "start")
    BY <1>0, <1>15, <2>5 DEF CallStep, Calls
  <2> QED BY <1>0, <2>4, <2>5, <2>7, <2>8 DEF TaskStep
<1>16. CASE p = "load take"
  <2>1. Head(todo) = Op("take", "load") /\ Tail(todo) = << >>
    BY <1>16, Heads
  <2>2. Head(todo).op = "take" /\ Head(todo).dev = "load"
        /\ \A b, e : At(b, e) <=> b = "take" /\ e = "load"
    BY <1>0, <2>1, AtIs
  <2>3. TakeLoad
    BY <2>2 DEF Benchmark, Drive, DriverOps, InitLoadSem, Program, Take, TimeOut, ReadNow
  <2>4. Onward
    BY <2>3 DEF TakeLoad
  <2>5. << >> \in Seq(Ops)
    BY NoneLeft
  <2>6. todo' = StartOn(tc_load)
    BY <2>1, <2>4, <2>5, OnwardIs
  <2>7. "start" \in Places /\ TaskAt("start")'
    BY <1>0, <2>6 DEF TaskAt, Places, Rounds, Measures
  <2>8. OtherStep(p, "start") /\ UNCHANGED <<setting, isr, now, start, crashed>>
    BY <1>0, <1>16, <2>1, <2>2, <2>3 DEF TakeLoad, OtherStep, Others, Untouched, SetSem, Op
  <2> QED BY <1>0, <2>7, <2>8 DEF TaskStep
<1> QED BY <1>1, <1>2, <1>3, <1>4, <1>5, <1>6, <1>7, <1>8, <1>9, <1>10, <1>11, <1>12, <1>13,
    <1>14, <1>15, <1>16 DEF TaskAt

(* main_task deletes the test where it is blocked, ...                     *)
LEMMA DeleteSteps ==
    ASSUME NEW p \in Places, TaskAt(p) \/ ScriptAt(p), ~crashed, tc_load \in BOOLEAN, Delete
    PROVE  \E q \in Places : ScriptAt(q)' /\ TaskStep(p, q)
<1>1. TaskAt(p) /\ script = << >>
  BY ScriptHeads DEF Delete
<1>2. p \in {"take", "load take"}
  <2>1. At("take", "main") \/ At("take", "load")
    BY DEF Delete, Blocked
  <2>2. todo # << >> /\ Head(todo).op = "take"
    BY <2>1 DEF At, Op
  <2>3. \A a, d : Op(a, d).op = a
    BY DEF Op
  <2>4. /\ p = "start" \/ p = "load start" => Head(todo).op = "start"
        /\ p = "load claim" \/ p = "claim" => Head(todo).op = "claim"
        /\ p = "load enable" \/ p = "enable" => Head(todo).op = "enable"
        /\ p = "load compare" \/ p = "compare" => Head(todo).op = "compare"
        /\ p = "seminit" => Head(todo).op = "seminit"
        /\ p = "prog" => Head(todo).op = "prog"
        /\ p = "disable" => Head(todo).op = "disable"
        /\ p = "clear" => Head(todo).op = "clear"
        /\ p = "now" => Head(todo).op = "now"
        /\ p = "stop" => Head(todo).op = "stop"
    BY <1>1, <2>3, Heads
  <2> QED BY <1>1, <2>2, <2>4 DEF TaskAt
<1>3. /\ InTask /\ lag' = 0 /\ UNCHANGED <<setting, isr, now, start, crashed, tc_load>>
      /\ todo' = << >> /\ script' = IF tc_load THEN DLoadStopOn ELSE DStopOn
  BY DestroyCode DEF Delete, CanRun, Untouched, Ran
<1>4. \E q \in Places : q = (IF tc_load THEN "d load stop" ELSE "d stop") /\ ScriptAt(q)'
  BY <1>3 DEF ScriptAt, Places, DLoad, DMain
<1>5. OtherStep(p, IF tc_load THEN "d load stop" ELSE "d stop")
  BY <1>2, <1>3 DEF OtherStep, Others, Delete, Untouched
<1> QED BY <1>3, <1>4, <1>5 DEF TaskStep

(* ... and undoes what it had set up.                                      *)
LEMMA DestroySteps ==
    ASSUME NEW p \in Places, TaskAt(p) \/ ScriptAt(p), ~crashed, tc_load \in BOOLEAN,
           setting.load \in BOOLEAN, DestroyStep
    PROVE  \E q \in Places : (TaskAt(q) \/ ScriptAt(q))' /\ TaskStep(p, q)
<1>0. ScriptAt(p) /\ todo = << >> /\ script # << >>
  BY Heads, ScriptHeads DEF DestroyStep
<1>1. InTask /\ lag' = 0 /\ UNCHANGED crashed /\ script' = Tail(script)
  BY DEF DestroyStep, CanRun, Ran
<1>s. \A a \in OpNames, d \in Dev : SetSem(Op(a, d)) =>
        /\ exists' = [exists EXCEPT ![d] = a = "seminit"]
        /\ IF d = "main" THEN sem' = 0 /\ UNCHANGED irq_load_sem
           ELSE irq_load_sem' = 0 /\ UNCHANGED sem
        /\ UNCHANGED <<setting, hw, alarm, next, isr, now, wait, time_prog, time_irq, start, early>>
  BY DEF SetSem, Op, Untouched
<1>2. CASE p = "d load stop"
  <2>1. Head(script) = Op("stop", "load") /\ Tail(script) = DLoadDisableOn
    BY <1>0, <1>2, ScriptHeads
  <2>2. Head(script).op = "stop"
    BY <2>1 DEF Op
  <2>3. Tail(script) # << >>
    BY <2>1, NotEmpty
  <2>4. todo' = << >> /\ tc_load' = tc_load
    BY <1>0, <2>3 DEF DestroyStep
  <2>a. tc_load
    BY <1>0, <1>2 DEF ScriptAt
  <2>5. "d load disable" \in Places /\ ScriptAt("d load disable")'
    BY <1>1, <2>1, <2>4, <2>a DEF ScriptAt, Places, DLoad, DMain
  <2>6. Driver(Op("stop", "load"))
    BY <2>1, <2>2 DEF DestroyStep, DriverOps
  <2>7. Stop("load") /\ early' = early
        /\ UNCHANGED <<setting, isr, now, wait, sem, irq_load_sem, exists, time_prog, time_irq,
             start>>
    BY <2>6, DriverIs DEF Dev, DriverOps
  <2>8. CallStep(p, "d load disable")
    BY <1>2, <2>4, <2>7 DEF CallStep, Calls
  <2> QED BY <1>1, <2>5, <2>7, <2>8 DEF TaskStep
<1>3. CASE p = "d load disable"
  <2>1. Head(script) = Op("disable", "load") /\ Tail(script) = DLoadClearOn
    BY <1>0, <1>3, ScriptHeads
  <2>2. Head(script).op = "disable"
    BY <2>1 DEF Op
  <2>3. Tail(script) # << >>
    BY <2>1, NotEmpty
  <2>4. todo' = << >> /\ tc_load' = tc_load
    BY <1>0, <2>3 DEF DestroyStep
  <2>a. tc_load
    BY <1>0, <1>3 DEF ScriptAt
  <2>5. "d load clear" \in Places /\ ScriptAt("d load clear")'
    BY <1>1, <2>1, <2>4, <2>a DEF ScriptAt, Places, DLoad, DMain
  <2>6. Driver(Op("disable", "load"))
    BY <2>1, <2>2 DEF DestroyStep, DriverOps
  <2>7. DisableIrq("load") /\ early' = early
        /\ UNCHANGED <<setting, isr, now, wait, sem, irq_load_sem, exists, time_prog, time_irq,
             start>>
    BY <2>6, DriverIs DEF Dev, DriverOps
  <2>8. CallStep(p, "d load clear")
    BY <1>3, <2>4, <2>7 DEF CallStep, Calls
  <2> QED BY <1>1, <2>5, <2>7, <2>8 DEF TaskStep
<1>4. CASE p = "d load clear"
  <2>1. Head(script) = Op("clear", "load") /\ Tail(script) = DLoadSemDelOn
    BY <1>0, <1>4, ScriptHeads
  <2>2. Head(script).op = "clear"
    BY <2>1 DEF Op
  <2>3. Tail(script) # << >>
    BY <2>1, NotEmpty
  <2>4. todo' = << >> /\ tc_load' = tc_load
    BY <1>0, <2>3 DEF DestroyStep
  <2>a. tc_load
    BY <1>0, <1>4 DEF ScriptAt
  <2>5. "d load semdel" \in Places /\ ScriptAt("d load semdel")'
    BY <1>1, <2>1, <2>4, <2>a DEF ScriptAt, Places, DLoad, DMain
  <2>6. Driver(Op("clear", "load"))
    BY <2>1, <2>2 DEF DestroyStep, DriverOps
  <2>7. CancelAlarm("load") /\ early' = early
        /\ UNCHANGED <<setting, isr, now, wait, sem, irq_load_sem, exists, time_prog, time_irq,
             start>>
    BY <2>6, DriverIs DEF Dev, DriverOps
  <2>8. CallStep(p, "d load semdel")
    BY <1>4, <2>4, <2>7 DEF CallStep, Calls
  <2> QED BY <1>1, <2>5, <2>7, <2>8 DEF TaskStep
<1>5. CASE p = "d load semdel"
  <2>1. Head(script) = Op("semdel", "load") /\ Tail(script) = DStopOn
    BY <1>0, <1>5, ScriptHeads
  <2>2. Head(script).op = "semdel"
    BY <2>1 DEF Op
  <2>3. Tail(script) # << >>
    BY <2>1, NotEmpty
  <2>4. todo' = << >> /\ tc_load' = tc_load
    BY <1>0, <2>3 DEF DestroyStep
  <2>a. tc_load
    BY <1>0, <1>5 DEF ScriptAt
  <2>5. "d stop" \in Places /\ ScriptAt("d stop")'
    BY <1>1, <2>1, <2>4, <2>a DEF ScriptAt, Places, DLoad, DMain
  <2>6. SetSem(Op("semdel", "load"))
    BY <2>1, <2>2 DEF DestroyStep, DriverOps
  <2>7. /\ exists' = [exists EXCEPT !["load"] = FALSE]
        /\ irq_load_sem' = 0 /\ UNCHANGED sem
        /\ UNCHANGED <<setting, hw, alarm, next, isr, now, wait, time_prog, time_irq, start, early>>
    BY <2>6, <1>s DEF OpNames, Dev
  <2>8. OtherStep(p, "d stop")
    BY <1>5, <2>4, <2>7 DEF OtherStep, Others
  <2> QED BY <1>1, <2>5, <2>7, <2>8 DEF TaskStep
<1>6. CASE p = "d stop"
  <2>1. Head(script) = Op("stop", "main") /\ Tail(script) = DDisableOn
    BY <1>0, <1>6, ScriptHeads
  <2>2. Head(script).op = "stop"
    BY <2>1 DEF Op
  <2>3. Tail(script) # << >>
    BY <2>1, NotEmpty
  <2>4. todo' = << >> /\ tc_load' = tc_load
    BY <1>0, <2>3 DEF DestroyStep
  <2>5. "d disable" \in Places /\ ScriptAt("d disable")'
    BY <1>1, <2>1, <2>4 DEF ScriptAt, Places, DLoad, DMain
  <2>6. Driver(Op("stop", "main"))
    BY <2>1, <2>2 DEF DestroyStep, DriverOps
  <2>7. Stop("main") /\ early' = early
        /\ UNCHANGED <<setting, isr, now, wait, sem, irq_load_sem, exists, time_prog, time_irq,
             start>>
    BY <2>6, DriverIs DEF Dev, DriverOps
  <2>8. CallStep(p, "d disable")
    BY <1>6, <2>4, <2>7 DEF CallStep, Calls
  <2> QED BY <1>1, <2>5, <2>7, <2>8 DEF TaskStep
<1>7. CASE p = "d disable"
  <2>1. Head(script) = Op("disable", "main") /\ Tail(script) = DClearOn
    BY <1>0, <1>7, ScriptHeads
  <2>2. Head(script).op = "disable"
    BY <2>1 DEF Op
  <2>3. Tail(script) # << >>
    BY <2>1, NotEmpty
  <2>4. todo' = << >> /\ tc_load' = tc_load
    BY <1>0, <2>3 DEF DestroyStep
  <2>5. "d clear" \in Places /\ ScriptAt("d clear")'
    BY <1>1, <2>1, <2>4 DEF ScriptAt, Places, DLoad, DMain
  <2>6. Driver(Op("disable", "main"))
    BY <2>1, <2>2 DEF DestroyStep, DriverOps
  <2>7. DisableIrq("main") /\ early' = early
        /\ UNCHANGED <<setting, isr, now, wait, sem, irq_load_sem, exists, time_prog, time_irq,
             start>>
    BY <2>6, DriverIs DEF Dev, DriverOps
  <2>8. CallStep(p, "d clear")
    BY <1>7, <2>4, <2>7 DEF CallStep, Calls
  <2> QED BY <1>1, <2>5, <2>7, <2>8 DEF TaskStep
<1>8. CASE p = "d clear"
  <2>1. Head(script) = Op("clear", "main") /\ Tail(script) = DSemDelOn
    BY <1>0, <1>8, ScriptHeads
  <2>2. Head(script).op = "clear"
    BY <2>1 DEF Op
  <2>3. Tail(script) # << >>
    BY <2>1, NotEmpty
  <2>4. todo' = << >> /\ tc_load' = tc_load
    BY <1>0, <2>3 DEF DestroyStep
  <2>5. "d semdel" \in Places /\ ScriptAt("d semdel")'
    BY <1>1, <2>1, <2>4 DEF ScriptAt, Places, DLoad, DMain
  <2>6. Driver(Op("clear", "main"))
    BY <2>1, <2>2 DEF DestroyStep, DriverOps
  <2>7. CancelAlarm("main") /\ early' = early
        /\ UNCHANGED <<setting, isr, now, wait, sem, irq_load_sem, exists, time_prog, time_irq,
             start>>
    BY <2>6, DriverIs DEF Dev, DriverOps
  <2>8. CallStep(p, "d semdel")
    BY <1>8, <2>4, <2>7 DEF CallStep, Calls
  <2> QED BY <1>1, <2>5, <2>7, <2>8 DEF TaskStep
<1>9. CASE p = "d semdel"
  <2>1. Head(script) = Op("semdel", "main") /\ Tail(script) = DSemInitOn
    BY <1>0, <1>9, ScriptHeads
  <2>2. Head(script).op = "semdel"
    BY <2>1 DEF Op
  <2>3. Tail(script) # << >>
    BY <2>1, NotEmpty
  <2>4. todo' = << >> /\ tc_load' = tc_load
    BY <1>0, <2>3 DEF DestroyStep
  <2>5. "d seminit" \in Places /\ ScriptAt("d seminit")'
    BY <1>1, <2>1, <2>4 DEF ScriptAt, Places, DLoad, DMain
  <2>6. SetSem(Op("semdel", "main"))
    BY <2>1, <2>2 DEF DestroyStep, DriverOps
  <2>7. /\ exists' = [exists EXCEPT !["main"] = FALSE]
        /\ sem' = 0 /\ UNCHANGED irq_load_sem
        /\ UNCHANGED <<setting, hw, alarm, next, isr, now, wait, time_prog, time_irq, start, early>>
    BY <2>6, <1>s DEF OpNames, Dev
  <2>8. OtherStep(p, "d seminit")
    BY <1>9, <2>4, <2>7 DEF OtherStep, Others
  <2> QED BY <1>1, <2>5, <2>7, <2>8 DEF TaskStep
<1>10. CASE p = "d seminit"
  <2>1. Head(script) = Op("seminit", "main") /\ Tail(script) = << >>
    BY <1>0, <1>10, ScriptHeads
  <2>2. Head(script).op = "seminit"
    BY <2>1 DEF Op
  <2>4. tc_load' \in {FALSE, setting.load} /\ todo' = StartOn(tc_load') /\ script' = << >>
    BY <1>1, <2>1, TestCode DEF DestroyStep
  <2>5. "start" \in Places /\ TaskAt("start")'
    BY <2>4 DEF TaskAt, Places
  <2>6. SetSem(Op("seminit", "main"))
    BY <2>1, <2>2 DEF DestroyStep, DriverOps
  <2>7. /\ exists' = [exists EXCEPT !["main"] = TRUE] /\ sem' = 0
        /\ UNCHANGED <<irq_load_sem, setting, hw, alarm, next, isr, now, wait, time_prog,
             time_irq, start, early>>
    BY <2>6, <1>s DEF OpNames, Dev
  <2>8. OtherStep(p, "start")
    BY <1>10, <2>4, <2>7 DEF OtherStep, Others
  <2> QED BY <1>1, <2>5, <2>7, <2>8 DEF TaskStep
<1> QED BY <1>0, <1>2, <1>3, <1>4, <1>5, <1>6, <1>7, <1>8, <1>9, <1>10 DEF ScriptAt

-----------------------------------------------------------------------------
(* The interrupts' steps, the clock's, and what each does to each field.   *)

(* An interrupt is taken when none is served; it leaves through its        *)
(* callback, if it has one, and resets the alarm last.                     *)
Enters(d) ==
    /\ Pending(d) /\ isr["main"] = "idle" /\ isr["load"] = "idle"
    /\ now' = [now EXCEPT ![d] = hw[d].cnt]
    /\ hw' = [hw EXCEPT ![d] = [@ EXCEPT !.en = FALSE, !.flag = FALSE]]
    /\ isr' = [isr EXCEPT ![d] = IF alarm[d].cb = "none" THEN "reset" ELSE "callback"]
    /\ UNCHANGED <<alarm, sem, irq_load_sem, time_irq, start, crashed>>

Gives ==
    /\ isr["main"] = "callback" /\ alarm["main"].cb = "latency"
    /\ time_irq' = now["main"] /\ sem' = sem + 1
    /\ crashed' = (crashed \/ ~exists["main"])
    /\ isr' = [isr EXCEPT !["main"] = "reset"]
    /\ UNCHANGED <<hw, alarm, now, irq_load_sem, start>>

StartsSpin ==
    /\ isr["load"] = "callback" /\ alarm["load"].cb = "spin"
    /\ start' = hw["load"].cnt
    /\ isr' = [isr EXCEPT !["load"] = "spin"]
    /\ UNCHANGED <<hw, alarm, now, sem, irq_load_sem, time_irq, crashed>>

EndsSpin ==
    /\ isr["load"] = "spin" /\ ~Spinning
    /\ hw' = [hw EXCEPT !["load"].on = FALSE, !["load"].cnt = IF setting.gpt THEN 0 ELSE @]
    /\ start' = 0 /\ irq_load_sem' = irq_load_sem + 1
    /\ crashed' = (crashed \/ ~exists["load"])
    /\ isr' = [isr EXCEPT !["load"] = "reset"]
    /\ UNCHANGED <<alarm, now, sem, time_irq>>

Exits(d) ==
    /\ isr[d] = "reset"
    /\ alarm' = [alarm EXCEPT ![d].cb = "none"]
    /\ isr' = [isr EXCEPT ![d] = "idle"]
    /\ now' = [now EXCEPT ![d] = 0]
    /\ UNCHANGED <<hw, sem, irq_load_sem, time_irq, start, crashed>>

InterruptStep ==
    /\ lag' = 0
    /\ UNCHANGED <<setting, next, tc_load, todo, script, wait, exists, time_prog, early>>
    /\ \/ Enters("main") \/ Enters("load") \/ Gives \/ StartsSpin \/ EndsSpin
       \/ Exits("main") \/ Exits("load")

(* Every interrupt step is one of them.                                    *)
LEMMA InterruptSteps ==
    ASSUME Shape, LatencyInterrupt
    PROVE  InterruptStep
<1>1. ASSUME NEW d \in Dev, LatencyEnter(d) PROVE InterruptStep
  <2>1. d \in {"main", "load"} /\ ~alarm[d].loop
    BY DEF Shape, Dev
  <2>2. Enters(d)
    BY <1>1, <2>1 DEF LatencyEnter, EnterHandler, Enters, Acknowledge, Dev
  <2>3. lag' = 0 /\ UNCHANGED <<setting, next, tc_load, todo, script, wait, exists, time_prog,
          early>>
    BY <1>1 DEF LatencyEnter, EnterHandler, Ran
  <2> QED BY <2>1, <2>2, <2>3 DEF InterruptStep
<1>2. ASSUME NEW d \in Dev, LatencyExit(d) PROVE InterruptStep
  <2>1. d \in {"main", "load"} /\ ~alarm[d].loop
    BY DEF Shape, Dev
  <2>2. Exits(d)
    BY <1>2, <2>1 DEF LatencyExit, ExitHandler, Exits, ResetAlarm, latencyVars
  <2>3. lag' = 0 /\ UNCHANGED <<setting, next, tc_load, todo, script, wait, exists, time_prog,
          early>>
    BY <1>2 DEF LatencyExit, ExitHandler, Ran, latencyVars
  <2> QED BY <2>1, <2>2, <2>3 DEF InterruptStep
<1>3. CASE latency_alarm_handler
  BY <1>3 DEF latency_alarm_handler, InCallback, Return, Ran, InterruptStep, Gives
<1>4. CASE StartSpin
  BY <1>4 DEF StartSpin, InCallback, Ran, InterruptStep, StartsSpin
<1>5. CASE EndSpin
  BY <1>5 DEF EndSpin, Return, Stop, Ran, InterruptStep, EndsSpin
<1> QED BY <1>1, <1>2, <1>3, <1>4, <1>5 DEF LatencyInterrupt

(* What the assumptions say of the setting.                                *)
LEMMA Bounds ==
    ASSUME Shape
    PROVE  /\ Top \in Nat /\ Ticks \in Nat /\ LoadTicks \in Nat /\ Spin \in Nat
           /\ Timeout \in Nat /\ Delay \in Nat
           /\ 1 <= LoadTicks /\ LoadTicks < Ticks /\ Ticks < Timeout /\ 1 <= Spin
           /\ Timeout + Spin + 8 * Delay < Top
           /\ setting.load \in BOOLEAN /\ setting.gpt \in BOOLEAN
           /\ setting.load => 3 * Delay < LoadTicks
<1>1. setting \in Settings /\ setting \in Setting
  BY CounterAssumption DEF Shape, TypeOK, CounterTypeOK
<1> QED BY <1>1, CounterAssumption, LatencyAssumption DEF Setting, Steps, Delay

(* The fields.                                                             *)
LEMMA Fields ==
    ASSUME Shape, NEW d \in Dev
    PROVE  /\ hw[d].cnt \in 0..Top /\ hw[d].cmp \in 0..Top
           /\ hw[d].on \in BOOLEAN /\ hw[d].en \in BOOLEAN /\ hw[d].flag \in BOOLEAN
           /\ next \in 0..Top /\ now[d] \in 0..Top /\ lag \in 0..Delay /\ lag \in Nat
           /\ time_prog \in 0..Top /\ time_irq \in 0..Top /\ start \in 0..Top
           /\ sem \in Nat /\ irq_load_sem \in Nat /\ wait \in 0..Timeout
           /\ exists[d] \in BOOLEAN /\ early[d] \in BOOLEAN
           /\ isr[d] \in {"idle", "callback", "spin", "reset"} /\ alarm[d].cb \in Callbacks
           /\ Top \in Nat /\ Delay \in Nat
<1>1. Delay \in Nat /\ Top \in Nat
  BY Bounds
<1>2. hw[d] \in [cnt : 0..Top, on : BOOLEAN, cmp : 0..Top, en : BOOLEAN, flag : BOOLEAN]
      /\ alarm[d] \in [cb : Callbacks, loop : BOOLEAN, last : 0..Top, ticks : 0..Top]
      /\ now[d] \in 0..Top /\ isr[d] \in {"idle", "callback", "spin", "reset"}
      /\ exists[d] \in BOOLEAN /\ early[d] \in BOOLEAN
  BY DEF Shape, TypeOK, CounterTypeOK
<1>3. lag \in 0..Delay /\ next \in 0..Top /\ wait \in 0..Timeout
      /\ time_prog \in 0..Top /\ time_irq \in 0..Top /\ start \in 0..Top
      /\ sem \in Nat /\ irq_load_sem \in Nat
  BY DEF Shape, TypeOK, CounterTypeOK, Delay
<1> QED BY <1>1, <1>2, <1>3

(* A tick moves the counters that run.                                     *)
TickOf(d) ==
    /\ hw'[d].on = hw[d].on /\ hw'[d].en = hw[d].en /\ hw'[d].cmp = hw[d].cmp
    /\ ~hw[d].on => hw'[d].cnt = hw[d].cnt /\ hw'[d].flag = hw[d].flag
    /\ hw[d].on => /\ hw'[d].cnt = Wrap(hw[d].cnt + 1)
                   /\ hw'[d].flag = (hw[d].flag \/ Wrap(hw[d].cnt + 1) = hw[d].cmp)

(* The clock moves both counters; only the time changes.                   *)
LEMMA TickSteps ==
    ASSUME Shape, LatencyTick
    PROVE  /\ TickOf("main") /\ TickOf("load")
           /\ LatencyBusy => lag < Delay /\ lag' = lag + 1
           /\ ~LatencyBusy => lag' = 0
           /\ UNCHANGED <<setting, alarm, next, isr, now, tc_load, todo, script, sem,
                irq_load_sem, exists,
                          time_prog, time_irq, start, crashed>>
           /\ wait' = IF At("take", "main") /\ wait < Timeout THEN wait + 1 ELSE wait
           /\ \A d \in Dev : early'[d] = (early[d] \/ (Arming(d) /\ hw'[d].flag))
<1>1. hw \in [Dev -> [cnt : 0..Top, on : BOOLEAN, cmp : 0..Top, en : BOOLEAN, flag : BOOLEAN]]
  BY DEF Shape, TypeOK, CounterTypeOK
<1>2. hw' = [d \in Dev |-> Counted(hw[d])]
  BY DEF LatencyTick, Tick
<1>3. ASSUME NEW d \in Dev PROVE TickOf(d)
  <2>1. hw'[d] = Counted(hw[d])
        /\ hw[d] \in [cnt : 0..Top, on : BOOLEAN, cmp : 0..Top, en : BOOLEAN, flag : BOOLEAN]
    BY <1>1, <1>2
  <2> QED BY <2>1 DEF Counted, TickOf
<1>4. "main" \in Dev /\ "load" \in Dev
  BY DEF Dev
<1>5. /\ LatencyBusy => lag < Delay /\ lag' = lag + 1
      /\ ~LatencyBusy => lag' = 0
      /\ UNCHANGED <<setting, alarm, next, isr, now>>
  BY DEF LatencyTick, Tick, Delay
<1>6. /\ UNCHANGED <<tc_load, todo, script, sem, irq_load_sem, exists, time_prog, time_irq,
           start, crashed>>
      /\ wait' = IF At("take", "main") /\ wait < Timeout THEN wait + 1 ELSE wait
  BY DEF LatencyTick
<1>7. \A d \in Dev : early'[d] = (early[d] \/ (Arming(d) /\ hw'[d].flag))
  BY DEF LatencyTick
<1> QED BY <1>3, <1>4, <1>5, <1>6, <1>7

(* A call of the driver, field by field.                                   *)
LEMMA StartEffects ==
    ASSUME Shape, NEW d \in Dev, NEW e \in Dev, Start(d)
    PROVE  /\ hw'[e].on = (IF e = d THEN TRUE ELSE hw[e].on) /\ hw'[e].cnt = hw[e].cnt
              /\ hw'[e].cmp = hw[e].cmp
           /\ hw'[e].en = hw[e].en /\ hw'[e].flag = hw[e].flag
           /\ alarm' = alarm /\ next' = next
<1>1. hw \in [Dev -> [cnt : 0..Top, on : BOOLEAN, cmp : 0..Top, en : BOOLEAN, flag : BOOLEAN]]
      /\ alarm \in [Dev -> [cb : Callbacks, loop : BOOLEAN, last : 0..Top, ticks : 0..Top]]
  BY DEF Shape, TypeOK, CounterTypeOK
<1>2. hw[e] \in [cnt : 0..Top, on : BOOLEAN, cmp : 0..Top, en : BOOLEAN, flag : BOOLEAN]
      /\ Top \in Nat
  BY <1>1, CounterAssumption
<1>3. hw'[e] = IF e = d THEN [hw[e] EXCEPT !.on = TRUE] ELSE hw[e]
  BY <1>1 DEF Start
<1>4. alarm' = alarm /\ next' = next
  BY DEF Start
<1> QED BY <1>1, <1>2, <1>3, <1>4

LEMMA StopEffects ==
    ASSUME Shape, NEW d \in Dev, NEW e \in Dev, Stop(d)
    PROVE  /\ hw'[e].on = (IF e = d THEN FALSE ELSE hw[e].on) /\ hw'[e].cmp = hw[e].cmp
           /\ e # d => hw'[e].cnt = hw[e].cnt
           /\ hw'[e].cnt \in 0..Top
           /\ hw'[e].en = hw[e].en /\ hw'[e].flag = hw[e].flag
           /\ alarm' = alarm /\ next' = next
<1>1. hw \in [Dev -> [cnt : 0..Top, on : BOOLEAN, cmp : 0..Top, en : BOOLEAN, flag : BOOLEAN]]
      /\ alarm \in [Dev -> [cb : Callbacks, loop : BOOLEAN, last : 0..Top, ticks : 0..Top]]
  BY DEF Shape, TypeOK, CounterTypeOK
<1>2. hw[e] \in [cnt : 0..Top, on : BOOLEAN, cmp : 0..Top, en : BOOLEAN, flag : BOOLEAN]
      /\ Top \in Nat
  BY <1>1, CounterAssumption
<1>3. hw'[e] = IF e = d THEN [hw[e] EXCEPT !.on = FALSE, !.cnt = IF setting.gpt THEN 0
        ELSE hw[e].cnt] ELSE hw[e]
  BY <1>1 DEF Stop
<1>4. alarm' = alarm /\ next' = next
  BY DEF Stop
<1> QED BY <1>1, <1>2, <1>3, <1>4

LEMMA EnableIrqEffects ==
    ASSUME Shape, NEW d \in Dev, NEW e \in Dev, EnableIrq(d)
    PROVE  /\ hw'[e].en = (IF e = d THEN TRUE ELSE hw[e].en) /\ hw'[e].cnt = hw[e].cnt
              /\ hw'[e].cmp = hw[e].cmp
           /\ hw'[e].on = hw[e].on /\ hw'[e].flag = hw[e].flag
           /\ alarm' = alarm /\ next' = next
<1>1. hw \in [Dev -> [cnt : 0..Top, on : BOOLEAN, cmp : 0..Top, en : BOOLEAN, flag : BOOLEAN]]
      /\ alarm \in [Dev -> [cb : Callbacks, loop : BOOLEAN, last : 0..Top, ticks : 0..Top]]
  BY DEF Shape, TypeOK, CounterTypeOK
<1>2. hw[e] \in [cnt : 0..Top, on : BOOLEAN, cmp : 0..Top, en : BOOLEAN, flag : BOOLEAN]
      /\ Top \in Nat
  BY <1>1, CounterAssumption
<1>3. hw'[e] = IF e = d THEN [hw[e] EXCEPT !.en = TRUE] ELSE hw[e]
  BY <1>1 DEF EnableIrq
<1>4. alarm' = alarm /\ next' = next
  BY DEF EnableIrq
<1> QED BY <1>1, <1>2, <1>3, <1>4

LEMMA DisableIrqEffects ==
    ASSUME Shape, NEW d \in Dev, NEW e \in Dev, DisableIrq(d)
    PROVE  /\ hw'[e].en = (IF e = d THEN FALSE ELSE hw[e].en) /\ hw'[e].cnt = hw[e].cnt
              /\ hw'[e].cmp = hw[e].cmp
           /\ hw'[e].on = hw[e].on /\ hw'[e].flag = hw[e].flag
           /\ alarm' = alarm /\ next' = next
<1>1. hw \in [Dev -> [cnt : 0..Top, on : BOOLEAN, cmp : 0..Top, en : BOOLEAN, flag : BOOLEAN]]
      /\ alarm \in [Dev -> [cb : Callbacks, loop : BOOLEAN, last : 0..Top, ticks : 0..Top]]
  BY DEF Shape, TypeOK, CounterTypeOK
<1>2. hw[e] \in [cnt : 0..Top, on : BOOLEAN, cmp : 0..Top, en : BOOLEAN, flag : BOOLEAN]
      /\ Top \in Nat
  BY <1>1, CounterAssumption
<1>3. hw'[e] = IF e = d THEN [hw[e] EXCEPT !.en = FALSE] ELSE hw[e]
  BY <1>1 DEF DisableIrq
<1>4. alarm' = alarm /\ next' = next
  BY DEF DisableIrq
<1> QED BY <1>1, <1>2, <1>3, <1>4

LEMMA CancelAlarmEffects ==
    ASSUME Shape, NEW d \in Dev, NEW e \in Dev, CancelAlarm(d)
    PROVE  /\ hw'[e].flag = (IF e = d THEN FALSE ELSE hw[e].flag) /\ hw'[e].cnt = hw[e].cnt
              /\ hw'[e].cmp = hw[e].cmp
           /\ hw'[e].on = hw[e].on /\ hw'[e].en = hw[e].en
           /\ alarm'[e].cb = (IF e = d THEN "none" ELSE alarm[e].cb)
           /\ alarm'[e].loop = alarm[e].loop /\ next' = next
<1>1. hw \in [Dev -> [cnt : 0..Top, on : BOOLEAN, cmp : 0..Top, en : BOOLEAN, flag : BOOLEAN]]
      /\ alarm \in [Dev -> [cb : Callbacks, loop : BOOLEAN, last : 0..Top, ticks : 0..Top]]
  BY DEF Shape, TypeOK, CounterTypeOK
<1>2. hw[e] \in [cnt : 0..Top, on : BOOLEAN, cmp : 0..Top, en : BOOLEAN, flag : BOOLEAN]
      /\ Top \in Nat
  BY <1>1, CounterAssumption
<1>3. hw'[e] = IF e = d THEN [hw[e] EXCEPT !.flag = FALSE] ELSE hw[e]
  BY <1>1 DEF CancelAlarm
<1>4. alarm' = [alarm EXCEPT ![d].cb = "none"] /\ next' = next
  BY DEF CancelAlarm
<1> QED BY <1>1, <1>2, <1>3, <1>4

LEMMA SetCompareEffects ==
    ASSUME Shape, NEW d \in Dev, NEW e \in Dev, SetCompare(d)
    PROVE  /\ hw'[e].cmp = (IF e = d THEN next ELSE hw[e].cmp)
           /\ hw'[e].cnt = hw[e].cnt /\ hw'[e].on = hw[e].on /\ hw'[e].en = hw[e].en
           /\ hw[e].flag => hw'[e].flag
           /\ hw'[e].flag => hw[e].flag \/ (e = d /\ next = hw[e].cnt)
           /\ hw'[e].flag \in BOOLEAN
           /\ alarm' = alarm /\ next' = 0
<1>1. hw \in [Dev -> [cnt : 0..Top, on : BOOLEAN, cmp : 0..Top, en : BOOLEAN, flag : BOOLEAN]]
      /\ alarm \in [Dev -> [cb : Callbacks, loop : BOOLEAN, last : 0..Top, ticks : 0..Top]]
  BY DEF Shape, TypeOK, CounterTypeOK
<1>2. hw[e] \in [cnt : 0..Top, on : BOOLEAN, cmp : 0..Top, en : BOOLEAN, flag : BOOLEAN]
      /\ Top \in Nat
  BY <1>1, CounterAssumption
<1>3. PICK f \in {hw[d].flag, hw[d].flag \/ next = hw[d].cnt} :
            hw' = [hw EXCEPT ![d] = [hw[d] EXCEPT !.cmp = next, !.flag = f]]
  BY DEF SetCompare, Compared
<1> QED BY <1>1, <1>2, <1>3 DEF SetCompare

(* set_channel_alarm, of an alarm that does not loop.                      *)
LEMMA ClaimEffects ==
    ASSUME Shape, NEW d \in Dev, NEW f, NEW flags, flags # "loop", NEW t, Claim(d, f, flags, t)
    PROVE  /\ hw' = hw /\ next' = Target(d, flags, t)
           /\ \A e \in Dev : /\ alarm'[e].cb = (IF e = d THEN f ELSE alarm[e].cb)
                             /\ alarm'[e].loop = (IF e = d THEN FALSE ELSE alarm[e].loop)
<1>1. alarm \in [Dev -> [cb : Callbacks, loop : BOOLEAN, last : 0..Top, ticks : 0..Top]]
  BY DEF Shape, TypeOK, CounterTypeOK
<1>2. hw' = hw /\ next' = Target(d, flags, t)
  BY DEF Claim
<1>3. ASSUME NEW e \in Dev
      PROVE  /\ alarm'[e].cb = (IF e = d THEN f ELSE alarm[e].cb)
             /\ alarm'[e].loop = (IF e = d THEN FALSE ELSE alarm[e].loop)
  BY <1>1 DEF Claim
<1> QED BY <1>2, <1>3

(* What a task's step does, field by field.                                *)
Puts(d, on, en, cmp, cb) ==
    /\ hw'[d].on = on /\ hw'[d].en = en /\ hw'[d].cmp = cmp
    /\ alarm'[d].cb = cb /\ alarm'[d].loop = FALSE
Keeps(d) ==
    /\ Puts(d, hw[d].on, hw[d].en, hw[d].cmp, alarm[d].cb)
    /\ hw'[d].cnt = hw[d].cnt /\ hw'[d].flag = hw[d].flag
KeepsTask ==
    UNCHANGED <<wait, sem, irq_load_sem, exists, time_prog, time_irq, tc_load>>

LEMMA DoesStart ==
    ASSUME Shape, NEW q, TaskStep("start", q)
    PROVE  /\ q = (IF tc_load THEN "load start" ELSE "prog")
           /\ Puts("main", TRUE, hw["main"].en, hw["main"].cmp, alarm["main"].cb)
           /\ hw'["main"].cnt = hw["main"].cnt /\ hw'["main"].flag = hw["main"].flag
           /\ next' = next
           /\ early' = early
           /\ Keeps("load")
           /\ KeepsTask
<1>1. Start("main") /\ CallStep("start", q) /\ q = (IF tc_load THEN "load start" ELSE "prog")
  BY DEF TaskStep, CallStep, OtherStep, Calls, Others
<1>2. "main" \in Dev /\ "load" \in Dev /\ early \in [Dev -> BOOLEAN] /\ ~alarm["main"].loop
      /\ ~alarm["load"].loop
      /\ alarm["main"].loop \in BOOLEAN /\ alarm["load"].loop \in BOOLEAN
  BY DEF Dev, Shape, TypeOK, CounterTypeOK
<1>3. KeepsTask /\ early' = early
  BY <1>1 DEF CallStep, KeepsTask
<1> QED BY <1>1, <1>2, <1>3, StartEffects DEF Puts, Keeps

LEMMA DoesLoadStart ==
    ASSUME Shape, NEW q, TaskStep("load start", q)
    PROVE  /\ q = "load claim"
           /\ Puts("load", TRUE, hw["load"].en, hw["load"].cmp, alarm["load"].cb)
           /\ hw'["load"].cnt = hw["load"].cnt /\ hw'["load"].flag = hw["load"].flag
           /\ next' = next
           /\ early' = early
           /\ Keeps("main")
           /\ KeepsTask
<1>1. Start("load") /\ CallStep("load start", q) /\ q = "load claim"
  BY DEF TaskStep, CallStep, OtherStep, Calls, Others
<1>2. "main" \in Dev /\ "load" \in Dev /\ early \in [Dev -> BOOLEAN] /\ ~alarm["main"].loop
      /\ ~alarm["load"].loop
      /\ alarm["main"].loop \in BOOLEAN /\ alarm["load"].loop \in BOOLEAN
  BY DEF Dev, Shape, TypeOK, CounterTypeOK
<1>3. KeepsTask /\ early' = early
  BY <1>1 DEF CallStep, KeepsTask
<1> QED BY <1>1, <1>2, <1>3, StartEffects DEF Puts, Keeps

LEMMA DoesLoadClaim ==
    ASSUME Shape, NEW q, TaskStep("load claim", q)
    PROVE  /\ q = "load enable"
           /\ Puts("load", hw["load"].on, hw["load"].en, hw["load"].cmp, "spin")
           /\ hw'["load"].cnt = hw["load"].cnt /\ hw'["load"].flag = hw["load"].flag
           /\ next' = Wrap(hw["load"].cnt + LoadTicks)
           /\ early'["load"] = hw["load"].flag /\ early'["main"] = early["main"]
           /\ Keeps("main")
           /\ KeepsTask
<1>1. Claim("load", "spin", "relative", LoadTicks) /\ CallStep("load claim", q) /\ q = "load enable"
  BY DEF TaskStep, CallStep, OtherStep, Calls, Others
<1>2. "main" \in Dev /\ "load" \in Dev /\ early \in [Dev -> BOOLEAN] /\ ~alarm["main"].loop
      /\ ~alarm["load"].loop
      /\ alarm["main"].loop \in BOOLEAN /\ alarm["load"].loop \in BOOLEAN
  BY DEF Dev, Shape, TypeOK, CounterTypeOK
<1>3. KeepsTask /\ early' = [early EXCEPT !["load"] = hw["load"].flag]
  BY <1>1 DEF CallStep, KeepsTask
<1>4. /\ hw' = hw
      /\ \A e \in Dev : /\ alarm'[e].cb = (IF e = "load" THEN "spin" ELSE alarm[e].cb)
                        /\ alarm'[e].loop = (IF e = "load" THEN FALSE ELSE alarm[e].loop)
  <2>1. "relative" # "loop"
    OBVIOUS
  <2> QED BY <1>1, <1>2, <2>1, ClaimEffects
<1>5. next' = Wrap(hw["load"].cnt + LoadTicks)
  BY <1>1 DEF Claim, Target
<1> QED BY <1>1, <1>2, <1>3, <1>4, <1>5 DEF Puts, Keeps

LEMMA DoesLoadEnable ==
    ASSUME Shape, NEW q, TaskStep("load enable", q)
    PROVE  /\ q = "load compare"
           /\ Puts("load", hw["load"].on, TRUE, hw["load"].cmp, alarm["load"].cb)
           /\ hw'["load"].cnt = hw["load"].cnt /\ hw'["load"].flag = hw["load"].flag
           /\ next' = next
           /\ early' = early
           /\ Keeps("main")
           /\ KeepsTask
<1>1. EnableIrq("load") /\ CallStep("load enable", q) /\ q = "load compare"
  BY DEF TaskStep, CallStep, OtherStep, Calls, Others
<1>2. "main" \in Dev /\ "load" \in Dev /\ early \in [Dev -> BOOLEAN] /\ ~alarm["main"].loop
      /\ ~alarm["load"].loop
      /\ alarm["main"].loop \in BOOLEAN /\ alarm["load"].loop \in BOOLEAN
  BY DEF Dev, Shape, TypeOK, CounterTypeOK
<1>3. KeepsTask /\ early' = early
  BY <1>1 DEF CallStep, KeepsTask
<1> QED BY <1>1, <1>2, <1>3, EnableIrqEffects DEF Puts, Keeps

LEMMA DoesLoadCompare ==
    ASSUME Shape, NEW q, TaskStep("load compare", q)
    PROVE  /\ q = "seminit"
           /\ Puts("load", hw["load"].on, hw["load"].en, next, alarm["load"].cb)
           /\ hw'["load"].cnt = hw["load"].cnt
           /\ hw["load"].flag => hw'["load"].flag
           /\ hw'["load"].flag => hw["load"].flag \/ next = hw["load"].cnt
           /\ next' = 0
           /\ early' = early
           /\ Keeps("main")
           /\ KeepsTask
<1>1. SetCompare("load") /\ CallStep("load compare", q) /\ q = "seminit"
  BY DEF TaskStep, CallStep, OtherStep, Calls, Others
<1>2. "main" \in Dev /\ "load" \in Dev /\ early \in [Dev -> BOOLEAN] /\ ~alarm["main"].loop
      /\ ~alarm["load"].loop
      /\ alarm["main"].loop \in BOOLEAN /\ alarm["load"].loop \in BOOLEAN
  BY DEF Dev, Shape, TypeOK, CounterTypeOK
<1>3. KeepsTask /\ early' = early
  BY <1>1 DEF CallStep, KeepsTask
<1>4. /\ hw'["load"].cmp = next
      /\ hw'["load"].cnt = hw["load"].cnt /\ hw'["load"].on = hw["load"].on
      /\ hw'["load"].en = hw["load"].en
      /\ hw["load"].flag => hw'["load"].flag
      /\ hw'["load"].flag => hw["load"].flag \/ next = hw["load"].cnt
      /\ hw'["load"].flag \in BOOLEAN /\ alarm' = alarm /\ next' = 0
  BY <1>1, <1>2, SetCompareEffects
<1>5. /\ hw'["main"].cmp = hw["main"].cmp
      /\ hw'["main"].cnt = hw["main"].cnt /\ hw'["main"].on = hw["main"].on
      /\ hw'["main"].en = hw["main"].en
      /\ hw["main"].flag => hw'["main"].flag
      /\ hw'["main"].flag => hw["main"].flag
      /\ hw'["main"].flag \in BOOLEAN /\ alarm' = alarm /\ next' = 0
  BY <1>1, <1>2, SetCompareEffects
<1>6. hw["main"].flag \in BOOLEAN /\ hw["load"].flag \in BOOLEAN
  BY DEF Shape, TypeOK, CounterTypeOK, Dev
<1> QED BY <1>1, <1>2, <1>3, <1>4, <1>5, <1>6 DEF Puts, Keeps

LEMMA DoesSeminit ==
    ASSUME Shape, NEW q, TaskStep("seminit", q)
    PROVE  /\ q = "prog"
           /\ exists'["load"] /\ exists'["main"] = exists["main"]
           /\ irq_load_sem' = 0
           /\ UNCHANGED <<tc_load, wait, sem, time_prog, time_irq>>
           /\ Keeps("main")
           /\ Keeps("load")
           /\ next' = next
           /\ early' = early
<1>1. Others("seminit", q) /\ UNCHANGED <<hw, alarm, next, early>>
  BY DEF TaskStep, CallStep, OtherStep, Calls
<1>2. exists \in [Dev -> BOOLEAN] /\ ~alarm["main"].loop /\ ~alarm["load"].loop
      /\ alarm["main"].loop \in BOOLEAN /\ alarm["load"].loop \in BOOLEAN
  BY DEF Shape, TypeOK, CounterTypeOK, Dev
<1>3. Keeps("main") /\ Keeps("load")
  BY <1>1, <1>2 DEF Keeps, Puts
<1> QED BY <1>1, <1>2, <1>3 DEF Others, Dev

LEMMA DoesProg ==
    ASSUME Shape, NEW q, TaskStep("prog", q)
    PROVE  /\ q = "claim"
           /\ time_prog' = Wrap(hw["main"].cnt + Ticks)
           /\ UNCHANGED <<tc_load, wait, sem, irq_load_sem, exists, time_irq>>
           /\ Keeps("main")
           /\ Keeps("load")
           /\ next' = next
           /\ early' = early
<1>1. Others("prog", q) /\ UNCHANGED <<hw, alarm, next, early>>
  BY DEF TaskStep, CallStep, OtherStep, Calls
<1>2. exists \in [Dev -> BOOLEAN] /\ ~alarm["main"].loop /\ ~alarm["load"].loop
      /\ alarm["main"].loop \in BOOLEAN /\ alarm["load"].loop \in BOOLEAN
  BY DEF Shape, TypeOK, CounterTypeOK, Dev
<1>3. Keeps("main") /\ Keeps("load")
  BY <1>1, <1>2 DEF Keeps, Puts
<1> QED BY <1>1, <1>2, <1>3 DEF Others, Dev

LEMMA DoesClaim ==
    ASSUME Shape, NEW q, TaskStep("claim", q)
    PROVE  /\ q = "enable"
           /\ Puts("main", hw["main"].on, hw["main"].en, hw["main"].cmp, "latency")
           /\ hw'["main"].cnt = hw["main"].cnt /\ hw'["main"].flag = hw["main"].flag
           /\ next' = time_prog
           /\ early'["main"] = hw["main"].flag /\ early'["load"] = early["load"]
           /\ Keeps("load")
           /\ KeepsTask
<1>1. Claim("main", "latency", "absolute", time_prog) /\ CallStep("claim", q) /\ q = "enable"
  BY DEF TaskStep, CallStep, OtherStep, Calls, Others
<1>2. "main" \in Dev /\ "load" \in Dev /\ early \in [Dev -> BOOLEAN] /\ ~alarm["main"].loop
      /\ ~alarm["load"].loop
      /\ alarm["main"].loop \in BOOLEAN /\ alarm["load"].loop \in BOOLEAN
  BY DEF Dev, Shape, TypeOK, CounterTypeOK
<1>3. KeepsTask /\ early' = [early EXCEPT !["main"] = hw["main"].flag]
  BY <1>1 DEF CallStep, KeepsTask
<1>4. /\ hw' = hw
      /\ \A e \in Dev : /\ alarm'[e].cb = (IF e = "main" THEN "latency" ELSE alarm[e].cb)
                        /\ alarm'[e].loop = (IF e = "main" THEN FALSE ELSE alarm[e].loop)
  <2>1. "absolute" # "loop"
    OBVIOUS
  <2> QED BY <1>1, <1>2, <2>1, ClaimEffects
<1>5. next' = time_prog
  BY <1>1 DEF Claim, Target
<1> QED BY <1>1, <1>2, <1>3, <1>4, <1>5 DEF Puts, Keeps

LEMMA DoesEnable ==
    ASSUME Shape, NEW q, TaskStep("enable", q)
    PROVE  /\ q = "compare"
           /\ Puts("main", hw["main"].on, TRUE, hw["main"].cmp, alarm["main"].cb)
           /\ hw'["main"].cnt = hw["main"].cnt /\ hw'["main"].flag = hw["main"].flag
           /\ next' = next
           /\ early' = early
           /\ Keeps("load")
           /\ KeepsTask
<1>1. EnableIrq("main") /\ CallStep("enable", q) /\ q = "compare"
  BY DEF TaskStep, CallStep, OtherStep, Calls, Others
<1>2. "main" \in Dev /\ "load" \in Dev /\ early \in [Dev -> BOOLEAN] /\ ~alarm["main"].loop
      /\ ~alarm["load"].loop
      /\ alarm["main"].loop \in BOOLEAN /\ alarm["load"].loop \in BOOLEAN
  BY DEF Dev, Shape, TypeOK, CounterTypeOK
<1>3. KeepsTask /\ early' = early
  BY <1>1 DEF CallStep, KeepsTask
<1> QED BY <1>1, <1>2, <1>3, EnableIrqEffects DEF Puts, Keeps

LEMMA DoesCompare ==
    ASSUME Shape, NEW q, TaskStep("compare", q)
    PROVE  /\ q = "take"
           /\ Puts("main", hw["main"].on, hw["main"].en, next, alarm["main"].cb)
           /\ hw'["main"].cnt = hw["main"].cnt
           /\ hw["main"].flag => hw'["main"].flag
           /\ hw'["main"].flag => hw["main"].flag \/ next = hw["main"].cnt
           /\ next' = 0
           /\ early' = early
           /\ Keeps("load")
           /\ KeepsTask
<1>1. SetCompare("main") /\ CallStep("compare", q) /\ q = "take"
  BY DEF TaskStep, CallStep, OtherStep, Calls, Others
<1>2. "main" \in Dev /\ "load" \in Dev /\ early \in [Dev -> BOOLEAN] /\ ~alarm["main"].loop
      /\ ~alarm["load"].loop
      /\ alarm["main"].loop \in BOOLEAN /\ alarm["load"].loop \in BOOLEAN
  BY DEF Dev, Shape, TypeOK, CounterTypeOK
<1>3. KeepsTask /\ early' = early
  BY <1>1 DEF CallStep, KeepsTask
<1>4. /\ hw'["main"].cmp = next
      /\ hw'["main"].cnt = hw["main"].cnt /\ hw'["main"].on = hw["main"].on
      /\ hw'["main"].en = hw["main"].en
      /\ hw["main"].flag => hw'["main"].flag
      /\ hw'["main"].flag => hw["main"].flag \/ next = hw["main"].cnt
      /\ hw'["main"].flag \in BOOLEAN /\ alarm' = alarm /\ next' = 0
  BY <1>1, <1>2, SetCompareEffects
<1>5. /\ hw'["load"].cmp = hw["load"].cmp
      /\ hw'["load"].cnt = hw["load"].cnt /\ hw'["load"].on = hw["load"].on
      /\ hw'["load"].en = hw["load"].en
      /\ hw["load"].flag => hw'["load"].flag
      /\ hw'["load"].flag => hw["load"].flag
      /\ hw'["load"].flag \in BOOLEAN /\ alarm' = alarm /\ next' = 0
  BY <1>1, <1>2, SetCompareEffects
<1>6. hw["main"].flag \in BOOLEAN /\ hw["load"].flag \in BOOLEAN
  BY DEF Shape, TypeOK, CounterTypeOK, Dev
<1> QED BY <1>1, <1>2, <1>3, <1>4, <1>5, <1>6 DEF Puts, Keeps

LEMMA DoesTake ==
    ASSUME Shape, NEW q, TaskStep("take", q)
    PROVE  /\ \/ q = "now" /\ sem > 0 /\ sem' = sem - 1 /\ wait' = 0
              \/ q = "disable" /\ sem = 0 /\ wait = Timeout /\ wait' = 0 /\ sem' = sem
              \/ q = (IF tc_load THEN "d load stop" ELSE "d stop") /\ wait' = 0 /\ sem' = sem
           /\ UNCHANGED <<tc_load, irq_load_sem, exists, time_prog, time_irq>>
           /\ Keeps("main")
           /\ Keeps("load")
           /\ next' = next
           /\ early' = early
<1>1. Others("take", q) /\ UNCHANGED <<hw, alarm, next, early>>
  BY DEF TaskStep, CallStep, OtherStep, Calls
<1>2. exists \in [Dev -> BOOLEAN] /\ ~alarm["main"].loop /\ ~alarm["load"].loop
      /\ alarm["main"].loop \in BOOLEAN /\ alarm["load"].loop \in BOOLEAN
  BY DEF Shape, TypeOK, CounterTypeOK, Dev
<1>3. Keeps("main") /\ Keeps("load")
  BY <1>1, <1>2 DEF Keeps, Puts
<1> QED BY <1>1, <1>2, <1>3 DEF Others, Dev

LEMMA DoesDisable ==
    ASSUME Shape, NEW q, TaskStep("disable", q)
    PROVE  /\ q = "clear"
           /\ Puts("main", hw["main"].on, FALSE, hw["main"].cmp, alarm["main"].cb)
           /\ hw'["main"].cnt = hw["main"].cnt /\ hw'["main"].flag = hw["main"].flag
           /\ next' = next
           /\ early' = early
           /\ Keeps("load")
           /\ KeepsTask
<1>1. DisableIrq("main") /\ CallStep("disable", q) /\ q = "clear"
  BY DEF TaskStep, CallStep, OtherStep, Calls, Others
<1>2. "main" \in Dev /\ "load" \in Dev /\ early \in [Dev -> BOOLEAN] /\ ~alarm["main"].loop
      /\ ~alarm["load"].loop
      /\ alarm["main"].loop \in BOOLEAN /\ alarm["load"].loop \in BOOLEAN
  BY DEF Dev, Shape, TypeOK, CounterTypeOK
<1>3. KeepsTask /\ early' = early
  BY <1>1 DEF CallStep, KeepsTask
<1> QED BY <1>1, <1>2, <1>3, DisableIrqEffects DEF Puts, Keeps

LEMMA DoesClear ==
    ASSUME Shape, NEW q, TaskStep("clear", q)
    PROVE  /\ q = "prog"
           /\ Puts("main", hw["main"].on, hw["main"].en, hw["main"].cmp, "none")
           /\ hw'["main"].cnt = hw["main"].cnt /\ ~hw'["main"].flag
           /\ next' = next
           /\ early' = early
           /\ Keeps("load")
           /\ KeepsTask
<1>1. CancelAlarm("main") /\ CallStep("clear", q) /\ q = "prog"
  BY DEF TaskStep, CallStep, OtherStep, Calls, Others
<1>2. "main" \in Dev /\ "load" \in Dev /\ early \in [Dev -> BOOLEAN] /\ ~alarm["main"].loop
      /\ ~alarm["load"].loop
      /\ alarm["main"].loop \in BOOLEAN /\ alarm["load"].loop \in BOOLEAN
  BY DEF Dev, Shape, TypeOK, CounterTypeOK
<1>3. KeepsTask /\ early' = early
  BY <1>1 DEF CallStep, KeepsTask
<1>4. /\ next' = next
      /\ \A e \in Dev : /\ hw'[e].flag = (IF e = "main" THEN FALSE ELSE hw[e].flag)
                        /\ hw'[e].cnt = hw[e].cnt /\ hw'[e].cmp = hw[e].cmp
                        /\ hw'[e].on = hw[e].on /\ hw'[e].en = hw[e].en
                        /\ alarm'[e].cb = (IF e = "main" THEN "none" ELSE alarm[e].cb)
                        /\ alarm'[e].loop = alarm[e].loop
  BY <1>1, <1>2, CancelAlarmEffects
<1> QED BY <1>1, <1>2, <1>3, <1>4 DEF Puts, Keeps

LEMMA DoesNow ==
    ASSUME Shape, NEW q, TaskStep("now", q)
    PROVE  /\ q = "stop"
           /\ time_prog' = 0 /\ time_irq' = 0
           /\ UNCHANGED <<tc_load, wait, sem, irq_load_sem, exists>>
           /\ Keeps("main")
           /\ Keeps("load")
           /\ next' = next
           /\ early' = early
<1>1. Others("now", q) /\ UNCHANGED <<hw, alarm, next, early>>
  BY DEF TaskStep, CallStep, OtherStep, Calls
<1>2. exists \in [Dev -> BOOLEAN] /\ ~alarm["main"].loop /\ ~alarm["load"].loop
      /\ alarm["main"].loop \in BOOLEAN /\ alarm["load"].loop \in BOOLEAN
  BY DEF Shape, TypeOK, CounterTypeOK, Dev
<1>3. Keeps("main") /\ Keeps("load")
  BY <1>1, <1>2 DEF Keeps, Puts
<1> QED BY <1>1, <1>2, <1>3 DEF Others, Dev

LEMMA DoesStop ==
    ASSUME Shape, NEW q, TaskStep("stop", q)
    PROVE  /\ q = (IF tc_load THEN "load take" ELSE "start")
           /\ Puts("main", FALSE, hw["main"].en, hw["main"].cmp, alarm["main"].cb)
           /\ hw'["main"].cnt \in 0..Top /\ hw'["main"].flag = hw["main"].flag
           /\ next' = next
           /\ early' = early
           /\ Keeps("load")
           /\ KeepsTask
<1>1. Stop("main") /\ CallStep("stop", q) /\ q = (IF tc_load THEN "load take" ELSE "start")
  BY DEF TaskStep, CallStep, OtherStep, Calls, Others
<1>2. "main" \in Dev /\ "load" \in Dev /\ early \in [Dev -> BOOLEAN] /\ ~alarm["main"].loop
      /\ ~alarm["load"].loop
      /\ alarm["main"].loop \in BOOLEAN /\ alarm["load"].loop \in BOOLEAN
  BY DEF Dev, Shape, TypeOK, CounterTypeOK
<1>3. KeepsTask /\ early' = early
  BY <1>1 DEF CallStep, KeepsTask
<1> QED BY <1>1, <1>2, <1>3, StopEffects DEF Puts, Keeps

LEMMA DoesLoadTake ==
    ASSUME Shape, NEW q, TaskStep("load take", q)
    PROVE  /\ \/ q = "start" /\ irq_load_sem > 0 /\ irq_load_sem' = irq_load_sem - 1
              \/ q = (IF tc_load THEN "d load stop" ELSE "d stop") /\ irq_load_sem' = irq_load_sem
           /\ wait' = wait \/ wait' = 0
           /\ UNCHANGED <<tc_load, sem, exists, time_prog, time_irq>>
           /\ Keeps("main")
           /\ Keeps("load")
           /\ next' = next
           /\ early' = early
<1>1. Others("load take", q) /\ UNCHANGED <<hw, alarm, next, early>>
  BY DEF TaskStep, CallStep, OtherStep, Calls
<1>2. exists \in [Dev -> BOOLEAN] /\ ~alarm["main"].loop /\ ~alarm["load"].loop
      /\ alarm["main"].loop \in BOOLEAN /\ alarm["load"].loop \in BOOLEAN
  BY DEF Shape, TypeOK, CounterTypeOK, Dev
<1>3. Keeps("main") /\ Keeps("load")
  BY <1>1, <1>2 DEF Keeps, Puts
<1> QED BY <1>1, <1>2, <1>3 DEF Others, Dev

LEMMA DoesDLoadStop ==
    ASSUME Shape, NEW q, TaskStep("d load stop", q)
    PROVE  /\ q = "d load disable"
           /\ Puts("load", FALSE, hw["load"].en, hw["load"].cmp, alarm["load"].cb)
           /\ hw'["load"].cnt \in 0..Top /\ hw'["load"].flag = hw["load"].flag
           /\ next' = next
           /\ early' = early
           /\ Keeps("main")
           /\ KeepsTask
<1>1. Stop("load") /\ CallStep("d load stop", q) /\ q = "d load disable"
  BY DEF TaskStep, CallStep, OtherStep, Calls, Others
<1>2. "main" \in Dev /\ "load" \in Dev /\ early \in [Dev -> BOOLEAN] /\ ~alarm["main"].loop
      /\ ~alarm["load"].loop
      /\ alarm["main"].loop \in BOOLEAN /\ alarm["load"].loop \in BOOLEAN
  BY DEF Dev, Shape, TypeOK, CounterTypeOK
<1>3. KeepsTask /\ early' = early
  BY <1>1 DEF CallStep, KeepsTask
<1> QED BY <1>1, <1>2, <1>3, StopEffects DEF Puts, Keeps

LEMMA DoesDLoadDisable ==
    ASSUME Shape, NEW q, TaskStep("d load disable", q)
    PROVE  /\ q = "d load clear"
           /\ Puts("load", hw["load"].on, FALSE, hw["load"].cmp, alarm["load"].cb)
           /\ hw'["load"].cnt = hw["load"].cnt /\ hw'["load"].flag = hw["load"].flag
           /\ next' = next
           /\ early' = early
           /\ Keeps("main")
           /\ KeepsTask
<1>1. DisableIrq("load") /\ CallStep("d load disable", q) /\ q = "d load clear"
  BY DEF TaskStep, CallStep, OtherStep, Calls, Others
<1>2. "main" \in Dev /\ "load" \in Dev /\ early \in [Dev -> BOOLEAN] /\ ~alarm["main"].loop
      /\ ~alarm["load"].loop
      /\ alarm["main"].loop \in BOOLEAN /\ alarm["load"].loop \in BOOLEAN
  BY DEF Dev, Shape, TypeOK, CounterTypeOK
<1>3. KeepsTask /\ early' = early
  BY <1>1 DEF CallStep, KeepsTask
<1> QED BY <1>1, <1>2, <1>3, DisableIrqEffects DEF Puts, Keeps

LEMMA DoesDLoadClear ==
    ASSUME Shape, NEW q, TaskStep("d load clear", q)
    PROVE  /\ q = "d load semdel"
           /\ Puts("load", hw["load"].on, hw["load"].en, hw["load"].cmp, "none")
           /\ hw'["load"].cnt = hw["load"].cnt /\ ~hw'["load"].flag
           /\ next' = next
           /\ early' = early
           /\ Keeps("main")
           /\ KeepsTask
<1>1. CancelAlarm("load") /\ CallStep("d load clear", q) /\ q = "d load semdel"
  BY DEF TaskStep, CallStep, OtherStep, Calls, Others
<1>2. "main" \in Dev /\ "load" \in Dev /\ early \in [Dev -> BOOLEAN] /\ ~alarm["main"].loop
      /\ ~alarm["load"].loop
      /\ alarm["main"].loop \in BOOLEAN /\ alarm["load"].loop \in BOOLEAN
  BY DEF Dev, Shape, TypeOK, CounterTypeOK
<1>3. KeepsTask /\ early' = early
  BY <1>1 DEF CallStep, KeepsTask
<1>4. /\ next' = next
      /\ \A e \in Dev : /\ hw'[e].flag = (IF e = "load" THEN FALSE ELSE hw[e].flag)
                        /\ hw'[e].cnt = hw[e].cnt /\ hw'[e].cmp = hw[e].cmp
                        /\ hw'[e].on = hw[e].on /\ hw'[e].en = hw[e].en
                        /\ alarm'[e].cb = (IF e = "load" THEN "none" ELSE alarm[e].cb)
                        /\ alarm'[e].loop = alarm[e].loop
  BY <1>1, <1>2, CancelAlarmEffects
<1> QED BY <1>1, <1>2, <1>3, <1>4 DEF Puts, Keeps

LEMMA DoesDLoadSemdel ==
    ASSUME Shape, NEW q, TaskStep("d load semdel", q)
    PROVE  /\ q = "d stop"
           /\ ~exists'["load"] /\ exists'["main"] = exists["main"]
           /\ irq_load_sem' = 0
           /\ UNCHANGED <<tc_load, wait, sem, time_prog, time_irq>>
           /\ Keeps("main")
           /\ Keeps("load")
           /\ next' = next
           /\ early' = early
<1>1. Others("d load semdel", q) /\ UNCHANGED <<hw, alarm, next, early>>
  BY DEF TaskStep, CallStep, OtherStep, Calls
<1>2. exists \in [Dev -> BOOLEAN] /\ ~alarm["main"].loop /\ ~alarm["load"].loop
      /\ alarm["main"].loop \in BOOLEAN /\ alarm["load"].loop \in BOOLEAN
  BY DEF Shape, TypeOK, CounterTypeOK, Dev
<1>3. Keeps("main") /\ Keeps("load")
  BY <1>1, <1>2 DEF Keeps, Puts
<1> QED BY <1>1, <1>2, <1>3 DEF Others, Dev

LEMMA DoesDStop ==
    ASSUME Shape, NEW q, TaskStep("d stop", q)
    PROVE  /\ q = "d disable"
           /\ Puts("main", FALSE, hw["main"].en, hw["main"].cmp, alarm["main"].cb)
           /\ hw'["main"].cnt \in 0..Top /\ hw'["main"].flag = hw["main"].flag
           /\ next' = next
           /\ early' = early
           /\ Keeps("load")
           /\ KeepsTask
<1>1. Stop("main") /\ CallStep("d stop", q) /\ q = "d disable"
  BY DEF TaskStep, CallStep, OtherStep, Calls, Others
<1>2. "main" \in Dev /\ "load" \in Dev /\ early \in [Dev -> BOOLEAN] /\ ~alarm["main"].loop
      /\ ~alarm["load"].loop
      /\ alarm["main"].loop \in BOOLEAN /\ alarm["load"].loop \in BOOLEAN
  BY DEF Dev, Shape, TypeOK, CounterTypeOK
<1>3. KeepsTask /\ early' = early
  BY <1>1 DEF CallStep, KeepsTask
<1> QED BY <1>1, <1>2, <1>3, StopEffects DEF Puts, Keeps

LEMMA DoesDDisable ==
    ASSUME Shape, NEW q, TaskStep("d disable", q)
    PROVE  /\ q = "d clear"
           /\ Puts("main", hw["main"].on, FALSE, hw["main"].cmp, alarm["main"].cb)
           /\ hw'["main"].cnt = hw["main"].cnt /\ hw'["main"].flag = hw["main"].flag
           /\ next' = next
           /\ early' = early
           /\ Keeps("load")
           /\ KeepsTask
<1>1. DisableIrq("main") /\ CallStep("d disable", q) /\ q = "d clear"
  BY DEF TaskStep, CallStep, OtherStep, Calls, Others
<1>2. "main" \in Dev /\ "load" \in Dev /\ early \in [Dev -> BOOLEAN] /\ ~alarm["main"].loop
      /\ ~alarm["load"].loop
      /\ alarm["main"].loop \in BOOLEAN /\ alarm["load"].loop \in BOOLEAN
  BY DEF Dev, Shape, TypeOK, CounterTypeOK
<1>3. KeepsTask /\ early' = early
  BY <1>1 DEF CallStep, KeepsTask
<1> QED BY <1>1, <1>2, <1>3, DisableIrqEffects DEF Puts, Keeps

LEMMA DoesDClear ==
    ASSUME Shape, NEW q, TaskStep("d clear", q)
    PROVE  /\ q = "d semdel"
           /\ Puts("main", hw["main"].on, hw["main"].en, hw["main"].cmp, "none")
           /\ hw'["main"].cnt = hw["main"].cnt /\ ~hw'["main"].flag
           /\ next' = next
           /\ early' = early
           /\ Keeps("load")
           /\ KeepsTask
<1>1. CancelAlarm("main") /\ CallStep("d clear", q) /\ q = "d semdel"
  BY DEF TaskStep, CallStep, OtherStep, Calls, Others
<1>2. "main" \in Dev /\ "load" \in Dev /\ early \in [Dev -> BOOLEAN] /\ ~alarm["main"].loop
      /\ ~alarm["load"].loop
      /\ alarm["main"].loop \in BOOLEAN /\ alarm["load"].loop \in BOOLEAN
  BY DEF Dev, Shape, TypeOK, CounterTypeOK
<1>3. KeepsTask /\ early' = early
  BY <1>1 DEF CallStep, KeepsTask
<1>4. /\ next' = next
      /\ \A e \in Dev : /\ hw'[e].flag = (IF e = "main" THEN FALSE ELSE hw[e].flag)
                        /\ hw'[e].cnt = hw[e].cnt /\ hw'[e].cmp = hw[e].cmp
                        /\ hw'[e].on = hw[e].on /\ hw'[e].en = hw[e].en
                        /\ alarm'[e].cb = (IF e = "main" THEN "none" ELSE alarm[e].cb)
                        /\ alarm'[e].loop = alarm[e].loop
  BY <1>1, <1>2, CancelAlarmEffects
<1> QED BY <1>1, <1>2, <1>3, <1>4 DEF Puts, Keeps

LEMMA DoesDSemdel ==
    ASSUME Shape, NEW q, TaskStep("d semdel", q)
    PROVE  /\ q = "d seminit"
           /\ ~exists'["main"] /\ exists'["load"] = exists["load"]
           /\ sem' = 0
           /\ UNCHANGED <<tc_load, wait, irq_load_sem, time_prog, time_irq>>
           /\ Keeps("main")
           /\ Keeps("load")
           /\ next' = next
           /\ early' = early
<1>1. Others("d semdel", q) /\ UNCHANGED <<hw, alarm, next, early>>
  BY DEF TaskStep, CallStep, OtherStep, Calls
<1>2. exists \in [Dev -> BOOLEAN] /\ ~alarm["main"].loop /\ ~alarm["load"].loop
      /\ alarm["main"].loop \in BOOLEAN /\ alarm["load"].loop \in BOOLEAN
  BY DEF Shape, TypeOK, CounterTypeOK, Dev
<1>3. Keeps("main") /\ Keeps("load")
  BY <1>1, <1>2 DEF Keeps, Puts
<1> QED BY <1>1, <1>2, <1>3 DEF Others, Dev

LEMMA DoesDSeminit ==
    ASSUME Shape, NEW q, TaskStep("d seminit", q)
    PROVE  /\ q = "start"
           /\ tc_load' \in {FALSE, setting.load}
           /\ exists'["main"] /\ exists'["load"] = exists["load"]
           /\ sem' = 0
           /\ UNCHANGED <<wait, irq_load_sem, time_prog, time_irq>>
           /\ Keeps("main")
           /\ Keeps("load")
           /\ next' = next
           /\ early' = early
<1>1. Others("d seminit", q) /\ UNCHANGED <<hw, alarm, next, early>>
  BY DEF TaskStep, CallStep, OtherStep, Calls
<1>2. exists \in [Dev -> BOOLEAN] /\ ~alarm["main"].loop /\ ~alarm["load"].loop
      /\ alarm["main"].loop \in BOOLEAN /\ alarm["load"].loop \in BOOLEAN
  BY DEF Shape, TypeOK, CounterTypeOK, Dev
<1>3. Keeps("main") /\ Keeps("load")
  BY <1>1, <1>2 DEF Keeps, Puts
<1> QED BY <1>1, <1>2, <1>3 DEF Others, Dev

-----------------------------------------------------------------------------
(* The shape is kept.                                                      *)

Registers == [Dev -> [cnt : 0..Top, on : BOOLEAN, cmp : 0..Top, en : BOOLEAN, flag : BOOLEAN]]
Alarms    == [Dev -> [cb : Callbacks, loop : BOOLEAN, last : 0..Top, ticks : 0..Top]]

(* A counter with some of its fields changed is a counter.                 *)
LEMMA RegistersWith ==
    ASSUME NEW g \in Registers, NEW d \in Dev, NEW c \in 0..Top, NEW v \in 0..Top,
           NEW o \in BOOLEAN, NEW n \in BOOLEAN, NEW f \in BOOLEAN
    PROVE  /\ [g EXCEPT ![d].on = o] \in Registers
           /\ [g EXCEPT ![d].on = o, ![d].cnt = c] \in Registers
           /\ [g EXCEPT ![d].en = n] \in Registers
           /\ [g EXCEPT ![d].flag = f] \in Registers
           /\ [g EXCEPT ![d] = [g[d] EXCEPT !.cmp = v, !.flag = f]] \in Registers
           /\ [g EXCEPT ![d] = [@ EXCEPT !.en = n, !.flag = f]] \in Registers
<1> DEFINE Register == [cnt : 0..Top, on : BOOLEAN, cmp : 0..Top, en : BOOLEAN, flag : BOOLEAN]
<1>1. g \in [Dev -> Register] /\ g[d] \in Register /\ Registers = [Dev -> Register]
  BY DEF Registers
<1>2. ASSUME NEW r \in Register PROVE [g EXCEPT ![d] = r] \in Registers
  <2> HIDE DEF Register
  <2> QED BY <1>1
<1>3. /\ [g[d] EXCEPT !.on = o] \in Register
      /\ [g[d] EXCEPT !.on = o, !.cnt = c] \in Register
  BY <1>1
<1>4. /\ [g[d] EXCEPT !.en = n] \in Register
      /\ [g[d] EXCEPT !.flag = f] \in Register
  BY <1>1
<1>5. /\ [g[d] EXCEPT !.cmp = v, !.flag = f] \in Register
      /\ [g[d] EXCEPT !.en = n, !.flag = f] \in Register
  BY <1>1
<1>6. /\ [g EXCEPT ![d].on = o] = [g EXCEPT ![d] = [g[d] EXCEPT !.on = o]]
      /\ [g EXCEPT ![d].en = n] = [g EXCEPT ![d] = [g[d] EXCEPT !.en = n]]
      /\ [g EXCEPT ![d].flag = f] = [g EXCEPT ![d] = [g[d] EXCEPT !.flag = f]]
      /\ [g EXCEPT ![d] = [@ EXCEPT !.en = n, !.flag = f]]
           = [g EXCEPT ![d] = [g[d] EXCEPT !.en = n, !.flag = f]]
  OBVIOUS
<1>7. [g EXCEPT ![d].on = o, ![d].cnt = c] = [g EXCEPT ![d] = [g[d] EXCEPT !.on = o, !.cnt = c]]
  BY <1>1
<1> HIDE DEF Register
<1> QED BY <1>2, <1>3, <1>4, <1>5, <1>6, <1>7

LEMMA AlarmsWith ==
    ASSUME NEW a \in Alarms, NEW d \in Dev, NEW f \in Callbacks
    PROVE  /\ [a EXCEPT ![d].cb = f] \in Alarms
           /\ [a EXCEPT ![d] = [@ EXCEPT !.cb = f, !.loop = FALSE]] \in Alarms
           /\ \A e \in Dev : ~a[e].loop => /\ ~[a EXCEPT ![d].cb = f][e].loop
                                          /\ ~[a EXCEPT ![d]
                                               = [@ EXCEPT !.cb = f, !.loop = FALSE]][e].loop
BY DEF Alarms

(* What the driver changes keeps its type.                                 *)
Typed ==
    /\ hw \in Registers /\ alarm \in Alarms /\ next \in 0..Top
    /\ ~alarm["main"].loop /\ ~alarm["load"].loop

(* Every call does.                                                        *)
LEMMA CallsTyped ==
    ASSUME Shape, NEW p, NEW q, Calls(p, q)
    PROVE  Typed'
<1>1. /\ hw \in Registers /\ alarm \in Alarms /\ next \in 0..Top /\ time_prog \in 0..Top
      /\ ~alarm["main"].loop /\ ~alarm["load"].loop /\ "main" \in Dev /\ "load" \in Dev
      /\ {"none", "latency", "spin"} \subseteq Callbacks /\ Top \in Nat /\ 0 \in 0..Top
  BY CounterAssumption DEF Shape, TypeOK, CounterTypeOK, Registers, Alarms, Dev, Callbacks
<1>2. ASSUME NEW d \in Dev, Start(d) PROVE Typed'
  BY <1>1, <1>2, RegistersWith DEF Start, Typed
<1>3. ASSUME NEW d \in Dev, Stop(d) PROVE Typed'
  <2> DEFINE c == IF setting.gpt THEN 0 ELSE hw[d].cnt
  <2>1. hw' = [hw EXCEPT ![d].on = FALSE, ![d].cnt = c] /\ UNCHANGED <<alarm, next>>
    BY <1>3 DEF Stop
  <2>2. c \in 0..Top
    BY <1>1, Fields
  <2> QED BY <1>1, <2>1, <2>2, RegistersWith DEF Typed
<1>4. ASSUME NEW d \in Dev, EnableIrq(d) \/ DisableIrq(d) PROVE Typed'
  <2>1. [hw EXCEPT ![d].en = TRUE] \in Registers /\ [hw EXCEPT ![d].en = FALSE] \in Registers
    BY <1>1, RegistersWith
  <2> QED BY <1>1, <1>4, <2>1 DEF EnableIrq, DisableIrq, Typed
<1>5. ASSUME NEW d \in Dev, CancelAlarm(d) PROVE Typed'
  BY <1>1, <1>5, RegistersWith, AlarmsWith DEF CancelAlarm, Typed
<1>6. ASSUME NEW d \in Dev, SetCompare(d) PROVE Typed'
  <2>1. PICK f \in {hw[d].flag, hw[d].flag \/ next = hw[d].cnt} :
            hw' = [hw EXCEPT ![d] = [hw[d] EXCEPT !.cmp = next, !.flag = f]]
    BY <1>6 DEF SetCompare, Compared
  <2>2. f \in BOOLEAN
    BY Fields
  <2>3. hw' \in Registers
    BY <1>1, <2>1, <2>2, RegistersWith
  <2> QED BY <1>1, <1>6, <2>3 DEF SetCompare, Typed
<1>7. ASSUME NEW d \in Dev, NEW f \in Callbacks, NEW flags, flags # "loop",
             NEW t \in 0..Top \cup {LoadTicks},
             flags = "absolute" => t \in 0..Top, Claim(d, f, flags, t)
      PROVE  Typed'
  <2>1. Target(d, flags, t) \in 0..Top
    <3>1. hw[d].cnt + t \in Int
      BY Fields, Bounds
    <3> QED BY <1>7, <3>1, WrapIn DEF Target
  <2>2. /\ alarm' = [alarm EXCEPT ![d] = [@ EXCEPT !.cb = f, !.loop = FALSE]]
        /\ next' = Target(d, flags, t) /\ hw' = hw
    BY <1>7 DEF Claim
  <2> QED BY <1>1, <2>1, <2>2, AlarmsWith DEF Typed
<1>8. /\ Claim("main", "latency", "absolute", time_prog) => Typed'
      /\ Claim("load", "spin", "relative", LoadTicks) => Typed'
  BY <1>1, <1>7
<1> QED BY <1>1, <1>2, <1>3, <1>4, <1>5, <1>6, <1>8 DEF Calls

(* The shape through the tasks' steps, ...                                 *)
LEMMA TaskKeepsShape ==
    ASSUME Shape, NEW p, NEW q, TaskStep(p, q)
    PROVE  Shape'
<1>1. Typed'
  <2>1. CASE Calls(p, q)
    BY <2>1, CallsTyped
  <2>2. CASE UNCHANGED <<hw, alarm, next>>
    BY <2>2 DEF Shape, TypeOK, CounterTypeOK, Typed, Registers, Alarms
  <2> QED BY <2>1, <2>2 DEF TaskStep, CallStep, OtherStep
<1>2. exists' \in [Dev -> BOOLEAN] /\ early' \in [Dev -> BOOLEAN]
  <2>1. hw["main"].flag \in BOOLEAN /\ hw["load"].flag \in BOOLEAN /\ "main" \in Dev
        /\ "load" \in Dev
        /\ exists \in [Dev -> BOOLEAN] /\ early \in [Dev -> BOOLEAN]
    BY Fields DEF Dev, Shape, TypeOK
  <2> QED BY <2>1 DEF TaskStep, CallStep, OtherStep, Others
<1>3. sem' \in Nat /\ irq_load_sem' \in Nat /\ wait' \in 0..Timeout
  <2>1. sem \in Nat /\ irq_load_sem \in Nat /\ wait \in 0..Timeout /\ 0 \in 0..Timeout
    BY Bounds DEF Shape, TypeOK
  <2>2. CASE CallStep(p, q)
    BY <2>1, <2>2 DEF CallStep
  <2>3. CASE Others(p, q)
    <3>1. /\ sem' = sem \/ sem' = 0 \/ (sem > 0 /\ sem' = sem - 1)
          /\ irq_load_sem' = irq_load_sem \/ irq_load_sem' = 0
             \/ (irq_load_sem > 0 /\ irq_load_sem' = irq_load_sem - 1)
          /\ wait' = wait \/ wait' = 0
      BY <2>3 DEF Others
    <3> QED BY <2>1, <3>1
  <2> QED BY <2>2, <2>3 DEF TaskStep, OtherStep
<1>4. time_prog' \in 0..Top /\ time_irq' \in 0..Top
  <2>1. hw["main"].cnt + Ticks \in Int /\ 0 \in 0..Top /\ time_prog \in 0..Top
        /\ time_irq \in 0..Top
    BY Fields, Bounds DEF Dev
  <2> QED BY <2>1, WrapIn DEF TaskStep, CallStep, OtherStep, Others
<1>5. tc_load' \in BOOLEAN /\ (tc_load' => setting.load)
  <2>1. tc_load \in BOOLEAN /\ (tc_load => setting.load) /\ setting.load \in BOOLEAN
    BY Bounds DEF Shape, TypeOK
  <2>2. tc_load' = tc_load \/ tc_load' \in {FALSE, setting.load}
    BY DEF TaskStep, CallStep, OtherStep, Others
  <2>3. CASE tc_load' = tc_load
    BY <2>1, <2>3
  <2>4. CASE tc_load' = FALSE
    BY <2>4
  <2>5. CASE tc_load' = setting.load
    BY <2>1, <2>5
  <2> QED BY <2>2, <2>3, <2>4, <2>5
<1>6. /\ setting' = setting /\ isr' = isr /\ now' = now /\ start' = start /\ lag' = 0
      /\ crashed' = FALSE
      /\ setting.delay \in Nat
  BY Bounds DEF TaskStep, Delay
<1>7. /\ setting \in Settings /\ now \in [Dev -> 0..Top]
      /\ isr \in [Dev -> {"idle", "callback", "spin", "reset"}]
      /\ start \in 0..Top /\ (isr["main"] = "idle" \/ isr["load"] = "idle") /\ isr["main"] # "spin"
  BY DEF Shape, TypeOK, CounterTypeOK
<1>8. CounterTypeOK'
  <2>1. 0 \in 0..setting.delay
    BY <1>6
  <2> QED BY <1>1, <1>6, <1>7, <2>1 DEF CounterTypeOK, Typed, Registers, Alarms
<1>9. TypeOK'
  BY <1>2, <1>3, <1>4, <1>5, <1>6, <1>7, <1>8 DEF TypeOK
<1> QED BY <1>1, <1>5, <1>6, <1>7, <1>9 DEF Shape, Typed

(* ... the interrupts', ...                                                *)
LEMMA InterruptKeepsShape ==
    ASSUME Shape, InterruptStep
    PROVE  Shape'
<1>1. /\ hw \in Registers /\ alarm \in Alarms /\ start \in 0..Top /\ now \in [Dev -> 0..Top]
      /\ isr \in [Dev -> {"idle", "callback", "spin", "reset"}] /\ "main" \in Dev /\ "load" \in Dev
      /\ (isr["main"] = "idle" \/ isr["load"] = "idle") /\ isr["main"] # "spin"
      /\ ~alarm["main"].loop /\ ~alarm["load"].loop /\ "none" \in Callbacks
      /\ \A d \in Dev : hw[d].cnt \in 0..Top /\ now[d] \in 0..Top
      /\ Top \in Nat /\ 0 \in 0..Top /\ sem \in Nat /\ irq_load_sem \in Nat /\ time_irq \in 0..Top
  BY CounterAssumption, Fields DEF Shape, TypeOK, CounterTypeOK, Registers, Alarms, Dev, Callbacks
<1>2. hw' \in Registers
  <2>1. ASSUME NEW d \in Dev, Enters(d) PROVE hw' \in Registers
    <3>1. [hw EXCEPT ![d] = [@ EXCEPT !.en = FALSE, !.flag = FALSE]] \in Registers
      BY <1>1, RegistersWith
    <3> QED BY <2>1, <3>1 DEF Enters
  <2>2. CASE EndsSpin
    <3> DEFINE c == IF setting.gpt THEN 0 ELSE hw["load"].cnt
    <3>1. hw' = [hw EXCEPT !["load"].on = FALSE, !["load"].cnt = c] /\ c \in 0..Top
      BY <1>1, <2>2 DEF EndsSpin
    <3> QED BY <1>1, <3>1, RegistersWith
  <2> QED BY <1>1, <2>1, <2>2 DEF InterruptStep, Gives, StartsSpin, Exits
<1>3. alarm' \in Alarms /\ ~alarm'["main"].loop /\ ~alarm'["load"].loop
  <2>1. ASSUME NEW d \in Dev, Exits(d)
               PROVE alarm' \in Alarms /\ ~alarm'["main"].loop /\ ~alarm'["load"].loop
    BY <1>1, <2>1, AlarmsWith DEF Exits
  <2>2. Exits("main") \/ Exits("load") \/ alarm' = alarm
    BY DEF InterruptStep, Enters, Gives, StartsSpin, EndsSpin
  <2> QED BY <1>1, <2>1, <2>2
<1>4. /\ isr' \in [Dev -> {"idle", "callback", "spin", "reset"}]
      /\ (isr'["main"] = "idle" \/ isr'["load"] = "idle") /\ isr'["main"] # "spin"
  <2>1. CASE Enters("main") \/ Enters("load")
    BY <1>1, <2>1 DEF Enters
  <2>2. CASE Gives \/ StartsSpin \/ EndsSpin
    BY <1>1, <2>2 DEF Gives, StartsSpin, EndsSpin
  <2>3. CASE Exits("main") \/ Exits("load")
    BY <1>1, <2>3 DEF Exits
  <2> QED BY <2>1, <2>2, <2>3 DEF InterruptStep
<1>5. now' \in [Dev -> 0..Top]
  BY <1>1 DEF InterruptStep, Enters, Gives, StartsSpin, EndsSpin, Exits
<1>6. /\ sem' \in Nat /\ irq_load_sem' \in Nat /\ time_irq' \in 0..Top /\ start' \in 0..Top
  <2>1. CASE Enters("main") \/ Enters("load") \/ Exits("main") \/ Exits("load")
    BY <1>1, <2>1 DEF Enters, Exits
  <2>2. CASE Gives
    BY <1>1, <2>2 DEF Gives
  <2>3. CASE StartsSpin \/ EndsSpin
    BY <1>1, <2>3 DEF StartsSpin, EndsSpin
  <2> QED BY <2>1, <2>2, <2>3 DEF InterruptStep
<1>8. crashed' \in BOOLEAN
  <2>1. crashed \in BOOLEAN
    BY DEF Shape, TypeOK
  <2>2. crashed' = crashed \/ crashed' = (crashed \/ ~exists["main"])
        \/ crashed' = (crashed \/ ~exists["load"])
    BY DEF InterruptStep, Enters, Gives, StartsSpin, EndsSpin, Exits
  <2> QED BY <2>1, <2>2
<1>7. /\ UNCHANGED <<setting, next, tc_load, todo, script, wait, exists, time_prog, early>>
      /\ lag' = 0 /\ setting.delay \in Nat
  BY Bounds DEF InterruptStep, Delay
<1> QED BY <1>2, <1>3, <1>4, <1>5, <1>6, <1>7, <1>8
    DEF Shape, TypeOK, CounterTypeOK, Registers, Alarms

(* ... and the clock's.                                                    *)
LEMMA TickKeepsShape ==
    ASSUME Shape, LatencyTick
    PROVE  Shape'
<1>1. hw' \in Registers
  <2>1. ASSUME NEW d \in Dev
        PROVE  Counted(hw[d]) \in [cnt : 0..Top, on : BOOLEAN, cmp : 0..Top, en : BOOLEAN,
                 flag : BOOLEAN]
    <3>1. Wrap(hw[d].cnt + 1) \in 0..Top
      BY Fields, WrapIn
    <3>2. hw[d] \in [cnt : 0..Top, on : BOOLEAN, cmp : 0..Top, en : BOOLEAN, flag : BOOLEAN]
      BY DEF Shape, TypeOK, CounterTypeOK
    <3> QED BY <3>1, <3>2 DEF Counted
  <2> QED BY <2>1 DEF LatencyTick, Tick, Registers
<1>2. lag' \in 0..setting.delay
  <2>1. lag \in Nat /\ setting.delay \in Nat
    BY Fields, Bounds DEF Delay, Dev
  <2> QED BY <2>1, TickSteps DEF Delay
<1>3. wait' \in 0..Timeout
  BY TickSteps, Bounds DEF Shape, TypeOK
<1>4. early' \in [Dev -> BOOLEAN]
  <2>1. early' = [d \in Dev |-> early[d] \/ (Arming(d) /\ hw'[d].flag)]
    BY DEF LatencyTick
  <2>2. \A d \in Dev : (early[d] \/ (Arming(d) /\ hw'[d].flag)) \in BOOLEAN
    BY Fields
  <2> QED BY <2>1, <2>2
<1>5. UNCHANGED <<setting, alarm, next, isr, now, tc_load, todo, script, sem, irq_load_sem, exists,
                 time_prog, time_irq, start, crashed>>
  BY TickSteps
<1> QED BY <1>1, <1>2, <1>3, <1>4, <1>5 DEF Shape, TypeOK, CounterTypeOK, Registers

(* The tasks: the latency alarm, place by place.                           *)
LEMMA MainAlarmOfTask ==
    ASSUME Shape, NEW p \in Places, NEW q \in Places, TaskStep(p, q), MainAlarm(p)
    PROVE  MainAlarm(q)'
<1>0. /\ isr["main"] = "idle" /\ isr["load"] = "idle" /\ isr' = isr /\ lag' = 0 /\ now' = now
      /\ start' = start /\ setting' = setting
      /\ ~(hw["main"].en /\ hw["main"].flag) /\ ~(hw["load"].en /\ hw["load"].flag)
      /\ sem \in Nat /\ irq_load_sem \in Nat /\ wait \in Nat /\ tc_load \in BOOLEAN
      /\ hw["main"].en \in BOOLEAN /\ hw["load"].en \in BOOLEAN
      /\ hw["main"].flag \in BOOLEAN /\ hw["load"].flag \in BOOLEAN
  BY Fields DEF TaskStep, InTask, Pending, Dev, Shape, TypeOK
<1> USE DEF MainAlarm, Idle, Free, Claimed, Armed, Firing, Given, Waited, Over, Callback, Keeps,
    Puts, KeepsTask, ForLoad, LoadSetup, Rounds, Measures, DLoad, DMain
<1>1. CASE p = "start"
  BY <1>0, <1>1, DoesStart
<1>2. CASE p = "load start"
  BY <1>0, <1>2, DoesLoadStart
<1>3. CASE p = "load claim"
  BY <1>0, <1>3, DoesLoadClaim
<1>4. CASE p = "load enable"
  BY <1>0, <1>4, DoesLoadEnable
<1>5. CASE p = "load compare"
  BY <1>0, <1>5, DoesLoadCompare
<1>6. CASE p = "seminit"
  BY <1>0, <1>6, DoesSeminit
<1>7. CASE p = "prog"
  BY <1>0, <1>7, DoesProg
<1>8. CASE p = "claim"
  BY <1>0, <1>8, DoesClaim
<1>9. CASE p = "enable"
  BY <1>0, <1>9, DoesEnable
<1>10. CASE p = "compare"
  BY <1>0, <1>10, DoesCompare
<1>11. CASE p = "take"
  <2>0. (Armed("main") /\ ~hw["main"].flag /\ sem = 0) \/ (Free("main") /\ sem = 1)
    BY <1>0, <1>11 DEF MainAlarm, Waited, Over, Given, Firing, Armed
  <2>9. UNCHANGED <<tc_load, irq_load_sem, exists, time_prog, time_irq>> /\ Keeps("main")
        /\ Keeps("load") /\ next' = next /\ early' = early
    BY <1>11, DoesTake
  <2>1. CASE q = "now" /\ sem > 0 /\ sem' = sem - 1 /\ wait' = 0
    BY <1>0, <1>11, <2>0, <2>9, <2>1
  <2>2. CASE q = "disable" /\ sem = 0 /\ wait = Timeout /\ wait' = 0 /\ sem' = sem
    BY <1>0, <1>11, <2>0, <2>9, <2>2
  <2>3. CASE tc_load /\ q = "d load stop" /\ wait' = 0 /\ sem' = sem
    BY <1>0, <1>11, <2>0, <2>9, <2>3
  <2>4. CASE ~tc_load /\ q = "d stop" /\ wait' = 0 /\ sem' = sem
    BY <1>0, <1>11, <2>0, <2>9, <2>4
  <2> QED BY <1>0, <1>11, DoesTake, <2>1, <2>2, <2>3, <2>4
<1>12. CASE p = "disable"
  BY <1>0, <1>12, DoesDisable
<1>13. CASE p = "clear"
  BY <1>0, <1>13, DoesClear
<1>14. CASE p = "now"
  BY <1>0, <1>14, DoesNow
<1>15. CASE p = "stop"
  BY <1>0, <1>15, DoesStop
<1>16. CASE p = "load take"
  <2>9. (wait' = wait \/ wait' = 0) /\ UNCHANGED <<tc_load, sem, exists, time_prog, time_irq>>
        /\ Keeps("main") /\ Keeps("load") /\ next' = next /\ early' = early
    BY <1>16, DoesLoadTake
  <2>1. CASE q = "start" /\ irq_load_sem > 0 /\ irq_load_sem' = irq_load_sem - 1
    BY <1>0, <1>16, <2>9, <2>1
  <2>2. CASE tc_load /\ q = "d load stop" /\ irq_load_sem' = irq_load_sem
    BY <1>0, <1>16, <2>9, <2>2
  <2>3. CASE ~tc_load /\ q = "d stop" /\ irq_load_sem' = irq_load_sem
    BY <1>0, <1>16, <2>9, <2>3
  <2> QED BY <1>0, <1>16, DoesLoadTake, <2>1, <2>2, <2>3
<1>17. CASE p = "d load stop"
  BY <1>0, <1>17, DoesDLoadStop
<1>18. CASE p = "d load disable"
  BY <1>0, <1>18, DoesDLoadDisable
<1>19. CASE p = "d load clear"
  BY <1>0, <1>19, DoesDLoadClear
<1>20. CASE p = "d load semdel"
  BY <1>0, <1>20, DoesDLoadSemdel
<1>21. CASE p = "d stop"
  BY <1>0, <1>21, DoesDStop
<1>22. CASE p = "d disable"
  BY <1>0, <1>22, DoesDDisable
<1>23. CASE p = "d clear"
  BY <1>0, <1>23, DoesDClear
<1>24. CASE p = "d semdel"
  BY <1>0, <1>24, DoesDSemdel
<1>25. CASE p = "d seminit"
  BY <1>0, <1>25, DoesDSeminit
<1> QED BY <1>1, <1>2, <1>3, <1>4, <1>5, <1>6, <1>7, <1>8, <1>9, <1>10, <1>11, <1>12, <1>13,
    <1>14, <1>15, <1>16, <1>17, <1>18, <1>19, <1>20, <1>21, <1>22, <1>23, <1>24,
    <1>25 DEF Places, LoadSetup, Rounds, Measures, DLoad, DMain

(* The tasks: the load alarm, place by place.                              *)
LEMMA LoadAlarmOfTask ==
    ASSUME Shape, NEW p \in Places, NEW q \in Places, TaskStep(p, q), LoadAlarm(p),
           ForLoad(p) => tc_load
    PROVE  LoadAlarm(q)'
<1>0. /\ isr["main"] = "idle" /\ isr["load"] = "idle" /\ isr' = isr /\ lag' = 0 /\ now' = now
      /\ start' = start /\ setting' = setting
      /\ ~(hw["main"].en /\ hw["main"].flag) /\ ~(hw["load"].en /\ hw["load"].flag)
      /\ sem \in Nat /\ irq_load_sem \in Nat /\ wait \in Nat /\ tc_load \in BOOLEAN
      /\ hw["main"].en \in BOOLEAN /\ hw["load"].en \in BOOLEAN
      /\ hw["main"].flag \in BOOLEAN /\ hw["load"].flag \in BOOLEAN
  BY Fields DEF TaskStep, InTask, Pending, Dev, Shape, TypeOK
<1> USE DEF LoadAlarm, Idle, Free, Claimed, Armed, Firing, Given, Waited, Over, Callback, Keeps,
    Puts, KeepsTask, ForLoad, LoadSetup, Rounds, Measures, DLoad, DMain
<1>1. CASE p = "start"
  BY <1>0, <1>1, DoesStart
<1>2. CASE p = "load start"
  BY <1>0, <1>2, DoesLoadStart
<1>3. CASE p = "load claim"
  BY <1>0, <1>3, DoesLoadClaim
<1>4. CASE p = "load enable"
  BY <1>0, <1>4, DoesLoadEnable
<1>5. CASE p = "load compare"
  BY <1>0, <1>5, DoesLoadCompare
<1>6. CASE p = "seminit"
  BY <1>0, <1>6, DoesSeminit
<1>7. CASE p = "prog"
  BY <1>0, <1>7, DoesProg
<1>8. CASE p = "claim"
  BY <1>0, <1>8, DoesClaim
<1>9. CASE p = "enable"
  BY <1>0, <1>9, DoesEnable
<1>10. CASE p = "compare"
  BY <1>0, <1>10, DoesCompare
<1>11. CASE p = "take"
  <2>9. UNCHANGED <<tc_load, irq_load_sem, exists, time_prog, time_irq>> /\ Keeps("main")
        /\ Keeps("load") /\ next' = next /\ early' = early
    BY <1>11, DoesTake
  <2>1. CASE q = "now" /\ sem > 0 /\ sem' = sem - 1 /\ wait' = 0
    BY <1>0, <1>11, <2>9, <2>1
  <2>2. CASE q = "disable" /\ sem = 0 /\ wait = Timeout /\ wait' = 0 /\ sem' = sem
    BY <1>0, <1>11, <2>9, <2>2
  <2>3. CASE tc_load /\ q = "d load stop" /\ wait' = 0 /\ sem' = sem
    BY <1>0, <1>11, <2>9, <2>3
  <2>4. CASE ~tc_load /\ q = "d stop" /\ wait' = 0 /\ sem' = sem
    BY <1>0, <1>11, <2>9, <2>4
  <2> QED BY <1>0, <1>11, DoesTake, <2>1, <2>2, <2>3, <2>4
<1>12. CASE p = "disable"
  BY <1>0, <1>12, DoesDisable
<1>13. CASE p = "clear"
  BY <1>0, <1>13, DoesClear
<1>14. CASE p = "now"
  BY <1>0, <1>14, DoesNow
<1>15. CASE p = "stop"
  BY <1>0, <1>15, DoesStop
<1>16. CASE p = "load take"
  <2> HIDE DEF LoadAlarm, Idle, Free, Claimed, Armed, Firing, Given, Waited, Over, Callback,
      Keeps, Puts, KeepsTask, ForLoad, LoadSetup, Rounds, Measures, DLoad, DMain
  <2>0. tc_load /\ exists["load"] /\ (Armed("load") \/ Free("load"))
        /\ (irq_load_sem > 0 => Free("load"))
    <3>1. tc_load
      BY <1>16 DEF ForLoad
    <3>2. p \in Rounds \cup Measures /\ p \in Rounds \cup Measures \cup DLoad
      BY <1>16 DEF Measures
    <3>3. /\ exists["load"]
          /\ \/ Waited("load") /\ irq_load_sem = 0
             \/ Given("load") /\ irq_load_sem = 1
             \/ Free("load") /\ irq_load_sem \in {0, 1}
      BY <3>1, <3>2 DEF LoadAlarm
    <3>4. ~Given("load") /\ ~Firing("load")
      BY <1>0 DEF Given, Firing
    <3> QED BY <3>1, <3>3, <3>4 DEF Waited
  <2>9. (wait' = wait \/ wait' = 0) /\ UNCHANGED <<tc_load, sem, exists, time_prog, time_irq>>
        /\ Keeps("main") /\ Keeps("load") /\ next' = next /\ early' = early
    BY <1>16, DoesLoadTake
  <2>1. CASE q = "start" /\ irq_load_sem > 0 /\ irq_load_sem' = irq_load_sem - 1
    BY <1>0, <1>16, <2>0, <2>9, <2>1
        DEF LoadAlarm, Idle, Free, Claimed, Armed, Firing, Given, Waited, Over, Callback, Keeps,
        Puts, KeepsTask, ForLoad, LoadSetup, Rounds, Measures, DLoad, DMain
  <2>2. CASE tc_load /\ q = "d load stop" /\ irq_load_sem' = irq_load_sem
    BY <1>0, <1>16, <2>0, <2>9, <2>2
        DEF LoadAlarm, Idle, Free, Claimed, Armed, Firing, Given, Waited, Over, Callback, Keeps,
        Puts, KeepsTask, ForLoad, LoadSetup, Rounds, Measures, DLoad, DMain
  <2>3. CASE ~tc_load /\ q = "d stop" /\ irq_load_sem' = irq_load_sem
    BY <1>0, <1>16, <2>0, <2>9, <2>3
        DEF LoadAlarm, Idle, Free, Claimed, Armed, Firing, Given, Waited, Over, Callback, Keeps,
        Puts, KeepsTask, ForLoad, LoadSetup, Rounds, Measures, DLoad, DMain
  <2> QED BY <1>0, <1>16, DoesLoadTake, <2>1, <2>2, <2>3
<1>17. CASE p = "d load stop"
  BY <1>0, <1>17, DoesDLoadStop
<1>18. CASE p = "d load disable"
  BY <1>0, <1>18, DoesDLoadDisable
<1>19. CASE p = "d load clear"
  BY <1>0, <1>19, DoesDLoadClear
<1>20. CASE p = "d load semdel"
  BY <1>0, <1>20, DoesDLoadSemdel
<1>21. CASE p = "d stop"
  BY <1>0, <1>21, DoesDStop
<1>22. CASE p = "d disable"
  BY <1>0, <1>22, DoesDDisable
<1>23. CASE p = "d clear"
  BY <1>0, <1>23, DoesDClear
<1>24. CASE p = "d semdel"
  BY <1>0, <1>24, DoesDSemdel
<1>25. CASE p = "d seminit"
  BY <1>0, <1>25, DoesDSeminit
<1> QED BY <1>1, <1>2, <1>3, <1>4, <1>5, <1>6, <1>7, <1>8, <1>9, <1>10, <1>11, <1>12, <1>13,
    <1>14, <1>15, <1>16, <1>17, <1>18, <1>19, <1>20, <1>21, <1>22, <1>23, <1>24,
    <1>25 DEF Places, LoadSetup, Rounds, Measures, DLoad, DMain

(* The tasks: the time the load alarm has left. From its claim on, each    *)
(* call may be late by an interrupt delay, so the assumption that three    *)
(* delays are less than the period (rt_latency.c:133-144) keeps it ahead   *)
(* of the compare register until its semaphore is made.                    *)
LEMMA LoadDueOfTask ==
    ASSUME Shape, NEW p \in Places, NEW q \in Places, TaskStep(p, q), LoadAlarm(p), LoadDue(p),
           ForLoad(p) => tc_load
    PROVE  LoadDue(q)'
<1>0. /\ isr["main"] = "idle" /\ isr["load"] = "idle" /\ isr' = isr /\ lag' = 0 /\ now' = now
      /\ start' = start /\ setting' = setting
      /\ ~(hw["main"].en /\ hw["main"].flag) /\ ~(hw["load"].en /\ hw["load"].flag)
      /\ sem \in Nat /\ irq_load_sem \in Nat /\ wait \in Nat /\ tc_load \in BOOLEAN
      /\ hw["main"].en \in BOOLEAN /\ hw["load"].en \in BOOLEAN
      /\ hw["main"].flag \in BOOLEAN /\ hw["load"].flag \in BOOLEAN
  BY Fields DEF TaskStep, InTask, Pending, Dev, Shape, TypeOK
<1> USE DEF LoadDue, Idle, Free, Claimed, Armed, Firing, Given, Waited, Over, Callback, Keeps,
    Puts, KeepsTask, ForLoad, LoadSetup, Rounds, Measures, DLoad, DMain, LoadAlarm, Due
<1>1. CASE p = "start"
  BY <1>0, <1>1, DoesStart
<1>2. CASE p = "load start"
  BY <1>0, <1>2, DoesLoadStart
<1>3. CASE p = "load claim"
  <2> HIDE DEF LoadDue, Idle, Free, Claimed, Armed, Firing, Given, Waited, Over, Callback,
      Keeps, Puts, KeepsTask, ForLoad, LoadSetup, Rounds, Measures, DLoad, DMain, LoadAlarm, Due
  <2>0. "load" \in Dev /\ tc_load /\ setting' = setting /\ LoadTicks \in 0..Top
    <3>1. tc_load
      BY <1>3 DEF ForLoad, LoadSetup
    <3>2. LoadTicks \in 0..Top
      BY Bounds
    <3> QED BY <1>0, <3>1, <3>2 DEF Dev
  <2>1. /\ Top \in Nat /\ Delay \in Nat /\ LoadTicks \in Nat /\ LoadTicks \in 0..Top
        /\ lag \in 0..Delay /\ setting.load
        /\ 3 * Delay < LoadTicks /\ hw["load"].cnt \in 0..Top /\ next \in 0..Top /\ tc_load
        /\ Delay' = Delay
    BY <2>0, Bounds, Fields DEF Shape, Delay
  <2>2. Wrap(Wrap(hw["load"].cnt + LoadTicks) - hw["load"].cnt) = LoadTicks
    BY <2>1, WrapAhead
  <2>3. Due(next)' = LoadTicks
    BY <1>0, <1>3, <2>2, DoesLoadClaim DEF Due, Puts
  <2>4. Due(next)' \in (LoadTicks - lag')..LoadTicks
    BY <1>0, <2>1, <2>3
  <2> QED BY <1>0, <1>3, <2>1, <2>4, DoesLoadClaim
      DEF LoadDue, Idle, Free, Claimed, Armed, Firing, Given, Waited, Over, Callback, Keeps,
      Puts, KeepsTask, ForLoad, LoadSetup, Rounds, Measures, DLoad, DMain, LoadAlarm
<1>4. CASE p = "load enable"
  <2> HIDE DEF LoadDue, Idle, Free, Claimed, Armed, Firing, Given, Waited, Over, Callback,
      Keeps, Puts, KeepsTask, ForLoad, LoadSetup, Rounds, Measures, DLoad, DMain, LoadAlarm, Due
  <2>0. "load" \in Dev /\ tc_load /\ setting' = setting /\ LoadTicks \in 0..Top
    <3>1. tc_load
      BY <1>4 DEF ForLoad, LoadSetup
    <3>2. LoadTicks \in 0..Top
      BY Bounds
    <3> QED BY <1>0, <3>1, <3>2 DEF Dev
  <2>1. /\ Top \in Nat /\ Delay \in Nat /\ LoadTicks \in Nat /\ LoadTicks \in 0..Top
        /\ lag \in 0..Delay /\ setting.load
        /\ 3 * Delay < LoadTicks /\ hw["load"].cnt \in 0..Top /\ next \in 0..Top /\ tc_load
        /\ Delay' = Delay
    BY <2>0, Bounds, Fields DEF Shape, Delay
  <2>2. Due(next)' = Due(next)
    BY <1>4, DoesLoadEnable DEF Due, Puts
  <2>3. Due(next)' \in (LoadTicks - Delay - lag')..LoadTicks
    <3>1. Due(next) \in (LoadTicks - lag)..LoadTicks
      BY <1>4 DEF LoadDue
    <3> QED BY <1>0, <2>1, <2>2, <3>1
  <2> QED BY <1>0, <1>4, <2>1, <2>3, DoesLoadEnable
      DEF LoadDue, Idle, Free, Claimed, Armed, Firing, Given, Waited, Over, Callback, Keeps,
      Puts, KeepsTask, ForLoad, LoadSetup, Rounds, Measures, DLoad, DMain, LoadAlarm
<1>5. CASE p = "load compare"
  <2> HIDE DEF LoadDue, Idle, Free, Claimed, Armed, Firing, Given, Waited, Over, Callback,
      Keeps, Puts, KeepsTask, ForLoad, LoadSetup, Rounds, Measures, DLoad, DMain, LoadAlarm, Due
  <2>0. "load" \in Dev /\ tc_load /\ setting' = setting /\ LoadTicks \in 0..Top
    <3>1. tc_load
      BY <1>5 DEF ForLoad, LoadSetup
    <3>2. LoadTicks \in 0..Top
      BY Bounds
    <3> QED BY <1>0, <3>1, <3>2 DEF Dev
  <2>1. /\ Top \in Nat /\ Delay \in Nat /\ LoadTicks \in Nat /\ LoadTicks \in 0..Top
        /\ lag \in 0..Delay /\ setting.load
        /\ 3 * Delay < LoadTicks /\ hw["load"].cnt \in 0..Top /\ next \in 0..Top /\ tc_load
        /\ Delay' = Delay
    BY <2>0, Bounds, Fields DEF Shape, Delay
  <2> DEFINE n == Due(next)
  <2>9. Due(hw["load"].cmp)' = n
    BY <1>5, DoesLoadCompare DEF Due, Puts
  <2>3. ASSUME Armed("load"), ~hw["load"].flag
               PROVE /\ n \in (LoadTicks - 2 * Delay - lag')..LoadTicks /\ ~hw'["load"].flag
    <3>1. n \in (LoadTicks - Delay - lag)..LoadTicks
      BY <1>5, <2>3 DEF LoadDue
    <3>2. next = hw["load"].cnt => n = 0
      <4>1. next = hw["load"].cnt => next - hw["load"].cnt = 0 /\ 0 \in 0..Top
        BY <2>1
      <4> QED BY <4>1, WrapSmall DEF Due
    <3> HIDE DEF n
    <3>3. n >= 1
      BY <2>1, <3>1
    <3>4. ~hw'["load"].flag
      <4>1. hw'["load"].flag => hw["load"].flag \/ next = hw["load"].cnt
        BY <1>5, DoesLoadCompare
      <4> QED BY <2>3, <3>2, <3>3, <4>1
    <3> QED BY <1>0, <2>1, <3>1, <3>4
  <2>4. Waited("load")' => Armed("load") /\ ~hw["load"].flag /\ Armed("load")'
    BY <1>0, <1>5, DoesLoadCompare DEF Waited, Armed, Firing, Puts
  <2>5. Waited("load")'
        => Armed("load")' /\ ~hw'["load"].flag
           /\ Due(hw["load"].cmp)' \in (LoadTicks - 2 * Delay - lag')..LoadTicks
    BY <2>3, <2>4, <2>9
  <2> QED BY <1>0, <1>5, <2>1, <2>5, DoesLoadCompare
      DEF LoadDue, Idle, Free, Claimed, Armed, Firing, Given, Waited, Over, Callback, Keeps,
      Puts, KeepsTask, ForLoad, LoadSetup, Rounds, Measures, DLoad, DMain, LoadAlarm
<1>6. CASE p = "seminit"
  <2> HIDE DEF LoadDue, Idle, Free, Claimed, Armed, Firing, Given, Waited, Over, Callback,
      Keeps, Puts, KeepsTask, ForLoad, LoadSetup, Rounds, Measures, DLoad, DMain, LoadAlarm, Due
  <2>0. "load" \in Dev /\ tc_load /\ setting' = setting /\ LoadTicks \in 0..Top
    <3>1. tc_load
      BY <1>6 DEF ForLoad, LoadSetup
    <3>2. LoadTicks \in 0..Top
      BY Bounds
    <3> QED BY <1>0, <3>1, <3>2 DEF Dev
  <2>1. /\ Top \in Nat /\ Delay \in Nat /\ LoadTicks \in Nat /\ LoadTicks \in 0..Top
        /\ lag \in 0..Delay /\ setting.load
        /\ 3 * Delay < LoadTicks /\ hw["load"].cnt \in 0..Top /\ next \in 0..Top /\ tc_load
        /\ Delay' = Delay
    BY <2>0, Bounds, Fields DEF Shape, Delay
  <2>2. Due(hw["load"].cmp)' = Due(hw["load"].cmp)
    BY <1>6, DoesSeminit DEF Due, Keeps, Puts
  <2>3. Armed("load") => Due(hw["load"].cmp)' \in 1..LoadTicks
    <3>1. Armed("load") => Due(hw["load"].cmp) \in (LoadTicks - 2 * Delay - lag)..LoadTicks
      BY <1>6 DEF LoadDue, Waited
    <3> QED BY <2>1, <2>2, <3>1
  <2>4. Armed("load")' <=> Armed("load")
    BY <1>0, <1>6, DoesSeminit DEF Armed, Keeps, Puts
  <2> QED BY <1>0, <1>6, <2>1, <2>3, <2>4, DoesSeminit
      DEF LoadDue, Idle, Free, Claimed, Armed, Firing, Given, Waited, Over, Callback, Keeps,
      Puts, KeepsTask, ForLoad, LoadSetup, Rounds, Measures, DLoad, DMain, LoadAlarm
<1>7. CASE p = "prog"
  BY <1>0, <1>7, DoesProg
<1>8. CASE p = "claim"
  BY <1>0, <1>8, DoesClaim
<1>9. CASE p = "enable"
  BY <1>0, <1>9, DoesEnable
<1>10. CASE p = "compare"
  BY <1>0, <1>10, DoesCompare
<1>11. CASE p = "take"
  <2> HIDE DEF LoadDue, Idle, Free, Claimed, Armed, Firing, Given, Waited, Over, Callback,
      Keeps, Puts, KeepsTask, ForLoad, LoadSetup, Rounds, Measures, DLoad, DMain, LoadAlarm, Due
  <2>9. UNCHANGED <<tc_load, irq_load_sem, exists, time_prog, time_irq>> /\ Keeps("main")
        /\ Keeps("load") /\ next' = next /\ early' = early
    BY <1>11, DoesTake
  <2>1. CASE q = "now" /\ sem > 0 /\ sem' = sem - 1 /\ wait' = 0
    BY <1>0, <1>11, <2>9, <2>1
        DEF LoadDue, Idle, Free, Claimed, Armed, Firing, Given, Waited, Over, Callback, Keeps,
        Puts, KeepsTask, ForLoad, LoadSetup, Rounds, Measures, DLoad, DMain, LoadAlarm, Due
  <2>2. CASE q = "disable" /\ sem = 0 /\ wait = Timeout /\ wait' = 0 /\ sem' = sem
    BY <1>0, <1>11, <2>9, <2>2
        DEF LoadDue, Idle, Free, Claimed, Armed, Firing, Given, Waited, Over, Callback, Keeps,
        Puts, KeepsTask, ForLoad, LoadSetup, Rounds, Measures, DLoad, DMain, LoadAlarm, Due
  <2>3. CASE tc_load /\ q = "d load stop" /\ wait' = 0 /\ sem' = sem
    BY <1>0, <1>11, <2>9, <2>3
        DEF LoadDue, Idle, Free, Claimed, Armed, Firing, Given, Waited, Over, Callback, Keeps,
        Puts, KeepsTask, ForLoad, LoadSetup, Rounds, Measures, DLoad, DMain, LoadAlarm, Due
  <2>4. CASE ~tc_load /\ q = "d stop" /\ wait' = 0 /\ sem' = sem
    BY <1>0, <1>11, <2>9, <2>4
        DEF LoadDue, Idle, Free, Claimed, Armed, Firing, Given, Waited, Over, Callback, Keeps,
        Puts, KeepsTask, ForLoad, LoadSetup, Rounds, Measures, DLoad, DMain, LoadAlarm, Due
  <2> QED BY <1>0, <1>11, DoesTake, <2>1, <2>2, <2>3, <2>4
<1>12. CASE p = "disable"
  BY <1>0, <1>12, DoesDisable
<1>13. CASE p = "clear"
  BY <1>0, <1>13, DoesClear
<1>14. CASE p = "now"
  BY <1>0, <1>14, DoesNow
<1>15. CASE p = "stop"
  BY <1>0, <1>15, DoesStop
<1>16. CASE p = "load take"
  <2> HIDE DEF LoadDue, Idle, Free, Claimed, Armed, Firing, Given, Waited, Over, Callback,
      Keeps, Puts, KeepsTask, ForLoad, LoadSetup, Rounds, Measures, DLoad, DMain, LoadAlarm, Due
  <2>9. (wait' = wait \/ wait' = 0) /\ UNCHANGED <<tc_load, sem, exists, time_prog, time_irq>>
        /\ Keeps("main") /\ Keeps("load") /\ next' = next /\ early' = early
    BY <1>16, DoesLoadTake
  <2>1. CASE q = "start" /\ irq_load_sem > 0 /\ irq_load_sem' = irq_load_sem - 1
    BY <1>0, <1>16, <2>9, <2>1
        DEF LoadDue, Idle, Free, Claimed, Armed, Firing, Given, Waited, Over, Callback, Keeps,
        Puts, KeepsTask, ForLoad, LoadSetup, Rounds, Measures, DLoad, DMain, LoadAlarm, Due
  <2>2. CASE tc_load /\ q = "d load stop" /\ irq_load_sem' = irq_load_sem
    BY <1>0, <1>16, <2>9, <2>2
        DEF LoadDue, Idle, Free, Claimed, Armed, Firing, Given, Waited, Over, Callback, Keeps,
        Puts, KeepsTask, ForLoad, LoadSetup, Rounds, Measures, DLoad, DMain, LoadAlarm, Due
  <2>3. CASE ~tc_load /\ q = "d stop" /\ irq_load_sem' = irq_load_sem
    BY <1>0, <1>16, <2>9, <2>3
        DEF LoadDue, Idle, Free, Claimed, Armed, Firing, Given, Waited, Over, Callback, Keeps,
        Puts, KeepsTask, ForLoad, LoadSetup, Rounds, Measures, DLoad, DMain, LoadAlarm, Due
  <2> QED BY <1>0, <1>16, DoesLoadTake, <2>1, <2>2, <2>3
<1>17. CASE p = "d load stop"
  BY <1>0, <1>17, DoesDLoadStop
<1>18. CASE p = "d load disable"
  BY <1>0, <1>18, DoesDLoadDisable
<1>19. CASE p = "d load clear"
  BY <1>0, <1>19, DoesDLoadClear
<1>20. CASE p = "d load semdel"
  BY <1>0, <1>20, DoesDLoadSemdel
<1>21. CASE p = "d stop"
  BY <1>0, <1>21, DoesDStop
<1>22. CASE p = "d disable"
  BY <1>0, <1>22, DoesDDisable
<1>23. CASE p = "d clear"
  BY <1>0, <1>23, DoesDClear
<1>24. CASE p = "d semdel"
  BY <1>0, <1>24, DoesDSemdel
<1>25. CASE p = "d seminit"
  BY <1>0, <1>25, DoesDSeminit
<1> QED BY <1>1, <1>2, <1>3, <1>4, <1>5, <1>6, <1>7, <1>8, <1>9, <1>10, <1>11, <1>12, <1>13,
    <1>14, <1>15, <1>16, <1>17, <1>18, <1>19, <1>20, <1>21, <1>22, <1>23, <1>24,
    <1>25 DEF Places, LoadSetup, Rounds, Measures, DLoad, DMain

-----------------------------------------------------------------------------
(* The time of a round.                                                    *)

(* The handler of the load alarm takes that much of it, ...                *)
LEMMA LoadSpentIn ==
    ASSUME Shape, NEW p \in Rounds \cup Measures, LoadDue(p)
    PROVE  /\ LoadSpent \in Nat
           /\ ~tc_load => LoadSpent <= Delay
           /\ tc_load => LoadSpent <= 5 * Delay + Spin + 1
<1>1. /\ Top \in Nat /\ Delay \in Nat /\ Spin \in Nat /\ lag \in Nat /\ lag <= Delay
  BY Bounds, Fields DEF Dev
<1>2. Spun \in Nat
  <2>1. hw["load"].cnt - start \in Int
    BY Fields DEF Dev
  <2> QED BY <2>1, WrapIn, <1>1 DEF Spun
<1>3. isr["load"] = "spin" => Spun <= Spin + 1 + lag
  BY DEF LoadDue, Rounds, Measures, DLoad
<1> QED BY <1>1, <1>2, <1>3 DEF LoadSpent

(* ... and all of it is less than a turn of the counter.                   *)
LEMMA RoundInWidth ==
    ASSUME Shape, NEW p \in Rounds, LoadDue(p), NEW e \in Nat, RoundAt(p, e)
    PROVE  e - Ticks \in (-Top)..Top /\ e + 1 - Ticks \in (-Top)..Top
<1>1. /\ Top \in Nat /\ Delay \in Nat /\ Spin \in Nat /\ Timeout \in Nat /\ Ticks \in Nat
      /\ LoadTicks \in Nat
      /\ Timeout + Spin + 8 * Delay < Top /\ Ticks < Timeout /\ LoadTicks < Ticks
      /\ tc_load => 3 * Delay < LoadTicks
      /\ wait \in Nat /\ wait <= Timeout /\ tc_load \in BOOLEAN
  BY Bounds DEF Shape, TypeOK
<1>2. LoadSpent \in Nat /\ (~tc_load => LoadSpent <= Delay)
      /\ (tc_load => LoadSpent <= 5 * Delay + Spin + 1)
  BY LoadSpentIn
<1>3. RoundSpent(p) <= LoadSpent + 4 * Delay + Timeout
  BY <1>1, <1>2 DEF RoundSpent
<1>4. e <= RoundSpent(p)
  BY DEF RoundAt
<1>5. RoundSpent(p) \in Nat
  BY <1>1, <1>2 DEF RoundSpent
<1>6. CASE tc_load
  BY <1>1, <1>2, <1>3, <1>4, <1>5, <1>6
<1>7. CASE ~tc_load
  BY <1>1, <1>2, <1>3, <1>4, <1>5, <1>7
<1> QED BY <1>1, <1>6, <1>7

(* Between two steps of a task it does not go on.                          *)
LEMMA LoadSpentAtRest ==
    ASSUME Shape, NEW p, NEW q, TaskStep(p, q), Keeps("load"), tc_load' = tc_load
    PROVE  /\ \E b \in Nat : LoadSpent' = b /\ LoadSpent \in Nat /\ LoadSpent <= b + Delay
           /\ \E b \in Nat : LateBy' = b
           /\ Armed("load")' <=> Armed("load")
<1>1. /\ Delay \in Nat /\ Spin \in Nat /\ lag \in Nat /\ lag <= Delay
      /\ tc_load \in BOOLEAN /\ setting.load \in BOOLEAN
  BY Bounds, Fields DEF Dev, Shape, TypeOK
<1>2. /\ isr["load"] = "idle" /\ isr' = isr /\ lag' = 0 /\ setting' = setting
      /\ ~(hw["load"].en /\ hw["load"].flag)
  BY DEF TaskStep, InTask, Pending, Dev
<1>3. Armed("load")' <=> Armed("load")
  BY <1>2 DEF Armed, Keeps, Puts
<1> DEFINE b == IF ~tc_load \/ Armed("load") THEN 0 ELSE 4 * Delay + Spin + 1
           c == IF Armed("load") \/ ~setting.load THEN 0 ELSE 4 * Delay + Spin
<1>4. LoadSpent \in Nat /\ b \in Nat /\ LoadSpent <= b + Delay
  BY <1>1, <1>2 DEF LoadSpent
<1>5. LoadSpent' = b
  BY <1>1, <1>2, <1>3 DEF LoadSpent, Delay
<1>6. c \in Nat
  BY <1>1
<1>7. Armed("load") => ~hw'["load"].flag
  BY <1>2 DEF Armed, Keeps, Puts
<1>8. LateBy' = c
  BY <1>1, <1>2, <1>3, <1>7 DEF LateBy, Delay
<1> QED BY <1>3, <1>4, <1>5, <1>6, <1>8

(* A step of the task in a round takes at most Delay.                      *)
LEMMA RoundGoesOn ==
    ASSUME Shape, NEW p, NEW q, TaskStep(p, q), NEW e \in Nat, RoundAt(p, e), LoadDue(p),
           \/ (p = "claim" /\ q = "enable") \/ (p = "enable" /\ q = "compare")
           \/ (p = "compare" /\ q = "take") \/ (p = "take" /\ q = "disable"),
           Keeps("load"), tc_load' = tc_load, time_prog' = time_prog,
           hw'["main"].cnt = hw["main"].cnt
    PROVE  /\ e <= RoundSpent(q)' /\ Since(e)'
           /\ Armed("load")' /\ ~hw'["load"].flag => (Due(hw["load"].cmp) + e < Ticks)'
<1>1. /\ Delay \in Nat /\ Spin \in Nat /\ lag \in Nat /\ lag <= Delay /\ wait \in Nat
      /\ wait <= Timeout /\ Timeout \in Nat
      /\ tc_load \in BOOLEAN
  BY Bounds, Fields DEF Dev, Shape, TypeOK
<1>2. /\ isr["load"] = "idle" /\ isr' = isr /\ lag' = 0 /\ setting' = setting /\ wait' \in Nat
  BY TaskKeepsShape DEF TaskStep, InTask, Dev, Shape, TypeOK
<1>3. Armed("load")' <=> Armed("load")
  BY LoadSpentAtRest
<1>4. PICK b \in Nat : LoadSpent' = b /\ LoadSpent \in Nat /\ LoadSpent <= b + Delay
  BY LoadSpentAtRest
<1>5. Delay' = Delay
  BY <1>2 DEF Delay
<1>6. e <= RoundSpent(q)'
  <2>1. CASE p = "claim" /\ q = "enable"
    <3>1. e <= LoadSpent + (0)
      BY <2>1 DEF RoundAt, RoundSpent
    <3>2. e <= b + (Delay)
      BY <1>1, <1>2, <1>4, <3>1
    <3>3. RoundSpent(q)' = b + (Delay)
      BY <1>4, <1>5, <2>1 DEF RoundSpent
    <3> QED BY <3>2, <3>3
  <2>2. CASE p = "enable" /\ q = "compare"
    <3>1. e <= LoadSpent + (Delay)
      BY <2>2 DEF RoundAt, RoundSpent
    <3>2. e <= b + (2 * Delay)
      BY <1>1, <1>2, <1>4, <3>1
    <3>3. RoundSpent(q)' = b + (2 * Delay)
      BY <1>4, <1>5, <2>2 DEF RoundSpent
    <3> QED BY <3>2, <3>3
  <2>3. CASE p = "compare" /\ q = "take"
    <3>1. e <= LoadSpent + (2 * Delay)
      BY <2>3 DEF RoundAt, RoundSpent
    <3>4. wait' \in Nat /\ e <= b + 3 * Delay
      BY <1>1, <1>2, <1>4, <3>1
    <3>5. PICK w \in Nat : w = wait'
      BY <3>4
    <3>2. e <= b + (3 * Delay + w)
      BY <1>1, <1>4, <3>4
    <3>3. RoundSpent(q)' = b + (3 * Delay + w)
      BY <1>4, <1>5, <2>3, <3>5 DEF RoundSpent
    <3> QED BY <3>2, <3>3
  <2>4. CASE p = "take" /\ q = "disable"
    <3>1. e <= LoadSpent + (3 * Delay + wait)
      BY <2>4 DEF RoundAt, RoundSpent
    <3>2. e <= b + (4 * Delay + Timeout)
      BY <1>1, <1>2, <1>4, <3>1
    <3>3. RoundSpent(q)' = b + (4 * Delay + Timeout)
      BY <1>4, <1>5, <2>4 DEF RoundSpent
    <3> QED BY <3>2, <3>3
  <2> QED BY <2>1, <2>2, <2>3, <2>4
<1>8. e <= RoundSpent(p) /\ Since(e) /\ p # "disable"
  BY DEF RoundAt
<1>9. Since(e)'
  BY <1>8 DEF Since
<1>10. Armed("load") /\ ~hw["load"].flag => Due(hw["load"].cmp) + e < Ticks
  BY <1>8 DEF RoundAt
<1>11. hw'["load"].flag = hw["load"].flag /\ Due(hw["load"].cmp)' = Due(hw["load"].cmp)
  BY DEF Keeps, Puts, Due
<1> QED BY <1>3, <1>6, <1>8, <1>9, <1>10, <1>11

(* The tasks: the time since the round was programmed. Each of claim,      *)
(* enable and compare may take a delay more; the wait adds its own ticks.  *)
LEMMA RoundTimeOfTask ==
    ASSUME Shape, NEW p \in Places, NEW q \in Places, TaskStep(p, q), MainAlarm(p), LoadDue(p),
           RoundTime(p), tc_load \in BOOLEAN
    PROVE  RoundTime(q)'
<1>0. /\ isr["main"] = "idle" /\ isr["load"] = "idle" /\ isr' = isr /\ lag' = 0 /\ now' = now
      /\ start' = start /\ setting' = setting
      /\ ~(hw["main"].en /\ hw["main"].flag) /\ ~(hw["load"].en /\ hw["load"].flag)
      /\ sem \in Nat /\ irq_load_sem \in Nat /\ wait \in Nat /\ tc_load \in BOOLEAN
      /\ hw["main"].en \in BOOLEAN /\ hw["load"].en \in BOOLEAN
      /\ hw["main"].flag \in BOOLEAN /\ hw["load"].flag \in BOOLEAN
  BY Fields DEF TaskStep, InTask, Pending, Dev, Shape, TypeOK
<1> USE DEF RoundTime, Idle, Free, Claimed, Armed, Firing, Given, Waited, Over, Callback, Keeps,
    Puts, KeepsTask, ForLoad, LoadSetup, Rounds, Measures, DLoad, DMain
<1>1. CASE p = "start"
  BY <1>0, <1>1, DoesStart
<1>2. CASE p = "load start"
  BY <1>0, <1>2, DoesLoadStart
<1>3. CASE p = "load claim"
  BY <1>0, <1>3, DoesLoadClaim
<1>4. CASE p = "load enable"
  BY <1>0, <1>4, DoesLoadEnable
<1>5. CASE p = "load compare"
  BY <1>0, <1>5, DoesLoadCompare
<1>6. CASE p = "seminit"
  BY <1>0, <1>6, DoesSeminit
<1>7. CASE p = "prog"
  <2> HIDE DEF RoundTime, Idle, Free, Claimed, Armed, Firing, Given, Waited, Over, Callback,
      Keeps, Puts, KeepsTask, ForLoad, LoadSetup, Rounds, Measures, DLoad, DMain
  <2>1. /\ Ticks \in 0..Top /\ hw["main"].cnt \in 0..Top /\ Top \in Nat /\ 0 \in Nat
        /\ LoadTicks < Ticks /\ Ticks \in Nat /\ LoadTicks \in Nat
    BY Bounds, Fields DEF Dev
  <2>2. Since(0)'
    <3>1. hw["main"].cnt = Wrap(time_prog' - Ticks + 0)
      BY <1>7, <2>1, SinceSet, DoesProg
    <3> QED BY <1>7, <3>1, DoesProg DEF Since, Keeps, Puts
  <2>3. 0 <= RoundSpent("claim")'
    <3>1. PICK b \in Nat : LoadSpent' = b
      BY <1>7, DoesProg, LoadSpentAtRest
    <3>2. RoundSpent("claim")' = b + 0
      BY <3>1 DEF RoundSpent
    <3> QED BY <3>2
  <2>4. Armed("load")' /\ ~hw'["load"].flag => (Due(hw["load"].cmp) + 0 < Ticks)'
    <3>1. Armed("load")' => Armed("load")
      BY <1>7, DoesProg, LoadSpentAtRest
    <3>2. Armed("load") /\ ~hw["load"].flag => Due(hw["load"].cmp) \in 1..LoadTicks
      BY <1>7 DEF LoadDue, Rounds
    <3>3. Armed("load") /\ ~hw["load"].flag => Due(hw["load"].cmp) + 0 < Ticks
      BY <2>1, <3>2
    <3>4. Due(hw["load"].cmp)' = Due(hw["load"].cmp) /\ hw'["load"].flag = hw["load"].flag
      BY <1>7, DoesProg DEF Due, Keeps, Puts
    <3> QED BY <3>1, <3>3, <3>4
  <2>5. RoundAt("claim", 0)'
    BY <2>2, <2>3, <2>4 DEF RoundAt
  <2> QED BY <1>0, <1>7, <2>1, <2>5, DoesProg
      DEF RoundTime, Idle, Free, Claimed, Armed, Firing, Given, Waited, Over, Callback, Keeps,
      Puts, KeepsTask, ForLoad, LoadSetup, Rounds, Measures, DLoad, DMain
<1>8. CASE p = "claim"
  <2> HIDE DEF RoundTime, Idle, Free, Claimed, Armed, Firing, Given, Waited, Over, Callback,
      Keeps, Puts, KeepsTask, ForLoad, LoadSetup, Rounds, Measures, DLoad, DMain
  <2>1. PICK e \in Nat : RoundAt("claim", e)
    BY <1>8 DEF RoundTime, Rounds
  <2>2. /\ e <= RoundSpent("enable")' /\ Since(e)'
        /\ Armed("load")' /\ ~hw'["load"].flag => (Due(hw["load"].cmp) + e < Ticks)'
    BY <1>8, <2>1, DoesClaim, RoundGoesOn DEF Puts, KeepsTask
  <2>3. RoundAt("enable", e)'
    BY <2>2 DEF RoundAt
  <2> QED BY <1>0, <1>8, <2>3, DoesClaim
      DEF RoundTime, Idle, Free, Claimed, Armed, Firing, Given, Waited, Over, Callback, Keeps,
      Puts, KeepsTask, ForLoad, LoadSetup, Rounds, Measures, DLoad, DMain
<1>9. CASE p = "enable"
  <2> HIDE DEF RoundTime, Idle, Free, Claimed, Armed, Firing, Given, Waited, Over, Callback,
      Keeps, Puts, KeepsTask, ForLoad, LoadSetup, Rounds, Measures, DLoad, DMain
  <2>1. PICK e \in Nat : RoundAt("enable", e)
    BY <1>9 DEF RoundTime, Rounds
  <2>2. /\ e <= RoundSpent("compare")' /\ Since(e)'
        /\ Armed("load")' /\ ~hw'["load"].flag => (Due(hw["load"].cmp) + e < Ticks)'
    BY <1>9, <2>1, DoesEnable, RoundGoesOn DEF Puts, KeepsTask
  <2>3. RoundAt("compare", e)'
    BY <2>2 DEF RoundAt
  <2> QED BY <1>0, <1>9, <2>3, DoesEnable
      DEF RoundTime, Idle, Free, Claimed, Armed, Firing, Given, Waited, Over, Callback, Keeps,
      Puts, KeepsTask, ForLoad, LoadSetup, Rounds, Measures, DLoad, DMain
<1>10. CASE p = "compare"
  <2> HIDE DEF RoundTime, Idle, Free, Claimed, Armed, Firing, Given, Waited, Over, Callback,
      Keeps, Puts, KeepsTask, ForLoad, LoadSetup, Rounds, Measures, DLoad, DMain
  <2>1. ASSUME Armed("main")' PROVE \E e \in Nat : RoundAt("take", e)'
    <3>1. Armed("main") /\ ~hw["main"].flag
      BY <1>0, <1>10, <2>1, DoesCompare DEF Armed, Puts
    <3>2. PICK e \in Nat : RoundAt("compare", e)
      BY <1>10, <3>1 DEF RoundTime, Rounds
    <3>3. /\ e <= RoundSpent("take")' /\ Since(e)'
          /\ Armed("load")' /\ ~hw'["load"].flag => (Due(hw["load"].cmp) + e < Ticks)'
      BY <1>10, <3>2, DoesCompare, RoundGoesOn DEF Puts, KeepsTask
    <3>4. (hw["main"].cmp = time_prog)' /\ wait' = 0
      <4>1. next = time_prog /\ wait = 0
        BY <1>10 DEF RoundTime
      <4>2. hw'["main"].cmp = next /\ time_prog' = time_prog /\ wait' = wait
        BY <1>10, DoesCompare DEF Puts, KeepsTask
      <4> QED BY <4>1, <4>2
    <3>5. hw'["main"].flag => e = Ticks
      <4>1. hw'["main"].flag => hw["main"].cnt = time_prog
        BY <1>10, <3>1, DoesCompare DEF RoundTime
      <4>2. hw["main"].cnt = Wrap(time_prog - Ticks + e)
        BY <3>2 DEF RoundAt, Since
      <4>3. e - Ticks \in (-Top)..Top
        BY <1>10, <3>2, RoundInWidth DEF Rounds
      <4>4. time_prog \in 0..Top /\ Ticks \in Nat
        BY Fields, Bounds DEF Dev
      <4> QED BY <4>1, <4>2, <4>3, <4>4, SinceAll
    <3>6. hw'["main"].flag => e \in Ticks..(Ticks + LateBy)'
      <4>1. PICK b \in Nat : LateBy' = b
        BY <1>10, DoesCompare, LoadSpentAtRest DEF KeepsTask
      <4>2. hw'["main"].flag => e \in Ticks..(Ticks + b)
        BY <3>5, Bounds
      <4> QED BY <4>1, <4>2
    <3>7. ~hw'["main"].flag => (e >= Ticks \/ wait <= e)'
      BY <3>4
    <3>8. RoundAt("take", e)'
      BY <3>3, <3>4, <3>6, <3>7 DEF RoundAt
    <3> QED BY <3>8
  <2> QED BY <1>0, <1>10, <2>1, DoesCompare
      DEF RoundTime, Idle, Free, Claimed, Armed, Firing, Given, Waited, Over, Callback, Keeps,
      Puts, KeepsTask, ForLoad, LoadSetup, Rounds, Measures, DLoad, DMain
<1>11. CASE p = "take"
  <2> HIDE DEF RoundTime, Idle, Free, Claimed, Armed, Firing, Given, Waited, Over, Callback,
      Keeps, Puts, KeepsTask, ForLoad, LoadSetup, Rounds, Measures, DLoad, DMain
  <2>9. UNCHANGED <<tc_load, irq_load_sem, exists, time_prog, time_irq>> /\ Keeps("main")
        /\ Keeps("load") /\ next' = next /\ early' = early
    BY <1>11, DoesTake
  <2>1. CASE q = "now" /\ sem > 0 /\ sem' = sem - 1 /\ wait' = 0
    BY <1>0, <1>11, <2>9, <2>1
        DEF RoundTime, Idle, Free, Claimed, Armed, Firing, Given, Waited, Over, Callback, Keeps,
        Puts, KeepsTask, ForLoad, LoadSetup, Rounds, Measures, DLoad, DMain
  <2>2. CASE q = "disable" /\ sem = 0 /\ wait = Timeout /\ wait' = 0 /\ sem' = sem
    <3>1. Armed("main") /\ ~hw["main"].flag
      BY <1>0, <1>11, <2>2 DEF MainAlarm, Waited, Over, Given, Firing, Armed
    <3>2. PICK e \in Nat : RoundAt("take", e)
      BY <1>11, <3>1 DEF RoundTime, Rounds
    <3>3. e <= RoundSpent("disable")' /\ Since(e)'
      BY <1>11, <2>2, <2>9, <3>2, RoundGoesOn DEF Keeps, Puts
    <3>4. e >= Ticks /\ hw["main"].cmp = time_prog
      <4>1. e >= Ticks \/ wait <= e
        BY <3>1, <3>2 DEF RoundAt
      <4>2. hw["main"].cmp = time_prog
        BY <3>2 DEF RoundAt
      <4> QED BY <2>2, <4>1, <4>2, Bounds
    <3>5. (e >= Ticks /\ hw["main"].cmp = time_prog)'
      BY <2>9, <3>4 DEF Keeps, Puts
    <3>6. RoundAt("disable", e)'
      BY <3>3, <3>5 DEF RoundAt
    <3> QED BY <1>0, <1>11, <2>2, <2>9, <3>6
        DEF RoundTime, Idle, Free, Claimed, Armed, Firing, Given, Waited, Over, Callback, Keeps,
        Puts, KeepsTask, ForLoad, LoadSetup, Rounds, Measures, DLoad, DMain
  <2>3. CASE tc_load /\ q = "d load stop" /\ wait' = 0 /\ sem' = sem
    BY <1>0, <1>11, <2>9, <2>3
        DEF RoundTime, Idle, Free, Claimed, Armed, Firing, Given, Waited, Over, Callback, Keeps,
        Puts, KeepsTask, ForLoad, LoadSetup, Rounds, Measures, DLoad, DMain
  <2>4. CASE ~tc_load /\ q = "d stop" /\ wait' = 0 /\ sem' = sem
    BY <1>0, <1>11, <2>9, <2>4
        DEF RoundTime, Idle, Free, Claimed, Armed, Firing, Given, Waited, Over, Callback, Keeps,
        Puts, KeepsTask, ForLoad, LoadSetup, Rounds, Measures, DLoad, DMain
  <2> QED BY <1>0, <1>11, DoesTake, <2>1, <2>2, <2>3, <2>4
<1>12. CASE p = "disable"
  BY <1>0, <1>12, DoesDisable
<1>13. CASE p = "clear"
  BY <1>0, <1>13, DoesClear
<1>14. CASE p = "now"
  BY <1>0, <1>14, DoesNow
<1>15. CASE p = "stop"
  BY <1>0, <1>15, DoesStop
<1>16. CASE p = "load take"
  <2> HIDE DEF RoundTime, Idle, Free, Claimed, Armed, Firing, Given, Waited, Over, Callback,
      Keeps, Puts, KeepsTask, ForLoad, LoadSetup, Rounds, Measures, DLoad, DMain
  <2>9. (wait' = wait \/ wait' = 0) /\ UNCHANGED <<tc_load, sem, exists, time_prog, time_irq>>
        /\ Keeps("main") /\ Keeps("load") /\ next' = next /\ early' = early
    BY <1>16, DoesLoadTake
  <2>1. CASE q = "start" /\ irq_load_sem > 0 /\ irq_load_sem' = irq_load_sem - 1
    BY <1>0, <1>16, <2>9, <2>1
        DEF RoundTime, Idle, Free, Claimed, Armed, Firing, Given, Waited, Over, Callback, Keeps,
        Puts, KeepsTask, ForLoad, LoadSetup, Rounds, Measures, DLoad, DMain
  <2>2. CASE tc_load /\ q = "d load stop" /\ irq_load_sem' = irq_load_sem
    BY <1>0, <1>16, <2>9, <2>2
        DEF RoundTime, Idle, Free, Claimed, Armed, Firing, Given, Waited, Over, Callback, Keeps,
        Puts, KeepsTask, ForLoad, LoadSetup, Rounds, Measures, DLoad, DMain
  <2>3. CASE ~tc_load /\ q = "d stop" /\ irq_load_sem' = irq_load_sem
    BY <1>0, <1>16, <2>9, <2>3
        DEF RoundTime, Idle, Free, Claimed, Armed, Firing, Given, Waited, Over, Callback, Keeps,
        Puts, KeepsTask, ForLoad, LoadSetup, Rounds, Measures, DLoad, DMain
  <2> QED BY <1>0, <1>16, DoesLoadTake, <2>1, <2>2, <2>3
<1>17. CASE p = "d load stop"
  BY <1>0, <1>17, DoesDLoadStop
<1>18. CASE p = "d load disable"
  BY <1>0, <1>18, DoesDLoadDisable
<1>19. CASE p = "d load clear"
  BY <1>0, <1>19, DoesDLoadClear
<1>20. CASE p = "d load semdel"
  BY <1>0, <1>20, DoesDLoadSemdel
<1>21. CASE p = "d stop"
  BY <1>0, <1>21, DoesDStop
<1>22. CASE p = "d disable"
  BY <1>0, <1>22, DoesDDisable
<1>23. CASE p = "d clear"
  BY <1>0, <1>23, DoesDClear
<1>24. CASE p = "d semdel"
  BY <1>0, <1>24, DoesDSemdel
<1>25. CASE p = "d seminit"
  BY <1>0, <1>25, DoesDSeminit
<1> QED BY <1>1, <1>2, <1>3, <1>4, <1>5, <1>6, <1>7, <1>8, <1>9, <1>10, <1>11, <1>12, <1>13,
    <1>14, <1>15, <1>16, <1>17, <1>18, <1>19, <1>20, <1>21, <1>22, <1>23, <1>24,
    <1>25 DEF Places, LoadSetup, Rounds, Measures, DLoad, DMain

(* The tasks: the time read. A round that ends in time hands the handler's *)
(* reading to the measurement; one that times out hands on nothing.        *)
LEMMA MeasuredOfTask ==
    ASSUME Shape, NEW p \in Places, NEW q \in Places, TaskStep(p, q), MainAlarm(p), Measured(p)
    PROVE  Measured(q)'
<1>0. /\ isr["main"] = "idle" /\ isr["load"] = "idle" /\ isr' = isr /\ lag' = 0 /\ now' = now
      /\ start' = start /\ setting' = setting
      /\ ~(hw["main"].en /\ hw["main"].flag) /\ ~(hw["load"].en /\ hw["load"].flag)
      /\ sem \in Nat /\ irq_load_sem \in Nat /\ wait \in Nat /\ tc_load \in BOOLEAN
      /\ hw["main"].en \in BOOLEAN /\ hw["load"].en \in BOOLEAN
      /\ hw["main"].flag \in BOOLEAN /\ hw["load"].flag \in BOOLEAN
  BY Fields DEF TaskStep, InTask, Pending, Dev, Shape, TypeOK
<1> USE DEF Measured, Idle, Free, Claimed, Armed, Firing, Given, Waited, Over, Callback, Keeps,
    Puts, KeepsTask, ForLoad, LoadSetup, Rounds, Measures, DLoad, DMain
<1>1. CASE p = "start"
  BY <1>0, <1>1, DoesStart
<1>2. CASE p = "load start"
  BY <1>0, <1>2, DoesLoadStart
<1>3. CASE p = "load claim"
  BY <1>0, <1>3, DoesLoadClaim
<1>4. CASE p = "load enable"
  BY <1>0, <1>4, DoesLoadEnable
<1>5. CASE p = "load compare"
  BY <1>0, <1>5, DoesLoadCompare
<1>6. CASE p = "seminit"
  BY <1>0, <1>6, DoesSeminit
<1>7. CASE p = "prog"
  BY <1>0, <1>7, DoesProg
<1>8. CASE p = "claim"
  BY <1>0, <1>8, DoesClaim
<1>9. CASE p = "enable"
  <2>1. Armed("main")' /\ (hw'["main"].flag => early'["main"])
    <3>1. Claimed("main") /\ (hw["main"].flag => early["main"])
      BY <1>9 DEF MainAlarm, Measured
    <3> QED BY <1>0, <1>9, <3>1, DoesEnable DEF Armed, Claimed, Idle, Puts
  <2> QED BY <1>9, <2>1, DoesEnable DEF Measured
<1>10. CASE p = "compare"
  <2>1. next' = 0 /\ Puts("main", hw["main"].on, hw["main"].en, next, alarm["main"].cb)
        /\ KeepsTask /\ early' = early /\ q = "take"
    BY <1>10, DoesCompare
  <2>2. ~Firing("main")'
    BY <1>0 DEF Firing
  <2>3. sem = 1 => early["main"]
    <3>1. sem = 1 => ~Armed("main")
      BY <1>0, <1>10 DEF MainAlarm, Waited, Over, Given, Free, Idle, Armed, Firing
    <3> QED BY <1>10, <3>1 DEF Measured
  <2> QED BY <2>1, <2>2, <2>3 DEF Measured, KeepsTask
<1>11. CASE p = "take"
  <2>0. sem > 0 => sem = 1
    BY <1>0, <1>11 DEF MainAlarm
  <2>9. UNCHANGED <<tc_load, irq_load_sem, exists, time_prog, time_irq>> /\ Keeps("main")
        /\ Keeps("load") /\ next' = next /\ early' = early
    BY <1>11, DoesTake
  <2>1. CASE q = "now" /\ sem > 0 /\ sem' = sem - 1 /\ wait' = 0
    <3>1. sem = 1
      BY <2>0, <2>1
    <3>2. ~early["main"] => Wrap(time_irq - time_prog) <= MaxIrqDelay
      BY <1>11, <3>1 DEF Measured
    <3>3. early' = early /\ time_irq' = time_irq /\ time_prog' = time_prog /\ setting' = setting
      BY <1>0, <2>9
    <3>4. ~early'["main"] => (Wrap(time_irq - time_prog) <= MaxIrqDelay)'
      BY <3>2, <3>3 DEF MaxIrqDelay
    <3> QED BY <2>1, <3>4 DEF Measured
  <2>2. CASE q = "disable" /\ sem = 0 /\ wait = Timeout /\ wait' = 0 /\ sem' = sem
    BY <1>0, <1>11, <2>9, <2>2
  <2>3. CASE tc_load /\ q = "d load stop" /\ wait' = 0 /\ sem' = sem
    BY <1>0, <1>11, <2>9, <2>3
  <2>4. CASE ~tc_load /\ q = "d stop" /\ wait' = 0 /\ sem' = sem
    BY <1>0, <1>11, <2>9, <2>4
  <2> QED BY <1>0, <1>11, DoesTake, <2>1, <2>2, <2>3, <2>4
<1>12. CASE p = "disable"
  BY <1>0, <1>12, DoesDisable
<1>13. CASE p = "clear"
  BY <1>0, <1>13, DoesClear
<1>14. CASE p = "now"
  BY <1>0, <1>14, DoesNow
<1>15. CASE p = "stop"
  BY <1>0, <1>15, DoesStop
<1>16. CASE p = "load take"
  <2>9. (wait' = wait \/ wait' = 0) /\ UNCHANGED <<tc_load, sem, exists, time_prog, time_irq>>
        /\ Keeps("main") /\ Keeps("load") /\ next' = next /\ early' = early
    BY <1>16, DoesLoadTake
  <2>1. CASE q = "start" /\ irq_load_sem > 0 /\ irq_load_sem' = irq_load_sem - 1
    BY <1>0, <1>16, <2>9, <2>1
  <2>2. CASE tc_load /\ q = "d load stop" /\ irq_load_sem' = irq_load_sem
    BY <1>0, <1>16, <2>9, <2>2
  <2>3. CASE ~tc_load /\ q = "d stop" /\ irq_load_sem' = irq_load_sem
    BY <1>0, <1>16, <2>9, <2>3
  <2> QED BY <1>0, <1>16, DoesLoadTake, <2>1, <2>2, <2>3
<1>17. CASE p = "d load stop"
  BY <1>0, <1>17, DoesDLoadStop
<1>18. CASE p = "d load disable"
  BY <1>0, <1>18, DoesDLoadDisable
<1>19. CASE p = "d load clear"
  BY <1>0, <1>19, DoesDLoadClear
<1>20. CASE p = "d load semdel"
  BY <1>0, <1>20, DoesDLoadSemdel
<1>21. CASE p = "d stop"
  BY <1>0, <1>21, DoesDStop
<1>22. CASE p = "d disable"
  BY <1>0, <1>22, DoesDDisable
<1>23. CASE p = "d clear"
  BY <1>0, <1>23, DoesDClear
<1>24. CASE p = "d semdel"
  BY <1>0, <1>24, DoesDSemdel
<1>25. CASE p = "d seminit"
  BY <1>0, <1>25, DoesDSeminit
<1> QED BY <1>1, <1>2, <1>3, <1>4, <1>5, <1>6, <1>7, <1>8, <1>9, <1>10, <1>11, <1>12, <1>13,
    <1>14, <1>15, <1>16, <1>17, <1>18, <1>19, <1>20, <1>21, <1>22, <1>23, <1>24,
    <1>25 DEF Places, LoadSetup, Rounds, Measures, DLoad, DMain

-----------------------------------------------------------------------------
(* What an interrupt does, field by field.                                 *)
LEMMA EntersEffects ==
    ASSUME Shape, NEW d \in Dev, NEW e \in Dev, e # d, Enters(d)
    PROVE  /\ hw[d].en /\ hw[d].flag /\ isr[d] = "idle" /\ isr[e] = "idle"
           /\ Puts(d, hw[d].on, FALSE, hw[d].cmp, alarm[d].cb) /\ hw'[d].cnt = hw[d].cnt
           /\ ~hw'[d].flag
           /\ isr'[d] = (IF alarm[d].cb = "none" THEN "reset" ELSE "callback") /\ isr'[e] = "idle"
           /\ now'[d] = hw[d].cnt
           /\ Keeps(e)
<1>1. /\ hw \in [Dev -> [cnt : 0..Top, on : BOOLEAN, cmp : 0..Top, en : BOOLEAN, flag : BOOLEAN]]
      /\ isr \in [Dev -> {"idle", "callback", "spin", "reset"}] /\ now \in [Dev -> 0..Top]
      /\ alarm[d].loop = FALSE /\ alarm[e].loop = FALSE /\ Dev = {"main", "load"}
      /\ alarm \in [Dev -> [cb : Callbacks, loop : BOOLEAN, last : 0..Top, ticks : 0..Top]]
  BY DEF Shape, TypeOK, CounterTypeOK, Dev
<1>2. hw'[d] = [hw[d] EXCEPT !.en = FALSE, !.flag = FALSE] /\ hw'[e] = hw[e] /\ alarm' = alarm
  BY <1>1 DEF Enters
<1>3. hw[d] \in [cnt : 0..Top, on : BOOLEAN, cmp : 0..Top, en : BOOLEAN, flag : BOOLEAN]
  BY <1>1
<1>4. /\ hw'[d].cnt = hw[d].cnt /\ hw'[d].on = hw[d].on /\ hw'[d].cmp = hw[d].cmp
      /\ hw'[d].en = FALSE /\ hw'[d].flag = FALSE
  BY <1>2, <1>3
<1>5. hw[d].en /\ hw[d].flag /\ isr[d] = "idle" /\ isr[e] = "idle"
  BY <1>1 DEF Enters, Pending
<1>6. isr'[d] = (IF alarm[d].cb = "none" THEN "reset" ELSE "callback") /\ isr'[e] = "idle"
      /\ now'[d] = hw[d].cnt
  BY <1>1, <1>5 DEF Enters
<1>7. Keeps(e)
  BY <1>1, <1>2 DEF Keeps, Puts
<1>8. Puts(d, hw[d].on, FALSE, hw[d].cmp, alarm[d].cb)
  BY <1>1, <1>2, <1>4 DEF Puts
<1> QED BY <1>4, <1>5, <1>6, <1>7, <1>8

LEMMA ExitsEffects ==
    ASSUME Shape, NEW d \in Dev, NEW e \in Dev, e # d, Exits(d)
    PROVE  /\ isr[d] = "reset" /\ isr'[d] = "idle" /\ isr'[e] = isr[e]
           /\ Puts(d, hw[d].on, hw[d].en, hw[d].cmp, "none") /\ hw' = hw
           /\ Keeps(e)
<1>1. /\ isr \in [Dev -> {"idle", "callback", "spin", "reset"}]
      /\ alarm[d].loop = FALSE /\ alarm[e].loop = FALSE /\ Dev = {"main", "load"}
      /\ alarm \in [Dev -> [cb : Callbacks, loop : BOOLEAN, last : 0..Top, ticks : 0..Top]]
  BY DEF Shape, TypeOK, CounterTypeOK, Dev
<1>2. alarm'[d].cb = "none" /\ alarm'[d].loop = alarm[d].loop /\ alarm'[e] = alarm[e] /\ hw' = hw
  BY <1>1 DEF Exits
<1>3. isr[d] = "reset" /\ isr'[d] = "idle" /\ isr'[e] = isr[e]
  BY <1>1 DEF Exits
<1> QED BY <1>1, <1>2, <1>3 DEF Keeps, Puts

(* A callback's step leaves the alarms alone, ...                          *)
LEMMA CallbackEffects ==
    ASSUME Shape, Gives \/ StartsSpin
    PROVE  /\ Keeps("main") /\ Keeps("load")
           /\ Gives => isr'["main"] = "reset" /\ isr'["load"] = "idle" /\ isr["load"] = "idle"
           /\ StartsSpin => isr'["load"] = "spin" /\ isr'["main"] = "idle" /\ isr["main"] = "idle"
<1>1. /\ isr \in [Dev -> {"idle", "callback", "spin", "reset"}]
      /\ alarm["main"].loop = FALSE /\ alarm["load"].loop = FALSE /\ Dev = {"main", "load"}
      /\ isr["main"] = "idle" \/ isr["load"] = "idle"
  BY DEF Shape, TypeOK, CounterTypeOK, Dev
<1>2. hw' = hw /\ alarm' = alarm
  BY DEF Gives, StartsSpin
<1>3. Keeps("main") /\ Keeps("load")
  BY <1>1, <1>2 DEF Keeps, Puts
<1> QED BY <1>1, <1>3 DEF Gives, StartsSpin

(* ... but that of the load stops its counter.                             *)
LEMMA EndsSpinEffects ==
    ASSUME Shape, EndsSpin
    PROVE  /\ Keeps("main") /\ isr'["load"] = "reset" /\ isr["load"] = "spin"
           /\ isr'["main"] = "idle" /\ isr["main"] = "idle"
           /\ Puts("load", FALSE, hw["load"].en, hw["load"].cmp, alarm["load"].cb)
           /\ hw'["load"].flag = hw["load"].flag
<1>1. /\ hw \in [Dev -> [cnt : 0..Top, on : BOOLEAN, cmp : 0..Top, en : BOOLEAN, flag : BOOLEAN]]
      /\ isr \in [Dev -> {"idle", "callback", "spin", "reset"}]
      /\ alarm["main"].loop = FALSE /\ alarm["load"].loop = FALSE /\ Dev = {"main", "load"}
      /\ isr["main"] = "idle" \/ isr["load"] = "idle"
  BY DEF Shape, TypeOK, CounterTypeOK, Dev
<1>2. /\ hw'["load"]
         = [hw["load"] EXCEPT !.on = FALSE, !.cnt = IF setting.gpt THEN 0 ELSE hw["load"].cnt]
      /\ hw'["main"] = hw["main"] /\ alarm' = alarm
  BY <1>1 DEF EndsSpin
<1>3. hw["load"] \in [cnt : 0..Top, on : BOOLEAN, cmp : 0..Top, en : BOOLEAN, flag : BOOLEAN]
  BY <1>1
<1>4. /\ hw'["load"].on = FALSE /\ hw'["load"].en = hw["load"].en
      /\ hw'["load"].cmp = hw["load"].cmp
      /\ hw'["load"].flag = hw["load"].flag
  BY <1>2, <1>3
<1>5. isr'["load"] = "reset" /\ isr["load"] = "spin" /\ isr'["main"] = "idle"
      /\ isr["main"] = "idle"
  BY <1>1 DEF EndsSpin
<1> QED BY <1>1, <1>2, <1>4, <1>5 DEF Keeps, Puts

Handles ==
    lag' = 0 /\ UNCHANGED <<setting, next, tc_load, todo, script, wait, exists, time_prog, early>>

Alarms5(p) == MainAlarm(p) /\ LoadAlarm(p) /\ LoadDue(p) /\ RoundTime(p) /\ Measured(p)

(* The interrupts of the main counter leave the load's times alone: its    *)
(* alarm is not being set up.                                              *)
LEMMA LoadAlarmStays ==
    ASSUME Shape, NEW p \in Places, LoadAlarm(p), Handles, Keeps("load"),
           isr'["load"] = isr["load"],
           irq_load_sem' = irq_load_sem
    PROVE  LoadAlarm(p)'
BY DEF LoadAlarm, Handles, Keeps, Puts, Free, Claimed, Idle, Waited, Over, Armed, Firing, Given,
    Callback

LEMMA LoadDueStays ==
    ASSUME Shape, NEW p \in Places, p \notin LoadSetup, LoadDue(p), Handles, Keeps("load"),
           isr["load"] = "idle", isr'["load"] = "idle"
    PROVE  LoadDue(p)'
<1>1. Due(hw["load"].cmp)' = Due(hw["load"].cmp) /\ (Armed("load")' <=> Armed("load"))
      /\ (Over("load")' <=> Over("load"))
  BY DEF Keeps, Puts, Due, Armed, Over, Given, Free, Idle, Callback
<1>2. hw'["load"].on = hw["load"].on /\ hw'["load"].flag = hw["load"].flag /\ tc_load' = tc_load
  BY DEF Keeps, Puts, Handles
<1> QED BY <1>1, <1>2 DEF LoadDue, LoadSetup

(* Where an interrupt of the main counter comes.                           *)
LEMMA MainBusy ==
    ASSUME NEW p \in Places, MainAlarm(p), Waited("main") \/ Given("main")
    PROVE  /\ p \in {"compare", "take", "d stop", "d disable"} \cup DLoad
              \/ (p = "disable" /\ Armed("main") /\ ~hw["main"].flag)
           /\ alarm["main"].cb = "latency" /\ exists["main"]
           /\ p \in {"compare", "take"} /\ Waited("main") => sem = 0
           /\ p \in {"compare", "take"} /\ Given("main") => sem = 1
BY DEF MainAlarm, Places, LoadSetup, Rounds, Measures, DMain, Waited, Over, Armed, Firing,
    Given, Free, Claimed, Idle, Callback

(* ... and one of the load's.                                              *)
LEMMA LoadBusy ==
    ASSUME NEW p \in Places, LoadAlarm(p), Waited("load") \/ Given("load")
    PROVE  /\ tc_load /\ alarm["load"].cb = "spin"
           /\ p \in {"load compare", "seminit", "d load stop", "d load disable"} \cup Rounds
              \cup Measures
           /\ p \in Rounds \cup Measures => irq_load_sem = IF Waited("load") THEN 0 ELSE 1
BY DEF LoadAlarm, Places, LoadSetup, DLoad, DMain, Waited, Over, Armed, Firing, Given, Free,
    Claimed, Idle, Callback

(* What the handler of the main counter reads is at most MaxIrqDelay late. *)
LEMMA ReadsInTime ==
    ASSUME Shape, LoadDue("take"), isr["load"] = "idle", NEW e \in Nat, RoundAt("take", e),
           hw["main"].flag, ~early["main"]
    PROVE  Wrap(hw["main"].cnt - time_prog) <= MaxIrqDelay
<1>1. /\ Top \in Nat /\ Ticks \in Nat /\ Delay \in Nat /\ Spin \in Nat /\ setting.load \in BOOLEAN
      /\ time_prog \in 0..Top /\ lag \in Nat /\ lag <= Delay
  BY Bounds, Fields DEF Dev
<1>2. e \in Ticks..(Ticks + LateBy) /\ hw["main"].cnt = Wrap(time_prog - Ticks + e)
  BY DEF RoundAt, Since
<1>3. LateBy <= MaxIrqDelay /\ LateBy \in Int /\ MaxIrqDelay \in Nat
  BY <1>1 DEF LateBy, MaxIrqDelay, Delay
<1>4. e - Ticks \in 0..Top
  BY <1>1, <1>2, <1>3, RoundInWidth DEF Rounds
<1>5. Wrap(hw["main"].cnt - time_prog) = e - Ticks
  <2>1. time_prog - Ticks + e \in Int /\ -time_prog \in Int
        /\ time_prog - Ticks + e + (-time_prog) = e - Ticks
    BY <1>1
  <2>2. hw["main"].cnt - time_prog = Wrap(time_prog - Ticks + e) + (-time_prog)
    BY <1>1, <1>2, <2>1, WrapIn
  <2>3. Wrap(Wrap(time_prog - Ticks + e) + (-time_prog)) = Wrap(e - Ticks)
    BY <2>1, WrapSum
  <2> QED BY <1>4, <2>2, <2>3, WrapSmall
<1> QED BY <1>1, <1>2, <1>3, <1>5

(* The latency alarm fires: its handler reads the counter, in time unless  *)
(* the alarm was early.                                                    *)
LEMMA EnterMainKeeps ==
    ASSUME Shape, NEW p \in Places, Alarms5(p), Handles, Enters("main")
    PROVE  Alarms5(p)'
<1>1. /\ hw["main"].en /\ hw["main"].flag /\ isr["main"] = "idle" /\ isr["load"] = "idle"
      /\ Puts("main", hw["main"].on, FALSE, hw["main"].cmp, alarm["main"].cb)
      /\ hw'["main"].cnt = hw["main"].cnt /\ ~hw'["main"].flag
      /\ isr'["main"] = (IF alarm["main"].cb = "none" THEN "reset" ELSE "callback")
         /\ isr'["load"] = "idle"
      /\ now'["main"] = hw["main"].cnt
      /\ Keeps("load")
  BY EntersEffects DEF Dev
<1>2. sem' = sem /\ irq_load_sem' = irq_load_sem /\ time_irq' = time_irq
  BY DEF Enters
<1>3. Armed("main")
  BY <1>1 DEF Alarms5, MainAlarm, Places, LoadSetup, Rounds, Measures, DMain, Waited, Over,
      Armed, Firing, Given, Free, Claimed, Idle
<1>4. /\ p \in {"compare", "take", "d stop", "d disable"} \cup DLoad
      /\ alarm["main"].cb = "latency" /\ exists["main"]
      /\ p \in {"compare", "take"} => sem = 0
  BY <1>1, <1>3, MainBusy DEF Waited, Alarms5
<1>5. Firing("main")'
  BY <1>1, <1>4 DEF Firing, Puts, Callback
<1>6. MainAlarm(p)'
  BY <1>2, <1>4, <1>5 DEF MainAlarm, Waited, LoadSetup, Measures, Handles, DLoad, DMain
<1>7. LoadAlarm(p)'
  BY <1>1, <1>2, LoadAlarmStays DEF Alarms5
<1>8. LoadDue(p)'
  BY <1>1, <1>4, LoadDueStays DEF Alarms5, LoadSetup, DLoad
<1>9. RoundTime(p)'
  <2>1. ~Armed("main")'
    BY <1>5 DEF Armed, Firing
  <2> QED BY <1>1, <1>4, <2>1 DEF Alarms5, RoundTime, Puts, Handles, LoadSetup, Rounds, DLoad
<1>10. Measured(p)'
  <2>1. p = "compare" => early["main"]
    BY <1>1 DEF Alarms5, Measured
  <2>2. p = "take" /\ ~early["main"] => (Wrap(now["main"] - time_prog) <= MaxIrqDelay)'
    <3>1. SUFFICES ASSUME p = "take", ~early["main"]
                          PROVE (Wrap(now["main"] - time_prog) <= MaxIrqDelay)'
      OBVIOUS
    <3>2. PICK e \in Nat : RoundAt("take", e)
      BY <1>3, <3>1 DEF Alarms5, RoundTime, Rounds
    <3>3. Wrap(hw["main"].cnt - time_prog) <= MaxIrqDelay
      BY <1>1, <3>1, <3>2, ReadsInTime DEF Alarms5
    <3> QED BY <1>1, <3>3 DEF Handles, MaxIrqDelay
  <2>3. p # "enable" /\ p # "now" /\ ((p = "compare" \/ p = "take") => sem' = 0)
    BY <1>2, <1>4 DEF DLoad
  <2>4. early' = early
    BY DEF Handles
  <2> QED BY <1>1, <2>1, <2>2, <2>3, <2>4 DEF Measured
<1> QED BY <1>6, <1>7, <1>8, <1>9, <1>10 DEF Alarms5

(* latency_alarm_handler gives the semaphore, with the time it read.       *)
LEMMA GivesKeeps ==
    ASSUME Shape, NEW p \in Places, Alarms5(p), Handles, Gives
    PROVE  Alarms5(p)' /\ crashed' = crashed
<1>1. /\ Keeps("main") /\ Keeps("load") /\ isr'["main"] = "reset" /\ isr'["load"] = "idle"
      /\ isr["load"] = "idle"
      /\ isr["main"] = "callback" /\ sem' = sem + 1 /\ irq_load_sem' = irq_load_sem
      /\ time_irq' = now["main"] /\ now' = now
  BY CallbackEffects DEF Gives
<1>2. Firing("main")
  BY <1>1 DEF Alarms5, MainAlarm, Places, LoadSetup, Rounds, Measures, DMain, Waited, Over,
      Armed, Firing, Given, Free, Claimed, Idle
<1>3. /\ p \in {"compare", "take", "d stop", "d disable"} \cup DLoad
      /\ alarm["main"].cb = "latency" /\ exists["main"]
      /\ p \in {"compare", "take"} => sem = 0
  BY <1>2, MainBusy DEF Waited, Alarms5, Armed, Firing
<1>4. Given("main")'
  BY <1>1, <1>2 DEF Given, Firing, Keeps, Puts, Callback
<1>5. p \in {"compare", "take"} => sem' = 1
  <2>1. sem' = sem + 1
    BY <1>1
  <2>2. p \in {"compare", "take"} => sem = 0
    BY <1>3
  <2> QED BY <2>1, <2>2
<1>6. MainAlarm(p)'
  BY <1>3, <1>4, <1>5 DEF MainAlarm, Over, LoadSetup, Measures, Handles, DLoad, DMain
<1>7. LoadAlarm(p)'
  BY <1>1, LoadAlarmStays DEF Alarms5
<1>8. LoadDue(p)'
  BY <1>1, <1>3, LoadDueStays DEF Alarms5, LoadSetup, DLoad
<1>9. RoundTime(p)'
  <2>1. ~Armed("main")'
    BY <1>4 DEF Armed, Given
  <2> QED BY <1>1, <1>3, <2>1 DEF Alarms5, RoundTime, Keeps, Puts, Handles, LoadSetup, Rounds, DLoad
<1>10. Measured(p)'
  <2>1. p = "compare" => early["main"]
    BY <1>2 DEF Alarms5, Measured, Armed, Firing
  <2>2. p = "take" /\ ~early["main"] => (Wrap(time_irq - time_prog) <= MaxIrqDelay)'
    <3>1. p = "take" /\ ~early["main"] => Wrap(now["main"] - time_prog) <= MaxIrqDelay
      BY <1>2 DEF Alarms5, Measured
    <3> QED BY <1>1, <3>1 DEF Handles, MaxIrqDelay
  <2>3. p # "enable" /\ p # "now" /\ ~Firing("main")'
    BY <1>1, <1>3 DEF DLoad, Firing
  <2>4. early' = early
    BY DEF Handles
  <2> QED BY <2>1, <2>2, <2>3, <2>4 DEF Measured
<1>11. crashed' = crashed
  <2>1. crashed' = (crashed \/ ~exists["main"]) /\ crashed \in BOOLEAN
    BY DEF Gives, Shape, TypeOK
  <2> QED BY <1>3, <2>1
<1> QED BY <1>6, <1>7, <1>8, <1>9, <1>10, <1>11 DEF Alarms5

(* The interrupt of the latency alarm ends, and the alarm is free.         *)
LEMMA ExitMainKeeps ==
    ASSUME Shape, NEW p \in Places, Alarms5(p), Handles, Exits("main")
    PROVE  Alarms5(p)'
<1>1. /\ isr["main"] = "reset" /\ isr'["main"] = "idle" /\ isr'["load"] = isr["load"]
      /\ Puts("main", hw["main"].on, hw["main"].en, hw["main"].cmp, "none") /\ hw' = hw
      /\ Keeps("load")
      /\ sem' = sem /\ irq_load_sem' = irq_load_sem /\ time_irq' = time_irq
  BY ExitsEffects DEF Dev, Exits
<1>0. isr["load"] = "idle" /\ isr'["load"] = "idle"
  BY <1>1 DEF Shape
<1>2. Given("main")
  BY <1>1 DEF Alarms5, MainAlarm, Places, LoadSetup, Rounds, Measures, DMain, Waited, Over,
      Armed, Firing, Given, Free, Claimed, Idle
<1>3. /\ p \in {"compare", "take", "d stop", "d disable"} \cup DLoad
      /\ alarm["main"].cb = "latency" /\ exists["main"]
      /\ p \in {"compare", "take"} => sem = 1
  BY <1>2, MainBusy DEF Waited, Alarms5, Armed, Given
<1>4. Free("main")'
  BY <1>1, <1>2 DEF Given, Free, Idle, Puts
<1>6. MainAlarm(p)'
  BY <1>1, <1>3, <1>4 DEF MainAlarm, Over, LoadSetup, Measures, Handles, DLoad, DMain
<1>7. LoadAlarm(p)'
  BY <1>1, LoadAlarmStays DEF Alarms5
<1>8. LoadDue(p)'
  BY <1>0, <1>1, <1>3, LoadDueStays DEF Alarms5, LoadSetup, DLoad
<1>9. RoundTime(p)'
  <2>1. ~Armed("main")'
    BY <1>4 DEF Armed, Free, Idle
  <2> QED BY <1>1, <1>3, <2>1 DEF Alarms5, RoundTime, Puts, Handles, LoadSetup, Rounds, DLoad
<1>10. Measured(p)'
  <2>1. p = "compare" => early["main"]
    BY <1>2 DEF Alarms5, Measured, Armed, Given
  <2>2. p = "take" /\ ~early["main"] => (Wrap(time_irq - time_prog) <= MaxIrqDelay)'
    <3>1. p = "take" /\ ~early["main"] => Wrap(time_irq - time_prog) <= MaxIrqDelay
      BY <1>3 DEF Alarms5, Measured
    <3> QED BY <1>1, <3>1 DEF Handles, MaxIrqDelay
  <2>3. p # "enable" /\ p # "now" /\ ~Firing("main")'
    BY <1>1, <1>3 DEF DLoad, Firing
  <2>4. early' = early
    BY DEF Handles
  <2> QED BY <2>1, <2>2, <2>3, <2>4 DEF Measured
<1> QED BY <1>6, <1>7, <1>8, <1>9, <1>10 DEF Alarms5

(* An interrupt of the load leaves the other alarm alone, ...              *)
LEMMA MainStays ==
    ASSUME Shape, NEW p \in Places, MainAlarm(p), Measured(p), Handles, Keeps("main"),
           isr["main"] = "idle", isr'["main"] = "idle",
           sem' = sem, time_irq' = time_irq
    PROVE  MainAlarm(p)' /\ Measured(p)'
<1>1. /\ Armed("main")' <=> Armed("main")
      /\ Waited("main")' <=> Waited("main")
      /\ Over("main")' <=> Over("main")
      /\ Free("main")' <=> Free("main")
      /\ Claimed("main")' <=> Claimed("main")
      /\ Idle("main")' <=> Idle("main")
  BY DEF Keeps, Puts, Waited, Over, Armed, Firing, Given, Free, Claimed, Idle, Callback
<1>2. MainAlarm(p)'
  BY <1>1 DEF MainAlarm, Handles, Keeps
<1>3. ~Firing("main")'
  BY DEF Firing
<1>5. Wrap(time_irq - time_prog) <= MaxIrqDelay <=> (Wrap(time_irq - time_prog) <= MaxIrqDelay)'
  BY DEF Handles, MaxIrqDelay
<1>6. early' = early /\ hw'["main"].flag = hw["main"].flag
  BY DEF Handles, Keeps
<1> QED BY <1>1, <1>2, <1>3, <1>5, <1>6 DEF Measured

(* ... and what it takes of a round is counted.                            *)
Counts ==
    /\ \E b \in Nat : LoadSpent' = b /\ LoadSpent \in Nat /\ LoadSpent <= b
    /\ \E c \in Int : LateBy' = c /\ LateBy \in Int /\ LateBy <= c

LEMMA RoundWaits ==
    ASSUME Shape, NEW p \in Places, RoundTime(p), Handles, Keeps("main"), isr["main"] = "idle",
           isr'["main"] = "idle",
           ~Armed("load")', p \in Rounds => Counts
    PROVE  RoundTime(p)'
<1>1. /\ Armed("main")' <=> Armed("main")
      /\ hw'["main"].on = hw["main"].on /\ hw'["main"].cnt = hw["main"].cnt
      /\ hw'["main"].cmp = hw["main"].cmp
      /\ hw'["main"].flag = hw["main"].flag
      /\ setting' = setting /\ wait' = wait /\ next' = next /\ time_prog' = time_prog
      /\ early' = early /\ lag' = 0
  BY DEF Keeps, Puts, Armed, Callback, Handles
<1>2. ASSUME NEW e \in Nat, RoundAt(p, e), p \in Rounds PROVE RoundAt(p, e)'
  <2>1. PICK b \in Nat : LoadSpent' = b /\ LoadSpent \in Nat /\ LoadSpent <= b
    BY <1>2 DEF Counts
  <2>2. PICK c \in Int : LateBy' = c /\ LateBy \in Int /\ LateBy <= c
    BY <1>2 DEF Counts
  <2> DEFINE x == IF p = "claim" THEN 0
                  ELSE IF p = "enable" THEN Delay
                  ELSE IF p = "compare" THEN 2 * Delay
                  ELSE IF p = "take" THEN 3 * Delay + wait
                  ELSE 4 * Delay + Timeout
  <2>3. x \in Nat
    BY Bounds, Fields DEF Dev
  <2>4. RoundSpent(p) = LoadSpent + x
    BY DEF RoundSpent
  <2>5. RoundSpent(p)' = b + x
    BY <1>1, <2>1 DEF RoundSpent, Delay
  <2> HIDE DEF x
  <2>6. e <= b + x
    BY <1>2, <2>1, <2>3, <2>4 DEF RoundAt
  <2>7. e <= RoundSpent(p)'
    BY <2>5, <2>6
  <2>8. Since(e)'
    BY <1>1, <1>2 DEF RoundAt, Since
  <2>9. (p = "take" /\ ~hw["main"].flag => e >= Ticks \/ wait <= e)'
    BY <1>1, <1>2 DEF RoundAt
  <2>10. (p = "take" /\ hw["main"].flag /\ ~early["main"] => e \in Ticks..(Ticks + LateBy))'
    <3>1. p = "take" /\ hw["main"].flag /\ ~early["main"] => e \in Ticks..(Ticks + LateBy)
      BY <1>2 DEF RoundAt
    <3>2. p = "take" /\ hw["main"].flag /\ ~early["main"] => e \in Ticks..(Ticks + c)
      BY <2>2, <3>1, Bounds
    <3> QED BY <1>1, <2>2, <3>2
  <2>11. (p = "take" => hw["main"].cmp = time_prog)'
         /\ (p = "disable" => e >= Ticks /\ hw["main"].cmp = time_prog)'
    BY <1>1, <1>2 DEF RoundAt
  <2> QED BY <2>7, <2>8, <2>9, <2>10, <2>11 DEF RoundAt
<1> QED BY <1>1, <1>2 DEF RoundTime, Rounds

(* The load alarm fires.                                                   *)
LEMMA EnterLoadKeeps ==
    ASSUME Shape, NEW p \in Places, Alarms5(p), Handles, Enters("load")
    PROVE  Alarms5(p)'
<1>1. /\ hw["load"].en /\ hw["load"].flag /\ isr["main"] = "idle" /\ isr["load"] = "idle"
      /\ Puts("load", hw["load"].on, FALSE, hw["load"].cmp, alarm["load"].cb)
      /\ hw'["load"].cnt = hw["load"].cnt /\ ~hw'["load"].flag
      /\ isr'["load"] = (IF alarm["load"].cb = "none" THEN "reset" ELSE "callback")
         /\ isr'["main"] = "idle"
      /\ Keeps("main")
  BY EntersEffects DEF Dev
<1>2. sem' = sem /\ irq_load_sem' = irq_load_sem /\ time_irq' = time_irq
  BY DEF Enters
<1>3. Armed("load")
  BY <1>1 DEF Alarms5, LoadAlarm, Places, LoadSetup, Rounds, Measures, DMain, DLoad, Waited,
      Over, Armed, Firing, Given, Free, Claimed, Idle
<1>4. /\ tc_load /\ alarm["load"].cb = "spin"
      /\ p \in {"load compare", "d load stop", "d load disable"} \cup Rounds \cup Measures
      /\ p \in Rounds \cup Measures => irq_load_sem = 0
      /\ p = "load compare" => early["load"]
      /\ p # "load compare" => exists["load"]
  <2>1. p # "seminit"
    BY <1>1, <1>3 DEF Alarms5, LoadDue, Waited
  <2>2. /\ tc_load /\ alarm["load"].cb = "spin"
        /\ p \in {"load compare", "seminit", "d load stop", "d load disable"} \cup Rounds
           \cup Measures
        /\ p \in Rounds \cup Measures => irq_load_sem = 0
    BY <1>3, LoadBusy DEF Waited, Alarms5
  <2>3. p = "load compare" => early["load"]
    BY <1>1 DEF Alarms5, LoadDue
  <2>4. p # "load compare" => exists["load"]
    BY <1>3, <2>1 DEF Alarms5, LoadAlarm, Waited
  <2> QED BY <2>1, <2>2, <2>3, <2>4
<1>5. Firing("load")' /\ isr'["load"] = "callback"
  BY <1>1, <1>4 DEF Firing, Puts, Callback
<1>6. ~Armed("load")' /\ Waited("load")'
  BY <1>5 DEF Armed, Firing, Waited
<1>7. MainAlarm(p)' /\ Measured(p)'
  BY <1>1, <1>2, MainStays DEF Alarms5
<1>8. LoadAlarm(p)'
  BY <1>2, <1>4, <1>5, <1>6 DEF LoadAlarm, Handles, Rounds, Measures, DLoad, DMain
<1>9. LoadDue(p)'
  <2>1. ~Over("load")
    BY <1>3 DEF Armed, Over, Given, Free, Idle
  <2> QED BY <1>1, <1>4, <1>5, <1>6, <2>1
      DEF Alarms5, LoadDue, Handles, Puts, LoadSetup, Rounds, Measures, DLoad
<1>10. Counts
  <2>1. Delay \in Nat /\ lag \in Nat /\ lag <= Delay /\ setting' = setting /\ lag' = 0
        /\ tc_load' = tc_load
    BY Bounds, Fields DEF Dev, Handles
  <2>2. LoadSpent = lag /\ LoadSpent' = Delay
    <3>1. LoadSpent = lag
      BY <1>3 DEF LoadSpent
    <3>2. tc_load'
      BY <1>4, <2>1
    <3>3. LoadSpent' = (Delay + lag)'
      BY <1>5, <1>6, <3>2 DEF LoadSpent
    <3> QED BY <2>1, <3>1, <3>3 DEF Delay
  <2>3. LateBy = lag - 1 /\ LateBy' = Delay - 1
    BY <1>1, <1>3, <1>5, <1>6, <2>1 DEF LateBy, Delay
  <2> QED BY <2>1, <2>2, <2>3 DEF Counts
<1>11. RoundTime(p)'
  BY <1>1, <1>6, <1>10, RoundWaits DEF Alarms5
<1> QED BY <1>7, <1>8, <1>9, <1>11 DEF Alarms5

(* load_alarm_handler starts to spin, ...                                  *)
LEMMA StartsSpinKeeps ==
    ASSUME Shape, NEW p \in Places, Alarms5(p), Handles, StartsSpin
    PROVE  Alarms5(p)'
<1>1. /\ Keeps("main") /\ Keeps("load") /\ isr'["load"] = "spin" /\ isr'["main"] = "idle"
      /\ isr["main"] = "idle"
      /\ isr["load"] = "callback" /\ sem' = sem /\ irq_load_sem' = irq_load_sem
      /\ time_irq' = time_irq
      /\ start' = hw["load"].cnt
  BY CallbackEffects DEF StartsSpin
<1>3. Firing("load")
  BY <1>1 DEF Alarms5, LoadAlarm, Places, LoadSetup, Rounds, Measures, DMain, DLoad, Waited,
      Over, Armed, Firing, Given, Free, Claimed, Idle
<1>4. /\ tc_load /\ alarm["load"].cb = "spin"
      /\ p \in {"load compare", "d load stop", "d load disable"} \cup Rounds \cup Measures
  <2>1. p # "seminit"
    BY <1>1, <1>3 DEF Alarms5, LoadDue, Waited, Armed
  <2>2. /\ tc_load /\ alarm["load"].cb = "spin"
        /\ p \in {"load compare", "seminit", "d load stop", "d load disable"} \cup Rounds
           \cup Measures
    BY <1>3, LoadBusy DEF Waited, Alarms5
  <2> QED BY <2>1, <2>2
<1>5. Firing("load")' /\ ~Armed("load")' /\ ~Armed("load") /\ (Waited("load")' <=> Waited("load"))
  BY <1>1, <1>3 DEF Firing, Keeps, Puts, Callback, Armed, Waited
<1>7. MainAlarm(p)' /\ Measured(p)'
  BY <1>1, MainStays DEF Alarms5
<1>8. LoadAlarm(p)'
  <2>1. /\ p \in Rounds \cup Measures => irq_load_sem = 0
        /\ p \in Rounds \cup Measures \cup DLoad => exists["load"]
        /\ exists["load"] \/ p \in {"load compare", "seminit"}
        /\ exists["load"] \/ early["load"]
    <3>1. Waited("load")
      BY <1>3 DEF Waited
    <3> QED BY <1>3, <1>4, <3>1, LoadBusy DEF Alarms5, LoadAlarm
  <2>2. Waited("load")'
    BY <1>5 DEF Waited
  <2>3. irq_load_sem' = irq_load_sem /\ exists' = exists /\ early' = early /\ tc_load' = tc_load
    BY <1>1 DEF Handles
  <2> QED BY <1>4, <1>5, <2>1, <2>2, <2>3 DEF LoadAlarm, Rounds, Measures, DLoad, DMain
<1>6. Spun' = 0 /\ lag' = 0
  <2>1. Spun' = Wrap(hw["load"].cnt - hw["load"].cnt)
    BY <1>1 DEF Spun, Keeps
  <2>2. hw["load"].cnt - hw["load"].cnt = 0 /\ 0 \in 0..Top
    BY Fields DEF Dev
  <2> QED BY <2>1, <2>2, WrapSmall DEF Handles
<1>9. LoadDue(p)'
  <2>1. ~Over("load")
    BY <1>1 DEF Over, Given, Free, Idle
  <2>2. (Spun <= Spin + 1 + lag)'
    BY <1>6, Bounds
  <2>3. (Spinning => lag = 0)'
    BY <1>6
  <2>4. hw'["load"].on = hw["load"].on /\ hw'["load"].flag = hw["load"].flag
        /\ tc_load' = tc_load /\ early' = early
    BY <1>1 DEF Keeps, Puts, Handles
  <2> QED BY <1>4, <1>5, <2>1, <2>2, <2>3, <2>4
      DEF Alarms5, LoadDue, LoadSetup, Rounds, Measures, DLoad
<1>10. Counts
  <2>1. Delay \in Nat /\ lag \in Nat /\ lag <= Delay /\ setting' = setting /\ tc_load'
    <3>1. tc_load'
      BY <1>4 DEF Handles
    <3> QED BY <3>1, Bounds, Fields DEF Dev, Handles
  <2>2. LoadSpent = Delay + lag /\ LoadSpent' = 2 * Delay
    <3>1. LoadSpent = Delay + lag
      BY <1>1, <1>4, <1>5 DEF LoadSpent
    <3>3. LoadSpent' = (2 * Delay + Spun)'
      BY <1>1, <1>5, <2>1 DEF LoadSpent
    <3> QED BY <1>6, <2>1, <3>1, <3>3 DEF Delay
  <2>3. LateBy = Delay + lag - 1 /\ LateBy' = 2 * Delay - 1
    <3>1. LateBy = Delay + lag - 1
      BY <1>1, <1>5 DEF LateBy
    <3>3. LateBy' = (2 * Delay + Spun - 1)'
      BY <1>1, <1>5 DEF LateBy
    <3> QED BY <1>6, <2>1, <3>1, <3>3 DEF Delay
  <2> QED BY <2>1, <2>2, <2>3 DEF Counts
<1>11. RoundTime(p)'
  BY <1>1, <1>5, <1>10, RoundWaits DEF Alarms5
<1> QED BY <1>7, <1>8, <1>9, <1>11 DEF Alarms5

(* ... stops its counter and gives its semaphore, which exists unless the  *)
(* alarm was early, ...                                                    *)
LEMMA EndsSpinKeeps ==
    ASSUME Shape, NEW p \in Places, Alarms5(p), Handles, EndsSpin
    PROVE  /\ exists["load"] => Alarms5(p)' /\ crashed' = crashed
           /\ ~exists["load"] => early["load"] /\ p \in {"load compare", "seminit"}
<1>1. /\ Keeps("main") /\ isr'["load"] = "reset" /\ isr["load"] = "spin"
      /\ isr'["main"] = "idle" /\ isr["main"] = "idle"
      /\ Puts("load", FALSE, hw["load"].en, hw["load"].cmp, alarm["load"].cb)
      /\ hw'["load"].flag = hw["load"].flag
      /\ sem' = sem /\ irq_load_sem' = irq_load_sem + 1 /\ time_irq' = time_irq
  BY EndsSpinEffects DEF EndsSpin
<1>3. Firing("load")
  BY <1>1 DEF Alarms5, LoadAlarm, Places, LoadSetup, Rounds, Measures, DMain, DLoad, Waited,
      Over, Armed, Firing, Given, Free, Claimed, Idle
<1>4. /\ tc_load /\ alarm["load"].cb = "spin"
      /\ p \in {"load compare", "d load stop", "d load disable"} \cup Rounds \cup Measures
      /\ p \in Rounds \cup Measures => irq_load_sem = 0
  <2>1. p # "seminit"
    BY <1>1, <1>3 DEF Alarms5, LoadDue, Waited, Armed
  <2>2. /\ tc_load /\ alarm["load"].cb = "spin"
        /\ p \in {"load compare", "seminit", "d load stop", "d load disable"} \cup Rounds
           \cup Measures
        /\ p \in Rounds \cup Measures => irq_load_sem = 0
    BY <1>3, LoadBusy DEF Waited, Alarms5
  <2> QED BY <2>1, <2>2
<1>5. ASSUME ~exists["load"] PROVE early["load"] /\ p \in {"load compare", "seminit"}
  BY <1>3, <1>5 DEF Alarms5, LoadAlarm, Waited
<1>6. ASSUME exists["load"] PROVE Alarms5(p)' /\ crashed' = crashed
  <2>1. Given("load")' /\ ~Armed("load")' /\ ~Armed("load") /\ ~Waited("load")' /\ ~Firing("load")'
    BY <1>1, <1>3 DEF Given, Firing, Puts, Callback, Armed, Waited
  <2>2. MainAlarm(p)' /\ Measured(p)'
    BY <1>1, MainStays DEF Alarms5
  <2>3. p \in Rounds \cup Measures => irq_load_sem' = 1
    <3>1. irq_load_sem' = irq_load_sem + 1
      BY <1>1
    <3>2. p \in Rounds \cup Measures => irq_load_sem = 0
      BY <1>4
    <3> QED BY <3>1, <3>2
  <2>4. LoadAlarm(p)'
    BY <1>4, <1>6, <2>1, <2>3 DEF LoadAlarm, Over, Handles, Rounds, Measures, DLoad, DMain
  <2>5. LoadDue(p)'
    <3>1. p = "load compare" /\ hw'["load"].flag => early'["load"]
      BY <1>1 DEF Alarms5, LoadDue, Handles
    <3> QED BY <1>1, <1>4, <2>1, <3>1 DEF LoadDue, Over, LoadSetup, Rounds, Measures, DLoad
  <2>6. p \in Rounds => Counts
    <3> SUFFICES ASSUME p \in Rounds PROVE Counts
      OBVIOUS
    <3>1. Delay \in Nat /\ Spin \in Nat /\ lag \in Nat /\ lag <= Delay /\ setting' = setting
          /\ tc_load' /\ lag' = 0
      <4>1. tc_load'
        BY <1>4 DEF Handles
      <4> QED BY <4>1, Bounds, Fields DEF Dev, Handles
    <3>2. Spun <= Spin + 1 + lag /\ Spun \in Nat
      <4>1. hw["load"].cnt - start \in Int
        BY Fields DEF Dev
      <4>2. Spun \in Nat
        BY <4>1, WrapIn, Bounds DEF Spun
      <4> QED BY <1>1, <4>2 DEF Alarms5, LoadDue, Rounds, DLoad
    <3>3. LoadSpent = 2 * Delay + Spun /\ LoadSpent' = 3 * Delay + Spin + 1
      <4>1. LoadSpent = 2 * Delay + Spun
        BY <1>1, <1>4, <2>1 DEF LoadSpent
      <4>2. LoadSpent' = (3 * Delay + Spin + 1 + lag)'
        BY <1>1, <2>1, <3>1 DEF LoadSpent
      <4> QED BY <3>1, <4>1, <4>2 DEF Delay
    <3>4. LateBy = 2 * Delay + Spun - 1 /\ LateBy' = 3 * Delay + Spin
      <4>1. LateBy = 2 * Delay + Spun - 1
        BY <1>1, <2>1 DEF LateBy
      <4>2. LateBy' = (3 * Delay + Spin + lag)'
        BY <1>1, <2>1 DEF LateBy
      <4> QED BY <3>1, <4>1, <4>2 DEF Delay
    <3> QED BY <3>1, <3>2, <3>3, <3>4 DEF Counts
  <2>7. RoundTime(p)'
    BY <1>1, <2>1, <2>6, RoundWaits DEF Alarms5
  <2>8. crashed' = crashed
    <3>1. crashed' = (crashed \/ ~exists["load"]) /\ crashed \in BOOLEAN
      BY DEF EndsSpin, Shape, TypeOK
    <3> QED BY <1>6, <3>1
  <2> QED BY <2>2, <2>4, <2>5, <2>7, <2>8 DEF Alarms5
<1> QED BY <1>5, <1>6

(* ... and leaves the alarm free.                                          *)
LEMMA ExitLoadKeeps ==
    ASSUME Shape, NEW p \in Places, Alarms5(p), Handles, Exits("load")
    PROVE  Alarms5(p)'
<1>1. /\ isr["load"] = "reset" /\ isr'["load"] = "idle" /\ isr'["main"] = isr["main"]
      /\ Puts("load", hw["load"].on, hw["load"].en, hw["load"].cmp, "none") /\ hw' = hw
      /\ Keeps("main")
      /\ sem' = sem /\ irq_load_sem' = irq_load_sem /\ time_irq' = time_irq
  BY ExitsEffects DEF Dev, Exits
<1>0. isr["main"] = "idle" /\ isr'["main"] = "idle"
  BY <1>1 DEF Shape
<1>3. Given("load")
  BY <1>1 DEF Alarms5, LoadAlarm, Places, LoadSetup, Rounds, Measures, DMain, DLoad, Waited,
      Over, Armed, Firing, Given, Free, Claimed, Idle
<1>4. /\ tc_load /\ alarm["load"].cb = "spin" /\ ~Waited("load") /\ ~Armed("load")
      /\ p \in {"load compare", "d load stop", "d load disable", "seminit"} \cup Rounds
         \cup Measures
      /\ p \in Rounds \cup Measures => irq_load_sem = 1
  <2>1. ~Waited("load") /\ ~Armed("load")
    BY <1>1 DEF Waited, Armed, Firing
  <2> QED BY <1>3, <2>1, LoadBusy DEF Alarms5
<1>5. Free("load")' /\ ~Armed("load")' /\ ~Waited("load")' /\ ~Firing("load")'
  BY <1>1, <1>3 DEF Given, Firing, Puts, Callback, Armed, Waited, Free, Idle
<1>6. p \in Rounds \cup Measures \cup DLoad => exists["load"]
  BY <1>4 DEF Alarms5, LoadAlarm
<1>7. MainAlarm(p)' /\ Measured(p)'
  BY <1>0, <1>1, MainStays DEF Alarms5
<1>8. LoadAlarm(p)'
  BY <1>1, <1>4, <1>5, <1>6 DEF LoadAlarm, Over, Handles, Rounds, Measures, DLoad, DMain
<1>9. LoadDue(p)'
  <2>1. p = "load compare" /\ hw'["load"].flag => early'["load"]
    BY <1>1 DEF Alarms5, LoadDue, Handles
  <2> QED BY <1>1, <1>4, <1>5, <2>1 DEF LoadDue, Over, LoadSetup, Rounds, Measures, DLoad
<1>10. Counts
  <2>1. Delay \in Nat /\ Spin \in Nat /\ lag \in Nat /\ lag <= Delay /\ setting' = setting
        /\ tc_load' /\ lag' = 0 /\ setting.load
    <3>1. tc_load' /\ setting.load
      BY <1>4 DEF Handles, Shape
    <3> QED BY <3>1, Bounds, Fields DEF Dev, Handles
  <2>2. LoadSpent = 3 * Delay + Spin + 1 + lag /\ LoadSpent' = 4 * Delay + Spin + 1
    <3>1. LoadSpent = 3 * Delay + Spin + 1 + lag
      BY <1>1, <1>4 DEF LoadSpent
    <3>3. LoadSpent' = (4 * Delay + Spin + 1 + lag)'
      BY <1>1, <1>5, <2>1 DEF LoadSpent
    <3> QED BY <2>1, <3>1, <3>3 DEF Delay
  <2>3. LateBy = 3 * Delay + Spin + lag /\ LateBy' = 4 * Delay + Spin
    <3>1. LateBy = 3 * Delay + Spin + lag
      BY <1>1, <1>4 DEF LateBy
    <3>3. LateBy' = (4 * Delay + Spin + lag)'
      BY <1>1, <1>5, <2>1 DEF LateBy
    <3> QED BY <2>1, <3>1, <3>3 DEF Delay
  <2> QED BY <2>1, <2>2, <2>3 DEF Counts
<1>11. RoundTime(p)'
  BY <1>0, <1>1, <1>5, <1>10, RoundWaits DEF Alarms5
<1> QED BY <1>7, <1>8, <1>9, <1>11 DEF Alarms5

-----------------------------------------------------------------------------
(* The counters' clock.                                                    *)

(* Where the code looks at the place itself.                               *)
LEMMA PlaceAt ==
    ASSUME NEW p \in Places, TaskAt(p) \/ ScriptAt(p), tc_load \in BOOLEAN
    PROVE  /\ At("take", "main") <=> p = "take"
           /\ At("take", "load") <=> p = "load take"
           /\ At("enable", "main") <=> p = "enable"
           /\ At("compare", "main") <=> p = "compare"
           /\ At("enable", "load") <=> p = "load enable"
           /\ At("compare", "load") <=> p = "load compare"
           /\ At("now", "main") <=> p = "now"
<1>0. CASE ScriptAt(p)
  BY <1>0 DEF ScriptAt, At
<1> SUFFICES ASSUME TaskAt(p) PROVE
           /\ At("take", "main") <=> p = "take"
           /\ At("take", "load") <=> p = "load take"
           /\ At("enable", "main") <=> p = "enable"
           /\ At("compare", "main") <=> p = "compare"
           /\ At("enable", "load") <=> p = "load enable"
           /\ At("compare", "load") <=> p = "load compare"
           /\ At("now", "main") <=> p = "now"
  BY <1>0
<1>00. todo # << >>
  BY Heads
<1>1. CASE p = "start"
  <2>1. Head(todo) = Op("start", "main")
    BY <1>1, Heads
  <2>2. \A b, e : At(b, e) <=> b = "start" /\ e = "main"
    BY <1>00, <2>1, AtIs
  <2> QED BY <1>1, <2>2
<1>2. CASE p = "load start"
  <2>1. Head(todo) = Op("start", "load")
    BY <1>2, Heads
  <2>2. \A b, e : At(b, e) <=> b = "start" /\ e = "load"
    BY <1>00, <2>1, AtIs
  <2> QED BY <1>2, <2>2
<1>3. CASE p = "load claim"
  <2>1. Head(todo) = Op("claim", "load")
    BY <1>3, Heads
  <2>2. \A b, e : At(b, e) <=> b = "claim" /\ e = "load"
    BY <1>00, <2>1, AtIs
  <2> QED BY <1>3, <2>2
<1>4. CASE p = "load enable"
  <2>1. Head(todo) = Op("enable", "load")
    BY <1>4, Heads
  <2>2. \A b, e : At(b, e) <=> b = "enable" /\ e = "load"
    BY <1>00, <2>1, AtIs
  <2> QED BY <1>4, <2>2
<1>5. CASE p = "load compare"
  <2>1. Head(todo) = Op("compare", "load")
    BY <1>5, Heads
  <2>2. \A b, e : At(b, e) <=> b = "compare" /\ e = "load"
    BY <1>00, <2>1, AtIs
  <2> QED BY <1>5, <2>2
<1>6. CASE p = "seminit"
  <2>1. Head(todo) = Op("seminit", "load")
    BY <1>6, Heads
  <2>2. \A b, e : At(b, e) <=> b = "seminit" /\ e = "load"
    BY <1>00, <2>1, AtIs
  <2> QED BY <1>6, <2>2
<1>7. CASE p = "prog"
  <2>1. Head(todo) = Op("prog", "main")
    BY <1>7, Heads
  <2>2. \A b, e : At(b, e) <=> b = "prog" /\ e = "main"
    BY <1>00, <2>1, AtIs
  <2> QED BY <1>7, <2>2
<1>8. CASE p = "claim"
  <2>1. Head(todo) = Op("claim", "main")
    BY <1>8, Heads
  <2>2. \A b, e : At(b, e) <=> b = "claim" /\ e = "main"
    BY <1>00, <2>1, AtIs
  <2> QED BY <1>8, <2>2
<1>9. CASE p = "enable"
  <2>1. Head(todo) = Op("enable", "main")
    BY <1>9, Heads
  <2>2. \A b, e : At(b, e) <=> b = "enable" /\ e = "main"
    BY <1>00, <2>1, AtIs
  <2> QED BY <1>9, <2>2
<1>10. CASE p = "compare"
  <2>1. Head(todo) = Op("compare", "main")
    BY <1>10, Heads
  <2>2. \A b, e : At(b, e) <=> b = "compare" /\ e = "main"
    BY <1>00, <2>1, AtIs
  <2> QED BY <1>10, <2>2
<1>11. CASE p = "take"
  <2>1. Head(todo) = Op("take", "main")
    BY <1>11, Heads
  <2>2. \A b, e : At(b, e) <=> b = "take" /\ e = "main"
    BY <1>00, <2>1, AtIs
  <2> QED BY <1>11, <2>2
<1>12. CASE p = "disable"
  <2>1. Head(todo) = Op("disable", "main")
    BY <1>12, Heads
  <2>2. \A b, e : At(b, e) <=> b = "disable" /\ e = "main"
    BY <1>00, <2>1, AtIs
  <2> QED BY <1>12, <2>2
<1>13. CASE p = "clear"
  <2>1. Head(todo) = Op("clear", "main")
    BY <1>13, Heads
  <2>2. \A b, e : At(b, e) <=> b = "clear" /\ e = "main"
    BY <1>00, <2>1, AtIs
  <2> QED BY <1>13, <2>2
<1>14. CASE p = "now"
  <2>1. Head(todo) = Op("now", "main")
    BY <1>14, Heads
  <2>2. \A b, e : At(b, e) <=> b = "now" /\ e = "main"
    BY <1>00, <2>1, AtIs
  <2> QED BY <1>14, <2>2
<1>15. CASE p = "stop"
  <2>1. Head(todo) = Op("stop", "main")
    BY <1>15, Heads
  <2>2. \A b, e : At(b, e) <=> b = "stop" /\ e = "main"
    BY <1>00, <2>1, AtIs
  <2> QED BY <1>15, <2>2
<1>16. CASE p = "load take"
  <2>1. Head(todo) = Op("take", "load")
    BY <1>16, Heads
  <2>2. \A b, e : At(b, e) <=> b = "take" /\ e = "load"
    BY <1>00, <2>1, AtIs
  <2> QED BY <1>16, <2>2
<1> QED BY <1>1, <1>2, <1>3, <1>4, <1>5, <1>6, <1>7, <1>8, <1>9, <1>10, <1>11, <1>12, <1>13,
    <1>14, <1>15, <1>16 DEF TaskAt

(* A tick: the core is busy, or its handler spins, or the task waits.      *)
LEMMA TickKinds ==
    ASSUME Shape, NEW p \in Places, TaskAt(p) \/ ScriptAt(p), ~crashed, LatencyTick
    PROVE  /\ \/ lag < Delay /\ lag' = lag + 1 /\ ~Spinning
              \/ lag' = 0 /\ Spinning
              \/ lag' = 0 /\ InTask /\ p \in {"take", "load take"}
                 /\ (p = "take" => sem = 0 /\ wait < Timeout)
           /\ p = "take" /\ InTask /\ sem = 0 /\ wait < Timeout => lag' = 0
           /\ p = "take" /\ wait < Timeout => wait' = wait + 1
           /\ ~(p = "take" /\ wait < Timeout) => wait' = wait
           /\ early'["main"] <=> early["main"] \/ (p \in {"enable", "compare"} /\ hw'["main"].flag)
           /\ early'["load"]
              <=> early["load"] \/ (p \in {"load enable", "load compare"} /\ hw'["load"].flag)
<1>1. tc_load \in BOOLEAN /\ "main" \in Dev /\ "load" \in Dev
  BY DEF Shape, TypeOK, Dev
<1>2. /\ At("take", "main") <=> p = "take"
      /\ At("take", "load") <=> p = "load take"
      /\ At("enable", "main") <=> p = "enable"
      /\ At("compare", "main") <=> p = "compare"
      /\ At("enable", "load") <=> p = "load enable"
      /\ At("compare", "load") <=> p = "load compare"
  BY <1>1, PlaceAt
<1>3. /\ LatencyBusy => lag < Delay /\ lag' = lag + 1
      /\ ~LatencyBusy => lag' = 0
      /\ wait' = IF At("take", "main") /\ wait < Timeout THEN wait + 1 ELSE wait
      /\ \A d \in Dev : early'[d] = (early[d] \/ (Arming(d) /\ hw'[d].flag))
  BY TickSteps
<1>4. p = "take" => script = << >>
  BY <1>1, <1>2, ScriptHeads DEF TaskAt, ScriptAt
<1>5. Blocked <=> (p = "take" /\ sem = 0 /\ wait < Timeout) \/ (p = "load take" /\ irq_load_sem = 0)
  BY <1>2 DEF Blocked
<1>6. LatencyBusy <=> ~Spinning /\ (InTask => script # << >> \/ ~Blocked)
  BY DEF LatencyBusy
<1>7. \/ lag < Delay /\ lag' = lag + 1 /\ ~Spinning
      \/ lag' = 0 /\ Spinning
      \/ lag' = 0 /\ InTask /\ p \in {"take", "load take"}
         /\ (p = "take" => sem = 0 /\ wait < Timeout)
  BY <1>3, <1>5, <1>6
<1>8. p = "take" /\ InTask /\ sem = 0 /\ wait < Timeout => lag' = 0
  BY <1>3, <1>4, <1>5, <1>6
<1>9. /\ p = "take" /\ wait < Timeout => wait' = wait + 1
      /\ ~(p = "take" /\ wait < Timeout) => wait' = wait
  BY <1>2, <1>3
<1>10. /\ Arming("main") <=> p \in {"enable", "compare"}
       /\ Arming("load") <=> p \in {"load enable", "load compare"}
  BY <1>2 DEF Arming
<1>11. /\ early'["main"] <=> early["main"] \/ (p \in {"enable", "compare"} /\ hw'["main"].flag)
       /\ early'["load"]
          <=> early["load"] \/ (p \in {"load enable", "load compare"} /\ hw'["load"].flag)
  <2>1. /\ early'["main"] = (early["main"] \/ (Arming("main") /\ hw'["main"].flag))
        /\ early'["load"] = (early["load"] \/ (Arming("load") /\ hw'["load"].flag))
    BY <1>1, <1>3
  <2> QED BY <1>10, <2>1
<1> QED BY <1>7, <1>8, <1>9, <1>11

(* An alarm that is due comes nearer, and fires when it is at hand.        *)
LEMMA DueNext ==
    ASSUME Shape, NEW v \in 0..Top, TickOf("load"), hw["load"].on
    PROVE  /\ \A n \in 1..Top : Due(v) = n => Wrap(v - hw'["load"].cnt) = n - 1
           /\ ~hw["load"].flag /\ v = hw["load"].cmp => (hw'["load"].flag <=> Due(v) = 1)
<1>1. /\ hw["load"].cnt \in 0..Top /\ hw["load"].cmp \in 0..Top /\ hw["load"].flag \in BOOLEAN
  BY Fields DEF Dev
<1>2. /\ hw'["load"].cnt = Wrap(hw["load"].cnt + 1)
      /\ hw'["load"].flag = (hw["load"].flag \/ Wrap(hw["load"].cnt + 1) = hw["load"].cmp)
  BY DEF TickOf
<1>3. /\ Wrap(hw["load"].cnt + 1) = v <=> Wrap(v - hw["load"].cnt) = 1
      /\ Wrap(v - hw["load"].cnt) >= 1
         => Wrap(v - Wrap(hw["load"].cnt + 1)) = Wrap(v - hw["load"].cnt) - 1
  BY <1>1, TickDue
<1>4. ASSUME NEW n \in 1..Top, Due(v) = n PROVE Wrap(v - hw'["load"].cnt) = n - 1
  BY <1>2, <1>3, <1>4 DEF Due
<1>5. ~hw["load"].flag /\ v = hw["load"].cmp => (hw'["load"].flag <=> Due(v) = 1)
  BY <1>1, <1>2, <1>3 DEF Due
<1> QED BY <1>4, <1>5

(* What calc_diff_ns() makes of a difference.                              *)
LEMMA DiffIs ==
    ASSUME NEW a \in 0..Top, NEW b \in 0..Top
    PROVE  /\ a <= b => Wrap(b - a) = b - a /\ Diff(a, b) = b - a
           /\ b < a => Wrap(b - a) = b - a + Top + 1 /\ Diff(a, b) = b - a + Top
<1>0. Top \in Nat
  BY CounterAssumption
<1>1. ASSUME a <= b PROVE Wrap(b - a) = b - a /\ Diff(a, b) = b - a
  <2>1. b - a \in 0..Top
    BY <1>0, <1>1
  <2> QED BY <1>0, <1>1, <2>1, WrapSmall DEF Diff
<1>2. ASSUME b < a PROVE Wrap(b - a) = b - a + Top + 1 /\ Diff(a, b) = b - a + Top
  <2>1. b - a + Top + 1 \in 0..Top /\ b - a \in Int /\ b - a = (-1) * (Top + 1) + (b - a + Top + 1)
    BY <1>0, <1>2
  <2>2. Wrap(b - a) = b - a + Top + 1
    BY <2>1, WrapUnique
  <2> QED BY <1>0, <1>2, <2>2 DEF Diff
<1> QED BY <1>1, <1>2

(* The load's handler counts on, and does not spin again.                  *)
LEMMA SpunNext ==
    ASSUME Shape, NEW p \in Places, p \notin DLoad, LoadDue(p), isr["load"] = "spin",
           TickOf("load"),
           start' = start, isr' = isr
    PROVE  /\ Spun \in Nat /\ Spun <= Spin + 1 + lag /\ Spun < Top
           /\ Spinning => Spun <= Spin
           /\ \E m \in Nat : /\ Spun' = m /\ m <= Spun + 1
                             /\ hw["load"].on => m = Spun + 1
           /\ ~Spinning => ~Spinning'
<1> DEFINE c == hw["load"].cnt
           k == Wrap(c - start)
           i == Diff(start, c)
<1>1. /\ c \in 0..Top /\ start \in 0..Top /\ lag \in Nat /\ lag <= Delay /\ Delay \in Nat
      /\ hw["load"].on \in BOOLEAN
  BY Fields DEF Dev
<1>2. /\ Top \in Nat /\ Spin \in Nat /\ Timeout \in Nat /\ 3 <= Timeout
      /\ Timeout + Spin + 8 * Delay < Top
  BY Bounds
<1>3. Spun = k /\ k <= Spin + 1 + lag /\ (Spinning <=> i < Spin)
  BY DEF LoadDue, Spun, Spinning
<1>4. /\ start <= c => k = c - start /\ i = c - start
      /\ c < start => k = c - start + Top + 1 /\ i = c - start + Top
  BY <1>1, DiffIs
<1>5. k \in Nat /\ k < Top /\ (i < Spin => k <= Spin)
  <2> HIDE DEF c, k, i
  <2> QED BY <1>1, <1>2, <1>3, <1>4
<1>6. CASE ~hw["load"].on
  <2>1. hw'["load"].cnt = c
    BY <1>6 DEF TickOf
  <2>2. Spun' = k /\ (Spinning' <=> Spinning)
    BY <2>1 DEF Spun, Spinning
  <2> QED BY <1>3, <1>5, <1>6, <2>2
<1>7. CASE hw["load"].on
  <2> DEFINE n == Wrap(c + 1)
  <2>1. hw'["load"].cnt = n /\ n \in 0..Top
    BY <1>1, <1>7, WrapIn DEF TickOf
  <2>2. n = IF c = Top THEN 0 ELSE c + 1
    <3>1. CASE c = Top
      <4>1. c + 1 = 1 * (Top + 1) + 0 /\ c + 1 \in Int /\ 0 \in 0..Top
        BY <1>1, <1>2, <3>1
      <4> QED BY <3>1, <4>1, WrapUnique
    <3>2. CASE c # Top
      <4>1. c + 1 \in 0..Top
        BY <1>1, <1>2, <3>2
      <4> QED BY <3>2, <4>1, WrapSmall
    <3> QED BY <3>1, <3>2
  <2>3. /\ start <= n => Wrap(n - start) = n - start /\ Diff(start, n) = n - start
        /\ n < start => Wrap(n - start) = n - start + Top + 1 /\ Diff(start, n) = n - start + Top
    BY <1>1, <2>1, DiffIs
  <2> DEFINE m == Wrap(n - start)
             j == Diff(start, n)
  <2>4. m = k + 1 /\ j >= i /\ j \in Int /\ i \in Int
    <3> HIDE DEF c, n, k, i, m, j
    <3>1. /\ start <= n => m = n - start /\ j = n - start
          /\ n < start => m = n - start + Top + 1 /\ j = n - start + Top
      BY <2>3 DEF m, j
    <3>2. CASE c = Top
      BY <1>1, <1>2, <1>4, <1>5, <2>2, <3>1, <3>2
    <3>3. CASE c # Top
      BY <1>1, <1>2, <1>4, <1>5, <2>2, <3>1, <3>3
    <3> QED BY <3>2, <3>3
  <2>5. Spun' = m /\ (Spinning' <=> j < Spin)
    BY <2>1 DEF Spun, Spinning
  <2>6. m \in Nat
    <3> HIDE DEF m, k
    <3> QED BY <1>5, <2>4
  <2>7. ~(i < Spin) => ~(j < Spin)
    <3> HIDE DEF j, i
    <3> QED BY <1>2, <2>4
  <2>8. m <= k + 1
    <3> HIDE DEF m, k
    <3> QED BY <1>5, <2>4, <2>6
  <2> HIDE DEF m, k, i, j, c, n
  <2> QED BY <1>3, <1>5, <2>4, <2>5, <2>6, <2>7, <2>8
<1> QED BY <1>1, <1>6, <1>7

(* The alarms are where they were, ...                                     *)
LEMMA MainAlarmNext ==
    ASSUME Shape, NEW p \in Places, MainAlarm(p), LoadDue(p), RoundTime(p), LatencyTick
    PROVE  MainAlarm(p)'
<1>1. /\ alarm' = alarm /\ isr' = isr /\ sem' = sem /\ exists' = exists
      /\ hw'["main"].en = hw["main"].en /\ TickOf("main")
  BY TickSteps DEF TickOf
<1>2. /\ Armed("main")' <=> Armed("main")
      /\ Waited("main")' <=> Waited("main")
      /\ Over("main")' <=> Over("main")
      /\ Free("main")' <=> Free("main")
      /\ Claimed("main")' <=> Claimed("main")
      /\ Idle("main")' <=> Idle("main")
  BY <1>1 DEF Waited, Over, Armed, Firing, Given, Free, Claimed, Idle, Callback
<1>3. p = "disable" => ~hw'["main"].flag
  <2> SUFFICES ASSUME p = "disable" PROVE ~hw'["main"].flag
    OBVIOUS
  <2>1. ~hw["main"].flag /\ p \in Rounds
    BY DEF MainAlarm, Rounds
  <2>2. PICK e \in Nat : RoundAt(p, e)
    BY DEF RoundTime, Rounds
  <2>3. e >= Ticks /\ hw["main"].cmp = time_prog /\ hw["main"].cnt = Wrap(time_prog - Ticks + e)
    BY <2>2 DEF RoundAt, Since
  <2>4. CASE ~hw["main"].on
    BY <1>1, <2>1, <2>4 DEF TickOf
  <2>5. CASE hw["main"].on
    <3> SUFFICES ASSUME Wrap(hw["main"].cnt + 1) = hw["main"].cmp PROVE FALSE
      BY <1>1, <2>1, <2>5 DEF TickOf
    <3>1. time_prog \in 0..Top /\ Ticks \in Nat /\ Top \in Nat
      BY Fields, Bounds DEF Dev
    <3>2. Wrap(hw["main"].cnt + 1) = Wrap(time_prog - Ticks + (e + 1))
      <4>1. time_prog - Ticks \in Int
        BY <3>1
      <4> QED BY <4>1, <2>3, SinceNext
    <3>3. e + 1 \in Nat /\ e + 1 - Ticks \in (-Top)..Top
      BY <2>1, <2>2, RoundInWidth
    <3>4. PICK f \in Nat : f = e + 1
      BY <3>3
    <3>5. time_prog = Wrap(time_prog - Ticks + f) /\ f - Ticks \in (-Top)..Top
      <4>1. Wrap(hw["main"].cnt + 1) = Wrap(time_prog - Ticks + f)
        BY <3>2, <3>4
      <4>2. time_prog = Wrap(hw["main"].cnt + 1)
        BY <2>3
      <4> QED BY <3>1, <3>3, <3>4, <4>1, <4>2
    <3>6. f = Ticks
      BY <3>1, <3>5, SinceAll
    <3> QED BY <2>3, <3>1, <3>4, <3>6
  <2> QED BY <2>4, <2>5
<1> QED BY <1>1, <1>2, <1>3 DEF MainAlarm

LEMMA LoadAlarmNext ==
    ASSUME Shape, NEW p \in Places, LoadAlarm(p), LatencyTick
    PROVE  LoadAlarm(p)'
<1>1. /\ alarm' = alarm /\ isr' = isr /\ irq_load_sem' = irq_load_sem /\ exists' = exists
      /\ tc_load' = tc_load
      /\ hw'["load"].en = hw["load"].en
  BY TickSteps DEF TickOf
<1>2. /\ Waited("load")' <=> Waited("load")
      /\ Over("load")' <=> Over("load")
      /\ Free("load")' <=> Free("load")
      /\ Given("load")' <=> Given("load")
      /\ Firing("load")' <=> Firing("load")
      /\ Claimed("load")' <=> Claimed("load")
      /\ Idle("load")' <=> Idle("load")
  BY <1>1 DEF Waited, Over, Armed, Firing, Given, Free, Claimed, Idle, Callback
<1>3. early["load"] => early'["load"]
  BY TickSteps DEF Dev
<1> QED BY <1>1, <1>2, <1>3 DEF LoadAlarm

(* ... and what was measured is kept.                                      *)
LEMMA MeasuredNext ==
    ASSUME Shape, NEW p \in Places, TaskAt(p) \/ ScriptAt(p), ~crashed, Measured(p), LatencyTick
    PROVE  Measured(p)'
<1>1. /\ alarm' = alarm /\ isr' = isr /\ sem' = sem /\ now' = now /\ time_irq' = time_irq
      /\ time_prog' = time_prog
      /\ setting' = setting /\ hw'["main"].en = hw["main"].en
  BY TickSteps DEF TickOf
<1>2. (Armed("main")' <=> Armed("main")) /\ (Firing("main")' <=> Firing("main"))
  BY <1>1 DEF Armed, Firing, Callback
<1>3. MaxIrqDelay' = MaxIrqDelay
  BY <1>1 DEF MaxIrqDelay
<1>4. early'["main"] <=> early["main"] \/ (p \in {"enable", "compare"} /\ hw'["main"].flag)
  BY TickKinds
<1>5. p \in {"enable", "compare"} /\ hw'["main"].flag => early'["main"]
  BY <1>4
<1>6. p = "compare" /\ ~Armed("main")' => early'["main"]
  BY <1>2, <1>4 DEF Measured
<1>7. early["main"] => early'["main"]
  BY <1>4
<1> QED BY <1>1, <1>2, <1>3, <1>5, <1>6, <1>7 DEF Measured

LEMMA DueIn == ASSUME Shape, NEW v \in 0..Top PROVE \E n \in 0..Top : Due(v) = n
<1>1. v - hw["load"].cnt \in Int
  BY Fields DEF Dev
<1> QED BY <1>1, WrapIn DEF Due

(* While the software goes on it is not due.                               *)
LEMMA DueLater ==
    ASSUME Shape, TickOf("load"), hw["load"].on, tc_load, NEW v \in 0..Top,
           NEW w \in 0..(2 * Delay),
           lag < Delay, Due(v) \in (LoadTicks - w - lag)..LoadTicks
    PROVE  Due(v) # 1 /\ Wrap(v - hw'["load"].cnt) \in (LoadTicks - w - (lag + 1))..LoadTicks
<1>1. LoadTicks \in Nat /\ Delay \in Nat /\ lag \in Nat /\ Top \in Nat /\ LoadTicks < Top
      /\ 3 * Delay < LoadTicks
  BY Bounds, Fields DEF Dev, Shape
<1>2. PICK n \in 0..Top : Due(v) = n
  BY DueIn
<1>3. n \in (LoadTicks - w - lag)..LoadTicks
  BY <1>2
<1>4. n \in 1..Top /\ n # 1 /\ n - 1 \in (LoadTicks - w - (lag + 1))..LoadTicks
  BY <1>1, <1>3
<1> QED BY <1>2, <1>4, DueNext

(* The load alarm, if it is in use, has a counter that runs.               *)
LEMMA LoadRuns ==
    ASSUME Shape, NEW p \in Places, LoadAlarm(p), LoadDue(p), ForLoad(p) => tc_load,
           \/ p \in {"load enable", "load compare", "seminit"}
              /\ (p = "load enable" \/ ~Over("load"))
           \/ p \in Rounds \cup Measures /\ ~Over("load")
    PROVE  tc_load /\ hw["load"].on
<1>1. tc_load
  <2>1. CASE p \in {"load enable", "load compare", "seminit"}
    BY <2>1 DEF ForLoad, LoadSetup
  <2>2. CASE p \in Rounds \cup Measures /\ ~Over("load")
    BY <2>2 DEF LoadAlarm, Over
  <2> QED BY <2>1, <2>2
<1>2. p = "load enable" => ~Over("load")
  BY DEF LoadAlarm, Claimed, Idle, Over, Given, Free, Callback
<1> QED BY <1>1, <1>2 DEF LoadDue, LoadSetup

(* The clock: a load alarm that is armed comes nearer by a tick, and its   *)
(* match is early before its semaphore is made.                            *)
LEMMA LoadDueNext ==
    ASSUME Shape, NEW p \in Places, TaskAt(p) \/ ScriptAt(p), ~crashed, LoadAlarm(p), LoadDue(p),
           ForLoad(p) => tc_load, LatencyTick
    PROVE  LoadDue(p)'
<1>1. /\ alarm' = alarm /\ isr' = isr /\ tc_load' = tc_load /\ next' = next /\ start' = start
      /\ setting' = setting
      /\ TickOf("load")
  BY TickSteps
<1>2. /\ Armed("load")' <=> Armed("load")
      /\ Over("load")' <=> Over("load")
      /\ Waited("load")' <=> Waited("load")
      /\ hw'["load"].on = hw["load"].on /\ hw'["load"].cmp = hw["load"].cmp
      /\ hw["load"].flag => hw'["load"].flag
  BY <1>1, Fields DEF Waited, Over, Armed, Firing, Given, Free, Idle, Callback, TickOf, Dev
<1>3. /\ \/ lag < Delay /\ lag' = lag + 1 /\ ~Spinning
         \/ lag' = 0 /\ Spinning
         \/ lag' = 0 /\ InTask /\ p \in {"take", "load take"}
      /\ early'["load"]
         <=> early["load"] \/ (p \in {"load enable", "load compare"} /\ hw'["load"].flag)
  BY TickKinds
<1>4. /\ LoadTicks \in Nat /\ Delay \in Nat /\ lag \in Nat /\ Spin \in Nat /\ Top \in Nat
      /\ LoadTicks < Top
  BY Bounds, Fields DEF Dev
<1>a. tc_load => 3 * Delay < LoadTicks
  BY Bounds DEF Shape
<1>b. next \in 0..Top /\ hw["load"].cmp \in 0..Top /\ Delay' = Delay
  BY <1>1, Fields DEF Dev, Delay
<1>c. /\ 0 \in 0..(2 * Delay) /\ Delay \in 0..(2 * Delay) /\ 2 * Delay \in 0..(2 * Delay)
      /\ LoadTicks - 0 - lag = LoadTicks - lag
      /\ LoadTicks - 0 - (lag + 1) = LoadTicks - (lag + 1)
  BY <1>4
<1>5. p \in {"load enable", "load compare"} /\ hw'["load"].flag => early'["load"]
  BY <1>3
<1>6. p = "load enable" => Due(next)' \in (LoadTicks - lag')..LoadTicks
  <2> SUFFICES ASSUME p = "load enable" PROVE Due(next)' \in (LoadTicks - lag')..LoadTicks
    OBVIOUS
  <2>1. tc_load /\ hw["load"].on
    BY LoadRuns
  <2>2. ~Spinning
    BY DEF LoadAlarm, Claimed, Idle, Spinning
  <2>3. lag < Delay /\ lag' = lag + 1
    BY <1>3, <2>2
  <2>4. Due(next) \in (LoadTicks - 0 - lag)..LoadTicks
    <3>1. Due(next) \in (LoadTicks - lag)..LoadTicks
      BY DEF LoadDue
    <3> QED BY <1>c, <3>1
  <2>5. Wrap(next - hw'["load"].cnt) \in (LoadTicks - 0 - (lag + 1))..LoadTicks
    BY <1>1, <1>b, <1>c, <2>1, <2>3, <2>4, DueLater
  <2> QED BY <1>1, <1>c, <2>3, <2>5 DEF Due
<1>7. p = "load compare" /\ Armed("load")' /\ ~hw'["load"].flag =>
        Due(next)' \in (LoadTicks - Delay' - lag')..LoadTicks
  <2> SUFFICES ASSUME p = "load compare", Armed("load"), ~hw["load"].flag
               PROVE  Due(next)' \in (LoadTicks - Delay' - lag')..LoadTicks
    BY <1>2
  <2>0. ~Over("load")
    BY DEF Armed, Over, Given, Free, Idle
  <2>1. tc_load /\ hw["load"].on
    BY <2>0, LoadRuns
  <2>2. ~Spinning
    BY DEF Armed, Spinning
  <2>3. lag < Delay /\ lag' = lag + 1
    BY <1>3, <2>2
  <2>5. Wrap(next - hw'["load"].cnt) \in (LoadTicks - Delay - (lag + 1))..LoadTicks
    <3>1. Due(next) \in (LoadTicks - Delay - lag)..LoadTicks
      BY DEF LoadDue
    <3> QED BY <1>1, <1>b, <1>c, <2>1, <2>3, <3>1, DueLater
  <2> QED BY <1>1, <1>b, <2>3, <2>5 DEF Due
<1>8. p = "seminit" /\ Waited("load")' =>
        /\ Armed("load")' /\ ~hw'["load"].flag
        /\ Due(hw["load"].cmp)' \in (LoadTicks - 2 * Delay' - lag')..LoadTicks
  <2> SUFFICES ASSUME p = "seminit", Waited("load")
               PROVE  /\ Armed("load")' /\ ~hw'["load"].flag
                      /\ Due(hw["load"].cmp)' \in (LoadTicks - 2 * Delay' - lag')..LoadTicks
    BY <1>2
  <2>a. Armed("load") /\ ~hw["load"].flag
        /\ Due(hw["load"].cmp) \in (LoadTicks - 2 * Delay - lag)..LoadTicks
    BY DEF LoadDue
  <2>0. ~Over("load")
    BY <2>a DEF Armed, Over, Given, Free, Idle
  <2>1. tc_load /\ hw["load"].on
    BY <2>0, LoadRuns
  <2>2. ~Spinning
    BY <2>a DEF Armed, Spinning
  <2>3. lag < Delay /\ lag' = lag + 1
    BY <1>3, <2>2
  <2>5. /\ Due(hw["load"].cmp) # 1
        /\ Wrap(hw["load"].cmp - hw'["load"].cnt) \in (LoadTicks - 2 * Delay - (lag + 1))..LoadTicks
    BY <1>1, <1>b, <1>c, <2>1, <2>3, <2>a, DueLater
  <2>6. Due(hw["load"].cmp)' \in (LoadTicks - 2 * Delay' - lag')..LoadTicks
    BY <1>2, <1>b, <2>3, <2>5 DEF Due
  <2>7. ~hw'["load"].flag
    BY <1>1, <1>b, <2>1, <2>5, <2>a, DueNext
  <2> QED BY <1>2, <2>6, <2>7, <2>a
<1>9. p \in Rounds /\ Armed("load")' /\ ~hw'["load"].flag => Due(hw["load"].cmp)' \in 1..LoadTicks
  <2> SUFFICES ASSUME p \in Rounds, Armed("load"), ~hw["load"].flag, ~hw'["load"].flag
               PROVE  Due(hw["load"].cmp)' \in 1..LoadTicks
    BY <1>2
  <2>0. ~Over("load")
    BY DEF Armed, Over, Given, Free, Idle
  <2>1. tc_load /\ hw["load"].on
    BY <2>0, LoadRuns
  <2>4. PICK n \in Int : n = Due(hw["load"].cmp) /\ n \in 1..LoadTicks
    <3>1. Due(hw["load"].cmp) \in 1..LoadTicks
      BY DEF LoadDue
    <3> QED BY <3>1
  <2>5. n # 1
    <3>1. hw["load"].cmp \in 0..Top
      BY <1>b
    <3>2. hw'["load"].flag <=> Due(hw["load"].cmp) = 1
      BY <1>1, <2>1, <3>1, DueNext
    <3> QED BY <3>2, <2>4
  <2>6. n \in 1..Top /\ n - 1 \in 1..LoadTicks
    BY <1>4, <2>4, <2>5
  <2>7. Due(hw["load"].cmp)' = n - 1
    BY <1>1, <1>2, <1>b, <2>1, <2>4, <2>6, DueNext DEF Due
  <2> QED BY <2>6, <2>7
<1>10. p \notin DLoad /\ isr["load"] = "spin" =>
         /\ (Spun <= Spin + 1 + lag)'
         /\ Spinning' => lag' = 0
  <2> SUFFICES ASSUME p \notin DLoad, isr["load"] = "spin"
               PROVE  (Spun <= Spin + 1 + lag)' /\ (Spinning' => lag' = 0)
    OBVIOUS
  <2>1. PICK k \in Nat : /\ Spun = k /\ k <= Spin + 1 + lag
                         /\ Spinning => k <= Spin
    BY <1>1, SpunNext
  <2>2. PICK m \in Nat : Spun' = m /\ m <= k + 1
    BY <1>1, <2>1, SpunNext
  <2>3. ~InTask /\ (~Spinning => ~Spinning')
    BY <1>1, SpunNext DEF InTask, Dev
  <2>4. CASE Spinning
    <3>1. lag' = 0
      BY <1>3, <2>3, <2>4
    <3>2. k <= Spin
      BY <2>1, <2>4
    <3>3. m <= Spin + 1
      BY <1>4, <2>2, <3>2
    <3> QED BY <1>4, <2>2, <3>1, <3>3
  <2>5. CASE ~Spinning
    <3>1. lag' = lag + 1
      BY <1>3, <2>3, <2>5
    <3>3. m <= Spin + 1 + (lag + 1)
      BY <1>4, <2>1, <2>2
    <3> QED BY <1>4, <2>2, <2>3, <2>5, <3>1, <3>3
  <2> QED BY <2>4, <2>5
<1> QED BY <1>1, <1>2, <1>5, <1>6, <1>7, <1>8, <1>9, <1>10 DEF LoadDue

(* A tick: the core is busy, the load's handler spins, or the task waits.  *)
Works == lag' = lag + 1 /\ ~Spinning
Turns == lag' = 0 /\ Spinning /\ lag = 0
Rests == lag' = 0 /\ InTask

(* While the task runs or an interrupt waits, the lag grows with the       *)
(* clock.                                                                  *)
LEMMA TickWorks ==
    ASSUME Shape, NEW p \in Rounds, TaskAt(p) \/ ScriptAt(p), ~crashed, LoadDue(p),
           RoundTime(p), LatencyTick
    PROVE  /\ Works \/ Turns \/ (Rests /\ p = "take" /\ sem = 0 /\ wait < Timeout /\ lag = 0)
           /\ p = "take" /\ wait < Timeout => wait' = wait + 1
           /\ ~(p = "take" /\ wait < Timeout) => wait' = wait
<1>1. p \in Places /\ p \notin DLoad /\ p # "load take"
  BY DEF Places, Rounds, DLoad
<1>2. Spinning => lag = 0
  BY <1>1 DEF Spinning, LoadDue
<1>3. \/ lag < Delay /\ lag' = lag + 1 /\ ~Spinning
      \/ lag' = 0 /\ Spinning
      \/ lag' = 0 /\ InTask /\ p \in {"take", "load take"}
         /\ (p = "take" => sem = 0 /\ wait < Timeout)
  BY <1>1, TickKinds
<1>4. p = "take" /\ InTask /\ sem = 0 /\ wait < Timeout => lag = 0
  BY DEF RoundTime
<1>5. /\ p = "take" /\ wait < Timeout => wait' = wait + 1
      /\ ~(p = "take" /\ wait < Timeout) => wait' = wait
  BY <1>1, TickKinds
<1> QED BY <1>1, <1>2, <1>3, <1>4, <1>5 DEF Works, Turns, Rests

(* The load's handler takes its time, ...                                  *)
LEMMA LoadSpentNext ==
    ASSUME Shape, NEW p \in Rounds, LoadAlarm(p), LoadDue(p), LatencyTick
    PROVE  \E b \in Nat : /\ LoadSpent' = b /\ LoadSpent \in Nat
                          /\ Works \/ Turns => b >= LoadSpent + 1
                          /\ Rests /\ lag = 0 => b = LoadSpent
<1>1. /\ Delay \in Nat /\ Spin \in Nat /\ lag \in Nat
  BY Bounds, Fields DEF Dev
<1>2. PICK l \in Nat : lag' = l
  BY TickKeepsShape DEF Shape, TypeOK, CounterTypeOK
<1>3. /\ alarm' = alarm /\ isr' = isr /\ tc_load' = tc_load /\ setting' = setting
      /\ TickOf("load") /\ start' = start
  BY TickSteps
<1>4. (Armed("load")' <=> Armed("load")) /\ Delay' = Delay /\ tc_load \in BOOLEAN
  BY <1>3 DEF Armed, Callback, TickOf, Delay, Shape, TypeOK
<1>5. Rests => isr["load"] = "idle"
  BY DEF Rests, InTask, Dev
<1>6. ~tc_load => isr["load"] = "idle"
  BY DEF LoadAlarm, Free, Idle
<1>7. p \in Places /\ p \notin DLoad
  BY DEF Places, Rounds, DLoad
<1>8. CASE isr["load"] = "spin"
  <2>1. tc_load /\ ~Armed("load") /\ ~Over("load")
    BY <1>6, <1>8 DEF Armed, Over, Given, Free, Idle
  <2>2. hw["load"].on
    BY <2>1 DEF LoadDue
  <2>3. Spun \in Nat
    BY <1>3, <1>7, <1>8, SpunNext
  <2>4. PICK m \in Nat : Spun' = m /\ m = Spun + 1
    BY <1>3, <1>7, <1>8, <2>2, SpunNext
  <2>5. LoadSpent = 2 * Delay + Spun
    BY <1>8, <2>1 DEF LoadSpent
  <2>6. LoadSpent' = 2 * Delay + m
    BY <1>3, <1>4, <1>8, <2>1, <2>4 DEF LoadSpent
  <2>7. 2 * Delay + m \in Nat /\ LoadSpent \in Nat /\ 2 * Delay + m = LoadSpent + 1
    BY <1>1, <2>3, <2>4, <2>5
  <2>8. ~Rests
    BY <1>5, <1>8
  <2> QED BY <2>6, <2>7, <2>8
<1>9. CASE isr["load"] # "spin"
  <2> DEFINE a == IF ~tc_load \/ Armed("load") THEN 0
                  ELSE IF isr["load"] = "callback" THEN Delay
                  ELSE IF isr["load"] = "reset" THEN 3 * Delay + Spin + 1
                  ELSE 4 * Delay + Spin + 1
  <2>1. a \in Nat
    BY <1>1
  <2>2. LoadSpent = a + lag
    BY <1>1, <1>9 DEF LoadSpent
  <2>3. LoadSpent' = a + l
    BY <1>1, <1>2, <1>3, <1>4, <1>9 DEF LoadSpent
  <2> HIDE DEF a
  <2>4. ~Turns /\ (Works => l = lag + 1) /\ (Rests => l = 0)
    BY <1>2, <1>9 DEF Turns, Spinning, Works, Rests
  <2>5. a + l \in Nat /\ a + lag \in Nat /\ (l = lag + 1 => a + l >= a + lag + 1)
        /\ (l = 0 /\ lag = 0 => a + l = a + lag)
    BY <1>1, <2>1
  <2> QED BY <2>2, <2>3, <2>4, <2>5
<1> QED BY <1>8, <1>9

(* ... which delays the other one's no more.                               *)
LEMMA LateByNext ==
    ASSUME Shape, NEW p \in Rounds, LoadAlarm(p), LoadDue(p), LatencyTick, Works \/ Turns \/ Rests,
           Armed("load") /\ hw'["load"].flag => hw["load"].flag
    PROVE  \E b \in Nat, a \in Int : /\ LateBy' = b /\ LateBy = a
                                     /\ ~InTask => b >= a + 1
<1>1. /\ Delay \in Nat /\ Spin \in Nat /\ lag \in Nat /\ setting.load \in BOOLEAN
  BY Bounds, Fields DEF Dev
<1>2. PICK l \in Nat : lag' = l
  BY TickKeepsShape DEF Shape, TypeOK, CounterTypeOK
<1>3. /\ alarm' = alarm /\ isr' = isr /\ tc_load' = tc_load /\ setting' = setting
      /\ TickOf("load") /\ start' = start
  BY TickSteps
<1>4. (Armed("load")' <=> Armed("load")) /\ Delay' = Delay /\ tc_load \in BOOLEAN
  BY <1>3 DEF Armed, Callback, TickOf, Delay, Shape, TypeOK
<1>5. Rests => InTask
  BY DEF Rests
<1>6. ~tc_load => isr["load"] = "idle"
  BY DEF LoadAlarm, Free, Idle
<1>7. p \in Places /\ p \notin DLoad
  BY DEF Places, Rounds, DLoad
<1>8. CASE isr["load"] = "spin"
  <2>1. tc_load /\ ~Armed("load") /\ ~Over("load")
    BY <1>6, <1>8 DEF Armed, Over, Given, Free, Idle
  <2>2. hw["load"].on
    BY <2>1 DEF LoadDue
  <2>3. Spun \in Nat
    BY <1>3, <1>7, <1>8, SpunNext
  <2>4. PICK m \in Nat : Spun' = m /\ m = Spun + 1
    BY <1>3, <1>7, <1>8, <2>2, SpunNext
  <2>5. LateBy = 2 * Delay + Spun - 1
    BY <1>8, <2>1 DEF LateBy
  <2>6. LateBy' = 2 * Delay + m - 1
    BY <1>3, <1>4, <1>8, <2>1, <2>4 DEF LateBy
  <2>7. 2 * Delay + m - 1 \in Nat /\ LateBy \in Int /\ 2 * Delay + m - 1 >= LateBy + 1
    BY <1>1, <2>3, <2>4, <2>5
  <2> QED BY <2>6, <2>7
<1>9. CASE isr["load"] # "spin"
  <2>0. /\ hw["load"].flag \in BOOLEAN /\ hw'["load"].flag \in BOOLEAN
        /\ Armed("load") => hw'["load"].flag = hw["load"].flag
    BY <1>3, Fields DEF TickOf, Dev
  <2> DEFINE a == IF Armed("load") THEN IF hw["load"].flag THEN -1 ELSE 0
                  ELSE IF isr["load"] = "callback" THEN Delay - 1
                  ELSE IF isr["load"] = "reset" THEN 3 * Delay + Spin
                  ELSE IF setting.load THEN 4 * Delay + Spin ELSE 0
  <2>1. a \in Int /\ a >= -1
    BY <1>1
  <2>2. LateBy = a + lag
    BY <1>1, <1>9 DEF LateBy
  <2>3. LateBy' = a + l
    BY <1>1, <1>2, <1>3, <1>4, <1>9, <2>0 DEF LateBy
  <2>6. a = -1 => ~InTask
    <3>1. Armed("load") /\ hw["load"].flag => ~InTask
      BY DEF Armed, InTask, Pending, Dev
    <3>2. isr["load"] = "callback" => ~InTask
      BY DEF InTask, Dev
    <3>3. a = -1 => (Armed("load") /\ hw["load"].flag) \/ isr["load"] = "callback"
      BY <1>1
    <3> QED BY <3>1, <3>2, <3>3
  <2> HIDE DEF a
  <2>4. ~Turns /\ (Works => l = lag + 1) /\ (~InTask => Works)
    BY <1>2, <1>5, <1>9 DEF Turns, Spinning, Works
  <2>5. a + lag \in Int /\ (l = lag + 1 => a + l >= a + lag + 1 /\ a + l \in Nat)
        /\ (a # -1 => a + l \in Nat)
    BY <1>1, <2>1
  <2> QED BY <2>2, <2>3, <2>4, <2>5, <2>6
<1> QED BY <1>8, <1>9

(* The round goes on by one.                                               *)
LEMMA RoundNext ==
    ASSUME Shape, NEW p \in Rounds, TaskAt(p) \/ ScriptAt(p), ~crashed, LoadAlarm(p),
           LoadDue(p), RoundTime(p),
           p \in {"compare", "take"} => Armed("main"), NEW e \in Nat, RoundAt(p, e), LatencyTick
    PROVE  RoundAt(p, e + 1)'
<1>1. /\ alarm' = alarm /\ isr' = isr /\ time_prog' = time_prog /\ setting' = setting
      /\ TickOf("load") /\ TickOf("main")
  BY TickSteps
<1>2. /\ Armed("load")' <=> Armed("load")
      /\ hw["load"].flag => hw'["load"].flag
      /\ hw["main"].flag => hw'["main"].flag
      /\ hw'["load"].cmp = hw["load"].cmp /\ hw'["main"].cmp = hw["main"].cmp
  BY <1>1, Fields DEF Armed, Callback, TickOf, Dev
<1>3. /\ Delay \in Nat /\ Timeout \in Nat /\ Ticks \in Nat /\ Top \in Nat /\ wait \in Nat
      /\ lag \in Nat /\ LoadTicks < Top /\ LoadTicks \in Nat
      /\ time_prog \in 0..Top
  BY Bounds, Fields DEF Dev
<1>4. /\ Works \/ Turns \/ (Rests /\ p = "take" /\ sem = 0 /\ wait < Timeout /\ lag = 0)
      /\ p = "take" /\ wait < Timeout => wait' = wait + 1
      /\ ~(p = "take" /\ wait < Timeout) => wait' = wait
  BY TickWorks
<1>5. e <= RoundSpent(p) /\ Since(e)
  BY DEF RoundAt
<1>6. PICK w \in Nat : wait' = w /\ wait <= w /\ w <= wait + 1
           /\ (p = "take" /\ wait < Timeout => w = wait + 1)
  BY <1>3, <1>4
<1>7. e + 1 <= RoundSpent(p)'
  <2>1. PICK b \in Nat : /\ LoadSpent' = b /\ LoadSpent \in Nat
                         /\ Works \/ Turns => b >= LoadSpent + 1
                         /\ Rests /\ lag = 0 => b = LoadSpent
    BY LoadSpentNext
  <2> DEFINE r(v) == IF p = "claim" THEN 0
                     ELSE IF p = "enable" THEN Delay
                     ELSE IF p = "compare" THEN 2 * Delay
                     ELSE IF p = "take" THEN 3 * Delay + v
                     ELSE 4 * Delay + Timeout
  <2>2. RoundSpent(p) = LoadSpent + r(wait)
    BY DEF RoundSpent
  <2>3. RoundSpent(p)' = b + r(w)
    <3>1. Delay' = Delay
      BY <1>1 DEF Delay
    <3> QED BY <1>6, <2>1, <3>1 DEF RoundSpent
  <2>4. r(wait) \in Nat /\ r(w) \in Nat /\ r(wait) <= r(w)
        /\ (p = "take" /\ wait < Timeout => r(w) = r(wait) + 1)
    BY <1>3, <1>6
  <2> HIDE DEF r
  <2>5. CASE Works \/ Turns
    <3>1. b >= LoadSpent + 1
      BY <2>1, <2>5
    <3>2. e + 1 <= b + r(w)
      BY <1>5, <2>1, <2>2, <2>4, <3>1
    <3> QED BY <2>3, <3>2
  <2>6. CASE Rests /\ p = "take" /\ wait < Timeout /\ lag = 0
    <3>1. b = LoadSpent /\ r(w) = r(wait) + 1
      BY <2>1, <2>4, <2>6
    <3>2. e + 1 <= b + r(w)
      BY <1>5, <2>1, <2>2, <2>4, <3>1
    <3> QED BY <2>3, <3>2
  <2> QED BY <1>4, <2>5, <2>6
<1>8. hw["main"].on => hw'["main"].cnt = Wrap(hw["main"].cnt + 1)
  BY <1>1 DEF TickOf
<1>9. hw["main"].on
  BY DEF RoundTime
<1>10. time_prog - Ticks \in Int
  BY <1>3
<1>11. Wrap(hw["main"].cnt + 1) = Wrap(time_prog - Ticks + (e + 1))
  BY <1>5, <1>10, SinceNext DEF Since
<1>12. Since(e + 1)'
  BY <1>1, <1>8, <1>9, <1>11 DEF Since
<1>13. ASSUME Armed("load"), ~hw["load"].flag, p # "disable"
       PROVE  \E n \in 1..LoadTicks : /\ Due(hw["load"].cmp) = n /\ n + e < Ticks
                                      /\ hw'["load"].flag <=> n = 1
                                      /\ Due(hw["load"].cmp)' = n - 1
  <2>1. ~Over("load") /\ tc_load
    BY <1>13 DEF Armed, Over, Given, Free, Idle, LoadAlarm
  <2>2. hw["load"].on
    BY <2>1 DEF LoadDue
  <2>3. Due(hw["load"].cmp) \in 1..LoadTicks
    BY <1>13 DEF LoadDue
  <2>4. PICK n \in 1..LoadTicks : Due(hw["load"].cmp) = n
    BY <2>3
  <2>5. n + e < Ticks
    BY <1>13, <2>4 DEF RoundAt
  <2>6. n \in 1..Top /\ hw["load"].cmp \in 0..Top
    BY <1>3, Fields DEF Dev
  <2>7. /\ hw'["load"].flag <=> Due(hw["load"].cmp) = 1
        /\ Wrap(hw["load"].cmp - hw'["load"].cnt) = n - 1
    BY <1>1, <1>13, <2>2, <2>4, <2>6, DueNext
  <2> QED BY <1>2, <2>4, <2>5, <2>7 DEF Due
<1>14. Armed("load")' /\ ~hw'["load"].flag /\ p # "disable"
       => (Due(hw["load"].cmp)' + (e + 1) < Ticks)
  <2> SUFFICES ASSUME Armed("load"), ~hw["load"].flag, ~hw'["load"].flag, p # "disable"
               PROVE  Due(hw["load"].cmp)' + (e + 1) < Ticks
    BY <1>2
  <2>1. PICK n \in 1..LoadTicks : n + e < Ticks /\ Due(hw["load"].cmp)' = n - 1
    BY <1>13
  <2>2. n - 1 + (e + 1) < Ticks
    BY <1>3, <2>1
  <2> QED BY <2>1, <2>2
<1>15. p = "take" => hw["main"].cmp = time_prog
  BY DEF RoundAt
<1>16. p = "take" /\ ~hw'["main"].flag => e + 1 >= Ticks \/ w <= e + 1
  <2> SUFFICES ASSUME p = "take", ~hw["main"].flag PROVE e + 1 >= Ticks \/ w <= e + 1
    BY <1>2
  <2>1. e >= Ticks \/ wait <= e
    BY DEF RoundAt
  <2> QED BY <1>3, <1>6, <2>1
<1>17. p = "take" /\ hw'["main"].flag /\ ~early'["main"] => e + 1 \in Ticks..(Ticks + LateBy')
  <2> SUFFICES ASSUME p = "take", hw'["main"].flag, ~early["main"]
                      PROVE e + 1 \in Ticks..(Ticks + LateBy')
    <3>1. p \in Places
      BY DEF Places
    <3> QED BY <3>1, TickKinds
  <2>1. ~hw["main"].flag => e + 1 = Ticks
    <3> SUFFICES ASSUME ~hw["main"].flag PROVE e + 1 = Ticks
      OBVIOUS
    <3>1. Wrap(hw["main"].cnt + 1) = time_prog
      BY <1>1, <1>9, <1>15 DEF TickOf
    <3>2. PICK f \in Nat : f = e + 1
      OBVIOUS
    <3>3. e + 1 - Ticks \in (-Top)..Top
      BY RoundInWidth
    <3>4. time_prog = Wrap(time_prog - Ticks + f) /\ f - Ticks \in (-Top)..Top
      <4>1. time_prog = Wrap(time_prog - Ticks + (e + 1))
        BY <1>11, <3>1
      <4> QED BY <1>3, <3>2, <3>3, <4>1
    <3>5. f = Ticks
      BY <1>3, <3>4, SinceAll
    <3> QED BY <3>2, <3>5
  <2>2. hw["main"].flag => e \in Ticks..(Ticks + LateBy)
    BY DEF RoundAt
  <2>3. Armed("load") /\ hw'["load"].flag => hw["load"].flag
    <3> SUFFICES ASSUME Armed("load"), hw'["load"].flag, ~hw["load"].flag PROVE FALSE
      OBVIOUS
    <3>1. PICK n \in 1..LoadTicks : n + e < Ticks /\ n = 1
      BY <1>13
    <3>2. e + 1 < Ticks
      BY <1>3, <3>1
    <3>3. CASE hw["main"].flag
      <4>1. e >= Ticks
        BY <2>2, <3>3 DEF RoundAt
      <4> QED BY <1>3, <3>2, <4>1
    <3>4. CASE ~hw["main"].flag
      BY <1>3, <2>1, <3>2, <3>4
    <3> QED BY <3>3, <3>4
  <2>4. PICK b \in Nat, a \in Int : /\ LateBy' = b /\ LateBy = a
                                    /\ ~InTask => b >= a + 1
    BY <1>4, <2>3, LateByNext
  <2>5. CASE hw["main"].flag
    <3>1. ~InTask
      BY <2>5 DEF Armed, InTask, Pending, Dev
    <3>2. e + 1 \in Ticks..(Ticks + b)
      <4>1. b >= a + 1 /\ e \in Ticks..(Ticks + a)
        BY <2>2, <2>4, <2>5, <3>1
      <4> QED BY <1>3, <4>1
    <3> QED BY <2>4, <3>2
  <2>6. CASE ~hw["main"].flag
    <3>1. e + 1 \in Ticks..(Ticks + b)
      BY <1>3, <2>1, <2>6
    <3> QED BY <2>4, <3>1
  <2> QED BY <2>5, <2>6
<1>18. p = "disable" => e + 1 >= Ticks /\ hw["main"].cmp = time_prog
  <2> SUFFICES ASSUME p = "disable" PROVE e + 1 >= Ticks /\ hw["main"].cmp = time_prog
    OBVIOUS
  <2>1. e >= Ticks /\ hw["main"].cmp = time_prog
    BY DEF RoundAt
  <2> QED BY <1>3, <2>1
<1>19. Due(hw["load"].cmp)' = Wrap(hw["load"].cmp - hw["load"].cnt)'
  BY DEF Due
<1> QED BY <1>1, <1>2, <1>6, <1>7, <1>12, <1>14, <1>15, <1>16, <1>17, <1>18 DEF RoundAt

(* The clock: a tick passes of the round.                                  *)
LEMMA RoundTimeNext ==
    ASSUME Shape, NEW p \in Places, TaskAt(p) \/ ScriptAt(p), ~crashed, LoadAlarm(p),
           LoadDue(p), RoundTime(p),
           LatencyTick
    PROVE  RoundTime(p)'
<1>1. /\ alarm' = alarm /\ isr' = isr /\ time_prog' = time_prog /\ sem' = sem /\ next' = next
      /\ TickOf("load") /\ TickOf("main")
  BY TickSteps
<1>2. /\ Armed("main")' <=> Armed("main")
      /\ hw'["main"].on = hw["main"].on
      /\ InTask' => InTask
  BY <1>1, Fields DEF Armed, Callback, TickOf, InTask, Pending, Dev
<1>3. p # "take" => wait' = wait
  BY TickKinds
<1>4. p = "take" /\ InTask' /\ sem' = 0 /\ wait' < Timeout => lag' = 0
  <2> SUFFICES ASSUME p = "take", InTask, sem = 0, wait' < Timeout PROVE lag' = 0
    BY <1>1, <1>2
  <2>1. wait \in Nat /\ Timeout \in Nat
    <3>1. Timeout \in Nat
      BY Bounds
    <3>2. wait \in 0..Timeout
      BY DEF Shape, TypeOK
    <3> QED BY <3>1, <3>2
  <2>2. CASE wait < Timeout
    BY <2>2, TickKinds
  <2>3. CASE ~(wait < Timeout)
    <3>1. wait' = wait
      BY <2>3, TickKinds
    <3> QED BY <2>3, <3>1
  <2> QED BY <2>2, <2>3
<1>5. p \in Rounds \ {"prog", "clear"} /\ (p \in {"compare", "take"} => Armed("main"))
      => \E e \in Nat : RoundAt(p, e)'
  <2> SUFFICES ASSUME p \in Rounds \ {"prog", "clear"}, p \in {"compare", "take"} => Armed("main")
               PROVE  \E e \in Nat : RoundAt(p, e)'
    OBVIOUS
  <2>1. PICK e \in Nat : RoundAt(p, e)
    BY DEF RoundTime
  <2>2. RoundAt(p, e + 1)' /\ e + 1 \in Nat
    BY <2>1, RoundNext
  <2> QED BY <2>2
<1> QED BY <1>1, <1>2, <1>3, <1>4, <1>5 DEF RoundTime

-----------------------------------------------------------------------------
(* The invariant.                                                          *)

(* The places of the load are those of a test that has it.                 *)
LEMMA PlaceOfLoad ==
    ASSUME NEW p \in Places, TaskAt(p) \/ ScriptAt(p)
    PROVE  ForLoad(p) => tc_load
BY DEF ForLoad, LoadSetup, DLoad, TaskAt, ScriptAt

(* Nothing but a task moves on.                                            *)
LEMMA PlaceStays ==
    ASSUME NEW p, TaskAt(p) \/ ScriptAt(p), UNCHANGED <<todo, script, tc_load>>
    PROVE  (TaskAt(p) \/ ScriptAt(p))'
<1>1. StartOn(tc_load)' = StartOn(tc_load) /\ NowOn(tc_load)' = NowOn(tc_load)
      /\ StopOn(tc_load)' = StopOn(tc_load)
  OBVIOUS
<1>2. todo' = todo /\ script' = script /\ (tc_load' <=> tc_load)
  OBVIOUS
<1>3. TaskAt(p) => TaskAt(p)'
  BY <1>1, <1>2 DEF TaskAt
<1>4. ScriptAt(p) => ScriptAt(p)'
  BY <1>2 DEF ScriptAt
<1> QED BY <1>3, <1>4

(* The test starts with both alarms free and no semaphore left over.       *)
LEMMA InitIs ==
    ASSUME Init
    PROVE  IInv
<1>1. Shape
  <2>1. /\ setting \in Settings /\ setting.load \in BOOLEAN /\ setting.delay \in Nat
        /\ Top \in Nat /\ Timeout \in Nat /\ 0 \in 0..Top /\ Top \in 0..Top /\ 0 \in 0..Timeout
        /\ 0 \in 0..setting.delay
    BY CounterAssumption, LatencyAssumption DEF Init, CounterInit, Setting
  <2>2. CounterTypeOK
    <3>1. hw \in [Dev -> [cnt : 0..Top, on : BOOLEAN, cmp : 0..Top, en : BOOLEAN, flag : BOOLEAN]]
      BY <2>1 DEF Init, CounterInit
    <3>2. alarm \in [Dev -> [cb : Callbacks, loop : BOOLEAN, last : 0..Top, ticks : 0..Top]]
      BY <2>1 DEF Init, CounterInit, Callbacks
    <3>3. /\ next \in 0..Top /\ now \in [Dev -> 0..Top]
          /\ isr \in [Dev -> {"idle", "callback", "spin", "reset"}]
      BY <2>1 DEF Init, CounterInit
    <3>4. lag \in 0..setting.delay /\ setting \in Settings
      BY <2>1 DEF Init, CounterInit
    <3> QED BY <3>1, <3>2, <3>3, <3>4 DEF CounterTypeOK
  <2>3. /\ wait \in 0..Timeout /\ {sem, irq_load_sem} \subseteq Nat
        /\ {time_prog, time_irq, start} \subseteq 0..Top
        /\ crashed \in BOOLEAN
    <3>1. /\ wait = 0 /\ sem = 0 /\ irq_load_sem = 0
          /\ time_prog = 0 /\ time_irq = 0 /\ start = 0 /\ crashed = FALSE
      BY DEF Init
    <3>2. crashed \in BOOLEAN
      BY <3>1
    <3>3. wait \in 0..Timeout
      BY <2>1, <3>1
    <3>4. {sem, irq_load_sem} \subseteq Nat
      BY <3>1
    <3>5. {time_prog, time_irq, start} \subseteq 0..Top
      BY <2>1, <3>1
    <3> QED BY <3>2, <3>3, <3>4, <3>5
  <2>6. tc_load \in BOOLEAN
    BY <2>1 DEF Init
  <2>4. {exists, early} \subseteq [Dev -> BOOLEAN]
    BY DEF Init
  <2>5. /\ isr["main"] = "idle" /\ isr["load"] = "idle" /\ (tc_load => setting.load)
        /\ ~alarm["main"].loop /\ ~alarm["load"].loop
    BY DEF Init, CounterInit, Dev
  <2> QED BY <2>2, <2>3, <2>4, <2>5, <2>6 DEF Shape, TypeOK
<1>2. TaskAt("start")
  <2>1. tc_load \in BOOLEAN
    BY <1>1 DEF Shape, TypeOK
  <2>2. Test(tc_load) = StartOn(tc_load)
    BY <2>1, TestCode
  <2> QED BY <2>2 DEF TaskAt, Init
<1>3. Free("main") /\ Free("load")
  BY DEF Init, CounterInit, Free, Idle, Dev
<1>4. MainAlarm("start")
  <2>1. sem = 0 /\ exists["main"]
    BY DEF Init, Dev
  <2> QED BY <1>3, <2>1 DEF MainAlarm, DLoad
<1>5. isr["load"] = "idle" /\ Over("load") /\ ~Waited("load") /\ ~Firing("load")
  BY <1>3 DEF Free, Over, Waited, Armed, Firing, Idle
<1>6. LoadAlarm("start")
  BY <1>3, <1>5 DEF LoadAlarm, Rounds, Measures, DLoad
<1>7. LoadDue("start")
  BY <1>5 DEF LoadDue, LoadSetup, Rounds, Measures
<1>8. RoundTime("start")
  <2>1. wait = 0
    BY DEF Init
  <2> QED BY <2>1 DEF RoundTime, LoadSetup, Rounds
<1>9. Measured("start")
  BY DEF Measured
<1>10. "start" \in Places
  BY DEF Places
<1>11. ~crashed
  BY DEF Init
<1> QED BY <1>1, <1>2, <1>4, <1>6, <1>7, <1>8, <1>9, <1>10, <1>11 DEF IInv, State

(* A step of a task.                                                       *)
LEMMA TaskKeeps ==
    ASSUME IInv, Benchmark \/ Delete \/ DestroyStep
    PROVE  IInv'
<1>1. ~crashed
  BY DEF Benchmark, Drive, InitLoadSem, Program, Take, TimeOut, ReadNow, TakeLoad, Delete,
      DestroyStep, CanRun
<1>2. PICK p \in Places : State(p)
  BY <1>1 DEF IInv
<1>3. Shape /\ tc_load \in BOOLEAN /\ setting.load \in BOOLEAN
  BY Bounds DEF IInv, Shape, TypeOK
<1>4. \E q \in Places : (TaskAt(q) \/ ScriptAt(q))' /\ TaskStep(p, q)
  <2>1. CASE Benchmark
    <3>1. todo # << >>
      BY <2>1 DEF Benchmark, Drive, InitLoadSem, Program, Take, TimeOut, ReadNow, TakeLoad, At
    <3>2. TaskAt(p)
      BY <1>2, <3>1 DEF State, ScriptAt
    <3>3. p = "claim" => CanClaim("main")
      BY <1>2 DEF State, MainAlarm, Free, CanClaim
    <3>4. p = "load claim" => CanClaim("load")
      BY <1>2 DEF State, LoadAlarm, Free, CanClaim
    <3> QED BY <1>1, <1>3, <2>1, <3>2, <3>3, <3>4, BenchmarkSteps
  <2>2. CASE Delete
    BY <1>1, <1>2, <1>3, <2>2, DeleteSteps DEF State
  <2>3. CASE DestroyStep
    BY <1>1, <1>2, <1>3, <2>3, DestroySteps DEF State
  <2> QED BY <2>1, <2>2, <2>3
<1>5. PICK q \in Places : (TaskAt(q) \/ ScriptAt(q))' /\ TaskStep(p, q)
  BY <1>4
<1>6. /\ TaskAt(p) \/ ScriptAt(p)
      /\ MainAlarm(p) /\ LoadAlarm(p) /\ LoadDue(p) /\ RoundTime(p) /\ Measured(p)
  BY <1>2 DEF State
<1>7. ForLoad(p) => tc_load
  BY <1>6, PlaceOfLoad
<1>8. Shape'
  BY <1>3, <1>5, TaskKeepsShape
<1>9. MainAlarm(q)'
  BY <1>3, <1>5, <1>6, MainAlarmOfTask
<1>10. LoadAlarm(q)'
  BY <1>3, <1>5, <1>6, <1>7, LoadAlarmOfTask
<1>11. LoadDue(q)'
  BY <1>3, <1>5, <1>6, <1>7, LoadDueOfTask
<1>12. RoundTime(q)'
  BY <1>3, <1>5, <1>6, RoundTimeOfTask
<1>13. Measured(q)'
  BY <1>3, <1>5, <1>6, MeasuredOfTask
<1>14. State(q)'
  BY <1>5, <1>9, <1>10, <1>11, <1>12, <1>13 DEF State
<1>15. ~crashed'
  BY <1>5 DEF TaskStep
<1> QED BY <1>8, <1>14, <1>15 DEF IInv

(* A step of an interrupt.                                                 *)
LEMMA InterruptKeeps ==
    ASSUME IInv, LatencyInterrupt
    PROVE  IInv'
<1>1. Shape /\ InterruptStep
  BY InterruptSteps DEF IInv
<1>2. Shape'
  BY <1>1, InterruptKeepsShape
<1>3. Handles
  BY <1>1 DEF InterruptStep, Handles
<1>4. CASE crashed
  <2>1. crashed' /\ early'["load"] /\ ~At("now", "main")'
    BY <1>1, <1>3, <1>4
        DEF IInv, Handles, At, Op, InterruptStep, Enters, Gives, StartsSpin, EndsSpin, Exits
  <2> QED BY <1>2, <2>1 DEF IInv
<1>5. CASE ~crashed
  <2>1. PICK p \in Places : State(p)
    BY <1>5 DEF IInv
  <2>2. Alarms5(p) /\ (TaskAt(p) \/ ScriptAt(p))
    BY <2>1 DEF State, Alarms5
  <2>3. (TaskAt(p) \/ ScriptAt(p))'
    BY <1>3, <2>2, PlaceStays DEF Handles
  <2>4. ASSUME Alarms5(p)', ~crashed' PROVE IInv'
    <3>1. State(p)'
      BY <2>3, <2>4 DEF State, Alarms5
    <3> QED BY <1>2, <2>4, <3>1 DEF IInv
  <2>5. CASE Enters("main")
    <3>1. ~crashed'
      BY <1>5, <2>5 DEF Enters
    <3> QED BY <1>1, <1>3, <2>2, <2>4, <2>5, <3>1, EnterMainKeeps
  <2>6. CASE Enters("load")
    <3>1. ~crashed'
      BY <1>5, <2>6 DEF Enters
    <3> QED BY <1>1, <1>3, <2>2, <2>4, <2>6, <3>1, EnterLoadKeeps
  <2>7. CASE Gives
    BY <1>1, <1>3, <1>5, <2>2, <2>4, <2>7, GivesKeeps
  <2>8. CASE StartsSpin
    <3>1. ~crashed'
      BY <1>5, <2>8 DEF StartsSpin
    <3> QED BY <1>1, <1>3, <2>2, <2>4, <2>8, <3>1, StartsSpinKeeps
  <2>9. CASE EndsSpin
    <3>1. CASE exists["load"]
      BY <1>1, <1>3, <1>5, <2>2, <2>4, <2>9, <3>1, EndsSpinKeeps
    <3>2. CASE ~exists["load"]
      <4>1. early["load"] /\ p \in {"load compare", "seminit"}
        BY <1>1, <1>3, <2>2, <2>9, <3>2, EndsSpinKeeps
      <4>2. tc_load \in BOOLEAN
        BY <1>1 DEF Shape, TypeOK
      <4>3. ~At("now", "main")
        <5>1. At("now", "main") <=> p = "now"
          BY <2>2, <4>2, PlaceAt
        <5> QED BY <4>1, <5>1
      <4>4. crashed'
        BY <2>9, <3>2 DEF EndsSpin
      <4>5. early'["load"] /\ ~At("now", "main")'
        BY <1>3, <4>1, <4>3 DEF Handles, At, Op
      <4> QED BY <1>2, <4>4, <4>5 DEF IInv
    <3> QED BY <3>1, <3>2
  <2>10. CASE Exits("main")
    <3>1. ~crashed'
      BY <1>5, <2>10 DEF Exits
    <3> QED BY <1>1, <1>3, <2>2, <2>4, <2>10, <3>1, ExitMainKeeps
  <2>11. CASE Exits("load")
    <3>1. ~crashed'
      BY <1>5, <2>11 DEF Exits
    <3> QED BY <1>1, <1>3, <2>2, <2>4, <2>11, <3>1, ExitLoadKeeps
  <2> QED BY <1>1, <2>5, <2>6, <2>7, <2>8, <2>9, <2>10, <2>11 DEF InterruptStep
<1> QED BY <1>4, <1>5

(* A tick.                                                                 *)
LEMMA TickKeeps ==
    ASSUME IInv, LatencyTick
    PROVE  IInv'
<1>1. Shape /\ Shape'
  BY TickKeepsShape DEF IInv
<1>2. /\ UNCHANGED <<todo, script, tc_load, crashed>>
      /\ early["load"] => early'["load"]
  BY <1>1, TickSteps DEF Dev
<1>3. CASE crashed
  <2>1. crashed' /\ early'["load"] /\ ~At("now", "main")'
    BY <1>2, <1>3 DEF IInv, At, Op
  <2> QED BY <1>1, <2>1 DEF IInv
<1>4. CASE ~crashed
  <2>1. PICK p \in Places : State(p)
    BY <1>4 DEF IInv
  <2>2. /\ TaskAt(p) \/ ScriptAt(p)
        /\ MainAlarm(p) /\ LoadAlarm(p) /\ LoadDue(p) /\ RoundTime(p) /\ Measured(p)
    BY <2>1 DEF State
  <2>3. (TaskAt(p) \/ ScriptAt(p))'
    BY <1>2, <2>2, PlaceStays
  <2>4. ForLoad(p) => tc_load
    BY <2>2, PlaceOfLoad
  <2>5. MainAlarm(p)'
    BY <1>1, <2>2, MainAlarmNext
  <2>6. LoadAlarm(p)'
    BY <1>1, <2>2, LoadAlarmNext
  <2>7. LoadDue(p)'
    BY <1>1, <1>4, <2>2, <2>4, LoadDueNext
  <2>8. RoundTime(p)'
    BY <1>1, <1>4, <2>2, RoundTimeNext
  <2>9. Measured(p)'
    BY <1>1, <1>4, <2>2, MeasuredNext
  <2>10. State(p)'
    BY <2>3, <2>5, <2>6, <2>7, <2>8, <2>9 DEF State
  <2>11. ~crashed'
    BY <1>2, <1>4
  <2> QED BY <1>1, <2>10, <2>11 DEF IInv
<1> QED BY <1>3, <1>4

(* A step of nothing the model has.                                        *)
LEMMA StutterKeeps ==
    ASSUME IInv, UNCHANGED vars
    PROVE  IInv'
<1>1. UNCHANGED <<setting, hw, alarm, next, isr, now, lag, tc_load, todo, script, wait, sem,
        irq_load_sem, exists,
                  time_prog, time_irq, start, early, crashed>>
  BY DEF vars, counterVars, latencyVars
<1>2. Shape'
  BY <1>1 DEF IInv, Shape, TypeOK, CounterTypeOK
<1>3. At("now", "main")' <=> At("now", "main")
  BY <1>1 DEF At, Op
<1>4. ASSUME NEW p \in Places, State(p) PROVE State(p)'
  <2>1. (TaskAt(p) \/ ScriptAt(p))'
    BY <1>1, <1>4, PlaceStays DEF State
  <2>2. MainAlarm(p)' /\ LoadAlarm(p)'
    <3>1. \A d \in Dev : /\ Idle(d)' <=> Idle(d)
                         /\ Free(d)' <=> Free(d)
                         /\ Claimed(d)' <=> Claimed(d)
                         /\ Armed(d)' <=> Armed(d)
                         /\ Firing(d)' <=> Firing(d)
                         /\ Given(d)' <=> Given(d)
      BY <1>1 DEF Idle, Free, Claimed, Armed, Firing, Given, Callback
    <3>2. "main" \in Dev /\ "load" \in Dev
      BY DEF Dev
    <3>3. MainAlarm(p)'
      BY <1>1, <1>4, <3>1, <3>2 DEF State, MainAlarm, Waited, Over
    <3>4. LoadAlarm(p)'
      BY <1>1, <1>4, <3>1, <3>2 DEF State, LoadAlarm, Waited, Over
    <3> QED BY <3>3, <3>4
  <2>3. LoadDue(p)'
    <3>1. /\ Waited("load")' <=> Waited("load")
          /\ Over("load")' <=> Over("load")
          /\ Armed("load")' <=> Armed("load")
      BY <1>1 DEF Waited, Over, Armed, Firing, Given, Free, Idle, Callback
    <3>2. /\ Due(next)' = Due(next) /\ Due(hw["load"].cmp)' = Due(hw["load"].cmp)
          /\ Spun' = Spun /\ Delay' = Delay /\ (Spinning' <=> Spinning)
      BY <1>1 DEF Due, Spun, Delay, Spinning, Diff
    <3>3. LoadDue(p)
      BY <1>4 DEF State
    <3> QED BY <1>1, <3>1, <3>2, <3>3 DEF LoadDue
  <2>4. RoundTime(p)'
    <3>1. InTask' <=> InTask
      BY <1>1 DEF InTask, Pending
    <3>2. Armed("main")' <=> Armed("main")
      BY <1>1 DEF Armed, Callback
    <3>3. \A e \in Nat : RoundAt(p, e) => RoundAt(p, e)'
      BY <1>1 DEF RoundAt, RoundSpent, LoadSpent, LateBy, Since, Armed, Callback, Due, Spun, Delay
    <3> QED BY <1>1, <1>4, <3>1, <3>2, <3>3 DEF State, RoundTime
  <2>5. Measured(p)'
    BY <1>1, <1>4 DEF State, Measured, Armed, Firing, Callback, MaxIrqDelay
  <2> QED BY <2>1, <2>2, <2>3, <2>4, <2>5 DEF State
<1> QED BY <1>1, <1>2, <1>3, <1>4 DEF IInv

(* IInv is an invariant: it holds at first, and every step of the tasks,   *)
(* of the interrupts and of the clock keeps it.                            *)
LEMMA Invariance == Spec => []IInv
<1>1. Init => IInv
  BY InitIs
<1>2. IInv /\ [Next]_vars => IInv'
  BY TaskKeeps, InterruptKeeps, TickKeeps, StutterKeeps DEF Next
<1> QED BY <1>1, <1>2, PTL DEF Spec

(* Every variable keeps its type: the counters stay within their width, an *)
(* interrupt waits no longer than the setting's delay, and benchmark_task  *)
(* no longer than the timeout of its os_sem_take (rt_latency.c:161).       *)
THEOREM TypeCorrect == Spec => []TypeOK
<1>1. IInv => TypeOK
  BY DEF IInv, Shape
<1> QED BY <1>1, Invariance, PTL

(* Without an early load alarm the claim of an alarm never finds it busy   *)
(* and no handler gives a semaphore that does not exist: the assertions of *)
(* rt_latency_test() hold, whatever the delays, and whenever main_task     *)
(* deletes the test and starts another (rt_latency.c:133-171, 241-269).    *)
THEOREM AlarmsAlwaysFree == Spec => []AlarmsAreFree
<1>1. IInv => AlarmsAreFree
  BY DEF IInv, AlarmsAreFree
<1> QED BY <1>1, Invariance, PTL

(* What a round measures, unless its alarm matched before the new compare  *)
(* value, is the latency of the interrupt it programmed: at most the delay *)
(* of an interrupt, and with load the time of the load alarm's handler     *)
(* (rt_latency.c:150-179). A semaphore left over from an earlier round is  *)
(* never taken for it.                                                     *)
THEOREM MeasuresTheRound == Spec => []MeasuredIsProgrammed
<1>1. ASSUME IInv, At("now", "main"), ~early["main"] PROVE Diff(time_prog, time_irq) <= MaxIrqDelay
  <2>1. Shape /\ ~crashed
    BY <1>1 DEF IInv
  <2>2. PICK p \in Places : State(p)
    BY <1>1, <2>1 DEF IInv
  <2>3. p = "now"
    <3>1. tc_load \in BOOLEAN
      BY <2>1 DEF Shape, TypeOK
    <3> QED BY <1>1, <2>2, <3>1, PlaceAt DEF State
  <2>4. Wrap(time_irq - time_prog) <= MaxIrqDelay
    BY <1>1, <2>2, <2>3 DEF State, Measured
  <2>5. time_prog \in 0..Top /\ time_irq \in 0..Top
    BY <2>1 DEF Shape, TypeOK
  <2>6. MaxIrqDelay \in Nat
    <3>1. Delay \in Nat /\ Spin \in Nat /\ setting.load \in BOOLEAN
      BY <2>1, Bounds
    <3> QED BY <3>1 DEF MaxIrqDelay, Delay
  <2> DEFINE w == Wrap(time_irq - time_prog)
             f == Diff(time_prog, time_irq)
  <2>7. /\ time_prog <= time_irq => w = time_irq - time_prog /\ f = time_irq - time_prog
        /\ time_irq < time_prog
           => w = time_irq - time_prog + Top + 1 /\ f = time_irq - time_prog + Top
    BY <2>5, DiffIs
  <2>8. Top \in Nat
    BY CounterAssumption
  <2> HIDE DEF w, f
  <2>9. f <= w /\ f \in Int /\ w \in Int
    BY <2>5, <2>7, <2>8
  <2>10. w <= MaxIrqDelay
    BY <2>4 DEF w
  <2>11. f <= MaxIrqDelay
    BY <2>6, <2>9, <2>10
  <2> QED BY <2>11 DEF f
<1>2. IInv => MeasuredIsProgrammed
  BY <1>1 DEF MeasuredIsProgrammed
<1> QED BY <1>2, Invariance, PTL

=============================================================================
