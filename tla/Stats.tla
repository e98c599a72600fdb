------------------------------- MODULE Stats -------------------------------
(* Statistics (libs/stats/stats.c) as rt_latency uses them: benchmark_task *)
(* adds samples and dumps a snapshot every so many, log_task prints the    *)
(* snapshot and gives it back, and the deletion of a test dumps and prints *)
(* what there is.  benchmark_task preempts log_task, and main_task, of the *)
(* lowest priority, runs while both wait.  Samples are not negative, and   *)
(* the square of their sum fits 64 bits.                                   *)
EXTENDS Integers, Sequences, FiniteSets

CONSTANTS
    Samples,        \* the delays measured
    MaxInt,         \* 0x7fffffff
    StatsPeriod,    \* LATENCY_STATS_PERIOD
    Log2Size,       \* log2 of the size of a set (31 in the code; bound)
    Slots, SlotSize,    \* of a histogram (20 and 1000 in the code)
    MaxSamples, MaxTests    \* bounds

StatsAssumption ==
    /\ Samples \subseteq 0..MaxInt /\ {MaxInt, Log2Size, MaxSamples, MaxTests} \subseteq Nat
    /\ {StatsPeriod, Slots, SlotSize, 2^Log2Size} \subseteq Nat \ {0}

VARIABLES
    tests, taken,   \* tests to come; samples to come in this one
    test_on,
    st, snap,       \* struct stats of ctx->stats and of ctx->stats_snapshot
    hist,           \* its slots in ctx->stats
    pending, stats_cnt,
    l_pc,           \* point reached by log_task
    window, snap_window,    \* history: the samples in st and in snap
    seen,           \* history: the samples since stats_init
    printed,        \* history: what was printed last, and of which samples
    shown,          \* history: how many samples of this test were printed
    overrun,        \* history: how many were in full sets, which none prints
    skipped         \* history: a test ended while a snapshot was pending

history == <<window, snap_window, seen, printed, shown, overrun, skipped>>
vars == <<tests, taken, test_on, st, snap, hist, pending, stats_cnt, l_pc, history>>

-----------------------------------------------------------------------------
Lesser(a, b)  == IF a < b THEN a ELSE b
Greater(a, b) == IF a > b THEN a ELSE b

(* A slip: the sum of squares goes on.                                     *)
ResetButSquares(s) ==
    [s EXCEPT !.current_count = 0, !.current_min = MaxInt, !.current_mean = 0, !.current_max = -MaxInt]

stats_reset(s) ==
    [s EXCEPT !.current_count = 0, !.current_min = MaxInt, !.current_mean = 0,
              !.current_max = -MaxInt, !.current_ms = 0]

stats_init(s) == stats_reset([s EXCEPT !.abs_min = MaxInt, !.abs_max = -MaxInt])

NoStats ==
    [current_count |-> 0, current_min |-> 0, current_max |-> 0, current_mean |-> 0, current_ms |-> 0,
     min |-> 0, max |-> 0, mean |-> 0, ms |-> 0, variance |-> 0, abs_min |-> 0, abs_max |-> 0]

(* Both ways to compute: of a full set by shifts, of what there is by      *)
(* divisions.                                                              *)
Computed(s, n) ==
    LET ms == s.current_ms \div n IN
    [s EXCEPT !.ms = ms, !.mean = s.current_mean \div n,
              !.variance = ms - (s.current_mean * s.current_mean) \div (n * n),
              !.min = s.current_min, !.max = s.current_max]

stats_compute(s) ==
    IF s.current_count # 0 THEN Computed(s, s.current_count)
    ELSE [s EXCEPT !.ms = 0, !.mean = 0, !.variance = 0, !.min = s.current_min, !.max = s.current_max]

IsFull(s) == s.current_count = 2^Log2Size

Added(s, val) ==
    [s EXCEPT !.current_count = @ + 1, !.current_mean = @ + val, !.current_ms = @ + val * val,
              !.current_min = Lesser(val, @), !.current_max = Greater(val, @),
              !.abs_min = IF val < s.current_min THEN Lesser(val, @) ELSE @,
              !.abs_max = IF val > s.current_max THEN Greater(val, @) ELSE @]

stats_update(s, val) ==
    LET a == Added(s, val) IN
    IF IsFull(a) THEN stats_reset(Computed(a, 2^Log2Size)) ELSE a

SlotOf(val) == Lesser(val \div SlotSize, Slots)

NoSlots == [k \in 0..Slots |-> 0]

-----------------------------------------------------------------------------
(* rt_latency_stats_dump().                                                *)
Dumped(s, w) ==
    IF pending THEN st' = s /\ window' = w /\ UNCHANGED <<snap, snap_window, pending>>
    ELSE /\ snap' = s /\ snap_window' = w /\ pending' = TRUE
         /\ st' = stats_reset(s) /\ window' = <<>>

Measure(val) ==
    /\ test_on /\ taken < MaxSamples /\ taken' = taken + 1
    /\ hist' = [hist EXCEPT ![SlotOf(val)] = @ + 1]
    /\ stats_cnt' = (stats_cnt + 1) % StatsPeriod /\ seen' = seen \cup {val}
    /\ LET s == stats_update(st, val)
           full == IsFull(Added(st, val))
           w == IF full THEN <<>> ELSE Append(window, val) IN
       /\ overrun' = IF full THEN overrun + 2^Log2Size ELSE overrun
       /\ IF stats_cnt' = 0 THEN Dumped(s, w)
          ELSE st' = s /\ window' = w /\ UNCHANGED <<snap, snap_window, pending>>
    /\ UNCHANGED <<tests, test_on, l_pc, printed, shown, skipped>>

(* print_stats(), the preemptions that matter between its steps.           *)
PrintCompute ==
    /\ test_on /\ l_pc = "delay" /\ pending /\ l_pc' = "print" /\ snap' = stats_compute(snap)
    /\ UNCHANGED <<tests, taken, test_on, st, hist, pending, stats_cnt, history>>

Report(s, w) == [of |-> w, min |-> s.min, max |-> s.max, mean |-> s.mean, ms |-> s.ms,
                 variance |-> s.variance, abs_min |-> s.abs_min, abs_max |-> s.abs_max]

PrintReport ==
    /\ l_pc = "print" /\ l_pc' = "clear" /\ printed' = Report(snap, snap_window)
    /\ shown' = shown + Len(snap_window)
    /\ UNCHANGED <<tests, taken, test_on, st, snap, hist, pending, stats_cnt, window, snap_window, seen,
                   overrun, skipped>>

Clear ==
    /\ l_pc = "clear" /\ l_pc' = "delay" /\ pending' = FALSE
    /\ UNCHANGED <<tests, taken, test_on, st, snap, hist, stats_cnt, history>>

(* rt_latency_destroy(): a snapshot still pending is printed, and not what *)
(* came after it.                                                          *)
Destroy ==
    /\ test_on /\ l_pc = "delay" /\ test_on' = FALSE
    /\ LET s == IF pending THEN snap ELSE st
           w == IF pending THEN snap_window ELSE window IN
       /\ snap' = stats_compute(s) /\ snap_window' = w /\ printed' = Report(snap', w)
       /\ shown' = shown + Len(w)
    /\ pending' = FALSE /\ st' = stats_reset(st) /\ window' = <<>> /\ hist' = NoSlots
    /\ skipped' = pending
    /\ UNCHANGED <<tests, taken, stats_cnt, l_pc, seen, overrun>>

(* rt_latency_init().                                                      *)
Restart ==
    /\ ~test_on /\ tests > 0 /\ tests' = tests - 1 /\ test_on' = TRUE
    /\ st' = stats_init(st) /\ pending' = FALSE
    /\ taken' = 0 /\ seen' = {} /\ window' = <<>> /\ shown' = 0 /\ overrun' = 0
    /\ UNCHANGED <<snap, hist, stats_cnt, l_pc, snap_window, printed, skipped>>

Init ==
    /\ tests = MaxTests /\ taken = 0 /\ test_on = FALSE
    /\ st = NoStats /\ snap = NoStats /\ hist = NoSlots /\ pending = FALSE /\ stats_cnt = 0
    /\ l_pc = "delay" /\ window = <<>> /\ snap_window = <<>> /\ seen = {}
    /\ printed = Report(NoStats, <<>>) /\ shown = 0 /\ overrun = 0 /\ skipped = FALSE

Next ==
    \/ \E val \in Samples : Measure(val)
    \/ PrintCompute \/ PrintReport \/ Clear \/ Destroy \/ Restart

Spec == Init /\ [][Next]_vars
-----------------------------------------------------------------------------
(* The state keeps its shape.                                              *)
TypeOK ==
    /\ taken \in 0..MaxSamples /\ tests \in 0..MaxTests /\ stats_cnt \in 0..(StatsPeriod - 1)
    /\ l_pc \in {"delay", "print", "clear"} /\ (l_pc # "delay" => pending)
    /\ st.current_count \in 0..(2^Log2Size - 1)

Total(w)   == LET t[k \in 0..Len(w)] == IF k = 0 THEN 0 ELSE t[k - 1] + w[k] IN t[Len(w)]
Squares(w) == [k \in DOMAIN w |-> w[k] * w[k]]
Values(w)  == {w[k] : k \in DOMAIN w}

IsLeast(m, V)    == m \in V /\ \A v \in V : m <= v
IsGreatest(m, V) == m \in V /\ \A v \in V : v <= m

(* What is printed is of the samples between two dumps, all of them and no *)
(* other: their extremes, mean, mean square and variance, and the extremes *)
(* since the test began; the log never prints a snapshot half replaced.    *)
(* The histogram alone has every sample of the test.  Every sample that no *)
(* full set took is printed once, unless the test ends while a snapshot is *)
(* pending: rt_latency.c:91 dumps nothing then, and 272 means it to.       *)
StatsAreThose ==
    /\ LET w == printed.of n == Len(w) IN n > 0 =>
        /\ IsLeast(printed.min, Values(w)) /\ IsGreatest(printed.max, Values(w))
        /\ printed.mean = Total(w) \div n /\ printed.ms = Total(Squares(w)) \div n
        /\ printed.variance = printed.ms - (Total(w) * Total(w)) \div (n * n)
        /\ printed.abs_min <= printed.min /\ printed.abs_max >= printed.max
    /\ test_on /\ seen # {} => IsLeast(st.abs_min, seen) /\ IsGreatest(st.abs_max, seen)
    /\ Total([k \in 1..(Slots + 1) |-> hist[k - 1]]) = IF test_on THEN taken ELSE 0
    /\ LET waiting == IF pending /\ l_pc # "clear" THEN Len(snap_window) ELSE 0 IN
       shown + overrun + waiting + Len(window) = taken \/ (~test_on /\ skipped)
=============================================================================
