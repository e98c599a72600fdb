---------------------------- MODULE MCServices_proofs ----------------------------
EXTENDS ServiceInvariants_proofs, SequenceTheorems, FiniteSetTheorems, TLAPS

-----------------------------------------------------------------------------
(* The servo's drive.                                                      *)

Segment == [origin_pos : Int, target_pos : Int, points_num : Nat \ {0}]

(* What TypeOK does not bound.                                             *)
Paths == [path : Seq([to : Int, periods : Nat]), cyclic : BOOLEAN, at : Int, faults : Nat, losses : Nat]
Output == [word : SUBSET (0..15), target : Int]
DrivesShape ==
    /\ job \in Paths /\ (\E j \in Jobs : job.path = j.path /\ job.cyclic = j.cyclic)
    /\ tp \in Seq(Segment) /\ (d_pc = "init" <=> tp = <<>>)
    /\ csp \in [status : {"running", "stop"}, current_tp : Nat, current_point : Nat]
    /\ out \in Output /\ cmd \in Output /\ act \in Int
    /\ frame \in [lost : BOOLEAN, status : Drives!States]
    /\ {misread, coasted, early, behind} \subseteq BOOLEAN
    /\ d_pc # "suspended" => wkc_lost <= MaxLost

(* One segment begins where the one before ends, and a step along it is    *)
(* one at most.                                                            *)
Joined ==
    /\ \A k \in 1..(Len(tp) - 1) : tp[k + 1].origin_pos = tp[k].target_pos
    /\ tp # <<>> /\ job.cyclic => Len(tp) >= 2 /\ tp[2].origin_pos = tp[Len(tp)].target_pos
    /\ \A k \in 1..Len(tp) : Drives!AbsDiff(tp[k].target_pos, tp[k].origin_pos) <= tp[k].points_num

Near(a, b) == Drives!AbsDiff(a, b) <= 1

(* The axis is on its path: the next target is near the last one.          *)
Course ==
    /\ csp.status = "stop" => d_pc \in {"init", "suspended"}
    /\ csp.status = "running" =>
        /\ csp.current_tp \in 1..Len(tp) /\ csp.current_point < tp[csp.current_tp].points_num
        /\ Near(Drives!NextPos, out.target)

Followed == ~misread /\ ~coasted
InFlight == d_pc \in {"wait", "receive"} /\ ~frame.lost
Moving   == InFlight /\ frame.status = "operation"
Settled  == state # "operation" \/ ~behind

(* Until the first cycle the drive has no control word; until it is        *)
(* operational its target is 0, and a fault that leaves the axis there is  *)
(* none that moved it away.                                                *)
AtFirst ==
    /\ d_pc \in {"init", "op", "first"} =>
        /\ state \in {"not_ready", "switch_on_disabled", "reaction", "fault"}
        /\ cmd.word = {} /\ out.word = {}
    /\ d_pc = "init" => ~misread
    /\ d_pc \in {"init", "op"} /\ Followed => cmd.target = 0 /\ (act = job.at \/ (act = 0 /\ job.at = -1))
    /\ d_pc = "op" /\ Followed => out.target = job.at

(* One cycle a period.                                                     *)
NotesAt == ~behind =>
    (d_pc \in {"send", "receive"} => notes = 0) /\ (d_pc = "wait" => notes <= 1)

(* The target in IOmap is at most a step from that of the drive, and, but  *)
(* for cycles made up for, both are from its position.  A frame that moves *)
(* the target on has found the axis on it.                                 *)
TargetsAt ==
    /\ InFlight => cmd.target = out.target
    /\ d_pc \in {"first", "send", "wait", "receive"} => Near(out.target, cmd.target)
    /\ Followed /\ Settled /\ d_pc \in {"first", "send", "wait", "receive"} => Near(cmd.target, act) /\ Near(out.target, act)
    /\ Followed /\ Settled /\ Moving /\ (d_pc = "receive" \/ notes > 0) => act = cmd.target
    /\ Moving /\ d_pc = "wait" /\ state # "operation" => notes > 0

DrivesInv == Drives!TypeOK /\ DrivesShape /\ Joined /\ Course /\ AtFirst /\ NotesAt /\ TargetsAt

-----------------------------------------------------------------------------
(* Distances.                                                              *)
LEMMA Distance ==
    ASSUME NEW a \in Int, NEW b \in Int
    PROVE  Drives!AbsDiff(a, b) \in Nat /\ Drives!AbsDiff(a, b) = Drives!AbsDiff(b, a) /\ (Near(a, b) <=> a - b \in {-1, 0, 1})
<1>1. CASE a < b
  BY <1>1 DEF Drives!AbsDiff, Near
<1>2. CASE ~(a < b)
  BY <1>2 DEF Drives!AbsDiff, Near
<1> QED BY <1>1, <1>2

LEMMA NearItself == ASSUME NEW a \in Int PROVE Near(a, a)
BY DEF Near, Drives!AbsDiff

(* Position p of a segment from o to t in n points.                        *)
Pos(o, t, n_, p) ==
    IF t < o THEN o - (Drives!AbsDiff(t, o) * p) \div n_ ELSE o + (Drives!AbsDiff(t, o) * p) \div n_

LEMMA NextIs ==
    Drives!NextPos = Pos(tp[csp.current_tp].origin_pos, tp[csp.current_tp].target_pos,
                         tp[csp.current_tp].points_num, csp.current_point)
BY DEF Drives!NextPos, Pos

(* A quotient grows by one at most when no more than the divisor is added. *)
LEMMA QuotientGrows ==
    ASSUME NEW x \in Nat, NEW d \in Nat, NEW n_ \in Nat \ {0}, d <= n_
    PROVE  x \div n_ \in Nat /\ (x + d) \div n_ \in {x \div n_, x \div n_ + 1}
<1> DEFINE q == x \div n_
           r == (x + d) \div n_
<1>1. q \in Nat /\ r \in Nat
  OBVIOUS
<1>2. q * n_ <= x /\ x < q * n_ + n_
  OBVIOUS
<1>3. r * n_ <= x + d /\ x + d < r * n_ + n_
  OBVIOUS
<1> HIDE DEF q, r
<1>4. q <= r
  <2> SUFFICES ASSUME r < q PROVE FALSE
    BY <1>1
  <2>1. q = (r + 1) + (q - r - 1) /\ q - r - 1 \in Nat
    BY <1>1
  <2>2. q * n_ = (r + 1) * n_ + (q - r - 1) * n_ /\ (q - r - 1) * n_ >= 0 /\ (r + 1) * n_ = r * n_ + n_
    BY <1>1, <2>1
  <2> QED BY <1>1, <1>2, <1>3, <2>2
<1>5. r <= q + 1
  <2> SUFFICES ASSUME r > q + 1 PROVE FALSE
    BY <1>1
  <2>1. r = (q + 2) + (r - q - 2) /\ r - q - 2 \in Nat
    BY <1>1
  <2>2. r * n_ = (q + 2) * n_ + (r - q - 2) * n_ /\ (r - q - 2) * n_ >= 0 /\ (q + 2) * n_ = q * n_ + n_ + n_
    BY <1>1, <2>1
  <2> QED BY <1>1, <1>2, <1>3, <2>2
<1>6. r \in {q, q + 1}
  BY <1>1, <1>4, <1>5
<1> QED BY <1>1, <1>6 DEF q, r

(* A segment begins at its origin, goes on by steps of one at most, and    *)
(* its last point is a step from its target.                               *)
LEMMA Profile ==
    ASSUME NEW o \in Int, NEW t \in Int, NEW n_ \in Nat \ {0}, Drives!AbsDiff(t, o) <= n_
    PROVE  /\ Pos(o, t, n_, 0) = o /\ Pos(o, t, n_, n_) = t
           /\ \A p \in Nat : Pos(o, t, n_, p) \in Int /\ Near(Pos(o, t, n_, p + 1), Pos(o, t, n_, p))
<1> DEFINE d == Drives!AbsDiff(t, o)
<1>1. d \in Nat /\ d = IF t < o THEN o - t ELSE t - o
  BY Distance DEF Drives!AbsDiff
<1>2. d <= n_
  OBVIOUS
<1>a. \A p : Pos(o, t, n_, p) = IF t < o THEN o - (d * p) \div n_ ELSE o + (d * p) \div n_
  BY DEF Pos
<1> HIDE DEF d
<1>3. Pos(o, t, n_, 0) = o
  <2>1. d * 0 = 0 /\ 0 \div n_ = 0
    BY <1>1
  <2> QED BY <1>a, <2>1
<1>4. Pos(o, t, n_, n_) = t
  <2>1. (d * n_) \div n_ = d
    BY <1>1, DivOfProduct
  <2> QED BY <1>a, <1>1, <2>1
<1>5. ASSUME NEW p \in Nat PROVE Pos(o, t, n_, p) \in Int /\ Near(Pos(o, t, n_, p + 1), Pos(o, t, n_, p))
  <2> DEFINE x == d * p
  <2>1. x \in Nat /\ d * (p + 1) = x + d
    BY <1>1
  <2> DEFINE q == x \div n_
             r == (d * (p + 1)) \div n_
  <2>2. q \in Nat /\ r \in {q, q + 1}
    <3> HIDE DEF x
    <3> QED BY <1>1, <1>2, <2>1, QuotientGrows
  <2>3. Pos(o, t, n_, p) = IF t < o THEN o - q ELSE o + q
    BY <1>a
  <2>4. Pos(o, t, n_, p + 1) = IF t < o THEN o - r ELSE o + r
    BY <1>a
  <2> HIDE DEF q, r
  <2>5. Pos(o, t, n_, p) \in Int /\ Pos(o, t, n_, p + 1) \in Int
    BY <2>2, <2>3, <2>4
  <2>6. Pos(o, t, n_, p + 1) - Pos(o, t, n_, p) \in {-1, 0, 1}
    BY <2>2, <2>3, <2>4
  <2> QED BY <2>5, <2>6, Distance
<1> QED BY <1>3, <1>4, <1>5

-----------------------------------------------------------------------------
(* The segments of a path.                                                 *)
LEMMA NotEmpty ==
    ASSUME NEW T, NEW q \in Seq(T), q # <<>>
    PROVE  Len(q) \in Nat /\ Len(q) >= 1 /\ \A k \in 1..Len(q) : q[k] \in T
OBVIOUS

LEMMA SegmentsAre ==
    ASSUME Drives!DrivesAssumption, NEW j \in Jobs, NEW pos \in Int
    PROVE  LET S == Drives!Segments(j.path, j.cyclic, pos) IN
           /\ S \in Seq(Segment) /\ S # <<>> /\ S[1].origin_pos = pos
           /\ \A k \in 1..(Len(S) - 1) : S[k + 1].origin_pos = S[k].target_pos
           /\ j.cyclic => Len(S) >= 2 /\ S[2].origin_pos = S[Len(S)].target_pos
           /\ \A k \in 1..Len(S) : Drives!AbsDiff(S[k].target_pos, S[k].origin_pos) <= S[k].points_num
<1> DEFINE n_ == Len(j.path)
           N == n_ + IF j.cyclic THEN 1 ELSE 0
           P(k) == IF k <= n_ THEN j.path[k] ELSE j.path[1]
           S == Drives!Segments(j.path, j.cyclic, pos)
           Z == Drives!Segments(j.path, j.cyclic, 0)
<1>1. j \in Paths /\ j.path \in Seq([to : Int, periods : Nat]) /\ j.cyclic \in BOOLEAN /\ j.path # <<>>
  BY DEF Drives!DrivesAssumption, Paths
<1>a. n_ \in Nat /\ n_ >= 1 /\ \A k \in 1..n_ : j.path[k] \in [to : Int, periods : Nat]
  BY <1>1, NotEmpty
<1> HIDE DEF n_
<1>2. n_ \in Nat /\ n_ >= 1 /\ N \in Nat /\ N >= n_ /\ N <= n_ + 1 /\ (j.cyclic => N = n_ + 1) /\ (~j.cyclic => N = n_)
  BY <1>1, <1>a
<1>3. \A k \in 1..n_ : j.path[k] \in [to : Int, periods : Nat]
  BY <1>a
<1>4. \A k \in 1..N : P(k).to \in Int /\ P(k).periods \in Nat
  BY <1>2, <1>3
<1>5. S = [k \in 1..N |-> [origin_pos |-> IF k = 1 THEN pos ELSE pos + j.path[k - 1].to,
                          target_pos |-> pos + P(k).to, points_num |-> P(k).periods]]
  BY DEF Drives!Segments, n_
<1>6. Z = [k \in 1..N |-> [origin_pos |-> IF k = 1 THEN 0 ELSE 0 + j.path[k - 1].to,
                          target_pos |-> 0 + P(k).to, points_num |-> P(k).periods]]
  BY DEF Drives!Segments, n_
<1>7. \A k \in DOMAIN Z : Z[k].points_num > 0 /\ Drives!AbsDiff(Z[k].target_pos, Z[k].origin_pos) <= Z[k].points_num
  BY DEF Drives!DrivesAssumption
<1>8. DOMAIN Z = 1..N
  BY <1>6
<1> HIDE DEF S, Z, N, P
<1>9. ASSUME NEW k \in 1..N
      PROVE  /\ S[k] \in Segment
             /\ S[k].origin_pos = IF k = 1 THEN pos ELSE pos + j.path[k - 1].to
             /\ S[k].target_pos = pos + P(k).to
             /\ Drives!AbsDiff(S[k].target_pos, S[k].origin_pos) <= S[k].points_num
  <2> DEFINE o == IF k = 1 THEN 0 ELSE j.path[k - 1].to
             t == P(k).to
             m == P(k).periods
  <2>1. k # 1 => k - 1 \in 1..n_
    BY <1>2
  <2>2. o \in Int /\ t \in Int /\ m \in Nat
    BY <1>3, <1>4, <2>1
  <2>3. S[k].origin_pos = pos + o /\ S[k].target_pos = pos + t /\ S[k].points_num = m
    BY <1>2, <1>5
  <2>4. Z[k].origin_pos = o /\ Z[k].target_pos = t /\ Z[k].points_num = m
    BY <1>2, <1>6, <2>2
  <2>5. m > 0 /\ Drives!AbsDiff(t, o) <= m
    BY <1>7, <1>8, <2>4
  <2>6. S[k] = [origin_pos |-> S[k].origin_pos, target_pos |-> S[k].target_pos, points_num |-> S[k].points_num]
    BY <1>5
  <2>7. S[k].origin_pos = IF k = 1 THEN pos ELSE pos + j.path[k - 1].to
    BY <2>2, <2>3
  <2> HIDE DEF o, t, m
  <2>8. Drives!AbsDiff(pos + t, pos + o) = Drives!AbsDiff(t, o)
    BY <2>2 DEF Drives!AbsDiff
  <2>9. S[k] \in Segment
    BY <2>2, <2>3, <2>5, <2>6 DEF Segment
  <2> QED BY <2>3, <2>5, <2>7, <2>8, <2>9 DEF t
<1>10. S \in Seq(Segment) /\ Len(S) = N
  <2>1. DOMAIN S = 1..N /\ S = [k \in 1..N |-> S[k]]
    BY <1>5
  <2>2. S \in [1..N -> Segment]
    BY <1>9, <2>1
  <2> QED BY <1>2, <2>2
<1>11. S # <<>> /\ S[1].origin_pos = pos
  BY <1>2, <1>9, <1>10
<1>12. ASSUME NEW k \in 1..(N - 1) PROVE S[k + 1].origin_pos = S[k].target_pos
  <2>1. k \in 1..N /\ k + 1 \in 1..N /\ k <= n_ /\ k + 1 # 1 /\ (k + 1) - 1 = k
    BY <1>2
  <2>2. P(k) = j.path[k]
    BY <2>1 DEF P
  <2> QED BY <1>9, <2>1, <2>2
<1>13. ASSUME j.cyclic PROVE N >= 2 /\ S[2].origin_pos = S[N].target_pos
  <2>1. N = n_ + 1 /\ N >= 2 /\ N \in 1..N /\ 2 \in 1..N
    BY <1>2, <1>13
  <2>2. P(N) = j.path[1]
    BY <1>2, <2>1 DEF P
  <2>3. S[2].origin_pos = pos + j.path[1].to
    BY <1>9, <2>1
  <2> QED BY <1>9, <2>1, <2>2, <2>3
<1> QED BY <1>9, <1>10, <1>11, <1>12, <1>13 DEF S

(* The steps of the servo.                                                 *)
PeriodStep(A) == Drives!NextPeriod /\ A
LEMMA DrivesSteps ==
    ASSUME [Drives!Next]_drivesVars
    PROVE  \/ UNCHANGED drivesVars
           \/ Drives!axis_nc_init \/ Drives!ReachOperational \/ Drives!Send \/ Drives!TakeNote \/ Drives!Cycle
           \/ PeriodStep(Drives!Operates) \/ PeriodStep(Drives!Faults) \/ PeriodStep(Drives!Reacts)
BY DEF Drives!Next, Drives!control_task, Drives!NextPeriod, PeriodStep

(* What the drive does in a period, and what it leaves.                    *)
LEMMA PeriodKeeps ==
    ASSUME Drives!NextPeriod, Drives!TypeOK, DrivesShape
    PROVE  /\ UNCHANGED <<d_pc, chk, tp, csp, out, status, frame, wkc_lost, cmd, misread>>
           /\ notes' \in Nat /\ timer' \in 0..2 /\ notes' > 0
           /\ state' \in Drives!States /\ act' \in Int /\ job' \in Paths
           /\ job'.path = job.path /\ job'.cyclic = job.cyclic /\ job'.at = job.at
           /\ coasted' \in BOOLEAN /\ early' \in BOOLEAN /\ behind' \in BOOLEAN
           /\ Followed' => Followed
           /\ state = "operation" /\ Followed' => act' = cmd.target
           /\ ~behind' /\ d_pc = "wait" => notes' = 1
           /\ d_pc # "receive" => ~behind'
           /\ d_pc \notin {"send", "suspended"}
           /\ d_pc = "wait" => notes = 0
           /\ d_pc = "receive" => frame.lost /\ behind'
<1>1. UNCHANGED <<d_pc, chk, tp, csp, out, status, frame, wkc_lost, cmd, misread>>
  BY DEF Drives!NextPeriod, Drives!path
<1>2. d_pc \notin {"send", "suspended"} /\ (d_pc = "wait" => notes = 0) /\ (d_pc = "receive" => frame.lost /\ timer < 2)
  BY DEF Drives!NextPeriod, Drives!Blocked
<1>3. notes' \in Nat /\ timer' \in 0..2 /\ notes' > 0 /\ (d_pc = "wait" => notes' = 1)
  <2>1. notes \in Nat /\ timer \in 0..2
    BY DEF Drives!TypeOK
  <2>2. notes' \in {1, notes + 1}
    BY DEF Drives!NextPeriod
  <2>3. timer' = timer \/ (d_pc = "receive" /\ timer' = timer + 1)
    BY DEF Drives!NextPeriod
  <2>4. d_pc = "wait" => notes' = notes + 1
    BY DEF Drives!NextPeriod
  <2> QED BY <1>2, <2>1, <2>2, <2>3, <2>4
<1>4. behind' = (d_pc = "receive")
  BY DEF Drives!NextPeriod
<1>5. job \in Paths /\ cmd \in Output /\ act \in Int /\ coasted \in BOOLEAN /\ early \in BOOLEAN /\ state \in Drives!States
  BY DEF DrivesShape, Drives!TypeOK
<1>6. CASE Drives!Operates
  <2>1. state' \in Drives!States
    BY <1>5, <1>6 DEF Drives!Operates, Drives!Answer, Drives!States
  <2>2. act' = (IF state = "operation" THEN cmd.target ELSE act) /\ UNCHANGED <<job, coasted, early>>
    BY <1>6 DEF Drives!Operates
  <2> QED BY <1>1, <1>2, <1>3, <1>4, <1>5, <2>1, <2>2 DEF Followed, Output
<1>7. CASE Drives!Faults
  <2>1. state' = "reaction" /\ act' \in {act, act + 1} /\ early' = early /\ coasted' = (coasted \/ act' # cmd.target)
    BY <1>7 DEF Drives!Faults
  <2>2. job' \in Paths /\ job'.path = job.path /\ job'.cyclic = job.cyclic /\ job'.at = job.at
    <3>1. job.faults > 0 /\ job' = [job EXCEPT !.faults = @ - 1]
      BY <1>7 DEF Drives!Faults
    <3> QED BY <1>5, <3>1 DEF Paths
  <2>3. act' \in Int
    BY <1>5, <2>1
  <2> QED BY <1>1, <1>2, <1>3, <1>4, <1>5, <2>1, <2>2, <2>3 DEF Followed, Drives!States
<1>8. CASE Drives!Reacts
  <2>1. state = "reaction" /\ state' = "fault" /\ early' = (early \/ 7 \in cmd.word) /\ UNCHANGED <<job, act, coasted>>
    BY <1>8 DEF Drives!Reacts
  <2> QED BY <1>1, <1>2, <1>3, <1>4, <1>5, <2>1 DEF Followed, Drives!States
<1> QED BY <1>6, <1>7, <1>8 DEF Drives!NextPeriod

(* What a cycle does: it answers the status, counts a lost frame, or moves *)
(* the target on.                                                          *)
CycleAnswers ==
    status' # "operation" /\ out' \in Output /\ out'.target = out.target /\ d_pc' = "send" /\ UNCHANGED <<csp, wkc_lost>>
CycleLost ==
    /\ frame.lost /\ UNCHANGED <<csp, out>> /\ wkc_lost' = wkc_lost + 1
    /\ d_pc' = IF wkc_lost' > MaxLost THEN "suspended" ELSE "send"
CycleMoves ==
    /\ ~frame.lost /\ frame.status = "operation" /\ csp' = Drives!Advanced
    /\ out' = [out EXCEPT !.target = Drives!NextPos]
    /\ d_pc' = IF csp'.status = "stop" THEN "suspended" ELSE "send"
    /\ UNCHANGED wkc_lost
LEMMA CycleCases ==
    ASSUME Drives!Cycle, Drives!TypeOK, DrivesShape
    PROVE  /\ d_pc = "receive" /\ status' \in Drives!States
           /\ UNCHANGED <<job, chk, notes, timer, tp, frame, cmd, state, prev, act, misread, coasted, early, behind>>
           /\ CycleAnswers \/ CycleLost \/ CycleMoves
<1> USE DEF Drives!Cycle, Drives!drive, Drives!history
<1>1. status \in Drives!States /\ frame.status \in Drives!States /\ frame.lost \in BOOLEAN /\ out \in Output
  BY DEF Drives!TypeOK, DrivesShape
<1>2. d_pc = "receive" /\ status' \in Drives!States
      /\ UNCHANGED <<job, chk, notes, timer, tp, frame, cmd, state, prev, act, misread, coasted, early, behind>>
  BY <1>1
<1>3. CASE status' # "operation"
  <2>1. out' = [out EXCEPT !.word = Drives!WordFor(status')] /\ d_pc' = "send" /\ UNCHANGED <<csp, wkc_lost>>
    BY <1>3
  <2>2. Drives!WordFor(status') \in SUBSET (0..15)
    BY DEF Drives!WordFor, Drives!FaultReset, Drives!Shutdown, Drives!SwitchOn, Drives!EnableOp
  <2>3. out' \in Output /\ out'.target = out.target
    BY <1>1, <2>1, <2>2 DEF Output
  <2> QED BY <1>2, <1>3, <2>1, <2>3 DEF CycleAnswers
<1>4. CASE status' = "operation" /\ frame.lost
  <2>1. CycleLost
    BY <1>4 DEF CycleLost
  <2> QED BY <1>2, <2>1
<1>5. CASE status' = "operation" /\ ~frame.lost
  <2>1. CycleMoves
    BY <1>5 DEF CycleMoves
  <2> QED BY <1>2, <2>1
<1> QED BY <1>1, <1>3, <1>4, <1>5

(* The next point of the path, from one to the next.                       *)
PosAt(c) == Pos(tp[c.current_tp].origin_pos, tp[c.current_tp].target_pos, tp[c.current_tp].points_num, c.current_point)
OnPath(c) ==
    /\ c \in [status : {"running", "stop"}, current_tp : Nat, current_point : Nat]
    /\ c.current_tp \in 1..Len(tp) /\ c.current_point < tp[c.current_tp].points_num
LEMMA AdvancedIs ==
    ASSUME tp \in Seq(Segment), job \in Paths, Joined, OnPath(csp), csp.status = "running"
    PROVE  /\ PosAt(csp) \in Int
           /\ Drives!Advanced \in [status : {"running", "stop"}, current_tp : Nat, current_point : Nat]
           /\ Drives!Advanced.status = "running" =>
                OnPath(Drives!Advanced) /\ PosAt(Drives!Advanced) \in Int /\ Near(PosAt(Drives!Advanced), PosAt(csp))
           /\ Drives!Advanced.current_tp \in 1..Len(tp)
<1> DEFINE k == csp.current_tp
           p == csp.current_point
           o == tp[k].origin_pos
           t == tp[k].target_pos
           m == tp[k].points_num
<1>1. csp \in [status : {"running", "stop"}, current_tp : Nat, current_point : Nat] /\ k \in 1..Len(tp) /\ p \in Nat /\ p < m
      /\ Len(tp) \in Nat
  BY DEF OnPath
<1>2. \A i_ \in 1..Len(tp) : tp[i_].origin_pos \in Int /\ tp[i_].target_pos \in Int /\ tp[i_].points_num \in Nat \ {0}
                            /\ Drives!AbsDiff(tp[i_].target_pos, tp[i_].origin_pos) <= tp[i_].points_num
  <2>1. \A i_ \in 1..Len(tp) : tp[i_] \in Segment
    OBVIOUS
  <2> QED BY <2>1 DEF Joined, Segment
<1>3. /\ o \in Int /\ t \in Int /\ m \in Nat \ {0} /\ Drives!AbsDiff(t, o) <= m
  BY <1>1, <1>2
<1>4. Pos(o, t, m, m) = t /\ Pos(o, t, m, p) \in Int /\ Near(Pos(o, t, m, p + 1), Pos(o, t, m, p)) /\ Pos(o, t, m, p + 1) \in Int
  <2>1. p + 1 \in Nat
    BY <1>1
  <2> HIDE DEF o, t, m, p
  <2> QED BY <1>1, <1>3, <2>1, Profile, ZenonT(40)
<1>5. PosAt(csp) = Pos(o, t, m, p)
  BY DEF PosAt
<1>6. \A i_ \in 1..Len(tp) : Pos(tp[i_].origin_pos, tp[i_].target_pos, tp[i_].points_num, 0) = tp[i_].origin_pos
  BY <1>2, Profile
<1>7. CASE p + 1 < m
  <2>1. Drives!Advanced = [csp EXCEPT !.current_point = @ + 1]
    BY <1>7 DEF Drives!Advanced
  <2>2. Drives!Advanced = [status |-> csp.status, current_tp |-> k, current_point |-> p + 1]
    BY <1>1, <2>1
  <2>3. OnPath(Drives!Advanced)
    BY <1>1, <1>7, <2>2 DEF OnPath
  <2>4. PosAt(Drives!Advanced) = Pos(o, t, m, p + 1)
    BY <2>2 DEF PosAt
  <2> QED BY <1>1, <1>4, <1>5, <2>2, <2>3, <2>4 DEF OnPath
<1>8. CASE ~(p + 1 < m)
  <2>1. p + 1 = m
    BY <1>1, <1>3, <1>8
  <2>2. Near(t, Pos(o, t, m, p))
    <3> HIDE DEF o, t, m, p
    <3> QED BY <1>4, <2>1
  <2>3. CASE k < Len(tp)
    <3>1. Drives!Advanced = [csp EXCEPT !.current_tp = @ + 1, !.current_point = 0]
      BY <1>8, <2>3 DEF Drives!Advanced
    <3>2. Drives!Advanced = [status |-> csp.status, current_tp |-> k + 1, current_point |-> 0]
      BY <1>1, <3>1
    <3>3. k + 1 \in 1..Len(tp) /\ k \in 1..(Len(tp) - 1)
      BY <1>1, <2>3
    <3>4. OnPath(Drives!Advanced)
      BY <1>1, <1>2, <3>2, <3>3 DEF OnPath
    <3>5. PosAt(Drives!Advanced) = tp[k + 1].origin_pos
      BY <1>6, <3>2, <3>3 DEF PosAt
    <3>6. tp[k + 1].origin_pos = t
      BY <3>3 DEF Joined
    <3> QED BY <1>3, <1>4, <1>5, <2>2, <3>2, <3>4, <3>5, <3>6 DEF OnPath
  <2>4. CASE ~(k < Len(tp)) /\ job.cyclic
    <3>1. Drives!Advanced = [csp EXCEPT !.current_tp = 2, !.current_point = 0]
      BY <1>8, <2>4 DEF Drives!Advanced, Drives!AfterLast
    <3>2. Drives!Advanced = [status |-> csp.status, current_tp |-> 2, current_point |-> 0]
      BY <1>1, <3>1
    <3>3. k = Len(tp) /\ tp # <<>>
      BY <1>1, <2>4
    <3>4. Len(tp) >= 2 /\ tp[2].origin_pos = t
      BY <2>4, <3>3 DEF Joined
    <3>5. 2 \in 1..Len(tp)
      BY <1>1, <3>4
    <3>6. OnPath(Drives!Advanced)
      BY <1>1, <1>2, <3>2, <3>5 DEF OnPath
    <3>7. PosAt(Drives!Advanced) = tp[2].origin_pos
      BY <1>6, <3>2, <3>5 DEF PosAt
    <3> QED BY <1>3, <1>4, <1>5, <2>2, <3>2, <3>4, <3>6, <3>7 DEF OnPath
  <2>5. CASE ~(k < Len(tp)) /\ ~job.cyclic
    <3>1. Drives!Advanced = [status |-> "stop", current_tp |-> 1, current_point |-> 0]
      BY <1>8, <2>5 DEF Drives!Advanced, Drives!AfterLast
    <3> QED BY <1>1, <1>4, <1>5, <3>1
  <2> QED BY <2>3, <2>4, <2>5
<1> QED BY <1>7, <1>8

-----------------------------------------------------------------------------
(* Each part of the invariant is kept by every step.                       *)
LEMMA SentFrame ==
    ASSUME Drives!Send, Drives!TypeOK, DrivesShape
    PROVE  /\ UNCHANGED <<chk, tp, csp, out, status, wkc_lost, state, prev, act, misread, coasted, early, behind>>
           /\ (d_pc = "send" /\ d_pc' = "wait" /\ notes' = notes) \/ (d_pc = "first" /\ d_pc' = "receive" /\ notes' = 0)
           /\ timer' = 0 /\ cmd' \in {cmd, out}
           /\ frame' \in [lost : BOOLEAN, status : Drives!States]
           /\ frame'.lost \/ (cmd' = out /\ frame'.status = state)
           /\ job' \in Paths /\ job'.path = job.path /\ job'.cyclic = job.cyclic /\ job'.at = job.at
<1>1. /\ UNCHANGED <<chk, tp, csp, out, status, wkc_lost, state, prev, act, misread, coasted, early, behind>>
      /\ (d_pc = "send" /\ d_pc' = "wait" /\ notes' = notes) \/ (d_pc = "first" /\ d_pc' = "receive" /\ notes' = 0)
      /\ timer' = 0
  BY DEF Drives!Send, Drives!path, Drives!history
<1>2. job \in Paths /\ state \in Drives!States /\ "not_ready" \in Drives!States
  BY DEF DrivesShape, Drives!TypeOK, Drives!States
<1>3. CASE cmd' = out /\ frame' = [lost |-> FALSE, status |-> state] /\ job' = job
  BY <1>1, <1>2, <1>3
<1>4. CASE job.losses > 0 /\ job' = [job EXCEPT !.losses = @ - 1] /\ cmd' \in {cmd, out} /\ frame' = Drives!NoFrame
  <2>1. job' \in Paths /\ job'.path = job.path /\ job'.cyclic = job.cyclic /\ job'.at = job.at
    <3>1. job.losses > 0 /\ job' = [job EXCEPT !.losses = @ - 1]
      BY <1>4
    <3> QED BY <1>2, <3>1, SMTT(40) DEF Paths
  <2>2. frame' = [lost |-> TRUE, status |-> "not_ready"]
    BY <1>4 DEF Drives!NoFrame
  <2> QED BY <1>1, <1>2, <1>4, <2>1, <2>2
<1> QED BY <1>3, <1>4 DEF Drives!Send

(* The start of the path.                                                  *)
LEMMA Started ==
    ASSUME Drives!DrivesAssumption, Drives!axis_nc_init, DrivesShape, Drives!TypeOK
    PROVE  /\ d_pc = "init" /\ d_pc' = "op" /\ misread' \in BOOLEAN
           /\ tp' \in Seq(Segment) /\ tp' # <<>> /\ Joined'
           /\ csp' = [status |-> "running", current_tp |-> 1, current_point |-> 0]
           /\ out' \in Output /\ out'.word = {} /\ (~misread' => out'.target = job.at) /\ OnPath(csp)'
           /\ PosAt(csp)' = out'.target
           /\ UNCHANGED <<job, notes, timer, status, frame, wkc_lost, state, cmd, prev, act, coasted, early, behind>>
<1> DEFINE pos == IF misread' THEN 0 ELSE job.at
<1>1. /\ d_pc = "init" /\ d_pc' = "op" /\ misread' \in BOOLEAN
      /\ tp' = Drives!Segments(job.path, job.cyclic, pos) /\ out' = [word |-> {}, target |-> pos]
      /\ csp' = [status |-> "running", current_tp |-> 1, current_point |-> 0]
      /\ UNCHANGED <<job, notes, timer, status, frame, wkc_lost, state, cmd, prev, act, coasted, early, behind>>
  BY DEF Drives!axis_nc_init, Drives!drive
<1>2. pos \in Int
  BY DEF DrivesShape, Paths
<1>3. PICK j \in Jobs : job.path = j.path /\ job.cyclic = j.cyclic
  BY DEF DrivesShape
<1> HIDE DEF pos
<1>4. /\ tp' \in Seq(Segment) /\ tp' # <<>> /\ tp'[1].origin_pos = pos
      /\ \A k \in 1..(Len(tp') - 1) : tp'[k + 1].origin_pos = tp'[k].target_pos
      /\ job.cyclic => Len(tp') >= 2 /\ tp'[2].origin_pos = tp'[Len(tp')].target_pos
      /\ \A k \in 1..Len(tp') : Drives!AbsDiff(tp'[k].target_pos, tp'[k].origin_pos) <= tp'[k].points_num
  <2> DEFINE S == Drives!Segments(j.path, j.cyclic, pos)
  <2>1. tp' = S
    BY <1>1, <1>3
  <2>2. /\ S \in Seq(Segment) /\ S # <<>> /\ S[1].origin_pos = pos
        /\ \A k \in 1..(Len(S) - 1) : S[k + 1].origin_pos = S[k].target_pos
        /\ j.cyclic => Len(S) >= 2 /\ S[2].origin_pos = S[Len(S)].target_pos
        /\ \A k \in 1..Len(S) : Drives!AbsDiff(S[k].target_pos, S[k].origin_pos) <= S[k].points_num
    BY <1>2, SegmentsAre
  <2> HIDE DEF S
  <2> QED BY <1>3, <2>1, <2>2
<1>5. Joined'
  BY <1>1, <1>4 DEF Joined
<1>6. Len(tp') \in Nat /\ Len(tp') >= 1 /\ \A k \in 1..Len(tp') : tp'[k] \in Segment
  BY <1>4, NotEmpty
<1>7. 1 \in 1..Len(tp') /\ tp'[1] \in Segment
  BY <1>6
<1>8. OnPath(csp)'
  BY <1>1, <1>7 DEF OnPath, Segment
<1>9. PosAt(csp)' = pos
  <2>1. Pos(tp'[1].origin_pos, tp'[1].target_pos, tp'[1].points_num, 0) = tp'[1].origin_pos
    BY <1>4, <1>7, Profile DEF Segment
  <2> QED BY <1>1, <1>4, <2>1 DEF PosAt
<1>10. out' \in Output /\ out'.word = {} /\ out'.target = pos
  BY <1>1, <1>2 DEF Output
<1> QED BY <1>1, <1>4, <1>5, <1>8, <1>9, <1>10 DEF pos

LEMMA DrivesTypeKept ==
    ASSUME Drives!DrivesAssumption, Drives!TypeOK, DrivesShape, Joined, Course, [Drives!Next]_drivesVars
    PROVE  Drives!TypeOK' /\ DrivesShape' /\ Joined'
<1>a. /\ d_pc \in {"init", "op", "first", "send", "wait", "receive", "suspended"}
      /\ csp.current_tp \in 1..(IF tp = <<>> THEN 1 ELSE Len(tp))
      /\ status \in Drives!States /\ state \in Drives!States /\ wkc_lost \in 0..(MaxLost + 1)
      /\ notes \in Nat /\ timer \in 0..2
  BY DEF Drives!TypeOK
<1>b. /\ job \in Paths /\ (\E j \in Jobs : job.path = j.path /\ job.cyclic = j.cyclic)
      /\ tp \in Seq(Segment) /\ (d_pc = "init" <=> tp = <<>>)
      /\ csp \in [status : {"running", "stop"}, current_tp : Nat, current_point : Nat]
      /\ out \in Output /\ cmd \in Output /\ act \in Int
      /\ frame \in [lost : BOOLEAN, status : Drives!States]
      /\ misread \in BOOLEAN /\ coasted \in BOOLEAN /\ early \in BOOLEAN /\ behind \in BOOLEAN
      /\ d_pc # "suspended" => wkc_lost <= MaxLost
  BY DEF DrivesShape
<1>c. MaxLost \in Nat
  BY DEF Drives!DrivesAssumption
<1>1. CASE UNCHANGED drivesVars
  BY <1>1 DEF drivesVars, Drives!TypeOK, DrivesShape, Joined
<1>2. CASE Drives!axis_nc_init
  <2>1. Len(tp') \in Nat /\ Len(tp') >= 1
    BY <1>2, Started, NotEmpty
  <2>2. csp'.current_tp = 1 /\ csp' \in [status : {"running", "stop"}, current_tp : Nat, current_point : Nat]
    BY <1>2, Started
  <2>3. Drives!TypeOK'
    BY <1>2, <1>a, <2>1, <2>2, Started DEF Drives!TypeOK
  <2>4. DrivesShape'
    BY <1>2, <1>b, <2>2, Started DEF DrivesShape
  <2> QED BY <1>2, <2>3, <2>4, Started
<1>3. CASE Drives!ReachOperational
  <2>1. /\ d_pc = "op" /\ d_pc' \in {"op", "first", "suspended"} /\ cmd' \in {cmd, out}
        /\ UNCHANGED <<job, notes, timer, tp, csp, out, status, frame, wkc_lost, state, prev, act, misread, coasted, early, behind>>
    BY <1>3 DEF Drives!ReachOperational, Drives!path, Drives!history
  <2>2. Drives!TypeOK'
    BY <1>a, <2>1 DEF Drives!TypeOK
  <2>3. DrivesShape'
    BY <1>b, <2>1 DEF DrivesShape
  <2> QED BY <2>1, <2>2, <2>3 DEF Joined
<1>4. CASE Drives!Send
  <2>1. Drives!TypeOK'
    BY <1>4, <1>a, SentFrame DEF Drives!TypeOK
  <2>2. DrivesShape'
    BY <1>4, <1>b, SentFrame DEF DrivesShape
  <2> QED BY <1>4, <2>1, <2>2, SentFrame DEF Joined
<1>5. CASE Drives!TakeNote
  <2>1. /\ d_pc = "wait" /\ d_pc' = "receive" /\ notes > 0 /\ notes' = notes - 1
        /\ UNCHANGED <<job, timer, tp, csp, out, status, frame, wkc_lost, state, cmd, prev, act, misread, coasted, early, behind>>
    BY <1>5 DEF Drives!TakeNote, Drives!path, Drives!drive, Drives!history
  <2>2. notes' \in Nat
    BY <1>a, <2>1
  <2>3. Drives!TypeOK'
    BY <1>a, <2>1, <2>2 DEF Drives!TypeOK
  <2>4. DrivesShape'
    BY <1>b, <2>1 DEF DrivesShape
  <2> QED BY <2>1, <2>3, <2>4 DEF Joined
<1>6. CASE Drives!Cycle
  <2>0. /\ d_pc = "receive" /\ status' \in Drives!States
        /\ UNCHANGED <<job, chk, notes, timer, tp, frame, cmd, state, prev, act, misread, coasted, early, behind>>
    BY <1>6, CycleCases
  <2>1. Joined'
    BY <2>0 DEF Joined
  <2>2. d_pc' \in {"send", "suspended"} /\ out' \in Output /\ wkc_lost' \in 0..(MaxLost + 1)
        /\ (d_pc' # "suspended" => wkc_lost' <= MaxLost)
        /\ csp' \in [status : {"running", "stop"}, current_tp : Nat, current_point : Nat]
        /\ csp'.current_tp \in 1..(IF tp = <<>> THEN 1 ELSE Len(tp))
    <3>1. CASE CycleAnswers
      BY <1>a, <1>b, <2>0, <3>1 DEF CycleAnswers
    <3>2. CASE CycleLost
      BY <1>a, <1>b, <1>c, <2>0, <3>2 DEF CycleLost
    <3>3. CASE CycleMoves
      <4>1. csp.status = "running" /\ OnPath(csp) /\ tp # <<>>
        BY <1>b, <2>0 DEF Course, OnPath
      <4>2. PosAt(csp) \in Int
        BY <1>b, <4>1, AdvancedIs
      <4>3. Drives!NextPos \in Int
        BY <4>2, NextIs DEF PosAt
      <4>4. out' \in Output
        BY <1>b, <3>3, <4>3 DEF CycleMoves, Output
      <4>5. csp' \in [status : {"running", "stop"}, current_tp : Nat, current_point : Nat] /\ csp'.current_tp \in 1..Len(tp)
        BY <1>b, <3>3, <4>1, AdvancedIs DEF CycleMoves
      <4> QED BY <1>a, <1>b, <2>0, <3>3, <4>1, <4>4, <4>5 DEF CycleMoves
    <3> QED BY <1>6, <3>1, <3>2, <3>3, CycleCases
  <2>3. Drives!TypeOK'
    BY <1>a, <2>0, <2>2 DEF Drives!TypeOK
  <2>4. DrivesShape'
    BY <1>b, <2>0, <2>2 DEF DrivesShape
  <2> QED BY <2>1, <2>3, <2>4
<1>7. CASE Drives!NextPeriod
  <2>1. Drives!TypeOK'
    BY <1>7, <1>a, PeriodKeeps DEF Drives!TypeOK
  <2>2. DrivesShape'
    BY <1>7, <1>b, PeriodKeeps DEF DrivesShape
  <2> QED BY <1>7, <2>1, <2>2, PeriodKeeps DEF Joined
<1> QED BY <1>1, <1>2, <1>3, <1>4, <1>5, <1>6, <1>7, DrivesSteps DEF PeriodStep

(* A step that leaves the path and its target leaves the course.           *)
LEMMA CourseStays ==
    ASSUME Course, UNCHANGED <<tp, csp>>, out'.target = out.target, misread' = misread,
           csp.status = "stop" => d_pc' \in {"init", "suspended"}
    PROVE  Course'
BY DEF Course, Drives!NextPos

LEMMA CourseKept ==
    ASSUME Drives!DrivesAssumption, Drives!TypeOK, DrivesShape, Joined, Course, [Drives!Next]_drivesVars
    PROVE  Course'
<1>a. csp.status = "stop" => d_pc \in {"init", "suspended"}
  BY DEF Course
<1>1. CASE UNCHANGED drivesVars
  BY <1>1, <1>a, CourseStays DEF drivesVars
<1>2. CASE Drives!axis_nc_init
  <2>1. csp'.status = "running" /\ OnPath(csp)' /\ PosAt(csp)' = out'.target /\ out' \in Output
    BY <1>2, Started
  <2>2. Near(Drives!NextPos, out.target)'
    <3>1. Drives!NextPos' = out'.target
      BY <2>1 DEF Drives!NextPos, PosAt, Pos
    <3>2. Near(out'.target, out'.target)
      <4>1. out'.target \in Int
        BY <2>1 DEF Output
      <4> QED BY <4>1, NearItself
    <3> QED BY <3>1, <3>2 DEF Near
  <2> QED BY <2>1, <2>2 DEF Course, OnPath
<1>3. CASE Drives!ReachOperational
  <2>1. d_pc = "op" /\ UNCHANGED <<tp, csp, out, misread>>
    BY <1>3 DEF Drives!ReachOperational, Drives!path, Drives!history
  <2> QED BY <1>a, <2>1, CourseStays
<1>4. CASE Drives!Send
  BY <1>4, <1>a, SentFrame, CourseStays
<1>5. CASE Drives!TakeNote
  <2>1. d_pc = "wait" /\ UNCHANGED <<tp, csp, out, misread>>
    BY <1>5 DEF Drives!TakeNote, Drives!path, Drives!history
  <2> QED BY <1>a, <2>1, CourseStays
<1>6. CASE Drives!Cycle
  <2>0. d_pc = "receive" /\ UNCHANGED <<tp, misread>> /\ misread \in BOOLEAN
    BY <1>6, CycleCases DEF DrivesShape
  <2>1. CASE CycleAnswers
    BY <1>a, <2>0, <2>1, CourseStays DEF CycleAnswers
  <2>2. CASE CycleLost
    BY <1>a, <2>0, <2>2, CourseStays DEF CycleLost
  <2>3. CASE CycleMoves
    <3>1. csp.status = "running" /\ OnPath(csp) /\ tp # <<>>
      BY <2>0 DEF Course, OnPath, DrivesShape
    <3>2. csp' = Drives!Advanced /\ out' = [out EXCEPT !.target = PosAt(csp)]
          /\ d_pc' = IF csp'.status = "stop" THEN "suspended" ELSE "send"
      BY <2>3, NextIs DEF CycleMoves, PosAt
    <3>3. out'.target = PosAt(csp)
      BY <3>2 DEF DrivesShape, Output
    <3>4. csp' \in [status : {"running", "stop"}, current_tp : Nat, current_point : Nat]
          /\ (csp'.status = "running" => OnPath(csp') /\ PosAt(csp') \in Int /\ Near(PosAt(csp'), PosAt(csp)))
      BY <3>1, <3>2, AdvancedIs DEF DrivesShape
    <3>5. PosAt(csp)' = PosAt(csp')
      BY <2>0 DEF PosAt
    <3>6. csp'.status = "running" => Near(Drives!NextPos, out.target)'
      <4>1. Drives!NextPos' = PosAt(csp)'
        BY DEF Drives!NextPos, PosAt, Pos
      <4>2. csp'.status = "running" => Near(PosAt(csp'), out'.target)
        BY <3>3, <3>4
      <4> QED BY <3>5, <4>1, <4>2 DEF Near
    <3>7. csp'.status = "running" => csp'.current_tp \in 1..Len(tp') /\ csp'.current_point < tp'[csp'.current_tp].points_num
      BY <2>0, <3>4 DEF OnPath
    <3> QED BY <3>2, <3>6, <3>7 DEF Course
  <2> QED BY <1>6, <2>1, <2>2, <2>3, CycleCases
<1>7. CASE Drives!NextPeriod
  BY <1>7, <1>a, PeriodKeeps, CourseStays
<1> QED BY <1>1, <1>2, <1>3, <1>4, <1>5, <1>6, <1>7, DrivesSteps DEF PeriodStep

LEMMA NotesKept ==
    ASSUME Drives!TypeOK, DrivesShape, NotesAt, [Drives!Next]_drivesVars
    PROVE  NotesAt'
<1>a. notes \in Nat /\ behind \in BOOLEAN
  BY DEF Drives!TypeOK, DrivesShape
<1>1. CASE UNCHANGED drivesVars
  BY <1>1 DEF drivesVars, NotesAt
<1>2. CASE Drives!axis_nc_init
  BY <1>2 DEF Drives!axis_nc_init, NotesAt
<1>3. CASE Drives!ReachOperational
  BY <1>3 DEF Drives!ReachOperational, NotesAt, Drives!history
<1>4. CASE Drives!Send
  BY <1>4, <1>a, SentFrame DEF NotesAt
<1>5. CASE Drives!TakeNote
  <2>1. d_pc = "wait" /\ d_pc' = "receive" /\ notes > 0 /\ notes' = notes - 1 /\ behind' = behind
    BY <1>5 DEF Drives!TakeNote, Drives!history
  <2> QED BY <1>a, <2>1 DEF NotesAt
<1>6. CASE Drives!Cycle
  <2>1. d_pc = "receive" /\ d_pc' \in {"send", "suspended"} /\ UNCHANGED <<notes, behind>>
    BY <1>6, CycleCases DEF CycleAnswers, CycleLost, CycleMoves
  <2> QED BY <2>1 DEF NotesAt
<1>7. CASE Drives!NextPeriod
  BY <1>7, PeriodKeeps DEF NotesAt
<1> QED BY <1>1, <1>2, <1>3, <1>4, <1>5, <1>6, <1>7, DrivesSteps DEF PeriodStep

(* Without a control word the drive does not get far.                      *)
LEMMA AtRest ==
    ASSUME state \in {"not_ready", "switch_on_disabled", "reaction", "fault"}, cmd.word = {}, Drives!NextPeriod
    PROVE  state' \in {"not_ready", "switch_on_disabled", "reaction", "fault"}
<1>1. CASE Drives!Operates
  <2>1. state' = Drives!Answer(state, {}, prev)
    BY <1>1 DEF Drives!Operates
  <2>2. 7 \notin ({} \ prev) /\ 1 \notin {} /\ 7 \notin {}
    OBVIOUS
  <2>3. CASE state = "fault"
    <3>1. Drives!Answer(state, {}, prev) = IF 7 \in ({} \ prev) THEN "switch_on_disabled" ELSE state
      BY <2>3 DEF Drives!Answer
    <3> QED BY <2>1, <2>2, <2>3, <3>1
  <2>4. CASE state = "reaction"
    <3>1. Drives!Answer(state, {}, prev) = state
      BY <2>4 DEF Drives!Answer
    <3> QED BY <2>1, <2>4, <3>1
  <2>5. CASE state = "not_ready"
    <3>1. Drives!Answer(state, {}, prev) = "switch_on_disabled"
      BY <2>5 DEF Drives!Answer
    <3> QED BY <2>1, <3>1
  <2>6. CASE state = "switch_on_disabled"
    BY <2>1, <2>2, <2>6 DEF Drives!Answer
  <2> QED BY <2>3, <2>4, <2>5, <2>6
<1>2. CASE Drives!Faults \/ Drives!Reacts
  BY <1>2 DEF Drives!Faults, Drives!Reacts
<1> QED BY <1>1, <1>2 DEF Drives!NextPeriod

LEMMA AtFirstKept ==
    ASSUME Drives!DrivesAssumption, Drives!TypeOK, DrivesShape, AtFirst, [Drives!Next]_drivesVars
    PROVE  AtFirst'
<1>a. job \in Paths /\ job.at \in Int /\ act \in Int /\ coasted \in BOOLEAN /\ misread \in BOOLEAN
  BY DEF DrivesShape, Paths
<1>1. CASE UNCHANGED drivesVars
  BY <1>1 DEF drivesVars, AtFirst, Followed
<1>2. CASE Drives!axis_nc_init
  <2>1. ~coasted /\ ~misread' => Followed /\ out'.target = job.at
    <3>1. misread = FALSE
      BY <1>a, <1>2 DEF Drives!axis_nc_init, AtFirst
    <3> QED BY <1>2, <3>1, Started DEF Followed
  <2> QED BY <1>2, <2>1, Started DEF AtFirst, Followed
<1>3. CASE Drives!ReachOperational
  <2>1. d_pc = "op" /\ cmd' \in {cmd, out} /\ (d_pc' = "op" => cmd' = cmd)
        /\ d_pc' # "init" /\ UNCHANGED <<job, out, state, act, misread, coasted>>
    BY <1>3 DEF Drives!ReachOperational, Drives!history
  <2> QED BY <2>1 DEF AtFirst, Followed
<1>4. CASE Drives!Send
  BY <1>4, SentFrame DEF AtFirst
<1>5. CASE Drives!TakeNote
  BY <1>5 DEF AtFirst, Drives!TakeNote
<1>6. CASE Drives!Cycle
  BY <1>6, CycleCases DEF AtFirst, CycleAnswers, CycleLost, CycleMoves
<1>7. CASE Drives!NextPeriod
  <2>1. d_pc \in {"init", "op", "first"} =>
            state' \in {"not_ready", "switch_on_disabled", "reaction", "fault"} /\ cmd'.word = {} /\ out'.word = {}
    BY <1>7, AtRest, PeriodKeeps DEF AtFirst
  <2>2. d_pc \in {"init", "op"} /\ Followed' => act' = job'.at \/ (act' = 0 /\ job'.at = -1)
    <3> SUFFICES ASSUME d_pc \in {"init", "op"}, Followed' PROVE act' = job'.at \/ (act' = 0 /\ job'.at = -1)
      OBVIOUS
    <3>1. Followed /\ cmd.target = 0 /\ (act = job.at \/ (act = 0 /\ job.at = -1)) /\ state # "operation" /\ job'.at = job.at
      BY <1>7, PeriodKeeps DEF AtFirst
    <3>2. CASE Drives!Operates
      BY <3>1, <3>2 DEF Drives!Operates
    <3>3. CASE Drives!Faults
      <4>1. act' \in {act, act + 1} /\ act' = 0
        BY <3>1, <3>3 DEF Drives!Faults, Followed
      <4> QED BY <1>a, <3>1, <4>1
    <3>4. CASE Drives!Reacts
      BY <3>1, <3>4 DEF Drives!Reacts
    <3> QED BY <1>7, <3>2, <3>3, <3>4 DEF Drives!NextPeriod
  <2> QED BY <1>7, <2>1, <2>2, PeriodKeeps DEF AtFirst
<1> QED BY <1>1, <1>2, <1>3, <1>4, <1>5, <1>6, <1>7, DrivesSteps DEF PeriodStep

-----------------------------------------------------------------------------
(* The targets, by step.                                                   *)
LEMMA TargetsAtStart ==
    ASSUME AtFirst, DrivesShape, d_pc = "op", Followed
    PROVE  Near(out.target, act)
<1>1. out.target = job.at /\ (act = job.at \/ (act = 0 /\ job.at = -1)) /\ job.at \in Int
  BY DEF AtFirst, DrivesShape, Paths
<1>2. out.target \in Int /\ act \in Int /\ out.target - act \in {-1, 0, 1}
  BY <1>1
<1> QED BY <1>2, Distance

LEMMA TargetsAfterStart ==
    ASSUME DrivesShape, AtFirst, TargetsAt, Drives!axis_nc_init \/ Drives!ReachOperational
    PROVE  TargetsAt'
<1>1. CASE Drives!axis_nc_init
  BY <1>1 DEF Drives!axis_nc_init, TargetsAt, InFlight, Moving
<1>2. CASE Drives!ReachOperational
  <2>1. /\ d_pc = "op" /\ d_pc' \in {"op", "first", "suspended"} /\ UNCHANGED <<out, act, state, misread, coasted, behind>>
        /\ (d_pc' = "op" \/ d_pc' = "suspended" => cmd' = cmd) /\ (d_pc' = "first" => cmd' = out)
    BY <1>2 DEF Drives!ReachOperational, Drives!history
  <2>2. out.target \in Int
    BY DEF DrivesShape, Output
  <2>3. CASE d_pc' = "first"
    <3>1. Near(out.target, out.target)
      BY <2>2, NearItself
    <3>2. Followed => Near(out.target, act)
      BY <2>1, TargetsAtStart
    <3> QED BY <2>1, <2>3, <3>1, <3>2 DEF TargetsAt, InFlight, Moving, Followed, Near
  <2>4. CASE d_pc' # "first"
    BY <2>1, <2>4 DEF TargetsAt, InFlight, Moving, Followed, Near
  <2> QED BY <2>1, <2>3, <2>4
<1> QED BY <1>1, <1>2

LEMMA TargetsAfterSend ==
    ASSUME Drives!TypeOK, DrivesShape, AtFirst, NotesAt, TargetsAt, Drives!Send
    PROVE  TargetsAt'
<1>1. /\ UNCHANGED <<out, state, act, misread, coasted, behind>>
      /\ (d_pc = "send" /\ d_pc' = "wait" /\ notes' = notes) \/ (d_pc = "first" /\ d_pc' = "receive" /\ notes' = 0)
      /\ cmd' \in {cmd, out}
      /\ frame' \in [lost : BOOLEAN, status : Drives!States]
      /\ frame'.lost \/ (cmd' = out /\ frame'.status = state)
  BY SentFrame
<1>2. out.target \in Int /\ Near(out.target, out.target) /\ Near(out.target, cmd.target)
  BY <1>1, NearItself DEF DrivesShape, Output, TargetsAt
<1>3. Near(out'.target, cmd'.target)
  BY <1>1, <1>2
<1>4. Followed' /\ Settled' => Near(cmd'.target, act') /\ Near(out'.target, act')
  <2>1. Followed /\ Settled => Near(cmd.target, act) /\ Near(out.target, act)
    BY <1>1 DEF TargetsAt
  <2> QED BY <1>1, <2>1 DEF Followed, Settled
<1>5. InFlight' => cmd'.target = out'.target
  BY <1>1 DEF InFlight
<1>6. Moving' => state' = "operation"
  BY <1>1 DEF InFlight, Moving
<1>7. d_pc = "first" => state # "operation"
  BY DEF AtFirst
<1>8. Settled' /\ Moving' => d_pc' = "wait" /\ notes' = 0
  <2> SUFFICES ASSUME Settled', Moving' PROVE d_pc' = "wait" /\ notes' = 0
    OBVIOUS
  <2>1. state = "operation" /\ ~behind /\ d_pc = "send"
    BY <1>1, <1>6, <1>7 DEF Settled
  <2> QED BY <1>1, <2>1 DEF NotesAt
<1>9. ~(0 > 0)
  OBVIOUS
<1> QED BY <1>1, <1>3, <1>4, <1>5, <1>6, <1>8, <1>9 DEF TargetsAt, Near

LEMMA TargetsAfterNote ==
    ASSUME TargetsAt, Drives!TakeNote
    PROVE  TargetsAt'
<1>1. d_pc = "wait" /\ d_pc' = "receive" /\ notes > 0 /\ UNCHANGED <<frame, out, cmd, state, act, misread, coasted, behind>>
  BY DEF Drives!TakeNote, Drives!drive, Drives!history
<1> QED BY <1>1 DEF TargetsAt, InFlight, Moving, Followed, Settled, Near

LEMMA TargetsAfterCycle ==
    ASSUME Drives!TypeOK, DrivesShape, Joined, Course, TargetsAt, Drives!Cycle
    PROVE  TargetsAt'
<1>1. /\ d_pc = "receive" /\ UNCHANGED <<frame, cmd, state, act, misread, coasted, behind>>
      /\ CycleAnswers \/ CycleLost \/ CycleMoves
  BY CycleCases
<1>2. ~InFlight' /\ ~Moving' /\ d_pc' \in {"send", "suspended"}
  BY <1>1 DEF InFlight, Moving, CycleAnswers, CycleLost, CycleMoves
<1>3. CASE out'.target = out.target
  BY <1>1, <1>2, <1>3 DEF TargetsAt, Followed, Settled, Near
<1>4. CASE CycleMoves
  <2>1. Moving /\ cmd.target = out.target
    BY <1>1, <1>4 DEF CycleMoves, Moving, InFlight, TargetsAt
  <2>2. csp.status = "running" /\ OnPath(csp)
    BY <1>1 DEF Course, OnPath, DrivesShape
  <2>3. out.target \in Int /\ act \in Int /\ PosAt(csp) \in Int
    BY <2>2, AdvancedIs DEF DrivesShape, Output
  <2>4. out'.target = PosAt(csp)
    BY <1>4, NextIs DEF CycleMoves, PosAt, DrivesShape, Output
  <2>5. Near(PosAt(csp), out.target)
    BY <2>2, NextIs DEF Course, PosAt
  <2>6. Near(out'.target, cmd'.target)
    BY <1>1, <2>1, <2>4, <2>5
  <2>7. Followed' /\ Settled' => Near(cmd'.target, act') /\ Near(out'.target, act')
    <3> SUFFICES ASSUME Followed', Settled' PROVE Near(cmd'.target, act') /\ Near(out'.target, act')
      OBVIOUS
    <3>1. act = cmd.target
      BY <1>1, <2>1 DEF TargetsAt, Followed, Settled
    <3>2. Near(act, act)
      BY <2>3, NearItself
    <3> QED BY <1>1, <2>6, <3>1, <3>2
  <2> QED BY <1>2, <2>6, <2>7 DEF TargetsAt, Near
<1> QED BY <1>1, <1>3, <1>4 DEF CycleAnswers, CycleLost

LEMMA TargetsAfterPeriod ==
    ASSUME Drives!TypeOK, DrivesShape, AtFirst, NotesAt, TargetsAt, Drives!NextPeriod
    PROVE  TargetsAt'
<1>1. /\ UNCHANGED <<d_pc, out, frame, cmd, misread>> /\ notes' > 0
      /\ state' \in Drives!States /\ act' \in Int /\ (Followed' => Followed)
      /\ (state = "operation" /\ Followed' => act' = cmd.target)
      /\ d_pc # "send" /\ (d_pc = "wait" => notes = 0) /\ (d_pc = "receive" => frame.lost)
  BY PeriodKeeps
<1>2. /\ InFlight' = InFlight /\ Moving' = Moving
  BY <1>1 DEF InFlight, Moving
<1>3. out.target \in Int /\ cmd.target \in Int /\ act \in Int
  BY DEF DrivesShape, Output
<1> DEFINE near == d_pc \in {"first", "send", "wait", "receive"}
<1>4. near => Near(out.target, cmd.target) /\ Near(cmd.target, cmd.target)
  BY <1>3, NearItself DEF TargetsAt
<1>5. Followed' /\ near => Near(cmd'.target, act') /\ Near(out'.target, act')
  <2> SUFFICES ASSUME Followed', near PROVE Near(cmd'.target, act') /\ Near(out'.target, act')
    OBVIOUS
  <2>1. CASE act' = cmd.target
    BY <1>1, <1>4, <2>1
  <2>2. CASE act' # cmd.target
    <3>1. state # "operation"
      BY <1>1, <2>2
    <3>2. Near(cmd.target, act) /\ Near(out.target, act)
      BY <1>1, <3>1 DEF TargetsAt, Settled
    <3>3. act' = act
      <4>1. ~coasted'
        BY DEF Followed
      <4>2. CASE Drives!Operates
        BY <3>1, <4>2 DEF Drives!Operates
      <4>3. CASE Drives!Faults
        BY <2>2, <4>1, <4>3 DEF Drives!Faults
      <4>4. CASE Drives!Reacts
        BY <4>4 DEF Drives!Reacts
      <4> QED BY <4>2, <4>3, <4>4 DEF Drives!NextPeriod
    <3> QED BY <1>1, <3>2, <3>3
  <2> QED BY <2>1, <2>2
<1>6. Followed' /\ Moving => act' = cmd.target
  <2> SUFFICES ASSUME Followed', Moving PROVE act' = cmd.target
    OBVIOUS
  <2>1. d_pc = "wait" /\ notes = 0
    BY <1>1 DEF Moving, InFlight
  <2>2. ~(0 > 0)
    OBVIOUS
  <2>3. state = "operation"
    BY <2>1, <2>2 DEF TargetsAt
  <2> QED BY <1>1, <2>3
<1>7. InFlight' => cmd'.target = out'.target
  BY <1>1, <1>2 DEF TargetsAt
<1> QED BY <1>1, <1>2, <1>4, <1>5, <1>6, <1>7 DEF TargetsAt, Near

LEMMA TargetsKept ==
    ASSUME Drives!TypeOK, DrivesShape, Joined, Course, AtFirst, NotesAt, TargetsAt, [Drives!Next]_drivesVars
    PROVE  TargetsAt'
<1>1. CASE UNCHANGED drivesVars
  BY <1>1 DEF drivesVars, TargetsAt, InFlight, Moving, Followed, Settled, Near
<1> QED
  BY <1>1, DrivesSteps, TargetsAfterStart, TargetsAfterSend, TargetsAfterNote, TargetsAfterCycle,
     TargetsAfterPeriod DEF PeriodStep

-----------------------------------------------------------------------------
(* The invariant of the drive is inductive, holds at first, and implies    *)
(* the property.                                                           *)
LEMMA DrivesInductive ==
    ASSUME Drives!DrivesAssumption, DrivesInv, [Drives!Next]_drivesVars
    PROVE  DrivesInv'
<1>1. Drives!TypeOK' /\ DrivesShape' /\ Joined'
  BY DrivesTypeKept DEF DrivesInv
<1>2. Course'
  BY CourseKept DEF DrivesInv
<1>3. AtFirst' /\ NotesAt' /\ TargetsAt'
  BY AtFirstKept, NotesKept, TargetsKept DEF DrivesInv
<1> QED BY <1>1, <1>2, <1>3 DEF DrivesInv

LEMMA DrivesInitially ==
    ASSUME Drives!DrivesAssumption, NEW j \in Jobs, Drives!InitWith(j)
    PROVE  DrivesInv
<1>1. j \in Paths /\ MaxLost \in Nat
  BY DEF Drives!DrivesAssumption, Paths
<1>2. /\ job = j /\ d_pc = "init" /\ notes = 0 /\ timer = 0 /\ tp = <<>>
      /\ csp = [status |-> "stop", current_tp |-> 1, current_point |-> 0]
      /\ out = [word |-> {}, target |-> 0] /\ status = "not_ready"
      /\ frame = [lost |-> TRUE, status |-> "not_ready"] /\ wkc_lost = 0
      /\ state = "not_ready" /\ cmd = out /\ act = j.at
      /\ misread = FALSE /\ coasted = FALSE /\ early = FALSE /\ behind = FALSE
  BY DEF Drives!InitWith, Drives!NoFrame
<1>3. "not_ready" \in Drives!States
  BY DEF Drives!States
<1>4. Drives!TypeOK
  <2>1. 1 \in 1..1 /\ 0 \in 0..(MaxLost + 1)
    BY <1>1
  <2> QED BY <1>2, <1>3, <2>1 DEF Drives!TypeOK
<1>5. DrivesShape
  <2>1. tp \in Seq(Segment)
    BY <1>2
  <2>2. out \in Output /\ cmd \in Output
    BY <1>2 DEF Output
  <2>3. job \in Paths /\ act \in Int /\ \E x \in Jobs : job.path = x.path /\ job.cyclic = x.cyclic
    BY <1>1, <1>2 DEF Paths
  <2>4. wkc_lost <= MaxLost
    BY <1>1, <1>2
  <2> QED BY <1>2, <1>3, <2>1, <2>2, <2>3, <2>4 DEF DrivesShape
<1>6. Joined
  <2>1. Len(tp) = 0
    BY <1>2
  <2> QED BY <1>2, <2>1 DEF Joined
<1>7. Course /\ AtFirst /\ NotesAt /\ TargetsAt
  BY <1>2 DEF Course, AtFirst, NotesAt, TargetsAt, InFlight, Moving
<1> QED BY <1>4, <1>5, <1>6, <1>7 DEF DrivesInv

LEMMA DrivesFollow ==
    ASSUME DrivesInv
    PROVE  Drives!TypeOK /\ Drives!NoJump
<1>1. state = "operation" /\ d_pc # "suspended" => d_pc \in {"first", "send", "wait", "receive"}
  BY DEF DrivesInv, AtFirst, Drives!TypeOK
<1>2. misread \in BOOLEAN /\ coasted \in BOOLEAN /\ behind \in BOOLEAN
  BY DEF DrivesInv, DrivesShape
<1> QED BY <1>1, <1>2 DEF DrivesInv, TargetsAt, Drives!NoJump, Followed, Settled, Near

-----------------------------------------------------------------------------
(* The PTP stack.                                                          *)

(* The device is one of the plans; only its traffic and failures go down.  *)
PlanAt ==
    /\ plan \in Ptp!PlanTypes
    /\ \E q \in Plans : /\ plan.ep = q.ep /\ plan.br = q.br /\ plan.flags = q.flags
                        /\ plan.hardware_id = q.hardware_id

(* What TypeOK does not bound.                                             *)
StackShape ==
    /\ setup \in [port : Nat \ {0}, step : 1..9] /\ setup.step <= Ptp!PortSteps
    /\ frames \in [Ptp!AllPorts \X {"rx", "ptp"} -> Nat] /\ stamps \in [Ptp!AllPorts -> Seq(Nat)]
    /\ mqueue \in [Ptp!Tasks -> Seq(Ptp!AllSockets)]
    /\ p_pc \in [Ptp!Tasks -> {"wait", "drain", "enable"}]
    /\ sock \in [Ptp!Tasks -> Ptp!AllSockets \cup {Ptp!None}]
    /\ deaf \subseteq Ptp!AllSockets

(* The steps of port_genavb_setup_sockets() for a kind of socket, those    *)
(* that it does not have beyond the last.                                  *)
OpenStep(k) == IF k = "tx" THEN 1 ELSE IF k = "rx" THEN 2 ELSE IF k = "ts" THEN 5 ELSE 7
HookStep(k) == IF k = "tx" THEN 10 ELSE IF k = "rx" THEN 3 ELSE IF k = "ts" THEN 6 ELSE 8
MarkStep(k) == IF k = "tx" THEN 1 ELSE IF k = "rx" THEN 4 ELSE IF k = "ts" THEN 6 ELSE 9

(* What is set up are the sockets the steps of which are past.             *)
Past(j, k) == j < setup.port \/ (j = setup.port /\ k < setup.step)
StepDone(s, k) == k <= Ptp!PortSteps /\ \E j \in 1..Len(Ptp!Ports) : s[1] = Ptp!Ports[j] /\ Past(j, k)
SetupAt == dev # "freed" => \A s \in Ptp!AllSockets :
    /\ s \in open <=> StepDone(s, OpenStep(s[2]))
    /\ s \in hooked <=> StepDone(s, HookStep(s[2]))
    /\ s \in opened <=> StepDone(s, MarkStep(s[2]))

(* What a failed port_genavb_init() leaves.                                *)
LeftOpen == dev = "freed" => \A s \in hooked : s[1] \in Ptp!Range(plan.ep) /\ Ptp!HasPtp

(* A task at work has a socket of its own, which is not armed.             *)
TasksAt == \A t \in Ptp!Tasks :
    /\ p_pc[t] = "wait" <=> sock[t] = Ptp!None
    /\ p_pc[t] # "wait" => /\ dev = "up" /\ Ptp!ServedBy(sock[t]) = t
                           /\ sock[t] \in hooked \ (armed \cup deaf)

(* One event of a socket is queued at most, and only when it is not armed. *)
QueuesAt == dev # "freed" => \A t \in Ptp!Tasks :
    /\ \A j, k \in 1..Len(mqueue[t]) : mqueue[t][j] = mqueue[t][k] => j = k
    /\ \A k \in 1..Len(mqueue[t]) :
        /\ mqueue[t][k] \in hooked \ (armed \cup deaf) /\ Ptp!ServedBy(mqueue[t][k]) = t
        /\ mqueue[t][k] # sock[t]

(* No socket is forgotten.                                                 *)
Queued(s) == \E k \in 1..Len(mqueue[Ptp!ServedBy(s)]) : mqueue[Ptp!ServedBy(s)][k] = s
NoneForgotten ==
    /\ armed \cap deaf = {} /\ (dev # "up" => deaf = {})
    /\ dev # "freed" /\ p_fault = "none" =>
        \A s \in hooked \ deaf : s \in armed \/ Queued(s) \/ sock[Ptp!ServedBy(s)] = s

StackInv ==
    /\ PlanAt /\ Ptp!TypeOK /\ StackShape /\ SetupAt /\ LeftOpen /\ Ptp!NoFault
    /\ TasksAt /\ QueuesAt /\ NoneForgotten /\ Ptp!StampsAreThose

(* The names of the two queues' sockets.                                   *)
LEMMA Sockets ==
    ASSUME NEW s \in Ptp!AllSockets
    PROVE  /\ s[1] \in Ptp!AllPorts /\ s[2] \in {"tx", "rx", "ts", "ptp"} /\ s = <<s[1], s[2]>>
           /\ s # Ptp!None /\ Ptp!ServedBy(s) \in Ptp!Tasks
           /\ Ptp!ServedBy(s) = "ts" <=> s[2] = "ts"
BY DEF Ptp!AllSockets, Ptp!None, Ptp!ServedBy, Ptp!Tasks

(* The device's ports.                                                     *)
LEMMA PortsAre ==
    ASSUME Ptp!PtpAssumption, PlanAt
    PROVE  /\ Ptp!Ports \in Seq(Ptp!AllPorts) /\ Len(Ptp!Ports) \in Nat
           /\ 2 * Len(Ptp!Ports) <= Depth
           /\ plan.ep \in Seq(Ptp!AllPorts) /\ plan.br \in Seq(Ptp!AllPorts)
           /\ \A j, k \in 1..Len(Ptp!Ports) : Ptp!Ports[j] = Ptp!Ports[k] => j = k
           /\ \A j \in 1..Len(Ptp!Ports) : Ptp!Ports[j] \in Ptp!AllPorts
           /\ \A j \in 1..Len(Ptp!Ports) :
                Ptp!Ports[j] \in Ptp!Range(plan.ep) \/ Ptp!Ports[j] \in Ptp!Range(plan.br)
           /\ plan.hardware_id \in [Ptp!AllPorts -> Nat] /\ Ptp!PortSteps \in {4, 9}
<1>1. PICK q \in Plans : plan.ep = q.ep /\ plan.br = q.br
  BY DEF PlanAt
<1>2. /\ plan.ep \in Seq(Ptp!AllPorts) /\ plan.br \in Seq(Ptp!AllPorts)
      /\ plan.hardware_id \in [Ptp!AllPorts -> Nat]
  BY DEF PlanAt, Ptp!PlanTypes
<1>3. Ptp!Ports = Ptp!PortsOf(q)
  BY <1>1 DEF Ptp!Ports, Ptp!PortsOf
<1>4. Ptp!IsInjective(Ptp!Ports) /\ 2 * Len(Ptp!Ports) <= Depth
  BY <1>3 DEF Ptp!PtpAssumption
<1>5. Ptp!Ports \in Seq(Ptp!AllPorts)
  BY <1>2 DEF Ptp!Ports, Ptp!PortsOf
<1>6. Len(Ptp!Ports) \in Nat /\ DOMAIN Ptp!Ports = 1..Len(Ptp!Ports)
  BY <1>5
<1>7. \A j, k \in 1..Len(Ptp!Ports) : Ptp!Ports[j] = Ptp!Ports[k] => j = k
  BY <1>4, <1>6 DEF Ptp!IsInjective
<1>8. ASSUME NEW j \in 1..Len(Ptp!Ports)
      PROVE  Ptp!Ports[j] \in Ptp!Range(plan.ep) \/ Ptp!Ports[j] \in Ptp!Range(plan.br)
  <2>1. Len(plan.ep) \in Nat /\ Len(plan.br) \in Nat /\ Len(Ptp!Ports) = Len(plan.ep) + Len(plan.br)
    BY <1>2 DEF Ptp!Ports, Ptp!PortsOf
  <2>2. CASE j <= Len(plan.ep)
    <3>1. Ptp!Ports[j] = plan.ep[j] /\ j \in DOMAIN plan.ep
      BY <1>2, <2>1, <2>2 DEF Ptp!Ports, Ptp!PortsOf
    <3> QED BY <3>1 DEF Ptp!Range
  <2>3. CASE ~(j <= Len(plan.ep))
    <3>1. Ptp!Ports[j] = plan.br[j - Len(plan.ep)] /\ j - Len(plan.ep) \in DOMAIN plan.br
      <4>1. j - Len(plan.ep) \in 1..Len(plan.br) /\ j > Len(plan.ep) /\ j <= Len(plan.ep) + Len(plan.br)
        <5> DEFINE a == Len(plan.ep)
                   b == Len(plan.br)
                   c == Len(Ptp!Ports)
        <5>1. a \in Nat /\ b \in Nat /\ c = a + b /\ j \in 1..c /\ ~(j <= a)
          BY <2>1, <2>3
        <5> HIDE DEF a, b, c
        <5>2. j - a \in 1..b /\ j > a /\ j <= a + b
          BY <5>1
        <5> QED BY <5>2 DEF a, b
      <4>2. (plan.ep \o plan.br)[j] = plan.br[j - Len(plan.ep)]
        BY <1>2, <2>1, <4>1, ConcatProperties
      <4> QED BY <1>2, <4>1, <4>2 DEF Ptp!Ports, Ptp!PortsOf
    <3> QED BY <3>1 DEF Ptp!Range
  <2> QED BY <2>2, <2>3
<1>9. Ptp!PortSteps \in {4, 9}
  BY DEF Ptp!PortSteps
<1> QED BY <1>2, <1>4, <1>5, <1>6, <1>7, <1>8, <1>9

(* What is to be done at a step of port_genavb_setup_sockets().            *)
LEMMA DriveStepsAre ==
    ASSUME NEW k \in 1..9
    PROVE  LET op == Ptp!SocketSteps[k][1]
               kind == Ptp!SocketSteps[k][2] IN
           /\ kind \in {"tx", "rx", "ts", "ptp"} /\ op \in {"open", "hook", "link"}
           /\ op = "open" <=> k = OpenStep(kind)
           /\ op = "hook" <=> k = HookStep(kind)
           /\ Ptp!MarksOpened(k) <=> k = MarkStep(kind)
           /\ \A x \in {"tx", "rx", "ts", "ptp"} : k \in {OpenStep(x), HookStep(x), MarkStep(x)} => x = kind
           /\ op = "link" => k = HookStep(kind) + 1 /\ k = MarkStep(kind)
<1>1. k \in {1, 2, 3, 4, 5, 6, 7, 8, 9}
  OBVIOUS
<1>2. /\ Ptp!SocketSteps[1] = <<"open", "tx">> /\ Ptp!SocketSteps[2] = <<"open", "rx">>
      /\ Ptp!SocketSteps[3] = <<"hook", "rx">> /\ Ptp!SocketSteps[4] = <<"link", "rx">>
      /\ Ptp!SocketSteps[5] = <<"open", "ts">> /\ Ptp!SocketSteps[6] = <<"hook", "ts">>
      /\ Ptp!SocketSteps[7] = <<"open", "ptp">> /\ Ptp!SocketSteps[8] = <<"hook", "ptp">>
      /\ Ptp!SocketSteps[9] = <<"link", "ptp">>
  BY DEF Ptp!SocketSteps
<1>3. /\ Ptp!SocketSteps[1][2] = "tx" /\ Ptp!SocketSteps[2][2] = "rx"
      /\ Ptp!SocketSteps[3][2] = "rx" /\ Ptp!SocketSteps[4][2] = "rx"
      /\ Ptp!SocketSteps[5][2] = "ts" /\ Ptp!SocketSteps[6][2] = "ts"
      /\ Ptp!SocketSteps[7][2] = "ptp" /\ Ptp!SocketSteps[8][2] = "ptp"
      /\ Ptp!SocketSteps[9][2] = "ptp"
  BY <1>2
<1>4. Ptp!MarksOpened(k) <=> k \in {1, 4, 6, 9}
  <2>1. CASE k \in {1, 4, 6, 9}
    <3>1. ASSUME NEW l \in (k + 1)..9 PROVE Ptp!SocketSteps[l][2] # Ptp!SocketSteps[k][2]
      <4>1. l \in {2, 3, 4, 5, 6, 7, 8, 9}
        OBVIOUS
      <4> QED BY <1>3, <2>1, <4>1
    <3> QED BY <2>1, <3>1 DEF Ptp!MarksOpened
  <2>2. CASE k \in {2, 3, 5, 7, 8}
    <3>1. k + 1 \in (k + 1)..9 /\ Ptp!SocketSteps[k + 1][2] = Ptp!SocketSteps[k][2]
      BY <1>3, <2>2
    <3> QED BY <2>2, <3>1 DEF Ptp!MarksOpened
  <2> QED BY <1>1, <2>1, <2>2
<1> QED BY <1>1, <1>2, <1>3, <1>4 DEF OpenStep, HookStep, MarkStep

LEMMA UpTo == ASSUME NEW m \in Nat PROVE IsFiniteSet(1..m) /\ Cardinality(1..m) = m
<1> DEFINE a == 1
           b == m
<1>1. a \in Int /\ b \in Int
  OBVIOUS
<1> HIDE DEF a, b
<1>2. IsFiniteSet(a..b) /\ Cardinality(a..b) = IF a > b THEN 0 ELSE b - a + 1
  BY <1>1, FS_Interval, Zenon
<1>3. (IF a > b THEN 0 ELSE b - a + 1) = m
  BY DEF a, b
<1> QED BY <1>2, <1>3 DEF a, b

(* A queue holds at most the sockets its task serves, and has room for the *)
(* event of one that is not in it.                                         *)
LEMMA RoomForOne ==
    ASSUME Ptp!PtpAssumption, PlanAt, NEW t \in Ptp!Tasks, NEW Q \in Seq(Ptp!AllSockets),
           NEW s \in Ptp!AllSockets, Ptp!ServedBy(s) = t, s[2] # "tx",
           \E j \in 1..Len(Ptp!Ports) : s[1] = Ptp!Ports[j],
           \A j, k \in 1..Len(Q) : Q[j] = Q[k] => j = k,
           \A k \in 1..Len(Q) : /\ Ptp!ServedBy(Q[k]) = t /\ Q[k][2] # "tx" /\ Q[k] # s
                                /\ \E j \in 1..Len(Ptp!Ports) : Q[k][1] = Ptp!Ports[j]
    PROVE  Len(Q) < Depth
<1> DEFINE L == Len(Ptp!Ports)
           other == IF t = "ts" THEN "ts" ELSE "ptp"
           S == {x \in Ptp!AllSockets : /\ Ptp!ServedBy(x) = t /\ x[2] # "tx"
                                        /\ \E j \in 1..L : x[1] = Ptp!Ports[j]}
           SocketAt(j) == IF j <= L THEN <<Ptp!Ports[j], t>> ELSE <<Ptp!Ports[j - L], other>>
           g == [j \in 1..(2 * L) |-> SocketAt(j)]
<1>1. L \in Nat /\ 2 * L <= Depth /\ Depth \in Nat /\ (\A j \in 1..L : Ptp!Ports[j] \in Ptp!AllPorts)
  BY PortsAre DEF Ptp!PtpAssumption
<1>2. t \in {"rx", "ts"}
  BY DEF Ptp!Tasks
<1> HIDE DEF L
<1>3. g \in Surjection(1..(2 * L), S)
  <2>1. ASSUME NEW j \in 1..(2 * L) PROVE SocketAt(j) \in S
    <3>1. CASE j <= L
      <4>1. SocketAt(j) = <<Ptp!Ports[j], t>> /\ j \in 1..L
        BY <1>1, <3>1
      <4>2. <<Ptp!Ports[j], t>> \in Ptp!AllSockets
        BY <1>1, <1>2, <4>1 DEF Ptp!AllSockets
      <4>3. Ptp!ServedBy(<<Ptp!Ports[j], t>>) = t /\ t # "tx"
        BY <1>2 DEF Ptp!ServedBy
      <4> QED BY <4>1, <4>2, <4>3
    <3>2. CASE ~(j <= L)
      <4>1. SocketAt(j) = <<Ptp!Ports[j - L], other>> /\ j - L \in 1..L
        BY <1>1, <3>2
      <4>2. <<Ptp!Ports[j - L], other>> \in Ptp!AllSockets
        BY <1>1, <1>2, <4>1 DEF Ptp!AllSockets
      <4>3. Ptp!ServedBy(<<Ptp!Ports[j - L], other>>) = t /\ other # "tx"
        BY <1>2 DEF Ptp!ServedBy
      <4> QED BY <4>1, <4>2, <4>3
    <3> QED BY <3>1, <3>2
  <2>2. ASSUME NEW x \in S PROVE \E j \in 1..(2 * L) : SocketAt(j) = x
    <3>1. PICK j \in 1..L : x[1] = Ptp!Ports[j]
      OBVIOUS
    <3>2. x = <<x[1], x[2]>> /\ x[2] \in {"rx", "ts", "ptp"} /\ Ptp!ServedBy(x) = t
      BY Sockets
    <3>3. x[2] = t \/ x[2] = other
      BY <1>2, <3>2 DEF Ptp!ServedBy
    <3>4. CASE x[2] = t
      <4>1. j \in 1..(2 * L) /\ SocketAt(j) = <<Ptp!Ports[j], t>>
        BY <1>1
      <4> QED BY <3>1, <3>2, <3>4, <4>1
    <3>5. CASE x[2] = other
      <4>1. j + L \in 1..(2 * L) /\ SocketAt(j + L) = <<Ptp!Ports[j], other>>
        <5>1. j + L \in 1..(2 * L) /\ ~(j + L <= L) /\ (j + L) - L = j
          BY <1>1
        <5> QED BY <5>1
      <4> QED BY <3>1, <3>2, <3>5, <4>1
    <3> QED BY <3>3, <3>4, <3>5
  <2> HIDE DEF SocketAt, S
  <2>3. g \in [1..(2 * L) -> S]
    BY <2>1
  <2> QED BY <2>2, <2>3 DEF Surjection
<1>4. IsFiniteSet(S) /\ Cardinality(S) <= 2 * L
  <2>1. IsFiniteSet(1..(2 * L)) /\ Cardinality(1..(2 * L)) = 2 * L
    <3>1. 2 * L \in Nat
      BY <1>1
    <3> QED BY <3>1, UpTo
  <2> HIDE DEF S, g
  <2>2. IsFiniteSet(S) /\ Cardinality(S) <= Cardinality(1..(2 * L))
    BY <1>3, <2>1, FS_Surjection
  <2> QED BY <2>1, <2>2
<1>5. s \in S
  BY DEF L
<1>6. Q \in Injection(1..Len(Q), S \ {s})
  <2>1. ASSUME NEW k \in 1..Len(Q) PROVE Q[k] \in S \ {s}
    <3>1. Q[k] \in Ptp!AllSockets
      OBVIOUS
    <3> QED BY <3>1 DEF L
  <2> HIDE DEF S
  <2>2. Q \in [1..Len(Q) -> S \ {s}]
    <3>2. Q = [k \in 1..Len(Q) |-> Q[k]]
      <4>1. Q \in [1..Len(Q) -> Ptp!AllSockets]
        OBVIOUS
      <4> QED BY <4>1, Zenon
    <3> DEFINE T == S \ {s}
               D == 1..Len(Q)
    <3>1. \A k \in D : Q[k] \in T
      BY <2>1
    <3> HIDE DEF T, D
    <3>3. [k \in D |-> Q[k]] \in [D -> T]
      BY <3>1
    <3>4. Q = [k \in D |-> Q[k]]
      BY <3>2, Zenon DEF D
    <3>5. Q \in [D -> T]
      BY <3>3, <3>4, Zenon
    <3> QED BY <3>5 DEF T, D
  <2>3. IsInjective(Q)
    <3>1. DOMAIN Q = 1..Len(Q)
      OBVIOUS
    <3> QED BY <3>1 DEF IsInjective
  <2> QED BY <2>2, <2>3, Zenon DEF Injection
<1> HIDE DEF S, g
<1>7. IsFiniteSet(S \ {s}) /\ Cardinality(S \ {s}) = Cardinality(S) - 1
  BY <1>4, <1>5, FS_RemoveElement
<1>8. Cardinality(1..Len(Q)) <= Cardinality(S \ {s})
  BY <1>6, <1>7, FS_Injection
<1>9. Cardinality(1..Len(Q)) = Len(Q) /\ Len(Q) \in Nat /\ Cardinality(S) \in Nat
  <2>1. Len(Q) \in Nat
    OBVIOUS
  <2> QED BY <1>4, <2>1, UpTo, FS_CardinalityType
<1> QED BY <1>1, <1>4, <1>7, <1>8, <1>9

(* The steps.                                                              *)
LEMMA StackSteps ==
    ASSUME [Ptp!Next]_ptpVars
    PROVE  \/ Ptp!SetUpStep \/ Ptp!CreateTasks \/ Ptp!SetUpFails \/ Ptp!HostSend
           \/ \E s \in Ptp!AllSockets : Ptp!Callback(s)
           \/ \E s \in DOMAIN frames : Ptp!Arrive(s)
           \/ \E t \in Ptp!Tasks : Ptp!GetEvent(t) \/ Ptp!Drained(t) \/ Ptp!Enable(t)
           \/ Ptp!TakeFrame \/ Ptp!RxFails \/ Ptp!TakeStamp
           \/ UNCHANGED ptpVars
BY DEF Ptp!Next, Ptp!SetUp, Ptp!Task

SamePlan == /\ plan'.ep = plan.ep /\ plan'.br = plan.br /\ plan'.flags = plan.flags
            /\ plan'.hardware_id = plan.hardware_id

LEMMA SamePlanMeans ==
    ASSUME SamePlan
    PROVE  /\ Ptp!Ports' = Ptp!Ports /\ Ptp!PortSteps' = Ptp!PortSteps /\ (Ptp!HasPtp' <=> Ptp!HasPtp)
BY DEF SamePlan, Ptp!Ports, Ptp!PortsOf, Ptp!PortSteps, Ptp!HasPtp

LEMMA MayFailKeeps ==
    ASSUME PlanAt, Ptp!MayFail
    PROVE  plan' \in Ptp!PlanTypes /\ SamePlan
<1>1. plan.fails \in Nat /\ plan.fails > 0 /\ plan' = [plan EXCEPT !.fails = plan.fails - 1]
  BY DEF PlanAt, Ptp!PlanTypes, Ptp!MayFail
<1>2. plan.fails - 1 \in Nat
  BY <1>1
<1> QED BY <1>1, <1>2 DEF PlanAt, Ptp!PlanTypes, SamePlan

LEMMA HostKeeps ==
    ASSUME PlanAt, Ptp!HostSend
    PROVE  plan' \in Ptp!PlanTypes /\ SamePlan
<1>1. /\ plan.host \in Seq([tag : {"dsa", "vlan", "meta"}, port : Nat, id : Nat, short : BOOLEAN])
      /\ plan.host # <<>> /\ plan.fails \in Nat
  BY DEF PlanAt, Ptp!PlanTypes, Ptp!HostSend
<1>2. Tail(plan.host) \in Seq([tag : {"dsa", "vlan", "meta"}, port : Nat, id : Nat, short : BOOLEAN])
  BY <1>1
<1>3. \/ plan' = [plan EXCEPT !.host = Tail(plan.host)]
      \/ /\ plan.fails > 0
         /\ plan' = [plan EXCEPT !.host = Tail(plan.host), !.fails = plan.fails - 1]
  BY DEF Ptp!HostSend
<1>4. plan.fails > 0 => plan.fails - 1 \in Nat
  BY <1>1
<1> QED BY <1>2, <1>3, <1>4 DEF PlanAt, Ptp!PlanTypes, SamePlan

LEMMA ArriveKeeps ==
    ASSUME PlanAt, NEW s, Ptp!Arrive(s)
    PROVE  plan' \in Ptp!PlanTypes /\ SamePlan
<1>1. /\ plan.arrivals \in Nat /\ plan.arrivals > 0
      /\ plan' = [plan EXCEPT !.arrivals = plan.arrivals - 1]
  BY DEF PlanAt, Ptp!PlanTypes, Ptp!Arrive
<1>2. plan.arrivals - 1 \in Nat
  BY <1>1
<1> QED BY <1>1, <1>2 DEF PlanAt, Ptp!PlanTypes, SamePlan

LEMMA PlanKept ==
    ASSUME PlanAt, [Ptp!Next]_ptpVars
    PROVE  PlanAt' /\ SamePlan
<1>1. plan' \in Ptp!PlanTypes /\ SamePlan
  <2>1. CASE UNCHANGED plan
    BY <2>1 DEF SamePlan, PlanAt
  <2>2. CASE Ptp!MayFail
    BY <2>2, MayFailKeeps
  <2>3. CASE Ptp!HostSend
    BY <2>3, HostKeeps
  <2>4. CASE \E s \in DOMAIN frames : Ptp!Arrive(s)
    BY <2>4, ArriveKeeps
  <2>5. UNCHANGED plan \/ Ptp!MayFail \/ Ptp!HostSend \/ (\E s \in DOMAIN frames : Ptp!Arrive(s))
    BY StackSteps DEF Ptp!SetUpStep, Ptp!CreateTasks, Ptp!SetUpFails, Ptp!Callback, Ptp!GetEvent,
       Ptp!Drained, Ptp!Enable, Ptp!TakeFrame, Ptp!RxFails, Ptp!TakeStamp, ptpVars
  <2> QED BY <2>1, <2>2, <2>3, <2>4, <2>5
<1> QED BY <1>1 DEF PlanAt, SamePlan

LEMMA HeadIsOne == ASSUME NEW S, NEW q \in Seq(S), q # <<>> PROVE Head(q) \in S
OBVIOUS

(* The shape of the state.                                                 *)
LEMMA SetupShapeKept ==
    ASSUME Ptp!PtpAssumption, PlanAt, StackShape, [Ptp!Next]_ptpVars
    PROVE  setup' \in [port : Nat \ {0}, step : 1..9] /\ setup'.step <= Ptp!PortSteps'
<1>1. Ptp!PortSteps' = Ptp!PortSteps /\ Ptp!PortSteps \in {4, 9}
  BY PlanKept, SamePlanMeans, PortsAre
<1>2. setup.port \in Nat \ {0} /\ setup.step \in 1..9 /\ setup.step <= Ptp!PortSteps
  BY DEF StackShape
<1>3. CASE Ptp!SetUpStep
  <2>1. CASE setup.step < Ptp!PortSteps
    <3>1. setup' = [port |-> setup.port, step |-> setup.step + 1]
      BY <1>3, <2>1 DEF Ptp!SetUpStep
    <3>2. setup.step + 1 \in 1..9 /\ setup.step + 1 <= Ptp!PortSteps
      BY <1>1, <1>2, <2>1
    <3> QED BY <1>1, <1>2, <3>1, <3>2
  <2>2. CASE ~(setup.step < Ptp!PortSteps)
    <3>1. setup' = [port |-> setup.port + 1, step |-> 1]
      BY <1>3, <2>2 DEF Ptp!SetUpStep
    <3>2. setup.port + 1 \in Nat \ {0} /\ 1 \in 1..9 /\ 1 <= Ptp!PortSteps
      BY <1>1, <1>2
    <3> QED BY <1>1, <3>1, <3>2
  <2> QED BY <2>1, <2>2
<1>4. CASE UNCHANGED setup
  BY <1>1, <1>4 DEF StackShape
<1>5. Ptp!SetUpStep \/ UNCHANGED setup
  BY StackSteps DEF Ptp!CreateTasks, Ptp!SetUpFails, Ptp!Callback, Ptp!GetEvent, Ptp!Arrive, Ptp!HostSend,
     Ptp!Drained, Ptp!Enable, Ptp!TakeFrame, Ptp!RxFails, Ptp!TakeStamp, ptpVars, Ptp!sockets
<1> QED BY <1>3, <1>4, <1>5

(* The task at work, and what it is at.                                    *)
LEMMA AtWork ==
    ASSUME StackShape, TasksAt, Ptp!TypeOK, NEW t \in Ptp!Tasks, p_pc[t] # "wait"
    PROVE  /\ sock[t] \in Ptp!AllSockets /\ sock[t][1] \in Ptp!AllPorts /\ sock[t] = <<sock[t][1], sock[t][2]>>
           /\ t = "ts" <=> sock[t][2] = "ts"
           /\ dev = "up" /\ sock[t] \in hooked /\ Ptp!ServedBy(sock[t]) = t
<1>1. sock[t] \in hooked /\ dev = "up" /\ Ptp!ServedBy(sock[t]) = t
  BY DEF TasksAt
<1>2. sock[t] \in Ptp!AllSockets
  BY <1>1 DEF Ptp!TypeOK
<1> QED BY <1>1, <1>2, Sockets

LEMMA FramesShapeKept ==
    ASSUME StackShape, TasksAt, Ptp!TypeOK, [Ptp!Next]_ptpVars
    PROVE  frames' \in [Ptp!AllPorts \X {"rx", "ptp"} -> Nat]
<1> DEFINE S == Ptp!AllPorts \X {"rx", "ptp"}
<1>1. frames \in [S -> Nat]
  BY DEF StackShape
<1>2. CASE UNCHANGED frames
  BY <1>1, <1>2
<1>3. ASSUME NEW s \in DOMAIN frames, Ptp!Arrive(s)
      PROVE  frames' \in [S -> Nat]
  BY <1>1, <1>3 DEF Ptp!Arrive
<1>4. ASSUME p_pc["rx"] = "drain", Ptp!Waiting(sock["rx"]),
             frames' = [frames EXCEPT ![sock["rx"]] = @ - 1]
      PROVE  frames' \in [S -> Nat]
  <2>1. "rx" \in Ptp!Tasks
    BY DEF Ptp!Tasks
  <2>2. sock["rx"][2] # "ts"
    BY <1>4, <2>1, AtWork
  <2>3. frames[sock["rx"]] > 0
    BY <1>4, <2>2 DEF Ptp!Waiting
  <2>4. sock["rx"] \in S => frames[sock["rx"]] - 1 \in Nat
    BY <1>1, <2>3
  <2>5. DOMAIN frames = S /\ frames' = [frames EXCEPT ![sock["rx"]] = frames[sock["rx"]] - 1]
    BY <1>1, <1>4
  <2> HIDE DEF S
  <2> QED BY <1>1, <2>4, <2>5
<1>5. \/ UNCHANGED frames \/ (\E s \in DOMAIN frames : Ptp!Arrive(s))
      \/ /\ p_pc["rx"] = "drain" /\ Ptp!Waiting(sock["rx"])
         /\ frames' = [frames EXCEPT ![sock["rx"]] = @ - 1]
  BY StackSteps DEF Ptp!SetUpStep, Ptp!CreateTasks, Ptp!SetUpFails, Ptp!Callback, Ptp!GetEvent,
     Ptp!HostSend, Ptp!Drained, Ptp!Enable, Ptp!TakeFrame, Ptp!RxFails, Ptp!TakeStamp, ptpVars
<1> QED BY <1>2, <1>3, <1>4, <1>5

LEMMA StampsShapeKept ==
    ASSUME PlanAt, StackShape, TasksAt, Ptp!TypeOK, [Ptp!Next]_ptpVars
    PROVE  stamps' \in [Ptp!AllPorts -> Seq(Nat)]
<1>1. stamps \in [Ptp!AllPorts -> Seq(Nat)]
  BY DEF StackShape
<1>2. CASE UNCHANGED stamps
  BY <1>1, <1>2
<1>3. CASE Ptp!TakeStamp
  <2>1. "ts" \in Ptp!Tasks
    BY DEF Ptp!Tasks
  <2>2. sock["ts"][1] \in Ptp!AllPorts /\ sock["ts"][2] = "ts"
    BY <1>3, <2>1, AtWork DEF Ptp!TakeStamp
  <2>3. stamps[sock["ts"][1]] # <<>>
    BY <1>3, <2>2 DEF Ptp!TakeStamp, Ptp!Waiting
  <2>4. stamps' = [stamps EXCEPT ![sock["ts"][1]] = Tail(stamps[sock["ts"][1]])]
    BY <1>3 DEF Ptp!TakeStamp
  <2>5. stamps[sock["ts"][1]] \in Seq(Nat)
    BY <1>1, <2>2
  <2>6. Tail(stamps[sock["ts"][1]]) \in Seq(Nat)
    BY <2>3, <2>5
  <2> QED BY <1>1, <2>4, <2>6
<1>4. CASE Ptp!HostSend /\ ~UNCHANGED stamps
  <2>1. Head(plan.host).id \in Nat
    <3>1. /\ plan.host \in Seq([tag : {"dsa", "vlan", "meta"}, port : Nat, id : Nat, short : BOOLEAN])
          /\ plan.host # <<>>
      BY <1>4 DEF PlanAt, Ptp!PlanTypes, Ptp!HostSend
    <3>2. Head(plan.host) \in [tag : {"dsa", "vlan", "meta"}, port : Nat, id : Nat, short : BOOLEAN]
      BY <3>1, HeadIsOne
    <3> QED BY <3>2
  <2> DEFINE f == Head(plan.host)
             sends == {s \in Ptp!SentOn(f) : s[2] = "ts"}
  <2>2. stamps' = [p \in Ptp!AllPorts |->
                     IF <<p, "ts">> \in sends THEN Append(stamps[p], f.id) ELSE stamps[p]]
    BY <1>4 DEF Ptp!HostSend
  <2> HIDE DEF f, sends
  <2>3. f.id \in Nat
    BY <2>1 DEF f
  <2>4. ASSUME NEW p \in Ptp!AllPorts
        PROVE  (IF <<p, "ts">> \in sends THEN Append(stamps[p], f.id) ELSE stamps[p]) \in Seq(Nat)
    <3>1. stamps[p] \in Seq(Nat)
      BY <1>1
    <3> QED BY <2>3, <3>1
  <2> QED BY <2>2, <2>4
<1>5. UNCHANGED stamps \/ Ptp!TakeStamp \/ (Ptp!HostSend /\ ~UNCHANGED stamps)
  BY StackSteps DEF Ptp!SetUpStep, Ptp!CreateTasks, Ptp!SetUpFails, Ptp!Callback, Ptp!GetEvent,
     Ptp!Arrive, Ptp!Drained, Ptp!Enable, Ptp!TakeFrame, Ptp!RxFails, ptpVars
<1> QED BY <1>2, <1>3, <1>4, <1>5

LEMMA QueueShapeKept ==
    ASSUME Ptp!PtpAssumption, StackShape, Ptp!TypeOK, [Ptp!Next]_ptpVars
    PROVE  /\ mqueue' \in [Ptp!Tasks -> Seq(Ptp!AllSockets)]
           /\ \A t \in Ptp!Tasks : Len(mqueue'[t]) <= Depth
<1>1. mqueue \in [Ptp!Tasks -> Seq(Ptp!AllSockets)] /\ (\A t \in Ptp!Tasks : Len(mqueue[t]) <= Depth)
  BY DEF StackShape, Ptp!TypeOK
<1>2. CASE UNCHANGED mqueue
  BY <1>1, <1>2
<1>3. ASSUME NEW s \in Ptp!AllSockets,
             LET t == Ptp!ServedBy(s) IN
             Len(mqueue[t]) < Depth /\ mqueue' = [mqueue EXCEPT ![t] = Append(@, s)]
      PROVE  /\ mqueue' \in [Ptp!Tasks -> Seq(Ptp!AllSockets)]
             /\ \A t \in Ptp!Tasks : Len(mqueue'[t]) <= Depth
  <2> DEFINE t == Ptp!ServedBy(s)
  <2>1. t \in Ptp!Tasks /\ Depth \in Nat
    BY Sockets DEF Ptp!PtpAssumption
  <2>2. mqueue[t] \in Seq(Ptp!AllSockets) /\ Len(mqueue[t]) < Depth
    BY <1>1, <1>3, <2>1
  <2>3. Append(mqueue[t], s) \in Seq(Ptp!AllSockets) /\ Len(Append(mqueue[t], s)) <= Depth
    BY <2>1, <2>2
  <2>4. mqueue' = [mqueue EXCEPT ![t] = Append(mqueue[t], s)]
    BY <1>3
  <2> HIDE DEF t
  <2> QED BY <1>1, <2>1, <2>3, <2>4
<1>4. ASSUME NEW t \in Ptp!Tasks, Ptp!GetEvent(t)
      PROVE  /\ mqueue' \in [Ptp!Tasks -> Seq(Ptp!AllSockets)]
             /\ \A u \in Ptp!Tasks : Len(mqueue'[u]) <= Depth
  <2>1. mqueue[t] # <<>> /\ mqueue' = [mqueue EXCEPT ![t] = Tail(mqueue[t])]
    BY <1>4 DEF Ptp!GetEvent
  <2>2. mqueue[t] \in Seq(Ptp!AllSockets) /\ Len(mqueue[t]) <= Depth /\ Depth \in Nat
    BY <1>1 DEF Ptp!PtpAssumption
  <2>3. Tail(mqueue[t]) \in Seq(Ptp!AllSockets) /\ Len(Tail(mqueue[t])) <= Depth
    BY <2>1, <2>2
  <2> QED BY <1>1, <2>1, <2>3
<1>5. \/ UNCHANGED mqueue \/ \E t \in Ptp!Tasks : Ptp!GetEvent(t)
      \/ \E s \in Ptp!AllSockets : LET t == Ptp!ServedBy(s) IN
             Len(mqueue[t]) < Depth /\ mqueue' = [mqueue EXCEPT ![t] = Append(@, s)]
  <2>1. ASSUME NEW s \in Ptp!AllSockets, Ptp!Callback(s)
        PROVE  \/ UNCHANGED mqueue
               \/ LET t == Ptp!ServedBy(s) IN
                  Len(mqueue[t]) < Depth /\ mqueue' = [mqueue EXCEPT ![t] = Append(@, s)]
    BY <2>1 DEF Ptp!Callback
  <2>2. (\E s \in Ptp!AllSockets : Ptp!Callback(s)) \/ (\E t \in Ptp!Tasks : Ptp!GetEvent(t)) \/ UNCHANGED mqueue
    BY StackSteps DEF Ptp!SetUpStep, Ptp!CreateTasks, Ptp!SetUpFails, Ptp!HostSend,
       Ptp!Arrive, Ptp!Drained, Ptp!Enable, Ptp!TakeFrame, Ptp!TakeStamp, Ptp!RxFails, ptpVars
  <2> QED BY <2>1, <2>2
<1> QED BY <1>2, <1>3, <1>4, <1>5

(* What a task does to its socket.                                         *)
LEMMA TaskMoves ==
    ASSUME [Ptp!Next]_ptpVars
    PROVE  \/ UNCHANGED <<p_pc, sock>>
           \/ \E t \in Ptp!Tasks :
                \/ Ptp!GetEvent(t)
                \/ Ptp!Enable(t)
                \/ /\ p_pc[t] = "drain" /\ p_pc' = [p_pc EXCEPT ![t] = "enable"]
                   /\ UNCHANGED <<sock, dev, hooked, armed, mqueue, deaf>>
<1>1. CASE \E t \in Ptp!Tasks : Ptp!Drained(t)
  BY <1>1 DEF Ptp!Drained, Ptp!Goto, Ptp!sockets, Ptp!history
<1>2. CASE Ptp!RxFails
  <2>1. "rx" \in Ptp!Tasks
    BY DEF Ptp!Tasks
  <2> QED BY <1>2, <2>1 DEF Ptp!RxFails, Ptp!Goto, Ptp!AfterError, Ptp!sockets, Ptp!history
<1>3. \/ UNCHANGED <<p_pc, sock>> \/ Ptp!RxFails
      \/ \E t \in Ptp!Tasks : Ptp!GetEvent(t) \/ Ptp!Enable(t) \/ Ptp!Drained(t)
  BY StackSteps DEF Ptp!SetUpStep, Ptp!CreateTasks, Ptp!SetUpFails, Ptp!HostSend, Ptp!Callback,
     Ptp!Arrive, Ptp!TakeFrame, Ptp!TakeStamp, ptpVars
<1> QED BY <1>1, <1>2, <1>3

LEMMA TaskShapeKept ==
    ASSUME StackShape, TasksAt, Ptp!TypeOK, [Ptp!Next]_ptpVars
    PROVE  /\ p_pc' \in [Ptp!Tasks -> {"wait", "drain", "enable"}]
           /\ sock' \in [Ptp!Tasks -> Ptp!AllSockets \cup {Ptp!None}]
           /\ deaf' \subseteq Ptp!AllSockets
<1>1. /\ p_pc \in [Ptp!Tasks -> {"wait", "drain", "enable"}]
      /\ sock \in [Ptp!Tasks -> Ptp!AllSockets \cup {Ptp!None}]
      /\ deaf \subseteq Ptp!AllSockets /\ mqueue \in [Ptp!Tasks -> Seq(Ptp!AllSockets)]
  BY DEF StackShape
<1>2. /\ p_pc' \in [Ptp!Tasks -> {"wait", "drain", "enable"}]
      /\ sock' \in [Ptp!Tasks -> Ptp!AllSockets \cup {Ptp!None}]
  <2>1. CASE UNCHANGED <<p_pc, sock>>
    BY <1>1, <2>1
  <2>2. ASSUME NEW t \in Ptp!Tasks, Ptp!GetEvent(t)
        PROVE  /\ p_pc' \in [Ptp!Tasks -> {"wait", "drain", "enable"}]
               /\ sock' \in [Ptp!Tasks -> Ptp!AllSockets \cup {Ptp!None}]
    <3>1. Head(mqueue[t]) \in Ptp!AllSockets
      BY <1>1, <2>2, HeadIsOne DEF Ptp!GetEvent
    <3> QED BY <1>1, <2>2, <3>1 DEF Ptp!GetEvent, Ptp!Goto
  <2>3. ASSUME NEW t \in Ptp!Tasks, Ptp!Enable(t)
        PROVE  /\ p_pc' \in [Ptp!Tasks -> {"wait", "drain", "enable"}]
               /\ sock' \in [Ptp!Tasks -> Ptp!AllSockets \cup {Ptp!None}]
    BY <1>1, <2>3 DEF Ptp!Enable, Ptp!Goto
  <2>4. ASSUME NEW t \in Ptp!Tasks, p_pc' = [p_pc EXCEPT ![t] = "enable"], UNCHANGED sock
        PROVE  /\ p_pc' \in [Ptp!Tasks -> {"wait", "drain", "enable"}]
               /\ sock' \in [Ptp!Tasks -> Ptp!AllSockets \cup {Ptp!None}]
    BY <1>1, <2>4
  <2> QED BY <2>1, <2>2, <2>3, <2>4, TaskMoves
<1>3. deaf' \subseteq Ptp!AllSockets
  <2>1. CASE UNCHANGED deaf
    BY <1>1, <2>1
  <2>2. ASSUME NEW t \in Ptp!Tasks, Ptp!Enable(t)
        PROVE  deaf' \subseteq Ptp!AllSockets
    <3>1. p_pc[t] # "wait" /\ deaf' \subseteq deaf \cup {sock[t]}
      BY <2>2 DEF Ptp!Enable
    <3> QED BY <1>1, <3>1, AtWork
  <2>3. UNCHANGED deaf \/ \E t \in Ptp!Tasks : Ptp!Enable(t)
    BY StackSteps DEF Ptp!SetUpStep, Ptp!CreateTasks, Ptp!SetUpFails, Ptp!HostSend, Ptp!Callback,
       Ptp!Arrive, Ptp!GetEvent, Ptp!Drained, Ptp!TakeFrame, Ptp!TakeStamp, Ptp!RxFails,
       ptpVars, Ptp!history
  <2> QED BY <2>1, <2>2, <2>3
<1> QED BY <1>2, <1>3

LEMMA StackShapeKept ==
    ASSUME Ptp!PtpAssumption, PlanAt, StackShape, TasksAt, Ptp!TypeOK, [Ptp!Next]_ptpVars
    PROVE  StackShape'
<1>1. setup' \in [port : Nat \ {0}, step : 1..9] /\ setup'.step <= Ptp!PortSteps'
  BY SetupShapeKept
<1>2. frames' \in [Ptp!AllPorts \X {"rx", "ptp"} -> Nat] /\ stamps' \in [Ptp!AllPorts -> Seq(Nat)]
  BY FramesShapeKept, StampsShapeKept
<1>3. mqueue' \in [Ptp!Tasks -> Seq(Ptp!AllSockets)]
  BY QueueShapeKept
<1> QED BY <1>1, <1>2, <1>3, TaskShapeKept DEF StackShape

(* A step of port_genavb_setup_sockets() makes its own step a past one.    *)
LEMMA PastGrows ==
    ASSUME Ptp!PtpAssumption, PlanAt, StackShape, Ptp!SetUpStep, NEW j \in Nat, NEW k \in Nat \ {0},
           k <= Ptp!PortSteps
    PROVE  Past(j, k)' <=> Past(j, k) \/ (j = setup.port /\ k = setup.step)
<1>1. setup.port \in Nat /\ setup.step \in Nat /\ setup.step <= Ptp!PortSteps /\ Ptp!PortSteps \in Nat
  BY PortsAre DEF StackShape
<1>2. CASE setup.step < Ptp!PortSteps
  <2>1. setup' = [port |-> setup.port, step |-> setup.step + 1]
    BY <1>2 DEF Ptp!SetUpStep
  <2>2. setup'.port = setup.port /\ setup'.step = setup.step + 1
    BY <2>1
  <2> QED BY <1>1, <2>2 DEF Past
<1>3. CASE ~(setup.step < Ptp!PortSteps)
  <2>1. setup' = [port |-> setup.port + 1, step |-> 1]
    BY <1>3 DEF Ptp!SetUpStep
  <2>2. setup'.port = setup.port + 1 /\ setup'.step = 1 /\ setup.step = Ptp!PortSteps
    BY <1>1, <1>3, <2>1
  <2> QED BY <1>1, <2>2 DEF Past
<1> QED BY <1>2, <1>3

LEMMA DoneGrows ==
    ASSUME Ptp!PtpAssumption, PlanAt, StackShape, Ptp!SetUpStep, NEW s, NEW k \in Nat \ {0}, UNCHANGED plan
    PROVE  StepDone(s, k)' <=> StepDone(s, k) \/ (s[1] = Ptp!Ports[setup.port] /\ k = setup.step)
<1>1. Ptp!Ports' = Ptp!Ports /\ Ptp!PortSteps' = Ptp!PortSteps
  BY SamePlanMeans DEF SamePlan
<1>2. setup.port \in 1..Len(Ptp!Ports) /\ setup.step <= Ptp!PortSteps
  <2>1. setup.port \in Nat \ {0} /\ setup.step <= Ptp!PortSteps
    BY DEF StackShape
  <2>2. setup.port <= Len(Ptp!Ports) /\ Len(Ptp!Ports) \in Nat
    BY PortsAre DEF Ptp!SetUpStep, Ptp!InSetup
  <2> QED BY <2>1, <2>2
<1>3. ASSUME k <= Ptp!PortSteps
      PROVE  \A j \in 1..Len(Ptp!Ports) : Past(j, k)' <=> Past(j, k) \/ (j = setup.port /\ k = setup.step)
  <2> TAKE j \in 1..Len(Ptp!Ports)
  <2>1. j \in Nat
    BY PortsAre
  <2> QED BY <1>3, <2>1, PastGrows
<1>4. StepDone(s, k)' <=> k <= Ptp!PortSteps /\ \E j \in 1..Len(Ptp!Ports) : s[1] = Ptp!Ports[j] /\ Past(j, k)'
  BY <1>1 DEF StepDone
<1> QED BY <1>2, <1>3, <1>4 DEF StepDone

(* The socket that port_genavb_setup_sockets() is at.                      *)
LEMMA SocketAtHand ==
    ASSUME Ptp!PtpAssumption, PlanAt, StackShape, Ptp!InSetup
    PROVE  /\ setup.port \in 1..Len(Ptp!Ports) /\ setup.step \in 1..9 /\ setup.step <= Ptp!PortSteps
           /\ Ptp!SocketOf \in Ptp!AllSockets /\ Ptp!SocketOf[1] = Ptp!Ports[setup.port]
           /\ Ptp!SetupOp \in {"open", "hook", "link"}
           /\ Ptp!SetupOp = "open" <=> setup.step = OpenStep(Ptp!SocketOf[2])
           /\ Ptp!SetupOp = "hook" <=> setup.step = HookStep(Ptp!SocketOf[2])
           /\ Ptp!MarksOpened(setup.step) <=> setup.step = MarkStep(Ptp!SocketOf[2])
           /\ \A k \in {"tx", "rx", "ts", "ptp"} :
                setup.step \in {OpenStep(k), HookStep(k), MarkStep(k)} => k = Ptp!SocketOf[2]
           /\ Ptp!SetupOp = "link" => /\ setup.step = HookStep(Ptp!SocketOf[2]) + 1
                                      /\ setup.step = MarkStep(Ptp!SocketOf[2])
<1>1. setup.step \in 1..9 /\ setup.step <= Ptp!PortSteps /\ setup.port \in Nat \ {0}
  BY DEF StackShape
<1>2. setup.port <= Len(Ptp!Ports) /\ Len(Ptp!Ports) \in Nat
  BY PortsAre DEF Ptp!InSetup
<1>3. setup.port \in 1..Len(Ptp!Ports)
  BY <1>1, <1>2
<1>4. Ptp!SocketOf[1] = Ptp!Ports[setup.port] /\ Ptp!SocketOf[2] = Ptp!SocketSteps[setup.step][2]
  BY DEF Ptp!SocketOf
<1> DEFINE k == setup.step
<1>5. k \in 1..9
  BY <1>1
<1> HIDE DEF k
<1>6. /\ Ptp!SocketSteps[k][2] \in {"tx", "rx", "ts", "ptp"} /\ Ptp!SocketSteps[k][1] \in {"open", "hook", "link"}
      /\ Ptp!SocketSteps[k][1] = "open" <=> k = OpenStep(Ptp!SocketSteps[k][2])
      /\ Ptp!SocketSteps[k][1] = "hook" <=> k = HookStep(Ptp!SocketSteps[k][2])
      /\ Ptp!MarksOpened(k) <=> k = MarkStep(Ptp!SocketSteps[k][2])
      /\ \A x \in {"tx", "rx", "ts", "ptp"} :
           k \in {OpenStep(x), HookStep(x), MarkStep(x)} => x = Ptp!SocketSteps[k][2]
      /\ Ptp!SocketSteps[k][1] = "link" => /\ k = HookStep(Ptp!SocketSteps[k][2]) + 1
                                           /\ k = MarkStep(Ptp!SocketSteps[k][2])
  BY <1>5, DriveStepsAre
<1>7. Ptp!SocketOf \in Ptp!AllSockets
  <2>1. Ptp!Ports[setup.port] \in Ptp!AllPorts
    BY <1>3, PortsAre
  <2> QED BY <1>6, <2>1 DEF Ptp!SocketOf, Ptp!AllSockets, k
<1> QED BY <1>1, <1>3, <1>4, <1>6, <1>7 DEF Ptp!SetupOp, k

LEMMA KindSteps ==
    ASSUME NEW k \in {"tx", "rx", "ts", "ptp"}
    PROVE  /\ OpenStep(k) \in 1..9 /\ HookStep(k) \in 1..10 /\ MarkStep(k) \in 1..9
           /\ OpenStep(k) < HookStep(k) /\ OpenStep(k) <= MarkStep(k)
           /\ HookStep(k) <= 9 => MarkStep(k) \in {HookStep(k), HookStep(k) + 1}
           /\ k \in {"ts", "ptp"} => HookStep(k) > 4
           /\ k = "tx" => HookStep(k) = 10
BY DEF OpenStep, HookStep, MarkStep

LEMMA SetupAtKept ==
    ASSUME Ptp!PtpAssumption, PlanAt, StackShape, SetupAt, [Ptp!Next]_ptpVars
    PROVE  SetupAt'
<1>1. CASE Ptp!SetUpStep
  <2>1. Ptp!InSetup /\ dev # "freed" /\ UNCHANGED <<plan, dev>>
    BY <1>1 DEF Ptp!SetUpStep, Ptp!InSetup
  <2> DEFINE x == Ptp!SocketOf
  <2>2. ASSUME NEW s \in Ptp!AllSockets
        PROVE  /\ s \in open' <=> StepDone(s, OpenStep(s[2]))'
               /\ s \in hooked' <=> StepDone(s, HookStep(s[2]))'
               /\ s \in opened' <=> StepDone(s, MarkStep(s[2]))'
    <3>1. s[2] \in {"tx", "rx", "ts", "ptp"} /\ s = <<s[1], s[2]>> /\ x = <<x[1], x[2]>>
      BY <2>1, Sockets, SocketAtHand
    <3>2. /\ OpenStep(s[2]) \in Nat \ {0} /\ HookStep(s[2]) \in Nat \ {0} /\ MarkStep(s[2]) \in Nat \ {0}
      BY <3>1, KindSteps
    <3>3. /\ s \in open <=> StepDone(s, OpenStep(s[2]))
          /\ s \in hooked <=> StepDone(s, HookStep(s[2]))
          /\ s \in opened <=> StepDone(s, MarkStep(s[2]))
      BY <2>1 DEF SetupAt
    <3>4. \A k \in Nat \ {0} :
            StepDone(s, k)' <=> StepDone(s, k) \/ (s[1] = x[1] /\ k = setup.step)
      <4> TAKE k \in Nat \ {0}
      <4>1. StepDone(s, k)' <=> StepDone(s, k) \/ (s[1] = Ptp!Ports[setup.port] /\ k = setup.step)
        BY <1>1, <2>1, DoneGrows
      <4> QED BY <2>1, <4>1, SocketAtHand
    <3>5. /\ StepDone(s, OpenStep(s[2]))' <=> StepDone(s, OpenStep(s[2])) \/ (s[1] = x[1] /\ OpenStep(s[2]) = setup.step)
          /\ StepDone(s, HookStep(s[2]))' <=> StepDone(s, HookStep(s[2])) \/ (s[1] = x[1] /\ HookStep(s[2]) = setup.step)
          /\ StepDone(s, MarkStep(s[2]))' <=> StepDone(s, MarkStep(s[2])) \/ (s[1] = x[1] /\ MarkStep(s[2]) = setup.step)
      BY <3>2, <3>4
    <3>6. /\ s \in open' <=> s \in open \/ (Ptp!SetupOp = "open" /\ s = x)
          /\ s \in hooked' <=> s \in hooked \/ (Ptp!SetupOp = "hook" /\ s = x)
          /\ s \in opened' <=> s \in opened \/ (Ptp!MarksOpened(setup.step) /\ s = x)
      BY <1>1 DEF Ptp!SetUpStep
    <3>7. /\ Ptp!SetupOp = "open" /\ s = x <=> s[1] = x[1] /\ OpenStep(s[2]) = setup.step
          /\ Ptp!SetupOp = "hook" /\ s = x <=> s[1] = x[1] /\ HookStep(s[2]) = setup.step
          /\ Ptp!MarksOpened(setup.step) /\ s = x <=> s[1] = x[1] /\ MarkStep(s[2]) = setup.step
      <4> HIDE DEF x
      <4>1. /\ Ptp!SetupOp = "open" <=> setup.step = OpenStep(x[2])
            /\ Ptp!SetupOp = "hook" <=> setup.step = HookStep(x[2])
            /\ Ptp!MarksOpened(setup.step) <=> setup.step = MarkStep(x[2])
            /\ setup.step \in {OpenStep(s[2]), HookStep(s[2]), MarkStep(s[2])} => s[2] = x[2]
        BY <2>1, <3>1, SocketAtHand DEF x
      <4>2. s[1] = x[1] /\ s[2] = x[2] <=> s = x
        BY <3>1
      <4> QED BY <4>1, <4>2
    <3> QED BY <3>3, <3>5, <3>6, <3>7
  <2> QED BY <2>1, <2>2 DEF SetupAt
<1>2. CASE dev' = "freed"
  BY <1>2 DEF SetupAt
<1>3. CASE UNCHANGED <<setup, open, hooked, opened>> /\ (dev' # "freed" => dev # "freed")
  <2>1. Ptp!Ports' = Ptp!Ports /\ Ptp!PortSteps' = Ptp!PortSteps
    BY PlanKept, SamePlanMeans
  <2>2. \A s, k : StepDone(s, k)' <=> StepDone(s, k)
    BY <1>3, <2>1 DEF StepDone, Past
  <2> QED BY <1>3, <2>2 DEF SetupAt
<1>4. Ptp!SetUpStep \/ dev' = "freed" \/ (UNCHANGED <<setup, open, hooked, opened>> /\ (dev' # "freed" => dev # "freed"))
  BY StackSteps DEF Ptp!CreateTasks, Ptp!SetUpFails, Ptp!Callback, Ptp!GetEvent, Ptp!Arrive, Ptp!HostSend,
     Ptp!Drained, Ptp!Enable, Ptp!TakeFrame, Ptp!RxFails, Ptp!TakeStamp, ptpVars, Ptp!sockets
<1> QED BY <1>1, <1>2, <1>3, <1>4

(* A socket gets its callback once, when it is open, and is known to be    *)
(* open by the next call that may fail.                                    *)
LEMMA HookedOnce ==
    ASSUME Ptp!PtpAssumption, PlanAt, StackShape, SetupAt, Ptp!InSetup
    PROVE  /\ Ptp!SetupOp = "hook" => Ptp!SocketOf \notin hooked /\ Ptp!SocketOf \in open
           /\ Ptp!MarksOpened(setup.step) => Ptp!SocketOf \in open \/ Ptp!SetupOp = "open"
           /\ Ptp!SetupOp # "link" => hooked \cap Ptp!AllSockets \subseteq opened
<1> DEFINE x == Ptp!SocketOf
           p == setup.port
           k == setup.step
<1>1. /\ p \in 1..Len(Ptp!Ports) /\ k \in 1..9 /\ k <= Ptp!PortSteps /\ Ptp!PortSteps \in {4, 9}
      /\ x \in Ptp!AllSockets /\ x[1] = Ptp!Ports[p] /\ Len(Ptp!Ports) \in Nat
      /\ Ptp!SetupOp = "open" <=> k = OpenStep(x[2])
      /\ Ptp!SetupOp = "hook" <=> k = HookStep(x[2])
      /\ Ptp!MarksOpened(k) <=> k = MarkStep(x[2])
      /\ Ptp!SetupOp \in {"open", "hook", "link"}
      /\ Ptp!SetupOp = "link" => k = HookStep(x[2]) + 1 /\ k = MarkStep(x[2])
  BY SocketAtHand, PortsAre
<1>2. /\ x[2] \in {"tx", "rx", "ts", "ptp"} /\ OpenStep(x[2]) \in 1..9 /\ HookStep(x[2]) \in 1..10 /\ MarkStep(x[2]) \in 1..9
      /\ OpenStep(x[2]) < HookStep(x[2]) /\ OpenStep(x[2]) <= MarkStep(x[2])
  BY <1>1, Sockets, KindSteps
<1>3. /\ x \in open <=> StepDone(x, OpenStep(x[2]))
      /\ x \in hooked <=> StepDone(x, HookStep(x[2]))
  BY <1>1 DEF SetupAt, Ptp!InSetup
<1>4. \A j \in 1..Len(Ptp!Ports), l \in Nat : Past(j, l) <=> j < p \/ (j = p /\ l < k)
  BY DEF Past
<1>5. \A j \in 1..Len(Ptp!Ports) : Ptp!Ports[j] = Ptp!Ports[p] => j = p
  BY <1>1, PortsAre
<1>6. ASSUME NEW l \in 1..10, l < k PROVE StepDone(x, l)
  <2>1. Past(p, l) /\ l <= Ptp!PortSteps
    BY <1>1, <1>4, <1>6
  <2> QED BY <1>1, <2>1 DEF StepDone
<1>7. ~StepDone(x, k)
  <2> SUFFICES ASSUME NEW j \in 1..Len(Ptp!Ports), x[1] = Ptp!Ports[j], Past(j, k) PROVE FALSE
    BY DEF StepDone
  <2>1. j = p
    BY <1>1, <1>5
  <2> QED BY <1>1, <1>4, <2>1
<1>8. Ptp!SetupOp = "hook" => x \notin hooked /\ x \in open
  BY <1>1, <1>2, <1>3, <1>6, <1>7
<1>9. Ptp!MarksOpened(k) => x \in open \/ Ptp!SetupOp = "open"
  BY <1>1, <1>2, <1>3, <1>6, SMTT(40)
<1>10. ASSUME Ptp!SetupOp # "link", NEW s \in hooked \cap Ptp!AllSockets PROVE s \in opened
  <2>1. /\ s \in hooked <=> StepDone(s, HookStep(s[2]))
        /\ s \in opened <=> StepDone(s, MarkStep(s[2]))
    BY DEF SetupAt, Ptp!InSetup
  <2>2. HookStep(s[2]) <= Ptp!PortSteps
    BY <1>10, <2>1 DEF StepDone
  <2>3. PICK j \in 1..Len(Ptp!Ports) : s[1] = Ptp!Ports[j] /\ Past(j, HookStep(s[2]))
    BY <1>10, <2>1 DEF StepDone
  <2>4. /\ s[2] \in {"tx", "rx", "ts", "ptp"} /\ HookStep(s[2]) \in 1..10 /\ MarkStep(s[2]) \in 1..9
        /\ HookStep(s[2]) <= 9 => MarkStep(s[2]) \in {HookStep(s[2]), HookStep(s[2]) + 1}
    BY Sockets, KindSteps
  <2>5. CASE MarkStep(s[2]) = HookStep(s[2])
    BY <1>10, <2>1, <2>5
  <2>6. CASE MarkStep(s[2]) = HookStep(s[2]) + 1
    <3>1. s[2] \in {"rx", "ptp"} /\ (s[2] = "rx" => MarkStep(s[2]) = 4) /\ (s[2] = "ptp" => MarkStep(s[2]) = 9)
      BY <2>4, <2>6 DEF MarkStep, HookStep
    <3>2. MarkStep(s[2]) <= Ptp!PortSteps
      BY <1>1, <2>2, <2>4, <2>6, <3>1
    <3>3. k # MarkStep(s[2])
      <4>1. Ptp!SetupOp = Ptp!SocketSteps[k][1]
        BY DEF Ptp!SetupOp
      <4>2. Ptp!SocketSteps[4][1] = "link" /\ Ptp!SocketSteps[9][1] = "link"
        BY DEF Ptp!SocketSteps
      <4> QED BY <1>10, <3>1, <4>1, <4>2
    <3>4. Past(j, MarkStep(s[2]))
      BY <1>1, <1>4, <2>3, <2>4, <2>6, <3>3, SMTT(40)
    <3> QED BY <2>1, <2>3, <3>2, <3>4 DEF StepDone
  <2> QED BY <1>1, <2>2, <2>4, <2>5, <2>6
<1> QED BY <1>8, <1>9, <1>10

(* The plain socket has no callback, and without PTP no other has.         *)
LEMMA HookedKinds ==
    ASSUME Ptp!PtpAssumption, PlanAt, Ptp!TypeOK, SetupAt, dev # "freed", NEW s \in hooked
    PROVE  /\ s \in Ptp!AllSockets /\ s[2] # "tx" /\ (s[2] \in {"ts", "ptp"} => Ptp!HasPtp)
           /\ \E j \in 1..Len(Ptp!Ports) : s[1] = Ptp!Ports[j]
<1>1. s \in Ptp!AllSockets
  BY DEF Ptp!TypeOK
<1>2. StepDone(s, HookStep(s[2]))
  BY <1>1 DEF SetupAt
<1>3. HookStep(s[2]) <= Ptp!PortSteps /\ Ptp!PortSteps \in {4, 9} /\ (Ptp!PortSteps = 9 => Ptp!HasPtp)
  BY <1>2, PortsAre DEF StepDone, Ptp!PortSteps
<1>4. s[2] \in {"tx", "rx", "ts", "ptp"} /\ (s[2] \in {"ts", "ptp"} => HookStep(s[2]) > 4) /\ (s[2] = "tx" => HookStep(s[2]) = 10)
  BY <1>1, Sockets, KindSteps
<1>5. HookStep(s[2]) \in 1..10
  BY <1>1, Sockets, KindSteps
<1> QED BY <1>1, <1>2, <1>3, <1>4, <1>5 DEF StepDone

(* The sets of sockets.                                                    *)
LEMMA SetsKept ==
    ASSUME Ptp!PtpAssumption, PlanAt, StackShape, Ptp!TypeOK, SetupAt, TasksAt, [Ptp!Next]_ptpVars
    PROVE  /\ opened' \subseteq open' /\ open' \subseteq Ptp!AllSockets
           /\ armed' \subseteq hooked' /\ hooked' \subseteq open'
<1>1. /\ opened \subseteq open /\ open \subseteq Ptp!AllSockets
      /\ armed \subseteq hooked /\ hooked \subseteq open
  BY DEF Ptp!TypeOK
<1>2. CASE Ptp!SetUpStep
  <2>1. Ptp!InSetup
    BY <1>2 DEF Ptp!SetUpStep
  <2> DEFINE x == Ptp!SocketOf
  <2>2. /\ x \in Ptp!AllSockets
        /\ Ptp!SetupOp = "hook" => x \in open
        /\ Ptp!MarksOpened(setup.step) => x \in open \/ Ptp!SetupOp = "open"
    BY <2>1, SocketAtHand, HookedOnce
  <2>3. /\ open' = IF Ptp!SetupOp = "open" THEN open \cup {x} ELSE open
        /\ hooked' = IF Ptp!SetupOp = "hook" THEN hooked \cup {x} ELSE hooked
        /\ armed' = IF Ptp!SetupOp = "hook" THEN armed \cup {x} ELSE armed
        /\ opened' = IF Ptp!MarksOpened(setup.step) THEN opened \cup {x} ELSE opened
    BY <1>2 DEF Ptp!SetUpStep
  <2> HIDE DEF x
  <2> QED BY <1>1, <2>2, <2>3
<1>3. CASE Ptp!SetUpFails
  BY <1>1, <1>3 DEF Ptp!SetUpFails
<1>4. ASSUME NEW t \in Ptp!Tasks, Ptp!Enable(t)
      PROVE  UNCHANGED <<open, opened, hooked>> /\ armed' \subseteq hooked'
  <2>1. p_pc[t] # "wait" /\ UNCHANGED <<open, opened, hooked>> /\ armed' \subseteq armed \cup {sock[t]}
    BY <1>4 DEF Ptp!Enable, Ptp!sockets
  <2> QED BY <1>1, <2>1, AtWork
<1>5. CASE UNCHANGED <<open, opened, hooked>> /\ armed' \subseteq armed
  BY <1>1, <1>5
<1>6. \/ Ptp!SetUpStep \/ Ptp!SetUpFails \/ (\E t \in Ptp!Tasks : Ptp!Enable(t))
      \/ UNCHANGED <<open, opened, hooked>> /\ armed' \subseteq armed
  BY StackSteps DEF Ptp!CreateTasks, Ptp!Callback, Ptp!GetEvent, Ptp!Arrive, Ptp!HostSend,
     Ptp!Drained, Ptp!TakeFrame, Ptp!RxFails, Ptp!TakeStamp, ptpVars, Ptp!sockets
<1> QED BY <1>1, <1>2, <1>3, <1>4, <1>5, <1>6

LEMMA StackTypeKept ==
    ASSUME Ptp!PtpAssumption, PlanAt, StackShape, Ptp!TypeOK, SetupAt, TasksAt, [Ptp!Next]_ptpVars
    PROVE  Ptp!TypeOK'
<1>1. dev' \in {"setup", "up", "freed"}
  BY StackSteps DEF Ptp!TypeOK, Ptp!SetUpStep, Ptp!CreateTasks, Ptp!SetUpFails, Ptp!Callback,
     Ptp!GetEvent, Ptp!Arrive, Ptp!HostSend, Ptp!Drained, Ptp!Enable, Ptp!TakeFrame, Ptp!RxFails,
     Ptp!TakeStamp, ptpVars, Ptp!sockets
<1>2. p_fault' \in {"none", "port", "freed"}
  BY StackSteps DEF Ptp!TypeOK, Ptp!SetUpStep, Ptp!CreateTasks, Ptp!SetUpFails, Ptp!Callback,
     Ptp!GetEvent, Ptp!Arrive, Ptp!HostSend, Ptp!Drained, Ptp!Enable, Ptp!TakeFrame, Ptp!RxFails,
     Ptp!TakeStamp, ptpVars, Ptp!sockets
<1>3. \A t \in Ptp!Tasks : p_pc'[t] \in {"wait", "drain", "enable"} /\ Len(mqueue'[t]) <= Depth
  BY TaskShapeKept, QueueShapeKept
<1> QED BY <1>1, <1>2, <1>3, SetsKept DEF Ptp!TypeOK

(* Where net_callback() may fault.                                         *)
LEMMA LeftOpenKept ==
    ASSUME Ptp!PtpAssumption, PlanAt, StackShape, Ptp!TypeOK, SetupAt, LeftOpen, [Ptp!Next]_ptpVars
    PROVE  LeftOpen'
<1>1. plan'.ep = plan.ep /\ plan'.br = plan.br /\ (Ptp!HasPtp' <=> Ptp!HasPtp)
  BY PlanKept, SamePlanMeans DEF SamePlan
<1>2. CASE Ptp!SetUpFails
  <2>1. Ptp!InSetup /\ Ptp!SetupOp # "link" /\ dev # "freed"
    BY <1>2 DEF Ptp!SetUpFails, Ptp!InSetup
  <2>2. ASSUME NEW s \in hooked'
        PROVE  s[1] \in Ptp!Range(plan.ep) /\ Ptp!HasPtp
    <3>1. s \in hooked /\ (s \in opened => ~Ptp!ClosedAtErr(s))
      BY <1>2, <2>2 DEF Ptp!SetUpFails
    <3>2. /\ s \in Ptp!AllSockets /\ s[2] # "tx" /\ (s[2] \in {"ts", "ptp"} => Ptp!HasPtp)
          /\ \E j \in 1..Len(Ptp!Ports) : s[1] = Ptp!Ports[j]
      BY <2>1, <3>1, HookedKinds
    <3>3. s \in opened
      BY <2>1, <3>1, <3>2, HookedOnce
    <3>4. s[1] \notin Ptp!Range(plan.br) /\ s[2] \notin {"tx", "rx"}
      BY <3>1, <3>3 DEF Ptp!ClosedAtErr
    <3>5. s[2] \in {"ts", "ptp"}
      BY <3>2, <3>4, Sockets
    <3>6. s[1] \in Ptp!Range(plan.ep) \/ s[1] \in Ptp!Range(plan.br)
      BY <3>2, PortsAre
    <3> QED BY <3>2, <3>4, <3>5, <3>6
  <2> QED BY <1>1, <2>2 DEF LeftOpen
<1>3. CASE UNCHANGED hooked /\ dev' = dev
  BY <1>1, <1>3 DEF LeftOpen
<1>4. CASE dev' # "freed"
  BY <1>4 DEF LeftOpen
<1>5. Ptp!SetUpFails \/ (UNCHANGED hooked /\ dev' = dev) \/ dev' # "freed"
  BY StackSteps DEF Ptp!SetUpStep, Ptp!InSetup, Ptp!CreateTasks, Ptp!Callback, Ptp!GetEvent, Ptp!Arrive, Ptp!HostSend,
     Ptp!Drained, Ptp!Enable, Ptp!TakeFrame, Ptp!RxFails, Ptp!TakeStamp, ptpVars, Ptp!sockets
<1> QED BY <1>2, <1>3, <1>4, <1>5

LEMMA StackFaultsKept ==
    ASSUME PlanAt, Ptp!TypeOK, LeftOpen, Ptp!NoFault, [Ptp!Next]_ptpVars
    PROVE  Ptp!NoFault'
<1>1. plan'.ep = plan.ep /\ (Ptp!HasPtp' <=> Ptp!HasPtp)
  BY PlanKept, SamePlanMeans DEF SamePlan
<1>2. ASSUME NEW s \in Ptp!AllSockets, Ptp!Callback(s)
      PROVE  Ptp!NoFault'
  <2>1. /\ s \in hooked /\ UNCHANGED <<hooked, linked, dev>>
        /\ p_fault' = IF dev = "freed" THEN "freed"
                      ELSE IF s[2] # "ts" /\ s \notin linked THEN "port" ELSE "none"
    BY <1>2 DEF Ptp!TypeOK, Ptp!Callback, Ptp!sockets
  <2>2. p_fault' = "port" => \E x \in hooked' : x[2] # "ts" /\ x \notin linked'
    BY <2>1
  <2>3. p_fault' = "freed" => dev' = "freed" /\ Ptp!HasPtp' /\ \E x \in hooked' : x[1] \in Ptp!Range(plan'.ep)
    BY <1>1, <2>1 DEF LeftOpen
  <2> QED BY <2>2, <2>3 DEF Ptp!NoFault
<1>3. CASE p_fault' = "none"
  BY <1>3 DEF Ptp!NoFault
<1>4. CASE UNCHANGED <<p_fault, hooked, linked, dev>>
  BY <1>1, <1>4 DEF Ptp!NoFault
<1>5. (\E s \in Ptp!AllSockets : Ptp!Callback(s)) \/ p_fault' = "none" \/ UNCHANGED <<p_fault, hooked, linked, dev>>
  BY StackSteps DEF Ptp!SetUpStep, Ptp!SetUpFails, Ptp!InSetup, Ptp!CreateTasks, Ptp!GetEvent, Ptp!Arrive, Ptp!HostSend,
     Ptp!Drained, Ptp!Enable, Ptp!TakeFrame, Ptp!RxFails, Ptp!TakeStamp, ptpVars, Ptp!sockets
<1> QED BY <1>2, <1>3, <1>4, <1>5

LEMMA TaskNames == "rx" \in Ptp!Tasks /\ "ts" \in Ptp!Tasks
BY DEF Ptp!Tasks

(* No task is at work before the device is up.                             *)
LEMMA IdleBefore ==
    ASSUME TasksAt, dev # "up"
    PROVE  \A t \in Ptp!Tasks : p_pc[t] = "wait" /\ sock[t] = Ptp!None
BY DEF TasksAt

LEMMA AppendIs ==
    ASSUME NEW S, NEW q \in Seq(S), NEW x \in S
    PROVE  /\ Len(Append(q, x)) = Len(q) + 1 /\ Append(q, x)[Len(q) + 1] = x
           /\ \A k \in 1..Len(q) : Append(q, x)[k] = q[k]
OBVIOUS

LEMMA TailIs ==
    ASSUME NEW S, NEW q \in Seq(S), q # <<>>
    PROVE  /\ Len(q) \in Nat \ {0} /\ Len(Tail(q)) = Len(q) - 1 /\ Head(q) = q[1]
           /\ \A k \in 1..(Len(q) - 1) : Tail(q)[k] = q[k + 1]
OBVIOUS

LEMMA TasksAtKept ==
    ASSUME Ptp!PtpAssumption, StackShape, Ptp!TypeOK, TasksAt, QueuesAt, [Ptp!Next]_ptpVars
    PROVE  TasksAt'
<1>1. CASE Ptp!SetUpStep \/ Ptp!CreateTasks \/ Ptp!SetUpFails
  <2>1. dev # "up" /\ UNCHANGED <<p_pc, sock>>
    BY <1>1 DEF Ptp!SetUpStep, Ptp!InSetup, Ptp!CreateTasks, Ptp!SetUpFails
  <2> QED BY <2>1, IdleBefore DEF TasksAt, Ptp!None
<1>2. ASSUME NEW t \in Ptp!Tasks, Ptp!GetEvent(t)
      PROVE  TasksAt'
  <2>1. /\ p_pc \in [Ptp!Tasks -> {"wait", "drain", "enable"}]
        /\ sock \in [Ptp!Tasks -> Ptp!AllSockets \cup {Ptp!None}]
        /\ mqueue[t] \in Seq(Ptp!AllSockets) /\ mqueue[t] # <<>> /\ dev = "up"
    BY <1>2 DEF StackShape, Ptp!GetEvent
  <2>2. Head(mqueue[t]) = mqueue[t][1] /\ 1 \in 1..Len(mqueue[t])
    BY <2>1, TailIs
  <2> DEFINE x == Head(mqueue[t])
  <2>3. x \in hooked \ (armed \cup deaf) /\ Ptp!ServedBy(x) = t
    BY <2>1, <2>2 DEF QueuesAt
  <2>4. x \in Ptp!AllSockets /\ x # Ptp!None
    BY <2>3, Sockets DEF Ptp!TypeOK
  <2>5. /\ p_pc' = [p_pc EXCEPT ![t] = "drain"] /\ sock' = [sock EXCEPT ![t] = x]
        /\ UNCHANGED <<dev, hooked, armed, deaf>>
    BY <1>2 DEF Ptp!GetEvent, Ptp!Goto, Ptp!sockets, Ptp!history
  <2> HIDE DEF x
  <2>6. ASSUME NEW u \in Ptp!Tasks
        PROVE  /\ p_pc'[u] = "wait" <=> sock'[u] = Ptp!None
               /\ p_pc'[u] # "wait" => /\ dev' = "up" /\ Ptp!ServedBy(sock'[u]) = u
                                       /\ sock'[u] \in hooked' \ (armed' \cup deaf')
    <3>1. CASE u = t
      <4>1. p_pc'[u] = "drain" /\ sock'[u] = x
        BY <2>1, <2>5, <3>1
      <4> QED BY <2>1, <2>3, <2>4, <2>5, <3>1, <4>1
    <3>2. CASE u # t
      <4>1. p_pc'[u] = p_pc[u] /\ sock'[u] = sock[u]
        BY <2>1, <2>5, <3>2
      <4> QED BY <2>5, <4>1 DEF TasksAt
    <3> QED BY <3>1, <3>2
  <2> QED BY <2>6 DEF TasksAt, Ptp!ServedBy, Ptp!None
<1>3. ASSUME NEW t \in Ptp!Tasks, Ptp!Enable(t)
      PROVE  TasksAt'
  <2>1. /\ p_pc \in [Ptp!Tasks -> {"wait", "drain", "enable"}]
        /\ sock \in [Ptp!Tasks -> Ptp!AllSockets \cup {Ptp!None}]
    BY DEF StackShape
  <2>2. /\ p_pc' = [p_pc EXCEPT ![t] = "wait"] /\ sock' = [sock EXCEPT ![t] = Ptp!None]
        /\ UNCHANGED <<dev, hooked>> /\ armed' \cup deaf' = armed \cup deaf \cup {sock[t]}
    BY <1>3 DEF Ptp!Enable, Ptp!Goto, Ptp!sockets
  <2>3. Ptp!ServedBy(sock[t]) = t
    BY <1>3 DEF Ptp!Enable, TasksAt
  <2>4. ASSUME NEW u \in Ptp!Tasks
        PROVE  /\ p_pc'[u] = "wait" <=> sock'[u] = Ptp!None
               /\ p_pc'[u] # "wait" => /\ dev' = "up" /\ Ptp!ServedBy(sock'[u]) = u
                                       /\ sock'[u] \in hooked' \ (armed' \cup deaf')
    <3>1. CASE u = t
      BY <2>1, <2>2, <3>1
    <3>2. CASE u # t
      <4>1. p_pc'[u] = p_pc[u] /\ sock'[u] = sock[u]
        BY <2>1, <2>2, <3>2
      <4>2. p_pc[u] # "wait" => sock[u] # sock[t]
        BY <2>3, <3>2 DEF TasksAt
      <4> QED BY <2>2, <4>1, <4>2 DEF TasksAt
    <3> QED BY <3>1, <3>2
  <2> QED BY <2>4 DEF TasksAt, Ptp!ServedBy, Ptp!None
<1>4. ASSUME NEW t \in Ptp!Tasks, p_pc[t] = "drain", p_pc' = [p_pc EXCEPT ![t] = "enable"],
             UNCHANGED <<sock, dev, hooked, armed, mqueue, deaf>>
      PROVE  TasksAt'
  <2>1. p_pc \in [Ptp!Tasks -> {"wait", "drain", "enable"}]
    BY DEF StackShape
  <2>2. \A u \in Ptp!Tasks : p_pc'[u] = "wait" <=> p_pc[u] = "wait"
    BY <1>4, <2>1
  <2> QED BY <1>4, <2>2 DEF TasksAt, Ptp!ServedBy, Ptp!None
<1>5. CASE UNCHANGED <<p_pc, sock, dev, hooked, deaf>> /\ armed' \subseteq armed
  BY <1>5 DEF TasksAt, Ptp!ServedBy, Ptp!None
<1>6. \/ Ptp!SetUpStep \/ Ptp!CreateTasks \/ Ptp!SetUpFails
      \/ \E t \in Ptp!Tasks : Ptp!GetEvent(t) \/ Ptp!Enable(t)
      \/ \E t \in Ptp!Tasks : /\ p_pc[t] = "drain" /\ p_pc' = [p_pc EXCEPT ![t] = "enable"]
                              /\ UNCHANGED <<sock, dev, hooked, armed, mqueue, deaf>>
      \/ UNCHANGED <<p_pc, sock, dev, hooked, deaf>> /\ armed' \subseteq armed
  <2>1. CASE UNCHANGED <<p_pc, sock>>
    <3>1. \/ Ptp!SetUpStep \/ Ptp!CreateTasks \/ Ptp!SetUpFails \/ (\E t \in Ptp!Tasks : Ptp!GetEvent(t) \/ Ptp!Enable(t))
          \/ UNCHANGED <<dev, hooked, deaf>> /\ armed' \subseteq armed
      BY StackSteps DEF Ptp!Callback, Ptp!Arrive, Ptp!HostSend,
         Ptp!Drained, Ptp!TakeFrame, Ptp!RxFails, Ptp!TakeStamp, ptpVars, Ptp!sockets, Ptp!history
    <3> QED BY <2>1, <3>1
  <2> QED BY <2>1, TaskMoves
<1> QED BY <1>1, <1>2, <1>3, <1>4, <1>5, <1>6

(* A callback finds its socket nowhere else, and room in the queue.        *)
LEMMA CallbackFinds ==
    ASSUME Ptp!PtpAssumption, PlanAt, StackShape, Ptp!TypeOK, SetupAt, TasksAt, QueuesAt, NoneForgotten,
           NEW s \in armed, dev # "freed", NEW t, t = Ptp!ServedBy(s)
    PROVE  /\ t \in Ptp!Tasks /\ s \in Ptp!AllSockets /\ s \in hooked /\ s \notin deaf /\ s # sock[t]
           /\ \A k \in 1..Len(mqueue[t]) : mqueue[t][k] # s
           /\ Len(mqueue[t]) < Depth
<1>1. s \in hooked /\ s \in Ptp!AllSockets /\ s \notin deaf
  BY DEF Ptp!TypeOK, NoneForgotten
<1>2. t \in Ptp!Tasks /\ s # Ptp!None
  BY <1>1, Sockets
<1>3. s # sock[t]
  BY <1>2 DEF TasksAt
<1>4. mqueue[t] \in Seq(Ptp!AllSockets)
  BY <1>2 DEF StackShape
<1>5. \A k \in 1..Len(mqueue[t]) :
        mqueue[t][k] \in hooked \ (armed \cup deaf) /\ Ptp!ServedBy(mqueue[t][k]) = t
  BY <1>2 DEF QueuesAt
<1>6. \A k \in 1..Len(mqueue[t]) : mqueue[t][k] # s
  BY <1>5
<1>7. \A j, k \in 1..Len(mqueue[t]) : mqueue[t][j] = mqueue[t][k] => j = k
  BY <1>2 DEF QueuesAt
<1>8. \A k \in 1..Len(mqueue[t]) : mqueue[t][k][2] # "tx" /\ \E j \in 1..Len(Ptp!Ports) : mqueue[t][k][1] = Ptp!Ports[j]
  BY <1>5, HookedKinds
<1>9. s[2] # "tx" /\ \E j \in 1..Len(Ptp!Ports) : s[1] = Ptp!Ports[j]
  BY <1>1, HookedKinds
<1> DEFINE Q == mqueue[t]
<1>10. /\ Q \in Seq(Ptp!AllSockets) /\ (\A j, k \in 1..Len(Q) : Q[j] = Q[k] => j = k)
       /\ \A k \in 1..Len(Q) : /\ Ptp!ServedBy(Q[k]) = t /\ Q[k][2] # "tx" /\ Q[k] # s
                               /\ \E j \in 1..Len(Ptp!Ports) : Q[k][1] = Ptp!Ports[j]
  BY <1>4, <1>5, <1>6, <1>7, <1>8
<1> HIDE DEF Q
<1>11. Len(Q) < Depth
  BY <1>1, <1>2, <1>9, <1>10, RoomForOne
<1> QED BY <1>1, <1>2, <1>3, <1>6, <1>11 DEF Q

LEMMA QueuesAtKept ==
    ASSUME Ptp!PtpAssumption, PlanAt, StackShape, Ptp!TypeOK, SetupAt, TasksAt, QueuesAt, NoneForgotten,
           [Ptp!Next]_ptpVars
    PROVE  QueuesAt'
<1>1. \/ Ptp!SetUpStep \/ dev' = "freed"
      \/ (\E s \in Ptp!AllSockets : Ptp!Callback(s))
      \/ \E t \in Ptp!Tasks : Ptp!GetEvent(t) \/ Ptp!Enable(t)
      \/ UNCHANGED <<sock, hooked, armed, mqueue, deaf>> /\ (dev' # "freed" => dev # "freed")
  BY StackSteps, TaskMoves DEF Ptp!SetUpFails, Ptp!CreateTasks, Ptp!Arrive, Ptp!HostSend,
     Ptp!Drained, Ptp!TakeFrame, Ptp!RxFails, Ptp!TakeStamp, ptpVars, Ptp!sockets, Ptp!history
<1>2. CASE dev' = "freed"
  BY <1>2 DEF QueuesAt
<1>3. CASE UNCHANGED <<sock, hooked, armed, mqueue, deaf>> /\ (dev' # "freed" => dev # "freed")
  BY <1>3 DEF QueuesAt, Ptp!ServedBy
<1>4. CASE Ptp!SetUpStep
  <2>1. Ptp!InSetup /\ dev # "freed" /\ UNCHANGED <<sock, mqueue, deaf>>
    BY <1>4 DEF Ptp!SetUpStep, Ptp!InSetup, Ptp!history
  <2>2. hooked \subseteq hooked' /\ armed' \cap hooked \subseteq armed
    <3>1. Ptp!SetupOp = "hook" => Ptp!SocketOf \notin hooked
      BY <2>1, HookedOnce
    <3> QED BY <1>4, <3>1 DEF Ptp!SetUpStep
  <2> QED BY <2>1, <2>2 DEF QueuesAt, Ptp!ServedBy
<1>5. ASSUME NEW s \in Ptp!AllSockets, Ptp!Callback(s), dev' # "freed"
      PROVE  QueuesAt'
  <2> DEFINE t == Ptp!ServedBy(s)
  <2>1. s \in armed /\ dev # "freed" /\ armed' = armed \ {s} /\ UNCHANGED <<sock, hooked, deaf>>
    BY <1>5 DEF Ptp!Callback, Ptp!sockets, Ptp!history
  <2>2. CASE UNCHANGED mqueue
    BY <2>1, <2>2 DEF QueuesAt, Ptp!ServedBy
  <2>3. CASE mqueue' = [mqueue EXCEPT ![t] = Append(mqueue[t], s)]
    <3>1. /\ t \in Ptp!Tasks /\ s \in hooked /\ s \notin deaf /\ s # sock[t]
          /\ \A k \in 1..Len(mqueue[t]) : mqueue[t][k] # s
      BY <2>1, CallbackFinds
    <3>2. mqueue \in [Ptp!Tasks -> Seq(Ptp!AllSockets)]
      BY DEF StackShape
    <3>3. mqueue[t] \in Seq(Ptp!AllSockets) /\ Len(mqueue[t]) \in Nat
      BY <3>1, <3>2
    <3>4. /\ Len(Append(mqueue[t], s)) = Len(mqueue[t]) + 1 /\ Append(mqueue[t], s)[Len(mqueue[t]) + 1] = s
          /\ \A k \in 1..Len(mqueue[t]) : Append(mqueue[t], s)[k] = mqueue[t][k]
      BY <3>3, AppendIs
    <3>5. Ptp!ServedBy(s) = t
      OBVIOUS
    <3> HIDE DEF t
    <3>6. mqueue'[t] = Append(mqueue[t], s) /\ \A u \in Ptp!Tasks \ {t} : mqueue'[u] = mqueue[u]
      BY <2>3, <3>1, <3>2
    <3>7. ASSUME NEW u \in Ptp!Tasks
          PROVE  /\ \A j, k \in 1..Len(mqueue'[u]) : mqueue'[u][j] = mqueue'[u][k] => j = k
                 /\ \A k \in 1..Len(mqueue'[u]) :
                     /\ mqueue'[u][k] \in hooked \ (armed' \cup deaf) /\ Ptp!ServedBy(mqueue'[u][k]) = u
                     /\ mqueue'[u][k] # sock[u]
      <4>1. /\ \A j, k \in 1..Len(mqueue[u]) : mqueue[u][j] = mqueue[u][k] => j = k
            /\ \A k \in 1..Len(mqueue[u]) :
                /\ mqueue[u][k] \in hooked \ (armed \cup deaf) /\ Ptp!ServedBy(mqueue[u][k]) = u
                /\ mqueue[u][k] # sock[u]
        BY <2>1 DEF QueuesAt
      <4>2. CASE u # t
        BY <2>1, <3>6, <4>1, <4>2
      <4>3. CASE u = t
        <5> DEFINE Q == mqueue[t]
                   R == mqueue'[t]
        <5>1. /\ Len(R) = Len(Q) + 1 /\ Len(Q) \in Nat /\ R[Len(Q) + 1] = s
              /\ \A k \in 1..Len(Q) : R[k] = Q[k] /\ Q[k] # s
          BY <3>1, <3>3, <3>4, <3>6
        <5>2. /\ \A j, k \in 1..Len(Q) : Q[j] = Q[k] => j = k
              /\ \A k \in 1..Len(Q) : /\ Q[k] \in hooked \ (armed \cup deaf) /\ Ptp!ServedBy(Q[k]) = t
                                      /\ Q[k] # sock[t]
          BY <4>1, <4>3
        <5> HIDE DEF Q, R
        <5>3. \A j, k \in 1..Len(R) : R[j] = R[k] => j = k
          BY <5>1, <5>2
        <5>4. ASSUME NEW k \in 1..Len(R)
              PROVE  R[k] \in hooked \ (armed' \cup deaf) /\ Ptp!ServedBy(R[k]) = t /\ R[k] # sock[t]
          <6>1. CASE k = Len(Q) + 1
            BY <2>1, <3>1, <3>5, <5>1, <6>1
          <6>2. CASE k # Len(Q) + 1
            <7>1. k \in 1..Len(Q)
              BY <5>1, <6>2
            <7> QED BY <2>1, <5>1, <5>2, <7>1
          <6> QED BY <6>1, <6>2
        <5> QED BY <4>3, <5>3, <5>4 DEF R
      <4> QED BY <4>2, <4>3
    <3> QED BY <2>1, <3>7 DEF QueuesAt, Ptp!ServedBy
  <2>4. UNCHANGED mqueue \/ mqueue' = [mqueue EXCEPT ![t] = Append(mqueue[t], s)]
    BY <1>5 DEF Ptp!Callback
  <2> QED BY <2>2, <2>3, <2>4
<1>6. ASSUME NEW t \in Ptp!Tasks, Ptp!GetEvent(t)
      PROVE  QueuesAt'
  <2>1. /\ mqueue \in [Ptp!Tasks -> Seq(Ptp!AllSockets)] /\ mqueue[t] # <<>> /\ dev = "up" /\ dev' = dev
        /\ sock \in [Ptp!Tasks -> Ptp!AllSockets \cup {Ptp!None}]
        /\ sock' = [sock EXCEPT ![t] = Head(mqueue[t])] /\ mqueue' = [mqueue EXCEPT ![t] = Tail(mqueue[t])]
        /\ UNCHANGED <<hooked, armed, deaf>>
    BY <1>6 DEF StackShape, Ptp!GetEvent, Ptp!sockets, Ptp!history
  <2>2. /\ Len(mqueue[t]) \in Nat \ {0} /\ Len(Tail(mqueue[t])) = Len(mqueue[t]) - 1 /\ Head(mqueue[t]) = mqueue[t][1]
        /\ \A k \in 1..(Len(mqueue[t]) - 1) : Tail(mqueue[t])[k] = mqueue[t][k + 1]
    <3>1. mqueue[t] \in Seq(Ptp!AllSockets)
      BY <2>1
    <3> QED BY <2>1, <3>1, TailIs
  <2>3. ASSUME NEW u \in Ptp!Tasks
        PROVE  /\ \A j, k \in 1..Len(mqueue'[u]) : mqueue'[u][j] = mqueue'[u][k] => j = k
               /\ \A k \in 1..Len(mqueue'[u]) :
                   /\ mqueue'[u][k] \in hooked \ (armed \cup deaf) /\ Ptp!ServedBy(mqueue'[u][k]) = u
                   /\ mqueue'[u][k] # sock'[u]
    <3>1. /\ \A j, k \in 1..Len(mqueue[u]) : mqueue[u][j] = mqueue[u][k] => j = k
          /\ \A k \in 1..Len(mqueue[u]) :
              /\ mqueue[u][k] \in hooked \ (armed \cup deaf) /\ Ptp!ServedBy(mqueue[u][k]) = u
              /\ mqueue[u][k] # sock[u]
      BY <2>1 DEF QueuesAt
    <3>2. CASE u # t
      <4>1. mqueue'[u] = mqueue[u] /\ sock'[u] = sock[u]
        BY <2>1, <3>2
      <4> QED BY <3>1, <4>1
    <3>3. CASE u = t
      <4> DEFINE Q == mqueue[t]
                 R == mqueue'[t]
      <4>1. R = Tail(Q) /\ sock'[t] = Q[1]
        BY <2>1, <2>2
      <4>2. /\ Len(Q) \in Nat \ {0} /\ Len(R) = Len(Q) - 1 /\ \A k \in 1..(Len(Q) - 1) : R[k] = Q[k + 1]
        BY <2>2, <4>1
      <4>3. /\ \A j, k \in 1..Len(Q) : Q[j] = Q[k] => j = k
            /\ \A k \in 1..Len(Q) : Q[k] \in hooked \ (armed \cup deaf) /\ Ptp!ServedBy(Q[k]) = t
        BY <3>1, <3>3
      <4>4. sock'[t] = Q[1]
        BY <4>1
      <4> HIDE DEF Q, R
      <4>5. \A k \in 1..Len(R) : k + 1 \in 1..Len(Q) /\ R[k] = Q[k + 1] /\ k \in Nat
        BY <4>2
      <4>6. \A j, k \in 1..Len(R) : R[j] = R[k] => j = k
        <5> TAKE j, k \in 1..Len(R)
        <5> HAVE R[j] = R[k]
        <5>1. j + 1 = k + 1 /\ j \in Nat /\ k \in Nat
          BY <4>3, <4>5
        <5> QED BY <5>1
      <4>7. \A k \in 1..Len(R) : R[k] # Q[1]
        <5> TAKE k \in 1..Len(R)
        <5>1. k + 1 # 1 /\ 1 \in 1..Len(Q) /\ k + 1 \in 1..Len(Q) /\ R[k] = Q[k + 1]
          BY <4>2, <4>5
        <5> QED BY <4>3, <5>1
      <4>8. \A k \in 1..Len(R) : /\ R[k] \in hooked \ (armed \cup deaf) /\ Ptp!ServedBy(R[k]) = t
                                 /\ R[k] # sock'[t]
        BY <4>3, <4>4, <4>5, <4>7
      <4> QED BY <3>3, <4>6, <4>8 DEF R
    <3> QED BY <3>2, <3>3
  <2> QED BY <2>1, <2>3 DEF QueuesAt, Ptp!ServedBy
<1>7. ASSUME NEW t \in Ptp!Tasks, Ptp!Enable(t)
      PROVE  QueuesAt'
  <2>1. /\ sock \in [Ptp!Tasks -> Ptp!AllSockets \cup {Ptp!None}] /\ p_pc[t] # "wait"
        /\ sock' = [sock EXCEPT ![t] = Ptp!None] /\ UNCHANGED <<hooked, mqueue, dev>>
        /\ armed' \cup deaf' = armed \cup deaf \cup {sock[t]}
    BY <1>7 DEF StackShape, Ptp!Enable, Ptp!sockets
  <2>2. dev = "up" /\ Ptp!ServedBy(sock[t]) = t
    BY <2>1 DEF TasksAt
  <2>3. ASSUME NEW u \in Ptp!Tasks, NEW k \in 1..Len(mqueue[u])
        PROVE  /\ mqueue[u][k] \in hooked \ (armed' \cup deaf') /\ Ptp!ServedBy(mqueue[u][k]) = u
               /\ mqueue[u][k] # sock'[u]
    <3>1. /\ mqueue[u][k] \in hooked \ (armed \cup deaf) /\ Ptp!ServedBy(mqueue[u][k]) = u
          /\ mqueue[u][k] # sock[u]
      BY <2>2 DEF QueuesAt
    <3>2. mqueue[u][k] # sock[t]
      BY <2>2, <3>1
    <3>3. mqueue[u][k] \in Ptp!AllSockets
      BY <3>1 DEF Ptp!TypeOK
    <3>4. mqueue[u][k] # Ptp!None
      BY <3>3, Sockets
    <3>5. sock'[u] = Ptp!None \/ sock'[u] = sock[u]
      BY <2>1
    <3> QED BY <2>1, <3>1, <3>2, <3>4, <3>5
  <2> QED BY <2>1, <2>2, <2>3 DEF QueuesAt, Ptp!ServedBy
<1> QED BY <1>1, <1>2, <1>3, <1>4, <1>5, <1>6, <1>7

LEMMA NoneDeafKept ==
    ASSUME Ptp!PtpAssumption, PlanAt, StackShape, Ptp!TypeOK, SetupAt, TasksAt, NoneForgotten,
           [Ptp!Next]_ptpVars
    PROVE  armed' \cap deaf' = {} /\ (dev' # "up" => deaf' = {})
<1>1. armed \cap deaf = {} /\ (dev # "up" => deaf = {})
  BY DEF NoneForgotten
<1>2. CASE Ptp!SetUpStep
  <2>1. dev # "up" /\ dev' = dev /\ UNCHANGED deaf
    BY <1>2 DEF Ptp!SetUpStep, Ptp!InSetup, Ptp!history
  <2> QED BY <1>1, <2>1
<1>3. ASSUME NEW t \in Ptp!Tasks, Ptp!Enable(t)
      PROVE  armed' \cap deaf' = {} /\ (dev' # "up" => deaf' = {})
  <2>1. p_pc[t] # "wait" /\ dev' = dev
    BY <1>3 DEF Ptp!Enable, Ptp!sockets
  <2>2. sock[t] \notin armed \cup deaf /\ dev = "up"
    BY <2>1 DEF TasksAt
  <2>3. \/ armed' = armed \cup {sock[t]} /\ deaf' = deaf
        \/ deaf' = deaf \cup {sock[t]} /\ armed' = armed
    BY <1>3 DEF Ptp!Enable
  <2> QED BY <1>1, <2>1, <2>2, <2>3
<1>4. CASE UNCHANGED deaf /\ armed' \subseteq armed /\ (dev' # "up" => dev # "up")
  BY <1>1, <1>4
<1>5. \/ Ptp!SetUpStep \/ (\E t \in Ptp!Tasks : Ptp!Enable(t))
      \/ UNCHANGED deaf /\ armed' \subseteq armed /\ (dev' # "up" => dev # "up")
  BY StackSteps DEF Ptp!SetUpFails, Ptp!InSetup, Ptp!CreateTasks, Ptp!Callback, Ptp!GetEvent, Ptp!Arrive, Ptp!HostSend,
     Ptp!Drained, Ptp!TakeFrame, Ptp!RxFails, Ptp!TakeStamp, ptpVars, Ptp!sockets, Ptp!history
<1> QED BY <1>2, <1>3, <1>4, <1>5

LEMMA ForgottenKept ==
    ASSUME Ptp!PtpAssumption, PlanAt, StackShape, Ptp!TypeOK, SetupAt, TasksAt, QueuesAt, NoneForgotten,
           [Ptp!Next]_ptpVars, dev' # "freed", p_fault' = "none", NEW s \in hooked' \ deaf'
    PROVE  s \in armed' \/ Queued(s)' \/ sock'[Ptp!ServedBy(s)] = s
<1>1. ASSUME UNCHANGED <<hooked, mqueue, sock>>, armed \subseteq armed', deaf \subseteq deaf',
             dev # "freed", p_fault = "none"
      PROVE  s \in armed' \/ Queued(s)' \/ sock'[Ptp!ServedBy(s)] = s
  BY <1>1 DEF NoneForgotten, Queued, Ptp!ServedBy
<1>2. CASE Ptp!SetUpStep
  <2>1. dev # "freed" /\ p_fault = "none" /\ UNCHANGED <<mqueue, sock, deaf>>
    BY <1>2 DEF Ptp!SetUpStep, Ptp!InSetup, Ptp!history
  <2>2. s \in hooked \/ s \in armed'
    BY <1>2 DEF Ptp!SetUpStep
  <2>3. armed \subseteq armed'
    BY <1>2 DEF Ptp!SetUpStep
  <2> QED BY <2>1, <2>2, <2>3 DEF NoneForgotten, Queued, Ptp!ServedBy
<1>3. ASSUME NEW x \in Ptp!AllSockets, Ptp!Callback(x)
      PROVE  s \in armed' \/ Queued(s)' \/ sock'[Ptp!ServedBy(s)] = s
  <2> DEFINE t == Ptp!ServedBy(x)
  <2>1. /\ x \in armed /\ dev # "freed" /\ p_fault = "none" /\ armed' = armed \ {x} /\ UNCHANGED <<sock, hooked, deaf>>
        /\ mqueue' = IF p_fault' = "none" /\ Len(mqueue[t]) < Depth
                     THEN [mqueue EXCEPT ![t] = Append(mqueue[t], x)] ELSE mqueue
    BY <1>3 DEF Ptp!Callback, Ptp!sockets, Ptp!history
  <2>2. t \in Ptp!Tasks /\ Len(mqueue[t]) < Depth
    BY <2>1, CallbackFinds
  <2>3. mqueue \in [Ptp!Tasks -> Seq(Ptp!AllSockets)]
    BY DEF StackShape
  <2>4. mqueue' = [mqueue EXCEPT ![t] = Append(mqueue[t], x)]
    BY <2>1, <2>2
  <2>5. /\ mqueue'[t] = Append(mqueue[t], x) /\ Len(mqueue[t]) \in Nat
        /\ Len(mqueue'[t]) = Len(mqueue[t]) + 1 /\ mqueue'[t][Len(mqueue[t]) + 1] = x
        /\ \A k \in 1..Len(mqueue[t]) : mqueue'[t][k] = mqueue[t][k]
    <3> HIDE DEF t
    <3>1. mqueue[t] \in Seq(Ptp!AllSockets)
      BY <2>2, <2>3
    <3>2. mqueue'[t] = Append(mqueue[t], x)
      BY <2>2, <2>3, <2>4
    <3> QED BY <3>1, <3>2, AppendIs
  <2>6. \A u \in Ptp!Tasks \ {t} : mqueue'[u] = mqueue[u]
    BY <2>2, <2>3, <2>4
  <2>7. CASE s = x
    <3>1. Len(mqueue[t]) + 1 \in 1..Len(mqueue'[t])
      BY <2>5
    <3>2. \E k \in 1..Len(mqueue'[t]) : mqueue'[t][k] = s
      BY <2>5, <2>7, <3>1
    <3> QED BY <2>7, <3>2 DEF Queued, Ptp!ServedBy
  <2>8. CASE s # x
    <3>1. s \in hooked \ deaf /\ (s \in armed \/ Queued(s) \/ sock[Ptp!ServedBy(s)] = s)
      BY <2>1 DEF NoneForgotten
    <3>2. CASE Queued(s)
      <4> DEFINE u == Ptp!ServedBy(s)
      <4>1. PICK k \in 1..Len(mqueue[u]) : mqueue[u][k] = s
        BY <3>2 DEF Queued
      <4>2. u \in Ptp!Tasks
        BY <3>1, Sockets DEF Ptp!TypeOK
      <4> HIDE DEF t, u
      <4>3. k \in 1..Len(mqueue'[u]) /\ mqueue'[u][k] = s
        <5>1. CASE u = t
          <6>1. k \in 1..Len(mqueue'[t])
            BY <2>5, <4>1, <5>1
          <6> QED BY <2>5, <4>1, <5>1, <6>1
        <5>2. CASE u # t
          BY <2>6, <4>1, <4>2, <5>2
        <5> QED BY <5>1, <5>2
      <4>4. \E l \in 1..Len(mqueue'[u]) : mqueue'[u][l] = s
        BY <4>3
      <4> QED BY <4>4 DEF Queued, u, Ptp!ServedBy
    <3>3. CASE s \in armed \/ sock[Ptp!ServedBy(s)] = s
      BY <2>1, <2>8, <3>3
    <3> QED BY <3>1, <3>2, <3>3
  <2> QED BY <2>7, <2>8
<1>4. ASSUME NEW t \in Ptp!Tasks, Ptp!GetEvent(t)
      PROVE  s \in armed' \/ Queued(s)' \/ sock'[Ptp!ServedBy(s)] = s
  <2>1. /\ mqueue \in [Ptp!Tasks -> Seq(Ptp!AllSockets)] /\ mqueue[t] # <<>> /\ dev = "up" /\ p_fault = "none"
        /\ sock \in [Ptp!Tasks -> Ptp!AllSockets \cup {Ptp!None}] /\ p_pc[t] = "wait"
        /\ sock' = [sock EXCEPT ![t] = Head(mqueue[t])] /\ mqueue' = [mqueue EXCEPT ![t] = Tail(mqueue[t])]
        /\ UNCHANGED <<hooked, armed, deaf>>
    BY <1>4 DEF StackShape, Ptp!GetEvent, Ptp!sockets, Ptp!history
  <2>2. /\ Len(mqueue[t]) \in Nat \ {0} /\ Len(Tail(mqueue[t])) = Len(mqueue[t]) - 1 /\ Head(mqueue[t]) = mqueue[t][1]
        /\ \A k \in 1..(Len(mqueue[t]) - 1) : Tail(mqueue[t])[k] = mqueue[t][k + 1]
    <3>1. mqueue[t] \in Seq(Ptp!AllSockets)
      BY <2>1
    <3> QED BY <2>1, <3>1, TailIs
  <2>3. s \in hooked \ deaf /\ (s \in armed \/ Queued(s) \/ sock[Ptp!ServedBy(s)] = s)
    BY <2>1 DEF NoneForgotten
  <2> DEFINE u == Ptp!ServedBy(s)
  <2>4. u \in Ptp!Tasks /\ s # Ptp!None
    BY <2>3, Sockets DEF Ptp!TypeOK
  <2>5. sock[t] = Ptp!None
    BY <2>1 DEF TasksAt
  <2>6. CASE Queued(s)
    <3>1. PICK k \in 1..Len(mqueue[u]) : mqueue[u][k] = s
      BY <2>6 DEF Queued
    <3> HIDE DEF u
    <3>2. CASE u # t
      <4>1. mqueue'[u] = mqueue[u]
        BY <2>1, <2>4, <3>2
      <4>2. \E l \in 1..Len(mqueue'[u]) : mqueue'[u][l] = s
        BY <3>1, <4>1
      <4> QED BY <4>2 DEF Queued, u, Ptp!ServedBy
    <3>3. CASE u = t /\ k = 1
      <4>1. sock'[u] = s
        BY <2>1, <2>2, <3>1, <3>3
      <4> QED BY <4>1 DEF u
    <3>4. CASE u = t /\ k # 1
      <4>1. mqueue'[u] = Tail(mqueue[t])
        BY <2>1, <3>4
      <4>2. k - 1 \in 1..(Len(mqueue[t]) - 1) /\ (k - 1) + 1 = k
        BY <2>2, <3>1, <3>4
      <4>3. k - 1 \in 1..Len(mqueue'[u]) /\ mqueue'[u][k - 1] = s
        BY <2>2, <3>1, <3>4, <4>1, <4>2
      <4>4. \E l \in 1..Len(mqueue'[u]) : mqueue'[u][l] = s
        BY <4>3
      <4> QED BY <4>4 DEF Queued, u, Ptp!ServedBy
    <3> QED BY <3>2, <3>3, <3>4
  <2>7. CASE s \in armed
    BY <2>1, <2>7
  <2>8. CASE sock[u] = s
    <3>1. u # t
      BY <2>4, <2>5, <2>8
    <3>2. sock'[u] = s
      BY <2>1, <2>4, <2>8, <3>1
    <3> QED BY <3>2
  <2> QED BY <2>3, <2>6, <2>7, <2>8
<1>5. ASSUME NEW t \in Ptp!Tasks, Ptp!Enable(t)
      PROVE  s \in armed' \/ Queued(s)' \/ sock'[Ptp!ServedBy(s)] = s
  <2>1. /\ sock \in [Ptp!Tasks -> Ptp!AllSockets \cup {Ptp!None}] /\ p_pc[t] # "wait"
        /\ sock' = [sock EXCEPT ![t] = Ptp!None] /\ UNCHANGED <<hooked, mqueue, dev, p_fault>>
        /\ armed \subseteq armed' /\ deaf \subseteq deaf'
        /\ sock[t] \in armed' \cup deaf'
    BY <1>5 DEF StackShape, Ptp!Enable, Ptp!sockets
  <2>2. s \in hooked \ deaf /\ (s \in armed \/ Queued(s) \/ sock[Ptp!ServedBy(s)] = s)
    BY <2>1 DEF NoneForgotten
  <2>3. CASE Queued(s)
    BY <2>1, <2>3 DEF Queued, Ptp!ServedBy
  <2>4. CASE s \in armed
    BY <2>1, <2>4
  <2>5. CASE sock[Ptp!ServedBy(s)] = s
    <3>1. CASE Ptp!ServedBy(s) = t
      BY <2>1, <2>5, <3>1
    <3>2. CASE Ptp!ServedBy(s) # t
      <4>1. Ptp!ServedBy(s) \in Ptp!Tasks
        BY <2>2, Sockets DEF Ptp!TypeOK
      <4>2. sock'[Ptp!ServedBy(s)] = s
        BY <2>1, <2>5, <3>2, <4>1
      <4> QED BY <4>2
    <3> QED BY <3>1, <3>2
  <2> QED BY <2>2, <2>3, <2>4, <2>5
<1>6. \/ Ptp!SetUpStep \/ (\E x \in Ptp!AllSockets : Ptp!Callback(x))
      \/ (\E t \in Ptp!Tasks : Ptp!GetEvent(t) \/ Ptp!Enable(t))
      \/ /\ UNCHANGED <<hooked, mqueue, sock>> /\ armed \subseteq armed' /\ deaf \subseteq deaf'
         /\ dev # "freed" /\ p_fault = "none"
  <2>1. CASE UNCHANGED <<p_pc, sock>>
    <3>1. \/ Ptp!SetUpStep \/ (\E x \in Ptp!AllSockets : Ptp!Callback(x))
          \/ (\E t \in Ptp!Tasks : Ptp!GetEvent(t) \/ Ptp!Enable(t))
          \/ UNCHANGED <<hooked, mqueue, armed, deaf, p_fault>> /\ dev # "freed"
      BY StackSteps DEF Ptp!SetUpFails, Ptp!CreateTasks, Ptp!Arrive, Ptp!HostSend,
         Ptp!Drained, Ptp!TakeFrame, Ptp!RxFails, Ptp!TakeStamp, ptpVars, Ptp!sockets, Ptp!history
    <3> QED BY <2>1, <3>1
  <2>2. CASE Ptp!RxFails \/ \E t \in Ptp!Tasks : Ptp!Drained(t)
    BY <2>2 DEF Ptp!RxFails, Ptp!Drained, Ptp!sockets, Ptp!history
  <2>3. \/ UNCHANGED <<p_pc, sock>> \/ Ptp!RxFails
        \/ \E t \in Ptp!Tasks : Ptp!GetEvent(t) \/ Ptp!Enable(t) \/ Ptp!Drained(t)
    BY StackSteps DEF Ptp!SetUpStep, Ptp!CreateTasks, Ptp!SetUpFails, Ptp!HostSend, Ptp!Callback,
       Ptp!Arrive, Ptp!TakeFrame, Ptp!TakeStamp, ptpVars
  <2> QED BY <2>1, <2>2, <2>3
<1> QED BY <1>1, <1>2, <1>3, <1>4, <1>5, <1>6

LEMMA NoneForgottenKept ==
    ASSUME Ptp!PtpAssumption, PlanAt, StackShape, Ptp!TypeOK, SetupAt, TasksAt, QueuesAt, NoneForgotten,
           [Ptp!Next]_ptpVars
    PROVE  NoneForgotten'
BY NoneDeafKept, ForgottenKept DEF NoneForgotten, Ptp!ServedBy

(* The time stamps.                                                        *)
StampAt(p, k) == <<stamps[p][k], plan.hardware_id[p]>>

LEMMA StampedIs ==
    ASSUME StackShape, NEW y
    PROVE  y \in Ptp!Stamped <=> \E p \in Ptp!AllPorts : \E k \in 1..Len(stamps[p]) : y = StampAt(p, k)
<1>1. \A p \in Ptp!AllPorts : DOMAIN stamps[p] = 1..Len(stamps[p])
  <2> TAKE p \in Ptp!AllPorts
  <2>1. stamps[p] \in Seq(Nat)
    BY DEF StackShape
  <2> QED BY <2>1
<1> QED BY <1>1 DEF Ptp!Stamped, StampAt

LEMMA StampedIsNext ==
    ASSUME StackShape', NEW y
    PROVE  y \in Ptp!Stamped' <=> \E p \in Ptp!AllPorts : \E k \in 1..Len(stamps'[p]) : y = <<stamps'[p][k], plan'.hardware_id[p]>>
<1>1. \A p \in Ptp!AllPorts : DOMAIN stamps'[p] = 1..Len(stamps'[p])
  <2> TAKE p \in Ptp!AllPorts
  <2>1. stamps'[p] \in Seq(Nat)
    BY DEF StackShape
  <2> QED BY <2>1
<1> QED BY <1>1 DEF Ptp!Stamped

(* The frame is sent with a stamp on the ports of its number only.         *)
LEMMA SentWithStamp ==
    ASSUME Ptp!PtpAssumption, PlanAt, NEW f, NEW s \in Ptp!SentOn(f), s[2] = "ts"
    PROVE  s = <<s[1], "ts">> /\ s[1] \in Ptp!AllPorts /\ plan.hardware_id[s[1]] = f.port
<1>1. Ptp!ForSwitch(f)
  <2> SUFFICES ASSUME ~Ptp!ForSwitch(f) PROVE FALSE
    OBVIOUS
  <2>1. PICK p : s = <<p, "tx">>
    BY DEF Ptp!SentOn
  <2> QED BY <2>1
<1>2. PICK p \in Ptp!FindPort(f.port) : s = <<p, IF f.id # Ptp!NoStamp /\ Ptp!HasPtp THEN "ts" ELSE "tx">>
  <2>1. PICK p \in (IF f.short THEN {} ELSE Ptp!FindPort(f.port)) :
            s = <<p, IF f.id # Ptp!NoStamp /\ Ptp!HasPtp THEN "ts" ELSE "tx">>
    BY <1>1 DEF Ptp!SentOn
  <2> QED BY <2>1
<1>3. s[1] = p /\ s = <<p, "ts">>
  BY <1>2
<1>4. p \in Ptp!Range(plan.br) /\ plan.hardware_id[p] = f.port
  BY <1>2 DEF Ptp!FindPort
<1>5. plan.br \in Seq(Ptp!AllPorts)
  BY PortsAre
<1>6. p \in Ptp!AllPorts
  BY <1>4, <1>5 DEF Ptp!Range
<1> QED BY <1>3, <1>4, <1>6

LEMMA StampsKept ==
    ASSUME Ptp!PtpAssumption, PlanAt, StackShape, Ptp!TypeOK, TasksAt, Ptp!StampsAreThose, [Ptp!Next]_ptpVars
    PROVE  Ptp!StampsAreThose'
<1>1. StackShape' /\ plan'.hardware_id = plan.hardware_id
  BY PlanKept, StackShapeKept DEF SamePlan
<1>2. stamps \in [Ptp!AllPorts -> Seq(Nat)]
  BY DEF StackShape
<1>3. CASE UNCHANGED <<stamps, asked, returned, lost>>
  <2>1. Ptp!Stamped' = Ptp!Stamped
    BY <1>1, <1>3 DEF Ptp!Stamped
  <2> QED BY <1>3, <2>1 DEF Ptp!StampsAreThose
<1>4. CASE Ptp!TakeStamp
  <2> DEFINE p == sock["ts"][1]
             y == Ptp!Returned(p)
  <2>1. p \in Ptp!AllPorts /\ sock["ts"][2] = "ts"
    BY <1>4, TaskNames, AtWork DEF Ptp!TakeStamp
  <2>2. stamps[p] # <<>> /\ stamps' = [stamps EXCEPT ![p] = Tail(stamps[p])]
    BY <1>4, <2>1 DEF Ptp!TakeStamp, Ptp!Waiting
  <2>3. /\ Len(stamps[p]) \in Nat \ {0} /\ Len(Tail(stamps[p])) = Len(stamps[p]) - 1 /\ Head(stamps[p]) = stamps[p][1]
        /\ \A k \in 1..(Len(stamps[p]) - 1) : Tail(stamps[p])[k] = stamps[p][k + 1]
    <3>1. stamps[p] \in Seq(Nat)
      BY <1>2, <2>1
    <3> QED BY <2>2, <3>1, TailIs
  <2>4. /\ \/ returned' = returned \cup {y} /\ lost' = lost
           \/ lost' = lost \cup {y} /\ returned' = returned
        /\ asked' = asked
    BY <1>4 DEF Ptp!TakeStamp
  <2>5. y = StampAt(p, 1)
    BY <2>3 DEF Ptp!Returned, StampAt
  <2> HIDE DEF p, y
  <2>6. stamps'[p] = Tail(stamps[p]) /\ \A q \in Ptp!AllPorts \ {p} : stamps'[q] = stamps[q]
    BY <1>2, <2>1, <2>2
  <2>7. ASSUME NEW z \in Ptp!Stamped' PROVE z \in Ptp!Stamped
    <3>1. PICK q \in Ptp!AllPorts : \E k \in 1..Len(stamps'[q]) : z = <<stamps'[q][k], plan.hardware_id[q]>>
      BY <1>1, <2>7, StampedIsNext
    <3>2. PICK k \in 1..Len(stamps'[q]) : z = <<stamps'[q][k], plan.hardware_id[q]>>
      BY <3>1
    <3>3. CASE q = p
      <4>1. k \in 1..(Len(stamps[p]) - 1) /\ k + 1 \in 1..Len(stamps[p])
        <5> DEFINE a == Len(stamps[p])
                   b == Len(stamps'[q])
        <5>1. b = a - 1 /\ a \in Nat \ {0} /\ k \in 1..b
          BY <2>3, <2>6, <3>2, <3>3
        <5> HIDE DEF a, b
        <5>2. k \in 1..(a - 1) /\ k + 1 \in 1..a
          BY <5>1
        <5> QED BY <5>2 DEF a
      <4>2. z = StampAt(p, k + 1)
        BY <2>3, <2>6, <3>2, <3>3, <4>1 DEF StampAt
      <4> QED BY <2>1, <4>1, <4>2, StampedIs
    <3>4. CASE q # p
      <4>1. stamps'[q] = stamps[q]
        BY <2>6, <3>4
      <4>2. k \in 1..Len(stamps[q]) /\ z = StampAt(q, k)
        BY <3>2, <4>1 DEF StampAt
      <4> QED BY <4>2, StampedIs
    <3> QED BY <3>3, <3>4
  <2>8. ASSUME NEW z \in Ptp!Stamped PROVE z \in Ptp!Stamped' \/ z = y
    <3>1. PICK q \in Ptp!AllPorts : \E k \in 1..Len(stamps[q]) : z = StampAt(q, k)
      BY StampedIs
    <3>2. PICK k \in 1..Len(stamps[q]) : z = <<stamps[q][k], plan.hardware_id[q]>>
      BY <3>1 DEF StampAt
    <3>3. CASE q = p /\ k = 1
      BY <2>5, <3>2, <3>3 DEF StampAt
    <3>4. CASE q = p /\ k # 1
      <4>1. k - 1 \in 1..(Len(stamps[p]) - 1) /\ (k - 1) + 1 = k
        BY <2>3, <3>2, <3>4
      <4>2. k - 1 \in 1..Len(stamps'[p]) /\ stamps'[p][k - 1] = stamps[p][k]
        BY <2>3, <2>6, <4>1
      <4>3. z = <<stamps'[p][k - 1], plan'.hardware_id[p]>>
        BY <1>1, <3>2, <3>4, <4>2
      <4> QED BY <1>1, <2>1, <4>2, <4>3, StampedIsNext
    <3>5. CASE q # p
      <4>1. stamps'[q] = stamps[q]
        BY <2>6, <3>5
      <4>2. k \in 1..Len(stamps'[q]) /\ z = <<stamps'[q][k], plan'.hardware_id[q]>>
        BY <1>1, <3>2, <4>1
      <4> QED BY <1>1, <4>2, StampedIsNext
    <3> QED BY <3>3, <3>4, <3>5
  <2>9. y \in Ptp!Stamped
    <3>1. 1 \in 1..Len(stamps[p])
      BY <2>3
    <3> QED BY <2>1, <2>5, <3>1, StampedIs
  <2>10. Ptp!Stamped = Ptp!Stamped' \cup {y}
    BY <2>7, <2>8, <2>9
  <2> QED BY <2>4, <2>10 DEF Ptp!StampsAreThose
<1>5. CASE Ptp!HostSend /\ ~UNCHANGED <<stamps, asked>>
  <2> DEFINE f == Head(plan.host)
             sends == {s \in Ptp!SentOn(f) : s[2] = "ts"}
             y == <<f.id, f.port>>
  <2>1. /\ stamps' = [p \in Ptp!AllPorts |->
                        IF <<p, "ts">> \in sends THEN Append(stamps[p], f.id) ELSE stamps[p]]
        /\ asked' = IF sends # {} THEN asked \cup {y} ELSE asked
        /\ UNCHANGED <<returned, lost>>
    BY <1>5 DEF Ptp!HostSend
  <2>2. ASSUME NEW s \in sends
        PROVE  s = <<s[1], "ts">> /\ s[1] \in Ptp!AllPorts /\ plan.hardware_id[s[1]] = f.port
    <3>1. s \in Ptp!SentOn(f) /\ s[2] = "ts"
      OBVIOUS
    <3> HIDE DEF f
    <3> QED BY <3>1, SentWithStamp
  <2>11. f.id \in Nat
    <3>1. /\ plan.host \in Seq([tag : {"dsa", "vlan", "meta"}, port : Nat, id : Nat, short : BOOLEAN])
          /\ plan.host # <<>>
      BY <1>5 DEF PlanAt, Ptp!PlanTypes, Ptp!HostSend
    <3>2. f \in [tag : {"dsa", "vlan", "meta"}, port : Nat, id : Nat, short : BOOLEAN]
      BY <3>1, HeadIsOne
    <3> QED BY <3>2
  <2> HIDE DEF f, sends
  <2>3. \A p \in Ptp!AllPorts :
            /\ <<p, "ts">> \notin sends => stamps'[p] = stamps[p]
            /\ <<p, "ts">> \in sends => /\ Len(stamps[p]) \in Nat /\ Len(stamps'[p]) = Len(stamps[p]) + 1
                                        /\ stamps'[p][Len(stamps[p]) + 1] = f.id /\ plan.hardware_id[p] = f.port
                                        /\ \A k \in 1..Len(stamps[p]) : stamps'[p][k] = stamps[p][k]
    <3> TAKE p \in Ptp!AllPorts
    <3>1. stamps[p] \in Seq(Nat)
      BY <1>2
    <3>2. CASE <<p, "ts">> \notin sends
      BY <2>1, <3>2
    <3>3. CASE <<p, "ts">> \in sends
      <4>1. stamps'[p] = Append(stamps[p], f.id)
        BY <2>1, <3>3
      <4>2. plan.hardware_id[p] = f.port
        BY <2>2, <3>3
      <4>3. Len(stamps[p]) \in Nat
        BY <3>1
      <4> QED BY <2>11, <3>1, <3>3, <4>1, <4>2, <4>3, AppendIs
    <3> QED BY <3>2, <3>3
  <2>4. ASSUME NEW z \in Ptp!Stamped PROVE z \in Ptp!Stamped'
    <3>1. PICK q \in Ptp!AllPorts : \E k \in 1..Len(stamps[q]) : z = StampAt(q, k)
      BY StampedIs
    <3>2. PICK k \in 1..Len(stamps[q]) : z = <<stamps[q][k], plan.hardware_id[q]>>
      BY <3>1 DEF StampAt
    <3>3. k \in 1..Len(stamps'[q]) /\ stamps'[q][k] = stamps[q][k]
      <4>1. CASE <<q, "ts">> \in sends
        <5> DEFINE a == Len(stamps[q])
                   b == Len(stamps'[q])
        <5>1. b = a + 1 /\ a \in Nat /\ k \in 1..a /\ stamps'[q][k] = stamps[q][k]
          BY <2>3, <3>2, <4>1
        <5> HIDE DEF a, b
        <5>2. k \in 1..b
          BY <5>1
        <5> QED BY <5>1, <5>2 DEF b
      <4>2. CASE <<q, "ts">> \notin sends
        BY <2>3, <3>2, <4>2
      <4> QED BY <4>1, <4>2
    <3>4. z = <<stamps'[q][k], plan'.hardware_id[q]>>
      BY <1>1, <3>2, <3>3
    <3> QED BY <1>1, <3>3, <3>4, StampedIsNext
  <2>5. ASSUME NEW z \in Ptp!Stamped' PROVE z \in Ptp!Stamped \/ (z = y /\ sends # {})
    <3>1. PICK q \in Ptp!AllPorts : \E k \in 1..Len(stamps'[q]) : z = <<stamps'[q][k], plan.hardware_id[q]>>
      BY <1>1, StampedIsNext
    <3>2. PICK k \in 1..Len(stamps'[q]) : z = <<stamps'[q][k], plan.hardware_id[q]>>
      BY <3>1
    <3>3. CASE k \in 1..Len(stamps[q]) /\ stamps'[q][k] = stamps[q][k]
      <4>1. z = StampAt(q, k)
        BY <3>2, <3>3 DEF StampAt
      <4> QED BY <3>3, <4>1, StampedIs
    <3>4. CASE ~(k \in 1..Len(stamps[q]) /\ stamps'[q][k] = stamps[q][k])
      <4>1. <<q, "ts">> \in sends /\ k \in 1..Len(stamps'[q])
        BY <2>3, <3>2, <3>4
      <4>2. k = Len(stamps[q]) + 1
        BY <2>3, <3>4, <4>1
      <4> QED BY <2>3, <3>2, <4>1, <4>2
    <3> QED BY <3>3, <3>4
  <2>6. ASSUME sends # {} PROVE y \in Ptp!Stamped'
    <3>1. PICK s \in sends : TRUE
      BY <2>6
    <3> DEFINE q == s[1]
    <3>2. q \in Ptp!AllPorts /\ <<q, "ts">> \in sends
      BY <2>2
    <3> HIDE DEF q
    <3>3. Len(stamps[q]) + 1 \in 1..Len(stamps'[q])
      BY <2>3, <3>2
    <3>4. y = <<stamps'[q][Len(stamps[q]) + 1], plan'.hardware_id[q]>>
      BY <1>1, <2>3, <3>2
    <3> HIDE DEF y
    <3> QED BY <1>1, <3>2, <3>3, <3>4, StampedIsNext
  <2> HIDE DEF y
  <2>7. CASE sends = {}
    <3>1. Ptp!Stamped' = Ptp!Stamped /\ asked' = asked
      BY <2>1, <2>4, <2>5, <2>7
    <3> QED BY <2>1, <3>1 DEF Ptp!StampsAreThose
  <2>8. CASE sends # {}
    <3>1. Ptp!Stamped' = Ptp!Stamped \cup {y} /\ asked' = asked \cup {y}
      BY <2>1, <2>4, <2>5, <2>6, <2>8
    <3> QED BY <2>1, <3>1 DEF Ptp!StampsAreThose
  <2> QED BY <2>7, <2>8
<1>6. UNCHANGED <<stamps, asked, returned, lost>> \/ Ptp!TakeStamp \/ (Ptp!HostSend /\ ~UNCHANGED <<stamps, asked>>)
  BY StackSteps DEF Ptp!SetUpStep, Ptp!CreateTasks, Ptp!SetUpFails, Ptp!Callback, Ptp!GetEvent, Ptp!HostSend,
     Ptp!Arrive, Ptp!Drained, Ptp!Enable, Ptp!TakeFrame, Ptp!RxFails, ptpVars, Ptp!history
<1> QED BY <1>3, <1>4, <1>5, <1>6

(* Every step keeps the invariant.                                         *)
LEMMA StackInductive ==
    ASSUME Ptp!PtpAssumption, StackInv, [Ptp!Next]_ptpVars
    PROVE  StackInv'
<1>1. PlanAt' /\ StackShape' /\ Ptp!TypeOK' /\ SetupAt' /\ LeftOpen' /\ Ptp!NoFault'
  BY PlanKept, StackShapeKept, StackTypeKept, SetupAtKept, LeftOpenKept, StackFaultsKept DEF StackInv
<1>2. TasksAt' /\ QueuesAt' /\ NoneForgotten' /\ Ptp!StampsAreThose'
  BY TasksAtKept, QueuesAtKept, NoneForgottenKept, StampsKept DEF StackInv
<1> QED BY <1>1, <1>2 DEF StackInv

LEMMA StackInitially ==
    ASSUME Ptp!PtpAssumption, NEW p \in Plans, Ptp!InitWith(p)
    PROVE  StackInv
<1> DEFINE kinds == IF "ptp_socket" \in p.flags THEN <<"tx", "rx", "ts", "ptp">> ELSE <<"tx", "rx">>
           all == IF p.early THEN {} ELSE Ptp!Range(Ptp!PortsOf(p)) \X Ptp!Range(kinds)
           calls == {s \in all : s[2] # "tx"}
<1>1. /\ plan = p /\ setup = [port |-> IF p.early THEN 1 ELSE Len(Ptp!PortsOf(p)) + 1, step |-> 1]
      /\ dev = (IF p.early THEN "setup" ELSE "up") /\ open = all /\ opened = all /\ hooked = calls /\ armed = calls
      /\ frames = [s \in Ptp!AllPorts \X {"rx", "ptp"} |-> 0] /\ stamps = [q \in Ptp!AllPorts |-> <<>>]
      /\ mqueue = [t \in Ptp!Tasks |-> <<>>] /\ p_pc = [t \in Ptp!Tasks |-> "wait"]
      /\ sock = [t \in Ptp!Tasks |-> Ptp!None] /\ p_fault = "none"
      /\ asked = {} /\ returned = {} /\ lost = {} /\ deaf = {}
  BY DEF Ptp!InitWith
<1>2. PlanAt
  BY <1>1 DEF PlanAt, Ptp!PtpAssumption
<1>3. /\ Ptp!Ports = Ptp!PortsOf(p) /\ Len(Ptp!Ports) \in Nat /\ Ptp!Ports \in Seq(Ptp!AllPorts)
      /\ Ptp!PortSteps \in {4, 9} /\ (p.early \in BOOLEAN) /\ Depth \in Nat
  BY <1>1, <1>2, PortsAre DEF Ptp!Ports, PlanAt, Ptp!PlanTypes, Ptp!PtpAssumption
<1>4. Ptp!Range(kinds) = IF Ptp!HasPtp THEN {"tx", "rx", "ts", "ptp"} ELSE {"tx", "rx"}
  <2>1. Ptp!HasPtp <=> "ptp_socket" \in p.flags
    BY <1>1 DEF Ptp!HasPtp
  <2>2. Ptp!Range(<<"tx", "rx">>) = {"tx", "rx"}
    BY DEF Ptp!Range
  <2>3. Ptp!Range(<<"tx", "rx", "ts", "ptp">>) = {"tx", "rx", "ts", "ptp"}
    BY DEF Ptp!Range
  <2> QED BY <2>1, <2>2, <2>3
<1>5. Ptp!Range(Ptp!PortsOf(p)) \subseteq Ptp!AllPorts
  BY <1>3 DEF Ptp!Range
<1>6. all \subseteq Ptp!AllSockets
  BY <1>4, <1>5 DEF Ptp!AllSockets
<1> HIDE DEF kinds
<1>7. StackShape
  <2>1. setup \in [port : Nat \ {0}, step : 1..9] /\ setup.step <= Ptp!PortSteps
    <3>1. (IF p.early THEN 1 ELSE Len(Ptp!PortsOf(p)) + 1) \in Nat \ {0}
      BY <1>3
    <3> QED BY <1>1, <1>3, <3>1
  <2>2. stamps \in [Ptp!AllPorts -> Seq(Nat)]
    BY <1>1
  <2>3. mqueue \in [Ptp!Tasks -> Seq(Ptp!AllSockets)]
    BY <1>1
  <2> QED BY <1>1, <2>1, <2>2, <2>3 DEF StackShape
<1>8. Ptp!TypeOK
  <2>1. \A t \in Ptp!Tasks : p_pc[t] = "wait" /\ Len(mqueue[t]) <= Depth
    <3> TAKE t \in Ptp!Tasks
    <3>1. mqueue[t] = <<>> /\ p_pc[t] = "wait"
      BY <1>1
    <3>2. Len(<<>>) = 0
      OBVIOUS
    <3> QED BY <1>3, <3>1, <3>2
  <2> QED BY <1>1, <1>6, <2>1 DEF Ptp!TypeOK
<1>9. SetupAt
  <2> SUFFICES ASSUME NEW s \in Ptp!AllSockets
               PROVE  /\ s \in all <=> StepDone(s, OpenStep(s[2]))
                      /\ s \in calls <=> StepDone(s, HookStep(s[2]))
                      /\ s \in all <=> StepDone(s, MarkStep(s[2]))
    BY <1>1 DEF SetupAt
  <2>1. /\ s[2] \in {"tx", "rx", "ts", "ptp"} /\ s = <<s[1], s[2]>>
        /\ OpenStep(s[2]) \in 1..9 /\ HookStep(s[2]) \in 1..10 /\ MarkStep(s[2]) \in 1..9
    BY Sockets, KindSteps
  <2>2. CASE p.early
    <3>1. setup.port = 1 /\ setup.step = 1 /\ all = {}
      BY <1>1, <2>2
    <3>2. \A j \in 1..Len(Ptp!Ports), k \in 1..10 : ~Past(j, k)
      BY <1>3, <3>1 DEF Past
    <3>3. \A k \in 1..10 : ~StepDone(s, k)
      BY <3>2 DEF StepDone
    <3> QED BY <2>1, <3>1, <3>3
  <2>3. CASE ~p.early
    <3>1. setup.port = Len(Ptp!Ports) + 1
      BY <1>1, <1>3, <2>3
    <3>2. \A j \in 1..Len(Ptp!Ports), k \in 1..10 : Past(j, k)
      BY <1>3, <3>1 DEF Past
    <3>3. s[1] \in Ptp!Range(Ptp!PortsOf(p)) <=> \E j \in 1..Len(Ptp!Ports) : s[1] = Ptp!Ports[j]
      BY <1>3 DEF Ptp!Range
    <3>4. \A k \in 1..10 : StepDone(s, k) <=> k <= Ptp!PortSteps /\ s[1] \in Ptp!Range(Ptp!PortsOf(p))
      BY <3>2, <3>3 DEF StepDone
    <3>5. s \in all <=> s[1] \in Ptp!Range(Ptp!PortsOf(p)) /\ s[2] \in Ptp!Range(kinds)
      BY <2>1, <2>3
    <3>6. Ptp!PortSteps = IF Ptp!HasPtp THEN 9 ELSE 4
      BY DEF Ptp!PortSteps
    <3>7. /\ OpenStep(s[2]) <= Ptp!PortSteps <=> s[2] \in Ptp!Range(kinds)
          /\ MarkStep(s[2]) <= Ptp!PortSteps <=> s[2] \in Ptp!Range(kinds)
          /\ HookStep(s[2]) <= Ptp!PortSteps <=> s[2] \in Ptp!Range(kinds) /\ s[2] # "tx"
      BY <1>4, <2>1, <3>6 DEF OpenStep, HookStep, MarkStep
    <3>8. s \in calls <=> s \in all /\ s[2] # "tx"
      OBVIOUS
    <3> HIDE DEF all, calls
    <3> QED BY <2>1, <3>4, <3>5, <3>7, <3>8
  <2> QED BY <2>2, <2>3
<1>10. LeftOpen /\ Ptp!NoFault
  BY <1>1 DEF LeftOpen, Ptp!NoFault
<1>11. TasksAt /\ QueuesAt
  <2>1. \A t \in Ptp!Tasks : p_pc[t] = "wait" /\ sock[t] = Ptp!None /\ 1..Len(mqueue[t]) = {}
    <3> TAKE t \in Ptp!Tasks
    <3>1. mqueue[t] = <<>> /\ p_pc[t] = "wait" /\ sock[t] = Ptp!None
      BY <1>1
    <3>2. 1..Len(<<>>) = {}
      OBVIOUS
    <3> QED BY <3>1, <3>2
  <2> QED BY <2>1 DEF TasksAt, QueuesAt
<1>12. NoneForgotten
  BY <1>1 DEF NoneForgotten
<1>13. Ptp!StampsAreThose
  <2>1. Ptp!Stamped = {}
    <3> SUFFICES ASSUME NEW z \in Ptp!Stamped PROVE FALSE
      OBVIOUS
    <3>1. PICK q \in Ptp!AllPorts : \E k \in 1..Len(stamps[q]) : z = StampAt(q, k)
      BY <1>7, StampedIs
    <3>2. stamps[q] = <<>>
      BY <1>1
    <3>3. 1..Len(<<>>) = {}
      OBVIOUS
    <3> QED BY <3>1, <3>2, <3>3
  <2> QED BY <1>1, <2>1 DEF Ptp!StampsAreThose
<1> QED BY <1>2, <1>7, <1>8, <1>9, <1>10, <1>11, <1>12, <1>13 DEF StackInv

LEMMA SameCardinality == \A S : Ptp!Cardinality(S) = Cardinality(S)
BY DEF Ptp!Cardinality, Cardinality

(* A socket with a callback is in one place.                               *)
LEMMA InOnePlace ==
    ASSUME StackInv, dev # "freed", p_fault = "none", NEW s \in hooked \ deaf
    PROVE  Ptp!Places(s) = 1
<1> DEFINE t == Ptp!ServedBy(s)
           Q == mqueue[t]
           at == {k \in DOMAIN Q : Q[k] = s}
<1>1. s \in Ptp!AllSockets /\ s # Ptp!None /\ t \in Ptp!Tasks
  BY Sockets DEF StackInv, Ptp!TypeOK
<1>2. Q \in Seq(Ptp!AllSockets)
  BY <1>1 DEF StackInv, StackShape
<1>3. DOMAIN Q = 1..Len(Q)
  BY <1>2
<1>4. s \in armed \/ (\E k \in 1..Len(Q) : Q[k] = s) \/ sock[t] = s
  BY DEF StackInv, NoneForgotten, Queued
<1>5. /\ \A j, k \in 1..Len(Q) : Q[j] = Q[k] => j = k
      /\ \A k \in 1..Len(Q) : Q[k] \notin armed /\ Q[k] # sock[t]
  BY <1>1 DEF StackInv, QueuesAt
<1>6. sock[t] = s => s \notin armed
  BY <1>1 DEF StackInv, TasksAt
<1>7. Cardinality(at) = IF \E k \in 1..Len(Q) : Q[k] = s THEN 1 ELSE 0
  <2>1. CASE \E k \in 1..Len(Q) : Q[k] = s
    <3>1. PICK k \in 1..Len(Q) : Q[k] = s
      BY <2>1
    <3>2. at = {k}
      BY <1>3, <1>5, <3>1
    <3> HIDE DEF at
    <3> QED BY <2>1, <3>2, FS_Singleton
  <2>2. CASE ~\E k \in 1..Len(Q) : Q[k] = s
    <3>1. at = {}
      BY <1>3, <2>2
    <3> HIDE DEF at
    <3> QED BY <2>2, <3>1, FS_EmptySet
  <2> QED BY <2>1, <2>2
<1>8. Ptp!Places(s) = (IF s \in armed THEN 1 ELSE 0) + Cardinality(at) + (IF sock[t] = s THEN 1 ELSE 0)
  BY SameCardinality DEF Ptp!Places
<1> HIDE DEF at, Q, t
<1> QED BY <1>4, <1>5, <1>6, <1>7, <1>8

LEMMA StackFollows ==
    ASSUME StackInv
    PROVE  Ptp!TypeOK /\ Ptp!NoFault /\ Ptp!SocketsServed /\ Ptp!StampsAreThose
BY InOnePlace DEF StackInv, Ptp!SocketsServed

-----------------------------------------------------------------------------
(* The RPMsg wrapper.                                                      *)

(* The messages of the name service, and those of an endpoint.             *)
Announcements == [flags : {"CREATE", "DESTROY"}, dst : Peers]
Echoes == [flags : {"data"}, dst : Rpmsg!Srcs, src : Peers]

(* What TypeOK does not bound.                                             *)
NamesShape ==
    /\ case \in [ept_addr : Seq(Peers), dst : Peers, fails : Nat]
    /\ \E c \in Cases : case.ept_addr = c.ept_addr /\ case.dst = c.dst
    /\ ept \in [Rpmsg!Srcs -> [live : BOOLEAN, remote_addr : Peers \cup {Rpmsg!ANY}, q : Seq(Peers)]]
    /\ rpmsg_src \in Nat \ {0} /\ rpmsg_src <= Rpmsg!Cardinality(Peers) + 1
    /\ ns_mq \in Seq(Announcements) /\ msg \in Announcements \cup {Rpmsg!NoMsg}
    /\ ns # "wait" => msg \in Announcements
    /\ ns \in {"CREATE", "DESTROY"} => msg.flags = ns
    /\ up \in Seq(Announcements \cup Echoes) /\ down \in Seq([dst : Peers, src : Rpmsg!Srcs])
    /\ rept \in [Peers -> [live : BOOLEAN, remote_addr : Rpmsg!Srcs \cup {Rpmsg!ANY}, q : Seq(Rpmsg!Srcs)]]
    /\ n \in Nat /\ i \in Nat \ {0} /\ held \in Nat
    /\ announced \subseteq Peers /\ withdrawn \subseteq announced /\ missed \subseteq Peers

(* An announcement goes from the channel through the queue to the task,    *)
(* which holds it until the endpoint has its address.                      *)
At(q, f, a) == \E k \in 1..Len(q) : q[k].flags = f /\ q[k].dst = a
InTask(f, a) == msg.dst = a /\ (ns = f \/ (f = "CREATE" /\ ns = "address"))
Pending(f, a) == At(up, f, a) \/ At(ns_mq, f, a) \/ InTask(f, a)

(* It comes once, and a peer is created before it is destroyed.            *)
Once(q) == \A j, k \in 1..Len(q) :
    q[j].flags \in {"CREATE", "DESTROY"} /\ q[j].flags = q[k].flags /\ q[j].dst = q[k].dst => j = k
InOrder(q) == \A j, k \in 1..Len(q) :
    q[j].flags = "DESTROY" /\ q[k].flags = "CREATE" /\ q[j].dst = q[k].dst => k < j
PipeAt ==
    /\ Once(up) /\ Once(ns_mq) /\ InOrder(up) /\ InOrder(ns_mq)
    /\ \A a \in Peers :
        /\ \A f \in {"CREATE", "DESTROY"} :
            /\ At(up, f, a) => ~At(ns_mq, f, a)
            /\ InTask(f, a) => ~At(up, f, a) /\ ~At(ns_mq, f, a)
        /\ At(ns_mq, "DESTROY", a) => ~At(up, "CREATE", a)
        /\ InTask("DESTROY", a) => ~At(up, "CREATE", a) /\ ~At(ns_mq, "CREATE", a)
        /\ Pending("CREATE", a) => a \in announced
        /\ Pending("DESTROY", a) => a \in withdrawn

(* The remote has created the peers before n and no other; when it undoes  *)
(* them, those up to n are left.                                           *)
RemoteAt ==
    /\ rinit \in {"create", "task"} => n \in 1..Len(case.ept_addr)
    /\ rinit = "undo" => n <= Len(case.ept_addr)
    /\ \A k \in 1..Len(case.ept_addr) :
        /\ rinit = "create" /\ k >= n => case.ept_addr[k] \notin announced
        /\ rinit = "task" /\ k > n => case.ept_addr[k] \notin announced
        /\ rinit = "create" /\ k < n => case.ept_addr[k] \in announced \ withdrawn
        /\ rinit \in {"task", "undo"} /\ k <= n => case.ept_addr[k] \in announced \ withdrawn

(* The master's endpoints.  One has no address while the task is between   *)
(* NsCreate and NsAddress only.                                            *)
Has(a) == \E s \in Rpmsg!Srcs : ept[s].live /\ ept[s].remote_addr = a
EndpointsAt ==
    /\ \A s \in Rpmsg!Srcs :
        /\ s >= rpmsg_src => ept[s] = Rpmsg!NoEpt
        /\ ept[s].live /\ ept[s].remote_addr = Rpmsg!ANY => ns = "address" /\ s = rpmsg_src - 1
        /\ ~ept[s].live /\ ept[s].remote_addr # Rpmsg!ANY => ept[s].remote_addr \in withdrawn
        /\ \A t \in Rpmsg!Srcs : ept[s].live /\ ept[t].live /\ ept[s].remote_addr = ept[t].remote_addr => s = t
    /\ ns = "address" => /\ rpmsg_src - 1 \in Rpmsg!Srcs
                         /\ ept[rpmsg_src - 1].live /\ ept[rpmsg_src - 1].remote_addr = Rpmsg!ANY

(* A peer has an endpoint from when it is created to when it is destroyed. *)
PeersAt == \A a \in Peers :
    /\ Has(a) => a \in announced /\ ~Pending("CREATE", a)
    /\ a \notin missed =>
        /\ a \in announced /\ ~Pending("CREATE", a) /\ (a \in withdrawn => Pending("DESTROY", a)) => Has(a)
        /\ a \in withdrawn /\ Has(a) => Pending("DESTROY", a)
        /\ a \in withdrawn /\ Pending("CREATE", a) => Pending("DESTROY", a)

(* An address is used up by a peer that was created: there are enough.     *)
Awaits(a) == At(up, "CREATE", a) \/ At(ns_mq, "CREATE", a) \/ (ns = "CREATE" /\ msg.dst = a)
Served == {a \in announced : ~Awaits(a)}
AddressesAt == rpmsg_src - 1 <= Cardinality(Served)

(* The application plays with the peer it looked for, and nobody else      *)
(* sends or is sent anything.                                              *)
PlayAt ==
    /\ held = 0 <=> app \in {"search", "compare"}
    /\ held # 0 => held < rpmsg_src /\ held \in Rpmsg!Srcs /\ ept[held].remote_addr = case.dst
    /\ i <= rpmsg_src
    /\ app = "compare" => i < rpmsg_src /\ (ept[i].live \/ ept[i].remote_addr # Rpmsg!ANY)
    /\ app # "done" => round < Rounds
    /\ up \in Seq(Announcements \cup {m \in Echoes : m.dst = held /\ m.src = case.dst})
    /\ down \in Seq({m \in [dst : Peers, src : Rpmsg!Srcs] : m.dst = case.dst /\ m.src = held})
    /\ \A a \in Peers : /\ rept[a].remote_addr \in {Rpmsg!ANY, held}
                        /\ rept[a].q \in Seq({s \in Rpmsg!Srcs : s = held /\ a = case.dst})
    /\ \A s \in Rpmsg!Srcs : ept[s].q \in Seq({a \in Peers : a = case.dst /\ s = held})

NamesInv ==
    /\ Rpmsg!TypeOK /\ NamesShape /\ PipeAt /\ RemoteAt /\ EndpointsAt /\ PeersAt /\ AddressesAt
    /\ PlayAt /\ Rpmsg!NoFault

LEMMA AtAppend ==
    ASSUME NEW S, NEW q \in Seq(S), NEW x \in S, NEW f, NEW a
    PROVE  At(Append(q, x), f, a) <=> At(q, f, a) \/ (x.flags = f /\ x.dst = a)
<1> DEFINE l == Len(q)
           r == Append(q, x)
<1>1. l \in Nat /\ Len(r) = l + 1 /\ r[l + 1] = x /\ \A k \in 1..l : r[k] = q[k]
  BY AppendIs
<1> HIDE DEF l, r
<1>2. \A k : k \in 1..(l + 1) <=> k \in 1..l \/ k = l + 1
  BY <1>1
<1>3. At(r, f, a) <=> \E k \in 1..(l + 1) : r[k].flags = f /\ r[k].dst = a
  BY <1>1 DEF At
<1>4. At(q, f, a) <=> \E k \in 1..l : q[k].flags = f /\ q[k].dst = a
  BY DEF At, l
<1>5. At(r, f, a) <=> At(q, f, a) \/ (x.flags = f /\ x.dst = a)
  BY <1>1, <1>2, <1>3, <1>4
<1> QED BY <1>5 DEF r

LEMMA AtTail ==
    ASSUME NEW S, NEW q \in Seq(S), q # <<>>, NEW f, NEW a
    PROVE  At(q, f, a) <=> At(Tail(q), f, a) \/ (Head(q).flags = f /\ Head(q).dst = a)
<1> DEFINE l == Len(q)
           r == Tail(q)
<1>1. l \in Nat \ {0} /\ Len(r) = l - 1 /\ Head(q) = q[1] /\ \A k \in 1..(l - 1) : r[k] = q[k + 1]
  BY TailIs
<1> HIDE DEF l, r
<1>2. At(r, f, a) <=> \E k \in 1..(l - 1) : q[k + 1].flags = f /\ q[k + 1].dst = a
  BY <1>1 DEF At
<1>3. At(q, f, a) <=> \E k \in 1..l : q[k].flags = f /\ q[k].dst = a
  BY DEF At, l
<1>4. \A k \in 1..l : k = 1 \/ (k - 1 \in 1..(l - 1) /\ (k - 1) + 1 = k)
  BY <1>1
<1>5. 1 \in 1..l /\ \A k \in 1..(l - 1) : k + 1 \in 1..l
  BY <1>1
<1>6. At(q, f, a) => At(r, f, a) \/ (q[1].flags = f /\ q[1].dst = a)
  BY <1>2, <1>3, <1>4
<1>7. At(r, f, a) \/ (q[1].flags = f /\ q[1].dst = a) => At(q, f, a)
  BY <1>2, <1>3, <1>5
<1>8. At(q, f, a) <=> At(r, f, a) \/ (Head(q).flags = f /\ Head(q).dst = a)
  BY <1>1, <1>6, <1>7
<1> QED BY <1>8 DEF r

(* What is put into a channel that keeps the order, and taken out of it.   *)
LEMMA GoodAppend ==
    ASSUME NEW S, NEW q \in Seq(S), NEW x \in S, Once(q), InOrder(q),
           x.flags \in {"CREATE", "DESTROY"} => ~At(q, x.flags, x.dst),
           x.flags = "CREATE" => ~At(q, "DESTROY", x.dst)
    PROVE  Once(Append(q, x)) /\ InOrder(Append(q, x))
<1> DEFINE l == Len(q)
           r == Append(q, x)
<1>1. l \in Nat /\ Len(r) = l + 1 /\ r[l + 1] = x /\ \A k \in 1..l : r[k] = q[k]
  BY AppendIs
<1> HIDE DEF r
<1>2. \A k \in 1..(l + 1) : k \in 1..l \/ k = l + 1
  BY <1>1
<1>3. \A k \in 1..l : k < l + 1
  BY <1>1
<1>4. \A k \in 1..l : /\ x.flags \in {"CREATE", "DESTROY"} => ~(q[k].flags = x.flags /\ q[k].dst = x.dst)
                      /\ x.flags = "CREATE" => ~(q[k].flags = "DESTROY" /\ q[k].dst = x.dst)
  BY DEF At
<1>5. ASSUME NEW j \in 1..(l + 1), NEW k \in 1..(l + 1),
             r[j].flags \in {"CREATE", "DESTROY"}, r[j].flags = r[k].flags, r[j].dst = r[k].dst
      PROVE  j = k
  <2>1. CASE j \in 1..l /\ k \in 1..l
    BY <1>1, <1>5, <2>1 DEF Once
  <2>2. CASE j \in 1..l /\ k = l + 1
    BY <1>1, <1>4, <1>5, <2>2
  <2>3. CASE j = l + 1 /\ k \in 1..l
    BY <1>1, <1>4, <1>5, <2>3
  <2> QED BY <1>2, <2>1, <2>2, <2>3
<1>6. ASSUME NEW j \in 1..(l + 1), NEW k \in 1..(l + 1),
             r[j].flags = "DESTROY", r[k].flags = "CREATE", r[j].dst = r[k].dst
      PROVE  k < j
  <2>1. CASE j \in 1..l /\ k \in 1..l
    BY <1>1, <1>6, <2>1 DEF InOrder
  <2>2. CASE j \in 1..l /\ k = l + 1
    BY <1>1, <1>4, <1>6, <2>2
  <2>3. CASE j = l + 1 /\ k \in 1..l
    BY <1>3, <2>3
  <2>4. CASE j = k
    BY <1>6, <2>4
  <2> QED BY <1>2, <2>1, <2>2, <2>3, <2>4
<1>7. Once(r)
  BY <1>1, <1>5 DEF Once
<1>8. InOrder(r)
  BY <1>1, <1>6 DEF InOrder
<1> QED BY <1>7, <1>8 DEF r

LEMMA GoodTail ==
    ASSUME NEW S, NEW q \in Seq(S), q # <<>>, Once(q), InOrder(q)
    PROVE  /\ Once(Tail(q)) /\ InOrder(Tail(q))
           /\ Head(q).flags \in {"CREATE", "DESTROY"} => ~At(Tail(q), Head(q).flags, Head(q).dst)
           /\ Head(q).flags = "DESTROY" => ~At(Tail(q), "CREATE", Head(q).dst)
<1> DEFINE l == Len(q)
           r == Tail(q)
<1>1. l \in Nat \ {0} /\ Len(r) = l - 1 /\ Head(q) = q[1] /\ \A k \in 1..(l - 1) : r[k] = q[k + 1]
  BY TailIs
<1> HIDE DEF r
<1>2. \A k \in 1..(l - 1) : k + 1 \in 1..l /\ k + 1 # 1 /\ ~(k + 1 < 1)
  BY <1>1
<1>3. \A j, k \in 1..(l - 1) : (j + 1 = k + 1 => j = k) /\ (j + 1 < k + 1 => j < k)
  BY <1>1
<1>4. 1 \in 1..l
  BY <1>1
<1>5. Once(r)
  BY <1>1, <1>2, <1>3 DEF Once
<1>6. InOrder(r)
  BY <1>1, <1>2, <1>3 DEF InOrder
<1>7. q[1].flags \in {"CREATE", "DESTROY"} => ~At(r, q[1].flags, q[1].dst)
  BY <1>1, <1>2, <1>4 DEF Once, At
<1>8. q[1].flags = "DESTROY" => ~At(r, "CREATE", q[1].dst)
  BY <1>1, <1>2, <1>4 DEF InOrder, At
<1> QED BY <1>1, <1>5, <1>6, <1>7, <1>8 DEF r

LEMMA NamesSteps ==
    ASSUME [Rpmsg!Next]_rpmsgVars
    PROVE  \/ Rpmsg!MasterInit \/ Rpmsg!Receive
           \/ Rpmsg!NsReceive \/ Rpmsg!NsCreate \/ Rpmsg!NsAddress \/ Rpmsg!NsDestroy
           \/ Rpmsg!Search \/ Rpmsg!Compare \/ Rpmsg!AppSend \/ Rpmsg!AppRecv
           \/ Rpmsg!RemoteCreate \/ Rpmsg!RemoteTask \/ Rpmsg!RemoteUndo \/ Rpmsg!RemoteReceive
           \/ \E a \in Peers : Rpmsg!Echo(a)
           \/ UNCHANGED rpmsgVars
BY DEF Rpmsg!Next, Rpmsg!NameService, Rpmsg!Application, Rpmsg!Remote

LEMMA SameNumber == \A S : Rpmsg!Cardinality(S) = Cardinality(S)
BY DEF Rpmsg!Cardinality, Cardinality

LEMMA PeersAre ==
    ASSUME Rpmsg!RpmsgAssumption
    PROVE  /\ IsFiniteSet(Peers) /\ 0 \notin Peers
           /\ Cardinality(Peers) \in Nat /\ Rpmsg!Srcs = 1..Cardinality(Peers)
<1>1. Rpmsg!IsFiniteSet(Peers) /\ 0 \notin Peers
  BY DEF Rpmsg!RpmsgAssumption
<1>2. IsFiniteSet(Peers)
  BY <1>1 DEF Rpmsg!IsFiniteSet, IsFiniteSet
<1>3. Cardinality(Peers) \in Nat
  BY <1>2, FS_CardinalityType
<1>4. Rpmsg!Srcs = 1..Cardinality(Peers)
  BY SameNumber DEF Rpmsg!Srcs
<1> QED BY <1>1, <1>2, <1>3, <1>4

(* Only the number of calls that may fail changes.                         *)
LEMMA CaseKept ==
    ASSUME NamesShape, [Rpmsg!Next]_rpmsgVars
    PROVE  /\ case' \in [ept_addr : Seq(Peers), dst : Peers, fails : Nat]
           /\ case'.ept_addr = case.ept_addr /\ case'.dst = case.dst
<1>1. case \in [ept_addr : Seq(Peers), dst : Peers, fails : Nat]
  BY DEF NamesShape
<1>2. CASE UNCHANGED case
  BY <1>1, <1>2
<1>3. CASE Rpmsg!MayFail
  <2>1. case.fails \in Nat /\ case.fails > 0 /\ case' = [case EXCEPT !.fails = case.fails - 1]
    BY <1>1, <1>3 DEF Rpmsg!MayFail
  <2>2. case.fails - 1 \in Nat
    BY <2>1
  <2> QED BY <1>1, <2>1, <2>2
<1>4. UNCHANGED case \/ Rpmsg!MayFail
  BY NamesSteps DEF Rpmsg!MasterInit, Rpmsg!Receive, Rpmsg!NsReceive, Rpmsg!NsCreate, Rpmsg!NsAddress,
     Rpmsg!NsDestroy, Rpmsg!Search, Rpmsg!Compare, Rpmsg!AppSend, Rpmsg!AppRecv, Rpmsg!AppRest,
     Rpmsg!RemoteCreate, Rpmsg!RemoteTask, Rpmsg!RemoteUndo, Rpmsg!RemoteReceive, Rpmsg!Echo, rpmsgVars
<1> QED BY <1>2, <1>3, <1>4

(* What the interrupt takes from the channel.                              *)
LEMMA HeadUp ==
    ASSUME NamesShape, up # <<>>
    PROVE  /\ Head(up) \in Announcements \cup Echoes /\ Tail(up) \in Seq(Announcements \cup Echoes)
           /\ Head(up).flags = "data" => Head(up) \in Echoes
           /\ Head(up).flags # "data" => Head(up) \in Announcements
<1>1. up \in Seq(Announcements \cup Echoes)
  BY DEF NamesShape
<1>2. Head(up) \in Announcements \cup Echoes
  BY <1>1, HeadIsOne
<1>3. Tail(up) \in Seq(Announcements \cup Echoes)
  BY <1>1
<1>4. \A m \in Announcements : m.flags # "data"
  BY DEF Announcements
<1>5. \A m \in Echoes : m.flags = "data"
  BY DEF Echoes
<1> QED BY <1>2, <1>3, <1>4, <1>5

LEMMA HeadMq ==
    ASSUME NamesShape, ns_mq # <<>>
    PROVE  /\ Head(ns_mq) \in Announcements /\ Tail(ns_mq) \in Seq(Announcements)
           /\ Head(ns_mq).flags \in {"CREATE", "DESTROY"} /\ Head(ns_mq).dst \in Peers
<1>1. ns_mq \in Seq(Announcements)
  BY DEF NamesShape
<1>2. Head(ns_mq) \in Announcements
  BY <1>1, HeadIsOne
<1>3. Tail(ns_mq) \in Seq(Announcements)
  BY <1>1
<1> QED BY <1>2, <1>3 DEF Announcements

(* The peer the remote's init task is at.                                  *)
LEMMA AddrAtHand ==
    ASSUME NamesShape, RemoteAt, rinit \in {"create", "task"} \/ (rinit = "undo" /\ n # 0)
    PROVE  /\ Len(case.ept_addr) \in Nat /\ n \in 1..Len(case.ept_addr)
           /\ Rpmsg!Addr \in Peers
<1> DEFINE A == case.ept_addr
           l == Len(A)
<1>1. A \in Seq(Peers) /\ n \in Nat
  BY DEF NamesShape
<1>2. l \in Nat
  BY <1>1
<1>3. n \in 1..l
  <2> HIDE DEF A, l
  <2>1. rinit \in {"create", "task"} => n \in 1..l
    BY DEF RemoteAt, A, l
  <2>2. rinit = "undo" => n <= l
    BY DEF RemoteAt, A, l
  <2> QED BY <1>1, <1>2, <2>1, <2>2
<1>4. A[n] \in Peers
  BY <1>1, <1>3
<1> QED BY <1>2, <1>3, <1>4 DEF Rpmsg!Addr

LEMMA EptShapeKept ==
    ASSUME Rpmsg!RpmsgAssumption, NamesShape, PlayAt, EndpointsAt, [Rpmsg!Next]_rpmsgVars
    PROVE  ept' \in [Rpmsg!Srcs -> [live : BOOLEAN, remote_addr : Peers \cup {Rpmsg!ANY}, q : Seq(Peers)]]
<1> DEFINE E == [live : BOOLEAN, remote_addr : Peers \cup {Rpmsg!ANY}, q : Seq(Peers)]
           S == Rpmsg!Srcs
<1> SUFFICES ept' \in [S -> E]
  OBVIOUS
<1>1. ept \in [S -> E]
  BY DEF NamesShape
<1>2. CASE UNCHANGED ept
  BY <1>1, <1>2
<1>4. ASSUME NEW s \in S, NEW x \in Seq(Peers), ept' = [ept EXCEPT ![s].q = x]
      PROVE  ept' \in [S -> E]
  <2>1. ept[s] \in E
    BY <1>1
  <2>2. [ept[s] EXCEPT !.q = x] \in E
    BY <2>1, <1>4
  <2>3. ept' = [ept EXCEPT ![s] = [ept[s] EXCEPT !.q = x]]
    BY <1>4
  <2>4. PICK r : r = [ept[s] EXCEPT !.q = x]
    OBVIOUS
  <2>5. r \in E /\ ept' = [ept EXCEPT ![s] = r]
    BY <2>2, <2>3, <2>4
  <2> HIDE DEF S, E
  <2> QED BY <1>1, <2>5
<1>5. CASE Rpmsg!Receive /\ ~UNCHANGED ept
  <2>1. up # <<>> /\ Head(up).flags = "data"
    BY <1>5 DEF Rpmsg!Receive
  <2>2. PICK s, x : s = Head(up).dst /\ x = Append(ept[s].q, Head(up).src)
    OBVIOUS
  <2>3. ept' = [ept EXCEPT ![s].q = x]
    BY <1>5, <2>1, <2>2 DEF Rpmsg!Receive
  <2>4. Head(up).dst \in S /\ Head(up).src \in Peers
    BY <2>1, HeadUp DEF Echoes
  <2>5. s \in S /\ x \in Seq(Peers)
    BY <1>1, <2>2, <2>4
  <2> QED BY <1>4, <2>3, <2>5
<1>6. CASE Rpmsg!NsCreate /\ ~UNCHANGED ept
  <2>1. ept' = [ept EXCEPT ![rpmsg_src] = [Rpmsg!NoEpt EXCEPT !.live = TRUE]]
    BY <1>6 DEF Rpmsg!NsCreate
  <2>2. Rpmsg!NoEpt \in E
    BY DEF Rpmsg!NoEpt
  <2>3. [Rpmsg!NoEpt EXCEPT !.live = TRUE] \in E
    BY <2>2
  <2>4. PICK s, r : s = rpmsg_src /\ r = [Rpmsg!NoEpt EXCEPT !.live = TRUE]
    OBVIOUS
  <2>5. r \in E /\ ept' = [ept EXCEPT ![s] = r]
    BY <2>1, <2>3, <2>4
  <2> HIDE DEF S, E
  <2> QED BY <1>1, <2>5
<1>7. CASE Rpmsg!NsAddress
  <2>1. ns = "address" /\ ept' = [ept EXCEPT ![rpmsg_src - 1].remote_addr = msg.dst]
    BY <1>7 DEF Rpmsg!NsAddress
  <2>2. PICK s, x : s = rpmsg_src - 1 /\ x = msg.dst
    OBVIOUS
  <2>3. x \in Peers /\ s \in S
    BY <2>1, <2>2 DEF NamesShape, EndpointsAt, Announcements
  <2>4. ept[s] \in E
    BY <1>1, <2>3
  <2>5. [ept[s] EXCEPT !.remote_addr = x] \in E
    BY <2>3, <2>4
  <2>6. ept' = [ept EXCEPT ![s] = [ept[s] EXCEPT !.remote_addr = x]]
    BY <2>1, <2>2
  <2>7. PICK r : r = [ept[s] EXCEPT !.remote_addr = x]
    OBVIOUS
  <2>8. r \in E /\ ept' = [ept EXCEPT ![s] = r]
    BY <2>5, <2>6, <2>7
  <2> HIDE DEF S, E
  <2> QED BY <1>1, <2>3, <2>8
<1>8. CASE Rpmsg!NsDestroy
  <2>1. ASSUME NEW s \in S
        PROVE  ept[s] \in E /\ [ept[s] EXCEPT !.live = FALSE, !.q = <<>>] \in E
    <3>1. ept[s] \in E /\ <<>> \in Seq(Peers)
      BY <1>1
    <3>2. [ept[s] EXCEPT !.live = FALSE] \in E
      BY <3>1
    <3>3. [[ept[s] EXCEPT !.live = FALSE] EXCEPT !.q = <<>>] \in E
      BY <3>1, <3>2
    <3> QED BY <3>1, <3>3
  <2>2. PICK F : ept' = [s \in S |-> IF s \in F THEN [ept[s] EXCEPT !.live = FALSE, !.q = <<>>] ELSE ept[s]]
    <3> DEFINE found == {s \in Rpmsg!Searched : Rpmsg!IsFor(s, msg.dst)}
               F == {s \in S : s \in found /\ \A t \in found : s <= t}
    <3>1. ept' = [s \in S |-> IF s \in found /\ \A t \in found : s <= t
                              THEN [ept[s] EXCEPT !.live = FALSE, !.q = <<>>] ELSE ept[s]]
      BY <1>8 DEF Rpmsg!NsDestroy
    <3>2. \A s \in S : s \in F <=> s \in found /\ \A t \in found : s <= t
      OBVIOUS
    <3> HIDE DEF S, F, found
    <3>3. ept' = [s \in S |-> IF s \in F THEN [ept[s] EXCEPT !.live = FALSE, !.q = <<>>] ELSE ept[s]]
      BY <3>1, <3>2
    <3> QED BY <3>3
  <2>3. \A s \in S : (IF s \in F THEN [ept[s] EXCEPT !.live = FALSE, !.q = <<>>] ELSE ept[s]) \in E
    BY <2>1
  <2> DEFINE G == [s \in S |-> IF s \in F THEN [ept[s] EXCEPT !.live = FALSE, !.q = <<>>] ELSE ept[s]]
  <2>4. G \in [S -> E]
    <3> HIDE DEF S, E
    <3> QED BY <2>3
  <2> QED BY <2>2, <2>4
<1>10. CASE Rpmsg!AppRecv
  <2>1. /\ app = "recv" /\ ept' = [ept EXCEPT ![held].q = Tail(ept[held].q)]
        /\ ept[held].q # <<>>
    BY <1>10 DEF Rpmsg!AppRecv, Rpmsg!AppStep
  <2>2. PICK s, x : s = held /\ x = Tail(ept[held].q)
    OBVIOUS
  <2>3. ept' = [ept EXCEPT ![s].q = x]
    BY <2>1, <2>2
  <2>4. held # 0
    BY <2>1 DEF PlayAt
  <2>5. held \in S
    BY <2>4 DEF PlayAt
  <2>6. s \in S /\ x \in Seq(Peers)
    BY <1>1, <2>1, <2>2, <2>5
  <2> QED BY <1>4, <2>3, <2>6
<1>9. \/ UNCHANGED ept \/ Rpmsg!Receive \/ Rpmsg!NsCreate \/ Rpmsg!NsAddress
      \/ Rpmsg!NsDestroy \/ Rpmsg!AppRecv
  BY NamesSteps DEF Rpmsg!MasterInit, Rpmsg!NsReceive, Rpmsg!Search, Rpmsg!Compare, Rpmsg!AppSend,
     Rpmsg!RemoteCreate, Rpmsg!RemoteTask, Rpmsg!RemoteUndo, Rpmsg!RemoteReceive, Rpmsg!RemoteRest,
     Rpmsg!Echo, rpmsgVars
<1> QED BY <1>2, <1>5, <1>6, <1>7, <1>8, <1>9, <1>10

LEMMA NsShapeKept ==
    ASSUME NamesShape, [Rpmsg!Next]_rpmsgVars
    PROVE  /\ ns_mq' \in Seq(Announcements) /\ msg' \in Announcements \cup {Rpmsg!NoMsg}
           /\ ns' \in {"wait", "CREATE", "DESTROY", "address"} \/ ns' = ns
           /\ ns' # "wait" => msg' \in Announcements
           /\ ns' \in {"CREATE", "DESTROY"} => msg'.flags = ns'
<1>1. /\ ns_mq \in Seq(Announcements) /\ msg \in Announcements \cup {Rpmsg!NoMsg}
      /\ ns # "wait" => msg \in Announcements
      /\ ns \in {"CREATE", "DESTROY"} => msg.flags = ns
  BY DEF NamesShape
<1>2. CASE UNCHANGED <<ns_mq, ns, msg>>
  BY <1>1, <1>2
<1>3. CASE Rpmsg!Receive
  <2>1. UNCHANGED <<ns, msg>>
    BY <1>3 DEF Rpmsg!Receive
  <2>2. UNCHANGED ns_mq \/ (up # <<>> /\ Head(up).flags # "data" /\ ns_mq' = Append(ns_mq, Head(up)))
    BY <1>3 DEF Rpmsg!Receive
  <2>3. ns_mq' \in Seq(Announcements)
    BY <1>1, <2>2, HeadUp
  <2> QED BY <1>1, <2>1, <2>3
<1>4. CASE Rpmsg!NsReceive
  <2>1. ns_mq # <<>> /\ msg' = Head(ns_mq) /\ ns_mq' = Tail(ns_mq) /\ ns' = Head(ns_mq).flags
    BY <1>4 DEF Rpmsg!NsReceive
  <2> QED BY <2>1, HeadMq
<1>5. CASE Rpmsg!NsCreate \/ Rpmsg!NsAddress \/ Rpmsg!NsDestroy
  <2>1. /\ ns # "wait" /\ UNCHANGED ns_mq
        /\ (ns' = "wait" /\ msg' = Rpmsg!NoMsg) \/ (ns' = "address" /\ UNCHANGED msg)
    BY <1>5 DEF Rpmsg!NsCreate, Rpmsg!NsAddress, Rpmsg!NsDestroy
  <2> QED BY <1>1, <2>1
<1>6. \/ UNCHANGED <<ns_mq, ns, msg>> \/ Rpmsg!Receive \/ Rpmsg!NsReceive
      \/ Rpmsg!NsCreate \/ Rpmsg!NsAddress \/ Rpmsg!NsDestroy
  BY NamesSteps DEF Rpmsg!MasterInit, Rpmsg!Search, Rpmsg!Compare, Rpmsg!AppSend, Rpmsg!AppRecv,
     Rpmsg!AppRest, Rpmsg!RemoteCreate, Rpmsg!RemoteTask, Rpmsg!RemoteUndo, Rpmsg!RemoteReceive,
     Rpmsg!RemoteRest, Rpmsg!Echo, rpmsgVars, Rpmsg!nsVars
<1> QED BY <1>2, <1>3, <1>4, <1>5, <1>6

LEMMA UpShapeKept ==
    ASSUME NamesShape, RemoteAt, PlayAt, [Rpmsg!Next]_rpmsgVars
    PROVE  up' \in Seq(Announcements \cup Echoes)
<1>1. up \in Seq(Announcements \cup Echoes)
  BY DEF NamesShape
<1>2. CASE UNCHANGED up
  BY <1>1, <1>2
<1>3. CASE Rpmsg!Receive
  <2>1. up # <<>> /\ up' = Tail(up)
    BY <1>3 DEF Rpmsg!Receive
  <2> QED BY <1>1, <2>1
<1>4. ASSUME NEW m \in Announcements \cup Echoes, up' = Append(up, m)
      PROVE  up' \in Seq(Announcements \cup Echoes)
  BY <1>1, <1>4
<1>5. CASE Rpmsg!RemoteCreate \/ Rpmsg!RemoteUndo
  <2>1. ASSUME NEW f \in {"CREATE", "DESTROY"}, Rpmsg!Announce(f, Rpmsg!Addr), Rpmsg!Addr \in Peers
        PROVE  up' \in Seq(Announcements \cup Echoes)
    <3>1. [flags |-> f, dst |-> Rpmsg!Addr] \in Announcements
      BY <2>1 DEF Announcements
    <3> QED BY <1>4, <2>1, <3>1 DEF Rpmsg!Announce
  <2>2. CASE Rpmsg!RemoteCreate /\ ~UNCHANGED up
    BY <2>1, <2>2, AddrAtHand DEF Rpmsg!RemoteCreate
  <2>3. CASE Rpmsg!RemoteUndo /\ ~UNCHANGED up
    BY <2>1, <2>3, AddrAtHand DEF Rpmsg!RemoteUndo
  <2> QED BY <1>2, <1>5, <2>2, <2>3
<1>6. ASSUME NEW a \in Peers, Rpmsg!Echo(a), ~UNCHANGED up
      PROVE  up' \in Seq(Announcements \cup Echoes)
  <2> DEFINE x == Head(rept[a].q)
  <2>1. rept[a].q # <<>> /\ up' = Append(up, [flags |-> "data", dst |-> x, src |-> a])
    BY <1>6 DEF Rpmsg!Echo
  <2>2. rept[a].q \in Seq(Rpmsg!Srcs)
    BY DEF NamesShape
  <2>3. x \in Rpmsg!Srcs
    BY <2>1, <2>2, HeadIsOne
  <2>4. [flags |-> "data", dst |-> x, src |-> a] \in Echoes
    BY <2>3 DEF Echoes
  <2> QED BY <1>4, <2>1, <2>4
<1>7. \/ UNCHANGED up \/ Rpmsg!Receive \/ Rpmsg!RemoteCreate \/ Rpmsg!RemoteUndo
      \/ \E a \in Peers : Rpmsg!Echo(a)
  BY NamesSteps DEF Rpmsg!MasterInit, Rpmsg!NsReceive, Rpmsg!NsCreate, Rpmsg!NsAddress,
     Rpmsg!NsDestroy, Rpmsg!Search, Rpmsg!Compare, Rpmsg!AppSend, Rpmsg!AppRecv,
     Rpmsg!RemoteTask, Rpmsg!RemoteReceive, rpmsgVars
<1> QED BY <1>2, <1>3, <1>5, <1>6, <1>7

LEMMA DownShapeKept ==
    ASSUME NamesShape, PlayAt, [Rpmsg!Next]_rpmsgVars
    PROVE  down' \in Seq([dst : Peers, src : Rpmsg!Srcs])
<1>1. down \in Seq([dst : Peers, src : Rpmsg!Srcs])
  BY DEF NamesShape
<1>2. CASE UNCHANGED down
  BY <1>1, <1>2
<1>3. CASE Rpmsg!RemoteReceive
  <2>1. down # <<>> /\ down' = Tail(down)
    BY <1>3 DEF Rpmsg!RemoteReceive
  <2> QED BY <1>1, <2>1
<1>4. CASE Rpmsg!AppSend
  <2>1. app = "send" /\ down' = Append(down, [dst |-> ept[held].remote_addr, src |-> held])
    BY <1>4 DEF Rpmsg!AppSend, Rpmsg!AppStep
  <2>2. held \in Rpmsg!Srcs /\ ept[held].remote_addr \in Peers
    BY <2>1 DEF PlayAt, NamesShape
  <2> QED BY <1>1, <2>1, <2>2
<1>5. UNCHANGED down \/ Rpmsg!RemoteReceive \/ Rpmsg!AppSend
  BY NamesSteps DEF Rpmsg!MasterInit, Rpmsg!Receive, Rpmsg!NsReceive, Rpmsg!NsCreate, Rpmsg!NsAddress,
     Rpmsg!NsDestroy, Rpmsg!Search, Rpmsg!Compare, Rpmsg!AppRecv, Rpmsg!RemoteCreate,
     Rpmsg!RemoteUndo, Rpmsg!RemoteTask, Rpmsg!Echo, rpmsgVars
<1> QED BY <1>2, <1>3, <1>4, <1>5

LEMMA ReptShapeKept ==
    ASSUME NamesShape, RemoteAt, [Rpmsg!Next]_rpmsgVars
    PROVE  rept' \in [Peers -> [live : BOOLEAN, remote_addr : Rpmsg!Srcs \cup {Rpmsg!ANY}, q : Seq(Rpmsg!Srcs)]]
<1> DEFINE E == [live : BOOLEAN, remote_addr : Rpmsg!Srcs \cup {Rpmsg!ANY}, q : Seq(Rpmsg!Srcs)]
<1> SUFFICES rept' \in [Peers -> E]
  OBVIOUS
<1>1. rept \in [Peers -> E]
  BY DEF NamesShape
<1>2. CASE UNCHANGED rept
  BY <1>1, <1>2
<1>3. ASSUME NEW a, NEW r \in E, rept' = [rept EXCEPT ![a] = r]
      PROVE  rept' \in [Peers -> E]
  <2> HIDE DEF E
  <2> QED BY <1>1, <1>3
<1>4. Rpmsg!NoEpt \in E /\ [Rpmsg!NoEpt EXCEPT !.live = TRUE] \in E
  <2>1. Rpmsg!NoEpt \in E
    BY DEF Rpmsg!NoEpt
  <2> QED BY <2>1
<1>5. CASE Rpmsg!RemoteCreate /\ ~UNCHANGED rept
  <2>1. PICK a, r : a = Rpmsg!Addr /\ r = [Rpmsg!NoEpt EXCEPT !.live = TRUE]
    OBVIOUS
  <2>2. rept' = [rept EXCEPT ![a] = r]
    BY <1>5, <2>1 DEF Rpmsg!RemoteCreate
  <2> HIDE DEF E
  <2> QED BY <1>1, <1>4, <2>1, <2>2
<1>6. CASE Rpmsg!RemoteUndo /\ ~UNCHANGED rept
  <2>1. PICK a, r : a = Rpmsg!Addr /\ r = Rpmsg!NoEpt
    OBVIOUS
  <2>2. rept' = [rept EXCEPT ![a] = r]
    BY <1>6, <2>1 DEF Rpmsg!RemoteUndo
  <2> HIDE DEF E
  <2> QED BY <1>1, <1>4, <2>1, <2>2
<1>7. CASE Rpmsg!RemoteReceive /\ ~UNCHANGED rept
  <2>1. down # <<>> /\ down \in Seq([dst : Peers, src : Rpmsg!Srcs])
    BY <1>7 DEF Rpmsg!RemoteReceive, NamesShape
  <2>2. Head(down) \in [dst : Peers, src : Rpmsg!Srcs]
    BY <2>1, HeadIsOne
  <2>3. PICK a, x : a = Head(down).dst /\ x = Append(rept[a].q, Head(down).src)
    OBVIOUS
  <2>4. rept' = [rept EXCEPT ![a].q = x]
    BY <1>7, <2>3 DEF Rpmsg!RemoteReceive
  <2>5. a \in Peers /\ x \in Seq(Rpmsg!Srcs) /\ rept[a] \in E
    BY <1>1, <2>2, <2>3
  <2>6. [rept[a] EXCEPT !.q = x] \in E
    BY <2>5
  <2>7. PICK r : r = [rept[a] EXCEPT !.q = x]
    OBVIOUS
  <2>8. rept' = [rept EXCEPT ![a] = r] /\ r \in E
    BY <2>4, <2>6, <2>7
  <2> HIDE DEF E
  <2> QED BY <1>1, <2>5, <2>8
<1>8. ASSUME NEW a \in Peers, Rpmsg!Echo(a)
      PROVE  rept' \in [Peers -> E]
  <2>1. rept[a].q # <<>> /\ rept[a].q \in Seq(Rpmsg!Srcs) /\ rept[a] \in E
    BY <1>1, <1>8 DEF Rpmsg!Echo
  <2>2. Head(rept[a].q) \in Rpmsg!Srcs
    BY <2>1, HeadIsOne
  <2>3. PICK x, y : x = Tail(rept[a].q)
                    /\ y = IF rept[a].remote_addr = Rpmsg!ANY THEN Head(rept[a].q) ELSE rept[a].remote_addr
    OBVIOUS
  <2>4. x \in Seq(Rpmsg!Srcs) /\ y \in Rpmsg!Srcs \cup {Rpmsg!ANY}
    BY <2>1, <2>2, <2>3
  <2>5. rept' = [rept EXCEPT ![a] = [[rept[a] EXCEPT !.q = x] EXCEPT !.remote_addr = y]]
    BY <1>1, <1>8, <2>3 DEF Rpmsg!Echo
  <2>6. [rept[a] EXCEPT !.q = x] \in E
    BY <2>1, <2>4
  <2>7. [[rept[a] EXCEPT !.q = x] EXCEPT !.remote_addr = y] \in E
    BY <2>4, <2>6
  <2>8. PICK r : r = [[rept[a] EXCEPT !.q = x] EXCEPT !.remote_addr = y]
    OBVIOUS
  <2>9. rept' = [rept EXCEPT ![a] = r] /\ r \in E
    BY <2>5, <2>7, <2>8
  <2> HIDE DEF E
  <2> QED BY <1>1, <2>9
<1>9. \/ UNCHANGED rept \/ Rpmsg!RemoteCreate \/ Rpmsg!RemoteUndo \/ Rpmsg!RemoteReceive
      \/ \E a \in Peers : Rpmsg!Echo(a)
  BY NamesSteps DEF Rpmsg!MasterInit, Rpmsg!Receive, Rpmsg!NsReceive, Rpmsg!NsCreate, Rpmsg!NsAddress,
     Rpmsg!NsDestroy, Rpmsg!Search, Rpmsg!Compare, Rpmsg!AppSend, Rpmsg!AppRecv, Rpmsg!AppRest,
     Rpmsg!RemoteTask, Rpmsg!peerVars, rpmsgVars
<1> QED BY <1>2, <1>5, <1>6, <1>7, <1>8, <1>9

(* Where the remote's init task is.                                        *)
LEMMA RemoteAtKept ==
    ASSUME Rpmsg!RpmsgAssumption, NamesShape, Rpmsg!TypeOK, RemoteAt, [Rpmsg!Next]_rpmsgVars
    PROVE  n' \in Nat /\ RemoteAt'
<1> DEFINE A == case.ept_addr
           l == Len(A)
<1>1. A \in Seq(Peers) /\ n \in Nat /\ case'.ept_addr = A
  BY CaseKept DEF NamesShape
<1>2. l \in Nat /\ \A k \in 1..l : A[k] \in Peers
  BY <1>1
<1>3. \A j, k \in 1..l : A[j] = A[k] => j = k
  <2>1. PICK c \in Cases : A = c.ept_addr
    BY DEF NamesShape
  <2>2. Rpmsg!IsInjective(A)
    BY <2>1 DEF Rpmsg!RpmsgAssumption
  <2>3. DOMAIN A = 1..l
    BY <1>1
  <2> QED BY <2>2, <2>3 DEF Rpmsg!IsInjective
<1>4. /\ rinit \in {"create", "task"} => n \in 1..l
      /\ rinit = "undo" => n <= l
      /\ \A k \in 1..l :
            /\ rinit = "create" /\ k >= n => A[k] \notin announced
            /\ rinit = "task" /\ k > n => A[k] \notin announced
            /\ rinit = "create" /\ k < n => A[k] \in announced \ withdrawn
            /\ rinit \in {"task", "undo"} /\ k <= n => A[k] \in announced \ withdrawn
  BY DEF RemoteAt
<1>5. withdrawn \subseteq announced /\ rinit \in {"create", "task", "undo", "suspended", "failed"}
  BY DEF NamesShape, Rpmsg!TypeOK
<1> SUFFICES /\ n' \in Nat
             /\ rinit' \in {"create", "task"} => n' \in 1..l
             /\ rinit' = "undo" => n' <= l
             /\ \A k \in 1..l :
                  /\ rinit' = "create" /\ k >= n' => A[k] \notin announced'
                  /\ rinit' = "task" /\ k > n' => A[k] \notin announced'
                  /\ rinit' = "create" /\ k < n' => A[k] \in announced' \ withdrawn'
                  /\ rinit' \in {"task", "undo"} /\ k <= n' => A[k] \in announced' \ withdrawn'
  BY <1>1 DEF RemoteAt
<1>6. CASE UNCHANGED <<rinit, n, announced, withdrawn>>
  <2> HIDE DEF A, l
  <2> QED BY <1>1, <1>4, <1>6
<1>7. CASE Rpmsg!RemoteCreate
  <2>1. rinit = "create"
    BY <1>7 DEF Rpmsg!RemoteCreate
  <2>2. CASE Rpmsg!Announce("CREATE", Rpmsg!Addr) /\ rinit' = "task" /\ UNCHANGED n
    <3>1. announced' = announced \cup {A[n]} /\ withdrawn' = withdrawn
      BY <2>2 DEF Rpmsg!Announce, Rpmsg!Addr
    <3> HIDE DEF A, l
    <3>2. n \in 1..l
      BY <1>4, <2>1
    <3>3. \A k \in 1..l : k < n \/ k = n \/ k > n
      BY <1>2, <3>2
    <3>4. A[n] \notin withdrawn
      BY <1>2, <1>4, <1>5, <2>1, <3>2
    <3>5. ASSUME NEW k \in 1..l, k > n
          PROVE  A[k] \notin announced'
      BY <1>2, <1>3, <1>4, <2>1, <3>1, <3>2, <3>5
    <3>6. ASSUME NEW k \in 1..l, k <= n
          PROVE  A[k] \in announced' \ withdrawn'
      BY <1>2, <1>3, <1>4, <2>1, <3>1, <3>2, <3>3, <3>4, <3>6
    <3> QED BY <1>1, <2>2, <3>2, <3>5, <3>6
  <2>3. CASE rinit' = "undo" /\ n' = n - 1 /\ UNCHANGED <<announced, withdrawn>>
    <3> HIDE DEF A, l
    <3> QED BY <1>1, <1>2, <1>4, <2>1, <2>3
  <2> QED BY <1>7, <2>2, <2>3 DEF Rpmsg!RemoteCreate
<1>8. CASE Rpmsg!RemoteTask
  <2>1. rinit = "task" /\ UNCHANGED <<announced, withdrawn>>
    BY <1>8 DEF Rpmsg!RemoteTask
  <2>2. \/ n' = n + 1 /\ rinit' = IF n = l THEN "suspended" ELSE "create"
        \/ rinit' = "undo" /\ n' = n
    BY <1>8 DEF Rpmsg!RemoteTask, Rpmsg!NextPeer
  <2> HIDE DEF A, l
  <2> QED BY <1>1, <1>2, <1>4, <2>1, <2>2
<1>9. CASE Rpmsg!RemoteUndo
  <2>1. rinit = "undo"
    BY <1>9 DEF Rpmsg!RemoteUndo
  <2>2. CASE n = 0
    <3>1. rinit' = "failed" /\ UNCHANGED n
      BY <1>9, <2>2 DEF Rpmsg!RemoteUndo
    <3> QED BY <1>1, <3>1
  <2>3. CASE n # 0
    <3>1. /\ rinit' = "undo" /\ n' = n - 1
          /\ announced' = announced /\ withdrawn' = withdrawn \cup {A[n]}
      BY <1>9, <2>1, <2>3 DEF Rpmsg!RemoteUndo, Rpmsg!Announce, Rpmsg!Addr
    <3> HIDE DEF A, l
    <3>2. n - 1 \in Nat /\ n - 1 <= l /\ n \in 1..l
      BY <1>1, <1>2, <1>4, <2>1, <2>3
    <3>3. ASSUME NEW k \in 1..l, k <= n - 1
          PROVE  A[k] \in announced' \ withdrawn'
      BY <1>2, <1>3, <1>4, <2>1, <3>1, <3>2, <3>3
    <3> QED BY <3>1, <3>2, <3>3
  <2> QED BY <2>2, <2>3
<1>10. \/ UNCHANGED <<rinit, n, announced, withdrawn>>
       \/ Rpmsg!RemoteCreate \/ Rpmsg!RemoteTask \/ Rpmsg!RemoteUndo
  BY NamesSteps DEF Rpmsg!MasterInit, Rpmsg!Receive, Rpmsg!NsReceive, Rpmsg!NsCreate, Rpmsg!NsAddress,
     Rpmsg!NsDestroy, Rpmsg!Search, Rpmsg!Compare, Rpmsg!AppSend, Rpmsg!AppRecv, Rpmsg!AppRest,
     Rpmsg!RemoteReceive, Rpmsg!Echo, Rpmsg!peerVars, Rpmsg!history, rpmsgVars
<1> QED BY <1>6, <1>7, <1>8, <1>9, <1>10

(* What is recorded grows.                                                 *)
LEMMA HistoryKept ==
    ASSUME NamesShape, RemoteAt, [Rpmsg!Next]_rpmsgVars
    PROVE  /\ announced' \subseteq Peers /\ withdrawn' \subseteq announced' /\ missed' \subseteq Peers
           /\ announced \subseteq announced' /\ withdrawn \subseteq withdrawn' /\ missed \subseteq missed'
<1>1. announced \subseteq Peers /\ withdrawn \subseteq announced /\ missed \subseteq Peers
  BY DEF NamesShape
<1>2. CASE UNCHANGED <<announced, withdrawn, missed>>
  BY <1>1, <1>2
<1>3. CASE Rpmsg!Receive
  <2>1. UNCHANGED <<announced, withdrawn>> /\ up # <<>>
    BY <1>3 DEF Rpmsg!Receive
  <2>2. UNCHANGED missed \/ (Head(up).flags # "data" /\ missed' = missed \cup {Head(up).dst})
    BY <1>3 DEF Rpmsg!Receive
  <2>3. Head(up).flags # "data" => Head(up).dst \in Peers
    BY <2>1, HeadUp DEF Announcements
  <2> QED BY <1>1, <2>1, <2>2, <2>3
<1>4. CASE Rpmsg!NsCreate
  <2>1. /\ UNCHANGED <<announced, withdrawn>> /\ ns = "CREATE"
        /\ UNCHANGED missed \/ missed' = missed \cup {msg.dst}
    BY <1>4 DEF Rpmsg!NsCreate
  <2>2. msg.dst \in Peers
    BY <2>1 DEF NamesShape, Announcements
  <2> QED BY <1>1, <2>1, <2>2
<1>5. CASE Rpmsg!RemoteCreate
  <2>1. /\ rinit = "create" /\ UNCHANGED missed
        /\ UNCHANGED <<announced, withdrawn>> \/ Rpmsg!Announce("CREATE", Rpmsg!Addr)
    BY <1>5 DEF Rpmsg!RemoteCreate, Rpmsg!RemoteRest
  <2> QED BY <1>1, <2>1, AddrAtHand DEF Rpmsg!Announce
<1>6. CASE Rpmsg!RemoteUndo
  <2>1. CASE n = 0
    <3>1. UNCHANGED <<announced, withdrawn, missed>>
      BY <1>6, <2>1 DEF Rpmsg!RemoteUndo, Rpmsg!RemoteRest
    <3> QED BY <1>1, <3>1
  <2>2. CASE n # 0
    <3>1. rinit = "undo" /\ UNCHANGED missed /\ Rpmsg!Announce("DESTROY", Rpmsg!Addr)
      BY <1>6, <2>2 DEF Rpmsg!RemoteUndo, Rpmsg!RemoteRest
    <3>2. Rpmsg!Addr \in announced
      BY <2>2, <3>1, AddrAtHand DEF RemoteAt, Rpmsg!Addr
    <3> QED BY <1>1, <3>1, <3>2 DEF Rpmsg!Announce
  <2> QED BY <2>1, <2>2
<1>7. \/ UNCHANGED <<announced, withdrawn, missed>> \/ Rpmsg!Receive \/ Rpmsg!NsCreate
      \/ Rpmsg!RemoteCreate \/ Rpmsg!RemoteUndo
  BY NamesSteps DEF Rpmsg!MasterInit, Rpmsg!NsReceive, Rpmsg!NsAddress, Rpmsg!NsDestroy,
     Rpmsg!Search, Rpmsg!Compare, Rpmsg!AppSend, Rpmsg!AppRecv, Rpmsg!AppRest,
     Rpmsg!RemoteTask, Rpmsg!RemoteRest, Rpmsg!RemoteReceive, Rpmsg!Echo, Rpmsg!history, rpmsgVars
<1> QED BY <1>2, <1>3, <1>4, <1>5, <1>6, <1>7

(* What a step does to the name service.  A step is calm when it neither   *)
(* moves an announcement nor changes who has an endpoint.                  *)
Kept(q, r) == \A f \in {"CREATE", "DESTROY"}, a \in Peers : At(r, f, a) <=> At(q, f, a)
Calm ==
    /\ UNCHANGED <<ns_mq, ns, msg, rpmsg_src, announced, withdrawn, missed>>
    /\ Once(up') /\ InOrder(up') /\ Kept(up, up')
    /\ \A s \in Rpmsg!Srcs : /\ ept'[s].live = ept[s].live /\ ept'[s].remote_addr = ept[s].remote_addr
                             /\ ~ept[s].live => ept'[s] = ept[s]
Says(f) ==
    /\ UNCHANGED <<ns_mq, ns, msg, rpmsg_src, ept, missed>>
    /\ Rpmsg!Announce(f, Rpmsg!Addr) /\ Rpmsg!Addr \in Peers
    /\ IF f = "CREATE" THEN Rpmsg!Addr \notin announced ELSE Rpmsg!Addr \in announced \ withdrawn
Arrives == Rpmsg!Receive /\ Head(up).flags # "data"

LEMMA DataGoes ==
    ASSUME NamesShape, PipeAt, up # <<>>, Head(up).flags = "data", up' = Tail(up)
    PROVE  Once(up') /\ InOrder(up') /\ Kept(up, up')
<1>1. up \in Seq(Announcements \cup Echoes) /\ Once(up) /\ InOrder(up)
  BY DEF NamesShape, PipeAt
<1>2. Once(up') /\ InOrder(up')
  BY <1>1, GoodTail
<1>3. ASSUME NEW f \in {"CREATE", "DESTROY"}, NEW a \in Peers
      PROVE  At(up', f, a) <=> At(up, f, a)
  <2>1. At(up, f, a) <=> At(Tail(up), f, a) \/ (Head(up).flags = f /\ Head(up).dst = a)
    BY <1>1, AtTail
  <2> QED BY <1>3, <2>1
<1> QED BY <1>2, <1>3 DEF Kept

LEMMA DataComes ==
    ASSUME NamesShape, PipeAt, NEW x \in Echoes, up' = Append(up, x)
    PROVE  Once(up') /\ InOrder(up') /\ Kept(up, up')
<1>1. up \in Seq(Announcements \cup Echoes) /\ Once(up) /\ InOrder(up)
  BY DEF NamesShape, PipeAt
<1>2. x.flags = "data" /\ x \in Announcements \cup Echoes
  BY DEF Echoes
<1>3. Once(up') /\ InOrder(up')
  BY <1>1, <1>2, GoodAppend
<1>4. ASSUME NEW f \in {"CREATE", "DESTROY"}, NEW a \in Peers
      PROVE  At(up', f, a) <=> At(up, f, a)
  <2>1. At(Append(up, x), f, a) <=> At(up, f, a) \/ (x.flags = f /\ x.dst = a)
    BY <1>1, <1>2, AtAppend
  <2> QED BY <1>2, <1>4, <2>1
<1> QED BY <1>3, <1>4 DEF Kept

LEMMA AnswerIs ==
    ASSUME NamesShape, NEW a \in Peers, Rpmsg!Echo(a)
    PROVE  \/ UNCHANGED up
           \/ \E x \in Echoes : x.dst = Head(rept[a].q) /\ x.src = a /\ up' = Append(up, x)
<1> DEFINE d == Head(rept[a].q)
<1>1. rept[a].q # <<>> /\ rept[a].q \in Seq(Rpmsg!Srcs)
  BY DEF Rpmsg!Echo, NamesShape
<1>2. d \in Rpmsg!Srcs
  BY <1>1, HeadIsOne
<1>3. UNCHANGED up \/ up' = Append(up, [flags |-> "data", dst |-> d, src |-> a])
  BY DEF Rpmsg!Echo
<1>4. [flags |-> "data", dst |-> d, src |-> a] \in Echoes
  BY <1>2 DEF Echoes
<1> QED BY <1>3, <1>4

LEMMA Effects ==
    ASSUME Rpmsg!RpmsgAssumption, NamesShape, PipeAt, RemoteAt, PlayAt, [Rpmsg!Next]_rpmsgVars
    PROVE  \/ Calm \/ Says("CREATE") \/ Says("DESTROY") \/ Arrives
           \/ Rpmsg!NsReceive \/ Rpmsg!NsCreate \/ Rpmsg!NsAddress \/ Rpmsg!NsDestroy
<1> DEFINE E == [live : BOOLEAN, remote_addr : Peers \cup {Rpmsg!ANY}, q : Seq(Peers)]
           Rest == UNCHANGED <<ns_mq, ns, msg, rpmsg_src, announced, withdrawn, missed>>
           Good == Once(up') /\ InOrder(up') /\ Kept(up, up')
           Live == \A s \in Rpmsg!Srcs :
                     /\ ept'[s].live = ept[s].live /\ ept'[s].remote_addr = ept[s].remote_addr
                     /\ ~ept[s].live => ept'[s] = ept[s]
<1>1. ept \in [Rpmsg!Srcs -> E] /\ Once(up) /\ InOrder(up) /\ Kept(up, up)
  BY DEF NamesShape, PipeAt, Kept
<1>2. UNCHANGED up => Good
  BY <1>1
<1>3. UNCHANGED ept => Live
  OBVIOUS
<1>4. ASSUME NEW s \in Rpmsg!Srcs, NEW x, ept[s].live, ept' = [ept EXCEPT ![s].q = x]
      PROVE  Live
  BY <1>1, <1>4
<1>5. Rest /\ Good /\ Live => Calm
  BY DEF Calm
<1>6. CASE Rpmsg!Receive /\ Head(up).flags = "data"
  <2>1. Rest /\ up # <<>> /\ up' = Tail(up)
    BY <1>6 DEF Rpmsg!Receive
  <2>2. Head(up).dst \in Rpmsg!Srcs
    BY <1>6, <2>1, HeadUp DEF Echoes
  <2>3. UNCHANGED ept \/ \E x : ept[Head(up).dst].live /\ ept' = [ept EXCEPT ![Head(up).dst].q = x]
    BY <1>6 DEF Rpmsg!Receive
  <2>4. Live
    <3> HIDE DEF Live
    <3> QED BY <1>3, <1>4, <2>2, <2>3
  <2> QED BY <1>5, <1>6, <2>1, <2>4, DataGoes
<1>7. CASE Rpmsg!AppRecv
  <2>1. Rest /\ UNCHANGED up /\ app = "recv" /\ ept[held].live
    BY <1>7 DEF Rpmsg!AppRecv, Rpmsg!AppStep, Rpmsg!AppRest, Rpmsg!nsVars, Rpmsg!history
  <2>2. held # 0
    BY <2>1 DEF PlayAt
  <2>3. held \in Rpmsg!Srcs
    BY <2>2 DEF PlayAt
  <2>4. \E x : ept' = [ept EXCEPT ![held].q = x]
    BY <1>7 DEF Rpmsg!AppRecv
  <2>5. Live
    <3> HIDE DEF Live
    <3> QED BY <1>4, <2>1, <2>3, <2>4
  <2> QED BY <1>2, <1>5, <2>1, <2>5
<1>8. ASSUME NEW a \in Peers, Rpmsg!Echo(a)
      PROVE  Calm
  <2>1. Rest /\ UNCHANGED ept
    BY <1>8 DEF Rpmsg!Echo, Rpmsg!nsVars, Rpmsg!history
  <2>2. Good
    BY <1>2, <1>8, AnswerIs, DataComes
  <2> QED BY <1>3, <1>5, <2>1, <2>2
<1>9. CASE Rpmsg!RemoteCreate
  <2>1. rinit = "create" /\ UNCHANGED <<ns_mq, ns, msg, rpmsg_src, ept, missed>>
    BY <1>9 DEF Rpmsg!RemoteCreate, Rpmsg!RemoteRest, Rpmsg!nsVars
  <2>2. Rpmsg!Addr \in Peers /\ n \in 1..Len(case.ept_addr) /\ Len(case.ept_addr) \in Nat
    BY <2>1, AddrAtHand
  <2>3. n >= n
    BY <2>2
  <2>4. Rpmsg!Addr \notin announced
    BY <2>1, <2>2, <2>3 DEF RemoteAt, Rpmsg!Addr
  <2>5. Rpmsg!Announce("CREATE", Rpmsg!Addr) \/ UNCHANGED <<up, announced, withdrawn>>
    BY <1>9 DEF Rpmsg!RemoteCreate
  <2>6. CASE Rpmsg!Announce("CREATE", Rpmsg!Addr)
    BY <2>1, <2>2, <2>4, <2>6 DEF Says
  <2>7. CASE UNCHANGED <<up, announced, withdrawn>>
    BY <1>2, <1>3, <1>5, <2>1, <2>7
  <2> QED BY <2>5, <2>6, <2>7
<1>10. CASE Rpmsg!RemoteUndo
  <2>1. rinit = "undo" /\ UNCHANGED <<ns_mq, ns, msg, rpmsg_src, ept, missed>>
    BY <1>10 DEF Rpmsg!RemoteUndo, Rpmsg!RemoteRest, Rpmsg!nsVars
  <2>2. CASE n = 0
    <3>1. UNCHANGED <<up, announced, withdrawn>>
      BY <1>10, <2>2 DEF Rpmsg!RemoteUndo
    <3> QED BY <1>2, <1>3, <1>5, <2>1, <3>1
  <2>3. CASE n # 0
    <3>1. Rpmsg!Addr \in Peers /\ n \in 1..Len(case.ept_addr) /\ Len(case.ept_addr) \in Nat
      BY <2>1, <2>3, AddrAtHand
    <3>2. n <= n
      BY <3>1
    <3>3. Rpmsg!Addr \in announced \ withdrawn
      BY <2>1, <3>1, <3>2 DEF RemoteAt, Rpmsg!Addr
    <3>4. Rpmsg!Announce("DESTROY", Rpmsg!Addr)
      BY <1>10, <2>3 DEF Rpmsg!RemoteUndo
    <3> QED BY <2>1, <3>1, <3>3, <3>4 DEF Says
  <2> QED BY <2>2, <2>3
<1>11. CASE Rest /\ UNCHANGED <<up, ept>>
  BY <1>2, <1>3, <1>5, <1>11
<1>12. \/ Rest /\ UNCHANGED <<up, ept>>
       \/ Rpmsg!Receive \/ Rpmsg!AppRecv \/ (\E a \in Peers : Rpmsg!Echo(a))
       \/ Rpmsg!RemoteCreate \/ Rpmsg!RemoteUndo
       \/ Rpmsg!NsReceive \/ Rpmsg!NsCreate \/ Rpmsg!NsAddress \/ Rpmsg!NsDestroy
  BY NamesSteps DEF Rpmsg!MasterInit, Rpmsg!Search, Rpmsg!Compare, Rpmsg!AppSend, Rpmsg!AppRest,
     Rpmsg!RemoteTask, Rpmsg!RemoteRest, Rpmsg!RemoteReceive, Rpmsg!nsVars, Rpmsg!history, rpmsgVars
<1> QED BY <1>6, <1>7, <1>8, <1>9, <1>10, <1>11, <1>12 DEF Arrives

(* The channel after an announcement is sent, and after one is received.   *)
LEMMA AfterSays ==
    ASSUME NamesShape, PipeAt, NEW f \in {"CREATE", "DESTROY"}, Says(f)
    PROVE  /\ Once(up') /\ InOrder(up')
           /\ \A g \in {"CREATE", "DESTROY"}, a \in Peers :
                At(up', g, a) <=> At(up, g, a) \/ (g = f /\ a = Rpmsg!Addr)
<1> DEFINE x == [flags |-> f, dst |-> Rpmsg!Addr]
<1>1. up \in Seq(Announcements \cup Echoes) /\ Once(up) /\ InOrder(up) /\ withdrawn \subseteq announced
  BY DEF NamesShape, PipeAt
<1>2. x \in Announcements \cup Echoes /\ up' = Append(up, x)
  BY DEF Says, Announcements, Rpmsg!Announce
<1>3. /\ At(up, "CREATE", Rpmsg!Addr) => Rpmsg!Addr \in announced
      /\ At(up, "DESTROY", Rpmsg!Addr) => Rpmsg!Addr \in withdrawn
  BY DEF Says, PipeAt, Pending
<1>4. ~At(up, f, Rpmsg!Addr) /\ (f = "CREATE" => ~At(up, "DESTROY", Rpmsg!Addr))
  BY <1>1, <1>3 DEF Says
<1>5. Once(up') /\ InOrder(up')
  BY <1>1, <1>2, <1>4, GoodAppend
<1>6. \A g, a : At(up', g, a) <=> At(up, g, a) \/ (x.flags = g /\ x.dst = a)
  BY <1>1, <1>2, AtAppend
<1> QED BY <1>5, <1>6

LEMMA AfterArrives ==
    ASSUME NamesShape, PipeAt, Arrives
    PROVE  LET h == Head(up) IN
           /\ h.flags \in {"CREATE", "DESTROY"} /\ h.dst \in Peers
           /\ UNCHANGED <<ns, msg, rpmsg_src, ept, announced, withdrawn>>
           /\ Once(up') /\ InOrder(up') /\ ~At(up', h.flags, h.dst)
           /\ h.flags = "DESTROY" => ~At(up', "CREATE", h.dst)
           /\ \A g \in {"CREATE", "DESTROY"}, a \in Peers :
                At(up, g, a) <=> At(up', g, a) \/ (g = h.flags /\ a = h.dst)
           /\ Once(ns_mq') /\ InOrder(ns_mq')
           /\ \/ /\ UNCHANGED missed
                 /\ \A g \in {"CREATE", "DESTROY"}, a \in Peers :
                      At(ns_mq', g, a) <=> At(ns_mq, g, a) \/ (g = h.flags /\ a = h.dst)
              \/ UNCHANGED ns_mq /\ missed' = missed \cup {h.dst}
<1> DEFINE h == Head(up)
<1>1. /\ up \in Seq(Announcements \cup Echoes) /\ Once(up) /\ InOrder(up)
      /\ ns_mq \in Seq(Announcements) /\ Once(ns_mq) /\ InOrder(ns_mq)
  BY DEF NamesShape, PipeAt
<1>2. /\ up # <<>> /\ up' = Tail(up) /\ h.flags # "data"
      /\ UNCHANGED <<ns, msg, rpmsg_src, ept, announced, withdrawn>>
      /\ \/ ns_mq' = Append(ns_mq, h) \/ ns_mq' = ns_mq
      /\ missed' = IF ns_mq' = ns_mq THEN missed \cup {h.dst} ELSE missed
  BY DEF Arrives, Rpmsg!Receive
<1>3. h \in Announcements
  BY <1>2, HeadUp
<1>4. h.flags \in {"CREATE", "DESTROY"} /\ h.dst \in Peers
  BY <1>3 DEF Announcements
<1>5. /\ Once(up') /\ InOrder(up') /\ ~At(up', h.flags, h.dst)
      /\ h.flags = "DESTROY" => ~At(up', "CREATE", h.dst)
  BY <1>1, <1>2, <1>4, GoodTail
<1>6. \A g, a : At(up, g, a) <=> At(up', g, a) \/ (h.flags = g /\ h.dst = a)
  BY <1>1, <1>2, AtTail
<1>7. At(up, h.flags, h.dst)
  BY <1>6
<1>8. ~At(ns_mq, h.flags, h.dst) /\ (h.flags = "CREATE" => ~At(ns_mq, "DESTROY", h.dst))
  BY <1>4, <1>7 DEF PipeAt
<1>9. Once(Append(ns_mq, h)) /\ InOrder(Append(ns_mq, h))
  BY <1>1, <1>3, <1>8, GoodAppend
<1>10. \A g, a : At(Append(ns_mq, h), g, a) <=> At(ns_mq, g, a) \/ (h.flags = g /\ h.dst = a)
  BY <1>1, <1>3, AtAppend
<1>11. Append(ns_mq, h) # ns_mq
  <2>1. Len(Append(ns_mq, h)) = Len(ns_mq) + 1 /\ Len(ns_mq) \in Nat
    BY <1>1, <1>3, AppendIs
  <2> QED BY <2>1
<1>12. Once(ns_mq') /\ InOrder(ns_mq')
  BY <1>1, <1>2, <1>9
<1>13. \/ /\ UNCHANGED missed
          /\ \A g \in {"CREATE", "DESTROY"}, a \in Peers :
               At(ns_mq', g, a) <=> At(ns_mq, g, a) \/ (g = h.flags /\ a = h.dst)
       \/ UNCHANGED ns_mq /\ missed' = missed \cup {h.dst}
  BY <1>2, <1>10, <1>11, ZenonT(40)
<1> HIDE DEF h
<1>14. \A g \in {"CREATE", "DESTROY"}, a \in Peers :
         At(up, g, a) <=> At(up', g, a) \/ (g = h.flags /\ a = h.dst)
  BY <1>6
<1> QED BY <1>2, <1>4, <1>5, <1>12, <1>13, <1>14 DEF h

LEMMA AfterReceive ==
    ASSUME NamesShape, PipeAt, Rpmsg!NsReceive
    PROVE  /\ msg'.flags \in {"CREATE", "DESTROY"} /\ msg'.dst \in Peers /\ ns' = msg'.flags /\ ns = "wait"
           /\ UNCHANGED <<up, rpmsg_src, ept, announced, withdrawn, missed>>
           /\ Once(ns_mq') /\ InOrder(ns_mq') /\ ~At(ns_mq', ns', msg'.dst)
           /\ ns' = "DESTROY" => ~At(ns_mq', "CREATE", msg'.dst)
           /\ \A g \in {"CREATE", "DESTROY"}, a \in Peers :
                At(ns_mq, g, a) <=> At(ns_mq', g, a) \/ (g = ns' /\ a = msg'.dst)
<1> DEFINE h == Head(ns_mq)
<1>1. ns_mq \in Seq(Announcements) /\ Once(ns_mq) /\ InOrder(ns_mq)
  BY DEF NamesShape, PipeAt
<1>2. /\ ns_mq # <<>> /\ ns_mq' = Tail(ns_mq) /\ msg' = h /\ ns' = h.flags /\ ns = "wait"
      /\ UNCHANGED <<up, rpmsg_src, ept, announced, withdrawn, missed>>
  BY DEF Rpmsg!NsReceive, Rpmsg!history
<1>3. h.flags \in {"CREATE", "DESTROY"} /\ h.dst \in Peers
  BY <1>2, HeadMq
<1>4. /\ Once(ns_mq') /\ InOrder(ns_mq') /\ ~At(ns_mq', h.flags, h.dst)
      /\ h.flags = "DESTROY" => ~At(ns_mq', "CREATE", h.dst)
  BY <1>1, <1>2, <1>3, GoodTail
<1>5. \A g, a : At(ns_mq, g, a) <=> At(ns_mq', g, a) \/ (h.flags = g /\ h.dst = a)
  BY <1>1, <1>2, AtTail
<1> QED BY <1>2, <1>3, <1>4, <1>5

(* The three other steps of the task.                                      *)
LEMMA AfterNs ==
    ASSUME NamesShape, Rpmsg!NsCreate \/ Rpmsg!NsAddress \/ Rpmsg!NsDestroy
    PROVE  /\ UNCHANGED <<up, ns_mq, announced, withdrawn>> /\ msg.dst \in Peers
           /\ \/ ns' = "wait"
              \/ ns' = "address" /\ ns = "CREATE" /\ UNCHANGED <<msg, missed>>
<1>1. ns # "wait"
  BY DEF Rpmsg!NsCreate, Rpmsg!NsAddress, Rpmsg!NsDestroy
<1>2. msg.dst \in Peers
  BY <1>1 DEF NamesShape, Announcements
<1> QED BY <1>2 DEF Rpmsg!NsCreate, Rpmsg!NsAddress, Rpmsg!NsDestroy, Rpmsg!history

LEMMA PipeKept ==
    ASSUME Rpmsg!RpmsgAssumption, NamesShape, PipeAt, RemoteAt, PlayAt, [Rpmsg!Next]_rpmsgVars
    PROVE  PipeAt'
<1> DEFINE T(f, a) == msg'.dst = a /\ (ns' = f \/ (f = "CREATE" /\ ns' = "address"))
<1>1. ASSUME
        /\ Once(up') /\ Once(ns_mq') /\ InOrder(up') /\ InOrder(ns_mq')
        /\ \A a \in Peers :
            /\ \A f \in {"CREATE", "DESTROY"} :
                /\ At(up', f, a) => ~At(ns_mq', f, a)
                /\ T(f, a) => ~At(up', f, a) /\ ~At(ns_mq', f, a)
            /\ At(ns_mq', "DESTROY", a) => ~At(up', "CREATE", a)
            /\ T("DESTROY", a) => ~At(up', "CREATE", a) /\ ~At(ns_mq', "CREATE", a)
            /\ At(up', "CREATE", a) \/ At(ns_mq', "CREATE", a) \/ T("CREATE", a) => a \in announced'
            /\ At(up', "DESTROY", a) \/ At(ns_mq', "DESTROY", a) \/ T("DESTROY", a) => a \in withdrawn'
      PROVE  PipeAt'
  BY <1>1 DEF PipeAt, Pending, InTask
<1>2. /\ Once(up) /\ Once(ns_mq) /\ InOrder(up) /\ InOrder(ns_mq)
      /\ \A a \in Peers :
            /\ \A f \in {"CREATE", "DESTROY"} :
                /\ At(up, f, a) => ~At(ns_mq, f, a)
                /\ InTask(f, a) => ~At(up, f, a) /\ ~At(ns_mq, f, a)
            /\ At(ns_mq, "DESTROY", a) => ~At(up, "CREATE", a)
            /\ InTask("DESTROY", a) => ~At(up, "CREATE", a) /\ ~At(ns_mq, "CREATE", a)
            /\ At(up, "CREATE", a) \/ At(ns_mq, "CREATE", a) \/ InTask("CREATE", a) => a \in announced
            /\ At(up, "DESTROY", a) \/ At(ns_mq, "DESTROY", a) \/ InTask("DESTROY", a) => a \in withdrawn
  BY DEF PipeAt, Pending
<1>3. announced \subseteq announced' /\ withdrawn \subseteq withdrawn' /\ withdrawn \subseteq announced
  BY HistoryKept DEF NamesShape
<1>4. ASSUME Once(up'), Once(ns_mq'), InOrder(up'), InOrder(ns_mq'),
             \A a \in Peers, f \in {"CREATE", "DESTROY"} :
                /\ At(up', f, a) => At(up, f, a)
                /\ At(ns_mq', f, a) => At(ns_mq, f, a)
                /\ T(f, a) => InTask(f, a)
      PROVE  PipeAt'
  <2> HIDE DEF T
  <2> QED BY <1>1, <1>2, <1>3, <1>4
<1>5. CASE Calm
  <2>1. \A f, a : T(f, a) <=> InTask(f, a)
    BY <1>5 DEF Calm, InTask
  <2>2. Once(up') /\ InOrder(up') /\ ns_mq' = ns_mq /\ Kept(up, up')
    BY <1>5 DEF Calm
  <2> HIDE DEF T
  <2> QED BY <1>2, <1>4, <2>1, <2>2 DEF Kept
<1>6. ASSUME NEW f \in {"CREATE", "DESTROY"}, Says(f)
      PROVE  PipeAt'
  <2>1. \A g, a : T(g, a) <=> InTask(g, a)
    BY <1>6 DEF Says, InTask
  <2>2. /\ Once(up') /\ InOrder(up') /\ ns_mq' = ns_mq
        /\ \A g \in {"CREATE", "DESTROY"}, a \in Peers :
             At(up', g, a) <=> At(up, g, a) \/ (g = f /\ a = Rpmsg!Addr)
    BY <1>6, AfterSays DEF Says
  <2>3. /\ f = "CREATE" => Rpmsg!Addr \notin announced /\ Rpmsg!Addr \in announced'
        /\ f = "DESTROY" => Rpmsg!Addr \notin withdrawn /\ Rpmsg!Addr \in withdrawn'
    BY <1>6 DEF Says, Rpmsg!Announce
  <2> HIDE DEF T
  <2> QED BY <1>1, <1>2, <1>3, <2>1, <2>2, <2>3
<1>7. CASE Arrives
  <2> DEFINE h == Head(up)
  <2>1. /\ h.flags \in {"CREATE", "DESTROY"} /\ h.dst \in Peers
        /\ Once(up') /\ InOrder(up') /\ ~At(up', h.flags, h.dst)
        /\ h.flags = "DESTROY" => ~At(up', "CREATE", h.dst)
        /\ \A g \in {"CREATE", "DESTROY"}, a \in Peers :
             At(up, g, a) <=> At(up', g, a) \/ (g = h.flags /\ a = h.dst)
        /\ Once(ns_mq') /\ InOrder(ns_mq')
        /\ \A g \in {"CREATE", "DESTROY"}, a \in Peers :
             At(ns_mq', g, a) => At(ns_mq, g, a) \/ (g = h.flags /\ a = h.dst)
    BY <1>7, AfterArrives
  <2>2. \A g, a : T(g, a) <=> InTask(g, a)
    BY <1>7, AfterArrives DEF InTask
  <2> HIDE DEF T, h
  <2> QED BY <1>1, <1>2, <1>3, <2>1, <2>2
<1>8. CASE Rpmsg!NsReceive
  <2>1. /\ ns' \in {"CREATE", "DESTROY"} /\ msg'.dst \in Peers /\ ns = "wait" /\ up' = up
        /\ Once(ns_mq') /\ InOrder(ns_mq') /\ ~At(ns_mq', ns', msg'.dst)
        /\ ns' = "DESTROY" => ~At(ns_mq', "CREATE", msg'.dst)
        /\ \A g \in {"CREATE", "DESTROY"}, a \in Peers :
             At(ns_mq, g, a) <=> At(ns_mq', g, a) \/ (g = ns' /\ a = msg'.dst)
    BY <1>8, AfterReceive
  <2>2. \A g \in {"CREATE", "DESTROY"} : \A a : T(g, a) <=> ns' = g /\ msg'.dst = a
    BY <2>1
  <2> HIDE DEF T
  <2> QED BY <1>1, <1>2, <1>3, <2>1, <2>2
<1>9. CASE Rpmsg!NsCreate \/ Rpmsg!NsAddress \/ Rpmsg!NsDestroy
  <2>1. /\ UNCHANGED <<up, ns_mq, announced, withdrawn>>
        /\ \/ ns' = "wait"
           \/ ns' = "address" /\ ns = "CREATE" /\ UNCHANGED msg
    BY <1>9, AfterNs
  <2>2. \A f \in {"CREATE", "DESTROY"} : \A a : T(f, a) => InTask(f, a)
    BY <2>1 DEF InTask
  <2> HIDE DEF T
  <2> QED BY <1>2, <1>4, <2>1, <2>2
<1> HIDE DEF T
<1> QED BY <1>5, <1>6, <1>7, <1>8, <1>9, Effects

(* The room for the next address.                                          *)
LEMMA RoomForAddress ==
    ASSUME Rpmsg!RpmsgAssumption, NamesShape, PipeAt, AddressesAt, ns = "CREATE"
    PROVE  /\ rpmsg_src \in Rpmsg!Srcs /\ msg.dst \in announced /\ msg.dst \notin Served
           /\ IsFiniteSet(Served) /\ Cardinality(Served \cup {msg.dst}) = Cardinality(Served) + 1
<1>1. IsFiniteSet(Peers) /\ Cardinality(Peers) \in Nat /\ Rpmsg!Srcs = 1..Cardinality(Peers)
  BY PeersAre
<1>2. msg.dst \in Peers /\ announced \subseteq Peers /\ rpmsg_src \in Nat \ {0}
  BY DEF NamesShape, Announcements
<1>3. msg.dst \in announced
  BY <1>2 DEF PipeAt, Pending, InTask
<1>4. msg.dst \notin Served
  BY DEF Served, Awaits
<1>5. Served \subseteq Peers /\ Served \cup {msg.dst} \subseteq Peers
  BY <1>2 DEF Served
<1>6. IsFiniteSet(Served) /\ Cardinality(Served) \in Nat
  BY <1>1, <1>5, FS_Subset, FS_CardinalityType
<1>7. Cardinality(Served \cup {msg.dst}) = Cardinality(Served) + 1
  BY <1>4, <1>6, FS_AddElement
<1>8. Cardinality(Served \cup {msg.dst}) <= Cardinality(Peers)
  BY <1>1, <1>5, FS_Subset
<1>9. rpmsg_src - 1 <= Cardinality(Served)
  BY DEF AddressesAt
<1>10. rpmsg_src \in 1..Cardinality(Peers)
  <2> DEFINE c == Cardinality(Peers)
             d == Cardinality(Served)
  <2>1. c \in Nat /\ d \in Nat /\ d + 1 <= c /\ rpmsg_src - 1 <= d
    BY <1>1, <1>6, <1>7, <1>8, <1>9
  <2> HIDE DEF c, d
  <2>2. rpmsg_src \in 1..c
    BY <1>2, <2>1
  <2> QED BY <2>2 DEF c
<1> QED BY <1>1, <1>3, <1>4, <1>6, <1>7, <1>10

LEMMA AddressesKept ==
    ASSUME Rpmsg!RpmsgAssumption, NamesShape, PipeAt, RemoteAt, PlayAt, AddressesAt,
           [Rpmsg!Next]_rpmsgVars
    PROVE  /\ AddressesAt' /\ rpmsg_src' \in Nat \ {0}
           /\ rpmsg_src' <= Rpmsg!Cardinality(Peers) + 1
<1>1. /\ rpmsg_src \in Nat \ {0} /\ rpmsg_src <= Rpmsg!Cardinality(Peers) + 1
      /\ rpmsg_src - 1 <= Cardinality(Served)
  BY DEF NamesShape, AddressesAt
<1>2. IsFiniteSet(Peers) /\ announced' \subseteq Peers /\ announced \subseteq announced'
  BY PeersAre, HistoryKept
<1>3. /\ IsFiniteSet(Served') /\ Cardinality(Served') \in Nat
      /\ \A S \in SUBSET Served' : /\ IsFiniteSet(S) /\ Cardinality(S) \in Nat
                                   /\ Cardinality(S) <= Cardinality(Served')
  <2>1. Served' \subseteq Peers
    BY <1>2 DEF Served
  <2>2. IsFiniteSet(Served')
    BY <1>2, <2>1, FS_Subset
  <2>3. \A S \in SUBSET Served' : IsFiniteSet(S) /\ Cardinality(S) <= Cardinality(Served')
    BY <2>2, FS_Subset
  <2> QED BY <2>2, <2>3, FS_CardinalityType
<1>4. ASSUME UNCHANGED rpmsg_src, \A a \in announced : Awaits(a)' => Awaits(a)
      PROVE  AddressesAt' /\ rpmsg_src' \in Nat \ {0} /\ rpmsg_src' <= Rpmsg!Cardinality(Peers) + 1
  <2>1. Served \subseteq Served'
    BY <1>2, <1>4 DEF Served
  <2> DEFINE c == Cardinality(Served)
             d == Cardinality(Served')
  <2>2. c \in Nat /\ d \in Nat /\ c <= d /\ rpmsg_src - 1 <= c
    BY <1>1, <1>3, <2>1
  <2> HIDE DEF c, d
  <2>3. rpmsg_src' - 1 <= d
    BY <1>1, <1>4, <2>2
  <2> QED BY <1>1, <1>4, <2>3 DEF AddressesAt, d
<1>5. \A a : Awaits(a)' <=> At(up', "CREATE", a) \/ At(ns_mq', "CREATE", a) \/ (ns' = "CREATE" /\ msg'.dst = a)
  BY DEF Awaits
<1>6. announced \subseteq Peers
  BY DEF NamesShape
<1>7. CASE Calm
  <2>1. UNCHANGED <<ns_mq, ns, msg, rpmsg_src>> /\ Kept(up, up')
    BY <1>7 DEF Calm
  <2> QED BY <1>4, <1>5, <1>6, <2>1 DEF Kept, Awaits
<1>8. ASSUME NEW f \in {"CREATE", "DESTROY"}, Says(f)
      PROVE  AddressesAt' /\ rpmsg_src' \in Nat \ {0} /\ rpmsg_src' <= Rpmsg!Cardinality(Peers) + 1
  <2>1. /\ UNCHANGED <<ns_mq, ns, msg, rpmsg_src>>
        /\ \A a \in Peers : At(up', "CREATE", a) <=> At(up, "CREATE", a) \/ ("CREATE" = f /\ a = Rpmsg!Addr)
    BY <1>8, AfterSays DEF Says
  <2>2. f = "CREATE" => Rpmsg!Addr \notin announced
    BY <1>8 DEF Says
  <2> QED BY <1>4, <1>5, <1>6, <2>1, <2>2 DEF Awaits
<1>9. CASE Arrives
  <2> DEFINE h == Head(up)
  <2>1. /\ UNCHANGED <<ns, msg, rpmsg_src>>
        /\ \A a \in Peers : At(up, "CREATE", a) <=> At(up', "CREATE", a) \/ ("CREATE" = h.flags /\ a = h.dst)
        /\ \A a \in Peers : At(ns_mq', "CREATE", a) => At(ns_mq, "CREATE", a) \/ ("CREATE" = h.flags /\ a = h.dst)
    BY <1>9, AfterArrives
  <2> HIDE DEF h
  <2> QED BY <1>4, <1>5, <1>6, <2>1 DEF Awaits
<1>10. CASE Rpmsg!NsReceive
  <2>1. /\ UNCHANGED <<up, rpmsg_src>>
        /\ \A a \in Peers : At(ns_mq, "CREATE", a) <=> At(ns_mq', "CREATE", a) \/ ("CREATE" = ns' /\ a = msg'.dst)
    BY <1>10, AfterReceive
  <2> QED BY <1>4, <1>5, <1>6, <2>1 DEF Awaits
<1>11. CASE Rpmsg!NsAddress \/ Rpmsg!NsDestroy
  <2>1. UNCHANGED <<up, ns_mq, rpmsg_src>> /\ ns' = "wait"
    BY <1>11 DEF Rpmsg!NsAddress, Rpmsg!NsDestroy
  <2> QED BY <1>4, <1>5, <1>6, <2>1 DEF Awaits
<1>12. CASE Rpmsg!NsCreate
  <2>1. /\ UNCHANGED <<up, ns_mq, announced>> /\ ns' # "CREATE" /\ ns = "CREATE"
        /\ rpmsg_src' = rpmsg_src + 1
    BY <1>12 DEF Rpmsg!NsCreate
  <2>2. /\ rpmsg_src \in Rpmsg!Srcs /\ msg.dst \in announced
        /\ IsFiniteSet(Served) /\ Cardinality(Served \cup {msg.dst}) = Cardinality(Served) + 1
    BY <2>1, RoomForAddress
  <2>3. InTask("CREATE", msg.dst) /\ msg.dst \in Peers
    BY <2>1, <2>2, <1>6 DEF InTask
  <2>4. ~At(up, "CREATE", msg.dst) /\ ~At(ns_mq, "CREATE", msg.dst)
    BY <2>3 DEF PipeAt
  <2>5. Served \cup {msg.dst} \subseteq Served'
    BY <1>5, <2>1, <2>2, <2>4 DEF Served, Awaits
  <2> DEFINE c == Cardinality(Served)
             d == Cardinality(Served')
             p == Cardinality(Peers)
  <2>6. c \in Nat /\ d \in Nat /\ c + 1 <= d /\ rpmsg_src - 1 <= c /\ p \in Nat /\ rpmsg_src \in 1..p
    BY <1>1, <1>3, <2>2, <2>5, FS_CardinalityType, PeersAre
  <2> HIDE DEF c, d, p
  <2>7. rpmsg_src' - 1 <= d /\ rpmsg_src' \in Nat \ {0} /\ rpmsg_src' <= p + 1
    BY <1>1, <2>1, <2>6
  <2> QED BY <2>7, SameNumber DEF AddressesAt, d, p
<1> QED BY <1>7, <1>8, <1>9, <1>10, <1>11, <1>12, Effects

(* What the task does to the endpoints.                                    *)
LEMMA CreatesOne ==
    ASSUME Rpmsg!RpmsgAssumption, NamesShape, PipeAt, AddressesAt, Rpmsg!NsCreate
    PROVE  /\ rpmsg_src \in Rpmsg!Srcs /\ rpmsg_src' = rpmsg_src + 1
           /\ ns = "CREATE" /\ UNCHANGED withdrawn
           /\ \/ /\ ns' = "address" /\ UNCHANGED <<msg, missed>>
                 /\ ept'[rpmsg_src].live /\ ept'[rpmsg_src].remote_addr = Rpmsg!ANY
                 /\ ept'[rpmsg_src].q = <<>>
                 /\ \A s \in Rpmsg!Srcs \ {rpmsg_src} : ept'[s] = ept[s]
              \/ ns' = "wait" /\ msg' = Rpmsg!NoMsg /\ UNCHANGED ept /\ missed' = missed \cup {msg.dst}
<1>1. /\ ns = "CREATE" /\ rpmsg_src' = rpmsg_src + 1 /\ UNCHANGED withdrawn
      /\ \/ /\ ept' = [ept EXCEPT ![rpmsg_src] = [Rpmsg!NoEpt EXCEPT !.live = TRUE]]
            /\ ns' = "address" /\ UNCHANGED <<msg, missed>>
         \/ ns' = "wait" /\ msg' = Rpmsg!NoMsg /\ UNCHANGED ept /\ missed' = missed \cup {msg.dst}
  BY DEF Rpmsg!NsCreate
<1>2. rpmsg_src \in Rpmsg!Srcs
  BY <1>1, RoomForAddress
<1>3. DOMAIN ept = Rpmsg!Srcs
  BY DEF NamesShape
<1>4. PICK r : r = [Rpmsg!NoEpt EXCEPT !.live = TRUE]
  OBVIOUS
<1>5. r.live /\ r.remote_addr = Rpmsg!ANY /\ r.q = <<>>
  BY <1>4 DEF Rpmsg!NoEpt
<1>6. ASSUME ept' = [ept EXCEPT ![rpmsg_src] = r]
      PROVE  ept'[rpmsg_src] = r /\ \A s \in Rpmsg!Srcs \ {rpmsg_src} : ept'[s] = ept[s]
  BY <1>2, <1>3, <1>6
<1> QED BY <1>1, <1>2, <1>4, <1>5, <1>6

LEMMA NamesOne ==
    ASSUME Rpmsg!RpmsgAssumption, NamesShape, EndpointsAt, Rpmsg!NsAddress
    PROVE  /\ rpmsg_src - 1 \in Rpmsg!Srcs /\ ns = "address" /\ ns' = "wait" /\ msg.dst \in Peers
           /\ UNCHANGED <<rpmsg_src, withdrawn, missed>> /\ msg' = Rpmsg!NoMsg
           /\ ept[rpmsg_src - 1].live /\ ept[rpmsg_src - 1].remote_addr = Rpmsg!ANY
           /\ ept'[rpmsg_src - 1] = [ept[rpmsg_src - 1] EXCEPT !.remote_addr = msg.dst]
           /\ ept'[rpmsg_src - 1].live /\ ept'[rpmsg_src - 1].remote_addr = msg.dst
           /\ \A s \in Rpmsg!Srcs \ {rpmsg_src - 1} : ept'[s] = ept[s]
<1>1. /\ ns = "address" /\ ns' = "wait" /\ msg' = Rpmsg!NoMsg
      /\ UNCHANGED <<rpmsg_src, withdrawn, missed>>
      /\ ept' = [ept EXCEPT ![rpmsg_src - 1].remote_addr = msg.dst]
  BY DEF Rpmsg!NsAddress, Rpmsg!history
<1>2. msg.dst \in Peers
  BY <1>1 DEF NamesShape, Announcements
<1>3. PICK s : s = rpmsg_src - 1
  OBVIOUS
<1>4. s \in Rpmsg!Srcs /\ ept[s].live /\ ept[s].remote_addr = Rpmsg!ANY
  BY <1>1, <1>3 DEF EndpointsAt
<1>5. ept' = [ept EXCEPT ![s].remote_addr = msg.dst]
  BY <1>1, <1>3
<1>6. ept \in [Rpmsg!Srcs -> [live : BOOLEAN, remote_addr : Peers \cup {Rpmsg!ANY}, q : Seq(Peers)]]
  BY DEF NamesShape
<1>7. /\ ept'[s] = [ept[s] EXCEPT !.remote_addr = msg.dst]
      /\ \A t \in Rpmsg!Srcs \ {s} : ept'[t] = ept[t]
  BY <1>4, <1>5, <1>6
<1>8. ept'[s].live /\ ept'[s].remote_addr = msg.dst
  BY <1>4, <1>6, <1>7
<1> QED BY <1>1, <1>2, <1>3, <1>4, <1>7, <1>8

LEMMA DestroysOne ==
    ASSUME Rpmsg!RpmsgAssumption, NamesShape, EndpointsAt, Rpmsg!NsDestroy
    PROVE  /\ ns = "DESTROY" /\ ns' = "wait" /\ msg.dst \in Peers /\ msg' = Rpmsg!NoMsg
           /\ UNCHANGED <<rpmsg_src, withdrawn, missed>>
           /\ \A s \in Rpmsg!Srcs :
                /\ ept'[s].remote_addr = ept[s].remote_addr
                /\ ept'[s].live <=> ept[s].live /\ ept[s].remote_addr # msg.dst
                /\ ept'[s] # ept[s] => ept'[s].q = <<>> /\ ept[s].live
<1> DEFINE S == Rpmsg!Srcs
           found == {s \in Rpmsg!Searched : Rpmsg!IsFor(s, msg.dst)}
<1>1. /\ ns = "DESTROY" /\ ns' = "wait" /\ msg' = Rpmsg!NoMsg
      /\ UNCHANGED <<rpmsg_src, withdrawn, missed>>
      /\ ept' = [s \in S |-> IF s \in found /\ \A t \in found : s <= t
                             THEN [ept[s] EXCEPT !.live = FALSE, !.q = <<>>] ELSE ept[s]]
  BY DEF Rpmsg!NsDestroy, Rpmsg!history
<1>2. msg.dst \in Peers
  BY <1>1 DEF NamesShape, Announcements
<1>3. /\ S = 1..Cardinality(Peers) /\ Cardinality(Peers) \in Nat
      /\ rpmsg_src \in Nat \ {0} /\ rpmsg_src <= Cardinality(Peers) + 1
  BY PeersAre, SameNumber DEF NamesShape
<1>4. \A s \in S : s \in found <=> ept[s].live /\ ept[s].remote_addr = msg.dst
  <2> TAKE s \in S
  <2>1. s \in found <=> s \in 1..(rpmsg_src - 1) /\ ept[s].live /\ ept[s].remote_addr = msg.dst
    BY DEF Rpmsg!Searched, Rpmsg!IsFor
  <2>2. s >= rpmsg_src => ~ept[s].live
    BY DEF EndpointsAt, Rpmsg!NoEpt
  <2>3. s \in 1..(rpmsg_src - 1) \/ s >= rpmsg_src
    BY <1>3
  <2> QED BY <2>1, <2>2, <2>3
<1>5. found \subseteq S
  BY <1>3 DEF Rpmsg!Searched
<1>6. \A s, t \in found : s = t
  <2> TAKE s, t \in found
  <2>1. /\ s \in S /\ t \in S /\ ept[s].live /\ ept[t].live
        /\ ept[s].remote_addr = ept[t].remote_addr
    BY <1>4, <1>5
  <2> QED BY <2>1 DEF EndpointsAt
<1>7. \A s \in found : \A t \in found : s <= t
  <2>1. \A s \in S : s <= s
    BY <1>3
  <2> QED BY <1>5, <1>6, <2>1
<1>8. ept \in [S -> [live : BOOLEAN, remote_addr : Peers \cup {Rpmsg!ANY}, q : Seq(Peers)]]
  BY DEF NamesShape
<1>9. \A s \in S : ept'[s] = IF s \in found THEN [ept[s] EXCEPT !.live = FALSE, !.q = <<>>] ELSE ept[s]
  <2> HIDE DEF found, S
  <2> QED BY <1>1, <1>7
<1>10. ASSUME NEW s \in S
       PROVE  /\ ept'[s].remote_addr = ept[s].remote_addr
              /\ ept'[s].live <=> ept[s].live /\ ept[s].remote_addr # msg.dst
              /\ ept'[s] # ept[s] => ept'[s].q = <<>> /\ ept[s].live
  <2>1. ept[s] \in [live : BOOLEAN, remote_addr : Peers \cup {Rpmsg!ANY}, q : Seq(Peers)]
    BY <1>8
  <2>2. CASE s \in found
    <3>1. ept'[s] = [ept[s] EXCEPT !.live = FALSE, !.q = <<>>]
      BY <1>9, <2>2
    <3>2. ept'[s].remote_addr = ept[s].remote_addr /\ ~ept'[s].live /\ ept'[s].q = <<>>
      BY <2>1, <3>1
    <3> QED BY <1>4, <2>2, <3>2
  <2>3. CASE s \notin found
    BY <1>4, <1>9, <2>3
  <2> QED BY <2>2, <2>3
<1> QED BY <1>1, <1>2, <1>10

LEMMA EndpointsKept ==
    ASSUME Rpmsg!RpmsgAssumption, NamesShape, PipeAt, RemoteAt, PlayAt, EndpointsAt, PeersAt,
           AddressesAt, [Rpmsg!Next]_rpmsgVars
    PROVE  EndpointsAt'
<1> DEFINE S == Rpmsg!Srcs
<1>1. /\ \A s \in S :
            /\ s >= rpmsg_src => ept[s] = Rpmsg!NoEpt
            /\ ept[s].live /\ ept[s].remote_addr = Rpmsg!ANY => ns = "address" /\ s = rpmsg_src - 1
            /\ ~ept[s].live /\ ept[s].remote_addr # Rpmsg!ANY => ept[s].remote_addr \in withdrawn
            /\ \A t \in S : ept[s].live /\ ept[t].live /\ ept[s].remote_addr = ept[t].remote_addr => s = t
      /\ ns = "address" => /\ rpmsg_src - 1 \in S
                           /\ ept[rpmsg_src - 1].live /\ ept[rpmsg_src - 1].remote_addr = Rpmsg!ANY
  BY DEF EndpointsAt
<1>2. ASSUME /\ \A s \in S :
                /\ s >= rpmsg_src' => ept'[s] = Rpmsg!NoEpt
                /\ ept'[s].live /\ ept'[s].remote_addr = Rpmsg!ANY => ns' = "address" /\ s = rpmsg_src' - 1
                /\ ~ept'[s].live /\ ept'[s].remote_addr # Rpmsg!ANY => ept'[s].remote_addr \in withdrawn'
                /\ \A t \in S : ept'[s].live /\ ept'[t].live /\ ept'[s].remote_addr = ept'[t].remote_addr => s = t
             /\ ns' = "address" => /\ rpmsg_src' - 1 \in S
                                   /\ ept'[rpmsg_src' - 1].live /\ ept'[rpmsg_src' - 1].remote_addr = Rpmsg!ANY
      PROVE  EndpointsAt'
  BY <1>2 DEF EndpointsAt
<1>3. /\ rpmsg_src \in Nat \ {0} /\ S = 1..Cardinality(Peers) /\ Cardinality(Peers) \in Nat
      /\ Rpmsg!ANY \notin Peers /\ Rpmsg!NoEpt.live = FALSE /\ Rpmsg!NoEpt.remote_addr = Rpmsg!ANY
      /\ withdrawn \subseteq withdrawn' /\ \A s \in S : ept[s].remote_addr \in Peers \cup {Rpmsg!ANY}
  BY PeersAre, HistoryKept DEF NamesShape, Rpmsg!ANY, Rpmsg!NoEpt
<1> HIDE DEF S
<1>4. CASE Calm
  <2>1. /\ UNCHANGED <<ns, rpmsg_src>>
        /\ \A s \in S : /\ ept'[s].live = ept[s].live /\ ept'[s].remote_addr = ept[s].remote_addr
                        /\ ~ept[s].live => ept'[s] = ept[s]
    BY <1>4 DEF Calm, S
  <2> QED BY <1>1, <1>2, <1>3, <2>1
<1>5. CASE UNCHANGED <<ept, rpmsg_src>> /\ (UNCHANGED ns \/ (ns = "wait" /\ ns' # "address"))
  <2>1. \A s \in S : ns = "wait" => ~(ept[s].live /\ ept[s].remote_addr = Rpmsg!ANY)
    BY <1>1
  <2> QED BY <1>1, <1>2, <1>3, <1>5, <2>1
<1>6. CASE Rpmsg!NsCreate
  <2>1. /\ rpmsg_src \in S /\ rpmsg_src' = rpmsg_src + 1 /\ ns = "CREATE"
        /\ \/ /\ ns' = "address" /\ ept'[rpmsg_src].live /\ ept'[rpmsg_src].remote_addr = Rpmsg!ANY
              /\ \A s \in S \ {rpmsg_src} : ept'[s] = ept[s]
           \/ ns' = "wait" /\ UNCHANGED ept
    BY <1>6, CreatesOne DEF S
  <2>2. rpmsg_src' - 1 = rpmsg_src /\ \A s \in S : s >= rpmsg_src + 1 => s >= rpmsg_src /\ s # rpmsg_src
    BY <1>3, <2>1
  <2>3. \A s \in S : ~(ept[s].live /\ ept[s].remote_addr = Rpmsg!ANY)
    BY <1>1, <2>1
  <2>4. CASE ns' = "wait" /\ UNCHANGED ept
    BY <1>1, <1>2, <1>3, <2>1, <2>2, <2>3, <2>4
  <2>5. CASE /\ ns' = "address" /\ ept'[rpmsg_src].live /\ ept'[rpmsg_src].remote_addr = Rpmsg!ANY
             /\ \A s \in S \ {rpmsg_src} : ept'[s] = ept[s]
    <3>1. ASSUME NEW s \in S
          PROVE  /\ s >= rpmsg_src' => ept'[s] = Rpmsg!NoEpt
                 /\ ept'[s].live /\ ept'[s].remote_addr = Rpmsg!ANY => s = rpmsg_src' - 1
                 /\ ~ept'[s].live /\ ept'[s].remote_addr # Rpmsg!ANY => ept'[s].remote_addr \in withdrawn'
                 /\ \A t \in S : ept'[s].live /\ ept'[t].live /\ ept'[s].remote_addr = ept'[t].remote_addr => s = t
      <4>1. CASE s = rpmsg_src
        BY <1>1, <1>3, <2>1, <2>2, <2>3, <2>5, <4>1
      <4>2. CASE s # rpmsg_src
        BY <1>1, <1>3, <2>1, <2>2, <2>3, <2>5, <4>2
      <4> QED BY <4>1, <4>2
    <3> QED BY <1>2, <2>1, <2>2, <2>5, <3>1
  <2> QED BY <2>1, <2>4, <2>5
<1>7. CASE Rpmsg!NsAddress
  <2>1. PICK r : r = rpmsg_src - 1
    OBVIOUS
  <2>2. /\ r \in S /\ ns = "address" /\ ns' = "wait" /\ msg.dst \in Peers /\ UNCHANGED rpmsg_src
        /\ ept'[r].live /\ ept'[r].remote_addr = msg.dst
        /\ \A s \in S \ {r} : ept'[s] = ept[s]
    BY <1>7, <2>1, NamesOne DEF S
  <2>3. \A s \in S : ~(ept[s].live /\ ept[s].remote_addr = msg.dst)
    <3>1. InTask("CREATE", msg.dst)
      BY <2>2 DEF InTask
    <3> QED BY <2>2, <3>1 DEF PeersAt, Pending, Has, S
  <2>4. ~(r >= rpmsg_src)
    BY <1>3, <2>1
  <2>5. ASSUME NEW s \in S
        PROVE  /\ s >= rpmsg_src' => ept'[s] = Rpmsg!NoEpt
               /\ ~(ept'[s].live /\ ept'[s].remote_addr = Rpmsg!ANY)
               /\ ~ept'[s].live /\ ept'[s].remote_addr # Rpmsg!ANY => ept'[s].remote_addr \in withdrawn'
               /\ \A t \in S : ept'[s].live /\ ept'[t].live /\ ept'[s].remote_addr = ept'[t].remote_addr => s = t
    <3>1. CASE s = r
      BY <1>3, <2>2, <2>3, <2>4, <3>1
    <3>2. CASE s # r
      BY <1>1, <1>3, <2>1, <2>2, <2>3, <3>2
    <3> QED BY <3>1, <3>2
  <2> QED BY <1>2, <2>2, <2>5
<1>8. CASE Rpmsg!NsDestroy
  <2>1. /\ ns = "DESTROY" /\ ns' = "wait" /\ msg.dst \in Peers /\ UNCHANGED rpmsg_src
        /\ \A s \in S :
              /\ ept'[s].remote_addr = ept[s].remote_addr
              /\ ept'[s].live <=> ept[s].live /\ ept[s].remote_addr # msg.dst
              /\ ept'[s] # ept[s] => ept[s].live
    BY <1>8, DestroysOne DEF S
  <2>2. msg.dst \in withdrawn
    BY <2>1 DEF PipeAt, Pending, InTask
  <2> QED BY <1>1, <1>2, <1>3, <2>1, <2>2
<1>9. \A f : Says(f) => UNCHANGED <<ept, rpmsg_src, ns>>
  BY DEF Says
<1>10. Arrives => UNCHANGED <<ept, rpmsg_src, ns>>
  BY DEF Arrives, Rpmsg!Receive
<1>11. Rpmsg!NsReceive => UNCHANGED <<ept, rpmsg_src>> /\ ns = "wait" /\ ns' # "address"
  BY AfterReceive
<1> QED BY <1>4, <1>5, <1>6, <1>7, <1>8, <1>9, <1>10, <1>11, Effects

(* Who has an endpoint after a step of the task.                           *)
LEMMA HasAfter ==
    ASSUME Rpmsg!RpmsgAssumption, NamesShape, PipeAt, EndpointsAt, AddressesAt
    PROVE  /\ Rpmsg!NsCreate => \A a \in Peers : Has(a)' <=> Has(a)
           /\ Rpmsg!NsAddress => \A a \in Peers : Has(a)' <=> Has(a) \/ a = msg.dst
           /\ Rpmsg!NsDestroy => \A a \in Peers : Has(a)' <=> Has(a) /\ a # msg.dst
<1> DEFINE S == Rpmsg!Srcs
<1>1. \A a : Has(a) <=> \E s \in S : ept[s].live /\ ept[s].remote_addr = a
  BY DEF Has
<1>2. \A a : Has(a)' <=> \E s \in S : ept'[s].live /\ ept'[s].remote_addr = a
  BY DEF Has
<1>3. Rpmsg!ANY \notin Peers
  BY PeersAre DEF Rpmsg!ANY
<1> HIDE DEF S
<1>4. ASSUME Rpmsg!NsCreate
      PROVE  \A a \in Peers : Has(a)' <=> Has(a)
  <2>1. /\ rpmsg_src \in S
        /\ \/ /\ ept'[rpmsg_src].remote_addr = Rpmsg!ANY
              /\ \A s \in S \ {rpmsg_src} : ept'[s] = ept[s]
           \/ UNCHANGED ept
    BY <1>4, CreatesOne DEF S
  <2>2. ~ept[rpmsg_src].live
    <3>1. rpmsg_src >= rpmsg_src
      BY DEF NamesShape
    <3> QED BY <2>1, <3>1 DEF EndpointsAt, Rpmsg!NoEpt, S
  <2> QED BY <1>1, <1>2, <1>3, <1>4, <2>1, <2>2
<1>5. ASSUME Rpmsg!NsAddress
      PROVE  \A a \in Peers : Has(a)' <=> Has(a) \/ a = msg.dst
  <2>1. PICK r : r = rpmsg_src - 1
    OBVIOUS
  <2>2. /\ r \in S /\ ept[r].remote_addr = Rpmsg!ANY
        /\ ept'[r].live /\ ept'[r].remote_addr = msg.dst
        /\ \A s \in S \ {r} : ept'[s] = ept[s]
    BY <1>5, <2>1, NamesOne DEF S
  <2> QED BY <1>1, <1>2, <1>3, <1>5, <2>2
<1>6. ASSUME Rpmsg!NsDestroy
      PROVE  \A a \in Peers : Has(a)' <=> Has(a) /\ a # msg.dst
  <2>1. \A s \in S : /\ ept'[s].remote_addr = ept[s].remote_addr
                     /\ ept'[s].live <=> ept[s].live /\ ept[s].remote_addr # msg.dst
    BY <1>6, DestroysOne DEF S
  <2> QED BY <1>1, <1>2, <1>6, <2>1
<1> QED BY <1>4, <1>5, <1>6

LEMMA PeersKept ==
    ASSUME Rpmsg!RpmsgAssumption, NamesShape, PipeAt, RemoteAt, PlayAt, EndpointsAt, PeersAt,
           AddressesAt, [Rpmsg!Next]_rpmsgVars
    PROVE  PeersAt'
<1> DEFINE U(f, a) == At(up', f, a)
           M(f, a) == At(ns_mq', f, a)
           T(f, a) == msg'.dst = a /\ (ns' = f \/ (f = "CREATE" /\ ns' = "address"))
           H(a) == Has(a)'
           P(f, a) == U(f, a) \/ M(f, a) \/ T(f, a)
           Good(a) ==
             /\ H(a) => a \in announced' /\ ~P("CREATE", a)
             /\ a \notin missed' =>
                 /\ a \in announced' /\ ~P("CREATE", a) /\ (a \in withdrawn' => P("DESTROY", a)) => H(a)
                 /\ a \in withdrawn' /\ H(a) => P("DESTROY", a)
                 /\ a \in withdrawn' /\ P("CREATE", a) => P("DESTROY", a)
<1>1. ASSUME \A a \in Peers : Good(a)
      PROVE  PeersAt'
  BY <1>1 DEF PeersAt, Pending, InTask
<1>2. \A a \in Peers :
        /\ Has(a) => a \in announced /\ ~Pending("CREATE", a)
        /\ a \notin missed =>
            /\ a \in announced /\ ~Pending("CREATE", a) /\ (a \in withdrawn => Pending("DESTROY", a)) => Has(a)
            /\ a \in withdrawn /\ Has(a) => Pending("DESTROY", a)
            /\ a \in withdrawn /\ Pending("CREATE", a) => Pending("DESTROY", a)
  BY DEF PeersAt
<1>3. \A f, a : Pending(f, a) <=> At(up, f, a) \/ At(ns_mq, f, a) \/ InTask(f, a)
  BY DEF Pending
<1>4. withdrawn \subseteq announced /\ missed \subseteq missed'
  BY HistoryKept DEF NamesShape
<1>5. UNCHANGED ept => \A a : H(a) <=> Has(a)
  BY DEF Has
<1>6. UNCHANGED <<ns, msg>> => \A f, a : T(f, a) <=> InTask(f, a)
  BY DEF InTask
<1>7. ASSUME NEW a \in Peers, UNCHANGED <<announced, withdrawn>>, a \in missed' \/ UNCHANGED missed,
             H(a) <=> Has(a), P("CREATE", a) => Pending("CREATE", a),
             a \notin missed' => (P("CREATE", a) <=> Pending("CREATE", a))
                                 /\ (P("DESTROY", a) <=> Pending("DESTROY", a))
      PROVE  Good(a)
  <2> HIDE DEF U, M, T, H, P
  <2> QED BY <1>2, <1>7
<1>8. CASE Calm
  <2>1. /\ UNCHANGED <<ns_mq, announced, withdrawn, missed>> /\ Kept(up, up')
        /\ \A f, a : T(f, a) <=> InTask(f, a)
    BY <1>6, <1>8 DEF Calm
  <2>2. \A a : H(a) <=> Has(a)
    BY <1>8 DEF Calm, Has
  <2>3. \A a \in Peers, f \in {"CREATE", "DESTROY"} : P(f, a) <=> Pending(f, a)
    <3> HIDE DEF T, H
    <3> QED BY <1>3, <2>1 DEF Kept
  <2> HIDE DEF P, T, H, U, M, Good
  <2> QED BY <1>1, <1>7, <2>1, <2>2, <2>3
<1>9. ASSUME NEW f \in {"CREATE", "DESTROY"}, Says(f)
      PROVE  PeersAt'
  <2> DEFINE x == Rpmsg!Addr
  <2>1. /\ UNCHANGED <<ns_mq, missed>> /\ \A g, a : T(g, a) <=> InTask(g, a)
        /\ \A a : H(a) <=> Has(a)
    BY <1>5, <1>6, <1>9 DEF Says
  <2>2. \A g \in {"CREATE", "DESTROY"}, a \in Peers : U(g, a) <=> At(up, g, a) \/ (g = f /\ a = x)
    BY <1>9, AfterSays
  <2>3. /\ x \in Peers
        /\ f = "CREATE" => x \notin announced /\ announced' = announced \cup {x} /\ withdrawn' = withdrawn
        /\ f = "DESTROY" => x \in announced \ withdrawn /\ announced' = announced
                            /\ withdrawn' = withdrawn \cup {x}
    BY <1>9 DEF Says, Rpmsg!Announce
  <2> HIDE DEF x
  <2>4. \A g \in {"CREATE", "DESTROY"}, a \in Peers : P(g, a) <=> Pending(g, a) \/ (g = f /\ a = x)
    <3> HIDE DEF T, U
    <3> QED BY <1>3, <2>1, <2>2
  <2> HIDE DEF P, T, H, U, M
  <2>5. ASSUME NEW a \in Peers
        PROVE  Good(a)
    <3>1. CASE a # x
      BY <1>2, <2>1, <2>3, <2>4, <3>1
    <3>2. CASE a = x
      BY <1>2, <1>4, <2>1, <2>3, <2>4, <3>2
    <3> QED BY <3>1, <3>2
  <2> HIDE DEF Good
  <2> QED BY <1>1, <2>5
<1>10. CASE Arrives
  <2> DEFINE h == Head(up)
  <2>1. /\ UNCHANGED <<announced, withdrawn>> /\ \A g, a : T(g, a) <=> InTask(g, a)
        /\ \A a : H(a) <=> Has(a)
    BY <1>5, <1>6, <1>10, AfterArrives
  <2>2. /\ \A g \in {"CREATE", "DESTROY"}, a \in Peers : At(up, g, a) <=> U(g, a) \/ (g = h.flags /\ a = h.dst)
        /\ \/ /\ UNCHANGED missed
              /\ \A g \in {"CREATE", "DESTROY"}, a \in Peers :
                   M(g, a) <=> At(ns_mq, g, a) \/ (g = h.flags /\ a = h.dst)
           \/ UNCHANGED ns_mq /\ missed' = missed \cup {h.dst}
    BY <1>10, AfterArrives
  <2> HIDE DEF h
  <2>3. CASE /\ UNCHANGED missed
             /\ \A g \in {"CREATE", "DESTROY"}, a \in Peers :
                   M(g, a) <=> At(ns_mq, g, a) \/ (g = h.flags /\ a = h.dst)
    <3>1. \A g \in {"CREATE", "DESTROY"}, a \in Peers : P(g, a) <=> Pending(g, a)
      <4> HIDE DEF T, U, M
      <4> QED BY <1>3, <2>1, <2>2, <2>3
    <3> HIDE DEF P, T, H, U, M, Good
    <3> QED BY <1>1, <1>7, <2>1, <2>3, <3>1
  <2>4. CASE UNCHANGED ns_mq /\ missed' = missed \cup {h.dst}
    <3>1. \A g \in {"CREATE", "DESTROY"}, a \in Peers :
            (P(g, a) => Pending(g, a)) /\ (a # h.dst => (P(g, a) <=> Pending(g, a)))
      <4> HIDE DEF T, U
      <4> QED BY <1>3, <2>1, <2>2, <2>4
    <3> HIDE DEF P, T, H, U, M
    <3>2. ASSUME NEW a \in Peers
          PROVE  Good(a)
      BY <1>2, <2>1, <2>4, <3>1
    <3> HIDE DEF Good
    <3> QED BY <1>1, <3>2
  <2> QED BY <2>2, <2>3, <2>4
<1>11. CASE Rpmsg!NsReceive
  <2>1. /\ UNCHANGED <<up, announced, withdrawn, missed>> /\ \A a : H(a) <=> Has(a)
        /\ ns' \in {"CREATE", "DESTROY"} /\ ns = "wait"
        /\ \A g \in {"CREATE", "DESTROY"}, a \in Peers :
             At(ns_mq, g, a) <=> M(g, a) \/ (g = ns' /\ a = msg'.dst)
    BY <1>5, <1>11, AfterReceive
  <2>2. \A g \in {"CREATE", "DESTROY"} : \A a : ~InTask(g, a) /\ (T(g, a) <=> ns' = g /\ msg'.dst = a)
    BY <2>1 DEF InTask
  <2>3. \A g \in {"CREATE", "DESTROY"}, a \in Peers : P(g, a) <=> Pending(g, a)
    <3> HIDE DEF T, M, H
    <3> QED BY <1>3, <2>1, <2>2
  <2> HIDE DEF P, T, H, U, M, Good
  <2> QED BY <1>1, <1>7, <2>1, <2>3
<1>12. CASE Rpmsg!NsCreate
  <2>1. /\ UNCHANGED <<up, ns_mq, announced, withdrawn>> /\ ns = "CREATE" /\ msg.dst \in Peers
        /\ \/ ns' = "address" /\ UNCHANGED <<msg, missed>>
           \/ ns' = "wait" /\ missed' = missed \cup {msg.dst}
    BY <1>12, AfterNs, CreatesOne
  <2>2. \A a \in Peers : H(a) <=> Has(a)
    BY <1>12, HasAfter
  <2>3. \A g \in {"CREATE", "DESTROY"}, a \in Peers :
          /\ T(g, a) => InTask(g, a)
          /\ a \notin missed' => (T(g, a) <=> InTask(g, a))
    BY <2>1 DEF InTask
  <2>4. \A g \in {"CREATE", "DESTROY"}, a \in Peers :
          /\ P(g, a) => Pending(g, a)
          /\ a \notin missed' => (P(g, a) <=> Pending(g, a))
    <3> HIDE DEF T
    <3> QED BY <1>3, <2>1, <2>3
  <2>5. \A a \in Peers : a \in missed' \/ a \notin missed
    BY <2>1
  <2> HIDE DEF P, T, H, U, M
  <2>6. ASSUME NEW a \in Peers
        PROVE  Good(a)
    BY <1>2, <2>1, <2>2, <2>4, <2>5
  <2> HIDE DEF Good
  <2> QED BY <1>1, <2>6
<1>13. CASE Rpmsg!NsAddress
  <2>1. /\ UNCHANGED <<up, ns_mq, announced, withdrawn, missed>>
        /\ ns = "address" /\ ns' = "wait" /\ msg.dst \in Peers
    BY <1>13, AfterNs, NamesOne
  <2>2. \A a \in Peers : H(a) <=> Has(a) \/ a = msg.dst
    BY <1>13, HasAfter
  <2>3. \A g \in {"CREATE", "DESTROY"}, a \in Peers :
          ~T(g, a) /\ (InTask(g, a) <=> g = "CREATE" /\ a = msg.dst)
    BY <2>1 DEF InTask
  <2>4. /\ ~At(up, "CREATE", msg.dst) /\ ~At(ns_mq, "CREATE", msg.dst) /\ msg.dst \in announced
    BY <2>1, <2>3 DEF PipeAt, Pending
  <2>5. \A g \in {"CREATE", "DESTROY"}, a \in Peers :
          P(g, a) <=> Pending(g, a) /\ ~(g = "CREATE" /\ a = msg.dst)
    <3> HIDE DEF T
    <3> QED BY <1>3, <2>1, <2>3, <2>4
  <2>6. Pending("CREATE", msg.dst)
    BY <1>3, <2>1, <2>3
  <2> HIDE DEF P, T, H, U, M
  <2>7. ASSUME NEW a \in Peers
        PROVE  Good(a)
    <3>1. CASE a # msg.dst
      BY <1>2, <2>1, <2>2, <2>5, <3>1
    <3>2. CASE a = msg.dst
      BY <1>2, <2>1, <2>2, <2>4, <2>5, <2>6, <3>2
    <3> QED BY <3>1, <3>2
  <2> HIDE DEF Good
  <2> QED BY <1>1, <2>7
<1>14. CASE Rpmsg!NsDestroy
  <2>1. /\ UNCHANGED <<up, ns_mq, announced, withdrawn, missed>>
        /\ ns = "DESTROY" /\ ns' = "wait" /\ msg.dst \in Peers
    BY <1>14, AfterNs, DestroysOne
  <2>2. \A a \in Peers : H(a) <=> Has(a) /\ a # msg.dst
    BY <1>14, HasAfter
  <2>3. \A g \in {"CREATE", "DESTROY"}, a \in Peers :
          ~T(g, a) /\ (InTask(g, a) <=> g = "DESTROY" /\ a = msg.dst)
    BY <2>1 DEF InTask
  <2>4. /\ ~At(up, "CREATE", msg.dst) /\ ~At(ns_mq, "CREATE", msg.dst)
        /\ ~At(up, "DESTROY", msg.dst) /\ ~At(ns_mq, "DESTROY", msg.dst) /\ msg.dst \in withdrawn
    BY <2>1, <2>3 DEF PipeAt, Pending
  <2>5. \A g \in {"CREATE", "DESTROY"}, a \in Peers :
          P(g, a) <=> Pending(g, a) /\ ~(g = "DESTROY" /\ a = msg.dst)
    <3> HIDE DEF T
    <3> QED BY <1>3, <2>1, <2>3, <2>4
  <2>6. ~Pending("CREATE", msg.dst)
    BY <1>3, <2>1, <2>3, <2>4
  <2> HIDE DEF P, T, H, U, M
  <2>7. ASSUME NEW a \in Peers
        PROVE  Good(a)
    <3>1. CASE a # msg.dst
      BY <1>2, <2>1, <2>2, <2>5, <3>1
    <3>2. CASE a = msg.dst
      BY <1>2, <2>1, <2>2, <2>4, <2>5, <2>6, <3>2
    <3> QED BY <3>1, <3>2
  <2> HIDE DEF Good
  <2> QED BY <1>1, <2>7
<1> HIDE DEF U, M, T, H, P, Good
<1> QED BY <1>8, <1>9, <1>10, <1>11, <1>12, <1>13, <1>14, Effects

(* An endpoint that has a peer keeps it, and addresses are not given back. *)
LEMMA EptGrows ==
    ASSUME Rpmsg!RpmsgAssumption, NamesShape, PipeAt, RemoteAt, PlayAt, EndpointsAt,
           AddressesAt, [Rpmsg!Next]_rpmsgVars
    PROVE  /\ rpmsg_src \in Nat /\ rpmsg_src' \in Nat /\ rpmsg_src <= rpmsg_src'
           /\ \A s \in Rpmsg!Srcs : s < rpmsg_src =>
                /\ ept[s].remote_addr # Rpmsg!ANY => ept'[s].remote_addr = ept[s].remote_addr
                /\ ept[s].live \/ ept[s].remote_addr # Rpmsg!ANY =>
                     ept'[s].live \/ ept'[s].remote_addr # Rpmsg!ANY
<1> DEFINE S == Rpmsg!Srcs
           Grows == \A s \in S : s < rpmsg_src =>
                /\ ept[s].remote_addr # Rpmsg!ANY => ept'[s].remote_addr = ept[s].remote_addr
                /\ ept[s].live \/ ept[s].remote_addr # Rpmsg!ANY =>
                     ept'[s].live \/ ept'[s].remote_addr # Rpmsg!ANY
<1>1. rpmsg_src \in Nat /\ \A s \in S : s \in Nat
  BY PeersAre DEF NamesShape
<1>2. UNCHANGED ept => Grows
  OBVIOUS
<1>3. CASE Calm
  BY <1>1, <1>3 DEF Calm
<1>4. CASE Rpmsg!NsCreate
  <2>1. /\ rpmsg_src' = rpmsg_src + 1
        /\ (\A s \in S \ {rpmsg_src} : ept'[s] = ept[s]) \/ UNCHANGED ept
    BY <1>4, CreatesOne
  <2>2. \A s \in S : s < rpmsg_src => s # rpmsg_src
    BY <1>1
  <2> QED BY <1>1, <2>1, <2>2
<1>5. CASE Rpmsg!NsAddress
  <2>1. PICK r : r = rpmsg_src - 1
    OBVIOUS
  <2>2. /\ UNCHANGED rpmsg_src /\ ept[r].remote_addr = Rpmsg!ANY /\ ept'[r].live
        /\ \A s \in S \ {r} : ept'[s] = ept[s]
    BY <1>5, <2>1, NamesOne
  <2> QED BY <1>1, <2>2
<1>6. CASE Rpmsg!NsDestroy
  <2>1. /\ UNCHANGED rpmsg_src /\ msg.dst \in Peers
        /\ \A s \in S : /\ ept'[s].remote_addr = ept[s].remote_addr
                        /\ ept'[s].live <=> ept[s].live /\ ept[s].remote_addr # msg.dst
    BY <1>6, DestroysOne
  <2>2. msg.dst # Rpmsg!ANY
    BY <2>1, PeersAre DEF Rpmsg!ANY
  <2> QED BY <1>1, <2>1, <2>2
<1>7. \A f : Says(f) => UNCHANGED <<ept, rpmsg_src>>
  BY DEF Says
<1>8. Arrives => UNCHANGED <<ept, rpmsg_src>>
  BY DEF Arrives, Rpmsg!Receive
<1>9. Rpmsg!NsReceive => UNCHANGED <<ept, rpmsg_src>>
  BY AfterReceive
<1>10. CASE UNCHANGED <<ept, rpmsg_src>>
  BY <1>1, <1>2, <1>10
<1> QED BY <1>3, <1>4, <1>5, <1>6, <1>7, <1>8, <1>9, <1>10, Effects

(* The application, and the endpoint that it holds.                        *)
AppAt ==
    /\ held = 0 <=> app \in {"search", "compare"}
    /\ held # 0 => held < rpmsg_src /\ held \in Rpmsg!Srcs /\ ept[held].remote_addr = case.dst
    /\ i <= rpmsg_src
    /\ app = "compare" => i < rpmsg_src /\ (ept[i].live \/ ept[i].remote_addr # Rpmsg!ANY)
    /\ app # "done" => round < Rounds

LEMMA AppKept ==
    ASSUME Rpmsg!RpmsgAssumption, NamesShape, Rpmsg!TypeOK, PipeAt, RemoteAt, PlayAt, EndpointsAt,
           AddressesAt, [Rpmsg!Next]_rpmsgVars
    PROVE  /\ AppAt' /\ i' \in Nat \ {0} /\ held' \in Nat /\ round' \in 0..Rounds
           /\ app' \in {"search", "compare", "send", "recv", "done"}
           /\ held' = held \/ held = 0
<1> DEFINE S == Rpmsg!Srcs
<1>1. /\ held = 0 <=> app \in {"search", "compare"}
      /\ held # 0 => held < rpmsg_src /\ held \in S /\ ept[held].remote_addr = case.dst
      /\ i <= rpmsg_src
      /\ app = "compare" => i < rpmsg_src /\ (ept[i].live \/ ept[i].remote_addr # Rpmsg!ANY)
      /\ app # "done" => round < Rounds
  BY DEF PlayAt
<1>2. /\ i \in Nat \ {0} /\ held \in Nat /\ round \in 0..Rounds /\ Rounds \in Nat \ {0}
      /\ app \in {"search", "compare", "send", "recv", "done"}
      /\ case'.dst = case.dst /\ case.dst \in Peers /\ case.dst # Rpmsg!ANY
  <2>1. case'.dst = case.dst
    BY CaseKept
  <2>2. case.dst \in Peers /\ case.dst # Rpmsg!ANY
    BY PeersAre DEF NamesShape, Rpmsg!ANY
  <2> QED BY <2>1, <2>2 DEF NamesShape, Rpmsg!TypeOK, Rpmsg!RpmsgAssumption
<1>3. /\ rpmsg_src \in Nat \ {0} /\ rpmsg_src' \in Nat /\ rpmsg_src <= rpmsg_src'
      /\ \A s \in S : s < rpmsg_src =>
            /\ ept[s].remote_addr # Rpmsg!ANY => ept'[s].remote_addr = ept[s].remote_addr
            /\ ept[s].live \/ ept[s].remote_addr # Rpmsg!ANY =>
                 ept'[s].live \/ ept'[s].remote_addr # Rpmsg!ANY
  BY EptGrows DEF NamesShape
<1>4. \A s \in Nat \ {0} : s < rpmsg_src => s \in S
  <2>1. S = 1..Cardinality(Peers) /\ Cardinality(Peers) \in Nat /\ rpmsg_src <= Cardinality(Peers) + 1
    BY PeersAre, SameNumber DEF NamesShape
  <2> QED BY <1>3, <2>1
<1> HIDE DEF S
<1>5. ASSUME /\ held' = 0 <=> app' \in {"search", "compare"}
             /\ held' # 0 => held' < rpmsg_src' /\ held' \in S /\ ept'[held'].remote_addr = case.dst
             /\ i' <= rpmsg_src'
             /\ app' = "compare" => i' < rpmsg_src' /\ (ept'[i'].live \/ ept'[i'].remote_addr # Rpmsg!ANY)
             /\ app' # "done" => round' < Rounds
      PROVE  AppAt'
  BY <1>2, <1>5 DEF AppAt, S
<1>6. CASE UNCHANGED <<app, i, held, round>>
  <2>1. app = "compare" => i \in S
    BY <1>1, <1>2, <1>4
  <2>2. i <= rpmsg_src'
    BY <1>1, <1>2, <1>3
  <2>3. \A s \in Nat : s < rpmsg_src => s < rpmsg_src'
    BY <1>3
  <2> QED BY <1>1, <1>2, <1>3, <1>5, <1>6, <2>1, <2>2, <2>3
<1>7. CASE Rpmsg!Search
  <2>1. /\ app = "search" /\ UNCHANGED <<rpmsg_src, ept, held, round>>
        /\ \/ i \in 1..(rpmsg_src - 1) /\ ept[i].live /\ app' = "compare" /\ UNCHANGED i
           \/ i \in 1..(rpmsg_src - 1) /\ i' = i + 1 /\ UNCHANGED app
           \/ i' = 1 /\ UNCHANGED app
    BY <1>7 DEF Rpmsg!Search, Rpmsg!AppStep, Rpmsg!AppRest, Rpmsg!Searched
  <2>2. i \in 1..(rpmsg_src - 1) => i < rpmsg_src /\ i + 1 <= rpmsg_src
    BY <1>3
  <2>3. 1 <= rpmsg_src /\ i + 1 \in Nat \ {0}
    BY <1>2, <1>3
  <2> QED BY <1>1, <1>2, <1>3, <1>5, <2>1, <2>2, <2>3
<1>8. CASE Rpmsg!Compare
  <2>1. /\ app = "compare" /\ UNCHANGED <<rpmsg_src, ept, round>>
        /\ IF ept[i].remote_addr = case.dst
           THEN app' = "send" /\ held' = i /\ i' = 1
           ELSE app' = "search" /\ i' = i + 1 /\ UNCHANGED held
    BY <1>8 DEF Rpmsg!Compare, Rpmsg!AppStep, Rpmsg!AppRest
  <2>2. i < rpmsg_src /\ i \in S /\ 1 <= rpmsg_src /\ i + 1 <= rpmsg_src /\ i + 1 \in Nat \ {0}
    BY <1>1, <1>2, <1>3, <1>4, <2>1
  <2>3. held = 0 /\ round < Rounds
    BY <1>1, <2>1
  <2> QED BY <1>2, <1>3, <1>5, <2>1, <2>2, <2>3
<1>9. CASE Rpmsg!AppSend
  <2>1. app = "send" /\ app' = "recv" /\ UNCHANGED <<rpmsg_src, ept, i, held, round>>
    BY <1>9 DEF Rpmsg!AppSend, Rpmsg!AppStep, Rpmsg!AppRest
  <2> QED BY <1>1, <1>2, <1>3, <1>5, <2>1
<1>10. CASE Rpmsg!AppRecv
  <2>1. /\ app = "recv" /\ UNCHANGED <<rpmsg_src, i, held>>
        /\ \/ round' = round + 1 /\ app' = IF round + 1 = Rounds THEN "done" ELSE "send"
           \/ UNCHANGED <<round, app>>
    BY <1>10 DEF Rpmsg!AppRecv, Rpmsg!AppStep, Rpmsg!AppRest
  <2>2. round < Rounds /\ held # 0
    BY <1>1, <2>1
  <2>3. held \in S /\ held < rpmsg_src /\ ept'[held].remote_addr = case.dst
    BY <1>1, <1>2, <1>3, <2>2
  <2>4. round + 1 \in 0..Rounds /\ (round + 1 # Rounds => round + 1 < Rounds)
    BY <1>2, <2>2
  <2>5. round' \in 0..Rounds /\ app' \in {"send", "recv", "done"} /\ (app' # "done" => round' < Rounds)
    BY <1>2, <2>1, <2>2, <2>4
  <2> QED BY <1>1, <1>2, <1>3, <1>5, <2>1, <2>2, <2>3, <2>5
<1>11. \/ UNCHANGED <<app, i, held, round>>
       \/ Rpmsg!Search \/ Rpmsg!Compare \/ Rpmsg!AppSend \/ Rpmsg!AppRecv
  BY NamesSteps DEF Rpmsg!MasterInit, Rpmsg!Receive, Rpmsg!NsReceive, Rpmsg!NsCreate, Rpmsg!NsAddress,
     Rpmsg!NsDestroy, Rpmsg!RemoteCreate, Rpmsg!RemoteTask, Rpmsg!RemoteUndo, Rpmsg!RemoteRest,
     Rpmsg!RemoteReceive, Rpmsg!Echo, Rpmsg!appVars, rpmsgVars
<1> QED BY <1>6, <1>7, <1>8, <1>9, <1>10, <1>11

LEMMA SeqGrows == ASSUME NEW S, NEW T, S \subseteq T, NEW q \in Seq(S) PROVE q \in Seq(T)
OBVIOUS

LEMMA TailKeeps == ASSUME NEW S, NEW q \in Seq(S), q # <<>> PROVE Tail(q) \in Seq(S)
OBVIOUS

(* What is on its way between the application and its peer.                *)
Pongs(h, d) == {m \in Echoes : m.dst = h /\ m.src = d}
Pings(h, d) == {m \in [dst : Peers, src : Rpmsg!Srcs] : m.dst = d /\ m.src = h}
PingsOf(a, h, d) == {s \in Rpmsg!Srcs : s = h /\ a = d}
PongsOf(s, h, d) == {a \in Peers : a = d /\ s = h}

LEMMA UpKept ==
    ASSUME NamesShape, RemoteAt, PlayAt, [Rpmsg!Next]_rpmsgVars
    PROVE  up' \in Seq(Announcements \cup Pongs(held, case.dst))
<1> DEFINE S == Announcements \cup Pongs(held, case.dst)
<1>1. up \in Seq(S)
  BY DEF PlayAt, Pongs
<1>2. ASSUME NEW x \in S, up' = Append(up, x)
      PROVE  up' \in Seq(S)
  <2> HIDE DEF S
  <2> QED BY <1>1, <1>2
<1>3. CASE UNCHANGED up
  BY <1>1, <1>3
<1>4. CASE Rpmsg!Receive
  <2>1. up # <<>> /\ up' = Tail(up)
    BY <1>4 DEF Rpmsg!Receive
  <2> HIDE DEF S
  <2>2. up' \in Seq(S)
    BY <1>1, <2>1
  <2> QED BY <2>2 DEF S
<1>5. ASSUME NEW f \in {"CREATE", "DESTROY"}, Rpmsg!Announce(f, Rpmsg!Addr), Rpmsg!Addr \in Peers
      PROVE  up' \in Seq(S)
  <2>1. [flags |-> f, dst |-> Rpmsg!Addr] \in S
    BY <1>5 DEF Announcements
  <2> QED BY <1>2, <1>5, <2>1 DEF Rpmsg!Announce
<1>6. CASE Rpmsg!RemoteCreate /\ ~UNCHANGED up
  BY <1>5, <1>6, AddrAtHand DEF Rpmsg!RemoteCreate
<1>7. CASE Rpmsg!RemoteUndo /\ ~UNCHANGED up
  BY <1>5, <1>7, AddrAtHand DEF Rpmsg!RemoteUndo
<1>8. ASSUME NEW a \in Peers, Rpmsg!Echo(a), ~UNCHANGED up
      PROVE  up' \in Seq(S)
  <2>1. PICK x \in Echoes : x.dst = Head(rept[a].q) /\ x.src = a /\ up' = Append(up, x)
    BY <1>8, AnswerIs
  <2>2. rept[a].q # <<>> /\ rept[a].q \in Seq({s \in Rpmsg!Srcs : s = held /\ a = case.dst})
    BY <1>8 DEF Rpmsg!Echo, PlayAt
  <2>3. Head(rept[a].q) \in {s \in Rpmsg!Srcs : s = held /\ a = case.dst}
    BY <2>2, HeadIsOne
  <2>4. x \in S
    BY <2>1, <2>3 DEF Pongs
  <2> QED BY <1>2, <2>1, <2>4
<1>9. \/ UNCHANGED up \/ Rpmsg!Receive \/ Rpmsg!RemoteCreate \/ Rpmsg!RemoteUndo
      \/ \E a \in Peers : Rpmsg!Echo(a)
  BY NamesSteps DEF Rpmsg!MasterInit, Rpmsg!NsReceive, Rpmsg!NsCreate, Rpmsg!NsAddress,
     Rpmsg!NsDestroy, Rpmsg!Search, Rpmsg!Compare, Rpmsg!AppSend, Rpmsg!AppRecv,
     Rpmsg!RemoteTask, Rpmsg!RemoteReceive, rpmsgVars
<1> QED BY <1>3, <1>4, <1>6, <1>7, <1>8, <1>9

LEMMA DownKept ==
    ASSUME NamesShape, PlayAt, [Rpmsg!Next]_rpmsgVars
    PROVE  down' \in Seq(Pings(held, case.dst))
<1> DEFINE S == Pings(held, case.dst)
<1>1. down \in Seq(S)
  BY DEF PlayAt, Pings
<1>2. CASE UNCHANGED down
  BY <1>1, <1>2
<1>3. CASE Rpmsg!RemoteReceive
  <2>1. down # <<>> /\ down' = Tail(down)
    BY <1>3 DEF Rpmsg!RemoteReceive
  <2> HIDE DEF S
  <2>2. down' \in Seq(S)
    BY <1>1, <2>1
  <2> QED BY <2>2 DEF S
<1>4. CASE Rpmsg!AppSend
  <2>1. app = "send" /\ down' = Append(down, [dst |-> ept[held].remote_addr, src |-> held])
    BY <1>4 DEF Rpmsg!AppSend, Rpmsg!AppStep
  <2>2. held # 0
    BY <2>1 DEF PlayAt
  <2>3. held \in Rpmsg!Srcs /\ ept[held].remote_addr = case.dst /\ case.dst \in Peers
    BY <2>2 DEF PlayAt, NamesShape
  <2>4. PICK x : x = [dst |-> ept[held].remote_addr, src |-> held]
    OBVIOUS
  <2>5. x \in S
    BY <2>3, <2>4 DEF Pings
  <2> HIDE DEF S
  <2>6. down' \in Seq(S)
    BY <1>1, <2>1, <2>4, <2>5
  <2> QED BY <2>6 DEF S
<1>5. UNCHANGED down \/ Rpmsg!RemoteReceive \/ Rpmsg!AppSend
  BY NamesSteps DEF Rpmsg!MasterInit, Rpmsg!Receive, Rpmsg!NsReceive, Rpmsg!NsCreate, Rpmsg!NsAddress,
     Rpmsg!NsDestroy, Rpmsg!Search, Rpmsg!Compare, Rpmsg!AppRecv, Rpmsg!RemoteCreate,
     Rpmsg!RemoteUndo, Rpmsg!RemoteTask, Rpmsg!Echo, rpmsgVars
<1> QED BY <1>2, <1>3, <1>4, <1>5

LEMMA ReptKept ==
    ASSUME NamesShape, RemoteAt, PlayAt, [Rpmsg!Next]_rpmsgVars
    PROVE  \A a \in Peers : /\ rept'[a].remote_addr \in {Rpmsg!ANY, held}
                            /\ rept'[a].q \in Seq(PingsOf(a, held, case.dst))
<1> DEFINE E == [live : BOOLEAN, remote_addr : Rpmsg!Srcs \cup {Rpmsg!ANY}, q : Seq(Rpmsg!Srcs)]
           Fine(a, r) == r.remote_addr \in {Rpmsg!ANY, held} /\ r.q \in Seq(PingsOf(a, held, case.dst))
<1>1. rept \in [Peers -> E] /\ DOMAIN rept = Peers
  BY DEF NamesShape
<1>2. \A a \in Peers : Fine(a, rept[a])
  BY DEF PlayAt, PingsOf
<1>3. \A a : Fine(a, Rpmsg!NoEpt) /\ Fine(a, [Rpmsg!NoEpt EXCEPT !.live = TRUE])
  BY DEF Rpmsg!NoEpt
<1>4. ASSUME NEW b, NEW r, Fine(b, r), rept' = [rept EXCEPT ![b] = r]
      PROVE  \A a \in Peers : Fine(a, rept'[a])
  <2> TAKE a \in Peers
  <2> HIDE DEF Fine
  <2>1. CASE a = b
    <3>1. rept'[a] = r
      BY <1>1, <1>4, <2>1
    <3> QED BY <1>4, <2>1, <3>1
  <2>2. CASE a # b
    <3>1. rept'[a] = rept[a]
      BY <1>1, <1>4, <2>2
    <3> QED BY <1>2, <3>1
  <2> QED BY <2>1, <2>2
<1>5. CASE UNCHANGED rept
  BY <1>2, <1>5
<1>6. CASE Rpmsg!RemoteCreate /\ ~UNCHANGED rept
  <2>1. PICK r : r = [Rpmsg!NoEpt EXCEPT !.live = TRUE]
    OBVIOUS
  <2>2. rept' = [rept EXCEPT ![Rpmsg!Addr] = r] /\ Fine(Rpmsg!Addr, r)
    BY <1>3, <1>6, <2>1 DEF Rpmsg!RemoteCreate
  <2> QED BY <1>4, <2>2
<1>7. CASE Rpmsg!RemoteUndo /\ ~UNCHANGED rept
  <2>1. rept' = [rept EXCEPT ![Rpmsg!Addr] = Rpmsg!NoEpt]
    BY <1>7 DEF Rpmsg!RemoteUndo
  <2> QED BY <1>3, <1>4, <2>1
<1>8. CASE Rpmsg!RemoteReceive /\ ~UNCHANGED rept
  <2>1. down # <<>> /\ down \in Seq(Pings(held, case.dst))
    BY <1>8 DEF Rpmsg!RemoteReceive, PlayAt, Pings
  <2>2. Head(down) \in Pings(held, case.dst)
    BY <2>1, HeadIsOne
  <2>3. PICK b, x, y : b = Head(down).dst /\ y = Head(down).src /\ x = Append(rept[b].q, y)
    OBVIOUS
  <2>4. rept' = [rept EXCEPT ![b].q = x]
    BY <1>8, <2>3 DEF Rpmsg!RemoteReceive
  <2>5. b \in Peers /\ y \in PingsOf(b, held, case.dst)
    BY <2>2, <2>3 DEF Pings, PingsOf
  <2>6. rept[b] \in E /\ Fine(b, rept[b])
    BY <1>1, <1>2, <2>5
  <2>7. x \in Seq(PingsOf(b, held, case.dst))
    BY <2>3, <2>5, <2>6
  <2>8. PICK r : r = [rept[b] EXCEPT !.q = x]
    OBVIOUS
  <2>9. r.remote_addr = rept[b].remote_addr /\ r.q = x
    BY <2>6, <2>8
  <2>10. Fine(b, r) /\ rept' = [rept EXCEPT ![b] = r]
    BY <2>4, <2>6, <2>7, <2>8, <2>9
  <2> QED BY <1>4, <2>10
<1>9. ASSUME NEW b \in Peers, Rpmsg!Echo(b)
      PROVE  \A a \in Peers : Fine(a, rept'[a])
  <2>1. rept[b].q # <<>> /\ rept[b] \in E /\ Fine(b, rept[b])
    BY <1>1, <1>2, <1>9 DEF Rpmsg!Echo
  <2>2. Head(rept[b].q) = held
    <3>1. Head(rept[b].q) \in PingsOf(b, held, case.dst)
      BY <2>1, HeadIsOne
    <3> QED BY <3>1 DEF PingsOf
  <2>3. PICK x, y : x = Tail(rept[b].q)
                    /\ y = IF rept[b].remote_addr = Rpmsg!ANY THEN Head(rept[b].q) ELSE rept[b].remote_addr
    OBVIOUS
  <2>4. x \in Seq(PingsOf(b, held, case.dst)) /\ y \in {Rpmsg!ANY, held}
    <3>1. Tail(rept[b].q) \in Seq(PingsOf(b, held, case.dst))
      BY <2>1, TailKeeps
    <3>2. rept[b].remote_addr \in {Rpmsg!ANY, held}
      BY <2>1
    <3> QED BY <2>2, <2>3, <3>1, <3>2
  <2>5. rept' = [rept EXCEPT ![b] = [[rept[b] EXCEPT !.q = x] EXCEPT !.remote_addr = y]]
    BY <1>1, <1>9, <2>3 DEF Rpmsg!Echo
  <2>6. PICK r : r = [[rept[b] EXCEPT !.q = x] EXCEPT !.remote_addr = y]
    OBVIOUS
  <2>7. r.remote_addr = y /\ r.q = x
    BY <2>1, <2>6
  <2>8. Fine(b, r) /\ rept' = [rept EXCEPT ![b] = r]
    BY <2>4, <2>5, <2>6, <2>7
  <2> QED BY <1>4, <2>8
<1>10. \/ UNCHANGED rept \/ Rpmsg!RemoteCreate \/ Rpmsg!RemoteUndo \/ Rpmsg!RemoteReceive
       \/ \E a \in Peers : Rpmsg!Echo(a)
  BY NamesSteps DEF Rpmsg!MasterInit, Rpmsg!Receive, Rpmsg!NsReceive, Rpmsg!NsCreate, Rpmsg!NsAddress,
     Rpmsg!NsDestroy, Rpmsg!Search, Rpmsg!Compare, Rpmsg!AppSend, Rpmsg!AppRecv, Rpmsg!AppRest,
     Rpmsg!RemoteTask, Rpmsg!peerVars, rpmsgVars
<1> QED BY <1>5, <1>6, <1>7, <1>8, <1>9, <1>10

LEMMA EptKept ==
    ASSUME Rpmsg!RpmsgAssumption, NamesShape, PipeAt, PlayAt, EndpointsAt, AddressesAt,
           [Rpmsg!Next]_rpmsgVars
    PROVE  \A s \in Rpmsg!Srcs : ept'[s].q \in Seq(PongsOf(s, held, case.dst))
<1> DEFINE S == Rpmsg!Srcs
           E == [live : BOOLEAN, remote_addr : Peers \cup {Rpmsg!ANY}, q : Seq(Peers)]
           Q(s) == Seq(PongsOf(s, held, case.dst))
<1>1. ept \in [S -> E]
  BY DEF NamesShape
<1>2. \A s \in S : ept[s].q \in Q(s) /\ <<>> \in Q(s)
  BY DEF PlayAt, PongsOf
<1>3. CASE \A s \in S : ept'[s] = ept[s] \/ ept'[s].q = <<>> \/ ept'[s].q = ept[s].q
  <2> HIDE DEF Q, S
  <2>1. \A s \in S : ept'[s].q \in Q(s)
    BY <1>2, <1>3
  <2> QED BY <2>1 DEF Q, S
<1>4. ASSUME NEW t \in S, NEW x \in Q(t), ept' = [ept EXCEPT ![t].q = x]
      PROVE  \A s \in S : ept'[s].q \in Q(s)
  <2>1. ept'[t].q = x /\ \A s \in S \ {t} : ept'[s] = ept[s]
    BY <1>1, <1>4
  <2> HIDE DEF Q, S
  <2> QED BY <1>2, <1>4, <2>1
<1>5. CASE Rpmsg!Receive /\ ~UNCHANGED ept
  <2>1. up # <<>> /\ Head(up).flags = "data"
    BY <1>5 DEF Rpmsg!Receive
  <2>2. up \in Seq(Announcements \cup Pongs(held, case.dst))
    BY DEF PlayAt, Pongs
  <2>3. Head(up) \in Pongs(held, case.dst)
    <3>1. Head(up) \in Announcements \cup Pongs(held, case.dst)
      BY <2>1, <2>2, HeadIsOne
    <3> QED BY <2>1, <3>1 DEF Announcements
  <2>4. PICK t, x, y : t = Head(up).dst /\ y = Head(up).src /\ x = Append(ept[t].q, y)
    OBVIOUS
  <2>5. ept' = [ept EXCEPT ![t].q = x]
    BY <1>5, <2>1, <2>4 DEF Rpmsg!Receive
  <2>6. t \in S /\ y \in PongsOf(t, held, case.dst)
    BY <2>3, <2>4 DEF Pongs, PongsOf, Echoes
  <2>7. x \in Q(t)
    BY <1>2, <2>4, <2>6
  <2> QED BY <1>4, <2>5, <2>6, <2>7
<1>6. CASE Rpmsg!AppRecv
  <2>1. /\ app = "recv" /\ ept[held].q # <<>> /\ ept' = [ept EXCEPT ![held].q = Tail(ept[held].q)]
    BY <1>6 DEF Rpmsg!AppRecv, Rpmsg!AppStep
  <2>2. held # 0
    BY <2>1 DEF PlayAt
  <2>3. held \in S
    BY <2>2 DEF PlayAt
  <2>4. PICK t, x : t = held /\ x = Tail(ept[held].q)
    OBVIOUS
  <2>5. ept' = [ept EXCEPT ![t].q = x]
    BY <2>1, <2>4
  <2>6. t \in S /\ x \in Q(t)
    <3>1. Tail(ept[held].q) \in Q(held)
      BY <1>2, <2>1, <2>3, TailKeeps
    <3> QED BY <2>3, <2>4, <3>1
  <2> QED BY <1>4, <2>5, <2>6
<1>7. CASE Rpmsg!NsCreate
  <2>1. UNCHANGED ept \/ (ept'[rpmsg_src].q = <<>> /\ \A s \in S \ {rpmsg_src} : ept'[s] = ept[s])
    BY <1>7, CreatesOne
  <2> QED BY <1>3, <2>1
<1>8. CASE Rpmsg!NsAddress
  <2>1. PICK r : r = rpmsg_src - 1
    OBVIOUS
  <2>2. /\ r \in S /\ ept'[r] = [ept[r] EXCEPT !.remote_addr = msg.dst]
        /\ \A s \in S \ {r} : ept'[s] = ept[s]
    BY <1>8, <2>1, NamesOne
  <2>3. ept[r] \in E
    BY <1>1, <2>2
  <2>4. ept'[r].q = ept[r].q
    BY <2>2, <2>3
  <2> QED BY <1>3, <2>2, <2>4
<1>9. CASE Rpmsg!NsDestroy
  <2>1. \A s \in S : ept'[s] # ept[s] => ept'[s].q = <<>>
    BY <1>9, DestroysOne
  <2> QED BY <1>3, <2>1
<1>10. \/ UNCHANGED ept \/ Rpmsg!Receive \/ Rpmsg!NsCreate \/ Rpmsg!NsAddress
       \/ Rpmsg!NsDestroy \/ Rpmsg!AppRecv
  BY NamesSteps DEF Rpmsg!MasterInit, Rpmsg!NsReceive, Rpmsg!Search, Rpmsg!Compare, Rpmsg!AppSend,
     Rpmsg!RemoteCreate, Rpmsg!RemoteTask, Rpmsg!RemoteUndo, Rpmsg!RemoteReceive, Rpmsg!RemoteRest,
     Rpmsg!Echo, rpmsgVars
<1>11. CASE UNCHANGED ept
  BY <1>3, <1>11
<1> QED BY <1>5, <1>6, <1>7, <1>8, <1>9, <1>10, <1>11

LEMMA PlayKept ==
    ASSUME Rpmsg!RpmsgAssumption, NamesShape, Rpmsg!TypeOK, PipeAt, RemoteAt, PlayAt, EndpointsAt,
           AddressesAt, [Rpmsg!Next]_rpmsgVars
    PROVE  PlayAt'
<1> DEFINE d == case.dst
<1>1. AppAt' /\ (held' = held \/ held = 0) /\ case'.dst = d
  BY AppKept, CaseKept
<1>2. /\ up' \in Seq(Announcements \cup Pongs(held, d)) /\ down' \in Seq(Pings(held, d))
      /\ \A a \in Peers : /\ rept'[a].remote_addr \in {Rpmsg!ANY, held}
                          /\ rept'[a].q \in Seq(PingsOf(a, held, d))
      /\ \A s \in Rpmsg!Srcs : ept'[s].q \in Seq(PongsOf(s, held, d))
  BY UpKept, DownKept, ReptKept, EptKept
<1>3. 0 \notin Rpmsg!Srcs /\ Rpmsg!ANY = 0
  BY PeersAre DEF Rpmsg!ANY
<1>4. held = 0 => /\ Pongs(held, d) = {} /\ Pings(held, d) = {}
                  /\ \A a : PingsOf(a, held, d) = {}
                  /\ \A s \in Rpmsg!Srcs : PongsOf(s, held, d) = {}
  BY <1>3 DEF Pongs, Pings, PingsOf, PongsOf, Echoes
<1> HIDE DEF d
<1>5. /\ Pongs(held, d) \subseteq Pongs(held', d) /\ Pings(held, d) \subseteq Pings(held', d)
      /\ \A a \in Peers : PingsOf(a, held, d) \subseteq PingsOf(a, held', d)
      /\ \A s \in Rpmsg!Srcs : PongsOf(s, held, d) \subseteq PongsOf(s, held', d)
  <2>1. CASE held' = held
    BY <2>1
  <2>2. CASE held = 0
    BY <1>4, <2>2
  <2> QED BY <1>1, <2>1, <2>2
<1>6. up' \in Seq(Announcements \cup Pongs(held', d)) /\ down' \in Seq(Pings(held', d))
  <2>1. Announcements \cup Pongs(held, d) \subseteq Announcements \cup Pongs(held', d)
    BY <1>5
  <2> QED BY <1>2, <1>5, <2>1, SeqGrows
<1>7. \A a \in Peers : rept'[a].remote_addr \in {Rpmsg!ANY, held'} /\ rept'[a].q \in Seq(PingsOf(a, held', d))
  <2> TAKE a \in Peers
  <2>1. rept'[a].q \in Seq(PingsOf(a, held', d))
    BY <1>2, <1>5, SeqGrows
  <2> QED BY <1>1, <1>2, <1>3, <2>1
<1>8. \A s \in Rpmsg!Srcs : ept'[s].q \in Seq(PongsOf(s, held', d))
  <2> TAKE s \in Rpmsg!Srcs
  <2> QED BY <1>2, <1>5, SeqGrows
<1> QED BY <1>1, <1>6, <1>7, <1>8 DEF PlayAt, AppAt, Pongs, Pings, PingsOf, PongsOf

LEMMA NamesShapeKept ==
    ASSUME Rpmsg!RpmsgAssumption, NamesInv, [Rpmsg!Next]_rpmsgVars
    PROVE  NamesShape'
<1>1. case' \in [ept_addr : Seq(Peers), dst : Peers, fails : Nat]
  BY CaseKept DEF NamesInv
<1>2. \E c \in Cases : case'.ept_addr = c.ept_addr /\ case'.dst = c.dst
  BY CaseKept DEF NamesInv, NamesShape
<1>3. ept' \in [Rpmsg!Srcs -> [live : BOOLEAN, remote_addr : Peers \cup {Rpmsg!ANY}, q : Seq(Peers)]]
  BY EptShapeKept DEF NamesInv
<1>4. rept' \in [Peers -> [live : BOOLEAN, remote_addr : Rpmsg!Srcs \cup {Rpmsg!ANY}, q : Seq(Rpmsg!Srcs)]]
  BY ReptShapeKept DEF NamesInv
<1>5. rpmsg_src' \in Nat \ {0} /\ rpmsg_src' <= Rpmsg!Cardinality(Peers) + 1
  BY AddressesKept DEF NamesInv
<1>6. /\ ns_mq' \in Seq(Announcements) /\ msg' \in Announcements \cup {Rpmsg!NoMsg}
      /\ ns' # "wait" => msg' \in Announcements
      /\ ns' \in {"CREATE", "DESTROY"} => msg'.flags = ns'
  BY NsShapeKept DEF NamesInv
<1>7. up' \in Seq(Announcements \cup Echoes) /\ down' \in Seq([dst : Peers, src : Rpmsg!Srcs])
  BY UpShapeKept, DownShapeKept DEF NamesInv
<1>8. n' \in Nat /\ i' \in Nat \ {0} /\ held' \in Nat
  BY RemoteAtKept, AppKept DEF NamesInv
<1>9. announced' \subseteq Peers /\ withdrawn' \subseteq announced' /\ missed' \subseteq Peers
  BY HistoryKept DEF NamesInv
<1> QED BY <1>1, <1>2, <1>3, <1>4, <1>5, <1>6, <1>7, <1>8, <1>9 DEF NamesShape

LEMMA NamesTypeKept ==
    ASSUME Rpmsg!RpmsgAssumption, NamesInv, [Rpmsg!Next]_rpmsgVars
    PROVE  Rpmsg!TypeOK'
<1> DEFINE c == Cardinality(Peers)
<1>1. NamesShape' /\ AppAt' /\ Rpmsg!TypeOK /\ Rpmsg!RpmsgAssumption
  BY NamesShapeKept, AppKept DEF NamesInv
<1>2. c \in Nat /\ Rpmsg!Srcs = 1..c /\ Rpmsg!Cardinality(Peers) = c
  BY PeersAre, SameNumber
<1>3. rpmsg_src' \in Nat \ {0} /\ rpmsg_src' <= c + 1 /\ i' \in Nat \ {0} /\ i' <= rpmsg_src'
  BY <1>1, <1>2 DEF NamesShape, AppAt
<1>4. rpmsg_src' \in Rpmsg!Srcs \cup {c + 1} /\ i' \in Rpmsg!Srcs \cup {c + 1}
  <2> HIDE DEF c
  <2> QED BY <1>2, <1>3
<1>5. held' \in Rpmsg!Srcs \cup {0} /\ round' \in 0..Rounds
      /\ app' \in {"search", "compare", "send", "recv", "done"}
  BY <1>1, AppKept DEF AppAt, NamesInv
<1>6. \A s \in Rpmsg!Srcs : ept'[s].live \in BOOLEAN /\ ept'[s].remote_addr \in Peers \cup {Rpmsg!ANY}
  BY <1>1 DEF NamesShape
<1>7. Len(ns_mq') <= QueueLen
  <2>1. Len(ns_mq) <= QueueLen /\ ns_mq \in Seq(Announcements) /\ QueueLen \in Nat
    BY DEF NamesInv, NamesShape, Rpmsg!TypeOK, Rpmsg!RpmsgAssumption
  <2>2. CASE UNCHANGED ns_mq
    BY <2>1, <2>2
  <2>3. CASE Rpmsg!Receive /\ ~UNCHANGED ns_mq
    <3>1. up # <<>> /\ Head(up).flags # "data" /\ Len(ns_mq) < QueueLen /\ ns_mq' = Append(ns_mq, Head(up))
      BY <2>3 DEF Rpmsg!Receive
    <3>2. Head(up) \in Announcements
      BY <3>1, HeadUp DEF NamesInv
    <3>3. Len(ns_mq') = Len(ns_mq) + 1 /\ Len(ns_mq) \in Nat
      BY <2>1, <3>1, <3>2, AppendIs
    <3> QED BY <2>1, <3>1, <3>3
  <2>4. CASE Rpmsg!NsReceive
    <3>1. ns_mq # <<>> /\ ns_mq' = Tail(ns_mq)
      BY <2>4 DEF Rpmsg!NsReceive
    <3>2. Len(ns_mq') = Len(ns_mq) - 1 /\ Len(ns_mq) \in Nat
      BY <2>1, <3>1, TailIs
    <3> QED BY <2>1, <3>2
  <2>5. UNCHANGED ns_mq \/ Rpmsg!Receive \/ Rpmsg!NsReceive
    BY NamesSteps DEF Rpmsg!MasterInit, Rpmsg!NsCreate, Rpmsg!NsAddress, Rpmsg!NsDestroy,
       Rpmsg!Search, Rpmsg!Compare, Rpmsg!AppSend, Rpmsg!AppRecv, Rpmsg!AppRest, Rpmsg!RemoteCreate,
       Rpmsg!RemoteTask, Rpmsg!RemoteUndo, Rpmsg!RemoteRest, Rpmsg!RemoteReceive, Rpmsg!Echo,
       Rpmsg!nsVars, rpmsgVars
  <2> QED BY <2>2, <2>3, <2>4, <2>5
<1>8. ns' \in {"wait", "CREATE", "DESTROY", "address"}
  BY NsShapeKept DEF NamesInv, Rpmsg!TypeOK
<1>9. rinit' \in {"create", "task", "undo", "suspended", "failed"}
  BY <1>1, NamesSteps DEF Rpmsg!TypeOK, Rpmsg!MasterInit, Rpmsg!Receive, Rpmsg!NsReceive,
     Rpmsg!NsCreate, Rpmsg!NsAddress, Rpmsg!NsDestroy, Rpmsg!Search, Rpmsg!Compare, Rpmsg!AppSend,
     Rpmsg!AppRecv, Rpmsg!AppRest, Rpmsg!RemoteCreate, Rpmsg!RemoteTask, Rpmsg!RemoteUndo,
     Rpmsg!NextPeer, Rpmsg!RemoteReceive, Rpmsg!Echo, Rpmsg!peerVars, rpmsgVars
<1>10. rtask' \subseteq Peers
  <2>1. rtask \subseteq Peers
    BY <1>1 DEF Rpmsg!TypeOK
  <2>2. Rpmsg!RemoteTask => rtask' \subseteq rtask \cup {Rpmsg!Addr} /\ Rpmsg!Addr \in Peers
    BY AddrAtHand DEF Rpmsg!RemoteTask, NamesInv
  <2>3. Rpmsg!RemoteTask \/ rtask' \subseteq rtask
    BY NamesSteps DEF Rpmsg!MasterInit, Rpmsg!Receive, Rpmsg!NsReceive,
       Rpmsg!NsCreate, Rpmsg!NsAddress, Rpmsg!NsDestroy, Rpmsg!Search, Rpmsg!Compare, Rpmsg!AppSend,
       Rpmsg!AppRecv, Rpmsg!AppRest, Rpmsg!RemoteCreate, Rpmsg!RemoteUndo,
       Rpmsg!RemoteReceive, Rpmsg!Echo, Rpmsg!peerVars, rpmsgVars
  <2> QED BY <2>1, <2>2, <2>3
<1>11. r_fault' \in {"none", "init", "freed", "assert"}
  BY <1>1, NamesSteps DEF Rpmsg!TypeOK, Rpmsg!MasterInit, Rpmsg!Receive, Rpmsg!NsReceive,
     Rpmsg!NsCreate, Rpmsg!NsAddress, Rpmsg!NsDestroy, Rpmsg!Search, Rpmsg!Compare, Rpmsg!AppSend,
     Rpmsg!AppRecv, Rpmsg!Touch, Rpmsg!RemoteCreate, Rpmsg!RemoteTask, Rpmsg!RemoteUndo,
     Rpmsg!RemoteRest, Rpmsg!RemoteReceive, Rpmsg!Echo, rpmsgVars
<1> QED BY <1>2, <1>4, <1>5, <1>6, <1>7, <1>8, <1>9, <1>10, <1>11 DEF Rpmsg!TypeOK

(* A core stops in the endpoint of a peer that withdrew it, and nowhere    *)
(* else.                                                                   *)
LEMMA NamesFaultsKept ==
    ASSUME Rpmsg!RpmsgAssumption, NamesInv, [Rpmsg!Next]_rpmsgVars
    PROVE  Rpmsg!NoFault'
<1> DEFINE Where == IF app = "search" THEN i - 1 ELSE held
<1>1. /\ r_fault # "assert" /\ withdrawn \subseteq withdrawn'
      /\ r_fault = "freed" => ept[Where].remote_addr \in withdrawn
  BY HistoryKept DEF NamesInv, Rpmsg!NoFault
<1>2. PlayAt /\ EndpointsAt /\ NamesShape /\ i \in Nat
  BY DEF NamesInv, NamesShape
<1>3. ASSUME r_fault' # "assert",
             r_fault' = "freed" => ept'[IF app' = "search" THEN i' - 1 ELSE held'].remote_addr \in withdrawn'
      PROVE  Rpmsg!NoFault'
  BY <1>3 DEF Rpmsg!NoFault
<1>4. CASE r_fault' = "none" \/ r_fault' = "init"
  BY <1>3, <1>4
<1>5. CASE UNCHANGED <<r_fault, ept, app, i, held>>
  BY <1>1, <1>3, <1>5
<1>6. CASE Rpmsg!Compare
  <2>1. /\ app = "compare" /\ UNCHANGED <<ept, withdrawn>>
        /\ r_fault' = IF ept[i].live THEN "none" ELSE "freed"
        /\ (app' = "send" /\ held' = i) \/ (app' = "search" /\ i' = i + 1)
    BY <1>6 DEF Rpmsg!Compare, Rpmsg!AppStep, Rpmsg!AppRest, Rpmsg!Touch, Rpmsg!history
  <2>2. (IF app' = "search" THEN i' - 1 ELSE held') = i
    BY <1>2, <2>1
  <2>3. ~ept[i].live => ept[i].remote_addr # Rpmsg!ANY /\ i \in Rpmsg!Srcs
    <3>1. i < rpmsg_src /\ (ept[i].live \/ ept[i].remote_addr # Rpmsg!ANY)
      BY <1>2, <2>1 DEF PlayAt
    <3>2. i \in Rpmsg!Srcs
      <4>1. /\ i \in Nat \ {0} /\ rpmsg_src \in Nat /\ rpmsg_src <= Cardinality(Peers) + 1
            /\ Rpmsg!Srcs = 1..Cardinality(Peers) /\ Cardinality(Peers) \in Nat
        BY <1>2, PeersAre, SameNumber DEF NamesShape
      <4> QED BY <3>1, <4>1
    <3> QED BY <3>1, <3>2
  <2>4. ~ept[i].live => ept[i].remote_addr \in withdrawn
    BY <1>2, <2>3 DEF EndpointsAt
  <2> QED BY <1>3, <2>1, <2>2, <2>4
<1>7. CASE Rpmsg!AppSend
  <2>1. /\ app = "send" /\ app' = "recv" /\ UNCHANGED <<ept, withdrawn, held>>
        /\ r_fault' = IF ept[held].live THEN "none" ELSE "freed"
    BY <1>7 DEF Rpmsg!AppSend, Rpmsg!AppStep, Rpmsg!AppRest, Rpmsg!Touch, Rpmsg!history
  <2>2. held # 0
    BY <1>2, <2>1 DEF PlayAt
  <2>3. held \in Rpmsg!Srcs /\ ept[held].remote_addr = case.dst /\ case.dst # Rpmsg!ANY
    BY <1>2, <2>2, PeersAre DEF PlayAt, NamesShape, Rpmsg!ANY
  <2>4. ~ept[held].live => ept[held].remote_addr \in withdrawn
    BY <1>2, <2>3 DEF EndpointsAt
  <2> QED BY <1>3, <2>1, <2>4
<1>8. CASE Rpmsg!AppRecv
  <2>1. app = "recv" /\ ept[held].q # <<>> /\ r_fault = "none"
    BY <1>8 DEF Rpmsg!AppRecv, Rpmsg!AppStep, Rpmsg!Runs
  <2>2. held # 0
    BY <1>2, <2>1 DEF PlayAt
  <2>3. held \in Rpmsg!Srcs /\ ept[held].remote_addr = case.dst
    BY <1>2, <2>2 DEF PlayAt
  <2>4. ept[held].q \in Seq({a \in Peers : a = case.dst /\ held = held})
    BY <1>2, <2>3 DEF PlayAt
  <2>5. Head(ept[held].q) = ept[held].remote_addr
    <3>1. Head(ept[held].q) \in {a \in Peers : a = case.dst /\ held = held}
      BY <2>1, <2>4, HeadIsOne
    <3> QED BY <2>3, <3>1
  <2>6. r_fault' = "none"
    BY <1>8, <2>1, <2>5 DEF Rpmsg!AppRecv
  <2> QED BY <1>4, <2>6
<1>9. ASSUME NEW a \in Peers, Rpmsg!Echo(a)
      PROVE  r_fault' = "none"
  <2>1. rept[a].q # <<>> /\ r_fault = "none"
    BY <1>9 DEF Rpmsg!Echo
  <2>2. rept[a].q \in Seq({s \in Rpmsg!Srcs : s = held /\ a = case.dst}) /\ rept[a].remote_addr \in {Rpmsg!ANY, held}
    BY <1>2 DEF PlayAt
  <2>3. Head(rept[a].q) \in {s \in Rpmsg!Srcs : s = held /\ a = case.dst}
    BY <2>1, <2>2, HeadIsOne
  <2>4. rept \in [Peers -> [live : BOOLEAN, remote_addr : Rpmsg!Srcs \cup {Rpmsg!ANY}, q : Seq(Rpmsg!Srcs)]]
    BY <1>2 DEF NamesShape
  <2>5. PICK y : y = IF rept[a].remote_addr = Rpmsg!ANY THEN Head(rept[a].q) ELSE rept[a].remote_addr
    OBVIOUS
  <2>6. rept' = [rept EXCEPT ![a] = [[rept[a] EXCEPT !.q = Tail(rept[a].q)] EXCEPT !.remote_addr = y]]
    BY <1>9, <2>4, <2>5 DEF Rpmsg!Echo
  <2>7. rept'[a].remote_addr = y
    BY <2>4, <2>6
  <2>8. y = Head(rept[a].q)
    BY <2>2, <2>3, <2>5
  <2> QED BY <1>9, <2>1, <2>7, <2>8 DEF Rpmsg!Echo
<1>10. CASE Rpmsg!RemoteCreate \/ Rpmsg!RemoteTask \/ Rpmsg!RemoteUndo \/ Rpmsg!RemoteReceive
  <2>1. UNCHANGED <<r_fault, ept, app, i, held>>
    BY <1>10 DEF Rpmsg!RemoteCreate, Rpmsg!RemoteTask, Rpmsg!RemoteUndo, Rpmsg!RemoteReceive,
       Rpmsg!RemoteRest, Rpmsg!appVars
  <2> QED BY <1>5, <2>1
<1>11. CASE \/ Rpmsg!MasterInit \/ Rpmsg!Receive \/ Rpmsg!NsReceive \/ Rpmsg!NsCreate
            \/ Rpmsg!NsAddress \/ Rpmsg!NsDestroy \/ Rpmsg!Search
  <2>1. r_fault' = "none" \/ r_fault' = "init"
    BY <1>11 DEF Rpmsg!MasterInit, Rpmsg!Receive, Rpmsg!NsReceive, Rpmsg!NsCreate, Rpmsg!NsAddress,
       Rpmsg!NsDestroy, Rpmsg!Search, Rpmsg!AppStep, Rpmsg!Runs
  <2> QED BY <1>4, <2>1
<1>12. CASE UNCHANGED rpmsgVars
  BY <1>5, <1>12 DEF rpmsgVars
<1> QED BY <1>4, <1>6, <1>7, <1>8, <1>9, <1>10, <1>11, <1>12, NamesSteps

LEMMA NamesInductive ==
    ASSUME Rpmsg!RpmsgAssumption, NamesInv, [Rpmsg!Next]_rpmsgVars
    PROVE  NamesInv'
<1>1. /\ Rpmsg!TypeOK /\ NamesShape /\ PipeAt /\ RemoteAt /\ EndpointsAt /\ PeersAt /\ AddressesAt
      /\ PlayAt
  BY DEF NamesInv
<1>2. Rpmsg!TypeOK' /\ NamesShape' /\ Rpmsg!NoFault'
  BY NamesTypeKept, NamesShapeKept, NamesFaultsKept
<1>3. PipeAt' /\ RemoteAt' /\ EndpointsAt' /\ PeersAt' /\ AddressesAt' /\ PlayAt'
  BY <1>1, PipeKept, RemoteAtKept, EndpointsKept, PeersKept, AddressesKept, PlayKept
<1> QED BY <1>2, <1>3 DEF NamesInv

LEMMA NamesInitially ==
    ASSUME Rpmsg!RpmsgAssumption, NEW c \in Cases, Rpmsg!InitWith(c)
    PROVE  NamesInv
<1>1. /\ IsFiniteSet(Peers) /\ 0 \notin Peers /\ Cardinality(Peers) \in Nat
      /\ Rpmsg!Srcs = 1..Cardinality(Peers) /\ Rpmsg!Cardinality(Peers) = Cardinality(Peers)
      /\ QueueLen \in Nat /\ Rounds \in Nat \ {0}
      /\ Cases \subseteq [ept_addr : Seq(Peers), dst : Peers, fails : Nat]
      /\ c.dst \in Range(c.ept_addr)
  <2>1. c.dst \in Rpmsg!Range(c.ept_addr)
    BY DEF Rpmsg!RpmsgAssumption
  <2> QED BY <2>1, PeersAre, SameNumber DEF Rpmsg!RpmsgAssumption, Rpmsg!Range, Range
<1>2. /\ case = c /\ r_boot = Rpmsg!BootOrder /\ r_fault = "none"
      /\ rpmsg_src = 1 /\ ept = [s \in Rpmsg!Srcs |-> Rpmsg!NoEpt]
      /\ ns_mq = <<>> /\ ns = "wait" /\ msg = Rpmsg!NoMsg
      /\ app = "search" /\ i = 1 /\ held = 0 /\ round = 0
      /\ rinit = "create" /\ n = 1 /\ rept = [a \in Peers |-> Rpmsg!NoEpt] /\ rtask = {}
      /\ up = <<>> /\ down = <<>>
      /\ announced = {} /\ withdrawn = {} /\ missed = {}
  BY DEF Rpmsg!InitWith
<1>3. /\ Rpmsg!NoEpt.live = FALSE /\ Rpmsg!NoEpt.remote_addr = Rpmsg!ANY /\ Rpmsg!NoEpt.q = <<>>
      /\ Rpmsg!NoMsg.flags = "none" /\ Rpmsg!NoMsg.dst = 0 /\ Rpmsg!ANY = 0
  BY DEF Rpmsg!NoEpt, Rpmsg!NoMsg, Rpmsg!ANY
<1>4. /\ \A s \in Rpmsg!Srcs : ept[s] = Rpmsg!NoEpt
      /\ \A a \in Peers : rept[a] = Rpmsg!NoEpt
  BY <1>2
<1>5. Rpmsg!TypeOK
  <2>1. rpmsg_src \in Rpmsg!Srcs \cup {Rpmsg!Cardinality(Peers) + 1} /\ i \in Rpmsg!Srcs \cup {Rpmsg!Cardinality(Peers) + 1}
    <3> DEFINE p == Cardinality(Peers)
    <3>1. p \in Nat
      BY <1>1
    <3> HIDE DEF p
    <3>2. 1 \in (1..p) \cup {p + 1}
      BY <3>1
    <3> QED BY <1>1, <1>2, <3>2 DEF p
  <2>2. round \in 0..Rounds /\ Len(ns_mq) <= QueueLen
    BY <1>1, <1>2
  <2> QED BY <1>2, <1>3, <1>4, <2>1, <2>2 DEF Rpmsg!TypeOK
<1>6. NamesShape
  <2>1. Rpmsg!NoEpt \in [live : BOOLEAN, remote_addr : Peers \cup {Rpmsg!ANY}, q : Seq(Peers)]
    BY DEF Rpmsg!NoEpt
  <2>2. Rpmsg!NoEpt \in [live : BOOLEAN, remote_addr : Rpmsg!Srcs \cup {Rpmsg!ANY}, q : Seq(Rpmsg!Srcs)]
    BY DEF Rpmsg!NoEpt
  <2>3. rpmsg_src \in Nat \ {0} /\ rpmsg_src <= Rpmsg!Cardinality(Peers) + 1
    BY <1>1, <1>2
  <2>4. /\ ns_mq \in Seq(Announcements) /\ up \in Seq(Announcements \cup Echoes)
        /\ down \in Seq([dst : Peers, src : Rpmsg!Srcs])
    BY <1>2
  <2>5. /\ ept \in [Rpmsg!Srcs -> [live : BOOLEAN, remote_addr : Peers \cup {Rpmsg!ANY}, q : Seq(Peers)]]
        /\ rept \in [Peers -> [live : BOOLEAN, remote_addr : Rpmsg!Srcs \cup {Rpmsg!ANY}, q : Seq(Rpmsg!Srcs)]]
    BY <1>2, <2>1, <2>2
  <2>6. case \in [ept_addr : Seq(Peers), dst : Peers, fails : Nat]
    BY <1>1, <1>2
  <2> QED BY <1>2, <2>3, <2>4, <2>5, <2>6 DEF NamesShape
<1>7. \A f \in {"CREATE", "DESTROY"} : \A a \in Peers :
        ~At(up, f, a) /\ ~At(ns_mq, f, a) /\ ~InTask(f, a)
  BY <1>2 DEF At, InTask
<1>8. PipeAt
  <2>1. Once(up) /\ Once(ns_mq) /\ InOrder(up) /\ InOrder(ns_mq)
    BY <1>2 DEF Once, InOrder
  <2> QED BY <1>7, <2>1 DEF PipeAt, Pending
<1>9. RemoteAt
  <2> DEFINE A == case.ept_addr
             l == Len(A)
  <2>1. A \in Seq(Peers) /\ l \in Nat
    BY <1>6 DEF NamesShape
  <2>2. 1 \in 1..l
    <3>1. c.dst \in Range(A)
      BY <1>1, <1>2
    <3>2. DOMAIN A = 1..l
      BY <2>1
    <3>3. \E k \in 1..l : A[k] = c.dst
      BY <3>1, <3>2 DEF Range
    <3> HIDE DEF l
    <3> QED BY <2>1, <3>3
  <2> HIDE DEF A, l
  <2>3. \A k \in 1..l : ~(k < 1)
    BY <2>1
  <2> QED BY <1>2, <2>1, <2>2, <2>3 DEF RemoteAt, A, l
<1>10. EndpointsAt
  BY <1>2, <1>3, <1>4 DEF EndpointsAt
<1>11. PeersAt
  <2>1. \A a \in Peers : ~Has(a)
    BY <1>3, <1>4 DEF Has
  <2> QED BY <1>2, <1>7, <2>1 DEF PeersAt, Pending
<1>12. AddressesAt
  <2>1. Served = {}
    BY <1>2 DEF Served
  <2>2. Cardinality(Served) = 0 /\ rpmsg_src - 1 = 0
    BY <1>2, <2>1, FS_EmptySet
  <2> QED BY <2>2 DEF AddressesAt
<1>13. PlayAt
  <2>1. i <= rpmsg_src /\ round < Rounds
    BY <1>1, <1>2
  <2>2. /\ up \in Seq(Announcements \cup {m \in Echoes : m.dst = held /\ m.src = case.dst})
        /\ down \in Seq({m \in [dst : Peers, src : Rpmsg!Srcs] : m.dst = case.dst /\ m.src = held})
        /\ \A a \in Peers : /\ rept[a].remote_addr \in {Rpmsg!ANY, held}
                            /\ rept[a].q \in Seq({s \in Rpmsg!Srcs : s = held /\ a = case.dst})
        /\ \A s \in Rpmsg!Srcs : ept[s].q \in Seq({a \in Peers : a = case.dst /\ s = held})
    <3>1. \A S : <<>> \in Seq(S)
      OBVIOUS
    <3>2. /\ \A a \in Peers : rept[a].remote_addr = Rpmsg!ANY /\ rept[a].q = <<>>
          /\ \A s \in Rpmsg!Srcs : ept[s].q = <<>>
      BY <1>3, <1>4
    <3> QED BY <1>2, <3>1, <3>2
  <2> QED BY <1>2, <2>1, <2>2 DEF PlayAt
<1>14. Rpmsg!NoFault
  BY <1>2 DEF Rpmsg!NoFault
<1> QED BY <1>5, <1>6, <1>8, <1>9, <1>10, <1>11, <1>12, <1>13, <1>14 DEF NamesInv

(* When nothing is pending, who was created and not destroyed has one.     *)
LEMMA NamesFollow ==
    ASSUME Rpmsg!RpmsgAssumption, NamesInv
    PROVE  Rpmsg!TypeOK /\ Rpmsg!NoFault /\ Rpmsg!NamesAgree
<1>1. ASSUME Rpmsg!Told, ns_mq = <<>>, ns = "wait", NEW a \in Peers \ missed
      PROVE  Cardinality({s \in Rpmsg!Srcs : ept[s].live /\ ept[s].remote_addr = a})
               = IF a \in announced \ withdrawn THEN 1 ELSE 0
  <2> DEFINE F == {s \in Rpmsg!Srcs : ept[s].live /\ ept[s].remote_addr = a}
  <2>1. \A f \in {"CREATE", "DESTROY"} : ~Pending(f, a)
    <3>1. \A k \in 1..Len(up) : up[k].flags = "data"
      <4>1. DOMAIN up = 1..Len(up)
        BY DEF NamesInv, NamesShape
      <4> QED BY <1>1, <4>1 DEF Rpmsg!Told
    <3> QED BY <1>1, <3>1 DEF Pending, At, InTask
  <2>2. Has(a) <=> a \in announced \ withdrawn
    BY <1>1, <2>1 DEF NamesInv, PeersAt
  <2>3. \A s, t \in F : s = t
    BY DEF NamesInv, EndpointsAt
  <2>4. CASE Has(a)
    <3>1. PICK s \in F : TRUE
      BY <2>4 DEF Has
    <3>2. F = {s}
      BY <2>3, <3>1
    <3> HIDE DEF F
    <3>3. Cardinality(F) = 1
      BY <3>2, FS_Singleton
    <3> QED BY <2>2, <2>4, <3>3 DEF F
  <2>5. CASE ~Has(a)
    <3>1. F = {}
      BY <2>5 DEF Has
    <3> HIDE DEF F
    <3>2. Cardinality(F) = 0
      BY <3>1, FS_EmptySet
    <3> QED BY <2>2, <2>5, <3>2 DEF F
  <2> QED BY <2>4, <2>5
<1>2. Rpmsg!NamesAgree
  BY <1>1, SameNumber DEF Rpmsg!NamesAgree
<1> QED BY <1>2 DEF NamesInv

-----------------------------------------------------------------------------
(* The services together: the invariant of each holds, whichever service   *)
(* the behaviour is of.                                                    *)

ServicesInv ==
    /\ TransInv /\ ClockInv /\ DrivesInv /\ StackInv /\ NamesInv
    /\ PerfInv /\ LinkInv /\ StatsInv

(* The first state of each service satisfies its invariant.                *)
LEMMA ServicesInitially ==
    ASSUME ServicesAssumption, Init
    PROVE  ServicesInv
<1>1. PICK s \in Sessions : Trans!InitWith(s)
  BY DEF Init
<1>2. PICK f \in Scripts : Perf!InitWith(f)
  BY DEF Init
<1>3. PICK u \in Setups : Srtm!InitWith(u)
  BY DEF Init
<1>8. PICK j \in Jobs : Drives!InitWith(j)
  BY DEF Init
<1>10. PICK p \in Plans : Ptp!InitWith(p)
  BY DEF Init
<1>12. PICK c \in Cases : Rpmsg!InitWith(c)
  BY DEF Init
<1>4. /\ Trans!TransAssumption /\ Perf!PerfAssumption /\ Drives!DrivesAssumption
      /\ Ptp!PtpAssumption /\ Rpmsg!RpmsgAssumption
  BY DEF ServicesAssumption
<1>5. TransInv
  <2>1. Trans!Init
    BY <1>1 DEF Trans!Init
  <2> QED BY <1>4, <2>1, TransInitially
<1>6. PerfInv
  <2>1. Perf!Init
    BY <1>2 DEF Perf!Init
  <2> QED BY <1>4, <2>1, PerfInitially
<1>7. LinkInv
  <2>1. Srtm!Init
    BY <1>3 DEF Srtm!Init
  <2> QED BY <2>1, LinkInitially
<1>9. DrivesInv
  BY <1>4, <1>8, DrivesInitially
<1>11. StackInv
  BY <1>4, <1>10, StackInitially
<1>13. NamesInv
  BY <1>4, <1>12, NamesInitially
<1>14. ClockInv
  <2>1. Clock!Init
    BY DEF Init
  <2> QED BY <2>1, ClockInitially
<1>15. StatsInv
  <2>1. Stats!Init
    BY DEF Init
  <2> QED BY <2>1, StatsInitially
<1> QED BY <1>5, <1>6, <1>7, <1>9, <1>11, <1>13, <1>14, <1>15 DEF ServicesInv

servicesVars ==
    <<alive, transVars, clockVars, drivesVars, ptpVars, rpmsgVars, perfVars, srtmVars, statsVars>>

(* A step of the services is a step of each, or leaves it as it was.       *)
LEMMA ServicesSteps ==
    ASSUME [Next]_servicesVars
    PROVE  /\ [Trans!Next]_transVars
           /\ [Clock!Next]_clockVars
           /\ [Perf!Next]_perfVars
           /\ [Srtm!Next]_srtmVars
           /\ [Drives!Next]_drivesVars
           /\ [Ptp!Next]_ptpVars
           /\ [Rpmsg!Next]_rpmsgVars
           /\ [Stats!Next]_statsVars
<1>1. /\ Trans!Next \/ UNCHANGED transVars
      /\ Clock!Next \/ UNCHANGED clockVars
      /\ Perf!Next \/ UNCHANGED perfVars
      /\ Srtm!Next \/ UNCHANGED srtmVars
      /\ Drives!Next \/ UNCHANGED drivesVars
      /\ Ptp!Next \/ UNCHANGED ptpVars
      /\ Rpmsg!Next \/ UNCHANGED rpmsgVars
      /\ Stats!Next \/ UNCHANGED statsVars
  <2>1. CASE Next
    BY <2>1 DEF Next
  <2>2. CASE UNCHANGED servicesVars
    BY <2>2 DEF servicesVars
  <2> QED BY <2>1, <2>2
<1> QED BY <1>1

(* Each service keeps its invariant.                                       *)
LEMMA ServicesInductive ==
    ASSUME ServicesAssumption, ServicesInv, [Next]_servicesVars
    PROVE  ServicesInv'
<1>1. /\ Trans!TransAssumption /\ Perf!PerfAssumption /\ Drives!DrivesAssumption
      /\ Ptp!PtpAssumption /\ Rpmsg!RpmsgAssumption
  BY DEF ServicesAssumption
<1>2. TransInv'
  BY <1>1, ServicesSteps, TransInductive DEF ServicesInv
<1>3. PerfInv'
  BY <1>1, ServicesSteps, PerfInductive DEF ServicesInv
<1>4. LinkInv'
  BY ServicesSteps, LinkInductive DEF ServicesInv
<1>5. DrivesInv'
  BY <1>1, ServicesSteps, DrivesInductive DEF ServicesInv
<1>6. StackInv'
  BY <1>1, ServicesSteps, StackInductive DEF ServicesInv
<1>7. NamesInv'
  BY <1>1, ServicesSteps, NamesInductive DEF ServicesInv
<1>8. ClockInv'
  BY ServicesSteps, ClockInductive DEF ServicesInv
<1>9. StatsInv'
  BY ServicesSteps, StatsInductive DEF ServicesInv
<1> QED BY <1>2, <1>3, <1>4, <1>5, <1>6, <1>7, <1>8, <1>9 DEF ServicesInv

(* The invariant holds in every state of every service's behaviour.        *)
THEOREM Invariance == Spec => []ServicesInv
<1>1. Init => ServicesInv
  BY ServicesAssumption, ServicesInitially
<1>2. ServicesInv /\ [Next]_servicesVars => ServicesInv'
  BY ServicesAssumption, ServicesInductive
<1> QED BY <1>1, <1>2, PTL DEF Spec, servicesVars

(* The trans device: tx_task has the shared iov[] to itself, and the tasks *)
(* do not both send a kick, unless mbox_kick_front() went on without the   *)
(* lock.                                                                   *)
THEOREM ServicesExclude == Spec => []Exclusion
<1>1. ServicesInv => Exclusion
  BY TransFollows DEF ServicesInv, Exclusion
<1> QED BY <1>1, Invariance, PTL

(* The counts that the trans device tells its driver, and rpmsg_perf tells *)
(* Linux, are those of the test they are of.                               *)
THEOREM CountsAreCurrent == Spec => []CountIsCurrent
<1>1. ServicesInv => CountIsCurrent
  BY TransFollows, PerfFollows DEF ServicesInv, CountIsCurrent
<1> QED BY <1>1, Invariance, PTL

(* The servo's clock: no handler is so late that the loop loses its alarm, *)
(* the sum of ticks does not drift, and osal_gettime() reads a time within *)
(* the delays of the code, whatever interrupts come between its readings.  *)
THEOREM ClockKeepsItsTime == Spec => []ClockKeepsTime
<1>1. ServicesInv => ClockKeepsTime
  BY ClockFollows DEF ServicesInv, ClockKeepsTime
<1> QED BY <1>1, Invariance, PTL

(* The SRTM link: when the monitor has nothing left to do, its instance    *)
(* and its peer core are those of the other side's last reset.             *)
THEOREM LinkFollowsResets == Spec => []PeerLinked
<1>1. ServicesInv => PeerLinked
  BY LinkFollows DEF ServicesInv, PeerLinked
<1> QED BY <1>1, Invariance, PTL

(* The servo's drive: a drive that follows its target is sent at most one  *)
(* step away from it, whatever the axis was told, the frames that were     *)
(* lost and the faults it recovered from.                                  *)
THEOREM DriveNeverJumps == Spec => []NoJump
<1>1. ServicesInv => NoJump
  BY DrivesFollow DEF ServicesInv, NoJump
<1> QED BY <1>1, Invariance, PTL

(* The PTP stack: each socket with a callback is in one place, so that no  *)
(* event is lost of a full queue and no path through an error leaves a     *)
(* port unserved; and the host gets the time stamps it asked for, with the *)
(* id and the port of their frames.                                        *)
THEOREM SocketsAreServed == Spec => []SocketsServed
<1>1. ServicesInv => SocketsServed
  BY StackFollows DEF ServicesInv, SocketsServed
<1> QED BY <1>1, Invariance, PTL

(* The RPMsg wrapper: once the name service has done all it was told,      *)
(* every peer it missed nothing of has one endpoint, with its address, if  *)
(* it is there, and none if it is not: no freed endpoint is found again,   *)
(* none is created twice and no announcement overtakes another.            *)
THEOREM NamesAreAgreed == Spec => []NamesAgree
<1>1. ServicesInv => NamesAgree
  BY ServicesAssumption, NamesFollow DEF ServicesInv, NamesAgree, ServicesAssumption
<1> QED BY <1>1, Invariance, PTL

(* No service goes through a null or freed pointer, fails an assertion or  *)
(* gives a semaphore twice, but where its NoFault says so.                 *)
THEOREM FaultsAreThose == Spec => []NoFault
<1>1. Rpmsg!RpmsgAssumption
  BY ServicesAssumption DEF ServicesAssumption
<1>2. ServicesInv => NoFault
  BY <1>1, TransFollows, StackFollows, NamesFollow, PerfFollows, LinkFollows
     DEF ServicesInv, NoFault
<1> QED BY <1>2, Invariance, PTL

(* The statistics: a report is of the samples of its window, whether by    *)
(* shifts or by divisions; the extremes are those since the test began,    *)
(* every sample is in the histogram once, and none is lost but those a     *)
(* report not yet printed has pushed out, which are counted.               *)
THEOREM StatisticsAreThose == Spec => []StatsAreThose
<1>1. ServicesInv => StatsAreThose
  BY StatsFollow DEF ServicesInv, StatsAreThose
<1> QED BY <1>1, Invariance, PTL

(* Every service keeps the shape of its state.                             *)
THEOREM TypeCorrect == Spec => []TypeOK
<1>1. Rpmsg!RpmsgAssumption
  BY ServicesAssumption DEF ServicesAssumption
<1>2. ASSUME ServicesInv PROVE TypeOK
  <2>1. Trans!TypeOK
    BY <1>2, TransFollows DEF ServicesInv
  <2>2. Clock!TypeOK
    BY <1>2 DEF ServicesInv, ClockInv, ClockShape
  <2>3. Drives!TypeOK
    BY <1>2, DrivesFollow DEF ServicesInv
  <2>4. Ptp!TypeOK
    BY <1>2, StackFollows DEF ServicesInv
  <2>5. Rpmsg!TypeOK
    BY <1>1, <1>2, NamesFollow DEF ServicesInv
  <2>6. Perf!TypeOK
    BY <1>2, PerfFollows DEF ServicesInv
  <2>7. Srtm!TypeOK
    BY <1>2, LinkFollows DEF ServicesInv
  <2>8. Stats!TypeOK
    BY <1>2, StatsFollow DEF ServicesInv
  <2> QED BY <2>1, <2>2, <2>3, <2>4, <2>5, <2>6, <2>7, <2>8 DEF TypeOK
<1> QED BY <1>2, Invariance, PTL
=============================================================================
