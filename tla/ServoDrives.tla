---------------------------- MODULE ServoDrives ----------------------------
(* The servo of apps/soem_servo: control_task (main.c) brings one axis up  *)
(* through the states of CiA 402 (cia402.c) and moves it along its path    *)
(* (axis_nc.c), a frame per period.  The EtherCAT master and the drive are *)
(* external: a frame hands the outputs over and brings the status back, or *)
(* is lost on either way; the drive acts on what it has at each period.    *)
(* The task is done with a cycle within a period, but for lost frames.     *)
EXTENDS Integers, Sequences

CONSTANTS
    Jobs,       \* the paths and the disturbances (bound), see below
    MaxLost,    \* lost frames after which the task gives up (10 in the code; bound)
    Patience    \* tries to reach the operational state (500 in the code; bound)

(* A job is a record: the path, a sequence of points with a position to    *)
(* reach and the periods it takes, whether it is cyclic, where the axis is *)
(* (at), and how often it faults and frames get lost (faults, losses).     *)

AbsDiff(a, b) == IF a < b THEN b - a ELSE a - b

(* The segments of a path from position at; a cyclic path has one more,    *)
(* from its last point to its first.                                       *)
Segments(path, cyclic, at) ==
    [k \in 1..(Len(path) + IF cyclic THEN 1 ELSE 0) |->
        LET p == IF k <= Len(path) THEN path[k] ELSE path[1] IN
        [origin_pos |-> IF k = 1 THEN at ELSE at + path[k - 1].to,
         target_pos |-> at + p.to, points_num |-> p.periods]]

(* trajectory_planner() finds a profile for every segment: its result is   *)
(* not looked at.                                                          *)
DrivesAssumption ==
    /\ MaxLost \in Nat /\ Patience \in Nat
    /\ Jobs \subseteq [path : Seq([to : Int, periods : Nat]), cyclic : BOOLEAN, at : Int,
                       faults : Nat, losses : Nat]
    /\ \A j \in Jobs :
        /\ j.path # <<>>
        /\ \A s \in {Segments(j.path, j.cyclic, 0)[k] : k \in DOMAIN Segments(j.path, j.cyclic, 0)} :
            s.points_num > 0 /\ AbsDiff(s.target_pos, s.origin_pos) <= s.points_num

VARIABLES
    job,                \* the path; faults and losses still to come
    pc, chk,            \* point reached by control_task; tries left
    notes, timer,       \* notifications; periods of a receive that times out
    tp, csp,            \* the segments; csp_status, current_tp, current_point
    out,                \* the outputs in IOmap: controlword and target position
    status,             \* the input in IOmap: statusword, as a state
    frame,              \* the frame on its way back
    wkc_lost,
    state, cmd, prev, act,  \* the drive: its state, outputs, last word, position
    misread, coasted, early, behind     \* history, see below

(* History.  misread: the position was not read.  coasted: a fault left    *)
(* the axis off its target.  early: the drive was told to reset a fault    *)
(* whose reaction it was still at.  behind: the task has yet to make up    *)
(* for the periods it spent on a lost frame.                               *)
history == <<misread, coasted, early, behind>>
drive   == <<state, cmd, prev, act>>
path    == <<tp, csp>>
vars == <<job, pc, chk, notes, timer, path, out, status, frame, wkc_lost, drive, history>>

(* Control words, by their bits.                                           *)
Shutdown   == {1, 2}
SwitchOn   == {0, 1, 2}
EnableOp   == {0, 1, 2, 3}
FaultReset == {7}

States == {"not_ready", "switch_on_disabled", "ready", "switched_on", "operation", "reaction", "fault"}
NoFrame == [lost |-> TRUE, status |-> "not_ready"]

-----------------------------------------------------------------------------
(* Start-up.  A failed read of the position leaves it 0.                   *)

axis_nc_init ==
    /\ pc = "init" /\ pc' = "op" /\ chk' = Patience
    /\ misread' \in BOOLEAN
    /\ LET pos == IF misread' THEN 0 ELSE job.at IN
       /\ tp' = Segments(job.path, job.cyclic, pos)
       /\ out' = [word |-> {}, target |-> pos]
    /\ csp' = [status |-> "running", current_tp |-> 1, current_point |-> 0]
    /\ UNCHANGED <<job, notes, timer, status, frame, wkc_lost, drive, coasted, early, behind>>

(* The drive takes the outputs once its slave is operational.              *)
ReachOperational ==
    /\ pc = "op"
    /\ \/ pc' = "first" /\ cmd' = out /\ UNCHANGED chk
       \/ chk > 0 /\ chk' = chk - 1 /\ UNCHANGED <<pc, cmd>>
       \/ chk = 0 /\ pc' = "suspended" /\ UNCHANGED <<chk, cmd>>
    /\ UNCHANGED <<job, notes, timer, path, out, status, frame, wkc_lost, state, prev, act, history>>

-----------------------------------------------------------------------------
(* The cycle.                                                              *)

(* A frame gets through, or is lost before or after the drive.             *)
Send ==
    /\ pc = "send" \/ (pc = "first" /\ notes > 0)
    /\ \/ cmd' = out /\ frame' = [lost |-> FALSE, status |-> state] /\ UNCHANGED job
       \/ /\ job.losses > 0 /\ job' = [job EXCEPT !.losses = @ - 1]
          /\ cmd' \in {cmd, out} /\ frame' = NoFrame
    /\ pc' = IF pc = "first" THEN "receive" ELSE "wait"
    /\ notes' = IF pc = "first" THEN 0 ELSE notes
    /\ timer' = 0
    /\ UNCHANGED <<chk, path, out, status, wkc_lost, state, prev, act, history>>

(* One notification for one cycle: those missed are made up for.           *)
TakeNote ==
    /\ pc = "wait" /\ notes > 0
    /\ notes' = notes - 1 /\ pc' = "receive"
    /\ UNCHANGED <<job, chk, timer, path, out, status, frame, wkc_lost, drive, history>>

(* A slip: the bit that resets a fault stays set.                          *)
WordForSticky(s) ==
    CASE s \in {"reaction", "fault"} -> FaultReset
      [] s \in {"not_ready", "switch_on_disabled"} -> Shutdown \cup FaultReset
      [] s = "ready" -> SwitchOn
      [] OTHER -> EnableOp

(* axis_start(): what it writes in answer to a state.                      *)
WordFor(s) ==
    CASE s \in {"reaction", "fault"} -> FaultReset
      [] s \in {"not_ready", "switch_on_disabled"} -> Shutdown
      [] s = "ready" -> SwitchOn
      [] OTHER -> EnableOp

(* A slip: a cyclic path starts from where the axis was.                   *)
AfterLastFirst ==
    IF job.cyclic THEN [csp EXCEPT !.current_tp = 1, !.current_point = 0]
    ELSE [status |-> "stop", current_tp |-> 1, current_point |-> 0]

(* After the last segment: that from the first point, or the end.          *)
AfterLast ==
    IF job.cyclic THEN [csp EXCEPT !.current_tp = 2, !.current_point = 0]
    ELSE [status |-> "stop", current_tp |-> 1, current_point |-> 0]

Advanced ==
    IF csp.current_point + 1 < tp[csp.current_tp].points_num
    THEN [csp EXCEPT !.current_point = @ + 1]
    ELSE IF csp.current_tp < Len(tp)
    THEN [csp EXCEPT !.current_tp = @ + 1, !.current_point = 0]
    ELSE AfterLast

(* The profile runs from origin to target, at one speed.                   *)
NextPos ==
    LET s == tp[csp.current_tp]
        d == (AbsDiff(s.target_pos, s.origin_pos) * csp.current_point) \div s.points_num IN
    IF s.target_pos < s.origin_pos THEN s.origin_pos - d ELSE s.origin_pos + d

Received == IF frame.lost THEN timer = 2 ELSE TRUE

(* A cycle up to its frame; a lost frame leaves the inputs as they were,   *)
(* and the target stays until the axis is operational and frames return.   *)
Cycle ==
    /\ pc = "receive" /\ Received
    /\ status' = IF frame.lost THEN status ELSE frame.status
    /\ IF status' # "operation"
       THEN /\ out' = [out EXCEPT !.word = WordFor(status')]
            /\ pc' = "send" /\ UNCHANGED <<csp, wkc_lost>>
       ELSE IF frame.lost
       THEN /\ wkc_lost' = wkc_lost + 1
            /\ pc' = IF wkc_lost' > MaxLost THEN "suspended" ELSE "send"
            /\ UNCHANGED <<csp, out>>
       ELSE /\ csp' = Advanced /\ out' = [out EXCEPT !.target = NextPos]
            /\ pc' = IF csp'.status = "stop" THEN "suspended" ELSE "send"
            /\ UNCHANGED wkc_lost
    /\ UNCHANGED <<job, chk, notes, timer, tp, frame, drive, history>>

control_task == axis_nc_init \/ ReachOperational \/ Send \/ TakeNote \/ Cycle

-----------------------------------------------------------------------------
(* The drive, and the alarm that notifies the task.                        *)

Answer(s, w, last) ==
    IF s = "fault" THEN IF 7 \in w \ last THEN "switch_on_disabled" ELSE s
    ELSE IF s = "reaction" THEN s
    ELSE IF s = "not_ready" \/ 7 \in w \/ 1 \notin w THEN "switch_on_disabled"
    ELSE IF 0 \notin w THEN "ready"
    ELSE IF s = "switch_on_disabled" THEN s
    ELSE IF s = "ready" \/ 3 \notin w THEN "switched_on"
    ELSE "operation"

Operates ==
    /\ state' = Answer(state, cmd.word, prev)
    /\ act' = IF state = "operation" THEN cmd.target ELSE act
    /\ UNCHANGED <<job, coasted, early>>

Faults ==
    /\ state \notin {"reaction", "fault"} /\ job.faults > 0
    /\ job' = [job EXCEPT !.faults = @ - 1]
    /\ state' = "reaction" /\ act' \in {act, act + 1}
    /\ coasted' = (coasted \/ act' # cmd.target)
    /\ UNCHANGED early

Reacts ==
    /\ state = "reaction" /\ state' = "fault"
    /\ early' = (early \/ 7 \in cmd.word)
    /\ UNCHANGED <<job, act, coasted>>

Blocked == pc \in {"init", "op", "first", "wait"} \/ (pc = "receive" /\ frame.lost /\ timer < 2)

NextPeriod ==
    /\ Blocked /\ (pc = "wait" => notes = 0)
    /\ notes' = IF pc \in {"init", "op", "first"} THEN 1 ELSE notes + 1
    /\ timer' = IF pc = "receive" THEN timer + 1 ELSE timer
    /\ behind' = (pc = "receive")
    /\ prev' = cmd.word
    /\ Operates \/ Faults \/ Reacts
    /\ UNCHANGED <<pc, chk, path, out, status, frame, wkc_lost, cmd, misread>>

-----------------------------------------------------------------------------
InitWith(j) ==
    /\ job = j /\ pc = "init" /\ chk = 0 /\ notes = 0 /\ timer = 0
    /\ tp = <<>> /\ csp = [status |-> "stop", current_tp |-> 1, current_point |-> 0]
    /\ out = [word |-> {}, target |-> 0] /\ status = "not_ready"
    /\ frame = NoFrame /\ wkc_lost = 0
    /\ state = "not_ready" /\ cmd = out /\ prev = {} /\ act = j.at
    /\ misread = FALSE /\ coasted = FALSE /\ early = FALSE /\ behind = FALSE

Init == \E j \in Jobs : InitWith(j)

Next == control_task \/ NextPeriod

Fairness == WF_vars(control_task) /\ WF_vars(NextPeriod) /\ SF_vars(NextPeriod /\ Reacts)

Spec == Init /\ [][Next]_vars /\ Fairness
-----------------------------------------------------------------------------
(* The state keeps its shape.                                              *)
TypeOK ==
    /\ pc \in {"init", "op", "first", "send", "wait", "receive", "suspended"}
    /\ csp.current_tp \in 1..(IF tp = <<>> THEN 1 ELSE Len(tp))
    /\ {status, state} \subseteq States /\ wkc_lost \in 0..(MaxLost + 1)
    /\ notes \in Nat /\ timer \in 0..2

(* A drive that operates is never sent more than one step in a period,     *)
(* over the ends of segments, faults and lost frames, except while the     *)
(* task makes up for periods it spent on a lost frame (main.c:319), when   *)
(* the position was never read (axis_nc.c:287), or when a fault moved the  *)
(* axis from a target that was not taken back.                             *)
NoJump ==
    state = "operation" /\ pc # "suspended" =>
        AbsDiff(cmd.target, act) <= 1 \/ behind \/ misread \/ coasted

(* After its last fault the drive operates again and goes on, unless it    *)
(* was told to reset the fault while it still reacted to it: the bit that  *)
(* does stays set (cia402.c:112-115), and the drive waits for it to rise.  *)
Operating    == state = "operation" \/ pc = "suspended" \/ early
AxisOperates == <>[]Operating
=============================================================================
