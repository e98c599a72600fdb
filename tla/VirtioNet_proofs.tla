-------------------------- MODULE VirtioNet_proofs --------------------------
(***************************************************************************)
(* Proofs about the virtio-net backend, for every load, number of buffers, *)
(* coalescing count and timer queue: clearing queues nobody is busy with   *)
(* never halts the core, every probe finds a new device, and no used       *)
(* buffer the driver asked about is forgotten.                             *)
(***************************************************************************)
EXTENDS VirtioNet, SequenceTheorems, TLAPS

-----------------------------------------------------------------------------
(* The inductive invariant.                                                *)

(* The register writes of a driver that comes up or goes down, in order.   *)
Total(g)  == IF g = "up" THEN 6 ELSE 9
Turn(q)   == CASE q = "rx" -> 3 [] q = "tx" -> 4 [] OTHER -> 5
Served(n) == CASE n = 3 -> "rx" [] n = 4 -> "tx" [] OTHER -> "ctrl"
Planned(g, n) ==
    CASE n = 1 -> Status(0)
      [] n = 2 -> Status(3)
      [] n \in 3..5 -> Pfn(Served(n), 1)
      [] n = 6 /\ g = "up" -> Status(7)
      [] n = 6 /\ g = "down" -> Status(0)
      [] OTHER -> Pfn(Served(n - 4), 0)

(* How many of them the device has handled.                                *)
Posting == write.reg \in {"status", "pfn"}
Done    == Total(goal) - Len(script) - IF Posting THEN 1 ELSE 0

(* What the driver still writes is the rest of its plan; it notifies only  *)
(* when up, and acknowledges from its interrupt.                           *)
Scripted ==
    /\ Done \in 0..Total(goal)
    /\ \A i \in 1..Len(script) : script[i] = Planned(goal, Total(goal) - Len(script) + i)
    /\ Posting => write = Planned(goal, Total(goal) - Len(script))
    /\ write.reg = "notify" => goal = "up" /\ script = <<>>
    /\ write.reg = "ack" => isr = "scan"

(* What the device has seen of the plan is what it is set up for.          *)
SetUpTo ==
    /\ goal = "up" => (live <=> Done = 6) /\ (Done >= 1 => conf_up)
    /\ goal = "down" => (live => Done = 5)
    /\ \A q \in Vqs :
        /\ goal = "up" \/ Done <= 5 => (vq[q].enabled <=> Done >= Turn(q))
        /\ goal = "down" /\ Done >= Turn(q) + 4 => ~vq[q].enabled
        /\ ~vq[q].enabled => vq[q] = NoVq

(* A ring is new until the driver is up.                                   *)
RingsNew ==
    ~pulled /\ Done < (IF goal = "up" THEN 6 ELSE 5) => \A q \in Vqs : ring[q] = NewRing

(* Nobody uses a queue that is not set up.                                 *)
NobodyThere ==
    /\ halted => pulled
    /\ ~pulled => \A q \in Vqs : vq[q].enabled \/ ~Busy(q)

(* Buffers taken and not yet used are those of the packet in work.         *)
InFlight(q) ==
    IF q = "rx" THEN CASE pc[q] \in {"get", "update"} -> got
                       [] pc[q] = "copy" -> got + 1
                       [] OTHER -> 0
                ELSE IF pc[q] \in {"send", "used"} THEN 1 ELSE 0
BuffersCounted ==
    /\ pc["rx"] \in {"get", "copy"} => got < MaxBufs
    /\ \A q \in Vqs : vq[q].enabled /\ ~pulled =>
        /\ vq[q].last_avail = ring[q].used + InFlight(q)
        /\ vq[q].last_avail <= ring[q].avail
        /\ vq[q].last_notified <= ring[q].used

(* The driver is sure to hear of q, or a kick of a set status bit was lost.*)
WillSet == \/ \E t \in Tasks : pc[t] \in {"arm", "post", "status"}
           \/ cmds > 0 \/ active
Kicking == \E t \in Tasks : pc[t] = "kick"
Heard(q) ==
    \/ pc[q] = "notify" /\ MustNotify(q)
    \/ WillSet
    \/ intStatus /\ (Kicking \/ rung \/ isr = "read")
    \/ isr \in {"ack", "scan"} \/ napi[q] # "off"
    \/ missed /\ (Kicking => intStatus)
AllHeard == \A q \in Vqs : Up /\ ~pulled /\ ring[q].event < ring[q].used => Heard(q)

IInv ==
    /\ TypeOK /\ DOMAIN pc = Tasks
    /\ \A q \in Vqs : seen[q] = ring[q].event
    /\ Scripted /\ SetUpTo /\ RingsNew /\ NobodyThere
    /\ BuffersCounted /\ RunFollowsLive /\ AllHeard

-----------------------------------------------------------------------------
(* The steps.                                                              *)

CoreStep ==
    \/ OnCore(RxCallback) \/ OnCore(TxSend) \/ OnCore(RxCopy) \/ OnCore(RxUpdate)
    \/ OnCore(StartTimer) \/ OnCore(Expire)
    \/ \E q \in Vqs :
        \/ q # "rx" /\ OnCore(StartTask(q))
        \/ q # "rx" /\ OnCore(GetIovEmpty(q))
        \/ q # "rx" /\ OnCore(WakeUp(q))
        \/ q # "rx" /\ OnCore(UpdateUsedElem(q))
        \/ OnCore(GetIovTake(q))
        \/ OnCore(NotifyCheck(q))
        \/ q # "ctrl" /\ OnCore(TestTimer(q))
        \/ q # "ctrl" /\ OnCore(PostCommand(q))
    \/ \E t \in Tasks : OnCore(InterruptFront(t)) \/ OnCore(KickFront(t))

DriverStep ==
    \/ Probe \/ Remove \/ WriteRegister
    \/ \E q \in Vqs : Post(q) \/ NotifyQueue(q) \/ Poll(q) \/ Recheck(q)
    \/ Interrupted \/ ReadStatus \/ PostAck \/ ScanQueues \/ EndInterrupt

LEMMA Steps ==
  ASSUME [Next]_vars
  PROVE  CoreStep \/ HandleWrite \/ (\E q \in Vqs : Fault(q)) \/ DriverStep \/ UNCHANGED vars
<1>1. CASE OnCore(RxCallback)
  BY <1>1 DEF CoreStep
<1>2. ASSUME NEW q \in Vqs, OnCore(QueueStep(q)) PROVE CoreStep
  <2>1. /\ OnCore(TRUE)
        /\ QueueStep(q)
    BY <1>2 DEF OnCore
  <2>2. ASSUME QueueStep(q) PROVE
          \/ TxSend \/ RxCopy \/ RxUpdate
          \/ q # "rx" /\ StartTask(q)
          \/ q # "rx" /\ GetIovEmpty(q)
          \/ q # "rx" /\ WakeUp(q)
          \/ q # "rx" /\ UpdateUsedElem(q)
          \/ GetIovTake(q)
          \/ NotifyCheck(q)
          \/ q # "ctrl" /\ TestTimer(q)
          \/ q # "ctrl" /\ PostCommand(q)
    BY <2>2 DEF QueueStep
  <2>3. QED
    BY <2>1, <2>2 DEF CoreStep, OnCore
<1>3. ASSUME NEW t \in Tasks, OnCore(InterruptStep(t)) PROVE CoreStep
  BY <1>3 DEF CoreStep, OnCore, InterruptStep
<1>4. CASE OnCore(DaemonStep)
  BY <1>4 DEF CoreStep, OnCore, DaemonStep
<1>5. QED
  BY <1>1, <1>2, <1>3, <1>4 DEF Next, DriverStep, IsrStep, NapiStep

(* Where a task may be.                                                    *)
Places(t) ==
    CASE t = "rx" -> {"idle", "get", "copy", "update", "notify", "arm", "post", "status", "kick"}
      [] t = "tx" -> {"start", "get", "wait", "send", "used", "notify", "arm", "post",
                      "status", "kick"}
      [] t = "ctrl" -> {"start", "get", "wait", "used", "notify", "status", "kick"}
      [] OTHER -> {"idle", "status", "kick"}

LEMMA PcTyped ==
  ASSUME IInv
  PROVE  DOMAIN pc = Tasks /\ \A t \in Tasks : pc[t] \in Places(t)
  BY DEF IInv, TypeOK, Places, Tasks, Vqs

LEMMA Gone ==
  ASSUME DOMAIN pc = Tasks, NEW t \in Tasks, NEW w, Goto(t, w)
  PROVE  /\ DOMAIN pc' = Tasks /\ pc'[t] = w
         /\ \A u \in Tasks : u # t => pc'[u] = pc[u]
  BY DEF Goto

(* A step of a task leaves the driver and the device's status alone, and   *)
(* does not touch a queue that is not set up.                              *)
LEMMA CoreFrame ==
  ASSUME TypeOK, CoreStep
  PROVE  /\ UNCHANGED <<statusVars, halted, write, driverVars, pulled>>
         /\ ~halted
         /\ \A q \in Vqs : /\ vq'[q].enabled = vq[q].enabled
                           /\ ~vq[q].enabled => vq'[q] = vq[q]
<1>1. UNCHANGED <<statusVars, halted, write, driverVars, pulled>> /\ ~halted
  BY DEF CoreStep, OnCore
<1>2. vq \in [Vqs -> [enabled : BOOLEAN, last_avail : Nat, last_notified : Nat]]
  BY DEF TypeOK
<1>3. ASSUME NEW q \in Vqs, GetIovTake(q) \/ NotifyCheck(q)
      PROVE  \A r \in Vqs : /\ vq'[r].enabled = vq[r].enabled
                            /\ ~vq[r].enabled => vq'[r] = vq[r]
  BY <1>2, <1>3 DEF GetIovTake, NotifyCheck, Uses
<1>4. vq' = vq \/ \E q \in Vqs : GetIovTake(q) \/ NotifyCheck(q)
  BY DEF CoreStep, OnCore, ringVars, RxCallback, TxSend, RxCopy, RxUpdate, StartTimer, Expire,
     StartTask, GetIovEmpty, WakeUp, UpdateUsedElem, TestTimer, PostCommand,
     InterruptFront, KickFront
<1>5. QED
  BY <1>1, <1>3, <1>4

-----------------------------------------------------------------------------
(* The register writes.                                                    *)

LEMMA WriteFacts ==
  ASSUME NEW w \in Writes
  PROVE  /\ w.reg \in {"none", "status", "pfn", "notify", "ack"}
         /\ w.reg = "none" <=> w = None
         /\ w.reg = "ack" <=> w = Ack
         /\ w.reg = "status" => w.val \in {0, 3, 7}
         /\ w.reg = "pfn" => w.vq \in Vqs /\ w.val \in 0..1
         /\ w.reg = "notify" => w.vq \in Vqs
  BY DEF Writes, None, Ack, Status, Notify, Pfn, Vqs

LEMMA PlanFacts ==
  ASSUME NEW g \in {"up", "down"}, NEW n \in 1..Total(g)
  PROVE  /\ Planned(g, n) \in Writes
         /\ Planned(g, n).reg \in {"status", "pfn"}
         /\ n = 1 => Planned(g, n).reg = "status" /\ Planned(g, n).val = 0
         /\ n = 2 => Planned(g, n).reg = "status" /\ Planned(g, n).val = 3
         /\ n \in 3..5 => /\ Planned(g, n).reg = "pfn" /\ Planned(g, n).val = 1
                          /\ Turn(Planned(g, n).vq) = n
         /\ n = 6 => /\ Planned(g, n).reg = "status"
                     /\ Planned(g, n).val = IF g = "up" THEN 7 ELSE 0
         /\ n \in 7..9 => /\ Planned(g, n).reg = "pfn" /\ Planned(g, n).val = 0
                          /\ Turn(Planned(g, n).vq) = n - 4
<1> USE DEF Planned, Writes, Status, Pfn, Vqs, Total, Served, Turn
<1>1. CASE n = 1
  BY <1>1
<1>2. CASE n = 2
  BY <1>2
<1>3. CASE n \in 3..5
  <2>1. n = 3 \/ n = 4 \/ n = 5
    BY <1>3
  <2>2. QED
    BY <2>1
<1>4. CASE n = 6
  BY <1>4
<1>5. CASE n \in 7..9
  <2>1. g = "down" /\ (n = 7 \/ n = 8 \/ n = 9)
    BY <1>5
  <2>2. QED
    BY <2>1
<1>6. QED
  BY <1>1, <1>2, <1>3, <1>4, <1>5

LEMMA Appended ==
  ASSUME NEW S, NEW s \in Seq(S), NEW e \in S
  PROVE  /\ Append(s, e) \in Seq(S)
         /\ Len(Append(s, e)) = Len(s) + 1
         /\ Append(s, e)[Len(s) + 1] = e
         /\ \A i \in 1..Len(s) : Append(s, e)[i] = s[i]
  OBVIOUS

LEMMA Plans ==
  /\ Len(Append(SetUp, Status(7))) = 6 /\ Append(SetUp, Status(7)) \in Seq(Writes)
  /\ \A i \in 1..6 : Append(SetUp, Status(7))[i] = Planned("up", i)
  /\ Len(SetUp \o TearDown) = 9 /\ SetUp \o TearDown \in Seq(Writes)
  /\ \A i \in 1..9 : (SetUp \o TearDown)[i] = Planned("down", i)
  /\ Len(TearDown) = 4 /\ TearDown \in Seq(Writes)
  /\ \A i \in 1..4 : TearDown[i] = Planned("down", 5 + i)
<1>1. /\ Len(SetUp) = 5 /\ SetUp \in Seq(Writes)
      /\ SetUp[1] = Status(0) /\ SetUp[2] = Status(3) /\ SetUp[3] = Pfn("rx", 1)
      /\ SetUp[4] = Pfn("tx", 1) /\ SetUp[5] = Pfn("ctrl", 1)
  BY DEF SetUp, Writes, Vqs
<1>2. /\ Len(TearDown) = 4 /\ TearDown \in Seq(Writes)
      /\ TearDown[1] = Status(0) /\ TearDown[2] = Pfn("rx", 0) 
      /\ TearDown[3] = Pfn("tx", 0) /\ TearDown[4] = Pfn("ctrl", 0)
  BY DEF TearDown, Writes, Vqs
<1>3. Status(7) \in Writes
  BY DEF Writes
<1>4. /\ Len(Append(SetUp, Status(7))) = 6 /\ Append(SetUp, Status(7)) \in Seq(Writes)
      /\ \A i \in 1..6 : Append(SetUp, Status(7))[i] = IF i = 6 THEN Status(7) ELSE SetUp[i]
  <2>1. /\ Append(SetUp, Status(7)) \in Seq(Writes)
        /\ Len(Append(SetUp, Status(7))) = Len(SetUp) + 1
        /\ Append(SetUp, Status(7))[Len(SetUp) + 1] = Status(7)
        /\ \A i \in 1..Len(SetUp) : Append(SetUp, Status(7))[i] = SetUp[i]
    <3> HIDE DEF SetUp, Status
    <3>1. SetUp \in Seq(Writes) /\ Status(7) \in Writes
      BY <1>1, <1>3
    <3>2. QED
      BY <3>1, Appended, ZenonT(40)
  <2>2. QED
    BY <1>1, <1>3, <2>1
<1>5. /\ Len(SetUp \o TearDown) = 9 /\ SetUp \o TearDown \in Seq(Writes)
      /\ \A i \in 1..9 : (SetUp \o TearDown)[i] = IF i <= 5 THEN SetUp[i] ELSE TearDown[i - 5]
  <2>1. /\ SetUp \o TearDown \in Seq(Writes)
        /\ Len(SetUp \o TearDown) = Len(SetUp) + Len(TearDown)
        /\ \A i \in 1 .. Len(SetUp) + Len(TearDown) : (SetUp \o TearDown)[i] =
             IF i <= Len(SetUp) THEN SetUp[i] ELSE TearDown[i - Len(SetUp)]
    BY <1>1, <1>2, ConcatProperties, Zenon
  <2>2. QED
    BY <1>1, <1>2, <2>1
<1>6. ASSUME NEW g \in {"up", "down"}, NEW i \in 1..5 PROVE SetUp[i] = Planned(g, i)
  <2>1. i = 1 \/ i = 2 \/ i = 3 \/ i = 4 \/ i = 5
    OBVIOUS
  <2>2. QED
    BY <1>1, <2>1 DEF Planned, Served
<1>7. ASSUME NEW i \in 1..4 PROVE TearDown[i] = Planned("down", 5 + i)
  <2>1. i = 1 \/ i = 2 \/ i = 3 \/ i = 4
    OBVIOUS
  <2>2. QED
    BY <1>2, <2>1 DEF Planned, Served
<1>8. Planned("up", 6) = Status(7)
  BY DEF Planned
<1>9. ASSUME NEW i \in 1..9
      PROVE  (SetUp \o TearDown)[i] = Planned("down", i)
  <2>1. CASE i <= 5
    <3>1. i \in 1..5 /\ "down" \in {"up", "down"}
      BY <2>1
    <3>2. SetUp[i] = Planned("down", i)
      BY <3>1, <1>6
    <3>3. QED
      BY <2>1, <3>2, <1>5
  <2>2. CASE ~(i <= 5)
    <3>1. i - 5 \in 1..4 /\ 5 + (i - 5) = i
      BY <2>2
    <3>2. TearDown[i - 5] = Planned("down", 5 + (i - 5))
      BY <3>1, <1>7
    <3>3. QED
      BY <2>2, <3>1, <3>2, <1>5
  <2>3. QED
    BY <2>1, <2>2
<1>10. ASSUME NEW i \in 1..6
       PROVE  Append(SetUp, Status(7))[i] = Planned("up", i)
  <2>1. CASE i = 6
    BY <2>1, <1>4, <1>8
  <2>2. CASE i # 6
    <3>1. i \in 1..5
      BY <2>2
    <3>2. QED
      BY <2>2, <3>1, <1>4, <1>6
  <2>3. QED
    BY <2>1, <2>2
<1>11. QED
  BY <1>2, <1>4, <1>5, <1>7, <1>9, <1>10

(* A write that sets a queue up or changes the status is the next one of   *)
(* the driver's plan.                                                      *)
LEMMA NextOfPlan ==
  ASSUME IInv, Posting
  PROVE  /\ Done + 1 \in 1..Total(goal)
         /\ write = Planned(goal, Done + 1)
         /\ goal \in {"up", "down"}
  BY DEF IInv, TypeOK, Scripted, Done, Total

(* A driver that is up has carried out its plan.                           *)
LEMMA UpIsDone ==
  ASSUME IInv, Up
  PROVE  /\ goal = "up" /\ Done = 6 /\ live
         /\ \A q \in Vqs : vq[q].enabled
<1>1. ~Posting /\ Len(script) = 0 /\ goal = "up"
  BY DEF Up, Written, Posting, None
<1>2. Done = 6
  BY <1>1 DEF Done, Total
<1>3. QED
  BY <1>1, <1>2 DEF IInv, SetUpTo, Turn

-----------------------------------------------------------------------------
(* Types.                                                                  *)

(* Every task stays at a place it has.                                     *)
LEMMA NextPlaces ==
  ASSUME IInv, [Next]_vars
  PROVE  DOMAIN pc' = Tasks /\ \A t \in Tasks : pc'[t] \in Places(t)
<1> DEFINE Goal == DOMAIN pc' = Tasks /\ \A t \in Tasks : pc'[t] \in Places(t)
<1>a. DOMAIN pc = Tasks /\ \A t \in Tasks : pc[t] \in Places(t)
  BY PcTyped
<1>1. CASE OnCore(RxCallback)
  BY <1>a, <1>1, Gone DEF OnCore, RxCallback, Uses, Home, Places, Tasks, Vqs
<1>2. CASE OnCore(TxSend)
  BY <1>a, <1>2, Gone DEF OnCore, TxSend, Uses, Home, Places, Tasks, Vqs
<1>3. CASE OnCore(RxCopy)
  BY <1>a, <1>3, Gone DEF OnCore, RxCopy, Uses, Home, Places, Tasks, Vqs
<1>4. CASE OnCore(RxUpdate)
  BY <1>a, <1>4, Gone DEF OnCore, RxUpdate, Uses, Home, Places, Tasks, Vqs
<1>5. CASE OnCore(StartTimer)
  BY <1>a, <1>5, Gone DEF OnCore, StartTimer, Uses, Home, Places, Tasks, Vqs, taskVars
<1>6. CASE OnCore(Expire)
  BY <1>a, <1>6, Gone DEF OnCore, Expire, Uses, Home, Places, Tasks, Vqs
<1>7. ASSUME NEW q \in Vqs, q # "rx", OnCore(StartTask(q)) PROVE Goal
  BY <1>a, <1>7, Gone DEF OnCore, StartTask, Uses, Home, Places, Tasks, Vqs
<1>8. ASSUME NEW q \in Vqs, q # "rx", OnCore(GetIovEmpty(q)) PROVE Goal
  BY <1>a, <1>8, Gone DEF OnCore, GetIovEmpty, Uses, Home, Places, Tasks, Vqs
<1>9. ASSUME NEW q \in Vqs, q # "rx", OnCore(WakeUp(q)) PROVE Goal
  BY <1>a, <1>9, Gone DEF OnCore, WakeUp, Uses, Home, Places, Tasks, Vqs
<1>10. ASSUME NEW q \in Vqs, q # "rx", OnCore(UpdateUsedElem(q)) PROVE Goal
  BY <1>a, <1>10, Gone DEF OnCore, UpdateUsedElem, Uses, Home, Places, Tasks, Vqs
<1>11. ASSUME NEW q \in Vqs, OnCore(GetIovTake(q)) PROVE Goal
  BY <1>a, <1>11, Gone DEF OnCore, GetIovTake, Uses, Home, Places, Tasks, Vqs
<1>12. ASSUME NEW q \in Vqs, OnCore(NotifyCheck(q)) PROVE Goal
  BY <1>a, <1>12, Gone DEF OnCore, NotifyCheck, Uses, Home, Places, Tasks, Vqs
<1>13. ASSUME NEW q \in Vqs, q # "ctrl", OnCore(TestTimer(q)) PROVE Goal
  BY <1>a, <1>13, Gone DEF OnCore, TestTimer, Uses, Home, Places, Tasks, Vqs
<1>14. ASSUME NEW q \in Vqs, q # "ctrl", OnCore(PostCommand(q)) PROVE Goal
  BY <1>a, <1>14, Gone DEF OnCore, PostCommand, Uses, Home, Places, Tasks, Vqs
<1>15. ASSUME NEW t \in Tasks, OnCore(InterruptFront(t)) PROVE Goal
  BY <1>a, <1>15, Gone DEF OnCore, InterruptFront, Uses, Home, Places, Tasks, Vqs
<1>16. ASSUME NEW t \in Tasks, OnCore(KickFront(t)) PROVE Goal
  BY <1>a, <1>16, Gone DEF OnCore, KickFront, Uses, Home, Places, Tasks, Vqs
<1>17. CASE HandleWrite
  BY <1>a, <1>17 DEF HandleWrite, taskVars
<1>18. ASSUME NEW q \in Vqs, Fault(q) PROVE Goal
  BY <1>a, <1>18 DEF Fault, taskVars
<1>19. CASE Probe
  BY <1>a, <1>19 DEF Probe, deviceVars, taskVars
<1>20. CASE Remove
  BY <1>a, <1>20 DEF Remove, deviceVars, taskVars
<1>21. CASE WriteRegister
  BY <1>a, <1>21 DEF WriteRegister, deviceVars, taskVars
<1>22. CASE Interrupted
  BY <1>a, <1>22 DEF Interrupted, deviceVars, taskVars
<1>23. CASE ReadStatus
  BY <1>a, <1>23 DEF ReadStatus, deviceVars, taskVars
<1>24. CASE PostAck
  BY <1>a, <1>24 DEF PostAck, deviceVars, taskVars
<1>25. CASE ScanQueues
  BY <1>a, <1>25 DEF ScanQueues, deviceVars, taskVars
<1>26. CASE EndInterrupt
  BY <1>a, <1>26 DEF EndInterrupt, deviceVars, taskVars
<1>27. ASSUME NEW q \in Vqs, Post(q) PROVE Goal
  BY <1>a, <1>27 DEF Post, deviceVars, taskVars
<1>28. ASSUME NEW q \in Vqs, NotifyQueue(q) PROVE Goal
  BY <1>a, <1>28 DEF NotifyQueue, deviceVars, taskVars
<1>29. ASSUME NEW q \in Vqs, Poll(q) PROVE Goal
  BY <1>a, <1>29 DEF Poll, deviceVars, taskVars
<1>30. ASSUME NEW q \in Vqs, Recheck(q) PROVE Goal
  BY <1>a, <1>30 DEF Recheck, deviceVars, taskVars
<1>31. CASE UNCHANGED vars
  BY <1>a, <1>31 DEF vars, taskVars
<1>32. QED
  BY <1>1, <1>2, <1>3, <1>4, <1>5, <1>6, <1>7, <1>8, <1>9, <1>10, <1>11, <1>12, <1>13,
  <1>14, <1>15, <1>16, <1>17, <1>18, <1>19, <1>20, <1>21, <1>22, <1>23, <1>24, <1>25,
  <1>26, <1>27, <1>28, <1>29, <1>30, <1>31, Steps DEF CoreStep, DriverStep

(* The types of everything but the places.                                 *)
Others ==
    /\ {live, run, link_on, conf_up, active, intStatus, halted, rung} \subseteq BOOLEAN
    /\ {pulled, missed} \subseteq BOOLEAN
    /\ vq \in [Vqs -> [enabled : BOOLEAN, last_avail : Nat, last_notified : Nat]]
    /\ ring \in [Vqs -> [avail : Nat, used : Nat, event : Nat]]
    /\ sig \in [{"tx", "ctrl"} -> Nat] /\ note \in [{"tx", "ctrl"} -> BOOLEAN]
    /\ got \in 0..MaxBufs /\ cnt \in [{"rx", "tx"} -> 0..CoalCnt]
    /\ cmds \in 0..TimerLen /\ write \in Writes /\ script \in Seq(Writes)
    /\ goal \in {"up", "down"} /\ isr \in {"idle", "read", "ack", "scan", "done"}
    /\ napi \in [Vqs -> {"off", "poll", "recheck"}] /\ due \in [Vqs -> BOOLEAN]
    /\ seen \in [Vqs -> Nat] /\ probes \in Nat /\ packets \in Nat /\ load \in Loads

LEMMA RingTyped ==
  ASSUME NEW r \in [Vqs -> [avail : Nat, used : Nat, event : Nat]], NEW q \in Vqs, NEW k \in Nat
  PROVE  /\ [r EXCEPT ![q].avail = k] \in [Vqs -> [avail : Nat, used : Nat, event : Nat]]
         /\ [r EXCEPT ![q].used = k] \in [Vqs -> [avail : Nat, used : Nat, event : Nat]]
         /\ r[q].avail + 1 \in Nat /\ r[q].used + k \in Nat
         /\ r[q].used + 1 \in Nat
<1>1. r[q] \in [avail : Nat, used : Nat, event : Nat]
  OBVIOUS
<1>2. /\ [r[q] EXCEPT !.avail = k] \in [avail : Nat, used : Nat, event : Nat]
      /\ [r[q] EXCEPT !.used = k] \in [avail : Nat, used : Nat, event : Nat]
  BY <1>1
<1>3. QED
  BY <1>1, <1>2

LEMMA VqTyped ==
  ASSUME NEW f \in [Vqs -> [enabled : BOOLEAN, last_avail : Nat, last_notified : Nat]],
         NEW q \in Vqs, NEW k \in Nat
  PROVE  /\ [f EXCEPT ![q].last_avail = k]
               \in [Vqs -> [enabled : BOOLEAN, last_avail : Nat, last_notified : Nat]]
         /\ [f EXCEPT ![q].last_notified = k]
               \in [Vqs -> [enabled : BOOLEAN, last_avail : Nat, last_notified : Nat]]
         /\ [f EXCEPT ![q].enabled = TRUE]
               \in [Vqs -> [enabled : BOOLEAN, last_avail : Nat, last_notified : Nat]]
         /\ f[q].last_avail + 1 \in Nat
<1>1. f[q] \in [enabled : BOOLEAN, last_avail : Nat, last_notified : Nat]
  OBVIOUS
<1>2. /\ [f[q] EXCEPT !.last_avail = k]
             \in [enabled : BOOLEAN, last_avail : Nat, last_notified : Nat]
      /\ [f[q] EXCEPT !.enabled = TRUE]
             \in [enabled : BOOLEAN, last_avail : Nat, last_notified : Nat]
      /\ [f[q] EXCEPT !.last_notified = k]
             \in [enabled : BOOLEAN, last_avail : Nat, last_notified : Nat]
  BY <1>1
<1>3. QED
  BY <1>1, <1>2

LEMMA NextOthers == IInv /\ [Next]_vars => Others'
<1> SUFFICES ASSUME IInv, [Next]_vars PROVE Others'
  OBVIOUS
<1>a. Others /\ DOMAIN pc = Tasks /\ \A t \in Tasks : pc[t] \in Places(t)
  BY PcTyped DEF IInv, TypeOK, Others
<1>b. TimerLen \in Nat \ {0} /\ CoalCnt \in Nat \ {0} /\ MaxBufs \in Nat \ {0}
  BY NetAssumption
<1>1. CASE OnCore(RxCallback)
  BY <1>a, <1>b, <1>1 DEF OnCore, RxCallback, Uses, Count, UpdateUsed, statusVars, driverVars,
     ringVars, timerVars, kickVars, taskVars, Others
<1>2. CASE OnCore(TxSend)
  BY <1>a, <1>b, <1>2 DEF OnCore, TxSend, Uses, Count, UpdateUsed, statusVars, driverVars,
     ringVars, timerVars, kickVars, taskVars, Others
<1>3. CASE OnCore(RxCopy)
  <2>1. got' \in 0..MaxBufs
    <3>1. pc["rx"] = "copy" /\ got' = got + 1
      BY <1>3 DEF OnCore, RxCopy, Uses
    <3>2. got < MaxBufs
      BY <3>1 DEF IInv, BuffersCounted
    <3>3. QED
      BY <1>a, <1>b, <3>1, <3>2 DEF Others
  <2>2. QED
    BY <1>a, <1>b, <1>3, <2>1 DEF OnCore, RxCopy, Uses, Count, UpdateUsed, statusVars, driverVars,
       ringVars, timerVars, kickVars, taskVars, Others
<1>4. CASE OnCore(RxUpdate)
  <2>1. ring' \in [Vqs -> [avail : Nat, used : Nat, event : Nat]]
    <3>1. ring' = [ring EXCEPT !["rx"].used = ring["rx"].used + got] /\ "rx" \in Vqs
      BY <1>4 DEF OnCore, RxUpdate, UpdateUsed, Vqs
    <3>2. got \in Nat
      BY <1>a, <1>b DEF Others
    <3>3. QED
      BY <1>a, <3>1, <3>2, RingTyped DEF Others
  <2>2. cnt' \in [{"rx", "tx"} -> 0..CoalCnt]
    BY <1>a, <1>b, <1>4 DEF OnCore, RxUpdate, Count, Others
  <2>3. QED
    BY <1>a, <1>b, <1>4, <2>1, <2>2 DEF OnCore, RxUpdate, Uses, Count, UpdateUsed, statusVars, driverVars,
       ringVars, timerVars, kickVars, taskVars, Others
<1>5. CASE OnCore(StartTimer)
  BY <1>a, <1>b, <1>5 DEF OnCore, StartTimer, Uses, Count, UpdateUsed, statusVars, driverVars,
     ringVars, timerVars, kickVars, taskVars, Others
<1>6. CASE OnCore(Expire)
  BY <1>a, <1>b, <1>6 DEF OnCore, Expire, Uses, Count, UpdateUsed, statusVars, driverVars,
     ringVars, timerVars, kickVars, taskVars, Others
<1>7. ASSUME NEW q \in Vqs, q # "rx", OnCore(StartTask(q)) PROVE Others'
  <2>1. sig' \in [{"tx", "ctrl"} -> Nat]
    <3>1. q \in {"tx", "ctrl"} /\ sig[q] > 0 /\ sig' = [sig EXCEPT ![q] = sig[q] - 1]
      BY <1>7 DEF OnCore, StartTask, Vqs
    <3>2. sig[q] - 1 \in Nat
      BY <1>a, <3>1 DEF Others
    <3>3. QED
      BY <1>a, <3>1, <3>2 DEF Others
  <2>2. QED
    BY <1>a, <1>b, <1>7, <2>1 DEF OnCore, StartTask, Uses, Count, UpdateUsed, statusVars, driverVars,
       ringVars, timerVars, kickVars, taskVars, Others
<1>8. ASSUME NEW q \in Vqs, q # "rx", OnCore(GetIovEmpty(q)) PROVE Others'
  BY <1>a, <1>b, <1>8 DEF OnCore, GetIovEmpty, Uses, Count, UpdateUsed, statusVars, driverVars,
     ringVars, timerVars, kickVars, taskVars, Others
<1>9. ASSUME NEW q \in Vqs, q # "rx", OnCore(WakeUp(q)) PROVE Others'
  BY <1>a, <1>b, <1>9 DEF OnCore, WakeUp, Uses, Count, UpdateUsed, statusVars, driverVars,
     ringVars, timerVars, kickVars, taskVars, Others
<1>10. ASSUME NEW q \in Vqs, q # "rx", OnCore(UpdateUsedElem(q)) PROVE Others'
  <2>1. ring' \in [Vqs -> [avail : Nat, used : Nat, event : Nat]]
    BY <1>a, <1>b, <1>10, RingTyped DEF OnCore, UpdateUsedElem, UpdateUsed, Others
  <2>2. QED
    BY <1>a, <1>b, <1>10, <2>1 DEF OnCore, UpdateUsedElem, Uses, Count, UpdateUsed, statusVars, driverVars,
       ringVars, timerVars, kickVars, taskVars, Others
<1>11. ASSUME NEW q \in Vqs, OnCore(GetIovTake(q)) PROVE Others'
  <2>1. vq' \in [Vqs -> [enabled : BOOLEAN, last_avail : Nat, last_notified : Nat]]
    BY <1>a, <1>b, <1>11, VqTyped DEF OnCore, GetIovTake, Others
  <2>2. QED
    BY <1>a, <1>b, <1>11, <2>1 DEF OnCore, GetIovTake, Uses, Count, UpdateUsed, statusVars, driverVars,
       ringVars, timerVars, kickVars, taskVars, Others
<1>12. ASSUME NEW q \in Vqs, OnCore(NotifyCheck(q)) PROVE Others'
  <2>1. \/ vq' = vq
        \/ vq' = [vq EXCEPT ![q].last_notified = ring[q].used]
    BY <1>12 DEF OnCore, NotifyCheck
  <2>2. vq' \in [Vqs -> [enabled : BOOLEAN, last_avail : Nat, last_notified : Nat]]
    <3>1. ring[q].used \in Nat
      BY <1>a, <1>12 DEF Others
    <3>2. vq \in [Vqs -> [enabled : BOOLEAN, last_avail : Nat, last_notified : Nat]]
      BY <1>a DEF Others
    <3>3. QED
      BY <1>12, <2>1, <3>1, <3>2, VqTyped
  <2>3. \/ cnt' = cnt
        \/ q # "ctrl" /\ cnt' = [cnt EXCEPT ![q] = 0]
    BY <1>12 DEF OnCore, NotifyCheck
  <2>4. cnt' \in [{"rx", "tx"} -> 0..CoalCnt]
    BY <1>a, <1>b, <1>12, <2>3 DEF Others
  <2>5. QED
    BY <1>a, <1>b, <1>12, <2>1, <2>2, <2>3, <2>4 DEF OnCore, NotifyCheck, Uses, Count, UpdateUsed, statusVars, driverVars,
       ringVars, timerVars, kickVars, taskVars, Others
<1>13. ASSUME NEW q \in Vqs, q # "ctrl", OnCore(TestTimer(q)) PROVE Others'
  BY <1>a, <1>b, <1>13 DEF OnCore, TestTimer, Uses, Count, UpdateUsed, statusVars, driverVars,
     ringVars, timerVars, kickVars, taskVars, Others
<1>14. ASSUME NEW q \in Vqs, q # "ctrl", OnCore(PostCommand(q)) PROVE Others'
  BY SMTT(60), <1>a, <1>b, <1>14 DEF OnCore, PostCommand, Uses, Count, UpdateUsed, statusVars, driverVars,
     ringVars, timerVars, kickVars, taskVars, Others
<1>15. ASSUME NEW t \in Tasks, OnCore(InterruptFront(t)) PROVE Others'
  BY <1>a, <1>b, <1>15 DEF OnCore, InterruptFront, Uses, Count, UpdateUsed, statusVars, driverVars,
     ringVars, timerVars, kickVars, taskVars, Others
<1>16. ASSUME NEW t \in Tasks, OnCore(KickFront(t)) PROVE Others'
  BY <1>a, <1>b, <1>16 DEF OnCore, KickFront, Uses, Count, UpdateUsed, statusVars, driverVars,
     ringVars, timerVars, kickVars, taskVars, Others
<1>17. CASE HandleWrite
  <2>1. /\ write.reg = "status" => write.val \in {0, 3, 7}
        /\ write.reg = "pfn" => write.vq \in Vqs
        /\ write.reg = "notify" => write.vq \in Vqs
        /\ None \in Writes
    BY <1>a, WriteFacts DEF Others, Writes
  <2>2. ASSUME NEW Q \in SUBSET Vqs, Exit(Q)
        PROVE  /\ vq' \in [Vqs -> [enabled : BOOLEAN, last_avail : Nat, last_notified : Nat]]
               /\ sig' = sig /\ pulled' \in BOOLEAN
    BY <1>a, <2>2 DEF Exit, NoVq, Others
  <2>3. CASE write.reg = "status"
    <3>1. {live', run', link_on', conf_up'} \subseteq BOOLEAN
      BY <1>a, <1>17, <2>3 DEF HandleWrite, HandleStatus, HandleDevStatus, Start, Stop, DriverOK, Others
    <3>2. Exit(Vqs) \/ UNCHANGED <<vq, sig, pulled>>
      BY <1>17, <2>3 DEF HandleWrite, HandleStatus
    <3>3. /\ vq' \in [Vqs -> [enabled : BOOLEAN, last_avail : Nat, last_notified : Nat]]
          /\ sig' = sig /\ pulled' \in BOOLEAN
      BY <1>a, <2>2, <3>2 DEF Others
    <3>4. QED
      BY <1>a, <1>17, <2>1, <2>3, <3>1, <3>3 DEF HandleWrite, taskVars, timerVars, driverVars, Others
  <2>4. CASE write.reg = "pfn"
    <3>1. Exit({write.vq}) \/ InitVq(write.vq)
      BY <1>17, <2>4 DEF HandleWrite
    <3>2. ASSUME InitVq(write.vq)
          PROVE  /\ vq' \in [Vqs -> [enabled : BOOLEAN, last_avail : Nat, last_notified : Nat]]
                 /\ sig' \in [{"tx", "ctrl"} -> Nat] /\ pulled' \in BOOLEAN
      <4>1. vq' = [vq EXCEPT ![write.vq].enabled = TRUE] /\ pulled' = pulled
        BY <3>2 DEF InitVq
      <4>2. vq' \in [Vqs -> [enabled : BOOLEAN, last_avail : Nat, last_notified : Nat]]
        <5>1. vq \in [Vqs -> [enabled : BOOLEAN, last_avail : Nat, last_notified : Nat]]
          BY <1>a DEF Others
        <5>2. QED
          BY <2>1, <2>4, <4>1, <5>1, VqTyped
      <4>3. sig' \in [{"tx", "ctrl"} -> Nat]
        <5>1. CASE write.vq = "rx"
          BY <1>a, <3>2, <5>1 DEF InitVq, Others
        <5>2. CASE write.vq # "rx"
          <6>1. write.vq \in {"tx", "ctrl"} /\ sig' = [sig EXCEPT ![write.vq] = sig[write.vq] + 1]
            BY <2>1, <2>4, <3>2, <5>2 DEF InitVq, Vqs
          <6>2. QED
            BY <1>a, <6>1 DEF Others
        <5>3. QED
          BY <5>1, <5>2
      <4>4. QED
        BY <1>a, <4>1, <4>2, <4>3 DEF Others
    <3>3. /\ vq' \in [Vqs -> [enabled : BOOLEAN, last_avail : Nat, last_notified : Nat]]
          /\ sig' \in [{"tx", "ctrl"} -> Nat] /\ pulled' \in BOOLEAN
      <4>1. {write.vq} \in SUBSET Vqs
        BY <2>1, <2>4
      <4>2. QED
        BY <1>a, <2>2, <3>1, <3>2, <4>1 DEF Others
    <3>4. QED
      BY <1>a, <1>17, <2>1, <2>4, <3>3 DEF HandleWrite, statusVars, taskVars, timerVars, driverVars, Others
  <2>5. CASE write.reg \notin {"status", "pfn"}
    <3>1. note' \in [{"tx", "ctrl"} -> BOOLEAN]
      <4>1. CASE write.reg = "notify" /\ write.vq # "rx"
        <5>1. write.vq \in {"tx", "ctrl"} /\ note' = [note EXCEPT ![write.vq] = TRUE]
          BY <1>17, <2>1, <4>1 DEF HandleWrite, NotifyVq, Vqs
        <5>2. QED
          BY <1>a, <5>1 DEF Others
      <4>2. CASE ~(write.reg = "notify" /\ write.vq # "rx")
        BY <1>a, <1>17, <4>2 DEF HandleWrite, NotifyVq, Others
      <4>3. QED
        BY <4>1, <4>2
    <3>2. QED
      BY <1>a, <1>17, <2>1, <2>5, <3>1 DEF HandleWrite, statusVars, taskVars, timerVars, driverVars, Others
  <2>6. QED
    BY <2>3, <2>4, <2>5
<1>18. ASSUME NEW q \in Vqs, Fault(q) PROVE Others'
  BY <1>a, <1>b, <1>18 DEF Fault, statusVars, driverVars, timerVars, kickVars, taskVars,
     deviceVars, ringVars, Others
<1>19. CASE Probe
  <2>1. script' \in Seq(Writes)
    BY <1>19, Plans DEF Probe
  <2>2. QED
    BY <1>a, <1>b, <1>19, <2>1 DEF Probe, deviceVars, kickVars, statusVars, timerVars, taskVars, NewRing, Others
<1>20. CASE Remove
  <2>1. script' \in Seq(Writes)
    BY <1>20, Plans DEF Remove
  <2>2. QED
    BY <1>a, <1>b, <1>20, <2>1 DEF Remove, deviceVars, kickVars, statusVars, timerVars, taskVars, Others
<1>21. CASE WriteRegister
  BY <1>a, <1>b, <1>21 DEF WriteRegister, statusVars, driverVars, timerVars, kickVars, taskVars,
     deviceVars, ringVars, Others
<1>22. CASE Interrupted
  BY <1>a, <1>b, <1>22 DEF Interrupted, statusVars, driverVars, timerVars, kickVars, taskVars,
     deviceVars, ringVars, Others
<1>23. CASE ReadStatus
  BY <1>a, <1>b, <1>23 DEF ReadStatus, statusVars, driverVars, timerVars, kickVars, taskVars,
     deviceVars, ringVars, Others
<1>24. CASE PostAck
  <2>1. Ack \in Writes
    BY DEF Writes
  <2>2. QED
    BY <1>a, <1>b, <1>24, <2>1 DEF PostAck, deviceVars, kickVars, statusVars, timerVars, taskVars, Others
<1>25. CASE ScanQueues
  BY <1>a, <1>b, <1>25 DEF ScanQueues, statusVars, driverVars, timerVars, kickVars, taskVars,
     deviceVars, ringVars, Others
<1>26. CASE EndInterrupt
  BY <1>a, <1>b, <1>26 DEF EndInterrupt, statusVars, driverVars, timerVars, kickVars, taskVars,
     deviceVars, ringVars, Others
<1>27. ASSUME NEW q \in Vqs, Post(q) PROVE Others'
  <2>1. ring' \in [Vqs -> [avail : Nat, used : Nat, event : Nat]]
    BY <1>a, <1>27, RingTyped DEF Post, Others
  <2>2. QED
    BY <1>a, <1>27, <2>1 DEF Post, deviceVars, kickVars, statusVars, timerVars, taskVars, Others
<1>28. ASSUME NEW q \in Vqs, NotifyQueue(q) PROVE Others'
  <2>1. Notify(q) \in Writes
    BY <1>28 DEF Writes
  <2>2. QED
    BY <1>a, <1>b, <1>28, <2>1 DEF NotifyQueue, deviceVars, kickVars, statusVars, timerVars, taskVars, Others
<1>29. ASSUME NEW q \in Vqs, Poll(q) PROVE Others'
  BY ZenonT(60), <1>a, <1>b, <1>29 DEF Poll, statusVars, driverVars, timerVars, kickVars, taskVars,
     deviceVars, ringVars, Others
<1>30. ASSUME NEW q \in Vqs, Recheck(q) PROVE Others'
  BY <1>a, <1>b, <1>30 DEF Recheck, statusVars, driverVars, timerVars, kickVars, taskVars,
     deviceVars, ringVars, Others
<1>31. CASE UNCHANGED vars
  BY <1>a, <1>b, <1>31 DEF vars, statusVars, driverVars, timerVars, kickVars, taskVars, Others
<1>32. QED
  BY <1>1, <1>2, <1>3, <1>4, <1>5, <1>6, <1>7, <1>8, <1>9, <1>10, <1>11, <1>12, <1>13,
  <1>14, <1>15, <1>16, <1>17, <1>18, <1>19, <1>20, <1>21, <1>22, <1>23, <1>24, <1>25,
  <1>26, <1>27, <1>28, <1>29, <1>30, <1>31, Steps DEF CoreStep, DriverStep

LEMMA NextTyped == IInv /\ [Next]_vars => TypeOK' /\ (DOMAIN pc)' = Tasks
<1> SUFFICES ASSUME IInv, [Next]_vars PROVE TypeOK' /\ DOMAIN pc' = Tasks
  OBVIOUS
<1>1. Others'
  BY NextOthers
<1>2. DOMAIN pc' = Tasks /\ \A t \in Tasks : pc'[t] \in Places(t)
  BY NextPlaces
<1>3. QED
  BY <1>1, <1>2 DEF Others, TypeOK, Places, Tasks, Vqs

-----------------------------------------------------------------------------
(* The driver's plan.                                                      *)

(* What is still to be written stays the rest of the plan.                 *)
LEMMA NextScripted == IInv /\ [Next]_vars => Scripted'
<1> SUFFICES ASSUME IInv, [Next]_vars PROVE Scripted'
  OBVIOUS
<1>a. /\ Scripted /\ goal \in {"up", "down"}
      /\ write \in Writes /\ script \in Seq(Writes) /\ Len(script) \in Nat
  BY DEF IInv, TypeOK
<1>b. TypeOK /\ None.reg = "none" /\ Ack.reg = "ack" /\ \A q \in Vqs : Notify(q).reg = "notify"
  BY DEF IInv, None, Ack, Notify
<1>c. (write.reg = "none" <=> write = None) /\ (write.reg = "ack" <=> write = Ack)
  BY <1>a, WriteFacts
<1> USE DEF Posting, Done
<1>1. CASE CoreStep
  BY <1>a, <1>b, <1>1, CoreFrame DEF Scripted, driverVars
<1>2. CASE HandleWrite
  <2>1. write' = None /\ UNCHANGED <<script, goal, isr>>
    BY <1>2 DEF HandleWrite, driverVars
  <2>2. Done' \in 0..Total(goal)
    BY <1>a, <1>b, <2>1 DEF Scripted, Total
  <2>3. QED
    BY <1>a, <1>b, <2>1, <2>2 DEF Scripted
<1>3. ASSUME NEW q \in Vqs, Fault(q) PROVE Scripted'
  BY <1>a, <1>3 DEF Fault, Scripted, driverVars
<1>4. CASE Probe
  <2>1. /\ write = None /\ write' = None /\ isr' = isr
        /\ \/ goal' = "up" /\ script' = Append(SetUp, Status(7))
           \/ goal' = "down" /\ script' = SetUp \o TearDown
    BY <1>4 DEF Probe
  <2>2. /\ Len(script') = Total(goal') /\ Total(goal') \in {6, 9}
        /\ \A i \in 1..Len(script') : script'[i] = Planned(goal', i)
    BY <2>1, Plans DEF Total
  <2>3. Done' = 0 /\ Done' \in 0..Total(goal')
    BY <1>b, <2>1, <2>2
  <2>4. ASSUME NEW i \in 1..Len(script')
        PROVE  script'[i] = Planned(goal', Total(goal') - Len(script') + i)
    <3>1. Total(goal') - Len(script') + i = i
      BY <2>2
    <3>2. QED
      BY <2>2, <3>1
  <2>5. write'.reg = "none"
    BY <1>b, <2>1
  <2>6. QED
    BY <2>3, <2>4, <2>5 DEF Scripted
<1>5. CASE Remove
  <2>1. write = None /\ write' = None /\ goal' = "down" /\ script' = TearDown
    BY <1>5 DEF Remove
  <2>2. Len(script') = 4 /\ \A i \in 1..4 : script'[i] = Planned("down", 5 + i)
    BY <2>1, Plans
  <2>3. Total(goal') = 9 /\ Done' = 5 /\ Total(goal') - Len(script') = 5
    BY <1>b, <2>1, <2>2 DEF Total
  <2>4. QED
    BY <1>b, <2>1, <2>2, <2>3 DEF Scripted
<1>6. CASE WriteRegister
  <2>1. /\ script # <<>> /\ write = None /\ write' = Head(script) /\ script' = Tail(script)
        /\ UNCHANGED <<goal, isr>>
    BY <1>6 DEF WriteRegister
  <2>2. /\ Len(script) >= 1 /\ write' = script[1] /\ Len(script') = Len(script) - 1
        /\ \A i \in 1..Len(script') : script'[i] = script[i + 1]
    BY <1>a, <2>1, HeadTailProperties
  <2>3. Done = Total(goal) - Len(script) /\ Total(goal) \in {6, 9}
    BY <1>b, <2>1 DEF Total
  <2>4. /\ Total(goal) - Len(script) + 1 \in 1..Total(goal)
        /\ Total(goal) - Len(script') = Total(goal) - Len(script) + 1
    BY <1>a, <2>2, <2>3 DEF Scripted
  <2>5. write' = Planned(goal, Total(goal) - Len(script'))
    BY <1>a, <2>2, <2>4 DEF Scripted
  <2>6. write'.reg \in {"status", "pfn"}
    BY <1>a, <2>4, <2>5, PlanFacts
  <2>7. Done' = Done
    BY <1>a, <2>1, <2>2, <2>3, <2>6
  <2>8. ASSUME NEW i \in 1..Len(script')
        PROVE  script'[i] = Planned(goal, Total(goal) - Len(script') + i)
    <3>1. i + 1 \in 1..Len(script)
      BY <1>a, <2>2
    <3>2. script'[i] = Planned(goal, Total(goal) - Len(script) + (i + 1))
      BY <1>a, <2>2, <3>1 DEF Scripted
    <3>3. Total(goal) - Len(script) + (i + 1) = Total(goal) - Len(script') + i
      BY <1>a, <2>2, <2>3
    <3>4. QED
      BY <3>2, <3>3
  <2>9. QED
    BY <1>a, <2>1, <2>5, <2>6, <2>7, <2>8 DEF Scripted
<1>7. ASSUME NEW q \in Vqs, NotifyQueue(q) PROVE Scripted'
  <2>1. /\ Up /\ write = None /\ write' = Notify(q) /\ UNCHANGED <<script, goal, isr>>
    BY <1>7 DEF NotifyQueue
  <2>2. goal = "up" /\ script = <<>>
    BY <2>1 DEF Up, Written
  <2>3. QED
    BY <1>a, <1>b, <2>1, <2>2 DEF Scripted
<1>8. CASE PostAck
  BY <1>a, <1>b, <1>8 DEF PostAck, Scripted
<1>9. CASE ScanQueues
  BY <1>a, <1>c, <1>9 DEF ScanQueues, Scripted
<1>10. CASE Interrupted \/ ReadStatus \/ EndInterrupt
  BY <1>a, <1>10 DEF Interrupted, ReadStatus, EndInterrupt, Scripted
<1>11. ASSUME NEW q \in Vqs, Post(q) \/ Poll(q) \/ Recheck(q) PROVE Scripted'
  BY <1>a, <1>11 DEF Post, Poll, Recheck, Scripted
<1>12. CASE UNCHANGED vars
  BY <1>a, <1>12 DEF vars, driverVars, Scripted
<1>13. QED
  BY <1>1, <1>2, <1>3, <1>4, <1>5, <1>6, <1>7, <1>8, <1>9, <1>10, <1>11, <1>12, Steps
  DEF DriverStep

(* A write of the plan is handled: what it does.                           *)
LEMMA Handled ==
  ASSUME IInv, HandleWrite
  PROVE  /\ goal' = goal /\ script' = script /\ write' = None /\ halted' = halted
         /\ (pulled => pulled')
         /\ pc' = pc /\ got' = got /\ ring' = ring /\ seen' = seen
         /\ Posting => Done' = Done + 1
         /\ ~Posting => Done' = Done /\ UNCHANGED <<live, run, link_on, conf_up, vq, sig, pulled>>
         /\ write.reg \in {"status", "pfn"} => note' = note
         /\ write.reg = "status" => HandleStatus(write.val)
         /\ write.reg = "pfn" => /\ IF write.val # 0 THEN InitVq(write.vq) ELSE Exit({write.vq})
                                 /\ UNCHANGED statusVars
<1>1. /\ write' = None /\ UNCHANGED <<goal, script, pc, got, ring, halted, seen>>
      /\ Len(script) \in Nat /\ Total(goal) \in Nat
  BY DEF HandleWrite, driverVars, taskVars, IInv, TypeOK, Total
<1>2. None.reg = "none"
  BY DEF None
<1>3. pulled => pulled'
  BY DEF HandleWrite, HandleStatus, InitVq, Exit
<1>4. /\ Posting => Done' = Done + 1
      /\ ~Posting => Done' = Done
  BY <1>1, <1>2 DEF Posting, Done
<1>5. /\ ~Posting => UNCHANGED <<live, run, link_on, conf_up, vq, sig, pulled>>
      /\ write.reg \in {"status", "pfn"} => note' = note
      /\ write.reg = "status" => HandleStatus(write.val)
      /\ write.reg = "pfn" => /\ IF write.val # 0 THEN InitVq(write.vq) ELSE Exit({write.vq})
                              /\ UNCHANGED statusVars
  BY DEF HandleWrite, Posting, statusVars
<1>6. QED
  BY <1>1, <1>3, <1>4, <1>5

(* The steps of a driver that neither comes up nor goes down.              *)
Holding ==
    \/ WriteRegister
    \/ \E q \in Vqs : Post(q) \/ NotifyQueue(q) \/ Poll(q) \/ Recheck(q)
    \/ Interrupted \/ ReadStatus \/ PostAck \/ ScanQueues \/ EndInterrupt
    \/ UNCHANGED vars

LEMMA DoneKept ==
  ASSUME IInv, CoreStep \/ (\E q \in Vqs : Fault(q)) \/ Holding
  PROVE  goal' = goal /\ Done' = Done
<1>a. /\ Scripted /\ goal \in {"up", "down"}
      /\ script \in Seq(Writes) /\ Len(script) \in Nat /\ Done \in 0..Total(goal)
  BY DEF IInv, TypeOK, Scripted
<1>b. TypeOK /\ None.reg = "none" /\ Ack.reg = "ack" /\ \A q \in Vqs : Notify(q).reg = "notify"
  BY DEF IInv, None, Ack, Notify
<1>1. CASE CoreStep
  BY <1>b, <1>1, CoreFrame DEF Done, Posting, driverVars
<1>2. ASSUME NEW q \in Vqs, Fault(q) PROVE goal' = goal /\ Done' = Done
  BY <1>2 DEF Fault, Done, Posting, driverVars
<1>3. CASE WriteRegister
  <2>1. /\ script # <<>> /\ write = None /\ write' = Head(script) /\ script' = Tail(script)
        /\ goal' = goal
    BY <1>3 DEF WriteRegister
  <2>2. Len(script) >= 1 /\ write' = script[1] /\ Len(script') = Len(script) - 1
    BY <1>a, <2>1, HeadTailProperties
  <2>3. Done = Total(goal) - Len(script) /\ Total(goal) \in {6, 9}
    BY <1>b, <2>1 DEF Total, Done, Posting
  <2>4. write'.reg \in {"status", "pfn"}
    <3>1. /\ Total(goal) - Len(script) + 1 \in 1..Total(goal) /\ 1 \in 1..Len(script)
      BY <1>a, <2>2, <2>3
    <3>2. write' = Planned(goal, Total(goal) - Len(script) + 1)
      BY <1>a, <2>2, <3>1 DEF Scripted
    <3>3. QED
      BY <1>a, <3>1, <3>2, PlanFacts
  <2>5. QED
    BY <1>a, <2>1, <2>2, <2>3, <2>4 DEF Done, Posting
<1>4. ASSUME NEW q \in Vqs, Post(q) \/ NotifyQueue(q) \/ Poll(q) \/ Recheck(q)
      PROVE  goal' = goal /\ Done' = Done
  BY <1>b, <1>4 DEF Post, NotifyQueue, Poll, Recheck, Done, Posting
<1>5. CASE Interrupted \/ ReadStatus \/ PostAck \/ ScanQueues \/ EndInterrupt
  BY <1>b, <1>5 DEF Interrupted, ReadStatus, PostAck, ScanQueues, EndInterrupt, Done, Posting
<1>6. CASE UNCHANGED vars
  BY <1>6 DEF vars, driverVars, Done, Posting
<1>7. QED
  BY <1>1, <1>2, <1>3, <1>4, <1>5, <1>6 DEF Holding

(* Each write of the plan leaves the device as the next one finds it.      *)
LEMMA NextSetUpTo == IInv /\ [Next]_vars => SetUpTo' /\ RunFollowsLive'
<1> SUFFICES ASSUME IInv, [Next]_vars PROVE SetUpTo' /\ RunFollowsLive'
  OBVIOUS
<1>a. /\ SetUpTo /\ RunFollowsLive /\ goal \in {"up", "down"}
      /\ write \in Writes /\ script \in Seq(Writes) /\ Len(script) \in Nat
      /\ Done \in 0..Total(goal)
      /\ vq \in [Vqs -> [enabled : BOOLEAN, last_avail : Nat, last_notified : Nat]]
      /\ \A q \in Vqs : vq[q].enabled \in BOOLEAN
      /\ live \in BOOLEAN /\ Done \in Int
  BY DEF IInv, TypeOK, Scripted, Total
<1>b. TypeOK /\ None.reg = "none" /\ Ack.reg = "ack" /\ \A q \in Vqs : Notify(q).reg = "notify"
  BY DEF IInv, None, Ack, Notify
<1>d. live' \in BOOLEAN /\ run' \in BOOLEAN /\ link_on' \in BOOLEAN
  BY NextTyped DEF TypeOK
<1>c. \A q \in Vqs : Turn(q) \in 3..5
  BY DEF Turn, Vqs
<1>1. CASE CoreStep
  <2>1. /\ UNCHANGED <<live, run, link_on, conf_up, goal, Done>>
        /\ \A q \in Vqs : /\ vq'[q].enabled = vq[q].enabled
                          /\ ~vq[q].enabled => vq'[q] = vq[q]
    BY <1>b, <1>1, CoreFrame, DoneKept DEF statusVars
  <2>2. QED
    BY <1>a, <2>1 DEF SetUpTo, RunFollowsLive
<1>2. CASE HandleWrite
  <2>1. CASE ~Posting
    <3>1. UNCHANGED <<live, run, link_on, conf_up, goal, Done, vq>>
      BY <1>2, <2>1, Handled
    <3>2. QED
      BY <1>a, <3>1 DEF SetUpTo, RunFollowsLive
  <2>2. CASE Posting
    <3>a. /\ Done + 1 \in 1..Total(goal) /\ write = Planned(goal, Done + 1)
          /\ Done' = Done + 1 /\ goal' = goal
      BY <1>2, <2>2, NextOfPlan, Handled
    <3>b. HandleWrite /\ DOMAIN vq = Vqs
      BY <1>a, <1>2
    <3>c. DriverOK(7) /\ ~DriverOK(3) /\ ~DriverOK(0)
      BY DEF DriverOK
    <3>1. CASE Done + 1 \in {1, 2}
      <4>1. /\ write.reg = "status" /\ write.val = IF Done + 1 = 1 THEN 0 ELSE 3
            /\ ~live
        BY <1>a, <3>a, <3>1, PlanFacts DEF SetUpTo, Total
      <4>2. HandleStatus(write.val)
        BY <3>b, <4>1, Handled
      <4>3. /\ ~live' /\ ~run' /\ ~link_on' /\ vq' = vq
            /\ conf_up \/ Done + 1 = 1 => conf_up'
        BY <1>a, <3>c, <3>1, <4>1, <4>2 DEF HandleStatus, HandleDevStatus, Start, Stop, RunFollowsLive
      <4>4. ASSUME NEW q \in Vqs
        PROVE  /\ goal' = "up" \/ Done' <= 5 => (vq'[q].enabled <=> Done' >= Turn(q))
               /\ goal' = "down" /\ Done' >= Turn(q) + 4 => ~vq'[q].enabled
               /\ ~vq'[q].enabled => vq'[q] = NoVq
        BY <1>a, <1>c, <3>a, <3>1, <4>3 DEF SetUpTo
      <4>5. /\ goal' = "up" => (live' <=> Done' = 6) /\ (Done' >= 1 => conf_up')
            /\ goal' = "down" => (live' => Done' = 5)
        BY <1>a, <3>a, <3>1, <4>1, <4>3 DEF SetUpTo, Total
      <4>6. QED
        BY <1>d, <4>3, <4>4, <4>5 DEF SetUpTo, RunFollowsLive
    <3>2. CASE Done + 1 \in 3..5
      <4>1. /\ write.reg = "pfn" /\ write.val = 1 /\ Turn(write.vq) = Done + 1 /\ write.vq \in Vqs
        BY <1>a, <3>a, <3>2, PlanFacts, WriteFacts
      <4>2. InitVq(write.vq) /\ UNCHANGED statusVars
        BY <3>b, <4>1, Handled
      <4>3. /\ \A q \in Vqs : vq'[q].enabled <=> (vq[q].enabled \/ q = write.vq)
            /\ \A q \in Vqs : q # write.vq => vq'[q] = vq[q]
            /\ UNCHANGED <<live, run, link_on, conf_up>>
        BY <1>a, <4>1, <4>2 DEF InitVq, statusVars
      <4>4. \A q \in Vqs : q = write.vq <=> Turn(q) = Done + 1
        BY <4>1 DEF Turn, Vqs
      <4>5. ASSUME NEW q \in Vqs
        PROVE  /\ goal' = "up" \/ Done' <= 5 => (vq'[q].enabled <=> Done' >= Turn(q))
               /\ goal' = "down" /\ Done' >= Turn(q) + 4 => ~vq'[q].enabled
               /\ ~vq'[q].enabled => vq'[q] = NoVq
        <5>1. /\ vq'[q].enabled <=> Done + 1 >= Turn(q)
              /\ goal = "up" \/ Done <= 5
          <6>1. goal = "up" \/ Done <= 5
            BY <1>a, <3>2
          <6>2. vq[q].enabled <=> Done >= Turn(q)
            BY <1>a, <6>1 DEF SetUpTo
          <6>3. vq'[q].enabled <=> (vq[q].enabled \/ Turn(q) = Done + 1)
            BY <1>a, <4>3, <4>4
          <6>4. Done + 1 >= Turn(q) <=> (Done >= Turn(q) \/ Turn(q) = Done + 1)
            BY <1>a, <1>c
          <6>5. QED
            BY <6>1, <6>2, <6>3, <6>4
        <5>2. ~(Done' >= Turn(q) + 4)
          BY <1>c, <1>a, <3>a, <3>2
        <5>3. ~vq'[q].enabled => vq'[q] = NoVq
          BY <1>a, <4>3 DEF SetUpTo
        <5>4. QED
          BY <3>a, <5>1, <5>2, <5>3
      <4>6. /\ goal' = "up" => (live' <=> Done' = 6) /\ (Done' >= 1 => conf_up')
            /\ goal' = "down" => (live' => Done' = 5)
        BY <1>a, <3>a, <3>2, <4>3 DEF SetUpTo, Total
      <4>7. QED
        BY <1>a, <4>3, <4>5, <4>6 DEF SetUpTo, RunFollowsLive
    <3>3. CASE Done + 1 = 6 /\ goal = "up"
      <4>1. write.reg = "status" /\ write.val = 7 /\ ~live /\ conf_up
        BY <1>a, <3>a, <3>3, PlanFacts DEF SetUpTo, Total
      <4>2. HandleStatus(write.val)
        BY <3>b, <4>1, Handled
      <4>3. live' /\ run' /\ link_on' /\ vq' = vq /\ conf_up'
        BY <1>a, <3>c, <4>1, <4>2 DEF HandleStatus, HandleDevStatus, Start, Stop, RunFollowsLive
      <4>4. QED
        BY <1>a, <1>c, <3>a, <3>3, <4>3 DEF SetUpTo, RunFollowsLive, Total
    <3>4. CASE Done + 1 = 6 /\ goal = "down"
      <4>1. write.reg = "status" /\ write.val = 0
        BY <1>a, <3>a, <3>4, PlanFacts DEF Total
      <4>2. HandleStatus(write.val)
        BY <3>b, <4>1, Handled
      <4>3. ~live' /\ ~run' /\ ~link_on'
        BY <1>a, <3>c, <4>1, <4>2 DEF HandleStatus, HandleDevStatus, Start, Stop, RunFollowsLive
      <4>4. vq' = vq \/ \A q \in Vqs : vq'[q] = NoVq
        BY <4>2 DEF HandleStatus, Exit
      <4>5. \A q \in Vqs : ~vq'[q].enabled => vq'[q] = NoVq
        BY <1>a, <4>4 DEF SetUpTo
      <4>6. ~(goal' = "up") /\ ~(Done' <= 5) /\ ~(Done' >= 7)
        BY <1>a, <3>a, <3>4
      <4>7. ASSUME NEW q \in Vqs PROVE Done' >= Turn(q) + 4 => Done' >= 7
        BY <1>a, <1>c, <3>a, <3>4
      <4>8. QED
        BY <1>d, <4>3, <4>5, <4>6, <4>7 DEF SetUpTo, RunFollowsLive
    <3>5. CASE Done + 1 \in 7..9
      <4>1. /\ write.reg = "pfn" /\ write.val = 0 /\ Turn(write.vq) = Done + 1 - 4
            /\ write.vq \in Vqs /\ goal = "down"
        <5>1. goal = "down"
          BY <1>a, <3>a, <3>5 DEF Total
        <5>2. QED
          BY <1>a, <3>a, <3>5, <5>1, PlanFacts, WriteFacts
      <4>2. Exit({write.vq}) /\ UNCHANGED statusVars
        BY <3>b, <4>1, Handled
      <4>3. /\ \A q \in Vqs : vq'[q] = IF q = write.vq THEN NoVq ELSE vq[q]
            /\ UNCHANGED <<live, run, link_on, conf_up>> /\ ~NoVq.enabled
        BY <1>a, <4>1, <4>2 DEF Exit, statusVars, NoVq
      <4>4. \A q \in Vqs : q = write.vq <=> Turn(q) = Done + 1 - 4
        BY <1>a, <4>1 DEF Turn, Vqs
      <4>5. ASSUME NEW q \in Vqs
        PROVE  /\ goal' = "up" \/ Done' <= 5 => (vq'[q].enabled <=> Done' >= Turn(q))
               /\ goal' = "down" /\ Done' >= Turn(q) + 4 => ~vq'[q].enabled
               /\ ~vq'[q].enabled => vq'[q] = NoVq
        BY <1>a, <1>c, <3>a, <3>5, <4>1, <4>3, <4>4, SMTT(40) DEF SetUpTo
      <4>6. /\ goal' = "up" => (live' <=> Done' = 6) /\ (Done' >= 1 => conf_up')
            /\ goal' = "down" => (live' => Done' = 5)
        BY <1>a, <3>a, <3>5, <4>1, <4>3 DEF SetUpTo, Total
      <4>7. QED
        BY <1>a, <4>3, <4>5, <4>6 DEF SetUpTo, RunFollowsLive
    <3>6. QED
      BY <1>a, <3>a, <3>1, <3>2, <3>3, <3>4, <3>5 DEF Total
  <2>3. QED
    BY <2>1, <2>2
<1>3. ASSUME NEW q \in Vqs, Fault(q) PROVE SetUpTo' /\ RunFollowsLive'
  BY <1>a, <1>3, DoneKept DEF Fault, SetUpTo, RunFollowsLive, statusVars
<1>4. CASE Probe
  <2>1. /\ goal = "down" /\ script = <<>> /\ write = None
        /\ UNCHANGED <<live, run, link_on, conf_up, vq, write>>
        /\ \/ goal' = "up" /\ script' = Append(SetUp, Status(7))
           \/ goal' = "down" /\ script' = SetUp \o TearDown
    BY <1>4 DEF Probe, deviceVars, statusVars
  <2>2. Done = 9 /\ Done' = 0
    BY <1>b, <2>1, Plans DEF Done, Posting, Total
  <2>3. QED
    BY <1>a, <1>c, <2>1, <2>2 DEF SetUpTo, RunFollowsLive
<1>5. CASE Remove
  <2>1. /\ Up /\ write = None /\ goal' = "down" /\ script' = TearDown
        /\ UNCHANGED <<live, run, link_on, conf_up, vq, write>>
    BY <1>5 DEF Remove, deviceVars, statusVars
  <2>2. Done' = 5 /\ \A q \in Vqs : vq[q].enabled
    BY <1>b, <2>1, Plans, UpIsDone DEF Done, Posting, Total
  <2>3. QED
    BY <1>a, <1>c, <2>1, <2>2 DEF SetUpTo, RunFollowsLive
<1>6. ASSUME Holding PROVE SetUpTo' /\ RunFollowsLive'
  <2>1. UNCHANGED <<live, run, link_on, conf_up, goal, Done, vq>>
    BY <1>6, DoneKept DEF Holding, WriteRegister, Post, NotifyQueue, Poll, Recheck, Interrupted,
       ReadStatus, PostAck, ScanQueues, EndInterrupt, deviceVars, statusVars, vars
  <2>2. QED
    BY <1>a, <2>1 DEF SetUpTo, RunFollowsLive
<1>7. QED
  BY <1>1, <1>2, <1>3, <1>4, <1>5, <1>6, Steps DEF DriverStep, Holding

-----------------------------------------------------------------------------
(* The queues.                                                             *)

(* Only the device moves used, and only after it took a buffer.            *)
LEMMA NextRings == IInv /\ [Next]_vars => RingsNew'
<1> SUFFICES ASSUME IInv, [Next]_vars PROVE RingsNew'
  OBVIOUS
<1>a. RingsNew /\ TypeOK /\ BuffersCounted /\ Done \in 0..Total(goal) /\ Total(goal) \in {6, 9}
  BY DEF IInv, Scripted, Total
<1>b. /\ ring \in [Vqs -> [avail : Nat, used : Nat, event : Nat]] /\ "rx" \in Vqs
      /\ got \in Nat
  BY <1>a, NetAssumption DEF TypeOK, Vqs
<1>1. CASE CoreStep
  <2>1. UNCHANGED <<goal, Done, pulled>>
    BY <1>a, <1>1, CoreFrame, DoneKept
  <2>2. CASE ring' = ring
    BY <1>a, <2>1, <2>2 DEF RingsNew
  <2>3. ASSUME NEW q \in Vqs, q # "rx", OnCore(UpdateUsedElem(q)) PROVE RingsNew'
    <3>1. pc[q] = "used" /\ vq[q].enabled
      BY <2>3 DEF OnCore, UpdateUsedElem, Uses
    <3>2. ~pulled => ring[q].used + 1 <= ring[q].avail
      BY <1>a, <2>3, <3>1 DEF BuffersCounted, InFlight
    <3>3. ~pulled => ring[q] # NewRing
      BY <1>b, <3>2 DEF NewRing
    <3>4. QED
      BY <1>a, <2>1, <3>3 DEF RingsNew
  <2>4. CASE OnCore(RxUpdate)
    <3>1. /\ pc["rx"] = "update" /\ vq["rx"].enabled
          /\ ring' = [ring EXCEPT !["rx"].used = ring["rx"].used + got]
      BY <2>4 DEF OnCore, RxUpdate, Uses, UpdateUsed
    <3>2. ~pulled => ring["rx"].used + got <= ring["rx"].avail
      BY <1>a, <1>b, <3>1 DEF BuffersCounted, InFlight
    <3>3. ~pulled /\ ring["rx"] = NewRing => got = 0 /\ ring["rx"].used + got = 0
      BY <1>b, <3>2 DEF NewRing
    <3>4. ~pulled /\ ring["rx"] = NewRing => ring' = ring
      BY <1>b, <3>1, <3>3 DEF NewRing
    <3>5. QED
      BY <1>a, <1>b, <2>1, <3>4 DEF RingsNew
  <2>5. QED
    <3>1. \/ ring' = ring
          \/ OnCore(RxUpdate)
          \/ \E q \in Vqs : q # "rx" /\ OnCore(UpdateUsedElem(q))
      BY <1>1 DEF CoreStep, OnCore, ringVars, RxCallback, TxSend, RxCopy, StartTimer, Expire,
         StartTask, GetIovEmpty, WakeUp, GetIovTake, NotifyCheck, TestTimer, PostCommand,
         InterruptFront, KickFront
    <3>2. QED
      BY <2>2, <2>3, <2>4, <3>1
<1>2. CASE HandleWrite
  <2>1. ring' = ring /\ (pulled => pulled') /\ goal' = goal /\ (Done' = Done \/ Done' = Done + 1)
    BY <1>2, Handled
  <2>2. QED
    BY <1>a, <2>1 DEF RingsNew
<1>3. ASSUME NEW q \in Vqs, Fault(q) PROVE RingsNew'
  BY <1>a, <1>3, DoneKept DEF Fault, RingsNew
<1>4. CASE Probe
  BY <1>4 DEF Probe, RingsNew
<1>5. CASE Remove
  <2>1. goal' = "down" /\ Done' = 5
    BY <1>5, Plans DEF Remove, Done, Posting, Total, None
  <2>2. QED
    BY <2>1 DEF RingsNew
<1>6. CASE Holding
  <2>1. goal' = goal /\ Done' = Done
    BY <1>6, DoneKept
  <2>2. CASE Up
    BY <2>1, <2>2, UpIsDone DEF RingsNew
  <2>3. CASE ~Up
    <3>1. ring' = ring /\ pulled' = pulled
      BY <1>6, <2>3 DEF Holding, WriteRegister, Post, NotifyQueue, Poll, Recheck, Interrupted,
         ReadStatus, PostAck, ScanQueues, EndInterrupt, deviceVars, vars
    <3>2. QED
      BY <1>a, <2>1, <3>1 DEF RingsNew
  <2>4. QED
    BY <2>2, <2>3
<1>7. QED
  BY <1>1, <1>2, <1>3, <1>4, <1>5, <1>6, Steps DEF DriverStep, Holding

(* A live device has its queues set up.                                    *)
LEMMA LiveEnabled ==
  ASSUME IInv, live
  PROVE  \A q \in Vqs : vq[q].enabled
<1>1. goal \in {"up", "down"} /\ SetUpTo
  BY DEF IInv, TypeOK
<1>2. QED
  BY <1>1 DEF SetUpTo, Turn

Quiet == ~pulled => \A q \in Vqs : vq[q].enabled \/ ~Busy(q)

(* A step of a task does not make busy the server of a queue not set up.   *)
LEMMA CoreQuiet == ASSUME IInv, CoreStep PROVE Quiet'
<1>a. /\ Quiet /\ DOMAIN pc = Tasks
      /\ vq \in [Vqs -> [enabled : BOOLEAN, last_avail : Nat, last_notified : Nat]]
      /\ sig \in [{"tx", "ctrl"} -> Nat] /\ note \in [{"tx", "ctrl"} -> BOOLEAN]
  BY DEF IInv, TypeOK, NobodyThere, Quiet
<1>b. run => vq["rx"].enabled
  BY LiveEnabled DEF IInv, RunFollowsLive, Vqs
<1>1. CASE OnCore(RxCallback)
  BY <1>a, <1>b, <1>1, Gone DEF OnCore, RxCallback, Uses, Home, Busy, Tasks, Vqs,
     ringVars, Quiet
<1>2. CASE OnCore(TxSend)
  BY <1>a, <1>b, <1>2, Gone DEF OnCore, TxSend, Uses, Home, Busy, Tasks, Vqs,
     ringVars, Quiet
<1>3. CASE OnCore(RxCopy)
  BY <1>a, <1>b, <1>3, Gone DEF OnCore, RxCopy, Uses, Home, Busy, Tasks, Vqs,
     ringVars, Quiet
<1>4. CASE OnCore(RxUpdate)
  BY <1>a, <1>b, <1>4, Gone DEF OnCore, RxUpdate, Uses, Home, Busy, Tasks, Vqs,
     ringVars, Quiet
<1>5. CASE OnCore(StartTimer)
  BY <1>a, <1>5 DEF OnCore, StartTimer, taskVars, ringVars, Busy, Quiet
<1>6. CASE OnCore(Expire)
  BY <1>a, <1>b, <1>6, Gone DEF OnCore, Expire, Uses, Home, Busy, Tasks, Vqs,
     ringVars, Quiet
<1>7. ASSUME NEW q \in Vqs, q # "rx", OnCore(StartTask(q)) PROVE Quiet'
  <2>1. Goto(q, "get") /\ Busy(q) /\ UNCHANGED <<vq, pulled>>
    BY <1>a, <1>7 DEF OnCore, StartTask, Busy, ringVars
  <2>2. \A r \in Vqs : r # q => (Busy(r)' <=> Busy(r))
    BY <1>a, <1>7, <2>1, Gone DEF OnCore, StartTask, Busy, Vqs, Tasks
  <2>3. QED
    BY <1>a, <2>1, <2>2 DEF Quiet
<1>8. ASSUME NEW q \in Vqs, q # "rx", OnCore(GetIovEmpty(q)) PROVE Quiet'
  BY <1>a, <1>b, <1>8, Gone DEF OnCore, GetIovEmpty, Uses, Home, Busy, Tasks, Vqs,
     ringVars, Quiet
<1>9. ASSUME NEW q \in Vqs, q # "rx", OnCore(WakeUp(q)) PROVE Quiet'
  <2>1. Goto(q, "get") /\ Busy(q) /\ UNCHANGED <<vq, pulled>>
    BY <1>a, <1>9 DEF OnCore, WakeUp, Busy, ringVars
  <2>2. \A r \in Vqs : r # q => (Busy(r)' <=> Busy(r))
    BY <1>a, <1>9, <2>1, Gone DEF OnCore, WakeUp, Busy, Vqs, Tasks
  <2>3. QED
    BY <1>a, <2>1, <2>2 DEF Quiet
<1>10. ASSUME NEW q \in Vqs, q # "rx", OnCore(UpdateUsedElem(q)) PROVE Quiet'
  BY <1>a, <1>b, <1>10, Gone DEF OnCore, UpdateUsedElem, Uses, Home, Busy, Tasks, Vqs,
     ringVars, Quiet
<1>11. ASSUME NEW q \in Vqs, OnCore(GetIovTake(q)) PROVE Quiet'
  BY <1>a, <1>b, <1>11, Gone DEF OnCore, GetIovTake, Uses, Home, Busy, Tasks, Vqs,
     ringVars, Quiet
<1>12. ASSUME NEW q \in Vqs, OnCore(NotifyCheck(q)) PROVE Quiet'
  BY <1>a, <1>b, <1>12, Gone DEF OnCore, NotifyCheck, Uses, Home, Busy, Tasks, Vqs,
     ringVars, Quiet
<1>13. ASSUME NEW q \in Vqs, q # "ctrl", OnCore(TestTimer(q)) PROVE Quiet'
  BY <1>a, <1>b, <1>13, Gone DEF OnCore, TestTimer, Uses, Home, Busy, Tasks, Vqs,
     ringVars, Quiet
<1>14. ASSUME NEW q \in Vqs, q # "ctrl", OnCore(PostCommand(q)) PROVE Quiet'
  BY <1>a, <1>b, <1>14, Gone DEF OnCore, PostCommand, Uses, Home, Busy, Tasks, Vqs,
     ringVars, Quiet
<1>15. ASSUME NEW t \in Tasks, OnCore(InterruptFront(t)) PROVE Quiet'
  BY <1>a, <1>b, <1>15, Gone DEF OnCore, InterruptFront, Uses, Home, Busy, Tasks, Vqs,
     ringVars, Quiet
<1>16. ASSUME NEW t \in Tasks, OnCore(KickFront(t)) PROVE Quiet'
  BY <1>a, <1>b, <1>16, Gone DEF OnCore, KickFront, Uses, Home, Busy, Tasks, Vqs,
     ringVars, Quiet
<1>17. QED
  BY <1>1, <1>2, <1>3, <1>4, <1>5, <1>6, <1>7, <1>8, <1>9, <1>10, <1>11, <1>12, <1>13,
  <1>14, <1>15, <1>16 DEF CoreStep

LEMMA NextNobody == IInv /\ [Next]_vars => NobodyThere'
<1> SUFFICES ASSUME IInv, [Next]_vars PROVE NobodyThere'
  OBVIOUS
<1>a. /\ Quiet /\ (halted => pulled) /\ DOMAIN pc = Tasks /\ write \in Writes
      /\ vq \in [Vqs -> [enabled : BOOLEAN, last_avail : Nat, last_notified : Nat]]
      /\ sig \in [{"tx", "ctrl"} -> Nat] /\ note \in [{"tx", "ctrl"} -> BOOLEAN]
  BY DEF IInv, TypeOK, NobodyThere, Quiet
<1>1. CASE CoreStep
  <2>1. TypeOK
    BY DEF IInv
  <2>2. QED
    BY <1>a, <1>1, <2>1, CoreFrame, CoreQuiet DEF NobodyThere, Quiet
<1>2. CASE HandleWrite
  <2>1. pc' = pc /\ halted' = halted /\ (pulled => pulled')
    BY <1>2, Handled
  <2>2. ASSUME NEW Q \in SUBSET Vqs, Exit(Q), note' = note PROVE Quiet'
    <3>1. \A q \in Vqs : /\ Busy(q)' <=> Busy(q)
                         /\ q \notin Q => vq'[q] = vq[q]
                         /\ q \in Q /\ Busy(q) => pulled'
      BY <2>1, <2>2 DEF Exit, Busy
    <3>2. QED
      BY <1>a, <2>1, <3>1 DEF Quiet
  <2>3. CASE write.reg = "status"
    <3>1. Exit(Vqs) \/ UNCHANGED <<vq, sig, pulled>>
      BY <1>2, <2>3 DEF HandleWrite, HandleStatus
    <3>2. note' = note
      BY <1>2, <2>3, Handled
    <3>3. CASE UNCHANGED <<vq, sig, pulled>>
      BY <1>a, <2>1, <3>2, <3>3 DEF Quiet, Busy, NobodyThere
    <3>4. QED
      BY <1>a, <2>1, <2>2, <3>1, <3>2, <3>3 DEF NobodyThere, Quiet
  <2>4. CASE write.reg = "pfn"
    <3>1. /\ Exit({write.vq}) \/ InitVq(write.vq)
          /\ note' = note /\ write.vq \in Vqs /\ {write.vq} \in SUBSET Vqs
      BY <1>a, <1>2, <2>4, Handled, WriteFacts
    <3>2. CASE InitVq(write.vq)
      <4>1. /\ vq'[write.vq].enabled
            /\ \A q \in Vqs : q # write.vq => vq'[q] = vq[q] /\ (Busy(q)' <=> Busy(q))
            /\ pulled' = pulled
        BY <1>a, <2>1, <3>1, <3>2 DEF InitVq, Busy, Vqs
      <4>2. QED
        BY <1>a, <2>1, <4>1 DEF NobodyThere, Quiet
    <3>3. QED
      BY <1>a, <2>1, <2>2, <3>1, <3>2 DEF NobodyThere, Quiet
  <2>5. CASE write.reg = "notify"
    <3>1. Up
      BY <2>5 DEF IInv, Scripted, Up, Written
    <3>2. vq' = vq
      BY <1>2, <2>5, Handled DEF Posting
    <3>3. QED
      BY <1>a, <2>1, <3>1, <3>2, UpIsDone DEF NobodyThere
  <2>6. CASE write.reg \notin {"status", "pfn", "notify"}
    <3>1. UNCHANGED <<vq, sig, pulled, note>>
      BY <1>2, <2>6 DEF HandleWrite
    <3>2. QED
      BY <1>a, <2>1, <3>1 DEF NobodyThere, Quiet, Busy
  <2>7. QED
    BY <2>3, <2>4, <2>5, <2>6
<1>3. ASSUME NEW q \in Vqs, Fault(q) PROVE NobodyThere'
  <2>1. /\ pc[q] \in {"get", "copy", "used", "update", "notify"} /\ ~vq[q].enabled
        /\ UNCHANGED <<pc, sig, note, vq, pulled>>
    BY <1>3 DEF Fault, taskVars
  <2>2. q = "rx" => pc[q] # "used"
    BY PcTyped, <2>1 DEF Places, Tasks, Vqs
  <2>3. Busy(q)
    BY <2>1, <2>2 DEF Busy
  <2>4. QED
    BY <1>a, <2>1, <2>3 DEF NobodyThere, Quiet, Busy
<1>4. CASE Probe \/ Remove \/ Holding
  <2>1. UNCHANGED <<pc, sig, note, vq, pulled, halted>>
    BY <1>4 DEF Probe, Remove, Holding, WriteRegister, Post, NotifyQueue, Poll, Recheck, Interrupted,
       ReadStatus, PostAck, ScanQueues, EndInterrupt, deviceVars, taskVars, vars
  <2>2. QED
    BY <1>a, <2>1 DEF NobodyThere, Quiet, Busy
<1>5. QED
  BY <1>1, <1>2, <1>3, <1>4, Steps DEF DriverStep, Holding

(* A task counts the buffers it takes and uses.                            *)
LEMMA CoreCounted == ASSUME IInv, CoreStep PROVE BuffersCounted'
<1>a. /\ BuffersCounted /\ DOMAIN pc = Tasks
      /\ vq \in [Vqs -> [enabled : BOOLEAN, last_avail : Nat, last_notified : Nat]]
      /\ ring \in [Vqs -> [avail : Nat, used : Nat, event : Nat]]
      /\ got \in Nat
  BY NetAssumption DEF IInv, TypeOK
<1>b. MaxBufs \in Nat \ {0}
  BY NetAssumption
<1>1. CASE OnCore(RxCallback)
  BY <1>a, <1>b, <1>1, Gone DEF OnCore, RxCallback, Uses, Home, InFlight, UpdateUsed, Tasks, Vqs,
     taskVars, ringVars, BuffersCounted
<1>2. CASE OnCore(TxSend)
  BY <1>a, <1>b, <1>2, Gone DEF OnCore, TxSend, Uses, Home, InFlight, UpdateUsed, Tasks, Vqs,
     taskVars, ringVars, BuffersCounted
<1>3. CASE OnCore(RxCopy)
  BY <1>a, <1>b, <1>3, Gone DEF OnCore, RxCopy, Uses, Home, InFlight, UpdateUsed, Tasks, Vqs,
     taskVars, ringVars, BuffersCounted
<1>4. CASE OnCore(RxUpdate)
  BY <1>a, <1>b, <1>4, Gone DEF OnCore, RxUpdate, Uses, Home, InFlight, UpdateUsed, Tasks, Vqs,
     taskVars, ringVars, BuffersCounted
<1>5. CASE OnCore(StartTimer)
  BY <1>a, <1>b, <1>5, Gone DEF OnCore, StartTimer, Uses, Home, InFlight, UpdateUsed, Tasks, Vqs,
     taskVars, ringVars, BuffersCounted
<1>6. CASE OnCore(Expire)
  BY <1>a, <1>b, <1>6, Gone DEF OnCore, Expire, Uses, Home, InFlight, UpdateUsed, Tasks, Vqs,
     taskVars, ringVars, BuffersCounted
<1>7. ASSUME NEW q \in Vqs, q # "rx", OnCore(StartTask(q)) PROVE BuffersCounted'
  BY <1>a, <1>b, <1>7, Gone DEF OnCore, StartTask, Uses, Home, InFlight, UpdateUsed, Tasks, Vqs,
     taskVars, ringVars, BuffersCounted
<1>8. ASSUME NEW q \in Vqs, q # "rx", OnCore(GetIovEmpty(q)) PROVE BuffersCounted'
  BY <1>a, <1>b, <1>8, Gone DEF OnCore, GetIovEmpty, Uses, Home, InFlight, UpdateUsed, Tasks, Vqs,
     taskVars, ringVars, BuffersCounted
<1>9. ASSUME NEW q \in Vqs, q # "rx", OnCore(WakeUp(q)) PROVE BuffersCounted'
  BY <1>a, <1>b, <1>9, Gone DEF OnCore, WakeUp, Uses, Home, InFlight, UpdateUsed, Tasks, Vqs,
     taskVars, ringVars, BuffersCounted
<1>10. ASSUME NEW q \in Vqs, q # "rx", OnCore(UpdateUsedElem(q)) PROVE BuffersCounted'
  BY <1>a, <1>b, <1>10, Gone DEF OnCore, UpdateUsedElem, Uses, Home, InFlight, UpdateUsed, Tasks, Vqs,
     taskVars, ringVars, BuffersCounted
<1>11. ASSUME NEW q \in Vqs, OnCore(GetIovTake(q)) PROVE BuffersCounted'
  BY <1>a, <1>b, <1>11, Gone DEF OnCore, GetIovTake, Uses, Home, InFlight, UpdateUsed, Tasks, Vqs,
     taskVars, ringVars, BuffersCounted
<1>12. ASSUME NEW q \in Vqs, OnCore(NotifyCheck(q)) PROVE BuffersCounted'
  BY <1>a, <1>b, <1>12, Gone DEF OnCore, NotifyCheck, Uses, Home, InFlight, UpdateUsed, Tasks, Vqs,
     taskVars, ringVars, BuffersCounted
<1>13. ASSUME NEW q \in Vqs, q # "ctrl", OnCore(TestTimer(q)) PROVE BuffersCounted'
  BY <1>a, <1>b, <1>13, Gone DEF OnCore, TestTimer, Uses, Home, InFlight, UpdateUsed, Tasks, Vqs,
     taskVars, ringVars, BuffersCounted
<1>14. ASSUME NEW q \in Vqs, q # "ctrl", OnCore(PostCommand(q)) PROVE BuffersCounted'
  BY <1>a, <1>b, <1>14, Gone DEF OnCore, PostCommand, Uses, Home, InFlight, UpdateUsed, Tasks, Vqs,
     taskVars, ringVars, BuffersCounted
<1>15. ASSUME NEW t \in Tasks, OnCore(InterruptFront(t)) PROVE BuffersCounted'
  BY <1>a, <1>b, <1>15, Gone DEF OnCore, InterruptFront, Uses, Home, InFlight, UpdateUsed, Tasks, Vqs,
     taskVars, ringVars, BuffersCounted
<1>16. ASSUME NEW t \in Tasks, OnCore(KickFront(t)) PROVE BuffersCounted'
  BY <1>a, <1>b, <1>16, Gone DEF OnCore, KickFront, Uses, Home, InFlight, UpdateUsed, Tasks, Vqs,
     taskVars, ringVars, BuffersCounted
<1>17. QED
  BY <1>1, <1>2, <1>3, <1>4, <1>5, <1>6, <1>7, <1>8, <1>9, <1>10, <1>11, <1>12, <1>13,
  <1>14, <1>15, <1>16 DEF CoreStep

(* The counts of a queue start afresh when it is set up.                   *)
LEMMA NextCounted == IInv /\ [Next]_vars => BuffersCounted'
<1> SUFFICES ASSUME IInv, [Next]_vars PROVE BuffersCounted'
  OBVIOUS
<1>a. /\ BuffersCounted /\ SetUpTo /\ goal \in {"up", "down"} /\ write \in Writes
      /\ vq \in [Vqs -> [enabled : BOOLEAN, last_avail : Nat, last_notified : Nat]]
      /\ ring \in [Vqs -> [avail : Nat, used : Nat, event : Nat]]
  BY DEF IInv, TypeOK
<1>1. CASE CoreStep
  BY <1>1, CoreCounted
<1>2. CASE HandleWrite
  <2>1. /\ UNCHANGED <<pc, got, ring>> /\ (pulled => pulled')
        /\ \A q \in Vqs : InFlight(q)' = InFlight(q)
    BY <1>2, Handled DEF InFlight
  <2>2. CASE ~Posting
    BY <1>a, <1>2, <2>1, <2>2, Handled DEF BuffersCounted
  <2>3. ASSUME NEW Q \in SUBSET Vqs, Exit(Q) PROVE BuffersCounted'
    <3>1. \A q \in Vqs : vq'[q].enabled => vq'[q] = vq[q]
      BY <2>3 DEF Exit, NoVq
    <3>2. QED
      BY <1>a, <2>1, <3>1 DEF BuffersCounted
  <2>4. CASE write.reg = "status"
    <3>1. Exit(Vqs) \/ vq' = vq
      BY <1>2, <2>4, Handled DEF HandleStatus
    <3>2. CASE vq' = vq
      BY <1>a, <2>1, <3>2 DEF BuffersCounted
    <3>3. QED
      BY <2>3, <3>1, <3>2
  <2>5. CASE write.reg = "pfn"
    <3>1. Posting /\ write.vq \in Vqs /\ write.val \in 0..1 /\ {write.vq} \in SUBSET Vqs
      BY <1>a, <2>5, WriteFacts DEF Posting
    <3>2. CASE write.val = 0
      BY <1>2, <2>3, <2>5, <3>1, <3>2, Handled
    <3>3. CASE write.val = 1
      <4>1. Done + 1 \in 1..Total(goal) /\ write = Planned(goal, Done + 1)
        BY <3>1, NextOfPlan
      <4>2. Done + 1 \in 3..5
        <5>1. \A n \in 1..Total(goal) : n \in {1, 2} \/ n \in 3..5 \/ n = 6 \/ n \in 7..9
          BY <1>a DEF Total
        <5>2. QED
          BY <1>a, <2>5, <3>3, <4>1, <5>1, PlanFacts
      <4>3. /\ \A q \in Vqs : q # write.vq => vq'[q] = vq[q]
            /\ vq'[write.vq] = [vq[write.vq] EXCEPT !.enabled = TRUE]
            /\ pulled' = pulled
        BY <1>a, <1>2, <2>5, <3>1, <3>3, Handled DEF InitVq
      <4>4. CASE vq[write.vq].enabled
        <5>1. vq'[write.vq] = vq[write.vq]
          BY ZenonT(60), <1>a, <3>1, <4>3, <4>4
        <5>2. QED
          BY <1>a, <2>1, <4>3, <5>1 DEF BuffersCounted
      <4>5. CASE ~vq[write.vq].enabled
        <5>1. vq'[write.vq].last_avail = 0 /\ vq'[write.vq].last_notified = 0
          BY <1>a, <3>1, <4>3, <4>5 DEF SetUpTo, NoVq
        <5>2. ~pulled => ring[write.vq].used = 0 /\ ring[write.vq].avail = 0
          <6>1. Done \in Int /\ Done < (IF goal = "up" THEN 6 ELSE 5) /\ RingsNew
            BY <4>2 DEF IInv, Scripted
          <6>2. QED
            BY <3>1, <6>1 DEF RingsNew, NewRing
        <5>3. ~pulled => InFlight(write.vq) = 0
          BY <3>1, <4>5 DEF IInv, NobodyThere, Busy, InFlight, Vqs
        <5>4. QED
          BY <1>a, <2>1, <4>3, <5>1, <5>2, <5>3 DEF BuffersCounted
      <4>6. QED
        BY <4>4, <4>5
    <3>4. QED
      BY <3>1, <3>2, <3>3
  <2>6. QED
    BY <2>2, <2>4, <2>5 DEF Posting
<1>3. ASSUME NEW q \in Vqs, Fault(q) PROVE BuffersCounted'
  BY <1>a, <1>3 DEF Fault, taskVars, BuffersCounted, InFlight
<1>4. CASE Probe
  <2>1. goal = "down" /\ script = <<>> /\ write = None /\ UNCHANGED <<pc, got, vq>>
    BY <1>4 DEF Probe, deviceVars, taskVars
  <2>2. Done = 9
    BY <2>1 DEF Done, Posting, Total, None
  <2>3. \A q \in Vqs : ~vq[q].enabled
    BY <1>a, <2>1, <2>2 DEF SetUpTo, Turn
  <2>4. QED
    BY <1>a, <2>1, <2>3 DEF BuffersCounted
<1>5. ASSUME NEW q \in Vqs, Post(q) PROVE BuffersCounted'
  BY <1>a, <1>5 DEF Post, deviceVars, taskVars, BuffersCounted, InFlight
<1>6. ASSUME NEW q \in Vqs, Poll(q) PROVE BuffersCounted'
  BY <1>a, <1>6 DEF Poll, deviceVars, taskVars, BuffersCounted, InFlight
<1>7. CASE \/ Remove \/ WriteRegister \/ Interrupted \/ ReadStatus \/ PostAck \/ ScanQueues
           \/ EndInterrupt \/ UNCHANGED vars \/ \E q \in Vqs : NotifyQueue(q) \/ Recheck(q)
  <2>1. UNCHANGED <<pc, got, vq, ring, pulled>>
    BY <1>7 DEF Remove, WriteRegister, Interrupted, ReadStatus, PostAck, ScanQueues, EndInterrupt,
       NotifyQueue, Recheck, deviceVars, taskVars, vars
  <2>2. QED
    BY <1>a, <2>1 DEF BuffersCounted, InFlight
<1>8. QED
  BY <1>1, <1>2, <1>3, <1>4, <1>5, <1>6, <1>7, Steps DEF DriverStep

(* The device leaves the driver's indices alone.                           *)
LEMMA CoreEvent ==
  ASSUME IInv, CoreStep, NEW q \in Vqs
  PROVE  ring'[q].event = ring[q].event /\ ring'[q].avail = ring[q].avail
<1>1. ring \in [Vqs -> [avail : Nat, used : Nat, event : Nat]] /\ "rx" \in Vqs
  BY DEF IInv, TypeOK, Vqs
<1>2. ASSUME NEW r \in Vqs, NEW n, UpdateUsed(r, n)
      PROVE  ring'[q].event = ring[q].event /\ ring'[q].avail = ring[q].avail
  BY <1>1, <1>2 DEF UpdateUsed
<1>3. ring' = ring \/ \E r \in Vqs : \E n \in {1, got} : UpdateUsed(r, n)
  BY <1>1 DEF CoreStep, OnCore, ringVars, RxCallback, TxSend, RxCopy, RxUpdate, StartTimer, Expire,
     StartTask, GetIovEmpty, WakeUp, GetIovTake, UpdateUsedElem, NotifyCheck, TestTimer, PostCommand,
     InterruptFront, KickFront
<1>4. QED
  BY <1>1, <1>2, <1>3

(* The driver asks for the buffer after the last one it has seen.          *)
Asked == \A q \in Vqs : seen[q] = ring[q].event

LEMMA NextAsked == IInv /\ [Next]_vars => Asked'
<1> SUFFICES ASSUME IInv, [Next]_vars PROVE Asked'
  OBVIOUS
<1>a. /\ Asked /\ seen \in [Vqs -> Nat]
      /\ ring \in [Vqs -> [avail : Nat, used : Nat, event : Nat]]
  BY DEF IInv, TypeOK, Asked
<1>1. CASE CoreStep
  <2>1. seen' = seen
    BY <1>1, CoreFrame DEF driverVars, IInv
  <2>2. QED
    BY <1>a, <1>1, <2>1, CoreEvent DEF Asked
<1>2. CASE HandleWrite
  BY <1>a, <1>2 DEF HandleWrite, driverVars, Asked
<1>3. ASSUME NEW q \in Vqs, Fault(q) PROVE Asked'
  BY <1>a, <1>3 DEF Fault, driverVars, Asked
<1>4. CASE Probe
  BY <1>4 DEF Probe, NewRing, Asked
<1>5. ASSUME NEW q \in Vqs, Post(q) \/ Poll(q) PROVE Asked'
  BY <1>a, <1>5 DEF Post, Poll, Asked
<1>6. CASE \/ Remove \/ WriteRegister \/ Interrupted \/ ReadStatus \/ PostAck \/ ScanQueues
           \/ EndInterrupt \/ UNCHANGED vars \/ \E q \in Vqs : NotifyQueue(q) \/ Recheck(q)
  <2>1. UNCHANGED <<seen, ring>>
    BY <1>6 DEF Remove, WriteRegister, Interrupted, ReadStatus, PostAck, ScanQueues, EndInterrupt,
       NotifyQueue, Recheck, driverVars, vars
  <2>2. QED
    BY <1>a, <2>1 DEF Asked
<1>7. QED
  BY <1>1, <1>2, <1>3, <1>4, <1>5, <1>6, Steps DEF DriverStep

-----------------------------------------------------------------------------
(* Interrupts.                                                             *)

(* Who will still bring an interrupt goes on until someone else will.      *)
LEMMA CoreHeard ==
  ASSUME IInv, CoreStep, NEW c \in Vqs, Heard(c)
  PROVE  Heard(c)'
<1>a. /\ DOMAIN pc = Tasks /\ Heard(c)
      /\ vq \in [Vqs -> [enabled : BOOLEAN, last_avail : Nat, last_notified : Nat]]
      /\ ring \in [Vqs -> [avail : Nat, used : Nat, event : Nat]]
      /\ TimerLen \in Nat \ {0} /\ cmds \in Nat
      /\ isr' = isr /\ napi' = napi
      /\ {intStatus, rung, missed, active} \subseteq BOOLEAN
  BY SMTT(60), NetAssumption, CoreFrame DEF IInv, TypeOK, driverVars
<1>1. CASE OnCore(RxCallback)
  BY <1>a, <1>1, Gone DEF OnCore, RxCallback, Uses, Home, UpdateUsed, Tasks, Vqs, taskVars,
     timerVars, kickVars, ringVars, Heard, WillSet, Kicking, MustNotify
<1>2. CASE OnCore(TxSend)
  BY <1>a, <1>2, Gone DEF OnCore, TxSend, Uses, Home, UpdateUsed, Tasks, Vqs, taskVars,
     timerVars, kickVars, ringVars, Heard, WillSet, Kicking, MustNotify
<1>3. CASE OnCore(RxCopy)
  BY <1>a, <1>3, Gone DEF OnCore, RxCopy, Uses, Home, UpdateUsed, Tasks, Vqs, taskVars,
     timerVars, kickVars, ringVars, Heard, WillSet, Kicking, MustNotify
<1>4. CASE OnCore(RxUpdate)
  BY <1>a, <1>4, Gone DEF OnCore, RxUpdate, Uses, Home, UpdateUsed, Tasks, Vqs, taskVars,
     timerVars, kickVars, ringVars, Heard, WillSet, Kicking, MustNotify
<1>5. CASE OnCore(StartTimer)
  BY <1>a, <1>5, Gone DEF OnCore, StartTimer, Uses, Home, UpdateUsed, Tasks, Vqs, taskVars,
     timerVars, kickVars, ringVars, Heard, WillSet, Kicking, MustNotify
<1>6. CASE OnCore(Expire)
  BY <1>a, <1>6, Gone DEF OnCore, Expire, Uses, Home, UpdateUsed, Tasks, Vqs, taskVars,
     timerVars, kickVars, ringVars, Heard, WillSet, Kicking, MustNotify
<1>7. ASSUME NEW q \in Vqs, q # "rx", OnCore(StartTask(q)) PROVE Heard(c)'
  BY <1>a, <1>7, Gone DEF OnCore, StartTask, Uses, Home, UpdateUsed, Tasks, Vqs, taskVars,
     timerVars, kickVars, ringVars, Heard, WillSet, Kicking, MustNotify
<1>8. ASSUME NEW q \in Vqs, q # "rx", OnCore(GetIovEmpty(q)) PROVE Heard(c)'
  BY <1>a, <1>8, Gone DEF OnCore, GetIovEmpty, Uses, Home, UpdateUsed, Tasks, Vqs, taskVars,
     timerVars, kickVars, ringVars, Heard, WillSet, Kicking, MustNotify
<1>9. ASSUME NEW q \in Vqs, q # "rx", OnCore(WakeUp(q)) PROVE Heard(c)'
  BY <1>a, <1>9, Gone DEF OnCore, WakeUp, Uses, Home, UpdateUsed, Tasks, Vqs, taskVars,
     timerVars, kickVars, ringVars, Heard, WillSet, Kicking, MustNotify
<1>10. ASSUME NEW q \in Vqs, q # "rx", OnCore(UpdateUsedElem(q)) PROVE Heard(c)'
  BY <1>a, <1>10, Gone DEF OnCore, UpdateUsedElem, Uses, Home, UpdateUsed, Tasks, Vqs, taskVars,
     timerVars, kickVars, ringVars, Heard, WillSet, Kicking, MustNotify
<1>11. ASSUME NEW q \in Vqs, OnCore(GetIovTake(q)) PROVE Heard(c)'
  BY <1>a, <1>11, Gone DEF OnCore, GetIovTake, Uses, Home, UpdateUsed, Tasks, Vqs, taskVars,
     timerVars, kickVars, ringVars, Heard, WillSet, Kicking, MustNotify
<1>12. ASSUME NEW q \in Vqs, OnCore(NotifyCheck(q)) PROVE Heard(c)'
  BY <1>a, <1>12, Gone DEF OnCore, NotifyCheck, Uses, Home, UpdateUsed, Tasks, Vqs, taskVars,
     timerVars, kickVars, ringVars, Heard, WillSet, Kicking, MustNotify
<1>13. ASSUME NEW q \in Vqs, q # "ctrl", OnCore(TestTimer(q)) PROVE Heard(c)'
  BY <1>a, <1>13, Gone DEF OnCore, TestTimer, Uses, Home, UpdateUsed, Tasks, Vqs, taskVars,
     timerVars, kickVars, ringVars, Heard, WillSet, Kicking, MustNotify
<1>14. ASSUME NEW q \in Vqs, q # "ctrl", OnCore(PostCommand(q)) PROVE Heard(c)'
  BY <1>a, <1>14, Gone DEF OnCore, PostCommand, Uses, Home, UpdateUsed, Tasks, Vqs, taskVars,
     timerVars, kickVars, ringVars, Heard, WillSet, Kicking, MustNotify
<1>15. ASSUME NEW t \in Tasks, OnCore(InterruptFront(t)) PROVE Heard(c)'
  BY <1>a, <1>15, Gone DEF OnCore, InterruptFront, Uses, Home, UpdateUsed, Tasks, Vqs, taskVars,
     timerVars, kickVars, ringVars, Heard, WillSet, Kicking, MustNotify
<1>16. ASSUME NEW t \in Tasks, OnCore(KickFront(t)) PROVE Heard(c)'
  BY <1>a, <1>16, Gone DEF OnCore, KickFront, Uses, Home, UpdateUsed, Tasks, Vqs, taskVars,
     timerVars, kickVars, ringVars, Heard, WillSet, Kicking, MustNotify
<1>17. QED
  BY <1>1, <1>2, <1>3, <1>4, <1>5, <1>6, <1>7, <1>8, <1>9, <1>10, <1>11, <1>12, <1>13,
  <1>14, <1>15, <1>16 DEF CoreStep

(* A buffer newly used while none was owed is one its server announces.    *)
LEMMA NewlyUsed ==
  ASSUME IInv, CoreStep, NEW c \in Vqs, vq[c].enabled, ~pulled,
         ~(ring[c].event < ring[c].used), (ring[c].event < ring[c].used)'
  PROVE  (pc[c] = "notify" /\ MustNotify(c))'
<1>a. /\ DOMAIN pc = Tasks
      /\ ring \in [Vqs -> [avail : Nat, used : Nat, event : Nat]]
      /\ vq \in [Vqs -> [enabled : BOOLEAN, last_avail : Nat, last_notified : Nat]]
      /\ vq[c].last_notified <= ring[c].used /\ "rx" \in Vqs /\ Vqs \subseteq Tasks
  BY DEF IInv, TypeOK, BuffersCounted, Vqs, Tasks
<1>b. vq[c].last_notified <= ring[c].event
  BY <1>a
<1>1. \/ ring' = ring
      \/ OnCore(RxUpdate)
      \/ \E q \in Vqs : q # "rx" /\ OnCore(UpdateUsedElem(q))
  BY DEF CoreStep, OnCore, ringVars, RxCallback, TxSend, RxCopy, StartTimer, Expire,
     StartTask, GetIovEmpty, WakeUp, GetIovTake, NotifyCheck, TestTimer, PostCommand,
     InterruptFront, KickFront
<1>2. CASE OnCore(RxUpdate)
  <2>1. c = "rx" /\ Goto("rx", "notify") /\ vq' = vq
    BY <1>a, <1>2 DEF OnCore, RxUpdate, UpdateUsed
  <2>2. ring'[c].event = ring[c].event
    BY CoreEvent
  <2>3. QED
    BY <1>a, <1>b, <2>1, <2>2, Gone DEF MustNotify
<1>3. ASSUME NEW q \in Vqs, OnCore(UpdateUsedElem(q))
      PROVE  (pc[c] = "notify" /\ MustNotify(c))'
  <2>1. c = q /\ Goto(q, "notify") /\ vq' = vq
    BY <1>a, <1>3 DEF OnCore, UpdateUsedElem, UpdateUsed
  <2>2. ring'[c].event = ring[c].event
    BY CoreEvent
  <2>3. QED
    BY <1>a, <1>b, <2>1, <2>2, Gone DEF MustNotify
<1>4. QED
  BY <1>1, <1>2, <1>3

LEMMA NextHeard == IInv /\ [Next]_vars => AllHeard'
<1> SUFFICES ASSUME IInv, [Next]_vars, NEW c \in Vqs,
                    Up', ~pulled', (ring[c].event < ring[c].used)'
             PROVE  Heard(c)'
  BY DEF AllHeard
<1>a. /\ AllHeard /\ goal \in {"up", "down"} /\ write \in Writes
      /\ script \in Seq(Writes) /\ Len(script) \in Nat /\ Done \in 0..Total(goal)
      /\ vq \in [Vqs -> [enabled : BOOLEAN, last_avail : Nat, last_notified : Nat]]
      /\ ring \in [Vqs -> [avail : Nat, used : Nat, event : Nat]]
      /\ seen[c] = ring[c].event
      /\ napi \in [Vqs -> {"off", "poll", "recheck"}]
  BY DEF IInv, TypeOK, Scripted
<1>b. None.reg = "none" /\ Ack.reg = "ack" /\ \A q \in Vqs : Notify(q).reg = "notify"
  BY DEF None, Ack, Notify
<1>1. CASE CoreStep
  <2>1. Up /\ ~pulled /\ TypeOK
    BY <1>1, CoreFrame DEF Up, Written, driverVars, IInv
  <2>2. CASE ring[c].event < ring[c].used
    BY <1>a, <1>1, <2>1, <2>2, CoreHeard DEF AllHeard
  <2>3. CASE ~(ring[c].event < ring[c].used)
    <3>1. vq[c].enabled
      BY <2>1, UpIsDone
    <3>2. (pc[c] = "notify" /\ MustNotify(c))'
      BY <1>1, <2>1, <2>3, <3>1, NewlyUsed
    <3>3. QED
      BY <3>2 DEF Heard
  <2>4. QED
    BY <2>2, <2>3
<1>2. CASE HandleWrite
  <2>1. /\ UNCHANGED <<pc, cmds, active, rung, missed, isr, napi, ring, goal, script>>
        /\ intStatus' = (intStatus /\ write.reg # "ack")
        /\ write # None
    BY <1>2 DEF HandleWrite, taskVars, timerVars, driverVars
  <2>2. goal = "up" /\ script = <<>>
    BY <2>1 DEF Up, Written
  <2>3. CASE write.reg = "ack"
    BY <2>1, <2>3 DEF IInv, Scripted, Heard
  <2>4. CASE write.reg = "notify"
    <3>1. Up /\ UNCHANGED <<vq, pulled>> /\ intStatus' = intStatus
      BY <1>2, <2>1, <2>2, <2>4, Handled, NextTyped DEF Up, Written, Posting, IInv, TypeOK
    <3>2. Heard(c)
      BY <1>a, <2>1, <3>1 DEF AllHeard
    <3>3. QED
      BY <2>1, <3>1, <3>2 DEF Heard, WillSet, Kicking, MustNotify
  <2>5. CASE Posting
    <3>1. Done = 5 /\ ~pulled
      BY <1>a, <1>2, <2>2, <2>5, Handled DEF Done, Total
    <3>2. ring[c] = NewRing
      BY <2>2, <3>1 DEF IInv, RingsNew
    <3>3. QED
      BY <2>1, <3>2 DEF NewRing
  <2>6. QED
    BY <1>a, <2>1, <2>3, <2>4, <2>5, WriteFacts DEF Posting
<1>3. ASSUME NEW q \in Vqs, Fault(q) PROVE Heard(c)'
  <2>1. UNCHANGED <<pc, vq, ring, cmds, active, intStatus, rung, missed, isr, napi, pulled, goal,
                    script, write>>
    BY <1>3 DEF Fault, taskVars, timerVars, kickVars, driverVars
  <2>2. Heard(c)
    BY <1>a, <2>1 DEF AllHeard, Up, Written
  <2>3. QED
    BY <2>1, <2>2 DEF Heard, WillSet, Kicking, MustNotify
<1>4. CASE Probe
  BY <1>4 DEF Probe, NewRing
<1>5. CASE Remove
  BY <1>5 DEF Remove, Up
<1>6. CASE WriteRegister
  <2>1. /\ script # <<>> /\ write = None /\ goal' = goal
    BY <1>6 DEF WriteRegister
  <2>2. Len(script) >= 1 /\ Done = Total(goal) - Len(script) /\ Total(goal) \in {6, 9}
    BY <1>a, <1>b, <2>1, EmptySeq DEF Done, Posting, Total
  <2>3. Done' = Done
    BY <1>6, DoneKept DEF Holding
  <2>4. Done' = Total(goal)
    BY <1>b, <2>1, <2>2 DEF Done, Posting, Up, Written
  <2>5. QED
    BY <1>a, <2>2, <2>3, <2>4
<1>7. ASSUME NEW q \in Vqs, Post(q) PROVE Heard(c)'
  <2>1. /\ Up /\ ring'[c].event = ring[c].event /\ ring'[c].used = ring[c].used
        /\ UNCHANGED <<pc, vq, cmds, active, intStatus, rung, missed, isr, napi, pulled>>
    BY <1>a, <1>7 DEF Post, deviceVars, taskVars, timerVars, kickVars
  <2>2. Heard(c)
    BY <1>a, <2>1 DEF AllHeard
  <2>3. QED
    BY <2>1, <2>2 DEF Heard, WillSet, Kicking, MustNotify
<1>8. ASSUME NEW q \in Vqs, NotifyQueue(q) PROVE Heard(c)'
  <2>1. /\ Up
        /\ UNCHANGED <<ring, pc, vq, cmds, active, intStatus, rung, missed, isr, napi, pulled>>
    BY <1>a, <1>8 DEF NotifyQueue, deviceVars, taskVars, timerVars, kickVars
  <2>2. Heard(c)
    BY <1>a, <2>1 DEF AllHeard
  <2>3. QED
    BY <2>1, <2>2 DEF Heard, WillSet, Kicking, MustNotify
<1>9. ASSUME NEW q \in Vqs, Poll(q) PROVE Heard(c)'
  <2>1. /\ Up /\ q # c
        /\ ring'[c].event = ring[c].event /\ ring'[c].used = ring[c].used /\ napi'[c] = napi[c]
        /\ UNCHANGED <<pc, vq, cmds, active, intStatus, rung, missed, isr, pulled>>
    BY <1>a, <1>9 DEF Poll, deviceVars, taskVars, timerVars, kickVars
  <2>2. Heard(c)
    BY <1>a, <2>1 DEF AllHeard
  <2>3. QED
    BY <2>1, <2>2 DEF Heard, WillSet, Kicking, MustNotify
<1>10. ASSUME NEW q \in Vqs, Recheck(q) PROVE Heard(c)'
  <2>1. /\ Up /\ UNCHANGED <<ring, pc, vq, cmds, active, intStatus, rung, missed, isr, pulled>>
        /\ napi'[c] = IF q # c THEN napi[c] ELSE IF ring[c].used # seen[c] THEN "poll" ELSE "off"
    BY <1>a, <1>10 DEF Recheck, deviceVars, taskVars, timerVars, kickVars
  <2>2. Heard(c) /\ ring[c].used # seen[c]
    BY <1>a, <2>1 DEF AllHeard
  <2>3. napi[c] # "off" => napi'[c] # "off"
    BY <1>a, <2>1, <2>2
  <2>4. QED
    BY <2>1, <2>2, <2>3 DEF Heard, WillSet, Kicking, MustNotify
<1>11. CASE Interrupted \/ ReadStatus \/ PostAck \/ EndInterrupt \/ UNCHANGED vars
  <2>1. /\ UNCHANGED <<ring, pc, vq, cmds, active, intStatus, missed, napi, pulled, goal, script>>
        /\ write' = write \/ write = None
    BY <1>11 DEF Interrupted, ReadStatus, PostAck, EndInterrupt, deviceVars, taskVars,
       timerVars, kickVars, driverVars, vars
  <2>2. Up
    BY <2>1 DEF Up, Written
  <2>3. Heard(c)
    BY <1>a, <2>1, <2>2 DEF AllHeard
  <2>4. CASE Interrupted
    BY <2>1, <2>3, <2>4 DEF Interrupted, Heard, WillSet, Kicking, MustNotify
  <2>5. CASE ReadStatus
    BY <2>1, <2>3, <2>5 DEF ReadStatus, kickVars, Heard, WillSet, Kicking, MustNotify
  <2>6. CASE PostAck
    BY <2>1, <2>3, <2>6 DEF PostAck, Heard
  <2>7. CASE EndInterrupt
    BY <2>1, <2>3, <2>7 DEF EndInterrupt, kickVars, Heard, WillSet, Kicking, MustNotify
  <2>8. CASE UNCHANGED vars
    BY <2>1, <2>3, <2>8 DEF vars, driverVars, kickVars, Heard, WillSet, Kicking, MustNotify
  <2>9. QED
    BY <1>11, <2>4, <2>5, <2>6, <2>7, <2>8
<1>12. CASE ScanQueues
  <2>1. /\ UNCHANGED <<ring, goal, script, write>>
        /\ napi'[c] = IF Up /\ ring[c].used # seen[c] THEN "poll" ELSE napi[c]
    BY <1>12 DEF ScanQueues
  <2>2. Up /\ ring[c].used # seen[c]
    BY <1>a, <2>1 DEF Up, Written
  <2>3. QED
    BY <2>1, <2>2 DEF Heard
<1>13. QED
  BY <1>1, <1>2, <1>3, <1>4, <1>5, <1>6, <1>7, <1>8, <1>9, <1>10, <1>11, <1>12, Steps
  DEF DriverStep

-----------------------------------------------------------------------------
(* The theorems.                                                           *)

LEMMA InitInv == Init => IInv
<1> SUFFICES ASSUME Init PROVE IInv
  OBVIOUS
<1>a. write.reg = "none" /\ Len(script) = 0 /\ Done = 9 /\ goal = "down"
  BY DEF Init, None, Done, Posting, Total
<1>b. None \in Writes /\ <<>> \in Seq(Writes) /\ NetAssumption
  BY NetAssumption DEF Writes
<1>1. TypeOK /\ DOMAIN pc = Tasks
  <2>1. /\ vq \in [Vqs -> [enabled : BOOLEAN, last_avail : Nat, last_notified : Nat]]
        /\ ring \in [Vqs -> [avail : Nat, used : Nat, event : Nat]]
    BY DEF Init, NoVq, NewRing
  <2>2. pc["rx"] = "idle" /\ pc["timer"] = "idle" /\ pc["tx"] = "start" /\ pc["ctrl"] = "start"
    BY DEF Init, Tasks, Vqs
  <2>3. DOMAIN pc = Tasks
    BY DEF Init
  <2>4. got \in 0..MaxBufs /\ cmds \in 0..TimerLen /\ cnt \in [{"rx", "tx"} -> 0..CoalCnt]
    BY <1>b DEF Init, NetAssumption
  <2>5. load \in Loads /\ write \in Writes /\ script \in Seq(Writes)
    BY <1>b DEF Init
  <2>6. QED
    BY <2>1, <2>2, <2>3, <2>4, <2>5 DEF Init, TypeOK
<1>2. Scripted
  BY <1>a DEF Init, Scripted, Total, Posting
<1>3. SetUpTo /\ RunFollowsLive
  <2>1. \A q \in Vqs : vq[q] = NoVq /\ ~NoVq.enabled
    BY DEF Init, NoVq
  <2>2. live = FALSE /\ run = FALSE /\ link_on = FALSE
    BY DEF Init
  <2>3. SetUpTo
    BY <1>a, <2>1, <2>2 DEF SetUpTo
  <2>4. QED
    BY <2>2, <2>3 DEF RunFollowsLive
<1>4. RingsNew /\ \A q \in Vqs : seen[q] = ring[q].event
  BY DEF Init, RingsNew, NewRing
<1>5. NobodyThere
  BY DEF Init, NobodyThere, Busy, Vqs, Tasks
<1>6. BuffersCounted
  BY DEF Init, BuffersCounted, NoVq, Tasks, Vqs
<1>7. AllHeard
  BY <1>a DEF AllHeard, Up
<1>8. QED
  BY <1>1, <1>2, <1>3, <1>4, <1>5, <1>6, <1>7 DEF IInv

(* The inductive invariant holds in every state: what the driver has       *)
(* carried out of its plan is what the device is set up for, nobody uses a *)
(* queue that is not, and the counts of both sides agree.                  *)
THEOREM Invariance == Spec => []IInv
<1>1. Init => IInv
  BY InitInv
<1>2. IInv /\ [Next]_vars => IInv'
  BY NextTyped, NextScripted, NextSetUpTo, NextRings, NextNobody, NextCounted, NextAsked, NextHeard
  DEF IInv, Asked
<1>3. QED
  BY <1>1, <1>2, PTL DEF Spec

(* Every variable keeps its type, and rx_cnt, tx_cnt and the number of     *)
(* buffers of a packet their bounds (network.c).                           *)
THEOREM TypeCorrect == Spec => []TypeOK
<1>1. IInv => TypeOK
  BY DEF IInv
<1>2. QED
  BY <1>1, Invariance, PTL

(* Queues cleared while nobody is busy with them never halt the core       *)
(* (virtio_exit_vq, and the tasks of network.c that wait for their queue). *)
THEOREM ResetsAreSafe == Spec => []QuietResetIsSafe
<1>1. IInv => QuietResetIsSafe
  BY DEF IInv, NobodyThere, QuietResetIsSafe
<1>2. QED
  BY <1>1, Invariance, PTL

(* Whatever was torn down before, the indices of a queue set up stay in    *)
(* order, and the backend runs exactly while the device is live.           *)
THEOREM ProbesAreFresh == Spec => []ProbesStartAfresh
<1>1. ASSUME IInv PROVE ProbesStartAfresh
  <2>1. ASSUME NEW q \in Vqs, vq[q].enabled, ~pulled
        PROVE  /\ ring[q].used <= vq[q].last_avail /\ vq[q].last_avail <= ring[q].avail
               /\ vq[q].last_notified <= ring[q].used
    <3>1. /\ vq[q].last_avail = ring[q].used + InFlight(q)
          /\ vq[q].last_avail <= ring[q].avail /\ vq[q].last_notified <= ring[q].used
      BY <1>1, <2>1 DEF IInv, BuffersCounted
    <3>2. InFlight(q) \in Nat /\ ring[q].used \in Nat
      BY <1>1, NetAssumption DEF IInv, TypeOK, InFlight
    <3>3. QED
      BY <3>1, <3>2
  <2>2. QED
    BY <1>1, <2>1 DEF IInv, ProbesStartAfresh, IndicesInOrder
<1>2. QED
  BY <1>1, Invariance, PTL

(* A used buffer the driver asked to be told about is never forgotten,     *)
(* whatever the tasks, the coalescing timer (network.c) and the driver's   *)
(* interrupt do in between.                                                *)
THEOREM InterruptsAreKept == Spec => []NoLostInterrupt
<1>1. ASSUME IInv PROVE NoLostInterrupt
  <2>1. AllHeard
    BY <1>1 DEF IInv
  <2>2. ASSUME NEW q \in Vqs, Heard(q)
        PROVE  \/ pc[q] = "notify" /\ MustNotify(q)
               \/ WillKick \/ WillLook(q) \/ missed
    BY <2>2 DEF Heard, WillSet, Kicking, WillKick, WillLook
  <2>3. QED
    BY <2>1, <2>2 DEF AllHeard, NoLostInterrupt
<1>2. QED
  BY <1>1, Invariance, PTL

=============================================================================
