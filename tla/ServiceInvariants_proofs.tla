------------------------ MODULE ServiceInvariants_proofs ------------------------
(* What holds in every state of the trans device, of rpmsg_perf, of the    *)
(* SRTM link, of the servo's clock and of the statistics: an inductive     *)
(* invariant of each.                                                      *)
EXTENDS MCServices, SequenceTheorems, FiniteSetTheorems, TLAPS

-----------------------------------------------------------------------------
(* The trans device, for any sessions of the driver in which it sets up    *)
(* the queue of a test before it starts it.                                *)
TransPoints == {"wait", "get", "choose", "notified", "delay", "copy", "check",
           "lock", "send", "give", "end", "report"}
Notification == [reg : {"notify"}, vq : Trans!Dirs]

(* The values of the variables TypeOK does not bound, and the constants.   *)
TransShape ==
    /\ write \in Trans!Writes \cup Notification \cup {Trans!None, Trans!Lost}
    /\ script \in Seq(Trans!Writes) /\ warm \in BOOLEAN /\ block_time \in Nat
    /\ chains \in [Trans!Dirs -> Seq(1..(Width - 1))]
       /\ avail \in [Trans!Dirs -> Seq(1..(Width - 1))]
    /\ due \in [Trans!Dirs -> BOOLEAN] /\ conf \in Trans!Configs /\ regression \in 0..(Width - 1)
    /\ back_poll \in BOOLEAN /\ front_poll \in BOOLEAN
    /\ running \in [Trans!Dirs -> BOOLEAN] /\ count \in [Trans!Dirs -> 0..(Width - 1)]
    /\ on \in [Trans!Dirs -> BOOLEAN] /\ sem \in [Trans!Dirs -> Nat]
       /\ note \in [Trans!Dirs -> BOOLEAN]
    /\ t_pc \in [Trans!Dirs -> TransPoints] /\ left \in [Trans!Dirs -> 0..(Width - 1)]
    /\ hand \in [Trans!Dirs -> 0..(Width - 1)] /\ ret \in [Trans!Dirs -> {"wait", "get", "end",
       "report"}]
    /\ size \in [Trans!Dirs -> 0..(Width - 1)] /\ hurried \in [Trans!Dirs -> BOOLEAN]
    /\ pulled \in BOOLEAN /\ switched \in BOOLEAN /\ split \in BOOLEAN

(* A write is there only when the driver could know of the page.           *)
WritesKnow == write # Trans!None => warm \/ Trans!Up("magic")

(* Where the driver is in its session: the last write of it posted is p,   *)
(* the last one handled h.                                                 *)
WriteRegistered == write \in Trans!Writes
Configured(s, d, p) ==
    \E j \in 1..p :
        /\ s.script[j].reg = "config" /\ d \in s.script[j].val.dirs
        /\ \A m \in (j + 1)..p : s.script[m].reg # "config"
InSession(s, p, h) ==
    /\ p \in 0..Len(s.script) /\ script = SubSeq(s.script, p + 1, Len(s.script))
    /\ WriteRegistered => h = p - 1 /\ h \in Nat /\ write = s.script[p]
    /\ ~WriteRegistered => h = p
    /\ \A d \in conf.dirs : Configured(s, d, p)
    /\ t_fault = "none" /\ write # Trans!Lost => \A d \in Trans!Dirs : Trans!SetUpBefore(s.script,
       d, h + 1) => on[d]
FollowsSession == \E s \in Sessions : \E p, h \in 0..Len(s.script) : InSession(s, p, h)

(* A test has its queue, until a reset pulled one.                         *)
TestsServed == ~pulled => \A d \in Trans!Dirs : Trans!Testing(d) => on[d]

(* The vector is tx_task's from taking a chain to using it.                *)
VectorHeld == t_pc["tx"] = "copy" => iov = "tx"

(* mbox_lock is held by the task that sends.                               *)
HoldsLock(d) == t_pc[d] \in {"send", "give"}
LockHeld ==
    ~split => /\ lock \in {0, 1}
              /\ lock = 1 => ~HoldsLock("rx") /\ ~HoldsLock("tx")
              /\ lock = 0 => (HoldsLock("rx") <=> ~HoldsLock("tx"))

(* A test that was not hurried is the only one, and the driver has not     *)
(* seen its count; nothing is told to stop it.                             *)
Stopping == write.reg = "control" /\ ~write.start
CountKept ==
    \A d \in Trans!Dirs : ~hurried[d] =>
        /\ Trans!Testing(d) => running[d] /\ count[d] = 0 /\ sem[d] <= 1 /\ (sem[d] = 0
           \/ t_pc[d] = "wait")
        /\ t_pc[d] # "wait" => size[d] = regression
        /\ count[d] # 0 => count[d] = size[d]
        /\ Stopping => ~Trans!Unread(d)

TransInv ==
    /\ Trans!TypeOK /\ TransShape /\ Trans!NoFault /\ WritesKnow /\ FollowsSession /\ TestsServed
    /\ VectorHeld /\ LockHeld /\ CountKept

-----------------------------------------------------------------------------
(* Starting up.                                                            *)

BootNames == {"irq", "event", "write_cb", "data", "hdr", "magic", "recv_sig", "send_sig", "rx",
"tx"}

LEMMA OrderOfSteps ==
    /\ Len(Trans!BootOrder) = 10 /\ Trans!BootOrder \in Seq(BootNames)
    /\ \A b \in 1..10 : Trans!BootOrder[b] \in BootNames
    /\ Trans!BootOrder[6] = "magic"
    /\ \A b \in 7..10 : Trans!BootOrder[b] \notin {"data", "hdr"}
<1>1. Len(Trans!BootOrder) = 10 /\ Trans!BootOrder = [b \in 1..10 |-> Trans!BootOrder[b]]
  BY DEF Trans!BootOrder
<1>2. /\ Trans!BootOrder[1] \in BootNames /\ Trans!BootOrder[2] \in BootNames
         /\ Trans!BootOrder[3] \in BootNames
      /\ Trans!BootOrder[4] \in BootNames /\ Trans!BootOrder[5] \in BootNames
         /\ Trans!BootOrder[6] = "magic"
      /\ Trans!BootOrder[7] = "recv_sig" /\ Trans!BootOrder[8] = "send_sig"
      /\ Trans!BootOrder[9] = "rx" /\ Trans!BootOrder[10] = "tx"
  BY DEF Trans!BootOrder, BootNames
<1>3. \A b \in 1..10 : b \in {1, 2, 3, 4, 5, 6, 7, 8, 9, 10}
  OBVIOUS
<1>4. \A b \in 1..10 : Trans!BootOrder[b] \in BootNames
  BY <1>2, <1>3 DEF BootNames
<1>5. [b \in 1..10 |-> Trans!BootOrder[b]] \in Seq(BootNames)
  BY <1>4
<1>6. \A b \in 7..10 : b \in {7, 8, 9, 10}
  OBVIOUS
<1> QED BY <1>1, <1>2, <1>4, <1>5, <1>6

(* What is left of the steps is the end of their order.                    *)
BootRest(b) == SubSeq(Trans!BootOrder, b, 10)
BootRests   ==
    {SubSeq(Trans!BootOrder, b, Len(Trans!BootOrder)) : b \in 1..(Len(Trans!BootOrder) + 1)}

LEMMA RestOfSteps ==
    ASSUME NEW b \in 1..11
    PROVE  /\ BootRest(b) \in Seq(BootNames) /\ Len(BootRest(b)) = 11 - b
           /\ \A k \in 1..(11 - b) : BootRest(b)[k] = Trans!BootOrder[b + k - 1]
<1>1. \A k \in b..10 : Trans!BootOrder[k] \in BootNames
  <2>1. \A k \in b..10 : k \in 1..10
    OBVIOUS
  <2> QED BY <2>1, OrderOfSteps
<1>2. /\ SubSeq(Trans!BootOrder, b, 10) \in Seq(BootNames)
      /\ Len(SubSeq(Trans!BootOrder, b, 10)) = IF b <= 10 THEN 10 - b + 1 ELSE 0
      /\ \A k \in 1..(10 - b + 1) : SubSeq(Trans!BootOrder, b, 10)[k] = Trans!BootOrder[b + k - 1]
  BY <1>1, SubSeqProperties
<1>3. (IF b <= 10 THEN 10 - b + 1 ELSE 0) = 11 - b /\ 10 - b + 1 = 11 - b
  OBVIOUS
<1> QED BY <1>2, <1>3 DEF BootRest

(* virtio_trans_init() does its steps in their order.                      *)
LEMMA BootSteps ==
    ASSUME Trans!TypeOK
    PROVE  /\ Trans!Up("magic") => Trans!Up("data") /\ Trans!Up("hdr")
           /\ Trans!Booted => \A x : Trans!Up(x)
<1>1. PICK b \in 1..11 : t_boot = BootRest(b)
  BY OrderOfSteps DEF Trans!TypeOK, BootRest
<1>2. /\ DOMAIN t_boot = 1..(11 - b)
      /\ \A k \in 1..(11 - b) : t_boot[k] = Trans!BootOrder[b + k - 1]
  <2>1. t_boot \in Seq(BootNames) /\ Len(t_boot) = 11 - b
    BY <1>1, RestOfSteps
  <2>2. DOMAIN t_boot = 1..(11 - b)
    BY <2>1
  <2>3. \A k \in 1..(11 - b) : BootRest(b)[k] = Trans!BootOrder[b + k - 1]
    BY RestOfSteps
  <2> QED BY <2>2, <2>3, <1>1
<1>3. ASSUME Trans!Up("magic") PROVE b > 6
  <2>1. CASE b <= 6
    <3>1. 7 - b \in DOMAIN t_boot /\ t_boot[7 - b] = Trans!BootOrder[6]
      BY <1>2, <2>1
    <3> QED BY <3>1, OrderOfSteps, <1>3 DEF Trans!Up
  <2> QED BY <2>1
<1>4. ASSUME b > 6, NEW k \in DOMAIN t_boot PROVE t_boot[k] # "data" /\ t_boot[k] # "hdr"
  <2>1. b + k - 1 \in 7..10 /\ t_boot[k] = Trans!BootOrder[b + k - 1]
    BY <1>2, <1>4
  <2> QED BY <2>1, OrderOfSteps
<1> QED BY <1>3, <1>4 DEF Trans!Up, Trans!Booted

LEMMA BootGoesOn ==
    ASSUME Trans!TypeOK, Trans!Boot
    PROVE  /\ t_boot' \in BootRests
           /\ \A x : Trans!Up(x) => Trans!Up(x)'
<1>1. PICK b \in 1..11 : t_boot = BootRest(b)
  BY OrderOfSteps DEF Trans!TypeOK, BootRest
<1>2. /\ t_boot \in Seq(BootNames) /\ Len(t_boot) = 11 - b /\ t_boot # <<>>
         /\ t_boot' = Tail(t_boot)
  BY <1>1, RestOfSteps DEF Trans!Boot, Trans!Booted
<1>3. b <= 10
  <2>1. CASE b = 11
    <3>1. t_boot = <<>>
      BY <1>2, <2>1
    <3> QED BY <3>1, <1>2
  <2> QED BY <2>1
<1>4. t_boot' = BootRest(b + 1)
  <2>1. Tail(SubSeq(Trans!BootOrder, b, 10)) = SubSeq(Trans!BootOrder, b + 1, 10)
    BY <1>3, HeadTailOfSubSeq, OrderOfSteps
  <2> QED BY <2>1, <1>1, <1>2 DEF BootRest
<1>5. \A k \in DOMAIN t_boot' : k + 1 \in DOMAIN t_boot /\ t_boot'[k] = t_boot[k + 1]
  BY <1>2
<1>6. \A x : Trans!Up(x) => Trans!Up(x)'
  BY <1>5 DEF Trans!Up
<1>7. b + 1 \in 1..11
  BY <1>3
<1>8. t_boot' \in {BootRest(j) : j \in 1..11}
  BY <1>4, <1>7
<1> QED BY <1>6, <1>8, OrderOfSteps DEF BootRest, BootRests

-----------------------------------------------------------------------------
(* A write is handled in one of three ways.                                *)
LEMMA WriteHandled ==
    ASSUME Trans!HandleWrite, TransShape
    PROVE  /\ t_fault = "none" /\ write # Trans!None /\ write # Trans!Lost
           /\ UNCHANGED <<t_boot, Trans!driver, Trans!work, size, hurried, split>>
           /\ \/ write' = Trans!Lost /\ UNCHANGED <<t_fault, Trans!modes, count, avail, sem, note,
                 pulled, switched>>
              \/ write' = Trans!None /\ ~(Trans!Up("data") /\ Trans!Up("hdr"))
                 /\ Trans!Crash("transport")
              \/ write' = Trans!None /\ Trans!Dispatch(write)
BY DEF Trans!HandleWrite

-----------------------------------------------------------------------------
(* The state keeps its shape.                                              *)

LEMMA Subtraction ==
    ASSUME Width \in Nat \ {0}, NEW a \in 0..(Width - 1), NEW b \in 0..(Width - 1)
    PROVE  Trans!Minus(a, b) \in 0..(Width - 1)
BY DEF Trans!Minus

LEMMA TransInitShape ==
    ASSUME Trans!TransAssumption, Trans!Init
    PROVE  Trans!TypeOK /\ TransShape
<1>1. PICK s \in Sessions : Trans!InitWith(s)
  BY DEF Trans!Init
<1>2. /\ Width \in Nat /\ Width > 0 /\ s.warm \in BOOLEAN /\ s.block_time \in Nat
      /\ s.script \in Seq(Trans!Writes) /\ s.chains \in [Trans!Dirs -> Seq(1..(Width - 1))]
  BY DEF Trans!TransAssumption
<1>3. TransShape
  <2>1. <<>> \in Seq(1..(Width - 1)) /\ 0 \in 0..(Width - 1) /\ Trans!NoConf \in Trans!Configs
    BY <1>2 DEF Trans!NoConf, Trans!Configs
  <2> QED BY <1>1, <1>2, <2>1 DEF Trans!InitWith, TransShape, TransPoints
<1>4. t_boot \in BootRests
  <2>1. CASE t_boot = Trans!BootOrder
    <3>1. Trans!BootOrder = SubSeq(Trans!BootOrder, 1, Len(Trans!BootOrder))
      BY OrderOfSteps, SubSeqFull
    <3>2. 1 \in 1..(Len(Trans!BootOrder) + 1)
      BY OrderOfSteps
    <3> QED BY <2>1, <3>1, <3>2 DEF BootRests
  <2>2. CASE t_boot = <<>>
    <3>1. <<>> = SubSeq(Trans!BootOrder, 11, 10)
      BY SubSeqEmpty
    <3>2. 11 \in 1..(Len(Trans!BootOrder) + 1) /\ Len(Trans!BootOrder) = 10
      BY OrderOfSteps
    <3> QED BY <2>2, <3>1, <3>2 DEF BootRests
  <2> QED BY <2>1, <2>2, <1>1 DEF Trans!InitWith, BootRests
<1> QED BY <1>1, <1>3, <1>4 DEF BootRests, Trans!TypeOK, Trans!InitWith, TransShape, TransPoints

(* What TypeOK says besides Shape.                                         *)
LEMMA TypeFromShape ==
    ASSUME TransShape', Trans!TypeOK,
           UNCHANGED t_boot \/ t_boot' \in BootRests,
           UNCHANGED t_fault \/ t_fault' \in {"none", "transport", "device", "queue"},
           UNCHANGED iov \/ iov' \in Trans!Dirs \cup {Trans!Nobody},
           UNCHANGED lock \/ lock' \in Nat
    PROVE  Trans!TypeOK'
BY DEF BootRests, Trans!TypeOK, TransShape, TransPoints

LEMMA DispatchShape ==
    ASSUME Trans!TransAssumption, Trans!TypeOK, TransShape, Trans!HandleWrite, Trans!Dispatch(write)
    PROVE  /\ t_fault' \in {"none", "device"}
           /\ back_poll' \in BOOLEAN /\ front_poll' \in BOOLEAN
           /\ running' \in [Trans!Dirs -> BOOLEAN] /\ count' \in [Trans!Dirs -> 0..(Width - 1)]
           /\ on' \in [Trans!Dirs -> BOOLEAN] /\ sem' \in [Trans!Dirs -> Nat]
              /\ note' \in [Trans!Dirs -> BOOLEAN]
           /\ avail' \in [Trans!Dirs -> Seq(1..(Width - 1))]
           /\ pulled' \in BOOLEAN /\ switched' \in BOOLEAN
<1>1. CASE write.reg = "pfn" /\ Trans!SetQueues({write.vq}, write.up)
  <2>1. on' \in [Trans!Dirs -> BOOLEAN]
    <3>1. write.up \in BOOLEAN
      BY <1>1 DEF TransShape, Trans!HandleWrite, Trans!Writes, Notification, Trans!None, Trans!Lost
    <3> QED BY <1>1, <3>1 DEF Trans!SetQueues, TransShape
  <2>2. avail' \in [Trans!Dirs -> Seq(1..(Width - 1))]
    <3>1. <<>> \in Seq(1..(Width - 1))
      OBVIOUS
    <3> QED BY <1>1, <3>1 DEF Trans!SetQueues, TransShape
  <2> QED BY <1>1, <2>1, <2>2 DEF Trans!SetQueues, TransShape, Trans!HandleWrite, Trans!TypeOK,
      Trans!Testing
<1>2. CASE write.reg = "reset" /\ Trans!SetQueues(Trans!Dirs, FALSE)
  BY <1>2 DEF Trans!SetQueues, TransShape, Trans!modes, Trans!HandleWrite, Trans!TypeOK,
     Trans!Testing
<1>3. CASE write.reg = "config" /\ Trans!Configure
  <2>1. conf.back_poll \in BOOLEAN /\ conf.front_poll \in BOOLEAN
    BY DEF TransShape, Trans!Configs
  <2> QED BY <1>3, <2>1 DEF Trans!Configure, TransShape, Trans!HandleWrite, Trans!TypeOK,
      Trans!Testing
<1>4. CASE write.reg = "control" /\ write.start /\ Trans!Start
  <2>1. CASE Trans!Crash("device")
    BY <2>1, <1>4 DEF Trans!Crash, Trans!modes, TransShape
  <2>2. CASE ~Trans!Crash("device")
    <3>1. 0 \in 0..(Width - 1)
      BY DEF Trans!TransAssumption
    <3>2. running' \in [Trans!Dirs -> BOOLEAN] /\ count' \in [Trans!Dirs -> 0..(Width - 1)]
      BY <1>4, <2>2, <3>1 DEF Trans!Start, TransShape
    <3>3. sem' \in [Trans!Dirs -> Nat]
      <4>1. sem \in [Trans!Dirs -> Nat] /\ \A d \in Trans!Dirs : sem[d] + 1 \in Nat
        BY DEF TransShape
      <4>2. sem' = [d \in Trans!Dirs |-> IF d \in Trans!Started THEN sem[d] + 1 ELSE sem[d]]
        BY <1>4, <2>2 DEF Trans!Start
      <4> QED BY <4>1, <4>2
    <3> QED BY <1>4, <2>2, <3>2, <3>3 DEF Trans!Start, TransShape, Trans!HandleWrite
  <2> QED BY <2>1, <2>2
<1>5. CASE write.reg = "control" /\ ~write.start /\ Trans!Stop
  BY <1>5 DEF Trans!Stop, TransShape, Trans!modes, Trans!HandleWrite, Trans!TypeOK
<1>6. CASE write.reg = "notify" /\ Trans!NotifyVq(write.vq)
  BY <1>6 DEF Trans!NotifyVq, Trans!Notifies, Trans!Crash, TransShape, Trans!modes,
     Trans!HandleWrite, Trans!TypeOK
<1>7. CASE write.reg = "regression" /\ UNCHANGED <<t_fault, Trans!modes, count, avail, sem, note,
           pulled, switched>>
  BY <1>7 DEF TransShape, Trans!modes, Trans!HandleWrite, Trans!TypeOK
<1> QED BY <1>1, <1>2, <1>3, <1>4, <1>5, <1>6, <1>7 DEF Trans!Dispatch

LEMMA TransTypesKept ==
    ASSUME Trans!TransAssumption, Trans!TypeOK, TransShape, [Trans!Next]_transVars
    PROVE  Trans!TypeOK' /\ TransShape'
<1> USE DEF transVars, Trans!driver, Trans!modes, Trans!work, Trans!history
<1>0. Width \in Nat /\ Width > 0
  BY DEF Trans!TransAssumption
<1>1. CASE Trans!Boot
  <2>1. TransShape'
    BY <1>1 DEF Trans!Boot, TransShape
  <2> QED BY <1>1, <2>1, BootGoesOn DEF BootRests, Trans!Boot, Trans!TypeOK
<1>2. CASE Trans!NextWrite
  <2>1. Head(script) \in Trans!Writes /\ Tail(script) \in Seq(Trans!Writes)
    BY <1>2 DEF Trans!NextWrite, TransShape
  <2>2. /\ Head(script).reg = "config" => Head(script).val \in Trans!Configs
        /\ Head(script).reg = "regression" => Head(script).val \in 0..(Width - 1)
    BY <2>1 DEF Trans!Writes
  <2>3. conf' \in Trans!Configs /\ regression' \in 0..(Width - 1)
        /\ hurried' \in [Trans!Dirs -> BOOLEAN]
    BY <1>2, <2>2 DEF Trans!NextWrite, Trans!PostWrite, TransShape, Trans!Unread
  <2>4. TransShape'
    BY <1>2, <2>1, <2>3 DEF Trans!NextWrite, Trans!PostWrite, TransShape
  <2> QED BY <1>2, <2>4 DEF Trans!NextWrite, Trans!PostWrite, Trans!TypeOK
<1>3. CASE Trans!HandleWrite
  <2>1. CASE write' = Trans!Lost /\ UNCHANGED <<t_fault, Trans!modes, count, avail, sem, note,
             pulled, switched>>
    BY <1>3, <2>1 DEF Trans!HandleWrite, TransShape, Trans!TypeOK
  <2>2. CASE write' = Trans!None /\ Trans!Crash("transport")
    BY <1>3, <2>2 DEF Trans!HandleWrite, Trans!Crash, TransShape, Trans!TypeOK
  <2>3. CASE write' = Trans!None /\ Trans!Dispatch(write)
    <3>1. TransShape'
      BY <1>3, <2>3, DispatchShape DEF Trans!HandleWrite, TransShape
    <3> QED BY <1>3, <3>1, <2>3, DispatchShape DEF Trans!HandleWrite, Trans!TypeOK, TransShape
  <2> QED BY <1>3, <2>1, <2>2, <2>3, WriteHandled
<1>4. ASSUME NEW d \in Trans!Dirs, Trans!NotifyQueue(d) PROVE Trans!TypeOK' /\ TransShape'
  <2>1. [reg |-> "notify", vq |-> d] \in Notification
    BY DEF Notification
  <2>2. conf' = conf /\ regression' = regression /\ hurried' = hurried
    BY <1>4 DEF Trans!NotifyQueue, Trans!PostWrite
  <2>3. TransShape'
    BY <1>4, <2>1, <2>2 DEF Trans!NotifyQueue, Trans!PostWrite, TransShape
  <2> QED BY <1>4, <2>3 DEF Trans!NotifyQueue, Trans!PostWrite, Trans!TypeOK
<1>5. ASSUME NEW d \in Trans!Dirs, Trans!Provide(d) PROVE Trans!TypeOK' /\ TransShape'
  <2>1. Head(chains[d]) \in 1..(Width - 1) /\ Tail(chains[d]) \in Seq(1..(Width - 1))
    <3>1. chains[d] \in Seq(1..(Width - 1)) /\ chains[d] # <<>>
      BY <1>5 DEF Trans!Provide, TransShape
    <3> QED BY <3>1, HeadTailProperties
  <2>2. Append(avail[d], Head(chains[d])) \in Seq(1..(Width - 1))
    BY <2>1 DEF TransShape
  <2>3. TransShape'
    BY <1>5, <2>1, <2>2 DEF Trans!Provide, TransShape
  <2> QED BY <1>5, <2>3, TypeFromShape DEF Trans!Provide
<1>6. ASSUME NEW d \in Trans!Dirs, Trans!Task(d) PROVE Trans!TypeOK' /\ TransShape'
  <2> USE DEF Trans!Goto
  <2>1. CASE Trans!BeginTest(d)
    <3>2. TransShape'
      BY <2>1, <1>0 DEF Trans!BeginTest, TransShape, TransPoints
    <3> QED BY <2>1, <3>2, TypeFromShape DEF Trans!BeginTest, Trans!TypeOK
  <2>2. CASE Trans!UseNowhere(d)
    <3>2. TransShape'
      BY <2>2 DEF Trans!UseNowhere, TransShape, TransPoints
    <3> QED BY <2>2, <3>2, TypeFromShape DEF Trans!UseNowhere, Trans!TypeOK
  <2>3. CASE Trans!GetEmpty(d)
    <3>2. TransShape'
      BY <2>3 DEF Trans!GetEmpty, TransShape, TransPoints
    <3> QED BY <2>3, <3>2, TypeFromShape DEF Trans!GetEmpty, Trans!TypeOK
  <2>4. CASE Trans!GetChain(d)
    <3>1. Head(avail[d]) \in 0..(Width - 1) /\ Tail(avail[d]) \in Seq(1..(Width - 1))
      <4>1. avail[d] \in Seq(1..(Width - 1)) /\ avail[d] # <<>>
        BY <2>4 DEF Trans!GetChain, TransShape
      <4>2. Head(avail[d]) \in 1..(Width - 1) /\ Tail(avail[d]) \in Seq(1..(Width - 1))
        BY <4>1, HeadTailProperties
      <4> QED BY <4>2, <1>0
    <3>2. TransShape'
      BY <2>4, <3>1 DEF Trans!GetChain, TransShape, TransPoints
    <3> QED BY <2>4, <3>2, TypeFromShape DEF Trans!GetChain, Trans!TypeOK
  <2>5. CASE Trans!ChooseWait(d)
    <3>2. TransShape'
      BY <2>5 DEF Trans!ChooseWait, TransShape, TransPoints
    <3> QED BY <2>5, <3>2, TypeFromShape DEF Trans!ChooseWait, Trans!TypeOK
  <2>6. CASE Trans!WakeUp(d)
    <3>2. TransShape'
      BY ZenonT(60), <2>6 DEF Trans!WakeUp, TransShape, TransPoints
    <3> QED BY <2>6, <3>2, TypeFromShape DEF Trans!WakeUp, Trans!TypeOK
  <2>7. CASE Trans!Use(d)
    <3>1. Trans!Minus(left[d], hand[d]) \in 0..(Width - 1) /\ 0 \in 0..(Width - 1)
      BY <1>0, Subtraction DEF TransShape
    <3>2. TransShape'
      BY <2>7, <3>1 DEF Trans!Use, TransShape, TransPoints
    <3> QED BY <2>7, <3>2, TypeFromShape DEF Trans!Use, Trans!TypeOK
  <2>8. CASE Trans!Check(d)
    <3>2. TransShape'
      BY ZenonT(60), <2>8 DEF Trans!Check, TransShape, TransPoints
    <3> QED BY <2>8, <3>2, TypeFromShape DEF Trans!Check, Trans!TypeOK
  <2>9. CASE Trans!LastKick(d)
    <3>2. TransShape'
      BY ZenonT(60), <2>9 DEF Trans!LastKick, TransShape, TransPoints
    <3> QED BY <2>9, <3>2, TypeFromShape DEF Trans!LastKick, Trans!TypeOK
  <2>10. CASE Trans!Report(d)
    <3>2. TransShape'
      BY <2>10 DEF Trans!Report, TransShape, TransPoints
    <3> QED BY <2>10, <3>2, TypeFromShape DEF Trans!Report, Trans!TypeOK
  <2>11. CASE Trans!TakeLock(d)
    <3>2. TransShape'
      BY <2>11 DEF Trans!TakeLock, TransShape, TransPoints
    <3> QED BY <2>11, <3>2, TypeFromShape DEF Trans!TakeLock, Trans!TypeOK
  <2>12. CASE Trans!Send(d)
    <3>2. TransShape'
      BY <2>12 DEF Trans!Send, TransShape, TransPoints
    <3> QED BY <2>12, <3>2, TypeFromShape DEF Trans!Send, Trans!TypeOK
  <2>13. CASE Trans!GiveLock(d)
    <3>2. TransShape'
      BY <2>13 DEF Trans!GiveLock, TransShape, TransPoints
    <3> QED BY <2>13, <3>2, TypeFromShape DEF Trans!GiveLock, Trans!TypeOK
  <2> QED BY <1>6, <2>1, <2>2, <2>3, <2>4, <2>5, <2>6, <2>7, <2>8, <2>9, <2>10, <2>11, <2>12, <2>13
          DEF Trans!Task
<1>7. CASE UNCHANGED transVars
  BY SMTT(60), <1>7 DEF TransShape, Trans!TypeOK
<1> QED BY <1>1, <1>2, <1>3, <1>4, <1>5, <1>6, <1>7 DEF Trans!Next

-----------------------------------------------------------------------------
(* The driver knows of the page before it writes, and a device that is not *)
(* set up faults only then.                                                *)

LEMMA KnowledgeKept ==
    ASSUME Trans!TypeOK, WritesKnow, [Trans!Next]_transVars
    PROVE  WritesKnow'
<1> USE DEF transVars, Trans!driver, Trans!modes, Trans!work, Trans!history, WritesKnow
<1>1. CASE Trans!Boot
  BY <1>1, BootGoesOn DEF Trans!Boot
<1>2. CASE Trans!NextWrite
  BY <1>2 DEF Trans!NextWrite, Trans!PostWrite, Trans!Up
<1>3. CASE Trans!HandleWrite
  BY <1>3 DEF Trans!HandleWrite, Trans!Up
<1>4. ASSUME NEW d \in Trans!Dirs, Trans!NotifyQueue(d) PROVE WritesKnow'
  BY <1>4 DEF Trans!NotifyQueue, Trans!PostWrite, Trans!Up
<1>5. ASSUME NEW d \in Trans!Dirs, Trans!Provide(d) PROVE WritesKnow'
  BY <1>5 DEF Trans!Provide, Trans!Up
<1>6. ASSUME NEW d \in Trans!Dirs, Trans!Task(d) PROVE UNCHANGED <<t_boot, write, warm>>
  BY <1>6 DEF Trans!Task, Trans!BeginTest, Trans!UseNowhere, Trans!GetEmpty, Trans!GetChain,
     Trans!ChooseWait, Trans!WakeUp, Trans!Use, Trans!Check,
      Trans!LastKick, Trans!Report, Trans!TakeLock, Trans!Send, Trans!GiveLock
<1>7. CASE UNCHANGED transVars
  BY <1>7 DEF Trans!Up
<1> QED BY <1>1, <1>2, <1>3, <1>4, <1>5, <1>6, <1>7 DEF Trans!Next, Trans!Up

LEMMA TransFaultsExplained ==
    ASSUME Trans!TypeOK, TransShape, WritesKnow, TestsServed, Trans!NoFault, [Trans!Next]_transVars
    PROVE  Trans!NoFault'
<1> USE DEF transVars, Trans!driver, Trans!modes, Trans!work, Trans!history, Trans!NoFault
<1>1. CASE Trans!Boot
  BY <1>1 DEF Trans!Boot
<1>2. CASE Trans!NextWrite
  BY <1>2 DEF Trans!NextWrite, Trans!Booted
<1>3. CASE Trans!HandleWrite
  <2>0. t_boot' = t_boot /\ warm' = warm /\ t_fault = "none"
    BY <1>3 DEF Trans!HandleWrite
  <2>1. CASE UNCHANGED <<t_fault, Trans!modes, count, avail, sem, note, pulled, switched>>
    BY <2>0, <2>1
  <2>2. CASE ~(Trans!Up("data") /\ Trans!Up("hdr")) /\ Trans!Crash("transport")
    <3>1. warm
      BY <1>3, <2>2, BootSteps DEF WritesKnow, Trans!HandleWrite
    <3> QED BY <2>0, <2>2, <3>1 DEF Trans!Crash
  <2>3. CASE Trans!Dispatch(write)
    <3>1. CASE UNCHANGED t_fault
      BY <2>0, <3>1
    <3>2. CASE Trans!Start /\ Trans!Crash("device")
      <4>1. ~Trans!Booted
        BY <3>2, BootSteps DEF Trans!Start, Trans!Crash, Trans!Started, Trans!Up, Trans!Booted
      <4> QED BY <2>0, <3>2, <4>1 DEF Trans!Crash, Trans!Booted
    <3>3. ASSUME NEW d, Trans!NotifyVq(d), ~UNCHANGED t_fault PROVE Trans!NoFault'
      <4>1. ~Trans!Booted /\ t_fault' = "device"
        BY <3>3, BootSteps DEF Trans!NotifyVq, Trans!Crash
      <4> QED BY <2>0, <4>1 DEF Trans!Booted
    <3> QED BY <2>3, <3>1, <3>2, <3>3 DEF Trans!Dispatch, Trans!SetQueues, Trans!Configure,
        Trans!Start, Trans!Stop
  <2> QED BY <1>3, <2>1, <2>2, <2>3, WriteHandled
<1>4. ASSUME NEW d \in Trans!Dirs, Trans!NotifyQueue(d) PROVE Trans!NoFault'
  BY <1>4 DEF Trans!NotifyQueue, Trans!Booted
<1>5. ASSUME NEW d \in Trans!Dirs, Trans!Provide(d) PROVE Trans!NoFault'
  BY <1>5 DEF Trans!Provide, Trans!Booted
<1>6. ASSUME NEW d \in Trans!Dirs, Trans!Task(d) PROVE Trans!NoFault'
  <2>1. CASE Trans!UseNowhere(d)
    <3>1. pulled \/ on[d]
      BY <2>1 DEF Trans!UseNowhere, TestsServed, Trans!Testing
    <3> QED BY <2>1, <3>1 DEF Trans!UseNowhere
  <2>2. CASE ~Trans!UseNowhere(d)
    <3>1. UNCHANGED <<t_boot, t_fault, warm, pulled>>
      BY <1>6, <2>2 DEF Trans!Task, Trans!BeginTest, Trans!GetEmpty, Trans!GetChain,
         Trans!ChooseWait, Trans!WakeUp, Trans!Use, Trans!Check,
          Trans!LastKick, Trans!Report, Trans!TakeLock, Trans!Send, Trans!GiveLock
    <3> QED BY <3>1 DEF Trans!Booted
  <2> QED BY <2>1, <2>2
<1>7. CASE UNCHANGED transVars
  BY <1>7 DEF Trans!Booted
<1> QED BY <1>1, <1>2, <1>3, <1>4, <1>5, <1>6, <1>7 DEF Trans!Next

-----------------------------------------------------------------------------
(* The vector and the lock.                                                *)

LEMMA VectorKept ==
    ASSUME TransShape, VectorHeld, [Trans!Next]_transVars
    PROVE  VectorHeld'
<1> USE DEF transVars, Trans!driver, Trans!modes, Trans!work, Trans!history, VectorHeld
<1>1. CASE UNCHANGED <<t_pc, iov>>
  BY <1>1
<1>2. ASSUME NEW d \in Trans!Dirs, Trans!Task(d) PROVE VectorHeld'
  <2>0. d \in {"rx", "tx"} /\ t_pc \in [{"rx", "tx"} -> TransPoints]
    BY DEF Trans!Dirs, TransShape
  <2>1. CASE Trans!GetChain(d)
    <3>1. d = "rx" => t_pc["tx"] # "copy"
      BY <2>1 DEF Trans!GetChain, Trans!Runs, Trans!Ready
    <3>2. iov' = d /\ t_pc' = [t_pc EXCEPT ![d] = "copy"]
      BY <2>1 DEF Trans!GetChain, Trans!Goto
    <3> QED BY <2>0, <3>1, <3>2
  <2>2. CASE Trans!Use(d)
    <3>1. t_pc' = [t_pc EXCEPT ![d] = "check"] /\ iov' = IF iov = d THEN Trans!Nobody ELSE iov
      BY <2>2 DEF Trans!Use, Trans!Goto
    <3> QED BY <2>0, <3>1
  <2>3. CASE ~Trans!GetChain(d) /\ ~Trans!Use(d)
    <3>1. iov' = iov /\ \A e \in Trans!Dirs : t_pc'[e] = "copy" => t_pc[e] = "copy"
      BY <1>2, <2>0, <2>3 DEF Trans!Task, Trans!BeginTest, Trans!UseNowhere, Trans!GetEmpty,
         Trans!ChooseWait, Trans!WakeUp, Trans!Check,
          Trans!LastKick, Trans!Report, Trans!TakeLock, Trans!Send, Trans!GiveLock, Trans!Goto,
          TransShape, Trans!Dirs
    <3> QED BY <3>1 DEF Trans!Dirs
  <2> QED BY <2>1, <2>2, <2>3
<1> QED
  <2>1. [Trans!Next]_transVars => UNCHANGED <<t_pc, iov>> \/ \E d \in Trans!Dirs : Trans!Task(d)
    BY DEF Trans!Next, Trans!Boot, Trans!NextWrite, Trans!HandleWrite, Trans!NotifyQueue,
       Trans!Provide
  <2> QED BY <2>1, <1>1, <1>2

LEMMA LockKept ==
    ASSUME TransShape, LockHeld, [Trans!Next]_transVars
    PROVE  LockHeld'
<1> USE DEF transVars, Trans!driver, Trans!modes, Trans!work, Trans!history, LockHeld, HoldsLock
<1>0. t_pc \in [{"rx", "tx"} -> TransPoints] /\ ret \in [Trans!Dirs -> {"wait", "get", "end",
      "report"}]
  BY DEF Trans!Dirs, TransShape
<1>1. CASE UNCHANGED <<t_pc, lock, split>>
  BY <1>1
<1>2. ASSUME NEW d \in Trans!Dirs, Trans!Task(d) PROVE LockHeld'
  <2>0. d \in {"rx", "tx"}
    BY DEF Trans!Dirs
  <2>1. CASE Trans!TakeLock(d)
    <3>1. /\ t_pc' = [t_pc EXCEPT ![d] = "send"] /\ t_pc[d] = "lock"
          /\ lock' = IF lock > 0 THEN lock - 1 ELSE lock
          /\ split' = (split \/ lock = 0)
      BY <2>1 DEF Trans!TakeLock, Trans!Goto
    <3>2. CASE split' = TRUE
      BY <3>2
    <3>3. CASE ~split' /\ lock = 1
      <4>1. lock' = 0
        BY <3>1, <3>3
      <4>2. t_pc["rx"] \notin {"send", "give"} /\ t_pc["tx"] \notin {"send", "give"}
        BY <3>1, <3>3
      <4>3. CASE d = "rx"
        BY <1>0, <3>1, <4>1, <4>2, <4>3
      <4>4. CASE d = "tx"
        BY <1>0, <3>1, <4>1, <4>2, <4>4
      <4> QED BY <2>0, <4>3, <4>4
    <3>4. ~split' => lock = 1
      <4>1. ~split' => ~split /\ lock # 0
        BY <3>1
      <4> QED BY <4>1
    <3> QED BY <3>2, <3>3, <3>4
  <2>2. CASE Trans!Send(d)
    <3>1. t_pc' = [t_pc EXCEPT ![d] = "give"] /\ t_pc[d] = "send" /\ UNCHANGED <<lock, split>>
      BY <2>2 DEF Trans!Send, Trans!Goto
    <3> QED BY <1>0, <2>0, <3>1
  <2>3. CASE Trans!GiveLock(d)
    <3>1. t_pc' = [t_pc EXCEPT ![d] = ret[d]] /\ t_pc[d] = "give" /\ lock' = lock + 1
          /\ split' = split
      BY <2>3 DEF Trans!GiveLock, Trans!Goto
    <3>2. ret[d] \notin {"send", "give"}
      BY <1>0
    <3> QED BY <1>0, <2>0, <3>1, <3>2
  <2>4. CASE ~Trans!TakeLock(d) /\ ~Trans!Send(d) /\ ~Trans!GiveLock(d)
    <3>1. /\ UNCHANGED <<lock, split>>
          /\ \A e \in Trans!Dirs : HoldsLock(e)' <=> HoldsLock(e)
      BY <1>2, <1>0, <2>0, <2>4 DEF Trans!Task, Trans!BeginTest, Trans!UseNowhere, Trans!GetEmpty,
         Trans!GetChain, Trans!ChooseWait,
          Trans!WakeUp, Trans!Use, Trans!Check, Trans!LastKick, Trans!Report, Trans!Goto, Trans!Dirs
    <3> QED BY <3>1 DEF Trans!Dirs
  <2> QED BY <2>1, <2>2, <2>3, <2>4
<1> QED
  <2>1. [Trans!Next]_transVars => UNCHANGED <<t_pc, lock, split>>
        \/ \E d \in Trans!Dirs : Trans!Task(d)
    BY DEF Trans!Next, Trans!Boot, Trans!NextWrite, Trans!HandleWrite, Trans!NotifyQueue,
       Trans!Provide
  <2> QED BY <2>1, <1>1, <1>2

-----------------------------------------------------------------------------
(* The driver's session, and the queue of a test.                          *)

LEMMA SessionBegins ==
    ASSUME Trans!TransAssumption, Trans!Init
    PROVE  FollowsSession
<1>1. PICK s \in Sessions : Trans!InitWith(s)
  BY DEF Trans!Init
<1>2. s.script \in Seq(Trans!Writes) /\ Len(s.script) \in Nat
  BY DEF Trans!TransAssumption
<1>3. SubSeq(s.script, 1, Len(s.script)) = s.script
  BY <1>2, SubSeqFull
<1>4. ~WriteRegistered /\ conf.dirs = {}
  BY <1>1 DEF Trans!InitWith, WriteRegistered, Trans!Writes, Trans!None, Trans!NoConf
<1>5. \A d \in Trans!Dirs : ~Trans!SetUpBefore(s.script, d, 0 + 1)
  BY DEF Trans!SetUpBefore
<1>6. InSession(s, 0, 0)
  BY <1>1, <1>2, <1>3, <1>4, <1>5 DEF InSession, Trans!InitWith
<1> QED BY <1>2, <1>6 DEF FollowsSession

(* Once a write is handled, the queues are as the session has them.        *)
LEMMA SetUpGoesOn ==
    ASSUME NEW script_, NEW d, NEW p \in Nat, p > 0, Trans!SetUpBefore(script_, d, p + 1)
    PROVE  \/ script_[p].reg = "pfn" /\ script_[p].vq = d /\ script_[p].up
           \/ Trans!SetUpBefore(script_, d, p) /\ ~Trans!Clears(script_[p], d)
<1>1. PICK k \in 1..p :
        /\ script_[k].reg = "pfn" /\ script_[k].vq = d /\ script_[k].up
        /\ \A m \in (k + 1)..p : ~Trans!Clears(script_[m], d)
  BY DEF Trans!SetUpBefore
<1>2. CASE k = p
  BY <1>1, <1>2
<1>3. CASE k < p
  <2>1. k \in 1..(p - 1) /\ p \in (k + 1)..p /\ \A m \in (k + 1)..(p - 1) : m \in (k + 1)..p
    BY <1>3
  <2> QED BY <1>1, <2>1 DEF Trans!SetUpBefore
<1> QED BY <1>2, <1>3

LEMMA ConfiguredGoesOn ==
    ASSUME NEW s, NEW d, NEW p \in Nat, Configured(s, d, p), s.script[p + 1].reg # "config"
    PROVE  Configured(s, d, p + 1)
<1>1. PICK j \in 1..p :
        /\ s.script[j].reg = "config" /\ d \in s.script[j].val.dirs
        /\ \A m \in (j + 1)..p : s.script[m].reg # "config"
  BY DEF Configured
<1>2. \A m \in (j + 1)..(p + 1) : m \in (j + 1)..p \/ m = p + 1
  OBVIOUS
<1>3. j \in 1..(p + 1)
  OBVIOUS
<1> QED BY <1>1, <1>2, <1>3 DEF Configured

(* A start that is handled finds the queues of its test set up.            *)
LEMMA StartFindsQueues ==
    ASSUME Trans!TransAssumption, TransShape, FollowsSession, t_fault = "none",
           write.reg = "control", write.start, write # Trans!Lost,
           NEW d \in conf.dirs
    PROVE  on[d]
<1>0. PICK s \in Sessions : \E p, h \in 0..Len(s.script) : InSession(s, p, h)
  BY DEF FollowsSession
<1>1. PICK p \in 0..Len(s.script), h \in 0..Len(s.script) : InSession(s, p, h)
  BY <1>0
<1>2. WriteRegistered
  BY DEF WriteRegistered, TransShape, Notification, Trans!None, Trans!Lost
<1>3. d \in Trans!Dirs
  BY DEF TransShape, Trans!Configs
<1>4. s.script \in Seq(Trans!Writes) /\ h = p - 1 /\ h \in Nat /\ p \in 0..Len(s.script)
      /\ write = s.script[p]
  BY <1>1, <1>2 DEF InSession, Trans!TransAssumption
<1>5. PICK j \in 1..p :
        /\ s.script[j].reg = "config" /\ d \in s.script[j].val.dirs
        /\ \A m \in (j + 1)..p : s.script[m].reg # "config"
  BY <1>1 DEF InSession, Configured
<1>6. j # p
  BY <1>4, <1>5
<1>7. j \in 1..(p - 1) /\ \A m \in (j + 1)..(p - 1) : m \in (j + 1)..p
  BY <1>4, <1>6
<1>8. Trans!Starts(s.script, d, p)
  BY <1>4, <1>5, <1>7 DEF Trans!Starts
<1>9. p \in DOMAIN s.script
  BY <1>4
<1>10. Trans!SetUpBefore(s.script, d, p)
  BY <1>3, <1>8, <1>9 DEF Trans!TransAssumption
<1> QED BY <1>1, <1>3, <1>4, <1>10 DEF InSession

(* What the driver writes next, and what becomes of it.                    *)
LEMMA SessionGoesOn ==
    ASSUME Trans!TransAssumption, Trans!TypeOK, TransShape, FollowsSession, Trans!NextWrite
    PROVE  FollowsSession'
<1>0. PICK s \in Sessions : \E p, h \in 0..Len(s.script) : InSession(s, p, h)
  BY DEF FollowsSession
<1>1. PICK p \in 0..Len(s.script), h \in 0..Len(s.script) : InSession(s, p, h)
  BY <1>0
<1>2. s.script \in Seq(Trans!Writes) /\ p \in Nat /\ Len(s.script) \in Nat
  BY DEF Trans!TransAssumption
<1>3. /\ script = SubSeq(s.script, p + 1, Len(s.script)) /\ script # <<>>
      /\ write = Trans!None /\ write' = Head(script) /\ script' = Tail(script)
      /\ t_fault' = t_fault /\ on' = on
  BY <1>1 DEF InSession, Trans!NextWrite, Trans!PostWrite, Trans!modes
<1>4. ~WriteRegistered /\ h = p
  BY <1>1, <1>3 DEF InSession, WriteRegistered, Trans!Writes, Trans!None
<1>5. p < Len(s.script)
  <2>1. CASE p = Len(s.script)
    <3>1. SubSeq(s.script, p + 1, Len(s.script)) = <<>>
      BY <1>2, <2>1, SubSeqEmpty
    <3> QED BY <1>3, <3>1
  <2> QED BY <1>2, <2>1
<1>6. p + 1 \in 1..Len(s.script) /\ Len(s.script) \in (p + 1)..Len(s.script)
  BY <1>2, <1>5
<1>7. Head(script) = s.script[p + 1] /\ Tail(script) = SubSeq(s.script, (p + 1) + 1, Len(s.script))
  BY <1>2, <1>3, <1>6, HeadTailOfSubSeq
<1>8. write' \in Trans!Writes /\ write' = s.script[p + 1]
  BY <1>2, <1>3, <1>6, <1>7
<1>9. \A d \in conf'.dirs : Configured(s, d, p + 1)
  <2>1. CASE write'.reg = "config"
    <3>1. conf' = write'.val
      BY <2>1, <1>3 DEF Trans!NextWrite, Trans!PostWrite
    <3>2. ASSUME NEW d \in conf'.dirs PROVE Configured(s, d, p + 1)
      <4>1. p + 1 \in 1..(p + 1) /\ \A m \in ((p + 1) + 1)..(p + 1) : FALSE
        BY <1>2
      <4> QED BY <4>1, <3>1, <3>2, <2>1, <1>8 DEF Configured
    <3> QED BY <3>2
  <2>2. CASE write'.reg # "config"
    <3>1. conf' = conf
      BY <2>2, <1>3 DEF Trans!NextWrite, Trans!PostWrite
    <3>2. ASSUME NEW d \in conf.dirs PROVE Configured(s, d, p + 1)
      BY <1>1, <1>2, <1>8, <2>2, ConfiguredGoesOn DEF InSession
    <3> QED BY <3>1, <3>2
  <2> QED BY <2>1, <2>2
<1>10. t_fault' = "none" /\ write' # Trans!Lost
       => \A d \in Trans!Dirs : Trans!SetUpBefore(s.script, d, p + 1) => on'[d]
  <2>1. write # Trans!Lost
    BY <1>3 DEF Trans!None, Trans!Lost
  <2> QED BY <1>1, <1>3, <1>4, <2>1 DEF InSession
<1>11. InSession(s, p + 1, p)'
  <2>1. p = (p + 1) - 1 /\ p + 1 \in 0..Len(s.script)
    BY <1>2, <1>6
  <2> QED BY <1>2, <1>3, <1>7, <1>8, <1>9, <1>10, <2>1 DEF InSession, WriteRegistered
<1>12. p + 1 \in 0..Len(s.script)
  BY <1>2, <1>6
<1> QED BY <1>11, <1>12 DEF FollowsSession

LEMMA SessionHandled ==
    ASSUME Trans!TransAssumption, Trans!TypeOK, TransShape, FollowsSession, Trans!HandleWrite
    PROVE  FollowsSession'
<1>0. PICK s \in Sessions : \E p, h \in 0..Len(s.script) : InSession(s, p, h)
  BY DEF FollowsSession
<1>1. PICK p \in 0..Len(s.script), h \in 0..Len(s.script) : InSession(s, p, h)
  BY <1>0
<1>2. s.script \in Seq(Trans!Writes) /\ p \in Nat /\ h \in Nat
  BY DEF Trans!TransAssumption
<1>3. /\ UNCHANGED <<script, conf>> /\ write # Trans!None /\ write # Trans!Lost /\ t_fault = "none"
  BY WriteHandled DEF Trans!driver
<1>4. ~WriteRegistered' /\ write' \in {Trans!None, Trans!Lost}
  BY WriteHandled DEF WriteRegistered, Trans!Writes, Trans!None, Trans!Lost
<1>5. ASSUME t_fault' = "none", write' # Trans!Lost, NEW d \in Trans!Dirs,
      Trans!SetUpBefore(s.script, d, p + 1)
      PROVE  on'[d]
  <2>1. write' = Trans!None /\ Trans!Dispatch(write)
    BY <1>5, WriteHandled DEF Trans!Crash
  <2>2. CASE WriteRegistered
    <3>1. p > 0 /\ write = s.script[p] /\ h = p - 1 /\ h + 1 = p
      BY <1>1, <1>2, <2>2 DEF InSession
    <3>2. Trans!SetUpBefore(s.script, d, p) => on[d]
      BY <1>1, <1>3, <3>1 DEF InSession
    <3>3. CASE write.reg = "pfn" /\ write.vq = d /\ write.up
      BY <2>1, <3>3 DEF Trans!Dispatch, Trans!SetQueues
    <3>4. CASE Trans!SetUpBefore(s.script, d, p) /\ ~Trans!Clears(write, d)
      <4>1. on[d]
        BY <3>2, <3>4
      <4>2. CASE write.reg = "pfn" /\ Trans!SetQueues({write.vq}, write.up)
        BY <4>1, <4>2, <3>4 DEF Trans!SetQueues, Trans!Clears
      <4>3. CASE write.reg = "reset"
        BY <4>3, <3>4 DEF Trans!Clears
      <4>4. CASE UNCHANGED on
        BY <4>1, <4>4
      <4> QED BY <2>1, <4>2, <4>3, <4>4 DEF Trans!Dispatch, Trans!Configure, Trans!Start,
          Trans!Stop, Trans!NotifyVq, Trans!Crash, Trans!modes
    <3> QED BY <3>1, <3>3, <3>4, <1>2, <1>5, SetUpGoesOn
  <2>3. CASE ~WriteRegistered
    <3>1. h = p
      BY <1>1, <2>3 DEF InSession
    <3>2. on[d]
      BY <1>1, <1>3, <1>5, <3>1 DEF InSession
    <3>3. write.reg = "notify"
      BY <1>3, <2>3 DEF WriteRegistered, TransShape, Notification
    <3>4. on' = on
      BY <2>1, <3>3 DEF Trans!Dispatch, Trans!NotifyVq, Trans!Crash, Trans!modes
    <3> QED BY <3>2, <3>4
  <2> QED BY <2>2, <2>3
<1>6. InSession(s, p, p)'
  BY <1>1, <1>3, <1>4, <1>5 DEF InSession
<1> QED BY <1>6 DEF FollowsSession

LEMMA SessionKept ==
    ASSUME Trans!TransAssumption, Trans!TypeOK, TransShape, FollowsSession, [Trans!Next]_transVars
    PROVE  FollowsSession'
<1> USE DEF transVars, Trans!driver, Trans!modes, Trans!work, Trans!history
<1>1. CASE UNCHANGED <<script, write, conf, on, t_fault>>
  BY ZenonT(60), <1>1 DEF FollowsSession, InSession, WriteRegistered
<1>2. ASSUME NEW d \in Trans!Dirs, Trans!NotifyQueue(d) PROVE FollowsSession'
  <2>1. /\ write = Trans!None /\ write' = [reg |-> "notify", vq |-> d]
        /\ UNCHANGED <<script, conf, on, t_fault>>
    BY <1>2 DEF Trans!NotifyQueue, Trans!PostWrite
  <2>2. ~WriteRegistered /\ ~WriteRegistered' /\ write # Trans!Lost
    BY <2>1 DEF WriteRegistered, Trans!Writes, Trans!None, Trans!Lost
  <2> QED BY <2>1, <2>2 DEF FollowsSession, InSession
<1>3. ASSUME NEW d \in Trans!Dirs, Trans!UseNowhere(d) PROVE FollowsSession'
  <2>1. UNCHANGED <<script, write, conf, on>> /\ t_fault' # "none"
    BY <1>3 DEF Trans!UseNowhere
  <2> QED BY <2>1 DEF FollowsSession, InSession, WriteRegistered
<1> QED
  <2>1. \/ UNCHANGED <<script, write, conf, on, t_fault>> \/ Trans!NextWrite \/ Trans!HandleWrite
        \/ \E d \in Trans!Dirs : Trans!NotifyQueue(d) \/ Trans!UseNowhere(d)
    BY DEF Trans!Next, Trans!Boot, Trans!Provide, Trans!Task, Trans!BeginTest, Trans!GetEmpty,
       Trans!GetChain, Trans!ChooseWait, Trans!WakeUp, Trans!Use, Trans!Check,
        Trans!LastKick, Trans!Report, Trans!TakeLock, Trans!Send, Trans!GiveLock
  <2> QED BY <2>1, <1>1, <1>2, <1>3, SessionGoesOn, SessionHandled

LEMMA ServedKept ==
    ASSUME Trans!TransAssumption, Trans!TypeOK, TransShape, FollowsSession, TestsServed,
    [Trans!Next]_transVars
    PROVE  TestsServed'
<1> USE DEF transVars, Trans!driver, Trans!modes, Trans!work, Trans!history
<1>1. CASE UNCHANGED <<on, sem, t_pc>> /\ (pulled => pulled')
  BY <1>1 DEF TestsServed, Trans!Testing
<1>2. CASE Trans!HandleWrite /\ Trans!Dispatch(write)
  <2>0. UNCHANGED t_pc
    BY <1>2 DEF Trans!HandleWrite
  <2>1. CASE write.reg = "pfn" /\ Trans!SetQueues({write.vq}, write.up)
    <3>1. write.up \in BOOLEAN
      BY <2>1, <1>2 DEF TransShape, Trans!HandleWrite, Trans!Writes, Notification, Trans!None,
         Trans!Lost
    <3> QED BY <2>0, <2>1, <3>1 DEF Trans!SetQueues, TestsServed, Trans!Testing
  <2>2. CASE write.reg = "reset" /\ Trans!SetQueues(Trans!Dirs, FALSE)
    BY <2>0, <2>2 DEF Trans!SetQueues, TestsServed, Trans!Testing
  <2>3. CASE write.reg = "control" /\ write.start /\ Trans!Start
    <3>1. CASE Trans!Crash("device")
      BY <2>0, <3>1 DEF Trans!Crash, TestsServed, Trans!Testing
    <3>2. CASE ~Trans!Crash("device")
      <4>1. /\ sem' = [d \in Trans!Dirs |-> IF d \in Trans!Started THEN sem[d] + 1 ELSE sem[d]]
            /\ UNCHANGED <<on, pulled>>
        BY <2>3, <3>2 DEF Trans!Start
      <4>2. t_fault = "none" /\ write # Trans!Lost
        BY <1>2 DEF Trans!HandleWrite
      <4>3. \A d \in Trans!Started : on[d]
        BY <2>3, <4>2, StartFindsQueues DEF Trans!Started
      <4>4. \A d \in Trans!Dirs : d \notin Trans!Started => sem'[d] = sem[d]
        BY <4>1
      <4> QED BY <2>0, <4>1, <4>3, <4>4 DEF TestsServed, Trans!Testing
    <3> QED BY <3>1, <3>2
  <2>4. CASE UNCHANGED <<on, sem, pulled>>
    BY <2>0, <2>4 DEF TestsServed, Trans!Testing
  <2> QED BY <1>2, <2>1, <2>2, <2>3, <2>4 DEF Trans!Dispatch, Trans!Configure, Trans!Stop,
      Trans!NotifyVq, Trans!Crash
<1>3. ASSUME NEW d \in Trans!Dirs, Trans!Task(d) PROVE TestsServed'
  <2>1. UNCHANGED <<on, pulled>>
    BY <1>3 DEF Trans!Task, Trans!BeginTest, Trans!UseNowhere, Trans!GetEmpty, Trans!GetChain,
       Trans!ChooseWait, Trans!WakeUp, Trans!Use, Trans!Check,
        Trans!LastKick, Trans!Report, Trans!TakeLock, Trans!Send, Trans!GiveLock
  <2>2. ASSUME NEW e \in Trans!Dirs, Trans!Testing(e)' PROVE Trans!Testing(e)
    <3>1. CASE Trans!BeginTest(d)
      BY <2>2, <3>1 DEF Trans!BeginTest, Trans!Goto, Trans!Testing, TransShape
    <3>2. CASE ~Trans!BeginTest(d)
      <4>1. sem' = sem /\ (e # d => t_pc'[e] = t_pc[e])
        BY <1>3, <3>2 DEF Trans!Task, Trans!UseNowhere, Trans!GetEmpty, Trans!GetChain,
           Trans!ChooseWait, Trans!WakeUp, Trans!Use, Trans!Check,
            Trans!LastKick, Trans!Report, Trans!TakeLock, Trans!Send, Trans!GiveLock, Trans!Goto,
            TransShape
      <4>2. t_pc[d] # "wait" \/ UNCHANGED t_pc
        BY <1>3, <3>2 DEF Trans!Task, Trans!UseNowhere, Trans!GetEmpty, Trans!GetChain,
           Trans!ChooseWait, Trans!WakeUp, Trans!Use, Trans!Check,
            Trans!LastKick, Trans!Report, Trans!TakeLock, Trans!Send, Trans!GiveLock
      <4> QED BY <2>2, <4>1, <4>2 DEF Trans!Testing
    <3> QED BY <3>1, <3>2
  <2> QED BY <2>1, <2>2 DEF TestsServed
<1> QED
  <2>1. \/ UNCHANGED <<on, sem, t_pc>> /\ (pulled => pulled')
        \/ Trans!HandleWrite /\ Trans!Dispatch(write)
        \/ \E d \in Trans!Dirs : Trans!Task(d)
    <3>1. CASE Trans!HandleWrite
      BY <3>1, WriteHandled DEF Trans!Crash
    <3> QED BY <3>1 DEF Trans!Next, Trans!Boot, Trans!NextWrite, Trans!NotifyQueue,
        Trans!PostWrite, Trans!Provide
  <2> QED BY <2>1, <1>1, <1>2, <1>3

-----------------------------------------------------------------------------
(* The count of a test.                                                    *)

(* CountKept for one direction.                                            *)
CountOfKept(d) ==
    ~hurried[d] =>
        /\ Trans!Testing(d) => running[d] /\ count[d] = 0 /\ sem[d] <= 1 /\ (sem[d] = 0
           \/ t_pc[d] = "wait")
        /\ t_pc[d] # "wait" => size[d] = regression
        /\ count[d] # 0 => count[d] = size[d]
        /\ Stopping => ~Trans!Unread(d)

LEMMA CountIsEach == CountKept <=> \A d \in Trans!Dirs : CountOfKept(d)
BY DEF CountKept, CountOfKept

LEMMA CountAfterPost ==
    ASSUME TransShape, NEW d \in Trans!Dirs, CountOfKept(d), NEW w, Trans!PostWrite(w),
           UNCHANGED <<Trans!modes, count, sem, t_pc, size>>
    PROVE  CountOfKept(d)'
<1>1. UNCHANGED <<running, count, sem, t_pc, size>>
  BY DEF Trans!modes
<1>2. write' = w
  BY DEF Trans!PostWrite
<1>3. CASE w.reg = "regression" \/ (w.reg = "control" /\ ~w.start)
  <2>1. hurried'[d] = (hurried[d] \/ Trans!Unread(d))
    BY <1>3 DEF Trans!PostWrite
  <2>2. ASSUME ~hurried[d], ~Trans!Unread(d) PROVE CountOfKept(d)'
    <3>1. ~Trans!Testing(d)
      BY <2>2 DEF CountOfKept, Trans!Unread
    <3>2. t_pc[d] = "wait" /\ sem[d] = 0
      BY <3>1 DEF Trans!Testing, TransShape
    <3> QED BY <1>1, <2>2, <3>2 DEF CountOfKept, Trans!Testing, Trans!Unread
  <2> QED BY <2>1, <2>2 DEF CountOfKept
<1>4. CASE ~(w.reg = "regression" \/ (w.reg = "control" /\ ~w.start))
  <2>1. hurried' = hurried /\ regression' = regression /\ ~Stopping'
    BY <1>2, <1>4 DEF Trans!PostWrite, Stopping
  <2> QED BY <1>1, <2>1 DEF CountOfKept, Trans!Testing
<1> QED BY <1>3, <1>4

LEMMA CountAfterWrite ==
    ASSUME TransShape, NEW d \in Trans!Dirs, CountOfKept(d), Trans!HandleWrite
    PROVE  CountOfKept(d)'
<1>0. /\ UNCHANGED <<t_pc, size, hurried, regression>> /\ write' \in {Trans!None, Trans!Lost}
         /\ ~Stopping'
  BY WriteHandled DEF Trans!work, Trans!driver, Stopping, Trans!None, Trans!Lost
<1>1. CASE UNCHANGED <<running, count, sem>>
  BY <1>0, <1>1 DEF CountOfKept, Trans!Testing
<1>2. CASE Trans!Start /\ ~Trans!Crash("device")
  <2>1. /\ running' = [e \in Trans!Dirs |-> running[e] \/ e \in Trans!Started]
        /\ count' = [e \in Trans!Dirs |-> IF e \in Trans!Started THEN 0 ELSE count[e]]
        /\ sem' = [e \in Trans!Dirs |-> IF e \in Trans!Started THEN sem[e] + 1 ELSE sem[e]]
    BY <1>2 DEF Trans!Start
  <2>2. CASE d \in Trans!Started
    <3>1. ~running[d]
      BY <2>2 DEF Trans!Started
    <3>2. ASSUME ~hurried[d] PROVE t_pc[d] = "wait" /\ sem[d] = 0
      BY <3>1, <3>2 DEF CountOfKept, Trans!Testing, TransShape
    <3>3. running'[d] /\ count'[d] = 0 /\ sem'[d] = sem[d] + 1
      BY <2>1, <2>2
    <3> QED BY <1>0, <3>2, <3>3 DEF CountOfKept
  <2>3. CASE d \notin Trans!Started
    <3>1. running'[d] = running[d] /\ count'[d] = count[d] /\ sem'[d] = sem[d]
      BY <2>1, <2>3 DEF TransShape
    <3> QED BY <1>0, <3>1 DEF CountOfKept, Trans!Testing
  <2> QED BY <2>2, <2>3
<1>3. CASE Trans!Stop /\ Stopping
  <2>1. UNCHANGED <<count, sem>>
    BY <1>3 DEF Trans!Stop
  <2>2. ASSUME ~hurried[d] PROVE ~Trans!Testing(d)
    BY <1>3, <2>2 DEF CountOfKept, Trans!Unread
  <2> QED BY <1>0, <2>1, <2>2 DEF CountOfKept, Trans!Testing
<1> QED
  <2>1. \/ UNCHANGED <<running, count, sem>>
        \/ Trans!Start /\ ~Trans!Crash("device")
        \/ Trans!Stop /\ Stopping
    <3>1. CASE Trans!Dispatch(write)
      BY <3>1 DEF Trans!Dispatch, Trans!SetQueues, Trans!Configure, Trans!NotifyVq, Trans!Crash,
         Stopping, Trans!modes
    <3> QED BY <3>1, WriteHandled DEF Trans!Crash, Trans!modes
  <2> QED BY <2>1, <1>1, <1>2, <1>3

LEMMA CountAfterTask ==
    ASSUME TransShape, NEW d \in Trans!Dirs, CountOfKept(d), NEW e \in Trans!Dirs, Trans!Task(e)
    PROVE  CountOfKept(d)'
<1> USE DEF Trans!driver, Trans!modes, Trans!work, Trans!history
<1>0. UNCHANGED <<hurried, regression, running, write>> /\ Stopping' = Stopping
  BY DEF Trans!Task, Trans!BeginTest, Trans!UseNowhere, Trans!GetEmpty, Trans!GetChain,
     Trans!ChooseWait, Trans!WakeUp, Trans!Use, Trans!Check,
      Trans!LastKick, Trans!Report, Trans!TakeLock, Trans!Send, Trans!GiveLock, Stopping
<1>1. CASE Trans!BeginTest(e)
  <2>1. /\ sem' = [sem EXCEPT ![e] = @ - 1] /\ size' = [size EXCEPT ![e] = regression]
        /\ \E x \in {"end", "get"} : t_pc' = [t_pc EXCEPT ![e] = x]
        /\ t_pc[e] = "wait" /\ sem[e] > 0 /\ count' = count
    BY <1>1 DEF Trans!BeginTest, Trans!Goto
  <2>2. CASE d = e
    <3>1. sem'[d] = sem[d] - 1 /\ size'[d] = regression /\ t_pc'[d] \in {"end", "get"}
          /\ count'[d] = count[d]
      BY <2>1, <2>2 DEF TransShape
    <3>2. ASSUME ~hurried[d] PROVE running[d] /\ count[d] = 0 /\ sem[d] = 1
      BY <2>1, <2>2, <3>2 DEF CountOfKept, Trans!Testing, TransShape
    <3> QED BY <1>0, <3>1, <3>2 DEF CountOfKept, Trans!Testing, Trans!Unread
  <2>3. CASE d # e
    <3>1. sem'[d] = sem[d] /\ size'[d] = size[d] /\ t_pc'[d] = t_pc[d] /\ count'[d] = count[d]
      BY <2>1, <2>3 DEF TransShape
    <3> QED BY <1>0, <3>1 DEF CountOfKept, Trans!Testing, Trans!Unread
  <2> QED BY <2>2, <2>3
<1>2. CASE Trans!Report(e)
  <2>1. /\ count' = [count EXCEPT ![e] = regression] /\ t_pc' = [t_pc EXCEPT ![e] = "wait"]
        /\ t_pc[e] = "report" /\ UNCHANGED <<sem, size>>
    BY <1>2 DEF Trans!Report, Trans!Goto
  <2>2. CASE d = e
    <3>1. count'[d] = regression /\ t_pc'[d] = "wait"
      BY <2>1, <2>2 DEF TransShape
    <3>2. ASSUME ~hurried[d] PROVE size[d] = regression /\ running[d] /\ count[d] = 0 /\ sem[d] = 0
      BY <2>1, <2>2, <3>2 DEF CountOfKept, Trans!Testing
    <3>3. ASSUME ~hurried[d], Stopping PROVE FALSE
      BY <3>2, <3>3 DEF CountOfKept, Trans!Unread
    <3> QED BY <1>0, <2>1, <3>1, <3>2, <3>3 DEF CountOfKept, Trans!Testing
  <2>3. CASE d # e
    <3>1. t_pc'[d] = t_pc[d] /\ count'[d] = count[d]
      BY <2>1, <2>3 DEF TransShape
    <3> QED BY <1>0, <2>1, <3>1 DEF CountOfKept, Trans!Testing, Trans!Unread
  <2> QED BY <2>2, <2>3
<1>3. CASE ~Trans!BeginTest(e) /\ ~Trans!Report(e)
  <2>1. UNCHANGED <<count, sem, size>>
    BY <1>3 DEF Trans!Task, Trans!UseNowhere, Trans!GetEmpty, Trans!GetChain, Trans!ChooseWait,
       Trans!WakeUp, Trans!Use, Trans!Check,
        Trans!LastKick, Trans!TakeLock, Trans!Send, Trans!GiveLock
  <2>2. t_pc'[d] # "wait" => t_pc[d] # "wait"
    BY <1>3 DEF Trans!Task, Trans!UseNowhere, Trans!GetEmpty, Trans!GetChain, Trans!ChooseWait,
       Trans!WakeUp, Trans!Use, Trans!Check,
        Trans!LastKick, Trans!TakeLock, Trans!Send, Trans!GiveLock, Trans!Goto, TransShape
  <2> QED BY <1>0, <2>1, <2>2 DEF CountOfKept, Trans!Testing, Trans!Unread
<1> QED BY <1>1, <1>2, <1>3

LEMMA TransCountsKept ==
    ASSUME TransShape, CountKept, [Trans!Next]_transVars
    PROVE  CountKept'
<1> SUFFICES ASSUME NEW d \in Trans!Dirs PROVE CountOfKept(d)'
  BY DEF CountKept, CountOfKept
<1>0. CountOfKept(d)
  BY CountIsEach
<1>1. CASE Trans!NextWrite
  BY <1>0, <1>1, CountAfterPost DEF Trans!NextWrite, Trans!work
<1>2. ASSUME NEW e \in Trans!Dirs, Trans!NotifyQueue(e) PROVE CountOfKept(d)'
  BY <1>0, <1>2, CountAfterPost DEF Trans!NotifyQueue, Trans!work
<1>3. CASE Trans!HandleWrite
  BY <1>0, <1>3, CountAfterWrite
<1>4. ASSUME NEW e \in Trans!Dirs, Trans!Task(e) PROVE CountOfKept(d)'
  BY <1>0, <1>4, CountAfterTask
<1>5. CASE UNCHANGED <<hurried, running, count, sem, t_pc, size, regression, write>>
  BY <1>0, <1>5 DEF CountOfKept, Trans!Testing, Trans!Unread, Stopping
<1>6. \/ UNCHANGED <<hurried, running, count, sem, t_pc, size, regression, write>>
      \/ Trans!NextWrite \/ Trans!HandleWrite \/ \E e \in Trans!Dirs : Trans!NotifyQueue(e)
         \/ Trans!Task(e)
  BY DEF Trans!Next, Trans!Boot, Trans!Provide, transVars, Trans!driver, Trans!modes, Trans!work,
     Trans!history
<1> QED BY <1>1, <1>2, <1>3, <1>4, <1>5, <1>6

-----------------------------------------------------------------------------
(* The theorems.                                                           *)

LEMMA TransInitially ==
    ASSUME Trans!TransAssumption, Trans!Init
    PROVE  TransInv
<1>1. Trans!TypeOK /\ TransShape /\ FollowsSession
  BY TransInitShape, SessionBegins
<1>2. Trans!NoFault /\ WritesKnow /\ TestsServed /\ VectorHeld /\ LockHeld /\ CountKept
  BY DEF Trans!Init, Trans!InitWith, Trans!NoFault, WritesKnow, TestsServed, Trans!Testing,
     VectorHeld, LockHeld, HoldsLock,
     CountKept, Stopping, Trans!None, Trans!Dirs
<1> QED BY <1>1, <1>2 DEF TransInv

LEMMA TransInductive ==
    ASSUME Trans!TransAssumption, TransInv, [Trans!Next]_transVars
    PROVE  TransInv'
BY TransTypesKept, KnowledgeKept, TransFaultsExplained, SessionKept, ServedKept, VectorKept,
   LockKept,
   TransCountsKept DEF TransInv

LEMMA TransFollows ==
    ASSUME TransInv
    PROVE  Trans!TypeOK /\ Trans!NoFault /\ Trans!Exclusion /\ Trans!CountIsCurrent
<1>1. Trans!Exclusion
  <2>1. t_pc["tx"] = "send" /\ t_pc["rx"] = "send" => split
    BY DEF TransInv, LockHeld, HoldsLock
  <2> QED BY <2>1 DEF TransInv, VectorHeld, Trans!Exclusion
<1>2. Trans!CountIsCurrent
  BY DEF TransInv, CountKept, Trans!CountIsCurrent
<1> QED BY <1>1, <1>2 DEF TransInv

-----------------------------------------------------------------------------
(* rpmsg_perf.                                                             *)

(* The messages that go either way.                                        *)
Preambles ==
    {"none", "data", "SENDER_START", "SENDER_END", "SENDER_END_ACK", "RECEIVER_START", "RECEIVER_END",
     "RECEIVER_END_ACK"}
PerfMsgs == [preamble : Preambles, test : Perf!Tests, packet_cnt : Int]

(* What TypeOK does not bound.                                             *)
PerfShape ==
    /\ todo \in Seq(Perf!Tests) /\ test \in Perf!Tests /\ sent \in Nat
    /\ begun \subseteq {"endpoint", "recv", "send"}
    /\ p_in \in PerfMsgs /\ inbox \in Seq(PerfMsgs) /\ outbox \in Seq(PerfMsgs)
    /\ args \in [end_ticks : Nat, send_packet_cnt : Nat] /\ made \in Nat

(* The buffer lent is that of the message in hand.                         *)
LoanAt == loaned = IF recv # "wait" /\ release_buf THEN 1 ELSE 0

(* The send task's two counts of its packets.                              *)
CountsAt ==
    /\ send = "check" => made = (args.send_packet_cnt + 1) % CountWidth
    /\ send \in {"packet", "end"} \/ (send = "wait" /\ signal = 0) => made = args.send_packet_cnt
    /\ signal = 1 => args.send_packet_cnt = 0
    /\ send # "wait" => signal = 0
    /\ "send" \in begun => send = "wait" /\ made = 0 /\ args.send_packet_cnt = 0

(* The messages the receive task has not handled, in their order.          *)
Pipe == IF recv = "handle" THEN <<p_in>> \o inbox ELSE inbox

IsAck(m) == m.preamble = "SENDER_END_ACK"
Acked    == \E k \in DOMAIN outbox : IsAck(outbox[k])

(* Linux waits for one answer, which is to come or in its queue.           *)
AnswersAt ==
    /\ Acked => linux = "acked"
    /\ \A j, k \in DOMAIN outbox : IsAck(outbox[j]) /\ IsAck(outbox[k]) => j = k
    /\ \A k \in DOMAIN Pipe : Pipe[k].preamble = "SENDER_END" =>
            k = Len(Pipe) /\ linux = "acked" /\ ~Acked

(* What is under way of the test in which Linux sends: its start, its      *)
(* packets and its end, or, once the start is handled, the packets that    *)
(* rx_len has not counted.                                                 *)
Ends == IF linux = "acked" THEN 1 ELSE 0
UnderWay(p) ==
    /\ \A k \in p..(Len(Pipe) - Ends) : Pipe[k].preamble = "data" /\ Pipe[k].test = test
    /\ linux = "acked" => Len(Pipe) > 0 /\ Pipe[Len(Pipe)].preamble = "SENDER_END"
StartUnderWay ==
    \E p \in DOMAIN Pipe :
        /\ p = Len(Pipe) - Ends - sent
        /\ Pipe[p].preamble = "SENDER_START" /\ Pipe[p].test = test
        /\ UnderWay(p + 1)
PacketsUnderWay ==
    /\ Len(Pipe) - Ends <= sent /\ UnderWay(1)
    /\ packet_size = test.packet_size
    /\ sent * test.packet_size < CountWidth => rx_len = (sent - (Len(Pipe) - Ends)) * test.packet_size
TestUnderWay ==
    linux = "sending" \/ (linux = "acked" /\ ~Acked) => StartUnderWay \/ PacketsUnderWay

(* An answer in the queue of Linux tells it what it sent.                  *)
AcksRight ==
    \A k \in DOMAIN outbox : IsAck(outbox[k]) =>
        outbox[k].packet_cnt = sent \/ sent * test.packet_size >= CountWidth

PerfInv ==
    /\ Perf!TypeOK /\ PerfShape /\ Perf!NoFault
    /\ LoanAt /\ CountsAt /\ AnswersAt /\ TestUnderWay /\ AcksRight

-----------------------------------------------------------------------------
(* Queues.                                                                 *)
LEMMA PutLast ==
    ASSUME NEW S, NEW q \in Seq(S), NEW x \in S
    PROVE  /\ Append(q, x) \in Seq(S) /\ Len(Append(q, x)) = Len(q) + 1 /\ Len(q) \in Nat
           /\ DOMAIN q = 1..Len(q) /\ DOMAIN Append(q, x) = 1..(Len(q) + 1)
           /\ \A k \in 1..Len(q) : Append(q, x)[k] = q[k]
           /\ Append(q, x)[Len(q) + 1] = x
OBVIOUS

LEMMA TakeFirst ==
    ASSUME NEW S, NEW q \in Seq(S), q # <<>>
    PROVE  /\ Tail(q) \in Seq(S) /\ Head(q) \in S /\ Head(q) = q[1] /\ Len(q) \in Nat /\ Len(q) >= 1
           /\ DOMAIN q = 1..Len(q) /\ DOMAIN Tail(q) = 1..(Len(q) - 1) /\ Len(Tail(q)) = Len(q) - 1
           /\ \A k \in 1..(Len(q) - 1) : Tail(q)[k] = q[k + 1]
BY HeadTailProperties

LEMMA PutFirst ==
    ASSUME NEW S, NEW q \in Seq(S), NEW x \in S
    PROVE  /\ <<x>> \o q \in Seq(S) /\ <<x>> \o q # <<>> /\ Head(<<x>> \o q) = x /\ Tail(<<x>> \o q) = q
<1> DEFINE c == <<x>> \o q
<1>1. c \in Seq(S) /\ Len(c) = Len(q) + 1 /\ Len(q) \in Nat /\ c[1] = x
      /\ \A k \in 1..Len(q) : c[k + 1] = q[k]
  OBVIOUS
<1> HIDE DEF c
<1>2. c # <<>> /\ Head(c) = x
  BY <1>1
<1>3. Tail(c) \in Seq(S) /\ Len(Tail(c)) = Len(q) /\ \A k \in 1..Len(q) : Tail(c)[k] = c[k + 1]
  BY <1>1, <1>2, TakeFirst
<1>4. Tail(c) = q
  BY <1>1, <1>3, SeqEqual
<1> QED BY <1>1, <1>2, <1>4 DEF c

LEMMA FirstAndRest ==
    ASSUME NEW S, NEW q \in Seq(S), q # <<>>
    PROVE  <<Head(q)>> \o Tail(q) = q
<1> DEFINE c == <<Head(q)>> \o Tail(q)
<1>1. Head(q) \in S /\ Tail(q) \in Seq(S) /\ Head(q) = q[1] /\ Len(Tail(q)) = Len(q) - 1 /\ Len(q) \in Nat
      /\ Len(q) >= 1 /\ \A k \in 1..(Len(q) - 1) : Tail(q)[k] = q[k + 1]
  BY TakeFirst
<1>2. c \in Seq(S) /\ Len(c) = Len(q) /\ c[1] = q[1] /\ \A k \in 1..(Len(q) - 1) : c[k + 1] = Tail(q)[k]
  BY <1>1
<1>3. \A k \in 1..Len(q) : c[k] = q[k]
  <2> SUFFICES ASSUME NEW k \in 1..Len(q) PROVE c[k] = q[k]
    OBVIOUS
  <2>1. CASE k = 1
    BY <2>1, <1>2
  <2>2. CASE k # 1
    <3>1. k - 1 \in 1..(Len(q) - 1) /\ (k - 1) + 1 = k
      BY <2>2, <1>1
    <3> QED BY <3>1, <1>1, <1>2
  <2> QED BY <2>1, <2>2
<1> HIDE DEF c
<1>4. c = q
  BY <1>2, <1>3, SeqEqual
<1> QED BY <1>4 DEF c

(* A message of the protocol.                                              *)
LEMMA MsgIn ==
    ASSUME NEW p \in Preambles, NEW t \in Perf!Tests, NEW n_ \in Int
    PROVE  Perf!Msg(p, t, n_) \in PerfMsgs /\ Perf!Msg(p, t, n_).preamble = p /\ Perf!Msg(p, t, n_).test = t
           /\ Perf!Msg(p, t, n_).packet_cnt = n_
BY DEF Perf!Msg, PerfMsgs

(* A remainder.                                                            *)
LEMMA ModRange ==
    ASSUME NEW m \in Nat \ {0}, NEW a \in Int
    PROVE  a % m \in 0..(m - 1)
OBVIOUS

ToolStep(A)   == f_fault = "none" /\ A /\ UNCHANGED outbox /\ Perf!CoreRest
HandleStep(A) == A /\ UNCHANGED <<Perf!linuxVars, begun, inbox, loaned, tick>>

(* The steps, the handler of each preamble one of them.                    *)
LEMMA PerfSteps ==
    ASSUME Perf!Next
    PROVE  \/ ToolStep(Perf!StartTest) \/ ToolStep(Perf!SendPackets)
           \/ ToolStep(Perf!EndSending) \/ ToolStep(Perf!EndReceiving)
           \/ Perf!LinuxReceives \/ Perf!InitTask \/ Perf!Receive
           \/ HandleStep(Perf!SenderStart) \/ HandleStep(Perf!Data) \/ HandleStep(Perf!SenderEnd)
           \/ HandleStep(Perf!ReceiverStart) \/ HandleStep(Perf!ReceiverEndAck)
           \/ Perf!Release \/ Perf!TakeSignal \/ Perf!SendPacket \/ Perf!CheckTime \/ Perf!SendEnd \/ Perf!Tick
BY DEF Perf!Next, Perf!Tool, Perf!RecvTask, Perf!Handle, Perf!SendTask, ToolStep, HandleStep

(* The buffer lent is that of the message in hand, at every step.          *)
LEMMA LoanKept ==
    ASSUME Perf!PerfAssumption, Perf!TypeOK, LoanAt, [Perf!Next]_perfVars
    PROVE  LoanAt'
<1> USE DEF LoanAt, Perf!linuxVars, Perf!recvVars, Perf!sendVars
<1>1. CASE UNCHANGED perfVars
  BY <1>1 DEF perfVars
<1>2. CASE ToolStep(Perf!StartTest)
  BY <1>2 DEF Perf!StartTest, ToolStep, Perf!CoreRest, Perf!ToCore
<1>3. CASE ToolStep(Perf!SendPackets)
  BY <1>3 DEF Perf!SendPackets, ToolStep, Perf!CoreRest, Perf!ToCore
<1>4. CASE ToolStep(Perf!EndSending)
  BY <1>4 DEF Perf!EndSending, ToolStep, Perf!CoreRest, Perf!ToCore
<1>5. CASE ToolStep(Perf!EndReceiving)
  BY <1>5 DEF Perf!EndReceiving, ToolStep, Perf!CoreRest, Perf!ToCore
<1>6. CASE Perf!LinuxReceives
  BY <1>6 DEF Perf!LinuxReceives, Perf!CoreRest
<1>7. CASE Perf!InitTask
  BY <1>7 DEF Perf!InitTask
<1>8. CASE Perf!Receive
  BY <1>8 DEF Perf!Receive
<1>9. CASE HandleStep(Perf!SenderStart)
  BY <1>9 DEF Perf!SenderStart, HandleStep, Perf!Handles, Perf!RxLenAtStart
<1>10. CASE HandleStep(Perf!Data)
  BY <1>10 DEF Perf!Data, HandleStep, Perf!Handles
<1>11. CASE HandleStep(Perf!SenderEnd)
  BY <1>11 DEF Perf!SenderEnd, HandleStep, Perf!Handles, Perf!APP_SendPacket
<1>12. CASE HandleStep(Perf!ReceiverStart)
  BY <1>12 DEF Perf!ReceiverStart, HandleStep, Perf!Handles
<1>13. CASE HandleStep(Perf!ReceiverEndAck)
  BY <1>13 DEF Perf!ReceiverEndAck, HandleStep, Perf!Handles
<1>14. CASE Perf!Release
  BY <1>14 DEF Perf!Release
<1>15. CASE Perf!TakeSignal
  BY <1>15 DEF Perf!TakeSignal, Perf!SendRest
<1>16. CASE Perf!SendPacket
  BY <1>16 DEF Perf!SendPacket, Perf!SendRest, Perf!APP_SendPacket
<1>17. CASE Perf!CheckTime
  BY <1>17 DEF Perf!CheckTime, Perf!SendRest
<1>18. CASE Perf!SendEnd
  BY <1>18 DEF Perf!SendEnd, Perf!SendRest, Perf!APP_SendPacket
<1>19. CASE Perf!Tick
  BY <1>19 DEF Perf!Tick
<1> QED BY <1>1, <1>2, <1>3, <1>4, <1>5, <1>6, <1>7, <1>8, <1>9, <1>10, <1>11, <1>12, <1>13,
   <1>14, <1>15, <1>16, <1>17, <1>18, <1>19, PerfSteps

(* The send task's counts, at every step.                                  *)
LEMMA CountsKept ==
    ASSUME Perf!PerfAssumption, Perf!TypeOK, PerfShape, CountsAt, [Perf!Next]_perfVars
    PROVE  CountsAt'
<1> USE DEF CountsAt, Perf!linuxVars, Perf!recvVars, Perf!sendVars
<1>1. CASE UNCHANGED perfVars
  BY <1>1 DEF perfVars
<1>2. CASE ToolStep(Perf!StartTest)
  BY <1>2 DEF Perf!StartTest, ToolStep, Perf!CoreRest, Perf!ToCore, Perf!TypeOK, PerfShape,
     Perf!RecvRuns, Perf!SendRuns
<1>3. CASE ToolStep(Perf!SendPackets)
  BY <1>3 DEF Perf!SendPackets, ToolStep, Perf!CoreRest, Perf!ToCore, Perf!TypeOK, PerfShape,
     Perf!RecvRuns, Perf!SendRuns
<1>4. CASE ToolStep(Perf!EndSending)
  BY <1>4 DEF Perf!EndSending, ToolStep, Perf!CoreRest, Perf!ToCore, Perf!TypeOK, PerfShape,
     Perf!RecvRuns, Perf!SendRuns
<1>5. CASE ToolStep(Perf!EndReceiving)
  BY <1>5 DEF Perf!EndReceiving, ToolStep, Perf!CoreRest, Perf!ToCore, Perf!TypeOK, PerfShape,
     Perf!RecvRuns, Perf!SendRuns
<1>6. CASE Perf!LinuxReceives
  BY <1>6 DEF Perf!LinuxReceives, Perf!CoreRest, Perf!TypeOK, PerfShape, Perf!RecvRuns,
     Perf!SendRuns
<1>7. CASE Perf!InitTask
  BY <1>7 DEF Perf!InitTask, Perf!TypeOK, PerfShape, Perf!RecvRuns, Perf!SendRuns
<1>8. CASE Perf!Receive
  BY <1>8 DEF Perf!Receive, Perf!TypeOK, PerfShape, Perf!RecvRuns, Perf!SendRuns
<1>9. CASE HandleStep(Perf!SenderStart)
  BY <1>9 DEF Perf!SenderStart, HandleStep, Perf!Handles, Perf!RxLenAtStart, Perf!TypeOK,
     PerfShape, Perf!RecvRuns, Perf!SendRuns
<1>10. CASE HandleStep(Perf!Data)
  BY <1>10 DEF Perf!Data, HandleStep, Perf!Handles, Perf!TypeOK, PerfShape, Perf!RecvRuns,
     Perf!SendRuns
<1>11. CASE HandleStep(Perf!SenderEnd)
  BY <1>11 DEF Perf!SenderEnd, HandleStep, Perf!Handles, Perf!APP_SendPacket, Perf!TypeOK,
     PerfShape, Perf!RecvRuns, Perf!SendRuns
<1>12. CASE HandleStep(Perf!ReceiverStart)
  BY <1>12 DEF Perf!ReceiverStart, HandleStep, Perf!Handles, Perf!TypeOK, PerfShape,
     Perf!RecvRuns, Perf!SendRuns
<1>13. CASE HandleStep(Perf!ReceiverEndAck)
  BY <1>13 DEF Perf!ReceiverEndAck, HandleStep, Perf!Handles, Perf!TypeOK, PerfShape,
     Perf!RecvRuns, Perf!SendRuns
<1>14. CASE Perf!Release
  BY <1>14 DEF Perf!Release, Perf!TypeOK, PerfShape, Perf!RecvRuns, Perf!SendRuns
<1>15. CASE Perf!TakeSignal
  BY <1>15 DEF Perf!TakeSignal, Perf!SendRest, Perf!TypeOK, PerfShape, Perf!RecvRuns, Perf!SendRuns
<1>16. CASE Perf!SendPacket
  BY <1>16 DEF Perf!SendPacket, Perf!SendRest, Perf!APP_SendPacket, Perf!TypeOK, PerfShape,
     Perf!RecvRuns, Perf!SendRuns
<1>17. CASE Perf!CheckTime
  BY <1>17 DEF Perf!CheckTime, Perf!SendRest, Perf!TypeOK, PerfShape, Perf!RecvRuns, Perf!SendRuns
<1>18. CASE Perf!SendEnd
  BY <1>18 DEF Perf!SendEnd, Perf!SendRest, Perf!APP_SendPacket, Perf!TypeOK, PerfShape,
     Perf!RecvRuns, Perf!SendRuns
<1>19. CASE Perf!Tick
  BY <1>19 DEF Perf!Tick, Perf!TypeOK, PerfShape, Perf!RecvRuns, Perf!SendRuns
<1> QED BY <1>1, <1>2, <1>3, <1>4, <1>5, <1>6, <1>7, <1>8, <1>9, <1>10, <1>11, <1>12, <1>13,
   <1>14, <1>15, <1>16, <1>17, <1>18, <1>19, PerfSteps

(* What the variables hold before the first test.                          *)
LEMMA NothingIn ==
    ASSUME Perf!PerfAssumption
    PROVE  Perf!NoTest \in Perf!Tests /\ Perf!NoMsg \in PerfMsgs
BY DEF Perf!PerfAssumption, Perf!NoTest, Perf!Tests, Perf!NoMsg, Perf!Msg, PerfMsgs, Preambles

(* A message put in the queue of the core leaves it well formed.           *)
LEMMA ToCoreIn ==
    ASSUME PerfShape, NEW m \in PerfMsgs, Perf!ToCore(m), loaned \in Nat, Buffers \in Nat
    PROVE  inbox' \in Seq(PerfMsgs) /\ Len(inbox') + loaned <= Buffers
BY PutLast DEF PerfShape, Perf!ToCore

(* A message put in the queue of Linux leaves it well formed.              *)
LEMMA ToLinuxIn ==
    ASSUME PerfShape, NEW m \in PerfMsgs, Perf!APP_SendPacket(m), Buffers \in Nat
    PROVE  outbox' \in Seq(PerfMsgs) /\ Len(outbox') <= Buffers
BY PutLast DEF PerfShape, Perf!APP_SendPacket

(* What Linux puts in the queue.                                           *)
LEMMA LinuxPosts ==
    ASSUME PerfShape,
           \/ ToolStep(Perf!StartTest) \/ ToolStep(Perf!SendPackets)
           \/ ToolStep(Perf!EndSending) \/ ToolStep(Perf!EndReceiving)
    PROVE  /\ UNCHANGED inbox \/ \E m \in PerfMsgs : Perf!ToCore(m)
           /\ test' \in Perf!Tests /\ todo' \in Seq(Perf!Tests) /\ sent' \in Nat
<1>1. CASE ToolStep(Perf!StartTest)
  <2>1. todo # <<>> /\ test' = Head(todo) /\ todo' = Tail(todo) /\ sent' = 0
        /\ Perf!ToCore(Perf!Msg(IF test'.sender THEN "SENDER_START" ELSE "RECEIVER_START", test', 0))
    BY <1>1 DEF ToolStep, Perf!StartTest
  <2>2. test' \in Perf!Tests /\ todo' \in Seq(Perf!Tests)
    BY <2>1, TakeFirst DEF PerfShape
  <2>3. (IF test'.sender THEN "SENDER_START" ELSE "RECEIVER_START") \in Preambles
    BY DEF Preambles
  <2>4. Perf!Msg(IF test'.sender THEN "SENDER_START" ELSE "RECEIVER_START", test', 0) \in PerfMsgs
    BY <2>2, <2>3, MsgIn
  <2> QED BY <2>1, <2>2, <2>4
<1> DEFINE P == {"data", "SENDER_END", "RECEIVER_END_ACK"}
<1>2. \A p \in P : Perf!Msg(p, test, 0) \in PerfMsgs
  BY MsgIn DEF PerfShape, Preambles
<1>3. CASE ToolStep(Perf!SendPackets) \/ ToolStep(Perf!EndSending) \/ ToolStep(Perf!EndReceiving)
  <2>1. UNCHANGED inbox \/ \E p \in P : Perf!ToCore(Perf!Msg(p, test, 0))
    BY <1>3 DEF ToolStep, Perf!SendPackets, Perf!EndSending, Perf!EndReceiving
  <2>2. UNCHANGED <<test, todo>> /\ sent' \in Nat
    BY <1>3 DEF ToolStep, Perf!SendPackets, Perf!EndSending, Perf!EndReceiving, PerfShape
  <2> QED BY <1>2, <2>1, <2>2 DEF PerfShape
<1> QED BY <1>1, <1>3

(* What the core puts in the queue of Linux.                               *)
LEMMA CorePosts ==
    ASSUME Perf!PerfAssumption, Perf!TypeOK, PerfShape, HandleStep(Perf!SenderEnd) \/ Perf!SendPacket \/ Perf!SendEnd
    PROVE  \E m \in PerfMsgs : Perf!APP_SendPacket(m)
<1>1. CASE HandleStep(Perf!SenderEnd)
  <2>1. rx_len \div packet_size \in Int
    BY DEF Perf!TypeOK, Perf!PerfAssumption
  <2> QED BY <1>1, <2>1, MsgIn, NothingIn DEF HandleStep, Perf!SenderEnd, Preambles
<1>2. CASE Perf!SendPacket
  BY <1>2, MsgIn, NothingIn DEF Perf!SendPacket, Preambles
<1>3. CASE Perf!SendEnd
  <2>1. args.send_packet_cnt \in Int
    BY DEF PerfShape
  <2> QED BY <1>3, <2>1, MsgIn, NothingIn DEF Perf!SendEnd, Preambles
<1> QED BY <1>1, <1>2, <1>3

(* The shape of the state is kept.                                         *)
LEMMA PerfShapeKept ==
    ASSUME Perf!PerfAssumption, Perf!TypeOK, PerfShape, LoanAt, [Perf!Next]_perfVars
    PROVE  PerfShape'
<1> USE DEF Perf!linuxVars, Perf!recvVars, Perf!sendVars, PerfShape
<1>1. CASE UNCHANGED perfVars
  BY <1>1 DEF perfVars
<1>2. CASE ToolStep(Perf!StartTest)
  <2>1. inbox' \in Seq(PerfMsgs) /\ Len(inbox') + loaned <= Buffers
    BY <1>2, LinuxPosts, ToCoreIn DEF Perf!TypeOK, Perf!PerfAssumption
  <2>2. UNCHANGED <<begun, p_in, outbox, args, made>>
    BY <1>2 DEF ToolStep, Perf!CoreRest
  <2> QED BY <1>2, <2>1, <2>2, LinuxPosts
<1>3. CASE ToolStep(Perf!SendPackets)
  <2>1. inbox' \in Seq(PerfMsgs) /\ Len(inbox') + loaned <= Buffers
    BY <1>3, LinuxPosts, ToCoreIn DEF Perf!TypeOK, Perf!PerfAssumption
  <2>2. UNCHANGED <<begun, p_in, outbox, args, made>>
    BY <1>3 DEF ToolStep, Perf!CoreRest
  <2> QED BY <1>3, <2>1, <2>2, LinuxPosts
<1>4. CASE ToolStep(Perf!EndSending)
  <2>1. inbox' \in Seq(PerfMsgs) /\ Len(inbox') + loaned <= Buffers
    BY <1>4, LinuxPosts, ToCoreIn DEF Perf!TypeOK, Perf!PerfAssumption
  <2>2. UNCHANGED <<begun, p_in, outbox, args, made>>
    BY <1>4 DEF ToolStep, Perf!CoreRest
  <2> QED BY <1>4, <2>1, <2>2, LinuxPosts
<1>5. CASE ToolStep(Perf!EndReceiving)
  <2>1. inbox' \in Seq(PerfMsgs) /\ Len(inbox') + loaned <= Buffers
    BY <1>5, LinuxPosts, ToCoreIn DEF Perf!TypeOK, Perf!PerfAssumption
  <2>2. UNCHANGED <<begun, p_in, outbox, args, made>>
    BY <1>5 DEF ToolStep, Perf!CoreRest
  <2> QED BY <1>5, <2>1, <2>2, LinuxPosts
<1>6. CASE Perf!LinuxReceives
  BY <1>6, TakeFirst DEF Perf!LinuxReceives, Perf!CoreRest, Perf!PerfAssumption, Perf!TypeOK
<1>7. CASE Perf!InitTask
  BY <1>7 DEF Perf!InitTask, Perf!PerfAssumption, Perf!TypeOK
<1>8. CASE Perf!Receive
  BY <1>8, TakeFirst DEF Perf!Receive, Perf!PerfAssumption, Perf!TypeOK
<1>9. CASE HandleStep(Perf!SenderStart)
  BY <1>9 DEF Perf!SenderStart, HandleStep, Perf!Handles, Perf!RxLenAtStart, Perf!PerfAssumption,
     Perf!TypeOK
<1>10. CASE HandleStep(Perf!Data)
  BY <1>10, ModRange DEF Perf!Data, HandleStep, Perf!Handles, Perf!PerfAssumption, Perf!TypeOK
<1>11. CASE HandleStep(Perf!SenderEnd)
  BY <1>11, CorePosts, ToLinuxIn DEF Perf!SenderEnd, HandleStep, Perf!Handles,
     Perf!APP_SendPacket, Perf!PerfAssumption, Perf!TypeOK
<1>12. CASE HandleStep(Perf!ReceiverStart)
  <2>1. p_in.test.length \in Int /\ tick \in Int
    BY DEF PerfMsgs, Perf!Tests, Perf!TypeOK
  <2>a. tick + p_in.test.length \in Int
    BY <2>1
  <2>b. (tick + p_in.test.length) % TickWidth \in 0..(TickWidth - 1)
    BY <2>a, ModRange DEF Perf!PerfAssumption
  <2>2. (tick + p_in.test.length) % TickWidth \in Nat
    BY <2>b DEF Perf!PerfAssumption
  <2>3. args' \in [end_ticks : Nat, send_packet_cnt : Nat]
    BY <1>12, <2>2 DEF HandleStep, Perf!ReceiverStart
  <2>4. UNCHANGED <<todo, test, sent, begun, p_in, inbox, outbox, made>>
    BY <1>12 DEF HandleStep, Perf!ReceiverStart, Perf!Handles
  <2> QED BY <2>3, <2>4
<1>13. CASE HandleStep(Perf!ReceiverEndAck)
  BY <1>13 DEF Perf!ReceiverEndAck, HandleStep, Perf!Handles, Perf!PerfAssumption, Perf!TypeOK
<1>14. CASE Perf!Release
  BY <1>14, NothingIn DEF Perf!Release, Perf!PerfAssumption, Perf!TypeOK
<1>15. CASE Perf!TakeSignal
  BY <1>15 DEF Perf!TakeSignal, Perf!SendRest, Perf!PerfAssumption, Perf!TypeOK
<1>16. CASE Perf!SendPacket
  <2>1. outbox' \in Seq(PerfMsgs)
    BY <1>16, CorePosts, ToLinuxIn DEF Perf!PerfAssumption
  <2>2. made' \in Nat
    <3>1. (made + 1) % CountWidth \in 0..(CountWidth - 1)
      BY ModRange DEF Perf!PerfAssumption
    <3> QED BY <1>16, <3>1 DEF Perf!SendPacket, Perf!PerfAssumption
  <2>3. UNCHANGED <<todo, test, sent, begun, p_in, inbox, args>>
    BY <1>16 DEF Perf!SendPacket, Perf!SendRest
  <2> QED BY <2>1, <2>2, <2>3
<1>17. CASE Perf!CheckTime
  <2>1. (args.send_packet_cnt + 1) % CountWidth \in Nat
    BY ModRange DEF Perf!PerfAssumption
  <2>2. args' \in [end_ticks : Nat, send_packet_cnt : Nat]
    BY <1>17, <2>1 DEF Perf!CheckTime
  <2>3. UNCHANGED <<todo, test, sent, begun, p_in, inbox, outbox, made>>
    BY <1>17 DEF Perf!CheckTime, Perf!SendRest
  <2> QED BY <2>2, <2>3
<1>18. CASE Perf!SendEnd
  BY <1>18, CorePosts, ToLinuxIn DEF Perf!SendEnd, Perf!SendRest, Perf!APP_SendPacket,
     Perf!PerfAssumption, Perf!TypeOK
<1>19. CASE Perf!Tick
  BY <1>19, ModRange DEF Perf!Tick, Perf!PerfAssumption, Perf!TypeOK
<1> QED BY <1>1, <1>2, <1>3, <1>4, <1>5, <1>6, <1>7, <1>8, <1>9, <1>10, <1>11, <1>12, <1>13,
   <1>14, <1>15, <1>16, <1>17, <1>18, <1>19, PerfSteps

(* The ranges of the variables are kept.                                   *)
LEMMA PerfTypeKept ==
    ASSUME Perf!PerfAssumption, Perf!TypeOK, PerfShape, LoanAt, [Perf!Next]_perfVars
    PROVE  Perf!TypeOK'
<1> USE DEF Perf!PerfAssumption, Perf!linuxVars, Perf!recvVars, Perf!sendVars, Perf!TypeOK
<1>1. CASE UNCHANGED perfVars
  BY <1>1 DEF perfVars
<1>2. CASE ToolStep(Perf!StartTest)
  <2>1. inbox' \in Seq(PerfMsgs) /\ Len(inbox') + loaned <= Buffers
    BY <1>2, LinuxPosts, ToCoreIn DEF PerfShape
  <2>2. UNCHANGED <<f_fault, Perf!recvVars, send, signal, args, loaned, tick, outbox>>
    BY <1>2 DEF ToolStep, Perf!CoreRest
  <2>3. linux' \in {"idle", "sending", "acked", "receiving", "ended"} /\ ended' \in BOOLEAN
    BY <1>2 DEF ToolStep, Perf!StartTest
  <2> QED BY <2>1, <2>2, <2>3
<1>3. CASE ToolStep(Perf!SendPackets)
  <2>1. inbox' \in Seq(PerfMsgs) /\ Len(inbox') + loaned <= Buffers
    BY <1>3, LinuxPosts, ToCoreIn DEF PerfShape
  <2>2. UNCHANGED <<f_fault, Perf!recvVars, send, signal, args, loaned, tick, outbox>>
    BY <1>3 DEF ToolStep, Perf!CoreRest
  <2>3. linux' \in {"idle", "sending", "acked", "receiving", "ended"} /\ ended' \in BOOLEAN
    BY <1>3 DEF ToolStep, Perf!SendPackets
  <2> QED BY <2>1, <2>2, <2>3
<1>4. CASE ToolStep(Perf!EndSending)
  <2>1. inbox' \in Seq(PerfMsgs) /\ Len(inbox') + loaned <= Buffers
    BY <1>4, LinuxPosts, ToCoreIn DEF PerfShape
  <2>2. UNCHANGED <<f_fault, Perf!recvVars, send, signal, args, loaned, tick, outbox>>
    BY <1>4 DEF ToolStep, Perf!CoreRest
  <2>3. linux' \in {"idle", "sending", "acked", "receiving", "ended"} /\ ended' \in BOOLEAN
    BY <1>4 DEF ToolStep, Perf!EndSending
  <2> QED BY <2>1, <2>2, <2>3
<1>5. CASE ToolStep(Perf!EndReceiving)
  <2>1. inbox' \in Seq(PerfMsgs) /\ Len(inbox') + loaned <= Buffers
    BY <1>5, LinuxPosts, ToCoreIn DEF PerfShape
  <2>2. UNCHANGED <<f_fault, Perf!recvVars, send, signal, args, loaned, tick, outbox>>
    BY <1>5 DEF ToolStep, Perf!CoreRest
  <2>3. linux' \in {"idle", "sending", "acked", "receiving", "ended"} /\ ended' \in BOOLEAN
    BY <1>5 DEF ToolStep, Perf!EndReceiving
  <2> QED BY <2>1, <2>2, <2>3
<1>6. CASE Perf!LinuxReceives
  BY <1>6, TakeFirst DEF Perf!LinuxReceives, Perf!CoreRest, PerfShape, LoanAt
<1>7. CASE Perf!InitTask
  BY <1>7 DEF Perf!InitTask, PerfShape, LoanAt
<1>8. CASE Perf!Receive
  <2>1. Len(inbox') = Len(inbox) - 1 /\ Len(inbox) \in Nat
    BY <1>8, TakeFirst DEF Perf!Receive, PerfShape
  <2>2. loaned = 0 /\ loaned' \in {0, 1} /\ release_buf' \in BOOLEAN /\ recv' = "handle"
    BY <1>8 DEF Perf!Receive, LoanAt
  <2>3. UNCHANGED <<linux, ended, f_fault, send, no_copy, no_copy_old, rx_len, packet_size, signal, tick, args, outbox>>
    BY <1>8 DEF Perf!Receive
  <2>4. Len(inbox') + loaned' <= Buffers
    BY <2>1, <2>2
  <2> QED BY <2>2, <2>3, <2>4
<1>9. CASE HandleStep(Perf!SenderStart)
  <2>1. p_in.test.packet_size \in 1..(CountWidth - 1) /\ p_in.test.no_copy \in BOOLEAN
    BY DEF PerfShape, PerfMsgs, Perf!Tests
  <2>2. /\ packet_size' = p_in.test.packet_size /\ no_copy' = p_in.test.no_copy /\ no_copy_old' = no_copy
        /\ rx_len' = 0 /\ recv' = "release"
    BY <1>9 DEF HandleStep, Perf!SenderStart, Perf!Handles, Perf!RxLenAtStart
  <2>3. UNCHANGED <<linux, ended, f_fault, send, release_buf, signal, tick, args, loaned, inbox, outbox>>
    BY <1>9 DEF HandleStep, Perf!SenderStart, Perf!Handles
  <2> QED BY <2>1, <2>2, <2>3
<1>10. CASE HandleStep(Perf!Data)
  <2>1. rx_len + p_in.test.packet_size \in Int
    BY DEF PerfShape, PerfMsgs, Perf!Tests
  <2>2. rx_len' \in 0..(CountWidth - 1)
    BY <1>10, <2>1, ModRange DEF HandleStep, Perf!Data
  <2>3. UNCHANGED <<linux, ended, f_fault, send, no_copy, no_copy_old, release_buf, packet_size, signal, tick, args, loaned, inbox, outbox>>
    BY <1>10 DEF HandleStep, Perf!Data, Perf!Handles
  <2>4. recv' = "release"
    BY <1>10 DEF HandleStep, Perf!Data, Perf!Handles
  <2> QED BY <2>2, <2>3, <2>4
<1>11. CASE HandleStep(Perf!SenderEnd)
  BY <1>11, CorePosts, ToLinuxIn DEF Perf!SenderEnd, HandleStep, Perf!Handles,
     Perf!APP_SendPacket, PerfShape, LoanAt
<1>12. CASE HandleStep(Perf!ReceiverStart)
  <2>1. p_in.test.length \in Int /\ tick \in Int /\ p_in.test.no_copy \in BOOLEAN
    BY DEF PerfShape, PerfMsgs, Perf!Tests
  <2>2. tick + p_in.test.length \in Int
    BY <2>1
  <2>3. args'.end_ticks \in 0..(TickWidth - 1)
    BY <1>12, <2>2, ModRange DEF HandleStep, Perf!ReceiverStart
  <2>4. no_copy' \in BOOLEAN
    BY <1>12, <2>1 DEF HandleStep, Perf!ReceiverStart
  <2>5. f_fault' \in {"none", "assert"} /\ recv' = "release" /\ signal' = 1
    BY <1>12 DEF HandleStep, Perf!ReceiverStart, Perf!Handles
  <2>6. UNCHANGED <<linux, ended, send, no_copy_old, release_buf, rx_len, packet_size, tick, loaned, inbox, outbox>>
    BY <1>12 DEF HandleStep, Perf!ReceiverStart, Perf!Handles
  <2> QED BY <2>3, <2>4, <2>5, <2>6
<1>13. CASE HandleStep(Perf!ReceiverEndAck)
  BY <1>13 DEF Perf!ReceiverEndAck, HandleStep, Perf!Handles, PerfShape, LoanAt
<1>14. CASE Perf!Release
  BY <1>14, NothingIn DEF Perf!Release, PerfShape, LoanAt
<1>15. CASE Perf!TakeSignal
  BY <1>15 DEF Perf!TakeSignal, Perf!SendRest, PerfShape, LoanAt
<1>16. CASE Perf!SendPacket
  BY <1>16, CorePosts, ToLinuxIn DEF Perf!SendPacket, Perf!SendRest, Perf!APP_SendPacket,
     PerfShape, LoanAt
<1>17. CASE Perf!CheckTime
  BY <1>17, ModRange DEF Perf!CheckTime, Perf!SendRest, PerfShape, LoanAt
<1>18. CASE Perf!SendEnd
  BY <1>18, CorePosts, ToLinuxIn DEF Perf!SendEnd, Perf!SendRest, Perf!APP_SendPacket, PerfShape,
     LoanAt
<1>19. CASE Perf!Tick
  <2>1. tick + 1 \in Int
    OBVIOUS
  <2>2. tick' \in 0..(TickWidth - 1)
    BY <1>19, <2>1, ModRange DEF Perf!Tick
  <2>3. UNCHANGED <<linux, ended, f_fault, Perf!recvVars, send, signal, args, loaned, inbox, outbox>>
    BY <1>19 DEF Perf!Tick
  <2> QED BY <2>2, <2>3
<1> QED BY <1>1, <1>2, <1>3, <1>4, <1>5, <1>6, <1>7, <1>8, <1>9, <1>10, <1>11, <1>12, <1>13,
   <1>14, <1>15, <1>16, <1>17, <1>18, <1>19, PerfSteps

(* Products of counts.                                                     *)
LEMMA Distribute ==
    ASSUME NEW a \in Nat, NEW b \in Nat
    PROVE  (a + 1) * b = a * b + b /\ a * b \in Nat /\ (a + 1) * b \in Nat /\ a * b <= (a + 1) * b
<1>1. (a + 1) * b = a * b + b
  OBVIOUS
<1>2. a * b \in Nat
  OBVIOUS
<1> QED BY <1>1, <1>2

-----------------------------------------------------------------------------
(* The queue of messages to handle, by step.                               *)

(* It is a sequence of messages.                                           *)
LEMMA PipeTyped ==
    ASSUME PerfShape
    PROVE  Pipe \in Seq(PerfMsgs) /\ Len(Pipe) \in Nat /\ DOMAIN Pipe = 1..Len(Pipe)
<1>1. Pipe \in Seq(PerfMsgs)
  BY PutFirst DEF Pipe, PerfShape
<1> QED BY <1>1

(* A message that the receive task takes in hand is still to be handled.   *)
LEMMA PipeStays ==
    ASSUME PerfShape,
           UNCHANGED perfVars \/ Perf!LinuxReceives \/ Perf!InitTask \/ Perf!Receive \/ Perf!Release \/ Perf!TakeSignal
           \/ Perf!SendPacket \/ Perf!CheckTime \/ Perf!SendEnd \/ Perf!Tick
    PROVE  UNCHANGED Pipe
<1>1. CASE Perf!Receive
  <2>1. recv = "wait" /\ recv' = "handle" /\ p_in' = Head(inbox) /\ inbox' = Tail(inbox) /\ inbox # <<>>
    BY <1>1 DEF Perf!Receive
  <2> QED BY <2>1, FirstAndRest DEF Pipe, PerfShape
<1>2. CASE Perf!Release
  BY <1>2 DEF Perf!Release, Pipe
<1>3. CASE ~Perf!Receive /\ ~Perf!Release
  <2>1. UNCHANGED <<recv, p_in, inbox>>
    BY <1>3 DEF perfVars, Perf!LinuxReceives, Perf!CoreRest, Perf!InitTask, Perf!TakeSignal,
       Perf!SendPacket, Perf!CheckTime, Perf!SendEnd, Perf!SendRest,
       Perf!Tick, Perf!linuxVars, Perf!recvVars
  <2> QED BY <2>1 DEF Pipe
<1> QED BY <1>1, <1>2, <1>3

(* A message that Linux sends comes last.                                  *)
LEMMA PipeGrows ==
    ASSUME PerfShape, NEW m \in PerfMsgs, Perf!ToCore(m), UNCHANGED <<recv, p_in>>
    PROVE  Pipe' = Append(Pipe, m)
<1>1. inbox' = Append(inbox, m) /\ inbox \in Seq(PerfMsgs) /\ p_in \in PerfMsgs
  BY DEF Perf!ToCore, PerfShape
<1>2. <<p_in>> \o Append(inbox, m) = Append(<<p_in>> \o inbox, m)
  BY <1>1
<1> QED BY <1>1, <1>2 DEF Pipe

(* The one that is handled was the first.                                  *)
LEMMA PipeShrinks ==
    ASSUME PerfShape,
           HandleStep(Perf!SenderStart) \/ HandleStep(Perf!Data) \/ HandleStep(Perf!SenderEnd)
           \/ HandleStep(Perf!ReceiverStart) \/ HandleStep(Perf!ReceiverEndAck)
    PROVE  Pipe # <<>> /\ Pipe[1] = p_in /\ Pipe' = Tail(Pipe)
<1>1. recv = "handle" /\ recv' = "release" /\ UNCHANGED inbox
  BY DEF HandleStep, Perf!SenderStart, Perf!Data, Perf!SenderEnd, Perf!ReceiverStart,
     Perf!ReceiverEndAck, Perf!Handles
<1>2. Pipe = <<p_in>> \o inbox /\ Pipe' = inbox
  BY <1>1 DEF Pipe
<1>3. inbox \in Seq(PerfMsgs) /\ p_in \in PerfMsgs
  BY DEF PerfShape
<1>4. Pipe # <<>> /\ Head(Pipe) = p_in /\ Tail(Pipe) = inbox
  BY <1>2, <1>3, PutFirst
<1>5. Head(Pipe) = Pipe[1]
  BY <1>4, PipeTyped, TakeFirst
<1> QED BY <1>2, <1>4, <1>5

(* Answers in the queue of Linux.                                          *)
Answers == AnswersAt /\ TestUnderWay /\ AcksRight

(* Steps that touch none of what the answers are made of.                  *)
LEMMA NothingMoves ==
    ASSUME Answers, UNCHANGED <<Pipe, outbox, linux, test, sent, packet_size, rx_len>>
    PROVE  Answers'
BY DEF Answers, AnswersAt, TestUnderWay, AcksRight, Acked, StartUnderWay, PacketsUnderWay,
   UnderWay, Ends

(* A message to Linux that is no answer.                                   *)
LEMMA OtherPosted ==
    ASSUME PerfShape, Answers, NEW m \in PerfMsgs, ~IsAck(m), outbox' = Append(outbox, m),
           UNCHANGED <<Pipe, linux, test, sent, packet_size, rx_len>>
    PROVE  Answers'
<1>1. /\ DOMAIN outbox = 1..Len(outbox) /\ DOMAIN outbox' = 1..(Len(outbox) + 1) /\ Len(outbox) \in Nat
      /\ \A k \in 1..Len(outbox) : outbox'[k] = outbox[k]
      /\ outbox'[Len(outbox) + 1] = m
  BY PutLast DEF PerfShape
<1>2. \A k \in DOMAIN outbox' : IsAck(outbox'[k]) => k \in DOMAIN outbox /\ outbox'[k] = outbox[k]
  BY <1>1 DEF IsAck
<1>3. Acked' <=> Acked
  BY <1>1, <1>2 DEF Acked, IsAck
<1>4. AnswersAt'
  BY <1>2, <1>3 DEF Answers, AnswersAt
<1>5. TestUnderWay'
  BY <1>3 DEF Answers, TestUnderWay, StartUnderWay, PacketsUnderWay, UnderWay, Ends
<1>6. AcksRight'
  BY <1>2 DEF Answers, AcksRight
<1> QED BY <1>4, <1>5, <1>6 DEF Answers

(* The send task sends a packet or its end.                                *)
LEMMA AnswersAfterSend ==
    ASSUME Perf!PerfAssumption, Perf!TypeOK, PerfShape, Answers, Perf!SendPacket \/ Perf!SendEnd
    PROVE  Answers'
<1>1. PICK m \in PerfMsgs : outbox' = Append(outbox, m) /\ ~IsAck(m)
  <2>1. CASE Perf!SendPacket
    BY <2>1, MsgIn, NothingIn DEF Perf!SendPacket, Perf!APP_SendPacket, Preambles, IsAck
  <2>2. CASE Perf!SendEnd
    <3>1. args.send_packet_cnt \in Int
      BY DEF PerfShape
    <3> QED BY <2>2, <3>1, MsgIn, NothingIn DEF Perf!SendEnd, Perf!APP_SendPacket, Preambles, IsAck
  <2> QED BY <2>1, <2>2
<1>2. UNCHANGED <<linux, test, sent, packet_size, rx_len>>
  BY DEF Perf!SendPacket, Perf!SendEnd, Perf!SendRest, Perf!linuxVars, Perf!recvVars
<1> QED BY <1>1, <1>2, PipeStays, OtherPosted

(* Linux takes a message from its queue.                                   *)
LEMMA AnswersAfterReceipt ==
    ASSUME PerfShape, Answers, Perf!LinuxReceives
    PROVE  Answers'
<1>1. /\ outbox # <<>> /\ outbox' = Tail(outbox)
      /\ UNCHANGED <<Pipe, test, sent, packet_size, rx_len>>
  BY PipeStays DEF Perf!LinuxReceives, Perf!CoreRest, Perf!recvVars
<1>2. /\ DOMAIN outbox = 1..Len(outbox) /\ DOMAIN outbox' = 1..(Len(outbox) - 1) /\ Len(outbox) \in Nat
      /\ Len(outbox) >= 1 /\ Head(outbox) = outbox[1]
      /\ \A k \in 1..(Len(outbox) - 1) : outbox'[k] = outbox[k + 1]
  BY <1>1, TakeFirst DEF PerfShape
<1>3. \A k \in DOMAIN outbox' : k + 1 \in DOMAIN outbox /\ outbox'[k] = outbox[k + 1] /\ k \in Nat /\ k # 0
  BY <1>2
<1>4. AcksRight'
  BY <1>1, <1>3 DEF Answers, AcksRight
<1>5. \A j, k \in DOMAIN outbox' : IsAck(outbox'[j]) /\ IsAck(outbox'[k]) => j = k
  <2> SUFFICES ASSUME NEW j \in DOMAIN outbox', NEW k \in DOMAIN outbox', IsAck(outbox'[j]), IsAck(outbox'[k])
               PROVE  j = k
    OBVIOUS
  <2>1. j + 1 = k + 1
    BY <1>3 DEF Answers, AnswersAt
  <2> QED BY <1>3, <2>1
<1>6. Acked' => Acked
  BY <1>3 DEF Acked
<1>7. CASE IsAck(outbox[1])
  <2>1. Acked /\ linux = "acked"
    BY <1>2, <1>7 DEF Acked, Answers, AnswersAt
  <2>2. linux' = "idle"
    BY <1>2, <1>7, <2>1 DEF Perf!LinuxReceives, IsAck
  <2>3. ~Acked'
    <3> SUFFICES ASSUME NEW k \in DOMAIN outbox', IsAck(outbox'[k]) PROVE FALSE
      BY DEF Acked
    <3>1. k + 1 = 1
      BY <1>2, <1>3, <1>7 DEF Answers, AnswersAt
    <3> QED BY <1>3, <3>1
  <2>4. \A k \in DOMAIN Pipe : Pipe[k].preamble # "SENDER_END"
    BY <2>1 DEF Answers, AnswersAt
  <2>5. AnswersAt'
    BY <1>1, <1>5, <2>3, <2>4 DEF AnswersAt
  <2>6. TestUnderWay'
    BY <2>2 DEF TestUnderWay
  <2> QED BY <1>4, <2>5, <2>6 DEF Answers
<1>8. CASE ~IsAck(outbox[1])
  <2>1. Acked => Acked'
    <3> SUFFICES ASSUME NEW k \in DOMAIN outbox, IsAck(outbox[k]) PROVE Acked'
      BY DEF Acked
    <3>1. k - 1 \in DOMAIN outbox' /\ (k - 1) + 1 = k
      BY <1>2, <1>8
    <3>2. outbox'[k - 1] = outbox[k]
      BY <1>3, <3>1
    <3> QED BY <3>1, <3>2 DEF Acked, IsAck
  <2>2. linux' = linux \/ (linux = "ended" /\ linux' = "idle")
    BY <1>2, <1>8 DEF Perf!LinuxReceives, IsAck
  <2>3. AnswersAt'
    BY <1>1, <1>5, <1>6, <2>1, <2>2 DEF Answers, AnswersAt
  <2>4. linux' = linux => TestUnderWay'
    BY <1>1, <1>6, <2>1 DEF Answers, TestUnderWay, StartUnderWay, PacketsUnderWay, UnderWay, Ends
  <2>5. linux' = "idle" => TestUnderWay'
    BY DEF TestUnderWay
  <2> QED BY <1>4, <2>2, <2>3, <2>4, <2>5 DEF Answers
<1> QED BY <1>7, <1>8

(* Linux puts a message in the core's queue.                               *)
LEMMA AnswersAfterPost ==
    ASSUME Perf!PerfAssumption, PerfShape, Answers,
           \/ ToolStep(Perf!StartTest) \/ ToolStep(Perf!SendPackets)
           \/ ToolStep(Perf!EndSending) \/ ToolStep(Perf!EndReceiving)
    PROVE  Answers'
<1>1. UNCHANGED <<recv, p_in, outbox, packet_size, rx_len>> /\ (Acked' <=> Acked)
  BY DEF ToolStep, Perf!CoreRest, Perf!recvVars, Acked
<1>2. Pipe \in Seq(PerfMsgs) /\ Len(Pipe) \in Nat /\ DOMAIN Pipe = 1..Len(Pipe) /\ sent \in Nat
  BY PipeTyped DEF PerfShape
<1>3. ASSUME NEW m \in PerfMsgs, Perf!ToCore(m)
      PROVE  /\ DOMAIN Pipe' = 1..(Len(Pipe) + 1) /\ Len(Pipe') = Len(Pipe) + 1
             /\ \A k \in 1..Len(Pipe) : Pipe'[k] = Pipe[k]
             /\ Pipe'[Len(Pipe) + 1] = m
  <2>1. Pipe' = Append(Pipe, m)
    BY <1>1, <1>3, PipeGrows
  <2> QED BY <1>2, <1>3, <2>1, PutLast
<1>4. CASE ToolStep(Perf!StartTest)
  <2> DEFINE p == IF test'.sender THEN "SENDER_START" ELSE "RECEIVER_START"
             m == Perf!Msg(p, test', 0)
  <2>1. linux = "idle" /\ sent' = 0 /\ linux' = (IF test'.sender THEN "sending" ELSE "receiving") /\ Perf!ToCore(m)
    BY <1>4 DEF ToolStep, Perf!StartTest
  <2>2. m \in PerfMsgs /\ m.preamble = p /\ m.test = test'
    <3>1. test' \in Perf!Tests /\ p \in Preambles
      BY <1>4, LinuxPosts DEF Preambles
    <3> QED BY <3>1, MsgIn
  <2>3. p # "SENDER_END" /\ (linux' = "sending" => p = "SENDER_START")
    BY <2>1
  <2> HIDE DEF m, p
  <2>4. ~Acked /\ \A k \in DOMAIN Pipe : Pipe[k].preamble # "SENDER_END"
    BY <2>1 DEF Answers, AnswersAt
  <2>5. /\ DOMAIN Pipe' = 1..(Len(Pipe) + 1) /\ Len(Pipe') = Len(Pipe) + 1
        /\ \A k \in 1..Len(Pipe) : Pipe'[k] = Pipe[k]
        /\ Pipe'[Len(Pipe) + 1] = m
    BY <1>3, <2>1, <2>2
  <2>6. AnswersAt' /\ AcksRight'
    <3>1. \A k \in DOMAIN Pipe' : Pipe'[k].preamble # "SENDER_END"
      BY <1>2, <2>2, <2>3, <2>4, <2>5
    <3> QED BY <1>1, <2>4, <3>1 DEF AnswersAt, AcksRight, Acked, IsAck
  <2>7. CASE linux' = "sending"
    <3>1. Ends' = 0
      BY <2>7 DEF Ends
    <3>2. StartUnderWay'
      <4>0. PICK k \in Nat : k = Len(Pipe) + 1
        BY <1>2
      <4>1. k \in DOMAIN Pipe' /\ k = Len(Pipe') - Ends' - sent'
        BY <1>2, <2>1, <2>5, <3>1, <4>0
      <4>2. Pipe'[k].preamble = "SENDER_START" /\ Pipe'[k].test = test'
        BY <2>2, <2>3, <2>5, <2>7, <4>0
      <4>3. UnderWay(k + 1)'
        BY <1>2, <2>5, <2>7, <3>1, <4>0 DEF UnderWay
      <4> QED BY <4>1, <4>2, <4>3 DEF StartUnderWay
    <3> QED BY <2>6, <3>2 DEF Answers, TestUnderWay
  <2>8. CASE linux' # "sending"
    <3>1. linux' = "receiving"
      BY <2>1, <2>8
    <3> QED BY <2>6, <3>1 DEF Answers, TestUnderWay
  <2> QED BY <2>7, <2>8
<1>5. CASE ToolStep(Perf!SendPackets)
  <2> DEFINE m == Perf!Msg("data", test, 0)
  <2>1. linux = "sending" /\ sent' = sent + 1 /\ UNCHANGED <<test, linux>> /\ Perf!ToCore(m)
    BY <1>5 DEF ToolStep, Perf!SendPackets
  <2>2. m \in PerfMsgs /\ m.preamble = "data" /\ m.test = test
    BY MsgIn DEF Preambles, PerfShape
  <2> HIDE DEF m
  <2>3. /\ DOMAIN Pipe' = 1..(Len(Pipe) + 1) /\ Len(Pipe') = Len(Pipe) + 1
        /\ \A k \in 1..Len(Pipe) : Pipe'[k] = Pipe[k]
        /\ Pipe'[Len(Pipe) + 1] = m
    BY <1>3, <2>1, <2>2
  <2>4. ~Acked /\ \A k \in DOMAIN Pipe : Pipe[k].preamble # "SENDER_END"
    BY <2>1 DEF Answers, AnswersAt
  <2>5. AnswersAt' /\ AcksRight'
    <3>1. \A k \in DOMAIN Pipe' : Pipe'[k].preamble # "SENDER_END"
      BY <1>2, <2>2, <2>3, <2>4
    <3> QED BY <1>1, <2>4, <3>1 DEF AnswersAt, AcksRight, Acked, IsAck
  <2>6. Ends = 0 /\ Ends' = 0
    BY <2>1 DEF Ends
  <2>7. ASSUME NEW p \in Nat \ {0}, UnderWay(p) PROVE UnderWay(p)'
    BY <1>2, <2>1, <2>2, <2>3, <2>6, <2>7 DEF UnderWay
  <2>8. CASE StartUnderWay
    <3>1. PICK p \in DOMAIN Pipe :
            /\ p = Len(Pipe) - Ends - sent
            /\ Pipe[p].preamble = "SENDER_START" /\ Pipe[p].test = test /\ UnderWay(p + 1)
      BY <2>8 DEF StartUnderWay
    <3>2. p \in DOMAIN Pipe' /\ p = Len(Pipe') - Ends' - sent' /\ Pipe'[p] = Pipe[p]
      BY <1>2, <2>1, <2>3, <2>6, <3>1
    <3>3. UnderWay(p + 1)'
      BY <1>2, <2>7, <3>1
    <3>4. StartUnderWay'
      BY <2>1, <3>1, <3>2, <3>3 DEF StartUnderWay
    <3> QED BY <2>5, <3>4 DEF Answers, TestUnderWay
  <2>9. CASE PacketsUnderWay
    <3>1. Len(Pipe') - Ends' <= sent' /\ UnderWay(1)' /\ packet_size' = test'.packet_size
      BY <1>1, <1>2, <2>1, <2>3, <2>6, <2>7, <2>9 DEF PacketsUnderWay
    <3>2. test.packet_size \in Nat
      BY DEF PerfShape, Perf!Tests
    <3>3. sent * test.packet_size <= sent' * test.packet_size /\ sent * test.packet_size \in Nat
      BY <1>2, <2>1, <3>2, Distribute
    <3>4. sent' - (Len(Pipe') - Ends') = sent - (Len(Pipe) - Ends)
      BY <1>2, <2>1, <2>3, <2>6
    <3>5. sent' * test.packet_size \in Nat
      BY <1>2, <2>1, <3>2, Distribute
    <3>6. sent' * test.packet_size < CountWidth => sent * test.packet_size < CountWidth
      BY <3>3, <3>5, Perf!PerfAssumption DEF Perf!PerfAssumption
    <3>7. PacketsUnderWay'
      BY <1>1, <2>1, <2>9, <3>1, <3>4, <3>6 DEF PacketsUnderWay
    <3> QED BY <2>5, <3>7 DEF Answers, TestUnderWay
  <2> QED BY <2>1, <2>8, <2>9 DEF Answers, TestUnderWay
<1>6. CASE ToolStep(Perf!EndSending)
  <2>1. linux = "sending" /\ UNCHANGED <<test, sent>>
    BY <1>6 DEF ToolStep, Perf!EndSending
  <2>2. ~Acked /\ \A k \in DOMAIN Pipe : Pipe[k].preamble # "SENDER_END"
    BY <2>1 DEF Answers, AnswersAt
  <2>3. AcksRight'
    BY <1>1, <2>2 DEF AcksRight, Acked, IsAck
  <2>4. CASE test.killed
    <3>1. linux' = "idle" /\ UNCHANGED inbox
      BY <1>6, <2>4 DEF ToolStep, Perf!EndSending
    <3>2. UNCHANGED Pipe
      BY <1>1, <3>1 DEF Pipe
    <3>3. AnswersAt'
      BY <1>1, <2>2, <3>2 DEF AnswersAt, Acked, IsAck
    <3>4. TestUnderWay'
      BY <3>1 DEF TestUnderWay
    <3> QED BY <2>3, <3>3, <3>4 DEF Answers
  <2>5. CASE ~test.killed
    <3> DEFINE m == Perf!Msg("SENDER_END", test, 0)
    <3>1. linux' = "acked" /\ Perf!ToCore(m)
      BY <1>6, <2>5 DEF ToolStep, Perf!EndSending
    <3>2. m \in PerfMsgs /\ m.preamble = "SENDER_END"
      BY MsgIn DEF Preambles, PerfShape
    <3> HIDE DEF m
    <3>3. /\ DOMAIN Pipe' = 1..(Len(Pipe) + 1) /\ Len(Pipe') = Len(Pipe) + 1
          /\ \A k \in 1..Len(Pipe) : Pipe'[k] = Pipe[k]
          /\ Pipe'[Len(Pipe) + 1] = m
      BY <1>3, <3>1, <3>2
    <3>4. \A k \in DOMAIN Pipe' : Pipe'[k].preamble = "SENDER_END" => k = Len(Pipe')
      BY <1>2, <2>2, <3>3
    <3>5. AnswersAt'
      BY <1>1, <2>2, <3>1, <3>4 DEF AnswersAt, Acked, IsAck
    <3>6. Ends = 0 /\ Ends' = 1
      BY <2>1, <3>1 DEF Ends
    <3>7. ASSUME NEW p \in Nat \ {0}, UnderWay(p) PROVE UnderWay(p)'
      <4>1. Pipe'[Len(Pipe')].preamble = "SENDER_END" /\ Len(Pipe') > 0
        BY <1>2, <3>2, <3>3
      <4>2. \A k \in p..(Len(Pipe') - Ends') : k \in p..(Len(Pipe) - Ends)
        BY <1>2, <3>3, <3>6
      <4>3. ASSUME NEW k \in p..(Len(Pipe) - Ends) PROVE Pipe'[k] = Pipe[k]
        BY <1>2, <3>3, <3>6, <4>3
      <4> QED BY <2>1, <3>7, <4>1, <4>2, <4>3 DEF UnderWay
    <3>8. StartUnderWay => StartUnderWay'
      <4> SUFFICES ASSUME NEW p \in DOMAIN Pipe, p = Len(Pipe) - Ends - sent,
                          Pipe[p].preamble = "SENDER_START", Pipe[p].test = test, UnderWay(p + 1)
                   PROVE  StartUnderWay'
        BY DEF StartUnderWay
      <4>1. p \in DOMAIN Pipe' /\ p = Len(Pipe') - Ends' - sent' /\ Pipe'[p] = Pipe[p]
        BY <1>2, <2>1, <3>3, <3>6
      <4>2. UnderWay(p + 1)'
        BY <1>2, <3>7
      <4> QED BY <2>1, <4>1, <4>2 DEF StartUnderWay
    <3>9. PacketsUnderWay => PacketsUnderWay'
      <4>1. Len(Pipe') - Ends' = Len(Pipe) - Ends
        BY <1>2, <3>3, <3>6
      <4>2. UnderWay(1) => UnderWay(1)'
        BY <3>7
      <4> QED BY <1>1, <2>1, <4>1, <4>2 DEF PacketsUnderWay
    <3> QED BY <2>1, <2>3, <3>5, <3>8, <3>9 DEF Answers, TestUnderWay
  <2> QED BY <2>4, <2>5
<1>7. CASE ToolStep(Perf!EndReceiving)
  <2>1. linux = "receiving" /\ linux' \in {"idle", "ended"} /\ UNCHANGED <<test, sent>>
    BY <1>7 DEF ToolStep, Perf!EndReceiving
  <2>2. ~Acked /\ \A k \in DOMAIN Pipe : Pipe[k].preamble # "SENDER_END"
    BY <2>1 DEF Answers, AnswersAt
  <2>3. AcksRight' /\ TestUnderWay'
    BY <1>1, <2>1, <2>2 DEF AcksRight, Acked, IsAck, TestUnderWay
  <2>4. \A k \in DOMAIN Pipe' : Pipe'[k].preamble # "SENDER_END"
    <3>1. CASE UNCHANGED inbox
      <4>1. UNCHANGED Pipe
        BY <1>1, <3>1 DEF Pipe
      <4> QED BY <2>2, <4>1
    <3>2. CASE Perf!ToCore(Perf!Msg("RECEIVER_END_ACK", test, 0))
      <4> DEFINE m == Perf!Msg("RECEIVER_END_ACK", test, 0)
      <4>1. m \in PerfMsgs /\ m.preamble = "RECEIVER_END_ACK"
        BY MsgIn DEF Preambles, PerfShape
      <4>2. Perf!ToCore(m)
        BY <3>2
      <4> HIDE DEF m
      <4> QED BY <1>2, <1>3, <2>2, <4>1, <4>2
    <3> QED BY <1>7, <3>1, <3>2 DEF ToolStep, Perf!EndReceiving
  <2>5. AnswersAt'
    BY <1>1, <2>2, <2>4 DEF AnswersAt, Acked, IsAck
  <2> QED BY <2>3, <2>5 DEF Answers
<1> QED BY <1>4, <1>5, <1>6, <1>7

(* A part of a product.                                                    *)
LEMMA Scaled ==
    ASSUME NEW a \in Nat, NEW s \in Nat, NEW b \in Nat, a <= s
    PROVE  a * b <= s * b /\ s * b \in Nat
<1>1. s * b = a * b + (s - a) * b
  OBVIOUS
<1>2. s - a \in Nat
  OBVIOUS
<1>3. (s - a) * b \in Nat /\ a * b \in Nat
  BY <1>2, Distribute
<1> QED BY <1>1, <1>3

(* A count that does not pass the wrap.                                    *)
LEMMA SmallRemainder ==
    ASSUME NEW m \in Nat \ {0}, NEW a \in Nat, a < m
    PROVE  a % m = a
OBVIOUS

(* The semaphore.                                                          *)
LEMMA PerfNoFaultKept ==
    ASSUME Perf!NoFault, [Perf!Next]_perfVars
    PROVE  Perf!NoFault'
<1> USE DEF Perf!NoFault, Perf!linuxVars, Perf!recvVars, Perf!sendVars
<1>1. CASE UNCHANGED perfVars
  BY <1>1 DEF perfVars
<1>2. CASE ToolStep(Perf!StartTest)
  BY <1>2 DEF Perf!StartTest, ToolStep, Perf!CoreRest, Perf!ToCore, Perf!RecvRuns
<1>3. CASE ToolStep(Perf!SendPackets)
  BY <1>3 DEF Perf!SendPackets, ToolStep, Perf!CoreRest, Perf!ToCore, Perf!RecvRuns
<1>4. CASE ToolStep(Perf!EndSending)
  BY <1>4 DEF Perf!EndSending, ToolStep, Perf!CoreRest, Perf!ToCore, Perf!RecvRuns
<1>5. CASE ToolStep(Perf!EndReceiving)
  BY <1>5 DEF Perf!EndReceiving, ToolStep, Perf!CoreRest, Perf!ToCore, Perf!RecvRuns
<1>6. CASE Perf!LinuxReceives
  BY <1>6 DEF Perf!LinuxReceives, Perf!CoreRest, Perf!RecvRuns
<1>7. CASE Perf!InitTask
  BY <1>7 DEF Perf!InitTask, Perf!RecvRuns
<1>8. CASE Perf!Receive
  BY <1>8 DEF Perf!Receive, Perf!RecvRuns
<1>9. CASE HandleStep(Perf!SenderStart)
  BY <1>9 DEF Perf!SenderStart, HandleStep, Perf!Handles, Perf!RxLenAtStart, Perf!RecvRuns
<1>10. CASE HandleStep(Perf!Data)
  BY <1>10 DEF Perf!Data, HandleStep, Perf!Handles, Perf!RecvRuns
<1>11. CASE HandleStep(Perf!SenderEnd)
  BY <1>11 DEF Perf!SenderEnd, HandleStep, Perf!Handles, Perf!APP_SendPacket, Perf!RecvRuns
<1>12. CASE HandleStep(Perf!ReceiverStart)
  BY <1>12 DEF Perf!ReceiverStart, HandleStep, Perf!Handles, Perf!RecvRuns
<1>13. CASE HandleStep(Perf!ReceiverEndAck)
  BY <1>13 DEF Perf!ReceiverEndAck, HandleStep, Perf!Handles, Perf!RecvRuns
<1>14. CASE Perf!Release
  BY <1>14 DEF Perf!Release, Perf!RecvRuns
<1>15. CASE Perf!TakeSignal
  BY <1>15 DEF Perf!TakeSignal, Perf!SendRest, Perf!RecvRuns
<1>16. CASE Perf!SendPacket
  BY <1>16 DEF Perf!SendPacket, Perf!SendRest, Perf!APP_SendPacket, Perf!RecvRuns
<1>17. CASE Perf!CheckTime
  BY <1>17 DEF Perf!CheckTime, Perf!SendRest, Perf!RecvRuns
<1>18. CASE Perf!SendEnd
  BY <1>18 DEF Perf!SendEnd, Perf!SendRest, Perf!APP_SendPacket, Perf!RecvRuns
<1>19. CASE Perf!Tick
  BY <1>19 DEF Perf!Tick, Perf!RecvRuns
<1> QED BY <1>1, <1>2, <1>3, <1>4, <1>5, <1>6, <1>7, <1>8, <1>9, <1>10, <1>11, <1>12, <1>13,
   <1>14, <1>15, <1>16, <1>17, <1>18, <1>19, PerfSteps

(* Dividing the bytes by the packet size gives the packets.                *)
LEMMA DivOfProduct ==
    ASSUME NEW a \in Nat, NEW b \in Nat \ {0}
    PROVE  (a * b) \div b = a
<1> DEFINE x == a * b
           q == x \div b
<1>1. x \in Nat /\ q \in Int /\ q * b <= x /\ x < (q + 1) * b
  OBVIOUS
<1>2. q = a
  <2>1. CASE q < a
    <3>1. q + 1 <= a
      BY <1>1, <2>1
    <3>2. (q + 1) * b <= a * b
      BY <1>1, <3>1
    <3> QED BY <1>1, <3>2
  <2>2. CASE q > a
    <3>1. q >= a + 1
      BY <1>1, <2>2
    <3>2. q * b >= (a + 1) * b /\ (a + 1) * b = a * b + b
      BY <1>1, <3>1
    <3> QED BY <1>1, <3>2
  <2> QED BY <1>1, <2>1, <2>2
<1> QED BY <1>2

(* The message in hand is handled.                                         *)

(* The end of a test is handled: the answer is posted, with the count.     *)
LEMMA AnswersAfterEnd ==
    ASSUME Perf!PerfAssumption, Perf!TypeOK, PerfShape, Answers, HandleStep(Perf!SenderEnd)
    PROVE  Answers'
<1>1. /\ recv = "handle" /\ p_in.preamble = "SENDER_END"
      /\ Perf!APP_SendPacket(Perf!Msg("SENDER_END_ACK", Perf!NoTest, rx_len \div packet_size))
      /\ UNCHANGED <<linux, test, sent>>
  BY DEF HandleStep, Perf!SenderEnd, Perf!Handles, Perf!linuxVars
<1>2. Pipe # <<>> /\ Pipe[1] = p_in /\ Pipe' = Tail(Pipe)
  BY PipeShrinks
<1>3. Pipe \in Seq(PerfMsgs) /\ Len(Pipe) \in Nat /\ DOMAIN Pipe = 1..Len(Pipe) /\ sent \in Nat
  BY PipeTyped DEF PerfShape
<1>4. Len(Pipe) >= 1 /\ DOMAIN Pipe' = 1..(Len(Pipe) - 1)
  BY <1>2, <1>3, TakeFirst
<1>5. Len(Pipe) = 1 /\ linux = "acked" /\ ~Acked /\ DOMAIN Pipe' = {}
  BY <1>1, <1>2, <1>3, <1>4 DEF Answers, AnswersAt
<1> DEFINE c == rx_len \div packet_size
           m == Perf!Msg("SENDER_END_ACK", Perf!NoTest, c)
<1>6. c = sent \/ sent * test.packet_size >= CountWidth
  <2>1. ~StartUnderWay
    <3> SUFFICES ASSUME NEW p \in DOMAIN Pipe, p = Len(Pipe) - Ends - sent PROVE FALSE
      BY DEF StartUnderWay
    <3> QED BY <1>3, <1>5 DEF Ends
  <2>2. PacketsUnderWay
    BY <1>5, <2>1 DEF Answers, TestUnderWay
  <2>3. test.packet_size \in Nat \ {0}
    BY DEF PerfShape, Perf!Tests
  <2>4. Len(Pipe) - Ends = 0
    BY <1>5 DEF Ends
  <2>5. packet_size = test.packet_size
        /\ (sent * test.packet_size < CountWidth => rx_len = (sent - 0) * test.packet_size)
    BY <2>2, <2>4 DEF PacketsUnderWay
  <2>6. sent - 0 = sent
    BY <1>3
  <2>7. sent * test.packet_size < CountWidth => c = sent
    BY <1>3, <2>3, <2>5, <2>6, DivOfProduct
  <2>8. sent * test.packet_size \in Int /\ CountWidth \in Int
    BY <1>3, <2>3, Distribute DEF Perf!PerfAssumption
  <2> QED BY <2>7, <2>8
<1>7. c \in Int
  BY DEF Perf!TypeOK, Perf!PerfAssumption
<1>8. m \in PerfMsgs /\ m.packet_cnt = c /\ outbox' = Append(outbox, m)
  BY <1>1, <1>7, MsgIn, NothingIn DEF Preambles, Perf!APP_SendPacket
<1> HIDE DEF m, c
<1>9. /\ DOMAIN outbox = 1..Len(outbox) /\ DOMAIN outbox' = 1..(Len(outbox) + 1) /\ Len(outbox) \in Nat
      /\ \A k \in 1..Len(outbox) : outbox'[k] = outbox[k]
      /\ outbox'[Len(outbox) + 1] = m
  BY <1>8, PutLast DEF PerfShape
<1>10. \A k \in DOMAIN outbox' : IsAck(outbox'[k]) => k = Len(outbox) + 1
  BY <1>5, <1>9 DEF Acked, IsAck
<1>11. AnswersAt'
  BY <1>1, <1>5, <1>10 DEF AnswersAt
<1>12. AcksRight'
  BY <1>1, <1>6, <1>8, <1>9, <1>10 DEF AcksRight
<1>13. IsAck(m)
  BY <1>7, MsgIn, NothingIn DEF m, IsAck, Preambles
<1>14. Acked'
  BY <1>9, <1>13 DEF Acked, IsAck
<1>15. TestUnderWay'
  BY <1>1, <1>5, <1>14 DEF TestUnderWay
<1> QED BY <1>11, <1>12, <1>15 DEF Answers

(* Another message is handled: a start, a packet or the core's own end.    *)
LEMMA AnswersAfterOther ==
    ASSUME Perf!PerfAssumption, Perf!TypeOK, PerfShape, Answers,
           \/ HandleStep(Perf!SenderStart) \/ HandleStep(Perf!Data)
           \/ HandleStep(Perf!ReceiverStart) \/ HandleStep(Perf!ReceiverEndAck)
    PROVE  Answers'
<1>1. /\ UNCHANGED <<linux, test, sent, outbox>>
      /\ p_in.preamble \in {"SENDER_START", "data", "RECEIVER_START", "RECEIVER_END_ACK"}
  BY DEF HandleStep, Perf!SenderStart, Perf!Data, Perf!ReceiverStart, Perf!ReceiverEndAck,
     Perf!Handles, Perf!linuxVars
<1>2. Pipe # <<>> /\ Pipe[1] = p_in /\ Pipe' = Tail(Pipe)
  BY PipeShrinks
<1>3. Pipe \in Seq(PerfMsgs) /\ Len(Pipe) \in Nat /\ DOMAIN Pipe = 1..Len(Pipe) /\ sent \in Nat
  BY PipeTyped DEF PerfShape
<1>4. /\ Len(Pipe) >= 1 /\ DOMAIN Pipe' = 1..(Len(Pipe) - 1) /\ Len(Pipe') = Len(Pipe) - 1
      /\ \A k \in 1..(Len(Pipe) - 1) : Pipe'[k] = Pipe[k + 1]
  BY <1>2, <1>3, TakeFirst
<1>5. (Acked' <=> Acked) /\ Ends' = Ends /\ Ends \in {0, 1}
  BY <1>1 DEF Acked, Ends
<1>6. AnswersAt'
  <2>1. \A k \in DOMAIN Pipe' : k + 1 \in DOMAIN Pipe /\ Pipe'[k] = Pipe[k + 1]
    BY <1>3, <1>4
  <2>2. \A k \in DOMAIN Pipe' : Pipe'[k].preamble = "SENDER_END" => k + 1 = Len(Pipe) /\ linux = "acked" /\ ~Acked
    BY <2>1 DEF Answers, AnswersAt
  <2>3. \A k \in DOMAIN Pipe' : Pipe'[k].preamble = "SENDER_END" => k = Len(Pipe') /\ linux' = "acked" /\ ~Acked'
    BY <1>1, <1>3, <1>4, <1>5, <2>2
  <2> QED BY <1>1, <1>5, <2>3 DEF Answers, AnswersAt
<1>7. AcksRight'
  BY <1>1 DEF Answers, AcksRight
<1>8. ASSUME linux = "acked", Pipe[Len(Pipe)].preamble = "SENDER_END"
      PROVE  Len(Pipe) > 1 /\ Len(Pipe') > 0 /\ Pipe'[Len(Pipe')].preamble = "SENDER_END"
  <2>1. Len(Pipe) # 1
    BY <1>1, <1>2, <1>8
  <2>2. Len(Pipe') \in 1..(Len(Pipe) - 1) /\ Len(Pipe') + 1 = Len(Pipe)
    BY <1>3, <1>4, <2>1
  <2> QED BY <1>3, <1>4, <1>8, <2>1, <2>2
<1>9. ASSUME NEW p \in Nat \ {0}, UnderWay(p + 1)
      PROVE  UnderWay(p)'
  <2>1. \A k \in p..(Len(Pipe') - Ends') : /\ k + 1 \in (p + 1)..(Len(Pipe) - Ends) /\ k \in 1..(Len(Pipe) - 1)
    BY <1>3, <1>4, <1>5
  <2>2. \A k \in p..(Len(Pipe') - Ends') : Pipe'[k].preamble = "data" /\ Pipe'[k].test = test
    BY <1>4, <1>9, <2>1 DEF UnderWay
  <2>3. linux = "acked" => Len(Pipe') > 0 /\ Pipe'[Len(Pipe')].preamble = "SENDER_END"
    BY <1>8, <1>9 DEF UnderWay
  <2> QED BY <1>1, <2>2, <2>3 DEF UnderWay
<1>10. ASSUME StartUnderWay PROVE StartUnderWay' \/ PacketsUnderWay'
  <2>1. PICK p \in DOMAIN Pipe :
          /\ p = Len(Pipe) - Ends - sent
          /\ Pipe[p].preamble = "SENDER_START" /\ Pipe[p].test = test /\ UnderWay(p + 1)
    BY <1>10 DEF StartUnderWay
  <2>2. CASE p = 1
    <3>1. HandleStep(Perf!SenderStart) /\ p_in.test = test
      BY <1>2, <2>1, <2>2 DEF HandleStep, Perf!SenderStart, Perf!Data, Perf!ReceiverStart,
         Perf!ReceiverEndAck, Perf!Handles
    <3>2. rx_len' = 0 /\ packet_size' = test.packet_size
      BY <3>1 DEF HandleStep, Perf!SenderStart, Perf!RxLenAtStart
    <3>3. Len(Pipe') - Ends' = sent
      BY <1>3, <1>4, <1>5, <2>1, <2>2
    <3>4. UnderWay(1)'
      BY <1>9, <2>1, <2>2
    <3>5. test.packet_size \in Nat /\ sent - sent = 0 /\ 0 * test.packet_size = 0
      BY <1>3 DEF PerfShape, Perf!Tests
    <3>6. PacketsUnderWay'
      BY <1>1, <1>3, <3>2, <3>3, <3>4, <3>5 DEF PacketsUnderWay
    <3> QED BY <3>6
  <2>3. CASE p # 1
    <3>1. PICK r \in Nat \ {0} : r = p - 1
      BY <1>3, <2>3
    <3>0. p \in 1..Len(Pipe) /\ p = Len(Pipe) - Ends - sent
      BY <1>3, <2>1
    <3>b. r \in 1..(Len(Pipe) - 1) /\ r + 1 = p
      BY <1>3, <3>0, <3>1
    <3>c. Ends \in Int
      BY <1>5
    <3>a. r = (Len(Pipe) - 1) - Ends - sent
      <4>1. \A l, e, u \in Int : (l - e - u) - 1 = (l - 1) - e - u
        OBVIOUS
      <4>2. Len(Pipe) \in Int /\ sent \in Int /\ Ends \in Int
        BY <1>3, <3>c
      <4>3. (Len(Pipe) - Ends - sent) - 1 = (Len(Pipe) - 1) - Ends - sent
        BY <4>1, <4>2
      <4>4. r = (Len(Pipe) - Ends - sent) - 1
        BY <3>0, <3>1
      <4> QED BY <4>3, <4>4
    <3>2. r \in DOMAIN Pipe' /\ r = Len(Pipe') - Ends' - sent' /\ Pipe'[r] = Pipe[p]
      <4>1. r \in DOMAIN Pipe' /\ Pipe'[r] = Pipe[p]
        BY <1>4, <3>b
      <4>2. Len(Pipe') = Len(Pipe) - 1 /\ Ends' = Ends /\ sent' = sent
        BY <1>1, <1>4, <1>5
      <4> QED BY <3>a, <4>1, <4>2
    <3>3. p = r + 1 /\ r + 1 \in Nat \ {0}
      BY <1>3, <3>1
    <3>4. UnderWay((r + 1) + 1)
      BY <2>1, <3>3
    <3>5. UnderWay(r + 1)'
      BY <1>9, <3>3, <3>4
    <3>6. StartUnderWay'
      BY <1>1, <2>1, <3>2, <3>5 DEF StartUnderWay
    <3> QED BY <3>6
  <2> QED BY <2>2, <2>3
<1>11. ASSUME PacketsUnderWay PROVE PacketsUnderWay'
  <2> DEFINE d == Len(Pipe) - Ends
  <2>1. d \in Int /\ d <= sent /\ d >= 0 /\ UnderWay(1) /\ packet_size = test.packet_size
        /\ (sent * test.packet_size < CountWidth => rx_len = (sent - d) * test.packet_size)
    BY <1>3, <1>4, <1>5, <1>11 DEF PacketsUnderWay
  <2>2. d >= 1
    <3> SUFFICES ASSUME d = 0 PROVE FALSE
      BY <2>1
    <3>1. Ends = 1 /\ Len(Pipe) = 1
      BY <1>3, <1>4, <1>5
    <3>2. linux = "acked"
      BY <3>1 DEF Ends
    <3>3. Pipe[Len(Pipe)].preamble = "SENDER_END"
      BY <2>1, <3>2 DEF UnderWay
    <3> QED BY <1>8, <3>1, <3>2, <3>3
  <2>3. Pipe[1].preamble = "data" /\ Pipe[1].test = test
    <3>1. 1 \in 1..(Len(Pipe) - Ends)
      BY <1>3, <1>5, <2>2
    <3> QED BY <2>1, <3>1 DEF UnderWay
  <2>4. HandleStep(Perf!Data) /\ p_in.test = test
    BY <1>2, <2>3 DEF HandleStep, Perf!SenderStart, Perf!Data, Perf!ReceiverStart,
       Perf!ReceiverEndAck, Perf!Handles
  <2>5. rx_len' = (rx_len + test.packet_size) % CountWidth /\ packet_size' = packet_size
    BY <2>4 DEF HandleStep, Perf!Data
  <2>6. Len(Pipe') - Ends' = d - 1
    BY <1>3, <1>4, <1>5
  <2>7. UnderWay(1)'
    <3>1. UnderWay(1 + 1)
      BY <2>1 DEF UnderWay
    <3> QED BY <1>9, <3>1
  <2> HIDE DEF d
  <2>8. test.packet_size \in Nat /\ CountWidth \in Nat \ {0}
    BY DEF PerfShape, Perf!Tests, Perf!PerfAssumption
  <2>9. sent * test.packet_size < CountWidth => rx_len' = (sent - (d - 1)) * test.packet_size
    <3> DEFINE z == test.packet_size
    <3> SUFFICES ASSUME sent * z < CountWidth PROVE rx_len' = (sent - (d - 1)) * z
      OBVIOUS
    <3>1. rx_len = (sent - d) * z
      BY <2>1
    <3>2. PICK a \in Nat : a = sent - d
      BY <1>3, <2>1
    <3>3. sent - (d - 1) = a + 1 /\ a + 1 <= sent /\ a + 1 \in Nat
      BY <1>3, <2>1, <2>2, <3>2
    <3>4. z \in Nat
      BY <2>8
    <3> HIDE DEF z
    <3>5. (a + 1) * z = a * z + z /\ (a + 1) * z \in Nat
      BY <3>4, Distribute
    <3>6. (a + 1) * z <= sent * z /\ sent * z \in Nat
      BY <1>3, <3>3, <3>4, Scaled
    <3>7. rx_len + z = (a + 1) * z /\ (a + 1) * z < CountWidth
      BY <2>8, <3>1, <3>2, <3>5, <3>6
    <3>8. rx_len' = ((a + 1) * z) % CountWidth
      BY <2>5, <3>7 DEF z
    <3>9. ((a + 1) * z) % CountWidth = (a + 1) * z
      BY <2>8, <3>5, <3>7, SmallRemainder
    <3> QED BY <3>3, <3>8, <3>9
  <2>10. d - 1 <= sent
    BY <1>3, <2>1
  <2> QED BY <1>1, <2>1, <2>5, <2>6, <2>7, <2>9, <2>10 DEF PacketsUnderWay
<1>12. TestUnderWay'
  BY <1>1, <1>5, <1>10, <1>11 DEF Answers, TestUnderWay
<1> QED BY <1>6, <1>7, <1>12 DEF Answers

(* The answers, at every step.                                             *)
LEMMA AnswersKept ==
    ASSUME Perf!PerfAssumption, Perf!TypeOK, PerfShape, Answers, [Perf!Next]_perfVars
    PROVE  Answers'
<1>1. CASE \/ UNCHANGED perfVars \/ Perf!InitTask \/ Perf!Receive \/ Perf!Release
           \/ Perf!TakeSignal \/ Perf!CheckTime \/ Perf!Tick
  <2>1. UNCHANGED Pipe
    BY <1>1, PipeStays
  <2>2. UNCHANGED <<outbox, linux, test, sent, packet_size, rx_len>>
    BY <1>1 DEF perfVars, Perf!InitTask, Perf!Receive, Perf!Release, Perf!TakeSignal,
       Perf!CheckTime, Perf!Tick, Perf!SendRest, Perf!linuxVars, Perf!recvVars
  <2> QED BY <2>1, <2>2, NothingMoves
<1> QED
  BY <1>1, PerfSteps, AnswersAfterPost, AnswersAfterReceipt, AnswersAfterSend, AnswersAfterEnd,
     AnswersAfterOther

-----------------------------------------------------------------------------
(* The invariant of the measurement is inductive, holds at first, and      *)
(* implies the properties.                                                 *)
LEMMA PerfInductive ==
    ASSUME Perf!PerfAssumption, PerfInv, [Perf!Next]_perfVars
    PROVE  PerfInv'
<1>1. Perf!TypeOK' /\ PerfShape' /\ LoanAt' /\ CountsAt'
  BY PerfTypeKept, PerfShapeKept, LoanKept, CountsKept DEF PerfInv
<1>2. Answers'
  BY AnswersKept DEF PerfInv, Answers
<1>3. Perf!NoFault'
  BY PerfNoFaultKept DEF PerfInv
<1> QED BY <1>1, <1>2, <1>3 DEF PerfInv, Answers

LEMMA PerfInitially ==
    ASSUME Perf!PerfAssumption, Perf!Init
    PROVE  PerfInv
<1>1. PICK s \in Scripts : Perf!InitWith(s)
  BY DEF Perf!Init
<1>2. s.tick \in 0..(TickWidth - 1) /\ s.tests \in Seq(Perf!Tests)
  BY DEF Perf!PerfAssumption
<1>3. Perf!TypeOK
  <2>1. /\ linux = "idle" /\ ended = FALSE /\ f_fault = "none" /\ recv = "wait" /\ send = "wait"
        /\ no_copy = TRUE /\ no_copy_old = TRUE /\ release_buf = FALSE
    BY <1>1 DEF Perf!InitWith
  <2>2. /\ rx_len = 0 /\ packet_size = 1 /\ signal = 0 /\ tick = s.tick /\ args.end_ticks = 0
        /\ loaned = 0 /\ inbox = <<>> /\ outbox = <<>>
    BY <1>1 DEF Perf!InitWith, Perf!NoArgs
  <2>3. rx_len \in 0..(CountWidth - 1) /\ packet_size \in 1..(CountWidth - 1) /\ 0 \in 0..(TickWidth - 1)
        /\ Len(inbox) + loaned <= Buffers /\ Len(outbox) <= Buffers
    BY <2>2 DEF Perf!PerfAssumption
  <2> QED BY <1>2, <2>1, <2>2, <2>3 DEF Perf!TypeOK
<1>4. PerfShape
  BY <1>1, <1>2, NothingIn DEF Perf!InitWith, PerfShape, Perf!NoArgs
<1>5. Perf!NoFault /\ LoanAt /\ CountsAt
  BY <1>1 DEF Perf!InitWith, Perf!NoFault, LoanAt, CountsAt, Perf!NoArgs
<1>6. AnswersAt /\ TestUnderWay /\ AcksRight
  BY <1>1 DEF Perf!InitWith, AnswersAt, TestUnderWay, AcksRight, Acked, Pipe
<1> QED BY <1>3, <1>4, <1>5, <1>6 DEF PerfInv

LEMMA PerfFollows ==
    ASSUME PerfInv
    PROVE  Perf!TypeOK /\ Perf!NoFault /\ Perf!CountsAgree
<1>1. send = "end" \/ (Perf!RecvRuns /\ recv = "handle" /\ p_in.preamble = "RECEIVER_END_ACK") =>
            args.send_packet_cnt = made
  BY DEF PerfInv, CountsAt, Perf!RecvRuns
<1> QED BY <1>1 DEF PerfInv, Perf!CountsAgree, AcksRight, IsAck

-----------------------------------------------------------------------------
(* The SRTM link.                                                          *)

(* What TypeOK does not bound.                                             *)
LinkFlags ==
    /\ disp \in BOOLEAN /\ monSig \in BOOLEAN /\ linkupTimer \in BOOLEAN /\ kicked \in BOOLEAN
    /\ s_again \in BOOLEAN /\ stale \in BOOLEAN /\ s_early \in BOOLEAN /\ direct \in BOOLEAN
LinkRecords ==
    /\ commands \in Seq({"start", "stop"})
    /\ rpmsgHandle \in [epoch : Int, up : BOOLEAN] /\ core \in [epoch : Int, active : BOOLEAN]
LinkShape ==
    /\ srtmState \in {"run", "linked", "reboot"} /\ s_state \in {"run", "shutdown"}
    /\ doing \in Srtm!States /\ procs \in Nat /\ peer \in Nat /\ live \in Nat

MonitorIdle   == m_pc \in {"take", "compare", "switch"}
CoreLinked == core # Srtm!NoCore

(* Which case the monitor is in, and what it was told.                     *)
CaseAt ==
    /\ ~MonitorIdle => IF doing = "run" THEN s_state = "shutdown"
                                       ELSE doing \in {"linked", "reboot"} /\ s_state = "run"
    /\ ~MonitorIdle /\ doing # "reboot" => srtmState = IF monSig THEN "reboot" ELSE doing
    /\ m_pc \in {"compare", "switch"} /\ srtmState # "reboot" => ~monSig
    /\ m_pc \in {"deinit", "gone"} => doing = "reboot"
    /\ m_pc \in {"init", "up"} => doing # "linked"
    /\ MonitorIdle /\ s_state = "shutdown" => srtmState = "run" \/ (srtmState = "reboot" /\ s_early)
    /\ m_pc = "take" /\ s_state = "shutdown" => monSig
    /\ m_pc = "switch" => srtmState # s_state

(* While a poll is at work the monitor waits for it or for its semaphore,  *)
(* or is on its way to handle a reset.                                     *)
PollsAt ==
    /\ poll # "idle" => \/ m_pc = "take" /\ ~monSig /\ (poll = "check" => srtmState = "run")
                        \/ MonitorIdle /\ srtmState = "reboot"
                        \/ m_pc = "stop" /\ doing = "reboot"
    /\ s_state = "shutdown" /\ m_pc # "start" => ~Srtm!PollToCome /\ poll = "idle"
    /\ poll # "idle" => disp

(* The instance is there, but for a first start and for a remake.          *)
InstanceAt ==
    /\ rpmsgHandle.epoch \in Nat \/ m_pc = "init" \/ (s_state = "shutdown" /\ (MonitorIdle \/ m_pc = "stop"))
    /\ CoreLinked => core.epoch = rpmsgHandle.epoch /\ core.epoch \in Nat
    /\ m_pc \in {"init", "up"} => ~CoreLinked
    /\ MonitorIdle /\ s_state = "shutdown" => ~CoreLinked
    /\ doing = "run" /\ m_pc \in {"stop", "link"} => ~CoreLinked

(* A reset that the instance does not know of is still to be handled.      *)
ResetPending ==
    rpmsgHandle.epoch # peer /\ ~s_again =>
        \/ m_pc \in {"deinit", "gone", "init"} \/ (m_pc = "stop" /\ doing # "linked")
        \/ MonitorIdle /\ s_state = "shutdown"
        \/ m_pc \in {"compare", "switch"} /\ srtmState = "reboot"
        \/ /\ m_pc \in {"take", "stop", "up", "link", "start"} /\ srtmState = "reboot" /\ monSig
           /\ m_pc = "take" \/ doing # "reboot"

(* Peer cores.                                                             *)
CoresCounted ==
    /\ CoreLinked /\ m_pc # "gone" => live >= 1
    /\ ~stale => IF m_pc = "gone" \/ ~CoreLinked THEN live = 0 ELSE live = 1

(* A core that is linked is not linked again.                              *)
LinkedOnce ==
    ~stale /\ CoreLinked =>
        /\ poll = "idle" /\ m_pc # "link" /\ (m_pc = "stop" => doing = "reboot")
        /\ MonitorIdle \/ m_pc = "start" =>
            \/ srtmState = "reboot" /\ (m_pc = "start" => doing # "reboot")
            \/ srtmState = "linked" /\ ~monSig /\ m_pc = "take"
            \/ srtmState = "linked" /\ ~monSig /\ m_pc = "start" /\ doing = "linked"
            \/ ~Srtm!PollToCome /\ (IF m_pc = "start" THEN doing # "linked" ELSE srtmState = "run")

LinkInv ==
    /\ Srtm!TypeOK /\ LinkShape /\ LinkFlags /\ LinkRecords /\ Srtm!NoFault
    /\ s_fault = "none" =>
        /\ CaseAt /\ PollsAt /\ InstanceAt /\ ResetPending /\ CoresCounted /\ LinkedOnce

-----------------------------------------------------------------------------
(* The steps of the poll.                                                  *)
PollStep(A) ==
    /\ Srtm!MonitorWaits /\ A
    /\ UNCHANGED <<env, Srtm!monitor, disp, linkupTimer, rpmsgHandle, core, peer, kicked, main_pc,
                   s_fault, live, Srtm!history>>
PollRun   == PollStep(Srtm!RunProc)
PollCheck == PollStep(Srtm!CheckLink)
PollGive  == PollStep(Srtm!Give)

(* The steps.                                                              *)
LEMMA LinkSteps ==
    ASSUME [Srtm!Next]_srtmVars
    PROVE  \/ UNCHANGED srtmVars
           \/ Srtm!Take
           \/ Srtm!Compare
           \/ Srtm!Switch
           \/ Srtm!StopDispatcher
           \/ Srtm!DeinitPeerCore
           \/ Srtm!Gone
           \/ Srtm!InitPeerCore
           \/ Srtm!IsLinkUp
           \/ Srtm!Linkup
           \/ Srtm!StartDispatcher
           \/ PollRun
           \/ PollCheck
           \/ PollGive
           \/ Srtm!LinkupTimerCallback
           \/ Srtm!TimerCommand
           \/ Srtm!HandleLmmPowerChange
           \/ Srtm!PeerKicks
           \/ Srtm!MainTask
BY DEF Srtm!Next, Srtm!MonitorTask, Srtm!PollLinkup, PollRun, PollCheck, PollGive, PollStep

(* After a fault nothing moves.                                            *)
LEMMA LinkGuard == ASSUME [Srtm!Next]_srtmVars PROVE s_fault = "none" \/ UNCHANGED srtmVars
BY DEF Srtm!Next

(* Sequences of commands.                                                  *)
HasStart(q) == \E k \in DOMAIN q : q[k] = "start"

LEMMA CommandSent ==
    ASSUME NEW q \in Seq({"start", "stop"}), NEW c \in {"start", "stop"}
    PROVE  /\ Append(q, c) \in Seq({"start", "stop"})
           /\ c = "stop" => (HasStart(Append(q, c)) <=> HasStart(q))
<1>1. /\ Append(q, c) \in Seq({"start", "stop"})
      /\ DOMAIN Append(q, c) = 1..(Len(q) + 1) /\ DOMAIN q = 1..Len(q) /\ Len(q) \in Nat
      /\ \A k \in 1..Len(q) : Append(q, c)[k] = q[k]
      /\ Append(q, c)[Len(q) + 1] = c
  OBVIOUS
<1> QED BY <1>1 DEF HasStart

LEMMA CommandTaken ==
    ASSUME NEW q \in Seq({"start", "stop"}), q # <<>>
    PROVE  /\ Tail(q) \in Seq({"start", "stop"}) /\ Head(q) \in {"start", "stop"}
           /\ HasStart(Tail(q)) => HasStart(q)
           /\ Head(q) = "start" => HasStart(q)
<1>1. /\ Tail(q) \in Seq({"start", "stop"}) /\ Head(q) = q[1] /\ Len(q) \in Nat /\ Len(q) # 0
      /\ DOMAIN Tail(q) = 1..(Len(q) - 1) /\ DOMAIN q = 1..Len(q)
      /\ \A k \in 1..(Len(q) - 1) : Tail(q)[k] = q[k + 1]
  BY HeadTailProperties
<1>2. Head(q) \in {"start", "stop"} /\ (Head(q) = "start" => HasStart(q))
  BY <1>1 DEF HasStart
<1>3. HasStart(Tail(q)) => HasStart(q)
  BY <1>1 DEF HasStart
<1> QED BY <1>1, <1>2, <1>3

(* A core that was made is told from none, linked or not.                  *)
LEMMA CoreActive == ASSUME NEW e PROVE [epoch |-> e, active |-> TRUE] # Srtm!NoCore
BY DEF Srtm!NoCore

LEMMA CoreInactive ==
    ASSUME NEW c \in [epoch : Int, active : BOOLEAN], c.epoch \in Nat
    PROVE  [c EXCEPT !.active = FALSE] # Srtm!NoCore
<1>1. [c EXCEPT !.active = FALSE].epoch = c.epoch
  OBVIOUS
<1> QED BY <1>1 DEF Srtm!NoCore

(* The same of the commands of the timer.                                  *)
LEMMA SentStop ==
    ASSUME LinkRecords, commands' = Append(commands, "stop")
    PROVE  (\E k \in DOMAIN commands' : commands'[k] = "start") =>
               (\E k \in DOMAIN commands : commands[k] = "start")
BY CommandSent DEF LinkRecords, HasStart

LEMMA TakenStart ==
    ASSUME LinkRecords, commands # <<>>, commands' = Tail(commands)
    PROVE  /\ (\E k \in DOMAIN commands' : commands'[k] = "start") =>
                   (\E k \in DOMAIN commands : commands[k] = "start")
           /\ Head(commands) = "start" => (\E k \in DOMAIN commands : commands[k] = "start")
BY CommandTaken DEF LinkRecords, HasStart

(* A poll is to come from the timer or from a command to start it.         *)
LEMMA ToCome == Srtm!PollToCome <=> procs > 0 \/ linkupTimer \/ HasStart(commands)
BY DEF Srtm!PollToCome, HasStart

(* The state keeps its shape. *)
LEMMA LinkShapeKept ==
    ASSUME LinkShape, Srtm!TypeOK, LinkFlags, LinkRecords, CoresCounted, [Srtm!Next]_srtmVars
    PROVE  LinkShape' /\ Srtm!TypeOK'
<1> USE DEF LinkShape, Srtm!TypeOK, Srtm!States, LinkFlags, srtmVars, Srtm!monitor, Srtm!timer,
   Srtm!history
<1>1. CASE UNCHANGED srtmVars
  BY <1>1
<1>2. CASE Srtm!Take
  BY <1>2 DEF Srtm!Take
<1>3. CASE Srtm!Compare
  BY <1>3 DEF Srtm!Compare
<1>4. CASE Srtm!Switch
  BY <1>4 DEF Srtm!Switch, Srtm!Asserted
<1>5. CASE Srtm!StopDispatcher
  BY <1>5 DEF Srtm!StopDispatcher
<1>6. CASE Srtm!DeinitPeerCore
  BY <1>6 DEF Srtm!DeinitPeerCore, CoresCounted, CoreLinked
<1>7. CASE Srtm!Gone
  BY <1>7 DEF Srtm!Gone
<1>8. CASE Srtm!InitPeerCore
  BY <1>8 DEF Srtm!InitPeerCore
<1>9. CASE Srtm!IsLinkUp
  BY <1>9 DEF Srtm!IsLinkUp
<1>10. CASE Srtm!Linkup
  BY <1>10 DEF Srtm!Linkup
<1>11. CASE Srtm!StartDispatcher
  BY <1>11 DEF Srtm!StartDispatcher, Srtm!Restored
<1>12. CASE PollRun
  BY <1>12 DEF PollRun, PollStep, Srtm!RunProc, Srtm!MonitorWaits
<1>13. CASE PollCheck
  BY <1>13 DEF PollCheck, PollStep, Srtm!CheckLink, Srtm!MonitorWaits
<1>14. CASE PollGive
  BY <1>14 DEF PollGive, PollStep, Srtm!Give, Srtm!MonitorWaits
<1>15. CASE Srtm!LinkupTimerCallback
  BY <1>15 DEF Srtm!LinkupTimerCallback
<1>16. CASE Srtm!TimerCommand
  BY <1>16 DEF Srtm!TimerCommand
<1>17. CASE Srtm!HandleLmmPowerChange
  BY <1>17 DEF Srtm!HandleLmmPowerChange
<1>18. CASE Srtm!PeerKicks
  BY <1>18 DEF Srtm!PeerKicks
<1>19. CASE Srtm!MainTask
  BY <1>19 DEF Srtm!MainTask
<1> QED BY <1>1, <1>2, <1>3, <1>4, <1>5, <1>6, <1>7, <1>8, <1>9, <1>10, <1>11, <1>12, <1>13,
   <1>14, <1>15, <1>16, <1>17, <1>18, <1>19, LinkSteps

(* The flags stay flags.                                                   *)
LEMMA LinkFlagsKept ==
    ASSUME LinkFlags, LinkRecords, [Srtm!Next]_srtmVars
    PROVE  LinkFlags'
<1> USE DEF LinkFlags, srtmVars, Srtm!monitor, Srtm!timer, Srtm!history
<1>1. CASE UNCHANGED srtmVars
  BY <1>1
<1>2. CASE Srtm!Take
  BY <1>2 DEF Srtm!Take
<1>3. CASE Srtm!Compare
  BY <1>3 DEF Srtm!Compare
<1>4. CASE Srtm!Switch
  BY <1>4 DEF Srtm!Switch, Srtm!Asserted
<1>5. CASE Srtm!StopDispatcher
  BY <1>5 DEF Srtm!StopDispatcher
<1>6. CASE Srtm!DeinitPeerCore
  BY <1>6 DEF Srtm!DeinitPeerCore
<1>7. CASE Srtm!Gone
  BY <1>7 DEF Srtm!Gone
<1>8. CASE Srtm!InitPeerCore
  BY <1>8 DEF Srtm!InitPeerCore, LinkShape
<1>9. CASE Srtm!IsLinkUp
  BY <1>9 DEF Srtm!IsLinkUp
<1>10. CASE Srtm!Linkup
  BY <1>10 DEF Srtm!Linkup, LinkShape
<1>11. CASE Srtm!StartDispatcher
  BY <1>11 DEF Srtm!StartDispatcher, Srtm!Restored
<1>12. CASE PollRun
  BY <1>12 DEF PollRun, PollStep, Srtm!RunProc, Srtm!MonitorWaits
<1>13. CASE PollCheck
  BY <1>13 DEF PollCheck, PollStep, Srtm!CheckLink, Srtm!MonitorWaits
<1>14. CASE PollGive
  BY <1>14 DEF PollGive, PollStep, Srtm!Give, Srtm!MonitorWaits
<1>15. CASE Srtm!LinkupTimerCallback
  BY <1>15 DEF Srtm!LinkupTimerCallback
<1>16. CASE Srtm!TimerCommand
  BY <1>16 DEF Srtm!TimerCommand
<1>17. CASE Srtm!HandleLmmPowerChange
  BY <1>17 DEF Srtm!HandleLmmPowerChange
<1>18. CASE Srtm!PeerKicks
  BY <1>18 DEF Srtm!PeerKicks
<1>19. CASE Srtm!MainTask
  BY <1>19 DEF Srtm!MainTask
<1> QED BY <1>1, <1>2, <1>3, <1>4, <1>5, <1>6, <1>7, <1>8, <1>9, <1>10, <1>11, <1>12, <1>13,
   <1>14, <1>15, <1>16, <1>17, <1>18, <1>19, LinkSteps

(* The commands, the instance and the core keep their shape.               *)
LEMMA LinkRecordsKept ==
    ASSUME LinkShape, LinkFlags, LinkRecords, [Srtm!Next]_srtmVars
    PROVE  LinkRecords'
<1> USE DEF LinkRecords, Srtm!NoCore, Srtm!NoRpmsg, srtmVars, Srtm!monitor, Srtm!timer, Srtm!history
<1>1. CASE UNCHANGED srtmVars
  BY <1>1
<1>2. CASE Srtm!Take
  BY <1>2 DEF Srtm!Take
<1>3. CASE Srtm!Compare
  BY <1>3 DEF Srtm!Compare
<1>4. CASE Srtm!Switch
  BY <1>4 DEF Srtm!Switch, Srtm!Asserted
<1>5. CASE Srtm!StopDispatcher
  BY <1>5 DEF Srtm!StopDispatcher
<1>6. CASE Srtm!DeinitPeerCore
  BY <1>6, CommandSent DEF Srtm!DeinitPeerCore
<1>7. CASE Srtm!Gone
  BY <1>7 DEF Srtm!Gone
<1>8. CASE Srtm!InitPeerCore
  BY <1>8 DEF Srtm!InitPeerCore, LinkShape, LinkFlags
<1>9. CASE Srtm!IsLinkUp
  BY <1>9, CommandSent DEF Srtm!IsLinkUp
<1>10. CASE Srtm!Linkup
  BY <1>10 DEF Srtm!Linkup, LinkShape, LinkFlags
<1>11. CASE Srtm!StartDispatcher
  BY <1>11 DEF Srtm!StartDispatcher, Srtm!Restored
<1>12. CASE PollRun
  BY <1>12 DEF PollRun, PollStep, Srtm!RunProc, Srtm!MonitorWaits
<1>13. CASE PollCheck
  BY <1>13, CommandSent DEF PollCheck, PollStep, Srtm!CheckLink, Srtm!MonitorWaits
<1>14. CASE PollGive
  BY <1>14 DEF PollGive, PollStep, Srtm!Give, Srtm!MonitorWaits
<1>15. CASE Srtm!LinkupTimerCallback
  BY <1>15 DEF Srtm!LinkupTimerCallback
<1>16. CASE Srtm!TimerCommand
  BY <1>16, CommandTaken DEF Srtm!TimerCommand
<1>17. CASE Srtm!HandleLmmPowerChange
  BY <1>17 DEF Srtm!HandleLmmPowerChange
<1>18. CASE Srtm!PeerKicks
  BY <1>18 DEF Srtm!PeerKicks
<1>19. CASE Srtm!MainTask
  BY <1>19 DEF Srtm!MainTask
<1> QED BY <1>1, <1>2, <1>3, <1>4, <1>5, <1>6, <1>7, <1>8, <1>9, <1>10, <1>11, <1>12, <1>13,
   <1>14, <1>15, <1>16, <1>17, <1>18, <1>19, LinkSteps

(* The case the monitor is in, at every step.                              *)
LEMMA CaseAtKept ==
    ASSUME Srtm!TypeOK, LinkShape, CaseAt, PollsAt,
           s_fault = "none", s_fault' = "none", [Srtm!Next]_srtmVars
    PROVE  CaseAt'
<1> USE DEF CaseAt, MonitorIdle, srtmVars, Srtm!monitor, Srtm!timer, Srtm!history
<1>1. CASE UNCHANGED srtmVars
  BY <1>1
<1>2. CASE Srtm!Take
  BY <1>2 DEF Srtm!Take
<1>3. CASE Srtm!Compare
  BY <1>3 DEF Srtm!Compare
<1>4. CASE Srtm!Switch
  BY <1>4 DEF Srtm!Switch, Srtm!Asserted
<1>5. CASE Srtm!StopDispatcher
  BY <1>5 DEF Srtm!StopDispatcher
<1>6. CASE Srtm!DeinitPeerCore
  BY <1>6 DEF Srtm!DeinitPeerCore
<1>7. CASE Srtm!Gone
  BY <1>7 DEF Srtm!Gone
<1>8. CASE Srtm!InitPeerCore
  BY <1>8 DEF Srtm!InitPeerCore
<1>9. CASE Srtm!IsLinkUp
  BY <1>9 DEF Srtm!IsLinkUp
<1>10. CASE Srtm!Linkup
  BY <1>10 DEF Srtm!Linkup
<1>11. CASE Srtm!StartDispatcher
  BY <1>11 DEF Srtm!StartDispatcher, Srtm!Restored
<1>12. CASE PollRun
  BY <1>12 DEF PollRun, PollStep, Srtm!RunProc, Srtm!MonitorWaits
<1>13. CASE PollCheck
  BY <1>13 DEF PollCheck, PollStep, Srtm!CheckLink, Srtm!MonitorWaits, PollsAt, Srtm!TypeOK
<1>14. CASE PollGive
  BY <1>14 DEF PollGive, PollStep, Srtm!Give, Srtm!MonitorWaits, PollsAt, Srtm!TypeOK
<1>15. CASE Srtm!LinkupTimerCallback
  BY <1>15 DEF Srtm!LinkupTimerCallback
<1>16. CASE Srtm!TimerCommand
  BY <1>16 DEF Srtm!TimerCommand
<1>17. CASE Srtm!HandleLmmPowerChange
  BY <1>17 DEF Srtm!HandleLmmPowerChange, LinkShape
<1>18. CASE Srtm!PeerKicks
  BY <1>18 DEF Srtm!PeerKicks
<1>19. CASE Srtm!MainTask
  BY <1>19 DEF Srtm!MainTask
<1> QED BY <1>1, <1>2, <1>3, <1>4, <1>5, <1>6, <1>7, <1>8, <1>9, <1>10, <1>11, <1>12, <1>13,
   <1>14, <1>15, <1>16, <1>17, <1>18, <1>19, LinkSteps

(* Where a poll to come may come from.                                     *)
LEMMA ComingKept ==
    ASSUME LinkRecords, LinkShape, [Srtm!Next]_srtmVars
    PROVE  Srtm!PollToCome' =>
               \/ Srtm!PollToCome
               \/ m_pc = "up" /\ m_pc' = "start"
               \/ poll = "check" /\ poll' = "idle" /\ UNCHANGED <<m_pc, s_state>>
<1> USE DEF Srtm!PollToCome, LinkShape, srtmVars, Srtm!monitor, Srtm!timer, Srtm!history
<1>1. CASE UNCHANGED srtmVars
  BY <1>1
<1>2. CASE Srtm!Take
  BY <1>2 DEF Srtm!Take
<1>3. CASE Srtm!Compare
  BY <1>3 DEF Srtm!Compare
<1>4. CASE Srtm!Switch
  BY <1>4 DEF Srtm!Switch, Srtm!Asserted
<1>5. CASE Srtm!StopDispatcher
  BY <1>5 DEF Srtm!StopDispatcher
<1>6. CASE Srtm!DeinitPeerCore
  BY <1>6, SentStop DEF Srtm!DeinitPeerCore
<1>7. CASE Srtm!Gone
  BY <1>7 DEF Srtm!Gone
<1>8. CASE Srtm!InitPeerCore
  BY <1>8 DEF Srtm!InitPeerCore
<1>9. CASE Srtm!IsLinkUp
  BY <1>9, CommandSent DEF Srtm!IsLinkUp
<1>10. CASE Srtm!Linkup
  BY <1>10 DEF Srtm!Linkup
<1>11. CASE Srtm!StartDispatcher
  BY <1>11 DEF Srtm!StartDispatcher, Srtm!Restored
<1>12. CASE PollRun
  BY <1>12 DEF PollRun, PollStep, Srtm!RunProc, Srtm!MonitorWaits
<1>13. CASE PollCheck
  BY <1>13, CommandSent DEF PollCheck, PollStep, Srtm!CheckLink, Srtm!MonitorWaits
<1>14. CASE PollGive
  BY <1>14 DEF PollGive, PollStep, Srtm!Give, Srtm!MonitorWaits
<1>15. CASE Srtm!LinkupTimerCallback
  BY <1>15 DEF Srtm!LinkupTimerCallback
<1>16. CASE Srtm!TimerCommand
  BY <1>16, TakenStart DEF Srtm!TimerCommand
<1>17. CASE Srtm!HandleLmmPowerChange
  BY <1>17 DEF Srtm!HandleLmmPowerChange
<1>18. CASE Srtm!PeerKicks
  BY <1>18 DEF Srtm!PeerKicks
<1>19. CASE Srtm!MainTask
  BY <1>19 DEF Srtm!MainTask
<1> QED BY <1>1, <1>2, <1>3, <1>4, <1>5, <1>6, <1>7, <1>8, <1>9, <1>10, <1>11, <1>12, <1>13,
   <1>14, <1>15, <1>16, <1>17, <1>18, <1>19, LinkSteps

(* A poll at work, at every step.                                          *)
LEMMA PollsAtKept ==
    ASSUME Srtm!TypeOK, LinkShape, LinkRecords, CaseAt, PollsAt, [Srtm!Next]_srtmVars
    PROVE  PollsAt'
<1> USE DEF PollsAt, MonitorIdle, srtmVars, Srtm!monitor, Srtm!timer, Srtm!history
<1>1. CASE UNCHANGED srtmVars
  BY <1>1, ComingKept
<1>2. CASE Srtm!Take
  BY <1>2, ComingKept DEF Srtm!Take
<1>3. CASE Srtm!Compare
  BY <1>3, ComingKept DEF Srtm!Compare
<1>4. CASE Srtm!Switch
  BY <1>4, ComingKept DEF Srtm!Switch, Srtm!Asserted
<1>5. CASE Srtm!StopDispatcher
  BY <1>5, ComingKept DEF Srtm!StopDispatcher
<1>6. CASE Srtm!DeinitPeerCore
  BY <1>6, ComingKept DEF Srtm!DeinitPeerCore
<1>7. CASE Srtm!Gone
  BY <1>7, ComingKept DEF Srtm!Gone
<1>8. CASE Srtm!InitPeerCore
  BY <1>8, ComingKept DEF Srtm!InitPeerCore
<1>9. CASE Srtm!IsLinkUp
  BY <1>9, ComingKept DEF Srtm!IsLinkUp
<1>10. CASE Srtm!Linkup
  BY <1>10, ComingKept DEF Srtm!Linkup
<1>11. CASE Srtm!StartDispatcher
  BY <1>11, ComingKept DEF Srtm!StartDispatcher, Srtm!Restored, CaseAt
<1>12. CASE PollRun
  BY <1>12, ComingKept DEF PollRun, PollStep, Srtm!RunProc, Srtm!MonitorWaits, Srtm!PollToCome,
     LinkShape
<1>13. CASE PollCheck
  BY <1>13, ComingKept DEF PollCheck, PollStep, Srtm!CheckLink, Srtm!MonitorWaits
<1>14. CASE PollGive
  BY <1>14, ComingKept DEF PollGive, PollStep, Srtm!Give, Srtm!MonitorWaits
<1>15. CASE Srtm!LinkupTimerCallback
  BY <1>15, ComingKept DEF Srtm!LinkupTimerCallback
<1>16. CASE Srtm!TimerCommand
  BY <1>16, ComingKept DEF Srtm!TimerCommand
<1>17. CASE Srtm!HandleLmmPowerChange
  BY <1>17, ComingKept DEF Srtm!HandleLmmPowerChange
<1>18. CASE Srtm!PeerKicks
  BY <1>18, ComingKept DEF Srtm!PeerKicks
<1>19. CASE Srtm!MainTask
  BY <1>19, ComingKept DEF Srtm!MainTask
<1> QED BY <1>1, <1>2, <1>3, <1>4, <1>5, <1>6, <1>7, <1>8, <1>9, <1>10, <1>11, <1>12, <1>13,
   <1>14, <1>15, <1>16, <1>17, <1>18, <1>19, LinkSteps

(* The instance, at every step.                                            *)
LEMMA InstanceAtKept ==
    ASSUME Srtm!TypeOK, LinkShape, LinkRecords, CaseAt, PollsAt, InstanceAt,
           s_fault = "none", s_fault' = "none", [Srtm!Next]_srtmVars
    PROVE  InstanceAt'
<1> USE DEF InstanceAt, CoreLinked, MonitorIdle, srtmVars, Srtm!monitor, Srtm!timer, Srtm!history
<1>1. CASE UNCHANGED srtmVars
  BY <1>1
<1>2. CASE Srtm!Take
  BY <1>2 DEF Srtm!Take
<1>3. CASE Srtm!Compare
  BY <1>3 DEF Srtm!Compare
<1>4. CASE Srtm!Switch
  BY <1>4 DEF Srtm!Switch, Srtm!Asserted, LinkShape
<1>5. CASE Srtm!StopDispatcher
  BY <1>5 DEF Srtm!StopDispatcher, CaseAt, Srtm!States, LinkShape
<1>6. CASE Srtm!DeinitPeerCore
  BY <1>6 DEF Srtm!DeinitPeerCore
<1>7. CASE Srtm!Gone
  BY <1>7 DEF Srtm!Gone, Srtm!NoCore, Srtm!NoRpmsg
<1>8. CASE Srtm!InitPeerCore
  BY <1>8 DEF Srtm!InitPeerCore, LinkShape, Srtm!TypeOK
<1>9. CASE Srtm!IsLinkUp
  BY <1>9 DEF Srtm!IsLinkUp
<1>10. CASE Srtm!Linkup
  BY <1>10 DEF Srtm!Linkup, LinkRecords, Srtm!NoCore, LinkShape, CaseAt
<1>11. CASE Srtm!StartDispatcher
  BY <1>11 DEF Srtm!StartDispatcher, Srtm!Restored, CaseAt, LinkShape
<1>12. CASE PollRun
  BY <1>12 DEF PollRun, PollStep, Srtm!RunProc, Srtm!MonitorWaits
<1>13. CASE PollCheck
  BY <1>13 DEF PollCheck, PollStep, Srtm!CheckLink, Srtm!MonitorWaits
<1>14. CASE PollGive
  BY <1>14 DEF PollGive, PollStep, Srtm!Give, Srtm!MonitorWaits
<1>15. CASE Srtm!LinkupTimerCallback
  BY <1>15 DEF Srtm!LinkupTimerCallback
<1>16. CASE Srtm!TimerCommand
  BY <1>16 DEF Srtm!TimerCommand
<1>17. CASE Srtm!HandleLmmPowerChange
  BY <1>17 DEF Srtm!HandleLmmPowerChange, LinkRecords, Srtm!NoCore
<1>18. CASE Srtm!PeerKicks
  BY <1>18 DEF Srtm!PeerKicks, LinkRecords, Srtm!NoRpmsg
<1>19. CASE Srtm!MainTask
  BY <1>19 DEF Srtm!MainTask
<1> QED BY <1>1, <1>2, <1>3, <1>4, <1>5, <1>6, <1>7, <1>8, <1>9, <1>10, <1>11, <1>12, <1>13,
   <1>14, <1>15, <1>16, <1>17, <1>18, <1>19, LinkSteps

(* A reset is not forgotten.                                               *)
LEMMA ResetPendingKept ==
    ASSUME Srtm!TypeOK, LinkShape, LinkRecords, CaseAt, PollsAt, InstanceAt, ResetPending,
           s_fault = "none", s_fault' = "none", [Srtm!Next]_srtmVars
    PROVE  ResetPending'
<1> USE DEF ResetPending, MonitorIdle, srtmVars, Srtm!monitor, Srtm!timer, Srtm!history
<1>1. CASE UNCHANGED srtmVars
  BY <1>1
<1>2. CASE Srtm!Take
  BY <1>2 DEF Srtm!Take, CaseAt, PollsAt
<1>3. CASE Srtm!Compare
  BY <1>3 DEF Srtm!Compare, CaseAt, PollsAt, LinkShape
<1>4. CASE Srtm!Switch
  BY <1>4 DEF Srtm!Switch, Srtm!Asserted, CaseAt, PollsAt
<1>5. CASE Srtm!StopDispatcher
  BY <1>5 DEF Srtm!StopDispatcher, CaseAt, PollsAt
<1>6. CASE Srtm!DeinitPeerCore
  BY <1>6 DEF Srtm!DeinitPeerCore, CaseAt, PollsAt
<1>7. CASE Srtm!Gone
  BY <1>7 DEF Srtm!Gone, CaseAt, PollsAt
<1>8. CASE Srtm!InitPeerCore
  BY <1>8 DEF Srtm!InitPeerCore, CaseAt, PollsAt
<1>9. CASE Srtm!IsLinkUp
  BY <1>9 DEF Srtm!IsLinkUp, CaseAt, PollsAt
<1>10. CASE Srtm!Linkup
  BY <1>10 DEF Srtm!Linkup, CaseAt, PollsAt
<1>11. CASE Srtm!StartDispatcher
  BY <1>11 DEF Srtm!StartDispatcher, Srtm!Restored, CaseAt, PollsAt
<1>12. CASE PollRun
  BY <1>12 DEF PollRun, PollStep, Srtm!RunProc, Srtm!MonitorWaits, CaseAt, PollsAt
<1>13. CASE PollCheck
  BY <1>13 DEF PollCheck, PollStep, Srtm!CheckLink, Srtm!MonitorWaits, CaseAt, PollsAt
<1>14. CASE PollGive
  BY <1>14 DEF PollGive, PollStep, Srtm!Give, Srtm!MonitorWaits, CaseAt, PollsAt
<1>15. CASE Srtm!LinkupTimerCallback
  BY <1>15 DEF Srtm!LinkupTimerCallback, CaseAt, PollsAt
<1>16. CASE Srtm!TimerCommand
  BY <1>16 DEF Srtm!TimerCommand, CaseAt, PollsAt
<1>17. CASE Srtm!HandleLmmPowerChange
  BY <1>17 DEF Srtm!HandleLmmPowerChange, CaseAt, PollsAt, Srtm!TypeOK, LinkShape
<1>18. CASE Srtm!PeerKicks
  BY <1>18 DEF Srtm!PeerKicks, CaseAt, PollsAt
<1>19. CASE Srtm!MainTask
  BY <1>19 DEF Srtm!MainTask, CaseAt, PollsAt
<1> QED BY <1>1, <1>2, <1>3, <1>4, <1>5, <1>6, <1>7, <1>8, <1>9, <1>10, <1>11, <1>12, <1>13,
   <1>14, <1>15, <1>16, <1>17, <1>18, <1>19, LinkSteps

(* The peer cores, at every step.                                          *)
LEMMA CoresCountedKept ==
    ASSUME Srtm!TypeOK, LinkShape, LinkRecords, CaseAt, PollsAt, InstanceAt, CoresCounted, LinkedOnce,
           s_fault = "none", s_fault' = "none", [Srtm!Next]_srtmVars
    PROVE  CoresCounted'
<1> USE DEF CoresCounted, CoreLinked, srtmVars, Srtm!monitor, Srtm!timer, Srtm!history
<1>1. CASE UNCHANGED srtmVars
  BY <1>1
<1>2. CASE Srtm!Take
  BY <1>2 DEF Srtm!Take
<1>3. CASE Srtm!Compare
  BY <1>3 DEF Srtm!Compare
<1>4. CASE Srtm!Switch
  BY <1>4 DEF Srtm!Switch, Srtm!Asserted, CaseAt, MonitorIdle
<1>5. CASE Srtm!StopDispatcher
  BY <1>5 DEF Srtm!StopDispatcher
<1>6. CASE Srtm!DeinitPeerCore
  BY <1>6 DEF Srtm!DeinitPeerCore, LinkShape
<1>7. CASE Srtm!Gone
  BY <1>7 DEF Srtm!Gone, Srtm!NoCore
<1>8. CASE Srtm!InitPeerCore
  BY <1>8 DEF Srtm!InitPeerCore
<1>9. CASE Srtm!IsLinkUp
  BY <1>9 DEF Srtm!IsLinkUp
<1>10. CASE Srtm!Linkup
  <2>1. CoreLinked' /\ m_pc' = "start" /\ m_pc = "link" /\ live' = live + 1 /\ live \in Nat
    BY <1>10, CoreActive DEF Srtm!Linkup, LinkShape
  <2>2. ~stale' => ~stale
    BY <1>10 DEF Srtm!Linkup
  <2>3. ~stale => live = 0
    BY <2>1 DEF LinkedOnce
  <2> QED BY <2>1, <2>2, <2>3
<1>11. CASE Srtm!StartDispatcher
  BY <1>11 DEF Srtm!StartDispatcher, Srtm!Restored
<1>12. CASE PollRun
  BY <1>12 DEF PollRun, PollStep, Srtm!RunProc, Srtm!MonitorWaits
<1>13. CASE PollCheck
  BY <1>13 DEF PollCheck, PollStep, Srtm!CheckLink, Srtm!MonitorWaits
<1>14. CASE PollGive
  BY <1>14 DEF PollGive, PollStep, Srtm!Give, Srtm!MonitorWaits
<1>15. CASE Srtm!LinkupTimerCallback
  BY <1>15 DEF Srtm!LinkupTimerCallback
<1>16. CASE Srtm!TimerCommand
  BY <1>16 DEF Srtm!TimerCommand
<1>17. CASE Srtm!HandleLmmPowerChange
  BY <1>17, CoreInactive DEF Srtm!HandleLmmPowerChange, LinkRecords, InstanceAt
<1>18. CASE Srtm!PeerKicks
  BY <1>18 DEF Srtm!PeerKicks
<1>19. CASE Srtm!MainTask
  BY <1>19 DEF Srtm!MainTask
<1> QED BY <1>1, <1>2, <1>3, <1>4, <1>5, <1>6, <1>7, <1>8, <1>9, <1>10, <1>11, <1>12, <1>13,
   <1>14, <1>15, <1>16, <1>17, <1>18, <1>19, LinkSteps

(* No core is linked twice.                                                *)
LEMMA LinkedOnceKept ==
    ASSUME Srtm!TypeOK, LinkShape, LinkRecords, CaseAt, PollsAt, InstanceAt, CoresCounted, LinkedOnce,
           s_fault = "none", s_fault' = "none", [Srtm!Next]_srtmVars
    PROVE  LinkedOnce'
<1> USE DEF LinkedOnce, CoreLinked, MonitorIdle, srtmVars, Srtm!monitor, Srtm!timer, Srtm!history
<1>1. CASE UNCHANGED srtmVars
  BY <1>1, ComingKept
<1>2. CASE Srtm!Take
  BY <1>2, ComingKept DEF Srtm!Take, CaseAt, PollsAt, LinkShape, InstanceAt
<1>3. CASE Srtm!Compare
  BY <1>3, ComingKept DEF Srtm!Compare, CaseAt, PollsAt, LinkShape, InstanceAt
<1>4. CASE Srtm!Switch
  BY <1>4, ComingKept DEF Srtm!Switch, Srtm!Asserted, CaseAt, PollsAt, LinkShape, InstanceAt
<1>5. CASE Srtm!StopDispatcher
  BY <1>5, ComingKept DEF Srtm!StopDispatcher, CaseAt, PollsAt, LinkShape, InstanceAt
<1>6. CASE Srtm!DeinitPeerCore
  BY <1>6, ComingKept DEF Srtm!DeinitPeerCore, CaseAt, PollsAt, LinkShape, InstanceAt
<1>7. CASE Srtm!Gone
  BY <1>7, ComingKept DEF Srtm!Gone, CaseAt, PollsAt, LinkShape, InstanceAt, Srtm!NoCore
<1>8. CASE Srtm!InitPeerCore
  BY <1>8, ComingKept DEF Srtm!InitPeerCore, CaseAt, PollsAt, LinkShape, InstanceAt
<1>9. CASE Srtm!IsLinkUp
  BY <1>9, ComingKept DEF Srtm!IsLinkUp, CaseAt, PollsAt, LinkShape, InstanceAt
<1>10. CASE Srtm!Linkup
  BY <1>10, ComingKept DEF Srtm!Linkup, CaseAt, PollsAt, LinkShape, InstanceAt
<1>11. CASE Srtm!StartDispatcher
  BY <1>11, ComingKept DEF Srtm!StartDispatcher, Srtm!Restored, CaseAt, PollsAt, LinkShape,
     InstanceAt
<1>12. CASE PollRun
  BY <1>12, ComingKept DEF PollRun, PollStep, Srtm!RunProc, Srtm!MonitorWaits, CaseAt, PollsAt,
     LinkShape, InstanceAt, Srtm!PollToCome
<1>13. CASE PollCheck
  BY <1>13, ComingKept DEF PollCheck, PollStep, Srtm!CheckLink, Srtm!MonitorWaits, CaseAt,
     PollsAt, LinkShape, InstanceAt
<1>14. CASE PollGive
  BY <1>14, ComingKept DEF PollGive, PollStep, Srtm!Give, Srtm!MonitorWaits, CaseAt, PollsAt,
     LinkShape, InstanceAt
<1>15. CASE Srtm!LinkupTimerCallback
  BY <1>15, ComingKept DEF Srtm!LinkupTimerCallback, CaseAt, PollsAt, LinkShape, InstanceAt
<1>16. CASE Srtm!TimerCommand
  BY <1>16, ComingKept DEF Srtm!TimerCommand, CaseAt, PollsAt, LinkShape, InstanceAt
<1>17. CASE Srtm!HandleLmmPowerChange
  BY <1>17, ComingKept DEF Srtm!HandleLmmPowerChange, CaseAt, PollsAt, LinkShape, InstanceAt,
     LinkRecords, Srtm!NoCore
<1>18. CASE Srtm!PeerKicks
  BY <1>18, ComingKept DEF Srtm!PeerKicks, CaseAt, PollsAt, LinkShape, InstanceAt
<1>19. CASE Srtm!MainTask
  BY <1>19, ComingKept DEF Srtm!MainTask, CaseAt, PollsAt, LinkShape, InstanceAt
<1> QED BY <1>1, <1>2, <1>3, <1>4, <1>5, <1>6, <1>7, <1>8, <1>9, <1>10, <1>11, <1>12, <1>13,
   <1>14, <1>15, <1>16, <1>17, <1>18, <1>19, LinkSteps

(* A fault comes from an early reset or from a second one.                 *)
LEMMA LinkNoFaultKept ==
    ASSUME Srtm!TypeOK, LinkShape, CaseAt, Srtm!NoFault, s_fault = "none", [Srtm!Next]_srtmVars
    PROVE  Srtm!NoFault'
<1> USE DEF Srtm!NoFault, srtmVars, Srtm!monitor, Srtm!timer, Srtm!history
<1>1. CASE UNCHANGED srtmVars
  BY <1>1
<1>2. CASE Srtm!Take
  BY <1>2 DEF Srtm!Take
<1>3. CASE Srtm!Compare
  BY <1>3 DEF Srtm!Compare
<1>4. CASE Srtm!Switch
  BY <1>4 DEF Srtm!Switch, Srtm!Asserted, CaseAt, LinkShape, MonitorIdle
<1>5. CASE Srtm!StopDispatcher
  BY <1>5 DEF Srtm!StopDispatcher
<1>6. CASE Srtm!DeinitPeerCore
  BY <1>6 DEF Srtm!DeinitPeerCore
<1>7. CASE Srtm!Gone
  BY <1>7 DEF Srtm!Gone
<1>8. CASE Srtm!InitPeerCore
  BY <1>8 DEF Srtm!InitPeerCore
<1>9. CASE Srtm!IsLinkUp
  BY <1>9 DEF Srtm!IsLinkUp
<1>10. CASE Srtm!Linkup
  BY <1>10 DEF Srtm!Linkup
<1>11. CASE Srtm!StartDispatcher
  BY <1>11 DEF Srtm!StartDispatcher, Srtm!Restored
<1>12. CASE PollRun
  BY <1>12 DEF PollRun, PollStep, Srtm!RunProc, Srtm!MonitorWaits
<1>13. CASE PollCheck
  BY <1>13 DEF PollCheck, PollStep, Srtm!CheckLink, Srtm!MonitorWaits
<1>14. CASE PollGive
  BY <1>14 DEF PollGive, PollStep, Srtm!Give, Srtm!MonitorWaits
<1>15. CASE Srtm!LinkupTimerCallback
  BY <1>15 DEF Srtm!LinkupTimerCallback
<1>16. CASE Srtm!TimerCommand
  BY <1>16 DEF Srtm!TimerCommand
<1>17. CASE Srtm!HandleLmmPowerChange
  BY <1>17 DEF Srtm!HandleLmmPowerChange, CaseAt, LinkShape
<1>18. CASE Srtm!PeerKicks
  BY <1>18 DEF Srtm!PeerKicks
<1>19. CASE Srtm!MainTask
  BY <1>19 DEF Srtm!MainTask
<1> QED BY <1>1, <1>2, <1>3, <1>4, <1>5, <1>6, <1>7, <1>8, <1>9, <1>10, <1>11, <1>12, <1>13,
   <1>14, <1>15, <1>16, <1>17, <1>18, <1>19, LinkSteps

(* The invariant of the link is inductive, holds at first, and implies the *)
(* properties.                                                             *)
LEMMA LinkInductive ==
    ASSUME LinkInv, [Srtm!Next]_srtmVars
    PROVE  LinkInv'
<1>1. CASE UNCHANGED srtmVars
  <2>1. Srtm!TypeOK' /\ LinkShape' /\ LinkFlags' /\ LinkRecords' /\ Srtm!NoFault'
    BY <1>1 DEF LinkInv, Srtm!TypeOK, LinkShape, LinkFlags, LinkRecords, Srtm!NoFault, srtmVars,
       Srtm!monitor, Srtm!timer, Srtm!history
  <2>2. s_fault' = s_fault
    BY <1>1 DEF srtmVars
  <2>3. s_fault = "none" => CaseAt' /\ PollsAt' /\ InstanceAt' /\ ResetPending' /\ CoresCounted' /\ LinkedOnce'
    BY <2>2, CaseAtKept, PollsAtKept, InstanceAtKept, ResetPendingKept, CoresCountedKept,
       LinkedOnceKept DEF LinkInv
  <2> QED BY <2>1, <2>2, <2>3 DEF LinkInv
<1>2. CASE s_fault = "none"
  BY <1>2, LinkShapeKept, LinkFlagsKept, LinkRecordsKept, LinkNoFaultKept,
     CaseAtKept, PollsAtKept, InstanceAtKept, ResetPendingKept, CoresCountedKept, LinkedOnceKept DEF LinkInv
<1> QED BY <1>1, <1>2, LinkGuard

LEMMA LinkInitially == ASSUME Srtm!Init PROVE LinkInv
<1>1. PICK s \in Setups : Srtm!InitWith(s)
  BY DEF Srtm!Init
<1>2. Srtm!TypeOK /\ LinkShape /\ Srtm!NoFault
  BY <1>1 DEF Srtm!InitWith, Srtm!TypeOK, LinkShape, Srtm!NoFault, Srtm!States
<1>5. LinkFlags
  BY <1>1 DEF Srtm!InitWith, LinkFlags
<1>3. LinkRecords
  BY <1>1 DEF Srtm!InitWith, LinkRecords, Srtm!NoRpmsg, Srtm!NoCore
<1>4. CaseAt /\ PollsAt /\ InstanceAt /\ CoresCounted /\ LinkedOnce /\ ResetPending
  BY <1>1 DEF Srtm!InitWith, CaseAt, PollsAt, Srtm!PollToCome, InstanceAt, CoresCounted,
     LinkedOnce, ResetPending, CoreLinked, MonitorIdle
<1> QED BY <1>2, <1>3, <1>4, <1>5 DEF LinkInv

LEMMA LinkFollows == ASSUME LinkInv PROVE Srtm!TypeOK /\ Srtm!NoFault /\ Srtm!PeerLinked
BY DEF LinkInv, Srtm!PeerLinked, CaseAt, InstanceAt, ResetPending, CoresCounted, LinkedOnce,
   CoreLinked, MonitorIdle, Srtm!NoFault, PollsAt

-----------------------------------------------------------------------------
(* The servo's clock.                                                      *)

Turn  == Top + 1
Turns == Words * Turn
Delay == setting.delay

(* What TypeOK does not bound: the second counter is never used, and the   *)
(* words that are not read are 0.                                          *)
ClockShape ==
    /\ Clock!TypeOK /\ again \in BOOLEAN
    /\ ~hw["load"].on /\ ~hw["load"].en /\ ~hw["load"].flag /\ isr["load"] = "idle"
    /\ isr["main"] # "spin"
    /\ c_pc \in {"words", "last", "count", "check", "sum"} \/ (~again /\ sys_ticks = Clock!NoWords)
    /\ c_pc \in {"last", "count", "sum"} /\ (c_pc = "sum" => again) => sys_ticks.read = {"lo", "hi"}
    /\ c_pc = "words" => sys_ticks.read # {"lo", "hi"}
    /\ c_pc = "check" => ~again

(* While osal_timer_init() runs.                                           *)
BootAt ==
    /\ isr["main"] = "idle" /\ ~hw["main"].flag /\ hw["main"].cmp = Top
    /\ hw["main"].on <=> c_pc # "start"
    /\ hw["main"].en <=> c_pc = "compare"
    /\ hw["main"].cnt = real /\ ticks_last = 0
    /\ c_pc \in {"start", "now"} => system_ticks = 0
    /\ c_pc = "start" => real = 0
    /\ c_pc = "now" => real <= lag
    /\ c_pc = "claim" => system_ticks <= Delay /\ real - system_ticks \in 0..lag
    /\ c_pc \in {"start", "now", "claim"} => alarm["main"].cb = "none"
    /\ c_pc \in {"enable", "compare"} =>
        /\ alarm["main"] = [cb |-> "wakeup", loop |-> TRUE, last |-> next, ticks |-> Period]
        /\ system_ticks <= Delay
        /\ next - Period - system_ticks \in 0..Delay
        /\ real - (next - Period) \in 0..((IF c_pc = "compare" THEN Delay ELSE 0) + lag)

(* The loop: system_ticks is s behind, the last handler was l ago, and the *)
(* alarms come g after the sums of periods that system_ticks goes through. *)
LoopAt(s, l, g) ==
    /\ hw["main"].on /\ hw["main"].en
    /\ hw["main"].cnt = Clock!Wrap(real)
    /\ system_ticks = Clock!Sum(real - s)
    /\ ticks_last = Clock!Wrap(real - l)
    /\ hw["main"].cmp =
         Clock!Wrap(real - s + g + IF isr["main"] = "callback" THEN 2 * Period ELSE Period)
    /\ alarm["main"] = [cb |-> "wakeup", loop |-> TRUE, last |-> hw["main"].cmp, ticks |-> Period]
    /\ s - l \in (-Delay)..(3 * Delay)
    /\ s - g \in
         IF isr["main"] = "idle"
         THEN IF hw["main"].flag THEN Period..(Period + lag) ELSE 0..(Period - 1)
         ELSE IF isr["main"] = "callback" THEN Period..(Period + Delay + lag)
              ELSE 0..(2 * Delay + lag)
    /\ isr["main"] # "idle" => ~hw["main"].flag

(* The steps of osal_gettime() before the next, and an alarm since its     *)
(* first: they are too few for another.                                    *)
Reads == (IF "lo" \in sys_ticks.read THEN 1 ELSE 0) + (IF "hi" \in sys_ticks.read THEN 1 ELSE 0)
Steps ==
    (IF again THEN 7 ELSE 0)
      + IF c_pc = "words" THEN Reads
        ELSE IF c_pc = "last" THEN 2 ELSE IF c_pc = "count" THEN 3 ELSE 6 - Reads
Fresh(s, g) == s - g <= (3 + Steps) * Delay + lag

IsNow(w) == ~Clock!Changed(w)
LastIsNow == last = ticks_last

(* The first reading: what has changed since it was read changed in one    *)
(* alarm, and not before the check of what is found unchanged.             *)
FirstAt(s, l, g) ==
    /\ \A w \in sys_ticks.read : IsNow(w) \/ Fresh(s, g)
    /\ c_pc \in {"count", "check"} => LastIsNow \/ Fresh(s, g)
    /\ c_pc = "check" /\ LastIsNow =>
        /\ \A w \in {"lo", "hi"} \ sys_ticks.read : IsNow(w)
        /\ \E k \in 0..l : ticks = Clock!Wrap(real - k) /\ took = Clock!Sum(real - k)

(* The second reading.                                                     *)
SecondAt(s, g) ==
    /\ Fresh(s, g)
    /\ \A w \in sys_ticks.read : IsNow(w)
    /\ c_pc = "count" => LastIsNow

(* The sum of what was read.                                               *)
SumAt ==
    \E h \in (-Delay)..(3 * Delay), v \in 0..Top :
        /\ sys_ticks.hi * Turn + sys_ticks.lo = Clock!Sum(took - v - h)
        /\ last = Clock!Wrap(took - v) /\ ticks = Clock!Wrap(took)

ReadingAt(s, l, g) ==
    IF c_pc = "idle" THEN TRUE
    ELSE IF c_pc = "sum" THEN SumAt
    ELSE IF again THEN SecondAt(s, g) ELSE FirstAt(s, l, g)

ClockInv ==
    /\ ClockShape
    /\ IF c_pc \in Clock!Boot THEN BootAt
       ELSE \E s \in 0..(Period + 3 * Delay), l \in 0..Top, g \in 0..Delay :
                LoopAt(s, l, g) /\ ReadingAt(s, l, g)

-----------------------------------------------------------------------------
(* Remainders.                                                             *)

(* A number has one remainder, ...                                         *)
LEMMA ModIs ==
    ASSUME NEW m \in Nat \ {0}, NEW a \in Int, NEW k \in Int, NEW r \in 0..(m - 1), a = k * m + r
    PROVE  a % m = r
OBVIOUS

(* ... and is a number of turns and its remainder.                         *)
LEMMA ModParts ==
    ASSUME NEW m \in Nat \ {0}, NEW a \in Int
    PROVE  /\ a % m \in 0..(m - 1) /\ a \div m \in Int
           /\ a = (a \div m) * m + (a % m)
OBVIOUS

LEMMA ModSmall == ASSUME NEW m \in Nat \ {0}, NEW a \in 0..(m - 1) PROVE a % m = a
<1>1. a = 0 * m + a
  OBVIOUS
<1> QED BY <1>1, ModIs

(* A turn more or less.                                                    *)
LEMMA ModTurn ==
    ASSUME NEW m \in Nat \ {0}, NEW a \in Int, NEW k \in Int
    PROVE  (a + k * m) % m = a % m
<1> DEFINE r == a % m
           q == a \div m
<1>1. r \in 0..(m - 1) /\ q \in Int /\ a = q * m + r
  BY ModParts
<1> HIDE DEF r, q
<1>2. a + k * m = (q + k) * m + r /\ q + k \in Int /\ a + k * m \in Int
  BY <1>1
<1>3. (a + k * m) % m = r
  BY <1>1, <1>2, ModIs
<1> QED BY <1>3 DEF r

(* Sums and differences.                                                   *)
LEMMA ModSum ==
    ASSUME NEW m \in Nat \ {0}, NEW a \in Int, NEW b \in Int
    PROVE  ((a % m) + b) % m = (a + b) % m /\ (b - (a % m)) % m = (b - a) % m
<1> DEFINE r == a % m
           q == a \div m
<1>1. r \in 0..(m - 1) /\ q \in Int /\ a = q * m + r
  BY ModParts
<1> SUFFICES (r + b) % m = (a + b) % m /\ (b - r) % m = (b - a) % m
  OBVIOUS
<1> HIDE DEF r, q
<1>2. /\ r + b + q * m = a + b /\ r + b \in Int
      /\ b - r + (-q) * m = b - a /\ b - r \in Int /\ -q \in Int
  BY <1>1
<1>3. (r + b + q * m) % m = (r + b) % m /\ (b - r + (-q) * m) % m = (b - r) % m
  BY <1>1, <1>2, ModTurn
<1> QED BY <1>2, <1>3

(* Less than a turn apart, two numbers have two remainders.                *)
LEMMA ModApart ==
    ASSUME NEW m \in Nat \ {0}, NEW a \in Int, NEW b \in Int,
           a % m = b % m, a - b < m, b - a < m
    PROVE  a = b
<1> DEFINE r == a % m
           p == a \div m
           q == b \div m
           d == p - q
<1>1. r \in 0..(m - 1) /\ p \in Int /\ a = p * m + r
  BY ModParts
<1>2. q \in Int /\ b = q * m + r
  BY ModParts
<1> HIDE DEF r, p, q
<1>3. d \in Int
  BY <1>1, <1>2
<1>4. a - b = d * m
  BY <1>1, <1>2
<1> HIDE DEF d
<1>5. d < 1
  <2> SUFFICES ASSUME d >= 1 PROVE FALSE
    BY <1>3
  <2>1. d * m >= m
    BY <1>3
  <2> QED BY <2>1, <1>3, <1>4
<1>6. d > -1
  <2> SUFFICES ASSUME d <= -1 PROVE FALSE
    BY <1>3
  <2>1. d * m <= -m
    BY <1>3
  <2> QED BY <2>1, <1>3, <1>4
<1>7. d = 0
  BY <1>3, <1>5, <1>6
<1> QED BY <1>4, <1>7

(* The remainder of a number of turns' remainder.                          *)
LEMMA ModMod ==
    ASSUME NEW m \in Nat \ {0}, NEW w \in Nat \ {0}, NEW a \in Int
    PROVE  (a % (w * m)) % m = a % m
<1> DEFINE b == w * m
           r == a % b
           q == a \div b
<1>1. b \in Nat \ {0}
  OBVIOUS
<1>2. r \in Int /\ q \in Int /\ a = q * b + r
  <2> HIDE DEF b
  <2>1. a % b \in 0..(b - 1) /\ a \div b \in Int /\ a = (a \div b) * b + (a % b)
    BY <1>1, ModParts
  <2> QED BY <1>1, <2>1
<1>3. q * b = (q * w) * m /\ q * w \in Int
  <2> HIDE DEF q
  <2> QED BY <1>2
<1> SUFFICES r % m = a % m
  OBVIOUS
<1> HIDE DEF r, q, b
<1>4. a = r + (q * w) * m
  BY <1>2, <1>3
<1>5. (r + (q * w) * m) % m = r % m
  BY <1>2, <1>3, ModTurn
<1> QED BY <1>4, <1>5

(* The words of a sum of w turns.                                          *)
LEMMA ModWords ==
    ASSUME NEW m \in Nat \ {0}, NEW w \in Nat \ {0}, NEW a \in 0..(w * m - 1)
    PROVE  /\ a % m \in 0..(m - 1) /\ a \div m \in 0..(w - 1)
           /\ (a \div m) * m + (a % m) = a
<1> DEFINE r == a % m
           q == a \div m
<1>1. r \in 0..(m - 1) /\ q \in Int /\ a = q * m + r
  BY ModParts
<1> SUFFICES r \in 0..(m - 1) /\ q \in 0..(w - 1) /\ q * m + r = a
  OBVIOUS
<1> HIDE DEF r, q
<1>2. w * m \in Nat /\ a \in Nat /\ a < w * m
  OBVIOUS
<1>3. q >= 0
  <2> SUFFICES ASSUME q <= -1 PROVE FALSE
    BY <1>1
  <2>1. q * m <= -m
    BY <1>1
  <2> QED BY <2>1, <1>1, <1>2
<1>4. q < w
  <2> SUFFICES ASSUME q - w >= 0 PROVE FALSE
    BY <1>1
  <2>1. (q - w) * m >= 0 /\ (q - w) * m = q * m - w * m
    BY <1>1
  <2>2. q * m \in Int
    BY <1>1
  <2> QED BY <2>1, <2>2, <1>1, <1>2
<1> QED BY <1>1, <1>3, <1>4

-----------------------------------------------------------------------------
(* The clock's numbers.                                                    *)

LEMMA ClockNumbers ==
    ASSUME setting \in Settings
    PROVE  /\ Top \in Nat \ {0} /\ Turn = Top + 1 /\ Turn \in Nat \ {0}
           /\ Words \in Nat \ {0, 1} /\ Turns = Words * Turn /\ Turns \in Nat \ {0}
           /\ Turns >= 2 * Turn
           /\ Delay \in Nat /\ Period \in Nat \ {0}
           /\ 16 * Delay < Period /\ Period + 4 * Delay <= Top
<1>1. /\ Top \in Nat \ {0} /\ Settings \subseteq [gpt : BOOLEAN, load : BOOLEAN, delay : Nat]
      /\ Period \in 1..Top /\ Words \in Nat \ {0, 1}
      /\ \A s \in Settings : 16 * s.delay < Period /\ Period + 4 * s.delay <= Top
  BY ServicesAssumption
     DEF ServicesAssumption, Clock!CounterAssumption, Clock!ClockAssumption, Clock!Setting
<1>2. Delay \in Nat /\ 16 * Delay < Period /\ Period + 4 * Delay <= Top
  BY <1>1 DEF Delay
<1>3. Turn = Top + 1 /\ Turn \in Nat \ {0}
  BY <1>1 DEF Turn
<1>4. Turns = Words * Turn /\ Turns >= 2 * Turn /\ Turns \in Nat \ {0}
  <2>1. Words >= 2 /\ Words * Turn >= 2 * Turn /\ Words * Turn \in Nat
    BY <1>1, <1>3
  <2> QED BY <2>1, <1>3 DEF Turns
<1> QED BY <1>1, <1>2, <1>3, <1>4

LEMMA ClockModulus ==
    /\ Turn \in Nat \ {0} /\ Turns \in Nat \ {0} /\ Words \in Nat \ {0} /\ Turns = Words * Turn
    /\ \A x \in Int : Clock!Wrap(x) = x % Turn /\ Clock!Sum(x) = x % Turns
    /\ \A x \in Int : Clock!Lo(x) = x % Turn /\ Clock!Hi(x) = x \div Turn
<1>1. Top \in Nat \ {0} /\ Words \in Nat \ {0, 1}
  BY ServicesAssumption DEF ServicesAssumption, Clock!CounterAssumption, Clock!ClockAssumption
<1>2. Turn \in Nat \ {0} /\ Turns = Words * Turn
  BY <1>1 DEF Turn, Turns
<1>3. Turns \in Nat \ {0}
  <2>1. Words >= 2 /\ Words * Turn >= 2 * Turn /\ Words * Turn \in Nat
    BY <1>1, <1>2
  <2> QED BY <2>1, <1>2
<1>4. \A x \in Int : Clock!Wrap(x) = x % Turn /\ Clock!Lo(x) = x % Turn /\ Clock!Hi(x) = x \div Turn
  BY DEF Clock!Wrap, Clock!Lo, Clock!Hi, Turn
<1>5. \A x \in Int : Clock!Sum(x) = x % Turns
  BY DEF Clock!Sum, Turns, Turn
<1> QED BY <1>1, <1>2, <1>3, <1>4, <1>5

(* A count and a sum are of their width.                                   *)
LEMMA ClockIn ==
    ASSUME NEW x \in Int
    PROVE  Clock!Wrap(x) \in 0..(Turn - 1) /\ Clock!Sum(x) \in 0..(Turns - 1)
<1>1. x % Turn \in 0..(Turn - 1) /\ x % Turns \in 0..(Turns - 1)
  BY ClockModulus, ModParts
<1> QED BY <1>1, ClockModulus

LEMMA ClockSmall ==
    /\ \A x \in 0..(Turn - 1) : Clock!Wrap(x) = x
    /\ \A x \in 0..(Turns - 1) : Clock!Sum(x) = x
<1>1. \A x \in 0..(Turn - 1) : x % Turn = x
  BY ClockModulus, ModSmall
<1>2. \A x \in 0..(Turns - 1) : x % Turns = x
  BY ClockModulus, ModSmall
<1>3. 0..(Turn - 1) \subseteq Int /\ 0..(Turns - 1) \subseteq Int
  BY ClockModulus
<1> QED BY <1>1, <1>2, <1>3, ClockModulus

(* Counts and sums of counts and sums.                                     *)
LEMMA ClockSums ==
    ASSUME NEW x \in Int, NEW y \in Int
    PROVE  /\ Clock!Wrap(Clock!Wrap(x) + y) = Clock!Wrap(x + y)
           /\ Clock!Wrap(y - Clock!Wrap(x)) = Clock!Wrap(y - x)
           /\ Clock!Sum(Clock!Sum(x) + y) = Clock!Sum(x + y)
           /\ Clock!Sum(y - Clock!Sum(x)) = Clock!Sum(y - x)
           /\ Clock!Wrap(Clock!Sum(x) + y) = Clock!Wrap(x + y)
<1> DEFINE w == x % Turn
           t == x % Turns
<1>1. w \in Int /\ t \in Int
  <2>1. x % Turn \in 0..(Turn - 1) /\ x % Turns \in 0..(Turns - 1)
    BY ClockModulus, ModParts
  <2> QED BY <2>1, ClockModulus
<1>2. Clock!Wrap(x) = w /\ Clock!Sum(x) = t
  BY ClockModulus
<1>3. /\ (w + y) % Turn = (x + y) % Turn /\ (y - w) % Turn = (y - x) % Turn
      /\ (t + y) % Turns = (x + y) % Turns /\ (y - t) % Turns = (y - x) % Turns
  BY ClockModulus, ModSum
<1>4. (t + y) % Turn = (x + y) % Turn
  <2>1. t % Turn = w
    BY ClockModulus, ModMod
  <2> HIDE DEF t
  <2>2. ((t % Turn) + y) % Turn = (t + y) % Turn
    BY ClockModulus, <1>1, ModSum
  <2> QED BY <2>1, <2>2, <1>3
<1>5. w + y \in Int /\ x + y \in Int /\ y - w \in Int /\ y - x \in Int /\ t + y \in Int /\ y - t \in Int
  BY <1>1
<1> HIDE DEF w, t
<1> QED BY <1>2, <1>3, <1>4, <1>5, ClockModulus

(* Counts less than a turn apart.                                          *)
LEMMA ClockApart ==
    ASSUME NEW x \in Int, NEW y \in Int, Clock!Wrap(x) = Clock!Wrap(y), x - y < Turn, y - x < Turn
    PROVE  x = y
<1>1. x % Turn = y % Turn
  BY ClockModulus
<1> QED BY <1>1, ClockModulus, ModApart

-----------------------------------------------------------------------------
(* The shape of the clock's state.                                         *)

ClockHw    == [cnt : 0..Top, on : BOOLEAN, cmp : 0..Top, en : BOOLEAN, flag : BOOLEAN]
ClockAlarm == [cb : Clock!Callbacks, loop : BOOLEAN, last : 0..Top, ticks : 0..Top]
ClockWords == [lo : 0..Top, hi : 0..(Words - 1), read : SUBSET {"lo", "hi"}]

LEMMA ClockTypes ==
    ASSUME Clock!TypeOK
    PROVE  /\ setting \in Settings /\ hw \in [Clock!Dev -> ClockHw]
           /\ alarm \in [Clock!Dev -> ClockAlarm] /\ next \in 0..Top /\ now \in [Clock!Dev -> 0..Top]
           /\ isr \in [Clock!Dev -> {"idle", "callback", "spin", "reset"}] /\ lag \in 0..Delay
           /\ c_pc \in Clock!Boot \cup {"idle", "words", "last", "count", "check", "sum"}
           /\ system_ticks \in 0..(Turns - 1) /\ real \in 0..(Turns - 1) /\ took \in 0..(Turns - 1)
           /\ ticks_last \in 0..Top /\ last \in 0..Top /\ ticks \in 0..Top
           /\ sys_ticks \in ClockWords
           /\ hw["main"] \in ClockHw /\ hw["load"] \in ClockHw
           /\ alarm["main"] \in ClockAlarm /\ alarm["load"] \in ClockAlarm
<1>1. Clock!CounterTypeOK
  BY DEF Clock!TypeOK
<1>2. /\ hw \in [Clock!Dev -> ClockHw] /\ alarm \in [Clock!Dev -> ClockAlarm]
      /\ isr \in [Clock!Dev -> {"idle", "callback", "spin", "reset"}] /\ lag \in 0..Delay
      /\ setting \in Settings /\ next \in 0..Top /\ now \in [Clock!Dev -> 0..Top]
  BY <1>1 DEF Clock!CounterTypeOK, ClockHw, ClockAlarm, Delay
<1>3. /\ system_ticks \in 0..(Turns - 1) /\ real \in 0..(Turns - 1) /\ took \in 0..(Turns - 1)
      /\ ticks_last \in 0..Top /\ last \in 0..Top /\ ticks \in 0..Top
  BY DEF Clock!TypeOK, Turns, Turn
<1>4. hw["main"] \in ClockHw /\ hw["load"] \in ClockHw
      /\ alarm["main"] \in ClockAlarm /\ alarm["load"] \in ClockAlarm
  BY <1>2 DEF Clock!Dev
<1> QED BY <1>2, <1>3, <1>4 DEF Clock!TypeOK, ClockWords

(* The same, the other way round.                                          *)
LEMMA ClockTypesAre ==
    ASSUME setting \in Settings, hw \in [Clock!Dev -> ClockHw],
           alarm \in [Clock!Dev -> ClockAlarm], next \in 0..Top, now \in [Clock!Dev -> 0..Top],
           isr \in [Clock!Dev -> {"idle", "callback", "spin", "reset"}], lag \in 0..Delay,
           c_pc \in Clock!Boot \cup {"idle", "words", "last", "count", "check", "sum"},
           system_ticks \in 0..(Turns - 1), real \in 0..(Turns - 1), took \in 0..(Turns - 1),
           ticks_last \in 0..Top, last \in 0..Top, ticks \in 0..Top, sys_ticks \in ClockWords
    PROVE  Clock!TypeOK
<1>1. Clock!CounterTypeOK
  BY DEF Clock!CounterTypeOK, ClockHw, ClockAlarm, Delay
<1>2. {system_ticks, real, took} \subseteq 0..(Words * (Top + 1) - 1)
  BY DEF Turns, Turn
<1> QED BY <1>1, <1>2 DEF Clock!TypeOK, ClockWords

(* The words of the sum.                                                   *)
LEMMA ClockWordsOf ==
    ASSUME setting \in Settings, NEW x \in 0..(Turns - 1)
    PROVE  /\ Clock!Lo(x) \in 0..Top /\ Clock!Hi(x) \in 0..(Words - 1)
           /\ Clock!Hi(x) * Turn + Clock!Lo(x) = x
<1>1. x \in Int /\ x \in 0..(Words * Turn - 1)
  BY ClockModulus
<1>2. /\ x % Turn \in 0..(Turn - 1) /\ x \div Turn \in 0..(Words - 1)
      /\ (x \div Turn) * Turn + (x % Turn) = x
  BY <1>1, ClockModulus, ModWords
<1>3. Clock!Lo(x) = x % Turn /\ Clock!Hi(x) = x \div Turn
  BY <1>1, ClockModulus
<1>4. Turn - 1 = Top
  BY ClockNumbers
<1> QED BY <1>2, <1>3, <1>4

(* The first state.                                                        *)
LEMMA ClockInitially == ASSUME Clock!Init PROVE ClockInv
<1>1. /\ setting \in Settings /\ next = 0 /\ lag = 0 /\ c_pc = "start" /\ again = FALSE
      /\ hw = [d \in Clock!Dev |-> [cnt |-> 0, on |-> FALSE, cmp |-> Top, en |-> FALSE, flag |-> FALSE]]
      /\ alarm = [d \in Clock!Dev |-> [cb |-> "none", loop |-> FALSE, last |-> 0, ticks |-> 0]]
      /\ isr = [d \in Clock!Dev |-> "idle"] /\ now = [d \in Clock!Dev |-> 0]
      /\ sys_ticks = Clock!NoWords /\ system_ticks = 0 /\ ticks_last = 0
      /\ last = 0 /\ ticks = 0 /\ real = 0 /\ took = 0
  BY DEF Clock!Init, Clock!CounterInit
<1>2. Top \in Nat \ {0} /\ Turns \in Nat \ {0} /\ Delay \in Nat /\ Words \in Nat \ {0, 1}
  BY <1>1, ClockNumbers
<1>3. Clock!TypeOK
  <2>1. hw \in [Clock!Dev -> ClockHw] /\ alarm \in [Clock!Dev -> ClockAlarm]
    BY <1>1, <1>2 DEF ClockHw, ClockAlarm, Clock!Callbacks
  <2>2. now \in [Clock!Dev -> 0..Top] /\ isr \in [Clock!Dev -> {"idle", "callback", "spin", "reset"}]
    BY <1>1, <1>2
  <2>3. sys_ticks \in ClockWords
    BY <1>1, <1>2 DEF ClockWords, Clock!NoWords
  <2>4. c_pc \in Clock!Boot
    BY <1>1 DEF Clock!Boot
  <2>5. 0 \in 0..(Turns - 1) /\ 0 \in 0..Top /\ 0 \in 0..Delay
    BY <1>2
  <2> QED BY <1>1, <2>1, <2>2, <2>3, <2>4, <2>5, ClockTypesAre
<1>4. "main" \in Clock!Dev /\ "load" \in Clock!Dev
  BY DEF Clock!Dev
<1>5. ClockShape
  BY <1>1, <1>3, <1>4 DEF ClockShape
<1>6. BootAt
  BY <1>1, <1>2, <1>4 DEF BootAt
<1>7. c_pc \in Clock!Boot
  BY <1>1 DEF Clock!Boot
<1> QED BY <1>5, <1>6, <1>7 DEF ClockInv

-----------------------------------------------------------------------------
(* osal_gettime() changes its locals.                                      *)

(* What a step of it finds.                                                *)
LEMMA ClockInTask ==
    ASSUME ClockShape, Clock!InTask
    PROVE  isr["main"] = "idle" /\ (hw["main"].en => ~hw["main"].flag)
BY DEF Clock!InTask, Clock!Pending, Clock!Dev

(* Its steps keep the shape.                                               *)
LEMMA ReadsShape ==
    ASSUME ClockShape, Clock!InClock, c_pc \notin Clock!Boot,
           c_pc' \in {"idle", "words", "last", "count", "check", "sum"},
           again' \in BOOLEAN, last' \in 0..Top, ticks' \in 0..Top, took' \in 0..(Turns - 1),
           sys_ticks' \in ClockWords,
           c_pc' \in {"words", "last", "count", "check", "sum"} \/ (~again' /\ sys_ticks' = Clock!NoWords),
           c_pc' \in {"last", "count", "sum"} /\ (c_pc' = "sum" => again') => sys_ticks'.read = {"lo", "hi"},
           c_pc' = "words" => sys_ticks'.read # {"lo", "hi"},
           c_pc' = "check" => ~again'
    PROVE  ClockShape'
<1>1. Clock!TypeOK /\ UNCHANGED <<setting, hw, alarm, next, isr, now, system_ticks, ticks_last, real>>
  BY DEF ClockShape, Clock!InClock
<1>2. lag' = 0 /\ Delay' = Delay
  BY <1>1 DEF Clock!InClock, Clock!Ran, Delay
<1>3. Clock!TypeOK'
  <2>1. /\ setting' \in Settings /\ hw' \in [Clock!Dev -> ClockHw]
        /\ alarm' \in [Clock!Dev -> ClockAlarm] /\ next' \in 0..Top /\ now' \in [Clock!Dev -> 0..Top]
        /\ isr' \in [Clock!Dev -> {"idle", "callback", "spin", "reset"}]
        /\ system_ticks' \in 0..(Turns - 1) /\ real' \in 0..(Turns - 1) /\ ticks_last' \in 0..Top
    BY <1>1, ClockTypes
  <2>2. lag' \in 0..Delay'
    <3>1. setting \in Settings
      BY <1>1, ClockTypes
    <3> QED BY <1>2, <3>1, ClockNumbers
  <2>3. c_pc' \in Clock!Boot \cup {"idle", "words", "last", "count", "check", "sum"}
    OBVIOUS
  <2>4. Clock!CounterTypeOK'
    BY <2>1, <2>2 DEF Clock!CounterTypeOK, ClockHw, ClockAlarm, Delay
  <2>5. ({system_ticks, real, took} \subseteq 0..(Words * (Top + 1) - 1))'
    BY <2>1 DEF Turns, Turn
  <2> QED BY <2>1, <2>3, <2>4, <2>5 DEF Clock!TypeOK, ClockWords
<1> QED BY <1>1, <1>3 DEF ClockShape

(* They leave the loop as it is.                                           *)
LEMMA ReadsLoop ==
    ASSUME ClockShape, Clock!InClock, NEW s \in Int, NEW l \in Int, NEW g \in Int, LoopAt(s, l, g)
    PROVE  LoopAt(s, l, g)' /\ lag' = 0 /\ Delay' = Delay /\ isr["main"] = "idle" /\ ~hw["main"].flag
<1>1. /\ UNCHANGED <<setting, hw, alarm, next, isr, now, system_ticks, ticks_last, real>>
      /\ lag' = 0 /\ Clock!InTask
  BY DEF Clock!InClock, Clock!Ran
<1>2. isr["main"] = "idle" /\ ~hw["main"].flag
  BY <1>1, ClockInTask DEF LoopAt
<1>3. Delay' = Delay
  BY <1>1 DEF Delay
<1>4. s - g \in 0..(Period - 1)
  BY <1>2 DEF LoopAt
<1>5. LoopAt(s, l, g)'
  BY <1>1, <1>2, <1>3, <1>4 DEF LoopAt, Clock!Wrap, Clock!Sum
<1> QED BY <1>1, <1>2, <1>3, <1>5

LEMMA RangesInt ==
    ASSUME ClockShape
    PROVE  0..(Period + 3 * Delay) \subseteq Int /\ 0..Top \subseteq Int /\ 0..Delay \subseteq Int
<1>1. setting \in Settings
  BY ClockTypes DEF ClockShape
<1> QED BY <1>1, ClockNumbers

LEMMA ReadsDone ==
    ASSUME ClockShape', c_pc' \notin Clock!Boot, Delay' = Delay,
           NEW s \in 0..(Period + 3 * Delay), NEW l \in 0..Top, NEW g \in 0..Delay,
           LoopAt(s, l, g)', ReadingAt(s, l, g)'
    PROVE  ClockInv'
BY DEF ClockInv

LEMMA LoopHas ==
    ASSUME ClockInv, c_pc \notin Clock!Boot
    PROVE  /\ ClockShape
           /\ \E s \in 0..(Period + 3 * Delay), l \in 0..Top, g \in 0..Delay :
                  LoopAt(s, l, g) /\ ReadingAt(s, l, g)
BY DEF ClockInv

(* The words read.                                                         *)
LEMMA ReadsAre ==
    ASSUME sys_ticks.read \in SUBSET {"lo", "hi"}
    PROVE  /\ Reads \in 0..2
           /\ sys_ticks.read = {} => Reads = 0
           /\ sys_ticks.read = {"lo", "hi"} => Reads = 2
           /\ sys_ticks.read # {} => Reads >= 1
BY DEF Reads

LEMMA StepsAre ==
    ASSUME sys_ticks.read \in SUBSET {"lo", "hi"}, again \in BOOLEAN
    PROVE  Steps \in 0..13
<1>1. Reads \in 0..2
  BY ReadsAre
<1> QED BY <1>1 DEF Steps

(* What was fresh is fresh a step later.                                   *)
LEMMA StaysFresh ==
    ASSUME NEW s \in Int, NEW g \in Int, Fresh(s, g), setting \in Settings, lag \in 0..Delay,
           lag' = 0, Delay' = Delay, Steps \in Int, Steps' \in Int, Steps' > Steps
    PROVE  Fresh(s, g)'
<1>1. Delay \in Nat
  BY ClockNumbers
<1> DEFINE p == Steps
           q == Steps'
           d == Delay
<1>2. s - g <= (3 + p) * d + lag /\ lag \in Int /\ lag <= d
  BY <1>1 DEF Fresh
<1>3. p \in Int /\ q \in Int /\ q > p /\ d \in Nat
  BY <1>1
<1> HIDE DEF p, q, d
<1>4. (3 + q) * d >= (3 + p) * d + d
  <2>1. (3 + q) * d = (3 + p) * d + (q - p) * d
    BY <1>3
  <2>2. (q - p) * d >= d
    BY <1>3
  <2>3. (3 + p) * d \in Int /\ (q - p) * d \in Int
    BY <1>3
  <2> QED BY <2>1, <2>2, <2>3, <1>3
<1>5. (3 + p) * d \in Int /\ (3 + q) * d \in Int
  BY <1>3
<1>6. s - g <= (3 + q) * d + 0
  BY <1>2, <1>3, <1>4, <1>5
<1> QED BY <1>6 DEF Fresh, p, q, d

LEMMA CallKeeps ==
    ASSUME ClockInv, c_pc \notin Clock!Boot, Clock!Call
    PROVE  ClockInv'
<1>1. /\ Clock!InClock /\ c_pc = "idle" /\ c_pc' = "words"
      /\ UNCHANGED <<again, sys_ticks, last, ticks, took>>
  BY DEF Clock!Call, Clock!locals
<1>2. PICK s \in 0..(Period + 3 * Delay), l \in 0..Top, g \in 0..Delay :
          LoopAt(s, l, g) /\ ReadingAt(s, l, g)
  BY LoopHas
<1>3. ClockShape /\ Clock!TypeOK
  BY LoopHas DEF ClockShape
<1>4. ~again /\ sys_ticks = Clock!NoWords
  BY <1>1, <1>3 DEF ClockShape
<1>5. ClockShape'
  <2>1. /\ again' \in BOOLEAN /\ last' \in 0..Top /\ ticks' \in 0..Top /\ took' \in 0..(Turns - 1)
        /\ sys_ticks' \in ClockWords
    BY <1>1, <1>3, <1>4, ClockTypes DEF ClockShape
  <2>2. sys_ticks'.read = {}
    BY <1>1, <1>4 DEF Clock!NoWords
  <2> QED BY <1>1, <1>3, <2>1, <2>2, ReadsShape
<1>6. LoopAt(s, l, g)' /\ Delay' = Delay
  BY <1>1, <1>2, <1>3, RangesInt, ReadsLoop
<1>7. ReadingAt(s, l, g)'
  <2>1. sys_ticks'.read = {}
    BY <1>1, <1>4 DEF Clock!NoWords
  <2> QED BY <1>1, <1>4, <2>1 DEF ReadingAt, FirstAt
<1>8. c_pc' \notin Clock!Boot
  BY <1>1 DEF Clock!Boot
<1> QED BY <1>5, <1>6, <1>7, <1>8, ReadsDone

(* What the step after it has to show of a word that was read.             *)
LEMMA WordIs ==
    ASSUME NEW w \in {"lo", "hi"},
           sys_ticks'[w] = (IF w = "lo" THEN Clock!Lo(system_ticks) ELSE Clock!Hi(system_ticks)),
           system_ticks' = system_ticks
    PROVE  IsNow(w)'
BY DEF IsNow, Clock!Changed, Clock!Lo, Clock!Hi

LEMMA WordKept ==
    ASSUME NEW w \in {"lo", "hi"}, sys_ticks'[w] = sys_ticks[w], system_ticks' = system_ticks, IsNow(w)
    PROVE  IsNow(w)'
BY DEF IsNow, Clock!Changed, Clock!Lo, Clock!Hi

LEMMA ReadWordKeeps ==
    ASSUME ClockInv, c_pc \notin Clock!Boot, NEW w \in {"lo", "hi"}, Clock!ReadWord(w)
    PROVE  ClockInv'
<1>1. /\ Clock!InClock /\ c_pc = "words" /\ w \notin sys_ticks.read
      /\ sys_ticks' = [sys_ticks EXCEPT
                ![w] = IF w = "lo" THEN Clock!Lo(system_ticks) ELSE Clock!Hi(system_ticks),
                !.read = @ \cup {w}]
      /\ c_pc' = IF sys_ticks'.read = {"lo", "hi"} THEN "last" ELSE "words"
      /\ UNCHANGED <<again, last, ticks, took>>
  BY DEF Clock!ReadWord
<1>2. PICK s \in 0..(Period + 3 * Delay), l \in 0..Top, g \in 0..Delay :
          LoopAt(s, l, g) /\ ReadingAt(s, l, g)
  BY LoopHas
<1>3. ClockShape /\ Clock!TypeOK
  BY LoopHas DEF ClockShape
<1>4. /\ setting \in Settings /\ system_ticks \in 0..(Turns - 1) /\ sys_ticks \in ClockWords
      /\ lag \in 0..Delay /\ again \in BOOLEAN
  BY <1>3, ClockTypes DEF ClockShape
<1>5. Clock!Lo(system_ticks) \in 0..Top /\ Clock!Hi(system_ticks) \in 0..(Words - 1)
  BY <1>4, ClockWordsOf
<1>6. /\ sys_ticks' \in ClockWords /\ sys_ticks'.read = sys_ticks.read \cup {w}
      /\ sys_ticks'[w] = (IF w = "lo" THEN Clock!Lo(system_ticks) ELSE Clock!Hi(system_ticks))
      /\ \A v \in {"lo", "hi"} \ {w} : sys_ticks'[v] = sys_ticks[v]
  <2>1. CASE w = "lo"
    BY <1>1, <1>4, <1>5, <2>1 DEF ClockWords
  <2>2. CASE w = "hi"
    BY <1>1, <1>4, <1>5, <2>2 DEF ClockWords
  <2> QED BY <2>1, <2>2
<1>7. again' = again /\ again' \in BOOLEAN /\ last' \in 0..Top /\ ticks' \in 0..Top /\ took' \in 0..(Turns - 1)
  BY <1>1, <1>3, <1>4, ClockTypes
<1>8. ClockShape'
  <2>1. c_pc' \in {"words", "last"} /\ (c_pc' = "last" <=> sys_ticks'.read = {"lo", "hi"})
    BY <1>1
  <2> QED BY <1>1, <1>3, <1>6, <1>7, <2>1, ReadsShape
<1>9. LoopAt(s, l, g)' /\ Delay' = Delay /\ lag' = 0
  BY <1>1, <1>2, <1>3, RangesInt, ReadsLoop
<1>10. c_pc' \in {"words", "last"} /\ c_pc' \notin Clock!Boot
  BY <1>1 DEF Clock!Boot
<1>11. Steps \in Int /\ Steps' \in Int /\ Steps' > Steps
  <2>1. sys_ticks.read \in SUBSET {"lo", "hi"} /\ sys_ticks'.read \in SUBSET {"lo", "hi"}
    BY <1>4, <1>6 DEF ClockWords
  <2>2. Reads \in 0..1 /\ Reads' = Reads + 1
    <3>1. /\ "lo" \in sys_ticks'.read <=> w = "lo" \/ "lo" \in sys_ticks.read
          /\ "hi" \in sys_ticks'.read <=> w = "hi" \/ "hi" \in sys_ticks.read
      BY <1>6
    <3> DEFINE a == "lo" \in sys_ticks.read
               b == "hi" \in sys_ticks.read
    <3>2. Reads = (IF a THEN 1 ELSE 0) + (IF b THEN 1 ELSE 0)
      BY DEF Reads
    <3>3. Reads' = (IF w = "lo" \/ a THEN 1 ELSE 0) + (IF w = "hi" \/ b THEN 1 ELSE 0)
      BY <3>1 DEF Reads
    <3>4. (w = "lo" /\ ~a /\ w # "hi") \/ (w = "hi" /\ ~b /\ w # "lo")
      BY <1>1
    <3> HIDE DEF a, b
    <3> QED BY <3>2, <3>3, <3>4
  <2>3. c_pc' = "last" => Reads' = 2
    <3>1. c_pc' = "last" => "lo" \in sys_ticks'.read /\ "hi" \in sys_ticks'.read
      BY <1>1
    <3> QED BY <3>1 DEF Reads
  <2>4. Steps = (IF again THEN 7 ELSE 0) + Reads
    BY <1>1 DEF Steps
  <2>5. Steps' = (IF again THEN 7 ELSE 0) + Reads'
    BY <1>7, <1>10, <2>3 DEF Steps
  <2> QED BY <2>2, <2>4, <2>5, <1>4
<1>12. Fresh(s, g) => Fresh(s, g)'
  BY <1>4, <1>9, <1>11, StaysFresh
<1>13. system_ticks' = system_ticks /\ sys_ticks.read \subseteq {"lo", "hi"}
  BY <1>1, <1>4 DEF Clock!InClock, ClockWords
<1>14. \A v \in sys_ticks'.read : v = w \/ v \in sys_ticks.read
  BY <1>6
<1>15. \A v \in sys_ticks.read : IsNow(v) => IsNow(v)'
  <2> SUFFICES ASSUME NEW v \in sys_ticks.read, IsNow(v) PROVE IsNow(v)'
    OBVIOUS
  <2>1. v \in {"lo", "hi"} \ {w}
    BY <1>1, <1>13
  <2> QED BY <1>6, <1>13, <2>1, WordKept
<1>16. IsNow(w)'
  BY <1>6, <1>13, WordIs
<1>17. ReadingAt(s, l, g)'
  <2>1. CASE again
    <3>1. SecondAt(s, g)
      BY <1>1, <1>2, <2>1 DEF ReadingAt
    <3>2. SecondAt(s, g)'
      BY <1>10, <1>12, <1>14, <1>15, <1>16, <3>1 DEF SecondAt
    <3> QED BY <1>7, <1>10, <2>1, <3>2 DEF ReadingAt
  <2>2. CASE ~again
    <3>1. FirstAt(s, l, g)
      BY <1>1, <1>2, <2>2 DEF ReadingAt
    <3>2. FirstAt(s, l, g)'
      BY <1>10, <1>12, <1>14, <1>15, <1>16, <3>1 DEF FirstAt
    <3> QED BY <1>7, <1>10, <2>2, <3>2 DEF ReadingAt
  <2> QED BY <2>1, <2>2
<1> QED BY <1>8, <1>9, <1>10, <1>17, ReadsDone

LEMMA ReadLastKeeps ==
    ASSUME ClockInv, c_pc \notin Clock!Boot, Clock!ReadLast
    PROVE  ClockInv'
<1>1. /\ Clock!InClock /\ c_pc = "last" /\ last' = ticks_last /\ c_pc' = "count"
      /\ UNCHANGED <<again, sys_ticks, ticks, took>>
  BY DEF Clock!ReadLast
<1>2. PICK s \in 0..(Period + 3 * Delay), l \in 0..Top, g \in 0..Delay :
          LoopAt(s, l, g) /\ ReadingAt(s, l, g)
  BY LoopHas
<1>3. ClockShape /\ Clock!TypeOK
  BY LoopHas DEF ClockShape
<1>4. /\ setting \in Settings /\ sys_ticks \in ClockWords /\ lag \in 0..Delay /\ again \in BOOLEAN
      /\ ticks_last \in 0..Top /\ ticks \in 0..Top /\ took \in 0..(Turns - 1)
  BY <1>3, ClockTypes DEF ClockShape
<1>5. sys_ticks.read = {"lo", "hi"}
  BY <1>1, <1>3 DEF ClockShape
<1>6. ClockShape'
  BY <1>1, <1>3, <1>4, <1>5, ReadsShape
<1>7. LoopAt(s, l, g)' /\ Delay' = Delay /\ lag' = 0
  BY <1>1, <1>2, <1>3, RangesInt, ReadsLoop
<1>8. Steps \in Int /\ Steps' \in Int /\ Steps' > Steps
  BY <1>1, <1>4 DEF Steps
<1>9. Fresh(s, g) => Fresh(s, g)'
  BY <1>4, <1>7, <1>8, StaysFresh
<1>10. system_ticks' = system_ticks /\ ticks_last' = ticks_last
  BY <1>1 DEF Clock!InClock
<1>11. \A v \in sys_ticks.read : IsNow(v) => IsNow(v)'
  BY <1>1, <1>5, <1>10, WordKept
<1>12. LastIsNow'
  BY <1>1, <1>10 DEF LastIsNow
<1>13. ReadingAt(s, l, g)'
  <2>1. CASE again
    <3>1. SecondAt(s, g)
      BY <1>1, <1>2, <2>1 DEF ReadingAt
    <3>2. SecondAt(s, g)'
      BY <1>1, <1>9, <1>11, <1>12, <3>1 DEF SecondAt
    <3> QED BY <1>1, <2>1, <3>2 DEF ReadingAt
  <2>2. CASE ~again
    <3>1. FirstAt(s, l, g)
      BY <1>1, <1>2, <2>2 DEF ReadingAt
    <3>2. FirstAt(s, l, g)'
      BY <1>1, <1>9, <1>11, <1>12, <3>1 DEF FirstAt
    <3> QED BY <1>1, <2>2, <3>2 DEF ReadingAt
  <2> QED BY <2>1, <2>2
<1>14. c_pc' \notin Clock!Boot
  BY <1>1 DEF Clock!Boot
<1> QED BY <1>6, <1>7, <1>13, <1>14, ReadsDone

(* What is read now is what is returned, ...                               *)
LEMMA SumIs ==
    ASSUME ClockShape, ClockShape', NEW s \in Int, NEW l \in 0..Top, NEW g \in Int,
           LoopAt(s, l, g)', Delay' = Delay, NEW k \in 0..l,
           \A w \in {"lo", "hi"} : IsNow(w)', LastIsNow',
           ticks' = Clock!Wrap(real' - k), took' = Clock!Sum(real' - k)
    PROVE  SumAt'
<1>1. /\ setting \in Settings /\ Clock!TypeOK /\ Clock!TypeOK'
  BY ClockTypes DEF ClockShape
<1>2. system_ticks' \in 0..(Turns - 1) /\ real' \in 0..(Turns - 1)
  BY <1>1 DEF Clock!TypeOK, Turns, Turn
<1>3. /\ Delay \in Nat /\ Top \in Nat /\ Turns \in Nat /\ Turn = Top + 1
  BY <1>1, ClockNumbers
<1> DEFINE h == s - l
           v == l - k
           r == real'
<1>4. h \in (-Delay)..(3 * Delay) /\ v \in 0..Top /\ r \in Int /\ k \in Int /\ l \in Int
  BY <1>2, <1>3 DEF LoopAt
<1>5. sys_ticks'.hi * Turn + sys_ticks'.lo = system_ticks'
  <2>1. sys_ticks'.lo = Clock!Lo(system_ticks') /\ sys_ticks'.hi = Clock!Hi(system_ticks')
    BY DEF IsNow, Clock!Changed, Clock!Lo, Clock!Hi
  <2> QED BY <1>1, <1>2, <2>1, ClockWordsOf
<1>6. system_ticks' = Clock!Sum(took' - v - h)
  <2>1. system_ticks' = Clock!Sum(r - s)
    BY DEF LoopAt, Clock!Sum
  <2>2. Clock!Sum(Clock!Sum(r - k) + (-v - h)) = Clock!Sum((r - k) + (-v - h))
    BY <1>3, <1>4, ClockSums
  <2>3. (r - k) + (-v - h) = r - s
    BY <1>4
  <2>4. took' \in Int /\ took' - v - h = took' + (-v - h)
    <3>1. took' \in Int
      BY <1>3, <1>4, ClockIn
    <3> QED BY <1>3, <1>4, <3>1
  <2> QED BY <2>1, <2>2, <2>3, <2>4
<1>7. last' = Clock!Wrap(took' - v) /\ ticks' = Clock!Wrap(took')
  <2>1. last' = Clock!Wrap(r - l)
    BY DEF LastIsNow, LoopAt, Clock!Wrap
  <2>2. Clock!Wrap(Clock!Sum(r - k) + (-v)) = Clock!Wrap((r - k) + (-v))
    BY <1>4, ClockSums
  <2>5. Clock!Wrap(Clock!Sum(r - k) + 0) = Clock!Wrap((r - k) + 0)
    <3> DEFINE x == r - k
    <3>1. x \in Int
      BY <1>4
    <3> HIDE DEF x
    <3>2. Clock!Wrap(Clock!Sum(x) + 0) = Clock!Wrap(x + 0)
      BY <3>1, ClockSums
    <3> QED BY <3>2 DEF x
  <2>3. (r - k) + (-v) = r - l /\ (r - k) + 0 = r - k
    BY <1>4
  <2>4. took' - v = took' + (-v) /\ took' = took' + 0
    <3>1. took' \in Int
      BY <1>3, <1>4, ClockIn
    <3> QED BY <1>4, <3>1
  <2> QED BY <2>1, <2>2, <2>3, <2>4, <2>5
<1> HIDE DEF h, v, r
<1>8. \E hh \in (-Delay)..(3 * Delay), vv \in 0..Top :
        /\ sys_ticks'.hi * Turn + sys_ticks'.lo = Clock!Sum(took' - vv - hh)
        /\ last' = Clock!Wrap(took' - vv) /\ ticks' = Clock!Wrap(took')
  BY <1>4, <1>5, <1>6, <1>7
<1> QED BY <1>8 DEF SumAt, Clock!Sum, Clock!Wrap

(* ... as it is when the second reading reads the count, ...               *)
LEMMA ReadCountKeeps ==
    ASSUME ClockInv, c_pc \notin Clock!Boot, Clock!ReadCount
    PROVE  ClockInv'
<1>1. /\ Clock!InClock /\ c_pc = "count" /\ ticks' = hw["main"].cnt /\ took' = real
      /\ c_pc' = IF again THEN "sum" ELSE "check"
      /\ UNCHANGED <<again, sys_ticks, last>>
      /\ UNCHANGED <<system_ticks, ticks_last, real>>
  BY DEF Clock!ReadCount, Clock!InClock
<1>2. PICK s \in 0..(Period + 3 * Delay), l \in 0..Top, g \in 0..Delay :
          LoopAt(s, l, g) /\ ReadingAt(s, l, g)
  BY LoopHas
<1>3. ClockShape /\ Clock!TypeOK
  BY LoopHas DEF ClockShape
<1>4. /\ setting \in Settings /\ sys_ticks \in ClockWords /\ lag \in 0..Delay /\ again \in BOOLEAN
      /\ last \in 0..Top /\ real \in 0..(Turns - 1) /\ hw["main"] \in ClockHw
  BY <1>3, ClockTypes DEF ClockShape
<1>5. sys_ticks.read = {"lo", "hi"}
  BY <1>1, <1>3 DEF ClockShape
<1>6. ClockShape'
  <2>1. ticks' \in 0..Top /\ took' \in 0..(Turns - 1)
    BY <1>1, <1>4 DEF ClockHw
  <2> QED BY <1>1, <1>3, <1>4, <1>5, <2>1, ReadsShape
<1>7. LoopAt(s, l, g)' /\ Delay' = Delay /\ lag' = 0
  BY <1>1, <1>2, <1>3, RangesInt, ReadsLoop
<1>8. Steps \in Int /\ (~again => Steps' \in Int /\ Steps' > Steps)
  <2>1. Reads = 2 /\ Reads' = 2
    BY <1>1, <1>5 DEF Reads
  <2> QED BY <1>1, <1>4, <2>1 DEF Steps
<1>9. ~again => (Fresh(s, g) => Fresh(s, g)')
  BY <1>4, <1>7, <1>8, StaysFresh
<1>10. \A v \in {"lo", "hi"} : IsNow(v) => IsNow(v)'
  BY <1>1, <1>5, WordKept
<1>11. LastIsNow' <=> LastIsNow
  BY <1>1 DEF LastIsNow
<1>12. ticks' = Clock!Wrap(real' - 0) /\ took' = Clock!Sum(real' - 0)
  <2>1. real' = real /\ real - 0 = real /\ real \in 0..(Turns - 1)
    BY <1>1, <1>4, ClockModulus
  <2>2. hw["main"].cnt = Clock!Wrap(real)
    BY <1>2 DEF LoopAt
  <2>3. Clock!Sum(real) = real
    BY <1>4, ClockSmall
  <2> QED BY <1>1, <2>1, <2>2, <2>3
<1>13. 0 \in 0..l /\ Top \in Nat /\ Delay \in Nat
  <2>1. Top \in Nat /\ Delay \in Nat
    BY <1>4, ClockNumbers
  <2> QED BY <2>1
<1>14. ReadingAt(s, l, g)'
  <2>1. CASE again
    <3>1. SecondAt(s, g)
      BY <1>1, <1>2, <2>1 DEF ReadingAt
    <3>2. \A v \in {"lo", "hi"} : IsNow(v)'
      BY <1>5, <1>10, <3>1 DEF SecondAt
    <3>3. LastIsNow'
      BY <1>1, <1>11, <3>1 DEF SecondAt
    <3>4. SumAt'
      BY <1>3, <1>6, <1>7, <1>12, <1>13, <3>2, <3>3, RangesInt, SumIs
    <3>5. c_pc' = "sum"
      BY <1>1, <2>1
    <3> QED BY <3>4, <3>5 DEF ReadingAt
  <2>2. CASE ~again
    <3>1. FirstAt(s, l, g)
      BY <1>1, <1>2, <2>2 DEF ReadingAt
    <3>2. c_pc' = "check" /\ sys_ticks'.read = {"lo", "hi"} /\ again' = FALSE
      BY <1>1, <1>4, <1>5, <2>2
    <3>3. \A w \in sys_ticks'.read : IsNow(w)' \/ Fresh(s, g)'
      BY <1>5, <1>9, <1>10, <2>2, <3>1, <3>2 DEF FirstAt
    <3>4. LastIsNow' \/ Fresh(s, g)'
      BY <1>1, <1>9, <1>11, <2>2, <3>1 DEF FirstAt
    <3>5. FirstAt(s, l, g)'
      BY <1>12, <1>13, <3>2, <3>3, <3>4 DEF FirstAt
    <3> QED BY <3>2, <3>5 DEF ReadingAt
  <2> QED BY <2>1, <2>2
<1>15. c_pc' \notin Clock!Boot
  BY <1>1 DEF Clock!Boot
<1> QED BY <1>6, <1>7, <1>14, <1>15, ReadsDone

(* ... and as it is when the first one was found unchanged.                *)
LEMMA AgainKeeps ==
    ASSUME ClockInv, c_pc = "check", Clock!InClock, Clock!ReadAgain, UNCHANGED <<last, ticks, took>>,
           NEW s \in 0..(Period + 3 * Delay), NEW l \in 0..Top, NEW g \in 0..Delay,
           LoopAt(s, l, g), Fresh(s, g)
    PROVE  ClockInv'
<1>1. c_pc' = "words" /\ again' = TRUE /\ sys_ticks' = Clock!NoWords
  BY DEF Clock!ReadAgain
<1>2. ClockShape /\ Clock!TypeOK /\ c_pc \notin Clock!Boot /\ c_pc' \notin Clock!Boot
  BY <1>1, LoopHas DEF ClockShape, Clock!Boot
<1>3. /\ setting \in Settings /\ sys_ticks \in ClockWords /\ lag \in 0..Delay /\ ~again
      /\ last \in 0..Top /\ ticks \in 0..Top /\ took \in 0..(Turns - 1)
  BY <1>2, ClockTypes DEF ClockShape
<1>4. ClockShape'
  <2>1. sys_ticks' \in ClockWords /\ sys_ticks'.read = {}
    BY <1>1, <1>3, ClockNumbers DEF Clock!NoWords, ClockWords
  <2> QED BY <1>1, <1>2, <1>3, <2>1, ReadsShape
<1>5. LoopAt(s, l, g)' /\ Delay' = Delay /\ lag' = 0
  BY <1>2, RangesInt, ReadsLoop
<1>6. Steps \in Int /\ Steps' \in Int /\ Steps' > Steps
  <2>1. Reads \in 0..2
    BY <1>3, ReadsAre DEF ClockWords
  <2>2. Reads' = 0
    BY <1>1 DEF Reads, Clock!NoWords
  <2> QED BY <1>1, <1>3, <2>1, <2>2 DEF Steps
<1>7. Fresh(s, g)'
  BY <1>2, <1>3, <1>5, <1>6, RangesInt, StaysFresh
<1>8. ReadingAt(s, l, g)'
  BY <1>1, <1>7 DEF ReadingAt, SecondAt, Clock!NoWords
<1> QED BY <1>2, <1>4, <1>5, <1>8, ReadsDone

LEMMA CheckWordKeeps ==
    ASSUME ClockInv, c_pc \notin Clock!Boot, NEW w \in {"lo", "hi"}, Clock!CheckWord(w)
    PROVE  ClockInv'
<1>1. /\ Clock!InClock /\ c_pc = "check" /\ w \in sys_ticks.read
      /\ UNCHANGED <<last, ticks, took>>
      /\ UNCHANGED <<system_ticks, ticks_last, real>>
  BY DEF Clock!CheckWord, Clock!InClock
<1>2. PICK s \in 0..(Period + 3 * Delay), l \in 0..Top, g \in 0..Delay :
          LoopAt(s, l, g) /\ ReadingAt(s, l, g)
  BY LoopHas
<1>3. ClockShape /\ Clock!TypeOK /\ ~again
  BY <1>1, LoopHas DEF ClockShape
<1>4. FirstAt(s, l, g)
  BY <1>1, <1>2, <1>3 DEF ReadingAt
<1>5. CASE Clock!Changed(w)
  <2>1. Clock!ReadAgain
    BY <1>5 DEF Clock!CheckWord
  <2>2. Fresh(s, g)
    BY <1>1, <1>4, <1>5 DEF FirstAt, IsNow
  <2> QED BY <1>1, <1>2, <2>1, <2>2, AgainKeeps
<1>6. CASE ~Clock!Changed(w)
  <2>1. /\ sys_ticks' = [sys_ticks EXCEPT !.read = @ \ {w}]
        /\ UNCHANGED <<c_pc, again>>
    BY <1>6 DEF Clock!CheckWord
  <2>2. /\ setting \in Settings /\ sys_ticks \in ClockWords /\ lag \in 0..Delay
        /\ last \in 0..Top /\ ticks \in 0..Top /\ took \in 0..(Turns - 1)
    BY <1>3, ClockTypes
  <2>3. /\ sys_ticks' \in ClockWords /\ sys_ticks'.read = sys_ticks.read \ {w}
        /\ sys_ticks'.lo = sys_ticks.lo /\ sys_ticks'.hi = sys_ticks.hi
    BY <2>1, <2>2 DEF ClockWords
  <2>4. ClockShape'
    <3>1. c_pc' = "check" /\ again' = FALSE
      BY <1>1, <1>3, <2>1 DEF ClockShape
    <3> QED BY <1>1, <1>3, <2>2, <2>3, <3>1, ReadsShape
  <2>5. LoopAt(s, l, g)' /\ Delay' = Delay /\ lag' = 0
    BY <1>1, <1>2, <1>3, RangesInt, ReadsLoop
  <2>6. Steps \in Int /\ Steps' \in Int /\ Steps' > Steps
    <3> DEFINE a == "lo" \in sys_ticks.read
               b == "hi" \in sys_ticks.read
    <3>1. Reads = (IF a THEN 1 ELSE 0) + (IF b THEN 1 ELSE 0)
      BY DEF Reads
    <3>2. /\ "lo" \in sys_ticks'.read <=> w # "lo" /\ a
          /\ "hi" \in sys_ticks'.read <=> w # "hi" /\ b
      BY <2>3
    <3>3. Reads' = (IF w # "lo" /\ a THEN 1 ELSE 0) + (IF w # "hi" /\ b THEN 1 ELSE 0)
      BY <3>2 DEF Reads
    <3>4. (w = "lo" /\ a /\ w # "hi") \/ (w = "hi" /\ b /\ w # "lo")
      BY <1>1
    <3>6. c_pc' = "check" /\ again = FALSE /\ again' = FALSE
      BY <1>1, <1>3, <2>1 DEF ClockShape
    <3>7. Reads \in Int /\ Reads' \in Int
      BY <3>1, <3>3
    <3>5. Steps = 6 - Reads /\ Steps' = 6 - Reads'
      BY <1>1, <3>6, <3>7 DEF Steps
    <3> HIDE DEF a, b
    <3> QED BY <3>1, <3>3, <3>4, <3>5
  <2>7. Fresh(s, g) => Fresh(s, g)'
    BY <1>3, <2>2, <2>5, <2>6, RangesInt, StaysFresh
  <2>8. \A v \in {"lo", "hi"} : IsNow(v) => IsNow(v)'
    BY <1>1, <2>3, WordKept
  <2>9. LastIsNow' <=> LastIsNow
    BY <1>1 DEF LastIsNow
  <2>10. IsNow(w)
    BY <1>6 DEF IsNow
  <2>11. FirstAt(s, l, g)'
    <3>0. c_pc' = "check" /\ sys_ticks.read \subseteq {"lo", "hi"}
      BY <1>1, <2>1, <2>2 DEF ClockWords
    <3>1. \A v \in sys_ticks'.read : IsNow(v)' \/ Fresh(s, g)'
      BY <1>4, <2>3, <2>7, <2>8, <3>0 DEF FirstAt
    <3>2. LastIsNow' \/ Fresh(s, g)'
      BY <1>1, <1>4, <2>7, <2>9 DEF FirstAt
    <3>3. LastIsNow' => \A v \in {"lo", "hi"} \ sys_ticks'.read : IsNow(v)'
      <4> SUFFICES ASSUME LastIsNow', NEW v \in {"lo", "hi"} \ sys_ticks'.read PROVE IsNow(v)'
        OBVIOUS
      <4>1. v = w \/ v \in {"lo", "hi"} \ sys_ticks.read
        BY <2>3
      <4>2. IsNow(v)
        BY <1>1, <1>4, <2>9, <2>10, <4>1 DEF FirstAt
      <4> QED BY <2>8, <4>2
    <3>4. LastIsNow' => \E k \in 0..l : ticks' = Clock!Wrap(real' - k) /\ took' = Clock!Sum(real' - k)
      BY <1>1, <1>4, <2>9 DEF FirstAt
    <3> QED BY <3>0, <3>1, <3>2, <3>3, <3>4 DEF FirstAt, Clock!Wrap, Clock!Sum
  <2>12. ReadingAt(s, l, g)' /\ c_pc' \notin Clock!Boot
    BY <1>1, <1>3, <2>1, <2>11 DEF ReadingAt, Clock!Boot, ClockShape
  <2> QED BY <2>4, <2>5, <2>12, ReadsDone
<1> QED BY <1>5, <1>6

LEMMA CheckLastKeeps ==
    ASSUME ClockInv, c_pc \notin Clock!Boot, Clock!CheckLast
    PROVE  ClockInv'
<1>1. /\ Clock!InClock /\ c_pc = "check" /\ sys_ticks.read = {}
      /\ UNCHANGED <<last, ticks, took>>
      /\ UNCHANGED <<system_ticks, ticks_last, real>>
  BY DEF Clock!CheckLast, Clock!InClock
<1>2. PICK s \in 0..(Period + 3 * Delay), l \in 0..Top, g \in 0..Delay :
          LoopAt(s, l, g) /\ ReadingAt(s, l, g)
  BY LoopHas
<1>3. ClockShape /\ Clock!TypeOK /\ ~again
  BY <1>1, LoopHas DEF ClockShape
<1>4. FirstAt(s, l, g)
  BY <1>1, <1>2, <1>3 DEF ReadingAt
<1>5. CASE last # ticks_last
  <2>1. Clock!ReadAgain
    BY <1>5 DEF Clock!CheckLast
  <2>2. Fresh(s, g)
    BY <1>1, <1>4, <1>5 DEF FirstAt, LastIsNow
  <2> QED BY <1>1, <1>2, <2>1, <2>2, AgainKeeps
<1>6. CASE last = ticks_last
  <2>1. c_pc' = "sum" /\ UNCHANGED <<again, sys_ticks>>
    BY <1>6 DEF Clock!CheckLast
  <2>2. /\ setting \in Settings /\ sys_ticks \in ClockWords /\ lag \in 0..Delay
        /\ last \in 0..Top /\ ticks \in 0..Top /\ took \in 0..(Turns - 1)
    BY <1>3, ClockTypes
  <2>3. ClockShape'
    <3>1. c_pc' = "sum" /\ again' = FALSE
      BY <1>3, <2>1 DEF ClockShape
    <3> QED BY <1>1, <1>3, <2>1, <2>2, <3>1, ReadsShape
  <2>4. LoopAt(s, l, g)' /\ Delay' = Delay /\ lag' = 0
    BY <1>1, <1>2, <1>3, RangesInt, ReadsLoop
  <2>5. PICK k \in 0..l : ticks = Clock!Wrap(real - k) /\ took = Clock!Sum(real - k)
    BY <1>1, <1>4, <1>6 DEF FirstAt, LastIsNow
  <2>6. ticks' = Clock!Wrap(real' - k) /\ took' = Clock!Sum(real' - k)
    BY <1>1, <2>5
  <2>7. \A w \in {"lo", "hi"} : IsNow(w)'
    <3>1. \A w \in {"lo", "hi"} : IsNow(w)
      BY <1>1, <1>4, <1>6 DEF FirstAt, LastIsNow
    <3> QED BY <1>1, <2>1, <3>1, WordKept
  <2>8. LastIsNow'
    BY <1>1, <1>6 DEF LastIsNow
  <2>9. SumAt'
    BY <1>3, <2>3, <2>4, <2>6, <2>7, <2>8, RangesInt, SumIs
  <2>10. ReadingAt(s, l, g)' /\ c_pc' \notin Clock!Boot
    BY <2>1, <2>9 DEF ReadingAt, Clock!Boot
  <2> QED BY <2>3, <2>4, <2>10, ReadsDone
<1> QED BY <1>5, <1>6

LEMMA ReturnKeeps ==
    ASSUME ClockInv, c_pc \notin Clock!Boot, Clock!Return_gettime
    PROVE  ClockInv'
<1>1. /\ Clock!InClock /\ c_pc' = "idle" /\ again' = FALSE /\ sys_ticks' = Clock!NoWords
      /\ last' = 0 /\ ticks' = 0 /\ took' = 0
  BY DEF Clock!Return_gettime
<1>2. PICK s \in 0..(Period + 3 * Delay), l \in 0..Top, g \in 0..Delay :
          LoopAt(s, l, g) /\ ReadingAt(s, l, g)
  BY LoopHas
<1>3. ClockShape /\ setting \in Settings
  BY LoopHas, ClockTypes DEF ClockShape
<1>4. ClockShape'
  <2>1. sys_ticks' \in ClockWords /\ 0 \in 0..Top /\ 0 \in 0..(Turns - 1)
    BY <1>1, <1>3, ClockNumbers DEF Clock!NoWords, ClockWords
  <2> QED BY <1>1, <1>3, <2>1, ReadsShape
<1>5. LoopAt(s, l, g)' /\ Delay' = Delay
  BY <1>1, <1>2, <1>3, RangesInt, ReadsLoop
<1>6. ReadingAt(s, l, g)' /\ c_pc' \notin Clock!Boot
  BY <1>1 DEF ReadingAt, Clock!Boot
<1> QED BY <1>4, <1>5, <1>6, ReadsDone

-----------------------------------------------------------------------------
(* The interrupt.                                                          *)

(* What is before the last alarm and the next: it is not yet that.         *)
LEMMA NotYet ==
    ASSUME setting \in Settings, real \in 0..(Turns - 1), NEW e \in Int, NEW p \in Int, NEW x \in Int,
           p - e \in 1..Top, x = real - e + p
    PROVE  Clock!Wrap(x) # Clock!Wrap(real)
<1>1. Turn = Top + 1 /\ Turn \in Nat \ {0} /\ Turns \in Nat \ {0} /\ Top \in Nat
  BY ClockNumbers
<1>2. real \in Int /\ x - real = p - e /\ x \in Int
  BY <1>1
<1>3. x - real < Turn /\ real - x < Turn /\ x # real
  BY <1>1, <1>2
<1> QED BY <1>2, <1>3, ClockApart

(* The handler acknowledges an alarm of the loop and sets the next.        *)
LEMMA EnterIs ==
    ASSUME Clock!TypeOK, Clock!EnterHandler("main"), alarm["main"].loop, alarm["main"].cb = "wakeup",
           NEW v, v = Clock!NextCompare("main"), v # hw["main"].cnt, v \in 0..Top
    PROVE  /\ hw' \in [Clock!Dev -> ClockHw] /\ hw'["load"] = hw["load"]
           /\ hw'["main"] = [hw["main"] EXCEPT !.cmp = v, !.flag = FALSE]
           /\ alarm' \in [Clock!Dev -> ClockAlarm]
           /\ alarm'["main"] = [alarm["main"] EXCEPT !.last = v]
           /\ isr' \in [Clock!Dev -> {"idle", "callback", "spin", "reset"}]
           /\ isr'["main"] = "callback" /\ isr'["load"] = isr["load"]
           /\ now' \in [Clock!Dev -> 0..Top]
<1>1. /\ hw \in [Clock!Dev -> ClockHw] /\ alarm \in [Clock!Dev -> ClockAlarm]
      /\ isr \in [Clock!Dev -> {"idle", "callback", "spin", "reset"}] /\ now \in [Clock!Dev -> 0..Top]
      /\ hw["main"] \in ClockHw /\ alarm["main"] \in ClockAlarm
  BY ClockTypes
<1>2. "main" \in Clock!Dev /\ "load" \in Clock!Dev
  BY DEF Clock!Dev
<1>3. /\ now' = [now EXCEPT !["main"] = hw["main"].cnt]
      /\ Clock!Acknowledge("main")
      /\ isr' = [isr EXCEPT !["main"] = IF alarm["main"].cb = "none" THEN "reset" ELSE "callback"]
  BY DEF Clock!EnterHandler
<1>4. /\ \E h \in Clock!Compared([hw["main"] EXCEPT !.flag = FALSE], v) : hw' = [hw EXCEPT !["main"] = h]
      /\ alarm' = [alarm EXCEPT !["main"].last = v]
  BY <1>3 DEF Clock!Acknowledge
<1>5. PICK h \in Clock!Compared([hw["main"] EXCEPT !.flag = FALSE], v) : hw' = [hw EXCEPT !["main"] = h]
  BY <1>4
<1> DEFINE z == [hw["main"] EXCEPT !.flag = FALSE]
<1>6. z \in ClockHw /\ z.cnt = hw["main"].cnt /\ z.flag = FALSE
  BY <1>1 DEF ClockHw
<1>7. PICK f \in {z.flag, z.flag \/ v = z.cnt} : h = [z EXCEPT !.cmp = v, !.flag = f]
  BY <1>5 DEF Clock!Compared
<1>8. f = FALSE
  BY <1>6, <1>7
<1>9. h = [hw["main"] EXCEPT !.cmp = v, !.flag = FALSE] /\ h \in ClockHw
  BY <1>1, <1>7, <1>8 DEF ClockHw
<1>10. hw' \in [Clock!Dev -> ClockHw] /\ hw'["load"] = hw["load"] /\ hw'["main"] = h
  BY <1>1, <1>2, <1>5, <1>9
<1>11. /\ alarm' \in [Clock!Dev -> ClockAlarm]
       /\ alarm'["main"] = [alarm["main"] EXCEPT !.last = v]
  <2>1. [alarm["main"] EXCEPT !.last = v] \in ClockAlarm
    BY <1>1 DEF ClockAlarm
  <2> QED BY <1>1, <1>2, <1>4, <2>1
<1>12. /\ isr' \in [Clock!Dev -> {"idle", "callback", "spin", "reset"}]
       /\ isr'["main"] = "callback" /\ isr'["load"] = isr["load"]
  BY <1>1, <1>2, <1>3
<1>13. now' \in [Clock!Dev -> 0..Top]
  BY <1>1, <1>2, <1>3 DEF ClockHw
<1> QED BY <1>9, <1>10, <1>11, <1>12, <1>13

(* What its steps keep of the shape.                                       *)
LEMMA IrqShape ==
    ASSUME ClockShape, UNCHANGED <<setting, next, c_pc, again, sys_ticks, last, ticks, took, real>>, lag' = 0,
           hw' \in [Clock!Dev -> ClockHw], hw'["load"] = hw["load"], alarm' \in [Clock!Dev -> ClockAlarm],
           isr' \in [Clock!Dev -> {"idle", "callback", "spin", "reset"}], isr'["load"] = isr["load"],
           isr'["main"] # "spin", now' \in [Clock!Dev -> 0..Top],
           system_ticks' \in 0..(Turns - 1), ticks_last' \in 0..Top
    PROVE  ClockShape'
<1>1. Clock!TypeOK /\ setting \in Settings
  BY ClockTypes DEF ClockShape
<1>2. Clock!CounterTypeOK'
  <2>1. 0 \in 0..Delay /\ Delay' = Delay
    BY <1>1, ClockNumbers DEF Delay
  <2>2. setting' \in Settings /\ next' \in 0..Top /\ lag' \in 0..Delay'
    BY <1>1, <2>1, ClockTypes
  <2> QED BY <2>2 DEF Clock!CounterTypeOK, ClockHw, ClockAlarm, Delay
<1>3. ({system_ticks, real, took} \subseteq 0..(Words * (Top + 1) - 1))'
  BY <1>1, ClockTypes DEF Turns, Turn
<1>4. Clock!TypeOK'
  BY <1>1, <1>2, <1>3 DEF Clock!TypeOK
<1> QED BY <1>4 DEF ClockShape

(* What is fresh was not read before a period.                             *)
LEMMA NotFresh ==
    ASSUME ClockShape, c_pc \notin Clock!Boot, c_pc \notin {"idle", "sum"},
           NEW s \in Int, NEW g \in Int, s - g >= Period
    PROVE  ~Fresh(s, g)
<1>1. /\ setting \in Settings /\ sys_ticks \in ClockWords /\ lag \in 0..Delay /\ again \in BOOLEAN
      /\ c_pc \in Clock!Boot \cup {"idle", "words", "last", "count", "check", "sum"}
      /\ c_pc = "check" => again = FALSE
  BY ClockTypes DEF ClockShape
<1>2. Delay \in Nat /\ 16 * Delay < Period /\ Period \in Nat
  BY <1>1, ClockNumbers
<1>3. Reads \in 0..2
  BY <1>1, ReadsAre DEF ClockWords
<1>4. Steps \in 0..10
  BY <1>1, <1>3 DEF Steps
<1> DEFINE p == Steps
           d == Delay
<1>5. p \in 0..10 /\ d \in Nat /\ 16 * d < Period /\ lag \in 0..d
  BY <1>1, <1>2, <1>4
<1> SUFFICES ASSUME s - g <= (3 + p) * d + lag PROVE FALSE
  BY DEF Fresh
<1> HIDE DEF p, d
<1>6. (3 + p) * d <= 13 * d
  <2>1. 13 * d = (3 + p) * d + (10 - p) * d
    BY <1>5
  <2>2. (10 - p) * d >= 0 /\ (10 - p) * d \in Int /\ (3 + p) * d \in Int
    BY <1>5
  <2> QED BY <2>1, <2>2, <1>5
<1>7. (3 + p) * d \in Int
  BY <1>5
<1> QED BY <1>2, <1>5, <1>6, <1>7

(* A reading keeps what it has while nothing changes but the lag, which is *)
(* not what keeps it fresh.                                                *)
LEMMA ReadingKept ==
    ASSUME ClockShape, c_pc \notin Clock!Boot, NEW s \in Int, NEW l \in Int, NEW g \in Int,
           ReadingAt(s, l, g),
           UNCHANGED <<setting, c_pc, again, sys_ticks, last, ticks, took, real, system_ticks, ticks_last>>,
           c_pc \notin {"idle", "sum"} /\ Fresh(s, g) => Fresh(s, g)'
    PROVE  ReadingAt(s, l, g)'
<1>1. (LastIsNow' <=> LastIsNow) /\ \A w \in {"lo", "hi"} : IsNow(w)' <=> IsNow(w)
  BY DEF LastIsNow, IsNow, Clock!Changed, Clock!Lo, Clock!Hi
<1>2. sys_ticks.read \subseteq {"lo", "hi"} /\ again \in BOOLEAN
  BY ClockTypes DEF ClockShape, ClockWords
<1>3. CASE c_pc = "idle"
  BY <1>3 DEF ReadingAt
<1>4. CASE c_pc = "sum"
  <2>1. SumAt
    BY <1>4 DEF ReadingAt
  <2>2. SumAt'
    BY <2>1 DEF SumAt, Clock!Sum, Clock!Wrap, Delay
  <2> QED BY <1>4, <2>2 DEF ReadingAt
<1>5. CASE c_pc \notin {"idle", "sum"} /\ again
  <2>1. SecondAt(s, g)
    BY <1>5 DEF ReadingAt
  <2>2. SecondAt(s, g)'
    BY <1>1, <1>2, <1>5, <2>1 DEF SecondAt
  <2> QED BY <1>5, <2>2 DEF ReadingAt
<1>6. CASE c_pc \notin {"idle", "sum"} /\ ~again
  <2>1. FirstAt(s, l, g)
    BY <1>6 DEF ReadingAt
  <2>2. \A w \in sys_ticks'.read : IsNow(w)' \/ Fresh(s, g)'
    BY <1>1, <1>2, <1>6, <2>1 DEF FirstAt
  <2>3. c_pc' \in {"count", "check"} => LastIsNow' \/ Fresh(s, g)'
    BY <1>1, <1>6, <2>1 DEF FirstAt
  <2>4. c_pc' = "check" /\ LastIsNow' =>
            /\ \A w \in {"lo", "hi"} \ sys_ticks'.read : IsNow(w)'
            /\ \E k \in 0..l : ticks' = Clock!Wrap(real' - k) /\ took' = Clock!Sum(real' - k)
    BY <1>1, <2>1 DEF FirstAt
  <2>5. FirstAt(s, l, g)'
    BY <2>2, <2>3, <2>4 DEF FirstAt, Clock!Wrap, Clock!Sum
  <2> QED BY <1>6, <2>5 DEF ReadingAt
<1> QED BY <1>3, <1>4, <1>5, <1>6

LEMMA EnterKeeps ==
    ASSUME ClockInv, Clock!EnterHandler("main"),
           UNCHANGED <<c_pc, again, system_ticks, ticks_last, sys_ticks, last, ticks, real, took>>
    PROVE  ClockInv'
<1>1. /\ hw["main"].en /\ hw["main"].flag /\ isr["main"] = "idle" /\ lag' = 0
      /\ UNCHANGED <<setting, next>>
  BY DEF Clock!EnterHandler, Clock!Pending, Clock!Ran, Clock!Dev
<1>2. c_pc \notin Clock!Boot
  BY <1>1 DEF ClockInv, BootAt
<1>3. PICK s \in 0..(Period + 3 * Delay), l \in 0..Top, g \in 0..Delay :
          LoopAt(s, l, g) /\ ReadingAt(s, l, g)
  BY <1>2, LoopHas
<1>4. ClockShape /\ Clock!TypeOK
  BY <1>2, LoopHas DEF ClockShape
<1>5. /\ setting \in Settings /\ real \in 0..(Turns - 1) /\ lag \in 0..Delay
      /\ hw["main"] \in ClockHw /\ alarm["main"] \in ClockAlarm
      /\ system_ticks \in 0..(Turns - 1) /\ ticks_last \in 0..Top
  BY <1>4, ClockTypes
<1>6. /\ Delay \in Nat /\ Period \in Nat \ {0} /\ 16 * Delay < Period /\ Period + 4 * Delay <= Top
      /\ Top \in Nat /\ Turns \in Nat \ {0} /\ Turn = Top + 1
  BY <1>5, ClockNumbers
<1>7. s \in Int /\ l \in Int /\ g \in Int /\ real \in Int
  BY <1>5, <1>6
<1>8. s - g \in Period..(Period + lag)
  BY <1>1, <1>3 DEF LoopAt
<1> DEFINE x == real - s + g + Period
           y == real - s + g + 2 * Period
           v == Clock!NextCompare("main")
<1>9. /\ alarm["main"] = [cb |-> "wakeup", loop |-> TRUE, last |-> Clock!Wrap(x), ticks |-> Period]
      /\ hw["main"].cnt = Clock!Wrap(real) /\ hw["main"].on /\ hw["main"].cmp = Clock!Wrap(x)
  BY <1>1, <1>3 DEF LoopAt
<1>10. v = Clock!Wrap(y)
  <2>1. x \in Int /\ Period \in Int /\ x + Period = y
    BY <1>6, <1>7
  <2> HIDE DEF x, y
  <2>2. v = Clock!Wrap(Clock!Wrap(x) + Period)
    BY <1>9 DEF Clock!NextCompare
  <2> QED BY <2>1, <2>2, ClockSums
<1>11. v # hw["main"].cnt /\ v \in 0..Top
  <2>1. /\ s - g \in Int /\ 2 * Period \in Int /\ y \in Int /\ 2 * Period - (s - g) \in 1..Top
        /\ y = real - (s - g) + 2 * Period
    BY <1>5, <1>6, <1>7, <1>8
  <2> HIDE DEF y
  <2>2. Clock!Wrap(y) # Clock!Wrap(real)
    BY <1>5, <2>1, NotYet
  <2>3. Clock!Wrap(y) \in 0..Top
    BY <1>6, <2>1, ClockIn
  <2> QED BY <1>9, <1>10, <2>2, <2>3
<1> HIDE DEF v
<1>12. /\ hw' \in [Clock!Dev -> ClockHw] /\ hw'["load"] = hw["load"]
       /\ hw'["main"] = [hw["main"] EXCEPT !.cmp = v, !.flag = FALSE]
       /\ alarm' \in [Clock!Dev -> ClockAlarm]
       /\ alarm'["main"] = [alarm["main"] EXCEPT !.last = v]
       /\ isr' \in [Clock!Dev -> {"idle", "callback", "spin", "reset"}]
       /\ isr'["main"] = "callback" /\ isr'["load"] = isr["load"]
       /\ now' \in [Clock!Dev -> 0..Top]
  <2>1. alarm["main"].loop /\ alarm["main"].cb = "wakeup"
    BY <1>9
  <2> QED BY <1>4, <1>11, <2>1, EnterIs DEF v
<1>13. ClockShape'
  BY <1>1, <1>4, <1>5, <1>12, IrqShape
<1>14. Delay' = Delay
  BY <1>1 DEF Delay
<1>15. LoopAt(s, l, g)'
  <2>1. /\ hw'["main"].cnt = hw["main"].cnt /\ hw'["main"].on = hw["main"].on
        /\ hw'["main"].en = hw["main"].en /\ hw'["main"].cmp = v /\ hw'["main"].flag = FALSE
    BY <1>5, <1>12 DEF ClockHw
  <2>2. alarm'["main"] = [cb |-> "wakeup", loop |-> TRUE, last |-> v, ticks |-> Period]
    <3> DEFINE a == alarm["main"]
               w == Clock!Wrap(x)
               t == TRUE
    <3>1. a = [cb |-> "wakeup", loop |-> t, last |-> w, ticks |-> Period]
      BY <1>9
    <3> HIDE DEF a, w, t
    <3>2. [a EXCEPT !.last = v] = [cb |-> "wakeup", loop |-> t, last |-> v, ticks |-> Period]
      BY <3>1
    <3> QED BY <1>12, <3>2 DEF a, t
  <2>3. s - g \in Period..(Period + Delay + 0)
    BY <1>5, <1>6, <1>7, <1>8
  <2>4. real' - s + g + (IF isr'["main"] = "callback" THEN 2 * Period ELSE Period) = y
    BY <1>12
  <2>5. hw'["main"].cmp = Clock!Wrap(real' - s + g + (IF isr'["main"] = "callback" THEN 2 * Period ELSE Period))
    BY <1>10, <2>1, <2>4
  <2>6. isr'["main"] = "callback" /\ lag' = 0
    BY <1>1, <1>12
  <2>7. /\ hw'["main"].cnt = Clock!Wrap(real') /\ system_ticks' = Clock!Sum(real' - s)
        /\ ticks_last' = Clock!Wrap(real' - l) /\ s - l \in (-Delay')..(3 * Delay')
    BY <1>3, <1>14, <2>1 DEF LoopAt
  <2> QED BY <1>1, <1>9, <1>14, <2>1, <2>2, <2>3, <2>5, <2>6, <2>7 DEF LoopAt, Clock!Wrap, Clock!Sum
<1>16. ReadingAt(s, l, g)'
  <2>1. c_pc \notin {"idle", "sum"} => ~Fresh(s, g)
    BY <1>2, <1>4, <1>6, <1>7, <1>8, NotFresh
  <2> QED BY <1>1, <1>2, <1>3, <1>4, <1>7, <2>1, ReadingKept
<1>17. c_pc' \notin Clock!Boot
  BY <1>2
<1> QED BY <1>13, <1>14, <1>15, <1>16, <1>17, ReadsDone

(* Shortly after an alarm what was read before is fresh.                   *)
LEMMA SoonFresh ==
    ASSUME setting \in Settings, NEW s \in Int, NEW g \in Int, s - g <= 3 * Delay, lag' = 0,
           Delay' = Delay, sys_ticks'.read \in SUBSET {"lo", "hi"}, again' \in BOOLEAN
    PROVE  Fresh(s, g)'
<1>0. Steps' \in 0..13
  <2> DEFINE r == Reads'
  <2>1. r \in 0..2
    BY DEF Reads
  <2>2. Steps' = (IF again' THEN 7 ELSE 0)
                   + IF c_pc' = "words" THEN r
                     ELSE IF c_pc' = "last" THEN 2 ELSE IF c_pc' = "count" THEN 3 ELSE 6 - r
    BY DEF Steps
  <2> HIDE DEF r
  <2> QED BY <2>1, <2>2
<1> DEFINE p == Steps'
           d == Delay
<1>1. p \in 0..13
  BY <1>0
<1>2. d \in Nat
  BY ClockNumbers
<1>3. s - g <= 3 * d
  OBVIOUS
<1> SUFFICES s - g <= (3 + p) * d + 0
  BY DEF Fresh
<1> HIDE DEF p, d
<1>4. (3 + p) * d = 3 * d + p * d /\ p * d \in Nat
  BY <1>1, <1>2
<1> QED BY <1>2, <1>3, <1>4

LEMMA ExitKeeps ==
    ASSUME ClockInv, Clock!ExitHandler("main"),
           UNCHANGED <<c_pc, again, system_ticks, ticks_last, sys_ticks, last, ticks, real, took>>
    PROVE  ClockInv'
<1>1. /\ isr["main"] = "reset" /\ lag' = 0 /\ Clock!ResetAlarm("main")
      /\ isr' = [isr EXCEPT !["main"] = "idle"] /\ now' = [now EXCEPT !["main"] = 0]
      /\ UNCHANGED <<setting, hw, next>>
  BY DEF Clock!ExitHandler, Clock!Ran
<1>2. c_pc \notin Clock!Boot
  BY <1>1 DEF ClockInv, BootAt
<1>3. PICK s \in 0..(Period + 3 * Delay), l \in 0..Top, g \in 0..Delay :
          LoopAt(s, l, g) /\ ReadingAt(s, l, g)
  BY <1>2, LoopHas
<1>4. ClockShape /\ Clock!TypeOK
  BY <1>2, LoopHas DEF ClockShape
<1>5. /\ setting \in Settings /\ lag \in 0..Delay /\ sys_ticks \in ClockWords
      /\ system_ticks \in 0..(Turns - 1) /\ ticks_last \in 0..Top
      /\ hw \in [Clock!Dev -> ClockHw] /\ alarm \in [Clock!Dev -> ClockAlarm]
      /\ isr \in [Clock!Dev -> {"idle", "callback", "spin", "reset"}] /\ now \in [Clock!Dev -> 0..Top]
  BY <1>4, ClockTypes
<1>6. Delay \in Nat /\ Period \in Nat \ {0} /\ 16 * Delay < Period /\ Top \in Nat
  BY <1>5, ClockNumbers
<1>7. s \in Int /\ l \in Int /\ g \in Int
  BY <1>6
<1>8. s - g \in 0..(2 * Delay + lag) /\ ~hw["main"].flag /\ alarm["main"].loop
  <2>1. s - g \in 0..(2 * Delay + lag) /\ ~hw["main"].flag
    BY <1>1, <1>3 DEF LoopAt
  <2>2. alarm["main"] = [cb |-> "wakeup", loop |-> TRUE, last |-> hw["main"].cmp, ticks |-> Period]
    BY <1>3 DEF LoopAt
  <2> QED BY <2>1, <2>2
<1>9. /\ alarm' = alarm /\ isr'["main"] = "idle" /\ isr'["load"] = isr["load"]
      /\ isr' \in [Clock!Dev -> {"idle", "callback", "spin", "reset"}]
      /\ now' \in [Clock!Dev -> 0..Top]
  BY <1>1, <1>5, <1>6, <1>8 DEF Clock!ResetAlarm, Clock!Dev
<1>10. ClockShape'
  <2>1. isr'["main"] # "spin" /\ hw'["load"] = hw["load"]
    BY <1>1, <1>9
  <2> QED BY <1>1, <1>4, <1>5, <1>9, <2>1, IrqShape
<1>11. Delay' = Delay
  BY <1>1 DEF Delay
<1>12. LoopAt(s, l, g)'
  <2>1. s - g \in 0..(Period - 1)
    BY <1>5, <1>6, <1>7, <1>8
  <2>2. /\ hw["main"].on /\ hw["main"].en /\ hw["main"].cnt = Clock!Wrap(real)
        /\ system_ticks = Clock!Sum(real - s) /\ ticks_last = Clock!Wrap(real - l)
        /\ hw["main"].cmp = Clock!Wrap(real - s + g + Period)
        /\ alarm["main"] = [cb |-> "wakeup", loop |-> TRUE, last |-> hw["main"].cmp, ticks |-> Period]
        /\ s - l \in (-Delay)..(3 * Delay)
    BY <1>1, <1>3 DEF LoopAt
  <2> QED BY <1>1, <1>8, <1>9, <1>11, <2>1, <2>2 DEF LoopAt, Clock!Wrap, Clock!Sum
<1>13. ReadingAt(s, l, g)'
  <2>1. Fresh(s, g)'
    <3>1. s - g <= 3 * Delay
      BY <1>5, <1>6, <1>7, <1>8
    <3>2. sys_ticks'.read \in SUBSET {"lo", "hi"} /\ again' \in BOOLEAN
      BY <1>4, <1>5 DEF ClockWords, ClockShape
    <3> QED BY <1>1, <1>5, <1>7, <1>11, <3>1, <3>2, SoonFresh
  <2> QED BY <1>1, <1>2, <1>3, <1>4, <1>7, <2>1, ReadingKept
<1>14. c_pc' \notin Clock!Boot
  BY <1>2
<1> QED BY <1>10, <1>11, <1>12, <1>13, <1>14, ReadsDone

LEMMA CallbackKeeps ==
    ASSUME ClockInv, Clock!rt_task_wakeup_alarm_handler
    PROVE  ClockInv'
<1>1. /\ isr["main"] = "callback" /\ ticks_last' = hw["main"].cnt
      /\ system_ticks' = Clock!Sum(system_ticks + Period)
      /\ isr' = [isr EXCEPT !["main"] = "reset"] /\ lag' = 0
      /\ UNCHANGED <<setting, hw, alarm, next, now, c_pc, again, sys_ticks, last, ticks, took, real>>
  BY DEF Clock!rt_task_wakeup_alarm_handler, Clock!InCallback, Clock!Return, Clock!Ran, Clock!locals
<1>2. c_pc \notin Clock!Boot
  BY <1>1 DEF ClockInv, BootAt
<1>3. PICK s \in 0..(Period + 3 * Delay), l \in 0..Top, g \in 0..Delay :
          LoopAt(s, l, g) /\ ReadingAt(s, l, g)
  BY <1>2, LoopHas
<1>4. ClockShape /\ Clock!TypeOK
  BY <1>2, LoopHas DEF ClockShape
<1>5. /\ setting \in Settings /\ lag \in 0..Delay /\ sys_ticks \in ClockWords /\ real \in 0..(Turns - 1)
      /\ system_ticks \in 0..(Turns - 1) /\ hw["main"] \in ClockHw
      /\ hw \in [Clock!Dev -> ClockHw] /\ alarm \in [Clock!Dev -> ClockAlarm]
      /\ isr \in [Clock!Dev -> {"idle", "callback", "spin", "reset"}] /\ now \in [Clock!Dev -> 0..Top]
  BY <1>4, ClockTypes
<1>6. /\ Delay \in Nat /\ Period \in Nat \ {0} /\ 16 * Delay < Period /\ Period + 4 * Delay <= Top
      /\ Top \in Nat /\ Turns \in Nat \ {0} /\ Turn = Top + 1
  BY <1>5, ClockNumbers
<1>7. s \in Int /\ l \in Int /\ g \in Int /\ real \in Int /\ system_ticks \in Int
  BY <1>5, <1>6
<1>8. /\ s - g \in Period..(Period + Delay + lag) /\ ~hw["main"].flag
      /\ hw["main"].on /\ hw["main"].en /\ hw["main"].cnt = Clock!Wrap(real)
      /\ system_ticks = Clock!Sum(real - s) /\ ticks_last = Clock!Wrap(real - l)
      /\ hw["main"].cmp = Clock!Wrap(real - s + g + 2 * Period)
      /\ alarm["main"] = [cb |-> "wakeup", loop |-> TRUE, last |-> hw["main"].cmp, ticks |-> Period]
      /\ s - l \in (-Delay)..(3 * Delay)
  BY <1>1, <1>3 DEF LoopAt
<1> DEFINE n1 == s - Period
<1>9. n1 \in 0..(3 * Delay) /\ n1 - g \in 0..(Delay + lag) /\ n1 \in 0..(Period + 3 * Delay) /\ n1 \in Int
  BY <1>5, <1>6, <1>7, <1>8
<1>10. isr'["main"] = "reset" /\ isr'["load"] = isr["load"]
       /\ isr' \in [Clock!Dev -> {"idle", "callback", "spin", "reset"}]
  BY <1>1, <1>5 DEF Clock!Dev
<1>11. Delay' = Delay
  BY <1>1 DEF Delay
<1>12. system_ticks' = Clock!Sum(real - n1)
  <2>1. Clock!Sum(Clock!Sum(real - s) + Period) = Clock!Sum((real - s) + Period)
    BY <1>6, <1>7, ClockSums
  <2>2. (real - s) + Period = real - n1
    BY <1>6, <1>7
  <2> QED BY <1>1, <1>8, <2>1, <2>2
<1>13. ClockShape'
  <2>1. system_ticks' \in 0..(Turns - 1)
    <3>1. real - n1 \in Int
      BY <1>7, <1>9
    <3> HIDE DEF n1
    <3> QED BY <1>12, <3>1, ClockIn
  <2>2. ticks_last' \in 0..Top
    BY <1>1, <1>5 DEF ClockHw
  <2> QED BY <1>1, <1>4, <1>5, <1>10, <2>1, <2>2, IrqShape
<1>14. LoopAt(n1, 0, g)'
  <2>1. real - s + g + 2 * Period = real - n1 + g + Period /\ real - 0 = real
    BY <1>6, <1>7
  <2>2. n1 - 0 \in (-Delay)..(3 * Delay) /\ n1 - g \in 0..(2 * Delay + 0)
    BY <1>5, <1>6, <1>7, <1>9
  <2> HIDE DEF n1
  <2>3. /\ ticks_last' = Clock!Wrap(real - 0) /\ hw["main"].cmp = Clock!Wrap(real - n1 + g + Period)
    BY <1>1, <1>8, <2>1
  <2>4. lag' = 0 /\ isr'["main"] = "reset"
    BY <1>1, <1>10
  <2> QED BY <1>1, <1>8, <1>11, <1>12, <2>2, <2>3, <2>4 DEF LoopAt, Clock!Wrap, Clock!Sum
<1>15. ReadingAt(n1, 0, g)'
  <2>1. CASE c_pc = "idle"
    BY <1>1, <2>1 DEF ReadingAt
  <2>2. CASE c_pc = "sum"
    <3>1. SumAt
      BY <1>3, <2>2 DEF ReadingAt
    <3>2. SumAt'
      BY <1>1, <3>1 DEF SumAt, Clock!Sum, Clock!Wrap, Delay
    <3> QED BY <1>1, <2>2, <3>2 DEF ReadingAt
  <2>3. CASE c_pc \notin {"idle", "sum"}
    <3>1. ~Fresh(s, g)
      BY <1>2, <1>4, <1>6, <1>7, <1>8, <2>3, NotFresh
    <3>2. ~again /\ FirstAt(s, l, g)
      BY <1>3, <2>3, <3>1 DEF ReadingAt, SecondAt
    <3>3. Fresh(n1, g)'
      <4>1. n1 - g <= 3 * Delay
        BY <1>5, <1>6, <1>7, <1>9
      <4>2. sys_ticks'.read \in SUBSET {"lo", "hi"} /\ again' \in BOOLEAN
        BY <1>1, <1>4, <1>5 DEF ClockWords, ClockShape
      <4> QED BY <1>1, <1>5, <1>7, <1>9, <1>11, <4>1, <4>2, SoonFresh
    <3>4. c_pc = "check" => ~LastIsNow'
      <4> SUFFICES ASSUME c_pc = "check", LastIsNow' PROVE FALSE
        OBVIOUS
      <4>1. last = Clock!Wrap(real - l)
        BY <1>8, <3>1, <3>2 DEF FirstAt, LastIsNow
      <4>2. last = Clock!Wrap(real)
        BY <1>1, <1>8 DEF LastIsNow
      <4>3. l \in 1..Top
        BY <1>5, <1>6, <1>7, <1>8
      <4>4. real - l \in Int /\ (real - l) - real < Turn /\ real - (real - l) < Turn /\ real - l # real
        BY <1>6, <1>7, <4>3
      <4> QED BY <1>7, <4>1, <4>2, <4>4, ClockApart
    <3>5. FirstAt(n1, 0, g)'
      BY <1>1, <3>3, <3>4 DEF FirstAt
    <3> QED BY <1>1, <2>3, <3>2, <3>5 DEF ReadingAt
  <2> QED BY <2>1, <2>2, <2>3
<1>16. c_pc' \notin Clock!Boot /\ 0 \in 0..Top
  BY <1>1, <1>2, <1>6
<1> QED BY <1>9, <1>11, <1>13, <1>14, <1>15, <1>16, ReadsDone

-----------------------------------------------------------------------------
(* A tick.                                                                 *)

LEMMA TickIs ==
    ASSUME ClockShape, Clock!ClockTick
    PROVE  /\ ClockShape' /\ hw'["main"] = Clock!Counted(hw["main"])
           /\ UNCHANGED <<setting, alarm, next, isr, now, c_pc, again, system_ticks, ticks_last,
                          sys_ticks, last, ticks, took>>
           /\ real' = IF hw["main"].on THEN Clock!Sum(real + 1) ELSE real
           /\ c_pc # "idle" \/ (hw["main"].flag /\ hw["main"].en) \/ isr["main"] # "idle"
                => lag' = lag + 1 /\ lag < Delay
           /\ lag' \in 0..Delay
<1>1. /\ hw' = [d \in Clock!Dev |-> Clock!Counted(hw[d])]
      /\ UNCHANGED <<setting, alarm, next, isr, now, c_pc, again, system_ticks, ticks_last,
                     sys_ticks, last, ticks, took>>
      /\ real' = IF hw["main"].on THEN Clock!Sum(real + 1) ELSE real
  BY DEF Clock!ClockTick, Clock!Tick, Clock!locals
<1> DEFINE busy == ~Clock!InTask \/ c_pc # "idle"
<1>2. (busy => lag < Delay) /\ lag' = IF busy THEN lag + 1 ELSE 0
  BY DEF Clock!ClockTick, Clock!Tick, Delay
<1>3. c_pc # "idle" \/ (hw["main"].flag /\ hw["main"].en) \/ isr["main"] # "idle" => busy
  BY DEF Clock!InTask, Clock!Pending, Clock!Dev
<1> HIDE DEF busy
<1>4. /\ setting \in Settings /\ lag \in 0..Delay /\ real \in 0..(Turns - 1)
      /\ hw["main"] \in ClockHw /\ hw["load"] \in ClockHw /\ ~hw["load"].on /\ Clock!TypeOK
  BY ClockTypes DEF ClockShape
<1>5. Delay \in Nat /\ Turns \in Nat \ {0} /\ Top \in Nat /\ Turn = Top + 1
  BY <1>4, ClockNumbers
<1>6. lag' \in 0..Delay /\ (busy => lag' = lag + 1 /\ lag < Delay)
  BY <1>2, <1>4, <1>5
<1>7. hw'["main"] = Clock!Counted(hw["main"]) /\ hw'["load"] = hw["load"]
  BY <1>1, <1>4 DEF Clock!Dev, Clock!Counted
<1>8. Clock!Counted(hw["main"]) \in ClockHw
  <2>1. hw["main"].cnt \in Int /\ hw["main"].cnt + 1 \in Int
    BY <1>4 DEF ClockHw
  <2>2. Clock!Wrap(hw["main"].cnt + 1) \in 0..Top
    BY <1>5, <2>1, ClockIn
  <2> DEFINE h == hw["main"]
             w == Clock!Wrap(h.cnt + 1)
  <2>3. Clock!Counted(h) = IF ~h.on THEN h ELSE [h EXCEPT !.cnt = w, !.flag = @ \/ w = h.cmp]
    BY DEF Clock!Counted, Clock!Wrap
  <2>4. h \in ClockHw /\ w \in 0..Top
    BY <1>4, <2>2
  <2> HIDE DEF h, w
  <2>5. [h EXCEPT !.cnt = w, !.flag = @ \/ w = h.cmp] \in ClockHw
    BY <2>4 DEF ClockHw
  <2>6. Clock!Counted(h) \in ClockHw
    BY <2>3, <2>4, <2>5
  <2> QED BY <2>6 DEF h
<1>9. hw' \in [Clock!Dev -> ClockHw]
  BY <1>1, <1>4, <1>7, <1>8 DEF Clock!Dev
<1>10. real' \in 0..(Turns - 1)
  <2>1. Clock!Sum(real + 1) \in 0..(Turns - 1)
    BY <1>4, <1>5, ClockIn
  <2> QED BY <1>1, <1>4, <2>1
<1>11. Clock!TypeOK'
  <2>1. Delay' = Delay
    BY <1>1 DEF Delay
  <2>2. Clock!CounterTypeOK'
    <3>1. /\ setting' \in Settings /\ lag' \in 0..Delay' /\ alarm' \in [Clock!Dev -> ClockAlarm]
          /\ next' \in 0..Top /\ now' \in [Clock!Dev -> 0..Top]
          /\ isr' \in [Clock!Dev -> {"idle", "callback", "spin", "reset"}]
      BY <1>1, <1>4, <1>6, <2>1, ClockTypes
    <3> QED BY <1>9, <3>1 DEF Clock!CounterTypeOK, ClockHw, ClockAlarm, Delay
  <2>3. ({system_ticks, real, took} \subseteq 0..(Words * (Top + 1) - 1))'
    BY <1>1, <1>4, <1>10, ClockTypes DEF Turns, Turn
  <2> QED BY <1>1, <1>4, <2>2, <2>3 DEF Clock!TypeOK
<1>12. ClockShape'
  BY <1>1, <1>7, <1>11 DEF ClockShape
<1> QED BY <1>1, <1>3, <1>6, <1>7, <1>12

LEMMA CountedIs ==
    ASSUME NEW h \in ClockHw, h.on
    PROVE  /\ Clock!Counted(h).cnt = Clock!Wrap(h.cnt + 1) /\ Clock!Counted(h).cmp = h.cmp
           /\ Clock!Counted(h).on = h.on /\ Clock!Counted(h).en = h.en
           /\ Clock!Counted(h).flag = (h.flag \/ Clock!Wrap(h.cnt + 1) = h.cmp)
<1> DEFINE w == Clock!Wrap(h.cnt + 1)
<1>1. Clock!Counted(h) = [h EXCEPT !.cnt = w, !.flag = @ \/ w = h.cmp]
  BY DEF Clock!Counted, Clock!Wrap
<1> HIDE DEF w
<1>2. /\ Clock!Counted(h).cnt = w /\ Clock!Counted(h).cmp = h.cmp
      /\ Clock!Counted(h).on = h.on /\ Clock!Counted(h).en = h.en
      /\ Clock!Counted(h).flag = (h.flag \/ w = h.cmp)
  BY <1>1 DEF ClockHw
<1> QED BY <1>2 DEF w

(* What is y behind is y + 1 behind a tick later.                          *)
LEMMA TickSums ==
    ASSUME real \in Int, real' = Clock!Sum(real + 1), NEW y \in Int
    PROVE  /\ Clock!Wrap(real' - (y + 1)) = Clock!Wrap(real - y)
           /\ Clock!Sum(real' - (y + 1)) = Clock!Sum(real - y)
<1> DEFINE a == real + 1
           b == -(y + 1)
           t == Clock!Sum(a)
<1>1. a \in Int /\ b \in Int /\ a + b = real - y
  OBVIOUS
<1> HIDE DEF a, b
<1>2. Clock!Wrap(t + b) = Clock!Wrap(a + b) /\ Clock!Sum(t + b) = Clock!Sum(a + b) /\ t \in Int
  <2>1. t \in 0..(Turns - 1)
    BY <1>1, ClockIn
  <2>2. Clock!Wrap(t + b) = Clock!Wrap(a + b) /\ Clock!Sum(t + b) = Clock!Sum(a + b)
    BY <1>1, ClockSums
  <2> HIDE DEF t
  <2>3. t \in Int
    BY <2>1, ClockModulus
  <2> QED BY <2>2, <2>3
<1>3. real' = t
  BY DEF a
<1> HIDE DEF t
<1>4. real' - (y + 1) = t + b
  BY <1>2, <1>3 DEF b
<1> QED BY <1>1, <1>2, <1>4

LEMMA TickFresh ==
    ASSUME NEW s \in Int, NEW g \in Int, Fresh(s, g), setting \in Settings, lag \in 0..Delay,
           lag' = lag + 1, UNCHANGED <<setting, c_pc, again, sys_ticks>>,
           sys_ticks.read \in SUBSET {"lo", "hi"}, again \in BOOLEAN
    PROVE  Fresh(s + 1, g)'
<1>1. Steps \in 0..13 /\ Delay \in Nat
  BY StepsAre, ClockNumbers
<1>2. Steps' = Steps /\ Delay' = Delay
  BY DEF Steps, Reads, Delay
<1> DEFINE p == (3 + Steps) * Delay
<1>3. p \in Int
  BY <1>1
<1>4. (3 + Steps') * Delay' = p
  BY <1>2
<1> HIDE DEF p
<1>5. s - g <= p + lag
  BY DEF Fresh, p
<1>6. s + 1 - g <= p + lag'
  BY <1>1, <1>3, <1>5
<1> QED BY <1>4, <1>6 DEF Fresh

LEMMA LoopTickKeeps ==
    ASSUME ClockInv, c_pc \notin Clock!Boot, Clock!ClockTick
    PROVE  ClockInv'
<1>1. PICK s \in 0..(Period + 3 * Delay), l \in 0..Top, g \in 0..Delay :
          LoopAt(s, l, g) /\ ReadingAt(s, l, g)
  BY LoopHas
<1>2. ClockShape /\ Clock!TypeOK
  BY LoopHas DEF ClockShape
<1>3. /\ setting \in Settings /\ lag \in 0..Delay /\ sys_ticks \in ClockWords /\ real \in 0..(Turns - 1)
      /\ hw["main"] \in ClockHw /\ isr \in [Clock!Dev -> {"idle", "callback", "spin", "reset"}]
      /\ again \in BOOLEAN
  BY <1>2, ClockTypes DEF ClockShape
<1>4. /\ Delay \in Nat /\ Period \in Nat \ {0} /\ 16 * Delay < Period /\ Period + 4 * Delay <= Top
      /\ Top \in Nat /\ Turns \in Nat \ {0} /\ Turn = Top + 1
  BY <1>3, ClockNumbers
<1>5. s \in Int /\ l \in Int /\ g \in Int /\ real \in Int /\ lag \in Int
  BY <1>3, <1>4
<1>6. /\ hw["main"].on /\ hw["main"].en /\ hw["main"].cnt = Clock!Wrap(real)
      /\ system_ticks = Clock!Sum(real - s) /\ ticks_last = Clock!Wrap(real - l)
      /\ alarm["main"] = [cb |-> "wakeup", loop |-> TRUE, last |-> hw["main"].cmp, ticks |-> Period]
      /\ s - l \in (-Delay)..(3 * Delay)
      /\ isr["main"] # "idle" => ~hw["main"].flag
  BY <1>1 DEF LoopAt
<1>7. /\ ClockShape' /\ hw'["main"] = Clock!Counted(hw["main"]) /\ real' = Clock!Sum(real + 1)
      /\ UNCHANGED <<setting, alarm, next, isr, now, c_pc, again, system_ticks, ticks_last,
                     sys_ticks, last, ticks, took>>
      /\ c_pc # "idle" \/ hw["main"].flag \/ isr["main"] # "idle" => lag' = lag + 1 /\ lag < Delay
      /\ lag' \in 0..Delay
  BY <1>2, <1>6, TickIs
<1>8. /\ hw'["main"].cnt = Clock!Wrap(Clock!Wrap(real) + 1) /\ hw'["main"].cmp = hw["main"].cmp
      /\ hw'["main"].on /\ hw'["main"].en
      /\ hw'["main"].flag = (hw["main"].flag \/ Clock!Wrap(Clock!Wrap(real) + 1) = hw["main"].cmp)
  BY <1>3, <1>6, <1>7, CountedIs
<1>9. Clock!Wrap(Clock!Wrap(real) + 1) = Clock!Wrap(real + 1)
  BY <1>5, ClockSums
<1>10. Delay' = Delay
  BY <1>7 DEF Delay
<1> DEFINE n1 == s + 1
           m1 == l + 1
           p  == IF isr["main"] = "callback" THEN 2 * Period ELSE Period
           x  == real - s + g + p
<1>11. p \in Int /\ x \in Int /\ real + 1 \in Int /\ x - (real + 1) = p - (s - g) - 1 /\ s - g \in Int
  BY <1>4, <1>5
<1>12. hw["main"].cmp = Clock!Wrap(x)
  BY <1>1 DEF LoopAt
<1>13. s - g \in
         IF isr["main"] = "idle"
         THEN IF hw["main"].flag THEN Period..(Period + lag) ELSE 0..(Period - 1)
         ELSE IF isr["main"] = "callback" THEN Period..(Period + Delay + lag)
              ELSE 0..(2 * Delay + lag)
  BY <1>1 DEF LoopAt
<1>14. p - (s - g) - 1 \in 1..Top => Clock!Wrap(real + 1) # hw["main"].cmp
  <2> HIDE DEF p, x
  <2> SUFFICES ASSUME p - (s - g) - 1 \in 1..Top, Clock!Wrap(real + 1) = Clock!Wrap(x) PROVE FALSE
    BY <1>12
  <2>1. x - (real + 1) < Turn /\ (real + 1) - x < Turn /\ x # real + 1
    BY <1>4, <1>5, <1>11
  <2> QED BY <1>11, <2>1, ClockApart
<1>15. p - (s - g) - 1 = 0 => Clock!Wrap(real + 1) = hw["main"].cmp
  <2>1. p - (s - g) - 1 = 0 => x = real + 1
    BY <1>5, <1>11
  <2> QED BY <1>12, <2>1
<1>16. /\ n1 \in 0..(Period + 3 * Delay) /\ m1 \in 0..Top /\ n1 - m1 \in (-Delay)..(3 * Delay)
       /\ n1 - g \in
            IF isr["main"] = "idle"
            THEN IF hw'["main"].flag THEN Period..(Period + lag') ELSE 0..(Period - 1)
            ELSE IF isr["main"] = "callback" THEN Period..(Period + Delay + lag')
                 ELSE 0..(2 * Delay + lag')
       /\ isr["main"] # "idle" => ~hw'["main"].flag
  <2>1. CASE isr["main"] = "idle" /\ hw["main"].flag
    <3>1. s - g \in Period..(Period + lag) /\ lag' = lag + 1 /\ lag < Delay /\ hw'["main"].flag
      BY <1>7, <1>8, <1>13, <2>1
    <3>2. n1 - g \in Period..(Period + lag')
      BY <1>4, <1>5, <3>1
    <3>3. n1 \in 0..(Period + 3 * Delay) /\ m1 \in 0..Top /\ n1 - m1 \in (-Delay)..(3 * Delay)
      BY <1>4, <1>5, <1>6, <3>1
    <3> QED BY <2>1, <3>1, <3>2, <3>3
  <2>2. CASE isr["main"] = "idle" /\ ~hw["main"].flag /\ s - g = Period - 1
    <3>1. hw'["main"].flag
      <4>1. p - (s - g) - 1 = 0
        BY <1>4, <2>2
      <4> QED BY <1>8, <1>9, <1>15, <4>1
    <3>2. n1 - g \in Period..(Period + lag')
      <4>1. n1 - g = Period /\ lag' \in 0..Delay
        BY <1>4, <1>5, <1>7, <2>2
      <4> HIDE DEF n1
      <4> QED BY <1>4, <4>1
    <3>3. n1 \in 0..(Period + 3 * Delay) /\ m1 \in 0..Top /\ n1 - m1 \in (-Delay)..(3 * Delay)
      BY <1>4, <1>5, <1>6, <2>2
    <3> QED BY <2>2, <3>1, <3>2, <3>3
  <2>3. CASE isr["main"] = "idle" /\ ~hw["main"].flag /\ s - g # Period - 1
    <3>1. s - g \in 0..(Period - 2)
      BY <1>4, <1>5, <1>13, <2>3
    <3>2. p - (s - g) - 1 \in 1..Top
      BY <1>4, <1>5, <2>3, <3>1
    <3>3. ~hw'["main"].flag
      BY <1>8, <1>9, <1>14, <2>3, <3>2
    <3>4. n1 - g \in 0..(Period - 1)
      BY <1>4, <1>5, <3>1
    <3>5. n1 \in 0..(Period + 3 * Delay) /\ m1 \in 0..Top /\ n1 - m1 \in (-Delay)..(3 * Delay)
      BY <1>4, <1>5, <1>6, <3>1
    <3> QED BY <2>3, <3>3, <3>4, <3>5
  <2>4. CASE isr["main"] = "callback"
    <3>1. s - g \in Period..(Period + Delay + lag) /\ lag' = lag + 1 /\ lag < Delay
      BY <1>7, <1>13, <2>4
    <3>2. p - (s - g) - 1 \in 1..Top
      BY <1>3, <1>4, <1>5, <2>4, <3>1
    <3>3. ~hw'["main"].flag
      BY <1>6, <1>8, <1>9, <1>14, <2>4, <3>2
    <3>4. n1 - g \in Period..(Period + Delay + lag')
      BY <1>4, <1>5, <3>1
    <3>5. n1 \in 0..(Period + 3 * Delay) /\ m1 \in 0..Top /\ n1 - m1 \in (-Delay)..(3 * Delay)
      BY <1>4, <1>5, <1>6, <3>1
    <3> QED BY <2>4, <3>3, <3>4, <3>5
  <2>5. CASE isr["main"] \notin {"idle", "callback"}
    <3>1. s - g \in 0..(2 * Delay + lag) /\ lag' = lag + 1 /\ lag < Delay
      BY <1>7, <1>13, <2>5
    <3>2. p - (s - g) - 1 \in 1..Top
      BY <1>3, <1>4, <1>5, <2>5, <3>1
    <3>3. ~hw'["main"].flag
      BY <1>6, <1>8, <1>9, <1>14, <2>5, <3>2
    <3>4. n1 - g \in 0..(2 * Delay + lag')
      BY <1>4, <1>5, <3>1
    <3>5. n1 \in 0..(Period + 3 * Delay) /\ m1 \in 0..Top /\ n1 - m1 \in (-Delay)..(3 * Delay)
      BY <1>4, <1>5, <1>6, <3>1
    <3> QED BY <2>5, <3>3, <3>4, <3>5
  <2> QED BY <1>13, <2>1, <2>2, <2>3, <2>4, <2>5
<1>17. \A y \in Int : /\ Clock!Wrap(real' - (y + 1)) = Clock!Wrap(real - y)
                      /\ Clock!Sum(real' - (y + 1)) = Clock!Sum(real - y)
  BY <1>5, <1>7, TickSums
<1>18. LoopAt(n1, m1, g)'
  <2>1. system_ticks' = Clock!Sum(real' - n1) /\ ticks_last' = Clock!Wrap(real' - m1)
    BY <1>5, <1>6, <1>7, <1>17
  <2>2. real' \in Int
    <3>1. real' \in 0..(Turns - 1)
      BY <1>4, <1>5, <1>7, ClockIn
    <3> QED BY <1>4, <3>1
  <2>3. hw'["main"].cmp = Clock!Wrap(real' - n1 + g + p)
    <3>1. real' - n1 + g + p = real' - ((s - g - p) + 1) /\ s - g - p \in Int /\ real - (s - g - p) = x
      BY <1>5, <1>11, <2>2
    <3> HIDE DEF p, x, n1
    <3> QED BY <1>8, <1>12, <1>17, <3>1
  <2>4. hw'["main"].cnt = Clock!Wrap(real')
    <3> DEFINE j == 0 - 1
    <3>1. real + 1 = real - j /\ j \in Int /\ j + 1 = 0
      BY <1>5
    <3> DEFINE z == real'
    <3>2. z - (j + 1) = z
      <4> HIDE DEF j
      <4>1. z \in Int
        BY <2>2
      <4> HIDE DEF z
      <4>2. z - 0 = z
        BY <4>1
      <4> QED BY <3>1, <4>2
    <3> HIDE DEF j
    <3> QED BY <1>8, <1>9, <1>17, <3>1, <3>2
  <2>5. alarm'["main"] = [cb |-> "wakeup", loop |-> TRUE, last |-> hw'["main"].cmp, ticks |-> Period]
    BY <1>6, <1>7, <1>8
  <2> HIDE DEF n1, m1
  <2> QED BY <1>7, <1>8, <1>10, <1>16, <2>1, <2>3, <2>4, <2>5 DEF LoopAt, Clock!Wrap, Clock!Sum
<1>19. ReadingAt(n1, m1, g)'
  <2>1. c_pc \notin {"idle", "sum"} /\ Fresh(s, g) => Fresh(n1, g)'
    <3>1. c_pc # "idle" => lag' = lag + 1
      BY <1>7
    <3>2. sys_ticks.read \in SUBSET {"lo", "hi"}
      BY <1>3 DEF ClockWords
    <3> QED BY <1>3, <1>5, <1>7, <3>1, <3>2, TickFresh
  <2>2. (LastIsNow' <=> LastIsNow) /\ \A w \in {"lo", "hi"} : IsNow(w)' <=> IsNow(w)
    BY <1>7 DEF LastIsNow, IsNow, Clock!Changed, Clock!Lo, Clock!Hi
  <2>3. sys_ticks.read \subseteq {"lo", "hi"}
    BY <1>3 DEF ClockWords
  <2> HIDE DEF n1
  <2>4. CASE c_pc = "idle"
    BY <1>7, <2>4 DEF ReadingAt
  <2>5. CASE c_pc = "sum"
    <3>1. SumAt
      BY <1>1, <2>5 DEF ReadingAt
    <3>2. SumAt'
      BY <1>7, <3>1 DEF SumAt, Clock!Sum, Clock!Wrap, Delay
    <3> QED BY <1>7, <2>5, <3>2 DEF ReadingAt
  <2>6. CASE c_pc \notin {"idle", "sum"} /\ again
    <3>1. SecondAt(s, g)
      BY <1>1, <2>6 DEF ReadingAt
    <3>2. SecondAt(n1, g)'
      BY <1>7, <2>1, <2>2, <2>3, <2>6, <3>1 DEF SecondAt
    <3> QED BY <1>7, <2>6, <3>2 DEF ReadingAt
  <2>7. CASE c_pc \notin {"idle", "sum"} /\ ~again
    <3>1. FirstAt(s, l, g)
      BY <1>1, <2>7 DEF ReadingAt
    <3>2. \A w \in sys_ticks'.read : IsNow(w)' \/ Fresh(n1, g)'
      BY <1>7, <2>1, <2>2, <2>3, <2>7, <3>1 DEF FirstAt
    <3>3. c_pc' \in {"count", "check"} => LastIsNow' \/ Fresh(n1, g)'
      BY <1>7, <2>1, <2>2, <2>7, <3>1 DEF FirstAt
    <3>4. c_pc' = "check" /\ LastIsNow' => \A w \in {"lo", "hi"} \ sys_ticks'.read : IsNow(w)'
      BY <1>7, <2>2, <3>1 DEF FirstAt
    <3>5. c_pc' = "check" /\ LastIsNow' =>
            \E k \in 0..m1 : ticks' = Clock!Wrap(real' - k) /\ took' = Clock!Sum(real' - k)
      <4> SUFFICES ASSUME c_pc' = "check", LastIsNow'
                   PROVE  \E k \in 0..m1 : ticks' = Clock!Wrap(real' - k) /\ took' = Clock!Sum(real' - k)
        OBVIOUS
      <4>1. PICK k \in 0..l : ticks = Clock!Wrap(real - k) /\ took = Clock!Sum(real - k)
        BY <1>7, <2>2, <3>1 DEF FirstAt
      <4>2. k \in Int /\ k + 1 \in 0..m1
        BY <1>5
      <4>3. ticks' = Clock!Wrap(real' - (k + 1)) /\ took' = Clock!Sum(real' - (k + 1))
        BY <1>7, <1>17, <4>1, <4>2
      <4> QED BY <4>2, <4>3
    <3> HIDE DEF m1
    <3>6. FirstAt(n1, m1, g)'
      BY <3>2, <3>3, <3>4, <3>5 DEF FirstAt, Clock!Wrap, Clock!Sum
    <3> QED BY <1>7, <2>7, <3>6 DEF ReadingAt
  <2> QED BY <2>4, <2>5, <2>6, <2>7
<1>20. c_pc' \notin Clock!Boot
  BY <1>7
<1> QED BY <1>7, <1>10, <1>16, <1>18, <1>19, <1>20, ReadsDone

-----------------------------------------------------------------------------
(* osal_timer_init().                                                      *)

(* So far the counter has not wrapped.                                     *)
LEMMA BootNumbers ==
    ASSUME ClockShape, BootAt, c_pc \in Clock!Boot
    PROVE  /\ real \in 0..(4 * Delay) /\ system_ticks \in 0..Delay /\ real < Top
           /\ c_pc = "claim" => real <= 2 * Delay
           /\ lag < Delay => real + 1 < Top
<1>1. /\ setting \in Settings /\ lag \in 0..Delay /\ real \in 0..(Turns - 1) /\ next \in 0..Top
      /\ system_ticks \in 0..(Turns - 1)
  BY ClockTypes DEF ClockShape
<1>2. /\ Delay \in Nat /\ Period \in Nat \ {0} /\ 16 * Delay < Period /\ Period + 4 * Delay <= Top
      /\ Top \in Nat /\ Turns \in Nat \ {0}
  BY <1>1, ClockNumbers
<1>3. lag \in Int /\ real \in Int /\ system_ticks \in Nat /\ next \in Int /\ real \in Nat
  BY <1>1, <1>2
<1>4. CASE c_pc = "start"
  <2>1. real = 0 /\ system_ticks = 0
    BY <1>4 DEF BootAt
  <2>2. c_pc # "claim" /\ 0 \in 0..(4 * Delay) /\ 0 \in 0..Delay /\ 0 < Top /\ (lag < Delay => 0 + 1 < Top)
    BY <1>1, <1>2, <1>3, <1>4
  <2> QED BY <2>1, <2>2
<1>5. CASE c_pc = "now"
  BY <1>1, <1>2, <1>3, <1>5 DEF BootAt
<1>6. CASE c_pc = "claim"
  BY <1>1, <1>2, <1>3, <1>6 DEF BootAt
<1>7. CASE c_pc = "enable"
  BY <1>1, <1>2, <1>3, <1>7 DEF BootAt
<1>8. CASE c_pc = "compare"
  BY <1>1, <1>2, <1>3, <1>8 DEF BootAt
<1> QED BY <1>4, <1>5, <1>6, <1>7, <1>8 DEF Clock!Boot

LEMMA BootTickKeeps ==
    ASSUME ClockInv, c_pc \in Clock!Boot, Clock!ClockTick
    PROVE  ClockInv'
<1>1. ClockShape /\ BootAt
  BY DEF ClockInv
<1>2. /\ setting \in Settings /\ lag \in 0..Delay /\ real \in 0..(Turns - 1) /\ hw["main"] \in ClockHw
      /\ next \in 0..Top /\ system_ticks \in 0..(Turns - 1)
  BY <1>1, ClockTypes DEF ClockShape
<1>3. /\ ClockShape' /\ hw'["main"] = Clock!Counted(hw["main"])
      /\ UNCHANGED <<setting, alarm, next, isr, now, c_pc, again, system_ticks, ticks_last,
                     sys_ticks, last, ticks, took>>
      /\ real' = IF hw["main"].on THEN Clock!Sum(real + 1) ELSE real
      /\ lag' = lag + 1 /\ lag < Delay
  <2>1. c_pc # "idle"
    BY DEF Clock!Boot
  <2>2. lag' = lag + 1 /\ lag < Delay
    BY <1>1, <2>1, TickIs
  <2> QED BY <1>1, <2>2, TickIs
<1>4. /\ Delay \in Nat /\ Period \in Nat \ {0} /\ 16 * Delay < Period /\ Period + 4 * Delay <= Top
      /\ Top \in Nat /\ Turns \in Nat \ {0} /\ Turn = Top + 1 /\ Turns >= 2 * Turn
  BY <1>2, ClockNumbers
<1>5. real \in Nat /\ real + 1 < Top /\ hw["main"].cnt = real /\ hw["main"].cmp = Top /\ ~hw["main"].flag
  BY <1>1, <1>2, <1>3, <1>4, BootNumbers DEF BootAt
<1>6. Clock!Wrap(real + 1) = real + 1 /\ Clock!Sum(real + 1) = real + 1
  <2>1. real + 1 \in 0..(Turn - 1) /\ real + 1 \in 0..(Turns - 1)
    BY <1>4, <1>5
  <2> QED BY <2>1, ClockSmall
<1>7. Delay' = Delay /\ c_pc' = c_pc /\ c_pc' \in Clock!Boot
  BY <1>3 DEF Delay
<1>8. CASE ~hw["main"].on
  <2>1. hw'["main"] = hw["main"] /\ real' = real
    BY <1>3, <1>8 DEF Clock!Counted
  <2>2. c_pc = "start"
    BY <1>1, <1>8 DEF BootAt
  <2>3. BootAt'
    BY <1>1, <1>3, <1>7, <2>1, <2>2 DEF BootAt
  <2> QED BY <1>3, <1>7, <2>3 DEF ClockInv
<1>9. CASE hw["main"].on
  <2>1. /\ hw'["main"].cnt = real + 1 /\ hw'["main"].cmp = Top
        /\ hw'["main"].on = hw["main"].on /\ hw'["main"].en = hw["main"].en
        /\ ~hw'["main"].flag
    <3>1. /\ hw'["main"].cnt = Clock!Wrap(real + 1) /\ hw'["main"].cmp = Top
          /\ hw'["main"].on = hw["main"].on /\ hw'["main"].en = hw["main"].en
          /\ hw'["main"].flag = (hw["main"].flag \/ Clock!Wrap(real + 1) = Top)
      BY <1>2, <1>3, <1>5, <1>9, CountedIs
    <3>2. real + 1 # Top
      BY <1>4, <1>5
    <3> QED BY <1>5, <1>6, <3>1, <3>2
  <2>2. real' = real + 1
    BY <1>3, <1>6, <1>9
  <2>3. c_pc # "start"
    BY <1>1, <1>9 DEF BootAt
  <2>4. /\ c_pc = "now" => real' <= lag'
        /\ c_pc = "claim" => real' - system_ticks \in 0..lag'
        /\ c_pc \in {"enable", "compare"} =>
             real' - (next - Period) \in 0..((IF c_pc = "compare" THEN Delay ELSE 0) + lag')
    <3>1. lag \in Nat /\ system_ticks \in Int /\ next - Period \in Int
      BY <1>2, <1>4
    <3>2. CASE c_pc = "now"
      BY <1>1, <1>3, <1>4, <1>5, <2>2, <3>1, <3>2 DEF BootAt
    <3>3. CASE c_pc = "claim"
      BY <1>1, <1>3, <1>4, <1>5, <2>2, <3>1, <3>3 DEF BootAt
    <3>4. CASE c_pc = "enable"
      BY <1>1, <1>3, <1>4, <1>5, <2>2, <3>1, <3>4 DEF BootAt
    <3>5. CASE c_pc = "compare"
      BY <1>1, <1>3, <1>4, <1>5, <2>2, <3>1, <3>5 DEF BootAt
    <3> QED BY <3>2, <3>3, <3>4, <3>5
  <2>5. BootAt'
    BY <1>1, <1>3, <1>7, <2>1, <2>2, <2>3, <2>4 DEF BootAt
  <2> QED BY <1>3, <1>7, <2>5 DEF ClockInv
<1> QED BY <1>8, <1>9

(* Its steps keep the shape.                                               *)
LEMMA BootShape ==
    ASSUME ClockShape, c_pc \in Clock!Boot, c_pc' \in Clock!Boot \cup {"idle"}, lag' = 0,
           UNCHANGED <<setting, isr, now, ticks_last, again, sys_ticks, last, ticks, took, real>>,
           hw' \in [Clock!Dev -> ClockHw], hw'["load"] = hw["load"],
           alarm' \in [Clock!Dev -> ClockAlarm], next' \in 0..Top, system_ticks' \in 0..(Turns - 1)
    PROVE  ClockShape'
<1>1. Clock!TypeOK /\ setting \in Settings
  BY ClockTypes DEF ClockShape
<1>2. Clock!CounterTypeOK'
  <2>1. 0 \in 0..Delay /\ Delay' = Delay
    BY <1>1, ClockNumbers DEF Delay
  <2>2. /\ setting' \in Settings /\ lag' \in 0..Delay' /\ now' \in [Clock!Dev -> 0..Top]
        /\ isr' \in [Clock!Dev -> {"idle", "callback", "spin", "reset"}]
    BY <1>1, <2>1, ClockTypes
  <2> QED BY <2>2 DEF Clock!CounterTypeOK, ClockHw, ClockAlarm, Delay
<1>3. ({system_ticks, real, took} \subseteq 0..(Words * (Top + 1) - 1))'
  BY <1>1, ClockTypes DEF Turns, Turn
<1>4. Clock!TypeOK'
  BY <1>1, <1>2, <1>3 DEF Clock!TypeOK
<1>5. again = FALSE /\ sys_ticks = Clock!NoWords
  BY DEF ClockShape, Clock!Boot
<1> QED BY <1>4, <1>5 DEF ClockShape, Clock!Boot

(* Setting up the second counter is left out: main is the one changed.     *)
LEMMA MainIs ==
    ASSUME Clock!TypeOK, NEW h \in ClockHw, hw' = [hw EXCEPT !["main"] = h]
    PROVE  hw' \in [Clock!Dev -> ClockHw] /\ hw'["main"] = h /\ hw'["load"] = hw["load"]
<1>1. hw \in [Clock!Dev -> ClockHw] /\ "main" \in Clock!Dev /\ "load" \in Clock!Dev
  BY ClockTypes DEF Clock!Dev
<1> QED BY <1>1

(* What each of its steps finds.                                           *)
LEMMA BootHas ==
    ASSUME ClockInv, c_pc \in Clock!Boot
    PROVE  /\ ClockShape /\ BootAt /\ Clock!TypeOK
           /\ setting \in Settings /\ lag \in 0..Delay /\ real \in Nat /\ next \in 0..Top
           /\ real \in 0..(Turns - 1) /\ system_ticks \in 0..(Turns - 1)
           /\ hw["main"] \in ClockHw /\ alarm \in [Clock!Dev -> ClockAlarm]
           /\ hw \in [Clock!Dev -> ClockHw]
           /\ Delay \in Nat /\ Period \in Nat \ {0} /\ 16 * Delay < Period /\ Period + 4 * Delay <= Top
           /\ Top \in Nat /\ Turns \in Nat \ {0} /\ Turn = Top + 1 /\ Turns >= 2 * Turn
           /\ real \in 0..(4 * Delay) /\ system_ticks \in 0..Delay
<1>1. ClockShape /\ BootAt /\ Clock!TypeOK
  BY DEF ClockInv, ClockShape
<1>2. /\ setting \in Settings /\ lag \in 0..Delay /\ next \in 0..Top
      /\ real \in 0..(Turns - 1) /\ system_ticks \in 0..(Turns - 1)
      /\ hw["main"] \in ClockHw /\ alarm \in [Clock!Dev -> ClockAlarm]
      /\ hw \in [Clock!Dev -> ClockHw]
  BY <1>1, ClockTypes
<1>3. /\ Delay \in Nat /\ Period \in Nat \ {0} /\ 16 * Delay < Period /\ Period + 4 * Delay <= Top
      /\ Top \in Nat /\ Turns \in Nat \ {0} /\ Turn = Top + 1 /\ Turns >= 2 * Turn
  BY <1>2, ClockNumbers
<1>4. real \in Nat
  BY <1>2, <1>3
<1>5. real \in 0..(4 * Delay) /\ system_ticks \in 0..Delay
  BY <1>1, BootNumbers
<1> QED BY <1>1, <1>2, <1>3, <1>4, <1>5

LEMMA StartKeeps ==
    ASSUME ClockInv, Clock!Driver("start", Clock!Start("main"), "now")
    PROVE  ClockInv'
<1>1. /\ c_pc = "start" /\ c_pc' = "now" /\ lag' = 0
      /\ UNCHANGED <<setting, isr, now, system_ticks, ticks_last, again, sys_ticks, last, ticks, took, real>>
      /\ hw' = [hw EXCEPT !["main"].on = TRUE] /\ UNCHANGED <<alarm, next>>
  BY DEF Clock!Driver, Clock!Start, Clock!Ran, Clock!locals
<1>2. c_pc \in Clock!Boot /\ c_pc' \in Clock!Boot
  BY <1>1 DEF Clock!Boot
<1> DEFINE h == [hw["main"] EXCEPT !.on = TRUE]
<1>3. /\ h \in ClockHw /\ h.cnt = hw["main"].cnt /\ h.cmp = hw["main"].cmp /\ h.on = TRUE
      /\ h.en = hw["main"].en /\ h.flag = hw["main"].flag
  BY <1>2, BootHas DEF ClockHw
<1>4. hw' = [hw EXCEPT !["main"] = h]
  BY <1>1
<1> HIDE DEF h
<1>5. hw' \in [Clock!Dev -> ClockHw] /\ hw'["main"] = h /\ hw'["load"] = hw["load"]
  BY <1>2, <1>3, <1>4, BootHas, MainIs
<1>6. ClockShape'
  BY <1>1, <1>2, <1>5, BootHas, BootShape
<1>7. BootAt'
  <2>1. BootAt
    BY <1>2, BootHas
  <2>2. /\ isr["main"] = "idle" /\ ~hw["main"].flag /\ hw["main"].cmp = Top /\ ~hw["main"].en
        /\ hw["main"].cnt = real /\ ticks_last = 0 /\ system_ticks = 0 /\ real = 0
        /\ alarm["main"].cb = "none"
    BY <1>1, <2>1 DEF BootAt
  <2> QED BY <1>1, <1>3, <1>5, <2>2 DEF BootAt
<1> QED BY <1>2, <1>6, <1>7 DEF ClockInv

LEMMA NowKeeps ==
    ASSUME ClockInv, Clock!BootNow
    PROVE  ClockInv'
<1>1. /\ c_pc = "now" /\ c_pc' = "claim" /\ lag' = 0 /\ system_ticks' = hw["main"].cnt
      /\ UNCHANGED <<setting, hw, alarm, next, isr, now, ticks_last, again, sys_ticks, last, ticks, took, real>>
  BY DEF Clock!BootNow, Clock!Ran, Clock!locals
<1>2. c_pc \in Clock!Boot /\ c_pc' \in Clock!Boot
  BY <1>1 DEF Clock!Boot
<1>3. /\ isr["main"] = "idle" /\ ~hw["main"].flag /\ hw["main"].cmp = Top /\ ~hw["main"].en
      /\ hw["main"].on /\ hw["main"].cnt = real /\ ticks_last = 0 /\ real <= lag
      /\ alarm["main"].cb = "none"
  BY <1>1, <1>2, BootHas DEF BootAt
<1>4. ClockShape'
  <2>1. system_ticks' \in 0..(Turns - 1) /\ hw' \in [Clock!Dev -> ClockHw]
    BY <1>1, <1>2, <1>3, BootHas
  <2>2. alarm' \in [Clock!Dev -> ClockAlarm] /\ next' \in 0..Top
    BY <1>1, <1>2, BootHas
  <2> QED BY <1>1, <1>2, <2>1, <2>2, BootHas, BootShape
<1>5. system_ticks' <= Delay' /\ real' - system_ticks' \in 0..lag'
  <2>1. Delay' = Delay /\ real \in Nat /\ lag \in 0..Delay /\ Delay \in Nat
    BY <1>1, <1>2, BootHas DEF Delay
  <2>2. real <= Delay /\ real - real = 0
    BY <1>3, <2>1
  <2> QED BY <1>1, <1>3, <2>1, <2>2
<1>6. BootAt'
  BY <1>1, <1>3, <1>5 DEF BootAt
<1> QED BY <1>2, <1>4, <1>6 DEF ClockInv

LEMMA ClaimKeeps ==
    ASSUME ClockInv, Clock!Driver("claim", Clock!Claim("main", "wakeup", "loop", Period), "enable")
    PROVE  ClockInv'
<1> DEFINE v == Clock!Wrap(hw["main"].cnt + Period)
           r == [cb |-> "wakeup", loop |-> TRUE, last |-> v, ticks |-> Period]
<1>1. /\ c_pc = "claim" /\ c_pc' = "enable" /\ lag' = 0
      /\ UNCHANGED <<setting, isr, now, system_ticks, ticks_last, again, sys_ticks, last, ticks, took, real>>
      /\ Clock!Claim("main", "wakeup", "loop", Period)
  BY DEF Clock!Driver, Clock!Ran, Clock!locals
<1>2. alarm' = [alarm EXCEPT !["main"] = r] /\ next' = v /\ hw' = hw
  <2>1. Clock!Target("main", "loop", Period) = v
    BY DEF Clock!Target
  <2> QED BY <1>1, <2>1 DEF Clock!Claim
<1>3. c_pc \in Clock!Boot /\ c_pc' \in Clock!Boot
  BY <1>1 DEF Clock!Boot
<1>4. /\ isr["main"] = "idle" /\ ~hw["main"].flag /\ hw["main"].cmp = Top /\ ~hw["main"].en
      /\ hw["main"].on /\ hw["main"].cnt = real /\ ticks_last = 0
      /\ system_ticks <= Delay /\ real - system_ticks \in 0..lag
  BY <1>1, <1>3, BootHas DEF BootAt
<1>5. v = real + Period /\ v \in 0..Top
  <2>1. real \in Nat /\ real <= 2 * Delay
    BY <1>1, <1>3, BootHas, BootNumbers
  <2>2. real + Period \in 0..(Turn - 1) /\ real + Period \in 0..Top
    BY <1>3, <2>1, BootHas
  <2> QED BY <1>4, <2>2, ClockSmall
<1> HIDE DEF v
<1>6. r \in ClockAlarm
  BY <1>3, <1>5, BootHas DEF ClockAlarm, Clock!Callbacks
<1>7. alarm' \in [Clock!Dev -> ClockAlarm] /\ alarm'["main"] = r
  BY <1>2, <1>3, <1>6, BootHas DEF Clock!Dev
<1>8. ClockShape'
  <2>1. hw' \in [Clock!Dev -> ClockHw] /\ hw'["load"] = hw["load"] /\ system_ticks' \in 0..(Turns - 1)
    BY <1>1, <1>2, <1>3, BootHas
  <2> QED BY <1>1, <1>2, <1>3, <1>5, <1>7, <2>1, BootHas, BootShape
<1>9. Delay' = Delay
  BY <1>1 DEF Delay
<1>10. /\ system_ticks' <= Delay' /\ next' - Period - system_ticks' \in 0..Delay'
       /\ real' - (next' - Period) \in 0..(0 + lag')
  <2>1. /\ real \in Nat /\ lag \in 0..Delay /\ Delay \in Nat /\ Period \in Nat
        /\ system_ticks \in 0..Delay
    BY <1>3, BootHas
  <2>2. next' - Period = real
    BY <1>2, <1>5, <2>1
  <2>3. real - system_ticks \in 0..Delay /\ real - real \in 0..(0 + 0)
    BY <1>4, <2>1
  <2> QED BY <1>1, <1>4, <1>9, <2>2, <2>3
<1>11. alarm'["main"] = [cb |-> "wakeup", loop |-> TRUE, last |-> next', ticks |-> Period]
  BY <1>2, <1>7
<1> HIDE DEF r
<1>12. BootAt'
  BY <1>1, <1>2, <1>4, <1>10, <1>11 DEF BootAt
<1> QED BY <1>3, <1>8, <1>12 DEF ClockInv

LEMMA EnableKeeps ==
    ASSUME ClockInv, Clock!Driver("enable", Clock!EnableIrq("main"), "compare")
    PROVE  ClockInv'
<1>1. /\ c_pc = "enable" /\ c_pc' = "compare" /\ lag' = 0
      /\ UNCHANGED <<setting, isr, now, system_ticks, ticks_last, again, sys_ticks, last, ticks, took, real>>
      /\ hw' = [hw EXCEPT !["main"].en = TRUE] /\ UNCHANGED <<alarm, next>>
  BY DEF Clock!Driver, Clock!EnableIrq, Clock!Ran, Clock!locals
<1>2. c_pc \in Clock!Boot /\ c_pc' \in Clock!Boot
  BY <1>1 DEF Clock!Boot
<1> DEFINE h == [hw["main"] EXCEPT !.en = TRUE]
<1>3. /\ h \in ClockHw /\ h.cnt = hw["main"].cnt /\ h.cmp = hw["main"].cmp /\ h.en = TRUE
      /\ h.on = hw["main"].on /\ h.flag = hw["main"].flag
  BY <1>2, BootHas DEF ClockHw
<1>4. hw' = [hw EXCEPT !["main"] = h]
  BY <1>1
<1> HIDE DEF h
<1>5. hw' \in [Clock!Dev -> ClockHw] /\ hw'["main"] = h /\ hw'["load"] = hw["load"]
  BY <1>2, <1>3, <1>4, BootHas, MainIs
<1>6. ClockShape'
  BY <1>1, <1>2, <1>5, BootHas, BootShape
<1>7. /\ isr["main"] = "idle" /\ ~hw["main"].flag /\ hw["main"].cmp = Top /\ hw["main"].on
      /\ hw["main"].cnt = real /\ ticks_last = 0 /\ system_ticks <= Delay
      /\ alarm["main"] = [cb |-> "wakeup", loop |-> TRUE, last |-> next, ticks |-> Period]
      /\ next - Period - system_ticks \in 0..Delay
      /\ real - (next - Period) \in 0..(0 + lag)
  BY <1>1, <1>2, BootHas DEF BootAt
<1>8. Delay' = Delay
  BY <1>1 DEF Delay
<1>9. real' - (next' - Period) \in 0..(Delay' + lag')
  <2>1. /\ real \in Nat /\ lag \in 0..Delay /\ Delay \in Nat /\ Period \in Nat /\ next \in 0..Top
        /\ Top \in Nat
    BY <1>2, BootHas
  <2>2. real - (next - Period) \in 0..(Delay + 0)
    BY <1>7, <2>1
  <2> QED BY <1>1, <1>8, <2>2
<1>10. BootAt'
  BY <1>1, <1>3, <1>5, <1>7, <1>8, <1>9 DEF BootAt
<1> QED BY <1>2, <1>6, <1>10 DEF ClockInv

LEMMA CompareKeeps ==
    ASSUME ClockInv, Clock!Driver("compare", Clock!SetCompare("main"), "idle")
    PROVE  ClockInv'
<1>1. /\ c_pc = "compare" /\ c_pc' = "idle" /\ lag' = 0 /\ Clock!SetCompare("main")
      /\ UNCHANGED <<setting, isr, now, system_ticks, ticks_last, again, sys_ticks, last, ticks, took, real>>
  BY DEF Clock!Driver, Clock!Ran, Clock!locals
<1>2. c_pc \in Clock!Boot /\ c_pc' \notin Clock!Boot /\ c_pc' \in Clock!Boot \cup {"idle"}
  BY <1>1 DEF Clock!Boot
<1>3. /\ isr["main"] = "idle" /\ ~hw["main"].flag /\ hw["main"].on /\ hw["main"].en
      /\ hw["main"].cnt = real /\ ticks_last = 0 /\ system_ticks <= Delay
      /\ alarm["main"] = [cb |-> "wakeup", loop |-> TRUE, last |-> next, ticks |-> Period]
      /\ next - Period - system_ticks \in 0..Delay
      /\ real - (next - Period) \in 0..(Delay + lag)
  BY <1>1, <1>2, BootHas DEF BootAt
<1>4. /\ real \in Nat /\ lag \in 0..Delay /\ Delay \in Nat /\ Period \in Nat \ {0} /\ next \in 0..Top
      /\ Top \in Nat /\ 16 * Delay < Period /\ Period + 4 * Delay <= Top /\ system_ticks \in 0..Delay
      /\ real \in 0..(4 * Delay) /\ Turn = Top + 1 /\ Turns >= 2 * Turn /\ Turns \in Nat
      /\ real \in 0..(Turns - 1)
  BY <1>2, BootHas
<1>5. PICK h \in Clock!Compared(hw["main"], next) : hw' = [hw EXCEPT !["main"] = h]
  BY <1>1 DEF Clock!SetCompare
<1>6. next' = 0 /\ alarm' = alarm
  BY <1>1 DEF Clock!SetCompare
<1>7. next # real
  BY <1>3, <1>4
<1>8. h \in ClockHw /\ h.cnt = real /\ h.cmp = next /\ h.on = TRUE /\ h.en = TRUE /\ h.flag = FALSE
  <2>1. PICK f \in {hw["main"].flag, hw["main"].flag \/ next = hw["main"].cnt} :
              h = [hw["main"] EXCEPT !.cmp = next, !.flag = f]
    BY <1>5 DEF Clock!Compared
  <2>2. hw["main"] \in ClockHw
    BY <1>2, BootHas
  <2>3. f = FALSE
    BY <1>3, <1>7, <2>1, <2>2 DEF ClockHw
  <2> QED BY <1>3, <1>4, <2>1, <2>2, <2>3 DEF ClockHw
<1>9. hw' \in [Clock!Dev -> ClockHw] /\ hw'["main"] = h /\ hw'["load"] = hw["load"]
  BY <1>2, <1>5, <1>8, BootHas, MainIs
<1>10. ClockShape'
  <2>1. 0 \in 0..Top /\ alarm' \in [Clock!Dev -> ClockAlarm] /\ system_ticks' \in 0..(Turns - 1)
    BY <1>1, <1>2, <1>4, <1>6, BootHas
  <2> QED BY <1>1, <1>2, <1>6, <1>9, <2>1, BootHas, BootShape
<1> DEFINE s1 == real - system_ticks
           g1 == next - Period - system_ticks
<1>11. /\ s1 \in 0..(Period + 3 * Delay) /\ real \in 0..Top /\ g1 \in 0..Delay
       /\ s1 - g1 \in 0..(Period - 1) /\ s1 - real \in (-Delay)..(3 * Delay)
       /\ real - s1 = system_ticks /\ real - s1 + g1 + Period = next /\ real - real = 0
  BY <1>3, <1>4
<1>12. Delay' = Delay
  BY <1>1 DEF Delay
<1>13. /\ Clock!Wrap(real) = real /\ Clock!Sum(system_ticks) = system_ticks /\ Clock!Wrap(0) = 0
       /\ Clock!Wrap(next) = next
  <2>1. /\ real \in 0..(Turn - 1) /\ system_ticks \in 0..(Turns - 1) /\ 0 \in 0..(Turn - 1)
        /\ next \in 0..(Turn - 1)
    BY <1>4
  <2> QED BY <2>1, ClockSmall
<1> HIDE DEF s1, g1
<1>14. PICK s \in 0..(Period + 3 * Delay), l \in 0..Top, g \in 0..Delay : s = s1 /\ l = real /\ g = g1
  BY <1>11
<1>15. LoopAt(s, l, g)'
  <2>1. /\ hw'["main"].cnt = Clock!Wrap(real) /\ system_ticks = Clock!Sum(real - s)
        /\ ticks_last = Clock!Wrap(real - l)
        /\ hw'["main"].cmp = Clock!Wrap(real - s + g + Period)
    BY <1>3, <1>8, <1>9, <1>11, <1>13, <1>14
  <2>2. alarm'["main"] = [cb |-> "wakeup", loop |-> TRUE, last |-> hw'["main"].cmp, ticks |-> Period]
    BY <1>3, <1>6, <1>8, <1>9
  <2>3. hw'["main"].on /\ hw'["main"].en /\ ~hw'["main"].flag /\ isr'["main"] = "idle"
    BY <1>1, <1>3, <1>8, <1>9
  <2>4. s - l \in (-Delay)..(3 * Delay) /\ s - g \in 0..(Period - 1)
    BY <1>11, <1>14
  <2> QED BY <1>1, <1>12, <2>1, <2>2, <2>3, <2>4 DEF LoopAt, Clock!Wrap, Clock!Sum
<1>16. ReadingAt(s, l, g)'
  BY <1>1 DEF ReadingAt
<1> QED BY <1>2, <1>10, <1>12, <1>15, <1>16, ReadsDone

-----------------------------------------------------------------------------
(* The clock: its invariant is kept, and what follows from it.             *)

(* osal_timer_init() is not interrupted.                                   *)
LEMMA NoIrqAtBoot ==
    ASSUME ClockInv, c_pc \in Clock!Boot
    PROVE  /\ ~Clock!EnterHandler("main") /\ ~Clock!ExitHandler("main")
           /\ ~Clock!rt_task_wakeup_alarm_handler /\ ~Clock!osal_gettime
<1>1. ~hw["main"].flag /\ isr["main"] = "idle"
  BY BootHas DEF BootAt
<1>2. c_pc \notin {"idle", "words", "last", "count", "check", "sum"}
  BY DEF Clock!Boot
<1> QED BY <1>1, <1>2
      DEF Clock!EnterHandler, Clock!Pending, Clock!ExitHandler, Clock!rt_task_wakeup_alarm_handler,
          Clock!InCallback, Clock!osal_gettime, Clock!Call, Clock!ReadLast, Clock!ReadCount,
          Clock!CheckLast, Clock!Return_gettime, Clock!ReadWord, Clock!CheckWord

LEMMA ClockInductive ==
    ASSUME ClockInv, [Clock!Next]_clockVars
    PROVE  ClockInv'
<1>1. CASE Clock!osal_timer_init
  BY <1>1, StartKeeps, NowKeeps, ClaimKeeps, EnableKeeps, CompareKeeps DEF Clock!osal_timer_init
<1>2. CASE Clock!osal_gettime
  <2>1. c_pc \notin Clock!Boot
    BY <1>2, NoIrqAtBoot
  <2> QED BY <1>2, <2>1, CallKeeps, ReadLastKeeps, ReadCountKeeps, CheckLastKeeps, ReturnKeeps,
             ReadWordKeeps, CheckWordKeeps DEF Clock!osal_gettime
<1>3. CASE Clock!Interrupt
  <2>1. PICK z \in {"enter", "exit", "callback"} :
          \/ z = "enter" /\ Clock!EnterHandler("main") /\ UNCHANGED Clock!clockVars
          \/ z = "exit" /\ Clock!ExitHandler("main") /\ UNCHANGED Clock!clockVars
          \/ z = "callback" /\ Clock!rt_task_wakeup_alarm_handler
    BY <1>3 DEF Clock!Interrupt
  <2> QED BY <2>1, EnterKeeps, ExitKeeps, CallbackKeeps DEF Clock!clockVars
<1>4. CASE Clock!ClockTick
  BY <1>4, LoopTickKeeps, BootTickKeeps
<1>5. CASE UNCHANGED clockVars
  <2>1. ClockShape'
    BY <1>5 DEF clockVars, ClockInv, ClockShape, Clock!TypeOK, Clock!CounterTypeOK
  <2>2. Delay' = Delay
    BY <1>5 DEF clockVars, Delay
  <2>3. CASE c_pc \in Clock!Boot
    <3>1. BootAt'
      BY <1>5, <2>2, <2>3 DEF clockVars, ClockInv, BootAt
    <3> QED BY <1>5, <2>1, <2>3, <3>1 DEF clockVars, ClockInv
  <2>4. CASE c_pc \notin Clock!Boot
    <3>1. PICK s \in 0..(Period + 3 * Delay), l \in 0..Top, g \in 0..Delay :
              LoopAt(s, l, g) /\ ReadingAt(s, l, g)
      BY <2>4, LoopHas
    <3>2. LoopAt(s, l, g)'
      BY <1>5, <2>2, <3>1 DEF clockVars, LoopAt, Clock!Wrap, Clock!Sum
    <3>3. Fresh(s, g) => Fresh(s, g)'
      BY <1>5, <2>2 DEF clockVars, Fresh, Steps, Reads
    <3>4. ReadingAt(s, l, g)'
      BY <1>5, <2>4, <3>1, <3>3, LoopHas, RangesInt, ReadingKept DEF clockVars
    <3>5. c_pc' \notin Clock!Boot
      BY <1>5, <2>4 DEF clockVars
    <3> QED BY <2>1, <2>2, <3>2, <3>4, <3>5, ReadsDone
  <2> QED BY <2>3, <2>4
<1> QED BY <1>1, <1>2, <1>3, <1>4, <1>5 DEF Clock!Next
(* What is behind by less than half the sum's range.                       *)
LEMMA BehindIs ==
    ASSUME setting \in Settings, NEW x \in Int, NEW y \in Int, NEW d \in Int,
           Clock!Sum(y - x) = Clock!Sum(d), -Top <= d, d <= Top
    PROVE  Clock!Behind(x, y) = d
<1>1. Turns \in Nat /\ Turns >= 2 * Turn /\ Turn = Top + 1 /\ Top \in Nat /\ Turns = Words * (Top + 1)
  BY ClockNumbers
<1> DEFINE e == Clock!Sum(y - x)
<1>2. Clock!Behind(x, y) = IF 2 * e < Turns THEN e ELSE e - Turns
  BY <1>1 DEF Clock!Behind
<1>3. CASE d >= 0
  <2>1. d \in 0..(Turns - 1) /\ 2 * d < Turns
    BY <1>1, <1>3
  <2>2. Clock!Sum(d) = d
    BY <2>1, ClockSmall
  <2>3. e = d
    BY <2>2
  <2> HIDE DEF e
  <2> QED BY <1>2, <2>1, <2>3
<1>4. CASE d < 0
  <2>1. d + Turns \in 0..(Turns - 1) /\ ~(2 * (d + Turns) < Turns)
    BY <1>1, <1>4
  <2>2. Clock!Sum(d) = d + Turns
    <3> DEFINE r == d + Turns
               k == -1
    <3>1. d = k * Turns + r
      BY <1>1
    <3>2. r \in 0..(Turns - 1) /\ k \in Int /\ Turns \in Nat \ {0}
      BY <2>1, ClockNumbers
    <3> HIDE DEF r, k
    <3>3. d % Turns = r
      BY <3>1, <3>2, ModIs
    <3> QED BY <3>3, ClockModulus DEF r
  <2>3. e = d + Turns
    BY <2>2
  <2> HIDE DEF e
  <2>4. e - Turns = d
    BY <1>1, <2>3
  <2> QED BY <1>2, <2>1, <2>3, <2>4
<1> QED BY <1>3, <1>4

(* The alarm to come is less than a period ahead, ...                      *)
LEMMA AheadIs ==
    ASSUME ClockShape, NEW s \in 0..(Period + 3 * Delay), NEW l \in 0..Top, NEW g \in 0..Delay,
           LoopAt(s, l, g), isr["main"] = "idle", ~hw["main"].flag
    PROVE  Clock!Ahead("main") \in 1..Period
<1>1. setting \in Settings /\ real \in 0..(Turns - 1)
  BY ClockTypes DEF ClockShape
<1>2. /\ Delay \in Nat /\ Period \in Nat \ {0} /\ Top \in Nat /\ Turn = Top + 1 /\ Turns \in Nat
      /\ Period <= Top
  BY <1>1, ClockNumbers
<1> DEFINE a == real - s + g + Period
           b == Period - (s - g)
<1>3. a \in Int /\ b \in 1..Period /\ a - real = b /\ a + (-real) = b /\ real \in Int
  BY <1>1, <1>2 DEF LoopAt
<1>4. hw["main"].cmp = Clock!Wrap(a) /\ hw["main"].cnt = Clock!Wrap(real)
  BY DEF LoopAt
<1> HIDE DEF a, b
<1>5. Clock!Wrap(a) \in Int
  BY <1>2, <1>3, ClockIn
<1>6. Clock!Wrap(Clock!Wrap(a) - Clock!Wrap(real)) = Clock!Wrap(Clock!Wrap(a) - real)
  BY <1>3, <1>5, ClockSums
<1>7. Clock!Wrap(Clock!Wrap(a) + (-real)) = Clock!Wrap(a + (-real)) /\ -real \in Int
  BY <1>3, ClockSums
<1>8. Clock!Wrap(a) - real = Clock!Wrap(a) + (-real)
  BY <1>3, <1>5
<1>9. Clock!Wrap(b) = b
  <2>1. b \in 0..(Turn - 1)
    BY <1>2, <1>3
  <2> QED BY <2>1, ClockSmall
<1> QED BY <1>3, <1>4, <1>6, <1>7, <1>8, <1>9 DEF Clock!Ahead

(* ... system_ticks is late by a period and the delays of one alarm, ...   *)
LEMMA DriftIs ==
    ASSUME ClockShape, NEW s \in 0..(Period + 3 * Delay), NEW l \in 0..Top, NEW g \in 0..Delay,
           LoopAt(s, l, g)
    PROVE  Clock!Behind(system_ticks, real) \in 0..(Period + 3 * Delay)
<1>1. setting \in Settings /\ real \in 0..(Turns - 1)
  BY ClockTypes DEF ClockShape
<1>2. Delay \in Nat /\ Period \in Nat /\ Top \in Nat /\ Turns \in Nat /\ Period + 4 * Delay <= Top
  BY <1>1, ClockNumbers
<1>3. real \in Int /\ s \in Int /\ real - s \in Int /\ real - (real - s) = s /\ -Top <= s /\ s <= Top
  BY <1>1, <1>2
<1>4. system_ticks = Clock!Sum(real - s) /\ system_ticks \in Int
  <2>1. system_ticks = Clock!Sum(real - s)
    BY DEF LoopAt
  <2> QED BY <2>1, <1>2, <1>3, ClockIn
<1>5. Clock!Sum(real - system_ticks) = Clock!Sum(s)
  BY <1>3, <1>4, ClockSums
<1>6. Clock!Behind(system_ticks, real) = s
  BY <1>1, <1>3, <1>4, <1>5, BehindIs
<1> QED BY <1>6

(* ... and so is the time read, which a wrap of the counter makes a tick   *)
(* shorter.                                                                *)
LEMMA TimeIs ==
    ASSUME ClockShape, SumAt, ticks # last
    PROVE  Clock!Behind(Clock!Time, took) \in (-Delay)..(3 * Delay + 1)
<1>1. /\ setting \in Settings /\ took \in 0..(Turns - 1) /\ last \in 0..Top /\ ticks \in 0..Top
      /\ sys_ticks \in ClockWords
  BY ClockTypes DEF ClockShape
<1>2. /\ Delay \in Nat /\ Period \in Nat \ {0} /\ Top \in Nat \ {0} /\ Turn = Top + 1 /\ Turns \in Nat
      /\ Period + 4 * Delay <= Top /\ Turn \in Nat
  BY <1>1, ClockNumbers
<1>3. PICK h \in (-Delay)..(3 * Delay), v \in 0..Top :
        /\ sys_ticks.hi * Turn + sys_ticks.lo = Clock!Sum(took - v - h)
        /\ last = Clock!Wrap(took - v) /\ ticks = Clock!Wrap(took)
  BY DEF SumAt
<1>4. took \in Int /\ h \in Int /\ v \in Int /\ took - v \in Int /\ took - v - h \in Int
  BY <1>1, <1>2
<1> DEFINE m == IF ticks > last THEN ticks - last ELSE Top - last + ticks
           e == IF ticks > last THEN h ELSE h + 1
<1>5. m = v - (e - h) /\ m \in Int /\ e \in (-Delay)..(3 * Delay + 1) /\ e \in Int
  <2> DEFINE q == IF ticks > last THEN 0 ELSE 1
  <2>1. ticks = Clock!Wrap(last + v)
    <3>1. Clock!Wrap(Clock!Wrap(took - v) + v) = Clock!Wrap((took - v) + v)
      BY <1>4, ClockSums
    <3>2. (took - v) + v = took
      BY <1>4
    <3> QED BY <1>3, <3>1, <3>2
  <2>2. CASE last + v <= Top
    <3>1. last + v \in 0..(Turn - 1)
      BY <1>1, <1>2, <2>2
    <3>2. ticks = last + v
      BY <2>1, <3>1, ClockSmall
    <3> QED BY <1>1, <1>2, <3>2
  <2>3. CASE last + v > Top
    <3> DEFINE r == last + v - Turn
               k == 1
               x == last + v
    <3>1. r \in 0..(Turn - 1) /\ x = k * Turn + r /\ x \in Int /\ k \in Int /\ Turn \in Nat \ {0}
      BY <1>1, <1>2, <2>3
    <3>2. ticks = x % Turn
      BY <2>1, <3>1, ClockModulus
    <3> HIDE DEF r, k, x
    <3>3. ticks = r
      BY <3>1, <3>2, ModIs
    <3>4. ticks = last + v - Turn
      BY <3>3 DEF r
    <3> QED BY <1>1, <1>2, <3>4
  <2> QED BY <1>1, <1>2, <2>2, <2>3
<1> DEFINE t == sys_ticks.hi * Turn + sys_ticks.lo
<1>6. Clock!Time = Clock!Sum(t + m)
  BY <1>2 DEF Clock!Time
<1> HIDE DEF m, e, t
<1>7. t = Clock!Sum(took - v - h)
  BY <1>3 DEF t
<1>8. Clock!Time = Clock!Sum(took - e)
  <2>1. Clock!Sum(Clock!Sum(took - v - h) + m) = Clock!Sum((took - v - h) + m)
    BY <1>4, <1>5, ClockSums
  <2>2. (took - v - h) + m = took - e
    BY <1>4, <1>5
  <2> QED BY <1>6, <1>7, <2>1, <2>2
<1>9. Clock!Time \in Int /\ took - e \in Int
  <2>1. took - e \in Int
    BY <1>4, <1>5
  <2>2. Clock!Sum(took - e) \in 0..(Turns - 1)
    BY <2>1, ClockIn
  <2> QED BY <1>2, <1>8, <2>1, <2>2
<1>10. Clock!Sum(took - Clock!Time) = Clock!Sum(e)
  <2>1. Clock!Sum(took - Clock!Sum(took - e)) = Clock!Sum(took - (took - e))
    BY <1>4, <1>9, ClockSums
  <2>2. took - (took - e) = e
    BY <1>4, <1>5
  <2> QED BY <1>8, <2>1, <2>2
<1>11. -Top <= e /\ e <= Top
  BY <1>2, <1>5
<1>12. Clock!Behind(Clock!Time, took) = e
  BY <1>1, <1>4, <1>5, <1>9, <1>10, <1>11, BehindIs
<1> QED BY <1>5, <1>12

LEMMA ClockFollows ==
    ASSUME ClockInv
    PROVE  Clock!LoopAhead /\ Clock!NoDrift /\ Clock!TimeRead
<1>1. CASE c_pc \in Clock!Boot
  <2>1. c_pc # "sum"
    BY <1>1 DEF Clock!Boot
  <2> QED BY <1>1, <2>1 DEF Clock!LoopAhead, Clock!NoDrift, Clock!TimeRead
<1>2. CASE c_pc \notin Clock!Boot
  <2>1. PICK s \in 0..(Period + 3 * Delay), l \in 0..Top, g \in 0..Delay :
            LoopAt(s, l, g) /\ ReadingAt(s, l, g)
    BY <1>2, LoopHas
  <2>2. ClockShape
    BY DEF ClockInv
  <2>3. Delay \in Nat /\ setting.delay = Delay
    <3>1. setting \in Settings
      BY <2>2, ClockTypes DEF ClockShape
    <3> QED BY <3>1, ClockNumbers DEF Delay
  <2>4. Clock!LoopAhead
    BY <2>1, <2>2, AheadIs DEF Clock!LoopAhead
  <2>5. Clock!NoDrift
    <3>1. Clock!Behind(system_ticks, real) \in 0..(Period + 3 * Delay)
      BY <2>1, <2>2, DriftIs
    <3>2. Clock!BootLag + Clock!HandleLag = 3 * Delay /\ Clock!BootLag \in Int /\ Clock!HandleLag \in Int
      BY <2>3 DEF Clock!BootLag, Clock!HandleLag
    <3>3. Period + Clock!BootLag + Clock!HandleLag = Period + 3 * Delay
      <4>1. Period \in Nat
        BY ServicesAssumption
           DEF ServicesAssumption, Clock!ClockAssumption, Clock!CounterAssumption
      <4> QED BY <3>2, <4>1, <2>3
    <3> QED BY <3>1, <3>3 DEF Clock!NoDrift
  <2>6. Clock!TimeRead
    <3>1. CASE c_pc = "sum" /\ ticks # last
      <4>1. SumAt
        BY <2>1, <3>1 DEF ReadingAt
      <4>2. Clock!Behind(Clock!Time, took) \in (-Delay)..(3 * Delay + 1)
        BY <2>2, <3>1, <4>1, TimeIs
      <4>3. Clock!BootLag + Clock!HandleLag + 1 = 3 * Delay + 1 /\ -setting.delay = -Delay
        BY <2>3 DEF Clock!BootLag, Clock!HandleLag
      <4> QED BY <4>2, <4>3 DEF Clock!TimeRead
    <3>2. CASE ~(c_pc = "sum" /\ ticks # last)
      BY <3>2 DEF Clock!TimeRead
    <3> QED BY <3>1, <3>2
  <2> QED BY <2>4, <2>5, <2>6
<1> QED BY <1>1, <1>2

-----------------------------------------------------------------------------
(* Induction: a set of numbers that has 0, and with each number the next,  *)
(* has them all.  Were some up to m left out, the step down from one to    *)
(* the next would be an injection of these finitely many that misses the   *)
(* last.                                                                   *)
LEMMA Numbers ==
    ASSUME NEW S, 0 \in S, \A k \in Nat : k \in S => k + 1 \in S, NEW m \in Nat
    PROVE  m \in S
<1> DEFINE D == {k \in 0..m : k \notin S}
           f == [k \in D |-> k - 1]
<1> SUFFICES ASSUME m \notin S PROVE FALSE
  OBVIOUS
<1>1. IsFiniteSet(D)
  <2>1. IsFiniteSet(0..m) /\ D \in SUBSET (0..m)
    BY FS_Interval
  <2> QED BY <2>1, FS_Subset
<1>2. \A k \in D : k - 1 \in D
  <2> SUFFICES ASSUME NEW k \in D PROVE k - 1 \in D
    OBVIOUS
  <2>1. k \in Nat /\ k # 0 /\ k <= m
    OBVIOUS
  <2>2. k - 1 \in Nat /\ (k - 1) + 1 = k /\ k - 1 \in 0..m
    BY <2>1
  <2>3. k - 1 \notin S
    BY <2>2
  <2> QED BY <2>2, <2>3
<1>3. f \in Injection(D, D)
  <2>1. f \in [D -> D] /\ D \subseteq Int
    BY <1>2
  <2>2. \A a, b \in D : f[a] = f[b] => a = b
    OBVIOUS
  <2> QED BY <2>1, <2>2 DEF Injection, IsInjective
<1>4. f \in Surjection(D, D)
  <2> HIDE DEF D, f
  <2> QED BY <1>1, <1>3, FS_Injection
<1>5. m \in D
  OBVIOUS
<1>6. \A k \in D : k + 1 \in D
  <2> SUFFICES ASSUME NEW k \in D PROVE k + 1 \in D
    OBVIOUS
  <2>1. PICK j \in D : f[j] = k
    BY <1>4 DEF Surjection
  <2>2. k = j - 1 /\ j \in Int /\ k \in Int
    BY <2>1
  <2>3. k + 1 = j
    BY <2>2
  <2> QED BY <2>1, <2>3
<1> QED BY <1>5, <1>6

-----------------------------------------------------------------------------
(* Totals.                                                                 *)

SumsOf(w, t) ==
    /\ t \in [0..Len(w) -> Int] /\ t[0] = 0
    /\ \A k \in 1..Len(w) : t[k] = t[k - 1] + w[k]

LEMMA TotalIs ==
    ASSUME NEW w, Len(w) \in Nat, NEW t, SumsOf(w, t)
    PROVE  Stats!Total(w) = t[Len(w)]
<1> DEFINE F(u) == [k \in 0..Len(w) |-> IF k = 0 THEN 0 ELSE u[k - 1] + w[k]]
           u == CHOOSE u : u = F(u)
<1>1. t = F(t)
  <2>1. t = [k \in 0..Len(w) |-> t[k]]
    BY DEF SumsOf
  <2>2. \A k \in 0..Len(w) : k = 0 \/ k \in 1..Len(w)
    OBVIOUS
  <2>3. \A k \in 0..Len(w) : t[k] = IF k = 0 THEN 0 ELSE t[k - 1] + w[k]
    BY <2>2 DEF SumsOf
  <2> QED BY <2>1, <2>3
<1>2. u = F(u)
  BY <1>1
<1>3. Stats!Total(w) = u[Len(w)]
  BY DEF Stats!Total
<1> HIDE DEF u
<1> DEFINE S == {k \in Nat : k <= Len(w) => u[k] = t[k]}
<1>4. 0 \in S
  <2>1. u[0] = 0
    BY <1>2
  <2> QED BY <2>1 DEF SumsOf
<1>5. \A k \in Nat : k \in S => k + 1 \in S
  <2> SUFFICES ASSUME NEW k \in Nat, k \in S PROVE k + 1 \in S
    OBVIOUS
  <2>1. CASE k + 1 <= Len(w)
    <3>1. k + 1 \in 1..Len(w) /\ k + 1 \in 0..Len(w) /\ (k + 1) - 1 = k /\ k + 1 # 0 /\ k <= Len(w)
      BY <2>1
    <3>2. u[k + 1] = u[k] + w[k + 1]
      BY <1>2, <3>1
    <3>3. t[k + 1] = t[k] + w[k + 1]
      BY <3>1 DEF SumsOf
    <3>4. u[k + 1] = t[k + 1]
      BY <3>1, <3>2, <3>3
    <3> QED BY <3>4
  <2>2. CASE ~(k + 1 <= Len(w))
    BY <2>2
  <2> QED BY <2>1, <2>2
<1>6. Len(w) \in S
  <2> HIDE DEF S
  <2> QED BY <1>4, <1>5, Numbers
<1> QED BY <1>3, <1>6

(* Every sequence has its sums.                                            *)
LEMMA SumsExist ==
    ASSUME NEW w, Len(w) \in Nat, \A k \in 1..Len(w) : w[k] \in Int
    PROVE  \E t : SumsOf(w, t)
<1> DEFINE Upto(m, t) == /\ t \in [0..m -> Int] /\ t[0] = 0
                         /\ \A k \in 1..m : t[k] = t[k - 1] + w[k]
           S == {m \in Nat : m <= Len(w) => \E t : Upto(m, t)}
<1>1. 0 \in S
  <2> DEFINE t == [k \in 0..0 |-> 0]
  <2>1. Upto(0, t)
    OBVIOUS
  <2> HIDE DEF Upto, t
  <2>2. \E x : Upto(0, x)
    BY <2>1
  <2> QED BY <2>2
<1>2. \A m \in Nat : m \in S => m + 1 \in S
  <2> SUFFICES ASSUME NEW m \in Nat, m \in S PROVE m + 1 \in S
    OBVIOUS
  <2>1. CASE m + 1 <= Len(w)
    <3>1. PICK t : Upto(m, t)
      BY <2>1
    <3> DEFINE x == [k \in 0..(m + 1) |-> IF k = m + 1 THEN t[m] + w[m + 1] ELSE t[k]]
    <3>2. m + 1 \in 1..Len(w) /\ m \in 0..m /\ w[m + 1] \in Int /\ t[m] \in Int
      BY <2>1, <3>1
    <3>3. x \in [0..(m + 1) -> Int]
      <4>1. \A k \in 0..(m + 1) : k = m + 1 \/ k \in 0..m
        OBVIOUS
      <4> QED BY <3>1, <3>2, <4>1
    <3>4. x[0] = 0
      BY <3>1
    <3>5. \A k \in 1..(m + 1) : x[k] = x[k - 1] + w[k]
      <4> SUFFICES ASSUME NEW k \in 1..(m + 1) PROVE x[k] = x[k - 1] + w[k]
        OBVIOUS
      <4>1. CASE k = m + 1
        <5>1. k - 1 = m /\ x[m] = t[m] /\ x[m + 1] = t[m] + w[m + 1]
          BY <4>1
        <5> QED BY <4>1, <5>1
      <4>2. CASE k # m + 1
        <5>1. k \in 1..m /\ k \in 0..(m + 1) /\ k - 1 \in 0..(m + 1) /\ k - 1 # m + 1
          BY <4>2
        <5>2. x[k] = t[k] /\ x[k - 1] = t[k - 1]
          BY <4>2, <5>1
        <5>3. t[k] = t[k - 1] + w[k]
          BY <3>1, <5>1
        <5> QED BY <5>2, <5>3
      <4> QED BY <4>1, <4>2
    <3>6. Upto(m + 1, x)
      BY <3>3, <3>4, <3>5
    <3> HIDE DEF Upto, x
    <3>7. \E y : Upto(m + 1, y)
      BY <3>6
    <3> QED BY <3>7
  <2>2. CASE ~(m + 1 <= Len(w))
    BY <2>2
  <2> QED BY <2>1, <2>2
<1>3. Len(w) \in S
  <2> HIDE DEF S
  <2> QED BY <1>1, <1>2, Numbers
<1>4. PICK t : Upto(Len(w), t)
  BY <1>3
<1> QED BY <1>4 DEF SumsOf

LEMMA TotalInt ==
    ASSUME NEW w, Len(w) \in Nat, \A k \in 1..Len(w) : w[k] \in Int
    PROVE  Stats!Total(w) \in Int
<1>1. PICK t : SumsOf(w, t)
  BY SumsExist
<1>2. Stats!Total(w) = t[Len(w)]
  BY <1>1, TotalIs
<1> QED BY <1>1, <1>2 DEF SumsOf

(* The total of no number, ...                                             *)
LEMMA TotalNone ==
    ASSUME NEW w, Len(w) = 0
    PROVE  Stats!Total(w) = 0
<1> DEFINE t == [k \in 0..0 |-> 0]
<1>1. SumsOf(w, t)
  BY DEF SumsOf
<1>2. t[0] = 0 /\ 0 \in Nat
  OBVIOUS
<1> HIDE DEF t
<1> QED BY <1>1, <1>2, TotalIs

(* ... of one more number, ...                                             *)
LEMMA TotalMore ==
    ASSUME NEW w, Len(w) \in Nat, \A k \in 1..Len(w) : w[k] \in Int,
           NEW v, Len(v) = Len(w) + 1, \A k \in 1..Len(w) : v[k] = w[k],
           v[Len(w) + 1] \in Int
    PROVE  Stats!Total(v) = Stats!Total(w) + v[Len(w) + 1]
<1> DEFINE m == Len(w)
<1>1. PICK t : SumsOf(w, t)
  BY SumsExist
<1>2. t \in [0..m -> Int] /\ t[0] = 0 /\ \A k \in 1..m : t[k] = t[k - 1] + w[k]
  BY <1>1 DEF SumsOf
<1>3. Stats!Total(w) = t[m]
  BY <1>1, TotalIs
<1>4. m \in Nat /\ Len(v) = m + 1 /\ (\A k \in 1..m : v[k] = w[k]) /\ v[m + 1] \in Int
  OBVIOUS
<1> HIDE DEF m
<1> DEFINE x == [k \in 0..(m + 1) |-> IF k = m + 1 THEN t[m] + v[m + 1] ELSE t[k]]
<1>5. x \in [0..(m + 1) -> Int] /\ x[0] = 0
  <2>1. \A k \in 0..(m + 1) : k = m + 1 \/ k \in 0..m
    BY <1>4
  <2>2. t[m] \in Int
    BY <1>2, <1>4
  <2> QED BY <1>2, <1>4, <2>1, <2>2
<1>6. ASSUME NEW k \in 1..(m + 1) PROVE x[k] = x[k - 1] + v[k]
  <2>1. CASE k = m + 1
    <3>1. k - 1 = m /\ x[m] = t[m] /\ x[m + 1] = t[m] + v[m + 1]
      BY <1>4, <2>1
    <3> QED BY <2>1, <3>1
  <2>2. CASE k # m + 1
    <3>1. k \in 1..m /\ k \in 0..(m + 1) /\ k - 1 \in 0..(m + 1) /\ k - 1 # m + 1
      BY <1>4, <2>2
    <3>2. x[k] = t[k] /\ x[k - 1] = t[k - 1]
      BY <2>2, <3>1
    <3>3. t[k] = t[k - 1] + v[k]
      BY <1>2, <1>4, <3>1
    <3> QED BY <3>2, <3>3
  <2> QED BY <2>1, <2>2
<1>7. x[m + 1] = t[m] + v[m + 1]
  BY <1>4
<1> HIDE DEF x
<1>8. SumsOf(v, x)
  BY <1>4, <1>5, <1>6 DEF SumsOf
<1>9. Stats!Total(v) = x[m + 1]
  BY <1>4, <1>8, TotalIs
<1> QED BY <1>3, <1>7, <1>9 DEF m

(* ... of numbers that are all 0, ...                                      *)
LEMMA TotalZero ==
    ASSUME NEW w, Len(w) \in Nat, \A k \in 1..Len(w) : w[k] = 0
    PROVE  Stats!Total(w) = 0
<1> DEFINE t == [k \in 0..Len(w) |-> 0]
<1>1. SumsOf(w, t)
  BY DEF SumsOf
<1>2. t[Len(w)] = 0
  OBVIOUS
<1> HIDE DEF t
<1> QED BY <1>1, <1>2, TotalIs

(* ... and of numbers of which one is 1 more.                              *)
LEMMA TotalOneMore ==
    ASSUME NEW w, Len(w) \in Nat, \A k \in 1..Len(w) : w[k] \in Int,
           NEW v, Len(v) = Len(w), NEW j \in 1..Len(w), v[j] = w[j] + 1,
           \A k \in 1..Len(w) : k # j => v[k] = w[k]
    PROVE  Stats!Total(v) = Stats!Total(w) + 1
<1> DEFINE m == Len(w)
<1>1. PICK t : SumsOf(w, t)
  BY SumsExist
<1>2. t \in [0..m -> Int] /\ t[0] = 0 /\ \A k \in 1..m : t[k] = t[k - 1] + w[k]
  BY <1>1 DEF SumsOf
<1>3. Stats!Total(w) = t[m]
  BY <1>1, TotalIs
<1>4. /\ m \in Nat /\ Len(v) = m /\ j \in 1..m /\ v[j] = w[j] + 1
      /\ \A k \in 1..m : w[k] \in Int /\ (k # j => v[k] = w[k])
  OBVIOUS
<1> HIDE DEF m
<1> DEFINE x == [k \in 0..m |-> IF k < j THEN t[k] ELSE t[k] + 1]
<1>5. x \in [0..m -> Int] /\ x[0] = 0
  BY <1>2, <1>4
<1>6. ASSUME NEW k \in 1..m PROVE x[k] = x[k - 1] + v[k]
  <2>1. k \in 0..m /\ k - 1 \in 0..m /\ t[k] = t[k - 1] + w[k] /\ t[k - 1] \in Int /\ w[k] \in Int
    BY <1>2, <1>4
  <2>2. CASE k < j
    BY <1>4, <2>1, <2>2
  <2>3. CASE k = j
    BY <1>4, <2>1, <2>3
  <2>4. CASE k > j
    <3>1. ~(k < j) /\ ~(k - 1 < j) /\ k # j
      BY <1>4, <2>4
    <3>2. x[k] = t[k] + 1 /\ x[k - 1] = t[k - 1] + 1 /\ v[k] = w[k]
      BY <1>4, <2>1, <3>1
    <3> QED BY <2>1, <3>2
  <2> QED BY <1>4, <2>2, <2>3, <2>4
<1>7. x[m] = t[m] + 1
  BY <1>4
<1> HIDE DEF x
<1>8. SumsOf(v, x)
  BY <1>4, <1>5, <1>6 DEF SumsOf
<1>9. Stats!Total(v) = x[m]
  BY <1>4, <1>8, TotalIs
<1> QED BY <1>3, <1>7, <1>9

-----------------------------------------------------------------------------
(* The statistics.                                                         *)

FullSet == 2^Log2Size
Set == [current_count : Int, current_min : Int, current_max : Int, current_mean : Int,
        current_ms : Int, min : Int, max : Int, mean : Int, ms : Int, variance : Int,
        abs_min : Int, abs_max : Int]
Bars == [k \in 1..(Slots + 1) |-> hist[k - 1]]

(* What TypeOK does not bound.                                             *)
StatsShape ==
    /\ Stats!TypeOK /\ test_on \in BOOLEAN /\ pending \in BOOLEAN /\ skipped \in BOOLEAN
    /\ st \in Set /\ snap \in Set /\ hist \in [0..Slots -> Int]
    /\ window \in Seq(Samples) /\ snap_window \in Seq(Samples) /\ seen \in SUBSET Samples
    /\ shown \in Int /\ overrun \in Int
    /\ ~test_on => l_pc = "delay" /\ ~pending /\ window = <<>>

(* A set is of the samples of w.                                           *)
SetOf(s, w) ==
    /\ s.current_count = Len(w) /\ s.current_mean = Stats!Total(w)
    /\ s.current_ms = Stats!Total(Stats!Squares(w))
    /\ w # <<>> => /\ Stats!IsLeast(s.current_min, Stats!Values(w))
                   /\ Stats!IsGreatest(s.current_max, Stats!Values(w))
                   /\ s.abs_min <= s.current_min /\ s.abs_max >= s.current_max

(* Its extremes are those since the test began.                            *)
SeenAt ==
    test_on =>
        /\ Stats!Values(window) \subseteq seen
        /\ window = <<>> => st.current_min = MaxInt /\ st.current_max = -MaxInt
        /\ seen = {} => st.abs_min = MaxInt /\ st.abs_max = -MaxInt
        /\ seen # {} => Stats!IsLeast(st.abs_min, seen) /\ Stats!IsGreatest(st.abs_max, seen)

(* The results are those of the samples of w.                              *)
ResultsOf(r, w) ==
    Len(w) > 0 =>
        /\ Stats!IsLeast(r.min, Stats!Values(w)) /\ Stats!IsGreatest(r.max, Stats!Values(w))
        /\ r.mean = Stats!Total(w) \div Len(w)
        /\ r.ms = Stats!Total(Stats!Squares(w)) \div Len(w)
        /\ r.variance = r.ms - (Stats!Total(w) * Stats!Total(w)) \div (Len(w) * Len(w))
        /\ r.abs_min <= r.min /\ r.abs_max >= r.max

HistAt == Stats!Total(Bars) = IF test_on THEN taken ELSE 0

Waiting == IF pending /\ l_pc # "clear" THEN Len(snap_window) ELSE 0
AccountAt == shown + overrun + Waiting + Len(window) = taken \/ (~test_on /\ skipped)

StatsInv ==
    /\ StatsShape /\ SetOf(st, window) /\ SetOf(snap, snap_window) /\ SeenAt
    /\ l_pc = "print" => ResultsOf(snap, snap_window)
    /\ ResultsOf(printed, printed.of)
    /\ HistAt /\ AccountAt

LEMMA StatsNumbers ==
    /\ Samples \subseteq 0..MaxInt /\ MaxInt \in Nat /\ MaxSamples \in Nat /\ MaxTests \in Nat
    /\ StatsPeriod \in Nat \ {0} /\ Slots \in Nat \ {0} /\ SlotSize \in Nat \ {0}
    /\ FullSet \in Nat \ {0}
BY ServicesAssumption DEF ServicesAssumption, Stats!StatsAssumption, FullSet

LEMMA Quotient == ASSUME NEW x \in Int, NEW m \in Nat \ {0} PROVE x \div m \in Int
OBVIOUS

LEMMA SquareOf == ASSUME NEW m \in Nat \ {0} PROVE m * m \in Nat \ {0}
OBVIOUS

-----------------------------------------------------------------------------
(* The operators on a set.                                                 *)

LEMMA ResetIs ==
    ASSUME NEW s \in Set
    PROVE  /\ Stats!stats_reset(s) \in Set
           /\ Stats!stats_reset(s).current_count = 0 /\ Stats!stats_reset(s).current_mean = 0
           /\ Stats!stats_reset(s).current_ms = 0
           /\ Stats!stats_reset(s).current_min = MaxInt /\ Stats!stats_reset(s).current_max = -MaxInt
           /\ Stats!stats_reset(s).abs_min = s.abs_min /\ Stats!stats_reset(s).abs_max = s.abs_max
<1> DEFINE t == -MaxInt
           z == 0
<1>1. t \in Int /\ MaxInt \in Int /\ z \in Int
  BY StatsNumbers
<1>2. Stats!stats_reset(s) =
        [s EXCEPT !.current_count = z, !.current_min = MaxInt, !.current_mean = z,
                  !.current_max = t, !.current_ms = z]
  BY DEF Stats!stats_reset
<1>3. t = -MaxInt /\ z = 0
  OBVIOUS
<1> HIDE DEF t, z
<1> DEFINE r == Stats!stats_reset(s)
<1>4. r = [s EXCEPT !.current_count = z, !.current_min = MaxInt, !.current_mean = z,
                    !.current_max = t, !.current_ms = z]
  BY <1>2
<1> HIDE DEF r
<1>5. r \in Set
  BY <1>1, <1>4 DEF Set
<1>6. /\ r.current_count = z /\ r.current_mean = z /\ r.current_ms = z /\ r.current_min = MaxInt
      /\ r.current_max = t /\ r.abs_min = s.abs_min /\ r.abs_max = s.abs_max
  BY <1>4 DEF Set
<1> QED BY <1>3, <1>5, <1>6 DEF r

LEMMA InitIs ==
    ASSUME NEW s \in Set
    PROVE  /\ Stats!stats_init(s) \in Set
           /\ Stats!stats_init(s).current_count = 0 /\ Stats!stats_init(s).current_mean = 0
           /\ Stats!stats_init(s).current_ms = 0
           /\ Stats!stats_init(s).current_min = MaxInt /\ Stats!stats_init(s).current_max = -MaxInt
           /\ Stats!stats_init(s).abs_min = MaxInt /\ Stats!stats_init(s).abs_max = -MaxInt
<1> DEFINE r == [s EXCEPT !.abs_min = MaxInt, !.abs_max = -MaxInt]
           t == -MaxInt
<1>1. r \in Set /\ r.abs_min = MaxInt /\ r.abs_max = t
  <2>1. t \in Int /\ MaxInt \in Int
    BY StatsNumbers
  <2> HIDE DEF t
  <2>2. r = [s EXCEPT !.abs_min = MaxInt, !.abs_max = t]
    BY DEF t
  <2> HIDE DEF r
  <2> QED BY <2>1, <2>2 DEF Set
<1>2. Stats!stats_init(s) = Stats!stats_reset(r)
  BY DEF Stats!stats_init
<1> HIDE DEF r
<1> QED BY <1>1, <1>2, ResetIs

LEMMA ComputedIs ==
    ASSUME NEW s \in Set, NEW m \in Nat \ {0}
    PROVE  /\ Stats!Computed(s, m) \in Set
           /\ Stats!Computed(s, m).current_count = s.current_count
           /\ Stats!Computed(s, m).current_mean = s.current_mean
           /\ Stats!Computed(s, m).current_ms = s.current_ms
           /\ Stats!Computed(s, m).current_min = s.current_min
           /\ Stats!Computed(s, m).current_max = s.current_max
           /\ Stats!Computed(s, m).abs_min = s.abs_min /\ Stats!Computed(s, m).abs_max = s.abs_max
           /\ Stats!Computed(s, m).min = s.current_min /\ Stats!Computed(s, m).max = s.current_max
           /\ Stats!Computed(s, m).mean = s.current_mean \div m
           /\ Stats!Computed(s, m).ms = s.current_ms \div m
           /\ Stats!Computed(s, m).variance =
                  s.current_ms \div m - (s.current_mean * s.current_mean) \div (m * m)
<1> DEFINE a == s.current_ms \div m
           b == s.current_mean \div m
           c == a - (s.current_mean * s.current_mean) \div (m * m)
<1>1. a \in Int /\ b \in Int /\ c \in Int
  <2>1. s.current_ms \in Int /\ s.current_mean \in Int
    BY DEF Set
  <2>2. s.current_mean * s.current_mean \in Int /\ m * m \in Nat \ {0}
    BY <2>1, SquareOf
  <2>3. (s.current_mean * s.current_mean) \div (m * m) \in Int /\ a \in Int /\ b \in Int
    BY <2>1, <2>2, Quotient
  <2> QED BY <2>3
<1>2. Stats!Computed(s, m) =
        [s EXCEPT !.ms = a, !.mean = b, !.variance = c, !.min = s.current_min, !.max = s.current_max]
  BY DEF Stats!Computed
<1>3. c = s.current_ms \div m - (s.current_mean * s.current_mean) \div (m * m)
  OBVIOUS
<1>4. a = s.current_ms \div m /\ b = s.current_mean \div m
  OBVIOUS
<1> HIDE DEF a, b, c
<1> QED BY <1>1, <1>2, <1>3, <1>4, ZenonT(40) DEF Set

LEMMA AddedIs ==
    ASSUME NEW s \in Set, NEW v \in Int
    PROVE  /\ Stats!Added(s, v) \in Set
           /\ Stats!Added(s, v).current_count = s.current_count + 1
           /\ Stats!Added(s, v).current_mean = s.current_mean + v
           /\ Stats!Added(s, v).current_ms = s.current_ms + v * v
           /\ Stats!Added(s, v).current_min = IF v < s.current_min THEN v ELSE s.current_min
           /\ Stats!Added(s, v).current_max = IF v > s.current_max THEN v ELSE s.current_max
           /\ Stats!Added(s, v).abs_min = IF v < s.current_min /\ v < s.abs_min THEN v ELSE s.abs_min
           /\ Stats!Added(s, v).abs_max = IF v > s.current_max /\ v > s.abs_max THEN v ELSE s.abs_max
<1> DEFINE q == v * v
<1>1. q \in Int /\ q = v * v
  OBVIOUS
<1> HIDE DEF q
<1> DEFINE lo == IF v < s.current_min THEN v ELSE s.current_min
           hi == IF v > s.current_max THEN v ELSE s.current_max
           alo == IF v < s.current_min /\ v < s.abs_min THEN v ELSE s.abs_min
           ahi == IF v > s.current_max /\ v > s.abs_max THEN v ELSE s.abs_max
           c == s.current_count + 1
           m == s.current_mean + v
           x == s.current_ms + q
<1>2. {lo, hi, alo, ahi, c, m, x} \subseteq Int
  BY <1>1 DEF Set
<1>3. Stats!Added(s, v) =
        [s EXCEPT !.current_count = c, !.current_mean = m, !.current_ms = x, !.current_min = lo,
                  !.current_max = hi, !.abs_min = alo, !.abs_max = ahi]
  BY <1>1 DEF Stats!Added, Stats!Lesser, Stats!Greater, Set
<1>4. /\ c = s.current_count + 1 /\ m = s.current_mean + v /\ x = s.current_ms + v * v
      /\ lo = IF v < s.current_min THEN v ELSE s.current_min
      /\ hi = IF v > s.current_max THEN v ELSE s.current_max
      /\ alo = IF v < s.current_min /\ v < s.abs_min THEN v ELSE s.abs_min
      /\ ahi = IF v > s.current_max /\ v > s.abs_max THEN v ELSE s.abs_max
  BY <1>1
<1> HIDE DEF lo, hi, alo, ahi, c, m, x
<1>5. Stats!Added(s, v) \in Set
  BY <1>2, <1>3, ZenonT(40) DEF Set
<1>6. /\ Stats!Added(s, v).current_count = c /\ Stats!Added(s, v).current_mean = m
      /\ Stats!Added(s, v).current_ms = x /\ Stats!Added(s, v).current_min = lo
      /\ Stats!Added(s, v).current_max = hi /\ Stats!Added(s, v).abs_min = alo
      /\ Stats!Added(s, v).abs_max = ahi
  BY <1>3 DEF Set
<1> QED BY <1>4, <1>5, <1>6

(* The results are worked out of what the set holds.                       *)
LEMMA ResultsIs ==
    ASSUME NEW s \in Set, NEW w \in Seq(Samples), SetOf(s, w)
    PROVE  /\ Stats!stats_compute(s) \in Set
           /\ SetOf(Stats!stats_compute(s), w) /\ ResultsOf(Stats!stats_compute(s), w)
<1> DEFINE r == Stats!stats_compute(s)
<1>1. s.current_count = Len(w) /\ Len(w) \in Nat
  BY DEF SetOf
<1>2. CASE Len(w) = 0
  <2> DEFINE z == 0
  <2>1. r = [s EXCEPT !.ms = z, !.mean = z, !.variance = z, !.min = s.current_min,
                      !.max = s.current_max]
    BY <1>1, <1>2 DEF Stats!stats_compute
  <2>0. z \in Int
    OBVIOUS
  <2> HIDE DEF r, z
  <2>2. r \in Set
    BY <2>0, <2>1 DEF Set
  <2>3. /\ r.current_count = s.current_count /\ r.current_mean = s.current_mean
        /\ r.current_ms = s.current_ms
    BY <2>1 DEF Set
  <2>4. w = <<>>
    BY <1>2, EmptySeq
  <2>5. SetOf(r, w) /\ ResultsOf(r, w)
    BY <1>2, <2>3, <2>4 DEF SetOf, ResultsOf
  <2> QED BY <2>2, <2>5 DEF r
<1>3. CASE Len(w) # 0
  <2>1. r = Stats!Computed(s, Len(w)) /\ Len(w) \in Nat \ {0}
    BY <1>1, <1>3 DEF Stats!stats_compute
  <2> HIDE DEF r
  <2>2. /\ r \in Set /\ r.current_count = s.current_count /\ r.current_mean = s.current_mean
        /\ r.current_ms = s.current_ms /\ r.current_min = s.current_min
        /\ r.current_max = s.current_max /\ r.abs_min = s.abs_min /\ r.abs_max = s.abs_max
        /\ r.min = s.current_min /\ r.max = s.current_max
        /\ r.mean = s.current_mean \div Len(w) /\ r.ms = s.current_ms \div Len(w)
        /\ r.variance = s.current_ms \div Len(w)
                          - (s.current_mean * s.current_mean) \div (Len(w) * Len(w))
    BY <2>1, ComputedIs
  <2>3. SetOf(r, w)
    BY <2>2 DEF SetOf
  <2>4. w # <<>>
    BY <1>3
  <2>5. /\ s.current_mean = Stats!Total(w) /\ s.current_ms = Stats!Total(Stats!Squares(w))
        /\ Stats!IsLeast(s.current_min, Stats!Values(w))
        /\ Stats!IsGreatest(s.current_max, Stats!Values(w))
        /\ s.abs_min <= s.current_min /\ s.abs_max >= s.current_max
    BY <2>4 DEF SetOf
  <2>6. r.variance = r.ms - (Stats!Total(w) * Stats!Total(w)) \div (Len(w) * Len(w))
    BY <2>2, <2>5
  <2>7. ResultsOf(r, w)
    BY <2>2, <2>5, <2>6 DEF ResultsOf
  <2> QED BY <2>2, <2>3, <2>7 DEF r
<1> QED BY <1>2, <1>3

(* One sample more.                                                        *)
LEMMA SamplesAppend ==
    ASSUME NEW w \in Seq(Samples), NEW v \in Samples
    PROVE  /\ Append(w, v) \in Seq(Samples) /\ Len(Append(w, v)) = Len(w) + 1 /\ Append(w, v) # <<>>
           /\ Stats!Values(Append(w, v)) = Stats!Values(w) \cup {v}
           /\ Stats!Total(Append(w, v)) = Stats!Total(w) + v
           /\ Stats!Total(Stats!Squares(Append(w, v))) = Stats!Total(Stats!Squares(w)) + v * v
<1>1. Samples \subseteq Int
  BY StatsNumbers
<1> DEFINE x == Append(w, v)
<1>2. /\ x \in Seq(Samples) /\ Len(x) = Len(w) + 1 /\ Len(w) \in Nat /\ x[Len(w) + 1] = v
      /\ \A k \in 1..Len(w) : x[k] = w[k] /\ w[k] \in Samples
  OBVIOUS
<1>3. DOMAIN x = 1..(Len(w) + 1) /\ DOMAIN w = 1..Len(w)
  OBVIOUS
<1> HIDE DEF x
<1>4. x # <<>>
  <2>1. Len(x) # 0
    BY <1>2
  <2> QED BY <2>1
<1>5. Stats!Values(x) = Stats!Values(w) \cup {v}
  <2>1. \A k \in 1..(Len(w) + 1) : k = Len(w) + 1 \/ k \in 1..Len(w)
    BY <1>2
  <2>2. \A k \in 1..Len(w) : k \in 1..(Len(w) + 1)
    BY <1>2
  <2>3. Len(w) + 1 \in 1..(Len(w) + 1)
    BY <1>2
  <2>4. Stats!Values(x) = {x[k] : k \in 1..(Len(w) + 1)} /\ Stats!Values(w) = {w[k] : k \in 1..Len(w)}
    BY <1>3 DEF Stats!Values
  <2> QED BY <1>2, <2>1, <2>2, <2>3, <2>4
<1>6. Stats!Total(x) = Stats!Total(w) + v
  <2>1. (\A k \in 1..Len(w) : w[k] \in Int) /\ x[Len(w) + 1] \in Int
    BY <1>1, <1>2
  <2> QED BY <1>2, <2>1, TotalMore
<1>7. Stats!Total(Stats!Squares(x)) = Stats!Total(Stats!Squares(w)) + v * v
  <2> DEFINE a == Stats!Squares(w)
             b == Stats!Squares(x)
  <2>1. a = [k \in 1..Len(w) |-> w[k] * w[k]] /\ b = [k \in 1..(Len(w) + 1) |-> x[k] * x[k]]
    BY <1>3 DEF Stats!Squares
  <2> HIDE DEF a, b
  <2>2. Len(a) = Len(w) /\ Len(b) = Len(w) + 1
    BY <1>2, <2>1
  <2>3. \A k \in 1..Len(w) : a[k] = w[k] * w[k] /\ b[k] = w[k] * w[k] /\ w[k] * w[k] \in Int
    <3> SUFFICES ASSUME NEW k \in 1..Len(w)
                 PROVE  a[k] = w[k] * w[k] /\ b[k] = w[k] * w[k] /\ w[k] * w[k] \in Int
      OBVIOUS
    <3>1. k \in 1..(Len(w) + 1) /\ x[k] = w[k] /\ w[k] \in Int
      <4>1. w[k] \in Samples /\ x[k] = w[k]
        BY <1>2
      <4>2. k \in 1..(Len(w) + 1)
        BY <1>2
      <4> QED BY <1>1, <4>1, <4>2
    <3>2. a[k] = w[k] * w[k] /\ b[k] = x[k] * x[k]
      BY <2>1, <3>1
    <3> QED BY <3>1, <3>2
  <2>4. b[Len(w) + 1] = v * v /\ v * v \in Int
    <3>1. Len(w) + 1 \in 1..(Len(w) + 1) /\ v \in Int
      BY <1>1, <1>2
    <3>2. b[Len(w) + 1] = x[Len(w) + 1] * x[Len(w) + 1]
      BY <2>1, <3>1
    <3> QED BY <1>2, <3>1, <3>2
  <2>5. (\A k \in 1..Len(a) : a[k] \in Int) /\ (\A k \in 1..Len(a) : b[k] = a[k])
    BY <2>2, <2>3
  <2>6. Stats!Total(b) = Stats!Total(a) + b[Len(a) + 1]
    BY <1>2, <2>2, <2>4, <2>5, TotalMore
  <2> QED BY <2>2, <2>4, <2>6 DEF a, b
<1> QED BY <1>2, <1>4, <1>5, <1>6, <1>7 DEF x

LEMMA NoSamples ==
    /\ <<>> \in Seq(Samples) /\ Len(<<>>) = 0 /\ Stats!Values(<<>>) = {}
    /\ Stats!Total(<<>>) = 0 /\ Stats!Total(Stats!Squares(<<>>)) = 0
<1>1. <<>> \in Seq(Samples) /\ Len(<<>>) = 0 /\ DOMAIN <<>> = {}
  OBVIOUS
<1>2. Stats!Squares(<<>>) = <<>>
  BY <1>1 DEF Stats!Squares
<1>3. Stats!Values(<<>>) = {}
  BY <1>1 DEF Stats!Values
<1> QED BY <1>1, <1>2, <1>3, TotalNone

(* A reset set is of no sample.                                            *)
LEMMA ResetSet ==
    ASSUME NEW s \in Set
    PROVE  SetOf(Stats!stats_reset(s), <<>>) /\ SetOf(Stats!stats_init(s), <<>>)
BY ResetIs, InitIs, NoSamples DEF SetOf

LEMMA ValuesAre ==
    ASSUME NEW w \in Seq(Samples)
    PROVE  Stats!Values(w) \subseteq Samples /\ (Stats!Values(w) = {} => w = <<>>)
<1>1. DOMAIN w = 1..Len(w) /\ Len(w) \in Nat /\ \A k \in 1..Len(w) : w[k] \in Samples
  OBVIOUS
<1>2. Stats!Values(w) \subseteq Samples
  BY <1>1 DEF Stats!Values
<1>3. ASSUME w # <<>> PROVE Stats!Values(w) # {}
  <2>1. 1 \in DOMAIN w
    <3>1. Len(w) # 0
      BY <1>1, <1>3, EmptySeq
    <3> QED BY <1>1, <3>1
  <2> QED BY <2>1 DEF Stats!Values
<1> QED BY <1>2, <1>3

(* The extremes with one sample more.                                      *)
LEMMA AddedSet ==
    ASSUME StatsInv, test_on, NEW v \in Samples
    PROVE  /\ Stats!Added(st, v) \in Set /\ SetOf(Stats!Added(st, v), Append(window, v))
           /\ Stats!IsLeast(Stats!Added(st, v).abs_min, seen \cup {v})
           /\ Stats!IsGreatest(Stats!Added(st, v).abs_max, seen \cup {v})
           /\ Stats!Values(Append(window, v)) \subseteq seen \cup {v}
           /\ Stats!Added(st, v).current_count = st.current_count + 1
<1>1. /\ st \in Set /\ window \in Seq(Samples) /\ seen \in SUBSET Samples /\ SetOf(st, window)
      /\ Stats!Values(window) \subseteq seen
      /\ window = <<>> => st.current_min = MaxInt /\ st.current_max = -MaxInt
      /\ seen = {} => st.abs_min = MaxInt /\ st.abs_max = -MaxInt
      /\ seen # {} => Stats!IsLeast(st.abs_min, seen) /\ Stats!IsGreatest(st.abs_max, seen)
  BY DEF StatsInv, StatsShape, SeenAt
<1>2. v \in Int /\ 0 <= v /\ v <= MaxInt /\ MaxInt \in Nat /\ \A x \in seen : x \in 0..MaxInt
  BY <1>1, StatsNumbers
<1> DEFINE a == Stats!Added(st, v)
           V == Stats!Values(window)
           x == Append(window, v)
<1>3. /\ a \in Set /\ a.current_count = st.current_count + 1 /\ a.current_mean = st.current_mean + v
      /\ a.current_ms = st.current_ms + v * v
      /\ a.current_min = (IF v < st.current_min THEN v ELSE st.current_min)
      /\ a.current_max = (IF v > st.current_max THEN v ELSE st.current_max)
      /\ a.abs_min = (IF v < st.current_min /\ v < st.abs_min THEN v ELSE st.abs_min)
      /\ a.abs_max = (IF v > st.current_max /\ v > st.abs_max THEN v ELSE st.abs_max)
  BY <1>1, <1>2, AddedIs
<1>4. /\ x \in Seq(Samples) /\ Len(x) = Len(window) + 1 /\ x # <<>> /\ Stats!Values(x) = V \cup {v}
      /\ Stats!Total(x) = Stats!Total(window) + v
      /\ Stats!Total(Stats!Squares(x)) = Stats!Total(Stats!Squares(window)) + v * v
  BY <1>1, SamplesAppend
<1>5. /\ st.current_min \in Int /\ st.current_max \in Int /\ st.abs_min \in Int /\ st.abs_max \in Int
      /\ V \subseteq seen /\ (V = {} => window = <<>>)
  BY <1>1, ValuesAre DEF Set
<1>6. window = <<>> => V = {}
  BY NoSamples
<1>7. window # <<>> => /\ st.current_min \in V /\ \A y \in V : st.current_min <= y
                       /\ st.current_max \in V /\ \A y \in V : y <= st.current_max
  BY <1>1 DEF SetOf, Stats!IsLeast, Stats!IsGreatest
<1>8. seen # {} => /\ st.abs_min \in seen /\ \A y \in seen : st.abs_min <= y
                   /\ st.abs_max \in seen /\ \A y \in seen : y <= st.abs_max
  BY <1>1 DEF Stats!IsLeast, Stats!IsGreatest
<1>9. /\ st.current_count = Len(window) /\ st.current_mean = Stats!Total(window)
      /\ st.current_ms = Stats!Total(Stats!Squares(window))
  BY <1>1 DEF SetOf
<1> HIDE DEF a, V, x
<1>10. /\ a.current_min \in V \cup {v} /\ \A y \in V \cup {v} : a.current_min <= y
       /\ a.current_max \in V \cup {v} /\ \A y \in V \cup {v} : y <= a.current_max
  <2>1. \A y \in V : y \in Int
    BY <1>2, <1>5
  <2>2. CASE window = <<>>
    <3>1. a.current_min = v /\ a.current_max = v /\ V = {}
      BY <1>1, <1>2, <1>3, <1>6, <2>2
    <3> QED BY <1>2, <3>1
  <2>3. CASE window # <<>>
    BY <1>2, <1>3, <1>5, <1>7, <2>1, <2>3
  <2> QED BY <2>2, <2>3
<1>11. a.abs_min \in seen \cup {v} /\ \A y \in seen \cup {v} : a.abs_min <= y
  <2>1. CASE seen = {}
    <3>1. V = {} /\ window = <<>>
      BY <1>5, <2>1
    <3>2. a.abs_min = v
      BY <1>1, <1>2, <1>3, <2>1, <3>1
    <3> QED BY <1>2, <2>1, <3>2
  <2>2. CASE seen # {} /\ window = <<>>
    BY <1>1, <1>2, <1>3, <1>5, <1>8, <2>2
  <2>3. CASE seen # {} /\ window # <<>>
    <3>1. st.abs_min <= st.current_min
      BY <1>5, <1>7, <1>8, <2>3
    <3> QED BY <1>2, <1>3, <1>5, <1>8, <2>3, <3>1
  <2> QED BY <2>1, <2>2, <2>3
<1>12. a.abs_max \in seen \cup {v} /\ \A y \in seen \cup {v} : y <= a.abs_max
  <2>1. CASE seen = {}
    <3>1. V = {} /\ window = <<>>
      BY <1>5, <2>1
    <3>2. a.abs_max = v
      BY <1>1, <1>2, <1>3, <2>1, <3>1
    <3> QED BY <1>2, <2>1, <3>2
  <2>2. CASE seen # {} /\ window = <<>>
    BY <1>1, <1>2, <1>3, <1>5, <1>8, <2>2
  <2>3. CASE seen # {} /\ window # <<>>
    <3>1. st.current_max <= st.abs_max
      BY <1>5, <1>7, <1>8, <2>3
    <3> QED BY <1>2, <1>3, <1>5, <1>8, <2>3, <3>1
  <2> QED BY <2>1, <2>2, <2>3
<1>13. V \cup {v} \subseteq seen \cup {v}
  BY <1>5
<1>14. SetOf(a, x)
  <2>1. a.abs_min <= a.current_min /\ a.abs_max >= a.current_max
    <3>1. a.current_min \in seen \cup {v} /\ a.current_max \in seen \cup {v}
      BY <1>10, <1>13
    <3>2. a.abs_min <= a.current_min /\ a.current_max <= a.abs_max
      BY <1>11, <1>12, <3>1
    <3> QED BY <1>3, <3>2 DEF Set
  <2>2. Stats!IsLeast(a.current_min, V \cup {v}) /\ Stats!IsGreatest(a.current_max, V \cup {v})
    BY <1>10 DEF Stats!IsLeast, Stats!IsGreatest
  <2>3. /\ a.current_count = Len(x) /\ a.current_mean = Stats!Total(x)
        /\ a.current_ms = Stats!Total(Stats!Squares(x))
    BY <1>3, <1>4, <1>9
  <2> QED BY <1>4, <2>1, <2>2, <2>3 DEF SetOf
<1>15. Stats!IsLeast(a.abs_min, seen \cup {v}) /\ Stats!IsGreatest(a.abs_max, seen \cup {v})
  BY <1>11, <1>12 DEF Stats!IsLeast, Stats!IsGreatest
<1> QED BY <1>3, <1>4, <1>13, <1>14, <1>15 DEF a, x

(* stats_update(): a full set is reset.                                    *)
LEMMA UpdateIs ==
    ASSUME StatsInv, test_on, NEW v \in Samples, NEW s, NEW w,
           s = Stats!stats_update(st, v),
           w = IF Stats!IsFull(Stats!Added(st, v)) THEN <<>> ELSE Append(window, v)
    PROVE  /\ s \in Set /\ w \in Seq(Samples) /\ SetOf(s, w) /\ Stats!Values(w) \subseteq seen \cup {v}
           /\ w = <<>> => s.current_min = MaxInt /\ s.current_max = -MaxInt
           /\ Stats!IsLeast(s.abs_min, seen \cup {v}) /\ Stats!IsGreatest(s.abs_max, seen \cup {v})
           /\ s.current_count \in 0..(FullSet - 1)
           /\ Stats!IsFull(Stats!Added(st, v)) => Len(w) = 0 /\ Len(window) + 1 = FullSet
           /\ ~Stats!IsFull(Stats!Added(st, v)) => Len(w) = Len(window) + 1
<1> DEFINE full == Stats!IsFull(Stats!Added(st, v))
           a == Stats!Added(st, v)
           x == Append(window, v)
<1>1. /\ a \in Set /\ SetOf(a, x) /\ Stats!Values(x) \subseteq seen \cup {v}
      /\ Stats!IsLeast(a.abs_min, seen \cup {v}) /\ Stats!IsGreatest(a.abs_max, seen \cup {v})
      /\ a.current_count = st.current_count + 1
  BY AddedSet
<1>2. /\ st.current_count \in 0..(FullSet - 1) /\ st.current_count = Len(window)
      /\ window \in Seq(Samples) /\ FullSet \in Nat \ {0}
  BY StatsNumbers DEF StatsInv, StatsShape, Stats!TypeOK, SetOf, FullSet
<1>3. x \in Seq(Samples) /\ x # <<>> /\ Len(x) = Len(window) + 1
  BY <1>2, SamplesAppend
<1>4. full <=> a.current_count = FullSet
  BY DEF Stats!IsFull, FullSet
<1>5. CASE full
  <2> DEFINE c == Stats!Computed(a, FullSet)
  <2>1. s = Stats!stats_reset(c)
    BY <1>5 DEF Stats!stats_update, FullSet
  <2> HIDE DEF a
  <2>2. c \in Set /\ c.abs_min = a.abs_min /\ c.abs_max = a.abs_max
    BY <1>1, <1>2, ComputedIs
  <2> HIDE DEF c
  <2>3. /\ s \in Set /\ s.current_count = 0 /\ s.current_min = MaxInt /\ s.current_max = -MaxInt
        /\ s.abs_min = a.abs_min /\ s.abs_max = a.abs_max
    BY <2>1, <2>2, ResetIs
  <2>4. SetOf(s, <<>>)
    BY <2>1, <2>2, ResetSet
  <2>5. w = <<>>
    BY <1>5
  <2>6. Len(window) + 1 = FullSet
    BY <1>1, <1>2, <1>4, <1>5
  <2>7. s.current_count \in 0..(FullSet - 1)
    BY <1>2, <2>3
  <2> QED BY <1>1, <1>5, <2>2, <2>3, <2>4, <2>5, <2>6, <2>7, NoSamples
<1>6. CASE ~full
  <2>1. s = a /\ w = x
    BY <1>6 DEF Stats!stats_update
  <2>2. a.current_count \in 0..(FullSet - 1)
    BY <1>1, <1>2, <1>4, <1>6
  <2> HIDE DEF a, x
  <2> QED BY <1>1, <1>3, <1>6, <2>1, <2>2
<1> QED BY <1>5, <1>6

-----------------------------------------------------------------------------
(* The steps.                                                              *)

(* A sample more in its slot.                                              *)
LEMMA SlotMore ==
    ASSUME hist \in [0..Slots -> Int], NEW v \in Samples,
           hist' = [hist EXCEPT ![Stats!SlotOf(v)] = @ + 1]
    PROVE  hist' \in [0..Slots -> Int] /\ Stats!Total(Bars') = Stats!Total(Bars) + 1
<1> DEFINE j == Stats!SlotOf(v)
<1>1. j \in 0..Slots /\ Slots \in Nat
  <2>1. v \in Nat /\ SlotSize \in Nat \ {0} /\ Slots \in Nat
    BY StatsNumbers
  <2>2. v \div SlotSize \in Nat
    BY <2>1
  <2> QED BY <2>1, <2>2 DEF Stats!SlotOf, Stats!Lesser
<1> HIDE DEF j
<1>2. hist' = [hist EXCEPT ![j] = hist[j] + 1]
  BY DEF j
<1>3. hist' \in [0..Slots -> Int]
  BY <1>1, <1>2
<1>4. \A k \in 0..Slots : hist'[k] = IF k = j THEN hist[k] + 1 ELSE hist[k]
  BY <1>2
<1> DEFINE w == Bars
           x == Bars'
<1>5. w = [k \in 1..(Slots + 1) |-> hist[k - 1]] /\ x = [k \in 1..(Slots + 1) |-> hist'[k - 1]]
  BY DEF Bars
<1> HIDE DEF w, x
<1>6. Len(w) = Slots + 1 /\ Len(x) = Slots + 1
  BY <1>1, <1>5
<1>7. \A k \in 1..(Slots + 1) : k - 1 \in 0..Slots
  BY <1>1
<1>8. \A k \in 1..Len(w) : w[k] \in Int
  BY <1>5, <1>6, <1>7
<1>9. j + 1 \in 1..Len(w) /\ x[j + 1] = w[j + 1] + 1
  <2>1. j + 1 \in 1..(Slots + 1) /\ (j + 1) - 1 = j
    BY <1>1
  <2>2. w[j + 1] = hist[j] /\ x[j + 1] = hist'[j]
    BY <1>5, <2>1
  <2> QED BY <1>1, <1>4, <1>6, <2>1, <2>2
<1>10. \A k \in 1..Len(w) : k # j + 1 => x[k] = w[k]
  <2> SUFFICES ASSUME NEW k \in 1..(Slots + 1), k # j + 1 PROVE x[k] = w[k]
    BY <1>6
  <2>1. k - 1 \in 0..Slots /\ k - 1 # j
    BY <1>1
  <2>2. hist'[k - 1] = hist[k - 1]
    BY <1>4, <2>1
  <2>3. w[k] = hist[k - 1] /\ x[k] = hist'[k - 1]
    BY <1>5
  <2> QED BY <2>2, <2>3
<1>11. Stats!Total(x) = Stats!Total(w) + 1
  <2>1. Len(w) \in Nat /\ Len(x) = Len(w)
    BY <1>1, <1>6
  <2> DEFINE m == j + 1
  <2>2. m \in 1..Len(w) /\ x[m] = w[m] + 1 /\ \A k \in 1..Len(w) : k # m => x[k] = w[k]
    BY <1>9, <1>10
  <2> HIDE DEF m
  <2> QED BY <1>8, <2>1, <2>2, TotalOneMore
<1> QED BY <1>3, <1>11 DEF w, x

LEMMA MeasureKeeps ==
    ASSUME StatsInv, NEW v \in Samples, Stats!Measure(v)
    PROVE  StatsInv'
<1> DEFINE full == Stats!IsFull(Stats!Added(st, v))
           s == Stats!stats_update(st, v)
           w == IF full THEN <<>> ELSE Append(window, v)
<1>1. /\ test_on /\ taken < MaxSamples /\ taken' = taken + 1
      /\ hist' = [hist EXCEPT ![Stats!SlotOf(v)] = @ + 1]
      /\ stats_cnt' = (stats_cnt + 1) % StatsPeriod /\ seen' = seen \cup {v}
      /\ overrun' = IF full THEN overrun + FullSet ELSE overrun
      /\ UNCHANGED <<tests, test_on, l_pc, printed, shown, skipped>>
      /\ \/ /\ st' = s /\ window' = w /\ UNCHANGED <<snap, snap_window, pending>>
         \/ /\ ~pending /\ snap' = s /\ snap_window' = w /\ pending' = TRUE
            /\ st' = Stats!stats_reset(s) /\ window' = <<>>
  BY DEF Stats!Measure, Stats!Dumped, FullSet
<1>0. /\ s = Stats!stats_update(st, v) /\ full = Stats!IsFull(Stats!Added(st, v))
      /\ w = IF full THEN <<>> ELSE Append(window, v)
  OBVIOUS
<1>14. full \in BOOLEAN
  BY DEF Stats!IsFull
<1> HIDE DEF full, s, w
<1>2. /\ s \in Set /\ w \in Seq(Samples) /\ SetOf(s, w) /\ Stats!Values(w) \subseteq seen \cup {v}
      /\ w = <<>> => s.current_min = MaxInt /\ s.current_max = -MaxInt
      /\ Stats!IsLeast(s.abs_min, seen \cup {v}) /\ Stats!IsGreatest(s.abs_max, seen \cup {v})
      /\ s.current_count \in 0..(FullSet - 1)
      /\ full => Len(w) = 0 /\ Len(window) + 1 = FullSet
      /\ ~full => Len(w) = Len(window) + 1
  <2>1. test_on /\ w = IF Stats!IsFull(Stats!Added(st, v)) THEN <<>> ELSE Append(window, v)
    BY <1>1 DEF w, full
  <2>2. /\ s \in Set /\ w \in Seq(Samples) /\ SetOf(s, w) /\ Stats!Values(w) \subseteq seen \cup {v}
        /\ w = <<>> => s.current_min = MaxInt /\ s.current_max = -MaxInt
        /\ Stats!IsLeast(s.abs_min, seen \cup {v}) /\ Stats!IsGreatest(s.abs_max, seen \cup {v})
        /\ s.current_count \in 0..(FullSet - 1)
        /\ Stats!IsFull(Stats!Added(st, v)) => Len(w) = 0 /\ Len(window) + 1 = FullSet
        /\ ~Stats!IsFull(Stats!Added(st, v)) => Len(w) = Len(window) + 1
    BY <1>0, <2>1, UpdateIs
  <2> QED BY <2>2 DEF full
<1>3. /\ StatsShape /\ SetOf(st, window) /\ SetOf(snap, snap_window)
      /\ (l_pc = "print" => ResultsOf(snap, snap_window))
      /\ ResultsOf(printed, printed.of) /\ HistAt /\ AccountAt
  BY DEF StatsInv
<1>4. /\ taken \in 0..MaxSamples /\ tests \in 0..MaxTests /\ stats_cnt \in 0..(StatsPeriod - 1)
      /\ l_pc \in {"delay", "print", "clear"} /\ (l_pc # "delay" => pending)
      /\ pending \in BOOLEAN /\ skipped \in BOOLEAN /\ snap \in Set /\ hist \in [0..Slots -> Int]
      /\ window \in Seq(Samples) /\ snap_window \in Seq(Samples) /\ seen \in SUBSET Samples
      /\ shown \in Int /\ overrun \in Int
  BY <1>3 DEF StatsShape, Stats!TypeOK
<1>5. StatsPeriod \in Nat \ {0} /\ MaxSamples \in Nat /\ FullSet \in Nat \ {0}
  BY StatsNumbers
<1>6. hist' \in [0..Slots -> Int] /\ Stats!Total(Bars') = Stats!Total(Bars) + 1
  BY <1>1, <1>4, SlotMore
<1>7. HistAt'
  <2>1. Stats!Total(Bars) = taken
    BY <1>1, <1>3 DEF HistAt
  <2>2. test_on' /\ Stats!Total(Bars') = taken'
    BY <1>1, <1>6, <2>1
  <2> QED BY <2>2 DEF HistAt, Stats!Total
<1>8. shown + overrun + Waiting + Len(window) = taken
  BY <1>1, <1>3 DEF AccountAt
<1>9. overrun' + Len(w) = overrun + Len(window) + 1 /\ overrun' \in Int
  <2>1. Len(window) \in Nat /\ Len(w) \in Nat
    BY <1>2, <1>4
  <2>2. CASE full
    BY <1>1, <1>2, <1>4, <1>5, <2>1, <2>2
  <2>3. CASE ~full
    <3>1. overrun' = overrun /\ Len(w) = Len(window) + 1
      BY <1>1, <1>2, <2>3
    <3> QED BY <1>4, <2>1, <3>1
  <2> QED BY <2>2, <2>3
<1>10. stats_cnt' \in 0..(StatsPeriod - 1) /\ taken' \in 0..MaxSamples
  BY <1>1, <1>4, <1>5
<1>11. /\ ResultsOf(printed, printed.of)' /\ seen' \in SUBSET Samples /\ seen' # {}
  BY <1>1, <1>3, <1>4 DEF ResultsOf, Stats!IsLeast, Stats!IsGreatest, Stats!Total, Stats!Values,
      Stats!Squares
<1>12. CASE st' = s /\ window' = w /\ UNCHANGED <<snap, snap_window, pending>>
  <2>1. StatsShape'
    BY <1>1, <1>2, <1>4, <1>6, <1>9, <1>10, <1>11, <1>12 DEF StatsShape, Stats!TypeOK, FullSet
  <2>2. SetOf(st, window)'
    BY <1>2, <1>12 DEF SetOf, Stats!IsLeast, Stats!IsGreatest, Stats!Total, Stats!Values, Stats!Squares
  <2>3. SetOf(snap, snap_window)'
    BY <1>3, <1>12 DEF SetOf, Stats!IsLeast, Stats!IsGreatest, Stats!Total, Stats!Values, Stats!Squares
  <2>4. SeenAt'
    BY <1>1, <1>2, <1>11, <1>12 DEF SeenAt, Stats!IsLeast, Stats!IsGreatest, Stats!Values
  <2>5. (l_pc = "print" => ResultsOf(snap, snap_window))'
    BY <1>1, <1>3, <1>12 DEF ResultsOf, Stats!IsLeast, Stats!IsGreatest, Stats!Total, Stats!Values,
        Stats!Squares
  <2>6. AccountAt'
    <3>1. Waiting' = Waiting /\ Waiting \in Int
      BY <1>1, <1>4, <1>12 DEF Waiting
    <3>2. Len(window) \in Nat /\ Len(w) \in Nat
      BY <1>2, <1>4
    <3>3. shown' = shown /\ taken' = taken + 1 /\ window' = w /\ shown \in Int /\ overrun \in Int
      BY <1>1, <1>4, <1>12
    <3>4. shown + overrun' + Waiting + Len(w) = taken + 1
      BY <1>8, <1>9, <3>1, <3>2, <3>3
    <3>5. shown' + overrun' + Waiting' + Len(window') = taken'
      BY <3>1, <3>3, <3>4
    <3> QED BY <3>5 DEF AccountAt, Waiting
  <2> QED BY <1>7, <1>11, <2>1, <2>2, <2>3, <2>4, <2>5, <2>6 DEF StatsInv
<1>13. CASE /\ ~pending /\ snap' = s /\ snap_window' = w /\ pending' = TRUE
            /\ st' = Stats!stats_reset(s) /\ window' = <<>>
  <2>1. /\ st' \in Set /\ SetOf(st', <<>>) /\ st'.current_count = 0 /\ st'.current_min = MaxInt
        /\ st'.current_max = -MaxInt /\ st'.abs_min = s.abs_min /\ st'.abs_max = s.abs_max
    BY <1>2, <1>13, ResetIs, ResetSet
  <2>2. StatsShape'
    <3>1. st'.current_count \in 0..(FullSet - 1) /\ <<>> \in Seq(Samples)
      BY <1>5, <2>1, NoSamples
    <3> QED BY <1>1, <1>2, <1>4, <1>6, <1>9, <1>10, <1>11, <1>13, <2>1, <3>1
            DEF StatsShape, Stats!TypeOK, FullSet
  <2>3. SetOf(st, window)'
    BY <1>13, <2>1 DEF SetOf, Stats!IsLeast, Stats!IsGreatest, Stats!Total, Stats!Values, Stats!Squares
  <2>4. SetOf(snap, snap_window)'
    BY <1>2, <1>13 DEF SetOf, Stats!IsLeast, Stats!IsGreatest, Stats!Total, Stats!Values, Stats!Squares
  <2>5. SeenAt'
    <3>1. Stats!Values(window') = {}
      BY <1>13, NoSamples
    <3> QED BY <1>1, <1>2, <1>11, <2>1, <3>1 DEF SeenAt, Stats!IsLeast, Stats!IsGreatest, Stats!Values
  <2>6. l_pc' = "delay"
    BY <1>1, <1>4, <1>13
  <2>7. AccountAt'
    <3>1. Waiting = 0 /\ Waiting' = Len(w) /\ Len(window') = 0
      BY <1>13, <2>6, NoSamples DEF Waiting
    <3>2. Len(window) \in Nat /\ Len(w) \in Nat
      BY <1>2, <1>4
    <3>3. shown' = shown /\ taken' = taken + 1 /\ shown \in Int /\ overrun \in Int
      BY <1>1, <1>4, <1>13
    <3>4. shown + overrun' + Len(w) + 0 = taken + 1
      BY <1>8, <1>9, <3>1, <3>2, <3>3
    <3>5. shown' + overrun' + Waiting' + Len(window') = taken'
      BY <3>1, <3>3, <3>4
    <3> QED BY <3>5 DEF AccountAt, Waiting
  <2> QED BY <1>7, <1>11, <2>2, <2>3, <2>4, <2>5, <2>6, <2>7 DEF StatsInv
<1> QED BY <1>1, <1>12, <1>13

(* The histogram is as it was.                                             *)
LEMMA HistKept ==
    ASSUME HistAt, hist' = hist, (IF test_on' THEN taken' ELSE 0) = IF test_on THEN taken ELSE 0
    PROVE  HistAt'
<1>1. Bars' = Bars
  BY DEF Bars
<1>2. Stats!Total(Bars) = IF test_on THEN taken ELSE 0
  BY DEF HistAt
<1>3. Stats!Total(Bars') = IF test_on' THEN taken' ELSE 0
  BY <1>1, <1>2
<1> QED BY <1>3 DEF HistAt, Stats!Total

(* print_stats() computes, ...                                             *)
LEMMA PrintComputeKeeps ==
    ASSUME StatsInv, Stats!PrintCompute
    PROVE  StatsInv'
<1>1. /\ test_on /\ l_pc = "delay" /\ pending /\ l_pc' = "print" /\ snap' = Stats!stats_compute(snap)
      /\ UNCHANGED <<tests, taken, test_on, st, hist, pending, stats_cnt, window, snap_window, seen,
                     printed, shown, overrun, skipped>>
  BY DEF Stats!PrintCompute, Stats!history
<1>2. snap \in Set /\ snap_window \in Seq(Samples) /\ SetOf(snap, snap_window)
  BY DEF StatsInv, StatsShape
<1>3. snap' \in Set /\ SetOf(snap', snap_window) /\ ResultsOf(snap', snap_window)
  BY <1>1, <1>2, ResultsIs
<1>4. StatsShape'
  BY <1>1, <1>3 DEF StatsInv, StatsShape, Stats!TypeOK
<1>5. SetOf(snap, snap_window)' /\ ResultsOf(snap, snap_window)'
  BY <1>1, <1>3 DEF SetOf, ResultsOf, Stats!IsLeast, Stats!IsGreatest, Stats!Total, Stats!Values,
      Stats!Squares
<1>6. SetOf(st, window)' /\ ResultsOf(printed, printed.of)'
  BY <1>1 DEF StatsInv, SetOf, ResultsOf, Stats!IsLeast, Stats!IsGreatest, Stats!Total, Stats!Values,
      Stats!Squares
<1>7. SeenAt'
  BY <1>1 DEF StatsInv, SeenAt, Stats!IsLeast, Stats!IsGreatest, Stats!Values
<1>8. HistAt'
  BY <1>1, HistKept DEF StatsInv
<1>9. AccountAt'
  <2>1. Waiting' = Waiting
    BY <1>1 DEF Waiting
  <2> QED BY <1>1, <2>1 DEF StatsInv, AccountAt
<1> QED BY <1>4, <1>5, <1>6, <1>7, <1>8, <1>9 DEF StatsInv

(* ... reports ...                                                         *)
LEMMA PrintReportKeeps ==
    ASSUME StatsInv, Stats!PrintReport
    PROVE  StatsInv'
<1>1. /\ l_pc = "print" /\ l_pc' = "clear" /\ printed' = Stats!Report(snap, snap_window)
      /\ shown' = shown + Len(snap_window)
      /\ UNCHANGED <<tests, taken, test_on, st, snap, hist, pending, stats_cnt, window, snap_window, seen,
                     overrun, skipped>>
  BY DEF Stats!PrintReport
<1>2. /\ ResultsOf(snap, snap_window) /\ snap_window \in Seq(Samples) /\ window \in Seq(Samples)
      /\ pending /\ shown \in Int /\ overrun \in Int /\ AccountAt /\ taken \in Int
      /\ test_on \in BOOLEAN /\ skipped \in BOOLEAN
  <2>1. 0..MaxSamples \subseteq Int
    BY StatsNumbers
  <2> QED BY <1>1, <2>1 DEF StatsInv, StatsShape, Stats!TypeOK
<1>3. /\ printed'.of = snap_window /\ printed'.min = snap.min /\ printed'.max = snap.max
      /\ printed'.mean = snap.mean /\ printed'.ms = snap.ms /\ printed'.variance = snap.variance
      /\ printed'.abs_min = snap.abs_min /\ printed'.abs_max = snap.abs_max
  BY <1>1 DEF Stats!Report
<1>4. ResultsOf(printed, printed.of)'
  BY <1>2, <1>3 DEF ResultsOf, Stats!IsLeast, Stats!IsGreatest, Stats!Total, Stats!Values, Stats!Squares
<1>5. StatsShape'
  <2>1. shown' \in Int
    BY <1>1, <1>2
  <2> QED BY <1>1, <2>1 DEF StatsInv, StatsShape, Stats!TypeOK
<1>6. SetOf(st, window)' /\ SetOf(snap, snap_window)'
  BY <1>1 DEF StatsInv, SetOf, Stats!IsLeast, Stats!IsGreatest, Stats!Total, Stats!Values, Stats!Squares
<1>7. SeenAt'
  BY <1>1 DEF StatsInv, SeenAt, Stats!IsLeast, Stats!IsGreatest, Stats!Values
<1>8. HistAt'
  BY <1>1, HistKept DEF StatsInv
<1>9. AccountAt'
  <2>1. Waiting = Len(snap_window) /\ Waiting' = 0
    BY <1>1, <1>2 DEF Waiting
  <2>2. Len(snap_window) \in Nat /\ Len(window) \in Nat
    BY <1>2
  <2>3. CASE ~test_on /\ skipped
    BY <1>1, <2>3 DEF AccountAt
  <2>4. CASE shown + overrun + Waiting + Len(window) = taken
    <3>1. (shown + Len(snap_window)) + overrun + 0 + Len(window) = taken
      BY <1>2, <2>1, <2>2, <2>4
    <3>2. shown' + overrun' + Waiting' + Len(window') = taken'
      BY <1>1, <2>1, <3>1
    <3> QED BY <3>2 DEF AccountAt
  <2> QED BY <1>2, <2>3, <2>4 DEF AccountAt
<1> QED BY <1>1, <1>4, <1>5, <1>6, <1>7, <1>8, <1>9 DEF StatsInv

(* ... and gives the snapshot back.                                        *)
LEMMA ClearKeeps ==
    ASSUME StatsInv, Stats!Clear
    PROVE  StatsInv'
<1>1. /\ l_pc = "clear" /\ l_pc' = "delay" /\ pending' = FALSE
      /\ UNCHANGED <<tests, taken, test_on, st, snap, hist, stats_cnt, window, snap_window, seen,
                     printed, shown, overrun, skipped>>
  BY DEF Stats!Clear, Stats!history
<1>2. StatsShape'
  BY <1>1 DEF StatsInv, StatsShape, Stats!TypeOK
<1>3. SetOf(st, window)' /\ SetOf(snap, snap_window)' /\ ResultsOf(printed, printed.of)'
  BY <1>1 DEF StatsInv, SetOf, ResultsOf, Stats!IsLeast, Stats!IsGreatest, Stats!Total, Stats!Values,
      Stats!Squares
<1>4. SeenAt'
  BY <1>1 DEF StatsInv, SeenAt, Stats!IsLeast, Stats!IsGreatest, Stats!Values
<1>5. HistAt'
  BY <1>1, HistKept DEF StatsInv
<1>6. AccountAt'
  <2>1. Waiting' = Waiting
    BY <1>1 DEF Waiting
  <2> QED BY <1>1, <2>1 DEF StatsInv, AccountAt
<1> QED BY <1>1, <1>2, <1>3, <1>4, <1>5, <1>6 DEF StatsInv

LEMMA NoBars ==
    ASSUME hist' = Stats!NoSlots
    PROVE  hist' \in [0..Slots -> Int] /\ Stats!Total(Bars') = 0
<1>1. Slots \in Nat
  BY StatsNumbers
<1> DEFINE w == Bars'
<1>2. w = [k \in 1..(Slots + 1) |-> hist'[k - 1]]
  BY DEF Bars
<1>3. \A k \in 1..(Slots + 1) : hist'[k - 1] = 0
  BY <1>1 DEF Stats!NoSlots
<1> HIDE DEF w
<1>4. Len(w) = Slots + 1 /\ Len(w) \in Nat /\ \A k \in 1..Len(w) : w[k] = 0
  BY <1>1, <1>2, <1>3
<1>5. Stats!Total(w) = 0
  BY <1>4, TotalZero
<1> QED BY <1>5 DEF w, Stats!NoSlots

(* The test ends: the snapshot is printed, or else what the set holds.     *)
LEMMA DestroyKeeps ==
    ASSUME StatsInv, Stats!Destroy
    PROVE  StatsInv'
<1> DEFINE s == IF pending THEN snap ELSE st
           w == IF pending THEN snap_window ELSE window
           r == Stats!stats_compute(s)
<1>1. /\ test_on /\ l_pc = "delay" /\ test_on' = FALSE
      /\ snap' = r /\ snap_window' = w /\ printed' = Stats!Report(r, w) /\ shown' = shown + Len(w)
      /\ pending' = FALSE /\ st' = Stats!stats_reset(st) /\ window' = <<>> /\ hist' = Stats!NoSlots
      /\ skipped' = pending
      /\ UNCHANGED <<tests, taken, stats_cnt, l_pc, seen, overrun>>
  BY DEF Stats!Destroy
<1>2. /\ st \in Set /\ snap \in Set /\ window \in Seq(Samples) /\ snap_window \in Seq(Samples)
      /\ SetOf(st, window) /\ SetOf(snap, snap_window) /\ pending \in BOOLEAN
      /\ shown \in Int /\ overrun \in Int /\ taken \in 0..MaxSamples
  BY DEF StatsInv, StatsShape, Stats!TypeOK
<1>3. s \in Set /\ w \in Seq(Samples) /\ SetOf(s, w)
  BY <1>2
<1>4. w = IF pending THEN snap_window ELSE window
  OBVIOUS
<1> HIDE DEF s, w
<1>5. r \in Set /\ SetOf(r, w) /\ ResultsOf(r, w)
  BY <1>3, ResultsIs
<1> HIDE DEF r
<1>6. st' \in Set /\ SetOf(st', <<>>) /\ st'.current_count = 0
  BY <1>1, <1>2, ResetIs, ResetSet
<1>7. hist' \in [0..Slots -> Int] /\ Stats!Total(Bars') = 0
  BY <1>1, NoBars
<1>8. StatsShape'
  <2>1. st'.current_count \in 0..(FullSet - 1) /\ <<>> \in Seq(Samples)
    BY <1>6, StatsNumbers, NoSamples
  <2>2. shown' \in Int
    BY <1>1, <1>2, <1>3
  <2> QED BY <1>1, <1>2, <1>3, <1>5, <1>6, <1>7, <2>1, <2>2
          DEF StatsInv, StatsShape, Stats!TypeOK, FullSet
<1>9. SetOf(st, window)'
  BY <1>1, <1>6 DEF SetOf, Stats!IsLeast, Stats!IsGreatest, Stats!Total, Stats!Values, Stats!Squares
<1>10. SetOf(snap, snap_window)'
  BY <1>1, <1>5 DEF SetOf, Stats!IsLeast, Stats!IsGreatest, Stats!Total, Stats!Values, Stats!Squares
<1>11. SeenAt'
  BY <1>1 DEF SeenAt
<1>12. ResultsOf(printed, printed.of)'
  <2>1. /\ printed'.of = w /\ printed'.min = r.min /\ printed'.max = r.max
        /\ printed'.mean = r.mean /\ printed'.ms = r.ms /\ printed'.variance = r.variance
        /\ printed'.abs_min = r.abs_min /\ printed'.abs_max = r.abs_max
    BY <1>1 DEF Stats!Report
  <2> QED BY <1>5, <2>1 DEF ResultsOf, Stats!IsLeast, Stats!IsGreatest, Stats!Total, Stats!Values,
                  Stats!Squares
<1>13. HistAt'
  BY <1>1, <1>7 DEF HistAt, Stats!Total
<1>14. AccountAt'
  <2>1. CASE pending
    BY <1>1, <2>1 DEF AccountAt
  <2>2. CASE ~pending
    <3>1. Waiting = 0 /\ Waiting' = 0 /\ w = window /\ Len(window') = 0 /\ Len(window) \in Nat
      BY <1>1, <1>2, <1>4, <2>2, NoSamples DEF Waiting
    <3>2. shown + overrun + Waiting + Len(window) = taken
      BY <1>1 DEF StatsInv, AccountAt
    <3>3. (shown + Len(window)) + overrun + 0 + 0 = taken
      BY <1>2, <3>1, <3>2
    <3>4. shown' + overrun' + Waiting' + Len(window') = taken'
      BY <1>1, <3>1, <3>3
    <3> QED BY <3>4 DEF AccountAt
  <2> QED BY <1>2, <2>1, <2>2
<1> QED BY <1>1, <1>8, <1>9, <1>10, <1>11, <1>12, <1>13, <1>14 DEF StatsInv

(* A test begins.                                                          *)
LEMMA RestartKeeps ==
    ASSUME StatsInv, Stats!Restart
    PROVE  StatsInv'
<1>1. /\ ~test_on /\ tests > 0 /\ tests' = tests - 1 /\ test_on' = TRUE
      /\ st' = Stats!stats_init(st) /\ pending' = FALSE
      /\ taken' = 0 /\ seen' = {} /\ window' = <<>> /\ shown' = 0 /\ overrun' = 0
      /\ UNCHANGED <<snap, hist, stats_cnt, l_pc, snap_window, printed, skipped>>
  BY DEF Stats!Restart
<1>2. st \in Set /\ l_pc = "delay" /\ ~pending /\ tests \in 0..MaxTests
  BY <1>1 DEF StatsInv, StatsShape, Stats!TypeOK
<1>3. /\ st' \in Set /\ SetOf(st', <<>>) /\ st'.current_count = 0 /\ st'.current_min = MaxInt
      /\ st'.current_max = -MaxInt /\ st'.abs_min = MaxInt /\ st'.abs_max = -MaxInt
  BY <1>1, <1>2, InitIs, ResetSet
<1>4. StatsShape'
  <2>1. st'.current_count \in 0..(FullSet - 1) /\ tests' \in 0..MaxTests /\ taken' \in 0..MaxSamples
    BY <1>1, <1>2, <1>3, StatsNumbers
  <2>2. <<>> \in Seq(Samples) /\ {} \in SUBSET Samples /\ 0 \in Int
    BY NoSamples
  <2> QED BY <1>1, <1>2, <1>3, <2>1, <2>2 DEF StatsInv, StatsShape, Stats!TypeOK, FullSet
<1>5. SetOf(st, window)'
  BY <1>1, <1>3 DEF SetOf, Stats!IsLeast, Stats!IsGreatest, Stats!Total, Stats!Values, Stats!Squares
<1>6. SetOf(snap, snap_window)' /\ ResultsOf(printed, printed.of)'
  BY <1>1 DEF StatsInv, SetOf, ResultsOf, Stats!IsLeast, Stats!IsGreatest, Stats!Total, Stats!Values,
      Stats!Squares
<1>7. SeenAt'
  <2>1. Stats!Values(window') = {}
    BY <1>1, NoSamples
  <2> QED BY <1>1, <1>3, <2>1 DEF SeenAt, Stats!Values
<1>8. HistAt'
  BY <1>1, HistKept DEF StatsInv
<1>9. AccountAt'
  <2>1. Waiting' = 0 /\ Len(window') = 0
    BY <1>1, NoSamples DEF Waiting
  <2> QED BY <1>1, <2>1 DEF AccountAt
<1> QED BY <1>1, <1>2, <1>4, <1>5, <1>6, <1>7, <1>8, <1>9 DEF StatsInv

LEMMA StatsInductive ==
    ASSUME StatsInv, [Stats!Next]_statsVars
    PROVE  StatsInv'
<1>1. CASE Stats!Next
  BY <1>1, MeasureKeeps, PrintComputeKeeps, PrintReportKeeps, ClearKeeps, DestroyKeeps, RestartKeeps
     DEF Stats!Next
<1>2. CASE UNCHANGED statsVars
  <2> USE <1>2 DEF statsVars
  <2>1. StatsShape'
    BY DEF StatsInv, StatsShape, Stats!TypeOK
  <2>2. SetOf(st, window)' /\ SetOf(snap, snap_window)' /\ ResultsOf(printed, printed.of)'
    BY DEF StatsInv, SetOf, ResultsOf, Stats!IsLeast, Stats!IsGreatest, Stats!Total, Stats!Values,
        Stats!Squares
  <2>3. (l_pc = "print" => ResultsOf(snap, snap_window))'
    BY DEF StatsInv, ResultsOf, Stats!IsLeast, Stats!IsGreatest, Stats!Total, Stats!Values,
        Stats!Squares
  <2>4. SeenAt'
    BY DEF StatsInv, SeenAt, Stats!IsLeast, Stats!IsGreatest, Stats!Values
  <2>5. HistAt'
    BY HistKept DEF StatsInv
  <2>6. AccountAt'
    BY DEF StatsInv, AccountAt, Waiting
  <2> QED BY <2>1, <2>2, <2>3, <2>4, <2>5, <2>6 DEF StatsInv
<1> QED BY <1>1, <1>2

LEMMA StatsInitially == ASSUME Stats!Init PROVE StatsInv
<1>1. /\ tests = MaxTests /\ taken = 0 /\ test_on = FALSE
      /\ st = Stats!NoStats /\ snap = Stats!NoStats /\ hist = Stats!NoSlots /\ pending = FALSE
      /\ stats_cnt = 0 /\ l_pc = "delay" /\ window = <<>> /\ snap_window = <<>> /\ seen = {}
      /\ printed = Stats!Report(Stats!NoStats, <<>>) /\ shown = 0 /\ overrun = 0 /\ skipped = FALSE
  BY DEF Stats!Init
<1>2. Stats!NoStats \in Set /\ SetOf(Stats!NoStats, <<>>) /\ Stats!NoStats.current_count = 0
  BY NoSamples DEF Stats!NoStats, Set, SetOf
<1>3. hist \in [0..Slots -> Int] /\ Stats!Total(Bars) = 0
  <2>1. Slots \in Nat
    BY StatsNumbers
  <2> DEFINE w == Bars
  <2>2. w = [k \in 1..(Slots + 1) |-> hist[k - 1]]
    BY DEF Bars
  <2>3. \A k \in 1..(Slots + 1) : hist[k - 1] = 0
    BY <1>1, <2>1 DEF Stats!NoSlots
  <2> HIDE DEF w
  <2>4. Len(w) = Slots + 1 /\ Len(w) \in Nat /\ \A k \in 1..Len(w) : w[k] = 0
    BY <2>1, <2>2, <2>3
  <2>5. Stats!Total(w) = 0
    BY <2>4, TotalZero
  <2> QED BY <1>1, <2>5 DEF w, Stats!NoSlots
<1>4. StatsShape
  <2>1. 0 \in 0..(FullSet - 1) /\ 0 \in 0..(StatsPeriod - 1) /\ 0 \in 0..MaxSamples /\ MaxTests \in 0..MaxTests
    BY StatsNumbers
  <2>2. <<>> \in Seq(Samples) /\ {} \in SUBSET Samples
    BY NoSamples
  <2>3. Stats!TypeOK
    BY <1>1, <2>1 DEF Stats!TypeOK, FullSet, Stats!NoStats
  <2>4. st \in Set /\ snap \in Set /\ hist \in [0..Slots -> Int]
    BY <1>1, <1>2, <1>3
  <2>5. test_on = FALSE /\ test_on \in BOOLEAN /\ pending \in BOOLEAN /\ skipped \in BOOLEAN
    BY <1>1
  <2>6. window \in Seq(Samples) /\ snap_window \in Seq(Samples) /\ seen \in SUBSET Samples
    BY <1>1, <2>2
  <2>7. shown \in Int /\ overrun \in Int /\ (l_pc = "delay" /\ ~pending /\ window = <<>>)
    BY <1>1
  <2> QED BY <2>3, <2>4, <2>5, <2>6, <2>7 DEF StatsShape
<1>5. ResultsOf(printed, printed.of)
  <2>1. printed.of = <<>>
    BY <1>1 DEF Stats!Report
  <2> QED BY <2>1, NoSamples DEF ResultsOf
<1>6. SeenAt /\ HistAt
  BY <1>1, <1>3 DEF SeenAt, HistAt
<1>7. AccountAt
  BY <1>1, NoSamples DEF AccountAt, Waiting
<1> QED BY <1>1, <1>2, <1>4, <1>5, <1>6, <1>7 DEF StatsInv

LEMMA StatsFollow == ASSUME StatsInv PROVE Stats!TypeOK /\ Stats!StatsAreThose
<1>1. Stats!TypeOK
  BY DEF StatsInv, StatsShape
<1>2. LET w == printed.of m == Len(w) IN m > 0 =>
        /\ Stats!IsLeast(printed.min, Stats!Values(w)) /\ Stats!IsGreatest(printed.max, Stats!Values(w))
        /\ printed.mean = Stats!Total(w) \div m /\ printed.ms = Stats!Total(Stats!Squares(w)) \div m
        /\ printed.variance = printed.ms - (Stats!Total(w) * Stats!Total(w)) \div (m * m)
        /\ printed.abs_min <= printed.min /\ printed.abs_max >= printed.max
  BY DEF StatsInv, ResultsOf
<1>3. test_on /\ seen # {} => Stats!IsLeast(st.abs_min, seen) /\ Stats!IsGreatest(st.abs_max, seen)
  BY DEF StatsInv, SeenAt
<1>4. Stats!Total([k \in 1..(Slots + 1) |-> hist[k - 1]]) = IF test_on THEN taken ELSE 0
  BY DEF StatsInv, HistAt, Bars
<1>5. LET waiting == IF pending /\ l_pc # "clear" THEN Len(snap_window) ELSE 0 IN
      shown + overrun + waiting + Len(window) = taken \/ (~test_on /\ skipped)
  BY DEF StatsInv, AccountAt, Waiting
<1> QED BY <1>1, <1>2, <1>3, <1>4, <1>5 DEF Stats!StatsAreThose
=============================================================================
