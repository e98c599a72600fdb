--------------------- MODULE GenSwMboxRegistry_proofs ---------------------
(***************************************************************************)
(* Proofs about the control plane of the generic software mailbox, for any *)
(* finite number of tasks, any pages, heap objects and size of the table.  *)
(***************************************************************************)
EXTENDS GenSwMboxRegistry, FiniteSetTheorems, WellFoundedInduction, TLAPS

-----------------------------------------------------------------------------
(* The inductive invariant.                                                *)

Registered(m)    == m \in live /\ Inst(m) # {}
Holders          == {t \in Task : pc[t] = "in"}
Users(m)         == {t \in Task : Using(t) /\ ptr[t] = m}
Unregistering(b) == {t \in Task : pc[t] # "idle" /\ op[t] = "unregcb"
                                                 /\ arg[t] = b}
Removing(t)      == pc[t] \in {"destroy", "free"}

(* What the task inside the semaphore looked up is still so.               *)
LookupHolds ==
  \A t \in Task : pc[t] = "in" =>
    IF ptr[t] = None
      THEN Entries(arg[t]) = {}
      ELSE Registered(ptr[t]) /\ base[ptr[t]] = arg[t]

(* A task at work on a mailbox keeps it in the table, under its own page.  *)
UsersHold ==
  \A t \in Task : Using(t) => Registered(ptr[t]) /\ base[ptr[t]] = arg[t]

(* A mailbox on its way out is out of the table and has one remover.       *)
RemoversOwn ==
  \A t \in Task : Removing(t) =>
    /\ ptr[t] \in live
    /\ Inst(ptr[t]) = {}
    /\ base[ptr[t]] = arg[t]
    /\ \A u \in Task \ {t} : Removing(u) => ptr[u] # ptr[t]

(* The mailbox given a page's interrupt is allocated and of that page.     *)
IrqOfPage ==
  \A b \in Base : irq[b] # None => irq[b] \in live /\ base[irq[b]] = b

(* A mailbox in the table has its interrupt or is torn, and is torn when   *)
(* a remover has yet to switch its page's interrupt off.                   *)
IrqGiven ==
  \A m \in Mbox : Registered(m) =>
    /\ irq[base[m]] = m \/ m \in torn
    /\ \A t \in Task : pc[t] = "destroy" /\ arg[t] = base[m] => m \in torn

(* A remover has switched the interrupt off before it frees.               *)
IrqOffFirst ==
  \A t \in Task, b \in Base : pc[t] = "free" => irq[b] # ptr[t]

(* Registered callbacks belong to a mailbox in the table, and there is one *)
(* for every call that is to unregister one.                               *)
OwedCovers ==
  \A b \in Base :
    /\ Cardinality(Unregistering(b)) <= owed[b]
    /\ owed[b] > 0 => Entries(b) # {}

IInv ==
  /\ TypeOK
  /\ SemaphoreAccounted
  /\ LookupHolds
  /\ UsersHold
  /\ RemoversOwn
  /\ OneMboxPerBase
  /\ IrqOfPage
  /\ IrqGiven
  /\ IrqOffFirst
  /\ OwedCovers
  /\ RefsAccounted

-----------------------------------------------------------------------------
(* The table.                                                              *)

(* A set of slots has a first one, so CHOOSE finds it.                     *)
LEMMA LeastChosen ==
  ASSUME NEW S, S \subseteq Nat, S # {}
  PROVE  (CHOOSE i \in S : \A j \in S : i <= j) \in S
<1> DEFINE R == OpToRel(<, Nat)
<1>1. IsWellFoundedOn(R, Nat)
  BY NatLessThanWellFounded
<1>2. \A x, y \in Nat : x < y => <<x, y>> \in R
  BY DEF OpToRel
<1> HIDE DEF R
<1>3. PICK i \in S : \A j \in S : <<j, i>> \notin R
  BY <1>1, WFMin
<1>4. ASSUME NEW j \in S PROVE i <= j
  <2>1. i \in Nat /\ j \in Nat
    OBVIOUS
  <2>2. ~ (j < i)
    BY <2>1, <1>2, <1>3
  <2>3. QED
    BY <2>1, <2>2
<1>5. QED
  BY <1>4

(* gen_sw_mbox_get_instance() returns an entry of the table for the base   *)
(* it is asked for, and NULL only when there is none.                      *)
LEMMA Lookup ==
  ASSUME TypeOK, NEW b \in Base
  PROVE  IF GetInstance(b) = None
           THEN Entries(b) = {}
           ELSE \E i \in Slot : /\ inst[i] = GetInstance(b)
                                /\ base[inst[i]] = b
                                /\ inst[i] \in Mbox
<1>1. CASE Entries(b) = {}
  BY <1>1 DEF GetInstance
<1>2. CASE Entries(b) # {}
  <2> DEFINE i == CHOOSE k \in Entries(b) : \A j \in Entries(b) : k <= j
  <2>1. i \in Entries(b)
    <3>1. Entries(b) \subseteq Nat
      BY RegistryAssumption DEF Entries, Slot
    <3>2. QED
      BY <1>2, <3>1, LeastChosen
  <2>2. GetInstance(b) = inst[i]
    BY <1>2 DEF GetInstance
  <2> HIDE DEF i
  <2>3. i \in Slot /\ inst[i] # None /\ base[inst[i]] = b
    BY <2>1 DEF Entries
  <2>4. inst[i] \in Mbox
    BY <2>3 DEF TypeOK
  <2>5. QED
    BY <2>2, <2>3, <2>4
<1>3. QED
  BY <1>1, <1>2

(* gen_sw_mbox_register() takes an object that was not allocated and puts  *)
(* it into a free slot, if there is one.                                   *)
LEMMA RegisterStores ==
  ASSUME TypeOK, NEW t \in Task, RegisterNew(t)
  PROVE  \E m \in Mbox \ live :
           /\ live' = live \cup {m}
           /\ base' = [base EXCEPT ![m] = arg[t]]
           /\ ref'  = [ref EXCEPT ![m] = 0]
           /\ irq'  = [irq EXCEPT ![arg[t]] = m]
           /\ leaked' = [leaked EXCEPT ![m] = 0]
           /\ torn' = IF \E u \in Task : pc[u] = "destroy" /\ base[ptr[u]] = arg[t]
                        THEN torn \cup {m}
                        ELSE torn \ {m}
           /\ \/ inst' = inst
              \/ \E i \in Slot : inst[i] = None /\ inst' = [inst EXCEPT ![i] = m]
<1> DEFINE empty == {i \in Slot : inst[i] = None}
           first == CHOOSE i \in empty : \A j \in empty : i <= j
<1>1. PICK m \in Mbox \ live :
           /\ live' = live \cup {m}
           /\ base' = [base EXCEPT ![m] = arg[t]]
           /\ ref'  = [ref EXCEPT ![m] = 0]
           /\ irq'  = [irq EXCEPT ![arg[t]] = m]
           /\ leaked' = [leaked EXCEPT ![m] = 0]
           /\ torn' = IF \E u \in Task : pc[u] = "destroy" /\ base[ptr[u]] = arg[t]
                        THEN torn \cup {m}
                        ELSE torn \ {m}
           /\ inst' = IF empty = {} THEN inst ELSE [inst EXCEPT ![first] = m]
  BY DEF RegisterNew
<1>2. empty # {} => first \in empty
  <2>1. empty \subseteq Nat
    BY RegistryAssumption DEF Slot
  <2>2. QED
    BY <2>1, LeastChosen
<1> HIDE DEF first
<1>3. QED
  BY <1>1, <1>2

-----------------------------------------------------------------------------
(* Counting tasks.                                                         *)

(* When one element at most enters or leaves a finite set, its size moves  *)
(* by that element.                                                        *)
LEMMA CountStep ==
  ASSUME NEW S, NEW T, NEW x, IsFiniteSet(S),
         \A y : y # x => (y \in S <=> y \in T)
  PROVE  /\ IsFiniteSet(T)
         /\ Cardinality(S) \in Nat
         /\ Cardinality(T) \in Nat
         /\ x \in S => Cardinality(S) > 0
         /\ Cardinality(T) = Cardinality(S) + (IF x \in T THEN 1 ELSE 0)
                                            - (IF x \in S THEN 1 ELSE 0)
<1>1. Cardinality(S) \in Nat
  BY FS_CardinalityType
<1>2. x \in S => Cardinality(S) > 0
  BY <1>1, FS_EmptySet
<1>3. CASE x \in T
  <2>1. T = S \cup {x}
    BY <1>3
  <2>2. QED
    BY <1>1, <1>2, <1>3, <2>1, FS_AddElement
<1>4. CASE x \notin T
  <2>1. T = S \ {x}
    BY <1>4
  <2>2. /\ IsFiniteSet(T)
        /\ Cardinality(T) = IF x \in S THEN Cardinality(S) - 1 ELSE Cardinality(S)
    BY <2>1, FS_RemoveElement
  <2>3. QED
    BY <1>1, <1>2, <1>4, <2>2
<1>5. QED
  BY <1>3, <1>4

(* Any set of tasks is finite.                                             *)
LEMMA TasksFinite ==
  ASSUME NEW S, S \subseteq Task
  PROVE  IsFiniteSet(S) /\ Cardinality(S) \in Nat
<1>1. IsFiniteSet(S)
  BY RegistryAssumption, FS_Subset
<1>2. QED
  BY <1>1, FS_CardinalityType

(* How a step of task t to point p moves the three counts.                 *)
LEMMA HoldersStep ==
  ASSUME TypeOK, NEW t \in Task, NEW p \in Pc, GoTo(t, p)
  PROVE  /\ Cardinality(Holders) \in Nat
         /\ pc[t] = "in" => Cardinality(Holders) > 0
         /\ Cardinality(Holders') = Cardinality(Holders)
                                      + (IF p = "in" THEN 1 ELSE 0)
                                      - (IF pc[t] = "in" THEN 1 ELSE 0)
<1>1. IsFiniteSet(Holders)
  BY TasksFinite DEF Holders
<1>2. \A u : u # t => (u \in Holders <=> u \in Holders')
  BY DEF Holders, GoTo, TypeOK
<1>3. t \in Holders <=> pc[t] = "in"
  BY DEF Holders
<1>4. t \in Holders' <=> p = "in"
  BY DEF Holders, GoTo, TypeOK
<1>5. QED
  BY <1>1, <1>2, <1>3, <1>4, CountStep

LEMMA UsersStep ==
  ASSUME TypeOK, NEW t \in Task, NEW p \in Pc, GoTo(t, p), NEW m \in Mbox,
         \A u \in Task \ {t} : ptr'[u] = ptr[u],
         ptr'[t] = ptr[t] \/ (~ Using(t) /\ p = "in")
  PROVE  /\ Cardinality(Users(m)) \in Nat
         /\ Using(t) /\ ptr[t] = m => Cardinality(Users(m)) > 0
         /\ Cardinality(Users(m)') = Cardinality(Users(m))
              + (IF p \in {"xfer", "put", "setcb"} /\ ptr[t] = m THEN 1 ELSE 0)
              - (IF Using(t) /\ ptr[t] = m THEN 1 ELSE 0)
<1>1. IsFiniteSet(Users(m))
  BY TasksFinite DEF Users
<1>2. \A u : u # t => (u \in Users(m) <=> u \in Users(m)')
  BY DEF Users, Using, GoTo, TypeOK
<1>3. t \in Users(m) <=> Using(t) /\ ptr[t] = m
  BY DEF Users
<1>4. t \in Users(m)' <=> p \in {"xfer", "put", "setcb"} /\ ptr[t] = m
  BY DEF Users, Using, GoTo, TypeOK
<1>5. QED
  BY <1>1, <1>2, <1>3, <1>4, CountStep

LEMMA UnregisteringStep ==
  ASSUME TypeOK, NEW t \in Task, NEW p \in Pc, GoTo(t, p), NEW b \in Base,
         UNCHANGED <<op, arg>>, pc[t] # "idle"
  PROVE  /\ Cardinality(Unregistering(b)) \in Nat
         /\ Cardinality(Unregistering(b)') \in Nat
         /\ Cardinality(Unregistering(b)') <= Cardinality(Unregistering(b))
         /\ op[t] = "unregcb" /\ arg[t] = b => Cardinality(Unregistering(b)) > 0
         /\ op[t] = "unregcb" /\ arg[t] = b /\ p = "idle" =>
              Cardinality(Unregistering(b)') = Cardinality(Unregistering(b)) - 1
<1>1. IsFiniteSet(Unregistering(b))
  BY TasksFinite DEF Unregistering
<1>2. \A u : u # t => (u \in Unregistering(b) <=> u \in Unregistering(b)')
  BY DEF Unregistering, GoTo, TypeOK
<1>3. t \in Unregistering(b) <=> op[t] = "unregcb" /\ arg[t] = b
  BY DEF Unregistering
<1>4. t \in Unregistering(b)' <=> p # "idle" /\ op[t] = "unregcb" /\ arg[t] = b
  BY DEF Unregistering, GoTo, TypeOK
<1>5. QED
  BY <1>1, <1>2, <1>3, <1>4, CountStep

(* The semaphore admits one task at a time, and none while it is free.     *)
LEMMA OneInside ==
  ASSUME TypeOK, SemaphoreAccounted
  PROVE  /\ \A t, u \in Task : pc[t] = "in" /\ pc[u] = "in" => t = u
         /\ sem = 1 => \A t \in Task : pc[t] # "in"
<1>1. IsFiniteSet(Holders) /\ Cardinality(Holders) \in Nat
  BY TasksFinite DEF Holders
<1>2. Cardinality(Holders) + sem = IF refused THEN 0 ELSE 1
  BY DEF SemaphoreAccounted, Holders
<1>3. Cardinality(Holders) = 0 \/ (Cardinality(Holders) = 1 /\ sem = 0)
  BY <1>1, <1>2 DEF TypeOK
<1>4. CASE Cardinality(Holders) = 0
  <2>1. Holders = {}
    BY <1>1, <1>4, FS_EmptySet
  <2>2. QED
    BY <2>1 DEF Holders
<1>5. CASE Cardinality(Holders) = 1 /\ sem = 0
  <2>1. PICK x : Holders = {x}
    BY <1>1, <1>5, FS_Singleton
  <2>2. QED
    BY <1>5, <2>1 DEF Holders
<1>6. QED
  BY <1>3, <1>4, <1>5

(* A page has one mailbox in the table.                                    *)
LEMMA SamePage ==
  ASSUME OneMboxPerBase, NEW m \in Mbox, NEW n \in Mbox,
         Inst(m) # {}, Inst(n) # {}, base[m] = base[n]
  PROVE  m = n
<1>1. PICK i \in Slot, j \in Slot : inst[i] = m /\ inst[j] = n
  BY DEF Inst
<1>2. QED
  BY <1>1, RegistryAssumption DEF OneMboxPerBase

-----------------------------------------------------------------------------
(* The steps preserve the inductive invariant, one part at a time.         *)

(* An unregistration of a callback has one to take away.                   *)
LEMMA OwedOne ==
  ASSUME TypeOK, OwedCovers, NEW t \in Task, Inside(t, "unregcb")
  PROVE  owed[arg[t]] > 0
<1>1. arg[t] \in Base /\ owed[arg[t]] \in Nat
  BY DEF TypeOK
<1>2. t \in Unregistering(arg[t])
  BY DEF Unregistering, Inside
<1>3. /\ IsFiniteSet(Unregistering(arg[t]))
      /\ Cardinality(Unregistering(arg[t])) \in Nat
  BY TasksFinite DEF Unregistering
<1>4. Cardinality(Unregistering(arg[t])) # 0
  BY <1>2, <1>3, FS_EmptySet
<1>5. QED
  BY <1>1, <1>3, <1>4 DEF OwedCovers

LEMMA InitTyped == Init => TypeOK
<1> SUFFICES ASSUME Init PROVE TypeOK
  OBVIOUS
<1> DEFINE b0 == CHOOSE b \in Base : TRUE
<1>1. b0 \in Base
  BY RegistryAssumption
<1>2. base = [m \in Mbox |-> b0] /\ arg = [t \in Task |-> b0]
  BY DEF Init
<1> HIDE DEF b0
<1>3. base \in [Mbox -> Base] /\ arg \in [Task -> Base]
  BY <1>1, <1>2
<1>4. calls \in [Task -> 0 .. MaxCalls]
  BY RegistryAssumption DEF Init
<1>5. /\ inst \in [Slot -> Mbox \cup {None}]
      /\ ref \in [Mbox -> Int]
      /\ irq \in [Base -> Mbox \cup {None}]
      /\ ptr \in [Task -> Mbox \cup {None}]
      /\ owed \in [Base -> Nat]
      /\ leaked \in [Mbox -> Nat]
  BY DEF Init
<1>6. pc \in [Task -> Pc] /\ op \in [Task -> Op]
  BY DEF Init, Pc, Op
<1>7. /\ sem \in {0, 1}
      /\ live \subseteq Mbox
      /\ refused \in BOOLEAN
      /\ torn \subseteq Mbox
  BY DEF Init
<1>8. QED
  BY <1>3, <1>4, <1>5, <1>6, <1>7 DEF TypeOK

(* The table, the counts and the tasks keep their shape.                   *)
LEMMA NextTyped == IInv /\ [Next]_vars => TypeOK'
<1> SUFFICES ASSUME IInv, [Next]_vars PROVE TypeOK'
  OBVIOUS
<1> USE DEF heap, call, hist, GoTo, AddRef, Inside, Found
<1>a. TypeOK /\ \A t \in Task : Using(t) => ptr[t] \in Mbox
  BY DEF IInv, UsersHold, Registered, TypeOK
<1>1. ASSUME NEW t \in Task, NEW o \in Op, NEW b \in Base, Call(t, o, b)
      PROVE  TypeOK'
  BY <1>a, <1>1, RegistryAssumption DEF Call, TypeOK, Pc
<1>2. ASSUME NEW t \in Task, Acquire(t) PROVE TypeOK'
  <2>1. GetInstance(arg[t]) \in Mbox \cup {None}
    BY <1>a, Lookup DEF TypeOK
  <2>2. QED
    BY <1>a, <1>2, <2>1 DEF Acquire, TypeOK, Pc
<1>3. ASSUME NEW t \in Task, NotFound(t) PROVE TypeOK'
  BY <1>3, <1>a DEF NotFound, TypeOK, Pc
<1>4. ASSUME NEW t \in Task, RegisterNothing(t) PROVE TypeOK'
  BY <1>4, <1>a DEF RegisterNothing, TypeOK, Pc
<1>5. ASSUME NEW t \in Task, RegisterNew(t) PROVE TypeOK'
  <2>1. /\ sem' = 1
        /\ pc' = [pc EXCEPT ![t] = "idle"]
        /\ UNCHANGED <<op, arg, ptr, calls, owed, refused>>
    BY <1>5 DEF RegisterNew
  <2>2. QED
    BY SMTT(60), <1>a, <1>5, <2>1, RegisterStores DEF TypeOK, Pc
<1>6. ASSUME NEW t \in Task, GetRef(t) PROVE TypeOK'
  BY <1>6, <1>a DEF GetRef, TypeOK, Pc
<1>7. ASSUME NEW t \in Task, SetCallback(t) PROVE TypeOK'
  BY <1>7, <1>a DEF SetCallback, TypeOK, Pc
<1>8. ASSUME NEW t \in Task, Transmit(t) PROVE TypeOK'
  BY <1>8, <1>a DEF Transmit, TypeOK, Pc
<1>9. ASSUME NEW t \in Task, ChannelBusy(t) PROVE TypeOK'
  BY <1>a, <1>9 DEF ChannelBusy, TypeOK, Pc, Using
<1>10. ASSUME NEW t \in Task, PutRef(t) PROVE TypeOK'
  BY <1>a, <1>10 DEF PutRef, TypeOK, Pc, Using
<1>11. ASSUME NEW t \in Task, UnregisterCallback(t) PROVE TypeOK'
  <2>1. owed[arg[t]] - 1 \in Nat
    BY <1>a, <1>11, OwedOne DEF IInv, TypeOK, UnregisterCallback
  <2>2. ptr[t] \in Mbox
    BY <1>a, <1>11 DEF UnregisterCallback, TypeOK
  <2>3. QED
    BY <1>a, <1>11, <2>1, <2>2 DEF UnregisterCallback, TypeOK, Pc
<1>12. ASSUME NEW t \in Task, UnregisterRefused(t) PROVE TypeOK'
  BY <1>12, <1>a DEF UnregisterRefused, TypeOK, Pc
<1>13. ASSUME NEW t \in Task, UnregisterDel(t) PROVE TypeOK'
  BY <1>13, <1>a DEF UnregisterDel, TypeOK, Pc
<1>14. ASSUME NEW t \in Task, InterruptOff(t) PROVE TypeOK'
  BY <1>14, <1>a DEF InterruptOff, TypeOK, Pc
<1>15. ASSUME NEW t \in Task, Free(t) PROVE TypeOK'
  BY <1>15, <1>a DEF Free, TypeOK, Pc
<1>16. CASE UNCHANGED vars
  BY <1>16, <1>a DEF vars, TypeOK, Pc
<1>17. QED
  BY <1>1, <1>2, <1>3, <1>4, <1>5, <1>6, <1>7, <1>8, <1>9, <1>10, <1>11,
     <1>12, <1>13, <1>14, <1>15, <1>16 DEF Next, Return

(* The semaphore is given back once by whoever took it, or lost.           *)
LEMMA NextSemaphore == IInv /\ [Next]_vars => SemaphoreAccounted'
<1> SUFFICES ASSUME IInv, [Next]_vars PROVE SemaphoreAccounted'
  OBVIOUS
<1> USE DEF hist, Inside
<1>a. TypeOK /\ sem \in {0, 1} /\ refused \in BOOLEAN
  BY DEF IInv, TypeOK
<1>b. Cardinality(Holders) + sem = IF refused THEN 0 ELSE 1
  BY DEF IInv, SemaphoreAccounted, Holders
<1>c. \A t \in Task, p \in Pc : GoTo(t, p) =>
        /\ Cardinality(Holders) \in Nat
        /\ pc[t] = "in" => Cardinality(Holders) > 0
        /\ Cardinality(Holders') = Cardinality(Holders)
                                     + (IF p = "in" THEN 1 ELSE 0)
                                     - (IF pc[t] = "in" THEN 1 ELSE 0)
  BY <1>a, HoldersStep
<1> SUFFICES Cardinality(Holders') + sem' = IF refused' THEN 0 ELSE 1
  BY DEF SemaphoreAccounted, Holders
<1>1. ASSUME NEW t \in Task, NEW o \in Op, NEW b \in Base, Call(t, o, b)
      PROVE  Cardinality(Holders') + sem' = IF refused' THEN 0 ELSE 1
  BY <1>a, <1>b, <1>c, <1>1 DEF Call, Pc
<1>2. ASSUME NEW t \in Task, Acquire(t)
      PROVE  Cardinality(Holders') + sem' = IF refused' THEN 0 ELSE 1
  BY <1>a, <1>b, <1>c, <1>2 DEF Acquire, Pc
<1>3. ASSUME NEW t \in Task, NotFound(t)
      PROVE  Cardinality(Holders') + sem' = IF refused' THEN 0 ELSE 1
  BY <1>a, <1>b, <1>c, <1>3 DEF NotFound, Pc
<1>4. ASSUME NEW t \in Task, RegisterNothing(t)
      PROVE  Cardinality(Holders') + sem' = IF refused' THEN 0 ELSE 1
  BY <1>a, <1>b, <1>c, <1>4 DEF RegisterNothing, Pc
<1>5. ASSUME NEW t \in Task, RegisterNew(t)
      PROVE  Cardinality(Holders') + sem' = IF refused' THEN 0 ELSE 1
  BY <1>a, <1>b, <1>c, <1>5 DEF RegisterNew, Pc
<1>6. ASSUME NEW t \in Task, GetRef(t)
      PROVE  Cardinality(Holders') + sem' = IF refused' THEN 0 ELSE 1
  BY <1>a, <1>b, <1>c, <1>6 DEF GetRef, Pc
<1>7. ASSUME NEW t \in Task, SetCallback(t)
      PROVE  Cardinality(Holders') + sem' = IF refused' THEN 0 ELSE 1
  BY <1>a, <1>b, <1>c, <1>7 DEF SetCallback, Pc
<1>8. ASSUME NEW t \in Task, Transmit(t)
      PROVE  Cardinality(Holders') + sem' = IF refused' THEN 0 ELSE 1
  BY <1>a, <1>b, <1>c, <1>8 DEF Transmit, Pc
<1>9. ASSUME NEW t \in Task, ChannelBusy(t)
      PROVE  Cardinality(Holders') + sem' = IF refused' THEN 0 ELSE 1
  BY <1>a, <1>b, <1>c, <1>9 DEF ChannelBusy, Pc
<1>10. ASSUME NEW t \in Task, PutRef(t)
      PROVE  Cardinality(Holders') + sem' = IF refused' THEN 0 ELSE 1
  BY <1>a, <1>b, <1>c, <1>10 DEF PutRef, Pc
<1>11. ASSUME NEW t \in Task, UnregisterCallback(t)
      PROVE  Cardinality(Holders') + sem' = IF refused' THEN 0 ELSE 1
  BY <1>a, <1>b, <1>c, <1>11 DEF UnregisterCallback, Pc
<1>12. ASSUME NEW t \in Task, UnregisterRefused(t)
      PROVE  Cardinality(Holders') + sem' = IF refused' THEN 0 ELSE 1
  BY <1>a, <1>b, <1>c, <1>12 DEF UnregisterRefused, Pc
<1>13. ASSUME NEW t \in Task, UnregisterDel(t)
      PROVE  Cardinality(Holders') + sem' = IF refused' THEN 0 ELSE 1
  BY <1>a, <1>b, <1>c, <1>13 DEF UnregisterDel, Pc
<1>14. ASSUME NEW t \in Task, InterruptOff(t)
      PROVE  Cardinality(Holders') + sem' = IF refused' THEN 0 ELSE 1
  BY <1>a, <1>b, <1>c, <1>14 DEF InterruptOff, Pc
<1>15. ASSUME NEW t \in Task, Free(t)
      PROVE  Cardinality(Holders') + sem' = IF refused' THEN 0 ELSE 1
  BY <1>a, <1>b, <1>c, <1>15 DEF Free, Pc
<1>16. CASE UNCHANGED vars
  BY <1>b, <1>16 DEF vars, Holders
<1>17. QED
  BY <1>1, <1>2, <1>3, <1>4, <1>5, <1>6, <1>7, <1>8, <1>9, <1>10, <1>11,
     <1>12, <1>13, <1>14, <1>15, <1>16 DEF Next, Return

(* All steps but four leave the table, the objects and the interrupts      *)
(* alone, and no task enters or leaves a removal by them.                  *)
HeapQuiet ==
  /\ UNCHANGED <<inst, live, base, irq, torn>>
  /\ \A u \in Task : /\ pc'[u] = "destroy" <=> pc[u] = "destroy"
                     /\ pc'[u] = "free" <=> pc[u] = "free"
                     /\ Removing(u) => ptr'[u] = ptr[u] /\ arg'[u] = arg[u]

LEMMA QuietSteps ==
  ASSUME TypeOK, [Next]_vars
  PROVE  \/ HeapQuiet
         \/ \E t \in Task :
              RegisterNew(t) \/ UnregisterDel(t) \/ InterruptOff(t) \/ Free(t)
<1>1. ASSUME NEW t \in Task, NEW o \in Op, NEW b \in Base, Call(t, o, b) PROVE HeapQuiet
  BY <1>1 DEF Call, HeapQuiet, Removing, TypeOK, GoTo, Inside, Found,
             heap, call, hist
<1>2. ASSUME NEW t \in Task, Acquire(t) PROVE HeapQuiet
  BY <1>2 DEF Acquire, HeapQuiet, Removing, TypeOK, GoTo, Inside, Found,
             heap, call, hist
<1>3. ASSUME NEW t \in Task, NotFound(t) PROVE HeapQuiet
  BY <1>3 DEF NotFound, HeapQuiet, Removing, TypeOK, GoTo, Inside, Found,
             heap, call, hist
<1>4. ASSUME NEW t \in Task, RegisterNothing(t) PROVE HeapQuiet
  BY <1>4 DEF RegisterNothing, HeapQuiet, Removing, TypeOK, GoTo, Inside, Found,
             heap, call, hist
<1>5. ASSUME NEW t \in Task, GetRef(t) PROVE HeapQuiet
  BY <1>5 DEF GetRef, HeapQuiet, Removing, TypeOK, GoTo, Inside, Found,
             heap, call, hist
<1>6. ASSUME NEW t \in Task, SetCallback(t) PROVE HeapQuiet
  BY <1>6 DEF SetCallback, HeapQuiet, Removing, TypeOK, GoTo, Inside, Found,
             heap, call, hist
<1>7. ASSUME NEW t \in Task, Transmit(t) PROVE HeapQuiet
  BY <1>7 DEF Transmit, HeapQuiet, Removing, TypeOK, GoTo, Inside, Found,
             heap, call, hist
<1>8. ASSUME NEW t \in Task, ChannelBusy(t) PROVE HeapQuiet
  BY <1>8 DEF ChannelBusy, HeapQuiet, Removing, TypeOK, GoTo, Inside, Found,
             heap, call, hist
<1>9. ASSUME NEW t \in Task, PutRef(t) PROVE HeapQuiet
  BY <1>9 DEF PutRef, HeapQuiet, Removing, TypeOK, GoTo, Inside, Found,
             heap, call, hist
<1>10. ASSUME NEW t \in Task, UnregisterCallback(t) PROVE HeapQuiet
  BY <1>10 DEF UnregisterCallback, HeapQuiet, Removing, TypeOK, GoTo, Inside, Found,
             heap, call, hist
<1>11. ASSUME NEW t \in Task, UnregisterRefused(t) PROVE HeapQuiet
  BY <1>11 DEF UnregisterRefused, HeapQuiet, Removing, TypeOK, GoTo, Inside, Found,
             heap, call, hist
<1>12. CASE UNCHANGED vars
  BY <1>12 DEF vars, HeapQuiet
<1>13. QED
  BY <1>1, <1>2, <1>3, <1>4, <1>5, <1>6, <1>7, <1>8, <1>9, <1>10, <1>11, <1>12
  DEF Next, Return

(* What a step that registers a mailbox does to the table: the new mailbox *)
(* takes a page that had none, and no other mailbox moves.                 *)
LEMMA RegisterEffect ==
  ASSUME IInv, NEW t \in Task, RegisterNew(t)
  PROVE  \E m \in Mbox \ live :
           /\ live' = live \cup {m}
           /\ base' = [base EXCEPT ![m] = arg[t]]
           /\ ref'  = [ref EXCEPT ![m] = 0]
           /\ irq'  = [irq EXCEPT ![arg[t]] = m]
           /\ leaked' = [leaked EXCEPT ![m] = 0]
           /\ torn' = IF \E u \in Task : pc[u] = "destroy" /\ arg[u] = arg[t]
                        THEN torn \cup {m}
                        ELSE torn \ {m}
           /\ \/ inst' = inst
              \/ \E i \in Slot : inst[i] = None /\ inst' = [inst EXCEPT ![i] = m]
           /\ \A n \in Mbox \ {m} : Inst(n)' = Inst(n)
           /\ \A i \in Slot : inst[i] # None => inst'[i] = inst[i]
           /\ \A n \in live : base'[n] = base[n]
           /\ \A n \in Mbox : Registered(n) => base[n] # arg[t]
           /\ Inst(m) = {}
<1>1. PICK m \in Mbox \ live :
           /\ live' = live \cup {m}
           /\ base' = [base EXCEPT ![m] = arg[t]]
           /\ ref'  = [ref EXCEPT ![m] = 0]
           /\ irq'  = [irq EXCEPT ![arg[t]] = m]
           /\ leaked' = [leaked EXCEPT ![m] = 0]
           /\ torn' = IF \E u \in Task : pc[u] = "destroy" /\ base[ptr[u]] = arg[t]
                        THEN torn \cup {m}
                        ELSE torn \ {m}
           /\ \/ inst' = inst
              \/ \E i \in Slot : inst[i] = None /\ inst' = [inst EXCEPT ![i] = m]
  BY RegisterStores DEF IInv
<1>2. /\ None \notin Mbox
      /\ inst \in [Slot -> Mbox \cup {None}]
      /\ base \in [Mbox -> Base]
      /\ live \subseteq Mbox
  BY RegistryAssumption DEF IInv, TypeOK
<1>3. \A n \in Mbox \ {m} : Inst(n)' = Inst(n)
  BY <1>1, <1>2 DEF Inst
<1>4. \A i \in Slot : inst[i] # None => inst'[i] = inst[i]
  BY <1>1, <1>2
<1>5. \A n \in live : base'[n] = base[n]
  BY <1>1, <1>2
<1>6. \A n \in Mbox : Registered(n) => base[n] # arg[t]
  <2>1. Entries(arg[t]) = {}
    BY DEF IInv, LookupHolds, RegisterNew, Inside, Found
  <2>2. QED
    BY <1>2, <2>1 DEF Entries, Registered, Inst
<1>7. \A u \in Task : pc[u] = "destroy" => base[ptr[u]] = arg[u]
  BY DEF IInv, RemoversOwn, Removing
<1>8. Inst(m) = {}
  BY <1>1, <1>2 DEF IInv, OneMboxPerBase, Inst
<1>9. torn' = IF \E u \in Task : pc[u] = "destroy" /\ arg[u] = arg[t]
                THEN torn \cup {m}
                ELSE torn \ {m}
  <2>1. (\E u \in Task : pc[u] = "destroy" /\ base[ptr[u]] = arg[t])
          <=> (\E u \in Task : pc[u] = "destroy" /\ arg[u] = arg[t])
    BY <1>7
  <2>2. QED
    BY <1>1, <2>1
<1>10. QED
  BY <1>1, <1>3, <1>4, <1>5, <1>6, <1>8, <1>9

(* What a step that removes a mailbox from the table does: that mailbox    *)
(* leaves, no other moves, and nobody uses it or has a callback on it.     *)
LEMMA RemoveEffect ==
  ASSUME IInv, NEW t \in Task, UnregisterDel(t)
  PROVE  /\ ptr[t] \in Mbox
         /\ Registered(ptr[t])
         /\ base[ptr[t]] = arg[t]
         /\ owed[arg[t]] = 0
         /\ Inst(ptr[t])' = {}
         /\ \A n \in Mbox \ {ptr[t]} : Inst(n)' = Inst(n)
         /\ \A i \in Slot : inst[i] # ptr[t] => inst'[i] = inst[i]
         /\ \A u \in Task : Using(u) => ptr[u] # ptr[t]
<1>1. /\ TypeOK
      /\ None \notin Mbox
      /\ inst \in [Slot -> Mbox \cup {None}]
      /\ arg[t] \in Base
      /\ pc[t] = "in"
      /\ ptr[t] # None
  BY RegistryAssumption DEF IInv, TypeOK, UnregisterDel, Inside, Found
<1>2. Registered(ptr[t]) /\ base[ptr[t]] = arg[t]
  BY <1>1 DEF IInv, LookupHolds
<1>3. ptr[t] \in Mbox
  BY <1>2 DEF IInv, TypeOK, Registered
<1>4. inst' = [i \in Slot |-> IF inst[i] = ptr[t] THEN None ELSE inst[i]]
  BY DEF UnregisterDel
<1>5. Inst(ptr[t])' = {}
  <2>1. ptr'[t] = ptr[t]
    BY DEF UnregisterDel, call
  <2>2. QED
    BY <1>1, <1>3, <1>4, <2>1 DEF Inst
<1>6. \A n \in Mbox \ {ptr[t]} : Inst(n)' = Inst(n)
  BY <1>1, <1>3, <1>4 DEF Inst
<1>7. \A i \in Slot : inst[i] # ptr[t] => inst'[i] = inst[i]
  BY <1>4
<1>8. Cardinality(Users(ptr[t])) = 0 /\ owed[arg[t]] = 0
  <2>1. ref[ptr[t]] = Cardinality(Users(ptr[t])) + owed[arg[t]] + leaked[ptr[t]]
    BY <1>2 DEF IInv, RefsAccounted, Registered, Users
  <2>2. Cardinality(Users(ptr[t])) \in Nat
    BY TasksFinite DEF Users
  <2>3. owed[arg[t]] \in Nat /\ leaked[ptr[t]] \in Nat
    BY <1>1, <1>3 DEF TypeOK
  <2>4. ref[ptr[t]] <= 0
    BY DEF UnregisterDel
  <2>5. QED
    BY <2>1, <2>2, <2>3, <2>4
<1>9. Users(ptr[t]) = {}
  <2>1. IsFiniteSet(Users(ptr[t]))
    BY TasksFinite DEF Users
  <2>2. QED
    BY <1>8, <2>1, FS_EmptySet
<1>10. \A u \in Task : Using(u) => ptr[u] # ptr[t]
  BY <1>9 DEF Users
<1>11. QED
  BY <1>2, <1>3, <1>5, <1>6, <1>7, <1>8, <1>10

(* Nobody changes the table behind the back of the task inside.            *)
LEMMA NextLookup == IInv /\ [Next]_vars => LookupHolds'
<1> SUFFICES ASSUME IInv, [Next]_vars PROVE LookupHolds'
  OBVIOUS
<1> USE DEF heap, call, hist, GoTo, Inside, Found
<1>a. /\ TypeOK
      /\ None \notin Mbox
      /\ live \subseteq Mbox
  BY RegistryAssumption DEF IInv, TypeOK
<1>b. LookupHolds /\ \A t, u \in Task : pc[t] = "in" /\ pc[u] = "in" => t = u
  BY OneInside DEF IInv
<1>1. ASSUME NEW t \in Task, NEW o \in Op, NEW b \in Base, Call(t, o, b)
      PROVE  LookupHolds'
  BY <1>1, <1>a, <1>b DEF Call, TypeOK, LookupHolds, Entries, Registered, Inst
<1>2. ASSUME NEW t \in Task, Acquire(t) PROVE LookupHolds'
  <2>1. \A u \in Task : pc[u] # "in"
    BY <1>a, <1>2, OneInside DEF IInv, Acquire
  <2>2. \A u \in Task : u # t => pc'[u] # "in"
    BY <1>a, <1>2, <2>1 DEF Acquire, TypeOK
  <2>3. ptr'[t] = GetInstance(arg[t]) /\ arg[t] \in Base /\ UNCHANGED <<inst, live, base, arg>>
    BY <1>a, <1>2 DEF Acquire, TypeOK
  <2>4. CASE ptr'[t] = None
    <3>1. Entries(arg[t])' = {}
      BY <1>a, <2>3, <2>4, Lookup DEF Entries
    <3>2. QED
      BY <2>2, <2>4, <3>1 DEF LookupHolds
  <2>5. CASE ptr'[t] # None
    <3>1. PICK i \in Slot : inst[i] = ptr'[t] /\ base[inst[i]] = arg[t]
      BY <1>a, <2>3, <2>5, Lookup
    <3>2. inst[i] \in live
      BY <2>5, <3>1 DEF IInv, OneMboxPerBase
    <3>3. Registered(ptr[t])' /\ base'[ptr'[t]] = arg'[t]
      BY <2>3, <3>1, <3>2 DEF Registered, Inst
    <3>4. QED
      BY <2>2, <2>5, <3>3 DEF LookupHolds
  <2>6. QED
    BY <2>4, <2>5
<1>3. ASSUME NEW t \in Task, NotFound(t) PROVE LookupHolds'
  BY <1>3, <1>a, <1>b DEF NotFound, TypeOK, LookupHolds, Entries, Registered, Inst
<1>4. ASSUME NEW t \in Task, RegisterNothing(t) PROVE LookupHolds'
  BY <1>4, <1>a, <1>b DEF RegisterNothing, TypeOK, LookupHolds, Entries, Registered, Inst
<1>5. ASSUME NEW t \in Task, RegisterNew(t) PROVE LookupHolds'
  <2>1. \A u \in Task : pc'[u] # "in"
    BY <1>a, <1>b, <1>5 DEF RegisterNew, TypeOK
  <2>2. QED
    BY <2>1 DEF LookupHolds
<1>6. ASSUME NEW t \in Task, GetRef(t) PROVE LookupHolds'
  BY <1>6, <1>a, <1>b DEF GetRef, TypeOK, LookupHolds, Entries, Registered, Inst
<1>7. ASSUME NEW t \in Task, SetCallback(t) PROVE LookupHolds'
  BY <1>7, <1>a, <1>b DEF SetCallback, TypeOK, LookupHolds, Entries, Registered, Inst
<1>8. ASSUME NEW t \in Task, Transmit(t) PROVE LookupHolds'
  BY <1>8, <1>a, <1>b DEF Transmit, TypeOK, LookupHolds, Entries, Registered, Inst
<1>9. ASSUME NEW t \in Task, ChannelBusy(t) PROVE LookupHolds'
  BY <1>9, <1>a, <1>b DEF ChannelBusy, TypeOK, LookupHolds, Entries, Registered, Inst
<1>10. ASSUME NEW t \in Task, PutRef(t) PROVE LookupHolds'
  BY <1>10, <1>a, <1>b DEF PutRef, TypeOK, LookupHolds, Entries, Registered, Inst
<1>11. ASSUME NEW t \in Task, UnregisterCallback(t) PROVE LookupHolds'
  BY <1>11, <1>a, <1>b DEF UnregisterCallback, TypeOK, LookupHolds, Entries, Registered, Inst
<1>12. ASSUME NEW t \in Task, UnregisterRefused(t) PROVE LookupHolds'
  BY <1>12, <1>a, <1>b DEF UnregisterRefused, TypeOK, LookupHolds, Entries, Registered, Inst
<1>13. ASSUME NEW t \in Task, UnregisterDel(t) PROVE LookupHolds'
  <2>1. \A u \in Task : pc'[u] # "in"
    BY <1>a, <1>b, <1>13 DEF UnregisterDel, TypeOK
  <2>2. QED
    BY <2>1 DEF LookupHolds
<1>14. ASSUME NEW t \in Task, InterruptOff(t) PROVE LookupHolds'
  BY <1>14, <1>a, <1>b DEF InterruptOff, TypeOK, LookupHolds, Entries, Registered, Inst
<1>15. ASSUME NEW t \in Task, Free(t) PROVE LookupHolds'
  <2>1. ptr[t] \in live /\ Inst(ptr[t]) = {}
    BY <1>15 DEF IInv, RemoversOwn, Removing, Free
  <2>2. \A m : Registered(m) => Registered(m)'
    BY <1>15, <2>1 DEF Free, Registered, Inst
  <2>3. \A u \in Task : pc'[u] = "in" => pc[u] = "in"
    BY <1>a, <1>15 DEF Free, TypeOK
  <2>4. UNCHANGED <<inst, base, ptr, arg>>
    BY <1>15 DEF Free
  <2>5. QED
    BY <1>b, <2>2, <2>3, <2>4 DEF LookupHolds, Entries, Registered
<1>16. CASE UNCHANGED vars
  BY <1>16, <1>a, <1>b DEF vars, TypeOK, LookupHolds, Entries, Registered, Inst
<1>17. QED
  BY <1>1, <1>2, <1>3, <1>4, <1>5, <1>6, <1>7, <1>8, <1>9, <1>10, <1>11,
     <1>12, <1>13, <1>14, <1>15, <1>16 DEF Next, Return

(* Nothing takes away a mailbox that a task works on.                      *)
LEMMA NextUsers == IInv /\ [Next]_vars => UsersHold'
<1> SUFFICES ASSUME IInv, [Next]_vars PROVE UsersHold'
  OBVIOUS
<1> USE DEF heap, call, hist, GoTo, Inside, Found
<1>a. /\ TypeOK
      /\ None \notin Mbox
      /\ live \subseteq Mbox
  BY RegistryAssumption DEF IInv, TypeOK
<1>b. LookupHolds /\ UsersHold
  BY DEF IInv
<1>1. ASSUME NEW t \in Task, NEW o \in Op, NEW b \in Base, Call(t, o, b)
      PROVE  UsersHold'
  BY <1>1, <1>a, <1>b DEF Call, TypeOK, UsersHold, Using, Registered, Inst
<1>2. ASSUME NEW t \in Task, Acquire(t) PROVE UsersHold'
  BY <1>2, <1>a, <1>b DEF Acquire, TypeOK, UsersHold, Using, Registered, Inst
<1>3. ASSUME NEW t \in Task, NotFound(t) PROVE UsersHold'
  BY <1>3, <1>a, <1>b DEF NotFound, TypeOK, UsersHold, Using, Registered, Inst
<1>4. ASSUME NEW t \in Task, RegisterNothing(t) PROVE UsersHold'
  BY <1>4, <1>a, <1>b DEF RegisterNothing, TypeOK, UsersHold, Using, Registered, Inst
<1>5. ASSUME NEW t \in Task, RegisterNew(t) PROVE UsersHold'
  <2>1. PICK m \in Mbox \ live :
           /\ live' = live \cup {m}
           /\ \A n \in Mbox \ {m} : Inst(n)' = Inst(n)
           /\ \A n \in live : base'[n] = base[n]
    BY <1>5, RegisterEffect
  <2>2. \A n \in live : Registered(n) => Registered(n)'
    BY <1>a, <2>1 DEF Registered
  <2>3. \A u \in Task : Using(u)' => Using(u) /\ ptr'[u] = ptr[u] /\ arg'[u] = arg[u]
    BY <1>a, <1>5 DEF RegisterNew, Using, TypeOK
  <2>4. ASSUME NEW u \in Task, Using(u)'
        PROVE  Registered(ptr[u])' /\ base'[ptr'[u]] = arg'[u]
    <3>1. Registered(ptr[u]) /\ base[ptr[u]] = arg[u] /\ ptr[u] \in live
      BY <1>b, <2>3, <2>4 DEF UsersHold, Registered
    <3>2. QED
      BY <2>1, <2>2, <2>3, <2>4, <3>1 DEF Registered
  <2>5. QED
    BY <2>4 DEF UsersHold
<1>6. ASSUME NEW t \in Task, GetRef(t) PROVE UsersHold'
  BY <1>a, <1>b, <1>6 DEF GetRef, TypeOK, LookupHolds, UsersHold, Using, Registered,
                       Inst
<1>7. ASSUME NEW t \in Task, SetCallback(t) PROVE UsersHold'
  BY <1>7, <1>a, <1>b DEF SetCallback, TypeOK, UsersHold, Using, Registered, Inst
<1>8. ASSUME NEW t \in Task, Transmit(t) PROVE UsersHold'
  BY <1>8, <1>a, <1>b DEF Transmit, TypeOK, UsersHold, Using, Registered, Inst
<1>9. ASSUME NEW t \in Task, ChannelBusy(t) PROVE UsersHold'
  BY <1>9, <1>a, <1>b DEF ChannelBusy, TypeOK, UsersHold, Using, Registered, Inst
<1>10. ASSUME NEW t \in Task, PutRef(t) PROVE UsersHold'
  BY <1>10, <1>a, <1>b DEF PutRef, TypeOK, UsersHold, Using, Registered, Inst
<1>11. ASSUME NEW t \in Task, UnregisterCallback(t) PROVE UsersHold'
  BY <1>11, <1>a, <1>b DEF UnregisterCallback, TypeOK, UsersHold, Using, Registered, Inst
<1>12. ASSUME NEW t \in Task, UnregisterRefused(t) PROVE UsersHold'
  BY <1>12, <1>a, <1>b DEF UnregisterRefused, TypeOK, UsersHold, Using, Registered, Inst
<1>13. ASSUME NEW t \in Task, UnregisterDel(t) PROVE UsersHold'
  <2>1. \A u \in Task : Using(u)' => Using(u)
    BY <1>a, <1>13 DEF UnregisterDel, Using, TypeOK
  <2>2. /\ \A n \in Mbox \ {ptr[t]} : Inst(n)' = Inst(n)
        /\ \A u \in Task : Using(u) => ptr[u] # ptr[t]
    BY <1>13, RemoveEffect
  <2>3. UNCHANGED <<live, base, ptr, arg>>
    BY <1>13 DEF UnregisterDel
  <2>4. ASSUME NEW u \in Task, Using(u)'
        PROVE  Registered(ptr[u])' /\ base'[ptr'[u]] = arg'[u]
    <3>1. Registered(ptr[u]) /\ base[ptr[u]] = arg[u] /\ ptr[u] \in Mbox \ {ptr[t]}
      BY <1>a, <1>b, <2>1, <2>2, <2>4 DEF UsersHold, Registered
    <3>2. Inst(ptr[u])' = Inst(ptr[u])
      BY <2>2, <2>3, <3>1 DEF Inst
    <3>3. QED
      BY <2>3, <3>1, <3>2 DEF Registered
  <2>5. QED
    BY <2>4 DEF UsersHold
<1>14. ASSUME NEW t \in Task, InterruptOff(t) PROVE UsersHold'
  BY <1>14, <1>a, <1>b DEF InterruptOff, TypeOK, UsersHold, Using, Registered, Inst
<1>15. ASSUME NEW t \in Task, Free(t) PROVE UsersHold'
  <2>1. ptr[t] \in live /\ Inst(ptr[t]) = {}
    BY <1>15 DEF IInv, RemoversOwn, Removing, Free
  <2>2. \A m : Registered(m) => Registered(m)'
    BY <1>15, <2>1 DEF Free, Registered, Inst
  <2>3. \A u \in Task : Using(u)' => Using(u)
    BY <1>a, <1>15 DEF Free, Using, TypeOK
  <2>4. UNCHANGED <<inst, base, ptr, arg>>
    BY <1>15 DEF Free
  <2>5. QED
    BY <1>b, <2>2, <2>3, <2>4 DEF UsersHold, Registered
<1>16. CASE UNCHANGED vars
  BY <1>16, <1>a, <1>b DEF vars, TypeOK, UsersHold, Using, Registered, Inst
<1>17. QED
  BY <1>1, <1>2, <1>3, <1>4, <1>5, <1>6, <1>7, <1>8, <1>9, <1>10, <1>11,
     <1>12, <1>13, <1>14, <1>15, <1>16 DEF Next, Return

(* A mailbox that left the table stays out, with the task that frees it.   *)
LEMMA NextRemovers == IInv /\ [Next]_vars => RemoversOwn'
<1> SUFFICES ASSUME IInv, [Next]_vars PROVE RemoversOwn'
  OBVIOUS
<1> USE DEF heap, call, hist, GoTo, Inside, Found
<1>a. /\ TypeOK
      /\ None \notin Mbox
      /\ live \subseteq Mbox
  BY RegistryAssumption DEF IInv, TypeOK
<1>b. RemoversOwn
  BY DEF IInv
<1>1. ASSUME NEW t \in Task, RegisterNew(t) PROVE RemoversOwn'
  <2>1. PICK m \in Mbox \ live :
           /\ live' = live \cup {m}
           /\ \A n \in Mbox \ {m} : Inst(n)' = Inst(n)
           /\ \A n \in live : base'[n] = base[n]
    BY <1>1, RegisterEffect
  <2>2. \A u \in Task : Removing(u)' <=> Removing(u)
    BY <1>a, <1>1 DEF RegisterNew, Removing, TypeOK
  <2>3. UNCHANGED <<ptr, arg>>
    BY <1>1 DEF RegisterNew
  <2>4. ASSUME NEW u \in Task, Removing(u)'
        PROVE  /\ ptr'[u] \in live'
               /\ Inst(ptr[u])' = {}
               /\ base'[ptr'[u]] = arg'[u]
    <3>1. /\ ptr[u] \in live
          /\ ptr[u] \in Mbox \ {m}
          /\ Inst(ptr[u]) = {}
          /\ base[ptr[u]] = arg[u]
      BY <1>a, <1>b, <2>1, <2>2, <2>4 DEF RemoversOwn
    <3>2. Inst(ptr[u])' = {}
      BY <2>1, <2>3, <3>1 DEF Inst
    <3>3. QED
      BY <2>1, <2>3, <3>1, <3>2
  <2>5. \A u \in Task : Removing(u)' =>
          \A v \in Task \ {u} : Removing(v)' => ptr'[v] # ptr'[u]
    BY <1>b, <2>2, <2>3 DEF RemoversOwn
  <2>6. QED
    BY <2>4, <2>5 DEF RemoversOwn
<1>2. ASSUME NEW t \in Task, UnregisterDel(t) PROVE RemoversOwn'
  <2>1. /\ ptr[t] \in Mbox
        /\ Registered(ptr[t])
        /\ base[ptr[t]] = arg[t]
        /\ Inst(ptr[t])' = {}
        /\ \A n \in Mbox \ {ptr[t]} : Inst(n)' = Inst(n)
    BY <1>2, RemoveEffect
  <2>2. UNCHANGED <<live, base, ptr, arg>> /\ ~ Removing(t)
    BY <1>2 DEF UnregisterDel, Removing
  <2>3. \A u \in Task : Removing(u)' <=> Removing(u) \/ u = t
    BY <1>a, <1>2 DEF UnregisterDel, Removing, TypeOK
  <2>4. \A u \in Task : Removing(u) => ptr[u] # ptr[t]
    BY <1>b, <2>1 DEF RemoversOwn, Registered
  <2>5. ASSUME NEW u \in Task, Removing(u)'
        PROVE  /\ ptr'[u] \in live'
               /\ Inst(ptr[u])' = {}
               /\ base'[ptr'[u]] = arg'[u]
    <3>1. CASE u = t
      BY <2>1, <2>2, <3>1 DEF Registered
    <3>2. CASE u # t
      <4>1. /\ Removing(u)
            /\ ptr[u] \in Mbox \ {ptr[t]}
            /\ ptr[u] \in live
            /\ Inst(ptr[u]) = {}
            /\ base[ptr[u]] = arg[u]
        BY <1>a, <1>b, <2>3, <2>4, <2>5, <3>2 DEF RemoversOwn
      <4>2. Inst(ptr[u])' = {}
        BY <2>1, <2>2, <4>1 DEF Inst
      <4>3. QED
        BY <2>2, <4>1, <4>2
    <3>3. QED
      BY <3>1, <3>2
  <2>6. \A u \in Task : Removing(u)' =>
          \A v \in Task \ {u} : Removing(v)' => ptr'[v] # ptr'[u]
    BY <1>b, <2>2, <2>3, <2>4 DEF RemoversOwn
  <2>7. QED
    BY <2>5, <2>6 DEF RemoversOwn
<1>3. ASSUME NEW t \in Task, InterruptOff(t) PROVE RemoversOwn'
  BY <1>a, <1>b, <1>3 DEF InterruptOff, TypeOK, RemoversOwn, Removing, Inst
<1>4. ASSUME NEW t \in Task, Free(t) PROVE RemoversOwn'
  <2>1. Removing(t)
    BY <1>4 DEF Free, Removing
  <2>2. UNCHANGED <<inst, base, ptr, arg>> /\ live' = live \ {ptr[t]}
    BY <1>4 DEF Free
  <2>3. \A u \in Task : Removing(u)' => Removing(u) /\ u # t
    BY <1>a, <1>4 DEF Free, Removing, TypeOK
  <2>4. QED
    BY <1>b, <2>1, <2>2, <2>3 DEF RemoversOwn, Inst
<1>5. CASE HeapQuiet
  <2>1. /\ \A u \in Task : Removing(u)' <=> Removing(u)
        /\ \A u \in Task : Removing(u) => ptr'[u] = ptr[u] /\ arg'[u] = arg[u]
        /\ UNCHANGED <<inst, live, base>>
    BY <1>5 DEF HeapQuiet, Removing
  <2>2. QED
    BY <1>b, <2>1 DEF RemoversOwn, Inst
<1>6. QED
  BY <1>a, <1>1, <1>2, <1>3, <1>4, <1>5, QuietSteps

(* No page gets a second mailbox.                                          *)
LEMMA NextOneMbox == IInv /\ [Next]_vars => OneMboxPerBase'
<1> SUFFICES ASSUME IInv, [Next]_vars PROVE OneMboxPerBase'
  OBVIOUS
<1> USE DEF heap, call, hist, GoTo, Inside, Found
<1>a. /\ TypeOK
      /\ None \notin Mbox
      /\ live \subseteq Mbox
  BY RegistryAssumption DEF IInv, TypeOK
<1>b. OneMboxPerBase
  BY DEF IInv
<1>1. ASSUME NEW t \in Task, RegisterNew(t) PROVE OneMboxPerBase'
  <2>1. PICK m \in Mbox \ live :
           /\ live' = live \cup {m}
           /\ base' = [base EXCEPT ![m] = arg[t]]
           /\ \/ inst' = inst
              \/ \E i \in Slot : inst[i] = None /\ inst' = [inst EXCEPT ![i] = m]
           /\ \A n \in live : base'[n] = base[n]
           /\ \A n \in Mbox : Registered(n) => base[n] # arg[t]
    BY <1>1, RegisterEffect
  <2>2. \A i \in Slot : inst[i] # None =>
          /\ inst[i] \in live
          /\ base'[inst[i]] = base[inst[i]]
          /\ base[inst[i]] # arg[t]
    BY <1>a, <1>b, <2>1 DEF OneMboxPerBase, Registered, Inst
  <2>3. CASE inst' = inst
    BY <1>b, <2>1, <2>2, <2>3 DEF OneMboxPerBase
  <2>4. ASSUME NEW k \in Slot, inst[k] = None, inst' = [inst EXCEPT ![k] = m]
        PROVE  OneMboxPerBase'
    <3>1. \A i \in Slot : inst'[i] = IF i = k THEN m ELSE inst[i]
      BY <1>a, <2>4 DEF TypeOK
    <3>2. base'[m] = arg[t] /\ m \in live'
      BY <1>a, <2>1 DEF TypeOK
    <3>3. QED
      BY <1>b, <2>1, <2>2, <2>4, <3>1, <3>2 DEF OneMboxPerBase
  <2>5. QED
    BY <2>1, <2>3, <2>4
<1>2. ASSUME NEW t \in Task, UnregisterDel(t) PROVE OneMboxPerBase'
  <2>1. inst' = [i \in Slot |-> IF inst[i] = ptr[t] THEN None ELSE inst[i]]
    BY <1>2 DEF UnregisterDel
  <2>2. UNCHANGED <<live, base>>
    BY <1>2 DEF UnregisterDel
  <2>3. QED
    BY <1>b, <2>1, <2>2 DEF OneMboxPerBase
<1>3. ASSUME NEW t \in Task, InterruptOff(t) PROVE OneMboxPerBase'
  BY <1>a, <1>b, <1>3 DEF InterruptOff, OneMboxPerBase
<1>4. ASSUME NEW t \in Task, Free(t) PROVE OneMboxPerBase'
  <2>1. UNCHANGED <<inst, base>> /\ live' = live \ {ptr[t]}
    BY <1>4 DEF Free
  <2>2. Inst(ptr[t]) = {}
    BY <1>4 DEF IInv, RemoversOwn, Removing, Free
  <2>3. QED
    BY <1>b, <2>1, <2>2 DEF OneMboxPerBase, Inst
<1>5. CASE HeapQuiet
  BY <1>a, <1>b, <1>5 DEF HeapQuiet, OneMboxPerBase
<1>6. QED
  BY <1>a, <1>1, <1>2, <1>3, <1>4, <1>5, QuietSteps

(* An interrupt is given to a mailbox that is allocated.                   *)
LEMMA NextIrqOfPage == IInv /\ [Next]_vars => IrqOfPage'
<1> SUFFICES ASSUME IInv, [Next]_vars PROVE IrqOfPage'
  OBVIOUS
<1> USE DEF heap, call, hist, GoTo, Inside, Found
<1>a. /\ TypeOK
      /\ None \notin Mbox
      /\ live \subseteq Mbox
  BY RegistryAssumption DEF IInv, TypeOK
<1>b. IrqOfPage
  BY DEF IInv
<1>1. ASSUME NEW t \in Task, RegisterNew(t) PROVE IrqOfPage'
  <2>1. PICK m \in Mbox \ live :
           /\ live' = live \cup {m}
           /\ base' = [base EXCEPT ![m] = arg[t]]
           /\ irq'  = [irq EXCEPT ![arg[t]] = m]
           /\ \A n \in live : base'[n] = base[n]
    BY <1>1, RegisterEffect
  <2>2. arg[t] \in Base /\ base \in [Mbox -> Base] /\ irq \in [Base -> Mbox \cup {None}]
    BY <1>a DEF TypeOK
  <2>3. QED
    BY <1>a, <1>b, <2>1, <2>2 DEF IrqOfPage
<1>2. ASSUME NEW t \in Task, UnregisterDel(t) PROVE IrqOfPage'
  BY <1>b, <1>2 DEF UnregisterDel, IrqOfPage
<1>3. ASSUME NEW t \in Task, InterruptOff(t) PROVE IrqOfPage'
  BY <1>a, <1>b, <1>3 DEF InterruptOff, IrqOfPage, TypeOK
<1>4. ASSUME NEW t \in Task, Free(t) PROVE IrqOfPage'
  <2>1. UNCHANGED <<irq, base>> /\ live' = live \ {ptr[t]}
    BY <1>4 DEF Free
  <2>2. \A b \in Base : irq[b] # ptr[t]
    BY <1>4 DEF IInv, IrqOffFirst, Free
  <2>3. QED
    BY <1>b, <2>1, <2>2 DEF IrqOfPage
<1>5. CASE HeapQuiet
  BY <1>b, <1>5 DEF HeapQuiet, IrqOfPage
<1>6. QED
  BY <1>a, <1>1, <1>2, <1>3, <1>4, <1>5, QuietSteps

(* A freed mailbox is given no interrupt.                                  *)
LEMMA NextIrqOffFirst == IInv /\ [Next]_vars => IrqOffFirst'
<1> SUFFICES ASSUME IInv, [Next]_vars PROVE IrqOffFirst'
  OBVIOUS
<1> USE DEF heap, call, hist, GoTo, Inside, Found
<1>a. /\ TypeOK
      /\ None \notin Mbox
      /\ live \subseteq Mbox
  BY RegistryAssumption DEF IInv, TypeOK
<1>b. IrqOffFirst
  BY DEF IInv
<1>1. ASSUME NEW t \in Task, RegisterNew(t) PROVE IrqOffFirst'
  <2>1. PICK m \in Mbox \ live : irq' = [irq EXCEPT ![arg[t]] = m]
    BY <1>1, RegisterEffect
  <2>2. \A u \in Task : pc'[u] = "free" => pc[u] = "free" /\ ptr[u] \in live
    BY <1>a, <1>1 DEF RegisterNew, TypeOK, IInv, RemoversOwn, Removing
  <2>3. ptr' = ptr /\ irq \in [Base -> Mbox \cup {None}]
    BY <1>a, <1>1 DEF RegisterNew, TypeOK
  <2>4. QED
    BY <1>b, <2>1, <2>2, <2>3 DEF IrqOffFirst
<1>2. ASSUME NEW t \in Task, UnregisterDel(t) PROVE IrqOffFirst'
  BY <1>a, <1>b, <1>2 DEF UnregisterDel, TypeOK, IrqOffFirst, Removing
<1>3. ASSUME NEW t \in Task, InterruptOff(t) PROVE IrqOffFirst'
  <2>1. /\ irq' = [irq EXCEPT ![arg[t]] = None]
        /\ irq \in [Base -> Mbox \cup {None}]
        /\ UNCHANGED ptr
    BY <1>a, <1>3 DEF InterruptOff, TypeOK
  <2>2. /\ \A u \in Task : pc'[u] = "free" => pc[u] = "free" \/ u = t
        /\ \A u \in Task : pc[u] = "free" => ptr[u] \in live
        /\ ptr[t] \in live
        /\ base[ptr[t]] = arg[t]
    BY <1>a, <1>3 DEF InterruptOff, TypeOK, IInv, RemoversOwn, Removing
  <2>3. \A b \in Base : irq[b] = ptr[t] => b = arg[t]
    BY <1>a, <2>2 DEF IInv, IrqOfPage
  <2>4. QED
    BY <1>a, <1>b, <2>1, <2>2, <2>3 DEF IrqOffFirst
<1>4. ASSUME NEW t \in Task, Free(t) PROVE IrqOffFirst'
  BY <1>a, <1>b, <1>4 DEF Free, TypeOK, IrqOffFirst, Removing
<1>5. CASE HeapQuiet
  BY <1>a, <1>b, <1>5 DEF HeapQuiet, TypeOK, IrqOffFirst, Removing
<1>6. QED
  BY <1>a, <1>1, <1>2, <1>3, <1>4, <1>5, QuietSteps

(* A registered mailbox loses its interrupt only to a late removal.        *)
LEMMA NextIrqGiven == IInv /\ [Next]_vars => IrqGiven'
<1> SUFFICES ASSUME IInv, [Next]_vars PROVE IrqGiven'
  OBVIOUS
<1> USE DEF heap, call, hist, GoTo, Inside, Found
<1>a. /\ TypeOK
      /\ None \notin Mbox
      /\ live \subseteq Mbox
  BY RegistryAssumption DEF IInv, TypeOK
<1>b. IrqGiven
  BY DEF IInv
<1>1. ASSUME NEW t \in Task, RegisterNew(t) PROVE IrqGiven'
  <2>1. PICK m \in Mbox \ live :
           /\ live' = live \cup {m}
           /\ base' = [base EXCEPT ![m] = arg[t]]
           /\ irq'  = [irq EXCEPT ![arg[t]] = m]
           /\ torn' = IF \E u \in Task : pc[u] = "destroy" /\ arg[u] = arg[t]
                        THEN torn \cup {m}
                        ELSE torn \ {m}
           /\ \A n \in Mbox \ {m} : Inst(n)' = Inst(n)
           /\ \A n \in live : base'[n] = base[n]
           /\ \A n \in Mbox : Registered(n) => base[n] # arg[t]
    BY <1>1, RegisterEffect
  <2>2. /\ arg[t] \in Base
        /\ base \in [Mbox -> Base]
        /\ irq \in [Base -> Mbox \cup {None}]
        /\ arg' = arg
        /\ \A u \in Task : pc'[u] = "destroy" => pc[u] = "destroy"
    BY <1>a, <1>1 DEF RegisterNew, TypeOK
  <2>3. ASSUME NEW n \in Mbox, Registered(n)'
        PROVE  /\ irq'[base'[n]] = n \/ n \in torn'
               /\ \A u \in Task : pc'[u] = "destroy" /\ arg'[u] = base'[n] => n \in torn'
    <3>1. CASE n = m
      BY <2>1, <2>2, <3>1
    <3>2. CASE n # m
      <4>1. Registered(n) /\ n \in live /\ base'[n] = base[n] /\ base[n] # arg[t]
        BY <2>1, <2>3, <3>2 DEF Registered
      <4>2. irq'[base'[n]] = irq[base[n]] /\ (n \in torn <=> n \in torn')
        BY <2>1, <2>2, <3>2, <4>1
      <4>3. QED
        BY <1>b, <2>2, <4>1, <4>2 DEF IrqGiven
    <3>3. QED
      BY <3>1, <3>2
  <2>4. QED
    BY <2>3 DEF IrqGiven
<1>2. ASSUME NEW t \in Task, UnregisterDel(t) PROVE IrqGiven'
  <2>1. /\ Registered(ptr[t])
        /\ ptr[t] \in Mbox
        /\ base[ptr[t]] = arg[t]
        /\ Inst(ptr[t])' = {}
        /\ \A n \in Mbox \ {ptr[t]} : Inst(n)' = Inst(n)
    BY <1>2, RemoveEffect
  <2>2. /\ UNCHANGED <<live, base, irq, torn, arg, ptr>>
        /\ \A u \in Task : pc'[u] = "destroy" => pc[u] = "destroy" \/ u = t
    BY <1>a, <1>2 DEF UnregisterDel, TypeOK
  <2>3. ASSUME NEW n \in Mbox, Registered(n)'
        PROVE  /\ Registered(n)
               /\ base[n] # arg[t]
    <3>1. n # ptr[t]
      <4>1. Inst(n)' # {}
        BY <2>3 DEF Registered
      <4>2. QED
        BY <2>1, <2>2, <4>1 DEF Inst
    <3>2. Registered(n)
      BY <2>1, <2>2, <2>3, <3>1 DEF Registered
    <3>3. base[n] # base[ptr[t]]
      BY <2>1, <3>1, <3>2, SamePage DEF Registered, IInv
    <3>4. QED
      BY <2>1, <3>2, <3>3
  <2>4. QED
    BY <1>b, <2>2, <2>3 DEF IrqGiven
<1>3. ASSUME NEW t \in Task, InterruptOff(t) PROVE IrqGiven'
  <2>1. /\ irq' = [irq EXCEPT ![arg[t]] = None]
        /\ irq \in [Base -> Mbox \cup {None}]
        /\ base \in [Mbox -> Base]
        /\ UNCHANGED <<inst, live, base, torn, arg>>
        /\ pc[t] = "destroy"
        /\ \A u \in Task : pc'[u] = "destroy" => pc[u] = "destroy"
    BY <1>a, <1>3 DEF InterruptOff, TypeOK
  <2>2. \A n \in Mbox : Registered(n)' => Registered(n)
    BY <2>1 DEF Registered, Inst
  <2>3. QED
    BY <1>b, <2>1, <2>2 DEF IrqGiven
<1>4. ASSUME NEW t \in Task, Free(t) PROVE IrqGiven'
  <2>1. \A n \in Mbox : Registered(n)' => Registered(n)
    BY <1>4 DEF Free, Registered, Inst
  <2>2. /\ UNCHANGED <<base, irq, torn, arg>>
        /\ \A u \in Task : pc'[u] = "destroy" => pc[u] = "destroy"
    BY <1>a, <1>4 DEF Free, TypeOK
  <2>3. QED
    BY <1>b, <2>1, <2>2 DEF IrqGiven
<1>5. CASE HeapQuiet
  BY <1>a, <1>b, <1>5 DEF HeapQuiet, TypeOK, IrqGiven, Registered, Inst, Removing
<1>6. QED
  BY <1>a, <1>1, <1>2, <1>3, <1>4, <1>5, QuietSteps

(* A registered callback keeps its mailbox in the table.                   *)
LEMMA NextOwed == IInv /\ [Next]_vars => OwedCovers'
<1> SUFFICES ASSUME IInv, [Next]_vars PROVE OwedCovers'
  OBVIOUS
<1> USE DEF heap, call, hist, Inside, Found
<1>a. /\ TypeOK
      /\ None \notin Mbox
      /\ live \subseteq Mbox
  BY RegistryAssumption DEF IInv, TypeOK
<1>b. OwedCovers /\ \A b \in Base : owed[b] \in Nat
  BY DEF IInv, TypeOK
<1>c. \A t \in Task, p \in Pc, b \in Base :
        GoTo(t, p) /\ UNCHANGED <<op, arg>> /\ pc[t] # "idle" =>
          /\ Cardinality(Unregistering(b)) \in Nat
          /\ Cardinality(Unregistering(b)') \in Nat
          /\ Cardinality(Unregistering(b)') <= Cardinality(Unregistering(b))
  BY <1>a, UnregisteringStep
<1>d. \A b \in Base : Cardinality(Unregistering(b)) <= owed[b]
  BY <1>b DEF OwedCovers
<1>e. \A t \in Task, p \in Pc :
        GoTo(t, p) /\ UNCHANGED <<inst, base, op, arg, owed>> /\ pc[t] # "idle" =>
          OwedCovers'
  <2> SUFFICES ASSUME NEW t \in Task, NEW p \in Pc, GoTo(t, p), pc[t] # "idle",
                      UNCHANGED <<inst, base, op, arg, owed>>
               PROVE  OwedCovers'
    OBVIOUS
  <2>1. \A b \in Base : Cardinality(Unregistering(b)') <= owed'[b]
    BY <1>b, <1>c, <1>d
  <2>2. \A b \in Base : Entries(b)' = Entries(b)
    BY DEF Entries
  <2>3. QED
    BY <1>b, <2>1, <2>2 DEF OwedCovers
<1>1. ASSUME NEW t \in Task, NEW o \in Op, NEW b \in Base, Call(t, o, b)
      PROVE  OwedCovers'
  <2>1. /\ pc[t] = "idle"
        /\ UNCHANGED <<inst, base, owed>>
        /\ op' = [op EXCEPT ![t] = o]
        /\ arg' = [arg EXCEPT ![t] = b]
        /\ pc' = [pc EXCEPT ![t] = "want"]
        /\ op \in [Task -> Op] /\ arg \in [Task -> Base] /\ pc \in [Task -> Pc]
    BY <1>a, <1>1 DEF Call, TypeOK, GoTo
  <2>2. o = "unregcb" => owed[b] > Cardinality(Unregistering(b))
    BY <1>1 DEF Call, Unregistering
  <2>3. ASSUME NEW d \in Base
        PROVE  Cardinality(Unregistering(d)') <= owed'[d]
    <3>1. IsFiniteSet(Unregistering(d)) /\ Cardinality(Unregistering(d)) \in Nat
      BY TasksFinite DEF Unregistering
    <3>2. \A u : u # t => (u \in Unregistering(d) <=> u \in Unregistering(d)')
      BY <2>1 DEF Unregistering
    <3>3. t \notin Unregistering(d)
      BY <2>1 DEF Unregistering
    <3>4. t \in Unregistering(d)' <=> o = "unregcb" /\ d = b
      BY <2>1 DEF Unregistering
    <3>5. Cardinality(Unregistering(d)')
            = Cardinality(Unregistering(d))
                + (IF o = "unregcb" /\ d = b THEN 1 ELSE 0)
      BY <3>1, <3>2, <3>3, <3>4, CountStep
    <3>6. QED
      BY <1>b, <1>d, <2>1, <2>2, <3>1, <3>5
  <2>4. \A d \in Base : Entries(d)' = Entries(d)
    BY <2>1 DEF Entries
  <2>5. QED
    BY <1>b, <2>1, <2>3, <2>4 DEF OwedCovers
<1>2. ASSUME NEW t \in Task, Acquire(t) PROVE OwedCovers'
  BY <1>e, <1>2 DEF Acquire, Pc
<1>3. ASSUME NEW t \in Task, NotFound(t) PROVE OwedCovers'
  BY <1>e, <1>3 DEF NotFound, Pc
<1>4. ASSUME NEW t \in Task, RegisterNothing(t) PROVE OwedCovers'
  BY <1>e, <1>4 DEF RegisterNothing, Pc
<1>5. ASSUME NEW t \in Task, RegisterNew(t) PROVE OwedCovers'
  <2>1. PICK m \in Mbox \ live :
           /\ \A i \in Slot : inst[i] # None => inst'[i] = inst[i]
           /\ \A n \in live : base'[n] = base[n]
    BY <1>5, RegisterEffect
  <2>2. \A b \in Base : Cardinality(Unregistering(b)') <= owed'[b]
    BY <1>b, <1>c, <1>d, <1>5 DEF RegisterNew, Pc
  <2>3. \A b \in Base : Entries(b) \subseteq Entries(b)'
    BY <2>1 DEF Entries, IInv, OneMboxPerBase
  <2>4. QED
    BY <1>b, <1>5, <2>2, <2>3 DEF OwedCovers, RegisterNew
<1>6. ASSUME NEW t \in Task, GetRef(t) PROVE OwedCovers'
  <2>1. GoTo(t, IF op[t] = "send" THEN "xfer" ELSE "setcb")
    BY <1>6 DEF GetRef
  <2>2. QED
    BY <1>e, <1>6, <2>1 DEF GetRef, Pc
<1>7. ASSUME NEW t \in Task, SetCallback(t) PROVE OwedCovers'
  <2>1. /\ owed' = [owed EXCEPT ![arg[t]] = @ + 1]
        /\ owed \in [Base -> Nat]
        /\ UNCHANGED <<inst, base>>
        /\ arg[t] \in Base
    BY <1>a, <1>7 DEF SetCallback, TypeOK
  <2>2. Entries(arg[t]) # {}
    BY <1>a, <1>7 DEF SetCallback, IInv, UsersHold, Using, Registered, Inst, Entries
  <2>3. \A b \in Base : Cardinality(Unregistering(b)') <= Cardinality(Unregistering(b))
    BY <1>c, <1>7 DEF SetCallback, Pc
  <2>4. \A b \in Base : Cardinality(Unregistering(b)') \in Nat
                          /\ Cardinality(Unregistering(b)) \in Nat
    BY <1>c, <1>7 DEF SetCallback, Pc
  <2>5. \A b \in Base : Entries(b)' = Entries(b)
    BY <2>1 DEF Entries
  <2>6. QED
    BY <1>b, <1>d, <2>1, <2>2, <2>3, <2>4, <2>5 DEF OwedCovers
<1>8. ASSUME NEW t \in Task, Transmit(t) PROVE OwedCovers'
  BY <1>e, <1>8 DEF Transmit, Pc
<1>9. ASSUME NEW t \in Task, ChannelBusy(t) PROVE OwedCovers'
  BY <1>e, <1>9 DEF ChannelBusy, Pc
<1>10. ASSUME NEW t \in Task, PutRef(t) PROVE OwedCovers'
  BY <1>e, <1>10 DEF PutRef, Pc
<1>11. ASSUME NEW t \in Task, UnregisterCallback(t) PROVE OwedCovers'
  <2>1. /\ owed' = [owed EXCEPT ![arg[t]] = @ - 1]
        /\ owed \in [Base -> Nat]
        /\ UNCHANGED <<inst, base>>
        /\ arg[t] \in Base
        /\ GoTo(t, "idle")
        /\ UNCHANGED <<op, arg>>
        /\ pc[t] # "idle"
        /\ op[t] = "unregcb"
    BY <1>a, <1>11 DEF UnregisterCallback, TypeOK
  <2>2. \A b \in Base :
          b = arg[t] => Cardinality(Unregistering(b)') = Cardinality(Unregistering(b)) - 1
    BY <1>a, <2>1, UnregisteringStep DEF Pc
  <2>3. \A b \in Base : /\ Cardinality(Unregistering(b)') <= Cardinality(Unregistering(b))
                        /\ Cardinality(Unregistering(b)') \in Nat
                        /\ Cardinality(Unregistering(b)) \in Nat
    BY <1>c, <2>1 DEF Pc
  <2>4. \A b \in Base : Entries(b)' = Entries(b)
    BY <2>1 DEF Entries
  <2>5. \A b \in Base : owed'[b] = IF b = arg[t] THEN owed[b] - 1 ELSE owed[b]
    BY <2>1
  <2>6. QED
    BY <1>b, <1>d, <2>2, <2>3, <2>4, <2>5 DEF OwedCovers
<1>12. ASSUME NEW t \in Task, UnregisterRefused(t) PROVE OwedCovers'
  BY <1>e, <1>12 DEF UnregisterRefused, Pc
<1>13. ASSUME NEW t \in Task, UnregisterDel(t) PROVE OwedCovers'
  <2>1. /\ base[ptr[t]] = arg[t]
        /\ owed[arg[t]] = 0
        /\ \A i \in Slot : inst[i] # ptr[t] => inst'[i] = inst[i]
    BY <1>13, RemoveEffect
  <2>2. \A b \in Base : Cardinality(Unregistering(b)') <= owed'[b]
    BY <1>b, <1>c, <1>d, <1>13 DEF UnregisterDel, Pc
  <2>3. \A b \in Base : b # arg[t] => Entries(b) \subseteq Entries(b)'
    BY <1>13, <2>1 DEF Entries, UnregisterDel
  <2>4. QED
    BY <1>b, <1>13, <2>1, <2>2, <2>3 DEF OwedCovers, UnregisterDel
<1>14. ASSUME NEW t \in Task, InterruptOff(t) PROVE OwedCovers'
  BY <1>e, <1>14 DEF InterruptOff, Pc
<1>15. ASSUME NEW t \in Task, Free(t) PROVE OwedCovers'
  BY <1>e, <1>15 DEF Free, Pc
<1>16. CASE UNCHANGED vars
  <2>1. \A b \in Base : Unregistering(b)' = Unregistering(b) /\ Entries(b)' = Entries(b)
    BY <1>16 DEF vars, Unregistering, Entries
  <2>2. QED
    BY <1>b, <1>16, <2>1 DEF vars, OwedCovers
<1>17. QED
  BY <1>1, <1>2, <1>3, <1>4, <1>5, <1>6, <1>7, <1>8, <1>9, <1>10, <1>11,
     <1>12, <1>13, <1>14, <1>15, <1>16 DEF Next, Return

(* ref_cnt moves with the calls, callbacks and lost references it counts.  *)
LEMMA NextRefs == IInv /\ [Next]_vars => RefsAccounted'
<1> SUFFICES ASSUME IInv, [Next]_vars PROVE RefsAccounted'
  OBVIOUS
<1> USE DEF heap, call, hist, Inside, Found
<1>a. /\ TypeOK
      /\ None \notin Mbox
      /\ live \subseteq Mbox
  BY RegistryAssumption DEF IInv, TypeOK
<1>b. /\ \A m \in Mbox : Registered(m) =>
           ref[m] = Cardinality(Users(m)) + owed[base[m]] + leaked[m]
      /\ ref \in [Mbox -> Int]
      /\ leaked \in [Mbox -> Nat]
      /\ owed \in [Base -> Nat]
      /\ base \in [Mbox -> Base]
      /\ pc \in [Task -> Pc]
  BY <1>a DEF IInv, RefsAccounted, Registered, Users, TypeOK
<1>c. \A t \in Task, p \in Pc, m \in Mbox :
        GoTo(t, p) /\ ptr' = ptr =>
          /\ Cardinality(Users(m)) \in Nat
          /\ Using(t) /\ ptr[t] = m => Cardinality(Users(m)) > 0
          /\ Cardinality(Users(m)') = Cardinality(Users(m))
               + (IF p \in {"xfer", "put", "setcb"} /\ ptr[t] = m THEN 1 ELSE 0)
               - (IF Using(t) /\ ptr[t] = m THEN 1 ELSE 0)
  BY <1>a, UsersStep
<1>d. SUFFICES \A m \in Mbox : Registered(m)' =>
                 ref'[m] = Cardinality(Users(m)') + owed'[base'[m]] + leaked'[m]
  <2>1. \A m : Registered(m)' => m \in live'
    BY DEF Registered
  <2>2. live' \subseteq Mbox
    BY NextTyped DEF TypeOK
  <2>3. QED
    BY <2>1, <2>2 DEF RefsAccounted, Registered, Users
<1>e. \A t \in Task, p \in Pc :
        /\ GoTo(t, p)
        /\ p \in {"xfer", "put", "setcb"} <=> Using(t)
        /\ UNCHANGED <<inst, live, base, ref, ptr, owed, leaked>>
        => \A m \in Mbox : Registered(m)' =>
             ref'[m] = Cardinality(Users(m)') + owed'[base'[m]] + leaked'[m]
  <2> SUFFICES ASSUME NEW t \in Task, NEW p \in Pc, GoTo(t, p),
                      p \in {"xfer", "put", "setcb"} <=> Using(t),
                      UNCHANGED <<inst, live, base, ref, ptr, owed, leaked>>,
                      NEW m \in Mbox, Registered(m)'
               PROVE  ref'[m] = Cardinality(Users(m)') + owed'[base'[m]] + leaked'[m]
    OBVIOUS
  <2>1. Registered(m)
    BY DEF Registered, Inst
  <2>2. Cardinality(Users(m)') = Cardinality(Users(m))
    BY <1>c
  <2>3. QED
    BY <1>b, <2>1, <2>2
<1>f. \A t \in Task : Using(t) => Registered(ptr[t]) /\ ptr[t] \in Mbox
                                    /\ base[ptr[t]] = arg[t]
  BY <1>a DEF IInv, UsersHold, Registered
<1>g. \A m, n \in Mbox : Registered(m) /\ Registered(n) /\ base[m] = base[n] => m = n
  BY SamePage DEF IInv, Registered
<1>1. ASSUME NEW t \in Task, NEW o \in Op, NEW b \in Base, Call(t, o, b)
      PROVE  \A m \in Mbox : Registered(m)' =>
               ref'[m] = Cardinality(Users(m)') + owed'[base'[m]] + leaked'[m]
  BY <1>e, <1>1 DEF Call, Using, Pc
<1>2. ASSUME NEW t \in Task, Acquire(t)
      PROVE  \A m \in Mbox : Registered(m)' =>
               ref'[m] = Cardinality(Users(m)') + owed'[base'[m]] + leaked'[m]
  <2>1. /\ UNCHANGED <<inst, live, base, ref, owed, leaked>>
        /\ GoTo(t, "in")
        /\ ~ Using(t)
        /\ \A u \in Task \ {t} : ptr'[u] = ptr[u]
    BY <1>a, <1>2 DEF Acquire, Using, TypeOK
  <2>2. \A m \in Mbox : Cardinality(Users(m)) \in Nat
                          /\ Cardinality(Users(m)') = Cardinality(Users(m))
    BY <1>a, <2>1, UsersStep DEF Pc
  <2>3. \A m \in Mbox : Registered(m)' => Registered(m)
    BY <2>1 DEF Registered, Inst
  <2>4. QED
    BY <1>b, <2>1, <2>2, <2>3
<1>3. ASSUME NEW t \in Task, NotFound(t)
      PROVE  \A m \in Mbox : Registered(m)' =>
               ref'[m] = Cardinality(Users(m)') + owed'[base'[m]] + leaked'[m]
  BY <1>e, <1>3 DEF NotFound, Using, Pc
<1>4. ASSUME NEW t \in Task, RegisterNothing(t)
      PROVE  \A m \in Mbox : Registered(m)' =>
               ref'[m] = Cardinality(Users(m)') + owed'[base'[m]] + leaked'[m]
  BY <1>e, <1>4 DEF RegisterNothing, Using, Pc
<1>5. ASSUME NEW t \in Task, RegisterNew(t)
      PROVE  \A m \in Mbox : Registered(m)' =>
               ref'[m] = Cardinality(Users(m)') + owed'[base'[m]] + leaked'[m]
  <2>1. PICK m \in Mbox \ live :
           /\ live' = live \cup {m}
           /\ base' = [base EXCEPT ![m] = arg[t]]
           /\ ref'  = [ref EXCEPT ![m] = 0]
           /\ leaked' = [leaked EXCEPT ![m] = 0]
           /\ \A n \in Mbox \ {m} : Inst(n)' = Inst(n)
           /\ \A n \in Mbox : Registered(n) => base[n] # arg[t]
    BY <1>5, RegisterEffect
  <2>2. /\ owed' = owed
        /\ ptr' = ptr
        /\ GoTo(t, "idle")
        /\ ~ Using(t)
        /\ arg[t] \in Base
        /\ Entries(arg[t]) = {}
    BY <1>a, <1>5 DEF RegisterNew, Using, TypeOK, IInv, LookupHolds
  <2>3. \A n \in Mbox : Cardinality(Users(n)) \in Nat
                          /\ Cardinality(Users(n)') = Cardinality(Users(n))
    BY <1>c, <2>2 DEF Pc
  <2>4. Cardinality(Users(m)) = 0
    <3>1. Users(m) = {}
      BY <1>f, <2>1 DEF Users, Registered
    <3>2. QED
      BY <3>1, FS_EmptySet
  <2>5. owed[arg[t]] = 0
    BY <1>b, <2>2 DEF IInv, OwedCovers
  <2>6. ASSUME NEW n \in Mbox, Registered(n)'
        PROVE  ref'[n] = Cardinality(Users(n)') + owed'[base'[n]] + leaked'[n]
    <3>1. CASE n = m
      <4>1. base'[n] = arg[t] /\ ref'[n] = 0 /\ leaked'[n] = 0
        BY <1>b, <2>1, <3>1
      <4>2. QED
        BY <2>2, <2>3, <2>4, <2>5, <3>1, <4>1
    <3>2. CASE n # m
      <4>1. Registered(n) /\ base'[n] = base[n] /\ ref'[n] = ref[n] /\ leaked'[n] = leaked[n]
        BY <1>b, <2>1, <2>6, <3>2 DEF Registered
      <4>2. QED
        BY <1>b, <2>2, <2>3, <4>1
    <3>3. QED
      BY <3>1, <3>2
  <2>7. QED
    BY <2>6
<1>6. ASSUME NEW t \in Task, GetRef(t)
      PROVE  \A m \in Mbox : Registered(m)' =>
               ref'[m] = Cardinality(Users(m)') + owed'[base'[m]] + leaked'[m]
  <2>1. /\ UNCHANGED <<inst, live, base, ptr, owed, leaked>>
        /\ ref' = [ref EXCEPT ![ptr[t]] = @ + 1]
        /\ ~ Using(t)
        /\ ptr[t] \in Mbox
    BY <1>a, <1>6 DEF GetRef, AddRef, Using, TypeOK
  <2>2. PICK p \in {"xfer", "setcb"} : GoTo(t, p)
    BY <1>6 DEF GetRef
  <2>3. \A m \in Mbox : /\ Cardinality(Users(m)) \in Nat
                        /\ Cardinality(Users(m)') = Cardinality(Users(m))
                             + (IF ptr[t] = m THEN 1 ELSE 0)
    BY <1>c, <2>1, <2>2 DEF Pc
  <2>4. \A m \in Mbox : Registered(m)' => Registered(m)
    BY <2>1 DEF Registered, Inst
  <2>5. \A m \in Mbox : ref'[m] = ref[m] + (IF ptr[t] = m THEN 1 ELSE 0)
    BY <1>b, <2>1
  <2>6. QED
    BY <1>b, <2>1, <2>3, <2>4, <2>5
<1>7. ASSUME NEW t \in Task, SetCallback(t)
      PROVE  \A m \in Mbox : Registered(m)' =>
               ref'[m] = Cardinality(Users(m)') + owed'[base'[m]] + leaked'[m]
  <2>1. /\ UNCHANGED <<inst, live, base, ptr, ref, leaked>>
        /\ owed' = [owed EXCEPT ![arg[t]] = @ + 1]
        /\ Using(t)
        /\ GoTo(t, "idle")
        /\ arg[t] \in Base
    BY <1>a, <1>7 DEF SetCallback, Using, TypeOK
  <2>2. \A m \in Mbox : /\ Cardinality(Users(m)) \in Nat
                        /\ Cardinality(Users(m)') = Cardinality(Users(m))
                             - (IF ptr[t] = m THEN 1 ELSE 0)
    BY <1>c, <2>1 DEF Pc
  <2>3. \A m \in Mbox : Registered(m)' => Registered(m)
    BY <2>1 DEF Registered, Inst
  <2>4. \A m \in Mbox : Registered(m) =>
          owed'[base[m]] = owed[base[m]] + (IF ptr[t] = m THEN 1 ELSE 0)
    BY <1>b, <1>f, <1>g, <2>1
  <2>5. \A m \in Mbox : owed[base[m]] \in Nat /\ leaked[m] \in Nat
    BY <1>b
  <2>6. QED
    BY <1>b, <2>1, <2>2, <2>3, <2>4, <2>5
<1>8. ASSUME NEW t \in Task, Transmit(t)
      PROVE  \A m \in Mbox : Registered(m)' =>
               ref'[m] = Cardinality(Users(m)') + owed'[base'[m]] + leaked'[m]
  BY <1>e, <1>8 DEF Transmit, Using, Pc
<1>9. ASSUME NEW t \in Task, ChannelBusy(t)
      PROVE  \A m \in Mbox : Registered(m)' =>
               ref'[m] = Cardinality(Users(m)') + owed'[base'[m]] + leaked'[m]
  <2>1. /\ UNCHANGED <<inst, live, base, ptr, ref, owed>>
        /\ leaked' = [leaked EXCEPT ![ptr[t]] = @ + 1]
        /\ Using(t)
        /\ GoTo(t, "idle")
    BY <1>9 DEF ChannelBusy, Using
  <2>2. \A m \in Mbox : /\ Cardinality(Users(m)) \in Nat
                        /\ Cardinality(Users(m)') = Cardinality(Users(m))
                             - (IF ptr[t] = m THEN 1 ELSE 0)
    BY <1>c, <2>1 DEF Pc
  <2>3. \A m \in Mbox : Registered(m)' => Registered(m)
    BY <2>1 DEF Registered, Inst
  <2>4. \A m \in Mbox : leaked'[m] = leaked[m] + (IF ptr[t] = m THEN 1 ELSE 0)
    BY <1>b, <2>1
  <2>5. \A m \in Mbox : owed[base[m]] \in Nat /\ leaked[m] \in Nat
    BY <1>b
  <2>6. QED
    BY <1>b, <2>1, <2>2, <2>3, <2>4, <2>5
<1>10. ASSUME NEW t \in Task, PutRef(t)
      PROVE  \A m \in Mbox : Registered(m)' =>
               ref'[m] = Cardinality(Users(m)') + owed'[base'[m]] + leaked'[m]
  <2>1. /\ UNCHANGED <<inst, live, base, ptr, owed, leaked>>
        /\ ref' = [ref EXCEPT ![ptr[t]] = @ - 1]
        /\ Using(t)
        /\ GoTo(t, "idle")
    <3>1. ref[ptr[t]] + (-1) = ref[ptr[t]] - 1
      BY <1>b, <1>f, <1>10 DEF PutRef, Using
    <3>2. QED
      BY <1>10, <3>1 DEF PutRef, AddRef, Using
  <2>2. \A m \in Mbox : /\ Cardinality(Users(m)) \in Nat
                        /\ Cardinality(Users(m)') = Cardinality(Users(m))
                             - (IF ptr[t] = m THEN 1 ELSE 0)
    BY <1>c, <2>1 DEF Pc
  <2>3. \A m \in Mbox : Registered(m)' => Registered(m)
    BY <2>1 DEF Registered, Inst
  <2>4. \A m \in Mbox : ref'[m] = ref[m] - (IF ptr[t] = m THEN 1 ELSE 0)
    BY <1>b, <2>1
  <2>5. \A m \in Mbox : owed[base[m]] \in Nat /\ leaked[m] \in Nat
    BY <1>b
  <2>6. QED
    BY <1>b, <2>1, <2>2, <2>3, <2>4, <2>5
<1>11. ASSUME NEW t \in Task, UnregisterCallback(t)
      PROVE  \A m \in Mbox : Registered(m)' =>
               ref'[m] = Cardinality(Users(m)') + owed'[base'[m]] + leaked'[m]
  <2>1. /\ UNCHANGED <<inst, live, base, ptr, leaked>>
        /\ owed' = [owed EXCEPT ![arg[t]] = @ - 1]
        /\ ~ Using(t)
        /\ GoTo(t, "idle")
        /\ arg[t] \in Base
        /\ ptr[t] \in Mbox
        /\ Registered(ptr[t])
        /\ base[ptr[t]] = arg[t]
    BY <1>a, <1>11 DEF UnregisterCallback, Using, TypeOK, IInv, LookupHolds
  <2>2. ref' = [ref EXCEPT ![ptr[t]] = @ - 1]
    <3>1. ref[ptr[t]] + (-1) = ref[ptr[t]] - 1
      BY <1>b, <2>1
    <3>2. QED
      BY <1>11, <3>1 DEF UnregisterCallback, AddRef
  <2>3. \A m \in Mbox : /\ Cardinality(Users(m)) \in Nat
                        /\ Cardinality(Users(m)') = Cardinality(Users(m))
    BY <1>c, <2>1 DEF Pc
  <2>4. \A m \in Mbox : Registered(m)' => Registered(m)
    BY <2>1 DEF Registered, Inst
  <2>5. \A m \in Mbox : ref'[m] = ref[m] - (IF ptr[t] = m THEN 1 ELSE 0)
    BY <1>b, <2>2
  <2>6. \A m \in Mbox : Registered(m) =>
          owed'[base[m]] = owed[base[m]] - (IF ptr[t] = m THEN 1 ELSE 0)
    BY <1>b, <1>g, <2>1
  <2>7. \A m \in Mbox : owed[base[m]] \in Nat /\ leaked[m] \in Nat
    BY <1>b
  <2>8. QED
    BY <1>b, <2>1, <2>3, <2>4, <2>5, <2>6, <2>7
<1>12. ASSUME NEW t \in Task, UnregisterRefused(t)
      PROVE  \A m \in Mbox : Registered(m)' =>
               ref'[m] = Cardinality(Users(m)') + owed'[base'[m]] + leaked'[m]
  BY <1>e, <1>12 DEF UnregisterRefused, Using, Pc
<1>13. ASSUME NEW t \in Task, UnregisterDel(t)
      PROVE  \A m \in Mbox : Registered(m)' =>
               ref'[m] = Cardinality(Users(m)') + owed'[base'[m]] + leaked'[m]
  <2>1. /\ \A n \in Mbox \ {ptr[t]} : Inst(n)' = Inst(n)
        /\ Inst(ptr[t])' = {}
    BY <1>13, RemoveEffect
  <2>2. /\ UNCHANGED <<live, base, ref, ptr, owed, leaked>>
        /\ ~ Using(t)
        /\ GoTo(t, "destroy")
    BY <1>13 DEF UnregisterDel, Using
  <2>3. \A m \in Mbox : /\ Cardinality(Users(m)) \in Nat
                        /\ Cardinality(Users(m)') = Cardinality(Users(m))
    BY <1>c, <2>2 DEF Pc
  <2>4. ASSUME NEW m \in Mbox, Registered(m)' PROVE Registered(m)
    <3>1. Inst(m)' # {}
      BY <2>4 DEF Registered
    <3>2. m # ptr[t]
      BY <2>1, <2>2, <3>1 DEF Inst
    <3>3. QED
      BY <2>1, <2>2, <2>4, <3>2 DEF Registered
  <2>5. QED
    BY <1>b, <2>2, <2>3, <2>4
<1>14. ASSUME NEW t \in Task, InterruptOff(t)
      PROVE  \A m \in Mbox : Registered(m)' =>
               ref'[m] = Cardinality(Users(m)') + owed'[base'[m]] + leaked'[m]
  BY <1>e, <1>14 DEF InterruptOff, Using, Pc
<1>15. ASSUME NEW t \in Task, Free(t)
      PROVE  \A m \in Mbox : Registered(m)' =>
               ref'[m] = Cardinality(Users(m)') + owed'[base'[m]] + leaked'[m]
  <2>1. /\ UNCHANGED <<inst, base, ref, ptr, owed, leaked>>
        /\ live' = live \ {ptr[t]}
        /\ ~ Using(t)
        /\ GoTo(t, "idle")
    BY <1>15 DEF Free, Using
  <2>2. \A m \in Mbox : /\ Cardinality(Users(m)) \in Nat
                        /\ Cardinality(Users(m)') = Cardinality(Users(m))
    BY <1>c, <2>1 DEF Pc
  <2>3. \A m \in Mbox : Registered(m)' => Registered(m)
    BY <2>1 DEF Registered, Inst
  <2>4. QED
    BY <1>b, <2>1, <2>2, <2>3
<1>16. CASE UNCHANGED vars
  <2>1. \A m \in Mbox : Users(m)' = Users(m) /\ Registered(m)' = Registered(m)
    BY <1>16 DEF vars, Users, Using, Registered, Inst
  <2>2. QED
    BY <1>b, <1>16, <2>1 DEF vars
<1>17. QED
  BY <1>1, <1>2, <1>3, <1>4, <1>5, <1>6, <1>7, <1>8, <1>9, <1>10, <1>11,
     <1>12, <1>13, <1>14, <1>15, <1>16 DEF Next, Return

-----------------------------------------------------------------------------
(* The theorems.                                                           *)

LEMMA InitInv == Init => IInv
<1> SUFFICES ASSUME Init PROVE IInv
  OBVIOUS
<1>1. TypeOK
  BY InitTyped
<1>2. Holders = {} /\ \A b : Unregistering(b) = {}
  BY DEF Init, Holders, Unregistering
<1>3. SemaphoreAccounted
  <2>1. Cardinality(Holders) + sem = IF refused THEN 0 ELSE 1
    BY <1>2, FS_EmptySet DEF Init
  <2>2. QED
    BY <2>1 DEF SemaphoreAccounted, Holders
<1>4. OwedCovers
  BY SMTT(60), <1>2, FS_EmptySet DEF Init, OwedCovers
<1>5. OneMboxPerBase
  BY DEF Init, OneMboxPerBase
<1>6. /\ \A m : ~ Registered(m)
      /\ \A t \in Task : pc[t] = "idle"
      /\ \A b \in Base : irq[b] = None
  BY DEF Init, Registered
<1>7. LookupHolds /\ UsersHold /\ RemoversOwn
  BY <1>6 DEF LookupHolds, UsersHold, RemoversOwn, Using, Removing
<1>8. IrqOfPage /\ IrqGiven /\ IrqOffFirst
  BY <1>6 DEF IrqOfPage, IrqGiven, IrqOffFirst
<1>9. RefsAccounted
  BY DEF Init, RefsAccounted
<1>10. QED
  BY <1>1, <1>3, <1>4, <1>5, <1>7, <1>8, <1>9 DEF IInv

(* The inductive invariant holds in every state of every behaviour.        *)
THEOREM Invariance == Spec => []IInv
<1>1. Init => IInv
  BY InitInv
<1>2. IInv /\ [Next]_vars => IInv'
  BY NextTyped, NextSemaphore, NextLookup, NextUsers, NextRemovers, NextOneMbox,
     NextIrqOfPage, NextIrqGiven, NextIrqOffFirst, NextOwed, NextRefs DEF IInv
<1>3. QED
  BY <1>1, <1>2, PTL DEF Spec

(* Type correctness: the table, the counts and the tasks keep their shape  *)
(* through every call of the library, the lookups and the registrations of *)
(* callbacks included, whose count never goes below zero.                  *)
THEOREM TypeCorrect == Spec => []TypeOK
<1>1. IInv => TypeOK
  BY DEF IInv
<1>2. QED
  BY <1>1, Invariance, PTL

(* No use after free: whatever the tasks do, gen_sw_mbox_unregister()      *)
(* never takes a mailbox out of the table or frees it while a send or a    *)
(* registration of a callback works on it outside the semaphore.           *)
THEOREM NeverUsedAfterFree == Spec => []NoUseAfterFree
<1>1. IInv => NoUseAfterFree
  BY DEF IInv, UsersHold, Registered, NoUseAfterFree
<1>2. QED
  BY <1>1, Invariance, PTL

(* Accounting: ref_cnt of a mailbox in the table is the calls in progress, *)
(* the callbacks registered and the references lost to returns of -2, and  *)
(* gen_sw_mbox_semaphore is free, or held by one task, or lost to a        *)
(* refused unregister.                                                     *)
THEOREM AlwaysAccounted == Spec => []Accounted
<1>1. IInv => Accounted
  BY DEF IInv, Accounted
<1>2. QED
  BY <1>1, Invariance, PTL

(* Ownership of a page: two registrations of one page give one mailbox,    *)
(* its interrupt never runs on freed memory, and a mailbox in the table    *)
(* has its interrupt unless a late removal of its page's previous mailbox  *)
(* switched it off.                                                        *)
THEOREM PagesAlwaysOwned == Spec => []PagesOwned
<1>1. IInv => PagesOwned
  <2> SUFFICES ASSUME IInv PROVE PagesOwned
    OBVIOUS
  <2>1. \A b \in Base : irq[b] # None => irq[b] \in live
    BY DEF IInv, IrqOfPage
  <2>2. \A m \in live : Inst(m) # {} => irq[base[m]] = m \/ m \in torn
    BY DEF IInv, IrqGiven, Registered, TypeOK
  <2>3. QED
    BY <2>1, <2>2 DEF IInv, PagesOwned, InterruptOwned
<1>2. QED
  BY <1>1, Invariance, PTL
=============================================================================
