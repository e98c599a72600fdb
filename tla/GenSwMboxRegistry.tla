------------------------ MODULE GenSwMboxRegistry ------------------------
(***************************************************************************)
(* The control plane of the generic software mailbox on one core           *)
(* (src/libs/gen_sw_mbox/gen_sw_mbox.c): the table of instances, the       *)
(* reference count of each, and the semaphore that guards the table.       *)
(*                                                                         *)
(* Tasks preempt each other between any two steps.  What runs under        *)
(* mbox->lock is one step: ref_cnt is read and written nowhere else.       *)
(***************************************************************************)
EXTENDS Integers, FiniteSets

CONSTANTS
  Task,       \* the tasks that use the library
  Base,       \* the addresses of mailbox pages
  Mbox,       \* heap objects a struct gen_sw_mbox may occupy
  None,       \* the NULL pointer
  MaxInst,    \* MBOX_MAX_INST
  MaxCalls    \* bound: library calls of each task

ASSUME RegistryAssumption ==
  /\ IsFiniteSet(Task)
  /\ Base # {}
  /\ None \notin Mbox
  /\ MaxInst \in Nat \ {0}
  /\ MaxCalls \in Nat

VARIABLES
  sem,      \* count of gen_sw_mbox_semaphore
  inst,     \* inst[i]: mbox_inst[i]
  live,     \* the objects that are allocated
  base,     \* base[m]: mmio_pa of object m
  ref,      \* ref[m]: ref_cnt
  irq,      \* irq[b]: the mailbox the enabled interrupt of page b is given
  pc,       \* pc[t]: point reached in the call of task t
  op,       \* op[t], arg[t], ptr[t]: its function, base argument, local mbox
  arg,
  ptr,
  calls,    \* calls[t]: calls made so far (bounded)
  owed,     \* history: owed[b], callbacks registered and not yet unregistered
  leaked,   \* history: leaked[m], sends that returned -2
  refused,  \* history: some unregister returned -1
  torn      \* history: mailboxes registered during the removal of another

heap == <<inst, live, base, irq>>
call == <<op, arg, ptr, calls>>
hist == <<owed, leaked, refused, torn>>
vars == <<sem, inst, live, base, ref, irq, pc, op, arg, ptr, calls, owed,
          leaked, refused, torn>>

Slot == 1 .. MaxInst
Op   == {"register", "unregister", "send", "regcb", "unregcb"}
Pc   == {"idle", "want", "in", "xfer", "put", "setcb", "destroy", "free"}

TypeOK ==
  /\ sem     \in {0, 1}
  /\ inst    \in [Slot -> Mbox \cup {None}]
  /\ live    \subseteq Mbox
  /\ base    \in [Mbox -> Base]
  /\ ref     \in [Mbox -> Int]
  /\ irq     \in [Base -> Mbox \cup {None}]
  /\ pc      \in [Task -> Pc]
  /\ op      \in [Task -> Op]
  /\ arg     \in [Task -> Base]
  /\ ptr     \in [Task -> Mbox \cup {None}]
  /\ calls   \in [Task -> 0 .. MaxCalls]
  /\ owed    \in [Base -> Nat]
  /\ leaked  \in [Mbox -> Nat]
  /\ refused \in BOOLEAN
  /\ torn    \subseteq Mbox

-----------------------------------------------------------------------------
(* Slip: the search stops one entry early.                                 *)
EntriesButLast(b) ==
  {i \in Slot \ {MaxInst} : inst[i] # None /\ base[inst[i]] = b}

(* gen_sw_mbox_get_instance(): the first entry of the table for base b.    *)
Entries(b) == {i \in Slot : inst[i] # None /\ base[inst[i]] = b}
GetInstance(b) ==
  IF Entries(b) = {}
    THEN None
    ELSE inst[CHOOSE i \in Entries(b) : \A j \in Entries(b) : i <= j]

GoTo(t, p)   == pc' = [pc EXCEPT ![t] = p]
AddRef(m, n) == ref' = [ref EXCEPT ![m] = @ + n]

(* A task enters a function of the library.  Callers unregister only a     *)
(* callback whose registration succeeded.                                  *)
Call(t, o, b) ==
  /\ pc[t] = "idle"
  /\ calls[t] < MaxCalls
  /\ o = "unregcb" =>
       owed[b] > Cardinality({u \in Task : pc[u] # "idle" /\ op[u] = "unregcb"
                                                          /\ arg[u] = b})
  /\ op'    = [op EXCEPT ![t] = o]
  /\ arg'   = [arg EXCEPT ![t] = b]
  /\ calls' = [calls EXCEPT ![t] = @ + 1]
  /\ GoTo(t, "want")
  /\ UNCHANGED <<sem, heap, ref, ptr, hist>>

(* os_sem_take(&gen_sw_mbox_semaphore), then the lookup every call makes.  *)
Acquire(t) ==
  /\ pc[t] = "want"
  /\ sem = 1
  /\ sem' = 0
  /\ ptr' = [ptr EXCEPT ![t] = GetInstance(arg[t])]
  /\ GoTo(t, "in")
  /\ UNCHANGED <<heap, ref, op, arg, calls, hist>>

Inside(t, o) == pc[t] = "in" /\ op[t] = o
Found(t)     == ptr[t] # None

(* Slip: the early return keeps the semaphore.                             *)
NotFoundKeeps(t) ==
  /\ pc[t] = "in"
  /\ op[t] # "register"
  /\ ~Found(t)
  /\ GoTo(t, "idle")
  /\ UNCHANGED <<sem, heap, ref, call, hist>>

(* No such mailbox: every function but register gives the semaphore back.  *)
NotFound(t) ==
  /\ pc[t] = "in"
  /\ op[t] # "register"
  /\ ~Found(t)
  /\ sem' = 1
  /\ GoTo(t, "idle")
  /\ UNCHANGED <<heap, ref, call, hist>>

(* gen_sw_mbox_register() of a registered base, or out of memory, or the   *)
(* page cannot be mapped, or no lock.                                      *)
RegisterNothing(t) ==
  /\ Inside(t, "register")
  /\ sem' = 1
  /\ GoTo(t, "idle")
  /\ UNCHANGED <<heap, ref, call, hist>>

(* A new mailbox, stored in the first free slot; with none free the result *)
(* of gen_sw_mbox_add_mbox() is ignored.                                   *)
RegisterNew(t) ==
  /\ Inside(t, "register")
  /\ ~Found(t)
  /\ \E m \in Mbox \ live :
       /\ live' = live \cup {m}
       /\ base' = [base EXCEPT ![m] = arg[t]]
       /\ ref'  = [ref EXCEPT ![m] = 0]
       /\ irq'  = [irq EXCEPT ![arg[t]] = m]
       /\ leaked' = [leaked EXCEPT ![m] = 0]
       /\ torn' = IF \E u \in Task : pc[u] = "destroy" /\ base[ptr[u]] = arg[t]
                    THEN torn \cup {m}
                    ELSE torn \ {m}
       /\ LET empty == {i \in Slot : inst[i] = None}
          IN  inst' = IF empty = {}
                        THEN inst
                        ELSE [inst EXCEPT ![CHOOSE i \in empty :
                                              \A j \in empty : i <= j] = m]
  /\ sem' = 1
  /\ GoTo(t, "idle")
  /\ UNCHANGED <<call, owed, refused>>

(* Slip: the reference is not counted.                                     *)
GetRefUncounted(t) ==
  /\ pc[t] = "in"
  /\ op[t] \in {"send", "regcb"}
  /\ Found(t)
  /\ sem' = 1
  /\ GoTo(t, IF op[t] = "send" THEN "xfer" ELSE "setcb")
  /\ UNCHANGED <<heap, ref, call, hist>>

(* sendmsg() and register_chan_callback() take a reference, then give the  *)
(* semaphore back and go on without it.                                    *)
GetRef(t) ==
  /\ pc[t] = "in"
  /\ op[t] \in {"send", "regcb"}
  /\ Found(t)
  /\ AddRef(ptr[t], 1)
  /\ sem' = 1
  /\ GoTo(t, IF op[t] = "send" THEN "xfer" ELSE "setcb")
  /\ UNCHANGED <<heap, call, hist>>

(* Slip: the reference is given back like that of a send.                  *)
SetCallbackPuts(t) ==
  /\ pc[t] = "setcb"
  /\ AddRef(ptr[t], -1)
  /\ owed' = [owed EXCEPT ![arg[t]] = @ + 1]
  /\ GoTo(t, "idle")
  /\ UNCHANGED <<sem, heap, call, leaked, refused, torn>>

SetCallback(t) ==
  /\ pc[t] = "setcb"
  /\ owed' = [owed EXCEPT ![arg[t]] = @ + 1]
  /\ GoTo(t, "idle")
  /\ UNCHANGED <<sem, heap, ref, call, leaked, refused, torn>>

Transmit(t) ==
  /\ pc[t] = "xfer"
  /\ GoTo(t, "put")
  /\ UNCHANGED <<sem, heap, ref, call, hist>>

(* The channel is not ready and the call is not blocking: return -2, and   *)
(* the reference stays.                                                    *)
ChannelBusy(t) ==
  /\ pc[t] = "xfer"
  /\ leaked' = [leaked EXCEPT ![ptr[t]] = @ + 1]
  /\ GoTo(t, "idle")
  /\ UNCHANGED <<sem, heap, ref, call, owed, refused, torn>>

PutRef(t) ==
  /\ pc[t] = "put"
  /\ AddRef(ptr[t], -1)
  /\ GoTo(t, "idle")
  /\ UNCHANGED <<sem, heap, call, hist>>

UnregisterCallback(t) ==
  /\ Inside(t, "unregcb")
  /\ Found(t)
  /\ AddRef(ptr[t], -1)
  /\ owed' = [owed EXCEPT ![arg[t]] = @ - 1]
  /\ sem' = 1
  /\ GoTo(t, "idle")
  /\ UNCHANGED <<heap, call, leaked, refused, torn>>

(* gen_sw_mbox_unregister() of a mailbox in use returns without giving     *)
(* gen_sw_mbox_semaphore back.                                             *)
UnregisterRefused(t) ==
  /\ Inside(t, "unregister")
  /\ Found(t)
  /\ ref[ptr[t]] > 0
  /\ refused' = TRUE
  /\ GoTo(t, "idle")
  /\ UNCHANGED <<sem, heap, ref, call, owed, leaked, torn>>

UnregisterDel(t) ==
  /\ Inside(t, "unregister")
  /\ Found(t)
  /\ ref[ptr[t]] <= 0
  /\ inst' = [i \in Slot |-> IF inst[i] = ptr[t] THEN None ELSE inst[i]]
  /\ sem' = 1
  /\ GoTo(t, "destroy")
  /\ UNCHANGED <<live, base, ref, irq, call, hist>>

(* Slip: the handler stays registered.                                     *)
InterruptLeft(t) ==
  /\ pc[t] = "destroy"
  /\ GoTo(t, "free")
  /\ UNCHANGED <<sem, heap, ref, call, hist>>

(* Without the semaphore: the interrupt off and its handler removed, ...   *)
InterruptOff(t) ==
  /\ pc[t] = "destroy"
  /\ irq' = [irq EXCEPT ![arg[t]] = None]
  /\ GoTo(t, "free")
  /\ UNCHANGED <<sem, inst, live, base, ref, call, hist>>

(* Slip: the semaphore is given a second time at the end.                  *)
FreeGives(t) ==
  /\ pc[t] = "free"
  /\ live' = live \ {ptr[t]}
  /\ sem' = sem + 1
  /\ GoTo(t, "idle")
  /\ UNCHANGED <<inst, base, ref, irq, call, hist>>

(* ... then the page unmapped, the lock destroyed, the memory freed.       *)
Free(t) ==
  /\ pc[t] = "free"
  /\ live' = live \ {ptr[t]}
  /\ GoTo(t, "idle")
  /\ UNCHANGED <<sem, inst, base, ref, irq, call, hist>>

Return(t) ==
  \/ Acquire(t) \/ NotFound(t) \/ RegisterNothing(t) \/ RegisterNew(t)
  \/ GetRef(t) \/ SetCallback(t) \/ Transmit(t) \/ ChannelBusy(t) \/ PutRef(t)
  \/ UnregisterCallback(t) \/ UnregisterRefused(t) \/ UnregisterDel(t)
  \/ InterruptOff(t) \/ Free(t)

Init ==
  /\ sem     = 1
  /\ inst    = [i \in Slot |-> None]
  /\ live    = {}
  /\ base    = [m \in Mbox |-> CHOOSE b \in Base : TRUE]     \* not read before set
  /\ ref     = [m \in Mbox |-> 0]
  /\ pc      = [t \in Task |-> "idle"]
  /\ op      = [t \in Task |-> "register"]
  /\ arg     = [t \in Task |-> CHOOSE b \in Base : TRUE]    \* not read before set
  /\ ptr     = [t \in Task |-> None]
  /\ calls   = [t \in Task |-> 0]
  /\ owed    = [b \in Base |-> 0]
  /\ leaked  = [m \in Mbox |-> 0]
  /\ refused = FALSE
  /\ torn    = {}
  /\ irq     = [b \in Base |-> None]

Next ==
  \E t \in Task : Return(t) \/ \E o \in Op, b \in Base : Call(t, o, b)

Spec     == Init /\ [][Next]_vars
FairSpec == Spec /\ \A t \in Task : WF_vars(Return(t))

-----------------------------------------------------------------------------
(* Properties.                                                             *)

Using(t) == pc[t] \in {"xfer", "put", "setcb"}
Inst(m)  == {i \in Slot : inst[i] = m}

(* A task that works on a mailbox without the semaphore works on one that  *)
(* is still allocated and still in the table: unregister cannot free it    *)
(* between the lookup and the last access.                                 *)
NoUseAfterFree ==
  \A t \in Task : Using(t) => ptr[t] \in live /\ Inst(ptr[t]) # {}

(* ref_cnt counts exactly the calls in progress, the registered callbacks  *)
(* and the references that returns of -2 left behind.                      *)
RefsAccounted ==
  \A m \in live :
    Inst(m) # {} =>
      ref[m] = Cardinality({t \in Task : Using(t) /\ ptr[t] = m})
                 + owed[base[m]] + leaked[m]

(* The semaphore is held by the one task inside, or was lost by a refused  *)
(* unregister; by nothing else.                                            *)
SemaphoreAccounted ==
  Cardinality({t \in Task : pc[t] = "in"}) + sem
    = (IF refused THEN 0 ELSE 1)

(* References and semaphore are accounted for.                             *)
Accounted == RefsAccounted /\ SemaphoreAccounted

(* Two registrations of one page never give two mailboxes.                 *)
OneMboxPerBase ==
  \A i, j \in Slot :
    /\ inst[i] # None => inst[i] \in live
    /\ inst[i] # None /\ inst[j] # None /\ i # j
         => base[inst[i]] # base[inst[j]]

(* The interrupt never runs on freed memory, and each mailbox in the table *)
(* is given its interrupts - unless it was registered while another task   *)
(* that unregisters its page, which no longer holds the semaphore, had yet *)
(* to switch the interrupt off: then it is deaf.                           *)
InterruptOwned ==
  /\ \A b \in Base : irq[b] # None => irq[b] \in live
  /\ \A m \in live : Inst(m) # {} => irq[base[m]] = m \/ m \in torn

(* A page has one mailbox, and its interrupt is that mailbox's.            *)
PagesOwned == OneMboxPerBase /\ InterruptOwned

(* Every call returns, unless a refused unregister has kept the semaphore. *)
CallsReturn ==
  \A t \in Task : pc[t] # "idle" ~> (pc[t] = "idle" \/ refused)
=============================================================================
