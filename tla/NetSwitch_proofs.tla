-------------------------- MODULE NetSwitch_proofs --------------------------
(***************************************************************************)
(* Proofs about the layer 2 switch, for any ports, sources, buffers,       *)
(* addresses, thresholds and loads: every buffer has one place, packets of *)
(* a source leave a port in order, and what is queued is announced.        *)
(***************************************************************************)
EXTENDS NetSwitch, SequenceTheorems, WellFoundedInduction, TLAPS

-----------------------------------------------------------------------------
(* The inductive invariant.                                                *)

(* Where a source has its packet in hand, and where it may still have it.  *)
Carrying   == {"switch", "unicast", "visit"}
Announcing == {"count", "event", "flag"}

SourceAt(s) ==
    /\ pc[s] \in Carrying => hand[s] # None
    /\ pc[s] \notin Carrying \cup Announcing => hand[s] = None
    /\ pc[s] \in Announcing => out[s] # None
    /\ pc[s] = "post" => todo[s] # <<>>
    /\ IsInjective(todo[s])

(* A pass works on the head of the list and knows the entry behind it; a   *)
(* pass that has no next entry has seen the list when it was one long.     *)
DrainAt(p) ==
    /\ tpc[p] \in {"output", "reclaim"} =>
        /\ data_out[p] # <<>> /\ cur[p] = data_out[p][1]
        /\ tmp[p] # None => Len(data_out[p]) > 1 /\ tmp[p] = data_out[p][2]
    /\ tpc[p] = "advance" /\ tmp[p] # None => data_out[p] # <<>> /\ tmp[p] = data_out[p][1]

AdminAt ==
    \/ admin = Idle
    \/ /\ admin.op \in {"mac", "add", "remove", "on"} /\ admin.port \in Ports
       /\ admin.op = "mac" => admin.addr \in Macs
       /\ admin.op = "add" => admin.addr \in Groups
       /\ admin = [op |-> admin.op, port |-> admin.port, addr |-> admin.addr]

(* The ports that have not yet been given the packet s has in hand.        *)
NotYet(s) ==
    CASE pc[s] \in {"switch", "unicast"} -> Ports
      [] pc[s] \in {"visit"} \cup Announcing /\ hand[s] # None -> Range(todo[s])
      [] OTHER -> {}

(* Packets are numbered as they arrive, and the one in hand is the last.   *)
Earlier(p, s, n) ==
    /\ sent[p][s] <= n
    /\ \A b \in Range(data_out[p]) : pkt[b].src = s => pkt[b].num <= n
Numbered(s) ==
    /\ hand[s] # None => pkt[hand[s]].src = s /\ pkt[hand[s]].num = arrived[s]
    /\ hand[s] # None => arrived[s] > 0
    /\ \A p \in Ports : Earlier(p, s, arrived[s])
    /\ \A p \in NotYet(s) : Earlier(p, s, arrived[s] - 1)

(* FlowInOrder by index: the entries of the list that are still to go out. *)
First(p) == IF tpc[p] = "reclaim" THEN 2 ELSE 1
Ordered(p, s) ==
    \A i \in First(p)..Len(data_out[p]) : pkt[data_out[p][i]].src = s =>
        /\ pkt[data_out[p][i]].num > sent[p][s]
        /\ \A j \in First(p)..Len(data_out[p]) :
              i < j /\ pkt[data_out[p][j]].src = s =>
                  pkt[data_out[p][i]].num < pkt[data_out[p][j]].num

IInv ==
    /\ TypeOK /\ AdminAt
    /\ (\A s \in Sources : SourceAt(s)) /\ (\A p \in Ports : DrainAt(p))
    /\ OneOwner /\ OnlyClonesLeak /\ QueuedIsAnnounced
    /\ (\A s \in Sources : Numbered(s))
    /\ \A p \in Ports, s \in Sources : Ordered(p, s)

(* With one source per port: a source of a software port notifies after    *)
(* its packet, or has counted it for the next kick.                        *)
Working == Carrying \cup Announcing \cup {"done"}
Counting(s) ==
    /\ pc[s] \in {"idle", "batch"} \/ KindOf(s) # "soft" => ~batchNotify[s]
    /\ pc[s] \in Working /\ KindOf(s) = "soft" => batchNotify[s] \/ in_count[Owner(s)] > 0

-----------------------------------------------------------------------------
(* Sequences: the operations on lists.                                     *)

(* A sequence extended at its end.                                         *)
LEMMA Appended ==
  ASSUME NEW S, NEW q \in Seq(S), NEW b \in S
  PROVE  /\ Append(q, b) \in Seq(S) /\ Len(q) \in Nat /\ Len(Append(q, b)) = Len(q) + 1
         /\ \A i \in 1..Len(q) : Append(q, b)[i] = q[i] /\ q[i] \in Range(q)
         /\ Append(q, b)[Len(q) + 1] = b
         /\ Range(Append(q, b)) = Range(q) \cup {b}
         /\ IsInjective(q) /\ b \notin Range(q) => IsInjective(Append(q, b))
<1>1. /\ Append(q, b) \in Seq(S) /\ Len(Append(q, b)) = Len(q) + 1
      /\ \A i \in 1..Len(q) : Append(q, b)[i] = q[i]
      /\ Append(q, b)[Len(q) + 1] = b
      /\ DOMAIN Append(q, b) = 1..Len(q) + 1 /\ DOMAIN q = 1..Len(q) /\ Len(q) \in Nat
  OBVIOUS
<1> DEFINE r == Append(q, b)
<1> HIDE DEF r
<1>2. Range(r) = Range(q) \cup {b} /\ \A i \in 1..Len(q) : q[i] \in Range(q)
  BY <1>1 DEF Range, r
<1>3. IsInjective(q) /\ b \notin Range(q) => IsInjective(r)
  <2>1. \A i \in 1..Len(q) + 1 : i \in 1..Len(q) \/ i = Len(q) + 1
    BY <1>1
  <2>2. QED
    BY <1>1, <1>2, <2>1 DEF IsInjective, r
<1>4. QED
  BY <1>1, <1>2, <1>3 DEF r

(* A sequence without its first entry.                                     *)
LEMMA Tailed ==
  ASSUME NEW S, NEW q \in Seq(S), q # <<>>
  PROVE  /\ Tail(q) \in Seq(S) /\ Len(q) \in Nat \ {0} /\ Len(Tail(q)) = Len(q) - 1
         /\ \A i \in 1..Len(Tail(q)) : Tail(q)[i] = q[i + 1]
         /\ Head(q) = q[1] /\ q[1] \in Range(q) /\ q[1] \in S
         /\ Range(Tail(q)) \subseteq Range(q)
         /\ \A x \in Range(q) : x = q[1] \/ x \in Range(Tail(q))
         /\ IsInjective(q) => IsInjective(Tail(q)) /\ q[1] \notin Range(Tail(q))
<1>1. /\ Tail(q) \in Seq(S) /\ Len(q) \in Nat \ {0} /\ Len(Tail(q)) = Len(q) - 1
      /\ \A i \in 1..Len(Tail(q)) : Tail(q)[i] = q[i + 1]
      /\ Head(q) = q[1] /\ DOMAIN q = 1..Len(q) /\ DOMAIN Tail(q) = 1..Len(q) - 1
  BY HeadTailProperties, EmptySeq, LenProperties
<1> DEFINE r == Tail(q)
<1> HIDE DEF r
<1>2. q[1] \in Range(q) /\ q[1] \in S
  BY <1>1 DEF Range
<1>3. \A i \in 1..Len(q) - 1 : r[i] = q[i + 1] /\ i + 1 \in 1..Len(q) /\ i + 1 # 1
  BY <1>1 DEF r
<1>4. Range(r) \subseteq Range(q)
  BY <1>1, <1>3 DEF Range, r
<1>5. ASSUME NEW x \in Range(q) PROVE x = q[1] \/ x \in Range(r)
  <2>1. PICK i \in 1..Len(q) : x = q[i]
    BY <1>1 DEF Range
  <2>2. CASE i = 1
    BY <2>1, <2>2
  <2>3. CASE i # 1
    <3>1. i - 1 \in 1..Len(q) - 1 /\ r[i - 1] = q[(i - 1) + 1] /\ (i - 1) + 1 = i
      BY <1>1, <1>3, <2>3
    <3>2. QED
      BY <1>1, <2>1, <3>1 DEF Range, r
  <2>4. QED
    BY <2>2, <2>3
<1>6. IsInjective(q) => IsInjective(r) /\ q[1] \notin Range(r)
  BY <1>1, <1>3 DEF Range, IsInjective, r
<1>7. QED
  BY <1>1, <1>2, <1>4, <1>5, <1>6 DEF r

(* The first entry of an injective list is at place 1; removing it leaves  *)
(* the tail.                                                               *)
LEMMA FirstPlace ==
  ASSUME NEW S, NEW q \in Seq(S), q # <<>>, IsInjective(q)
  PROVE  Place(q, q[1]) = 1 /\ RemoveAt(q, Place(q, q[1])) = Tail(q)
<1>1. Len(q) \in Nat \ {0} /\ DOMAIN q = 1..Len(q)
  BY Tailed
<1>2. \A i \in 1..Len(q) : q[i] = q[1] => i = 1
  BY <1>1 DEF IsInjective
<1>3. Place(q, q[1]) = 1
  BY <1>1, <1>2 DEF Place
<1>4. SubSeq(q, 1, 0) = <<>> /\ SubSeq(q, 2, Len(q)) = Tail(q)
  BY SubSeqEmpty, TailIsSubSeq
<1>5. <<>> \o Tail(q) = Tail(q)
  BY Tailed, ConcatEmptySeq
<1>6. RemoveAt(q, 1) = Tail(q)
  BY <1>4, <1>5 DEF RemoveAt
<1>7. QED
  BY <1>3, <1>6

(* The least of a set of numbers is one of them.                           *)
LEMMA LeastChosen ==
  ASSUME NEW S, S \subseteq Nat, S # {}
  PROVE  Min(S) \in S
<1> DEFINE R == OpToRel(<, Nat)
<1>1. IsWellFoundedOn(R, Nat)
  BY NatLessThanWellFounded
<1>2. \A x, y \in Nat : x < y => <<x, y>> \in R
  BY DEF OpToRel
<1> HIDE DEF R
<1>3. PICK i \in S : \A j \in S : <<j, i>> \notin R
  BY <1>1, WFMin
<1>4. ASSUME NEW j \in S PROVE i <= j
  <2>1. i \in Nat /\ j \in Nat /\ ~ (j < i)
    BY <1>2, <1>3
  <2>2. QED
    BY <2>1
<1>5. QED
  BY <1>4 DEF Min

(* A list of ports with the remote port before or behind it.               *)
LEMMA WithOne ==
  ASSUME NEW S, NEW q \in Seq(S), NEW b \in S, IsInjective(q), b \notin Range(q)
  PROVE  /\ q \o <<b>> \in Seq(S) /\ IsInjective(q \o <<b>>)
         /\ <<b>> \o q \in Seq(S) /\ IsInjective(<<b>> \o q)
         /\ Range(<<b>> \o q) = Range(q) \cup {b}
<1>1. q \o <<b>> = Append(q, b)
  BY AppendIsConcat
<1>2. q \o <<b>> \in Seq(S) /\ IsInjective(q \o <<b>>)
  <2>1. Append(q, b) \in Seq(S) /\ IsInjective(Append(q, b))
    BY Appended
  <2>2. QED
    BY <1>1, <2>1
<1> DEFINE r == <<b>> \o q
<1>3. /\ r \in Seq(S) /\ Len(q) \in Nat /\ Len(r) = Len(q) + 1 /\ r[1] = b
      /\ \A i \in 1..Len(q) : r[i + 1] = q[i]
      /\ DOMAIN q = 1..Len(q) /\ DOMAIN r = 1..Len(q) + 1
  OBVIOUS
<1>4. Range(r) = Range(<<b>>) \cup Range(q) /\ Range(<<b>>) = {b}
  <2>1. <<b>> \in Seq(S)
    OBVIOUS
  <2>2. Range(<<b>>) = {b}
    BY DEF Range
  <2>3. Range(<<b>> \o q) = Range(<<b>>) \cup Range(q)
    BY ZenonT(60), <2>1, RangeConcatenation
  <2>4. QED
    BY <2>2, <2>3
<1> HIDE DEF r
<1>5. IsInjective(r)
  <2>1. \A i \in 1..Len(q) + 1 : i = 1 \/ (i - 1 \in 1..Len(q) /\ r[(i - 1) + 1] = q[i - 1] /\ (i - 1) + 1 = i)
    BY <1>3
  <2>2. \A i \in 1..Len(q) : q[i] # b
    BY <1>3 DEF Range
  <2>3. \A i, j \in 1..Len(q) : q[i] = q[j] => i = j
    BY <1>3 DEF IsInjective
  <2>4. SUFFICES ASSUME NEW i \in 1..Len(q) + 1, NEW j \in 1..Len(q) + 1, r[i] = r[j]
                 PROVE  i = j
    BY <1>3 DEF IsInjective
  <2>5. CASE i = 1
    BY <1>3, <2>1, <2>2, <2>4, <2>5
  <2>6. CASE j = 1
    BY <1>3, <2>1, <2>2, <2>4, <2>6
  <2>7. CASE i # 1 /\ j # 1
    <3>1. i - 1 \in 1..Len(q) /\ j - 1 \in 1..Len(q) /\ r[i] = q[i - 1] /\ r[j] = q[j - 1]
      BY <2>1, <2>7
    <3>2. i - 1 = j - 1
      BY <2>3, <2>4, <3>1
    <3>3. QED
      BY <3>2
  <2>8. QED
    BY <2>5, <2>6, <2>7
<1>6. QED
  BY <1>2, <1>3, <1>4, <1>5 DEF r

-----------------------------------------------------------------------------
(* Type correctness.                                                       *)

(* What the constants say of ports, sources and buffers.                   *)
LEMMA PortFacts ==
  /\ Remote \in Ports /\ Ports \subseteq Sources /\ Range(Locals) \subseteq Ports
  /\ \A s \in Sources : Owner(s) \in Ports /\ KindOf(s) \in {"enet", "vnet", "soft"}
  /\ None \notin Ports /\ None \notin Bufs
  /\ Locals \in Seq(Ports) /\ IsInjective(Locals)
<1>1. Range(Locals) \subseteq Ports
  BY DEF Ports
<1>2. Locals \in Seq(Ports)
  BY <1>1, SwitchAssumption, SeqMonotonic
<1>3. QED
  BY <1>1, <1>2, SwitchAssumption DEF Ports, Sources, Owner, KindOf

(* The lists of ports a source works through name each port once.          *)
LEMMA PortLists ==
  /\ \A s : Candidates(s) \in Seq(Ports) /\ IsInjective(Candidates(s))
  /\ NotifyOrder \in Seq(Ports) /\ IsInjective(NotifyOrder) /\ Range(NotifyOrder) = Ports
<1>1. /\ Locals \o <<Remote>> \in Seq(Ports) /\ IsInjective(Locals \o <<Remote>>)
      /\ <<Remote>> \o Locals \in Seq(Ports) /\ IsInjective(<<Remote>> \o Locals)
      /\ Range(<<Remote>> \o Locals) = Range(Locals) \cup {Remote}
  BY PortFacts, WithOne, SwitchAssumption
<1>2. \A s : Candidates(s) \in Seq(Ports) /\ IsInjective(Candidates(s))
  BY <1>1, PortFacts DEF Candidates
<1>3. QED
  BY <1>1, <1>2 DEF NotifyOrder, Ports

(* find_dst_port returns a port or NULL.                                   *)
LEMMA DstPortFound == \A s, d : FindDstPort(s, d) \in Ports \cup {None}
<1> SUFFICES ASSUME NEW s, NEW d PROVE FindDstPort(s, d) \in Ports \cup {None}
  OBVIOUS
<1> DEFINE match == {i \in 1..Len(Locals) : power_on[Locals[i]] /\ mac[Locals[i]] = d}
<1>1. \A i \in match : i \in Nat /\ Locals[i] \in Ports
  BY PortFacts
<1>2. match # {} => Min(match) \in match
  BY <1>1, LeastChosen
<1>3. match # {} => Locals[Min(match)] \in Ports
  BY <1>1, <1>2
<1>4. QED
  BY <1>3, PortFacts DEF FindDstPort

(* A buffer taken from a set of free ones is one of them.                  *)
LEMMA FreshTaken ==
  ASSUME NEW S, S # {}
  PROVE  Fresh(S) \in S
BY DEF Fresh

(* A freed buffer keeps its type.                                          *)
LEMMA FreeTyped ==
  ASSUME TypeOK, NEW b \in Bufs, Free(b)
  PROVE  /\ live' \subseteq live
         /\ pkt' \in [Bufs -> [src : Sources, num : Nat, dst : Addrs, static : BOOLEAN]]
<1>1. NoPkt \in [src : Sources, num : Nat, dst : Addrs, static : BOOLEAN]
  BY PortFacts DEF NoPkt, Addrs
<1>2. QED
  BY <1>1 DEF TypeOK, Free

(* A pass of port_process_pkts only ever enters the head of the list, and  *)
(* reads the entry behind it.                                              *)
PassEnters(p, b, n) ==
    /\ cur' = [cur EXCEPT ![p] = b] /\ tmp' = [tmp EXCEPT ![p] = n]
    /\ tpc[p] \in {"scan", "advance"}
    /\ tpc' = [tpc EXCEPT ![p] = IF b = None THEN "wait" ELSE "output"]
    /\ UNCHANGED <<cfgVars, data_out, need_notify, mqueue, pkt, live, srcVars, sent>>
    /\ b = None => n = None /\ (IF tpc[p] = "scan" THEN data_out[p] = <<>> ELSE tmp[p] = None)
    /\ b # None => /\ data_out[p] # <<>> /\ b = data_out[p][1]
                   /\ n = IF Len(data_out[p]) = 1 THEN None ELSE data_out[p][2]

LEMMA PassesEnterHead ==
  ASSUME TypeOK, OneOwner, NEW p \in Ports, DrainAt(p), Scan(p) \/ Advance(p)
  PROVE  \E b, n \in Bufs \cup {None} : PassEnters(p, b, n)
<1>1. data_out[p] \in Seq(Bufs) /\ IsInjective(data_out[p])
  BY DEF TypeOK, OneOwner
<1>2. data_out[p] # <<>> =>
        /\ Head(data_out[p]) = data_out[p][1] /\ data_out[p][1] \in Bufs
        /\ Len(data_out[p]) \in Nat \ {0} /\ Place(data_out[p], data_out[p][1]) = 1
  BY <1>1, Tailed, FirstPlace
<1>3. /\ NextEntry(p, None) = None
      /\ data_out[p] # <<>> => NextEntry(p, data_out[p][1]) =
                                  IF Len(data_out[p]) = 1 THEN None ELSE data_out[p][2]
  <2>1. data_out[p] # <<>> => data_out[p][1] # None
    BY <1>2, PortFacts
  <2>2. 1 + 1 = 2
    OBVIOUS
  <2>3. QED
    BY <1>2, <2>1, <2>2 DEF NextEntry
<1>4. data_out[p] # <<>> /\ Len(data_out[p]) # 1 => data_out[p][2] \in Bufs
  <2>1. data_out[p] # <<>> /\ Len(data_out[p]) # 1 => 2 \in 1..Len(data_out[p])
    <3>1. \A k \in Nat \ {0} : k # 1 => 2 \in 1..k
      OBVIOUS
    <3>2. QED
      BY <1>2, <3>1
  <2>2. QED
    BY <1>1, <2>1, ElementOfSeq
<1>5. CASE Scan(p)
  <2>1. CASE data_out[p] = <<>>
    <3>1. PassEnters(p, None, None)
      BY <1>3, <1>5, <2>1 DEF Scan, FirstEntry, Entered, PassEnters
    <3>2. QED
      BY <3>1
  <2>2. CASE data_out[p] # <<>>
    <3> DEFINE n == IF Len(data_out[p]) = 1 THEN None ELSE data_out[p][2]
    <3>1. PassEnters(p, data_out[p][1], n)
      BY <1>2, <1>3, <1>5, <2>2, PortFacts DEF Scan, FirstEntry, Entered, PassEnters
    <3>2. n \in Bufs \cup {None}
      BY <1>4, <2>2
    <3>3. QED
      BY <1>2, <2>2, <3>1, <3>2
  <2>3. QED
    BY <2>1, <2>2
<1>6. CASE Advance(p)
  <2>1. CASE tmp[p] = None
    <3>1. PassEnters(p, None, None)
      BY <1>3, <1>6, <2>1 DEF Advance, Entered, PassEnters
    <3>2. QED
      BY <3>1
  <2>2. CASE tmp[p] # None
    <3> DEFINE n == IF Len(data_out[p]) = 1 THEN None ELSE data_out[p][2]
    <3>1. data_out[p] # <<>> /\ tmp[p] = data_out[p][1]
      BY <1>6, <2>2 DEF Advance, DrainAt
    <3>2. PassEnters(p, data_out[p][1], n)
      BY <1>2, <1>3, <1>6, <3>1, PortFacts DEF Advance, Entered, PassEnters
    <3>3. n \in Bufs \cup {None}
      BY <1>4, <3>1
    <3>4. QED
      BY <1>2, <3>1, <3>2, <3>3
  <2>3. QED
    BY <2>1, <2>2
<1>7. QED
  BY <1>5, <1>6

(* What a pass takes off the list and frees is its head.                   *)
LEMMA HeadReclaimed ==
  ASSUME TypeOK, OneOwner, NEW p \in Ports, DrainAt(p), Reclaim(p)
  PROVE  /\ data_out[p] # <<>> /\ data_out[p] \in Seq(Bufs) /\ IsInjective(data_out[p])
         /\ cur[p] = data_out[p][1] /\ cur[p] \in Bufs
         /\ data_out' = [data_out EXCEPT ![p] = Tail(@)]
<1>1. data_out[p] # <<>> /\ cur[p] = data_out[p][1] /\ data_out[p] \in Seq(Bufs)
      /\ IsInjective(data_out[p])
  BY DEF TypeOK, OneOwner, Reclaim, DrainAt
<1>2. RemoveAt(data_out[p], Place(data_out[p], data_out[p][1])) = Tail(data_out[p])
  BY <1>1, FirstPlace
<1>3. cur[p] \in Bufs
  BY <1>1, Tailed
<1>4. QED
  BY <1>1, <1>2, <1>3 DEF Reclaim

(* A message queue holds what it can hold.                                 *)
LEMMA PostedTyped ==
  ASSUME TypeOK, NEW p \in Ports
  PROVE  Posted(p) \in [Ports -> 0..Depth]
<1>1. mqueue[p] \in 0..Depth /\ Depth \in Nat \ {0} /\ mqueue \in [Ports -> 0..Depth]
  BY SwitchAssumption DEF TypeOK
<1>2. (IF mqueue[p] < Depth THEN mqueue[p] + 1 ELSE mqueue[p]) \in 0..Depth
  BY <1>1
<1>3. QED
  BY <1>1, <1>2 DEF Posted

(* Every step keeps the types and the places of the task that changes      *)
(* addresses.                                                              *)
LEMMA TypesKept ==
  ASSUME IInv, [Next]_vars
  PROVE  TypeOK' /\ AdminAt'
<1>1. /\ TypeOK /\ AdminAt /\ OneOwner /\ (\A s \in Sources : SourceAt(s))
      /\ (\A p \in Ports : DrainAt(p))
  BY DEF IInv
<1>2. \A l \in Loads : l.changes \in Nat
  BY SwitchAssumption DEF Load
<1> HIDE DEF IInv
<1> USE DEF vars, cfgVars, srcVars, taskVars
<1>3. ASSUME NEW s \in Sources, NEW d \in Addrs, Receive(s, d) PROVE TypeOK' /\ AdminAt'
  <2> DEFINE b == Fresh((IF KindOf(s) = "enet" THEN Pool ELSE Heap) \ live)
  <2>1. b \in Bufs
    BY <1>3, PortFacts, FreshTaken DEF Receive, CanReceive, Bufs
  <2> HIDE DEF b
  <2>2. /\ pkt' = [pkt EXCEPT ![b] = [src |-> s, num |-> arrived[s] + 1, dst |-> d,
                                      static |-> KindOf(s) = "enet"]]
        /\ live' = live \cup {b} /\ hand' = [hand EXCEPT ![s] = b]
    BY <1>3 DEF Receive, b
  <2>3. /\ arrived[s] + 1 \in Nat /\ (KindOf(s) = "enet") \in BOOLEAN
    BY <1>1 DEF TypeOK
  <2>4. pkt' \in [Bufs -> [src : Sources, num : Nat, dst : Addrs, static : BOOLEAN]]
    BY <1>1, <2>1, <2>2, <2>3 DEF TypeOK
  <2>5. live' \subseteq Bufs /\ hand' \in [Sources -> Bufs \cup {None}]
        /\ arrived' \in [Sources -> Nat]
    BY <1>1, <1>3, <2>1, <2>2 DEF TypeOK, Receive
  <2>6. batchNotify' \in [Sources -> BOOLEAN] /\ in_count' \in [Ports -> 0..Threshold + 1]
    <3>1. Threshold \in Nat /\ Owner(s) \in Ports /\ in_count[Owner(s)] \in 0..Threshold + 1
      BY <1>1, PortFacts, SwitchAssumption DEF TypeOK
    <3>2. (IF in_count[Owner(s)] > Threshold THEN 0 ELSE in_count[Owner(s)] + 1) \in 0..Threshold + 1
          /\ (in_count[Owner(s)] > Threshold) \in BOOLEAN
      BY <3>1
    <3>3. QED
      BY ZenonT(60), <1>1, <1>3, <3>1, <3>2 DEF TypeOK, Receive
  <2>7. pc' \in [Sources -> {"idle", "switch", "unicast", "visit", "count", "event",
                             "flag", "done", "batch", "notify", "post"}]
    BY <1>1, <1>3 DEF TypeOK, Receive, Goto
  <2>8. UNCHANGED <<cfgVars, data_out, need_notify, mqueue, todo, out, taskVars>>
    BY <1>3 DEF Receive
  <2>9. QED
    BY <1>1, <2>4, <2>5, <2>6, <2>7, <2>8 DEF TypeOK, AdminAt
<1>4. ASSUME NEW s \in Sources, NoMemory(s) PROVE TypeOK' /\ AdminAt'
  BY <1>1, <1>4 DEF TypeOK, AdminAt, NoMemory, Goto
<1>5. ASSUME NEW s \in Sources, SwitchPkt(s) PROVE TypeOK' /\ AdminAt'
  <2>1. Candidates(s) \in Seq(Ports) /\ FindDstPort(s, pkt[hand[s]].dst) \in Ports \cup {None}
    BY PortLists, DstPortFound
  <2>2. QED
    BY ZenonT(60), <1>1, <1>5, <2>1 DEF TypeOK, AdminAt, SwitchPkt, Goto
<1>6. ASSUME NEW s \in Sources, Unicast(s) PROVE TypeOK' /\ AdminAt'
  <2>1. hand[s] \in Bufs
    BY <1>1, <1>6 DEF TypeOK, Unicast, SourceAt, Carrying
  <2>2. CASE out[s] # None /\ LinkOn(out[s])
    <3>1. out[s] \in Ports
      BY <1>1, <2>2 DEF TypeOK
    <3>2. Append(data_out[out[s]], hand[s]) \in Seq(Bufs)
      BY <1>1, <2>1, <3>1 DEF TypeOK
    <3>3. /\ data_out' = [data_out EXCEPT ![out[s]] = Append(@, hand[s])]
          /\ out' = [out EXCEPT ![s] = out[s]] /\ pc' = [pc EXCEPT ![s] = "count"]
          /\ hand' = [hand EXCEPT ![s] = None]
          /\ UNCHANGED <<live, pkt, cfgVars, need_notify, mqueue, todo, batchNotify, in_count,
                         arrived, taskVars>>
      BY <1>6, <2>2 DEF Unicast, PortOut, AddTail, HandOver, Goto
    <3>4. QED
      BY <1>1, <3>1, <3>2, <3>3 DEF TypeOK, AdminAt
  <2>3. CASE ~ (out[s] # None /\ LinkOn(out[s]))
    <3>1. /\ live' \subseteq Bufs
          /\ pkt' \in [Bufs -> [src : Sources, num : Nat, dst : Addrs, static : BOOLEAN]]
      BY <1>1, <1>6, <2>1, <2>3, FreeTyped DEF TypeOK, Unicast, DropInHand
    <3>2. QED
      BY <1>1, <1>6, <2>3, <3>1 DEF TypeOK, AdminAt, Unicast, DropInHand, Goto
  <2>4. QED
    BY <2>2, <2>3
<1>7. ASSUME NEW s \in Sources, SkipPort(s) PROVE TypeOK' /\ AdminAt'
  <2>1. todo[s] # <<>> /\ todo[s] \in Seq(Ports)
    BY <1>1, <1>7 DEF TypeOK, SkipPort
  <2>2. Tail(todo[s]) \in Seq(Ports)
    BY <2>1
  <2>3. QED
    BY <1>1, <1>7, <2>2 DEF TypeOK, AdminAt, SkipPort
<1>8. ASSUME NEW s \in Sources, VisitPort(s) PROVE TypeOK' /\ AdminAt'
  <2> DEFINE p == Head(todo[s])
  <2> DEFINE copy == Fresh(Heap \ live)
  <2>1. hand[s] \in Bufs /\ todo[s] # <<>>
    BY <1>1, <1>8 DEF TypeOK, VisitPort, SourceAt, Carrying
  <2>2. p \in Ports /\ Tail(todo[s]) \in Seq(Ports) /\ data_out[p] \in Seq(Bufs)
    BY SMTT(60), <1>1, <2>1 DEF TypeOK
  <2>3. CASE TakesOriginal(s, p)
    <3>1. Append(data_out[p], hand[s]) \in Seq(Bufs)
      BY <2>1, <2>2
    <3> HIDE DEF p
    <3>2. /\ data_out' = [data_out EXCEPT ![p] = Append(@, hand[s])]
          /\ out' = [out EXCEPT ![s] = p] /\ pc' = [pc EXCEPT ![s] = "count"]
          /\ hand' = [hand EXCEPT ![s] = None] /\ todo' = [todo EXCEPT ![s] = Tail(@)]
          /\ UNCHANGED <<live, pkt, cfgVars, need_notify, mqueue, batchNotify, in_count,
                         arrived, taskVars>>
      BY <1>8, <2>3 DEF VisitPort, PortOut, AddTail, HandOver, Goto, p
    <3>3. QED
      BY <1>1, <2>2, <3>1, <3>2 DEF TypeOK, AdminAt
  <2>4. CASE ~ TakesOriginal(s, p)
    <3>1. copy \in Bufs
      BY <1>8, <2>4, FreshTaken DEF VisitPort, Bufs
    <3> HIDE DEF p, copy
    <3>2. Append(data_out[p], copy) \in Seq(Bufs)
      BY <2>2, <3>1
    <3>3. /\ data_out' = [data_out EXCEPT ![p] = Append(@, copy)]
          /\ out' = [out EXCEPT ![s] = p] /\ pc' = [pc EXCEPT ![s] = "count"]
          /\ live' = live \cup {copy} /\ pkt' = [pkt EXCEPT ![copy] = pkt[hand[s]]]
          /\ todo' = [todo EXCEPT ![s] = Tail(@)]
          /\ UNCHANGED <<hand, cfgVars, need_notify, mqueue, batchNotify, in_count,
                         arrived, taskVars>>
      BY <1>8, <2>4 DEF VisitPort, PortOut, AddTail, Goto, p, copy
    <3>4. QED
      BY <1>1, <2>1, <2>2, <3>1, <3>2, <3>3 DEF TypeOK, AdminAt
  <2>5. QED
    BY <2>3, <2>4
<1>9. ASSUME NEW s \in Sources, EndVisits(s) PROVE TypeOK' /\ AdminAt'
  <2>1. CASE hand[s] # None
    <3>1. hand[s] \in Bufs
      BY <1>1, <2>1 DEF TypeOK
    <3>2. /\ live' \subseteq Bufs
          /\ pkt' \in [Bufs -> [src : Sources, num : Nat, dst : Addrs, static : BOOLEAN]]
      BY <1>1, <1>9, <2>1, <3>1, FreeTyped DEF TypeOK, EndVisits, DropInHand
    <3>3. QED
      BY <1>1, <1>9, <2>1, <3>2 DEF TypeOK, AdminAt, EndVisits, DropInHand, Goto
  <2>2. CASE hand[s] = None
    BY <1>1, <1>9, <2>2 DEF TypeOK, AdminAt, EndVisits, Goto
  <2>3. QED
    BY <2>1, <2>2
<1>10. ASSUME NEW s \in Sources, CountOut(s) PROVE TypeOK' /\ AdminAt'
  BY <1>1, <1>10 DEF TypeOK, AdminAt, CountOut, Announcement, Goto
<1>11. ASSUME NEW s \in Sources, AnnounceOut(s) PROVE TypeOK' /\ AdminAt'
  <2>1. out[s] \in Ports
    BY <1>1, <1>11 DEF TypeOK, SourceAt, AnnounceOut, Announcing
  <2>2. mqueue' \in [Ports -> 0..Depth] /\ need_notify' \in [Ports -> BOOLEAN]
    <3>1. Posted(out[s]) \in [Ports -> 0..Depth]
      BY <1>1, <2>1, PostedTyped
    <3>2. QED
      BY <1>1, <1>11, <3>1 DEF TypeOK, AnnounceOut
  <2>3. QED
    BY <1>1, <1>11, <2>2 DEF TypeOK, AdminAt, AnnounceOut, PassedOn, Goto
<1>12. ASSUME NEW s \in Sources, EndPacket(s) \/ EndBatch(s) \/ Kick(s) PROVE TypeOK' /\ AdminAt'
  <2>1. NotifyOrder \in Seq(Ports) /\ 0 \in 0..Threshold + 1 /\ Owner(s) \in Ports
    BY PortLists, PortFacts, SwitchAssumption
  <2>2. /\ \/ todo' = [todo EXCEPT ![s] = NotifyOrder]
           \/ todo' = todo
        /\ \E where \in {"notify", "batch", "idle"} : pc' = [pc EXCEPT ![s] = where]
        /\ \/ in_count' = [in_count EXCEPT ![Owner(s)] = 0]
           \/ in_count' = in_count
        /\ UNCHANGED <<cfgVars, data_out, need_notify, mqueue, pkt, live, hand, out,
                       batchNotify, arrived, taskVars>>
    BY <1>12 DEF EndPacket, EndBatch, Kick, StartNotify, Goto
  <2>3. todo' \in [Sources -> Seq(Ports)]
    BY <1>1, <2>1, <2>2 DEF TypeOK
  <2>4. in_count' \in [Ports -> 0..Threshold + 1]
    BY <1>1, <2>1, <2>2 DEF TypeOK
  <2>5. pc' \in [Sources -> {"idle", "switch", "unicast", "visit", "count", "event",
                             "flag", "done", "batch", "notify", "post"}]
    BY <1>1, <2>2 DEF TypeOK
  <2>6. QED
    BY <1>1, <2>2, <2>3, <2>4, <2>5 DEF TypeOK, AdminAt
<1>13. ASSUME NEW s \in Sources, TestNotify(s) PROVE TypeOK' /\ AdminAt'
  <2>1. todo[s] # <<>> /\ todo[s] \in Seq(Ports)
    BY <1>1, <1>13 DEF TypeOK, TestNotify
  <2>2. Tail(todo[s]) \in Seq(Ports)
    BY <2>1
  <2>3. QED
    BY <1>1, <1>13, <2>2 DEF TypeOK, AdminAt, TestNotify, Goto
<1>14. ASSUME NEW s \in Sources, PostNotify(s) PROVE TypeOK' /\ AdminAt'
  <2>1. todo[s] # <<>> /\ Head(todo[s]) \in Ports /\ Tail(todo[s]) \in Seq(Ports)
    BY <1>1, <1>14 DEF TypeOK, SourceAt, PostNotify
  <2>2. mqueue' \in [Ports -> 0..Depth]
    BY <1>1, <1>14, <2>1, PostedTyped DEF PostNotify
  <2>3. QED
    BY <1>1, <1>14, <2>1, <2>2 DEF TypeOK, AdminAt, PostNotify, Goto
<1>15. ASSUME NEW s \in Sources, EndNotify(s) PROVE TypeOK' /\ AdminAt'
  BY <1>1, <1>15 DEF TypeOK, AdminAt, EndNotify, Goto
<1>16. ASSUME NEW p \in Ports, ReceiveEvent(p) PROVE TypeOK' /\ AdminAt'
  BY <1>1, <1>16, SwitchAssumption DEF TypeOK, AdminAt, ReceiveEvent
<1>17. ASSUME NEW p \in Ports, Scan(p) \/ Advance(p) PROVE TypeOK' /\ AdminAt'
  <2>1. PICK b, n \in Bufs \cup {None} : PassEnters(p, b, n)
    BY <1>1, <1>17, PassesEnterHead
  <2>2. QED
    BY <1>1, <2>1 DEF TypeOK, AdminAt, PassEnters
<1>18. ASSUME NEW p \in Ports, Output(p) PROVE TypeOK' /\ AdminAt'
  <2>1. cur[p] \in Bufs
    BY ZenonT(60), <1>1, <1>18, Tailed DEF TypeOK, DrainAt, Output
  <2>2. pkt[cur[p]].src \in Sources /\ pkt[cur[p]].num \in Nat
    BY <1>1, <2>1 DEF TypeOK
  <2>3. QED
    BY <1>1, <1>18, <2>2 DEF TypeOK, AdminAt, Output
<1>19. ASSUME NEW p \in Ports, Reclaim(p) PROVE TypeOK' /\ AdminAt'
  <2>1. /\ data_out[p] # <<>> /\ data_out[p] \in Seq(Bufs) /\ cur[p] \in Bufs
        /\ data_out' = [data_out EXCEPT ![p] = Tail(@)]
    BY <1>1, <1>19, HeadReclaimed
  <2>2. Tail(data_out[p]) \in Seq(Bufs)
    BY <2>1, Tailed
  <2>3. /\ live' \subseteq Bufs
        /\ pkt' \in [Bufs -> [src : Sources, num : Nat, dst : Addrs, static : BOOLEAN]]
    BY <1>1, <1>19, <2>1, FreeTyped DEF TypeOK, Reclaim
  <2>4. QED
    BY ZenonT(60), <1>1, <1>19, <2>1, <2>2, <2>3 DEF TypeOK, AdminAt, Reclaim
<1>20. ASSUME Configure PROVE TypeOK' /\ AdminAt'
  <2>1. Range(Locals) \subseteq Ports
    BY PortFacts
  <2>2. ASSUME NEW p \in Ports, NEW a,
               UpdateAddr(p, a) \/ (a \in Groups /\ (AddFdb(p, a) \/ RemoveFdb(p, a)))
        PROVE  TypeOK' /\ AdminAt'
    <3>1. PICK op \in {"mac", "add", "remove"} :
            /\ BeginChange(p, op, a)
            /\ op = "mac" => a \in Macs
            /\ op = "add" => a \in Groups
      BY <2>2 DEF UpdateAddr, AddFdb, RemoveFdb
    <3>2. changes' \in 0..load'.changes
      BY <1>1, <1>2, <3>1 DEF TypeOK, BeginChange
    <3>3. QED
      BY <1>1, <3>1, <3>2 DEF TypeOK, AdminAt, BeginChange
  <2>3. ASSUME MakeChange PROVE TypeOK' /\ AdminAt'
    <3>1. /\ admin.op \in {"mac", "add", "remove"} /\ admin.port \in Ports
          /\ admin.op = "mac" => admin.addr \in Macs
          /\ admin.op = "add" => admin.addr \in Groups
          /\ admin = [op |-> admin.op, port |-> admin.port, addr |-> admin.addr]
      BY <1>1, <2>3 DEF AdminAt, MakeChange, Idle
    <3>2. mac' \in [Ports -> Macs] /\ fdb' \in [Ports -> SUBSET Groups]
          /\ fdb_enabled' \in [Ports -> BOOLEAN]
      <4>1. CASE admin.op = "mac"
        BY <1>1, <2>3, <3>1, <4>1 DEF TypeOK, MakeChange
      <4>2. CASE admin.op = "add"
        <5>1. /\ fdb' = [fdb EXCEPT ![admin.port] = @ \cup {admin.addr}]
              /\ fdb_enabled' = [fdb_enabled EXCEPT ![admin.port] = TRUE] /\ mac' = mac
          BY <2>3, <4>2 DEF MakeChange
        <5>2. fdb[admin.port] \cup {admin.addr} \in SUBSET Groups
          BY <1>1, <3>1, <4>2 DEF TypeOK
        <5>3. QED
          BY <1>1, <3>1, <5>1, <5>2 DEF TypeOK
      <4>3. CASE admin.op = "remove"
        <5>1. /\ fdb' = [fdb EXCEPT ![admin.port] = @ \ {admin.addr}]
              /\ fdb_enabled' = [fdb_enabled EXCEPT
                                   ![admin.port] = @ /\ fdb[admin.port] # {admin.addr}]
              /\ mac' = mac
          BY <2>3, <4>3 DEF MakeChange
        <5>2. fdb[admin.port] \ {admin.addr} \in SUBSET Groups
              /\ (fdb_enabled[admin.port] /\ fdb[admin.port] # {admin.addr}) \in BOOLEAN
          BY <1>1, <3>1 DEF TypeOK
        <5>3. QED
          BY <1>1, <3>1, <5>1, <5>2 DEF TypeOK
      <4>4. QED
        BY <3>1, <4>1, <4>2, <4>3
    <3>3. admin' = [op |-> "on", port |-> admin.port, addr |-> admin.addr]
      BY <2>3, <3>1 DEF MakeChange
    <3>4. TypeOK'
      BY <1>1, <2>3, <3>2 DEF TypeOK, MakeChange
    <3>5. AdminAt'
      BY <3>1, <3>3 DEF AdminAt
    <3>6. QED
      BY <3>4, <3>5
  <2>4. ASSUME EndChange PROVE TypeOK' /\ AdminAt'
    BY <1>1, <2>4, PortFacts DEF TypeOK, AdminAt, EndChange, Idle
  <2>5. ASSUME NEW p \in Ports, LinkChange(p) PROVE TypeOK' /\ AdminAt'
    BY <1>1, <1>2, <2>5 DEF TypeOK, AdminAt, LinkChange
  <2>6. QED
    BY <1>20, <2>1, <2>2, <2>3, <2>4, <2>5 DEF Configure
<1>21. ASSUME UNCHANGED vars PROVE TypeOK' /\ AdminAt'
  BY <1>1, <1>21 DEF TypeOK, AdminAt
<1>22. QED
  BY <1>3, <1>4, <1>5, <1>6, <1>7, <1>8, <1>9, <1>10, <1>11, <1>12, <1>13, <1>14, <1>15,
     <1>16, <1>17, <1>18, <1>19, <1>20, <1>21
     DEF Next, SourceStep, DrainStep

-----------------------------------------------------------------------------
(* What a step can do to the buffers.  Every action is one of these to the *)
(* hands, the lists and the packets.                                       *)

Others(s)  == \A t \in Sources \ {s} : NotYet(t)' \subseteq NotYet(t)
SamePasses == sent' = sent /\ \A p \in Ports : First(p)' = First(p)
SameHands  == UNCHANGED <<hand, arrived>> /\ \A s \in Sources : NotYet(s)' \subseteq NotYet(s)

Received(s, b) ==
    /\ b \in Bufs \ live /\ hand[s] = None
    /\ live' = live \cup {b} /\ hand' = [hand EXCEPT ![s] = b] /\ data_out' = data_out
    /\ pkt'[b].src = s /\ pkt'[b].num = arrived[s] + 1
    /\ \A c \in Bufs \ {b} : pkt'[c] = pkt[c]
    /\ arrived' = [arrived EXCEPT ![s] = @ + 1]
    /\ NotYet(s)' \subseteq Ports /\ Others(s) /\ SamePasses

MovedTo(s, p) ==
    /\ hand[s] # None /\ p \in NotYet(s)
    /\ hand' = [hand EXCEPT ![s] = None]
    /\ data_out' = [data_out EXCEPT ![p] = Append(@, hand[s])]
    /\ UNCHANGED <<live, pkt, arrived>>
    /\ NotYet(s)' = {} /\ Others(s) /\ SamePasses

ClonedTo(s, p, b) ==
    /\ hand[s] # None /\ p \in NotYet(s) /\ b \in Bufs \ live
    /\ live' = live \cup {b} /\ pkt' = [pkt EXCEPT ![b] = pkt[hand[s]]]
    /\ data_out' = [data_out EXCEPT ![p] = Append(@, b)]
    /\ UNCHANGED <<hand, arrived>>
    /\ NotYet(s)' \subseteq NotYet(s) \ {p} /\ Others(s) /\ SamePasses

Dropped(s) ==
    /\ hand[s] # None /\ Free(hand[s])
    /\ hand' = [hand EXCEPT ![s] = None]
    /\ UNCHANGED <<data_out, arrived>>
    /\ NotYet(s)' = {} /\ Others(s) /\ SamePasses

Reclaimed(p) ==
    /\ data_out[p] # <<>> /\ Free(data_out[p][1])
    /\ data_out' = [data_out EXCEPT ![p] = Tail(@)]
    /\ First(p) = 2 /\ First(p)' = 1 /\ \A q \in Ports \ {p} : First(q)' = First(q)
    /\ sent' = sent /\ SameHands

PutOut(p) ==
    /\ data_out[p] # <<>>
    /\ LET k == pkt[data_out[p][1]] IN sent' = [sent EXCEPT ![p][k.src] = k.num]
    /\ First(p) = 1 /\ First(p)' = 2 /\ \A q \in Ports \ {p} : First(q)' = First(q)
    /\ UNCHANGED <<data_out, live, pkt>> /\ SameHands

Quiet == UNCHANGED <<data_out, live, pkt>> /\ SameHands /\ SamePasses

AnyKind ==
    \/ \E s \in Sources : \/ \E b \in Bufs : Received(s, b)
                          \/ \E p \in Ports : MovedTo(s, p) \/ \E b \in Bufs : ClonedTo(s, p, b)
                          \/ Dropped(s)
    \/ \E p \in Ports : Reclaimed(p) \/ PutOut(p)
    \/ Quiet

(* A source that moves changes nothing about the others.                   *)
LEMMA OthersKept ==
  ASSUME TypeOK, NEW s \in Sources,
         \A t \in Sources \ {s} : pc'[t] = pc[t] /\ hand'[t] = hand[t] /\ todo'[t] = todo[t]
  PROVE  Others(s)
BY DEF Others, NotYet

LEMMA SourcesKept ==
  ASSUME UNCHANGED <<pc, hand, todo, arrived>>
  PROVE  SameHands
BY DEF SameHands, NotYet

LEMMA StepKinds ==
  ASSUME IInv, [Next]_vars
  PROVE  AnyKind
<1>1. /\ TypeOK /\ OneOwner /\ (\A s \in Sources : SourceAt(s))
      /\ (\A p \in Ports : DrainAt(p))
  BY DEF IInv
<1> HIDE DEF IInv
<1>2. ASSUME tpc' = tpc, sent' = sent PROVE SamePasses
  BY <1>2 DEF SamePasses, First
<1> USE DEF vars, cfgVars, srcVars, taskVars
<1>3. ASSUME NEW s \in Sources, NEW d \in Addrs, Receive(s, d) PROVE AnyKind
  <2> DEFINE b == Fresh((IF KindOf(s) = "enet" THEN Pool ELSE Heap) \ live)
  <2>1. b \in Bufs \ live
    BY <1>3, PortFacts, FreshTaken DEF Receive, CanReceive, Bufs
  <2> HIDE DEF b
  <2>2. /\ pkt' = [pkt EXCEPT ![b] = [src |-> s, num |-> arrived[s] + 1, dst |-> d,
                                      static |-> KindOf(s) = "enet"]]
        /\ live' = live \cup {b} /\ hand' = [hand EXCEPT ![s] = b]
        /\ arrived' = [arrived EXCEPT ![s] = @ + 1] /\ pc' = [pc EXCEPT ![s] = "switch"]
        /\ UNCHANGED <<data_out, todo, tpc, sent>>
    BY <1>3 DEF Receive, Goto, b
  <2>3. hand[s] = None
    <3>1. pc[s] \in {"idle", "batch"}
      BY <1>3, PortFacts DEF Receive, CanReceive
    <3>2. QED
      BY <1>1, <3>1 DEF SourceAt, Carrying, Announcing
  <2>4. NotYet(s)' \subseteq Ports
    <3>1. pc'[s] = "switch"
      BY <1>1, <2>2 DEF TypeOK
    <3>2. QED
      BY <3>1 DEF NotYet, Announcing
  <2>5. Others(s) /\ SamePasses
    BY <1>1, <1>2, <2>2, OthersKept DEF TypeOK
  <2>6. Received(s, b)
    BY <1>1, <2>1, <2>2, <2>3, <2>4, <2>5 DEF Received, TypeOK
  <2>7. QED
    BY <2>1, <2>6 DEF AnyKind
<1>4. ASSUME NEW s \in Sources, Unicast(s) PROVE AnyKind
  <2>1. hand[s] \in Bufs /\ hand[s] # None
    BY <1>1, <1>4 DEF TypeOK, Unicast, SourceAt, Carrying
  <2>2. Others(s)
    BY <1>1, <1>4, OthersKept DEF TypeOK, Unicast, PortOut, DropInHand, HandOver, Goto
  <2>3. SamePasses /\ UNCHANGED <<arrived>>
    BY <1>2, <1>4 DEF Unicast
  <2>4. NotYet(s)' = {}
    BY <1>1, <1>4 DEF TypeOK, Unicast, PortOut, HandOver, DropInHand, Goto, NotYet, Announcing
  <2>5. CASE out[s] # None /\ LinkOn(out[s])
    <3>1. out[s] \in Ports /\ out[s] \in NotYet(s)
      BY <1>1, <1>4, <2>5 DEF TypeOK, Unicast, NotYet, Announcing
    <3>2. MovedTo(s, out[s])
      BY <1>4, <2>1, <2>2, <2>3, <2>4, <2>5, <3>1 DEF MovedTo, Unicast, PortOut, AddTail, HandOver
    <3>3. QED
      BY <3>1, <3>2 DEF AnyKind
  <2>6. CASE ~ (out[s] # None /\ LinkOn(out[s]))
    <3>1. Dropped(s)
      BY <1>4, <2>1, <2>2, <2>3, <2>4, <2>6 DEF Dropped, Unicast, DropInHand
    <3>2. QED
      BY <3>1 DEF AnyKind
  <2>7. QED
    BY <2>5, <2>6
<1>5. ASSUME NEW s \in Sources, VisitPort(s) PROVE AnyKind
  <2> DEFINE p == Head(todo[s])
  <2> DEFINE copy == Fresh(Heap \ live)
  <2>1. /\ hand[s] \in Bufs /\ hand[s] # None /\ todo[s] # <<>> /\ todo[s] \in Seq(Ports)
        /\ IsInjective(todo[s]) /\ pc[s] = "visit"
    BY <1>1, <1>5 DEF TypeOK, VisitPort, SourceAt, Carrying
  <2>2. /\ p \in Ports /\ p \in Range(todo[s])
        /\ Range(Tail(todo[s])) \subseteq Range(todo[s]) \ {p}
    <3>1. /\ Head(todo[s]) = todo[s][1] /\ todo[s][1] \in Range(todo[s]) /\ todo[s][1] \in Ports
          /\ Range(Tail(todo[s])) \subseteq Range(todo[s])
          /\ todo[s][1] \notin Range(Tail(todo[s]))
      BY <2>1, Tailed
    <3>2. QED
      BY <3>1
  <2> HIDE DEF p, copy
  <2>3. /\ todo' = [todo EXCEPT ![s] = Tail(@)] /\ pc' = [pc EXCEPT ![s] = "count"]
        /\ UNCHANGED <<arrived, tpc, sent>>
    BY <1>5 DEF VisitPort, PortOut, Goto
  <2>4. \A t \in Sources \ {s} : hand'[t] = hand[t]
    BY <1>1, <1>5 DEF TypeOK, VisitPort, HandOver
  <2>5. Others(s) /\ SamePasses
    BY <1>1, <1>2, <2>3, <2>4, OthersKept DEF TypeOK
  <2>6. p \in NotYet(s)
    BY <2>1, <2>2 DEF NotYet
  <2>7. CASE TakesOriginal(s, p)
    <3>1. /\ data_out' = [data_out EXCEPT ![p] = Append(@, hand[s])]
          /\ hand' = [hand EXCEPT ![s] = None] /\ UNCHANGED <<live, pkt>>
      BY <1>5, <2>7 DEF VisitPort, PortOut, AddTail, HandOver, p
    <3>2. NotYet(s)' = {}
      BY <1>1, <2>3, <3>1 DEF NotYet, Announcing, TypeOK
    <3>3. MovedTo(s, p)
      BY <2>1, <2>3, <2>5, <2>6, <3>1, <3>2 DEF MovedTo
    <3>4. QED
      BY <2>2, <3>3 DEF AnyKind
  <2>8. CASE ~ TakesOriginal(s, p)
    <3>1. copy \in Bufs \ live
      BY <1>5, <2>8, FreshTaken DEF VisitPort, Bufs, p, copy
    <3>2. /\ data_out' = [data_out EXCEPT ![p] = Append(@, copy)]
          /\ live' = live \cup {copy} /\ pkt' = [pkt EXCEPT ![copy] = pkt[hand[s]]]
          /\ hand' = hand
      BY <1>5, <2>8 DEF VisitPort, PortOut, AddTail, p, copy
    <3>3. NotYet(s)' = Range(Tail(todo[s])) /\ NotYet(s) = Range(todo[s])
      BY <1>1, <2>1, <2>3, <3>2 DEF NotYet, Announcing, TypeOK
    <3>4. ClonedTo(s, p, copy)
      BY <2>1, <2>2, <2>3, <2>5, <2>6, <3>1, <3>2, <3>3 DEF ClonedTo
    <3>5. QED
      BY <2>2, <3>1, <3>4 DEF AnyKind
  <2>9. QED
    BY <2>7, <2>8
<1>6. ASSUME NEW s \in Sources, EndVisits(s) PROVE AnyKind
  <2>1. hand[s] # None
    BY <1>1, <1>6 DEF SourceAt, Carrying, EndVisits
  <2>2. Others(s)
    BY <1>1, <1>6, OthersKept DEF TypeOK, EndVisits, DropInHand, Goto
  <2>3. SamePasses /\ UNCHANGED <<data_out, arrived>>
    BY <1>2, <1>6 DEF EndVisits
  <2>4. NotYet(s)' = {}
    BY <1>1, <1>6 DEF TypeOK, EndVisits, Goto, NotYet, Announcing
  <2>5. Dropped(s)
    BY <1>6, <2>1, <2>2, <2>3, <2>4 DEF Dropped, EndVisits, DropInHand
  <2>6. QED
    BY <2>5 DEF AnyKind
(* The steps of a source that leave its packet where it is.                *)
<1>7. ASSUME NEW s \in Sources, UNCHANGED <<data_out, live, pkt, hand, arrived, tpc, sent>>,
             \A t \in Sources \ {s} : pc'[t] = pc[t] /\ todo'[t] = todo[t],
             NotYet(s)' \subseteq NotYet(s)
      PROVE  AnyKind
  <2>1. Others(s) /\ SamePasses
    BY <1>1, <1>2, <1>7, OthersKept
  <2>2. SameHands
    BY <1>7, <2>1 DEF SameHands, Others
  <2>3. QED
    BY <1>7, <2>1, <2>2 DEF Quiet, AnyKind
<1>8. ASSUME NEW s \in Sources, SwitchPkt(s) PROVE AnyKind
  <2>1. Range(Candidates(s)) \subseteq Ports
    BY PortLists, RangeOfSeq
  <2>2. hand[s] # None /\ pc[s] = "switch"
    BY <1>1, <1>8 DEF SourceAt, Carrying, SwitchPkt
  <2>3. NotYet(s)' \subseteq Ports
    <3>1. \/ pc'[s] = "visit" /\ todo'[s] = Candidates(s)
          \/ pc'[s] = "unicast"
      BY <1>1, <1>8 DEF TypeOK, SwitchPkt, Goto
    <3>2. hand'[s] # None
      BY <1>8, <2>2 DEF SwitchPkt
    <3>3. QED
      BY <2>1, <3>1, <3>2 DEF NotYet, Announcing
  <2>4. NotYet(s) = Ports
    BY <2>2 DEF NotYet, Announcing
  <2>5. \A t \in Sources \ {s} : pc'[t] = pc[t] /\ todo'[t] = todo[t]
    BY <1>1, <1>8 DEF TypeOK, SwitchPkt, Goto
  <2>6. QED
    BY <1>7, <1>8, <2>3, <2>4, <2>5 DEF SwitchPkt
<1>9. ASSUME NEW s \in Sources, SkipPort(s) PROVE AnyKind
  <2>1. todo[s] # <<>> /\ todo[s] \in Seq(Ports) /\ pc[s] = "visit" /\ hand[s] # None
    BY <1>1, <1>9 DEF TypeOK, SkipPort, SourceAt, Carrying
  <2>2. Range(Tail(todo[s])) \subseteq Range(todo[s])
    BY <2>1, Tailed
  <2>3. NotYet(s) = Range(todo[s]) /\ NotYet(s)' = Range(Tail(todo[s]))
    BY <1>1, <1>9, <2>1 DEF TypeOK, SkipPort, NotYet
  <2>4. QED
    BY <1>1, <1>7, <1>9, <2>2, <2>3 DEF SkipPort, TypeOK
<1>10. ASSUME NEW s \in Sources, CountOut(s) \/ AnnounceOut(s) PROVE AnyKind
  <2>1. pc[s] \in Announcing /\ todo' = todo /\ hand' = hand
        /\ UNCHANGED <<data_out, live, pkt, hand, arrived, tpc, sent>>
    BY <1>10 DEF CountOut, AnnounceOut, Announcing
  <2>2. \/ pc' = [pc EXCEPT ![s] = "event"] \/ pc' = [pc EXCEPT ![s] = "flag"]
        \/ pc' = [pc EXCEPT ![s] = "done"] \/ (pc' = [pc EXCEPT ![s] = "visit"] /\ hand[s] # None)
    BY <1>10 DEF CountOut, AnnounceOut, Announcement, PassedOn, Goto
  <2>3. NotYet(s)' \subseteq NotYet(s)
    <3>1. NotYet(s) = IF hand[s] # None THEN Range(todo[s]) ELSE {}
      BY <2>1 DEF NotYet, Announcing
    <3>2. NotYet(s)' = IF hand[s] # None THEN NotYet(s)' ELSE {}
      BY <1>1, <2>1, <2>2 DEF NotYet, Announcing, TypeOK
    <3>3. pc'[s] \in {"event", "flag", "done", "visit"}
      BY <1>1, <2>2 DEF TypeOK
    <3>4. NotYet(s)' \subseteq Range(todo[s])
      BY <2>1, <3>3 DEF NotYet, Announcing
    <3>5. QED
      BY <3>1, <3>2, <3>4
  <2>4. \A t \in Sources \ {s} : pc'[t] = pc[t] /\ todo'[t] = todo[t]
    BY <1>1, <2>1, <2>2 DEF TypeOK
  <2>5. QED
    BY <1>7, <2>1, <2>3, <2>4
<1>11. ASSUME NEW s \in Sources,
              \/ NoMemory(s) \/ EndPacket(s) \/ EndBatch(s) \/ Kick(s)
              \/ TestNotify(s) \/ PostNotify(s) \/ EndNotify(s)
       PROVE  AnyKind
  <2>1. UNCHANGED <<data_out, live, pkt, hand, arrived, tpc, sent>>
    BY <1>11 DEF NoMemory, EndPacket, EndBatch, Kick, TestNotify, PostNotify, EndNotify
  <2>2. \/ \E where \in {"batch", "idle", "notify", "post"} : pc' = [pc EXCEPT ![s] = where]
        \/ pc' = pc /\ pc[s] = "notify"
    <3>1. CASE NoMemory(s) \/ EndPacket(s) \/ EndBatch(s) \/ Kick(s)
      BY <3>1 DEF NoMemory, EndPacket, EndBatch, Kick, StartNotify, Goto
    <3>2. CASE TestNotify(s) \/ PostNotify(s) \/ EndNotify(s)
      BY <3>2 DEF TestNotify, PostNotify, EndNotify, Goto
    <3>3. QED
      BY <1>11, <3>1, <3>2
  <2>3. NotYet(s)' = {}
    BY <1>1, <2>2 DEF TypeOK, NotYet, Announcing
  <2>4. \A t \in Sources \ {s} : todo'[t] = todo[t]
    BY <1>1, <1>11 DEF TypeOK, NoMemory, EndPacket, EndBatch, Kick, TestNotify, PostNotify,
                       EndNotify, StartNotify
  <2>5. \A t \in Sources \ {s} : pc'[t] = pc[t]
    BY <1>1, <2>2 DEF TypeOK
  <2>6. QED
    BY <1>7, <2>1, <2>3, <2>4, <2>5
<1>12. ASSUME NEW p \in Ports, Output(p) PROVE AnyKind
  <2>1. SameHands
    BY <1>12, SourcesKept DEF Output
  <2>2. data_out[p] # <<>> /\ cur[p] = data_out[p][1] /\ tpc[p] = "output"
    BY <1>1, <1>12 DEF DrainAt, Output
  <2>3. tpc' = [tpc EXCEPT ![p] = "reclaim"]
    BY <1>12 DEF Output
  <2>4. First(p) = 1 /\ First(p)' = 2 /\ \A q \in Ports \ {p} : First(q)' = First(q)
    BY <1>1, <2>2, <2>3 DEF First, TypeOK
  <2>5. PutOut(p)
    BY <1>12, <2>1, <2>2, <2>4 DEF PutOut, Output
  <2>6. QED
    BY <2>5 DEF AnyKind
<1>13. ASSUME NEW p \in Ports, Reclaim(p) PROVE AnyKind
  <2>1. SameHands
    BY <1>13, SourcesKept DEF Reclaim
  <2>2. /\ data_out[p] # <<>> /\ cur[p] = data_out[p][1]
        /\ data_out' = [data_out EXCEPT ![p] = Tail(@)]
    BY <1>1, <1>13, HeadReclaimed
  <2>3. First(p) = 2 /\ First(p)' = 1 /\ \A q \in Ports \ {p} : First(q)' = First(q)
    BY <1>1, <1>13 DEF First, TypeOK, Reclaim
  <2>4. Reclaimed(p)
    BY <1>13, <2>1, <2>2, <2>3 DEF Reclaimed, Reclaim
  <2>5. QED
    BY <2>4 DEF AnyKind
<1>14. ASSUME NEW p \in Ports, Scan(p) \/ Advance(p) PROVE AnyKind
  <2>1. PICK b, n \in Bufs \cup {None} : PassEnters(p, b, n)
    BY <1>1, <1>14, PassesEnterHead
  <2>2. SameHands
    BY <2>1, SourcesKept DEF PassEnters
  <2>3. \A q \in Ports : First(q)' = First(q)
    BY <1>1, <2>1 DEF PassEnters, First, TypeOK
  <2>4. Quiet
    BY <2>1, <2>2, <2>3 DEF Quiet, SamePasses, PassEnters
  <2>5. QED
    BY <2>4 DEF AnyKind
<1>15. ASSUME NEW p \in Ports, ReceiveEvent(p) PROVE AnyKind
  <2>1. SameHands
    BY <1>15, SourcesKept DEF ReceiveEvent
  <2>2. \A q \in Ports : First(q)' = First(q)
    BY <1>1, <1>15 DEF ReceiveEvent, First, TypeOK
  <2>3. QED
    BY <1>15, <2>1, <2>2 DEF Quiet, SamePasses, ReceiveEvent, AnyKind
<1>16. ASSUME Configure \/ UNCHANGED vars PROVE AnyKind
  <2>1. UNCHANGED <<data_out, pkt, live, srcVars, taskVars>>
    BY <1>16 DEF Configure, UpdateAddr, AddFdb, RemoveFdb, BeginChange, MakeChange, EndChange,
                 LinkChange
  <2>2. SameHands /\ SamePasses
    BY <1>2, <2>1, SourcesKept
  <2>3. QED
    BY <2>1, <2>2 DEF Quiet, AnyKind
<1>17. QED
  BY <1>3, <1>4, <1>5, <1>6, <1>8, <1>9, <1>10, <1>11, <1>12, <1>13, <1>14, <1>15, <1>16
     DEF Next, SourceStep, DrainStep

-----------------------------------------------------------------------------
(* Every buffer has one owner.                                             *)

(* A buffer outside live is in nobody's hands.                             *)
LEMMA FreeIsUnheld ==
  ASSUME OneOwner, NEW b \in Bufs \ live
  PROVE  /\ \A s \in Sources : hand[s] # b
         /\ \A p \in Ports : b \notin Range(data_out[p])
BY DEF OneOwner, Held

(* Freeing a buffer nobody else holds.                                     *)
LEMMA FreeLeaks ==
  ASSUME TypeOK, NEW b \in Bufs, b \in live, Free(b)
  PROVE  /\ live' \subseteq live /\ \A c \in live : c # b => c \in live'
         /\ \A c \in Bufs : c # b => pkt'[c] = pkt[c]
         /\ b \in live' => b \in Heap /\ pkt'[b].static
BY DEF Free, TypeOK

(* A list extended by a buffer that is in no list.                         *)
LEMMA ListExtended ==
  ASSUME TypeOK, OneOwner, NEW p \in Ports, NEW b \in Bufs,
         \A q \in Ports : b \notin Range(data_out[q]),
         data_out' = [data_out EXCEPT ![p] = Append(@, b)]
  PROVE  /\ Range(data_out'[p]) = Range(data_out[p]) \cup {b}
         /\ \A q \in Ports \ {p} : Range(data_out'[q]) = Range(data_out[q])
         /\ \A q \in Ports : IsInjective(data_out'[q])
         /\ \A q, r \in Ports : q # r => Range(data_out'[q]) \cap Range(data_out'[r]) = {}
<1>1. /\ data_out[p] \in Seq(Bufs) /\ IsInjective(data_out[p]) /\ b \notin Range(data_out[p])
      /\ data_out'[p] = Append(data_out[p], b)
      /\ \A q \in Ports \ {p} : data_out'[q] = data_out[q]
  BY DEF TypeOK, OneOwner
<1>2. /\ Range(Append(data_out[p], b)) = Range(data_out[p]) \cup {b}
      /\ IsInjective(Append(data_out[p], b))
  BY <1>1, Appended
<1>3. /\ Range(data_out'[p]) = Range(data_out[p]) \cup {b} /\ IsInjective(data_out'[p])
      /\ \A q \in Ports \ {p} : Range(data_out'[q]) = Range(data_out[q])
  BY <1>1, <1>2
<1>4. \A q \in Ports : IsInjective(data_out'[q])
  BY <1>1, <1>3 DEF OneOwner
<1>5. \A q, r \in Ports : q # r => Range(data_out'[q]) \cap Range(data_out'[r]) = {}
  BY <1>3 DEF OneOwner
<1>6. QED
  BY <1>3, <1>4, <1>5

LEMMA OwnersKept ==
  ASSUME IInv, AnyKind
  PROVE  OneOwner' /\ OnlyClonesLeak'
<1>1. TypeOK /\ OneOwner /\ OnlyClonesLeak
  BY DEF IInv
<1> HIDE DEF IInv
<1>2. None \notin Bufs /\ \A s \in Sources : hand[s] \in Bufs \cup {None}
  BY <1>1, PortFacts DEF TypeOK
<1>3. /\ \A s, t \in Sources : hand[s] # None /\ hand[s] = hand[t] => s = t
      /\ \A s \in Sources, p \in Ports : hand[s] \notin Range(data_out[p])
      /\ \A p \in Ports : IsInjective(data_out[p])
      /\ \A p, q \in Ports : p # q => Range(data_out[p]) \cap Range(data_out[q]) = {}
      /\ \A b \in Bufs : Held(b) => b \in live
  BY <1>1 DEF OneOwner
<1>4. \A b \in live : b \in Bufs /\ (Held(b) \/ (b \in Heap /\ pkt[b].static))
  BY <1>1 DEF OnlyClonesLeak, TypeOK
<1>5. \A p \in Ports : Range(data_out[p]) \subseteq Bufs
  BY <1>1, RangeOfSeq DEF TypeOK
<1>6. ASSUME NEW s \in Sources, NEW b \in Bufs, Received(s, b) PROVE OneOwner' /\ OnlyClonesLeak'
  <2>1. /\ b \notin live /\ hand[s] = None /\ live' = live \cup {b} /\ data_out' = data_out
        /\ hand'[s] = b /\ \A t \in Sources \ {s} : hand'[t] = hand[t]
        /\ \A c \in Bufs \ {b} : pkt'[c] = pkt[c]
    BY <1>1, <1>6 DEF Received, TypeOK
  <2>2. (\A t \in Sources : hand[t] # b) /\ \A p \in Ports : b \notin Range(data_out[p])
    BY <1>1, <2>1, FreeIsUnheld
  <2>3. \A c \in Bufs : Held(c)' <=> Held(c) \/ c = b
    BY <1>2, <2>1, <2>2 DEF Held
  <2>4. /\ \A t, u \in Sources : hand'[t] # None /\ hand'[t] = hand'[u] => t = u
        /\ \A t \in Sources, p \in Ports : hand'[t] \notin Range(data_out'[p])
    BY <1>3, <2>1, <2>2
  <2>5. OneOwner'
    BY <1>3, <2>1, <2>3, <2>4 DEF OneOwner
  <2>6. OnlyClonesLeak'
    BY <1>4, <2>1, <2>3 DEF OnlyClonesLeak
  <2>7. QED
    BY <2>5, <2>6
<1>7. ASSUME NEW s \in Sources, NEW p \in Ports, MovedTo(s, p) PROVE OneOwner' /\ OnlyClonesLeak'
  <2> DEFINE b == hand[s]
  <2>1. /\ b \in Bufs /\ b # None /\ hand'[s] = None
        /\ \A t \in Sources \ {s} : hand'[t] = hand[t]
        /\ data_out' = [data_out EXCEPT ![p] = Append(@, b)]
        /\ live' = live /\ pkt' = pkt
        /\ \A q \in Ports : b \notin Range(data_out[q])
    BY <1>1, <1>2, <1>3, <1>7 DEF MovedTo, TypeOK
  <2>2. \A t \in Sources \ {s} : hand[t] # b
    BY <1>3, <2>1
  <2> HIDE DEF b
  <2>3. /\ Range(data_out'[p]) = Range(data_out[p]) \cup {b}
        /\ \A q \in Ports \ {p} : Range(data_out'[q]) = Range(data_out[q])
        /\ \A q \in Ports : IsInjective(data_out'[q])
        /\ \A q, r \in Ports : q # r => Range(data_out'[q]) \cap Range(data_out'[r]) = {}
    BY <1>1, <2>1, ListExtended
  <2>4. \A c \in Bufs : Held(c)' <=> Held(c)
    <3>1. ASSUME NEW c \in Bufs, Held(c)' PROVE Held(c)
      <4>1. c = b => Held(c)
        BY DEF Held, b
      <4>2. QED
        BY <1>2, <2>1, <2>3, <3>1, <4>1 DEF Held
    <3>2. ASSUME NEW c \in Bufs, Held(c) PROVE Held(c)'
      <4>1. ASSUME NEW t \in Sources, hand[t] = c PROVE Held(c)'
        <5>1. CASE t = s
          BY <2>3, <4>1, <5>1 DEF Held, b
        <5>2. CASE t # s
          BY <2>1, <4>1, <5>2 DEF Held
        <5>3. QED
          BY <5>1, <5>2
      <4>2. ASSUME NEW q \in Ports, c \in Range(data_out[q]) PROVE Held(c)'
        BY <2>3, <4>2 DEF Held
      <4>3. QED
        BY <3>2, <4>1, <4>2 DEF Held
    <3>3. QED
      BY <3>1, <3>2
  <2>5. /\ \A t, u \in Sources : hand'[t] # None /\ hand'[t] = hand'[u] => t = u
        /\ \A t \in Sources, q \in Ports : hand'[t] \notin Range(data_out'[q])
    <3>1. \A t, u \in Sources : hand'[t] # None /\ hand'[t] = hand'[u] => t = u
      BY <1>3, <2>1
    <3>2. \A q \in Ports : Range(data_out'[q]) \subseteq Bufs
      BY <1>5, <2>1, <2>3
    <3>3. \A t \in Sources, q \in Ports : hand'[t] \notin Range(data_out'[q])
      BY <1>2, <1>3, <2>1, <2>2, <2>3, <3>2
    <3>4. QED
      BY <3>1, <3>3
  <2>6. OneOwner'
    BY <1>3, <2>1, <2>3, <2>4, <2>5 DEF OneOwner
  <2>7. OnlyClonesLeak'
    BY <1>4, <2>1, <2>4 DEF OnlyClonesLeak
  <2>8. QED
    BY <2>6, <2>7
<1>8. ASSUME NEW s \in Sources, NEW p \in Ports, NEW b \in Bufs, ClonedTo(s, p, b)
      PROVE  OneOwner' /\ OnlyClonesLeak'
  <2>1. /\ b \notin live /\ hand' = hand /\ live' = live \cup {b}
        /\ data_out' = [data_out EXCEPT ![p] = Append(@, b)]
        /\ \A c \in Bufs \ {b} : pkt'[c] = pkt[c]
    BY <1>1, <1>8 DEF ClonedTo, TypeOK
  <2>2. (\A t \in Sources : hand[t] # b) /\ \A q \in Ports : b \notin Range(data_out[q])
    BY <1>1, <2>1, FreeIsUnheld
  <2>3. /\ Range(data_out'[p]) = Range(data_out[p]) \cup {b}
        /\ \A q \in Ports \ {p} : Range(data_out'[q]) = Range(data_out[q])
        /\ \A q \in Ports : IsInjective(data_out'[q])
        /\ \A q, r \in Ports : q # r => Range(data_out'[q]) \cap Range(data_out'[r]) = {}
    BY <1>1, <2>1, <2>2, ListExtended
  <2>4. \A c \in Bufs : Held(c)' <=> Held(c) \/ c = b
    BY <2>1, <2>3 DEF Held
  <2>5. \A t \in Sources, q \in Ports : hand'[t] \notin Range(data_out'[q])
    BY <1>3, <2>1, <2>2, <2>3
  <2>6. OneOwner'
    BY <1>3, <2>1, <2>3, <2>4, <2>5 DEF OneOwner
  <2>7. OnlyClonesLeak'
    BY <1>4, <2>1, <2>4 DEF OnlyClonesLeak
  <2>8. QED
    BY <2>6, <2>7
<1>9. ASSUME NEW s \in Sources, Dropped(s) PROVE OneOwner' /\ OnlyClonesLeak'
  <2> DEFINE b == hand[s]
  <2>1. /\ b \in Bufs /\ b # None /\ Free(b) /\ data_out' = data_out /\ hand'[s] = None
        /\ \A t \in Sources \ {s} : hand'[t] = hand[t]
    BY <1>1, <1>2, <1>9 DEF Dropped, TypeOK
  <2>2. b \in live /\ (\A t \in Sources \ {s} : hand[t] # b)
        /\ \A q \in Ports : b \notin Range(data_out[q])
    BY <1>3, <2>1 DEF Held
  <2> HIDE DEF b
  <2>3. /\ live' \subseteq live /\ \A c \in live : c # b => c \in live'
        /\ \A c \in Bufs : c # b => pkt'[c] = pkt[c]
        /\ b \in live' => b \in Heap /\ pkt'[b].static
    BY <1>1, <2>1, <2>2, FreeLeaks
  <2>4. \A c \in Bufs : Held(c)' <=> Held(c) /\ c # b
    <3>1. \A c \in Bufs : Held(c)' => Held(c) /\ c # b
      BY <1>2, <2>1, <2>2 DEF Held
    <3>2. \A c \in Bufs : Held(c) /\ c # b => Held(c)'
      BY <2>1 DEF Held, b
    <3>3. QED
      BY <3>1, <3>2
  <2>5. /\ \A t, u \in Sources : hand'[t] # None /\ hand'[t] = hand'[u] => t = u
        /\ \A t \in Sources, q \in Ports : hand'[t] \notin Range(data_out'[q])
    BY <1>2, <1>3, <1>5, <2>1
  <2>6. OneOwner'
    BY <1>3, <2>1, <2>3, <2>4, <2>5 DEF OneOwner
  <2>7. OnlyClonesLeak'
    BY <1>4, <2>3, <2>4 DEF OnlyClonesLeak
  <2>8. QED
    BY <2>6, <2>7
<1>10. ASSUME NEW p \in Ports, Reclaimed(p) PROVE OneOwner' /\ OnlyClonesLeak'
  <2> DEFINE b == data_out[p][1]
  <2>1. /\ data_out[p] # <<>> /\ data_out[p] \in Seq(Bufs) /\ IsInjective(data_out[p])
        /\ Free(b) /\ hand' = hand /\ data_out'[p] = Tail(data_out[p])
        /\ \A q \in Ports \ {p} : data_out'[q] = data_out[q]
    BY <1>1, <1>3, <1>10 DEF Reclaimed, SameHands, TypeOK
  <2>2. /\ b \in Bufs /\ b \in Range(data_out[p]) /\ b \notin Range(data_out'[p])
        /\ Range(data_out'[p]) \subseteq Range(data_out[p]) /\ IsInjective(data_out'[p])
        /\ \A x \in Range(data_out[p]) : x = b \/ x \in Range(data_out'[p])
    <3>1. /\ b \in Bufs /\ b \in Range(data_out[p]) /\ b \notin Range(Tail(data_out[p]))
          /\ Range(Tail(data_out[p])) \subseteq Range(data_out[p]) /\ IsInjective(Tail(data_out[p]))
          /\ \A x \in Range(data_out[p]) : x = b \/ x \in Range(Tail(data_out[p]))
      BY <2>1, Tailed
    <3>2. QED
      BY <2>1, <3>1
  <2> HIDE DEF b
  <2>3. b \in live /\ (\A t \in Sources : hand[t] # b)
        /\ \A q \in Ports \ {p} : b \notin Range(data_out[q])
    BY <1>3, <2>2 DEF Held
  <2>4. /\ live' \subseteq live /\ \A c \in live : c # b => c \in live'
        /\ \A c \in Bufs : c # b => pkt'[c] = pkt[c]
        /\ b \in live' => b \in Heap /\ pkt'[b].static
    BY <1>1, <2>1, <2>2, <2>3, FreeLeaks
  <2>5. \A q \in Ports : Range(data_out'[q]) \subseteq Range(data_out[q])
        /\ b \notin Range(data_out'[q]) /\ IsInjective(data_out'[q])
    BY <1>3, <2>1, <2>2, <2>3
  <2>6. \A q \in Ports : \A x \in Range(data_out[q]) : x = b \/ x \in Range(data_out'[q])
    BY <2>1, <2>2
  <2>7. \A c \in Bufs : Held(c)' <=> Held(c) /\ c # b
    <3>1. \A c \in Bufs : Held(c)' => Held(c) /\ c # b
      BY <2>1, <2>3, <2>5 DEF Held
    <3>2. \A c \in Bufs : Held(c) /\ c # b => Held(c)'
      BY <2>1, <2>6 DEF Held
    <3>3. QED
      BY <3>1, <3>2
  <2>8. /\ \A t \in Sources, q \in Ports : hand'[t] \notin Range(data_out'[q])
        /\ \A q, r \in Ports : q # r => Range(data_out'[q]) \cap Range(data_out'[r]) = {}
    BY <1>3, <2>1, <2>5
  <2>9. OneOwner'
    BY <1>3, <2>1, <2>4, <2>5, <2>7, <2>8 DEF OneOwner
  <2>10. OnlyClonesLeak'
    BY <1>4, <2>4, <2>7 DEF OnlyClonesLeak
  <2>11. QED
    BY <2>9, <2>10
<1>11. ASSUME (\E p \in Ports : PutOut(p)) \/ Quiet PROVE OneOwner' /\ OnlyClonesLeak'
  <2>1. UNCHANGED <<hand, data_out, live, pkt>>
    BY <1>11 DEF PutOut, Quiet, SameHands
  <2>2. \A c \in Bufs : Held(c)' <=> Held(c)
    BY <2>1 DEF Held
  <2>3. QED
    BY <1>3, <1>4, <2>1, <2>2 DEF OneOwner, OnlyClonesLeak
<1>12. QED
  BY <1>6, <1>7, <1>8, <1>9, <1>10, <1>11 DEF AnyKind

-----------------------------------------------------------------------------
(* Packets of one source stay in order.                                    *)

(* A port whose list, numbers and packets a step leaves alone.             *)
LEMMA ListUndisturbed ==
  ASSUME TypeOK, NEW p \in Ports, NEW s \in Sources,
         data_out'[p] = data_out[p], First(p)' = First(p), sent'[p][s] = sent[p][s],
         \A b \in Range(data_out[p]) : pkt'[b] = pkt[b]
  PROVE  /\ Ordered(p, s) => Ordered(p, s)'
         /\ \A n \in Int : Earlier(p, s, n) =>
                /\ sent'[p][s] <= n
                /\ \A b \in Range(data_out'[p]) : pkt'[b].src = s => pkt'[b].num <= n
<1>1. First(p) \in {1, 2} /\ data_out[p] \in Seq(Bufs)
  BY DEF First, TypeOK
<1>2. \A i \in First(p)..Len(data_out[p]) : pkt'[data_out[p][i]] = pkt[data_out[p][i]]
  <2>1. \A i \in First(p)..Len(data_out[p]) : i \in 1..Len(data_out[p])
    BY <1>1
  <2>2. QED
    BY <1>1, <2>1, RangeEquality
<1>3. QED
  BY <1>2 DEF Ordered, Earlier

(* A list that is extended by a packet newer than all of its source.       *)
LEMMA ListGrows ==
  ASSUME TypeOK, NEW p \in Ports, NEW s \in Sources, NEW b \in Bufs,
         data_out'[p] = Append(data_out[p], b), First(p)' = First(p),
         sent'[p][s] = sent[p][s], \A c \in Range(data_out[p]) : pkt'[c] = pkt[c],
         pkt'[b].num \in Nat,
         pkt'[b].src = s => Earlier(p, s, pkt'[b].num - 1)
  PROVE  /\ Ordered(p, s) => Ordered(p, s)'
         /\ \A n \in Int : Earlier(p, s, n) /\ (pkt'[b].src = s => pkt'[b].num <= n) =>
                /\ sent'[p][s] <= n
                /\ \A c \in Range(data_out'[p]) : pkt'[c].src = s => pkt'[c].num <= n
<1> DEFINE q == data_out[p]
<1> DEFINE r == data_out'[p]
<1>1. First(p) \in {1, 2} /\ q \in Seq(Bufs) /\ sent[p][s] \in Nat
  BY DEF First, TypeOK
<1>2. /\ Len(q) \in Nat /\ Len(r) = Len(q) + 1 /\ r[Len(q) + 1] = b
      /\ \A i \in 1..Len(q) : r[i] = q[i] /\ q[i] \in Range(q) /\ q[i] \in Bufs
      /\ Range(r) = Range(q) \cup {b}
  <2>1. \A i \in 1..Len(q) : q[i] \in Bufs
    BY <1>1
  <2>2. QED
    BY <1>1, <2>1, Appended
<1>3. \A c \in Range(q) : pkt'[c] = pkt[c]
  OBVIOUS
<1>4. \A i \in 1..Len(q) : pkt'[r[i]] = pkt[q[i]] /\ pkt[q[i]].num \in Nat
  BY <1>2, <1>3 DEF TypeOK
<1> HIDE DEF q, r
<1>5. ASSUME Ordered(p, s) PROVE Ordered(p, s)'
  <2> DEFINE f == First(p)
  <2>1. \A i \in f..Len(q) + 1 : (i \in f..Len(q) /\ i \in 1..Len(q)) \/ i = Len(q) + 1
    BY <1>1, <1>2
  <2>2. ASSUME NEW i \in f..Len(q), pkt[q[i]].src = s
        PROVE  /\ pkt[q[i]].num > sent[p][s]
               /\ \A j \in f..Len(q) : i < j /\ pkt[q[j]].src = s => pkt[q[i]].num < pkt[q[j]].num
    BY <1>5, <2>2 DEF Ordered, q
  <2>3. pkt'[b].src = s =>
          /\ pkt'[b].num > sent[p][s]
          /\ \A i \in 1..Len(q) : pkt[q[i]].src = s => pkt[q[i]].num < pkt'[b].num
    <3>1. pkt'[b].src = s => /\ sent[p][s] <= pkt'[b].num - 1
                             /\ \A c \in Range(q) : pkt[c].src = s => pkt[c].num <= pkt'[b].num - 1
      BY DEF Earlier, q
    <3>2. pkt'[b].src = s => \A i \in 1..Len(q) :
             pkt[q[i]].src = s => pkt[q[i]].num <= pkt'[b].num - 1 /\ pkt[q[i]].num \in Nat
      BY <1>2, <1>4, <3>1
    <3>3. QED
      BY <1>1, <3>1, <3>2
  <2> HIDE DEF f
  <2>4. ASSUME NEW i \in f..Len(q) + 1, pkt'[r[i]].src = s
        PROVE  /\ pkt'[r[i]].num > sent[p][s]
               /\ \A j \in f..Len(q) + 1 :
                    i < j /\ pkt'[r[j]].src = s => pkt'[r[i]].num < pkt'[r[j]].num
    <3>1. CASE i = Len(q) + 1
      <4>1. pkt'[r[i]].num > sent[p][s]
        BY <1>2, <2>3, <2>4, <3>1
      <4>2. \A j \in f..Len(q) + 1 : ~ (i < j)
        BY <1>2, <2>1, <3>1
      <4>3. QED
        BY <4>1, <4>2
    <3>2. CASE i \in f..Len(q) /\ i \in 1..Len(q)
      <4>1. pkt[q[i]].src = s /\ pkt'[r[i]].num = pkt[q[i]].num
        BY <1>4, <2>4, <3>2
      <4>2. ASSUME NEW j \in f..Len(q) + 1, i < j, pkt'[r[j]].src = s
            PROVE  pkt'[r[i]].num < pkt'[r[j]].num
        <5>1. CASE j = Len(q) + 1
          BY <1>2, <2>3, <3>2, <4>1, <4>2, <5>1
        <5>2. CASE j \in f..Len(q) /\ j \in 1..Len(q)
          BY <1>4, <2>2, <3>2, <4>1, <4>2, <5>2
        <5>3. QED
          BY <2>1, <5>1, <5>2
      <4>3. QED
        BY <2>2, <3>2, <4>1, <4>2
    <3>3. QED
      BY <2>1, <3>1, <3>2
  <2>5. QED
    BY <1>2, <2>4 DEF Ordered, f, r
<1>6. ASSUME NEW n \in Int, Earlier(p, s, n), pkt'[b].src = s => pkt'[b].num <= n
      PROVE  /\ sent'[p][s] <= n
             /\ \A c \in Range(r) : pkt'[c].src = s => pkt'[c].num <= n
  <2>1. \A c \in Range(q) : pkt'[c].src = s => pkt'[c].num <= n
    BY <1>3, <1>6 DEF Earlier, q
  <2>2. QED
    BY <1>2, <1>6, <2>1 DEF Earlier
<1>7. QED
  BY <1>5, <1>6 DEF r

(* The head goes out: nothing behind it has its number.                    *)
LEMMA HeadPutOut ==
  ASSUME TypeOK, NEW p \in Ports, PutOut(p), NEW s \in Sources
  PROVE  /\ Ordered(p, s) => Ordered(p, s)'
         /\ \A n \in Int : Earlier(p, s, n) => sent'[p][s] <= n
<1> DEFINE q == data_out[p]
<1>1. /\ q # <<>> /\ q \in Seq(Bufs) /\ First(p) = 1 /\ First(p)' = 2
      /\ data_out' = data_out /\ pkt' = pkt
  BY DEF PutOut, TypeOK
<1>2. Len(q) \in Nat \ {0} /\ q[1] \in Range(q) /\ q[1] \in Bufs /\ 1 \in 1..Len(q)
  BY <1>1, Tailed
<1>3. sent'[p][s] = IF pkt[q[1]].src = s THEN pkt[q[1]].num ELSE sent[p][s]
  <2>1. sent' = [sent EXCEPT ![p][pkt[q[1]].src] = pkt[q[1]].num]
    BY DEF PutOut
  <2>2. pkt[q[1]].src \in Sources
    BY <1>2 DEF TypeOK
  <2>3. QED
    BY <2>1, <2>2 DEF TypeOK
<1> HIDE DEF q
<1>4. ASSUME Ordered(p, s) PROVE Ordered(p, s)'
  <2>1. \A i \in 1..Len(q) : pkt[q[i]].src = s =>
          /\ pkt[q[i]].num > sent[p][s]
          /\ \A j \in 1..Len(q) : i < j /\ pkt[q[j]].src = s => pkt[q[i]].num < pkt[q[j]].num
    BY <1>1, <1>4 DEF Ordered, q
  <2>2. \A i \in 2..Len(q) : i \in 1..Len(q) /\ 1 < i
    BY <1>2
  <2>3. ASSUME NEW i \in 2..Len(q), pkt[q[i]].src = s PROVE pkt[q[i]].num > sent'[p][s]
    <3>1. pkt[q[1]].src = s => pkt[q[1]].num < pkt[q[i]].num
      BY <1>2, <2>1, <2>2, <2>3
    <3>2. pkt[q[i]].num > sent[p][s]
      BY <2>1, <2>2, <2>3
    <3>3. pkt[q[1]].num \in Nat /\ pkt[q[i]].num \in Nat
      <4>1. q[i] \in Bufs
        BY <1>1, <1>2, <2>2, ElementOfSeq DEF q
      <4>2. QED
        BY <1>2, <4>1 DEF TypeOK
    <3>4. QED
      BY <1>3, <3>1, <3>2, <3>3
  <2>4. QED
    BY <1>1, <2>1, <2>2, <2>3 DEF Ordered, q
<1>5. \A n \in Int : Earlier(p, s, n) => sent'[p][s] <= n
  BY <1>2, <1>3 DEF Earlier, q
<1>6. QED
  BY <1>4, <1>5

(* The head is taken off the list after it has gone out.                   *)
LEMMA HeadTakenOff ==
  ASSUME TypeOK, OneOwner, NEW p \in Ports, Reclaimed(p), NEW s \in Sources
  PROVE  /\ Ordered(p, s) => Ordered(p, s)'
         /\ \A b \in Range(data_out'[p]) : b \in Range(data_out[p]) /\ pkt'[b] = pkt[b]
<1> DEFINE q == data_out[p]
<1> DEFINE r == Tail(data_out[p])
<1>1. /\ q # <<>> /\ q \in Seq(Bufs) /\ First(p) = 2 /\ First(p)' = 1 /\ IsInjective(q)
      /\ data_out'[p] = r /\ Free(q[1]) /\ sent' = sent
  BY DEF Reclaimed, TypeOK, OneOwner
<1>2. /\ Len(q) \in Nat \ {0} /\ q[1] \in Bufs /\ Len(r) = Len(q) - 1
      /\ Range(r) \subseteq Range(q) /\ q[1] \notin Range(r) /\ r \in Seq(Bufs)
      /\ \A i \in 1..Len(r) : r[i] = q[i + 1]
  BY <1>1, Tailed
<1>3. \A b \in Range(r) : b \in Bufs /\ b # q[1]
  BY <1>2, RangeOfSeq
<1>4. \A b \in Range(r) : b \in Range(q) /\ pkt'[b] = pkt[b]
  BY <1>1, <1>2, <1>3 DEF Free, TypeOK
<1>5. \A i \in 1..Len(r) : pkt'[r[i]] = pkt[q[i + 1]] /\ i + 1 \in 2..Len(q)
  <2>1. \A i \in 1..Len(r) : r[i] \in Range(r)
    BY <1>2, RangeEquality
  <2>2. \A i \in 1..Len(r) : pkt'[r[i]] = pkt[r[i]] /\ r[i] = q[i + 1]
    BY <1>2, <1>4, <2>1
  <2>3. \A i \in 1..Len(r) : i + 1 \in 2..Len(q)
    BY <1>2
  <2>4. QED
    BY <2>2, <2>3
<1> HIDE DEF q, r
<1>6. ASSUME Ordered(p, s) PROVE Ordered(p, s)'
  <2>1. \A i \in 2..Len(q) : pkt[q[i]].src = s =>
          /\ pkt[q[i]].num > sent[p][s]
          /\ \A j \in 2..Len(q) : i < j /\ pkt[q[j]].src = s => pkt[q[i]].num < pkt[q[j]].num
    BY <1>1, <1>6 DEF Ordered, q
  <2>2. \A i, j \in 1..Len(r) : i < j => i + 1 < j + 1
    BY <1>2
  <2>3. \A i \in 1..Len(r) : pkt'[r[i]].src = s =>
          /\ pkt'[r[i]].num > sent[p][s]
          /\ \A j \in 1..Len(r) : i < j /\ pkt'[r[j]].src = s => pkt'[r[i]].num < pkt'[r[j]].num
    BY <1>5, <2>1, <2>2
  <2>4. QED
    BY <1>1, <2>3 DEF Ordered
<1>7. QED
  BY <1>1, <1>4, <1>6 DEF q

LEMMA NumbersKept ==
  ASSUME IInv, AnyKind
  PROVE  /\ \A s \in Sources : Numbered(s)'
         /\ \A p \in Ports, s \in Sources : Ordered(p, s)'
<1>1. /\ TypeOK /\ OneOwner /\ (\A s \in Sources : Numbered(s))
      /\ \A p \in Ports, s \in Sources : Ordered(p, s)
  BY DEF IInv
<1> HIDE DEF IInv
<1>2. \A s \in Sources : arrived[s] \in Nat /\ hand[s] \in Bufs \cup {None} /\ NotYet(s) \subseteq Ports
  <2>1. \A s \in Sources : Range(todo[s]) \subseteq Ports
    BY <1>1, RangeOfSeq DEF TypeOK
  <2>2. QED
    BY <1>1, <2>1 DEF TypeOK, NotYet, Announcing
<1>3. \A p \in Ports : Range(data_out[p]) \subseteq Bufs
  BY <1>1, RangeOfSeq DEF TypeOK
<1>4. None \notin Bufs
  BY PortFacts
(* What has to be shown of the numbers.                                    *)
<1> DEFINE New(p, s, n) == /\ sent'[p][s] <= n
                           /\ \A b \in Range(data_out'[p]) : pkt'[b].src = s => pkt'[b].num <= n
<1>5. ASSUME NEW s \in Sources,
             hand'[s] # None => /\ pkt'[hand'[s]].src = s /\ pkt'[hand'[s]].num = arrived'[s]
                                /\ arrived'[s] > 0,
             \A p \in Ports : New(p, s, arrived'[s]),
             \A p \in NotYet(s)' : New(p, s, arrived'[s] - 1)
      PROVE  Numbered(s)'
  BY <1>5 DEF Numbered, Earlier
<1>6. \A p \in Ports, s \in Sources :
        /\ Earlier(p, s, arrived[s])
        /\ p \in NotYet(s) => Earlier(p, s, arrived[s] - 1)
  BY <1>1 DEF Numbered
<1>7. \A s \in Sources : hand[s] # None =>
        hand[s] \in Bufs /\ pkt[hand[s]].src = s /\ pkt[hand[s]].num = arrived[s] /\ arrived[s] > 0
  BY <1>1, <1>2 DEF Numbered
<1> HIDE DEF New
(* Steps that leave the lists and what is in them alone.                   *)
<1>8. ASSUME data_out' = data_out, SamePasses,
             \A p \in Ports : \A b \in Range(data_out[p]) : pkt'[b] = pkt[b]
      PROVE  /\ \A p \in Ports, s \in Sources : Ordered(p, s)'
             /\ \A p \in Ports, s \in Sources : \A n \in Int : Earlier(p, s, n) => New(p, s, n)
  BY <1>1, <1>8, ListUndisturbed DEF SamePasses, New
<1>9. ASSUME NEW s \in Sources, NEW b \in Bufs, Received(s, b)
      PROVE  (\A t \in Sources : Numbered(t)') /\ \A p \in Ports, t \in Sources : Ordered(p, t)'
  <2>1. /\ b \notin live /\ hand'[s] = b /\ pkt'[b].src = s /\ pkt'[b].num = arrived[s] + 1
        /\ arrived'[s] = arrived[s] + 1 /\ data_out' = data_out /\ SamePasses /\ Others(s)
        /\ NotYet(s)' \subseteq Ports
        /\ \A c \in Bufs \ {b} : pkt'[c] = pkt[c]
        /\ \A t \in Sources \ {s} : hand'[t] = hand[t] /\ arrived'[t] = arrived[t]
    BY <1>1, <1>9 DEF Received, TypeOK
  <2>2. (\A t \in Sources : hand[t] # b) /\ \A p \in Ports : b \notin Range(data_out[p])
    BY <1>1, <2>1, FreeIsUnheld
  <2>3. \A p \in Ports : \A c \in Range(data_out[p]) : pkt'[c] = pkt[c]
    BY <1>3, <2>1, <2>2
  <2>4. /\ \A p \in Ports, t \in Sources : Ordered(p, t)'
        /\ \A p \in Ports, t \in Sources : \A n \in Int : Earlier(p, t, n) => New(p, t, n)
    BY <1>8, <2>1, <2>3
  <2>5. Numbered(s)'
    <3>1. \A p \in Ports : New(p, s, arrived[s])
      BY <1>2, <1>6, <2>4
    <3>2. (arrived[s] + 1) - 1 = arrived[s] /\ arrived[s] + 1 > 0
      BY <1>2
    <3>3. \A p \in Ports : New(p, s, arrived[s] + 1)
      <4>1. SUFFICES ASSUME NEW p \in Ports PROVE New(p, s, arrived[s] + 1)
        OBVIOUS
      <4>2. /\ sent[p][s] \in Nat /\ sent'[p][s] = sent[p][s] /\ arrived[s] \in Nat
            /\ \A c \in Range(data_out[p]) : pkt[c].num \in Nat
        BY <1>1, <1>2, <1>3, <2>1 DEF TypeOK, SamePasses
      <4>3. /\ sent'[p][s] <= arrived[s]
            /\ \A c \in Range(data_out'[p]) : pkt'[c].src = s => pkt'[c].num <= arrived[s]
        BY <3>1 DEF New
      <4>4. \A c \in Range(data_out'[p]) : pkt'[c].num \in Nat
        BY <2>1, <2>3, <4>2
      <4>5. QED
        BY <4>2, <4>3, <4>4 DEF New
    <3>4. QED
      BY <1>5, <2>1, <3>1, <3>2, <3>3
  <2>6. ASSUME NEW t \in Sources \ {s} PROVE Numbered(t)'
    <3>1. hand'[t] # None => pkt'[hand'[t]] = pkt[hand[t]]
      BY <1>7, <2>1, <2>2
    <3>2. NotYet(t)' \subseteq NotYet(t)
      BY <2>1 DEF Others
    <3>3. \A p \in Ports : New(p, t, arrived[t]) /\ (p \in NotYet(t) => New(p, t, arrived[t] - 1))
      BY <1>2, <1>6, <2>4
    <3>4. QED
      BY <1>2, <1>5, <1>7, <2>1, <3>1, <3>2, <3>3
  <2>7. QED
    BY <2>4, <2>5, <2>6
(* Steps that put b, a packet of s, behind the list of p.                  *)
<1>10. ASSUME NEW s \in Sources, NEW p \in Ports, NEW b \in Bufs, p \in NotYet(s),
              data_out' = [data_out EXCEPT ![p] = Append(@, b)], SamePasses, Others(s),
              arrived' = arrived, NotYet(s)' \subseteq NotYet(s) \ {p}, hand[s] # None,
              pkt'[b] = pkt[hand[s]],
              \A c \in Bufs : pkt'[c] = pkt[c] \/ (c = b /\ \A q \in Ports : b \notin Range(data_out[q])),
              \A t \in Sources : hand'[t] # None => hand'[t] = hand[t] /\ pkt'[hand[t]] = pkt[hand[t]]
       PROVE  (\A t \in Sources : Numbered(t)') /\ \A q \in Ports, t \in Sources : Ordered(q, t)'
  <2>1. \A q \in Ports : \A c \in Range(data_out[q]) : pkt'[c] = pkt[c]
    BY <1>3, <1>10
  <2>2. data_out'[p] = Append(data_out[p], b) /\ \A q \in Ports \ {p} : data_out'[q] = data_out[q]
    BY <1>1, <1>10 DEF TypeOK
  <2>3. \A q \in Ports, t \in Sources : First(q)' = First(q) /\ sent'[q][t] = sent[q][t]
    BY <1>10 DEF SamePasses
  <2>4. pkt'[b].src = s /\ pkt'[b].num = arrived[s] /\ arrived[s] \in Nat
        /\ Earlier(p, s, pkt'[b].num - 1)
    BY <1>2, <1>6, <1>7, <1>10
  <2>5. ASSUME NEW t \in Sources
        PROVE  /\ Ordered(p, t)'
               /\ \A n \in Int : Earlier(p, t, n) /\ (t = s => arrived[s] <= n) => New(p, t, n)
    <3>1. pkt'[b].src = t => Earlier(p, t, pkt'[b].num - 1)
      BY <2>4
    <3>2. /\ Ordered(p, t) => Ordered(p, t)'
          /\ \A n \in Int : Earlier(p, t, n) /\ (pkt'[b].src = t => pkt'[b].num <= n) =>
                /\ sent'[p][t] <= n
                /\ \A c \in Range(data_out'[p]) : pkt'[c].src = t => pkt'[c].num <= n
      <4>1. /\ First(p)' = First(p) /\ sent'[p][t] = sent[p][t] /\ pkt'[b].num \in Nat
            /\ \A c \in Range(data_out[p]) : pkt'[c] = pkt[c]
        BY <2>1, <2>3, <2>4
      <4>2. QED
        BY <1>1, <2>2, <3>1, <4>1, ListGrows
    <3>3. QED
      BY <1>1, <2>4, <3>2 DEF New
  <2>6. ASSUME NEW q \in Ports \ {p}, NEW t \in Sources
        PROVE  /\ Ordered(q, t)' /\ \A n \in Int : Earlier(q, t, n) => New(q, t, n)
    <3>1. /\ Ordered(q, t) => Ordered(q, t)'
          /\ \A n \in Int : Earlier(q, t, n) =>
                /\ sent'[q][t] <= n
                /\ \A c \in Range(data_out'[q]) : pkt'[c].src = t => pkt'[c].num <= n
      BY <1>1, <2>1, <2>2, <2>3, ListUndisturbed
    <3>2. QED
      BY <1>1, <3>1 DEF New
  <2>7. ASSUME NEW t \in Sources PROVE Numbered(t)'
    <3>1. NotYet(t)' \subseteq NotYet(t) /\ (t = s => p \notin NotYet(t)')
      BY <1>10 DEF Others
    <3>2. \A q \in Ports : New(q, t, arrived[t])
      <4>1. arrived[t] \in Int /\ arrived[t] <= arrived[t]
        BY <1>2
      <4>2. New(p, t, arrived[t])
        BY <1>6, <2>5, <4>1
      <4>3. \A q \in Ports \ {p} : New(q, t, arrived[t])
        BY <1>6, <2>6, <4>1
      <4>4. QED
        BY <4>2, <4>3
    <3>3. \A q \in NotYet(t)' : New(q, t, arrived[t] - 1)
      <4>1. arrived[t] - 1 \in Int
        BY <1>2
      <4>2. \A q \in NotYet(t)' : q \in Ports /\ Earlier(q, t, arrived[t] - 1)
        BY <1>2, <1>6, <3>1
      <4>3. t # s => \A q \in NotYet(t)' : q = p => New(q, t, arrived[t] - 1)
        BY <2>5, <4>1, <4>2
      <4>4. QED
        BY <2>6, <3>1, <4>1, <4>2, <4>3
    <3>4. QED
      BY <1>5, <1>7, <1>10, <3>2, <3>3
  <2>8. QED
    BY <2>5, <2>6, <2>7
<1>11. ASSUME NEW s \in Sources, NEW p \in Ports, MovedTo(s, p)
       PROVE  (\A t \in Sources : Numbered(t)') /\ \A q \in Ports, t \in Sources : Ordered(q, t)'
  <2>1. hand[s] \in Bufs /\ pkt' = pkt
    BY <1>7, <1>11 DEF MovedTo
  <2>2. \A t \in Sources : hand'[t] # None => hand'[t] = hand[t] /\ pkt'[hand[t]] = pkt[hand[t]]
    BY <1>1, <1>11 DEF MovedTo, TypeOK
  <2>3. QED
    BY <1>10, <1>11, <2>1, <2>2 DEF MovedTo
<1>12. ASSUME NEW s \in Sources, NEW p \in Ports, NEW b \in Bufs, ClonedTo(s, p, b)
       PROVE  (\A t \in Sources : Numbered(t)') /\ \A q \in Ports, t \in Sources : Ordered(q, t)'
  <2>1. b \notin live /\ pkt'[b] = pkt[hand[s]] /\ (\A c \in Bufs \ {b} : pkt'[c] = pkt[c])
        /\ hand' = hand
    BY <1>1, <1>12 DEF ClonedTo, TypeOK
  <2>2. (\A t \in Sources : hand[t] # b) /\ \A q \in Ports : b \notin Range(data_out[q])
    BY <1>1, <2>1, FreeIsUnheld
  <2>3. \A t \in Sources : hand'[t] # None => hand'[t] = hand[t] /\ pkt'[hand[t]] = pkt[hand[t]]
    BY <1>7, <2>1, <2>2
  <2>4. \A c \in Bufs : pkt'[c] = pkt[c] \/ (c = b /\ \A q \in Ports : b \notin Range(data_out[q]))
    BY <2>1, <2>2
  <2>5. QED
    BY <1>10, <1>12, <2>1, <2>3, <2>4 DEF ClonedTo
<1>13. ASSUME NEW s \in Sources, Dropped(s)
       PROVE  (\A t \in Sources : Numbered(t)') /\ \A q \in Ports, t \in Sources : Ordered(q, t)'
  <2>1. /\ hand[s] \in Bufs /\ hand[s] # None /\ hand'[s] = None /\ data_out' = data_out
        /\ SamePasses /\ Others(s) /\ NotYet(s)' = {} /\ arrived' = arrived
        /\ \A t \in Sources \ {s} : hand'[t] = hand[t]
        /\ \A c \in Bufs : c # hand[s] => pkt'[c] = pkt[c]
    BY <1>1, <1>2, <1>13 DEF Dropped, Free, TypeOK
  <2>2. (\A t \in Sources \ {s} : hand[t] # hand[s]) /\ \A p \in Ports : hand[s] \notin Range(data_out[p])
    BY <1>1, <2>1 DEF OneOwner
  <2>3. \A p \in Ports : \A c \in Range(data_out[p]) : pkt'[c] = pkt[c]
    BY <1>3, <2>1, <2>2
  <2>4. /\ \A p \in Ports, t \in Sources : Ordered(p, t)'
        /\ \A p \in Ports, t \in Sources : \A n \in Int : Earlier(p, t, n) => New(p, t, n)
    BY <1>8, <2>1, <2>3
  <2>5. ASSUME NEW t \in Sources PROVE Numbered(t)'
    <3>1. NotYet(t)' \subseteq NotYet(t)
      BY <2>1 DEF Others
    <3>2. \A p \in Ports : New(p, t, arrived[t]) /\ (p \in NotYet(t) => New(p, t, arrived[t] - 1))
      BY <1>2, <1>6, <2>4
    <3>3. hand'[t] # None => hand[t] # None /\ hand'[t] = hand[t] /\ pkt'[hand'[t]] = pkt[hand[t]]
      BY <1>7, <2>1, <2>2
    <3>4. QED
      BY <1>2, <1>5, <1>7, <2>1, <3>1, <3>2, <3>3
  <2>6. QED
    BY <2>4, <2>5
(* Steps of the drains: hands and numbers stay.                            *)
<1>14. ASSUME SameHands,
              \A s \in Sources : hand[s] # None => pkt'[hand[s]] = pkt[hand[s]],
              \A p \in Ports, s \in Sources : \A n \in Int : Earlier(p, s, n) => New(p, s, n)
       PROVE  \A s \in Sources : Numbered(s)'
  <2> SUFFICES ASSUME NEW s \in Sources PROVE Numbered(s)'
    OBVIOUS
  <2>1. \A p \in Ports : New(p, s, arrived[s]) /\ (p \in NotYet(s) => New(p, s, arrived[s] - 1))
    BY <1>2, <1>6, <1>14
  <2>2. hand' = hand /\ arrived' = arrived /\ NotYet(s)' \subseteq NotYet(s)
    BY <1>14 DEF SameHands
  <2>3. QED
    BY <1>2, <1>5, <1>7, <1>14, <2>1, <2>2
<1>15. ASSUME NEW p \in Ports, Reclaimed(p)
       PROVE  (\A t \in Sources : Numbered(t)') /\ \A q \in Ports, t \in Sources : Ordered(q, t)'
  <2>1. /\ data_out[p] # <<>> /\ data_out[p] \in Seq(Bufs) /\ sent' = sent /\ SameHands
        /\ data_out'[p] = Tail(data_out[p]) /\ \A q \in Ports \ {p} : data_out'[q] = data_out[q] /\ First(q)' = First(q)
    BY <1>1, <1>15 DEF Reclaimed, TypeOK
  <2> DEFINE b == data_out[p][1]
  <2>2. b \in Bufs /\ b \in Range(data_out[p]) /\ Free(b)
    BY <1>15, <2>1, Tailed DEF Reclaimed
  <2> HIDE DEF b
  <2>3. \A c \in Bufs : c # b => pkt'[c] = pkt[c]
    BY <1>1, <2>2 DEF Free, TypeOK
  <2>4. (\A t \in Sources : hand[t] # b) /\ \A q \in Ports \ {p} : b \notin Range(data_out[q])
    BY <1>1, <2>2 DEF OneOwner
  <2>5. \A t \in Sources : hand[t] # None => pkt'[hand[t]] = pkt[hand[t]]
    BY <1>7, <2>3, <2>4
  <2>6. ASSUME NEW q \in Ports \ {p}, NEW t \in Sources
        PROVE  Ordered(q, t)' /\ \A n \in Int : Earlier(q, t, n) => New(q, t, n)
    <3>1. \A c \in Range(data_out[q]) : pkt'[c] = pkt[c]
      BY <1>3, <2>3, <2>4
    <3>2. /\ Ordered(q, t) => Ordered(q, t)'
          /\ \A n \in Int : Earlier(q, t, n) =>
                /\ sent'[q][t] <= n
                /\ \A c \in Range(data_out'[q]) : pkt'[c].src = t => pkt'[c].num <= n
      BY <1>1, <2>1, <3>1, ListUndisturbed
    <3>3. QED
      BY <1>1, <3>2 DEF New
  <2>7. ASSUME NEW t \in Sources
        PROVE  Ordered(p, t)' /\ \A n \in Int : Earlier(p, t, n) => New(p, t, n)
    <3>1. /\ Ordered(p, t) => Ordered(p, t)'
          /\ \A c \in Range(data_out'[p]) : c \in Range(data_out[p]) /\ pkt'[c] = pkt[c]
      BY <1>1, <1>15, HeadTakenOff
    <3>2. QED
      BY <1>1, <2>1, <3>1 DEF New, Earlier
  <2>8. QED
    BY <1>14, <2>1, <2>5, <2>6, <2>7
<1>16. ASSUME NEW p \in Ports, PutOut(p)
       PROVE  (\A t \in Sources : Numbered(t)') /\ \A q \in Ports, t \in Sources : Ordered(q, t)'
  <2>1. /\ data_out' = data_out /\ pkt' = pkt /\ SameHands
        /\ \A q \in Ports \ {p} : First(q)' = First(q) /\ sent'[q] = sent[q]
    BY <1>1, <1>16 DEF PutOut, TypeOK
  <2>2. ASSUME NEW q \in Ports \ {p}, NEW t \in Sources
        PROVE  Ordered(q, t)' /\ \A n \in Int : Earlier(q, t, n) => New(q, t, n)
    <3>1. /\ Ordered(q, t) => Ordered(q, t)'
          /\ \A n \in Int : Earlier(q, t, n) =>
                /\ sent'[q][t] <= n
                /\ \A c \in Range(data_out'[q]) : pkt'[c].src = t => pkt'[c].num <= n
      BY <1>1, <2>1, ListUndisturbed
    <3>2. QED
      BY <1>1, <3>1 DEF New
  <2>3. ASSUME NEW t \in Sources
        PROVE  Ordered(p, t)' /\ \A n \in Int : Earlier(p, t, n) => New(p, t, n)
    <3>1. /\ Ordered(p, t) => Ordered(p, t)'
          /\ \A n \in Int : Earlier(p, t, n) => sent'[p][t] <= n
      BY <1>1, <1>16, HeadPutOut
    <3>2. QED
      BY <1>1, <2>1, <3>1 DEF New, Earlier
  <2>4. QED
    BY <1>14, <2>1, <2>2, <2>3
<1>17. ASSUME Quiet
       PROVE  (\A t \in Sources : Numbered(t)') /\ \A q \in Ports, t \in Sources : Ordered(q, t)'
  <2>1. data_out' = data_out /\ pkt' = pkt /\ SameHands /\ SamePasses
    BY <1>17 DEF Quiet
  <2>2. QED
    BY <1>8, <1>14, <2>1
<1>18. QED
  BY <1>9, <1>11, <1>12, <1>13, <1>15, <1>16, <1>17 DEF AnyKind

-----------------------------------------------------------------------------
(* Sources and passes are where they should be.                            *)

(* A source moves alone.                                                   *)
LEMMA SourcesMoveAlone ==
  ASSUME TypeOK, NEW s \in Sources,
         SourceStep(s) \/ NoMemory(s) \/ \E d \in Addrs : Receive(s, d)
  PROVE  /\ \A t \in Sources \ {s} :
              /\ pc'[t] = pc[t] /\ hand'[t] = hand[t] /\ out'[t] = out[t] /\ todo'[t] = todo[t]
              /\ batchNotify'[t] = batchNotify[t]
         /\ \A p \in Ports : p # Owner(s) => in_count'[p] = in_count[p]
         /\ UNCHANGED taskVars
<1> USE DEF cfgVars, taskVars
<1>1. CASE SwitchPkt(s)
  BY <1>1 DEF TypeOK, SwitchPkt, Goto
<1>2. CASE Unicast(s)
  BY <1>2 DEF TypeOK, Unicast, PortOut, HandOver, DropInHand, Goto
<1>3. CASE SkipPort(s)
  BY <1>3 DEF TypeOK, SkipPort
<1>4. CASE VisitPort(s)
  BY <1>4 DEF TypeOK, VisitPort, PortOut, HandOver, Goto
<1>5. CASE EndVisits(s)
  BY <1>5 DEF TypeOK, EndVisits, DropInHand, Goto
<1>6. CASE CountOut(s) \/ AnnounceOut(s)
  BY <1>6 DEF TypeOK, CountOut, AnnounceOut, Goto
<1>7. CASE EndPacket(s) \/ EndBatch(s) \/ Kick(s)
  BY <1>7 DEF TypeOK, EndPacket, EndBatch, Kick, StartNotify, Goto
<1>8. CASE TestNotify(s) \/ PostNotify(s) \/ EndNotify(s)
  BY <1>8 DEF TypeOK, TestNotify, PostNotify, EndNotify, Goto
<1>9. CASE NoMemory(s)
  BY <1>9 DEF TypeOK, NoMemory, Goto
<1>10. ASSUME NEW d \in Addrs, Receive(s, d)
       PROVE  /\ \A t \in Sources \ {s} :
                   /\ pc'[t] = pc[t] /\ hand'[t] = hand[t] /\ out'[t] = out[t] /\ todo'[t] = todo[t]
                   /\ batchNotify'[t] = batchNotify[t]
              /\ \A p \in Ports : p # Owner(s) => in_count'[p] = in_count[p]
              /\ UNCHANGED taskVars
  BY <1>10 DEF TypeOK, Receive, Goto
<1>11. QED
  BY <1>1, <1>2, <1>3, <1>4, <1>5, <1>6, <1>7, <1>8, <1>9, <1>10 DEF SourceStep

LEMMA SourcesStayInPlace ==
  ASSUME IInv, NEW s \in Sources,
         SourceStep(s) \/ NoMemory(s) \/ \E d \in Addrs : Receive(s, d)
  PROVE  \A t \in Sources : SourceAt(t)'
<1>1. TypeOK /\ \A t \in Sources : SourceAt(t)
  BY DEF IInv
<1> HIDE DEF IInv
<1>2. \A t \in Sources \ {s} : SourceAt(t)'
  BY <1>1, SourcesMoveAlone DEF SourceAt
<1>3. /\ IsInjective(todo[s]) /\ todo[s] \in Seq(Ports)
      /\ todo[s] # <<>> => IsInjective(Tail(todo[s]))
  <2>1. IsInjective(todo[s]) /\ todo[s] \in Seq(Ports)
    BY <1>1 DEF TypeOK, SourceAt
  <2>2. QED
    BY <2>1, Tailed
<1> USE DEF SourceAt, Carrying, Announcing, Goto
<1>4. CASE SwitchPkt(s)
  <2>1. IsInjective(Candidates(s))
    BY PortLists
  <2>2. QED
    BY <1>1, <1>2, <1>4, <2>1 DEF TypeOK, SwitchPkt
<1>5. CASE Unicast(s)
  BY SMTT(60), <1>1, <1>2, <1>5 DEF TypeOK, Unicast, PortOut, HandOver, DropInHand
<1>6. CASE SkipPort(s)
  BY <1>1, <1>2, <1>3, <1>6 DEF TypeOK, SkipPort
<1>7. CASE VisitPort(s)
  <2>1. Head(todo[s]) \in Ports /\ Head(todo[s]) # None
    BY <1>3, <1>7, PortFacts, Tailed DEF VisitPort
  <2>2. QED
    BY SMTT(60), <1>1, <1>2, <1>3, <1>7, <2>1 DEF TypeOK, VisitPort, PortOut, HandOver
<1>8. CASE EndVisits(s)
  BY <1>1, <1>2, <1>8 DEF TypeOK, EndVisits, DropInHand
<1>9. CASE CountOut(s)
  BY <1>1, <1>2, <1>9 DEF TypeOK, CountOut, Announcement
<1>10. CASE AnnounceOut(s)
  BY <1>1, <1>2, <1>10 DEF TypeOK, AnnounceOut, PassedOn
<1>11. CASE EndPacket(s) \/ EndBatch(s) \/ Kick(s)
  <2>1. IsInjective(NotifyOrder)
    BY PortLists
  <2>2. QED
    BY ZenonT(60), <1>1, <1>2, <1>11, <2>1 DEF TypeOK, EndPacket, EndBatch, Kick, StartNotify
<1>12. CASE TestNotify(s)
  <2>1. /\ todo[s] # <<>> /\ hand'[s] = hand[s] /\ pc[s] = "notify"
        /\ \/ pc'[s] = "post" /\ todo'[s] = todo[s]
           \/ pc'[s] = "notify" /\ todo'[s] = Tail(todo[s])
    BY <1>1, <1>12 DEF TypeOK, TestNotify
  <2>2. SourceAt(s)'
    BY <1>1, <1>3, <2>1
  <2>3. QED
    BY <1>2, <2>2
<1>13. CASE PostNotify(s)
  BY <1>1, <1>2, <1>3, <1>13 DEF TypeOK, PostNotify
<1>14. CASE EndNotify(s)
  BY <1>1, <1>2, <1>14 DEF TypeOK, EndNotify
<1>15. CASE NoMemory(s)
  BY <1>1, <1>2, <1>15 DEF TypeOK, NoMemory
<1>16. ASSUME NEW d \in Addrs, Receive(s, d) PROVE \A t \in Sources : SourceAt(t)'
  <2>1. Fresh((IF KindOf(s) = "enet" THEN Pool ELSE Heap) \ live) \in Bufs
    BY <1>16, PortFacts, FreshTaken DEF Receive, CanReceive, Bufs
  <2>2. hand'[s] # None /\ pc'[s] = "switch" /\ todo'[s] = todo[s]
    BY <1>1, <1>16, <2>1, PortFacts DEF TypeOK, Receive
  <2>3. SourceAt(s)'
    BY <1>3, <2>2
  <2>4. QED
    BY <1>2, <2>3
<1>17. QED
  BY <1>4, <1>5, <1>6, <1>7, <1>8, <1>9, <1>10, <1>11, <1>12, <1>13, <1>14, <1>15, <1>16
     DEF SourceStep

(* A list that only grows keeps its head and the entry behind it.          *)
LEMMA PassUndisturbed ==
  ASSUME TypeOK, NEW p \in Ports, DrainAt(p), UNCHANGED taskVars,
         \/ data_out'[p] = data_out[p]
         \/ \E b \in Bufs : data_out'[p] = Append(data_out[p], b)
  PROVE  DrainAt(p)'
<1>1. CASE data_out'[p] = data_out[p]
  BY <1>1 DEF DrainAt, taskVars
<1>2. ASSUME NEW b \in Bufs, data_out'[p] = Append(data_out[p], b) PROVE DrainAt(p)'
  <2>1. data_out[p] \in Seq(Bufs)
    BY DEF TypeOK
  <2>2. /\ Len(data_out[p]) \in Nat /\ Len(data_out'[p]) = Len(data_out[p]) + 1
        /\ \A i \in 1..Len(data_out[p]) : data_out'[p][i] = data_out[p][i]
    BY <1>2, <2>1, Appended
  <2>3. /\ data_out'[p] # <<>>
        /\ data_out[p] # <<>> => Len(data_out[p]) > 0
    BY <1>2, <2>1
  <2>4. /\ data_out[p] # <<>> => data_out'[p][1] = data_out[p][1]
        /\ Len(data_out[p]) > 1 => Len(data_out'[p]) > 1 /\ data_out'[p][2] = data_out[p][2]
    BY <2>2, <2>3
  <2>5. QED
    BY <2>3, <2>4 DEF DrainAt, taskVars
<1>3. QED
  BY <1>1, <1>2

LEMMA PlacesKept ==
  ASSUME IInv, [Next]_vars
  PROVE  /\ \A s \in Sources : SourceAt(s)'
         /\ \A p \in Ports : DrainAt(p)'
<1>1. /\ TypeOK /\ OneOwner /\ (\A s \in Sources : SourceAt(s)) /\ \A p \in Ports : DrainAt(p)
  BY DEF IInv
<1>2. AnyKind
  BY StepKinds
<1>3. ASSUME NEW s \in Sources, SourceStep(s) \/ NoMemory(s) \/ \E d \in Addrs : Receive(s, d)
      PROVE  /\ \A t \in Sources : SourceAt(t)'
             /\ \A p \in Ports : DrainAt(p)'
  <2>1. \A t \in Sources : SourceAt(t)'
    BY <1>3, SourcesStayInPlace
  <2>2. UNCHANGED taskVars
    BY <1>1, <1>3, SourcesMoveAlone
  <2> HIDE DEF IInv
  <2>3. \A p \in Ports : data_out'[p] = data_out[p] \/ \E b \in Bufs : data_out'[p] = Append(data_out[p], b)
    <3>1. \A p \in Ports : First(p) = First(p)'
      BY <2>2 DEF taskVars, First
    <3>2. ASSUME NEW t \in Sources, NEW q \in Ports, MovedTo(t, q) PROVE \A p \in Ports :
              data_out'[p] = data_out[p] \/ \E b \in Bufs : data_out'[p] = Append(data_out[p], b)
      BY <1>1, <3>2 DEF MovedTo, TypeOK
    <3>3. ASSUME NEW t \in Sources, NEW q \in Ports, NEW b \in Bufs, ClonedTo(t, q, b) PROVE \A p \in Ports :
              data_out'[p] = data_out[p] \/ \E c \in Bufs : data_out'[p] = Append(data_out[p], c)
      BY <1>1, <3>3 DEF ClonedTo, TypeOK
    <3>4. \A p \in Ports : ~ Reclaimed(p)
      BY <3>1 DEF Reclaimed
    <3>5. QED
      BY <1>2, <3>2, <3>3, <3>4 DEF AnyKind, Received, Dropped, PutOut, Quiet
  <2>4. QED
    BY <1>1, <2>1, <2>2, <2>3, PassUndisturbed
<1> HIDE DEF IInv
<1>4. ASSUME NEW p \in Ports, DrainStep(p) PROVE \A s \in Sources : SourceAt(s)'
  <2>1. UNCHANGED <<pc, hand, todo, out>>
    BY <1>4 DEF DrainStep, ReceiveEvent, Scan, Entered, Output, Reclaim, Advance, srcVars
  <2>2. QED
    BY <1>1, <2>1 DEF SourceAt
<1>5. ASSUME NEW p \in Ports, DrainStep(p), NEW q \in Ports \ {p} PROVE DrainAt(q)'
  <2>1. UNCHANGED <<data_out[q], cur[q], tmp[q], tpc[q]>>
    BY <1>1, <1>5 DEF TypeOK, DrainStep, ReceiveEvent, Scan, Entered, Output, Reclaim, Advance
  <2>2. QED
    BY <1>1, <2>1 DEF DrainAt
<1>6. ASSUME NEW p \in Ports, ReceiveEvent(p) PROVE DrainAt(p)'
  BY <1>1, <1>6 DEF TypeOK, DrainAt, ReceiveEvent
<1>7. ASSUME NEW p \in Ports, Output(p) PROVE DrainAt(p)'
  BY <1>1, <1>7 DEF TypeOK, DrainAt, Output
<1>8. ASSUME NEW p \in Ports, Scan(p) \/ Advance(p) PROVE DrainAt(p)'
  <2>1. PICK b, n \in Bufs \cup {None} : PassEnters(p, b, n)
    BY <1>1, <1>8, PassesEnterHead
  <2>2. /\ data_out'[p] = data_out[p] /\ cur'[p] = b /\ tmp'[p] = n
        /\ tpc'[p] = IF b = None THEN "wait" ELSE "output"
        /\ b # None => /\ data_out[p] # <<>> /\ b = data_out[p][1]
                       /\ n = IF Len(data_out[p]) = 1 THEN None ELSE data_out[p][2]
    BY <1>1, <2>1 DEF PassEnters, TypeOK
  <2>3. data_out[p] # <<>> => Len(data_out[p]) \in Nat \ {0}
    BY <1>1, Tailed DEF TypeOK
  <2>4. \A k \in Nat \ {0} : k # 1 => k > 1
    OBVIOUS
  <2>5. QED
    BY <2>2, <2>3, <2>4 DEF DrainAt
<1>9. ASSUME NEW p \in Ports, Reclaim(p) PROVE DrainAt(p)'
  <2>1. /\ data_out[p] # <<>> /\ data_out[p] \in Seq(Bufs) /\ data_out'[p] = Tail(data_out[p])
        /\ tpc'[p] = "advance" /\ tmp'[p] = tmp[p] /\ tpc[p] = "reclaim"
    BY <1>1, <1>9, HeadReclaimed DEF TypeOK, Reclaim
  <2>2. tmp[p] # None => Len(data_out[p]) > 1 /\ tmp[p] = data_out[p][2]
    BY <1>1, <2>1 DEF DrainAt
  <2>3. /\ Len(Tail(data_out[p])) = Len(data_out[p]) - 1 /\ Len(data_out[p]) \in Nat
        /\ \A i \in 1..Len(Tail(data_out[p])) : Tail(data_out[p])[i] = data_out[p][i + 1]
    BY <2>1, Tailed
  <2>4. Len(data_out[p]) > 1 => Tail(data_out[p])[1] = data_out[p][2] /\ Tail(data_out[p]) # <<>>
    <3> DEFINE r == Tail(data_out[p])
    <3>1. \A k \in Nat : k > 1 => 1 \in 1..k - 1 /\ 1 + 1 = 2 /\ k - 1 # 0
      OBVIOUS
    <3> HIDE DEF r
    <3>2. Len(data_out[p]) > 1 => 1 \in 1..Len(r) /\ 1 + 1 = 2 /\ Len(r) # 0
      BY <2>3, <3>1 DEF r
    <3>3. Len(data_out[p]) > 1 => r[1] = data_out[p][1 + 1] /\ r # <<>>
      BY <2>3, <3>2 DEF r
    <3>4. QED
      BY <3>2, <3>3 DEF r
  <2>5. QED
    BY <2>1, <2>2, <2>4 DEF DrainAt
<1>10. ASSUME Configure \/ UNCHANGED vars
       PROVE  /\ \A s \in Sources : SourceAt(s)'
              /\ \A p \in Ports : DrainAt(p)'
  <2>1. UNCHANGED <<data_out, srcVars, taskVars>>
    BY <1>10 DEF Configure, UpdateAddr, AddFdb, RemoveFdb, BeginChange, MakeChange, EndChange,
                 LinkChange, vars
  <2>2. QED
    BY <1>1, <2>1 DEF SourceAt, DrainAt, srcVars, taskVars
<1>11. ASSUME NEW p \in Ports, DrainStep(p)
       PROVE  /\ \A s \in Sources : SourceAt(s)'
              /\ \A q \in Ports : DrainAt(q)'
  BY <1>4, <1>5, <1>6, <1>7, <1>8, <1>9, <1>11 DEF DrainStep
<1>12. QED
  BY <1>3, <1>10, <1>11 DEF Next

-----------------------------------------------------------------------------
(* What is queued is announced.                                            *)

HeardOf(p) ==
    \/ Range(data_out[p]) \subseteq AheadOf(p)
    \/ mqueue[p] > 0 \/ need_notify[p]
    \/ \E s \in Sources : AboutToAnnounce(s, p)

(* An event in the queue, one more or one lost to a full queue.            *)
LEMMA PostedIsThere ==
  ASSUME TypeOK, NEW p \in Ports, mqueue' = Posted(p)
  PROVE  mqueue'[p] > 0 /\ \A q \in Ports \ {p} : mqueue'[q] = mqueue[q]
<1>1. mqueue[p] \in 0..Depth /\ Depth \in Nat \ {0} /\ mqueue \in [Ports -> 0..Depth]
  BY SwitchAssumption DEF TypeOK
<1>2. (IF mqueue[p] < Depth THEN mqueue[p] + 1 ELSE mqueue[p]) > 0
  BY <1>1
<1>3. QED
  BY <1>1, <1>2 DEF Posted

(* A step of source s that leaves port p and its announcement alone.       *)
LEMMA StillHeardOf ==
  ASSUME NEW p \in Ports, NEW s \in Sources, HeardOf(p), UNCHANGED taskVars,
         data_out'[p] = data_out[p], mqueue'[p] = mqueue[p], need_notify'[p] = need_notify[p],
         \A t \in Sources \ {s} : pc'[t] = pc[t] /\ out'[t] = out[t] /\ todo'[t] = todo[t],
         AboutToAnnounce(s, p) => AboutToAnnounce(s, p)'
  PROVE  HeardOf(p)'
<1>1. AheadOf(p)' = AheadOf(p)
  BY DEF AheadOf, taskVars
<1>2. \A t \in Sources : AboutToAnnounce(t, p) => AboutToAnnounce(t, p)'
  <2>1. \A t \in Sources \ {s} : AboutToAnnounce(t, p) => AboutToAnnounce(t, p)'
    BY DEF AboutToAnnounce
  <2>2. QED
    BY <2>1
<1>3. QED
  BY <1>1, <1>2 DEF HeardOf

LEMMA SourcesAnnounce ==
  ASSUME IInv, NEW s \in Sources,
         SourceStep(s) \/ NoMemory(s) \/ (\E d \in Addrs : Receive(s, d)),
         NEW p \in Ports, HeardOf(p)
  PROVE  HeardOf(p)'
<1>1. TypeOK /\ SourceAt(s)
  BY DEF IInv
<1>2. /\ \A t \in Sources \ {s} : pc'[t] = pc[t] /\ out'[t] = out[t] /\ todo'[t] = todo[t]
      /\ UNCHANGED taskVars
  BY <1>1, SourcesMoveAlone
<1> HIDE DEF IInv
<1>3. ASSUME data_out'[p] = data_out[p], mqueue'[p] = mqueue[p], need_notify'[p] = need_notify[p],
             AboutToAnnounce(s, p) => AboutToAnnounce(s, p)'
      PROVE  HeardOf(p)'
  BY <1>2, <1>3, StillHeardOf
<1>4. AboutToAnnounce(s, p)' \/ mqueue'[p] > 0 \/ need_notify'[p] => HeardOf(p)'
  BY DEF HeardOf
<1> USE DEF Goto
<1>5. CASE SwitchPkt(s) \/ SkipPort(s) \/ EndVisits(s)
  BY <1>3, <1>5 DEF SwitchPkt, SkipPort, EndVisits, AboutToAnnounce
<1>6. CASE EndPacket(s) \/ EndBatch(s) \/ Kick(s) \/ NoMemory(s)
  BY <1>3, <1>6 DEF EndPacket, EndBatch, Kick, NoMemory, AboutToAnnounce
<1>7. ASSUME NEW d \in Addrs, Receive(s, d) PROVE HeardOf(p)'
  <2>1. pc[s] \in {"idle", "batch"}
    BY <1>7, PortFacts DEF Receive, CanReceive
  <2>2. QED
    BY <1>3, <1>7, <2>1 DEF Receive, AboutToAnnounce
<1>8. CASE EndNotify(s)
  BY <1>3, <1>8 DEF EndNotify, AboutToAnnounce
<1>9. CASE Unicast(s)
  <2>1. pc[s] = "unicast" /\ UNCHANGED <<mqueue, need_notify>>
    BY <1>9 DEF Unicast
  <2>2. CASE out[s] = p /\ out[s] # None /\ LinkOn(out[s])
    <3>1. pc'[s] = "count" /\ out'[s] = p
      BY <1>1, <1>9, <2>2 DEF TypeOK, Unicast, PortOut
    <3>2. QED
      BY <1>4, <3>1 DEF AboutToAnnounce
  <2>3. CASE ~ (out[s] = p /\ out[s] # None /\ LinkOn(out[s]))
    <3>1. data_out'[p] = data_out[p]
      BY <1>1, <1>9, <2>3 DEF TypeOK, Unicast, PortOut, AddTail
    <3>2. QED
      BY <1>3, <2>1, <3>1 DEF AboutToAnnounce
  <2>4. QED
    BY <2>2, <2>3
<1>10. CASE VisitPort(s)
  <2>1. pc[s] = "visit" /\ UNCHANGED <<mqueue, need_notify>>
    BY <1>10 DEF VisitPort
  <2>2. PICK b : PortOut(s, Head(todo[s]), b)
    BY <1>10 DEF VisitPort
  <2>3. CASE Head(todo[s]) = p
    <3>1. pc'[s] = "count" /\ out'[s] = p
      BY <1>1, <2>2, <2>3 DEF TypeOK, PortOut
    <3>2. QED
      BY <1>4, <3>1 DEF AboutToAnnounce
  <2>4. CASE Head(todo[s]) # p
    <3>1. data_out'[p] = data_out[p]
      BY <1>1, <2>2, <2>4 DEF TypeOK, PortOut
    <3>2. QED
      BY <1>3, <2>1, <3>1 DEF AboutToAnnounce
  <2>5. QED
    BY <2>3, <2>4
<1>11. CASE CountOut(s)
  <2>1. /\ pc[s] = "count" /\ pc'[s] \in {"event", "flag"} /\ out'[s] = out[s]
        /\ UNCHANGED <<data_out, mqueue, need_notify>>
    BY <1>1, <1>11 DEF TypeOK, CountOut, Announcement
  <2>2. QED
    BY <1>3, <2>1 DEF AboutToAnnounce
<1>12. CASE AnnounceOut(s)
  <2>1. out[s] \in Ports /\ pc[s] \in {"event", "flag"} /\ data_out' = data_out
    BY <1>1, <1>12 DEF TypeOK, SourceAt, Announcing, AnnounceOut
  <2>2. CASE pc[s] = "event"
    <3>1. mqueue' = Posted(out[s]) /\ need_notify' = need_notify
      BY <1>12, <2>2 DEF AnnounceOut
    <3>2. mqueue'[out[s]] > 0 /\ \A q \in Ports \ {out[s]} : mqueue'[q] = mqueue[q]
      BY <1>1, <2>1, <3>1, PostedIsThere
    <3>3. CASE p = out[s]
      BY <1>4, <3>2, <3>3
    <3>4. CASE p # out[s]
      BY <1>3, <2>1, <2>2, <3>1, <3>2, <3>4 DEF AboutToAnnounce
    <3>5. QED
      BY <3>3, <3>4
  <2>3. CASE pc[s] = "flag"
    <3>1. mqueue' = mqueue /\ need_notify' = [need_notify EXCEPT ![out[s]] = TRUE]
      BY <1>12, <2>3 DEF AnnounceOut
    <3>2. CASE p = out[s]
      BY <1>1, <1>4, <3>1, <3>2 DEF TypeOK
    <3>3. CASE p # out[s]
      <4>1. need_notify'[p] = need_notify[p]
        BY <1>1, <3>1, <3>3 DEF TypeOK
      <4>2. QED
        BY <1>3, <2>1, <2>3, <3>1, <3>3, <4>1 DEF AboutToAnnounce
    <3>4. QED
      BY <3>2, <3>3
  <2>4. QED
    BY <2>1, <2>2, <2>3
<1>13. CASE TestNotify(s)
  <2>1. /\ pc[s] = "notify" /\ todo[s] # <<>> /\ UNCHANGED <<data_out, mqueue>>
    BY <1>13 DEF TestNotify
  <2>2. CASE need_notify[Head(todo[s])] /\ Head(todo[s]) = p
    <3>1. pc'[s] = "post" /\ todo'[s] = todo[s]
      BY <1>1, <1>13, <2>2 DEF TypeOK, TestNotify
    <3>2. QED
      BY <1>4, <2>2, <3>1 DEF AboutToAnnounce
  <2>3. CASE ~ (need_notify[Head(todo[s])] /\ Head(todo[s]) = p)
    <3>1. need_notify'[p] = need_notify[p]
      BY <1>1, <1>13, <2>3 DEF TypeOK, TestNotify
    <3>2. QED
      BY <1>3, <2>1, <3>1 DEF AboutToAnnounce
  <2>4. QED
    BY <2>2, <2>3
<1>14. CASE PostNotify(s)
  <2>1. /\ pc[s] = "post" /\ todo[s] # <<>> /\ UNCHANGED <<data_out, need_notify>>
        /\ mqueue' = Posted(Head(todo[s]))
    BY <1>1, <1>14 DEF PostNotify, SourceAt
  <2>2. Head(todo[s]) \in Ports
    BY <1>1, <2>1 DEF TypeOK
  <2>3. mqueue'[Head(todo[s])] > 0 /\ \A q \in Ports \ {Head(todo[s])} : mqueue'[q] = mqueue[q]
    BY <1>1, <2>1, <2>2, PostedIsThere
  <2>4. CASE p = Head(todo[s])
    BY <1>4, <2>3, <2>4
  <2>5. CASE p # Head(todo[s])
    BY <1>3, <2>1, <2>3, <2>5 DEF AboutToAnnounce
  <2>6. QED
    BY <2>4, <2>5
<1>15. QED
  BY <1>5, <1>6, <1>7, <1>8, <1>9, <1>10, <1>11, <1>12, <1>13, <1>14 DEF SourceStep

(* A pass takes an event off the queue and then reaches what was queued.   *)
LEMMA DrainsReach ==
  ASSUME IInv, NEW p \in Ports, DrainStep(p), NEW q \in Ports, HeardOf(q)
  PROVE  HeardOf(q)'
<1>1. TypeOK /\ OneOwner /\ DrainAt(p)
  BY DEF IInv
<1> HIDE DEF IInv
<1>2. UNCHANGED <<need_notify, pc, out, todo>>
  BY DEF DrainStep, ReceiveEvent, Scan, Entered, Output, Reclaim, Advance, srcVars
<1>3. \A s \in Sources : AboutToAnnounce(s, q)' <=> AboutToAnnounce(s, q)
  BY <1>2 DEF AboutToAnnounce
<1>4. CASE q # p
  <2>1. UNCHANGED <<data_out[q], cur[q], tmp[q], tpc[q], mqueue[q]>>
    BY <1>1, <1>4 DEF TypeOK, DrainStep, ReceiveEvent, Scan, Entered, Output, Reclaim, Advance
  <2>2. AheadOf(q)' = AheadOf(q)
    BY <2>1 DEF AheadOf
  <2>3. QED
    BY <1>2, <1>3, <2>1, <2>2 DEF HeardOf
<1>5. ASSUME Range(data_out[p])' \subseteq AheadOf(p)' PROVE HeardOf(p)'
  BY <1>5 DEF HeardOf
<1>6. ASSUME mqueue' = mqueue,
             Range(data_out[p]) \subseteq AheadOf(p) => Range(data_out[p])' \subseteq AheadOf(p)'
      PROVE  HeardOf(p) => HeardOf(p)'
  BY <1>2, <1>6 DEF HeardOf, AboutToAnnounce
<1>7. CASE q = p /\ ReceiveEvent(p)
  <2>1. tpc'[p] = "scan" /\ data_out' = data_out
    BY <1>1, <1>7 DEF TypeOK, ReceiveEvent
  <2>2. QED
    BY <1>5, <1>7, <2>1 DEF AheadOf
<1>8. data_out[p] \in Seq(Bufs)
  BY <1>1 DEF TypeOK
<1>9. CASE q = p /\ (Scan(p) \/ Advance(p))
  <2>1. PICK b, n \in Bufs \cup {None} : PassEnters(p, b, n)
    BY <1>1, <1>9, PassesEnterHead
  <2>2. /\ data_out' = data_out /\ mqueue' = mqueue /\ cur'[p] = b /\ tmp'[p] = n
        /\ tpc'[p] = IF b = None THEN "wait" ELSE "output"
        /\ tpc[p] \in {"scan", "advance"}
    BY <1>1, <2>1 DEF PassEnters, TypeOK
  <2>3. CASE b = None
    <3>1. tpc[p] = "scan" => Range(data_out[p]) = {}
      BY <2>1, <2>3 DEF PassEnters, Range
    <3>2. tpc[p] = "advance" => AheadOf(p) = {}
      BY <2>1, <2>3 DEF PassEnters, AheadOf
    <3>3. AheadOf(p)' = {}
      BY <2>2, <2>3 DEF AheadOf
    <3>4. QED
      BY <1>6, <1>9, <2>2, <3>1, <3>2, <3>3
  <2>4. CASE b # None
    <3>1. data_out[p] # <<>> /\ b = data_out[p][1]
          /\ n = IF Len(data_out[p]) = 1 THEN None ELSE data_out[p][2]
      BY <2>1, <2>4 DEF PassEnters
    <3>2. CASE n = None
      <4>1. Len(data_out[p]) = 1
        <5>1. Len(data_out[p]) # 1 => 2 \in 1..Len(data_out[p])
          <6>1. \A k \in Nat \ {0} : k # 1 => 2 \in 1..k
            OBVIOUS
          <6>2. QED
            BY <1>8, <3>1, <6>1, Tailed
        <5>2. Len(data_out[p]) # 1 => data_out[p][2] \in Bufs
          BY <1>8, <5>1, ElementOfSeq
        <5>3. QED
          BY <3>1, <3>2, <5>2, PortFacts
      <4>2. Range(data_out[p]) \subseteq {b}
        <5>1. \A i \in 1..Len(data_out[p]) : i = 1
          BY <4>1
        <5>2. QED
          BY <1>8, <3>1, <5>1, RangeEquality
      <4>3. AheadOf(p)' = {b}
        BY <2>2, <2>4, <3>2 DEF AheadOf
      <4>4. QED
        BY <1>5, <1>9, <2>2, <4>2, <4>3
    <3>3. CASE n # None
      <4>1. AheadOf(p)' = Range(data_out[p])'
        BY <2>2, <2>4, <3>3 DEF AheadOf
      <4>2. QED
        BY <1>5, <1>9, <4>1
    <3>4. QED
      BY <3>2, <3>3
  <2>5. QED
    BY <2>3, <2>4
<1>10. CASE q = p /\ Output(p)
  <2>1. /\ tpc[p] = "output" /\ tpc'[p] = "reclaim"
        /\ UNCHANGED <<data_out, mqueue, cur, tmp>>
    BY <1>1, <1>10 DEF TypeOK, Output
  <2>2. AheadOf(p)' = AheadOf(p)
    BY <2>1 DEF AheadOf
  <2>3. QED
    BY <1>6, <1>10, <2>1, <2>2
<1>11. CASE q = p /\ Reclaim(p)
  <2>1. /\ data_out[p] # <<>> /\ IsInjective(data_out[p]) /\ cur[p] = data_out[p][1]
        /\ data_out'[p] = Tail(data_out[p]) /\ UNCHANGED <<mqueue, cur, tmp>>
        /\ tpc[p] = "reclaim" /\ tpc'[p] = "advance"
    BY <1>1, <1>11, HeadReclaimed DEF TypeOK, Reclaim
  <2>2. Range(Tail(data_out[p])) \subseteq Range(data_out[p])
        /\ cur[p] \notin Range(Tail(data_out[p]))
    BY <1>8, <2>1, Tailed
  <2>3. CASE tmp[p] = None
    <3>1. AheadOf(p) = {cur[p]}
      BY <2>1, <2>3 DEF AheadOf
    <3>2. QED
      BY <1>6, <1>11, <2>1, <2>2, <3>1
  <2>4. CASE tmp[p] # None
    <3>1. AheadOf(p)' = Range(data_out[p])'
      BY <2>1, <2>4 DEF AheadOf
    <3>2. QED
      BY <1>5, <1>11, <3>1
  <2>5. QED
    BY <2>3, <2>4
<1>12. QED
  BY <1>4, <1>7, <1>9, <1>10, <1>11 DEF DrainStep

LEMMA AnnouncementKept ==
  ASSUME IInv, [Next]_vars
  PROVE  QueuedIsAnnounced'
<1>1. \A p \in Ports : HeardOf(p)
  BY DEF IInv, QueuedIsAnnounced, HeardOf
<1>2. ASSUME NEW p \in Ports PROVE HeardOf(p)'
  <2>1. HeardOf(p)
    BY <1>1
  <2>2. ASSUME NEW s \in Sources, SourceStep(s) \/ NoMemory(s) \/ \E d \in Addrs : Receive(s, d)
        PROVE  HeardOf(p)'
    BY <2>1, <2>2, SourcesAnnounce
  <2>3. ASSUME NEW q \in Ports, DrainStep(q) PROVE HeardOf(p)'
    BY <2>1, <2>3, DrainsReach
  <2> HIDE DEF IInv
  <2>4. CASE Configure \/ UNCHANGED vars
    <3>1. UNCHANGED <<data_out, mqueue, need_notify, srcVars, taskVars>>
      BY <2>4 DEF Configure, UpdateAddr, AddFdb, RemoveFdb, BeginChange, MakeChange, EndChange,
                  LinkChange, vars
    <3>2. QED
      BY <2>1, <3>1 DEF HeardOf, AheadOf, AboutToAnnounce, srcVars, taskVars
  <2>5. QED
    BY <2>2, <2>3, <2>4 DEF Next
<1>3. QED
  BY <1>2 DEF QueuedIsAnnounced, HeardOf

-----------------------------------------------------------------------------
(* With one source per port, a need_notify flag is always followed.        *)

OneSource == DOMAIN Second = {}

(* The flags after a step of s: one s will pass, or one it did not follow. *)
Followed(s) ==
    \A p \in Ports : need_notify'[p] =>
        WillNotify(s, p)' \/ (need_notify[p] /\ ~WillNotify(s, p))

LEMMA OneSourceEach ==
  ASSUME OneSource
  PROVE  Sources = Ports /\ \A s \in Sources : Owner(s) = s
BY DEF OneSource, Sources, Owner

LEMMA SourceFollows ==
  ASSUME OneSource, TypeOK, NEW s \in Sources, SourceAt(s), Counting(s),
         SourceStep(s) \/ NoMemory(s) \/ (\E d \in Addrs : Receive(s, d))
  PROVE  Counting(s)' /\ Followed(s)
<1>1. /\ s \in Ports /\ Owner(s) = s /\ in_count[s] \in 0..Threshold + 1 /\ Threshold \in Nat
      /\ KindOf(s) \in {"enet", "vnet", "soft"} /\ batchNotify[s] \in BOOLEAN
  BY OneSourceEach, PortFacts, SwitchAssumption DEF TypeOK
<1>2. Owner(s)' = s /\ KindOf(s)' = KindOf(s)
  BY <1>1 DEF Owner, KindOf
<1>3. /\ pc[s] \in {"idle", "batch"} \/ KindOf(s) # "soft" => ~batchNotify[s]
      /\ pc[s] \in Working /\ KindOf(s) = "soft" => batchNotify[s] \/ in_count[s] > 0
  BY <1>1 DEF Counting
<1>4. ASSUME pc'[s] \in {"idle", "batch"} \/ KindOf(s) # "soft" => ~batchNotify'[s],
             pc'[s] \in Working /\ KindOf(s) = "soft" => batchNotify'[s] \/ in_count'[s] > 0
      PROVE  Counting(s)'
  BY <1>2, <1>4 DEF Counting
<1>5. \A p \in Ports : WillNotify(s, p) <=>
        \/ pc[s] = "notify" /\ p \in Range(todo[s])
        \/ pc[s] = "post" /\ p \in Range(Tail(todo[s]))
        \/ pc[s] \notin {"idle", "notify", "post"} /\ KindOf(s) # "soft"
        \/ pc[s] \notin {"idle", "notify", "post", "batch"} /\ batchNotify[s]
        \/ /\ pc[s] # "idle" /\ (pc[s] \in {"notify", "post"} => batchNotify[s])
           /\ in_count[s] > 0
  BY <1>1 DEF WillNotify
<1>6. \A p \in Ports : WillNotify(s, p)' <=>
        \/ pc'[s] = "notify" /\ p \in Range(todo'[s])
        \/ pc'[s] = "post" /\ p \in Range(Tail(todo'[s]))
        \/ pc'[s] \notin {"idle", "notify", "post"} /\ KindOf(s) # "soft"
        \/ pc'[s] \notin {"idle", "notify", "post", "batch"} /\ batchNotify'[s]
        \/ /\ pc'[s] # "idle" /\ (pc'[s] \in {"notify", "post"} => batchNotify'[s])
           /\ in_count'[s] > 0
  BY <1>2 DEF WillNotify
(* While the source works on a packet it is sure to notify.                *)
<1>7. ASSUME pc'[s] \in Working, pc[s] \in Working, UNCHANGED <<batchNotify, in_count>>
      PROVE  Counting(s)' /\ Followed(s)
  <2>1. Counting(s)'
    BY <1>3, <1>4, <1>7 DEF Working, Carrying, Announcing
  <2>2. \A p \in Ports : WillNotify(s, p)'
    BY <1>3, <1>6, <1>7 DEF Working, Carrying, Announcing
  <2>3. QED
    BY <2>1, <2>2 DEF Followed
<1>8. CASE \/ SwitchPkt(s) \/ Unicast(s) \/ SkipPort(s) \/ VisitPort(s) \/ EndVisits(s)
           \/ CountOut(s) \/ AnnounceOut(s)
  <2> USE DEF Working, Carrying, Announcing, Goto
  <2>1. CASE SwitchPkt(s)
    BY <1>7, <2>1 DEF TypeOK, SwitchPkt
  <2>2. CASE Unicast(s)
    BY <1>7, <2>2 DEF TypeOK, Unicast, PortOut
  <2>3. CASE SkipPort(s) \/ EndVisits(s)
    BY <1>7, <2>3 DEF TypeOK, SkipPort, EndVisits
  <2>4. CASE VisitPort(s)
    <3>1. pc[s] = "visit" /\ pc' = [pc EXCEPT ![s] = "count"] /\ UNCHANGED <<batchNotify, in_count>>
      BY <2>4 DEF VisitPort, PortOut
    <3>2. QED
      BY <1>7, <3>1 DEF TypeOK
  <2>5. CASE CountOut(s) \/ AnnounceOut(s)
    BY <1>7, <2>5 DEF TypeOK, CountOut, AnnounceOut, Announcement, PassedOn
  <2>6. QED
    BY <1>8, <2>1, <2>2, <2>3, <2>4, <2>5
<1>9. ASSUME NEW d \in Addrs, Receive(s, d) PROVE Counting(s)' /\ Followed(s)
  <2>1. pc'[s] = "switch"
    BY <1>9 DEF TypeOK, Receive, Goto
  <2>2. CASE KindOf(s) = "soft"
    <3>1. /\ batchNotify'[s] = (in_count[s] > Threshold)
          /\ in_count'[s] = IF in_count[s] > Threshold THEN 0 ELSE in_count[s] + 1
      BY <1>1, <1>9, <2>2 DEF TypeOK, Receive
    <3>2. batchNotify'[s] \/ in_count'[s] > 0
      <4>1. CASE in_count[s] > Threshold
        BY <3>1, <4>1
      <4>2. CASE ~ (in_count[s] > Threshold)
        <5>1. in_count'[s] = in_count[s] + 1
          BY <3>1, <4>2
        <5>2. QED
          BY <1>1, <5>1
      <4>3. QED
        BY <4>1, <4>2
    <3>3. Counting(s)'
      BY <1>4, <2>1, <2>2, <3>2
    <3>4. \A p \in Ports : WillNotify(s, p)'
      BY <1>6, <2>1, <3>2
    <3>5. QED
      BY <3>3, <3>4 DEF Followed
  <2>3. CASE KindOf(s) # "soft"
    <3>1. batchNotify' = batchNotify
      BY <1>9, <2>3 DEF Receive
    <3>2. Counting(s)'
      BY <1>3, <1>4, <2>3, <3>1
    <3>3. \A p \in Ports : WillNotify(s, p)'
      BY <1>6, <2>1, <2>3
    <3>4. QED
      BY <3>2, <3>3 DEF Followed
  <2>4. QED
    BY <2>2, <2>3
<1>10. CASE NoMemory(s)
  <2>1. /\ KindOf(s) = "vnet" /\ pc'[s] = "batch" /\ batchNotify' = batchNotify
    BY <1>10 DEF TypeOK, NoMemory, Goto
  <2>2. Counting(s)'
    BY <1>3, <1>4, <2>1
  <2>3. \A p \in Ports : WillNotify(s, p)'
    BY <1>6, <2>1
  <2>4. QED
    BY <2>2, <2>3 DEF Followed
(* notify_ports begins, and will pass every port.                          *)
<1>11. ASSUME pc'[s] = "notify", todo'[s] = NotifyOrder, batchNotify' = batchNotify
       PROVE  Counting(s)' /\ Followed(s)
  <2>1. Counting(s)'
    BY <1>3, <1>4, <1>11 DEF Working, Carrying, Announcing
  <2>2. \A p \in Ports : WillNotify(s, p)'
    BY <1>6, <1>11, PortLists
  <2>3. QED
    BY <2>1, <2>2 DEF Followed
<1>12. CASE EndPacket(s)
  <2>1. CASE batchNotify[s]
    BY <1>11, <1>12, <2>1 DEF TypeOK, EndPacket, StartNotify, Goto
  <2>2. CASE ~ batchNotify[s]
    <3>1. /\ pc[s] = "done" /\ pc'[s] = "batch" /\ UNCHANGED <<batchNotify, in_count>>
      BY <1>12, <2>2 DEF TypeOK, EndPacket, Goto
    <3>2. KindOf(s) = "soft" => in_count[s] > 0
      BY <1>3, <2>2, <3>1 DEF Working
    <3>3. Counting(s)'
      BY <1>4, <2>2, <3>1 DEF Working, Carrying, Announcing
    <3>4. \A p \in Ports : WillNotify(s, p)'
      BY <1>6, <3>1, <3>2
    <3>5. QED
      BY <3>3, <3>4 DEF Followed
  <2>3. QED
    BY <2>1, <2>2
<1>13. CASE EndBatch(s)
  BY <1>11, <1>13 DEF TypeOK, EndBatch, StartNotify, Goto
<1>14. CASE Kick(s)
  <2>1. CASE in_count[s] > 0
    BY <1>1, <1>11, <1>14, <2>1 DEF TypeOK, Kick, StartNotify, Goto
  <2>2. CASE ~ (in_count[s] > 0)
    <3>1. /\ pc[s] = "batch" /\ KindOf(s) = "soft" /\ pc'[s] = "idle"
          /\ UNCHANGED <<batchNotify, need_notify>>
      BY <1>1, <1>14, <2>2 DEF TypeOK, Kick, Goto
    <3>2. Counting(s)'
      BY <1>3, <1>4, <3>1 DEF Working, Carrying, Announcing
    <3>3. \A p \in Ports : ~ WillNotify(s, p)
      BY <1>5, <2>2, <3>1
    <3>4. QED
      BY <3>1, <3>2, <3>3 DEF Followed
  <2>3. QED
    BY <2>1, <2>2
<1>15. \A p \in Ports : todo[s] # <<>> /\ p \in Range(todo[s]) => p = Head(todo[s]) \/ p \in Range(Tail(todo[s]))
  <2>1. todo[s] \in Seq(Ports)
    BY DEF TypeOK
  <2>2. QED
    BY <2>1, Tailed
<1>16. CASE TestNotify(s)
  <2>1. /\ pc[s] = "notify" /\ todo[s] # <<>> /\ UNCHANGED <<batchNotify, in_count>>
        /\ \/ /\ need_notify'[Head(todo[s])] = FALSE /\ pc'[s] = "post" /\ todo'[s] = todo[s]
              /\ \A p \in Ports : need_notify'[p] => need_notify[p]
           \/ /\ ~ need_notify[Head(todo[s])] /\ need_notify' = need_notify
              /\ pc'[s] = "notify" /\ todo'[s] = Tail(todo[s])
    <3>1. pc[s] = "notify" /\ todo[s] # <<>> /\ todo[s] \in Seq(Ports) /\ UNCHANGED <<batchNotify, in_count>>
      BY <1>16 DEF TestNotify, TypeOK
    <3>2. Head(todo[s]) \in Ports
      BY <3>1
    <3>3. CASE need_notify[Head(todo[s])]
      <4>1. /\ need_notify' = [need_notify EXCEPT ![Head(todo[s])] = FALSE]
            /\ pc'[s] = "post" /\ todo'[s] = todo[s]
        BY <1>16, <3>3 DEF TestNotify, TypeOK, Goto
      <4>2. need_notify'[Head(todo[s])] = FALSE /\ \A p \in Ports : need_notify'[p] => need_notify[p]
        BY <3>2, <4>1 DEF TypeOK
      <4>3. QED
        BY <3>1, <4>1, <4>2
    <3>4. CASE ~ need_notify[Head(todo[s])]
      BY <1>16, <3>1, <3>4 DEF TestNotify, TypeOK
    <3>5. QED
      BY <3>3, <3>4
  <2>2. Counting(s)'
    BY <1>3, <1>4, <2>1 DEF Working, Carrying, Announcing
  <2>3. ASSUME NEW p \in Ports, need_notify'[p], WillNotify(s, p) PROVE WillNotify(s, p)'
    <3>1. p # Head(todo[s])
      BY <2>1, <2>3
    <3>2. p \in Range(Tail(todo[s])) \/ (batchNotify[s] /\ in_count[s] > 0)
      BY <1>5, <1>15, <2>1, <2>3, <3>1
    <3>3. QED
      BY <1>6, <2>1, <3>2
  <2>4. QED
    BY <2>1, <2>2, <2>3 DEF Followed
<1>17. CASE PostNotify(s)
  <2>1. /\ pc[s] = "post" /\ pc'[s] = "notify" /\ todo'[s] = Tail(todo[s])
        /\ UNCHANGED <<batchNotify, in_count, need_notify>>
    BY <1>17 DEF TypeOK, PostNotify, Goto
  <2>2. Counting(s)'
    BY <1>3, <1>4, <2>1 DEF Working, Carrying, Announcing
  <2>3. \A p \in Ports : WillNotify(s, p) => WillNotify(s, p)'
    BY <1>5, <1>6, <2>1
  <2>4. QED
    BY <2>1, <2>2, <2>3 DEF Followed
<1>18. CASE EndNotify(s)
  <2>1. /\ pc[s] = "notify" /\ todo[s] = <<>> /\ UNCHANGED <<in_count, need_notify>>
        /\ pc'[s] = IF batchNotify[s] THEN "batch" ELSE "idle"
        /\ batchNotify'[s] = FALSE
    BY <1>18 DEF TypeOK, EndNotify, Goto
  <2>2. Counting(s)'
    BY <1>4, <2>1 DEF Working, Carrying, Announcing
  <2>3. \A p \in Ports : WillNotify(s, p) => WillNotify(s, p)'
    <3>1. Range(todo[s]) = {}
      BY <2>1 DEF Range
    <3>2. \A p \in Ports : WillNotify(s, p) => batchNotify[s] /\ in_count[s] > 0
      BY <1>5, <2>1, <3>1
    <3>3. QED
      BY <1>6, <2>1, <3>2
  <2>4. QED
    BY <2>1, <2>2, <2>3 DEF Followed
<1>19. QED
  BY <1>8, <1>9, <1>10, <1>12, <1>13, <1>14, <1>16, <1>17, <1>18 DEF SourceStep

LEMMA FlagsKept ==
  ASSUME OneSource, IInv, \A s \in Sources : Counting(s), FlagIsFollowed, [Next]_vars
  PROVE  (\A s \in Sources : Counting(s)') /\ FlagIsFollowed'
<1>1. TypeOK /\ \A s \in Sources : SourceAt(s)
  BY DEF IInv
<1> HIDE DEF IInv
<1>2. \A s \in Sources : Owner(s) = s
  BY OneSourceEach
<1>3. ASSUME NEW s \in Sources, SourceStep(s) \/ NoMemory(s) \/ (\E d \in Addrs : Receive(s, d))
      PROVE  (\A t \in Sources : Counting(t)') /\ FlagIsFollowed'
  <2>1. Counting(s)' /\ Followed(s)
    BY <1>1, <1>3, SourceFollows
  <2>2. /\ \A t \in Sources \ {s} :
             pc'[t] = pc[t] /\ todo'[t] = todo[t] /\ batchNotify'[t] = batchNotify[t]
        /\ \A p \in Ports : p # s => in_count'[p] = in_count[p]
    BY <1>1, <1>2, <1>3, SourcesMoveAlone
  <2>3. \A t \in Sources \ {s} : in_count'[Owner(t)] = in_count[Owner(t)]
    BY <1>2, <2>2, PortFacts
  <2>4. \A t \in Sources \ {s} : Counting(t)' /\ \A p \in Ports : WillNotify(t, p) => WillNotify(t, p)'
    <3>1. ASSUME NEW t \in Sources \ {s} PROVE Counting(t)'
      <4>1. Counting(t) /\ KindOf(t)' = KindOf(t) /\ Owner(t)' = Owner(t)
        BY DEF KindOf, Owner
      <4>2. QED
        BY <2>2, <2>3, <4>1 DEF Counting
    <3>2. ASSUME NEW t \in Sources \ {s}, NEW p \in Ports, WillNotify(t, p) PROVE WillNotify(t, p)'
      <4>1. KindOf(t)' = KindOf(t) /\ Owner(t)' = Owner(t)
        BY DEF KindOf, Owner
      <4>2. QED
        BY <2>2, <2>3, <3>2, <4>1 DEF WillNotify
    <3>3. QED
      BY <3>1, <3>2
  <2>5. ASSUME NEW p \in Ports, need_notify'[p] PROVE \E t \in Sources : WillNotify(t, p)'
    <3>1. CASE WillNotify(s, p)'
      BY <3>1
    <3>2. CASE need_notify[p] /\ ~ WillNotify(s, p)
      <4>1. PICK t \in Sources : WillNotify(t, p)
        BY <3>2 DEF FlagIsFollowed
      <4>2. QED
        BY <2>4, <3>2, <4>1
    <3>3. QED
      BY <2>1, <2>5, <3>1, <3>2 DEF Followed
  <2>6. QED
    BY <2>1, <2>4, <2>5 DEF FlagIsFollowed
<1>4. ASSUME UNCHANGED <<need_notify, srcVars>>
      PROVE  (\A t \in Sources : Counting(t)') /\ FlagIsFollowed'
  BY <1>4 DEF Counting, FlagIsFollowed, WillNotify, KindOf, Owner, srcVars
<1>5. ASSUME NEW p \in Ports, DrainStep(p) PROVE UNCHANGED <<need_notify, srcVars>>
  BY <1>5 DEF DrainStep, ReceiveEvent, Scan, Entered, Output, Reclaim, Advance
<1>6. ASSUME Configure \/ UNCHANGED vars PROVE UNCHANGED <<need_notify, srcVars>>
  BY <1>6 DEF Configure, UpdateAddr, AddFdb, RemoveFdb, BeginChange, MakeChange, EndChange,
              LinkChange, vars
<1>7. QED
  BY <1>3, <1>4, <1>5, <1>6 DEF Next

-----------------------------------------------------------------------------
(* The theorems.                                                           *)

LEMMA InitIInv == Init => IInv
<1> SUFFICES ASSUME Init PROVE IInv
  OBVIOUS
<1> USE DEF Init
<1>1. TypeOK
  <2>1. NoPkt \in [src : Sources, num : Nat, dst : Addrs, static : BOOLEAN]
    BY PortFacts DEF NoPkt, Addrs
  <2>2. 0 \in 0..Depth /\ 0 \in 0..Threshold + 1 /\ \A l \in Loads : 0 \in 0..l.changes
    BY SwitchAssumption DEF Load
  <2>3. <<>> \in Seq(Bufs) /\ <<>> \in Seq(Ports)
    OBVIOUS
  <2>4. QED
    BY <2>1, <2>2, <2>3, SwitchAssumption DEF TypeOK
<1>2. AdminAt
  BY DEF AdminAt
<1>3. \A s \in Sources : SourceAt(s)
  BY DEF SourceAt, Carrying, Announcing, IsInjective
<1>4. \A p \in Ports : DrainAt(p)
  BY DEF DrainAt
<1>5. \A p \in Ports : data_out[p] = <<>> /\ Range(data_out[p]) = {} /\ IsInjective(data_out[p])
        /\ Len(data_out[p]) = 0
  BY DEF Range, IsInjective
<1>6. \A b \in Bufs : ~ Held(b)
  BY <1>5, PortFacts DEF Held
<1>7. OneOwner /\ OnlyClonesLeak
  BY <1>5, <1>6 DEF OneOwner, OnlyClonesLeak
<1>8. QueuedIsAnnounced
  BY <1>5 DEF QueuedIsAnnounced
<1>9. \A s \in Sources : NotYet(s) = {}
  BY DEF NotYet, Announcing
<1>10. \A s \in Sources : Numbered(s)
  BY <1>5, <1>9 DEF Numbered, Earlier
<1>11. \A p \in Ports, s \in Sources : Ordered(p, s)
  BY <1>5 DEF Ordered, First
<1>12. QED
  BY <1>1, <1>2, <1>3, <1>4, <1>7, <1>8, <1>10, <1>11 DEF IInv

(* The inductive invariant holds in every reachable state.                 *)
THEOREM Invariance == Spec => []IInv
<1>1. IInv /\ [Next]_vars => IInv'
  <2> SUFFICES ASSUME IInv, [Next]_vars PROVE IInv'
    OBVIOUS
  <2>1. TypeOK' /\ AdminAt'
    BY TypesKept
  <2>2. (\A s \in Sources : SourceAt(s)') /\ \A p \in Ports : DrainAt(p)'
    BY PlacesKept
  <2>3. AnyKind
    BY StepKinds
  <2>4. OneOwner' /\ OnlyClonesLeak'
    BY <2>3, OwnersKept
  <2>5. (\A s \in Sources : Numbered(s)') /\ \A p \in Ports, s \in Sources : Ordered(p, s)'
    BY <2>3, NumbersKept
  <2>6. QueuedIsAnnounced'
    BY AnnouncementKept
  <2>7. QED
    BY <2>1, <2>2, <2>4, <2>5, <2>6 DEF IInv
<1>2. QED
  BY <1>1, InitIInv, PTL DEF Spec

(* Every variable keeps its type: counts, queues and lists never leave     *)
(* their ranges, whatever the tasks do.                                    *)
THEOREM TypeCorrect == Spec => []TypeOK
<1>1. IInv => TypeOK
  BY DEF IInv
<1>2. QED
  BY <1>1, Invariance, PTL

(* Every packet has one owner and only clones of static packets are lost:  *)
(* the switch neither frees a packet that is still queued nor queues one   *)
(* twice (net_switch.c:100-191, data_pkt.c).                               *)
THEOREM BuffersAlwaysAccounted == Spec => []BuffersAccounted
<1>1. IInv => BuffersAccounted
  BY DEF IInv, BuffersAccounted
<1>2. QED
  BY <1>1, Invariance, PTL

(* The packets of a source leave every port in the order they came, each   *)
(* once (port_out_pkt, port_process_pkts).                                 *)
THEOREM FlowsStayInOrder == Spec => []FlowInOrder
<1>1. ASSUME TypeOK, NEW p \in Ports, NEW s \in Sources, DrainAt(p), Ordered(p, s)
      PROVE  LET unsent == IF tpc[p] = "reclaim" THEN Tail(data_out[p]) ELSE data_out[p]
                 flow == {i \in 1..Len(unsent) : pkt[unsent[i]].src = s}
             IN  /\ \A i \in flow : pkt[unsent[i]].num > sent[p][s]
                 /\ \A i, j \in flow : i < j => pkt[unsent[i]].num < pkt[unsent[j]].num
  <2> DEFINE q == data_out[p]
  <2>1. q \in Seq(Bufs) /\ Len(q) \in Nat
    BY <1>1 DEF TypeOK
  <2>2. CASE tpc[p] # "reclaim"
    BY <1>1, <2>2 DEF Ordered, First
  <2>3. CASE tpc[p] = "reclaim"
    <3> DEFINE r == Tail(data_out[p])
    <3>1. q # <<>>
      BY <1>1, <2>3 DEF DrainAt
    <3>2. Len(r) = Len(q) - 1 /\ \A i \in 1..Len(r) : r[i] = q[i + 1]
      BY <2>1, <3>1, Tailed
    <3>3. \A i \in 2..Len(q) : pkt[q[i]].src = s =>
            /\ pkt[q[i]].num > sent[p][s]
            /\ \A j \in 2..Len(q) : i < j /\ pkt[q[j]].src = s => pkt[q[i]].num < pkt[q[j]].num
      BY <1>1, <2>3 DEF Ordered, First
    <3> HIDE DEF q, r
    <3>4. \A i \in 1..Len(r) : i + 1 \in 2..Len(q) /\ r[i] = q[i + 1]
      BY <2>1, <3>2
    <3>5. \A i, j \in 1..Len(r) : i < j => i + 1 < j + 1
      BY <2>1, <3>2
    <3>6. \A i \in 1..Len(r) : pkt[r[i]].src = s =>
            /\ pkt[r[i]].num > sent[p][s]
            /\ \A j \in 1..Len(r) : i < j /\ pkt[r[j]].src = s => pkt[r[i]].num < pkt[r[j]].num
      BY <3>3, <3>4, <3>5
    <3>7. QED
      BY <2>3, <3>6 DEF r
  <2>4. QED
    BY <2>2, <2>3
<1>2. IInv => FlowInOrder
  BY <1>1 DEF IInv, FlowInOrder
<1>3. QED
  BY <1>2, Invariance, PTL

(* What is queued is announced, whatever the tasks do: this part needs no  *)
(* assumption on how many tasks push into a port.                          *)
THEOREM QueuedAlwaysAnnounced == Spec => []QueuedIsAnnounced
<1>1. IInv => QueuedIsAnnounced
  BY DEF IInv
<1>2. QED
  BY <1>1, Invariance, PTL

(* Where one task pushes into each port, a need_notify flag never stays    *)
(* behind either: whatever is queued or flagged, somebody still acts on    *)
(* it.  With two tasks in a software port this is false, in_count being    *)
(* shared without a lock (port_software.c).                                *)
THEOREM AlwaysAnnounced ==
  ASSUME OneSource
  PROVE  Spec => []Announced
<1> DEFINE Inv == IInv /\ (\A s \in Sources : Counting(s)) /\ FlagIsFollowed
<1>1. Init => Inv
  <2> SUFFICES ASSUME Init PROVE Inv
    OBVIOUS
  <2>1. IInv
    BY InitIInv
  <2>2. \A s \in Sources : Counting(s)
    BY DEF Init, Counting, Working, Carrying, Announcing
  <2>3. FlagIsFollowed
    BY DEF Init, FlagIsFollowed
  <2>4. QED
    BY <2>1, <2>2, <2>3
<1>2. Inv /\ IInv' /\ [Next]_vars => Inv'
  <2> SUFFICES ASSUME Inv, IInv', [Next]_vars PROVE Inv'
    OBVIOUS
  <2>1. IInv /\ (\A s \in Sources : Counting(s)) /\ FlagIsFollowed
    OBVIOUS
  <2>2. (\A s \in Sources : Counting(s)') /\ FlagIsFollowed'
    BY <2>1, FlagsKept
  <2>3. QED
    BY <2>2
<1>3. Inv => Announced
  BY DEF IInv, Announced
<1> HIDE DEF Inv
<1>4. QED
  BY <1>1, <1>2, <1>3, Invariance, PTL DEF Spec

=============================================================================
