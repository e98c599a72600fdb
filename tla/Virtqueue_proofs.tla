------------------------- MODULE Virtqueue_proofs -------------------------
(***************************************************************************)
(* Proofs about one split virtqueue, for every ring size, width of the     *)
(* indices and kind of queue: no descriptor is lost or owned twice, and    *)
(* neither side sleeps while the other has something for it.               *)
(***************************************************************************)
EXTENDS Virtqueue, FiniteSetTheorems, TLAPS

-----------------------------------------------------------------------------
(* The inductive invariant.                                                *)

Available == Distance(last_avail_idx, avail_idx)
Unreaped  == Distance(last_used, used_idx)

(* The heads in n entries of ring r from index i on, and that they differ. *)
Window(r, i, n)   == {r[SlotOf(i + k)] : k \in 0 .. n - 1}
Distinct(r, i, n) ==
  \A j, k \in 0 .. n - 1 : r[SlotOf(i + j)] = r[SlotOf(i + k)] => j = k

(* Every head is owned once: four disjoint sets, no repetition in a ring.  *)
Owned ==
  /\ free \cup Avail \cup Taken \cup Used = Buf
  /\ Cardinality(free) + Available + Len(taken) + Unreaped = Num
  /\ free \cap Avail = {} /\ free \cap Taken = {} /\ free \cap Used = {}
  /\ Avail \cap Taken = {} /\ Avail \cap Used = {} /\ Taken \cap Used = {}
  /\ Distinct(avail_ring, last_avail_idx, Available)
  /\ Distinct(used_ring, last_used, Unreaped)
  /\ \A j, k \in 1 .. Len(taken) : taken[j] = taken[k] => j = k

(* The heads of the packet already written past the published entries.     *)
Filled == IF dpc \in {"event", "fill"} THEN Len(taken) - 1 ELSE Len(taken)
Staged ==
  /\ dpc \in {"event", "fill"} => Len(taken) > 0
  /\ \A k \in 1 .. Filled : used_ring[SlotOf(used_idx + (k - 1))] = taken[k]

(* A waiting device without a notification has seen every buffer but the   *)
(* one the driver is about to decide about.                                *)
KickComing ==
  /\ setting.use_event_idx /\ dpc # "event" => avail_event = last_avail_idx
  /\ dpc = "wait" /\ ~notified =>
       \/ avail_idx = last_avail_idx
       \/ avail_idx = Add(last_avail_idx, 1) /\ kicking

(* What the driver asked for before it looked again or went to sleep.      *)
Armed ==
  rpc \in {"armed", "asleep"} =>
    IF setting.use_event_idx THEN used_event = last_used ELSE ~no_interrupt

(* The device knows how many entries it used since it last interrupted,    *)
(* and has not interrupted between the driver's request and its sleep.     *)
QuietCounted ==
  setting.use_event_idx /\ quiet < Modulus =>
    /\ quiet = Distance(last_notified_idx, used_idx)
    /\ rpc \in {"armed", "asleep"} =>
         \/ Unreaped <= quiet
         \/ irq
         \/ dpc = "interrupt"
         \/ rpc = "armed" /\ used_idx # last_used

IInv ==
  /\ TypeOK
  /\ Owned
  /\ Staged
  /\ KickComing
  /\ Armed
  /\ QuietCounted
  /\ NoLostInterrupt

-----------------------------------------------------------------------------
(* Remainders.                                                             *)

LEMMA Remainder ==
  ASSUME NEW n \in Nat \ {0}, NEW a \in Int, NEW q \in Int, NEW r \in 0 .. n - 1,
         a = q * n + r
  PROVE  a % n = r
  OBVIOUS

LEMMA Quotient ==
  ASSUME NEW n \in Nat \ {0}, NEW a \in Int
  PROVE  a % n \in 0 .. n - 1 /\ \E q \in Int : a = q * n + (a % n)
<1>1. a % n \in 0 .. n - 1
  OBVIOUS
<1>2. a = (a \div n) * n + (a % n) /\ a \div n \in Int
  OBVIOUS
<1>3. QED
  BY <1>1, <1>2

LEMMA RemainderPeriod ==
  ASSUME NEW n \in Nat \ {0}, NEW a \in Int, NEW k \in Int
  PROVE  (a + k * n) % n = a % n
<1>1. PICK q \in Int : a = q * n + (a % n)
  BY Quotient
<1>2. a % n \in 0 .. n - 1
  BY Quotient
<1>3. a + k * n = (q + k) * n + (a % n)
  BY <1>1, <1>2
<1>4. q + k \in Int /\ a + k * n \in Int
  OBVIOUS
<1>5. QED
  BY <1>2, <1>3, <1>4, Remainder

(* Numbers closer than n have different remainders.                        *)
LEMMA RemaindersDiffer ==
  ASSUME NEW n \in Nat \ {0}, NEW a \in Int, NEW b \in Int, a < b, b - a < n
  PROVE  a % n # b % n
<1> SUFFICES ASSUME a % n = b % n PROVE FALSE
  OBVIOUS
<1>1. PICK p \in Int : a = p * n + (a % n)
  BY Quotient
<1>2. PICK q \in Int : b = q * n + (b % n)
  BY Quotient
<1>3. a % n \in Int
  BY Quotient
<1>4. b - a = (q - p) * n
  BY <1>1, <1>2, <1>3
<1>5. q - p >= 1
  BY <1>4
<1>6. (q - p) * n >= n
  BY <1>5
<1>7. QED
  BY <1>4, <1>6

(* The ring size divides the range of the indices, so a slot survives the  *)
(* wrap of an index.                                                       *)
LEMMA RemainderOfRemainder ==
  ASSUME NEW n \in Nat \ {0}, NEW m \in Nat \ {0}, m % n = 0,
         NEW a \in Int, NEW k \in Int
  PROVE  ((a % m) + k) % n = (a + k) % n /\ (a % m) % n = a % n
<1>1. PICK p \in Int : m = p * n + 0
  BY Quotient
<1>2. PICK q \in Int : a = q * m + (a % m)
  BY Quotient
<1>3. a % m \in Int
  BY Quotient
<1> DEFINE c == -(q * p)
<1>4. c \in Int /\ q * m = -(c * n)
  BY <1>1
<1> HIDE DEF c
<1>5. (a % m) + k = (a + k) + c * n
  BY <1>2, <1>3, <1>4
<1>6. a % m = a + c * n
  BY <1>2, <1>3, <1>4
<1>7. c \in Int /\ a + k \in Int
  BY <1>4
<1>8. ((a % m) + k) % n = (a + k) % n
  <2> DEFINE x == (a % m) + k
             y == a + k
  <2>1. x = y + c * n /\ y \in Int
    BY <1>5, <1>7
  <2> HIDE DEF x, y
  <2>2. x % n = y % n
    BY <1>7, <2>1, RemainderPeriod
  <2>3. QED
    BY <2>2 DEF x, y
<1>9. (a % m) % n = a % n
  <2> DEFINE r == a % m
  <2>1. r = a + c * n
    BY <1>6
  <2> HIDE DEF r
  <2>2. r % n = a % n
    BY <1>7, <2>1, RemainderPeriod
  <2>3. QED
    BY <2>2 DEF r
<1>10. QED
  BY <1>8, <1>9

-----------------------------------------------------------------------------
(* The uint16_t indices.                                                   *)

LEMMA IndexFacts ==
  /\ Num \in Nat \ {0}
  /\ Modulus \in Nat \ {0}
  /\ Num < Modulus
  /\ Modulus % Num = 0
  BY RingAssumption

(* Distance() counts the steps from one index to another, Add() makes them.*)
LEMMA DistanceIs ==
  ASSUME NEW i \in Index, NEW j \in Index
  PROVE  Distance(i, j) = IF i <= j THEN j - i ELSE j - i + Modulus
<1>1. CASE i <= j
  <2>1. j - i \in 0 .. Modulus - 1 /\ j - i = 0 * Modulus + (j - i)
    BY <1>1, IndexFacts DEF Index
  <2>2. QED
    BY <1>1, <2>1, IndexFacts, Remainder DEF Distance
<1>2. CASE ~ (i <= j)
  <2>1. /\ j - i + Modulus \in 0 .. Modulus - 1
        /\ j - i = (-1) * Modulus + (j - i + Modulus)
        /\ j - i \in Int
    BY <1>2, IndexFacts DEF Index
  <2>2. QED
    BY <1>2, <2>1, IndexFacts, Remainder DEF Distance
<1>3. QED
  BY <1>1, <1>2

LEMMA AddIs ==
  ASSUME NEW i \in Index, NEW n \in 0 .. Modulus
  PROVE  Add(i, n) = IF i + n < Modulus THEN i + n ELSE i + n - Modulus
<1>1. CASE i + n < Modulus
  <2>1. i + n \in 0 .. Modulus - 1 /\ i + n = 0 * Modulus + (i + n)
    BY <1>1, IndexFacts DEF Index
  <2>2. QED
    BY <1>1, <2>1, IndexFacts, Remainder DEF Add
<1>2. CASE ~ (i + n < Modulus)
  <2> DEFINE r == i + n - Modulus
  <2>1. r \in 0 .. Modulus - 1 /\ i + n = 1 * Modulus + r /\ i + n \in Int
    BY <1>2, IndexFacts DEF Index
  <2> HIDE DEF r
  <2>2. (i + n) % Modulus = r
    BY <2>1, IndexFacts, Remainder
  <2>3. QED
    BY <1>2, <2>2 DEF Add, r
<1>3. QED
  BY <1>1, <1>2

LEMMA DistanceRange ==
  ASSUME NEW i \in Index, NEW j \in Index
  PROVE  Distance(i, j) \in 0 .. Modulus - 1
  BY IndexFacts, DistanceIs DEF Index

LEMMA DistanceFacts ==
  ASSUME NEW i \in Index, NEW j \in Index
  PROVE  /\ Distance(i, j) \in 0 .. Modulus - 1
         /\ Distance(i, j) = 0 <=> i = j
         /\ Add(i, 1) \in Index
         /\ i # j => Distance(Add(i, 1), j) = Distance(i, j) - 1
  BY SMTT(60), IndexFacts, DistanceIs, AddIs DEF Index

LEMMA DistanceAdd ==
  ASSUME NEW i \in Index, NEW j \in Index, NEW n \in Nat,
         Distance(i, j) + n < Modulus
  PROVE  /\ Add(j, n) \in Index
         /\ Distance(i, Add(j, n)) = Distance(i, j) + n
<1>1. n \in 0 .. Modulus
  BY IndexFacts, DistanceRange
<1>2. Add(j, n) = IF j + n < Modulus THEN j + n ELSE j + n - Modulus
  BY <1>1, AddIs
<1>3. Add(j, n) \in Index
  BY <1>1, <1>2, IndexFacts DEF Index
<1>4. /\ Distance(i, j) = IF i <= j THEN j - i ELSE j - i + Modulus
      /\ Distance(i, Add(j, n)) = IF i <= Add(j, n)
                                    THEN Add(j, n) - i ELSE Add(j, n) - i + Modulus
  BY <1>3, DistanceIs
<1>5. QED
  BY <1>1, <1>2, <1>3, <1>4, IndexFacts DEF Index

(* The index before the last increment.                                    *)
LEMMA Before ==
  ASSUME NEW i \in Index
  PROVE  Add(Add(i, 1), -1) = i
<1>1. Add(i, 1) - 1 \in Int
  BY IndexFacts, AddIs DEF Index
<1>2. CASE i + 1 < Modulus
  <2>1. Add(i, 1) + (-1) = 0 * Modulus + i
    BY <1>2, IndexFacts, AddIs DEF Index
  <2>2. QED
    BY <1>1, <2>1, IndexFacts, Remainder DEF Add, Index
<1>3. CASE i + 1 = Modulus
  <2>1. Add(i, 1) = 0
    BY <1>3, IndexFacts, AddIs DEF Index
  <2>2. Add(i, 1) + (-1) = (-1) * Modulus + i
    BY <1>3, <2>1, IndexFacts DEF Index
  <2>3. QED
    BY <1>1, <2>2, IndexFacts, Remainder DEF Add, Index
<1>4. QED
  BY <1>2, <1>3, IndexFacts DEF Index

(* vring_need_event() for indices of the same ring.                        *)
LEMMA NeedEventIs ==
  ASSUME NEW e \in Index, NEW new \in Index, NEW old \in Index, e # new
  PROVE  NeedEvent(e, new, old) <=> Distance(e, new) <= Distance(old, new)
<1>1. Distance(e + 1, new) = Distance(Add(e, 1), new)
  <2>1. CASE e + 1 < Modulus
    BY <2>1, IndexFacts, AddIs DEF Index
  <2>2. CASE e + 1 = Modulus
    <3>1. Add(e, 1) = 0
      BY <2>2, IndexFacts, AddIs DEF Index
    <3>2. new - Modulus = (-1) * Modulus + new /\ new = 0 * Modulus + new
      BY IndexFacts DEF Index
    <3>3. (new - Modulus) % Modulus = new /\ new % Modulus = new
      BY <3>2, IndexFacts, Remainder DEF Index
    <3>4. QED
      BY <2>2, <3>1, <3>3 DEF Distance, Index
  <2>3. QED
    BY <2>1, <2>2, IndexFacts DEF Index
<1>2. Distance(Add(e, 1), new) = Distance(e, new) - 1
  BY DistanceFacts
<1>3. Distance(e, new) \in Int /\ Distance(old, new) \in Int
  BY DistanceRange
<1>4. QED
  BY <1>1, <1>2, <1>3 DEF NeedEvent

LEMMA SlotTyped ==
  ASSUME NEW i \in Int
  PROVE  SlotOf(i) \in Buf
  BY IndexFacts, Quotient DEF SlotOf, Buf

(* Two entries fewer than Num apart have different slots.                  *)
LEMMA SlotsDiffer ==
  ASSUME NEW i \in Int, NEW j \in Nat, NEW k \in Nat, j < Num, k < Num, j # k
  PROVE  SlotOf(i + j) # SlotOf(i + k)
<1>1. /\ i + j \in Int
      /\ i + k \in Int
      /\ (i + k) - (i + j) = k - j
      /\ (i + j) - (i + k) = j - k
  OBVIOUS
<1>2. CASE j < k
  <2>1. i + j < i + k /\ (i + k) - (i + j) < Num
    BY <1>2, IndexFacts
  <2>2. QED
    BY <1>1, <2>1, IndexFacts, RemaindersDiffer DEF SlotOf
<1>3. CASE k < j
  <2>1. i + k < i + j /\ (i + j) - (i + k) < Num
    BY <1>3, IndexFacts
  <2>2. QED
    BY <1>1, <2>1, IndexFacts, RemaindersDiffer DEF SlotOf
<1>4. QED
  BY <1>2, <1>3

LEMMA SlotOfAdd ==
  ASSUME NEW i \in Index, NEW n \in Int, NEW k \in Int
  PROVE  /\ SlotOf(Add(i, n) + k) = SlotOf(i + n + k)
         /\ SlotOf(Add(i, n)) = SlotOf(i + n)
<1>1. i + n \in Int
  BY DEF Index
<1>2. QED
  BY <1>1, IndexFacts, RemainderOfRemainder DEF SlotOf, Add

(* An index is as many steps on as its distance.                           *)
LEMMA AddDistance ==
  ASSUME NEW i \in Index, NEW j \in Index
  PROVE  Add(i, Distance(i, j)) = j
<1>1. Distance(i, j) \in 0 .. Modulus
  BY IndexFacts, DistanceRange
<1>2. QED
  BY <1>1, IndexFacts, DistanceIs, AddIs DEF Index

LEMMA SlotAt ==
  ASSUME NEW i \in Index, NEW j \in Index, NEW k \in Int
  PROVE  /\ SlotOf(j + k) = SlotOf(i + Distance(i, j) + k)
         /\ SlotOf(j) = SlotOf(i + Distance(i, j))
<1>1. Distance(i, j) \in Int
  BY DistanceFacts
<1>2. QED
  BY <1>1, AddDistance, SlotOfAdd

-----------------------------------------------------------------------------
(* The rings.                                                              *)

(* Writing the entry after the last adds one head.                         *)
LEMMA WindowGrows ==
  ASSUME NEW r \in [Buf -> Buf], NEW i \in Index, NEW n \in Nat, n < Num,
         NEW h \in Buf, Distinct(r, i, n), h \notin Window(r, i, n)
  PROVE  /\ Window([r EXCEPT ![SlotOf(i + n)] = h], i, n + 1) = Window(r, i, n) \cup {h}
         /\ Distinct([r EXCEPT ![SlotOf(i + n)] = h], i, n + 1)
<1> DEFINE rr == [r EXCEPT ![SlotOf(i + n)] = h]
<1>1. i \in Int /\ \A k \in Nat : i + k \in Int
  BY IndexFacts DEF Index
<1>2. \A k \in 0 .. n - 1 : rr[SlotOf(i + k)] = r[SlotOf(i + k)]
  <2> SUFFICES ASSUME NEW k \in 0 .. n - 1 PROVE rr[SlotOf(i + k)] = r[SlotOf(i + k)]
    OBVIOUS
  <2>1. k \in Nat /\ k < Num /\ k # n
    BY IndexFacts
  <2>2. SlotOf(i + k) # SlotOf(i + n)
    BY <1>1, <2>1, SlotsDiffer
  <2>3. SlotOf(i + k) \in Buf
    BY <1>1, <2>1, SlotTyped
  <2>4. QED
    BY <2>2, <2>3
<1>3. rr[SlotOf(i + n)] = h
  BY <1>1, SlotTyped
<1> HIDE DEF rr
<1>4. 0 .. (n + 1) - 1 = (0 .. n - 1) \cup {n}
  OBVIOUS
<1>5. Window(rr, i, n + 1) = {rr[SlotOf(i + k)] : k \in 0 .. n - 1} \cup {h}
  BY <1>3, <1>4 DEF Window
<1>6. {rr[SlotOf(i + k)] : k \in 0 .. n - 1} = Window(r, i, n)
  BY <1>2 DEF Window
<1>7. Distinct(rr, i, n + 1)
  <2> SUFFICES ASSUME NEW j \in 0 .. (n + 1) - 1, NEW k \in 0 .. (n + 1) - 1,
                      rr[SlotOf(i + j)] = rr[SlotOf(i + k)]
               PROVE  j = k
    BY DEF Distinct
  <2>1. \A l \in 0 .. n - 1 : r[SlotOf(i + l)] # h
    BY DEF Window
  <2>2. QED
    BY <1>2, <1>3, <1>4, <2>1 DEF Distinct
<1>8. QED
  BY <1>5, <1>6, <1>7 DEF rr

(* Stepping over the first entry takes one head away.                      *)
LEMMA WindowShrinks ==
  ASSUME NEW r \in [Buf -> Buf], NEW i \in Index, NEW n \in Nat \ {0},
         Distinct(r, i, n)
  PROVE  /\ r[SlotOf(i)] \in Window(r, i, n)
         /\ Window(r, Add(i, 1), n - 1) = Window(r, i, n) \ {r[SlotOf(i)]}
         /\ Distinct(r, Add(i, 1), n - 1)
<1>1. i \in Int /\ i + 0 = i
  BY IndexFacts DEF Index
<1>2. \A k \in 0 .. n - 2 : r[SlotOf(Add(i, 1) + k)] = r[SlotOf(i + (k + 1))]
  <2> SUFFICES ASSUME NEW k \in 0 .. n - 2
               PROVE  SlotOf(Add(i, 1) + k) = SlotOf(i + (k + 1))
    OBVIOUS
  <2>1. SlotOf(Add(i, 1) + k) = SlotOf(i + 1 + k)
    BY SlotOfAdd
  <2>2. i + 1 + k = i + (k + 1)
    BY <1>1
  <2>3. QED
    BY <2>1, <2>2
<1>3. 0 \in 0 .. n - 1 /\ \A k \in 0 .. n - 2 : k + 1 \in 0 .. n - 1 /\ k + 1 # 0
  OBVIOUS
<1>4. r[SlotOf(i)] \in Window(r, i, n)
  BY <1>1, <1>3 DEF Window
<1>5. \A k \in 0 .. n - 2 : r[SlotOf(i + (k + 1))] # r[SlotOf(i)]
  BY <1>1, <1>3 DEF Distinct
<1>6. \A k \in 0 .. n - 1 : k = 0 \/ (k - 1 \in 0 .. n - 2 /\ (k - 1) + 1 = k)
  OBVIOUS
<1>7. (n - 1) - 1 = n - 2
  OBVIOUS
<1>8. Window(r, Add(i, 1), n - 1) = {r[SlotOf(i + (k + 1))] : k \in 0 .. n - 2}
  BY <1>2, <1>7 DEF Window
<1>9. {r[SlotOf(i + (k + 1))] : k \in 0 .. n - 2} = Window(r, i, n) \ {r[SlotOf(i)]}
  <2>1. ASSUME NEW x \in {r[SlotOf(i + (k + 1))] : k \in 0 .. n - 2}
        PROVE  x \in Window(r, i, n) \ {r[SlotOf(i)]}
    BY <1>3, <1>5 DEF Window
  <2>2. ASSUME NEW x \in Window(r, i, n) \ {r[SlotOf(i)]}
        PROVE  x \in {r[SlotOf(i + (k + 1))] : k \in 0 .. n - 2}
    <3>1. PICK k \in 0 .. n - 1 : x = r[SlotOf(i + k)]
      BY DEF Window
    <3>2. k # 0
      BY <1>1, <3>1
    <3>3. QED
      BY <1>6, <3>1, <3>2
  <2>3. QED
    BY <2>1, <2>2
<1>10. Distinct(r, Add(i, 1), n - 1)
  <2> SUFFICES ASSUME NEW j \in 0 .. n - 2, NEW k \in 0 .. n - 2,
                      r[SlotOf(i + (j + 1))] = r[SlotOf(i + (k + 1))]
               PROVE  j = k
    BY <1>2, <1>7 DEF Distinct
  <2>1. j + 1 = k + 1
    BY <1>3 DEF Distinct
  <2>2. QED
    BY <2>1
<1>11. QED
  BY <1>4, <1>8, <1>9, <1>10

(* An entry past the last is in another slot.                              *)
LEMMA PastWindow ==
  ASSUME NEW i \in Index, NEW n \in Nat, NEW d \in Nat, n <= d, d < Num,
         NEW k \in 0 .. n - 1
  PROVE  SlotOf(i + k) # SlotOf(i + d) /\ SlotOf(i + k) \in Buf
<1>1. i \in Int /\ i + k \in Int /\ k \in Nat /\ k < Num /\ k # d
  BY IndexFacts DEF Index
<1>2. QED
  BY <1>1, SlotsDiffer, SlotTyped

(* Publishing the entries of a packet adds its heads.                      *)
LEMMA WindowExtends ==
  ASSUME NEW r \in [Buf -> Buf], NEW i \in Index, NEW n \in Nat, NEW t \in Seq(Buf),
         \A k \in 1 .. Len(t) : r[SlotOf(i + n + (k - 1))] = t[k],
         \A j, k \in 1 .. Len(t) : t[j] = t[k] => j = k,
         Distinct(r, i, n),
         Window(r, i, n) \cap {t[k] : k \in 1 .. Len(t)} = {}
  PROVE  /\ Window(r, i, n + Len(t))
              = Window(r, i, n) \cup {t[k] : k \in 1 .. Len(t)}
         /\ Distinct(r, i, n + Len(t))
<1>1. Len(t) \in Nat /\ i \in Int
  BY IndexFacts DEF Index
<1>2. \A k \in 0 .. (n + Len(t)) - 1 :
        k \in 0 .. n - 1 \/ (k - n + 1 \in 1 .. Len(t) /\ i + n + ((k - n + 1) - 1) = i + k)
  BY <1>1
<1>3. \A k \in 1 .. Len(t) :
        n + (k - 1) \in 0 .. (n + Len(t)) - 1 /\ i + (n + (k - 1)) = i + n + (k - 1)
  BY <1>1
<1>4. \A k \in 0 .. n - 1 : k \in 0 .. (n + Len(t)) - 1
  BY <1>1
<1>5. \A k \in 0 .. (n + Len(t)) - 1 :
        k \notin 0 .. n - 1 => r[SlotOf(i + k)] = t[k - n + 1]
  BY <1>2
<1>6. Window(r, i, n + Len(t))
        = Window(r, i, n) \cup {t[k] : k \in 1 .. Len(t)}
  <2>1. ASSUME NEW x \in Window(r, i, n + Len(t))
        PROVE  x \in Window(r, i, n) \cup {t[k] : k \in 1 .. Len(t)}
    BY SMTT(60), <1>2, <1>5 DEF Window
  <2>2. ASSUME NEW x \in Window(r, i, n) PROVE x \in Window(r, i, n + Len(t))
    BY <1>4 DEF Window
  <2>3. ASSUME NEW k \in 1 .. Len(t) PROVE t[k] \in Window(r, i, n + Len(t))
    BY SMTT(60), <1>3 DEF Window
  <2>4. QED
    BY <2>1, <2>2, <2>3
<1>7. Distinct(r, i, n + Len(t))
  <2> SUFFICES ASSUME NEW j \in 0 .. (n + Len(t)) - 1, NEW k \in 0 .. (n + Len(t)) - 1,
                      r[SlotOf(i + j)] = r[SlotOf(i + k)]
               PROVE  j = k
    BY DEF Distinct
  <2>a. \A l \in 0 .. n - 1 : r[SlotOf(i + l)] \in Window(r, i, n)
    BY DEF Window
  <2>b. \A l \in 0 .. (n + Len(t)) - 1 :
          l \notin 0 .. n - 1 => r[SlotOf(i + l)] \in {t[m] : m \in 1 .. Len(t)}
    BY <1>2, <1>5
  <2>1. CASE j \in 0 .. n - 1 /\ k \in 0 .. n - 1
    BY <2>1 DEF Distinct
  <2>2. CASE j \in 0 .. n - 1 /\ k \notin 0 .. n - 1
    BY <2>a, <2>b, <2>2
  <2>3. CASE j \notin 0 .. n - 1 /\ k \in 0 .. n - 1
    BY <2>a, <2>b, <2>3
  <2>4. CASE j \notin 0 .. n - 1 /\ k \notin 0 .. n - 1
    <3>1. /\ j - n + 1 \in 1 .. Len(t) /\ k - n + 1 \in 1 .. Len(t)
          /\ t[j - n + 1] = r[SlotOf(i + j)] /\ t[k - n + 1] = r[SlotOf(i + k)]
      BY <1>2, <1>5, <2>4
    <3>2. j - n + 1 = k - n + 1
      BY <3>1
    <3>3. QED
      BY <1>1, <3>2
  <2>5. QED
    BY <2>1, <2>2, <2>3, <2>4
<1>8. QED
  BY <1>6, <1>7

-----------------------------------------------------------------------------
(* The steps preserve the inductive invariant, one part at a time.         *)

LEMMA CountFacts ==
  ASSUME TypeOK, Owned
  PROVE  /\ IsFiniteSet(free)
         /\ Cardinality(free) \in Nat
         /\ Available \in 0 .. Modulus - 1
         /\ Unreaped \in 0 .. Modulus - 1
         /\ Len(taken) \in Nat
         /\ Cardinality(free) + Available + Len(taken) + Unreaped = Num
         /\ Avail = Window(avail_ring, last_avail_idx, Available)
         /\ Used = Window(used_ring, last_used, Unreaped)
<1>1. IsFiniteSet(Buf)
  BY IndexFacts, FS_Interval DEF Buf
<1>2. IsFiniteSet(free) /\ Cardinality(free) \in Nat
  BY <1>1, FS_Subset, FS_CardinalityType DEF TypeOK
<1>3. Available \in 0 .. Modulus - 1 /\ Unreaped \in 0 .. Modulus - 1
  BY DistanceRange DEF TypeOK, Available, Unreaped
<1>4. Len(taken) \in Nat
  BY DEF TypeOK
<1>5. /\ Avail = Window(avail_ring, last_avail_idx, Available)
      /\ Used = Window(used_ring, last_used, Unreaped)
  BY DEF Avail, Used, Window, Available, Unreaped
<1>6. QED
  BY <1>2, <1>3, <1>4, <1>5 DEF Owned

(* All steps but five leave the descriptors with their owners.             *)
Unmoved == UNCHANGED <<ring, last_avail_idx, taken, free, last_used>>

LEMMA DescriptorsMove ==
  [Next]_vars =>
    Unmoved \/ GetIovTake \/ AddUsedElem \/ UpdateUsedIdx \/ Publish \/ Reap
  BY DEF Next, Device, Driver, Completion, Unmoved, ring, events, device, driver,
         vars, GetIovEmpty, WakeUp, GetIovSetEvent, NotifyCheck, InterruptFront,
         KickCheck, Arm, Recheck, Interrupted

(* Where virtio_queue_add_used_elem() writes the last buffer of a packet.  *)
LEMMA StagedSlot ==
  ASSUME NEW i \in Index, NEW j \in Index, NEW n \in Nat
  PROVE  /\ SlotOf(Add(j, n - 1)) = SlotOf(j + (n - 1))
         /\ SlotOf(Add(j, n - 1)) = SlotOf(i + (Distance(i, j) + (n - 1)))
<1>1. /\ Distance(i, j) \in Int /\ n - 1 \in Int
      /\ i \in Int /\ j \in Int
  BY DistanceRange DEF Index
<1>2. SlotOf(Add(j, n - 1)) = SlotOf(j + (n - 1))
  BY <1>1, SlotOfAdd
<1>3. SlotOf(j + (n - 1)) = SlotOf(i + Distance(i, j) + (n - 1))
  BY <1>1, SlotAt
<1>4. i + Distance(i, j) + (n - 1) = i + (Distance(i, j) + (n - 1))
  BY <1>1
<1>5. QED
  BY <1>2, <1>3, <1>4

(* Every step moves descriptors from one owner to one other.               *)
LEMMA NextOwned == IInv /\ [Next]_vars => Owned'
<1> SUFFICES ASSUME IInv, [Next]_vars PROVE Owned'
  OBVIOUS
<1> USE DEF ring, events, device, driver
<1>a. /\ TypeOK
      /\ avail_idx \in Index /\ used_idx \in Index
      /\ last_avail_idx \in Index /\ last_used \in Index
      /\ avail_ring \in [Buf -> Buf] /\ used_ring \in [Buf -> Buf]
      /\ taken \in Seq(Buf)
      /\ free \subseteq Buf
  BY DEF IInv, TypeOK
<1>b. /\ IsFiniteSet(free)
      /\ Cardinality(free) \in Nat
      /\ Available \in 0 .. Modulus - 1
      /\ Unreaped \in 0 .. Modulus - 1
      /\ Len(taken) \in Nat
      /\ Cardinality(free) + Available + Len(taken) + Unreaped = Num
      /\ Avail = Window(avail_ring, last_avail_idx, Available)
      /\ Used = Window(used_ring, last_used, Unreaped)
  BY CountFacts DEF IInv
<1>c. Owned
  BY DEF IInv
<1>d. /\ Avail' = Window(avail_ring', last_avail_idx', Available')
      /\ Used' = Window(used_ring', last_used', Unreaped')
  BY DEF Avail, Used, Window, Available, Unreaped
<1> USE IndexFacts
<1>1. CASE GetIovTake
  <2> DEFINE x == avail_ring[SlotOf(last_avail_idx)]
  <2>1. /\ avail_idx # last_avail_idx
        /\ taken' = Append(taken, x)
        /\ last_avail_idx' = Add(last_avail_idx, 1)
        /\ UNCHANGED <<avail_idx, avail_ring, used_idx, used_ring, free, last_used>>
    BY <1>1 DEF GetIovTake
  <2>2. x \in Buf
    BY <1>a, SlotTyped DEF Index
  <2>3. Available # 0 /\ Available' = Available - 1
    BY <1>a, <2>1, DistanceFacts DEF Available
  <2>4. /\ x \in Avail
        /\ Avail' = Avail \ {x}
        /\ Distinct(avail_ring', last_avail_idx', Available')
    <3>1. Distinct(avail_ring, last_avail_idx, Available) /\ Available \in Nat \ {0}
      BY <1>b, <1>c, <2>3 DEF Owned
    <3>2. /\ x \in Window(avail_ring, last_avail_idx, Available)
          /\ Window(avail_ring, Add(last_avail_idx, 1), Available - 1)
               = Window(avail_ring, last_avail_idx, Available) \ {x}
          /\ Distinct(avail_ring, Add(last_avail_idx, 1), Available - 1)
      BY <1>a, <3>1, WindowShrinks
    <3>3. QED
      BY <1>b, <1>d, <2>1, <2>3, <3>2
  <2> HIDE DEF x
  <2>5. /\ Len(taken') = Len(taken) + 1
        /\ \A k \in 1 .. Len(taken) : taken'[k] = taken[k]
        /\ taken'[Len(taken) + 1] = x
    BY <1>a, <2>1, <2>2
  <2>6. Taken' = Taken \cup {x}
    <3>1. 1 .. Len(taken') = 1 .. Len(taken) \cup {Len(taken) + 1}
      BY <1>b, <2>5
    <3>2. QED
      BY <2>5, <3>1 DEF Taken
  <2>7. \A j, k \in 1 .. Len(taken') : taken'[j] = taken'[k] => j = k
    <3>1. \A k \in 1 .. Len(taken) : taken[k] # x
      BY <1>c, <2>4 DEF Owned, Taken
    <3>2. \A k \in 1 .. Len(taken') : k \in 1 .. Len(taken) \/ k = Len(taken) + 1
      BY <1>b, <2>5
    <3>3. QED
      BY <1>c, <2>5, <3>1, <3>2 DEF Owned
  <2>8. Used' = Used /\ Unreaped' = Unreaped
    BY <2>1 DEF Used, Unreaped
  <2>9. /\ Cardinality(free)' + Available' + Len(taken)' + Unreaped' = Num
        /\ Distinct(used_ring, last_used, Unreaped)'
    BY <1>b, <1>c, <2>1, <2>3, <2>5, <2>8 DEF Owned, Distinct
  <2>10. QED
    BY <1>c, <2>1, <2>4, <2>6, <2>7, <2>8, <2>9 DEF Owned
<1>2. CASE AddUsedElem
  <2> DEFINE d == Unreaped + (Len(taken) - 1)
  <2>1. /\ dpc = "fill"
        /\ used_ring' = [used_ring EXCEPT
             ![SlotOf(Add(used_idx, Len(taken) - 1))] = taken[Len(taken)]]
        /\ UNCHANGED <<avail_idx, avail_ring, used_idx, last_avail_idx, taken,
                       free, last_used>>
    BY <1>2 DEF AddUsedElem
  <2>2. Len(taken) > 0
    BY <1>b, <2>1 DEF IInv, Staged
  <2>3. d \in Nat /\ Unreaped <= d /\ d < Num
    BY <1>b, <2>2
  <2>4. SlotOf(Add(used_idx, Len(taken) - 1)) = SlotOf(last_used + d)
    BY <1>a, <1>b, StagedSlot DEF Unreaped
  <2> HIDE DEF d
  <2>5. \A k \in 0 .. Unreaped - 1 :
          used_ring'[SlotOf(last_used + k)] = used_ring[SlotOf(last_used + k)]
    <3>1. used_ring' = [used_ring EXCEPT ![SlotOf(last_used + d)] = taken[Len(taken)]]
      BY <2>1, <2>4
    <3>2. Unreaped \in Nat
      BY <1>b
    <3>3. \A k \in 0 .. Unreaped - 1 :
            SlotOf(last_used + k) # SlotOf(last_used + d) /\ SlotOf(last_used + k) \in Buf
      BY <1>a, <2>3, <3>2, PastWindow
    <3>4. QED
      BY <1>a, <3>1, <3>3
  <2>6. Unreaped' = Unreaped
    BY <2>1 DEF Unreaped
  <2>7. Used' = Used
    BY <1>b, <1>d, <2>1, <2>5, <2>6 DEF Window
  <2>8. Distinct(used_ring, last_used, Unreaped)'
    BY <1>c, <2>1, <2>5, <2>6 DEF Owned, Distinct
  <2>9. /\ Avail' = Avail /\ Available' = Available /\ Taken' = Taken
        /\ Distinct(avail_ring, last_avail_idx, Available)'
    BY <1>c, <2>1 DEF Avail, Available, Taken, Owned, Distinct
  <2>10. QED
    BY <1>c, <2>1, <2>6, <2>7, <2>8, <2>9 DEF Owned
<1>3. CASE UpdateUsedIdx
  <2>1. /\ dpc = "publish"
        /\ used_idx' = Add(used_idx, Len(taken))
        /\ taken' = << >>
        /\ UNCHANGED <<avail_idx, avail_ring, used_ring, last_avail_idx, free, last_used>>
    BY <1>3 DEF UpdateUsedIdx
  <2>2. Unreaped' = Unreaped + Len(taken)
    <3>1. Unreaped + Len(taken) < Modulus
      BY <1>b
    <3>2. Distance(last_used, Add(used_idx, Len(taken)))
            = Distance(last_used, used_idx) + Len(taken)
      BY <1>a, <1>b, <3>1, DistanceAdd DEF Unreaped
    <3>3. QED
      BY <2>1, <3>2 DEF Unreaped
  <2>3. \A k \in 1 .. Len(taken) :
          used_ring[SlotOf(last_used + Unreaped + (k - 1))] = taken[k]
    <3>1. \A k \in 1 .. Len(taken) : used_ring[SlotOf(used_idx + (k - 1))] = taken[k]
      BY <2>1 DEF IInv, Staged, Filled
    <3>2. \A k \in 1 .. Len(taken) :
            SlotOf(used_idx + (k - 1)) = SlotOf(last_used + Unreaped + (k - 1))
      BY <1>a, SlotAt DEF Unreaped
    <3>3. QED
      BY <3>1, <3>2
  <2>4. /\ Used' = Used \cup Taken
        /\ Distinct(used_ring', last_used', Unreaped')
    <3>1. Window(used_ring, last_used, Unreaped) \cap {taken[k] : k \in 1 .. Len(taken)} = {}
      BY <1>b, <1>c DEF Owned, Taken
    <3>2. \A j, k \in 1 .. Len(taken) : taken[j] = taken[k] => j = k
      BY <1>c DEF Owned
    <3>3. Distinct(used_ring, last_used, Unreaped) /\ Unreaped \in Nat
      BY <1>b, <1>c DEF Owned
    <3>4. /\ Window(used_ring, last_used, Unreaped + Len(taken))
               = Window(used_ring, last_used, Unreaped) \cup {taken[k] : k \in 1 .. Len(taken)}
          /\ Distinct(used_ring, last_used, Unreaped + Len(taken))
      BY <1>a, <2>3, <3>1, <3>2, <3>3, WindowExtends
    <3>5. QED
      BY <1>b, <1>d, <2>1, <2>2, <3>4 DEF Taken
  <2>5. Taken' = {} /\ Len(taken') = 0
    BY <2>1 DEF Taken
  <2>6. Avail' = Avail /\ Available' = Available
    BY <2>1 DEF Avail, Available
  <2>7. /\ Cardinality(free)' + Available' + Len(taken)' + Unreaped' = Num
        /\ Distinct(avail_ring, last_avail_idx, Available)'
    BY <1>b, <1>c, <2>1, <2>2, <2>5, <2>6 DEF Owned, Distinct
  <2>8. \A j, k \in 1 .. Len(taken') : taken'[j] = taken'[k] => j = k
    BY <2>5
  <2>9. QED
    BY <1>c, <2>1, <2>4, <2>5, <2>6, <2>7, <2>8 DEF Owned
<1>4. CASE Publish
  <2>1. PICK h \in free :
          /\ free' = free \ {h}
          /\ avail_ring' = [avail_ring EXCEPT ![SlotOf(avail_idx)] = h]
    BY <1>4 DEF Publish
  <2>2. /\ avail_idx' = Add(avail_idx, 1)
        /\ UNCHANGED <<used_idx, used_ring, last_avail_idx, taken, last_used>>
    BY <1>4 DEF Publish
  <2>3. Cardinality(free') = Cardinality(free) - 1 /\ Cardinality(free) > 0
    BY <1>b, <2>1, FS_RemoveElement, FS_EmptySet
  <2>4. Available + 1 < Modulus /\ Available < Num
    BY <1>b, <2>3
  <2>5. Available' = Available + 1
    BY <1>a, <2>2, <2>4, DistanceAdd DEF Available
  <2>6. SlotOf(avail_idx) = SlotOf(last_avail_idx + Available)
    <3>1. 0 \in Int
      OBVIOUS
    <3>2. QED
      BY <1>a, <3>1, SlotAt DEF Available
  <2>7. h \notin Avail /\ h \in Buf
    BY <1>a, <1>c, <2>1 DEF Owned
  <2>8. /\ Avail' = Avail \cup {h}
        /\ Distinct(avail_ring', last_avail_idx', Available')
    <3> DEFINE r == [avail_ring EXCEPT ![SlotOf(last_avail_idx + Available)] = h]
    <3>1. avail_ring' = r
      BY <2>1, <2>6
    <3>2. /\ Distinct(avail_ring, last_avail_idx, Available)
          /\ h \notin Window(avail_ring, last_avail_idx, Available)
          /\ Available \in Nat
      BY <1>b, <1>c, <2>7 DEF Owned
    <3>3. /\ Window(r, last_avail_idx, Available + 1)
               = Window(avail_ring, last_avail_idx, Available) \cup {h}
          /\ Distinct(r, last_avail_idx, Available + 1)
      BY <1>a, <2>4, <2>7, <3>2, WindowGrows
    <3> HIDE DEF r
    <3>4. QED
      BY <1>b, <1>d, <2>2, <2>5, <3>1, <3>3
  <2>9. Used' = Used /\ Unreaped' = Unreaped /\ Taken' = Taken
    BY <2>2 DEF Used, Unreaped, Taken
  <2>10. /\ Cardinality(free)' + Available' + Len(taken)' + Unreaped' = Num
         /\ Distinct(used_ring, last_used, Unreaped)'
         /\ \A j, k \in 1 .. Len(taken') : taken'[j] = taken'[k] => j = k
    BY <1>b, <1>c, <2>2, <2>3, <2>5, <2>9 DEF Owned, Distinct
  <2>11. QED
    BY <1>c, <2>1, <2>8, <2>9, <2>10 DEF Owned
<1>5. CASE Reap
  <2> DEFINE x == used_ring[SlotOf(last_used)]
  <2>1. /\ used_idx # last_used
        /\ free' = free \cup {x}
        /\ last_used' = Add(last_used, 1)
        /\ UNCHANGED <<avail_idx, avail_ring, used_idx, used_ring, last_avail_idx, taken>>
    BY <1>5 DEF Reap
  <2>2. Unreaped # 0 /\ Unreaped' = Unreaped - 1
    BY <1>a, <2>1, DistanceFacts DEF Unreaped
  <2>3. /\ x \in Used
        /\ Used' = Used \ {x}
        /\ Distinct(used_ring', last_used', Unreaped')
    <3>1. Distinct(used_ring, last_used, Unreaped) /\ Unreaped \in Nat \ {0}
      BY <1>b, <1>c, <2>2 DEF Owned
    <3>2. /\ x \in Window(used_ring, last_used, Unreaped)
          /\ Window(used_ring, Add(last_used, 1), Unreaped - 1)
               = Window(used_ring, last_used, Unreaped) \ {x}
          /\ Distinct(used_ring, Add(last_used, 1), Unreaped - 1)
      BY <1>a, <3>1, WindowShrinks
    <3>3. QED
      BY <1>b, <1>d, <2>1, <2>2, <3>2
  <2> HIDE DEF x
  <2>4. Cardinality(free') = Cardinality(free) + 1
    BY <1>b, <1>c, <2>1, <2>3, FS_AddElement DEF Owned
  <2>5. Avail' = Avail /\ Available' = Available /\ Taken' = Taken
    BY <2>1 DEF Avail, Available, Taken
  <2>6. /\ Cardinality(free)' + Available' + Len(taken)' + Unreaped' = Num
        /\ Distinct(avail_ring, last_avail_idx, Available)'
        /\ \A j, k \in 1 .. Len(taken') : taken'[j] = taken'[k] => j = k
    BY <1>b, <1>c, <2>1, <2>2, <2>4, <2>5 DEF Owned, Distinct
  <2>7. QED
    BY <1>c, <2>1, <2>3, <2>5, <2>6 DEF Owned
<1>6. CASE Unmoved
  <2>1. /\ Avail' = Avail /\ Available' = Available
        /\ Used' = Used /\ Unreaped' = Unreaped
        /\ Taken' = Taken
    BY <1>6 DEF Unmoved, Avail, Available, Used, Unreaped, Taken
  <2>2. QED
    BY <1>c, <2>1, <1>6 DEF Unmoved, Owned, Distinct
<1>7. QED
  BY <1>1, <1>2, <1>3, <1>4, <1>5, <1>6, DescriptorsMove

(* The heads of the packet in work stand past the published entries.       *)
LEMMA NextStaged == IInv /\ [Next]_vars => Staged'
<1> SUFFICES ASSUME IInv, [Next]_vars PROVE Staged'
  OBVIOUS
<1> USE DEF ring, events, device, driver
<1>a. /\ TypeOK /\ used_idx \in Index /\ taken \in Seq(Buf) /\ Len(taken) \in Nat
      /\ used_ring \in [Buf -> Buf]
  BY DEF IInv, TypeOK
<1>b. Staged
  BY DEF IInv
<1>c. /\ Available \in Nat /\ Unreaped \in Nat /\ Cardinality(free) \in Nat
      /\ Cardinality(free) + Available + Len(taken) + Unreaped = Num
  BY CountFacts, IndexFacts DEF IInv
<1>1. CASE GetIovEmpty
  BY <1>b, <1>1 DEF GetIovEmpty, Staged, Filled
<1>2. CASE WakeUp
  BY <1>b, <1>2 DEF WakeUp, Staged, Filled
<1>3. CASE GetIovTake
  <2>1. /\ dpc = "poll" /\ dpc' \in {"event", "fill"}
        /\ taken' = Append(taken, avail_ring[SlotOf(last_avail_idx)])
        /\ UNCHANGED <<used_idx, used_ring>>
    BY <1>3 DEF GetIovTake
  <2>2. Len(taken') = Len(taken) + 1 /\ \A k \in 1 .. Len(taken) : taken'[k] = taken[k]
    BY <1>a, <2>1
  <2>3. Filled = Len(taken) /\ Filled' = Len(taken)
    BY <1>a, <2>1, <2>2 DEF Filled
  <2>4. QED
    BY <1>a, <1>b, <2>1, <2>2, <2>3 DEF Staged
<1>4. CASE GetIovSetEvent
  BY <1>b, <1>4 DEF GetIovSetEvent, Staged, Filled
<1>5. CASE AddUsedElem
  <2>1. /\ dpc = "fill" /\ dpc' \notin {"event", "fill"}
        /\ used_ring' = [used_ring EXCEPT
             ![SlotOf(Add(used_idx, Len(taken) - 1))] = taken[Len(taken)]]
        /\ UNCHANGED <<used_idx, taken>>
    BY <1>5 DEF AddUsedElem
  <2>2. Len(taken) > 0 /\ Len(taken) <= Num
    BY <1>a, <1>b, <1>c, <2>1 DEF Staged
  <2>3. SlotOf(Add(used_idx, Len(taken) - 1)) = SlotOf(used_idx + (Len(taken) - 1))
    BY <1>a, StagedSlot
  <2>4. Filled = Len(taken) - 1 /\ Filled' = Len(taken)
    BY <2>1 DEF Filled
  <2>5. ASSUME NEW k \in 1 .. Len(taken)
        PROVE  used_ring'[SlotOf(used_idx + (k - 1))] = taken[k]
    <3>1. CASE k = Len(taken)
      <4>1. SlotOf(used_idx + (k - 1)) \in Buf
        BY <1>a, SlotTyped DEF Index
      <4>2. QED
        BY <1>a, <2>1, <2>3, <3>1, <4>1
    <3>2. CASE k # Len(taken)
      <4>1. k - 1 \in 0 .. (Len(taken) - 1) - 1 /\ Len(taken) - 1 \in Nat
        BY <1>a, <2>2, <3>2
      <4>2. Len(taken) - 1 < Num
        BY <1>a, <2>2, IndexFacts
      <4>3. /\ SlotOf(used_idx + (k - 1)) # SlotOf(used_idx + (Len(taken) - 1))
            /\ SlotOf(used_idx + (k - 1)) \in Buf
        BY <1>a, <4>1, <4>2, PastWindow
      <4>4. used_ring[SlotOf(used_idx + (k - 1))] = taken[k]
        BY <1>b, <2>4, <4>1 DEF Staged
      <4>5. QED
        BY <1>a, <2>1, <2>3, <4>3, <4>4
    <3>3. QED
      BY <3>1, <3>2
  <2>6. QED
    BY <2>1, <2>4, <2>5 DEF Staged
<1>6. CASE UpdateUsedIdx
  <2>1. taken' = << >> /\ dpc' = "notify"
    BY <1>6 DEF UpdateUsedIdx
  <2>2. Filled' = 0
    BY <2>1 DEF Filled
  <2>3. QED
    BY <2>1, <2>2 DEF Staged
<1>7. CASE NotifyCheck
  BY <1>b, <1>7 DEF NotifyCheck, Staged, Filled
<1>8. CASE InterruptFront
  BY <1>b, <1>8 DEF InterruptFront, Staged, Filled
<1>9. CASE Publish
  BY <1>b, <1>9 DEF Publish, Staged, Filled
<1>10. CASE KickCheck
  BY <1>b, <1>10 DEF KickCheck, Staged, Filled
<1>11. CASE Reap
  BY <1>b, <1>11 DEF Reap, Staged, Filled
<1>12. CASE Arm
  BY <1>b, <1>12 DEF Arm, Staged, Filled
<1>13. CASE Recheck
  BY <1>b, <1>13 DEF Recheck, Staged, Filled
<1>14. CASE Interrupted
  BY <1>b, <1>14 DEF Interrupted, Staged, Filled
<1>15. CASE UNCHANGED vars
  BY <1>b, <1>15 DEF vars, Staged, Filled
<1>16. QED
  BY <1>1, <1>2, <1>3, <1>4, <1>5, <1>6, <1>7, <1>8, <1>9, <1>10, <1>11, <1>12, <1>13, <1>14, <1>15
  DEF Next, Device, Driver, Completion

(* The rings, the indices and the program counters keep their shape.       *)
LEMMA NextTyped == IInv /\ [Next]_vars => TypeOK'
<1> SUFFICES ASSUME IInv, [Next]_vars PROVE TypeOK'
  OBVIOUS
<1> USE DEF ring, events, device, driver
<1>a. TypeOK
  BY DEF IInv
<1>b. /\ \A i \in Index : Add(i, 1) \in Index
      /\ \A i \in Index : SlotOf(i) \in Buf
  BY DistanceFacts, SlotTyped DEF Index
<1>c. /\ Available \in Nat /\ Unreaped \in Nat /\ Cardinality(free) \in Nat
      /\ Len(taken) \in Nat
      /\ Cardinality(free) + Available + Len(taken) + Unreaped = Num
      /\ Unreaped + Len(taken) < Modulus
  BY CountFacts, IndexFacts DEF IInv
<1> USE DEF DPc, RPc
<1>1. CASE GetIovEmpty
  BY <1>a, <1>1 DEF GetIovEmpty, TypeOK
<1>2. CASE WakeUp
  BY <1>a, <1>2 DEF WakeUp, TypeOK
<1>3. CASE GetIovTake
  <2>1. avail_ring[SlotOf(last_avail_idx)] \in Buf
    BY <1>a, <1>b DEF TypeOK
  <2>2. Available # 0
    BY <1>a, <1>3, DistanceFacts DEF GetIovTake, TypeOK, Available
  <2>3. taken' \in Seq(Buf) /\ Len(taken') = Len(taken) + 1
    BY <1>a, <1>3, <2>1 DEF GetIovTake, TypeOK
  <2>4. Len(taken') <= Num
    BY <1>c, <2>2, <2>3
  <2>5. QED
    BY <1>a, <1>b, <1>3, <2>3, <2>4 DEF GetIovTake, TypeOK
<1>4. CASE GetIovSetEvent
  BY <1>a, <1>4 DEF GetIovSetEvent, TypeOK
<1>5. CASE AddUsedElem
  <2>1. Len(taken) > 0
    BY <1>5 DEF AddUsedElem, IInv, Staged
  <2>2. taken[Len(taken)] \in Buf
    BY <1>a, <1>c, <2>1 DEF TypeOK
  <2>3. used_ring' \in [Buf -> Buf]
    BY <1>a, <1>5, <2>2 DEF AddUsedElem, TypeOK
  <2>4. QED
    BY <1>a, <1>5, <2>3 DEF AddUsedElem, TypeOK
<1>6. CASE UpdateUsedIdx
  <2>1. used_idx' \in Index
    BY <1>a, <1>c, <1>6, DistanceAdd DEF UpdateUsedIdx, TypeOK, Unreaped
  <2>2. quiet' \in 0 .. Modulus
    BY <1>a, <1>c, <1>6, IndexFacts DEF UpdateUsedIdx, TypeOK
  <2>3. taken' \in Seq(Buf) /\ Len(taken') <= Num
    BY <1>6, IndexFacts DEF UpdateUsedIdx
  <2>4. QED
    BY <1>a, <1>6, <2>1, <2>2, <2>3 DEF UpdateUsedIdx, TypeOK
<1>7. CASE NotifyCheck
  BY <1>a, <1>7, IndexFacts DEF NotifyCheck, TypeOK
<1>8. CASE InterruptFront
  BY <1>a, <1>8 DEF InterruptFront, TypeOK
<1>9. CASE Publish
  BY <1>a, <1>b, <1>9 DEF Publish, TypeOK
<1>10. CASE KickCheck
  <2>1. notified' \in BOOLEAN
    BY <1>10 DEF KickCheck
  <2>2. QED
    BY <1>a, <1>10, <2>1 DEF KickCheck, TypeOK
<1>11. CASE Reap
  BY <1>a, <1>b, <1>11 DEF Reap, TypeOK
<1>12. CASE Arm
  BY <1>a, <1>12 DEF Arm, TypeOK
<1>13. CASE Recheck
  <2>1. no_interrupt' \in BOOLEAN
    BY <1>13 DEF Recheck
  <2>2. QED
    BY <1>a, <1>13, <2>1 DEF Recheck, TypeOK
<1>14. CASE Interrupted
  <2>1. no_interrupt' \in BOOLEAN
    BY <1>a, <1>14 DEF Interrupted, TypeOK
  <2>2. QED
    BY <1>a, <1>14, <2>1 DEF Interrupted, TypeOK
<1>15. CASE UNCHANGED vars
  BY <1>a, <1>15 DEF vars, TypeOK
<1>16. QED
  BY <1>1, <1>2, <1>3, <1>4, <1>5, <1>6, <1>7, <1>8, <1>9, <1>10, <1>11, <1>12, <1>13, <1>14, <1>15
  DEF Next, Device, Driver, Completion

(* The device asked to be notified of the next buffer, and this is it.     *)
LEMMA NextBuffer ==
  ASSUME NEW i \in Index
  PROVE  NeedEvent(i, Add(i, 1), Add(Add(i, 1), -1))
<1>1. Add(i, 1) \in Index /\ i # Add(i, 1)
  BY IndexFacts, AddIs DEF Index
<1>2. Distance(i, Add(i, 1)) \in Int
  BY <1>1, DistanceRange
<1>3. NeedEvent(i, Add(i, 1), i)
  BY <1>1, <1>2, NeedEventIs
<1>4. QED
  BY <1>3, Before

(* The device's wish and the driver's kick never miss each other.          *)
LEMMA NextKick == IInv /\ [Next]_vars => KickComing'
<1> SUFFICES ASSUME IInv, [Next]_vars PROVE KickComing'
  OBVIOUS
<1> USE DEF ring, events, device, driver
<1>a. /\ KickComing
      /\ avail_idx \in Index /\ last_avail_idx \in Index /\ avail_event \in Index
  BY DEF IInv, TypeOK
<1>1. CASE GetIovEmpty
  BY <1>a, <1>1 DEF GetIovEmpty, KickComing
<1>2. CASE WakeUp
  BY <1>a, <1>2 DEF WakeUp, KickComing
<1>3. CASE GetIovTake
  BY <1>a, <1>3 DEF GetIovTake, KickComing
<1>4. CASE GetIovSetEvent
  BY <1>a, <1>4 DEF GetIovSetEvent, KickComing
<1>5. CASE AddUsedElem
  BY <1>a, <1>5 DEF AddUsedElem, KickComing
<1>6. CASE UpdateUsedIdx
  BY <1>a, <1>6 DEF UpdateUsedIdx, KickComing
<1>7. CASE NotifyCheck
  BY <1>a, <1>7 DEF NotifyCheck, KickComing
<1>8. CASE InterruptFront
  BY <1>a, <1>8 DEF InterruptFront, KickComing
<1>9. CASE Publish
  BY <1>a, <1>9 DEF Publish, KickComing
<1>10. CASE KickCheck
  <2>1. /\ ~ notified' => /\ ~ notified
                          /\ setting.use_event_idx
                          /\ ~ NeedEvent(avail_event, avail_idx, Add(avail_idx, -1))
        /\ UNCHANGED <<avail_idx, avail_event, setting, last_avail_idx, dpc>>
    BY <1>10 DEF KickCheck
  <2>2. avail_idx = Add(last_avail_idx, 1) =>
          NeedEvent(last_avail_idx, avail_idx, Add(avail_idx, -1))
    BY <1>a, NextBuffer
  <2>3. QED
    BY <1>a, <2>1, <2>2 DEF KickComing
<1>11. CASE Reap
  BY <1>a, <1>11 DEF Reap, KickComing
<1>12. CASE Arm
  BY <1>a, <1>12 DEF Arm, KickComing
<1>13. CASE Recheck
  BY <1>a, <1>13 DEF Recheck, KickComing
<1>14. CASE Interrupted
  BY <1>a, <1>14 DEF Interrupted, KickComing
<1>15. CASE UNCHANGED vars
  BY <1>a, <1>15 DEF vars, KickComing
<1>16. QED
  BY <1>1, <1>2, <1>3, <1>4, <1>5, <1>6, <1>7, <1>8, <1>9, <1>10, <1>11, <1>12, <1>13, <1>14, <1>15
  DEF Next, Device, Driver, Completion

(* The driver's wish for an interrupt stands until it runs again.          *)
LEMMA NextArmed == IInv /\ [Next]_vars => Armed'
<1> SUFFICES ASSUME IInv, [Next]_vars PROVE Armed'
  OBVIOUS
<1> USE DEF ring, events, device, driver
<1>a. Armed
  BY DEF IInv
<1>1. CASE GetIovEmpty
  BY <1>a, <1>1 DEF GetIovEmpty, Armed
<1>2. CASE WakeUp
  BY <1>a, <1>2 DEF WakeUp, Armed
<1>3. CASE GetIovTake
  BY <1>a, <1>3 DEF GetIovTake, Armed
<1>4. CASE GetIovSetEvent
  BY <1>a, <1>4 DEF GetIovSetEvent, Armed
<1>5. CASE AddUsedElem
  BY <1>a, <1>5 DEF AddUsedElem, Armed
<1>6. CASE UpdateUsedIdx
  BY <1>a, <1>6 DEF UpdateUsedIdx, Armed
<1>7. CASE NotifyCheck
  BY <1>a, <1>7 DEF NotifyCheck, Armed
<1>8. CASE InterruptFront
  BY <1>a, <1>8 DEF InterruptFront, Armed
<1>9. CASE Publish
  BY <1>a, <1>9 DEF Publish, Armed
<1>10. CASE KickCheck
  BY <1>a, <1>10 DEF KickCheck, Armed
<1>11. CASE Reap
  BY <1>a, <1>11 DEF Reap, Armed
<1>12. CASE Arm
  BY <1>a, <1>12 DEF Arm, Armed
<1>13. CASE Recheck
  BY <1>a, <1>13 DEF Recheck, Armed
<1>14. CASE Interrupted
  BY <1>a, <1>14 DEF Interrupted, Armed
<1>15. CASE UNCHANGED vars
  BY <1>a, <1>15 DEF vars, Armed
<1>16. QED
  BY <1>1, <1>2, <1>3, <1>4, <1>5, <1>6, <1>7, <1>8, <1>9, <1>10, <1>11, <1>12, <1>13, <1>14, <1>15
  DEF Next, Device, Driver, Completion

(* Entries used and not announced are counted; none passes the driver's    *)
(* request unannounced.                                                    *)
LEMMA NextQuiet == IInv /\ [Next]_vars => QuietCounted'
<1> SUFFICES ASSUME IInv, [Next]_vars PROVE QuietCounted'
  OBVIOUS
<1> USE DEF ring, events, device, driver
<1>a. /\ QuietCounted
      /\ used_idx \in Index /\ last_used \in Index /\ last_notified_idx \in Index
      /\ quiet \in 0 .. Modulus
  BY DEF IInv, TypeOK
<1>b. /\ Unreaped \in Nat
      /\ Len(taken) \in Nat
      /\ Unreaped + Len(taken) < Modulus
      /\ Unreaped = 0 <=> used_idx = last_used
  <2>1. /\ Available \in Nat /\ Unreaped \in Nat /\ Cardinality(free) \in Nat
        /\ Len(taken) \in Nat
        /\ Cardinality(free) + Available + Len(taken) + Unreaped = Num
    BY CountFacts DEF IInv
  <2>2. Unreaped + Len(taken) < Modulus
    BY <2>1, IndexFacts
  <2>3. Unreaped = 0 <=> used_idx = last_used
    BY <1>a, DistanceFacts DEF Unreaped
  <2>4. QED
    BY <2>1, <2>2, <2>3
<1>1. CASE GetIovEmpty
  BY <1>a, <1>b, <1>1 DEF GetIovEmpty, QuietCounted, Unreaped
<1>2. CASE WakeUp
  BY <1>a, <1>b, <1>2 DEF WakeUp, QuietCounted, Unreaped
<1>3. CASE GetIovTake
  BY <1>a, <1>b, <1>3 DEF GetIovTake, QuietCounted, Unreaped
<1>4. CASE GetIovSetEvent
  BY <1>a, <1>b, <1>4 DEF GetIovSetEvent, QuietCounted, Unreaped
<1>5. CASE AddUsedElem
  BY <1>a, <1>b, <1>5 DEF AddUsedElem, QuietCounted, Unreaped
<1>6. CASE UpdateUsedIdx
  <2>1. /\ used_idx' = Add(used_idx, Len(taken))
        /\ quiet' = IF quiet + Len(taken) > Modulus THEN Modulus ELSE quiet + Len(taken)
        /\ dpc = "publish"
        /\ UNCHANGED <<setting, last_notified_idx, last_used, rpc, irq>>
    BY <1>6 DEF UpdateUsedIdx
  <2> SUFFICES ASSUME setting.use_event_idx, quiet' < Modulus
               PROVE  /\ quiet' = Distance(last_notified_idx, used_idx')
                      /\ rpc \in {"armed", "asleep"} =>
                           \/ Unreaped' <= quiet'
                           \/ irq
                           \/ rpc = "armed" /\ used_idx' # last_used
    BY <2>1 DEF QuietCounted
  <2>2. quiet' = quiet + Len(taken) /\ quiet < Modulus
    BY <1>a, <1>b, <2>1, IndexFacts
  <2>3. quiet = Distance(last_notified_idx, used_idx)
    BY <1>a, <2>2 DEF QuietCounted
  <2>4. quiet' = Distance(last_notified_idx, used_idx')
    BY <1>a, <1>b, <2>1, <2>2, <2>3, DistanceAdd
  <2>5. Unreaped' = Unreaped + Len(taken) /\ used_idx' \in Index
    BY <1>a, <1>b, <2>1, DistanceAdd DEF Unreaped
  <2>6. Unreaped' = 0 <=> used_idx' = last_used
    BY <1>a, <2>1, <2>5, DistanceFacts DEF Unreaped
  <2>7. rpc \in {"armed", "asleep"} =>
          \/ Unreaped <= quiet
          \/ irq
          \/ rpc = "armed" /\ used_idx # last_used
    BY <1>a, <2>1, <2>2 DEF QuietCounted
  <2>8. QED
    BY <1>a, <1>b, <2>2, <2>4, <2>5, <2>6, <2>7
<1>7. CASE NotifyCheck
  <2>1. /\ UNCHANGED <<setting, used_idx, last_used, rpc, irq>>
        /\ dpc = "notify"
        /\ Unreaped' = Unreaped
    BY <1>7 DEF NotifyCheck, Unreaped
  <2>2. CASE MustNotify
    <3>1. /\ quiet' = 0 /\ dpc' = "interrupt"
          /\ setting.use_event_idx => last_notified_idx' = used_idx
      BY <1>7, <2>2 DEF NotifyCheck
    <3>2. Distance(used_idx, used_idx) = 0
      BY <1>a, DistanceFacts
    <3>3. QED
      BY <2>1, <3>1, <3>2 DEF QuietCounted
  <2>3. CASE ~ MustNotify
    <3>1. quiet' = quiet /\ last_notified_idx' = last_notified_idx
      BY <1>7, <2>3 DEF NotifyCheck
    <3>2. QED
      BY <1>a, <2>1, <3>1 DEF QuietCounted
  <2>4. QED
    BY <2>2, <2>3
<1>8. CASE InterruptFront
  BY <1>a, <1>b, <1>8 DEF InterruptFront, QuietCounted, Unreaped
<1>9. CASE Publish
  BY <1>a, <1>b, <1>9 DEF Publish, QuietCounted, Unreaped
<1>10. CASE KickCheck
  BY <1>a, <1>b, <1>10 DEF KickCheck, QuietCounted, Unreaped
<1>11. CASE Reap
  BY <1>a, <1>b, <1>11 DEF Reap, QuietCounted, Unreaped
<1>12. CASE Arm
  BY <1>a, <1>b, <1>12 DEF Arm, QuietCounted, Unreaped
<1>13. CASE Recheck
  BY <1>a, <1>b, <1>13 DEF Recheck, QuietCounted, Unreaped
<1>14. CASE Interrupted
  BY <1>a, <1>b, <1>14 DEF Interrupted, QuietCounted, Unreaped
<1>15. CASE UNCHANGED vars
  BY <1>a, <1>15 DEF vars, QuietCounted, Unreaped
<1>16. QED
  BY <1>1, <1>2, <1>3, <1>4, <1>5, <1>6, <1>7, <1>8, <1>9, <1>10, <1>11, <1>12, <1>13, <1>14, <1>15
  DEF Next, Device, Driver, Completion

(* A driver that sleeps on used entries is woken.                          *)
LEMMA NextInterrupt == IInv /\ [Next]_vars => NoLostInterrupt'
<1> SUFFICES ASSUME IInv, [Next]_vars PROVE NoLostInterrupt'
  OBVIOUS
<1> USE DEF ring, events, device, driver
<1>a. NoLostInterrupt
  BY DEF IInv
<1>1. CASE GetIovEmpty
  BY <1>a, <1>1 DEF GetIovEmpty, NoLostInterrupt, MustNotify
<1>2. CASE WakeUp
  BY <1>a, <1>2 DEF WakeUp, NoLostInterrupt, MustNotify
<1>3. CASE GetIovTake
  BY <1>a, <1>3 DEF GetIovTake, NoLostInterrupt, MustNotify
<1>4. CASE GetIovSetEvent
  BY <1>a, <1>4 DEF GetIovSetEvent, NoLostInterrupt, MustNotify
<1>5. CASE AddUsedElem
  BY <1>a, <1>5 DEF AddUsedElem, NoLostInterrupt, MustNotify
<1>6. CASE UpdateUsedIdx
  <2>1. dpc' = "notify"
    BY <1>6 DEF UpdateUsedIdx
  <2> SUFFICES ASSUME rpc' = "asleep", used_idx' # last_used', quiet' < Modulus, ~ irq'
               PROVE  MustNotify'
    BY <2>1 DEF NoLostInterrupt
  <2>2. Armed' /\ QuietCounted' /\ TypeOK'
    BY NextArmed, NextQuiet, NextTyped
  <2>3. CASE setting'.use_event_idx
    <3>1. used_event' = last_used'
      BY <2>2, <2>3 DEF Armed
    <3>2. Distance(last_used', used_idx') <= Distance(last_notified_idx', used_idx')
      BY <2>1, <2>2, <2>3 DEF QuietCounted, Unreaped
    <3>3. last_used' \in Index /\ used_idx' \in Index /\ last_notified_idx' \in Index
      BY <2>2 DEF TypeOK
    <3>4. NeedEvent(last_used', used_idx', last_notified_idx')
      BY <3>2, <3>3, NeedEventIs
    <3>5. QED
      BY <2>3, <3>1, <3>4 DEF MustNotify
  <2>4. CASE ~ setting'.use_event_idx
    BY <2>2, <2>4 DEF Armed, MustNotify
  <2>5. QED
    BY <2>3, <2>4
<1>7. CASE NotifyCheck
  <2>1. CASE MustNotify
    BY <1>7, <2>1 DEF NotifyCheck, NoLostInterrupt
  <2>2. CASE ~ MustNotify
    BY <1>a, <1>7, <2>2 DEF NotifyCheck, NoLostInterrupt
  <2>3. QED
    BY <2>1, <2>2
<1>8. CASE InterruptFront
  BY <1>a, <1>8 DEF InterruptFront, NoLostInterrupt, MustNotify
<1>9. CASE Publish
  BY <1>a, <1>9 DEF Publish, NoLostInterrupt, MustNotify
<1>10. CASE KickCheck
  BY <1>a, <1>10 DEF KickCheck, NoLostInterrupt, MustNotify
<1>11. CASE Reap
  BY <1>a, <1>11 DEF Reap, NoLostInterrupt, MustNotify
<1>12. CASE Arm
  BY <1>a, <1>12 DEF Arm, NoLostInterrupt, MustNotify
<1>13. CASE Recheck
  BY <1>a, <1>13 DEF Recheck, NoLostInterrupt, MustNotify
<1>14. CASE Interrupted
  BY <1>a, <1>14 DEF Interrupted, NoLostInterrupt, MustNotify
<1>15. CASE UNCHANGED vars
  BY <1>a, <1>15 DEF vars, NoLostInterrupt, MustNotify
<1>16. QED
  BY <1>1, <1>2, <1>3, <1>4, <1>5, <1>6, <1>7, <1>8, <1>9, <1>10, <1>11, <1>12, <1>13, <1>14, <1>15
  DEF Next, Device, Driver, Completion

-----------------------------------------------------------------------------
(* The theorems.                                                           *)

LEMMA InitInv == Init => IInv
<1> SUFFICES ASSUME Init PROVE IInv
  OBVIOUS
<1> USE IndexFacts
<1>1. 0 \in Index /\ 0 \in Buf /\ Distance(0, 0) = 0
  <2>1. 0 \in Index /\ 0 \in Buf
    BY DEF Index, Buf
  <2>2. QED
    BY <2>1, DistanceFacts
<1>2. TypeOK
  BY <1>1 DEF Init, TypeOK, DPc, RPc
<1>3. Available = 0 /\ Unreaped = 0
  BY <1>1 DEF Init, Available, Unreaped
<1>4. Avail = {} /\ Used = {} /\ Taken = {}
  <2>1. Len(taken) = 0
    BY DEF Init
  <2>2. QED
    BY <1>3, <2>1 DEF Avail, Used, Taken, Available, Unreaped
<1>5. Cardinality(free) = Num
  BY FS_Interval DEF Init, Buf
<1>6. Owned
  <2>1. Len(taken) = 0 /\ free = Buf
    BY DEF Init
  <2>2. /\ Distinct(avail_ring, last_avail_idx, Available)
        /\ Distinct(used_ring, last_used, Unreaped)
    BY <1>3 DEF Distinct
  <2>3. QED
    BY <1>3, <1>4, <1>5, <2>1, <2>2 DEF Owned
<1>7. Staged
  <2>1. Filled = 0 /\ dpc = "poll"
    BY DEF Init, Filled
  <2>2. QED
    BY <2>1 DEF Staged
<1>8. KickComing /\ Armed /\ NoLostInterrupt
  BY DEF Init, KickComing, Armed, NoLostInterrupt
<1>9. QuietCounted
  BY <1>1 DEF Init, QuietCounted
<1>10. QED
  BY <1>2, <1>6, <1>7, <1>8, <1>9 DEF IInv

(* The inductive invariant holds in every state of every behaviour.        *)
THEOREM Invariance == Spec => []IInv
<1>1. Init => IInv
  BY InitInv
<1>2. IInv /\ [Next]_vars => IInv'
  BY NextTyped, NextOwned, NextStaged, NextKick, NextArmed, NextQuiet, NextInterrupt
  DEF IInv
<1>3. QED
  BY <1>1, <1>2, PTL DEF Spec

(* Type correctness: indices stay in the range of a uint16_t, rings hold   *)
(* descriptor heads, a packet never takes more buffers than there are.     *)
THEOREM TypeCorrect == Spec => []TypeOK
<1>1. IInv => TypeOK
  BY DEF IInv
<1>2. QED
  BY <1>1, Invariance, PTL

(* One owner: through every wrap of the indices each descriptor head is    *)
(* free, available, taken or used, exactly one of these, once.             *)
THEOREM OwnedOnce == Spec => []OneOwner
<1>1. IInv => OneOwner
  BY DEF IInv, Owned, OneOwner, Available, Unreaped
<1>2. QED
  BY <1>1, Invariance, PTL

(* No lost notification: a device that waits with buffers available is     *)
(* notified or will be, and a driver that sleeps with entries used has its *)
(* interrupt coming - unless 2^16 entries were used without one.           *)
THEOREM NotificationsKept == Spec => []NoLostNotification
<1>1. IInv => NoLostNotification
  <2> SUFFICES ASSUME IInv PROVE NoLostNotification
    OBVIOUS
  <2>1. last_avail_idx \in Index
    BY DEF IInv, TypeOK
  <2>2. NoLostKick
    BY <2>1, NextBuffer DEF IInv, KickComing, NoLostKick
  <2>3. QED
    BY <2>2 DEF IInv, NoLostNotification
<1>2. QED
  BY <1>1, Invariance, PTL
=============================================================================
