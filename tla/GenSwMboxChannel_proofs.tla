---------------------- MODULE GenSwMboxChannel_proofs ----------------------
(***************************************************************************)
(* Proofs about GenSwMboxChannel, for any number of channels, senders,     *)
(* messages and registrations, and any assignment of the acknowledge bits. *)
(***************************************************************************)
EXTENDS GenSwMboxChannel, FiniteSetTheorems, TLAPS

USE ChannelAssumption DEF ChannelAssumption

(* The other side is a side, a different one, and the relation is          *)
(* symmetric.                                                              *)
LEMMA PeerFacts ==
  ASSUME NEW s \in Side
  PROVE  Peer(s) \in Side /\ Peer(s) # s /\ Peer(Peer(s)) = s
BY DEF Side, Peer

(* The walk of the handler over the channels stays inside the page.       *)
LEMMA ChannelFacts ==
  /\ 0 \in Channel
  /\ \A c \in Channel : /\ c \in Int /\ 0 <= c /\ c < MaxCh
                       /\ c # MaxCh - 1 => c + 1 \in Channel
  /\ \A z \in 0 .. MaxCh : z < MaxCh => z \in Channel /\ z + 1 \in 0 .. MaxCh
BY DEF Channel

(* A write of a status word, and the end of the work on a channel, keep    *)
(* the variables they assign in their types.                               *)
LEMMA StatusWrite ==
  ASSUME status \in [Side -> [Channel -> Status]],
         NEW s \in Side, NEW c \in Channel, NEW v \in Status,
         SetStatus(s, c, v)
  PROVE  status' \in [Side -> [Channel -> Status]]
BY DEF SetStatus

LEMMA CellWrite ==
  ASSUME NEW S, NEW f \in [Side -> [Channel -> S]],
         NEW s \in Side, NEW c \in Channel, NEW v \in S
  PROVE  [f EXCEPT ![s][c] = v] \in [Side -> [Channel -> S]]
OBVIOUS

LEMMA NextChannelTyped ==
  ASSUME ipc \in [Side -> IPc], ich \in [Side -> Channel],
         NEW s \in Side, NextChannel(s)
  PROVE  /\ ipc' \in [Side -> IPc]
         /\ ich' \in [Side -> Channel]
<1>1. CASE ich[s] = MaxCh - 1
  BY <1>1 DEF NextChannel, IPc
<1>2. CASE ich[s] # MaxCh - 1
  <2>1. ich[s] \in Channel
    OBVIOUS
  <2>2. ich[s] + 1 \in Channel
    BY <1>2, <2>1 DEF Channel, ChannelAssumption
  <2>3. QED
    BY <1>2, <2>2 DEF NextChannel, IPc
<1>3. QED
  BY <1>1, <1>2

(* Type correctness: the protocol state keeps its shape through every      *)
(* registration, handler step and send.                                    *)
THEOREM TypeCorrect == (Spec \/ LinkedSpec) => []TypeOK
<1> USE DEF shared, handler, sender, control, delivery
<1>1. Init \/ LinkedInit => TypeOK
  <2>1. CASE Init
    BY <2>1, ChannelFacts DEF Init, Quiet, TypeOK, Status, IPc, SPc
  <2>2. CASE LinkedInit
    <3>1. ref \in [Side -> Int]
      BY <2>2 DEF LinkedInit
    <3>2. QED
      BY <2>2, <3>1, ChannelFacts DEF LinkedInit, Quiet, TypeOK, Status, IPc, SPc
  <2>3. QED
    BY <2>1, <2>2
<1>2. TypeOK /\ [Next]_vars => TypeOK'
  <2> SUFFICES ASSUME TypeOK, [Next]_vars PROVE TypeOK'
    OBVIOUS
  <2> USE PeerFacts, ChannelFacts
  <2>1. ASSUME NEW s \in Side, Attach(s)
        PROVE  TypeOK'
    BY <2>1 DEF Attach, TypeOK, Status, IPc, SPc
  <2>2. ASSUME NEW s \in Side, ClearChannel(s)
        PROVE  TypeOK'
    <3>1. CASE ClearRx(s)
      BY <3>1, StatusWrite DEF ClearRx, SetStatus, TypeOK, Status, IPc, SPc
    <3>2. CASE ClearTx(s)
      BY <3>2, StatusWrite DEF ClearTx, SetStatus, TypeOK, Status, IPc, SPc
    <3>3. QED
      BY <2>2, <3>1, <3>2 DEF ClearChannel
  <2>3. ASSUME NEW s \in Side, EnableIRQ(s)
        PROVE  TypeOK'
    BY <2>3 DEF EnableIRQ, TypeOK, Status, IPc, SPc
  <2>4. ASSUME NEW s \in Side, Detach(s)
        PROVE  TypeOK'
    BY <2>4 DEF Detach, TypeOK, Status, IPc, SPc
  <2>5. ASSUME NEW s \in Side, NEW c \in Channel, RegisterCallback(s, c)
        PROVE  TypeOK'
    BY <2>5 DEF RegisterCallback, TypeOK, Status, IPc, SPc
  <2>6. ASSUME NEW s \in Side, NEW c \in Channel, UnregisterCallback(s, c)
        PROVE  TypeOK'
    BY <2>6 DEF UnregisterCallback, TypeOK, Status, IPc, SPc
  <2>7. ASSUME NEW s \in Side, EnterHandler(s)
        PROVE  TypeOK'
    BY <2>7 DEF EnterHandler, TypeOK, Status, IPc, SPc
  <2>8. ASSUME NEW s \in Side, HandleTxDone(s)
        PROVE  TypeOK'
    <3>1. status' \in [Side -> [Channel -> Status]]
      BY <2>8, StatusWrite DEF HandleTxDone, TypeOK, Status
    <3>2. QED
      BY <2>8, <3>1 DEF HandleTxDone, TypeOK, IPc, SPc
  <2>9. ASSUME NEW s \in Side, SkipIdle(s)
        PROVE  TypeOK'
    <3>1. ipc' \in [Side -> IPc] /\ ich' \in [Side -> Channel]
      BY <2>9, NextChannelTyped DEF SkipIdle, TypeOK
    <3>2. QED
      BY <2>9, <3>1 DEF SkipIdle, TypeOK, IPc, SPc
  <2>10. ASSUME NEW s \in Side, ReadMessage(s)
        PROVE  TypeOK'
    BY <2>10 DEF ReadMessage, TypeOK, Status, IPc, SPc
  <2>11. ASSUME NEW s \in Side, MarkDone(s)
        PROVE  TypeOK'
    <3>1. status' \in [Side -> [Channel -> Status]]
      BY <2>11, StatusWrite DEF MarkDone, TypeOK, Status
    <3>2. QED
      BY <2>11, <3>1 DEF MarkDone, TypeOK, IPc, SPc
  <2>12. ASSUME NEW s \in Side, NotifyDone(s)
        PROVE  TypeOK'
    BY <2>12 DEF NotifyDone, SetPendingIRQ, TypeOK, Status, IPc, SPc
  <2>13. ASSUME NEW s \in Side, CallRecvCb(s)
        PROVE  TypeOK'
    <3> DEFINE c == ich[s]
    <3>1. /\ c \in Channel /\ imsg[s] \in 0 .. MaxMsg
          /\ got \in [Side -> [Channel -> 0 .. MaxMsg]]
          /\ given \in [Side -> [Channel -> Nat]]
      BY DEF TypeOK
    <3>2. \/ UNCHANGED <<got, given>>
          \/ /\ got'   = [got EXCEPT ![s][c] = imsg[s]]
             /\ given' = [given EXCEPT ![s][c] = @ + 1]
      BY <2>13 DEF CallRecvCb
    <3> HIDE DEF c
    <3>3. got' \in [Side -> [Channel -> 0 .. MaxMsg]]
      BY SMTT(60), <3>1, <3>2
    <3>4. given' \in [Side -> [Channel -> Nat]]
      <4>1. given[s][c] + 1 \in Nat
        BY <3>1
      <4>2. [given EXCEPT ![s][c] = given[s][c] + 1] \in [Side -> [Channel -> Nat]]
        BY <3>1, <4>1, CellWrite
      <4>3. QED
        BY <3>1, <3>2, <4>2
    <3>5. QED
      BY <2>13, <3>3, <3>4 DEF CallRecvCb, TypeOK, IPc
  <2>14. ASSUME NEW s \in Side, FinishWithAck(s)
        PROVE  TypeOK'
    <3>1. status' \in [Side -> [Channel -> Status]]
      BY <2>14, StatusWrite DEF FinishWithAck, TypeOK, Status
    <3>2. QED
      BY <2>14, <3>1 DEF FinishWithAck, TypeOK, IPc, SPc
  <2>15. ASSUME NEW s \in Side, NotifyAck(s)
        PROVE  TypeOK'
    <3>1. ipc' \in [Side -> IPc] /\ ich' \in [Side -> Channel]
      BY <2>15, NextChannelTyped DEF NotifyAck, TypeOK
    <3>2. QED
      BY <2>15, <3>1 DEF NotifyAck, SetPendingIRQ, TypeOK, IPc, SPc
  <2>16. ASSUME NEW s \in Side, FinishNoAck(s)
        PROVE  TypeOK'
    <3>1. ipc' \in [Side -> IPc] /\ ich' \in [Side -> Channel]
      BY <2>16, NextChannelTyped DEF FinishNoAck, TypeOK
    <3>2. status' \in [Side -> [Channel -> Status]]
      BY <2>16, StatusWrite DEF FinishNoAck, TypeOK, Status
    <3>3. QED
      BY <2>16, <3>1, <3>2 DEF FinishNoAck, TypeOK, IPc, SPc
  <2>17. ASSUME NEW t \in Sender, NEW block \in BOOLEAN, SendStart(t, block)
        PROVE  TypeOK'
    BY <2>17 DEF SendStart, TypeOK, Status, IPc, SPc
  <2>18. ASSUME NEW t \in Sender, PollReady(t)
        PROVE  TypeOK'
    BY <2>18 DEF PollReady, SenderAt, SenderTo, TypeOK, Status, IPc, SPc
  <2>19. ASSUME NEW t \in Sender, GiveUp(t)
        PROVE  TypeOK'
    BY <2>19 DEF GiveUp, SenderAt, SenderTo, TypeOK, Status, IPc, SPc
  <2>20. ASSUME NEW t \in Sender, WriteData(t)
        PROVE  TypeOK'
    BY <2>20 DEF WriteData, SenderAt, SenderTo, TypeOK, Status, IPc, SPc
  <2>21. ASSUME NEW t \in Sender, WriteBusy(t)
        PROVE  TypeOK'
    <3>1. status' \in [Side -> [Channel -> Status]]
      BY <2>21, StatusWrite DEF WriteBusy, SenderAt, SenderTo, TypeOK, Status
    <3>2. QED
      BY <2>21, <3>1 DEF WriteBusy, SenderAt, SenderTo, TypeOK, IPc, SPc
  <2>22. ASSUME NEW t \in Sender, KickRemote(t)
        PROVE  TypeOK'
    BY <2>22 DEF KickRemote, SetPendingIRQ, SenderAt, SenderTo, TypeOK, Status, IPc, SPc
  <2>23. ASSUME NEW t \in Sender, PutRef(t)
        PROVE  TypeOK'
    BY <2>23 DEF PutRef, SenderAt, SenderTo, TypeOK, Status, IPc, SPc
  <2>24. CASE UNCHANGED vars
    BY <2>24 DEF vars, TypeOK
  <2>25. QED
    BY <2>1, <2>2, <2>3, <2>4, <2>5, <2>6, <2>7, <2>8, <2>9, <2>10, <2>11, <2>12,
       <2>13, <2>14, <2>15, <2>16, <2>17, <2>18, <2>19, <2>20, <2>21, <2>22, <2>23, <2>24
    DEF Next, Traffic, Attachment, Handler, SendStep
<1>3. [Traffic]_vars => [Next]_vars
  BY DEF Next
<1>4. QED
  BY <1>1, <1>2, <1>3, PTL DEF Spec, LinkedSpec

(* Done with a channel, the handler is at one not beyond any channel it had *)
(* still to visit; the other side's handler does not move.                 *)
Onward(s) ==
  /\ \A q \in Side : q # s => ipc'[q] = ipc[q] /\ ich'[q] = ich[q]
  /\ \A k \in Channel :
       ich[s] < k => ipc'[s] = "ack" /\ (ich'[s] < k \/ ich'[s] = k)
  /\ ipc'[s] \in {"idle", "ack"}

LEMMA NextChannelOnward ==
  ASSUME TypeOK, NEW s \in Side, NextChannel(s)
  PROVE  Onward(s)
<1>1. ich[s] \in Int /\ MaxCh \in Int /\ \A k \in Channel : k \in Int /\ k < MaxCh
  BY DEF TypeOK, Channel
<1>2. CASE ich[s] = MaxCh - 1
  BY <1>1, <1>2 DEF NextChannel, TypeOK, Onward
<1>3. CASE ich[s] # MaxCh - 1
  <2>1. ipc' = [ipc EXCEPT ![s] = "ack"] /\ ich' = [ich EXCEPT ![s] = ich[s] + 1]
    BY <1>3 DEF NextChannel
  <2>2. ipc'[s] = "ack" /\ ich'[s] = ich[s] + 1
    BY <2>1 DEF TypeOK
  <2>3. ASSUME NEW k \in Channel, ich[s] < k
        PROVE  ich'[s] < k \/ ich'[s] = k
    BY <1>1, <2>2, <2>3
  <2>4. QED
    BY <2>1, <2>2, <2>3 DEF TypeOK, Onward
<1>4. QED
  BY <1>2, <1>3

(* No lost interrupt: a busy channel is always one whose receiver will look *)
(* at it, whatever interleaving of sender, handler and registration.        *)
THEOREM LostInterruptImpossible == (Spec \/ LinkedSpec) => []NoLostInterrupt
<1> USE DEF shared, handler, sender, control, delivery
<1>1. Init \/ LinkedInit => NoLostInterrupt
  BY DEF Init, LinkedInit, Quiet, NoLostInterrupt
<1>2. TypeOK /\ NoLostInterrupt /\ [Next]_vars => NoLostInterrupt'
  <2> SUFFICES ASSUME TypeOK, NoLostInterrupt, [Next]_vars,
                      NEW r \in Side, NEW k \in Channel, status[r][k]' = "busy"
               PROVE  BusyNoticed(r, k)'
    BY DEF NoLostInterrupt
  <2>0. /\ k \in Int /\ 0 <= k /\ k < MaxCh /\ MaxCh \in Int
        /\ \A q \in Side : ich[q] \in Int
    BY DEF TypeOK, Channel
  <2> USE DEF TypeOK, NoLostInterrupt, BusyNoticed, StillToVisit, Side, Peer
  <2>1. ASSUME NEW s \in Side, Attach(s)
        PROVE  BusyNoticed(r, k)'
    BY <2>1 DEF Attach
  <2>2. ASSUME NEW s \in Side, ClearChannel(s)
        PROVE  BusyNoticed(r, k)'
    BY <2>2 DEF ClearChannel, ClearRx, ClearTx, SetStatus
  <2>3. ASSUME NEW s \in Side, EnableIRQ(s)
        PROVE  BusyNoticed(r, k)'
    BY <2>3 DEF EnableIRQ
  <2>4. ASSUME NEW s \in Side, Detach(s)
        PROVE  BusyNoticed(r, k)'
    BY <2>4 DEF Detach
  <2>5. ASSUME NEW s \in Side, NEW c \in Channel, RegisterCallback(s, c)
        PROVE  BusyNoticed(r, k)'
    BY <2>5 DEF RegisterCallback
  <2>6. ASSUME NEW s \in Side, NEW c \in Channel, UnregisterCallback(s, c)
        PROVE  BusyNoticed(r, k)'
    BY <2>6 DEF UnregisterCallback
  <2>7. ASSUME NEW s \in Side, EnterHandler(s)
        PROVE  BusyNoticed(r, k)'
    <3>1. CASE r = s
      BY <2>0, <2>7, <3>1 DEF EnterHandler
    <3>2. CASE r # s
      BY <2>0, <2>7, <3>2 DEF EnterHandler
    <3>3. QED
      BY <3>1, <3>2
  <2>8. ASSUME NEW s \in Side, HandleTxDone(s)
        PROVE  BusyNoticed(r, k)'
    BY <2>8 DEF HandleTxDone, SetStatus
  <2>9. ASSUME NEW s \in Side, SkipIdle(s)
        PROVE  BusyNoticed(r, k)'
    <3>1. Onward(s)
      BY <2>9, NextChannelOnward DEF SkipIdle
    <3>2. CASE r = s
      BY <2>0, <2>9, <3>1, <3>2 DEF SkipIdle, Onward
    <3>3. CASE r # s
      BY SMTT(60), <2>0, <2>9, <3>1, <3>3 DEF SkipIdle, Onward
    <3>4. QED
      BY <3>2, <3>3
  <2>10. ASSUME NEW s \in Side, ReadMessage(s)
        PROVE  BusyNoticed(r, k)'
    BY <2>10 DEF ReadMessage
  <2>11. ASSUME NEW s \in Side, MarkDone(s)
        PROVE  BusyNoticed(r, k)'
    BY <2>11 DEF MarkDone, SetStatus
  <2>12. ASSUME NEW s \in Side, NotifyDone(s)
        PROVE  BusyNoticed(r, k)'
    BY <2>12 DEF NotifyDone, SetPendingIRQ
  <2>13. ASSUME NEW s \in Side, CallRecvCb(s)
        PROVE  BusyNoticed(r, k)'
    BY <2>13 DEF CallRecvCb
  <2>14. ASSUME NEW s \in Side, FinishWithAck(s)
        PROVE  BusyNoticed(r, k)'
    BY <2>14 DEF FinishWithAck, SetStatus
  <2>15. ASSUME NEW s \in Side, NotifyAck(s)
        PROVE  BusyNoticed(r, k)'
    <3>1. Onward(s)
      BY <2>15, NextChannelOnward DEF NotifyAck
    <3>2. CASE r = s
      BY <2>0, <2>15, <3>1, <3>2 DEF NotifyAck, SetPendingIRQ, Onward
    <3>3. CASE r # s
      BY SMTT(60), <2>0, <2>15, <3>1, <3>3 DEF NotifyAck, SetPendingIRQ, Onward
    <3>4. QED
      BY <3>2, <3>3
  <2>16. ASSUME NEW s \in Side, FinishNoAck(s)
        PROVE  BusyNoticed(r, k)'
    <3>1. Onward(s)
      BY <2>16, NextChannelOnward DEF FinishNoAck
    <3>2. CASE r = s
      BY <2>0, <2>16, <3>1, <3>2 DEF FinishNoAck, SetStatus, Onward
    <3>3. CASE r # s
      BY <2>0, <2>16, <3>1, <3>3 DEF FinishNoAck, SetStatus, Onward
    <3>4. QED
      BY <3>2, <3>3
  <2>17. ASSUME NEW t \in Sender, NEW block \in BOOLEAN, SendStart(t, block)
        PROVE  BusyNoticed(r, k)'
    BY <2>17 DEF SendStart
  <2>18. ASSUME NEW t \in Sender, PollReady(t)
        PROVE  BusyNoticed(r, k)'
    BY <2>18 DEF PollReady, SenderAt, SenderTo
  <2>19. ASSUME NEW t \in Sender, GiveUp(t)
        PROVE  BusyNoticed(r, k)'
    BY <2>19 DEF GiveUp, SenderAt, SenderTo
  <2>20. ASSUME NEW t \in Sender, WriteData(t)
        PROVE  BusyNoticed(r, k)'
    BY <2>20 DEF WriteData, SenderAt, SenderTo
  <2>21. ASSUME NEW t \in Sender, WriteBusy(t)
        PROVE  BusyNoticed(r, k)'
    BY <2>21 DEF WriteBusy, SetStatus, SenderAt, SenderTo
  <2>22. ASSUME NEW t \in Sender, KickRemote(t)
        PROVE  BusyNoticed(r, k)'
    BY <2>22 DEF KickRemote, SetPendingIRQ, SenderAt, SenderTo
  <2>23. ASSUME NEW t \in Sender, PutRef(t)
        PROVE  BusyNoticed(r, k)'
    BY <2>23 DEF PutRef, SenderAt, SenderTo
  <2>24. CASE UNCHANGED vars
    BY <2>24 DEF vars
  <2>25. QED
    BY SMTT(60), <2>1, <2>2, <2>3, <2>4, <2>5, <2>6, <2>7, <2>8, <2>9, <2>10, <2>11, <2>12,
       <2>13, <2>14, <2>15, <2>16, <2>17, <2>18, <2>19, <2>20, <2>21, <2>22, <2>23, <2>24
    DEF Next, Traffic, Attachment, Handler, SendStep
<1>3. [Traffic]_vars => [Next]_vars
  BY DEF Next
<1>4. QED
  BY <1>1, <1>2, <1>3, TypeCorrect, PTL DEF Spec, LinkedSpec

(* No lost acknowledgement: a channel marked done always gets back to ready *)
(* by an interrupt of its sender that is pending or coming.                 *)
THEOREM LostAckImpossible == (Spec \/ LinkedSpec) => []NoLostAck
<1> USE DEF shared, handler, sender, control, delivery
<1>1. Init \/ LinkedInit => NoLostAck
  BY DEF Init, LinkedInit, Quiet, NoLostAck
<1>2. TypeOK /\ NoLostAck /\ [Next]_vars => NoLostAck'
  <2> SUFFICES ASSUME TypeOK, NoLostAck, [Next]_vars,
                      NEW r \in Side, NEW k \in Channel, status[r][k]' = "done"
               PROVE  DoneNoticed(r, k)'
    BY DEF NoLostAck
  <2>0. /\ k \in Int /\ 0 <= k /\ k < MaxCh /\ MaxCh \in Int
        /\ \A q \in Side : ich[q] \in Int
    BY DEF TypeOK, Channel
  <2> USE DEF TypeOK, NoLostAck, DoneNoticed, StillToVisit, Side, Peer
  <2>1. ASSUME NEW s \in Side, Attach(s)
        PROVE  DoneNoticed(r, k)'
    BY <2>1 DEF Attach
  <2>2. ASSUME NEW s \in Side, ClearChannel(s)
        PROVE  DoneNoticed(r, k)'
    BY <2>2 DEF ClearChannel, ClearRx, ClearTx, SetStatus
  <2>3. ASSUME NEW s \in Side, EnableIRQ(s)
        PROVE  DoneNoticed(r, k)'
    BY <2>3 DEF EnableIRQ
  <2>4. ASSUME NEW s \in Side, Detach(s)
        PROVE  DoneNoticed(r, k)'
    BY <2>4 DEF Detach
  <2>5. ASSUME NEW s \in Side, NEW c \in Channel, RegisterCallback(s, c)
        PROVE  DoneNoticed(r, k)'
    BY <2>5 DEF RegisterCallback
  <2>6. ASSUME NEW s \in Side, NEW c \in Channel, UnregisterCallback(s, c)
        PROVE  DoneNoticed(r, k)'
    BY <2>6 DEF UnregisterCallback
  <2>7. ASSUME NEW s \in Side, EnterHandler(s)
        PROVE  DoneNoticed(r, k)'
    <3>1. CASE r = s
      BY <2>0, <2>7, <3>1 DEF EnterHandler
    <3>2. CASE r # s
      BY <2>0, <2>7, <3>2 DEF EnterHandler
    <3>3. QED
      BY <3>1, <3>2
  <2>8. ASSUME NEW s \in Side, HandleTxDone(s)
        PROVE  DoneNoticed(r, k)'
    BY <2>8 DEF HandleTxDone, SetStatus
  <2>9. ASSUME NEW s \in Side, SkipIdle(s)
        PROVE  DoneNoticed(r, k)'
    <3>1. Onward(s)
      BY <2>9, NextChannelOnward DEF SkipIdle
    <3>2. CASE r = s
      BY <2>0, <2>9, <3>1, <3>2 DEF SkipIdle, Onward
    <3>3. CASE r # s
      BY SMTT(60), <2>0, <2>9, <3>1, <3>3 DEF SkipIdle, Onward
    <3>4. QED
      BY <3>2, <3>3
  <2>10. ASSUME NEW s \in Side, ReadMessage(s)
        PROVE  DoneNoticed(r, k)'
    BY <2>10 DEF ReadMessage
  <2>11. ASSUME NEW s \in Side, MarkDone(s)
        PROVE  DoneNoticed(r, k)'
    BY <2>11 DEF MarkDone, SetStatus
  <2>12. ASSUME NEW s \in Side, NotifyDone(s)
        PROVE  DoneNoticed(r, k)'
    BY <2>12 DEF NotifyDone, SetPendingIRQ
  <2>13. ASSUME NEW s \in Side, CallRecvCb(s)
        PROVE  DoneNoticed(r, k)'
    BY <2>13 DEF CallRecvCb
  <2>14. ASSUME NEW s \in Side, FinishWithAck(s)
        PROVE  DoneNoticed(r, k)'
    BY <2>14 DEF FinishWithAck, SetStatus
  <2>15. ASSUME NEW s \in Side, NotifyAck(s)
        PROVE  DoneNoticed(r, k)'
    <3>1. Onward(s)
      BY <2>15, NextChannelOnward DEF NotifyAck
    <3>2. CASE r = s
      BY <2>0, <2>15, <3>1, <3>2 DEF NotifyAck, SetPendingIRQ, Onward
    <3>3. CASE r # s
      BY <2>0, <2>15, <3>1, <3>3 DEF NotifyAck, SetPendingIRQ, Onward
    <3>4. QED
      BY <3>2, <3>3
  <2>16. ASSUME NEW s \in Side, FinishNoAck(s)
        PROVE  DoneNoticed(r, k)'
    <3>1. Onward(s)
      BY <2>16, NextChannelOnward DEF FinishNoAck
    <3>2. CASE r = s
      BY <2>0, <2>16, <3>1, <3>2 DEF FinishNoAck, SetStatus, Onward
    <3>3. CASE r # s
      BY <2>0, <2>16, <3>1, <3>3 DEF FinishNoAck, SetStatus, Onward
    <3>4. QED
      BY <3>2, <3>3
  <2>17. ASSUME NEW t \in Sender, NEW block \in BOOLEAN, SendStart(t, block)
        PROVE  DoneNoticed(r, k)'
    BY <2>17 DEF SendStart
  <2>18. ASSUME NEW t \in Sender, PollReady(t)
        PROVE  DoneNoticed(r, k)'
    BY <2>18 DEF PollReady, SenderAt, SenderTo
  <2>19. ASSUME NEW t \in Sender, GiveUp(t)
        PROVE  DoneNoticed(r, k)'
    BY <2>19 DEF GiveUp, SenderAt, SenderTo
  <2>20. ASSUME NEW t \in Sender, WriteData(t)
        PROVE  DoneNoticed(r, k)'
    BY <2>20 DEF WriteData, SenderAt, SenderTo
  <2>21. ASSUME NEW t \in Sender, WriteBusy(t)
        PROVE  DoneNoticed(r, k)'
    BY <2>21 DEF WriteBusy, SetStatus, SenderAt, SenderTo
  <2>22. ASSUME NEW t \in Sender, KickRemote(t)
        PROVE  DoneNoticed(r, k)'
    BY <2>22 DEF KickRemote, SetPendingIRQ, SenderAt, SenderTo
  <2>23. ASSUME NEW t \in Sender, PutRef(t)
        PROVE  DoneNoticed(r, k)'
    BY <2>23 DEF PutRef, SenderAt, SenderTo
  <2>24. CASE UNCHANGED vars
    BY <2>24 DEF vars
  <2>25. QED
    BY <2>1, <2>2, <2>3, <2>4, <2>5, <2>6, <2>7, <2>8, <2>9, <2>10, <2>11, <2>12,
       <2>13, <2>14, <2>15, <2>16, <2>17, <2>18, <2>19, <2>20, <2>21, <2>22, <2>23, <2>24
    DEF Next, Traffic, Attachment, Handler, SendStep
<1>3. [Traffic]_vars => [Next]_vars
  BY DEF Next
<1>4. QED
  BY <1>1, <1>2, <1>3, TypeCorrect, PTL DEF Spec, LinkedSpec

(* With one sender per channel, OrderInv is inductive: a busy channel, and  *)
(* a sender about to make it busy, hold a message newer than all those      *)
(* read.  A registration may clear a status word at any moment.             *)
LEMMA OrderInductive ==
  ASSUME OneSenderPerChannel
  PROVE  (Spec \/ LinkedSpec) => [](TypeOK /\ OrderInv)
<1> USE DEF shared, handler, sender, control, delivery
<1>1. Init \/ LinkedInit => OrderInv
  BY PeerFacts DEF Init, LinkedInit, Quiet, OrderInv, OrderAt, Holding
<1>2. TypeOK /\ OrderInv /\ [Next]_vars => OrderInv'
  <2> SUFFICES ASSUME TypeOK, OrderInv, [Next]_vars,
                      NEW r \in Side, NEW k \in Channel
               PROVE  OrderAt(r, k)'
    BY DEF OrderInv
  <2>0. /\ \A q \in Side, c \in Channel :
            data[q][c] \in Int /\ got[q][c] \in Int /\ offered[q][c] \in Int
        /\ \A q \in Side : imsg[q] \in Int
        /\ \A t \in Sender : smsg[t] \in Int
    BY DEF TypeOK
  <2> USE OneSenderPerChannel
      DEF TypeOK, OrderInv, OrderAt, Holding, Fresh, Side, Peer,
          OneSenderPerChannel
  <2>1. ASSUME NEW s \in Side, Attach(s)
        PROVE  OrderAt(r, k)'
    <3>1. CASE r = s
      BY <2>0, <2>1, <3>1 DEF Attach
    <3>2. CASE ~(r = s)
      BY <2>0, <2>1, <3>2 DEF Attach
    <3>3. QED
      BY <3>1, <3>2
  <2>2. ASSUME NEW s \in Side, ClearChannel(s)
        PROVE  OrderAt(r, k)'
    <3>1. CASE r = s
      BY <2>0, <2>2, <3>1 DEF ClearChannel, ClearRx, ClearTx, SetStatus
    <3>2. CASE ~(r = s)
      <4>1. CASE ClearRx(s)
        BY <2>0, <3>2, <4>1 DEF ClearRx, SetStatus
      <4>2. CASE ClearTx(s)
        BY <2>0, <3>2, <4>2 DEF ClearTx, SetStatus
      <4>3. QED
        BY <2>2, <4>1, <4>2 DEF ClearChannel
    <3>3. QED
      BY <3>1, <3>2
  <2>3. ASSUME NEW s \in Side, EnableIRQ(s)
        PROVE  OrderAt(r, k)'
    <3>1. CASE r = s
      BY <2>0, <2>3, <3>1 DEF EnableIRQ
    <3>2. CASE ~(r = s)
      BY <2>0, <2>3, <3>2 DEF EnableIRQ
    <3>3. QED
      BY <3>1, <3>2
  <2>4. ASSUME NEW s \in Side, Detach(s)
        PROVE  OrderAt(r, k)'
    <3>1. CASE r = s
      BY <2>0, <2>4, <3>1 DEF Detach
    <3>2. CASE ~(r = s)
      BY <2>0, <2>4, <3>2 DEF Detach
    <3>3. QED
      BY <3>1, <3>2
  <2>5. ASSUME NEW s \in Side, NEW c \in Channel, RegisterCallback(s, c)
        PROVE  OrderAt(r, k)'
    <3>1. CASE r = s
      BY <2>0, <2>5, <3>1 DEF RegisterCallback
    <3>2. CASE ~(r = s)
      BY <2>0, <2>5, <3>2 DEF RegisterCallback
    <3>3. QED
      BY <3>1, <3>2
  <2>6. ASSUME NEW s \in Side, NEW c \in Channel, UnregisterCallback(s, c)
        PROVE  OrderAt(r, k)'
    <3>1. CASE r = s
      BY <2>0, <2>6, <3>1 DEF UnregisterCallback
    <3>2. CASE ~(r = s)
      BY <2>0, <2>6, <3>2 DEF UnregisterCallback
    <3>3. QED
      BY <3>1, <3>2
  <2>7. ASSUME NEW s \in Side, EnterHandler(s)
        PROVE  OrderAt(r, k)'
    <3>1. CASE r = s
      BY <2>0, <2>7, <3>1 DEF EnterHandler
    <3>2. CASE ~(r = s)
      BY <2>0, <2>7, <3>2 DEF EnterHandler
    <3>3. QED
      BY <3>1, <3>2
  <2>8. ASSUME NEW s \in Side, HandleTxDone(s)
        PROVE  OrderAt(r, k)'
    <3>1. CASE r = s
      BY <2>0, <2>8, <3>1 DEF HandleTxDone, SetStatus
    <3>2. CASE ~(r = s)
      BY <2>0, <2>8, <3>2 DEF HandleTxDone, SetStatus
    <3>3. QED
      BY <3>1, <3>2
  <2>9. ASSUME NEW s \in Side, SkipIdle(s)
        PROVE  OrderAt(r, k)'
    <3>1. Onward(s)
      BY <2>9, NextChannelOnward DEF SkipIdle
    <3>2. CASE r = s
      BY <2>0, <2>9, <3>1, <3>2 DEF SkipIdle, Onward
    <3>3. CASE ~(r = s)
      BY <2>0, <2>9, <3>1, <3>3 DEF SkipIdle, Onward
    <3>4. QED
      BY <3>2, <3>3
  <2>10. ASSUME NEW s \in Side, ReadMessage(s)
        PROVE  OrderAt(r, k)'
    <3>1. CASE r = s
      BY <2>0, <2>10, <3>1 DEF ReadMessage
    <3>2. CASE ~(r = s)
      <4>1. s = Peer(r) /\ r = Peer(s)
        BY <3>2
      <4>2. CASE ich[s] = k
        <5>1. /\ ~Holding(s, k) /\ Fresh(r, k)
              /\ imsg'[s] = data[r][k] /\ got[s][k] < data[r][k]
              /\ ich'[s] = k /\ ipc'[s] = "done"
          BY <2>10, <4>1, <4>2 DEF ReadMessage
        <5>2. UNCHANGED <<data, got, offered, status, spc, smsg>>
          BY <2>10 DEF ReadMessage
        <5>3. Holding(Peer(r), k)' /\ (got[Peer(r)][k] < imsg[Peer(r)])'
          BY <4>1, <5>1, <5>2
        <5>4. (imsg[Peer(r)] <= data[r][k])'
          BY <2>0, <4>1, <5>1, <5>2
        <5>5. ASSUME NEW t \in Sender, SideOf[t] = r, ChanOf[t] = k
              PROVE  spc[t] # "busy"
          BY <2>10, <4>1, <4>2, <5>5 DEF ReadMessage
        <5>6. QED
          BY <4>1, <5>1, <5>2, <5>3, <5>4, <5>5
      <4>3. CASE ich[s] # k
        BY <2>0, <2>10, <4>1, <4>3 DEF ReadMessage
      <4>4. QED
        BY <4>2, <4>3
    <3>3. QED
      BY <3>1, <3>2
  <2>11. ASSUME NEW s \in Side, MarkDone(s)
        PROVE  OrderAt(r, k)'
    <3>1. CASE r = s
      BY <2>0, <2>11, <3>1 DEF MarkDone, SetStatus
    <3>2. CASE ~(r = s)
      BY <2>0, <2>11, <3>2 DEF MarkDone, SetStatus
    <3>3. QED
      BY <3>1, <3>2
  <2>12. ASSUME NEW s \in Side, NotifyDone(s)
        PROVE  OrderAt(r, k)'
    <3>1. CASE r = s
      BY <2>0, <2>12, <3>1 DEF NotifyDone, SetPendingIRQ
    <3>2. CASE ~(r = s)
      BY <2>0, <2>12, <3>2 DEF NotifyDone, SetPendingIRQ
    <3>3. QED
      BY <3>1, <3>2
  <2>13. ASSUME NEW s \in Side, CallRecvCb(s)
        PROVE  OrderAt(r, k)'
    <3>1. CASE r = s
      BY <2>0, <2>13, <3>1 DEF CallRecvCb
    <3>2. CASE ~(r = s)
      BY <2>0, <2>13, <3>2 DEF CallRecvCb
    <3>3. QED
      BY <3>1, <3>2
  <2>14. ASSUME NEW s \in Side, FinishWithAck(s)
        PROVE  OrderAt(r, k)'
    <3>1. CASE r = s
      BY <2>0, <2>14, <3>1 DEF FinishWithAck, SetStatus
    <3>2. CASE ~(r = s)
      BY <2>0, <2>14, <3>2 DEF FinishWithAck, SetStatus
    <3>3. QED
      BY <3>1, <3>2
  <2>15. ASSUME NEW s \in Side, NotifyAck(s)
        PROVE  OrderAt(r, k)'
    <3>1. Onward(s)
      BY <2>15, NextChannelOnward DEF NotifyAck
    <3>2. CASE r = s
      BY <2>0, <2>15, <3>1, <3>2 DEF NotifyAck, SetPendingIRQ, Onward
    <3>3. CASE ~(r = s)
      BY <2>0, <2>15, <3>1, <3>3 DEF NotifyAck, SetPendingIRQ, Onward
    <3>4. QED
      BY <3>2, <3>3
  <2>16. ASSUME NEW s \in Side, FinishNoAck(s)
        PROVE  OrderAt(r, k)'
    <3>1. Onward(s)
      BY <2>16, NextChannelOnward DEF FinishNoAck
    <3>2. CASE r = s
      BY <2>0, <2>16, <3>1, <3>2 DEF FinishNoAck, SetStatus, Onward
    <3>3. CASE ~(r = s)
      BY <2>0, <2>16, <3>1, <3>3 DEF FinishNoAck, SetStatus, Onward
    <3>4. QED
      BY <3>2, <3>3
  <2>17. ASSUME NEW t \in Sender, NEW block \in BOOLEAN, SendStart(t, block)
        PROVE  OrderAt(r, k)'
    <3>1. CASE SideOf[t] = r /\ ChanOf[t] = k
      BY <2>0, <2>17, <3>1 DEF SendStart
    <3>2. CASE ~(SideOf[t] = r /\ ChanOf[t] = k)
      BY <2>0, <2>17, <3>2 DEF SendStart
    <3>3. QED
      BY <3>1, <3>2
  <2>18. ASSUME NEW t \in Sender, PollReady(t)
        PROVE  OrderAt(r, k)'
    <3>1. CASE SideOf[t] = r /\ ChanOf[t] = k
      BY <2>0, <2>18, <3>1 DEF PollReady, SenderAt, SenderTo
    <3>2. CASE ~(SideOf[t] = r /\ ChanOf[t] = k)
      BY <2>0, <2>18, <3>2 DEF PollReady, SenderAt, SenderTo
    <3>3. QED
      BY <3>1, <3>2
  <2>19. ASSUME NEW t \in Sender, GiveUp(t)
        PROVE  OrderAt(r, k)'
    <3>1. CASE SideOf[t] = r /\ ChanOf[t] = k
      BY <2>0, <2>19, <3>1 DEF GiveUp, SenderAt, SenderTo
    <3>2. CASE ~(SideOf[t] = r /\ ChanOf[t] = k)
      BY <2>0, <2>19, <3>2 DEF GiveUp, SenderAt, SenderTo
    <3>3. QED
      BY <3>1, <3>2
  <2>20. ASSUME NEW t \in Sender, WriteData(t)
        PROVE  OrderAt(r, k)'
    <3>1. CASE SideOf[t] = r /\ ChanOf[t] = k
      BY <2>0, <2>20, <3>1 DEF WriteData, SenderAt, SenderTo
    <3>2. CASE ~(SideOf[t] = r /\ ChanOf[t] = k)
      BY <2>0, <2>20, <3>2 DEF WriteData, SenderAt, SenderTo
    <3>3. QED
      BY <3>1, <3>2
  <2>21. ASSUME NEW t \in Sender, WriteBusy(t)
        PROVE  OrderAt(r, k)'
    <3>1. CASE SideOf[t] = r /\ ChanOf[t] = k
      BY <2>0, <2>21, <3>1 DEF WriteBusy, SetStatus, SenderAt, SenderTo
    <3>2. CASE ~(SideOf[t] = r /\ ChanOf[t] = k)
      BY <2>0, <2>21, <3>2 DEF WriteBusy, SetStatus, SenderAt, SenderTo
    <3>3. QED
      BY <3>1, <3>2
  <2>22. ASSUME NEW t \in Sender, KickRemote(t)
        PROVE  OrderAt(r, k)'
    <3>1. CASE SideOf[t] = r /\ ChanOf[t] = k
      BY <2>0, <2>22, <3>1 DEF KickRemote, SetPendingIRQ, SenderAt, SenderTo
    <3>2. CASE ~(SideOf[t] = r /\ ChanOf[t] = k)
      BY <2>0, <2>22, <3>2 DEF KickRemote, SetPendingIRQ, SenderAt, SenderTo
    <3>3. QED
      BY <3>1, <3>2
  <2>23. ASSUME NEW t \in Sender, PutRef(t)
        PROVE  OrderAt(r, k)'
    <3>1. CASE SideOf[t] = r /\ ChanOf[t] = k
      BY <2>0, <2>23, <3>1 DEF PutRef, SenderAt, SenderTo
    <3>2. CASE ~(SideOf[t] = r /\ ChanOf[t] = k)
      BY <2>0, <2>23, <3>2 DEF PutRef, SenderAt, SenderTo
    <3>3. QED
      BY <3>1, <3>2
  <2>24. CASE UNCHANGED vars
    BY <2>24 DEF vars
  <2> HIDE DEF TypeOK, OrderInv, OrderAt, Holding, Fresh, Side, Peer,
               OneSenderPerChannel
  <2>25. QED
    BY <2>1, <2>2, <2>3, <2>4, <2>5, <2>6, <2>7, <2>8, <2>9, <2>10, <2>11, <2>12,
       <2>13, <2>14, <2>15, <2>16, <2>17, <2>18, <2>19, <2>20, <2>21, <2>22, <2>23, <2>24
    DEF Next, Traffic, Attachment, Handler, SendStep
<1>3. [Traffic]_vars => [Next]_vars
  BY DEF Next
<1>4. QED
  BY <1>1, <1>2, <1>3, TypeCorrect, PTL DEF Spec, LinkedSpec

(* So callbacks see each message at most once and in the order sent,        *)
(* whatever is lost: the mailbox implements a lossy register per channel.   *)
THEOREM ImplementsLossyRegister ==
  ASSUME OneSenderPerChannel
  PROVE  (Spec \/ LinkedSpec) => IsLossyRegister
<1> USE PeerFacts DEF Link, delivery
<1>1. Init \/ LinkedInit => Register!Init
  BY DEF Init, LinkedInit, Quiet, Register!Init
<1>2. TypeOK /\ OrderInv /\ [Next]_vars
        => [Register!Next]_<<[l \in Link |-> data[l[1]][l[2]]],
                             [l \in Link |-> got[Peer(l[1])][l[2]]],
                             [l \in Link |-> given[Peer(l[1])][l[2]]]>>
  <2> SUFFICES ASSUME TypeOK, OrderInv, [Next]_vars
               PROVE  [Register!Next]_<<[l \in Link |-> data[l[1]][l[2]]],
                                        [l \in Link |-> got[Peer(l[1])][l[2]]],
                             [l \in Link |-> given[Peer(l[1])][l[2]]]>>
    OBVIOUS
  <2>1. CASE UNCHANGED <<data, got, given>>
    BY <2>1
  <2>2. ASSUME NEW t \in Sender, WriteData(t)
        PROVE  Register!Next
    <3> DEFINE l == <<SideOf[t], ChanOf[t]>>
    <3>1. /\ l \in Link /\ l[1] = SideOf[t] /\ l[2] = ChanOf[t]
          /\ spc[t] = "write" /\ got' = got /\ given' = given
          /\ data' = [data EXCEPT ![l[1]][l[2]] = smsg[t]]
      BY <2>2 DEF WriteData, SenderAt, SenderTo
    <3>2. smsg[t] > data[l[1]][l[2]]
      BY <3>1 DEF TypeOK, OrderInv, OrderAt
    <3>3. \A k \in Link : data'[k[1]][k[2]] =
                           IF k = l THEN smsg[t] ELSE data[k[1]][k[2]]
      BY <3>1 DEF TypeOK
    <3> HIDE DEF l
    <3>4. Register!Post(l)
      BY <3>1, <3>2, <3>3 DEF Register!Post
    <3>5. QED
      BY <3>1, <3>4 DEF Register!Next
  <2>3. ASSUME NEW s \in Side, CallRecvCb(s), cb[s][ich[s]]
        PROVE  Register!Next
    <3>0. PICK l \in Link : l = <<Peer(s), ich[s]>>
      BY DEF TypeOK
    <3>1. /\ l \in Link /\ l[1] = Peer(s) /\ l[2] = ich[s] /\ Peer(l[1]) = s
          /\ ipc[s] = "cb" /\ data' = data
          /\ got' = [got EXCEPT ![s][l[2]] = imsg[s]]
          /\ given' = [given EXCEPT ![s][l[2]] = @ + 1]
      BY <2>3, <3>0 DEF CallRecvCb, shared
    <3>2. got[s][l[2]] < imsg[s] /\ imsg[s] <= data[l[1]][l[2]]
      BY <3>1 DEF OrderInv, OrderAt, Holding
    <3>3. \A k \in Link :
            /\ got'[Peer(k[1])][k[2]] =
                 IF k = l THEN imsg[s] ELSE got[Peer(k[1])][k[2]]
            /\ given'[Peer(k[1])][k[2]] =
                 given[Peer(k[1])][k[2]] + (IF k = l THEN 1 ELSE 0)
      <4>1. \A k \in Link : Peer(k[1]) = s /\ k[2] = l[2] => k = l
        BY <3>1
      <4>2. \A q \in Side, c \in Channel :
              /\ got'[q][c] = IF q = s /\ c = l[2] THEN imsg[s] ELSE got[q][c]
              /\ given'[q][c] =
                   given[q][c] + (IF q = s /\ c = l[2] THEN 1 ELSE 0)
              /\ given[q][c] \in Nat
        BY <3>1 DEF TypeOK
      <4>3. QED
        BY <3>1, <4>1, <4>2
    <3>4. Register!Deliver(l)
      <4> DEFINE last(k) == got[Peer(k[1])][k[2]]
                 num(k)  == given[Peer(k[1])][k[2]]
      <4>1. last(l)' = imsg[s] /\ last(l) < imsg[s]
        BY <3>1, <3>2, <3>3
      <4>2. \A k \in Link : last(k)' = IF k = l THEN imsg[s] ELSE last(k)
        BY <3>3
      <4>3. \A k \in Link : num(k)' = IF k = l THEN num(l) + 1 ELSE num(k)
        BY <3>3 DEF TypeOK
      <4> HIDE DEF last, num
      <4>4. [k \in Link |-> last(k)]' =
              [[k \in Link |-> last(k)] EXCEPT ![l] = imsg[s]]
        BY <4>2
      <4>5. [k \in Link |-> num(k)]' =
              [[k \in Link |-> num(k)] EXCEPT ![l] = @ + 1]
        BY <3>0, <4>3
      <4> USE DEF last, num
      <4>6. QED
        BY <3>1, <3>2, <4>1, <4>4, <4>5 DEF Register!Deliver
    <3>5. QED
      BY <3>1, <3>4 DEF Register!Next
  <2>4. QED
    <3>1. ASSUME NEW t \in Sender, SendStep(t)
          PROVE  (UNCHANGED <<data, got, given>>) \/ WriteData(t)
      BY <3>1 DEF SendStep, PollReady, GiveUp, WriteBusy, KickRemote, PutRef,
                  SenderTo, shared, SetStatus, SetPendingIRQ
    <3>2. ASSUME NEW s \in Side, Handler(s)
          PROVE  (UNCHANGED <<data, got, given>>) \/ (CallRecvCb(s) /\ cb[s][ich[s]])
      BY <3>2 DEF Handler, EnterHandler, HandleTxDone, SkipIdle, ReadMessage,
                  MarkDone, NotifyDone, CallRecvCb, FinishWithAck, NotifyAck,
                  FinishNoAck, SetStatus, shared
    <3>3. ASSUME NEW s \in Side, Attachment(s)
          PROVE  UNCHANGED <<data, got, given>>
      BY <3>3 DEF Attachment, Attach, ClearChannel, ClearRx, ClearTx,
                  SetStatus, EnableIRQ, Detach,
                  RegisterCallback, UnregisterCallback, shared
    <3>4. ASSUME NEW t \in Sender, NEW block \in BOOLEAN, SendStart(t, block)
          PROVE  UNCHANGED <<data, got, given>>
      BY <3>4 DEF SendStart, shared
    <3>5. CASE UNCHANGED vars
      BY <2>1, <3>5 DEF vars
    <3>6. QED
      BY <2>1, <2>2, <2>3, <3>1, <3>2, <3>3, <3>4, <3>5 DEF Next, Traffic
<1>3. [Traffic]_vars => [Next]_vars
  BY DEF Next
<1>4. QED
  BY <1>1, <1>2, <1>3, OrderInductive, PTL
  DEF Spec, LinkedSpec, IsLossyRegister, Register!Spec

-----------------------------------------------------------------------------
(* References.                                                             *)

(* The registered callbacks of a side, and its senders inside a call.      *)
Called(s) == {c \in Channel : cb[s][c]}
Inside(s) == {t \in Sender : SideOf[t] = s /\ spc[t] # "idle"}

(* A mailbox that is up holds a reference for each of them (and one for    *)
(* each send that gave up); one that is not has none of them, and its      *)
(* interrupt handler does not run.                                         *)
RefsHeld(s) ==
  /\ IsFiniteSet(Inside(s))
  /\ IF att[s] = "up"
       THEN Cardinality(Called(s)) + Cardinality(Inside(s)) <= ref[s]
       ELSE ipc[s] = "idle" /\ Called(s) = {} /\ Inside(s) = {}

AllRefsHeld == \A s \in Side : RefsHeld(s)

(* Counting.                                                               *)
LEMMA AddOne ==
  ASSUME NEW S, IsFiniteSet(S), NEW e, e \notin S
  PROVE  IsFiniteSet(S \cup {e}) /\ Cardinality(S \cup {e}) = Cardinality(S) + 1
BY FS_AddElement

LEMMA DropOne ==
  ASSUME NEW S, IsFiniteSet(S), NEW e, e \in S
  PROVE  IsFiniteSet(S \ {e}) /\ Cardinality(S \ {e}) = Cardinality(S) - 1
BY FS_RemoveElement

LEMMA ChannelsFinite ==
  /\ IsFiniteSet(Channel) /\ Cardinality(Channel) = MaxCh
  /\ \A S \in SUBSET Channel : IsFiniteSet(S)
<1>1. IsFiniteSet(Channel) /\ Cardinality(Channel) = MaxCh
  BY FS_Interval DEF Channel
<1>2. QED
  BY <1>1, FS_Subset

(* The counts of a mailbox in use are small enough for its references.     *)
LEMMA CountsTyped ==
  ASSUME NEW s \in Side, RefsHeld(s)
  PROVE  /\ Cardinality(Called(s)) \in Nat /\ Cardinality(Inside(s)) \in Nat
         /\ IsFiniteSet(Called(s)) /\ IsFiniteSet(Inside(s))
<1>1. IsFiniteSet(Called(s)) /\ IsFiniteSet(Inside(s))
  BY ChannelsFinite DEF Called, RefsHeld
<1>2. QED
  BY <1>1, FS_CardinalityType

(* A step that changes none of what is counted.                            *)
LEMMA RefsUntouched ==
  ASSUME NEW s \in Side, RefsHeld(s), att'[s] = att[s], ref'[s] = ref[s],
         Called(s)' = Called(s), Inside(s)' = Inside(s),
         ipc'[s] = ipc[s] \/ att[s] = "up"
  PROVE  RefsHeld(s)'
BY DEF RefsHeld

(* References are taken before, and given back after, what they protect.   *)
LEMMA RefsInductive ==
  ASSUME TypeOK, AllRefsHeld, [Next]_vars
  PROVE  AllRefsHeld'
<1> SUFFICES ASSUME NEW r \in Side PROVE RefsHeld(r)'
  BY DEF AllRefsHeld
<1>a. /\ \A s \in Side : RefsHeld(s) /\ ref[s] \in Int
      /\ att \in [Side -> {"down", "clear", "cleartx", "up"}]
      /\ cb \in [Side -> [Channel -> BOOLEAN]] /\ ref \in [Side -> Int]
      /\ ipc \in [Side -> IPc] /\ spc \in [Sender -> SPc]
      /\ zero \in [Side -> 0 .. MaxCh]
      /\ \A s \in Side : att[s] = "cleartx" => zero[s] \in Channel
  BY ChannelFacts DEF TypeOK, AllRefsHeld
<1>b. /\ Cardinality(Called(r)) \in Nat /\ Cardinality(Inside(r)) \in Nat
      /\ IsFiniteSet(Called(r)) /\ IsFiniteSet(Inside(r)) /\ RefsHeld(r)
  BY <1>a, CountsTyped
<1>1. ASSUME NEW s \in Side, Attach(s) PROVE RefsHeld(r)'
  BY <1>a, <1>1 DEF Attach, handler, sender, RefsHeld, Called, Inside
<1>2. ASSUME NEW s \in Side, ClearRx(s) PROVE RefsHeld(r)'
  BY <1>a, <1>2 DEF ClearRx, handler, sender, RefsHeld, Called, Inside
<1>3. ASSUME NEW s \in Side, ClearTx(s) PROVE RefsHeld(r)'
  <2>1. /\ att' = [att EXCEPT ![s] = "clear"] /\ att[s] = "cleartx"
        /\ UNCHANGED <<ref, ipc, spc>>
        /\ cb' = [cb EXCEPT ![s][zero[s]] = FALSE]
    BY <1>3 DEF ClearTx, handler, sender
  <2>2. Inside(r)' = Inside(r) /\ (r # s => Called(r)' = Called(r))
    BY <1>a, <2>1 DEF Inside, Called
  <2>3. CASE r = s
    <3>1. Called(r) = {} /\ Inside(r) = {} /\ ipc[r] = "idle"
      BY <1>a, <2>1, <2>3 DEF RefsHeld
    <3>2. Called(r)' = {}
      BY <1>a, <2>1, <2>3, <3>1 DEF Called
    <3>3. QED
      BY <1>a, <1>b, <2>1, <2>2, <2>3, <3>1, <3>2 DEF RefsHeld
  <2>4. QED
    BY <1>a, <2>1, <2>2, <2>3, RefsUntouched
<1>4. ASSUME NEW s \in Side, EnableIRQ(s) PROVE RefsHeld(r)'
  <2>1. /\ att' = [att EXCEPT ![s] = "up"] /\ att[s] = "clear"
        /\ ref' = [ref EXCEPT ![s] = 0] /\ UNCHANGED <<cb, ipc, spc>>
    BY <1>4 DEF EnableIRQ, handler, sender
  <2>2. Inside(r)' = Inside(r) /\ Called(r)' = Called(r)
    BY <2>1 DEF Inside, Called
  <2>3. CASE r = s
    <3>1. Called(r) = {} /\ Inside(r) = {}
      BY <1>a, <2>1, <2>3 DEF RefsHeld
    <3>2. Cardinality(Called(r)') + Cardinality(Inside(r)') = 0
      BY <2>2, <3>1, FS_EmptySet
    <3>3. QED
      BY <1>a, <1>b, <2>1, <2>2, <2>3, <3>2 DEF RefsHeld
  <2>4. QED
    BY <1>a, <2>1, <2>2, <2>3, RefsUntouched
<1>5. ASSUME NEW s \in Side, Detach(s) PROVE RefsHeld(r)'
  <2>1. /\ att' = [att EXCEPT ![s] = "down"] /\ att[s] = "up" /\ ref[s] <= 0
        /\ ipc[s] = "idle" /\ UNCHANGED <<cb, ref, ipc, spc>>
    BY <1>5 DEF Detach, TasksRun, handler, sender
  <2>2. Inside(r)' = Inside(r) /\ Called(r)' = Called(r)
    BY <2>1 DEF Inside, Called
  <2>3. CASE r = s
    <3>0. /\ Cardinality(Called(r)) + Cardinality(Inside(r)) <= ref[r]
          /\ ref[r] <= 0 /\ ref[r] \in Int
      BY <1>a, <1>b, <2>1, <2>3 DEF RefsHeld
    <3>1. Cardinality(Called(r)) = 0 /\ Cardinality(Inside(r)) = 0
      BY <1>b, <3>0
    <3>2. Called(r) = {} /\ Inside(r) = {}
      BY <1>b, <3>1, FS_EmptySet
    <3>3. QED
      BY <1>a, <1>b, <2>1, <2>2, <2>3, <3>2 DEF RefsHeld
  <2>4. QED
    BY <1>a, <2>1, <2>2, <2>3, RefsUntouched
<1>6. ASSUME NEW s \in Side, NEW c \in Channel, RegisterCallback(s, c) PROVE RefsHeld(r)'
  <2>1. /\ att' = att /\ att[s] = "up" /\ ~cb[s][c]
        /\ cb' = [cb EXCEPT ![s][c] = TRUE] /\ ref' = [ref EXCEPT ![s] = @ + 1]
        /\ UNCHANGED <<ipc, spc>>
    BY <1>6 DEF RegisterCallback, control, handler, sender
  <2>2. Inside(r)' = Inside(r) /\ (r # s => Called(r)' = Called(r))
    BY <1>a, <2>1 DEF Inside, Called
  <2>3. CASE r = s
    <3>1. c \notin Called(r) /\ Called(r)' = Called(r) \cup {c}
      BY <1>a, <2>1, <2>3 DEF Called
    <3>2. Cardinality(Called(r)') = Cardinality(Called(r)) + 1
      BY <1>b, <3>1, AddOne
    <3>3. Cardinality(Inside(r)') = Cardinality(Inside(r)) /\ ref'[r] = ref[r] + 1
      BY <1>a, <2>1, <2>2, <2>3
    <3>4. QED
      BY <1>a, <1>b, <2>1, <2>2, <2>3, <3>2, <3>3 DEF RefsHeld
  <2>4. QED
    BY <1>a, <2>1, <2>2, <2>3, RefsUntouched
<1>7. ASSUME NEW s \in Side, NEW c \in Channel, UnregisterCallback(s, c) PROVE RefsHeld(r)'
  <2>1. /\ att' = att /\ att[s] = "up" /\ cb[s][c]
        /\ cb' = [cb EXCEPT ![s][c] = FALSE] /\ ref' = [ref EXCEPT ![s] = @ - 1]
        /\ UNCHANGED <<ipc, spc>>
    BY <1>7 DEF UnregisterCallback, control, handler, sender
  <2>2. Inside(r)' = Inside(r) /\ (r # s => Called(r)' = Called(r))
    BY <1>a, <2>1 DEF Inside, Called
  <2>3. CASE r = s
    <3>1. c \in Called(r) /\ Called(r)' = Called(r) \ {c}
      BY <1>a, <2>1, <2>3 DEF Called
    <3>2. Cardinality(Called(r)') = Cardinality(Called(r)) - 1
      BY <1>b, <3>1, DropOne
    <3>3. Cardinality(Inside(r)') = Cardinality(Inside(r)) /\ ref'[r] = ref[r] - 1
      BY <1>a, <2>1, <2>2, <2>3
    <3>4. QED
      BY <1>a, <1>b, <2>1, <2>2, <2>3, <3>2, <3>3 DEF RefsHeld
  <2>4. QED
    BY <1>a, <2>1, <2>2, <2>3, RefsUntouched
<1>8. ASSUME NEW s \in Side, Handler(s) PROVE RefsHeld(r)'
  <2>1. UNCHANGED <<att, cb, ref, spc>>
    BY <1>8 DEF Handler, EnterHandler, HandleTxDone, SkipIdle, ReadMessage, MarkDone, NotifyDone,
       CallRecvCb, FinishWithAck, NotifyAck, FinishNoAck, control, sender
  <2>2. ipc[s] # "idle" \/ att[s] = "up"
    BY <1>8 DEF Handler, EnterHandler, HandleTxDone, SkipIdle, ReadMessage, MarkDone, NotifyDone,
       CallRecvCb, FinishWithAck, NotifyAck, FinishNoAck
  <2>3. att[s] = "up"
    BY <1>a, <2>2 DEF RefsHeld
  <2>4. r # s => ipc'[r] = ipc[r]
    <3>1. \E w : ipc' = [ipc EXCEPT ![s] = w]
      BY <1>8 DEF Handler, EnterHandler, HandleTxDone, SkipIdle, ReadMessage, MarkDone, NotifyDone,
         CallRecvCb, FinishWithAck, NotifyAck, FinishNoAck, NextChannel
    <3>2. QED
      BY <1>a, <3>1
  <2>5. QED
    BY <1>b, <2>1, <2>3, <2>4, RefsUntouched DEF Called, Inside
<1>9. ASSUME NEW t \in Sender, NEW block \in BOOLEAN, SendStart(t, block) PROVE RefsHeld(r)'
  <2>1. /\ SideOf[t] \in Side /\ att[SideOf[t]] = "up" /\ spc[t] = "idle"
        /\ spc' = [spc EXCEPT ![t] = "poll"] /\ ref' = [ref EXCEPT ![SideOf[t]] = @ + 1]
        /\ UNCHANGED <<att, cb, ipc>>
    BY <1>9 DEF SendStart, control, handler
  <2>2. Called(r)' = Called(r) /\ (r # SideOf[t] => Inside(r)' = Inside(r))
    BY <1>a, <2>1 DEF Inside, Called
  <2>3. CASE r = SideOf[t]
    <3>1. t \notin Inside(r) /\ Inside(r)' = Inside(r) \cup {t}
      BY <1>a, <2>1, <2>3 DEF Inside
    <3>2. IsFiniteSet(Inside(r)') /\ Cardinality(Inside(r)') = Cardinality(Inside(r)) + 1
      BY <1>b, <3>1, AddOne
    <3>3. Cardinality(Called(r)') = Cardinality(Called(r)) /\ ref'[r] = ref[r] + 1
      BY <1>a, <2>1, <2>2, <2>3
    <3>4. QED
      BY <1>a, <1>b, <2>1, <2>2, <2>3, <3>2, <3>3 DEF RefsHeld
  <2>4. QED
    BY <1>a, <2>1, <2>2, <2>3, RefsUntouched
<1>10. ASSUME NEW t \in Sender, PutRef(t) PROVE RefsHeld(r)'
  <2>1. /\ SideOf[t] \in Side /\ spc[t] = "put"
        /\ spc' = [spc EXCEPT ![t] = "idle"] /\ ref' = [ref EXCEPT ![SideOf[t]] = @ - 1]
        /\ UNCHANGED <<att, cb, ipc>>
    BY <1>10 DEF PutRef, SenderAt, SenderTo, control, handler
  <2>2. Called(r)' = Called(r) /\ (r # SideOf[t] => Inside(r)' = Inside(r))
    BY <1>a, <2>1 DEF Inside, Called
  <2>3. CASE r = SideOf[t]
    <3>1. t \in Inside(r) /\ Inside(r)' = Inside(r) \ {t}
      BY <1>a, <2>1, <2>3 DEF Inside
    <3>2. IsFiniteSet(Inside(r)') /\ Cardinality(Inside(r)') = Cardinality(Inside(r)) - 1
      BY <1>b, <3>1, DropOne
    <3>3. Cardinality(Called(r)') = Cardinality(Called(r)) /\ ref'[r] = ref[r] - 1
      BY <1>a, <2>1, <2>2, <2>3
    <3>4. att[r] = "up"
      BY <1>b, <3>1 DEF RefsHeld
    <3>5. QED
      BY <1>a, <1>b, <2>1, <2>2, <2>3, <3>2, <3>3, <3>4 DEF RefsHeld
  <2>4. QED
    BY <1>a, <2>1, <2>2, <2>3, RefsUntouched
<1>11. ASSUME NEW t \in Sender, GiveUp(t) PROVE RefsHeld(r)'
  <2>1. /\ SideOf[t] \in Side /\ spc[t] = "poll"
        /\ spc' = [spc EXCEPT ![t] = "idle"] /\ UNCHANGED <<att, cb, ipc, ref>>
    BY <1>11 DEF GiveUp, SenderAt, SenderTo, control, handler
  <2>2. Called(r)' = Called(r) /\ (r # SideOf[t] => Inside(r)' = Inside(r))
    BY <1>a, <2>1 DEF Inside, Called
  <2>3. CASE r = SideOf[t]
    <3>1. t \in Inside(r) /\ Inside(r)' = Inside(r) \ {t}
      BY <1>a, <2>1, <2>3 DEF Inside
    <3>2. IsFiniteSet(Inside(r)') /\ Cardinality(Inside(r)') = Cardinality(Inside(r)) - 1
      BY <1>b, <3>1, DropOne
    <3>3. att[r] = "up" /\ Cardinality(Called(r)') = Cardinality(Called(r))
      BY <1>b, <2>2, <3>1 DEF RefsHeld
    <3>4. QED
      BY <1>a, <1>b, <2>1, <2>2, <2>3, <3>2, <3>3 DEF RefsHeld
  <2>4. QED
    BY <1>a, <2>1, <2>2, <2>3, RefsUntouched
<1>12. ASSUME NEW t \in Sender, PollReady(t) \/ WriteData(t) \/ WriteBusy(t) \/ KickRemote(t)
       PROVE  RefsHeld(r)'
  <2>1. /\ spc[t] # "idle" /\ UNCHANGED <<att, cb, ipc, ref>>
        /\ \E w \in SPc \ {"idle"} : spc' = [spc EXCEPT ![t] = w]
    BY <1>12 DEF PollReady, WriteData, WriteBusy, KickRemote, SenderAt, SenderTo, control, handler, SPc
  <2>2. Called(r)' = Called(r) /\ Inside(r)' = Inside(r)
    BY <1>a, <2>1 DEF Inside, Called
  <2>3. QED
    BY <1>b, <2>1, <2>2, RefsUntouched
<1>13. CASE UNCHANGED vars
  <2>1. Called(r)' = Called(r) /\ Inside(r)' = Inside(r) /\ UNCHANGED <<att, ref, ipc>>
    BY <1>13 DEF vars, Called, Inside
  <2>2. QED
    BY <1>b, <2>1, RefsUntouched
<1>14. QED
  BY <1>1, <1>2, <1>3, <1>4, <1>5, <1>6, <1>7, <1>8, <1>9, <1>10, <1>11, <1>12, <1>13
  DEF Next, Traffic, Attachment, ClearChannel, SendStep

(* gen_sw_mbox_unregister() finds no sender inside a call and no handler   *)
(* running: the reference count keeps the mailbox while it is in use.      *)
THEOREM NeverFreedInUse == (Spec \/ LinkedSpec) => []Referenced
<1>1. Init \/ LinkedInit => AllRefsHeld
  <2> SUFFICES ASSUME Init \/ LinkedInit, NEW s \in Side PROVE RefsHeld(s)
    BY DEF AllRefsHeld
  <2>1. Inside(s) = {} /\ ipc[s] = "idle"
    BY DEF Init, LinkedInit, Quiet, Inside
  <2>2. IsFiniteSet(Inside(s)) /\ Cardinality(Inside(s)) = 0
    BY <2>1, FS_EmptySet
  <2>3. CASE Init
    BY <2>1, <2>2, <2>3 DEF Init, Called, RefsHeld
  <2>4. CASE LinkedInit
    <3>1. Called(s) = Channel /\ ref[s] = MaxCh
      BY <2>4 DEF LinkedInit, Called
    <3>2. Cardinality(Called(s)) + Cardinality(Inside(s)) <= ref[s]
      BY <2>2, <3>1, ChannelsFinite
    <3>3. QED
      BY <2>2, <2>4, <3>2 DEF LinkedInit, RefsHeld
  <2>5. QED
    BY <2>3, <2>4
<1>2. TypeOK /\ AllRefsHeld /\ [Next]_vars => AllRefsHeld'
  BY RefsInductive
<1>3. AllRefsHeld => Referenced
  BY DEF AllRefsHeld, RefsHeld, Referenced, Inside
<1>4. [Traffic]_vars => [Next]_vars
  BY DEF Next
<1>5. QED
  BY <1>1, <1>2, <1>3, <1>4, TypeCorrect, PTL DEF Spec, LinkedSpec
=============================================================================
