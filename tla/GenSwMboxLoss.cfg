CONSTANTS
  m1 = m1
  r1 = r1
  MaxCh = 1
  Ack = {}
  Sender <- Duplex
  SideOf <- DuplexSide
  ChanOf <- SharedChan
  MaxMsg = 2
  MaxAttach = 0
SPECIFICATION LinkedSpec
INVARIANTS ClearedMeansReceived

CHECK_DEADLOCK FALSE
