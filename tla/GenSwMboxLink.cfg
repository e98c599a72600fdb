CONSTANTS
  m1 = m1
  r1 = r1
  MaxCh = 2
  Ack = {0}
  Sender <- Duplex
  SideOf <- DuplexSide
  ChanOf <- DuplexChan
  MaxMsg = 2
  MaxAttach = 0
SPECIFICATION LinkedSpec
INVARIANTS NoLostInterrupt NoLostAck
PROPERTY IsLossyRegister
CHECK_DEADLOCK FALSE
