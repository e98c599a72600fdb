CONSTANTS
  m1 = m1
  r1 = r1
  MaxCh = 2
  Ack = {1}
  Sender <- Simplex
  SideOf <- SimplexSide
  ChanOf <- SimplexChan
  MaxMsg = 2
  MaxAttach = 2
SPECIFICATION FairSpec
INVARIANTS TypeOK Referenced
PROPERTIES BlockingSendReturns
CHECK_DEADLOCK FALSE
