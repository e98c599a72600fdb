SPECIFICATION Spec
CONSTANTS
  Width = 4
  Sessions <- MCSessions
  Top = 22
  Settings <- MCSettings
  Period = 17
  Words = 2
  Jobs <- MCJobs
  MaxLost = 1
  Patience = 1
  Depth = 4
  Plans <- MCPlans
  QueueLen = 1
  Rounds = 2
  Peers = {30, 31}
  Cases <- MCCases
  CountWidth = 7
  TickWidth = 5
  Buffers = 2
  Scripts <- MCScripts
  Setups <- MCSetups
  Samples = {0, 2, 7}
  MaxInt = 7
  StatsPeriod = 2
  Log2Size = 2
  Slots = 2
  SlotSize = 2
  MaxSamples = 4
  MaxTests = 2
INVARIANTS TypeOK NoFault Exclusion CountIsCurrent ClockKeepsTime
 NoJump SocketsServed NamesAgree PeerLinked StatsAreThose
PROPERTY WorkEnds
CHECK_DEADLOCK FALSE
