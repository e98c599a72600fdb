CONSTANTS
  Num = 2
  Modulus = 4
  Settings <- AllQueues
SPECIFICATION FairSpec
INVARIANTS TypeOK OneOwner NoLostNotification
PROPERTY BuffersReturn
CHECK_DEADLOCK FALSE
