SPECIFICATION FairSpec
CONSTANTS
    TimerLen = 1
    CoalCnt = 2
    MaxBufs = 2
    Loads <- AllLoads
INVARIANTS TypeOK QuietResetIsSafe ProbesStartAfresh NoLostInterrupt
PROPERTY BuffersUsedAndSeen
CHECK_DEADLOCK FALSE
