CONSTANTS
  Task = {t1, t2}
  Base = {b1, b2, b3}
  Mbox = {x1, x2, x3}
  None = None
  MaxInst = 2
  MaxCalls = 2
SPECIFICATION FairSpec
INVARIANTS TypeOK NoUseAfterFree Accounted PagesOwned
PROPERTY CallsReturn
CHECK_DEADLOCK FALSE
