CONSTANTS
  Num = 2
  Modulus = 4
  Settings <- EventQueue
SPECIFICATION Spec
INVARIANT EventWhenPassed
CHECK_DEADLOCK FALSE
