\* one short timeout, targets that may never return
SPECIFICATION StuckTargetSpec
CONSTANTS
  c1 = c1
  c2 = c2
  c3 = c3
  Call <- ThreeCalls
  MayTimeout <- First
  ThrowCall <- None
  SelfExitCall <- None
  MaxQueueSize = 0
  NoCall = NoCall
PROPERTIES
  TimeoutReleasesCaller
\* every call may have returned
CHECK_DEADLOCK FALSE
