\* one short timeout
SPECIFICATION Spec
CONSTANTS
  c1 = c1
  c2 = c2
  c3 = c3
  Call <- ThreeCalls
  MayTimeout <- First
  ThrowCall <- None
  SelfExitCall <- None
  MaxQueueSize = 0
  NoCall = NoCall
INVARIANTS
  BusyNotInvoked
\* every call may have returned
CHECK_DEADLOCK FALSE
