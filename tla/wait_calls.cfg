\* three callers, two of which may time out, a target that shuts the worker down, one that throws, a queue of two that drops
SPECIFICATION FairSpec
CONSTANTS
  c1 = c1
  c2 = c2
  c3 = c3
  Call <- ThreeCalls
  MayTimeout <- FirstAndThird
  ThrowCall <- Third
  SelfExitCall <- First
  MaxQueueSize = 2
  NoCall = NoCall
INVARIANTS
  TypeOK
  ArgsAlive
  ValueIsOwn
  WaitIsAnswered
PROPERTIES
  ImplementsSerialCalls
  CallReturns
\* every call may have returned
CHECK_DEADLOCK FALSE
