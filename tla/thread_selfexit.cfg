\* a queue of two; one target shuts its own thread down, one throws
SPECIFICATION FairSpec
CONSTANTS
  m1 = m1
  m2 = m2
  m3 = m3
  m4 = m4
  ExitMsg = ExitMsg
  Msg <- FourMsg
  HighMsg <- FirstMsg
  SelfExitMsg <- SecondMsg
  ThrowMsg <- ThirdMsg
  MaxQueueSize = 2
  FullPolicies <- NoWaiting
  OwnerExits = FALSE
  MaxCreate = 2
INVARIANTS
  SingleConsumer
PROPERTIES
  NoSilentDrop
  AcceptedServed
\* every call may have returned and the thread may be gone for good
CHECK_DEADLOCK FALSE
