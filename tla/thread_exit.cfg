\* a queue of one under each policy, shut down and restarted by its owner
SPECIFICATION FairSpec
CONSTANTS
  m1 = m1
  m2 = m2
  m3 = m3
  m4 = m4
  ExitMsg = ExitMsg
  Msg <- FourMsg
  HighMsg <- FirstMsg
  SelfExitMsg <- NoMsg
  ThrowMsg <- NoMsg
  MaxQueueSize = 1
  FullPolicies <- AllPolicies
  OwnerExits = TRUE
  MaxCreate = 2
INVARIANTS
  TypeOK
  QueueBound
  NobodyWaitsInVain
PROPERTIES
  ImplementsCommandQueue
  ExitCompletes
  ProducerReleased
\* every call may have returned and the thread may be gone for good
CHECK_DEADLOCK FALSE
