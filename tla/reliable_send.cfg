SPECIFICATION FairSpec
CONSTANTS
  a = a
  b = b
  c = c
  NoEntry = NoEntry
  NoKey = NoKey
  Msg <- ThreeMsgs
  SeqMod = 2
  MaxRetries = 1
  MaxPending = 1
INVARIANTS
  TypeOK
  RetryBudget
  NothingForgotten
  GaveUpLast
  ErrorMeansUnsent
PROPERTIES
  ImplementsPacketLife
  Settles
CHECK_DEADLOCK FALSE
