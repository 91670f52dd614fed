\* two clients, three and two operations, thread started, stopped and restarted
SPECIFICATION FairSpec
CONSTANTS
  t1 = t1
  t2 = t2
  Client <- TwoClients
  DirectClient <- FirstClient
  InitFirst = FALSE
  MaxOps <- ThreeAndTwo
INVARIANTS
  TypeOK
  ProgramOrder
  BlockAtomic
  ResultTellsTruth
  ExitDrains
PROPERTIES
  ImplementsSerialDatabase
  FuturesResolve
  BlockEnds
