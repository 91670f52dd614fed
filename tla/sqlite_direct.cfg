\* one client goes past the worker, the other through it
SPECIFICATION Spec
CONSTANTS
  t1 = t1
  t2 = t2
  Client <- TwoClients
  DirectClient <- FirstClient
  InitFirst = TRUE
  MaxOps <- OneEach
INVARIANTS
  HandleExclusive
