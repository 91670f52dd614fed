\* a future wrapper before sqlite3_init_async
SPECIFICATION Spec
CONSTANTS
  t1 = t1
  t2 = t2
  Client <- TwoClients
  DirectClient <- NoClient
  InitFirst = FALSE
  MaxOps <- OneEach
INVARIANTS
  FutureNeverThrows
