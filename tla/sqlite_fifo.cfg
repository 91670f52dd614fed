\* a block that mixes future and blocking wrappers
SPECIFICATION Spec
CONSTANTS
  t1 = t1
  t2 = t2
  Client <- TwoClients
  DirectClient <- NoClient
  InitFirst = TRUE
  MaxOps <- ThreeEach
INVARIANTS
  SubmissionOrder
