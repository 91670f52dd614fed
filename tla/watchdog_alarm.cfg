\* two threads that are created, exited, created again and destroyed
SPECIFICATION FairSpec
CONSTANTS
  w1 = w1
  w2 = w2
  NoWorker = NoWorker
  Worker <- TwoWorkers
  Timeout = 2
  Beat = 1
  MaxQueue = 1
INVARIANTS
  TypeOK
  AlarmJustified
PROPERTIES
  StuckReported
\* the program aborts when a thread is reported
CHECK_DEADLOCK FALSE
