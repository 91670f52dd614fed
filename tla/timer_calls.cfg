\* two timers that are started, stopped and destroyed under ProcessTimers
SPECIFICATION FairSpec
CONSTANTS
  t1 = t1
  t2 = t2
  s1 = s1
  s2 = s2
  Load = Load
  Nobody = Nobody
  Timer <- TwoTimers
  Sub <- TwoSubs
  Paced <- OnePaced
  TimerOf <- BothOnOne
  Period = 1
  MaxExpired = 1
  MaxQueue = 1
INVARIANTS
  TypeOK
  ListSound
  PaceKept
  OneInFlight
  LateCalls
PROPERTIES
  FaultJustified
  PacedServed
\* the program aborts when too many timers have expired
CHECK_DEADLOCK FALSE
