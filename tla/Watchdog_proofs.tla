--------------------------- MODULE Watchdog_proofs ---------------------------
(***************************************************************************)
(* Proofs about Watchdog, for any set of threads, any timeout, any heart-  *)
(* beat interval shorter than the timeout, and any bound on waiting work:  *)
(* no false alarm, and a hung thread stays where a check will find it.     *)
(***************************************************************************)
EXTENDS Watchdog, TLAPS

(***************************************************************************)
(* The inductive invariant.  Outside a target the heartbeat is never older *)
(* than the rest of the sleep allows; inside one it is no older than the   *)
(* target has been running without ThreadCheck; a loop is known to have    *)
(* beaten exactly when it is in one of the places where it must; and it    *)
(* sleeps without a limit only on a copy that says there is no timeout.    *)
(***************************************************************************)
HeartbeatOf(w) ==
  /\ ~m_thread[w] => proc[w] \in {"none", "ended"}
  /\ proc[w] \in {"none", "start", "ended"} => ~beaten[w]
  /\ ~beaten[w] => proc[w] \in {"none", "start", "top", "ended"}
  /\ proc[w] = "wait" => age[w] = 0
  /\ proc[w] = "asleep" => age[w] + left[w] <= Beat
  /\ proc[w] = "target" => age[w] <= busy[w]
  /\ proc[w] = "top" /\ beaten[w] => age[w] <= busy[w]
  /\ proc[w] = "unwatched" => copied[w] = 0

Heartbeat == \A w \in Worker : HeartbeatOf(w)

Inv == TypeOK /\ Heartbeat /\ AlarmJustified

-----------------------------------------------------------------------------
\* What a clock of Timer::GetNow shows after one tick: it keeps its range and the
\* order of two readings.
LEMMA OlderReading ==
  ASSUME NEW m \in 0 .. Timeout + 1, NEW n \in 0 .. Timeout + 1
  PROVE  /\ Older(n) \in 0 .. Timeout + 1
         /\ m <= n => Older(m) <= Older(n)
  BY WatchdogAssumption DEF Older

\* The variables of the watchdog start with their types.
LEMMA TypeInit == Init => TypeOK
  BY WatchdogAssumption DEF Init, TypeOK

\* Every step of CreateThread, ExitThread, ~Thread, Process and the clock keeps the
\* types; the sleep of an idle loop never exceeds its heartbeat interval.
LEMMA TypeNext == TypeOK /\ [Next]_vars => TypeOK'
<1> SUFFICES ASSUME TypeOK, [Next]_vars PROVE TypeOK'
  OBVIOUS
<1>0. Timeout \in Nat /\ Beat \in Nat /\ MaxQueue \in Nat
  BY WatchdogAssumption
<1>1. ASSUME NEW w \in Worker, CreateThread(w) PROVE TypeOK'
  BY <1>0, <1>1 DEF TypeOK, CreateThread, ownerVars, loopVars
<1>2. ASSUME NEW w \in Worker, Started(w) PROVE TypeOK'
  BY <1>0, <1>2 DEF TypeOK, Started, ownerVars, loopVars
<1>3. ASSUME NEW w \in Worker, StoreTimeout(w) PROVE TypeOK'
  BY <1>0, <1>3 DEF TypeOK, StoreTimeout, ownerVars, loopVars
<1>4. ASSUME NEW w \in Worker, Register(w) PROVE TypeOK'
  BY <1>0, <1>4 DEF TypeOK, Register, ownerVars, loopVars
<1>5. ASSUME NEW w \in Worker, ExitThread(w) PROVE TypeOK'
  BY <1>0, <1>5 DEF TypeOK, ExitThread, ownerVars, loopVars
<1>6. ASSUME NEW w \in Worker, Joined(w) PROVE TypeOK'
  BY <1>0, <1>6 DEF TypeOK, Joined, ownerVars, loopVars
<1>7. ASSUME NEW w \in Worker, Destroy(w) PROVE TypeOK'
  BY <1>0, <1>7 DEF TypeOK, Destroy, ownerVars, loopVars
<1>8. ASSUME NEW w \in Worker, EnterProcess(w) PROVE TypeOK'
  BY <1>0, <1>8 DEF TypeOK, EnterProcess, ownerVars, loopVars
<1>9. ASSUME NEW w \in Worker, LoopTop(w) PROVE TypeOK'
  BY <1>0, <1>9 DEF TypeOK, LoopTop, ownerVars, loopVars
<1>10. ASSUME NEW w \in Worker, FallAsleep(w) PROVE TypeOK'
  BY <1>0, <1>10 DEF TypeOK, FallAsleep, ownerVars, loopVars
<1>11. ASSUME NEW w \in Worker, Resume(w) PROVE TypeOK'
  BY <1>0, <1>11 DEF TypeOK, Resume, ownerVars, loopVars
<1>12. ASSUME NEW w \in Worker, TargetReturns(w) PROVE TypeOK'
  BY <1>0, <1>12 DEF TypeOK, TargetReturns, ownerVars, loopVars
<1>13. ASSUME NEW w \in Worker, ThreadCheck(w) PROVE TypeOK'
  BY <1>0, <1>13 DEF TypeOK, ThreadCheck, ownerVars, loopVars
<1>14. ASSUME NEW w \in Worker, Dispatch(w) PROVE TypeOK'
  BY <1>0, <1>14 DEF TypeOK, Dispatch, ownerVars, loopVars
<1>15. ASSUME NEW w \in Worker, Hang(w) PROVE TypeOK'
  BY <1>0, <1>15 DEF TypeOK, Hang, ownerVars, loopVars
<1>16. ASSUME NEW w \in Worker, WatchdogCheck(w) PROVE TypeOK'
  BY <1>0, <1>16 DEF TypeOK, WatchdogCheck, ownerVars, loopVars
<1>17. CASE Tick
  <2>1. age' \in [Worker -> 0 .. Timeout + 1]
    BY <1>0, <1>17, OlderReading DEF TypeOK, Tick
  <2>2. busy' \in [Worker -> 0 .. Timeout + 1]
    BY <1>0, <1>17, OlderReading DEF TypeOK, Tick
  <2>3. left' \in [Worker -> 0 .. Beat]
    <3>1. \A w \in Worker : proc[w] = "asleep" => left[w] \in 1 .. Beat
      BY <1>0, <1>17 DEF TypeOK, Tick
    <3>2. \A w \in Worker : proc[w] = "asleep" => left[w] - 1 \in 0 .. Beat
      BY <1>0, <3>1
    <3> QED
      BY <1>17, <3>2 DEF TypeOK, Tick
  <2> QED
    BY <1>17, <2>1, <2>2, <2>3 DEF TypeOK, Tick, ownerVars
<1>18. CASE UNCHANGED vars
  BY <1>18 DEF TypeOK, vars, ownerVars, loopVars
<1> QED
  BY <1>1, <1>2, <1>3, <1>4, <1>5, <1>6, <1>7, <1>8, <1>9, <1>10, <1>11, <1>12, <1>13, <1>14, <1>15, <1>16, <1>17, <1>18 DEF Next, Owner, Process

\* Process starts without a heartbeat and beats whenever it goes to sleep or enters a
\* target; only the clock lets a heartbeat age, and it does not run in between.
LEMMA HeartbeatNext ==
  TypeOK /\ Heartbeat /\ [Next]_vars => Heartbeat'
<1> SUFFICES ASSUME TypeOK, Heartbeat, [Next]_vars, NEW v \in Worker PROVE HeartbeatOf(v)'
  BY DEF Heartbeat
<1>0. HeartbeatOf(v) /\ Timeout \in Nat /\ Beat \in Nat
  BY WatchdogAssumption DEF Heartbeat
<1>t. /\ age[v] \in 0 .. Timeout + 1 /\ busy[v] \in 0 .. Timeout + 1 /\ left[v] \in 0 .. Beat
      /\ beaten[v] \in BOOLEAN /\ copied[v] \in {0, Timeout}
  BY DEF TypeOK
<1>1. ASSUME NEW w \in Worker, CreateThread(w) PROVE HeartbeatOf(v)'
  BY <1>0, <1>t, <1>1 DEF HeartbeatOf, TypeOK, CreateThread, ownerVars, loopVars
<1>2. ASSUME NEW w \in Worker, Started(w) PROVE HeartbeatOf(v)'
  BY <1>0, <1>t, <1>2 DEF HeartbeatOf, TypeOK, Started, ownerVars, loopVars
<1>3. ASSUME NEW w \in Worker, StoreTimeout(w) PROVE HeartbeatOf(v)'
  BY <1>0, <1>t, <1>3 DEF HeartbeatOf, TypeOK, StoreTimeout, ownerVars, loopVars
<1>4. ASSUME NEW w \in Worker, Register(w) PROVE HeartbeatOf(v)'
  BY <1>0, <1>t, <1>4 DEF HeartbeatOf, TypeOK, Register, ownerVars, loopVars
<1>5. ASSUME NEW w \in Worker, ExitThread(w) PROVE HeartbeatOf(v)'
  BY <1>0, <1>t, <1>5 DEF HeartbeatOf, TypeOK, ExitThread, ownerVars, loopVars
<1>6. ASSUME NEW w \in Worker, Joined(w) PROVE HeartbeatOf(v)'
  BY <1>0, <1>t, <1>6 DEF HeartbeatOf, TypeOK, Joined, ownerVars, loopVars
<1>7. ASSUME NEW w \in Worker, Destroy(w) PROVE HeartbeatOf(v)'
  BY <1>0, <1>t, <1>7 DEF HeartbeatOf, TypeOK, Destroy, ownerVars, loopVars
<1>8. ASSUME NEW w \in Worker, EnterProcess(w) PROVE HeartbeatOf(v)'
  BY <1>0, <1>t, <1>8 DEF HeartbeatOf, TypeOK, EnterProcess, ownerVars, loopVars
<1>9. ASSUME NEW w \in Worker, LoopTop(w) PROVE HeartbeatOf(v)'
  BY <1>0, <1>t, <1>9 DEF HeartbeatOf, TypeOK, LoopTop, ownerVars, loopVars
<1>10. ASSUME NEW w \in Worker, FallAsleep(w) PROVE HeartbeatOf(v)'
  BY <1>0, <1>t, <1>10 DEF HeartbeatOf, TypeOK, FallAsleep, ownerVars, loopVars
<1>11. ASSUME NEW w \in Worker, Resume(w) PROVE HeartbeatOf(v)'
  <2>1. CASE v # w
    BY <1>0, <1>t, <1>11, <2>1 DEF HeartbeatOf, TypeOK, Resume, ownerVars
  <2>2. CASE v = w
    <3>1. age'[v] = 0 /\ busy'[v] = 0 /\ m_thread' = m_thread
      BY <1>11, <2>2 DEF TypeOK, Resume, ownerVars
    <3>2. proc[v] \in {"wait", "asleep", "unwatched"}
      BY <1>11, <2>2 DEF Resume
    <3>3. \/ proc'[v] \in {"target", "top"} /\ beaten'[v]
          \/ proc'[v] = "ended" /\ ~beaten'[v]
      BY <1>11, <2>2 DEF TypeOK, Resume
    <3> QED
      BY <1>0, <3>1, <3>2, <3>3 DEF HeartbeatOf
  <2> QED
    BY <2>1, <2>2
<1>12. ASSUME NEW w \in Worker, TargetReturns(w) PROVE HeartbeatOf(v)'
  BY <1>0, <1>t, <1>12 DEF HeartbeatOf, TypeOK, TargetReturns, ownerVars, loopVars
<1>13. ASSUME NEW w \in Worker, ThreadCheck(w) PROVE HeartbeatOf(v)'
  BY <1>0, <1>t, <1>13 DEF HeartbeatOf, TypeOK, ThreadCheck, ownerVars, loopVars
<1>14. ASSUME NEW w \in Worker, Dispatch(w) PROVE HeartbeatOf(v)'
  BY <1>0, <1>t, <1>14 DEF HeartbeatOf, TypeOK, Dispatch, ownerVars, loopVars
<1>15. ASSUME NEW w \in Worker, Hang(w) PROVE HeartbeatOf(v)'
  BY <1>0, <1>t, <1>15 DEF HeartbeatOf, TypeOK, Hang, ownerVars, loopVars
<1>16. ASSUME NEW w \in Worker, WatchdogCheck(w) PROVE HeartbeatOf(v)'
  BY <1>0, <1>t, <1>16 DEF HeartbeatOf, TypeOK, WatchdogCheck, ownerVars, loopVars
<1>17. CASE Tick
  <2>1. Older(age[v]) <= Older(busy[v]) \/ ~(age[v] <= busy[v])
    BY <1>t, OlderReading
  <2>2. proc[v] = "asleep" => age'[v] <= age[v] + 1 /\ left'[v] = left[v] - 1
    BY <1>0, <1>t, <1>17 DEF TypeOK, Tick, Older
  <2>3. age'[v] \in 0 .. Timeout + 1
    BY <1>t, <1>17, OlderReading DEF TypeOK, Tick
  <2>4. proc[v] = "asleep" => age'[v] + left'[v] <= Beat
    BY <1>0, <1>t, <2>2, <2>3 DEF HeartbeatOf
  <2>5. proc[v] = "target" => age'[v] <= busy'[v]
    BY <1>0, <1>17, <2>1 DEF HeartbeatOf, TypeOK, Tick
  <2> QED
    BY <1>0, <1>17, <2>4, <2>5 DEF HeartbeatOf, Tick, ownerVars
<1>18. CASE UNCHANGED vars
  BY <1>0, <1>18 DEF HeartbeatOf, vars, ownerVars, loopVars
<1> QED
  BY <1>1, <1>2, <1>3, <1>4, <1>5, <1>6, <1>7, <1>8, <1>9, <1>10, <1>11, <1>12, <1>13, <1>14, <1>15, <1>16, <1>17, <1>18 DEF Next, Owner, Process

\* WatchdogCheckAll reports a thread only when its heartbeat is older than the timeout,
\* and a heartbeat that old belongs to an overrun target or to one of the two exceptions.
LEMMA AlarmNext ==
  TypeOK /\ Heartbeat /\ AlarmJustified /\ [Next]_vars => AlarmJustified'
<1> SUFFICES ASSUME TypeOK, Heartbeat, AlarmJustified, [Next]_vars PROVE AlarmJustified'
  OBVIOUS
<1>1. ASSUME NEW w \in Worker, WatchdogCheck(w)
      PROVE  Overran(w) \/ NotRunning(w) \/ MissedTimeout(w)
  <2>1. HeartbeatOf(w) /\ age[w] > Timeout /\ m_watchdogTimeout[w] > 0
    BY <1>1 DEF Heartbeat, TypeOK, WatchdogCheck
  <2>2. /\ age[w] \in Nat /\ left[w] \in Nat /\ busy[w] \in Nat
        /\ Timeout \in Nat /\ Beat \in Nat /\ Beat < Timeout
    BY WatchdogAssumption DEF TypeOK
  <2>3. proc[w] # "wait" /\ proc[w] # "asleep"
    BY <2>1, <2>2 DEF HeartbeatOf
  <2>4. proc[w] \in {"none", "start", "top", "unwatched", "target", "ended"}
    BY <2>3 DEF TypeOK
  <2> QED
    BY <2>1, <2>2, <2>4 DEF HeartbeatOf, Overran, NotRunning, MissedTimeout
<1>2. ASSUME NEW w \in Worker, WatchdogCheck(w) PROVE AlarmJustified'
  BY <1>1, <1>2 DEF AlarmJustified, Overran, NotRunning, MissedTimeout, WatchdogCheck, loopVars
<1>3. ASSUME culprit' = culprit, culprit = NoWorker PROVE AlarmJustified'
  BY <1>3, WatchdogAssumption DEF AlarmJustified
<1>4. CASE Tick /\ culprit = NoWorker
  BY <1>3, <1>4 DEF Tick
<1>5. CASE UNCHANGED vars
  BY <1>5 DEF AlarmJustified, Overran, NotRunning, MissedTimeout, vars, ownerVars, loopVars
<1>6. ASSUME culprit = NoWorker, NEW w \in Worker, Owner(w) \/ Process(w) \/ Dispatch(w) \/ Hang(w)
      PROVE  AlarmJustified'
  <2>1. culprit' = culprit
    BY <1>6 DEF Owner, Process, CreateThread, Started, StoreTimeout, Register, ExitThread, Joined, Destroy, EnterProcess, LoopTop, FallAsleep, Resume, TargetReturns, ThreadCheck, Dispatch, Hang
  <2> QED
    BY <1>3, <1>6, <2>1
<1> QED
  BY <1>2, <1>4, <1>5, <1>6 DEF Next

-----------------------------------------------------------------------------
\* The invariant holds before the first CreateThread and every step keeps it.
THEOREM Invariance == Spec => []Inv
<1>1. Init => Inv
  BY TypeInit, WatchdogAssumption DEF Inv, Init, Heartbeat, HeartbeatOf, AlarmJustified
<1>2. Inv /\ [Next]_vars => Inv'
  BY TypeNext, HeartbeatNext, AlarmNext DEF Inv
<1> QED
  BY <1>1, <1>2, PTL DEF Spec

\* The fields of Thread and the positions of Process keep their types.
THEOREM TypeCorrect == Spec => []TypeOK
  BY Invariance, PTL DEF Inv

\* WatchdogCheckAll faults no thread that waits for work or that serves its targets
\* within the timeout, for every timeout longer than its heartbeat interval.
THEOREM NoFalseAlarm == Spec => []AlarmJustified
  BY Invariance, PTL DEF Inv

-----------------------------------------------------------------------------
(***************************************************************************)
(* What the report of a stuck target rests on: a target that hangs keeps   *)
(* its thread from being joined, and so from being taken off the list, and *)
(* nothing refreshes the heartbeat of that thread once CreateThread has    *)
(* returned: every tick brings the report nearer.                          *)
(***************************************************************************)
StuckOf(w) ==
  /\ hung[w] => proc[w] = "target" /\ m_thread[w]
  /\ ownerPc[w] = "destroyed" => ~m_thread[w]
  /\ ownerPc[w] \in {"starting", "arming", "registering", "joining"} => m_thread[w]
  /\ m_watchdogTimeout[w] > 0 =>
       w \in registered \/ ownerPc[w] \in {"registering", "destroyed"}

LEMMA StuckNext ==
  ASSUME TypeOK, Heartbeat, NEW v \in Worker, StuckOf(v), [Next]_vars
  PROVE  StuckOf(v)'
<1> USE DEF StuckOf, TypeOK
<1>0. Timeout \in Nat /\ HeartbeatOf(v)
  BY WatchdogAssumption DEF Heartbeat
<1>1. ASSUME NEW w \in Worker, CreateThread(w) PROVE StuckOf(v)'
  BY <1>0, <1>1 DEF CreateThread, HeartbeatOf
<1>2. ASSUME NEW w \in Worker, Started(w) \/ StoreTimeout(w) \/ Register(w)
      PROVE  StuckOf(v)'
  BY <1>2 DEF Started, StoreTimeout, Register, loopVars
<1>3. ASSUME NEW w \in Worker, ExitThread(w) \/ Joined(w) \/ Destroy(w)
      PROVE  StuckOf(v)'
  BY <1>3 DEF ExitThread, Joined, Destroy, loopVars
<1>4. ASSUME NEW w \in Worker, EnterProcess(w) \/ LoopTop(w) \/ FallAsleep(w)
      PROVE  StuckOf(v)'
  BY <1>4 DEF EnterProcess, LoopTop, FallAsleep, ownerVars
<1>5. ASSUME NEW w \in Worker, Resume(w) PROVE StuckOf(v)'
  <2>1. UNCHANGED <<ownerVars, m_watchdogTimeout, hung>>
        /\ (proc[w] # "target")
        /\ (v # w => proc'[v] = proc[v])
    BY <1>5 DEF Resume
  <2>2. QED
    BY <2>1 DEF ownerVars
<1>6. ASSUME NEW w \in Worker, TargetReturns(w) \/ ThreadCheck(w) \/ Dispatch(w)
      PROVE  StuckOf(v)'
  BY <1>6 DEF TargetReturns, ThreadCheck, Dispatch, ownerVars
<1>7. ASSUME NEW w \in Worker, Hang(w) PROVE StuckOf(v)'
  BY <1>0, <1>7 DEF Hang, HeartbeatOf, ownerVars
<1>8. CASE Tick \/ UNCHANGED vars
  BY <1>8 DEF Tick, vars, ownerVars, loopVars
<1>9. ASSUME NEW w \in Worker, WatchdogCheck(w) PROVE StuckOf(v)'
  BY <1>9 DEF WatchdogCheck, ownerVars, loopVars
<1>10. QED
  BY <1>1, <1>2, <1>3, <1>4, <1>5, <1>6, <1>7, <1>8, <1>9 DEF Next, Owner, Process

LEMMA HungStays ==
  ASSUME TypeOK, [Next]_vars, NEW v \in Worker, hung[v]
  PROVE  hung'[v]
<1>1. UNCHANGED hung \/ \E w \in Worker : Hang(w)
  BY DEF Next, Tick, vars, loopVars, Owner, Process, CreateThread, Started, StoreTimeout,
         Register, ExitThread, Joined, Destroy, EnterProcess, LoopTop, FallAsleep, Resume,
         TargetReturns, ThreadCheck, Dispatch, WatchdogCheck
<1>2. QED
  BY <1>1 DEF Hang, TypeOK

\* the heartbeat of a stuck thread only ages, and with every tick
Ages(w) ==
  /\ age'[w] >= age[w]
  /\ Tick => age'[w] = age[w] + 1 \/ age[w] > Timeout

LEMMA StuckAges ==
  ASSUME TypeOK, NEW v \in Worker, StuckOf(v), [Next]_vars, hung[v], ownerPc[v] # "starting"
  PROVE  hung'[v] /\ Ages(v)
<1> USE DEF StuckOf, TypeOK
<1>0. /\ age[v] \in 0 .. Timeout + 1 /\ Timeout \in Nat
      /\ proc[v] = "target"
  BY WatchdogAssumption
<1>1. CASE Tick
  <2>1. age'[v] = Older(age[v]) /\ hung'[v]
    BY <1>1 DEF Tick
  <2>2. QED
    BY <1>0, <2>1 DEF Older, Ages
<1>2. ASSUME age'[v] = age[v], hung'[v], ~Tick
      PROVE  hung'[v] /\ Ages(v)
  BY <1>0, <1>2 DEF Ages
<1>3. ASSUME ~Tick PROVE age'[v] = age[v] /\ hung'[v]
  <2>1. ASSUME NEW w \in Worker, Owner(w)
        PROVE  age'[v] = age[v] /\ hung'[v]
    BY <2>1 DEF Owner, CreateThread, Started, StoreTimeout, Register, ExitThread, Joined,
                Destroy, loopVars
  <2>2. ASSUME NEW w \in Worker, Process(w)
        PROVE  age'[v] = age[v] /\ hung'[v]
    BY <1>0, <2>2 DEF Process, EnterProcess, LoopTop, FallAsleep, Resume, TargetReturns,
                      ThreadCheck
  <2>3. ASSUME NEW w \in Worker, Dispatch(w) \/ Hang(w) \/ WatchdogCheck(w)
        PROVE  age'[v] = age[v] /\ hung'[v]
    BY <2>3 DEF Dispatch, Hang, WatchdogCheck, loopVars
  <2>4. QED
    BY <1>3, <2>1, <2>2, <2>3 DEF Next, vars, loopVars
<1>4. QED
  BY <1>1, <1>2, <1>3

(***************************************************************************)
(* Thread.cpp:88-107, 206-211, 326-339: once a target hangs its thread is  *)
(* never joined or destroyed; if it is watched it is on the list, or       *)
(* CreateThread is about to put it there; and from the return of           *)
(* CreateThread on its heartbeat ages with every tick until it exceeds the *)
(* timeout, whatever the other threads and the owner do.                   *)
(***************************************************************************)
THEOREM StuckStaysVisible ==
  ASSUME NEW w \in Worker
  PROVE  Spec => /\ [](hung[w] => [](hung[w] /\ proc[w] = "target" /\ m_thread[w]))
                 /\ [](hung[w] /\ m_watchdogTimeout[w] > 0 =>
                         w \in registered \/ ownerPc[w] = "registering")
                 /\ [][hung[w] /\ ownerPc[w] # "starting" => Ages(w)]_vars
<1>1. Init => StuckOf(w)
  BY DEF Init, StuckOf
<1>2. Inv /\ StuckOf(w) /\ [Next]_vars => StuckOf(w)'
  BY StuckNext DEF Inv
<1>3. StuckOf(w) => (hung[w] => proc[w] = "target" /\ m_thread[w])
  BY DEF StuckOf
<1>4. StuckOf(w) => (hung[w] /\ m_watchdogTimeout[w] > 0 =>
                       w \in registered \/ ownerPc[w] = "registering")
  BY DEF StuckOf
<1>5. Inv /\ hung[w] /\ [Next]_vars => (hung[w])'
  BY HungStays DEF Inv
<1>6. Inv /\ StuckOf(w) /\ [Next]_vars =>
        [hung[w] /\ ownerPc[w] # "starting" => Ages(w)]_vars
  BY StuckAges DEF Inv
<1>7. QED
  BY <1>1, <1>2, <1>3, <1>4, <1>5, <1>6, Invariance, PTL DEF Spec
=============================================================================
