------------------------------ MODULE Watchdog ------------------------------
(***************************************************************************)
(* The watchdog of dmq::os::Thread: CreateThread with a timeout, the       *)
(* heartbeats of Process(), the registry, and WatchdogCheckAll, which any  *)
(* thread may call at any time.                                            *)
(*                                                                         *)
(* Time is relative: age[w] is Timer::GetNow() - m_lastAliveTime, left[w]  *)
(* what remains of the wait_for of an idle loop.  Both are exact up to the *)
(* point where nothing compares them any more.  The work that arrives is   *)
(* a number; its order is DmqThread's subject.                             *)
(***************************************************************************)
EXTENDS Naturals

CONSTANTS
  Worker,     \* the Thread objects
  Timeout,    \* the watchdogTimeout passed to CreateThread, in ticks
  Beat,       \* watchdogTimeout / 10, the longest sleep of a watched idle loop
  MaxQueue,   \* bound on waiting delegates, to keep the model finite
  NoWorker    \* nobody has been reported

ASSUME WatchdogAssumption ==
  /\ Timeout \in Nat /\ Beat \in Nat /\ MaxQueue \in Nat
  /\ Beat < Timeout
  /\ NoWorker \notin Worker

VARIABLES
  ownerPc,            \* progress of CreateThread, ExitThread and ~Thread
  wanted,             \* is CreateThread called with a timeout?
  m_thread,           \* does the optional<std::thread> hold a thread?
  m_exit,
  m_watchdogTimeout,  \* 0: none
  registered,         \* the threads in the list of GetWatchdogHead()
  age,                \* time since m_lastAliveTime
  proc,               \* where Process() is
  copied,             \* its local copy of m_watchdogTimeout
  left,               \* what remains of its wait_for
  queue,              \* delegates waiting; the exit message is behind them
  hung,               \* the target never returns
  busy,               \* history: time since the target was entered or called ThreadCheck
  beaten,             \* history: has this Process() ever set m_lastAliveTime?
  culprit             \* the thread WatchdogHandler was called for; it does not return

ownerVars == <<ownerPc, wanted, m_thread, m_exit, registered>>
loopVars == <<proc, copied, left, queue, hung, busy, beaten>>
vars == <<ownerVars, m_watchdogTimeout, age, loopVars, culprit>>

\* one more tick on a clock nobody reads beyond the timeout
Older(n) == IF n <= Timeout THEN n + 1 ELSE n

\* the predicate of m_cv: work, or the order to go
Ready(w) == queue[w] > 0 \/ m_exit[w]

Init ==
  /\ ownerPc = [w \in Worker |-> "idle"]
  /\ wanted = [w \in Worker |-> FALSE]
  /\ m_thread = [w \in Worker |-> FALSE]
  /\ m_exit = [w \in Worker |-> FALSE]
  /\ m_watchdogTimeout = [w \in Worker |-> 0]
  /\ registered = {}
  /\ age = [w \in Worker |-> Timeout + 1]
  /\ proc = [w \in Worker |-> "none"]
  /\ copied = [w \in Worker |-> 0]
  /\ left = [w \in Worker |-> 0]
  /\ queue = [w \in Worker |-> 0]
  /\ hung = [w \in Worker |-> FALSE]
  /\ busy = [w \in Worker |-> 0]
  /\ beaten = [w \in Worker |-> FALSE]
  /\ culprit = NoWorker

-----------------------------------------------------------------------------
\* CreateThread, ExitThread and ~Thread, called by the owner of w.

\* m_exit = false, the std::thread is started; its start is awaited
CreateThread(w) ==
  /\ ownerPc[w] = "idle"
  /\ ~m_thread[w]
  /\ wanted' \in {[wanted EXCEPT ![w] = b] : b \in BOOLEAN}
  /\ m_thread' = [m_thread EXCEPT ![w] = TRUE]
  /\ m_exit' = [m_exit EXCEPT ![w] = FALSE]
  /\ proc' = [proc EXCEPT ![w] = "start"]
  /\ ownerPc' = [ownerPc EXCEPT ![w] = "starting"]
  /\ UNCHANGED <<registered, m_watchdogTimeout, age, copied, left, queue, hung,
                 busy, beaten, culprit>>

\* the start has been signalled: m_lastAliveTime.store(Timer::GetNow())
Started(w) ==
  /\ ownerPc[w] = "starting"
  /\ proc[w] # "start"
  /\ age' = [age EXCEPT ![w] = 0]
  /\ ownerPc' = [ownerPc EXCEPT ![w] = IF wanted[w] THEN "arming" ELSE "idle"]
  /\ wanted' = [wanted EXCEPT ![w] = FALSE]
  /\ UNCHANGED <<m_thread, m_exit, registered, m_watchdogTimeout, loopVars, culprit>>

StoreTimeout(w) ==
  /\ ownerPc[w] = "arming"
  /\ m_watchdogTimeout' = [m_watchdogTimeout EXCEPT ![w] = Timeout]
  /\ ownerPc' = [ownerPc EXCEPT ![w] = "registering"]
  /\ UNCHANGED <<wanted, m_thread, m_exit, registered, age, loopVars, culprit>>

\* Mutant: the timeout is stored but the thread is not put on the list again.
RegisterOnce(w) ==
  /\ ownerPc[w] = "registering"
  /\ registered' = IF registered = {} THEN {w} ELSE registered
  /\ ownerPc' = [ownerPc EXCEPT ![w] = "idle"]
  /\ UNCHANGED <<wanted, m_thread, m_exit, m_watchdogTimeout, age, loopVars, culprit>>

\* added to the list under the watchdog lock unless it is there already
Register(w) ==
  /\ ownerPc[w] = "registering"
  /\ registered' = registered \cup {w}
  /\ ownerPc' = [ownerPc EXCEPT ![w] = "idle"]
  /\ UNCHANGED <<wanted, m_thread, m_exit, m_watchdogTimeout, age, loopVars, culprit>>

\* the exit message goes behind the waiting work; then join()
ExitThread(w) ==
  /\ ownerPc[w] = "idle"
  /\ m_thread[w]
  /\ m_exit' = [m_exit EXCEPT ![w] = TRUE]
  /\ ownerPc' = [ownerPc EXCEPT ![w] = "joining"]
  /\ UNCHANGED <<wanted, m_thread, registered, m_watchdogTimeout, age, loopVars, culprit>>

\* m_thread.reset(), the queues are cleared
Joined(w) ==
  /\ ownerPc[w] = "joining"
  /\ proc[w] = "ended"
  /\ m_thread' = [m_thread EXCEPT ![w] = FALSE]
  /\ queue' = [queue EXCEPT ![w] = 0]
  /\ ownerPc' = [ownerPc EXCEPT ![w] = "idle"]
  /\ UNCHANGED <<wanted, m_exit, registered, m_watchdogTimeout, age, proc, copied,
                 left, hung, busy, beaten, culprit>>

\* ~Thread after its ExitThread: off the list, under the watchdog lock
Destroy(w) ==
  /\ ownerPc[w] = "idle"
  /\ ~m_thread[w]
  /\ registered' = registered \ {w}
  /\ ownerPc' = [ownerPc EXCEPT ![w] = "destroyed"]
  /\ UNCHANGED <<wanted, m_thread, m_exit, m_watchdogTimeout, age, loopVars, culprit>>

-----------------------------------------------------------------------------
\* Process, on the worker.

\* m_threadStartPromise->set_value()
EnterProcess(w) ==
  /\ proc[w] = "start"
  /\ proc' = [proc EXCEPT ![w] = "top"]
  /\ UNCHANGED <<ownerVars, m_watchdogTimeout, age, copied, left, queue, hung,
                 busy, beaten, culprit>>

\* the top of the loop: a heartbeat, and a copy of the timeout
LoopTop(w) ==
  /\ proc[w] = "top"
  /\ age' = [age EXCEPT ![w] = 0]
  /\ copied' = [copied EXCEPT ![w] = m_watchdogTimeout[w]]
  /\ beaten' = [beaten EXCEPT ![w] = TRUE]
  /\ busy' = [busy EXCEPT ![w] = 0]
  /\ proc' = [proc EXCEPT ![w] = "wait"]
  /\ UNCHANGED <<ownerVars, m_watchdogTimeout, left, queue, hung, culprit>>

\* Mutant: the idle loop sleeps for the whole timeout and a tick.
SleepTooLong(w) ==
  /\ proc[w] = "wait"
  /\ ~Ready(w)
  /\ left' = [left EXCEPT ![w] = IF copied[w] > 0 THEN Timeout + 1 ELSE 0]
  /\ proc' = [proc EXCEPT ![w] = IF copied[w] > 0 THEN "asleep" ELSE "unwatched"]
  /\ UNCHANGED <<ownerVars, m_watchdogTimeout, age, copied, queue, hung, busy,
                 beaten, culprit>>

\* m_cv.wait_for with a tenth of the timeout, or m_cv.wait without a limit
FallAsleep(w) ==
  /\ proc[w] = "wait"
  /\ ~Ready(w)
  /\ left' = [left EXCEPT ![w] = IF copied[w] > 0 THEN Beat ELSE 0]
  /\ proc' = [proc EXCEPT ![w] = IF copied[w] > 0 THEN "asleep" ELSE "unwatched"]
  /\ UNCHANGED <<ownerVars, m_watchdogTimeout, age, copied, queue, hung, busy,
                 beaten, culprit>>

\* Mutant: no heartbeat between the wait and the target.
ResumeWithoutBeat(w) ==
  /\ \/ proc[w] \in {"wait", "asleep", "unwatched"} /\ Ready(w)
     \/ proc[w] = "asleep" /\ left[w] = 0
  /\ IF queue[w] > 0
       THEN /\ queue' = [queue EXCEPT ![w] = @ - 1]
            /\ proc' = [proc EXCEPT ![w] = "target"]
       ELSE /\ proc' = [proc EXCEPT ![w] = IF m_exit[w] THEN "ended" ELSE "top"]
            /\ UNCHANGED queue
  /\ beaten' = [beaten EXCEPT ![w] = queue[w] > 0 \/ ~m_exit[w]]
  /\ busy' = [busy EXCEPT ![w] = 0]
  /\ copied' = [copied EXCEPT ![w] = 0]
  /\ left' = [left EXCEPT ![w] = 0]
  /\ UNCHANGED <<ownerVars, m_watchdogTimeout, age, hung, culprit>>

\* the wait is over: a heartbeat, then the next message, another round of an
\* idle loop, or the end
Resume(w) ==
  /\ \/ proc[w] \in {"wait", "asleep", "unwatched"} /\ Ready(w)
     \/ proc[w] = "asleep" /\ left[w] = 0
  /\ age' = [age EXCEPT ![w] = 0]
  /\ IF queue[w] > 0
       THEN /\ queue' = [queue EXCEPT ![w] = @ - 1]
            /\ proc' = [proc EXCEPT ![w] = "target"]
       ELSE /\ proc' = [proc EXCEPT ![w] = IF m_exit[w] THEN "ended" ELSE "top"]
            /\ UNCHANGED queue
  /\ beaten' = [beaten EXCEPT ![w] = queue[w] > 0 \/ ~m_exit[w]]
  /\ busy' = [busy EXCEPT ![w] = 0]
  /\ copied' = [copied EXCEPT ![w] = 0]
  /\ left' = [left EXCEPT ![w] = 0]
  /\ UNCHANGED <<ownerVars, m_watchdogTimeout, hung, culprit>>

TargetReturns(w) ==
  /\ proc[w] = "target"
  /\ ~hung[w]
  /\ proc' = [proc EXCEPT ![w] = "top"]
  /\ UNCHANGED <<ownerVars, m_watchdogTimeout, age, copied, left, queue, hung,
                 busy, beaten, culprit>>

\* a long-running target calls ThreadCheck()
ThreadCheck(w) ==
  /\ proc[w] = "target"
  /\ ~hung[w]
  /\ age' = [age EXCEPT ![w] = 0]
  /\ busy' = [busy EXCEPT ![w] = 0]
  /\ UNCHANGED <<ownerVars, m_watchdogTimeout, proc, copied, left, queue, hung,
                 beaten, culprit>>

-----------------------------------------------------------------------------
\* The environment.

\* DispatchDelegate on a thread that runs; after ExitThread it is refused
Dispatch(w) ==
  /\ m_thread[w]
  /\ ~m_exit[w]
  /\ queue[w] < MaxQueue
  /\ queue' = [queue EXCEPT ![w] = @ + 1]
  /\ UNCHANGED <<ownerVars, m_watchdogTimeout, age, proc, copied, left, hung,
                 busy, beaten, culprit>>

\* a target deadlocks or loops for ever
Hang(w) ==
  /\ proc[w] = "target"
  /\ hung' = [hung EXCEPT ![w] = TRUE]
  /\ UNCHANGED <<ownerVars, m_watchdogTimeout, age, proc, copied, left, queue,
                 busy, beaten, culprit>>

\* The clock.  Threads that can run do so before it moves on, so that what is
\* measured is the time spent in targets and in waits.
Tick ==
  /\ \A w \in Worker :
       /\ proc[w] \notin {"start", "top", "wait"}
       /\ proc[w] \in {"asleep", "unwatched"} => ~Ready(w)
       /\ proc[w] = "asleep" => left[w] > 0
  /\ age' = [w \in Worker |-> Older(age[w])]
  /\ busy' = [w \in Worker |-> IF proc[w] = "target" THEN Older(busy[w]) ELSE busy[w]]
  /\ left' = [w \in Worker |-> IF proc[w] = "asleep" THEN left[w] - 1 ELSE left[w]]
  /\ UNCHANGED <<ownerVars, m_watchdogTimeout, proc, copied, queue, hung, beaten, culprit>>

\* WatchdogCheckAll reaches w: delta > watchdogTimeout calls WatchdogHandler
WatchdogCheck(w) ==
  /\ w \in registered
  /\ m_watchdogTimeout[w] > 0
  /\ age[w] > m_watchdogTimeout[w]
  /\ culprit' = w
  /\ UNCHANGED <<ownerVars, m_watchdogTimeout, age, loopVars>>

-----------------------------------------------------------------------------
Owner(w) ==
  CreateThread(w) \/ Started(w) \/ StoreTimeout(w) \/ Register(w)
    \/ ExitThread(w) \/ Joined(w) \/ Destroy(w)
Process(w) ==
  EnterProcess(w) \/ LoopTop(w) \/ FallAsleep(w) \/ Resume(w)
    \/ TargetReturns(w) \/ ThreadCheck(w)

Next ==
  /\ culprit = NoWorker
  /\ \/ Tick
     \/ \E w \in Worker :
          Owner(w) \/ Process(w) \/ Dispatch(w) \/ Hang(w) \/ WatchdogCheck(w)

Spec == Init /\ [][Next]_vars

\* Time passes, somebody calls WatchdogCheckAll again and again, a call of
\* CreateThread goes on, and a loop that is not in a target is scheduled.
\* Nobody is obliged to call, and no target has to return.
FairSpec ==
  /\ Spec
  /\ SF_vars(culprit = NoWorker /\ Tick)
  /\ \A w \in Worker :
       /\ WF_vars(culprit = NoWorker /\ WatchdogCheck(w))
       /\ WF_vars(culprit = NoWorker /\ (Started(w) \/ StoreTimeout(w) \/ Register(w)))
       /\ WF_vars(culprit = NoWorker /\ proc[w] # "target" /\ Process(w))

-----------------------------------------------------------------------------
TypeOK ==
  /\ ownerPc \in [Worker -> {"idle", "starting", "arming", "registering",
                             "joining", "destroyed"}]
  /\ wanted \in [Worker -> BOOLEAN]
  /\ m_thread \in [Worker -> BOOLEAN]
  /\ m_exit \in [Worker -> BOOLEAN]
  /\ m_watchdogTimeout \in [Worker -> {0, Timeout}]
  /\ registered \in SUBSET Worker
  /\ age \in [Worker -> 0 .. Timeout + 1]
  /\ proc \in [Worker -> {"none", "start", "top", "wait", "asleep", "unwatched",
                          "target", "ended"}]
  /\ copied \in [Worker -> {0, Timeout}]
  /\ left \in [Worker -> 0 .. Beat]
  /\ queue \in [Worker -> 0 .. MaxQueue]
  /\ hung \in [Worker -> BOOLEAN]
  /\ busy \in [Worker -> 0 .. Timeout + 1]
  /\ beaten \in [Worker -> BOOLEAN]
  /\ culprit \in Worker \cup {NoWorker}

(***************************************************************************)
(* The watchdog faults nobody who is well: the thread it reports has spent *)
(* more than its timeout in one target without calling ThreadCheck, unless *)
(* its loop is not running (before the first heartbeat, or after           *)
(* ExitThread, since only ~Thread takes it off the list) or it sleeps      *)
(* without a limit on a copy of the timeout that CreateThread has since    *)
(* replaced.  Other threads that wait for work are never reported.         *)
(***************************************************************************)
Overran(w) == busy[w] > Timeout
NotRunning(w) == ~beaten[w]
MissedTimeout(w) == proc[w] = "unwatched" /\ copied[w] # m_watchdogTimeout[w]
AlarmJustified ==
  \A w \in Worker : culprit = w => Overran(w) \/ NotRunning(w) \/ MissedTimeout(w)

(***************************************************************************)
(* A target that never returns is reported, whatever the threads around it *)
(* do: it cannot be joined, taken off the list or kept alive by others.    *)
(***************************************************************************)
StuckReported ==
  \A w \in Worker : hung[w] /\ m_watchdogTimeout[w] > 0 ~> culprit # NoWorker
=============================================================================
