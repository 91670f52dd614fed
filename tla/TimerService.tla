---------------------------- MODULE TimerService ----------------------------
(***************************************************************************)
(* dmq::util::Timer with its OnExpired signal and the paced dispatch of    *)
(* TimerDelegate to a worker thread: Start, Stop and destruction of timers *)
(* on any thread, Connect, Disconnect and Clear of subscribers, and        *)
(* ProcessTimers, called again and again by one thread, which collects     *)
(* expired timers under the timer lock and calls their subscribers after   *)
(* it has released the lock.                                               *)
(*                                                                         *)
(* A subscription is one Connect: the signal stores a clone of its own for *)
(* each, so a subscriber that connects again is another subscription.      *)
(* Time is relative: due[t] is m_expireTime - Timer::GetNow() of an        *)
(* enabled timer.  Nobody reads the times and m_once of a disabled one.    *)
(***************************************************************************)
EXTENDS Integers, Sequences, FiniteSets

CONSTANTS
  Timer,        \* the Timer objects
  Period,       \* the timeout they are started with, in ticks
  MaxExpired,   \* MAX_TIMER_EXPIRED
  Sub,          \* the subscriptions
  Paced,        \* those made with MakeTimerDelegate; the others run inline
  TimerOf,      \* the timer whose OnExpired each one connects to
  MaxQueue,     \* MAX_QUEUE_SIZE of the worker; its policy is DROP
  Load,         \* a message from somebody else in the worker's queue
  Nobody        \* the worker runs no target

ASSUME TimerAssumption ==
  /\ IsFiniteSet(Timer)
  /\ Period \in Nat \ {0} /\ MaxExpired \in Nat /\ MaxQueue \in Nat
  /\ Paced \subseteq Sub
  /\ TimerOf \in [Sub -> Timer]
  /\ Load \notin Sub /\ Nobody \notin Sub \cup {Load}

VARIABLES
  listed,          \* the timers in the list of GetTimersHead()
  ahead,           \* pairs of them, the one nearer the head first
  mode,            \* m_enabled and m_once: off, periodic or once
  due,             \* time left until m_expireTime
  m_timerStopped,
  alive,           \* the timers that have not been destroyed
  link,            \* a subscription is new, connected or gone
  batch,           \* the subscriptions ProcessTimers has still to call
  worker,          \* the thread of the paced subscribers
  queue, running,  \* its queue, and the message it handles
  inFlight,        \* the subscriptions whose m_inFlight has not expired
  halted,          \* "fault": ASSERT_TRUE, "crash": use of a freed delegate
  earliest,        \* history: time left until Start + (calls + 1) * Period
  owed, late       \* history: calls under way at Disconnect, and made after it

timerVars == <<listed, ahead, mode, due, m_timerStopped, alive, earliest>>
workerVars == <<worker, queue, running, inFlight>>
callVars == <<owed, late>>
vars == <<timerVars, link, batch, workerVars, halted, callVars>>

Times == -(Period + 1) .. Period
Enabled == {t \in Timer : mode[t] # "off"}
Queued(s) == \E i \in 1 .. Len(queue) : queue[i] = s

\* The clock stops mattering one tick after a whole period has been missed.
Later(d) == IF d > -(Period + 1) THEN d - 1 ELSE d

\* calls of s that have been collected or dispatched and not begun
UnderWay(s) == (IF s \in batch THEN 1 ELSE 0) + (IF Queued(s) THEN 1 ELSE 0)

\* the list without the timers of T
Unlink(T) ==
  /\ listed' = listed \ T
  /\ ahead' = ahead \cap ((listed \ T) \X (listed \ T))

Init ==
  /\ listed = {}
  /\ ahead = {}
  /\ mode = [t \in Timer |-> "off"]
  /\ due = [t \in Timer |-> 0]
  /\ m_timerStopped = FALSE
  /\ alive = Timer
  /\ link = [s \in Sub |-> "new"]
  /\ batch = {}
  /\ worker = "none"
  /\ queue = <<>>
  /\ running = Nobody
  /\ inFlight = {}
  /\ halted = "no"
  /\ earliest = [t \in Timer |-> 0]
  /\ owed = [s \in Sub |-> 0]
  /\ late = [s \in Sub |-> 0]

-----------------------------------------------------------------------------
\* Timer::Start, Stop and ~Timer, under the timer lock.

\* a new expiry; linked at the head unless the timer is in the list already
Start(t, m) ==
  /\ t \in alive
  /\ mode' = [mode EXCEPT ![t] = m]
  /\ due' = [due EXCEPT ![t] = Period]
  /\ listed' = listed \cup {t}
  /\ ahead' = IF t \in listed THEN ahead ELSE ahead \cup ({t} \X listed)
  /\ earliest' = [earliest EXCEPT ![t] = Period]
  /\ UNCHANGED <<m_timerStopped, alive, link, batch, workerVars, halted, callVars>>

\* these timers are disabled
Disable(T) ==
  /\ mode' = [t \in Timer |-> IF t \in T THEN "off" ELSE mode[t]]
  /\ due' = [t \in Timer |-> IF t \in T THEN 0 ELSE due[t]]
  /\ earliest' = [t \in Timer |-> IF t \in T THEN 0 ELSE earliest[t]]

\* Mutant: the timer is disabled but ProcessTimers is not told to unlink it.
StopQuietly(t) ==
  /\ t \in alive
  /\ Disable({t})
  /\ UNCHANGED <<listed, ahead, m_timerStopped, alive, link, batch, workerVars, halted, callVars>>

\* only marked; ProcessTimers unlinks it
Stop(t) ==
  /\ t \in alive
  /\ Disable({t})
  /\ m_timerStopped' = TRUE
  /\ UNCHANGED <<listed, ahead, alive, link, batch, workerVars, halted, callVars>>

\* the subscriptions of S are removed from their signals
Cut(S) ==
  /\ link' = [s \in Sub |-> IF s \in S THEN "gone" ELSE link[s]]
  /\ owed' = [s \in Sub |-> IF s \in S THEN UnderWay(s) ELSE owed[s]]

ConnectedTo(t) == {s \in Sub : link[s] = "connected" /\ TimerOf[s] = t}

\* ~Timer unlinks it at once; the destructor of OnExpired drops its delegates
Destroy(t) ==
  /\ t \in alive
  /\ Unlink({t})
  /\ alive' = alive \ {t}
  /\ Disable({t})
  /\ Cut(ConnectedTo(t))
  /\ UNCHANGED <<m_timerStopped, batch, workerVars, halted, late>>

-----------------------------------------------------------------------------
\* Signal: Connect, Disconnect and Clear, under the lock of its state.

Connect(s) ==
  /\ link[s] = "new"
  /\ TimerOf[s] \in alive
  /\ link' = [link EXCEPT ![s] = "connected"]
  /\ UNCHANGED <<timerVars, batch, workerVars, halted, callVars>>

Disconnect(s) ==
  /\ link[s] = "connected"
  /\ Cut({s})
  /\ UNCHANGED <<timerVars, batch, workerVars, halted, late>>

Clear(t) ==
  /\ t \in alive
  /\ Cut(ConnectedTo(t))
  /\ UNCHANGED <<timerVars, batch, workerVars, halted, late>>

-----------------------------------------------------------------------------
\* Timer::ProcessTimers.

\* CheckExpired says yes
Expired(t) == t \in Enabled /\ due[t] <= 0

\* Mutant: disabled timers stay in the list.
KeepAll == {}

\* the timers to unlink: the disabled ones, if any was stopped
Dropped == IF m_timerStopped THEN Timer \ Enabled ELSE {}

\* the entries of the array when the walk meets t
Before(t) == {u \in listed \ Dropped : <<u, t>> \in ahead /\ Expired(u)}

\* The walk meets a timer, expired or not, when the array is full.
ArrayFull == \E t \in listed \ Dropped : Cardinality(Before(t)) >= MaxExpired

\* the timers CheckExpired says yes to, all of them or those that fill the array
Fired == {t \in listed \ Dropped : Expired(t) /\ Cardinality(Before(t)) < MaxExpired}

\* Mutant: the next expiry is counted from now.
RearmFromNow(t) == 0

\* The next expiry of a periodic timer: one period after the last, or now if
\* that has passed already.
Rearm(t) == IF due[t] + Period < 0 THEN 0 ELSE due[t] + Period

\* Mutant: the snapshot still holds delegates that have been disconnected.
SnapshotOfAll(t) == {s \in Sub : link[s] # "new" /\ TimerOf[s] = t}

\* GetSnapshot of OnExpired
Snapshot(t) == ConnectedTo(t)

\* The locked part: unlink the disabled timers, then arm the expired ones again
\* and disable those that run once, which the next walk will unlink.
Walk ==
  LET single == {t \in Fired : mode[t] = "once"}
  IN  /\ Unlink(Dropped)
      /\ m_timerStopped' = (single # {})
      /\ mode' = [t \in Timer |-> IF t \in single THEN "off" ELSE mode[t]]
      /\ due' = [t \in Timer |-> IF t \in single THEN 0
                                  ELSE IF t \in Fired THEN Rearm(t) ELSE due[t]]
      /\ earliest' = [t \in Timer |-> IF t \in single THEN 0
                                       ELSE IF t \in Fired THEN earliest[t] + Period
                                                           ELSE earliest[t]]

\* A walk with the snapshots of what has expired, which are called after it one by
\* one: in the order of the list and of Connect, here in any.
Collect ==
  /\ batch = {}
  /\ ~ArrayFull
  /\ Walk
  /\ batch' = UNION {Snapshot(t) : t \in Fired}
  /\ UNCHANGED <<alive, link, workerVars, halted, callVars>>

\* ASSERT_TRUE(count < MAX_TIMER_EXPIRED) aborts the program in mid walk
Overflow ==
  /\ batch = {}
  /\ ArrayFull
  /\ Walk
  /\ halted' = "fault"
  /\ UNCHANGED <<alive, link, batch, workerVars, callVars>>

\* a call of the target, remembered if its subscriber had disconnected
Called(s) == late' = [late EXCEPT ![s] = IF link[s] = "gone" THEN @ + 1 ELSE @]

\* InvokeSnapshot, outside the lock: a plain delegate runs here
InvokeInline(s) ==
  /\ s \in batch \ Paced
  /\ Called(s)
  /\ batch' = batch \ {s}
  /\ UNCHANGED <<timerVars, link, workerVars, halted, owed>>

\* ... and throws: the exception leaves ProcessTimers, and the snapshots that are
\* left are lost
InlineThrows(s) ==
  /\ s \in batch \ Paced
  /\ Called(s)
  /\ batch' = {}
  /\ UNCHANGED <<timerVars, link, workerVars, halted, owed>>

-----------------------------------------------------------------------------
\* PacedDispatch::TryFire, called from InvokeSnapshot.

\* The previous message has not been handled: this expiry is skipped.
Skip(s) ==
  /\ s \in batch \cap Paced
  /\ s \in inFlight
  /\ batch' = batch \ {s}
  /\ UNCHANGED <<timerVars, link, workerVars, halted, callVars>>

\* Mutant: the gate is not looked at.
DispatchAlways(s) ==
  /\ s \in batch \cap Paced
  /\ worker = "up"
  /\ Len(queue) < MaxQueue
  /\ queue' = Append(queue, s)
  /\ inFlight' = inFlight \cup {s}
  /\ batch' = batch \ {s}
  /\ UNCHANGED <<timerVars, link, worker, running, halted, callVars>>

\* Mutant: the queue is not bounded.
DispatchUnbounded(s) ==
  /\ s \in (batch \cap Paced) \ inFlight
  /\ worker = "up"
  /\ queue' = Append(queue, s)
  /\ inFlight' = inFlight \cup {s}
  /\ batch' = batch \ {s}
  /\ UNCHANGED <<timerVars, link, worker, running, halted, callVars>>

\* a token, and a message that carries it
Dispatch(s) ==
  /\ s \in (batch \cap Paced) \ inFlight
  /\ worker = "up"
  /\ Len(queue) < MaxQueue
  /\ queue' = Append(queue, s)
  /\ inFlight' = inFlight \cup {s}
  /\ batch' = batch \ {s}
  /\ UNCHANGED <<timerVars, link, worker, running, halted, callVars>>

\* Mutant: the gate stays closed when the message is refused.
RefusedKeepsToken(s) ==
  /\ s \in (batch \cap Paced) \ inFlight
  /\ worker \in {"exiting", "down"} \/ (worker = "up" /\ Len(queue) >= MaxQueue)
  /\ inFlight' = inFlight \cup {s}
  /\ batch' = batch \ {s}
  /\ UNCHANGED <<timerVars, link, worker, queue, running, halted, callVars>>

\* refused by a worker that exits or whose queue is full: the token dies with
\* the message, and the next expiry tries again
Refused(s) ==
  /\ s \in (batch \cap Paced) \ inFlight
  /\ worker \in {"exiting", "down"} \/ (worker = "up" /\ Len(queue) >= MaxQueue)
  /\ batch' = batch \ {s}
  /\ UNCHANGED <<timerVars, link, workerVars, halted, callVars>>

\* DispatchDelegate throws, and ProcessTimers is left as above
Throw(s) ==
  /\ s \in (batch \cap Paced) \ inFlight
  /\ worker = "none"
  /\ batch' = {}
  /\ UNCHANGED <<timerVars, link, workerVars, halted, callVars>>

-----------------------------------------------------------------------------
\* The worker thread.  Its Process is DmqThread's subject; a restart waits here
\* for the loop that was told to exit from inside.

CreateThread ==
  /\ worker \in {"none", "down"}
  /\ running = Nobody
  /\ worker' = "up"
  /\ UNCHANGED <<timerVars, link, batch, queue, running, inFlight, halted, callVars>>

\* the exit message goes behind the accepted ones
ExitThread ==
  /\ worker = "up"
  /\ worker' = "exiting"
  /\ UNCHANGED <<timerVars, link, batch, queue, running, inFlight, halted, callVars>>

Joined ==
  /\ worker = "exiting"
  /\ queue = <<>> /\ running = Nobody
  /\ worker' = "down"
  /\ UNCHANGED <<timerVars, link, batch, queue, running, inFlight, halted, callVars>>

\* ExitThread from inside a target: the queue is cleared and its tokens die
SelfExit ==
  /\ worker = "up"
  /\ running # Nobody
  /\ worker' = "down"
  /\ queue' = <<>>
  /\ inFlight' = inFlight \cap {running}
  /\ UNCHANGED <<timerVars, link, batch, running, halted, callVars>>

\* a message of somebody else
DispatchLoad ==
  /\ worker = "up"
  /\ Len(queue) < MaxQueue
  /\ queue' = Append(queue, Load)
  /\ UNCHANGED <<timerVars, link, batch, worker, running, inFlight, halted, callVars>>

\* The message holds a raw pointer to the clone of the TimerDelegate, which the
\* signal and the snapshots own.
Freed(s) == link[s] = "gone" /\ s \notin batch

\* Process takes the next message and enters its target
Pop ==
  /\ worker \in {"up", "exiting"}
  /\ running = Nobody
  /\ queue # <<>>
  /\ running' = Head(queue)
  /\ queue' = Tail(queue)
  /\ IF Head(queue) = Load THEN UNCHANGED late ELSE Called(Head(queue))
  /\ halted' \in IF Head(queue) # Load /\ Freed(Head(queue)) THEN {"no", "crash"}
                                                             ELSE {"no"}
  /\ UNCHANGED <<timerVars, link, batch, worker, inFlight, owed>>

\* the target returns, the message and its token are destroyed
Finish ==
  /\ running # Nobody
  /\ running' = Nobody
  /\ inFlight' = inFlight \ {running}
  /\ UNCHANGED <<timerVars, link, batch, worker, queue, halted, callVars>>

-----------------------------------------------------------------------------
\* the clock of GetNow
Tick ==
  /\ due' = [t \in Timer |-> IF t \in Enabled THEN Later(due[t]) ELSE due[t]]
  /\ earliest' = [t \in Timer |-> IF t \in Enabled THEN Later(earliest[t]) ELSE earliest[t]]
  /\ UNCHANGED <<listed, ahead, mode, m_timerStopped, alive, link, batch, workerVars, halted,
                 callVars>>

User ==
  \/ \E t \in Timer : Stop(t) \/ Destroy(t) \/ Clear(t) \/ \E m \in {"periodic", "once"} : Start(t, m)
  \/ \E s \in Sub : Connect(s) \/ Disconnect(s)
Invoke(s) ==
  \/ InvokeInline(s) \/ InlineThrows(s)
  \/ Skip(s) \/ Dispatch(s) \/ Refused(s) \/ Throw(s)
ProcessTimers == Collect \/ Overflow \/ \E s \in Sub : Invoke(s)
Worker == Pop \/ Finish \/ Joined

Next ==
  /\ halted = "no"
  /\ \/ User \/ ProcessTimers \/ Worker \/ Tick
     \/ CreateThread \/ ExitThread \/ SelfExit \/ DispatchLoad

Spec == Init /\ [][Next]_vars

\* Time passes, one thread calls ProcessTimers again and again, and the worker
\* is scheduled and its targets return.
FairSpec ==
  /\ Spec
  /\ WF_vars(halted = "no" /\ Tick)
  /\ WF_vars(halted = "no" /\ ProcessTimers)
  /\ WF_vars(halted = "no" /\ Worker)

-----------------------------------------------------------------------------
TypeOK ==
  /\ listed \in SUBSET Timer
  /\ ahead \in SUBSET (Timer \X Timer)
  /\ mode \in [Timer -> {"off", "periodic", "once"}]
  /\ due \in [Timer -> Times]
  /\ m_timerStopped \in BOOLEAN
  /\ alive \in SUBSET Timer
  /\ link \in [Sub -> {"new", "connected", "gone"}]
  /\ batch \in SUBSET Sub
  /\ worker \in {"none", "up", "exiting", "down"}
  /\ queue \in Seq(Sub \cup {Load}) /\ Len(queue) <= MaxQueue
  /\ running \in Sub \cup {Load, Nobody}
  /\ inFlight \in SUBSET Sub
  /\ halted \in {"no", "fault", "crash"}
  /\ earliest \in [Timer -> Times]
  /\ owed \in [Sub -> 0 .. 2]
  /\ late \in [Sub -> 0 .. 2]

(***************************************************************************)
(* The list is a list: its timers are in one line, so that none is linked  *)
(* twice or cut off; an enabled timer is in it, a destroyed one is not,    *)
(* and a disabled one will be unlinked by the next ProcessTimers.          *)
(***************************************************************************)
InLine ==
  /\ ahead \subseteq listed \X listed
  /\ \A t \in listed : <<t, t>> \notin ahead
  /\ \A t, u \in listed : t = u \/ <<t, u>> \in ahead \/ <<u, t>> \in ahead
  /\ \A t, u, v \in listed :
       <<t, u>> \in ahead /\ <<u, v>> \in ahead => <<t, v>> \in ahead
ListSound ==
  /\ InLine
  /\ Enabled \subseteq listed
  /\ listed \subseteq alive
  /\ ~m_timerStopped => listed \subseteq Enabled

(***************************************************************************)
(* A timer is never ahead of its period: the n-th call is not made before  *)
(* n periods have passed since Start, however late ProcessTimers runs and  *)
(* however it catches up.                                                  *)
(***************************************************************************)
PaceKept == \A t \in Timer : due[t] >= earliest[t]

(***************************************************************************)
(* ProcessTimers aborts only if its array has no room left: when the walk  *)
(* began, at least MAX_TIMER_EXPIRED timers had expired and yet another    *)
(* was running, expired or not.  Timers that were stopped do not count,    *)
(* nor do the changes the walk itself has made before it aborts.           *)
(***************************************************************************)
FaultJustified ==
  [][halted' = "fault" => /\ Cardinality({t \in Timer : Expired(t)}) >= MaxExpired
                          /\ Cardinality(Enabled) > MaxExpired]_vars

(***************************************************************************)
(* The gate of PacedDispatch is closed exactly while a message of the      *)
(* subscription is queued or handled, and there is never a second one,     *)
(* through refusals, exits that clear the queue, and restarts.             *)
(***************************************************************************)
OneInFlight ==
  \A s \in Sub :
    /\ s \in inFlight <=> Queued(s) \/ running = s
    /\ running = s => ~Queued(s)
    /\ \A i, j \in 1 .. Len(queue) : queue[i] = s /\ queue[j] = s => i = j

(***************************************************************************)
(* A subscriber that has disconnected, been cleared or lost its timer is   *)
(* called at most for what was under way at that moment: a snapshot and a  *)
(* dispatched message, hence not at all if there was neither.  The worker  *)
(* can follow the pointer to a freed delegate only in such a message: the  *)
(* code does not exclude that, but nobody else is exposed to it.           *)
(***************************************************************************)
CrashEarned ==
  halted = "crash" => \E s \in Sub : running = s /\ link[s] = "gone" /\ owed[s] > 0
LateCalls ==
  /\ \A s \in Sub : late[s] <= owed[s]
  /\ CrashEarned

(***************************************************************************)
(* Pacing does not starve: a paced subscriber of a timer that keeps        *)
(* running and is not started anew is called again and again, whatever     *)
(* happened to its messages before, once its worker stays up and is not    *)
(* crowded by others and no plain target throws it out of a walk.          *)
(***************************************************************************)
Steady(s) ==
  /\ halted = "no"
  /\ link[s] = "connected"
  /\ mode[TimerOf[s]] = "periodic"
  /\ worker = "up"
  /\ ~Queued(Load)
Restart(t) == \E m \in {"periodic", "once"} : Start(t, m)
ThrownOut(s) == s \in batch /\ \E u \in Sub : InlineThrows(u)
PacedServed ==
  \A s \in Paced :
    <>[]Steady(s) /\ <>[][~Restart(TimerOf[s]) /\ ~ThrownOut(s)]_vars => []<>(running = s)
=============================================================================
