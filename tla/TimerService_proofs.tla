------------------------- MODULE TimerService_proofs -------------------------
(***************************************************************************)
(* Proofs about TimerService, for any finite set of timers, any            *)
(* subscriptions, any period, array size and queue bound: the list, the    *)
(* pace and the gate, and what may still happen after a disconnect.        *)
(***************************************************************************)
EXTENDS TimerService, FiniteSetTheorems, TLAPS

TypeTimers ==
  /\ listed \in SUBSET Timer
  /\ ahead \in SUBSET (Timer \X Timer)
  /\ mode \in [Timer -> {"off", "periodic", "once"}]
  /\ due \in [Timer -> Times]
  /\ m_timerStopped \in BOOLEAN
  /\ alive \in SUBSET Timer
  /\ earliest \in [Timer -> Times]

TypeCalls ==
  /\ link \in [Sub -> {"new", "connected", "gone"}]
  /\ batch \in SUBSET Sub
  /\ worker \in {"none", "up", "exiting", "down"}
  /\ queue \in Seq(Sub \cup {Load}) /\ Len(queue) <= MaxQueue
  /\ running \in Sub \cup {Load, Nobody}
  /\ inFlight \in SUBSET Sub
  /\ halted \in {"no", "fault", "crash"}

\* What the timers and their list look like between two uses of the timer lock.
TimersInv == TypeTimers /\ ListSound /\ PaceKept

\* The messages of the worker, seen as a sequence q of values.
In(q, s) == \E i \in 1 .. Len(q) : q[i] = s
Once(q, s) == \A i, j \in 1 .. Len(q) : q[i] = s /\ q[j] = s => i = j
Gate(s, q, r, f) == /\ s \in f <=> In(q, s) \/ r = s
                    /\ r = s => ~In(q, s)
                    /\ Once(q, s)

(***************************************************************************)
(* Late calls are paid for: what was owed at the moment of Disconnect      *)
(* covers the calls made since and those still under way, because nothing  *)
(* puts a subscription that is gone into a snapshot.                       *)
(***************************************************************************)
Paid(s, lk, bt, q, ow, lt) ==
  /\ ow \in 0 .. 2 /\ lt \in Nat
  /\ lk # "gone" => lt = 0
  /\ lk = "gone" =>
       lt + (IF s \in bt THEN 1 ELSE 0) + (IF In(q, s) THEN 1 ELSE 0) <= ow
AllPaid ==
  /\ owed \in [Sub -> 0 .. 2] /\ late \in [Sub -> Nat]
  /\ \A s \in Sub : Paid(s, link[s], batch, queue, owed[s], late[s])

Inv == TimersInv /\ TypeCalls /\ OneInFlight /\ AllPaid /\ CrashEarned

-----------------------------------------------------------------------------
\* Facts about the queue of the worker and about the clock.

\* A message put at the end of the queue is the only new one.
LEMMA AppendIn ==
  ASSUME NEW S, NEW q \in Seq(S), NEW x \in S, NEW s
  PROVE  /\ Append(q, x) \in Seq(S) /\ Len(Append(q, x)) = Len(q) + 1
         /\ In(Append(q, x), s) <=> In(q, s) \/ s = x
         /\ Once(q, s) /\ (s = x => ~In(q, s)) => Once(Append(q, x), s)
<1>1. /\ Append(q, x) \in Seq(S) /\ Len(Append(q, x)) = Len(q) + 1 /\ Len(q) \in Nat
      /\ Append(q, x)[Len(q) + 1] = x
      /\ \A i \in 1 .. Len(q) : Append(q, x)[i] = q[i]
  OBVIOUS
<1>2. \A i \in 1 .. Len(q) + 1 : i \in 1 .. Len(q) \/ i = Len(q) + 1
  BY <1>1
<1>3. Len(q) + 1 \in 1 .. Len(q) + 1 /\ \A i \in 1 .. Len(q) : i \in 1 .. Len(q) + 1
  BY <1>1
<1> QED
  BY <1>1, <1>2, <1>3 DEF In, Once

\* Taking the first message leaves the others, and no second copy of a single one.
LEMMA TailIn ==
  ASSUME NEW S, NEW q \in Seq(S), q # <<>>, NEW s
  PROVE  /\ Tail(q) \in Seq(S) /\ Len(Tail(q)) = Len(q) - 1 /\ Head(q) \in S
         /\ In(q, s) <=> In(Tail(q), s) \/ s = Head(q)
         /\ Once(q, s) => Once(Tail(q), s)
         /\ Once(q, s) /\ s = Head(q) => ~In(Tail(q), s)
<1>1. /\ Tail(q) \in Seq(S) /\ Len(Tail(q)) = Len(q) - 1 /\ Head(q) \in S
      /\ Head(q) = q[1] /\ Len(q) \in Nat /\ Len(q) >= 1
      /\ \A i \in 1 .. Len(q) - 1 : Tail(q)[i] = q[i + 1]
  OBVIOUS
<1>2. \A i \in 1 .. Len(q) - 1 : i + 1 \in 1 .. Len(q) /\ i + 1 # 1
  BY <1>1
<1>3. \A i \in 1 .. Len(q) : i = 1 \/ (i - 1 \in 1 .. Len(q) - 1 /\ (i - 1) + 1 = i)
  BY <1>1
<1>4. 1 \in 1 .. Len(q)
  BY <1>1
<1>5. In(q, s) <=> In(Tail(q), s) \/ s = Head(q)
  <2>1. ASSUME NEW i \in 1 .. Len(q), q[i] = s, s # Head(q) PROVE In(Tail(q), s)
    <3>1. i - 1 \in 1 .. Len(q) - 1 /\ (i - 1) + 1 = i
      BY <1>1, <1>3, <2>1
    <3>2. Tail(q)[i - 1] = s
      BY <1>1, <2>1, <3>1
    <3> QED
      BY <1>1, <3>1, <3>2 DEF In
  <2>2. ASSUME In(Tail(q), s) PROVE In(q, s)
    BY <1>1, <1>2, <2>2 DEF In
  <2>3. ASSUME s = Head(q) PROVE In(q, s)
    BY <1>1, <1>4, <2>3 DEF In
  <2> QED
    BY <2>1, <2>2, <2>3 DEF In
<1>6. ASSUME Once(q, s) PROVE Once(Tail(q), s)
  <2>1. \A i, j \in 1 .. Len(q) - 1 : q[i + 1] = s /\ q[j + 1] = s => i + 1 = j + 1
    BY <1>2, <1>6 DEF Once
  <2>2. \A i, j \in 1 .. Len(q) - 1 : i + 1 = j + 1 => i = j
    BY <1>1
  <2> QED
    BY <1>1, <2>1, <2>2 DEF Once
<1>7. ASSUME Once(q, s), s = Head(q) PROVE ~In(Tail(q), s)
  BY <1>1, <1>2, <1>4, <1>7 DEF In, Once
<1> QED
  BY <1>1, <1>5, <1>6, <1>7

\* The cleared queue holds nothing.
LEMMA EmptyIn ==
  ASSUME NEW s, NEW S PROVE <<>> \in Seq(S) /\ Len(<<>>) = 0 /\ ~In(<<>>, s) /\ Once(<<>>, s)
  BY DEF In, Once

\* One tick keeps a time in range and the order of two times.
LEMMA LaterTimes ==
  ASSUME NEW d \in Times, NEW e \in Times
  PROVE  Later(d) \in Times /\ (d >= e => Later(d) >= Later(e))
  BY TimerAssumption DEF Times, Later

\* A periodic timer that has expired is armed for a time not before its pace.
LEMMA RearmTimes ==
  ASSUME TypeTimers, PaceKept, NEW t \in Timer, Expired(t)
  PROVE  Rearm(t) \in Times /\ earliest[t] + Period \in Times /\ Rearm(t) >= earliest[t] + Period
<1>1. /\ due[t] \in -(Period + 1) .. Period /\ earliest[t] \in -(Period + 1) .. Period
      /\ due[t] >= earliest[t] /\ due[t] <= 0 /\ Period \in Nat \ {0}
  BY TimerAssumption DEF TypeTimers, PaceKept, Expired, Times
<1> QED
  BY <1>1 DEF Rearm, Times

\* Stop and ~Timer leave no time behind.
LEMMA DisabledTimes ==
  ASSUME TypeTimers, PaceKept, NEW T, Disable(T)
  PROVE  /\ mode' \in [Timer -> {"off", "periodic", "once"}]
         /\ due' \in [Timer -> Times] /\ earliest' \in [Timer -> Times] /\ PaceKept'
         /\ Enabled' = Enabled \ T
<1>1. 0 \in Times
  BY TimerAssumption DEF Times
<1> QED
  BY <1>1 DEF TypeTimers, PaceKept, Disable, Enabled, Times

\* Unlinking keeps the others in line.
LEMMA UnlinkInLine ==
  ASSUME TypeTimers, InLine, NEW T, Unlink(T)
  PROVE  /\ InLine' /\ listed' = listed \ T
         /\ listed' \in SUBSET Timer /\ ahead' \in SUBSET (Timer \X Timer)
<1>1. \A t, u : <<t, u>> \in ahead' <=> <<t, u>> \in ahead /\ t \in listed \ T /\ u \in listed \ T
  BY DEF Unlink
<1>2. listed' = listed \ T /\ ahead' \subseteq (listed \ T) \X (listed \ T)
  BY DEF Unlink
<1>3. /\ \A t \in listed' : <<t, t>> \notin ahead'
      /\ \A t, u \in listed' : t = u \/ <<t, u>> \in ahead' \/ <<u, t>> \in ahead'
  BY <1>1, <1>2 DEF InLine
<1>4. \A t, u, v \in listed' : <<t, u>> \in ahead' /\ <<u, v>> \in ahead' => <<t, v>> \in ahead'
  BY <1>1, <1>2 DEF InLine
<1> QED
  BY <1>1, <1>2, <1>3, <1>4 DEF InLine, TypeTimers

-----------------------------------------------------------------------------
\* The timers.

\* A timer is put in front of the line, or keeps its place in it.
LEMMA StartTimers ==
  ASSUME TimersInv, NEW t \in Timer, NEW m \in {"periodic", "once"}, Start(t, m)
  PROVE  TimersInv'
<1>1. TypeTimers'
  <2>1. Period \in Times
    BY TimerAssumption DEF Times
  <2>2. ahead' \in SUBSET (Timer \X Timer) /\ listed' \in SUBSET Timer
    BY DEF TimersInv, TypeTimers, Start
  <2> QED
    BY <2>1, <2>2 DEF TimersInv, TypeTimers, Start
<1>2. InLine'
  <2>1. CASE t \in listed
    <3>1. listed' = listed /\ ahead' = ahead
      BY <2>1 DEF Start
    <3> QED
      BY <3>1 DEF TimersInv, ListSound, InLine
  <2>2. CASE t \notin listed
    <3>1. listed' = listed \cup {t} /\ ahead' = ahead \cup ({t} \X listed)
      BY <2>2 DEF Start
    <3>2. \A u, v : <<u, v>> \in ahead' <=> <<u, v>> \in ahead \/ (u = t /\ v \in listed)
      BY <3>1
    <3>3. \A u, v : <<u, v>> \in ahead => u \in listed /\ v \in listed
      BY DEF TimersInv, ListSound, InLine
    <3>4. ahead' \subseteq listed' \X listed'
      BY <3>1 DEF TimersInv, ListSound, InLine
    <3>5. /\ \A u \in listed' : <<u, u>> \notin ahead'
          /\ \A u, v \in listed' : u = v \/ <<u, v>> \in ahead' \/ <<v, u>> \in ahead'
      BY <2>2, <3>1, <3>2, <3>3 DEF TimersInv, ListSound, InLine
    <3>6. \A u, v, w \in listed' : <<u, v>> \in ahead' /\ <<v, w>> \in ahead' => <<u, w>> \in ahead'
      BY <2>2, <3>1, <3>2, <3>3 DEF TimersInv, ListSound, InLine
    <3> QED
      BY <3>4, <3>5, <3>6 DEF InLine
  <2> QED
    BY <2>1, <2>2
<1>3. Enabled' = Enabled \cup {t}
  BY DEF TimersInv, TypeTimers, Start, Enabled
<1>4. ListSound'
  BY <1>2, <1>3 DEF TimersInv, ListSound, Start
<1>5. PaceKept'
  BY TimerAssumption DEF TimersInv, TypeTimers, PaceKept, Start
<1> QED
  BY <1>1, <1>4, <1>5 DEF TimersInv

\* A stopped timer stays in line, and the next ProcessTimers knows.
LEMMA StopTimers ==
  ASSUME TimersInv, NEW t \in Timer, Stop(t) PROVE TimersInv'
<1>1. Disable({t}) /\ TypeTimers /\ PaceKept
  BY DEF TimersInv, Stop
<1>2. TypeTimers' /\ PaceKept'
  BY <1>1, DisabledTimes DEF TypeTimers, Stop
<1>3. Enabled' = Enabled \ {t}
  BY <1>1, DisabledTimes
<1> QED
  BY <1>2, <1>3 DEF TimersInv, ListSound, InLine, Stop

\* A destroyed timer is neither enabled nor in line.
LEMMA DestroyTimers ==
  ASSUME TimersInv, NEW t \in Timer, Destroy(t) PROVE TimersInv'
<1>1. Disable({t}) /\ TypeTimers /\ PaceKept /\ Unlink({t}) /\ InLine
  BY DEF TimersInv, ListSound, Destroy
<1>2. listed' = listed \ {t} /\ InLine' /\ ahead' \in SUBSET (Timer \X Timer)
  BY <1>1, UnlinkInLine
<1>3. Enabled' = Enabled \ {t} /\ PaceKept' /\ due' \in [Timer -> Times]
      /\ earliest' \in [Timer -> Times] /\ mode' \in [Timer -> {"off", "periodic", "once"}]
  BY <1>1, DisabledTimes
<1>4. TypeTimers'
  BY <1>1, <1>2, <1>3 DEF TypeTimers, Destroy
<1> QED
  BY <1>2, <1>3, <1>4 DEF TimersInv, ListSound, Destroy

\* A walk unlinks what is disabled, and arms what has expired in its pace, whether
\* it comes to the end of the list or not.
LEMMA WalkTimers ==
  ASSUME TimersInv, Walk, alive' = alive PROVE TimersInv'
<1> DEFINE single == {t \in Fired : mode[t] = "once"}
<1>0. /\ Unlink(Dropped)
      /\ m_timerStopped' = (single # {})
      /\ mode' = [t \in Timer |-> IF t \in single THEN "off" ELSE mode[t]]
      /\ due' = [t \in Timer |-> IF t \in single THEN 0
                                  ELSE IF t \in Fired THEN Rearm(t) ELSE due[t]]
      /\ earliest' = [t \in Timer |-> IF t \in single THEN 0
                                       ELSE IF t \in Fired THEN earliest[t] + Period
                                                           ELSE earliest[t]]
  BY DEF Walk
<1>t. TypeTimers /\ ListSound /\ PaceKept /\ InLine
  BY DEF TimersInv, ListSound
<1>1. /\ InLine' /\ listed' = listed \ Dropped
      /\ listed' \in SUBSET Timer /\ ahead' \in SUBSET (Timer \X Timer)
  BY <1>0, <1>t, UnlinkInLine
<1>2. \A t \in Fired : t \in Timer /\ Expired(t)
  BY <1>t DEF TypeTimers, Fired
<1>3. \A t \in Fired : Rearm(t) \in Times /\ earliest[t] + Period \in Times /\ Rearm(t) >= earliest[t] + Period
  BY <1>2, <1>t, RearmTimes
<1>z. 0 \in Times /\ 0 >= 0
  BY TimerAssumption DEF Times
<1>4. due' \in [Timer -> Times] /\ earliest' \in [Timer -> Times]
  BY <1>0, <1>3, <1>t, <1>z DEF TypeTimers
<1>5. PaceKept'
  BY <1>0, <1>3, <1>t, <1>z DEF PaceKept, TypeTimers
<1>6. TypeTimers'
  BY <1>0, <1>1, <1>4, <1>t DEF TypeTimers
<1>7. Enabled' = Enabled \ single
  BY <1>0, <1>t DEF Enabled, TypeTimers
<1>8. Enabled \cap Dropped = {} /\ listed \ Dropped \subseteq Enabled
  BY <1>t DEF Dropped, Enabled, ListSound, TypeTimers
<1>9. ListSound'
  BY <1>0, <1>1, <1>7, <1>8, <1>t DEF ListSound
<1> QED
  BY <1>5, <1>6, <1>9 DEF TimersInv

\* The clock runs for a timer and its pace alike.
LEMMA TickTimers ==
  ASSUME TimersInv, Tick PROVE TimersInv'
<1>t. TypeTimers /\ PaceKept
  BY DEF TimersInv
<1>1. \A t \in Timer : /\ Later(due[t]) \in Times /\ Later(earliest[t]) \in Times
                       /\ Later(due[t]) >= Later(earliest[t])
  BY <1>t, LaterTimes DEF TypeTimers, PaceKept
<1>2. TypeTimers' /\ PaceKept'
  BY <1>1, <1>t DEF TypeTimers, PaceKept, Tick
<1>3. Enabled' = Enabled
  BY DEF Tick, Enabled
<1> QED
  BY <1>2, <1>3 DEF TimersInv, ListSound, InLine, Tick

\* Every other step leaves the timers alone.
LEMMA KeepTimers ==
  ASSUME TimersInv, UNCHANGED timerVars PROVE TimersInv'
  BY DEF TimersInv, TypeTimers, ListSound, InLine, PaceKept, Enabled, timerVars

LEMMA NextTimers ==
  ASSUME TimersInv, [Next]_vars PROVE TimersInv'

<1>1. ASSUME NEW t \in Timer, NEW m \in {"periodic", "once"}, Start(t, m) PROVE TimersInv'
  BY <1>1, StartTimers
<1>2. ASSUME NEW t \in Timer, Stop(t) PROVE TimersInv'
  BY <1>2, StopTimers
<1>3. ASSUME NEW t \in Timer, Destroy(t) PROVE TimersInv'
  BY <1>3, DestroyTimers
<1>4. ASSUME NEW t \in Timer, Clear(t) PROVE TimersInv'
  BY <1>4, KeepTimers DEF Clear
<1>5. ASSUME NEW s \in Sub, Connect(s) PROVE TimersInv'
  BY <1>5, KeepTimers DEF Connect
<1>6. ASSUME NEW s \in Sub, Disconnect(s) PROVE TimersInv'
  BY <1>6, KeepTimers DEF Disconnect
<1>7. ASSUME Collect PROVE TimersInv'
  BY <1>7, WalkTimers DEF Collect
<1>8. ASSUME Overflow PROVE TimersInv'
  BY <1>8, WalkTimers DEF Overflow
<1>9. ASSUME NEW s \in Sub, InvokeInline(s) PROVE TimersInv'
  BY <1>9, KeepTimers DEF InvokeInline
<1>10. ASSUME NEW s \in Sub, Skip(s) PROVE TimersInv'
  BY <1>10, KeepTimers DEF Skip
<1>11. ASSUME NEW s \in Sub, Dispatch(s) PROVE TimersInv'
  BY <1>11, KeepTimers DEF Dispatch
<1>12. ASSUME NEW s \in Sub, Refused(s) PROVE TimersInv'
  BY <1>12, KeepTimers DEF Refused
<1>13. ASSUME NEW s \in Sub, Throw(s) PROVE TimersInv'
  BY <1>13, KeepTimers DEF Throw
<1>14. ASSUME CreateThread PROVE TimersInv'
  BY <1>14, KeepTimers DEF CreateThread
<1>15. ASSUME ExitThread PROVE TimersInv'
  BY <1>15, KeepTimers DEF ExitThread
<1>16. ASSUME Joined PROVE TimersInv'
  BY <1>16, KeepTimers DEF Joined
<1>17. ASSUME SelfExit PROVE TimersInv'
  BY <1>17, KeepTimers DEF SelfExit
<1>18. ASSUME DispatchLoad PROVE TimersInv'
  BY <1>18, KeepTimers DEF DispatchLoad
<1>19. ASSUME Pop PROVE TimersInv'
  BY <1>19, KeepTimers DEF Pop
<1>20. ASSUME Finish PROVE TimersInv'
  BY <1>20, KeepTimers DEF Finish
<1>21. ASSUME Tick PROVE TimersInv'
  BY <1>21, TickTimers
<1>22. ASSUME NEW s \in Sub, InlineThrows(s) PROVE TimersInv'
  BY <1>22, KeepTimers DEF InlineThrows
<1>23. CASE UNCHANGED vars
  BY <1>23, KeepTimers DEF vars
<1> QED
  BY <1>1, <1>2, <1>3, <1>4, <1>5, <1>6, <1>7, <1>8, <1>9, <1>10, <1>11, <1>12, <1>13, <1>14, <1>15, <1>16, <1>17, <1>18, <1>19, <1>20, <1>21, <1>22, <1>23 DEF Next, User, ProcessTimers, Invoke, Worker

-----------------------------------------------------------------------------
\* The calls: subscriptions, queue and gate.

CallsOK == TypeCalls /\ OneInFlight

\* the gate of a subscription, with the queue as a value
LEMMA GateIs ==
  OneInFlight <=> \A s \in Sub : Gate(s, queue, running, inFlight)
  BY DEF OneInFlight, Gate, In, Once, Queued

LEMMA GateIsNext ==
  OneInFlight' <=> \A s \in Sub : Gate(s, queue', running', inFlight')
  BY DEF OneInFlight, Gate, In, Once, Queued

LEMMA NextCalls ==
  ASSUME TypeCalls, OneInFlight, [Next]_vars PROVE TypeCalls' /\ OneInFlight'
<1>g. \A s \in Sub : Gate(s, queue, running, inFlight)
  BY GateIs
<1>k. ASSUME UNCHANGED <<queue, running, inFlight>> PROVE OneInFlight'
  BY <1>k DEF OneInFlight, Queued
<1>1. ASSUME NEW t \in Timer, NEW m \in {"periodic", "once"}, Start(t, m) PROVE TypeCalls' /\ OneInFlight'
  <2>1. UNCHANGED <<queue, running, inFlight>>
    BY <1>1 DEF Start, workerVars
  <2>2. TypeCalls'
    BY <1>1 DEF TypeCalls, Start, workerVars
  <2> QED
    BY <1>k, <2>1, <2>2
<1>2. ASSUME NEW t \in Timer, Stop(t) PROVE TypeCalls' /\ OneInFlight'
  <2>1. UNCHANGED <<queue, running, inFlight>>
    BY <1>2 DEF Stop, workerVars
  <2>2. TypeCalls'
    BY <1>2 DEF TypeCalls, Stop, workerVars
  <2> QED
    BY <1>k, <2>1, <2>2
<1>3. ASSUME NEW t \in Timer, Destroy(t) PROVE TypeCalls' /\ OneInFlight'
  <2>1. UNCHANGED <<queue, running, inFlight>>
    BY <1>3 DEF Destroy, workerVars
  <2>2. TypeCalls'
    BY <1>3 DEF TypeCalls, Destroy, Cut, workerVars
  <2> QED
    BY <1>k, <2>1, <2>2
<1>4. ASSUME NEW t \in Timer, Clear(t) PROVE TypeCalls' /\ OneInFlight'
  <2>1. UNCHANGED <<queue, running, inFlight>>
    BY <1>4 DEF Clear, workerVars
  <2>2. TypeCalls'
    BY <1>4 DEF TypeCalls, Clear, Cut, workerVars
  <2> QED
    BY <1>k, <2>1, <2>2
<1>5. ASSUME NEW s \in Sub, Connect(s) PROVE TypeCalls' /\ OneInFlight'
  <2>1. UNCHANGED <<queue, running, inFlight>>
    BY <1>5 DEF Connect, workerVars
  <2>2. TypeCalls'
    BY <1>5 DEF TypeCalls, Connect, workerVars
  <2> QED
    BY <1>k, <2>1, <2>2
<1>6. ASSUME NEW s \in Sub, Disconnect(s) PROVE TypeCalls' /\ OneInFlight'
  <2>1. UNCHANGED <<queue, running, inFlight>>
    BY <1>6 DEF Disconnect, workerVars
  <2>2. TypeCalls'
    BY <1>6 DEF TypeCalls, Disconnect, Cut, workerVars
  <2> QED
    BY <1>k, <2>1, <2>2
<1>7. ASSUME Collect PROVE TypeCalls' /\ OneInFlight'
  <2>1. UNCHANGED <<queue, running, inFlight>>
    BY <1>7 DEF Collect, workerVars
  <2>2. TypeCalls'
    BY <1>7 DEF TypeCalls, Collect, Snapshot, ConnectedTo, workerVars
  <2> QED
    BY <1>k, <2>1, <2>2
<1>8. ASSUME Overflow PROVE TypeCalls' /\ OneInFlight'
  <2>1. UNCHANGED <<queue, running, inFlight>>
    BY <1>8 DEF Overflow, workerVars
  <2>2. TypeCalls'
    BY <1>8 DEF TypeCalls, Overflow, workerVars
  <2> QED
    BY <1>k, <2>1, <2>2
<1>9. ASSUME NEW s \in Sub, InvokeInline(s) PROVE TypeCalls' /\ OneInFlight'
  <2>1. UNCHANGED <<queue, running, inFlight>>
    BY <1>9 DEF InvokeInline, workerVars
  <2>2. TypeCalls'
    BY <1>9 DEF TypeCalls, InvokeInline, workerVars
  <2> QED
    BY <1>k, <2>1, <2>2
<1>10. ASSUME NEW s \in Sub, Skip(s) PROVE TypeCalls' /\ OneInFlight'
  <2>1. UNCHANGED <<queue, running, inFlight>>
    BY <1>10 DEF Skip, workerVars
  <2>2. TypeCalls'
    BY <1>10 DEF TypeCalls, Skip, workerVars
  <2> QED
    BY <1>k, <2>1, <2>2
<1>11. ASSUME NEW s \in Sub, Dispatch(s) PROVE TypeCalls' /\ OneInFlight'
  <2>1. /\ queue' = Append(queue, s) /\ inFlight' = inFlight \cup {s} /\ running' = running
        /\ batch' = batch \ {s} /\ s \notin inFlight /\ Len(queue) < MaxQueue
        /\ UNCHANGED <<link, worker, halted>>
    BY <1>11 DEF Dispatch
  <2>2. queue \in Seq(Sub \cup {Load}) /\ s \in Sub \cup {Load} /\ Len(queue) \in Nat
    BY DEF TypeCalls
  <2>3. queue' \in Seq(Sub \cup {Load}) /\ Len(queue') = Len(queue) + 1
    BY <2>1, <2>2, AppendIn
  <2>4. TypeCalls'
    BY <2>1, <2>2, <2>3, TimerAssumption DEF TypeCalls
  <2>5. ASSUME NEW u \in Sub PROVE Gate(u, queue', running', inFlight')
    <3>1. /\ In(queue', u) <=> In(queue, u) \/ u = s
          /\ Once(queue, u) /\ (u = s => ~In(queue, u)) => Once(queue', u)
      BY <2>1, <2>2, AppendIn
    <3>2. Gate(u, queue, running, inFlight)
      BY <1>g
    <3> QED
      BY <2>1, <3>1, <3>2 DEF Gate
  <2> QED
    BY <2>4, <2>5, GateIsNext
<1>12. ASSUME NEW s \in Sub, Refused(s) PROVE TypeCalls' /\ OneInFlight'
  <2>1. UNCHANGED <<queue, running, inFlight>>
    BY <1>12 DEF Refused, workerVars
  <2>2. TypeCalls'
    BY <1>12 DEF TypeCalls, Refused, workerVars
  <2> QED
    BY <1>k, <2>1, <2>2
<1>13. ASSUME NEW s \in Sub, Throw(s) PROVE TypeCalls' /\ OneInFlight'
  <2>1. UNCHANGED <<queue, running, inFlight>>
    BY <1>13 DEF Throw, workerVars
  <2>2. TypeCalls'
    BY <1>13 DEF TypeCalls, Throw, workerVars
  <2> QED
    BY <1>k, <2>1, <2>2
<1>14. ASSUME CreateThread PROVE TypeCalls' /\ OneInFlight'
  <2>1. UNCHANGED <<queue, running, inFlight>>
    BY <1>14 DEF CreateThread, workerVars
  <2>2. TypeCalls'
    BY <1>14 DEF TypeCalls, CreateThread, workerVars
  <2> QED
    BY <1>k, <2>1, <2>2
<1>15. ASSUME ExitThread PROVE TypeCalls' /\ OneInFlight'
  <2>1. UNCHANGED <<queue, running, inFlight>>
    BY <1>15 DEF ExitThread, workerVars
  <2>2. TypeCalls'
    BY <1>15 DEF TypeCalls, ExitThread, workerVars
  <2> QED
    BY <1>k, <2>1, <2>2
<1>16. ASSUME Joined PROVE TypeCalls' /\ OneInFlight'
  <2>1. UNCHANGED <<queue, running, inFlight>>
    BY <1>16 DEF Joined, workerVars
  <2>2. TypeCalls'
    BY <1>16 DEF TypeCalls, Joined, workerVars
  <2> QED
    BY <1>k, <2>1, <2>2
<1>17. ASSUME SelfExit PROVE TypeCalls' /\ OneInFlight'
  <2>1. TypeCalls'
    BY <1>17, EmptyIn, TimerAssumption DEF TypeCalls, SelfExit
  <2>2. ASSUME NEW u \in Sub PROVE Gate(u, queue', running', inFlight')
    <3>1. queue' = <<>> /\ running' = running /\ inFlight' = inFlight \cap {running}
      BY <1>17 DEF SelfExit
    <3> QED
      BY <1>g, <3>1, EmptyIn DEF Gate
  <2> QED
    BY <2>1, <2>2, GateIsNext
<1>18. ASSUME DispatchLoad PROVE TypeCalls' /\ OneInFlight'
  <2>1. /\ queue' = Append(queue, Load) /\ Len(queue) < MaxQueue
        /\ UNCHANGED <<link, worker, halted, batch, inFlight, running>>
    BY <1>18 DEF DispatchLoad
  <2>2. queue \in Seq(Sub \cup {Load}) /\ Load \in Sub \cup {Load} /\ Len(queue) \in Nat
    BY DEF TypeCalls
  <2>3. queue' \in Seq(Sub \cup {Load}) /\ Len(queue') = Len(queue) + 1
    BY <2>1, <2>2, AppendIn
  <2>4. TypeCalls'
    BY <2>1, <2>2, <2>3, TimerAssumption DEF TypeCalls
  <2>5. ASSUME NEW u \in Sub PROVE Gate(u, queue', running', inFlight')
    <3>1. u # Load
      BY TimerAssumption
    <3>2. /\ In(queue', u) <=> In(queue, u)
          /\ Once(queue, u) => Once(queue', u)
      BY <2>1, <2>2, <3>1, AppendIn
    <3>3. Gate(u, queue, running, inFlight)
      BY <1>g
    <3> QED
      BY <2>1, <3>2, <3>3 DEF Gate
  <2> QED
    BY <2>4, <2>5, GateIsNext
<1>19. ASSUME Pop PROVE TypeCalls' /\ OneInFlight'
  <2>1. /\ queue # <<>> /\ queue' = Tail(queue) /\ running = Nobody /\ running' = Head(queue)
        /\ halted' \in {"no", "crash"}
        /\ UNCHANGED <<link, worker, batch, inFlight>>
    BY <1>19 DEF Pop
  <2>2. queue \in Seq(Sub \cup {Load}) /\ Len(queue) \in Nat
    BY DEF TypeCalls
  <2>3. /\ queue' \in Seq(Sub \cup {Load}) /\ Len(queue') = Len(queue) - 1
        /\ running' \in Sub \cup {Load}
    BY <2>1, <2>2, TailIn
  <2>4. TypeCalls'
    BY <2>1, <2>2, <2>3, TimerAssumption DEF TypeCalls
  <2>5. ASSUME NEW u \in Sub PROVE Gate(u, queue', running', inFlight')
    <3>1. /\ In(queue, u) <=> In(queue', u) \/ u = running'
          /\ Once(queue, u) => Once(queue', u)
          /\ Once(queue, u) /\ u = running' => ~In(queue', u)
      BY <2>1, <2>2, TailIn
    <3>2. Gate(u, queue, running, inFlight) /\ running # u
      BY <1>g, <2>1, TimerAssumption
    <3> QED
      BY <2>1, <3>1, <3>2 DEF Gate
  <2> QED
    BY <2>4, <2>5, GateIsNext
<1>20. ASSUME Finish PROVE TypeCalls' /\ OneInFlight'
  <2>1. TypeCalls'
    BY <1>20, TimerAssumption DEF TypeCalls, Finish
  <2>2. ASSUME NEW u \in Sub PROVE Gate(u, queue', running', inFlight')
    BY <1>g, <1>20, TimerAssumption DEF Gate, Finish
  <2> QED
    BY <2>1, <2>2, GateIsNext
<1>21. ASSUME Tick PROVE TypeCalls' /\ OneInFlight'
  <2>1. UNCHANGED <<queue, running, inFlight>>
    BY <1>21 DEF Tick, workerVars
  <2>2. TypeCalls'
    BY <1>21 DEF TypeCalls, Tick, workerVars
  <2> QED
    BY <1>k, <2>1, <2>2
<1>22. ASSUME NEW s \in Sub, InlineThrows(s) PROVE TypeCalls' /\ OneInFlight'
  <2>1. UNCHANGED <<queue, running, inFlight>>
    BY <1>22 DEF InlineThrows, workerVars
  <2>2. TypeCalls'
    BY <1>22 DEF TypeCalls, InlineThrows, workerVars
  <2> QED
    BY <1>k, <2>1, <2>2
<1>23. ASSUME UNCHANGED vars PROVE TypeCalls' /\ OneInFlight'
  BY <1>k, <1>23 DEF TypeCalls, vars, workerVars
<1> QED
  BY <1>1, <1>2, <1>3, <1>4, <1>5, <1>6, <1>7, <1>8, <1>9, <1>10, <1>11, <1>12, <1>13, <1>14, <1>15, <1>16, <1>17, <1>18, <1>19, <1>20, <1>21, <1>22, <1>23 DEF Next, User, ProcessTimers, Invoke, Worker

-----------------------------------------------------------------------------
\* What a subscription that has gone is owed.

\* At the moment of Disconnect, Clear or ~Timer the debt is what is under way.
LEMMA CutPaid ==
  ASSUME TypeCalls, AllPaid, NEW S \in SUBSET {s \in Sub : link[s] = "connected"}, Cut(S),
         UNCHANGED <<batch, queue, late>>
  PROVE  AllPaid'
<1>1. \A s \in Sub : UnderWay(s) \in 0 .. 2
  BY DEF UnderWay
<1>2. owed' \in [Sub -> 0 .. 2] /\ late' \in [Sub -> Nat]
  BY <1>1 DEF Cut, AllPaid
<1>3. ASSUME NEW s \in Sub PROVE Paid(s, link'[s], batch', queue', owed'[s], late'[s])
  <2>1. CASE s \in S
    <3>1. link[s] = "connected" /\ late[s] = 0 /\ link'[s] = "gone" /\ owed'[s] = UnderWay(s)
      BY <2>1 DEF AllPaid, Paid, Cut
    <3>2. UnderWay(s) = (IF s \in batch THEN 1 ELSE 0) + (IF In(queue, s) THEN 1 ELSE 0)
      BY DEF UnderWay, In, Queued
    <3> QED
      BY <1>1, <3>1, <3>2 DEF Paid
  <2>2. CASE s \notin S
    <3>1. link'[s] = link[s] /\ owed'[s] = owed[s]
      BY <2>2 DEF Cut
    <3> QED
      BY <3>1 DEF AllPaid
  <2> QED
    BY <2>1, <2>2
<1> QED
  BY <1>2, <1>3 DEF AllPaid

\* With fewer calls under way and no new ones made, the debt still covers them.
LEMMA LessPaid ==
  ASSUME TypeCalls, AllPaid, UNCHANGED <<link, owed, late>>,
         \A s \in Sub : link[s] = "gone" =>
           /\ s \in batch' => s \in batch
           /\ In(queue', s) => In(queue, s)
  PROVE  AllPaid'
<1>1. ASSUME NEW s \in Sub PROVE Paid(s, link'[s], batch', queue', owed'[s], late'[s])
  <2>1. Paid(s, link[s], batch, queue, owed[s], late[s])
    BY DEF AllPaid
  <2>2. CASE link[s] # "gone"
    BY <2>1, <2>2 DEF Paid
  <2>3. CASE link[s] = "gone"
    BY <2>1, <2>3 DEF Paid
  <2> QED
    BY <2>2, <2>3
<1> QED
  BY <1>1 DEF AllPaid

LEMMA NextPaid ==
  ASSUME TypeCalls, OneInFlight, AllPaid, [Next]_vars PROVE AllPaid'
<1>g. \A s \in Sub : Gate(s, queue, running, inFlight)
  BY GateIs
<1>p. \A s \in Sub : Paid(s, link[s], batch, queue, owed[s], late[s])
  BY DEF AllPaid
<1>1. ASSUME NEW t \in Timer, NEW m \in {"periodic", "once"}, Start(t, m) PROVE AllPaid'
  BY <1>1, LessPaid DEF Start, workerVars, callVars
<1>2. ASSUME NEW t \in Timer, Stop(t) PROVE AllPaid'
  BY <1>2, LessPaid DEF Stop, workerVars, callVars
<1>3. ASSUME NEW t \in Timer, Destroy(t) PROVE AllPaid'
  BY <1>3, CutPaid DEF Destroy, ConnectedTo, workerVars
<1>4. ASSUME NEW t \in Timer, Clear(t) PROVE AllPaid'
  BY <1>4, CutPaid DEF Clear, ConnectedTo, workerVars
<1>5. ASSUME NEW s \in Sub, Connect(s) PROVE AllPaid'
  <2>1. link' = [link EXCEPT ![s] = "connected"] /\ link[s] = "new"
        /\ UNCHANGED <<batch, queue, owed, late>>
    BY <1>5 DEF Connect, workerVars, callVars
  <2>2. ASSUME NEW u \in Sub PROVE Paid(u, link'[u], batch', queue', owed'[u], late'[u])
    <3>1. Paid(u, link[u], batch, queue, owed[u], late[u])
      BY <1>p
    <3>2. link'[u] = link[u] \/ (link[u] = "new" /\ link'[u] = "connected")
      BY <2>1 DEF TypeCalls
    <3> QED
      BY <2>1, <3>1, <3>2 DEF Paid
  <2> QED
    BY <2>1, <2>2 DEF AllPaid
<1>6. ASSUME NEW s \in Sub, Disconnect(s) PROVE AllPaid'
  BY <1>6, CutPaid DEF Disconnect, workerVars
<1>7. ASSUME Collect PROVE AllPaid'
  <2>1. UNCHANGED <<link, owed, late, queue>>
    BY <1>7 DEF Collect, workerVars, callVars
  <2>2. \A s \in Sub : s \in batch' => link[s] = "connected"
    BY <1>7 DEF Collect, Snapshot, ConnectedTo
  <2> QED
    BY <2>1, <2>2, LessPaid
<1>8. ASSUME Overflow PROVE AllPaid'
  BY <1>8, LessPaid DEF Overflow, workerVars, callVars
<1>9. ASSUME NEW s \in Sub, InvokeInline(s) \/ InlineThrows(s) PROVE AllPaid'
  <2>1. /\ late' = [late EXCEPT ![s] = IF link[s] = "gone" THEN @ + 1 ELSE @]
        /\ s \in batch /\ batch' \subseteq batch \ {s} /\ UNCHANGED <<link, queue, owed>>
    BY <1>9 DEF InvokeInline, InlineThrows, Called, workerVars
  <2>2. late' \in [Sub -> Nat]
    BY <2>1 DEF AllPaid
  <2>3. ASSUME NEW u \in Sub PROVE Paid(u, link'[u], batch', queue', owed'[u], late'[u])
    <3>1. Paid(u, link[u], batch, queue, owed[u], late[u]) /\ late[u] \in Nat /\ owed[u] \in Nat
      BY <1>p DEF AllPaid
    <3>2. CASE u = s
      <4>1. late'[s] = IF link[s] = "gone" THEN late[s] + 1 ELSE late[s]
        BY <2>1 DEF AllPaid
      <4> QED
        BY <2>1, <3>1, <3>2, <4>1 DEF Paid
    <3>3. CASE u # s
      <4>1. late'[u] = late[u] /\ (u \in batch' => u \in batch)
        BY <2>1, <3>3 DEF AllPaid
      <4> QED
        BY <2>1, <3>1, <4>1 DEF Paid
    <3> QED
      BY <3>2, <3>3
  <2> QED
    BY <2>1, <2>2, <2>3 DEF AllPaid
<1>10. ASSUME NEW s \in Sub, Skip(s) PROVE AllPaid'
  BY <1>10, LessPaid DEF Skip, workerVars, callVars
<1>11. ASSUME NEW s \in Sub, Dispatch(s) PROVE AllPaid'
  <2>1. /\ queue' = Append(queue, s) /\ s \in batch /\ s \notin inFlight
        /\ batch' = batch \ {s} /\ UNCHANGED <<link, owed, late>>
    BY <1>11 DEF Dispatch, callVars
  <2>2. queue \in Seq(Sub \cup {Load}) /\ s \in Sub \cup {Load}
    BY DEF TypeCalls
  <2>3. ASSUME NEW u \in Sub PROVE Paid(u, link'[u], batch', queue', owed'[u], late'[u])
    <3>1. Paid(u, link[u], batch, queue, owed[u], late[u]) /\ late[u] \in Nat /\ owed[u] \in Nat
      BY <1>p DEF AllPaid
    <3>2. In(queue', u) <=> In(queue, u) \/ u = s
      BY <2>1, <2>2, AppendIn
    <3>3. CASE u = s
      <4>1. ~In(queue, s)
        BY <1>g, <2>1 DEF Gate
      <4> QED
        BY <2>1, <3>1, <3>2, <3>3, <4>1 DEF Paid
    <3>4. CASE u # s
      BY <2>1, <3>1, <3>2, <3>4 DEF Paid
    <3> QED
      BY <3>3, <3>4
  <2> QED
    BY <2>1, <2>3 DEF AllPaid
<1>12. ASSUME NEW s \in Sub, Refused(s) PROVE AllPaid'
  BY <1>12, LessPaid DEF Refused, workerVars, callVars
<1>13. ASSUME NEW s \in Sub, Throw(s) PROVE AllPaid'
  BY <1>13, LessPaid DEF Throw, workerVars, callVars
<1>14. ASSUME CreateThread PROVE AllPaid'
  BY <1>14, LessPaid DEF CreateThread, workerVars, callVars
<1>15. ASSUME ExitThread PROVE AllPaid'
  BY <1>15, LessPaid DEF ExitThread, workerVars, callVars
<1>16. ASSUME Joined PROVE AllPaid'
  BY <1>16, LessPaid DEF Joined, workerVars, callVars
<1>17. ASSUME SelfExit PROVE AllPaid'
  <2>1. queue' = <<>> /\ UNCHANGED <<link, owed, late, batch>>
    BY <1>17 DEF SelfExit, callVars
  <2> QED
    BY <2>1, EmptyIn, LessPaid
<1>18. ASSUME DispatchLoad PROVE AllPaid'
  <2>1. queue' = Append(queue, Load) /\ UNCHANGED <<link, owed, late, batch>>
    BY <1>18 DEF DispatchLoad, callVars
  <2>2. queue \in Seq(Sub \cup {Load}) /\ Load \in Sub \cup {Load} /\ Load \notin Sub
    BY TimerAssumption DEF TypeCalls
  <2>3. \A u \in Sub : In(queue', u) <=> In(queue, u)
    BY <2>1, <2>2, AppendIn
  <2> QED
    BY <2>1, <2>3, LessPaid
<1>19. ASSUME Pop PROVE AllPaid'
  <2>1. /\ queue # <<>> /\ queue' = Tail(queue) /\ UNCHANGED <<link, owed, batch>>
        /\ IF Head(queue) = Load THEN UNCHANGED late ELSE Called(Head(queue))
    BY <1>19 DEF Pop
  <2>2. queue \in Seq(Sub \cup {Load}) /\ Head(queue) \in Sub \cup {Load}
    BY <2>1 DEF TypeCalls
  <2>3. \A u \in Sub : /\ In(queue, u) <=> In(queue', u) \/ u = Head(queue)
                       /\ u = Head(queue) => ~In(queue', u)
    <3>1. \A u \in Sub : Once(queue, u)
      BY <1>g DEF Gate
    <3> QED
      BY <2>1, <2>2, <3>1, TailIn
  <2>4. CASE Head(queue) = Load
    BY <2>1, <2>3, <2>4, LessPaid
  <2>5. CASE Head(queue) # Load
    <3> DEFINE h == Head(queue)
    <3>1. /\ h \in Sub
          /\ late' = [late EXCEPT ![h] = IF link[h] = "gone" THEN @ + 1 ELSE @]
      BY <2>1, <2>2, <2>5 DEF Called
    <3>2. late' \in [Sub -> Nat]
      BY <3>1 DEF AllPaid
    <3>3. ASSUME NEW u \in Sub PROVE Paid(u, link'[u], batch', queue', owed'[u], late'[u])
      <4>1. Paid(u, link[u], batch, queue, owed[u], late[u]) /\ late[u] \in Nat /\ owed[u] \in Nat
        BY <1>p DEF AllPaid
      <4>2. CASE u = h
        <5>1. late'[u] = IF link[u] = "gone" THEN late[u] + 1 ELSE late[u]
          BY <3>1, <4>2 DEF AllPaid
        <5>2. In(queue, u) /\ ~In(queue', u)
          BY <2>3, <4>2
        <5> QED
          BY <2>1, <4>1, <5>1, <5>2 DEF Paid
      <4>3. CASE u # h
        <5>1. late'[u] = late[u] /\ (In(queue', u) <=> In(queue, u))
          BY <2>3, <3>1, <4>3 DEF AllPaid
        <5> QED
          BY <2>1, <4>1, <5>1 DEF Paid
      <4> QED
        BY <4>2, <4>3
    <3> QED
      BY <2>1, <3>2, <3>3 DEF AllPaid
  <2> QED
    BY <2>4, <2>5
<1>20. ASSUME Finish PROVE AllPaid'
  BY <1>20, LessPaid DEF Finish, workerVars, callVars
<1>21. ASSUME Tick PROVE AllPaid'
  BY <1>21, LessPaid DEF Tick, workerVars, callVars
<1>22. ASSUME UNCHANGED vars PROVE AllPaid'
  BY <1>22, LessPaid DEF vars, workerVars, callVars
<1> QED
  BY <1>1, <1>2, <1>3, <1>4, <1>5, <1>6, <1>7, <1>8, <1>9, <1>10, <1>11, <1>12, <1>13, <1>14, <1>15, <1>16, <1>17, <1>18, <1>19, <1>20, <1>21, <1>22 DEF Next, User, ProcessTimers, Invoke, Worker

-----------------------------------------------------------------------------
\* The array of ProcessTimers.

\* Only a full array and a message of a freed delegate stop the program.
LEMMA HaltStep ==
  ASSUME Next, halted' # "no"
  PROVE  (Overflow /\ halted' = "fault") \/ (Pop /\ halted' = "crash")
<1>1. halted = "no"
  BY DEF Next
<1>2. CASE User
  BY <1>1, <1>2 DEF User, Start, Stop, Destroy, Clear, Connect, Disconnect
<1>3. ASSUME NEW s \in Sub, Invoke(s) PROVE FALSE
  BY <1>1, <1>3 DEF Invoke, InvokeInline, InlineThrows, Skip, Dispatch, Refused, Throw
<1>4. CASE Collect \/ Tick \/ Finish \/ Joined
  BY <1>1, <1>4 DEF Collect, Tick, Finish, Joined
<1>5. CASE CreateThread \/ ExitThread \/ SelfExit \/ DispatchLoad
  BY <1>1, <1>5 DEF CreateThread, ExitThread, SelfExit, DispatchLoad
<1>6. CASE Overflow
  BY <1>6 DEF Overflow
<1>7. CASE Pop
  BY <1>7 DEF Pop
<1>8. QED
  BY <1>2, <1>3, <1>4, <1>5, <1>6, <1>7 DEF Next, ProcessTimers, Worker

\* When the walk meets a full array, its expired timers and the one it has met are
\* all enabled, since the disabled ones have been unlinked.
LEMMA OverflowMeans ==
  ASSUME TimersInv, Overflow
  PROVE  /\ Cardinality({u \in Timer : Expired(u)}) >= MaxExpired
         /\ Cardinality(Enabled) > MaxExpired
<1>1. PICK t \in listed \ Dropped : Cardinality(Before(t)) >= MaxExpired
  BY DEF Overflow, ArrayFull
<1> DEFINE E == Before(t)
           X == {u \in Timer : Expired(u)}
<1>2. listed \ Dropped \subseteq Enabled
  BY DEF TimersInv, TypeTimers, ListSound, Dropped, Enabled
<1>3. t \notin E /\ E \cup {t} \subseteq Enabled /\ E \subseteq X
  BY <1>2 DEF TimersInv, ListSound, InLine, Before, Enabled
<1>4. IsFiniteSet(Enabled) /\ IsFiniteSet(X)
  BY TimerAssumption, FS_Subset DEF Enabled
<1>5. IsFiniteSet(E) /\ IsFiniteSet(E \cup {t})
  BY <1>3, <1>4, FS_Subset
<1> HIDE DEF E, X
<1>6. Cardinality(E \cup {t}) = Cardinality(E) + 1
  BY <1>3, <1>5, FS_AddElement
<1>7. Cardinality(E \cup {t}) <= Cardinality(Enabled) /\ Cardinality(E) <= Cardinality(X)
  BY <1>3, <1>4, FS_Subset
<1>8. /\ Cardinality(E) \in Nat /\ Cardinality(X) \in Nat
      /\ Cardinality(Enabled) \in Nat /\ MaxExpired \in Nat
  BY <1>4, <1>5, FS_CardinalityType, TimerAssumption
<1>9. Cardinality(E) >= MaxExpired
  BY <1>1 DEF E
<1>10. Cardinality(X) >= MaxExpired /\ Cardinality(Enabled) > MaxExpired
  BY <1>6, <1>7, <1>8, <1>9
<1> QED
  BY <1>10 DEF X

\* The crash is that of a call the subscription was owed.
LEMMA CrashStep ==
  ASSUME TypeCalls, AllPaid, AllPaid', CrashEarned, [Next]_vars
  PROVE  CrashEarned'
<1> USE DEF CrashEarned
<1>1. CASE UNCHANGED vars
  BY <1>1 DEF vars, workerVars, callVars
<1>2. CASE halted' # "crash"
  BY <1>2
<1>3. ASSUME Pop, halted' = "crash"
      PROVE  CrashEarned'
  <2> DEFINE s == Head(queue)
  <2>1. s \in Sub /\ link[s] = "gone" /\ running' = s /\ link' = link
    <3>1. s \in Sub \cup {Load} /\ s # Load
      BY <1>3, TailIn DEF Pop, TypeCalls
    <3>2. QED
      BY <1>3, <3>1 DEF Pop, Freed
  <2>2. late'[s] = late[s] + 1 /\ late[s] \in Nat
    BY <1>3, <2>1 DEF Pop, Called, AllPaid
  <2>3. late'[s] <= owed'[s] /\ owed'[s] \in 0 .. 2
    BY <2>1, <2>2 DEF AllPaid, Paid
  <2>4. QED
    BY <2>1, <2>2, <2>3
<1>4. QED
  BY <1>1, <1>2, <1>3, HaltStep

-----------------------------------------------------------------------------
LEMMA InitInv == Init => Inv
<1> SUFFICES ASSUME Init PROVE Inv
  OBVIOUS
<1>0. 0 \in Times
  BY TimerAssumption DEF Times
<1>1. TimersInv
  <2>1. TypeTimers
    BY <1>0 DEF Init, TypeTimers
  <2>2. ListSound
    BY DEF Init, ListSound, InLine, Enabled
  <2>3. PaceKept
    BY DEF Init, PaceKept
  <2> QED
    BY <2>1, <2>2, <2>3 DEF TimersInv
<1>2. TypeCalls
  BY EmptyIn, TimerAssumption DEF Init, TypeCalls
<1>3. OneInFlight
  BY EmptyIn, TimerAssumption, GateIs DEF Init, Gate
<1>4. AllPaid
  BY EmptyIn DEF Init, AllPaid, Paid
<1>5. CrashEarned
  BY DEF Init, CrashEarned
<1> QED
  BY <1>1, <1>2, <1>3, <1>4, <1>5 DEF Inv

\* The conjuncts of the invariant that the runs check.
LEMMA InvImplies == Inv => TypeOK /\ ListSound /\ PaceKept /\ OneInFlight /\ LateCalls
<1> SUFFICES ASSUME Inv PROVE TypeOK /\ LateCalls
  BY DEF Inv, TimersInv
<1>1. \A s \in Sub : late[s] \in Nat /\ owed[s] \in 0 .. 2 /\ late[s] <= owed[s]
  BY DEF Inv, AllPaid, Paid
<1>2. late \in [Sub -> 0 .. 2]
  BY <1>1 DEF Inv, AllPaid
<1> QED
  BY <1>1, <1>2 DEF Inv, TimersInv, TypeTimers, TypeCalls, AllPaid, TypeOK, LateCalls

\* The invariant of timers, subscriptions, worker and gate.
THEOREM Invariance == Spec => []Inv
<1>1. Inv /\ [Next]_vars => Inv'
  BY NextTimers, NextCalls, NextPaid, CrashStep DEF Inv
<1> QED
  BY <1>1, InitInv, PTL DEF Spec

\* The fields of Timer, Signal, TimerDelegate and the worker keep their types.
THEOREM TypeCorrect == Spec => []TypeOK
  BY Invariance, InvImplies, PTL

\* The intrusive list is a line of live timers that holds every enabled one.
THEOREM ListStaysSound == Spec => []ListSound
  BY Invariance, InvImplies, PTL

\* No periodic timer runs ahead of its period.
THEOREM PaceIsKept == Spec => []PaceKept
  BY Invariance, InvImplies, PTL

\* ProcessTimers aborts only when, as its walk begins, MAX_TIMER_EXPIRED timers have
\* expired and another one is running.
THEOREM FaultsAreJustified == Spec => FaultJustified
<1> DEFINE NoRoom == halted' = "fault" => /\ Cardinality({t \in Timer : Expired(t)}) >= MaxExpired
                                          /\ Cardinality(Enabled) > MaxExpired
<1>1. Inv /\ [Next]_vars => [NoRoom]_vars
  <2> SUFFICES ASSUME Inv, Next, halted' = "fault" PROVE NoRoom
    OBVIOUS
  <2>1. Overflow
    BY HaltStep
  <2>2. QED
    BY <2>1, OverflowMeans DEF Inv
<1>2. QED
  BY <1>1, Invariance, PTL DEF Spec, FaultJustified

\* A paced subscription never has two messages, and its gate follows its message.
THEOREM AtMostOneInFlight == Spec => []OneInFlight
  BY Invariance, InvImplies, PTL

\* After Disconnect a subscriber is called at most for what was under way.
THEOREM LateCallsAreOwed == Spec => []LateCalls
  BY Invariance, InvImplies, PTL

-----------------------------------------------------------------------------
(***************************************************************************)
(* Disconnecting at a quiet moment: no call of s is collected or queued.   *)
(***************************************************************************)
Silent(s) == link[s] = "gone" /\ s \notin batch /\ ~In(queue, s)

\* Nothing enters a silent subscription: no snapshot, no message, no call.
LEMMA SilentStep ==
  ASSUME TypeCalls, AllPaid, NEW s \in Sub, Silent(s), [Next]_vars
  PROVE  Silent(s)' /\ late'[s] = late[s] /\ (running' = s => running = s)
<1> USE DEF Silent
<1>q. queue \in Seq(Sub \cup {Load}) /\ late \in [Sub -> Nat] /\ s # Load /\ s # Nobody
  BY TimerAssumption DEF TypeCalls, AllPaid
<1>1. ASSUME UNCHANGED <<late, queue, running>>,
             link'[s] = "gone", batch' \subseteq batch \cup {u \in Sub : link[u] = "connected"}
      PROVE  Silent(s)' /\ late'[s] = late[s] /\ (running' = s => running = s)
  BY <1>1
<1>2. CASE User
  BY <1>1, <1>2 DEF User, Start, Stop, Destroy, Clear, Connect, Disconnect, Cut, ConnectedTo,
                    TypeCalls, workerVars, callVars
<1>3. CASE Collect \/ Overflow
  BY <1>1, <1>3 DEF Collect, Overflow, Snapshot, ConnectedTo, workerVars, callVars
<1>4. ASSUME NEW u \in Sub, Skip(u) \/ Refused(u) \/ Throw(u)
      PROVE  Silent(s)' /\ late'[s] = late[s] /\ (running' = s => running = s)
  BY <1>1, <1>4 DEF Skip, Refused, Throw, workerVars, callVars
<1>5. ASSUME NEW u \in Sub, InvokeInline(u) \/ InlineThrows(u)
      PROVE  Silent(s)' /\ late'[s] = late[s] /\ (running' = s => running = s)
  BY <1>q, <1>5 DEF InvokeInline, InlineThrows, Called, workerVars
<1>6. ASSUME NEW u \in Sub, Dispatch(u)
      PROVE  Silent(s)' /\ late'[s] = late[s] /\ (running' = s => running = s)
  <2>1. u # s /\ queue' = Append(queue, u) /\ u \in Sub \cup {Load}
    BY <1>6 DEF Dispatch
  <2>2. ~In(queue', s)
    BY <1>q, <2>1, AppendIn
  <2>3. QED
    BY <1>6, <2>2 DEF Dispatch, callVars
<1>7. CASE DispatchLoad
  <2>1. ~In(queue', s)
    BY <1>q, <1>7, AppendIn DEF DispatchLoad
  <2>2. QED
    BY <1>7, <2>1 DEF DispatchLoad, callVars
<1>8. CASE Pop
  <2>1. ~In(Tail(queue), s) /\ s # Head(queue)
    BY <1>q, <1>8, TailIn DEF Pop
  <2>2. late'[s] = late[s]
    BY <1>q, <1>8, <2>1 DEF Pop, Called
  <2>3. QED
    BY <1>8, <2>1, <2>2 DEF Pop
<1>9. CASE SelfExit
  BY <1>9, EmptyIn DEF SelfExit, callVars
<1>10. CASE Finish \/ Joined \/ CreateThread \/ ExitThread
  BY <1>q, <1>10 DEF Finish, Joined, CreateThread, ExitThread, callVars
<1>11. CASE UNCHANGED vars \/ Tick
  BY <1>1, <1>11 DEF vars, Tick, timerVars, workerVars, callVars
<1>12. QED
  BY <1>2, <1>3, <1>4, <1>5, <1>6, <1>7, <1>8, <1>9, <1>10, <1>11
     DEF Next, ProcessTimers, Invoke, Worker

(***************************************************************************)
(* Signal.h, Timer.cpp, TimerDelegate.h: a subscriber that disconnects, is *)
(* cleared or loses its timer while none of its calls is collected or      *)
(* queued is never called again: not by a walk of ProcessTimers, a late    *)
(* message, or a worker that starts again.                                 *)
(***************************************************************************)
THEOREM QuietAfterDisconnect ==
  ASSUME NEW s \in Sub, NEW n \in Nat
  PROVE  Spec => /\ [](Silent(s) /\ late[s] = n => [](Silent(s) /\ late[s] = n))
                 /\ [](Silent(s) /\ running # s => [](running # s))
<1>1. Inv /\ Silent(s) /\ late[s] = n /\ [Next]_vars => (Silent(s) /\ late[s] = n)'
  BY SilentStep DEF Inv
<1>2. Inv /\ Silent(s) /\ running # s /\ [Next]_vars => (Silent(s) /\ running # s)'
  BY SilentStep DEF Inv
<1>3. QED
  BY <1>1, <1>2, Invariance, PTL DEF Spec

(***************************************************************************)
(* TimerDelegate.h, DelegateAsync.h: the worker fails only on a paced      *)
(* subscription that was removed with a call under way; a program that     *)
(* keeps its subscribers connected, or removes them when their gate is     *)
(* open and no walk of ProcessTimers has collected them, is safe.          *)
(***************************************************************************)
THEOREM CrashIsEarned == Spec => []CrashEarned
<1>1. Inv => CrashEarned
  BY DEF Inv
<1>2. QED
  BY <1>1, Invariance, PTL
=============================================================================
