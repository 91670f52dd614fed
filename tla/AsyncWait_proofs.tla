-------------------------- MODULE AsyncWait_proofs --------------------------
(***************************************************************************)
(* Safety of the blocking delegate for any number of calls: the inductive  *)
(* invariant of AsyncWait, the invariants it implies, and the refinement   *)
(* of SerialCalls.                                                         *)
(***************************************************************************)
EXTENDS AsyncWait, TLAPS

USE AsyncWaitAssumption

\* The worker is inside the locked section of Invoke.
InSection == worker \in {"target", "signal", "unlock"}

\* The caller has handed its message over.
Sent(c) == pc[c] \in {"waiting", "served", "unserved", "returned"}

\* m_lock is held for the message being handled, and only for that one.
LockInv == \A c \in Call : locked[c] <=> InSection /\ cur = c

\* m_invokerWaiting says where its caller is, and m_lock keeps it there.
FlagInv ==
  /\ \A c \in Call : invokerWaiting[c] <=>
       pc[c] \in {"dispatch", "waiting", "served", "unserved"}
  /\ \A c \in Call : outcome[c] # "none" <=> pc[c] = "returned"
  /\ InSection => invokerWaiting[cur] /\ Sent(cur)

\* A message is queued once, and not handled while it is.
QueueInv ==
  /\ \A i, j \in 1 .. Len(queue) : queue[i] = queue[j] => i = j
  /\ \A i \in 1 .. Len(queue) : Sent(queue[i]) /\ runs[queue[i]] = 0
  /\ worker = "invoke" =>
       /\ Sent(cur)
       /\ runs[cur] = 0
       /\ \A i \in 1 .. Len(queue) : queue[i] # cur

\* How far the target has got and what has been recorded of it.
TargetInv ==
  /\ \A c \in Call : pc[c] \in {"idle", "dispatch"} => runs[c] = 0
  /\ \A c \in Call : runs[c] \in {0, 1}
  /\ \A c \in Call : invokeSucceeded[c] => runs[c] = 1 /\ c \notin ThrowCall
  /\ InSection => runs[cur] = 1
  /\ worker = "target" => ~signaled[cur] /\ pc[cur] # "served"
  /\ worker \in {"signal", "unlock"} => cur \in ThrowCall \/ invokeSucceeded[cur]

\* The semaphore, and the answer, come after the result.
ResultInv ==
  /\ \A c \in Call : signaled[c] \/ pc[c] = "served" =>
       runs[c] = 1 /\ (c \in ThrowCall \/ invokeSucceeded[c])
  /\ \A c \in Call : outcome[c] = "value" => invokeSucceeded[c]

IInv == TypeOK /\ LockInv /\ FlagInv /\ QueueInv /\ TargetInv /\ ResultInv

-----------------------------------------------------------------------------
(***************************************************************************)
(* Type correctness needs no help: every action of the caller and of the   *)
(* worker keeps the flags, the queue and the history in their types.       *)
(***************************************************************************)
LEMMA InitType == Init => TypeOK
<1> SUFFICES ASSUME Init
             PROVE  TypeOK
  OBVIOUS
<1>1. queue \in Seq(Call)
  BY DEF Init
<1>2. QED
  BY <1>1 DEF Init, TypeOK

\* One more entry of one target leaves the counts what they are.
LEMMA CountOne ==
  ASSUME NEW f \in [Call -> Nat], NEW c \in Call
  PROVE  [f EXCEPT ![c] = @ + 1] \in [Call -> Nat]
<1> DEFINE g == [f EXCEPT ![c] = @ + 1]
<1>1. g = [d \in Call |-> IF d = c THEN f[c] + 1 ELSE f[d]]
  OBVIOUS
<1>2. f[c] + 1 \in Nat /\ \A d \in Call : f[d] \in Nat
  OBVIOUS
<1> HIDE DEF g
<1>3. g \in [Call -> Nat]
  BY <1>1, <1>2
<1>4. QED
  BY <1>3 DEF g

LEMMA NextType == TypeOK /\ [Next]_vars => TypeOK'
<1> SUFFICES ASSUME TypeOK, [Next]_vars
             PROVE  TypeOK'
  OBVIOUS
<1> USE DEF TypeOK, callerVars, workerVars
<1>1. ASSUME NEW c \in Call, Begin(c) \/ Dispatch(c) \/ DispatchRefused(c)
      PROVE  TypeOK'
  <2>1. CASE Begin(c)
    BY <2>1 DEF Begin
  <2>2. CASE Dispatch(c)
    BY <2>2 DEF Dispatch
  <2>3. CASE DispatchRefused(c)
    BY <2>3 DEF DispatchRefused
  <2>4. QED
    BY <1>1, <2>1, <2>2, <2>3
<1>2. ASSUME NEW c \in Call, WaitSignaled(c) \/ WaitTimeout(c) \/ Leave(c)
      PROVE  TypeOK'
  <2>1. CASE WaitSignaled(c)
    BY <2>1 DEF WaitSignaled
  <2>2. CASE WaitTimeout(c)
    BY <2>2 DEF WaitTimeout
  <2>3. CASE Leave(c)
    BY <2>3 DEF Leave
  <2>4. QED
    BY <1>2, <2>1, <2>2, <2>3
<1>3. CASE Pop
  <2>1. Head(queue) \in Call /\ Tail(queue) \in Seq(Call)
    BY <1>3 DEF Pop
  <2>2. QED
    BY <1>3, <2>1 DEF Pop
<1>4. CASE Invoke
  <2>1. cur \in Call
    BY <1>4 DEF Invoke
  <2>2. locked' \in [Call -> BOOLEAN]
    BY <1>4, <2>1 DEF Invoke
  <2>3. runs' \in [Call -> Nat]
    <3>1. UNCHANGED runs \/ runs' = [runs EXCEPT ![cur] = @ + 1]
      BY <1>4 DEF Invoke
    <3>2. QED
      BY <2>1, <3>1, CountOne
  <2>4. QED
    BY <1>4, <2>1, <2>2, <2>3 DEF Invoke
<1>5. CASE TargetExitsThread
  <2>1. queue' \in Seq(Call)
    BY <1>5 DEF TargetExitsThread
  <2>2. QED
    BY <1>5, <2>1 DEF TargetExitsThread
<1>6. CASE TargetReturns
  BY <1>6 DEF TargetReturns
<1>7. CASE TargetThrows
  BY <1>7 DEF TargetThrows
<1>8. CASE Signal
  BY <1>8 DEF Signal
<1>9. CASE Unlock
  BY <1>9 DEF Unlock
<1>10. CASE Fault
  BY <1>10 DEF Fault
<1>11. CASE UNCHANGED vars
  BY <1>11 DEF vars
<1>12. QED
  BY <1>1, <1>2, <1>3, <1>4, <1>5, <1>6, <1>7, <1>8, <1>9, <1>10, <1>11
     DEF Next, Caller, Worker, TargetEnds

THEOREM TypeCorrect == Spec => []TypeOK
  BY InitType, NextType, PTL DEF Spec

-----------------------------------------------------------------------------
\* Each part of the invariant is preserved, given those it names.

\* Only Invoke locks and only Unlock unlocks.
LEMMA LockStep ==
  ASSUME TypeOK, LockInv, [Next]_vars, TypeOK'
  PROVE  LockInv'
<1> USE DEF TypeOK, callerVars, workerVars
<1>1. ASSUME NEW c \in Call, Begin(c)
      PROVE  LockInv'
  BY <1>1 DEF Begin, LockInv, InSection
<1>2. ASSUME NEW c \in Call, Dispatch(c)
      PROVE  LockInv'
  BY <1>2 DEF Dispatch, LockInv, InSection
<1>3. ASSUME NEW c \in Call, DispatchRefused(c)
      PROVE  LockInv'
  BY <1>3 DEF DispatchRefused, LockInv, InSection
<1>4. ASSUME NEW c \in Call, WaitSignaled(c)
      PROVE  LockInv'
  BY <1>4 DEF WaitSignaled, LockInv, InSection
<1>5. ASSUME NEW c \in Call, WaitTimeout(c)
      PROVE  LockInv'
  BY <1>5 DEF WaitTimeout, LockInv, InSection
<1>6. ASSUME NEW c \in Call, Leave(c)
      PROVE  LockInv'
  BY <1>6 DEF Leave, LockInv, InSection
<1>7. CASE Pop
  BY <1>7 DEF Pop, LockInv, InSection
<1>8. CASE Invoke
  BY <1>8 DEF Invoke, LockInv, InSection
<1>9. CASE TargetExitsThread
  BY <1>9 DEF TargetExitsThread, LockInv, InSection
<1>10. CASE TargetReturns
  BY <1>10 DEF TargetReturns, LockInv, InSection
<1>11. CASE TargetThrows
  BY <1>11 DEF TargetThrows, LockInv, InSection
<1>12. CASE Signal
  BY <1>12 DEF Signal, LockInv, InSection
<1>13. CASE Unlock
  BY <1>13 DEF Unlock, LockInv, InSection
<1>14. CASE Fault
  BY <1>14 DEF Fault, LockInv, InSection
<1>15. CASE UNCHANGED vars
  BY <1>15 DEF vars, LockInv, InSection
<1>16. QED
  BY <1>1, <1>2, <1>3, <1>4, <1>5, <1>6, <1>7, <1>8, <1>9,
     <1>10, <1>11, <1>12, <1>13, <1>14, <1>15
     DEF Next, Caller, Worker, TargetEnds

\* A caller that Invoke found waiting cannot clear its flag before Unlock.
LEMMA FlagStep ==
  ASSUME TypeOK, FlagInv, LockInv, QueueInv, [Next]_vars, TypeOK'
  PROVE  FlagInv'
<1> USE DEF TypeOK, callerVars, workerVars
<1>1. ASSUME NEW c \in Call, Begin(c)
      PROVE  FlagInv'
  BY <1>1 DEF Begin, FlagInv, InSection, Sent
<1>2. ASSUME NEW c \in Call, Dispatch(c)
      PROVE  FlagInv'
  BY <1>2 DEF Dispatch, FlagInv, InSection, Sent
<1>3. ASSUME NEW c \in Call, DispatchRefused(c)
      PROVE  FlagInv'
  BY <1>3 DEF DispatchRefused, FlagInv, InSection, Sent
<1>4. ASSUME NEW c \in Call, WaitSignaled(c)
      PROVE  FlagInv'
  BY <1>4 DEF WaitSignaled, FlagInv, InSection, Sent
<1>5. ASSUME NEW c \in Call, WaitTimeout(c)
      PROVE  FlagInv'
  BY <1>5 DEF WaitTimeout, FlagInv, InSection, Sent
<1>6. ASSUME NEW c \in Call, Leave(c)
      PROVE  FlagInv'
  BY <1>6 DEF Leave, FlagInv, LockInv, InSection, Sent
<1>7. CASE Pop
  BY <1>7 DEF Pop, FlagInv, InSection, Sent
<1>8. CASE Invoke
  BY <1>8 DEF Invoke, FlagInv, QueueInv, InSection, Sent
<1>9. CASE TargetExitsThread
  BY <1>9 DEF TargetExitsThread, FlagInv, InSection, Sent
<1>10. CASE TargetReturns
  BY <1>10 DEF TargetReturns, FlagInv, InSection, Sent
<1>11. CASE TargetThrows
  BY <1>11 DEF TargetThrows, FlagInv, InSection, Sent
<1>12. CASE Signal
  BY <1>12 DEF Signal, FlagInv, InSection, Sent
<1>13. CASE Unlock
  BY <1>13 DEF Unlock, FlagInv, InSection, Sent
<1>14. CASE Fault
  BY <1>14 DEF Fault, FlagInv, InSection, Sent
<1>15. CASE UNCHANGED vars
  BY <1>15 DEF vars, FlagInv, InSection, Sent
<1>16. QED
  BY <1>1, <1>2, <1>3, <1>4, <1>5, <1>6, <1>7, <1>8, <1>9,
     <1>10, <1>11, <1>12, <1>13, <1>14, <1>15
     DEF Next, Caller, Worker, TargetEnds

\* Appending a message that was never sent keeps the queue free of doubles.
LEMMA DispatchQueue ==
  ASSUME TypeOK, QueueInv, TargetInv, NEW c \in Call, Dispatch(c)
  PROVE  QueueInv'
<1> USE DEF TypeOK, workerVars
<1>1. /\ Len(queue') = Len(queue) + 1
      /\ queue'[Len(queue) + 1] = c
      /\ \A i \in 1 .. Len(queue) : queue'[i] = queue[i]
  BY DEF Dispatch
<1>2. \A i \in 1 .. Len(queue) :
        queue[i] \in Call /\ queue[i] # c /\ Sent(queue[i]) /\ runs[queue[i]] = 0
  BY DEF Dispatch, QueueInv, Sent
<1>3. runs[c] = 0 /\ Sent(c)'
  BY DEF Dispatch, TargetInv, Sent
<1>4. \A i, j \in 1 .. Len(queue') : queue'[i] = queue'[j] => i = j
  BY <1>1, <1>2 DEF Dispatch, QueueInv
<1>5. ASSUME NEW i \in 1 .. Len(queue')
      PROVE  (Sent(queue[i]) /\ runs[queue[i]] = 0)'
  <2>1. CASE i \in 1 .. Len(queue)
    BY <1>1, <1>2, <2>1 DEF Dispatch, Sent
  <2>2. CASE i = Len(queue) + 1
    BY <1>1, <1>3, <2>2 DEF Dispatch
  <2>3. QED
    BY <1>1, <2>1, <2>2
<1>6. ASSUME worker' = "invoke"
      PROVE  /\ Sent(cur)' /\ runs'[cur'] = 0
             /\ \A i \in 1 .. Len(queue') : queue'[i] # cur'
  <2>1. cur # c /\ Sent(cur) /\ runs[cur] = 0 /\ \A i \in 1 .. Len(queue) : queue[i] # cur
    BY <1>6 DEF Dispatch, QueueInv, Sent
  <2>2. \A i \in 1 .. Len(queue') : i \in 1 .. Len(queue) \/ i = Len(queue) + 1
    BY <1>1
  <2>3. QED
    BY <1>1, <1>6, <2>1, <2>2 DEF Dispatch, Sent
<1>7. QED
  BY <1>4, <1>5, <1>6 DEF QueueInv

\* Each call is dispatched once, and popped before it is invoked.
LEMMA QueueStep ==
  ASSUME TypeOK, QueueInv, TargetInv, [Next]_vars, TypeOK'
  PROVE  QueueInv'
<1> USE DEF TypeOK, callerVars, workerVars
<1>1. ASSUME NEW c \in Call, Begin(c)
      PROVE  QueueInv'
  BY <1>1 DEF Begin, QueueInv, Sent
<1>2. ASSUME NEW c \in Call, Dispatch(c)
      PROVE  QueueInv'
  BY <1>2, DispatchQueue
<1>3. ASSUME NEW c \in Call, DispatchRefused(c)
      PROVE  QueueInv'
  BY <1>3 DEF DispatchRefused, QueueInv, Sent
<1>4. ASSUME NEW c \in Call, WaitSignaled(c)
      PROVE  QueueInv'
  BY <1>4 DEF WaitSignaled, QueueInv, Sent
<1>5. ASSUME NEW c \in Call, WaitTimeout(c)
      PROVE  QueueInv'
  BY <1>5 DEF WaitTimeout, QueueInv, Sent
<1>6. ASSUME NEW c \in Call, Leave(c)
      PROVE  QueueInv'
  BY <1>6 DEF Leave, QueueInv, Sent
<1>7. CASE Pop
  BY <1>7 DEF Pop, QueueInv, Sent
<1>8. CASE Invoke
  BY <1>8 DEF Invoke, QueueInv, Sent
<1>9. CASE TargetExitsThread
  BY <1>9 DEF TargetExitsThread, QueueInv, Sent
<1>10. CASE TargetReturns
  BY <1>10 DEF TargetReturns, QueueInv, Sent
<1>11. CASE TargetThrows
  BY <1>11 DEF TargetThrows, QueueInv, Sent
<1>12. CASE Signal
  BY <1>12 DEF Signal, QueueInv, Sent
<1>13. CASE Unlock
  BY <1>13 DEF Unlock, QueueInv, Sent
<1>14. CASE Fault
  BY <1>14 DEF Fault, QueueInv, Sent
<1>15. CASE UNCHANGED vars
  BY <1>15 DEF vars, QueueInv, Sent
<1>16. QED
  BY <1>1, <1>2, <1>3, <1>4, <1>5, <1>6, <1>7, <1>8, <1>9,
     <1>10, <1>11, <1>12, <1>13, <1>14, <1>15
     DEF Next, Caller, Worker, TargetEnds

\* Invoke enters a target for the first time, the target records its result
\* before the worker can signal.
LEMMA TargetStep ==
  ASSUME TypeOK, TargetInv, QueueInv, ResultInv, [Next]_vars, TypeOK'
  PROVE  TargetInv'
<1> USE DEF TypeOK, callerVars, workerVars
<1>1. ASSUME NEW c \in Call, Begin(c)
      PROVE  TargetInv'
  BY <1>1 DEF Begin, TargetInv, InSection
<1>2. ASSUME NEW c \in Call, Dispatch(c)
      PROVE  TargetInv'
  BY <1>2 DEF Dispatch, TargetInv, InSection
<1>3. ASSUME NEW c \in Call, DispatchRefused(c)
      PROVE  TargetInv'
  BY <1>3 DEF DispatchRefused, TargetInv, InSection
<1>4. ASSUME NEW c \in Call, WaitSignaled(c)
      PROVE  TargetInv'
  BY <1>4 DEF WaitSignaled, TargetInv, InSection
<1>5. ASSUME NEW c \in Call, WaitTimeout(c)
      PROVE  TargetInv'
  BY <1>5 DEF WaitTimeout, TargetInv, InSection
<1>6. ASSUME NEW c \in Call, Leave(c)
      PROVE  TargetInv'
  BY <1>6 DEF Leave, TargetInv, InSection
<1>7. CASE Pop
  BY <1>7 DEF Pop, TargetInv, InSection
<1>8. CASE Invoke
  <2> USE DEF Invoke
  <2>1. cur \in Call /\ runs[cur] = 0
    BY <1>8 DEF QueueInv
  <2>2. CASE invokerWaiting[cur]
    <3>1. runs' = [runs EXCEPT ![cur] = 1]
      BY <1>8, <2>1, <2>2
    <3>2. ~signaled[cur] /\ pc[cur] \notin {"idle", "dispatch", "served"}
      BY <1>8, <2>1 DEF ResultInv, QueueInv, Sent
    <3>3. QED
      BY <1>8, <2>1, <2>2, <3>1, <3>2 DEF TargetInv, InSection
  <2>3. CASE ~invokerWaiting[cur]
    BY <1>8, <2>1, <2>3 DEF TargetInv, InSection
  <2>4. QED
    BY <2>2, <2>3
<1>9. CASE TargetExitsThread
  BY <1>9 DEF TargetExitsThread, TargetInv, InSection
<1>10. CASE TargetReturns
  BY <1>10 DEF TargetReturns, TargetInv, InSection
<1>11. CASE TargetThrows
  BY <1>11 DEF TargetThrows, TargetInv, InSection
<1>12. CASE Signal
  BY <1>12 DEF Signal, TargetInv, InSection
<1>13. CASE Unlock
  BY <1>13 DEF Unlock, TargetInv, InSection
<1>14. CASE Fault
  BY <1>14 DEF Fault, TargetInv, InSection
<1>15. CASE UNCHANGED vars
  BY <1>15 DEF vars, TargetInv, InSection
<1>16. QED
  BY <1>1, <1>2, <1>3, <1>4, <1>5, <1>6, <1>7, <1>8, <1>9,
     <1>10, <1>11, <1>12, <1>13, <1>14, <1>15
     DEF Next, Caller, Worker, TargetEnds

\* The semaphore is signalled behind the result.
LEMMA ResultStep ==
  ASSUME TypeOK, ResultInv, TargetInv, QueueInv, [Next]_vars, TypeOK'
  PROVE  ResultInv'
<1> USE DEF TypeOK, callerVars, workerVars
<1>1. ASSUME NEW c \in Call, Begin(c)
      PROVE  ResultInv'
  BY <1>1 DEF Begin, ResultInv
<1>2. ASSUME NEW c \in Call, Dispatch(c)
      PROVE  ResultInv'
  BY <1>2 DEF Dispatch, ResultInv
<1>3. ASSUME NEW c \in Call, DispatchRefused(c)
      PROVE  ResultInv'
  BY <1>3 DEF DispatchRefused, ResultInv
<1>4. ASSUME NEW c \in Call, WaitSignaled(c)
      PROVE  ResultInv'
  BY <1>4 DEF WaitSignaled, ResultInv
<1>5. ASSUME NEW c \in Call, WaitTimeout(c)
      PROVE  ResultInv'
  BY <1>5 DEF WaitTimeout, ResultInv
<1>6. ASSUME NEW c \in Call, Leave(c)
      PROVE  ResultInv'
  BY <1>6 DEF Leave, ResultInv
<1>7. CASE Pop
  BY <1>7 DEF Pop, ResultInv
<1>8. CASE Invoke
  BY <1>8 DEF Invoke, ResultInv, QueueInv, Sent
<1>9. CASE TargetExitsThread
  BY <1>9 DEF TargetExitsThread, ResultInv
<1>10. CASE TargetReturns
  BY <1>10 DEF TargetReturns, ResultInv
<1>11. CASE TargetThrows
  BY <1>11 DEF TargetThrows, ResultInv
<1>12. CASE Signal
  BY <1>12 DEF Signal, ResultInv, TargetInv, InSection
<1>13. CASE Unlock
  BY <1>13 DEF Unlock, ResultInv
<1>14. CASE Fault
  BY <1>14 DEF Fault, ResultInv
<1>15. CASE UNCHANGED vars
  BY <1>15 DEF vars, ResultInv
<1>16. QED
  BY <1>1, <1>2, <1>3, <1>4, <1>5, <1>6, <1>7, <1>8, <1>9,
     <1>10, <1>11, <1>12, <1>13, <1>14, <1>15
     DEF Next, Caller, Worker, TargetEnds

(***************************************************************************)
(* The inductive invariant: m_lock pins the caller while its target runs,  *)
(* a message is queued or handled but never both, and a signal, a wake-up  *)
(* or an answer "value" comes after the result it reports.                 *)
(***************************************************************************)
THEOREM Invariant == Spec => []IInv
<1>1. Init => IInv
  <2> SUFFICES ASSUME Init
               PROVE  IInv
    OBVIOUS
  <2>1. LockInv
    BY DEF Init, LockInv, InSection
  <2>2. FlagInv
    BY DEF Init, FlagInv, InSection
  <2>3. QueueInv
    BY DEF Init, QueueInv
  <2>4. TargetInv
    BY DEF Init, TargetInv, InSection
  <2>5. ResultInv
    BY DEF Init, ResultInv
  <2>6. QED
    BY InitType, <2>1, <2>2, <2>3, <2>4, <2>5 DEF IInv
<1>2. IInv /\ [Next]_vars => IInv'
  BY NextType, LockStep, FlagStep, QueueStep, TargetStep, ResultStep DEF IInv
<1>3. QED
  BY <1>1, <1>2, PTL DEF Spec

(***************************************************************************)
(* While a target runs, the caller whose stack its arguments point into    *)
(* has not returned.                                                       *)
(***************************************************************************)
THEOREM ArgsStayAlive == Spec => []ArgsAlive
<1>1. IInv => ArgsAlive
  BY DEF IInv, TypeOK, LockInv, FlagInv, TargetInv, ArgsAlive, InSection, Sent
<1>2. QED
  BY <1>1, Invariant, PTL

(***************************************************************************)
(* No target runs twice, and a value comes from the caller's own target.   *)
(***************************************************************************)
THEOREM ValuesAreOwn == Spec => []ValueIsOwn
<1>1. IInv => ValueIsOwn
  <2> SUFFICES ASSUME IInv, NEW c \in Call
               PROVE  /\ runs[c] <= 1
                      /\ outcome[c] = "value" =>
                           runs[c] = 1 /\ c \notin ThrowCall /\ invokeSucceeded[c]
    BY DEF ValueIsOwn
  <2>1. runs[c] <= 1
    BY DEF IInv, TargetInv
  <2>2. outcome[c] = "value" => invokeSucceeded[c]
    BY DEF IInv, ResultInv
  <2>3. invokeSucceeded[c] => runs[c] = 1 /\ c \notin ThrowCall
    BY DEF IInv, TargetInv
  <2>4. QED
    BY <2>1, <2>2, <2>3
<1>2. QED
  BY <1>1, Invariant, PTL

(***************************************************************************)
(* What keeps a waiting caller from waiting in vain, in the order in which *)
(* its message is passed on: queue, Invoke, semaphore.                     *)
(***************************************************************************)
PassedOn(c) == signaled[c] \/ InQueue(c) \/ Handled(c)
WaitInv ==
  /\ \A c \in Call : pc[c] = "waiting" /\ accepting => PassedOn(c)
  /\ worker = "ended" => ~accepting
  /\ worker = "signal" => ~signaled[cur] /\ pc[cur] # "served"

\* The message goes from one place to the next, and the semaphore is the last.
LEMMA WaitStep ==
  ASSUME IInv, WaitInv, [Next]_vars
  PROVE  WaitInv'
<1> USE DEF callerVars, workerVars, InSection
<1>t. TypeOK /\ FlagInv /\ QueueInv /\ TargetInv /\ ResultInv
  BY DEF IInv
<1> USE DEF TypeOK
<1>1. ASSUME NEW c \in Call, Begin(c)
      PROVE  WaitInv'
  BY <1>1 DEF Begin, WaitInv, PassedOn, InQueue, Handled
<1>2. ASSUME NEW c \in Call, Dispatch(c)
      PROVE  WaitInv'
  <2>1. /\ Len(queue') = Len(queue) + 1 /\ queue' \in Seq(Call)
        /\ DOMAIN queue = 1 .. Len(queue) /\ DOMAIN queue' = 1 .. Len(queue')
        /\ queue'[Len(queue) + 1] = c
        /\ \A i \in 1 .. Len(queue) : queue'[i] = queue[i]
    BY <1>2, <1>t DEF Dispatch
  <2>2. InQueue(c)' /\ \A d \in Call : InQueue(d) => InQueue(d)'
    <3>1. Len(queue) \in Nat
      BY <1>t
    <3>2. Len(queue) + 1 \in DOMAIN queue' /\ DOMAIN queue \subseteq DOMAIN queue'
      BY <2>1, <3>1
    <3>3. QED
      BY <2>1, <3>2 DEF InQueue
  <2>3. \A d \in Call \ {c} : pc'[d] = "waiting" => pc[d] = "waiting"
    BY <1>2, <1>t DEF Dispatch
  <2>4. worker = "signal" => cur # c
    BY <1>2, <1>t DEF Dispatch, FlagInv, Sent
  <2>5. QED
    BY <1>2, <1>t, <2>2, <2>3, <2>4 DEF Dispatch, WaitInv, PassedOn, Handled
<1>3. ASSUME NEW c \in Call, DispatchRefused(c)
      PROVE  WaitInv'
  BY <1>3 DEF DispatchRefused, WaitInv, PassedOn, InQueue, Handled
<1>4. ASSUME NEW c \in Call, WaitSignaled(c)
      PROVE  WaitInv'
  <2>1. worker = "signal" => cur # c
    BY <1>4, <1>t DEF WaitSignaled, WaitInv
  <2>2. QED
    BY <1>4, <1>t, <2>1 DEF WaitSignaled, WaitInv, PassedOn, InQueue, Handled
<1>5. ASSUME NEW c \in Call, WaitTimeout(c)
      PROVE  WaitInv'
  BY <1>5 DEF WaitTimeout, WaitInv, PassedOn, InQueue, Handled
<1>6. ASSUME NEW c \in Call, Leave(c)
      PROVE  WaitInv'
  BY <1>6 DEF Leave, WaitInv, PassedOn, InQueue, Handled
<1>7. CASE Pop
  <2>1. \A i \in 1 .. Len(queue) : i # 1 => i - 1 \in 1 .. Len(queue') /\ queue'[i - 1] = queue[i]
    BY <1>7, <1>t DEF Pop
  <2>2. cur' = queue[1] /\ worker' = "invoke"
    BY <1>7, <1>t DEF Pop
  <2>3. queue' \in Seq(Call)
    BY <1>7, <1>t DEF Pop
  <2>4. \A d \in Call : InQueue(d) => InQueue(d)' \/ Handled(d)'
    BY <1>t, <2>1, <2>2, <2>3 DEF InQueue, Handled
  <2>5. QED
    BY <1>7, <1>t, <2>2, <2>4 DEF Pop, WaitInv, PassedOn, Handled
<1>8. CASE Invoke
  <2>1. cur \in Call
    BY <1>8, <1>t DEF Invoke
  <2>2. pc[cur] = "waiting" => invokerWaiting[cur]
    BY <1>t, <2>1 DEF FlagInv
  <2>3. QED
    BY <1>8, <1>t, <2>1, <2>2 DEF Invoke, WaitInv, PassedOn, InQueue, Handled
<1>9. CASE TargetExitsThread
  BY <1>9 DEF TargetExitsThread, WaitInv, PassedOn, InQueue, Handled
<1>10. CASE TargetReturns
  BY <1>10, <1>t DEF TargetReturns, TargetInv, WaitInv, PassedOn, InQueue, Handled
<1>11. CASE TargetThrows
  BY <1>11, <1>t DEF TargetThrows, TargetInv, WaitInv, PassedOn, InQueue, Handled
<1>12. CASE Signal
  BY <1>12, <1>t DEF Signal, WaitInv, PassedOn, InQueue, Handled
<1>13. CASE Unlock
  BY <1>13 DEF Unlock, WaitInv, PassedOn, InQueue, Handled
<1>14. CASE Fault
  BY <1>14 DEF Fault, WaitInv, PassedOn, InQueue, Handled
<1>15. CASE UNCHANGED vars
  BY <1>15 DEF vars, WaitInv, PassedOn, InQueue, Handled
<1>16. QED
  BY <1>1, <1>2, <1>3, <1>4, <1>5, <1>6, <1>7, <1>8, <1>9,
     <1>10, <1>11, <1>12, <1>13, <1>14, <1>15
     DEF Next, Caller, Worker, TargetEnds

(***************************************************************************)
(* Nobody waits in vain: a message accepted by DispatchDelegate is passed  *)
(* on to its caller's semaphore, and the lock a returning caller needs is  *)
(* held only for its own target, or for the two lines after its signal.    *)
(***************************************************************************)
THEOREM WaitsAreAnswered == Spec => []WaitIsAnswered
<1>1. Init => WaitInv
  BY DEF Init, WaitInv
<1>2. IInv /\ WaitInv /\ [Next]_vars => WaitInv'
  BY WaitStep
<1>3. IInv /\ WaitInv => WaitIsAnswered
  <2> SUFFICES ASSUME IInv, WaitInv, NEW c \in Call
               PROVE  /\ pc[c] = "waiting" /\ accepting =>
                           signaled[c] \/ (InQueue(c) /\ worker # "ended") \/ Handled(c)
                      /\ pc[c] = "served" =>
                           /\ c \in ThrowCall \/ invokeSucceeded[c]
                           /\ locked[c] => worker = "unlock"
                      /\ pc[c] = "unserved" /\ locked[c] =>
                           cur = c /\ worker \in {"target", "signal", "unlock"}
    BY DEF WaitIsAnswered
  <2>1. locked[c] => cur = c /\ worker \in {"target", "signal", "unlock"}
    BY DEF IInv, LockInv, InSection
  <2>2. pc[c] = "served" => (c \in ThrowCall \/ invokeSucceeded[c])
    BY DEF IInv, ResultInv
  <2>3. pc[c] = "served" /\ locked[c] => worker = "unlock"
    BY <2>1 DEF IInv, TargetInv, WaitInv
  <2>4. pc[c] = "waiting" /\ accepting =>
          signaled[c] \/ (InQueue(c) /\ worker # "ended") \/ Handled(c)
    BY DEF WaitInv, PassedOn
  <2>5. QED
    BY <2>1, <2>2, <2>3, <2>4
<1>4. QED
  BY <1>1, <1>2, <1>3, Invariant, PTL DEF Spec

-----------------------------------------------------------------------------
(***************************************************************************)
(* What "busy" means to a caller whose wait cannot expire: its message was *)
(* not accepted, so that no worker has it or ever will, or its target      *)
(* threw.                                                                  *)
(***************************************************************************)
Unserved(c) ==
  runs[c] = 0 /\ ~InQueue(c) /\ ~(cur = c /\ worker \in {"invoke", "target"})
BusyInv ==
  \A c \in Call \ MayTimeout :
    /\ pc[c] = "unserved" => Unserved(c)
    /\ outcome[c] = "busy" => c \in ThrowCall \/ runs[c] = 0

\* Without a timeout only a refusal leads to "unserved", and Invoke does not enter the
\* target of a caller that has returned.
LEMMA BusyStep ==
  ASSUME IInv, BusyInv, [Next]_vars
  PROVE  BusyInv'
<1> USE DEF callerVars, workerVars, InSection
<1>t. TypeOK /\ FlagInv /\ QueueInv /\ TargetInv /\ ResultInv
  BY DEF IInv
<1> USE DEF TypeOK
<1>1. ASSUME NEW c \in Call, Begin(c)
      PROVE  BusyInv'
  BY <1>1 DEF Begin, BusyInv, Unserved, InQueue
<1>2. ASSUME NEW c \in Call, Dispatch(c)
      PROVE  BusyInv'
  <2>1. /\ Len(queue') = Len(queue) + 1 /\ queue' \in Seq(Call)
        /\ DOMAIN queue = 1 .. Len(queue) /\ DOMAIN queue' = 1 .. Len(queue')
        /\ queue'[Len(queue) + 1] = c
        /\ \A i \in 1 .. Len(queue) : queue'[i] = queue[i]
    BY <1>2, <1>t DEF Dispatch
  <2>2. \A d \in Call : InQueue(d)' => InQueue(d) \/ d = c
    BY <1>t, <2>1 DEF InQueue
  <2>3. \A d \in Call : pc'[d] = "unserved" => pc[d] = "unserved" /\ d # c
    BY <1>2, <1>t DEF Dispatch
  <2>4. QED
    BY <1>2, <1>t, <2>2, <2>3 DEF Dispatch, BusyInv, Unserved
<1>3. ASSUME NEW c \in Call, DispatchRefused(c)
      PROVE  BusyInv'
  <2>1. Unserved(c)
    <3>1. ~InQueue(c)
      <4>1. DOMAIN queue = 1 .. Len(queue)
        BY <1>t
      <4>2. QED
        BY <1>3, <1>t, <4>1 DEF DispatchRefused, InQueue, QueueInv, Sent
    <3>2. runs[c] = 0 /\ ~(cur = c /\ worker \in {"invoke", "target"})
      BY <1>3, <1>t DEF DispatchRefused, QueueInv, TargetInv, FlagInv, Sent
    <3>3. QED
      BY <3>1, <3>2 DEF Unserved
  <2>2. \A d \in Call : Unserved(d) => Unserved(d)'
    BY <1>3 DEF DispatchRefused, Unserved, InQueue
  <2>3. \A d \in Call \ {c} : pc'[d] = pc[d]
    BY <1>3, <1>t DEF DispatchRefused
  <2>4. QED
    BY <1>3, <1>t, <2>1, <2>2, <2>3 DEF DispatchRefused, BusyInv
<1>4. ASSUME NEW c \in Call, WaitSignaled(c)
      PROVE  BusyInv'
  BY <1>4 DEF WaitSignaled, BusyInv, Unserved, InQueue
<1>5. ASSUME NEW c \in Call, WaitTimeout(c)
      PROVE  BusyInv'
  BY <1>5 DEF WaitTimeout, BusyInv, Unserved, InQueue
<1>6. ASSUME NEW c \in Call, Leave(c)
      PROVE  BusyInv'
  <2>1. /\ \A d \in Call : Unserved(d) => Unserved(d)'
        /\ \A d \in Call : pc'[d] = "unserved" => pc[d] = "unserved"
        /\ \A d \in Call \ {c} : outcome'[d] = outcome[d]
        /\ runs' = runs
    BY <1>6, <1>t DEF Leave, Unserved, InQueue
  <2>2. CASE pc[c] = "unserved"
    BY <1>6, <1>t, <2>1, <2>2 DEF BusyInv, Unserved
  <2>3. CASE pc[c] = "served"
    <3>1. outcome'[c] = "busy" => c \in ThrowCall
      BY <1>6, <1>t, <2>3 DEF Leave, ResultInv
    <3>2. QED
      BY <1>t, <2>1, <3>1 DEF BusyInv
  <2>4. QED
    BY <1>6, <2>2, <2>3 DEF Leave
<1>7. CASE Pop
  <2>1. /\ \A i \in 1 .. Len(queue') : i + 1 \in 1 .. Len(queue) /\ queue'[i] = queue[i + 1]
        /\ DOMAIN queue = 1 .. Len(queue) /\ DOMAIN queue' = 1 .. Len(queue')
        /\ 1 \in 1 .. Len(queue) /\ cur' = queue[1] /\ queue' \in Seq(Call)
    BY <1>7, <1>t DEF Pop
  <2>2. \A d \in Call : ~InQueue(d) => ~InQueue(d)' /\ cur' # d
    BY <1>t, <2>1 DEF InQueue
  <2>3. QED
    BY <1>7, <1>t, <2>2 DEF Pop, BusyInv, Unserved
<1>8. CASE Invoke
  <2>1. cur \in Call
    BY <1>8, <1>t DEF Invoke
  <2>2. \A d \in Call \ {cur} : runs'[d] = runs[d]
    BY <1>8, <1>t, <2>1 DEF Invoke
  <2>3. \A d \in Call : Unserved(d) => Unserved(d)'
    BY <1>8, <1>t, <2>1, <2>2 DEF Invoke, Unserved, InQueue
  <2>4. outcome[cur] = "busy" => runs'[cur] = runs[cur]
    BY <1>8, <1>t, <2>1 DEF Invoke, FlagInv
  <2>5. QED
    BY <1>8, <1>t, <2>2, <2>3, <2>4 DEF Invoke, BusyInv
<1>9. CASE TargetExitsThread
  BY <1>9 DEF TargetExitsThread, BusyInv, Unserved, InQueue
<1>10. CASE TargetReturns
  BY <1>10 DEF TargetReturns, BusyInv, Unserved, InQueue
<1>11. CASE TargetThrows
  BY <1>11 DEF TargetThrows, BusyInv, Unserved, InQueue
<1>12. CASE Signal
  BY <1>12 DEF Signal, BusyInv, Unserved, InQueue
<1>13. CASE Unlock
  BY <1>13 DEF Unlock, BusyInv, Unserved, InQueue
<1>14. CASE Fault
  BY <1>14 DEF Fault, BusyInv, Unserved, InQueue
<1>15. CASE UNCHANGED vars
  BY <1>15 DEF vars, BusyInv, Unserved, InQueue
<1>16. QED
  BY <1>1, <1>2, <1>3, <1>4, <1>5, <1>6, <1>7, <1>8, <1>9,
     <1>10, <1>11, <1>12, <1>13, <1>14, <1>15
     DEF Next, Caller, Worker, TargetEnds
BusyWithoutTimeout ==
  \A c \in Call \ MayTimeout : outcome[c] = "busy" => c \in ThrowCall \/ runs[c] = 0

(***************************************************************************)
(* A caller that waits without a timeout can take IsSuccess at its word: a *)
(* failure means that the target was not run, unless it threw.             *)
(***************************************************************************)
THEOREM BusyIsTrue == Spec => []BusyWithoutTimeout
<1>1. Init => BusyInv
  BY DEF Init, BusyInv
<1>2. IInv /\ BusyInv /\ [Next]_vars => BusyInv'
  BY BusyStep
<1>3. BusyInv => BusyWithoutTimeout
  BY DEF BusyInv, BusyWithoutTimeout
<1>4. QED
  BY <1>1, <1>2, <1>3, Invariant, PTL DEF Spec

(***************************************************************************)
(* So what DelegateAsyncWait.h:467-468 says of IsSuccess is true as long   *)
(* as no wait expires: with the MAX_WAIT of async_sqlite3.h, as long as    *)
(* two minutes suffice for every call.                                     *)
(***************************************************************************)
COROLLARY BusyNotInvokedThen ==
  ASSUME MayTimeout = {}
  PROVE  Spec => []BusyNotInvoked
<1>1. BusyWithoutTimeout => BusyNotInvoked
  BY DEF BusyWithoutTimeout, BusyNotInvoked
<1>2. QED
  BY <1>1, BusyIsTrue, PTL

(***************************************************************************)
(* Once a call has returned, with a value or "busy", its target is not     *)
(* entered any more, however late the worker comes to its message.         *)
(***************************************************************************)
THEOREM NeverAfterReturn ==
  ASSUME NEW c \in Call, NEW n \in Nat
  PROVE  Spec => [](pc[c] = "returned" /\ runs[c] = n => [](runs[c] = n))
<1> DEFINE P == pc[c] = "returned" /\ runs[c] = n
<1>1. IInv /\ P /\ [Next]_vars => P'
  <2> SUFFICES ASSUME IInv, P, [Next]_vars
               PROVE  P'
    OBVIOUS
  <2> USE DEF callerVars, workerVars
  <2>t. TypeOK /\ FlagInv
    BY DEF IInv
  <2>1. ASSUME NEW d \in Call, Caller(d)
        PROVE  P'
    BY <2>1, <2>t DEF Caller, TypeOK, Begin, Dispatch, DispatchRefused, WaitSignaled,
                      WaitTimeout, Leave
  <2>2. CASE Invoke
    <3>1. ~invokerWaiting[c]
      BY <2>t DEF FlagInv
    <3>2. QED
      BY <2>2, <2>t, <3>1 DEF Invoke, TypeOK
  <2>3. CASE Pop \/ TargetExitsThread \/ TargetEnds \/ Signal \/ Unlock \/ Fault
    BY <2>3 DEF Pop, TargetExitsThread, TargetEnds, TargetReturns, TargetThrows,
                Signal, Unlock, Fault
  <2>4. CASE UNCHANGED vars
    BY <2>4 DEF vars
  <2>5. QED
    BY <2>1, <2>2, <2>3, <2>4 DEF Next, Worker
<1>2. P => runs[c] = n
  OBVIOUS
<1>3. QED
  BY <1>1, <1>2, Invariant, PTL DEF Spec

-----------------------------------------------------------------------------
\* Refinement: what each step does to the status of the calls.

StatusFun == [c \in Call |-> StatusOf(c)]

\* StatusOf looks at two variables of one call.
LEMMA SameStatus ==
  ASSUME UNCHANGED <<pc, outcome>>
  PROVE  StatusFun' = StatusFun
  BY DEF StatusFun, StatusOf

LEMMA StatusMoves ==
  ASSUME NEW c \in Call, NEW to,
         \A d \in Call \ {c} : pc'[d] = pc[d] /\ outcome'[d] = outcome[d],
         StatusOf(c)' = to
  PROVE  StatusFun' = [StatusFun EXCEPT ![c] = to]
<1>1. \A d \in Call \ {c} : StatusOf(d)' = StatusOf(d)
  BY DEF StatusOf
<1>2. QED
  BY <1>1 DEF StatusFun

\* a step of the caller on its way to the wait, or from it to the lock
LEMMA StatusStays ==
  ASSUME NEW c \in Call, pc[c] # "idle", pc'[c] # "idle",
         \A d \in Call \ {c} : pc'[d] = pc[d],
         UNCHANGED outcome
  PROVE  StatusFun' = StatusFun
<1>1. \A d \in Call : StatusOf(d)' = StatusOf(d)
  BY DEF StatusOf
<1>2. QED
  BY <1>1 DEF StatusFun

(***************************************************************************)
(* Blocking calls implement SerialCalls for any number of calls, timeouts, *)
(* throwing and self-exiting targets and any queue bound: the caller's     *)
(* Begin begins the call, Invoke applies it, Leave returns it, and every   *)
(* other step is invisible.                                                *)
(***************************************************************************)
THEOREM Refinement == Spec => ImplementsSerialCalls
<1>1. Init => SC!Init
  BY DEF Init, SC!Init, StatusOf
<1>2. IInv /\ [Next]_vars => [SC!Next]_<<StatusFun, runs>>
  <2> SUFFICES ASSUME IInv, [Next]_vars, ~UNCHANGED <<StatusFun, runs>>
               PROVE  SC!Next
    OBVIOUS
  <2> USE DEF callerVars, workerVars
  <2>1. ASSUME NEW c \in Call, Begin(c)
        PROVE  SC!Begin(c)
    <3>1. StatusOf(c) = "idle" /\ StatusOf(c)' = "pending"
      BY <2>1 DEF IInv, TypeOK, FlagInv, Begin, StatusOf
    <3>2. StatusFun' = [StatusFun EXCEPT ![c] = "pending"]
      BY <2>1, <3>1, StatusMoves DEF Begin, IInv, TypeOK
    <3>3. QED
      BY <2>1, <3>1, <3>2 DEF SC!Begin, StatusFun, Begin
  <2>2. ASSUME NEW c \in Call, Leave(c)
        PROVE  SC!ReturnValue(c) \/ SC!ReturnBusy(c)
    <3>1. StatusOf(c) = "pending" /\ StatusOf(c)' = outcome'[c]
      BY <2>2 DEF IInv, TypeOK, FlagInv, Leave, StatusOf
    <3>2. StatusFun' = [StatusFun EXCEPT ![c] = outcome'[c]]
      BY <2>2, <3>1, StatusMoves DEF Leave, IInv, TypeOK
    <3>3. CASE outcome'[c] = "value"
      <4>1. pc[c] = "served"
        BY <2>2, <3>3 DEF IInv, TypeOK, Leave
      <4>2. runs[c] = 1
        BY <4>1 DEF IInv, ResultInv
      <4>3. QED
        BY <2>2, <3>1, <3>2, <3>3, <4>2 DEF SC!ReturnValue, StatusFun, Leave
    <3>4. CASE outcome'[c] = "busy"
      BY <2>2, <3>1, <3>2, <3>4 DEF SC!ReturnBusy, StatusFun, Leave
    <3>5. QED
      BY <2>2, <3>3, <3>4 DEF Leave, IInv, TypeOK
  <2>3. ASSUME NEW c \in Call, Caller(c), ~Begin(c), ~Leave(c)
        PROVE  UNCHANGED <<StatusFun, runs>>
    <3>1. /\ pc[c] # "idle" /\ pc'[c] # "idle"
          /\ \A d \in Call \ {c} : pc'[d] = pc[d]
          /\ UNCHANGED <<outcome, runs>>
      BY <2>3 DEF IInv, TypeOK, Caller, Dispatch, DispatchRefused,
                  WaitSignaled, WaitTimeout
    <3>2. QED
      BY <3>1, StatusStays
  <2>4. CASE Invoke
    <3>1. CASE invokerWaiting[cur]
      <4>1. cur \in Call /\ runs[cur] = 0 /\ pc[cur] # "idle" /\ outcome[cur] = "none"
        BY <2>4, <3>1 DEF IInv, TypeOK, QueueInv, FlagInv, Sent, Invoke
      <4>2. StatusFun[cur] = "pending"
        BY <4>1 DEF StatusFun, StatusOf
      <4>3. runs' = [runs EXCEPT ![cur] = 1]
        BY <2>4, <3>1, <4>1 DEF Invoke
      <4>4. SC!Apply(cur)
        BY <2>4, <4>1, <4>2, <4>3, SameStatus DEF SC!Apply, StatusFun, Invoke
      <4>5. QED
        BY <4>1, <4>4 DEF SC!Next
    <3>2. CASE ~invokerWaiting[cur]
      BY <2>4, <3>2, SameStatus DEF Invoke
    <3>3. QED
      BY <3>1, <3>2
  <2>5. CASE Pop \/ TargetExitsThread \/ TargetEnds
    BY <2>5, SameStatus DEF Pop, TargetExitsThread, TargetEnds, TargetReturns,
                            TargetThrows
  <2>6. CASE Signal \/ Unlock \/ Fault
    BY <2>6, SameStatus DEF Signal, Unlock, Fault
  <2>7. CASE UNCHANGED vars
    BY <2>7, SameStatus DEF vars
  <2>8. QED
    BY <2>1, <2>2, <2>3, <2>4, <2>5, <2>6, <2>7 DEF Next, Worker, SC!Next
<1>3. QED
  BY <1>1, <1>2, Invariant, PTL
     DEF Spec, ImplementsSerialCalls, SC!Spec, SC!vars, StatusFun
=============================================================================
