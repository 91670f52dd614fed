-------------------------- MODULE DmqThread_proofs --------------------------
(***************************************************************************)
(* Theorems about DmqThread, for every set of messages, every bound of the *)
(* queue and any number of restarts: type correctness, one consumer at the *)
(* queue, the bound of the queue, no wake-up lost on either condition      *)
(* variable, nothing dropped silently, that the thread implements          *)
(* CommandQueue, and what it owes to that.                                 *)
(***************************************************************************)
EXTENDS DmqThread, FiniteSetTheorems, SequenceTheorems, TLAPS

-----------------------------------------------------------------------------
(***************************************************************************)
(* A step of the program, action by action.                                *)
(***************************************************************************)
Producer(m) ==
  CheckExit(m) \/ CheckThread(m) \/ Enqueue(m) \/ Recheck(m) \/ DispatchTimeout(m)

LEMMA Steps ==
  ASSUME [Next]_vars
  PROVE  \/ \E m \in Msg : Producer(m) /\ UNCHANGED policy
         \/ \E g \in Gen : Idle(g) /\ UNCHANGED policy
         \/ \E g \in Gen : Heartbeat(g) /\ UNCHANGED policy
         \/ \E g \in Gen : Pop(g) /\ UNCHANGED policy
         \/ \E g \in Gen : SelfExit(g) /\ UNCHANGED policy
         \/ \E g \in Gen : SelfExitCleanup(g) /\ UNCHANGED policy
         \/ \E g \in Gen : TargetReturns(g) /\ UNCHANGED policy
         \/ CreateBegin /\ UNCHANGED policy
         \/ CreateSpawn /\ UNCHANGED policy
         \/ OwnerExit /\ UNCHANGED policy
         \/ OwnerJoined /\ UNCHANGED policy
         \/ UNCHANGED vars
  BY DEF Next, Dispatch, Process, Owner, Chance, Producer

-----------------------------------------------------------------------------
(***************************************************************************)
(* What a step of DispatchDelegate can do: move on without touching the    *)
(* queues, be refused, or push its message while m_exit is not set.        *)
(***************************************************************************)
Step(m, to) ==
  /\ pc' = [pc EXCEPT ![m] = to]
  /\ UNCHANGED <<result, queueVars, proc, histVars>>

Push(m) ==
  /\ ~m_exit
  /\ \/ m \in HighMsg /\ highQueue' = Append(highQueue, m) /\ UNCHANGED normalQueue
     \/ m \notin HighMsg /\ normalQueue' = Append(normalQueue, m) /\ UNCHANGED highQueue
  /\ proc' = WakeWorker
  /\ Return(m, "true")
  /\ stage' = [stage EXCEPT ![m] = "queued"]
  /\ tickets' = tickets + 1
  /\ ticket' = [ticket EXCEPT ![m] = tickets + 1]

LEMMA PushCases ==
  ASSUME NEW m \in Msg, PushOrAbort(m)
  PROVE  \/ m_exit /\ Refuse(m, "false")
         \/ Push(m)
  BY DEF PushOrAbort, Push

LEMMA ProducerCases ==
  ASSUME NEW m \in Msg, Producer(m)
  PROVE  /\ UNCHANGED <<m_thread, m_exit, ownerPc, created, current, selfExit>>
         /\ pc[m] # "done"
         /\ \/ /\ pc[m] = "threadChecked"
               /\ UNCHANGED <<callVars, queueVars, proc, histVars>>
               /\ faulted' = TRUE
            \/ /\ UNCHANGED faulted
               /\ \/ pc[m] = "idle" /\ Step(m, "exitChecked")
                  \/ pc[m] = "exitChecked" /\ m_thread # 0 /\ Step(m, "threadChecked")
                  \/ /\ pc[m] = "threadChecked"
                     /\ Full /\ ~m_exit
                     /\ Step(m, "blocked")
                  \/ pc[m] = "notified" /\ ~HasSpace /\ Step(m, "blocked")
                  \/ /\ pc[m] \in {"idle", "exitChecked", "threadChecked"}
                     /\ Refuse(m, "false") \/ Refuse(m, "throw")
                  \/ /\ pc[m] \in {"blocked", "notified"}
                     /\ m_exit \/ ~HasSpace
                     /\ Refuse(m, "false")
                  \/ /\ pc[m] = "threadChecked"
                     /\ ~Full
                     /\ Push(m)
                  \/ /\ pc[m] \in {"blocked", "notified"}
                     /\ Size < MaxQueueSize
                     /\ Push(m)
<1>1. CASE CheckExit(m)
  BY <1>1 DEF CheckExit, Step
<1>2. CASE CheckThread(m)
  BY <1>2 DEF CheckThread, Step
<1>3. CASE Enqueue(m)
  <2>1. CASE Full
    <3>1. CASE OnFull(m)
      <4>1. CASE policy = "TIMEOUT" /\ m_exit /\ PushOrAbort(m) /\ UNCHANGED faulted
        BY <1>3, <4>1 DEF Enqueue, PushOrAbort
      <4>2. QED
        BY <1>3, <2>1, <3>1, <4>1 DEF Enqueue, OnFull, Step
    <3>2. QED
      BY <1>3, <2>1, <3>1 DEF Enqueue
  <2>2. CASE ~Full
    BY <1>3, <2>2, PushCases DEF Enqueue
  <2>3. QED
    BY <2>1, <2>2
<1>4. CASE Recheck(m)
  BY <1>4, PushCases DEF Recheck, HasSpace, Step, Push
<1>5. CASE DispatchTimeout(m)
  BY <1>5, PushCases DEF DispatchTimeout, HasSpace, Push
<1>6. QED
  BY <1>1, <1>2, <1>3, <1>4, <1>5 DEF Producer

-----------------------------------------------------------------------------
(***************************************************************************)
(* What each group of variables can undergo in a step.                     *)
(***************************************************************************)
LEMMA QueueMoves ==
  ASSUME [Next]_vars
  PROVE  \/ UNCHANGED queueVars
         \/ \E m \in Msg : Push(m)
         \/ \E g \in Gen : Pop(g)
         \/ RequestExit
         \/ Cleanup
<1> USE DEF queueVars, callVars, histVars
<1>1. CASE \E m \in Msg : Producer(m)
  BY <1>1, ProducerCases DEF Step, Refuse
<1>2. CASE \E g \in Gen : Idle(g) \/ Heartbeat(g) \/ TargetReturns(g)
  BY <1>2 DEF Idle, Heartbeat, TargetReturns
<1>3. CASE \E g \in Gen : SelfExit(g) \/ SelfExitCleanup(g)
  BY <1>3 DEF SelfExit, SelfExitCleanup
<1>4. CASE CreateBegin \/ CreateSpawn \/ OwnerExit \/ OwnerJoined
  BY <1>4 DEF CreateBegin, CreateSpawn, OwnerExit, OwnerJoined
<1>5. CASE UNCHANGED vars
  BY <1>5 DEF vars
<1>6. QED
  BY <1>1, <1>2, <1>3, <1>4, <1>5, Steps

LEMMA CallMoves ==
  ASSUME [Next]_vars
  PROVE  \/ UNCHANGED callVars
         \/ \E m \in Msg : \E to \in {"exitChecked", "threadChecked", "blocked"} : Step(m, to)
         \/ \E m \in Msg : \E r \in {"true", "false", "throw"} : Return(m, r)
         \/ pc' \in WakeOneProducer \cup {WakeAllProducers} /\ UNCHANGED result
<1> USE DEF queueVars, callVars, histVars
<1>1. CASE \E m \in Msg : Producer(m)
  BY <1>1, ProducerCases DEF Push, Refuse
<1>2. CASE \E g \in Gen : Idle(g) \/ Heartbeat(g) \/ TargetReturns(g)
  BY <1>2 DEF Idle, Heartbeat, TargetReturns
<1>3. CASE \E g \in Gen : Pop(g)
  BY <1>3 DEF Pop
<1>4. CASE \E g \in Gen : SelfExit(g) \/ SelfExitCleanup(g)
  BY <1>4 DEF SelfExit, SelfExitCleanup, RequestExit, Cleanup
<1>5. CASE CreateBegin \/ CreateSpawn
  BY <1>5 DEF CreateBegin, CreateSpawn
<1>6. CASE OwnerExit \/ OwnerJoined
  BY <1>6 DEF OwnerExit, OwnerJoined, RequestExit, Cleanup
<1>7. CASE UNCHANGED vars
  BY <1>7 DEF vars
<1>8. QED
  BY <1>1, <1>2, <1>3, <1>4, <1>5, <1>6, <1>7, Steps

LEMMA HistoryMoves ==
  ASSUME [Next]_vars
  PROVE  \/ UNCHANGED histVars
         \/ \E m \in Msg : Push(m)
         \/ /\ UNCHANGED <<ticket, tickets>>
            /\ \/ \E m \in Msg : \E r \in {"false", "throw"} : Refuse(m, r)
               \/ \E g \in Gen : Pop(g) \/ TargetReturns(g)
               \/ Cleanup
<1> USE DEF queueVars, callVars, histVars
<1>1. CASE \E m \in Msg : Producer(m)
  BY <1>1, ProducerCases DEF Step, Refuse
<1>2. CASE \E g \in Gen : Idle(g) \/ Heartbeat(g)
  BY <1>2 DEF Idle, Heartbeat
<1>3. CASE \E g \in Gen : Pop(g) \/ TargetReturns(g)
  BY <1>3 DEF Pop, TargetReturns
<1>4. CASE \E g \in Gen : SelfExit(g) \/ SelfExitCleanup(g)
  BY <1>4 DEF SelfExit, SelfExitCleanup, RequestExit, Cleanup
<1>5. CASE CreateBegin \/ CreateSpawn
  BY <1>5 DEF CreateBegin, CreateSpawn
<1>6. CASE OwnerExit \/ OwnerJoined
  BY <1>6 DEF OwnerExit, OwnerJoined, RequestExit, Cleanup
<1>7. CASE UNCHANGED vars
  BY <1>7 DEF vars
<1>8. QED
  BY <1>1, <1>2, <1>3, <1>4, <1>5, <1>6, <1>7, Steps

-----------------------------------------------------------------------------
(***************************************************************************)
(* Type correctness, one group of variables at a time.  It is inductive    *)
(* but for the number of restarts: CreateSpawn relies on the test that     *)
(* CreateBegin made.                                                       *)
(***************************************************************************)
QueueType ==
  /\ highQueue \in Seq(HighMsg)
  /\ normalQueue \in Seq((Msg \ HighMsg) \cup {ExitMsg})

CallType ==
  /\ pc \in [Msg -> {"idle", "exitChecked", "threadChecked", "blocked",
                     "notified", "done"}]
  /\ result \in [Msg -> {"none", "true", "false", "throw"}]

OwnerType ==
  /\ policy \in FullPolicies
  /\ m_thread \in 0 .. MaxCreate
  /\ m_exit \in BOOLEAN
  /\ ownerPc \in {"idle", "creating", "joining"}
  /\ created \in 0 .. MaxCreate
  /\ ownerPc = "creating" => created < MaxCreate
  /\ faulted \in BOOLEAN

ProcType ==
  /\ proc \in [Gen -> {"none", "loop", "asleep", "invoke", "exiting", "ended"}]
  /\ current \in [Gen -> Msg \cup {ExitMsg}]
  /\ selfExit \in [Gen -> BOOLEAN]

HistoryType ==
  /\ stage \in [Msg -> {"new", "refused", "queued", "running", "done", "discarded"}]
  /\ ticket \in [Msg -> Nat]
  /\ tickets \in Nat

TypeInv == QueueType /\ CallType /\ OwnerType /\ ProcType /\ HistoryType

LEMMA TypeInvIsType == TypeInv => TypeOK
  BY DEF TypeInv, QueueType, CallType, OwnerType, ProcType, HistoryType, TypeOK

LEMMA InitType == Init => TypeInv
<1> SUFFICES ASSUME Init
             PROVE  TypeInv
  OBVIOUS
<1>1. QueueType
  <2>1. highQueue = <<>> /\ normalQueue = <<>>
    BY DEF Init
  <2>2. QED
    BY <2>1 DEF QueueType
<1>2. CallType
  BY DEF Init, CallType
<1>3. OwnerType
  <2>1. 0 \in 0 .. MaxCreate
    BY ThreadAssumption
  <2>2. QED
    BY <2>1 DEF Init, OwnerType
<1>4. ProcType
  BY DEF Init, ProcType
<1>5. HistoryType
  BY DEF Init, HistoryType
<1>6. QED
  BY <1>1, <1>2, <1>3, <1>4, <1>5 DEF TypeInv

LEMMA QueueTypeStep ==
  ASSUME QueueType, [Next]_vars
  PROVE  QueueType'
<1> USE DEF QueueType
<1>1. ASSUME NEW m \in Msg, Push(m)
      PROVE  QueueType'
  <2>1. CASE m \in HighMsg
    <3>1. Append(highQueue, m) \in Seq(HighMsg)
      BY <2>1
    <3>2. QED
      BY <1>1, <2>1, <3>1 DEF Push
  <2>2. CASE m \notin HighMsg
    <3>1. m \in (Msg \ HighMsg) \cup {ExitMsg}
      BY <2>2
    <3>2. Append(normalQueue, m) \in Seq((Msg \ HighMsg) \cup {ExitMsg})
      BY <3>1
    <3>3. QED
      BY <1>1, <2>2, <3>2 DEF Push
  <2>3. QED
    BY <2>1, <2>2
<1>2. ASSUME NEW g \in Gen, Pop(g)
      PROVE  QueueType'
  <2>1. CASE highQueue # <<>>
    <3>1. Tail(highQueue) \in Seq(HighMsg)
      BY <2>1
    <3>2. QED
      BY <1>2, <2>1, <3>1 DEF Pop
  <2>2. CASE highQueue = <<>>
    <3>1. normalQueue # <<>>
      BY <1>2, <2>2 DEF Pop, Empty
    <3>2. Tail(normalQueue) \in Seq((Msg \ HighMsg) \cup {ExitMsg})
      BY <3>1
    <3>3. QED
      BY <1>2, <2>2, <3>2 DEF Pop
  <2>3. QED
    BY <2>1, <2>2
<1>3. CASE RequestExit
  <2>1. Append(normalQueue, ExitMsg) \in Seq((Msg \ HighMsg) \cup {ExitMsg})
    OBVIOUS
  <2>2. QED
    BY <1>3, <2>1 DEF RequestExit
<1>4. CASE Cleanup
  <2>1. highQueue' = <<>> /\ normalQueue' = <<>>
    BY <1>4 DEF Cleanup
  <2>2. QED
    BY <2>1
<1>5. CASE UNCHANGED queueVars
  BY <1>5 DEF queueVars
<1>6. QED
  BY <1>1, <1>2, <1>3, <1>4, <1>5, QueueMoves

LEMMA CallTypeStep ==
  ASSUME CallType, [Next]_vars
  PROVE  CallType'
<1> USE DEF CallType
<1>1. ASSUME NEW m \in Msg,
             NEW to \in {"exitChecked", "threadChecked", "blocked"}, Step(m, to)
      PROVE  CallType'
  BY <1>1 DEF Step
<1>2. ASSUME NEW m \in Msg, NEW r \in {"true", "false", "throw"}, Return(m, r)
      PROVE  CallType'
  BY <1>2 DEF Return
<1>3. CASE pc' \in WakeOneProducer /\ UNCHANGED result
  BY <1>3 DEF WakeOneProducer, Blocked
<1>4. CASE pc' = WakeAllProducers /\ UNCHANGED result
  BY <1>4 DEF WakeAllProducers
<1>5. CASE UNCHANGED callVars
  BY <1>5 DEF callVars
<1>6. QED
  BY <1>1, <1>2, <1>3, <1>4, <1>5, CallMoves

LEMMA OwnerTypeStep ==
  ASSUME OwnerType, [Next]_vars
  PROVE  OwnerType'
<1> USE DEF OwnerType
<1>1. CASE \E m \in Msg : Producer(m) /\ UNCHANGED policy
  BY <1>1, ProducerCases
<1>2. CASE \E g \in Gen : (Idle(g) \/ Heartbeat(g) \/ Pop(g)) /\ UNCHANGED policy
  BY <1>2 DEF Idle, Heartbeat, Pop
<1>3. CASE \E g \in Gen : TargetReturns(g) /\ UNCHANGED policy
  BY <1>3 DEF TargetReturns
<1>4. CASE \E g \in Gen : SelfExit(g) /\ UNCHANGED policy
  BY <1>4 DEF SelfExit, RequestExit
<1>5. CASE \E g \in Gen : SelfExitCleanup(g) /\ UNCHANGED policy
  BY <1>5, ThreadAssumption DEF SelfExitCleanup, Cleanup
<1>6. CASE CreateBegin /\ UNCHANGED policy
  BY <1>6 DEF CreateBegin
<1>7. CASE CreateSpawn /\ UNCHANGED policy
  BY <1>7, ThreadAssumption DEF CreateSpawn
<1>8. CASE OwnerExit /\ UNCHANGED policy
  BY <1>8 DEF OwnerExit, RequestExit
<1>9. CASE OwnerJoined /\ UNCHANGED policy
  BY <1>9, ThreadAssumption DEF OwnerJoined, Cleanup
<1>10. CASE UNCHANGED vars
  BY <1>10 DEF vars
<1>11. QED
  BY <1>1, <1>2, <1>3, <1>4, <1>5, <1>6, <1>7, <1>8, <1>9, <1>10, Steps

LEMMA HistoryTypeStep ==
  ASSUME QueueType, ProcType, HistoryType, [Next]_vars
  PROVE  HistoryType'
<1> USE DEF HistoryType
<1>1. ASSUME NEW m \in Msg, Push(m)
      PROVE  HistoryType'
  BY <1>1 DEF Push
<1>2. ASSUME NEW m \in Msg, NEW r \in {"false", "throw"}, Refuse(m, r)
      PROVE  HistoryType'
  BY <1>2 DEF Refuse
<1>3. ASSUME NEW g \in Gen, Pop(g) \/ TargetReturns(g), UNCHANGED <<ticket, tickets>>
      PROVE  HistoryType'
  BY <1>3 DEF Pop, TargetReturns
<1>4. CASE Cleanup /\ UNCHANGED <<ticket, tickets>>
  BY <1>4 DEF Cleanup
<1>5. CASE UNCHANGED histVars
  BY <1>5 DEF histVars
<1>6. QED
  BY <1>1, <1>2, <1>3, <1>4, <1>5, HistoryMoves

Popped == IF highQueue # <<>> THEN Head(highQueue) ELSE Head(normalQueue)

LEMMA PopEffect ==
  ASSUME QueueType, NEW g \in Gen, Pop(g)
  PROVE  /\ proc[g] = "loop"
         /\ Popped \in Msg \cup {ExitMsg}
         /\ current' = [current EXCEPT ![g] = Popped]
         /\ IF Popped = ExitMsg
              THEN proc' = [proc EXCEPT ![g] = "ended"] /\ UNCHANGED stage
              ELSE /\ proc' = [proc EXCEPT ![g] = "invoke"]
                   /\ stage' = [stage EXCEPT ![Popped] = "running"]
         /\ UNCHANGED <<m_thread, m_exit, ownerPc, created, selfExit, faulted>>
<1>1. Popped \in Msg \cup {ExitMsg}
  <2>1. CASE highQueue # <<>>
    <3>1. Head(highQueue) \in HighMsg
      BY <2>1 DEF QueueType
    <3>2. QED
      BY <2>1, <3>1, ThreadAssumption DEF Popped
  <2>2. CASE highQueue = <<>>
    <3>1. normalQueue # <<>>
      BY <2>2 DEF Pop, Empty
    <3>2. Head(normalQueue) \in (Msg \ HighMsg) \cup {ExitMsg}
      BY <3>1 DEF QueueType
    <3>3. QED
      BY <2>2, <3>2 DEF Popped
  <2>3. QED
    BY <2>1, <2>2
<1>2. QED
  BY <1>1 DEF Pop, Popped

LEMMA ProcTypeStep ==
  ASSUME QueueType, ProcType, [Next]_vars
  PROVE  ProcType'
<1> USE DEF ProcType
<1>1. ASSUME NEW m \in Msg, Producer(m)
      PROVE  ProcType'
  BY <1>1, ProducerCases DEF Step, Refuse, Push, WakeWorker
<1>2. ASSUME NEW g \in Gen, Idle(g) \/ Heartbeat(g) \/ TargetReturns(g)
      PROVE  ProcType'
  BY <1>2 DEF Idle, Heartbeat, TargetReturns
<1>3. ASSUME NEW g \in Gen, Pop(g)
      PROVE  ProcType'
  BY <1>3, PopEffect
<1>4. ASSUME NEW g \in Gen, SelfExit(g)
      PROVE  ProcType'
  BY <1>4 DEF SelfExit, RequestExit, WakeWorker
<1>5. ASSUME NEW g \in Gen, SelfExitCleanup(g)
      PROVE  ProcType'
  BY <1>5 DEF SelfExitCleanup, Cleanup
<1>6. CASE CreateBegin \/ CreateSpawn
  BY <1>6 DEF CreateBegin, CreateSpawn
<1>7. CASE OwnerExit
  BY <1>7 DEF OwnerExit, RequestExit, WakeWorker
<1>8. CASE OwnerJoined
  BY <1>8 DEF OwnerJoined, Cleanup
<1>9. CASE UNCHANGED vars
  BY <1>9 DEF vars
<1>10. QED
  BY <1>1, <1>2, <1>3, <1>4, <1>5, <1>6, <1>7, <1>8, <1>9, Steps

LEMMA TypeStep == TypeInv /\ [Next]_vars => TypeInv'
  BY QueueTypeStep, CallTypeStep, OwnerTypeStep, ProcTypeStep, HistoryTypeStep
     DEF TypeInv

THEOREM TypeInvariant == Spec => []TypeInv
<1>1. QED
  BY InitType, TypeStep, PTL DEF Spec

(***************************************************************************)
(* Thread.h:179-201: the members of a Thread keep their types through      *)
(* every dispatch, exit and restart.                                       *)
(***************************************************************************)
THEOREM TypeCorrect == Spec => []TypeOK
  BY TypeInvariant, TypeInvIsType, PTL

-----------------------------------------------------------------------------
(***************************************************************************)
(* One consumer.  Process() of a generation is in the loop only while      *)
(* m_thread holds it: one that has shut itself down stays in its callback  *)
(* with selfExit set, and the owner exits a thread only when no callback   *)
(* does.                                                                   *)
(***************************************************************************)
Holder(g) == g = m_thread

ConsumerInv ==
  /\ \A g \in Gen : proc[g] \in {"loop", "asleep"} => Holder(g)
  /\ \A g \in Gen : proc[g] = "invoke" /\ ~selfExit[g] => Holder(g)
  /\ \A g \in Gen : proc[g] = "exiting" => Holder(g) /\ current[g] \in SelfExitMsg
  /\ ownerPc = "creating" => m_thread = 0
  /\ ownerPc = "joining" => m_thread # 0 /\ OwnerExits

LEMMA ConsumerStep ==
  ASSUME TypeInv, ConsumerInv, [Next]_vars
  PROVE  ConsumerInv'
<1> USE DEF TypeInv, ProcType, OwnerType, ConsumerInv, Holder
<1>1. ASSUME NEW m \in Msg, Producer(m)
      PROVE  ConsumerInv'
  BY <1>1, ProducerCases DEF Step, Refuse, Push, WakeWorker
<1>2. ASSUME NEW g \in Gen, Idle(g) \/ Heartbeat(g) \/ TargetReturns(g)
      PROVE  ConsumerInv'
  BY <1>2 DEF Idle, Heartbeat, TargetReturns
<1>3. ASSUME NEW g \in Gen, Pop(g)
      PROVE  ConsumerInv'
  BY <1>3, PopEffect
<1>4. ASSUME NEW g \in Gen, SelfExit(g)
      PROVE  ConsumerInv'
  BY <1>4 DEF SelfExit, RequestExit, WakeWorker
<1>5. ASSUME NEW g \in Gen, SelfExitCleanup(g)
      PROVE  ConsumerInv'
  <2>1. g = m_thread /\ ~OwnerExits
    BY <1>5, ThreadAssumption DEF SelfExitCleanup
  <2>2. \A h \in Gen \ {g} : proc[h] \notin {"loop", "asleep", "exiting"}
                             /\ (proc[h] = "invoke" => selfExit[h])
    BY <2>1
  <2>3. QED
    BY <1>5, <2>1, <2>2 DEF SelfExitCleanup, Cleanup
<1>6. CASE CreateBegin
  BY <1>6 DEF CreateBegin
<1>7. CASE CreateSpawn
  <2>1. m_thread = 0 /\ m_thread \notin Gen
    BY <1>7 DEF CreateSpawn, Gen
  <2>2. \A h \in Gen : proc[h] \notin {"loop", "asleep", "exiting"}
                       /\ (proc[h] = "invoke" => selfExit[h])
    BY <2>1
  <2>3. QED
    BY <1>7, <2>2 DEF CreateSpawn
<1>8. CASE OwnerExit
  BY <1>8 DEF OwnerExit, RequestExit, WakeWorker
<1>9. CASE OwnerJoined
  <2>1. proc[m_thread] = "ended"
    BY <1>9 DEF OwnerJoined
  <2>2. \A h \in Gen : proc[h] \notin {"loop", "asleep", "exiting"}
                       /\ (proc[h] = "invoke" => selfExit[h])
    BY <2>1
  <2>3. QED
    BY <1>9, <2>2 DEF OwnerJoined, Cleanup
<1>10. CASE UNCHANGED vars
  BY <1>10 DEF vars
<1>11. QED
  BY <1>1, <1>2, <1>3, <1>4, <1>5, <1>6, <1>7, <1>8, <1>9, <1>10, Steps

LEMMA ConsumerInit == Init => ConsumerInv
  BY DEF Init, ConsumerInv, Holder

THEOREM ConsumerInvariant == Spec => []ConsumerInv
<1>1. TypeInv /\ ConsumerInv /\ [Next]_vars => ConsumerInv'
  BY ConsumerStep
<1>2. QED
  BY <1>1, ConsumerInit, TypeInvariant, PTL DEF Spec

(***************************************************************************)
(* Thread.cpp:486-489: a Process() whose callback called ExitThread leaves *)
(* without touching the queue, so after any number of restarts only the    *)
(* thread that m_thread holds takes messages.                              *)
(***************************************************************************)
THEOREM OneConsumer == Spec => []SingleConsumer
<1>1. ConsumerInv => SingleConsumer
  BY DEF ConsumerInv, SingleConsumer, Holder
<1>2. QED
  BY <1>1, ConsumerInvariant, PTL

-----------------------------------------------------------------------------
(***************************************************************************)
(* The bound of the queue.  Every queued message is at a place of a queue, *)
(* so there are no more of them than places, and the producer that adds    *)
(* one has seen a place that is free.                                      *)
(***************************************************************************)
At(m, q) == \E i \in 1 .. Len(q) : q[i] = m
QueuedSet == {m \in Msg : stage[m] = "queued"}
PlaceInv == \A m \in Msg : stage[m] = "queued" => At(m, highQueue) \/ At(m, normalQueue)

LEMMA AtAppend ==
  ASSUME NEW S, NEW q \in Seq(S), NEW x \in S, NEW m
  PROVE  At(m, Append(q, x)) <=> At(m, q) \/ m = x
  BY DEF At

LEMMA AtTail ==
  ASSUME NEW S, NEW q \in Seq(S), q # <<>>, NEW m
  PROVE  At(m, q) => At(m, Tail(q)) \/ m = Head(q)
<1> SUFFICES ASSUME NEW i \in 1 .. Len(q), q[i] = m, m # Head(q)
             PROVE  At(m, Tail(q))
  BY DEF At
<1>1. i # 1 /\ i - 1 \in 1 .. Len(Tail(q)) /\ Tail(q)[i - 1] = m
  OBVIOUS
<1>2. QED
  BY <1>1 DEF At

LEMMA PlaceStep ==
  ASSUME TypeInv, PlaceInv, [Next]_vars
  PROVE  PlaceInv'
<1> USE DEF TypeInv, QueueType, HistoryType, PlaceInv, queueVars, histVars
<1>1. ASSUME NEW m \in Msg, Push(m)
      PROVE  PlaceInv'
  <2>1. CASE m \in HighMsg
    <3>1. \A n \in Msg : At(n, highQueue) \/ n = m => At(n, Append(highQueue, m))
      BY <2>1, AtAppend
    <3>2. QED
      BY <1>1, <2>1, <3>1 DEF Push
  <2>2. CASE m \notin HighMsg
    <3>1. m \in (Msg \ HighMsg) \cup {ExitMsg}
      BY <2>2
    <3>2. \A n \in Msg : At(n, normalQueue) \/ n = m => At(n, Append(normalQueue, m))
      BY <3>1, AtAppend
    <3>3. QED
      BY <1>1, <2>2, <3>2 DEF Push
  <2>3. QED
    BY <2>1, <2>2
<1>2. ASSUME NEW g \in Gen, Pop(g)
      PROVE  PlaceInv'
  <2>1. SUFFICES ASSUME NEW m \in Msg, stage'[m] = "queued"
                 PROVE  At(m, highQueue') \/ At(m, normalQueue')
    OBVIOUS
  <2>2. stage[m] = "queued" /\ m # Popped
    BY <1>2, <2>1, PopEffect, ThreadAssumption
  <2>3. CASE highQueue # <<>>
    <3>1. highQueue' = Tail(highQueue) /\ UNCHANGED normalQueue /\ Popped = Head(highQueue)
      BY <1>2, <2>3 DEF Pop, Popped
    <3>2. At(m, highQueue) => At(m, Tail(highQueue)) \/ m = Head(highQueue)
      BY <2>3, AtTail
    <3>3. QED
      BY <2>2, <3>1, <3>2
  <2>4. CASE highQueue = <<>>
    <3>1. normalQueue # <<>>
      BY <1>2, <2>4 DEF Pop, Empty
    <3>2. normalQueue' = Tail(normalQueue) /\ UNCHANGED highQueue /\ Popped = Head(normalQueue)
      BY <1>2, <2>4 DEF Pop, Popped
    <3>3. At(m, normalQueue) => At(m, Tail(normalQueue)) \/ m = Head(normalQueue)
      BY <3>1, AtTail
    <3>4. QED
      BY <2>2, <3>2, <3>3
  <2>5. QED
    BY <2>3, <2>4
<1>3. ASSUME RequestExit, UNCHANGED stage
      PROVE  PlaceInv'
  <2>1. \A n \in Msg : At(n, normalQueue) => At(n, Append(normalQueue, ExitMsg))
    BY AtAppend
  <2>2. QED
    BY <1>3, <2>1 DEF RequestExit
<1>4. CASE Cleanup
  BY <1>4 DEF Cleanup
<1>5. ASSUME UNCHANGED queueVars, QueuedSet' \subseteq QueuedSet
      PROVE  PlaceInv'
  BY <1>5 DEF QueuedSet
<1>6. CASE \E m \in Msg : Producer(m)
  <2>1. PICK m \in Msg : Producer(m)
    BY <1>6
  <2>2. CASE \E to \in {"exitChecked", "threadChecked", "blocked"} : Step(m, to)
    BY <2>2, <1>5 DEF Step, QueuedSet
  <2>3. CASE \E r \in {"true", "false", "throw"} : Refuse(m, r)
    BY <2>3, <1>5 DEF Refuse, QueuedSet
  <2>4. CASE UNCHANGED <<callVars, queueVars, proc, histVars>>
    BY <2>4, <1>5 DEF QueuedSet
  <2>5. QED
    BY <2>1, <2>2, <2>3, <2>4, <1>1, ProducerCases
<1>7. CASE \E g \in Gen : Idle(g) \/ Heartbeat(g) \/ TargetReturns(g)
  BY <1>7, <1>5 DEF Idle, Heartbeat, TargetReturns, QueuedSet
<1>8. CASE \E g \in Gen : SelfExit(g) \/ SelfExitCleanup(g)
  BY <1>8, <1>3, <1>4 DEF SelfExit, RequestExit, SelfExitCleanup
<1>9. CASE CreateBegin \/ CreateSpawn
  BY <1>9, <1>5 DEF CreateBegin, CreateSpawn, QueuedSet
<1>10. CASE OwnerExit \/ OwnerJoined
  BY <1>10, <1>3, <1>4 DEF OwnerExit, RequestExit, OwnerJoined
<1>11. CASE UNCHANGED vars
  BY <1>11, <1>5 DEF vars, QueuedSet
<1>12. QED
  BY <1>2, <1>6, <1>7, <1>8, <1>9, <1>10, <1>11, Steps

LEMMA SeqCard ==
  ASSUME NEW S, NEW q \in Seq(S)
  PROVE  LET R == {q[i] : i \in 1 .. Len(q)}
         IN  IsFiniteSet(R) /\ Cardinality(R) \in Nat /\ Cardinality(R) <= Len(q)
<1> DEFINE R == {q[i] : i \in 1 .. Len(q)}
<1>1. Len(q) \in Nat
  OBVIOUS
<1>2. IsFiniteSet(1 .. Len(q)) /\ Cardinality(1 .. Len(q)) = Len(q)
  BY <1>1, FS_Interval
<1>3. q \in Surjection(1 .. Len(q), R)
  BY DEF Surjection
<1>4. IsFiniteSet(R) /\ Cardinality(R) <= Len(q)
  BY <1>2, <1>3, FS_Surjection
<1>5. QED
  BY <1>4, FS_CardinalityType

LEMMA PlaceCard ==
  ASSUME QueueType, PlaceInv
  PROVE  /\ IsFiniteSet(QueuedSet)
         /\ Cardinality(QueuedSet) \in Nat
         /\ Cardinality(QueuedSet) <= Size
<1> DEFINE H == {highQueue[i] : i \in 1 .. Len(highQueue)}
           N == {normalQueue[i] : i \in 1 .. Len(normalQueue)}
<1>1. IsFiniteSet(H) /\ Cardinality(H) \in Nat /\ Cardinality(H) <= Len(highQueue)
  BY SeqCard DEF QueueType
<1>2. IsFiniteSet(N) /\ Cardinality(N) \in Nat /\ Cardinality(N) <= Len(normalQueue)
  BY SeqCard DEF QueueType
<1>3. QueuedSet \subseteq H \cup N
  BY DEF PlaceInv, At, QueuedSet
<1> HIDE DEF H, N
<1>4. /\ IsFiniteSet(H \cup N)
      /\ Cardinality(H \cup N) = Cardinality(H) + Cardinality(N) - Cardinality(H \cap N)
  BY <1>1, <1>2, FS_Union
<1>5. Cardinality(H \cap N) \in Nat
  BY <1>1, FS_Subset, FS_CardinalityType
<1>6. /\ IsFiniteSet(QueuedSet)
      /\ Cardinality(QueuedSet) \in Nat
      /\ Cardinality(QueuedSet) <= Cardinality(H \cup N)
  BY <1>3, <1>4, FS_Subset, FS_CardinalityType
<1>7. Len(highQueue) \in Nat /\ Len(normalQueue) \in Nat
  BY DEF QueueType
<1>8. Cardinality(QueuedSet) <= Len(highQueue) + Len(normalQueue)
  BY <1>1, <1>2, <1>4, <1>5, <1>6, <1>7
<1>9. QED
  BY <1>6, <1>8 DEF Size

LEMMA SizeType == QueueType => Size \in Nat
  BY DEF QueueType, Size

LEMMA SizePush ==
  ASSUME QueueType, NEW m \in Msg, Push(m)
  PROVE  Size' = Size + 1
<1>1. CASE m \in HighMsg
  <2>1. Len(Append(highQueue, m)) = Len(highQueue) + 1
    BY DEF QueueType
  <2>2. highQueue' = Append(highQueue, m) /\ normalQueue' = normalQueue
    BY <1>1 DEF Push
  <2>3. Len(highQueue) \in Nat /\ Len(normalQueue) \in Nat
    BY DEF QueueType
  <2>4. QED
    BY <2>1, <2>2, <2>3 DEF Size
<1>2. CASE m \notin HighMsg
  <2>1. Len(Append(normalQueue, m)) = Len(normalQueue) + 1
    BY DEF QueueType
  <2>2. normalQueue' = Append(normalQueue, m) /\ highQueue' = highQueue
    BY <1>2 DEF Push
  <2>3. Len(highQueue) \in Nat /\ Len(normalQueue) \in Nat
    BY DEF QueueType
  <2>4. QED
    BY <2>1, <2>2, <2>3 DEF Size
<1>3. QED
  BY <1>1, <1>2

LEMMA SizePop ==
  ASSUME QueueType, NEW g \in Gen, Pop(g)
  PROVE  Size' = Size - 1
<1>1. CASE highQueue # <<>>
  <2>1. Len(Tail(highQueue)) = Len(highQueue) - 1
    BY <1>1 DEF QueueType
  <2>2. QED
    BY <1>1, <2>1 DEF Pop, Size, QueueType
<1>2. CASE highQueue = <<>>
  <2>1. normalQueue # <<>>
    BY <1>2 DEF Pop, Empty
  <2>2. Len(Tail(normalQueue)) = Len(normalQueue) - 1
    BY <2>1 DEF QueueType
  <2>3. QED
    BY <1>2, <2>2 DEF Pop, Size, QueueType
<1>3. QED
  BY <1>1, <1>2

\* A producer that pushes is past its tests and has seen room.
LEMMA PushFinds ==
  ASSUME TypeInv, NEW m \in Msg, Producer(m), Push(m)
  PROVE  /\ ~m_exit /\ pc[m] \in {"threadChecked", "blocked", "notified"}
         /\ ~Full \/ Size < MaxQueueSize
<1> USE DEF TypeInv, CallType, HistoryType
<1>1. /\ ~m_exit /\ pc[m] # "done"
      /\ pc'[m] = "done" /\ result'[m] = "true" /\ stage'[m] = "queued"
  BY ProducerCases DEF Push, Return
<1>2. pc' # pc
  BY <1>1
<1>3. ~ \E to \in {"exitChecked", "threadChecked", "blocked"} : Step(m, to)
  BY <1>1 DEF Step
<1>4. ~ \E r \in {"false", "throw"} : Refuse(m, r)
  BY <1>1 DEF Refuse
<1>5. QED
  BY <1>1, <1>2, <1>3, <1>4, ProducerCases DEF callVars

\* Only a push makes another message queued.
LEMMA QueuedMoves ==
  ASSUME TypeInv, [Next]_vars
  PROVE  \/ QueuedSet' \subseteq QueuedSet
         \/ \E m \in Msg : /\ Push(m)
                           /\ MaxQueueSize > 0 => Size < MaxQueueSize
                           /\ QueuedSet' = QueuedSet \cup {m}
<1> USE DEF TypeInv, HistoryType, QueuedSet
<1>1. CASE \E m \in Msg : Push(m) /\ Producer(m)
  <2>1. PICK m \in Msg : Push(m) /\ Producer(m)
    BY <1>1
  <2>2. pc' # pc /\ stage'[m] = "queued"
    BY <2>1, ProducerCases DEF Push, Return, CallType
  <2>3. MaxQueueSize > 0 => Size < MaxQueueSize
    <3>1. \/ ~Full
          \/ Size < MaxQueueSize
      BY <2>1, PushFinds
    <3>2. QED
      BY <3>1, SizeType, ThreadAssumption DEF Full
  <2>4. QED
    BY <2>1, <2>3 DEF Push
<1>2. ASSUME NEW m \in Msg, Producer(m), ~Push(m)
      PROVE  QueuedSet' \subseteq QueuedSet
  BY <1>2, ProducerCases DEF Step, Refuse, histVars
<1>3. CASE \E g \in Gen : Idle(g) \/ Heartbeat(g) \/ TargetReturns(g)
  BY <1>3 DEF Idle, Heartbeat, TargetReturns, histVars
<1>4. CASE \E g \in Gen : Pop(g)
  BY <1>4, PopEffect
<1>5. CASE \E g \in Gen : SelfExit(g) \/ SelfExitCleanup(g)
  BY <1>5 DEF SelfExit, RequestExit, SelfExitCleanup, Cleanup, histVars
<1>6. CASE CreateBegin \/ CreateSpawn
  BY <1>6 DEF CreateBegin, CreateSpawn, histVars
<1>7. CASE OwnerExit \/ OwnerJoined
  BY <1>7 DEF OwnerExit, RequestExit, OwnerJoined, Cleanup, histVars
<1>8. CASE UNCHANGED vars
  BY <1>8 DEF vars
<1>9. QED
  BY <1>1, <1>2, <1>3, <1>4, <1>5, <1>6, <1>7, <1>8, Steps

LEMMA BoundStep ==
  ASSUME TypeInv, PlaceInv, QueueBound, [Next]_vars
  PROVE  QueueBound'
<1> SUFFICES ASSUME MaxQueueSize > 0
             PROVE  Cardinality(QueuedSet') <= MaxQueueSize
  BY DEF QueueBound, QueuedSet
<1>1. /\ IsFiniteSet(QueuedSet)
      /\ Cardinality(QueuedSet) \in Nat
      /\ Cardinality(QueuedSet) <= Size
      /\ Size \in Nat
  BY PlaceCard, SizeType DEF TypeInv
<1>2. CASE QueuedSet' \subseteq QueuedSet
  <2>1. Cardinality(QueuedSet') <= Cardinality(QueuedSet) /\ Cardinality(QueuedSet') \in Nat
    BY <1>1, <1>2, FS_Subset, FS_CardinalityType
  <2>2. Cardinality(QueuedSet) <= MaxQueueSize
    BY DEF QueueBound, QueuedSet
  <2>3. QED
    BY <1>1, <2>1, <2>2, ThreadAssumption
<1>3. ASSUME NEW m \in Msg, Size < MaxQueueSize, QueuedSet' = QueuedSet \cup {m}
      PROVE  Cardinality(QueuedSet') <= MaxQueueSize
  <2>1. Cardinality(QueuedSet \cup {m}) <= Cardinality(QueuedSet) + 1
    <3>1. Cardinality(QueuedSet \cup {m}) =
            IF m \in QueuedSet THEN Cardinality(QueuedSet) ELSE Cardinality(QueuedSet) + 1
      BY <1>1, FS_AddElement
    <3>2. QED
      BY <1>1, <3>1
  <2>2. Cardinality(QueuedSet \cup {m}) \in Nat
    BY <1>1, FS_AddElement, FS_CardinalityType
  <2>3. QED
    BY <1>1, <1>3, <2>1, <2>2, ThreadAssumption
<1>4. QED
  BY <1>2, <1>3, QueuedMoves

LEMMA PlaceInit == Init => PlaceInv /\ QueueBound
<1> SUFFICES ASSUME Init
             PROVE  PlaceInv /\ QueueBound
  OBVIOUS
<1>1. QueuedSet = {}
  BY DEF Init, QueuedSet
<1>2. Cardinality(QueuedSet) = 0
  BY <1>1, FS_EmptySet
<1>3. QED
  BY <1>1, <1>2, ThreadAssumption DEF PlaceInv, QueueBound, QueuedSet

(***************************************************************************)
(* Thread.cpp:248-272: whatever producers race for the room, and however   *)
(* their timeouts fall, no more than MAX_QUEUE_SIZE messages are queued.   *)
(***************************************************************************)
THEOREM QueueIsBounded == Spec => []QueueBound
<1>1. TypeInv /\ PlaceInv /\ QueueBound /\ [Next]_vars => PlaceInv' /\ QueueBound'
  BY PlaceStep, BoundStep
<1>2. QED
  BY <1>1, PlaceInit, TypeInvariant, PTL DEF Spec

-----------------------------------------------------------------------------
(***************************************************************************)
(* Wake-ups.  That somebody has been told is not inductive: several        *)
(* places may be free and one told producer may take one of them.  Enough  *)
(* have been told: with a producer asleep, the messages in the queue and   *)
(* the producers on their way to it make up the bound.  An exit leaves     *)
(* nobody asleep at all.                                                   *)
(***************************************************************************)
Notified == {m \in Msg : pc[m] = "notified"}

WorkerAwake == \A g \in Gen : proc[g] = "asleep" => Empty /\ ~m_exit

ToldInv ==
  /\ \A m \in Msg : pc[m] \in {"blocked", "notified"} => MaxQueueSize > 0
  /\ m_exit => Blocked = {}
  /\ Blocked # {} => Size + Cardinality(Notified) >= MaxQueueSize

LEMMA WorkerStep ==
  ASSUME TypeInv, WorkerAwake, [Next]_vars
  PROVE  WorkerAwake'
<1> USE DEF TypeInv, ProcType, WorkerAwake, queueVars
<1>1. ASSUME NEW m \in Msg, Producer(m)
      PROVE  WorkerAwake'
  <2>1. CASE Push(m)
    <3>1. \A g \in Gen : proc'[g] # "asleep"
      BY <2>1 DEF Push, WakeWorker
    <3>2. QED
      BY <3>1
  <2>2. CASE ~Push(m)
    BY <1>1, <2>2, ProducerCases DEF Step, Refuse, Empty
  <2>3. QED
    BY <2>1, <2>2
<1>2. ASSUME NEW g \in Gen, Idle(g) \/ Heartbeat(g) \/ TargetReturns(g)
      PROVE  WorkerAwake'
  BY <1>2 DEF Idle, Heartbeat, TargetReturns, Empty
<1>3. ASSUME NEW g \in Gen, Pop(g)
      PROVE  WorkerAwake'
  <2>1. ~Empty
    BY <1>3 DEF Pop
  <2>2. \A h \in Gen : proc'[h] # "asleep"
    BY <1>3, <2>1, PopEffect
  <2>3. QED
    BY <2>2
<1>4. ASSUME NEW g \in Gen, SelfExit(g)
      PROVE  WorkerAwake'
  <2>1. \A h \in Gen : proc'[h] # "asleep"
    BY <1>4 DEF SelfExit, WakeWorker
  <2>2. QED
    BY <2>1
<1>5. ASSUME NEW g \in Gen, SelfExitCleanup(g)
      PROVE  WorkerAwake'
  BY <1>5 DEF SelfExitCleanup, Cleanup, Empty
<1>6. CASE CreateBegin \/ CreateSpawn
  BY <1>6 DEF CreateBegin, CreateSpawn, Empty
<1>7. CASE OwnerExit
  <2>1. \A h \in Gen : proc'[h] # "asleep"
    BY <1>7 DEF OwnerExit, WakeWorker
  <2>2. QED
    BY <2>1
<1>8. CASE OwnerJoined
  BY <1>8 DEF OwnerJoined, Cleanup, Empty
<1>9. CASE UNCHANGED vars
  BY <1>9 DEF vars, Empty
<1>10. QED
  BY <1>1, <1>2, <1>3, <1>4, <1>5, <1>6, <1>7, <1>8, <1>9, Steps

LEMMA NotifiedCard == IsFiniteSet(Notified) /\ Cardinality(Notified) \in Nat
  BY ThreadAssumption, FS_Subset, FS_CardinalityType DEF Notified

LEMMA NotifiedCardNext == IsFiniteSet(Notified') /\ Cardinality(Notified') \in Nat
  BY ThreadAssumption, FS_Subset, FS_CardinalityType DEF Notified

\* A producer on its way takes a place, or finds none.
LEMMA ToldProducer ==
  ASSUME TypeInv, ToldInv, NEW m \in Msg, Producer(m)
  PROVE  ToldInv'
<1> USE DEF TypeInv, CallType, Blocked, Notified, queueVars
<1>1. Size \in Nat /\ UNCHANGED m_exit /\ MaxQueueSize \in Nat
  BY SizeType, ProducerCases, ThreadAssumption
<1>2. CASE UNCHANGED <<pc, queueVars>>
  BY <1>1, <1>2 DEF ToldInv, Size
<1>3. ASSUME pc[m] \notin {"blocked", "notified"}, pc'[m] \notin {"blocked", "notified"},
             \A n \in Msg \ {m} : pc'[n] = pc[n], Size' = Size \/ Size' = Size + 1
      PROVE  ToldInv'
  <2>1. Blocked' = Blocked /\ Notified' = Notified
    BY <1>3
  <2>2. QED
    BY <1>1, <1>3, <2>1, NotifiedCard DEF ToldInv
<1>4. ASSUME pc' = [pc EXCEPT ![m] = "blocked"], MaxQueueSize > 0, ~m_exit,
             Size >= MaxQueueSize, UNCHANGED queueVars
      PROVE  ToldInv'
  <2>1. Size' = Size
    BY <1>4 DEF Size
  <2>2. QED
    BY <1>1, <1>4, <2>1, NotifiedCardNext DEF ToldInv
<1>5. ASSUME pc' = [pc EXCEPT ![m] = "done"], m_exit \/ Size >= MaxQueueSize,
             pc[m] \in {"blocked", "notified"}, UNCHANGED queueVars
      PROVE  ToldInv'
  <2>1. Size' = Size
    BY <1>5 DEF Size
  <2>2. QED
    BY <1>1, <1>5, <2>1, NotifiedCardNext DEF ToldInv
<1>6. ASSUME pc' = [pc EXCEPT ![m] = "done"], Size' = Size + 1,
             pc[m] \in {"blocked", "notified"}
      PROVE  ToldInv'
  <2>1. Notified' = Notified \ {m} /\ Blocked' \subseteq Blocked
    BY <1>6
  <2>2. Cardinality(Notified') >= Cardinality(Notified) - 1
    <3>1. Cardinality(Notified \ {m}) =
            IF m \in Notified THEN Cardinality(Notified) - 1 ELSE Cardinality(Notified)
      BY NotifiedCard, FS_RemoveElement
    <3>2. QED
      BY <2>1, <3>1, NotifiedCard
  <2>3. QED
    BY <1>1, <1>6, <2>1, <2>2, NotifiedCard, NotifiedCardNext DEF ToldInv
<1>7. QED
  <2>1. CASE pc[m] = "idle" /\ Step(m, "exitChecked")
    BY <2>1, <1>3 DEF Step, Size
  <2>2. CASE pc[m] = "exitChecked" /\ Step(m, "threadChecked")
    BY <2>2, <1>3 DEF Step, Size
  <2>3. CASE pc[m] = "threadChecked" /\ Full /\ ~m_exit /\ Step(m, "blocked")
    BY <2>3, <1>4 DEF Step, Full
  <2>4. CASE pc[m] = "notified" /\ ~HasSpace /\ Step(m, "blocked")
    BY <2>4, <1>1, <1>4 DEF Step, HasSpace, ToldInv
  <2>5. CASE pc[m] \in {"idle", "exitChecked", "threadChecked"}
             /\ \E r \in {"false", "throw"} : Refuse(m, r)
    BY <2>5, <1>3 DEF Refuse, Return, Size
  <2>6. CASE pc[m] \in {"blocked", "notified"} /\ (m_exit \/ ~HasSpace) /\ Refuse(m, "false")
    BY <2>6, <1>1, <1>5 DEF Refuse, Return, HasSpace
  <2>7. CASE pc[m] = "threadChecked" /\ Push(m)
    BY <2>7, <1>3, SizePush DEF Push, Return
  <2>8. CASE pc[m] \in {"blocked", "notified"} /\ Push(m)
    BY <2>8, <1>6, SizePush DEF Push, Return
  <2>9. QED
    BY <2>1, <2>2, <2>3, <2>4, <2>5, <2>6, <2>7, <2>8, <1>2, ProducerCases DEF callVars

\* The worker's step: the place it frees is announced.
LEMMA ToldPop ==
  ASSUME TypeInv, ToldInv, NEW g \in Gen, Pop(g)
  PROVE  ToldInv'
<1> USE DEF TypeInv, CallType, Blocked, Notified
<1>1. /\ Size \in Nat /\ Size' = Size - 1
      /\ UNCHANGED m_exit /\ MaxQueueSize \in Nat
  BY SizeType, SizePop, PopEffect, ThreadAssumption
<1>2. CASE Blocked = {}
  <2>1. UNCHANGED pc
    BY <1>2 DEF Pop, WakeOneProducer
  <2>2. QED
    BY <1>1, <1>2, <2>1 DEF ToldInv
<1>3. CASE Blocked # {}
  <2>1. MaxQueueSize > 0
    BY <1>3 DEF ToldInv
  <2>2. PICK m \in Blocked : pc' = [pc EXCEPT ![m] = "notified"]
    BY <1>3, <2>1 DEF Pop, WakeOneProducer
  <2>3. Notified' = Notified \cup {m} /\ m \notin Notified
    BY <2>2
  <2>4. Cardinality(Notified') = Cardinality(Notified) + 1
    BY <2>3, NotifiedCard, FS_AddElement
  <2>5. Blocked' \subseteq Blocked
    BY <2>2
  <2>6. QED
    BY <1>1, <1>3, <2>1, <2>2, <2>4, <2>5, NotifiedCard DEF ToldInv
<1>4. QED
  BY <1>2, <1>3

LEMMA ToldStep ==
  ASSUME TypeInv, ToldInv, [Next]_vars
  PROVE  ToldInv'
<1> USE DEF TypeInv, CallType, queueVars, callVars
<1>1. ASSUME UNCHANGED <<pc, queueVars>>, m_exit' => m_exit
      PROVE  ToldInv'
  BY <1>1 DEF ToldInv, Blocked, Notified, Size
<1>2. ASSUME pc' = WakeAllProducers
      PROVE  ToldInv'
  <2>1. Blocked' = {}
    BY <1>2 DEF Blocked, WakeAllProducers
  <2>2. \A m \in Msg : pc'[m] \in {"blocked", "notified"} => pc[m] \in {"blocked", "notified"}
    BY <1>2 DEF Blocked, WakeAllProducers
  <2>3. QED
    BY <2>1, <2>2 DEF ToldInv
<1>3. CASE \E g \in Gen : Idle(g) \/ Heartbeat(g) \/ TargetReturns(g)
  BY <1>3, <1>1 DEF Idle, Heartbeat, TargetReturns
<1>4. CASE \E g \in Gen : SelfExit(g) \/ SelfExitCleanup(g)
  BY <1>4, <1>2 DEF SelfExit, RequestExit, SelfExitCleanup, Cleanup
<1>5. CASE CreateBegin \/ CreateSpawn
  BY <1>5, <1>1 DEF CreateBegin, CreateSpawn
<1>6. CASE OwnerExit \/ OwnerJoined
  BY <1>6, <1>2 DEF OwnerExit, RequestExit, OwnerJoined, Cleanup
<1>7. CASE UNCHANGED vars
  BY <1>7, <1>1 DEF vars
<1>8. QED
  BY <1>3, <1>4, <1>5, <1>6, <1>7, ToldProducer, ToldPop, Steps

LEMMA WakeInit == Init => WorkerAwake /\ ToldInv
  BY DEF Init, WorkerAwake, ToldInv, Blocked

\* Some producer has been told.
LEMMA ToldMeans ==
  ASSUME TypeInv, ToldInv, Blocked # {}, ~Full
  PROVE  \E m \in Msg : pc[m] = "notified"
<1>1. MaxQueueSize > 0
  BY DEF ToldInv, Blocked
<1>2. Size \in Nat /\ Size < MaxQueueSize
  BY <1>1, SizeType, ThreadAssumption DEF Full, TypeInv
<1>3. Cardinality(Notified) # 0
  BY <1>2, NotifiedCard, ThreadAssumption DEF ToldInv
<1>4. Notified # {}
  BY <1>3, FS_EmptySet
<1>5. QED
  BY <1>4 DEF Notified

-----------------------------------------------------------------------------
(***************************************************************************)
(* Nothing dropped silently: a producer sleeps on m_cvNotFull only under   *)
(* FullPolicy::TIMEOUT, so under the two other settings the only "false"   *)
(* comes from a test of m_exit.                                            *)
(***************************************************************************)
SleepInv ==
  \A m \in Msg : pc[m] \in {"blocked", "notified"} =>
    policy = "TIMEOUT" /\ MaxQueueSize > 0

LEMMA SleepStep ==
  ASSUME TypeInv, SleepInv, [Next]_vars
  PROVE  SleepInv'
<1> USE DEF TypeInv, CallType, SleepInv, callVars
<1>1. ASSUME NEW m \in Msg, Producer(m), UNCHANGED policy
      PROVE  SleepInv'
  <2>1. CASE Enqueue(m) /\ Full /\ OnFull(m)
    <3>1. MaxQueueSize > 0
      BY <2>1 DEF Full
    <3>2. pc'[m] = "blocked" => policy = "TIMEOUT"
      BY <2>1 DEF OnFull, Refuse, Return, Enqueue
    <3>3. \A n \in Msg \ {m} : pc'[n] = pc[n]
      BY <1>1, ProducerCases DEF Step, Refuse, Push, Return
    <3>4. pc'[m] # "notified"
      BY <1>1, <2>1, ProducerCases DEF Step, Refuse, Push, Return, Enqueue
    <3>5. QED
      BY <1>1, <3>1, <3>2, <3>3, <3>4
  <2>2. CASE \E to \in {"exitChecked", "threadChecked"} : Step(m, to)
    BY <1>1, <2>2 DEF Step
  <2>3. CASE pc[m] = "notified" /\ Step(m, "blocked")
    BY <1>1, <2>3 DEF Step
  <2>4. CASE \E r \in {"true", "false", "throw"} : Return(m, r)
    BY <1>1, <2>4 DEF Return
  <2>5. CASE UNCHANGED callVars
    BY <1>1, <2>5
  <2>6. pc[m] = "threadChecked" /\ Full /\ Step(m, "blocked") => Enqueue(m) /\ OnFull(m)
    BY <1>1 DEF Producer, CheckExit, CheckThread, Enqueue, Recheck, DispatchTimeout
  <2>7. QED
    BY <1>1, <2>1, <2>2, <2>3, <2>4, <2>5, <2>6, ProducerCases DEF Refuse, Push
<1>2. ASSUME \A m \in Msg : pc'[m] \in {"blocked", "notified"} =>
                             pc[m] \in {"blocked", "notified"},
             UNCHANGED policy
      PROVE  SleepInv'
  BY <1>2
<1>3. ASSUME pc' \in WakeOneProducer \cup {WakeAllProducers, pc}, UNCHANGED policy
      PROVE  SleepInv'
  BY <1>2, <1>3 DEF WakeOneProducer, WakeAllProducers, Blocked
<1>4. CASE \E g \in Gen : (Idle(g) \/ Heartbeat(g) \/ TargetReturns(g)) /\ UNCHANGED policy
  BY <1>4, <1>3 DEF Idle, Heartbeat, TargetReturns
<1>5. CASE \E g \in Gen : Pop(g) /\ UNCHANGED policy
  BY <1>5, <1>3 DEF Pop
<1>6. CASE \E g \in Gen : (SelfExit(g) \/ SelfExitCleanup(g)) /\ UNCHANGED policy
  BY <1>6, <1>3 DEF SelfExit, RequestExit, SelfExitCleanup, Cleanup
<1>7. CASE (CreateBegin \/ CreateSpawn) /\ UNCHANGED policy
  BY <1>7, <1>3 DEF CreateBegin, CreateSpawn
<1>8. CASE (OwnerExit \/ OwnerJoined) /\ UNCHANGED policy
  BY <1>8, <1>3 DEF OwnerExit, RequestExit, OwnerJoined, Cleanup
<1>9. CASE UNCHANGED vars
  BY <1>9, <1>3 DEF vars
<1>10. QED
  BY <1>1, <1>4, <1>5, <1>6, <1>7, <1>8, <1>9, Steps

LEMMA RefusedOnExit ==
  ASSUME TypeInv, SleepInv, [Next]_vars,
         policy = "FAULT" \/ MaxQueueSize = 0,
         NEW m \in Msg, result[m] = "none", result'[m] = "false"
  PROVE  m_exit
<1> USE DEF TypeInv, CallType
<1>1. PICK n \in Msg : Producer(n)
  <2>1. CASE \E g \in Gen : Idle(g) \/ Heartbeat(g) \/ TargetReturns(g) \/ Pop(g)
    BY <2>1 DEF Idle, Heartbeat, TargetReturns, Pop, callVars
  <2>2. CASE \E g \in Gen : SelfExit(g) \/ SelfExitCleanup(g)
    BY <2>2 DEF SelfExit, RequestExit, SelfExitCleanup, Cleanup
  <2>3. CASE CreateBegin \/ CreateSpawn \/ OwnerExit \/ OwnerJoined
    BY <2>3 DEF CreateBegin, CreateSpawn, OwnerExit, RequestExit, OwnerJoined, Cleanup, callVars
  <2>4. CASE UNCHANGED vars
    BY <2>4 DEF vars
  <2>5. QED
    BY <2>1, <2>2, <2>3, <2>4, Steps
<1>2. pc[n] \notin {"blocked", "notified"}
  BY ThreadAssumption DEF SleepInv
<1>3. CASE CheckExit(n) \/ CheckThread(n)
  BY <1>3 DEF CheckExit, CheckThread, Refuse, Return
<1>4. ASSUME PushOrAbort(n)
      PROVE  m_exit
  BY <1>4, PushCases DEF Push, Return
<1>5. CASE Enqueue(n)
  <2>1. CASE Full
    <3>1. policy = "FAULT"
      BY <2>1, ThreadAssumption DEF Full
    <3>2. OnFull(n)
      BY <1>5, <2>1 DEF Enqueue
    <3>3. QED
      BY <3>1, <3>2 DEF OnFull, callVars
  <2>2. CASE ~Full
    BY <1>4, <1>5, <2>2 DEF Enqueue
  <2>3. QED
    BY <2>1, <2>2
<1>6. QED
  BY <1>1, <1>2, <1>3, <1>5 DEF Producer, Recheck, DispatchTimeout

(***************************************************************************)
(* Thread.cpp:240, 245-272, 276: with FullPolicy::FAULT or no bound the    *)
(* queue refuses a delegate only because of an exit that was requested and *)
(* not yet followed by a new CreateThread.                                 *)
(***************************************************************************)
THEOREM NothingDropped == Spec => NoSilentDrop
<1>1. Init => SleepInv
  BY DEF Init, SleepInv
<1>2. TypeInv /\ SleepInv /\ [Next]_vars => SleepInv'
  BY SleepStep
<1>3. TypeInv /\ SleepInv /\ [Next]_vars =>
        [policy = "FAULT" \/ MaxQueueSize = 0 =>
           \A m \in Msg : result[m] = "none" /\ result'[m] = "false" => m_exit]_vars
  BY RefusedOnExit
<1>4. QED
  BY <1>1, <1>2, <1>3, TypeInvariant, PTL DEF Spec, NoSilentDrop

-----------------------------------------------------------------------------
(***************************************************************************)
(* Refinement of CommandQueue.  Four more invariants: which generations    *)
(* have come and gone, what a requested exit does to the queue, how the    *)
(* queue is ordered, and who runs which message.                           *)
(***************************************************************************)
Targeting(g) == proc[g] \in {"invoke", "exiting"}
ExitAt(i) == normalQueue[i] = ExitMsg

\* A generation that shut itself down has let go of m_thread.
LifeInv ==
  /\ \A g \in Gen : g > created => proc[g] = "none" /\ ~selfExit[g]
  /\ \A g \in Gen : proc[g] \in {"loop", "asleep"} => ~selfExit[g]
  /\ \A g \in Gen : selfExit[g] =>
       ~Holder(g) /\ (proc[g] = "invoke" => current[g] \in SelfExitMsg)
  /\ \A g \in Gen : proc[g] = "ended" /\ Holder(g) => m_exit

\* The exit message is there once, last, and for the thread that is asked.
ExitInv ==
  /\ ownerPc = "joining" => m_exit
  /\ ownerPc = "creating" => ~m_exit
  /\ m_exit /\ m_thread # 0 =>
       ownerPc = "joining" \/ \E g \in Gen : proc[g] = "exiting"
  /\ \A i \in 1 .. Len(normalQueue) :
       ExitAt(i) => m_exit /\ m_thread # 0 /\ i = Len(normalQueue)
  /\ ownerPc = "joining" /\ proc[m_thread] = "ended" => Empty

LEMMA AppendFacts ==
  ASSUME NEW S, NEW q \in Seq(S), NEW x \in S
  PROVE  /\ Len(q) \in Nat
         /\ Len(Append(q, x)) = Len(q) + 1
         /\ \A i \in 1 .. Len(q) : Append(q, x)[i] = q[i]
         /\ Append(q, x)[Len(q) + 1] = x
  OBVIOUS

LEMMA TailFacts ==
  ASSUME NEW S, NEW q \in Seq(S), q # <<>>
  PROVE  /\ Len(q) \in Nat /\ Len(q) > 0 /\ Head(q) = q[1]
         /\ Len(Tail(q)) = Len(q) - 1
         /\ \A i \in 1 .. Len(Tail(q)) : Tail(q)[i] = q[i + 1]
  OBVIOUS

LEMMA TailOfOne ==
  ASSUME NEW S, NEW q \in Seq(S), Len(q) = 1
  PROVE  Tail(q) = <<>>
<1>1. q # <<>>
  OBVIOUS
<1>2. Tail(q) \in Seq(S) /\ Len(Tail(q)) = 0
  BY <1>1
<1>3. QED
  BY <1>2, EmptySeq

\* The exit message is taken when it is all there is.
LEMMA PoppedExit ==
  ASSUME TypeInv, ExitInv, NEW g \in Gen, Pop(g), Popped = ExitMsg
  PROVE  /\ m_exit
         /\ highQueue' = <<>> /\ normalQueue' = <<>>
<1> USE DEF TypeInv, QueueType
<1>1. highQueue = <<>>
  <2>1. highQueue # <<>> => Head(highQueue) \in HighMsg
    OBVIOUS
  <2>2. QED
    BY <2>1, ThreadAssumption DEF Popped
<1>2. normalQueue # <<>>
  BY <1>1 DEF Pop, Empty
<1>3. /\ Len(normalQueue) \in Nat /\ Len(normalQueue) > 0
      /\ Head(normalQueue) = normalQueue[1]
      /\ Len(Tail(normalQueue)) = Len(normalQueue) - 1
      /\ Tail(normalQueue) \in Seq((Msg \ HighMsg) \cup {ExitMsg})
  BY <1>2, TailFacts
<1>4. ExitAt(1) /\ 1 \in 1 .. Len(normalQueue)
  BY <1>1, <1>3 DEF Popped, ExitAt
<1>5. m_exit /\ Len(normalQueue) = 1
  BY <1>4 DEF ExitInv
<1>6. Tail(normalQueue) = <<>>
  BY <1>5, TailOfOne
<1>7. QED
  BY <1>1, <1>5, <1>6 DEF Pop

LEMMA LifeStep ==
  ASSUME TypeInv, ConsumerInv, ExitInv, LifeInv, [Next]_vars
  PROVE  LifeInv'
<1> USE DEF TypeInv, ProcType, OwnerType, LifeInv, Holder
<1>1. ASSUME NEW m \in Msg, Producer(m)
      PROVE  LifeInv'
  <2>1. /\ UNCHANGED <<m_thread, m_exit, ownerPc, created, current, selfExit>>
        /\ UNCHANGED proc \/ proc' = WakeWorker
    BY <1>1, ProducerCases DEF Step, Refuse, Push
  <2>2. CASE UNCHANGED proc
    BY <2>1, <2>2
  <2>3. CASE proc' = WakeWorker
    BY <2>1, <2>3 DEF WakeWorker
  <2>4. QED
    BY <2>1, <2>2, <2>3
<1>2. ASSUME NEW g \in Gen, Idle(g) \/ Heartbeat(g)
      PROVE  LifeInv'
  BY <1>2 DEF Idle, Heartbeat
<1>3. ASSUME NEW g \in Gen, TargetReturns(g)
      PROVE  LifeInv'
  BY <1>3 DEF TargetReturns
<1>4. ASSUME NEW g \in Gen, Pop(g)
      PROVE  LifeInv'
  <2>1. proc[g] = "loop" /\ ~selfExit[g]
    BY <1>4, PopEffect
  <2>2. CASE Popped # ExitMsg
    BY <1>4, <2>1, <2>2, PopEffect
  <2>3. CASE Popped = ExitMsg
    <3>1. m_exit
      BY <1>4, <2>3, PoppedExit
    <3>2. proc' = [proc EXCEPT ![g] = "ended"]
          /\ UNCHANGED <<m_thread, m_exit, ownerPc, created, selfExit>>
          /\ current' = [current EXCEPT ![g] = Popped]
      BY <1>4, <2>3, PopEffect
    <3>3. QED
      BY <2>1, <3>1, <3>2
  <2>4. QED
    BY <2>2, <2>3
<1>5. ASSUME NEW g \in Gen, SelfExit(g)
      PROVE  LifeInv'
  BY <1>5 DEF SelfExit, RequestExit, WakeWorker
<1>6. ASSUME NEW g \in Gen, SelfExitCleanup(g)
      PROVE  LifeInv'
  BY <1>6 DEF SelfExitCleanup, Cleanup, ConsumerInv, Gen
<1>7. CASE CreateBegin
  BY <1>7 DEF CreateBegin, Gen
<1>8. CASE CreateSpawn
  BY <1>8 DEF CreateSpawn, Gen
<1>9. CASE OwnerExit
  BY <1>9 DEF OwnerExit, RequestExit, WakeWorker
<1>10. CASE OwnerJoined
  BY <1>10 DEF OwnerJoined, Cleanup, Gen
<1>11. CASE UNCHANGED vars
  BY <1>11 DEF vars
<1>12. QED
  BY <1>1, <1>2, <1>3, <1>4, <1>5, <1>6, <1>7, <1>8, <1>9, <1>10, <1>11, Steps

LEMMA ExitRequested ==
  ASSUME TypeInv, ConsumerInv, LifeInv, ExitInv, RequestExit,
         m_thread # 0, UNCHANGED m_thread,
         ownerPc # "joining", \A g \in Gen : proc[g] # "exiting"
  PROVE  \A i \in 1 .. Len(normalQueue') :
           ExitAt(i)' => m_exit' /\ m_thread' # 0 /\ i = Len(normalQueue')
<1>1. ~m_exit
  BY DEF ExitInv
<1>2. \A i \in 1 .. Len(normalQueue) : normalQueue[i] # ExitMsg
  BY <1>1 DEF ExitInv, ExitAt
<1>3. /\ Len(normalQueue) \in Nat
      /\ Len(normalQueue') = Len(normalQueue) + 1
      /\ \A i \in 1 .. Len(normalQueue) : normalQueue'[i] = normalQueue[i]
  BY AppendFacts DEF RequestExit, TypeInv, QueueType
<1>4. QED
  BY <1>2, <1>3 DEF ExitAt, RequestExit

LEMMA ExitStep ==
  ASSUME TypeInv, ConsumerInv, LifeInv, ExitInv, [Next]_vars
  PROVE  ExitInv'
<1> USE DEF TypeInv, ProcType, OwnerType, queueVars
<1>1. ASSUME NEW m \in Msg, Push(m), UNCHANGED <<m_thread, m_exit, ownerPc>>
      PROVE  ExitInv'
  <2>1. ~m_exit
    BY <1>1 DEF Push
  <2>2. \A i \in 1 .. Len(normalQueue) : normalQueue[i] # ExitMsg
    BY <2>1 DEF ExitInv, ExitAt
  <2>3. \A i \in 1 .. Len(normalQueue') : normalQueue'[i] # ExitMsg
    <3>1. CASE m \in HighMsg
      BY <1>1, <2>2, <3>1 DEF Push
    <3>2. CASE m \notin HighMsg
      <4>1. m \in (Msg \ HighMsg) \cup {ExitMsg} /\ m # ExitMsg
        BY <3>2, ThreadAssumption
      <4>2. /\ Len(normalQueue) \in Nat
            /\ Len(Append(normalQueue, m)) = Len(normalQueue) + 1
            /\ \A i \in 1 .. Len(normalQueue) : Append(normalQueue, m)[i] = normalQueue[i]
            /\ Append(normalQueue, m)[Len(normalQueue) + 1] = m
        BY <4>1, AppendFacts DEF QueueType
      <4>3. QED
        BY <1>1, <2>2, <3>2, <4>1, <4>2 DEF Push
    <3>3. QED
      BY <3>1, <3>2
  <2>4. QED
    BY <1>1, <2>1, <2>3 DEF ExitInv, ExitAt
<1>2. ASSUME NEW m \in Msg, Producer(m)
      PROVE  ExitInv'
  <2>1. CASE Push(m)
    BY <1>1, <1>2, <2>1, ProducerCases
  <2>2. CASE ~Push(m)
    BY <1>2, <2>2, ProducerCases DEF Step, Refuse, ExitInv, ExitAt, Empty
  <2>3. QED
    BY <2>1, <2>2
<1>3. ASSUME NEW g \in Gen, Idle(g) \/ Heartbeat(g) \/ TargetReturns(g)
      PROVE  ExitInv'
  <2>1. UNCHANGED <<m_thread, m_exit, ownerPc, queueVars>>
    BY <1>3 DEF Idle, Heartbeat, TargetReturns
  <2>2. \A h \in Gen : proc[h] = "exiting" <=> proc'[h] = "exiting"
    BY <1>3 DEF Idle, Heartbeat, TargetReturns
  <2>3. ownerPc = "joining" => m_thread \in Gen
    BY DEF ConsumerInv, Gen
  <2>4. proc'[m_thread] = "ended" /\ m_thread \in Gen => proc[m_thread] = "ended" \/ Empty
    BY <1>3 DEF Idle, Heartbeat, TargetReturns, LifeInv, Holder
  <2>5. QED
    BY <2>1, <2>2, <2>3, <2>4 DEF ExitInv, ExitAt, Empty
<1>4. ASSUME NEW g \in Gen, Pop(g)
      PROVE  ExitInv'
  <2>1. UNCHANGED <<m_thread, m_exit, ownerPc>> /\ proc[g] = "loop"
    BY <1>4, PopEffect
  <2>2. \A h \in Gen : proc[h] = "exiting" <=> proc'[h] = "exiting"
    BY <1>4, PopEffect
  <2>3. \A i \in 1 .. Len(normalQueue') :
          ExitAt(i)' => m_exit' /\ m_thread' # 0 /\ i = Len(normalQueue')
    <3>1. CASE UNCHANGED normalQueue
      BY <2>1, <3>1 DEF ExitInv, ExitAt
    <3>2. CASE normalQueue # <<>> /\ normalQueue' = Tail(normalQueue)
      <4>1. /\ Len(normalQueue) \in Nat
            /\ Len(normalQueue') = Len(normalQueue) - 1
            /\ \A i \in 1 .. Len(normalQueue') : normalQueue'[i] = normalQueue[i + 1]
        BY <3>2, TailFacts DEF QueueType
      <4>2. QED
        BY <2>1, <4>1 DEF ExitInv, ExitAt
    <3>3. QED
      BY <1>4, <3>1, <3>2 DEF Pop, Empty
  <2>4. ownerPc' = "joining" /\ proc'[m_thread'] = "ended" => Empty'
    <3>1. m_thread = g
      BY <2>1 DEF ConsumerInv, Holder
    <3>2. proc'[g] = "ended" => Popped = ExitMsg
      BY <1>4, PopEffect
    <3>3. QED
      BY <1>4, <2>1, <3>1, <3>2, PoppedExit DEF Empty
  <2>5. QED
    BY <2>1, <2>2, <2>3, <2>4 DEF ExitInv
<1>5. ASSUME NEW g \in Gen, SelfExit(g)
      PROVE  ExitInv'
  <2>1. g = m_thread /\ ownerPc # "joining" /\ \A h \in Gen : proc[h] # "exiting"
    BY <1>5, ThreadAssumption DEF SelfExit, ConsumerInv, Holder
  <2>2. proc'[g] = "exiting" /\ UNCHANGED <<m_thread, ownerPc>>
    BY <1>5 DEF SelfExit, RequestExit, WakeWorker
  <2>3. QED
    BY <1>5, <2>1, <2>2, ExitRequested DEF SelfExit, ExitInv, ConsumerInv
<1>6. ASSUME Cleanup, ownerPc' = "idle"
      PROVE  ExitInv'
  BY <1>6 DEF Cleanup, ExitInv, ExitAt
<1>7. ASSUME NEW g \in Gen, SelfExitCleanup(g)
      PROVE  ExitInv'
  <2>1. g = m_thread /\ ~OwnerExits /\ g # 0
    BY <1>7, ThreadAssumption DEF SelfExitCleanup, ConsumerInv, Holder, Gen
  <2>2. ownerPc' = "idle"
    BY <1>7, <2>1 DEF SelfExitCleanup, ConsumerInv
  <2>3. QED
    BY <1>6, <1>7, <2>2 DEF SelfExitCleanup
<1>8. CASE CreateBegin
  BY <1>8 DEF CreateBegin, ExitInv, ExitAt
<1>9. CASE CreateSpawn
  <2>1. m_thread = 0 /\ ownerPc' = "idle" /\ UNCHANGED <<m_exit, normalQueue>>
    BY <1>9 DEF CreateSpawn, ConsumerInv
  <2>2. ~m_exit'
    BY <1>9, <2>1 DEF CreateSpawn, ExitInv
  <2>3. \A i \in 1 .. Len(normalQueue) : ~ExitAt(i)
    BY <2>1 DEF ExitInv
  <2>4. \A i \in 1 .. Len(normalQueue') : ~ExitAt(i)'
    BY <2>1, <2>3 DEF ExitAt
  <2>5. QED
    BY <2>1, <2>2, <2>4 DEF ExitInv
<1>10. CASE OwnerExit
  <2>1. \A h \in Gen : proc[h] # "exiting"
    BY <1>10, ThreadAssumption DEF OwnerExit, ConsumerInv
  <2>2. m_thread \in Gen /\ ~m_exit
    BY <1>10, <2>1 DEF OwnerExit, ExitInv, Gen
  <2>3. proc[m_thread] # "ended" /\ proc'[m_thread] # "ended"
    BY <1>10, <2>2 DEF OwnerExit, LifeInv, Holder, WakeWorker
  <2>4. ownerPc' = "joining" /\ m_exit' /\ UNCHANGED m_thread
    BY <1>10 DEF OwnerExit, RequestExit
  <2>5. QED
    BY <1>10, <2>1, <2>3, <2>4, ExitRequested DEF OwnerExit, ExitInv
<1>11. CASE OwnerJoined
  BY <1>6, <1>11 DEF OwnerJoined
<1>12. CASE UNCHANGED vars
  BY <1>12 DEF vars, ExitInv, ExitAt, Empty
<1>13. QED
  BY <1>2, <1>3, <1>4, <1>5, <1>7, <1>8, <1>9, <1>10, <1>11, <1>12, Steps

-----------------------------------------------------------------------------
(***************************************************************************)
(* Nobody waits in vain.  A producer that read m_thread before an exit may *)
(* push after the next CreateThread has reset m_exit and before it has a   *)
(* thread; at every other time without a thread the queue is closed, by    *)
(* m_exit or because no producer has got past the test of m_thread yet.    *)
(***************************************************************************)
AttendInv ==
  /\ m_thread = 0 /\ ownerPc # "creating" => Empty
  /\ m_thread = 0 /\ ownerPc # "creating" =>
       m_exit \/ \A m \in Msg : pc[m] \notin {"threadChecked", "blocked", "notified"}
  /\ m_thread # 0 => proc[m_thread] # "none"
  /\ \A g \in Gen : proc[g] = "exiting" => m_exit
  /\ ownerPc = "joining" /\ proc[m_thread] # "ended" =>
       normalQueue # <<>> /\ ExitAt(Len(normalQueue))

LEMMA ThreadIsGen == TypeInv /\ m_thread # 0 => m_thread \in Gen
  BY DEF TypeInv, OwnerType, Gen

\* A producer neither opens a closed queue nor disturbs an exit.
LEMMA AttendProducer ==
  ASSUME TypeInv, ConsumerInv, ExitInv, AttendInv, NEW m \in Msg, Producer(m)
  PROVE  AttendInv'
<1> USE DEF TypeInv, CallType, ProcType
<1>1. UNCHANGED <<m_thread, m_exit, ownerPc>>
  BY ProducerCases
<1>2. \A g \in Gen : /\ proc'[g] = "exiting" <=> proc[g] = "exiting"
                     /\ proc'[g] = "ended" <=> proc[g] = "ended"
                     /\ proc'[g] = "none" <=> proc[g] = "none"
  <2>1. UNCHANGED proc \/ proc' = WakeWorker
    BY ProducerCases DEF Step, Refuse, Push
  <2>2. QED
    BY <2>1 DEF WakeWorker
<1>3. CASE Push(m)
  <2>1. ~m_exit /\ pc[m] \in {"threadChecked", "blocked", "notified"}
    BY <1>3, PushFinds
  <2>2. ~(m_thread = 0 /\ ownerPc # "creating") /\ ownerPc # "joining"
    BY <2>1 DEF AttendInv, ExitInv
  <2>3. QED
    BY <1>1, <1>2, <2>1, <2>2, ThreadIsGen DEF AttendInv
<1>4. CASE ~Push(m)
  <2>1. UNCHANGED queueVars
    BY <1>4, ProducerCases DEF Step, Refuse
  <2>2. m_thread = 0 => \A n \in Msg : pc'[n] \in {"threadChecked", "blocked", "notified"}
                          => pc[n] \in {"threadChecked", "blocked", "notified"}
    BY <1>4, ProducerCases DEF Step, Refuse, Return, callVars
  <2>3. m_thread # 0 => m_thread \in Gen
    BY ThreadIsGen
  <2>4. ownerPc = "joining" => m_thread # 0
    BY DEF ConsumerInv
  <2>5. QED
    BY <1>1, <1>2, <2>1, <2>2, <2>3, <2>4 DEF AttendInv, Empty, ExitAt, queueVars
<1>5. QED
  BY <1>3, <1>4

LEMMA AttendPop ==
  ASSUME TypeInv, ConsumerInv, ExitInv, AttendInv, NEW g \in Gen, Pop(g)
  PROVE  AttendInv'
<1> USE DEF TypeInv, ProcType
<1>1. /\ UNCHANGED <<m_thread, m_exit, ownerPc>>
      /\ g = m_thread /\ m_thread # 0
  BY PopEffect DEF ConsumerInv, Holder, Gen
<1>2. /\ proc'[g] # "none" /\ proc'[g] # "exiting"
      /\ \A h \in Gen \ {g} : proc'[h] = proc[h]
      /\ proc'[g] # "ended" => Popped # ExitMsg
      /\ proc[g] = "loop"
  BY PopEffect
<1>3. ASSUME ownerPc = "joining", Popped # ExitMsg
      PROVE  normalQueue' # <<>> /\ ExitAt(Len(normalQueue))'
  <2>1. normalQueue # <<>> /\ normalQueue[Len(normalQueue)] = ExitMsg
    BY <1>1, <1>2, <1>3 DEF AttendInv, ExitAt
  <2>2. CASE highQueue # <<>>
    BY <2>1, <2>2 DEF Pop, ExitAt
  <2>3. CASE highQueue = <<>>
    <3>1. normalQueue' = Tail(normalQueue) /\ Popped = Head(normalQueue)
      BY <2>3 DEF Pop, Popped
    <3>2. /\ Len(normalQueue) \in Nat /\ Len(normalQueue) > 0
          /\ Head(normalQueue) = normalQueue[1]
          /\ Len(Tail(normalQueue)) = Len(normalQueue) - 1
          /\ \A i \in 1 .. Len(Tail(normalQueue)) :
               Tail(normalQueue)[i] = normalQueue[i + 1]
      BY <2>1, TailFacts DEF QueueType
    <3>3. Len(normalQueue) # 1
      BY <1>3, <2>1, <3>1, <3>2
    <3>4. Len(normalQueue') = Len(normalQueue) - 1 /\ Len(normalQueue') \in 1 .. Len(normalQueue')
      <4>1. Len(normalQueue') = Len(normalQueue) - 1
        BY <3>1, <3>2
      <4>2. QED
        BY <3>2, <3>3, <4>1
    <3>5. normalQueue'[Len(normalQueue')] = normalQueue[Len(normalQueue)]
      BY <3>1, <3>2, <3>4
    <3>6. normalQueue' # <<>>
      BY <3>4
    <3>7. QED
      BY <2>1, <3>5, <3>6 DEF ExitAt
  <2>4. QED
    BY <2>2, <2>3
<1>4. QED
  BY <1>1, <1>2, <1>3 DEF AttendInv

LEMMA AttendStep ==
  ASSUME TypeInv, ConsumerInv, LifeInv, ExitInv, AttendInv, [Next]_vars
  PROVE  AttendInv'
<1> USE DEF TypeInv, ProcType, OwnerType, queueVars, callVars
<1>1. ASSUME NEW g \in Gen, Idle(g) \/ Heartbeat(g) \/ TargetReturns(g)
      PROVE  AttendInv'
  <2>1. UNCHANGED <<m_thread, m_exit, ownerPc, queueVars, callVars>>
    BY <1>1 DEF Idle, Heartbeat, TargetReturns
  <2>2. /\ \A h \in Gen : proc'[h] = "exiting" => proc[h] = "exiting"
        /\ \A h \in Gen : proc'[h] = "none" => proc[h] = "none"
        /\ \A h \in Gen : proc[h] = "ended" => proc'[h] = "ended"
    BY <1>1 DEF Idle, Heartbeat, TargetReturns
  <2>3. (m_thread # 0 => m_thread \in Gen) /\ (ownerPc = "joining" => m_thread # 0)
    BY ThreadIsGen DEF ConsumerInv
  <2>4. QED
    BY <2>1, <2>2, <2>3 DEF AttendInv, Empty, ExitAt
<1>2. ASSUME NEW g \in Gen, SelfExit(g)
      PROVE  AttendInv'
  <2>1. m_thread \in Gen /\ m_thread # 0 /\ ownerPc # "joining"
    BY <1>2, ThreadIsGen, ThreadAssumption DEF SelfExit, ConsumerInv
  <2>2. /\ m_exit' /\ UNCHANGED <<m_thread, ownerPc>>
        /\ \A h \in Gen : proc'[h] = "none" => proc[h] = "none"
    BY <1>2 DEF SelfExit, RequestExit, WakeWorker
  <2>3. QED
    BY <2>1, <2>2 DEF AttendInv
<1>3. ASSUME NEW g \in Gen, SelfExitCleanup(g)
      PROVE  AttendInv'
  <2>1. m_exit /\ ownerPc # "joining"
    BY <1>3, ThreadAssumption DEF SelfExitCleanup, AttendInv, ConsumerInv
  <2>2. /\ m_exit' /\ m_thread' = 0 /\ Empty' /\ ownerPc' # "joining"
    BY <1>3, <2>1 DEF SelfExitCleanup, Cleanup, Empty
  <2>3. QED
    BY <2>2 DEF AttendInv
<1>4. CASE CreateBegin
  BY <1>4 DEF CreateBegin, AttendInv, ConsumerInv, Holder, Gen
<1>5. CASE CreateSpawn
  <2>1. created + 1 \in Gen /\ created + 1 # 0 /\ \A h \in Gen : proc[h] # "exiting"
    <3>1. created \in Nat /\ created < MaxCreate /\ m_thread = 0 /\ m_thread \notin Gen
      BY <1>5, ThreadAssumption DEF CreateSpawn, ConsumerInv, Gen
    <3>2. created + 1 \in Gen /\ created + 1 # 0
      BY <3>1, ThreadAssumption DEF Gen
    <3>3. \A h \in Gen : proc[h] # "exiting"
      BY <3>1 DEF ConsumerInv, Holder
    <3>4. QED
      BY <3>2, <3>3
  <2>2. m_thread' = created + 1 /\ proc'[created + 1] = "loop" /\ ownerPc' = "idle"
    BY <1>5, <2>1 DEF CreateSpawn
  <2>3. \A h \in Gen : proc'[h] # "exiting"
    BY <1>5, <2>1 DEF CreateSpawn
  <2>4. QED
    BY <2>1, <2>2, <2>3 DEF AttendInv
<1>6. CASE OwnerExit
  <2>1. m_thread \in Gen /\ m_thread # 0 /\ m_exit' /\ UNCHANGED m_thread
    BY <1>6, ThreadIsGen DEF OwnerExit, RequestExit
  <2>2. \A h \in Gen : proc'[h] = "none" => proc[h] = "none"
    BY <1>6 DEF OwnerExit, WakeWorker
  <2>3. normalQueue' # <<>> /\ normalQueue'[Len(normalQueue')] = ExitMsg
    <3>1. /\ Len(normalQueue) \in Nat
          /\ Len(normalQueue') = Len(normalQueue) + 1
          /\ normalQueue'[Len(normalQueue) + 1] = ExitMsg
      BY <1>6, AppendFacts DEF OwnerExit, RequestExit, QueueType
    <3>2. QED
      BY <3>1
  <2>4. QED
    BY <2>1, <2>2, <2>3 DEF AttendInv, ExitAt
<1>7. CASE OwnerJoined
  BY <1>7 DEF OwnerJoined, Cleanup, AttendInv, ExitInv, ConsumerInv, Holder, Empty
<1>8. CASE UNCHANGED vars
  BY <1>8 DEF vars, AttendInv, Empty, ExitAt
<1>9. QED
  BY <1>1, <1>2, <1>3, <1>4, <1>5, <1>6, <1>7, <1>8, AttendProducer, AttendPop, Steps

LEMMA AttendMeans ==
  ASSUME TypeInv, ConsumerInv, LifeInv, ExitInv, WorkerAwake, AttendInv
  PROVE  /\ ~Empty => \/ ownerPc = "creating"
                      \/ m_thread # 0 /\ proc[m_thread] \in {"loop", "invoke", "exiting"}
         /\ ownerPc = "joining" =>
              \/ proc[m_thread] = "ended"
              \/ /\ proc[m_thread] \in {"loop", "invoke"}
                 /\ normalQueue # <<>> /\ normalQueue[Len(normalQueue)] = ExitMsg
<1> USE DEF TypeInv, ProcType
<1>1. ASSUME ~Empty, ownerPc # "creating"
      PROVE  m_thread # 0 /\ proc[m_thread] \in {"loop", "invoke", "exiting"}
  <2>1. m_thread # 0 /\ m_thread \in Gen
    BY <1>1, ThreadIsGen DEF AttendInv
  <2>2. proc[m_thread] # "none" /\ proc[m_thread] # "asleep"
    BY <1>1, <2>1 DEF AttendInv, WorkerAwake
  <2>3. ASSUME proc[m_thread] = "ended"
        PROVE  FALSE
    <3>1. m_exit
      BY <2>1, <2>3 DEF LifeInv, Holder
    <3>2. ownerPc = "joining"
      BY <2>1, <2>3, <3>1 DEF ExitInv, ConsumerInv, Holder
    <3>3. QED
      BY <1>1, <2>3, <3>2 DEF ExitInv
  <2>4. QED
    BY <2>1, <2>2, <2>3
<1>2. ASSUME ownerPc = "joining", proc[m_thread] # "ended"
      PROVE  /\ proc[m_thread] \in {"loop", "invoke"}
             /\ normalQueue # <<>> /\ normalQueue[Len(normalQueue)] = ExitMsg
  <2>1. m_thread # 0 /\ m_thread \in Gen
    BY <1>2, ThreadIsGen DEF ConsumerInv
  <2>2. proc[m_thread] \notin {"none", "asleep", "exiting"}
    BY <1>2, <2>1, ThreadAssumption DEF AttendInv, WorkerAwake, ExitInv, ConsumerInv
  <2>3. QED
    BY <1>2, <2>1, <2>2 DEF AttendInv, ExitAt
<1>3. QED
  BY <1>1, <1>2

(***************************************************************************)
(* Thread.cpp:202, 230, 276, 294, 429: the notifications of m_cv and       *)
(* m_cvNotFull suffice, and m_exit closes the queue whenever nobody serves *)
(* it: at any moment whoever sleeps or joins has somebody, awake, whose    *)
(* next steps lead to his own.                                             *)
(***************************************************************************)
THEOREM WakeUpsSuffice == Spec => []NobodyWaitsInVain
<1> DEFINE Invs == /\ TypeInv /\ ConsumerInv /\ LifeInv /\ ExitInv
                   /\ WorkerAwake /\ ToldInv /\ AttendInv
<1>1. Init => Invs
  <2>1. Init => TypeInv /\ ConsumerInv /\ WorkerAwake /\ ToldInv
    BY InitType, ConsumerInit, WakeInit
  <2>2. Init => LifeInv /\ ExitInv /\ AttendInv
    BY DEF Init, LifeInv, ExitInv, AttendInv, ExitAt, Holder, Empty
  <2>3. QED
    BY <2>1, <2>2
<1>2. Invs /\ [Next]_vars => Invs'
  BY TypeStep, ConsumerStep, LifeStep, ExitStep, WorkerStep, ToldStep, AttendStep
<1>3. Invs => NobodyWaitsInVain
  <2>1. Invs /\ Blocked # {} /\ ~Full => \E m \in Msg : pc[m] = "notified"
    BY ToldMeans
  <2>2. Invs => /\ ~Empty => \/ ownerPc = "creating"
                             \/ m_thread # 0 /\ proc[m_thread] \in {"loop", "invoke", "exiting"}
                /\ ownerPc = "joining" =>
                     \/ proc[m_thread] = "ended"
                     \/ /\ proc[m_thread] \in {"loop", "invoke"}
                        /\ normalQueue # <<>> /\ normalQueue[Len(normalQueue)] = ExitMsg
    BY AttendMeans
  <2>3. QED
    BY <2>1, <2>2 DEF NobodyWaitsInVain, WorkerAwake, ToldInv
<1>4. QED
  BY <1>1, <1>2, <1>3, PTL DEF Spec

-----------------------------------------------------------------------------
(***************************************************************************)
(* The order of a queue: its messages are queued ones and stand in the     *)
(* order of their acceptance, so none of them stands there twice.          *)
(***************************************************************************)
AnyMsg == Msg \cup {ExitMsg}

Listed(q, st) == \A i \in 1 .. Len(q) : q[i] # ExitMsg => st[q[i]] = "queued"

Sorted(q, tk) ==
  \A i, j \in 1 .. Len(q) :
    i < j /\ q[i] # ExitMsg /\ q[j] # ExitMsg => tk[q[i]] < tk[q[j]]

OrderInv ==
  /\ Listed(highQueue, stage) /\ Listed(normalQueue, stage)
  /\ Sorted(highQueue, ticket) /\ Sorted(normalQueue, ticket)

\* How far a call has got, and the tickets given out.
CallInv ==
  /\ \A m \in Msg : pc[m] # "done" => stage[m] = "new"
  /\ \A m \in Msg : ticket[m] <= tickets

\* The running messages are those of the threads in a callback, one each.
RunInv ==
  /\ \A m \in Msg : stage[m] = "running" => \E g \in Gen : Targeting(g) /\ current[g] = m
  /\ \A g \in Gen : Targeting(g) => current[g] \in Msg /\ stage[current[g]] = "running"
  /\ \A g, h \in Gen : Targeting(g) /\ Targeting(h) /\ current[g] = current[h] => g = h

LEMMA KeptQueue ==
  ASSUME NEW q \in Seq(AnyMsg), NEW st, NEW st2, NEW tk, NEW tk2,
         Listed(q, st), Sorted(q, tk),
         \A m \in Msg : st[m] = "queued" => st2[m] = "queued" /\ tk2[m] = tk[m]
  PROVE  Listed(q, st2) /\ Sorted(q, tk2)
<1>1. \A i \in 1 .. Len(q) :
        q[i] # ExitMsg => st2[q[i]] = "queued" /\ tk2[q[i]] = tk[q[i]]
  BY DEF Listed, AnyMsg
<1>2. QED
  BY <1>1 DEF Listed, Sorted

LEMMA GrownQueue ==
  ASSUME NEW q \in Seq(AnyMsg), NEW x \in AnyMsg, NEW st, NEW tk,
         Listed(q, st), Sorted(q, tk),
         x # ExitMsg => st[x] = "queued",
         \A i \in 1 .. Len(q) : x # ExitMsg /\ q[i] # ExitMsg => tk[q[i]] < tk[x]
  PROVE  Listed(Append(q, x), st) /\ Sorted(Append(q, x), tk)
<1>1. /\ Len(q) \in Nat
      /\ Len(Append(q, x)) = Len(q) + 1
      /\ \A i \in 1 .. Len(q) : Append(q, x)[i] = q[i]
      /\ Append(q, x)[Len(q) + 1] = x
  BY AppendFacts
<1>2. \A i \in 1 .. Len(Append(q, x)) : i \in 1 .. Len(q) \/ i = Len(q) + 1
  BY <1>1
<1>3. QED
  BY <1>1, <1>2 DEF Listed, Sorted

LEMMA ShrunkQueue ==
  ASSUME NEW q \in Seq(AnyMsg), q # <<>>, NEW st, NEW tk \in [Msg -> Nat],
         Listed(q, st), Sorted(q, tk)
  PROVE  /\ Listed(Tail(q), st) /\ Sorted(Tail(q), tk)
         /\ Head(q) \in AnyMsg
         /\ Head(q) # ExitMsg => st[Head(q)] = "queued"
         /\ Head(q) # ExitMsg => \A i \in 1 .. Len(Tail(q)) : Tail(q)[i] # Head(q)
         /\ Tail(q) \in Seq(AnyMsg)
<1>1. /\ Len(q) \in Nat /\ Len(q) > 0 /\ Head(q) = q[1]
      /\ Len(Tail(q)) = Len(q) - 1
      /\ \A i \in 1 .. Len(Tail(q)) : Tail(q)[i] = q[i + 1]
  BY TailFacts
<1>2. Head(q) \in AnyMsg /\ Tail(q) \in Seq(AnyMsg)
  OBVIOUS
<1>3. Listed(Tail(q), st) /\ (Head(q) # ExitMsg => st[Head(q)] = "queued")
  BY <1>1 DEF Listed
<1>4. Sorted(Tail(q), tk)
  BY <1>1 DEF Sorted
<1>5. ASSUME Head(q) # ExitMsg, NEW i \in 1 .. Len(Tail(q)), Tail(q)[i] = Head(q)
      PROVE  FALSE
  <2>1. 1 \in 1 .. Len(q) /\ i + 1 \in 1 .. Len(q) /\ 1 < i + 1 /\ q[i + 1] = q[1]
    BY <1>1, <1>5
  <2>2. tk[q[1]] < tk[q[1]]
    BY <1>1, <1>5, <2>1 DEF Sorted
  <2>3. tk[q[1]] \in Nat
    BY <1>1, <1>2, <1>5 DEF AnyMsg
  <2>4. QED
    BY <2>2, <2>3
<1>6. QED
  BY <1>2, <1>3, <1>4, <1>5

\* Removing the head when it starts to run leaves the rest as it was.
LEMMA StartedQueue ==
  ASSUME NEW q \in Seq(AnyMsg), q # <<>>,
         NEW st, NEW tk \in [Msg -> Nat], NEW st2,
         Listed(q, st), Sorted(q, tk),
         \A m \in Msg : m # Head(q) => st2[m] = st[m],
         Head(q) = ExitMsg => st2 = st
  PROVE  Listed(Tail(q), st2) /\ Sorted(Tail(q), tk)
<1>1. /\ Listed(Tail(q), st) /\ Sorted(Tail(q), tk)
      /\ Head(q) # ExitMsg => \A i \in 1 .. Len(Tail(q)) : Tail(q)[i] # Head(q)
      /\ Tail(q) \in Seq(AnyMsg)
  BY ShrunkQueue
<1>2. \A i \in 1 .. Len(Tail(q)) : Tail(q)[i] \in AnyMsg
  BY <1>1
<1>3. QED
  BY <1>1, <1>2 DEF Listed, AnyMsg

LEMMA QueuesAreAny ==
  ASSUME TypeInv
  PROVE  highQueue \in Seq(AnyMsg) /\ normalQueue \in Seq(AnyMsg)
<1>1. HighMsg \subseteq AnyMsg /\ (Msg \ HighMsg) \cup {ExitMsg} \subseteq AnyMsg
  BY ThreadAssumption DEF AnyMsg
<1>2. QED
  BY <1>1 DEF TypeInv, QueueType

LEMMA KeptQueues ==
  ASSUME \A m \in Msg : stage[m] = "queued" => stage'[m] = "queued" /\ ticket'[m] = ticket[m]
  PROVE  \A q \in Seq(AnyMsg) : Listed(q, stage) /\ Sorted(q, ticket) =>
                              Listed(q, stage') /\ Sorted(q, ticket')
  BY KeptQueue

LEMMA OrderPush ==
  ASSUME TypeInv, OrderInv, CallInv, NEW m \in Msg, pc[m] # "done", Push(m)
  PROVE  OrderInv'
<1> USE DEF TypeInv, HistoryType
<1>1. highQueue \in Seq(AnyMsg) /\ normalQueue \in Seq(AnyMsg) /\ m \in AnyMsg
  BY QueuesAreAny DEF AnyMsg
<1>2. stage[m] = "new" /\ stage'[m] = "queued" /\ ticket'[m] = tickets + 1
  BY DEF CallInv, Push
<1>3. \A n \in Msg : stage[n] = "queued" =>
        /\ stage'[n] = "queued" /\ ticket'[n] = ticket[n]
        /\ ticket'[n] < ticket'[m]
  BY <1>2 DEF CallInv, Push
<1>4. /\ Listed(highQueue, stage') /\ Sorted(highQueue, ticket')
      /\ Listed(normalQueue, stage') /\ Sorted(normalQueue, ticket')
  <2>1. \A n \in Msg : stage[n] = "queued" => stage'[n] = "queued" /\ ticket'[n] = ticket[n]
    BY <1>3
  <2>2. \A q \in Seq(AnyMsg) : Listed(q, stage) /\ Sorted(q, ticket) =>
                             Listed(q, stage') /\ Sorted(q, ticket')
    BY <2>1, KeptQueues
  <2>3. QED
    BY <1>1, <2>2 DEF OrderInv
<1>5. ASSUME NEW q \in Seq(AnyMsg), Listed(q, stage), Listed(q, stage'), Sorted(q, ticket')
      PROVE  Listed(Append(q, m), stage') /\ Sorted(Append(q, m), ticket')
  <2>1. \A i \in 1 .. Len(q) : q[i] # ExitMsg => ticket'[q[i]] < ticket'[m]
    BY <1>3, <1>5 DEF Listed, AnyMsg
  <2>2. QED
    BY <1>1, <1>2, <1>5, <2>1, GrownQueue
<1>6. CASE m \in HighMsg
  BY <1>1, <1>4, <1>5, <1>6 DEF Push, OrderInv
<1>7. CASE m \notin HighMsg
  BY <1>1, <1>4, <1>5, <1>7 DEF Push, OrderInv
<1>8. QED
  BY <1>6, <1>7

\* What is taken is a queued message of neither remaining queue.
LEMMA OrderPop ==
  ASSUME TypeInv, OrderInv, NEW g \in Gen, Pop(g)
  PROVE  /\ OrderInv'
         /\ Popped # ExitMsg => Popped \in Msg /\ stage[Popped] = "queued"
<1>1. highQueue \in Seq(AnyMsg) /\ normalQueue \in Seq(AnyMsg)
  BY QueuesAreAny
<1>2. /\ \A m \in Msg : m # Popped => stage'[m] = stage[m]
      /\ Popped = ExitMsg => stage' = stage
      /\ UNCHANGED ticket
      /\ ticket \in [Msg -> Nat]
      /\ Popped \in AnyMsg
  <2>1. QueueType /\ HistoryType
    BY DEF TypeInv
  <2>2. UNCHANGED ticket
    BY DEF Pop
  <2>3. QED
    BY <2>1, <2>2, PopEffect DEF HistoryType, AnyMsg
<1>3. CASE highQueue # <<>>
  <2>1. Popped = Head(highQueue) /\ highQueue' = Tail(highQueue) /\ UNCHANGED normalQueue
    BY <1>3 DEF Pop, Popped
  <2>2. Listed(Tail(highQueue), stage') /\ Sorted(Tail(highQueue), ticket)
    BY <1>1, <1>2, <1>3, <2>1, StartedQueue DEF OrderInv
  <2>3. Popped \in HighMsg
    BY <1>3, <2>1 DEF TypeInv, QueueType
  <2>4. \A i \in 1 .. Len(normalQueue) : normalQueue[i] # Popped
    BY <2>3, ThreadAssumption DEF TypeInv, QueueType
  <2>5. \A i \in 1 .. Len(normalQueue) : normalQueue[i] \in AnyMsg
    BY <1>1
  <2>6. Listed(normalQueue, stage')
    BY <1>2, <2>4, <2>5 DEF OrderInv, Listed, AnyMsg
  <2>7. Popped # ExitMsg => stage[Popped] = "queued"
    BY <1>1, <1>2, <1>3, <2>1, ShrunkQueue DEF OrderInv
  <2>8. QED
    BY <1>2, <2>1, <2>2, <2>6, <2>7 DEF OrderInv, AnyMsg
<1>4. CASE highQueue = <<>>
  <2>1. /\ normalQueue # <<>> /\ Popped = Head(normalQueue)
        /\ normalQueue' = Tail(normalQueue) /\ highQueue' = <<>>
    BY <1>4 DEF Pop, Empty, Popped
  <2>2. Listed(Tail(normalQueue), stage') /\ Sorted(Tail(normalQueue), ticket)
    BY <1>1, <1>2, <2>1, StartedQueue DEF OrderInv
  <2>3. Listed(<<>>, stage') /\ Sorted(<<>>, ticket)
    BY DEF Listed, Sorted
  <2>4. Popped # ExitMsg => stage[Popped] = "queued"
    BY <1>1, <1>2, <2>1, ShrunkQueue DEF OrderInv
  <2>5. QED
    BY <1>2, <2>1, <2>2, <2>3, <2>4 DEF OrderInv, AnyMsg
<1>5. QED
  BY <1>3, <1>4

LEMMA OrderKept ==
  ASSUME TypeInv, OrderInv, UNCHANGED queueVars,
         \A m \in Msg : stage[m] = "queued" => stage'[m] = "queued" /\ ticket'[m] = ticket[m]
  PROVE  OrderInv'
<1>1. highQueue \in Seq(AnyMsg) /\ normalQueue \in Seq(AnyMsg)
  BY QueuesAreAny
<1>2. \A q \in Seq(AnyMsg) : Listed(q, stage) /\ Sorted(q, ticket) =>
                           Listed(q, stage') /\ Sorted(q, ticket')
  BY KeptQueues
<1>3. QED
  BY <1>1, <1>2 DEF OrderInv, queueVars

LEMMA OrderStep ==
  ASSUME TypeInv, OrderInv, CallInv, RunInv, [Next]_vars
  PROVE  OrderInv'
<1>1. ASSUME UNCHANGED queueVars, UNCHANGED histVars
      PROVE  OrderInv'
  BY <1>1, OrderKept DEF histVars
<1>2. ASSUME NEW m \in Msg, Producer(m)
      PROVE  OrderInv'
  <2>1. CASE \E to \in {"exitChecked", "threadChecked", "blocked"} : Step(m, to)
    BY <1>1, <2>1 DEF Step
  <2>2. CASE \E r \in {"false", "throw"} : Refuse(m, r)
    <3>1. stage[m] = "new" /\ stage' = [stage EXCEPT ![m] = "refused"]
          /\ UNCHANGED <<queueVars, ticket>>
      BY <1>2, <2>2, ProducerCases DEF CallInv, Refuse
    <3>2. \A n \in Msg : stage[n] = "queued" => stage'[n] = "queued" /\ ticket'[n] = ticket[n]
      BY <3>1 DEF TypeInv, HistoryType
    <3>3. QED
      BY <3>1, <3>2, OrderKept
  <2>3. CASE UNCHANGED <<callVars, queueVars, proc, histVars>>
    BY <1>1, <2>3
  <2>4. CASE Push(m)
    BY <1>2, <2>4, OrderPush, ProducerCases
  <2>5. QED
    BY <1>2, <2>1, <2>2, <2>3, <2>4, ProducerCases
<1>3. CASE \E g \in Gen : Idle(g) \/ Heartbeat(g)
  BY <1>3, <1>1 DEF Idle, Heartbeat
<1>4. ASSUME NEW g \in Gen, TargetReturns(g)
      PROVE  OrderInv'
  <2>1. stage[current[g]] = "running" /\ UNCHANGED <<queueVars, ticket>>
    BY <1>4 DEF TargetReturns, RunInv, Targeting
  <2>2. \A n \in Msg : stage[n] = "queued" => stage'[n] = "queued" /\ ticket'[n] = ticket[n]
    BY <1>4, <2>1 DEF TargetReturns, TypeInv, HistoryType
  <2>3. QED
    BY <2>1, <2>2, OrderKept
<1>5. CASE \E g \in Gen : Pop(g)
  BY <1>5, OrderPop
<1>6. ASSUME RequestExit, UNCHANGED histVars
      PROVE  OrderInv'
  <2>1. normalQueue \in Seq(AnyMsg) /\ ExitMsg \in AnyMsg
    BY QueuesAreAny DEF AnyMsg
  <2>2. Listed(Append(normalQueue, ExitMsg), stage) /\ Sorted(Append(normalQueue, ExitMsg), ticket)
    BY <2>1, GrownQueue DEF OrderInv
  <2>3. QED
    BY <1>6, <2>2 DEF RequestExit, OrderInv, histVars
<1>7. CASE Cleanup
  BY <1>7 DEF Cleanup, OrderInv, Listed, Sorted
<1>8. CASE \E g \in Gen : SelfExit(g) \/ SelfExitCleanup(g)
  BY <1>8, <1>6, <1>7 DEF SelfExit, RequestExit, SelfExitCleanup
<1>9. CASE CreateBegin \/ CreateSpawn
  BY <1>9, <1>1 DEF CreateBegin, CreateSpawn
<1>10. CASE OwnerExit \/ OwnerJoined
  BY <1>10, <1>6, <1>7 DEF OwnerExit, RequestExit, OwnerJoined
<1>11. CASE UNCHANGED vars
  BY <1>11, <1>1 DEF vars, queueVars, histVars
<1>12. QED
  BY <1>2, <1>3, <1>4, <1>5, <1>8, <1>9, <1>10, <1>11, Steps

LEMMA CallStep ==
  ASSUME TypeInv, OrderInv, CallInv, RunInv, [Next]_vars
  PROVE  CallInv'
<1> USE DEF TypeInv, CallType, HistoryType, CallInv, histVars, callVars
<1>1. ASSUME NEW m \in Msg, Producer(m)
      PROVE  CallInv'
  <2>1. pc[m] # "done" /\ stage[m] = "new"
    BY <1>1, ProducerCases
  <2>2. CASE \E to \in {"exitChecked", "threadChecked", "blocked"} : Step(m, to)
    BY <2>1, <2>2 DEF Step
  <2>3. CASE \E r \in {"false", "throw"} : Refuse(m, r)
    BY <2>3 DEF Refuse, Return
  <2>4. CASE Push(m)
    BY <2>4 DEF Push, Return
  <2>5. CASE UNCHANGED <<callVars, queueVars, proc, histVars>>
    BY <2>5
  <2>6. QED
    BY <1>1, <2>2, <2>3, <2>4, <2>5, ProducerCases
<1>2. ASSUME \A m \in Msg : pc'[m] # "done" => pc[m] # "done",
             \A m \in Msg : stage[m] = "new" => stage'[m] = "new",
             UNCHANGED <<ticket, tickets>>
      PROVE  CallInv'
  BY <1>2
<1>3. ASSUME pc' \in WakeOneProducer \cup {WakeAllProducers, pc}
      PROVE  \A m \in Msg : pc'[m] # "done" => pc[m] # "done"
  BY <1>3 DEF WakeOneProducer, WakeAllProducers, Blocked
<1>4. CASE \E g \in Gen : Idle(g) \/ Heartbeat(g)
  BY <1>4, <1>2 DEF Idle, Heartbeat
<1>5. ASSUME NEW g \in Gen, TargetReturns(g)
      PROVE  CallInv'
  <2>1. stage[current[g]] = "running"
    BY <1>5 DEF TargetReturns, RunInv, Targeting
  <2>2. QED
    BY <1>2, <1>5, <2>1 DEF TargetReturns
<1>6. ASSUME NEW g \in Gen, Pop(g)
      PROVE  CallInv'
  <2>1. Popped # ExitMsg => stage[Popped] = "queued"
    BY <1>6, OrderPop
  <2>2. \A m \in Msg : stage[m] = "new" => stage'[m] = "new"
    BY <1>6, <2>1, PopEffect
  <2>3. pc' \in WakeOneProducer \cup {WakeAllProducers, pc} /\ UNCHANGED <<ticket, tickets>>
    BY <1>6 DEF Pop
  <2>4. QED
    BY <1>2, <1>3, <2>2, <2>3
<1>7. CASE \E g \in Gen : SelfExit(g) \/ SelfExitCleanup(g)
  BY <1>7, <1>2, <1>3 DEF SelfExit, RequestExit, SelfExitCleanup, Cleanup
<1>8. CASE CreateBegin \/ CreateSpawn
  BY <1>8, <1>2 DEF CreateBegin, CreateSpawn
<1>9. CASE OwnerExit \/ OwnerJoined
  BY <1>9, <1>2, <1>3 DEF OwnerExit, RequestExit, OwnerJoined, Cleanup
<1>10. CASE UNCHANGED vars
  BY <1>10, <1>2 DEF vars
<1>11. QED
  BY <1>1, <1>4, <1>5, <1>6, <1>7, <1>8, <1>9, <1>10, Steps

\* A step that moves no thread into or out of a callback.
LEMMA RunKept ==
  ASSUME RunInv,
         \A g \in Gen : (proc'[g] \in {"invoke", "exiting"}) <=> Targeting(g),
         UNCHANGED current,
         \A m \in Msg : (stage'[m] = "running") <=> (stage[m] = "running")
  PROVE  RunInv'
  BY DEF RunInv, Targeting

LEMMA RunStep ==
  ASSUME TypeInv, OrderInv, CallInv, LifeInv, RunInv, [Next]_vars
  PROVE  RunInv'
<1> USE DEF TypeInv, ProcType, HistoryType, OwnerType
<1>1. ASSUME NEW m \in Msg, Producer(m)
      PROVE  RunInv'
  <2>1. pc[m] # "done" /\ stage[m] = "new" /\ UNCHANGED current
    BY <1>1, ProducerCases DEF CallInv
  <2>2. CASE \E to \in {"exitChecked", "threadChecked", "blocked"} : Step(m, to)
    BY <2>1, <2>2, RunKept DEF Step, histVars, Targeting
  <2>3. CASE \E r \in {"false", "throw"} : Refuse(m, r)
    BY <2>1, <2>3, RunKept DEF Refuse, Targeting
  <2>4. CASE Push(m)
    BY <2>1, <2>4, RunKept DEF Push, WakeWorker, Targeting
  <2>5. CASE UNCHANGED <<callVars, queueVars, proc, histVars>>
    BY <2>1, <2>5, RunKept DEF histVars, Targeting
  <2>6. QED
    BY <1>1, <2>2, <2>3, <2>4, <2>5, ProducerCases
<1>2. ASSUME NEW g \in Gen, Idle(g) \/ Heartbeat(g)
      PROVE  RunInv'
  BY <1>2, RunKept DEF Idle, Heartbeat, histVars, Targeting
<1>3. ASSUME NEW g \in Gen, TargetReturns(g)
      PROVE  RunInv'
  <2>1. CASE current[g] \in ThrowMsg
    BY <1>3, <2>1, RunKept DEF TargetReturns, Targeting
  <2>2. CASE current[g] \notin ThrowMsg
    <3>1. /\ Targeting(g) /\ UNCHANGED current
          /\ proc' = [proc EXCEPT ![g] = IF selfExit[g] THEN "ended" ELSE "loop"]
          /\ stage' = [stage EXCEPT ![current[g]] = "done"]
      BY <1>3, <2>2 DEF TargetReturns, Targeting
    <3>2. \A h \in Gen : Targeting(h)' <=> Targeting(h) /\ h # g
      BY <3>1 DEF Targeting
    <3>3. \A h \in Gen : Targeting(h)' => current[h] # current[g]
      BY <3>1, <3>2 DEF RunInv
    <3>4. QED
      BY <3>1, <3>2, <3>3 DEF RunInv
  <2>3. QED
    BY <2>1, <2>2
<1>4. ASSUME NEW g \in Gen, Pop(g)
      PROVE  RunInv'
  <2>1. ~Targeting(g) /\ current' = [current EXCEPT ![g] = Popped]
    BY <1>4, PopEffect DEF Targeting
  <2>2. CASE Popped = ExitMsg
    <3>1. UNCHANGED stage /\ \A h \in Gen : Targeting(h)' <=> Targeting(h)
      BY <1>4, <2>1, <2>2, PopEffect DEF Targeting
    <3>2. \A h \in Gen : Targeting(h) => current'[h] = current[h]
      BY <2>1
    <3>3. QED
      BY <3>1, <3>2 DEF RunInv
  <2>3. CASE Popped # ExitMsg
    <3>1. Popped \in Msg /\ stage[Popped] = "queued"
      BY <1>4, <2>3, OrderPop
    <3>2. /\ stage' = [stage EXCEPT ![Popped] = "running"]
          /\ \A h \in Gen : Targeting(h)' <=> Targeting(h) \/ h = g
      BY <1>4, <2>3, PopEffect DEF Targeting
    <3>3. \A h \in Gen : Targeting(h) => current'[h] = current[h] /\ current[h] # Popped
      BY <2>1, <3>1 DEF RunInv
    <3>4. current'[g] = Popped
      BY <2>1
    <3>5. QED
      BY <2>1, <3>1, <3>2, <3>3, <3>4 DEF RunInv
  <2>4. QED
    BY <2>2, <2>3
<1>5. ASSUME NEW g \in Gen, SelfExit(g)
      PROVE  RunInv'
  BY <1>5, RunKept DEF SelfExit, RequestExit, WakeWorker, histVars, Targeting
<1>6. ASSUME NEW g \in Gen, SelfExitCleanup(g)
      PROVE  RunInv'
  BY <1>6, RunKept DEF SelfExitCleanup, Cleanup, Targeting
<1>7. CASE CreateBegin
  BY <1>7, RunKept DEF CreateBegin, histVars, Targeting
<1>8. CASE CreateSpawn
  <2>1. proc[created + 1] # "none" => created + 1 \notin Gen
    BY DEF LifeInv
  <2>2. QED
    BY <1>8, <2>1, RunKept DEF CreateSpawn, histVars, Targeting
<1>9. CASE OwnerExit
  BY <1>9, RunKept DEF OwnerExit, RequestExit, WakeWorker, histVars, Targeting
<1>10. CASE OwnerJoined
  BY <1>10, RunKept DEF OwnerJoined, Cleanup, Targeting
<1>11. CASE UNCHANGED vars
  BY <1>11, RunKept DEF vars, Targeting
<1>12. QED
  BY <1>1, <1>2, <1>3, <1>4, <1>5, <1>6, <1>7, <1>8, <1>9, <1>10, <1>11, Steps

-----------------------------------------------------------------------------
(***************************************************************************)
(* All of the invariants together.                                         *)
(***************************************************************************)
QueueInv ==
  /\ TypeInv /\ ConsumerInv /\ PlaceInv
  /\ LifeInv /\ ExitInv
  /\ OrderInv /\ CallInv /\ RunInv

LEMMA QueueInit == Init => QueueInv
<1> SUFFICES ASSUME Init
             PROVE  QueueInv
  OBVIOUS
<1>1. TypeInv /\ ConsumerInv /\ PlaceInv
  BY InitType, ConsumerInit, PlaceInit
<1>2. LifeInv /\ ExitInv
  BY DEF Init, LifeInv, ExitInv, ExitAt, Holder
<1>3. OrderInv
  BY DEF Init, OrderInv, Listed, Sorted
<1>4. CallInv /\ RunInv
  BY DEF Init, CallInv, RunInv, Targeting
<1>5. QED
  BY <1>1, <1>2, <1>3, <1>4 DEF QueueInv

THEOREM QueueInvariant == Spec => []QueueInv
<1>1. QueueInv /\ [Next]_vars => QueueInv'
  BY TypeStep, ConsumerStep, PlaceStep, LifeStep, ExitStep, OrderStep, CallStep, RunStep
     DEF QueueInv
<1>2. QED
  BY <1>1, QueueInit, PTL DEF Spec

-----------------------------------------------------------------------------
(***************************************************************************)
(* Each step is a step of CommandQueue or leaves its variables alone.      *)
(***************************************************************************)
LEMMA StartIsNext ==
  ASSUME QueueInv, NEW g \in Gen, Pop(g), Popped # ExitMsg
  PROVE  CQ!Start(Popped)
<1> USE DEF QueueInv
<1>1. Popped \in Msg /\ stage[Popped] = "queued" /\ stage' = [stage EXCEPT ![Popped] = "running"]
  BY OrderPop, PopEffect DEF TypeInv
<1>2. UNCHANGED <<ticket, tickets>>
  BY DEF Pop
<1>3. ASSUME NEW a \in CQ!Queued \ {Popped}
      PROVE  ~CQ!Precedes(a, Popped)
  <2>1. a \in Msg /\ stage[a] = "queued" /\ a # Popped /\ a # ExitMsg
    BY <1>3, ThreadAssumption DEF CQ!Queued
  <2>2. At(a, highQueue) \/ At(a, normalQueue)
    BY <2>1 DEF PlaceInv
  <2>3. (At(a, highQueue) => a \in HighMsg) /\ (At(a, normalQueue) => a \notin HighMsg)
    BY <2>1 DEF At, TypeInv, QueueType
  <2>4. ASSUME NEW q, NEW S, q \in Seq(S), q # <<>>, Popped = Head(q),
               Sorted(q, ticket), At(a, q)
        PROVE  ticket[Popped] < ticket[a]
    <3>1. Len(q) \in Nat /\ Len(q) > 0 /\ Head(q) = q[1]
      BY <2>4, TailFacts
    <3>2. PICK i \in 1 .. Len(q) : q[i] = a
      BY <2>4 DEF At
    <3>3. 1 \in 1 .. Len(q) /\ 1 < i
      BY <2>1, <2>4, <3>1, <3>2
    <3>4. QED
      BY <2>1, <2>4, <3>1, <3>2, <3>3 DEF Sorted
  <2>5. ticket[Popped] \in Nat /\ ticket[a] \in Nat
    BY <1>1, <2>1 DEF TypeInv, HistoryType
  <2>6. CASE highQueue # <<>>
    <3>1. Popped = Head(highQueue) /\ Popped \in HighMsg
      BY <2>6 DEF Popped, TypeInv, QueueType
    <3>2. a \in HighMsg => ticket[Popped] < ticket[a]
      BY <2>2, <2>3, <2>4, <2>6, <3>1 DEF TypeInv, QueueType, OrderInv
    <3>3. QED
      BY <2>5, <3>1, <3>2 DEF CQ!Precedes
  <2>7. CASE highQueue = <<>>
    <3>1. normalQueue # <<>> /\ Popped = Head(normalQueue)
      BY <2>7 DEF Pop, Empty, Popped
    <3>2. Popped \notin HighMsg
      BY <1>1, <3>1, ThreadAssumption DEF TypeInv, QueueType
    <3>3. At(a, normalQueue)
      BY <2>2, <2>7 DEF At
    <3>4. ticket[Popped] < ticket[a]
      BY <2>4, <3>1, <3>3 DEF TypeInv, QueueType, OrderInv
    <3>5. QED
      BY <2>3, <2>5, <3>2, <3>3, <3>4 DEF CQ!Precedes
  <2>8. QED
    BY <2>6, <2>7
<1>4. ASSUME NEW r \in CQ!Running
      PROVE  r \in SelfExitMsg
  <2>1. PICK h \in Gen : Targeting(h) /\ current[h] = r
    BY <1>4 DEF CQ!Running, RunInv
  <2>2. Holder(g) /\ h # g
    BY <2>1, PopEffect DEF TypeInv, ConsumerInv, Targeting
  <2>3. ~Holder(h)
    BY <2>2 DEF Holder
  <2>4. QED
    BY <2>1, <2>3 DEF ConsumerInv, LifeInv, Targeting
<1>5. QED
  BY <1>1, <1>2, <1>3, <1>4 DEF CQ!Start, CQ!Queued

LEMMA ProducerMaps ==
  ASSUME QueueInv, NEW m \in Msg, Producer(m)
  PROVE  CQ!Accept(m) \/ CQ!Refuse(m) \/ UNCHANGED histVars
<1>1. stage[m] = "new"
  BY ProducerCases DEF QueueInv, CallInv
<1>2. CASE \E to \in {"exitChecked", "threadChecked", "blocked"} : Step(m, to)
  BY <1>2 DEF Step
<1>3. CASE \E r \in {"false", "throw"} : Refuse(m, r)
  BY <1>1, <1>3 DEF Refuse, CQ!Refuse
<1>4. CASE Push(m)
  BY <1>1, <1>4 DEF Push, CQ!Accept
<1>5. CASE UNCHANGED <<callVars, queueVars, proc, histVars>>
  BY <1>5
<1>6. QED
  BY <1>2, <1>3, <1>4, <1>5, ProducerCases

LEMMA CleanupMaps ==
  ASSUME QueueInv, Cleanup,
         Empty \/ \E g \in Gen : proc[g] = "exiting"
  PROVE  CQ!Discard \/ UNCHANGED histVars
<1> USE DEF QueueInv
<1>1. UNCHANGED <<ticket, tickets>>
      /\ stage' = [m \in Msg |-> IF stage[m] = "queued" THEN "discarded" ELSE stage[m]]
  BY DEF Cleanup
<1>2. CASE CQ!Queued = {}
  <2>1. stage' = stage
    BY <1>1, <1>2 DEF CQ!Queued, TypeInv, HistoryType
  <2>2. QED
    BY <1>1, <2>1 DEF histVars
<1>3. CASE CQ!Queued # {}
  <2>1. ~Empty
    BY <1>3 DEF CQ!Queued, PlaceInv, At, Empty
  <2>2. PICK g \in Gen : proc[g] = "exiting"
    BY <2>1
  <2>3. current[g] \in CQ!Running \cap SelfExitMsg
    BY <2>2 DEF RunInv, Targeting, ConsumerInv, CQ!Running
  <2>4. stage' = [m \in Msg |-> IF m \in CQ!Queued THEN "discarded" ELSE stage[m]]
    BY <1>1 DEF CQ!Queued
  <2>5. QED
    BY <1>1, <1>3, <2>3, <2>4 DEF CQ!Discard
<1>4. QED
  BY <1>2, <1>3

LEMMA StepMaps ==
  ASSUME QueueInv, [Next]_vars
  PROVE  [CQ!Next]_CQ!vars
<1> USE DEF histVars, CQ!vars
<1>1. CASE \E m \in Msg : Producer(m)
  BY <1>1, ProducerMaps DEF CQ!Next
<1>2. CASE \E g \in Gen : Idle(g) \/ Heartbeat(g)
  BY <1>2 DEF Idle, Heartbeat
<1>3. ASSUME NEW g \in Gen, TargetReturns(g)
      PROVE  [CQ!Next]_CQ!vars
  <2>1. current[g] \in CQ!Running
    BY <1>3 DEF TargetReturns, QueueInv, RunInv, Targeting, CQ!Running
  <2>2. CQ!Finish(current[g]) \/ UNCHANGED histVars
    BY <1>3, <2>1 DEF TargetReturns, CQ!Finish
  <2>3. QED
    BY <2>1, <2>2 DEF CQ!Next, CQ!Running
<1>4. ASSUME NEW g \in Gen, Pop(g)
      PROVE  [CQ!Next]_CQ!vars
  <2>1. CASE Popped = ExitMsg
    BY <1>4, <2>1, PopEffect DEF Pop, QueueInv, TypeInv
  <2>2. CASE Popped # ExitMsg
    <3>1. CQ!Start(Popped) /\ Popped \in Msg
      BY <1>4, <2>2, StartIsNext, OrderPop DEF QueueInv
    <3>2. QED
      BY <3>1 DEF CQ!Next
  <2>3. QED
    BY <2>1, <2>2
<1>5. CASE \E g \in Gen : SelfExit(g)
  BY <1>5 DEF SelfExit, RequestExit
<1>6. CASE \E g \in Gen : SelfExitCleanup(g)
  BY <1>6, CleanupMaps DEF SelfExitCleanup, CQ!Next
<1>7. CASE CreateBegin \/ CreateSpawn \/ OwnerExit
  BY <1>7 DEF CreateBegin, CreateSpawn, OwnerExit, RequestExit
<1>8. CASE OwnerJoined
  <2>1. Empty
    BY <1>8 DEF OwnerJoined, QueueInv, ExitInv
  <2>2. QED
    BY <1>8, <2>1, CleanupMaps DEF OwnerJoined, CQ!Next
<1>9. CASE UNCHANGED vars
  BY <1>9 DEF vars
<1>10. QED
  BY <1>1, <1>2, <1>3, <1>4, <1>5, <1>6, <1>7, <1>8, <1>9, Steps

(***************************************************************************)
(* DispatchDelegate, Process, CreateThread and ExitThread, with every      *)
(* interleaving of their locked sections, keep the promise of a serialized *)
(* command processor: urgent messages first, acceptance order within a     *)
(* priority, one target at a time, each accepted message run once, and     *)
(* nothing thrown away but by a callback that calls ExitThread.            *)
(***************************************************************************)
THEOREM ThreadIsCommandQueue == Spec => ImplementsCommandQueue
<1>1. Init => CQ!Init
  BY DEF Init, CQ!Init
<1>2. QueueInv /\ [Next]_vars => [CQ!Next]_CQ!vars
  BY StepMaps
<1>3. QED
  BY <1>1, <1>2, QueueInvariant, PTL DEF Spec, ImplementsCommandQueue, CQ!Spec

-----------------------------------------------------------------------------
(***************************************************************************)
(* What the refinement brings: the consequences proved of CommandQueue     *)
(* hold of the thread.                                                     *)
(***************************************************************************)
CQP == INSTANCE CommandQueue_proofs

LEMMA SamePromises == CQ!Spec => CQP!Spec
<1>1. CQ!Init => CQP!Init
  BY DEF CQ!Init, CQP!Init
<1>2. [CQ!Next]_CQ!vars => [CQP!Next]_CQP!vars
  BY DEF CQ!Next, CQP!Next, CQ!vars, CQP!vars, CQ!Accept, CQP!Accept, CQ!Refuse, CQP!Refuse,
         CQ!Start, CQP!Start, CQ!Finish, CQP!Finish, CQ!Discard, CQP!Discard,
         CQ!Queued, CQP!Queued, CQ!Running, CQP!Running, CQ!Precedes, CQP!Precedes
<1>3. QED
  BY <1>1, <1>2, PTL DEF CQ!Spec, CQP!Spec

(***************************************************************************)
(* Thread.cpp:274-303, 410-422: no callback starts while a message that    *)
(* was accepted earlier and is as urgent waits, across restarts too; one   *)
(* callback runs at a time, next to those that are still returning from    *)
(* their own ExitThread; and only such a callback has messages thrown      *)
(* away, none of which it has overtaken.                                   *)
(***************************************************************************)
THEOREM ThreadKeepsOrder ==
  Spec => [](CQP!StartsInOrder /\ CQP!OneAtATime /\ CQP!DiscardedByExit)
  BY ThreadIsCommandQueue, SamePromises, CQP!PromisedOrder, PTL DEF ImplementsCommandQueue

(***************************************************************************)
(* Thread.cpp:410-422, 222-231: the thread calls the target of a message   *)
(* at most once, and never that of a message it refused or threw away.     *)
(***************************************************************************)
THEOREM TargetRunsOnce ==
  ASSUME NEW m \in Msg
  PROVE  Spec => /\ [](CQP!Started(m) => []CQP!Started(m))
                 /\ [](stage[m] = "done" => [](stage[m] = "done"))
                 /\ [](stage[m] \in {"refused", "discarded"} => []~CQP!Started(m))
  BY ThreadIsCommandQueue, SamePromises, CQP!AtMostOnce, PTL DEF ImplementsCommandQueue

(***************************************************************************)
(* ExitThread by the owner is a drain: when join() can return, every       *)
(* message that was ever accepted has been run to its end.                 *)
(***************************************************************************)
ExitDrains ==
  ownerPc = "joining" /\ proc[m_thread] = "ended" =>
    \A m \in Msg : stage[m] \in {"new", "refused", "done"}

LEMMA DrainMeans ==
  ASSUME QueueInv, CQP!DiscardedByExit
  PROVE  ExitDrains
<1> USE DEF QueueInv
<1> SUFFICES ASSUME ownerPc = "joining", proc[m_thread] = "ended", NEW m \in Msg
             PROVE  stage[m] \in {"new", "refused", "done"}
  BY DEF ExitDrains
<1>1. SelfExitMsg = {}
  BY ThreadAssumption DEF ConsumerInv
<1>2. stage[m] # "discarded"
  BY <1>1 DEF CQP!DiscardedByExit
<1>3. stage[m] # "queued"
  <2>1. highQueue = <<>> /\ normalQueue = <<>>
    BY DEF ExitInv, Empty
  <2>2. QED
    BY <2>1 DEF PlaceInv, At
<1>4. stage[m] # "running"
  <2>1. SUFFICES ASSUME NEW g \in Gen, Targeting(g)
                 PROVE  FALSE
    BY DEF RunInv
  <2>2. proc[g] = "invoke" /\ ~selfExit[g]
    BY <1>1, <2>1 DEF Targeting, LifeInv, ConsumerInv, TypeInv, ProcType
  <2>3. g = m_thread
    BY <2>2 DEF ConsumerInv, Holder
  <2>4. QED
    BY <2>2, <2>3
<1>5. QED
  BY <1>2, <1>3, <1>4 DEF TypeInv, HistoryType

(***************************************************************************)
(* Thread.cpp:177-231: after an ExitThread of the owner nothing accepted   *)
(* is lost, whatever producers raced with it and whatever was queued.      *)
(***************************************************************************)
THEOREM OwnerExitDrains == Spec => []ExitDrains
<1>1. QueueInv /\ CQP!DiscardedByExit => ExitDrains
  BY DrainMeans
<1>2. QED
  BY <1>1, QueueInvariant, ThreadKeepsOrder, PTL
=============================================================================
