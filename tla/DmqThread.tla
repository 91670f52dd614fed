----------------------------- MODULE DmqThread ------------------------------
(***************************************************************************)
(* dmq::os::Thread of DelegateMQ/port/os/stdlib: a worker thread with a    *)
(* two-level message queue, producers that call DispatchDelegate, and an   *)
(* owner that calls CreateThread and ExitThread.                           *)
(*                                                                         *)
(* Granularity.  What runs under m_mutex is one step; the unlocked reads   *)
(* of m_exit and m_thread are steps of their own.  Waiting on a condition  *)
(* variable is explicit: a waiter is asleep until a notify (or a spurious  *)
(* wake-up) lets it look at its predicate again.                           *)
(***************************************************************************)
EXTENDS Naturals, Sequences, FiniteSets

CONSTANTS
  Msg,           \* the calls of DispatchDelegate, each with its own message
  HighMsg,       \* those whose delegate has Priority::HIGH
  SelfExitMsg,   \* those whose target calls ExitThread on this very thread
  ThrowMsg,      \* those whose target lets an exception escape
  MaxQueueSize,  \* MAX_QUEUE_SIZE, 0 means unlimited
  FullPolicies,  \* the values of FULL_POLICY the instance covers
  OwnerExits,    \* does the owner call ExitThread?
  MaxCreate,     \* bound on the number of CreateThread calls
  ExitMsg        \* MSG_EXIT_THREAD

ASSUME ThreadAssumption ==
  /\ HighMsg \subseteq Msg
  /\ SelfExitMsg \subseteq Msg
  /\ ThrowMsg \subseteq Msg
  /\ IsFiniteSet(Msg)
  /\ MaxQueueSize \in Nat
  /\ FullPolicies \subseteq {"DROP", "FAULT", "TIMEOUT"}
  /\ OwnerExits \in BOOLEAN
  /\ MaxCreate \in Nat \ {0}
  /\ ExitMsg \notin Msg
  \* joining and detaching the same std::thread from two threads is undefined
  \* behaviour that no caller of this repository exhibits
  /\ OwnerExits => SelfExitMsg = {}

Gen == 1 .. MaxCreate      \* successive std::thread objects of one Thread

VARIABLES
  policy,        \* FULL_POLICY, fixed by the constructor
  m_thread,      \* the generation m_thread holds, 0 when it is nullopt
  m_exit,
  highQueue, normalQueue,
  pc,            \* how far each DispatchDelegate call has got
  result,        \* what it returned
  ownerPc,       \* the owner's progress in CreateThread or ExitThread
  created,       \* number of generations started so far
  proc,          \* state of Process() of each generation
  current,       \* the message that generation is handling
  selfExit,      \* the flag on the stack of Process()
  faulted,       \* FaultHandler has aborted the program
  stage, ticket, tickets   \* history: see CommandQueue

queueVars == <<highQueue, normalQueue>>
callVars == <<pc, result>>
histVars == <<stage, ticket, tickets>>
vars == <<policy, m_thread, m_exit, highQueue, normalQueue, pc, result, ownerPc,
          created, proc, current, selfExit, faulted, stage, ticket, tickets>>

Size == Len(highQueue) + Len(normalQueue)
Full == MaxQueueSize > 0 /\ Size >= MaxQueueSize
Blocked == {m \in Msg : pc[m] = "blocked"}

Init ==
  /\ policy \in FullPolicies
  /\ m_thread = 0
  /\ m_exit = FALSE
  /\ highQueue = <<>> /\ normalQueue = <<>>
  /\ pc = [m \in Msg |-> "idle"]
  /\ result = [m \in Msg |-> "none"]
  /\ ownerPc = "idle"
  /\ created = 0
  /\ proc = [g \in Gen |-> "none"]
  /\ current = [g \in Gen |-> ExitMsg]
  /\ selfExit = [g \in Gen |-> FALSE]
  /\ faulted = FALSE
  /\ stage = [m \in Msg |-> "new"]
  /\ ticket = [m \in Msg |-> 0]
  /\ tickets = 0

-----------------------------------------------------------------------------
\* Condition variables.

\* Mutants: a notify that is forgotten.
NoWorkerWoken == proc
NoProducerWoken == {pc}
NoProducersWoken == pc

\* m_cv.notify_one(): the worker asleep on it, if any, looks again.
WakeWorker == [g \in Gen |-> IF proc[g] = "asleep" THEN "loop" ELSE proc[g]]

\* m_cvNotFull.notify_all()
WakeAllProducers == [m \in Msg |-> IF m \in Blocked THEN "notified" ELSE pc[m]]

\* m_cvNotFull.notify_one()
WakeOneProducer ==
  IF Blocked = {} THEN {pc}
  ELSE {[pc EXCEPT ![m] = "notified"] : m \in Blocked}

-----------------------------------------------------------------------------
\* DispatchDelegate, called by any thread.

Return(m, r) ==
  /\ pc' = [pc EXCEPT ![m] = "done"]
  /\ result' = [result EXCEPT ![m] = r]

Refuse(m, r) ==
  /\ Return(m, r)
  /\ stage' = [stage EXCEPT ![m] = "refused"]
  /\ UNCHANGED <<queueVars, proc, ticket, tickets>>

\* the unlocked test of m_exit
CheckExit(m) ==
  /\ pc[m] = "idle"
  /\ IF m_exit
       THEN Refuse(m, "false")
       ELSE /\ pc' = [pc EXCEPT ![m] = "exitChecked"]
            /\ UNCHANGED <<result, queueVars, proc, histVars>>
  /\ UNCHANGED <<m_thread, m_exit, ownerPc, created, current, selfExit, faulted>>

\* the unlocked test of m_thread
CheckThread(m) ==
  /\ pc[m] = "exitChecked"
  /\ IF m_thread = 0
       THEN Refuse(m, "throw")
       ELSE /\ pc' = [pc EXCEPT ![m] = "threadChecked"]
            /\ UNCHANGED <<result, queueVars, proc, histVars>>
  /\ UNCHANGED <<m_thread, m_exit, ownerPc, created, current, selfExit, faulted>>

\* Mutant: m_exit is not tested again under the lock.
PushAnyway(m) ==
  /\ normalQueue' = Append(normalQueue, m)
  /\ proc' = WakeWorker
  /\ Return(m, "true")
  /\ stage' = [stage EXCEPT ![m] = "queued"]
  /\ tickets' = tickets + 1
  /\ ticket' = [ticket EXCEPT ![m] = tickets + 1]
  /\ UNCHANGED highQueue

\* the rest of the locked section once there is room
PushOrAbort(m) ==
  IF m_exit
    THEN Refuse(m, "false")
    ELSE /\ IF m \in HighMsg
              THEN highQueue' = Append(highQueue, m) /\ UNCHANGED normalQueue
              ELSE normalQueue' = Append(normalQueue, m) /\ UNCHANGED highQueue
         /\ proc' = WakeWorker
         /\ Return(m, "true")
         /\ stage' = [stage EXCEPT ![m] = "queued"]
         /\ tickets' = tickets + 1
         /\ ticket' = [ticket EXCEPT ![m] = tickets + 1]

\* Mutant: the default policy drops silently.
DropsByDefault(m) == Refuse(m, "false") /\ UNCHANGED faulted

\* the three policies for a full queue; TIMEOUT first tests its predicate
\* (which m_exit satisfies) and otherwise goes to sleep on m_cvNotFull
OnFull(m) ==
  \/ /\ policy = "DROP"
     /\ Refuse(m, "false")
     /\ UNCHANGED faulted
  \/ /\ policy = "FAULT"
     /\ faulted' = TRUE
     /\ UNCHANGED <<callVars, queueVars, proc, histVars>>
  \/ /\ policy = "TIMEOUT"
     /\ IF m_exit
          THEN PushOrAbort(m)
          ELSE /\ pc' = [pc EXCEPT ![m] = "blocked"]
               /\ UNCHANGED <<result, queueVars, proc, histVars>>
     /\ UNCHANGED faulted

\* the locked section, up to the wait on m_cvNotFull
Enqueue(m) ==
  /\ pc[m] = "threadChecked"
  /\ IF Full THEN OnFull(m) ELSE PushOrAbort(m) /\ UNCHANGED faulted
  /\ UNCHANGED <<m_thread, m_exit, ownerPc, created, current, selfExit>>

\* Mutant: <= for <.
HasSpaceOffByOne == Size <= MaxQueueSize \/ m_exit

\* the predicate of m_cvNotFull.wait_for
HasSpace == Size < MaxQueueSize \/ m_exit

\* a notified producer has the lock back and tests the predicate
Recheck(m) ==
  /\ pc[m] = "notified"
  /\ IF HasSpace
       THEN PushOrAbort(m)
       ELSE /\ pc' = [pc EXCEPT ![m] = "blocked"]
            /\ UNCHANGED <<result, queueVars, proc, histVars>>
  /\ UNCHANGED <<m_thread, m_exit, ownerPc, created, current, selfExit, faulted>>

\* m_dispatchTimeout expires; wait_for returns the predicate
DispatchTimeout(m) ==
  /\ pc[m] \in {"blocked", "notified"}
  /\ IF HasSpace THEN PushOrAbort(m) ELSE Refuse(m, "false")
  /\ UNCHANGED <<m_thread, m_exit, ownerPc, created, current, selfExit, faulted>>

-----------------------------------------------------------------------------
\* CreateThread and ExitThread, called by the owner.

\* m_exit = false precedes the construction of the std::thread
CreateBegin ==
  /\ ownerPc = "idle"
  /\ m_thread = 0
  /\ created < MaxCreate
  /\ m_exit' = FALSE
  /\ ownerPc' = "creating"
  /\ UNCHANGED <<m_thread, queueVars, callVars, created, proc, current,
                 selfExit, faulted, histVars>>

\* std::thread(&Thread::Process, this) and the start handshake
CreateSpawn ==
  /\ ownerPc = "creating"
  /\ created' = created + 1
  /\ m_thread' = created + 1
  /\ proc' = [proc EXCEPT ![created + 1] = "loop"]
  /\ ownerPc' = "idle"
  /\ UNCHANGED <<m_exit, queueVars, callVars, current, selfExit, faulted, histVars>>

\* Mutant: the exit message goes to the urgent queue.
RequestExitFirst ==
  /\ m_exit' = TRUE
  /\ highQueue' = Append(highQueue, ExitMsg)
  /\ pc' = WakeAllProducers
  /\ UNCHANGED <<m_thread, normalQueue, result, created, current, selfExit,
                 faulted, histVars>>

\* the first locked section of ExitThread, whoever calls it
RequestExit ==
  /\ m_exit' = TRUE
  /\ normalQueue' = Append(normalQueue, ExitMsg)
  /\ pc' = WakeAllProducers
  /\ UNCHANGED <<m_thread, highQueue, result, created, current, selfExit,
                 faulted, histVars>>

\* the last locked section: m_thread.reset(), clear() on both queues
Cleanup ==
  /\ m_thread' = 0
  /\ highQueue' = <<>> /\ normalQueue' = <<>>
  /\ pc' = WakeAllProducers
  /\ stage' = [m \in Msg |-> IF stage[m] = "queued" THEN "discarded" ELSE stage[m]]
  /\ UNCHANGED <<m_exit, result, created, current, faulted, ticket, tickets>>

OwnerExit ==
  /\ OwnerExits
  /\ ownerPc = "idle"
  /\ m_thread # 0
  /\ RequestExit
  /\ proc' = WakeWorker
  /\ ownerPc' = "joining"

\* join() returns once Process() has
OwnerJoined ==
  /\ ownerPc = "joining"
  /\ proc[m_thread] = "ended"
  /\ Cleanup
  /\ ownerPc' = "idle"
  /\ UNCHANGED <<proc, selfExit>>

-----------------------------------------------------------------------------
\* Process, run by generation g.

Empty == highQueue = <<>> /\ normalQueue = <<>>

\* wait() finds its predicate false, or the thread is told to go
Idle(g) ==
  /\ proc[g] = "loop"
  /\ Empty
  /\ proc' = [proc EXCEPT ![g] = IF m_exit THEN "ended" ELSE "asleep"]
  /\ UNCHANGED <<m_thread, m_exit, queueVars, callVars, ownerPc, created,
                 current, selfExit, faulted, histVars>>

\* a spurious wake-up, or the heartbeat wake-up of a watched thread
Heartbeat(g) ==
  /\ proc[g] = "asleep"
  /\ proc' = [proc EXCEPT ![g] = "loop"]
  /\ UNCHANGED <<m_thread, m_exit, queueVars, callVars, ownerPc, created,
                 current, selfExit, faulted, histVars>>

\* Take the next message, tell one producer about the room, act on the id.
Pop(g) ==
  /\ proc[g] = "loop"
  /\ ~Empty
  /\ LET high == highQueue # <<>>
         msg == IF high THEN Head(highQueue) ELSE Head(normalQueue)
     IN /\ highQueue' = IF high THEN Tail(highQueue) ELSE highQueue
        /\ normalQueue' = IF high THEN normalQueue ELSE Tail(normalQueue)
        /\ current' = [current EXCEPT ![g] = msg]
        /\ IF msg = ExitMsg
             THEN /\ proc' = [proc EXCEPT ![g] = "ended"]
                  /\ UNCHANGED stage
             ELSE /\ proc' = [proc EXCEPT ![g] = "invoke"]
                  /\ stage' = [stage EXCEPT ![msg] = "running"]
  /\ IF MaxQueueSize > 0 THEN pc' \in WakeOneProducer ELSE UNCHANGED pc
  /\ UNCHANGED <<m_thread, m_exit, result, ownerPc, created, selfExit, faulted,
                 ticket, tickets>>

\* the target calls ExitThread on its own thread
SelfExit(g) ==
  /\ proc[g] = "invoke"
  /\ current[g] \in SelfExitMsg
  /\ ~selfExit[g]
  /\ m_thread # 0
  /\ RequestExit
  /\ proc' = [WakeWorker EXCEPT ![g] = "exiting"]
  /\ UNCHANGED ownerPc

\* detach(), *t_self_exit = true, and the clean-up
SelfExitCleanup(g) ==
  /\ proc[g] = "exiting"
  /\ selfExit' = [selfExit EXCEPT ![g] = TRUE]
  /\ Cleanup
  /\ proc' = [proc EXCEPT ![g] = "invoke"]
  /\ UNCHANGED ownerPc

\* Mutant: Process does not look at selfExit after the callback.
TargetReturnsToLoop(g) ==
  /\ proc[g] = "invoke"
  /\ current[g] \in SelfExitMsg => selfExit[g]
  /\ proc' = [proc EXCEPT ![g] = "loop"]
  /\ stage' = [stage EXCEPT ![current[g]] = "done"]
  /\ UNCHANGED <<m_thread, m_exit, queueVars, callVars, ownerPc, created,
                 current, selfExit, faulted, ticket, tickets>>

\* The target returns: back to the loop, or out of Process for good.  One
\* that threw ends the program.
TargetReturns(g) ==
  /\ proc[g] = "invoke"
  /\ current[g] \in SelfExitMsg => selfExit[g]
  /\ IF current[g] \in ThrowMsg
       THEN faulted' = TRUE /\ UNCHANGED <<proc, stage>>
       ELSE /\ proc' = [proc EXCEPT ![g] = IF selfExit[g] THEN "ended" ELSE "loop"]
            /\ stage' = [stage EXCEPT ![current[g]] = "done"]
            /\ UNCHANGED faulted
  /\ UNCHANGED <<m_thread, m_exit, queueVars, callVars, ownerPc, created,
                 current, selfExit, ticket, tickets>>

-----------------------------------------------------------------------------
Dispatch(m) ==
  /\ CheckExit(m) \/ CheckThread(m) \/ Enqueue(m) \/ Recheck(m)
  /\ UNCHANGED policy
Process(g) ==
  /\ Idle(g) \/ Pop(g) \/ SelfExit(g) \/ SelfExitCleanup(g) \/ TargetReturns(g)
  /\ UNCHANGED policy
Owner ==
  /\ CreateBegin \/ CreateSpawn \/ OwnerExit \/ OwnerJoined
  /\ UNCHANGED policy

\* what happens by chance or not at all
Chance ==
  /\ \/ \E m \in Msg : DispatchTimeout(m)
     \/ \E g \in Gen : Heartbeat(g)
  /\ UNCHANGED policy

Next ==
  /\ ~faulted
  /\ \/ \E m \in Msg : Dispatch(m)
     \/ \E g \in Gen : Process(g)
     \/ Owner
     \/ Chance

\* A thread that can run is scheduled, and targets return.  Nobody is obliged
\* to call, no timeout has to expire, no wake-up has to be spurious.
Fairness ==
  /\ \A m \in Msg : WF_vars(~faulted /\ pc[m] # "idle" /\ Dispatch(m))
  /\ \A g \in Gen : WF_vars(~faulted /\ Process(g))
  /\ WF_vars(~faulted /\ ownerPc # "idle" /\ Owner)

Spec == Init /\ [][Next]_vars
FairSpec == Spec /\ Fairness

-----------------------------------------------------------------------------
TypeOK ==
  /\ policy \in FullPolicies
  /\ m_thread \in 0 .. MaxCreate
  /\ m_exit \in BOOLEAN
  /\ highQueue \in Seq(HighMsg)
  /\ normalQueue \in Seq((Msg \ HighMsg) \cup {ExitMsg})
  /\ pc \in [Msg -> {"idle", "exitChecked", "threadChecked", "blocked",
                     "notified", "done"}]
  /\ result \in [Msg -> {"none", "true", "false", "throw"}]
  /\ ownerPc \in {"idle", "creating", "joining"}
  /\ created \in 0 .. MaxCreate
  /\ proc \in [Gen -> {"none", "loop", "asleep", "invoke", "exiting", "ended"}]
  /\ current \in [Gen -> Msg \cup {ExitMsg}]
  /\ selfExit \in [Gen -> BOOLEAN]
  /\ faulted \in BOOLEAN
  /\ stage \in [Msg -> {"new", "refused", "queued", "running", "done", "discarded"}]
  /\ ticket \in [Msg -> Nat]
  /\ tickets \in Nat

(***************************************************************************)
(* A bounded queue never holds more than MAX_QUEUE_SIZE delegates, however *)
(* producers that slept on m_cvNotFull and producers that just arrived     *)
(* race for the room; only the exit message may exceed the bound.          *)
(***************************************************************************)
QueueBound ==
  MaxQueueSize > 0 => Cardinality({m \in Msg : stage[m] = "queued"}) <= MaxQueueSize

(***************************************************************************)
(* After a restart the Process() of the old std::thread, still unwinding   *)
(* from the callback that called ExitThread, never takes a message that    *)
(* belongs to the new one: whoever is at the queue is the thread m_thread  *)
(* holds.                                                                  *)
(***************************************************************************)
SingleConsumer == \A g \in Gen : proc[g] \in {"loop", "asleep"} => g = m_thread

(***************************************************************************)
(* Nobody waits in vain.  The worker does not sleep on a non-empty queue;  *)
(* producers do not all sleep while there is room and none of them has     *)
(* been told, and none sleeps through an exit; a message in the queue, be  *)
(* it of a producer that read m_thread before a restart, has a worker that *)
(* is alive, or one being created; and an owner in join() waits for a      *)
(* worker that has ended or has the exit message still before it.          *)
(***************************************************************************)
NobodyWaitsInVain ==
  /\ \A g \in Gen : proc[g] = "asleep" => Empty /\ ~m_exit
  /\ Blocked # {} /\ ~Full => \E m \in Msg : pc[m] = "notified"
  /\ m_exit => Blocked = {}
  /\ ~Empty => \/ ownerPc = "creating"
               \/ m_thread # 0 /\ proc[m_thread] \in {"loop", "invoke", "exiting"}
  /\ ownerPc = "joining" =>
       \/ proc[m_thread] = "ended"
       \/ /\ proc[m_thread] \in {"loop", "invoke"}
          /\ normalQueue # <<>> /\ normalQueue[Len(normalQueue)] = ExitMsg

(***************************************************************************)
(* With FullPolicy::FAULT, and with an unlimited queue, nothing is dropped *)
(* silently, across restarts too: DispatchDelegate answers false only      *)
(* between a call of ExitThread and the next CreateThread.  That is what   *)
(* makes the default policy safe for commands.                             *)
(***************************************************************************)
NoSilentDrop ==
  [][policy = "FAULT" \/ MaxQueueSize = 0 =>
       \A m \in Msg : result[m] = "none" /\ result'[m] = "false" => m_exit]_vars

(***************************************************************************)
(* The thread implements the abstract command queue: FIFO within a         *)
(* priority, urgent messages first, each message run at most once, a       *)
(* message accepted before ExitThread of the owner is always run, and only *)
(* an exit from inside a callback discards messages.                       *)
(***************************************************************************)
CQ == INSTANCE CommandQueue
ImplementsCommandQueue == CQ!Spec

(***************************************************************************)
(* ExitThread returns: the exit message reaches the worker behind all      *)
(* accepted work even when the queue is full, and join() is not stuck.     *)
(***************************************************************************)
ExitCompletes == ownerPc = "joining" ~> ownerPc = "idle" \/ faulted

(***************************************************************************)
(* A producer asleep on m_cvNotFull gets an answer from the progress of    *)
(* the worker or from its exit, without its timeout having to expire.      *)
(***************************************************************************)
ProducerReleased == \A m \in Msg : pc[m] = "blocked" ~> pc[m] = "done" \/ faulted

(***************************************************************************)
(* An accepted message is run, or discarded by a self-exit, or the program *)
(* aborts: it is never left in the queue of a live worker.                 *)
(***************************************************************************)
AcceptedServed ==
  \A m \in Msg : stage[m] = "queued" ~> stage[m] \in {"done", "discarded"} \/ faulted
=============================================================================
