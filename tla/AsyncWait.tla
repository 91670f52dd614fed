----------------------------- MODULE AsyncWait ------------------------------
(***************************************************************************)
(* The blocking delegate: DelegateFreeAsyncWait::operator() on the calling *)
(* thread, Invoke() on the worker, and the message they share, with its    *)
(* mutex m_lock, semaphore m_sema and flags.  The message queue is the     *)
(* FIFO that DmqThread implements for messages of one priority.            *)
(*                                                                         *)
(* Granularity.  The caller's use of m_lock is one step, since it does     *)
(* not wait inside.  The worker holds m_lock for as long as the target     *)
(* runs, so lock and unlock are steps of their own there.                  *)
(***************************************************************************)
EXTENDS Naturals, Sequences

CONSTANTS
  Call,          \* one blocking call each
  MayTimeout,    \* the calls whose timeout is short enough to expire
  ThrowCall,     \* the calls whose target throws
  SelfExitCall,  \* the calls whose target calls ExitThread on the worker
  MaxQueueSize,  \* bound of the worker's queue (FullPolicy::DROP), 0: none
  NoCall         \* the worker has handled no message yet

ASSUME AsyncWaitAssumption ==
  /\ MayTimeout \subseteq Call
  /\ ThrowCall \subseteq Call
  /\ SelfExitCall \subseteq Call
  /\ MaxQueueSize \in Nat
  /\ NoCall \notin Call

VARIABLES
  pc,               \* progress of operator() in each calling thread
  outcome,          \* what AsyncInvoke returned: an optional with or without value
  invokerWaiting,   \* m_invokerWaiting
  invokeSucceeded,  \* m_invokeSucceeded
  signaled,         \* m_sema.m_signaled
  locked,           \* is m_lock held by the worker?
  queue,            \* messages accepted by DispatchDelegate
  accepting,        \* does DispatchDelegate still accept?
  worker,           \* where the worker is in Process() and Invoke()
  cur,              \* the call whose message it handles
  runs,             \* history: how often each target was entered
  faulted           \* an exception left Invoke() and the program was aborted

callerVars == <<pc, outcome>>
workerVars == <<worker, cur>>
vars == <<pc, outcome, invokerWaiting, invokeSucceeded, signaled, locked, queue,
          accepting, worker, cur, runs, faulted>>

Init ==
  /\ pc = [c \in Call |-> "idle"]
  /\ outcome = [c \in Call |-> "none"]
  /\ invokerWaiting = [c \in Call |-> FALSE]
  /\ invokeSucceeded = [c \in Call |-> FALSE]
  /\ signaled = [c \in Call |-> FALSE]
  /\ locked = [c \in Call |-> FALSE]
  /\ queue = <<>>
  /\ accepting = TRUE
  /\ worker = "idle"
  /\ cur = NoCall
  /\ runs = [c \in Call |-> 0]
  /\ faulted = FALSE

-----------------------------------------------------------------------------
\* operator(), on the calling thread.

\* clone the delegate, build the message, SetInvokerWaiting(true)
Begin(c) ==
  /\ pc[c] = "idle"
  /\ pc' = [pc EXCEPT ![c] = "dispatch"]
  /\ invokerWaiting' = [invokerWaiting EXCEPT ![c] = TRUE]
  /\ UNCHANGED <<outcome, invokeSucceeded, signaled, locked, queue, accepting,
                 workerVars, runs, faulted>>

\* DispatchDelegate returns true
Dispatch(c) ==
  /\ pc[c] = "dispatch"
  /\ accepting
  /\ MaxQueueSize > 0 => Len(queue) < MaxQueueSize
  /\ queue' = Append(queue, c)
  /\ pc' = [pc EXCEPT ![c] = "waiting"]
  /\ UNCHANGED <<outcome, invokerWaiting, invokeSucceeded, signaled, locked,
                 accepting, workerVars, runs, faulted>>

\* DispatchDelegate returns false: waited stays false
DispatchRefused(c) ==
  /\ pc[c] = "dispatch"
  /\ ~accepting \/ (MaxQueueSize > 0 /\ Len(queue) >= MaxQueueSize)
  /\ pc' = [pc EXCEPT ![c] = "unserved"]
  /\ UNCHANGED <<outcome, invokerWaiting, invokeSucceeded, signaled, locked,
                 queue, accepting, workerVars, runs, faulted>>

\* Semaphore::Wait finds the semaphore signalled
WaitSignaled(c) ==
  /\ pc[c] = "waiting"
  /\ signaled[c]
  /\ signaled' = [signaled EXCEPT ![c] = FALSE]
  /\ pc' = [pc EXCEPT ![c] = "served"]
  /\ UNCHANGED <<outcome, invokerWaiting, invokeSucceeded, locked, queue,
                 accepting, workerVars, runs, faulted>>

\* Semaphore::Wait times out; wait_for tests m_signaled a last time
WaitTimeout(c) ==
  /\ pc[c] = "waiting"
  /\ c \in MayTimeout
  /\ ~signaled[c]
  /\ pc' = [pc EXCEPT ![c] = "unserved"]
  /\ UNCHANGED <<outcome, invokerWaiting, invokeSucceeded, signaled, locked,
                 queue, accepting, workerVars, runs, faulted>>

\* Mutant: the result is read without taking the message lock.
LeaveUnlocked(c) ==
  /\ pc[c] \in {"served", "unserved"}
  /\ outcome' = [outcome EXCEPT ![c] =
       IF pc[c] = "served" /\ invokeSucceeded[c] THEN "value" ELSE "busy"]
  /\ invokerWaiting' = [invokerWaiting EXCEPT ![c] = FALSE]
  /\ pc' = [pc EXCEPT ![c] = "returned"]
  /\ UNCHANGED <<invokeSucceeded, signaled, locked, queue, accepting,
                 workerVars, runs, faulted>>

\* the single locked section: read the result, clear the flag, return
Leave(c) ==
  /\ pc[c] \in {"served", "unserved"}
  /\ ~locked[c]
  /\ outcome' = [outcome EXCEPT ![c] =
       IF pc[c] = "served" /\ invokeSucceeded[c] THEN "value" ELSE "busy"]
  /\ invokerWaiting' = [invokerWaiting EXCEPT ![c] = FALSE]
  /\ pc' = [pc EXCEPT ![c] = "returned"]
  /\ UNCHANGED <<invokeSucceeded, signaled, locked, queue, accepting,
                 workerVars, runs, faulted>>

-----------------------------------------------------------------------------
\* Process() and Invoke(), on the worker thread.

\* Mutants: the message is not popped; the message handled is a stale one.
PopKeepsMessage ==
  /\ worker = "idle"
  /\ queue # <<>>
  /\ cur' = Head(queue)
  /\ worker' = "invoke"
  /\ UNCHANGED <<callerVars, invokerWaiting, invokeSucceeded, signaled, locked,
                 queue, accepting, runs, faulted>>
PopStale ==
  /\ worker = "idle"
  /\ queue # <<>>
  /\ queue' = Tail(queue)
  /\ worker' = "invoke"
  /\ UNCHANGED <<callerVars, invokerWaiting, invokeSucceeded, signaled, locked,
                 accepting, cur, runs, faulted>>

\* Process() takes the next message
Pop ==
  /\ worker = "idle"
  /\ queue # <<>>
  /\ cur' = Head(queue)
  /\ queue' = Tail(queue)
  /\ worker' = "invoke"
  /\ UNCHANGED <<callerVars, invokerWaiting, invokeSucceeded, signaled, locked,
                 accepting, runs, faulted>>

\* Mutant: Invoke does not ask whether the caller still waits.
InvokeAnyway ==
  /\ worker = "invoke"
  /\ locked' = [locked EXCEPT ![cur] = TRUE]
  /\ runs' = [runs EXCEPT ![cur] = @ + 1]
  /\ worker' = "target"
  /\ UNCHANGED <<callerVars, invokerWaiting, invokeSucceeded, signaled, queue,
                 accepting, cur, faulted>>

\* Mutant: the caller is signalled before the target has run.
InvokeSignalsFirst ==
  /\ worker = "invoke"
  /\ IF invokerWaiting[cur]
       THEN /\ locked' = [locked EXCEPT ![cur] = TRUE]
            /\ runs' = [runs EXCEPT ![cur] = @ + 1]
            /\ signaled' = [signaled EXCEPT ![cur] = TRUE]
            /\ worker' = "target"
       ELSE /\ worker' = "idle"
            /\ UNCHANGED <<locked, runs, signaled>>
  /\ UNCHANGED <<callerVars, invokerWaiting, invokeSucceeded, queue, accepting,
                 cur, faulted>>

\* lock the message; enter the target if the caller still waits for it
Invoke ==
  /\ worker = "invoke"
  /\ IF invokerWaiting[cur]
       THEN /\ locked' = [locked EXCEPT ![cur] = TRUE]
            /\ runs' = [runs EXCEPT ![cur] = @ + 1]
            /\ worker' = "target"
       ELSE /\ worker' = "idle"
            /\ UNCHANGED <<locked, runs>>
  /\ UNCHANGED <<callerVars, invokerWaiting, invokeSucceeded, signaled, queue,
                 accepting, cur, faulted>>

\* the target calls ExitThread on its own thread: nothing more is accepted
\* and what is queued is thrown away
TargetExitsThread ==
  /\ worker = "target"
  /\ cur \in SelfExitCall
  /\ accepting
  /\ accepting' = FALSE
  /\ queue' = <<>>
  /\ UNCHANGED <<callerVars, invokerWaiting, invokeSucceeded, signaled, locked,
                 workerVars, runs, faulted>>

\* m_retVal is set, then SetInvokeSucceeded(true)
TargetReturns ==
  /\ worker = "target"
  /\ cur \notin ThrowCall
  /\ cur \in SelfExitCall => ~accepting
  /\ invokeSucceeded' = [invokeSucceeded EXCEPT ![cur] = TRUE]
  /\ worker' = "signal"
  /\ UNCHANGED <<callerVars, invokerWaiting, signaled, locked, queue, accepting,
                 cur, runs, faulted>>

TargetThrows ==
  /\ worker = "target"
  /\ cur \in ThrowCall
  /\ worker' = "signal"
  /\ UNCHANGED <<callerVars, invokerWaiting, invokeSucceeded, signaled, locked,
                 queue, accepting, cur, runs, faulted>>

\* Mutant: a way out of Invoke that does not signal.
NoSignal ==
  /\ worker = "signal"
  /\ worker' = "unlock"
  /\ UNCHANGED <<callerVars, invokerWaiting, invokeSucceeded, signaled, locked,
                 queue, accepting, cur, runs, faulted>>

\* ~SemaSignalGuard, before the lock guard is destroyed
Signal ==
  /\ worker = "signal"
  /\ signaled' = [signaled EXCEPT ![cur] = TRUE]
  /\ worker' = "unlock"
  /\ UNCHANGED <<callerVars, invokerWaiting, invokeSucceeded, locked, queue,
                 accepting, cur, runs, faulted>>

\* ~LockGuard; an exception goes on to Process(), which aborts, a
\* self-exiting callback ends Process(), any other goes back to the loop
Unlock ==
  /\ worker = "unlock"
  /\ locked' = [locked EXCEPT ![cur] = FALSE]
  /\ worker' = CASE cur \in ThrowCall -> "throwing"
                 [] cur \notin ThrowCall /\ ~accepting -> "ended"
                 [] OTHER -> "idle"
  /\ UNCHANGED <<callerVars, invokerWaiting, invokeSucceeded, signaled, queue,
                 accepting, cur, runs, faulted>>

\* Process() catches the exception and calls FaultHandler
Fault ==
  /\ worker = "throwing"
  /\ faulted' = TRUE
  /\ UNCHANGED <<callerVars, invokerWaiting, invokeSucceeded, signaled, locked,
                 queue, accepting, workerVars, runs>>

-----------------------------------------------------------------------------
Caller(c) ==
  Begin(c) \/ Dispatch(c) \/ DispatchRefused(c) \/ WaitSignaled(c)
    \/ WaitTimeout(c) \/ Leave(c)
TargetEnds == TargetReturns \/ TargetThrows
Worker == Pop \/ Invoke \/ TargetExitsThread \/ TargetEnds \/ Signal \/ Unlock \/ Fault

Next == ~faulted /\ (Worker \/ \E c \in Call : Caller(c))

Spec == Init /\ [][Next]_vars

\* Threads that can run are scheduled and finite waits expire; whether a
\* target ever returns is a separate assumption.
CallerFairness ==
  \A c \in Call : WF_vars(~faulted /\ pc[c] # "idle" /\ Caller(c))
WorkerFairness ==
  /\ WF_vars(~faulted /\ Worker /\ ~TargetEnds)
  /\ WF_vars(~faulted /\ TargetEnds)

FairSpec == Spec /\ CallerFairness /\ WorkerFairness
StuckTargetSpec ==
  Spec /\ CallerFairness /\ WF_vars(~faulted /\ Worker /\ ~TargetEnds)

-----------------------------------------------------------------------------
TypeOK ==
  /\ pc \in [Call -> {"idle", "dispatch", "waiting", "served", "unserved", "returned"}]
  /\ outcome \in [Call -> {"none", "value", "busy"}]
  /\ invokerWaiting \in [Call -> BOOLEAN]
  /\ invokeSucceeded \in [Call -> BOOLEAN]
  /\ signaled \in [Call -> BOOLEAN]
  /\ locked \in [Call -> BOOLEAN]
  /\ queue \in Seq(Call)
  /\ accepting \in BOOLEAN
  /\ worker \in {"idle", "invoke", "target", "signal", "unlock", "throwing", "ended"}
  /\ cur \in Call \cup {NoCall}
  /\ worker # "idle" => cur \in Call
  /\ runs \in [Call -> Nat]
  /\ faulted \in BOOLEAN

(***************************************************************************)
(* The target never runs without its caller.  The message holds pointers   *)
(* into the caller's stack (sqlite3_open's ppDb, sqlite3_exec's errMsg);   *)
(* the caller may have given up waiting, but it has not returned.          *)
(***************************************************************************)
ArgsAlive == worker = "target" => pc[cur] \in {"waiting", "unserved"}

(***************************************************************************)
(* A caller that gets a value had its own target run, exactly once, to the *)
(* end; and no target is ever entered twice.                               *)
(***************************************************************************)
ValueIsOwn ==
  \A c \in Call :
    /\ runs[c] <= 1
    /\ outcome[c] = "value" => runs[c] = 1 /\ c \notin ThrowCall /\ invokeSucceeded[c]

(***************************************************************************)
(* Nobody waits in vain.  A caller asleep in Semaphore::Wait has been      *)
(* signalled, or its message is queued for a worker that goes on or is     *)
(* being handled, unless a target shut the worker down.  One that was      *)
(* woken finds the result there, only a target that threw makes it answer  *)
(* "busy", and it waits for m_lock no longer than ~LockGuard takes.  One   *)
(* that gave up waits for m_lock only while its own target runs.           *)
(***************************************************************************)
Handled(c) == cur = c /\ worker \in {"invoke", "target", "signal"}
InQueue(c) == \E i \in DOMAIN queue : queue[i] = c

WaitIsAnswered ==
  \A c \in Call :
    /\ pc[c] = "waiting" /\ accepting =>
         signaled[c] \/ (InQueue(c) /\ worker # "ended") \/ Handled(c)
    /\ pc[c] = "served" =>
         (c \in ThrowCall \/ invokeSucceeded[c]) /\ (locked[c] => worker = "unlock")
    /\ pc[c] = "unserved" /\ locked[c] =>
         cur = c /\ worker \in {"target", "signal", "unlock"}

(***************************************************************************)
(* Blocking calls implement SerialCalls: each takes effect at most once,   *)
(* between call and return, and never after its caller was told "busy".    *)
(***************************************************************************)
StatusOf(c) ==
  IF outcome[c] # "none" THEN outcome[c]
  ELSE IF pc[c] = "idle" THEN "idle"
  ELSE "pending"

SC == INSTANCE SerialCalls WITH status <- [c \in Call |-> StatusOf(c)], applied <- runs
ImplementsSerialCalls == SC!Spec

(***************************************************************************)
(* Every call returns: the semaphore is signalled on every way out of the  *)
(* target, or the timeout expires and the message lock is free again.      *)
(* Only a caller that waits without a timeout may be left behind, when a   *)
(* target shuts the worker down and throws its message away.               *)
(***************************************************************************)
Stranded(c) == c \notin MayTimeout /\ ~accepting
CallReturns ==
  \A c \in Call :
    pc[c] = "dispatch" ~> pc[c] = "returned" \/ faulted \/ Stranded(c)

(***************************************************************************)
(* DelegateAsyncWait.h:467-468, of IsSuccess: "`false` if the timeout      *)
(* expired before the target function could be invoked."  A call that      *)
(* reports failure, and whose target does not throw, did not run it.       *)
(***************************************************************************)
BusyNotInvoked ==
  \A c \in Call : outcome[c] = "busy" /\ c \notin ThrowCall => runs[c] = 0

(***************************************************************************)
(* README.md:48: "The calling thread blocks until completion or a          *)
(* specified timeout occurs."  Once the timeout has occurred the caller is *)
(* on its way out, whatever the target is doing.                           *)
(***************************************************************************)
TimeoutReleasesCaller ==
  \A c \in Call : pc[c] = "unserved" ~> pc[c] = "returned"
=============================================================================
