# Async-SQLite in TLA+

A TLA+ development of the concurrent core of this repository: the asynchronous
SQLite wrappers (`src/SQLite/async_sqlite3.cpp`), the blocking delegate they are
built on (`src/DelegateMQ/delegate/DelegateAsyncWait.h`), the worker thread below
both (`src/DelegateMQ/port/os/stdlib/Thread.cpp`), and three services around it: the
thread watchdog, the timers with their paced dispatch, and reliable sending. The
modules are checked with TLC on small instances. Every safety property that a run
checks, and each of the four refinements, is also proved with TLAPS for any number
of clients, messages, threads, timers and restarts. Line numbers refer to the files
under `src/`.

## 1. Inventory

### What the program does

`sqlite3_init_async` creates one private thread. About 130 wrappers carry an
SQLite call to that thread: the *blocking* wrappers wait for its result, the
*future* wrappers return a `std::future`, a few *direct* wrappers call SQLite
where they stand, and an application may send a whole function to the worker
("block execute"), inside of which the wrappers run inline.

    client threads ── wrapper ──> AsyncInvoke / AsyncInvokeFuture
                                     │ (a DelegateAsyncWait, or a posted lambda)
                                     ▼
                       Thread::DispatchDelegate ── queue ──> Thread::Process
                                     ▲                            │
                                     └── semaphore, message lock ─┴─> SQLite

The build takes the stdlib port, no allocator, no transport and no serializer
(`CMakeLists.txt`); DelegateMQ's network parts are compiled out.

### Components

| Component | State | Operations | Talks to | Hard behaviour | Correct when |
|---|---|---|---|---|---|
| Wrappers, `async_sqlite3.cpp` | the private `Thread`; the shared connection | `sqlite3_init_async`, blocking, future and direct wrappers, `sqlite3_get_thread` | worker (dispatch), SQLite (call) | calls before init, after exit and across a restart; inline execution on the worker; refused dispatches | a client's operations run in program order, blocks are not interrupted, no future stays pending, what reports failure did not run |
| Worker, `Thread.cpp` | `m_thread`, `m_exit`, two queues, two condition variables, policy | `CreateThread`, `ExitThread`, `DispatchDelegate`, `Process` | everything | unlocked tests, a full queue, exit from a callback, restart while the old loop unwinds | FIFO per priority, at most once, nothing accepted is lost by the owner's exit, no lost wake-up, one consumer |
| Blocking delegate, `DelegateAsyncWait.h`, `Semaphore.h` | per call: lock, semaphore, `m_invokerWaiting`, `m_invokeSucceeded`, result | `operator()`, `AsyncInvoke`, `Invoke` | worker | timeout against result; arguments that live on the caller's stack; exceptions | the target never outlives its caller, at most one effect, every call returns |
| Non-blocking delegate, `DelegateAsync.h`, `AsyncInvoke.h` | copy of arguments | `operator()`, `Invoke` | worker | refused messages | as used by the future wrappers |
| Watchdog, in `Thread.cpp` | registry, heartbeat, timeout | `WatchdogCheckAll`, `WatchdogCheck`, `ThreadCheck`, heartbeats in `Process` | whoever calls the check, `FaultHandler` | threads exit and restart while they are checked; a timeout stored after the loop has read it | nobody who waits or serves in time is reported, and a stuck target is |
| Timer, `Timer.cpp` | list of timers, expiry times | `Start`, `Stop`, destructor, `ProcessTimers` | signals, paced dispatch | callbacks outside the lock; the array of 16 expirations; catching up when called late | the list stays one, no timer runs ahead of its period, no abort without too many timers |
| Paced dispatch, `TimerDelegate.h` | `m_inFlight`, which expires with the message | `TryFire` | timer, worker | refusal, exceptions, a queue that is cleared | at most one message in flight, and the gate opens again |
| Signal, `Signal.h` | slots, connections | `Connect`, `Disconnect`, emission, `Clear` | delegates | a change while a snapshot is walked | a disconnected slot is called only for what was under way |
| Reliable messaging, `TransportMonitor.h`, `RetryMonitor.h`, `ReliableTransport.h` | numbers that wait for an acknowledgement; stored packets with their retries | `Add`, `Remove`, `Process`, `SendWithRetry`, `OnStatusChanged` | transport | two locks, neither held over the other; loss, repetition, late acknowledgement, reused numbers, a full map | the retry budget is kept, nothing stored is forgotten, an acknowledgement means delivery, an error means nothing was sent |
| Monotonic guard, `MonotonicGuard.h` | last number | test of a number | – | wrap-around | never accepts an old number |
| Dispatcher, remote delegates, DataBus, network engine | – | – | transport | I/O | not built here |
| Fault handling, `Fault.cpp` | – | `FaultHandler` | all | aborts the program | see `faulted` |
| SQLite, tests, examples, other ports, allocator, serializers | – | – | – | – | outside the models |

`PROJECT.json` lists them all with their status, and every hazard with its line
and the properties that stand for it.

## 2. Modules

| Module | Models | Implements |
|---|---|---|
| `CommandQueue` | what a worker promises | – |
| `DmqThread` | `Thread.cpp`: dispatch, exit, create, `Process` | `CommandQueue` |
| `SerialCalls` | what a blocking call promises | – |
| `AsyncWait` | `DelegateAsyncWait.h` with `Semaphore.h`, the FIFO as `DmqThread` gives it | `SerialCalls` |
| `SerialDatabase` | what the asynchronous API promises | – |
| `AsyncSqlite` | `async_sqlite3.cpp` on a FIFO worker | `SerialDatabase` |
| `Watchdog` | the watchdog of `Thread.cpp` | – |
| `TimerService` | `Timer.cpp`, `Signal.h` as a timer uses it, `TimerDelegate.h`, a worker | – |
| `PacketLife` | what reliable sending promises of a message | – |
| `ReliableSend` | `RetryMonitor.h`, `TransportMonitor.h`, a lossy link | `PacketLife` |
| `*_proofs` | theorems about the six detailed modules, and about `CommandQueue` and `SerialDatabase` | – |
| `MC*` | their finite instances | – |

Each layer uses what the layer below has been shown to promise: `AsyncWait` takes
the queue of `DmqThread` as a FIFO that may refuse, may be cut short by an exit
from a callback, and has one consumer; `AsyncSqlite` takes a blocking call as one
that waits for its message to be handled. `Watchdog` models the same `Process` loop as
`DmqThread`, by its heartbeats instead of its messages. `TimerService` composes
timers, signals, the gate of paced dispatch and the queue of a worker.

### Correspondence: `DmqThread`

What `m_mutex` protects is one step; the two unlocked tests of `DispatchDelegate`
(`CheckExit`, `CheckThread`) are steps of their own, so that `ExitThread` and
`CreateThread` may happen between them and `Enqueue`. Condition variables are
explicit: a sleeping worker is `asleep`, a sleeping producer `blocked`, and only a
notify (`WakeWorker`, `WakeOneProducer`, `WakeAllProducers`), a spurious wake-up
or heartbeat (`Heartbeat`) or a timeout (`DispatchTimeout`) makes it look again.
`ExitThread` of the owner is `OwnerExit` then `OwnerJoined`; from a callback it is
`SelfExit` then `SelfExitCleanup`. Generations (`Gen`) stand for the successive
`std::thread` objects of one `Thread`, so that a detached loop and its successor
may coexist. `policy` is `FULL_POLICY`, chosen by the constructor.
`stage`, `ticket` and `tickets` are history, the variables of `CommandQueue`.

### Correspondence: `AsyncWait`

A call is its caller's stack frame and its message. `Begin`, `Dispatch` /
`DispatchRefused`, `WaitSignaled` / `WaitTimeout` and `Leave` are `operator()`;
the single locked section of lines 373–383 is one step, since it does not wait
inside. On the worker, `Invoke` takes `m_lock` and keeps it over `TargetReturns`
or `TargetThrows`, `Signal` (the guard that signals on every way out) and
`Unlock`. `Fault` is the exception arriving in `Process`. `locked[c]` says that
the worker holds the lock; `Leave` needs it free.

### Correspondence: `AsyncSqlite`

Operations are pairs of a client and a number. The three shapes of wrappers are
`BlockingCall`, `FutureCall` and `DirectEnter`/`DirectLeave`; `BlockExecute` is a
delegate to a whole function. `Blocking` and `Future` contain what happens when
the thread is not there, or is exiting: `GetThreadId` throws while `m_thread` is
empty, a refused blocking call reports failure, a refused future loses its promise.
`Take` and `Finish` are the worker; `InlineEnter`/`InlineLeave` are a wrapper called
by a function on the worker, which `AsyncInvoke` recognises by its thread id.
An operation is inside SQLite between two steps, then in `log`.
`SerialDatabase` knows neither queue nor worker: issuing an operation is `Accept`,
`Refuse` or `Bypass`; `Finish` and `InlineLeave` are `Apply`; taking a block and
leaving it are `Hold` and `Release`; `DirectLeave` is `Return`. The order in which a
block's own calls and posted futures take effect is left open there, as it is in the
code (see `sqlite_fifo`).

### Correspondence: `Watchdog`

`CreateThread` is four steps (`CreateThread`, `Started`, `StoreTimeout`,
`Register`) because the new loop runs meanwhile: it may read `m_watchdogTimeout`
before it is stored (`LoopTop` copies it at the top of each round). `FallAsleep`
is `wait_for` a tenth of the copied timeout, or `wait` when there was none
(`unwatched`); `Resume` is the heartbeat after it and what comes next.
`WatchdogCheck(w)` is one entry of `WatchdogCheckAll`; any thread may call that at
any time, so each entry is a step that is always possible. `ExitThread` leaves the
entry in the list, `Destroy` takes it off. Time is relative and saturates one tick
past the timeout, where nobody can tell the difference any more. `WatchdogHandler`
does not return: `culprit` is the last step. `Tick` waits for loops that have
something to do: the model assumes that outside of targets a loop gets through its
code within a tick, so that a scheduler which starves a healthy thread for a whole
timeout is not taken for the code's mistake.

### Correspondence: `TimerService`

`Start`, `Stop`, `Destroy` hold the timer lock and are one step each. `Collect` is
the locked half of `ProcessTimers`: it unlinks what was disabled, rearms or disables
what has expired (`Walk`), and takes a snapshot of the subscribers, which `InvokeInline`,
`InlineThrows`, `Dispatch`, `Refused`, `Skip` and `Throw` then call one by one without a
lock. An exception, from a plain target or from the dispatch to a worker without a thread,
leaves `ProcessTimers` and what is left of the snapshots is lost. `Overflow` is
`ASSERT_TRUE` when the array of expired timers is full (the code tests for room before it
tests the timer), after the walk has changed the timers it has come past. `inFlight` is "the `weak_ptr` has not expired":
it opens when the message is destroyed, which is at the end of `Finish`, on a refusal,
or when an exit clears the queue. A message holds a raw pointer to the subscription's
clone; `Pop` of a freed one is `halted = "crash"`.

### Correspondence: `ReliableSend`

Each lock region of the two monitors is a step. A sender goes through `Dispatch`
(number), `Store`, `Register`, `Send` and `MarkSent`, or `Unstore`. `Expire` is the
locked half of `TransportMonitor::Process`; `Timeout` is what `OnStatusChanged`
decides under the other lock (`Settled`, `Retry`, `Reregister`, `GiveUp`), and
`AddForRetry`, `SendAgain`, `EraseUnwatched`, `AddAgain` are what it does after
releasing it. `Remove` and `Success` are an acknowledgement. The link is two sets that
only grow, so that a packet may arrive late, repeatedly, in any order, or never.

`PacketLife` knows no monitor, no timeout and no acknowledgement, only what becomes of
each message. A message is `new` until it is stored, `open` while its entry is in the
store, then settled for the reason in `fate`; its sender's answer is where `SendWithRetry`
has got to. `Dispatch` is `TakeNumber`, `Store` is `Keep`, `Send` and `SendAgain` are
`Transmit`, `MarkSent` is `Succeed` and `Unstore` is `Fail`, `GiveUp` is `Exhaust`,
`EraseUnwatched` is `Drop`, `Success` is `Acknowledge`, `Deliver` is `Arrive`. All that
concerns `m_pending` and the decisions to retry or to watch again are invisible there.
What is settled is settled about a number, as in the code, and each of these actions has
the guard that makes it true: an acknowledgement needs an arrival under this number, giving
up needs the retries made, an error needs that nothing has gone out. Where numbers are
shared, the guard admits a `Namesake`.

## 3. Runs

| Run | Instance | Shows |
|---|---|---|
| `thread_exit` | 4 producers, one urgent; queue of 1; all three policies; 2 generations | type, bound, nobody waits in vain, implements `CommandQueue`, `ExitThread` returns, sleeping producers are answered |
| `thread_selfexit` | 4 messages: one urgent, one that exits its thread, one that throws; queue of 2; `DROP` and `FAULT`; 2 generations | one consumer across a restart, no silent drop, accepted messages are served |
| `wait_calls` | 3 calls, two of which may time out; one target exits the worker, one throws; queue of 2 that drops | arguments alive, values are the call's own, no caller waits in vain, implements `SerialCalls`, every call returns |
| `sqlite_calls` | 2 clients with 3 and 2 operations, one uses direct wrappers; start, exit, restart | program order, atomic blocks, truthful results, an exit answers everyone, implements `SerialDatabase`, futures resolve, blocks end |
| `watchdog_alarm` | 2 threads, each created with or without a timeout, exited, created again, destroyed; targets that may hang | only a thread that overran, does not run or missed its timeout is reported; a hung target is |
| `timer_calls` | 2 timers, a paced subscriber of one of them and a plain one that may throw; a worker with a queue of 1 that exits, also from inside, and restarts; load from others | list, pace, justified aborts, one message in flight, bounded late calls; pacing does not starve |
| `reliable_send` | 3 messages over 2 sequence numbers, 1 retry, 1 number pending at a time | retry budget, nothing forgotten, giving up comes last, an error returned means that nothing went out, implements `PacketLife` (so that acknowledged means delivered, and each message is settled once); every packet leaves the store |
| `wait_busy_invoked` | one short timeout | *violation*: failure is reported although the target ran |
| `wait_timeout_stuck` | a target that may not return | *violation*: an expired timeout does not release the caller |
| `sqlite_direct` | two clients, one of which uses direct wrappers | *violation*: one is inside SQLite by itself while the worker is in SQLite for the other |
| `sqlite_fifo` | a block with a future and a blocking call | *violation*: a later call overtakes an earlier one |
| `sqlite_noinit` | future wrapper before init | *violation*: it throws instead of returning a failed future |

The five violations are disagreements between the code and its own text, quoted in
`PROJECT.json` under `findings`. None of them is a state the passing runs exclude
by assumption: the passing properties are stated so that they hold with them.

### Bounds, and why they are enough

*Messages.* Order is a relation between two messages, wake-up races need one
sleeper, one newcomer and one that frees the place, and losing a `notify_all` shows
only when more producers sleep than messages remain to be popped: four messages
contain all of them, with both priorities. *Queue.* One and two are the smallest
bounds that are full, and not full, with a message in service. *Generations.* The
hazards of a restart involve the old loop and the next. *Calls.* One call interferes
with another only through the FIFO and the worker, hence three: served, waiting,
expired. (The theorems remove this bound.) *SQLite operations.* Interruption of a
block needs two operations inside and one outside; three and two give that on
either side of a restart. *Watchdog.* Two threads are one that is stuck and one whose
life goes on next to it; `Beat` 1 and `Timeout` 2 are the smallest values with the
heartbeat interval below the timeout, and a queue of one separates idle from busy.
*Timers.* Two timers are a list whose order matters, and with `MaxExpired` 1 also one
more than the array holds; both subscribers hang on one timer, so that one snapshot
contains a call that is paced and one that is not; a queue of one is filled by a
single load message, which is what a refusal takes. The clock stops mattering one tick after
a whole period was missed. *Reliable sending.* Three messages over two numbers force a
number to be reused while its first owner may still be stored, pending, timed out or
acknowledged late; one retry separates first send, retry and giving up; one pending
number makes a refusal for lack of room happen to senders, retries and re-registrations.
The theorems remove all of these bounds. Every action and every disjunct of every next-state
relation fires in the passing runs.

### Fairness

`DmqThread!FairSpec`: a producer inside `DispatchDelegate`, the loop of a running
generation and an owner inside `CreateThread` or `ExitThread` are scheduled (weak
fairness: threads of an operating system that can run do so), and targets return.
Nobody is obliged to call, and no timeout is obliged to expire: `ProducerReleased`
holds without `DispatchTimeout`. `AsyncWait!FairSpec` adds that a finite wait
expires and, separately, that targets end; `StuckTargetSpec` leaves the second out.
`AsyncSqlite!FairSpec`: the worker is scheduled, SQLite's functions and functions
run on the worker return. `Watchdog!FairSpec`: an owner gets through `CreateThread`,
loops run outside of targets, somebody keeps checking, and time passes; that one is
strong fairness, because a tick waits for the loops whose sleep is over, and another
worker may go round its loop between any two ticks. Targets owe nothing. `TimerService!FairSpec`:
time passes, `ProcessTimers` is called again and again, and the worker runs; all weak.
`PacedServed` is conditional on the environment leaving the timer, the subscription
and the queue alone from some point on, and on no plain target throwing a walk away before
it has come to the paced call: one that throws in each walk starves it. `ReliableSend!FairSpec`: a sender gets through
`SendWithRetry`, the handler and the receiving thread run, and every number that waits
again and again for its timeout meets a `Process` that finds it expired (strong, per
number: `Process` takes whatever has expired, and a number leaves and re-enters the
map). The network owes nothing: `Settles` holds when every packet is lost.
`CHECK_DEADLOCK FALSE` stands where the system really
stops: every call has returned, or the program has aborted.

## 4. Proofs

Every safety property a run checks is also a theorem, for every value of the
constants. On top of those come results no run states: what the two abstract
specifications imply and the detailed modules inherit, promises about all later states,
and the safety part of some liveness properties.

The properties are strengthened into inductive invariants first. An invariant is a
conjunction of named parts with one lemma per step and part; the types of the variables
are a part of their own, so that a leaf cites only those it needs.

### The worker thread (`DmqThread_proofs`)

Assumption: `ThreadAssumption` (the messages are a finite set, of which the urgent,
the throwing and the self-exiting ones are subsets; the exit message is none of
them; the owner and a callback do not both exit the thread). Nothing is assumed of
the number of messages, the bound of the queue, the policies or the number of
restarts.

| Theorem | Says |
|---|---|
| `TypeCorrect` | `Spec => []TypeOK` |
| `OneConsumer` | `Spec => []SingleConsumer` |
| `QueueIsBounded` | `Spec => []QueueBound` |
| `WakeUpsSuffice` | `Spec => []NobodyWaitsInVain` |
| `NothingDropped` | `Spec => NoSilentDrop`, an action property |
| `QueueInvariant` | `Spec => []QueueInv`, the inductive invariant of the refinement |
| `ThreadIsCommandQueue` | `Spec => CommandQueue!Spec` |
| `ThreadKeepsOrder` | no callback starts past an earlier message as urgent; one runs at a time, next to those returning from their own exit; only a self-exit discards |
| `TargetRunsOnce` | a target runs at most once, and never after its message was refused or thrown away |
| `OwnerExitDrains` | when the owner's `join()` can return, every accepted message has run to its end |

- *One consumer* (`ConsumerInv`). `SingleConsumer` speaks of threads in the loop;
  what keeps it is where the others are: a thread in a callback that has not shut
  itself down is the one `m_thread` holds, and one that has is marked by `selfExit`
  and will not return to the loop.
- *Bound* (`PlaceInv`). A queued message is at some place of a queue, so there are
  at most `Size` of them, and a producer that adds one has seen `Size` below the
  bound in the same locked section. The exit message takes a place, never a message.
- *Wake-ups* (`WorkerAwake`, `ToldInv`, `AttendInv`, `ExitInv`). `NobodyWaitsInVain`
  says of everybody who waits who is going to end it. "Some producer has been told" is
  not inductive: the one told may be overtaken. What is: when producers sleep, the
  messages in the queue and the producers told and not yet awake together make up the
  bound. A queue has somebody to serve it because messages enter only while `m_exit` is
  off, and `m_exit` goes on before a loop ends (`AttendInv`); the same part keeps the exit
  message last in the queue of a loop that its owner is joining.
- *Nothing dropped* (`SleepInv`). Only `FullPolicy::TIMEOUT` puts a producer to
  sleep, so nobody else can answer "false" for lack of room.
- *Refinement* (`QueueInv`). `CommandQueue!Start` asks that the popped message
  precedes all queued ones and that no target runs but one unwinding from its own
  exit. That takes: each queue is sorted by ticket and lists queued messages only
  (`OrderInv`), which makes the head the earliest and unique; every queued message is
  in one of them (`PlaceInv`); running messages belong to threads in a callback, one
  each (`RunInv`); and those are the consumer or one that let go of `m_thread`
  (`ConsumerInv`, `LifeInv`). `OwnerJoined` clears the queues and must discard
  nothing: `ExitInv` shows that the exit message stands once, and last, so that the
  queues are empty by the time the thread has ended. `CheckExit`, `CheckThread` and
  the producer's three other steps map to `Accept`, `Refuse` or a stutter,
  `TargetReturns` to `Finish`, `SelfExitCleanup` to `Discard`, and the rest to a
  stutter.
- *Inherited* (`CommandQueue_proofs`). The last three theorems are proved of
  `CommandQueue`, where a queue is a set of tickets, and carried down by the refinement.
  `PromisedOrder` rests on tickets being unique and only growing; `AtMostOnce` on the
  stages of a message never going back. `OwnerExitDrains` adds what the thread knows at
  `join()`: the queues are empty (`ExitInv`), no target is running (`RunInv`), and a thread
  whose owner exits it has no self-exit that could have discarded anything.

### The blocking delegate (`AsyncWait_proofs`)

Assumption: `AsyncWaitAssumption` (which calls may time out, throw or exit the
worker are subsets of the calls; `NoCall` is not a call). Nothing is assumed about
their number.

| Theorem | Says |
|---|---|
| `TypeCorrect` | `Spec => []TypeOK` |
| `Invariant` | `Spec => []IInv` |
| `ArgsStayAlive` | the target runs only while its caller has not returned |
| `ValuesAreOwn` | no target runs twice; a caller with a value had its own target run to the end |
| `WaitsAreAnswered` | a caller asleep has its message on the way, unless a target has shut the worker down; one that was woken finds its result; one leaving waits for the lock only while its own target runs or has just signalled |
| `BusyIsTrue` | failure, told to a caller that waits without a timeout, means that its target threw or never ran |
| `BusyNotInvokedThen` | hence the claim that `wait_busy_invoked` refutes is true when no wait can expire |
| `NeverAfterReturn` | once a call has returned its target is never entered again |
| `Refinement` | `AsyncWait` implements `SerialCalls` |

The properties are not inductive: that the caller is still there while its target
runs depends on who holds the lock, and that no target runs twice depends on where
the message is. `IInv` strengthens them with `LockInv` (the message that is locked
is the one the worker handles, in the target, signalling or unlocking, and a caller
cannot leave meanwhile), `FlagInv` (`m_invokerWaiting` is set from `Begin` to
`Leave`), `QueueInv` (a message is queued at most once, not while it is handled, and
only of a call that has dispatched and whose target has not run), `TargetInv` (the
call being handled is one that dispatched, and has run exactly when the worker is
past `Invoke`) and `ResultInv` (what a signal and an outcome imply). Two more parts are
proved next to it: `WaitInv` (a caller that sleeps without a signal has its message in the
queue or with the worker, unless it was thrown away with the queue) and `BusyInv` (who
leaves without a timeout and without a result had a target that threw or did not run).
Each step lemma shows one conjunct preserved by
every action; `Refinement` maps `Invoke` to `Apply`, `Leave` to one of the two
returns and everything else to a stutter.

### The asynchronous API (`AsyncSqlite_proofs`)

Assumption: `AsyncSqliteAssumption` (the direct clients are clients; each may issue at
least one operation). Nothing is assumed about the number of clients or operations.

| Theorem | Says |
|---|---|
| `TypeCorrect` | `Spec => []TypeOK` |
| `Invariance` | `Spec => []IInv` |
| `ResultsAreTrue` | what was reported as failed never runs; nothing runs twice |
| `ExitAnswersAll` | once the worker is gone nothing is queued or pending and nobody waits |
| `ProgramOrderKept` | a client's operations run in the order it issued them |
| `BlocksAreAtomic` | what a block runs inline is not interrupted |
| `ApiIsSerialDatabase` | `AsyncSqlite` implements `SerialDatabase` |
| `EarlierIsSettled` | when an operation its client issued by itself has run, all that client's earlier ones are settled; only a running block's operations overtake |
| `FailedNeverRuns` | an operation reported as failed never runs afterwards |

`IInv` says where everything is: operations are numbered as they are issued
(`NumberInv`); an operation without an answer is queued, with the worker, or inline in
a block, and in no two of these places (`PlaceInv`); the queue holds a client's
operations by number, all later than what is being served (`OrderInv`); a client waits
exactly while one synchronous message of it is queued or served (`WaitInv`); the exit
message stands last, and without a thread there is no queue (`LifeInv`). From these, no
earlier operation is outstanding when a later one has run (`ProgramInv`), so a log that
is in order stays so; and what a block runs inline comes while it runs and stays at the
end of the log (`BlockInv`). In the refinement, `OrderInv` is what makes the operation
that is taken the oldest one of its client.

The last two theorems are proved of `SerialDatabase` (`SerialDatabase_proofs`:
`PromisedEffects`, `RefusedForGood`) and hold of the API through the refinement: a client
that reads `SerialDatabase.tla` may reason from it alone. `SettledBefore` has a
counterpart that says how it can fail, `OvertakenFromWithin`: the earlier operation that has
not run belongs to a client whose block, on the worker, issues calls that run on the spot.

### The watchdog (`Watchdog_proofs`)

Assumption: `WatchdogAssumption` (the heartbeat interval is below the timeout; the code
takes a tenth). `NoFalseAlarm` proves `AlarmJustified` for any number of threads and
any timeout. The invariant behind it, `HeartbeatOf`, adds up two clocks: while a
watched loop sleeps, the age of its heartbeat and what is left of its sleep stay within
the interval; while it is in a target, the heartbeat is no older than the target, or its
last `ThreadCheck`; between the two it is fresh; and a loop sleeps without a limit only
when the timeout it has copied is none. Time passes only while nobody's
sleep is over, hence the sum is kept by every tick. `TypeCorrect` and `Invariance` come
with it.

`StuckStaysVisible` is the part of `StuckReported` that is not liveness: once a target
hangs, its thread is never joined, destroyed or taken off the list; if it is watched it is
on the list, or `CreateThread` is about to put it there; and once `CreateThread` has
returned, its heartbeat only ages, by one with every tick, until it exceeds the timeout.
What is left to TLC is that time passes and somebody checks.

### Timers (`TimerService_proofs`)

Assumption: `TimerAssumption` (finitely many timers, a period, each subscription to one
timer). `ListStaysSound`, `PaceIsKept`, `FaultsAreJustified`, `AtMostOneInFlight` and
`LateCallsAreOwed` prove the five safety properties, for any number of timers and
subscriptions, any period, array and queue size. `TimersInv` relates
the list to the flags of its timers: a disabled timer may stay linked only while
`m_timerStopped` is set. `Gate` says that the token lives exactly as long as the
message, with at most one message of a subscription in queue and worker. `Paid` is an
account: calls made after a disconnect plus calls still under way never exceed those
under way at that moment, and nothing new is entered for a subscription that is gone.
`FaultsAreJustified` is an action property, since a walk that aborts has disabled timers on
its way: when it began, each place of the array stood for a different expired timer, and
one more was running; that is where cardinalities come in.

Two theorems say what a program gets from this when it disconnects. `QuietAfterDisconnect`:
a subscriber that is removed while none of its calls is collected or queued is never called
again, in no later state. `CrashIsEarned`: a message of a paced subscription holds a raw
pointer to a delegate that its signal owns, and the worker finds that delegate gone only if
the subscription was removed while one of its calls was collected or queued. It is the
second part of `LateCalls`.

### Reliable sending (`ReliableSend_proofs`)

Assumption: `ReliableAssumption` (a positive modulus; the markers for "no entry" and "no
number" are not an entry and not a number). `TypeCorrect`, `BudgetIsKept`, `NoneForgotten`,
`GivesUpLast`, `ErrorsAreUnsent` and `SendingIsPacketLife` prove the run's type invariant,
its four other invariants and its refinement, for any messages, modulus, retry limit and
map size. `Invariance` is the invariant behind them; `AcksAreTrue` says that acknowledged
means delivered.

The difficulty is ownership, since numbers are reused while locks are not held. An
entry belongs to the one message that stored it (`StoreOwned`), and what the handler
carries over from one lock to the other belongs to that message too (`HandlerOwned`).
A retry is counted in one of three places: attempts left, a retry the handler has started,
or a call of `Send`; with the first `Send` due or made, their sum is bounded from above by
`1 + MaxRetries` (`Budget`) and, while the packet is stored, from below (`Spent`). The
first bound is `RetryBudget`; the second makes `GaveUpLast` true at the step that erases.
`NothingForgotten` is inductive as it stands once the handler's `send` does not count as
watching: by then the number is back in the map, or somebody else owns the entry.

`ErrorsAreUnsent` has an invariant of its own, `Unsent`, proved next to `Inv`: until the
first `Send` has succeeded, a message that shares its number with no other is not on its
way, no retry of it has been started, and its entry is not marked as sent, so that
`Retry` cannot start one. Sharing a number breaks this: `MarkSent` finds the entry by
its number alone and marks another message's.

`OneOutcome` is about the races between the sender's own clean-up, a timeout, an
acknowledgement and another packet with the same number: a stored message is in the store
exactly until it has an outcome (`Account`), and an outcome is never replaced.

`ReliableUntilWrap` says what the exceptions for shared numbers are worth: until
`Dispatcher` has given out more numbers than there are (`FirstCycle`), an acknowledged
message has arrived, one that was given up has had all its sends (or its first is still
to come, after the timeouts have outlived the sender's pause), none was overwritten, what
was dropped had gone out before (`DropSent`), and an error means that nothing went out. Its
invariant is `CountInv`: in the first cycle
`m_seqNum` counts the messages that have a number, hence the numbers differ. TLC's instance
wraps on purpose; this theorem is about the programs that do not.

`SendingIsPacketLife` is the refinement, one lemma per step that `PacketLife` sees
(`DispatchTakes`, `StoreKeeps`, `SendTransmits`, ...) and `WatchingStutters` for the rest.
The guards of `PacketLife` are where the earlier results meet: `Budget` for `Transmit`,
`Sources` for `Acknowledge`, `ErrorMeansUnsent` for `Fail`, and `GaveUpLast` and
`ErrorMeansUnsent` after the step for `Exhaust` and for a retry that goes out. `EraseCloses`
turns `m_retryStore.erase(k)`, which goes by the number, into "the open message with this
number is settled": by `StoreOwned` and `Account` these are the same one. One invariant was
missing, `OutInv`: an entry marked as sent, and so every retry the handler has started, goes
back to a message of that number whose first `Send` has succeeded. That is what lets
`Succeed` and `Drop` be true when they are told.

### Only model-checked

Every liveness property: `ExitCompletes`, `ProducerReleased`, `AcceptedServed`,
`CallReturns`, `FuturesResolve`, `BlockEnds`, `StuckReported`, `PacedServed` and
`Settles`. Liveness under fairness rests on `ENABLED`, which the prover does not
support. What they need of the states is proved: that somebody is always on the way to
whoever waits (`WakeUpsSuffice`, `WaitsAreAnswered`), that nothing is pending or stored that
nobody will come back to (`ExitAnswersAll`, `NoneForgotten`), that a closed gate has a message
that will open it (`AtMostOneInFlight`), and that a stuck thread stays in sight
(`StuckStaysVisible`). The five violations are counterexamples and need no proof.

### What the models show beyond the findings

Six divergences have no run of their own. The first five are exceptions that a property
names, or cases that it lets pass:

- `AlarmJustified` excuses threads that are reported without having overrun: one that
  has exited is still on the list (only `~Thread` removes it), one created again, even
  without a timeout, is measured by its old heartbeat until it takes its first, and one whose
  loop copied `m_watchdogTimeout` before `CreateThread` stored it sleeps without heartbeats
  until its first message.
- `FaultJustified` lets `ProcessTimers` abort when exactly `MAX_TIMER_EXPIRED` timers have
  expired and one behind them in the list has not, although the array would have done: the
  room is tested before the timer (`Timer.cpp:179`).
- `PacketLife!Drop` is earned by any message with the number: `RetryMonitor.h:202` erases
  the entry of a refused retry after it has let go of the lock. When the number has been
  used again in between, the entry is that of a newer packet, which is then not retried.
- `NothingForgotten` and `Settles` excuse `lost`: `RetryMonitor.h` puts a number whose
  first send is still under way back under watch without looking at whether `Add`
  accepted it. With the map full, the packet stays stored for ever.
- `ErrorMeansUnsent` excuses a shared number: `SendWithRetry` sets `isSent` on whatever
  entry has its number when its `Send` returns. When the number has been used again in
  between, that is the entry of a newer packet whose own first send is still under way;
  a timeout then retries it, and its `SendWithRetry` may still return an error.
- `RetryMonitor.h:111` says that after a failed `Send` "`TransportMonitor::Add()` was
  never called" and no status will come. `Add` was called, at line 101: the number stays
  pending until its timeout, which finds no entry (`Settled`) or, if the number has been
  used again, the entry of a newer packet.

## 5. Not modelled

- SQLite itself: `sqlite3.c`, `sqlite3.h` and `shell.c` are the third-party amalgamation
  and make up nearly all lines under `src/`. For the models it is the library an
  operation is inside of. Counted over the whole tree, the mapped share of lines is
  therefore small, whatever else is modelled.
- The deep copy of arguments (`make_tuple_heap.h`), return values as data, SQL, and
  what a wrapper's parameters mean: no property tells them apart.
- `MAX_WAIT` in `AsyncSqlite`: two minutes; `AsyncWait` covers timeouts.
- The data race on `m_thread` (`Thread.cpp:242`) as such: both outcomes of the test
  are in the model, a torn read is not.
- Joining and detaching one `std::thread` from two threads at once, which is
  undefined behaviour that no caller of this repository shows.
- A function on the worker that waits for a future it queued behind itself: the
  application's own deadlock. Likewise a callback that dispatches to its own full queue
  under `FullPolicy::TIMEOUT`, which ends after `m_dispatchTimeout`.
- In `TimerDelegate.h`: `OnStuck`, `Reset` and `IsPending`. They report, or are the
  application's own means to open the gate; no code here calls them.
- A paced worker with `FullPolicy::TIMEOUT`, which may hold `ProcessTimers` up: the worker
  of `TimerService` drops; waiting producers are the subject of `DmqThread`.
- `MulticastDelegateSafe` and `UnicastDelegateSafe`: containers that take one lock per
  operation. Emission over a snapshot, which is where callbacks interleave, is in
  `TimerService` through `Signal`.
- In reliable sending: several remote ids (then `Remove` scans the map; the key is number
  and id together), destruction of the monitors, `OnCapExceeded` and `OnPendingExceeded`,
  and two threads in `TransportMonitor::Process`, which would share `m_expiredItems`.
- `MonotonicGuard`, the dispatcher's registry, DataBus, network node and engine,
  transports and serializers: compiled out of this program (`DMQ_TRANSPORT_NONE`,
  `DMQ_SERIALIZE_NONE`). `ReliableSend` is modelled although it belongs to that part,
  because its two monitors are independent of any transport.
- The fixed-block allocator (off in this build), the thread monitor (statistics), the
  other operating-system ports (variants of `Thread.cpp`), unit tests and examples,
  except `example2`, which runs a whole function on the worker.

## 6. Plan

Done, in this order: `CommandQueue` and `DmqThread` with their proofs; `SerialCalls`
and `AsyncWait` with theirs; `AsyncSqlite`; `Watchdog`, `TimerService` and `ReliableSend`
with theirs; the proofs of `AsyncSqlite`, and `SerialDatabase` with the refinement; the
consequences of `CommandQueue` and `SerialDatabase`, and the safety part of the liveness
properties; `PacketLife` with its refinement.

What could follow, most useful first:

1. `DataBus`, should the program be built with a transport: a subscriber that connects
   and reads the last value while a publisher updates and emits may see the older value
   last; `MonotonicGuard` is what it has against that.
2. `ReliableSend` with several remote ids.
3. `FullPolicy::TIMEOUT` in the worker of `TimerService`.
