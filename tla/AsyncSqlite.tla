---------------------------- MODULE AsyncSqlite -----------------------------
(***************************************************************************)
(* SQLite/async_sqlite3.cpp: client threads issue SQLite operations on one *)
(* shared connection through the blocking wrappers, the future wrappers,   *)
(* whole functions run on the worker ("block execute"), and the wrappers   *)
(* that call SQLite directly; the private worker thread runs the rest.     *)
(*                                                                         *)
(* SQLite itself is external: an operation is inside the library between   *)
(* two steps and then appears in the log.  MAX_WAIT never expires here     *)
(* (AsyncWait is about timeouts) and the queue is the unlimited FIFO of    *)
(* SQLiteThread (DmqThread).                                               *)
(***************************************************************************)
EXTENDS Naturals, Sequences

CONSTANTS
  Client,        \* the application's threads
  DirectClient,  \* those that use the wrappers which bypass the worker
  InitFirst,     \* is sqlite3_init_async called before anything else?
  MaxOps         \* bound on the operations each client issues

ASSUME AsyncSqliteAssumption ==
  /\ DirectClient \subseteq Client
  /\ InitFirst \in BOOLEAN
  /\ MaxOps \in [Client -> Nat \ {0}]

\* the n-th operation of a client
Op == UNION {{t} \X (1 .. MaxOps[t]) : t \in Client}

\* the messages of the worker: an operation called with or without a future,
\* a function to run as a block, and MSG_EXIT_THREAD
NoOp == <<>>
ExitJob == [kind |-> "exit", op |-> NoOp]
Job == [kind : {"call", "future", "block"}, op : Op] \cup {ExitJob}

VARIABLES
  thread,      \* SQLiteThread: "none", "running", "exiting" (m_exit), "gone"
  queue,       \* its messages
  worker,      \* "idle", or what it is doing with job
  job,
  block,       \* the operation whose block is running, if any
  client,      \* "ready", "waiting" for the worker, or "direct" in SQLite
  issued,      \* how many operations each client has issued
  result,      \* what each operation's caller, or its future, has
  log,         \* history: the operations in the order SQLite ran them
  within,      \* history: the block each operation was issued by, if any
  posted       \* history: those a block issued through a future wrapper

vars == <<thread, queue, worker, job, block, client, issued, result, log, within, posted>>

Init ==
  /\ thread = IF InitFirst THEN "running" ELSE "none"
  /\ queue = <<>>
  /\ worker = "idle"
  /\ job = ExitJob
  /\ block = NoOp
  /\ client = [t \in Client |-> "ready"]
  /\ issued = [t \in Client |-> 0]
  /\ result = [o \in Op |-> "none"]
  /\ log = <<>>
  /\ within = [o \in Op |-> NoOp]
  /\ posted = {}

-----------------------------------------------------------------------------
\* sqlite3_init_async (CreateThread), and ExitThread on the thread that
\* sqlite3_get_thread returns.

InitAsync ==
  /\ thread \in {"none", "gone"}
  /\ thread' = "running"
  /\ UNCHANGED <<queue, worker, job, block, client, issued, result, log, within, posted>>

ExitThread ==
  /\ thread = "running"
  /\ thread' = "exiting"
  /\ queue' = Append(queue, ExitJob)
  /\ UNCHANGED <<worker, job, block, client, issued, result, log, within, posted>>

-----------------------------------------------------------------------------
\* Operations issued by a client thread.

Owner(o) == o[1]
BlockOf(t) == IF block # NoOp /\ Owner(block) = t THEN block ELSE NoOp

\* t, or its block on the worker while t waits, issues its next operation;
\* the operation's result is r to begin with
Issue(t, r) ==
  /\ issued[t] < MaxOps[t]
  /\ issued' = [issued EXCEPT ![t] = @ + 1]
  /\ result' = [result EXCEPT ![<<t, issued[t] + 1>>] = r]
  /\ within' = [within EXCEPT ![<<t, issued[t] + 1>>] = BlockOf(t)]

\* Mutant: the last in is the first out.
SendFront(kind, t) ==
  queue' = <<[kind |-> kind, op |-> <<t, issued[t] + 1>>]>> \o queue

Send(kind, t) == queue' = Append(queue, [kind |-> kind, op |-> <<t, issued[t] + 1>>])

\* A blocking call of t, or a block run by a delegate: it throws when the
\* thread state is in absent, fails when nothing is accepted, or waits.
Blocking(kind, t, absent) ==
  /\ client[t] = "ready"
  /\ \/ thread \in absent /\ Issue(t, "threw") /\ UNCHANGED <<queue, client>>
     \/ /\ thread \notin absent \cup {"running"}
        /\ Issue(t, "busy")
        /\ UNCHANGED <<queue, client>>
     \/ /\ thread = "running"
        /\ Issue(t, "pending")
        /\ Send(kind, t)
        /\ client' = [client EXCEPT ![t] = "waiting"]
  /\ UNCHANGED <<thread, worker, job, block, log, posted>>

\* AsyncInvoke with a caller other than the worker: GetThreadId throws when
\* there is no std::thread
BlockingCall(t) == Blocking("call", t, {"none", "gone"})

\* a delegate to a whole function: DispatchDelegate tests m_exit, which
\* ExitThread leaves set, before it throws
BlockExecute(t) == Blocking("block", t, {"none"})

\* GetThreadId throws before there is a future
NoFuture(t) ==
  /\ thread \in {"none", "gone"}
  /\ Issue(t, "noFuture")
  /\ UNCHANGED <<queue, client>>

\* Mutant: the promise outlives the message that was not accepted.
FutureKept(t) ==
  \/ NoFuture(t)
  \/ thread = "exiting" /\ Issue(t, "pending") /\ UNCHANGED <<queue, client>>
  \/ thread = "running" /\ Issue(t, "pending") /\ Send("future", t) /\ UNCHANGED client

\* Mutant: messages are accepted behind the exit message.
FutureAccepted(t) ==
  \/ NoFuture(t)
  \/ /\ thread \in {"running", "exiting"}
     /\ Issue(t, "pending")
     /\ Send("future", t)
     /\ UNCHANGED client

\* Mutant: the message is queued although the promise is given up.
FutureRefusedButQueued(t) ==
  \/ NoFuture(t)
  \/ thread = "exiting" /\ Issue(t, "broken") /\ Send("future", t) /\ UNCHANGED client
  \/ thread = "running" /\ Issue(t, "pending") /\ Send("future", t) /\ UNCHANGED client

\* AsyncInvokeFuture: the outcome of DispatchDelegate is ignored, and a
\* message that is not accepted takes the promise with it
Future(t) ==
  \/ NoFuture(t)
  \/ thread = "exiting" /\ Issue(t, "broken") /\ UNCHANGED <<queue, client>>
  \/ thread = "running" /\ Issue(t, "pending") /\ Send("future", t) /\ UNCHANGED client

FutureCall(t) ==
  /\ client[t] = "ready"
  /\ Future(t)
  /\ UNCHANGED <<thread, worker, job, block, log, posted>>

\* sqlite3_interrupt, sqlite3_db_filename, ...: SQLite is called on the
\* client's own thread
DirectEnter(t) ==
  /\ t \in DirectClient
  /\ client[t] = "ready"
  /\ Issue(t, "direct")
  /\ client' = [client EXCEPT ![t] = "direct"]
  /\ UNCHANGED <<thread, queue, worker, job, block, log, posted>>

DirectLeave(t) ==
  /\ client[t] = "direct"
  /\ client' = [client EXCEPT ![t] = "ready"]
  /\ result' = [result EXCEPT ![<<t, issued[t]>>] = "ok"]
  /\ UNCHANGED <<thread, queue, worker, job, block, issued, log, within, posted>>

-----------------------------------------------------------------------------
\* The worker.

\* Mutant: the exit message is handled like any other.
TakeExitAsCall ==
  /\ worker = "idle"
  /\ queue # <<>>
  /\ queue' = Tail(queue)
  /\ job' = Head(queue)
  /\ IF Head(queue).kind = "block"
       THEN worker' = "block" /\ block' = Head(queue).op
       ELSE worker' = "sqlite" /\ UNCHANGED block
  /\ UNCHANGED <<thread, client, issued, result, log, within, posted>>

\* Process takes the next message; the exit message ends it, and by then
\* nothing is left to clear
Take ==
  /\ worker = "idle"
  /\ queue # <<>>
  /\ queue' = Tail(queue)
  /\ IF Head(queue) = ExitJob
       THEN thread' = "gone" /\ UNCHANGED <<worker, job, block>>
       ELSE /\ job' = Head(queue)
            /\ IF Head(queue).kind = "block"
                 THEN worker' = "block" /\ block' = Head(queue).op
                 ELSE worker' = "sqlite" /\ UNCHANGED block
            /\ UNCHANGED thread
  /\ UNCHANGED <<client, issued, result, log, within, posted>>

\* what is recorded for an operation that has run: a caller that was told
\* something already is not told anything else
Answer(o) == IF result[o] = "pending" THEN "ok" ELSE result[o]

\* the caller of a blocking call or of a block goes on
Resume(o) == client' = [client EXCEPT ![Owner(o)] = "ready"]

\* a queued operation leaves SQLite: return value or promise is set
Finish ==
  /\ worker = "sqlite"
  /\ log' = Append(log, job.op)
  /\ result' = [result EXCEPT ![job.op] = Answer(job.op)]
  /\ worker' = "idle"
  /\ IF job.kind = "call" THEN Resume(job.op) ELSE UNCHANGED client
  /\ UNCHANGED <<thread, queue, job, block, issued, within, posted>>

\* Mutant: AsyncInvoke does not compare thread ids and waits for itself.
InlineEnterQueued ==
  LET t == Owner(block)
  IN /\ worker = "block"
     /\ Issue(t, "pending")
     /\ Send("future", t)
     /\ worker' = "selfwait"
     /\ UNCHANGED <<thread, job, block, client, log, posted>>

\* Mutant: a wrapper called by a block is queued, and not waited for.
InlineEnterPosted ==
  LET t == Owner(block)
  IN /\ worker = "block"
     /\ Issue(t, "pending")
     /\ Send("future", t)
     /\ UNCHANGED <<thread, worker, job, block, client, log, posted>>

\* a blocking wrapper called by the block: std::invoke on the spot
InlineEnter ==
  /\ worker = "block"
  /\ Issue(Owner(block), "pending")
  /\ worker' = "inline"
  /\ UNCHANGED <<thread, queue, job, block, client, log, posted>>

InlineLeave ==
  LET o == <<Owner(block), issued[Owner(block)]>>
  IN /\ worker = "inline"
     /\ log' = Append(log, o)
     /\ result' = [result EXCEPT ![o] = Answer(o)]
     /\ worker' = "block"
     /\ UNCHANGED <<thread, queue, job, block, client, issued, within, posted>>

\* a future wrapper called by the block: queued like any other
BlockFuture ==
  /\ worker = "block"
  /\ LET t == Owner(block)
     IN Future(t) /\ posted' = posted \cup {<<t, issued[t] + 1>>}
  /\ UNCHANGED <<thread, worker, job, block, log>>

BlockReturns ==
  /\ worker = "block"
  /\ worker' = "idle"
  /\ result' = [result EXCEPT ![block] = Answer(block)]
  /\ Resume(block)
  /\ block' = NoOp
  /\ UNCHANGED <<thread, queue, job, issued, log, within, posted>>

-----------------------------------------------------------------------------
ClientStep(t) ==
  \/ BlockingCall(t) \/ BlockExecute(t) \/ FutureCall(t)
  \/ DirectEnter(t) \/ DirectLeave(t)
WorkerStep ==
  Take \/ Finish \/ InlineEnter \/ InlineLeave \/ BlockFuture \/ BlockReturns

Next == InitAsync \/ ExitThread \/ WorkerStep \/ \E t \in Client : ClientStep(t)

Spec == Init /\ [][Next]_vars

\* the worker is scheduled, SQLite's functions return, and so do blocks
FairSpec == Spec /\ WF_vars(Take \/ Finish \/ InlineLeave) /\ WF_vars(BlockReturns)

-----------------------------------------------------------------------------
Result == {"none", "pending", "direct", "ok", "busy", "threw", "noFuture", "broken"}

TypeOK ==
  /\ thread \in {"none", "running", "exiting", "gone"}
  /\ queue \in Seq(Job)
  /\ worker \in {"idle", "sqlite", "block", "inline"}
  /\ job \in Job
  /\ block \in Op \cup {NoOp}
  /\ client \in [Client -> {"ready", "waiting", "direct"}]
  /\ issued \in [Client -> Nat]
  /\ \A t \in Client : issued[t] <= MaxOps[t]
  /\ result \in [Op -> Result]
  /\ log \in Seq(Op)
  /\ within \in [Op -> Op \cup {NoOp}]
  /\ posted \subseteq Op

\* a runs before b in the log
RunsBefore(a, b) ==
  \E i, j \in DOMAIN log : i < j /\ log[i] = a /\ log[j] = b

Ran(o) == \E i \in DOMAIN log : log[i] = o

(***************************************************************************)
(* An operation a client issued before another runs before it, whichever   *)
(* mix of blocking and future calls it uses, and whatever shutdowns and    *)
(* restarts come between.                                                  *)
(***************************************************************************)
ProgramOrder ==
  \A t \in Client : \A m, n \in 1 .. MaxOps[t] :
    /\ m < n
    /\ within[<<t, m>>] = NoOp
    /\ within[<<t, n>>] = NoOp
    => ~RunsBefore(<<t, n>>, <<t, m>>)

(***************************************************************************)
(* README.md:295: what a block runs on the worker through the blocking     *)
(* wrappers "cannot be interrupted by other operations on the database".   *)
(***************************************************************************)
BlockAtomic ==
  \A i, j, k \in DOMAIN log :
    /\ i < j /\ j < k
    /\ within[log[i]] # NoOp
    /\ within[log[i]] = within[log[k]]
    /\ log[i] \notin posted /\ log[k] \notin posted
    => within[log[j]] = within[log[i]]

(***************************************************************************)
(* An operation whose caller or future was told that it failed has not run *)
(* and never will, not even after the thread is started again; and none    *)
(* runs twice.                                                             *)
(***************************************************************************)
ResultTellsTruth ==
  \A o \in Op :
    /\ result[o] \in {"busy", "threw", "noFuture", "broken"} => ~Ran(o)
    /\ \A i, j \in DOMAIN log : log[i] = o /\ log[j] = o => i = j

(***************************************************************************)
(* Shutting the worker down answers everyone: once it is gone no future is *)
(* pending, no caller waits, and the queue is empty.                       *)
(***************************************************************************)
ExitDrains ==
  thread = "gone" =>
    /\ queue = <<>>
    /\ \A t \in Client : client[t] # "waiting"
    /\ \A o \in Op : result[o] # "pending"

(***************************************************************************)
(* Every future becomes ready, with a value or with broken_promise.        *)
(***************************************************************************)
FuturesResolve == \A o \in Op : result[o] = "pending" ~> result[o] # "pending"

(***************************************************************************)
(* A block that calls the blocking wrappers on the worker does not wait    *)
(* for itself: AsyncInvoke runs the operation inline.                      *)
(***************************************************************************)
BlockEnds == block # NoOp ~> block = NoOp

(***************************************************************************)
(* The wrappers, the worker and its queue implement SerialDatabase: each   *)
(* accepted operation takes effect at one instant, in its client's order,  *)
(* never while somebody else's function holds the database; a refused one  *)
(* never does.  All that across shutdowns and restarts of the worker.      *)
(***************************************************************************)
StatusOf(o) ==
  CASE result[o] = "none" -> "new"
    [] result[o] = "pending" -> "accepted"
    [] result[o] = "direct" -> "beside"
    [] result[o] = "ok" -> "done"
    [] OTHER -> "refused"

SD == INSTANCE SerialDatabase WITH status <- [o \in Op |-> StatusOf(o)], holder <- block
ImplementsSerialDatabase == SD!Spec

(***************************************************************************)
(* README.md:38: "the database handle is accessed exclusively by the       *)
(* worker thread".                                                         *)
(***************************************************************************)
HandleExclusive ==
  \A t \in Client :
    client[t] = "direct" =>
      /\ worker \notin {"sqlite", "inline"}
      /\ \A u \in Client \ {t} : client[u] # "direct"

(***************************************************************************)
(* README.md:40: "Operations execute in the strict order they are          *)
(* submitted (FIFO)."  Also those a function running on the worker         *)
(* submits: a future first, then a blocking call.                          *)
(***************************************************************************)
SubmissionOrder ==
  \A t \in Client : \A m, n \in 1 .. MaxOps[t] :
    m < n => ~(Ran(<<t, n>>) /\ result[<<t, m>>] = "pending" /\ <<t, m>> \in posted)

(***************************************************************************)
(* async_sqlite3.cpp:32-39: without a worker a future wrapper returns a    *)
(* future that holds the error; it does not throw.                         *)
(***************************************************************************)
FutureNeverThrows == \A o \in Op : result[o] # "noFuture"
=============================================================================
