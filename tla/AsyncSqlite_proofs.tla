----------------------- MODULE AsyncSqlite_proofs --------------------------
(***************************************************************************)
(* Proofs about AsyncSqlite, for any clients, any of which may use the     *)
(* direct wrappers, and any number of operations and restarts: what its    *)
(* clients observe, that it implements SerialDatabase, and what it owes    *)
(* to that.                                                                *)
(***************************************************************************)
EXTENDS AsyncSqlite, TLAPS

-----------------------------------------------------------------------------
(***************************************************************************)
(* The inductive invariant.                                                *)
(***************************************************************************)
Num(o) == o[2]

\* the operation a client issues next, and the one a block runs on the spot
New(t) == <<t, issued[t] + 1>>
Inline == <<Owner(block), issued[Owner(block)]>>

InBlock == worker \in {"block", "inline"}
IsWork(j) == j.kind # "exit"
IsSync(j) == j.kind \in {"call", "block"}

Queued(o) == \E i \in 1 .. Len(queue) : IsWork(queue[i]) /\ queue[i].op = o

\* what the worker has taken from the queue and not answered
Serving(o) == (worker = "sqlite" /\ job.op = o) \/ (InBlock /\ block = o)

\* the exit message is last, and nothing is queued or done without a thread
LifeInv ==
  /\ thread \in {"none", "gone"} => queue = <<>> /\ worker = "idle"
  /\ thread = "running" => \A i \in 1 .. Len(queue) : IsWork(queue[i])
  /\ thread = "exiting" =>
       /\ Len(queue) > 0
       /\ \A i \in 1 .. Len(queue) : IsWork(queue[i]) <=> i < Len(queue)

WorkInv ==
  /\ InBlock <=> block # NoOp
  /\ worker = "sqlite" => job.kind \in {"call", "future"}

\* operations are numbered in the order they are issued
NumberInv ==
  /\ \A o \in Op : result[o] = "none" <=> Num(o) > issued[Owner(o)]
  /\ \A t \in Client : client[t] = "direct" =>
       issued[t] > 0 /\ result[<<t, issued[t]>>] = "direct"
  /\ worker = "inline" => issued[Owner(block)] > Num(block)

\* an operation without an answer is in one place: in the queue, with the
\* worker, or on the spot in a block
PlaceInv ==
  /\ \A o \in Op :
       result[o] = "pending" <=>
         Queued(o) \/ Serving(o) \/ (worker = "inline" /\ o = Inline)
  /\ worker = "inline" => ~Queued(Inline)

\* the queue holds a client's operations by number, later than what is served
OrderInv ==
  /\ \A i, j \in 1 .. Len(queue) :
       /\ i < j /\ IsWork(queue[i]) /\ IsWork(queue[j])
       /\ Owner(queue[i].op) = Owner(queue[j].op)
       => Num(queue[i].op) < Num(queue[j].op)
  /\ \A i \in 1 .. Len(queue), o \in Op :
       IsWork(queue[i]) /\ Serving(o) /\ Owner(queue[i].op) = Owner(o)
       => Num(o) < Num(queue[i].op)

\* the call or block a client waits for, in the queue or with the worker
QueuedSync(t) ==
  \E i \in 1 .. Len(queue) : IsSync(queue[i]) /\ Owner(queue[i].op) = t
ServedSync(t) ==
  \/ worker = "sqlite" /\ job.kind = "call" /\ Owner(job.op) = t
  \/ InBlock /\ Owner(block) = t

\* a client waits exactly for one thing
WaitInv ==
  /\ \A t \in Client : client[t] = "waiting" <=> QueuedSync(t) \/ ServedSync(t)
  /\ \A t \in Client : ServedSync(t) => ~QueuedSync(t)
  /\ \A i, j \in 1 .. Len(queue) :
       /\ IsSync(queue[i]) /\ IsSync(queue[j])
       /\ Owner(queue[i].op) = Owner(queue[j].op)
       => i = j

\* only what has been answered with a value is in the log, once
LogInv ==
  /\ \A i \in 1 .. Len(log) : result[log[i]] = "ok"
  /\ \A i, j \in 1 .. Len(log) : log[i] = log[j] => i = j

\* no earlier operation of a client is outstanding when a later one has run
Overtaken(o, p) ==
  /\ Owner(o) = Owner(p) /\ Num(o) < Num(p)
  /\ within[o] = NoOp /\ within[p] = NoOp
ProgramInv ==
  \A o \in Op : \A i \in 1 .. Len(log) :
    Overtaken(o, log[i]) => result[o] # "pending"

\* what a block runs on the spot comes while the block runs, and ends the log
BlockInv ==
  /\ \A o \in Op : within[o] # NoOp => within[o] = block \/ result[within[o]] = "ok"
  /\ \A o \in Op :
       within[o] # NoOp /\ o \notin posted /\ result[o] = "pending" =>
         worker = "inline" /\ o = Inline
  /\ worker = "inline" => within[Inline] = block
  /\ block # NoOp => \A i, j \in 1 .. Len(log) :
       i < j /\ within[log[i]] = block /\ log[i] \notin posted => within[log[j]] = block

IInv ==
  /\ TypeOK /\ LifeInv /\ WorkInv /\ NumberInv /\ PlaceInv /\ OrderInv /\ WaitInv
  /\ LogInv /\ ProgramInv /\ BlockInv

-----------------------------------------------------------------------------
(***************************************************************************)
(* Operations and messages.                                                *)
(***************************************************************************)
LEMMA OpFacts ==
  \A o \in Op :
    /\ Owner(o) \in Client /\ Num(o) \in 1 .. MaxOps[Owner(o)]
    /\ Num(o) \in Nat
    /\ o = <<Owner(o), Num(o)>> /\ o # NoOp
<1> SUFFICES ASSUME NEW o \in Op
             PROVE  /\ Owner(o) \in Client /\ Num(o) \in 1 .. MaxOps[Owner(o)]
                    /\ Num(o) \in Nat
                    /\ o = <<Owner(o), Num(o)>> /\ o # NoOp
  OBVIOUS
<1>1. PICK t \in Client : o \in {t} \X (1 .. MaxOps[t])
  BY DEF Op
<1>2. MaxOps[t] \in Nat
  BY AsyncSqliteAssumption
<1>3. o = <<o[1], o[2]>> /\ o[1] = t /\ o[2] \in 1 .. MaxOps[t]
  BY <1>1
<1>4. <<o[1], o[2]>> # <<>>
  OBVIOUS
<1>5. QED
  BY <1>2, <1>3, <1>4 DEF Owner, Num, NoOp

LEMMA SameOp ==
  \A o, p \in Op : Owner(o) = Owner(p) /\ Num(o) = Num(p) => o = p
BY OpFacts

LEMMA PairIsOp ==
  ASSUME NEW t \in Client, NEW n \in 1 .. MaxOps[t]
  PROVE  <<t, n>> \in Op /\ Owner(<<t, n>>) = t /\ Num(<<t, n>>) = n
BY DEF Op, Owner, Num

LEMMA JobFacts ==
  \A j \in Job :
    /\ j = ExitJob <=> ~IsWork(j)
    /\ IsWork(j) => j.kind \in {"call", "block", "future"} /\ j.op \in Op
    /\ IsSync(j) => IsWork(j)
BY DEF Job, ExitJob, IsWork, IsSync

\* the next operation of a client, if it may issue one
LEMMA NewFacts ==
  ASSUME TypeOK, NumberInv, NEW t \in Client, issued[t] < MaxOps[t]
  PROVE  /\ New(t) \in Op /\ Owner(New(t)) = t /\ Num(New(t)) = issued[t] + 1
         /\ result[New(t)] = "none"
<1>1. issued[t] + 1 \in 1 .. MaxOps[t] /\ issued[t] \in Nat
  BY AsyncSqliteAssumption DEF TypeOK
<1>2. New(t) \in Op /\ Owner(New(t)) = t /\ Num(New(t)) = issued[t] + 1
  BY <1>1, PairIsOp DEF New
<1>3. QED
  BY <1>1, <1>2 DEF NumberInv

\* the last operation of a client
LEMMA LastFacts ==
  ASSUME TypeOK, NEW t \in Client, issued[t] > 0
  PROVE  /\ <<t, issued[t]>> \in Op /\ Owner(<<t, issued[t]>>) = t
         /\ Num(<<t, issued[t]>>) = issued[t]
<1>1. issued[t] \in 1 .. MaxOps[t]
  BY AsyncSqliteAssumption DEF TypeOK
<1>2. QED
  BY <1>1, PairIsOp

LEMMA BlockFacts ==
  ASSUME TypeOK, WorkInv, NumberInv, worker \in {"block", "inline"}
  PROVE  /\ block \in Op /\ Owner(block) \in Client
         /\ worker = "inline" => Inline \in Op /\ Owner(Inline) = Owner(block)
                                   /\ Num(Inline) = issued[Owner(block)]
                                   /\ Inline # block
<1>1. block \in Op /\ Owner(block) \in Client /\ Num(block) \in Nat
  BY OpFacts DEF TypeOK, WorkInv, InBlock
<1>2. ASSUME worker = "inline"
      PROVE  issued[Owner(block)] > Num(block) /\ issued[Owner(block)] > 0
  BY <1>1, <1>2 DEF NumberInv, TypeOK
<1>3. QED
  BY <1>1, <1>2, LastFacts DEF Inline

-----------------------------------------------------------------------------
(***************************************************************************)
(* The steps by which an operation is issued, whoever issues it.           *)
(***************************************************************************)
Issues(t, r, b) ==
  /\ issued[t] < MaxOps[t]
  /\ issued' = [issued EXCEPT ![t] = @ + 1]
  /\ result' = [result EXCEPT ![New(t)] = r]
  /\ within' = [within EXCEPT ![New(t)] = b]
  /\ UNCHANGED <<thread, job, block, log>>

ByClient(t, b) == client[t] = "ready" /\ b = NoOp /\ UNCHANGED posted
ByBlock(t, b) ==
  worker = "block" /\ t = Owner(block) /\ b = block /\ posted' = posted \cup {New(t)}

\* it is refused
Refusal(t, r, b) ==
  /\ r \in {"busy", "threw", "noFuture", "broken"}
  /\ Issues(t, r, b)
  /\ ByClient(t, b) \/ ByBlock(t, b)
  /\ UNCHANGED <<queue, worker, client>>

\* a future is queued
Posting(t, b) ==
  /\ thread = "running"
  /\ Issues(t, "pending", b)
  /\ ByClient(t, b) \/ ByBlock(t, b)
  /\ Send("future", t)
  /\ UNCHANGED <<worker, client>>

\* a call or a block is queued and waited for
Calling(t, kind) ==
  /\ thread = "running"
  /\ kind \in {"call", "block"}
  /\ Issues(t, "pending", NoOp)
  /\ ByClient(t, NoOp)
  /\ Send(kind, t)
  /\ client' = [client EXCEPT ![t] = "waiting"]
  /\ UNCHANGED worker

\* it goes to SQLite without a queue: from a client, or from a block
Bypassing(t) ==
  /\ Issues(t, "direct", NoOp)
  /\ ByClient(t, NoOp)
  /\ client' = [client EXCEPT ![t] = "direct"]
  /\ UNCHANGED <<queue, worker>>

Inlining(t) ==
  /\ worker = "block" /\ t = Owner(block)
  /\ Issues(t, "pending", block)
  /\ worker' = "inline"
  /\ UNCHANGED <<queue, client, posted>>

Issuing(t) ==
  \/ \E r \in Result, b \in Op \cup {NoOp} : Refusal(t, r, b)
  \/ \E b \in Op \cup {NoOp} : Posting(t, b)
  \/ \E kind \in {"call", "block"} : Calling(t, kind)
  \/ Bypassing(t)
  \/ Inlining(t)

\* A client that is not waiting has no block on the worker.
LEMMA ReadyHasNoBlock ==
  ASSUME IInv, NEW t \in Client, client[t] # "waiting"
  PROVE  BlockOf(t) = NoOp
BY DEF IInv, WaitInv, ServedSync, WorkInv, BlockOf

LEMMA ClientIssues ==
  ASSUME IInv, NEW t \in Client,
         BlockingCall(t) \/ BlockExecute(t) \/ FutureCall(t) \/ DirectEnter(t)
  PROVE  Issuing(t)
<1> client[t] = "ready" /\ BlockOf(t) = NoOp
  BY ReadyHasNoBlock DEF BlockingCall, BlockExecute, FutureCall, DirectEnter, Blocking
<1> USE DEF Issue, Issues, ByClient, Refusal, Posting, Calling, New, Result
<1>1. ASSUME NEW kind \in {"call", "block"}, NEW absent, "running" \notin absent,
             Blocking(kind, t, absent)
      PROVE  Issuing(t)
  <2>1. CASE thread \in absent
    <3>1. Refusal(t, "threw", NoOp)
      BY <1>1, <2>1 DEF Blocking
    <3>2. QED
      BY <3>1 DEF Issuing
  <2>2. CASE thread \notin absent \cup {"running"}
    <3>1. Refusal(t, "busy", NoOp)
      BY <1>1, <2>2 DEF Blocking
    <3>2. QED
      BY <3>1 DEF Issuing
  <2>3. CASE thread \notin absent /\ thread = "running"
    <3>1. Calling(t, kind)
      BY <1>1, <2>3 DEF Blocking
    <3>2. QED
      BY <3>1 DEF Issuing
  <2>4. QED
    BY <2>1, <2>2, <2>3
<1>2. CASE FutureCall(t)
  <2>1. \/ \E r \in Result : Refusal(t, r, NoOp)
        \/ Posting(t, NoOp)
    BY <1>2 DEF FutureCall, Future, NoFuture
  <2>2. QED
    BY <2>1 DEF Issuing
<1>3. CASE DirectEnter(t)
  BY <1>3 DEF DirectEnter, Issuing, Bypassing
<1>4. QED
  BY <1>1, <1>2, <1>3 DEF BlockingCall, BlockExecute

LEMMA BlockIssues ==
  ASSUME IInv, InlineEnter \/ BlockFuture
  PROVE  Owner(block) \in Client /\ Issuing(Owner(block))
<1>1. worker = "block" /\ block \in Op /\ Owner(block) \in Client
  BY BlockFacts DEF IInv, InlineEnter, BlockFuture
<1>2. block # NoOp
  BY <1>1, OpFacts
<1> DEFINE t == Owner(block)
<1>3. BlockOf(t) = block
  BY <1>2 DEF BlockOf
<1>4. CASE InlineEnter
  <2>1. Inlining(t)
    BY <1>1, <1>3, <1>4 DEF InlineEnter, Inlining, Issues, Issue, New
  <2>2. QED
    BY <1>1, <2>1 DEF Issuing
<1>5. CASE BlockFuture
  <2>1. \/ \E r \in Result : Refusal(t, r, block)
        \/ Posting(t, block)
    BY <1>1, <1>3, <1>5 DEF BlockFuture, Future, NoFuture, Refusal, Posting,
       Issues, Issue, ByBlock, New, Result
  <2>2. QED
    BY <1>1, <2>1 DEF Issuing
<1>6. QED
  BY <1>4, <1>5

LEMMA Steps ==
  ASSUME IInv, Next
  PROVE  \/ InitAsync \/ ExitThread
         \/ Take \/ Finish \/ InlineLeave \/ BlockReturns
         \/ \E t \in Client : Issuing(t) \/ DirectLeave(t)
BY ClientIssues, BlockIssues DEF Next, WorkerStep, ClientStep

\* An operation that has just been issued is nowhere yet.
LEMMA Fresh ==
  ASSUME IInv, NEW t \in Client, NEW r, NEW b, Issues(t, r, b)
  PROVE  /\ New(t) \in Op /\ Owner(New(t)) = t /\ Num(New(t)) = issued[t] + 1
         /\ result[New(t)] = "none"
         /\ \A o \in Op : result'[o] = IF o = New(t) THEN r ELSE result[o]
         /\ \A o \in Op : within'[o] = IF o = New(t) THEN b ELSE within[o]
         /\ \A u \in Client : issued'[u] = IF u = t THEN issued[t] + 1 ELSE issued[u]
         /\ ~Queued(New(t)) /\ ~Serving(New(t))
         /\ worker = "inline" => New(t) # Inline
         /\ \A i \in 1 .. Len(log) : log[i] # New(t)
         /\ \A o \in Op : within[o] # New(t)
         /\ block # New(t)
<1>1. /\ New(t) \in Op /\ Owner(New(t)) = t /\ Num(New(t)) = issued[t] + 1
      /\ result[New(t)] = "none"
  BY NewFacts DEF IInv, Issues
<1>2. /\ \A o \in Op : result'[o] = IF o = New(t) THEN r ELSE result[o]
      /\ \A o \in Op : within'[o] = IF o = New(t) THEN b ELSE within[o]
      /\ \A u \in Client : issued'[u] = IF u = t THEN issued[t] + 1 ELSE issued[u]
  BY <1>1 DEF Issues, IInv, TypeOK
<1>3. ~Queued(New(t)) /\ ~Serving(New(t)) /\ (worker = "inline" => New(t) # Inline)
  BY <1>1 DEF IInv, PlaceInv
<1>4. \A i \in 1 .. Len(log) : log[i] # New(t)
  BY <1>1 DEF IInv, LogInv
<1>5. block # New(t)
  BY <1>1, <1>3, OpFacts DEF Serving, IInv, WorkInv
<1>6. \A o \in Op : within[o] # New(t)
  BY <1>1, <1>5, OpFacts DEF IInv, BlockInv
<1>7. QED
  BY <1>1, <1>2, <1>3, <1>4, <1>5, <1>6

\* what Take finds, unless it is the exit message
LEMMA TakeFacts ==
  ASSUME IInv, Take
  PROVE  /\ Len(queue) > 0 /\ Head(queue) \in Job /\ Head(queue) = queue[1]
         /\ queue' \in Seq(Job) /\ Len(queue') = Len(queue) - 1
         /\ \A i \in 1 .. Len(queue') : queue'[i] = queue[i + 1]
         /\ \/ /\ Head(queue) = ExitJob /\ ~IsWork(queue[1]) /\ queue' = <<>>
               /\ thread = "exiting" /\ thread' = "gone"
               /\ UNCHANGED <<worker, job, block>>
            \/ /\ IsWork(queue[1]) /\ queue[1].op \in Op
               /\ thread \in {"running", "exiting"} /\ thread' = thread
               /\ job' = queue[1]
               /\ \/ queue[1].kind = "block" /\ worker' = "block" /\ block' = queue[1].op
                  \/ /\ queue[1].kind \in {"call", "future"}
                     /\ worker' = "sqlite" /\ block' = block
<1>1. /\ Len(queue) > 0 /\ Head(queue) \in Job /\ Head(queue) = queue[1]
      /\ queue' \in Seq(Job) /\ Len(queue') = Len(queue) - 1
      /\ \A i \in 1 .. Len(queue') : queue'[i] = queue[i + 1]
  BY DEF Take, IInv, TypeOK
<1>2. thread \in {"running", "exiting"}
  BY <1>1 DEF IInv, TypeOK, LifeInv
<1>3. CASE Head(queue) = ExitJob
  <2>1. ~IsWork(queue[1])
    BY <1>1, <1>3, JobFacts
  <2>2. thread = "exiting" /\ Len(queue) = 1
    BY <1>1, <1>2, <2>1 DEF IInv, LifeInv, TypeOK
  <2>3. queue' = <<>>
    BY <1>1, <2>2
  <2>4. QED
    BY <1>1, <1>3, <2>1, <2>2, <2>3 DEF Take
<1>4. CASE Head(queue) # ExitJob
  <2>1. IsWork(queue[1]) /\ queue[1].op \in Op /\ queue[1].kind \in {"call", "block", "future"}
    BY <1>1, <1>4, JobFacts
  <2>2. QED
    BY <1>1, <1>2, <1>4, <2>1 DEF Take
<1>5. QED
  BY <1>3, <1>4

\* what a block runs on the spot, and the operation in SQLite
LEMMA ServedFacts ==
  ASSUME IInv
  PROVE  /\ worker = "sqlite" => job \in Job /\ job.op \in Op /\ result[job.op] = "pending"
         /\ InBlock => block \in Op /\ result[block] = "pending"
         /\ worker = "inline" => Inline \in Op /\ result[Inline] = "pending"
<1>1. worker = "sqlite" => job \in Job /\ job.op \in Op
  BY JobFacts DEF IInv, TypeOK, WorkInv, IsWork
<1>2. InBlock => block \in Op
  BY OpFacts DEF IInv, TypeOK, WorkInv
<1>3. worker = "inline" => Inline \in Op
  BY BlockFacts DEF IInv
<1>4. QED
  BY <1>1, <1>2, <1>3 DEF IInv, PlaceInv, Serving

LEMMA TypeStep ==
  ASSUME IInv, Next
  PROVE  TypeOK'
<1> TypeOK
  BY DEF IInv
<1> USE DEF TypeOK, Result
<1>1. CASE InitAsync
  BY <1>1 DEF InitAsync
<1>2. CASE ExitThread
  BY <1>2 DEF ExitThread, Job
<1>3. CASE Take
  BY <1>3, TakeFacts DEF Take
<1>4. CASE Finish
  <2>1. job.op \in Op /\ Owner(job.op) \in Client
    BY <1>4, ServedFacts, OpFacts DEF Finish
  <2>2. log' \in Seq(Op) /\ result' \in [Op -> Result]
    BY <1>4, <2>1 DEF Finish, Answer
  <2>3. client' \in [Client -> {"ready", "waiting", "direct"}]
    BY <1>4, <2>1 DEF Finish, Resume
  <2>4. QED
    BY <1>4, <2>2, <2>3 DEF Finish
<1>5. CASE InlineLeave
  <2>1. Inline \in Op
    BY <1>5, ServedFacts DEF InlineLeave
  <2>2. QED
    BY <1>5, <2>1 DEF InlineLeave, Inline, Answer
<1>6. CASE BlockReturns
  <2>1. block \in Op /\ Owner(block) \in Client
    BY <1>6, ServedFacts, OpFacts DEF BlockReturns, InBlock
  <2>2. QED
    BY <1>6, <2>1 DEF BlockReturns, Resume, Answer
<1>7. ASSUME NEW t \in Client, DirectLeave(t)
      PROVE  TypeOK'
  BY <1>7 DEF DirectLeave
<1>8. ASSUME NEW t \in Client, Issuing(t)
      PROVE  TypeOK'
  <2>1. ASSUME NEW r \in Result, NEW b \in Op \cup {NoOp}, Issues(t, r, b)
        PROVE  /\ result' \in [Op -> Result] /\ within' \in [Op -> Op \cup {NoOp}]
               /\ issued' \in [Client -> Nat] /\ \A u \in Client : issued'[u] <= MaxOps[u]
               /\ New(t) \in Op
               /\ UNCHANGED <<thread, job, block, log>>
    <3>1. New(t) \in Op
      BY <2>1, Fresh
    <3>2. issued' \in [Client -> Nat] /\ \A u \in Client : issued'[u] <= MaxOps[u]
      <4>1. issued' \in [Client -> Nat]
        BY <2>1 DEF Issues
      <4>2. MaxOps[t] \in Nat /\ issued[t] \in Nat /\ issued[t] < MaxOps[t]
        BY <2>1, AsyncSqliteAssumption DEF Issues
      <4>3. \A u \in Client : issued'[u] = IF u = t THEN issued[t] + 1 ELSE issued[u]
        BY <2>1 DEF Issues
      <4>4. ASSUME NEW u \in Client
            PROVE  issued'[u] <= MaxOps[u]
        <5>1. issued[u] <= MaxOps[u]
          OBVIOUS
        <5>2. CASE u = t
          BY <4>2, <4>3, <5>2
        <5>3. CASE u # t
          BY <4>3, <5>1, <5>3
        <5>4. QED
          BY <5>2, <5>3
      <4>5. QED
        BY <4>1, <4>4
    <3>3. QED
      BY <2>1, <3>1, <3>2 DEF Issues
  <2>2. ASSUME NEW kind \in {"call", "block", "future"}, New(t) \in Op, Send(kind, t)
        PROVE  queue' \in Seq(Job)
    <3>1. [kind |-> kind, op |-> New(t)] \in Job
      BY <2>2 DEF Job
    <3>2. QED
      BY <2>2, <3>1 DEF Send, New
  <2>3. block \in Op \cup {NoOp}
    OBVIOUS
  <2>4. ASSUME NEW r \in Result, NEW b \in Op \cup {NoOp}, Refusal(t, r, b)
        PROVE  TypeOK'
    BY <2>1, <2>4 DEF Refusal, ByClient, ByBlock
  <2>5. ASSUME NEW b \in Op \cup {NoOp}, Posting(t, b)
        PROVE  TypeOK'
    BY <2>1, <2>2, <2>5 DEF Posting, ByClient, ByBlock
  <2>6. ASSUME NEW kind \in {"call", "block"}, Calling(t, kind)
        PROVE  TypeOK'
    BY <2>1, <2>2, <2>6 DEF Calling, ByClient
  <2>7. CASE Bypassing(t)
    BY <2>1, <2>7 DEF Bypassing, ByClient
  <2>8. CASE Inlining(t)
    BY <2>1, <2>3, <2>8 DEF Inlining
  <2>9. QED
    BY <1>8, <2>4, <2>5, <2>6, <2>7, <2>8 DEF Issuing
<1>9. QED
  BY <1>1, <1>2, <1>3, <1>4, <1>5, <1>6, <1>7, <1>8, Steps

-----------------------------------------------------------------------------
(***************************************************************************)
(* Each part of the invariant is preserved.                                *)
(***************************************************************************)

LEMMA QueueLen == TypeOK => Len(queue) \in Nat /\ queue \in Seq(Job)
BY DEF TypeOK

\* What a message sent adds to the queue.
LEMMA SendFacts ==
  ASSUME IInv, TypeOK', NEW t \in Client, NEW kind \in {"call", "block", "future"},
         thread = "running", Send(kind, t), New(t) \in Op
  PROVE  /\ Len(queue') = Len(queue) + 1
         /\ \A i \in 1 .. Len(queue) : queue'[i] = queue[i] /\ IsWork(queue[i])
         /\ queue'[Len(queue) + 1] = [kind |-> kind, op |-> New(t)]
         /\ IsWork(queue'[Len(queue) + 1])
BY DEF Send, New, IInv, TypeOK, LifeInv, IsWork

LEMMA LifeStep ==
  ASSUME IInv, Next, TypeOK'
  PROVE  LifeInv'
<1> USE DEF LifeInv
<1> TypeOK /\ LifeInv
  BY DEF IInv
<1>1. CASE InitAsync
  BY <1>1 DEF InitAsync
<1>2. CASE ExitThread
  <2>1. /\ Len(queue') = Len(queue) + 1
        /\ \A i \in 1 .. Len(queue) : queue'[i] = queue[i]
        /\ queue'[Len(queue) + 1] = ExitJob
    BY <1>2 DEF ExitThread, TypeOK
  <2>2. QED
    BY <1>2, <2>1 DEF ExitThread, IsWork, ExitJob, TypeOK
<1>3. CASE Take
  BY <1>3, TakeFacts DEF Take, TypeOK
<1>4. CASE Finish
  BY <1>4 DEF Finish
<1>5. CASE InlineLeave
  BY <1>5 DEF InlineLeave
<1>6. CASE BlockReturns
  BY <1>6 DEF BlockReturns
<1>7. ASSUME NEW t \in Client, DirectLeave(t)
      PROVE  LifeInv'
  BY <1>7 DEF DirectLeave
<1>8. ASSUME NEW t \in Client, Issuing(t)
      PROVE  LifeInv'
  <2>1. ASSUME NEW r \in Result, NEW b \in Op \cup {NoOp}, Refusal(t, r, b)
        PROVE  LifeInv'
    BY <2>1 DEF Refusal, Issues
  <2>2. ASSUME NEW b \in Op \cup {NoOp}, Posting(t, b)
        PROVE  LifeInv'
    <3>1. New(t) \in Op
      BY <2>2, Fresh DEF Posting
    <3>2. /\ Len(queue') = Len(queue) + 1
          /\ \A i \in 1 .. Len(queue) : queue'[i] = queue[i] /\ IsWork(queue[i])
          /\ IsWork(queue'[Len(queue) + 1])
      BY <2>2, <3>1, SendFacts DEF Posting
    <3>3. \A i \in 1 .. Len(queue') : IsWork(queue'[i])
      BY <3>1, <3>2, QueueLen DEF IsWork
    <3>4. QED
      BY <2>2, <3>3 DEF Posting, Issues, IsWork
  <2>3. ASSUME NEW kind \in {"call", "block"}, Calling(t, kind)
        PROVE  LifeInv'
    <3>1. New(t) \in Op
      BY <2>3, Fresh DEF Calling
    <3>2. /\ Len(queue') = Len(queue) + 1
          /\ \A i \in 1 .. Len(queue) : queue'[i] = queue[i] /\ IsWork(queue[i])
          /\ IsWork(queue'[Len(queue) + 1])
      BY <2>3, <3>1, SendFacts DEF Calling
    <3>3. \A i \in 1 .. Len(queue') : IsWork(queue'[i])
      BY <3>1, <3>2, QueueLen DEF IsWork
    <3>4. QED
      BY <2>3, <3>3 DEF Calling, Issues, IsWork
  <2>4. CASE Bypassing(t)
    BY <2>4 DEF Bypassing, Issues
  <2>5. CASE Inlining(t)
    BY <2>5 DEF Inlining, Issues
  <2>6. QED
    BY <1>8, <2>1, <2>2, <2>3, <2>4, <2>5 DEF Issuing
<1>9. QED
  BY <1>1, <1>2, <1>3, <1>4, <1>5, <1>6, <1>7, <1>8, Steps

LEMMA WorkStep ==
  ASSUME IInv, Next, TypeOK'
  PROVE  WorkInv'
<1> USE DEF WorkInv, InBlock
<1> TypeOK /\ WorkInv
  BY DEF IInv
<1>1. CASE InitAsync
  BY <1>1 DEF InitAsync
<1>2. CASE ExitThread
  BY <1>2 DEF ExitThread
<1>3. CASE Take
  BY <1>3, TakeFacts, OpFacts DEF Take
<1>4. CASE Finish
  BY <1>4 DEF Finish
<1>5. CASE InlineLeave
  BY <1>5 DEF InlineLeave
<1>6. CASE BlockReturns
  BY <1>6 DEF BlockReturns
<1>7. ASSUME NEW t \in Client, DirectLeave(t)
      PROVE  WorkInv'
  BY <1>7 DEF DirectLeave
<1>8. ASSUME NEW t \in Client, Issuing(t)
      PROVE  WorkInv'
  BY <1>8 DEF Issuing, Refusal, Posting, Calling, Bypassing, Inlining, Issues
<1>9. QED
  BY <1>1, <1>2, <1>3, <1>4, <1>5, <1>6, <1>7, <1>8, Steps

\* Who issues is not inside SQLite.
LEMMA ReadyOrBlock ==
  ASSUME IInv, NEW t \in Client, Issuing(t)
  PROVE  client[t] # "direct"
<1>1. client[t] = "ready" \/ (worker = "block" /\ t = Owner(block))
  BY DEF Issuing, Refusal, Posting, Calling, Bypassing, Inlining, ByClient, ByBlock
<1>2. worker = "block" /\ t = Owner(block) => client[t] = "waiting"
  BY DEF IInv, WaitInv, ServedSync, InBlock
<1>3. QED
  BY <1>1, <1>2

\* Issuing an operation keeps the numbers in step with the results.
LEMMA NumberIssue ==
  ASSUME IInv, TypeOK', NEW t \in Client, NEW r \in Result \ {"none"}, NEW b,
         Issues(t, r, b)
  PROVE  /\ \A o \in Op : result'[o] = "none" <=> Num(o) > issued'[Owner(o)]
         /\ <<t, issued'[t]>> \in Op /\ result'[<<t, issued'[t]>>] = r
         /\ issued'[t] = issued[t] + 1 /\ issued[t] \in Nat
         /\ \A u \in Client \ {t} : issued'[u] = issued[u]
              /\ (issued[u] > 0 => result'[<<u, issued[u]>>] = result[<<u, issued[u]>>])
<1> TypeOK /\ NumberInv
  BY DEF IInv
<1> USE DEF NumberInv
<1>0. Issues(t, r, b)
  OBVIOUS
<1>1. ASSUME NEW o \in Op
      PROVE  result'[o] = "none" <=> Num(o) > issued'[Owner(o)]
  <2>1. CASE o = New(t)
    BY <1>0, <2>1, Fresh DEF TypeOK
  <2>2. CASE o # New(t) /\ Owner(o) # t
    BY <1>0, <2>2, Fresh, OpFacts
  <2>3. CASE o # New(t) /\ Owner(o) = t
    <3>1. Num(o) # issued[t] + 1
      BY <1>0, <2>3, Fresh, SameOp
    <3>2. Num(o) \in Nat /\ issued[t] \in Nat /\ issued'[t] = issued[t] + 1
      BY <1>0, <2>3, Fresh, OpFacts DEF TypeOK
    <3>3. result'[o] = result[o]
      BY <1>0, <2>3, Fresh
    <3>4. QED
      BY <2>3, <3>1, <3>2, <3>3
  <2>4. QED
    BY <2>1, <2>2, <2>3
<1>2. <<t, issued'[t]>> \in Op /\ result'[<<t, issued'[t]>>] = r
  <2>1. /\ New(t) \in Op /\ result'[New(t)] = r
        /\ issued'[t] = issued[t] + 1
    BY <1>0, Fresh
  <2>2. New(t) = <<t, issued'[t]>>
    BY <2>1 DEF New
  <2>3. QED
    BY <2>1, <2>2
<1>3. issued'[t] = issued[t] + 1 /\ issued[t] \in Nat
  BY <1>0, Fresh DEF TypeOK
<1>4. ASSUME NEW u \in Client \ {t}, issued[u] > 0
      PROVE  result'[<<u, issued[u]>>] = result[<<u, issued[u]>>]
  BY <1>0, <1>4, Fresh, LastFacts
<1>5. QED
  BY <1>0, <1>1, <1>2, <1>3, <1>4, Fresh

LEMMA NumberStep ==
  ASSUME IInv, Next, TypeOK'
  PROVE  NumberInv'
<1> USE DEF NumberInv
<1> TypeOK /\ NumberInv
  BY DEF IInv
<1>1. CASE InitAsync
  BY <1>1 DEF InitAsync, Owner, Num
<1>2. CASE ExitThread
  BY <1>2 DEF ExitThread, Owner, Num
<1>3. CASE Take
  BY <1>3, TakeFacts DEF Take, Owner, Num
<1>4. CASE Finish
  <2>1. job.op \in Op /\ result[job.op] = "pending"
    BY <1>4, ServedFacts DEF Finish
  <2>2. client' = client \/ client' = [client EXCEPT ![Owner(job.op)] = "ready"]
    BY <1>4 DEF Finish, Resume
  <2>3. result' = [result EXCEPT ![job.op] = "ok"]
    BY <1>4, <2>1 DEF Finish, Answer
  <2>4. \A u \in Client : client'[u] = "direct" => client[u] = "direct"
    BY <2>1, <2>2, OpFacts DEF TypeOK
  <2>5. \A o \in Op : result[o] \in {"none", "direct"} => result'[o] = result[o]
    BY <2>1, <2>3 DEF TypeOK
  <2>6. \A o \in Op : result'[o] = "none" => result[o] = "none"
    BY <2>1, <2>3 DEF TypeOK
  <2>7. \A u \in Client : issued[u] > 0 => <<u, issued[u]>> \in Op
    BY LastFacts
  <2>8. UNCHANGED <<issued, block>> /\ worker' # "inline"
    BY <1>4 DEF Finish
  <2>9. QED
    BY <2>4, <2>5, <2>6, <2>7, <2>8 DEF Owner, Num
<1>5. CASE InlineLeave
  <2>1. Inline \in Op /\ result[Inline] = "pending"
    BY <1>5, ServedFacts DEF InlineLeave
  <2>2. result' = [result EXCEPT ![Inline] = "ok"]
    BY <1>5, <2>1 DEF InlineLeave, Answer, Inline
  <2>3. QED
    BY <1>5, <2>1, <2>2 DEF InlineLeave, TypeOK, Owner, Num
<1>6. CASE BlockReturns
  <2>1. block \in Op /\ result[block] = "pending"
    BY <1>6, ServedFacts DEF BlockReturns, InBlock
  <2>2. QED
    BY <1>6, <2>1 DEF BlockReturns, Resume, Answer, TypeOK, Owner, Num
<1>7. ASSUME NEW t \in Client, DirectLeave(t)
      PROVE  NumberInv'
  <2>1. <<t, issued[t]>> \in Op /\ result[<<t, issued[t]>>] = "direct"
    BY <1>7, LastFacts DEF DirectLeave
  <2>2. /\ result' = [result EXCEPT ![<<t, issued[t]>>] = "ok"]
        /\ client' = [client EXCEPT ![t] = "ready"]
    BY <1>7 DEF DirectLeave
  <2>3. QED
    BY <1>7, <2>1, <2>2 DEF DirectLeave, TypeOK, Owner, Num
<1>8. ASSUME NEW t \in Client, Issuing(t)
      PROVE  NumberInv'
  <2>1. client[t] # "direct"
    BY <1>8, ReadyOrBlock
  <2>2. issued' \in [Client -> Nat] /\ client' \in [Client -> {"ready", "waiting", "direct"}]
    BY DEF TypeOK
  <2>3. ASSUME NEW r \in Result \ {"none"}, NEW b, Issues(t, r, b),
               \/ client' \in {client, [client EXCEPT ![t] = "waiting"]}
               \/ r = "direct" /\ client' = [client EXCEPT ![t] = "direct"],
               worker' = worker \/ (worker = "block" /\ t = Owner(block) /\ worker' = "inline")
        PROVE  NumberInv'
    <3>1. /\ \A o \in Op : result'[o] = "none" <=> Num(o) > issued'[Owner(o)]
          /\ <<t, issued'[t]>> \in Op /\ result'[<<t, issued'[t]>>] = r
          /\ issued'[t] = issued[t] + 1 /\ issued[t] \in Nat
          /\ \A u \in Client \ {t} : issued'[u] = issued[u]
               /\ (issued[u] > 0 => result'[<<u, issued[u]>>] = result[<<u, issued[u]>>])
      BY <2>3, NumberIssue
    <3>2. ASSUME NEW u \in Client, client'[u] = "direct"
          PROVE  issued'[u] > 0 /\ result'[<<u, issued'[u]>>] = "direct"
      <4>1. CASE u = t
        BY <2>1, <2>3, <3>1, <3>2, <4>1 DEF TypeOK
      <4>2. CASE u # t
        BY <2>3, <3>1, <3>2, <4>2 DEF TypeOK
      <4>3. QED
        BY <4>1, <4>2
    <3>3. ASSUME worker' = "inline"
          PROVE  issued'[Owner(block)] > Num(block)
      <4>1. worker \in {"block", "inline"} /\ block \in Op /\ Owner(block) \in Client
        BY <2>3, <3>3, BlockFacts DEF IInv
      <4>2. issued'[Owner(block)] >= issued[Owner(block)] /\ issued[Owner(block)] \in Nat
        <5>1. issued[Owner(block)] \in Nat
          BY <4>1 DEF TypeOK
        <5>2. CASE Owner(block) = t
          BY <3>1, <5>1, <5>2
        <5>3. CASE Owner(block) # t
          <6>1. issued'[Owner(block)] = issued[Owner(block)]
            BY <3>1, <4>1, <5>3
          <6>2. QED
            BY <5>1, <6>1
        <5>4. QED
          BY <5>2, <5>3
      <4>3. Num(block) \in Nat
        BY <4>1, OpFacts
      <4>4. CASE worker = "inline"
        <5>1. issued'[Owner(block)] \in Nat /\ issued[Owner(block)] > Num(block)
          BY <2>2, <4>1, <4>4
        <5>2. QED
          BY <4>2, <4>3, <5>1
      <4>5. CASE worker = "block"
        <5>1. result[block] = "pending"
          BY <4>1, ServedFacts DEF InBlock
        <5>2. Num(block) <= issued[Owner(block)]
          BY <4>1, <4>2, <4>3, <5>1
        <5>3. t = Owner(block)
          BY <2>3, <3>3, <4>5
        <5>4. QED
          BY <3>1, <4>2, <4>3, <5>2, <5>3
      <4>6. QED
        BY <4>1, <4>4, <4>5
    <3>4. block' = block
      BY <2>3 DEF Issues
    <3>5. QED
      BY <3>1, <3>2, <3>3, <3>4 DEF Owner, Num
  <2>4. ASSUME NEW r \in Result, NEW b \in Op \cup {NoOp}, Refusal(t, r, b)
        PROVE  NumberInv'
    BY <2>4, <2>3 DEF Refusal
  <2>5. ASSUME NEW b \in Op \cup {NoOp}, Posting(t, b)
        PROVE  NumberInv'
    BY <2>5, <2>3 DEF Posting, Result
  <2>6. ASSUME NEW kind \in {"call", "block"}, Calling(t, kind)
        PROVE  NumberInv'
    BY <2>6, <2>3 DEF Calling, Result
  <2>7. CASE Bypassing(t)
    BY <2>7, <2>3 DEF Bypassing, Result
  <2>8. CASE Inlining(t)
    BY <2>8, <2>3 DEF Inlining, Result
  <2>9. QED
    BY <1>8, <2>4, <2>5, <2>6, <2>7, <2>8 DEF Issuing
<1>9. QED
  BY <1>1, <1>2, <1>3, <1>4, <1>5, <1>6, <1>7, <1>8, Steps

-----------------------------------------------------------------------------
\* What each step does to the places an operation can be in.
LEMMA Distinct ==
  ASSUME IInv
  PROVE  /\ \A o \in Op : Queued(o) => ~Serving(o)
         /\ \A i, j \in 1 .. Len(queue) :
              IsWork(queue[i]) /\ IsWork(queue[j]) /\ queue[i].op = queue[j].op => i = j
<1>1. \A i \in 1 .. Len(queue) : IsWork(queue[i]) => queue[i].op \in Op
  BY JobFacts DEF IInv, TypeOK
<1>2. ASSUME NEW o \in Op, Queued(o), Serving(o)
      PROVE  FALSE
  <2>1. Num(o) \in Nat
    BY OpFacts
  <2>2. PICK i \in 1 .. Len(queue) : IsWork(queue[i]) /\ queue[i].op = o
    BY <1>2 DEF Queued
  <2>3. Num(o) < Num(o)
    BY <1>2, <2>2 DEF IInv, OrderInv
  <2>4. QED
    BY <2>1, <2>3
<1>3. ASSUME NEW i \in 1 .. Len(queue), NEW j \in 1 .. Len(queue),
             IsWork(queue[i]), IsWork(queue[j]), queue[i].op = queue[j].op, i < j
      PROVE  FALSE
  <2>1. Num(queue[i].op) \in Nat
    BY <1>1, <1>3, OpFacts
  <2>2. Num(queue[i].op) < Num(queue[j].op)
    BY <1>3 DEF IInv, OrderInv
  <2>3. QED
    BY <1>3, <2>1, <2>2
<1>4. Len(queue) \in Nat
  BY QueueLen DEF IInv
<1>5. QED
  BY <1>2, <1>3, <1>4

LEMMA TakeQueued ==
  ASSUME IInv, Take, NEW o \in Op
  PROVE  Queued(o)' <=> Queued(o) /\ ~(IsWork(queue[1]) /\ queue[1].op = o)
<1>1. /\ Len(queue) \in Nat /\ Len(queue) > 0
      /\ Len(queue') = Len(queue) - 1
      /\ \A i \in 1 .. Len(queue') : queue'[i] = queue[i + 1]
  BY TakeFacts, QueueLen DEF IInv
<1>2. ASSUME Queued(o)'
      PROVE  Queued(o) /\ ~(IsWork(queue[1]) /\ queue[1].op = o)
  <2>1. PICK i \in 1 .. Len(queue') : IsWork(queue'[i]) /\ queue'[i].op = o
    BY <1>2 DEF Queued, IsWork
  <2>2. /\ i + 1 \in 1 .. Len(queue) /\ 1 \in 1 .. Len(queue) /\ i + 1 # 1
        /\ IsWork(queue[i + 1]) /\ queue[i + 1].op = o
    BY <1>1, <2>1 DEF IsWork
  <2>3. QED
    BY <2>2, Distinct DEF Queued
<1>3. ASSUME Queued(o), ~(IsWork(queue[1]) /\ queue[1].op = o)
      PROVE  Queued(o)'
  <2>1. PICK i \in 1 .. Len(queue) : IsWork(queue[i]) /\ queue[i].op = o
    BY <1>3 DEF Queued
  <2>2. i - 1 \in 1 .. Len(queue') /\ queue'[i - 1] = queue[i]
    BY <1>1, <1>3, <2>1
  <2>3. QED
    BY <2>1, <2>2 DEF Queued, IsWork
<1>4. QED
  BY <1>2, <1>3

LEMMA SendQueued ==
  ASSUME IInv, TypeOK', NEW t \in Client, NEW kind \in {"call", "block", "future"},
         thread = "running", Send(kind, t), New(t) \in Op, NEW o \in Op
  PROVE  Queued(o)' <=> Queued(o) \/ o = New(t)
<1>1. /\ Len(queue) \in Nat /\ Len(queue') = Len(queue) + 1
      /\ \A i \in 1 .. Len(queue) : queue'[i] = queue[i] /\ IsWork(queue[i])
      /\ queue'[Len(queue) + 1] = [kind |-> kind, op |-> New(t)]
      /\ IsWork(queue'[Len(queue) + 1])
  BY SendFacts, QueueLen DEF IInv
<1>2. ASSUME Queued(o)'
      PROVE  Queued(o) \/ o = New(t)
  <2>1. PICK i \in 1 .. Len(queue') : IsWork(queue'[i]) /\ queue'[i].op = o
    BY <1>2 DEF Queued, IsWork
  <2>2. CASE i \in 1 .. Len(queue)
    BY <1>1, <2>1, <2>2 DEF Queued
  <2>3. CASE i = Len(queue) + 1
    BY <1>1, <2>1, <2>3
  <2>4. QED
    BY <1>1, <2>1, <2>2, <2>3
<1>3. ASSUME Queued(o)
      PROVE  Queued(o)'
  <2>1. PICK i \in 1 .. Len(queue) : IsWork(queue[i]) /\ queue[i].op = o
    BY <1>3 DEF Queued
  <2>2. i \in 1 .. Len(queue') /\ queue'[i] = queue[i]
    BY <1>1, <2>1
  <2>3. QED
    BY <2>1, <2>2 DEF Queued, IsWork
<1>4. ASSUME o = New(t)
      PROVE  Queued(o)'
  <2>1. Len(queue) + 1 \in 1 .. Len(queue')
    BY <1>1
  <2>2. queue'[Len(queue) + 1].op = o
    BY <1>1, <1>4
  <2>3. QED
    BY <1>1, <2>1, <2>2 DEF Queued, IsWork
<1>5. QED
  BY <1>2, <1>3, <1>4

LEMMA ExitQueued ==
  ASSUME IInv, ExitThread, NEW o \in Op
  PROVE  Queued(o)' <=> Queued(o)
<1>1. /\ Len(queue) \in Nat /\ Len(queue') = Len(queue) + 1
      /\ \A i \in 1 .. Len(queue) : queue'[i] = queue[i]
      /\ ~IsWork(queue'[Len(queue) + 1])
  BY QueueLen DEF ExitThread, IInv, IsWork, ExitJob, Job
<1>2. ASSUME Queued(o)'
      PROVE  Queued(o)
  <2>1. PICK i \in 1 .. Len(queue') : IsWork(queue'[i]) /\ queue'[i].op = o
    BY <1>2 DEF Queued, IsWork
  <2>2. i \in 1 .. Len(queue)
    BY <1>1, <2>1
  <2>3. QED
    BY <1>1, <2>1, <2>2 DEF Queued
<1>3. ASSUME Queued(o)
      PROVE  Queued(o)'
  <2>1. PICK i \in 1 .. Len(queue) : IsWork(queue[i]) /\ queue[i].op = o
    BY <1>3 DEF Queued
  <2>2. i \in 1 .. Len(queue') /\ queue'[i] = queue[i]
    BY <1>1, <2>1
  <2>3. QED
    BY <2>1, <2>2 DEF Queued, IsWork
<1>4. QED
  BY <1>2, <1>3

LEMMA SameQueued ==
  ASSUME queue' = queue, NEW o
  PROVE  Queued(o)' <=> Queued(o)
BY DEF Queued, IsWork

LEMMA PlaceStep ==
  ASSUME IInv, Next, TypeOK'
  PROVE  PlaceInv'
<1> TypeOK /\ PlaceInv /\ WorkInv
  BY DEF IInv
<1> USE DEF PlaceInv, Serving, InBlock
<1>1. CASE InitAsync
  BY <1>1, SameQueued DEF InitAsync, Inline, Owner
<1>2. CASE ExitThread
  <2>1. worker = "inline" => Inline \in Op
    BY ServedFacts
  <2>2. QED
    BY <1>2, <2>1, ExitQueued DEF ExitThread, Inline, Owner
<1>3. CASE Take
  <2>1. worker = "idle" /\ result' = result /\ worker' # "inline"
    BY <1>3, TakeFacts DEF Take
  <2>2. \A o \in Op : result[o] = "pending" <=> Queued(o)
    BY <2>1
  <2>3. \A o \in Op : Queued(o)' <=> Queued(o) /\ ~(IsWork(queue[1]) /\ queue[1].op = o)
    BY <1>3, TakeQueued
  <2>4. 1 \in 1 .. Len(queue)
    BY <1>3, TakeFacts, QueueLen
  <2>5. CASE Head(queue) = ExitJob
    BY <1>3, <2>1, <2>2, <2>3, <2>5, TakeFacts, JobFacts
  <2>6. CASE IsWork(queue[1])
    <3>1. \A o \in Op : Serving(o)' <=> o = queue[1].op
      BY <1>3, <2>1, <2>6, TakeFacts
    <3>2. Queued(queue[1].op)
      BY <2>4, <2>6 DEF Queued
    <3>3. QED
      BY <2>1, <2>2, <2>3, <2>6, <3>1, <3>2
  <2>7. QED
    BY <1>3, <2>5, <2>6, TakeFacts
<1>4. CASE Finish
  <2>1. job.op \in Op /\ result[job.op] = "pending" /\ ~Queued(job.op)
    BY <1>4, ServedFacts, Distinct DEF Finish
  <2>2. result' = [result EXCEPT ![job.op] = "ok"] /\ worker' = "idle" /\ queue' = queue
    BY <1>4, <2>1 DEF Finish, Answer
  <2>3. \A o \in Op : Queued(o)' <=> Queued(o)
    BY <2>2, SameQueued
  <2>4. worker = "sqlite"
    BY <1>4 DEF Finish
  <2>5. \A o \in Op : result'[o] = "pending" <=> result[o] = "pending" /\ o # job.op
    BY <2>1, <2>2 DEF TypeOK
  <2>6. QED
    BY <2>1, <2>2, <2>3, <2>4, <2>5
<1>5. CASE InlineLeave
  <2>1. Inline \in Op /\ Inline # block /\ ~Queued(Inline)
    BY <1>5, ServedFacts, BlockFacts DEF InlineLeave, IInv
  <2>2. /\ result' = [result EXCEPT ![Inline] = "ok"] /\ worker' = "block"
        /\ queue' = queue /\ block' = block /\ worker = "inline"
    BY <1>5, ServedFacts DEF InlineLeave, Answer, Inline
  <2>3. \A o \in Op : Queued(o)' <=> Queued(o)
    BY <2>2, SameQueued
  <2>4. \A o \in Op : result'[o] = "pending" <=> result[o] = "pending" /\ o # Inline
    BY <2>1, <2>2 DEF TypeOK
  <2>5. QED
    BY <2>1, <2>2, <2>3, <2>4
<1>6. CASE BlockReturns
  <2>1. block \in Op /\ result[block] = "pending" /\ ~Queued(block)
    BY <1>6, ServedFacts, Distinct DEF BlockReturns
  <2>2. /\ result' = [result EXCEPT ![block] = "ok"] /\ worker' = "idle"
        /\ queue' = queue /\ worker = "block"
    BY <1>6, <2>1 DEF BlockReturns, Answer
  <2>3. \A o \in Op : Queued(o)' <=> Queued(o)
    BY <2>2, SameQueued
  <2>4. \A o \in Op : result'[o] = "pending" <=> result[o] = "pending" /\ o # block
    BY <2>1, <2>2 DEF TypeOK
  <2>5. QED
    BY <2>1, <2>2, <2>3, <2>4
<1>7. ASSUME NEW t \in Client, DirectLeave(t)
      PROVE  PlaceInv'
  <2>1. <<t, issued[t]>> \in Op /\ result[<<t, issued[t]>>] = "direct"
    BY <1>7, LastFacts DEF DirectLeave, IInv, NumberInv
  <2>2. \A o \in Op : result'[o] = "pending" <=> result[o] = "pending"
    BY <1>7, <2>1 DEF DirectLeave, TypeOK
  <2>3. QED
    BY <1>7, <2>2, SameQueued DEF DirectLeave, Inline, Owner
<1>8. ASSUME NEW t \in Client, Issuing(t)
      PROVE  PlaceInv'
  <2>1. ASSUME NEW r, NEW b, Issues(t, r, b)
        PROVE  /\ New(t) \in Op /\ \A o \in Op : result'[o] = IF o = New(t) THEN r ELSE result[o]
               /\ ~Queued(New(t)) /\ ~Serving(New(t))
               /\ worker = "inline" => New(t) # Inline
               /\ job' = job /\ block' = block
    <3>1. /\ New(t) \in Op /\ \A o \in Op : result'[o] = IF o = New(t) THEN r ELSE result[o]
          /\ ~Queued(New(t)) /\ ~Serving(New(t))
      BY <2>1, Fresh
    <3>2. worker = "inline" => New(t) # Inline
      BY <2>1, Fresh
    <3>3. job' = job /\ block' = block
      BY <2>1 DEF Issues
    <3>4. QED
      BY <3>1, <3>2, <3>3
  <2>2. ASSUME worker = "inline", NEW r, NEW b, Issues(t, r, b), ByClient(t, b)
        PROVE  Inline' = Inline
    <3>1. Owner(block) \in Client /\ client[Owner(block)] = "waiting"
      BY <2>2, BlockFacts DEF IInv, WaitInv, ServedSync
    <3>2. t # Owner(block)
      BY <2>2, <3>1 DEF ByClient
    <3>3. issued'[Owner(block)] = issued[Owner(block)] /\ block' = block
      BY <2>2, <3>1, <3>2, Fresh DEF Issues
    <3>4. QED
      BY <3>3 DEF Inline, Owner
  <2>3. ASSUME NEW r \in Result, NEW b \in Op \cup {NoOp}, Refusal(t, r, b)
        PROVE  PlaceInv'
    <3>1. /\ Issues(t, r, b) /\ r # "pending" /\ worker' = worker /\ queue' = queue
          /\ worker = "inline" => ByClient(t, b)
      BY <2>3 DEF Refusal, ByBlock
    <3>2. \A o \in Op : Queued(o)' <=> Queued(o)
      BY <3>1, SameQueued
    <3>3. worker = "inline" => Inline' = Inline /\ Inline \in Op
      BY <2>2, <3>1, ServedFacts
    <3>4. QED
      BY <2>1, <3>1, <3>2, <3>3
  <2>4. ASSUME NEW kind \in {"call", "block", "future"}, NEW b,
               thread = "running", Issues(t, "pending", b), Send(kind, t), worker' = worker,
               worker = "inline" => ByClient(t, b)
        PROVE  PlaceInv'
    <3>1. New(t) \in Op
      BY <2>1, <2>4
    <3>2. \A o \in Op : Queued(o)' <=> Queued(o) \/ o = New(t)
      BY <2>4, <3>1, SendQueued
    <3>3. worker = "inline" => Inline' = Inline /\ Inline \in Op
      BY <2>2, <2>4, ServedFacts
    <3>4. QED
      BY <2>1, <2>4, <3>2, <3>3
  <2>5. ASSUME NEW b \in Op \cup {NoOp}, Posting(t, b)
        PROVE  PlaceInv'
    BY <2>4, <2>5 DEF Posting, ByBlock
  <2>6. ASSUME NEW kind \in {"call", "block"}, Calling(t, kind)
        PROVE  PlaceInv'
    BY <2>4, <2>6 DEF Calling
  <2>7. CASE Bypassing(t)
    <3>1. Issues(t, "direct", NoOp) /\ worker' = worker /\ queue' = queue /\ ByClient(t, NoOp)
      BY <2>7 DEF Bypassing
    <3>2. \A o \in Op : Queued(o)' <=> Queued(o)
      BY <3>1, SameQueued
    <3>3. worker = "inline" => Inline' = Inline /\ Inline \in Op
      BY <2>2, <3>1, ServedFacts
    <3>4. QED
      BY <2>1, <3>1, <3>2, <3>3
  <2>8. CASE Inlining(t)
    <3>1. /\ Issues(t, "pending", block) /\ worker = "block" /\ worker' = "inline"
          /\ queue' = queue /\ t = Owner(block)
      BY <2>8 DEF Inlining
    <3>2. \A o \in Op : Queued(o)' <=> Queued(o)
      BY <3>1, SameQueued
    <3>3. Inline' = New(t)
      BY <3>1, <2>1, Fresh DEF Inline, New, Owner
    <3>4. QED
      BY <2>1, <3>1, <3>2, <3>3
  <2>9. QED
    BY <1>8, <2>3, <2>5, <2>6, <2>7, <2>8 DEF Issuing
<1>9. QED
  BY <1>1, <1>2, <1>3, <1>4, <1>5, <1>6, <1>7, <1>8, Steps

LEMMA OrderStep ==
  ASSUME IInv, Next, TypeOK'
  PROVE  OrderInv'
<1> TypeOK /\ OrderInv /\ Len(queue) \in Nat
  BY QueueLen DEF IInv
<1> USE DEF OrderInv, Serving, InBlock
<1>1. ASSUME queue' = queue, \A o \in Op : Serving(o)' => Serving(o)
      PROVE  OrderInv'
  BY <1>1 DEF IsWork, Owner, Num
<1>2. CASE InitAsync
  BY <1>1, <1>2 DEF InitAsync
<1>3. CASE ExitThread
  <2>1. /\ Len(queue') = Len(queue) + 1
        /\ \A i \in 1 .. Len(queue) : queue'[i] = queue[i]
        /\ ~IsWork(queue'[Len(queue) + 1])
        /\ \A o \in Op : Serving(o)' <=> Serving(o)
    BY <1>3 DEF ExitThread, IsWork, ExitJob, Job, TypeOK
  <2>2. \A i \in 1 .. Len(queue') : IsWork(queue'[i]) =>
          i \in 1 .. Len(queue) /\ queue'[i] = queue[i] /\ IsWork(queue[i])
    BY <2>1 DEF IsWork
  <2>3. QED
    BY <2>1, <2>2 DEF IsWork, Owner, Num
<1>4. CASE Take
  <2>1. /\ Len(queue) > 0 /\ Len(queue') = Len(queue) - 1
        /\ \A i \in 1 .. Len(queue') : queue'[i] = queue[i + 1]
    BY <1>4, TakeFacts
  <2>2. \A i \in 1 .. Len(queue') : i + 1 \in 1 .. Len(queue) /\ 1 < i + 1
    BY <2>1
  <2>3. 1 \in 1 .. Len(queue)
    BY <2>1
  <2>4. CASE Head(queue) = ExitJob
    BY <1>4, <2>4, TakeFacts, JobFacts
  <2>5. CASE IsWork(queue[1])
    <3>1. \A o \in Op : Serving(o)' => o = queue[1].op
      BY <1>4, <2>5, TakeFacts DEF Take, IInv, WorkInv
    <3>2. \A i, j \in 1 .. Len(queue') : i < j => i + 1 < j + 1
      BY <2>1
    <3>3. ASSUME NEW i \in 1 .. Len(queue'), NEW j \in 1 .. Len(queue'), i < j,
                 IsWork(queue'[i]), IsWork(queue'[j]), Owner(queue'[i].op) = Owner(queue'[j].op)
          PROVE  Num(queue'[i].op) < Num(queue'[j].op)
      BY <2>1, <2>2, <3>2, <3>3
    <3>4. ASSUME NEW i \in 1 .. Len(queue'), NEW o \in Op, IsWork(queue'[i]), Serving(o)',
                 Owner(queue'[i].op) = Owner(o)
          PROVE  Num(o) < Num(queue'[i].op)
      <4>1. o = queue[1].op
        BY <3>1, <3>4
      <4>2. QED
        BY <2>1, <2>2, <2>3, <2>5, <3>4, <4>1
    <3>5. QED
      BY <3>3, <3>4 DEF IsWork, Owner, Num
  <2>6. QED
    BY <1>4, <2>4, <2>5, TakeFacts
<1>5. CASE Finish
  BY <1>1, <1>5 DEF Finish, IInv, WorkInv
<1>6. CASE InlineLeave
  BY <1>1, <1>6 DEF InlineLeave
<1>7. CASE BlockReturns
  BY <1>1, <1>7 DEF BlockReturns
<1>8. ASSUME NEW t \in Client, DirectLeave(t)
      PROVE  OrderInv'
  BY <1>1, <1>8 DEF DirectLeave
<1>9. ASSUME NEW t \in Client, NEW kind \in {"call", "block", "future"}, NEW b,
             thread = "running", Issues(t, "pending", b), Send(kind, t), worker' = worker
      PROVE  OrderInv'
  <2>1. New(t) \in Op /\ Owner(New(t)) = t /\ Num(New(t)) = issued[t] + 1 /\ issued[t] \in Nat
    BY <1>9, Fresh DEF TypeOK
  <2>2. /\ Len(queue') = Len(queue) + 1
        /\ \A i \in 1 .. Len(queue) : queue'[i] = queue[i] /\ IsWork(queue[i])
        /\ queue'[Len(queue) + 1] = [kind |-> kind, op |-> New(t)]
    BY <1>9, <2>1, SendFacts
  <2>3. \A o \in Op : Serving(o)' <=> Serving(o)
    BY <1>9 DEF Issues
  <2>4. \A o \in Op : result[o] = "pending" /\ Owner(o) = t => Num(o) < issued[t] + 1
    BY <2>1, OpFacts DEF IInv, NumberInv
  <2>5. \A i \in 1 .. Len(queue) : queue[i].op \in Op /\ result[queue[i].op] = "pending"
    BY <2>2, JobFacts DEF IInv, PlaceInv, Queued, TypeOK
  <2>6. \A o \in Op : Serving(o) => result[o] = "pending"
    BY DEF IInv, PlaceInv
  <2>7. \A i \in 1 .. Len(queue') :
          (i \in 1 .. Len(queue) /\ queue'[i] = queue[i]) \/ (i = Len(queue) + 1 /\ queue'[i].op = New(t))
    BY <2>2
  <2>8. ASSUME NEW i \in 1 .. Len(queue'), NEW j \in 1 .. Len(queue'), i < j,
               IsWork(queue'[i]), IsWork(queue'[j]), Owner(queue'[i].op) = Owner(queue'[j].op)
        PROVE  Num(queue'[i].op) < Num(queue'[j].op)
    <3>1. i \in 1 .. Len(queue) /\ queue'[i] = queue[i] /\ IsWork(queue[i])
      BY <2>2, <2>8
    <3>2. CASE j \in 1 .. Len(queue)
      BY <2>2, <2>8, <3>1, <3>2
    <3>3. CASE j = Len(queue) + 1
      <4>1. queue'[j].op = New(t)
        BY <2>2, <3>3
      <4>2. QED
        BY <2>1, <2>4, <2>5, <2>8, <3>1, <4>1
    <3>4. QED
      BY <2>7, <3>2, <3>3
  <2>9. ASSUME NEW i \in 1 .. Len(queue'), NEW o \in Op, IsWork(queue'[i]), Serving(o),
               Owner(queue'[i].op) = Owner(o)
        PROVE  Num(o) < Num(queue'[i].op)
    <3>1. CASE i \in 1 .. Len(queue)
      BY <2>2, <2>9, <3>1
    <3>2. CASE i = Len(queue) + 1
      <4>1. queue'[i].op = New(t)
        BY <2>2, <3>2
      <4>2. QED
        BY <2>1, <2>4, <2>6, <2>9, <4>1
    <3>3. QED
      BY <2>7, <3>1, <3>2
  <2>10. QED
    BY <2>3, <2>8, <2>9 DEF IsWork, Owner, Num
<1>10. ASSUME NEW t \in Client, Issuing(t)
       PROVE  OrderInv'
  <2>1. ASSUME NEW r \in Result, NEW b \in Op \cup {NoOp}, Refusal(t, r, b)
        PROVE  OrderInv'
    BY <1>1, <2>1 DEF Refusal, Issues
  <2>2. ASSUME NEW b \in Op \cup {NoOp}, Posting(t, b)
        PROVE  OrderInv'
    BY <1>9, <2>2 DEF Posting
  <2>3. ASSUME NEW kind \in {"call", "block"}, Calling(t, kind)
        PROVE  OrderInv'
    BY <1>9, <2>3 DEF Calling
  <2>4. CASE Bypassing(t)
    BY <1>1, <2>4 DEF Bypassing, Issues
  <2>5. CASE Inlining(t)
    BY <1>1, <2>5 DEF Inlining, Issues
  <2>6. QED
    BY <1>10, <2>1, <2>2, <2>3, <2>4, <2>5 DEF Issuing
<1>11. QED
  BY <1>2, <1>3, <1>4, <1>5, <1>6, <1>7, <1>8, <1>10, Steps

LEMMA TakeSync ==
  ASSUME IInv, Take, NEW t \in Client
  PROVE  QueuedSync(t)' <=> QueuedSync(t) /\ ~(IsSync(queue[1]) /\ Owner(queue[1].op) = t)
<1>1. /\ Len(queue) \in Nat /\ Len(queue) > 0
      /\ Len(queue') = Len(queue) - 1
      /\ \A i \in 1 .. Len(queue') : queue'[i] = queue[i + 1]
  BY TakeFacts, QueueLen DEF IInv
<1>2. ASSUME QueuedSync(t)'
      PROVE  QueuedSync(t) /\ ~(IsSync(queue[1]) /\ Owner(queue[1].op) = t)
  <2>1. PICK i \in 1 .. Len(queue') : IsSync(queue'[i]) /\ Owner(queue'[i].op) = t
    BY <1>2 DEF QueuedSync, IsSync, Owner
  <2>2. /\ i + 1 \in 1 .. Len(queue) /\ 1 \in 1 .. Len(queue) /\ i + 1 # 1
        /\ IsSync(queue[i + 1]) /\ Owner(queue[i + 1].op) = t
    BY <1>1, <2>1
  <2>3. QED
    BY <2>2 DEF QueuedSync, IInv, WaitInv
<1>3. ASSUME QueuedSync(t), ~(IsSync(queue[1]) /\ Owner(queue[1].op) = t)
      PROVE  QueuedSync(t)'
  <2>1. PICK i \in 1 .. Len(queue) : IsSync(queue[i]) /\ Owner(queue[i].op) = t
    BY <1>3 DEF QueuedSync
  <2>2. i - 1 \in 1 .. Len(queue') /\ queue'[i - 1] = queue[i]
    BY <1>1, <1>3, <2>1
  <2>3. QED
    BY <2>1, <2>2 DEF QueuedSync, IsSync, Owner
<1>4. QED
  BY <1>2, <1>3

LEMMA SendSync ==
  ASSUME IInv, TypeOK', NEW t \in Client, NEW kind \in {"call", "block", "future"},
         thread = "running", Send(kind, t), New(t) \in Op, Owner(New(t)) = t,
         NEW u \in Client
  PROVE  QueuedSync(u)' <=> QueuedSync(u) \/ (kind # "future" /\ u = t)
<1>1. /\ Len(queue) \in Nat /\ Len(queue') = Len(queue) + 1
      /\ \A i \in 1 .. Len(queue) : queue'[i] = queue[i]
      /\ queue'[Len(queue) + 1] = [kind |-> kind, op |-> New(t)]
  BY SendFacts, QueueLen DEF IInv
<1>2. ASSUME QueuedSync(u)'
      PROVE  QueuedSync(u) \/ (kind # "future" /\ u = t)
  <2>1. PICK i \in 1 .. Len(queue') : IsSync(queue'[i]) /\ Owner(queue'[i].op) = u
    BY <1>2 DEF QueuedSync, IsSync, Owner
  <2>2. CASE i \in 1 .. Len(queue)
    BY <1>1, <2>1, <2>2 DEF QueuedSync
  <2>3. CASE i = Len(queue) + 1
    BY <1>1, <2>1, <2>3 DEF IsSync
  <2>4. QED
    BY <1>1, <2>1, <2>2, <2>3
<1>3. ASSUME QueuedSync(u)
      PROVE  QueuedSync(u)'
  <2>1. PICK i \in 1 .. Len(queue) : IsSync(queue[i]) /\ Owner(queue[i].op) = u
    BY <1>3 DEF QueuedSync
  <2>2. i \in 1 .. Len(queue') /\ queue'[i] = queue[i]
    BY <1>1, <2>1
  <2>3. QED
    BY <2>1, <2>2 DEF QueuedSync, IsSync, Owner
<1>4. ASSUME kind # "future", u = t
      PROVE  QueuedSync(u)'
  <2>1. Len(queue) + 1 \in 1 .. Len(queue')
    BY <1>1
  <2>2. queue'[Len(queue) + 1].op = New(t) /\ IsSync(queue'[Len(queue) + 1])
    BY <1>1, <1>4 DEF IsSync
  <2>3. QED
    BY <1>4, <2>1, <2>2 DEF QueuedSync, IsSync, Owner
<1>5. QED
  BY <1>2, <1>3, <1>4

LEMMA WaitStep ==
  ASSUME IInv, Next, TypeOK'
  PROVE  WaitInv'
<1> TypeOK /\ WaitInv /\ Len(queue) \in Nat
  BY QueueLen DEF IInv
<1> USE DEF WaitInv
<1>1. ASSUME queue' = queue, \A u \in Client : ServedSync(u)' <=> ServedSync(u),
             \A u \in Client : client'[u] = "waiting" <=> client[u] = "waiting"
      PROVE  WaitInv'
  BY <1>1 DEF QueuedSync, IsSync, Owner
<1>2. CASE InitAsync
  BY <1>1, <1>2 DEF InitAsync, ServedSync, InBlock, Owner
<1>3. CASE ExitThread
  <2>1. /\ Len(queue') = Len(queue) + 1
        /\ \A i \in 1 .. Len(queue) : queue'[i] = queue[i]
        /\ ~IsSync(queue'[Len(queue) + 1])
    BY <1>3 DEF ExitThread, IsSync, ExitJob, Job, TypeOK
  <2>2. \A i \in 1 .. Len(queue') : IsSync(queue'[i]) =>
          i \in 1 .. Len(queue) /\ queue'[i] = queue[i] /\ IsSync(queue[i])
    BY <2>1 DEF IsSync
  <2>3. \A u \in Client : QueuedSync(u)' <=> QueuedSync(u)
    BY <2>1, <2>2 DEF QueuedSync, IsSync, Owner
  <2>4. \A u \in Client : ServedSync(u)' <=> ServedSync(u)
    BY <1>3 DEF ExitThread, ServedSync, InBlock, Owner
  <2>5. client' = client
    BY <1>3 DEF ExitThread
  <2>6. QED
    BY <2>2, <2>3, <2>4, <2>5 DEF IsSync, Owner
<1>4. CASE Take
  <2>1. /\ Len(queue) > 0 /\ Len(queue') = Len(queue) - 1
        /\ \A i \in 1 .. Len(queue') : queue'[i] = queue[i + 1]
        /\ 1 \in 1 .. Len(queue)
        /\ worker = "idle" /\ client' = client
    BY <1>4, TakeFacts DEF Take
  <2>2. \A u \in Client :
          QueuedSync(u)' <=> QueuedSync(u) /\ ~(IsSync(queue[1]) /\ Owner(queue[1].op) = u)
    BY <1>4, TakeSync
  <2>3. \A u \in Client : ~ServedSync(u)
    BY <2>1 DEF ServedSync, InBlock
  <2>4. \A u \in Client :
          ServedSync(u)' <=> IsSync(queue[1]) /\ Owner(queue[1].op) = u
    <3>1. CASE Head(queue) = ExitJob
      BY <1>4, <2>1, <3>1, TakeFacts, JobFacts DEF ServedSync, InBlock
    <3>2. CASE IsWork(queue[1])
      BY <1>4, <2>1, <3>2, TakeFacts DEF ServedSync, InBlock, IsSync, Owner
    <3>3. QED
      BY <1>4, <3>1, <3>2, TakeFacts
  <2>5. \A u \in Client : IsSync(queue[1]) /\ Owner(queue[1].op) = u => QueuedSync(u)
    BY <2>1 DEF QueuedSync
  <2>6. \A i, j \in 1 .. Len(queue') :
          /\ IsSync(queue'[i]) /\ IsSync(queue'[j])
          /\ Owner(queue'[i].op) = Owner(queue'[j].op)
          => i = j
    <3>1. \A i \in 1 .. Len(queue') : i + 1 \in 1 .. Len(queue)
      BY <2>1
    <3>2. \A i, j \in 1 .. Len(queue') : i + 1 = j + 1 => i = j
      BY <2>1
    <3>3. QED
      BY <2>1, <3>1, <3>2
  <2>7. QED
    BY <2>1, <2>2, <2>3, <2>4, <2>5, <2>6 DEF IsSync, Owner
<1>5. CASE Finish
  <2>1. /\ job.op \in Op /\ Owner(job.op) \in Client /\ job.kind \in {"call", "future"}
        /\ worker = "sqlite" /\ queue' = queue /\ worker' = "idle" /\ ~InBlock
    BY <1>5, ServedFacts, OpFacts DEF Finish, IInv, WorkInv, InBlock
  <2>2. \A u \in Client : ServedSync(u) <=> job.kind = "call" /\ u = Owner(job.op)
    BY <2>1 DEF ServedSync
  <2>3. \A u \in Client : client'[u] = "waiting" <=>
          client[u] = "waiting" /\ ~(job.kind = "call" /\ u = Owner(job.op))
    BY <1>5, <2>1 DEF Finish, Resume, TypeOK
  <2>4. \A u \in Client : ~ServedSync(u)'
    BY <2>1 DEF ServedSync, InBlock
  <2>5. \A u \in Client : QueuedSync(u)' <=> QueuedSync(u)
    BY <2>1 DEF QueuedSync, IsSync, Owner
  <2>6. QED
    BY <2>1, <2>2, <2>3, <2>4, <2>5 DEF IsSync, Owner
<1>6. CASE InlineLeave
  BY <1>1, <1>6 DEF InlineLeave, ServedSync, InBlock, Owner
<1>7. CASE BlockReturns
  <2>1. /\ block \in Op /\ Owner(block) \in Client
        /\ worker = "block" /\ queue' = queue /\ worker' = "idle"
    BY <1>7, ServedFacts, OpFacts DEF BlockReturns, InBlock
  <2>2. \A u \in Client : ServedSync(u) <=> u = Owner(block)
    BY <2>1 DEF ServedSync, InBlock
  <2>3. \A u \in Client : client'[u] = "waiting" <=>
          client[u] = "waiting" /\ u # Owner(block)
    BY <1>7, <2>1 DEF BlockReturns, Resume, TypeOK
  <2>4. \A u \in Client : ~ServedSync(u)'
    BY <2>1 DEF ServedSync, InBlock
  <2>5. \A u \in Client : QueuedSync(u)' <=> QueuedSync(u)
    BY <2>1 DEF QueuedSync, IsSync, Owner
  <2>6. QED
    BY <2>1, <2>2, <2>3, <2>4, <2>5 DEF IsSync, Owner
<1>8. ASSUME NEW t \in Client, DirectLeave(t)
      PROVE  WaitInv'
  BY <1>1, <1>8 DEF DirectLeave, ServedSync, InBlock, Owner, TypeOK
<1>9. ASSUME NEW t \in Client, NEW kind \in {"call", "block", "future"}, NEW b,
             thread = "running", Issues(t, "pending", b), Send(kind, t), worker' = worker,
             \/ kind = "future" /\ client' = client
             \/ /\ kind # "future" /\ client[t] = "ready"
                /\ client' = [client EXCEPT ![t] = "waiting"]
      PROVE  WaitInv'
  <2>1. New(t) \in Op /\ Owner(New(t)) = t
    BY <1>9, Fresh
  <2>2. /\ Len(queue') = Len(queue) + 1
        /\ \A i \in 1 .. Len(queue) : queue'[i] = queue[i]
        /\ queue'[Len(queue) + 1] = [kind |-> kind, op |-> New(t)]
    BY <1>9, <2>1, SendFacts
  <2>3. \A u \in Client : QueuedSync(u)' <=> QueuedSync(u) \/ (kind # "future" /\ u = t)
    BY <1>9, <2>1, SendSync
  <2>4. \A u \in Client : ServedSync(u)' <=> ServedSync(u)
    BY <1>9 DEF Issues, ServedSync, InBlock, Owner
  <2>5. \A u \in Client : client'[u] = "waiting" <=>
          client[u] = "waiting" \/ (kind # "future" /\ u = t)
    BY <1>9 DEF TypeOK
  <2>6. kind # "future" => ~ServedSync(t) /\ ~QueuedSync(t)
    BY <1>9
  <2>7. ASSUME NEW i \in 1 .. Len(queue'), NEW j \in 1 .. Len(queue'), i < j,
               IsSync(queue'[i]), IsSync(queue'[j]), Owner(queue'[i].op) = Owner(queue'[j].op)
        PROVE  FALSE
    <3>1. i \in 1 .. Len(queue) /\ queue'[i] = queue[i]
      BY <2>2, <2>7
    <3>2. CASE j \in 1 .. Len(queue)
      BY <2>2, <2>7, <3>1, <3>2
    <3>3. CASE j = Len(queue) + 1
      <4>1. queue'[j].op = New(t) /\ kind # "future"
        BY <2>2, <2>7, <3>3 DEF IsSync
      <4>2. QueuedSync(t)
        BY <2>1, <2>7, <3>1, <4>1 DEF QueuedSync
      <4>3. QED
        BY <2>6, <4>1, <4>2
    <3>4. QED
      BY <2>2, <2>7, <3>2, <3>3
  <2>8. \A i, j \in 1 .. Len(queue') :
          /\ IsSync(queue'[i]) /\ IsSync(queue'[j])
          /\ Owner(queue'[i].op) = Owner(queue'[j].op)
          => i = j
    BY <2>2, <2>7
  <2>9. QED
    BY <2>3, <2>4, <2>5, <2>6, <2>8 DEF IsSync, Owner
<1>10. ASSUME NEW t \in Client, Issuing(t)
       PROVE  WaitInv'
  <2>1. ASSUME NEW r \in Result, NEW b \in Op \cup {NoOp}, Refusal(t, r, b)
        PROVE  WaitInv'
    BY <1>1, <2>1 DEF Refusal, Issues, ServedSync, InBlock, Owner
  <2>2. ASSUME NEW b \in Op \cup {NoOp}, Posting(t, b)
        PROVE  WaitInv'
    BY <1>9, <2>2 DEF Posting
  <2>3. ASSUME NEW kind \in {"call", "block"}, Calling(t, kind)
        PROVE  WaitInv'
    BY <1>9, <2>3 DEF Calling, ByClient
  <2>4. CASE Bypassing(t)
    BY <1>1, <2>4 DEF Bypassing, Issues, ByClient, ServedSync, InBlock, Owner, TypeOK
  <2>5. CASE Inlining(t)
    BY <1>1, <2>5 DEF Inlining, Issues, ServedSync, InBlock, Owner
  <2>6. QED
    BY <1>10, <2>1, <2>2, <2>3, <2>4, <2>5 DEF Issuing
<1>11. QED
  BY <1>2, <1>3, <1>4, <1>5, <1>6, <1>7, <1>8, <1>10, Steps

-----------------------------------------------------------------------------
\* The steps that add to the log, and what the others leave as it is.
Logs(o) ==
  /\ o \in Op /\ result[o] = "pending"
  /\ log' = Append(log, o)
  /\ result' = [result EXCEPT ![o] = "ok"]
  /\ UNCHANGED <<block, issued, within, posted>>

LEMMA FinishLogs ==
  ASSUME IInv, Finish
  PROVE  Logs(job.op) /\ worker = "sqlite" /\ worker' = "idle" /\ block = NoOp
BY ServedFacts DEF Finish, Answer, Logs, IInv, WorkInv, InBlock

LEMMA InlineLogs ==
  ASSUME IInv, InlineLeave
  PROVE  /\ Logs(Inline) /\ worker = "inline" /\ worker' = "block"
         /\ within[Inline] = block /\ block # NoOp
BY ServedFacts DEF InlineLeave, Answer, Logs, Inline, IInv, WorkInv, InBlock, BlockInv

LEMMA LogGrows ==
  ASSUME IInv, NEW o \in Op, Logs(o)
  PROVE  /\ Len(log) \in Nat /\ Len(log') = Len(log) + 1
         /\ \A i \in 1 .. Len(log) : log'[i] = log[i] /\ log[i] \in Op
         /\ log'[Len(log) + 1] = o
         /\ \A i \in 1 .. Len(log) : log[i] # o
         /\ \A p \in Op : result'[p] = IF p = o THEN "ok" ELSE result[p]
<1>1. /\ Len(log) \in Nat /\ Len(log') = Len(log) + 1
      /\ \A i \in 1 .. Len(log) : log'[i] = log[i] /\ log[i] \in Op
      /\ log'[Len(log) + 1] = o
  BY DEF IInv, TypeOK, Logs
<1>2. \A i \in 1 .. Len(log) : log[i] # o
  BY DEF IInv, LogInv, Logs
<1>3. \A p \in Op : result'[p] = IF p = o THEN "ok" ELSE result[p]
  BY DEF IInv, TypeOK, Logs
<1>4. QED
  BY <1>1, <1>2, <1>3

\* Every other step leaves the log alone, and what it says of its results.
LEMMA QuietSteps ==
  ASSUME IInv, Next
  PROVE  \/ Finish \/ InlineLeave
         \/ /\ log' = log
            /\ \A o \in Op : result[o] = "ok" => result'[o] = "ok" /\ within'[o] = within[o]
            /\ \/ /\ \E t \in Client : Issuing(t)
               \/ /\ UNCHANGED <<within, posted, issued>>
                  /\ \A o \in Op : result'[o] = "pending" => result[o] = "pending"
<1> TypeOK
  BY DEF IInv
<1> USE DEF TypeOK
<1>1. CASE InitAsync
  BY <1>1 DEF InitAsync
<1>2. CASE ExitThread
  BY <1>2 DEF ExitThread
<1>3. CASE Take
  BY <1>3 DEF Take
<1>4. CASE BlockReturns
  BY <1>4, ServedFacts DEF BlockReturns, Answer, InBlock
<1>5. ASSUME NEW t \in Client, DirectLeave(t)
      PROVE  /\ log' = log
             /\ \A o \in Op : result[o] = "ok" => result'[o] = "ok" /\ within'[o] = within[o]
             /\ UNCHANGED <<within, posted, issued>>
             /\ \A o \in Op : result'[o] = "pending" => result[o] = "pending"
  BY <1>5 DEF DirectLeave
<1>6. ASSUME NEW t \in Client, Issuing(t)
      PROVE  /\ log' = log
             /\ \A o \in Op : result[o] = "ok" => result'[o] = "ok" /\ within'[o] = within[o]
  <2>1. PICK r, b : Issues(t, r, b)
    BY <1>6 DEF Issuing, Refusal, Posting, Calling, Bypassing, Inlining
  <2>2. QED
    BY <2>1, Fresh DEF Issues
<1>7. QED
  BY <1>1, <1>2, <1>3, <1>4, <1>5, <1>6, Steps

LEMMA LogStep ==
  ASSUME IInv, Next, TypeOK'
  PROVE  LogInv'
<1> USE DEF LogInv
<1> LogInv /\ \A i \in 1 .. Len(log) : log[i] \in Op
  BY DEF IInv, TypeOK
<1>1. ASSUME NEW o \in Op, Logs(o)
      PROVE  LogInv'
  BY <1>1, LogGrows
<1>2. CASE Finish
  BY <1>1, <1>2, FinishLogs DEF Logs
<1>3. CASE InlineLeave
  BY <1>1, <1>3, InlineLogs DEF Logs
<1>4. ASSUME log' = log, \A o \in Op : result[o] = "ok" => result'[o] = "ok"
      PROVE  LogInv'
  BY <1>4
<1>5. QED
  BY <1>2, <1>3, <1>4, QuietSteps

LEMMA ProgramStep ==
  ASSUME IInv, Next, TypeOK'
  PROVE  ProgramInv'
<1> ProgramInv /\ \A i \in 1 .. Len(log) : log[i] \in Op /\ result[log[i]] = "ok"
  BY DEF IInv, TypeOK, LogInv
<1>1. ASSUME NEW o \in Op, Logs(o),
             \A p \in Op : Overtaken(p, o) => result[p] # "pending"
      PROVE  ProgramInv'
  <2>1. within' = within
    BY <1>1 DEF Logs
  <2>2. \A p, q \in Op : Overtaken(p, q)' <=> Overtaken(p, q)
    BY <2>1 DEF Overtaken, Owner, Num
  <2>3. \A p \in Op : \A i \in 1 .. Len(log') : Overtaken(p, log'[i]) => result'[p] # "pending"
    BY <1>1, LogGrows DEF ProgramInv
  <2>4. QED
    BY <2>1, <2>3 DEF ProgramInv, Overtaken, Owner, Num
<1>2. CASE Finish
  <2>1. Logs(job.op) /\ worker = "sqlite" /\ job.op \in Op
    BY <1>2, FinishLogs DEF Logs
  <2>2. ASSUME NEW p \in Op, Overtaken(p, job.op), result[p] = "pending"
        PROVE  FALSE
    <3>1. Num(p) < Num(job.op) /\ Owner(p) = Owner(job.op) /\ Num(p) \in Nat /\ Num(job.op) \in Nat
      BY <2>1, <2>2, OpFacts DEF Overtaken
    <3>2. Queued(p) \/ p = job.op
      BY <2>1, <2>2 DEF IInv, PlaceInv, Serving, WorkInv, InBlock
    <3>3. Serving(job.op)
      BY <2>1 DEF Serving
    <3>4. CASE Queued(p)
      <4>1. PICK i \in 1 .. Len(queue) : IsWork(queue[i]) /\ queue[i].op = p
        BY <3>4 DEF Queued
      <4>2. Num(job.op) < Num(p)
        BY <2>1, <3>1, <3>3, <4>1 DEF IInv, OrderInv
      <4>3. QED
        BY <3>1, <4>2
    <3>5. QED
      BY <3>1, <3>2, <3>4
  <2>3. QED
    BY <1>1, <2>1, <2>2
<1>3. CASE InlineLeave
  <2>1. Logs(Inline) /\ Inline \in Op /\ within[Inline] # NoOp
    BY <1>3, InlineLogs DEF Logs
  <2>2. QED
    BY <1>1, <2>1 DEF Overtaken
<1>4. ASSUME log' = log, within' = within,
             \A o \in Op : result'[o] = "pending" => result[o] = "pending"
      PROVE  ProgramInv'
  BY <1>4 DEF ProgramInv, Overtaken, Owner, Num
<1>5. ASSUME NEW t \in Client, Issuing(t)
      PROVE  ProgramInv'
  <2>1. PICK r, b : Issues(t, r, b)
    BY <1>5 DEF Issuing, Refusal, Posting, Calling, Bypassing, Inlining
  <2>2. ASSUME NEW o \in Op, NEW i \in 1 .. Len(log),
               Owner(o) = Owner(log[i]), Num(o) < Num(log[i]),
               within'[o] = NoOp, within'[log[i]] = NoOp
        PROVE  result'[o] # "pending"
    <3>1. log[i] # New(t) /\ within[log[i]] = NoOp /\ log[i] \in Op
      BY <2>1, <2>2, Fresh
    <3>2. CASE o = New(t)
      <4>1. Num(log[i]) <= issued[t] /\ issued[t] \in Nat /\ Num(log[i]) \in Nat
        <5>1. Owner(log[i]) = t /\ issued[t] \in Nat /\ Num(log[i]) \in Nat
          BY <2>1, <2>2, <3>1, <3>2, Fresh, OpFacts DEF IInv, TypeOK
        <5>2. ~(Num(log[i]) > issued[Owner(log[i])])
          BY <3>1 DEF IInv, NumberInv
        <5>3. QED
          BY <5>1, <5>2
      <4>2. Num(o) = issued[t] + 1
        BY <2>1, <3>2, Fresh
      <4>3. QED
        BY <2>2, <4>1, <4>2
    <3>3. CASE o # New(t)
      BY <2>1, <2>2, <3>1, <3>3, Fresh DEF ProgramInv, Overtaken
    <3>4. QED
      BY <3>2, <3>3
  <2>3. QED
    BY <2>1, <2>2 DEF Issues, ProgramInv, Overtaken, Owner, Num
<1>6. QED
  BY <1>2, <1>3, <1>4, <1>5, QuietSteps

\* A client that is issuing is not the one whose block is in SQLite.
LEMMA InlineStays ==
  ASSUME IInv, worker = "inline", NEW t \in Client, NEW r, NEW b,
         Issues(t, r, b), ByClient(t, b)
  PROVE  Inline' = Inline
<1>1. Owner(block) \in Client /\ client[Owner(block)] = "waiting"
  BY BlockFacts DEF IInv, WaitInv, ServedSync, InBlock
<1>2. t # Owner(block)
  BY <1>1 DEF ByClient
<1>3. issued'[Owner(block)] = issued[Owner(block)] /\ block' = block
  BY <1>1, <1>2, Fresh DEF Issues
<1>4. QED
  BY <1>3 DEF Inline, Owner

\* The four parts of BlockInv.
Opened == \A o \in Op : within[o] # NoOp => within[o] = block \/ result[within[o]] = "ok"
OnTheSpot ==
  \A o \in Op :
    within[o] # NoOp /\ o \notin posted /\ result[o] = "pending" =>
      worker = "inline" /\ o = Inline
OfThisBlock == worker = "inline" => within[Inline] = block
AtTheEnd ==
  block # NoOp => \A i, j \in 1 .. Len(log) :
    i < j /\ within[log[i]] = block /\ log[i] \notin posted => within[log[j]] = block

LEMMA BlockParts == BlockInv <=> Opened /\ OnTheSpot /\ OfThisBlock /\ AtTheEnd
BY DEF BlockInv, Opened, OnTheSpot, OfThisBlock, AtTheEnd

LEMMA BlockIssue ==
  ASSUME IInv, TypeOK', NEW t \in Client, Issuing(t)
  PROVE  BlockInv'
<1> TypeOK /\ Opened /\ OnTheSpot /\ OfThisBlock /\ AtTheEnd
  BY BlockParts DEF IInv
<1>1. PICK r, b : /\ Issues(t, r, b)
                  /\ \/ ByClient(t, b) /\ worker' = worker
                     \/ ByBlock(t, b) /\ worker' = worker
                     \/ /\ worker = "block" /\ t = Owner(block) /\ b = block
                        /\ worker' = "inline" /\ UNCHANGED posted
  BY DEF Issuing, Refusal, Posting, Calling, Bypassing, Inlining
<1>2. /\ New(t) \in Op /\ \A i \in 1 .. Len(log) : log[i] # New(t) /\ log[i] \in Op
      /\ \A o \in Op : result'[o] = IF o = New(t) THEN r ELSE result[o]
      /\ \A o \in Op : within'[o] = IF o = New(t) THEN b ELSE within[o]
      /\ \A o \in Op : within[o] # New(t)
      /\ b = NoOp \/ b = block
      /\ block' = block /\ log' = log
      /\ \A o \in Op : o # New(t) => (o \in posted' <=> o \in posted)
      /\ \A o \in Op : within[o] \in Op \cup {NoOp}
  <2>1. New(t) \in Op /\ \A o \in Op : within[o] # New(t)
    BY <1>1, Fresh
  <2>2. \A i \in 1 .. Len(log) : log[i] # New(t) /\ log[i] \in Op
    BY <1>1, Fresh DEF TypeOK
  <2>3. /\ \A o \in Op : result'[o] = IF o = New(t) THEN r ELSE result[o]
        /\ \A o \in Op : within'[o] = IF o = New(t) THEN b ELSE within[o]
    BY <1>1, Fresh
  <2>4. b = NoOp \/ b = block
    BY <1>1 DEF ByClient, ByBlock
  <2>5. block' = block /\ log' = log
    BY <1>1 DEF Issues
  <2>6. \A o \in Op : o # New(t) => (o \in posted' <=> o \in posted)
    BY <1>1 DEF ByClient, ByBlock
  <2>7. QED
    BY <2>1, <2>2, <2>3, <2>4, <2>5, <2>6 DEF TypeOK
<1>3. Opened'
  BY <1>2 DEF Opened
<1>4. AtTheEnd'
  BY <1>2 DEF AtTheEnd
<1>5. OnTheSpot' /\ OfThisBlock'
  <2>1. CASE ByClient(t, b) /\ worker' = worker
    <3>1. b = NoOp /\ posted' = posted
      BY <2>1 DEF ByClient
    <3>2. worker = "inline" => Inline' = Inline /\ Inline \in Op /\ Inline # New(t)
      BY <1>1, <2>1, InlineStays, ServedFacts, Fresh
    <3>3. QED
      BY <1>2, <2>1, <3>1, <3>2 DEF OnTheSpot, OfThisBlock
  <2>2. CASE ByBlock(t, b) /\ worker' = worker
    <3>1. worker = "block" /\ posted' = posted \cup {New(t)}
      BY <2>2 DEF ByBlock
    <3>2. QED
      BY <1>2, <2>2, <3>1 DEF OnTheSpot, OfThisBlock
  <2>3. CASE /\ worker = "block" /\ t = Owner(block) /\ b = block
             /\ worker' = "inline" /\ UNCHANGED posted
    <3>1. issued'[Owner(block)] = issued[t] + 1
      BY <1>1, <2>3, Fresh
    <3>2. Inline' = New(t)
      BY <1>2, <2>3, <3>1 DEF Inline, New, Owner
    <3>3. QED
      BY <1>2, <2>3, <3>2 DEF OnTheSpot, OfThisBlock
  <2>4. QED
    BY <1>1, <2>1, <2>2, <2>3
<1>6. QED
  BY <1>3, <1>4, <1>5, BlockParts DEF BlockInv, Opened, OnTheSpot, OfThisBlock, AtTheEnd

LEMMA BlockStep ==
  ASSUME IInv, Next, TypeOK'
  PROVE  BlockInv'
<1> /\ TypeOK /\ Opened /\ OnTheSpot /\ OfThisBlock /\ AtTheEnd
    /\ \A i \in 1 .. Len(log) : log[i] \in Op /\ result[log[i]] = "ok"
    /\ \A o \in Op : within[o] \in Op \cup {NoOp}
  BY BlockParts DEF IInv, LogInv, TypeOK
<1> USE DEF BlockInv, Opened, OnTheSpot, OfThisBlock, AtTheEnd
<1>1. ASSUME UNCHANGED <<within, block, posted, log, issued, worker>>,
             \A o \in Op : result[o] = "ok" => result'[o] = "ok",
             \A o \in Op : result'[o] = "pending" => result[o] = "pending"
      PROVE  BlockInv'
  BY <1>1 DEF Inline, Owner
<1>2. CASE InitAsync
  BY <1>1, <1>2 DEF InitAsync
<1>3. CASE ExitThread
  BY <1>1, <1>3 DEF ExitThread
<1>4. CASE Take
  <2>1. /\ UNCHANGED <<within, posted, log, issued, result>>
        /\ worker = "idle" /\ worker' # "inline"
    BY <1>4, TakeFacts DEF Take
  <2>2. block = NoOp
    BY <2>1 DEF IInv, WorkInv, InBlock
  <2>3. \A o \in Op : within[o] # NoOp => result[within[o]] = "ok"
    BY <2>2
  <2>4. block' # NoOp => block' \in Op /\ result[block'] = "pending"
    <3>1. block' = block \/ (IsWork(queue[1]) /\ block' = queue[1].op /\ queue[1].op \in Op)
      BY <1>4, TakeFacts
    <3>2. 1 \in 1 .. Len(queue)
      BY <1>4, TakeFacts, QueueLen
    <3>3. IsWork(queue[1]) => Queued(queue[1].op)
      BY <3>2 DEF Queued
    <3>4. QED
      BY <2>2, <3>1, <3>3 DEF IInv, PlaceInv
  <2>5. \A o \in Op : block' # NoOp => within[o] # block'
    BY <2>3, <2>4
  <2>6. QED
    BY <2>1, <2>3, <2>5
<1>5. CASE Finish
  <2>1. /\ Logs(job.op) /\ job.op \in Op /\ worker = "sqlite" /\ worker' = "idle"
        /\ block = NoOp /\ UNCHANGED <<block, issued, within, posted>>
    BY <1>5, FinishLogs DEF Logs
  <2>2. \A p \in Op : result'[p] = IF p = job.op THEN "ok" ELSE result[p]
    BY <2>1, LogGrows
  <2>3. QED
    BY <2>1, <2>2
<1>6. CASE InlineLeave
  <2>1. /\ Logs(Inline) /\ Inline \in Op /\ worker = "inline" /\ worker' = "block"
        /\ within[Inline] = block /\ UNCHANGED <<block, issued, within, posted>>
    BY <1>6, InlineLogs DEF Logs
  <2>2. /\ Len(log) \in Nat /\ Len(log') = Len(log) + 1
        /\ \A i \in 1 .. Len(log) : log'[i] = log[i]
        /\ log'[Len(log) + 1] = Inline
        /\ \A p \in Op : result'[p] = IF p = Inline THEN "ok" ELSE result[p]
    BY <2>1, LogGrows
  <2>3. Opened' /\ OnTheSpot' /\ OfThisBlock'
    BY <2>1, <2>2
  <2>4. ASSUME NEW i \in 1 .. Len(log'), NEW j \in 1 .. Len(log'), block # NoOp, i < j,
               within[log'[i]] = block, log'[i] \notin posted
        PROVE  within[log'[j]] = block
    <3>1. i \in 1 .. Len(log)
      BY <2>2, <2>4
    <3>2. CASE j \in 1 .. Len(log)
      BY <2>2, <2>4, <3>1, <3>2
    <3>3. CASE j = Len(log) + 1
      BY <2>1, <2>2, <3>3
    <3>4. QED
      BY <2>2, <3>2, <3>3
  <2>5. QED
    BY <2>1, <2>3, <2>4
<1>7. CASE BlockReturns
  <2>1. block \in Op /\ result[block] = "pending"
    BY <1>7, ServedFacts DEF BlockReturns, InBlock
  <2>2. /\ result' = [result EXCEPT ![block] = "ok"] /\ block' = NoOp /\ worker' = "idle"
        /\ worker = "block" /\ UNCHANGED <<log, issued, within, posted>>
    BY <1>7, <2>1 DEF BlockReturns, Answer
  <2>3. \A o \in Op : result'[o] = IF o = block THEN "ok" ELSE result[o]
    BY <2>1, <2>2 DEF TypeOK
  <2>4. QED
    BY <2>1, <2>2, <2>3
<1>8. ASSUME NEW t \in Client, DirectLeave(t)
      PROVE  BlockInv'
  <2>1. <<t, issued[t]>> \in Op /\ result[<<t, issued[t]>>] = "direct"
    BY <1>8, LastFacts DEF DirectLeave, IInv, NumberInv
  <2>2. \A o \in Op : result'[o] = IF o = <<t, issued[t]>> THEN "ok" ELSE result[o]
    BY <1>8, <2>1 DEF DirectLeave, TypeOK
  <2>3. UNCHANGED <<within, block, posted, log, issued, worker>>
    BY <1>8 DEF DirectLeave
  <2>4. QED
    BY <1>1, <2>1, <2>2, <2>3
<1>9. ASSUME NEW t \in Client, Issuing(t)
      PROVE  BlockInv'
  BY <1>9, BlockIssue
<1>10. QED
  BY <1>2, <1>3, <1>4, <1>5, <1>6, <1>7, <1>8, <1>9, Steps

-----------------------------------------------------------------------------
LEMMA Initially == Init => IInv
<1> SUFFICES ASSUME Init
             PROVE  IInv
  OBVIOUS
<1>1. TypeOK
  <2>1. queue \in Seq(Job) /\ log \in Seq(Op) /\ ExitJob \in Job
    BY DEF Init, Job
  <2>2. \A t \in Client : 0 <= MaxOps[t]
    BY AsyncSqliteAssumption
  <2>3. QED
    BY <2>1, <2>2 DEF Init, TypeOK, Result
<1>2. queue = <<>> /\ log = <<>> /\ Len(queue) = 0 /\ Len(log) = 0
  BY DEF Init
<1>3. LifeInv /\ WorkInv
  BY <1>2 DEF Init, LifeInv, WorkInv, InBlock
<1>4. NumberInv
  <2>1. \A o \in Op : Num(o) > issued[Owner(o)] /\ result[o] = "none"
    BY OpFacts DEF Init
  <2>2. QED
    BY <2>1 DEF Init, NumberInv
<1>5. PlaceInv /\ OrderInv /\ WaitInv
  BY <1>2 DEF Init, PlaceInv, OrderInv, WaitInv, Queued, Serving, InBlock, QueuedSync, ServedSync
<1>6. LogInv /\ ProgramInv /\ BlockInv
  BY <1>2 DEF Init, LogInv, ProgramInv, BlockInv
<1>7. QED
  BY <1>1, <1>3, <1>4, <1>5, <1>6 DEF IInv

LEMMA Stutters == IInv /\ UNCHANGED vars => IInv'
<1> SUFFICES ASSUME IInv, UNCHANGED vars
             PROVE  IInv'
  OBVIOUS
<1> USE DEF vars
<1>1. TypeOK' /\ LifeInv' /\ WorkInv'
  BY DEF IInv, TypeOK, LifeInv, WorkInv, InBlock, IsWork
<1>2. NumberInv' /\ OrderInv'
  BY DEF IInv, NumberInv, OrderInv, Serving, InBlock, IsWork, Owner, Num
<1>3. PlaceInv'
  BY DEF IInv, PlaceInv, Queued, Serving, InBlock, IsWork, Inline, Owner
<1>4. WaitInv'
  BY DEF IInv, WaitInv, QueuedSync, ServedSync, InBlock, IsSync, Owner
<1>5. LogInv' /\ ProgramInv' /\ BlockInv'
  BY DEF IInv, LogInv, ProgramInv, Overtaken, BlockInv, Inline, Owner, Num
<1>6. QED
  BY <1>1, <1>2, <1>3, <1>4, <1>5 DEF IInv

(***************************************************************************)
(* IInv is an invariant of the wrappers, the worker and the clients.       *)
(***************************************************************************)
THEOREM Invariance == Spec => []IInv
<1>1. IInv /\ Next => IInv'
  BY TypeStep, LifeStep, WorkStep, NumberStep, PlaceStep, OrderStep, WaitStep,
     LogStep, ProgramStep, BlockStep DEF IInv
<1>2. IInv /\ [Next]_vars => IInv'
  BY <1>1, Stutters
<1>3. QED
  BY <1>2, Initially, PTL DEF Spec

(***************************************************************************)
(* The state of async_sqlite3.cpp and of its clients keeps its types.      *)
(***************************************************************************)
THEOREM TypeCorrect == Spec => []TypeOK
<1>1. IInv => TypeOK
  BY DEF IInv
<1>2. QED
  BY <1>1, Invariance, PTL

(***************************************************************************)
(* What a client was told has failed never runs, and nothing runs twice.   *)
(***************************************************************************)
THEOREM ResultsAreTrue == Spec => []ResultTellsTruth
<1>1. IInv => ResultTellsTruth
  <2> SUFFICES ASSUME IInv
               PROVE  ResultTellsTruth
    OBVIOUS
  <2>1. DOMAIN log = 1 .. Len(log)
    BY DEF IInv, TypeOK
  <2>2. QED
    BY <2>1 DEF IInv, LogInv, ResultTellsTruth, Ran
<1>2. QED
  BY <1>1, Invariance, PTL

(***************************************************************************)
(* Once the worker is gone nobody waits, and no future is pending.         *)
(***************************************************************************)
THEOREM ExitAnswersAll == Spec => []ExitDrains
<1>1. IInv => ExitDrains
  <2> SUFFICES ASSUME IInv, thread = "gone"
               PROVE  /\ queue = <<>>
                      /\ \A t \in Client : client[t] # "waiting"
                      /\ \A o \in Op : result[o] # "pending"
    BY DEF ExitDrains
  <2>1. queue = <<>> /\ Len(queue) = 0 /\ worker = "idle"
    BY DEF IInv, LifeInv
  <2>2. \A t \in Client : client[t] # "waiting"
    <3>1. \A t \in Client : ~QueuedSync(t) /\ ~ServedSync(t)
      BY <2>1 DEF QueuedSync, ServedSync, InBlock
    <3>2. QED
      BY <3>1 DEF IInv, WaitInv
  <2>3. \A o \in Op : result[o] # "pending"
    BY <2>1 DEF IInv, PlaceInv, Queued, Serving, InBlock
  <2>4. QED
    BY <2>1, <2>2, <2>3
<1>2. QED
  BY <1>1, Invariance, PTL

-----------------------------------------------------------------------------
(***************************************************************************)
(* The order of the log.  Both properties speak of the past and are        *)
(* inductive next to IInv, which speaks of what is still outstanding.      *)
(***************************************************************************)
LogInOrder ==
  \A i, j \in 1 .. Len(log) : i < j => ~Overtaken(log[j], log[i])

\* A step that does not log leaves both as they are.
LEMMA LogKept ==
  ASSUME IInv, Next
  PROVE  \/ Finish \/ InlineLeave
         \/ /\ log' = log
            /\ \A i \in 1 .. Len(log) :
                 /\ within'[log[i]] = within[log[i]]
                 /\ log[i] \in posted' <=> log[i] \in posted
<1> \A i \in 1 .. Len(log) : log[i] \in Op /\ result[log[i]] = "ok"
  BY DEF IInv, TypeOK, LogInv
<1>1. ASSUME NEW t \in Client, Issuing(t)
      PROVE  \A i \in 1 .. Len(log) : log[i] \in posted' <=> log[i] \in posted
  <2>1. PICK r, b : Issues(t, r, b)
    BY <1>1 DEF Issuing, Refusal, Posting, Calling, Bypassing, Inlining
  <2>2. \A i \in 1 .. Len(log) : log[i] # New(t)
    BY <2>1, Fresh
  <2>3. posted' = posted \/ posted' = posted \cup {New(t)}
    BY <1>1 DEF Issuing, Refusal, Posting, Calling, Bypassing, Inlining, ByClient, ByBlock
  <2>4. QED
    BY <2>2, <2>3
<1>2. QED
  BY <1>1, QuietSteps

LEMMA LogInOrderStep ==
  ASSUME IInv, LogInOrder, Next
  PROVE  LogInOrder'
<1> USE DEF LogInOrder
<1>1. ASSUME NEW o \in Op, Logs(o)
      PROVE  LogInOrder'
  <2>1. /\ Len(log) \in Nat /\ Len(log') = Len(log) + 1
        /\ \A i \in 1 .. Len(log) : log'[i] = log[i] /\ log[i] \in Op
        /\ log'[Len(log) + 1] = o
    BY <1>1, LogGrows
  <2>2. \A i \in 1 .. Len(log) : ~Overtaken(o, log[i])
    BY <1>1 DEF IInv, ProgramInv, Logs
  <2>3. ASSUME NEW i \in 1 .. Len(log'), NEW j \in 1 .. Len(log'), i < j
        PROVE  ~Overtaken(log'[j], log'[i])
    <3>1. i \in 1 .. Len(log) /\ log'[i] = log[i]
      BY <2>1, <2>3
    <3>2. CASE j \in 1 .. Len(log)
      BY <2>1, <2>3, <3>1, <3>2
    <3>3. CASE j = Len(log) + 1
      BY <2>1, <2>2, <3>1, <3>3
    <3>4. QED
      BY <2>1, <3>2, <3>3
  <2>4. within' = within
    BY <1>1 DEF Logs
  <2>5. QED
    BY <2>3, <2>4 DEF Overtaken, Owner, Num
<1>2. ASSUME log' = log,
             \A i \in 1 .. Len(log) : within'[log[i]] = within[log[i]]
      PROVE  LogInOrder'
  BY <1>2 DEF Overtaken, Owner, Num
<1>3. Finish => \E o \in Op : Logs(o)
  BY FinishLogs DEF Logs
<1>4. InlineLeave => \E o \in Op : Logs(o)
  BY InlineLogs DEF Logs
<1>5. QED
  BY <1>1, <1>2, <1>3, <1>4, LogKept

(***************************************************************************)
(* A client's operations run in the order in which it issued them, across  *)
(* futures, blocking calls, shutdowns and restarts.                        *)
(***************************************************************************)
THEOREM ProgramOrderKept == Spec => []ProgramOrder
<1>1. Init => LogInOrder
  BY DEF Init, LogInOrder
<1>2. IInv /\ LogInOrder /\ [Next]_vars => LogInOrder'
  <2>1. LogInOrder /\ UNCHANGED vars => LogInOrder'
    BY DEF LogInOrder, Overtaken, Owner, Num, vars
  <2>2. QED
    BY <2>1, LogInOrderStep
<1>3. IInv /\ LogInOrder => ProgramOrder
  <2> SUFFICES ASSUME IInv, LogInOrder, NEW t \in Client,
                      NEW m \in 1 .. MaxOps[t], NEW n \in 1 .. MaxOps[t], m < n,
                      within[<<t, m>>] = NoOp, within[<<t, n>>] = NoOp,
                      RunsBefore(<<t, n>>, <<t, m>>)
               PROVE  FALSE
    BY DEF ProgramOrder
  <2>1. DOMAIN log = 1 .. Len(log)
    BY DEF IInv, TypeOK
  <2>2. PICK i \in 1 .. Len(log), j \in 1 .. Len(log) :
          i < j /\ log[i] = <<t, n>> /\ log[j] = <<t, m>>
    BY <2>1 DEF RunsBefore
  <2>3. Overtaken(<<t, m>>, <<t, n>>)
    BY PairIsOp DEF Overtaken
  <2>4. QED
    BY <2>2, <2>3 DEF LogInOrder
<1>4. QED
  BY <1>1, <1>2, <1>3, Invariance, PTL DEF Spec

LEMMA BlockAtomicStep ==
  ASSUME IInv, BlockAtomic, Next
  PROVE  BlockAtomic'
<1>1. DOMAIN log = 1 .. Len(log) /\ Len(log) \in Nat
  BY DEF IInv, TypeOK
<1>2. ASSUME NEW o \in Op, Logs(o),
             within[o] # NoOp /\ o \notin posted => \A i, j \in 1 .. Len(log) :
               i < j /\ within[log[i]] = within[o] /\ log[i] \notin posted
                 => within[log[j]] = within[o]
      PROVE  BlockAtomic'
  <2>1. /\ Len(log') = Len(log) + 1
        /\ \A i \in 1 .. Len(log) : log'[i] = log[i]
        /\ log'[Len(log) + 1] = o
    BY <1>2, LogGrows
  <2>2. within' = within /\ posted' = posted
    BY <1>2 DEF Logs
  <2>3. DOMAIN log' = 1 .. Len(log')
    BY <1>1, <1>2, <2>1 DEF Logs, IInv, TypeOK
  <2>4. ASSUME NEW i \in 1 .. Len(log'), NEW j \in 1 .. Len(log'), NEW k \in 1 .. Len(log'),
               i < j, j < k, within[log'[i]] # NoOp, within[log'[i]] = within[log'[k]],
               log'[i] \notin posted, log'[k] \notin posted
        PROVE  within[log'[j]] = within[log'[i]]
    <3>1. i \in 1 .. Len(log) /\ j \in 1 .. Len(log) /\ log'[i] = log[i] /\ log'[j] = log[j]
      BY <1>1, <2>1, <2>4
    <3>2. CASE k \in 1 .. Len(log)
      BY <1>1, <2>1, <2>4, <3>1, <3>2 DEF BlockAtomic
    <3>3. CASE k = Len(log) + 1
      BY <1>2, <2>1, <2>4, <3>1, <3>3
    <3>4. QED
      BY <1>1, <2>1, <3>2, <3>3
  <2>5. QED
    BY <2>2, <2>3, <2>4 DEF BlockAtomic
<1>3. CASE Finish
  <2>1. Logs(job.op) /\ job.op \in Op /\ worker = "sqlite" /\ result[job.op] = "pending"
    BY <1>3, FinishLogs DEF Logs
  <2>2. ~(within[job.op] # NoOp /\ job.op \notin posted)
    BY <2>1 DEF IInv, BlockInv
  <2>3. QED
    BY <1>2, <2>1, <2>2
<1>4. CASE InlineLeave
  <2>1. Logs(Inline) /\ Inline \in Op /\ within[Inline] = block /\ block # NoOp
    BY <1>4, InlineLogs DEF Logs
  <2>2. QED
    BY <1>2, <2>1 DEF IInv, BlockInv
<1>5. ASSUME log' = log,
             \A i \in 1 .. Len(log) :
               /\ within'[log[i]] = within[log[i]]
               /\ log[i] \in posted' <=> log[i] \in posted
      PROVE  BlockAtomic'
  BY <1>1, <1>5 DEF BlockAtomic
<1>6. QED
  BY <1>3, <1>4, <1>5, LogKept

(***************************************************************************)
(* What a block runs through the blocking wrappers is not interrupted.     *)
(***************************************************************************)
THEOREM BlocksAreAtomic == Spec => []BlockAtomic
<1>1. Init => BlockAtomic
  BY DEF Init, BlockAtomic
<1>2. IInv /\ BlockAtomic /\ [Next]_vars => BlockAtomic'
  <2>1. BlockAtomic /\ UNCHANGED vars => BlockAtomic'
    BY DEF BlockAtomic, vars
  <2>2. QED
    BY <2>1, BlockAtomicStep
<1>3. QED
  BY <1>1, <1>2, Invariance, PTL DEF Spec
-----------------------------------------------------------------------------
(***************************************************************************)
(* The refinement.                                                         *)
(***************************************************************************)
StatusFun == [o \in Op |-> StatusOf(o)]

LEMMA SameOps == SD!Op = Op
BY DEF SD!Op, Op

\* one operation's result changes
LEMMA StatusMoves ==
  ASSUME NEW o \in Op, \A p \in Op \ {o} : result'[p] = result[p]
  PROVE  StatusFun' = [StatusFun EXCEPT ![o] = StatusOf(o)']
<1>1. \A p \in Op \ {o} : StatusOf(p)' = StatusOf(p)
  BY DEF StatusOf
<1>2. QED
  BY <1>1 DEF StatusFun

LEMMA StatusValues ==
  ASSUME TypeOK, NEW o \in Op
  PROVE  /\ StatusFun[o] = StatusOf(o)
         /\ StatusOf(o) = "new" <=> result[o] = "none"
         /\ StatusOf(o) = "accepted" <=> result[o] = "pending"
         /\ StatusOf(o) = "beside" <=> result[o] = "direct"
         /\ StatusOf(o) = "done" <=> result[o] = "ok"
         /\ StatusOf(o) \in {"new", "accepted", "refused", "beside", "done"}
<1>1. StatusFun[o] = StatusOf(o)
  BY DEF StatusFun
<1>2. result[o] \in Result
  BY DEF TypeOK
<1>3. QED
  BY <1>1, <1>2 DEF StatusOf, Result

\* What is taken from the queue, or served, is the oldest of its client.
LEMMA OldestQueued ==
  ASSUME IInv, worker = "idle", Len(queue) > 0, IsWork(queue[1]),
         NEW e \in Op, Owner(e) = Owner(queue[1].op), Num(e) < Num(queue[1].op)
  PROVE  result[e] # "pending"
<1>1. /\ Len(queue) \in Nat /\ queue[1] \in Job /\ queue[1].op \in Op
  BY QueueLen, JobFacts DEF IInv, TypeOK
<1>2. result[e] = "pending" => Queued(e)
  BY DEF IInv, PlaceInv, Serving, InBlock
<1>3. ASSUME NEW i \in 1 .. Len(queue), IsWork(queue[i]), queue[i].op = e
      PROVE  FALSE
  <2>1. i # 1
    BY <1>1, <1>3, OpFacts
  <2>2. Num(queue[1].op) < Num(e)
    BY <1>1, <1>3, <2>1 DEF IInv, OrderInv
  <2>3. QED
    BY <1>1, <2>2, OpFacts
<1>4. QED
  BY <1>2, <1>3 DEF Queued

LEMMA OldestServed ==
  ASSUME IInv, worker = "sqlite",
         NEW e \in Op, Owner(e) = Owner(job.op), Num(e) < Num(job.op)
  PROVE  result[e] # "pending"
<1>1. job.op \in Op /\ Serving(job.op)
  BY ServedFacts DEF Serving
<1>2. result[e] = "pending" => Queued(e) \/ e = job.op
  BY DEF IInv, PlaceInv, Serving, InBlock
<1>3. ASSUME NEW i \in 1 .. Len(queue), IsWork(queue[i]), queue[i].op = e
      PROVE  FALSE
  <2>1. Num(job.op) < Num(e)
    BY <1>1, <1>3 DEF IInv, OrderInv
  <2>2. QED
    BY <1>1, <2>1, OpFacts
<1>4. QED
  BY <1>1, <1>2, <1>3, OpFacts DEF Queued

\* The order of the abstract database is that of the numbers.
LEMMA EarlierIs ==
  ASSUME NEW e \in Op, NEW o \in Op
  PROVE  SD!Earlier(e, o) <=> Owner(e) = Owner(o) /\ Num(e) < Num(o)
BY DEF SD!Earlier, Owner, Num

LEMMA FirstOne ==
  ASSUME IInv, NEW o \in Op, result[o] = "pending",
         \A e \in Op : Owner(e) = Owner(o) /\ Num(e) < Num(o) => result[e] # "pending"
  PROVE  SD!IsFirst(o)
<1>1. TypeOK
  BY DEF IInv
<1>2. StatusFun[o] = "accepted"
  BY <1>1, StatusValues
<1>3. \A e \in Op : SD!Earlier(e, o) => StatusFun[e] # "accepted"
  BY <1>1, StatusValues, EarlierIs
<1>4. QED
  BY <1>2, <1>3, SameOps DEF SD!IsFirst, StatusFun

\* Whoever issues an operation, the abstract database is asked for it.
LEMMA IssuingIsIssue ==
  ASSUME IInv, TypeOK', NEW t \in Client, Issuing(t)
  PROVE  \E o \in Op : SD!Accept(o) \/ SD!Refuse(o) \/ SD!Bypass(o)
<1>1. PICK r, b : /\ Issues(t, r, b)
                  /\ r \in Result \ {"none", "ok"}
                  /\ ByClient(t, b) \/ (worker = "block" /\ t = Owner(block) /\ b = block)
  BY DEF Issuing, Refusal, Posting, Calling, Bypassing, Inlining, ByBlock, Result
<1> DEFINE o == New(t)
<1>2. /\ o \in Op /\ Owner(o) = t /\ Num(o) = issued[t] + 1 /\ result[o] = "none"
      /\ \A p \in Op : result'[p] = IF p = o THEN r ELSE result[p]
  BY <1>1, Fresh
<1>3. StatusFun[o] = "new"
  BY <1>2, StatusValues DEF IInv
<1>4. ASSUME NEW e \in Op, SD!Earlier(e, o)
      PROVE  StatusFun[e] # "new"
  <2>1. Owner(e) = t /\ Num(e) < issued[t] + 1 /\ Num(e) \in Nat /\ issued[t] \in Nat
    BY <1>2, <1>4, EarlierIs, OpFacts DEF IInv, TypeOK
  <2>2. result[e] # "none"
    BY <2>1 DEF IInv, NumberInv
  <2>3. QED
    BY <2>2, StatusValues DEF IInv
<1> DEFINE s == IF r = "pending" THEN "accepted"
                ELSE IF r = "direct" THEN "beside" ELSE "refused"
<1>5. \A p \in Op : StatusOf(p)' = IF p = o THEN s ELSE StatusOf(p)
  <2>1. r \in {"pending", "direct", "busy", "threw", "noFuture", "broken"}
    BY <1>1 DEF Result
  <2>2. ASSUME NEW p \in Op, p = o
        PROVE  StatusOf(p)' = s
    <3>1. result'[p] = r
      BY <1>2, <2>2
    <3>2. QED
      BY <2>1, <3>1 DEF StatusOf
  <2>3. ASSUME NEW p \in Op, p # o
        PROVE  StatusOf(p)' = StatusOf(p)
    BY <1>2, <2>3 DEF StatusOf
  <2>4. QED
    BY <2>2, <2>3
<1>6. StatusFun' = [StatusFun EXCEPT ![o] = s]
  BY <1>5 DEF StatusFun
<1>7. b = BlockOf(t)
  <2>1. CASE ByClient(t, b)
    BY <2>1, ReadyHasNoBlock DEF ByClient
  <2>2. CASE worker = "block" /\ t = Owner(block) /\ b = block
    BY <2>2 DEF BlockOf, IInv, WorkInv, InBlock
  <2>3. QED
    BY <1>1, <2>1, <2>2
<1>8. within' = [within EXCEPT ![o] =
                   IF block # SD!NoOp /\ block[1] = o[1] THEN block ELSE SD!NoOp]
  <2>1. o[1] = t /\ SD!NoOp = NoOp
    BY <1>2 DEF Owner, SD!NoOp, NoOp
  <2>2. BlockOf(t) = IF block # SD!NoOp /\ block[1] = o[1] THEN block ELSE SD!NoOp
    BY <2>1 DEF BlockOf, Owner
  <2>3. QED
    BY <1>1, <1>7, <2>2 DEF Issues
<1>9. SD!Issue(o, s)
  BY <1>1, <1>3, <1>4, <1>6, <1>8, SameOps DEF SD!Issue, StatusFun, Issues
<1>10. QED
  BY <1>2, <1>9 DEF SD!Accept, SD!Refuse, SD!Bypass

\* The two ways an operation takes effect.
LEMMA LogsIsApply ==
  ASSUME IInv, NEW o \in Op, Logs(o), result[o] = "pending",
         \/ block = NoOp /\ SD!IsFirst(o)
         \/ block # NoOp /\ within[o] = block,
         UNCHANGED <<within, block>>
  PROVE  SD!Apply(o)
<1>1. \A p \in Op : result'[p] = IF p = o THEN "ok" ELSE result[p]
  BY LogGrows
<1>2. StatusFun' = [StatusFun EXCEPT ![o] = StatusOf(o)'] /\ StatusOf(o)' = "done"
  BY <1>1, StatusMoves DEF StatusOf
<1>3. StatusFun[o] = "accepted"
  BY StatusValues DEF IInv
<1>4. log' = Append(log, o)
  BY DEF Logs
<1>5. QED
  BY <1>2, <1>3, <1>4 DEF SD!Apply, StatusFun, SD!NoOp, NoOp

LEMMA NextIsNext ==
  ASSUME IInv, TypeOK', Next
  PROVE  SD!Next \/ UNCHANGED <<StatusFun, within, block, log>>
<1>1. ASSUME UNCHANGED result
      PROVE  StatusFun' = StatusFun
  BY <1>1 DEF StatusFun, StatusOf
<1>2. CASE InitAsync \/ ExitThread
  BY <1>1, <1>2 DEF InitAsync, ExitThread
<1>3. CASE Take
  <2>1. CASE block' = block
    BY <1>1, <1>3, <2>1 DEF Take
  <2>2. CASE block' # block
    <3> DEFINE o == queue[1].op
    <3>1. /\ worker = "idle" /\ Len(queue) > 0 /\ IsWork(queue[1])
          /\ queue[1] \in Job /\ block' = o
      BY <1>3, <2>2, TakeFacts DEF Take, IsWork, ExitJob
    <3>2. o \in Op /\ Queued(o) /\ block = NoOp
      BY <3>1, JobFacts, QueueLen DEF IInv, WorkInv, InBlock, Queued
    <3>3. result[o] = "pending"
      BY <3>2 DEF IInv, PlaceInv
    <3>4. SD!IsFirst(o)
      BY <3>1, <3>2, <3>3, FirstOne, OldestQueued
    <3>5. SD!Hold(o)
      BY <1>1, <1>3, <3>1, <3>2, <3>4 DEF SD!Hold, Take, StatusFun, SD!NoOp, NoOp
    <3>6. QED
      BY <3>2, <3>5, SameOps DEF SD!Next
  <2>3. QED
    BY <2>1, <2>2
<1>4. CASE Finish
  <2>1. Logs(job.op) /\ worker = "sqlite" /\ block = NoOp
    BY <1>4, FinishLogs
  <2>2. job.op \in Op /\ result[job.op] = "pending"
    BY <2>1, ServedFacts
  <2>3. SD!IsFirst(job.op)
    BY <2>1, <2>2, FirstOne, OldestServed
  <2>4. SD!Apply(job.op)
    BY <1>4, <2>1, <2>2, <2>3, LogsIsApply DEF Finish
  <2>5. QED
    BY <2>2, <2>4, SameOps DEF SD!Next
<1>5. CASE InlineLeave
  <2>1. Logs(Inline) /\ worker = "inline" /\ within[Inline] = block /\ block # NoOp
    BY <1>5, InlineLogs
  <2>2. Inline \in Op /\ result[Inline] = "pending"
    BY <2>1, ServedFacts
  <2>3. SD!Apply(Inline)
    BY <1>5, <2>1, <2>2, LogsIsApply DEF InlineLeave
  <2>4. QED
    BY <2>2, <2>3, SameOps DEF SD!Next
<1>6. CASE BlockReturns
  <2>1. block \in Op /\ result[block] = "pending" /\ block # NoOp
    BY <1>6, ServedFacts DEF BlockReturns, InBlock, IInv, WorkInv
  <2>2. \A p \in Op : result'[p] = IF p = block THEN "ok" ELSE result[p]
    BY <1>6, <2>1 DEF BlockReturns, Answer, IInv, TypeOK
  <2>3. \A p \in Op : StatusOf(p)' = IF p = block THEN "done" ELSE StatusOf(p)
    BY <2>2 DEF StatusOf
  <2>4. StatusFun' = [StatusFun EXCEPT ![block] = "done"]
    BY <2>3 DEF StatusFun
  <2>5. SD!Release
    BY <1>6, <2>1, <2>4 DEF SD!Release, BlockReturns, StatusFun, SD!NoOp, NoOp
  <2>6. QED
    BY <2>5 DEF SD!Next
<1>7. ASSUME NEW t \in Client, Issuing(t)
      PROVE  SD!Next
  BY <1>7, IssuingIsIssue, SameOps DEF SD!Next
<1>8. ASSUME NEW t \in Client, DirectLeave(t)
      PROVE  SD!Next
  <2> DEFINE o == <<t, issued[t]>>
  <2>1. client[t] = "direct" /\ issued[t] > 0 /\ result[o] = "direct"
    BY <1>8 DEF DirectLeave, IInv, NumberInv
  <2>2. o \in Op
    BY <2>1, LastFacts DEF IInv
  <2>3. \A p \in Op : result'[p] = IF p = o THEN "ok" ELSE result[p]
    BY <1>8, <2>2 DEF DirectLeave, IInv, TypeOK
  <2>4. StatusFun' = [StatusFun EXCEPT ![o] = "done"]
    <3>1. \A p \in Op : StatusOf(p)' = IF p = o THEN "done" ELSE StatusOf(p)
      BY <2>3 DEF StatusOf
    <3>2. QED
      BY <3>1 DEF StatusFun
  <2>5. StatusFun[o] = "beside"
    BY <2>1, <2>2, StatusValues DEF IInv
  <2>6. SD!Return(o)
    BY <1>8, <2>4, <2>5 DEF SD!Return, DirectLeave, StatusFun
  <2>7. QED
    BY <2>2, <2>6, SameOps DEF SD!Next
<1>9. QED
  BY <1>2, <1>3, <1>4, <1>5, <1>6, <1>7, <1>8, Steps

(***************************************************************************)
(* The asynchronous API implements SerialDatabase for any number of        *)
(* clients and operations: issuing is Accept, Refuse or Bypass, the return *)
(* from SQLite is Apply, taking and leaving a block Hold and Release, the  *)
(* return of a direct wrapper Return, and the rest is invisible.           *)
(***************************************************************************)
THEOREM ApiIsSerialDatabase == Spec => ImplementsSerialDatabase
<1>1. Init => SD!Init
  <2> SUFFICES ASSUME Init
               PROVE  SD!Init
    OBVIOUS
  <2>1. \A o \in Op : StatusOf(o) = "new"
    BY DEF Init, StatusOf
  <2>2. QED
    BY <2>1, SameOps DEF Init, SD!Init, SD!NoOp, NoOp
<1>2. IInv /\ TypeOK' /\ [Next]_vars => [SD!Next]_<<StatusFun, within, block, log>>
  <2>1. ASSUME UNCHANGED vars
        PROVE  UNCHANGED <<StatusFun, within, block, log>>
    BY <2>1 DEF vars, StatusFun, StatusOf
  <2>2. QED
    BY <2>1, NextIsNext
<1>3. IInv /\ TypeOK' /\ [Next]_vars => [SD!Next]_SD!vars
  BY <1>2 DEF SD!vars, StatusFun
<1>4. QED
  BY <1>1, <1>3, Invariance, TypeCorrect, PTL DEF Spec, ImplementsSerialDatabase, SD!Spec

-----------------------------------------------------------------------------
(***************************************************************************)
(* What the refinement brings: the consequences proved of SerialDatabase   *)
(* hold of the API.                                                        *)
(***************************************************************************)
SDP == INSTANCE SerialDatabase_proofs
         WITH status <- [o \in Op |-> StatusOf(o)], holder <- block

LEMMA SamePromises == SD!Spec => SDP!Spec
<1>1. SD!Init => SDP!Init
  BY DEF SD!Init, SDP!Init, SD!Op, SDP!Op, SD!NoOp, SDP!NoOp
<1>2. [SD!Next]_SD!vars => [SDP!Next]_SDP!vars
  BY DEF SD!Next, SDP!Next, SD!vars, SDP!vars, SD!Op, SDP!Op, SD!NoOp, SDP!NoOp,
         SD!Accept, SDP!Accept, SD!Refuse, SDP!Refuse, SD!Bypass, SDP!Bypass,
         SD!Issue, SDP!Issue, SD!Apply, SDP!Apply, SD!Hold, SDP!Hold,
         SD!Release, SDP!Release, SD!Return, SDP!Return,
         SD!IsFirst, SDP!IsFirst, SD!Earlier, SDP!Earlier
<1>3. QED
  BY <1>1, <1>2, PTL DEF SD!Spec, SDP!Spec

(***************************************************************************)
(* async_sqlite3.cpp:10-62 on the one worker: when an operation that a     *)
(* client issued by itself has run, every earlier operation of that client *)
(* has run or failed, none is pending; and an operation is overtaken only  *)
(* by one that a block running on the worker has issued.                   *)
(***************************************************************************)
THEOREM EarlierIsSettled ==
  Spec => [](SDP!EffectOnce /\ SDP!SettledBefore /\ SDP!OvertakenFromWithin)
  BY ApiIsSerialDatabase, SamePromises, SDP!PromisedEffects, PTL DEF ImplementsSerialDatabase

(***************************************************************************)
(* An operation whose caller or future was told that it failed never runs  *)
(* afterwards, not even when the worker is started again.                  *)
(***************************************************************************)
Failed(o) == result[o] \in {"busy", "threw", "noFuture", "broken"}

THEOREM FailedNeverRuns ==
  ASSUME NEW o \in Op
  PROVE  Spec => [](Failed(o) => []~Ran(o))
<1>1. TypeOK => (StatusFun[o] = "refused" <=> Failed(o))
  <2> SUFFICES ASSUME TypeOK
               PROVE  StatusFun[o] = "refused" <=> Failed(o)
    OBVIOUS
  <2>1. StatusOf(o) = "refused" <=> result[o] \notin {"none", "pending", "direct", "ok"}
    BY DEF StatusOf
  <2>2. QED
    BY <2>1 DEF StatusFun, Failed, TypeOK, Result
<1>2. SDP!TookEffect(o) <=> Ran(o)
  BY DEF SDP!TookEffect, Ran
<1>3. SDP!Spec => [](StatusFun[o] = "refused" => []~SDP!TookEffect(o))
  <2>1. o \in SDP!Op
    BY DEF SDP!Op, Op
  <2>2. QED
    BY <2>1, SDP!RefusedForGood, PTL DEF StatusFun
<1>4. QED
  BY <1>1, <1>2, <1>3, TypeCorrect, ApiIsSerialDatabase, SamePromises, PTL
     DEF ImplementsSerialDatabase
=============================================================================
