---------------------------- MODULE ReliableSend ----------------------------
(***************************************************************************)
(* Reliable sending over an unreliable transport: Dispatcher numbers the   *)
(* message, RetryMonitor stores it and sends it, TransportMonitor watches  *)
(* for its acknowledgement, and RetryMonitor sends it again when that does *)
(* not come in time.                                                       *)
(*                                                                         *)
(* Three kinds of threads meet in the two monitors, each monitor with a    *)
(* lock of its own and neither held while the other or the transport is    *)
(* called: senders (SendWithRetry), the one that calls Process() and so    *)
(* handles timeouts, and the one that receives acknowledgements.  All      *)
(* messages have one remote id, so that the sequence number is the key.    *)
(***************************************************************************)
EXTENDS Naturals, FiniteSets

CONSTANTS
  Msg,         \* the messages, each sent once
  SeqMod,      \* the sequence numbers wrap here (2^16 in the code)
  MaxRetries,  \* m_maxRetries
  MaxPending,  \* MAX_TRANSPORT_MONITOR_PENDING
  NoEntry,     \* a key that is not in m_retryStore
  NoKey        \* no sequence number

Seqs == 0 .. SeqMod - 1

ASSUME ReliableAssumption ==
  /\ SeqMod \in Nat \ {0} /\ MaxRetries \in Nat /\ MaxPending \in Nat
  /\ NoKey \notin Seqs
  /\ NoEntry \notin [msg : Msg, attempts : 0 .. MaxRetries, isSent : BOOLEAN]

VARIABLES
  m_seqNum,      \* Dispatcher's counter
  pc, seq,       \* progress of SendWithRetry, and the number of each message
  m_retryStore,  \* RetryMonitor: what may have to be sent again, by key
  m_pending,     \* TransportMonitor: the keys that wait for an acknowledgement
  expired,       \* m_expiredItems that Process() has still to signal
  handler,       \* what OnStatusChanged does after a timeout, its lock released
  arrived,       \* the key Remove() has found, until SUCCESS is signalled
  data, acks,    \* everything sent; each may arrive late, often, or never
  delivered,     \* the messages that have reached the receiver
  sends,         \* history: calls of the transport's Send, per message
  fate,          \* history: how a message left m_retryStore
  lost           \* history: keys not watched again because the monitor was full

storeVars == <<m_retryStore, fate>>
linkVars == <<data, acks, delivered>>
vars == <<m_seqNum, pc, seq, storeVars, m_pending, expired, handler, arrived,
          linkVars, sends, lost>>

Idle == [act |-> "idle", key |-> NoKey]

Init ==
  /\ m_seqNum = 0
  /\ pc = [m \in Msg |-> "idle"]
  /\ seq = [m \in Msg |-> NoKey]
  /\ m_retryStore = [k \in Seqs |-> NoEntry]
  /\ m_pending = {}
  /\ expired = {}
  /\ handler = Idle
  /\ arrived = NoKey
  /\ data = {} /\ acks = {} /\ delivered = {}
  /\ sends = [m \in Msg |-> 0]
  /\ fate = [m \in Msg |-> "open"]
  /\ lost = {}

\* m_retryStore.erase(k), for the reason given
Erase(k, reason) ==
  /\ m_retryStore' = [m_retryStore EXCEPT ![k] = NoEntry]
  /\ fate' = IF m_retryStore[k] = NoEntry THEN fate
             ELSE [fate EXCEPT ![m_retryStore[k].msg] = reason]

\* Mutant: only the number is looked at.
RefusesUsed(k) == k \in m_pending

\* TransportMonitor::Add says no: the map is full, or the number is in use
Refuses(k) == Cardinality(m_pending) >= MaxPending \/ k \in m_pending

-----------------------------------------------------------------------------
\* Dispatcher::Dispatch and RetryMonitor::SendWithRetry, on the sender's thread.

Dispatch(m) ==
  /\ pc[m] = "idle"
  /\ m_seqNum' = (m_seqNum + 1) % SeqMod
  /\ seq' = [seq EXCEPT ![m] = m_seqNum]
  /\ pc' = [pc EXCEPT ![m] = "numbered"]
  /\ UNCHANGED <<storeVars, m_pending, expired, handler, arrived, linkVars, sends, lost>>

\* The packet is stored, over an older one with its number.
Store(m) ==
  /\ pc[m] = "numbered"
  /\ m_retryStore' = [m_retryStore EXCEPT ![seq[m]] =
                        [msg |-> m, attempts |-> MaxRetries, isSent |-> FALSE]]
  /\ fate' = IF m_retryStore[seq[m]] = NoEntry THEN fate
             ELSE [fate EXCEPT ![m_retryStore[seq[m]].msg] = "overwritten"]
  /\ pc' = [pc EXCEPT ![m] = "stored"]
  /\ lost' = lost \ {seq[m]}
  /\ UNCHANGED <<m_seqNum, seq, m_pending, expired, handler, arrived, linkVars, sends>>

\* m_monitor->Add
Register(m) ==
  /\ pc[m] = "stored"
  /\ IF Refuses(seq[m])
       THEN pc' = [pc EXCEPT ![m] = "refused"] /\ UNCHANGED m_pending
       ELSE pc' = [pc EXCEPT ![m] = "added"] /\ m_pending' = m_pending \cup {seq[m]}
  /\ UNCHANGED <<m_seqNum, seq, storeVars, expired, handler, arrived, linkVars, sends,
                 lost>>

\* not watched, so not sent, or not sent: SendWithRetry returns an error
Unstore(m) ==
  /\ pc[m] \in {"refused", "failed"}
  /\ Erase(seq[m], "rejected")
  /\ pc' = [pc EXCEPT ![m] = "error"]
  /\ UNCHANGED <<m_seqNum, seq, m_pending, expired, handler, arrived, linkVars, sends,
                 lost>>

\* m_transport->Send, which may fail
Send(m) ==
  /\ pc[m] = "added"
  /\ sends' = [sends EXCEPT ![m] = @ + 1]
  /\ \/ data' = data \cup {m} /\ pc' = [pc EXCEPT ![m] = "sent"]
     \/ pc' = [pc EXCEPT ![m] = "failed"] /\ UNCHANGED data
  /\ UNCHANGED <<m_seqNum, seq, storeVars, m_pending, expired, handler, arrived, acks,
                 delivered, lost>>

\* isSent = true, if the entry is still there
MarkSent(m) ==
  /\ pc[m] = "sent"
  /\ pc' = [pc EXCEPT ![m] = "done"]
  /\ m_retryStore' = IF m_retryStore[seq[m]] = NoEntry THEN m_retryStore
                     ELSE [m_retryStore EXCEPT ![seq[m]].isSent = TRUE]
  /\ UNCHANGED <<m_seqNum, seq, fate, m_pending, expired, handler, arrived, linkVars,
                 sends, lost>>

-----------------------------------------------------------------------------
\* TransportMonitor::Process and OnStatusChanged(TIMEOUT), on one thread.

\* Process takes the entries whose time is up, which may be any.
Expire(K) ==
  /\ expired = {} /\ handler = Idle
  /\ K # {} /\ K \subseteq m_pending
  /\ m_pending' = m_pending \ K
  /\ expired' = K
  /\ UNCHANGED <<m_seqNum, pc, seq, storeVars, handler, arrived, linkVars, sends, lost>>

\* OnStatusChanged(TIMEOUT) under m_lock: what is to be done
Settled(k) ==
  /\ m_retryStore[k] = NoEntry
  /\ UNCHANGED <<storeVars, handler>>

\* Mutant: the budget is not counted.
RetryForever(k) ==
  /\ m_retryStore[k] # NoEntry
  /\ m_retryStore[k].attempts > 0 /\ m_retryStore[k].isSent
  /\ handler' = [act |-> "add", key |-> k, msg |-> m_retryStore[k].msg]
  /\ UNCHANGED storeVars

\* Mutant: whether the first Send has returned is not looked at.
RetryUnsent(k) ==
  /\ m_retryStore[k] # NoEntry
  /\ m_retryStore[k].attempts > 0
  /\ m_retryStore' = [m_retryStore EXCEPT ![k].attempts = @ - 1]
  /\ handler' = [act |-> "add", key |-> k, msg |-> m_retryStore[k].msg]
  /\ UNCHANGED fate

Retry(k) ==
  /\ m_retryStore[k] # NoEntry
  /\ m_retryStore[k].attempts > 0 /\ m_retryStore[k].isSent
  /\ m_retryStore' = [m_retryStore EXCEPT ![k].attempts = @ - 1]
  /\ handler' = [act |-> "add", key |-> k, msg |-> m_retryStore[k].msg]
  /\ UNCHANGED fate

\* Mutant: watching a first Send for longer costs an attempt.
ReregisterPaid(k) ==
  /\ m_retryStore[k] # NoEntry
  /\ m_retryStore[k].attempts > 0 /\ ~m_retryStore[k].isSent
  /\ m_retryStore' = [m_retryStore EXCEPT ![k].attempts = @ - 1]
  /\ handler' = [act |-> "reregister", key |-> k]
  /\ UNCHANGED fate

\* Mutant: a timeout during the first Send is forgotten.
ForgetEarly(k) ==
  /\ m_retryStore[k] # NoEntry
  /\ m_retryStore[k].attempts > 0 /\ ~m_retryStore[k].isSent
  /\ UNCHANGED <<storeVars, handler>>

\* the first Send is still under way
Reregister(k) ==
  /\ m_retryStore[k] # NoEntry
  /\ m_retryStore[k].attempts > 0 /\ ~m_retryStore[k].isSent
  /\ handler' = [act |-> "reregister", key |-> k]
  /\ UNCHANGED storeVars

\* Mutant: the entry stays when its attempts are used up.
GiveUpKept(k) ==
  /\ m_retryStore[k] # NoEntry
  /\ m_retryStore[k].attempts = 0
  /\ UNCHANGED <<storeVars, handler>>

GiveUp(k) ==
  /\ m_retryStore[k] # NoEntry
  /\ m_retryStore[k].attempts = 0
  /\ Erase(k, "exhausted")
  /\ UNCHANGED handler

Timeout(k) ==
  /\ k \in expired /\ handler = Idle
  /\ expired' = expired \ {k}
  /\ Settled(k) \/ Retry(k) \/ Reregister(k) \/ GiveUp(k)
  /\ UNCHANGED <<m_seqNum, pc, seq, m_pending, arrived, linkVars, sends, lost>>

\* the key is watched again before the copy goes out
AddForRetry ==
  /\ handler.act = "add"
  /\ IF Refuses(handler.key)
       THEN handler' = [handler EXCEPT !.act = "erase"] /\ UNCHANGED m_pending
       ELSE /\ handler' = [handler EXCEPT !.act = "send"]
            /\ m_pending' = m_pending \cup {handler.key}
  /\ UNCHANGED <<m_seqNum, pc, seq, storeVars, expired, arrived, linkVars, sends, lost>>

\* the result of this Send is not looked at
SendAgain ==
  /\ handler.act = "send"
  /\ sends' = [sends EXCEPT ![handler.msg] = @ + 1]
  /\ data' \in {data, data \cup {handler.msg}}
  /\ handler' = Idle
  /\ UNCHANGED <<m_seqNum, pc, seq, storeVars, m_pending, expired, arrived, acks,
                 delivered, lost>>

EraseUnwatched ==
  /\ handler.act = "erase"
  /\ Erase(handler.key, "dropped")
  /\ handler' = Idle
  /\ UNCHANGED <<m_seqNum, pc, seq, m_pending, expired, arrived, linkVars, sends, lost>>

\* the result of this Add is not looked at
AddAgain ==
  /\ handler.act = "reregister"
  /\ IF Refuses(handler.key)
       THEN lost' = lost \cup ({handler.key} \ m_pending) /\ UNCHANGED m_pending
       ELSE m_pending' = m_pending \cup {handler.key} /\ UNCHANGED lost
  /\ handler' = Idle
  /\ UNCHANGED <<m_seqNum, pc, seq, storeVars, expired, arrived, linkVars, sends>>

-----------------------------------------------------------------------------
\* Receive on the sender's side: TransportMonitor::Remove, OnStatusChanged(SUCCESS).

\* Mutant: any acknowledgement will do.
RemoveAny(k) ==
  /\ arrived = NoKey
  /\ acks # {} /\ k \in m_pending
  /\ m_pending' = m_pending \ {k}
  /\ arrived' = k
  /\ UNCHANGED <<m_seqNum, pc, seq, storeVars, expired, handler, linkVars, sends, lost>>

Remove(k) ==
  /\ arrived = NoKey
  /\ k \in acks \cap m_pending
  /\ m_pending' = m_pending \ {k}
  /\ arrived' = k
  /\ UNCHANGED <<m_seqNum, pc, seq, storeVars, expired, handler, linkVars, sends, lost>>

Success ==
  /\ arrived # NoKey
  /\ Erase(arrived, "acknowledged")
  /\ arrived' = NoKey
  /\ UNCHANGED <<m_seqNum, pc, seq, m_pending, expired, handler, linkVars, sends, lost>>

-----------------------------------------------------------------------------
\* The receiver.  A copy once sent may arrive at any time, or never: to lose one is
\* never to take the step.

\* Receive acknowledges every packet and passes it on, whether new or not
Deliver(m) ==
  /\ m \in data
  /\ delivered' = delivered \cup {m}
  /\ acks' = acks \cup {seq[m]}
  /\ UNCHANGED <<m_seqNum, pc, seq, storeVars, m_pending, expired, handler, arrived,
                 data, sends, lost>>

-----------------------------------------------------------------------------
Sender(m) == Store(m) \/ Register(m) \/ Unstore(m) \/ Send(m) \/ MarkSent(m)
Handler ==
  (\E k \in Seqs : Timeout(k)) \/ AddForRetry \/ SendAgain \/ EraseUnwatched \/ AddAgain

Next ==
  \/ \E m \in Msg : Dispatch(m) \/ Sender(m) \/ Deliver(m)
  \/ Handler \/ Success
  \/ \E K \in SUBSET Seqs : Expire(K)
  \/ \E k \in Seqs : Remove(k)

Spec == Init /\ [][Next]_vars

\* The threads are scheduled, and Process() is called again and again, so that
\* no timeout stays unnoticed.  The network owes nothing.
FairSpec ==
  /\ Spec
  /\ \A m \in Msg : WF_vars(Sender(m))
  /\ WF_vars(Handler)
  /\ WF_vars(Success)
  /\ \A k \in Seqs : SF_vars(\E K \in SUBSET Seqs : k \in K /\ Expire(K))

-----------------------------------------------------------------------------
Entry == [msg : Msg, attempts : 0 .. MaxRetries, isSent : BOOLEAN]

TypeOK ==
  /\ m_seqNum \in Seqs
  /\ pc \in [Msg -> {"idle", "numbered", "stored", "added", "sent", "refused", "failed", "done",
                 "error"}]
  /\ seq \in [Msg -> Seqs \cup {NoKey}]
  /\ m_retryStore \in [Seqs -> Entry \cup {NoEntry}]
  /\ m_pending \in SUBSET Seqs /\ Cardinality(m_pending) <= MaxPending
  /\ expired \in SUBSET Seqs
  /\ handler \in {Idle} \cup [act : {"reregister"}, key : Seqs]
                        \cup [act : {"add", "send", "erase"}, key : Seqs, msg : Msg]
  /\ arrived \in Seqs \cup {NoKey}
  /\ data \in SUBSET Msg /\ acks \in SUBSET Seqs /\ delivered \in SUBSET Msg
  /\ sends \in [Msg -> Nat]
  /\ fate \in [Msg -> {"open", "overwritten", "rejected", "exhausted", "dropped",
                       "acknowledged"}]
  /\ lost \in SUBSET Seqs

(***************************************************************************)
(* SendWithRetry and the retries of a message together call the            *)
(* transport's Send at most once and m_maxRetries times, however timeouts, *)
(* acknowledgements and reused numbers interleave: no retry is paid from   *)
(* another message's budget, and none is free.                             *)
(***************************************************************************)
RetryBudget == \A m \in Msg : sends[m] <= 1 + MaxRetries

(***************************************************************************)
(* A stored packet always has somebody who will decide about it: the       *)
(* monitor that watches its number, a timeout that has not been dealt with *)
(* or an acknowledgement, or the SendWithRetry that is about to watch or   *)
(* to erase it.  The code has one exception, in lost: OnStatusChanged puts a  *)
(* number whose first Send is still under way back under watch without     *)
(* looking at whether Add, its map full, accepted it.                      *)
(***************************************************************************)
Watched(k) ==
  \/ k \in m_pending \cup expired \cup lost
  \/ k = arrived \/ (k = handler.key /\ handler.act # "send")
  \/ \E m \in Msg : seq[m] = k /\ pc[m] \in {"stored", "refused", "failed"}

NothingForgotten == \A k \in Seqs : m_retryStore[k] # NoEntry => Watched(k)

(***************************************************************************)
(* A message leaves the store as acknowledged only when a packet with its  *)
(* number has reached the receiver: its own, unless the 16-bit number was  *)
(* used before and the acknowledgement is a late one of that packet.       *)
(***************************************************************************)
AckMeansDelivered ==
  \A m \in Msg : fate[m] = "acknowledged" =>
    m \in delivered \/ \E n \in delivered \ {m} : seq[n] = seq[m]

(***************************************************************************)
(* A message is given up only when its retries are used up, and each of    *)
(* them was handed to the transport; a first Send still outstanding then   *)
(* is one that has outlived them all, or another message had its number.   *)
(***************************************************************************)
GaveUpLast ==
  \A m \in Msg : fate[m] = "exhausted" =>
    /\ sends[m] >= MaxRetries
    /\ \/ sends[m] = 1 + MaxRetries \/ pc[m] = "added"
       \/ \E n \in Msg \ {m} : seq[n] = seq[m]

(***************************************************************************)
(* An error returned by SendWithRetry means that no copy of the message    *)
(* has gone out or ever will, although timeouts were handled while it ran: *)
(* unless another message had its number, and was taken for it.            *)
(***************************************************************************)
ErrorMeansUnsent ==
  \A m \in Msg : pc[m] \in {"refused", "failed", "error"} =>
    m \notin data \/ \E n \in Msg \ {m} : seq[n] = seq[m]

(***************************************************************************)
(* Both monitors, their locks and their timeouts implement PacketLife: one *)
(* settlement per message, within the budget, and every reason and answer  *)
(* true when it is given.  An error is told when SendWithRetry returns it. *)
(***************************************************************************)
LifeOf(m) == IF pc[m] \in {"idle", "numbered"} THEN "new" ELSE fate[m]
AnswerOf(m) ==
  CASE pc[m] = "done" -> "success"
    [] pc[m] = "error" -> "error"
    [] OTHER -> "none"

Life == INSTANCE PacketLife
          WITH Number <- Seqs, life <- [m \in Msg |-> LifeOf(m)],
               answer <- [m \in Msg |-> AnswerOf(m)]
ImplementsPacketLife == Life!Spec

(***************************************************************************)
(* Every stored packet leaves the store in the end, whatever the network   *)
(* does, unless the monitor was full when it had to be watched again.      *)
(***************************************************************************)
Settles ==
  \A k \in Seqs : m_retryStore[k] # NoEntry ~> m_retryStore[k] = NoEntry \/ k \in lost
=============================================================================
