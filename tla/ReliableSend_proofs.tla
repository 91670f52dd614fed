------------------------ MODULE ReliableSend_proofs ------------------------
(***************************************************************************)
(* Proofs about ReliableSend, for any messages, any modulus of the         *)
(* sequence numbers, any retry limit and any size of the pending map: the  *)
(* budget of retries, what the outcomes of a message mean, that they       *)
(* exclude each other, what holds as long as no number is reused, and that *)
(* all of it implements PacketLife.                                        *)
(***************************************************************************)
EXTENDS ReliableSend, FiniteSetTheorems, TLAPS

(***************************************************************************)
(* The parts of the inductive invariant.  Seen: SendWithRetry has stored   *)
(* the message; Held: its entry is still there.  Every retry is counted in *)
(* one of three places: attempts that are left, one that the handler has   *)
(* started, and calls of Send; Budget bounds their sum from above, Spent   *)
(* from below.                                                             *)
(***************************************************************************)
Seen(m) == pc[m] \notin {"idle", "numbered"}
Held(m) == seq[m] \in Seqs /\ m_retryStore[seq[m]] # NoEntry
                           /\ m_retryStore[seq[m]].msg = m
Retrying(m) == handler.act \in {"add", "send", "erase"} /\ handler.msg = m

FirstDue(m) == IF pc[m] \in {"idle", "numbered", "stored", "added"} THEN 1 ELSE 0
FirstMade(m) == IF pc[m] \in {"sent", "failed", "done", "error"} THEN 1 ELSE 0
Started(m) == IF Retrying(m) THEN 1 ELSE 0
Left(m) == IF ~Seen(m) THEN MaxRetries
           ELSE IF Held(m) THEN m_retryStore[seq[m]].attempts ELSE 0

Numbered == \A m \in Msg : pc[m] # "idle" <=> seq[m] \in Seqs
StoreOwned ==
  \A k \in Seqs : m_retryStore[k] # NoEntry =>
    seq[m_retryStore[k].msg] = k /\ Seen(m_retryStore[k].msg)
HandlerOwned ==
  handler.act \in {"add", "send", "erase"} => seq[handler.msg] = handler.key
FateSeen == \A m \in Msg : fate[m] # "open" => Seen(m)
Sources ==
  /\ delivered \subseteq data
  /\ \A n \in data : pc[n] # "idle"
  /\ \A k \in acks : \E n \in delivered : seq[n] = k
  /\ arrived # NoKey => \E n \in delivered : seq[n] = arrived
Attempting == {"added", "sent", "failed", "done", "error"}
Attempted(k) == \E n \in Msg : seq[n] = k /\ pc[n] \in Attempting
Tried ==
  /\ \A k \in m_pending \cup expired : Attempted(k)
  /\ handler # Idle => Attempted(handler.key)
Budget == \A m \in Msg : sends[m] + FirstDue(m) + Started(m) + Left(m) <= 1 + MaxRetries
Spent ==
  \A m \in Msg : Held(m) =>
    sends[m] + Started(m) + m_retryStore[seq[m]].attempts >= MaxRetries + FirstMade(m)

Inv ==
  /\ TypeOK /\ Numbered /\ StoreOwned /\ HandlerOwned /\ FateSeen /\ Sources /\ Tried
  /\ Budget /\ Spent /\ NothingForgotten /\ AckMeansDelivered /\ GaveUpLast

-----------------------------------------------------------------------------
Acts == {"idle", "reregister", "add", "send", "erase"}
HandlerType ==
  handler \in {Idle} \cup [act : {"reregister"}, key : Seqs]
                     \cup [act : {"add", "send", "erase"}, key : Seqs, msg : Msg]
StoreType == m_retryStore \in [Seqs -> Entry \cup {NoEntry}]
PendingType == m_pending \in SUBSET Seqs /\ Cardinality(m_pending) <= MaxPending
PlainTypes ==
  /\ m_seqNum \in Seqs
  /\ pc \in [Msg -> {"idle", "numbered", "stored", "added", "sent", "refused", "failed",
                     "done", "error"}]
  /\ seq \in [Msg -> Seqs \cup {NoKey}]
  /\ expired \in SUBSET Seqs
  /\ arrived \in Seqs \cup {NoKey}
  /\ data \in SUBSET Msg /\ acks \in SUBSET Seqs /\ delivered \in SUBSET Msg
  /\ sends \in [Msg -> Nat]
  /\ fate \in [Msg -> {"open", "overwritten", "rejected", "exhausted", "dropped",
                       "acknowledged"}]
  /\ lost \in SUBSET Seqs

\* TypeOK is the conjunction of its groups.
LEMMA TypeGroups == TypeOK <=> HandlerType /\ StoreType /\ PendingType /\ PlainTypes
  BY DEF TypeOK, HandlerType, StoreType, PendingType, PlainTypes

\* What OnStatusChanged has to do always has a key, and a message when it is a retry.
LEMMA HandlerFields ==
  ASSUME HandlerType
  PROVE  /\ handler.act \in Acts
         /\ handler = Idle <=> handler.act = "idle"
         /\ handler # Idle => handler.key \in Seqs
         /\ handler.key \in Seqs \cup {NoKey}
         /\ handler.act \in {"add", "send", "erase"} => handler.msg \in Msg
  BY DEF HandlerType, Idle, Acts

\* An entry of m_retryStore has a message, a number of attempts and a flag.
LEMMA EntryFields ==
  ASSUME StoreType, NEW k \in Seqs, m_retryStore[k] # NoEntry
  PROVE  /\ m_retryStore[k] \in Entry
         /\ m_retryStore[k].msg \in Msg
         /\ m_retryStore[k].attempts \in 0 .. MaxRetries
         /\ m_retryStore[k].isSent \in BOOLEAN
  BY DEF StoreType, Entry

\* There are finitely many sequence numbers.
LEMMA SeqsFinite == IsFiniteSet(Seqs)
<1>1. SeqMod - 1 \in Int /\ 0 \in Int
  BY ReliableAssumption
<1> QED
  BY <1>1, FS_Interval DEF Seqs

\* The next sequence number, wrapped like a uint16_t, is one.
LEMMA NextNumber == ASSUME NEW n \in Seqs PROVE (n + 1) % SeqMod \in Seqs
  BY ReliableAssumption DEF Seqs

\* Entering a number that Refuses lets pass keeps m_pending within its limit.
LEMMA PendingAdd ==
  ASSUME PendingType, NEW k \in Seqs, ~Refuses(k)
  PROVE  /\ m_pending \cup {k} \in SUBSET Seqs
         /\ Cardinality(m_pending \cup {k}) <= MaxPending
<1>1. IsFiniteSet(m_pending)
  BY SeqsFinite, FS_Subset DEF PendingType
<1>2. Cardinality(m_pending) \in Nat /\ MaxPending \in Nat
  BY <1>1, FS_CardinalityType, ReliableAssumption
<1>3. Cardinality(m_pending \cup {k}) = Cardinality(m_pending) + 1
  BY <1>1, FS_AddElement DEF Refuses
<1> QED
  BY <1>2, <1>3 DEF PendingType, Refuses

\* Taking numbers out of m_pending does too.
LEMMA PendingLess ==
  ASSUME PendingType, NEW K
  PROVE  m_pending \ K \in SUBSET Seqs /\ Cardinality(m_pending \ K) <= MaxPending
<1>1. IsFiniteSet(m_pending)
  BY SeqsFinite, FS_Subset DEF PendingType
<1>2. /\ Cardinality(m_pending \ K) <= Cardinality(m_pending)
      /\ Cardinality(m_pending \ K) \in Nat /\ Cardinality(m_pending) \in Nat
  BY <1>1, FS_Subset, FS_CardinalityType
<1> QED
  BY <1>2, ReliableAssumption DEF PendingType

\* Only AddForRetry and what follows a timeout touch the handler.
LEMMA HandlerTypeNext == TypeOK /\ [Next]_vars => HandlerType'
<1> SUFFICES ASSUME TypeOK, [Next]_vars PROVE HandlerType'
  OBVIOUS
<1>0. HandlerType /\ StoreType
  BY TypeGroups
<1>1. ASSUME NEW m \in Msg, Dispatch(m) PROVE HandlerType'
  BY <1>0, <1>1
    DEF HandlerType, Dispatch, storeVars, linkVars
<1>2. ASSUME NEW m \in Msg, Store(m) PROVE HandlerType'
  BY <1>0, <1>2
    DEF HandlerType, Store, storeVars, linkVars
<1>3. ASSUME NEW m \in Msg, Register(m) PROVE HandlerType'
  BY <1>0, <1>3
    DEF HandlerType, Register, storeVars, linkVars
<1>4. ASSUME NEW m \in Msg, Unstore(m) PROVE HandlerType'
  BY <1>0, <1>4
    DEF HandlerType, Unstore, Erase, storeVars, linkVars
<1>5. ASSUME NEW m \in Msg, Send(m) PROVE HandlerType'
  BY <1>0, <1>5
    DEF HandlerType, Send, storeVars, linkVars
<1>6. ASSUME NEW m \in Msg, MarkSent(m) PROVE HandlerType'
  BY <1>0, <1>6
    DEF HandlerType, MarkSent, storeVars, linkVars
<1>7. ASSUME NEW m \in Msg, Deliver(m) PROVE HandlerType'
  BY <1>0, <1>7
    DEF HandlerType, Deliver, storeVars, linkVars
<1>8. ASSUME NEW K \in SUBSET Seqs, Expire(K) PROVE HandlerType'
  BY <1>0, <1>8
    DEF HandlerType, Expire, storeVars, linkVars
<1>9. ASSUME NEW k \in Seqs, Timeout(k), Settled(k) PROVE HandlerType'
  BY <1>0, <1>9
    DEF HandlerType, Settled, Timeout, storeVars, linkVars
<1>10. ASSUME NEW k \in Seqs, Timeout(k), Retry(k) PROVE HandlerType'
  BY <1>0, <1>10, EntryFields
    DEF HandlerType, Retry, Timeout, storeVars, linkVars
<1>11. ASSUME NEW k \in Seqs, Timeout(k), Reregister(k) PROVE HandlerType'
  BY <1>0, <1>11
    DEF HandlerType, Reregister, Timeout, storeVars, linkVars
<1>12. ASSUME NEW k \in Seqs, Timeout(k), GiveUp(k) PROVE HandlerType'
  BY <1>0, <1>12
    DEF HandlerType, GiveUp, Timeout, Erase, storeVars, linkVars
<1>13. ASSUME AddForRetry PROVE HandlerType'
  BY <1>0, <1>13
    DEF HandlerType, Idle, AddForRetry, storeVars, linkVars
<1>14. ASSUME SendAgain PROVE HandlerType'
  BY <1>0, <1>14
    DEF HandlerType, Idle, SendAgain, storeVars, linkVars
<1>15. ASSUME EraseUnwatched PROVE HandlerType'
  BY <1>0, <1>15
    DEF HandlerType, Idle, EraseUnwatched, Erase, storeVars, linkVars
<1>16. ASSUME AddAgain PROVE HandlerType'
  BY <1>0, <1>16
    DEF HandlerType, Idle, AddAgain, storeVars, linkVars
<1>17. ASSUME NEW k \in Seqs, Remove(k) PROVE HandlerType'
  BY <1>0, <1>17
    DEF HandlerType, Remove, storeVars, linkVars
<1>18. ASSUME Success PROVE HandlerType'
  BY <1>0, <1>18
    DEF HandlerType, Success, Erase, storeVars, linkVars
<1>19. CASE UNCHANGED vars
  BY <1>0, <1>19
    DEF HandlerType, vars, storeVars, linkVars
<1> QED
  BY <1>1, <1>2, <1>3, <1>4, <1>5, <1>6, <1>7, <1>8, <1>9, <1>10, <1>11, <1>12, <1>13, <1>14, <1>15, <1>16, <1>17, <1>18, <1>19
    DEF Next, Sender, Handler, Timeout

\* The attempts of an entry never fall below zero.
LEMMA StoreTypeNext == TypeOK /\ [Next]_vars => StoreType'
<1> SUFFICES ASSUME TypeOK, [Next]_vars PROVE StoreType'
  OBVIOUS
<1>0. StoreType /\ PlainTypes /\ MaxRetries \in Nat
  BY TypeGroups, ReliableAssumption
<1>1. ASSUME NEW m \in Msg, Dispatch(m) PROVE StoreType'
  BY <1>0, <1>1
    DEF StoreType, Dispatch, storeVars, linkVars
<1>2. ASSUME NEW m \in Msg, Store(m) PROVE StoreType'
  <2>1. [msg |-> m, attempts |-> MaxRetries, isSent |-> FALSE] \in Entry
    BY <1>0 DEF Entry
  <2> QED
    BY <1>0, <1>2, <2>1 DEF StoreType, Store
<1>3. ASSUME NEW m \in Msg, Register(m) PROVE StoreType'
  BY <1>0, <1>3
    DEF StoreType, Register, storeVars, linkVars
<1>4. ASSUME NEW m \in Msg, Unstore(m) PROVE StoreType'
  BY <1>0, <1>4
    DEF StoreType, Unstore, Erase, storeVars, linkVars
<1>5. ASSUME NEW m \in Msg, Send(m) PROVE StoreType'
  BY <1>0, <1>5
    DEF StoreType, Send, storeVars, linkVars
<1>6. ASSUME NEW m \in Msg, MarkSent(m) PROVE StoreType'
  <2>1. CASE m_retryStore[seq[m]] = NoEntry
    BY <1>0, <1>6, <2>1 DEF StoreType, MarkSent
  <2>2. CASE m_retryStore[seq[m]] # NoEntry /\ seq[m] \in Seqs
    <3>1. m_retryStore[seq[m]] \in Entry
      BY <1>0, <2>2, EntryFields
    <3>2. [m_retryStore[seq[m]] EXCEPT !.isSent = TRUE] \in Entry
      BY <3>1 DEF Entry
    <3> QED
      BY <1>0, <1>6, <2>2, <3>2 DEF StoreType, MarkSent
  <2>3. CASE seq[m] \notin Seqs
    BY <1>0, <1>6, <2>3 DEF StoreType, MarkSent
  <2> QED
    BY <2>1, <2>2, <2>3
<1>7. ASSUME NEW m \in Msg, Deliver(m) PROVE StoreType'
  BY <1>0, <1>7
    DEF StoreType, Deliver, storeVars, linkVars
<1>8. ASSUME NEW K \in SUBSET Seqs, Expire(K) PROVE StoreType'
  BY <1>0, <1>8
    DEF StoreType, Expire, storeVars, linkVars
<1>9. ASSUME NEW k \in Seqs, Timeout(k), Settled(k) PROVE StoreType'
  BY <1>0, <1>9
    DEF StoreType, Settled, Timeout, storeVars, linkVars
<1>10. ASSUME NEW k \in Seqs, Timeout(k), Retry(k) PROVE StoreType'
  <2>1. m_retryStore[k] \in Entry /\ m_retryStore[k].attempts > 0
    BY <1>0, <1>10, EntryFields DEF Retry
  <2>2. [m_retryStore[k] EXCEPT !.attempts = @ - 1] \in Entry
    BY <1>0, <2>1 DEF Entry
  <2> QED
    BY <1>0, <1>10, <2>2 DEF StoreType, Retry
<1>11. ASSUME NEW k \in Seqs, Timeout(k), Reregister(k) PROVE StoreType'
  BY <1>0, <1>11
    DEF StoreType, Reregister, Timeout, storeVars, linkVars
<1>12. ASSUME NEW k \in Seqs, Timeout(k), GiveUp(k) PROVE StoreType'
  BY <1>0, <1>12
    DEF StoreType, GiveUp, Timeout, Erase, storeVars, linkVars
<1>13. ASSUME AddForRetry PROVE StoreType'
  BY <1>0, <1>13
    DEF StoreType, AddForRetry, storeVars, linkVars
<1>14. ASSUME SendAgain PROVE StoreType'
  BY <1>0, <1>14
    DEF StoreType, SendAgain, storeVars, linkVars
<1>15. ASSUME EraseUnwatched PROVE StoreType'
  BY <1>0, <1>15
    DEF StoreType, EraseUnwatched, Erase, storeVars, linkVars
<1>16. ASSUME AddAgain PROVE StoreType'
  BY <1>0, <1>16
    DEF StoreType, AddAgain, storeVars, linkVars
<1>17. ASSUME NEW k \in Seqs, Remove(k) PROVE StoreType'
  BY <1>0, <1>17
    DEF StoreType, Remove, storeVars, linkVars
<1>18. ASSUME Success PROVE StoreType'
  BY <1>0, <1>18
    DEF StoreType, Success, Erase, storeVars, linkVars
<1>19. CASE UNCHANGED vars
  BY <1>0, <1>19
    DEF StoreType, vars, storeVars, linkVars
<1> QED
  BY <1>1, <1>2, <1>3, <1>4, <1>5, <1>6, <1>7, <1>8, <1>9, <1>10, <1>11, <1>12, <1>13, <1>14, <1>15, <1>16, <1>17, <1>18, <1>19
    DEF Next, Sender, Handler, Timeout

\* Only Add enters a number in the pending map.
LEMMA PendingTypeNext == TypeOK /\ Numbered /\ [Next]_vars => PendingType'
<1> SUFFICES ASSUME TypeOK, Numbered, [Next]_vars PROVE PendingType'
  OBVIOUS
<1>0. PendingType /\ PlainTypes /\ HandlerType
  BY TypeGroups
<1>n. Numbered
  OBVIOUS
<1>h. handler.act \in {"add", "reregister"} => handler.key \in Seqs
  BY <1>0, HandlerFields DEF Idle
<1>1. ASSUME NEW m \in Msg, Dispatch(m) PROVE PendingType'
  BY <1>0, <1>1
    DEF PendingType, Dispatch, storeVars, linkVars
<1>2. ASSUME NEW m \in Msg, Store(m) PROVE PendingType'
  BY <1>0, <1>2
    DEF PendingType, Store, storeVars, linkVars
<1>3. ASSUME NEW m \in Msg, Register(m) PROVE PendingType'
  <2>1. CASE Refuses(seq[m])
    BY <1>0, <1>3, <2>1 DEF PendingType, Register
  <2>2. CASE ~Refuses(seq[m])
    <3>1. seq[m] \in Seqs
      BY <1>n, <1>3 DEF Numbered, Register
    <3> QED
      BY <1>0, <1>3, <2>2, <3>1, PendingAdd DEF PendingType, Register
  <2> QED
    BY <2>1, <2>2
<1>4. ASSUME NEW m \in Msg, Unstore(m) PROVE PendingType'
  BY <1>0, <1>4
    DEF PendingType, Unstore, Erase, storeVars, linkVars
<1>5. ASSUME NEW m \in Msg, Send(m) PROVE PendingType'
  BY <1>0, <1>5
    DEF PendingType, Send, storeVars, linkVars
<1>6. ASSUME NEW m \in Msg, MarkSent(m) PROVE PendingType'
  BY <1>0, <1>6
    DEF PendingType, MarkSent, storeVars, linkVars
<1>7. ASSUME NEW m \in Msg, Deliver(m) PROVE PendingType'
  BY <1>0, <1>7
    DEF PendingType, Deliver, storeVars, linkVars
<1>8. ASSUME NEW K \in SUBSET Seqs, Expire(K) PROVE PendingType'
  BY <1>0, <1>8, PendingLess
    DEF PendingType, Expire, storeVars, linkVars
<1>9. ASSUME NEW k \in Seqs, Timeout(k), Settled(k) PROVE PendingType'
  BY <1>0, <1>9
    DEF PendingType, Settled, Timeout, storeVars, linkVars
<1>10. ASSUME NEW k \in Seqs, Timeout(k), Retry(k) PROVE PendingType'
  BY <1>0, <1>10
    DEF PendingType, Retry, Timeout, storeVars, linkVars
<1>11. ASSUME NEW k \in Seqs, Timeout(k), Reregister(k) PROVE PendingType'
  BY <1>0, <1>11
    DEF PendingType, Reregister, Timeout, storeVars, linkVars
<1>12. ASSUME NEW k \in Seqs, Timeout(k), GiveUp(k) PROVE PendingType'
  BY <1>0, <1>12
    DEF PendingType, GiveUp, Timeout, Erase, storeVars, linkVars
<1>13. ASSUME AddForRetry PROVE PendingType'
  <2>1. CASE Refuses(handler.key)
    BY <1>0, <1>13, <2>1 DEF PendingType, AddForRetry
  <2>2. CASE ~Refuses(handler.key)
    BY <1>0, <1>h, <1>13, <2>2, PendingAdd DEF PendingType, AddForRetry
  <2> QED
    BY <2>1, <2>2
<1>14. ASSUME SendAgain PROVE PendingType'
  BY <1>0, <1>14
    DEF PendingType, SendAgain, storeVars, linkVars
<1>15. ASSUME EraseUnwatched PROVE PendingType'
  BY <1>0, <1>15
    DEF PendingType, EraseUnwatched, Erase, storeVars, linkVars
<1>16. ASSUME AddAgain PROVE PendingType'
  <2>1. CASE Refuses(handler.key)
    BY <1>0, <1>16, <2>1 DEF PendingType, AddAgain
  <2>2. CASE ~Refuses(handler.key)
    BY <1>0, <1>h, <1>16, <2>2, PendingAdd DEF PendingType, AddAgain
  <2> QED
    BY <2>1, <2>2
<1>17. ASSUME NEW k \in Seqs, Remove(k) PROVE PendingType'
  BY <1>0, <1>17, PendingLess
    DEF PendingType, Remove, storeVars, linkVars
<1>18. ASSUME Success PROVE PendingType'
  BY <1>0, <1>18
    DEF PendingType, Success, Erase, storeVars, linkVars
<1>19. CASE UNCHANGED vars
  BY <1>0, <1>19
    DEF PendingType, vars, storeVars, linkVars
<1> QED
  BY <1>1, <1>2, <1>3, <1>4, <1>5, <1>6, <1>7, <1>8, <1>9, <1>10, <1>11, <1>12, <1>13, <1>14, <1>15, <1>16, <1>17, <1>18, <1>19
    DEF Next, Sender, Handler, Timeout

\* The other fields of the three classes.
LEMMA PlainTypesNext == TypeOK /\ Numbered /\ Sources /\ [Next]_vars => PlainTypes'
<1> SUFFICES ASSUME TypeOK, Numbered, Sources, [Next]_vars PROVE PlainTypes'
  OBVIOUS
<1>0. PlainTypes /\ Numbered /\ HandlerType /\ StoreType /\ PendingType
  BY TypeGroups
<1>d. \A n \in data : n \in Msg /\ seq[n] \in Seqs
  BY <1>0 DEF PlainTypes, Sources, Numbered
<1>h. handler.act \in {"add", "send", "erase"} => handler.msg \in Msg
  BY <1>0, HandlerFields
<1>k. handler.key \in Seqs \cup {NoKey}
  BY <1>0, HandlerFields
<1>e. \A k \in Seqs : m_retryStore[k] # NoEntry => m_retryStore[k].msg \in Msg
  BY <1>0, EntryFields
<1>1. ASSUME NEW m \in Msg, Dispatch(m) PROVE PlainTypes'
  BY <1>0, <1>1, NextNumber
    DEF PlainTypes, Dispatch, storeVars, linkVars
<1>2. ASSUME NEW m \in Msg, Store(m) PROVE PlainTypes'
  BY <1>0, <1>2, <1>e
    DEF PlainTypes, Numbered, Store, storeVars, linkVars
<1>3. ASSUME NEW m \in Msg, Register(m) PROVE PlainTypes'
  BY <1>0, <1>3
    DEF PlainTypes, Register, storeVars, linkVars
<1>4. ASSUME NEW m \in Msg, Unstore(m) PROVE PlainTypes'
  BY <1>0, <1>4, <1>e
    DEF PlainTypes, Numbered, Unstore, Erase, storeVars, linkVars
<1>5. ASSUME NEW m \in Msg, Send(m) PROVE PlainTypes'
  <2>1. sends' \in [Msg -> Nat]
    <3>1. sends \in [Msg -> Nat]
      BY <1>0 DEF PlainTypes
    <3>2. sends[m] + 1 \in Nat
      BY <3>1
    <3> QED
      BY <1>5, <3>1, <3>2 DEF Send
  <2>2. pc' \in [Msg -> {"idle", "numbered", "stored", "added", "sent", "refused", "failed",
                        "done", "error"}]
    BY <1>0, <1>5 DEF PlainTypes, Send
  <2>3. data' \in SUBSET Msg
    BY <1>0, <1>5 DEF PlainTypes, Send
  <2> QED
    BY <1>0, <1>5, <2>1, <2>2, <2>3 DEF PlainTypes, Send, storeVars
<1>6. ASSUME NEW m \in Msg, MarkSent(m) PROVE PlainTypes'
  BY <1>0, <1>6
    DEF PlainTypes, MarkSent, storeVars, linkVars
<1>7. ASSUME NEW m \in Msg, Deliver(m) PROVE PlainTypes'
  BY <1>0, <1>7, <1>d
    DEF PlainTypes, Deliver, storeVars, linkVars
<1>8. ASSUME NEW K \in SUBSET Seqs, Expire(K) PROVE PlainTypes'
  BY <1>0, <1>8
    DEF PlainTypes, PendingType, Expire, storeVars, linkVars
<1>9. ASSUME NEW k \in Seqs, Timeout(k), Settled(k) PROVE PlainTypes'
  BY <1>0, <1>9
    DEF PlainTypes, Settled, Timeout, storeVars, linkVars
<1>10. ASSUME NEW k \in Seqs, Timeout(k), Retry(k) PROVE PlainTypes'
  BY <1>0, <1>10
    DEF PlainTypes, Retry, Timeout, storeVars, linkVars
<1>11. ASSUME NEW k \in Seqs, Timeout(k), Reregister(k) PROVE PlainTypes'
  BY <1>0, <1>11
    DEF PlainTypes, Reregister, Timeout, storeVars, linkVars
<1>12. ASSUME NEW k \in Seqs, Timeout(k), GiveUp(k) PROVE PlainTypes'
  BY <1>0, <1>12, <1>e
    DEF PlainTypes, GiveUp, Timeout, Erase, storeVars, linkVars
<1>13. ASSUME AddForRetry PROVE PlainTypes'
  BY <1>0, <1>13
    DEF PlainTypes, AddForRetry, storeVars, linkVars
<1>14. ASSUME SendAgain PROVE PlainTypes'
  <2>1. handler.msg \in Msg
    BY <1>h, <1>14 DEF SendAgain
  <2>3. sends' = [sends EXCEPT ![handler.msg] = sends[handler.msg] + 1]
    BY <1>14 DEF SendAgain
  <2>4. sends' \in [Msg -> Nat]
    <3>1. sends \in [Msg -> Nat]
      BY <1>0 DEF PlainTypes
    <3>2. sends[handler.msg] + 1 \in Nat
      BY <2>1, <3>1
    <3> QED
      BY <2>1, <2>3, <3>1, <3>2
  <2>5. data' \in SUBSET Msg
    BY <1>0, <2>1, <1>14 DEF PlainTypes, SendAgain
  <2> QED
    BY <1>0, <1>14, <2>4, <2>5 DEF PlainTypes, SendAgain, storeVars
<1>15. ASSUME EraseUnwatched PROVE PlainTypes'
  BY <1>0, <1>15, <1>e, <1>k
    DEF PlainTypes, Idle, EraseUnwatched, Erase, storeVars, linkVars
<1>16. ASSUME AddAgain PROVE PlainTypes'
  <2>1. handler.key \in Seqs
    BY <1>0, <1>16, HandlerFields DEF AddAgain, Idle
  <2>2. lost' \in SUBSET Seqs
    BY <1>0, <2>1, <1>16 DEF PlainTypes, AddAgain
  <2> QED
    BY <1>0, <1>16, <2>2 DEF PlainTypes, AddAgain, storeVars, linkVars
<1>17. ASSUME NEW k \in Seqs, Remove(k) PROVE PlainTypes'
  BY <1>0, <1>17
    DEF PlainTypes, PendingType, Remove, storeVars, linkVars
<1>18. ASSUME Success PROVE PlainTypes'
  BY <1>0, <1>18, <1>e
    DEF PlainTypes, Success, Erase, storeVars, linkVars
<1>19. CASE UNCHANGED vars
  BY <1>0, <1>19
    DEF PlainTypes, vars, storeVars, linkVars
<1> QED
  BY <1>1, <1>2, <1>3, <1>4, <1>5, <1>6, <1>7, <1>8, <1>9, <1>10, <1>11, <1>12, <1>13, <1>14, <1>15, <1>16, <1>17, <1>18, <1>19
    DEF Next, Sender, Handler, Timeout

\* A message has a number once Dispatch has taken one for it.
LEMMA NumberedNext ==
  TypeOK /\ Numbered /\ [Next]_vars => Numbered'
<1> SUFFICES ASSUME TypeOK, Numbered, [Next]_vars
      PROVE  Numbered'
  OBVIOUS
<1>0. PlainTypes
  BY TypeGroups
<1>1. ASSUME NEW m \in Msg, Dispatch(m) PROVE Numbered'
  BY <1>0, <1>1
    DEF PlainTypes, Numbered, Dispatch, storeVars, linkVars
<1>2. ASSUME NEW m \in Msg, Store(m) PROVE Numbered'
  BY <1>0, <1>2
    DEF PlainTypes, Numbered, Store, storeVars, linkVars
<1>3. ASSUME NEW m \in Msg, Register(m) PROVE Numbered'
  BY <1>0, <1>3
    DEF PlainTypes, Numbered, Register, storeVars, linkVars
<1>4. ASSUME NEW m \in Msg, Unstore(m) PROVE Numbered'
  BY <1>0, <1>4
    DEF PlainTypes, Numbered, Unstore, Erase, storeVars, linkVars
<1>5. ASSUME NEW m \in Msg, Send(m) PROVE Numbered'
  BY <1>0, <1>5
    DEF PlainTypes, Numbered, Send, storeVars, linkVars
<1>6. ASSUME NEW m \in Msg, MarkSent(m) PROVE Numbered'
  BY <1>0, <1>6
    DEF PlainTypes, Numbered, MarkSent, storeVars, linkVars
<1>7. ASSUME NEW m \in Msg, Deliver(m) PROVE Numbered'
  BY <1>0, <1>7
    DEF PlainTypes, Numbered, Deliver, storeVars, linkVars
<1>8. ASSUME NEW K \in SUBSET Seqs, Expire(K) PROVE Numbered'
  BY <1>0, <1>8
    DEF PlainTypes, Numbered, Expire, storeVars, linkVars
<1>9. ASSUME NEW k \in Seqs, Timeout(k), Settled(k) PROVE Numbered'
  BY <1>0, <1>9
    DEF PlainTypes, Numbered, Settled, Timeout, storeVars, linkVars
<1>10. ASSUME NEW k \in Seqs, Timeout(k), Retry(k) PROVE Numbered'
  BY <1>0, <1>10
    DEF PlainTypes, Numbered, Retry, Timeout, storeVars, linkVars
<1>11. ASSUME NEW k \in Seqs, Timeout(k), Reregister(k) PROVE Numbered'
  BY <1>0, <1>11
    DEF PlainTypes, Numbered, Reregister, Timeout, storeVars, linkVars
<1>12. ASSUME NEW k \in Seqs, Timeout(k), GiveUp(k) PROVE Numbered'
  BY <1>0, <1>12
    DEF PlainTypes, Numbered, GiveUp, Timeout, Erase, storeVars, linkVars
<1>13. ASSUME AddForRetry PROVE Numbered'
  BY <1>0, <1>13
    DEF PlainTypes, Numbered, AddForRetry, storeVars, linkVars
<1>14. ASSUME SendAgain PROVE Numbered'
  BY <1>0, <1>14
    DEF PlainTypes, Numbered, SendAgain, storeVars, linkVars
<1>15. ASSUME EraseUnwatched PROVE Numbered'
  BY <1>0, <1>15
    DEF PlainTypes, Numbered, EraseUnwatched, Erase, storeVars, linkVars
<1>16. ASSUME AddAgain PROVE Numbered'
  BY <1>0, <1>16
    DEF PlainTypes, Numbered, AddAgain, storeVars, linkVars
<1>17. ASSUME NEW k \in Seqs, Remove(k) PROVE Numbered'
  BY <1>0, <1>17
    DEF PlainTypes, Numbered, Remove, storeVars, linkVars
<1>18. ASSUME Success PROVE Numbered'
  BY <1>0, <1>18
    DEF PlainTypes, Numbered, Success, Erase, storeVars, linkVars
<1>19. CASE UNCHANGED vars
  BY <1>0, <1>19
    DEF PlainTypes, Numbered, vars, storeVars, linkVars
<1> QED
  BY <1>1, <1>2, <1>3, <1>4, <1>5, <1>6, <1>7, <1>8, <1>9, <1>10, <1>11, <1>12, <1>13, <1>14, <1>15, <1>16, <1>17, <1>18, <1>19
    DEF Next, Sender, Handler, Timeout

-----------------------------------------------------------------------------
(***************************************************************************)
(* What one step may do to one message, one entry, and one fate.           *)
(***************************************************************************)
Forward(n) ==
  /\ pc[n] # "idle" => seq'[n] = seq[n] /\ pc'[n] # "idle"
  /\ Seen(n) => Seen(n)'
  /\ pc[n] \in Attempting => pc'[n] \in Attempting
  /\ pc[n] = "added" => pc'[n] = "added" \/ (sends'[n] = sends[n] + 1)
EntryFrom(k) ==
  \/ m_retryStore'[k] = NoEntry
  \/ /\ m_retryStore[k] # NoEntry
     /\ m_retryStore'[k].msg = m_retryStore[k].msg
     /\ m_retryStore'[k].attempts = m_retryStore[k].attempts
  \/ /\ m_retryStore[k] # NoEntry /\ Timeout(k) /\ Retry(k)
     /\ m_retryStore'[k].msg = m_retryStore[k].msg
     /\ m_retryStore'[k].attempts = m_retryStore[k].attempts - 1
  \/ \E m \in Msg : /\ Store(m) /\ seq[m] = k
                    /\ m_retryStore'[k].msg = m
                    /\ m_retryStore'[k].attempts = MaxRetries
FateFrom(m) ==
  \/ fate'[m] = fate[m]
  \/ \E k \in Seqs :
       /\ m_retryStore[k] # NoEntry /\ m_retryStore[k].msg = m
       /\ \/ fate'[m] \notin {"open", "exhausted", "acknowledged"}
          \/ (Timeout(k) /\ GiveUp(k))
          \/ (Success /\ k = arrived)

\* SendWithRetry only goes forward, and the number of a message never changes.
LEMMA ForwardStep ==
  ASSUME TypeOK, [Next]_vars, NEW n \in Msg
  PROVE  Forward(n)
<1>0. PlainTypes
  BY TypeGroups
<1>t. pc \in [Msg -> {"idle", "numbered", "stored", "added", "sent", "refused", "failed",
                   "done", "error"}] /\ seq \in [Msg -> Seqs \cup {NoKey}]
  BY <1>0 DEF PlainTypes
<1>s. sends \in [Msg -> Nat]
  BY <1>0 DEF PlainTypes
<1>1. ASSUME NEW m \in Msg, Dispatch(m) PROVE Forward(n)
  BY <1>t, <1>s, <1>1
    DEF Forward, Seen, Attempting, Dispatch, storeVars, linkVars
<1>2. ASSUME NEW m \in Msg, Store(m) PROVE Forward(n)
  BY <1>t, <1>s, <1>2
    DEF Forward, Seen, Attempting, Store, storeVars, linkVars
<1>3. ASSUME NEW m \in Msg, Register(m) PROVE Forward(n)
  BY <1>t, <1>s, <1>3
    DEF Forward, Seen, Attempting, Register, storeVars, linkVars
<1>4. ASSUME NEW m \in Msg, Unstore(m) PROVE Forward(n)
  BY <1>t, <1>s, <1>4
    DEF Forward, Seen, Attempting, Unstore, Erase, storeVars, linkVars
<1>5. ASSUME NEW m \in Msg, Send(m) PROVE Forward(n)
  BY <1>t, <1>s, <1>5
    DEF Forward, Seen, Attempting, Send, storeVars, linkVars
<1>6. ASSUME NEW m \in Msg, MarkSent(m) PROVE Forward(n)
  BY <1>t, <1>s, <1>6
    DEF Forward, Seen, Attempting, MarkSent, storeVars, linkVars
<1>7. ASSUME NEW m \in Msg, Deliver(m) PROVE Forward(n)
  BY <1>t, <1>s, <1>7
    DEF Forward, Seen, Attempting, Deliver, storeVars, linkVars
<1>8. ASSUME NEW K \in SUBSET Seqs, Expire(K) PROVE Forward(n)
  BY <1>t, <1>s, <1>8
    DEF Forward, Seen, Attempting, Expire, storeVars, linkVars
<1>9. ASSUME NEW k \in Seqs, Timeout(k), Settled(k) PROVE Forward(n)
  BY <1>t, <1>s, <1>9
    DEF Forward, Seen, Attempting, Settled, Timeout, storeVars, linkVars
<1>10. ASSUME NEW k \in Seqs, Timeout(k), Retry(k) PROVE Forward(n)
  BY <1>t, <1>s, <1>10
    DEF Forward, Seen, Attempting, Retry, Timeout, storeVars, linkVars
<1>11. ASSUME NEW k \in Seqs, Timeout(k), Reregister(k) PROVE Forward(n)
  BY <1>t, <1>s, <1>11
    DEF Forward, Seen, Attempting, Reregister, Timeout, storeVars, linkVars
<1>12. ASSUME NEW k \in Seqs, Timeout(k), GiveUp(k) PROVE Forward(n)
  BY <1>t, <1>s, <1>12
    DEF Forward, Seen, Attempting, GiveUp, Timeout, Erase, storeVars, linkVars
<1>13. ASSUME AddForRetry PROVE Forward(n)
  BY <1>t, <1>s, <1>13
    DEF Forward, Seen, Attempting, AddForRetry, storeVars, linkVars
<1>14. ASSUME SendAgain PROVE Forward(n)
  BY <1>t, <1>s, <1>14
    DEF Forward, Seen, Attempting, SendAgain, storeVars, linkVars
<1>15. ASSUME EraseUnwatched PROVE Forward(n)
  BY <1>t, <1>s, <1>15
    DEF Forward, Seen, Attempting, EraseUnwatched, Erase, storeVars, linkVars
<1>16. ASSUME AddAgain PROVE Forward(n)
  BY <1>t, <1>s, <1>16
    DEF Forward, Seen, Attempting, AddAgain, storeVars, linkVars
<1>17. ASSUME NEW k \in Seqs, Remove(k) PROVE Forward(n)
  BY <1>t, <1>s, <1>17
    DEF Forward, Seen, Attempting, Remove, storeVars, linkVars
<1>18. ASSUME Success PROVE Forward(n)
  BY <1>t, <1>s, <1>18
    DEF Forward, Seen, Attempting, Success, Erase, storeVars, linkVars
<1>19. CASE UNCHANGED vars
  BY <1>t, <1>s, <1>19
    DEF Forward, Seen, Attempting, vars, storeVars, linkVars
<1> QED
  BY <1>1, <1>2, <1>3, <1>4, <1>5, <1>6, <1>7, <1>8, <1>9, <1>10, <1>11, <1>12, <1>13, <1>14, <1>15, <1>16, <1>17, <1>18, <1>19
    DEF Next, Sender, Handler, Timeout

\* An entry is new, or was there before with the same message and no fewer attempts, but
\* for a retry, which takes one.
LEMMA EntryStep ==
  ASSUME TypeOK, Numbered, [Next]_vars, NEW j \in Seqs
  PROVE  EntryFrom(j)
<1>0. StoreType /\ m_retryStore \in [Seqs -> Entry \cup {NoEntry}]
  BY TypeGroups DEF StoreType
<1>n. \A m \in Msg : pc[m] # "idle" => seq[m] \in Seqs
  BY DEF Numbered
<1>1. ASSUME NEW m \in Msg, Dispatch(m) PROVE EntryFrom(j)
  BY <1>0, <1>1
    DEF EntryFrom, Dispatch, storeVars, linkVars
<1>2. ASSUME NEW m \in Msg, Store(m) PROVE EntryFrom(j)
  <2>1. CASE j # seq[m]
    BY <1>0, <1>2, <2>1 DEF EntryFrom, Store
  <2>2. CASE j = seq[m]
    <3>1. m_retryStore'[j] = [msg |-> m, attempts |-> MaxRetries, isSent |-> FALSE]
      BY <1>0, <1>2, <2>2 DEF Store
    <3> QED
      BY <1>2, <2>2, <3>1 DEF EntryFrom
  <2> QED
    BY <2>1, <2>2
<1>3. ASSUME NEW m \in Msg, Register(m) PROVE EntryFrom(j)
  BY <1>0, <1>3
    DEF EntryFrom, Register, storeVars, linkVars
<1>4. ASSUME NEW m \in Msg, Unstore(m) PROVE EntryFrom(j)
  BY <1>0, <1>4
    DEF EntryFrom, Unstore, Erase, storeVars, linkVars
<1>5. ASSUME NEW m \in Msg, Send(m) PROVE EntryFrom(j)
  BY <1>0, <1>5
    DEF EntryFrom, Send, storeVars, linkVars
<1>6. ASSUME NEW m \in Msg, MarkSent(m) PROVE EntryFrom(j)
  <2>1. CASE m_retryStore[seq[m]] = NoEntry \/ j # seq[m]
    <3>1. m_retryStore'[j] = m_retryStore[j]
      BY <1>0, <1>6, <2>1 DEF MarkSent
    <3> QED
      BY <3>1 DEF EntryFrom
  <2>2. CASE m_retryStore[seq[m]] # NoEntry /\ j = seq[m]
    <3>1. m_retryStore'[j] = [m_retryStore[j] EXCEPT !.isSent = TRUE] /\ m_retryStore[j] \in Entry
      BY <1>0, <1>6, <2>2, EntryFields DEF MarkSent
    <3>2. m_retryStore'[j].msg = m_retryStore[j].msg /\ m_retryStore'[j].attempts = m_retryStore[j].attempts
      BY <3>1 DEF Entry
    <3> QED
      BY <2>2, <3>2 DEF EntryFrom
  <2> QED
    BY <2>1, <2>2
<1>7. ASSUME NEW m \in Msg, Deliver(m) PROVE EntryFrom(j)
  BY <1>0, <1>7
    DEF EntryFrom, Deliver, storeVars, linkVars
<1>8. ASSUME NEW K \in SUBSET Seqs, Expire(K) PROVE EntryFrom(j)
  BY <1>0, <1>8
    DEF EntryFrom, Expire, storeVars, linkVars
<1>9. ASSUME NEW k \in Seqs, Timeout(k), Settled(k) PROVE EntryFrom(j)
  BY <1>0, <1>9
    DEF EntryFrom, Settled, Timeout, storeVars, linkVars
<1>10. ASSUME NEW k \in Seqs, Timeout(k), Retry(k) PROVE EntryFrom(j)
  <2>1. CASE j # k
    <3>1. m_retryStore'[j] = m_retryStore[j]
      BY <1>0, <1>10, <2>1 DEF Retry
    <3> QED
      BY <3>1 DEF EntryFrom
  <2>2. CASE j = k
    <3>1. m_retryStore[j] # NoEntry /\ m_retryStore[j] \in Entry
      BY <1>0, <1>10, <2>2, EntryFields DEF Retry
    <3>2. m_retryStore'[j] = [m_retryStore[j] EXCEPT !.attempts = @ - 1]
      BY <1>0, <1>10, <2>2 DEF Retry
    <3>3. /\ m_retryStore'[j].msg = m_retryStore[j].msg
          /\ m_retryStore'[j].attempts = m_retryStore[j].attempts - 1
      BY <3>1, <3>2 DEF Entry
    <3> QED
      BY <1>10, <2>2, <3>1, <3>3 DEF EntryFrom
  <2> QED
    BY <2>1, <2>2
<1>11. ASSUME NEW k \in Seqs, Timeout(k), Reregister(k) PROVE EntryFrom(j)
  BY <1>0, <1>11
    DEF EntryFrom, Reregister, Timeout, storeVars, linkVars
<1>12. ASSUME NEW k \in Seqs, Timeout(k), GiveUp(k) PROVE EntryFrom(j)
  BY <1>0, <1>12
    DEF EntryFrom, GiveUp, Timeout, Erase, storeVars, linkVars
<1>13. ASSUME AddForRetry PROVE EntryFrom(j)
  BY <1>0, <1>13
    DEF EntryFrom, AddForRetry, storeVars, linkVars
<1>14. ASSUME SendAgain PROVE EntryFrom(j)
  BY <1>0, <1>14
    DEF EntryFrom, SendAgain, storeVars, linkVars
<1>15. ASSUME EraseUnwatched PROVE EntryFrom(j)
  BY <1>0, <1>15
    DEF EntryFrom, EraseUnwatched, Erase, storeVars, linkVars
<1>16. ASSUME AddAgain PROVE EntryFrom(j)
  BY <1>0, <1>16
    DEF EntryFrom, AddAgain, storeVars, linkVars
<1>17. ASSUME NEW k \in Seqs, Remove(k) PROVE EntryFrom(j)
  BY <1>0, <1>17
    DEF EntryFrom, Remove, storeVars, linkVars
<1>18. ASSUME Success PROVE EntryFrom(j)
  BY <1>0, <1>18
    DEF EntryFrom, Success, Erase, storeVars, linkVars
<1>19. CASE UNCHANGED vars
  BY <1>0, <1>19
    DEF EntryFrom, vars, storeVars, linkVars
<1> QED
  BY <1>1, <1>2, <1>3, <1>4, <1>5, <1>6, <1>7, <1>8, <1>9, <1>10, <1>11, <1>12, <1>13, <1>14, <1>15, <1>16, <1>17, <1>18, <1>19
    DEF Next, Sender, Handler, Timeout

\* A message has met its fate when its entry left the store, given up in GiveUp and
\* acknowledged in Success only.
LEMMA FateStep ==
  ASSUME TypeOK, Numbered, [Next]_vars, NEW v \in Msg
  PROVE  FateFrom(v)
<1>0. fate \in [Msg -> {"open", "overwritten", "rejected", "exhausted", "dropped",
                     "acknowledged"}]
  BY TypeGroups DEF PlainTypes
<1>n. (\A m \in Msg : pc[m] # "idle" => seq[m] \in Seqs) /\ arrived \in Seqs \cup {NoKey}
  BY TypeGroups DEF Numbered, PlainTypes
<1>h. handler # Idle => handler.key \in Seqs
  BY TypeGroups, HandlerFields
<1>1. ASSUME NEW m \in Msg, Dispatch(m) PROVE FateFrom(v)
  BY <1>0, <1>1
    DEF FateFrom, Dispatch, storeVars, linkVars
<1>2. ASSUME NEW m \in Msg, Store(m) PROVE FateFrom(v)
  BY <1>0, <1>2, <1>n
    DEF FateFrom, Store, storeVars, linkVars
<1>3. ASSUME NEW m \in Msg, Register(m) PROVE FateFrom(v)
  BY <1>0, <1>3
    DEF FateFrom, Register, storeVars, linkVars
<1>4. ASSUME NEW m \in Msg, Unstore(m) PROVE FateFrom(v)
  BY <1>0, <1>4, <1>n
    DEF FateFrom, Unstore, Erase, storeVars, linkVars
<1>5. ASSUME NEW m \in Msg, Send(m) PROVE FateFrom(v)
  BY <1>0, <1>5
    DEF FateFrom, Send, storeVars, linkVars
<1>6. ASSUME NEW m \in Msg, MarkSent(m) PROVE FateFrom(v)
  BY <1>0, <1>6
    DEF FateFrom, MarkSent, storeVars, linkVars
<1>7. ASSUME NEW m \in Msg, Deliver(m) PROVE FateFrom(v)
  BY <1>0, <1>7
    DEF FateFrom, Deliver, storeVars, linkVars
<1>8. ASSUME NEW K \in SUBSET Seqs, Expire(K) PROVE FateFrom(v)
  BY <1>0, <1>8
    DEF FateFrom, Expire, storeVars, linkVars
<1>9. ASSUME NEW k \in Seqs, Timeout(k), Settled(k) PROVE FateFrom(v)
  BY <1>0, <1>9
    DEF FateFrom, Settled, Timeout, storeVars, linkVars
<1>10. ASSUME NEW k \in Seqs, Timeout(k), Retry(k) PROVE FateFrom(v)
  BY <1>0, <1>10
    DEF FateFrom, Retry, Timeout, storeVars, linkVars
<1>11. ASSUME NEW k \in Seqs, Timeout(k), Reregister(k) PROVE FateFrom(v)
  BY <1>0, <1>11
    DEF FateFrom, Reregister, Timeout, storeVars, linkVars
<1>12. ASSUME NEW k \in Seqs, Timeout(k), GiveUp(k) PROVE FateFrom(v)
  BY <1>0, <1>12
    DEF FateFrom, GiveUp, Timeout, Erase, storeVars, linkVars
<1>13. ASSUME AddForRetry PROVE FateFrom(v)
  BY <1>0, <1>13
    DEF FateFrom, AddForRetry, storeVars, linkVars
<1>14. ASSUME SendAgain PROVE FateFrom(v)
  BY <1>0, <1>14
    DEF FateFrom, SendAgain, storeVars, linkVars
<1>15. ASSUME EraseUnwatched PROVE FateFrom(v)
  <2>1. handler.key \in Seqs
    BY <1>h, <1>15 DEF EraseUnwatched, Idle
  <2>2. CASE m_retryStore[handler.key] = NoEntry
    BY <1>15, <2>2 DEF FateFrom, EraseUnwatched, Erase
  <2>3. CASE m_retryStore[handler.key] # NoEntry
    <3>1. fate' = [fate EXCEPT ![m_retryStore[handler.key].msg] = "dropped"]
      BY <1>15, <2>3 DEF EraseUnwatched, Erase
    <3> QED
      BY <1>0, <2>1, <2>3, <3>1 DEF FateFrom
  <2> QED
    BY <2>2, <2>3
<1>16. ASSUME AddAgain PROVE FateFrom(v)
  BY <1>0, <1>16
    DEF FateFrom, AddAgain, storeVars, linkVars
<1>17. ASSUME NEW k \in Seqs, Remove(k) PROVE FateFrom(v)
  BY <1>0, <1>17
    DEF FateFrom, Remove, storeVars, linkVars
<1>18. ASSUME Success PROVE FateFrom(v)
  BY <1>0, <1>18, <1>n
    DEF FateFrom, Success, Erase, storeVars, linkVars
<1>19. CASE UNCHANGED vars
  BY <1>0, <1>19
    DEF FateFrom, vars, storeVars, linkVars
<1> QED
  BY <1>1, <1>2, <1>3, <1>4, <1>5, <1>6, <1>7, <1>8, <1>9, <1>10, <1>11, <1>12, <1>13, <1>14, <1>15, <1>16, <1>17, <1>18, <1>19
    DEF Next, Sender, Handler, Timeout

-----------------------------------------------------------------------------
(***************************************************************************)
(* What one step may do to the count of one message's sends.               *)
(***************************************************************************)
NoSend(m) ==
  /\ sends'[m] = sends[m] /\ Started(m)' = Started(m)
  /\ FirstDue(m)' <= FirstDue(m) /\ FirstMade(m)' = FirstMade(m)
FirstSend(m) ==
  /\ sends'[m] = sends[m] + 1 /\ Started(m)' = Started(m)
  /\ FirstDue(m) = 1 /\ FirstDue(m)' = 0 /\ FirstMade(m)' = 1 /\ FirstMade(m) = 0
Again(m) ==
  /\ sends'[m] = sends[m] + 1 /\ Started(m) = 1 /\ Started(m)' = 0
  /\ FirstDue(m)' = FirstDue(m) /\ FirstMade(m)' = FirstMade(m)
StartRetry(m) ==
  /\ sends'[m] = sends[m] /\ Started(m) = 0 /\ Started(m)' = 1
  /\ FirstDue(m)' = FirstDue(m) /\ FirstMade(m)' = FirstMade(m)
  /\ \E k \in Seqs : /\ Timeout(k) /\ Retry(k)
                     /\ m_retryStore[k] # NoEntry /\ m_retryStore[k].msg = m
Leave(m) ==
  /\ sends'[m] = sends[m] /\ Started(m)' <= Started(m)
  /\ FirstDue(m)' <= FirstDue(m)
  /\ seq[m] \in Seqs /\ seq'[m] = seq[m] /\ m_retryStore'[seq[m]] = NoEntry
Count(m) == NoSend(m) \/ FirstSend(m) \/ Again(m) \/ StartRetry(m) \/ Leave(m)

\* Each step counts for a message in one of five ways.
LEMMA CountStep ==
  ASSUME TypeOK, Numbered, HandlerOwned, [Next]_vars, NEW v \in Msg
  PROVE  Count(v)
<1>t. /\ pc \in [Msg -> {"idle", "numbered", "stored", "added", "sent", "refused", "failed",
                      "done", "error"}]
      /\ sends \in [Msg -> Nat]
  BY TypeGroups DEF PlainTypes
<1>h. /\ handler.act \in {"add", "send", "erase"} => handler.msg \in Msg
      /\ handler # Idle => handler.key \in Seqs
      /\ handler.act = "idle" <=> handler = Idle
      /\ handler \in {Idle} \cup [act : {"reregister"}, key : Seqs]
                     \cup [act : {"add", "send", "erase"}, key : Seqs, msg : Msg]
  BY TypeGroups, HandlerFields DEF HandlerType
<1>b. FirstDue(v) \in {0, 1} /\ FirstMade(v) \in {0, 1} /\ Started(v) \in {0, 1}
  BY DEF FirstDue, FirstMade, Started
<1>r. m_retryStore \in [Seqs -> Entry \cup {NoEntry}]
  BY TypeGroups DEF StoreType
<1>1. ASSUME NEW m \in Msg, Dispatch(m) PROVE Count(v)
  <2>1. sends'[v] = sends[v] /\ Started(v)' = Started(v)
    BY <1>1 DEF Dispatch, Started, Retrying, storeVars, linkVars
  <2>2. FirstDue(v)' <= FirstDue(v) /\ FirstMade(v)' = FirstMade(v)
    BY <1>t, <1>1 DEF Dispatch, FirstDue, FirstMade
  <2> QED
    BY <2>1, <2>2 DEF Count, NoSend
<1>2. ASSUME NEW m \in Msg, Store(m) PROVE Count(v)
  <2>1. sends'[v] = sends[v] /\ Started(v)' = Started(v)
    BY <1>2 DEF Store, Started, Retrying, storeVars, linkVars
  <2>2. FirstDue(v)' <= FirstDue(v) /\ FirstMade(v)' = FirstMade(v)
    BY <1>t, <1>2 DEF Store, FirstDue, FirstMade
  <2> QED
    BY <2>1, <2>2 DEF Count, NoSend
<1>3. ASSUME NEW m \in Msg, Register(m) PROVE Count(v)
  <2>1. sends'[v] = sends[v] /\ Started(v)' = Started(v)
    BY <1>3 DEF Register, Started, Retrying, storeVars, linkVars
  <2>2. FirstDue(v)' <= FirstDue(v) /\ FirstMade(v)' = FirstMade(v)
    BY <1>t, <1>3 DEF Register, FirstDue, FirstMade
  <2> QED
    BY <2>1, <2>2 DEF Count, NoSend
<1>4. ASSUME NEW m \in Msg, Unstore(m) PROVE Count(v)
  <2>1. sends'[v] = sends[v] /\ Started(v)' = Started(v)
    BY <1>4 DEF Unstore, Started, Retrying, linkVars
  <2>2. CASE v # m
    <3>1. FirstDue(v)' = FirstDue(v) /\ FirstMade(v)' = FirstMade(v)
      BY <1>t, <1>4, <2>2 DEF Unstore, FirstDue, FirstMade
    <3> QED
      BY <1>b, <2>1, <3>1 DEF Count, NoSend
  <2>3. CASE v = m
    <3>1. FirstDue(v)' <= FirstDue(v)
      BY <1>t, <1>4, <2>3 DEF Unstore, FirstDue
    <3>2. seq[v] \in Seqs /\ seq'[v] = seq[v]
      BY <1>4, <2>3 DEF Unstore, Numbered
    <3>3. m_retryStore'[seq[v]] = NoEntry
      BY <1>r, <1>4, <2>3, <3>2 DEF Unstore, Erase
    <3> QED
      BY <1>b, <2>1, <3>1, <3>2, <3>3 DEF Count, Leave
  <2> QED
    BY <2>2, <2>3
<1>5. ASSUME NEW m \in Msg, Send(m) PROVE Count(v)
  <2>1. Started(v)' = Started(v)
    BY <1>5 DEF Send, Started, Retrying
  <2>2. CASE v # m
    <3>1. sends'[v] = sends[v] /\ FirstDue(v)' = FirstDue(v) /\ FirstMade(v)' = FirstMade(v)
      BY <1>t, <1>5, <2>2 DEF Send, FirstDue, FirstMade
    <3> QED
      BY <1>b, <2>1, <3>1 DEF Count, NoSend
  <2>3. CASE v = m
    <3>1. sends'[v] = sends[v] + 1
      BY <1>t, <1>5, <2>3 DEF Send
    <3>2. pc[v] = "added" /\ pc'[v] \in {"sent", "failed"}
      BY <1>t, <1>5, <2>3 DEF Send
    <3> QED
      BY <2>1, <3>1, <3>2 DEF Count, FirstSend, FirstDue, FirstMade
  <2> QED
    BY <2>2, <2>3
<1>6. ASSUME NEW m \in Msg, MarkSent(m) PROVE Count(v)
  <2>1. sends'[v] = sends[v] /\ Started(v)' = Started(v)
    BY <1>6 DEF MarkSent, Started, Retrying, storeVars, linkVars
  <2>2. FirstDue(v)' <= FirstDue(v) /\ FirstMade(v)' = FirstMade(v)
    BY <1>t, <1>6 DEF MarkSent, FirstDue, FirstMade
  <2> QED
    BY <2>1, <2>2 DEF Count, NoSend
<1>7. ASSUME NEW m \in Msg, Deliver(m) PROVE Count(v)
  <2>1. sends'[v] = sends[v] /\ Started(v)' = Started(v)
    BY <1>7 DEF Deliver, Started, Retrying, storeVars, linkVars
  <2>2. FirstDue(v)' <= FirstDue(v) /\ FirstMade(v)' = FirstMade(v)
    BY <1>t, <1>7 DEF Deliver, FirstDue, FirstMade
  <2> QED
    BY <2>1, <2>2 DEF Count, NoSend
<1>8. ASSUME NEW K \in SUBSET Seqs, Expire(K) PROVE Count(v)
  <2>1. Started(v)' = Started(v)
    BY <1>h, <1>8 DEF Expire, Started, Retrying, Idle
  <2>2. sends'[v] = sends[v] /\ FirstDue(v)' = FirstDue(v) /\ FirstMade(v)' = FirstMade(v)
    BY <1>8 DEF Expire, FirstDue, FirstMade, linkVars
  <2> QED
    BY <1>b, <2>1, <2>2 DEF Count, NoSend
<1>9. ASSUME NEW k \in Seqs, Timeout(k), Settled(k) PROVE Count(v)
  <2>1. Started(v)' = Started(v)
    BY <1>h, <1>9 DEF Timeout, Settled, Started, Retrying, Idle
  <2>2. sends'[v] = sends[v] /\ FirstDue(v)' = FirstDue(v) /\ FirstMade(v)' = FirstMade(v)
    BY <1>9 DEF Timeout, Settled, FirstDue, FirstMade, linkVars
  <2> QED
    BY <1>b, <2>1, <2>2 DEF Count, NoSend
<1>10. ASSUME NEW k \in Seqs, Timeout(k), Retry(k) PROVE Count(v)
  <2>1. /\ sends'[v] = sends[v] /\ FirstDue(v)' = FirstDue(v)
        /\ FirstMade(v)' = FirstMade(v)
    BY <1>10 DEF Timeout, Retry, FirstDue, FirstMade
  <2>2. Started(v) = 0 /\ m_retryStore[k] # NoEntry
    BY <1>10 DEF Timeout, Retry, Started, Retrying, Idle
  <2>3. handler' = [act |-> "add", key |-> k, msg |-> m_retryStore[k].msg]
    BY <1>10 DEF Retry
  <2>4. CASE m_retryStore[k].msg = v
    <3>1. Started(v)' = 1
      BY <2>3, <2>4 DEF Started, Retrying
    <3> QED
      BY <1>10, <2>1, <2>2, <2>4, <3>1 DEF Count, StartRetry
  <2>5. CASE m_retryStore[k].msg # v
    <3>1. Started(v)' = 0
      BY <2>3, <2>5 DEF Started, Retrying
    <3> QED
      BY <1>b, <2>1, <2>2, <3>1 DEF Count, NoSend
  <2> QED
    BY <2>4, <2>5
<1>11. ASSUME NEW k \in Seqs, Timeout(k), Reregister(k) PROVE Count(v)
  <2>1. Started(v)' = Started(v)
    BY <1>h, <1>11 DEF Timeout, Reregister, Started, Retrying, Idle
  <2>2. sends'[v] = sends[v] /\ FirstDue(v)' = FirstDue(v) /\ FirstMade(v)' = FirstMade(v)
    BY <1>11 DEF Timeout, Reregister, FirstDue, FirstMade, linkVars
  <2> QED
    BY <1>b, <2>1, <2>2 DEF Count, NoSend
<1>12. ASSUME NEW k \in Seqs, Timeout(k), GiveUp(k) PROVE Count(v)
  <2>1. Started(v)' = Started(v)
    BY <1>h, <1>12 DEF Timeout, GiveUp, Started, Retrying, Idle
  <2>2. sends'[v] = sends[v] /\ FirstDue(v)' = FirstDue(v) /\ FirstMade(v)' = FirstMade(v)
    BY <1>12 DEF Timeout, GiveUp, FirstDue, FirstMade, linkVars
  <2> QED
    BY <1>b, <2>1, <2>2 DEF Count, NoSend
<1>13. ASSUME AddForRetry PROVE Count(v)
  <2>1. Started(v)' = Started(v)
    BY <1>h, <1>13 DEF AddForRetry, Started, Retrying, Idle
  <2>2. sends'[v] = sends[v] /\ FirstDue(v)' = FirstDue(v) /\ FirstMade(v)' = FirstMade(v)
    BY <1>13 DEF AddForRetry, FirstDue, FirstMade, linkVars
  <2> QED
    BY <1>b, <2>1, <2>2 DEF Count, NoSend
<1>14. ASSUME SendAgain PROVE Count(v)
  <2>1. FirstDue(v)' = FirstDue(v) /\ FirstMade(v)' = FirstMade(v)
    BY <1>14 DEF SendAgain, FirstDue, FirstMade
  <2>2. Started(v)' = 0
    BY <1>14 DEF SendAgain, Started, Retrying, Idle
  <2>3. CASE handler.msg = v
    <3>1. Started(v) = 1 /\ sends'[v] = sends[v] + 1
      BY <1>t, <1>14, <2>3 DEF SendAgain, Started, Retrying
    <3> QED
      BY <2>1, <2>2, <3>1 DEF Count, Again
  <2>4. CASE handler.msg # v
    <3>1. Started(v) = 0 /\ sends'[v] = sends[v]
      BY <1>t, <1>14, <2>4 DEF SendAgain, Started, Retrying
    <3> QED
      BY <1>b, <2>1, <2>2, <3>1 DEF Count, NoSend
  <2> QED
    BY <2>3, <2>4
<1>15. ASSUME EraseUnwatched PROVE Count(v)
  <2>1. /\ FirstDue(v)' = FirstDue(v) /\ FirstMade(v)' = FirstMade(v)
        /\ sends'[v] = sends[v]
    BY <1>15 DEF EraseUnwatched, FirstDue, FirstMade, linkVars
  <2>2. Started(v)' = 0
    BY <1>15 DEF EraseUnwatched, Started, Retrying, Idle
  <2>3. CASE handler.msg = v
    <3>1. seq[v] = handler.key /\ seq[v] \in Seqs /\ seq'[v] = seq[v]
      BY <1>h, <1>15, <2>3 DEF EraseUnwatched, HandlerOwned, Idle
    <3>2. m_retryStore'[seq[v]] = NoEntry
      BY <1>r, <1>15, <3>1 DEF EraseUnwatched, Erase
    <3> QED
      BY <1>b, <2>1, <2>2, <3>1, <3>2 DEF Count, Leave
  <2>4. CASE handler.msg # v
    <3>1. Started(v) = 0
      BY <1>15, <2>4 DEF EraseUnwatched, Started, Retrying
    <3> QED
      BY <1>b, <2>1, <2>2, <3>1 DEF Count, NoSend
  <2> QED
    BY <2>3, <2>4
<1>16. ASSUME AddAgain PROVE Count(v)
  <2>1. Started(v)' = Started(v)
    BY <1>h, <1>16 DEF AddAgain, Started, Retrying, Idle
  <2>2. sends'[v] = sends[v] /\ FirstDue(v)' = FirstDue(v) /\ FirstMade(v)' = FirstMade(v)
    BY <1>16 DEF AddAgain, FirstDue, FirstMade, linkVars
  <2> QED
    BY <1>b, <2>1, <2>2 DEF Count, NoSend
<1>17. ASSUME NEW k \in Seqs, Remove(k) PROVE Count(v)
  <2>1. Started(v)' = Started(v)
    BY <1>h, <1>17 DEF Remove, Started, Retrying, Idle
  <2>2. sends'[v] = sends[v] /\ FirstDue(v)' = FirstDue(v) /\ FirstMade(v)' = FirstMade(v)
    BY <1>17 DEF Remove, FirstDue, FirstMade, linkVars
  <2> QED
    BY <1>b, <2>1, <2>2 DEF Count, NoSend
<1>18. ASSUME Success PROVE Count(v)
  <2>1. Started(v)' = Started(v)
    BY <1>h, <1>18 DEF Success, Started, Retrying, Idle
  <2>2. sends'[v] = sends[v] /\ FirstDue(v)' = FirstDue(v) /\ FirstMade(v)' = FirstMade(v)
    BY <1>18 DEF Success, FirstDue, FirstMade, linkVars
  <2> QED
    BY <1>b, <2>1, <2>2 DEF Count, NoSend
<1>19. CASE UNCHANGED vars
  <2>1. Started(v)' = Started(v)
    BY <1>h, <1>19 DEF vars, Started, Retrying, Idle
  <2>2. sends'[v] = sends[v] /\ FirstDue(v)' = FirstDue(v) /\ FirstMade(v)' = FirstMade(v)
    BY <1>19 DEF vars, FirstDue, FirstMade, linkVars
  <2> QED
    BY <1>b, <2>1, <2>2 DEF Count, NoSend
<1> QED
  BY <1>1, <1>2, <1>3, <1>4, <1>5, <1>6, <1>7, <1>8, <1>9, <1>10, <1>11, <1>12, <1>13, <1>14, <1>15, <1>16, <1>17, <1>18, <1>19
    DEF Next, Sender, Handler, Timeout

-----------------------------------------------------------------------------
\* An entry carries the number of its message.
LEMMA StoreOwnedNext ==
  TypeOK /\ Numbered /\ StoreOwned /\ [Next]_vars => StoreOwned'
<1> SUFFICES ASSUME TypeOK, Numbered, StoreOwned, [Next]_vars, NEW k \in Seqs,
                    m_retryStore'[k] # NoEntry
             PROVE  seq'[m_retryStore'[k].msg] = k /\ pc'[m_retryStore'[k].msg] \notin {"idle", "numbered"}
  BY DEF StoreOwned, Seen
<1>1. CASE m_retryStore[k] # NoEntry /\ m_retryStore'[k].msg = m_retryStore[k].msg
  <2> DEFINE n == m_retryStore[k].msg
  <2>1. n \in Msg
    BY <1>1, TypeGroups, EntryFields
  <2>2. seq[n] = k /\ Seen(n)
    BY <1>1 DEF StoreOwned
  <2>3. Forward(n)
    BY <2>1, ForwardStep
  <2>4. pc[n] # "idle"
    BY <2>2 DEF Seen
  <2> QED
    BY <1>1, <2>2, <2>3, <2>4 DEF Forward, Seen
<1>2. ASSUME NEW m \in Msg, Store(m), seq[m] = k, m_retryStore'[k].msg = m
      PROVE  seq'[m_retryStore'[k].msg] = k /\ pc'[m_retryStore'[k].msg] \notin {"idle", "numbered"}
  <2>1. seq' = seq /\ pc' = [pc EXCEPT ![m] = "stored"]
    BY <1>2 DEF Store
  <2>2. pc'[m] = "stored"
    BY <2>1, TypeGroups DEF PlainTypes
  <2> QED
    BY <1>2, <2>1, <2>2 DEF Seen
<1> QED
  BY <1>1, <1>2, EntryStep DEF EntryFrom

\* A retry has the number of its message.
LEMMA HandlerOwnedNext ==
  TypeOK /\ Numbered /\ StoreOwned /\ HandlerOwned /\ [Next]_vars => HandlerOwned'
<1> SUFFICES ASSUME TypeOK, Numbered, StoreOwned, HandlerOwned, [Next]_vars,
                    handler'.act \in {"add", "send", "erase"}
             PROVE  seq'[handler'.msg] = handler'.key
  BY DEF HandlerOwned
<1>0. HandlerType
  BY TypeGroups
<1>1. CASE /\ handler.act \in {"add", "send", "erase"}
           /\ handler'.key = handler.key /\ handler'.msg = handler.msg
  <2>1. handler.msg \in Msg /\ handler.key \in Seqs /\ seq[handler.msg] = handler.key
    BY <1>0, <1>1, HandlerFields DEF HandlerOwned, Idle
  <2>2. Forward(handler.msg) /\ pc[handler.msg] # "idle"
    BY <2>1, ForwardStep DEF Numbered
  <2> QED
    BY <1>1, <2>1, <2>2 DEF Forward
<1>2. ASSUME NEW k \in Seqs, Timeout(k), Retry(k) PROVE seq'[handler'.msg] = handler'.key
  <2>1. handler' = [act |-> "add", key |-> k, msg |-> m_retryStore[k].msg]
    BY <1>2 DEF Retry
  <2>2. seq[m_retryStore[k].msg] = k /\ seq' = seq
    BY <1>2 DEF Timeout, Retry, StoreOwned
  <2> QED
    BY <2>1, <2>2
<1>3. CASE AddForRetry
  <2>1. handler \in [act : {"add", "send", "erase"}, key : Seqs, msg : Msg]
    BY <1>0, <1>3 DEF HandlerType, AddForRetry, Idle
  <2>2. /\ handler.act = "add"
        /\ \/ handler' = [handler EXCEPT !.act = "erase"]
           \/ handler' = [handler EXCEPT !.act = "send"]
    BY <1>3 DEF AddForRetry
  <2>3. handler'.key = handler.key /\ handler'.msg = handler.msg
    BY <2>1, <2>2
  <2> QED
    BY <1>1, <2>2, <2>3
<1>4. CASE handler' = handler
  BY <1>1, <1>4
<1>5. CASE handler' = Idle \/ (\E k \in Seqs : Reregister(k))
  BY <1>5 DEF Reregister, Idle
<1> QED
  <2>1. \/ handler' = handler \/ handler' = Idle \/ AddForRetry
        \/ \E k \in Seqs : Timeout(k)
    BY DEF Next, Sender, Handler, vars, Dispatch, Store, Register, Unstore, Send, MarkSent,
           Deliver, Expire, Remove, Success, SendAgain, EraseUnwatched, AddAgain
  <2>2. ASSUME NEW k \in Seqs, Timeout(k)
        PROVE  handler' = handler \/ Reregister(k) \/ Retry(k)
    BY <2>2 DEF Timeout, Settled, GiveUp
  <2> QED
    BY <1>2, <1>3, <1>4, <1>5, <2>1, <2>2

\* Only a message that was stored meets a fate.
LEMMA FateSeenNext ==
  TypeOK /\ Numbered /\ StoreOwned /\ FateSeen /\ [Next]_vars => FateSeen'
<1> SUFFICES ASSUME TypeOK, Numbered, StoreOwned, FateSeen, [Next]_vars, NEW m \in Msg,
                    fate'[m] # "open"
             PROVE  Seen(m)'
  BY DEF FateSeen
<1>1. Seen(m)
  BY FateStep DEF FateFrom, FateSeen, StoreOwned
<1> QED
  BY <1>1, ForwardStep DEF Forward

\* A message that has a number keeps it.
LEMMA NumberKept ==
  ASSUME TypeOK, Numbered, [Next]_vars, NEW n \in Msg, pc[n] # "idle"
  PROVE  seq'[n] = seq[n] /\ pc'[n] # "idle"
  BY ForwardStep DEF Forward

\* An acknowledgement is on its way only for the number of a message that has arrived.
LEMMA SourcesNext ==
  TypeOK /\ Numbered /\ HandlerOwned /\ Sources /\ [Next]_vars => Sources'
<1> SUFFICES ASSUME TypeOK, Numbered, HandlerOwned, Sources, [Next]_vars
      PROVE  Sources'
  OBVIOUS
<1>0. PlainTypes
  BY TypeGroups
<1>d. /\ data \subseteq Msg /\ delivered \subseteq Msg /\ acks \subseteq Seqs
      /\ arrived \in Seqs \cup {NoKey}
  BY <1>0 DEF PlainTypes
<1>n. /\ \A n \in data : seq'[n] = seq[n] /\ pc'[n] # "idle"
      /\ \A n \in delivered : seq'[n] = seq[n]
  BY <1>d, NumberKept DEF Sources
<1>u. ASSUME data' = data, acks' = acks, delivered' = delivered, arrived' = arrived
      PROVE  Sources'
  BY <1>n, <1>u DEF Sources
<1>1. ASSUME NEW m \in Msg, Dispatch(m) PROVE Sources'
  BY <1>u, <1>1
    DEF Dispatch, storeVars, linkVars
<1>2. ASSUME NEW m \in Msg, Store(m) PROVE Sources'
  BY <1>u, <1>2
    DEF Store, storeVars, linkVars
<1>3. ASSUME NEW m \in Msg, Register(m) PROVE Sources'
  BY <1>u, <1>3
    DEF Register, storeVars, linkVars
<1>4. ASSUME NEW m \in Msg, Unstore(m) PROVE Sources'
  BY <1>u, <1>4
    DEF Unstore, Erase, storeVars, linkVars
<1>5. ASSUME NEW m \in Msg, Send(m) PROVE Sources'
  <2>1. /\ data' \subseteq data \cup {m} /\ data \subseteq data'
        /\ acks' = acks /\ delivered' = delivered /\ arrived' = arrived
    BY <1>5 DEF Send
  <2>2. pc'[m] # "idle"
    BY NumberKept, <1>5 DEF Send
  <2>3. \A n \in data' : pc'[n] # "idle"
    BY <1>n, <2>1, <2>2
  <2> QED
    BY <1>n, <2>1, <2>3 DEF Sources
<1>6. ASSUME NEW m \in Msg, MarkSent(m) PROVE Sources'
  BY <1>u, <1>6
    DEF MarkSent, storeVars, linkVars
<1>7. ASSUME NEW m \in Msg, Deliver(m) PROVE Sources'
  <2>1. /\ delivered' = delivered \cup {m} /\ acks' = acks \cup {seq[m]} /\ m \in data
        /\ data' = data /\ arrived' = arrived /\ seq' = seq /\ pc' = pc
    BY <1>7 DEF Deliver
  <2> QED
    BY <2>1 DEF Sources
<1>8. ASSUME NEW K \in SUBSET Seqs, Expire(K) PROVE Sources'
  BY <1>u, <1>8
    DEF Expire, storeVars, linkVars
<1>9. ASSUME NEW k \in Seqs, Timeout(k), Settled(k) PROVE Sources'
  BY <1>u, <1>9
    DEF Settled, Timeout, storeVars, linkVars
<1>10. ASSUME NEW k \in Seqs, Timeout(k), Retry(k) PROVE Sources'
  BY <1>u, <1>10
    DEF Retry, Timeout, storeVars, linkVars
<1>11. ASSUME NEW k \in Seqs, Timeout(k), Reregister(k) PROVE Sources'
  BY <1>u, <1>11
    DEF Reregister, Timeout, storeVars, linkVars
<1>12. ASSUME NEW k \in Seqs, Timeout(k), GiveUp(k) PROVE Sources'
  BY <1>u, <1>12
    DEF GiveUp, Timeout, Erase, storeVars, linkVars
<1>13. ASSUME AddForRetry PROVE Sources'
  BY <1>u, <1>13
    DEF AddForRetry, storeVars, linkVars
<1>14. ASSUME SendAgain PROVE Sources'
  <2>1. /\ data' \subseteq data \cup {handler.msg} /\ data \subseteq data'
        /\ acks' = acks /\ delivered' = delivered /\ arrived' = arrived
    BY <1>14 DEF SendAgain
  <2>2. handler.msg \in Msg /\ seq[handler.msg] \in Seqs
    BY <1>14, TypeGroups, HandlerFields DEF SendAgain, HandlerOwned, Idle
  <2>3. pc'[handler.msg] # "idle"
    BY <2>2, NumberKept DEF Numbered
  <2>4. \A n \in data' : pc'[n] # "idle"
    BY <1>n, <2>1, <2>3
  <2> QED
    BY <1>n, <2>1, <2>4 DEF Sources
<1>15. ASSUME EraseUnwatched PROVE Sources'
  BY <1>u, <1>15
    DEF EraseUnwatched, Erase, storeVars, linkVars
<1>16. ASSUME AddAgain PROVE Sources'
  BY <1>u, <1>16
    DEF AddAgain, storeVars, linkVars
<1>17. ASSUME NEW k \in Seqs, Remove(k) PROVE Sources'
  <2>1. k \in acks /\ arrived' = k /\ acks' = acks /\ delivered' = delivered /\ data' = data
    BY <1>17 DEF Remove, linkVars
  <2> QED
    BY <1>n, <2>1 DEF Sources
<1>18. ASSUME Success PROVE Sources'
  <2>1. arrived' = NoKey /\ acks' = acks /\ delivered' = delivered /\ data' = data
    BY <1>18 DEF Success, linkVars
  <2> QED
    BY <1>n, <2>1 DEF Sources
<1>19. CASE UNCHANGED vars
  BY <1>u, <1>19
    DEF vars, storeVars, linkVars
<1> QED
  BY <1>1, <1>2, <1>3, <1>4, <1>5, <1>6, <1>7, <1>8, <1>9, <1>10, <1>11, <1>12, <1>13, <1>14, <1>15, <1>16, <1>17, <1>18, <1>19
    DEF Next, Sender, Handler, Timeout

\* A number is watched only for a message that the transport is asked to send.
LEMMA TriedNext ==
  TypeOK /\ Numbered /\ Tried /\ [Next]_vars => Tried'
<1> SUFFICES ASSUME TypeOK, Numbered, Tried, [Next]_vars
      PROVE  Tried'
  OBVIOUS
<1>a. \A k : Attempted(k) => Attempted(k)'
  <2> SUFFICES ASSUME NEW k, NEW n \in Msg, seq[n] = k, pc[n] \in Attempting PROVE Attempted(k)'
    BY DEF Attempted
  <2>1. Forward(n)
    BY ForwardStep
  <2> QED
    BY <2>1 DEF Forward, Attempted, Attempting
<1>u. ASSUME m_pending' \cup expired' \subseteq m_pending \cup expired, handler' = handler
      PROVE  Tried'
  BY <1>a, <1>u DEF Tried
<1>1. ASSUME NEW m \in Msg, Dispatch(m) PROVE Tried'
  <2>1. m_pending' \cup expired' \subseteq m_pending \cup expired /\ handler' = handler
    BY <1>1 DEF Dispatch
  <2> QED
    BY <1>u, <2>1
<1>2. ASSUME NEW m \in Msg, Store(m) PROVE Tried'
  <2>1. m_pending' \cup expired' \subseteq m_pending \cup expired /\ handler' = handler
    BY <1>2 DEF Store
  <2> QED
    BY <1>u, <2>1
<1>3. ASSUME NEW m \in Msg, Register(m) PROVE Tried'
  <2>1. handler' = handler /\ expired' = expired /\ seq' = seq
    BY <1>3 DEF Register
  <2>2. CASE m_pending' = m_pending
    BY <1>u, <2>1, <2>2
  <2>3. CASE m_pending' # m_pending
    <3>1. m_pending' = m_pending \cup {seq[m]} /\ pc' = [pc EXCEPT ![m] = "added"]
      BY <1>3, <2>3 DEF Register
    <3>2. pc'[m] = "added"
      BY <3>1, TypeGroups DEF PlainTypes
    <3>3. Attempted(seq[m])'
      BY <2>1, <3>2 DEF Attempted, Attempting
    <3> QED
      BY <1>a, <2>1, <3>1, <3>3 DEF Tried
  <2> QED
    BY <2>2, <2>3
<1>4. ASSUME NEW m \in Msg, Unstore(m) PROVE Tried'
  <2>1. m_pending' \cup expired' \subseteq m_pending \cup expired /\ handler' = handler
    BY <1>4 DEF Unstore
  <2> QED
    BY <1>u, <2>1
<1>5. ASSUME NEW m \in Msg, Send(m) PROVE Tried'
  <2>1. m_pending' \cup expired' \subseteq m_pending \cup expired /\ handler' = handler
    BY <1>5 DEF Send
  <2> QED
    BY <1>u, <2>1
<1>6. ASSUME NEW m \in Msg, MarkSent(m) PROVE Tried'
  <2>1. m_pending' \cup expired' \subseteq m_pending \cup expired /\ handler' = handler
    BY <1>6 DEF MarkSent
  <2> QED
    BY <1>u, <2>1
<1>7. ASSUME NEW m \in Msg, Deliver(m) PROVE Tried'
  <2>1. m_pending' \cup expired' \subseteq m_pending \cup expired /\ handler' = handler
    BY <1>7 DEF Deliver
  <2> QED
    BY <1>u, <2>1
<1>8. ASSUME NEW K \in SUBSET Seqs, Expire(K) PROVE Tried'
  <2>1. m_pending' \cup expired' \subseteq m_pending \cup expired /\ handler' = handler
    BY <1>8 DEF Expire
  <2> QED
    BY <1>u, <2>1
<1>9. ASSUME NEW k \in Seqs, Timeout(k), Settled(k) PROVE Tried'
  <2>1. m_pending' \cup expired' \subseteq m_pending \cup expired /\ handler' = handler
    BY <1>9 DEF Timeout, Settled
  <2> QED
    BY <1>u, <2>1
<1>10. ASSUME NEW k \in Seqs, Timeout(k), Retry(k) PROVE Tried'
  <2>1. /\ m_pending' = m_pending /\ expired' \subseteq expired /\ k \in expired
        /\ handler' = [act |-> "add", key |-> k, msg |-> m_retryStore[k].msg]
    BY <1>10 DEF Timeout, Retry
  <2>2. handler'.key = k
    BY <2>1
  <2> QED
    BY <1>a, <2>1, <2>2 DEF Tried
<1>11. ASSUME NEW k \in Seqs, Timeout(k), Reregister(k) PROVE Tried'
  <2>1. /\ m_pending' = m_pending /\ expired' \subseteq expired /\ k \in expired
        /\ handler' = [act |-> "reregister", key |-> k]
    BY <1>11 DEF Timeout, Reregister
  <2>2. handler'.key = k
    BY <2>1
  <2> QED
    BY <1>a, <2>1, <2>2 DEF Tried
<1>12. ASSUME NEW k \in Seqs, Timeout(k), GiveUp(k) PROVE Tried'
  <2>1. m_pending' \cup expired' \subseteq m_pending \cup expired /\ handler' = handler
    BY <1>12 DEF Timeout, GiveUp
  <2> QED
    BY <1>u, <2>1
<1>13. ASSUME AddForRetry PROVE Tried'
  <2>1. handler # Idle /\ expired' = expired /\ m_pending' \subseteq m_pending \cup {handler.key}
    BY <1>13 DEF AddForRetry, Idle
  <2>2. handler'.key = handler.key
    <3>1. handler \in [act : {"add", "send", "erase"}, key : Seqs, msg : Msg]
      BY <1>13, TypeGroups DEF HandlerType, AddForRetry, Idle
    <3>2. \/ handler' = [handler EXCEPT !.act = "erase"]
          \/ handler' = [handler EXCEPT !.act = "send"]
      BY <1>13 DEF AddForRetry
    <3> QED
      BY <3>1, <3>2
  <2> QED
    BY <1>a, <2>1, <2>2 DEF Tried
<1>14. ASSUME SendAgain PROVE Tried'
  <2>1. m_pending' = m_pending /\ expired' = expired /\ handler' = Idle
    BY <1>14 DEF SendAgain
  <2> QED
    BY <1>a, <2>1 DEF Tried
<1>15. ASSUME EraseUnwatched PROVE Tried'
  <2>1. m_pending' = m_pending /\ expired' = expired /\ handler' = Idle
    BY <1>15 DEF EraseUnwatched
  <2> QED
    BY <1>a, <2>1 DEF Tried
<1>16. ASSUME AddAgain PROVE Tried'
  <2>1. /\ handler # Idle /\ expired' = expired /\ handler' = Idle
        /\ m_pending' \subseteq m_pending \cup {handler.key}
    BY <1>16 DEF AddAgain, Idle
  <2> QED
    BY <1>a, <2>1 DEF Tried
<1>17. ASSUME NEW k \in Seqs, Remove(k) PROVE Tried'
  <2>1. m_pending' \cup expired' \subseteq m_pending \cup expired /\ handler' = handler
    BY <1>17 DEF Remove
  <2> QED
    BY <1>u, <2>1
<1>18. ASSUME Success PROVE Tried'
  <2>1. m_pending' \cup expired' \subseteq m_pending \cup expired /\ handler' = handler
    BY <1>18 DEF Success
  <2> QED
    BY <1>u, <2>1
<1>19. CASE UNCHANGED vars
  <2>1. m_pending' \cup expired' \subseteq m_pending \cup expired /\ handler' = handler
    BY <1>19 DEF vars
  <2> QED
    BY <1>u, <2>1
<1> QED
  BY <1>1, <1>2, <1>3, <1>4, <1>5, <1>6, <1>7, <1>8, <1>9, <1>10, <1>11, <1>12, <1>13, <1>14, <1>15, <1>16, <1>17, <1>18, <1>19
    DEF Next, Sender, Handler, Timeout

-----------------------------------------------------------------------------
\* What is known of the count of one message: its parts are numbers of their ranges.
LEMMA CountTypes ==
  ASSUME TypeOK, NEW v \in Msg
  PROVE  /\ sends[v] \in Nat /\ MaxRetries \in Nat
         /\ FirstDue(v) \in {0, 1} /\ FirstMade(v) \in {0, 1} /\ Started(v) \in {0, 1}
         /\ Held(v) => m_retryStore[seq[v]].attempts \in 0 .. MaxRetries
         /\ Left(v) \in 0 .. MaxRetries
<1>1. sends[v] \in Nat /\ MaxRetries \in Nat
  BY TypeGroups, ReliableAssumption DEF PlainTypes
<1>2. FirstDue(v) \in {0, 1} /\ FirstMade(v) \in {0, 1} /\ Started(v) \in {0, 1}
  BY DEF FirstDue, FirstMade, Started
<1>3. Held(v) => m_retryStore[seq[v]].attempts \in 0 .. MaxRetries
  BY TypeGroups, EntryFields DEF Held
<1>4. Left(v) \in 0 .. MaxRetries
  BY <1>1, <1>3 DEF Left
<1> QED
  BY <1>1, <1>2, <1>3, <1>4

\* The entry of a message that was stored is never replenished: it has the attempts it
\* had, or one fewer when OnStatusChanged starts a retry.
LEMMA HeldStep ==
  ASSUME TypeOK, Numbered, StoreOwned, [Next]_vars, NEW v \in Msg, Seen(v), Held(v)'
  PROVE  /\ Held(v) /\ seq'[v] = seq[v]
         /\ \/ m_retryStore'[seq[v]].attempts = m_retryStore[seq[v]].attempts
            \/ /\ m_retryStore'[seq[v]].attempts = m_retryStore[seq[v]].attempts - 1
               /\ Timeout(seq[v]) /\ Retry(seq[v])
<1>1. seq[v] \in Seqs /\ seq'[v] = seq[v]
  BY NumberKept DEF Seen, Numbered
<1>2. m_retryStore'[seq[v]] # NoEntry /\ m_retryStore'[seq[v]].msg = v
  BY <1>1 DEF Held
<1>3. EntryFrom(seq[v])
  BY <1>1, EntryStep
<1>4. ~ \E m \in Msg : Store(m) /\ seq[m] = seq[v] /\ m_retryStore'[seq[v]].msg = m
  BY <1>2 DEF Store, Seen
<1> QED
  BY <1>1, <1>2, <1>3, <1>4 DEF EntryFrom, Held

\* What a message has left never grows, and a retry that is started is taken from it.
LEMMA LeftStep ==
  ASSUME TypeOK, TypeOK', Numbered, StoreOwned, [Next]_vars, NEW v \in Msg
  PROVE  /\ Left(v)' <= Left(v)
         /\ StartRetry(v) => Left(v)' <= Left(v) - 1
<1>1. Left(v) \in 0 .. MaxRetries /\ Left(v)' \in 0 .. MaxRetries /\ MaxRetries \in Nat
  <2>1. Left(v) \in 0 .. MaxRetries /\ MaxRetries \in Nat
    BY CountTypes
  <2>2. seq'[v] \in Seqs /\ m_retryStore'[seq'[v]] # NoEntry
          => m_retryStore'[seq'[v]].attempts \in 0 .. MaxRetries
    BY DEF TypeOK, Entry
  <2>3. Left(v)' \in 0 .. MaxRetries
    BY <2>1, <2>2 DEF Left, Held
  <2> QED
    BY <2>1, <2>3
<1>2. CASE ~Seen(v)
  <2>1. Left(v) = MaxRetries
    BY <1>2 DEF Left
  <2>2. ~StartRetry(v)
    BY <1>2 DEF StartRetry, StoreOwned
  <2> QED
    BY <1>1, <2>1, <2>2
<1>3. CASE Seen(v) /\ ~Held(v)'
  <2>1. Seen(v)'
    BY <1>3, ForwardStep DEF Forward
  <2>2. Left(v)' = 0
    BY <1>3, <2>1 DEF Left
  <2>3. StartRetry(v) => Left(v) > 0
    <3> SUFFICES ASSUME StartRetry(v) PROVE Left(v) > 0
      OBVIOUS
    <3>1. PICK k \in Seqs : Retry(k) /\ m_retryStore[k] # NoEntry /\ m_retryStore[k].msg = v
      BY DEF StartRetry
    <3>2. seq[v] = k
      BY <3>1 DEF StoreOwned
    <3>3. Held(v) /\ m_retryStore[seq[v]].attempts > 0
      BY <3>1, <3>2 DEF Held, Retry
    <3> QED
      BY <1>3, <3>3 DEF Left
  <2> QED
    BY <1>1, <2>2, <2>3
<1>4. CASE Seen(v) /\ Held(v)'
  <2>1. Held(v) /\ seq'[v] = seq[v] /\ Seen(v)'
    BY <1>4, HeldStep, ForwardStep DEF Forward
  <2>2. /\ Left(v) = m_retryStore[seq[v]].attempts
        /\ Left(v)' = m_retryStore'[seq[v]].attempts
    BY <1>4, <2>1 DEF Left
  <2>3. \/ Left(v)' = Left(v) \/ Left(v)' = Left(v) - 1
    BY <1>4, <2>2, HeldStep
  <2>4. StartRetry(v) => Left(v)' = Left(v) - 1
    <3> SUFFICES ASSUME StartRetry(v) PROVE Left(v)' = Left(v) - 1
      OBVIOUS
    <3>1. PICK k \in Seqs : Retry(k) /\ m_retryStore[k] # NoEntry /\ m_retryStore[k].msg = v
      BY DEF StartRetry
    <3>2. seq[v] = k
      BY <3>1 DEF StoreOwned
    <3>3. m_retryStore' = [m_retryStore EXCEPT ![k].attempts = @ - 1]
      BY <3>1 DEF Retry
    <3>4. m_retryStore[k] \in Entry /\ m_retryStore \in [Seqs -> Entry \cup {NoEntry}]
      BY <3>1, TypeGroups, EntryFields DEF StoreType
    <3>5. m_retryStore'[k] = [m_retryStore[k] EXCEPT !.attempts = @ - 1]
      BY <3>3, <3>4
    <3>6. m_retryStore'[k].attempts = m_retryStore[k].attempts - 1
      BY <3>4, <3>5 DEF Entry
    <3> QED
      BY <2>2, <3>2, <3>6
  <2> QED
    BY <1>1, <2>3, <2>4
<1> QED
  BY <1>2, <1>3, <1>4

\* A first send is paid by FirstDue, a retry by an attempt and then by Started.
LEMMA BudgetNext ==
  TypeOK /\ TypeOK' /\ Numbered /\ StoreOwned /\ HandlerOwned /\ Budget /\ [Next]_vars
    => Budget'
<1> SUFFICES ASSUME TypeOK, TypeOK', Numbered, StoreOwned, HandlerOwned, Budget, [Next]_vars,
                    NEW v \in Msg
             PROVE  (sends[v] + FirstDue(v) + Started(v) + Left(v) <= 1 + MaxRetries)'
  BY DEF Budget
<1>1. sends[v] + FirstDue(v) + Started(v) + Left(v) <= 1 + MaxRetries
  BY DEF Budget
<1>2. /\ sends[v] \in Nat /\ MaxRetries \in Nat /\ Left(v) \in Int
      /\ FirstDue(v) \in {0, 1} /\ Started(v) \in {0, 1}
  BY CountTypes
<1>3. FirstDue(v)' \in {0, 1} /\ Started(v)' \in {0, 1} /\ Left(v)' \in Int
  <2>1. FirstDue(v)' \in {0, 1} /\ Started(v)' \in {0, 1}
    BY DEF FirstDue, Started
  <2>2. seq'[v] \in Seqs /\ m_retryStore'[seq'[v]] # NoEntry
          => m_retryStore'[seq'[v]].attempts \in 0 .. MaxRetries
    BY DEF TypeOK, Entry
  <2>3. Left(v)' \in Int
    BY <1>2, <2>2 DEF Left, Held
  <2> QED
    BY <2>1, <2>3
<1>4. Left(v)' <= Left(v) /\ (StartRetry(v) => Left(v)' <= Left(v) - 1)
  BY LeftStep
<1>5. Count(v)
  BY CountStep
<1>6. CASE NoSend(v) \/ Leave(v)
  <2>1. /\ sends'[v] = sends[v] /\ FirstDue(v)' <= FirstDue(v)
        /\ Started(v)' <= Started(v)
    BY <1>2, <1>6 DEF NoSend, Leave
  <2> QED
    BY <1>1, <1>2, <1>3, <1>4, <2>1
<1>7. CASE FirstSend(v)
  <2>1. /\ sends'[v] = sends[v] + 1 /\ Started(v)' = Started(v)
        /\ FirstDue(v) = 1 /\ FirstDue(v)' = 0
    BY <1>7 DEF FirstSend
  <2> QED
    BY <1>1, <1>2, <1>3, <1>4, <2>1
<1>8. CASE Again(v)
  <2>1. /\ sends'[v] = sends[v] + 1 /\ Started(v) = 1 /\ Started(v)' = 0
        /\ FirstDue(v)' = FirstDue(v)
    BY <1>8 DEF Again
  <2> QED
    BY <1>1, <1>2, <1>3, <1>4, <2>1
<1>9. CASE StartRetry(v)
  <2>1. /\ sends'[v] = sends[v] /\ Started(v) = 0 /\ Started(v)' = 1
        /\ FirstDue(v)' = FirstDue(v)
    BY <1>9 DEF StartRetry
  <2> QED
    BY <1>1, <1>2, <1>3, <1>4, <1>9, <2>1
<1> QED
  BY <1>5, <1>6, <1>7, <1>8, <1>9 DEF Count

\* An attempt that is gone from the entry has been sent or is being sent.
LEMMA SpentNext ==
  TypeOK /\ TypeOK' /\ Numbered /\ StoreOwned /\ HandlerOwned /\ Spent /\ [Next]_vars
    => Spent'
<1> SUFFICES ASSUME TypeOK, TypeOK', Numbered, StoreOwned, HandlerOwned, Spent, [Next]_vars,
                    NEW v \in Msg, Held(v)'
             PROVE  (sends[v] + Started(v) + m_retryStore[seq[v]].attempts
                       >= MaxRetries + FirstMade(v))'
  BY DEF Spent
<1>2. /\ sends[v] \in Nat /\ MaxRetries \in Nat
      /\ FirstMade(v) \in {0, 1} /\ Started(v) \in {0, 1}
  BY CountTypes
<1>3. FirstMade(v)' \in {0, 1} /\ Started(v)' \in {0, 1} /\ sends'[v] \in Nat
  BY DEF FirstMade, Started, TypeOK
<1>4. CASE ~Seen(v)
  <2>1. seq'[v] \in Seqs /\ m_retryStore'[seq'[v]] # NoEntry /\ m_retryStore'[seq'[v]].msg = v
    BY DEF Held
  <2>2. \E m \in Msg : /\ Store(m) /\ seq[m] = seq'[v] /\ m = v
                       /\ m_retryStore'[seq'[v]].attempts = MaxRetries
    <3>1. ~(m_retryStore[seq'[v]] # NoEntry /\ m_retryStore[seq'[v]].msg = v)
      BY <1>4, <2>1 DEF StoreOwned
    <3> QED
      BY <2>1, <3>1, EntryStep DEF EntryFrom
  <2>3. pc'[v] = "stored" /\ m_retryStore'[seq'[v]].attempts = MaxRetries
    BY <2>2, TypeGroups DEF Store, PlainTypes
  <2>4. FirstMade(v)' = 0
    BY <2>3 DEF FirstMade
  <2> QED
    BY <1>2, <1>3, <2>3, <2>4
<1>5. CASE Seen(v)
  <2>1. Held(v) /\ seq'[v] = seq[v]
    BY <1>5, HeldStep
  <2> DEFINE was == m_retryStore[seq[v]].attempts
             is == m_retryStore'[seq[v]].attempts
  <2>2. sends[v] + Started(v) + was >= MaxRetries + FirstMade(v)
    BY <2>1 DEF Spent
  <2>3. was \in Nat
    BY <2>1, CountTypes
  <2>4. is = was \/ (is = was - 1 /\ Timeout(seq[v]) /\ Retry(seq[v]))
    BY <1>5, HeldStep
  <2>5. seq[v] \in Seqs /\ m_retryStore[seq[v]] # NoEntry /\ m_retryStore[seq[v]].msg = v
        /\ m_retryStore'[seq[v]] # NoEntry
    BY <2>1 DEF Held
  <2>6. Count(v) /\ ~Leave(v)
    BY <2>5, CountStep DEF Leave
  <2> HIDE DEF was, is
  <2>7. sends'[v] + Started(v)' + is >= MaxRetries + FirstMade(v)'
    <3>1. CASE is = was - 1 /\ Timeout(seq[v]) /\ Retry(seq[v])
      <4>1. /\ sends' = sends /\ pc' = pc /\ handler = Idle
            /\ handler' = [act |-> "add", key |-> seq[v], msg |-> v]
        BY <2>5, <3>1 DEF Timeout, Retry
      <4>2. Started(v) = 0 /\ Started(v)' = 1 /\ FirstMade(v)' = FirstMade(v)
        BY <4>1 DEF Started, Retrying, FirstMade, Idle
      <4> QED
        BY <1>2, <2>2, <2>3, <3>1, <4>1, <4>2
    <3>2. CASE is = was
      <4>1. CASE NoSend(v) \/ Again(v) \/ StartRetry(v)
        <5>1. /\ FirstMade(v)' = FirstMade(v)
              /\ \/ sends'[v] = sends[v] /\ Started(v)' = Started(v)
                 \/ sends'[v] = sends[v] + 1 /\ Started(v) = 1 /\ Started(v)' = 0
                 \/ sends'[v] = sends[v] /\ Started(v) = 0 /\ Started(v)' = 1
          BY <4>1 DEF NoSend, Again, StartRetry
        <5> QED
          BY <1>2, <2>2, <2>3, <3>2, <5>1
      <4>2. CASE FirstSend(v)
        <5>1. /\ FirstMade(v) = 0 /\ FirstMade(v)' = 1
              /\ sends'[v] = sends[v] + 1 /\ Started(v)' = Started(v)
          BY <4>2 DEF FirstSend
        <5> QED
          BY <1>2, <2>2, <2>3, <3>2, <5>1
      <4> QED
        BY <2>6, <4>1, <4>2 DEF Count
    <3> QED
      BY <2>4, <3>1, <3>2
  <2> QED
    BY <2>1, <2>7 DEF is
<1> QED
  BY <1>4, <1>5

-----------------------------------------------------------------------------
\* Whoever stops watching a number hands it on to the next that does, or erases its entry.
LEMMA ForgottenNext ==
  TypeOK /\ Numbered /\ NothingForgotten /\ [Next]_vars => NothingForgotten'
<1> SUFFICES ASSUME TypeOK, Numbered, NothingForgotten, [Next]_vars,
                    NEW j \in Seqs, m_retryStore'[j] # NoEntry
             PROVE  Watched(j)'
  BY DEF NothingForgotten
<1>0. /\ pc \in [Msg -> {"idle", "numbered", "stored", "added", "sent", "refused", "failed",
                      "done", "error"}] /\ m_retryStore \in [Seqs -> Entry \cup {NoEntry}]
  BY TypeGroups DEF PlainTypes, StoreType
<1>w. m_retryStore[j] # NoEntry => Watched(j)
  BY DEF NothingForgotten
<1>h. handler # Idle => handler.key \in Seqs
  BY TypeGroups, HandlerFields
<1>1. ASSUME NEW m \in Msg, Dispatch(m) PROVE Watched(j)'
  <2>1. Watched(j)
    BY <1>0, <1>w, <1>1 DEF Dispatch, storeVars
  <2>2. \A n \in Msg : pc[n] # "idle" => seq'[n] = seq[n] /\ pc'[n] = pc[n]
    BY <1>0, <1>1 DEF Dispatch
  <2> QED
    BY <2>1, <2>2, <1>1 DEF Watched, Dispatch
<1>2. ASSUME NEW m \in Msg, Store(m) PROVE Watched(j)'
  <2>1. pc'[m] = "stored" /\ seq' = seq
    BY <1>0, <1>2 DEF Store
  <2>2. CASE j = seq[m]
    BY <2>1, <2>2 DEF Watched
  <2>3. CASE j # seq[m]
    <3>1. m_retryStore[j] # NoEntry
      BY <1>0, <1>2, <2>3 DEF Store
    <3>2. Watched(j)
      BY <3>1 DEF NothingForgotten
    <3>3. \A n \in Msg : pc[n] \in {"stored", "refused", "failed"} => pc'[n] = pc[n]
      BY <1>0, <1>2 DEF Store
    <3>4. /\ m_pending' = m_pending /\ expired' = expired /\ handler' = handler
          /\ arrived' = arrived /\ lost' = lost \ {seq[m]}
      BY <1>2 DEF Store
    <3> QED
      BY <2>1, <2>3, <3>2, <3>3, <3>4 DEF Watched
  <2> QED
    BY <2>2, <2>3
<1>3. ASSUME NEW m \in Msg, Register(m) PROVE Watched(j)'
  <2>1. Watched(j)
    BY <1>0, <1>w, <1>3 DEF Register, storeVars
  <2>2. /\ pc'[m] = "refused" \/ (m_pending' = m_pending \cup {seq[m]})
        /\ m_pending \subseteq m_pending'
        /\ \A n \in Msg \ {m} : pc'[n] = pc[n]
    BY <1>0, <1>3 DEF Register
  <2>3. /\ expired' = expired /\ handler' = handler /\ arrived' = arrived /\ lost' = lost
        /\ seq' = seq
    BY <1>3 DEF Register
  <2> QED
    BY <2>1, <2>2, <2>3 DEF Watched
<1>4. ASSUME NEW m \in Msg, Unstore(m) PROVE Watched(j)'
  <2>1. Watched(j)
    BY <1>0, <1>w, <1>4 DEF Unstore, Erase
  <2>2. j # seq[m]
    BY <1>0, <1>4 DEF Unstore, Erase
  <2>3. \A n \in Msg \ {m} : pc'[n] = pc[n]
    BY <1>0, <1>4 DEF Unstore
  <2>4. /\ m_pending' = m_pending /\ expired' = expired /\ handler' = handler
        /\ arrived' = arrived /\ lost' = lost /\ seq' = seq
    BY <1>4 DEF Unstore
  <2> QED
    BY <2>1, <2>2, <2>3, <2>4 DEF Watched
<1>5. ASSUME NEW m \in Msg, Send(m) PROVE Watched(j)'
  <2>1. Watched(j)
    BY <1>0, <1>w, <1>5 DEF Send, storeVars
  <2>2. \A n \in Msg : pc[n] \in {"stored", "refused", "failed"} => pc'[n] = pc[n]
    BY <1>0, <1>5 DEF Send
  <2>3. /\ m_pending' = m_pending /\ expired' = expired /\ handler' = handler
        /\ arrived' = arrived /\ lost' = lost /\ seq' = seq
    BY <1>5 DEF Send, storeVars
  <2> QED
    BY <2>1, <2>2, <2>3 DEF Watched
<1>6. ASSUME NEW m \in Msg, MarkSent(m) PROVE Watched(j)'
  <2>1. Watched(j)
    BY <1>0, <1>w, <1>6 DEF MarkSent
  <2>2. \A n \in Msg : pc[n] \in {"stored", "refused", "failed"} => pc'[n] = pc[n]
    BY <1>0, <1>6 DEF MarkSent
  <2>3. /\ m_pending' = m_pending /\ expired' = expired /\ handler' = handler
        /\ arrived' = arrived /\ lost' = lost /\ seq' = seq
    BY <1>6 DEF MarkSent
  <2> QED
    BY <2>1, <2>2, <2>3 DEF Watched
<1>7. ASSUME NEW m \in Msg, Deliver(m) PROVE Watched(j)'
  <2>1. Watched(j)
    BY <1>0, <1>w, <1>7 DEF Deliver, storeVars
  <2> QED
    BY <1>0, <1>7, <2>1 DEF Watched, Deliver, linkVars, storeVars
<1>8. ASSUME NEW K \in SUBSET Seqs, Expire(K) PROVE Watched(j)'
  <2>1. Watched(j)
    BY <1>0, <1>w, <1>8 DEF Expire, storeVars
  <2> QED
    BY <1>0, <1>8, <2>1 DEF Watched, Expire, linkVars, storeVars
<1>9. ASSUME NEW k \in Seqs, Timeout(k), Settled(k) PROVE Watched(j)'
  <2>1. Watched(j) /\ m_retryStore[j] # NoEntry
    BY <1>0, <1>w, <1>9 DEF Timeout, Settled, storeVars
  <2>2. j # k
    BY <2>1, <1>9 DEF Settled
  <2> QED
    BY <2>1, <2>2, <1>9 DEF Watched, Timeout, Settled
<1>10. ASSUME NEW k \in Seqs, Timeout(k), Retry(k) PROVE Watched(j)'
  <2>1. Watched(j)
    BY <1>0, <1>w, <1>10 DEF Timeout, Retry
  <2>2. handler'.act = "add" /\ handler'.key = k
    BY <1>10 DEF Retry
  <2>3. handler = Idle /\ expired' = expired \ {k} /\ m_pending' = m_pending /\ lost' = lost
        /\ arrived' = arrived /\ pc' = pc /\ seq' = seq
    BY <1>10 DEF Timeout
  <2>4. handler.key # j
    BY <2>3, ReliableAssumption DEF Idle
  <2> QED
    BY <2>1, <2>2, <2>3, <2>4 DEF Watched
<1>11. ASSUME NEW k \in Seqs, Timeout(k), Reregister(k) PROVE Watched(j)'
  <2>1. Watched(j)
    BY <1>0, <1>w, <1>11 DEF Timeout, Reregister, storeVars
  <2>2. handler'.act = "reregister" /\ handler'.key = k
    BY <1>11 DEF Reregister
  <2>3. handler = Idle /\ expired' = expired \ {k} /\ m_pending' = m_pending /\ lost' = lost
        /\ arrived' = arrived /\ pc' = pc /\ seq' = seq
    BY <1>11 DEF Timeout
  <2>4. handler.key # j
    BY <2>3, ReliableAssumption DEF Idle
  <2> QED
    BY <2>1, <2>2, <2>3, <2>4 DEF Watched
<1>12. ASSUME NEW k \in Seqs, Timeout(k), GiveUp(k) PROVE Watched(j)'
  <2>1. Watched(j)
    BY <1>0, <1>w, <1>12 DEF Timeout, GiveUp, Erase
  <2>2. j # k
    BY <1>0, <1>12 DEF GiveUp, Erase
  <2> QED
    BY <2>1, <2>2, <1>12 DEF Watched, Timeout, GiveUp
<1>13. ASSUME AddForRetry PROVE Watched(j)'
  <2>1. Watched(j)
    BY <1>0, <1>w, <1>13 DEF AddForRetry, storeVars
  <2>2. handler \in [act : {"add", "send", "erase"}, key : Seqs, msg : Msg]
    BY <1>13, TypeGroups DEF HandlerType, AddForRetry, Idle
  <2>3. \/ handler' = [handler EXCEPT !.act = "erase"] /\ m_pending' = m_pending
        \/ m_pending' = m_pending \cup {handler.key}
           /\ handler' = [handler EXCEPT !.act = "send"]
    BY <1>13 DEF AddForRetry
  <2>4. \/ handler'.act = "erase" /\ handler'.key = handler.key /\ m_pending' = m_pending
        \/ m_pending' = m_pending \cup {handler.key}
    BY <2>2, <2>3
  <2>5. pc' = pc /\ seq' = seq /\ expired' = expired /\ arrived' = arrived /\ lost' = lost
    BY <1>13 DEF AddForRetry
  <2> QED
    BY <2>1, <2>4, <2>5 DEF Watched
<1>14. ASSUME SendAgain PROVE Watched(j)'
  <2>1. Watched(j)
    BY <1>0, <1>w, <1>14 DEF SendAgain, storeVars
  <2> QED
    BY <1>0, <1>14, <2>1 DEF Watched, SendAgain, linkVars, storeVars
<1>15. ASSUME EraseUnwatched PROVE Watched(j)'
  <2>1. Watched(j)
    BY <1>0, <1>w, <1>15 DEF EraseUnwatched, Erase
  <2>2. j # handler.key
    BY <1>0, <1>15 DEF EraseUnwatched, Erase
  <2> QED
    BY <2>1, <2>2, <1>15 DEF Watched, EraseUnwatched
<1>16. ASSUME AddAgain PROVE Watched(j)'
  <2>1. Watched(j)
    BY <1>0, <1>w, <1>16 DEF AddAgain, storeVars
  <2> QED
    BY <1>0, <1>16, <2>1 DEF Watched, AddAgain, linkVars, storeVars
<1>17. ASSUME NEW k \in Seqs, Remove(k) PROVE Watched(j)'
  <2>1. Watched(j)
    BY <1>0, <1>w, <1>17 DEF Remove, storeVars
  <2> QED
    BY <1>0, <1>17, <2>1, ReliableAssumption DEF Watched, Remove, linkVars, storeVars
<1>18. ASSUME Success PROVE Watched(j)'
  <2>1. Watched(j)
    BY <1>0, <1>w, <1>18 DEF Success, Erase
  <2>2. j # arrived
    BY <1>0, <1>18 DEF Success, Erase
  <2> QED
    BY <2>1, <2>2, <1>18 DEF Watched, Success, linkVars
<1>19. CASE UNCHANGED vars
  <2>1. Watched(j)
    BY <1>0, <1>w, <1>19 DEF vars, storeVars
  <2> QED
    BY <1>0, <1>19, <2>1 DEF Watched, vars, linkVars, storeVars
<1> QED
  BY <1>1, <1>2, <1>3, <1>4, <1>5, <1>6, <1>7, <1>8, <1>9, <1>10, <1>11, <1>12, <1>13, <1>14, <1>15, <1>16, <1>17, <1>18, <1>19
    DEF Next, Sender, Handler, Timeout


\* A message is taken for acknowledged when a packet with its number has arrived.
LEMMA AckNext ==
  TypeOK /\ Numbered /\ StoreOwned /\ FateSeen /\ Sources /\ AckMeansDelivered /\ [Next]_vars
    => AckMeansDelivered'
<1> SUFFICES ASSUME TypeOK, Numbered, StoreOwned, FateSeen, Sources, AckMeansDelivered,
                    [Next]_vars, NEW m \in Msg, fate'[m] = "acknowledged"
             PROVE  \E n \in delivered' : seq'[n] = seq'[m]
  BY DEF AckMeansDelivered
<1>1. delivered \subseteq Msg /\ \A n \in delivered : pc[n] # "idle"
  BY TypeGroups DEF PlainTypes, Sources
<1>2. \A n \in delivered : seq'[n] = seq[n]
  BY <1>1, NumberKept
<1>3. delivered \subseteq delivered'
  BY DEF Next, Sender, Handler, Timeout, vars, linkVars, Dispatch, Store, Register, Unstore,
         Send, MarkSent, Deliver, Expire, Remove, Success, AddForRetry, SendAgain,
         EraseUnwatched, AddAgain
<1>4. CASE fate'[m] = fate[m]
  <2>1. \E n \in delivered : seq[n] = seq[m]
    BY <1>4 DEF AckMeansDelivered
  <2>2. seq'[m] = seq[m]
    BY <1>4, NumberKept DEF FateSeen, Seen
  <2> QED
    BY <1>2, <1>3, <2>1, <2>2
<1>5. CASE fate'[m] # fate[m]
  <2>1. PICK k \in Seqs :
          /\ m_retryStore[k] # NoEntry /\ m_retryStore[k].msg = m
          /\ (Timeout(k) /\ GiveUp(k)) \/ (Success /\ k = arrived)
    <3>1. FateFrom(m)
      BY FateStep
    <3> QED
      BY <1>5, <3>1 DEF FateFrom
  <2>2. ~GiveUp(k)
    BY <2>1, TypeGroups DEF GiveUp, Erase, PlainTypes
  <2>3. seq[m] = k /\ Seen(m)
    BY <2>1 DEF StoreOwned
  <2>4. \E n \in delivered : seq[n] = seq[m]
    BY <2>1, <2>2, <2>3 DEF Success, Sources
  <2>5. seq'[m] = seq[m]
    BY <2>3, NumberKept DEF Seen
  <2> QED
    BY <1>2, <1>3, <2>4, <2>5
<1> QED
  BY <1>4, <1>5

\* A message is given up when nothing is left of its budget.
LEMMA GaveUpNext ==
  TypeOK /\ TypeOK' /\ Numbered /\ StoreOwned /\ HandlerOwned /\ FateSeen /\ Tried /\ Budget
    /\ Budget' /\ Spent /\ GaveUpLast /\ [Next]_vars => GaveUpLast'
<1> SUFFICES ASSUME TypeOK, TypeOK', Numbered, StoreOwned, HandlerOwned, FateSeen, Tried,
                    Budget, Budget', Spent, GaveUpLast, [Next]_vars,
                    NEW v \in Msg
             PROVE  (fate[v] = "exhausted" =>
                       /\ sends[v] >= MaxRetries
                       /\ \/ sends[v] = 1 + MaxRetries \/ pc[v] = "added"
                          \/ \E n \in Msg \ {v} : seq[n] = seq[v])'
  BY DEF GaveUpLast
<1> SUFFICES ASSUME fate'[v] = "exhausted"
             PROVE  /\ sends'[v] >= MaxRetries
                    /\ \/ sends'[v] = 1 + MaxRetries \/ pc'[v] = "added"
                       \/ \E n \in Msg \ {v} : seq'[n] = seq'[v]
  OBVIOUS
<1>1. sends[v] \in Nat /\ MaxRetries \in Nat /\ sends'[v] \in Nat
  BY CountTypes DEF TypeOK
<1>2. sends'[v] <= 1 + MaxRetries
  <2>1. sends'[v] + FirstDue(v)' + Started(v)' + Left(v)' <= 1 + MaxRetries
    BY DEF Budget
  <2>2. FirstDue(v)' \in {0, 1} /\ Started(v)' \in {0, 1}
    BY DEF FirstDue, Started
  <2>3. Left(v)' \in Nat
    <3>1. seq'[v] \in Seqs /\ m_retryStore'[seq'[v]] # NoEntry
            => m_retryStore'[seq'[v]].attempts \in 0 .. MaxRetries
      BY DEF TypeOK, Entry
    <3> QED
      BY <1>1, <3>1 DEF Left, Held
  <2> QED
    BY <1>1, <2>1, <2>2, <2>3
<1>3. CASE fate'[v] = fate[v]
  <2>1. /\ sends[v] >= MaxRetries
        /\ \/ sends[v] = 1 + MaxRetries \/ pc[v] = "added"
           \/ \E n \in Msg \ {v} : seq[n] = seq[v]
    BY <1>3 DEF GaveUpLast
  <2>2. sends'[v] >= sends[v]
    BY <1>1, CountStep DEF Count, NoSend, FirstSend, Again, StartRetry, Leave
  <2>3. pc[v] # "idle" /\ seq'[v] = seq[v] /\ seq[v] \in Seqs
    BY <1>3, NumberKept DEF FateSeen, Seen, Numbered
  <2>4. CASE sends[v] = 1 + MaxRetries
    BY <1>1, <1>2, <2>2, <2>4
  <2>5. CASE pc[v] = "added"
    <3>1. pc'[v] = "added" \/ sends'[v] = sends[v] + 1
      BY <2>5, ForwardStep DEF Forward
    <3> QED
      BY <1>1, <1>2, <2>1, <2>2, <3>1
  <2>6. ASSUME NEW n \in Msg \ {v}, seq[n] = seq[v]
        PROVE  seq'[n] = seq'[v]
    BY <2>3, <2>6, NumberKept DEF Numbered
  <2> QED
    BY <1>1, <2>1, <2>2, <2>4, <2>5, <2>6
<1>4. CASE fate'[v] # fate[v]
  <2>1. PICK k \in Seqs :
          /\ m_retryStore[k] # NoEntry /\ m_retryStore[k].msg = v
          /\ (Timeout(k) /\ GiveUp(k)) \/ (Success /\ k = arrived)
    <3>1. FateFrom(v)
      BY FateStep
    <3> QED
      BY <1>4, <3>1 DEF FateFrom
  <2>2. ~(Success /\ k = arrived)
    BY <2>1, TypeGroups DEF Success, Erase, PlainTypes
  <2>3. /\ k \in expired /\ handler = Idle /\ m_retryStore[k].attempts = 0
        /\ sends' = sends /\ pc' = pc /\ seq' = seq
    BY <2>1, <2>2 DEF Timeout, GiveUp
  <2>4. seq[v] = k /\ Held(v) /\ Started(v) = 0
    BY <2>1, <2>3 DEF StoreOwned, Held, Started, Retrying, Idle
  <2>5. sends[v] >= MaxRetries + FirstMade(v) /\ FirstMade(v) \in {0, 1}
    <3>1. sends[v] + Started(v) + m_retryStore[seq[v]].attempts >= MaxRetries + FirstMade(v)
      BY <2>4 DEF Spent
    <3>2. FirstMade(v) \in {0, 1}
      BY CountTypes
    <3> QED
      BY <1>1, <2>3, <2>4, <3>1, <3>2
  <2>6. PICK n \in Msg : seq[n] = k /\ pc[n] \in Attempting
    BY <2>3 DEF Tried, Attempted
  <2>7. CASE n # v
    BY <1>1, <2>3, <2>4, <2>5, <2>6, <2>7
  <2>8. CASE n = v /\ pc[v] # "added"
    <3>1. FirstMade(v) = 1
      BY <2>6, <2>8 DEF FirstMade, Attempting
    <3> QED
      BY <1>1, <1>2, <2>3, <2>5, <3>1
  <2>9. CASE pc[v] = "added"
    BY <1>1, <2>3, <2>5, <2>9
  <2> QED
    BY <2>7, <2>8, <2>9
<1> QED
  BY <1>3, <1>4

-----------------------------------------------------------------------------
\* Nothing is stored, watched, sent or acknowledged at the start.
LEMMA InvInit == Init => Inv
<1> SUFFICES ASSUME Init PROVE Inv
  OBVIOUS
<1>1. SeqMod \in Nat \ {0} /\ MaxRetries \in Nat /\ MaxPending \in Nat /\ NoKey \notin Seqs
  BY ReliableAssumption
<1>2. 0 \in Seqs
  BY <1>1 DEF Seqs
<1>3. Cardinality({}) = 0
  BY FS_EmptySet
<1>4. TypeOK
  BY <1>1, <1>2, <1>3 DEF Init, TypeOK, Idle
<1>5. Numbered /\ StoreOwned /\ HandlerOwned /\ FateSeen /\ Sources /\ Tried
  BY <1>1 DEF Init, Numbered, StoreOwned, HandlerOwned, FateSeen, Sources, Tried, Idle
<1>6. \A m \in Msg : sends[m] = 0 /\ pc[m] = "idle" /\ ~Retrying(m)
  BY DEF Init, Retrying, Idle
<1>7. Budget
  <2>1. \A m \in Msg : FirstDue(m) = 1 /\ Started(m) = 0 /\ Left(m) = MaxRetries
    BY <1>6 DEF FirstDue, Started, Left, Seen
  <2> QED
    BY <1>1, <1>6, <2>1 DEF Budget
<1>8. Spent /\ NothingForgotten /\ AckMeansDelivered /\ GaveUpLast
  BY DEF Init, Spent, Held, NothingForgotten, AckMeansDelivered, GaveUpLast
<1> QED
  BY <1>4, <1>5, <1>7, <1>8 DEF Inv

\* The parts of Inv are preserved together.
LEMMA InvNext == Inv /\ [Next]_vars => Inv'
<1> SUFFICES ASSUME Inv, [Next]_vars PROVE Inv'
  OBVIOUS
<1>0. /\ TypeOK /\ Numbered /\ StoreOwned /\ HandlerOwned /\ FateSeen /\ Sources /\ Tried
      /\ Budget /\ Spent /\ NothingForgotten /\ AckMeansDelivered /\ GaveUpLast
  BY DEF Inv
<1>1. HandlerType' /\ StoreType' /\ PendingType' /\ PlainTypes'
  BY <1>0, HandlerTypeNext, StoreTypeNext, PendingTypeNext, PlainTypesNext
<1>2. TypeOK'
  BY <1>1 DEF TypeOK, HandlerType, StoreType, PendingType, PlainTypes
<1>3. Numbered' /\ StoreOwned' /\ HandlerOwned' /\ FateSeen' /\ Sources' /\ Tried'
  BY <1>0, NumberedNext, StoreOwnedNext, HandlerOwnedNext, FateSeenNext, SourcesNext, TriedNext
<1>4. Budget' /\ Spent'
  BY <1>0, <1>2, BudgetNext, SpentNext
<1>5. NothingForgotten' /\ AckMeansDelivered' /\ GaveUpLast'
  BY <1>0, <1>2, <1>4, ForgottenNext, AckNext, GaveUpNext
<1> QED
  BY <1>2, <1>3, <1>4, <1>5 DEF Inv

(***************************************************************************)
(* The inductive invariant of RetryMonitor and TransportMonitor: who owns  *)
(* a number, who watches it, and where each retry of a message is counted. *)
(***************************************************************************)
THEOREM Invariance == Spec => []Inv
  BY InvInit, InvNext, PTL DEF Spec

(***************************************************************************)
(* The fields of both monitors keep their types, and m_pending never       *)
(* exceeds MAX_TRANSPORT_MONITOR_PENDING.                                  *)
(***************************************************************************)
THEOREM TypeCorrect == Spec => []TypeOK
<1>1. Inv => TypeOK
  BY DEF Inv
<1> QED
  BY <1>1, Invariance, PTL

(***************************************************************************)
(* SendWithRetry and the retries of a message together call Send at most   *)
(* 1 + m_maxRetries times, even when sequence numbers are used again.      *)
(***************************************************************************)
THEOREM BudgetIsKept == Spec => []RetryBudget
<1>1. Inv => RetryBudget
  <2> SUFFICES ASSUME Inv, NEW m \in Msg PROVE sends[m] <= 1 + MaxRetries
    BY DEF RetryBudget
  <2>1. sends[m] + FirstDue(m) + Started(m) + Left(m) <= 1 + MaxRetries
    BY DEF Inv, Budget
  <2>2. /\ sends[m] \in Nat /\ MaxRetries \in Nat /\ Left(m) \in 0 .. MaxRetries
        /\ FirstDue(m) \in {0, 1} /\ Started(m) \in {0, 1}
    BY CountTypes DEF Inv
  <2> QED
    BY <2>1, <2>2
<1> QED
  BY <1>1, Invariance, PTL

(***************************************************************************)
(* No stored packet is forgotten between SendWithRetry, Process and        *)
(* Remove, but for the one re-registration whose result is not looked at.  *)
(***************************************************************************)
THEOREM NoneForgotten == Spec => []NothingForgotten
<1>1. Inv => NothingForgotten
  BY DEF Inv
<1> QED
  BY <1>1, Invariance, PTL

(***************************************************************************)
(* OnStatusChanged(SUCCESS) erases a packet only when the receiver has got *)
(* one with its number.                                                    *)
(***************************************************************************)
THEOREM AcksAreTrue == Spec => []AckMeansDelivered
<1>1. Inv => AckMeansDelivered
  BY DEF Inv
<1> QED
  BY <1>1, Invariance, PTL

(***************************************************************************)
(* OnStatusChanged(TIMEOUT) erases a packet only when its whole budget has *)
(* been handed to the transport.                                           *)
(***************************************************************************)
THEOREM GivesUpLast == Spec => []GaveUpLast
<1>1. Inv => GaveUpLast
  BY DEF Inv
<1> QED
  BY <1>1, Invariance, PTL

-----------------------------------------------------------------------------
(***************************************************************************)
(* What an error returned by SendWithRetry rests on.  Until the first Send *)
(* has succeeded the message is not on its way, its entry is not marked as *)
(* sent, and so no retry of it has been started: provided that it does not *)
(* share its number, since MarkSent goes by the number alone.              *)
(***************************************************************************)
Waiting == {"numbered", "stored", "refused", "added", "failed", "error"}
Silent(m) ==
  /\ m \notin data /\ ~Retrying(m)
  /\ Held(m) => ~m_retryStore[seq[m]].isSent
Alone(m) == \A n \in Msg \ {m} : seq[n] # seq[m]
Unsent == \A m \in Msg : pc[m] \in Waiting /\ Alone(m) => Silent(m)

\* A message whose first Send has not succeeded was waiting before, or had no number.
LEMMA WaitingBack ==
  ASSUME TypeOK, [Next]_vars, NEW v \in Msg, pc'[v] \in Waiting
  PROVE  pc[v] \in Waiting \cup {"idle"}
<1>0. pc \in [Msg -> {"idle", "numbered", "stored", "added", "sent", "refused", "failed",
                    "done", "error"}]
  BY TypeGroups DEF PlainTypes
<1>1. \/ pc' = pc
      \/ \E m \in Msg : Dispatch(m) \/ Sender(m)
  BY DEF Next, Handler, Timeout, vars, Deliver, Expire, AddForRetry, SendAgain,
         EraseUnwatched, AddAgain, Remove, Success
<1>2. CASE pc' = pc
  BY <1>2
<1>3. ASSUME NEW m \in Msg, Dispatch(m) \/ Sender(m) PROVE pc[v] \in Waiting \cup {"idle"}
  <2>1. CASE m = v
    BY <1>3, <2>1, <1>0
      DEF Waiting, Sender, Dispatch, Store, Register, Unstore, Send, MarkSent
  <2>2. CASE m # v
    BY <1>3, <2>2, <1>0
      DEF Sender, Dispatch, Store, Register, Unstore, Send, MarkSent
  <2> QED
    BY <2>1, <2>2
<1> QED
  BY <1>1, <1>2, <1>3

\* A number that is shared stays shared.
LEMMA AloneBack ==
  ASSUME TypeOK, Numbered, [Next]_vars, NEW v \in Msg, pc[v] # "idle", Alone(v)'
  PROVE  Alone(v)
<1> SUFFICES ASSUME NEW n \in Msg \ {v}, seq[n] = seq[v] PROVE FALSE
  BY DEF Alone
<1>1. seq'[v] = seq[v] /\ seq[v] \in Seqs
  BY NumberKept DEF Numbered
<1>2. seq'[n] = seq[n]
  BY <1>1, NumberKept DEF Numbered
<1> QED
  BY <1>1, <1>2 DEF Alone

\* A message with a number of its own stays silent until its first Send succeeds.
LEMMA SilentStep ==
  ASSUME TypeOK, Numbered, StoreOwned, [Next]_vars, NEW v \in Msg,
         pc[v] # "idle", pc'[v] \in Waiting, Alone(v), Silent(v)
  PROVE  Silent(v)'
<1>0. /\ StoreType /\ HandlerType /\ PlainTypes
      /\ m_retryStore \in [Seqs -> Entry \cup {NoEntry}]
  BY TypeGroups DEF StoreType
<1>p. pc \in [Msg -> {"idle", "numbered", "stored", "added", "sent", "refused", "failed",
                    "done", "error"}]
  BY <1>0 DEF PlainTypes
<1>v. seq[v] \in Seqs /\ seq'[v] = seq[v]
  BY NumberKept DEF Numbered
<1>n. \A m \in Msg : pc[m] # "idle" => seq[m] \in Seqs
  BY DEF Numbered
<1>a. \A m \in Msg : m # v => seq[m] # seq[v]
  BY DEF Alone
<1>s. /\ v \notin data /\ ~Retrying(v)
      /\ m_retryStore[seq[v]] # NoEntry /\ m_retryStore[seq[v]].msg = v
           => ~m_retryStore[seq[v]].isSent
  BY <1>v DEF Silent, Held
<1>q. ASSUME v \notin data', ~Retrying(v)',
             m_retryStore'[seq[v]] = m_retryStore[seq[v]] \/ m_retryStore'[seq[v]] = NoEntry
      PROVE  Silent(v)'
  BY <1>v, <1>s, <1>q DEF Silent, Held
<1>h. (handler' = handler \/ handler' = Idle) => ~Retrying(v)'
  BY <1>s DEF Retrying, Idle
<1>1. ASSUME NEW m \in Msg, Dispatch(m) PROVE Silent(v)'
  BY <1>1, <1>q, <1>h, <1>s DEF Dispatch, storeVars, linkVars
<1>2. ASSUME NEW m \in Msg, Store(m) PROVE Silent(v)'
  <2>1. v \notin data' /\ ~Retrying(v)'
    BY <1>2, <1>s, <1>h DEF Store, linkVars
  <2>2. CASE m = v
    <3>1. m_retryStore'[seq[v]] = [msg |-> v, attempts |-> MaxRetries, isSent |-> FALSE]
      BY <1>0, <1>2, <1>v, <2>2 DEF Store
    <3>2. ~m_retryStore'[seq[v]].isSent
      BY <3>1
    <3> QED
      BY <1>v, <2>1, <3>2 DEF Silent, Held
  <2>3. CASE m # v
    <3>1. m_retryStore'[seq[v]] = m_retryStore[seq[v]]
      BY <1>0, <1>2, <1>v, <1>a, <2>3 DEF Store
    <3> QED
      BY <1>q, <2>1, <3>1
  <2> QED
    BY <2>2, <2>3
<1>3. ASSUME NEW m \in Msg, Register(m) PROVE Silent(v)'
  BY <1>3, <1>q, <1>h, <1>s DEF Register, storeVars, linkVars
<1>4. ASSUME NEW m \in Msg, Unstore(m) PROVE Silent(v)'
  <2>1. m_retryStore'[seq[v]] = m_retryStore[seq[v]] \/ m_retryStore'[seq[v]] = NoEntry
    BY <1>0, <1>4, <1>v DEF Unstore, Erase
  <2> QED
    BY <1>4, <1>q, <1>h, <1>s, <2>1 DEF Unstore, linkVars
<1>5. ASSUME NEW m \in Msg, Send(m) PROVE Silent(v)'
  <2>1. v \notin data'
    BY <1>5, <1>s, <1>p DEF Send, Waiting
  <2> QED
    BY <1>5, <1>q, <1>h, <2>1 DEF Send, storeVars
<1>6. ASSUME NEW m \in Msg, MarkSent(m) PROVE Silent(v)'
  <2>1. m # v
    BY <1>6, <1>p DEF MarkSent, Waiting
  <2>2. m_retryStore'[seq[v]] = m_retryStore[seq[v]]
    BY <1>0, <1>6, <1>v, <1>a, <2>1 DEF MarkSent
  <2> QED
    BY <1>6, <1>q, <1>h, <1>s, <2>2 DEF MarkSent, linkVars
<1>7. ASSUME NEW m \in Msg, Deliver(m) PROVE Silent(v)'
  BY <1>7, <1>q, <1>h, <1>s DEF Deliver, storeVars, linkVars
<1>8. ASSUME NEW K \in SUBSET Seqs, Expire(K) PROVE Silent(v)'
  BY <1>8, <1>q, <1>h, <1>s DEF Expire, storeVars, linkVars
<1>9. ASSUME NEW k \in Seqs, Timeout(k), Settled(k) PROVE Silent(v)'
  BY <1>9, <1>q, <1>h, <1>s DEF Settled, Timeout, storeVars, linkVars
<1>10. ASSUME NEW k \in Seqs, Timeout(k), Retry(k) PROVE Silent(v)'
  <2>1. m_retryStore[k].msg # v
    BY <1>10, <1>s DEF Retry, StoreOwned
  <2>2. v \notin data' /\ ~Retrying(v)'
    BY <1>10, <1>s, <2>1 DEF Retry, Timeout, Retrying, linkVars
  <2>3. m_retryStore[k] \in Entry
    BY <1>0, <1>10, EntryFields DEF Retry
  <2>4. m_retryStore'[k] = [m_retryStore[k] EXCEPT !.attempts = @ - 1]
    BY <1>0, <1>10 DEF Retry
  <2>5. m_retryStore'[k].msg # v
    BY <2>1, <2>3, <2>4 DEF Entry
  <2>6. k # seq[v] => m_retryStore'[seq[v]] = m_retryStore[seq[v]]
    BY <1>0, <1>10, <1>v DEF Retry
  <2> QED
    BY <1>v, <1>q, <2>2, <2>5, <2>6 DEF Silent, Held
<1>11. ASSUME NEW k \in Seqs, Timeout(k), Reregister(k) PROVE Silent(v)'
  <2>1. ~Retrying(v)'
    BY <1>11 DEF Reregister, Retrying
  <2> QED
    BY <1>11, <1>q, <1>s, <2>1 DEF Reregister, Timeout, storeVars, linkVars
<1>12. ASSUME NEW k \in Seqs, Timeout(k), GiveUp(k) PROVE Silent(v)'
  <2>1. m_retryStore'[seq[v]] = m_retryStore[seq[v]] \/ m_retryStore'[seq[v]] = NoEntry
    BY <1>0, <1>12, <1>v DEF GiveUp, Erase
  <2> QED
    BY <1>12, <1>q, <1>h, <1>s, <2>1 DEF GiveUp, Timeout, linkVars
<1>13. ASSUME AddForRetry PROVE Silent(v)'
  <2>1. handler \in [act : {"add", "send", "erase"}, key : Seqs, msg : Msg]
    BY <1>0, <1>13 DEF HandlerType, AddForRetry, Idle
  <2>2. handler.msg # v
    BY <1>13, <1>s DEF AddForRetry, Retrying
  <2>3. handler'.msg = handler.msg
    BY <1>13, <2>1 DEF AddForRetry
  <2>4. ~Retrying(v)'
    BY <2>2, <2>3 DEF Retrying
  <2> QED
    BY <1>13, <1>q, <1>s, <2>4 DEF AddForRetry, storeVars, linkVars
<1>14. ASSUME SendAgain PROVE Silent(v)'
  <2>1. v \notin data'
    BY <1>14, <1>s DEF SendAgain, Retrying
  <2> QED
    BY <1>14, <1>q, <1>h, <2>1 DEF SendAgain, storeVars
<1>15. ASSUME EraseUnwatched PROVE Silent(v)'
  <2>1. m_retryStore'[seq[v]] = m_retryStore[seq[v]] \/ m_retryStore'[seq[v]] = NoEntry
    BY <1>0, <1>15, <1>v DEF EraseUnwatched, Erase
  <2> QED
    BY <1>15, <1>q, <1>h, <1>s, <2>1 DEF EraseUnwatched, linkVars
<1>16. ASSUME AddAgain PROVE Silent(v)'
  BY <1>16, <1>q, <1>h, <1>s DEF AddAgain, storeVars, linkVars
<1>17. ASSUME NEW k \in Seqs, Remove(k) PROVE Silent(v)'
  BY <1>17, <1>q, <1>h, <1>s DEF Remove, storeVars, linkVars
<1>18. ASSUME Success PROVE Silent(v)'
  <2>1. m_retryStore'[seq[v]] = m_retryStore[seq[v]] \/ m_retryStore'[seq[v]] = NoEntry
    BY <1>0, <1>18, <1>v DEF Success, Erase
  <2> QED
    BY <1>18, <1>q, <1>h, <1>s, <2>1 DEF Success, linkVars
<1>19. CASE UNCHANGED vars
  BY <1>19, <1>q, <1>h, <1>s DEF vars, storeVars, linkVars
<1> QED
  BY <1>1, <1>2, <1>3, <1>4, <1>5, <1>6, <1>7, <1>8, <1>9, <1>10, <1>11, <1>12, <1>13, <1>14, <1>15, <1>16, <1>17, <1>18, <1>19
    DEF Next, Sender, Handler, Timeout

\* Before it has a number, a message is neither stored nor retried nor sent.
LEMMA IdleSilent ==
  ASSUME TypeOK, Numbered, HandlerOwned, Sources, NEW v \in Msg, pc[v] = "idle"
  PROVE  v \notin data /\ ~Retrying(v) /\ seq[v] \notin Seqs
<1>1. seq[v] \notin Seqs
  BY DEF Numbered
<1>2. ~Retrying(v)
  <2> SUFFICES ASSUME Retrying(v) PROVE FALSE
    OBVIOUS
  <2>1. handler # Idle /\ seq[v] = handler.key
    BY DEF Retrying, HandlerOwned, Idle
  <2>2. handler.key \in Seqs
    BY <2>1, TypeGroups, HandlerFields
  <2> QED
    BY <1>1, <2>1, <2>2
<1>3. v \notin data
  BY DEF Sources
<1> QED
  BY <1>1, <1>2, <1>3

\* The number Dispatcher gives it does not change that.
LEMMA FirstSilent ==
  ASSUME TypeOK, Numbered, StoreOwned, HandlerOwned, Sources, [Next]_vars, NEW v \in Msg,
         pc[v] = "idle", pc'[v] \in Waiting
  PROVE  Silent(v)'
<1>0. pc \in [Msg -> {"idle", "numbered", "stored", "added", "sent", "refused", "failed",
                    "done", "error"}]
  BY TypeGroups DEF PlainTypes
<1>1. v \notin data /\ ~Retrying(v) /\ seq[v] \notin Seqs
  BY IdleSilent
<1>2. Dispatch(v)
  <2>1. pc'[v] # pc[v]
    BY DEF Waiting
  <2>2. ~Sender(v)
    BY DEF Sender, Store, Register, Unstore, Send, MarkSent
  <2>3. \/ pc' = pc
        \/ \E m \in Msg : Dispatch(m) \/ Sender(m)
    BY DEF Next, Handler, Timeout, vars, Deliver, Expire, AddForRetry, SendAgain,
           EraseUnwatched, AddAgain, Remove, Success
  <2>4. ASSUME NEW m \in Msg, m # v, Dispatch(m) \/ Sender(m) PROVE pc'[v] = pc[v]
    BY <1>0, <2>4 DEF Sender, Dispatch, Store, Register, Unstore, Send, MarkSent
  <2> QED
    BY <2>1, <2>2, <2>3, <2>4
<1>3. m_retryStore' = m_retryStore /\ handler' = handler /\ data' = data
  BY <1>2 DEF Dispatch, storeVars, linkVars
<1>4. \A k \in Seqs : m_retryStore[k] # NoEntry => m_retryStore[k].msg # v
  BY DEF StoreOwned, Seen
<1> QED
  BY <1>1, <1>3, <1>4 DEF Silent, Held, Retrying

\* So a message with a number of its own is silent as long as it waits.
LEMMA UnsentNext ==
  TypeOK /\ Numbered /\ StoreOwned /\ HandlerOwned /\ Sources /\ Unsent /\ [Next]_vars
    => Unsent'
<1> SUFFICES ASSUME TypeOK, Numbered, StoreOwned, HandlerOwned, Sources, Unsent, [Next]_vars,
                    NEW v \in Msg, pc'[v] \in Waiting, Alone(v)'
             PROVE  Silent(v)'
  BY DEF Unsent
<1>1. CASE pc[v] = "idle"
  BY <1>1, FirstSilent
<1>2. CASE pc[v] # "idle"
  <2>1. pc[v] \in Waiting /\ Alone(v)
    BY <1>2, WaitingBack, AloneBack
  <2>2. Silent(v)
    BY <2>1 DEF Unsent
  <2> QED
    BY <1>2, <2>1, <2>2, SilentStep
<1> QED
  BY <1>1, <1>2

(***************************************************************************)
(* When SendWithRetry returns an error no copy of the message goes out,    *)
(* then or later, whatever timeouts OnStatusChanged handled meanwhile,     *)
(* unless a reused number made RetryMonitor take it for another message.   *)
(***************************************************************************)
THEOREM ErrorsAreUnsent == Spec => []ErrorMeansUnsent
<1>1. Init => Unsent
  BY DEF Init, Unsent, Waiting
<1>2. Inv /\ Unsent /\ [Next]_vars => Unsent'
  BY UnsentNext DEF Inv
<1>3. Unsent => ErrorMeansUnsent
  BY DEF Unsent, Waiting, Alone, Silent, ErrorMeansUnsent
<1> QED
  BY <1>1, <1>2, <1>3, Invariance, PTL DEF Spec

-----------------------------------------------------------------------------
(***************************************************************************)
(* Every message has one outcome.  Once it is stored, either its own entry *)
(* is still in m_retryStore or the reason for which it left is known; and  *)
(* since it is never stored again, the reason is never replaced.           *)
(***************************************************************************)
Account == \A m \in Msg : Seen(m) => (fate[m] = "open" <=> Held(m))

\* Messages and numbers stay as they are, and so do the entries but for what is
\* not asked here.
Untouched(v) ==
  /\ Seen(v)' <=> Seen(v)
  /\ Seen(v) => Held(v)' <=> Held(v)
  /\ fate'[v] = fate[v]

\* m_retryStore.erase settles the message of the entry and no other.
LEMMA EraseAccount ==
  ASSUME TypeOK, StoreOwned, Account, NEW k \in Seqs, NEW r, r # "open",
         r \in {"rejected", "exhausted", "dropped", "acknowledged"}, Erase(k, r),
         UNCHANGED seq, NEW v \in Msg, Seen(v)
  PROVE  fate'[v] = "open" <=> Held(v)'
<1>0. StoreType /\ fate \in [Msg -> {"open", "overwritten", "rejected", "exhausted",
                                     "dropped", "acknowledged"}]
  BY TypeGroups DEF PlainTypes
<1>1. fate[v] = "open" <=> Held(v)
  BY DEF Account
<1>2. CASE seq[v] = k
  <2>1. ~Held(v)'
    BY <1>0, <1>2 DEF Erase, Held, StoreType
  <2>2. fate'[v] # "open"
    <3>1. CASE Held(v)
      <4>1. m_retryStore[k] # NoEntry /\ m_retryStore[k].msg = v
        BY <1>2, <3>1 DEF Held
      <4>2. QED
        BY <1>0, <4>1 DEF Erase
    <3>2. CASE ~Held(v)
      <4>1. fate[v] # "open"
        BY <1>1, <3>2
      <4>2. QED
        BY <1>0, <4>1 DEF Erase
    <3>3. QED
      BY <3>1, <3>2
  <2>3. QED
    BY <2>1, <2>2
<1>3. CASE seq[v] # k
  <2>1. Held(v)' <=> Held(v)
    BY <1>0, <1>3 DEF Erase, Held, StoreType
  <2>2. fate'[v] = fate[v]
    <3>1. m_retryStore[k] # NoEntry => m_retryStore[k].msg # v
      BY <1>3 DEF StoreOwned
    <3>2. QED
      BY <1>0, <3>1 DEF Erase
  <2>3. QED
    BY <1>1, <2>1, <2>2
<1>4. QED
  BY <1>2, <1>3

\* Storing a message opens its account and may close that of another.
LEMMA StoreAccount ==
  ASSUME TypeOK, Numbered, StoreOwned, FateSeen, Account, NEW m \in Msg, Store(m),
         NEW v \in Msg, Seen(v)'
  PROVE  fate'[v] = "open" <=> Held(v)'
<1>0. StoreType /\ fate \in [Msg -> {"open", "overwritten", "rejected", "exhausted",
                                     "dropped", "acknowledged"}]
               /\ pc \in [Msg -> {"idle", "numbered", "stored", "added", "sent", "refused",
                                  "failed", "done", "error"}]
  BY TypeGroups DEF PlainTypes
<1>1. /\ pc[m] = "numbered" /\ seq[m] \in Seqs /\ UNCHANGED seq
      /\ m_retryStore'[seq[m]] = [msg |-> m, attempts |-> MaxRetries, isSent |-> FALSE]
      /\ \A k \in Seqs \ {seq[m]} : m_retryStore'[k] = m_retryStore[k]
  BY <1>0 DEF Store, Numbered, StoreType
<1>2. m_retryStore'[seq[m]] # NoEntry /\ m_retryStore'[seq[m]].msg = m
  <2>1. [msg |-> m, attempts |-> MaxRetries, isSent |-> FALSE]
          \in [msg : Msg, attempts : 0 .. MaxRetries, isSent : BOOLEAN]
    BY ReliableAssumption
  <2>2. [msg |-> m, attempts |-> MaxRetries, isSent |-> FALSE] # NoEntry
    BY <2>1, ReliableAssumption
  <2>3. QED
    BY <1>1, <2>2
<1>3. CASE v = m
  <2>1. fate[m] = "open"
    BY <1>1 DEF FateSeen, Seen
  <2>2. m_retryStore[seq[m]] # NoEntry => m_retryStore[seq[m]].msg # m
    BY <1>1 DEF StoreOwned, Seen
  <2>3. fate'[m] = "open"
    BY <1>0, <2>1, <2>2 DEF Store
  <2>4. QED
    BY <1>1, <1>2, <1>3, <2>3 DEF Held
<1>4. CASE v # m
  <2>1. Seen(v) /\ (fate[v] = "open" <=> Held(v))
    BY <1>0, <1>4 DEF Store, Seen, Account
  <2>2. CASE seq[v] = seq[m]
    <3>1. ~Held(v)'
      BY <1>1, <1>2, <1>4, <2>2 DEF Held
    <3>2. CASE Held(v)
      <4>1. m_retryStore[seq[m]] # NoEntry /\ m_retryStore[seq[m]].msg = v
        BY <2>2, <3>2 DEF Held
      <4>2. fate'[v] = "overwritten"
        BY <1>0, <4>1 DEF Store
      <4>3. QED
        BY <3>1, <4>2
    <3>3. CASE ~Held(v)
      <4>1. fate[v] # "open"
        BY <2>1, <3>3
      <4>2. fate'[v] # "open"
        BY <1>0, <4>1 DEF Store
      <4>3. QED
        BY <3>1, <4>2
    <3>4. QED
      BY <3>2, <3>3
  <2>3. CASE seq[v] # seq[m]
    <3>1. Held(v)' <=> Held(v)
      BY <1>1, <2>3 DEF Held
    <3>2. m_retryStore[seq[m]] # NoEntry => m_retryStore[seq[m]].msg # v
      BY <1>1, <2>3 DEF StoreOwned
    <3>3. fate'[v] = fate[v]
      BY <1>0, <3>2 DEF Store
    <3>4. QED
      BY <2>1, <3>1, <3>3
  <2>4. QED
    BY <2>2, <2>3
<1>5. QED
  BY <1>3, <1>4

\* A changed entry is still one of the same message.
LEMMA UpdateAccount ==
  ASSUME TypeOK, NEW k \in Seqs, m_retryStore[k] # NoEntry,
         NEW e \in Entry, e.msg = m_retryStore[k].msg,
         m_retryStore' = [m_retryStore EXCEPT ![k] = e],
         UNCHANGED <<fate, seq>>, NEW v \in Msg, Seen(v)' <=> Seen(v)
  PROVE  Untouched(v)
<1>1. StoreType /\ e # NoEntry
  BY TypeGroups, ReliableAssumption DEF Entry
<1>2. Held(v)' <=> Held(v)
  BY <1>1 DEF Held, StoreType
<1>3. QED
  BY <1>2 DEF Untouched

LEMMA AccountNext ==
  TypeOK /\ Numbered /\ StoreOwned /\ FateSeen /\ Account /\ [Next]_vars => Account'
<1> SUFFICES ASSUME TypeOK, Numbered, StoreOwned, FateSeen, Account, [Next]_vars,
                    NEW v \in Msg, Seen(v)'
             PROVE  fate'[v] = "open" <=> Held(v)'
  BY DEF Account
<1>0. pc \in [Msg -> {"idle", "numbered", "stored", "added", "sent", "refused",
                      "failed", "done", "error"}]
  BY TypeGroups DEF PlainTypes
<1>a. ASSUME Untouched(v) PROVE fate'[v] = "open" <=> Held(v)'
  BY <1>a DEF Untouched, Account
<1>b. ASSUME UNCHANGED <<m_retryStore, fate, seq>>, Seen(v)' <=> Seen(v)
      PROVE  fate'[v] = "open" <=> Held(v)'
  BY <1>b DEF Held, Account
<1>1. ASSUME NEW m \in Msg, Dispatch(m) PROVE fate'[v] = "open" <=> Held(v)'
  <2>1. v # m
    BY <1>0, <1>1 DEF Dispatch, Seen
  <2>2. seq'[v] = seq[v] /\ Seen(v) /\ UNCHANGED <<m_retryStore, fate>>
    BY <1>0, <1>1, <2>1, TypeGroups DEF Dispatch, Seen, storeVars, PlainTypes
  <2>3. Held(v)' <=> Held(v)
    BY <2>2 DEF Held
  <2>4. QED
    BY <2>2, <2>3 DEF Account
<1>2. ASSUME NEW m \in Msg, Store(m) PROVE fate'[v] = "open" <=> Held(v)'
  BY <1>2, StoreAccount
<1>3. ASSUME NEW m \in Msg, Register(m) \/ Send(m)
      PROVE  fate'[v] = "open" <=> Held(v)'
  BY <1>0, <1>3, <1>b DEF Register, Send, Seen, storeVars
<1>4. ASSUME NEW m \in Msg, Unstore(m) PROVE fate'[v] = "open" <=> Held(v)'
  <2>1. seq[m] \in Seqs /\ Seen(v) /\ UNCHANGED seq /\ Erase(seq[m], "rejected")
    BY <1>0, <1>4 DEF Unstore, Seen, Numbered
  <2>2. QED
    BY <2>1, EraseAccount
<1>5. ASSUME NEW m \in Msg, MarkSent(m) PROVE fate'[v] = "open" <=> Held(v)'
  <2> DEFINE k == seq[m]
  <2>1. k \in Seqs /\ UNCHANGED <<fate, seq>> /\ (Seen(v)' <=> Seen(v))
    BY <1>0, <1>5 DEF MarkSent, Seen, Numbered
  <2>2. CASE m_retryStore[k] = NoEntry
    BY <1>5, <1>b, <2>1, <2>2 DEF MarkSent
  <2>3. CASE m_retryStore[k] # NoEntry
    <3> DEFINE e == [m_retryStore[k] EXCEPT !.isSent = TRUE]
    <3>1. e \in Entry /\ e.msg = m_retryStore[k].msg
      BY <2>1, <2>3, TypeGroups, EntryFields DEF Entry
    <3>2. m_retryStore' = [m_retryStore EXCEPT ![k] = e]
      BY <1>5, <2>3 DEF MarkSent
    <3>3. Untouched(v)
      BY <2>1, <2>3, <3>1, <3>2, UpdateAccount
    <3>4. QED
      BY <1>a, <3>3
  <2>4. QED
    BY <2>2, <2>3
<1>6. ASSUME NEW k \in Seqs, Timeout(k), Retry(k) PROVE fate'[v] = "open" <=> Held(v)'
  <2> DEFINE e == [m_retryStore[k] EXCEPT !.attempts = @ - 1]
  <2>1. m_retryStore[k] # NoEntry /\ UNCHANGED <<fate, seq>> /\ (Seen(v)' <=> Seen(v))
    BY <1>6 DEF Timeout, Retry, Seen
  <2>2. e \in Entry /\ e.msg = m_retryStore[k].msg
    <3>1. /\ m_retryStore[k] \in Entry
          /\ m_retryStore[k].attempts > 0 /\ m_retryStore[k].attempts \in 0 .. MaxRetries
      BY <1>6, <2>1, TypeGroups, EntryFields DEF Retry
    <3>2. m_retryStore[k].attempts - 1 \in 0 .. MaxRetries
      BY <3>1, ReliableAssumption
    <3>3. QED
      BY <3>1, <3>2 DEF Entry
  <2>3. m_retryStore' = [m_retryStore EXCEPT ![k] = e]
    BY <1>6 DEF Retry
  <2>4. Untouched(v)
    BY <2>1, <2>2, <2>3, UpdateAccount
  <2>5. QED
    BY <1>a, <2>4
<1>7. ASSUME NEW k \in Seqs, Timeout(k), Settled(k) \/ Reregister(k)
      PROVE  fate'[v] = "open" <=> Held(v)'
  BY <1>7, <1>b DEF Timeout, Settled, Reregister, Seen, storeVars
<1>8. ASSUME NEW k \in Seqs, Timeout(k), GiveUp(k) PROVE fate'[v] = "open" <=> Held(v)'
  <2>1. Seen(v) /\ UNCHANGED seq /\ Erase(k, "exhausted")
    BY <1>8 DEF Timeout, GiveUp, Seen
  <2>2. QED
    BY <2>1, EraseAccount
<1>9. ASSUME EraseUnwatched PROVE fate'[v] = "open" <=> Held(v)'
  <2>1. handler.key \in Seqs
    BY <1>9, TypeGroups, HandlerFields DEF EraseUnwatched, Idle
  <2>2. Seen(v) /\ UNCHANGED seq /\ Erase(handler.key, "dropped")
    BY <1>9 DEF EraseUnwatched, Seen
  <2>3. QED
    BY <2>1, <2>2, EraseAccount
<1>10. ASSUME Success PROVE fate'[v] = "open" <=> Held(v)'
  <2>1. arrived \in Seqs
    BY <1>10, TypeGroups DEF Success, PlainTypes
  <2>2. Seen(v) /\ UNCHANGED seq /\ Erase(arrived, "acknowledged")
    BY <1>10 DEF Success, Seen
  <2>3. QED
    BY <2>1, <2>2, EraseAccount
<1>11. CASE UNCHANGED <<m_retryStore, fate, seq, pc>>
  BY <1>11, <1>b DEF Seen
<1>12. QED
  BY <1>1, <1>2, <1>3, <1>4, <1>5, <1>6, <1>7, <1>8, <1>9, <1>10, <1>11
     DEF Next, Sender, Handler, Timeout, vars, storeVars, Deliver, Expire, AddForRetry,
         SendAgain, AddAgain, Remove

LEMMA FateKept ==
  ASSUME TypeOK, Numbered, StoreOwned, FateSeen, Account, [Next]_vars,
         NEW m \in Msg, fate[m] # "open"
  PROVE  fate'[m] = fate[m]
<1>1. ~Held(m)
  BY DEF Account, FateSeen
<1>2. \A k \in Seqs : m_retryStore[k] # NoEntry => m_retryStore[k].msg # m
  BY <1>1 DEF StoreOwned, Held
<1>3. QED
  BY <1>2, FateStep DEF FateFrom

(***************************************************************************)
(* RetryMonitor.h: whichever of SendWithRetry, a timeout, an               *)
(* acknowledgement or another packet with the same number gets there       *)
(* first, a stored message is settled exactly once: it is in m_retryStore  *)
(* until it leaves, for one reason, and it never returns.                  *)
(***************************************************************************)
THEOREM OneOutcome ==
  Spec => /\ []Account
          /\ [][\A m \in Msg : fate[m] # "open" => fate'[m] = fate[m]]_vars
<1>1. Init => Account
  BY DEF Init, Account, Seen
<1>2. Inv /\ Account /\ [Next]_vars => Account'
  BY AccountNext DEF Inv
<1>3. Inv /\ Account /\ [Next]_vars =>
        [\A m \in Msg : fate[m] # "open" => fate'[m] = fate[m]]_vars
  BY FateKept DEF Inv
<1>4. QED
  BY <1>1, <1>2, <1>3, Invariance, PTL DEF Spec

-----------------------------------------------------------------------------
(***************************************************************************)
(* The sequence numbers suffice.  Until Dispatcher has numbered more       *)
(* messages than there are numbers, no two messages share one, and the     *)
(* exceptions above for shared numbers fall away.                          *)
(***************************************************************************)
HaveNumber == {m \in Msg : pc[m] # "idle"}
FirstCycle == Cardinality(HaveNumber) <= SeqMod

CountInv ==
  /\ IsFiniteSet(HaveNumber)
  /\ Cardinality(HaveNumber) < SeqMod => m_seqNum = Cardinality(HaveNumber)
  /\ FirstCycle =>
       /\ \A m \in HaveNumber : seq[m] < Cardinality(HaveNumber)
       /\ \A m, n \in HaveNumber : seq[m] = seq[n] => m = n

LEMMA NextModulo ==
  ASSUME NEW n \in Nat, n + 1 < SeqMod
  PROVE  (n + 1) % SeqMod = n + 1
  BY ReliableAssumption

LEMMA CountNext ==
  ASSUME TypeOK, Numbered, CountInv, [Next]_vars
  PROVE  CountInv'
<1>0. /\ pc \in [Msg -> {"idle", "numbered", "stored", "added", "sent", "refused",
                         "failed", "done", "error"}]
      /\ seq \in [Msg -> Seqs \cup {NoKey}]
  BY TypeGroups DEF PlainTypes
<1>1. ASSUME NEW m \in Msg, Dispatch(m)
      PROVE  CountInv'
  <2> DEFINE c == Cardinality(HaveNumber)
  <2>1. HaveNumber' = HaveNumber \cup {m} /\ m \notin HaveNumber
    BY <1>0, <1>1 DEF HaveNumber, Dispatch
  <2>2. c \in Nat /\ IsFiniteSet(HaveNumber') /\ Cardinality(HaveNumber') = c + 1
    BY <2>1, FS_AddElement, FS_CardinalityType DEF CountInv
  <2>3. /\ m_seqNum' = (m_seqNum + 1) % SeqMod
        /\ seq'[m] = m_seqNum
        /\ \A n \in HaveNumber : seq'[n] = seq[n]
    BY <1>0, <1>1, <2>1 DEF Dispatch, HaveNumber
  <2>4. Cardinality(HaveNumber') < SeqMod => m_seqNum' = Cardinality(HaveNumber')
    BY <2>2, <2>3, NextModulo, ReliableAssumption DEF CountInv
  <2>5. ASSUME FirstCycle'
        PROVE  /\ \A n \in HaveNumber' : seq'[n] < Cardinality(HaveNumber')
               /\ \A a, b \in HaveNumber' : seq'[a] = seq'[b] => a = b
    <3>1. c < SeqMod
      BY <2>2, <2>5, ReliableAssumption DEF FirstCycle
    <3>2. seq'[m] = c /\ \A n \in HaveNumber : seq'[n] < c /\ seq'[n] \in Nat
      BY <2>2, <2>3, <3>1, ReliableAssumption
         DEF CountInv, FirstCycle, Numbered, HaveNumber, Seqs
    <3>3. \A a, b \in HaveNumber : seq'[a] = seq'[b] => a = b
      BY <2>2, <2>3, <3>1, ReliableAssumption DEF CountInv, FirstCycle
    <3>4. \A n \in HaveNumber : seq'[n] # seq'[m]
      BY <2>2, <3>2
    <3>5. QED
      BY <2>1, <2>2, <3>2, <3>3, <3>4
  <2>6. QED
    BY <2>2, <2>4, <2>5 DEF CountInv
<1>2. CASE \A m \in Msg : ~Dispatch(m)
  <2>1. UNCHANGED <<m_seqNum, seq>>
    BY <1>2 DEF Next, Sender, Handler, Timeout, vars, Store, Register, Unstore, Send,
           MarkSent, Deliver, Expire, AddForRetry, SendAgain, EraseUnwatched, AddAgain,
           Remove, Success
  <2>2. \A m \in Msg : pc'[m] = "idle" => pc[m] = "idle"
    BY ForwardStep DEF Forward
  <2>3. \A m \in Msg : pc[m] = "idle" => pc'[m] = "idle"
    BY <2>1, NumberedNext DEF Numbered
  <2>4. HaveNumber' = HaveNumber
    BY <2>2, <2>3 DEF HaveNumber
  <2>5. QED
    BY <2>1, <2>4 DEF CountInv, FirstCycle
<1>3. QED
  BY <1>1, <1>2

\* A message is overwritten by another one with its number.
Overwriting == \A m \in Msg : fate[m] = "overwritten" => \E n \in Msg \ {m} : seq[n] = seq[m]

LEMMA OverwritingNext ==
  TypeOK /\ Numbered /\ StoreOwned /\ FateSeen /\ Overwriting /\ [Next]_vars => Overwriting'
<1> SUFFICES ASSUME TypeOK, Numbered, StoreOwned, FateSeen, Overwriting, [Next]_vars,
                    NEW m \in Msg, fate'[m] = "overwritten"
             PROVE  \E n \in Msg \ {m} : seq'[n] = seq'[m]
  BY DEF Overwriting
<1>0. fate \in [Msg -> {"open", "overwritten", "rejected", "exhausted", "dropped",
                     "acknowledged"}]
  BY TypeGroups DEF PlainTypes
<1>1. CASE fate[m] = "overwritten"
  <2>1. PICK n \in Msg \ {m} : seq[n] = seq[m]
    BY <1>1 DEF Overwriting
  <2>2. pc[m] # "idle" /\ pc[n] # "idle"
    BY <1>1, <2>1 DEF FateSeen, Seen, Numbered
  <2>3. QED
    BY <2>1, <2>2, NumberKept
<1>2. CASE fate[m] # "overwritten"
  <2>1. PICK n \in Msg : Store(n)
    <3>1. \A k \in Seqs, r \in {"rejected", "exhausted", "dropped", "acknowledged"} :
            ~Erase(k, r)
      BY <1>0, <1>2 DEF Erase
    <3>2. \/ \E n \in Msg : seq[n] \in Seqs /\ Unstore(n)
          \/ \E k \in Seqs : GiveUp(k)
          \/ EraseUnwatched /\ handler.key \in Seqs
          \/ Success /\ arrived \in Seqs
          \/ \E n \in Msg : Store(n)
          \/ UNCHANGED fate
      <4>1. ASSUME NEW n \in Msg, Unstore(n) PROVE seq[n] \in Seqs
        BY <4>1 DEF Unstore, Numbered
      <4>2. EraseUnwatched => handler.key \in Seqs
        BY TypeGroups, HandlerFields DEF EraseUnwatched, Idle
      <4>3. Success => arrived \in Seqs
        BY TypeGroups DEF Success, PlainTypes
      <4>4. QED
        BY <4>1, <4>2, <4>3
           DEF Next, Sender, Handler, Timeout, vars, storeVars, Dispatch, Register, Send,
               MarkSent, Deliver, Expire, Settled, Retry, Reregister, AddForRetry,
               SendAgain, AddAgain, Remove
    <3>3. QED
      BY <1>2, <3>1, <3>2 DEF Unstore, GiveUp, EraseUnwatched, Success
  <2>2. /\ pc[n] = "numbered" /\ seq[n] \in Seqs /\ UNCHANGED seq
        /\ m_retryStore[seq[n]] # NoEntry /\ m_retryStore[seq[n]].msg = m
    BY <1>0, <1>2, <2>1 DEF Store, Numbered
  <2>3. seq[m] = seq[n] /\ Seen(m) /\ n # m
    BY <2>2 DEF StoreOwned, Seen
  <2>4. QED
    BY <2>2, <2>3
<1>3. QED
  BY <1>1, <1>2

\* In the first cycle a number belongs to one message.
LEMMA OwnNumber ==
  ASSUME Numbered, CountInv, FirstCycle, NEW m \in Msg, pc[m] # "idle"
  PROVE  ~ \E n \in Msg \ {m} : seq[n] = seq[m]
<1> SUFFICES ASSUME NEW n \in Msg \ {m}, seq[n] = seq[m]
             PROVE  FALSE
  OBVIOUS
<1>1. m \in HaveNumber /\ n \in HaveNumber
  BY DEF Numbered, HaveNumber
<1>2. QED
  BY <1>1 DEF CountInv

-----------------------------------------------------------------------------
(***************************************************************************)
(* A first Send that has succeeded is the beginning of everything that     *)
(* follows it: what is marked as sent has gone out under its number, and   *)
(* only such an entry is retried, or dropped when it cannot be watched     *)
(* again.  OutOn(k): a copy of some message with number k has gone out.    *)
(***************************************************************************)
OutOn(k) == \E n \in data : seq[n] = k
SentOut == \A m \in Msg : pc[m] \in {"sent", "done"} => m \in data
MarkedOut == \A k \in Seqs : m_retryStore[k] # NoEntry /\ m_retryStore[k].isSent => OutOn(k)
RetryOf(h) == h.act \in {"add", "send", "erase"}
SeenOut(h) == Seen(h.msg) /\ OutOn(h.key)
HandlerOut == RetryOf(handler) => SeenOut(handler)
OutInv == SentOut /\ MarkedOut /\ HandlerOut

\* What has gone out stays out, under the same number.
LEMMA OutKept ==
  ASSUME TypeOK, Numbered, Sources, [Next]_vars
  PROVE  data \subseteq data' /\ \A k \in Seqs : OutOn(k) => OutOn(k)'
<1>1. data \subseteq data'
  BY DEF Next, Sender, Handler, Timeout, vars, linkVars, Dispatch, Store, Register, Unstore,
         Send, MarkSent, Deliver, Expire, AddForRetry, SendAgain, EraseUnwatched, AddAgain,
         Remove, Success
<1>2. \A n \in data : seq'[n] = seq[n]
  <2> SUFFICES ASSUME NEW n \in data
               PROVE  seq'[n] = seq[n]
    OBVIOUS
  <2>1. n \in Msg /\ pc[n] # "idle"
    BY TypeGroups DEF PlainTypes, Sources
  <2>2. QED
    BY <2>1, NumberKept
<1>3. QED
  BY <1>1, <1>2 DEF OutOn

\* SendWithRetry goes past its Send only when that has succeeded.
LEMMA SentOutNext ==
  ASSUME TypeOK, Numbered, Sources, SentOut, [Next]_vars
  PROVE  SentOut'
<1> SUFFICES ASSUME NEW v \in Msg, pc'[v] \in {"sent", "done"}
             PROVE  v \in data'
  BY DEF SentOut
<1>0. pc \in [Msg -> {"idle", "numbered", "stored", "added", "sent", "refused", "failed",
                    "done", "error"}]
  BY TypeGroups DEF PlainTypes
<1>1. CASE pc[v] \in {"sent", "done"}
  BY <1>1, OutKept DEF SentOut
<1>2. CASE pc[v] \notin {"sent", "done"}
  <2>1. PICK m \in Msg : Dispatch(m) \/ Sender(m)
    BY <1>2 DEF Next, Handler, Timeout, vars, Deliver, Expire, AddForRetry, SendAgain,
                EraseUnwatched, AddAgain, Remove, Success
  <2>2. ~Dispatch(m) /\ ~Store(m) /\ ~Register(m) /\ ~Unstore(m)
    BY <1>0, <1>2 DEF Dispatch, Store, Register, Unstore
  <2>3. CASE Send(m)
    BY <1>0, <1>2, <2>3 DEF Send
  <2>4. CASE MarkSent(m)
    BY <1>0, <1>2, <2>4 DEF MarkSent
  <2>5. QED
    BY <2>1, <2>2, <2>3, <2>4 DEF Sender
<1>3. QED
  BY <1>1, <1>2

\* An entry is marked when the Send of a message with its number has succeeded.
LEMMA MarkedOutNext ==
  ASSUME TypeOK, Numbered, Sources, SentOut, MarkedOut, [Next]_vars
  PROVE  MarkedOut'
<1> SUFFICES ASSUME NEW k \in Seqs, m_retryStore'[k] # NoEntry, m_retryStore'[k].isSent
             PROVE  OutOn(k)'
  BY DEF MarkedOut
<1>0. /\ m_retryStore \in [Seqs -> Entry \cup {NoEntry}]
      /\ \A m \in Msg : pc[m] # "idle" => seq[m] \in Seqs
  BY TypeGroups DEF StoreType, Numbered
<1>a. ASSUME m_retryStore'[k] = m_retryStore[k] PROVE OutOn(k)'
  BY <1>a, OutKept DEF MarkedOut
<1>1. ASSUME NEW m \in Msg, Store(m) PROVE OutOn(k)'
  <2>1. k # seq[m]
    BY <1>0, <1>1 DEF Store
  <2>2. QED
    BY <1>0, <1>1, <1>a, <2>1 DEF Store
<1>2. ASSUME NEW m \in Msg, MarkSent(m) PROVE OutOn(k)'
  <2>1. CASE k = seq[m]
    BY <1>2, <2>1, OutKept DEF MarkSent, SentOut, OutOn
  <2>2. CASE k # seq[m]
    BY <1>0, <1>2, <1>a, <2>2 DEF MarkSent
  <2>3. QED
    BY <2>1, <2>2
<1>3. ASSUME NEW j \in Seqs, Timeout(j), Retry(j) PROVE OutOn(k)'
  <2>1. CASE j = k
    BY <1>3, <2>1, OutKept DEF Retry, MarkedOut
  <2>2. CASE j # k
    BY <1>0, <1>3, <1>a, <2>2 DEF Retry
  <2>3. QED
    BY <2>1, <2>2
<1>4. ASSUME NEW j, NEW r, Erase(j, r) PROVE OutOn(k)'
  BY <1>0, <1>4, <1>a DEF Erase
<1>5. CASE UNCHANGED m_retryStore
  BY <1>5, <1>a
<1>6. QED
  BY <1>1, <1>2, <1>3, <1>4, <1>5
     DEF Next, Sender, Handler, Timeout, vars, storeVars, Dispatch, Register, Unstore, Send,
         Deliver, Expire, Settled, Reregister, GiveUp, AddForRetry, SendAgain,
         EraseUnwatched, AddAgain, Remove, Success

\* A retry begins with an entry that is marked.
LEMMA HandlerOutNext ==
  ASSUME TypeOK, Numbered, StoreOwned, Sources, MarkedOut, HandlerOut, [Next]_vars
  PROVE  HandlerOut'
<1> SUFFICES ASSUME RetryOf(handler')
             PROVE  HandlerOut'
  BY DEF HandlerOut
<1>0. HandlerType /\ StoreType
  BY TypeGroups
<1>a. ASSUME RetryOf(handler), handler'.msg = handler.msg, handler'.key = handler.key
      PROVE  HandlerOut'
  <2>1. handler.msg \in Msg /\ handler.key \in Seqs
    BY <1>0, <1>a, HandlerFields DEF RetryOf, Idle
  <2>2. PICK m \in Msg, k \in Seqs : m = handler.msg /\ k = handler.key
    BY <2>1
  <2>3. Seen(m) /\ OutOn(k)
    BY <1>a, <2>2 DEF HandlerOut, SeenOut
  <2>4. Seen(m)' /\ OutOn(k)'
    BY <2>3, ForwardStep, OutKept DEF Forward
  <2>5. QED
    BY <1>a, <2>2, <2>4 DEF HandlerOut, SeenOut, Seen, OutOn
<1>1. ASSUME NEW k \in Seqs, Timeout(k), Retry(k)
      PROVE  HandlerOut'
  <2>1. handler'.msg = m_retryStore[k].msg /\ handler'.key = k
    BY <1>1 DEF Retry
  <2>2. m_retryStore[k].msg \in Msg /\ Seen(m_retryStore[k].msg) /\ OutOn(k)
    BY <1>0, <1>1, EntryFields DEF Retry, StoreOwned, MarkedOut
  <2>3. UNCHANGED <<pc, seq, data>>
    BY <1>1 DEF Timeout, linkVars
  <2>4. QED
    BY <2>1, <2>2, <2>3 DEF HandlerOut, SeenOut, Seen, OutOn
<1>2. CASE AddForRetry
  <2>1. handler \in [act : {"add", "send", "erase"}, key : Seqs, msg : Msg]
    BY <1>0, <1>2 DEF HandlerType, AddForRetry, Idle
  <2>2. handler'.msg = handler.msg /\ handler'.key = handler.key /\ RetryOf(handler)
    BY <1>2, <2>1 DEF AddForRetry, RetryOf
  <2>3. QED
    BY <1>a, <2>2
<1>3. CASE handler' = handler
  BY <1>3, <1>a
<1>4. handler' # Idle /\ \A k \in Seqs : handler' # [act |-> "reregister", key |-> k]
  BY DEF RetryOf, Idle
<1>5. QED
  BY <1>1, <1>2, <1>3, <1>4
     DEF Next, Sender, Handler, Timeout, vars, Dispatch, Store, Register, Unstore, Send,
         MarkSent, Deliver, Expire, Settled, Reregister, GiveUp, SendAgain,
         EraseUnwatched, AddAgain, Remove, Success

LEMMA OutInvNext == Inv /\ OutInv /\ [Next]_vars => OutInv'
  BY SentOutNext, MarkedOutNext, HandlerOutNext DEF Inv, OutInv

-----------------------------------------------------------------------------
\* What is dropped, because it cannot be watched again, has gone out before under
\* its number.
DropSent == \A m \in Msg : fate[m] = "dropped" => OutOn(seq[m])

LEMMA DropSentNext ==
  ASSUME TypeOK, Numbered, Sources, StoreOwned, FateSeen, HandlerOut, DropSent, [Next]_vars
  PROVE  DropSent'
<1> SUFFICES ASSUME NEW m \in Msg, fate'[m] = "dropped"
             PROVE  OutOn(seq[m])'
  BY DEF DropSent
<1>0. fate \in [Msg -> {"open", "overwritten", "rejected", "exhausted", "dropped",
                     "acknowledged"}]
  BY TypeGroups DEF PlainTypes
<1>1. CASE fate[m] = "dropped"
  <2>1. Seen(m) /\ OutOn(seq[m])
    BY <1>1 DEF FateSeen, DropSent
  <2>2. seq'[m] = seq[m] /\ seq[m] \in Seqs
    BY <2>1, NumberKept DEF Seen, Numbered
  <2>3. PICK k \in Seqs : k = seq[m]
    BY <2>2
  <2>4. OutOn(k)'
    BY <2>1, <2>3, OutKept
  <2>5. QED
    BY <2>2, <2>3, <2>4 DEF OutOn
<1>2. CASE fate[m] # "dropped"
  <2>1. ASSUME NEW k, NEW r \in {"rejected", "exhausted", "acknowledged"}, Erase(k, r)
        PROVE  FALSE
    BY <1>0, <1>2, <2>1 DEF Erase
  <2>2. ASSUME NEW n \in Msg, Store(n)
        PROVE  FALSE
    BY <1>0, <1>2, <2>2 DEF Store
  <2>3. EraseUnwatched
    BY <1>2, <2>1, <2>2
       DEF Next, Sender, Handler, Timeout, vars, storeVars, Dispatch, Register, Unstore, Send,
           MarkSent, Deliver, Expire, Settled, Retry, Reregister, GiveUp, AddForRetry,
           SendAgain, AddAgain, Remove, Success
  <2>4. handler.key \in Seqs /\ OutOn(handler.key)
    BY <2>3, TypeGroups, HandlerFields DEF EraseUnwatched, Idle, HandlerOut, SeenOut, RetryOf
  <2>5. m_retryStore[handler.key] # NoEntry /\ m_retryStore[handler.key].msg = m
    BY <1>0, <1>2, <2>3 DEF EraseUnwatched, Erase
  <2>6. seq[m] = handler.key
    BY <2>4, <2>5 DEF StoreOwned
  <2>7. UNCHANGED <<seq, data>>
    BY <2>3 DEF EraseUnwatched, linkVars
  <2>8. QED
    BY <2>4, <2>6, <2>7 DEF OutOn
<1>3. QED
  BY <1>1, <1>2

(***************************************************************************)
(* What the sender may conclude while no number has been used twice: an    *)
(* acknowledged message has arrived; one that was given up was handed to   *)
(* the transport once and MaxRetries times, unless its first Send has      *)
(* outlived them all; no message is thrown out of the store by another, or *)
(* dropped from it before a copy of its own has gone out; and an error     *)
(* means that no copy has gone out.                                        *)
(***************************************************************************)
NumbersServe ==
  FirstCycle =>
    \A m \in Msg :
      /\ fate[m] = "acknowledged" => m \in delivered
      /\ fate[m] = "exhausted" => sends[m] = 1 + MaxRetries \/ pc[m] = "added"
      /\ fate[m] # "overwritten"
      /\ fate[m] = "dropped" => m \in data
      /\ pc[m] \in {"refused", "failed", "error"} => m \notin data

(***************************************************************************)
(* Dispatcher.h, RetryMonitor.h, TransportMonitor.h: until the 16-bit      *)
(* sequence numbers wrap, reliable sending keeps its promises without      *)
(* exception.                                                              *)
(***************************************************************************)
THEOREM ReliableUntilWrap == Spec => []NumbersServe
<1>1. Init => CountInv /\ Overwriting /\ OutInv /\ DropSent
  <2> SUFFICES ASSUME Init
               PROVE  CountInv /\ Overwriting /\ OutInv /\ DropSent
    OBVIOUS
  <2>1. HaveNumber = {}
    BY DEF Init, HaveNumber
  <2>2. IsFiniteSet(HaveNumber) /\ Cardinality(HaveNumber) = 0
    BY <2>1, FS_EmptySet
  <2>3. CountInv /\ Overwriting /\ DropSent
    BY <2>1, <2>2 DEF Init, CountInv, Overwriting, DropSent
  <2>4. OutInv
    BY DEF Init, OutInv, SentOut, MarkedOut, HandlerOut, RetryOf, Idle
  <2>5. QED
    BY <2>3, <2>4
<1>2. Inv /\ CountInv /\ Overwriting /\ OutInv /\ DropSent /\ [Next]_vars
        => CountInv' /\ Overwriting' /\ OutInv' /\ DropSent'
  BY CountNext, OverwritingNext, OutInvNext, DropSentNext DEF Inv, OutInv
<1>3. Inv /\ CountInv /\ Overwriting /\ DropSent /\ ErrorMeansUnsent => NumbersServe
  <2> SUFFICES ASSUME Inv, CountInv, Overwriting, DropSent, ErrorMeansUnsent, FirstCycle,
                      NEW m \in Msg
               PROVE  /\ fate[m] = "acknowledged" => m \in delivered
                      /\ fate[m] = "exhausted" => sends[m] = 1 + MaxRetries \/ pc[m] = "added"
                      /\ fate[m] # "overwritten"
                      /\ fate[m] = "dropped" => m \in data
                      /\ pc[m] \in {"refused", "failed", "error"} => m \notin data
    BY DEF NumbersServe
  <2>1. pc[m] # "idle" => ~ \E n \in Msg \ {m} : seq[n] = seq[m]
    BY OwnNumber DEF Inv
  <2>2. fate[m] # "open" => pc[m] # "idle"
    BY DEF Inv, FateSeen, Seen
  <2>3. delivered \subseteq Msg /\ data \subseteq Msg
    BY TypeGroups DEF Inv, PlainTypes
  <2>4. fate[m] = "acknowledged" => m \in delivered
    BY <2>1, <2>2, <2>3 DEF Inv, AckMeansDelivered
  <2>5. fate[m] = "exhausted" => sends[m] = 1 + MaxRetries \/ pc[m] = "added"
    BY <2>1, <2>2 DEF Inv, GaveUpLast
  <2>6. fate[m] # "overwritten"
    BY <2>1, <2>2 DEF Overwriting
  <2>7. fate[m] = "dropped" => m \in data
    BY <2>1, <2>2, <2>3 DEF DropSent, OutOn
  <2>8. pc[m] \in {"refused", "failed", "error"} => m \notin data
    BY <2>1 DEF ErrorMeansUnsent
  <2>9. QED
    BY <2>4, <2>5, <2>6, <2>7, <2>8
<1>4. QED
  BY <1>1, <1>2, <1>3, Invariance, ErrorsAreUnsent, PTL DEF Spec

-----------------------------------------------------------------------------
(***************************************************************************)
(* The refinement: what a message's entry, its fate and the return of      *)
(* SendWithRetry amount to in PacketLife.                                  *)
(***************************************************************************)
LifeFun == [m \in Msg |-> LifeOf(m)]
AnswerFun == [m \in Msg |-> AnswerOf(m)]
Promised == <<seq, LifeFun, AnswerFun, sends, data, delivered>>

\* all that the steps below need
Ready ==
  /\ Inv /\ Account /\ ErrorMeansUnsent /\ OutInv
  /\ TypeOK' /\ GaveUpLast' /\ ErrorMeansUnsent'

Namesakes(m) == \E n \in Msg \ {m} : seq[n] = seq[m]

\* A message is open in PacketLife while its entry is in m_retryStore.
LEMMA LifeValues ==
  ASSUME TypeOK, Account, NEW m \in Msg
  PROVE  /\ LifeFun[m] = LifeOf(m) /\ AnswerFun[m] = AnswerOf(m)
         /\ LifeOf(m) = IF Seen(m) THEN fate[m] ELSE "new"
         /\ LifeOf(m) = "new" <=> ~Seen(m)
         /\ LifeOf(m) = "open" <=> Seen(m) /\ Held(m)
         /\ AnswerOf(m) = "error" <=> pc[m] = "error"
         /\ AnswerOf(m) = "none" <=> pc[m] \notin {"done", "error"}
<1>1. fate[m] \in {"open", "overwritten", "rejected", "exhausted", "dropped", "acknowledged"}
  BY TypeGroups DEF PlainTypes
<1>2. LifeOf(m) = IF Seen(m) THEN fate[m] ELSE "new"
  BY DEF LifeOf, Seen
<1>3. LifeOf(m) = "new" <=> ~Seen(m)
  BY <1>1, <1>2
<1>4. LifeOf(m) = "open" <=> Seen(m) /\ Held(m)
  BY <1>2 DEF Account
<1>5. QED
  BY <1>2, <1>3, <1>4 DEF LifeFun, AnswerFun, AnswerOf

\* While no entry leaves, lives change only by storing.
LEMMA LifeStays ==
  ASSUME UNCHANGED fate, \A m \in Msg : Seen(m)' <=> Seen(m)
  PROVE  LifeFun' = LifeFun
<1>1. \A m \in Msg : LifeOf(m)' = LifeOf(m)
  BY DEF LifeOf, Seen
<1>2. QED
  BY <1>1 DEF LifeFun

\* m_retryStore.erase settles the message with that number which is still open, if
\* there is one, and no other.
LEMMA EraseSettles ==
  ASSUME TypeOK, StoreOwned, Account, NEW k \in Seqs, NEW r, Erase(k, r), NEW n \in Msg, Seen(n)
  PROVE  fate'[n] = IF fate[n] = "open" /\ seq[n] = k THEN r ELSE fate[n]
<1>1. fate \in [Msg -> {"open", "overwritten", "rejected", "exhausted", "dropped",
                     "acknowledged"}]
  BY TypeGroups DEF PlainTypes
<1>2. fate[n] = "open" /\ seq[n] = k <=> m_retryStore[k] # NoEntry /\ m_retryStore[k].msg = n
  BY DEF Account, Held, StoreOwned
<1>3. QED
  BY <1>1, <1>2 DEF Erase

LEMMA EraseCloses ==
  ASSUME TypeOK, StoreOwned, Account, NEW k \in Seqs, NEW r, Erase(k, r),
         \A m \in Msg : Seen(m)' <=> Seen(m)
  PROVE  Life!Close(k, r)
<1>1. ASSUME NEW n \in Msg
      PROVE  LifeOf(n)' = IF LifeFun[n] = "open" /\ seq[n] = k THEN r ELSE LifeFun[n]
  <2>1. LifeFun[n] = IF Seen(n) THEN fate[n] ELSE "new"
    BY LifeValues
  <2>2. LifeOf(n)' = IF Seen(n) THEN fate'[n] ELSE "new"
    BY DEF LifeOf, Seen
  <2>3. QED
    BY <2>1, <2>2, EraseSettles
<1>2. QED
  BY <1>1 DEF Life!Close, LifeFun

-----------------------------------------------------------------------------
\* The steps of SendWithRetry.

LEMMA DispatchTakes ==
  ASSUME Ready, NEW m \in Msg, Dispatch(m)
  PROVE  Life!TakeNumber(m, m_seqNum) /\ m_seqNum \in Seqs
<1>0. /\ pc \in [Msg -> {"idle", "numbered", "stored", "added", "sent", "refused",
                         "failed", "done", "error"}]
      /\ m_seqNum \in Seqs /\ seq \in [Msg -> Seqs \cup {NoKey}]
  BY TypeGroups DEF Ready, Inv, PlainTypes
<1>1. seq[m] = NoKey
  BY <1>0 DEF Dispatch, Ready, Inv, Numbered
<1>2. \A n \in Msg : (Seen(n)' <=> Seen(n)) /\ AnswerOf(n)' = AnswerOf(n)
  BY <1>0 DEF Dispatch, Seen, AnswerOf
<1>3. LifeFun' = LifeFun /\ AnswerFun' = AnswerFun
  BY <1>2, LifeStays DEF Dispatch, storeVars, AnswerFun
<1>4. QED
  BY <1>0, <1>1, <1>3 DEF Dispatch, linkVars, Life!TakeNumber, LifeFun, AnswerFun

LEMMA StoreKeeps ==
  ASSUME Ready, NEW m \in Msg, Store(m)
  PROVE  Life!Keep(m)
<1>0. /\ pc \in [Msg -> {"idle", "numbered", "stored", "added", "sent", "refused",
                         "failed", "done", "error"}]
      /\ fate \in [Msg -> {"open", "overwritten", "rejected", "exhausted", "dropped",
                           "acknowledged"}]
  BY TypeGroups DEF Ready, Inv, PlainTypes
<1>1. /\ TypeOK /\ StoreOwned /\ Account /\ FateSeen
      /\ ~Seen(m) /\ seq[m] \in Seqs
  BY DEF Ready, Inv, Store, Seen, Numbered
<1>2. LifeFun[m] = "new" /\ seq[m] # NoKey
  BY <1>1, LifeValues, ReliableAssumption
<1>3. LifeOf(m)' = "open"
  <2>1. fate[m] = "open"
    BY <1>1 DEF FateSeen
  <2>2. m_retryStore[seq[m]] # NoEntry => m_retryStore[seq[m]].msg # m
    BY <1>1 DEF StoreOwned
  <2>3. fate'[m] = "open"
    BY <1>0, <2>1, <2>2 DEF Store
  <2>4. pc'[m] = "stored"
    BY <1>0 DEF Store
  <2>5. QED
    BY <2>3, <2>4 DEF LifeOf
<1>4. ASSUME NEW n \in Msg, n # m
      PROVE  LifeOf(n)' = IF LifeFun[n] = "open" /\ seq[n] = seq[m] THEN "overwritten"
                          ELSE LifeFun[n]
  <2>1. LifeFun[n] = IF Seen(n) THEN fate[n] ELSE "new"
    BY <1>1, LifeValues
  <2>2. LifeOf(n)' = IF Seen(n) THEN fate'[n] ELSE "new"
    BY <1>0, <1>4 DEF LifeOf, Seen, Store
  <2>3. Seen(n) => (fate[n] = "open" /\ seq[n] = seq[m] <=>
                      m_retryStore[seq[m]] # NoEntry /\ m_retryStore[seq[m]].msg = n)
    BY <1>1 DEF Account, Held, StoreOwned
  <2>4. Seen(n) => fate'[n] = IF fate[n] = "open" /\ seq[n] = seq[m] THEN "overwritten"
                              ELSE fate[n]
    BY <1>0, <2>3 DEF Store
  <2>5. QED
    BY <2>1, <2>2, <2>4
<1>5. \A n \in Msg : AnswerOf(n)' = AnswerOf(n)
  BY <1>0 DEF Store, AnswerOf
<1>6. AnswerFun' = AnswerFun
  BY <1>5 DEF AnswerFun
<1>7. LifeFun' = [n \in Msg |-> IF n = m THEN "open"
                                ELSE IF LifeFun[n] = "open" /\ seq[n] = seq[m]
                                       THEN "overwritten"
                                ELSE LifeFun[n]]
  BY <1>3, <1>4 DEF LifeFun
<1>8. QED
  BY <1>2, <1>6, <1>7 DEF Store, linkVars, Life!Keep, LifeFun, AnswerFun

LEMMA SendTransmits ==
  ASSUME Ready, NEW m \in Msg, Send(m)
  PROVE  Life!Transmit(m)
<1>0. pc \in [Msg -> {"idle", "numbered", "stored", "added", "sent", "refused", "failed",
                    "done", "error"}]
  BY TypeGroups DEF Ready, Inv, PlainTypes
<1>1. LifeFun[m] # "new" /\ AnswerFun[m] # "error"
  BY LifeValues DEF Ready, Inv, Send, Seen
<1>2. sends[m] <= MaxRetries
  <2>1. /\ sends[m] \in Nat /\ MaxRetries \in Nat /\ Left(m) \in 0 .. MaxRetries
        /\ Started(m) \in {0, 1}
    BY CountTypes DEF Ready, Inv
  <2>2. FirstDue(m) = 1
    BY DEF Send, FirstDue
  <2>3. sends[m] + FirstDue(m) + Started(m) + Left(m) <= 1 + MaxRetries
    BY DEF Ready, Inv, Budget
  <2>4. QED
    BY <2>1, <2>2, <2>3
<1>3. \A n \in Msg : (Seen(n)' <=> Seen(n)) /\ AnswerOf(n)' = AnswerOf(n)
  BY <1>0 DEF Send, Seen, AnswerOf
<1>4. LifeFun' = LifeFun /\ AnswerFun' = AnswerFun
  BY <1>3, LifeStays DEF Send, storeVars, AnswerFun
<1>5. QED
  BY <1>1, <1>2, <1>4 DEF Send, Life!Transmit, LifeFun, AnswerFun

LEMMA MarkSentSucceeds ==
  ASSUME Ready, NEW m \in Msg, MarkSent(m)
  PROVE  Life!Succeed(m)
<1>0. pc \in [Msg -> {"idle", "numbered", "stored", "added", "sent", "refused", "failed",
                    "done", "error"}]
  BY TypeGroups DEF Ready, Inv, PlainTypes
<1>1. AnswerFun[m] = "none" /\ m \in data
  BY LifeValues DEF Ready, Inv, OutInv, SentOut, MarkSent
<1>2. \A n \in Msg : /\ Seen(n)' <=> Seen(n)
                     /\ AnswerOf(n)' = IF n = m THEN "success" ELSE AnswerOf(n)
  BY <1>0 DEF MarkSent, Seen, AnswerOf
<1>3. LifeFun' = LifeFun /\ AnswerFun' = [AnswerFun EXCEPT ![m] = "success"]
  BY <1>2, LifeStays DEF MarkSent, AnswerFun
<1>4. QED
  BY <1>1, <1>3 DEF MarkSent, linkVars, Life!Succeed, LifeFun, AnswerFun

LEMMA UnstoreFails ==
  ASSUME Ready, NEW m \in Msg, Unstore(m)
  PROVE  Life!Fail(m)
<1>0. pc \in [Msg -> {"idle", "numbered", "stored", "added", "sent", "refused", "failed",
                    "done", "error"}]
  BY TypeGroups DEF Ready, Inv, PlainTypes
<1>1. AnswerFun[m] = "none" /\ (m \in data => Namesakes(m)) /\ seq[m] \in Seqs
  BY LifeValues DEF Ready, Inv, ErrorMeansUnsent, Namesakes, Unstore, Numbered
<1>2. \A n \in Msg : /\ Seen(n)' <=> Seen(n)
                     /\ AnswerOf(n)' = IF n = m THEN "error" ELSE AnswerOf(n)
  BY <1>0 DEF Unstore, Seen, AnswerOf
<1>3. AnswerFun' = [AnswerFun EXCEPT ![m] = "error"]
  BY <1>2 DEF AnswerFun
<1>4. Life!Close(seq[m], "rejected")
  BY <1>1, <1>2, EraseCloses DEF Ready, Inv, Unstore
<1>5. QED
  BY <1>1, <1>3, <1>4
     DEF Unstore, linkVars, Life!Fail, Life!Namesake, Namesakes, LifeFun, AnswerFun

\* m_monitor->Add and everything done with m_pending alone
LEMMA WatchingStutters ==
  ASSUME Ready,
         \/ \E m \in Msg : Register(m)
         \/ \E K \in SUBSET Seqs : Expire(K)
         \/ \E k \in Seqs : Remove(k) \/ (Timeout(k) /\ (Settled(k) \/ Retry(k) \/ Reregister(k)))
         \/ AddForRetry \/ AddAgain
  PROVE  UNCHANGED Promised
<1>0. pc \in [Msg -> {"idle", "numbered", "stored", "added", "sent", "refused", "failed",
                    "done", "error"}]
  BY TypeGroups DEF Ready, Inv, PlainTypes
<1>1. UNCHANGED <<seq, fate, sends, data, delivered>>
  BY DEF Register, Expire, Remove, Timeout, Settled, Retry, Reregister, AddForRetry, AddAgain,
         storeVars, linkVars
<1>2. \A n \in Msg : (Seen(n)' <=> Seen(n)) /\ AnswerOf(n)' = AnswerOf(n)
  <2>1. CASE UNCHANGED pc
    BY <2>1 DEF Seen, AnswerOf
  <2>2. ASSUME NEW m \in Msg, Register(m)
        PROVE  \A n \in Msg : (Seen(n)' <=> Seen(n)) /\ AnswerOf(n)' = AnswerOf(n)
    BY <1>0, <2>2 DEF Register, Seen, AnswerOf
  <2>3. QED
    BY <2>1, <2>2 DEF Expire, Remove, Timeout, AddForRetry, AddAgain
<1>3. QED
  BY <1>1, <1>2, LifeStays DEF Promised, AnswerFun

-----------------------------------------------------------------------------
\* The steps of OnStatusChanged, and the receiver's.

\* They leave the senders alone.
LEMMA SendersStay ==
  ASSUME UNCHANGED pc
  PROVE  AnswerFun' = AnswerFun /\ \A m \in Msg : Seen(m)' <=> Seen(m)
BY DEF AnswerFun, AnswerOf, Seen

LEMMA GiveUpExhausts ==
  ASSUME Ready, NEW k \in Seqs, Timeout(k), GiveUp(k)
  PROVE  \E m \in Msg : Life!Exhaust(m)
<1> DEFINE m == m_retryStore[k].msg
<1>0. /\ m \in Msg /\ seq[m] = k /\ Seen(m) /\ Held(m) /\ fate[m] = "open"
      /\ UNCHANGED <<pc, seq, sends, data, delivered>>
  <2>1. m \in Msg
    BY TypeGroups, EntryFields DEF Ready, Inv, GiveUp
  <2>2. QED
    BY <2>1 DEF Ready, Inv, StoreOwned, Account, Held, GiveUp, Timeout, linkVars
<1>1. LifeFun[m] = "open" /\ AnswerFun[m] = AnswerOf(m)
  BY <1>0, LifeValues DEF Ready, Inv
<1>2. fate'[m] = "exhausted"
  BY <1>0, EraseSettles DEF Ready, Inv, GiveUp
<1>3. sends[m] >= MaxRetries /\ (sends[m] = 1 + MaxRetries \/ pc[m] = "added" \/ Namesakes(m))
  BY <1>0, <1>2 DEF Ready, GaveUpLast, Namesakes
<1>4. AnswerFun[m] = "none" \/ sends[m] = 1 + MaxRetries \/ Namesakes(m)
  BY <1>1, <1>3 DEF AnswerOf
<1>5. AnswerFun' = AnswerFun /\ Life!Close(k, "exhausted")
  BY <1>0, SendersStay, EraseCloses DEF Ready, Inv, GiveUp
<1>6. Life!Exhaust(m)
  BY <1>0, <1>1, <1>3, <1>4, <1>5
     DEF Life!Exhaust, Life!Namesake, Namesakes, LifeFun, AnswerFun
<1>7. QED
  BY <1>0, <1>6

LEMMA SendAgainTransmits ==
  ASSUME Ready, SendAgain
  PROVE  \E m \in Msg : Life!Transmit(m)
<1> DEFINE m == handler.msg
<1>0. m \in Msg /\ Seen(m) /\ Retrying(m)
  BY TypeGroups, HandlerFields
     DEF Ready, Inv, OutInv, HandlerOut, SeenOut, RetryOf, SendAgain, Retrying
<1>1. /\ sends' = [sends EXCEPT ![m] = @ + 1]
      /\ data' \in {data, data \cup {m}}
      /\ UNCHANGED <<pc, seq, fate, delivered>>
  BY DEF SendAgain, storeVars
<1>2. LifeFun[m] # "new" /\ (AnswerFun[m] = "error" <=> pc[m] = "error")
  BY <1>0, LifeValues DEF Ready, Inv
<1>3. sends[m] <= MaxRetries
  <2>1. /\ sends[m] \in Nat /\ MaxRetries \in Nat /\ Left(m) \in 0 .. MaxRetries
        /\ FirstDue(m) \in {0, 1}
    BY <1>0, CountTypes DEF Ready, Inv
  <2>2. Started(m) = 1
    BY <1>0 DEF Started
  <2>3. sends[m] + FirstDue(m) + Started(m) + Left(m) <= 1 + MaxRetries
    BY <1>0 DEF Ready, Inv, Budget
  <2>4. QED
    BY <2>1, <2>2, <2>3
<1>4. pc[m] = "error" => data' = data \/ Namesakes(m)
  <2>1. CASE m \in data
    BY <1>1, <2>1
  <2>2. CASE m \notin data
    BY <1>0, <1>1, <2>2 DEF Ready, ErrorMeansUnsent, Namesakes
  <2>3. QED
    BY <2>1, <2>2
<1>5. LifeFun' = LifeFun /\ AnswerFun' = AnswerFun
  BY <1>1, SendersStay, LifeStays
<1>6. Life!Transmit(m)
  BY <1>1, <1>2, <1>3, <1>4, <1>5
     DEF Life!Transmit, Life!Namesake, Namesakes, LifeFun, AnswerFun
<1>7. QED
  BY <1>0, <1>6

LEMMA EraseUnwatchedDrops ==
  ASSUME Ready, EraseUnwatched
  PROVE  \E k \in Seqs : Life!Drop(k)
<1>1. PICK k \in Seqs : k = handler.key
  BY TypeGroups, HandlerFields DEF Ready, Inv, EraseUnwatched, Idle
<1>2. \E n \in data : seq[n] = k
  BY <1>1 DEF Ready, OutInv, HandlerOut, SeenOut, OutOn, RetryOf, EraseUnwatched
<1>3. AnswerFun' = AnswerFun /\ Life!Close(k, "dropped")
  BY <1>1, SendersStay, EraseCloses DEF Ready, Inv, EraseUnwatched
<1>4. QED
  BY <1>2, <1>3 DEF EraseUnwatched, linkVars, Life!Drop, LifeFun, AnswerFun

LEMMA SuccessAcknowledges ==
  ASSUME Ready, Success
  PROVE  \E k \in Seqs : Life!Acknowledge(k)
<1>1. PICK k \in Seqs : k = arrived
  BY TypeGroups DEF Ready, Inv, PlainTypes, Success
<1>2. \E n \in delivered : seq[n] = k
  BY <1>1 DEF Ready, Inv, Sources, Success
<1>3. AnswerFun' = AnswerFun /\ Life!Close(k, "acknowledged")
  BY <1>1, SendersStay, EraseCloses DEF Ready, Inv, Success
<1>4. QED
  BY <1>2, <1>3 DEF Success, linkVars, Life!Acknowledge, LifeFun, AnswerFun

LEMMA DeliverArrives ==
  ASSUME Ready, NEW m \in Msg, Deliver(m)
  PROVE  Life!Arrive(m)
<1>1. LifeFun' = LifeFun /\ AnswerFun' = AnswerFun
  BY SendersStay, LifeStays DEF Deliver, storeVars
<1>2. QED
  BY <1>1 DEF Deliver, Life!Arrive, LifeFun, AnswerFun

\* Every step of the threads is a step of PacketLife, or changes nothing in it.
LEMMA NextKeepsPromise ==
  ASSUME Ready, [Next]_vars
  PROVE  Life!Next \/ UNCHANGED Promised
<1>1. ASSUME NEW m \in Msg, Dispatch(m) PROVE Life!Next
  BY <1>1, DispatchTakes DEF Life!Next
<1>2. ASSUME NEW m \in Msg, Store(m) PROVE Life!Next
  BY <1>2, StoreKeeps DEF Life!Next
<1>3. ASSUME NEW m \in Msg, Send(m) PROVE Life!Next
  BY <1>3, SendTransmits DEF Life!Next
<1>4. ASSUME NEW m \in Msg, MarkSent(m) PROVE Life!Next
  BY <1>4, MarkSentSucceeds DEF Life!Next
<1>5. ASSUME NEW m \in Msg, Unstore(m) PROVE Life!Next
  BY <1>5, UnstoreFails DEF Life!Next
<1>6. ASSUME NEW m \in Msg, Deliver(m) PROVE Life!Next
  BY <1>6, DeliverArrives DEF Life!Next
<1>7. ASSUME NEW k \in Seqs, Timeout(k), GiveUp(k) PROVE Life!Next
  BY <1>7, GiveUpExhausts DEF Life!Next
<1>8. CASE SendAgain
  BY <1>8, SendAgainTransmits DEF Life!Next
<1>9. CASE EraseUnwatched
  BY <1>9, EraseUnwatchedDrops DEF Life!Next
<1>10. CASE Success
  BY <1>10, SuccessAcknowledges DEF Life!Next
<1>11. CASE UNCHANGED vars
  BY <1>11 DEF vars, storeVars, linkVars, Promised, LifeFun, LifeOf, AnswerFun, AnswerOf
<1>12. QED
  BY <1>1, <1>2, <1>3, <1>4, <1>5, <1>6, <1>7, <1>8, <1>9, <1>10, <1>11, WatchingStutters
     DEF Next, Sender, Handler, Timeout

(***************************************************************************)
(* RetryMonitor.h and TransportMonitor.h, their locks and their timeouts   *)
(* implement PacketLife: each message is settled once, for a reason that   *)
(* is true when it is given, within the budget of retries, and the answer  *)
(* of SendWithRetry agrees with what has gone out.                         *)
(***************************************************************************)
THEOREM SendingIsPacketLife == Spec => ImplementsPacketLife
<1>1. Init => Life!Init
  <2> SUFFICES ASSUME Init
               PROVE  Life!Init
    OBVIOUS
  <2>1. \A m \in Msg : LifeOf(m) = "new" /\ AnswerOf(m) = "none"
    BY DEF Init, LifeOf, AnswerOf
  <2>2. QED
    BY <2>1 DEF Init, Life!Init
<1>2. Init => Account /\ OutInv
  BY DEF Init, Account, Seen, OutInv, SentOut, MarkedOut, HandlerOut, RetryOf, Idle
<1>3. Inv /\ Account /\ [Next]_vars => Account'
  BY AccountNext DEF Inv
<1>4. Ready /\ [Next]_vars => [Life!Next]_Promised
  BY NextKeepsPromise
<1>5. Ready /\ [Next]_vars => [Life!Next]_Life!vars
  BY <1>4 DEF Promised, Life!vars, LifeFun, AnswerFun
<1>6. Spec => [](Account /\ OutInv)
  BY <1>2, <1>3, OutInvNext, Invariance, PTL DEF Spec
<1>7. Inv /\ Account /\ OutInv /\ ErrorMeansUnsent /\ TypeOK' /\ GaveUpLast'
        /\ ErrorMeansUnsent' => Ready
  BY DEF Ready
<1>8. QED
  BY <1>1, <1>5, <1>6, <1>7, Invariance, TypeCorrect, GivesUpLast, ErrorsAreUnsent, PTL
     DEF Spec, ImplementsPacketLife, Life!Spec
=============================================================================
