------------------------ MODULE CommandQueue_proofs -------------------------
(***************************************************************************)
(* What a caller may conclude from the promises of CommandQueue alone:     *)
(* the consequences hold of every worker that implements it.               *)
(***************************************************************************)
EXTENDS CommandQueue, TLAPS

Started(m) == stage[m] \in {"running", "done"}
Accepted(m) == stage[m] \notin {"new", "refused"}

\* a is not the less urgent of the two
AsUrgent(a, b) == b \in HighMsg => a \in HighMsg

TypeInv ==
  /\ stage \in [Msg -> Stage]
  /\ ticket \in [Msg -> Nat]
  /\ tickets \in Nat

TicketInv ==
  /\ \A m \in Msg : ticket[m] <= tickets
  /\ \A m \in Msg : Accepted(m) <=> ticket[m] > 0
  /\ \A a, b \in Msg : Accepted(a) /\ ticket[a] = ticket[b] => a = b

LEMMA TypeInitial == Init => TypeInv /\ TicketInv
  BY DEF Init, TypeInv, TicketInv, Stage, Accepted

LEMMA TypeStep == TypeInv /\ [Next]_vars => TypeInv'
  BY DEF TypeInv, Stage, Next, vars, Accept, Refuse, Start, Finish, Discard, Queued

LEMMA TicketStep ==
  ASSUME TypeInv, TicketInv, [Next]_vars
  PROVE  TicketInv'
<1> USE DEF TypeInv, TicketInv, Accepted, Stage
<1>1. ASSUME NEW m \in Msg, Accept(m)
      PROVE  TicketInv'
  <2>1. /\ tickets' = tickets + 1
        /\ ticket'[m] = tickets + 1 /\ stage'[m] = "queued"
        /\ \A n \in Msg \ {m} : ticket'[n] = ticket[n] /\ stage'[n] = stage[n]
    BY <1>1 DEF Accept
  <2>2. \A n \in Msg \ {m} : ticket'[n] # ticket'[m]
    BY <2>1
  <2>3. QED
    BY <2>1, <2>2
<1>2. ASSUME NEW m \in Msg, Refuse(m) \/ Start(m) \/ Finish(m)
      PROVE  TicketInv'
  <2>1. UNCHANGED <<ticket, tickets>> /\ \A n \in Msg : Accepted(n)' <=> Accepted(n)
    BY <1>2 DEF Refuse, Start, Finish, Queued, Running
  <2>2. QED
    BY <2>1
<1>3. CASE Discard
  <2>1. UNCHANGED <<ticket, tickets>> /\ \A n \in Msg : Accepted(n)' <=> Accepted(n)
    BY <1>3 DEF Discard, Queued
  <2>2. QED
    BY <2>1
<1>4. CASE UNCHANGED vars
  BY <1>4 DEF vars
<1>5. QED
  BY <1>1, <1>2, <1>3, <1>4 DEF Next

THEOREM Tickets == Spec => [](TypeInv /\ TicketInv)
  BY TypeInitial, TypeStep, TicketStep, PTL DEF Spec

-----------------------------------------------------------------------------
(***************************************************************************)
(* Once a message has started, no message accepted before it and as urgent *)
(* is still waiting.                                                       *)
(***************************************************************************)
StartsInOrder ==
  \A a, b \in Msg :
    AsUrgent(a, b) /\ Started(b) /\ stage[a] = "queued" => ticket[b] < ticket[a]

(***************************************************************************)
(* Of the messages whose target does not shut the worker down, one runs at *)
(* a time.                                                                 *)
(***************************************************************************)
OneAtATime == \A a, b \in Running \ SelfExitMsg : a = b

(***************************************************************************)
(* What was accepted is thrown away only on behalf of a message that shuts *)
(* the worker down, and that has itself not overtaken what it discards.    *)
(***************************************************************************)
DiscardedByExit ==
  \A m \in Msg : stage[m] = "discarded" =>
    \E s \in SelfExitMsg \cap Msg :
      Started(s) /\ (AsUrgent(m, s) => ticket[s] < ticket[m])

OrderInv == StartsInOrder /\ OneAtATime /\ DiscardedByExit

LEMMA OrderStep ==
  ASSUME TypeInv, TicketInv, OrderInv, [Next]_vars
  PROVE  OrderInv'
<1> USE DEF TypeInv, Stage, Started, Running, Queued
<1>1. ASSUME NEW m \in Msg, Accept(m)
      PROVE  OrderInv'
  <2>1. /\ stage[m] = "new" /\ stage'[m] = "queued" /\ ticket'[m] = tickets + 1
        /\ \A n \in Msg \ {m} : ticket'[n] = ticket[n] /\ stage'[n] = stage[n]
    BY <1>1 DEF Accept
  <2>2. StartsInOrder'
    BY <2>1 DEF OrderInv, StartsInOrder, TicketInv
  <2>3. OneAtATime'
    BY <2>1 DEF OrderInv, OneAtATime
  <2>4. DiscardedByExit'
    <3>1. ASSUME NEW d \in Msg, stage'[d] = "discarded"
          PROVE  \E s \in SelfExitMsg \cap Msg :
                   Started(s)' /\ (AsUrgent(d, s) => ticket'[s] < ticket'[d])
      <4>1. d # m /\ stage[d] = "discarded"
        BY <2>1, <3>1
      <4>2. PICK s \in SelfExitMsg \cap Msg :
                   Started(s) /\ (AsUrgent(d, s) => ticket[s] < ticket[d])
        BY <4>1 DEF OrderInv, DiscardedByExit
      <4>3. s # m
        BY <2>1, <4>2
      <4>4. QED
        BY <2>1, <4>1, <4>2, <4>3
    <3>2. QED
      BY <3>1 DEF DiscardedByExit, AsUrgent
  <2>5. QED
    BY <2>2, <2>3, <2>4 DEF OrderInv
<1>2. ASSUME NEW m \in Msg, Refuse(m) \/ Finish(m)
      PROVE  OrderInv'
  <2>1. /\ UNCHANGED ticket
        /\ \A n \in Msg : Started(n)' <=> Started(n)
        /\ \A n \in Msg : stage'[n] = "queued" <=> stage[n] = "queued"
        /\ \A n \in Msg : stage'[n] = "discarded" <=> stage[n] = "discarded"
        /\ \A n \in Msg : stage'[n] = "running" => stage[n] = "running"
    BY <1>2 DEF Refuse, Finish
  <2>2. QED
    BY <2>1 DEF OrderInv, StartsInOrder, OneAtATime, DiscardedByExit, AsUrgent
<1>3. ASSUME NEW m \in Msg, Start(m)
      PROVE  OrderInv'
  <2>1. /\ stage[m] = "queued" /\ stage'[m] = "running" /\ UNCHANGED ticket
        /\ \A n \in Msg \ {m} : stage'[n] = stage[n]
        /\ \A a \in Msg \ {m} : stage[a] = "queued" => ~Precedes(a, m)
        /\ Running \subseteq SelfExitMsg
    BY <1>3 DEF Start
  <2>2. ASSUME NEW a \in Msg, AsUrgent(a, m), stage'[a] = "queued"
        PROVE  ticket[m] < ticket[a]
    <3>1. a # m /\ stage[a] = "queued" /\ ~Precedes(a, m)
      BY <2>1, <2>2
    <3>2. ticket[a] # ticket[m]
      BY <2>1, <3>1 DEF TicketInv, Accepted
    <3>3. QED
      BY <2>2, <3>1, <3>2 DEF Precedes, AsUrgent
  <2>3. StartsInOrder'
    BY <2>1, <2>2 DEF OrderInv, StartsInOrder, AsUrgent
  <2>4. OneAtATime'
    BY <2>1 DEF OneAtATime
  <2>5. DiscardedByExit'
    BY <2>1 DEF OrderInv, DiscardedByExit, AsUrgent
  <2>6. QED
    BY <2>3, <2>4, <2>5 DEF OrderInv
<1>4. CASE Discard
  <2>1. /\ UNCHANGED ticket
        /\ \A n \in Msg : stage'[n] = IF stage[n] = "queued" THEN "discarded" ELSE stage[n]
    BY <1>4 DEF Discard
  <2>2. PICK s \in Msg \cap SelfExitMsg : stage[s] = "running"
    BY <1>4 DEF Discard
  <2>3. ASSUME NEW d \in Msg, stage'[d] = "discarded"
        PROVE  \E e \in SelfExitMsg \cap Msg :
                 Started(e)' /\ (AsUrgent(d, e) => ticket'[e] < ticket'[d])
    <3>1. CASE stage[d] = "queued"
      BY <2>1, <2>2, <3>1 DEF OrderInv, StartsInOrder
    <3>2. CASE stage[d] = "discarded"
      BY <2>1, <3>2 DEF OrderInv, DiscardedByExit
    <3>3. QED
      BY <2>1, <2>3, <3>1, <3>2
  <2>4. DiscardedByExit'
    BY <2>3 DEF DiscardedByExit, AsUrgent
  <2>5. StartsInOrder' /\ OneAtATime'
    BY <2>1 DEF OrderInv, StartsInOrder, OneAtATime
  <2>6. QED
    BY <2>4, <2>5 DEF OrderInv
<1>5. CASE UNCHANGED vars
  BY <1>5 DEF vars, OrderInv, StartsInOrder, OneAtATime, DiscardedByExit, AsUrgent
<1>6. QED
  BY <1>1, <1>2, <1>3, <1>4, <1>5 DEF Next

LEMMA OrderInitial == Init => OrderInv
  BY DEF Init, OrderInv, StartsInOrder, OneAtATime, DiscardedByExit, Started, Running

(***************************************************************************)
(* The three consequences hold of every worker that keeps the promises.    *)
(***************************************************************************)
THEOREM PromisedOrder == Spec => [](StartsInOrder /\ OneAtATime /\ DiscardedByExit)
<1>1. TypeInv /\ TicketInv /\ OrderInv /\ [Next]_vars => OrderInv'
  BY OrderStep
<1>2. QED
  BY <1>1, OrderInitial, Tickets, PTL DEF Spec, OrderInv

-----------------------------------------------------------------------------
(***************************************************************************)
(* Whatever happens, a message never goes back: once its target has been   *)
(* entered it is never queued again, once it has returned it is not        *)
(* entered again, and what was refused or discarded never starts.          *)
(***************************************************************************)
LEMMA NoWayBack ==
  ASSUME TypeInv, [Next]_vars, NEW m \in Msg
  PROVE  /\ Started(m) => Started(m)'
         /\ stage[m] = "done" => stage'[m] = "done"
         /\ stage[m] \in {"refused", "discarded"} => stage'[m] \in {"refused", "discarded"}
  BY DEF TypeInv, Stage, Started, Next, vars, Accept, Refuse, Start, Finish, Discard,
         Queued, Running

THEOREM AtMostOnce ==
  ASSUME NEW m \in Msg
  PROVE  Spec => /\ [](Started(m) => []Started(m))
                 /\ [](stage[m] = "done" => [](stage[m] = "done"))
                 /\ [](stage[m] \in {"refused", "discarded"} => []~Started(m))
<1>1. TypeInv /\ Started(m) /\ [Next]_vars => Started(m)'
  BY NoWayBack
<1>2. TypeInv /\ stage[m] = "done" /\ [Next]_vars => (stage[m] = "done")'
  BY NoWayBack
<1>3. TypeInv /\ stage[m] \in {"refused", "discarded"} /\ [Next]_vars
        => (stage[m] \in {"refused", "discarded"})'
  BY NoWayBack
<1>4. stage[m] \in {"refused", "discarded"} => ~Started(m)
  BY DEF Started
<1>5. QED
  BY <1>1, <1>2, <1>3, <1>4, Tickets, PTL DEF Spec
=============================================================================
