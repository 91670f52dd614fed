----------------------- MODULE SerialDatabase_proofs ------------------------
(***************************************************************************)
(* What a client may conclude from the promises of SerialDatabase alone:   *)
(* the consequences hold of every implementation of the asynchronous API.  *)
(***************************************************************************)
EXTENDS SerialDatabase, SequenceTheorems, TLAPS

Status == {"new", "refused", "accepted", "beside", "done"}
TookEffect(o) == \E i \in DOMAIN log : log[i] = o

TypeInv ==
  /\ status \in [Op -> Status]
  /\ within \in [Op -> Op \cup {NoOp}]
  /\ holder \in Op \cup {NoOp}
  /\ log \in Seq(Op)

\* clients issue their operations in order, what took effect is done, and a
\* function holds the database only after it was accepted
IssueInv ==
  /\ \A e, o \in Op : Earlier(e, o) /\ status[o] # "new" => status[e] # "new"
  /\ \A i \in DOMAIN log : status[log[i]] = "done"
  /\ holder # NoOp => status[holder] \in {"accepted", "done"}

(***************************************************************************)
(* No operation takes effect twice.                                        *)
(***************************************************************************)
EffectOnce == \A i, j \in DOMAIN log : log[i] = log[j] => i = j

(***************************************************************************)
(* When an operation that its client issued by itself has taken effect,    *)
(* everything the client issued before has been settled: it has taken      *)
(* effect, been refused, or gone past the worker.                          *)
(***************************************************************************)
SettledBefore ==
  \A e, o \in Op :
    Earlier(e, o) /\ TookEffect(o) /\ within[o] = NoOp => status[e] \notin {"new", "accepted"}

(***************************************************************************)
(* An operation is overtaken only by one that a function holding the       *)
(* database has issued.                                                    *)
(***************************************************************************)
OvertakenFromWithin ==
  \A i, j \in DOMAIN log : i < j /\ Earlier(log[j], log[i]) => within[log[i]] # NoOp

EffectInv == EffectOnce /\ SettledBefore /\ OvertakenFromWithin

LEMMA IssueType ==
  ASSUME TypeInv, NEW o \in Op, NEW s \in Status, Issue(o, s)
  PROVE  TypeInv'
<1>1. holder # NoOp => holder \in Op
  BY DEF TypeInv
<1>2. QED
  BY <1>1 DEF TypeInv, Issue

LEMMA TypeStep == TypeInv /\ [Next]_vars => TypeInv'
<1> SUFFICES ASSUME TypeInv, [Next]_vars
             PROVE  TypeInv'
  OBVIOUS
<1>1. ASSUME NEW o \in Op, Accept(o) \/ Refuse(o) \/ Bypass(o)
      PROVE  TypeInv'
  BY <1>1, IssueType DEF Accept, Refuse, Bypass, Status
<1>2. ASSUME NEW o \in Op, Apply(o)
      PROVE  TypeInv'
  BY <1>2 DEF TypeInv, Apply, Status
<1>3. ASSUME NEW o \in Op, Hold(o) \/ Return(o)
      PROVE  TypeInv'
  BY <1>3 DEF TypeInv, Hold, Return, Status
<1>4. CASE Release
  BY <1>4 DEF TypeInv, Release, Status
<1>5. CASE UNCHANGED vars
  BY <1>5 DEF TypeInv, vars
<1>6. QED
  BY <1>1, <1>2, <1>3, <1>4, <1>5 DEF Next

\* How a step can change what has become of the operations.
LEMMA StatusMoves ==
  ASSUME TypeInv, IssueInv, [Next]_vars
  PROVE  \/ /\ UNCHANGED <<within, log>>
            /\ \A o \in Op :
                 \/ status'[o] = status[o]
                 \/ status'[o] = "done" /\ status[o] \notin {"new", "refused"}
         \/ \E o \in Op, s \in Status \ {"new", "done"} : Issue(o, s)
         \/ \E o \in Op : Apply(o)
<1>1. ASSUME NEW o \in Op, Accept(o) \/ Refuse(o) \/ Bypass(o)
      PROVE  \E s \in Status \ {"new", "done"} : Issue(o, s)
  BY <1>1 DEF Accept, Refuse, Bypass, Status
<1>2. CASE Release
  BY <1>2 DEF TypeInv, IssueInv, Release
<1>3. CASE \E o \in Op : Hold(o) \/ Return(o)
  BY <1>3 DEF TypeInv, Hold, Return
<1>4. CASE UNCHANGED vars
  BY <1>4 DEF vars
<1>5. QED
  BY <1>1, <1>2, <1>3, <1>4 DEF Next

LEMMA HolderStep ==
  ASSUME TypeInv, IssueInv, [Next]_vars
  PROVE  holder' # NoOp => status'[holder'] \in {"accepted", "done"}
<1> USE DEF TypeInv, IssueInv
<1>1. ASSUME NEW o \in Op, Accept(o) \/ Refuse(o) \/ Bypass(o)
      PROVE  holder' # NoOp => status'[holder'] \in {"accepted", "done"}
  BY <1>1 DEF Accept, Refuse, Bypass, Issue
<1>2. ASSUME NEW o \in Op, Apply(o) \/ Hold(o) \/ Return(o)
      PROVE  holder' # NoOp => status'[holder'] \in {"accepted", "done"}
  BY <1>2 DEF Apply, Hold, Return, IsFirst
<1>3. CASE Release \/ UNCHANGED vars
  BY <1>3 DEF Release, vars
<1>4. QED
  BY <1>1, <1>2, <1>3 DEF Next

LEMMA LogPlace ==
  ASSUME TypeInv, NEW o \in Op, Apply(o)
  PROVE  /\ Len(log) \in Nat /\ DOMAIN log = 1 .. Len(log)
         /\ DOMAIN log' = 1 .. (Len(log) + 1)
         /\ \A i \in DOMAIN log : log'[i] = log[i]
         /\ log'[Len(log) + 1] = o
  BY DEF TypeInv, Apply

LEMMA IssueStep ==
  ASSUME TypeInv, IssueInv, [Next]_vars
  PROVE  IssueInv'
<1> USE DEF TypeInv, Status
<1>1. CASE UNCHANGED <<within, log>>
             /\ \A o \in Op :
                 \/ status'[o] = status[o]
                 \/ status'[o] = "done" /\ status[o] \notin {"new", "refused"}
  <2>1. \A i \in DOMAIN log : log[i] \in Op
    OBVIOUS
  <2>2. QED
    BY <1>1, <2>1, HolderStep DEF IssueInv
<1>2. ASSUME NEW o \in Op, NEW s \in Status \ {"new", "done"}, Issue(o, s)
      PROVE  IssueInv'
  <2>1. /\ status[o] = "new" /\ status'[o] = s /\ UNCHANGED log
        /\ \A e \in Op \ {o} : status'[e] = status[e]
        /\ \A e \in Op : Earlier(e, o) => status[e] # "new"
    BY <1>2 DEF Issue
  <2>2. \A i \in DOMAIN log : log[i] \in Op \ {o}
    BY <2>1 DEF IssueInv
  <2>3. \A i \in DOMAIN log' : status'[log'[i]] = "done"
    BY <2>1, <2>2 DEF IssueInv
  <2>4. \A e, p \in Op : Earlier(e, p) /\ status'[p] # "new" => status'[e] # "new"
    BY <2>1 DEF IssueInv
  <2>5. QED
    BY <2>3, <2>4, HolderStep DEF IssueInv
<1>3. ASSUME NEW o \in Op, Apply(o)
      PROVE  IssueInv'
  <2>1. /\ status[o] = "accepted" /\ status'[o] = "done"
        /\ \A e \in Op \ {o} : status'[e] = status[e]
    BY <1>3 DEF Apply, IsFirst
  <2>2. \A i \in DOMAIN log' : status'[log'[i]] = "done"
    BY <1>3, <2>1, LogPlace DEF IssueInv
  <2>3. \A e, p \in Op : Earlier(e, p) /\ status'[p] # "new" => status'[e] # "new"
    BY <2>1 DEF IssueInv
  <2>4. QED
    BY <2>2, <2>3, HolderStep DEF IssueInv
<1>4. QED
  BY <1>1, <1>2, <1>3, StatusMoves

\* An operation its client issued by itself takes effect when it is its turn.
LEMMA TurnOfOwn ==
  ASSUME TypeInv, IssueInv, NEW o \in Op, Apply(o), within[o] = NoOp
  PROVE  \A e \in Op : Earlier(e, o) => status[e] \notin {"new", "accepted"}
<1>1. IsFirst(o)
  BY DEF Apply
<1>2. QED
  BY <1>1 DEF IsFirst, IssueInv

LEMMA EffectStep ==
  ASSUME TypeInv, IssueInv, EffectInv, [Next]_vars
  PROVE  EffectInv'
<1> USE DEF TypeInv, Status, TookEffect
<1>1. CASE UNCHANGED <<within, log>>
             /\ \A o \in Op :
                 \/ status'[o] = status[o]
                 \/ status'[o] = "done" /\ status[o] \notin {"new", "refused"}
  BY <1>1 DEF EffectInv, EffectOnce, SettledBefore, OvertakenFromWithin, Earlier
<1>2. ASSUME NEW o \in Op, NEW s \in Status \ {"new", "done"}, Issue(o, s)
      PROVE  EffectInv'
  <2>1. /\ status[o] = "new" /\ UNCHANGED log
        /\ \A e \in Op \ {o} : status'[e] = status[e] /\ within'[e] = within[e]
    BY <1>2 DEF Issue
  <2>2. \A i \in DOMAIN log : log[i] \in Op \ {o}
    BY <2>1 DEF IssueInv
  <2>3. SettledBefore'
    <3>1. ASSUME NEW e \in Op, NEW p \in Op,
                 Earlier(e, p), TookEffect(p)', within'[p] = NoOp
          PROVE  status'[e] \notin {"new", "accepted"}
      <4>1. p # o /\ TookEffect(p) /\ within[p] = NoOp
        BY <2>1, <2>2, <3>1
      <4>2. status[e] \notin {"new", "accepted"}
        BY <3>1, <4>1 DEF EffectInv, SettledBefore
      <4>3. QED
        BY <2>1, <4>2
    <3>2. QED
      BY <3>1 DEF SettledBefore, Earlier
  <2>4. EffectOnce' /\ OvertakenFromWithin'
    BY <2>1, <2>2 DEF EffectInv, EffectOnce, OvertakenFromWithin, Earlier
  <2>5. QED
    BY <2>3, <2>4 DEF EffectInv
<1>3. ASSUME NEW o \in Op, Apply(o)
      PROVE  EffectInv'
  <2>1. /\ status[o] = "accepted" /\ status'[o] = "done" /\ UNCHANGED within
        /\ \A e \in Op \ {o} : status'[e] = status[e]
    BY <1>3 DEF Apply, IsFirst
  <2>2. \A i \in DOMAIN log : log[i] \in Op \ {o}
    BY <2>1 DEF IssueInv
  <2>3. EffectOnce'
    BY <1>3, <2>2, LogPlace DEF EffectInv, EffectOnce
  <2>4. SettledBefore'
    <3>1. ASSUME NEW e \in Op, NEW p \in Op,
                 Earlier(e, p), TookEffect(p)', within'[p] = NoOp
          PROVE  status'[e] \notin {"new", "accepted"}
      <4>1. p = o \/ TookEffect(p)
        BY <1>3, <3>1, LogPlace
      <4>2. status[e] \notin {"new", "accepted"}
        BY <1>3, <2>1, <3>1, <4>1, TurnOfOwn DEF EffectInv, SettledBefore
      <4>3. QED
        BY <2>1, <4>2
    <3>2. QED
      BY <3>1 DEF SettledBefore, Earlier
  <2>5. OvertakenFromWithin'
    <3>1. ASSUME NEW i \in DOMAIN log', NEW j \in DOMAIN log', i < j,
                 Earlier(log'[j], log'[i])
          PROVE  within[log'[i]] # NoOp
      <4>1. i \in DOMAIN log /\ log'[i] = log[i] /\ log[i] \in Op
        BY <1>3, <2>2, <3>1, LogPlace
      <4>2. CASE j \in DOMAIN log
        BY <1>3, <3>1, <4>1, <4>2, LogPlace DEF EffectInv, OvertakenFromWithin
      <4>3. CASE j = Len(log) + 1
        <5>1. Earlier(o, log[i]) /\ TookEffect(log[i])
          BY <1>3, <3>1, <4>1, <4>3, LogPlace
        <5>2. QED
          BY <2>1, <4>1, <5>1 DEF EffectInv, SettledBefore
      <4>4. QED
        BY <1>3, <3>1, <4>2, <4>3, LogPlace
    <3>2. QED
      BY <2>1, <3>1 DEF OvertakenFromWithin, Earlier
  <2>6. QED
    BY <2>3, <2>4, <2>5 DEF EffectInv
<1>4. QED
  BY <1>1, <1>2, <1>3, StatusMoves

LEMMA Initial == Init => TypeInv /\ IssueInv /\ EffectInv
  BY DEF Init, TypeInv, IssueInv, EffectInv, EffectOnce, SettledBefore, OvertakenFromWithin,
         TookEffect, Status

LEMMA Invariants == Spec => [](TypeInv /\ IssueInv /\ EffectInv)
<1>1. TypeInv /\ IssueInv /\ EffectInv /\ [Next]_vars => (TypeInv /\ IssueInv /\ EffectInv)'
  BY TypeStep, IssueStep, EffectStep
<1>2. QED
  BY <1>1, Initial, PTL DEF Spec

(***************************************************************************)
(* The three consequences hold of every implementation of the promises.    *)
(***************************************************************************)
THEOREM PromisedEffects == Spec => [](EffectOnce /\ SettledBefore /\ OvertakenFromWithin)
  BY Invariants, PTL DEF EffectInv

(***************************************************************************)
(* A refused operation never takes effect, and one that took effect stays  *)
(* in effect.                                                              *)
(***************************************************************************)
THEOREM RefusedForGood ==
  ASSUME NEW o \in Op
  PROVE  Spec => /\ [](status[o] = "refused" => []~TookEffect(o))
                 /\ [](TookEffect(o) => []TookEffect(o))
<1>1. TypeInv /\ IssueInv /\ status[o] = "refused" /\ [Next]_vars => (status[o] = "refused")'
  BY StatusMoves DEF TypeInv, Issue, Apply, IsFirst
<1>2. IssueInv /\ status[o] = "refused" => ~TookEffect(o)
  BY DEF IssueInv, TookEffect
<1>3. TypeInv /\ IssueInv /\ TookEffect(o) /\ [Next]_vars => TookEffect(o)'
  <2> SUFFICES ASSUME TypeInv, IssueInv, TookEffect(o), [Next]_vars
               PROVE  TookEffect(o)'
    OBVIOUS
  <2>1. CASE UNCHANGED log
    BY <2>1 DEF TookEffect
  <2>2. ASSUME NEW p \in Op, Apply(p)
        PROVE  TookEffect(o)'
    BY <2>2, LogPlace DEF TookEffect
  <2>3. QED
    BY <2>1, <2>2, StatusMoves DEF Issue
<1>4. QED
  BY <1>1, <1>2, <1>3, Invariants, PTL DEF Spec
=============================================================================
