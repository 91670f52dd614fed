---------------------------- MODULE CommandQueue ----------------------------
(***************************************************************************)
(* What a worker thread promises its callers, without locks, flags or      *)
(* queues: README.md calls it the Serialized Command Processor.  A message *)
(* is refused or accepted; accepted messages start in the order of their   *)
(* acceptance, urgent ones first; each is run once; and the only thing     *)
(* that may discard an accepted message is a message that shuts the worker *)
(* down from inside its own callback.                                      *)
(***************************************************************************)
EXTENDS Naturals

CONSTANTS
  Msg,          \* the calls of DispatchDelegate
  HighMsg,      \* those dispatched with Priority::HIGH
  SelfExitMsg   \* those whose target function calls ExitThread

VARIABLES
  stage,        \* what has become of each message
  ticket,       \* position of each accepted message in the order of acceptance
  tickets       \* how many messages have been accepted

vars == <<stage, ticket, tickets>>

Stage == {"new", "refused", "queued", "running", "done", "discarded"}

Queued == {m \in Msg : stage[m] = "queued"}
Running == {m \in Msg : stage[m] = "running"}

\* b may not start while a is queued: a was accepted first and is as urgent,
\* or a alone is urgent.
Precedes(a, b) ==
  \/ a \in HighMsg /\ b \notin HighMsg
  \/ /\ a \in HighMsg <=> b \in HighMsg
     /\ ticket[a] < ticket[b]

Init ==
  /\ stage = [m \in Msg |-> "new"]
  /\ ticket = [m \in Msg |-> 0]
  /\ tickets = 0

Accept(m) ==
  /\ stage[m] = "new"
  /\ stage' = [stage EXCEPT ![m] = "queued"]
  /\ tickets' = tickets + 1
  /\ ticket' = [ticket EXCEPT ![m] = tickets + 1]

Refuse(m) ==
  /\ stage[m] = "new"
  /\ stage' = [stage EXCEPT ![m] = "refused"]
  /\ UNCHANGED <<ticket, tickets>>

\* One target at a time; a self-exiting callback may still be unwinding when
\* the first message of a restarted worker starts.
Start(m) ==
  /\ m \in Queued
  /\ \A a \in Queued \ {m} : ~Precedes(a, m)
  /\ Running \subseteq SelfExitMsg
  /\ stage' = [stage EXCEPT ![m] = "running"]
  /\ UNCHANGED <<ticket, tickets>>

Finish(m) ==
  /\ m \in Running
  /\ stage' = [stage EXCEPT ![m] = "done"]
  /\ UNCHANGED <<ticket, tickets>>

Discard ==
  /\ Running \cap SelfExitMsg # {}
  /\ Queued # {}
  /\ stage' = [m \in Msg |-> IF m \in Queued THEN "discarded" ELSE stage[m]]
  /\ UNCHANGED <<ticket, tickets>>

Next ==
  \/ \E m \in Msg : Accept(m) \/ Refuse(m) \/ Start(m) \/ Finish(m)
  \/ Discard

Spec == Init /\ [][Next]_vars
=============================================================================
