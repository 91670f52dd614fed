--------------------------- MODULE SerialDatabase ---------------------------
(***************************************************************************)
(* What the asynchronous API promises its clients, without threads or      *)
(* queues.  Clients issue numbered operations on one database.  Each is    *)
(* accepted or refused; a refused one has no effect, an accepted one takes *)
(* effect once and at one instant, after everything its client has had     *)
(* accepted before; and a function that holds the database excludes        *)
(* everybody else's operations until it returns.  Operations that go past  *)
(* the worker are issued in order but promise nothing else.                *)
(*                                                                         *)
(* While a function holds the database its own operations take effect in   *)
(* any order: a blocking wrapper overtakes a future it has posted.         *)
(***************************************************************************)
EXTENDS Naturals, Sequences

CONSTANTS
  Client,
  MaxOps     \* how many operations each client may issue

Op == UNION {{t} \X (1 .. MaxOps[t]) : t \in Client}
NoOp == <<>>

VARIABLES
  status,    \* "new", "refused", "accepted", "beside" the worker, or "done"
  within,    \* the function that issued the operation while it held the database
  holder,    \* the operation whose function holds the database, if any
  log        \* the operations in the order they took effect

vars == <<status, within, holder, log>>

Init ==
  /\ status = [o \in Op |-> "new"]
  /\ within = [o \in Op |-> NoOp]
  /\ holder = NoOp
  /\ log = <<>>

Earlier(e, o) == e[1] = o[1] /\ e[2] < o[2]

\* a client issues its operations one after the other, by itself or through
\* its function that holds the database
Issue(o, s) ==
  /\ status[o] = "new"
  /\ \A e \in Op : Earlier(e, o) => status[e] # "new"
  /\ status' = [status EXCEPT ![o] = s]
  /\ within' = [within EXCEPT ![o] =
                  IF holder # NoOp /\ holder[1] = o[1] THEN holder ELSE NoOp]
  /\ UNCHANGED <<holder, log>>

Accept(o) == Issue(o, "accepted")
Refuse(o) == Issue(o, "refused")
Bypass(o) == Issue(o, "beside")

\* nothing its client has had accepted before is outstanding
IsFirst(o) ==
  /\ status[o] = "accepted"
  /\ \A e \in Op : Earlier(e, o) => status[e] # "accepted"

Apply(o) ==
  /\ \/ holder = NoOp /\ IsFirst(o)
     \/ holder # NoOp /\ status[o] = "accepted" /\ within[o] = holder
  /\ log' = Append(log, o)
  /\ status' = [status EXCEPT ![o] = "done"]
  /\ UNCHANGED <<within, holder>>

\* the operation is a function, which takes the database for itself
Hold(o) ==
  /\ holder = NoOp
  /\ IsFirst(o)
  /\ holder' = o
  /\ UNCHANGED <<status, within, log>>

Release ==
  /\ holder # NoOp
  /\ status' = [status EXCEPT ![holder] = "done"]
  /\ holder' = NoOp
  /\ UNCHANGED <<within, log>>

Return(o) ==
  /\ status[o] = "beside"
  /\ status' = [status EXCEPT ![o] = "done"]
  /\ UNCHANGED <<within, holder, log>>

Next ==
  \/ \E o \in Op : Accept(o) \/ Refuse(o) \/ Bypass(o) \/ Apply(o) \/ Hold(o) \/ Return(o)
  \/ Release

Spec == Init /\ [][Next]_vars
=============================================================================
