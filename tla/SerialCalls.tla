---------------------------- MODULE SerialCalls -----------------------------
(***************************************************************************)
(* What a blocking call promises its caller: the target takes effect at    *)
(* one instant between the call and its return, and at most once; a caller *)
(* that gets a result had its own target applied; a caller told "busy"     *)
(* cannot tell whether the target was applied, but knows that it never     *)
(* will be from now on.                                                    *)
(***************************************************************************)
EXTENDS Naturals

CONSTANT Call

VARIABLES
  status,    \* what the caller of each call knows
  applied    \* how often its target has taken effect

vars == <<status, applied>>

Init ==
  /\ status = [c \in Call |-> "idle"]
  /\ applied = [c \in Call |-> 0]

Begin(c) ==
  /\ status[c] = "idle"
  /\ status' = [status EXCEPT ![c] = "pending"]
  /\ UNCHANGED applied

Apply(c) ==
  /\ status[c] = "pending"
  /\ applied[c] = 0
  /\ applied' = [applied EXCEPT ![c] = 1]
  /\ UNCHANGED status

ReturnValue(c) ==
  /\ status[c] = "pending"
  /\ applied[c] = 1
  /\ status' = [status EXCEPT ![c] = "value"]
  /\ UNCHANGED applied

ReturnBusy(c) ==
  /\ status[c] = "pending"
  /\ status' = [status EXCEPT ![c] = "busy"]
  /\ UNCHANGED applied

Next == \E c \in Call : Begin(c) \/ Apply(c) \/ ReturnValue(c) \/ ReturnBusy(c)

Spec == Init /\ [][Next]_vars
=============================================================================
