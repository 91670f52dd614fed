----------------------------- MODULE PacketLife -----------------------------
(***************************************************************************)
(* What reliable sending promises of each message, without monitors,       *)
(* timeouts or acknowledgements.  A message is kept until something is     *)
(* settled about it, once and for one reason; it is handed to the          *)
(* transport at most once and MaxRetries times; and each reason, and each  *)
(* answer to its sender, is true of what has happened to the message.      *)
(*                                                                         *)
(* Whatever is settled is settled about a number.  Numbers are reused, so  *)
(* what is true of the message with this number may be true only of        *)
(* another one that had it: a namesake.                                    *)
(***************************************************************************)
EXTENDS Naturals

CONSTANTS
  Msg,
  Number,      \* the sequence numbers
  NoKey,       \* no number yet
  MaxRetries

VARIABLES
  seq,         \* the number of each message
  life,        \* "new", "open" while it is kept, then what was settled
  answer,      \* what its sender has been told
  sends,       \* how often it was handed to the transport
  data,        \* the messages of which a copy has gone out
  delivered    \* those of which one has arrived

vars == <<seq, life, answer, sends, data, delivered>>

Init ==
  /\ seq = [m \in Msg |-> NoKey]
  /\ life = [m \in Msg |-> "new"]
  /\ answer = [m \in Msg |-> "none"]
  /\ sends = [m \in Msg |-> 0]
  /\ data = {} /\ delivered = {}

Namesake(m) == \E n \in Msg \ {m} : seq[n] = seq[m]

TakeNumber(m, k) ==
  /\ seq[m] = NoKey
  /\ seq' = [seq EXCEPT ![m] = k]
  /\ UNCHANGED <<life, answer, sends, data, delivered>>

\* the message kept under number k, if any, is settled
Close(k, reason) ==
  life' = [n \in Msg |-> IF life[n] = "open" /\ seq[n] = k THEN reason ELSE life[n]]

\* one message is kept for each number: the older one makes room
Keep(m) ==
  /\ life[m] = "new" /\ seq[m] # NoKey
  /\ life' = [n \in Msg |-> IF n = m THEN "open"
                            ELSE IF life[n] = "open" /\ seq[n] = seq[m] THEN "overwritten"
                            ELSE life[n]]
  /\ UNCHANGED <<seq, answer, sends, data, delivered>>

\* Only what is kept is handed to the transport, or has been a moment ago; and
\* nothing goes out once the sender was told that it did not.
Transmit(m) ==
  /\ life[m] # "new"
  /\ sends[m] <= MaxRetries
  /\ sends' = [sends EXCEPT ![m] = @ + 1]
  /\ \/ UNCHANGED data
     \/ (answer[m] = "error" => Namesake(m)) /\ data' = data \cup {m}
  /\ UNCHANGED <<seq, life, answer, delivered>>

Arrive(m) ==
  /\ m \in data
  /\ delivered' = delivered \cup {m}
  /\ UNCHANGED <<seq, life, answer, sends, data>>

Succeed(m) ==
  /\ answer[m] = "none" /\ m \in data
  /\ answer' = [answer EXCEPT ![m] = "success"]
  /\ UNCHANGED <<seq, life, sends, data, delivered>>

\* no copy has gone out
Fail(m) ==
  /\ answer[m] = "none"
  /\ m \in data => Namesake(m)
  /\ answer' = [answer EXCEPT ![m] = "error"]
  /\ Close(seq[m], "rejected")
  /\ UNCHANGED <<seq, sends, data, delivered>>

\* a copy has arrived
Acknowledge(k) ==
  /\ \E n \in delivered : seq[n] = k
  /\ Close(k, "acknowledged")
  /\ UNCHANGED <<seq, answer, sends, data, delivered>>

\* every retry has been made; the first copy too, unless its sender is still at it
Exhaust(m) ==
  /\ life[m] = "open"
  /\ sends[m] >= MaxRetries
  /\ sends[m] = 1 + MaxRetries \/ answer[m] = "none" \/ Namesake(m)
  /\ Close(seq[m], "exhausted")
  /\ UNCHANGED <<seq, answer, sends, data, delivered>>

\* a copy has gone out, but there is no room to wait for its acknowledgement again
Drop(k) ==
  /\ \E n \in data : seq[n] = k
  /\ Close(k, "dropped")
  /\ UNCHANGED <<seq, answer, sends, data, delivered>>

Next ==
  \/ \E m \in Msg, k \in Number : TakeNumber(m, k)
  \/ \E m \in Msg : Keep(m) \/ Transmit(m) \/ Arrive(m) \/ Succeed(m) \/ Fail(m) \/ Exhaust(m)
  \/ \E k \in Number : Acknowledge(k) \/ Drop(k)

Spec == Init /\ [][Next]_vars
=============================================================================
