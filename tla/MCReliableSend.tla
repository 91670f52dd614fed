--------------------------- MODULE MCReliableSend ---------------------------
(***************************************************************************)
(* A finite instance of ReliableSend.                                      *)
(***************************************************************************)
EXTENDS ReliableSend, TLC

CONSTANTS a, b, c

TwoMsgs == {a, b}
ThreeMsgs == {a, b, c}
=============================================================================
