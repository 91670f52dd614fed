--------------------------- MODULE MCTimerService ---------------------------
(***************************************************************************)
(* A finite instance of TimerService: a paced and a plain subscriber of    *)
(* one timer, and a second timer in the list.                              *)
(***************************************************************************)
EXTENDS TimerService, TLC

CONSTANTS t1, t2, s1, s2

TwoTimers == {t1, t2}
TwoSubs == {s1, s2}
OnePaced == {s1}
BothOnOne == s1 :> t1 @@ s2 :> t1
=============================================================================
