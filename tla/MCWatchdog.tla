----------------------------- MODULE MCWatchdog -----------------------------
(***************************************************************************)
(* Finite instances of Watchdog.                                           *)
(***************************************************************************)
EXTENDS Watchdog, TLC

CONSTANTS w1, w2

OneWorker == {w1}
TwoWorkers == {w1, w2}
=============================================================================
