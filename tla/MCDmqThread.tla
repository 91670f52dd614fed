---------------------------- MODULE MCDmqThread -----------------------------
(***************************************************************************)
(* Finite instances of DmqThread.                                          *)
(***************************************************************************)
EXTENDS DmqThread, TLC

CONSTANTS m1, m2, m3, m4

\* three or four producers, the first of them urgent
ThreeMsg == {m1, m2, m3}
FourMsg == {m1, m2, m3, m4}
FirstMsg == {m1}
SecondMsg == {m2}
ThirdMsg == {m3}
NoMsg == {}
AllPolicies == {"DROP", "FAULT", "TIMEOUT"}
NoWaiting == {"DROP", "FAULT"}
=============================================================================
