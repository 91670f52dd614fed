---------------------------- MODULE MCAsyncWait -----------------------------
(***************************************************************************)
(* Finite instances of AsyncWait.                                          *)
(***************************************************************************)
EXTENDS AsyncWait, TLC

CONSTANTS c1, c2, c3

ThreeCalls == {c1, c2, c3}
First == {c1}
FirstAndThird == {c1, c3}
Third == {c3}
None == {}
=============================================================================
