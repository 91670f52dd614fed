--------------------------- MODULE MCAsyncSqlite ----------------------------
(***************************************************************************)
(* Finite instances of AsyncSqlite.                                        *)
(***************************************************************************)
EXTENDS AsyncSqlite, TLC

CONSTANTS t1, t2

TwoClients == {t1, t2}
NoClient == {}
FirstClient == {t1}
\* operations of each client
ThreeAndTwo == t1 :> 3 @@ t2 :> 2
TwoEach == [t \in TwoClients |-> 2]
ThreeEach == [t \in TwoClients |-> 3]
OneEach == [t \in TwoClients |-> 1]
=============================================================================
