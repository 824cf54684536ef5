----------------------------- MODULE MCDatabase -----------------------------
(* A bounded instance of Database.                                          *)
EXTENDS Database, TLC

CONSTANTS o1, o2

MCPaths == {<<>>, <<1>>, <<1, 1>>}
MCOrder == <<<<1, 1>>, <<1>>, <<>>>>
MCObjs == {o1, o2}
MCSymmetry == Permutations(MCObjs)
=============================================================================
