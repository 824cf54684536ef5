------------------------------ MODULE MCMirror ------------------------------
(* Mirror with a root, a child and two grandchildren, of which one is not   *)
(* there at the start.                                                      *)
EXTENDS Mirror

MCOrder == <<<<>>, <<1>>, <<1, 1>>, <<1, 2>>>>
MCStart == {<<1>>, <<1, 1>>}
=============================================================================
