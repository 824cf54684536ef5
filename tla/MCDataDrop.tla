----------------------------- MODULE MCDataDrop -----------------------------
(* DataDrop with three threads and two object addresses.                    *)
EXTENDS DataDrop, TLC

CONSTANTS t1, t2, t3, o1, o2

MCThreads == {t1, t2, t3}
MCObjs == {o1, o2}
Symmetry == Permutations(MCThreads) \cup Permutations(MCObjs)
=============================================================================
