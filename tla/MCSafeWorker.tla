---------------------------- MODULE MCSafeWorker ----------------------------
(* SafeWorker with two producers, one of which stops the worker.            *)
EXTENDS SafeWorker

CONSTANTS owner, other, a1, a2

MCProducers == {owner, other}
MCAddrs == {a1, a2}
=============================================================================
