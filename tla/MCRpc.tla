------------------------------- MODULE MCRpc -------------------------------
(* Rpc with the timers of the code scaled down: the requests are given up   *)
(* before the result is forgotten, as with 11, 55 and 60 seconds.           *)
EXTENDS Rpc
=============================================================================
