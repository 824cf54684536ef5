----------------------------- MODULE MCRpcShared -----------------------------
(* RpcShared with the timers of MCRpc. *)
EXTENDS RpcShared
=============================================================================
