------------------------------ MODULE RpcShared ------------------------------
(***************************************************************************)
(* The call of Rpc when a third process uses the same server, with a client *)
(* of its own: the messages are multicast, so that its network_t, which     *)
(* has no server node and does not know the call's key, receives what the   *)
(* client sends.  It ignores REQ, for want of a node, and DUN, for want of  *)
(* the key; GET it answers.                                                 *)
(***************************************************************************)
EXTENDS Rpc

\* decode_get() in the third process.  What it answers a second time before
\* the first answer has arrived is left out, as the first is acted upon.
BystanderGet ==
  /\ toServer # <<>> /\ Head(toServer).kind = "GET"
  /\ \A i \in DOMAIN toClient : toClient[i].kind # "RSP"
  /\ Reply("RSP", -1)
  /\ UNCHANGED <<clientVars, server, sproxyVars, appVars, crashes, toServer>>

SharedSpec == Init /\ [][Next \/ BystanderGet]_vars
=============================================================================
