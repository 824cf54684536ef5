----------------------------- MODULE MCDispatch -----------------------------
(* Dispatch with the two scaffolds: the graphical program's, with a thread  *)
(* for each of its two groups, and the other with --mt 2.                   *)
EXTENDS Dispatch, TLC

\* ctx1 stands for the graphical program's own thread where there is one.
CONSTANTS c0, c1, ctx0, ctx1, p1, aux

MCContexts == {c0, c1}
MCOneContext == {c0}
MCThreads == {ctx0, ctx1}
MCNobody == {}
MCOneCaller == {p1}
MCLoopingGui == {ctx0}

MCGroupGui == c0 :> 0 @@ c1 :> 1 @@ ctx0 :> 0 @@ ctx1 :> 1
MCOpensGui == 0 :> {ctx0} @@ 1 :> {ctx1} @@ aux :> {ctx1}

MCGroupMt == c0 :> 0 @@ ctx0 :> 0 @@ ctx1 :> 0
MCOpensMt == 0 :> {ctx0, ctx1} @@ aux :> {ctx0, ctx1}
=============================================================================
