--------------------------------- MODULE Rpc ---------------------------------
(***************************************************************************)
(* One remote procedure call between agents (piagent/src/pia_rpc.cpp).     *)
(*                                                                         *)
(* A client's invocation is carried by a cproxy_t, which sends REQ every   *)
(* second until the server's ACK, and GET every five seconds from then on  *)
(* until RSP; each ACK clears its count of attempts, and it gives up after *)
(* ten.  The server keeps an sproxy_t per call, known by the random cookie *)
(* in the call's key: it answers ACK until the application has completed   *)
(* the call, and RSP from then on, and it is deleted a minute or two after *)
(* the last answer, or a second or two after the client's DUN.  A client   *)
(* in the server's own process hands its invocation to the server node.    *)
(*                                                                         *)
(* Messages are datagrams: they may be lost, and they arrive in order,     *)
(* within Delay seconds, or not at all; they are doubled when they are     *)
(* sent again.  Time passes in seconds, in which all timers that are due   *)
(* are served.  The timers are those of the glue: one with period n is     *)
(* called first after 1 to n seconds, and then every n.                    *)
(***************************************************************************)
EXTENDS Integers, Sequences

CONSTANTS AckTimer, AckFail, RspTimer, RspFail,   \* ACK_TIMER, ...
          Keep,         \* how long sproxy_t keeps a result, 60 in the code
          Delay,        \* the seconds a message can be under way
          MaxCrashes    \* bound on the crashes of the server's process

ASSUME TimersAssumption ==
  /\ AckTimer \in Nat \ {0} /\ RspTimer \in Nat \ {0} /\ Keep \in Nat \ {0}
  /\ AckFail \in Nat /\ RspFail \in Nat /\ Delay \in Nat /\ MaxCrashes \in Nat

\* The result outlives the client's patience.
ASSUME KeepAssumption ==
  /\ RspTimer * (RspFail + 1) + Delay <= Keep
  /\ AckTimer * (AckFail + 1) + Delay <= Keep

VARIABLES
  client,   \* the client's node: "idle", "req" or "get" (its cproxy_t, by
            \* acked_), "local", "ended", "closed"
  result,   \* the status it was completed with
  count,    \* cproxy_t::count_
  ctimer,   \* seconds until the cproxy's timer is due
  server,   \* the server's node: "none", "open", "detached"; "dead" process
  sproxy,   \* the call's sproxy_t: "none", "waiting", "done"
  status,   \* its status_
  timing,   \* its timing_, which the constructor leaves uninitialized
  stimer,   \* seconds until its timer is due, Off if not started
  speriod,  \* the period of that timer
  app,      \* the invocation in invocations_: "none", "queued", "running"
  invoked,  \* history: how often the application was invoked
  outcome,  \* history: what it answered, 0 if nothing
  crashes,  \* history: crashes of the server's process
  toServer, \* messages under way to the server
  toClient  \* messages under way to the client

clientVars == <<client, result, count, ctimer>>
sproxyVars == <<sproxy, status, timing, stimer, speriod>>
appVars == <<app, invoked, outcome>>
netVars == <<toServer, toClient>>
vars == <<clientVars, server, sproxyVars, appVars, crashes, netVars>>

Off == -1

Init ==
  /\ client = "idle" /\ result = 0 /\ count = 0 /\ ctimer = Off
  /\ server = "open"
  /\ sproxy = "none" /\ status = 0 /\ timing = FALSE /\ stimer = Off
  /\ speriod = Keep /\ app = "none" /\ invoked = 0 /\ outcome = 0
  /\ crashes = 0 /\ toServer = <<>> /\ toClient = <<>>

Message(k, s) == [kind |-> k, st |-> s, age |-> 0]
Send(k) == toServer' = Append(toServer, Message(k, 0))

-----------------------------------------------------------------------------
(* The client: cnode_t and cproxy_t.                                        *)

\* A client in another process: cproxy_t's constructor.
Call ==
  /\ client = "idle"
  /\ client' = "req"
  /\ \E n \in 1..AckTimer : ctimer' = n
  /\ Send("REQ")
  /\ UNCHANGED <<result, count, server, sproxyVars, appVars, crashes, toClient>>

\* A client in the server's process, where network_t::invoke() finds server_:
\* snode_t::invoke() ignores the invocation if the node is detached.
CallLocal ==
  /\ client = "idle" /\ server \in {"open", "detached"}
  /\ client' = "local"
  /\ app' = IF server = "open" THEN "queued" ELSE app
  /\ UNCHANGED <<result, count, ctimer, server, sproxyVars, invoked, outcome,
                 crashes, netVars>>

\* Mutant of ClientTimer: it counts after it has looked at the count.
ClientTimerOnceMore ==
  /\ ctimer = 0
  /\ count <= (IF client = "get" THEN RspFail ELSE AckFail)
  /\ count' = count + 1
  /\ Send(IF client = "get" THEN "GET" ELSE "REQ")
  /\ ctimer' = IF client = "get" THEN RspTimer ELSE AckTimer
  /\ UNCHANGED <<client, result, server, sproxyVars, appVars, crashes, toClient>>

\* Mutant of ClientTimer: attempts are not counted once the call is acked.
ClientTimerForEver ==
  /\ ctimer = 0
  /\ count < AckFail
  /\ count' = IF client = "get" THEN count ELSE count + 1
  /\ Send(IF client = "get" THEN "GET" ELSE "REQ")
  /\ ctimer' = IF client = "get" THEN RspTimer ELSE AckTimer
  /\ UNCHANGED <<client, result, server, sproxyVars, appVars, crashes, toClient>>

\* cproxy_t::timer__(), as long as it has attempts left.
ClientTimer ==
  /\ ctimer = 0
  /\ count < (IF client = "get" THEN RspFail ELSE AckFail)
  /\ count' = count + 1
  /\ Send(IF client = "get" THEN "GET" ELSE "REQ")
  /\ ctimer' = IF client = "get" THEN RspTimer ELSE AckTimer
  /\ UNCHANGED <<client, result, server, sproxyVars, appVars, crashes, toClient>>

\* net_response(): the invocation is completed, DUN is sent, and the cproxy
\* is deleted.
Respond(st) ==
  /\ client' = "ended" /\ result' = st
  /\ ctimer' = Off /\ count' = 0
  /\ Send("DUN")

\* timer__() gives up.
GiveUp ==
  /\ ctimer = 0
  /\ count = (IF client = "get" THEN RspFail ELSE AckFail)
  /\ Respond(0)
  /\ UNCHANGED <<server, sproxyVars, appVars, crashes, toClient>>

\* decode_ack(), decode_rsp(): unknown keys are ignored.
ClientReceive ==
  /\ toClient # <<>>
  /\ toClient' = Tail(toClient)
  /\ LET m == Head(toClient) IN
     \/ /\ m.kind = "ACK" /\ client = "req"
        /\ client' = "get" /\ count' = 0
        /\ \E n \in 1..RspTimer : ctimer' = n
        /\ UNCHANGED <<result, toServer>>
     \/ /\ m.kind = "ACK" /\ client = "get"
        /\ count' = 0
        /\ UNCHANGED <<client, result, ctimer, toServer>>
     \/ /\ m.kind = "RSP" /\ client \in {"req", "get"}
        /\ Respond(m.st)
     \/ /\ client \notin {"req", "get"}
        /\ UNCHANGED <<clientVars, toServer>>
  /\ UNCHANGED <<server, sproxyVars, appVars, crashes>>

\* cnode_t::close(): the invocation is cancelled, and the cproxy deleted or
\* the invocation withdrawn from the server.
Hangup ==
  /\ client \in {"req", "get", "local"}
  /\ client' = "closed" /\ ctimer' = Off /\ count' = 0
  /\ app' = IF client = "local" THEN "none" ELSE app
  /\ UNCHANGED <<result, server, sproxyVars, invoked, outcome, crashes, netVars>>

-----------------------------------------------------------------------------
(* The server: network_t, sproxy_t and snode_t.                             *)

Reply(k, s) == toClient' = Append(toClient, Message(k, s))

\* job_timer_.start(timer__, this, 60)
StartKeep == /\ timing' = FALSE /\ speriod' = Keep
             /\ \E n \in 1..Keep : stimer' = n

\* Mutant of Completed: the result is kept for a second, as after DUN.
CompletedBriefly(s) ==
  /\ sproxy' = "done" /\ status' = s
  /\ timing' = FALSE /\ stimer' = 1 /\ speriod' = 1
  /\ Reply("RSP", s)

\* Mutant of Completed: the timer is left to the client's DUN.
CompletedForEver(s) ==
  /\ sproxy' = "done" /\ status' = s
  /\ timing' = FALSE /\ stimer' = Off /\ UNCHANGED speriod
  /\ Reply("RSP", s)

\* sproxy_t::completed()
Completed(s) ==
  /\ sproxy' = "done" /\ status' = s
  /\ StartKeep
  /\ Reply("RSP", s)

\* handle_req() and handle_get(): ACK, or the result again.
Answer ==
  IF sproxy = "done"
    THEN StartKeep /\ Reply("RSP", status) /\ UNCHANGED <<sproxy, status>>
    ELSE Reply("ACK", 0) /\ UNCHANGED sproxyVars

\* Mutant of ReceiveReq: a new sproxy for every request.
ReceiveReqAnew ==
  IF server \in {"open", "detached"}
    THEN /\ sproxy' = "waiting" /\ status' = 0 /\ stimer' = Off
         /\ timing' \in BOOLEAN /\ UNCHANGED speriod
         /\ app' = IF server = "open" THEN "queued" ELSE app
         /\ Reply("ACK", 0)
    ELSE UNCHANGED <<sproxyVars, app, toClient>>

\* decode_req(): a new sproxy_t for a new key, whose invocation a detached
\* node ignores; nothing if there is no server node.
ReceiveReq ==
  IF server \notin {"open", "detached"} THEN UNCHANGED <<sproxyVars, app, toClient>>
  ELSE IF sproxy # "none" THEN Answer /\ UNCHANGED app
  ELSE /\ sproxy' = "waiting" /\ status' = 0 /\ stimer' = Off
       /\ timing' \in BOOLEAN /\ UNCHANGED speriod
       /\ app' = IF server = "open" THEN "queued" ELSE app
       /\ Reply("ACK", 0)

\* The server process has a network_t for the address, with or without node.
Listening == server \in {"open", "detached"} \/ sproxy # "none"

\* decode_get(): -1 for an unknown key.
ReceiveGet ==
  IF sproxy # "none" THEN Answer /\ UNCHANGED app
  ELSE /\ IF Listening THEN Reply("RSP", -1) ELSE UNCHANGED toClient
       /\ UNCHANGED <<sproxyVars, app>>

\* decode_dun(), handle_dun(): the timer is started, timing_ is left alone.
ReceiveDun ==
  /\ IF sproxy = "none" THEN UNCHANGED <<stimer, speriod>>
                         ELSE stimer' = 1 /\ speriod' = 1
  /\ UNCHANGED <<sproxy, status, timing, app, toClient>>

ServerReceive ==
  /\ toServer # <<>>
  /\ toServer' = Tail(toServer)
  /\ CASE Head(toServer).kind = "REQ" -> ReceiveReq
       [] Head(toServer).kind = "GET" -> ReceiveGet
       [] Head(toServer).kind = "DUN" -> ReceiveDun
  /\ UNCHANGED <<clientVars, server, invoked, outcome, crashes>>

\* sproxy_t::timer__() when timing_ is not yet set ...
StartTiming ==
  /\ stimer = 0 /\ ~timing
  /\ timing' = TRUE
  /\ stimer' = speriod
  /\ UNCHANGED <<clientVars, server, sproxy, status, speriod, appVars, crashes, netVars>>

\* ... and when it is: the sproxy is deleted, and its invocation withdrawn.
Forget ==
  /\ stimer = 0 /\ timing
  /\ sproxy' = "none" /\ stimer' = Off
  /\ app' = IF sproxy = "waiting" THEN "none" ELSE app
  /\ UNCHANGED <<clientVars, server, status, timing, speriod, invoked, outcome,
                 crashes, netVars>>

\* snode_t::invoke__(), in the server's context.
AppInvoke ==
  /\ app = "queued" /\ server = "open"
  /\ app' = "running" /\ invoked' = invoked + 1
  /\ UNCHANGED <<clientVars, server, sproxyVars, outcome, crashes, netVars>>

\* invocation_t::complete(), for an sproxy or for a local client.
CompleteCall(s) ==
  IF client = "local"
    THEN /\ client' = "ended" /\ result' = s
         /\ UNCHANGED <<count, ctimer, sproxyVars, netVars>>
    ELSE Completed(s) /\ UNCHANGED <<clientVars, toServer>>

\* The application answers, and snode_t::complete() finds the invocation.
AppComplete ==
  /\ app = "running"
  /\ app' = "none"
  /\ \E s \in {1, -1} : outcome' = s /\ CompleteCall(s)
  /\ UNCHANGED <<server, invoked, crashes>>

\* snode_t::detach(), alone when the context is killed, with the deletion of
\* the node in close(): what is not completed is completed with 0.
Detach(next) ==
  /\ server = "open" \/ (server = "detached" /\ next = "none")
  /\ server' = next
  /\ app' = "none"
  /\ IF app # "none" THEN CompleteCall(0)
     ELSE UNCHANGED <<clientVars, sproxyVars, netVars>>
  /\ UNCHANGED <<invoked, outcome, crashes>>

\* A node is made for the address again, in a process that lives.
Open ==
  /\ server \in {"none", "dead"}
  /\ server' = "open"
  /\ UNCHANGED <<clientVars, sproxyVars, appVars, crashes, netVars>>

\* The server's process is gone, with all it knew.
Crash ==
  /\ server # "dead" /\ client # "local" /\ crashes < MaxCrashes
  /\ server' = "dead" /\ crashes' = crashes + 1
  /\ sproxy' = "none" /\ stimer' = Off /\ app' = "none"
  /\ UNCHANGED <<clientVars, status, timing, speriod, invoked, outcome, netVars>>

-----------------------------------------------------------------------------
(* The network and time.                                                    *)

LoseToServer ==
  /\ toServer # <<>>
  /\ toServer' = Tail(toServer)
  /\ UNCHANGED <<clientVars, server, sproxyVars, appVars, crashes, toClient>>

LoseToClient ==
  /\ toClient # <<>>
  /\ toClient' = Tail(toClient)
  /\ UNCHANGED <<clientVars, server, sproxyVars, appVars, crashes, toServer>>

Older(ch) == [i \in DOMAIN ch |-> [ch[i] EXCEPT !.age = @ + 1]]
Young(ch) == \A i \in DOMAIN ch : ch[i].age < Delay

\* A second passes, when all that is due has been done.
Tick ==
  /\ ctimer # 0 /\ stimer # 0
  /\ Young(toServer) /\ Young(toClient)
  /\ ctimer' = IF ctimer = Off THEN Off ELSE ctimer - 1
  /\ stimer' = IF stimer = Off THEN Off ELSE stimer - 1
  /\ toServer' = Older(toServer) /\ toClient' = Older(toClient)
  /\ UNCHANGED <<client, result, count, server, sproxy, status, timing, speriod,
                 appVars, crashes>>

Client == Call \/ CallLocal \/ ClientTimer \/ GiveUp \/ ClientReceive \/ Hangup
Server == \/ ServerReceive \/ StartTiming \/ Forget \/ AppInvoke \/ AppComplete
          \/ Detach("detached") \/ Detach("none") \/ Open \/ Crash

Next == Client \/ Server \/ LoseToServer \/ LoseToClient \/ Tick

Spec == Init /\ [][Next]_vars

\* Messages are delivered or lost, timers are served, time passes, and the
\* application answers the calls it gets.  Nothing makes the network deliver.
Fairness ==
  /\ WF_vars(ServerReceive \/ LoseToServer) /\ WF_vars(ClientReceive \/ LoseToClient)
  /\ WF_vars(ClientTimer \/ GiveUp) /\ WF_vars(StartTiming \/ Forget)
  /\ WF_vars(AppInvoke) /\ WF_vars(AppComplete) /\ WF_vars(Tick)

FairSpec == Spec /\ Fairness

-----------------------------------------------------------------------------
(* Properties.                                                              *)

TypeOK ==
  /\ client \in {"idle", "req", "get", "local", "ended", "closed"}
  /\ result \in {-1, 0, 1} /\ status \in {-1, 0, 1} /\ outcome \in {-1, 0, 1}
  /\ count \in 0..(IF client = "get" THEN RspFail ELSE AckFail)
  /\ ctimer \in (IF client = "req" THEN 0..AckTimer
                 ELSE IF client = "get" THEN 0..RspTimer ELSE {Off})
  /\ server \in {"none", "open", "detached", "dead"}
  /\ sproxy \in {"none", "waiting", "done"} /\ timing \in BOOLEAN
  /\ stimer \in {Off} \cup 0..Keep /\ speriod \in {1, Keep}
  /\ app \in {"none", "queued", "running"}
  /\ invoked \in Nat /\ crashes \in 0..MaxCrashes
  /\ \A ch \in {toServer, toClient} : \A i \in DOMAIN ch :
       ch[i] \in [kind : {"REQ", "GET", "DUN", "ACK", "RSP"}, st : {-1, 0, 1},
                  age : 0..Delay]

\* The application is invoked once for a call, however often its request was
\* sent, unless it was invoked before a crash and the request outlived it.
AtMostOnce == invoked <= 1 + crashes

\* What the client is told is what the application answered; only when the
\* server's process has crashed may a call that was carried out be refused.
ResultTrue == result # 0 => result = outcome \/ crashes > 0

\* A call whose request was ignored by a detached server node, so that nobody
\* will ever complete it.
Orphaned == app = "none" /\ (client = "local" \/ sproxy = "waiting")

\* Every call ends: with the server's answer, because the client gives up, or
\* because it is closed; whatever is lost, and also if the server's process
\* is gone.  A call that found a detached node is excepted: its client is
\* answered ACK for ever, or has no timer at all.
EveryCallEnds == client \in {"req", "get", "local"} ~>
                   (client \in {"ended", "closed"} \/ Orphaned)

\* The server does not keep results for ever: every sproxy_t that has one is
\* deleted, with or without the client's DUN.
ResultsForgotten == sproxy = "done" ~> sproxy = "none"
=============================================================================
