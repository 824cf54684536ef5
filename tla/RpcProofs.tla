----------------------------- MODULE RpcProofs ------------------------------
(***************************************************************************)
(* A call is carried out at most once, and the client is told what the     *)
(* application answered, for any timers, attempts and delays that keep     *)
(* KeepAssumption, and any number of crashes.                              *)
(*                                                                         *)
(* A request that is sent again is harmless as long as the server knows    *)
(* the call.  It forgets a call that was answered after its timer has been *)
(* called twice, and the argument is that this outlives every request the  *)
(* client may still send and every one that is under way.                  *)
(***************************************************************************)
EXTENDS Rpc, SequenceTheorems, TLAPS

Kinds(K) == [kind : K, st : {-1, 0, 1}, age : 0..Delay]
ToServer == Kinds({"REQ", "GET", "DUN"})
ToClient == Kinds({"ACK", "RSP"})

Channels == toServer \in Seq(ToServer) /\ toClient \in Seq(ToClient)

\* TypeOK, but for the channels.
Scalars ==
  /\ client \in {"idle", "req", "get", "local", "ended", "closed"}
  /\ result \in {-1, 0, 1} /\ status \in {-1, 0, 1} /\ outcome \in {-1, 0, 1}
  /\ count \in 0..(IF client = "get" THEN RspFail ELSE AckFail)
  /\ ctimer \in (IF client = "req" THEN 0..AckTimer
                 ELSE IF client = "get" THEN 0..RspTimer ELSE {Off})
  /\ server \in {"none", "open", "detached", "dead"}
  /\ sproxy \in {"none", "waiting", "done"} /\ timing \in BOOLEAN
  /\ stimer \in {Off} \cup 0..Keep /\ speriod \in {1, Keep}
  /\ app \in {"none", "queued", "running"}
  /\ invoked \in Nat /\ crashes \in 0..MaxCrashes

\* Before the call nobody knows of it.
Fresh == client = "idle" => /\ invoked = 0 /\ app = "none" /\ sproxy = "none"
                            /\ toServer = <<>>

\* A client in the server's process sends nothing.
LocalAlone == client = "local" => sproxy = "none" /\ toServer = <<>>

\* An invocation has somebody who waits for it, a timer somebody to call.
AppAwaited == app # "none" => sproxy = "waiting" \/ client = "local"
NoTimer == sproxy = "none" => stimer = Off

\* DUN is the last that is sent.
DunLast == \A i \in DOMAIN toServer :
             toServer[i].kind = "DUN" => client = "ended" /\ i = Len(toServer)

\* A request is under way; it, or another, may arrive.
Asking == \E i \in DOMAIN toServer : toServer[i].kind = "REQ"
Wanted == client = "req" \/ Asking

\* The application has been, or will be, invoked once since the last crash,
\* and not at all if the server does not know the call and may be asked.
Counted == invoked + (IF app = "queued" THEN 1 ELSE 0) <= 1 + crashes
Unasked == sproxy = "none" /\ Wanted => app = "none" /\ invoked <= crashes

\* The seconds the server will know the call, and the seconds until the last
\* request of the client is sent and has arrived.
Life == IF timing THEN stimer ELSE stimer + speriod
Patience == ctimer + AckTimer * (AckFail - count) + Delay

Outlives ==
  sproxy # "none" /\ stimer # Off =>
    /\ client = "req" => Life > Patience
    /\ \A i \in DOMAIN toServer :
         toServer[i].kind = "REQ" => Life > Delay - toServer[i].age

Inv == /\ Scalars /\ Channels /\ Fresh /\ LocalAlone /\ AppAwaited /\ NoTimer
       /\ DunLast /\ Counted /\ Unasked /\ Outlives

-----------------------------------------------------------------------------
(* Times and channels.                                                      *)

LEMMA PatienceBounds ==
  ASSUME Scalars, client = "req"
  PROVE  Patience \in Nat /\ Patience >= Delay /\ Patience <= Keep
<1>1. /\ ctimer \in 0..AckTimer /\ count \in 0..AckFail /\ Delay \in Nat
      /\ AckTimer \in Nat /\ AckFail \in Nat
  BY TimersAssumption DEF Scalars
<1>2. /\ AckTimer * (AckFail - count) \in Nat
      /\ AckTimer * (AckFail - count) <= AckTimer * AckFail
      /\ AckTimer * (AckFail + 1) = AckTimer * AckFail + AckTimer
      /\ AckTimer * AckFail \in Nat
  BY <1>1, Z3
<1>3. AckTimer * AckFail + AckTimer + Delay <= Keep /\ Keep \in Nat
  BY <1>2, KeepAssumption, TimersAssumption
<1>. QED  BY <1>1, <1>2, <1>3 DEF Patience

\* Sending again takes from the attempts what it gives to the timer.
LEMMA PatienceKept ==
  ASSUME Scalars, client = "req", ctimer = 0, count' = count + 1, ctimer' = AckTimer
  PROVE  Patience' = Patience
<1>1. count \in Int /\ AckTimer \in Int /\ AckFail \in Int /\ Delay \in Int
  BY TimersAssumption DEF Scalars
<1>2. AckTimer * (AckFail - count) = AckTimer * (AckFail - (count + 1)) + AckTimer
  BY <1>1, Z3
<1>. QED  BY <1>1, <1>2 DEF Patience

\* A timer of Keep seconds that is started now outlives all.
LEMMA KeepOutlives ==
  ASSUME Scalars', Channels', StartKeep
  PROVE  Outlives'
<1>1. Keep \in Nat /\ Delay \in Nat /\ Delay <= Keep
  <2>1. AckTimer * (AckFail + 1) \in Nat
    BY TimersAssumption, Z3
  <2>2. \A n \in Nat : n + Delay <= Keep => Delay <= Keep
    BY TimersAssumption
  <2>. QED  BY <2>1, <2>2, TimersAssumption, KeepAssumption
<1>2. PICK l \in Nat : Life' = l /\ l > Keep
  <2>1. PICK n \in 1..Keep : stimer' = n /\ timing' = FALSE /\ speriod' = Keep
    BY DEF StartKeep
  <2>2. Life' = n + Keep
    BY <2>1 DEF Life
  <2>. QED  BY <1>1, <2>2
<1>3. client' = "req" => Life' > Patience'
  <2>1. (client = "req" /\ Scalars => Patience \in Nat /\ Patience <= Keep)'
    BY PatienceBounds, PTL
  <2>2. client' = "req" => \E p \in Nat : Patience' = p /\ p <= Keep
    BY <2>1
  <2>. QED  BY <1>1, <1>2, <2>2
<1>4. ASSUME NEW i \in DOMAIN toServer'
      PROVE  Life' > Delay - toServer'[i].age
  <2>1. PICK m \in ToServer : toServer'[i] = m
    BY DEF Channels
  <2>2. m.age \in 0..Delay
    BY DEF ToServer, Kinds
  <2>. QED  BY <1>1, <1>2, <2>1, <2>2
<1>. QED  BY <1>3, <1>4 DEF Outlives

LEMMA MessageType ==
  \A s \in {-1, 0, 1} :
    /\ \A k \in {"REQ", "GET", "DUN"} : Message(k, s) \in ToServer
    /\ \A k \in {"ACK", "RSP"} : Message(k, s) \in ToClient
  BY TimersAssumption DEF Message, ToServer, ToClient, Kinds

\* The next message to the server is taken, or lost.
LEMMA Taken ==
  ASSUME Channels, toServer # <<>>, toServer' = Tail(toServer)
  PROVE  /\ toServer' \in Seq(ToServer) /\ Len(toServer') = Len(toServer) - 1
         /\ Head(toServer) \in ToServer /\ Head(toServer) = toServer[1]
         /\ 1 \in DOMAIN toServer
         /\ \A i \in DOMAIN toServer' : i + 1 \in DOMAIN toServer /\ toServer'[i] = toServer[i + 1]
  BY DEF Channels

LEMMA TakenByClient ==
  ASSUME Channels, toClient # <<>>, toClient' = Tail(toClient)
  PROVE  /\ toClient' \in Seq(ToClient) /\ Head(toClient) \in ToClient
         /\ Head(toClient) = toClient[1] /\ 1 \in DOMAIN toClient
         /\ \A i \in DOMAIN toClient' : i + 1 \in DOMAIN toClient /\ toClient'[i] = toClient[i + 1]
  BY DEF Channels

\* A message is sent to the server.
LEMMA Sent ==
  ASSUME Channels, NEW k \in {"REQ", "GET", "DUN"}, Send(k)
  PROVE  /\ toServer' \in Seq(ToServer) /\ Len(toServer') = Len(toServer) + 1
         /\ DOMAIN toServer' = DOMAIN toServer \cup {Len(toServer) + 1}
         /\ \A i \in DOMAIN toServer : toServer'[i] = toServer[i] /\ i # Len(toServer) + 1
         /\ toServer'[Len(toServer) + 1].kind = k
         /\ toServer'[Len(toServer) + 1].age = 0
<1>1. Message(k, 0) \in ToServer /\ Message(k, 0).kind = k /\ Message(k, 0).age = 0
  BY MessageType DEF Message
<1>. QED  BY <1>1 DEF Channels, Send

LEMMA Replied ==
  ASSUME Channels, NEW k \in {"ACK", "RSP"}, NEW s \in {-1, 0, 1}, Reply(k, s)
  PROVE  /\ toClient' \in Seq(ToClient)
         /\ \A i \in DOMAIN toClient' : \/ i \in DOMAIN toClient /\ toClient'[i] = toClient[i]
                                        \/ toClient'[i] = Message(k, s)
  BY MessageType DEF Channels, Reply

LEMMA Aged ==
  ASSUME NEW K, NEW ch \in Seq(Kinds(K)), Young(ch)
  PROVE  /\ Older(ch) \in Seq(Kinds(K)) /\ Len(Older(ch)) = Len(ch)
         /\ \A i \in DOMAIN ch : Older(ch)[i].kind = ch[i].kind
                                 /\ Older(ch)[i].age = ch[i].age + 1
<1>1. \A i \in 1..Len(ch) : ch[i] \in Kinds(K) /\ ch[i].age \in Nat /\ ch[i].age < Delay
  <2>1. \A i \in 1..Len(ch) : ch[i] \in Kinds(K) /\ i \in DOMAIN ch
    OBVIOUS
  <2>. QED  BY <2>1, TimersAssumption DEF Kinds, Young
<1>2. \A i \in 1..Len(ch) : [ch[i] EXCEPT !.age = @ + 1] \in Kinds(K)
  <2>1. ASSUME NEW m \in Kinds(K), m.age < Delay
        PROVE  [m EXCEPT !.age = @ + 1] \in Kinds(K)
    <3>1. m.age + 1 \in 0..Delay
      BY <2>1, TimersAssumption DEF Kinds
    <3>. QED  BY <3>1 DEF Kinds
  <2>. QED  BY <1>1, <2>1
<1>3. Older(ch) \in [1..Len(ch) -> Kinds(K)]
  BY <1>2 DEF Older
<1>4. Older(ch) \in Seq(Kinds(K)) /\ Len(Older(ch)) = Len(ch)
  BY <1>3
<1>. QED  BY <1>1, <1>4 DEF Older, Kinds

-----------------------------------------------------------------------------
(* The client's steps.                                                      *)

LEMMA CallInv == Inv /\ Call => Inv'
<1>. SUFFICES ASSUME Inv, Call PROVE Inv'
  OBVIOUS
<1>1. /\ client = "idle" /\ client' = "req" /\ sproxy = "none" /\ sproxy' = "none"
      /\ invoked = 0 /\ app = "none" /\ toServer = <<>> /\ Send("REQ")
      /\ stimer = Off /\ crashes \in Nat
  BY TimersAssumption DEF Inv, Call, Fresh, NoTimer, Scalars, sproxyVars
<1>2. Scalars' /\ Channels'
  <2>1. PICK n \in 1..AckTimer : ctimer' = n
    BY DEF Call
  <2>2. n \in 0..AckTimer
    BY TimersAssumption
  <2>3. Scalars'
    BY <1>1, <2>1, <2>2 DEF Inv, Call, Scalars, sproxyVars, appVars
  <2>. QED  BY <1>1, <2>3, Sent DEF Inv, Call, Channels
<1>3. Fresh' /\ LocalAlone' /\ AppAwaited' /\ NoTimer' /\ Outlives'
  BY <1>1 DEF Call, Fresh, LocalAlone, AppAwaited, NoTimer, Outlives, sproxyVars, appVars
<1>4. DunLast'
  <2>1. /\ DOMAIN toServer' = {1} /\ toServer'[1].kind = "REQ"
    BY <1>1, Sent DEF Inv
  <2>. QED  BY <2>1 DEF DunLast
<1>5. Counted' /\ Unasked'
  BY <1>1 DEF Call, Inv, Counted, Unasked, sproxyVars, appVars
<1>. QED  BY <1>2, <1>3, <1>4, <1>5 DEF Inv

LEMMA CallLocalInv == Inv /\ CallLocal => Inv'
<1>. SUFFICES ASSUME Inv, CallLocal PROVE Inv'
  OBVIOUS
<1>1. /\ client = "idle" /\ client' = "local" /\ sproxy = "none"
      /\ invoked = 0 /\ app = "none" /\ toServer = <<>> /\ stimer = Off /\ crashes \in Nat
      /\ UNCHANGED <<result, count, ctimer, server, sproxyVars, invoked, outcome,
                     crashes, netVars>>
      /\ app' \in {"none", "queued"}
  BY TimersAssumption DEF Inv, CallLocal, Fresh, NoTimer, Scalars
<1>2. Scalars' /\ Channels'
  BY <1>1 DEF Inv, Scalars, Channels, sproxyVars, netVars
<1>3. Fresh' /\ LocalAlone' /\ AppAwaited' /\ NoTimer' /\ Outlives' /\ DunLast'
  BY <1>1 DEF Fresh, LocalAlone, AppAwaited, NoTimer, Outlives, DunLast, sproxyVars, netVars
<1>4. Counted'
  BY <1>1 DEF Counted
<1>5. Unasked'
  <2>1. ~Wanted'
    BY <1>1 DEF Wanted, Asking, netVars
  <2>. QED  BY <2>1 DEF Unasked
<1>. QED  BY <1>2, <1>3, <1>4, <1>5 DEF Inv

LEMMA ClientTimerInv == Inv /\ ClientTimer => Inv'
<1>. SUFFICES ASSUME Inv, ClientTimer PROVE Inv'
  OBVIOUS
<1>. DEFINE k == IF client = "get" THEN "GET" ELSE "REQ"
<1>1. /\ client \in {"req", "get"} /\ ctimer = 0 /\ count' = count + 1 /\ Send(k)
      /\ k \in {"REQ", "GET", "DUN"}
      /\ ctimer' = IF client = "get" THEN RspTimer ELSE AckTimer
      /\ UNCHANGED <<client, result, server, sproxyVars, appVars, crashes, toClient>>
  BY DEF Inv, ClientTimer, Scalars, Off
<1>2. Scalars' /\ Channels'
  <2>1. Scalars'
    BY <1>1, TimersAssumption DEF Inv, ClientTimer, Scalars, sproxyVars, appVars
  <2>. QED  BY <1>1, <2>1, Sent DEF Inv, Channels
<1>3. Fresh' /\ LocalAlone' /\ AppAwaited' /\ NoTimer' /\ Counted'
  BY <1>1 DEF Inv, Fresh, LocalAlone, AppAwaited, NoTimer, Counted, sproxyVars, appVars
<1>4. DunLast'
  BY <1>1, Sent DEF Inv, DunLast
<1>5. Unasked'
  <2>1. Wanted' => Wanted
    BY <1>1, Sent DEF Inv, Wanted, Asking
  <2>. QED  BY <1>1, <2>1 DEF Inv, Unasked, sproxyVars, appVars
<1>6. Outlives'
  <2>. SUFFICES ASSUME sproxy # "none", stimer # Off
       PROVE  /\ client = "req" => Life' > Patience'
              /\ \A i \in DOMAIN toServer' :
                   toServer'[i].kind = "REQ" => Life' > Delay - toServer'[i].age
    BY <1>1 DEF Outlives, sproxyVars
  <2>1. Life' = Life
    BY <1>1 DEF Life, sproxyVars
  <2>2. client = "req" => Patience' = Patience /\ Life > Patience /\ Patience >= Delay
                          /\ Patience \in Nat
    BY <1>1, PatienceKept, PatienceBounds DEF Inv, Outlives
  <2>3. ASSUME NEW i \in DOMAIN toServer', toServer'[i].kind = "REQ"
        PROVE  Life > Delay - toServer'[i].age
    <3>1. CASE i \in DOMAIN toServer
      BY <1>1, <2>3, <3>1, Sent DEF Inv, Outlives
    <3>2. CASE i = Len(toServer) + 1
      <4>1. client = "req" /\ toServer'[i].age = 0
        BY <1>1, <2>3, <3>2, Sent DEF Inv
      <4>. QED  BY <2>2, <4>1, TimersAssumption DEF Life, Inv, Scalars
    <3>. QED  BY <1>1, <3>1, <3>2, Sent DEF Inv
  <2>. QED  BY <2>1, <2>2, <2>3
<1>. QED  BY <1>2, <1>3, <1>4, <1>5, <1>6 DEF Inv

\* The client has got its answer, or none, and sends DUN.
LEMMA RespondInv ==
  ASSUME Inv, NEW st \in {-1, 0, 1}, client \in {"req", "get"}, Respond(st),
         UNCHANGED <<server, sproxyVars, appVars, crashes>>, toClient' \in Seq(ToClient)
  PROVE  Inv'
<1>1. Scalars' /\ Channels'
  <2>1. Scalars'
    BY TimersAssumption DEF Inv, Scalars, Respond, sproxyVars, appVars
  <2>. QED  BY <2>1, Sent DEF Inv, Channels, Respond
<1>2. Fresh' /\ LocalAlone' /\ AppAwaited' /\ NoTimer' /\ Counted'
  BY DEF Inv, Fresh, LocalAlone, AppAwaited, NoTimer, Counted, Respond, sproxyVars, appVars
<1>3. DunLast'
  <2>1. \A i \in DOMAIN toServer : toServer[i].kind # "DUN"
    BY DEF Inv, DunLast
  <2>2. client' = "ended" /\ Send("DUN")
    BY DEF Respond
  <2>. QED  BY <2>1, <2>2, Sent, SMTT(30) DEF Inv, DunLast
<1>4. Unasked'
  <2>1. Wanted' => Wanted
    BY Sent DEF Inv, Wanted, Asking, Respond
  <2>. QED  BY <2>1 DEF Inv, Unasked, sproxyVars, appVars
<1>5. Outlives'
  <2>1. Life' = Life /\ client' # "req"
    BY DEF Life, Respond, sproxyVars
  <2>2. \A i \in DOMAIN toServer' : toServer'[i].kind = "REQ" =>
          i \in DOMAIN toServer /\ toServer'[i] = toServer[i]
    <3>1. Send("DUN") /\ Channels
      BY DEF Inv, Respond
    <3>. QED  BY <3>1, Sent
  <2>. QED  BY <2>1, <2>2 DEF Inv, Outlives, sproxyVars
<1>. QED  BY <1>1, <1>2, <1>3, <1>4, <1>5 DEF Inv

LEMMA GiveUpInv == Inv /\ GiveUp => Inv'
<1>. SUFFICES ASSUME Inv, GiveUp PROVE Inv'
  OBVIOUS
<1>1. client \in {"req", "get"} /\ toClient' \in Seq(ToClient)
  BY DEF Inv, GiveUp, Scalars, Channels, Off
<1>. QED  BY <1>1, RespondInv DEF GiveUp

LEMMA ClientReceiveInv == Inv /\ ClientReceive => Inv'
<1>. SUFFICES ASSUME Inv, ClientReceive PROVE Inv'
  OBVIOUS
<1>. DEFINE m == Head(toClient)
<1>1. m.kind \in {"ACK", "RSP"} /\ m.st \in {-1, 0, 1} /\ toClient' \in Seq(ToClient)
      /\ UNCHANGED <<server, sproxyVars, appVars, crashes>>
  BY TakenByClient DEF Inv, ClientReceive, ToClient, Kinds
<1>2. CASE client \in {"req", "get"} /\ Respond(m.st)
  BY <1>1, <1>2, RespondInv
<1>3. ASSUME toServer' = toServer, client' \in {client, "get"} \ {"req"},
             client # "req" => client' = client, Scalars'
      PROVE  Inv'
  <2>1. Channels' /\ Fresh' /\ LocalAlone' /\ AppAwaited' /\ NoTimer' /\ DunLast' /\ Counted'
    BY <1>1, <1>3 DEF Inv, Channels, Fresh, LocalAlone, AppAwaited, NoTimer, DunLast, Counted,
                      sproxyVars, appVars
  <2>2. Unasked'
    BY <1>1, <1>3 DEF Inv, Unasked, Wanted, Asking, sproxyVars, appVars
  <2>3. Outlives'
    BY <1>1, <1>3 DEF Inv, Outlives, Life, Patience, sproxyVars
  <2>. QED  BY <1>3, <2>1, <2>2, <2>3 DEF Inv
<1>4. CASE /\ m.kind = "ACK" /\ client = "req" /\ client' = "get" /\ count' = 0
           /\ \E n \in 1..RspTimer : ctimer' = n
           /\ UNCHANGED <<result, toServer>>
  <2>1. PICK n \in 1..RspTimer : ctimer' = n
    BY <1>4
  <2>2. n \in 0..RspTimer /\ 0 \in 0..RspFail
    BY TimersAssumption
  <2>3. Scalars'
    BY <1>1, <1>4, <2>1, <2>2 DEF Inv, Scalars, sproxyVars, appVars
  <2>. QED  BY <1>3, <1>4, <2>3
<1>5. CASE /\ m.kind = "ACK" /\ client = "get" /\ count' = 0
           /\ UNCHANGED <<client, result, ctimer, toServer>>
  <2>1. 0 \in 0..RspFail
    BY TimersAssumption
  <2>2. Scalars'
    BY <1>1, <1>5, <2>1 DEF Inv, Scalars, sproxyVars, appVars
  <2>. QED  BY <1>3, <1>5, <2>2
<1>6. CASE client \notin {"req", "get"} /\ UNCHANGED <<clientVars, toServer>>
  <2>1. Scalars'
    BY <1>1, <1>6 DEF Inv, Scalars, clientVars, sproxyVars, appVars
  <2>2. toServer' = toServer /\ client' = client
    BY <1>6 DEF clientVars
  <2>3. client' \in {client, "get"} \ {"req"}
    BY <1>6, <2>2
  <2>. QED  BY <1>3, <2>1, <2>2, <2>3
<1>. QED  BY <1>2, <1>4, <1>5, <1>6 DEF ClientReceive

LEMMA HangupInv == Inv /\ Hangup => Inv'
<1>. SUFFICES ASSUME Inv, Hangup PROVE Inv'
  OBVIOUS
<1>1. /\ client \in {"req", "get", "local"} /\ client' = "closed" /\ ctimer' = Off /\ count' = 0
      /\ app' = IF client = "local" THEN "none" ELSE app
      /\ UNCHANGED <<result, server, sproxyVars, invoked, outcome, crashes, netVars>>
  BY DEF Hangup
<1>2. Scalars' /\ Channels'
  BY <1>1, TimersAssumption DEF Inv, Scalars, Channels, sproxyVars, netVars
<1>3. Fresh' /\ LocalAlone' /\ AppAwaited' /\ NoTimer' /\ DunLast'
  BY <1>1 DEF Inv, Fresh, LocalAlone, AppAwaited, NoTimer, DunLast, sproxyVars, netVars
<1>4. Counted'
  BY <1>1, TimersAssumption DEF Inv, Counted, Scalars
<1>5. Unasked'
  BY <1>1 DEF Inv, Unasked, Wanted, Asking, sproxyVars, netVars
<1>6. Outlives'
  BY <1>1 DEF Inv, Outlives, Life, sproxyVars, netVars
<1>. QED  BY <1>2, <1>3, <1>4, <1>5, <1>6 DEF Inv

-----------------------------------------------------------------------------
(* Messages to the server.                                                  *)

LEMMA TakenKeeps ==
  ASSUME Inv, toServer # <<>>, toServer' = Tail(toServer), client' = client
  PROVE  /\ DunLast' /\ (Wanted' => Wanted) /\ client \notin {"idle", "local"}
         /\ Head(toServer).kind = "REQ" => Wanted
         /\ Head(toServer).kind = "DUN" => ~Wanted' /\ toServer' = <<>>
<1>1. DunLast'
  BY Taken DEF Inv, DunLast, Channels
<1>2. Wanted' => Wanted
  BY Taken DEF Inv, Wanted, Asking
<1>3. client \notin {"idle", "local"}
  BY DEF Inv, Fresh, LocalAlone
<1>4. Head(toServer).kind = "REQ" => Wanted
  BY Taken DEF Inv, Wanted, Asking
<1>5. ASSUME Head(toServer).kind = "DUN"
      PROVE  ~Wanted' /\ toServer' = <<>>
  <2>1. client = "ended" /\ Len(toServer) = 1
    BY <1>5, Taken DEF Inv, DunLast
  <2>2. toServer' = <<>>
    BY <2>1, Taken DEF Inv, Channels
  <2>. QED  BY <2>1, <2>2 DEF Wanted, Asking
<1>. QED  BY <1>1, <1>2, <1>3, <1>4, <1>5

\* The message changes nothing, or it is lost.
LEMMA IgnoreInv ==
  ASSUME Inv, toServer # <<>>, toServer' = Tail(toServer), toClient' \in Seq(ToClient),
         UNCHANGED <<clientVars, server, sproxyVars, appVars, crashes>>
  PROVE  Inv'
<1>1. Scalars' /\ Channels'
  BY Taken DEF Inv, Scalars, Channels, clientVars, sproxyVars, appVars
<1>2. DunLast' /\ (Wanted' => Wanted) /\ client \notin {"idle", "local"}
  BY TakenKeeps DEF clientVars
<1>3. Fresh' /\ LocalAlone' /\ AppAwaited' /\ NoTimer' /\ Counted' /\ Unasked'
  BY <1>2 DEF Inv, Fresh, LocalAlone, AppAwaited, NoTimer, Counted, Unasked,
              clientVars, sproxyVars, appVars
<1>4. Outlives'
  <2>1. Life' = Life /\ Patience' = Patience
    BY DEF Life, Patience, clientVars, sproxyVars
  <2>2. \A i \in DOMAIN toServer' : i + 1 \in DOMAIN toServer /\ toServer'[i] = toServer[i + 1]
    BY Taken DEF Inv
  <2>. QED  BY <2>1, <2>2 DEF Inv, Outlives, clientVars, sproxyVars
<1>. QED  BY <1>1, <1>2, <1>3, <1>4 DEF Inv

LEMMA AnswerInv ==
  ASSUME Inv, toServer # <<>>, toServer' = Tail(toServer), sproxy # "none", Answer,
         UNCHANGED <<clientVars, server, appVars, crashes>>
  PROVE  Inv'
<1>1. CASE sproxy # "done"
  BY <1>1, IgnoreInv, Replied DEF Answer, Inv
<1>2. CASE sproxy = "done"
  <2>1. StartKeep /\ Reply("RSP", status) /\ UNCHANGED <<sproxy, status>>
    BY <1>2 DEF Answer
  <2>2. Scalars'
    <3>1. PICK n \in 1..Keep : stimer' = n /\ timing' = FALSE /\ speriod' = Keep
      BY <2>1 DEF StartKeep
    <3>2. n \in 0..Keep
      BY TimersAssumption
    <3>. QED  BY <2>1, <3>1, <3>2, ZenonT(40) DEF Inv, Scalars, clientVars, appVars
  <2>3. Channels'
    BY <2>1, Taken, Replied DEF Inv, Channels, Scalars
  <2>4. DunLast' /\ client \notin {"idle", "local"}
    BY TakenKeeps DEF clientVars
  <2>5. Fresh' /\ LocalAlone' /\ AppAwaited' /\ NoTimer' /\ Counted' /\ Unasked'
    BY <1>2, <2>1, <2>4 DEF Inv, Fresh, LocalAlone, AppAwaited, NoTimer, Counted, Unasked,
                            clientVars, appVars
  <2>. QED  BY <2>1, <2>2, <2>3, <2>4, <2>5, KeepOutlives DEF Inv
<1>. QED  BY <1>1, <1>2

\* A request for a call that the server does not know.
LEMMA NewCallInv ==
  ASSUME Inv, toServer # <<>>, toServer' = Tail(toServer), sproxy = "none",
         Head(toServer).kind = "REQ",
         sproxy' = "waiting", status' = 0, stimer' = Off, timing' \in BOOLEAN,
         app' \in {app, "queued"}, Reply("ACK", 0),
         UNCHANGED <<clientVars, server, speriod, invoked, outcome, crashes>>
  PROVE  Inv'
<1>1. Scalars' /\ Channels'
  BY Taken, Replied DEF Inv, Scalars, Channels, clientVars
<1>2. DunLast' /\ Wanted /\ client \notin {"idle", "local"}
  BY TakenKeeps DEF clientVars
<1>3. invoked <= crashes /\ app = "none" /\ invoked \in Nat /\ crashes \in Nat
  BY <1>2, TimersAssumption DEF Inv, Unasked, Scalars
<1>4. Counted'
  BY <1>3 DEF Counted
<1>5. Fresh' /\ LocalAlone' /\ AppAwaited' /\ NoTimer' /\ Unasked' /\ Outlives'
  BY <1>2 DEF Fresh, LocalAlone, AppAwaited, NoTimer, Unasked, Outlives, clientVars
<1>. QED  BY <1>1, <1>2, <1>4, <1>5 DEF Inv

\* The client has finished: the server may forget the call.
LEMMA DunInv ==
  ASSUME Inv, toServer # <<>>, toServer' = Tail(toServer), Head(toServer).kind = "DUN",
         ReceiveDun, UNCHANGED <<clientVars, server, invoked, outcome, crashes>>
  PROVE  Inv'
<1>1. Scalars' /\ Channels'
  <2>1. {0, 1} \subseteq 0..Keep
    BY TimersAssumption
  <2>. QED  BY <2>1, Taken DEF Inv, Scalars, Channels, ReceiveDun, clientVars
<1>2. DunLast' /\ client \notin {"idle", "local"} /\ ~Wanted'
  BY TakenKeeps DEF clientVars
<1>3. Fresh' /\ LocalAlone' /\ AppAwaited' /\ NoTimer' /\ Counted' /\ Unasked'
  BY <1>2 DEF Inv, Fresh, LocalAlone, AppAwaited, NoTimer, Counted, Unasked, ReceiveDun,
              clientVars
<1>4. Outlives'
  BY <1>2 DEF Outlives, Wanted, Asking
<1>. QED  BY <1>1, <1>2, <1>3, <1>4 DEF Inv

LEMMA ServerReceiveInv == Inv /\ ServerReceive => Inv'
<1>. SUFFICES ASSUME Inv, ServerReceive PROVE Inv'
  OBVIOUS
<1>1. /\ toServer # <<>> /\ toServer' = Tail(toServer)
      /\ UNCHANGED <<clientVars, server, invoked, outcome, crashes>>
  BY DEF ServerReceive
<1>2. Head(toServer).kind \in {"REQ", "GET", "DUN"} /\ toClient \in Seq(ToClient)
  BY <1>1, Taken DEF Inv, Channels, ToServer, Kinds
<1>3. CASE Head(toServer).kind = "REQ"
  <2>1. ReceiveReq
    BY <1>3 DEF ServerReceive
  <2>2. CASE server \notin {"open", "detached"}
    BY <1>1, <1>2, <2>1, <2>2, IgnoreInv DEF ReceiveReq, appVars
  <2>3. CASE server \in {"open", "detached"} /\ sproxy # "none"
    BY <1>1, <2>1, <2>3, AnswerInv DEF ReceiveReq, appVars
  <2>4. CASE server \in {"open", "detached"} /\ sproxy = "none"
    <3>1. /\ sproxy' = "waiting" /\ status' = 0 /\ stimer' = Off /\ timing' \in BOOLEAN
          /\ UNCHANGED speriod /\ app' \in {app, "queued"} /\ Reply("ACK", 0)
      BY <2>1, <2>4 DEF ReceiveReq
    <3>. QED  BY <1>1, <1>3, <2>4, <3>1, NewCallInv
  <2>. QED  BY <2>2, <2>3, <2>4
<1>4. CASE Head(toServer).kind = "GET"
  <2>1. ReceiveGet
    BY <1>4 DEF ServerReceive
  <2>2. CASE sproxy # "none"
    BY <1>1, <2>1, <2>2, AnswerInv DEF ReceiveGet, appVars
  <2>3. CASE sproxy = "none"
    <3>1. UNCHANGED <<sproxyVars, app>> /\ toClient' \in Seq(ToClient)
      BY <1>2, <2>1, <2>3, Replied DEF ReceiveGet, Inv
    <3>. QED  BY <1>1, <3>1, IgnoreInv DEF appVars
  <2>. QED  BY <2>2, <2>3
<1>5. CASE Head(toServer).kind = "DUN"
  BY <1>1, <1>5, DunInv DEF ServerReceive
<1>. QED  BY <1>2, <1>3, <1>4, <1>5

LEMMA LoseInv == Inv /\ (LoseToServer \/ LoseToClient) => Inv'
<1>. SUFFICES ASSUME Inv, LoseToServer \/ LoseToClient PROVE Inv'
  OBVIOUS
<1>1. CASE LoseToServer
  <2>1. toClient' \in Seq(ToClient)
    BY <1>1 DEF Inv, Channels, LoseToServer
  <2>. QED  BY <1>1, <2>1, IgnoreInv DEF LoseToServer
<1>2. CASE LoseToClient
  <2>1. Channels'
    BY <1>2, TakenByClient DEF Inv, Channels, LoseToClient
  <2>2. /\ Scalars' /\ Fresh' /\ LocalAlone' /\ AppAwaited' /\ NoTimer' /\ DunLast'
        /\ Counted' /\ Unasked' /\ Outlives'
    BY <1>2 DEF LoseToClient, Inv, Scalars, Fresh, LocalAlone, AppAwaited, NoTimer, DunLast,
                Counted, Unasked, Wanted, Asking, Outlives, Life, Patience,
                clientVars, sproxyVars, appVars
  <2>. QED  BY <2>1, <2>2 DEF Inv
<1>. QED  BY <1>1, <1>2

-----------------------------------------------------------------------------
(* The server's timer, the application and the server's end.                *)

LEMMA StartTimingInv == Inv /\ StartTiming => Inv'
<1>. SUFFICES ASSUME Inv, StartTiming PROVE Inv'
  OBVIOUS
<1>1. /\ stimer = 0 /\ timing = FALSE /\ timing' = TRUE /\ stimer' = speriod
      /\ speriod \in {1, Keep} /\ Keep \in Nat \ {0}
      /\ UNCHANGED <<clientVars, server, sproxy, status, speriod, appVars, crashes, netVars>>
  BY TimersAssumption DEF StartTiming, Inv, Scalars
<1>2. Scalars' /\ Channels'
  <2>1. speriod \in 0..Keep
    BY <1>1
  <2>. QED  BY <1>1, <2>1 DEF Inv, Scalars, Channels, clientVars, appVars, netVars
<1>3. /\ Fresh' /\ LocalAlone' /\ AppAwaited' /\ DunLast' /\ Counted' /\ Unasked'
  BY <1>1 DEF Inv, Fresh, LocalAlone, AppAwaited, DunLast, Counted, Unasked, Wanted, Asking,
              clientVars, appVars, netVars
<1>4. NoTimer'
  BY <1>1 DEF Inv, NoTimer, Off
<1>5. Outlives'
  <2>1. Life' = Life /\ Patience' = Patience
    BY <1>1 DEF Life, Patience, clientVars
  <2>. QED  BY <1>1, <2>1 DEF Inv, Outlives, Off, clientVars, netVars
<1>. QED  BY <1>2, <1>3, <1>4, <1>5 DEF Inv

\* When the server forgets a call, no request for it can arrive any more.
LEMMA LastAsked ==
  ASSUME Inv, sproxy # "none", stimer = 0, timing = TRUE
  PROVE  ~Wanted
<1>1. Life = 0
  BY DEF Life
<1>2. client # "req"
  <2>1. client = "req" => Life > Patience /\ Patience \in Nat
    BY PatienceBounds DEF Inv, Outlives, Off
  <2>. QED  BY <1>1, <2>1
<1>3. ASSUME NEW i \in DOMAIN toServer, toServer[i].kind = "REQ"
      PROVE  FALSE
  <2>1. toServer[i] \in ToServer
    BY DEF Inv, Channels
  <2>2. toServer[i].age \in 0..Delay
    BY <2>1 DEF ToServer, Kinds
  <2>3. Life > Delay - toServer[i].age
    BY <1>3 DEF Inv, Outlives, Off
  <2>. QED  BY <1>1, <2>2, <2>3, TimersAssumption
<1>. QED  BY <1>2, <1>3 DEF Wanted, Asking

LEMMA ForgetInv == Inv /\ Forget => Inv'
<1>. SUFFICES ASSUME Inv, Forget PROVE Inv'
  OBVIOUS
<1>1. /\ stimer = 0 /\ timing = TRUE /\ sproxy # "none" /\ stimer' = Off /\ sproxy' = "none"
      /\ app' = IF sproxy = "waiting" THEN "none" ELSE app
      /\ UNCHANGED <<clientVars, server, status, timing, speriod, invoked, outcome,
                     crashes, netVars>>
  BY DEF Forget, Inv, NoTimer, Off, Scalars
<1>2. Scalars' /\ Channels'
  BY <1>1 DEF Inv, Scalars, Channels, clientVars, netVars
<1>3. ~Wanted
  BY <1>1, LastAsked
<1>4. ~Wanted'
  BY <1>1, <1>3 DEF Wanted, Asking, clientVars, netVars
<1>5. Fresh' /\ LocalAlone' /\ AppAwaited' /\ NoTimer' /\ DunLast' /\ Unasked' /\ Outlives'
  BY <1>1, <1>4 DEF Inv, Fresh, LocalAlone, AppAwaited, NoTimer, DunLast, Unasked, Outlives,
                    clientVars, netVars
<1>6. Counted'
  BY <1>1, TimersAssumption DEF Inv, Counted, Scalars
<1>. QED  BY <1>2, <1>4, <1>5, <1>6 DEF Inv

LEMMA AppInvokeInv == Inv /\ AppInvoke => Inv'
<1>. SUFFICES ASSUME Inv, AppInvoke PROVE Inv'
  OBVIOUS
<1>1. /\ app = "queued" /\ app' = "running" /\ invoked' = invoked + 1
      /\ UNCHANGED <<clientVars, server, sproxyVars, outcome, crashes, netVars>>
      /\ invoked \in Nat /\ crashes \in Nat
  BY TimersAssumption DEF AppInvoke, Inv, Scalars
<1>2. Scalars' /\ Channels'
  BY <1>1 DEF Inv, Scalars, Channels, clientVars, sproxyVars, netVars
<1>3. Counted'
  BY <1>1 DEF Inv, Counted
<1>4. /\ Fresh' /\ LocalAlone' /\ AppAwaited' /\ NoTimer' /\ DunLast'
  BY <1>1 DEF Inv, Fresh, LocalAlone, AppAwaited, NoTimer, DunLast,
              clientVars, sproxyVars, netVars
<1>5. Unasked'
  <2>1. sproxy = "waiting" \/ ~Wanted
    BY <1>1 DEF Inv, AppAwaited, LocalAlone, Wanted, Asking
  <2>. QED  BY <1>1, <2>1 DEF Unasked, Wanted, Asking, clientVars, sproxyVars, netVars
<1>6. Outlives'
  BY <1>1 DEF Inv, Outlives, Life, Patience, clientVars, sproxyVars, netVars
<1>. QED  BY <1>2, <1>3, <1>4, <1>5, <1>6 DEF Inv

\* The application's invocation is completed, or withdrawn.
LEMMA CompleteInv ==
  ASSUME Inv, NEW s \in {-1, 0, 1}, app # "none", app' = "none", CompleteCall(s),
         outcome' \in {-1, 0, 1}, server' \in {"none", "open", "detached", "dead"},
         UNCHANGED <<invoked, crashes>>
  PROVE  Inv'
<1>1. /\ invoked \in Nat /\ crashes \in Nat
      /\ sproxy = "waiting" \/ client = "local"
  BY TimersAssumption DEF Inv, Scalars, AppAwaited
<1>2. Counted'
  BY TimersAssumption DEF Inv, Counted, Scalars
<1>3. CASE client = "local"
  <2>1. /\ client' = "ended" /\ result' = s /\ UNCHANGED <<count, ctimer, sproxyVars, netVars>>
        /\ sproxy = "none" /\ stimer = Off /\ toServer = <<>>
    BY <1>3 DEF CompleteCall, Inv, LocalAlone, NoTimer
  <2>2. Scalars' /\ Channels'
    BY <1>3, <2>1 DEF Inv, Scalars, Channels, sproxyVars, netVars
  <2>3. /\ Fresh' /\ LocalAlone' /\ AppAwaited' /\ NoTimer' /\ DunLast' /\ Outlives'
    BY <2>1 DEF Fresh, LocalAlone, AppAwaited, NoTimer, DunLast, Outlives, sproxyVars, netVars
  <2>4. Unasked'
    BY <2>1 DEF Unasked, Wanted, Asking, netVars
  <2>. QED  BY <1>2, <2>2, <2>3, <2>4 DEF Inv
<1>4. CASE client # "local"
  <2>1. /\ Completed(s) /\ UNCHANGED <<clientVars, toServer>> /\ sproxy = "waiting"
        /\ sproxy' = "done" /\ status' = s /\ StartKeep /\ Reply("RSP", s)
    BY <1>1, <1>4 DEF CompleteCall, Completed, Inv, AppAwaited
  <2>2. Scalars'
    <3>1. PICK n \in 1..Keep : stimer' = n /\ timing' = FALSE /\ speriod' = Keep
      BY <2>1 DEF StartKeep
    <3>2. n \in 0..Keep
      BY TimersAssumption
    <3>. QED  BY <2>1, <3>1, <3>2 DEF Inv, Scalars, clientVars
  <2>3. Channels'
    BY <2>1, Replied DEF Inv, Channels
  <2>4. /\ Fresh' /\ LocalAlone' /\ AppAwaited' /\ NoTimer' /\ DunLast' /\ Unasked'
    BY <1>4, <2>1 DEF Inv, Fresh, LocalAlone, AppAwaited, NoTimer, DunLast, Unasked, clientVars
  <2>. QED  BY <1>2, <2>1, <2>2, <2>3, <2>4, KeepOutlives DEF Inv
<1>. QED  BY <1>3, <1>4

LEMMA AppCompleteInv == Inv /\ AppComplete => Inv'
<1>. SUFFICES ASSUME Inv, AppComplete PROVE Inv'
  OBVIOUS
<1>1. PICK s \in {1, -1} : outcome' = s /\ CompleteCall(s)
  BY DEF AppComplete
<1>2. s \in {-1, 0, 1} /\ server' \in {"none", "open", "detached", "dead"}
  BY DEF AppComplete, Inv, Scalars
<1>. QED  BY <1>1, <1>2, CompleteInv DEF AppComplete

\* What does not concern the call: the server's node comes or goes.
LEMMA NodeInv ==
  ASSUME Inv, server' \in {"none", "open", "detached", "dead"}, app' = app,
         UNCHANGED <<clientVars, sproxyVars, invoked, outcome, crashes, netVars>>
  PROVE  Inv'
  BY DEF Inv, Scalars, Channels, Fresh, LocalAlone, AppAwaited, NoTimer, DunLast,
         Counted, Unasked, Wanted, Asking, Outlives, Life, Patience,
         clientVars, sproxyVars, netVars

LEMMA DetachInv ==
  ASSUME Inv, NEW next \in {"detached", "none"}, Detach(next)
  PROVE  Inv'
<1>1. CASE app # "none"
  <2>1. outcome' \in {-1, 0, 1} /\ server' \in {"none", "open", "detached", "dead"}
    BY DEF Detach, Inv, Scalars
  <2>. QED  BY <1>1, <2>1, CompleteInv DEF Detach
<1>2. CASE app = "none"
  BY <1>2, NodeInv DEF Detach
<1>. QED  BY <1>1, <1>2

LEMMA OpenInv == Inv /\ Open => Inv'
  BY NodeInv DEF Open, appVars

\* After a crash the server knows nothing, and may be asked anew.
LEMMA CrashInv == Inv /\ Crash => Inv'
<1>. SUFFICES ASSUME Inv, Crash PROVE Inv'
  OBVIOUS
<1>1. /\ client # "local" /\ crashes < MaxCrashes /\ server' = "dead" /\ crashes' = crashes + 1
      /\ sproxy' = "none" /\ stimer' = Off /\ app' = "none"
      /\ UNCHANGED <<clientVars, status, timing, speriod, invoked, outcome, netVars>>
      /\ invoked \in Nat /\ crashes \in Nat /\ invoked <= 1 + crashes
  BY TimersAssumption DEF Inv, Crash, Scalars, Counted
<1>2. Scalars' /\ Channels'
  BY <1>1, TimersAssumption DEF Inv, Scalars, Channels, clientVars, netVars
<1>3. Fresh' /\ LocalAlone' /\ AppAwaited' /\ NoTimer' /\ DunLast' /\ Outlives'
  BY <1>1 DEF Inv, Fresh, LocalAlone, AppAwaited, NoTimer, DunLast, Outlives,
              clientVars, netVars
<1>4. Counted' /\ Unasked'
  BY <1>1 DEF Counted, Unasked
<1>. QED  BY <1>2, <1>3, <1>4 DEF Inv

-----------------------------------------------------------------------------
(* Time passes alike for the server's timer, the client's, and messages.    *)

LEMMA TickInv == Inv /\ Tick => Inv'
<1>. SUFFICES ASSUME Inv, Tick PROVE Inv'
  OBVIOUS
<1>1. /\ ctimer # 0 /\ stimer # 0
      /\ ctimer' = (IF ctimer = Off THEN Off ELSE ctimer - 1)
      /\ stimer' = (IF stimer = Off THEN Off ELSE stimer - 1)
      /\ toServer' = Older(toServer) /\ toClient' = Older(toClient)
      /\ Young(toServer) /\ Young(toClient)
      /\ UNCHANGED <<client, result, count, server, sproxy, status, timing, speriod,
                     appVars, crashes>>
  BY DEF Tick
<1>2. /\ Channels' /\ Len(toServer') = Len(toServer) /\ DOMAIN toServer' = DOMAIN toServer
      /\ \A i \in DOMAIN toServer : /\ toServer'[i].kind = toServer[i].kind
                                    /\ toServer'[i].age = toServer[i].age + 1
  <2>1. toServer \in Seq(ToServer) /\ toClient \in Seq(ToClient)
    BY DEF Inv, Channels
  <2>2. /\ toServer' \in Seq(ToServer) /\ Len(toServer') = Len(toServer)
        /\ \A i \in DOMAIN toServer : /\ toServer'[i].kind = toServer[i].kind
                                      /\ toServer'[i].age = toServer[i].age + 1
    BY <1>1, <2>1, Aged DEF ToServer
  <2>3. toClient' \in Seq(ToClient)
    BY <1>1, <2>1, Aged DEF ToClient
  <2>4. DOMAIN toServer' = DOMAIN toServer
    BY <2>1, <2>2
  <2>. QED  BY <2>2, <2>3, <2>4 DEF Channels
<1>3. Scalars'
  <2>1. ctimer' \in (IF client = "req" THEN 0..AckTimer
                     ELSE IF client = "get" THEN 0..RspTimer ELSE {Off})
    BY <1>1, TimersAssumption DEF Inv, Scalars, Off
  <2>2. stimer' \in {Off} \cup 0..Keep
    BY <1>1, TimersAssumption DEF Inv, Scalars, Off
  <2>. QED  BY <1>1, <2>1, <2>2 DEF Inv, Scalars, appVars
<1>4. toServer' = <<>> <=> toServer = <<>>
  BY <1>2 DEF Inv, Channels
<1>5. /\ Fresh' /\ LocalAlone' /\ AppAwaited' /\ NoTimer' /\ DunLast' /\ Counted'
  BY <1>1, <1>2, <1>4 DEF Inv, Fresh, LocalAlone, AppAwaited, NoTimer, DunLast, Counted, appVars
<1>6. Unasked'
  BY <1>1, <1>2 DEF Inv, Unasked, Wanted, Asking, appVars
<1>7. Outlives'
  <2>. SUFFICES ASSUME sproxy # "none", stimer # Off
       PROVE  /\ client = "req" => Life' > Patience'
              /\ \A i \in DOMAIN toServer :
                   toServer[i].kind = "REQ" => Life' > Delay - toServer'[i].age
    BY <1>1, <1>2 DEF Outlives
  <2>1. Life' = Life - 1 /\ Life \in Nat
    <3>1. stimer \in 1..Keep /\ speriod \in Nat /\ timing \in BOOLEAN
      BY <1>1, TimersAssumption DEF Inv, Scalars
    <3>2. CASE timing = TRUE
      BY <1>1, <3>1, <3>2, TimersAssumption DEF Life
    <3>3. CASE timing = FALSE
      BY <1>1, <3>1, <3>3, TimersAssumption DEF Life
    <3>. QED  BY <3>1, <3>2, <3>3
  <2>2. ASSUME client = "req"
        PROVE  Life' > Patience'
    <3>1. PICK n \in Int : n = AckTimer * (AckFail - count)
      BY TimersAssumption DEF Inv, Scalars
    <3>2. ctimer \in 1..AckTimer /\ ctimer' = ctimer - 1
      BY <1>1, <2>2, TimersAssumption DEF Inv, Scalars, Off
    <3>3. Patience' = Patience - 1 /\ Patience \in Int
      BY <1>1, <3>1, <3>2, TimersAssumption DEF Patience
    <3>4. Life > Patience
      BY <2>2 DEF Inv, Outlives
    <3>. QED  BY <2>1, <3>3, <3>4
  <2>3. ASSUME NEW i \in DOMAIN toServer, toServer[i].kind = "REQ"
        PROVE  Life' > Delay - toServer'[i].age
    <3>1. toServer[i] \in ToServer
      BY DEF Inv, Channels
    <3>2. toServer[i].age \in Nat
      BY <3>1, TimersAssumption DEF ToServer, Kinds
    <3>3. Life > Delay - toServer[i].age
      BY <2>3 DEF Inv, Outlives
    <3>. QED  BY <1>2, <2>1, <3>2, <3>3, TimersAssumption
  <2>. QED  BY <2>2, <2>3
<1>. QED  BY <1>2, <1>3, <1>5, <1>6, <1>7 DEF Inv

-----------------------------------------------------------------------------
(* The theorems.                                                            *)

LEMMA InitInv == Init => Inv
<1>. SUFFICES ASSUME Init PROVE Inv
  OBVIOUS
<1>1. Scalars /\ Channels
  <2>1. 0 \in 0..AckFail /\ 0 \in 0..MaxCrashes /\ 0 \in Nat
    BY TimersAssumption
  <2>2. Scalars
    BY <2>1 DEF Init, Scalars
  <2>. QED  BY <2>2 DEF Init, Channels
<1>2. Fresh /\ LocalAlone /\ AppAwaited /\ NoTimer /\ DunLast /\ Counted /\ Unasked /\ Outlives
  BY DEF Init, Fresh, LocalAlone, AppAwaited, NoTimer, DunLast, Counted, Unasked, Wanted,
         Asking, Outlives
<1>. QED  BY <1>1, <1>2 DEF Inv

LEMMA StepInv == Inv /\ [Next]_vars => Inv'
<1>. SUFFICES ASSUME Inv, [Next]_vars PROVE Inv'
  OBVIOUS
<1>1. CASE UNCHANGED vars
  BY <1>1, NodeInv DEF vars, Inv, Scalars, appVars
<1>2. CASE Client
  BY <1>2, CallInv, CallLocalInv, ClientTimerInv, GiveUpInv, ClientReceiveInv, HangupInv
     DEF Client
<1>3. CASE Server
  BY <1>3, ServerReceiveInv, StartTimingInv, ForgetInv, AppInvokeInv, AppCompleteInv,
     DetachInv, OpenInv, CrashInv DEF Server
<1>4. CASE LoseToServer \/ LoseToClient
  BY <1>4, LoseInv
<1>5. CASE Tick
  BY <1>5, TickInv
<1>. QED  BY <1>1, <1>2, <1>3, <1>4, <1>5 DEF Next

THEOREM Invariant == Spec => []Inv
<1>1. Init => Inv
  BY InitInv
<1>2. Inv /\ [Next]_vars => Inv'
  BY StepInv
<1>. QED  BY <1>1, <1>2, PTL DEF Spec

\* Every variable keeps its type: attempts and timers stay within their
\* bounds, and no message is under way for longer than Delay.
THEOREM TypeCorrect == Spec => []TypeOK
<1>1. ASSUME Inv
      PROVE  TypeOK
  <2>1. \A ch \in {toServer, toClient} : \A i \in DOMAIN ch :
          ch[i] \in [kind : {"REQ", "GET", "DUN", "ACK", "RSP"}, st : {-1, 0, 1}, age : 0..Delay]
    <3>1. \A i \in DOMAIN toServer : toServer[i] \in ToServer
      BY <1>1 DEF Inv, Channels
    <3>2. \A i \in DOMAIN toClient : toClient[i] \in ToClient
      BY <1>1 DEF Inv, Channels
    <3>. QED  BY <3>1, <3>2 DEF ToServer, ToClient, Kinds
  <2>. QED  BY <1>1, <2>1 DEF Inv, Scalars, TypeOK
<1>. QED  BY <1>1, Invariant, PTL

\* The application is invoked once at most, and once more for each crash of
\* the server's process, however often the request is sent again or delayed.
THEOREM InvokedOnce == Spec => []AtMostOnce
<1>1. ASSUME Inv
      PROVE  AtMostOnce
  BY <1>1, TimersAssumption DEF Inv, Counted, Scalars, AtMostOnce
<1>. QED  BY <1>1, Invariant, PTL

-----------------------------------------------------------------------------
(* The result is true.  A client that waits for the result of a call hears  *)
(* of it from a server that knows it: what the server keeps outlives also   *)
(* the GETs, whose count begins anew with every ACK that is under way.      *)

Waiting == crashes = 0 /\ client \in {"req", "get"}

\* The longest time for which a client repeats GET, and what is left of it.
Full == RspTimer * (RspFail + 1)
GetPatience == ctimer + RspTimer * (RspFail - count)

GetsAcked == \A i \in DOMAIN toServer :
               toServer[i].kind = "GET" => client \in {"get", "ended", "closed"}
Unheard == client = "idle" => toClient = <<>>

\* The server knows the call that a client has had an answer for, or is to
\* have one, and has the result that it has sent.
Known ==
  Waiting =>
    /\ client = "get" => sproxy # "none"
    /\ sproxy = "waiting" => stimer = Off
    /\ \A i \in DOMAIN toClient :
         /\ sproxy # "none"
         /\ toClient[i].kind = "RSP" => sproxy = "done" /\ toClient[i].st = status

Kept ==
  Waiting /\ sproxy # "none" /\ stimer # Off =>
    /\ client = "get" => Life > GetPatience
    /\ \A i \in DOMAIN toClient :
         toClient[i].kind = "ACK" => Life > Full + Delay - toClient[i].age

Truthful == crashes = 0 /\ sproxy = "done" => status \in {0, outcome}

\* Once the client has a result, the application will not change it.
Settled ==
  result # 0 =>
    /\ client = "ended"
    /\ crashes = 0 => /\ result = outcome /\ app = "none" /\ sproxy # "waiting"
                      /\ sproxy = "none" => ~Wanted

Faithful == GetsAcked /\ Unheard /\ Known /\ Kept /\ Truthful /\ Settled

LEMMA FullBounds == Full \in Nat /\ Full + Delay <= Keep /\ Delay \in Nat /\ Keep \in Nat
<1>1. RspTimer * (RspFail + 1) \in Nat
  BY TimersAssumption, Z3
<1>. QED  BY <1>1, KeepAssumption, TimersAssumption DEF Full

LEMMA GetPatienceBounds ==
  ASSUME Scalars, client = "get"
  PROVE  GetPatience \in Nat /\ GetPatience <= Full
<1>1. /\ ctimer \in 0..RspTimer /\ count \in 0..RspFail
      /\ RspTimer \in Nat /\ RspFail \in Nat
  BY TimersAssumption DEF Scalars
<1>2. /\ RspTimer * (RspFail - count) \in Nat
      /\ RspTimer * (RspFail - count) <= RspTimer * RspFail
      /\ RspTimer * (RspFail + 1) = RspTimer * RspFail + RspTimer
      /\ RspTimer * RspFail \in Nat
  BY <1>1, Z3
<1>. QED  BY <1>1, <1>2 DEF GetPatience, Full

LEMMA GetPatienceKept ==
  ASSUME Scalars, client = "get", ctimer = 0, count' = count + 1, ctimer' = RspTimer
  PROVE  GetPatience' = GetPatience
<1>1. count \in Int /\ RspTimer \in Int /\ RspFail \in Int
  BY TimersAssumption DEF Scalars
<1>2. RspTimer * (RspFail - count) = RspTimer * (RspFail - (count + 1)) + RspTimer
  BY <1>1, Z3
<1>. QED  BY <1>1, <1>2 DEF GetPatience

\* A timer of Keep seconds that is started now is enough.
LEMMA KeepKept ==
  ASSUME Scalars', Channels', StartKeep
  PROVE  Kept'
<1>1. PICK l \in Nat : Life' = l /\ l > Keep
  <2>1. PICK n \in 1..Keep : stimer' = n /\ timing' = FALSE /\ speriod' = Keep
    BY DEF StartKeep
  <2>2. Life' = n + Keep
    BY <2>1 DEF Life
  <2>. QED  BY <2>2, FullBounds
<1>2. client' = "get" => Life' > GetPatience'
  <2>1. (client = "get" /\ Scalars => GetPatience \in Nat /\ GetPatience <= Full)'
    BY GetPatienceBounds, PTL
  <2>2. client' = "get" => \E p \in Nat : GetPatience' = p /\ p <= Full
    BY <2>1
  <2>. QED  BY <1>1, <2>2, FullBounds
<1>3. ASSUME NEW i \in DOMAIN toClient'
      PROVE  Life' > Full + Delay - toClient'[i].age
  <2>1. PICK m \in ToClient : toClient'[i] = m
    BY DEF Channels
  <2>2. m.age \in 0..Delay
    BY DEF ToClient, Kinds
  <2>. QED  BY <1>1, <2>1, <2>2, FullBounds
<1>. QED  BY <1>2, <1>3 DEF Kept

-----------------------------------------------------------------------------
(* The client's steps.                                                      *)

LEMMA CallTrue ==
  ASSUME Inv, Faithful, Call \/ CallLocal
  PROVE  Faithful'
<1>1. /\ client = "idle" /\ client' \in {"req", "local"} /\ sproxy = "none" /\ toServer = <<>>
      /\ UNCHANGED <<result, sproxyVars, outcome, crashes, toClient>> /\ toClient = <<>>
      /\ result = 0
  BY DEF Call, CallLocal, Inv, Fresh, Faithful, Unheard, Settled, appVars, netVars
<1>2. GetsAcked'
  <2>1. CASE Call
    BY <1>1, <2>1, Sent DEF Call, Inv, GetsAcked
  <2>2. CASE CallLocal
    BY <1>1, <2>2 DEF CallLocal, GetsAcked, netVars
  <2>. QED  BY <2>1, <2>2
<1>3. Unheard' /\ Known' /\ Kept' /\ Truthful' /\ Settled'
  BY <1>1 DEF Unheard, Known, Kept, Truthful, Settled, Waiting, sproxyVars
<1>. QED  BY <1>2, <1>3 DEF Faithful

LEMMA ClientTimerTrue ==
  ASSUME Inv, Faithful, ClientTimer
  PROVE  Faithful'
<1>. DEFINE k == IF client = "get" THEN "GET" ELSE "REQ"
<1>1. /\ client \in {"req", "get"} /\ ctimer = 0 /\ count' = count + 1 /\ Send(k)
      /\ k \in {"REQ", "GET", "DUN"}
      /\ client = "get" => ctimer' = RspTimer
      /\ UNCHANGED <<client, result, server, sproxyVars, appVars, crashes, toClient>>
  BY DEF Inv, ClientTimer, Scalars, Off
<1>2. GetsAcked'
  BY <1>1, Sent DEF Inv, Faithful, GetsAcked
<1>3. Unheard' /\ Known' /\ Truthful' /\ Settled'
  BY <1>1 DEF Faithful, Unheard, Known, Truthful, Settled, Waiting, sproxyVars, appVars
<1>4. Kept'
  <2>1. Life' = Life
    BY <1>1 DEF Life, sproxyVars
  <2>2. client = "get" => GetPatience' = GetPatience
    BY <1>1, GetPatienceKept DEF Inv
  <2>. QED  BY <1>1, <2>1, <2>2 DEF Faithful, Kept, Waiting, sproxyVars
<1>. QED  BY <1>2, <1>3, <1>4 DEF Faithful

\* An answer is the one of a server that has the result.
LEMMA RespondTrue ==
  ASSUME Inv, Faithful, NEW st \in {-1, 0, 1}, client \in {"req", "get"}, Respond(st),
         crashes = 0 /\ st # 0 => sproxy = "done" /\ st = status,
         UNCHANGED <<server, sproxyVars, appVars, crashes>>
  PROVE  Faithful'
<1>1. client' = "ended" /\ result' = st /\ Send("DUN")
  BY DEF Respond
<1>2. GetsAcked'
  BY <1>1, Sent DEF Inv, Faithful, GetsAcked
<1>3. Unheard' /\ Known' /\ Kept'
  BY <1>1 DEF Unheard, Known, Kept, Waiting
<1>4. Truthful'
  BY DEF Faithful, Truthful, sproxyVars, appVars
<1>5. Settled'
  BY <1>1 DEF Faithful, Truthful, Settled, Inv, AppAwaited, sproxyVars, appVars
<1>. QED  BY <1>2, <1>3, <1>4, <1>5 DEF Faithful

LEMMA ClientReceiveTrue ==
  ASSUME Inv, Faithful, ClientReceive
  PROVE  Faithful'
<1>. DEFINE m == Head(toClient)
<1>1. /\ m \in ToClient /\ m = toClient[1] /\ 1 \in DOMAIN toClient
      /\ m.kind \in {"ACK", "RSP"} /\ m.st \in {-1, 0, 1} /\ m.age \in 0..Delay
      /\ \A i \in DOMAIN toClient' : i + 1 \in DOMAIN toClient /\ toClient'[i] = toClient[i + 1]
      /\ UNCHANGED <<server, sproxyVars, appVars, crashes>>
  <2>1. /\ m \in ToClient /\ m = toClient[1] /\ 1 \in DOMAIN toClient
        /\ \A i \in DOMAIN toClient' : i + 1 \in DOMAIN toClient /\ toClient'[i] = toClient[i + 1]
    BY TakenByClient DEF Inv, ClientReceive
  <2>. QED  BY <2>1 DEF ClientReceive, ToClient, Kinds
<1>2. CASE m.kind = "RSP" /\ client \in {"req", "get"} /\ Respond(m.st)
  <2>1. crashes = 0 => sproxy = "done" /\ m.st = status
    BY <1>1, <1>2 DEF Faithful, Known, Waiting
  <2>. QED  BY <1>1, <1>2, <2>1, RespondTrue
<1>3. CASE /\ m.kind = "ACK" /\ client \in {"req", "get"} /\ client' = "get" /\ count' = 0
           /\ \E n \in 0..RspTimer : ctimer' = n
           /\ UNCHANGED <<result, toServer>>
  <2>1. result = 0
    BY <1>3 DEF Faithful, Settled
  <2>2. GetsAcked' /\ Unheard' /\ Truthful' /\ Settled'
    BY <1>1, <1>3, <2>1 DEF Faithful, GetsAcked, Unheard, Truthful, Settled, sproxyVars, appVars
  <2>3. Known'
    BY <1>1, <1>3 DEF Faithful, Known, Waiting, sproxyVars
  <2>4. Kept'
    <3>. SUFFICES ASSUME Waiting, sproxy # "none", stimer # Off
         PROVE  /\ Life > GetPatience'
                /\ \A i \in DOMAIN toClient' :
                     toClient'[i].kind = "ACK" => Life > Full + Delay - toClient'[i].age
      BY <1>1, <1>3 DEF Kept, Life, Waiting, sproxyVars
    <3>1. PICK n \in 0..RspTimer : ctimer' = n
      BY <1>3
    <3>2. GetPatience' = n + RspTimer * RspFail /\ Full = RspTimer * RspFail + RspTimer
          /\ RspTimer * RspFail \in Nat
      <4>1. RspTimer \in Nat /\ RspFail \in Nat
        BY TimersAssumption
      <4>2. RspTimer * (RspFail + 1) = RspTimer * RspFail + RspTimer /\ RspFail - 0 = RspFail
            /\ RspTimer * RspFail \in Nat
        BY <4>1, Z3
      <4>. QED  BY <1>3, <3>1, <4>2 DEF GetPatience, Full
    <3>3. Life > Full + Delay - m.age
      BY <1>1, <1>3 DEF Faithful, Kept
    <3>4. Life \in Int
      BY TimersAssumption DEF Life, Inv, Scalars, Off
    <3>5. Full \in Nat /\ Delay \in Nat /\ m.age \in 0..Delay
      BY <1>1, FullBounds
    <3>6. Life > Full
      BY <3>3, <3>4, <3>5
    <3>7. n + RspTimer * RspFail <= Full
      BY <3>2, TimersAssumption
    <3>8. Life > GetPatience'
      BY <3>2, <3>4, <3>5, <3>6, <3>7
    <3>. QED  BY <1>1, <3>8 DEF Faithful, Kept
  <2>. QED  BY <2>2, <2>3, <2>4 DEF Faithful
<1>4. CASE client \notin {"req", "get"} /\ client' = client /\ UNCHANGED <<result, toServer>>
  <2>1. GetsAcked' /\ Known' /\ Kept' /\ Truthful' /\ Settled'
    BY <1>1, <1>4 DEF Faithful, GetsAcked, Known, Kept, Truthful, Settled, Waiting, Wanted, Asking,
                      sproxyVars, appVars
  <2>2. Unheard'
    BY <1>1, <1>4 DEF Faithful, Unheard
  <2>. QED  BY <2>1, <2>2 DEF Faithful
<1>5. ClientReceive => \/ m.kind = "RSP" /\ client \in {"req", "get"} /\ Respond(m.st)
                       \/ /\ m.kind = "ACK" /\ client \in {"req", "get"} /\ client' = "get"
                          /\ count' = 0 /\ \E n \in 0..RspTimer : ctimer' = n
                          /\ UNCHANGED <<result, toServer>>
                       \/ /\ client \notin {"req", "get"} /\ client' = client
                          /\ UNCHANGED <<result, toServer>>
  <2>1. client = "get" => ctimer \in 0..RspTimer
    BY DEF Inv, Scalars
  <2>2. \A n \in 1..RspTimer : n \in 0..RspTimer
    BY TimersAssumption
  <2>. QED  BY <2>1, <2>2 DEF ClientReceive, clientVars
<1>. QED  BY <1>2, <1>3, <1>4, <1>5

LEMMA HangupTrue ==
  ASSUME Inv, Faithful, Hangup
  PROVE  Faithful'
  BY DEF Hangup, Faithful, GetsAcked, Unheard, Known, Kept, Truthful, Settled, Waiting,
         sproxyVars, netVars

-----------------------------------------------------------------------------
(* The server's steps.                                                      *)

\* What taking a message does to the formulas about the channel.
LEMMA TakenTrue ==
  ASSUME Inv, Faithful, toServer # <<>>, toServer' = Tail(toServer),
         UNCHANGED <<clientVars, outcome, crashes>>
  PROVE  /\ GetsAcked' /\ Unheard' /\ (Waiting' <=> Waiting)
         /\ Waiting /\ Head(toServer).kind = "GET" => sproxy # "none"
         /\ Head(toServer).kind = "DUN" => ~Waiting
<1>1. GetsAcked'
  BY Taken DEF Inv, Faithful, GetsAcked, clientVars
<1>2. Unheard'
  BY TakenKeeps DEF Unheard, clientVars
<1>3. Waiting' <=> Waiting
  BY DEF Waiting, clientVars
<1>4. Waiting /\ Head(toServer).kind = "GET" => sproxy # "none"
  BY Taken DEF Inv, Faithful, GetsAcked, Known, Waiting
<1>5. Head(toServer).kind = "DUN" => ~Waiting
  BY Taken DEF Inv, DunLast, Waiting
<1>. QED  BY <1>1, <1>2, <1>3, <1>4, <1>5

LEMMA IgnoreTrue ==
  ASSUME Inv, Faithful, toServer # <<>>, toServer' = Tail(toServer),
         \A i \in DOMAIN toClient' :
           \/ i \in DOMAIN toClient /\ toClient'[i] = toClient[i]
           \/ ~Waiting
           \/ sproxy = "waiting" /\ toClient'[i].kind = "ACK",
         UNCHANGED <<clientVars, server, sproxyVars, appVars, crashes>>
  PROVE  Faithful'
<1>1. GetsAcked' /\ Unheard' /\ (Waiting' <=> Waiting) /\ (Wanted' => Wanted)
  BY TakenTrue, TakenKeeps DEF clientVars, appVars
<1>2. Known'
  BY <1>1 DEF Faithful, Known, sproxyVars, clientVars
<1>3. Kept'
  <2>1. Life' = Life /\ GetPatience' = GetPatience
    BY DEF Life, GetPatience, sproxyVars, clientVars
  <2>. QED  BY <1>1, <2>1 DEF Faithful, Kept, Known, sproxyVars, clientVars
<1>4. Truthful' /\ Settled'
  BY <1>1 DEF Faithful, Truthful, Settled, clientVars, sproxyVars, appVars
<1>. QED  BY <1>1, <1>2, <1>3, <1>4 DEF Faithful

LEMMA AnswerTrue ==
  ASSUME Inv, Inv', Faithful, toServer # <<>>, toServer' = Tail(toServer), sproxy # "none", Answer,
         UNCHANGED <<clientVars, server, appVars, crashes>>
  PROVE  Faithful'
<1>1. CASE sproxy # "done"
  <2>1. Reply("ACK", 0) /\ UNCHANGED sproxyVars /\ sproxy = "waiting"
    BY <1>1 DEF Answer, Inv, Scalars
  <2>2. \A i \in DOMAIN toClient' : \/ i \in DOMAIN toClient /\ toClient'[i] = toClient[i]
                                    \/ toClient'[i] = Message("ACK", 0)
    BY <2>1, Replied DEF Inv
  <2>. QED  BY <2>1, <2>2, IgnoreTrue DEF Message
<1>2. CASE sproxy = "done"
  <2>1. StartKeep /\ Reply("RSP", status) /\ UNCHANGED <<sproxy, status>>
    BY <1>2 DEF Answer
  <2>2. \A i \in DOMAIN toClient' : \/ i \in DOMAIN toClient /\ toClient'[i] = toClient[i]
                                    \/ toClient'[i] = Message("RSP", status)
    BY <2>1, Replied DEF Inv, Scalars
  <2>3. GetsAcked' /\ Unheard' /\ (Waiting' <=> Waiting) /\ (Wanted' => Wanted)
    BY TakenTrue, TakenKeeps DEF clientVars, appVars
  <2>4. Known'
    BY <1>2, <2>1, <2>2, <2>3 DEF Faithful, Known, Message, clientVars
  <2>5. Kept'
    BY <2>1, KeepKept DEF Inv
  <2>6. Truthful' /\ Settled'
    BY <1>2, <2>1, <2>3 DEF Faithful, Truthful, Settled, clientVars, appVars
  <2>. QED  BY <2>3, <2>4, <2>5, <2>6 DEF Faithful
<1>. QED  BY <1>1, <1>2

LEMMA NewCallTrue ==
  ASSUME Inv, Faithful, toServer # <<>>, toServer' = Tail(toServer), sproxy = "none",
         Head(toServer).kind = "REQ", sproxy' = "waiting", stimer' = Off, Reply("ACK", 0),
         UNCHANGED <<clientVars, server, invoked, outcome, crashes>>
  PROVE  Faithful'
<1>1. GetsAcked' /\ Unheard' /\ (Waiting' <=> Waiting) /\ Wanted
  BY TakenTrue, TakenKeeps DEF clientVars
<1>2. \A i \in DOMAIN toClient' : \/ i \in DOMAIN toClient /\ toClient'[i] = toClient[i]
                                  \/ toClient'[i] = Message("ACK", 0)
  BY Replied DEF Inv
<1>3. Known'
  BY <1>1, <1>2 DEF Faithful, Known, Message, clientVars
<1>4. Kept' /\ Truthful'
  BY DEF Kept, Truthful
<1>5. Settled'
  BY <1>1 DEF Faithful, Settled, clientVars
<1>. QED  BY <1>1, <1>3, <1>4, <1>5 DEF Faithful

LEMMA DunTrue ==
  ASSUME Inv, Faithful, toServer # <<>>, toServer' = Tail(toServer), Head(toServer).kind = "DUN",
         ReceiveDun, UNCHANGED <<clientVars, server, invoked, outcome, crashes>>
  PROVE  Faithful'
<1>1. GetsAcked' /\ Unheard' /\ ~Waiting' /\ (Wanted' => Wanted)
  BY TakenTrue, TakenKeeps DEF clientVars
<1>2. Known' /\ Kept'
  BY <1>1 DEF Known, Kept
<1>3. Truthful' /\ Settled'
  BY <1>1 DEF Faithful, Truthful, Settled, ReceiveDun, clientVars
<1>. QED  BY <1>1, <1>2, <1>3 DEF Faithful

LEMMA ServerReceiveTrue ==
  ASSUME Inv, Inv', Faithful, ServerReceive
  PROVE  Faithful'
<1>1. /\ toServer # <<>> /\ toServer' = Tail(toServer)
      /\ UNCHANGED <<clientVars, server, invoked, outcome, crashes>>
      /\ Head(toServer).kind \in {"REQ", "GET", "DUN"}
  BY Taken DEF ServerReceive, Inv, ToServer, Kinds
<1>2. CASE Head(toServer).kind = "REQ"
  <2>1. ReceiveReq
    BY <1>2 DEF ServerReceive
  <2>2. CASE server \notin {"open", "detached"}
    BY <1>1, <2>1, <2>2, IgnoreTrue DEF ReceiveReq, appVars
  <2>3. CASE server \in {"open", "detached"} /\ sproxy # "none"
    BY <1>1, <2>1, <2>3, AnswerTrue DEF ReceiveReq, appVars
  <2>4. CASE server \in {"open", "detached"} /\ sproxy = "none"
    <3>1. sproxy' = "waiting" /\ stimer' = Off /\ Reply("ACK", 0)
      BY <2>1, <2>4 DEF ReceiveReq
    <3>. QED  BY <1>1, <1>2, <2>4, <3>1, NewCallTrue
  <2>. QED  BY <2>2, <2>3, <2>4
<1>3. CASE Head(toServer).kind = "GET"
  <2>1. ReceiveGet
    BY <1>3 DEF ServerReceive
  <2>2. CASE sproxy # "none"
    BY <1>1, <2>1, <2>2, AnswerTrue DEF ReceiveGet, appVars
  <2>3. CASE sproxy = "none"
    <3>1. UNCHANGED <<sproxyVars, app>>
      BY <2>1, <2>3 DEF ReceiveGet
    <3>2. ~Waiting
      BY <1>1, <1>3, <2>3, TakenTrue
    <3>. QED  BY <1>1, <3>1, <3>2, IgnoreTrue DEF appVars
  <2>. QED  BY <2>2, <2>3
<1>4. CASE Head(toServer).kind = "DUN"
  BY <1>1, <1>4, DunTrue DEF ServerReceive
<1>. QED  BY <1>1, <1>2, <1>3, <1>4

LEMMA LoseTrue ==
  ASSUME Inv, Faithful, LoseToServer \/ LoseToClient
  PROVE  Faithful'
<1>1. CASE LoseToServer
  <2>1. \A i \in DOMAIN toClient' : i \in DOMAIN toClient /\ toClient'[i] = toClient[i]
    BY <1>1 DEF LoseToServer
  <2>. QED  BY <1>1, <2>1, IgnoreTrue DEF LoseToServer
<1>2. CASE LoseToClient
  <2>1. /\ toClient # <<>>
        /\ \A i \in DOMAIN toClient' : i + 1 \in DOMAIN toClient /\ toClient'[i] = toClient[i + 1]
    BY <1>2, TakenByClient DEF LoseToClient, Inv
  <2>2. Unheard'
    BY <1>2, <2>1 DEF LoseToClient, Faithful, Unheard, clientVars
  <2>3. Known'
    BY <1>2, <2>1 DEF LoseToClient, Faithful, Known, Waiting, clientVars, sproxyVars
  <2>4. Kept'
    BY <1>2, <2>1 DEF LoseToClient, Faithful, Kept, Life, GetPatience, Waiting, clientVars, sproxyVars
  <2>5. GetsAcked' /\ Truthful' /\ Settled'
    BY <1>2 DEF LoseToClient, Faithful, GetsAcked, Truthful, Settled, Wanted, Asking,
                clientVars, sproxyVars, appVars
  <2>. QED  BY <2>2, <2>3, <2>4, <2>5 DEF Faithful
<1>. QED  BY <1>1, <1>2

LEMMA StartTimingTrue ==
  ASSUME Inv, Faithful, StartTiming
  PROVE  Faithful'
<1>1. /\ stimer = 0 /\ timing = FALSE /\ timing' = TRUE /\ stimer' = speriod
      /\ speriod \in Nat
      /\ UNCHANGED <<clientVars, server, sproxy, status, speriod, appVars, crashes, netVars>>
  BY TimersAssumption DEF StartTiming, Inv, Scalars
<1>2. GetsAcked' /\ Unheard' /\ Truthful' /\ Settled'
  BY <1>1 DEF Faithful, GetsAcked, Unheard, Truthful, Settled, Wanted, Asking,
              clientVars, appVars, netVars
<1>3. Known'
  BY <1>1 DEF Faithful, Known, Waiting, Off, clientVars, netVars
<1>4. Kept'
  <2>1. Life' = Life /\ GetPatience' = GetPatience
    BY <1>1 DEF Life, GetPatience, clientVars
  <2>. QED  BY <1>1, <2>1 DEF Faithful, Kept, Waiting, Off, clientVars, netVars
<1>. QED  BY <1>2, <1>3, <1>4 DEF Faithful

\* Nor does any client wait any more for the result of a call that is forgotten.
LEMMA ForgetTrue ==
  ASSUME Inv, Faithful, Forget
  PROVE  Faithful'
<1>1. /\ stimer = 0 /\ timing = TRUE /\ sproxy # "none" /\ sproxy' = "none"
      /\ app' = IF sproxy = "waiting" THEN "none" ELSE app
      /\ UNCHANGED <<clientVars, status, outcome, crashes, netVars>>
  BY DEF Forget, Inv, NoTimer, Off, Scalars
<1>2. ~Wanted /\ ~Wanted'
  BY <1>1, LastAsked DEF Wanted, Asking, clientVars, netVars
<1>3. ~Waiting'
  <2>1. client # "req"
    BY <1>2 DEF Wanted
  <2>2. Life = 0
    BY <1>1 DEF Life
  <2>3. client = "get" => GetPatience \in Nat
    BY GetPatienceBounds DEF Inv
  <2>4. ~(crashes = 0 /\ client = "get")
    BY <1>1, <2>2, <2>3 DEF Faithful, Kept, Waiting, Off
  <2>. QED  BY <1>1, <2>1, <2>4 DEF Waiting, clientVars
<1>4. Known' /\ Kept' /\ Truthful' /\ GetsAcked' /\ Unheard'
  BY <1>1, <1>3 DEF Known, Kept, Truthful, Faithful, GetsAcked, Unheard, clientVars, netVars
<1>5. Settled'
  BY <1>1, <1>2 DEF Faithful, Settled, clientVars
<1>. QED  BY <1>4, <1>5 DEF Faithful

LEMMA AppInvokeTrue ==
  ASSUME Inv, Faithful, AppInvoke
  PROVE  Faithful'
<1>1. GetsAcked' /\ Unheard' /\ Known' /\ Truthful' /\ Settled'
  BY DEF AppInvoke, Faithful, GetsAcked, Unheard, Known, Truthful, Settled, Waiting,
         clientVars, sproxyVars, netVars
<1>2. Kept'
  BY DEF AppInvoke, Faithful, Kept, Life, GetPatience, Waiting, clientVars, sproxyVars, netVars
<1>. QED  BY <1>1, <1>2 DEF Faithful

LEMMA CompleteTrue ==
  ASSUME Inv, Inv', Faithful, NEW s \in {-1, 0, 1}, app # "none", app' = "none", CompleteCall(s),
         outcome' = s \/ (s = 0 /\ outcome' = outcome), UNCHANGED <<invoked, crashes>>
  PROVE  Faithful'
<1>1. CASE client = "local"
  <2>1. /\ client' = "ended" /\ result' = s /\ UNCHANGED <<count, ctimer, sproxyVars, netVars>>
        /\ sproxy = "none" /\ toServer = <<>>
    BY <1>1 DEF CompleteCall, Inv, LocalAlone
  <2>2. ~Wanted'
    BY <2>1 DEF Wanted, Asking, netVars
  <2>. QED  BY <2>1, <2>2 DEF Faithful, GetsAcked, Unheard, Known, Kept, Truthful, Settled, Waiting,
                              sproxyVars, netVars
<1>2. CASE client # "local"
  <2>1. /\ sproxy = "waiting" /\ sproxy' = "done" /\ status' = s /\ StartKeep /\ Reply("RSP", s)
        /\ UNCHANGED <<clientVars, toServer>>
    BY <1>2 DEF CompleteCall, Completed, Inv, AppAwaited
  <2>2. \A i \in DOMAIN toClient' : \/ i \in DOMAIN toClient /\ toClient'[i] = toClient[i]
                                    \/ toClient'[i] = Message("RSP", s)
    BY <2>1, Replied DEF Inv
  <2>3. Known'
    BY <2>1, <2>2 DEF Faithful, Known, Message, Waiting, clientVars
  <2>4. Kept'
    BY <2>1, KeepKept DEF Inv
  <2>5. GetsAcked' /\ Unheard' /\ Truthful'
    <3>1. client # "idle"
      BY <2>1 DEF Inv, Fresh
    <3>. QED  BY <2>1, <3>1 DEF Faithful, GetsAcked, Unheard, Truthful, clientVars
  <2>6. Settled'
    BY <2>1 DEF Faithful, Settled, clientVars
  <2>. QED  BY <2>3, <2>4, <2>5, <2>6 DEF Faithful
<1>. QED  BY <1>1, <1>2

LEMMA NodeTrue ==
  ASSUME Faithful, UNCHANGED <<clientVars, sproxyVars, app, outcome, crashes, netVars>>
  PROVE  Faithful'
<1>1. GetsAcked' /\ Unheard' /\ Known' /\ Truthful'
  BY DEF Faithful, GetsAcked, Unheard, Known, Truthful, Waiting, clientVars, sproxyVars, netVars
<1>2. Kept'
  BY DEF Faithful, Kept, Life, GetPatience, Waiting, clientVars, sproxyVars, netVars
<1>3. Settled'
  BY DEF Faithful, Settled, Wanted, Asking, clientVars, sproxyVars, netVars
<1>. QED  BY <1>1, <1>2, <1>3 DEF Faithful

LEMMA ServerTrue ==
  ASSUME Inv, Inv', Faithful, Server
  PROVE  Faithful'
<1>1. CASE AppComplete
  <2>1. PICK s \in {1, -1} : outcome' = s /\ CompleteCall(s)
    BY <1>1 DEF AppComplete
  <2>. QED  BY <1>1, <2>1, CompleteTrue DEF AppComplete
<1>2. ASSUME NEW next \in {"detached", "none"}, Detach(next)
      PROVE  Faithful'
  <2>1. CASE app # "none"
    BY <1>2, <2>1, CompleteTrue DEF Detach
  <2>2. CASE app = "none"
    BY <1>2, <2>2, NodeTrue DEF Detach
  <2>. QED  BY <2>1, <2>2
<1>3. CASE Open
  BY <1>3, NodeTrue DEF Open, appVars
<1>4. CASE Crash
  <2>1. crashes' # 0 /\ UNCHANGED <<clientVars, netVars>>
    BY <1>4, TimersAssumption DEF Crash, Inv, Scalars
  <2>. QED  BY <2>1 DEF Faithful, GetsAcked, Unheard, Known, Kept, Truthful, Settled, Waiting,
                        clientVars, netVars
<1>. QED  BY <1>1, <1>2, <1>3, <1>4, ServerReceiveTrue, StartTimingTrue, ForgetTrue,
             AppInvokeTrue DEF Server

LEMMA TickTrue ==
  ASSUME Inv, Faithful, Tick
  PROVE  Faithful'
<1>1. /\ ctimer # 0 /\ stimer # 0
      /\ ctimer' = (IF ctimer = Off THEN Off ELSE ctimer - 1)
      /\ stimer' = (IF stimer = Off THEN Off ELSE stimer - 1)
      /\ toServer' = Older(toServer) /\ toClient' = Older(toClient)
      /\ Young(toServer) /\ Young(toClient)
      /\ UNCHANGED <<client, result, count, server, sproxy, status, timing, speriod,
                     appVars, crashes>>
  BY DEF Tick
<1>2. /\ DOMAIN toServer' = DOMAIN toServer
      /\ \A i \in DOMAIN toServer : toServer'[i].kind = toServer[i].kind
  BY <1>1, Aged DEF Inv, Channels, ToServer, Older
<1>3. /\ DOMAIN toClient' = DOMAIN toClient
      /\ \A i \in DOMAIN toClient : /\ toClient'[i].kind = toClient[i].kind
                                    /\ toClient'[i].st = toClient[i].st
                                    /\ toClient'[i].age = toClient[i].age + 1
                                    /\ toClient[i].age \in Nat
  <2>1. \A i \in DOMAIN toClient : toClient[i] \in ToClient
    BY DEF Inv, Channels
  <2>. QED  BY <1>1, <2>1, TimersAssumption DEF Older, ToClient, Kinds
<1>4. GetsAcked'
  BY <1>1, <1>2 DEF Faithful, GetsAcked
<1>5. Unheard'
  <2>1. client = "idle" => DOMAIN toClient' = {}
    BY <1>3 DEF Faithful, Unheard
  <2>2. toClient' \in Seq(ToClient)
    BY <1>1, Aged DEF Inv, Channels, ToClient
  <2>. QED  BY <1>1, <2>1, <2>2 DEF Unheard
<1>6. Known'
  BY <1>1, <1>3 DEF Faithful, Known, Waiting
<1>7. Truthful' /\ Settled'
  BY <1>1, <1>2 DEF Faithful, Truthful, Settled, Wanted, Asking, appVars
<1>8. Kept'
  <2>. SUFFICES ASSUME Waiting, sproxy # "none", stimer # Off
       PROVE  /\ client = "get" => Life' > GetPatience'
              /\ \A i \in DOMAIN toClient :
                   toClient[i].kind = "ACK" => Life' > Full + Delay - toClient'[i].age
    BY <1>1, <1>3 DEF Kept, Waiting
  <2>1. Life' = Life - 1 /\ Life \in Nat
    <3>1. stimer \in 1..Keep /\ speriod \in Nat /\ timing \in BOOLEAN
      BY <1>1, TimersAssumption DEF Inv, Scalars
    <3>2. CASE timing = TRUE
      BY <1>1, <3>1, <3>2, TimersAssumption DEF Life
    <3>3. CASE timing = FALSE
      BY <1>1, <3>1, <3>3, TimersAssumption DEF Life
    <3>. QED  BY <3>1, <3>2, <3>3
  <2>2. ASSUME client = "get"
        PROVE  Life' > GetPatience'
    <3>1. PICK n \in Int : n = RspTimer * (RspFail - count)
      BY TimersAssumption DEF Inv, Scalars
    <3>2. ctimer \in 1..RspTimer /\ ctimer' = ctimer - 1
      BY <1>1, <2>2, TimersAssumption DEF Inv, Scalars, Off
    <3>3. GetPatience' = GetPatience - 1 /\ GetPatience \in Int
      BY <1>1, <3>1, <3>2, TimersAssumption DEF GetPatience
    <3>4. Life > GetPatience
      BY <2>2 DEF Faithful, Kept
    <3>. QED  BY <2>1, <3>3, <3>4
  <2>3. ASSUME NEW i \in DOMAIN toClient, toClient[i].kind = "ACK"
        PROVE  Life' > Full + Delay - toClient'[i].age
    <3>1. Life > Full + Delay - toClient[i].age
      BY <2>3 DEF Faithful, Kept
    <3>. QED  BY <1>3, <2>1, <3>1, FullBounds
  <2>. QED  BY <2>2, <2>3
<1>. QED  BY <1>4, <1>5, <1>6, <1>7, <1>8 DEF Faithful

LEMMA InitTrue == Init => Faithful
  BY DEF Init, Faithful, GetsAcked, Unheard, Known, Kept, Truthful, Settled, Waiting

LEMMA StepTrue == Inv /\ Inv' /\ Faithful /\ [Next]_vars => Faithful'
<1>. SUFFICES ASSUME Inv, Inv', Faithful, [Next]_vars PROVE Faithful'
  OBVIOUS
<1>1. CASE UNCHANGED vars
  BY <1>1, NodeTrue DEF vars, appVars
<1>2. CASE Client
  <2>1. CASE GiveUp
    <3>1. client \in {"req", "get"}
      BY <2>1 DEF GiveUp, Inv, Scalars, Off
    <3>. QED  BY <2>1, <3>1, RespondTrue DEF GiveUp
  <2>. QED  BY <1>2, <2>1, CallTrue, ClientTimerTrue, ClientReceiveTrue, HangupTrue DEF Client
<1>. QED  BY <1>1, <1>2, ServerTrue, LoseTrue, TickTrue DEF Next

\* Without a crash the client's result is what the application answered: it is
\* never told that a call was refused which the server has carried out, is
\* carrying out, or has just forgotten.
THEOREM ResultHolds == Spec => []ResultTrue
<1>1. Init => Faithful
  BY InitTrue
<1>2. Inv /\ Inv' /\ Faithful /\ [Next]_vars => Faithful'
  BY StepTrue
<1>3. ASSUME Inv, Faithful
      PROVE  ResultTrue
  <2>1. crashes \in Nat
    BY <1>3, TimersAssumption DEF Inv, Scalars
  <2>. QED  BY <1>3, <2>1 DEF Faithful, Settled, ResultTrue
<1>. QED  BY <1>1, <1>2, <1>3, Invariant, PTL DEF Spec
=============================================================================
