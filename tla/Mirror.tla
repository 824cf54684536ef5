------------------------------- MODULE Mirror -------------------------------
(***************************************************************************)
(* The replication of a server's tree to a proxy in another process        *)
(* (piagent/src/pia_local.cpp, pia_proxy.cpp and pia_buffer.cpp; the       *)
(* numbering is in Tree).                                                  *)
(*                                                                         *)
(* The server multicasts values and lists of children when they change,    *)
(* packed into packets whose header has the numbers of its root: tseq_     *)
(* now, and as it was in the packet before (ltseq).  The proxy asks for    *)
(* what its copy lacks (TREE_REQ, DATA_REQ), asks again every second until *)
(* it is answered, and tells its clients that it is in sync when its root  *)
(* has the server's numbers, nothing is being asked for, and the server    *)
(* has said, by sync_seq_, that it is between two changes.  Packets may be *)
(* lost; they are not reordered.  A random cookie tells the incarnations   *)
(* of a server apart.                                                      *)
(*                                                                         *)
(* The main lock makes every operation of a server and every callback of a *)
(* proxy one step.  Fast data and its flags are left out: every node of    *)
(* the server is visible.                                                  *)
(***************************************************************************)
EXTENDS Tree

CONSTANTS
  Start,        \* the children that the server has when it is opened
  Query, Close, \* PIA_TIMER_SLOW_TICKS_QUERY and _CLOSE
  MaxOps,       \* bound on changes, openings and closings
  MaxTroubles   \* bound on lost and late packets and idle servers

ASSUME StartAssumption ==
  Start \subseteq Nodes \ {Root} /\ \A n \in Start : ParentOf(n) \in Start \cup {Root}
ASSUME TicksAssumption == {Query, Close} \subseteq Nat

VARIABLES
  \* pia_lroot_t
  cookie,       \* the incarnation, and whether it is there
  up,
  tree,         \* the tree
  sequence,     \* sequence_
  syncseq,      \* sync_seq_
  insync,       \* insync_; if not, job_sync is on its way
  passive,      \* slowtick_ >= PIA_SLOW_TIMER_SILENCE
  out,          \* slowbuffer_
  oldtseq,      \* old_tseq_
  \* pia_proot_t
  pup, ptree, pcookie,
  treqs, dreqs, \* the nodes with PIA_OUTSTANDING_TREE and _DATA
  psync,        \* insync_
  head,         \* msseq_, mdseq_, mnseq_, mtseq_, mgseq_ and mltseq_
  ptick,        \* slowtick_
  \* the network
  toServer, toProxy,
  \* history
  ops, troubles,
  snaps,        \* what the server's clients saw at its job_sync()s
  hidden        \* a change that no header will tell the proxy it has missed

serverVars == <<cookie, up, tree, sequence, syncseq, insync, passive, out, oldtseq>>
proxyVars == <<pup, ptree, pcookie, treqs, dreqs, psync, head, ptick>>
netVars == <<toServer, toProxy>>
bounds == <<ops, troubles>>
history == <<snaps, hidden>>
vars == <<serverVars, proxyVars, netVars, bounds, history>>

NoHead == [s |-> 0, d |-> 0, n |-> 0, t |-> 0, g |-> 0, l |-> 0]
OpenRoot == [n \in Nodes |-> IF n = Root THEN [Absent EXCEPT !.open = TRUE, !.vis = TRUE]
                                         ELSE Absent]

-----------------------------------------------------------------------------
(* The server's stanzas and packets.                                        *)

TreeEvt(t, n) ==
  LET kids == Visible(t, n)
  IN  [kind |-> "TREE", path |-> n, num |-> t[n].nseq,
       kids |-> [i \in DOMAIN kids |-> [path |-> kids[i], tseq |-> t[kids[i]].tseq]]]

DataEvt(t, n) == [kind |-> "DATA", path |-> n, num |-> t[n].dseq, kids |-> <<>>]

\* buffer_fixup_slow()
Packet(t, s, body, l) ==
  [cookie |-> cookie, s |-> s, d |-> t[Root].dseq, n |-> t[Root].nseq,
   t |-> t[Root].tseq, l |-> l, body |-> body]

\* buffer_transmit_slow() of the stanzas, the first when the tree is t and
\* sync_seq_ is s.  If the buffer is full then what it holds is sent first.
Transmit(t, s, stanzas, full) ==
  /\ hidden' = (hidden \/ (passive /\ out # <<>>))
  /\ IF passive \/ stanzas = <<>> THEN UNCHANGED <<out, oldtseq, toProxy>>
     ELSE IF full /\ out # <<>>
       THEN /\ toProxy' = Append(toProxy, Packet(t, s, out, oldtseq))
            /\ oldtseq' = t[Root].tseq /\ out' = stanzas
       ELSE out' = out \o stanzas /\ UNCHANGED <<oldtseq, toProxy>>

\* buffer_transmit_slow_thunk()
Flush ==
  /\ out # <<>>
  /\ toProxy' = Append(toProxy, Packet(tree, syncseq, out, oldtseq))
  /\ oldtseq' = tree[Root].tseq /\ out' = <<>>
  /\ UNCHANGED <<cookie, up, tree, sequence, syncseq, insync, passive, proxyVars,
                 toServer, bounds, history>>

-----------------------------------------------------------------------------
(* Changes to the server's tree.                                            *)

sameServer == UNCHANGED <<cookie, up, syncseq, passive>>
Act == ops < MaxOps /\ ops' = ops + 1 /\ UNCHANGED troubles
Trouble == troubles < MaxTroubles /\ troubles' = troubles + 1 /\ UNCHANGED ops

Operation == /\ up /\ Act
             /\ insync' = FALSE      \* ongoing()
             /\ UNCHANGED <<proxyVars, toServer, snaps>>

\* The tree after each of the three numbers that a new child takes: for its
\* data, for its parent's children when it becomes visible, when
\* server_childadded() has run, and for them again, by api_child_add().
Added(t, n, s) ==
  LET t1 == SetNseq(Show(Change(NewChild(t, n, 0), n, s + 1), n), ParentOf(n), s + 2)
  IN  <<t1, SetNseq(t1, ParentOf(n), s + 3)>>

\* api_child_add()
ChildAdd(n) ==
  /\ n # Root /\ ~tree[n].open /\ tree[ParentOf(n)].open
  /\ Operation
  /\ LET t == Added(tree, n, sequence) IN
       /\ tree' = t[2] /\ sequence' = sequence + 3
       /\ \E full \in BOOLEAN : Transmit(t[1], syncseq, <<DataEvt(t[1], n)>>, full)
  /\ sameServer

\* api_changed(), with other data.
Changed(n) ==
  /\ tree[n].open
  /\ Operation
  /\ sequence' = sequence + 1 /\ tree' = Change(tree, n, sequence')
  /\ \E full \in BOOLEAN : Transmit(tree', syncseq, <<DataEvt(tree', n)>>, full)
  /\ sameServer

\* A node that has left its parent's children_ is gone: childgone() and
\* server_childgone() of the parent.  w has the tree, sequence_, the stanzas
\* and the tree at the first.
Gone(w, n) ==
  LET t == SetNseq(ChildGone(w.tree, n), ParentOf(n), w.seq + 1)
  IN  [tree |-> [t EXCEPT ![n] = Absent], seq |-> w.seq + 1,
       sent |-> Append(w.sent, TreeEvt(t, ParentOf(n))),
       first |-> IF w.sent = <<>> THEN t ELSE w.first]

\* close0() of a child, after close0() of the nodes below it.
Shut(w, n) ==
  LET list == Children(w.tree, n)
      f[i \in 0..Len(list)] ==
        IF i = 0 THEN [w EXCEPT !.tree = Erase(@, n)]
        ELSE Gone([f[i - 1] EXCEPT !.tree = Erase(@, list[i])], list[i])
  IN  Gone(f[Len(list)], n)

\* close0() of the root.
Ended(w) ==
  LET list == Children(w.tree, Root)
      f[i \in 0..Len(list)] ==
        IF i = 0 THEN [w EXCEPT !.tree = Erase(@, Root)] ELSE Shut(f[i - 1], list[i])
  IN  f[Len(list)]

Closing == [tree |-> tree, seq |-> sequence, sent |-> <<>>, first |-> tree]

\* api_close() and api_shutdown() of a child.
ChildClose(n) ==
  /\ n # Root /\ tree[n].open
  /\ Operation
  /\ LET w == Shut(Closing, n) IN
       /\ tree' = w.tree /\ sequence' = w.seq
       /\ \E full \in BOOLEAN : Transmit(w.first, syncseq, w.sent, full)
  /\ sameServer

\* job_sync()
JobSync ==
  /\ up /\ ~insync
  /\ syncseq' = tree[Root].tseq /\ insync' = TRUE
  /\ snaps' = snaps \cup {Seen(tree, Root)}
  /\ \E full \in BOOLEAN : Transmit(tree, syncseq', <<TreeEvt(tree, Root)>>, full)
  /\ UNCHANGED <<cookie, up, tree, sequence, passive, proxyVars, toServer, bounds>>

\* A server is made, with another cookie, and given its first children
\* before anybody has asked for them.
Opened ==
  LET list == Among(Order, Start)
      f[i \in 0..Len(list)] ==
        IF i = 0 THEN <<Change(OpenRoot, Root, 1), 1>>
        ELSE <<Added(f[i - 1][1], list[i], f[i - 1][2])[2], f[i - 1][2] + 3>>
  IN  f[Len(list)]

ServerOpen ==
  /\ ~up /\ Act
  /\ up' = TRUE /\ cookie' = cookie + 1
  /\ tree' = Opened[1] /\ sequence' = Opened[2]
  /\ syncseq' = 0 /\ insync' = FALSE /\ passive' = TRUE /\ out' = <<>> /\ oldtseq' = 0
  /\ snaps' = {}
  /\ UNCHANGED <<proxyVars, netVars, hidden>>

serverGone == /\ up' = FALSE /\ tree' = [n \in Nodes |-> Absent] /\ sequence' = 0
              /\ syncseq' = 0 /\ insync' = TRUE /\ passive' = TRUE
              /\ out' = <<>> /\ oldtseq' = 0
              /\ snaps' = {}
              /\ UNCHANGED <<cookie, proxyVars, toServer, hidden>>

\* api_close() of the root: the children go, the buffer is sent, and then
\* empty packets, of which one stands for the five.
ServerClose ==
  /\ up /\ Act
  /\ LET w == Ended(Closing)
         sent == IF passive THEN out ELSE out \o w.sent
         bye == Packet(w.tree, syncseq, <<>>, w.tree[Root].tseq)
     IN  toProxy' = toProxy \o (IF sent = <<>> THEN <<bye>>
                                ELSE <<Packet(w.tree, syncseq, sent, oldtseq), bye>>)
  /\ serverGone

\* The server's process is gone.
ServerCrash == up /\ Act /\ serverGone /\ UNCHANGED toProxy

-----------------------------------------------------------------------------
(* What the server answers.                                                 *)

\* find(): the deepest node on the way to a path.
Good(t, n) == CHOOSE m \in Way[n] : t[m].open /\ \A k \in Way[n] : t[k].open => Len(k) <= Len(m)

Answer(t, r) ==
  IF ~t[r.path].open THEN <<TreeEvt(t, Good(t, r.path))>>
  ELSE IF r.kind = "TREE_REQ" THEN <<TreeEvt(t, r.path)>>
  ELSE IF r.kind = "DATA_REQ" THEN <<DataEvt(t, r.path)>> ELSE <<>>

Answers(t, requests) ==
  LET f[i \in 0..Len(requests)] ==
        IF i = 0 THEN <<>> ELSE f[i - 1] \o Answer(t, requests[i])
  IN  f[Len(requests)]

\* buffer_receive_slow() of the server.
ServerReceive ==
  /\ toServer # <<>>
  /\ toServer' = Tail(toServer)
  /\ IF ~up THEN UNCHANGED <<passive, out, oldtseq, toProxy>>
     ELSE LET answers == Answers(tree, Head(toServer))
              last == IF passive THEN tree[Root].tseq ELSE oldtseq
          IN /\ passive' = FALSE
             /\ \E full \in BOOLEAN :
                  IF full /\ out # <<>> /\ answers # <<>>
                    THEN /\ toProxy' = Append(toProxy, Packet(tree, syncseq, out, last))
                         /\ oldtseq' = tree[Root].tseq /\ out' = answers
                    ELSE out' = out \o answers /\ oldtseq' = last /\ UNCHANGED toProxy
  /\ UNCHANGED <<cookie, up, tree, sequence, syncseq, insync, proxyVars, bounds, history>>

\* job_timer() of the server has counted thirty seconds without a request.
\* Time is not measured here: it may happen whenever it likes.
GoPassive ==
  /\ up /\ ~passive /\ Trouble
  /\ passive' = TRUE
  /\ UNCHANGED <<cookie, up, tree, sequence, syncseq, insync, out, oldtseq, proxyVars, netVars, history>>

-----------------------------------------------------------------------------
(* The proxy.  A record w has what a callback works on: the tree, the       *)
(* outstanding requests, insync_, the numbers and the requests it sends.    *)

Working == [t |-> ptree, treqs |-> treqs, dreqs |-> dreqs, sync |-> psync, h |-> head,
            sent |-> <<>>]

Request(kind, n) == [kind |-> kind, path |-> n]
Say(w, kind, n) == [w EXCEPT !.sent = Append(@, Request(kind, n))]

\* transmit_treq(1) and transmit_dreq(1)
AskTree(w, n) == IF n \in w.treqs THEN w
                 ELSE Say([w EXCEPT !.treqs = @ \cup {n}], "TREE_REQ", n)
AskData(w, n) == IF n \in w.dreqs THEN w
                 ELSE Say([w EXCEPT !.dreqs = @ \cup {n}], "DATA_REQ", n)
AskFast(w, n) == Say(w, "FAST_REQ", n)

\* What close() does when the children are gone.
Leave(w, n) ==
  LET e == Erase(w.t, n)
      t == IF e[n].vis THEN ChildGone(e, n) ELSE e
  IN  [w EXCEPT !.t = [t EXCEPT ![n] = Absent], !.treqs = @ \ {n}, !.dreqs = @ \ {n}]

\* Mutant of Drop: the nodes below stay in the list of requests.
DropNode(w, n) ==
  LET gone == Kids(w.t, n) \cup {n}
  IN  [w EXCEPT !.t = [m \in Nodes |-> IF m \in gone THEN Absent ELSE @[m]],
                !.treqs = @ \ {n}, !.dreqs = @ \ {n}]

\* close() of nodes that the server's list does not have, with what is below.
Drop(w, n) ==
  LET list == Children(w.t, n)
      f[i \in 0..Len(list)] ==
        IF i = 0 THEN [w EXCEPT !.t = Erase(@, n)] ELSE Leave(f[i - 1], list[i])
  IN  Leave(f[Len(list)], n)

\* Mutant of Check: mgseq_ is not asked.
CheckNumber(w, kid) ==
  LET c == kid.path IN
  IF w.t[c].open
    THEN LET a == IF kid.tseq # w.t[c].tseq THEN AskTree(AskData(w, c), c) ELSE w
         IN  IF w.t[c].vis THEN a ELSE AskFast(a, c)
    ELSE AskTree(AskData([w EXCEPT !.t = NewChild(@, c, 0), !.sync = FALSE], c), c)

\* check(): a child of the server's list.
Check(w, kid) ==
  LET c == kid.path IN
  IF w.t[c].open
    THEN LET a == IF kid.tseq # w.t[c].tseq \/ w.t[c].tseq > w.h.g
                  THEN AskTree(AskData(w, c), c) ELSE w
         IN  IF w.t[c].vis THEN a ELSE AskFast(a, c)
    ELSE AskTree(AskData([w EXCEPT !.t = NewChild(@, c, 0), !.sync = FALSE], c), c)

Checked(w, kids) ==
  LET f[i \in 0..Len(kids)] == IF i = 0 THEN w ELSE Check(f[i - 1], kids[i])
  IN  f[Len(kids)]

Dropped(w, dead) ==
  LET f[i \in 0..Len(dead)] == IF i = 0 THEN w ELSE Drop(f[i - 1], dead[i])
  IN  f[Len(dead)]

ReceiveTree(w, z) ==
  IF ~w.t[z.path].open THEN w
  ELSE LET a == Checked([w EXCEPT !.sync = FALSE], z.kids)
           dead == Kids(a.t, z.path) \ {z.kids[i].path : i \in DOMAIN z.kids}
           b == Dropped(a, Among(Order, dead))
       IN  [b EXCEPT !.t = SetNseq(@, z.path, z.num), !.treqs = @ \ {z.path}]

\* receive_data(): for a node that is known, one whose parent is, or another.
ReceiveData(w, z) ==
  LET n == z.path IN
  IF w.t[n].open
    THEN LET same == w.t[n].vis /\ w.t[n].dseq = z.num
             t == Change(w.t, n, z.num)
         IN  [w EXCEPT !.t = IF t[n].vis THEN t ELSE Show(t, n),
                       !.sync = @ /\ same, !.dreqs = @ \ {n}]
  ELSE IF Good(w.t, n) = ParentOf(n)
    THEN [w EXCEPT !.t = Show(NewChild(@, n, z.num), n), !.sync = FALSE,
                   !.treqs = @ \cup {n}]
  ELSE AskTree(w, Good(w.t, n))

Receive(w, z) == IF z.kind = "TREE" THEN ReceiveTree(w, z) ELSE ReceiveData(w, z)

Received(w, body) ==
  LET f[i \in 0..Len(body)] == IF i = 0 THEN w ELSE Receive(f[i - 1], body[i])
  IN  f[Len(body)]

\* Mutant of CheckSync: msseq_ is not asked.
CheckSyncAnyTime(w, rt) ==
  LET root == w.t[Root] IN
  IF w.treqs \cup w.dreqs # {} THEN w
  ELSE IF w.h.t = root.tseq /\ w.h.n = root.nseq /\ w.h.d = root.dseq
    THEN [w EXCEPT !.h.g = w.h.t, !.sync = TRUE]
  ELSE LET a == IF rt /\ (w.h.t # root.tseq \/ w.h.n # root.nseq) THEN AskTree(w, Root) ELSE w
       IN  IF rt /\ w.h.d # root.dseq THEN AskData(a, Root) ELSE a

\* check_sync()
CheckSync(w, rt) ==
  LET root == w.t[Root] IN
  IF w.treqs \cup w.dreqs # {} THEN w
  ELSE IF /\ w.h.t = root.tseq /\ w.h.n = root.nseq /\ w.h.d = root.dseq
          /\ w.h.s = root.tseq
    THEN [w EXCEPT !.h.g = w.h.t, !.sync = TRUE]
  ELSE LET a == IF rt /\ (w.h.t # root.tseq \/ w.h.n # root.nseq) THEN AskTree(w, Root) ELSE w
       IN  IF rt /\ w.h.d # root.dseq THEN AskData(a, Root) ELSE a

\* The end of buffer_receive_slow(): the numbers of the header.
Heading(w, p) ==
  LET h == [w.h EXCEPT !.s = p.s, !.d = p.d, !.n = p.n, !.t = p.t]
      a == IF p.l # h.l THEN AskTree([w EXCEPT !.h = h], Root)
           ELSE CheckSync([w EXCEPT !.h = [h EXCEPT !.g = IF p.l = @ THEN p.t ELSE @]], FALSE)
  IN  [a EXCEPT !.h.l = p.t]

Put(w) ==
  /\ ptree' = w.t /\ treqs' = w.treqs /\ dreqs' = w.dreqs /\ psync' = w.sync /\ head' = w.h
  /\ toServer' = IF w.sent = <<>> THEN toServer ELSE Append(toServer, w.sent)

noProxy == /\ pup' = FALSE /\ ptree' = [n \in Nodes |-> Absent] /\ pcookie' = 0
           /\ treqs' = {} /\ dreqs' = {} /\ psync' = FALSE /\ head' = NoHead /\ ptick' = 0

\* buffer_receive_slow() of the proxy.  A new cookie and an empty packet
\* close it.
ProxyReceive ==
  /\ toProxy # <<>>
  /\ toProxy' = Tail(toProxy)
  /\ LET p == Head(toProxy) IN
     IF ~pup THEN UNCHANGED <<proxyVars, toServer>>
     ELSE IF pcookie \notin {0, p.cookie} \/ p.body = <<>> THEN noProxy /\ UNCHANGED toServer
     ELSE /\ Put(Heading(Received(Working, p.body), p))
          /\ pcookie' = p.cookie /\ ptick' = 0 /\ UNCHANGED pup
  /\ UNCHANGED <<serverVars, bounds, history>>

\* A client of another process asks for the server: pia_proot_t().
ProxyOpen ==
  /\ ~pup /\ Act
  /\ pup' = TRUE /\ pcookie' = 0 /\ ptick' = Query + 1
  /\ Put([t |-> OpenRoot, treqs |-> {Root}, dreqs |-> {Root}, sync |-> FALSE, h |-> NoHead,
          sent |-> <<Request("TREE_REQ", Root), Request("DATA_REQ", Root)>>])
  /\ UNCHANGED <<serverVars, toProxy, history>>

\* Mutant of Again: only the root's list of children is asked for again.
AgainRoot(w) == IF Root \in w.treqs THEN Say(w, "TREE_REQ", Root) ELSE w

\* retransmit(), parents first.
Repeat(w, n) ==
  LET a == IF n \in w.treqs THEN Say(w, "TREE_REQ", n) ELSE w
  IN  IF n \in w.dreqs THEN Say(a, "DATA_REQ", n) ELSE a

Again(w) ==
  LET list == Among(Order, w.treqs \cup w.dreqs)
      f[i \in 0..Len(list)] == IF i = 0 THEN w ELSE Repeat(f[i - 1], list[i])
  IN  f[Len(list)]

\* job_timer() of the proxy.
ProxyTimer ==
  IF ~pup THEN UNCHANGED <<proxyVars, toServer>>
  ELSE IF ptick + 1 >= Close THEN noProxy /\ UNCHANGED toServer
  ELSE /\ LET a == IF ptick + 1 >= Query THEN Say(Working, "TREE_REQ", Root) ELSE Working
          IN  Put(IF treqs \cup dreqs # {} THEN Again(a) ELSE CheckSync(a, TRUE))
       /\ ptick' = ptick + 1 /\ UNCHANGED <<pup, pcookie>>

-----------------------------------------------------------------------------
(* The network and time.                                                    *)

LoseToServer ==
  /\ toServer # <<>> /\ Trouble
  /\ toServer' = Tail(toServer)
  /\ UNCHANGED <<serverVars, proxyVars, toProxy, history>>

LoseToProxy ==
  /\ toProxy # <<>> /\ Trouble
  /\ toProxy' = Tail(toProxy)
  /\ LET p == Head(toProxy) IN
       hidden' = (hidden \/ (p.l = p.t /\ \E i \in DOMAIN p.body : p.body[i].num = p.t))
  /\ UNCHANGED <<serverVars, proxyVars, toServer, snaps>>

\* A second passes: posted jobs have run, and packets have arrived or are
\* lost, with few exceptions.
Tick ==
  /\ out = <<>> /\ insync
  /\ IF toServer = <<>> /\ toProxy = <<>> THEN UNCHANGED bounds ELSE Trouble
  /\ ProxyTimer
  /\ UNCHANGED <<serverVars, toProxy, history>>

\* The server has been opened, and nobody has asked for it.
Alone ==
  /\ syncseq = sequence /\ passive = TRUE /\ oldtseq = 0
  /\ pup = FALSE /\ ptree = [n \in Nodes |-> Absent] /\ pcookie = 0
  /\ psync = FALSE /\ head = NoHead

\* The state that a server and a proxy come to when nothing disturbs them.
Connected ==
  /\ syncseq = sequence /\ passive = FALSE /\ oldtseq = sequence
  /\ pup = TRUE /\ ptree = tree /\ pcookie = 1
  /\ psync = TRUE
  /\ head = [s |-> sequence, d |-> tree[Root].dseq, n |-> tree[Root].nseq,
             t |-> sequence, g |-> sequence, l |-> sequence]

Init ==
  /\ cookie = 1 /\ up = TRUE /\ tree = Opened[1] /\ sequence = Opened[2] /\ insync = TRUE
  /\ Alone \/ Connected
  /\ treqs = {} /\ dreqs = {} /\ ptick = 0
  /\ out = <<>> /\ toServer = <<>> /\ toProxy = <<>>
  /\ ops = 0 /\ troubles = 0 /\ hidden = FALSE /\ snaps = {Seen(tree, Root)}

Server == \/ \E n \in Nodes : ChildAdd(n) \/ Changed(n) \/ ChildClose(n)
          \/ JobSync \/ Flush \/ ServerReceive \/ GoPassive
          \/ ServerOpen \/ ServerClose \/ ServerCrash
Proxy == ProxyReceive \/ ProxyOpen

Next == Server \/ Proxy \/ LoseToServer \/ LoseToProxy \/ Tick

Spec == Init /\ [][Next]_vars

\* Posted jobs run, packets arrive or are lost, and time goes on.  (Each
\* names what its step does to the state, for TLC: Flush, JobSync, the
\* arrival or loss of a packet, and Tick.)
flushed == out # <<>> /\ out' = <<>>
marked == ~insync /\ insync' = TRUE
taken(queue) == queue # <<>> /\ queue' = Tail(queue)
ticked == /\ pup /\ out = <<>> /\ insync /\ toServer = <<>> /\ toProxy = <<>>
          /\ \/ pup' = TRUE /\ ptick' = ptick + 1
             \/ pup' = FALSE /\ ptick' = 0

FairSpec == Spec /\ WF_out(flushed) /\ WF_insync(marked) /\ WF_toServer(taken(toServer))
                 /\ WF_toProxy(taken(toProxy)) /\ WF_<<pup, ptick>>(ticked)

-----------------------------------------------------------------------------
\* The variables have their types; what is asked for names nodes, and the
\* proxy asks for nodes that it has: a request is a mark on a node, and a node
\* that is closed leaves the list of them.
TypeOK ==
  /\ tree \in Tree /\ ptree \in Tree
  /\ {cookie, pcookie, sequence, syncseq, oldtseq, ptick} \subseteq Nat
  /\ {up, pup, insync, psync, passive, hidden} \subseteq BOOLEAN
  /\ treqs \cup dreqs \subseteq {n \in Nodes : ptree[n].open}
  /\ \A i \in DOMAIN toServer : \A k \in DOMAIN toServer[i] : toServer[i][k].path \in Nodes
  /\ head \in [s : Nat, d : Nat, n : Nat, t : Nat, g : Nat, l : Nat]

\* A proxy that says that it is in sync, and has the number that the server's
\* tree has now, shows its clients what the server's clients see now.  Two
\* cases are excepted, which hidden records: the last change was alone in the
\* packet after an overflow (buffer_transmit_slow() sends the full buffer with
\* the number of the change that did not fit) and that packet was lost; or a
\* server with a filled buffer went passive before a change.  No later header
\* shows that the change is missing.
Same == pcookie = cookie /\ ptree[Root].tseq = tree[Root].tseq
InSyncIsEqual == psync /\ Same /\ ~hidden => Seen(ptree, Root) = Seen(tree, Root)

\* What a proxy shows while it says that it is in sync is what the server
\* had when it was between two operations (job_sync()), never the middle of
\* one.
InSyncIsSnapshot == psync /\ pcookie = cookie /\ up /\ ~hidden => Seen(ptree, Root) \in snaps

\* Whenever a client could see something else below a node, the node's tseq
\* becomes a number that has never been used.
TseqGrows ==
  [][up /\ up' /\ tree' # tree =>
       \A n \in Nodes : /\ tree[n].open /\ tree'[n].open /\ Seen(tree', n) # Seen(tree, n)
                        => tree'[n].tseq > sequence]_vars

\* When changes and losses have come to an end, a proxy of a server that is
\* there is in sync with it.
Converges ==
  <>[](up /\ pup /\ ~hidden => psync /\ Same /\ Seen(ptree, Root) = Seen(tree, Root))
=============================================================================
