----------------------------- MODULE SafeWorker -----------------------------
(***************************************************************************)
(* pic::safe_worker_t: a thread that runs the jobs other threads give it   *)
(* (picross/src/pic_safeq.cpp), made of                                    *)
(*                                                                         *)
(*   safeq_t   a lock-free list; add() pushes a job with a compare-and-    *)
(*             swap, run() takes the whole list with another one, turns it *)
(*             round and runs it;                                          *)
(*   xgate_t   what the thread sleeps on: a counter of open() calls and a  *)
(*             semaphore (picross/src/pic_thread_posix.cpp).               *)
(*                                                                         *)
(* One action is one atomic access.  Jobs live in nodes, and a node that   *)
(* was deleted may be allocated again at the same address, so that a       *)
(* compare-and-swap on an address succeeds although the list has changed.  *)
(***************************************************************************)
EXTENDS Naturals, FiniteSets, SequencesExt

CONSTANTS Producers,   \* threads that call add()
          Owner,       \* the thread that calls quit(), one of Producers
          Addrs,       \* addresses of job nodes
          NULL,        \* the null pointer
          MaxJobs,     \* bound: add() calls of each producer
          Ping         \* whether the worker was made with a ping interval

ASSUME OwnerAssumption == Owner \in Producers
ASSUME AddrsAssumption == IsFiniteSet(Addrs)
ASSUME NullAssumption == NULL \notin Addrs
ASSUME PingAssumption == Ping \in BOOLEAN
ASSUME MaxJobsAssumption == MaxJobs \in Nat \ {0}

VARIABLES
  head,     \* safeq_t::head_
  job,      \* the job in each node
  next,     \* safe_t::next_ of each node
  live,     \* the nodes that are allocated
  flag,     \* xgate_t::flag_
  sem,      \* the count of xgate_t::sem_
  ppc,      \* where each producer is in safe_worker_t::add()
  node,     \* the node it is adding
  added,    \* how many jobs it has begun to add
  tpc,      \* where the worker is in thread_main()
  oflag,    \* pass_and_shut()'s local oflag
  whead,    \* run()'s local head
  flip,     \* run()'s local flip list, oldest job first
  quit,     \* quit_
  pinged,   \* pinged_
  ran       \* history: the jobs whose callbacks were called

queueVars == <<head, job, next, live>>
gateVars == <<flag, sem>>
addVars == <<ppc, node, added>>
workerVars == <<tpc, oflag, whead, flip, quit, pinged, ran>>
safeVars == <<head, job, next, live, flag, sem, ppc, node, added,
          tpc, oflag, whead, flip, quit, pinged, ran>>

\* A job is the call of add() that made it; the owner's last call is quit().
JobIds == Producers \X (1..MaxJobs)
QuitJob == <<Owner, MaxJobs>>

WorkerInit ==
  /\ head = NULL /\ live = {}
  /\ job = [a \in Addrs |-> QuitJob] /\ next = [a \in Addrs |-> NULL]
  /\ flag = 0 /\ sem = 0
  /\ ppc = [p \in Producers |-> "idle"]
  /\ node = [p \in Producers |-> NULL]
  /\ added = [p \in Producers |-> 0]
  /\ tpc = "loop" /\ oflag = 0 /\ whead = NULL /\ flip = <<>>
  /\ quit = FALSE /\ pinged = FALSE /\ ran = <<>>

-----------------------------------------------------------------------------
(* safe_worker_t::add(): safeq_t::add(), then xgate_t::open().              *)

\* job = new safe_t(...)
New(p) ==
  /\ ppc[p] = "idle"
  /\ added[p] < MaxJobs
  /\ \E a \in Addrs \ live :
       /\ live' = live \cup {a}
       /\ node' = [node EXCEPT ![p] = a]
       /\ job' = [job EXCEPT ![a] = <<p, added[p] + 1>>]
       /\ next' = [next EXCEPT ![a] = NULL]
  /\ added' = [added EXCEPT ![p] = @ + 1]
  /\ ppc' = [ppc EXCEPT ![p] = "link"]
  /\ UNCHANGED head
  /\ UNCHANGED <<gateVars, workerVars>>

\* job->next_ = head_
Link(p) ==
  /\ ppc[p] = "link"
  /\ next' = [next EXCEPT ![node[p]] = head]
  /\ ppc' = [ppc EXCEPT ![p] = "push"]
  /\ UNCHANGED <<head, job, live, node, added>>
  /\ UNCHANGED <<gateVars, workerVars>>

\* Mutant of Push: the new head is stored whatever the head is by now.
PushBlindly(p) ==
  /\ ppc[p] = "push"
  /\ head' = node[p]
  /\ ppc' = [ppc EXCEPT ![p] = "open"]
  /\ UNCHANGED <<job, next, live, node, added>>
  /\ UNCHANGED <<gateVars, workerVars>>

\* pic_atomicptrcas(&head_,job->next_,job), or read the head again.
Push(p) ==
  /\ ppc[p] = "push"
  /\ \/ /\ head = next[node[p]]
        /\ head' = node[p]
        /\ ppc' = [ppc EXCEPT ![p] = "open"]
     \/ /\ head # next[node[p]]
        /\ ppc' = [ppc EXCEPT ![p] = "link"]
        /\ UNCHANGED head
  /\ UNCHANGED <<job, next, live, node, added>>
  /\ UNCHANGED <<gateVars, workerVars>>

\* xgate_t::open(): pic_atomicinc(&flag_)==1
OpenGate(p) ==
  /\ ppc[p] = "open"
  /\ flag' = flag + 1
  /\ ppc' = [ppc EXCEPT ![p] = IF flag = 0 THEN "up" ELSE "idle"]
  /\ UNCHANGED <<sem, node, added>>
  /\ UNCHANGED <<queueVars, workerVars>>

\* Mutant of Up: the semaphore is not raised.
UpNothing(p) ==
  /\ ppc[p] = "up"
  /\ ppc' = [ppc EXCEPT ![p] = "idle"]
  /\ UNCHANGED <<gateVars, node, added>>
  /\ UNCHANGED <<queueVars, workerVars>>

\* sem_.up()
Up(p) ==
  /\ ppc[p] = "up"
  /\ sem' = sem + 1
  /\ ppc' = [ppc EXCEPT ![p] = "idle"]
  /\ UNCHANGED <<flag, node, added>>
  /\ UNCHANGED <<queueVars, workerVars>>

Adding(p) == Link(p) \/ Push(p) \/ OpenGate(p) \/ Up(p)

-----------------------------------------------------------------------------
(* thread_main(): pass_and_shut() or pass_and_shut_timed(), safeq_.run().   *)

\* while(!quit_)
Loop ==
  /\ tpc = "loop"
  /\ tpc' = IF quit THEN "stopped" ELSE "flag"
  /\ UNCHANGED <<oflag, whead, flip, quit, pinged, ran>>
  /\ UNCHANGED <<queueVars, gateVars, addVars>>

\* oflag = flag_
ReadFlag ==
  /\ tpc = "flag"
  /\ oflag' = flag
  /\ tpc' = "shut"
  /\ UNCHANGED <<whead, flip, quit, pinged, ran>>
  /\ UNCHANGED <<queueVars, gateVars, addVars>>

Timed == Ping /\ ~pinged

\* Leaving the gate: the untimed pass clears pinged_.
Passed == pinged' = (Timed /\ pinged)

\* Mutant of Shut: the flag is cleared by a store instead of the
\* compare-and-swap, and the value read before decides.
ShutBlindly ==
  /\ tpc = "shut"
  /\ flag' = 0
  /\ IF oflag > 0 THEN tpc' = "take" /\ Passed
                  ELSE tpc' = "down" /\ UNCHANGED pinged
  /\ UNCHANGED <<sem, oflag, whead, flip, quit, ran>>
  /\ UNCHANGED <<queueVars, addVars>>

\* pic_atomiccas(&flag_,oflag,0), then through the gate, to the semaphore, or
\* round the inner loop.
Shut ==
  /\ tpc = "shut"
  /\ \/ /\ flag = oflag
        /\ flag' = 0
        /\ IF oflag > 0 THEN tpc' = "take" /\ Passed
                        ELSE tpc' = "down" /\ UNCHANGED pinged
     \/ /\ flag # oflag
        /\ tpc' = "flag"
        /\ UNCHANGED <<flag, pinged>>
  /\ UNCHANGED <<sem, oflag, whead, flip, quit, ran>>
  /\ UNCHANGED <<queueVars, addVars>>

\* sem_.untimeddown() or timeddown() has found the semaphore up.
Down ==
  /\ tpc = "down"
  /\ sem > 0
  /\ sem' = sem - 1
  /\ tpc' = "flag"
  /\ UNCHANGED <<flag, oflag, whead, flip, quit, pinged, ran>>
  /\ UNCHANGED <<queueVars, addVars>>

\* timeddown() gives up: thread_main() calls ping(), and pings no more once
\* ping() has returned false.
TimeOut ==
  /\ tpc = "down"
  /\ Timed
  /\ pinged' \in BOOLEAN
  /\ tpc' = "take"
  /\ UNCHANGED <<oflag, whead, flip, quit, ran>>
  /\ UNCHANGED <<queueVars, gateVars, addVars>>

\* safeq_t::run(): head = head_
Take ==
  /\ tpc = "take"
  /\ whead' = head
  /\ tpc' = "grab"
  /\ UNCHANGED <<oflag, flip, quit, pinged, ran>>
  /\ UNCHANGED <<queueVars, gateVars, addVars>>

\* pic_atomicptrcas(&head_,head,0), or read the head again.
Grab ==
  /\ tpc = "grab"
  /\ \/ /\ head = whead
        /\ head' = NULL
        /\ tpc' = IF whead = NULL THEN "loop" ELSE "flip"
     \/ /\ head # whead
        /\ tpc' = "take"
        /\ UNCHANGED head
  /\ UNCHANGED <<job, next, live>>
  /\ UNCHANGED <<oflag, whead, flip, quit, pinged, ran>>
  /\ UNCHANGED <<gateVars, addVars>>

\* while((tmp=head)!=0): the newest job first, so that the oldest ends up in
\* front.
Reverse1 ==
  /\ tpc = "flip"
  /\ \/ /\ whead # NULL
        /\ flip' = <<whead>> \o flip
        /\ whead' = next[whead]
        /\ UNCHANGED tpc
     \/ /\ whead = NULL
        /\ tpc' = "run"
        /\ UNCHANGED <<flip, whead>>
  /\ UNCHANGED <<oflag, quit, pinged, ran>>
  /\ UNCHANGED <<queueVars, gateVars, addVars>>

\* Mutant of Call: __quit() makes the thread leave at once.
CallStops ==
  /\ tpc = "run"
  /\ flip # <<>>
  /\ ran' = Append(ran, job[Head(flip)])
  /\ quit' = (quit \/ job[Head(flip)] = QuitJob)
  /\ tpc' = IF quit' THEN "stopped" ELSE "delete"
  /\ UNCHANGED <<oflag, whead, flip, pinged>>
  /\ UNCHANGED <<queueVars, gateVars, addVars>>

\* tmp->callback_(...); __quit() sets quit_.
Call ==
  /\ tpc = "run"
  /\ flip # <<>>
  /\ ran' = Append(ran, job[Head(flip)])
  /\ quit' = (quit \/ job[Head(flip)] = QuitJob)
  /\ tpc' = "delete"
  /\ UNCHANGED <<oflag, whead, flip, pinged>>
  /\ UNCHANGED <<queueVars, gateVars, addVars>>

\* delete tmp
Delete ==
  /\ tpc = "delete"
  /\ live' = live \ {Head(flip)}
  /\ flip' = Tail(flip)
  /\ tpc' = "run"
  /\ UNCHANGED <<head, job, next>>
  /\ UNCHANGED <<oflag, whead, quit, pinged, ran>>
  /\ UNCHANGED <<gateVars, addVars>>

\* The flip list is empty: safeq_t::run() returns.
Return ==
  /\ tpc = "run"
  /\ flip = <<>>
  /\ tpc' = "loop"
  /\ UNCHANGED <<oflag, whead, flip, quit, pinged, ran>>
  /\ UNCHANGED <<queueVars, gateVars, addVars>>

Worker == \/ Loop \/ ReadFlag \/ Shut \/ Down \/ Take \/ Grab \/ Reverse1
          \/ Call \/ Delete \/ Return

\* The worker has stopped, and every producer has made its last call.
Finished ==
  /\ tpc = "stopped"
  /\ \A p \in Producers : ppc[p] = "idle"
  /\ \A p \in Producers : added[p] = MaxJobs \/ live = Addrs
  /\ UNCHANGED safeVars

WorkerNext ==
  \/ Worker \/ TimeOut \/ Finished
  \/ \E p \in Producers : New(p) \/ Adding(p)

WorkerSpec == WorkerInit /\ [][WorkerNext]_safeVars

(***************************************************************************)
(* The scheduler runs the worker and every thread that is inside add().    *)
(* Nothing is assumed of the timeout: the gate alone must wake the worker. *)
(***************************************************************************)
WorkerFairness == WF_safeVars(Worker) /\ \A p \in Producers : WF_safeVars(Adding(p))

WorkerFairSpec == WorkerSpec /\ WorkerFairness

-----------------------------------------------------------------------------
(* Properties.                                                              *)

WorkerTypeOK ==
  /\ head \in Addrs \cup {NULL} /\ whead \in Addrs \cup {NULL}
  /\ job \in [Addrs -> JobIds] /\ next \in [Addrs -> Addrs \cup {NULL}]
  /\ live \subseteq Addrs
  /\ flag \in Nat /\ sem \in Nat /\ oflag \in Nat
  /\ ppc \in [Producers -> {"idle", "link", "push", "open", "up"}]
  /\ node \in [Producers -> Addrs \cup {NULL}]
  /\ added \in [Producers -> 0..MaxJobs]
  /\ tpc \in {"loop", "flag", "shut", "down", "take", "grab", "flip", "run",
              "delete", "stopped"}
  /\ flip \in Seq(Addrs)
  /\ quit \in BOOLEAN /\ pinged \in BOOLEAN
  /\ ran \in Seq(JobIds)

\* The nodes from a on, first one first: a cycle would end when there are
\* more than there are addresses.
ListFrom(a) ==
  LET chain[n \in 0..Cardinality(Addrs)] ==
        IF n = 0 THEN IF a = NULL THEN <<>> ELSE <<a>>
        ELSE LET c == chain[n - 1]
             IN  IF c = <<>> \/ next[Last(c)] = NULL THEN c
                 ELSE Append(c, next[Last(c)])
  IN  chain[Cardinality(Addrs)]

\* The nodes of the jobs not yet run, oldest first: what run() has still to
\* turn round, what it has turned round, and what was added since.
Pending ==
  (IF tpc = "flip" THEN Reverse(ListFrom(whead)) ELSE <<>>)
    \o (IF tpc = "delete" THEN Tail(flip) ELSE flip)
    \o Reverse(ListFrom(head))

Fifo == INSTANCE JobFifo WITH
  Jobs <- JobIds,
  queue <- [i \in DOMAIN Pending |-> job[Pending[i]]]

\* The lock-free list is a first-in-first-out queue: no compare-and-swap that
\* succeeds on a reused address loses, repeats or reorders a job.
ImplementsFifo == Fifo!Spec

\* Nobody forgets to wake the worker: while it sleeps, or is about to, with
\* jobs in the list, the semaphore is up or a producer has still to open the
\* gate.
NoLostWakeup ==
  tpc = "down" /\ head # NULL =>
    \/ sem > 0
    \/ \E p \in Producers : ppc[p] \in {"open", "up"}

\* A worker that stops has run every job that was added before quit().
QuitDrains ==
  tpc = "stopped" =>
    /\ \E i \in DOMAIN ran : ran[i] = QuitJob
    /\ flip = <<>>

\* Every job that was added runs, unless the worker is told to stop first:
\* jobs leave the list only by running (ImplementsFifo), and, as no more than
\* MaxJobs are added, the list becomes empty.
EveryJobRuns == Pending # <<>> ~> (Pending = <<>> \/ tpc = "stopped")
=============================================================================
