------------------------------ MODULE Dispatch ------------------------------
(***************************************************************************)
(* How the callbacks of agents get a thread (piagent/src/pia_glue.cpp and  *)
(* pia_scaffold.cpp).                                                      *)
(*                                                                         *)
(* A context is an agent's environment: it has an event queue, appq, and a *)
(* mutex, busy_, that a thread holds while it runs the queue, or while it  *)
(* works in the context from outside (entity_lock).  A context belongs to  *)
(* a group, and context threads serve the contexts of their group:         *)
(* whoever posts into an empty appq raises the context's flag queued_ and  *)
(* opens the gates of the threads that serve it; a thread that passes its  *)
(* gate looks for a flag, lowers it, and runs that context's queue.  The   *)
(* scaffold for the graphical program has one context thread for group 0   *)
(* and the program's own thread for group 1; the other scaffold has as     *)
(* many threads as --mt says, all for group 0.                             *)
(*                                                                         *)
(* All threads also serve auxq, the queue for log lines and for contexts   *)
(* that are gone, one at a time (auxbusy_).  The global lock keeps all of  *)
(* them out of the contexts while garbage is collected.                    *)
(*                                                                         *)
(* EventQueue has the inside of a queue; here a queue is the number of     *)
(* jobs in safe_ and the number that its runner has taken.  The sections   *)
(* of process_ctx() under the main lock are short and are single steps.    *)
(***************************************************************************)
EXTENDS Integers, Sequences, FiniteSets, SequencesExt

CONSTANTS Contexts,
          Threads,      \* the threads that run process_ctx()
          Group,        \* the group of each context and of each thread
          Opens,        \* the gates that service_ctx(group) opens
          Looping,      \* threads that call process_ctx() again if it did anything
          Callers,      \* threads that post jobs, and lock contexts
          Lockers,      \* those that lock
          Aux,          \* the group number -1, for auxq
          Free,         \* a mutex that is free
          MaxJobs       \* bound on the jobs posted to a context and to auxq

ASSUME DispatchAssumption ==
  /\ Free \notin Threads \cup Callers /\ Threads \cap Callers = {}
  /\ Aux \notin Contexts /\ Lockers \subseteq Callers
  /\ IsFiniteSet(Contexts) /\ MaxJobs \in Nat

VARIABLES
  safe,     \* the jobs in safe_ of each appq, and of auxq
  todo,     \* the jobs its runner has taken and not called
  flag,     \* queued_ of each context, and auxflag_
  busy,     \* the holder of busy_ of each context, and of auxbusy_
  order,    \* contexts_, in the order in which it is scanned
  gate,     \* the gates of the threads
  pc,       \* where each thread is in process_ctx()
  ctx,      \* the context it found
  again,    \* its local a: something was called
  gc,       \* the global lock is held for writing
  call,     \* what each caller is doing
  jobs      \* history: how many jobs were posted to each queue

vars == <<safe, todo, flag, busy, order, gate, pc, ctx, again, gc, call, jobs>>

Queues == Contexts \cup {Aux}

\* What a caller is doing, for which queue (Aux, once it only opens
\* gates), and the gates it has to open.
Does(at, q, opens) == [at |-> at, q |-> q, opens |-> opens]
Idle == Does("idle", Aux, {})

Init ==
  /\ safe = [q \in Queues |-> 0] /\ todo = [q \in Queues |-> 0]
  /\ flag = [q \in Queues |-> FALSE] /\ busy = [q \in Queues |-> Free]
  /\ order = SetToSeq(Contexts)
  /\ gate = [t \in Threads |-> FALSE] /\ again = [t \in Threads |-> FALSE]
  /\ pc = [t \in Threads |-> "wait"] /\ ctx = [t \in Threads |-> Aux]
  /\ gc = FALSE /\ call = [p \in Callers |-> Idle]
  /\ jobs = [q \in Queues |-> 0]

-----------------------------------------------------------------------------
(* Threads that post and lock.                                              *)

threadVars == <<todo, order, pc, ctx, again>>

\* appq()->idle(...) or auxq()->idle(...): safe_.add(), and the pinger is
\* called if the queue was empty.
Post(p, q) ==
  /\ call[p] = Idle /\ jobs[q] < MaxJobs
  /\ jobs' = [jobs EXCEPT ![q] = @ + 1]
  /\ safe' = [safe EXCEPT ![q] = @ + 1]
  /\ call' = IF safe[q] = 0 THEN [call EXCEPT ![p] = Does("ping", q, {})]
                            ELSE call
  /\ UNCHANGED <<threadVars, flag, busy, gate, gc>>

\* context_t::impl_t::lock(), by way of entity_lock.
Lock(p, c) ==
  /\ call[p] = Idle
  /\ busy[c] = Free
  /\ busy' = [busy EXCEPT ![c] = p]
  /\ call' = [call EXCEPT ![p] = Does("locked", c, {})]
  /\ UNCHANGED <<threadVars, safe, flag, gate, gc, jobs>>

\* Mutant of Unlock: like leave(), it serves nobody.
UnlockOnly(p) ==
  /\ call[p].at = "locked"
  /\ busy' = [busy EXCEPT ![call[p].q] = Free]
  /\ call' = [call EXCEPT ![p] = Idle]
  /\ UNCHANGED <<threadVars, safe, flag, gate, gc, jobs>>

\* context_t::impl_t::unlock(): the mutex, then service_ctx().
Unlock(p) ==
  /\ call[p].at = "locked"
  /\ busy' = [busy EXCEPT ![call[p].q] = Free]
  /\ call' = [call EXCEPT ![p] = Does("ping", @.q, {})]
  /\ UNCHANGED <<threadVars, safe, flag, gate, gc, jobs>>

GroupOf(q) == IF q = Aux THEN Aux ELSE Group[q]

ASSUME OpensAssumption == \A q \in Queues : Opens[GroupOf(q)] \subseteq Threads

\* service_ctx() of a context or service_aux(): whoever raises the flag goes
\* on to the gates.
Raise(p) ==
  /\ call[p].at = "ping"
  /\ flag' = [flag EXCEPT ![call[p].q] = TRUE]
  /\ call' = [call EXCEPT ![p] =
                IF flag[call[p].q] THEN Idle
                ELSE Does("open", Aux, Opens[GroupOf(@.q)])]
  /\ UNCHANGED <<threadVars, safe, busy, gate, gc, jobs>>

\* service_ctx() of the scaffold opens one gate after another.
OpenGate(p) ==
  /\ call[p].at = "open"
  /\ \E t \in call[p].opens :
       /\ gate' = [gate EXCEPT ![t] = TRUE]
       /\ call' = [call EXCEPT ![p] = IF @.opens = {t} THEN Idle
                                      ELSE Does("open", Aux, @.opens \ {t})]
  /\ UNCHANGED <<threadVars, safe, flag, busy, gc, jobs>>

\* global_lock() succeeds when no thread holds the lock for reading.
GlobalLock ==
  /\ ~gc /\ \A t \in Threads : pc[t] \notin {"enter", "run", "call", "leave"}
  /\ gc' = TRUE
  /\ UNCHANGED <<threadVars, safe, flag, busy, gate, call, jobs>>

GlobalUnlock ==
  /\ gc
  /\ gc' = FALSE
  /\ UNCHANGED <<threadVars, safe, flag, busy, gate, call, jobs>>

-----------------------------------------------------------------------------
(* process_ctx(), by one of the context threads.                            *)

others == <<gc, call, jobs>>

\* The gate is passed, or the wait of five seconds is over.
PassGate(t) ==
  /\ pc[t] = "wait" /\ gate[t]
  /\ gate' = [gate EXCEPT ![t] = FALSE]
  /\ pc' = [pc EXCEPT ![t] = "aux"]
  /\ again' = [again EXCEPT ![t] = FALSE]
  /\ UNCHANGED <<safe, todo, flag, busy, order, ctx, others>>

TimeOut(t) ==
  /\ pc[t] = "wait" /\ t \in Looping
  /\ pc' = [pc EXCEPT ![t] = "aux"]
  /\ again' = [again EXCEPT ![t] = FALSE]
  /\ UNCHANGED <<safe, todo, flag, busy, order, gate, ctx, others>>

\* if(!auxbusy_), under the main lock.
EnterAux(t) ==
  /\ pc[t] = "aux"
  /\ IF busy[Aux] = Free
       THEN /\ busy' = [busy EXCEPT ![Aux] = t]
            /\ pc' = [pc EXCEPT ![t] = "auxflag"]
       ELSE /\ pc' = [pc EXCEPT ![t] = "scan"]
            /\ UNCHANGED busy
  /\ UNCHANGED <<safe, todo, flag, order, gate, ctx, again, others>>

\* if(pic_atomiccas(&auxflag_,1,0))
LowerAux(t) ==
  /\ pc[t] = "auxflag"
  /\ flag' = [flag EXCEPT ![Aux] = FALSE]
  /\ pc' = [pc EXCEPT ![t] = IF flag[Aux] THEN "auxrun" ELSE "scan"]
  /\ UNCHANGED <<safe, todo, busy, order, gate, ctx, again, others>>

\* auxq_.run(): what was posted is called, until nothing is left.
RunAux(t) ==
  /\ pc[t] = "auxrun"
  /\ safe' = [safe EXCEPT ![Aux] = 0]
  /\ pc' = [pc EXCEPT ![t] = IF safe[Aux] = 0 THEN "scan" ELSE "auxrun"]
  /\ UNCHANGED <<todo, flag, busy, order, gate, ctx, again, others>>

AuxDone(t) == [busy EXCEPT ![Aux] = IF @ = t THEN Free ELSE @]

Calls(t) == {i \in 1..Len(order) : Group[order[i]] = Group[t] /\ flag[order[i]]}

\* The scan of contexts_ under the main lock finds a flag, lowers it, and
\* moves the context to the end of the list.
Find(t) ==
  /\ pc[t] = "scan"
  /\ \E i \in Calls(t) :
       /\ \A h \in Calls(t) : i <= h
       /\ flag' = [flag EXCEPT ![order[i]] = FALSE]
       /\ ctx' = [ctx EXCEPT ![t] = order[i]]
       /\ order' = Append(RemoveAt(order, i), order[i])
  /\ busy' = AuxDone(t)
  /\ pc' = [pc EXCEPT ![t] = "rlock"]
  /\ UNCHANGED <<safe, todo, gate, again, others>>

\* The scan finds nothing: process_ctx() returns, and is called again if it
\* did anything.
FindNothing(t) ==
  /\ pc[t] = "scan" /\ Calls(t) = {}
  /\ busy' = AuxDone(t)
  /\ pc' = [pc EXCEPT ![t] = IF again[t] /\ t \in Looping THEN "aux" ELSE "wait"]
  /\ again' = [again EXCEPT ![t] = FALSE]
  /\ UNCHANGED <<safe, todo, flag, order, gate, ctx, others>>

\* Mutant of ReadLock: the global lock is not asked.
ReadLockNothing(t) ==
  /\ pc[t] = "rlock"
  /\ pc' = [pc EXCEPT ![t] = "enter"]
  /\ UNCHANGED <<safe, todo, flag, busy, order, gate, ctx, again, others>>

\* pic::rwmutex_t::rguard_t rwguard(global_lock_)
ReadLock(t) ==
  /\ pc[t] = "rlock" /\ ~gc
  /\ pc' = [pc EXCEPT ![t] = "enter"]
  /\ UNCHANGED <<safe, todo, flag, busy, order, gate, ctx, again, others>>

\* h->enter(): trylock of busy_; if it fails the context is left alone.
Enter(t) ==
  /\ pc[t] = "enter"
  /\ IF busy[ctx[t]] = Free
       THEN /\ busy' = [busy EXCEPT ![ctx[t]] = t]
            /\ pc' = [pc EXCEPT ![t] = "run"]
       ELSE /\ pc' = [pc EXCEPT ![t] = "aux"]
            /\ UNCHANGED busy
  /\ UNCHANGED <<safe, todo, flag, order, gate, ctx, again, others>>

\* appq()->run(): take what was posted; return when there is nothing.
Drain(t) ==
  /\ pc[t] = "run"
  /\ LET c == ctx[t] IN
       /\ todo' = [todo EXCEPT ![c] = @ + safe[c]]
       /\ safe' = [safe EXCEPT ![c] = 0]
       /\ pc' = [pc EXCEPT ![t] = IF todo'[c] = 0 THEN "leave" ELSE "call"]
  /\ UNCHANGED <<flag, busy, order, gate, ctx, again, others>>

\* Mutant of CallBack: the list is not looked at before the next callback.
CallBackBlindly(t) ==
  /\ pc[t] = "call"
  /\ todo' = [todo EXCEPT ![ctx[t]] = @ - 1]
  /\ again' = [again EXCEPT ![t] = TRUE]
  /\ UNCHANGED <<safe, flag, busy, order, gate, pc, ctx, others>>

\* One callback.
CallBack(t) ==
  /\ pc[t] = "call"
  /\ todo' = [todo EXCEPT ![ctx[t]] = @ - 1]
  /\ again' = [again EXCEPT ![t] = TRUE]
  /\ pc' = [pc EXCEPT ![t] = "run"]
  /\ UNCHANGED <<safe, flag, busy, order, gate, ctx, others>>

\* h->leave(), and the end of the guard on the global lock.
Leave(t) ==
  /\ pc[t] = "leave"
  /\ busy' = [busy EXCEPT ![ctx[t]] = Free]
  /\ pc' = [pc EXCEPT ![t] = "aux"]
  /\ UNCHANGED <<safe, todo, flag, order, gate, ctx, again, others>>

Step(t) == \/ PassGate(t) \/ EnterAux(t) \/ LowerAux(t) \/ RunAux(t)
           \/ Find(t) \/ FindNothing(t) \/ ReadLock(t) \/ Enter(t)
           \/ Drain(t) \/ CallBack(t) \/ Leave(t)

Service(p) == Raise(p) \/ OpenGate(p)

Next ==
  \/ \E p \in Callers : Service(p) \/ \E q \in Queues : Post(p, q)
  \/ \E p \in Lockers : Unlock(p) \/ \E c \in Contexts : Lock(p, c)
  \/ GlobalLock \/ GlobalUnlock
  \/ \E t \in Threads : Step(t) \/ TimeOut(t)

Spec == Init /\ [][Next]_vars

\* Threads are scheduled and callbacks return; whoever locks unlocks.  The
\* wait of five seconds is left out of Fairness, because nothing should have
\* to wait for it.
Fairness ==
  /\ \A t \in Threads : WF_vars(Step(t)) /\ SF_vars(ReadLock(t))
  /\ \A p \in Callers : WF_vars(Service(p)) /\ WF_vars(Unlock(p))
  /\ WF_vars(GlobalUnlock)

FairSpec == Spec /\ Fairness

-----------------------------------------------------------------------------
(* Properties.                                                              *)

Calling == {"run", "call", "leave"}

Doing == [at : {"idle", "ping", "open", "locked"}, q : Queues, opens : SUBSET Threads]

TypeOK ==
  /\ safe \in [Queues -> 0..MaxJobs] /\ todo \in [Queues -> 0..MaxJobs]
  /\ jobs \in [Queues -> 0..MaxJobs] /\ flag \in [Queues -> BOOLEAN]
  /\ busy \in [Queues -> Threads \cup Callers \cup {Free}]
  /\ order \in Seq(Contexts) /\ gc \in BOOLEAN
  /\ gate \in [Threads -> BOOLEAN] /\ again \in [Threads -> BOOLEAN]
  /\ pc \in [Threads -> Calling \cup
               {"wait", "aux", "auxflag", "auxrun", "scan", "rlock", "enter"}]
  /\ ctx \in [Threads -> Queues]
  /\ call \in [Callers -> Doing]

\* A thread is going to look at the flags of a group.
Scanning(g) ==
  \E t \in Threads : Group[t] = g /\ (pc[t] # "wait" \/ gate[t]
                       \/ \E p \in Callers : t \in call[p].opens)

\* A job in a context's queue never waits unnoticed: somebody is about to
\* raise the flag, or the flag is up and a thread is going to see it, or a
\* thread has lowered it and is on its way to a context that is free or its
\* own, or a thread that works in the context from outside will raise it.
NothingStranded ==
  \A c \in Contexts : safe[c] > 0 =>
    \/ \E p \in Callers : call[p].q = c /\ call[p].at \in {"ping", "locked"}
    \/ flag[c] /\ Scanning(Group[c])
    \/ \E t \in Threads : /\ ctx[t] = c /\ pc[t] \in {"rlock", "enter", "run", "call"}
                          /\ busy[c] \in Callers \cup {Free, t}

\* No callback of a context runs while the global lock is held, and none
\* while the context is locked from outside or run by another thread.
ContextsExclusive ==
  \A t \in Threads : pc[t] \in Calling =>
    /\ ~gc
    /\ \A u \in Threads \ {t} : pc[u] \in Calling => ctx[u] # ctx[t]
    /\ \A p \in Callers : call[p].at = "locked" => call[p].q # ctx[t]

\* Every job posted to a context is called, without the help of a timeout,
\* if the context is not locked from outside again and again for ever: the
\* context thread only tries busy_.
EveryJobRuns ==
  (\A p \in Lockers : <>[](call[p].at # "locked")) =>
    \A c \in Contexts : []<>(safe[c] + todo[c] = 0)
=============================================================================
