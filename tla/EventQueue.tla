----------------------------- MODULE EventQueue -----------------------------
(***************************************************************************)
(* The event queue of the piagent (piagent/src/pia_eventq.cpp), on which   *)
(* every callback of the system runs: timers, fast jobs, idle calls, idle  *)
(* jobs and slow jobs, each guarded by a cancellation point.               *)
(*                                                                         *)
(* Any thread posts jobs, through the lock-free queue safe_ (JobFifo says  *)
(* what that promises), and cancels them.  One thread runs the queue: it   *)
(* moves what was posted to its own lists and calls the jobs back in the   *)
(* order of their priority, looking at safe_ again after every callback.   *)
(* Callbacks post and cancel jobs too.                                     *)
(*                                                                         *)
(* A synchronous cancellation point is a flipflop_t<bool>: Publication     *)
(* says what its guards see and when disable() returns.  An asynchronous   *)
(* one is a plain bool.                                                    *)
(***************************************************************************)
EXTENDS Integers, Sequences, SequencesExt

CONSTANTS Jobs,      \* the jobs that may be posted, each of them once
          Class,     \* the list each job goes to
          CPoints,   \* cancellation points
          Sync,      \* those made by pia_make_sync_cpoint()
          CPoint,    \* the cancellation point of each job
          Threads,   \* threads that post and cancel
          Runner,    \* the thread that runs the queue
          NoJob,     \* no job
          Period,    \* the period of timers, in ticks of the clock
          MaxTime    \* bound on the clock

\* The job lists in the order in which run() looks at them.
Lists == <<"fast", "idlecall", "idle", "slow">>
Classes == {Lists[i] : i \in 1..4}

ASSUME JobsAssumption ==
  /\ Class \in [Jobs -> Classes \cup {"timer"}]
  /\ CPoint \in [Jobs -> CPoints]
  /\ Sync \subseteq CPoints
  /\ Runner \notin Threads /\ NoJob \notin Jobs
ASSUME TimeAssumption == Period \in Nat \ {0} /\ MaxTime \in Nat

VARIABLES
  \* shared between threads
  safe,      \* safe_: jobs posted and not yet taken by the runner
  enabled,   \* each cancellation point: "on", "closing" in disable(), "off"
  pinged,    \* the runner's gate
  pinging,   \* per thread: add() found safe_ empty, pinger_ is not called yet
  \* the runner's
  pc,        \* "asleep", "drain", "timers", "jobs", "guard" or "callback"
  stage,     \* where run() goes on after the callback: "timers" or "jobs"
  cur,       \* the job taken off its list
  lists,     \* fastjob_, idlecall_, idle_ and slowjob_
  timers,    \* timer_, sorted
  sched,     \* scheduled_ of each timer
  now,       \* the argument of run()
  act,       \* its local a: something was called
  \* history
  clock,
  posted,    \* jobs in the order in which they were posted
  fate,      \* "new", "queued", "ran" or "dropped"
  start,     \* when each timer was inserted
  calls      \* how often each timer was called

shared == <<safe, enabled, pinged, pinging>>
runnerVars == <<pc, stage, cur, lists, timers, sched, now, act>>
history == <<clock, posted, fate, start, calls>>
vars == <<shared, runnerVars, history>>

Init ==
  /\ safe = <<>> /\ pinged = FALSE
  /\ enabled = [c \in CPoints |-> "on"]
  /\ pinging = [t \in Threads \cup {Runner} |-> FALSE]
  /\ pc = "asleep" /\ stage = "timers" /\ cur = NoJob
  /\ lists = [k \in Classes |-> <<>>] /\ timers = <<>>
  /\ sched = [j \in Jobs |-> 0] /\ now = 0 /\ act = FALSE
  /\ clock = 0 /\ posted = <<>>
  /\ fate = [j \in Jobs |-> "new"]
  /\ start = [j \in Jobs |-> 0] /\ calls = [j \in Jobs |-> 0]

Tick == /\ clock < MaxTime
        /\ clock' = clock + 1
        /\ UNCHANGED <<shared, runnerVars, posted, fate, start, calls>>

-----------------------------------------------------------------------------
(* What any thread does; the runner only inside a callback.                 *)

MayCall(t) == ~pinging[t] /\ (t = Runner => pc = "callback")

\* Mutant of Post: the gate is opened for the first job of all only.
PostPingsOnce(t, j) ==
  /\ MayCall(t) /\ fate[j] = "new"
  /\ safe' = Append(safe, j)
  /\ pinging' = [pinging EXCEPT ![t] = posted = <<>>]
  /\ fate' = [fate EXCEPT ![j] = "queued"]
  /\ posted' = Append(posted, j)
  /\ UNCHANGED <<enabled, pinged, runnerVars, clock, start, calls>>

\* fastjob(), slowjob(), idle(), idlecall() and timer(): safe_.add() tells
\* whether the queue was empty.
Post(t, j) ==
  /\ MayCall(t) /\ fate[j] = "new"
  /\ safe' = Append(safe, j)
  /\ pinging' = [pinging EXCEPT ![t] = safe = <<>>]
  /\ fate' = [fate EXCEPT ![j] = "queued"]
  /\ posted' = Append(posted, j)
  /\ UNCHANGED <<enabled, pinged, runnerVars, clock, start, calls>>

\* (pinger_)(ctx_) opens the runner's gate.
Ping(t) ==
  /\ pinging[t]
  /\ pinging' = [pinging EXCEPT ![t] = FALSE]
  /\ pinged' = TRUE
  /\ UNCHANGED <<safe, enabled, runnerVars, history>>

\* disable() of an asynchronous cancellation point, by any thread; of a
\* synchronous one it only begins, and the runner never calls it: set()
\* would wait for the runner's own guard.
Cancel(t, c) ==
  /\ MayCall(t) /\ enabled[c] = "on"
  /\ t = Runner => c \notin Sync
  /\ enabled' = [enabled EXCEPT ![c] = IF c \in Sync THEN "closing" ELSE "off"]
  /\ UNCHANGED <<safe, pinged, pinging, runnerVars, history>>

\* The runner holds a guard that saw TRUE.
Guarded(c) == pc = "callback" /\ CPoint[cur] = c

\* Mutant of Cancelled: set() does not wait for the old version's guards.
CancelledAtOnce(c) ==
  /\ enabled[c] = "closing"
  /\ enabled' = [enabled EXCEPT ![c] = "off"]
  /\ UNCHANGED <<safe, pinged, pinging, runnerVars, history>>

\* disable() of a synchronous cancellation point returns.
Cancelled(c) ==
  /\ enabled[c] = "closing"
  /\ ~Guarded(c)
  /\ enabled' = [enabled EXCEPT ![c] = "off"]
  /\ UNCHANGED <<safe, pinged, pinging, runnerVars, history>>

-----------------------------------------------------------------------------
(* The runner: run(now), and its owner's loop around it.                    *)

\* The first timer is scheduled for the given time or before.
Due(time) == timers # <<>> /\ sched[Head(timers)] <= time

\* The owner's thread passes its gate, or a timer is due by next().
Wake ==
  /\ pc = "asleep"
  /\ pinged \/ Due(clock)
  /\ pinged' = FALSE
  /\ now' = clock /\ act' = FALSE
  /\ pc' = "drain" /\ stage' = "timers"
  /\ UNCHANGED <<safe, enabled, pinging, cur, lists, timers, sched, history>>

\* The elements of s that are in T, in their order.
Those(s, T) ==
  LET kept[i \in 0..Len(s)] ==
        IF i = 0 THEN <<>>
        ELSE IF s[i] \in T THEN Append(kept[i - 1], s[i]) ELSE kept[i - 1]
  IN  kept[Len(s)]

\* evttimer_t::insert(): before the first timer that is not due earlier.
Insert(ts, s, j) == Those(ts, {t \in Jobs : s[t] < s[j]}) \o <<j>>
                    \o Those(ts, {t \in Jobs : s[t] >= s[j]})

\* Several timers, one after the other.
InsertAll(ts, s, new) ==
  LET held[i \in 0..Len(new)] ==
        IF i = 0 THEN ts ELSE Insert(held[i - 1], s, new[i])
  IN  held[Len(new)]

\* The jobs of one class.
Of(k) == {j \in Jobs : Class[j] = k}

\* Mutant of Taken: the jobs of a batch are inserted newest first.
TakenReversed(k) == Those(Reverse(safe), Of(k))

\* The jobs of one class that safe_ holds.
Taken(k) == Those(safe, Of(k))

\* safe_.run(): all that was posted is inserted in the runner's lists; a
\* timer is scheduled from now on.
Drain ==
  /\ pc = "drain"
  /\ lists' = [k \in Classes |-> lists[k] \o Taken(k)]
  /\ LET new == {j \in Jobs : \E i \in 1..Len(safe) :
                                safe[i] = j /\ Class[j] = "timer"}
     IN  /\ sched' = [j \in Jobs |-> IF j \in new THEN clock + Period
                                                  ELSE sched[j]]
         /\ start' = [j \in Jobs |-> IF j \in new THEN clock ELSE start[j]]
         /\ timers' = InsertAll(timers, sched', Taken("timer"))
  /\ safe' = <<>>
  /\ pc' = stage
  /\ UNCHANGED <<enabled, pinged, pinging, stage, cur, now, act,
                 clock, posted, fate, calls>>

\* The first timer, if it is due.
TakeTimer ==
  /\ pc = "timers"
  /\ Due(now)
  /\ cur' = Head(timers) /\ timers' = Tail(timers)
  /\ pc' = "guard"
  /\ UNCHANGED <<shared, stage, lists, sched, now, act, history>>

\* No timer is due: on to the label restart.
TimersDone ==
  /\ pc = "timers"
  /\ ~Due(now)
  /\ pc' = "jobs" /\ stage' = "jobs"
  /\ UNCHANGED <<shared, cur, lists, timers, sched, now, act, history>>

\* The first job of the first list that is not empty.
TakeJob ==
  /\ pc = "jobs"
  /\ \E i \in 1..4 :
       /\ lists[Lists[i]] # <<>>
       /\ \A h \in 1..(i - 1) : lists[Lists[h]] = <<>>
       /\ cur' = Head(lists[Lists[i]])
       /\ lists' = [lists EXCEPT ![Lists[i]] = Tail(@)]
  /\ pc' = "guard"
  /\ UNCHANGED <<shared, stage, timers, sched, now, act, history>>

\* run() returns; the owner calls it again if it did anything, else it waits.
RunReturns ==
  /\ pc = "jobs"
  /\ \A k \in Classes : lists[k] = <<>>
  /\ IF act THEN /\ pc' = "drain" /\ stage' = "timers"
                 /\ now' = clock /\ act' = FALSE
            ELSE /\ pc' = "asleep"
                 /\ UNCHANGED <<stage, now, act>>
  /\ UNCHANGED <<shared, cur, lists, timers, sched, history>>

\* pia_cguard_t and g.enabled() are true: the callback begins.  While a
\* synchronous point is being disabled a guard sees either version.
Enter ==
  /\ pc = "guard"
  /\ enabled[CPoint[cur]] # "off"
  /\ pc' = "callback"
  /\ calls' = [calls EXCEPT ![cur] = @ + 1]
  /\ act' = TRUE
  /\ UNCHANGED <<shared, stage, cur, lists, timers, sched, now, clock, posted,
                 fate, start>>

\* Mutant of Skip: the job is not deleted.
SkipKeeps ==
  /\ pc = "guard"
  /\ enabled[CPoint[cur]] # "on"
  /\ fate' = [fate EXCEPT ![cur] = "dropped"]
  /\ act' = TRUE
  /\ pc' = "drain"
  /\ UNCHANGED <<shared, stage, cur, lists, timers, sched, now, clock, posted,
                 start, calls>>

\* g.enabled() is false: the job, or the timer, is deleted.
Skip ==
  /\ pc = "guard"
  /\ enabled[CPoint[cur]] # "on"
  /\ fate' = [fate EXCEPT ![cur] = "dropped"]
  /\ act' = TRUE
  /\ pc' = "drain" /\ cur' = NoJob
  /\ UNCHANGED <<shared, stage, lists, timers, sched, now, clock, posted,
                 start, calls>>

\* Mutant of Leave: a timer is scheduled from the time of the call.
LeaveDrifts ==
  /\ pc = "callback" /\ ~pinging[Runner]
  /\ IF Class[cur] = "timer"
       THEN /\ sched' = [sched EXCEPT ![cur] = clock + Period]
            /\ timers' = Insert(timers, sched', cur)
            /\ UNCHANGED fate
       ELSE /\ fate' = [fate EXCEPT ![cur] = "ran"]
            /\ UNCHANGED <<timers, sched>>
  /\ pc' = "drain" /\ cur' = NoJob
  /\ UNCHANGED <<shared, stage, lists, now, act, clock, posted, start, calls>>

\* The callback returns: a timer is scheduled again, a job is deleted.
Leave ==
  /\ pc = "callback" /\ ~pinging[Runner]
  /\ IF Class[cur] = "timer"
       THEN /\ sched' = [sched EXCEPT ![cur] = @ + Period]
            /\ timers' = Insert(timers, sched', cur)
            /\ UNCHANGED fate
       ELSE /\ fate' = [fate EXCEPT ![cur] = "ran"]
            /\ UNCHANGED <<timers, sched>>
  /\ pc' = "drain" /\ cur' = NoJob
  /\ UNCHANGED <<shared, stage, lists, now, act, clock, posted, start, calls>>

RunnerStep == \/ Wake \/ Drain \/ TakeTimer \/ TimersDone \/ TakeJob
              \/ RunReturns \/ Enter \/ Skip \/ Leave

Next ==
  \/ Tick
  \/ \E t \in Threads \cup {Runner} :
       \/ \E j \in Jobs : Post(t, j)
       \/ Ping(t)
       \/ \E c \in CPoints : Cancel(t, c)
  \/ \E c \in Sync : Cancelled(c)
  \/ RunnerStep

Spec == Init /\ [][Next]_vars

\* The runner's thread is scheduled and its callbacks return; add() goes on
\* to the pinger; a thread that spins in set() is scheduled.
FairSpec ==
  /\ Spec
  /\ WF_vars(RunnerStep)
  /\ \A t \in Threads \cup {Runner} : WF_vars(Ping(t))
  /\ \A c \in Sync : WF_vars(Cancelled(c))

-----------------------------------------------------------------------------
(* Properties.                                                              *)

TypeOK ==
  /\ safe \in Seq(Jobs) /\ posted \in Seq(Jobs) /\ timers \in Seq(Jobs)
  /\ lists \in [Classes -> Seq(Jobs)]
  /\ enabled \in [CPoints -> {"on", "closing", "off"}]
  /\ pinged \in BOOLEAN /\ pinging \in [Threads \cup {Runner} -> BOOLEAN]
  /\ pc \in {"asleep", "drain", "timers", "jobs", "guard", "callback"}
  /\ stage \in {"timers", "jobs"} /\ act \in BOOLEAN
  /\ cur \in IF pc \in {"guard", "callback"} THEN Jobs ELSE {NoJob}
  /\ sched \in [Jobs -> Nat] /\ start \in [Jobs -> Nat]
  /\ calls \in [Jobs -> Nat] /\ now \in Nat /\ clock \in 0..MaxTime
  /\ fate \in [Jobs -> {"new", "queued", "ran", "dropped"}]

\* The runner never sleeps on posted jobs: its gate is open, or the thread
\* whose add() found the queue empty is about to open it; and nothing is left
\* in its own lists.
NoJobStranded ==
  pc = "asleep" =>
    /\ \A k \in Classes : lists[k] = <<>>
    /\ safe # <<>> => pinged \/ \E t \in Threads \cup {Runner} : pinging[t]

\* The place of a job's list in the order of run().
Priority(j) == CHOOSE i \in 1..4 : Lists[i] = Class[j]

Begun(j) == fate[j] \in {"ran", "dropped"} \/ j = cur

\* A job never begins before a job of the same or of a higher priority that
\* was posted earlier, by whichever thread, in a callback or outside.
RunsInOrder ==
  \A k \in 1..Len(posted) : \A i \in 1..(k - 1) :
    LET a == posted[i]  b == posted[k] IN
      (Class[a] # "timer" /\ Class[b] # "timer" /\ Begun(b)
                          /\ Priority(a) <= Priority(b)) => Begun(a)

\* Timers do not drift and are never called early: the n-th call of a timer
\* is not made before n periods have passed since it was inserted, and the
\* next one is scheduled for the period after.
TimersKeepTime ==
  /\ \A i \in 1..Len(timers) :
       sched[timers[i]] = start[timers[i]] + (calls[timers[i]] + 1) * Period
  /\ \A j \in Jobs : Class[j] = "timer" => start[j] + calls[j] * Period <= clock

\* When disable() of a synchronous cancellation point has returned, none of
\* its jobs is in a callback: what the callback uses may be deleted.
SyncCancelIsFinal ==
  \A c \in Sync : enabled[c] = "off" => ~Guarded(c)

\* pia_eventq.cpp:31: "on return from the cancel operation, the job is not
\* currently and will not run.  The exception is when cancel is called from
\* within a callback function."  A thread other than the runner has cancelled
\* only points that have no callback under way when it returns.
CancelGuarantee ==
  [][\A t \in Threads, c \in CPoints \ Sync :
       Cancel(t, c) => ~Guarded(c)]_vars

\* Every job that is posted is called or thrown away, whatever is posted and
\* cancelled at the same time.  (A job is posted once.)
EveryJobSettles ==
  []<>(\A j \in Jobs : Class[j] # "timer" => fate[j] # "queued")
=============================================================================
