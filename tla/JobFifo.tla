------------------------------ MODULE JobFifo ------------------------------
(***************************************************************************)
(* What a pic::safe_worker_t promises to those who add jobs to it          *)
(* (picross/pic_safeq.h): the jobs run one at a time, each once, in the    *)
(* order in which they were added, whichever threads added them.           *)
(***************************************************************************)
EXTENDS Sequences

CONSTANTS Jobs

VARIABLES queue,    \* the jobs added and not yet run, oldest first
          ran       \* the jobs that have run, in order

fifoVars == <<queue, ran>>

Init == queue = <<>> /\ ran = <<>>

\* A job is a call of add(), so that no job is added twice.
Add(j) ==
  /\ \A i \in DOMAIN queue : queue[i] # j
  /\ \A i \in DOMAIN ran : ran[i] # j
  /\ queue' = Append(queue, j)
  /\ UNCHANGED ran

Run ==
  /\ queue # <<>>
  /\ queue' = Tail(queue)
  /\ ran' = Append(ran, Head(queue))

Next == Run \/ \E j \in Jobs : Add(j)

Spec == Init /\ [][Next]_fifoVars
=============================================================================
