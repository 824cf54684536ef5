--------------------------- MODULE DispatchProofs ---------------------------
(***************************************************************************)
(* For any contexts, threads and groups: a context has one user at a time, *)
(* and none while the global lock is held; and where each group has one    *)
(* thread, as in the graphical program, no posted job is left unnoticed.   *)
(***************************************************************************)
EXTENDS Dispatch, FiniteSetTheorems, SequenceTheorems, TLAPS

\* From when process_ctx() has found a context until it has left it.
Found(t) == pc[t] \in Calling \cup {"rlock", "enter"}

-----------------------------------------------------------------------------
(* Who has a context.                                                       *)

\* busy_ is held exactly by the thread that calls into the context, or by the
\* caller that has locked it.
HolderCalls ==
  \A t \in Threads, c \in Contexts :
    busy[c] = t <=> pc[t] \in Calling /\ ctx[t] = c
HolderLocks ==
  /\ \A p \in Callers, c \in Contexts :
       busy[c] = p <=> call[p].at = "locked" /\ call[p].q = c
  /\ \A p \in Callers : call[p].at = "locked" => call[p].q \in Contexts

\* A thread works on a context of its group.
OwnGroup == \A t \in Threads : Found(t) => /\ ctx[t] \in Contexts
                                           /\ Group[ctx[t]] = Group[t]

\* Between enter() and leave() the global lock is held for reading.
ReadLocked == \A t \in Threads : pc[t] \in Calling \cup {"enter"} => ~gc

\* The runner has a job when it calls it; and no job is counted twice.
Counted == /\ \A t \in Threads : pc[t] = "call" => todo[ctx[t]] > 0
           /\ \A q \in Queues : safe[q] + todo[q] <= jobs[q]

\* Gates are left to open only by service_ctx().
OpensLater == \A p \in Callers : call[p].at # "open" => call[p].opens = {}

Inv == /\ TypeOK /\ HolderCalls /\ HolderLocks
       /\ OwnGroup /\ ReadLocked /\ Counted /\ OpensLater

LEMMA InvExclusive == Inv => ContextsExclusive
<1>. SUFFICES ASSUME Inv, NEW t \in Threads, pc[t] \in Calling
     PROVE  /\ ~gc
            /\ \A u \in Threads \ {t} : pc[u] \in Calling => ctx[u] # ctx[t]
            /\ \A p \in Callers : call[p].at = "locked" => call[p].q # ctx[t]
  BY DEF ContextsExclusive
<1>1. ctx[t] \in Contexts /\ ~gc
  BY DEF Inv, OwnGroup, Found, ReadLocked
<1>2. busy[ctx[t]] = t
  BY <1>1 DEF Inv, HolderCalls
<1>3. \A u \in Threads \ {t} : pc[u] \in Calling => ctx[u] # ctx[t]
  BY <1>1, <1>2 DEF Inv, HolderCalls
<1>4. \A p \in Callers : call[p].at = "locked" => call[p].q # ctx[t]
  BY <1>1, <1>2, DispatchAssumption DEF Inv, HolderLocks
<1>. QED  BY <1>1, <1>3, <1>4

-----------------------------------------------------------------------------
(* The list of contexts.                                                    *)

\* The list has the contexts, each of them.
Listed == \A c \in Contexts : \E i \in 1..Len(order) : order[i] = c

\* SetToSeq() of a finite set is a sequence of all its members.
LEMMA SetToSeqLists ==
  ASSUME NEW S, IsFiniteSet(S)
  PROVE  /\ SetToSeq(S) \in Seq(S)
         /\ \A x \in S : \E i \in 1..Len(SetToSeq(S)) : SetToSeq(S)[i] = x
<1>. DEFINE n == Cardinality(S)
            s == SetToSeq(S)
<1>1. n \in Nat /\ ExistsBijection(1..n, S)
  BY FS_CardinalityType
<1>2. PICK b : b \in Bijection(1..n, S)
  BY <1>1 DEF ExistsBijection
<1>3. b \in [1..n -> S] /\ IsInjective(b)
  BY <1>2 DEF Bijection, Injection
<1>4. s \in [1..n -> S] /\ IsInjective(s)
  BY <1>3 DEF SetToSeq
<1>5. s \in Seq(S) /\ Len(s) = n
  BY <1>1, <1>4, SeqDef
<1>6. IsFiniteSet(1..n) /\ Cardinality(1..n) = n
  BY <1>1, FS_Interval
<1>7. s \in Injection(1..n, S)
  BY <1>4 DEF Injection
<1>8. s \in Surjection(1..n, S)
  BY <1>6, <1>7, FS_Injection
<1>. QED  BY <1>5, <1>8 DEF Surjection

\* Moving a member of a sequence to its end leaves every member in it.
LEMMA MoveToEnd ==
  ASSUME NEW S, NEW s \in Seq(S), NEW i \in 1..Len(s)
  PROVE  LET m == Append(RemoveAt(s, i), s[i])
         IN  /\ m \in Seq(S)
             /\ \A j \in 1..Len(s) : \E k \in 1..Len(m) : m[k] = s[j]
<1>. DEFINE a == SubSeq(s, 1, i-1)
            b == SubSeq(s, i+1, Len(s))
            r == RemoveAt(s, i)
            m == Append(r, s[i])
<1>1. Len(s) \in Nat /\ \A j \in 1..Len(s) : s[j] \in S
  BY LenProperties, ElementOfSeq
<1>2. /\ a \in Seq(S) /\ Len(a) = i-1
      /\ \A j \in 1..i-1 : a[j] = s[j]
  BY <1>1, SubSeqProperties
<1>3. /\ b \in Seq(S) /\ Len(b) = Len(s) - i
      /\ \A j \in 1..Len(s)-i : b[j] = s[i+j]
  BY <1>1, SubSeqProperties
<1>4. /\ r \in Seq(S) /\ Len(r) = Len(s) - 1
      /\ \A j \in 1..Len(s)-1 : r[j] = IF j <= i-1 THEN a[j] ELSE b[j-(i-1)]
  <2>1. r = a \o b
    BY DEF RemoveAt
  <2>2. /\ a \o b \in Seq(S) /\ Len(a \o b) = Len(a) + Len(b)
        /\ \A j \in 1..Len(a)+Len(b) :
             (a \o b)[j] = IF j <= Len(a) THEN a[j] ELSE b[j - Len(a)]
    <3>. HIDE DEF a, b
    <3>. QED  BY <1>2, <1>3, ConcatProperties
  <2>. HIDE DEF a, b, r
  <2>3. Len(a) = i-1 /\ Len(a) + Len(b) = Len(s) - 1
    BY <1>1, <1>2, <1>3
  <2>. QED  BY <2>1, <2>2, <2>3
<1>5. /\ m \in Seq(S) /\ Len(m) = Len(s)
      /\ \A j \in 1..Len(s)-1 : m[j] = r[j]
      /\ m[Len(s)] = s[i]
  BY <1>1, <1>4
<1>6. ASSUME NEW j \in 1..Len(s)
      PROVE  \E k \in 1..Len(m) : m[k] = s[j]
  <2>1. CASE j < i
    BY <1>1, <1>2, <1>4, <1>5, <2>1
  <2>2. CASE j = i
    BY <1>1, <1>5, <2>2
  <2>3. CASE j > i
    <3>1. j-1 \in 1..Len(s)-1 /\ j-i \in 1..Len(s)-i /\ ~(j-1 <= i-1) /\ (j-1)-(i-1) = j-i
      BY <1>1, <2>3
    <3>2. m[j-1] = b[j-i] /\ b[j-i] = s[i+(j-i)]
      BY <1>3, <1>4, <1>5, <3>1
    <3>3. i+(j-i) = j
      OBVIOUS
    <3>. QED  BY <1>1, <1>5, <3>1, <3>2, <3>3
  <2>. QED  BY <1>1, <2>1, <2>2, <2>3
<1>. QED  BY <1>5, <1>6
-----------------------------------------------------------------------------
(* Each step keeps Inv.                                                     *)

\* What Does() makes, and what is made of it.
LEMMA DoingProperties ==
  /\ \A at, q, opens : /\ Does(at, q, opens).at = at
                       /\ Does(at, q, opens).q = q
                       /\ Does(at, q, opens).opens = opens
  /\ \A at \in {"idle", "ping", "open", "locked"}, q \in Queues, opens \in SUBSET Threads :
       Does(at, q, opens) \in Doing
  /\ Idle \in Doing /\ Idle.at = "idle" /\ Idle.opens = {}
  /\ \A r \in Doing : r.q \in Queues /\ r.opens \in SUBSET Threads
  BY DEF Does, Doing, Idle, Queues

LEMMA InitInv == Init => Inv
<1>. SUFFICES ASSUME Init PROVE Inv
  OBVIOUS
<1>1. order \in Seq(Contexts)
  BY SetToSeqLists, DispatchAssumption DEF Init
<1>2. TypeOK
  <2>1. 0 \in 0..MaxJobs
    BY DispatchAssumption
  <2>2. call \in [Callers -> Doing]
    BY DoingProperties DEF Init
  <2>. QED  BY <1>1, <2>1, <2>2 DEF Init, TypeOK, Queues, Calling
<1>3. HolderCalls
  BY DispatchAssumption DEF Init, HolderCalls, Calling, Queues
<1>4. HolderLocks /\ OpensLater
  BY DispatchAssumption, DoingProperties DEF Init, HolderLocks, OpensLater, Queues
<1>5. OwnGroup /\ ReadLocked
  BY DEF Init, OwnGroup, Found, ReadLocked, Calling
<1>6. Counted
  BY DEF Init, Counted, Queues
<1>. QED  BY <1>2, <1>3, <1>4, <1>5, <1>6 DEF Inv

LEMMA PostInv ==
  ASSUME Inv, NEW p \in Callers, NEW q \in Queues, Post(p, q)
  PROVE  Inv'
<1>1. /\ call[p] = Idle /\ call'[p] \in Doing
      /\ call'[p].at \in {"idle", "ping"} /\ call'[p].opens = {}
      /\ call' \in [Callers -> Doing]
      /\ \A o \in Callers \ {p} : call'[o] = call[o]
  BY DoingProperties DEF Inv, TypeOK, Post
<1>2. UNCHANGED <<todo, order, pc, ctx, again, flag, busy, gate, gc>>
  BY DEF Post, threadVars
<1>3. /\ safe[q] \in Nat /\ todo[q] \in Nat /\ jobs[q] \in Nat /\ MaxJobs \in Nat
      /\ jobs[q] < MaxJobs /\ safe[q] + todo[q] <= jobs[q]
  BY DispatchAssumption DEF Inv, TypeOK, Counted, Post
<1>4. safe[q] + 1 \in 0..MaxJobs /\ jobs[q] + 1 \in 0..MaxJobs
  BY <1>3
<1>5. safe' = [safe EXCEPT ![q] = @ + 1] /\ jobs' = [jobs EXCEPT ![q] = @ + 1]
  BY DEF Post
<1>6. TypeOK'
  BY <1>1, <1>2, <1>4, <1>5 DEF Inv, TypeOK
<1>7. HolderCalls' /\ OwnGroup' /\ ReadLocked'
  BY <1>2 DEF Inv, HolderCalls, OwnGroup, Found, ReadLocked
<1>8. HolderLocks' /\ OpensLater'
  BY <1>1, <1>2, DoingProperties DEF Inv, HolderLocks, OpensLater
<1>9. Counted'
  <2>1. \A r \in Queues : safe'[r] + todo[r] <= jobs'[r]
    BY <1>3, <1>5 DEF Inv, Counted, TypeOK
  <2>. QED  BY <1>2, <2>1 DEF Inv, Counted
<1>. QED  BY <1>6, <1>7, <1>8, <1>9 DEF Inv

LEMMA LockInv ==
  ASSUME Inv, NEW p \in Callers, NEW c \in Contexts, Lock(p, c)
  PROVE  Inv'
<1>1. /\ call[p].at = "idle" /\ call'[p].at = "locked"
      /\ call'[p].q = c /\ call'[p].opens = {}
      /\ call' \in [Callers -> Doing]
      /\ \A o \in Callers \ {p} : call'[o] = call[o]
  BY DoingProperties DEF Inv, TypeOK, Lock, Queues
<1>2. UNCHANGED <<todo, order, pc, ctx, again, safe, flag, gate, gc, jobs>>
  BY DEF Lock, threadVars
<1>3. /\ busy[c] = Free /\ busy'[c] = p
      /\ busy' \in [Queues -> Threads \cup Callers \cup {Free}]
      /\ \A d \in Contexts \ {c} : busy'[d] = busy[d]
  BY DEF Inv, TypeOK, Lock, Queues
<1>4. TypeOK'
  BY <1>1, <1>2, <1>3 DEF Inv, TypeOK
<1>5. HolderCalls'
  BY <1>2, <1>3, DispatchAssumption DEF Inv, HolderCalls
<1>6. HolderLocks' /\ OpensLater'
  BY <1>1, <1>3, DispatchAssumption DEF Inv, HolderLocks, OpensLater
<1>7. OwnGroup' /\ ReadLocked' /\ Counted'
  BY <1>2 DEF Inv, OwnGroup, Found, ReadLocked, Counted
<1>. QED  BY <1>4, <1>5, <1>6, <1>7 DEF Inv

LEMMA UnlockInv ==
  ASSUME Inv, NEW p \in Callers, Unlock(p)
  PROVE  Inv'
<1>. DEFINE c == call[p].q
<1>1. call[p].at = "locked" /\ c \in Contexts /\ busy[c] = p /\ p # Free
  BY DispatchAssumption DEF Inv, HolderLocks, Unlock
<1>2. /\ call'[p].at = "ping" /\ call'[p].opens = {}
      /\ call' \in [Callers -> Doing]
      /\ \A o \in Callers \ {p} : call'[o] = call[o]
  BY DoingProperties DEF Inv, TypeOK, Unlock
<1>3. UNCHANGED <<todo, order, pc, ctx, again, safe, flag, gate, gc, jobs>>
  BY DEF Unlock, threadVars
<1>4. /\ busy'[c] = Free
      /\ busy' \in [Queues -> Threads \cup Callers \cup {Free}]
      /\ \A d \in Contexts \ {c} : busy'[d] = busy[d]
  BY <1>1 DEF Inv, TypeOK, Unlock, Queues
<1>5. TypeOK'
  BY <1>2, <1>3, <1>4 DEF Inv, TypeOK
<1>6. HolderCalls'
  BY <1>1, <1>3, <1>4, DispatchAssumption DEF Inv, HolderCalls
<1>7. HolderLocks' /\ OpensLater'
  BY <1>1, <1>2, <1>4, DispatchAssumption DEF Inv, HolderLocks, OpensLater
<1>8. OwnGroup' /\ ReadLocked' /\ Counted'
  BY <1>3 DEF Inv, OwnGroup, Found, ReadLocked, Counted
<1>. QED  BY <1>5, <1>6, <1>7, <1>8 DEF Inv

LEMMA ServiceInv ==
  ASSUME Inv, NEW p \in Callers, Service(p)
  PROVE  Inv'
<1>1. /\ call[p].at # "locked" /\ call'[p].at \in {"idle", "open"}
      /\ (call'[p].at # "open" => call'[p].opens = {})
      /\ call' \in [Callers -> Doing]
      /\ \A o \in Callers \ {p} : call'[o] = call[o]
  <2>1. CASE Raise(p)
    <3>1. call[p].q \in Queues
      BY DoingProperties DEF Inv, TypeOK
    <3>2. Opens[GroupOf(call[p].q)] \in SUBSET Threads
      BY <3>1, OpensAssumption
    <3>3. Aux \in Queues
      BY DEF Queues
    <3>. QED  BY <2>1, <3>2, <3>3, DoingProperties DEF Inv, TypeOK, Raise
  <2>2. CASE OpenGate(p)
    <3>1. PICK t \in call[p].opens :
            call' = [call EXCEPT ![p] = IF @.opens = {t} THEN Idle
                                        ELSE Does("open", Aux, @.opens \ {t})]
      BY <2>2 DEF OpenGate
    <3>2. call[p].opens \ {t} \in SUBSET Threads /\ Aux \in Queues
      BY DoingProperties DEF Inv, TypeOK, Queues
    <3>3. Does("open", Aux, call[p].opens \ {t}) \in Doing
      BY <3>2, DoingProperties
    <3>4. call'[p] \in {Idle, Does("open", Aux, call[p].opens \ {t})}
      BY <3>1 DEF Inv, TypeOK
    <3>5. /\ call' \in [Callers -> Doing]
          /\ \A o \in Callers \ {p} : call'[o] = call[o]
      BY <3>1, <3>3, DoingProperties DEF Inv, TypeOK
    <3>. QED  BY <2>2, <3>4, <3>5, DoingProperties DEF OpenGate
  <2>. QED  BY <2>1, <2>2 DEF Service
<1>2. UNCHANGED <<todo, order, pc, ctx, again, safe, busy, gc, jobs>>
  BY DEF Service, Raise, OpenGate, threadVars
<1>3. flag' \in [Queues -> BOOLEAN] /\ gate' \in [Threads -> BOOLEAN]
  BY DEF Service, Raise, OpenGate, Inv, TypeOK
<1>4. TypeOK'
  BY <1>1, <1>2, <1>3 DEF Inv, TypeOK
<1>5. HolderLocks' /\ OpensLater'
  BY <1>1, <1>2 DEF Inv, HolderLocks, OpensLater
<1>6. HolderCalls' /\ OwnGroup' /\ ReadLocked' /\ Counted'
  BY <1>2 DEF Inv, HolderCalls, OwnGroup, Found, ReadLocked, Counted
<1>. QED  BY <1>4, <1>5, <1>6 DEF Inv

LEMMA GlobalInv ==
  ASSUME Inv, GlobalLock \/ GlobalUnlock
  PROVE  Inv'
<1>1. UNCHANGED <<safe, todo, flag, busy, order, gate, pc, ctx, again, call, jobs>>
  BY DEF GlobalLock, GlobalUnlock, threadVars
<1>2. TypeOK'
  BY <1>1 DEF GlobalLock, GlobalUnlock, Inv, TypeOK
<1>3. ReadLocked'
  BY <1>1 DEF GlobalLock, GlobalUnlock, Inv, ReadLocked, Calling
<1>4. HolderCalls' /\ HolderLocks' /\ OwnGroup' /\ Counted' /\ OpensLater'
  BY <1>1 DEF Inv, HolderCalls, HolderLocks, OwnGroup, Found, Counted, OpensLater
<1>. QED  BY <1>2, <1>3, <1>4 DEF Inv

\* Steps of a thread that leave the contexts and their jobs alone: it neither
\* comes to a context nor leaves one.
Outside(t) ==
  /\ UNCHANGED <<todo, order, ctx, others>>
  /\ pc' \in [Threads -> Calling \cup {"wait", "aux", "auxflag", "auxrun", "scan",
                                       "rlock", "enter"}]
  /\ pc[t] \notin Calling /\ pc'[t] \notin Calling \cup {"rlock", "enter"}
  /\ \A u \in Threads \ {t} : pc'[u] = pc[u]
  /\ flag' \in [Queues -> BOOLEAN] /\ gate' \in [Threads -> BOOLEAN]
  /\ again' \in [Threads -> BOOLEAN]
  /\ safe' \in [Queues -> 0..MaxJobs] /\ \A q \in Queues : safe'[q] <= safe[q]
  /\ busy' \in [Queues -> Threads \cup Callers \cup {Free}]
  /\ \A c \in Contexts : busy'[c] = busy[c]

LEMMA OutsideInv ==
  ASSUME Inv, NEW t \in Threads, Outside(t)
  PROVE  Inv'
<1>. USE DEF Outside
<1>1. TypeOK'
  BY DEF Inv, TypeOK, others
<1>2. HolderCalls' /\ HolderLocks' /\ OpensLater'
  BY DEF Inv, HolderCalls, HolderLocks, OpensLater, others
<1>3. OwnGroup' /\ ReadLocked'
  BY DEF Inv, OwnGroup, Found, ReadLocked, others
<1>4. Counted'
  <2>1. \A q \in Queues : /\ safe[q] \in Int /\ safe'[q] \in Int
                          /\ todo[q] \in Int /\ jobs[q] \in Int
    BY DEF Inv, TypeOK
  <2>2. \A u \in Threads : pc'[u] = "call" => u # t
    BY DEF Calling
  <2>. QED  BY <2>1, <2>2 DEF Inv, Counted, others
<1>. QED  BY <1>1, <1>2, <1>3, <1>4 DEF Inv

LEMMA BetweenInv ==
  ASSUME Inv, NEW t \in Threads,
         \/ PassGate(t) \/ TimeOut(t) \/ EnterAux(t) \/ LowerAux(t) \/ RunAux(t)
         \/ FindNothing(t)
  PROVE  Inv'
<1>1. /\ pc[t] \in {"wait", "aux", "auxflag", "auxrun", "scan"}
      /\ pc'[t] \in {"wait", "aux", "auxflag", "auxrun", "scan"}
      /\ pc' = [pc EXCEPT ![t] = pc'[t]]
      /\ UNCHANGED <<todo, order, ctx, others>>
  BY DEF PassGate, TimeOut, EnterAux, LowerAux, RunAux, FindNothing, Inv, TypeOK
<1>2. Aux \in Queues /\ Aux \notin Contexts /\ 0 \in 0..MaxJobs
  BY DispatchAssumption DEF Queues
<1>3. gate' \in [Threads -> BOOLEAN] /\ again' \in [Threads -> BOOLEAN]
  BY DEF PassGate, TimeOut, EnterAux, LowerAux, RunAux, FindNothing, Inv, TypeOK
<1>4. flag' \in [Queues -> BOOLEAN]
  BY <1>2 DEF PassGate, TimeOut, EnterAux, LowerAux, RunAux, FindNothing, Inv, TypeOK
<1>5. safe' \in [Queues -> 0..MaxJobs] /\ \A q \in Queues : safe'[q] <= safe[q]
  <2>1. safe' = safe \/ safe' = [safe EXCEPT ![Aux] = 0]
    BY DEF PassGate, TimeOut, EnterAux, LowerAux, RunAux, FindNothing
  <2>2. \A q \in Queues : safe[q] \in Nat
    BY DEF Inv, TypeOK
  <2>3. CASE safe' = safe
    BY <2>2, <2>3 DEF Inv, TypeOK
  <2>4. CASE safe' = [safe EXCEPT ![Aux] = 0]
    <3>1. safe' \in [Queues -> 0..MaxJobs]
      BY <1>2, <2>4 DEF Inv, TypeOK
    <3>2. \A q \in Queues : safe'[q] = IF q = Aux THEN 0 ELSE safe[q]
      BY <2>4 DEF Inv, TypeOK
    <3>. QED  BY <2>2, <3>1, <3>2
  <2>. QED  BY <2>1, <2>3, <2>4
<1>6. /\ busy' \in [Queues -> Threads \cup Callers \cup {Free}]
      /\ \A c \in Contexts : busy'[c] = busy[c]
  <2>1. \/ busy' = busy \/ busy' = [busy EXCEPT ![Aux] = t]
        \/ busy' = [busy EXCEPT ![Aux] = IF @ = t THEN Free ELSE @]
    BY DEF PassGate, TimeOut, EnterAux, LowerAux, RunAux, FindNothing, AuxDone
  <2>. QED  BY <1>2, <2>1 DEF Inv, TypeOK, Queues
<1>7. Outside(t)
  BY <1>1, <1>3, <1>4, <1>5, <1>6 DEF Outside, Inv, TypeOK, Calling
<1>. QED  BY <1>7, OutsideInv

\* The context that is found is one of the thread's group.
LEMMA FindInv ==
  ASSUME Inv, NEW t \in Threads, Find(t)
  PROVE  /\ Inv'
         /\ \E c \in Contexts :
              /\ Group[c] = Group[t] /\ flag[c] /\ ctx'[t] = c
              /\ flag' = [flag EXCEPT ![c] = FALSE]
<1>1. PICK i \in Calls(t) : /\ flag' = [flag EXCEPT ![order[i]] = FALSE]
                            /\ ctx' = [ctx EXCEPT ![t] = order[i]]
                            /\ order' = Append(RemoveAt(order, i), order[i])
  BY DEF Find
<1>. DEFINE c == order[i]
<1>2. order \in Seq(Contexts) /\ i \in 1..Len(order) /\ Group[c] = Group[t] /\ flag[c]
  BY DEF Calls, Inv, TypeOK
<1>3. c \in Contexts /\ c \in Queues
  BY <1>2, ElementOfSeq DEF Queues
<1>4. order' \in Seq(Contexts)
  BY <1>1, <1>2, MoveToEnd
<1>5. /\ pc[t] = "scan" /\ pc'[t] = "rlock" /\ ctx'[t] = c
      /\ \A u \in Threads \ {t} : pc'[u] = pc[u] /\ ctx'[u] = ctx[u]
      /\ UNCHANGED <<safe, todo, gate, again, gc, call, jobs>>
  BY <1>1 DEF Find, Inv, TypeOK, others
<1>6. /\ busy' \in [Queues -> Threads \cup Callers \cup {Free}]
      /\ \A d \in Contexts : busy'[d] = busy[d]
  BY DispatchAssumption DEF Find, AuxDone, Inv, TypeOK, Queues
<1>7. TypeOK'
  <2>1. pc' \in [Threads -> Calling \cup
                   {"wait", "aux", "auxflag", "auxrun", "scan", "rlock", "enter"}]
    BY DEF Find, Inv, TypeOK
  <2>2. ctx' \in [Threads -> Queues] /\ flag' \in [Queues -> BOOLEAN]
    BY <1>1, <1>3 DEF Inv, TypeOK
  <2>. QED  BY <1>4, <1>5, <1>6, <2>1, <2>2 DEF Inv, TypeOK
<1>8. HolderCalls'
  BY <1>5, <1>6 DEF Inv, HolderCalls, Calling
<1>9. HolderLocks' /\ OpensLater'
  BY <1>5, <1>6 DEF Inv, HolderLocks, OpensLater
<1>10. OwnGroup' /\ ReadLocked'
  BY <1>2, <1>3, <1>5 DEF Inv, OwnGroup, Found, ReadLocked, Calling
<1>11. Counted'
  BY <1>5 DEF Inv, Counted
<1>. QED  BY <1>1, <1>2, <1>3, <1>5, <1>7, <1>8, <1>9, <1>10, <1>11 DEF Inv

\* A thread at a context that it has found.
LEMMA InsideInv ==
  ASSUME Inv, NEW t \in Threads,
         ReadLock(t) \/ Enter(t) \/ Drain(t) \/ CallBack(t) \/ Leave(t)
  PROVE  Inv'
<1>. DEFINE c == ctx[t]
<1>1. /\ c \in Contexts /\ c \in Queues /\ Group[c] = Group[t]
      /\ UNCHANGED <<flag, order, gate, ctx, gc, call, jobs>>
      /\ \A u \in Threads \ {t} : pc'[u] = pc[u]
  BY DEF ReadLock, Enter, Drain, CallBack, Leave, others, Inv, TypeOK, OwnGroup,
         Found, Calling, Queues
<1>2. /\ todo[c] \in Nat /\ safe[c] \in Nat /\ jobs[c] \in Nat /\ jobs[c] <= MaxJobs
      /\ MaxJobs \in Nat /\ safe[c] + todo[c] <= jobs[c]
  BY <1>1, DispatchAssumption DEF Inv, TypeOK, Counted
<1>3. t \notin Callers /\ t # Free
  BY DispatchAssumption
<1>4. OpensLater'
  BY <1>1 DEF Inv, OpensLater
<1>5. OwnGroup'
  <2>1. \A u \in Threads : Found(u)' => u = t \/ Found(u)
    BY <1>1 DEF Found
  <2>. QED  BY <1>1, <2>1 DEF Inv, OwnGroup
<1>6. CASE ReadLock(t)
  <2>1. UNCHANGED <<safe, todo, busy, again>> /\ ~gc /\ pc[t] = "rlock" /\ pc'[t] = "enter"
    BY <1>6 DEF ReadLock, Inv, TypeOK
  <2>2. TypeOK'
    BY <1>1, <1>6, <2>1 DEF ReadLock, Inv, TypeOK
  <2>3. HolderCalls' /\ HolderLocks' /\ ReadLocked' /\ Counted'
    BY <1>1, <2>1 DEF Inv, HolderCalls, HolderLocks, ReadLocked, Counted, Calling
  <2>. QED  BY <1>4, <1>5, <2>2, <2>3 DEF Inv
<1>7. CASE Enter(t)
  <2>1. UNCHANGED <<safe, todo, again>> /\ pc[t] = "enter"
    BY <1>7 DEF Enter
  <2>2. \/ busy' = busy /\ pc'[t] = "aux"
        \/ busy[c] = Free /\ busy' = [busy EXCEPT ![c] = t] /\ pc'[t] = "run"
    BY <1>7 DEF Enter, Inv, TypeOK
  <2>3. pc' \in [Threads -> Calling \cup
                   {"wait", "aux", "auxflag", "auxrun", "scan", "rlock", "enter"}]
    BY <1>7 DEF Enter, Inv, TypeOK, Calling
  <2>4. CASE busy' = busy /\ pc'[t] = "aux"
    <3>1. TypeOK'
      BY <1>1, <2>1, <2>3, <2>4 DEF Inv, TypeOK
    <3>2. HolderCalls' /\ HolderLocks' /\ ReadLocked' /\ Counted'
      BY <1>1, <2>1, <2>4 DEF Inv, HolderCalls, HolderLocks, ReadLocked, Counted, Calling
    <3>. QED  BY <1>4, <1>5, <3>1, <3>2 DEF Inv
  <2>5. CASE busy[c] = Free /\ busy' = [busy EXCEPT ![c] = t] /\ pc'[t] = "run"
    <3>1. /\ busy'[c] = t /\ \A d \in Contexts \ {c} : busy'[d] = busy[d]
          /\ busy' \in [Queues -> Threads \cup Callers \cup {Free}]
      BY <1>1, <2>5 DEF Inv, TypeOK, Queues
    <3>2. TypeOK'
      BY <1>1, <2>1, <2>3, <3>1 DEF Inv, TypeOK
    <3>3. HolderCalls'
      BY <1>1, <1>3, <2>1, <2>5, <3>1, DispatchAssumption DEF Inv, HolderCalls, Calling
    <3>4. HolderLocks'
      BY <1>1, <1>3, <2>5, <3>1, DispatchAssumption DEF Inv, HolderLocks
    <3>5. ReadLocked' /\ Counted'
      BY <1>1, <2>1, <2>5 DEF Inv, ReadLocked, Counted, Calling
    <3>. QED  BY <1>4, <1>5, <3>2, <3>3, <3>4, <3>5 DEF Inv
  <2>. QED  BY <2>2, <2>4, <2>5
<1>8. CASE Drain(t)
  <2>1. /\ UNCHANGED <<busy, again>> /\ pc[t] = "run"
        /\ todo' = [todo EXCEPT ![c] = @ + safe[c]] /\ safe' = [safe EXCEPT ![c] = 0]
        /\ pc' = [pc EXCEPT ![t] = IF todo'[c] = 0 THEN "leave" ELSE "call"]
    BY <1>8 DEF Drain
  <2>2. todo[c] + safe[c] \in 0..MaxJobs /\ 0 \in 0..MaxJobs
    BY <1>2
  <2>3. todo'[c] = todo[c] + safe[c] /\ safe'[c] = 0
    BY <1>1, <2>1 DEF Inv, TypeOK
  <2>4. TypeOK'
    BY <1>1, <2>1, <2>2 DEF Inv, TypeOK, Calling
  <2>5. HolderCalls' /\ HolderLocks' /\ ReadLocked'
    BY <1>1, <2>1 DEF Inv, TypeOK, HolderCalls, HolderLocks, ReadLocked, Calling
  <2>6. \A q \in Queues : safe'[q] + todo'[q] <= jobs[q]
    BY <1>2, <2>1, <2>3 DEF Inv, TypeOK, Counted
  <2>7. \A u \in Threads : pc'[u] = "call" => todo'[ctx[u]] > 0
    <3>1. pc'[t] = "call" => todo'[c] > 0
      BY <1>2, <2>1, <2>3 DEF Inv, TypeOK
    <3>2. \A u \in Threads \ {t} : pc[u] = "call" => ctx[u] # c
      BY <1>1, <2>1 DEF Inv, HolderCalls, Calling
    <3>3. \A u \in Threads \ {t} : pc[u] = "call" => todo'[ctx[u]] = todo[ctx[u]]
      BY <2>1, <3>2 DEF Inv, TypeOK
    <3>. QED  BY <1>1, <3>1, <3>3 DEF Inv, Counted
  <2>. QED  BY <1>1, <1>4, <1>5, <2>4, <2>5, <2>6, <2>7 DEF Inv, Counted
<1>9. CASE CallBack(t)
  <2>1. /\ UNCHANGED <<busy, safe>> /\ pc[t] = "call"
        /\ todo' = [todo EXCEPT ![c] = @ - 1] /\ again' = [again EXCEPT ![t] = TRUE]
        /\ pc' = [pc EXCEPT ![t] = "run"]
    BY <1>9 DEF CallBack
  <2>2. todo[c] > 0
    BY <2>1 DEF Inv, Counted
  <2>3. todo[c] - 1 \in 0..MaxJobs
    BY <1>2, <2>2
  <2>4. TypeOK'
    BY <1>1, <2>1, <2>3 DEF Inv, TypeOK, Calling
  <2>5. HolderCalls' /\ HolderLocks' /\ ReadLocked'
    BY <1>1, <2>1 DEF Inv, TypeOK, HolderCalls, HolderLocks, ReadLocked, Calling
  <2>6. \A q \in Queues : safe[q] + todo'[q] <= jobs[q]
    BY <1>2, <2>1 DEF Inv, TypeOK, Counted
  <2>7. \A u \in Threads : pc'[u] = "call" => todo'[ctx[u]] > 0
    <3>1. \A u \in Threads \ {t} : pc[u] = "call" => ctx[u] # c
      BY <1>1, <2>1 DEF Inv, HolderCalls, Calling
    <3>2. \A u \in Threads \ {t} : pc[u] = "call" => todo'[ctx[u]] = todo[ctx[u]]
      BY <2>1, <3>1 DEF Inv, TypeOK
    <3>3. pc'[t] # "call"
      BY <2>1 DEF Inv, TypeOK
    <3>. QED  BY <1>1, <3>2, <3>3 DEF Inv, Counted
  <2>. QED  BY <1>1, <1>4, <1>5, <2>1, <2>4, <2>5, <2>6, <2>7 DEF Inv, Counted
<1>10. CASE Leave(t)
  <2>1. /\ UNCHANGED <<safe, todo, again>> /\ pc[t] = "leave" /\ pc'[t] = "aux"
        /\ busy[c] = t /\ busy'[c] = Free
        /\ \A d \in Contexts \ {c} : busy'[d] = busy[d]
    BY <1>1, <1>10 DEF Leave, Inv, TypeOK, HolderCalls, Calling, Queues
  <2>2. TypeOK'
    BY <1>1, <1>10, <2>1 DEF Leave, Inv, TypeOK
  <2>3. HolderCalls'
    BY <1>1, <1>3, <2>1, DispatchAssumption DEF Inv, HolderCalls, Calling
  <2>4. HolderLocks'
    BY <1>1, <1>3, <2>1, DispatchAssumption DEF Inv, HolderLocks
  <2>5. ReadLocked' /\ Counted'
    BY <1>1, <2>1 DEF Inv, ReadLocked, Counted, Calling
  <2>. QED  BY <1>4, <1>5, <2>2, <2>3, <2>4, <2>5 DEF Inv
<1>. QED  BY <1>6, <1>7, <1>8, <1>9, <1>10

LEMMA StepInv == Inv /\ [Next]_vars => Inv'
<1>. SUFFICES ASSUME Inv, [Next]_vars PROVE Inv'
  OBVIOUS
<1>1. CASE UNCHANGED vars
  BY <1>1 DEF vars, Inv, TypeOK, HolderCalls, HolderLocks, OwnGroup, Found, ReadLocked,
              Counted, OpensLater
<1>2. ASSUME NEW p \in Callers, Service(p) PROVE Inv'
  BY <1>2, ServiceInv
<1>3. ASSUME NEW p \in Callers, NEW q \in Queues, Post(p, q) PROVE Inv'
  BY <1>3, PostInv
<1>4. ASSUME NEW p \in Lockers, Unlock(p) \/ \E c \in Contexts : Lock(p, c) PROVE Inv'
  BY <1>4, UnlockInv, LockInv, DispatchAssumption
<1>5. CASE GlobalLock \/ GlobalUnlock
  BY <1>5, GlobalInv
<1>6. ASSUME NEW t \in Threads, Step(t) \/ TimeOut(t) PROVE Inv'
  BY <1>6, BetweenInv, FindInv, InsideInv DEF Step
<1>. QED  BY <1>1, <1>2, <1>3, <1>4, <1>5, <1>6 DEF Next

\* Always Inv, by induction over the steps.
THEOREM Invariant == Spec => []Inv
  BY InitInv, StepInv, PTL DEF Spec

\* For any contexts, threads and groups every variable keeps its type: no count
\* of jobs goes below zero or beyond what was posted.
THEOREM TypeCorrect == Spec => []TypeOK
<1>1. Inv => TypeOK
  BY DEF Inv
<1>. QED  BY <1>1, Invariant, PTL

\* For any contexts, threads and groups, callbacks of a context exclude each
\* other, those who lock the context from outside, and the garbage collector
\* (process_ctx(), enter(), lock() and global_lock()).
THEOREM Exclusive == Spec => []ContextsExclusive
  BY Invariant, InvExclusive, PTL

-----------------------------------------------------------------------------
(* One thread to a group.                                                   *)

\* Each group that has contexts has one thread, and service_ctx() opens the
\* gate of that thread: the graphical program, and the other scaffold
\* without --mt.
OneThreadEach ==
  \A c \in Contexts : \E t \in Threads :
    /\ Group[t] = Group[c] /\ Opens[Group[c]] = {t}
    /\ \A u \in Threads : Group[u] = Group[c] => u = t

\* A thread that is going to scan the list of contexts.
Watching(t) ==
  pc[t] # "wait" \/ gate[t] \/ \E p \in Callers : t \in call[p].opens

\* What NothingStranded says of a context: somebody will raise its flag; the
\* flag will be seen; a thread that has lowered it will not be turned away.
Expected(c) == \E p \in Callers : call[p].q = c /\ call[p].at \in {"ping", "locked"}
Flagged(c) == flag[c] /\ \E t \in Threads : Group[t] = Group[c] /\ Watching(t)
Coming(t, c) == /\ ctx[t] = c /\ pc[t] \in {"rlock", "enter", "run", "call"}
                /\ busy[c] \in Callers \cup {Free, t}
Attended(c) == Expected(c) \/ Flagged(c) \/ \E t \in Threads : Coming(t, c)

LEMMA Stranding ==
  NothingStranded <=> \A c \in Contexts : safe[c] > 0 => Attended(c)
  BY DEF NothingStranded, Attended, Expected, Flagged, Coming, Scanning, Watching

\* A flag that is up is going to be seen.
FlagsSeen == \A c \in Contexts : flag[c] => Flagged(c)

Noticed == \A c \in Contexts : safe[c] > 0 => Attended(c)

NInv == Inv /\ Listed /\ FlagsSeen /\ Noticed

LEMMA InitNInv == Init => NInv
<1>. SUFFICES ASSUME Init PROVE NInv
  OBVIOUS
<1>1. Listed
  BY SetToSeqLists, DispatchAssumption DEF Init, Listed
<1>2. FlagsSeen /\ Noticed
  BY DEF Init, FlagsSeen, Noticed, Queues
<1>. QED  BY <1>1, <1>2, InitInv DEF NInv

LEMMA PostNInv ==
  ASSUME NInv, NEW p \in Callers, NEW q \in Queues, Post(p, q)
  PROVE  FlagsSeen' /\ Noticed'
<1>1. /\ UNCHANGED <<pc, ctx, flag, busy, gate>>
      /\ call[p].at = "idle" /\ call[p].opens = {}
      /\ \A o \in Callers \ {p} : call'[o] = call[o]
      /\ \A c \in Contexts \ {q} : safe'[c] = safe[c]
  BY DoingProperties DEF Post, threadVars, NInv, Inv, TypeOK, Queues
<1>2. \A t \in Threads : Watching(t) => Watching(t)'
  BY <1>1 DEF Watching
<1>3. \A c \in Contexts : Flagged(c) => Flagged(c)'
  BY <1>1, <1>2 DEF Flagged
<1>4. \A c \in Contexts : Attended(c) => Attended(c)'
  BY <1>1, <1>3 DEF Attended, Expected, Coming
<1>5. FlagsSeen'
  BY <1>1, <1>3 DEF NInv, FlagsSeen
<1>6. ASSUME q \in Contexts PROVE Attended(q)'
  <2>1. CASE safe[q] = 0
    <3>1. call'[p].at = "ping" /\ call'[p].q = q
      BY <2>1, DoingProperties DEF Post, NInv, Inv, TypeOK
    <3>. QED  BY <3>1 DEF Attended, Expected
  <2>2. CASE safe[q] # 0
    <3>1. safe[q] > 0
      BY <2>2 DEF NInv, Inv, TypeOK
    <3>. QED  BY <1>4, <1>6, <3>1 DEF NInv, Noticed
  <2>. QED  BY <2>1, <2>2
<1>. QED  BY <1>1, <1>4, <1>5, <1>6 DEF NInv, Noticed

LEMMA LockNInv ==
  ASSUME NInv, NEW p \in Callers, NEW d \in Contexts, Lock(p, d)
  PROVE  FlagsSeen' /\ Noticed'
<1>1. /\ UNCHANGED <<pc, ctx, flag, safe, gate>>
      /\ call[p].at = "idle" /\ call[p].opens = {}
      /\ \A o \in Callers \ {p} : call'[o] = call[o]
      /\ \A c \in Contexts : busy'[c] = IF c = d THEN p ELSE busy[c]
  BY DoingProperties DEF Lock, threadVars, NInv, Inv, TypeOK, Queues
<1>2. \A t \in Threads : Watching(t) => Watching(t)'
  BY <1>1 DEF Watching
<1>3. \A c \in Contexts : Flagged(c) => Flagged(c)'
  BY <1>1, <1>2 DEF Flagged
<1>4. \A c \in Contexts : Expected(c) => Expected(c)'
  BY <1>1 DEF Expected
<1>5. \A c \in Contexts, t \in Threads : Coming(t, c) => Coming(t, c)'
  BY <1>1 DEF Coming
<1>. QED  BY <1>1, <1>3, <1>4, <1>5 DEF NInv, Noticed, Attended, FlagsSeen

LEMMA UnlockNInv ==
  ASSUME NInv, NEW p \in Callers, Unlock(p)
  PROVE  FlagsSeen' /\ Noticed'
<1>. DEFINE d == call[p].q
<1>1. /\ UNCHANGED <<pc, ctx, flag, safe, gate>>
      /\ call[p].opens = {} /\ call'[p].at = "ping" /\ call'[p].q = d
      /\ \A o \in Callers \ {p} : call'[o] = call[o]
      /\ \A c \in Contexts : busy'[c] = IF c = d THEN Free ELSE busy[c]
  <2>1. busy' = [busy EXCEPT ![d] = Free]
    BY DEF Unlock
  <2>2. \A c \in Contexts : busy'[c] = IF c = d THEN Free ELSE busy[c]
    BY <2>1 DEF NInv, Inv, TypeOK, Queues
  <2>3. /\ call[p].opens = {} /\ call'[p].at = "ping" /\ call'[p].q = d
        /\ \A o \in Callers \ {p} : call'[o] = call[o]
    <3>1. call[p].at = "locked" /\ call' = [call EXCEPT ![p] = Does("ping", d, {})]
      BY DEF Unlock
    <3>2. call'[p] = Does("ping", d, {}) /\ \A o \in Callers \ {p} : call'[o] = call[o]
      BY <3>1 DEF NInv, Inv, TypeOK
    <3>3. call[p].opens = {}
      BY <3>1 DEF NInv, Inv, OpensLater
    <3>. QED  BY <3>2, <3>3, DoingProperties
  <2>. QED  BY <2>2, <2>3 DEF Unlock, threadVars
<1>2. \A t \in Threads : Watching(t) => Watching(t)'
  BY <1>1 DEF Watching
<1>3. \A c \in Contexts : Flagged(c) => Flagged(c)'
  BY <1>1, <1>2 DEF Flagged
<1>4. \A c \in Contexts : Expected(c) => Expected(c)'
  BY <1>1 DEF Expected
<1>5. \A c \in Contexts, t \in Threads : Coming(t, c) => Coming(t, c)'
  BY <1>1 DEF Coming
<1>. QED  BY <1>1, <1>3, <1>4, <1>5 DEF NInv, Noticed, Attended, FlagsSeen

\* Whoever raises a flag goes on to the gate of the thread that serves it.
LEMMA RaiseNInv ==
  ASSUME OneThreadEach, NInv, NEW p \in Callers, Raise(p)
  PROVE  FlagsSeen' /\ Noticed'
<1>0. PICK d \in Queues : d = call[p].q
  BY DoingProperties DEF NInv, Inv, TypeOK
<1>1. /\ UNCHANGED <<pc, ctx, safe, gate, busy>>
      /\ call[p].opens = {} /\ call[p].at = "ping"
      /\ \A o \in Callers \ {p} : call'[o] = call[o]
      /\ \A c \in Contexts : flag'[c] = (c = d \/ flag[c])
  BY <1>0, DoingProperties, ZenonT(40) DEF Raise, threadVars, NInv, Inv, TypeOK, OpensLater, Queues
<1>2. \A t \in Threads : Watching(t) => Watching(t)'
  BY <1>1 DEF Watching
<1>3. \A c \in Contexts : Flagged(c) => Flagged(c)'
  BY <1>1, <1>2 DEF Flagged
<1>4. ASSUME d \in Contexts PROVE Flagged(d)'
  <2>1. CASE flag[d]
    BY <1>3, <1>4, <2>1 DEF NInv, FlagsSeen
  <2>2. CASE ~flag[d]
    <3>1. PICK t \in Threads : Group[t] = Group[d] /\ Opens[Group[d]] = {t}
      BY <1>4 DEF OneThreadEach
    <3>2. call'[p].opens = {t}
      BY <1>0, <1>4, <2>2, <3>1, DoingProperties, DispatchAssumption
      DEF Raise, GroupOf, NInv, Inv, TypeOK
    <3>. QED  BY <1>1, <1>4, <3>1, <3>2 DEF Flagged, Watching
  <2>. QED  BY <2>1, <2>2
<1>5. FlagsSeen'
  BY <1>1, <1>3, <1>4 DEF NInv, FlagsSeen
<1>6. \A c \in Contexts \ {d} : Expected(c) => Expected(c)'
  BY <1>0, <1>1 DEF Expected
<1>7. \A c \in Contexts, t \in Threads : Coming(t, c) => Coming(t, c)'
  BY <1>1 DEF Coming
<1>8. Noticed'
  BY <1>1, <1>3, <1>4, <1>6, <1>7 DEF NInv, Noticed, Attended
<1>. QED  BY <1>5, <1>8

LEMMA OpenGateNInv ==
  ASSUME NInv, NEW p \in Callers, OpenGate(p)
  PROVE  FlagsSeen' /\ Noticed'
<1>1. PICK u \in call[p].opens :
        /\ gate' = [gate EXCEPT ![u] = TRUE]
        /\ call' = [call EXCEPT ![p] = IF @.opens = {u} THEN Idle
                                       ELSE Does("open", Aux, @.opens \ {u})]
  BY DEF OpenGate
<1>2. /\ UNCHANGED <<pc, ctx, safe, busy, flag>> /\ call[p].at = "open"
      /\ call[p].opens \in SUBSET Threads
      /\ \A o \in Callers \ {p} : call'[o] = call[o]
  BY <1>1, DoingProperties DEF OpenGate, threadVars, NInv, Inv, TypeOK
<1>3. call'[p].opens = call[p].opens \ {u}
  <2>1. CASE call[p].opens = {u}
    BY <1>1, <2>1, DoingProperties DEF NInv, Inv, TypeOK
  <2>2. CASE call[p].opens # {u}
    BY <1>1, <2>2, DoingProperties DEF NInv, Inv, TypeOK
  <2>. QED  BY <2>1, <2>2
<1>4. gate'[u] /\ \A t \in Threads : gate[t] => gate'[t]
  BY <1>1, <1>2 DEF NInv, Inv, TypeOK
<1>5. \A t \in Threads : Watching(t) => Watching(t)'
  BY <1>2, <1>3, <1>4 DEF Watching
<1>6. \A c \in Contexts : Flagged(c) => Flagged(c)'
  BY <1>2, <1>5 DEF Flagged
<1>7. \A c \in Contexts : Expected(c) => Expected(c)'
  BY <1>2 DEF Expected
<1>8. \A c \in Contexts, t \in Threads : Coming(t, c) => Coming(t, c)'
  BY <1>2 DEF Coming
<1>. QED  BY <1>2, <1>6, <1>7, <1>8 DEF NInv, Noticed, Attended, FlagsSeen

\* Steps before a thread has found a context, or after: those of Outside(),
\* but for the scan that finds nothing.
LEMMA BetweenNInv ==
  ASSUME NInv, NEW t \in Threads,
         PassGate(t) \/ TimeOut(t) \/ EnterAux(t) \/ LowerAux(t) \/ RunAux(t)
  PROVE  FlagsSeen' /\ Noticed'
<1>1. /\ UNCHANGED <<ctx, call>> /\ pc[t] \notin {"rlock", "enter", "run", "call"}
      /\ pc'[t] # "wait" /\ \A u \in Threads \ {t} : pc'[u] = pc[u]
      /\ \A u \in Threads \ {t} : gate'[u] = gate[u]
  BY DEF PassGate, TimeOut, EnterAux, LowerAux, RunAux, others, NInv, Inv, TypeOK
<1>2. \A c \in Contexts : busy'[c] = busy[c] /\ safe'[c] = safe[c] /\ flag'[c] = flag[c]
  BY DispatchAssumption
  DEF PassGate, TimeOut, EnterAux, LowerAux, RunAux, NInv, Inv, TypeOK, Queues
<1>3. \A u \in Threads : Watching(u) => Watching(u)'
  BY <1>1 DEF Watching
<1>4. \A c \in Contexts : Flagged(c) => Flagged(c)'
  BY <1>2, <1>3 DEF Flagged
<1>5. \A c \in Contexts : Expected(c) => Expected(c)'
  BY <1>1 DEF Expected
<1>6. \A c \in Contexts, u \in Threads : Coming(u, c) => Coming(u, c)'
  BY <1>1, <1>2 DEF Coming
<1>. QED  BY <1>2, <1>4, <1>5, <1>6 DEF NInv, Noticed, Attended, FlagsSeen

\* A thread that finds nothing leaves no flag of its group up.
LEMMA FindNothingNInv ==
  ASSUME NInv, NEW t \in Threads, FindNothing(t)
  PROVE  FlagsSeen' /\ Noticed'
<1>1. /\ UNCHANGED <<ctx, call, safe, flag, gate>> /\ pc[t] = "scan"
      /\ \A u \in Threads \ {t} : pc'[u] = pc[u]
  BY DEF FindNothing, others, NInv, Inv, TypeOK
<1>2. \A c \in Contexts : busy'[c] = busy[c]
  BY DispatchAssumption DEF FindNothing, AuxDone, NInv, Inv, TypeOK, Queues
<1>3. \A c \in Contexts : Group[c] = Group[t] => ~flag[c]
  BY DEF FindNothing, Calls, NInv, Listed
<1>4. \A u \in Threads \ {t} : Watching(u) => Watching(u)'
  BY <1>1 DEF Watching
<1>5. \A c \in Contexts : Flagged(c) => Flagged(c)'
  BY <1>1, <1>3, <1>4 DEF Flagged
<1>6. \A c \in Contexts : Expected(c) => Expected(c)'
  BY <1>1 DEF Expected
<1>7. \A c \in Contexts, u \in Threads : Coming(u, c) => Coming(u, c)'
  BY <1>1, <1>2 DEF Coming
<1>. QED  BY <1>1, <1>5, <1>6, <1>7 DEF NInv, Noticed, Attended, FlagsSeen

\* Nobody but the thread itself is inside a context that it finds: who lowers
\* a flag is not turned away by another thread.
LEMMA FindNInv ==
  ASSUME OneThreadEach, NInv, NEW t \in Threads, Find(t)
  PROVE  FlagsSeen' /\ Noticed'
<1>1. PICK d \in Contexts : /\ Group[d] = Group[t] /\ flag[d] /\ ctx'[t] = d
                            /\ flag' = [flag EXCEPT ![d] = FALSE]
  BY FindInv DEF NInv
<1>2. /\ UNCHANGED <<call, safe, gate>> /\ pc[t] = "scan" /\ pc'[t] = "rlock"
      /\ \A u \in Threads \ {t} : pc'[u] = pc[u] /\ ctx'[u] = ctx[u]
  BY DEF Find, others, NInv, Inv, TypeOK
<1>3. \A c \in Contexts : busy'[c] = busy[c]
  BY DispatchAssumption DEF Find, AuxDone, NInv, Inv, TypeOK, Queues
<1>4. \A c \in Contexts : flag'[c] = (c # d /\ flag[c])
  BY <1>1 DEF NInv, Inv, TypeOK, Queues
<1>5. \A u \in Threads : Watching(u) => Watching(u)'
  BY <1>2 DEF Watching
<1>6. \A c \in Contexts \ {d} : Flagged(c) => Flagged(c)'
  BY <1>4, <1>5 DEF Flagged
<1>7. \A c \in Contexts : Expected(c) => Expected(c)'
  BY <1>2 DEF Expected
<1>8. \A c \in Contexts, u \in Threads : Coming(u, c) => Coming(u, c)'
  BY <1>2, <1>3 DEF Coming
<1>9. Coming(t, d)'
  <2>1. busy[d] \in Threads \cup Callers \cup {Free}
    BY DEF NInv, Inv, TypeOK, Queues
  <2>2. ASSUME NEW u \in Threads, busy[d] = u PROVE FALSE
    <3>1. pc[u] \in Calling /\ ctx[u] = d
      BY <2>2 DEF NInv, Inv, HolderCalls
    <3>2. Group[u] = Group[d]
      BY <3>1 DEF NInv, Inv, OwnGroup, Found
    <3>3. u = t
      BY <1>1, <3>2 DEF OneThreadEach
    <3>. QED  BY <1>2, <3>1, <3>3 DEF Calling
  <2>3. busy'[d] \in Callers \cup {Free}
    BY <1>3, <2>1, <2>2
  <2>. QED  BY <1>1, <1>2, <2>3 DEF Coming
<1>10. FlagsSeen'
  BY <1>4, <1>6 DEF NInv, FlagsSeen
<1>11. Noticed'
  BY <1>2, <1>6, <1>7, <1>8, <1>9 DEF NInv, Noticed, Attended
<1>. QED  BY <1>10, <1>11

\* A thread that is turned away was so by somebody who has locked the context
\* from outside and will ask for service.
LEMMA EnterNInv ==
  ASSUME NInv, NEW t \in Threads, Enter(t)
  PROVE  FlagsSeen' /\ Noticed'
<1>. DEFINE d == ctx[t]
<1>1. /\ UNCHANGED <<ctx, call, safe, flag, gate>> /\ pc[t] = "enter" /\ d \in Contexts
      /\ pc'[t] \in {"run", "aux"} /\ \A u \in Threads \ {t} : pc'[u] = pc[u]
  BY DEF Enter, others, NInv, Inv, TypeOK, OwnGroup, Found
<1>2. \A u \in Threads : Watching(u) => Watching(u)'
  BY <1>1 DEF Watching
<1>3. \A c \in Contexts : Flagged(c) => Flagged(c)'
  BY <1>1, <1>2 DEF Flagged
<1>4. \A c \in Contexts : Expected(c) => Expected(c)'
  BY <1>1 DEF Expected
<1>5. CASE busy[d] = Free
  <2>1. pc'[t] = "run" /\ \A c \in Contexts : busy'[c] = IF c = d THEN t ELSE busy[c]
    BY <1>1, <1>5 DEF Enter, NInv, Inv, TypeOK, Queues
  <2>2. \A c \in Contexts : c = d => Coming(t, c)'
    BY <1>1, <2>1 DEF Coming
  <2>3. \A c \in Contexts, u \in Threads : c # d /\ Coming(u, c) => Coming(u, c)'
    BY <1>1, <2>1 DEF Coming
  <2>. QED  BY <1>1, <1>3, <1>4, <2>2, <2>3 DEF NInv, Noticed, Attended, FlagsSeen
<1>6. CASE busy[d] # Free
  <2>1. busy' = busy /\ pc'[t] = "aux"
    BY <1>6 DEF Enter, NInv, Inv, TypeOK
  <2>2. \A c \in Contexts, u \in Threads \ {t} : Coming(u, c) => Coming(u, c)'
    BY <1>1, <2>1 DEF Coming
  <2>3. \A c \in Contexts : Coming(t, c) => Expected(c)
    <3>1. SUFFICES ASSUME NEW c \in Contexts, Coming(t, c) PROVE Expected(c)
      OBVIOUS
    <3>2. c = d /\ busy[c] \in Callers \cup {t}
      BY <1>6, <3>1 DEF Coming
    <3>3. busy[c] # t
      BY <1>1, <3>2 DEF NInv, Inv, HolderCalls, Calling
    <3>4. PICK p \in Callers : busy[c] = p
      BY <3>2, <3>3
    <3>5. call[p].at = "locked" /\ call[p].q = c
      BY <3>4 DEF NInv, Inv, HolderLocks
    <3>. QED  BY <3>5 DEF Expected
  <2>. QED  BY <1>1, <1>3, <1>4, <2>2, <2>3 DEF NInv, Noticed, Attended, FlagsSeen
<1>. QED  BY <1>5, <1>6

\* Steps of a thread at a context that it has.
LEMMA InsideNInv ==
  ASSUME NInv, NEW t \in Threads, ReadLock(t) \/ Drain(t) \/ CallBack(t) \/ Leave(t)
  PROVE  FlagsSeen' /\ Noticed'
<1>1. /\ UNCHANGED <<ctx, call, flag, gate>> /\ pc[t] # "wait" /\ pc'[t] # "wait"
      /\ \A u \in Threads \ {t} : pc'[u] = pc[u]
  BY DEF ReadLock, Drain, CallBack, Leave, others, NInv, Inv, TypeOK
<1>2. \A u \in Threads : Watching(u) => Watching(u)'
  BY <1>1 DEF Watching
<1>3. \A c \in Contexts : Flagged(c) => Flagged(c)'
  BY <1>1, <1>2 DEF Flagged
<1>4. \A c \in Contexts : Expected(c) => Expected(c)'
  BY <1>1 DEF Expected
<1>5. CASE ReadLock(t) \/ CallBack(t)
  <2>1. UNCHANGED <<safe, busy>> /\ pc'[t] \in {"enter", "run"}
    BY <1>5 DEF ReadLock, CallBack, NInv, Inv, TypeOK
  <2>2. \A c \in Contexts, u \in Threads : Coming(u, c) => Coming(u, c)'
    BY <1>1, <2>1 DEF Coming
  <2>. QED  BY <1>1, <1>3, <1>4, <2>1, <2>2 DEF NInv, Noticed, Attended, FlagsSeen
<1>6. CASE Drain(t)
  <2>1. busy' = busy /\ \A c \in Contexts : safe'[c] = IF c = ctx[t] THEN 0 ELSE safe[c]
    BY <1>6 DEF Drain, NInv, Inv, TypeOK, Queues
  <2>2. \A c \in Contexts, u \in Threads : c # ctx[t] /\ Coming(u, c) => Coming(u, c)'
    BY <1>1, <2>1 DEF Coming
  <2>. QED  BY <1>1, <1>3, <1>4, <2>1, <2>2 DEF NInv, Noticed, Attended, FlagsSeen
<1>7. CASE Leave(t)
  <2>1. /\ safe' = safe /\ pc[t] = "leave"
        /\ \A c \in Contexts : busy'[c] = IF c = ctx[t] THEN Free ELSE busy[c]
    BY <1>7 DEF Leave, NInv, Inv, TypeOK, Queues
  <2>2. \A c \in Contexts, u \in Threads : Coming(u, c) => Coming(u, c)'
    BY <1>1, <2>1 DEF Coming
  <2>. QED  BY <1>1, <1>3, <1>4, <2>1, <2>2 DEF NInv, Noticed, Attended, FlagsSeen
<1>. QED  BY <1>5, <1>6, <1>7

\* The list keeps its members.
LEMMA StepListed == Inv /\ Listed /\ [Next]_vars => Listed'
<1>. SUFFICES ASSUME Inv, Listed, [Next]_vars PROVE Listed'
  OBVIOUS
<1>1. CASE order' = order
  BY <1>1 DEF Listed
<1>2. ASSUME NEW t \in Threads, Find(t) PROVE Listed'
  <2>1. PICK i \in Calls(t) : order' = Append(RemoveAt(order, i), order[i])
    BY <1>2 DEF Find
  <2>2. order \in Seq(Contexts) /\ i \in 1..Len(order)
    BY DEF Calls, Inv, TypeOK
  <2>3. \A j \in 1..Len(order) : \E k \in 1..Len(order') : order'[k] = order[j]
    BY <2>1, <2>2, MoveToEnd
  <2>. QED  BY <2>3 DEF Listed
<1>3. order' = order \/ \E t \in Threads : Find(t)
  BY DEF Next, vars, Service, Raise, OpenGate, Post, Lock, Unlock, GlobalLock, GlobalUnlock,
         threadVars, Step, TimeOut, PassGate, EnterAux, LowerAux, RunAux, FindNothing,
         ReadLock, Enter, Drain, CallBack, Leave
<1>. QED  BY <1>1, <1>2, <1>3

LEMMA StepNInv == OneThreadEach /\ NInv /\ [Next]_vars => NInv'
<1>. SUFFICES ASSUME OneThreadEach, NInv, [Next]_vars PROVE FlagsSeen' /\ Noticed'
  BY StepInv, StepListed DEF NInv
<1>1. CASE \/ UNCHANGED vars \/ GlobalLock \/ GlobalUnlock
  <2>1. UNCHANGED <<safe, flag, busy, gate, pc, ctx, call>>
    BY <1>1 DEF vars, GlobalLock, GlobalUnlock, threadVars
  <2>2. \A c \in Contexts : /\ Flagged(c) => Flagged(c)'
                            /\ Expected(c) => Expected(c)'
    BY <2>1 DEF Flagged, Watching, Expected
  <2>3. \A c \in Contexts, u \in Threads : Coming(u, c) => Coming(u, c)'
    BY <2>1 DEF Coming
  <2>. QED  BY <2>1, <2>2, <2>3 DEF NInv, Noticed, Attended, FlagsSeen
<1>2. ASSUME NEW p \in Callers, Service(p) PROVE FlagsSeen' /\ Noticed'
  BY <1>2, RaiseNInv, OpenGateNInv DEF Service
<1>3. ASSUME NEW p \in Callers, NEW q \in Queues, Post(p, q) PROVE FlagsSeen' /\ Noticed'
  BY <1>3, PostNInv
<1>4. ASSUME NEW p \in Lockers, Unlock(p) \/ \E c \in Contexts : Lock(p, c)
      PROVE  FlagsSeen' /\ Noticed'
  BY <1>4, UnlockNInv, LockNInv, DispatchAssumption
<1>5. ASSUME NEW t \in Threads, Step(t) \/ TimeOut(t) PROVE FlagsSeen' /\ Noticed'
  BY <1>5, BetweenNInv, FindNothingNInv, FindNInv, EnterNInv, InsideNInv DEF Step
<1>. QED  BY <1>1, <1>2, <1>3, <1>4, <1>5 DEF Next

\* Where each group has one thread, for any contexts, groups and callers: a job
\* that was posted never waits without somebody who will see it, whatever the
\* order of posting, serving, entering and locking (service_ctx(), process_ctx()).
THEOREM Unstranded == OneThreadEach => (Spec => []NothingStranded)
<1>. SUFFICES ASSUME OneThreadEach PROVE Spec => []NothingStranded
  OBVIOUS
<1>1. Init => NInv
  BY InitNInv
<1>2. NInv /\ [Next]_vars => NInv'
  BY StepNInv
<1>3. NInv => NothingStranded
  BY Stranding DEF NInv, Noticed
<1>. QED  BY <1>1, <1>2, <1>3, PTL DEF Spec
=============================================================================
