------------------------------ MODULE DataDrop ------------------------------
(***************************************************************************)
(* pic::datadrop_t (picross/pic_flipflop.h): a place where one thread      *)
(* leaves a reference to a reference-counted object and any thread picks   *)
(* it up, without a lock.  The fast thread leaves current values and data  *)
(* queues there.                                                           *)
(*                                                                         *)
(* A get() cannot read the pointer and raise the object's count in one     *)
(* step, so it first marks the pointer (its lowest bit): a set() that      *)
(* displaces a marked pointer leaves the displaced reference to the get()  *)
(* that marked it.  Objects are freed when their count reaches zero and    *)
(* their addresses are used again, so that a compare-and-swap may succeed  *)
(* on a pointer that was displaced and put back in the meantime.           *)
(***************************************************************************)
EXTENDS Integers, FiniteSets

CONSTANTS Threads,
          Objs,       \* addresses of counted objects
          Nil        \* the null pointer, which is not counted

ASSUME ThreadsAssumption == IsFiniteSet(Threads)
ASSUME NilAssumption == Nil \notin Objs

VARIABLES
  slot,     \* data_: a pointer and its mark
  refs,     \* the count of each object
  alive,    \* the objects that are allocated
  pc,       \* where each thread is in set() or get()
  own,      \* the reference each thread owns, and set()'s argument
  old,      \* set()'s local o
  got       \* get()'s local u

dropVars == <<slot, refs, alive, pc, own, old, got>>

Ptr == Objs \cup {Nil}
Plain(p) == [obj |-> p, mark |-> FALSE]
Marked(p) == [obj |-> p, mark |-> TRUE]

DropInit ==
  /\ slot = Plain(Nil)
  /\ refs = [o \in Objs |-> 0]
  /\ alive = {}
  /\ pc = [t \in Threads |-> "idle"]
  /\ own = [t \in Threads |-> Nil]
  /\ old = [t \in Threads |-> Plain(Nil)]
  /\ got = [t \in Threads |-> Nil]

\* DATADROP_INCREF: an atomic increment, nothing for a null pointer.
Incref(p) == /\ refs' = IF p = Nil THEN refs ELSE [refs EXCEPT ![p] = @ + 1]
             /\ UNCHANGED alive

\* DATADROP_DECREF: an atomic decrement that frees the object at zero.
Decref(p) ==
  /\ refs' = IF p = Nil THEN refs ELSE [refs EXCEPT ![p] = @ - 1]
  /\ alive' = IF p # Nil /\ refs'[p] = 0 THEN alive \ {p} ELSE alive

noRefs == UNCHANGED <<refs, alive>>

-----------------------------------------------------------------------------
(* The threads' own references, from outside the drop.                      *)

\* A thread makes an object, at an address that is free.
Create(t) ==
  /\ pc[t] = "idle" /\ own[t] = Nil
  /\ \E o \in Objs \ alive :
       /\ alive' = alive \cup {o}
       /\ refs' = [refs EXCEPT ![o] = 1]
       /\ own' = [own EXCEPT ![t] = o]
  /\ UNCHANGED <<slot, pc, old, got>>

\* A thread gives up the reference it owns.
Forget(t) ==
  /\ pc[t] = "idle" /\ own[t] # Nil
  /\ Decref(own[t])
  /\ own' = [own EXCEPT ![t] = Nil]
  /\ UNCHANGED <<slot, pc, old, got>>

-----------------------------------------------------------------------------
(* set(d), with d the reference the caller owns or null.                    *)

\* DATADROP_INCREF(d)
SetIncref(t) ==
  /\ pc[t] = "idle"
  /\ Incref(own[t])
  /\ pc' = [pc EXCEPT ![t] = "sread"]
  /\ UNCHANGED <<slot, own, old, got>>

\* o = *ptr
SetRead(t) ==
  /\ pc[t] = "sread"
  /\ old' = [old EXCEPT ![t] = slot]
  /\ pc' = [pc EXCEPT ![t] = "scas"]
  /\ noRefs /\ UNCHANGED <<slot, own, got>>

\* Mutant of SetCas: the displaced reference is dropped even if it is marked.
SetCasForgetsMark(t) ==
  /\ pc[t] = "scas"
  /\ \/ /\ slot = old[t]
        /\ slot' = Plain(own[t])
        /\ pc' = [pc EXCEPT ![t] = "sdec"]
     \/ /\ slot # old[t]
        /\ pc' = [pc EXCEPT ![t] = "sread"]
        /\ UNCHANGED slot
  /\ noRefs /\ UNCHANGED <<own, old, got>>

\* pic_atomicptrcas(&data_,o,d), or read again; then if(!ISMARKED(o)).
SetCas(t) ==
  /\ pc[t] = "scas"
  /\ \/ /\ slot = old[t]
        /\ slot' = Plain(own[t])
        /\ pc' = [pc EXCEPT ![t] = IF old[t].mark THEN "idle" ELSE "sdec"]
     \/ /\ slot # old[t]
        /\ pc' = [pc EXCEPT ![t] = "sread"]
        /\ UNCHANGED slot
  /\ noRefs /\ UNCHANGED <<own, old, got>>

\* DATADROP_DECREF(o)
SetDecref(t) ==
  /\ pc[t] = "sdec"
  /\ Decref(old[t].obj)
  /\ pc' = [pc EXCEPT ![t] = "idle"]
  /\ UNCHANGED <<slot, own, old, got>>

-----------------------------------------------------------------------------
(* get(), by a thread that owns nothing; the result is the caller's.        *)

\* u = *ptr; while(ISMARKED(u) ...)
GetRead(t) ==
  /\ \/ pc[t] = "idle" /\ own[t] = Nil
     \/ pc[t] = "gread"
  /\ got' = [got EXCEPT ![t] = slot.obj]
  /\ pc' = [pc EXCEPT ![t] = IF slot.mark THEN "gread" ELSE "gmark"]
  /\ noRefs /\ UNCHANGED <<slot, own, old>>

\* Mutant of GetMark: the pointer is compared but not marked.
GetMarkNothing(t) ==
  /\ pc[t] = "gmark"
  /\ pc' = [pc EXCEPT ![t] = IF slot = Plain(got[t]) THEN "ginc" ELSE "gread"]
  /\ noRefs /\ UNCHANGED <<slot, own, old, got>>

\* pic_atomicptrcas(&data_,u,m), or read again.
GetMark(t) ==
  /\ pc[t] = "gmark"
  /\ \/ /\ slot = Plain(got[t])
        /\ slot' = Marked(got[t])
        /\ pc' = [pc EXCEPT ![t] = "ginc"]
     \/ /\ slot # Plain(got[t])
        /\ pc' = [pc EXCEPT ![t] = "gread"]
        /\ UNCHANGED slot
  /\ noRefs /\ UNCHANGED <<own, old, got>>

\* DATADROP_INCREF(u)
GetIncref(t) ==
  /\ pc[t] = "ginc"
  /\ Incref(got[t])
  /\ pc' = [pc EXCEPT ![t] = "gunmark"]
  /\ UNCHANGED <<slot, own, old, got>>

\* Mutant of GetUnmark: a failed compare-and-swap is taken for success, and
\* the displaced reference is never dropped.
GetUnmarkLeaks(t) ==
  /\ pc[t] = "gunmark"
  /\ slot' = IF slot = Marked(got[t]) THEN Plain(got[t]) ELSE slot
  /\ own' = [own EXCEPT ![t] = got[t]]
  /\ pc' = [pc EXCEPT ![t] = "idle"]
  /\ noRefs /\ UNCHANGED <<old, got>>

\* Mutant of GetUnmark: get() counts on the next set() to remove its mark.
GetUnmarkNothing(t) ==
  /\ pc[t] = "gunmark"
  /\ own' = [own EXCEPT ![t] = got[t]]
  /\ pc' = [pc EXCEPT ![t] = "idle"]
  /\ noRefs /\ UNCHANGED <<slot, old, got>>

\* pic_atomicptrcas(&data_,m,u), and return u if it succeeds.
GetUnmark(t) ==
  /\ pc[t] = "gunmark"
  /\ \/ /\ slot = Marked(got[t])
        /\ slot' = Plain(got[t])
        /\ own' = [own EXCEPT ![t] = got[t]]
        /\ pc' = [pc EXCEPT ![t] = "idle"]
     \/ /\ slot # Marked(got[t])
        /\ pc' = [pc EXCEPT ![t] = "gdec"]
        /\ UNCHANGED <<slot, own>>
  /\ noRefs /\ UNCHANGED <<old, got>>

\* The pointer was displaced: DATADROP_DECREF(u) drops the reference the
\* drop had, and u is returned with the reference just taken.
GetDecref(t) ==
  /\ pc[t] = "gdec"
  /\ Decref(got[t])
  /\ own' = [own EXCEPT ![t] = got[t]]
  /\ pc' = [pc EXCEPT ![t] = "idle"]
  /\ UNCHANGED <<slot, old, got>>

SetSteps(t) == SetIncref(t) \/ SetRead(t) \/ SetCas(t) \/ SetDecref(t)
GetSteps(t) == \/ GetRead(t) \/ GetMark(t) \/ GetIncref(t)
               \/ GetUnmark(t) \/ GetDecref(t)

DropNext == \E t \in Threads : Create(t) \/ Forget(t) \/ SetSteps(t) \/ GetSteps(t)

DropSpec == DropInit /\ [][DropNext]_dropVars

-----------------------------------------------------------------------------
(* Properties.                                                              *)

DropTypeOK ==
  /\ slot \in [obj : Ptr, mark : BOOLEAN]
  /\ refs \in [Objs -> Nat]
  /\ alive \subseteq Objs
  /\ pc \in [Threads -> {"idle", "sread", "scas", "sdec", "gread", "gmark",
                         "ginc", "gunmark", "gdec"}]
  /\ own \in [Threads -> Ptr]
  /\ old \in [Threads -> [obj : Ptr, mark : BOOLEAN]]
  /\ got \in [Threads -> Ptr]

Count(S) == Cardinality(S)

\* The get() calls that have marked a pointer to o and not finished: each of
\* them carries the reference that the drop had when it was marked.
Carriers(o) == {t \in Threads : pc[t] \in {"ginc", "gunmark", "gdec"}
                                /\ got[t] = o}

\* The count of every object is the number of references to it: those the
\* threads own, the ones set() has taken or has still to drop, the one in an
\* unmarked slot, the one each get() carries, and the one it has taken.
RefsExact ==
  \A o \in Objs :
    refs[o] = Count({t \in Threads : own[t] = o})
            + Count({t \in Threads : pc[t] \in {"sread", "scas"} /\ own[t] = o})
            + Count({t \in Threads : pc[t] = "sdec" /\ old[t].obj = o})
            + (IF slot = Plain(o) THEN 1 ELSE 0)
            + Count(Carriers(o))
            + Count({t \in Threads : pc[t] \in {"gunmark", "gdec"}
                                     /\ got[t] = o})

\* Nobody holds, and get() never counts up, an object that was freed; and an
\* object in the drop, marked or not, is allocated.
NoUseAfterFree ==
  /\ \A t \in Threads : own[t] \in alive \cup {Nil}
  /\ \A t \in Threads : pc[t] = "ginc" => got[t] \in alive \cup {Nil}
  /\ slot.obj \in alive \cup {Nil}

\* A mark is never left behind: while there is one, some get() of that
\* object has still to remove it, so that the threads that spin on it in
\* get() are released, also when the address was reused in the meantime.
MarkHasOwner ==
  slot.mark => \E t \in Threads : pc[t] \in {"ginc", "gunmark"} /\ got[t] = slot.obj
=============================================================================
