---------------------------- MODULE Publication ----------------------------
(***************************************************************************)
(* What a pic::flipflop_t promises to the code that uses it                *)
(* (picross/pic_flipflop.h), without the counters and the two sides.       *)
(*                                                                         *)
(* Versions of a value are published one after another by one writer;      *)
(* a version is the number of set() calls that produced it.  Any number    *)
(* of guards look at the value.  A guard taken while no publication is     *)
(* under way sees the last completed version.  A guard taken during a      *)
(* publication sees the version before or the version after it, and two    *)
(* guards may see them in either order.  set() returns only when no guard  *)
(* is left that sees the version it replaced: the grace period on which    *)
(* pia_cpoint_sync_t::disable() and the deletion of retired lists rely.    *)
(***************************************************************************)
EXTENDS Naturals

CONSTANTS Guards,       \* the guard_t objects of the program
          MaxVersion    \* bound on the number of publications

VARIABLES completed,    \* the version of the last set() that returned
          latest,       \* the version offered: completed, or the next one
          view          \* what each guard sees, NoView outside a guard

pubVars == <<completed, latest, view>>

NoView == MaxVersion + 1

Init ==
  /\ completed = 0
  /\ latest = 0
  /\ view = [g \in Guards |-> NoView]

\* set() starts to offer a new version.
Offer ==
  /\ latest = completed
  /\ latest < MaxVersion
  /\ latest' = latest + 1
  /\ UNCHANGED <<completed, view>>

\* set() returns: no guard sees the version that was replaced.
Complete ==
  /\ latest # completed
  /\ \A g \in Guards : view[g] # completed
  /\ completed' = latest
  /\ UNCHANGED <<latest, view>>

Acquire(g) ==
  /\ view[g] = NoView
  /\ view' \in {[view EXCEPT ![g] = v] : v \in {completed, latest}}
  /\ UNCHANGED <<completed, latest>>

Release(g) ==
  /\ view[g] # NoView
  /\ view' = [view EXCEPT ![g] = NoView]
  /\ UNCHANGED <<completed, latest>>

Next ==
  \/ Offer
  \/ Complete
  \/ \E g \in Guards : Acquire(g) \/ Release(g)

Spec == Init /\ [][Next]_pubVars
=============================================================================
