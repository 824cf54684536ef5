------------------------------ MODULE FlipFlop ------------------------------
(***************************************************************************)
(* pic::flipbase_t and pic::flipflop_t (picross/pic_flipflop.h): a value   *)
(* kept twice, so that real-time threads read it without a lock while a    *)
(* writer replaces it.                                                     *)
(*                                                                         *)
(* _state[s] counts the guards on side s, plus one while the writer keeps  *)
(* the side open.  A reader may enter a side only by raising a count that  *)
(* is already above zero.  set() fills the closed side, opens it, turns    *)
(* _alternate round, and then closes the old side, which it can do only    *)
(* once its own unit is the last one left; it then copies the new value    *)
(* into the side it has closed.                                            *)
(*                                                                         *)
(* One action is one atomic access of the code: the read of _alternate,    *)
(* the read of a count and the compare-and-swap on it are separate steps,  *)
(* and every guard is a process.  Writers are serialised by their callers  *)
(* (the manager's main mutex), so there is one writer.  Filling a side is  *)
(* not atomic: the assignment of an X is the two steps StartFill and Fill  *)
(* (StartCopy is the successful Drain), between which anybody reading the  *)
(* side would see a torn value.                                            *)
(***************************************************************************)
EXTENDS Naturals, FiniteSets

CONSTANTS Guards,       \* the guard_t objects, each of them used by a thread
          MaxVersion    \* bound on the number of set() calls

ASSUME GuardsAssumption == IsFiniteSet(Guards)
ASSUME MaxVersionAssumption == MaxVersion \in Nat

VARIABLES
  alternate,  \* _alternate: the side the writer owns
  count,      \* _state[2]
  data,       \* _data[2]: the version stored in each side
  wpc,        \* where the writer is in set()
  gpc,        \* where each guard is in acquire() or release()
  side,       \* the local p of acquire(), then the side a guard points at
  seen        \* the local c of acquire() and of release()

vars == <<alternate, count, data, wpc, gpc, side, seen>>

Sides == {0, 1}
Current == 1 - alternate

Init ==
  /\ alternate = 1
  /\ count = [s \in Sides |-> IF s = 0 THEN 1 ELSE 0]
  /\ data = [s \in Sides |-> 0]
  /\ wpc = "idle"
  /\ gpc = [g \in Guards |-> "out"]
  /\ side = [g \in Guards |-> 0]
  /\ seen = [g \in Guards |-> 0]

-----------------------------------------------------------------------------
(* The writer: flipflop_t::set() and exchange(), flipbase_t::exchange().    *)

unchangedGuards == UNCHANGED <<gpc, side, seen>>

\* alternate()=x begins to overwrite the alternate side ...
StartFill ==
  /\ wpc = "idle"
  /\ data[Current] < MaxVersion
  /\ wpc' = "fill"
  /\ UNCHANGED <<alternate, count, data>>
  /\ unchangedGuards

\* ... and has overwritten it.
Fill ==
  /\ wpc = "fill"
  /\ data' = [data EXCEPT ![alternate] = data[Current] + 1]
  /\ wpc' = "open"
  /\ UNCHANGED <<alternate, count>>
  /\ unchangedGuards

\* pic_atomiccas(as,0,1), whose result the code ignores.
Open ==
  /\ wpc = "open"
  /\ count' = [count EXCEPT ![alternate] = IF @ = 0 THEN 1 ELSE @]
  /\ wpc' = "flip"
  /\ UNCHANGED <<alternate, data>>
  /\ unchangedGuards

\* _alternate=1-_alternate
Flip ==
  /\ wpc = "flip"
  /\ alternate' = 1 - alternate
  /\ wpc' = "drain"
  /\ UNCHANGED <<count, data>>
  /\ unchangedGuards

\* Mutant of Drain: one attempt to close the old side instead of the spin.
DrainOnce ==
  /\ wpc = "drain"
  /\ count' = [count EXCEPT ![alternate] = IF @ = 1 THEN 0 ELSE @]
  /\ wpc' = "copy"
  /\ UNCHANGED <<alternate, data>>
  /\ unchangedGuards

\* while(!pic_atomiccas(ps,1,0)): ps is the alternate side by now.  The spin
\* is left once the compare-and-swap succeeds; flipflop_t::exchange() then
\* starts to copy.
Drain ==
  /\ wpc = "drain"
  /\ count[alternate] = 1
  /\ count' = [count EXCEPT ![alternate] = 0]
  /\ wpc' = "copy"
  /\ UNCHANGED <<alternate, data>>
  /\ unchangedGuards

\* alternate()=current(), and set() returns.
Copy ==
  /\ wpc = "copy"
  /\ data' = [data EXCEPT ![alternate] = data[Current]]
  /\ wpc' = "idle"
  /\ UNCHANGED <<alternate, count>>
  /\ unchangedGuards

Writer == StartFill \/ Fill \/ Open \/ Flip \/ Drain \/ Copy

-----------------------------------------------------------------------------
(* A guard: flipbase_t::acquire() and release().                            *)

unchangedWriter == UNCHANGED <<alternate, data, wpc>>

\* Mutant of ReadSide: a reader takes the side that is being retired.
ReadWrongSide(g) ==
  /\ gpc[g] \in {"out", "again"}
  /\ side' = [side EXCEPT ![g] = alternate]
  /\ gpc' = [gpc EXCEPT ![g] = "count"]
  /\ UNCHANGED <<count, seen>>
  /\ unchangedWriter

\* for(;;) unsigned p = 1-_alternate
ReadSide(g) ==
  /\ gpc[g] \in {"out", "again"}
  /\ side' = [side EXCEPT ![g] = Current]
  /\ gpc' = [gpc EXCEPT ![g] = "count"]
  /\ UNCHANGED <<count, seen>>
  /\ unchangedWriter

\* Mutant of ReadCount: the test c>0 is dropped.
ReadAnyCount(g) ==
  /\ gpc[g] = "count"
  /\ seen' = [seen EXCEPT ![g] = count[side[g]]]
  /\ gpc' = [gpc EXCEPT ![g] = "enter"]
  /\ UNCHANGED <<count, side>>
  /\ unchangedWriter

\* unsigned c = _state[p]; c>0, or round the loop again.
ReadCount(g) ==
  /\ gpc[g] = "count"
  /\ seen' = [seen EXCEPT ![g] = count[side[g]]]
  /\ gpc' = [gpc EXCEPT ![g] = IF count[side[g]] > 0
                                    THEN "enter" ELSE "again"]
  /\ UNCHANGED <<count, side>>
  /\ unchangedWriter

\* pic_atomiccas(&(_state[p]),c,c+1), or round the loop again.
Enter(g) ==
  /\ gpc[g] = "enter"
  /\ \/ /\ count[side[g]] = seen[g]
        /\ count' = [count EXCEPT ![side[g]] = seen[g] + 1]
        /\ gpc' = [gpc EXCEPT ![g] = "in"]
     \/ /\ count[side[g]] # seen[g]
        /\ gpc' = [gpc EXCEPT ![g] = "again"]
        /\ UNCHANGED count
  /\ UNCHANGED <<side, seen>>
  /\ unchangedWriter

\* release(): unsigned c = _state[s]
ReadRelease(g) ==
  /\ gpc[g] = "in"
  /\ seen' = [seen EXCEPT ![g] = count[side[g]]]
  /\ gpc' = [gpc EXCEPT ![g] = "leave"]
  /\ UNCHANGED <<count, side>>
  /\ unchangedWriter

\* Mutant of Leave: a plain store of c-1 instead of the compare-and-swap.
LeaveBlindly(g) ==
  /\ gpc[g] = "leave"
  /\ count' = [count EXCEPT ![side[g]] = seen[g] - 1]
  /\ gpc' = [gpc EXCEPT ![g] = "out"]
  /\ UNCHANGED <<side, seen>>
  /\ unchangedWriter

\* pic_atomiccas(&(_state[s]),c,c-1), or read the count again.
Leave(g) ==
  /\ gpc[g] = "leave"
  /\ \/ /\ count[side[g]] = seen[g]
        /\ count' = [count EXCEPT ![side[g]] = seen[g] - 1]
        /\ gpc' = [gpc EXCEPT ![g] = "out"]
     \/ /\ count[side[g]] # seen[g]
        /\ gpc' = [gpc EXCEPT ![g] = "in"]
        /\ UNCHANGED count
  /\ UNCHANGED <<side, seen>>
  /\ unchangedWriter

Guard(g) ==
  \/ ReadSide(g) \/ ReadCount(g) \/ Enter(g) \/ ReadRelease(g) \/ Leave(g)

Next == Writer \/ \E g \in Guards : Guard(g)

Spec == Init /\ [][Next]_vars

(***************************************************************************)
(* The scheduler runs every thread that can move, and a thread inside a    *)
(* guard finishes with it.  Nobody is obliged to start a set() or to take  *)
(* a guard.                                                                *)
(***************************************************************************)
Fairness ==
  /\ WF_vars(Fill \/ Open \/ Flip \/ Drain \/ Copy)
  /\ \A g \in Guards : WF_vars(gpc[g] # "out" /\ Guard(g))

FairSpec == Spec /\ Fairness

-----------------------------------------------------------------------------
(* Properties.                                                              *)

WriterStates == {"idle", "fill", "open", "flip", "drain", "copy"}
GuardStates == {"out", "again", "count", "enter", "in", "leave"}

\* Every variable has its type; counts stay natural numbers.
TypeOK ==
  /\ alternate \in Sides
  /\ count \in [Sides -> Nat]
  /\ data \in [Sides -> 0..MaxVersion]
  /\ wpc \in WriterStates
  /\ gpc \in [Guards -> GuardStates]
  /\ side \in [Guards -> Sides]
  /\ seen \in [Guards -> Nat]

\* The guards between acquire() and release() on side s.
Holders(s) == {g \in Guards : gpc[g] \in {"in", "leave"} /\ side[g] = s}

\* While set() overwrites the alternate side, with the new value or with the
\* copy it makes after the exchange, no guard points at that side: no reader
\* can see a torn value, however stale the side it read from _alternate.
NoTornRead == wpc \in {"fill", "copy"} => Holders(alternate) = {}

\* The writer's unit: it keeps the current side open, and both sides from
\* the time it opens the new one until it has drained the old one.
Unit(s) == IF s = Current \/ wpc \in {"flip", "drain"} THEN 1 ELSE 0

\* Each count is exactly its guards plus the writer's unit: no increment or
\* decrement is lost, so the compare-and-swap whose result exchange()
\* ignores always finds 0, and the spin on 1 waits for guards and for
\* nothing else.
CountsExact == \A s \in Sides : count[s] = Cardinality(Holders(s)) + Unit(s)

\* The two sides agree whenever no set() is under way, so that a writer that
\* edits alternate() in place starts from the current value.
SidesAgree == wpc = "idle" => data[0] = data[1]

\* The versions as the users of the flipflop see them.
Retired == wpc = "drain"
Published == INSTANCE Publication WITH
  completed <- IF Retired THEN data[alternate] ELSE data[Current],
  latest <- IF wpc = "flip" THEN data[alternate] ELSE data[Current],
  view <- [g \in Guards |-> IF gpc[g] \in {"in", "leave"}
                            THEN data[side[g]] ELSE MaxVersion + 1]

\* The flipflop implements Publication: set() returns only after every guard
\* on the old version is gone, and a guard never sees anything but the last
\* version or the one being published.
ImplementsPublication == Published!Spec

\* exchange() spins on the readers of the old side, but not for ever: new
\* readers go to the new side, and a reader with a stale side enters the old
\* one at most once.
SetReturns == (wpc = "drain") ~> (wpc = "idle")
=============================================================================
