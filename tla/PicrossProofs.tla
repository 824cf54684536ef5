--------------------------- MODULE PicrossProofs ---------------------------
(***************************************************************************)
(* Proofs about FlipFlop, for any finite set of guards and any number of   *)
(* set() calls, and, after them, about DataDrop, the other half of         *)
(* pic_flipflop.h, and about SafeWorker.                                   *)
(*                                                                         *)
(* NoTornRead is not inductive: it needs to know that the count of a side  *)
(* never lies about its guards (CountsExact) and that a closed side stays  *)
(* closed (ClosedSide), which holds because a guard raises a count only    *)
(* after it has seen it above zero (SeenPositive).  Versions relates the   *)
(* contents of the two sides at each place of set(); the refinement needs  *)
(* it.                                                                     *)
(***************************************************************************)
EXTENDS FlipFlop, DataDrop, SafeWorker, SequenceTheorems, FiniteSetTheorems, TLAPS

-----------------------------------------------------------------------------
(* The inductive invariant.                                                 *)

\* A guard about to raise a count has seen it above zero.
SeenPositive == \A g \in Guards : gpc[g] = "enter" => seen[g] > 0

\* Outside the exchange the alternate side is closed.
ClosedSide == wpc \notin {"flip", "drain"} => count[alternate] = 0

\* What the two sides hold at each place of set().
Versions ==
  /\ wpc = "idle" => data[alternate] = data[Current]
  /\ wpc = "fill" => /\ data[alternate] = data[Current]
                     /\ data[Current] < MaxVersion
  /\ wpc \in {"open", "flip"} => data[alternate] = data[Current] + 1
  /\ wpc = "drain" => data[Current] = data[alternate] + 1

IInv == TypeOK /\ SeenPositive /\ ClosedSide /\ CountsExact /\ Versions

-----------------------------------------------------------------------------
(* Facts about the guards on a side.                                        *)

\* The guards on a side are finitely many, and a count is a natural number.
LEMMA HoldersFinite ==
  ASSUME NEW s
  PROVE  IsFiniteSet(Holders(s)) /\ Cardinality(Holders(s)) \in Nat
<1>1. Holders(s) \subseteq Guards
  BY DEF Holders
<1>2. IsFiniteSet(Holders(s))
  BY <1>1, GuardsAssumption, FS_Subset
<1> QED
  BY <1>2, FS_CardinalityType

\* A closed side has no guard.
LEMMA ClosedSideIsEmpty ==
  ASSUME IInv, wpc \notin {"flip", "drain"}
  PROVE  Holders(alternate) = {}
<1>1. count[alternate] = 0 /\ alternate \in Sides
  BY DEF IInv, ClosedSide, TypeOK
<1>2. Cardinality(Holders(alternate)) = 0
  BY <1>1, HoldersFinite DEF IInv, CountsExact, Unit, Current, Sides
<1> QED
  BY <1>2, HoldersFinite, FS_EmptySet

\* A side with a guard on it has a positive count.
LEMMA HeldSideIsOpen ==
  ASSUME IInv, NEW g \in Guards, gpc[g] \in {"in", "leave"}
  PROVE  count[side[g]] > 0
<1>1. side[g] \in Sides /\ g \in Holders(side[g])
  BY DEF IInv, TypeOK, Holders
<1>2. Cardinality(Holders(side[g])) # 0
  BY <1>1, HoldersFinite, FS_EmptySet
<1>3. Cardinality(Holders(side[g])) > 0
  BY <1>2, HoldersFinite
<1>4. Unit(side[g]) \in Nat
  BY DEF Unit
<1> QED
  BY <1>1, <1>3, <1>4, HoldersFinite DEF IInv, CountsExact

-----------------------------------------------------------------------------
(* The invariant holds initially and every step preserves it.               *)

LEMMA InitInvariant == Init => IInv
<1> SUFFICES ASSUME Init PROVE IInv
  OBVIOUS
<1>1. TypeOK
  BY MaxVersionAssumption
  DEF Init, TypeOK, Sides, WriterStates, GuardStates
<1>2. SeenPositive /\ ClosedSide /\ Versions
  BY DEF Init, SeenPositive, ClosedSide, Versions, Sides, Current
<1>3. CountsExact
  <2>1. \A s \in Sides : Holders(s) = {}
    BY DEF Init, Holders
  <2>2. \A s \in Sides : Cardinality(Holders(s)) = 0
    BY <2>1, FS_EmptySet
  <2> QED
    BY <2>2 DEF Init, CountsExact, Unit, Current, Sides
<1> QED
  BY <1>1, <1>2, <1>3 DEF IInv

\* The writer leaves every guard where it is.
LEMMA WriterKeepsHolders ==
  ASSUME unchangedGuards, NEW s
  PROVE  Holders(s)' = Holders(s)
  BY DEF unchangedGuards, Holders

LEMMA WriterInvariant == IInv /\ Writer => IInv'
<1> SUFFICES ASSUME IInv, Writer PROVE IInv'
  OBVIOUS
<1> USE DEF IInv
<1>0. unchangedGuards
  BY DEF Writer, StartFill, Fill, Open, Flip, Drain, Copy
<1>1. \A s \in Sides : Cardinality(Holders(s))' = Cardinality(Holders(s))
  BY <1>0, WriterKeepsHolders
<1>2. \A s \in Sides : Cardinality(Holders(s)) \in Nat
  BY HoldersFinite
<1>3. SeenPositive'
  BY <1>0 DEF SeenPositive, unchangedGuards
<1>4. /\ alternate \in Sides /\ Current \in Sides /\ Current # alternate
      /\ \A s \in Sides : s = alternate \/ s = Current
  BY DEF TypeOK, Sides, Current
<1>5. CASE StartFill
  BY <1>0, <1>1, <1>2, <1>3, <1>5
  DEF StartFill, TypeOK, ClosedSide, CountsExact, Versions, Unit, Current,
      unchangedGuards, WriterStates
<1>6. CASE Fill
  <2>1. data[Current] + 1 \in 0..MaxVersion
    BY <1>4, <1>6, MaxVersionAssumption DEF Fill, Versions, TypeOK
  <2>2. TypeOK'
    BY <1>0, <1>6, <2>1 DEF Fill, TypeOK, unchangedGuards, WriterStates
  <2>3. ClosedSide' /\ CountsExact'
    BY <1>1, <1>6
    DEF Fill, ClosedSide, CountsExact, Unit, Current
  <2>4. Versions'
    BY <1>4, <1>6 DEF Fill, Versions, Current, TypeOK
  <2> QED
    BY <1>3, <2>2, <2>3, <2>4
<1>7. CASE Open
  <2>1. count[alternate] = 0
    BY <1>7 DEF Open, ClosedSide
  <2>2. count' = [count EXCEPT ![alternate] = 1]
    BY <1>7, <2>1 DEF Open, TypeOK
  <2>3. TypeOK' /\ ClosedSide'
    BY <1>0, <1>7, <2>2
    DEF Open, TypeOK, ClosedSide, unchangedGuards, WriterStates
  <2>4. CountsExact'
    BY <1>1, <1>2, <1>4, <1>7, <2>1, <2>2
    DEF Open, CountsExact, Unit, Current, TypeOK
  <2>5. Versions'
    BY <1>7 DEF Open, Versions, Current
  <2> QED
    BY <1>3, <2>3, <2>4, <2>5
<1>8. CASE Flip
  <2>1. TypeOK' /\ ClosedSide'
    BY <1>0, <1>4, <1>8
    DEF Flip, TypeOK, ClosedSide, unchangedGuards, WriterStates, Sides
  <2>2. CountsExact'
    BY <1>1, <1>8 DEF Flip, CountsExact, Unit
  <2>3. Versions'
    BY <1>4, <1>8 DEF Flip, Versions, Current, Sides
  <2> QED
    BY <1>3, <2>1, <2>2, <2>3
<1>9. CASE Drain
  <2>1. TypeOK' /\ ClosedSide'
    BY <1>0, <1>4, <1>9
    DEF Drain, TypeOK, ClosedSide, unchangedGuards, WriterStates
  <2>2. CountsExact'
    BY <1>1, <1>2, <1>4, <1>9 DEF Drain, CountsExact, Unit, Current, TypeOK
  <2>3. Versions'
    BY <1>9 DEF Drain, Versions
  <2> QED
    BY <1>3, <2>1, <2>2, <2>3
<1>10. CASE Copy
  <2>1. TypeOK'
    BY <1>0, <1>4, <1>10 DEF Copy, TypeOK, unchangedGuards, WriterStates
  <2>2. ClosedSide' /\ CountsExact'
    BY <1>1, <1>10 DEF Copy, ClosedSide, CountsExact, Unit, Current
  <2>3. Versions'
    BY <1>4, <1>10 DEF Copy, Versions, Current, TypeOK
  <2> QED
    BY <1>3, <2>1, <2>2, <2>3
<1> QED
  BY <1>5, <1>6, <1>7, <1>8, <1>9, <1>10 DEF Writer

\* A step of a guard that moves neither a count nor a guard on a side.
LEMMA LookingInvariant ==
  ASSUME IInv, NEW g \in Guards, ReadSide(g) \/ ReadCount(g) \/ ReadRelease(g)
  PROVE  IInv'
<1> USE DEF IInv
<1>1. TypeOK'
  BY DEF ReadSide, ReadCount, ReadRelease, TypeOK, unchangedWriter, Current,
         Sides, GuardStates
<1>2. SeenPositive'
  BY DEF ReadSide, ReadCount, ReadRelease, TypeOK, SeenPositive
<1>3. \A s \in Sides : Holders(s)' = Holders(s)
  BY DEF ReadSide, ReadCount, ReadRelease, TypeOK, Holders, GuardStates
<1>4. count' = count /\ unchangedWriter
  BY DEF ReadSide, ReadCount, ReadRelease
<1>5. \A s \in Sides : Cardinality(Holders(s))' = Cardinality(Holders(s))
  BY <1>3
<1>6. ClosedSide' /\ Versions'
  BY <1>4 DEF ClosedSide, Versions, Current, unchangedWriter
<1>7. CountsExact'
  BY <1>4, <1>5 DEF CountsExact, Unit, Current, unchangedWriter
<1> QED
  BY <1>1, <1>2, <1>6, <1>7

LEMMA EnterInvariant ==
  ASSUME IInv, NEW g \in Guards, Enter(g)
  PROVE  IInv'
<1> USE DEF IInv
<1> DEFINE p == side[g]
<1>0. p \in Sides /\ g \notin Holders(p) /\ count[p] \in Nat /\ seen[g] \in Nat
  BY DEF Enter, TypeOK, Holders
<1>1. SeenPositive' /\ Versions'
  BY DEF Enter, SeenPositive, Versions, Current, unchangedWriter, TypeOK
<1>2. CASE /\ count[p] = seen[g]
           /\ count' = [count EXCEPT ![p] = seen[g] + 1]
           /\ gpc' = [gpc EXCEPT ![g] = "in"]
  <2>1. TypeOK'
    BY <1>0, <1>2
    DEF Enter, TypeOK, unchangedWriter, GuardStates
  <2>2. ClosedSide'
    \* count[p] > 0, so that p is not a closed alternate side
    BY <1>0, <1>2
    DEF Enter, SeenPositive, ClosedSide, TypeOK, unchangedWriter
  <2>3. CountsExact'
    <3> SUFFICES ASSUME NEW s \in Sides
                 PROVE  (count[s] = Cardinality(Holders(s)) + Unit(s))'
      BY DEF CountsExact
    <3>1. /\ Unit(s)' = Unit(s) /\ Unit(s) \in Nat
          /\ IsFiniteSet(Holders(s)) /\ Cardinality(Holders(s)) \in Nat
          /\ count[s] = Cardinality(Holders(s)) + Unit(s)
      BY HoldersFinite
      DEF Enter, unchangedWriter, Unit, Current, CountsExact
    <3>2. CASE s = p
      <4>1. Holders(s)' = Holders(s) \cup {g}
        BY <1>2, <3>2 DEF Enter, Holders, TypeOK
      <4>2. g \notin Holders(s)
        BY <1>0, <3>2
      <4>3. Cardinality(Holders(s)') = Cardinality(Holders(s)) + 1
        BY <3>1, <4>1, <4>2, FS_AddElement
      <4>4. count'[s] = count[s] + 1
        BY <1>0, <1>2, <3>2 DEF TypeOK
      <4> QED
        BY <3>1, <4>3, <4>4
    <3>3. CASE s # p
      <4>1. Holders(s)' = Holders(s)
        BY <1>2, <3>3 DEF Enter, Holders, TypeOK
      <4>2. count'[s] = count[s]
        BY <1>0, <1>2, <3>3 DEF TypeOK
      <4> QED
        BY <3>1, <4>1, <4>2
    <3> QED
      BY <3>2, <3>3
  <2> QED
    BY <1>1, <2>1, <2>2, <2>3
<1>3. CASE gpc' = [gpc EXCEPT ![g] = "again"] /\ count' = count
  <2>1. TypeOK'
    BY <1>3 DEF Enter, TypeOK, unchangedWriter, GuardStates
  <2>2. \A s \in Sides : Holders(s)' = Holders(s)
    BY <1>3 DEF Enter, Holders, TypeOK
  <2>3. \A s \in Sides : Cardinality(Holders(s))' = Cardinality(Holders(s))
    BY <2>2
  <2>4. ClosedSide' /\ CountsExact'
    BY <1>3, <2>3
    DEF Enter, ClosedSide, CountsExact, Unit, Current, unchangedWriter
  <2> QED
    BY <1>1, <2>1, <2>4
<1> QED
  BY <1>2, <1>3 DEF Enter

LEMMA LeaveInvariant ==
  ASSUME IInv, NEW g \in Guards, Leave(g)
  PROVE  IInv'
<1> USE DEF IInv
<1> DEFINE p == side[g]
<1>0. /\ p \in Sides /\ g \in Holders(p) /\ count[p] \in Nat /\ seen[g] \in Nat
      /\ count[p] > 0
  BY HeldSideIsOpen DEF Leave, TypeOK, Holders
<1>1. SeenPositive' /\ Versions'
  BY DEF Leave, SeenPositive, Versions, Current, unchangedWriter, TypeOK
<1>2. CASE /\ count[p] = seen[g]
           /\ count' = [count EXCEPT ![p] = seen[g] - 1]
           /\ gpc' = [gpc EXCEPT ![g] = "out"]
  <2>1. TypeOK'
    BY <1>0, <1>2 DEF Leave, TypeOK, unchangedWriter, GuardStates
  <2>2. ClosedSide'
    BY <1>0, <1>2 DEF Leave, ClosedSide, TypeOK, unchangedWriter
  <2>3. CountsExact'
    <3> SUFFICES ASSUME NEW s \in Sides
                 PROVE  (count[s] = Cardinality(Holders(s)) + Unit(s))'
      BY DEF CountsExact
    <3>1. /\ Unit(s)' = Unit(s) /\ Unit(s) \in Nat
          /\ IsFiniteSet(Holders(s)) /\ Cardinality(Holders(s)) \in Nat
          /\ count[s] = Cardinality(Holders(s)) + Unit(s)
      BY HoldersFinite
      DEF Leave, unchangedWriter, Unit, Current, CountsExact
    <3>2. CASE s = p
      <4>1. Holders(s)' = Holders(s) \ {g}
        BY <1>2, <3>2 DEF Leave, Holders, TypeOK
      <4>2. g \in Holders(s)
        BY <1>0, <3>2
      <4>3. Cardinality(Holders(s)') = Cardinality(Holders(s)) - 1
        BY <3>1, <4>1, <4>2, FS_RemoveElement
      <4>4. count'[s] = count[s] - 1
        BY <1>0, <1>2, <3>2 DEF TypeOK
      <4> QED
        BY <3>1, <4>3, <4>4
    <3>3. CASE s # p
      <4>1. Holders(s)' = Holders(s)
        BY <1>2, <3>3 DEF Leave, Holders, TypeOK
      <4>2. count'[s] = count[s]
        BY <1>0, <1>2, <3>3 DEF TypeOK
      <4> QED
        BY <3>1, <4>1, <4>2
    <3> QED
      BY <3>2, <3>3
  <2> QED
    BY <1>1, <2>1, <2>2, <2>3
<1>3. CASE gpc' = [gpc EXCEPT ![g] = "in"] /\ count' = count
  <2>1. TypeOK'
    BY <1>3 DEF Leave, TypeOK, unchangedWriter, GuardStates
  <2>2. \A s \in Sides : Holders(s)' = Holders(s)
    BY <1>3 DEF Leave, Holders, TypeOK
  <2>3. \A s \in Sides : Cardinality(Holders(s))' = Cardinality(Holders(s))
    BY <2>2
  <2>4. ClosedSide' /\ CountsExact'
    BY <1>3, <2>3
    DEF Leave, ClosedSide, CountsExact, Unit, Current, unchangedWriter
  <2> QED
    BY <1>1, <2>1, <2>4
<1> QED
  BY <1>2, <1>3 DEF Leave

LEMMA NextInvariant == IInv /\ [Next]_vars => IInv'
<1> SUFFICES ASSUME IInv, [Next]_vars PROVE IInv'
  OBVIOUS
<1>1. CASE Writer
  BY <1>1, WriterInvariant
<1>2. ASSUME NEW g \in Guards, Guard(g) PROVE IInv'
  BY <1>2, LookingInvariant, EnterInvariant, LeaveInvariant DEF Guard
<1>3. CASE UNCHANGED vars
  BY <1>3
  DEF vars, IInv, TypeOK, SeenPositive, ClosedSide, CountsExact, Versions,
      Holders, Unit, Current
<1> QED
  BY <1>1, <1>2, <1>3 DEF Next

\* Everything the other theorems rest on holds in every reachable state.
THEOREM Invariance == Spec => []IInv
  BY InitInvariant, NextInvariant, PTL DEF Spec

-----------------------------------------------------------------------------
(* What the invariant gives.                                                *)

\* Every variable keeps its type; in particular no count goes below zero.
THEOREM TypeCorrect == Spec => []TypeOK
<1>1. IInv => TypeOK
  BY DEF IInv
<1> QED
  BY <1>1, Invariance, PTL

\* No reader points at a side that set() is overwriting, for any number of
\* threads and of publications: flipbase_t keeps reads untorn without a lock.
THEOREM TornReadsImpossible == Spec => []NoTornRead
<1>1. IInv => NoTornRead
  BY ClosedSideIsEmpty DEF NoTornRead
<1> QED
  BY <1>1, Invariance, PTL

\* No acquire() or release() is lost, however the compare-and-swaps of the
\* threads interleave.
THEOREM CountsAreExact == Spec => []CountsExact
<1>1. IInv => CountsExact
  BY DEF IInv
<1> QED
  BY <1>1, Invariance, PTL

\* Between two set() calls both sides hold the same version.
THEOREM SidesAgreeAtRest == Spec => []SidesAgree
<1>1. IInv => SidesAgree
  BY DEF IInv, SidesAgree, Versions, Current, TypeOK, Sides
<1> QED
  BY <1>1, Invariance, PTL
-----------------------------------------------------------------------------
(* The flipflop implements Publication.                                     *)

pubCompleted == IF Retired THEN data[alternate] ELSE data[Current]
pubLatest == IF wpc = "flip" THEN data[alternate] ELSE data[Current]
pubView == [g \in Guards |-> IF gpc[g] \in {"in", "leave"}
                             THEN data[side[g]] ELSE MaxVersion + 1]

\* The mapped variables of Publication do not change.
pubUnchanged == UNCHANGED <<pubCompleted, pubLatest, pubView>>

LEMMA InitImplements == Init => Published!Init
  BY DEF Init, Published!Init, Published!NoView, Retired, Current, Sides

\* set() opens the filled side, where nobody can be yet: Offer.
LEMMA OpenImplements == IInv /\ Open => Published!Offer
<1> SUFFICES ASSUME IInv, Open PROVE Published!Offer
  OBVIOUS
<1>1. data[alternate] = data[Current] + 1 /\ data[alternate] \in 0..MaxVersion
  BY DEF Open, IInv, Versions, TypeOK
<1>2. data[Current] < MaxVersion
  BY <1>1, MaxVersionAssumption DEF IInv, TypeOK, Current, Sides
<1>3. /\ pubLatest = data[Current] /\ pubCompleted = data[Current]
      /\ pubLatest' = data[alternate] /\ pubCompleted' = data[Current]
      /\ pubView' = pubView
  BY DEF Open, unchangedGuards, pubLatest, pubCompleted, pubView, Retired,
         Current
<1> QED
  BY <1>1, <1>2, <1>3
  DEF Published!Offer, pubLatest, pubCompleted, pubView

\* The writer's unit is the last one on the old side, so that every guard
\* looks at the new version when set() gets past its spin: Complete.
LEMMA DrainImplements == IInv /\ Drain => Published!Complete
<1> SUFFICES ASSUME IInv, Drain PROVE Published!Complete
  OBVIOUS
<1>1. /\ alternate \in Sides /\ Current \in Sides
      /\ data[alternate] \in 0..MaxVersion
      /\ data[Current] = data[alternate] + 1
  BY DEF IInv, TypeOK, Versions, Drain, Current, Sides
<1>2. Holders(alternate) = {}
  <2>1. count[alternate] = Cardinality(Holders(alternate)) + Unit(alternate)
    BY <1>1 DEF IInv, CountsExact
  <2>2. count[alternate] = 1 /\ Unit(alternate) = 1
    BY DEF Drain, Unit
  <2>3. Cardinality(Holders(alternate)) = 0
    BY <2>1, <2>2, HoldersFinite
  <2> QED
    BY <2>3, HoldersFinite, FS_EmptySet
<1>3. ASSUME NEW g \in Guards PROVE pubView[g] # data[alternate]
  <2>1. CASE gpc[g] \in {"in", "leave"}
    <3>1. side[g] = Current
      BY <1>2, <2>1 DEF Holders, IInv, TypeOK, Current, Sides
    <3> QED
      BY <1>1, <2>1, <3>1 DEF pubView
  <2>2. CASE gpc[g] \notin {"in", "leave"}
    BY <1>1, <2>2, MaxVersionAssumption DEF pubView
  <2> QED
    BY <2>1, <2>2
<1>4. /\ pubLatest = data[Current] /\ pubCompleted = data[alternate]
      /\ pubLatest' = data[Current] /\ pubCompleted' = data[Current]
      /\ pubView' = pubView
  BY DEF Drain, unchangedGuards, pubLatest, pubCompleted, pubView, Retired,
         Current
<1>5. pubLatest # pubCompleted
  BY <1>1, <1>4
<1> QED
  BY <1>3, <1>4, <1>5
  DEF Published!Complete, pubLatest, pubCompleted, pubView

\* Every other step of the writer is invisible: it changes a side nobody
\* looks at, or only turns _alternate round.
LEMMA WriterImplements == IInv /\ Writer => [Published!Next]_(Published!pubVars)
<1> SUFFICES ASSUME IInv, Writer
             PROVE  [Published!Next]_(Published!pubVars)
  OBVIOUS
<1>1. CASE Open
  BY <1>1, OpenImplements DEF Published!Next
<1>2. CASE Drain
  BY <1>2, DrainImplements DEF Published!Next
<1>3. CASE StartFill
  <2>1. pubUnchanged
    BY <1>3 DEF StartFill, unchangedGuards, pubUnchanged, pubCompleted,
                pubLatest, pubView, Retired, Current
  <2> QED
    BY <2>1 DEF pubUnchanged, pubCompleted, pubLatest, pubView,
                Published!pubVars
<1>4. CASE Flip
  <2>1. pubUnchanged
    BY <1>4 DEF Flip, unchangedGuards, pubUnchanged, pubCompleted, pubLatest,
                pubView, Retired, Current, IInv, TypeOK, Sides
  <2> QED
    BY <2>1 DEF pubUnchanged, pubCompleted, pubLatest, pubView,
                Published!pubVars
<1>5. CASE Fill \/ Copy
  <2>1. Holders(alternate) = {}
    BY <1>5, ClosedSideIsEmpty DEF Fill, Copy
  <2>2. /\ \A s \in Sides \ {alternate} : data'[s] = data[s]
        /\ unchangedGuards /\ alternate' = alternate
    BY <1>5 DEF Fill, Copy, IInv, TypeOK
  <2>3. Current \in Sides \ {alternate}
    BY DEF IInv, TypeOK, Current, Sides
  <2>4. \A g \in Guards : gpc[g] \in {"in", "leave"}
                             => side[g] \in Sides \ {alternate}
    BY <2>1 DEF Holders, IInv, TypeOK
  <2>5. pubView' = pubView
    BY <2>2, <2>4 DEF pubView, unchangedGuards
  <2>6. pubCompleted' = pubCompleted /\ pubLatest' = pubLatest
    BY <1>5, <2>2, <2>3
    DEF Fill, Copy, pubCompleted, pubLatest, Retired, Current
  <2> QED
    BY <2>5, <2>6 DEF pubCompleted, pubLatest, pubView, Published!pubVars
<1> QED
  BY <1>1, <1>2, <1>3, <1>4, <1>5 DEF Writer

\* A guard that gets in sees one of the two versions on offer, and a guard
\* that leaves sees nothing; its other steps are invisible.
LEMMA GuardImplements ==
  ASSUME IInv, NEW g \in Guards, Guard(g)
  PROVE  [Published!Next]_(Published!pubVars)
<1> DEFINE inside == {"in", "leave"}
<1>1. unchangedWriter
  BY DEF Guard, ReadSide, ReadCount, Enter, ReadRelease, Leave
<1>2. pubCompleted' = pubCompleted /\ pubLatest' = pubLatest
  BY <1>1 DEF unchangedWriter, pubCompleted, pubLatest, Retired, Current
<1>3. CASE (gpc[g] \in inside) <=> (gpc'[g] \in inside)
  <2>1. \A h \in Guards : /\ gpc[h] \in inside <=> gpc'[h] \in inside
                          /\ gpc[h] \in inside => side'[h] = side[h]
    BY <1>3 DEF Guard, ReadSide, ReadCount, Enter, ReadRelease, Leave, IInv,
                TypeOK
  <2>2. pubView' = pubView
    BY <1>1, <2>1 DEF pubView, unchangedWriter
  <2> QED
    BY <1>2, <2>2 DEF pubCompleted, pubLatest, pubView, Published!pubVars
<1>4. CASE gpc[g] \notin inside /\ gpc'[g] \in inside
  <2>1. /\ Enter(g) /\ count[side[g]] = seen[g]
        /\ gpc' = [gpc EXCEPT ![g] = "in"] /\ side' = side
    BY <1>4 DEF Guard, ReadSide, ReadCount, Enter, ReadRelease, Leave, IInv,
                TypeOK
  <2>2. seen[g] > 0
    BY <2>1 DEF Enter, IInv, SeenPositive
  <2>3. side[g] = alternate => wpc \in {"flip", "drain"}
    BY <2>1, <2>2 DEF IInv, ClosedSide, TypeOK
  <2>4. data[side[g]] \in {pubCompleted, pubLatest}
    BY <2>3 DEF pubCompleted, pubLatest, Retired, Current, IInv, TypeOK, Sides
  <2>5. pubView' = [pubView EXCEPT ![g] = data[side[g]]]
    BY <1>1, <2>1 DEF pubView, unchangedWriter, IInv, TypeOK
  <2>6. pubView[g] = MaxVersion + 1
    BY <1>4 DEF pubView
  <2>7. Published!Acquire(g)
    BY <1>2, <2>4, <2>5, <2>6
    DEF Published!Acquire, Published!NoView, pubCompleted, pubLatest, pubView
  <2> QED
    BY <2>7 DEF Published!Next
<1>5. CASE gpc[g] \in inside /\ gpc'[g] \notin inside
  <2>1. gpc' = [gpc EXCEPT ![g] = "out"] /\ side' = side
    BY <1>5 DEF Guard, ReadSide, ReadCount, Enter, ReadRelease, Leave, IInv,
                TypeOK
  <2>2. pubView' = [pubView EXCEPT ![g] = MaxVersion + 1]
    BY <1>1, <2>1 DEF pubView, unchangedWriter, IInv, TypeOK
  <2>3. pubView[g] # MaxVersion + 1
    BY <1>5, MaxVersionAssumption DEF pubView, IInv, TypeOK
  <2>4. Published!Release(g)
    BY <1>2, <2>2, <2>3
    DEF Published!Release, Published!NoView, pubCompleted, pubLatest, pubView
  <2> QED
    BY <2>4 DEF Published!Next
<1> QED
  BY <1>3, <1>4, <1>5

LEMMA NextImplements ==
  IInv /\ [Next]_vars => [Published!Next]_(Published!pubVars)
<1> SUFFICES ASSUME IInv, [Next]_vars
             PROVE  [Published!Next]_(Published!pubVars)
  OBVIOUS
<1>1. CASE Next
  BY <1>1, WriterImplements, GuardImplements DEF Next
<1>2. CASE UNCHANGED vars
  BY <1>2 DEF vars, Published!pubVars, Retired, Current
<1> QED
  BY <1>1, <1>2

\* flipbase_t gives every user what Publication promises: when set() returns
\* nobody sees the replaced value any more, and nobody ever sees a value that
\* is neither the last one nor the one being published.
THEOREM FlipFlopImplementsPublication == Spec => ImplementsPublication
  BY InitImplements, Invariance, NextImplements, PTL
  DEF Spec, Published!Spec, ImplementsPublication
-----------------------------------------------------------------------------
(***************************************************************************)
(* DataDrop, for any threads and addresses: the reference counts of the    *)
(* objects that go through a datadrop are exact, nothing is used after it  *)
(* was freed, and no mark stays behind.                                    *)
(*                                                                         *)
(* The count of an object is a sum over the threads.  A step changes what  *)
(* one thread contributes, its Share, and what the slot does; the step is  *)
(* right if the count changes by the same amount.                          *)
(***************************************************************************)

One(b) == IF b THEN 1 ELSE 0

\* The five kinds of references of RefsExact; Carriers(o) is the fifth.
Owners(o) == {t \in Threads : own[t] = o}
Setters(o) == {t \in Threads : pc[t] \in {"sread", "scas"} /\ own[t] = o}
Droppers(o) == {t \in Threads : pc[t] = "sdec" /\ old[t].obj = o}
Takers(o) == {t \in Threads : pc[t] \in {"gunmark", "gdec"} /\ got[t] = o}

Share(t, o) == One(t \in Owners(o)) + One(t \in Setters(o)) + One(t \in Droppers(o))
               + One(t \in Carriers(o)) + One(t \in Takers(o))
Total(o) == Cardinality(Owners(o)) + Cardinality(Setters(o)) + Cardinality(Droppers(o))
            + Cardinality(Carriers(o)) + Cardinality(Takers(o))
InSlot(o) == One(slot = Plain(o))

\* The objects that are allocated are those that are referred to.
AliveExact == alive = {o \in Objs : refs[o] > 0}

\* get() is called by a thread that owns nothing.
GetOwnsNothing ==
  \A t \in Threads : pc[t] \in {"gread", "gmark", "ginc", "gunmark", "gdec"} => own[t] = Nil

DropInv == DropTypeOK /\ AliveExact /\ GetOwnsNothing /\ RefsExact /\ MarkHasOwner

-----------------------------------------------------------------------------
(* Sums over the threads.                                                   *)

LEMMA CountType ==
  ASSUME NEW A \in SUBSET Threads
  PROVE  IsFiniteSet(A) /\ Cardinality(A) \in Nat
  BY ThreadsAssumption, FS_Subset, FS_CardinalityType

\* If one thread enters or leaves a set, or neither, the count follows.
LEMMA CountMoves ==
  ASSUME NEW t \in Threads, NEW A \in SUBSET Threads, NEW B \in SUBSET Threads,
         \A u \in Threads \ {t} : u \in A <=> u \in B
  PROVE  Cardinality(B) = Cardinality(A) + One(t \in B) - One(t \in A)
<1>1. Cardinality(A) \in Nat /\ Cardinality(B) \in Nat /\ IsFiniteSet(A) /\ IsFiniteSet(B)
  BY CountType
<1>2. CASE t \in A <=> t \in B
  <2>1. A = B
    BY <1>2
  <2>. QED  BY <1>1, <2>1 DEF One
<1>3. CASE t \in B /\ t \notin A
  <2>1. B = A \cup {t}
    BY <1>3
  <2>. QED  BY <1>1, <1>3, <2>1, FS_AddElement DEF One
<1>4. CASE t \in A /\ t \notin B
  <2>1. A = B \cup {t}
    BY <1>4
  <2>2. Cardinality(A) = Cardinality(B) + 1
    BY <1>1, <1>4, <2>1, FS_AddElement
  <2>. QED  BY <1>1, <1>4, <2>2 DEF One
<1>. QED  BY <1>2, <1>3, <1>4

LEMMA KindsType ==
  \A o \in Objs : /\ Owners(o) \in SUBSET Threads /\ Setters(o) \in SUBSET Threads
                  /\ Droppers(o) \in SUBSET Threads /\ Carriers(o) \in SUBSET Threads
                  /\ Takers(o) \in SUBSET Threads
  BY DEF Owners, Setters, Droppers, Carriers, Takers

LEMMA CountsType ==
  \A o \in Objs : /\ Cardinality(Owners(o)) \in Nat /\ Cardinality(Setters(o)) \in Nat
                  /\ Cardinality(Droppers(o)) \in Nat /\ Cardinality(Carriers(o)) \in Nat
                  /\ Cardinality(Takers(o)) \in Nat /\ Total(o) \in Nat
<1>. SUFFICES ASSUME NEW o \in Objs
     PROVE  /\ Cardinality(Owners(o)) \in Nat /\ Cardinality(Setters(o)) \in Nat
            /\ Cardinality(Droppers(o)) \in Nat /\ Cardinality(Carriers(o)) \in Nat
            /\ Cardinality(Takers(o)) \in Nat /\ Total(o) \in Nat
  OBVIOUS
<1>1. /\ Cardinality(Owners(o)) \in Nat /\ Cardinality(Setters(o)) \in Nat
      /\ Cardinality(Droppers(o)) \in Nat /\ Cardinality(Carriers(o)) \in Nat
      /\ Cardinality(Takers(o)) \in Nat
  BY KindsType, CountType
<1>. QED  BY <1>1 DEF Total

LEMMA Exactly == RefsExact <=> \A o \in Objs : refs[o] = Total(o) + InSlot(o)
<1>. SUFFICES ASSUME NEW o \in Objs
     PROVE  Cardinality(Owners(o)) + Cardinality(Setters(o)) + Cardinality(Droppers(o))
            + InSlot(o) + Cardinality(Carriers(o)) + Cardinality(Takers(o)) = Total(o) + InSlot(o)
  BY DEF RefsExact, Count, InSlot, One, Owners, Setters, Droppers, Takers
<1>1. InSlot(o) \in Nat
  BY DEF InSlot, One
<1>. QED  BY <1>1, CountsType DEF Total

\* A thread's share is part of the sum.
LEMMA ShareCounts ==
  ASSUME NEW t \in Threads, NEW o \in Objs
  PROVE  Total(o) >= Share(t, o) /\ Share(t, o) \in Nat
<1>1. ASSUME NEW A \in SUBSET Threads
      PROVE  Cardinality(A) >= One(t \in A)
  <2>1. Cardinality(A \ {t}) \in Nat /\ Cardinality(A) \in Nat
    BY CountType
  <2>2. Cardinality(A \ {t}) = Cardinality(A) + One(t \in A \ {t}) - One(t \in A)
    BY CountMoves
  <2>. QED  BY <2>1, <2>2 DEF One
<1>2. /\ Cardinality(Owners(o)) >= One(t \in Owners(o))
      /\ Cardinality(Setters(o)) >= One(t \in Setters(o))
      /\ Cardinality(Droppers(o)) >= One(t \in Droppers(o))
      /\ Cardinality(Carriers(o)) >= One(t \in Carriers(o))
      /\ Cardinality(Takers(o)) >= One(t \in Takers(o))
  BY <1>1, KindsType
<1>3. \A x : One(x) \in {0, 1}
  BY DEF One
<1>. QED  BY <1>2, <1>3, CountsType DEF Total, Share

\* Where only one thread moves, the sum changes by what changes in its share.
LEMMA TotalMoves ==
  ASSUME NEW t \in Threads, NEW o \in Objs,
         \A u \in Threads \ {t} : /\ pc'[u] = pc[u] /\ own'[u] = own[u]
                                  /\ old'[u] = old[u] /\ got'[u] = got[u]
  PROVE  Total(o)' = Total(o) + Share(t, o)' - Share(t, o)
<1>1. /\ Owners(o)' \in SUBSET Threads /\ Setters(o)' \in SUBSET Threads
      /\ Droppers(o)' \in SUBSET Threads /\ Carriers(o)' \in SUBSET Threads
      /\ Takers(o)' \in SUBSET Threads
  BY DEF Owners, Setters, Droppers, Carriers, Takers
<1>2. Cardinality(Owners(o))' =
       Cardinality(Owners(o)) + One(t \in Owners(o))' - One(t \in Owners(o))
  <2>1. \A u \in Threads \ {t} : u \in Owners(o) <=> u \in Owners(o)'
    BY DEF Owners
  <2>2. Owners(o) \in SUBSET Threads /\ Owners(o)' \in SUBSET Threads
    BY <1>1, KindsType
  <2>. QED  BY <2>1, <2>2, CountMoves
<1>3. Cardinality(Setters(o))' =
       Cardinality(Setters(o)) + One(t \in Setters(o))' - One(t \in Setters(o))
  <2>1. \A u \in Threads \ {t} : u \in Setters(o) <=> u \in Setters(o)'
    BY DEF Setters
  <2>2. Setters(o) \in SUBSET Threads /\ Setters(o)' \in SUBSET Threads
    BY <1>1, KindsType
  <2>. QED  BY <2>1, <2>2, CountMoves
<1>4. Cardinality(Droppers(o))' =
       Cardinality(Droppers(o)) + One(t \in Droppers(o))' - One(t \in Droppers(o))
  <2>1. \A u \in Threads \ {t} : u \in Droppers(o) <=> u \in Droppers(o)'
    BY DEF Droppers
  <2>2. Droppers(o) \in SUBSET Threads /\ Droppers(o)' \in SUBSET Threads
    BY <1>1, KindsType
  <2>. QED  BY <2>1, <2>2, CountMoves
<1>5. Cardinality(Carriers(o))' =
       Cardinality(Carriers(o)) + One(t \in Carriers(o))' - One(t \in Carriers(o))
  <2>1. \A u \in Threads \ {t} : u \in Carriers(o) <=> u \in Carriers(o)'
    BY DEF Carriers
  <2>2. Carriers(o) \in SUBSET Threads /\ Carriers(o)' \in SUBSET Threads
    BY <1>1, KindsType
  <2>. QED  BY <2>1, <2>2, CountMoves
<1>6. Cardinality(Takers(o))' =
       Cardinality(Takers(o)) + One(t \in Takers(o))' - One(t \in Takers(o))
  <2>1. \A u \in Threads \ {t} : u \in Takers(o) <=> u \in Takers(o)'
    BY DEF Takers
  <2>2. Takers(o) \in SUBSET Threads /\ Takers(o)' \in SUBSET Threads
    BY <1>1, KindsType
  <2>. QED  BY <2>1, <2>2, CountMoves
<1>7. /\ One(t \in Owners(o)) \in Int /\ One(t \in Owners(o))' \in Int
      /\ One(t \in Setters(o)) \in Int /\ One(t \in Setters(o))' \in Int
      /\ One(t \in Droppers(o)) \in Int /\ One(t \in Droppers(o))' \in Int
      /\ One(t \in Carriers(o)) \in Int /\ One(t \in Carriers(o))' \in Int
      /\ One(t \in Takers(o)) \in Int /\ One(t \in Takers(o))' \in Int
  BY DEF One
<1>8. /\ Cardinality(Owners(o)) \in Int /\ Cardinality(Setters(o)) \in Int
      /\ Cardinality(Droppers(o)) \in Int /\ Cardinality(Carriers(o)) \in Int
      /\ Cardinality(Takers(o)) \in Int
  BY CountsType
<1>9. /\ Cardinality(Owners(o))' \in Int /\ Cardinality(Setters(o))' \in Int
      /\ Cardinality(Droppers(o))' \in Int /\ Cardinality(Carriers(o))' \in Int
      /\ Cardinality(Takers(o))' \in Int
  BY <1>1, CountType
\* The partial sums, one kind of references after the other.
<1>. DEFINE sum2 == Cardinality(Owners(o)) + Cardinality(Setters(o))
            sum3 == sum2 + Cardinality(Droppers(o))
            sum4 == sum3 + Cardinality(Carriers(o))
            share2 == One(t \in Owners(o)) + One(t \in Setters(o))
            share3 == share2 + One(t \in Droppers(o))
            share4 == share3 + One(t \in Carriers(o))
            Moves(n, m, h, k) == /\ n \in Int /\ m \in Int /\ h \in Int /\ k \in Int
                                 /\ m = n + k - h
<1>10. Moves(sum2, sum2', share2, share2')
  BY <1>2, <1>3, <1>7, <1>8, <1>9
<1>. HIDE DEF sum2, share2
<1>11. Moves(sum3, sum3', share3, share3')
  BY <1>4, <1>7, <1>8, <1>9, <1>10
<1>. HIDE DEF sum3, share3
<1>12. Moves(sum4, sum4', share4, share4')
  BY <1>5, <1>7, <1>8, <1>9, <1>11
<1>. HIDE DEF sum4, share4
<1>13. (sum4 + Cardinality(Takers(o)))' = sum4 + Cardinality(Takers(o))
         + (share4 + One(t \in Takers(o)))' - (share4 + One(t \in Takers(o)))
  BY <1>6, <1>7, <1>8, <1>9, <1>12
<1>. QED  BY <1>13 DEF Total, Share, sum2, sum3, sum4, share2, share3, share4

-----------------------------------------------------------------------------
(* Steps.                                                                   *)

\* Only thread t moves; the slot and its variables keep their types.
Alone(t) ==
  /\ \A u \in Threads \ {t} : /\ pc'[u] = pc[u] /\ own'[u] = own[u]
                              /\ old'[u] = old[u] /\ got'[u] = got[u]
  /\ slot' \in [obj : Ptr, mark : BOOLEAN]
  /\ pc' \in [Threads -> {"idle", "sread", "scas", "sdec", "gread", "gmark",
                          "ginc", "gunmark", "gdec"}]
  /\ own' \in [Threads -> Ptr] /\ old' \in [Threads -> [obj : Ptr, mark : BOOLEAN]]
  /\ got' \in [Threads -> Ptr]

\* The count changes by what changes in the thread's share and in the slot.
LEMMA Balanced ==
  ASSUME RefsExact, NEW t \in Threads, Alone(t),
         \A o \in Objs : refs'[o] = refs[o] + (Share(t, o)' + InSlot(o)')
                                            - (Share(t, o) + InSlot(o))
  PROVE  RefsExact'
<1>1. \A o \in Objs : refs[o] = Total(o) + InSlot(o)
  BY Exactly
<1>2. \A o \in Objs : Total(o)' = Total(o) + Share(t, o)' - Share(t, o)
  BY TotalMoves DEF Alone
<1>3. \A o \in Objs : Total(o) \in Int /\ Share(t, o) \in Int /\ InSlot(o) \in Int
                     /\ Share(t, o)' \in Int /\ InSlot(o)' \in Int
  BY CountsType DEF Share, InSlot, One
<1>4. \A o \in Objs : refs'[o] = Total(o)' + InSlot(o)'
  BY <1>1, <1>2, <1>3
<1>5. RefsExact' <=> (\A o \in Objs : refs[o] = Total(o) + InSlot(o))'
  BY Exactly, PTL
<1>. QED  BY <1>4, <1>5

\* An object with a reference of a thread, or of the slot, is allocated.
LEMMA Referred ==
  ASSUME DropInv, NEW t \in Threads, NEW o \in Objs, Share(t, o) > 0 \/ InSlot(o) > 0
  PROVE  refs[o] > 0 /\ refs[o] \in Nat /\ o \in alive
<1>1. refs[o] = Total(o) + InSlot(o)
  BY Exactly DEF DropInv
<1>2. Total(o) >= Share(t, o) /\ Share(t, o) \in Nat
  BY ShareCounts
<1>3. InSlot(o) \in {0, 1} /\ Total(o) \in Nat
  BY CountsType DEF InSlot, One
<1>4. refs[o] > 0 /\ refs[o] \in Nat
  BY <1>1, <1>2, <1>3
<1>. QED  BY <1>4 DEF DropInv, AliveExact

LEMMA IncrefEffect ==
  ASSUME DropTypeOK, AliveExact, NEW p \in Ptr, Incref(p), p \in Objs => refs[p] > 0
  PROVE  /\ refs' \in [Objs -> Nat] /\ AliveExact' /\ alive' \subseteq Objs
         /\ \A o \in Objs : refs'[o] = refs[o] + One(p = o)
<1>1. CASE p = Nil
  BY <1>1, NilAssumption DEF Incref, DropTypeOK, AliveExact, One
<1>2. CASE p \in Objs
  <2>1. refs' = [refs EXCEPT ![p] = @ + 1] /\ alive' = alive /\ refs[p] \in Nat
    BY <1>2, NilAssumption DEF Incref, DropTypeOK
  <2>2. /\ refs' \in [Objs -> Nat]
        /\ \A o \in Objs : refs'[o] = refs[o] + One(p = o)
    BY <1>2, <2>1 DEF DropTypeOK, One
  <2>3. \A o \in Objs : refs'[o] > 0 <=> refs[o] > 0
    BY <1>2, <2>1, <2>2 DEF DropTypeOK, One
  <2>. QED  BY <2>1, <2>2, <2>3 DEF AliveExact, DropTypeOK
<1>. QED  BY <1>1, <1>2 DEF Ptr

LEMMA DecrefEffect ==
  ASSUME DropTypeOK, AliveExact, NEW p \in Ptr, Decref(p), p \in Objs => refs[p] > 0
  PROVE  /\ refs' \in [Objs -> Nat] /\ AliveExact' /\ alive' \subseteq Objs
         /\ \A o \in Objs : refs'[o] = refs[o] - One(p = o)
<1>1. CASE p = Nil
  BY <1>1, NilAssumption DEF Decref, DropTypeOK, AliveExact, One
<1>2. CASE p \in Objs
  <2>1. /\ refs' = [refs EXCEPT ![p] = @ - 1] /\ refs[p] \in Nat /\ refs[p] > 0
        /\ refs'[p] = refs[p] - 1
        /\ alive' = IF refs'[p] = 0 THEN alive \ {p} ELSE alive
    BY <1>2, NilAssumption DEF Decref, DropTypeOK
  <2>2. /\ refs' \in [Objs -> Nat]
        /\ \A o \in Objs : refs'[o] = refs[o] - One(p = o)
    BY <1>2, <2>1 DEF DropTypeOK, One
  <2>3. \A o \in Objs \ {p} : refs'[o] = refs[o]
    BY <2>1 DEF DropTypeOK
  <2>4. refs'[p] > 0 <=> refs'[p] # 0
    BY <2>1
  <2>. QED  BY <1>2, <2>1, <2>2, <2>3, <2>4 DEF AliveExact, DropTypeOK
<1>. QED  BY <1>1, <1>2 DEF Ptr

\* What is left to show of a step: that it balances, and its part of the rest.
LEMMA StepOf ==
  ASSUME DropInv, NEW t \in Threads, Alone(t),
         refs' \in [Objs -> Nat], AliveExact', alive' \subseteq Objs,
         \A o \in Objs : refs'[o] = refs[o] + (Share(t, o)' + InSlot(o)')
                                            - (Share(t, o) + InSlot(o)),
         pc'[t] \in {"gread", "gmark", "ginc", "gunmark", "gdec"} => own'[t] = Nil,
         MarkHasOwner'
  PROVE  DropInv'
<1>1. DropTypeOK'
  BY DEF DropInv, DropTypeOK, Alone
<1>2. GetOwnsNothing'
  BY DEF DropInv, GetOwnsNothing, Alone
<1>3. RefsExact'
  BY Balanced DEF DropInv
<1>. QED  BY <1>1, <1>2, <1>3 DEF DropInv

\* Expanding a thread's share.
LEMMA ShareIs ==
  ASSUME NEW t \in Threads, NEW o \in Objs
  PROVE  /\ Share(t, o) = One(own[t] = o) + One(pc[t] \in {"sread", "scas"} /\ own[t] = o)
              + One(pc[t] = "sdec" /\ old[t].obj = o)
              + One(pc[t] \in {"ginc", "gunmark", "gdec"} /\ got[t] = o)
              + One(pc[t] \in {"gunmark", "gdec"} /\ got[t] = o)
         /\ Share(t, o)' = One(own'[t] = o) + One(pc'[t] \in {"sread", "scas"} /\ own'[t] = o)
              + One(pc'[t] = "sdec" /\ old'[t].obj = o)
              + One(pc'[t] \in {"ginc", "gunmark", "gdec"} /\ got'[t] = o)
              + One(pc'[t] \in {"gunmark", "gdec"} /\ got'[t] = o)
  BY DEF Share, Owners, Setters, Droppers, Carriers, Takers

LEMMA CreateInv ==
  ASSUME DropInv, NEW t \in Threads, Create(t)
  PROVE  DropInv'
<1>1. PICK n \in Objs \ alive : /\ alive' = alive \cup {n}
                              /\ refs' = [refs EXCEPT ![n] = 1]
                              /\ own' = [own EXCEPT ![t] = n]
  BY DEF Create
<1>2. /\ pc[t] = "idle" /\ own[t] = Nil /\ own'[t] = n /\ n # Nil
      /\ UNCHANGED <<slot, pc, old, got>> /\ refs[n] = 0
  BY <1>1, NilAssumption DEF Create, DropInv, DropTypeOK, AliveExact
<1>3. Alone(t)
  BY <1>1, <1>2 DEF Alone, DropInv, DropTypeOK, Ptr
<1>4. refs' \in [Objs -> Nat] /\ AliveExact' /\ alive' \subseteq Objs
  BY <1>1 DEF DropInv, DropTypeOK, AliveExact
<1>5. \A o \in Objs : refs'[o] = refs[o] + One(n = o)
  BY <1>1, <1>2 DEF DropInv, DropTypeOK, One
<1>6. \A o \in Objs : Share(t, o)' = Share(t, o) + One(n = o) /\ InSlot(o)' = InSlot(o)
  BY <1>2, NilAssumption, ShareIs DEF One, InSlot, Plain
<1>7. \A o \in Objs : refs'[o] = refs[o] + (Share(t, o)' + InSlot(o)')
                                         - (Share(t, o) + InSlot(o))
  BY <1>5, <1>6, ShareCounts DEF One, InSlot, DropInv, DropTypeOK
<1>8. MarkHasOwner'
  BY <1>2 DEF DropInv, MarkHasOwner
<1>. QED  BY <1>2, <1>3, <1>4, <1>7, <1>8, StepOf

LEMMA ForgetInv ==
  ASSUME DropInv, NEW t \in Threads, Forget(t)
  PROVE  DropInv'
<1>1. /\ pc[t] = "idle" /\ own[t] \in Objs /\ own'[t] = Nil
      /\ UNCHANGED <<slot, pc, old, got>> /\ Decref(own[t])
  BY DEF Forget, DropInv, DropTypeOK, Ptr
<1>2. Alone(t)
  BY <1>1 DEF Forget, Alone, DropInv, DropTypeOK, Ptr
<1>3. refs[own[t]] > 0
  BY <1>1, ShareIs, Referred DEF One
<1>4. /\ refs' \in [Objs -> Nat] /\ AliveExact' /\ alive' \subseteq Objs
      /\ \A o \in Objs : refs'[o] = refs[o] - One(own[t] = o)
  BY <1>1, <1>3, DecrefEffect DEF DropInv, Ptr
<1>5. \A o \in Objs : Share(t, o)' = Share(t, o) - One(own[t] = o) /\ InSlot(o)' = InSlot(o)
  BY <1>1, NilAssumption, ShareIs DEF One, InSlot, Plain
<1>6. \A o \in Objs : refs'[o] = refs[o] + (Share(t, o)' + InSlot(o)')
                                         - (Share(t, o) + InSlot(o))
  BY <1>4, <1>5, ShareCounts DEF One, InSlot, DropInv, DropTypeOK
<1>7. MarkHasOwner'
  BY <1>1 DEF DropInv, MarkHasOwner
<1>. QED  BY <1>1, <1>2, <1>4, <1>6, <1>7, StepOf

LEMMA SetIncrefInv ==
  ASSUME DropInv, NEW t \in Threads, SetIncref(t)
  PROVE  DropInv'
<1>1. /\ pc[t] = "idle" /\ own[t] \in Ptr /\ pc'[t] = "sread"
      /\ UNCHANGED <<slot, own, old, got>> /\ Incref(own[t])
  BY DEF SetIncref, DropInv, DropTypeOK
<1>2. Alone(t)
  BY <1>1 DEF SetIncref, Alone, DropInv, DropTypeOK
<1>3. own[t] \in Objs => refs[own[t]] > 0
  BY <1>1, ShareIs, Referred DEF One
<1>4. /\ refs' \in [Objs -> Nat] /\ AliveExact' /\ alive' \subseteq Objs
      /\ \A o \in Objs : refs'[o] = refs[o] + One(own[t] = o)
  BY <1>1, <1>3, IncrefEffect DEF DropInv
<1>5. \A o \in Objs : Share(t, o)' = Share(t, o) + One(own[t] = o) /\ InSlot(o)' = InSlot(o)
  BY <1>1, ShareIs DEF One, InSlot, Plain
<1>6. \A o \in Objs : refs'[o] = refs[o] + (Share(t, o)' + InSlot(o)')
                                         - (Share(t, o) + InSlot(o))
  BY <1>4, <1>5, ShareCounts DEF One, InSlot, DropInv, DropTypeOK
<1>7. MarkHasOwner'
  BY <1>1, <1>2 DEF DropInv, MarkHasOwner, Alone
<1>. QED  BY <1>1, <1>2, <1>4, <1>6, <1>7, StepOf

\* Steps that count nothing.
LEMMA NoRefsEffect ==
  ASSUME DropInv, noRefs
  PROVE  /\ refs' \in [Objs -> Nat] /\ AliveExact' /\ alive' \subseteq Objs
         /\ \A o \in Objs : refs'[o] = refs[o] /\ refs[o] \in Nat
  BY DEF DropInv, DropTypeOK, AliveExact, noRefs

\* Pointers are compared with their marks.
LEMMA PlainIs ==
  \A o : \A s \in [obj : Ptr, mark : BOOLEAN] : s = Plain(o) <=> s.obj = o /\ ~s.mark
<1>. SUFFICES ASSUME NEW o, NEW s \in [obj : Ptr, mark : BOOLEAN]
     PROVE  s = Plain(o) <=> s.obj = o /\ ~s.mark
  OBVIOUS
<1>1. s = [obj |-> s.obj, mark |-> s.mark] /\ s.mark \in BOOLEAN
  OBVIOUS
<1>. QED  BY <1>1 DEF Plain

LEMMA MarkedIs ==
  \A o : \A s \in [obj : Ptr, mark : BOOLEAN] : s = Marked(o) <=> s.obj = o /\ s.mark
<1>. SUFFICES ASSUME NEW o, NEW s \in [obj : Ptr, mark : BOOLEAN]
     PROVE  s = Marked(o) <=> s.obj = o /\ s.mark
  OBVIOUS
<1>1. s = [obj |-> s.obj, mark |-> s.mark] /\ s.mark \in BOOLEAN
  OBVIOUS
<1>. QED  BY <1>1 DEF Marked

LEMMA PointerType ==
  \A p \in Ptr : /\ Plain(p) \in [obj : Ptr, mark : BOOLEAN]
                 /\ Marked(p) \in [obj : Ptr, mark : BOOLEAN]
  BY DEF Plain, Marked

LEMMA SlotIs ==
  ASSUME DropInv, NEW t \in Threads, Alone(t), NEW o \in Objs
  PROVE  /\ InSlot(o) = One(slot.obj = o /\ ~slot.mark)
         /\ InSlot(o)' = One(slot'.obj = o /\ ~slot'.mark)
  BY PlainIs DEF InSlot, DropInv, DropTypeOK, Alone

\* While the slot stays as it is, so does the owner of its mark, unless it is t.
LEMMA MarkStays ==
  ASSUME DropInv, NEW t \in Threads, Alone(t), slot' = slot,
         slot.mark /\ pc[t] \in {"ginc", "gunmark"} /\ got[t] = slot.obj
           => pc'[t] \in {"ginc", "gunmark"} /\ got'[t] = slot.obj
  PROVE  MarkHasOwner'
<1>. SUFFICES ASSUME slot.mark
     PROVE  \E u \in Threads : pc'[u] \in {"ginc", "gunmark"} /\ got'[u] = slot.obj
  BY DEF MarkHasOwner
<1>1. PICK u \in Threads : pc[u] \in {"ginc", "gunmark"} /\ got[u] = slot.obj
  BY DEF DropInv, MarkHasOwner
<1>2. CASE u = t
  BY <1>1, <1>2
<1>3. CASE u # t
  BY <1>1, <1>3 DEF Alone
<1>. QED  BY <1>2, <1>3

LEMMA SetReadInv ==
  ASSUME DropInv, NEW t \in Threads, SetRead(t)
  PROVE  DropInv'
<1>1. /\ pc[t] = "sread" /\ pc'[t] = "scas" /\ UNCHANGED <<slot, own, got>> /\ noRefs
  BY DEF SetRead, DropInv, DropTypeOK
<1>2. Alone(t)
  BY <1>1 DEF SetRead, Alone, DropInv, DropTypeOK
<1>3. \A o \in Objs : Share(t, o)' = Share(t, o) /\ InSlot(o)' = InSlot(o)
  BY <1>1, ShareIs DEF One, InSlot, Plain
<1>4. \A o \in Objs : refs'[o] = refs[o] + (Share(t, o)' + InSlot(o)')
                                         - (Share(t, o) + InSlot(o))
  BY <1>1, <1>3, NoRefsEffect, ShareCounts DEF One, InSlot
<1>5. MarkHasOwner'
  BY <1>1, <1>2, MarkStays
<1>. QED  BY <1>1, <1>2, <1>4, <1>5, NoRefsEffect, StepOf

LEMMA SetCasInv ==
  ASSUME DropInv, NEW t \in Threads, SetCas(t)
  PROVE  DropInv'
<1>1. /\ pc[t] = "scas" /\ UNCHANGED <<own, old, got>> /\ noRefs
      /\ pc'[t] \in {"sread", "sdec", "idle"}
  BY DEF SetCas, DropInv, DropTypeOK
<1>2. Alone(t)
  <2>1. slot' = slot \/ slot' = Plain(own[t])
    BY DEF SetCas
  <2>2. slot' \in [obj : Ptr, mark : BOOLEAN]
    <3>1. slot \in [obj : Ptr, mark : BOOLEAN] /\ own[t] \in Ptr /\ got[t] \in Ptr
      BY DEF DropInv, DropTypeOK
    <3>. QED  BY <2>1, <3>1, PointerType
  <2>3. own' \in [Threads -> Ptr] /\ \A u \in Threads \ {t} : own'[u] = own[u]
    BY DEF SetCas, DropInv, DropTypeOK
  <2>4. /\ pc' \in [Threads -> {"idle", "sread", "scas", "sdec", "gread", "gmark",
                               "ginc", "gunmark", "gdec"}]
        /\ \A u \in Threads \ {t} : pc'[u] = pc[u]
    BY DEF SetCas, DropInv, DropTypeOK
  <2>. QED  BY <1>1, <2>2, <2>3, <2>4 DEF Alone, DropInv, DropTypeOK
<1>3. CASE slot = old[t] /\ slot' = Plain(own[t])
  <2>1. pc'[t] = IF slot.mark THEN "idle" ELSE "sdec"
    BY <1>2, <1>3, <1>1 DEF SetCas, DropInv, DropTypeOK
  <2>2. slot'.obj = own[t] /\ ~slot'.mark /\ slot.mark \in BOOLEAN
    BY <1>3 DEF Plain, DropInv, DropTypeOK
  <2>3. \A o \in Objs : Share(t, o)' + InSlot(o)' = Share(t, o) + InSlot(o)
    <3>1. CASE slot.mark
      BY <1>1, <1>2, <1>3, <2>1, <2>2, <3>1, ShareIs, SlotIs DEF One
    <3>2. CASE ~slot.mark
      BY <1>1, <1>2, <1>3, <2>1, <2>2, <3>2, ShareIs, SlotIs DEF One
    <3>. QED  BY <3>1, <3>2
  <2>4. \A o \in Objs : refs'[o] = refs[o] + (Share(t, o)' + InSlot(o)')
                                           - (Share(t, o) + InSlot(o))
    BY <1>1, <2>3, NoRefsEffect, ShareCounts DEF One, InSlot
  <2>5. MarkHasOwner'
    BY <2>2 DEF MarkHasOwner
  <2>. QED  BY <1>1, <1>2, <2>4, <2>5, NoRefsEffect, StepOf
<1>4. CASE slot' = slot /\ pc'[t] = "sread"
  <2>1. \A o \in Objs : Share(t, o)' = Share(t, o) /\ InSlot(o)' = InSlot(o)
    BY <1>1, <1>4, ShareIs DEF One, InSlot, Plain
  <2>2. \A o \in Objs : refs'[o] = refs[o] + (Share(t, o)' + InSlot(o)')
                                           - (Share(t, o) + InSlot(o))
    BY <1>1, <2>1, NoRefsEffect, ShareCounts DEF One, InSlot
  <2>3. MarkHasOwner'
    BY <1>1, <1>2, <1>4, MarkStays
  <2>. QED  BY <1>1, <1>2, <2>2, <2>3, NoRefsEffect, StepOf
<1>. QED  BY <1>3, <1>4 DEF SetCas, DropInv, DropTypeOK

LEMMA SetDecrefInv ==
  ASSUME DropInv, NEW t \in Threads, SetDecref(t)
  PROVE  DropInv'
<1>1. /\ pc[t] = "sdec" /\ old[t].obj \in Ptr /\ pc'[t] = "idle"
      /\ UNCHANGED <<slot, own, old, got>> /\ Decref(old[t].obj)
  BY DEF SetDecref, DropInv, DropTypeOK
<1>2. Alone(t)
  BY <1>1 DEF SetDecref, Alone, DropInv, DropTypeOK
<1>3. old[t].obj \in Objs => refs[old[t].obj] > 0
  BY <1>1, ShareIs, Referred DEF One
<1>4. /\ refs' \in [Objs -> Nat] /\ AliveExact' /\ alive' \subseteq Objs
      /\ \A o \in Objs : refs'[o] = refs[o] - One(old[t].obj = o)
  BY <1>1, <1>3, DecrefEffect DEF DropInv
<1>5. \A o \in Objs : Share(t, o)' = Share(t, o) - One(old[t].obj = o) /\ InSlot(o)' = InSlot(o)
  BY <1>1, ShareIs DEF One, InSlot, Plain
<1>6. \A o \in Objs : refs'[o] = refs[o] + (Share(t, o)' + InSlot(o)')
                                         - (Share(t, o) + InSlot(o))
  BY <1>4, <1>5, ShareCounts DEF One, InSlot, DropInv, DropTypeOK
<1>7. MarkHasOwner'
  BY <1>1, <1>2, MarkStays
<1>. QED  BY <1>1, <1>2, <1>4, <1>6, <1>7, StepOf

LEMMA GetReadInv ==
  ASSUME DropInv, NEW t \in Threads, GetRead(t)
  PROVE  DropInv'
<1>1. /\ pc[t] \in {"idle", "gread"} /\ pc'[t] \in {"gread", "gmark"} /\ own[t] = Nil
      /\ UNCHANGED <<slot, own, old>> /\ noRefs
  BY DEF GetRead, DropInv, DropTypeOK, GetOwnsNothing
<1>2. Alone(t)
  BY <1>1 DEF GetRead, Alone, DropInv, DropTypeOK
<1>3. \A o \in Objs : Share(t, o)' = Share(t, o) /\ InSlot(o)' = InSlot(o)
  BY <1>1, ShareIs DEF One, InSlot, Plain
<1>4. \A o \in Objs : refs'[o] = refs[o] + (Share(t, o)' + InSlot(o)')
                                         - (Share(t, o) + InSlot(o))
  BY <1>1, <1>3, NoRefsEffect, ShareCounts DEF One, InSlot
<1>5. MarkHasOwner'
  BY <1>1, <1>2, MarkStays
<1>. QED  BY <1>1, <1>2, <1>4, <1>5, NoRefsEffect, StepOf

LEMMA GetMarkInv ==
  ASSUME DropInv, NEW t \in Threads, GetMark(t)
  PROVE  DropInv'
<1>1. /\ pc[t] = "gmark" /\ UNCHANGED <<own, old, got>> /\ noRefs /\ own[t] = Nil
      /\ pc'[t] \in {"ginc", "gread"}
  BY DEF GetMark, DropInv, DropTypeOK, GetOwnsNothing
<1>2. Alone(t)
  <2>1. slot' = slot \/ slot' = Marked(got[t])
    BY DEF GetMark
  <2>2. slot' \in [obj : Ptr, mark : BOOLEAN]
    <3>1. slot \in [obj : Ptr, mark : BOOLEAN] /\ own[t] \in Ptr /\ got[t] \in Ptr
      BY DEF DropInv, DropTypeOK
    <3>. QED  BY <2>1, <3>1, PointerType
  <2>3. own' \in [Threads -> Ptr] /\ \A u \in Threads \ {t} : own'[u] = own[u]
    BY DEF GetMark, DropInv, DropTypeOK
  <2>4. /\ pc' \in [Threads -> {"idle", "sread", "scas", "sdec", "gread", "gmark",
                               "ginc", "gunmark", "gdec"}]
        /\ \A u \in Threads \ {t} : pc'[u] = pc[u]
    BY DEF GetMark, DropInv, DropTypeOK
  <2>. QED  BY <1>1, <2>2, <2>3, <2>4 DEF Alone, DropInv, DropTypeOK
<1>3. CASE slot = Plain(got[t]) /\ slot' = Marked(got[t]) /\ pc'[t] = "ginc"
  <2>1. slot.obj = got[t] /\ ~slot.mark /\ slot'.obj = got[t] /\ slot'.mark
    BY <1>3 DEF Plain, Marked
  <2>2. \A o \in Objs : Share(t, o)' + InSlot(o)' = Share(t, o) + InSlot(o)
    BY <1>1, <1>2, <1>3, <2>1, ShareIs, SlotIs DEF One
  <2>3. \A o \in Objs : refs'[o] = refs[o] + (Share(t, o)' + InSlot(o)')
                                           - (Share(t, o) + InSlot(o))
    BY <1>1, <2>2, NoRefsEffect, ShareCounts DEF One, InSlot
  <2>4. MarkHasOwner'
    BY <1>1, <1>3, <2>1 DEF MarkHasOwner
  <2>. QED  BY <1>1, <1>2, <2>3, <2>4, NoRefsEffect, StepOf
<1>4. CASE slot' = slot /\ pc'[t] = "gread"
  <2>1. \A o \in Objs : Share(t, o)' = Share(t, o) /\ InSlot(o)' = InSlot(o)
    BY <1>1, <1>4, ShareIs DEF One, InSlot, Plain
  <2>2. \A o \in Objs : refs'[o] = refs[o] + (Share(t, o)' + InSlot(o)')
                                           - (Share(t, o) + InSlot(o))
    BY <1>1, <2>1, NoRefsEffect, ShareCounts DEF One, InSlot
  <2>3. MarkHasOwner'
    BY <1>1, <1>2, <1>4, MarkStays
  <2>. QED  BY <1>1, <1>2, <2>2, <2>3, NoRefsEffect, StepOf
<1>. QED  BY <1>3, <1>4 DEF GetMark, DropInv, DropTypeOK

LEMMA GetIncrefInv ==
  ASSUME DropInv, NEW t \in Threads, GetIncref(t)
  PROVE  DropInv'
<1>1. /\ pc[t] = "ginc" /\ got[t] \in Ptr /\ pc'[t] = "gunmark" /\ own[t] = Nil
      /\ UNCHANGED <<slot, own, old, got>> /\ Incref(got[t])
  BY DEF GetIncref, DropInv, DropTypeOK, GetOwnsNothing
<1>2. Alone(t)
  BY <1>1 DEF GetIncref, Alone, DropInv, DropTypeOK
<1>3. got[t] \in Objs => refs[got[t]] > 0
  BY <1>1, ShareIs, Referred DEF One
<1>4. /\ refs' \in [Objs -> Nat] /\ AliveExact' /\ alive' \subseteq Objs
      /\ \A o \in Objs : refs'[o] = refs[o] + One(got[t] = o)
  BY <1>1, <1>3, IncrefEffect DEF DropInv
<1>5. \A o \in Objs : Share(t, o)' = Share(t, o) + One(got[t] = o) /\ InSlot(o)' = InSlot(o)
  BY <1>1, ShareIs DEF One, InSlot, Plain
<1>6. \A o \in Objs : refs'[o] = refs[o] + (Share(t, o)' + InSlot(o)')
                                         - (Share(t, o) + InSlot(o))
  BY <1>4, <1>5, ShareCounts DEF One, InSlot, DropInv, DropTypeOK
<1>7. MarkHasOwner'
  BY <1>1, <1>2, MarkStays
<1>. QED  BY <1>1, <1>2, <1>4, <1>6, <1>7, StepOf

LEMMA GetUnmarkInv ==
  ASSUME DropInv, NEW t \in Threads, GetUnmark(t)
  PROVE  DropInv'
<1>1. /\ pc[t] = "gunmark" /\ UNCHANGED <<old, got>> /\ noRefs /\ own[t] = Nil
      /\ pc'[t] \in {"idle", "gdec"} /\ got[t] \in Ptr
  BY DEF GetUnmark, DropInv, DropTypeOK, GetOwnsNothing
<1>2. Alone(t)
  <2>1. slot' = slot \/ slot' = Plain(got[t])
    BY DEF GetUnmark
  <2>2. slot' \in [obj : Ptr, mark : BOOLEAN]
    <3>1. slot \in [obj : Ptr, mark : BOOLEAN] /\ own[t] \in Ptr /\ got[t] \in Ptr
      BY DEF DropInv, DropTypeOK
    <3>. QED  BY <2>1, <3>1, PointerType
  <2>3. own' \in [Threads -> Ptr] /\ \A u \in Threads \ {t} : own'[u] = own[u]
    BY DEF GetUnmark, DropInv, DropTypeOK
  <2>4. /\ pc' \in [Threads -> {"idle", "sread", "scas", "sdec", "gread", "gmark",
                               "ginc", "gunmark", "gdec"}]
        /\ \A u \in Threads \ {t} : pc'[u] = pc[u]
    BY DEF GetUnmark, DropInv, DropTypeOK
  <2>. QED  BY <1>1, <2>2, <2>3, <2>4 DEF Alone, DropInv, DropTypeOK
<1>3. CASE slot = Marked(got[t]) /\ slot' = Plain(got[t])
           /\ own' = [own EXCEPT ![t] = got[t]] /\ pc'[t] = "idle"
  <2>1. /\ slot.obj = got[t] /\ slot.mark /\ slot'.obj = got[t] /\ ~slot'.mark
        /\ own'[t] = got[t]
    BY <1>3 DEF Plain, Marked, DropInv, DropTypeOK
  <2>2. \A o \in Objs : Share(t, o)' + InSlot(o)' = Share(t, o) + InSlot(o)
    BY <1>1, <1>2, <1>3, <2>1, ShareIs, SlotIs, NilAssumption DEF One
  <2>3. \A o \in Objs : refs'[o] = refs[o] + (Share(t, o)' + InSlot(o)')
                                           - (Share(t, o) + InSlot(o))
    BY <1>1, <2>2, NoRefsEffect, ShareCounts DEF One, InSlot
  <2>4. MarkHasOwner'
    BY <2>1 DEF MarkHasOwner
  <2>. QED  BY <1>2, <1>3, <2>3, <2>4, <1>1, NoRefsEffect, StepOf
<1>4. CASE slot # Marked(got[t]) /\ slot' = slot /\ own' = own /\ pc'[t] = "gdec"
  <2>1. \A o \in Objs : Share(t, o)' = Share(t, o) /\ InSlot(o)' = InSlot(o)
    BY <1>1, <1>4, ShareIs DEF One, InSlot, Plain
  <2>2. \A o \in Objs : refs'[o] = refs[o] + (Share(t, o)' + InSlot(o)')
                                           - (Share(t, o) + InSlot(o))
    BY <1>1, <2>1, NoRefsEffect, ShareCounts DEF One, InSlot
  <2>3. ~(slot.mark /\ got[t] = slot.obj)
    BY <1>4, MarkedIs DEF DropInv, DropTypeOK
  <2>4. MarkHasOwner'
    BY <1>2, <1>4, <2>3, MarkStays
  <2>. QED  BY <1>1, <1>2, <1>4, <2>2, <2>4, NoRefsEffect, StepOf
<1>. QED  BY <1>3, <1>4 DEF GetUnmark, DropInv, DropTypeOK

LEMMA GetDecrefInv ==
  ASSUME DropInv, NEW t \in Threads, GetDecref(t)
  PROVE  DropInv'
<1>1. /\ pc[t] = "gdec" /\ got[t] \in Ptr /\ pc'[t] = "idle" /\ own[t] = Nil
      /\ own'[t] = got[t] /\ UNCHANGED <<slot, old, got>> /\ Decref(got[t])
  BY DEF GetDecref, DropInv, DropTypeOK, GetOwnsNothing
<1>2. Alone(t)
  BY <1>1 DEF GetDecref, Alone, DropInv, DropTypeOK
<1>3. got[t] \in Objs => refs[got[t]] > 0
  BY <1>1, ShareIs, Referred DEF One
<1>4. /\ refs' \in [Objs -> Nat] /\ AliveExact' /\ alive' \subseteq Objs
      /\ \A o \in Objs : refs'[o] = refs[o] - One(got[t] = o)
  BY <1>1, <1>3, DecrefEffect DEF DropInv
<1>5. \A o \in Objs : Share(t, o)' = Share(t, o) - One(got[t] = o) /\ InSlot(o)' = InSlot(o)
  BY <1>1, ShareIs, NilAssumption DEF One, InSlot, Plain
<1>6. \A o \in Objs : refs'[o] = refs[o] + (Share(t, o)' + InSlot(o)')
                                         - (Share(t, o) + InSlot(o))
  BY <1>4, <1>5, ShareCounts DEF One, InSlot, DropInv, DropTypeOK
<1>7. MarkHasOwner'
  BY <1>1, <1>2, MarkStays
<1>. QED  BY <1>1, <1>2, <1>4, <1>6, <1>7, StepOf

-----------------------------------------------------------------------------
(* The theorems.                                                            *)

LEMMA DropInitInv == DropInit => DropInv
<1>. SUFFICES ASSUME DropInit
     PROVE  DropInv
  OBVIOUS
<1>1. DropTypeOK /\ AliveExact /\ GetOwnsNothing /\ MarkHasOwner
  BY DEF DropInit, DropTypeOK, AliveExact, GetOwnsNothing, MarkHasOwner, Plain, Ptr
<1>2. ASSUME NEW o \in Objs
      PROVE  refs[o] = Total(o) + InSlot(o)
  <2>1. /\ Owners(o) = {} /\ Setters(o) = {} /\ Droppers(o) = {}
        /\ Carriers(o) = {} /\ Takers(o) = {}
    BY NilAssumption DEF DropInit, Owners, Setters, Droppers, Carriers, Takers
  <2>2. InSlot(o) = 0
    BY NilAssumption DEF DropInit, InSlot, Plain, One
  <2>. QED  BY <2>1, <2>2, FS_EmptySet DEF DropInit, Total
<1>3. RefsExact
  BY <1>2, Exactly
<1>. QED  BY <1>1, <1>3 DEF DropInv

LEMMA StepInv == DropInv /\ [DropNext]_dropVars => DropInv'
<1>. SUFFICES ASSUME DropInv, [DropNext]_dropVars
     PROVE  DropInv'
  OBVIOUS
<1>1. CASE UNCHANGED dropVars
  BY <1>1 DEF dropVars, DropInv, DropTypeOK, AliveExact, GetOwnsNothing, RefsExact, MarkHasOwner,
              Carriers, Count
<1>2. CASE DropNext
  <2>1. PICK t \in Threads : Create(t) \/ Forget(t) \/ SetSteps(t) \/ GetSteps(t)
    BY <1>2 DEF DropNext
  <2>2. CASE Create(t) \/ Forget(t)
    BY <2>2, CreateInv, ForgetInv
  <2>3. CASE SetSteps(t)
    BY <2>3, SetIncrefInv, SetReadInv, SetCasInv, SetDecrefInv DEF SetSteps
  <2>4. CASE GetSteps(t)
    BY <2>4, GetReadInv, GetMarkInv, GetIncrefInv, GetUnmarkInv, GetDecrefInv DEF GetSteps
  <2>. QED  BY <2>1, <2>2, <2>3, <2>4
<1>. QED  BY <1>1, <1>2

THEOREM Invariant == DropSpec => []DropInv
<1>1. DropInit => DropInv
  BY DropInitInv
<1>2. DropInv /\ [DropNext]_dropVars => DropInv'
  BY StepInv
<1>. QED  BY <1>1, <1>2, PTL DEF DropSpec

\* Every count is exact: whatever set() and get() calls interleave, and also
\* where an address is freed and used again, no reference of the drop is lost
\* or dropped twice.
THEOREM CountsHold == DropSpec => []RefsExact
<1>1. DropInv => RefsExact
  BY DEF DropInv
<1>. QED  BY <1>1, Invariant, PTL

\* A mark never stays behind when its get() is gone.
THEOREM MarksAreRemoved == DropSpec => []MarkHasOwner
<1>1. DropInv => MarkHasOwner
  BY DEF DropInv
<1>. QED  BY <1>1, Invariant, PTL

\* Nothing is used after it was freed: whoever owns, or is about to count up,
\* an object has a reference, or the drop has, that keeps it allocated.
THEOREM NothingUsedFreed == DropSpec => []NoUseAfterFree
<1>1. ASSUME DropInv
      PROVE  NoUseAfterFree
  <2>1. ASSUME NEW t \in Threads
        PROVE  own[t] \in alive \cup {Nil}
    <3>1. CASE own[t] \in Objs
      BY <1>1, <3>1, ShareIs, Referred DEF One
    <3>. QED  BY <1>1, <3>1 DEF DropInv, DropTypeOK, Ptr
  <2>2. ASSUME NEW t \in Threads, pc[t] \in {"ginc", "gunmark"}
        PROVE  got[t] \in alive \cup {Nil}
    <3>1. CASE got[t] \in Objs
      BY <1>1, <2>2, <3>1, ShareIs, Referred DEF One
    <3>. QED  BY <1>1, <3>1 DEF DropInv, DropTypeOK, Ptr
  <2>3. slot.obj \in alive \cup {Nil}
    <3>1. CASE slot.mark
      BY <1>1, <2>2, <3>1 DEF DropInv, MarkHasOwner
    <3>2. CASE ~slot.mark /\ slot.obj \in Objs
      <4>1. InSlot(slot.obj) > 0
        BY <1>1, <3>2, PlainIs DEF InSlot, One, DropInv, DropTypeOK
      <4>2. refs[slot.obj] > 0
        <5>1. refs[slot.obj] = Total(slot.obj) + InSlot(slot.obj)
          BY <1>1, <3>2, Exactly DEF DropInv
        <5>2. Total(slot.obj) \in Nat /\ InSlot(slot.obj) = 1
          BY <3>2, <4>1, CountsType DEF InSlot, One
        <5>. QED  BY <5>1, <5>2
      <4>. QED  BY <1>1, <3>2, <4>2 DEF DropInv, AliveExact
    <3>. QED  BY <1>1, <3>1, <3>2 DEF DropInv, DropTypeOK, Ptr
  <2>. QED  BY <2>1, <2>2, <2>3 DEF NoUseAfterFree
<1>. QED  BY <1>1, Invariant, PTL

-----------------------------------------------------------------------------
(***************************************************************************)
(* SafeWorker, for any threads, addresses and numbers of jobs: its gate    *)
(* is never shut on a job that nobody is going to announce, a worker that  *)
(* stops has done what it was asked to, and the lock-free list is a        *)
(* first-in-first-out queue although addresses are used again.             *)
(***************************************************************************)

\* A job in the list that the worker is not about to take was announced at
\* the gate since it was last shut, or is going to be.
Announced ==
  head # NULL /\ flag = 0 /\ tpc \notin {"take", "grab"} =>
    \E p \in Producers : ppc[p] = "open"

\* Whoever finds the gate shut raises the semaphore the worker waits for.
Raised ==
  tpc = "down" /\ flag > 0 => sem > 0 \/ \E p \in Producers : ppc[p] = "up"

\* The worker looks at quit_ only between two runs of the list.
Drained ==
  /\ tpc \notin {"flip", "run", "delete"} => flip = <<>>
  /\ tpc = "delete" => flip # <<>>
  /\ tpc = "stopped" => quit
  /\ quit => \E i \in DOMAIN ran : ran[i] = QuitJob

WorkerInv == WorkerTypeOK /\ Announced /\ Raised /\ Drained

LEMMA QuitJobIsJob == QuitJob \in JobIds
  BY OwnerAssumption, MaxJobsAssumption DEF QuitJob, JobIds

LEMMA WorkerInitInv == WorkerInit => WorkerInv
<1>. SUFFICES ASSUME WorkerInit PROVE WorkerInv
  OBVIOUS
<1>1. WorkerTypeOK
  <2>1. job \in [Addrs -> JobIds]
    BY QuitJobIsJob DEF WorkerInit
  <2>2. added \in [Producers -> 0..MaxJobs]
    BY MaxJobsAssumption DEF WorkerInit
  <2>3. flip \in Seq(Addrs) /\ ran \in Seq(JobIds)
    BY DEF WorkerInit
  <2>. QED  BY <2>1, <2>2, <2>3 DEF WorkerInit, WorkerTypeOK
<1>2. Announced /\ Raised /\ Drained
  BY DEF WorkerInit, Announced, Raised, Drained
<1>. QED  BY <1>1, <1>2 DEF WorkerInv

-----------------------------------------------------------------------------
(* The steps of a producer.                                                 *)

\* A new job is announced only when it is in the list.
LEMMA NewInv ==
  ASSUME WorkerInv, NEW p \in Producers, New(p)
  PROVE  WorkerInv'
<1>1. WorkerTypeOK'
  <2>1. added'[p] \in 0..MaxJobs /\ <<p, added[p] + 1>> \in JobIds
    BY MaxJobsAssumption DEF New, WorkerInv, WorkerTypeOK, JobIds
  <2>2. added' \in [Producers -> 0..MaxJobs]
    BY <2>1 DEF New, WorkerInv, WorkerTypeOK
  <2>3. /\ job' \in [Addrs -> JobIds] /\ live' \subseteq Addrs
        /\ node' \in [Producers -> Addrs \cup {NULL}]
        /\ next' \in [Addrs -> Addrs \cup {NULL}]
    BY <2>1 DEF New, WorkerInv, WorkerTypeOK
  <2>. QED  BY <2>2, <2>3 DEF New, WorkerInv, WorkerTypeOK, gateVars, workerVars
<1>2. Announced' /\ Raised'
  BY DEF New, WorkerInv, WorkerTypeOK, Announced, Raised, gateVars, workerVars
<1>3. Drained'
  BY DEF New, WorkerInv, Drained, gateVars, workerVars
<1>. QED  BY <1>1, <1>2, <1>3 DEF WorkerInv

LEMMA LinkInv ==
  ASSUME WorkerInv, NEW p \in Producers, Link(p)
  PROVE  WorkerInv'
<1>1. WorkerTypeOK'
  BY DEF Link, WorkerInv, WorkerTypeOK, gateVars, workerVars
<1>2. Announced' /\ Raised'
  BY DEF Link, WorkerInv, WorkerTypeOK, Announced, Raised, gateVars, workerVars
<1>3. Drained'
  BY DEF Link, WorkerInv, Drained, gateVars, workerVars
<1>. QED  BY <1>1, <1>2, <1>3 DEF WorkerInv

\* The job is in the list, and its producer is going to announce it.
LEMMA PushInv ==
  ASSUME WorkerInv, NEW p \in Producers, Push(p)
  PROVE  WorkerInv'
<1>1. WorkerTypeOK'
  BY DEF Push, WorkerInv, WorkerTypeOK, gateVars, workerVars
<1>2. Announced'
  <2>1. CASE head = next[node[p]]
    BY <2>1 DEF Push, WorkerInv, WorkerTypeOK, Announced
  <2>2. CASE head # next[node[p]]
    BY <2>2 DEF Push, WorkerInv, WorkerTypeOK, Announced, gateVars, workerVars
  <2>. QED  BY <2>1, <2>2
<1>3. Raised'
  BY DEF Push, WorkerInv, WorkerTypeOK, Raised, gateVars, workerVars
<1>4. Drained'
  BY DEF Push, WorkerInv, Drained, workerVars
<1>. QED  BY <1>1, <1>2, <1>3, <1>4 DEF WorkerInv

\* The gate is open; who finds it shut has still to raise the semaphore.
LEMMA OpenGateInv ==
  ASSUME WorkerInv, NEW p \in Producers, OpenGate(p)
  PROVE  WorkerInv'
<1>1. WorkerTypeOK'
  BY DEF OpenGate, WorkerInv, WorkerTypeOK, queueVars, workerVars
<1>2. Announced'
  BY DEF OpenGate, WorkerInv, WorkerTypeOK, Announced
<1>3. Raised'
  <2>1. CASE flag = 0
    BY <2>1 DEF OpenGate, WorkerInv, WorkerTypeOK, Raised
  <2>2. CASE flag > 0
    BY <2>2 DEF OpenGate, WorkerInv, WorkerTypeOK, Raised, workerVars
  <2>. QED  BY <2>1, <2>2 DEF WorkerInv, WorkerTypeOK
<1>4. Drained'
  BY DEF OpenGate, WorkerInv, Drained, workerVars
<1>. QED  BY <1>1, <1>2, <1>3, <1>4 DEF WorkerInv

LEMMA UpInv ==
  ASSUME WorkerInv, NEW p \in Producers, Up(p)
  PROVE  WorkerInv'
<1>1. WorkerTypeOK'
  BY DEF Up, WorkerInv, WorkerTypeOK, queueVars, workerVars
<1>2. Announced' /\ Raised'
  BY DEF Up, WorkerInv, WorkerTypeOK, Announced, Raised, queueVars, workerVars
<1>3. Drained'
  BY DEF Up, WorkerInv, Drained, workerVars
<1>. QED  BY <1>1, <1>2, <1>3 DEF WorkerInv

-----------------------------------------------------------------------------
(* The steps of the worker.                                                 *)

\* It stops only when it was told to.
LEMMA LoopInv ==
  ASSUME WorkerInv, Loop
  PROVE  WorkerInv'
<1>1. WorkerTypeOK'
  BY DEF Loop, WorkerInv, WorkerTypeOK, queueVars, gateVars, addVars
<1>2. Announced' /\ Raised'
  BY DEF Loop, WorkerInv, WorkerTypeOK, Announced, Raised, queueVars, gateVars, addVars
<1>3. Drained'
  BY DEF Loop, WorkerInv, Drained
<1>. QED  BY <1>1, <1>2, <1>3 DEF WorkerInv

LEMMA ReadFlagInv ==
  ASSUME WorkerInv, ReadFlag
  PROVE  WorkerInv'
<1>1. WorkerTypeOK'
  BY DEF ReadFlag, WorkerInv, WorkerTypeOK, queueVars, gateVars, addVars
<1>2. Announced' /\ Raised'
  BY DEF ReadFlag, WorkerInv, WorkerTypeOK, Announced, Raised, queueVars, gateVars, addVars
<1>3. Drained'
  BY DEF ReadFlag, WorkerInv, Drained
<1>. QED  BY <1>1, <1>2, <1>3 DEF WorkerInv

\* The gate is shut by somebody who goes on to take the list, or it was shut
\* before.
LEMMA ShutInv ==
  ASSUME WorkerInv, Shut
  PROVE  WorkerInv'
<1>1. WorkerTypeOK'
  <2>1. pinged' \in BOOLEAN
    BY Zenon, PingAssumption DEF Shut, Passed, Timed, WorkerInv, WorkerTypeOK
  <2>. QED  BY <2>1 DEF Shut, WorkerInv, WorkerTypeOK, queueVars, addVars
<1>2. Announced'
  <2>1. CASE flag = oflag /\ oflag > 0
    BY <2>1 DEF Shut, Announced
  <2>2. CASE flag = oflag /\ ~ (oflag > 0)
    BY <2>2 DEF Shut, WorkerInv, WorkerTypeOK, Announced, queueVars, addVars
  <2>3. CASE flag # oflag
    BY <2>3 DEF Shut, WorkerInv, Announced, queueVars, addVars
  <2>. QED  BY <2>1, <2>2, <2>3
<1>3. Raised'
  BY DEF Shut, Raised
<1>4. Drained'
  BY DEF Shut, WorkerInv, Drained
<1>. QED  BY <1>1, <1>2, <1>3, <1>4 DEF WorkerInv

LEMMA DownInv ==
  ASSUME WorkerInv, Down
  PROVE  WorkerInv'
<1>1. WorkerTypeOK'
  BY DEF Down, WorkerInv, WorkerTypeOK, queueVars, addVars
<1>2. Announced' /\ Raised'
  BY DEF Down, WorkerInv, WorkerTypeOK, Announced, Raised, queueVars, addVars
<1>3. Drained'
  BY DEF Down, WorkerInv, Drained
<1>. QED  BY <1>1, <1>2, <1>3 DEF WorkerInv

LEMMA TimeOutInv ==
  ASSUME WorkerInv, TimeOut
  PROVE  WorkerInv'
<1>1. WorkerTypeOK'
  BY DEF TimeOut, WorkerInv, WorkerTypeOK, queueVars, gateVars, addVars
<1>2. Announced' /\ Raised'
  BY DEF TimeOut, Announced, Raised
<1>3. Drained'
  BY DEF TimeOut, WorkerInv, Drained
<1>. QED  BY <1>1, <1>2, <1>3 DEF WorkerInv

LEMMA TakeInv ==
  ASSUME WorkerInv, Take
  PROVE  WorkerInv'
<1>1. WorkerTypeOK'
  BY DEF Take, WorkerInv, WorkerTypeOK, queueVars, gateVars, addVars
<1>2. Announced' /\ Raised'
  BY DEF Take, Announced, Raised
<1>3. Drained'
  BY DEF Take, WorkerInv, Drained
<1>. QED  BY <1>1, <1>2, <1>3 DEF WorkerInv

\* The list is empty once it is taken.
LEMMA GrabInv ==
  ASSUME WorkerInv, Grab
  PROVE  WorkerInv'
<1>1. WorkerTypeOK'
  BY DEF Grab, WorkerInv, WorkerTypeOK, gateVars, addVars
<1>2. Announced' /\ Raised'
  BY DEF Grab, Announced, Raised
<1>3. Drained'
  BY DEF Grab, WorkerInv, Drained
<1>. QED  BY <1>1, <1>2, <1>3 DEF WorkerInv

LEMMA Reverse1Inv ==
  ASSUME WorkerInv, Reverse1
  PROVE  WorkerInv'
<1>1. WorkerTypeOK'
  <2>1. CASE whead # NULL
    <3>1. flip' \in Seq(Addrs)
      <4>1. <<whead>> \in Seq(Addrs) /\ flip \in Seq(Addrs)
        BY <2>1 DEF WorkerInv, WorkerTypeOK
      <4>. QED  BY <2>1, <4>1, ConcatProperties DEF Reverse1
    <3>2. whead' \in Addrs \cup {NULL}
      BY <2>1 DEF Reverse1, WorkerInv, WorkerTypeOK
    <3>. QED
      BY <2>1, <3>1, <3>2 DEF Reverse1, WorkerInv, WorkerTypeOK, queueVars, gateVars, addVars
  <2>2. CASE whead = NULL
    BY <2>2 DEF Reverse1, WorkerInv, WorkerTypeOK, queueVars, gateVars, addVars
  <2>. QED  BY <2>1, <2>2
<1>2. Announced' /\ Raised'
  BY DEF Reverse1, WorkerInv, WorkerTypeOK, Announced, Raised, queueVars, gateVars, addVars
<1>3. Drained'
  BY DEF Reverse1, WorkerInv, Drained
<1>. QED  BY <1>1, <1>2, <1>3 DEF WorkerInv

\* quit_ is set by the callback of quit()'s job.
LEMMA CallInv ==
  ASSUME WorkerInv, Call
  PROVE  WorkerInv'
<1>. DEFINE j == job[Head(flip)]
<1>0. j \in JobIds /\ ran' = Append(ran, j)
  BY DEF Call, WorkerInv, WorkerTypeOK
<1>1. WorkerTypeOK'
  <2>1. ran' \in Seq(JobIds)
    BY <1>0 DEF WorkerInv, WorkerTypeOK
  <2>2. quit' \in BOOLEAN
    BY DEF Call, WorkerInv, WorkerTypeOK
  <2>. QED  BY <2>1, <2>2 DEF Call, WorkerInv, WorkerTypeOK, queueVars, gateVars, addVars
<1>2. Announced' /\ Raised'
  BY DEF Call, WorkerInv, WorkerTypeOK, Announced, Raised, queueVars, gateVars, addVars
<1>3. Drained'
  <2>1. ASSUME quit'
        PROVE  \E i \in DOMAIN ran' : ran'[i] = QuitJob
    <3>1. CASE quit
      <4>1. PICK i \in DOMAIN ran : ran[i] = QuitJob
        BY <3>1 DEF WorkerInv, Drained
      <4>2. i \in DOMAIN ran' /\ ran'[i] = ran[i]
        BY <1>0, <4>1 DEF WorkerInv, WorkerTypeOK
      <4>. QED  BY <4>1, <4>2
    <3>2. CASE j = QuitJob
      <4>1. Len(ran) + 1 \in DOMAIN ran' /\ ran'[Len(ran) + 1] = j
        BY <1>0 DEF WorkerInv, WorkerTypeOK
      <4>. QED  BY <3>2, <4>1
    <3>. QED  BY <2>1, <3>1, <3>2 DEF Call
  <2>2. tpc' = "delete" /\ flip' # <<>>
    BY DEF Call
  <2>. QED  BY <2>1, <2>2 DEF Drained
<1>. QED  BY <1>1, <1>2, <1>3 DEF WorkerInv

LEMMA DeleteInv ==
  ASSUME WorkerInv, Delete
  PROVE  WorkerInv'
<1>1. WorkerTypeOK'
  <2>1. flip' \in Seq(Addrs)
    BY DEF Delete, WorkerInv, WorkerTypeOK, Drained
  <2>. QED  BY <2>1 DEF Delete, WorkerInv, WorkerTypeOK, gateVars, addVars
<1>2. Announced' /\ Raised'
  BY DEF Delete, WorkerInv, WorkerTypeOK, Announced, Raised, gateVars, addVars
<1>3. Drained'
  BY DEF Delete, WorkerInv, Drained
<1>. QED  BY <1>1, <1>2, <1>3 DEF WorkerInv

LEMMA ReturnInv ==
  ASSUME WorkerInv, Return
  PROVE  WorkerInv'
<1>1. WorkerTypeOK'
  BY DEF Return, WorkerInv, WorkerTypeOK, queueVars, gateVars, addVars
<1>2. Announced' /\ Raised'
  BY DEF Return, WorkerInv, WorkerTypeOK, Announced, Raised, queueVars, gateVars, addVars
<1>3. Drained'
  BY DEF Return, WorkerInv, Drained
<1>. QED  BY <1>1, <1>2, <1>3 DEF WorkerInv

-----------------------------------------------------------------------------

LEMMA StutterInv ==
  ASSUME WorkerInv, UNCHANGED safeVars
  PROVE  WorkerInv'
  BY DEF safeVars, WorkerInv, WorkerTypeOK, Announced, Raised, Drained

LEMMA NextInv == WorkerInv /\ [WorkerNext]_safeVars => WorkerInv'
<1>. SUFFICES ASSUME WorkerInv, [WorkerNext]_safeVars PROVE WorkerInv'
  OBVIOUS
<1>1. CASE Worker
  BY <1>1, LoopInv, ReadFlagInv, ShutInv, DownInv, TakeInv, GrabInv,
     Reverse1Inv, CallInv, DeleteInv, ReturnInv DEF Worker
<1>2. CASE TimeOut
  BY <1>2, TimeOutInv
<1>3. CASE Finished \/ UNCHANGED safeVars
  BY <1>3, StutterInv DEF Finished
<1>4. ASSUME NEW p \in Producers, New(p) \/ Adding(p)
      PROVE  WorkerInv'
  BY <1>4, NewInv, LinkInv, PushInv, OpenGateInv, UpInv DEF Adding
<1>. QED  BY <1>1, <1>2, <1>3, <1>4 DEF WorkerNext

\* The gate, the list and quit_ agree at every step.
THEOREM WorkerInvariance == WorkerSpec => []WorkerInv
  BY WorkerInitInv, NextInv, PTL DEF WorkerSpec

\* Every variable of the worker keeps its type.
THEOREM WorkerTypeCorrect == WorkerSpec => []WorkerTypeOK
  BY WorkerInvariance, PTL DEF WorkerInv

\* The worker never sleeps on jobs without somebody on the way to wake it.
THEOREM NoWakeupIsLost == WorkerSpec => []NoLostWakeup
<1>1. WorkerInv => NoLostWakeup
  BY DEF WorkerInv, WorkerTypeOK, Announced, Raised, NoLostWakeup
<1>. QED  BY <1>1, WorkerInvariance, PTL

\* A worker that stops was told to, and leaves no job half way.
THEOREM QuittingDrains == WorkerSpec => []QuitDrains
<1>1. WorkerInv => QuitDrains
  BY DEF WorkerInv, Drained, QuitDrains
<1>. QED  BY <1>1, WorkerInvariance, PTL

-----------------------------------------------------------------------------
(* The list as ListFrom walks it.                                           *)

\* A set of numbers that is not empty has a least one.
LEMMA Least ==
  ASSUME NEW S \in SUBSET Nat, S # {}
  PROVE  \E m \in S : \A k \in S : m <= k
<1>. DEFINE R == OpToRel(<, Nat)
<1>1. IsWellFoundedOn(R, Nat)
  BY ONLY NatLessThanWellFounded, Zenon
<1>2. \A k, m \in Nat : k < m => <<k, m>> \in R
  BY DEF OpToRel
<1>. HIDE DEF R
<1>3. PICK m \in S : \A k \in S : <<k, m>> \notin R
  BY <1>1, WFMin
<1>4. ASSUME NEW k \in S
      PROVE  m <= k
  <2>1. m \in Nat /\ k \in Nat /\ ~(k < m)
    BY <1>2, <1>3
  <2>. QED  BY <2>1
<1>. QED  BY <1>4

\* The nodes from a on are s.
Linked(nx, a, s) ==
  /\ s \in Seq(Addrs)
  /\ a = IF s = <<>> THEN NULL ELSE s[1]
  /\ \A i \in 1..Len(s) : nx[s[i]] = IF i = Len(s) THEN NULL ELSE s[i + 1]

Distinct(s) == \A i, k \in 1..Len(s) : s[i] = s[k] => i = k

\* There are no more different nodes than addresses.
LEMMA DistinctLen ==
  ASSUME NEW s \in Seq(Addrs), Distinct(s)
  PROVE  Len(s) <= Cardinality(Addrs) /\ Cardinality(Addrs) \in Nat
<1>1. s \in [1..Len(s) -> Addrs] /\ Len(s) \in Nat
  OBVIOUS
<1>2. s \in Injection(1..Len(s), Addrs)
  BY <1>1 DEF Injection, IsInjective, Distinct
<1>3. Cardinality(1..Len(s)) <= Cardinality(Addrs)
  BY <1>2, AddrsAssumption, FS_Injection
<1>4. Cardinality(1..Len(s)) = Len(s)
  <2>1. 1 \in Int /\ Len(s) \in Int
    BY <1>1
  <2>2. Cardinality(1..Len(s)) = IF 1 > Len(s) THEN 0 ELSE Len(s) - 1 + 1
    BY <2>1, FS_Interval
  <2>. QED  BY <1>1, <2>2
<1>. QED  BY <1>3, <1>4, AddrsAssumption, FS_CardinalityType

\* One step of ListFrom.
ChainStep(a, f, n) ==
  IF n = 0 THEN IF a = NULL THEN <<>> ELSE <<a>>
  ELSE IF f[n - 1] = <<>> \/ next[Last(f[n - 1])] = NULL THEN f[n - 1]
       ELSE Append(f[n - 1], next[Last(f[n - 1])])

\* The recursive definition in ListFrom defines a function.
LEMMA ChainsExist ==
  ASSUME NEW a, NEW N \in Nat
  PROVE  \E f : f = [n \in 0..N |-> ChainStep(a, f, n)]
<1>. DEFINE P(m) == \E f : f = [n \in 0..m |-> ChainStep(a, f, n)]
            S == {m \in 0..N : ~P(m)}
<1>. SUFFICES ASSUME S # {} PROVE FALSE
  OBVIOUS
<1>1. PICK m \in S : \A k \in S : m <= k
  <2>1. S \in SUBSET Nat
    OBVIOUS
  <2>. HIDE DEF S
  <2>. QED  BY <2>1, Least
<1>2. m \in 0..N /\ ~P(m)
  BY <1>1
<1>3. CASE m = 0
  <2>. DEFINE f == [n \in 0..0 |-> ChainStep(a, <<>>, 0)]
  <2>1. \A g : ChainStep(a, g, 0) = ChainStep(a, <<>>, 0)
    BY DEF ChainStep
  <2>. DEFINE e == ChainStep(a, <<>>, 0)
  <2>. HIDE DEF e
  <2>2. f = [n \in 0..0 |-> ChainStep(a, f, n)]
    BY <2>1 DEF e
  <2>. QED  BY <1>2, <1>3, <2>2
<1>4. CASE m # 0
  <2>1. m - 1 \in 0..N /\ m - 1 < m
    BY <1>2, <1>4
  <2>2. m - 1 \notin S
    BY <1>1, <1>2, <2>1
  <2>3. PICK f : f = [n \in 0..(m - 1) |-> ChainStep(a, f, n)]
    BY <2>1, <2>2
  <2>. DEFINE e == ChainStep(a, f, m)
              h == [n \in 0..m |-> IF n = m THEN e ELSE f[n]]
  <2>. HIDE DEF e
  <2>4. h[m] = e /\ h = [n \in 0..m |-> h[n]] /\ \A n \in 0..(m - 1) : h[n] = f[n]
    BY <1>2
  <2>. HIDE DEF h
  <2>5. ASSUME NEW n \in 0..m
        PROVE  ChainStep(a, h, n) = ChainStep(a, f, n)
    <3>1. n # 0 => h[n - 1] = f[n - 1]
      <4>. SUFFICES ASSUME n # 0 PROVE h[n - 1] = f[n - 1]
        OBVIOUS
      <4>1. n - 1 \in 0..(m - 1)
        BY <1>2
      <4>. QED  BY <2>4, <4>1
    <3>. QED  BY <3>1 DEF ChainStep
  <2>6. ASSUME NEW n \in 0..m
        PROVE  h[n] = ChainStep(a, h, n)
    <3>1. CASE n = m
      BY <3>1, <2>4, <2>5 DEF e
    <3>2. CASE n # m
      <4>1. n \in 0..(m - 1)
        BY <1>2, <3>2
      <4>2. f[n] = ChainStep(a, f, n)
        BY <2>3, <4>1
      <4>. QED  BY <2>4, <2>5, <4>1, <4>2
    <3>. QED  BY <3>1, <3>2
  <2>7. h = [n \in 0..m |-> ChainStep(a, h, n)]
    BY <2>4, <2>6
  <2>. QED  BY <1>2, <2>7
<1>. QED  BY <1>3, <1>4

\* ListFrom(a) is the last of its chains.
LEMMA ListFromIs ==
  ASSUME NEW a, Cardinality(Addrs) \in Nat
  PROVE  \E f : /\ \A n \in 0..Cardinality(Addrs) : f[n] = ChainStep(a, f, n)
                /\ ListFrom(a) = f[Cardinality(Addrs)]
<1>. DEFINE Eqn(f) == f = [n \in 0..Cardinality(Addrs) |->
              IF n = 0 THEN IF a = NULL THEN <<>> ELSE <<a>>
              ELSE LET c == f[n - 1]
                   IN  IF c = <<>> \/ next[Last(c)] = NULL THEN c
                       ELSE Append(c, next[Last(c)])]
            f == CHOOSE f : Eqn(f)
<1>1. \E h : Eqn(h)
  <2>1. \A h, n : ChainStep(a, h, n) =
          IF n = 0 THEN IF a = NULL THEN <<>> ELSE <<a>>
          ELSE LET c == h[n - 1]
               IN  IF c = <<>> \/ next[Last(c)] = NULL THEN c
                   ELSE Append(c, next[Last(c)])
    BY DEF ChainStep
  <2>2. PICK h : h = [n \in 0..Cardinality(Addrs) |-> ChainStep(a, h, n)]
    BY ChainsExist
  <2>3. Eqn(h)
    BY <2>1, <2>2
  <2>. QED  BY <2>3
<1>2. Eqn(f)
  BY <1>1
<1>3. ListFrom(a) = f[Cardinality(Addrs)]
  BY DEF ListFrom
<1>. HIDE DEF f
<1>4. \A n \in 0..Cardinality(Addrs) : f[n] = ChainStep(a, f, n)
  BY <1>2 DEF ChainStep
<1>. QED  BY <1>3, <1>4

\* The list is what its nodes are.
LEMMA ListFromLinked ==
  ASSUME NEW a, NEW s, Linked(next, a, s), Distinct(s)
  PROVE  ListFrom(a) = s
<1>. DEFINE N == Cardinality(Addrs)
<1>1. s \in Seq(Addrs) /\ Len(s) \in Nat /\ N \in Nat /\ Len(s) <= N
  BY DistinctLen DEF Linked
<1>2. PICK f : /\ \A n \in 0..N : f[n] = ChainStep(a, f, n)
               /\ ListFrom(a) = f[N]
  BY <1>1, ListFromIs
<1>. HIDE DEF N
<1>. DEFINE L(n) == IF n + 1 <= Len(s) THEN n + 1 ELSE Len(s)
            S == {n \in 0..N : f[n] # SubSeq(s, 1, L(n))}
<1>3. S = {}
  <2>. SUFFICES ASSUME S # {} PROVE FALSE
    OBVIOUS
  <2>1. PICK m \in S : \A k \in S : m <= k
    <3>1. S \in SUBSET Nat
      OBVIOUS
    <3>. HIDE DEF S
    <3>. QED  BY <3>1, Least
  <2>2. m \in 0..N /\ m \in Nat /\ f[m] # SubSeq(s, 1, L(m)) /\ f[m] = ChainStep(a, f, m)
    BY <1>1, <1>2, <2>1
  <2>3. CASE s = <<>>
    <3>1. a = NULL /\ Len(s) = 0
      BY <2>3 DEF Linked
    <3>2. \A n \in 0..N : SubSeq(s, 1, L(n)) = <<>>
      BY <1>1, <3>1
    <3>3. CASE m = 0
      BY <2>2, <3>1, <3>2, <3>3 DEF ChainStep
    <3>4. CASE m # 0
      <4>1. m - 1 \in 0..N /\ m - 1 \notin S
        BY <1>1, <2>1, <2>2, <3>4
      <4>2. f[m - 1] = <<>>
        BY <3>2, <4>1
      <4>. QED  BY <2>2, <3>2, <3>4, <4>2 DEF ChainStep
    <3>. QED  BY <3>3, <3>4
  <2>4. CASE s # <<>>
    <3>1. Len(s) >= 1 /\ a = s[1] /\ a \in Addrs /\ a # NULL
      BY <1>1, <2>4, NullAssumption DEF Linked
    <3>2. CASE m = 0
      <4>1. SubSeq(s, 1, 1) = <<s[1]>>
        <5>1. 1 \in 1..Len(s)
          BY <1>1, <3>1
        <5>2. /\ SubSeq(s, 1, 1) \in Seq(Addrs) /\ Len(SubSeq(s, 1, 1)) = 1
              /\ SubSeq(s, 1, 1)[1] = s[1]
          BY <1>1, <5>1
        <5>3. \A b \in Addrs : <<b>> \in Seq(Addrs) /\ Len(<<b>>) = 1 /\ <<b>>[1] = b
          OBVIOUS
        <5>4. PICK b : b = s[1] /\ b \in Addrs
          BY <3>1
        <5>5. \A t, r \in Seq(Addrs) : Len(t) = 1 /\ Len(r) = 1 /\ t[1] = r[1] => t = r
          BY SeqEqual
        <5>6. SubSeq(s, 1, 1) = <<b>>
          BY <5>2, <5>3, <5>4, <5>5
        <5>. QED  BY <5>4, <5>6
      <4>2. L(m) = 1
        BY <1>1, <3>1, <3>2
      <4>. QED  BY <2>2, <3>1, <3>2, <4>1, <4>2 DEF ChainStep
    <3>3. CASE m # 0
      <4>1. m - 1 \in 0..N /\ m - 1 \notin S
        BY <1>1, <2>1, <2>2, <3>3
      <4>. DEFINE l == L(m - 1)
      <4>2. f[m - 1] = SubSeq(s, 1, l)
        BY <4>1
      <4>3. l \in 1..Len(s) /\ l = IF m <= Len(s) THEN m ELSE Len(s)
        BY <1>1, <2>2, <3>1, <3>3
      <4>. HIDE DEF l
      <4>4. /\ SubSeq(s, 1, l) \in Seq(Addrs) /\ Len(SubSeq(s, 1, l)) = l
            /\ SubSeq(s, 1, l)[l] = s[l]
        BY <1>1, <4>3
      <4>5. SubSeq(s, 1, l) # <<>> /\ Last(SubSeq(s, 1, l)) = s[l]
        BY <4>3, <4>4 DEF Last
      <4>6. next[s[l]] = IF l = Len(s) THEN NULL ELSE s[l + 1]
        BY <4>3 DEF Linked
      <4>7. CASE l = Len(s)
        <5>1. f[m] = SubSeq(s, 1, l)
          BY <2>2, <3>3, <4>2, <4>5, <4>6, <4>7 DEF ChainStep
        <5>2. L(m) = l
          BY <1>1, <2>2, <4>3, <4>7
        <5>. QED  BY <2>2, <5>1, <5>2
      <4>8. CASE l # Len(s)
        <5>1. l + 1 \in 1..Len(s) /\ s[l + 1] \in Addrs /\ l = m
          BY <1>1, <4>3, <4>8
        <5>2. f[m] = Append(SubSeq(s, 1, l), s[l + 1])
          BY <2>2, <3>3, <4>2, <4>5, <4>6, <4>8, <5>1, NullAssumption DEF ChainStep
        <5>3. L(m) = l + 1
          BY <1>1, <2>2, <5>1
        <5>4. SubSeq(s, 1, l + 1) = Append(SubSeq(s, 1, l), s[l + 1])
          BY <1>1, <4>3, <5>1
        <5>. QED  BY <2>2, <5>2, <5>3, <5>4
      <4>. QED  BY <4>7, <4>8
    <3>. QED  BY <3>2, <3>3
  <2>. QED  BY <2>3, <2>4
<1>4. f[N] = SubSeq(s, 1, L(N))
  <2>1. N \in 0..N /\ N \notin S
    BY <1>1, <1>3
  <2>. QED  BY <2>1
<1>5. L(N) = Len(s) /\ SubSeq(s, 1, Len(s)) = s
  BY <1>1
<1>. QED  BY <1>2, <1>4, <1>5

-----------------------------------------------------------------------------
(* The list with the part the worker has turned round.                      *)

\* What the worker has still to turn round, what it has turned round, and
\* what was added since.
Cat(u, f, s) == Reverse(u) \o f \o Reverse(s)

\* What Reverse returns.
LEMMA ReverseIs ==
  ASSUME NEW s \in Seq(Addrs)
  PROVE  /\ Reverse(s) \in Seq(Addrs) /\ Len(Reverse(s)) = Len(s)
         /\ \A i \in 1..Len(s) : Reverse(s)[i] = s[Len(s) - i + 1]
<1>1. Len(s) \in Nat /\ \A i \in 1..Len(s) : s[Len(s) - i + 1] \in Addrs
  <2>1. Len(s) \in Nat /\ \A i \in 1..Len(s) : s[i] \in Addrs
    OBVIOUS
  <2>2. \A i \in 1..Len(s) : Len(s) - i + 1 \in 1..Len(s)
    BY <2>1
  <2>. QED  BY <2>1, <2>2
<1>2. Reverse(s) \in [1..Len(s) -> Addrs]
  BY <1>1 DEF Reverse
<1>3. Reverse(s) \in Seq(Addrs) /\ Len(Reverse(s)) = Len(s)
  BY <1>1, <1>2
<1>. QED  BY <1>3 DEF Reverse

\* c is Cat(u, f, s), one element after the other.
CatOf(c, u, f, s) ==
  /\ c \in Seq(Addrs) /\ Len(c) = Len(u) + Len(f) + Len(s)
  /\ \A i \in 1..(Len(u) + Len(f) + Len(s)) :
       c[i] = IF i <= Len(u) THEN u[Len(u) - i + 1]
              ELSE IF i <= Len(u) + Len(f) THEN f[i - Len(u)]
              ELSE s[Len(s) - (i - Len(u) - Len(f)) + 1]

\* c is a \o b.
JoinOf(c, a, b) ==
  /\ c \in Seq(Addrs) /\ Len(c) = Len(a) + Len(b)
  /\ \A i \in 1..(Len(a) + Len(b)) :
       c[i] = IF i <= Len(a) THEN a[i] ELSE b[i - Len(a)]

\* What concatenation returns.
LEMMA JoinIs ==
  ASSUME NEW a \in Seq(Addrs), NEW b \in Seq(Addrs)
  PROVE  JoinOf(a \o b, a, b)
<1>1. PICK c : c = a \o b
  OBVIOUS
<1>2. /\ a \o b \in Seq(Addrs) /\ Len(a \o b) = Len(a) + Len(b)
      /\ \A i \in 1..(Len(a) + Len(b)) :
           (a \o b)[i] = IF i <= Len(a) THEN a[i] ELSE b[i - Len(a)]
  BY ConcatProperties
<1>3. JoinOf(c, a, b)
  BY <1>1, <1>2 DEF JoinOf
<1>. QED  BY <1>1, <1>3

\* What Cat returns.
LEMMA CatIs ==
  ASSUME NEW u \in Seq(Addrs), NEW f \in Seq(Addrs), NEW s \in Seq(Addrs)
  PROVE  CatOf(Cat(u, f, s), u, f, s)
<1>0. Len(u) \in Nat /\ Len(f) \in Nat /\ Len(s) \in Nat
  OBVIOUS
<1>1. PICK x : x = Reverse(u)
  OBVIOUS
<1>2. PICK y : y = Reverse(s)
  OBVIOUS
<1>3. /\ x \in Seq(Addrs) /\ Len(x) = Len(u)
      /\ \A i \in 1..Len(u) : x[i] = u[Len(u) - i + 1]
      /\ y \in Seq(Addrs) /\ Len(y) = Len(s)
      /\ \A i \in 1..Len(s) : y[i] = s[Len(s) - i + 1]
  BY <1>1, <1>2, ReverseIs
<1>4. PICK z : z = x \o f
  OBVIOUS
<1>5. /\ z \in Seq(Addrs) /\ Len(z) = Len(u) + Len(f)
      /\ \A i \in 1..(Len(u) + Len(f)) :
           z[i] = IF i <= Len(u) THEN x[i] ELSE f[i - Len(u)]
  <2>1. JoinOf(z, x, f)
    BY <1>3, <1>4, JoinIs
  <2>. QED  BY <1>3, <2>1 DEF JoinOf
<1>6. PICK c : c = z \o y
  OBVIOUS
<1>7. /\ c \in Seq(Addrs) /\ Len(c) = Len(u) + Len(f) + Len(s)
      /\ \A i \in 1..(Len(u) + Len(f) + Len(s)) :
           c[i] = IF i <= Len(u) + Len(f) THEN z[i] ELSE y[i - (Len(u) + Len(f))]
  <2>1. JoinOf(c, z, y)
    BY <1>3, <1>5, <1>6, JoinIs
  <2>. QED  BY <1>3, <1>5, <2>1 DEF JoinOf
<1>8. c = Cat(u, f, s)
  BY <1>1, <1>2, <1>4, <1>6 DEF Cat
<1>9. ASSUME NEW i \in 1..(Len(u) + Len(f) + Len(s))
      PROVE  c[i] = IF i <= Len(u) THEN u[Len(u) - i + 1]
                    ELSE IF i <= Len(u) + Len(f) THEN f[i - Len(u)]
                    ELSE s[Len(s) - (i - Len(u) - Len(f)) + 1]
  <2>1. CASE i <= Len(u)
    <3>1. i \in 1..Len(u) /\ i \in 1..(Len(u) + Len(f)) /\ i <= Len(u) + Len(f)
      BY <1>0, <2>1
    <3>2. c[i] = z[i] /\ z[i] = x[i] /\ x[i] = u[Len(u) - i + 1]
      BY <1>3, <1>5, <1>7, <2>1, <3>1
    <3>. QED  BY <2>1, <3>2
  <2>2. CASE ~(i <= Len(u)) /\ i <= Len(u) + Len(f)
    BY <1>0, <1>3, <1>5, <1>7, <2>2
  <2>3. CASE ~(i <= Len(u) + Len(f))
    <3>1. PICK k : k = i - (Len(u) + Len(f)) /\ k = i - Len(u) - Len(f)
      BY <1>0
    <3>2. k \in 1..Len(s) /\ ~(i <= Len(u))
      BY <1>0, <2>3, <3>1
    <3>3. c[i] = y[k]
      BY <1>7, <2>3, <3>1
    <3>4. y[k] = s[Len(s) - k + 1]
      BY <1>3, <3>2
    <3>. QED  BY <2>3, <3>1, <3>2, <3>3, <3>4
  <2>. QED  BY <2>1, <2>2, <2>3
<1>10. CatOf(c, u, f, s)
  BY <1>7, <1>9 DEF CatOf
<1>. QED  BY <1>8, <1>10

\* Sequences with the same nodes are the same.
LEMMA CatSame ==
  ASSUME NEW c \in Seq(Addrs), NEW d \in Seq(Addrs), Len(c) = Len(d),
         \A i \in 1..Len(c) : c[i] = d[i]
  PROVE  c = d
  BY SeqEqual

\* What Head and Tail return.
LEMMA TailIs ==
  ASSUME NEW s \in Seq(Addrs), s # <<>>
  PROVE  /\ Tail(s) \in Seq(Addrs) /\ Len(s) \in Nat \ {0}
         /\ Len(Tail(s)) = Len(s) - 1 /\ Head(s) = s[1] /\ s[1] \in Addrs
         /\ \A i \in 1..(Len(s) - 1) : Tail(s)[i] = s[i + 1]
<1>1. Len(s) \in Nat \ {0} /\ Head(s) = s[1] /\ s[1] \in Addrs
  BY EmptySeq
<1>. QED  BY <1>1, HeadTailProperties

\* A node put in front of a sequence.
LEMMA ConsIs ==
  ASSUME NEW a \in Addrs, NEW s \in Seq(Addrs)
  PROVE  /\ <<a>> \o s \in Seq(Addrs) /\ Len(<<a>> \o s) = Len(s) + 1
         /\ Len(s) \in Nat /\ (<<a>> \o s)[1] = a /\ <<a>> \o s # <<>>
         /\ \A i \in 2..(Len(s) + 1) : (<<a>> \o s)[i] = s[i - 1]
<1>1. <<a>> \in Seq(Addrs) /\ Len(<<a>>) = 1 /\ <<a>>[1] = a /\ Len(s) \in Nat
  OBVIOUS
<1>2. PICK b : b = <<a>>
  OBVIOUS
<1>3. b \in Seq(Addrs) /\ Len(b) = 1 /\ b[1] = a
  BY <1>1, <1>2
<1>4. /\ b \o s \in Seq(Addrs) /\ Len(b \o s) = 1 + Len(s)
      /\ \A i \in 1..(1 + Len(s)) :
           (b \o s)[i] = IF i <= 1 THEN b[i] ELSE s[i - 1]
  <2>1. JoinOf(b \o s, b, s)
    BY <1>3, JoinIs
  <2>. QED  BY <1>3, <2>1 DEF JoinOf
<1>5. PICK c : c = b \o s
  OBVIOUS
<1>6. /\ c \in Seq(Addrs) /\ Len(c) = Len(s) + 1 /\ c[1] = a
      /\ \A i \in 2..(Len(s) + 1) : c[i] = s[i - 1]
  BY <1>1, <1>3, <1>4, <1>5
<1>7. c # <<>>
  BY <1>1, <1>6
<1>. QED  BY <1>1, <1>2, <1>5, <1>6, <1>7

\* The empty sequence.
LEMMA EmptyIs == <<>> \in Seq(Addrs) /\ Len(<<>>) = 0
  OBVIOUS

\* The worker takes the list.
LEMMA CatGrab ==
  ASSUME NEW s \in Seq(Addrs)
  PROVE  Cat(s, <<>>, <<>>) = Cat(<<>>, <<>>, s)
<1>1. PICK e : e = <<>>
  OBVIOUS
<1>2. e \in Seq(Addrs) /\ Len(e) = 0 /\ Len(s) \in Nat
  BY <1>1, EmptyIs
<1>3. PICK c, d : c = Cat(s, e, e) /\ d = Cat(e, e, s)
  OBVIOUS
<1>4. /\ c \in Seq(Addrs) /\ Len(c) = Len(s) /\ d \in Seq(Addrs) /\ Len(d) = Len(s)
      /\ \A i \in 1..Len(s) : c[i] = s[Len(s) - i + 1] /\ d[i] = s[Len(s) - i + 1]
  <2>1. /\ c \in Seq(Addrs) /\ Len(c) = Len(s) + Len(e) + Len(e)
        /\ \A i \in 1..(Len(s) + Len(e) + Len(e)) :
             c[i] = IF i <= Len(s) THEN s[Len(s) - i + 1]
                    ELSE IF i <= Len(s) + Len(e) THEN e[i - Len(s)]
                    ELSE e[Len(e) - (i - Len(s) - Len(e)) + 1]
    <3>1. CatOf(c, s, e, e)
      BY <1>2, <1>3, CatIs
    <3>. QED  BY <3>1 DEF CatOf
  <2>2. /\ d \in Seq(Addrs) /\ Len(d) = Len(e) + Len(e) + Len(s)
        /\ \A i \in 1..(Len(e) + Len(e) + Len(s)) :
             d[i] = IF i <= Len(e) THEN e[Len(e) - i + 1]
                    ELSE IF i <= Len(e) + Len(e) THEN e[i - Len(e)]
                    ELSE s[Len(s) - (i - Len(e) - Len(e)) + 1]
    <3>1. CatOf(d, e, e, s)
      BY <1>2, <1>3, CatIs
    <3>. QED  BY <3>1 DEF CatOf
  <2>. QED  BY <1>2, <2>1, <2>2
<1>. QED  BY <1>1, <1>3, <1>4, CatSame

\* The worker turns one node round.
LEMMA CatTurn ==
  ASSUME NEW u \in Seq(Addrs), NEW f \in Seq(Addrs), NEW s \in Seq(Addrs), u # <<>>
  PROVE  Cat(Tail(u), <<u[1]>> \o f, s) = Cat(u, f, s)
<1>0. Len(u) \in Nat \ {0} /\ Len(f) \in Nat /\ Len(s) \in Nat
  BY TailIs
<1>1. PICK v, g : v = Tail(u) /\ g = <<u[1]>> \o f
  OBVIOUS
<1>2. /\ v \in Seq(Addrs) /\ Len(v) = Len(u) - 1 /\ u[1] \in Addrs
      /\ \A i \in 1..(Len(u) - 1) : v[i] = u[i + 1]
  BY <1>1, TailIs
<1>3. /\ g \in Seq(Addrs) /\ Len(g) = Len(f) + 1 /\ g[1] = u[1]
      /\ \A i \in 2..(Len(f) + 1) : g[i] = f[i - 1]
  BY <1>1, <1>2, ConsIs
<1>4. PICK c, d : c = Cat(v, g, s) /\ d = Cat(u, f, s)
  OBVIOUS
<1>5. /\ c \in Seq(Addrs) /\ Len(c) = Len(v) + Len(g) + Len(s)
      /\ \A i \in 1..(Len(v) + Len(g) + Len(s)) :
           c[i] = IF i <= Len(v) THEN v[Len(v) - i + 1]
                  ELSE IF i <= Len(v) + Len(g) THEN g[i - Len(v)]
                  ELSE s[Len(s) - (i - Len(v) - Len(g)) + 1]
  <2>1. CatOf(c, v, g, s)
    BY <1>2, <1>3, <1>4, CatIs
  <2>. QED  BY <2>1 DEF CatOf
<1>6. /\ d \in Seq(Addrs) /\ Len(d) = Len(u) + Len(f) + Len(s)
      /\ \A i \in 1..(Len(u) + Len(f) + Len(s)) :
           d[i] = IF i <= Len(u) THEN u[Len(u) - i + 1]
                  ELSE IF i <= Len(u) + Len(f) THEN f[i - Len(u)]
                  ELSE s[Len(s) - (i - Len(u) - Len(f)) + 1]
  <2>1. CatOf(d, u, f, s)
    BY <1>4, CatIs
  <2>. QED  BY <2>1 DEF CatOf
<1>7. Len(c) = Len(d)
  BY <1>0, <1>2, <1>3, <1>5, <1>6
<1>8. ASSUME NEW i \in 1..Len(d)
      PROVE  c[i] = d[i]
  <2>0. i \in 1..(Len(v) + Len(g) + Len(s)) /\ i \in 1..(Len(u) + Len(f) + Len(s))
    BY <1>5, <1>6, <1>7
  <2>1. CASE i < Len(u)
    <3>1. Len(v) - i + 1 \in 1..(Len(u) - 1) /\ i <= Len(v) /\ i <= Len(u)
          /\ (Len(v) - i + 1) + 1 = Len(u) - i + 1
      BY <1>0, <1>2, <2>0, <2>1
    <3>2. v[Len(v) - i + 1] = u[Len(u) - i + 1]
      BY <1>2, <3>1
    <3>. QED  BY <1>5, <1>6, <2>0, <3>1, <3>2
  <2>2. CASE i = Len(u)
    BY <1>0, <1>2, <1>3, <1>5, <1>6, <2>0, <2>2
  <2>3. CASE i > Len(u) /\ i <= Len(u) + Len(f)
    <3>1. i - Len(v) \in 2..(Len(f) + 1) /\ i - Len(v) - 1 = i - Len(u)
          /\ ~(i <= Len(v)) /\ i <= Len(v) + Len(g) /\ ~(i <= Len(u))
      BY <1>0, <1>2, <1>3, <2>0, <2>3
    <3>2. g[i - Len(v)] = f[i - Len(u)]
      BY <1>3, <3>1
    <3>. QED  BY <1>5, <1>6, <2>0, <2>3, <3>1, <3>2
  <2>4. CASE i > Len(u) + Len(f)
    <3>1. i - Len(v) - Len(g) = i - Len(u) - Len(f) /\ ~(i <= Len(v)) /\ ~(i <= Len(v) + Len(g))
          /\ ~(i <= Len(u))
      BY <1>0, <1>2, <1>3, <2>0, <2>4
    <3>2. c[i] = s[Len(s) - (i - Len(v) - Len(g)) + 1]
      BY <1>5, <2>0, <3>1
    <3>3. d[i] = s[Len(s) - (i - Len(u) - Len(f)) + 1]
      BY <1>6, <2>0, <2>4, <3>1
    <3>. QED  BY <3>1, <3>2, <3>3
  <2>. QED  BY <1>0, <2>0, <2>1, <2>2, <2>3, <2>4
<1>. QED  BY <1>1, <1>4, <1>5, <1>6, <1>7, <1>8, CatSame

\* A node is pushed on the list.
LEMMA CatPush ==
  ASSUME NEW u \in Seq(Addrs), NEW f \in Seq(Addrs), NEW s \in Seq(Addrs), NEW a \in Addrs
  PROVE  Cat(u, f, <<a>> \o s) = Append(Cat(u, f, s), a)
<1>0. Len(u) \in Nat /\ Len(f) \in Nat /\ Len(s) \in Nat
  OBVIOUS
<1>1. PICK t : t = <<a>> \o s
  OBVIOUS
<1>2. /\ t \in Seq(Addrs) /\ Len(t) = Len(s) + 1 /\ t[1] = a
      /\ \A i \in 2..(Len(s) + 1) : t[i] = s[i - 1]
  BY <1>1, ConsIs
<1>3. PICK c, d, e : c = Cat(u, f, t) /\ d = Cat(u, f, s) /\ e = Append(d, a)
  OBVIOUS
<1>4. /\ c \in Seq(Addrs) /\ Len(c) = Len(u) + Len(f) + Len(t)
      /\ \A i \in 1..(Len(u) + Len(f) + Len(t)) :
           c[i] = IF i <= Len(u) THEN u[Len(u) - i + 1]
                  ELSE IF i <= Len(u) + Len(f) THEN f[i - Len(u)]
                  ELSE t[Len(t) - (i - Len(u) - Len(f)) + 1]
  <2>1. CatOf(c, u, f, t)
    BY <1>2, <1>3, CatIs
  <2>. QED  BY <2>1 DEF CatOf
<1>5. /\ d \in Seq(Addrs) /\ Len(d) = Len(u) + Len(f) + Len(s)
      /\ \A i \in 1..(Len(u) + Len(f) + Len(s)) :
           d[i] = IF i <= Len(u) THEN u[Len(u) - i + 1]
                  ELSE IF i <= Len(u) + Len(f) THEN f[i - Len(u)]
                  ELSE s[Len(s) - (i - Len(u) - Len(f)) + 1]
  <2>1. CatOf(d, u, f, s)
    BY <1>3, CatIs
  <2>. QED  BY <2>1 DEF CatOf
<1>6. /\ e \in Seq(Addrs) /\ Len(e) = Len(d) + 1 /\ e[Len(d) + 1] = a
      /\ \A i \in 1..Len(d) : e[i] = d[i]
  BY <1>3, <1>5
<1>7. Len(c) = Len(e)
  BY <1>0, <1>2, <1>4, <1>5, <1>6
<1>8. ASSUME NEW i \in 1..Len(e)
      PROVE  c[i] = e[i]
  <2>0. i \in 1..(Len(u) + Len(f) + Len(t)) /\ i \in 1..(Len(d) + 1)
    BY <1>4, <1>6, <1>7
  <2>1. CASE i = Len(d) + 1
    BY <1>0, <1>2, <1>4, <1>5, <1>6, <2>0, <2>1
  <2>2. CASE i <= Len(u) + Len(f)
    <3>1. i \in 1..Len(d) /\ i \in 1..(Len(u) + Len(f) + Len(s))
      BY <1>0, <1>5, <2>0, <2>2
    <3>2. c[i] = d[i]
      BY <1>4, <1>5, <2>0, <2>2, <3>1
    <3>. QED  BY <1>6, <3>1, <3>2
  <2>3. CASE i # Len(d) + 1 /\ i > Len(u) + Len(f)
    <3>1. PICK k : k = Len(t) - (i - Len(u) - Len(f)) + 1
      OBVIOUS
    <3>2. /\ k \in 2..(Len(s) + 1) /\ k - 1 = Len(s) - (i - Len(u) - Len(f)) + 1
          /\ i \in 1..Len(d) /\ ~(i <= Len(u)) /\ ~(i <= Len(u) + Len(f))
          /\ i \in 1..(Len(u) + Len(f) + Len(s))
      <4>1. PICK lu, lf, ls \in Nat : lu = Len(u) /\ lf = Len(f) /\ ls = Len(s)
        BY <1>0
      <4>2. Len(d) = lu + lf + ls /\ Len(t) = ls + 1
        BY <1>2, <1>5, <4>1
      <4>3. i \in 1..(lu + lf + ls) /\ i > lu + lf
        <5>1. i \in 1..(lu + lf + ls + 1) /\ i # lu + lf + ls + 1 /\ i > lu + lf
          BY <2>0, <2>3, <4>1, <4>2
        <5>. QED  BY <5>1
      <4>4. i \in Nat /\ k = (ls + 1) - (i - lu - lf) + 1 /\ i # lu + lf + ls + 1
            /\ i \in 1..(lu + lf + ls + 1)
        BY <2>0, <2>3, <3>1, <4>1, <4>2
      <4>5. PICK e1 \in 1..ls : i = lu + lf + e1
        <5>1. i - lu - lf \in 1..ls
          BY <4>3
        <5>2. i = lu + lf + (i - lu - lf)
          BY <4>4
        <5>. QED  BY <5>1, <5>2
      <4>6. k = ls + 2 - e1 /\ ls - (i - lu - lf) + 1 = ls + 1 - e1
        BY <4>4, <4>5
      <4>7. k \in 2..(ls + 1) /\ k - 1 = ls - (i - lu - lf) + 1
        BY <4>5, <4>6
      <4>8. ~(i <= lu) /\ ~(i <= lu + lf)
        BY <4>5
      <4>. QED  BY <4>1, <4>2, <4>3, <4>7, <4>8
    <3>3. c[i] = t[k]
      BY <1>4, <2>0, <3>1, <3>2
    <3>4. d[i] = s[k - 1]
      BY <1>5, <3>2
    <3>. QED  BY <1>2, <1>6, <3>2, <3>3, <3>4
  <2>. QED  BY <1>0, <1>5, <2>0, <2>1, <2>2, <2>3
<1>. QED  BY <1>1, <1>3, <1>4, <1>6, <1>7, <1>8, CatSame

\* The first job is taken out.
LEMMA CatCall ==
  ASSUME NEW f \in Seq(Addrs), NEW s \in Seq(Addrs), f # <<>>
  PROVE  /\ Cat(<<>>, Tail(f), s) = Tail(Cat(<<>>, f, s))
         /\ Head(Cat(<<>>, f, s)) = Head(f) /\ Cat(<<>>, f, s) # <<>>
<1>0. PICK o, g : o = <<>> /\ g = Tail(f)
  OBVIOUS
<1>1. o \in Seq(Addrs) /\ Len(o) = 0 /\ Len(s) \in Nat
  BY <1>0, EmptyIs
<1>2. /\ g \in Seq(Addrs) /\ Len(f) \in Nat \ {0} /\ Len(g) = Len(f) - 1 /\ Head(f) = f[1]
      /\ \A i \in 1..(Len(f) - 1) : g[i] = f[i + 1]
  BY <1>0, TailIs
<1>3. PICK c, d : c = Cat(o, g, s) /\ d = Cat(o, f, s)
  OBVIOUS
<1>4. /\ c \in Seq(Addrs) /\ Len(c) = Len(g) + Len(s)
      /\ \A i \in 1..(Len(g) + Len(s)) :
           c[i] = IF i <= Len(g) THEN g[i] ELSE s[Len(s) - (i - Len(g)) + 1]
  <2>1. /\ c \in Seq(Addrs) /\ Len(c) = Len(o) + Len(g) + Len(s)
        /\ \A i \in 1..(Len(o) + Len(g) + Len(s)) :
             c[i] = IF i <= Len(o) THEN o[Len(o) - i + 1]
                    ELSE IF i <= Len(o) + Len(g) THEN g[i - Len(o)]
                    ELSE s[Len(s) - (i - Len(o) - Len(g)) + 1]
    <3>1. CatOf(c, o, g, s)
      BY <1>1, <1>2, <1>3, CatIs
    <3>. QED  BY <3>1 DEF CatOf
  <2>. QED  BY <1>1, <1>2, <2>1
<1>5. /\ d \in Seq(Addrs) /\ Len(d) = Len(f) + Len(s)
      /\ \A i \in 1..(Len(f) + Len(s)) :
           d[i] = IF i <= Len(f) THEN f[i] ELSE s[Len(s) - (i - Len(f)) + 1]
  <2>1. /\ d \in Seq(Addrs) /\ Len(d) = Len(o) + Len(f) + Len(s)
        /\ \A i \in 1..(Len(o) + Len(f) + Len(s)) :
             d[i] = IF i <= Len(o) THEN o[Len(o) - i + 1]
                    ELSE IF i <= Len(o) + Len(f) THEN f[i - Len(o)]
                    ELSE s[Len(s) - (i - Len(o) - Len(f)) + 1]
    <3>1. CatOf(d, o, f, s)
      BY <1>1, <1>2, <1>3, CatIs
    <3>. QED  BY <3>1 DEF CatOf
  <2>. QED  BY <1>1, <1>2, <2>1
<1>6. d # <<>> /\ d[1] = f[1]
  BY <1>1, <1>2, <1>5
<1>7. PICK e : e = Tail(d)
  OBVIOUS
<1>8. /\ e \in Seq(Addrs) /\ Len(e) = Len(d) - 1 /\ Head(d) = d[1]
      /\ \A i \in 1..(Len(d) - 1) : e[i] = d[i + 1]
  BY <1>5, <1>6, <1>7, TailIs
<1>9. Len(c) = Len(e)
  BY <1>1, <1>2, <1>4, <1>5, <1>8
<1>10. ASSUME NEW i \in 1..Len(e)
       PROVE  c[i] = e[i]
  <2>0. i \in 1..(Len(g) + Len(s)) /\ i \in 1..(Len(d) - 1) /\ i + 1 \in 1..(Len(f) + Len(s))
    BY <1>1, <1>2, <1>4, <1>5, <1>8, <1>9
  <2>1. CASE i <= Len(g)
    BY <1>1, <1>2, <1>4, <1>5, <1>8, <2>0, <2>1
  <2>2. CASE ~(i <= Len(g))
    <3>1. (i + 1) - Len(f) = i - Len(g) /\ ~(i + 1 <= Len(f))
      BY <1>1, <1>2, <2>0, <2>2
    <3>. QED  BY <1>4, <1>5, <1>8, <2>0, <2>2, <3>1
  <2>. QED  BY <2>1, <2>2
<1>11. c = e
  BY <1>4, <1>8, <1>9, <1>10, CatSame
<1>. QED  BY <1>0, <1>2, <1>3, <1>6, <1>7, <1>8, <1>11

-----------------------------------------------------------------------------
(* The invariant of the list.                                               *)

\* A producer has a node that is not in the list.
Unpushed(p) == ppc[p] \in {"link", "push"}

\* A job that is in the list, or was.
Pushed(j) ==
  /\ j \in JobIds /\ j[2] <= added[j[1]]
  /\ Unpushed(j[1]) => j[2] # added[j[1]]

\* The nodes of the list are s, those the worker has still to turn round u.
Parts(s, u) ==
  /\ Linked(next, head, s)
  /\ Linked(next, IF tpc = "flip" THEN whead ELSE NULL, u)

Turned == IF tpc = "delete" THEN Tail(flip) ELSE flip

Nodes(s, u) == Cat(u, Turned, s)

\* The nodes q are allocated, and each has a job of its own that was pushed.
Good(q) ==
  /\ q \in Seq(Addrs)
  /\ \A i \in 1..Len(q) : q[i] \in live /\ Pushed(job[q[i]])
  /\ \A i, k \in 1..Len(q) : job[q[i]] = job[q[k]] => i = k

\* Each producer owns the node it has not pushed yet.
Owned ==
  \A p \in Producers :
    Unpushed(p) => node[p] \in live /\ job[node[p]] = <<p, added[p]>>

RanPushed == \A i \in 1..Len(ran) : Pushed(ran[i])

\* The node that is about to be deleted is not in the list any more.
Doomed(q) ==
  tpc = "delete" =>
    /\ Head(flip) \in live /\ Pushed(job[Head(flip)])
    /\ \A i \in 1..Len(q) : job[q[i]] # job[Head(flip)]

Holds(s, u) ==
  /\ Parts(s, u) /\ Good(Nodes(s, u)) /\ Doomed(Nodes(s, u))
  /\ Owned /\ RanPushed

ListInv == \E s, u : Holds(s, u)

Jobs(q) == [i \in 1..Len(q) |-> job[q[i]]]

\* A step of the queue of jobs, from x to y.
Moves(x, y) ==
  \/ y = x /\ ran' = ran
  \/ \E j \in JobIds :
       /\ \A i \in 1..Len(x) : x[i] # j
       /\ \A i \in 1..Len(ran) : ran[i] # j
       /\ y = Append(x, j) /\ ran' = ran
  \/ x # <<>> /\ y = Tail(x) /\ ran' = Append(ran, Head(x))

\* The step takes the list to another one, and the queue of jobs with it.
Steps(s, u) ==
  \E s2, u2 : /\ Holds(s2, u2)'
              /\ Moves(Jobs(Nodes(s, u)), Jobs(Nodes(s2, u2))')

\* What the worker has turned round is a sequence of nodes.
LEMMA TurnedIs ==
  ASSUME WorkerInv
  PROVE  Turned \in Seq(Addrs)
<1>1. flip \in Seq(Addrs) /\ (tpc = "delete" => flip # <<>>)
  BY DEF WorkerInv, WorkerTypeOK, Drained
<1>2. tpc = "delete" => Tail(flip) \in Seq(Addrs)
  BY <1>1, TailIs
<1>. QED  BY <1>1, <1>2 DEF Turned

\* Every node of the list is one of q.
LEMMA InParts ==
  ASSUME WorkerInv, NEW s, NEW u, Parts(s, u), Good(Nodes(s, u))
  PROVE  /\ s \in Seq(Addrs) /\ u \in Seq(Addrs) /\ Turned \in Seq(Addrs)
         /\ \A i \in 1..Len(s) : s[i] \in live /\ Pushed(job[s[i]])
         /\ \A i \in 1..Len(u) : u[i] \in live /\ Pushed(job[u[i]])
         /\ Distinct(s) /\ Distinct(u)
<1>1. s \in Seq(Addrs) /\ u \in Seq(Addrs) /\ Turned \in Seq(Addrs)
  BY TurnedIs DEF Parts, Linked
<1>2. PICK f, q : f = Turned /\ q = Nodes(s, u)
  OBVIOUS
<1>3. PICK ls, lu, lf \in Nat : ls = Len(s) /\ lu = Len(u) /\ lf = Len(f)
  BY <1>1, <1>2
<1>4. CatOf(q, u, f, s)
  BY <1>1, <1>2, CatIs DEF Nodes
<1>5. /\ Len(q) = lu + lf + ls
      /\ \A i \in 1..(lu + lf + ls) :
           q[i] = IF i <= lu THEN u[lu - i + 1]
                  ELSE IF i <= lu + lf THEN f[i - lu]
                  ELSE s[ls - (i - lu - lf) + 1]
  BY <1>3, <1>4 DEF CatOf
<1>6. /\ \A i \in 1..(lu + lf + ls) : q[i] \in live /\ Pushed(job[q[i]])
      /\ \A i, k \in 1..(lu + lf + ls) : job[q[i]] = job[q[k]] => i = k
  BY <1>2, <1>5 DEF Good
<1>7. ASSUME NEW i \in 1..ls
      PROVE  /\ lu + lf + (ls - i + 1) \in 1..(lu + lf + ls)
             /\ q[lu + lf + (ls - i + 1)] = s[i]
  <2>1. PICK k : k = lu + lf + (ls - i + 1)
    OBVIOUS
  <2>2. k \in 1..(lu + lf + ls) /\ ~(k <= lu) /\ ~(k <= lu + lf)
        /\ ls - (k - lu - lf) + 1 = i
    BY <1>3, <2>1
  <2>3. q[k] = s[i]
    BY <1>5, <2>2
  <2>. QED  BY <2>1, <2>2, <2>3
<1>8. ASSUME NEW i \in 1..lu
      PROVE  /\ lu - i + 1 \in 1..(lu + lf + ls)
             /\ q[lu - i + 1] = u[i]
  <2>1. PICK k : k = lu - i + 1
    OBVIOUS
  <2>2. k \in 1..(lu + lf + ls) /\ k <= lu /\ lu - k + 1 = i
    BY <1>3, <2>1
  <2>3. q[k] = u[i]
    BY <1>5, <2>2
  <2>. QED  BY <2>1, <2>2, <2>3
<1>9. \A i \in 1..ls : s[i] \in live /\ Pushed(job[s[i]])
  BY <1>6, <1>7
<1>10. \A i \in 1..lu : u[i] \in live /\ Pushed(job[u[i]])
  BY <1>6, <1>8
<1>11. ASSUME NEW i \in 1..ls, NEW k \in 1..ls, s[i] = s[k]
       PROVE  i = k
  <2>1. lu + lf + (ls - i + 1) = lu + lf + (ls - k + 1)
    BY <1>6, <1>7, <1>11
  <2>. QED  BY <1>3, <2>1
<1>12. ASSUME NEW i \in 1..lu, NEW k \in 1..lu, u[i] = u[k]
       PROVE  i = k
  <2>1. lu - i + 1 = lu - k + 1
    BY <1>6, <1>8, <1>12
  <2>. QED  BY <1>3, <2>1
<1>. QED  BY <1>1, <1>3, <1>9, <1>10, <1>11, <1>12 DEF Distinct

\* The queue the refinement mapping computes is that of the nodes.
LEMMA PendingIs ==
  ASSUME WorkerInv, NEW s, NEW u, Holds(s, u)
  PROVE  Pending = Nodes(s, u)
<1>1. Parts(s, u) /\ Good(Nodes(s, u))
  BY DEF Holds
<1>2. /\ s \in Seq(Addrs) /\ u \in Seq(Addrs) /\ Turned \in Seq(Addrs)
      /\ Distinct(s) /\ Distinct(u)
  BY <1>1, InParts
<1>3. ListFrom(head) = s
  BY <1>1, <1>2, ListFromLinked DEF Parts
<1>4. (IF tpc = "flip" THEN Reverse(ListFrom(whead)) ELSE <<>>) = Reverse(u)
  <2>1. CASE tpc = "flip"
    <3>1. Linked(next, whead, u)
      BY <1>1, <2>1 DEF Parts
    <3>2. ListFrom(whead) = u
      BY <1>2, <3>1, ListFromLinked
    <3>. QED  BY <2>1, <3>2
  <2>2. CASE tpc # "flip"
    <3>1. Linked(next, NULL, u)
      BY <1>1, <2>2 DEF Parts
    <3>2. u = <<>>
      BY <3>1, NullAssumption, TailIs DEF Linked
    <3>3. Reverse(<<>>) = <<>>
      <4>1. Reverse(<<>>) \in Seq(Addrs) /\ Len(Reverse(<<>>)) = 0
        BY EmptyIs, ReverseIs
      <4>. QED  BY <4>1, EmptySeq
    <3>. QED  BY <2>2, <3>2, <3>3
  <2>. QED  BY <2>1, <2>2
<1>. QED  BY <1>3, <1>4 DEF Pending, Nodes, Cat, Turned

-----------------------------------------------------------------------------
(* Steps that leave the list as it is.                                      *)

\* A job that was pushed stays one that was.
LEMMA PushedStays ==
  ASSUME added' = added, \A p \in Producers : Unpushed(p)' => Unpushed(p),
         NEW j, Pushed(j)
  PROVE  Pushed(j)'
<1>1. j \in JobIds /\ j[1] \in Producers
  BY DEF Pushed, JobIds
<1>. QED  BY <1>1 DEF Pushed

\* The list stays as it is, and so do the jobs in it.
LEMMA QuietSteps ==
  ASSUME NEW s, NEW u, Holds(s, u), NEW s2, NEW u2,
         Parts(s2, u2)', Nodes(s2, u2)' = Nodes(s, u), ran' = ran,
         \A i \in 1..Len(Nodes(s, u)) :
           Nodes(s, u)[i] \in live' /\ job'[Nodes(s, u)[i]] = job[Nodes(s, u)[i]],
         \A j : Pushed(j) => Pushed(j)',
         Owned',
         tpc' = "delete" => /\ tpc = "delete" /\ flip' = flip
                            /\ Head(flip) \in live'
                            /\ job'[Head(flip)] = job[Head(flip)]
  PROVE  Steps(s, u)
<1>1. PICK q : q = Nodes(s, u)
  OBVIOUS
<1>2. /\ Good(q) /\ Doomed(q) /\ RanPushed /\ Nodes(s2, u2)' = q
      /\ \A i \in 1..Len(q) : q[i] \in live' /\ job'[q[i]] = job[q[i]]
  BY <1>1 DEF Holds
<1>3. Good(q)'
  BY <1>2 DEF Good
<1>4. Doomed(q)'
  BY <1>2 DEF Doomed
<1>5. RanPushed'
  BY <1>2 DEF RanPushed
<1>6. Good(Nodes(s2, u2))' /\ Doomed(Nodes(s2, u2))'
  <2>1. PICK r : r = Nodes(s2, u2)'
    OBVIOUS
  <2>2. Good(r)' /\ Doomed(r)'
    BY <1>2, <1>3, <1>4, <2>1
  <2>. QED  BY <2>1, <2>2 DEF Good, Doomed
<1>7. Holds(s2, u2)'
  BY <1>5, <1>6 DEF Holds
<1>8. Jobs(Nodes(s2, u2))' = Jobs(Nodes(s, u))
  BY <1>1, <1>2 DEF Jobs
<1>9. Moves(Jobs(Nodes(s, u)), Jobs(Nodes(s2, u2))')
  BY <1>8 DEF Moves
<1>. QED  BY <1>7, <1>9 DEF Steps

\* Steps that do not touch the list.
LEMMA UnseenSteps ==
  ASSUME WorkerInv, NEW s, NEW u, Holds(s, u),
         UNCHANGED <<head, job, next, live, node, added, ran, flip>>,
         \A p \in Producers : Unpushed(p)' <=> Unpushed(p),
         \/ UNCHANGED <<tpc, whead>>
         \/ tpc \notin {"flip", "delete"} /\ tpc' \notin {"flip", "delete"}
  PROVE  Steps(s, u)
<1>1. Parts(s, u)'
  BY DEF Holds, Parts
<1>2. Nodes(s, u)' = Nodes(s, u)
  BY DEF Nodes, Turned
<1>3. Owned'
  BY DEF Holds, Owned
<1>4. \A j : Pushed(j) => Pushed(j)'
  BY PushedStays
<1>5. \A i \in 1..Len(Nodes(s, u)) : Nodes(s, u)[i] \in live
  BY DEF Holds, Good
<1>6. tpc' = "delete" => tpc = "delete" /\ Head(flip) \in live
  BY DEF Holds, Doomed
<1>. QED  BY <1>1, <1>2, <1>3, <1>4, <1>5, <1>6, QuietSteps

\* The worker looks at quit_.
LEMMA LoopSteps ==
  ASSUME WorkerInv, NEW s, NEW u, Holds(s, u), Loop
  PROVE  Steps(s, u)
  BY UnseenSteps DEF Loop, queueVars, gateVars, addVars, Unpushed

\* It reads the flag of the gate.
LEMMA ReadFlagSteps ==
  ASSUME WorkerInv, NEW s, NEW u, Holds(s, u), ReadFlag
  PROVE  Steps(s, u)
  BY UnseenSteps DEF ReadFlag, queueVars, gateVars, addVars, Unpushed

\* It shuts the gate.
LEMMA ShutSteps ==
  ASSUME WorkerInv, NEW s, NEW u, Holds(s, u), Shut
  PROVE  Steps(s, u)
<1>1. tpc = "shut" /\ tpc' \in {"take", "down", "flag"}
  BY DEF Shut
<1>. QED  BY <1>1, UnseenSteps DEF Shut, queueVars, addVars, Unpushed

\* It wakes.
LEMMA DownSteps ==
  ASSUME WorkerInv, NEW s, NEW u, Holds(s, u), Down
  PROVE  Steps(s, u)
  BY UnseenSteps DEF Down, queueVars, addVars, Unpushed

\* It pings.
LEMMA TimeOutSteps ==
  ASSUME WorkerInv, NEW s, NEW u, Holds(s, u), TimeOut
  PROVE  Steps(s, u)
  BY UnseenSteps DEF TimeOut, queueVars, gateVars, addVars, Unpushed

\* It reads the head, which may have changed when it swaps it.
LEMMA TakeSteps ==
  ASSUME WorkerInv, NEW s, NEW u, Holds(s, u), Take
  PROVE  Steps(s, u)
  BY UnseenSteps DEF Take, queueVars, gateVars, addVars, Unpushed

\* It has run what it took.
LEMMA ReturnSteps ==
  ASSUME WorkerInv, NEW s, NEW u, Holds(s, u), Return
  PROVE  Steps(s, u)
  BY UnseenSteps DEF Return, queueVars, gateVars, addVars, Unpushed

\* Nothing happens.
LEMMA StutterSteps ==
  ASSUME WorkerInv, NEW s, NEW u, Holds(s, u), UNCHANGED safeVars
  PROVE  Steps(s, u)
  BY UnseenSteps DEF safeVars, Unpushed

\* A producer opens the gate.
LEMMA OpenSteps ==
  ASSUME WorkerInv, NEW s, NEW u, Holds(s, u), NEW p \in Producers, OpenGate(p)
  PROVE  Steps(s, u)
<1>1. \A r \in Producers : Unpushed(r)' <=> Unpushed(r)
  BY DEF OpenGate, Unpushed, WorkerInv, WorkerTypeOK
<1>. QED  BY <1>1, UnseenSteps DEF OpenGate, queueVars, workerVars

\* A producer raises the semaphore.
LEMMA UpSteps ==
  ASSUME WorkerInv, NEW s, NEW u, Holds(s, u), NEW p \in Producers, Up(p)
  PROVE  Steps(s, u)
<1>1. \A r \in Producers : Unpushed(r)' <=> Unpushed(r)
  BY DEF Up, Unpushed, WorkerInv, WorkerTypeOK
<1>. QED  BY <1>1, UnseenSteps DEF Up, queueVars, workerVars

-----------------------------------------------------------------------------

\* A node that is allocated is not one of the list.
LEMMA NewSteps ==
  ASSUME WorkerInv, NEW s, NEW u, Holds(s, u), NEW p \in Producers, New(p)
  PROVE  Steps(s, u)
<1>1. PICK a \in Addrs \ live :
        /\ live' = live \cup {a}
        /\ node' = [node EXCEPT ![p] = a]
        /\ job' = [job EXCEPT ![a] = <<p, added[p] + 1>>]
        /\ next' = [next EXCEPT ![a] = NULL]
  BY DEF New
<1>2. /\ ppc[p] = "idle" /\ added' = [added EXCEPT ![p] = @ + 1]
      /\ ppc' = [ppc EXCEPT ![p] = "link"]
      /\ UNCHANGED <<head, tpc, whead, flip, ran>>
  BY DEF New, workerVars
<1>3. /\ Parts(s, u) /\ Good(Nodes(s, u)) /\ Owned
      /\ job \in [Addrs -> JobIds] /\ next \in [Addrs -> Addrs \cup {NULL}]
      /\ live \subseteq Addrs
      /\ node \in [Producers -> Addrs \cup {NULL}] /\ added \in [Producers -> 0..MaxJobs]
      /\ ppc \in [Producers -> {"idle", "link", "push", "open", "up"}]
  BY DEF Holds, WorkerInv, WorkerTypeOK
<1>4. /\ s \in Seq(Addrs) /\ u \in Seq(Addrs)
      /\ \A i \in 1..Len(s) : s[i] \in live
      /\ \A i \in 1..Len(u) : u[i] \in live
  BY <1>3, InParts
<1>5. \A b \in live : next'[b] = next[b] /\ job'[b] = job[b] /\ b \in live'
  BY <1>1, <1>3
<1>6. Parts(s, u)'
  BY <1>2, <1>3, <1>4, <1>5 DEF Parts, Linked
<1>7. Nodes(s, u)' = Nodes(s, u)
  BY <1>2 DEF Nodes, Turned
<1>8. ASSUME NEW j, Pushed(j)
      PROVE  Pushed(j)'
  <2>1. j \in JobIds /\ j[1] \in Producers /\ j[2] \in Nat /\ j[2] <= added[j[1]]
        /\ (Unpushed(j[1]) => j[2] # added[j[1]])
    BY <1>8, MaxJobsAssumption DEF Pushed, JobIds
  <2>2. CASE j[1] = p
    <3>1. added'[p] = added[p] + 1 /\ added[p] \in Nat
      BY <1>2, <1>3, MaxJobsAssumption
    <3>. QED  BY <2>1, <2>2, <3>1 DEF Pushed
  <2>3. CASE j[1] # p
    <3>1. added'[j[1]] = added[j[1]] /\ (Unpushed(j[1])' => Unpushed(j[1]))
      BY <1>2, <1>3, <2>1, <2>3 DEF Unpushed
    <3>. QED  BY <2>1, <3>1 DEF Pushed
  <2>. QED  BY <2>2, <2>3
<1>9. Owned'
  <2>1. ASSUME NEW r \in Producers, Unpushed(r)'
        PROVE  node'[r] \in live' /\ job'[node'[r]] = <<r, added'[r]>>
    <3>1. CASE r = p
      BY <1>1, <1>2, <1>3, <3>1
    <3>2. CASE r # p
      <4>1. node'[r] = node[r] /\ added'[r] = added[r] /\ Unpushed(r)
        BY <1>1, <1>2, <1>3, <2>1, <3>2 DEF Unpushed
      <4>2. node[r] \in live /\ job[node[r]] = <<r, added[r]>>
        BY <1>3, <4>1 DEF Owned
      <4>. QED  BY <1>5, <4>1, <4>2
    <3>. QED  BY <3>1, <3>2
  <2>. QED  BY <2>1 DEF Owned
<1>10. \A i \in 1..Len(Nodes(s, u)) :
         Nodes(s, u)[i] \in live' /\ job'[Nodes(s, u)[i]] = job[Nodes(s, u)[i]]
  BY <1>3, <1>5 DEF Good
<1>11. tpc' = "delete" => /\ tpc = "delete" /\ flip' = flip
                           /\ Head(flip) \in live'
                           /\ job'[Head(flip)] = job[Head(flip)]
  BY <1>2, <1>5 DEF Holds, Doomed
<1>. QED  BY <1>2, <1>6, <1>7, <1>8, <1>9, <1>10, <1>11, QuietSteps

-----------------------------------------------------------------------------
(* Steps that link and push nodes.                                          *)

\* The node of a producer is none of those that were pushed.
LEMMA OwnNode ==
  ASSUME Owned, NEW p \in Producers, Unpushed(p), NEW a, Pushed(job[a])
  PROVE  a # node[p]
<1>. SUFFICES ASSUME a = node[p] PROVE FALSE
  OBVIOUS
<1>1. job[a] = <<p, added[p]>>
  BY DEF Owned
<1>. QED  BY <1>1 DEF Pushed

\* What Jobs returns.
LEMMA JobsAre ==
  ASSUME job \in [Addrs -> JobIds], NEW q \in Seq(Addrs)
  PROVE  /\ Jobs(q) \in Seq(JobIds) /\ Len(Jobs(q)) = Len(q) /\ Len(q) \in Nat
         /\ \A i \in 1..Len(q) : Jobs(q)[i] = job[q[i]] /\ job[q[i]] \in JobIds
<1>1. Len(q) \in Nat /\ \A i \in 1..Len(q) : q[i] \in Addrs
  OBVIOUS
<1>2. Jobs(q) \in [1..Len(q) -> JobIds]
  BY <1>1 DEF Jobs
<1>3. Jobs(q) \in Seq(JobIds) /\ Len(Jobs(q)) = Len(q)
  BY <1>1, <1>2
<1>. QED  BY <1>1, <1>3 DEF Jobs

\* Sequences with the same jobs are the same.
LEMMA JobsSame ==
  ASSUME NEW c \in Seq(JobIds), NEW d \in Seq(JobIds), Len(c) = Len(d),
         \A i \in 1..Len(c) : c[i] = d[i]
  PROVE  c = d
  BY SeqEqual

\* A node appended is a job appended.
LEMMA JobsAppend ==
  ASSUME job \in [Addrs -> JobIds], NEW q \in Seq(Addrs), NEW a \in Addrs
  PROVE  Jobs(Append(q, a)) = Append(Jobs(q), job[a])
<1>1. PICK r : r = Append(q, a)
  OBVIOUS
<1>2. /\ r \in Seq(Addrs) /\ Len(r) = Len(q) + 1 /\ r[Len(q) + 1] = a /\ Len(q) \in Nat
      /\ \A i \in 1..Len(q) : r[i] = q[i]
  BY <1>1
<1>3. PICK x, y : x = Jobs(q) /\ y = Jobs(r)
  OBVIOUS
<1>4. /\ x \in Seq(JobIds) /\ Len(x) = Len(q) /\ \A i \in 1..Len(q) : x[i] = job[q[i]]
      /\ y \in Seq(JobIds) /\ Len(y) = Len(r) /\ \A i \in 1..Len(r) : y[i] = job[r[i]]
  BY <1>2, <1>3, JobsAre
<1>5. PICK j \in JobIds : j = job[a]
  OBVIOUS
<1>6. PICK z : z = Append(x, j)
  OBVIOUS
<1>7. /\ z \in Seq(JobIds) /\ Len(z) = Len(q) + 1 /\ z[Len(q) + 1] = j
      /\ \A i \in 1..Len(q) : z[i] = x[i]
  BY <1>4, <1>6
<1>8. ASSUME NEW i \in 1..Len(y)
      PROVE  y[i] = z[i]
  <2>1. CASE i = Len(q) + 1
    BY <1>2, <1>4, <1>5, <1>7, <2>1
  <2>2. CASE i # Len(q) + 1
    <3>1. i \in 1..Len(q) /\ i \in 1..Len(r)
      BY <1>2, <1>4, <2>2
    <3>. QED  BY <1>2, <1>4, <1>7, <3>1
  <2>. QED  BY <2>1, <2>2
<1>9. y = z
  BY <1>2, <1>4, <1>7, <1>8, JobsSame
<1>. QED  BY <1>1, <1>3, <1>5, <1>6, <1>9

\* A node taken from the front is a job taken from the front.
LEMMA JobsTail ==
  ASSUME job \in [Addrs -> JobIds], NEW q \in Seq(Addrs), q # <<>>
  PROVE  /\ Jobs(Tail(q)) = Tail(Jobs(q)) /\ Jobs(q) # <<>>
         /\ Head(Jobs(q)) = job[Head(q)]
<1>1. PICK r : r = Tail(q)
  OBVIOUS
<1>2. /\ r \in Seq(Addrs) /\ Len(q) \in Nat \ {0} /\ Len(r) = Len(q) - 1 /\ Head(q) = q[1]
      /\ \A i \in 1..(Len(q) - 1) : r[i] = q[i + 1]
  BY <1>1, TailIs
<1>3. PICK x, y : x = Jobs(q) /\ y = Jobs(r)
  OBVIOUS
<1>4. /\ x \in Seq(JobIds) /\ Len(x) = Len(q) /\ \A i \in 1..Len(q) : x[i] = job[q[i]]
      /\ y \in Seq(JobIds) /\ Len(y) = Len(r) /\ \A i \in 1..Len(r) : y[i] = job[r[i]]
  BY <1>2, <1>3, JobsAre
<1>5. x # <<>> /\ Head(x) = x[1] /\ x[1] = job[q[1]]
  BY <1>2, <1>4, EmptySeq
<1>6. PICK z : z = Tail(x)
  OBVIOUS
<1>7. /\ z \in Seq(JobIds) /\ Len(z) = Len(x) - 1
      /\ \A i \in 1..Len(z) : z[i] = x[i + 1]
  BY <1>4, <1>5, <1>6, HeadTailProperties
<1>8. ASSUME NEW i \in 1..Len(y)
      PROVE  y[i] = z[i]
  <2>1. i \in 1..Len(z) /\ i \in 1..Len(r) /\ i + 1 \in 1..Len(q) /\ i \in 1..(Len(q) - 1)
    BY <1>2, <1>4, <1>7
  <2>2. y[i] = job[r[i]] /\ r[i] = q[i + 1] /\ z[i] = x[i + 1] /\ x[i + 1] = job[q[i + 1]]
    BY <1>2, <1>4, <1>7, <2>1
  <2>. QED  BY <2>2
<1>9. y = z
  BY <1>2, <1>4, <1>7, <1>8, JobsSame
<1>. QED  BY <1>1, <1>2, <1>3, <1>5, <1>6, <1>9

-----------------------------------------------------------------------------

\* Nobody sees the node its producer links.
LEMMA LinkSteps ==
  ASSUME WorkerInv, NEW s, NEW u, Holds(s, u), NEW p \in Producers, Link(p)
  PROVE  Steps(s, u)
<1>1. /\ ppc[p] = "link" /\ next' = [next EXCEPT ![node[p]] = head]
      /\ ppc' = [ppc EXCEPT ![p] = "push"]
      /\ UNCHANGED <<head, job, live, node, added, tpc, whead, flip, ran>>
  BY DEF Link, workerVars
<1>2. /\ Parts(s, u) /\ Good(Nodes(s, u)) /\ Owned
      /\ next \in [Addrs -> Addrs \cup {NULL}]
      /\ ppc \in [Producers -> {"idle", "link", "push", "open", "up"}]
  BY DEF Holds, WorkerInv, WorkerTypeOK
<1>3. /\ s \in Seq(Addrs) /\ u \in Seq(Addrs)
      /\ \A i \in 1..Len(s) : Pushed(job[s[i]])
      /\ \A i \in 1..Len(u) : Pushed(job[u[i]])
  BY <1>2, InParts
<1>4. Unpushed(p)
  BY <1>1 DEF Unpushed
<1>5. \A b : Pushed(job[b]) => b # node[p]
  BY <1>2, <1>4, OwnNode
<1>6. \A b \in Addrs : Pushed(job[b]) => next'[b] = next[b]
  BY <1>1, <1>2, <1>5
<1>7. Parts(s, u)'
  BY <1>1, <1>2, <1>3, <1>6 DEF Parts, Linked
<1>8. Nodes(s, u)' = Nodes(s, u)
  BY <1>1 DEF Nodes, Turned
<1>9. \A r \in Producers : Unpushed(r)' => Unpushed(r)
  BY <1>1, <1>2 DEF Unpushed
<1>10. \A j : Pushed(j) => Pushed(j)'
  BY <1>1, <1>9, PushedStays
<1>11. Owned'
  BY <1>1, <1>2, <1>9 DEF Owned
<1>12. \A i \in 1..Len(Nodes(s, u)) : Nodes(s, u)[i] \in live
  BY <1>2 DEF Good
<1>13. tpc' = "delete" => tpc = "delete" /\ Head(flip) \in live
  BY <1>1 DEF Holds, Doomed
<1>. QED  BY <1>1, <1>7, <1>8, <1>10, <1>11, <1>12, <1>13, QuietSteps

\* The compare-and-swap found the head its node is linked to, old or new.
LEMMA PushedSteps ==
  ASSUME WorkerInv, NEW s, NEW u, Holds(s, u), NEW p \in Producers, Push(p),
         head = next[node[p]]
  PROVE  Steps(s, u)
<1>1. /\ ppc[p] = "push" /\ head' = node[p] /\ ppc' = [ppc EXCEPT ![p] = "open"]
      /\ UNCHANGED <<next, job, live, node, added, tpc, whead, flip, ran>>
  BY DEF Push, workerVars
<1>2. /\ Parts(s, u) /\ Good(Nodes(s, u)) /\ Owned /\ RanPushed /\ Doomed(Nodes(s, u))
      /\ next \in [Addrs -> Addrs \cup {NULL}] /\ job \in [Addrs -> JobIds]
      /\ added \in [Producers -> 0..MaxJobs] /\ live \subseteq Addrs
      /\ ppc \in [Producers -> {"idle", "link", "push", "open", "up"}]
      /\ ran \in Seq(JobIds)
  BY DEF Holds, WorkerInv, WorkerTypeOK
<1>3. /\ s \in Seq(Addrs) /\ u \in Seq(Addrs) /\ Turned \in Seq(Addrs)
  BY <1>2, InParts
<1>4. Unpushed(p)
  BY <1>1 DEF Unpushed
<1>5. PICK a : a = node[p]
  OBVIOUS
<1>6. a \in live /\ a \in Addrs /\ job[a] = <<p, added[p]>> /\ ~Pushed(job[a])
      /\ job[a] \in JobIds
  <2>1. a \in live /\ job[a] = <<p, added[p]>>
    BY <1>2, <1>4, <1>5 DEF Owned
  <2>2. ~Pushed(job[a])
    BY <1>2, <1>4, <1>5, OwnNode
  <2>. QED  BY <1>2, <2>1, <2>2
<1>7. PICK s2 : s2 = <<a>> \o s
  OBVIOUS
<1>8. /\ s2 \in Seq(Addrs) /\ Len(s2) = Len(s) + 1 /\ Len(s) \in Nat /\ s2[1] = a /\ s2 # <<>>
      /\ \A i \in 2..(Len(s) + 1) : s2[i] = s[i - 1]
  BY <1>3, <1>6, <1>7, ConsIs
<1>9. Parts(s2, u)'
  <2>1. Linked(next, head, s)
    BY <1>2 DEF Parts
  <2>2. ASSUME NEW i \in 1..Len(s2)
        PROVE  next[s2[i]] = IF i = Len(s2) THEN NULL ELSE s2[i + 1]
    <3>1. CASE i = 1 /\ s = <<>>
      <4>1. Len(s2) = 1 /\ s2[i] = a
        BY <1>8, <3>1
      <4>2. next[a] = NULL
        BY <1>5, <2>1, <3>1 DEF Linked
      <4>. QED  BY <3>1, <4>1, <4>2
    <3>2. CASE i = 1 /\ s # <<>>
      <4>1. Len(s) >= 1
        BY <1>3, <1>8, <3>2, EmptySeq
      <4>2. next[s2[i]] = s[1]
        BY <1>5, <1>8, <2>1, <3>2 DEF Linked
      <4>3. s2[2] = s[1] /\ Len(s2) # 1
        BY <1>8, <4>1
      <4>. QED  BY <1>8, <3>2, <4>2, <4>3
    <3>3. CASE i # 1
      <4>1. i - 1 \in 1..Len(s) /\ s2[i] = s[i - 1] /\ (i - 1 = Len(s) <=> i = Len(s2))
        BY <1>8, <3>3
      <4>2. next[s[i - 1]] = IF i - 1 = Len(s) THEN NULL ELSE s[(i - 1) + 1]
        BY <2>1, <4>1 DEF Linked
      <4>3. i # Len(s2) => s2[i + 1] = s[(i - 1) + 1]
        <5>. SUFFICES ASSUME i # Len(s2) PROVE s2[i + 1] = s[(i - 1) + 1]
          OBVIOUS
        <5>1. i + 1 \in 2..(Len(s) + 1) /\ (i + 1) - 1 = (i - 1) + 1
          BY <1>8, <3>3
        <5>. QED  BY <1>8, <5>1
      <4>. QED  BY <4>1, <4>2, <4>3
    <3>. QED  BY <3>1, <3>2, <3>3
  <2>3. Linked(next, a, s2)
    BY <1>8, <2>2 DEF Linked
  <2>. QED  BY <1>1, <1>2, <1>5, <2>3 DEF Parts
<1>10. PICK q : q = Nodes(s, u)
  OBVIOUS
<1>11. PICK r : r = Append(q, a)
  OBVIOUS
<1>12. Nodes(s2, u)' = r
  <2>1. Cat(u, Turned, <<a>> \o s) = Append(Cat(u, Turned, s), a)
    BY <1>3, <1>6, CatPush
  <2>2. Turned' = Turned
    BY <1>1 DEF Turned
  <2>. QED  BY <1>7, <1>10, <1>11, <2>1, <2>2 DEF Nodes
<1>13. /\ q \in Seq(Addrs) /\ \A i \in 1..Len(q) : q[i] \in live /\ Pushed(job[q[i]])
       /\ \A i, k \in 1..Len(q) : job[q[i]] = job[q[k]] => i = k
  BY <1>2, <1>10 DEF Good
<1>14. /\ r \in Seq(Addrs) /\ Len(r) = Len(q) + 1 /\ r[Len(q) + 1] = a /\ Len(q) \in Nat
       /\ \A i \in 1..Len(q) : r[i] = q[i]
  BY <1>6, <1>11, <1>13
<1>15. \A j : Pushed(j) => Pushed(j)'
  <2>1. \A t \in Producers : Unpushed(t)' => Unpushed(t)
    BY <1>1, <1>2 DEF Unpushed
  <2>. QED  BY <1>1, <2>1, PushedStays
<1>16. \A i \in 1..Len(q) : job[q[i]] # job[a]
  BY <1>6, <1>13
<1>17. Pushed(job[a])'
  <2>1. ~Unpushed(p)'
    BY <1>1, <1>2 DEF Unpushed
  <2>2. added[p] \in Nat
    BY <1>2, MaxJobsAssumption
  <2>3. PICK j : j = job[a]
    OBVIOUS
  <2>4. j \in JobIds /\ j[1] = p /\ j[2] = added[p]
    BY <1>6, <2>3
  <2>5. Pushed(j)'
    BY <1>1, <2>1, <2>2, <2>4 DEF Pushed
  <2>6. job' = job
    BY <1>1
  <2>. QED  BY <2>3, <2>5, <2>6 DEF Pushed
<1>18. \A b : Pushed(job[b]) => Pushed(job[b])'
  <2>1. job' = job
    BY <1>1
  <2>2. ASSUME NEW b, Pushed(job[b]) PROVE Pushed(job[b])'
    <3>1. PICK j : j = job[b]
      OBVIOUS
    <3>2. Pushed(j)'
      BY <1>15, <2>2, <3>1
    <3>. QED  BY <2>1, <3>1, <3>2 DEF Pushed
  <2>. QED  BY <2>2
<1>19. Good(r)'
  <2>1. ASSUME NEW i \in 1..Len(r)
        PROVE  r[i] \in live' /\ Pushed(job[r[i]])'
    <3>1. CASE i = Len(q) + 1
      BY <1>1, <1>6, <1>14, <1>17, <3>1
    <3>2. CASE i # Len(q) + 1
      <4>1. i \in 1..Len(q) /\ r[i] = q[i]
        BY <1>14, <3>2
      <4>. QED  BY <1>1, <1>13, <1>18, <4>1
    <3>. QED  BY <3>1, <3>2
  <2>2. ASSUME NEW i \in 1..Len(r), NEW k \in 1..Len(r), job[r[i]] = job[r[k]]
        PROVE  i = k
    BY <1>13, <1>14, <1>16, <2>2
  <2>. QED  BY <1>1, <1>14, <2>1, <2>2 DEF Good
<1>20. Doomed(r)'
  <2>. SUFFICES ASSUME tpc = "delete"
       PROVE  /\ Head(flip) \in live /\ Pushed(job[Head(flip)])'
              /\ \A i \in 1..Len(r) : job[r[i]] # job[Head(flip)]
    BY <1>1 DEF Doomed
  <2>1. /\ Head(flip) \in live /\ Pushed(job[Head(flip)])
        /\ \A i \in 1..Len(q) : job[q[i]] # job[Head(flip)]
    BY <1>2, <1>10 DEF Doomed
  <2>2. Pushed(job[Head(flip)])'
    <3>1. PICK b : b = Head(flip) /\ b = Head(flip)'
      BY <1>1
    <3>2. Pushed(job[b])'
      BY <1>18, <2>1, <3>1
    <3>. QED  BY <3>1, <3>2
  <2>3. job[a] # job[Head(flip)]
    BY <1>6, <2>1
  <2>. QED  BY <1>14, <2>1, <2>2, <2>3
<1>21. Owned'
  BY <1>1, <1>2 DEF Owned, Unpushed
<1>22. RanPushed'
  BY <1>1, <1>2, <1>15 DEF RanPushed
<1>23. Holds(s2, u)'
  <2>1. Good(Nodes(s2, u))' /\ Doomed(Nodes(s2, u))'
    BY <1>12, <1>19, <1>20 DEF Good, Doomed
  <2>. QED  BY <1>9, <1>21, <1>22, <2>1 DEF Holds
<1>24. Moves(Jobs(Nodes(s, u)), Jobs(Nodes(s2, u))')
  <2>1. Jobs(Nodes(s2, u))' = Append(Jobs(q), job[a])
    <3>1. Jobs(r) = Append(Jobs(q), job[a])
      BY <1>2, <1>6, <1>11, <1>13, JobsAppend
    <3>2. Jobs(Nodes(s2, u))' = Jobs(r)
      BY <1>1, <1>12 DEF Jobs
    <3>. QED  BY <3>1, <3>2
  <2>2. \A i \in 1..Len(Jobs(q)) : Jobs(q)[i] # job[a]
    BY <1>2, <1>13, <1>16, JobsAre
  <2>3. \A i \in 1..Len(ran) : ran[i] # job[a]
    BY <1>2, <1>6 DEF RanPushed
  <2>. QED  BY <1>1, <1>6, <1>10, <2>1, <2>2, <2>3 DEF Moves
<1>. QED  BY <1>23, <1>24 DEF Steps

\* The compare-and-swap fails, or a job is added.
LEMMA PushSteps ==
  ASSUME WorkerInv, NEW s, NEW u, Holds(s, u), NEW p \in Producers, Push(p)
  PROVE  Steps(s, u)
<1>1. CASE head = next[node[p]]
  BY <1>1, PushedSteps
<1>2. CASE head # next[node[p]]
  <2>1. /\ ppc[p] = "push" /\ ppc' = [ppc EXCEPT ![p] = "link"]
        /\ UNCHANGED <<head, next, job, live, node, added, tpc, whead, flip, ran>>
    BY <1>2 DEF Push, workerVars
  <2>2. \A r \in Producers : Unpushed(r)' <=> Unpushed(r)
    BY <2>1 DEF Unpushed, WorkerInv, WorkerTypeOK
  <2>. QED  BY <2>1, <2>2, UnseenSteps
<1>. QED  BY <1>1, <1>2

-----------------------------------------------------------------------------
(* Steps of the worker that take the list apart, and the refinement.        *)

\* Nothing hangs on the null pointer.
LEMMA LinkedEmpty ==
  ASSUME NEW nx, NEW s, Linked(nx, NULL, s)
  PROVE  s = <<>>
  BY NullAssumption, TailIs DEF Linked

\* The null pointer is the empty list.
LEMMA EmptyLinked ==
  ASSUME NEW nx
  PROVE  Linked(nx, NULL, <<>>)
<1>1. PICK e : e = <<>>
  OBVIOUS
<1>2. e \in Seq(Addrs) /\ Len(e) = 0
  BY <1>1, EmptyIs
<1>3. Linked(nx, NULL, e)
  BY <1>1, <1>2 DEF Linked
<1>. QED  BY <1>1, <1>3

\* What the worker took is what it has to turn round.
LEMMA GrabSteps ==
  ASSUME WorkerInv, NEW s, NEW u, Holds(s, u), Grab
  PROVE  Steps(s, u)
<1>1. CASE head # whead
  <2>1. tpc \notin {"flip", "delete"} /\ tpc' \notin {"flip", "delete"}
        /\ UNCHANGED <<head, job, next, live, node, added, ran, flip, ppc>>
    BY <1>1 DEF Grab, addVars
  <2>. QED  BY <2>1, UnseenSteps DEF Unpushed
<1>2. CASE head = whead
  <2>1. /\ tpc = "grab" /\ head' = NULL /\ tpc' = IF whead = NULL THEN "loop" ELSE "flip"
        /\ UNCHANGED <<job, next, live, node, added, ran, flip, whead, ppc>>
    BY <1>2 DEF Grab, addVars
  <2>2. flip = <<>>
    BY <2>1 DEF WorkerInv, Drained
  <2>3. Linked(next, head, s) /\ Linked(next, NULL, u)
    BY <2>1 DEF Holds, Parts
  <2>4. u = <<>> /\ s \in Seq(Addrs)
    BY <2>3, LinkedEmpty DEF Linked
  <2>5. Parts(<<>>, s)'
    <3>1. Linked(next, NULL, <<>>)
      BY EmptyLinked
    <3>2. Linked(next, IF tpc' = "flip" THEN whead ELSE NULL, s)
      BY <1>2, <2>1, <2>3
    <3>. QED  BY <2>1, <3>1, <3>2 DEF Parts
  <2>6. Nodes(<<>>, s)' = Nodes(s, u)
    <3>1. Turned = <<>> /\ Turned' = <<>>
      BY <2>1, <2>2 DEF Turned
    <3>2. Cat(s, <<>>, <<>>) = Cat(<<>>, <<>>, s)
      BY <2>4, CatGrab
    <3>. QED  BY <2>4, <3>1, <3>2 DEF Nodes
  <2>7. Owned'
    BY <2>1 DEF Holds, Owned, Unpushed
  <2>8. \A j : Pushed(j) => Pushed(j)'
    BY <2>1, PushedStays DEF Unpushed
  <2>9. \A i \in 1..Len(Nodes(s, u)) : Nodes(s, u)[i] \in live
    BY DEF Holds, Good
  <2>10. tpc' # "delete"
    BY <2>1
  <2>. QED  BY <2>1, <2>5, <2>6, <2>7, <2>8, <2>9, <2>10, QuietSteps
<1>. QED  BY <1>1, <1>2

\* The newest node goes before those that are turned.
LEMMA Reverse1Steps ==
  ASSUME WorkerInv, NEW s, NEW u, Holds(s, u), Reverse1
  PROVE  Steps(s, u)
<1>1. /\ tpc = "flip"
      /\ UNCHANGED <<head, job, next, live, node, added, ran, ppc>>
  BY DEF Reverse1, queueVars, addVars
<1>2. /\ Linked(next, head, s) /\ Linked(next, whead, u)
      /\ s \in Seq(Addrs) /\ u \in Seq(Addrs) /\ flip \in Seq(Addrs)
  BY <1>1 DEF Holds, Parts, Linked, WorkerInv, WorkerTypeOK
<1>3. Owned'
  BY <1>1 DEF Holds, Owned, Unpushed
<1>4. \A j : Pushed(j) => Pushed(j)'
  BY <1>1, PushedStays DEF Unpushed
<1>5. \A i \in 1..Len(Nodes(s, u)) : Nodes(s, u)[i] \in live
  BY DEF Holds, Good
<1>6. Turned = flip
  BY <1>1 DEF Turned
<1>7. CASE whead # NULL
  <2>1. flip' = <<whead>> \o flip /\ whead' = next[whead] /\ tpc' = "flip"
    BY <1>1, <1>7 DEF Reverse1
  <2>2. u # <<>> /\ u[1] = whead
    BY <1>2, <1>7 DEF Linked
  <2>3. PICK v : v = Tail(u)
    OBVIOUS
  <2>4. /\ v \in Seq(Addrs) /\ Len(u) \in Nat \ {0} /\ Len(v) = Len(u) - 1
        /\ \A i \in 1..(Len(u) - 1) : v[i] = u[i + 1]
    BY <1>2, <2>2, <2>3, TailIs
  <2>5. \A i \in 1..Len(u) : next[u[i]] = IF i = Len(u) THEN NULL ELSE u[i + 1]
    BY <1>2 DEF Linked
  <2>6. Linked(next, next[whead], v)
    <3>1. next[whead] = IF v = <<>> THEN NULL ELSE v[1]
      <4>1. CASE v = <<>>
        <5>1. Len(u) = 1
          BY <2>4, <4>1
        <5>. QED  BY <2>2, <2>5, <4>1, <5>1
      <4>2. CASE v # <<>>
        <5>1. Len(v) # 0 /\ Len(v) \in Nat
          BY <2>4, <4>2, EmptySeq
        <5>2. 1 \in 1..Len(u) /\ 1 # Len(u) /\ 1 \in 1..(Len(u) - 1)
          BY <2>4, <5>1
        <5>. QED  BY <2>2, <2>4, <2>5, <4>2, <5>2
      <4>. QED  BY <4>1, <4>2
    <3>2. ASSUME NEW i \in 1..Len(v)
          PROVE  next[v[i]] = IF i = Len(v) THEN NULL ELSE v[i + 1]
      <4>1. i \in 1..(Len(u) - 1) /\ i + 1 \in 1..Len(u) /\ (i + 1 = Len(u) <=> i = Len(v))
        BY <2>4
      <4>2. v[i] = u[i + 1]
        BY <2>4, <4>1
      <4>3. next[u[i + 1]] = IF i + 1 = Len(u) THEN NULL ELSE u[(i + 1) + 1]
        BY <2>5, <4>1
      <4>4. i # Len(v) => v[i + 1] = u[(i + 1) + 1]
        <5>. SUFFICES ASSUME i # Len(v) PROVE v[i + 1] = u[(i + 1) + 1]
          OBVIOUS
        <5>1. i + 1 \in 1..(Len(u) - 1)
          BY <2>4, <4>1
        <5>. QED  BY <2>4, <5>1
      <4>. QED  BY <4>1, <4>2, <4>3, <4>4
    <3>. QED  BY <2>4, <3>1, <3>2 DEF Linked
  <2>7. Parts(s, v)'
    BY <1>1, <1>2, <2>1, <2>6 DEF Parts
  <2>8. Nodes(s, v)' = Nodes(s, u)
    <3>1. Turned' = <<whead>> \o flip
      BY <2>1 DEF Turned
    <3>2. Cat(v, <<whead>> \o flip, s) = Cat(u, flip, s)
      BY <1>2, <2>2, <2>3, CatTurn
    <3>. QED  BY <1>6, <3>1, <3>2 DEF Nodes
  <2>9. tpc' # "delete"
    BY <2>1
  <2>. QED  BY <1>1, <1>3, <1>4, <1>5, <2>7, <2>8, <2>9, QuietSteps
<1>8. CASE whead = NULL
  <2>1. tpc' = "run" /\ UNCHANGED <<flip, whead>>
    BY <1>8 DEF Reverse1
  <2>2. Parts(s, u)'
    BY <1>1, <1>2, <1>8, <2>1 DEF Parts
  <2>3. Nodes(s, u)' = Nodes(s, u)
    BY <1>6, <2>1 DEF Nodes, Turned
  <2>4. tpc' # "delete"
    BY <2>1
  <2>. QED  BY <1>1, <1>3, <1>4, <1>5, <2>2, <2>3, <2>4, QuietSteps
<1>. QED  BY <1>7, <1>8

\* The oldest job runs.
LEMMA CallSteps ==
  ASSUME WorkerInv, NEW s, NEW u, Holds(s, u), Call
  PROVE  Steps(s, u)
<1>1. /\ tpc = "run" /\ tpc' = "delete" /\ flip # <<>>
      /\ ran' = Append(ran, job[Head(flip)])
      /\ UNCHANGED <<head, job, next, live, node, added, flip, whead, ppc>>
  BY DEF Call, queueVars, addVars
<1>2. /\ Linked(next, head, s) /\ Linked(next, NULL, u) /\ Good(Nodes(s, u))
      /\ s \in Seq(Addrs) /\ flip \in Seq(Addrs) /\ ran \in Seq(JobIds)
      /\ job \in [Addrs -> JobIds] /\ live \subseteq Addrs /\ Owned /\ RanPushed
  BY <1>1 DEF Holds, Parts, Linked, WorkerInv, WorkerTypeOK
<1>3. u = <<>>
  BY <1>2, LinkedEmpty
<1>4. PICK q, r, a : q = Nodes(s, u) /\ r = Tail(q) /\ a = Head(flip)
  OBVIOUS
<1>5. Turned = flip /\ Turned' = Tail(flip)
  BY <1>1 DEF Turned
<1>6. q = Cat(<<>>, flip, s) /\ q # <<>> /\ Head(q) = a /\ Nodes(s, u)' = r
  <2>1. q = Cat(<<>>, flip, s)
    BY <1>3, <1>4, <1>5 DEF Nodes
  <2>2. /\ Cat(<<>>, Tail(flip), s) = Tail(Cat(<<>>, flip, s))
        /\ Head(Cat(<<>>, flip, s)) = Head(flip) /\ Cat(<<>>, flip, s) # <<>>
    BY <1>1, <1>2, CatCall
  <2>3. Nodes(s, u)' = Cat(<<>>, Tail(flip), s)
    BY <1>3, <1>5 DEF Nodes
  <2>. QED  BY <1>4, <2>1, <2>2, <2>3
<1>7. /\ q \in Seq(Addrs) /\ \A i \in 1..Len(q) : q[i] \in live /\ Pushed(job[q[i]])
      /\ \A i, k \in 1..Len(q) : job[q[i]] = job[q[k]] => i = k
  BY <1>2, <1>4 DEF Good
<1>8. /\ r \in Seq(Addrs) /\ Len(q) \in Nat \ {0} /\ Len(r) = Len(q) - 1 /\ a = q[1]
      /\ \A i \in 1..(Len(q) - 1) : r[i] = q[i + 1]
  BY <1>4, <1>6, <1>7, TailIs
<1>9. \A j : Pushed(j) => Pushed(j)'
  BY <1>1, PushedStays DEF Unpushed
<1>10. \A b : Pushed(job[b]) => Pushed(job[b])'
  BY <1>1 DEF Pushed, Unpushed
<1>11. ASSUME NEW i \in 1..Len(r)
       PROVE  /\ i + 1 \in 1..Len(q) /\ r[i] = q[i + 1] /\ i + 1 # 1
              /\ r[i] \in live /\ Pushed(job[r[i]])
  <2>1. i + 1 \in 1..Len(q) /\ i \in 1..(Len(q) - 1) /\ i + 1 # 1
    BY <1>8
  <2>2. r[i] = q[i + 1]
    BY <1>8, <2>1
  <2>. QED  BY <1>7, <2>1, <2>2
<1>12. Good(r)'
  <2>1. ASSUME NEW i \in 1..Len(r), NEW k \in 1..Len(r), job[r[i]] = job[r[k]]
        PROVE  i = k
    <3>1. i + 1 = k + 1
      BY <1>7, <1>11, <2>1
    <3>. QED  BY <1>8, <3>1
  <2>. QED  BY <1>1, <1>8, <1>10, <1>11, <2>1 DEF Good
<1>13. 1 \in 1..Len(q) /\ a \in live /\ Pushed(job[a])
  BY <1>7, <1>8
<1>14. Doomed(r)'
  <2>1. ASSUME NEW i \in 1..Len(r)
        PROVE  job[r[i]] # job[a]
    BY <1>7, <1>8, <1>11, <1>13
  <2>. QED  BY <1>1, <1>4, <1>10, <1>13, <2>1 DEF Doomed
<1>15. Owned'
  BY <1>1, <1>2 DEF Owned, Unpushed
<1>16. job[a] \in JobIds
  BY <1>2, <1>13
<1>17. RanPushed'
  <2>1. PICK j \in JobIds : j = job[a]
    BY <1>16
  <2>2. PICK x : x = ran'
    OBVIOUS
  <2>3. /\ Len(x) = Len(ran) + 1 /\ x[Len(ran) + 1] = j /\ Len(ran) \in Nat
        /\ \A i \in 1..Len(ran) : x[i] = ran[i]
    BY <1>1, <1>2, <1>4, <2>1, <2>2
  <2>4. Pushed(j)'
    BY <1>9, <1>13, <2>1
  <2>5. ASSUME NEW i \in 1..Len(x)
        PROVE  Pushed(x[i])'
    <3>1. CASE i = Len(ran) + 1
      <4>1. x[i] = j
        BY <2>3, <3>1
      <4>. QED  BY <2>4, <4>1
    <3>2. CASE i # Len(ran) + 1
      <4>1. i \in 1..Len(ran) /\ x[i] = ran[i]
        BY <2>3, <3>2
      <4>2. PICK k : k = ran[i]
        OBVIOUS
      <4>3. Pushed(k)'
        BY <1>2, <1>9, <4>1, <4>2 DEF RanPushed
      <4>4. x[i] = k
        BY <4>1, <4>2
      <4>. QED  BY <4>3, <4>4
    <3>. QED  BY <3>1, <3>2
  <2>. QED  BY <2>2, <2>5 DEF RanPushed
<1>18. Parts(s, u)'
  BY <1>1, <1>2 DEF Parts
<1>19. Holds(s, u)'
  <2>1. Good(Nodes(s, u))' /\ Doomed(Nodes(s, u))'
    BY <1>6, <1>12, <1>14 DEF Good, Doomed
  <2>. QED  BY <1>15, <1>17, <1>18, <2>1 DEF Holds
<1>20. Moves(Jobs(Nodes(s, u)), Jobs(Nodes(s, u))')
  <2>1. /\ Jobs(r) = Tail(Jobs(q)) /\ Jobs(q) # <<>>
        /\ Head(Jobs(q)) = job[a]
    BY <1>2, <1>4, <1>6, <1>7, JobsTail
  <2>2. Jobs(Nodes(s, u))' = Jobs(r)
    BY <1>1, <1>6 DEF Jobs
  <2>. QED  BY <1>1, <1>4, <2>1, <2>2 DEF Moves
<1>. QED  BY <1>19, <1>20 DEF Steps

\* The node that goes is not in the list, and no producer owns it.
LEMMA DeleteSteps ==
  ASSUME WorkerInv, NEW s, NEW u, Holds(s, u), Delete
  PROVE  Steps(s, u)
<1>1. /\ tpc = "delete" /\ tpc' = "run" /\ live' = live \ {Head(flip)} /\ flip' = Tail(flip)
      /\ UNCHANGED <<head, job, next, node, added, ran, whead, ppc>>
  BY DEF Delete, addVars
<1>2. /\ Linked(next, head, s) /\ Linked(next, NULL, u) /\ Good(Nodes(s, u))
      /\ Doomed(Nodes(s, u)) /\ Owned
  BY <1>1 DEF Holds, Parts
<1>3. Parts(s, u)'
  BY <1>1, <1>2 DEF Parts
<1>4. Nodes(s, u)' = Nodes(s, u)
  <2>1. Turned' = Turned
    BY <1>1 DEF Turned
  <2>. QED  BY <2>1 DEF Nodes
<1>5. \A j : Pushed(j) => Pushed(j)'
  BY <1>1, PushedStays DEF Unpushed
<1>6. Owned'
  <2>1. ASSUME NEW p \in Producers, Unpushed(p)
        PROVE  node[p] # Head(flip)
    BY <1>1, <1>2, <2>1, OwnNode DEF Doomed
  <2>. QED  BY <1>1, <1>2, <2>1 DEF Owned, Unpushed
<1>7. \A i \in 1..Len(Nodes(s, u)) : Nodes(s, u)[i] \in live'
  BY <1>1, <1>2 DEF Good, Doomed
<1>. QED  BY <1>1, <1>3, <1>4, <1>5, <1>6, <1>7, QuietSteps

-----------------------------------------------------------------------------

\* Every step.
LEMMA NextSteps ==
  ASSUME WorkerInv, NEW s, NEW u, Holds(s, u), [WorkerNext]_safeVars
  PROVE  Steps(s, u)
<1>1. CASE Worker
  BY <1>1, LoopSteps, ReadFlagSteps, ShutSteps, DownSteps, TakeSteps, GrabSteps,
     Reverse1Steps, CallSteps, DeleteSteps, ReturnSteps DEF Worker
<1>2. CASE TimeOut
  BY <1>2, TimeOutSteps
<1>3. CASE Finished \/ UNCHANGED safeVars
  BY <1>3, StutterSteps DEF Finished
<1>4. ASSUME NEW p \in Producers, New(p) \/ Adding(p)
      PROVE  Steps(s, u)
  BY <1>4, NewSteps, LinkSteps, PushSteps, OpenSteps, UpSteps DEF Adding
<1>. QED  BY <1>1, <1>2, <1>3, <1>4 DEF WorkerNext

\* Nothing is added at first.
LEMMA InitHolds ==
  ASSUME WorkerInit
  PROVE  Holds(<<>>, <<>>) /\ Nodes(<<>>, <<>>) = <<>>
<1>1. Parts(<<>>, <<>>)
  BY EmptyLinked DEF WorkerInit, Parts
<1>2. Nodes(<<>>, <<>>) = <<>>
  <2>1. Turned = <<>>
    BY DEF WorkerInit, Turned
  <2>2. PICK e : e = <<>>
    OBVIOUS
  <2>3. e \in Seq(Addrs) /\ Len(e) = 0
    BY <2>2, EmptyIs
  <2>4. CatOf(Cat(e, e, e), e, e, e)
    BY <2>3, CatIs
  <2>5. Cat(e, e, e) \in Seq(Addrs) /\ Len(Cat(e, e, e)) = 0
    BY <2>3, <2>4 DEF CatOf
  <2>6. Cat(e, e, e) = e
    BY <2>2, <2>5, EmptySeq
  <2>. QED  BY <2>1, <2>2, <2>6 DEF Nodes
<1>3. Good(Nodes(<<>>, <<>>)) /\ Doomed(Nodes(<<>>, <<>>))
  <2>1. PICK e : e = <<>> /\ e = Nodes(<<>>, <<>>)
    BY <1>2
  <2>2. e \in Seq(Addrs) /\ Len(e) = 0
    BY <2>1, EmptyIs
  <2>3. Good(e)
    BY <2>2 DEF Good
  <2>4. Doomed(e)
    BY DEF Doomed, WorkerInit
  <2>. QED  BY <2>1, <2>3, <2>4
<1>4. Owned /\ RanPushed
  BY EmptyIs DEF WorkerInit, Owned, RanPushed, Unpushed
<1>. QED  BY <1>1, <1>2, <1>3, <1>4 DEF Holds

\* The invariant of the list holds initially.
LEMMA ListInit == WorkerInit => ListInv
  BY InitHolds DEF ListInv

\* Every step keeps the invariant of the list.
LEMMA ListNext == WorkerInv /\ ListInv /\ [WorkerNext]_safeVars => ListInv'
<1>. SUFFICES ASSUME WorkerInv, ListInv, [WorkerNext]_safeVars PROVE ListInv'
  OBVIOUS
<1>1. PICK s, u : Holds(s, u)
  BY DEF ListInv
<1>2. PICK s2, u2 : Holds(s2, u2)'
  BY <1>1, NextSteps DEF Steps
<1>. QED  BY <1>2 DEF ListInv

\* The list is always a chain of allocated nodes with different jobs.
THEOREM ListInvariance == WorkerSpec => []ListInv
  BY WorkerInvariance, ListInit, ListNext, PTL DEF WorkerSpec

\* What the refinement maps the list to.
LEMMA QueueIs ==
  WorkerInv => \A s, u : Holds(s, u) =>
           [i \in DOMAIN Pending |-> job[Pending[i]]] = Jobs(Nodes(s, u))
<1>. SUFFICES ASSUME WorkerInv, NEW s, NEW u, Holds(s, u)
     PROVE  [i \in DOMAIN Pending |-> job[Pending[i]]] = Jobs(Nodes(s, u))
  OBVIOUS
<1>1. Pending = Nodes(s, u)
  BY PendingIs
<1>2. Nodes(s, u) \in Seq(Addrs)
  BY DEF Holds, Good
<1>. QED  BY <1>1, <1>2 DEF Jobs

\* The same after a step.
LEMMA QueueIsNext ==
  (WorkerInv => \A s, u : Holds(s, u) =>
            [i \in DOMAIN Pending |-> job[Pending[i]]] = Jobs(Nodes(s, u)))'
  BY QueueIs, PTL

\* Every step is one of the queue, or none.
LEMMA MapsNext ==
  WorkerInv /\ WorkerInv' /\ ListInv /\ [WorkerNext]_safeVars => [Fifo!Next]_(Fifo!fifoVars)
<1>. SUFFICES ASSUME WorkerInv, WorkerInv', ListInv, [WorkerNext]_safeVars
     PROVE  Fifo!Next \/ UNCHANGED Fifo!fifoVars
  OBVIOUS
<1>1. PICK s, u : Holds(s, u)
  BY DEF ListInv
<1>2. PICK s2, u2 : /\ Holds(s2, u2)'
                    /\ Moves(Jobs(Nodes(s, u)), Jobs(Nodes(s2, u2))')
  BY <1>1, NextSteps DEF Steps
<1>. DEFINE x == [i \in DOMAIN Pending |-> job[Pending[i]]]
<1>3. x = Jobs(Nodes(s, u)) /\ x' = Jobs(Nodes(s2, u2))'
  BY <1>1, <1>2, QueueIs, QueueIsNext
<1>4. Moves(x, x')
  BY <1>2, <1>3
<1>5. x \in Seq(JobIds) /\ ran \in Seq(JobIds)
  BY <1>1, <1>3, JobsAre DEF Holds, Good, WorkerInv, WorkerTypeOK
<1>6. DOMAIN x = 1..Len(x) /\ DOMAIN ran = 1..Len(ran)
  BY <1>5
<1>. QED  BY <1>4, <1>6 DEF Moves, Fifo!Next, Fifo!Add, Fifo!Run, Fifo!fifoVars

\* The queue is empty at first.
LEMMA MapsInit == WorkerInit => Fifo!Init
<1>. SUFFICES ASSUME WorkerInit PROVE Fifo!Init
  OBVIOUS
<1>1. WorkerInv /\ Holds(<<>>, <<>>) /\ Nodes(<<>>, <<>>) = <<>>
  BY WorkerInitInv, InitHolds
<1>2. [i \in DOMAIN Pending |-> job[Pending[i]]] = Jobs(<<>>)
  BY <1>1, QueueIs
<1>3. Jobs(<<>>) = <<>>
  BY DEF Jobs
<1>. QED  BY <1>2, <1>3 DEF WorkerInit, Fifo!Init

\* The lock-free list and the worker are a first-in-first-out queue, whatever
\* addresses are used again.
THEOREM WorkerIsFifo == WorkerSpec => ImplementsFifo
<1>1. WorkerInit => Fifo!Init
  BY MapsInit
<1>2. WorkerInv /\ WorkerInv' /\ ListInv /\ [WorkerNext]_safeVars => [Fifo!Next]_(Fifo!fifoVars)
  BY MapsNext
<1>. QED  BY <1>1, <1>2, WorkerInvariance, ListInvariance, PTL DEF WorkerSpec, ImplementsFifo, Fifo!Spec
=============================================================================
