-------------------------------- MODULE Tree --------------------------------
(***************************************************************************)
(* The numbering of a tree of values (pia_server_t in                      *)
(* piagent/src/pia_server.cpp), which a server and its proxies share.      *)
(*                                                                         *)
(* Every node has three numbers: dseq_, given to its value when it last    *)
(* changed; nseq_, given to its list of children when that last changed;   *)
(* and tseq_, the greatest number in its subtree, by which a proxy sees    *)
(* where its copy is out of date.  A number stands for the value it was    *)
(* given to.  Nodes are named by their paths; a closed node is one that is *)
(* no longer in its parent's children_.                                    *)
(***************************************************************************)
EXTENDS Integers, Sequences, SequencesExt, FiniteSetsExt

CONSTANT Order      \* the paths that a tree may have, parents first, and
                    \* the children of a node as std::map has them

Nodes == ToSet(Order)
Root == <<>>
ParentOf(n) == Front(n)

ASSUME OrderAssumption ==
  /\ Order \in Seq(Seq(Nat))
  /\ Root \in Nodes
  /\ \A n \in Nodes : Len(n) <= 2 /\ (n # Root => ParentOf(n) \in Nodes)
  /\ \A i, j \in DOMAIN Order :
       i < j => /\ Order[i] # Order[j]
                /\ Order[i] # Root => ParentOf(Order[i]) # Order[j]
                /\ Len(Order[i]) = Len(Order[j]) /\ ParentOf(Order[i]) = ParentOf(Order[j])
                     => Last(Order[i]) < Last(Order[j])

Absent == [open |-> FALSE, vis |-> FALSE, dseq |-> 0, nseq |-> 0, tseq |-> 0]

\* The elements of a sequence that are in S.
Among(s, S) ==
  LET f[i \in 0..Len(s)] ==
        IF i = 0 THEN <<>> ELSE IF s[i] \in S THEN Append(f[i - 1], s[i]) ELSE f[i - 1]
  IN  f[Len(s)]

\* Where a node's children may be, and the nodes above it, from its parent to
\* the root.
Below == [n \in Nodes |-> {c \in Nodes \ {Root} : ParentOf(c) = n}]
Above == [n \in Nodes |-> [i \in 1..Len(n) |-> SubSeq(n, 1, Len(n) - i)]]

\* children_, as a set and as the program goes through it.
Kids(t, n) == {c \in Below[n] : t[c].open}
Children(t, n) == Among(Order, Kids(t, n))
Visible(t, n) == Among(Order, {c \in Kids(t, n) : t[c].vis})

\* The nodes above n that a loop over parents comes to which goes on while
\* they are in S.
Climb(n, S) ==
  {Above[n][i] : i \in {h \in DOMAIN Above[n] : \A k \in 1..h : Above[n][k] \in S}}

\* The loop of change_slow(), set_nseq() and the constructor over parents.
RaiseParents(t, n, s) ==
  LET up == Climb(n, {k \in Nodes : t[k].tseq < s})
  IN  IF up = {} THEN t
      ELSE [m \in Nodes |-> IF m \in up THEN [t[m] EXCEPT !.tseq = s] ELSE t[m]]

\* Mutant of Raise: the number is given to the node alone.
RaiseNode(t, n, s) == IF s > t[n].tseq THEN [t EXCEPT ![n].tseq = s] ELSE t

Raise(t, n, s) ==
  IF s > t[n].tseq THEN RaiseParents([t EXCEPT ![n].tseq = s], n, s) ELSE t

\* change_slow(), of data that stands for the number s.
Change(t, n, s) == Raise([t EXCEPT ![n].dseq = s], n, s)

SetNseq(t, n, s) == Raise([t EXCEPT ![n].nseq = s], n, s)

\* The constructor of a child, with the number of its data.
NewChild(t, n, s) ==
  RaiseParents([t EXCEPT ![n] = [Absent EXCEPT !.open = TRUE, !.dseq = s, !.tseq = s]], n, s)

\* childadded(), by way of setvisible(true).
Show(t, n) ==
  LET s  == t[n].tseq
      up == IF s > t[ParentOf(n)].tseq THEN Climb(n, {k \in Nodes : t[k].tseq <= s}) ELSE {}
  IN  [m \in Nodes |-> IF m = n THEN [t[m] EXCEPT !.vis = TRUE]
                       ELSE IF m \in up THEN [t[m] EXCEPT !.tseq = s] ELSE t[m]]

\* recalc_tseq(): the node's own numbers are not looked at.
Recalc(t, n) ==
  [t EXCEPT ![n].tseq = Max({0} \cup {t[c].tseq : c \in {k \in Kids(t, n) : t[k].vis}})]

\* childgone() of n, which has left its parent's children_.
ChildGone(t, n) ==
  LET s  == t[n].tseq
      up == Climb(n, {k \in Nodes : t[k].tseq = s})
      f[i \in 0..Len(n)] ==
        IF i = 0 THEN t
        ELSE IF Above[n][i] \in up THEN Recalc(f[i - 1], Above[n][i]) ELSE f[i - 1]
  IN  f[Len(n)]

\* The first steps of close0(): the node leaves its parent's children_.
Erase(t, n) == [t EXCEPT ![n].open = FALSE]

Tree == [Nodes -> [open : BOOLEAN, vis : BOOLEAN, dseq : Nat, nseq : Nat, tseq : Nat]]

\* What clients see of a subtree: paths and values (findvisible()).
Way == [n \in Nodes |-> {k \in Nodes : IsPrefix(k, n)}]
Under == [n \in Nodes |-> {k \in Nodes : IsPrefix(n, k)}]

Seen(t, n) ==
  {<<m, t[m].dseq>> : m \in {k \in Under[n] : t[k].open /\ \A j \in Way[k] : t[j].vis}}
=============================================================================
