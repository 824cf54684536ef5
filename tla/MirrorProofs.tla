---------------------------- MODULE MirrorProofs ----------------------------
(***************************************************************************)
(* For any tree of three levels, and any number of changes and of lost     *)
(* packets: what a proxy shows while it says that it is in sync.           *)
(***************************************************************************)
EXTENDS Mirror, TLAPS, WellFoundedInduction, FiniteSetTheorems, SequenceTheorems

-----------------------------------------------------------------------------
(* Induction up to a number, and recursive functions.                       *)

\* A set of numbers that is not empty has a least one.
LEMMA Least ==
  ASSUME NEW S \in SUBSET Nat, S # {}
  PROVE  \E m \in S : \A k \in S : m <= k
<1>. DEFINE R == OpToRel(<, Nat)
<1>1. IsWellFoundedOn(R, Nat)
  BY ONLY NatLessThanWellFounded, Zenon
<1>2. \A k, m \in Nat : k < m => <<k, m>> \in R
  BY DEF OpToRel
<1>. HIDE DEF R
<1>3. PICK m \in S : \A k \in S : <<k, m>> \notin R
  BY <1>1, WFMin
<1>4. \A k \in S : ~(k < m)
  BY <1>2, <1>3
<1>. QED  BY <1>3, <1>4

\* What holds of 0 and passes from each number to the next holds up to n.
LEMMA UpTo ==
  ASSUME NEW n \in Nat, NEW H, 0 \in H, \A i \in 1..n : i - 1 \in H => i \in H
  PROVE  \A i \in 0..n : i \in H
<1>. DEFINE S == {i \in 0..n : i \notin H}
<1>. SUFFICES ASSUME S # {}
              PROVE  FALSE
  OBVIOUS
<1>1. PICK m \in S : \A k \in S : m <= k
  <2>1. S \in SUBSET Nat
    OBVIOUS
  <2>. HIDE DEF S
  <2>. QED  BY <2>1, Least
<1>2. m \in 1..n /\ m - 1 \in 0..n /\ m - 1 \notin S
  BY <1>1
<1>. QED  BY <1>2

IsFold(f, n, V, b, g) ==
  f \in [0..n -> V] /\ f[0] = b /\ \A i \in 1..n : f[i] = g[i][f[i - 1]]

\* A function that is defined from its value at the number before exists: g
\* has the steps.
LEMMA FoldExists ==
  ASSUME NEW n \in Nat, NEW V, NEW b \in V, NEW g \in [1..n -> [V -> V]]
  PROVE  \E f : IsFold(f, n, V, b, g)
<1>. DEFINE P(m) == \E f \in [0..m -> V] : f[0] = b /\ \A i \in 1..m : f[i] = g[i][f[i - 1]]
            H == {m \in 0..n : P(m)}
<1>1. 0 \in H
  <2>1. [i \in 0..0 |-> b] \in [0..0 -> V]
    OBVIOUS
  <2>2. [i \in 0..0 |-> b][0] = b
    OBVIOUS
  <2>3. \A i \in 1..0 : FALSE
    OBVIOUS
  <2>4. P(0)
    BY <2>1, <2>2, <2>3, Zenon
  <2>. HIDE DEF P
  <2>. QED  BY <2>4
<1>2. ASSUME NEW m \in 1..n, m - 1 \in H
      PROVE  m \in H
  <2>1. PICK f \in [0..(m - 1) -> V] : f[0] = b /\ \A i \in 1..(m - 1) : f[i] = g[i][f[i - 1]]
    BY <1>2
  <2>. DEFINE e == g[m][f[m - 1]]
              h == [i \in 0..m |-> IF i = m THEN e ELSE f[i]]
  <2>2. e \in V
    <3>1. m - 1 \in 0..(m - 1)
      OBVIOUS
    <3>2. f[m - 1] \in V /\ g[m] \in [V -> V]
      BY <2>1, <3>1
    <3>. QED  BY <3>2
  <2>. HIDE DEF e
  <2>3. h \in [0..m -> V]
    BY <2>1, <2>2
  <2>4. h[0] = b
    BY <2>1
  <2>5. ASSUME NEW i \in 1..m
        PROVE  h[i] = g[i][h[i - 1]]
    <3>1. CASE i = m
      <4>1. h[i] = e /\ h[i - 1] = f[m - 1]
        BY <3>1
      <4>. QED  BY <3>1, <4>1 DEF e
    <3>2. CASE i # m
      <4>1. i \in 1..(m - 1) /\ i - 1 \in 0..m /\ i - 1 # m
        BY <3>2
      <4>2. h[i] = f[i] /\ h[i - 1] = f[i - 1]
        BY <3>2, <4>1
      <4>. QED  BY <2>1, <4>1, <4>2
    <3>. QED  BY <3>1, <3>2
  <2>. HIDE DEF h
  <2>6. P(m)
    BY <2>3, <2>4, <2>5, Zenon
  <2>. HIDE DEF P
  <2>. QED  BY <2>6
<1>. HIDE DEF H
<1>3. \A m \in 1..n : m - 1 \in H => m \in H
  BY <1>2
<1>4. \A m \in 0..n : m \in H
  BY <1>1, <1>3, UpTo
<1>5. P(n)
  BY <1>4 DEF H
<1>6. PICK f \in [0..n -> V] : f[0] = b /\ \A i \in 1..n : f[i] = g[i][f[i - 1]]
  BY <1>5
<1>7. IsFold(f, n, V, b, g)
  BY <1>6 DEF IsFold
<1>. QED  BY <1>7

\* Two sequences with the same elements are the same.
LEMMA SameElements ==
  ASSUME NEW X, NEW s \in Seq(X), NEW u \in Seq(X), Len(s) = Len(u),
         \A i \in 1..Len(s) : s[i] = u[i]
  PROVE  s = u
  BY SMT

-----------------------------------------------------------------------------
(* Paths.  Top and Low are the nodes one and two steps below the root.      *)

Top == {n \in Nodes : Len(n) = 1}
Low == {n \in Nodes : Len(n) = 2}

LEMMA Paths ==
  /\ Root \in Nodes
  /\ \A n \in Nodes : n \in Seq(Nat) /\ Len(n) \in {0, 1, 2}
  /\ \A n \in Nodes : Len(n) = 0 <=> n = Root
  /\ \A n \in Nodes \ {Root} : /\ ParentOf(n) \in Nodes
                               /\ ParentOf(n) = SubSeq(n, 1, Len(n) - 1)
                               /\ Len(ParentOf(n)) = Len(n) - 1
<1>1. Root \in Nodes /\ \A n \in Nodes : Len(n) <= 2 /\ (n # Root => ParentOf(n) \in Nodes)
  BY OrderAssumption
<1>2. \A n \in Nodes : n \in Seq(Nat)
  BY OrderAssumption DEF Nodes, ToSet
<1>. HIDE DEF Nodes
<1>3. ASSUME NEW n \in Nodes
      PROVE  Len(n) \in {0, 1, 2}
  <2>1. n \in Seq(Nat) /\ Len(n) <= 2
    BY <1>1, <1>2
  <2>2. PICK k \in Nat : k = Len(n)
    BY <2>1
  <2>3. k \in {0, 1, 2}
    BY <2>1, <2>2
  <2>. QED  BY <2>2, <2>3
<1>4. \A n \in Nodes : Len(n) = 0 <=> n = Root
  BY <1>2 DEF Root
<1>5. ASSUME NEW n \in Nodes \ {Root}
      PROVE  ParentOf(n) = SubSeq(n, 1, Len(n) - 1) /\ Len(ParentOf(n)) = Len(n) - 1
  <2>1. n \in Seq(Nat) /\ Len(n) \in {1, 2}
    BY <1>2, <1>3, <1>4
  <2>2. Len(SubSeq(n, 1, Len(n) - 1)) = Len(n) - 1
    BY <2>1, SubSeqProperties
  <2>. QED  BY <2>2 DEF ParentOf, Front
<1>. QED  BY <1>1, <1>2, <1>3, <1>4, <1>5

LEMMA Levels ==
  /\ Nodes = {Root} \cup Top \cup Low
  /\ Root \notin Top /\ Root \notin Low /\ Top \cap Low = {}
  /\ \A n \in Top : n \in Nodes /\ n # Root /\ ParentOf(n) = Root
  /\ \A n \in Low : n \in Nodes /\ n # Root /\ ParentOf(n) \in Top
<1>. USE Paths
<1>1. Root \notin Top /\ Root \notin Low /\ Top \cap Low = {}
  BY DEF Top, Low, Root
<1>2. \A n \in Nodes : n = Root \/ n \in Top \/ n \in Low
  BY DEF Top, Low
<1>3. ASSUME NEW n \in Top
      PROVE  n \in Nodes /\ n # Root /\ ParentOf(n) = Root
  <2>1. n \in Nodes /\ n # Root /\ Len(n) = 1
    BY <1>1 DEF Top
  <2>2. ParentOf(n) \in Nodes /\ Len(ParentOf(n)) = 0
    BY <2>1
  <2>. QED  BY <2>1, <2>2
<1>4. ASSUME NEW n \in Low
      PROVE  n \in Nodes /\ n # Root /\ ParentOf(n) \in Top
  <2>1. n \in Nodes /\ n # Root /\ Len(n) = 2
    BY <1>1 DEF Low
  <2>2. ParentOf(n) \in Nodes /\ Len(ParentOf(n)) = Len(n) - 1
    BY <2>1
  <2>3. Len(ParentOf(n)) = 1
    BY <2>1, <2>2
  <2>. QED  BY <2>1, <2>2, <2>3 DEF Top
<1>5. Nodes = {Root} \cup Top \cup Low
  BY <1>2, <1>3, <1>4
<1>. QED  BY <1>1, <1>3, <1>4, <1>5

\* A beginning of a path is the path, its parent, or the root.
LEMMA PrefixIs ==
  \A n, k \in Nodes : IsPrefix(k, n) <=> (k = n \/ k = Root \/ (n \in Low /\ k = ParentOf(n)))
<1>. SUFFICES ASSUME NEW n \in Nodes, NEW k \in Nodes
              PROVE  IsPrefix(k, n) <=> (k = n \/ k = Root \/ (n \in Low /\ k = ParentOf(n)))
  OBVIOUS
<1>1. n \in Seq(Nat) /\ k \in Seq(Nat) /\ Len(n) \in {0, 1, 2} /\ Len(k) \in {0, 1, 2}
  BY Paths
<1>2. CASE Len(k) > Len(n)
  <2>1. k # n /\ k # Root
    BY <1>1, <1>2, Paths
  <2>2. n \in Low => Len(ParentOf(n)) < Len(n)
    BY <1>1, Paths, Levels
  <2>. QED  BY <1>1, <1>2, <2>1, <2>2 DEF IsPrefix
<1>3. CASE Len(k) = Len(n)
  <2>1. SubSeq(k, 1, Len(k)) = k /\ SubSeq(n, 1, Len(k)) = n
    BY <1>1, <1>3, SameElements
  <2>2. n \in Low => Len(ParentOf(n)) < Len(n)
    BY <1>1, Paths, Levels
  <2>3. k = Root => n = Root
    BY <1>1, <1>3, Paths
  <2>. QED  BY <1>1, <1>3, <2>1, <2>2, <2>3 DEF IsPrefix
<1>4. CASE Len(k) < Len(n) /\ Len(k) = 0
  <2>1. k = Root
    BY <1>4, Paths
  <2>2. SubSeq(k, 1, Len(k)) = SubSeq(n, 1, Len(k))
    BY <1>1, <1>4, SameElements
  <2>. QED  BY <1>1, <1>4, <2>1, <2>2 DEF IsPrefix
<1>5. CASE Len(k) < Len(n) /\ Len(k) = 1
  <2>1. n \in Low /\ n # Root /\ Len(n) = 2
    BY <1>1, <1>5, Paths, SMTT(30) DEF Low
  <2>2. ParentOf(n) = SubSeq(n, 1, Len(k))
    <3>1. ParentOf(n) = SubSeq(n, 1, Len(n) - 1)
      BY <2>1, Paths
    <3>2. Len(n) - 1 = Len(k)
      BY <1>5, <2>1
    <3>. QED  BY <3>1, <3>2
  <2>3. SubSeq(k, 1, Len(k)) = k
    BY <1>1, SameElements
  <2>4. k # n
    BY <1>5, <2>1
  <2>5. k # Root
    BY <1>5, Paths
  <2>. QED  BY <2>5, <1>1, <1>5, <2>1, <2>2, <2>3, <2>4 DEF IsPrefix
<1>. QED  BY <1>1, <1>2, <1>3, <1>4, <1>5

LEMMA Ways ==
  /\ Way[Root] = {Root}
  /\ \A n \in Top : Way[n] = {Root, n}
  /\ \A n \in Low : Way[n] = {Root, ParentOf(n), n}
<1>1. ASSUME NEW n \in Nodes
      PROVE  Way[n] = {k \in Nodes : k = n \/ k = Root \/ (n \in Low /\ k = ParentOf(n))}
  <2>1. Way[n] = {k \in Nodes : IsPrefix(k, n)}
    BY DEF Way
  <2>2. \A k \in Nodes : IsPrefix(k, n) <=> (k = n \/ k = Root \/ (n \in Low /\ k = ParentOf(n)))
    BY PrefixIs
  <2>. QED  BY <2>1, <2>2
<1>. QED  BY <1>1, Levels

LEMMA Unders ==
  \A n \in Nodes : Under[n] = {k \in Nodes : n \in Way[k]}
<1>1. ASSUME NEW n \in Nodes
      PROVE  Under[n] = {k \in Nodes : n \in Way[k]}
  <2>1. \A k \in Nodes : n \in Way[k] <=> IsPrefix(n, k)
    BY DEF Way
  <2>2. Under[n] = {k \in Nodes : IsPrefix(n, k)}
    BY DEF Under
  <2>. QED  BY <2>1, <2>2
<1>. QED  BY <1>1

LEMMA Belows ==
  \A n \in Nodes : Below[n] = {c \in Nodes \ {Root} : ParentOf(c) = n}
  BY DEF Below

LEMMA Aboves ==
  /\ \A n \in Top : Len(n) = 1 /\ DOMAIN Above[n] = 1..1 /\ Above[n][1] = Root
  /\ \A n \in Low : /\ Len(n) = 2 /\ DOMAIN Above[n] = 1..2
                    /\ Above[n][1] = ParentOf(n) /\ Above[n][2] = Root
<1>1. ASSUME NEW n \in Nodes
      PROVE  Above[n] = [i \in 1..Len(n) |-> SubSeq(n, 1, Len(n) - i)]
  BY DEF Above
<1>2. ASSUME NEW n \in Nodes
      PROVE  SubSeq(n, 1, 0) = Root
  <2>1. n \in Seq(Nat)
    BY Paths
  <2>2. Len(SubSeq(n, 1, 0)) = 0 /\ SubSeq(n, 1, 0) \in Seq(Nat)
    BY <2>1, SubSeqProperties
  <2>. QED  BY <2>2, EmptySeq DEF Root
<1>3. ASSUME NEW n \in Top
      PROVE  Len(n) = 1 /\ DOMAIN Above[n] = 1..1 /\ Above[n][1] = Root
  <2>1. n \in Nodes /\ Len(n) = 1
    BY DEF Top
  <2>2. Above[n] = [i \in 1..1 |-> SubSeq(n, 1, 1 - i)]
    BY <1>1, <2>1
  <2>3. Above[n][1] = SubSeq(n, 1, 0)
    BY <2>2
  <2>. QED  BY <1>2, <2>1, <2>2, <2>3
<1>4. ASSUME NEW n \in Low
      PROVE  Len(n) = 2 /\ DOMAIN Above[n] = 1..2 /\ Above[n][1] = ParentOf(n) /\ Above[n][2] = Root
  <2>1. n \in Nodes /\ Len(n) = 2 /\ n # Root
    BY Levels DEF Low
  <2>2. Above[n] = [i \in 1..2 |-> SubSeq(n, 1, 2 - i)]
    BY <1>1, <2>1
  <2>3. Above[n][1] = SubSeq(n, 1, 1) /\ Above[n][2] = SubSeq(n, 1, 0)
    BY <2>2
  <2>4. ParentOf(n) = SubSeq(n, 1, 1)
    <3>1. ParentOf(n) = SubSeq(n, 1, Len(n) - 1)
      BY <2>1, Paths
    <3>2. Len(n) - 1 = 1
      BY <2>1
    <3>. QED  BY <3>1, <3>2
  <2>. QED  BY <1>2, <2>1, <2>2, <2>3, <2>4
<1>. QED  BY <1>3, <1>4

-----------------------------------------------------------------------------
(* Among.                                                                   *)

\* v has the elements of S among the first j of s, which are at the places p.
Picked(s, S, j, v, p) ==
  /\ p \in [1..Len(v) -> 1..j]
  /\ \A i, k \in 1..Len(v) : i < k => p[i] < p[k]
  /\ \A i \in 1..Len(v) : v[i] = s[p[i]] /\ v[i] \in S
  /\ \A m \in 1..j : s[m] \in S => \E i \in 1..Len(v) : p[i] = m

LEMMA PickNone ==
  ASSUME NEW s, NEW S
  PROVE  Picked(s, S, 0, <<>>, [i \in 1..0 |-> 0])
<1>1. Len(<<>>) = 0 /\ 1..0 = {} /\ \A m \in 1..0 : FALSE
  OBVIOUS
<1>. QED  BY <1>1 DEF Picked

LEMMA PickSkips ==
  ASSUME NEW X, NEW s \in Seq(X), NEW S, NEW j \in 1..Len(s), NEW v \in Seq(X), NEW p,
         Picked(s, S, j - 1, v, p), s[j] \notin S
  PROVE  Picked(s, S, j, v, p)
<1>1. p \in [1..Len(v) -> 1..j]
  <2>1. p \in [1..Len(v) -> 1..(j - 1)]
    BY DEF Picked
  <2>. QED  BY <2>1
<1>2. \A m \in 1..j : m # j => m \in 1..(j - 1)
  OBVIOUS
<1>. QED  BY <1>1, <1>2 DEF Picked

LEMMA PickTakes ==
  ASSUME NEW X, NEW s \in Seq(X), NEW S, NEW j \in 1..Len(s), NEW v \in Seq(X), NEW p,
         Picked(s, S, j - 1, v, p), s[j] \in S
  PROVE  \E q : Picked(s, S, j, Append(v, s[j]), q)
<1>. DEFINE u == Append(v, s[j])
            q == [i \in 1..(Len(v) + 1) |-> IF i = Len(v) + 1 THEN j ELSE p[i]]
<1>1. PICK N \in Nat : N = Len(v)
  OBVIOUS
<1>2. Len(u) = N + 1 /\ u[N + 1] = s[j] /\ \A i \in 1..N : u[i] = v[i]
  <2>1. s[j] \in X
    OBVIOUS
  <2>. QED  BY <1>1, <2>1
<1>3. /\ p \in [1..N -> 1..(j - 1)]
      /\ \A i, k \in 1..N : i < k => p[i] < p[k]
      /\ \A i \in 1..N : v[i] = s[p[i]] /\ v[i] \in S
      /\ \A m \in 1..(j - 1) : s[m] \in S => \E i \in 1..N : p[i] = m
  BY <1>1 DEF Picked
<1>4. q = [i \in 1..(N + 1) |-> IF i = N + 1 THEN j ELSE p[i]]
  BY <1>1
<1>. HIDE DEF u, q
<1>5. q[N + 1] = j /\ \A i \in 1..N : q[i] = p[i] /\ p[i] \in 1..(j - 1)
  BY <1>3, <1>4
<1>6. \A i \in 1..(N + 1) : i = N + 1 \/ i \in 1..N
  OBVIOUS
<1>7. q \in [1..(N + 1) -> 1..j]
  <2>1. \A x \in 1..(j - 1) : x \in 1..j
    OBVIOUS
  <2>2. j \in 1..j
    OBVIOUS
  <2>3. \A i \in 1..(N + 1) : q[i] \in 1..j
    BY <1>5, <1>6, <2>1, <2>2
  <2>. QED  BY <1>4, <2>3
<1>8. ASSUME NEW i \in 1..(N + 1), NEW k \in 1..(N + 1), i < k
      PROVE  q[i] < q[k]
  <2>1. i \in 1..N
    BY <1>8
  <2>2. CASE k = N + 1
    <3>1. q[i] \in 1..(j - 1) /\ q[k] = j
      BY <1>5, <2>1, <2>2
    <3>. QED  BY <3>1
  <2>3. CASE k \in 1..N
    BY <1>3, <1>5, <1>8, <2>1, <2>3
  <2>. QED  BY <1>6, <2>2, <2>3
<1>9. \A i \in 1..(N + 1) : u[i] = s[q[i]] /\ u[i] \in S
  BY <1>2, <1>3, <1>5, <1>6
<1>10. \A m \in 1..j : s[m] \in S => \E i \in 1..(N + 1) : q[i] = m
  <2>1. \A m \in 1..j : m = j \/ m \in 1..(j - 1)
    OBVIOUS
  <2>2. N + 1 \in 1..(N + 1) /\ \A i \in 1..N : i \in 1..(N + 1)
    OBVIOUS
  <2>. QED  BY <1>3, <1>5, <2>1, <2>2
<1>11. Picked(s, S, j, u, q)
  BY <1>2, <1>7, <1>8, <1>9, <1>10 DEF Picked
<1>. QED  BY <1>11 DEF u

LEMMA AmongIs ==
  ASSUME NEW X, NEW s \in Seq(X), NEW S
  PROVE  Among(s, S) \in Seq(X) /\ \E p : Picked(s, S, Len(s), Among(s, S), p)
<1>. DEFINE Step(v, i) == IF s[i] \in S THEN Append(v, s[i]) ELSE v
            N == Len(s)
            F == CHOOSE f : f = [i \in 0..N |->
                   IF i = 0 THEN <<>> ELSE IF s[i] \in S THEN Append(f[i - 1], s[i]) ELSE f[i - 1]]
            g == [i \in 1..N |-> [v \in Seq(X) |-> Step(v, i)]]
<1>1. N \in Nat /\ <<>> \in Seq(X) /\ 0 \in 0..N /\ \A i \in 1..N : i \in 0..N /\ i # 0
  OBVIOUS
<1>2. \A i \in 1..N, v \in Seq(X) : Step(v, i) \in Seq(X)
  OBVIOUS
<1>3. g \in [1..N -> [Seq(X) -> Seq(X)]] /\ \A i \in 1..N, v \in Seq(X) : g[i][v] = Step(v, i)
  BY <1>2
<1>. HIDE DEF g
<1>4. PICK f \in [0..N -> Seq(X)] : f[0] = <<>> /\ \A i \in 1..N : f[i] = g[i][f[i - 1]]
  <2>1. g \in [1..N -> [Seq(X) -> Seq(X)]]
    BY <1>3
  <2>2. PICK f : IsFold(f, N, Seq(X), <<>>, g)
    BY <1>1, <2>1, FoldExists
  <2>. QED  BY <2>2 DEF IsFold
<1>5. f = [i \in 0..N |->
        IF i = 0 THEN <<>> ELSE IF s[i] \in S THEN Append(f[i - 1], s[i]) ELSE f[i - 1]]
  <2>1. \A i \in 1..N : f[i] = Step(f[i - 1], i)
    <3>1. \A i \in 1..N : i - 1 \in 0..N
      OBVIOUS
    <3>. QED  BY <1>3, <1>4, <3>1
  <2>2. \A i \in 0..N : i = 0 \/ i \in 1..N
    OBVIOUS
  <2>3. \A i \in 0..N : f[i] = IF i = 0 THEN <<>>
                               ELSE IF s[i] \in S THEN Append(f[i - 1], s[i]) ELSE f[i - 1]
    BY <1>4, <2>1, <2>2
  <2>. QED  BY <1>4, <2>3
<1>6. F = [i \in 0..N |->
        IF i = 0 THEN <<>> ELSE IF s[i] \in S THEN Append(F[i - 1], s[i]) ELSE F[i - 1]]
  BY <1>5
<1>7. Among(s, S) = F[N]
  BY DEF Among
<1>. HIDE DEF F
<1>8. F[0] = <<>> /\ \A i \in 1..N : F[i] = IF s[i] \in S THEN Append(F[i - 1], s[i]) ELSE F[i - 1]
  BY <1>1, <1>6
<1>. DEFINE H == {i \in 0..N : F[i] \in Seq(X) /\ \E p : Picked(s, S, i, F[i], p)}
<1>9. 0 \in H
  BY <1>1, <1>8, PickNone
<1>10. ASSUME NEW i \in 1..N, i - 1 \in H
       PROVE  i \in H
  <2>1. PICK v \in Seq(X) : v = F[i - 1]
    BY <1>10
  <2>2. PICK p : Picked(s, S, i - 1, v, p)
    BY <1>10, <2>1
  <2>3. CASE s[i] \in S
    <3>1. F[i] = Append(v, s[i])
      BY <1>8, <2>1, <2>3
    <3>2. \E q : Picked(s, S, i, Append(v, s[i]), q)
      BY <2>2, <2>3, PickTakes
    <3>3. s[i] \in X
      OBVIOUS
    <3>4. Append(v, s[i]) \in Seq(X)
      BY <3>3
    <3>5. F[i] \in Seq(X) /\ \E q : Picked(s, S, i, F[i], q)
      BY <3>1, <3>2, <3>4
    <3>. QED  BY <3>5
  <2>4. CASE s[i] \notin S
    <3>1. F[i] = v
      BY <1>8, <2>1, <2>4
    <3>2. Picked(s, S, i, v, p)
      BY <2>2, <2>4, PickSkips
    <3>. QED  BY <3>1, <3>2
  <2>. QED  BY <2>3, <2>4
<1>. HIDE DEF H
<1>11. \A i \in 1..N : i - 1 \in H => i \in H
  BY <1>10
<1>12. \A i \in 0..N : i \in H
  BY <1>1, <1>9, <1>11, UpTo
<1>13. N \in H
  BY <1>1, <1>12
<1>. QED  BY <1>7, <1>13 DEF H

\* What callers rely on: the elements, each once.
LEMMA AmongOrder ==
  ASSUME NEW S
  PROVE  LET a == Among(Order, S) IN
         /\ a \in Seq(Nodes \cap S)
         /\ \A n \in Nodes \cap S : \E i \in 1..Len(a) : a[i] = n
         /\ \A i, k \in 1..Len(a) : a[i] = a[k] => i = k
         /\ \A i \in 1..Len(a) : a[i] # Root /\ ParentOf(a[i]) \in S =>
              \E k \in 1..Len(a) : k < i /\ a[k] = ParentOf(a[i])
<1>. DEFINE a == Among(Order, S)
<1>1. Order \in Seq(Nodes) /\ Order \in Seq(Seq(Nat))
  BY OrderAssumption DEF Nodes, ToSet
<1>2. a \in Seq(Nodes) /\ \E p : Picked(Order, S, Len(Order), a, p)
  BY <1>1, AmongIs
<1>. HIDE DEF a
<1>3. PICK p : Picked(Order, S, Len(Order), a, p)
  BY <1>2
<1>4. PICK N \in Nat : N = Len(a)
  BY <1>2
<1>5. PICK M \in Nat : M = Len(Order)
  BY <1>1
<1>6. /\ p \in [1..N -> 1..M]
      /\ \A i, k \in 1..N : i < k => p[i] < p[k]
      /\ \A i \in 1..N : a[i] = Order[p[i]] /\ a[i] \in S
      /\ \A m \in 1..M : Order[m] \in S => \E i \in 1..N : p[i] = m
  BY <1>3, <1>4, <1>5 DEF Picked
<1>7. \A i, k \in 1..M : i < k => /\ Order[i] # Order[k]
                                  /\ Order[i] # Root => ParentOf(Order[i]) # Order[k]
  BY <1>1, <1>5, OrderAssumption, SMTT(30)
<1>8. \A n \in Nodes : \E m \in 1..M : n = Order[m]
  BY <1>1, <1>5 DEF Nodes, ToSet
<1>9. a \in Seq(Nodes \cap S)
  <2>1. \A i \in 1..N : a[i] \in Nodes \cap S
    BY <1>2, <1>4, <1>6
  <2>. QED  BY <1>2, <1>4, <2>1
<1>10. \A n \in Nodes \cap S : \E i \in 1..N : a[i] = n
  BY <1>6, <1>8
<1>11. \A i, k \in 1..N : a[i] = a[k] => i = k
  <2>1. ASSUME NEW i \in 1..N, NEW k \in 1..N, i < k
        PROVE  a[i] # a[k]
    <3>1. p[i] \in 1..M /\ p[k] \in 1..M /\ p[i] < p[k] /\ a[i] = Order[p[i]] /\ a[k] = Order[p[k]]
      BY <1>6, <2>1
    <3>. QED  BY <1>7, <3>1
  <2>2. \A i, k \in 1..N : i # k => i < k \/ k < i
    OBVIOUS
  <2>. QED  BY <2>1, <2>2
<1>12. ASSUME NEW i \in 1..N, a[i] # Root, ParentOf(a[i]) \in S
       PROVE  \E k \in 1..N : k < i /\ a[k] = ParentOf(a[i])
  <2>1. ParentOf(a[i]) \in Nodes /\ ParentOf(a[i]) # a[i]
    <3>1. a[i] \in Nodes
      BY <1>2, <1>4
    <3>2. Len(ParentOf(a[i])) = Len(a[i]) - 1 /\ Len(a[i]) \in {0, 1, 2} /\ ParentOf(a[i]) \in Nodes
      BY <1>12, <3>1, Paths
    <3>. QED  BY <3>2
  <2>2. PICK k \in 1..N : a[k] = ParentOf(a[i])
    BY <1>10, <1>12, <2>1
  <2>3. p[i] \in 1..M /\ p[k] \in 1..M /\ a[i] = Order[p[i]] /\ a[k] = Order[p[k]]
    BY <1>6
  <2>4. ~(p[i] < p[k])
    BY <1>7, <1>12, <2>2, <2>3
  <2>5. ~(i < k) /\ i # k
    BY <1>6, <2>1, <2>2, <2>4
  <2>. QED  BY <2>2, <2>5
<1>. QED  BY <1>4, <1>9, <1>10, <1>11, <1>12 DEF a
-----------------------------------------------------------------------------
(* The operators of Tree, one by one: which nodes they change, and that the *)
(* numbers they leave are old ones, the one they are given, or 0.           *)

Node == [open : BOOLEAN, vis : BOOLEAN, dseq : Nat, nseq : Nat, tseq : Nat]
Tseq(x, s) == [x EXCEPT !.tseq = s]

LEMMA Trees ==
  /\ Tree = [Nodes -> Node]
  /\ Absent \in Node
  /\ Absent.open = FALSE /\ Absent.vis = FALSE
  /\ Absent.dseq = 0 /\ Absent.nseq = 0 /\ Absent.tseq = 0
  BY DEF Tree, Node, Absent

LEMMA Fields ==
  ASSUME NEW x \in Node
  PROVE  x.open \in BOOLEAN /\ x.vis \in BOOLEAN /\ x.dseq \in Nat /\ x.nseq \in Nat /\ x.tseq \in Nat
  BY DEF Node

LEMMA TseqIs ==
  ASSUME NEW x \in Node, NEW s \in Nat
  PROVE  /\ Tseq(x, s) \in Node
         /\ Tseq(x, s).open = x.open /\ Tseq(x, s).vis = x.vis
         /\ Tseq(x, s).dseq = x.dseq /\ Tseq(x, s).nseq = x.nseq /\ Tseq(x, s).tseq = s
  BY DEF Node, Tseq

\* r is t where nodes of U may have got the greater number s.
Renumbered(t, r, s, U) ==
  \A m \in Nodes : r[m] = t[m] \/ (m \in U /\ t[m].tseq <= s /\ r[m] = Tseq(t[m], s))

\* All of them have.
AllNumbered(t, r, s, U) ==
  \A m \in Nodes : r[m] = IF m \in U THEN Tseq(t[m], s) ELSE t[m]

LEMMA ClimbIs ==
  ASSUME NEW n \in Nodes, NEW S
  PROVE  /\ Climb(n, S) \subseteq (Way[n] \ {n}) \cap S
         /\ Way[n] \ {n} \subseteq S => Climb(n, S) = Way[n] \ {n}
<1>. USE Ways, Levels, Aboves
<1>1. CASE n = Root
  <2>1. DOMAIN Above[n] = 1..0
    BY <1>1, Paths DEF Above, Root
  <2>2. Climb(n, S) = {}
    BY <2>1 DEF Climb
  <2>. QED  BY <1>1, <2>2
<1>2. CASE n \in Top
  <2>1. Way[n] \ {n} = {Root}
    BY <1>2
  <2>2. Climb(n, S) = {Above[n][i] : i \in {h \in 1..1 : \A k \in 1..h : Above[n][k] \in S}}
    BY <1>2 DEF Climb
  <2>3. \A h \in 1..1 : h = 1
    OBVIOUS
  <2>. QED  BY <1>2, <2>1, <2>2, <2>3
<1>3. CASE n \in Low
  <2>1. Way[n] \ {n} = {Root, ParentOf(n)}
    BY <1>3
  <2>2. Climb(n, S) = {Above[n][i] : i \in {h \in 1..2 : \A k \in 1..h : Above[n][k] \in S}}
    BY <1>3 DEF Climb
  <2>3. \A h \in 1..2 : h = 1 \/ h = 2
    OBVIOUS
  <2>. QED  BY <1>3, <2>1, <2>2, <2>3
<1>. QED  BY <1>1, <1>2, <1>3

LEMMA RaiseParentsIs ==
  ASSUME NEW t \in Tree, NEW n \in Nodes, NEW s \in Nat
  PROVE  /\ RaiseParents(t, n, s) \in Tree
         /\ Renumbered(t, RaiseParents(t, n, s), s, Way[n] \ {n})
         /\ (\A m \in Way[n] \ {n} : t[m].tseq < s)
              => AllNumbered(t, RaiseParents(t, n, s), s, Way[n] \ {n})
<1>. DEFINE U == Climb(n, {k \in Nodes : t[k].tseq < s})
            r == RaiseParents(t, n, s)
<1>1. U \subseteq Way[n] \ {n} /\ \A m \in U : m \in Nodes /\ t[m].tseq < s
  BY ClimbIs
<1>2. (\A m \in Way[n] \ {n} : t[m].tseq < s) => U = Way[n] \ {n}
  <2>1. Way[n] \subseteq Nodes
    BY Ways, Levels
  <2>. QED  BY <2>1, ClimbIs
<1>3. r = IF U = {} THEN t ELSE [m \in Nodes |-> IF m \in U THEN Tseq(t[m], s) ELSE t[m]]
  BY DEF RaiseParents, Tseq
<1>. HIDE DEF U, r
<1>4. t = [m \in Nodes |-> t[m]] /\ \A m \in Nodes : t[m] \in Node /\ t[m].tseq \in Nat
  BY Trees, Fields
<1>5. r = [m \in Nodes |-> IF m \in U THEN Tseq(t[m], s) ELSE t[m]]
  BY <1>3, <1>4
<1>6. r \in Tree
  BY <1>4, <1>5, Trees, TseqIs
<1>7. Renumbered(t, r, s, Way[n] \ {n})
  <2>1. \A m \in U : t[m].tseq <= s /\ m \in Way[n] \ {n}
    BY <1>1, <1>4
  <2>2. \A m \in Nodes : r[m] = IF m \in U THEN Tseq(t[m], s) ELSE t[m]
    BY <1>5
  <2>. QED  BY <2>1, <2>2 DEF Renumbered
<1>8. (\A m \in Way[n] \ {n} : t[m].tseq < s) => AllNumbered(t, r, s, Way[n] \ {n})
  BY <1>2, <1>5 DEF AllNumbered
<1>. QED  BY <1>6, <1>7, <1>8 DEF r

LEMMA RaiseIs ==
  ASSUME NEW t \in Tree, NEW n \in Nodes, NEW s \in Nat
  PROVE  /\ Raise(t, n, s) \in Tree
         /\ Renumbered(t, Raise(t, n, s), s, Way[n])
         /\ (\A m \in Way[n] : t[m].tseq < s) => AllNumbered(t, Raise(t, n, s), s, Way[n])
<1>. DEFINE u == [t EXCEPT ![n] = Tseq(t[n], s)]
            r == RaiseParents(u, n, s)
<1>1. n \in Way[n] /\ Way[n] \subseteq Nodes
  BY Ways, Levels
<1>2. \A m \in Nodes : t[m] \in Node /\ t[m].tseq \in Nat
  BY Trees, Fields
<1>3. CASE s > t[n].tseq
  <2>1. Raise(t, n, s) = r
    BY <1>3 DEF Raise, Tseq
  <2>2. u \in Tree /\ u[n] = Tseq(t[n], s) /\ \A m \in Nodes \ {n} : u[m] = t[m]
    BY <1>2, Trees, TseqIs
  <2>. HIDE DEF u
  <2>3. /\ r \in Tree /\ Renumbered(u, r, s, Way[n] \ {n})
        /\ (\A m \in Way[n] \ {n} : u[m].tseq < s) => AllNumbered(u, r, s, Way[n] \ {n})
    BY <2>2, RaiseParentsIs
  <2>. HIDE DEF r
  <2>4. Renumbered(t, r, s, Way[n])
    BY <1>1, <1>2, <1>3, <2>2, <2>3 DEF Renumbered
  <2>5. (\A m \in Way[n] : t[m].tseq < s) => AllNumbered(t, r, s, Way[n])
    BY <1>1, <2>2, <2>3 DEF AllNumbered
  <2>. QED  BY <2>1, <2>3, <2>4, <2>5
<1>4. CASE ~(s > t[n].tseq)
  <2>1. Raise(t, n, s) = t
    BY <1>4 DEF Raise
  <2>2. ~(t[n].tseq < s)
    BY <1>2, <1>4
  <2>. QED  BY <1>1, <2>1, <2>2 DEF Renumbered
<1>. QED  BY <1>3, <1>4

\* r is t but for its tseq_.
SameButTseq(t, r) ==
  \A m \in Nodes : /\ r[m].open = t[m].open /\ r[m].vis = t[m].vis
                  /\ r[m].dseq = t[m].dseq /\ r[m].nseq = t[m].nseq

Nums(x) == {x.dseq, x.nseq, x.tseq}

\* The numbers in r are numbers of t, or in X.
NumsFrom(t, r, X) ==
  \A m \in Nodes : Nums(r[m]) \subseteq X \cup UNION {Nums(t[k]) : k \in Nodes}

LEMMA NumsStep ==
  ASSUME NEW t, NEW r, NEW X, NEW u, NEW Y, NEW Z, NumsFrom(t, u, X), NumsFrom(u, r, Y),
         X \subseteq Z, Y \subseteq Z
  PROVE  NumsFrom(t, r, Z)
<1>1. UNION {Nums(u[k]) : k \in Nodes} \subseteq Z \cup UNION {Nums(t[k]) : k \in Nodes}
  BY DEF NumsFrom
<1>2. \A m \in Nodes : Nums(r[m]) \subseteq Z \cup UNION {Nums(u[k]) : k \in Nodes}
  BY DEF NumsFrom
<1>. QED  BY <1>1, <1>2 DEF NumsFrom

LEMMA NumsSame ==
  ASSUME NEW t, NEW X
  PROVE  NumsFrom(t, t, X)
  BY DEF NumsFrom

LEMMA NumsNode ==
  ASSUME NEW t, NEW r, NEW X,
         \A m \in Nodes : Nums(r[m]) \subseteq Nums(t[m]) \cup X
  PROVE  NumsFrom(t, r, X)
  BY DEF NumsFrom

LEMMA RenumberedIs ==
  ASSUME NEW t \in Tree, NEW s \in Nat, NEW U, NEW r, Renumbered(t, r, s, U)
  PROVE  SameButTseq(t, r) /\ NumsFrom(t, r, {s})
<1>1. \A m \in Nodes : t[m] \in Node
  BY Trees
<1>2. \A m \in Nodes : r[m] = t[m] \/ r[m] = Tseq(t[m], s)
  BY DEF Renumbered
<1>3. SameButTseq(t, r)
  BY <1>1, <1>2, TseqIs DEF SameButTseq
<1>4. \A m \in Nodes : Nums(r[m]) \subseteq Nums(t[m]) \cup {s}
  <2>1. \A m \in Nodes : Nums(Tseq(t[m], s)) \subseteq Nums(t[m]) \cup {s}
    BY <1>1, TseqIs DEF Nums
  <2>. QED  BY <1>2, <2>1
<1>. QED  BY <1>3, <1>4, NumsNode

ChangeMakes(t, r, n, s) ==
  /\ r \in Tree /\ NumsFrom(t, r, {s})
  /\ \A m \in Nodes : /\ r[m].open = t[m].open /\ r[m].vis = t[m].vis /\ r[m].nseq = t[m].nseq
                      /\ r[m].dseq = IF m = n THEN s ELSE t[m].dseq
                      /\ r[m].tseq = t[m].tseq \/ (m \in Way[n] /\ t[m].tseq <= s /\ r[m].tseq = s)
  /\ (\A m \in Way[n] : t[m].tseq < s) => \A m \in Nodes : r[m].tseq = IF m \in Way[n] THEN s ELSE t[m].tseq

\* change_slow() gives the node's data a number, set_nseq() its children.
LEMMA ChangeIs ==
  ASSUME NEW t \in Tree, NEW n \in Nodes, NEW s \in Nat
  PROVE  ChangeMakes(t, Change(t, n, s), n, s)
<1>. DEFINE d == [t[n] EXCEPT !.dseq = s]
            u == [t EXCEPT ![n] = d]
            r == Raise(u, n, s)
<1>1. Change(t, n, s) = r
  BY DEF Change
<1>2. \A m \in Nodes : t[m] \in Node
  BY Trees
<1>3. /\ d \in Node /\ d.open = t[n].open /\ d.vis = t[n].vis
      /\ d.dseq = s /\ d.nseq = t[n].nseq /\ d.tseq = t[n].tseq
  BY <1>2 DEF Node
<1>. HIDE DEF d
<1>4. u \in Tree /\ u[n] = d /\ \A m \in Nodes : m # n => u[m] = t[m]
  BY <1>2, <1>3, Trees
<1>. HIDE DEF u
<1>5. /\ r \in Tree /\ Renumbered(u, r, s, Way[n])
      /\ (\A m \in Way[n] : u[m].tseq < s) => AllNumbered(u, r, s, Way[n])
  BY <1>4, RaiseIs
<1>. HIDE DEF r
<1>6. SameButTseq(u, r) /\ NumsFrom(u, r, {s})
  <2>1. u \in Tree /\ Renumbered(u, r, s, Way[n])
    BY <1>4, <1>5
  <2>. QED  BY <2>1, RenumberedIs
<1>7. \A m \in Nodes : u[m].open = t[m].open /\ u[m].vis = t[m].vis /\ u[m].nseq = t[m].nseq
                       /\ u[m].dseq = (IF m = n THEN s ELSE t[m].dseq) /\ u[m].tseq = t[m].tseq
  BY <1>3, <1>4
<1>8. NumsFrom(t, u, {s})
  <2>1. \A m \in Nodes : Nums(u[m]) \subseteq Nums(t[m]) \cup {s}
    BY <1>7 DEF Nums
  <2>. QED  BY <2>1, NumsNode
<1>9. NumsFrom(t, r, {s})
  BY <1>6, <1>8, NumsStep
<1>10. \A m \in Nodes : /\ r[m].open = t[m].open /\ r[m].vis = t[m].vis /\ r[m].nseq = t[m].nseq
                        /\ r[m].dseq = IF m = n THEN s ELSE t[m].dseq
  BY <1>6, <1>7 DEF SameButTseq
<1>11. \A m \in Nodes : u[m] \in Node
  BY <1>4, Trees
<1>12. \A m \in Nodes : r[m].tseq = t[m].tseq \/ (m \in Way[n] /\ t[m].tseq <= s /\ r[m].tseq = s)
  BY <1>5, <1>7, <1>11, TseqIs DEF Renumbered
<1>13. ASSUME \A m \in Way[n] : t[m].tseq < s
       PROVE  \A m \in Nodes : r[m].tseq = IF m \in Way[n] THEN s ELSE t[m].tseq
  <2>1. Way[n] \subseteq Nodes
    BY Ways, Levels
  <2>2. AllNumbered(u, r, s, Way[n])
    BY <1>5, <1>7, <1>13, <2>1
  <2>. QED  BY <1>7, <1>11, <2>2, TseqIs DEF AllNumbered
<1>. QED  BY <1>1, <1>5, <1>9, <1>10, <1>12, <1>13 DEF ChangeMakes

SetNseqMakes(t, r, n, s) ==
  /\ r \in Tree /\ NumsFrom(t, r, {s})
  /\ \A m \in Nodes : /\ r[m].open = t[m].open /\ r[m].vis = t[m].vis /\ r[m].dseq = t[m].dseq
                      /\ r[m].nseq = IF m = n THEN s ELSE t[m].nseq
                      /\ r[m].tseq = t[m].tseq \/ (m \in Way[n] /\ t[m].tseq <= s /\ r[m].tseq = s)
  /\ (\A m \in Way[n] : t[m].tseq < s) => \A m \in Nodes : r[m].tseq = IF m \in Way[n] THEN s ELSE t[m].tseq

LEMMA SetNseqIs ==
  ASSUME NEW t \in Tree, NEW n \in Nodes, NEW s \in Nat
  PROVE  SetNseqMakes(t, SetNseq(t, n, s), n, s)
<1>. DEFINE d == [t[n] EXCEPT !.nseq = s]
            u == [t EXCEPT ![n] = d]
            r == Raise(u, n, s)
<1>1. SetNseq(t, n, s) = r
  BY DEF SetNseq
<1>2. \A m \in Nodes : t[m] \in Node
  BY Trees
<1>3. /\ d \in Node /\ d.open = t[n].open /\ d.vis = t[n].vis
      /\ d.dseq = t[n].dseq /\ d.nseq = s /\ d.tseq = t[n].tseq
  BY <1>2 DEF Node
<1>. HIDE DEF d
<1>4. u \in Tree /\ u[n] = d /\ \A m \in Nodes : m # n => u[m] = t[m]
  BY <1>2, <1>3, Trees
<1>. HIDE DEF u
<1>5. /\ r \in Tree /\ Renumbered(u, r, s, Way[n])
      /\ (\A m \in Way[n] : u[m].tseq < s) => AllNumbered(u, r, s, Way[n])
  BY <1>4, RaiseIs
<1>. HIDE DEF r
<1>6. SameButTseq(u, r) /\ NumsFrom(u, r, {s})
  <2>1. u \in Tree /\ Renumbered(u, r, s, Way[n])
    BY <1>4, <1>5
  <2>. QED  BY <2>1, RenumberedIs
<1>7. \A m \in Nodes : u[m].open = t[m].open /\ u[m].vis = t[m].vis /\ u[m].dseq = t[m].dseq
                       /\ u[m].nseq = (IF m = n THEN s ELSE t[m].nseq) /\ u[m].tseq = t[m].tseq
  BY <1>3, <1>4
<1>8. NumsFrom(t, u, {s})
  <2>1. \A m \in Nodes : Nums(u[m]) \subseteq Nums(t[m]) \cup {s}
    BY <1>7 DEF Nums
  <2>. QED  BY <2>1, NumsNode
<1>9. NumsFrom(t, r, {s})
  BY <1>6, <1>8, NumsStep
<1>10. \A m \in Nodes : /\ r[m].open = t[m].open /\ r[m].vis = t[m].vis /\ r[m].dseq = t[m].dseq
                        /\ r[m].nseq = IF m = n THEN s ELSE t[m].nseq
  BY <1>6, <1>7 DEF SameButTseq
<1>11. \A m \in Nodes : u[m] \in Node
  BY <1>4, Trees
<1>12. \A m \in Nodes : r[m].tseq = t[m].tseq \/ (m \in Way[n] /\ t[m].tseq <= s /\ r[m].tseq = s)
  BY <1>5, <1>7, <1>11, TseqIs DEF Renumbered
<1>13. ASSUME \A m \in Way[n] : t[m].tseq < s
       PROVE  \A m \in Nodes : r[m].tseq = IF m \in Way[n] THEN s ELSE t[m].tseq
  <2>1. Way[n] \subseteq Nodes
    BY Ways, Levels
  <2>2. AllNumbered(u, r, s, Way[n])
    BY <1>5, <1>7, <1>13, <2>1
  <2>. QED  BY <1>7, <1>11, <2>2, TseqIs DEF AllNumbered
<1>. QED  BY <1>1, <1>5, <1>9, <1>10, <1>12, <1>13 DEF SetNseqMakes

\* Max() of numbers of nodes is one of them.
LEMMA NodesBounded ==
  ASSUME NEW f \in [Nodes -> Nat]
  PROVE  \E b \in Nat : \A m \in Nodes : f[m] <= b
<1>. DEFINE N == Len(Order)
            H == {i \in 0..N : \E b \in Nat : \A k \in 1..i : f[Order[k]] <= b}
<1>1. N \in Nat /\ 0 \in 0..N /\ \A k \in 1..N : Order[k] \in Nodes
  BY OrderAssumption DEF Nodes, ToSet
<1>2. \A m \in Nodes : \E k \in 1..N : Order[k] = m
  BY OrderAssumption DEF Nodes, ToSet
<1>. HIDE DEF N
<1>3. 0 \in H
  <2>1. 0 \in Nat /\ \A k \in 1..0 : f[Order[k]] <= 0
    OBVIOUS
  <2>. QED  BY <1>1, <2>1
<1>4. ASSUME NEW i \in 1..N, i - 1 \in H
      PROVE  i \in H
  <2>1. PICK b \in Nat : \A k \in 1..(i - 1) : f[Order[k]] <= b
    BY <1>4
  <2>2. PICK a \in Nat : a = f[Order[i]]
    BY <1>1
  <2>3. PICK c \in Nat : a <= c /\ b <= c
    <3>1. a + b \in Nat /\ a <= a + b /\ b <= a + b
      OBVIOUS
    <3>. QED  BY <3>1
  <2>4. ASSUME NEW k \in 1..i
        PROVE  f[Order[k]] <= c
    <3>1. CASE k = i
      BY <2>2, <2>3, <3>1
    <3>2. CASE k # i
      <4>1. k \in 1..(i - 1) /\ k \in 1..N
        BY <1>1, <3>2
      <4>2. PICK y \in Nat : y = f[Order[k]]
        BY <1>1, <4>1
      <4>. QED  BY <2>1, <2>3, <4>1, <4>2
    <3>. QED  BY <3>1, <3>2
  <2>5. i \in 0..N
    BY <1>1
  <2>. QED  BY <2>4, <2>5
<1>. HIDE DEF H
<1>5. \A i \in 1..N : i - 1 \in H => i \in H
  BY <1>4
<1>6. \A i \in 0..N : i \in H
  BY <1>1, <1>3, <1>5, UpTo
<1>7. N \in H
  BY <1>1, <1>6
<1>8. PICK b \in Nat : \A k \in 1..N : f[Order[k]] <= b
  BY <1>7 DEF H
<1>. QED  BY <1>2, <1>8

LEMMA MaxIs ==
  ASSUME NEW S \in SUBSET Nat, S # {}, NEW b \in Nat, \A x \in S : x <= b
  PROVE  Max(S) \in S /\ \A x \in S : x <= Max(S)
<1>. DEFINE D == {b - x : x \in S}
<1>1. D \in SUBSET Nat /\ D # {}
  <2>1. \A x \in S : b - x \in Nat
    OBVIOUS
  <2>2. PICK x : x \in S
    OBVIOUS
  <2>. QED  BY <2>1, <2>2
<1>2. PICK d \in D : \A e \in D : d <= e
  <2>. HIDE DEF D
  <2>. QED  BY <1>1, Least
<1>3. PICK x \in S : d = b - x
  BY <1>2
<1>4. \A y \in S : b - x <= b - y
  BY <1>2, <1>3
<1>5. \A y \in S : x >= y
  BY <1>4
<1>6. Max(S) \in S /\ \A y \in S : Max(S) >= y
  BY <1>5 DEF Max
<1>. QED  BY <1>6

\* recalc_tseq() takes a number of a child, or 0.
LEMMA RecalcIs ==
  ASSUME NEW t \in Tree, NEW n \in Nodes
  PROVE  LET r == Recalc(t, n) IN
         /\ r \in Tree /\ NumsFrom(t, r, {0}) /\ SameButTseq(t, r)
         /\ \A m \in Nodes \ {n} : r[m] = t[m]
<1>. DEFINE S == {0} \cup {t[c].tseq : c \in {k \in Kids(t, n) : t[k].vis}}
            s == Max(S)
            r == Recalc(t, n)
<1>1. \A m \in Nodes : t[m] \in Node /\ t[m].tseq \in Nat
  BY Trees, Fields
<1>2. s \in S
  <2>1. [m \in Nodes |-> t[m].tseq] \in [Nodes -> Nat]
    BY <1>1
  <2>2. PICK b \in Nat : \A m \in Nodes : [k \in Nodes |-> t[k].tseq][m] <= b
    BY <2>1, NodesBounded
  <2>3. Kids(t, n) \subseteq Nodes
    BY Belows DEF Kids
  <2>4. S \in SUBSET Nat /\ S # {} /\ \A x \in S : x <= b
    BY <1>1, <2>2, <2>3
  <2>. HIDE DEF S
  <2>. QED  BY <2>4, MaxIs
<1>3. s = 0 \/ \E c \in Nodes : s = t[c].tseq
  BY <1>2, Belows DEF Kids
<1>4. r = [t EXCEPT ![n] = Tseq(t[n], s)]
  BY DEF Recalc, Tseq
<1>5. s \in Nat
  BY <1>1, <1>3
<1>. HIDE DEF s, S, r
<1>6. r \in Tree /\ r[n] = Tseq(t[n], s) /\ \A m \in Nodes \ {n} : r[m] = t[m]
  BY <1>1, <1>4, <1>5, Trees, TseqIs
<1>7. SameButTseq(t, r)
  <2>1. \A m \in Nodes : r[m] = t[m] \/ r[m] = Tseq(t[m], s)
    BY <1>6
  <2>2. \A m \in Nodes : /\ Tseq(t[m], s).open = t[m].open /\ Tseq(t[m], s).vis = t[m].vis
                         /\ Tseq(t[m], s).dseq = t[m].dseq /\ Tseq(t[m], s).nseq = t[m].nseq
    BY <1>1, <1>5, TseqIs
  <2>. QED  BY <2>1, <2>2 DEF SameButTseq
<1>8. \A m \in Nodes : Nums(r[m]) \subseteq {0} \cup UNION {Nums(t[k]) : k \in Nodes}
  <2>1. Nums(r[n]) \subseteq Nums(t[n]) \cup {s}
    BY <1>1, <1>5, <1>6, TseqIs DEF Nums
  <2>2. s \in {0} \cup UNION {Nums(t[k]) : k \in Nodes}
    BY <1>3 DEF Nums
  <2>3. \A m \in Nodes \ {n} : Nums(r[m]) = Nums(t[m])
    BY <1>6
  <2>. QED  BY <2>1, <2>2, <2>3
<1>9. NumsFrom(t, r, {0})
  BY <1>8 DEF NumsFrom
<1>. QED  BY <1>6, <1>7, <1>9 DEF r

\* What childgone() may do: to the tseq_ of nodes above n.
Settled(t, r, n) ==
  /\ r \in Tree /\ NumsFrom(t, r, {0}) /\ SameButTseq(t, r)
  /\ \A m \in Nodes : m \notin Way[n] \ {n} => r[m] = t[m]

LEMMA SettledSame ==
  ASSUME NEW t \in Tree, NEW n \in Nodes
  PROVE  Settled(t, t, n)
  BY NumsSame DEF Settled, SameButTseq

LEMMA SettledStep ==
  ASSUME NEW t \in Tree, NEW n \in Nodes, NEW u, Settled(t, u, n), NEW k \in Way[n] \ {n}
  PROVE  Settled(t, Recalc(u, k), n)
<1>. DEFINE r == Recalc(u, k)
<1>1. k \in Nodes /\ u \in Tree
  BY Ways, Levels DEF Settled
<1>2. r \in Tree /\ NumsFrom(u, r, {0}) /\ SameButTseq(u, r) /\ \A m \in Nodes \ {k} : r[m] = u[m]
  BY <1>1, RecalcIs
<1>. HIDE DEF r
<1>3. NumsFrom(t, r, {0})
  BY <1>2, NumsStep DEF Settled
<1>4. SameButTseq(t, r)
  BY <1>2 DEF Settled, SameButTseq
<1>5. Settled(t, r, n)
  BY <1>2, <1>3, <1>4 DEF Settled
<1>. QED  BY <1>5 DEF r

LEMMA ChildGoneIs ==
  ASSUME NEW t \in Tree, NEW n \in Nodes \ {Root}
  PROVE  Settled(t, ChildGone(t, n), n)
<1>. DEFINE U == Climb(n, {k \in Nodes : t[k].tseq = t[n].tseq})
            G(u, i) == IF Above[n][i] \in U THEN Recalc(u, Above[n][i]) ELSE u
            F == CHOOSE f : f = [i \in 0..Len(n) |-> IF i = 0 THEN t
                   ELSE IF Above[n][i] \in U THEN Recalc(f[i - 1], Above[n][i]) ELSE f[i - 1]]
<1>1. U \subseteq Way[n] \ {n}
  BY ClimbIs
<1>2. ASSUME NEW u, Settled(t, u, n), NEW i
      PROVE  Settled(t, G(u, i), n)
  BY <1>1, <1>2, SettledStep
<1>3. ChildGone(t, n) = F[Len(n)]
  BY DEF ChildGone
<1>4. Len(n) = 1 \/ Len(n) = 2
  BY Paths
<1>. HIDE DEF U
<1>5. CASE Len(n) = 1
  <2>. DEFINE h == [i \in 0..1 |-> IF i = 0 THEN t ELSE G(t, 1)]
  <2>1. h = [i \in 0..1 |-> IF i = 0 THEN t
                   ELSE IF Above[n][i] \in U THEN Recalc(h[i - 1], Above[n][i]) ELSE h[i - 1]]
    OBVIOUS
  <2>2. F = [i \in 0..1 |-> IF i = 0 THEN t
                   ELSE IF Above[n][i] \in U THEN Recalc(F[i - 1], Above[n][i]) ELSE F[i - 1]]
    BY <1>5, <2>1
  <2>. HIDE DEF F
  <2>3. F[0] = t /\ F[1] = G(F[0], 1)
    BY <2>2
  <2>4. Settled(t, F[1], n)
    <3>. HIDE DEF G
    <3>. QED  BY <1>2, <2>3, SettledSame
  <2>. QED  BY <1>3, <1>5, <2>4
<1>6. CASE Len(n) = 2
  <2>. DEFINE a == G(t, 1)
              b == G(a, 2)
              h == [i \in 0..2 |-> IF i = 0 THEN t ELSE IF i = 1 THEN a ELSE b]
  <2>1. h = [i \in 0..2 |-> IF i = 0 THEN t
                   ELSE IF Above[n][i] \in U THEN Recalc(h[i - 1], Above[n][i]) ELSE h[i - 1]]
    <3>1. h[0] = t /\ h[1] = a /\ h[2] = b
      OBVIOUS
    <3>2. \A i \in 0..2 : i = 0 \/ i = 1 \/ i = 2
      OBVIOUS
    <3>3. h = [i \in 0..2 |-> h[i]]
      OBVIOUS
    <3>. HIDE DEF h
    <3>. QED  BY <3>1, <3>2, <3>3
  <2>2. F = [i \in 0..2 |-> IF i = 0 THEN t
                   ELSE IF Above[n][i] \in U THEN Recalc(F[i - 1], Above[n][i]) ELSE F[i - 1]]
    <3>. HIDE DEF h
    <3>. QED  BY <1>6, <2>1
  <2>. HIDE DEF F
  <2>3. F[0] = t /\ F[1] = G(F[0], 1) /\ F[2] = G(F[1], 2)
    BY <2>2
  <2>4. Settled(t, F[2], n)
    <3>. HIDE DEF G
    <3>. QED  BY <1>2, <2>3, SettledSame
  <2>. QED  BY <1>3, <1>6, <2>4
<1>. QED  BY <1>4, <1>5, <1>6

NewChildMakes(t, r, n, s) ==
  /\ r \in Tree /\ NumsFrom(t, r, {0, s})
  /\ r[n].open /\ ~r[n].vis /\ r[n].dseq = s /\ r[n].nseq = 0 /\ r[n].tseq = s
  /\ \A m \in Nodes \ {n} : /\ r[m].open = t[m].open /\ r[m].vis = t[m].vis
                            /\ r[m].dseq = t[m].dseq /\ r[m].nseq = t[m].nseq
                            /\ r[m].tseq = t[m].tseq \/ (m \in Way[n] /\ t[m].tseq <= s /\ r[m].tseq = s)

\* The constructor of a child.
LEMMA NewChildIs ==
  ASSUME NEW t \in Tree, NEW n \in Nodes, NEW s \in Nat
  PROVE  NewChildMakes(t, NewChild(t, n, s), n, s)
<1>. DEFINE d == [Absent EXCEPT !.open = TRUE, !.dseq = s, !.tseq = s]
            u == [t EXCEPT ![n] = d]
            r == RaiseParents(u, n, s)
<1>1. NewChild(t, n, s) = r
  BY DEF NewChild
<1>2. \A m \in Nodes : t[m] \in Node
  BY Trees
<1>3. d \in Node /\ d.open = TRUE /\ d.vis = FALSE /\ d.dseq = s /\ d.nseq = 0 /\ d.tseq = s
  BY DEF Node, Absent
<1>. HIDE DEF d
<1>4. u \in Tree /\ u[n] = d /\ \A m \in Nodes : m # n => u[m] = t[m]
  BY <1>2, <1>3, Trees
<1>. HIDE DEF u
<1>5. r \in Tree /\ Renumbered(u, r, s, Way[n] \ {n})
  BY <1>4, RaiseParentsIs
<1>. HIDE DEF r
<1>6. SameButTseq(u, r) /\ NumsFrom(u, r, {s})
  <2>1. u \in Tree /\ Renumbered(u, r, s, Way[n] \ {n})
    BY <1>4, <1>5
  <2>. QED  BY <2>1, RenumberedIs
<1>7. NumsFrom(t, u, {0, s})
  <2>1. \A m \in Nodes : Nums(u[m]) \subseteq Nums(t[m]) \cup {0, s}
    BY <1>3, <1>4 DEF Nums
  <2>. QED  BY <2>1, NumsNode
<1>8. NumsFrom(t, r, {0, s})
  <2>1. {s} \subseteq {0, s} /\ {0, s} \subseteq {0, s}
    OBVIOUS
  <2>. QED  BY <1>6, <1>7, <2>1, NumsStep
<1>9. \A m \in Nodes : u[m] \in Node
  BY <1>4, Trees
<1>10. \A m \in Nodes : /\ r[m].open = u[m].open /\ r[m].vis = u[m].vis
                        /\ r[m].dseq = u[m].dseq /\ r[m].nseq = u[m].nseq
  BY <1>6 DEF SameButTseq
<1>11. \A m \in Nodes : r[m].tseq = u[m].tseq \/ (m \in Way[n] \ {n} /\ u[m].tseq <= s /\ r[m].tseq = s)
  BY <1>5, <1>9, TseqIs DEF Renumbered
<1>. QED  BY <1>1, <1>3, <1>4, <1>5, <1>8, <1>10, <1>11 DEF NewChildMakes

ShowMakes(t, r, n) ==
  /\ r \in Tree /\ NumsFrom(t, r, {})
  /\ \A m \in Nodes : /\ r[m].open = t[m].open /\ r[m].vis = (IF m = n THEN TRUE ELSE t[m].vis)
                      /\ r[m].dseq = t[m].dseq /\ r[m].nseq = t[m].nseq
                      /\ r[m].tseq = t[m].tseq
                         \/ (m \in Way[n] /\ t[m].tseq <= t[n].tseq /\ r[m].tseq = t[n].tseq)
  /\ ~(t[n].tseq > t[ParentOf(n)].tseq) => \A m \in Nodes : r[m].tseq = t[m].tseq

\* childadded().
LEMMA ShowIs ==
  ASSUME NEW t \in Tree, NEW n \in Nodes
  PROVE  ShowMakes(t, Show(t, n), n)
<1>. DEFINE s == t[n].tseq
            U == IF s > t[ParentOf(n)].tseq THEN Climb(n, {k \in Nodes : t[k].tseq <= s}) ELSE {}
            r == Show(t, n)
            d == [t[n] EXCEPT !.vis = TRUE]
<1>1. r = [m \in Nodes |-> IF m = n THEN d ELSE IF m \in U THEN Tseq(t[m], s) ELSE t[m]]
  BY DEF Show, Tseq
<1>2. U \subseteq Way[n] \ {n} /\ \A m \in U : m \in Nodes /\ t[m].tseq <= s
  BY ClimbIs
<1>3. \A m \in Nodes : t[m] \in Node /\ t[m].tseq \in Nat
  BY Trees, Fields
<1>4. /\ d \in Node /\ d.open = t[n].open /\ d.vis = TRUE
      /\ d.dseq = t[n].dseq /\ d.nseq = t[n].nseq /\ d.tseq = t[n].tseq
  BY <1>3 DEF Node
<1>5. ~(s > t[ParentOf(n)].tseq) => U = {}
  OBVIOUS
<1>6. s = t[n].tseq /\ s \in Nat
  BY <1>3
<1>. HIDE DEF U, r, d, s
<1>7. r \in Tree
  BY <1>1, <1>3, <1>4, <1>6, Trees, TseqIs
<1>8. \A m \in Nodes : /\ Tseq(t[m], s).open = t[m].open /\ Tseq(t[m], s).vis = t[m].vis
                       /\ Tseq(t[m], s).dseq = t[m].dseq /\ Tseq(t[m], s).nseq = t[m].nseq
                       /\ Tseq(t[m], s).tseq = s
  BY <1>3, <1>6, TseqIs
<1>9. \A m \in Nodes : r[m] = IF m = n THEN d ELSE IF m \in U THEN Tseq(t[m], s) ELSE t[m]
  BY <1>1
<1>10. \A m \in Nodes : /\ r[m].open = t[m].open /\ r[m].vis = (IF m = n THEN TRUE ELSE t[m].vis)
                        /\ r[m].dseq = t[m].dseq /\ r[m].nseq = t[m].nseq
  BY <1>4, <1>8, <1>9, ZenonT(40)
<1>11. \A m \in Nodes : r[m].tseq = IF m # n /\ m \in U THEN s ELSE t[m].tseq
  BY <1>4, <1>8, <1>9
<1>12. \A m \in Nodes : Nums(r[m]) \subseteq {} \cup UNION {Nums(t[k]) : k \in Nodes}
  <2>1. ASSUME NEW m \in Nodes
        PROVE  Nums(r[m]) \subseteq Nums(t[m]) \cup {s}
    BY <1>10, <1>11 DEF Nums
  <2>2. s \in UNION {Nums(t[k]) : k \in Nodes}
    BY <1>6 DEF Nums
  <2>. QED  BY <2>1, <2>2
<1>13. NumsFrom(t, r, {})
  BY <1>12 DEF NumsFrom
<1>14. \A m \in Nodes : r[m].tseq = t[m].tseq \/ (m \in Way[n] /\ t[m].tseq <= s /\ r[m].tseq = s)
  BY <1>2, <1>11
<1>15. ~(t[n].tseq > t[ParentOf(n)].tseq) => \A m \in Nodes : r[m].tseq = t[m].tseq
  BY <1>5, <1>6, <1>11
<1>. QED  BY <1>6, <1>7, <1>10, <1>13, <1>14, <1>15 DEF r, ShowMakes

-----------------------------------------------------------------------------
(* The server's tree: three steps, of which its operations consist.         *)

\* The value of n gets the number k.
Valued(t, r, n, k) ==
  /\ r \in Tree
  /\ \A m \in Nodes : /\ r[m].open = t[m].open /\ r[m].vis = t[m].vis /\ r[m].nseq = t[m].nseq
                      /\ r[m].dseq = IF m = n THEN k ELSE t[m].dseq
                      /\ r[m].tseq = IF m \in Way[n] THEN k ELSE t[m].tseq

\* A child n is there, with the number d, and its parent's list has k.
Grown(t, r, n, d, k) ==
  /\ r \in Tree
  /\ r[n].open /\ r[n].vis /\ r[n].dseq = d /\ r[n].nseq = 0 /\ r[n].tseq = d
  /\ \A m \in Nodes \ {n} : /\ r[m].open = t[m].open /\ r[m].vis = t[m].vis /\ r[m].dseq = t[m].dseq
                            /\ r[m].nseq = IF m = ParentOf(n) THEN k ELSE t[m].nseq
                            /\ r[m].tseq = IF m \in Way[ParentOf(n)] THEN k ELSE t[m].tseq

\* The child n is gone, and its parent's list has the number k.
Shrunk(t, r, n, k) ==
  /\ r \in Tree
  /\ r[n] = Absent
  /\ \A m \in Nodes \ {n} : /\ r[m].open = t[m].open /\ r[m].vis = t[m].vis /\ r[m].dseq = t[m].dseq
                            /\ r[m].nseq = IF m = ParentOf(n) THEN k ELSE t[m].nseq
                            /\ r[m].tseq = IF m \in Way[ParentOf(n)] THEN k ELSE t[m].tseq

\* A tree with its root: what is closed is gone, with all below it.
Standing(t) ==
  /\ t \in Tree
  /\ t[Root].open /\ t[Root].vis
  /\ \A m \in Nodes : ~t[m].open => t[m] = Absent
  /\ \A m \in Nodes \ {Root} : t[m].open => t[ParentOf(m)].open

\* What the numbers of a server's tree are: s is the greatest.
Bounded(t, s) == \A m \in Nodes : t[m].dseq <= s /\ t[m].nseq <= s /\ t[m].tseq <= s
Upward(t) ==
  \A m \in Nodes : /\ t[m].dseq <= t[m].tseq /\ t[m].nseq <= t[m].tseq
                   /\ \A a \in Way[m] : t[m].tseq <= t[a].tseq
Unique(t) ==
  \A m, k \in Nodes : /\ t[m].dseq = t[k].dseq /\ t[m].dseq > 0 => m = k
                      /\ t[m].nseq = t[k].nseq /\ t[m].nseq > 0 => m = k
                      /\ t[m].dseq = t[k].nseq => t[m].dseq = 0
Numbered(t) ==
  /\ \A m \in Nodes : t[m].open => t[m].vis /\ t[m].dseq > 0
  /\ \A m \in Nodes \ {Root} : t[m].open => t[ParentOf(m)].nseq > 0
Served(t, s) ==
  /\ Standing(t) /\ Numbered(t) /\ Upward(t) /\ Unique(t)
  /\ s \in Nat /\ t[Root].tseq = s

LEMMA WayFacts ==
  /\ \A n \in Nodes : n \in Way[n] /\ Root \in Way[n] /\ Way[n] \subseteq Nodes
  /\ \A n \in Nodes : \A a \in Way[n] : Way[a] \subseteq Way[n]
  /\ \A n \in Nodes \ {Root} : ParentOf(n) \in Nodes /\ ParentOf(n) # n /\ Way[n] = Way[ParentOf(n)] \cup {n}
  /\ \A n \in Nodes \ {Root} : n \notin Way[ParentOf(n)]
<1>. USE Ways, Levels
<1>1. \A n \in Nodes : n = Root \/ n \in Top \/ n \in Low
  OBVIOUS
<1>2. \A n \in Nodes : n \in Way[n] /\ Root \in Way[n] /\ Way[n] \subseteq Nodes
  BY <1>1
<1>3. \A n \in Nodes \ {Root} : ParentOf(n) \in Nodes /\ ParentOf(n) # n
  BY <1>1
<1>4. \A n \in Nodes \ {Root} : Way[n] = Way[ParentOf(n)] \cup {n} /\ n \notin Way[ParentOf(n)]
  <2>1. \A n \in Top : Way[n] = Way[ParentOf(n)] \cup {n} /\ n \notin Way[ParentOf(n)]
    OBVIOUS
  <2>2. \A n \in Low : Way[n] = Way[ParentOf(n)] \cup {n} /\ n \notin Way[ParentOf(n)]
    OBVIOUS
  <2>. QED  BY <1>1, <2>1, <2>2
<1>5. \A n \in Nodes : \A a \in Way[n] : Way[a] \subseteq Way[n]
  <2>1. \A n \in Top : \A a \in Way[n] : Way[a] \subseteq Way[n]
    OBVIOUS
  <2>2. \A n \in Low : \A a \in Way[n] : Way[a] \subseteq Way[n]
    OBVIOUS
  <2>3. \A a \in Way[Root] : Way[a] \subseteq Way[Root]
    OBVIOUS
  <2>. QED  BY <1>1, <2>1, <2>2, <2>3
<1>. QED  BY <1>2, <1>3, <1>4, <1>5

LEMMA ServedBounded ==
  ASSUME NEW t, NEW s, Served(t, s)
  PROVE  Bounded(t, s) /\ t \in Tree
<1>1. t \in Tree /\ \A m \in Nodes : t[m] \in Node
  BY Trees DEF Served, Standing
<1>2. \A m \in Nodes : t[m].dseq \in Nat /\ t[m].nseq \in Nat /\ t[m].tseq \in Nat
  BY <1>1, Fields
<1>3. \A m \in Nodes : t[m].tseq <= s
  BY WayFacts DEF Served, Upward
<1>4. s \in Nat
  BY DEF Served
<1>5. \A m \in Nodes : t[m].dseq <= t[m].tseq /\ t[m].nseq <= t[m].tseq
  BY DEF Served, Upward
<1>. QED  BY <1>1, <1>2, <1>3, <1>4, <1>5 DEF Bounded

\* api_changed().
LEMMA ChangedTree ==
  ASSUME NEW t \in Tree, NEW s \in Nat, Bounded(t, s), NEW n \in Nodes
  PROVE  Valued(t, Change(t, n, s + 1), n, s + 1)
<1>1. \A m \in Way[n] : t[m].tseq < s + 1
  <2>1. \A m \in Nodes : t[m].tseq \in Nat /\ t[m].tseq <= s
    BY Trees, Fields DEF Bounded
  <2>. QED  BY <2>1, WayFacts
<1>2. PICK k \in Nat : k = s + 1
  OBVIOUS
<1>3. ChangeMakes(t, Change(t, n, k), n, k)
  BY <1>2, ChangeIs
<1>4. \A m \in Way[n] : t[m].tseq < k
  BY <1>1, <1>2
<1>5. Valued(t, Change(t, n, k), n, k)
  BY <1>3, <1>4 DEF ChangeMakes, Valued
<1>. QED  BY <1>2, <1>5

\* api_child_add(), with the tree at the stanza and after it.
LEMMA AddedTree ==
  ASSUME NEW t \in Tree, NEW s \in Nat, Bounded(t, s), NEW n \in Nodes \ {Root}
  PROVE  /\ Grown(t, Added(t, n, s)[1], n, s + 1, s + 2)
         /\ Grown(t, Added(t, n, s)[2], n, s + 1, s + 3)
<1>. DEFINE a == NewChild(t, n, 0)
            b == Change(a, n, s + 1)
            c == Show(b, n)
            d == SetNseq(c, ParentOf(n), s + 2)
            e == SetNseq(d, ParentOf(n), s + 3)
<1>1. Added(t, n, s) = <<d, e>>
  BY DEF Added
<1>2. n \in Nodes /\ ParentOf(n) \in Nodes /\ n # ParentOf(n)
      /\ Way[n] = Way[ParentOf(n)] \cup {n} /\ n \notin Way[ParentOf(n)]
      /\ Way[n] \subseteq Nodes /\ n \in Way[n] /\ ParentOf(n) \in Way[ParentOf(n)]
  BY WayFacts
<1>3. \A m \in Nodes : t[m].tseq \in Nat /\ t[m].tseq <= s
  BY Trees, Fields DEF Bounded
<1>4. /\ a \in Tree
      /\ a[n].open /\ ~a[n].vis /\ a[n].dseq = 0 /\ a[n].nseq = 0 /\ a[n].tseq = 0
      /\ \A m \in Nodes \ {n} : /\ a[m].open = t[m].open /\ a[m].vis = t[m].vis
                                /\ a[m].dseq = t[m].dseq /\ a[m].nseq = t[m].nseq
                                /\ a[m].tseq = t[m].tseq \/ (t[m].tseq <= 0 /\ a[m].tseq = 0)
  <2>1. 0 \in Nat
    OBVIOUS
  <2>2. NewChildMakes(t, a, n, 0)
    BY <1>2, <2>1, NewChildIs
  <2>. HIDE DEF a
  <2>. QED  BY <1>2, <2>2 DEF NewChildMakes
<1>5. \A m \in Nodes \ {n} : a[m].tseq = t[m].tseq
  BY <1>3, <1>4
<1>. HIDE DEF a
<1>6. \A m \in Way[n] : a[m].tseq < s + 1
  BY <1>2, <1>3, <1>4, <1>5
<1>7. /\ b \in Tree
      /\ \A m \in Nodes : /\ b[m].open = a[m].open /\ b[m].vis = a[m].vis /\ b[m].nseq = a[m].nseq
                          /\ b[m].dseq = IF m = n THEN s + 1 ELSE a[m].dseq
                          /\ b[m].tseq = IF m \in Way[n] THEN s + 1 ELSE a[m].tseq
  <2>1. PICK k \in Nat : k = s + 1
    OBVIOUS
  <2>2. ChangeMakes(a, Change(a, n, k), n, k)
    BY <1>2, <1>4, <2>1, ChangeIs
  <2>3. Change(a, n, k) = b
    BY <2>1
  <2>. HIDE DEF b
  <2>4. \A m \in Way[n] : a[m].tseq < k
    BY <1>6, <2>1
  <2>5. ChangeMakes(a, b, n, k)
    BY <2>2, <2>3
  <2>. QED  BY <2>1, <2>4, <2>5 DEF ChangeMakes
<1>. HIDE DEF b
<1>8. b[n].tseq = s + 1 /\ b[ParentOf(n)].tseq = s + 1
  BY <1>2, <1>7
<1>9. /\ c \in Tree
      /\ \A m \in Nodes : /\ c[m].open = b[m].open /\ c[m].vis = (IF m = n THEN TRUE ELSE b[m].vis)
                          /\ c[m].dseq = b[m].dseq /\ c[m].nseq = b[m].nseq
                          /\ c[m].tseq = b[m].tseq
  <2>1. ShowMakes(b, c, n)
    BY <1>2, <1>7, ShowIs
  <2>. HIDE DEF c
  <2>2. ~(b[n].tseq > b[ParentOf(n)].tseq)
    BY <1>8
  <2>. QED  BY <2>1, <2>2 DEF ShowMakes
<1>. HIDE DEF c
<1>10. \A m \in Way[ParentOf(n)] : m \in Nodes /\ c[m].tseq < s + 2
  <2>1. \A m \in Way[ParentOf(n)] : m \in Nodes /\ m \in Way[n]
    BY <1>2
  <2>2. \A m \in Way[ParentOf(n)] : c[m].tseq = s + 1
    BY <1>7, <1>9, <2>1
  <2>. QED  BY <2>1, <2>2
<1>11. /\ d \in Tree
       /\ \A m \in Nodes : /\ d[m].open = c[m].open /\ d[m].vis = c[m].vis /\ d[m].dseq = c[m].dseq
                           /\ d[m].nseq = IF m = ParentOf(n) THEN s + 2 ELSE c[m].nseq
                           /\ d[m].tseq = IF m \in Way[ParentOf(n)] THEN s + 2 ELSE c[m].tseq
  <2>1. PICK k \in Nat : k = s + 2
    OBVIOUS
  <2>2. SetNseqMakes(c, SetNseq(c, ParentOf(n), k), ParentOf(n), k)
    BY <1>2, <1>9, <2>1, SetNseqIs
  <2>3. SetNseq(c, ParentOf(n), k) = d
    BY <2>1
  <2>. HIDE DEF d
  <2>4. \A m \in Way[ParentOf(n)] : c[m].tseq < k
    BY <1>10, <2>1
  <2>5. SetNseqMakes(c, d, ParentOf(n), k)
    BY <2>2, <2>3
  <2>. QED  BY <2>1, <2>4, <2>5 DEF SetNseqMakes
<1>. HIDE DEF d
<1>12. \A m \in Way[ParentOf(n)] : m \in Nodes /\ d[m].tseq < s + 3
  BY <1>2, <1>11
<1>13. /\ e \in Tree
       /\ \A m \in Nodes : /\ e[m].open = d[m].open /\ e[m].vis = d[m].vis /\ e[m].dseq = d[m].dseq
                           /\ e[m].nseq = IF m = ParentOf(n) THEN s + 3 ELSE d[m].nseq
                           /\ e[m].tseq = IF m \in Way[ParentOf(n)] THEN s + 3 ELSE d[m].tseq
  <2>1. PICK k \in Nat : k = s + 3
    OBVIOUS
  <2>2. SetNseqMakes(d, SetNseq(d, ParentOf(n), k), ParentOf(n), k)
    BY <1>2, <1>11, <2>1, SetNseqIs
  <2>3. SetNseq(d, ParentOf(n), k) = e
    BY <2>1
  <2>. HIDE DEF e
  <2>4. \A m \in Way[ParentOf(n)] : d[m].tseq < k
    BY <1>12, <2>1
  <2>5. SetNseqMakes(d, e, ParentOf(n), k)
    BY <2>2, <2>3
  <2>. QED  BY <2>1, <2>4, <2>5 DEF SetNseqMakes
<1>. HIDE DEF e
<1>14. \A m \in Nodes \ {n} : b[m].tseq = (IF m \in Way[ParentOf(n)] THEN s + 1 ELSE t[m].tseq)
  BY <1>2, <1>5, <1>7
<1>15. /\ c[n].open /\ c[n].vis /\ c[n].dseq = s + 1 /\ c[n].nseq = 0 /\ c[n].tseq = s + 1
       /\ \A m \in Nodes \ {n} : /\ c[m].open = t[m].open /\ c[m].vis = t[m].vis /\ c[m].dseq = t[m].dseq
                                 /\ c[m].nseq = t[m].nseq
                                 /\ c[m].tseq = IF m \in Way[ParentOf(n)] THEN s + 1 ELSE t[m].tseq
  <2>1. \A m \in Nodes \ {n} : /\ c[m].open = t[m].open /\ c[m].vis = t[m].vis /\ c[m].dseq = t[m].dseq
                               /\ c[m].nseq = t[m].nseq
    <3>1. \A m \in Nodes \ {n} : /\ b[m].open = t[m].open /\ b[m].vis = t[m].vis /\ b[m].dseq = t[m].dseq
                                 /\ b[m].nseq = t[m].nseq
      BY <1>4, <1>7
    <3>2. \A m \in Nodes \ {n} : c[m].vis = b[m].vis
      BY <1>9
    <3>. QED  BY <1>9, <3>1, <3>2
  <2>2. \A m \in Nodes \ {n} : c[m].tseq = IF m \in Way[ParentOf(n)] THEN s + 1 ELSE t[m].tseq
    BY <1>9, <1>14
  <2>. QED  BY <1>2, <1>4, <1>7, <1>8, <1>9, <2>1, <2>2
<1>16. /\ d[n].open /\ d[n].vis /\ d[n].dseq = s + 1 /\ d[n].nseq = 0 /\ d[n].tseq = s + 1
       /\ \A m \in Nodes \ {n} : /\ d[m].open = t[m].open /\ d[m].vis = t[m].vis /\ d[m].dseq = t[m].dseq
                                 /\ d[m].nseq = IF m = ParentOf(n) THEN s + 2 ELSE t[m].nseq
                                 /\ d[m].tseq = IF m \in Way[ParentOf(n)] THEN s + 2 ELSE t[m].tseq
  BY <1>2, <1>11, <1>15
<1>17. /\ e[n].open /\ e[n].vis /\ e[n].dseq = s + 1 /\ e[n].nseq = 0 /\ e[n].tseq = s + 1
       /\ \A m \in Nodes \ {n} : /\ e[m].open = t[m].open /\ e[m].vis = t[m].vis /\ e[m].dseq = t[m].dseq
                                 /\ e[m].nseq = IF m = ParentOf(n) THEN s + 3 ELSE t[m].nseq
                                 /\ e[m].tseq = IF m \in Way[ParentOf(n)] THEN s + 3 ELSE t[m].tseq
  BY <1>2, <1>13, <1>16
<1>18. Grown(t, d, n, s + 1, s + 2)
  BY <1>11, <1>16 DEF Grown
<1>19. Grown(t, e, n, s + 1, s + 3)
  BY <1>13, <1>17 DEF Grown
<1>. QED  BY <1>1, <1>18, <1>19

LEMMA NodeEqual ==
  ASSUME NEW x \in Node, NEW y \in Node, x.open = y.open, x.vis = y.vis,
         x.dseq = y.dseq, x.nseq = y.nseq, x.tseq = y.tseq
  PROVE  x = y
  BY DEF Node

\* What is above an open node is open, and so is a child of n that is above it.
LEMMA OpenWay ==
  ASSUME NEW t, Standing(t)
  PROVE  /\ \A m \in Nodes : t[m].open => \A a \in Way[m] : t[a].open
         /\ \A m \in Nodes : t[m].open => \A a \in Way[m] : a # m => Kids(t, a) # {}
<1>1. \A m \in Nodes : m = Root \/ m \in Top \/ m \in Low
  BY Levels
<1>2. \A m \in Nodes \ {Root} : t[m].open => t[ParentOf(m)].open
  BY DEF Standing
<1>3. \A m \in Nodes \ {Root} : t[m].open => m \in Kids(t, ParentOf(m))
  BY WayFacts, Belows DEF Kids
<1>4. ASSUME NEW m \in Nodes, t[m].open, NEW a \in Way[m]
      PROVE  t[a].open /\ (a # m => Kids(t, a) # {})
  <2>1. CASE m = Root
    <3>1. a = m
      BY <1>4, <2>1, Ways
    <3>. QED  BY <1>4, <3>1
  <2>2. CASE m \in Top
    <3>1. a = m \/ (a = Root /\ a = ParentOf(m) /\ m # Root)
      BY <1>4, <2>2, Ways, Levels
    <3>. QED  BY <1>2, <1>3, <1>4, <3>1
  <2>3. CASE m \in Low
    <3>1. m # Root /\ ParentOf(m) \in Top /\ ParentOf(m) \in Nodes /\ ParentOf(m) # Root
          /\ ParentOf(ParentOf(m)) = Root
      BY <2>3, Levels
    <3>2. a = m \/ a = ParentOf(m) \/ a = Root
      BY <1>4, <2>3, Ways
    <3>3. t[ParentOf(m)].open /\ m \in Kids(t, ParentOf(m))
      BY <1>2, <1>3, <1>4, <3>1
    <3>4. t[Root].open /\ ParentOf(m) \in Kids(t, Root)
      BY <1>2, <1>3, <3>1, <3>3
    <3>. QED  BY <1>4, <3>2, <3>3, <3>4
  <2>. QED  BY <1>1, <2>1, <2>2, <2>3
<1>. QED  BY <1>4

LEMMA ServedValued ==
  ASSUME NEW t, NEW s, Served(t, s), NEW n \in Nodes, t[n].open, NEW k \in Nat, k > s,
         NEW r, Valued(t, r, n, k)
  PROVE  Served(r, k)
<1>1. /\ r \in Tree
      /\ \A m \in Nodes : /\ r[m].open = t[m].open /\ r[m].vis = t[m].vis /\ r[m].nseq = t[m].nseq
                          /\ r[m].dseq = IF m = n THEN k ELSE t[m].dseq
                          /\ r[m].tseq = IF m \in Way[n] THEN k ELSE t[m].tseq
  BY DEF Valued
<1>2. Bounded(t, s) /\ t \in Tree /\ s \in Nat /\ Standing(t)
  BY ServedBounded DEF Served
<1>3. \A m \in Nodes : t[m] \in Node /\ r[m] \in Node
  BY <1>1, <1>2, Trees
<1>4. \A m \in Nodes : t[m].dseq \in Nat /\ t[m].nseq \in Nat /\ t[m].tseq \in Nat
  BY <1>3, Fields
<1>5. Standing(r)
  <2>1. ASSUME NEW m \in Nodes, ~r[m].open
        PROVE  r[m] = Absent
    <3>1. ~t[m].open /\ t[m] = Absent
      BY <1>1, <1>2, <2>1 DEF Standing
    <3>2. m \notin Way[n] /\ m # n
      BY <1>2, <3>1, OpenWay
    <3>3. r[m] = t[m]
      <4>1. /\ r[m].open = t[m].open /\ r[m].vis = t[m].vis /\ r[m].nseq = t[m].nseq
            /\ r[m].dseq = t[m].dseq /\ r[m].tseq = t[m].tseq
        BY <1>1, <3>2
      <4>. QED  BY <1>3, <4>1, NodeEqual
    <3>. QED  BY <3>1, <3>3
  <2>. QED  BY <1>1, <1>2, <2>1, WayFacts DEF Standing
<1>6. Numbered(r)
  <2>1. k > 0
    BY <1>2
  <2>. QED  BY <1>1, <2>1, WayFacts DEF Served, Numbered
<1>7. Upward(r)
  <2>1. \A m \in Nodes : t[m].dseq <= s /\ t[m].nseq <= s /\ t[m].tseq <= s
    BY <1>2 DEF Bounded
  <2>2. \A m \in Nodes : t[m].dseq <= t[m].tseq /\ t[m].nseq <= t[m].tseq /\ \A a \in Way[m] : t[m].tseq <= t[a].tseq
    BY DEF Served, Upward
  <2>3. \A m \in Nodes : t[m].dseq < k /\ t[m].nseq < k /\ t[m].tseq < k
    BY <1>2, <1>4, <2>1
  <2>4. n \in Way[n]
    BY WayFacts
  <2>5. ASSUME NEW m \in Nodes
        PROVE  r[m].dseq <= r[m].tseq /\ r[m].nseq <= r[m].tseq
    <3>1. /\ r[m].nseq = t[m].nseq
          /\ r[m].dseq = IF m = n THEN k ELSE t[m].dseq
          /\ r[m].tseq = IF m \in Way[n] THEN k ELSE t[m].tseq
      BY <1>1
    <3>2. /\ t[m].dseq < k /\ t[m].nseq < k /\ t[m].dseq <= t[m].tseq /\ t[m].nseq <= t[m].tseq
          /\ t[m].dseq \in Nat /\ t[m].nseq \in Nat /\ t[m].tseq \in Nat
      BY <1>4, <2>2, <2>3
    <3>. QED  BY <2>4, <3>1, <3>2
  <2>6. ASSUME NEW m \in Nodes, NEW a \in Way[m]
        PROVE  r[m].tseq <= r[a].tseq
    <3>1. a \in Nodes /\ (m \in Way[n] => a \in Way[n])
      BY <2>6, WayFacts
    <3>2. r[m].tseq = IF m \in Way[n] THEN k ELSE t[m].tseq
      BY <1>1
    <3>3. r[a].tseq = IF a \in Way[n] THEN k ELSE t[a].tseq
      BY <1>1, <3>1
    <3>4. t[m].tseq < k /\ t[m].tseq <= t[a].tseq /\ t[m].tseq \in Nat
      BY <1>4, <2>2, <2>3, <2>6
    <3>. QED  BY <3>1, <3>2, <3>3, <3>4
  <2>. QED  BY <2>5, <2>6 DEF Upward
<1>8. Unique(r)
  <2>1. \A m \in Nodes : t[m].dseq < k /\ t[m].nseq < k
    BY <1>2, <1>4 DEF Bounded
  <2>2. Unique(t)
    BY DEF Served
  <2>3. \A m, j \in Nodes : r[m].dseq = r[j].dseq /\ r[m].dseq > 0 => m = j
    BY <1>1, <2>1, <2>2 DEF Unique
  <2>4. \A m, j \in Nodes : r[m].nseq = r[j].nseq /\ r[m].nseq > 0 => m = j
    BY <1>1, <2>2 DEF Unique
  <2>5. \A m, j \in Nodes : r[m].dseq = r[j].nseq => r[m].dseq = 0
    BY <1>1, <2>1, <2>2 DEF Unique
  <2>. QED  BY <2>3, <2>4, <2>5 DEF Unique
<1>9. r[Root].tseq = k
  BY <1>1, WayFacts
<1>. QED  BY <1>5, <1>6, <1>7, <1>8, <1>9 DEF Served

LEMMA ServedGrown ==
  ASSUME NEW t, NEW s, Served(t, s), NEW n \in Nodes \ {Root}, ~t[n].open, t[ParentOf(n)].open,
         NEW d \in Nat, NEW k \in Nat, d > s, k > d, NEW r, Grown(t, r, n, d, k)
  PROVE  Served(r, k)
<1>. DEFINE p == ParentOf(n)
<1>1. /\ r \in Tree
      /\ r[n].open /\ r[n].vis /\ r[n].dseq = d /\ r[n].nseq = 0 /\ r[n].tseq = d
      /\ \A m \in Nodes \ {n} : /\ r[m].open = t[m].open /\ r[m].vis = t[m].vis /\ r[m].dseq = t[m].dseq
                                /\ r[m].nseq = IF m = p THEN k ELSE t[m].nseq
                                /\ r[m].tseq = IF m \in Way[p] THEN k ELSE t[m].tseq
  BY DEF Grown
<1>2. Bounded(t, s) /\ t \in Tree /\ s \in Nat /\ Standing(t) /\ t[p].open
  BY ServedBounded DEF Served
<1>3. \A m \in Nodes : t[m] \in Node /\ r[m] \in Node
  BY <1>1, <1>2, Trees
<1>4. \A m \in Nodes : t[m].dseq \in Nat /\ t[m].nseq \in Nat /\ t[m].tseq \in Nat
  BY <1>3, Fields
<1>5. p \in Nodes /\ p # n /\ Way[n] = Way[p] \cup {n} /\ n \notin Way[p] /\ p \in Way[p] /\ Root \in Way[p]
      /\ n # Root /\ n \in Nodes
  BY WayFacts
<1>. HIDE DEF p
<1>6. \A m \in Nodes : n \in Way[m] /\ m # n => ~t[m].open /\ t[m] = Absent
  BY <1>2, OpenWay DEF Standing
<1>7. Standing(r)
  <2>1. ASSUME NEW m \in Nodes, ~r[m].open
        PROVE  r[m] = Absent
    <3>1. m # n /\ ~t[m].open /\ t[m] = Absent
      BY <1>1, <1>2, <2>1 DEF Standing
    <3>2. m \notin Way[p] /\ m # p
      BY <1>2, <1>5, <3>1, OpenWay
    <3>3. r[m] = t[m]
      <4>1. /\ r[m].open = t[m].open /\ r[m].vis = t[m].vis /\ r[m].nseq = t[m].nseq
            /\ r[m].dseq = t[m].dseq /\ r[m].tseq = t[m].tseq
        BY <1>1, <3>1, <3>2
      <4>. QED  BY <1>3, <4>1, NodeEqual
    <3>. QED  BY <3>1, <3>3
  <2>2. \A m \in Nodes \ {Root} : r[m].open => r[ParentOf(m)].open
    <3>1. r[p].open
      BY <1>1, <1>2, <1>5
    <3>2. ASSUME NEW m \in Nodes \ {Root}, r[m].open
          PROVE  r[ParentOf(m)].open
      <4>1. CASE m = n
        BY <3>1, <4>1 DEF p
      <4>2. CASE m # n
        <5>1. t[m].open
          BY <1>1, <3>2, <4>2
        <5>2. t[ParentOf(m)].open /\ ParentOf(m) \in Nodes
          BY <1>2, <5>1, WayFacts DEF Standing
        <5>. QED  BY <1>1, <1>5, <3>1, <5>2
      <4>. QED  BY <4>1, <4>2
    <3>. QED  BY <3>2
  <2>3. r[Root].open /\ r[Root].vis
    <3>1. Root \in Nodes \ {n} /\ t[Root].open /\ t[Root].vis
      BY <1>2, <1>5, WayFacts DEF Standing
    <3>. QED  BY <1>1, <3>1
  <2>. QED  BY <1>1, <2>1, <2>2, <2>3 DEF Standing
<1>8. Numbered(r)
  <2>1. d > 0 /\ k > 0
    BY <1>2
  <2>2. \A m \in Nodes : r[m].open => r[m].vis /\ r[m].dseq > 0
    BY <1>1, <2>1 DEF Served, Numbered
  <2>3. \A m \in Nodes \ {Root} : r[m].open => r[ParentOf(m)].nseq > 0
    <3>1. r[p].nseq > 0
      BY <1>1, <1>5, <2>1
    <3>2. \A m \in Nodes \ {Root} : m # n /\ r[m].open => t[ParentOf(m)].nseq > 0 /\ ParentOf(m) # n /\ ParentOf(m) \in Nodes
      <4>1. \A m \in Nodes \ {Root} : m # n /\ r[m].open => t[ParentOf(m)].nseq > 0 /\ t[ParentOf(m)].open
        BY <1>1, <1>2 DEF Served, Numbered, Standing
      <4>. QED  BY <4>1, WayFacts
    <3>. QED  BY <1>1, <2>1, <3>1, <3>2 DEF p
  <2>. QED  BY <2>2, <2>3 DEF Numbered
<1>9. \A m \in Nodes : t[m].dseq < d /\ t[m].nseq < d /\ t[m].tseq < d
  BY <1>2, <1>4 DEF Bounded
<1>10. Upward(r)
  <2>2. \A m \in Nodes : t[m].dseq <= t[m].tseq /\ t[m].nseq <= t[m].tseq /\ \A a \in Way[m] : t[m].tseq <= t[a].tseq
    BY DEF Served, Upward
  <2>5. \A m \in Nodes : r[m].dseq <= r[m].tseq /\ r[m].nseq <= r[m].tseq
    <3>1. ASSUME NEW m \in Nodes \ {n}
          PROVE  r[m].dseq <= r[m].tseq /\ r[m].nseq <= r[m].tseq
      <4>1. t[m].dseq < k /\ t[m].nseq < k
        BY <1>4, <1>9
      <4>2. CASE m \in Way[p]
        <5>1. r[m].tseq = k /\ r[m].dseq = t[m].dseq /\ (r[m].nseq = k \/ r[m].nseq = t[m].nseq)
          BY <1>1, <4>2
        <5>2. t[m].dseq \in Nat /\ t[m].nseq \in Nat
          BY <1>4
        <5>. QED  BY <4>1, <5>1, <5>2
      <4>3. CASE m \notin Way[p]
        <5>1. m # p
          BY <1>5, <4>3
        <5>. QED  BY <1>1, <2>2, <4>3, <5>1
      <4>. QED  BY <4>2, <4>3
    <3>2. r[n].dseq <= r[n].tseq /\ r[n].nseq <= r[n].tseq
      BY <1>1
    <3>. QED  BY <3>1, <3>2
  <2>6. ASSUME NEW m \in Nodes, NEW a \in Way[m]
        PROVE  r[m].tseq <= r[a].tseq
    <3>1. a \in Nodes /\ (m \in Way[p] => a \in Way[p])
      BY <1>5, <2>6, WayFacts
    <3>2. CASE m = n
      <4>1. a = n \/ a \in Way[p]
        BY <1>5, <2>6, <3>2
      <4>2. a # n => r[a].tseq = k
        BY <1>1, <3>1, <4>1
      <4>. QED  BY <1>1, <3>2, <4>2
    <3>3. CASE m # n /\ a = n
      <4>1. t[m].tseq = 0 /\ m \notin Way[p]
        BY <1>5, <1>6, <2>6, <3>1, <3>3, Trees
      <4>. QED  BY <1>1, <3>3, <4>1
    <3>4. CASE m # n /\ a # n
      <4>1. t[m].tseq < k /\ t[m].tseq <= t[a].tseq /\ t[m].tseq \in Nat
        BY <1>4, <1>9, <2>2, <2>6
      <4>2. r[m].tseq = IF m \in Way[p] THEN k ELSE t[m].tseq
        BY <1>1, <3>4
      <4>3. r[a].tseq = IF a \in Way[p] THEN k ELSE t[a].tseq
        BY <1>1, <3>1, <3>4
      <4>. QED  BY <3>1, <4>1, <4>2, <4>3
    <3>. QED  BY <3>2, <3>3, <3>4
  <2>. QED  BY <2>5, <2>6 DEF Upward
<1>11. Unique(r)
  <2>2. Unique(t)
    BY DEF Served
  <2>3. ASSUME NEW m \in Nodes, NEW j \in Nodes, r[m].dseq = r[j].dseq, r[m].dseq > 0
        PROVE  m = j
    BY <1>1, <1>9, <2>2, <2>3 DEF Unique
  <2>4. ASSUME NEW m \in Nodes, NEW j \in Nodes, r[m].nseq = r[j].nseq, r[m].nseq > 0
        PROVE  m = j
    <3>1. m # n /\ j # n
      BY <1>1, <2>4
    <3>2. t[m].nseq < k /\ t[j].nseq < k
      BY <1>4, <1>9
    <3>3. (r[m].nseq = IF m = p THEN k ELSE t[m].nseq) /\ (r[j].nseq = IF j = p THEN k ELSE t[j].nseq)
      BY <1>1, <3>1
    <3>4. CASE m = p /\ j = p
      BY <3>4
    <3>5. CASE m # p /\ j # p
      BY <2>2, <2>4, <3>3, <3>5 DEF Unique
    <3>6. t[m].nseq \in Nat /\ t[j].nseq \in Nat
      BY <1>4
    <3>7. ASSUME m = p, j # p
          PROVE  FALSE
      <4>1. k = t[j].nseq
        BY <2>4, <3>3, <3>7
      <4>. QED  BY <3>2, <3>6, <4>1
    <3>8. ASSUME m # p, j = p
          PROVE  FALSE
      <4>1. k = t[m].nseq
        BY <2>4, <3>3, <3>8
      <4>. QED  BY <3>2, <3>6, <4>1
    <3>. QED  BY <3>4, <3>5, <3>7, <3>8
  <2>5. ASSUME NEW m \in Nodes, NEW j \in Nodes, r[m].dseq = r[j].nseq
        PROVE  r[m].dseq = 0
    <3>1. t[m].dseq < k /\ t[m].dseq < d /\ t[j].nseq < k /\ t[j].nseq < d
      BY <1>4, <1>9
    <3>. QED  BY <1>1, <2>2, <2>5, <3>1 DEF Unique
  <2>. QED  BY <2>3, <2>4, <2>5 DEF Unique
<1>12. r[Root].tseq = k
  <2>1. Root \in Nodes \ {n} /\ Root \in Way[p]
    BY <1>5, WayFacts
  <2>2. r[Root].tseq = IF Root \in Way[p] THEN k ELSE t[Root].tseq
    BY <1>1, <2>1
  <2>. QED  BY <2>1, <2>2
<1>. QED  BY <1>7, <1>8, <1>10, <1>11, <1>12 DEF Served
LEMMA ServedShrunk ==
  ASSUME NEW t, NEW s, Served(t, s), NEW n \in Nodes \ {Root}, t[n].open,
         \A c \in Below[n] : ~t[c].open,
         NEW k \in Nat, k > s, NEW r, Shrunk(t, r, n, k)
  PROVE  Served(r, k)
<1>. DEFINE p == ParentOf(n)
<1>1. /\ r \in Tree
      /\ r[n] = Absent
      /\ \A m \in Nodes \ {n} : /\ r[m].open = t[m].open /\ r[m].vis = t[m].vis /\ r[m].dseq = t[m].dseq
                                /\ r[m].nseq = IF m = p THEN k ELSE t[m].nseq
                                /\ r[m].tseq = IF m \in Way[p] THEN k ELSE t[m].tseq
  BY DEF Shrunk
<1>2. Bounded(t, s) /\ t \in Tree /\ s \in Nat /\ Standing(t) /\ t[p].open
  BY ServedBounded DEF Served, Standing
<1>3. \A m \in Nodes : t[m] \in Node /\ r[m] \in Node
  BY <1>1, <1>2, Trees
<1>4. \A m \in Nodes : t[m].dseq \in Nat /\ t[m].nseq \in Nat /\ t[m].tseq \in Nat
  BY <1>3, Fields
<1>5. p \in Nodes /\ p # n /\ Way[n] = Way[p] \cup {n} /\ n \notin Way[p] /\ p \in Way[p] /\ Root \in Way[p]
      /\ n # Root /\ n \in Nodes
  BY WayFacts
<1>. HIDE DEF p
<1>6. /\ ~r[n].open /\ r[n].dseq = 0 /\ r[n].nseq = 0 /\ r[n].tseq = 0
  BY <1>1 DEF Absent
<1>7. Standing(r)
  <2>1. ASSUME NEW m \in Nodes, ~r[m].open
        PROVE  r[m] = Absent
    <3>1. CASE m = n
      BY <1>1, <3>1
    <3>2. CASE m # n
      <4>1. ~t[m].open /\ t[m] = Absent
        BY <1>1, <1>2, <2>1, <3>2 DEF Standing
      <4>2. m \notin Way[p] /\ m # p
        BY <1>2, <1>5, <4>1, OpenWay
      <4>3. /\ r[m].open = t[m].open /\ r[m].vis = t[m].vis /\ r[m].nseq = t[m].nseq
            /\ r[m].dseq = t[m].dseq /\ r[m].tseq = t[m].tseq
        BY <1>1, <3>2, <4>2
      <4>4. r[m] = t[m]
        BY <1>3, <4>3, NodeEqual
      <4>. QED  BY <4>1, <4>4
    <3>. QED  BY <3>1, <3>2
  <2>2. ASSUME NEW m \in Nodes \ {Root}, r[m].open
        PROVE  r[ParentOf(m)].open
    <3>1. m # n /\ t[m].open
      BY <1>1, <1>6, <2>2
    <3>2. t[ParentOf(m)].open /\ ParentOf(m) \in Nodes
      BY <1>2, <3>1, WayFacts DEF Standing
    <3>3. ParentOf(m) # n
      BY <3>1 DEF Below
    <3>. QED  BY <1>1, <3>2, <3>3
  <2>3. r[Root].open /\ r[Root].vis
    <3>1. Root \in Nodes \ {n} /\ t[Root].open /\ t[Root].vis
      BY <1>2, <1>5, WayFacts DEF Standing
    <3>. QED  BY <1>1, <3>1
  <2>. QED  BY <1>1, <2>1, <2>2, <2>3 DEF Standing
<1>8. Numbered(r)
  <2>1. k > 0
    BY <1>2
  <2>2. \A m \in Nodes : r[m].open => r[m].vis /\ r[m].dseq > 0
    BY <1>1, <1>6, <2>1 DEF Served, Numbered
  <2>3. ASSUME NEW m \in Nodes \ {Root}, r[m].open
        PROVE  r[ParentOf(m)].nseq > 0
    <3>1. m # n /\ t[m].open
      BY <1>1, <1>6, <2>3
    <3>2. t[ParentOf(m)].nseq > 0 /\ ParentOf(m) \in Nodes
      BY <3>1, WayFacts DEF Served, Numbered
    <3>3. ParentOf(m) # n
      BY <3>1 DEF Below
    <3>. QED  BY <1>1, <2>1, <3>2, <3>3
  <2>. QED  BY <2>2, <2>3 DEF Numbered
<1>9. \A m \in Nodes : t[m].dseq < k /\ t[m].nseq < k /\ t[m].tseq < k
  BY <1>2, <1>4 DEF Bounded
<1>10. Upward(r)
  <2>2. \A m \in Nodes : t[m].dseq <= t[m].tseq /\ t[m].nseq <= t[m].tseq /\ \A a \in Way[m] : t[m].tseq <= t[a].tseq
    BY DEF Served, Upward
  <2>5. \A m \in Nodes : r[m].dseq <= r[m].tseq /\ r[m].nseq <= r[m].tseq
    <3>1. ASSUME NEW m \in Nodes \ {n}
          PROVE  r[m].dseq <= r[m].tseq /\ r[m].nseq <= r[m].tseq
      <4>2. CASE m \in Way[p]
        <5>1. r[m].tseq = k /\ r[m].dseq = t[m].dseq /\ (r[m].nseq = k \/ r[m].nseq = t[m].nseq)
          BY <1>1, <4>2
        <5>2. t[m].dseq \in Nat /\ t[m].nseq \in Nat /\ t[m].dseq < k /\ t[m].nseq < k
          BY <1>4, <1>9
        <5>. QED  BY <5>1, <5>2
      <4>3. CASE m \notin Way[p]
        <5>1. m # p
          BY <1>5, <4>3
        <5>. QED  BY <1>1, <2>2, <4>3, <5>1
      <4>. QED  BY <4>2, <4>3
    <3>2. r[n].dseq <= r[n].tseq /\ r[n].nseq <= r[n].tseq
      BY <1>6
    <3>. QED  BY <3>1, <3>2
  <2>6. ASSUME NEW m \in Nodes, NEW a \in Way[m]
        PROVE  r[m].tseq <= r[a].tseq
    <3>1. a \in Nodes /\ (m \in Way[p] => a \in Way[p])
      BY <1>5, <2>6, WayFacts
    <3>2. r[a].tseq \in Nat
      BY <1>3, <3>1, Fields
    <3>3. CASE m = n
      BY <1>6, <3>2, <3>3
    <3>4. CASE m # n /\ a = n
      <4>1. ~t[m].open
        <5>1. m # n /\ n \in Way[m] /\ ~r[n].open
          BY <1>6, <2>6, <3>4
        <5>2. ~r[m].open
          BY <1>7, <5>1, OpenWay
        <5>. QED  BY <1>1, <5>1, <5>2
      <4>2. t[m].tseq = 0
        BY <1>2, <4>1 DEF Standing, Absent
      <4>3. m \notin Way[p]
        BY <1>5, <3>1, <3>4
      <4>. QED  BY <1>1, <1>6, <3>4, <4>2, <4>3
    <3>5. CASE m # n /\ a # n
      <4>1. t[m].tseq < k /\ t[m].tseq <= t[a].tseq /\ t[m].tseq \in Nat
        BY <1>4, <1>9, <2>2, <2>6
      <4>2. r[m].tseq = IF m \in Way[p] THEN k ELSE t[m].tseq
        BY <1>1, <3>5
      <4>3. r[a].tseq = IF a \in Way[p] THEN k ELSE t[a].tseq
        BY <1>1, <3>1, <3>5
      <4>. QED  BY <3>1, <4>1, <4>2, <4>3
    <3>. QED  BY <3>3, <3>4, <3>5
  <2>. QED  BY <2>5, <2>6 DEF Upward
<1>11. Unique(r)
  <2>2. Unique(t)
    BY DEF Served
  <2>3. ASSUME NEW m \in Nodes, NEW j \in Nodes, r[m].dseq = r[j].dseq, r[m].dseq > 0
        PROVE  m = j
    <3>1. m # n /\ j # n
      BY <1>6, <2>3
    <3>. QED  BY <1>1, <2>2, <2>3, <3>1 DEF Unique
  <2>4. ASSUME NEW m \in Nodes, NEW j \in Nodes, r[m].nseq = r[j].nseq, r[m].nseq > 0
        PROVE  m = j
    <3>1. m # n /\ j # n
      BY <1>6, <2>4
    <3>2. t[m].nseq < k /\ t[j].nseq < k
      BY <1>9
    <3>3. (r[m].nseq = IF m = p THEN k ELSE t[m].nseq) /\ (r[j].nseq = IF j = p THEN k ELSE t[j].nseq)
      BY <1>1, <3>1
    <3>4. CASE m = p /\ j = p
      BY <3>4
    <3>5. CASE m # p /\ j # p
      BY <2>2, <2>4, <3>3, <3>5 DEF Unique
    <3>6. t[m].nseq \in Nat /\ t[j].nseq \in Nat
      BY <1>4
    <3>7. ASSUME m = p, j # p
          PROVE  FALSE
      <4>1. k = t[j].nseq
        BY <2>4, <3>3, <3>7
      <4>. QED  BY <3>2, <3>6, <4>1
    <3>8. ASSUME m # p, j = p
          PROVE  FALSE
      <4>1. k = t[m].nseq
        BY <2>4, <3>3, <3>8
      <4>. QED  BY <3>2, <3>6, <4>1
    <3>. QED  BY <3>4, <3>5, <3>7, <3>8
  <2>5. ASSUME NEW m \in Nodes, NEW j \in Nodes, r[m].dseq = r[j].nseq
        PROVE  r[m].dseq = 0
    <3>1. CASE m = n
      BY <1>6, <3>1
    <3>2. CASE m # n /\ j = n
      BY <1>6, <2>5, <3>2
    <3>3. CASE m # n /\ j # n
      <4>1. t[m].dseq < k /\ t[m].dseq \in Nat
        BY <1>4, <1>9
      <4>. QED  BY <1>1, <2>2, <2>5, <3>3, <4>1 DEF Unique
    <3>. QED  BY <3>1, <3>2, <3>3
  <2>. QED  BY <2>3, <2>4, <2>5 DEF Unique
<1>12. r[Root].tseq = k
  <2>1. Root \in Nodes \ {n} /\ Root \in Way[p]
    BY <1>5, WayFacts
  <2>2. r[Root].tseq = IF Root \in Way[p] THEN k ELSE t[Root].tseq
    BY <1>1, <2>1
  <2>. QED  BY <2>1, <2>2
<1>. QED  BY <1>7, <1>8, <1>10, <1>11, <1>12 DEF Served
-----------------------------------------------------------------------------
(* What is said of a tree, and the closing of nodes.                        *)

Kid == [path : Nodes, tseq : Nat]
Stanza == {z \in [kind : {"TREE", "DATA"}, path : Nodes, num : Nat, kids : Seq(Kid)] :
             /\ \A i \in DOMAIN z.kids : z.kids[i].path \in Below[z.path]
             /\ \A i, k \in DOMAIN z.kids : z.kids[i].path = z.kids[k].path => i = k}

LEMMA DataEvtIs ==
  ASSUME NEW t \in Tree, NEW n \in Nodes
  PROVE  DataEvt(t, n) \in Stanza
<1>1. t[n].dseq \in Nat
  BY Trees, Fields
<1>2. <<>> \in Seq(Kid) /\ DOMAIN <<>> = {}
  OBVIOUS
<1>3. DataEvt(t, n).kids = <<>>
  BY DEF DataEvt
<1>. QED  BY <1>1, <1>2, <1>3 DEF DataEvt, Stanza

\* The children that clients see: in the program's order, each once.
LEMMA VisibleIs ==
  ASSUME NEW t, NEW n \in Nodes
  PROVE  LET v == Visible(t, n) IN
         /\ v \in Seq(Below[n])
         /\ \A i \in 1..Len(v) : t[v[i]].open /\ t[v[i]].vis
         /\ \A c \in Below[n] : t[c].open /\ t[c].vis => \E i \in 1..Len(v) : v[i] = c
         /\ \A i, k \in 1..Len(v) : v[i] = v[k] => i = k
<1>. DEFINE S == {c \in Kids(t, n) : t[c].vis}
            v == Visible(t, n)
<1>1. v = Among(Order, S)
  BY DEF Visible
<1>2. S \subseteq Below[n] /\ Below[n] \subseteq Nodes /\ \A c \in S : t[c].open /\ t[c].vis
  BY Belows DEF Kids
<1>3. \A c \in Below[n] : t[c].open /\ t[c].vis => c \in S
  BY DEF Kids
<1>. HIDE DEF S, v
<1>4. /\ v \in Seq(Nodes \cap S)
      /\ \A c \in Nodes \cap S : \E i \in 1..Len(v) : v[i] = c
      /\ \A i, k \in 1..Len(v) : v[i] = v[k] => i = k
  BY <1>1, AmongOrder
<1>5. Nodes \cap S = S
  BY <1>2
<1>6. \A i \in 1..Len(v) : v[i] \in S
  BY <1>4, <1>5
<1>7. v \in Seq(Below[n])
  <2>1. v = [i \in 1..Len(v) |-> v[i]] /\ Len(v) \in Nat
    BY <1>4
  <2>2. \A i \in 1..Len(v) : v[i] \in Below[n]
    BY <1>2, <1>6
  <2>. QED  BY <2>1, <2>2
<1>. QED  BY <1>2, <1>3, <1>4, <1>5, <1>6, <1>7 DEF v

LEMMA TreeEvtIs ==
  ASSUME NEW t \in Tree, NEW n \in Nodes
  PROVE  LET z == TreeEvt(t, n) IN
         /\ z \in Stanza /\ z.kind = "TREE" /\ z.path = n /\ z.num = t[n].nseq
         /\ \A i \in DOMAIN z.kids : LET c == z.kids[i].path IN
              c \in Below[n] /\ t[c].open /\ t[c].vis /\ z.kids[i].tseq = t[c].tseq
         /\ \A c \in Below[n] : t[c].open /\ t[c].vis => \E i \in DOMAIN z.kids : z.kids[i].path = c
         /\ \A i, k \in DOMAIN z.kids : z.kids[i].path = z.kids[k].path => i = k
<1>. DEFINE z == TreeEvt(t, n)
            v == Visible(t, n)
            N == Len(v)
<1>1. z.kind = "TREE" /\ z.path = n /\ z.num = t[n].nseq
      /\ z.kids = [i \in DOMAIN v |-> [path |-> v[i], tseq |-> t[v[i]].tseq]]
      /\ z = [kind |-> z.kind, path |-> z.path, num |-> z.num, kids |-> z.kids]
  BY DEF TreeEvt
<1>. HIDE DEF z
<1>2. /\ v \in Seq(Below[n])
      /\ \A i \in 1..N : t[v[i]].open /\ t[v[i]].vis
      /\ \A c \in Below[n] : t[c].open /\ t[c].vis => \E i \in 1..N : v[i] = c
      /\ \A i, k \in 1..N : v[i] = v[k] => i = k
  BY VisibleIs
<1>. HIDE DEF v
<1>3. DOMAIN v = 1..N /\ N \in Nat /\ \A i \in 1..N : v[i] \in Below[n]
  BY <1>2
<1>4. DOMAIN z.kids = 1..N /\ \A i \in 1..N : z.kids[i] = [path |-> v[i], tseq |-> t[v[i]].tseq]
  BY <1>1, <1>3
<1>5. \A i \in 1..N : /\ z.kids[i].path = v[i] /\ z.kids[i].tseq = t[v[i]].tseq
                      /\ z.kids[i] \in Kid
  <2>1. \A i \in 1..N : v[i] \in Nodes
    BY <1>3, Belows
  <2>2. \A i \in 1..N : t[v[i]].tseq \in Nat
    BY <2>1, Trees, Fields
  <2>3. ASSUME NEW i \in 1..N
        PROVE  z.kids[i].path = v[i] /\ z.kids[i].tseq = t[v[i]].tseq /\ z.kids[i] \in Kid
    <3>1. PICK c, s : c = v[i] /\ s = t[v[i]].tseq
      OBVIOUS
    <3>2. z.kids[i] = [path |-> c, tseq |-> s]
      BY <1>4, <3>1
    <3>3. c \in Nodes /\ s \in Nat
      BY <2>1, <2>2, <3>1
    <3>. QED  BY <3>1, <3>2, <3>3 DEF Kid
  <2>. QED  BY <2>3
<1>6. z.kids \in Seq(Kid)
  <2>1. z.kids = [i \in 1..N |-> z.kids[i]]
    BY <1>1, <1>4
  <2>. QED  BY <1>3, <1>5, <2>1
<1>7. z \in Stanza
  <2>1. t[n].nseq \in Nat
    BY Trees, Fields
  <2>2. \A i \in DOMAIN z.kids : z.kids[i].path \in Below[z.path]
    BY <1>1, <1>3, <1>4, <1>5
  <2>3. \A i, k \in DOMAIN z.kids : z.kids[i].path = z.kids[k].path => i = k
    BY <1>2, <1>4, <1>5
  <2>. QED  BY <1>1, <1>6, <2>1, <2>2, <2>3 DEF Stanza
<1>. QED  BY <1>1, <1>2, <1>3, <1>4, <1>5, <1>7 DEF z

\* What a stanza says of a list.
LEMMA TreeEvtSame ==
  ASSUME NEW t \in Tree, NEW r \in Tree, NEW n \in Nodes, r[n].nseq = t[n].nseq,
         \A c \in Below[n] : /\ r[c].open = t[c].open
                             /\ t[c].open => r[c].vis = t[c].vis /\ r[c].tseq = t[c].tseq
  PROVE  TreeEvt(r, n) = TreeEvt(t, n)
<1>1. {c \in Kids(r, n) : r[c].vis} = {c \in Kids(t, n) : t[c].vis}
  BY DEF Kids
<1>2. Visible(r, n) = Visible(t, n)
  BY <1>1 DEF Visible
<1>. DEFINE v == Visible(t, n)
<1>3. \A i \in DOMAIN v : r[v[i]].tseq = t[v[i]].tseq
  <2>1. v \in Seq(Below[n]) /\ \A i \in 1..Len(v) : t[v[i]].open
    BY VisibleIs
  <2>. HIDE DEF v
  <2>2. \A i \in DOMAIN v : v[i] \in Below[n] /\ t[v[i]].open
    BY <2>1
  <2>. QED  BY <2>2
<1>. HIDE DEF v
<1>4. [i \in DOMAIN v |-> [path |-> v[i], tseq |-> r[v[i]].tseq]]
        = [i \in DOMAIN v |-> [path |-> v[i], tseq |-> t[v[i]].tseq]]
  BY <1>3
<1>5. TreeEvt(t, n) = [kind |-> "TREE", path |-> n, num |-> t[n].nseq,
                       kids |-> [i \in DOMAIN v |-> [path |-> v[i], tseq |-> t[v[i]].tseq]]]
  BY DEF TreeEvt, v
<1>6. TreeEvt(r, n) = [kind |-> "TREE", path |-> n, num |-> r[n].nseq,
                       kids |-> [i \in DOMAIN v |-> [path |-> v[i], tseq |-> r[v[i]].tseq]]]
  BY <1>2 DEF TreeEvt, v
<1>. QED  BY <1>4, <1>5, <1>6
\* childgone() and server_childgone() of the parent.
GoneMakes(w, g, n) ==
  /\ Shrunk(w.tree, g.tree, n, w.seq + 1)
  /\ g.seq = w.seq + 1
  /\ g.sent = Append(w.sent, TreeEvt(g.tree, ParentOf(n)))
  /\ \E u \in Tree : u[Root] = g.tree[Root] /\ g.first = IF w.sent = <<>> THEN u ELSE w.first
  /\ DOMAIN g = {"tree", "seq", "sent", "first"}
  /\ NumsFrom(w.tree, g.tree, {0, w.seq + 1})

LEMMA GoneIs ==
  ASSUME NEW w, w.tree \in Tree, w.seq \in Nat, Bounded(w.tree, w.seq),
         NEW n \in Nodes \ {Root}, ~w.tree[n].open
  PROVE  GoneMakes(w, Gone(w, n), n)
<1>. DEFINE t == w.tree
            p == ParentOf(n)
            a == ChildGone(t, n)
            b == SetNseq(a, p, w.seq + 1)
            r == [b EXCEPT ![n] = Absent]
<1>1. Gone(w, n) = [tree |-> r, seq |-> w.seq + 1, sent |-> Append(w.sent, TreeEvt(b, p)),
                    first |-> IF w.sent = <<>> THEN b ELSE w.first]
  BY DEF Gone
<1>2. p \in Nodes /\ p # n /\ n \notin Way[p] /\ p \in Way[p] /\ Root \in Way[p] /\ Way[p] \subseteq Nodes
      /\ n \in Nodes /\ n # Root /\ Way[n] = Way[p] \cup {n}
  BY WayFacts
<1>3. Settled(t, a, n)
  BY ChildGoneIs
<1>. HIDE DEF a
<1>4. a \in Tree /\ NumsFrom(t, a, {0}) /\ SameButTseq(t, a)
      /\ \A m \in Nodes : m \notin Way[n] \ {n} => a[m] = t[m]
  BY <1>3 DEF Settled
<1>5. \A m \in Nodes : t[m].dseq \in Nat /\ t[m].nseq \in Nat /\ t[m].tseq \in Nat
                       /\ a[m].tseq \in Nat
  BY <1>4, Trees, Fields
<1>6. PICK k \in Nat : k = w.seq + 1
  OBVIOUS
<1>7. \A m \in Nodes : a[m].tseq < k
  <2>1. \A m \in Nodes : \A x \in Nums(t[m]) : x < k
    BY <1>5, <1>6 DEF Bounded, Nums
  <2>2. \A m \in Nodes : a[m].tseq \in {0} \cup UNION {Nums(t[j]) : j \in Nodes}
    BY <1>4 DEF NumsFrom, Nums
  <2>3. 0 < k
    BY <1>6
  <2>. QED  BY <2>1, <2>2, <2>3
<1>8. SetNseqMakes(a, SetNseq(a, p, k), p, k)
  BY <1>2, <1>4, SetNseqIs
<1>9. b = SetNseq(a, p, k)
  BY <1>6
<1>. HIDE DEF b
<1>10. /\ b \in Tree /\ NumsFrom(a, b, {k})
       /\ \A m \in Nodes : /\ b[m].open = a[m].open /\ b[m].vis = a[m].vis /\ b[m].dseq = a[m].dseq
                           /\ b[m].nseq = IF m = p THEN k ELSE a[m].nseq
       /\ (\A m \in Way[p] : a[m].tseq < k) => \A m \in Nodes : b[m].tseq = IF m \in Way[p] THEN k ELSE a[m].tseq
  BY <1>8, <1>9 DEF SetNseqMakes
<1>11. \A m \in Nodes : b[m].tseq = IF m \in Way[p] THEN k ELSE a[m].tseq
  BY <1>2, <1>7, <1>10
<1>12. r \in Tree /\ r[n] = Absent /\ \A m \in Nodes \ {n} : r[m] = b[m]
  <2>1. Absent \in Node
    BY DEF Absent, Node
  <2>. QED  BY <1>2, <1>10, <2>1, Trees
<1>. HIDE DEF r
<1>13. Shrunk(t, r, n, k)
  <2>1. ASSUME NEW m \in Nodes \ {n}
        PROVE  /\ r[m].open = t[m].open /\ r[m].vis = t[m].vis /\ r[m].dseq = t[m].dseq
               /\ r[m].nseq = IF m = p THEN k ELSE t[m].nseq
               /\ r[m].tseq = IF m \in Way[p] THEN k ELSE t[m].tseq
    <3>1. /\ b[m].open = t[m].open /\ b[m].vis = t[m].vis /\ b[m].dseq = t[m].dseq
          /\ b[m].nseq = IF m = p THEN k ELSE t[m].nseq
      BY <1>4, <1>10 DEF SameButTseq
    <3>2. m \notin Way[p] => a[m].tseq = t[m].tseq
      BY <1>2, <1>4
    <3>. QED  BY <1>11, <1>12, <3>1, <3>2
  <2>. QED  BY <1>12, <2>1 DEF Shrunk
<1>14. TreeEvt(r, p) = TreeEvt(b, p)
  <2>1. ~b[n].open
    BY <1>2, <1>4, <1>10 DEF SameButTseq
  <2>2. ~r[n].open
    BY <1>12 DEF Absent
  <2>3. ASSUME NEW c \in Below[p]
        PROVE  /\ r[c].open = b[c].open
               /\ b[c].open => r[c].vis = b[c].vis /\ r[c].tseq = b[c].tseq
    <3>1. b[n].open = FALSE /\ r[n].open = FALSE
      BY <1>2, <1>10, <1>12, <2>1, <2>2, Trees, Fields
    <3>2. c \in Nodes
      BY <1>2, Belows
    <3>. QED  BY <1>12, <3>1, <3>2
  <2>4. r[p].nseq = b[p].nseq
    BY <1>2, <1>12
  <2>. QED  BY <1>2, <1>10, <1>12, <2>3, <2>4, TreeEvtSame
<1>15. NumsFrom(t, r, {0, k})
  <2>1. NumsFrom(t, b, {0, k})
    BY <1>4, <1>10, NumsStep
  <2>2. \A m \in Nodes : Nums(r[m]) \subseteq Nums(b[m]) \cup {0}
    BY <1>12 DEF Nums, Absent
  <2>3. NumsFrom(b, r, {0})
    BY <2>2, NumsNode
  <2>. QED  BY <2>1, <2>3, NumsStep
<1>. DEFINE g == Gone(w, n)
<1>16. g.tree = r /\ g.seq = k /\ g.sent = Append(w.sent, TreeEvt(r, p)) /\ DOMAIN g = {"tree", "seq", "sent", "first"}
       /\ g.first = IF w.sent = <<>> THEN b ELSE w.first
  BY <1>1, <1>6, <1>14
<1>. HIDE DEF g
<1>17. b \in Tree /\ b[Root] = g.tree[Root]
  BY <1>2, <1>10, <1>12, <1>16, Levels
<1>18. GoneMakes(w, g, n)
  BY <1>6, <1>13, <1>15, <1>16, <1>17 DEF GoneMakes
<1>. QED  BY <1>18 DEF g
\* What close0() works on.
Work == {w \in [tree : Tree, seq : Nat, sent : Seq(Stanza), first : Tree] : Bounded(w.tree, w.seq)}
GoneFrom(w, n) == Gone([w EXCEPT !.tree = Erase(@, n)], n)

\* The steps of Shut().
ShutSteps(F, w, n) ==
  /\ F \in [0..Len(Children(w.tree, n)) -> Work]
  /\ F[0] = [w EXCEPT !.tree = Erase(@, n)]
  /\ \A i \in 1..Len(Children(w.tree, n)) : F[i] = GoneFrom(F[i - 1], Children(w.tree, n)[i])
  /\ Shut(w, n) = Gone(F[Len(Children(w.tree, n))], n)

LEMMA ShutFolds ==
  ASSUME NEW w, NEW n,
         Len(Children(w.tree, n)) \in Nat, [w EXCEPT !.tree = Erase(@, n)] \in Work,
         \A i \in 1..Len(Children(w.tree, n)), v \in Work : GoneFrom(v, Children(w.tree, n)[i]) \in Work
  PROVE  \E F : ShutSteps(F, w, n)
<1>. DEFINE b == [w EXCEPT !.tree = Erase(@, n)]
            Step(v, i) == GoneFrom(v, Children(w.tree, n)[i])
            F == CHOOSE f : f = [i \in 0..Len(Children(w.tree, n)) |->
                   IF i = 0 THEN [w EXCEPT !.tree = Erase(@, n)]
                   ELSE GoneFrom(f[i - 1], Children(w.tree, n)[i])]
            g == [i \in 1..Len(Children(w.tree, n)) |-> [v \in Work |-> Step(v, i)]]
<1>1. PICK k \in Nat : k = Len(Children(w.tree, n))
  OBVIOUS
<1>2. b \in Work /\ \A i \in 1..k, v \in Work : Step(v, i) \in Work
  BY <1>1
<1>3. Shut(w, n) = Gone(F[Len(Children(w.tree, n))], n)
  BY DEF Shut, GoneFrom
<1>4. F = CHOOSE f : f = [i \in 0..k |-> IF i = 0 THEN b ELSE Step(f[i - 1], i)]
  BY <1>1
<1>5. g = [i \in 1..k |-> [v \in Work |-> Step(v, i)]]
  BY <1>1
<1>6. \A f : f[0] = b => f[0] = [w EXCEPT !.tree = Erase(@, n)]
  OBVIOUS
<1>7. \A f, i : f[i] = Step(f[i - 1], i) => f[i] = GoneFrom(f[i - 1], Children(w.tree, n)[i])
  OBVIOUS
<1>. HIDE DEF F, Step, b, g
<1>8. g \in [1..k -> [Work -> Work]] /\ \A i \in 1..k, v \in Work : g[i][v] = Step(v, i)
  BY <1>2, <1>5
<1>9. PICK f : IsFold(f, k, Work, b, g)
  BY <1>2, <1>8, FoldExists
<1>10. f \in [0..k -> Work] /\ f[0] = b /\ \A i \in 1..k : f[i] = Step(f[i - 1], i)
  <2>1. \A i \in 1..k : i - 1 \in 0..k
    OBVIOUS
  <2>2. f \in [0..k -> Work] /\ f[0] = b /\ \A i \in 1..k : f[i] = g[i][f[i - 1]]
    BY <1>9 DEF IsFold
  <2>. QED  BY <1>8, <2>1, <2>2
<1>11. f = [i \in 0..k |-> IF i = 0 THEN b ELSE Step(f[i - 1], i)]
  <2>1. \A i \in 0..k : i = 0 \/ i \in 1..k
    OBVIOUS
  <2>2. \A i \in 0..k : f[i] = IF i = 0 THEN b ELSE Step(f[i - 1], i)
    BY <1>10, <2>1
  <2>. QED  BY <1>10, <2>2
<1>12. F = [i \in 0..k |-> IF i = 0 THEN b ELSE Step(F[i - 1], i)]
  BY <1>4, <1>11
<1>13. F \in [0..k -> Work] /\ F[0] = b /\ \A i \in 1..k : F[i] = Step(F[i - 1], i)
  <2>. DEFINE Q == {i \in 0..k : F[i] \in Work}
  <2>1. F[0] = b /\ \A i \in 1..k : F[i] = Step(F[i - 1], i)
    BY <1>12
  <2>2. 0 \in Q
    BY <1>2, <2>1
  <2>3. \A i \in 1..k : i - 1 \in Q => i \in Q
    BY <1>2, <2>1
  <2>. HIDE DEF Q
  <2>4. \A i \in 0..k : i \in Q
    BY <2>2, <2>3, UpTo
  <2>5. \A i \in 0..k : F[i] \in Work
    BY <2>4 DEF Q
  <2>. QED  BY <1>12, <2>1, <2>5
<1>14. F[0] = [w EXCEPT !.tree = Erase(@, n)]
       /\ \A i \in 1..k : F[i] = GoneFrom(F[i - 1], Children(w.tree, n)[i])
  BY <1>6, <1>7, <1>13
<1>. QED  BY <1>1, <1>3, <1>13, <1>14 DEF ShutSteps

EndedSteps(F, w) ==
  /\ F \in [0..Len(Children(w.tree, Root)) -> Work]
  /\ F[0] = [w EXCEPT !.tree = Erase(@, Root)]
  /\ \A i \in 1..Len(Children(w.tree, Root)) : F[i] = Shut(F[i - 1], Children(w.tree, Root)[i])
  /\ Ended(w) = F[Len(Children(w.tree, Root))]

LEMMA EndedFolds ==
  ASSUME NEW w,
         Len(Children(w.tree, Root)) \in Nat, [w EXCEPT !.tree = Erase(@, Root)] \in Work,
         \A i \in 1..Len(Children(w.tree, Root)), v \in Work : Shut(v, Children(w.tree, Root)[i]) \in Work
  PROVE  \E F : EndedSteps(F, w)
<1>. DEFINE b == [w EXCEPT !.tree = Erase(@, Root)]
            Step(v, i) == Shut(v, Children(w.tree, Root)[i])
            F == CHOOSE f : f = [i \in 0..Len(Children(w.tree, Root)) |->
                   IF i = 0 THEN [w EXCEPT !.tree = Erase(@, Root)]
                   ELSE Shut(f[i - 1], Children(w.tree, Root)[i])]
            g == [i \in 1..Len(Children(w.tree, Root)) |-> [v \in Work |-> Step(v, i)]]
<1>1. PICK k \in Nat : k = Len(Children(w.tree, Root))
  OBVIOUS
<1>2. b \in Work /\ \A i \in 1..k, v \in Work : Step(v, i) \in Work
  BY <1>1
<1>3. Ended(w) = F[Len(Children(w.tree, Root))]
  BY DEF Ended
<1>4. F = CHOOSE f : f = [i \in 0..k |-> IF i = 0 THEN b ELSE Step(f[i - 1], i)]
  BY <1>1
<1>5. g = [i \in 1..k |-> [v \in Work |-> Step(v, i)]]
  BY <1>1
<1>6. \A f : f[0] = b => f[0] = [w EXCEPT !.tree = Erase(@, Root)]
  OBVIOUS
<1>7. \A f, i : f[i] = Step(f[i - 1], i) => f[i] = Shut(f[i - 1], Children(w.tree, Root)[i])
  OBVIOUS
<1>. HIDE DEF F, Step, b, g
<1>8. g \in [1..k -> [Work -> Work]] /\ \A i \in 1..k, v \in Work : g[i][v] = Step(v, i)
  BY <1>2, <1>5
<1>9. PICK f : IsFold(f, k, Work, b, g)
  BY <1>2, <1>8, FoldExists
<1>10. f \in [0..k -> Work] /\ f[0] = b /\ \A i \in 1..k : f[i] = Step(f[i - 1], i)
  <2>1. \A i \in 1..k : i - 1 \in 0..k
    OBVIOUS
  <2>2. f \in [0..k -> Work] /\ f[0] = b /\ \A i \in 1..k : f[i] = g[i][f[i - 1]]
    BY <1>9 DEF IsFold
  <2>. QED  BY <1>8, <2>1, <2>2
<1>11. f = [i \in 0..k |-> IF i = 0 THEN b ELSE Step(f[i - 1], i)]
  <2>1. \A i \in 0..k : i = 0 \/ i \in 1..k
    OBVIOUS
  <2>2. \A i \in 0..k : f[i] = IF i = 0 THEN b ELSE Step(f[i - 1], i)
    BY <1>10, <2>1
  <2>. QED  BY <1>10, <2>2
<1>12. F = [i \in 0..k |-> IF i = 0 THEN b ELSE Step(F[i - 1], i)]
  BY <1>4, <1>11
<1>13. F \in [0..k -> Work] /\ F[0] = b /\ \A i \in 1..k : F[i] = Step(F[i - 1], i)
  <2>. DEFINE Q == {i \in 0..k : F[i] \in Work}
  <2>1. F[0] = b /\ \A i \in 1..k : F[i] = Step(F[i - 1], i)
    BY <1>12
  <2>2. 0 \in Q
    BY <1>2, <2>1
  <2>3. \A i \in 1..k : i - 1 \in Q => i \in Q
    BY <1>2, <2>1
  <2>. HIDE DEF Q
  <2>4. \A i \in 0..k : i \in Q
    BY <2>2, <2>3, UpTo
  <2>5. \A i \in 0..k : F[i] \in Work
    BY <2>4 DEF Q
  <2>. QED  BY <1>12, <2>1, <2>5
<1>14. F[0] = [w EXCEPT !.tree = Erase(@, Root)]
       /\ \A i \in 1..k : F[i] = Shut(F[i - 1], Children(w.tree, Root)[i])
  BY <1>6, <1>7, <1>13
<1>. QED  BY <1>1, <1>3, <1>13, <1>14 DEF EndedSteps
LEMMA EraseIs ==
  ASSUME NEW t \in Tree, NEW n \in Nodes
  PROVE  LET r == Erase(t, n) IN
         /\ r \in Tree /\ ~r[n].open
         /\ \A m \in Nodes \ {n} : r[m] = t[m]
         /\ r[n].vis = t[n].vis /\ r[n].dseq = t[n].dseq /\ r[n].nseq = t[n].nseq /\ r[n].tseq = t[n].tseq
         /\ \A s : Bounded(t, s) => Bounded(r, s)
         /\ NumsFrom(t, r, {})
<1>. DEFINE r == Erase(t, n)
            d == [t[n] EXCEPT !.open = FALSE]
<1>1. t \in [Nodes -> Node] /\ t[n] \in Node
  BY Trees
<1>2. d \in Node /\ ~d.open /\ d.vis = t[n].vis /\ d.dseq = t[n].dseq /\ d.nseq = t[n].nseq
      /\ d.tseq = t[n].tseq
  BY <1>1 DEF Node
<1>3. r = [t EXCEPT ![n] = d]
  BY DEF Erase
<1>. HIDE DEF d, r
<1>4. r \in Tree /\ r[n] = d /\ \A m \in Nodes \ {n} : r[m] = t[m]
  BY <1>1, <1>2, <1>3, Trees
<1>5. \A m \in Nodes : r[m].dseq = t[m].dseq /\ r[m].nseq = t[m].nseq /\ r[m].tseq = t[m].tseq
  BY <1>2, <1>4
<1>6. \A s : Bounded(t, s) => Bounded(r, s)
  BY <1>5 DEF Bounded
<1>7. \A m \in Nodes : Nums(r[m]) \subseteq Nums(t[m]) \cup {}
  BY <1>5 DEF Nums
<1>8. NumsFrom(t, r, {})
  BY <1>7, NumsNode
<1>. QED  BY <1>2, <1>4, <1>6, <1>8 DEF r

\* The children of a node, in the program's order, each once.
LEMMA ChildrenAre ==
  ASSUME NEW t, NEW n \in Nodes
  PROVE  LET v == Children(t, n) IN
         /\ v \in Seq(Nodes) /\ Len(v) \in Nat
         /\ \A i \in 1..Len(v) : v[i] \in Below[n] /\ v[i] \in Nodes \ {Root} /\ v[i] # n /\ t[v[i]].open
         /\ \A c \in Below[n] : t[c].open => \E i \in 1..Len(v) : v[i] = c
         /\ \A i, k \in 1..Len(v) : v[i] = v[k] => i = k
<1>. DEFINE S == Kids(t, n)
            v == Children(t, n)
<1>1. v = Among(Order, S)
  BY DEF Children
<1>2. S \subseteq Below[n] /\ Below[n] \subseteq Nodes \ {Root} /\ n \notin Below[n]
      /\ \A c \in S : t[c].open
  BY Belows, WayFacts DEF Kids
<1>3. \A c \in Below[n] : t[c].open => c \in S
  BY DEF Kids
<1>. HIDE DEF S, v
<1>4. /\ v \in Seq(Nodes \cap S)
      /\ \A c \in Nodes \cap S : \E i \in 1..Len(v) : v[i] = c
      /\ \A i, k \in 1..Len(v) : v[i] = v[k] => i = k
  BY <1>1, AmongOrder
<1>5. Nodes \cap S = S
  BY <1>2
<1>6. Len(v) \in Nat /\ \A i \in 1..Len(v) : v[i] \in S
  BY <1>4, <1>5
<1>7. v \in Seq(Nodes)
  <2>1. v = [i \in 1..Len(v) |-> v[i]]
    BY <1>4
  <2>2. \A i \in 1..Len(v) : v[i] \in Nodes
    BY <1>2, <1>6
  <2>. QED  BY <1>6, <2>1, <2>2
<1>8. \A i \in 1..Len(v) : v[i] \in Below[n] /\ v[i] \in Nodes \ {Root} /\ v[i] # n /\ t[v[i]].open
  BY <1>2, <1>6
<1>. QED  BY <1>2, <1>3, <1>4, <1>5, <1>6, <1>7, <1>8 DEF v

\* What childgone() is given and what it leaves.
LEMMA WorkGone ==
  ASSUME NEW w \in Work, NEW n \in Nodes \ {Root}, ~w.tree[n].open
  PROVE  /\ Gone(w, n) \in Work
         /\ GoneMakes(w, Gone(w, n), n)
         /\ Gone(w, n).sent # <<>>
<1>. DEFINE g == Gone(w, n)
<1>1. /\ w.tree \in Tree /\ w.seq \in Nat /\ w.sent \in Seq(Stanza) /\ w.first \in Tree
      /\ Bounded(w.tree, w.seq)
  BY DEF Work
<1>2. GoneMakes(w, g, n)
  BY <1>1, GoneIs
<1>3. g = [tree |-> g.tree, seq |-> g.seq, sent |-> g.sent, first |-> g.first]
  BY DEF Gone
<1>. HIDE DEF g
<1>4. PICK k \in Nat : k = w.seq + 1
  BY <1>1
<1>5. g.tree \in Tree /\ g.seq = k
  BY <1>2, <1>4 DEF GoneMakes, Shrunk
<1>6. g.first \in Tree
  <2>1. PICK u \in Tree : g.first = IF w.sent = <<>> THEN u ELSE w.first
    BY <1>2 DEF GoneMakes
  <2>. QED  BY <1>1, <2>1
<1>7. ParentOf(n) \in Nodes
  BY WayFacts
<1>8. PICK z \in Stanza : z = TreeEvt(g.tree, ParentOf(n))
  BY <1>5, <1>7, TreeEvtIs
<1>9. g.sent = Append(w.sent, z)
  BY <1>2, <1>8 DEF GoneMakes
<1>10. g.sent \in Seq(Stanza) /\ g.sent # <<>>
  BY <1>1, <1>9
<1>11. Bounded(g.tree, k)
  <2>1. NumsFrom(w.tree, g.tree, {0, k})
    BY <1>2, <1>4 DEF GoneMakes
  <2>2. \A m \in Nodes : w.tree[m].dseq \in Nat /\ w.tree[m].nseq \in Nat /\ w.tree[m].tseq \in Nat
    BY <1>1, Trees, Fields
  <2>3. \A m \in Nodes : \A x \in Nums(w.tree[m]) : x <= k
    BY <1>1, <1>4, <2>2 DEF Bounded, Nums
  <2>4. \A m \in Nodes : \A x \in Nums(g.tree[m]) : x \in {0, k} \cup UNION {Nums(w.tree[j]) : j \in Nodes}
    BY <2>1 DEF NumsFrom
  <2>5. 0 <= k /\ k <= k
    OBVIOUS
  <2>6. \A m \in Nodes : \A x \in Nums(g.tree[m]) : x <= k
    BY <2>3, <2>4, <2>5
  <2>. QED  BY <2>6 DEF Bounded, Nums
<1>12. g \in Work
  BY <1>3, <1>5, <1>6, <1>10, <1>11 DEF Work
<1>. QED  BY <1>2, <1>10, <1>12 DEF g

\* The same of a node that is taken out of children_ first.
LEMMA WorkErase ==
  ASSUME NEW w \in Work, NEW n \in Nodes
  PROVE  LET v == [w EXCEPT !.tree = Erase(@, n)] IN
         v \in Work /\ v.tree = Erase(w.tree, n) /\ v.seq = w.seq /\ v.sent = w.sent /\ v.first = w.first
<1>. DEFINE v == [w EXCEPT !.tree = Erase(@, n)]
<1>1. /\ w \in [tree : Tree, seq : Nat, sent : Seq(Stanza), first : Tree]
      /\ Bounded(w.tree, w.seq)
  BY DEF Work
<1>2. PICK e \in Tree : e = Erase(w.tree, n)
  BY <1>1, EraseIs
<1>3. v = [w EXCEPT !.tree = e]
  BY <1>2
<1>. HIDE DEF v
<1>4. v \in [tree : Tree, seq : Nat, sent : Seq(Stanza), first : Tree]
      /\ v.tree = e /\ v.seq = w.seq /\ v.sent = w.sent /\ v.first = w.first
  BY <1>1, <1>3
<1>5. Bounded(v.tree, v.seq)
  BY <1>1, <1>2, <1>4, EraseIs
<1>. QED  BY <1>2, <1>4, <1>5 DEF v, Work

\* GoneFrom(), of the tree before the node is taken out.
LEMMA WorkGoneFrom ==
  ASSUME NEW w \in Work, NEW n \in Nodes \ {Root}
  PROVE  GoneFrom(w, n) \in Work /\ GoneMakes(w, GoneFrom(w, n), n) /\ GoneFrom(w, n).sent # <<>>
<1>. DEFINE v == [w EXCEPT !.tree = Erase(@, n)]
            g == Gone(v, n)
<1>1. v \in Work /\ v.tree = Erase(w.tree, n) /\ v.seq = w.seq /\ v.sent = w.sent /\ v.first = w.first
  BY WorkErase
<1>2. GoneFrom(w, n) = g
  BY DEF GoneFrom
<1>. HIDE DEF v
<1>3. w.tree \in Tree
  BY DEF Work
<1>4. PICK e \in Tree : e = Erase(w.tree, n)
  BY <1>3, EraseIs
<1>5. ~e[n].open /\ (\A m \in Nodes \ {n} : e[m] = w.tree[m]) /\ NumsFrom(w.tree, e, {})
  BY <1>3, <1>4, EraseIs
<1>6. g \in Work /\ GoneMakes(v, g, n) /\ g.sent # <<>>
  BY <1>1, <1>4, <1>5, WorkGone
<1>. HIDE DEF g
<1>7. Shrunk(w.tree, g.tree, n, w.seq + 1)
  BY <1>1, <1>4, <1>5, <1>6 DEF GoneMakes, Shrunk
<1>8. NumsFrom(w.tree, g.tree, {0, w.seq + 1})
  BY <1>1, <1>4, <1>5, <1>6, NumsStep DEF GoneMakes
<1>9. GoneMakes(w, g, n)
  BY <1>1, <1>6, <1>7, <1>8 DEF GoneMakes
<1>. QED  BY <1>2, <1>6, <1>9
LEMMA ShutWork ==
  ASSUME NEW w \in Work, NEW n \in Nodes \ {Root}
  PROVE  /\ Shut(w, n) \in Work /\ Shut(w, n).sent # <<>>
         /\ Shut(w, n).tree[Root].tseq > 0
         /\ Shut(w, n).tree[Root].open = w.tree[Root].open
<1>. DEFINE list == Children(w.tree, n)
            N == Len(list)
<1>1. /\ N \in Nat
      /\ \A i \in 1..N : list[i] \in Nodes \ {Root} /\ list[i] # n
  BY ChildrenAre
<1>2. [w EXCEPT !.tree = Erase(@, n)] \in Work
  BY WorkErase
<1>3. \A i \in 1..N, v \in Work : GoneFrom(v, list[i]) \in Work
  BY <1>1, WorkGoneFrom
<1>4. PICK F : ShutSteps(F, w, n)
  BY <1>1, <1>2, <1>3, ShutFolds
<1>5. /\ F \in [0..N -> Work]
      /\ F[0] = [w EXCEPT !.tree = Erase(@, n)]
      /\ \A i \in 1..N : F[i] = GoneFrom(F[i - 1], list[i])
      /\ Shut(w, n) = Gone(F[N], n)
  BY <1>4 DEF ShutSteps
<1>. HIDE DEF list, N
<1>. DEFINE H == {i \in 0..N : ~F[i].tree[n].open /\ F[i].tree[Root].open = w.tree[Root].open}
<1>6. 0 \in H
  <2>1. F[0].tree = Erase(w.tree, n) /\ w.tree \in Tree
    BY <1>5, WorkErase DEF Work
  <2>2. ~F[0].tree[n].open /\ F[0].tree[Root] = w.tree[Root]
    BY <2>1, EraseIs, WayFacts
  <2>. QED  BY <1>1, <2>2
<1>7. \A i \in 1..N : i - 1 \in H => i \in H
  <2>1. ASSUME NEW i \in 1..N, i - 1 \in H
        PROVE  i \in H
    <3>1. i - 1 \in 0..N /\ F[i - 1] \in Work
      BY <1>1, <1>5
    <3>2. GoneMakes(F[i - 1], F[i], list[i])
      BY <1>1, <1>5, <3>1, WorkGoneFrom
    <3>3. F[i].tree[n].open = F[i - 1].tree[n].open /\ F[i].tree[Root].open = F[i - 1].tree[Root].open
      BY <1>1, <3>2, WayFacts DEF GoneMakes, Shrunk
    <3>. QED  BY <2>1, <3>3
  <2>. QED  BY <2>1
<1>. HIDE DEF H
<1>8. \A i \in 0..N : i \in H
  BY <1>1, <1>6, <1>7, UpTo
<1>9. F[N] \in Work /\ ~F[N].tree[n].open /\ F[N].tree[Root].open = w.tree[Root].open
  BY <1>1, <1>5, <1>8 DEF H
<1>. DEFINE g == Gone(F[N], n)
<1>10. g \in Work /\ GoneMakes(F[N], g, n) /\ g.sent # <<>>
  BY <1>9, WorkGone
<1>. HIDE DEF g
<1>11. g.tree[Root].tseq = F[N].seq + 1 /\ g.tree[Root].open = F[N].tree[Root].open
  <2>1. Root \in Nodes \ {n} /\ Root \in Way[ParentOf(n)]
    BY WayFacts
  <2>. QED  BY <1>10, <2>1 DEF GoneMakes, Shrunk
<1>12. F[N].seq \in Nat
  BY <1>9 DEF Work
<1>13. Shut(w, n) = g
  BY <1>5 DEF g
<1>. QED  BY <1>9, <1>10, <1>11, <1>12, <1>13

\* api_close() of the root.
LEMMA EndedWork ==
  ASSUME NEW w \in Work, w.tree[Root].tseq > 0
  PROVE  Ended(w) \in Work /\ Ended(w).tree[Root].tseq > 0
<1>. DEFINE list == Children(w.tree, Root)
            N == Len(list)
<1>0. Root \in Nodes
  BY Levels
<1>1. N \in Nat /\ \A i \in 1..N : list[i] \in Nodes \ {Root}
  BY <1>0, ChildrenAre
<1>2. [w EXCEPT !.tree = Erase(@, Root)] \in Work
  BY <1>0, WorkErase
<1>3. \A i \in 1..N, v \in Work : Shut(v, list[i]) \in Work
  BY <1>1, ShutWork
<1>4. PICK F : EndedSteps(F, w)
  BY <1>1, <1>2, <1>3, EndedFolds
<1>5. /\ F \in [0..N -> Work]
      /\ F[0] = [w EXCEPT !.tree = Erase(@, Root)]
      /\ \A i \in 1..N : F[i] = Shut(F[i - 1], list[i])
      /\ Ended(w) = F[N]
  BY <1>4 DEF EndedSteps
<1>. HIDE DEF list, N
<1>6. F[0].tree[Root].tseq > 0
  <2>1. F[0].tree = Erase(w.tree, Root) /\ w.tree \in Tree /\ Root \in Nodes
    BY <1>0, <1>5, WorkErase DEF Work
  <2>. QED  BY <2>1, EraseIs
<1>7. N > 0 => F[N].tree[Root].tseq > 0
  <2>1. ASSUME N > 0
        PROVE  F[N].tree[Root].tseq > 0
    <3>1. N \in 1..N /\ N - 1 \in 0..N
      BY <1>1, <2>1
    <3>2. F[N - 1] \in Work /\ list[N] \in Nodes \ {Root} /\ F[N] = Shut(F[N - 1], list[N])
      BY <1>1, <1>5, <3>1
    <3>. QED  BY <3>2, ShutWork
  <2>. QED  BY <2>1
<1>8. N = 0 \/ N > 0
  BY <1>1
<1>9. F[N] \in Work
  BY <1>1, <1>5
<1>. QED  BY <1>5, <1>6, <1>7, <1>8, <1>9
\* A step of closing, with the stanza that tells of it.
CloseStep(a, b, z, k) ==
  \E c \in Nodes \ {Root} : /\ a[c].open /\ \A d \in Below[c] : ~a[d].open
                            /\ Shrunk(a, b, c, k)
                            /\ z = TreeEvt(b, ParentOf(c))

\* The trees between the steps, of which the first has the number s.
CloseChain(t, s, w, V, K) ==
  /\ K \in Nat /\ K >= 1 /\ V \in [0..K -> Tree]
  /\ V[0] = t /\ V[K] = w.tree /\ w.seq = s + K
  /\ w.sent \in Seq(Stanza) /\ Len(w.sent) = K
  /\ \A i \in 0..K : Served(V[i], s + i)
  /\ \A i \in 1..K : CloseStep(V[i - 1], V[i], w.sent[i], s + i)
  /\ w.first \in Tree /\ w.first[Root] = V[1][Root]

\* The tree of the server, while n has left children_ and is not gone.
Reopen(t, n) == [t EXCEPT ![n].open = TRUE]

LEMMA ReopenIs ==
  ASSUME NEW t \in Tree, NEW n \in Nodes
  PROVE  LET r == Reopen(t, n) IN
         /\ r \in Tree /\ r[n].open
         /\ \A m \in Nodes \ {n} : r[m] = t[m]
         /\ r[n].vis = t[n].vis /\ r[n].dseq = t[n].dseq /\ r[n].nseq = t[n].nseq /\ r[n].tseq = t[n].tseq
<1>. DEFINE r == Reopen(t, n)
            d == [t[n] EXCEPT !.open = TRUE]
<1>1. t \in [Nodes -> Node] /\ t[n] \in Node
  BY Trees
<1>2. d \in Node /\ d.open /\ d.vis = t[n].vis /\ d.dseq = t[n].dseq /\ d.nseq = t[n].nseq
      /\ d.tseq = t[n].tseq
  BY <1>1 DEF Node
<1>3. r = [t EXCEPT ![n] = d]
  BY DEF Reopen
<1>. HIDE DEF d, r
<1>4. r \in Tree /\ r[n] = d /\ \A m \in Nodes \ {n} : r[m] = t[m]
  BY <1>1, <1>2, <1>3, Trees
<1>. QED  BY <1>2, <1>4 DEF r

LEMMA ReopenErase ==
  ASSUME NEW t \in Tree, NEW n \in Nodes, t[n].open
  PROVE  Reopen(Erase(t, n), n) = t
<1>1. PICK e \in Tree : e = Erase(t, n)
  BY EraseIs
<1>2. \A m \in Nodes \ {n} : e[m] = t[m]
  BY <1>1, EraseIs
<1>3. e[n].vis = t[n].vis /\ e[n].dseq = t[n].dseq /\ e[n].nseq = t[n].nseq /\ e[n].tseq = t[n].tseq
  BY <1>1, EraseIs
<1>4. PICK r \in Tree : r = Reopen(e, n)
  BY ReopenIs
<1>5. /\ r[n].open
      /\ \A m \in Nodes \ {n} : r[m] = e[m]
      /\ r[n].vis = e[n].vis /\ r[n].dseq = e[n].dseq /\ r[n].nseq = e[n].nseq /\ r[n].tseq = e[n].tseq
  BY <1>4, ReopenIs
<1>6. r[n] \in Node /\ t[n] \in Node
  BY Trees
<1>7. r[n].open = t[n].open
  BY <1>5, <1>6, Fields
<1>8. r[n] = t[n]
  BY <1>3, <1>5, <1>6, <1>7, NodeEqual
<1>9. \A m \in Nodes : r[m] = t[m]
  BY <1>2, <1>5, <1>8
<1>10. r = t
  BY <1>9, Trees
<1>. QED  BY <1>1, <1>4, <1>10

\* A child of n leaves, while n has left: the same as when n is there.
LEMMA ShrunkReopened ==
  ASSUME NEW t \in Tree, NEW r, NEW n \in Nodes, NEW c \in Nodes \ {Root}, c # n, NEW k \in Nat,
         Shrunk(t, r, c, k)
  PROVE  Shrunk(Reopen(t, n), Reopen(r, n), c, k)
<1>1. r \in Tree
  BY DEF Shrunk
<1>2. PICK a \in Tree : a = Reopen(t, n)
  BY ReopenIs
<1>3. PICK b \in Tree : b = Reopen(r, n)
  BY <1>1, ReopenIs
<1>4. /\ a[n].open
      /\ \A m \in Nodes \ {n} : a[m] = t[m]
      /\ a[n].vis = t[n].vis /\ a[n].dseq = t[n].dseq /\ a[n].nseq = t[n].nseq /\ a[n].tseq = t[n].tseq
  BY <1>2, ReopenIs
<1>5. /\ b[n].open
      /\ \A m \in Nodes \ {n} : b[m] = r[m]
      /\ b[n].vis = r[n].vis /\ b[n].dseq = r[n].dseq /\ b[n].nseq = r[n].nseq /\ b[n].tseq = r[n].tseq
  BY <1>1, <1>3, ReopenIs
<1>6. b[n].open = a[n].open
  BY <1>4, <1>5, Trees, Fields
<1>7. b[c] = Absent
  BY <1>5 DEF Shrunk
<1>8. ASSUME NEW m \in Nodes \ {c}
      PROVE  /\ b[m].open = a[m].open /\ b[m].vis = a[m].vis /\ b[m].dseq = a[m].dseq
             /\ b[m].nseq = IF m = ParentOf(c) THEN k ELSE a[m].nseq
             /\ b[m].tseq = IF m \in Way[ParentOf(c)] THEN k ELSE a[m].tseq
  <2>1. /\ r[m].open = t[m].open /\ r[m].vis = t[m].vis /\ r[m].dseq = t[m].dseq
        /\ r[m].nseq = IF m = ParentOf(c) THEN k ELSE t[m].nseq
        /\ r[m].tseq = IF m \in Way[ParentOf(c)] THEN k ELSE t[m].tseq
    BY DEF Shrunk
  <2>2. CASE m = n
    BY <1>4, <1>5, <1>6, <2>1, <2>2
  <2>3. CASE m # n
    BY <1>4, <1>5, <2>1, <2>3
  <2>. QED  BY <2>2, <2>3
<1>9. Shrunk(a, b, c, k)
  BY <1>7, <1>8 DEF Shrunk
<1>. QED  BY <1>2, <1>3, <1>9
\* What holds when i of the N children of n are gone.
ShutSoFar(F, N, list, n, s, i) ==
  /\ F[i].seq = s + i /\ ~F[i].tree[n].open
  /\ Served(Reopen(F[i].tree, n), s + i)
  /\ \A j \in 1..N : j > i => F[i].tree[list[j]].open
  /\ \A c \in Below[n] : F[i].tree[c].open => \E j \in 1..N : j > i /\ c = list[j]
  /\ Len(F[i].sent) = i
  /\ \A j \in 1..i : CloseStep(Reopen(F[j - 1].tree, n), Reopen(F[j].tree, n), F[i].sent[j], s + j)
  /\ i >= 1 => F[i].first[Root] = Reopen(F[1].tree, n)[Root]

LEMMA ShutNext ==
  ASSUME NEW F, NEW N \in Nat, NEW list, NEW n \in Nodes \ {Root}, NEW s \in Nat, NEW i \in 1..N,
         F[i - 1] \in Work, F[i] = GoneFrom(F[i - 1], list[i]),
         \A j \in 1..N : list[j] \in Below[n] /\ list[j] \in Nodes \ {Root} /\ list[j] # n,
         \A j, k \in 1..N : list[j] = list[k] => j = k,
         ShutSoFar(F, N, list, n, s, i - 1)
  PROVE  ShutSoFar(F, N, list, n, s, i)
<1>. DEFINE w == F[i - 1]
            g == F[i]
            c == list[i]
            a == Reopen(w.tree, n)
            b == Reopen(g.tree, n)
<1>1. PICK k \in Nat : k = i - 1 /\ i = k + 1
  OBVIOUS
<1>2. /\ w.seq = s + k /\ ~w.tree[n].open /\ Served(a, s + k)
      /\ \A j \in 1..N : j > k => w.tree[list[j]].open
      /\ \A d \in Below[n] : w.tree[d].open => \E j \in 1..N : j > k /\ d = list[j]
      /\ Len(w.sent) = k
      /\ \A j \in 1..k : CloseStep(Reopen(F[j - 1].tree, n), Reopen(F[j].tree, n), w.sent[j], s + j)
      /\ k >= 1 => w.first[Root] = Reopen(F[1].tree, n)[Root]
  BY <1>1 DEF ShutSoFar
<1>3. c \in Below[n] /\ c \in Nodes \ {Root} /\ c # n /\ n \in Nodes /\ n # Root /\ ParentOf(c) = n
  BY Belows
<1>4. w \in Work /\ w.tree \in Tree /\ w.sent \in Seq(Stanza) /\ w.seq \in Nat
  BY DEF Work
<1>5. g \in Work /\ GoneMakes(w, g, c)
  BY <1>3, <1>4, WorkGoneFrom
<1>6. g.tree \in Tree /\ g.sent \in Seq(Stanza)
  BY <1>5 DEF Work
<1>7. /\ Shrunk(w.tree, g.tree, c, s + i) /\ g.seq = s + i
      /\ g.sent = Append(w.sent, TreeEvt(g.tree, n))
      /\ \E u \in Tree : u[Root] = g.tree[Root] /\ g.first = IF w.sent = <<>> THEN u ELSE w.first
  <2>1. PICK x \in Nat : x = w.seq
    BY <1>4
  <2>2. x = s + k
    BY <1>2, <2>1
  <2>3. x + 1 = s + i
    <3>1. \A y \in Nat : y = s + k => y + 1 = s + i
      BY <1>1
    <3>. QED  BY <2>1, <2>2, <3>1
  <2>. QED  BY <1>3, <1>5, <2>1, <2>3 DEF GoneMakes
<1>. HIDE DEF w, g, c
<1>8. s + i \in Nat /\ s + i > s + k
  BY <1>1
<1>9. Shrunk(a, b, c, s + i)
  BY <1>3, <1>4, <1>7, <1>8, ShrunkReopened
<1>10. a[c].open
  <2>1. w.tree[c].open
    BY <1>1, <1>2 DEF c
  <2>. QED  BY <1>3, <1>4, <2>1, ReopenIs
<1>11. Below[c] = {}
  BY <1>3, Belows, Levels
<1>12. Served(b, s + i)
  BY <1>2, <1>3, <1>8, <1>9, <1>10, <1>11, ServedShrunk
<1>13. TreeEvt(b, n) = TreeEvt(g.tree, n)
  <2>1. b \in Tree /\ (\A m \in Nodes \ {n} : b[m] = g.tree[m]) /\ b[n].nseq = g.tree[n].nseq
    <3>1. PICK u \in Tree : u = g.tree
      BY <1>6
    <3>2. LET r == Reopen(u, n) IN
            r \in Tree /\ (\A m \in Nodes \ {n} : r[m] = u[m]) /\ r[n].nseq = u[n].nseq
      BY <1>3, ReopenIs
    <3>. QED  BY <3>1, <3>2
  <2>2. \A d \in Below[n] : d \in Nodes \ {n}
    BY <1>3, Belows, WayFacts
  <2>3. \A d \in Below[n] : /\ b[d].open = g.tree[d].open
                            /\ g.tree[d].open => b[d].vis = g.tree[d].vis /\ b[d].tseq = g.tree[d].tseq
    BY <2>1, <2>2
  <2>. QED  BY <1>3, <1>6, <2>1, <2>3, TreeEvtSame
<1>14. PICK z \in Stanza : z = TreeEvt(g.tree, n)
  BY <1>3, <1>6, TreeEvtIs
<1>15. CloseStep(a, b, z, s + i)
  BY <1>3, <1>9, <1>10, <1>11, <1>13, <1>14 DEF CloseStep
<1>16. g.sent = Append(w.sent, z) /\ Len(g.sent) = i /\ g.sent[i] = z
       /\ \A j \in 1..k : g.sent[j] = w.sent[j]
  BY <1>1, <1>2, <1>4, <1>7, <1>14
<1>17. ~g.tree[n].open
  BY <1>2, <1>3, <1>7 DEF Shrunk
<1>18. \A j \in 1..N : j > i => g.tree[list[j]].open
  <2>1. ASSUME NEW j \in 1..N, j > i
        PROVE  g.tree[list[j]].open
    <3>1. list[j] # c /\ list[j] \in Nodes
      BY <2>1 DEF c
    <3>2. w.tree[list[j]].open
      BY <1>1, <1>2, <2>1
    <3>. QED  BY <1>7, <3>1, <3>2 DEF Shrunk
  <2>. QED  BY <2>1
<1>19. \A d \in Below[n] : g.tree[d].open => \E j \in 1..N : j > i /\ d = list[j]
  <2>1. ASSUME NEW d \in Below[n], g.tree[d].open
        PROVE  \E j \in 1..N : j > i /\ d = list[j]
    <3>1. d # c
      BY <1>7, <2>1, Trees DEF Shrunk
    <3>2. w.tree[d].open
      BY <1>3, <1>7, <2>1, <3>1, Belows DEF Shrunk
    <3>3. PICK j \in 1..N : j > k /\ d = list[j]
      BY <1>2, <3>2
    <3>4. j # i
      BY <3>1, <3>3 DEF c
    <3>. QED  BY <1>1, <3>3, <3>4
  <2>. QED  BY <2>1
<1>20. \A j \in 1..i : CloseStep(Reopen(F[j - 1].tree, n), Reopen(F[j].tree, n), g.sent[j], s + j)
  <2>1. \A j \in 1..i : j \in 1..k \/ j = i
    BY <1>1
  <2>2. CloseStep(Reopen(F[i - 1].tree, n), Reopen(F[i].tree, n), g.sent[i], s + i)
    BY <1>15, <1>16 DEF w, g
  <2>. QED  BY <1>2, <1>16, <2>1, <2>2
<1>21. g.first[Root] = Reopen(F[1].tree, n)[Root]
  <2>1. PICK u \in Tree : u[Root] = g.tree[Root] /\ g.first = IF w.sent = <<>> THEN u ELSE w.first
    BY <1>7
  <2>2. CASE k = 0
    <3>1. w.sent = <<>> /\ i = 1
      <4>1. PICK q \in Seq(Stanza) : q = w.sent
        BY <1>4
      <4>2. Len(q) = 0
        BY <1>2, <2>2, <4>1
      <4>3. q = <<>>
        BY <4>2
      <4>. QED  BY <1>1, <2>2, <4>1, <4>3
    <3>2. g.first[Root] = g.tree[Root]
      BY <2>1, <3>1
    <3>3. Root \in Nodes \ {n}
      BY <1>3, Levels
    <3>4. b[Root] = g.tree[Root]
      <4>1. PICK x \in Tree : x = g.tree
        BY <1>6
      <4>2. LET r == Reopen(x, n) IN \A m \in Nodes \ {n} : r[m] = x[m]
        BY <1>3, ReopenIs
      <4>. QED  BY <3>3, <4>1, <4>2
    <3>. QED  BY <3>1, <3>2, <3>4 DEF g
  <2>3. CASE k >= 1
    <3>1. w.sent # <<>>
      BY <1>2, <2>3
    <3>. QED  BY <1>2, <2>1, <2>3, <3>1
  <2>. QED  BY <2>2, <2>3
<1>22. g.seq = s + i
  BY <1>7
<1>. QED  BY <1>12, <1>16, <1>17, <1>18, <1>19, <1>20, <1>21, <1>22 DEF g, ShutSoFar

\* api_close() of a child: the nodes below it go, and then the child, each
\* told of as it goes.
LEMMA ShutIs ==
  ASSUME NEW w \in Work, w.sent = <<>>, Served(w.tree, w.seq), NEW n \in Nodes \ {Root}, w.tree[n].open
  PROVE  \E V : CloseChain(w.tree, w.seq, Shut(w, n), V, Len(Shut(w, n).sent))
<1>. DEFINE list == Children(w.tree, n)
            N == Len(list)
            s == w.seq
<1>1. /\ N \in Nat
      /\ \A i \in 1..N : list[i] \in Below[n] /\ list[i] \in Nodes \ {Root} /\ list[i] # n /\ w.tree[list[i]].open
      /\ \A c \in Below[n] : w.tree[c].open => \E i \in 1..N : list[i] = c
      /\ \A i, k \in 1..N : list[i] = list[k] => i = k
  BY ChildrenAre
<1>2. [w EXCEPT !.tree = Erase(@, n)] \in Work
  BY WorkErase
<1>3. \A i \in 1..N, v \in Work : GoneFrom(v, list[i]) \in Work
  BY <1>1, WorkGoneFrom
<1>4. PICK F : ShutSteps(F, w, n)
  BY <1>1, <1>2, <1>3, ShutFolds
<1>5. /\ F \in [0..N -> Work]
      /\ F[0] = [w EXCEPT !.tree = Erase(@, n)]
      /\ \A i \in 1..N : F[i] = GoneFrom(F[i - 1], list[i])
      /\ Shut(w, n) = Gone(F[N], n)
  BY <1>4 DEF ShutSteps
<1>. HIDE DEF list, N, s
<1>6. s \in Nat /\ w.tree \in Tree
  BY DEF s, Work
<1>7. /\ F[0].tree = Erase(w.tree, n) /\ F[0].seq = s /\ F[0].sent = <<>> /\ F[0] \in Work
  BY <1>5, WorkErase DEF s
<1>8. PICK e \in Tree : e = Erase(w.tree, n)
  BY <1>6, EraseIs
<1>9. ~e[n].open /\ \A m \in Nodes \ {n} : e[m] = w.tree[m]
  BY <1>6, <1>8, EraseIs
<1>10. Reopen(e, n) = w.tree
  BY <1>6, <1>8, ReopenErase
<1>. DEFINE H == {i \in 0..N : ShutSoFar(F, N, list, n, s, i)}
<1>11. 0 \in H
  <2>1. \A j \in 1..N : e[list[j]].open
    BY <1>1, <1>9
  <2>2. \A c \in Below[n] : e[c].open => \E j \in 1..N : j > 0 /\ c = list[j]
    <3>1. \A c \in Below[n] : c \in Nodes \ {n}
      BY Belows, WayFacts
    <3>. QED  BY <1>1, <1>9, <3>1
  <2>3. s + 0 = s /\ Len(<<>>) = 0 /\ \A j \in 1..0 : FALSE
    BY <1>6
  <2>4. Served(Reopen(e, n), s + 0)
    BY <1>10, <2>3 DEF s
  <2>. QED  BY <1>1, <1>7, <1>8, <1>9, <2>1, <2>2, <2>3, <2>4 DEF ShutSoFar
<1>12. \A i \in 1..N : i - 1 \in H => i \in H
  <2>1. ASSUME NEW i \in 1..N, i - 1 \in H
        PROVE  i \in H
    <3>1. F[i - 1] \in Work /\ F[i] = GoneFrom(F[i - 1], list[i])
      BY <1>1, <1>5, <2>1
    <3>2. ShutSoFar(F, N, list, n, s, i)
      BY <1>1, <1>6, <2>1, <3>1, ShutNext
    <3>. QED  BY <3>2
  <2>. QED  BY <2>1
<1>. HIDE DEF H
<1>13. \A i \in 0..N : ShutSoFar(F, N, list, n, s, i)
  <2>1. \A i \in 0..N : i \in H
    BY <1>1, <1>11, <1>12, UpTo
  <2>. QED  BY <2>1 DEF H
<1>14. /\ F[N].seq = s + N /\ ~F[N].tree[n].open /\ F[N] \in Work
       /\ Served(Reopen(F[N].tree, n), s + N)
       /\ \A c \in Below[n] : ~F[N].tree[c].open
       /\ Len(F[N].sent) = N
       /\ \A j \in 1..N : CloseStep(Reopen(F[j - 1].tree, n), Reopen(F[j].tree, n), F[N].sent[j], s + j)
       /\ N >= 1 => F[N].first[Root] = Reopen(F[1].tree, n)[Root]
  <2>1. N \in 0..N /\ \A j \in 1..N : ~(j > N)
    BY <1>1
  <2>. QED  BY <1>5, <1>13, <2>1 DEF ShutSoFar
<1>. DEFINE g == Gone(F[N], n)
            a == Reopen(F[N].tree, n)
            p == ParentOf(n)
<1>15. g \in Work /\ GoneMakes(F[N], g, n) /\ g.sent # <<>>
  BY <1>14, WorkGone
<1>16. Shut(w, n) = g
  BY <1>5
<1>. HIDE DEF g
<1>17. PICK K \in Nat : K = N + 1
  BY <1>1
<1>18. /\ Shrunk(F[N].tree, g.tree, n, s + K) /\ g.seq = s + K
       /\ g.sent = Append(F[N].sent, TreeEvt(g.tree, p))
       /\ \E u \in Tree : u[Root] = g.tree[Root] /\ g.first = IF F[N].sent = <<>> THEN u ELSE F[N].first
  <2>1. F[N].seq + 1 = s + K
    BY <1>1, <1>6, <1>14, <1>17
  <2>. QED  BY <1>15, <2>1 DEF GoneMakes
<1>19. F[N].tree \in Tree /\ F[N].sent \in Seq(Stanza) /\ g.tree \in Tree /\ g.sent \in Seq(Stanza)
       /\ g.first \in Tree
  BY <1>14, <1>15 DEF Work
<1>20. PICK r \in Tree : r = a
  BY <1>19, ReopenIs
<1>21. /\ r[n].open
       /\ \A m \in Nodes \ {n} : r[m] = F[N].tree[m]
       /\ r[n].vis = F[N].tree[n].vis /\ r[n].dseq = F[N].tree[n].dseq /\ r[n].nseq = F[N].tree[n].nseq
       /\ r[n].tseq = F[N].tree[n].tseq
  BY <1>19, <1>20, ReopenIs
<1>22. Shrunk(r, g.tree, n, s + K)
  BY <1>18, <1>21 DEF Shrunk
<1>23. \A c \in Below[n] : ~r[c].open
  <2>1. \A c \in Below[n] : c \in Nodes \ {n}
    BY Belows, WayFacts
  <2>. QED  BY <1>14, <1>21, <2>1
<1>24. s + K \in Nat /\ s + K > s + N
  BY <1>1, <1>6, <1>17
<1>25. Served(g.tree, s + K)
  <2>1. Served(r, s + N)
    BY <1>14, <1>20
  <2>. QED  BY <1>21, <1>22, <1>23, <1>24, <2>1, ServedShrunk
<1>26. PICK z \in Stanza : z = TreeEvt(g.tree, p)
  BY <1>19, TreeEvtIs, WayFacts
<1>27. CloseStep(r, g.tree, z, s + K)
  BY <1>21, <1>22, <1>23, <1>26 DEF CloseStep
<1>28. Len(g.sent) = K /\ g.sent[K] = z /\ \A j \in 1..N : g.sent[j] = F[N].sent[j]
  BY <1>1, <1>14, <1>17, <1>18, <1>19, <1>26
<1>. DEFINE V == [i \in 0..K |-> IF i = K THEN g.tree ELSE Reopen(F[i].tree, n)]
<1>29. \A i \in 0..N : F[i].tree \in Tree /\ Reopen(F[i].tree, n) \in Tree /\ i \in 0..K /\ i # K
  <2>1. \A i \in 0..N : F[i].tree \in Tree
    BY <1>5 DEF Work
  <2>. QED  BY <1>1, <1>17, <2>1, ReopenIs
<1>30. V \in [0..K -> Tree] /\ V[K] = g.tree /\ \A i \in 0..N : V[i] = Reopen(F[i].tree, n)
  <2>1. \A i \in 0..K : i = K \/ i \in 0..N
    BY <1>1, <1>17
  <2>. QED  BY <1>17, <1>19, <1>29, <2>1
<1>. HIDE DEF V
<1>31. V[0] = w.tree /\ V[N] = r
  BY <1>1, <1>7, <1>8, <1>10, <1>20, <1>30
<1>32. \A i \in 0..K : Served(V[i], s + i)
  <2>1. \A i \in 0..K : i = K \/ i \in 0..N
    BY <1>1, <1>17
  <2>2. \A i \in 0..N : Served(V[i], s + i)
    BY <1>13, <1>30 DEF ShutSoFar
  <2>. QED  BY <1>25, <1>30, <2>1, <2>2
<1>33. \A i \in 1..K : CloseStep(V[i - 1], V[i], g.sent[i], s + i)
  <2>1. \A i \in 1..K : i = K \/ (i \in 1..N /\ i - 1 \in 0..N /\ i \in 0..N)
    BY <1>1, <1>17
  <2>2. K - 1 = N
    BY <1>1, <1>17
  <2>3. \A i \in 1..N : CloseStep(V[i - 1], V[i], g.sent[i], s + i)
    <3>1. ASSUME NEW i \in 1..N
          PROVE  CloseStep(V[i - 1], V[i], g.sent[i], s + i)
      <4>1. V[i - 1] = Reopen(F[i - 1].tree, n) /\ V[i] = Reopen(F[i].tree, n)
        BY <1>1, <1>30
      <4>. QED  BY <1>14, <1>28, <4>1
    <3>. QED  BY <3>1
  <2>4. CloseStep(V[K - 1], V[K], g.sent[K], s + K)
    BY <1>27, <1>28, <1>30, <1>31, <2>2
  <2>. QED  BY <2>1, <2>3, <2>4
<1>34. g.first[Root] = V[1][Root]
  <2>1. PICK u \in Tree : u[Root] = g.tree[Root] /\ g.first = IF F[N].sent = <<>> THEN u ELSE F[N].first
    BY <1>18
  <2>2. CASE N = 0
    <3>1. F[N].sent = <<>> /\ K = 1
      BY <1>14, <1>17, <1>19, <2>2
    <3>. QED  BY <1>30, <2>1, <3>1
  <2>3. CASE N # 0
    <3>1. F[N].sent # <<>> /\ N >= 1 /\ 1 \in 0..N
      BY <1>1, <1>14, <2>3
    <3>. QED  BY <1>14, <1>30, <2>1, <3>1
  <2>. QED  BY <2>2, <2>3
<1>35. K >= 1 /\ Len(g.sent) = K
  BY <1>1, <1>17, <1>28
<1>36. CloseChain(w.tree, s, g, V, K)
  BY <1>18, <1>19, <1>30, <1>31, <1>32, <1>33, <1>34, <1>35 DEF CloseChain
<1>. QED  BY <1>16, <1>35, <1>36 DEF s
-----------------------------------------------------------------------------
(* A server that is opened.                                                 *)

Numbering == {v \in Tree \X Nat : Bounded(v[1], v[2])}
AddedTo(v, n) == <<Added(v[1], n, v[2])[2], v[2] + 3>>

\* The steps of the first children.
OpenedSteps(F) ==
  /\ F \in [0..Len(Among(Order, Start)) -> Numbering]
  /\ F[0] = <<Change(OpenRoot, Root, 1), 1>>
  /\ \A i \in 1..Len(Among(Order, Start)) : F[i] = AddedTo(F[i - 1], Among(Order, Start)[i])
  /\ Opened = F[Len(Among(Order, Start))]

LEMMA OpenedFolds ==
  ASSUME Len(Among(Order, Start)) \in Nat, <<Change(OpenRoot, Root, 1), 1>> \in Numbering,
         \A i \in 1..Len(Among(Order, Start)), v \in Numbering : AddedTo(v, Among(Order, Start)[i]) \in Numbering
  PROVE  \E F : OpenedSteps(F)
<1>. DEFINE b == <<Change(OpenRoot, Root, 1), 1>>
            Step(v, i) == AddedTo(v, Among(Order, Start)[i])
            F == CHOOSE f : f = [i \in 0..Len(Among(Order, Start)) |->
                   IF i = 0 THEN <<Change(OpenRoot, Root, 1), 1>>
                   ELSE AddedTo(f[i - 1], Among(Order, Start)[i])]
            g == [i \in 1..Len(Among(Order, Start)) |-> [v \in Numbering |-> Step(v, i)]]
<1>1. PICK k \in Nat : k = Len(Among(Order, Start))
  OBVIOUS
<1>2. b \in Numbering /\ \A i \in 1..k, v \in Numbering : Step(v, i) \in Numbering
  BY <1>1
<1>3. Opened = F[Len(Among(Order, Start))]
  BY DEF Opened, AddedTo
<1>4. F = CHOOSE f : f = [i \in 0..k |-> IF i = 0 THEN b ELSE Step(f[i - 1], i)]
  BY <1>1
<1>5. g = [i \in 1..k |-> [v \in Numbering |-> Step(v, i)]]
  BY <1>1
<1>6. \A f : f[0] = b => f[0] = <<Change(OpenRoot, Root, 1), 1>>
  OBVIOUS
<1>7. \A f, i : f[i] = Step(f[i - 1], i) => f[i] = AddedTo(f[i - 1], Among(Order, Start)[i])
  OBVIOUS
<1>. HIDE DEF F, Step, b, g
<1>8. g \in [1..k -> [Numbering -> Numbering]] /\ \A i \in 1..k, v \in Numbering : g[i][v] = Step(v, i)
  BY <1>2, <1>5
<1>9. PICK f : IsFold(f, k, Numbering, b, g)
  BY <1>2, <1>8, FoldExists
<1>10. f \in [0..k -> Numbering] /\ f[0] = b /\ \A i \in 1..k : f[i] = Step(f[i - 1], i)
  <2>1. \A i \in 1..k : i - 1 \in 0..k
    OBVIOUS
  <2>2. f \in [0..k -> Numbering] /\ f[0] = b /\ \A i \in 1..k : f[i] = g[i][f[i - 1]]
    BY <1>9 DEF IsFold
  <2>. QED  BY <1>8, <2>1, <2>2
<1>11. f = [i \in 0..k |-> IF i = 0 THEN b ELSE Step(f[i - 1], i)]
  <2>1. \A i \in 0..k : i = 0 \/ i \in 1..k
    OBVIOUS
  <2>2. \A i \in 0..k : f[i] = IF i = 0 THEN b ELSE Step(f[i - 1], i)
    BY <1>10, <2>1
  <2>. QED  BY <1>10, <2>2
<1>12. F = [i \in 0..k |-> IF i = 0 THEN b ELSE Step(F[i - 1], i)]
  BY <1>4, <1>11
<1>13. F \in [0..k -> Numbering] /\ F[0] = b /\ \A i \in 1..k : F[i] = Step(F[i - 1], i)
  <2>. DEFINE Q == {i \in 0..k : F[i] \in Numbering}
  <2>1. F[0] = b /\ \A i \in 1..k : F[i] = Step(F[i - 1], i)
    BY <1>12
  <2>2. 0 \in Q
    BY <1>2, <2>1
  <2>3. \A i \in 1..k : i - 1 \in Q => i \in Q
    BY <1>2, <2>1
  <2>. HIDE DEF Q
  <2>4. \A i \in 0..k : i \in Q
    BY <2>2, <2>3, UpTo
  <2>5. \A i \in 0..k : F[i] \in Numbering
    BY <2>4 DEF Q
  <2>. QED  BY <1>12, <2>1, <2>5
<1>14. F[0] = <<Change(OpenRoot, Root, 1), 1>>
       /\ \A i \in 1..k : F[i] = AddedTo(F[i - 1], Among(Order, Start)[i])
  BY <1>6, <1>7, <1>13
<1>. QED  BY <1>1, <1>3, <1>13, <1>14 DEF OpenedSteps

LEMMA GrownBounded ==
  ASSUME NEW t \in Tree, NEW s \in Nat, Bounded(t, s), NEW n \in Nodes \ {Root},
         NEW d \in Nat, NEW k \in Nat, d <= k, s <= k, NEW r, Grown(t, r, n, d, k)
  PROVE  Bounded(r, k)
<1>1. \A m \in Nodes : /\ t[m].dseq <= k /\ t[m].nseq <= k /\ t[m].tseq <= k
  <2>1. \A m \in Nodes : t[m].dseq \in Nat /\ t[m].nseq \in Nat /\ t[m].tseq \in Nat
    BY Trees, Fields
  <2>. QED  BY <2>1 DEF Bounded
<1>2. k <= k /\ 0 <= k
  OBVIOUS
<1>3. \A m \in Nodes \ {n} : r[m].dseq <= k /\ r[m].nseq <= k /\ r[m].tseq <= k
  BY <1>1, <1>2 DEF Grown
<1>4. r[n].dseq <= k /\ r[n].nseq <= k /\ r[n].tseq <= k
  BY <1>2 DEF Grown
<1>. QED  BY <1>3, <1>4 DEF Bounded

LEMMA AddedToIs ==
  ASSUME NEW v \in Numbering, NEW n \in Nodes \ {Root}
  PROVE  /\ AddedTo(v, n) \in Numbering /\ AddedTo(v, n)[2] = v[2] + 3
         /\ Grown(v[1], AddedTo(v, n)[1], n, v[2] + 1, v[2] + 3)
<1>1. v[1] \in Tree /\ v[2] \in Nat /\ Bounded(v[1], v[2])
  BY DEF Numbering
<1>2. PICK t \in Tree, s \in Nat : t = v[1] /\ s = v[2]
  BY <1>1
<1>3. Grown(t, Added(t, n, s)[2], n, s + 1, s + 3)
  BY <1>1, <1>2, AddedTree
<1>4. PICK r : r = Added(t, n, s)[2]
  OBVIOUS
<1>5. PICK d \in Nat, k \in Nat : d = s + 1 /\ k = s + 3
  OBVIOUS
<1>6. AddedTo(v, n) = <<r, k>>
  BY <1>2, <1>4, <1>5 DEF AddedTo
<1>7. Grown(t, r, n, d, k) /\ d <= k /\ s <= k
  BY <1>3, <1>4, <1>5
<1>8. Bounded(r, k)
  BY <1>1, <1>2, <1>7, GrownBounded
<1>9. r \in Tree
  BY <1>7 DEF Grown
<1>10. AddedTo(v, n) \in Numbering
  BY <1>6, <1>8, <1>9 DEF Numbering
<1>. QED  BY <1>2, <1>3, <1>4, <1>5, <1>6, <1>10

\* The root alone, with its first value.
LEMMA OpenRootIs ==
  /\ OpenRoot \in Tree
  /\ OpenRoot[Root].open /\ OpenRoot[Root].vis
  /\ OpenRoot[Root].dseq = 0 /\ OpenRoot[Root].nseq = 0 /\ OpenRoot[Root].tseq = 0
  /\ \A m \in Nodes \ {Root} : OpenRoot[m] = Absent
<1>. DEFINE x == [Absent EXCEPT !.open = TRUE, !.vis = TRUE]
<1>1. x \in Node /\ x.open /\ x.vis /\ x.dseq = 0 /\ x.nseq = 0 /\ x.tseq = 0
  BY DEF Absent, Node
<1>2. OpenRoot = [n \in Nodes |-> IF n = Root THEN x ELSE Absent]
  BY DEF OpenRoot
<1>. HIDE DEF x
<1>. QED  BY <1>1, <1>2, Trees, Levels

LEMMA FirstServed ==
  LET r == Change(OpenRoot, Root, 1) IN
  Served(r, 1) /\ r \in Tree /\ Bounded(r, 1) /\ \A m \in Nodes : r[m].open <=> m = Root
<1>. DEFINE r == Change(OpenRoot, Root, 1)
            t == OpenRoot
<1>1. /\ t \in Tree /\ t[Root].open /\ t[Root].vis
      /\ t[Root].dseq = 0 /\ t[Root].nseq = 0 /\ t[Root].tseq = 0
      /\ \A m \in Nodes \ {Root} : t[m] = Absent
  BY OpenRootIs
<1>2. Root \in Nodes /\ Way[Root] = {Root} /\ 0 \in Nat /\ 0 + 1 = 1
  BY Levels, Ways
<1>3. \A m \in Nodes : t[m].dseq = 0 /\ t[m].nseq = 0 /\ t[m].tseq = 0
  BY <1>1, Trees
<1>4. Bounded(t, 0)
  BY <1>3 DEF Bounded
<1>5. Valued(t, Change(t, Root, 0 + 1), Root, 0 + 1)
  BY <1>1, <1>2, <1>4, ChangedTree
<1>. HIDE DEF t
<1>6. Valued(t, r, Root, 1)
  BY <1>2, <1>5 DEF t
<1>. HIDE DEF r
<1>7. /\ r \in Tree
      /\ \A m \in Nodes : /\ r[m].open = t[m].open /\ r[m].vis = t[m].vis /\ r[m].nseq = 0
                          /\ r[m].dseq = (IF m = Root THEN 1 ELSE 0)
                          /\ r[m].tseq = (IF m = Root THEN 1 ELSE 0)
  BY <1>2, <1>3, <1>6 DEF Valued
<1>8. ~Absent.open /\ \A m \in Nodes \ {Root} : ~r[m].open
  BY <1>1, <1>7, Trees
<1>9. \A m \in Nodes \ {Root} : r[m] = Absent
  <2>1. \A m \in Nodes \ {Root} : /\ r[m].open = Absent.open /\ r[m].vis = Absent.vis
                                  /\ r[m].dseq = Absent.dseq /\ r[m].nseq = Absent.nseq
                                  /\ r[m].tseq = Absent.tseq
    BY <1>1, <1>7, Trees
  <2>2. Absent \in Node /\ \A m \in Nodes : r[m] \in Node
    BY <1>7, Trees
  <2>. QED  BY <2>1, <2>2, NodeEqual
<1>10. Standing(r)
  BY <1>1, <1>2, <1>7, <1>8, <1>9 DEF Standing
<1>11. Numbered(r)
  BY <1>1, <1>7, <1>8 DEF Numbered
<1>12. Upward(r)
  <2>1. \A m \in Nodes : \A a \in Way[m] : m = Root => a = Root
    BY <1>2
  <2>2. \A m \in Nodes : Way[m] \subseteq Nodes
    BY WayFacts
  <2>3. 0 <= 0 /\ 0 <= 1 /\ 1 <= 1
    OBVIOUS
  <2>. QED  BY <1>7, <2>1, <2>2, <2>3 DEF Upward
<1>13. Unique(r)
  BY <1>7 DEF Unique
<1>14. Served(r, 1)
  BY <1>2, <1>7, <1>10, <1>11, <1>12, <1>13 DEF Served
<1>15. Bounded(r, 1)
  BY <1>14, ServedBounded
<1>. QED  BY <1>1, <1>7, <1>8, <1>14, <1>15 DEF r

\* The tree of a server that has been opened has its root and Start.
LEMMA OpenedIs ==
  Served(Opened[1], Opened[2]) /\ Opened[1] \in Tree /\ Opened[2] \in Nat /\ Opened[2] > 0
<1>. DEFINE list == Among(Order, Start)
            N == Len(list)
<1>1. /\ list \in Seq(Nodes \cap Start)
      /\ \A n \in Nodes \cap Start : \E i \in 1..Len(list) : list[i] = n
      /\ \A i, k \in 1..Len(list) : list[i] = list[k] => i = k
      /\ \A i \in 1..Len(list) : list[i] # Root /\ ParentOf(list[i]) \in Start =>
           \E k \in 1..Len(list) : k < i /\ list[k] = ParentOf(list[i])
  BY AmongOrder
<1>. HIDE DEF list
<1>2. N \in Nat /\ \A i \in 1..N : list[i] \in Start /\ list[i] \in Nodes \ {Root}
  BY <1>1, StartAssumption
<1>3. \A i \in 1..N : ParentOf(list[i]) = Root \/ \E k \in 1..N : k < i /\ list[k] = ParentOf(list[i])
  BY <1>1, <1>2, StartAssumption
<1>4. PICK r \in Tree : r = Change(OpenRoot, Root, 1)
  BY FirstServed
<1>5. Served(r, 1) /\ Bounded(r, 1) /\ \A m \in Nodes : r[m].open <=> m = Root
  BY <1>4, FirstServed
<1>6. <<Change(OpenRoot, Root, 1), 1>> \in Numbering
  BY <1>4, <1>5 DEF Numbering
<1>7. \A i \in 1..N, v \in Numbering : AddedTo(v, list[i]) \in Numbering
  BY <1>2, AddedToIs
<1>8. PICK F : OpenedSteps(F)
  BY <1>2, <1>6, <1>7, OpenedFolds DEF list
<1>9. /\ F \in [0..N -> Numbering] /\ F[0] = <<r, 1>>
      /\ \A i \in 1..N : F[i] = AddedTo(F[i - 1], list[i])
      /\ Opened = F[N]
  BY <1>4, <1>8 DEF OpenedSteps, list
<1>. HIDE DEF N
<1>. DEFINE H == {i \in 0..N : /\ Served(F[i][1], F[i][2]) /\ F[i][2] > 0
                               /\ \A m \in Nodes : F[i][1][m].open <=> m = Root \/ \E j \in 1..N : j <= i /\ m = list[j]}
<1>10. 0 \in H
  <2>1. F[0][1] = r /\ F[0][2] = 1 /\ 1 > 0 /\ \A j \in 1..N : ~(j <= 0)
    BY <1>2, <1>9
  <2>. QED  BY <1>2, <1>5, <2>1
<1>11. \A i \in 1..N : i - 1 \in H => i \in H
  <2>1. ASSUME NEW i \in 1..N, i - 1 \in H
        PROVE  i \in H
    <3>1. PICK k \in 0..N : k = i - 1 /\ i = k + 1
      BY <1>2
    <3>2. PICK v \in Numbering : v = F[k]
      BY <1>9
    <3>3. F[i] = AddedTo(v, list[i])
      BY <1>9, <3>1, <3>2
    <3>4. /\ Served(v[1], v[2]) /\ v[2] > 0
          /\ \A m \in Nodes : v[1][m].open <=> m = Root \/ \E j \in 1..N : j <= k /\ m = list[j]
      BY <2>1, <3>1, <3>2
    <3>5. v[1] \in Tree /\ v[2] \in Nat
      BY DEF Numbering
    <3>6. PICK t \in Tree, s \in Nat, n \in Nodes \ {Root} : t = v[1] /\ s = v[2] /\ n = list[i]
      BY <1>2, <3>5
    <3>7. PICK d \in Nat, q \in Nat : d = s + 1 /\ q = s + 3
      BY <3>6
    <3>. DEFINE u == F[i][1]
    <3>8. /\ F[i] \in Numbering /\ F[i][2] = q
          /\ Grown(t, u, n, d, q)
      <4>1. AddedTo(v, n) \in Numbering /\ AddedTo(v, n)[2] = v[2] + 3
            /\ Grown(v[1], AddedTo(v, n)[1], n, v[2] + 1, v[2] + 3)
        BY AddedToIs
      <4>. QED  BY <3>3, <3>6, <3>7, <4>1
    <3>. HIDE DEF u
    <3>9. ~t[n].open
      <4>1. \A j \in 1..N : j <= k => j # i
        BY <3>1
      <4>2. \A j \in 1..N : j <= k => list[j] # list[i]
        BY <1>1, <4>1 DEF N
      <4>. QED  BY <3>4, <3>6, <4>2
    <3>10. t[ParentOf(n)].open
      <4>1. ParentOf(n) \in Nodes
        BY WayFacts
      <4>2. CASE ParentOf(n) = Root
        BY <3>4, <3>6, <4>1, <4>2
      <4>3. CASE \E j \in 1..N : j < i /\ list[j] = ParentOf(n)
        <5>1. PICK j \in 1..N : j < i /\ list[j] = ParentOf(n)
          BY <4>3
        <5>2. j <= k
          BY <3>1, <5>1
        <5>. QED  BY <3>4, <3>6, <4>1, <5>1, <5>2
      <4>. QED  BY <1>3, <3>6, <4>2, <4>3
    <3>11. d > s /\ q > d /\ q > 0
      BY <3>7
    <3>12. Served(u, q)
      <4>1. Served(t, s)
        BY <3>4, <3>6
      <4>. QED  BY <3>8, <3>9, <3>10, <3>11, <4>1, ServedGrown
    <3>13. \A m \in Nodes : u[m].open <=> m = n \/ t[m].open
      <4>1. \A m \in Nodes \ {n} : u[m].open <=> t[m].open
        BY <3>8 DEF Grown
      <4>2. u[n].open
        BY <3>8 DEF Grown
      <4>. QED  BY <4>1, <4>2
    <3>14. \A m \in Nodes : u[m].open <=> m = Root \/ \E j \in 1..N : j <= i /\ m = list[j]
      <4>1. \A j \in 1..N : j <= i <=> (j <= k \/ j = i)
        BY <3>1
      <4>. QED  BY <3>4, <3>6, <3>13, <4>1
    <3>15. Served(F[i][1], F[i][2]) /\ F[i][2] > 0
      BY <3>8, <3>11, <3>12 DEF u
    <3>16. i \in 0..N
      OBVIOUS
    <3>. QED  BY <3>14, <3>15, <3>16 DEF u
  <2>. QED  BY <2>1
<1>. HIDE DEF H
<1>12. \A i \in 0..N : i \in H
  BY <1>2, <1>10, <1>11, UpTo
<1>13. Served(F[N][1], F[N][2]) /\ F[N][2] > 0 /\ F[N] \in Numbering
  <2>1. N \in 0..N
    BY <1>2
  <2>. QED  BY <1>9, <1>12, <2>1 DEF H
<1>. QED  BY <1>9, <1>13 DEF Numbering
-----------------------------------------------------------------------------
(* Whenever clients could see something else, the number grows.             *)

\* Of a tree without invisible nodes, clients see every node.
LEMMA SeenServed ==
  ASSUME NEW t, Standing(t), \A m \in Nodes : t[m].open => t[m].vis, NEW n \in Nodes
  PROVE  Seen(t, n) = {<<m, t[m].dseq>> : m \in {k \in Under[n] : t[k].open}}
<1>1. \A k \in Under[n] : k \in Nodes
  BY Unders
<1>2. \A k \in Nodes : t[k].open => \A j \in Way[k] : t[j].vis
  BY OpenWay, WayFacts
<1>3. {k \in Under[n] : t[k].open /\ \A j \in Way[k] : t[j].vis} = {k \in Under[n] : t[k].open}
  BY <1>1, <1>2
<1>. QED  BY <1>3 DEF Seen

LEMMA SeenSame ==
  ASSUME NEW t, Standing(t), \A m \in Nodes : t[m].open => t[m].vis,
         NEW r, Standing(r), \A m \in Nodes : r[m].open => r[m].vis,
         NEW n \in Nodes,
         \A m \in Under[n] : /\ t[m].open <=> r[m].open
                             /\ t[m].open => t[m].dseq = r[m].dseq
  PROVE  Seen(r, n) = Seen(t, n)
<1>1. {k \in Under[n] : t[k].open} = {k \in Under[n] : r[k].open}
  OBVIOUS
<1>2. {<<m, t[m].dseq>> : m \in {k \in Under[n] : t[k].open}}
        = {<<m, r[m].dseq>> : m \in {k \in Under[n] : r[k].open}}
  BY <1>1
<1>. QED  BY <1>2, SeenServed

\* A change after which nodes with other contents have numbers beyond s.
Grows(t, r, s) ==
  \A m \in Nodes : t[m].open /\ r[m].open =>
    /\ Seen(r, m) # Seen(t, m) => r[m].tseq > s
    /\ r[m].tseq >= t[m].tseq

LEMMA ValuedGrows ==
  ASSUME NEW t, NEW s, Served(t, s), NEW n \in Nodes, t[n].open, NEW k \in Nat, k > s,
         NEW r, Valued(t, r, n, k)
  PROVE  Grows(t, r, s)
<1>1. Served(r, k)
  BY ServedValued
<1>2. Standing(t) /\ Standing(r) /\ (\A m \in Nodes : t[m].open => t[m].vis)
      /\ (\A m \in Nodes : r[m].open => r[m].vis)
  BY <1>1 DEF Served, Numbered
<1>3. t \in Tree /\ s \in Nat /\ \A m \in Nodes : t[m].tseq \in Nat /\ t[m].tseq <= s
  <2>1. t \in Tree /\ Bounded(t, s)
    BY ServedBounded
  <2>. QED  BY <2>1, Trees, Fields DEF Bounded, Served
<1>4. \A m \in Nodes : /\ r[m].open = t[m].open
                       /\ r[m].dseq = IF m = n THEN k ELSE t[m].dseq
                       /\ r[m].tseq = IF m \in Way[n] THEN k ELSE t[m].tseq
  BY DEF Valued
<1>5. ASSUME NEW m \in Nodes, m \notin Way[n]
      PROVE  Seen(r, m) = Seen(t, m)
  <2>1. \A j \in Under[m] : j \in Nodes /\ j # n
    BY <1>5, Unders
  <2>. QED  BY <1>2, <1>4, <2>1, SeenSame
<1>6. \A m \in Nodes : r[m].tseq >= t[m].tseq
  <2>1. \A m \in Nodes : t[m].tseq <= t[m].tseq /\ k >= t[m].tseq
    BY <1>3
  <2>. QED  BY <1>3, <1>4, <2>1
<1>. QED  BY <1>4, <1>5, <1>6 DEF Grows

LEMMA GrownGrows ==
  ASSUME NEW t, NEW s, Served(t, s), NEW n \in Nodes \ {Root}, ~t[n].open, t[ParentOf(n)].open,
         NEW d \in Nat, NEW k \in Nat, d > s, k > d, NEW r, Grown(t, r, n, d, k)
  PROVE  Grows(t, r, s)
<1>1. Served(r, k)
  BY ServedGrown
<1>2. Standing(t) /\ Standing(r) /\ (\A m \in Nodes : t[m].open => t[m].vis)
      /\ (\A m \in Nodes : r[m].open => r[m].vis)
  BY <1>1 DEF Served, Numbered
<1>3. t \in Tree /\ s \in Nat /\ \A m \in Nodes : t[m].tseq \in Nat /\ t[m].tseq <= s
  <2>1. t \in Tree /\ Bounded(t, s)
    BY ServedBounded
  <2>. QED  BY <2>1, Trees, Fields DEF Bounded, Served
<1>4. \A m \in Nodes \ {n} : /\ r[m].open = t[m].open /\ r[m].dseq = t[m].dseq
                             /\ r[m].tseq = IF m \in Way[ParentOf(n)] THEN k ELSE t[m].tseq
  BY DEF Grown
<1>5. Way[n] = Way[ParentOf(n)] \cup {n}
  BY WayFacts
<1>6. ASSUME NEW m \in Nodes \ {n}, m \notin Way[ParentOf(n)]
      PROVE  Seen(r, m) = Seen(t, m)
  <2>1. \A j \in Under[m] : j \in Nodes /\ j # n
    BY <1>5, <1>6, Unders
  <2>. QED  BY <1>2, <1>4, <2>1, SeenSame
<1>7. \A m \in Nodes \ {n} : r[m].tseq >= t[m].tseq
  <2>1. \A m \in Nodes : t[m].tseq <= t[m].tseq /\ k >= t[m].tseq
    BY <1>3
  <2>. QED  BY <1>3, <1>4, <2>1
<1>8. k > s
  BY <1>3
<1>. QED  BY <1>4, <1>6, <1>7, <1>8 DEF Grows

LEMMA ShrunkGrows ==
  ASSUME NEW t, NEW s, Served(t, s), NEW n \in Nodes \ {Root}, t[n].open,
         \A c \in Below[n] : ~t[c].open,
         NEW k \in Nat, k > s, NEW r, Shrunk(t, r, n, k)
  PROVE  Grows(t, r, s) /\ \A m \in Nodes : r[m].open => t[m].open
<1>1. Served(r, k)
  BY ServedShrunk
<1>2. Standing(t) /\ Standing(r) /\ (\A m \in Nodes : t[m].open => t[m].vis)
      /\ (\A m \in Nodes : r[m].open => r[m].vis)
  BY <1>1 DEF Served, Numbered
<1>3. t \in Tree /\ s \in Nat /\ \A m \in Nodes : t[m].tseq \in Nat /\ t[m].tseq <= s
  <2>1. t \in Tree /\ Bounded(t, s)
    BY ServedBounded
  <2>. QED  BY <2>1, Trees, Fields DEF Bounded, Served
<1>4. /\ ~r[n].open
      /\ \A m \in Nodes \ {n} : /\ r[m].open = t[m].open /\ r[m].dseq = t[m].dseq
                                /\ r[m].tseq = IF m \in Way[ParentOf(n)] THEN k ELSE t[m].tseq
  BY Trees DEF Shrunk
<1>5. Way[n] = Way[ParentOf(n)] \cup {n}
  BY WayFacts
<1>6. ASSUME NEW m \in Nodes \ {n}, m \notin Way[ParentOf(n)]
      PROVE  Seen(r, m) = Seen(t, m)
  <2>1. \A j \in Under[m] : j \in Nodes /\ j # n
    BY <1>5, <1>6, Unders
  <2>. QED  BY <1>2, <1>4, <2>1, SeenSame
<1>7. \A m \in Nodes \ {n} : r[m].tseq >= t[m].tseq
  <2>1. \A m \in Nodes : t[m].tseq <= t[m].tseq /\ k >= t[m].tseq
    BY <1>3
  <2>. QED  BY <1>3, <1>4, <2>1
<1>. QED  BY <1>4, <1>6, <1>7 DEF Grows

LEMMA ChainGrows ==
  ASSUME NEW t, NEW s \in Nat, NEW w, NEW V, NEW K, CloseChain(t, s, w, V, K)
  PROVE  Grows(t, w.tree, s)
<1>1. /\ K \in Nat /\ K >= 1 /\ V \in [0..K -> Tree] /\ V[0] = t /\ V[K] = w.tree
      /\ \A i \in 0..K : Served(V[i], s + i)
      /\ \A i \in 1..K : CloseStep(V[i - 1], V[i], w.sent[i], s + i)
  BY DEF CloseChain
<1>. DEFINE H == {i \in 0..K : Grows(t, V[i], s) /\ \A m \in Nodes : V[i][m].open => t[m].open}
<1>2. \A i \in 0..K : \A m \in Nodes : V[i][m].tseq \in Nat
  BY <1>1, Trees, Fields
<1>3. 0 \in H
  <2>1. \A m \in Nodes : t[m].tseq \in Nat /\ t[m].tseq >= t[m].tseq
    BY <1>1, <1>2
  <2>. QED  BY <1>1, <2>1 DEF Grows
<1>4. \A i \in 1..K : i - 1 \in H => i \in H
  <2>1. ASSUME NEW i \in 1..K, i - 1 \in H
        PROVE  i \in H
    <3>1. PICK k \in 0..K : k = i - 1 /\ i = k + 1
      <4>1. K \in Nat
        BY <1>1
      <4>. QED  BY <4>1
    <3>2. PICK a \in Tree, b \in Tree : a = V[k] /\ b = V[i]
      BY <1>1
    <3>3. PICK c \in Nodes \ {Root} : /\ a[c].open /\ \A d \in Below[c] : ~a[d].open
                                      /\ Shrunk(a, b, c, s + i)
      BY <1>1, <3>1, <3>2 DEF CloseStep
    <3>4. Served(a, s + k)
      BY <1>1, <3>2
    <3>5. s + i \in Nat /\ s + i > s + k /\ s + k >= s
      BY <3>1
    <3>6. Grows(a, b, s + k) /\ \A m \in Nodes : b[m].open => a[m].open
      BY <3>3, <3>4, <3>5, ShrunkGrows
    <3>7. Grows(t, a, s) /\ \A m \in Nodes : a[m].open => t[m].open
      BY <2>1, <3>1, <3>2
    <3>8. \A m \in Nodes : a[m].tseq \in Nat /\ b[m].tseq \in Nat /\ t[m].tseq \in Nat
      <4>1. t \in Tree
        BY <1>1
      <4>. QED  BY <4>1, Trees, Fields
    <3>9. ASSUME NEW m \in Nodes, t[m].open, b[m].open
          PROVE  (Seen(b, m) # Seen(t, m) => b[m].tseq > s) /\ b[m].tseq >= t[m].tseq
      <4>1. /\ Seen(b, m) # Seen(a, m) => b[m].tseq > s + k
            /\ b[m].tseq >= a[m].tseq
        BY <3>6, <3>9 DEF Grows
      <4>2. /\ Seen(a, m) # Seen(t, m) => a[m].tseq > s
            /\ a[m].tseq >= t[m].tseq
        BY <3>6, <3>7, <3>9 DEF Grows
      <4>3. a[m].tseq \in Nat /\ b[m].tseq \in Nat /\ t[m].tseq \in Nat
        BY <3>8
      <4>4. Seen(b, m) # Seen(a, m) => b[m].tseq > s
        BY <3>1, <4>1, <4>3
      <4>5. Seen(a, m) # Seen(t, m) => b[m].tseq > s
        BY <4>1, <4>2, <4>3
      <4>. QED  BY <4>1, <4>2, <4>3, <4>4, <4>5
    <3>10. Grows(t, b, s)
      BY <3>9 DEF Grows
    <3>. QED  BY <3>2, <3>6, <3>7, <3>10
  <2>. QED  BY <2>1
<1>. HIDE DEF H
<1>5. \A i \in 0..K : i \in H
  BY <1>1, <1>3, <1>4, UpTo
<1>6. K \in H
  BY <1>1, <1>5
<1>. QED  BY <1>1, <1>6 DEF H
-----------------------------------------------------------------------------
(* The proxy: what it works on, and each step of it.                        *)

Heads == [s : Nat, d : Nat, n : Nat, t : Nat, g : Nat, l : Nat]
Requests == [kind : {"TREE_REQ", "DATA_REQ", "FAST_REQ"}, path : Nodes]
Record == [t : Tree, treqs : SUBSET Nodes, dreqs : SUBSET Nodes, sync : BOOLEAN, h : Heads,
           sent : Seq(Requests)]

\* Between stanzas: what is asked for is there.
Copy == {w \in Record : Standing(w.t) /\ \A n \in w.treqs \cup w.dreqs : w.t[n].open}

LEMMA RecordIs ==
  ASSUME NEW w \in Record
  PROVE  /\ w.t \in Tree /\ w.treqs \subseteq Nodes /\ w.dreqs \subseteq Nodes /\ w.sync \in BOOLEAN
         /\ w.h \in Heads /\ w.sent \in Seq(Requests)
         /\ w = [t |-> w.t, treqs |-> w.treqs, dreqs |-> w.dreqs, sync |-> w.sync, h |-> w.h,
                 sent |-> w.sent]
  BY DEF Record

\* v is w but for the requests, of X and of Y.
Asks(w, v, X, Y) ==
  /\ v \in Record /\ v.t = w.t /\ v.sync = w.sync /\ v.h = w.h
  /\ v.treqs = w.treqs \cup X /\ v.dreqs = w.dreqs \cup Y

LEMMA AsksNothing ==
  ASSUME NEW w \in Record
  PROVE  Asks(w, w, {}, {})
  BY DEF Asks

LEMMA AsksBoth ==
  ASSUME NEW w, NEW v, NEW u, NEW X, NEW Y, NEW A, NEW B, Asks(w, v, X, Y), Asks(v, u, A, B)
  PROVE  Asks(w, u, X \cup A, Y \cup B)
  BY DEF Asks

LEMMA AsksCopy ==
  ASSUME NEW w \in Copy, NEW v, NEW X, NEW Y, Asks(w, v, X, Y), \A n \in X \cup Y : w.t[n].open
  PROVE  v \in Copy
  BY DEF Asks, Copy

LEMMA SayIs ==
  ASSUME NEW w \in Record, NEW k \in {"TREE_REQ", "DATA_REQ", "FAST_REQ"}, NEW n \in Nodes
  PROVE  Asks(w, Say(w, k, n), {}, {})
<1>1. PICK q \in Requests : q = Request(k, n)
  BY DEF Request, Requests
<1>2. Say(w, k, n) = [w EXCEPT !.sent = Append(w.sent, q)]
  BY <1>1 DEF Say
<1>3. Append(w.sent, q) \in Seq(Requests)
  BY RecordIs
<1>4. PICK x \in Seq(Requests) : x = Append(w.sent, q)
  BY <1>3
<1>. DEFINE v == [w EXCEPT !.sent = x]
<1>5. v \in Record /\ v.t = w.t /\ v.sync = w.sync /\ v.h = w.h /\ v.treqs = w.treqs /\ v.dreqs = w.dreqs
  BY DEF Record
<1>. HIDE DEF v
<1>6. Asks(w, v, {}, {})
  BY <1>5 DEF Asks
<1>. QED  BY <1>2, <1>4, <1>6 DEF v

LEMMA AskTreeIs ==
  ASSUME NEW w \in Record, NEW n \in Nodes
  PROVE  Asks(w, AskTree(w, n), {n}, {})
<1>. DEFINE u == [w EXCEPT !.treqs = @ \cup {n}]
<1>1. CASE n \in w.treqs
  BY <1>1 DEF AskTree, Asks
<1>2. CASE n \notin w.treqs
  <2>1. PICK X \in SUBSET Nodes : X = w.treqs \cup {n}
    BY RecordIs
  <2>2. u = [w EXCEPT !.treqs = X]
    BY <2>1
  <2>3. u \in Record /\ u.t = w.t /\ u.sync = w.sync /\ u.h = w.h /\ u.treqs = X /\ u.dreqs = w.dreqs
    BY <2>2 DEF Record
  <2>4. Asks(w, u, {n}, {})
    BY <2>1, <2>3 DEF Asks
  <2>5. AskTree(w, n) = Say(u, "TREE_REQ", n)
    BY <1>2 DEF AskTree
  <2>. HIDE DEF u
  <2>6. Asks(u, Say(u, "TREE_REQ", n), {}, {})
    BY <2>3, SayIs
  <2>7. Asks(w, Say(u, "TREE_REQ", n), {n} \cup {}, {} \cup {})
    BY <2>4, <2>6, AsksBoth
  <2>. QED  BY <2>5, <2>7
<1>. QED  BY <1>1, <1>2

LEMMA AskDataIs ==
  ASSUME NEW w \in Record, NEW n \in Nodes
  PROVE  Asks(w, AskData(w, n), {}, {n})
<1>. DEFINE u == [w EXCEPT !.dreqs = @ \cup {n}]
<1>1. CASE n \in w.dreqs
  BY <1>1 DEF AskData, Asks
<1>2. CASE n \notin w.dreqs
  <2>1. PICK X \in SUBSET Nodes : X = w.dreqs \cup {n}
    BY RecordIs
  <2>2. u = [w EXCEPT !.dreqs = X]
    BY <2>1
  <2>3. u \in Record /\ u.t = w.t /\ u.sync = w.sync /\ u.h = w.h /\ u.treqs = w.treqs /\ u.dreqs = X
    BY <2>2 DEF Record
  <2>4. Asks(w, u, {}, {n})
    BY <2>1, <2>3 DEF Asks
  <2>5. AskData(w, n) = Say(u, "DATA_REQ", n)
    BY <1>2 DEF AskData
  <2>. HIDE DEF u
  <2>6. Asks(u, Say(u, "DATA_REQ", n), {}, {})
    BY <2>3, SayIs
  <2>7. Asks(w, Say(u, "DATA_REQ", n), {} \cup {}, {n} \cup {})
    BY <2>4, <2>6, AsksBoth
  <2>. QED  BY <2>5, <2>7
<1>. QED  BY <1>1, <1>2

LEMMA AskBothIs ==
  ASSUME NEW w \in Record, NEW n \in Nodes
  PROVE  Asks(w, AskTree(AskData(w, n), n), {n}, {n})
<1>1. Asks(w, AskData(w, n), {}, {n})
  BY AskDataIs
<1>2. AskData(w, n) \in Record
  BY <1>1 DEF Asks
<1>3. Asks(AskData(w, n), AskTree(AskData(w, n), n), {n}, {})
  BY <1>2, AskTreeIs
<1>4. Asks(w, AskTree(AskData(w, n), n), {} \cup {n}, {n} \cup {})
  BY <1>1, <1>3, AsksBoth
<1>. QED  BY <1>4

\* A child that a list has made.
Fresh == [Absent EXCEPT !.open = TRUE]

LEMMA FreshIs ==
  /\ Fresh \in Node /\ Fresh.open /\ ~Fresh.vis /\ Fresh.dseq = 0 /\ Fresh.nseq = 0 /\ Fresh.tseq = 0
  BY DEF Fresh, Absent, Node

LEMMA NewChildFresh ==
  ASSUME NEW t \in Tree, NEW n \in Nodes
  PROVE  NewChild(t, n, 0) = [t EXCEPT ![n] = Fresh]
<1>. DEFINE r == NewChild(t, n, 0)
<1>1. NewChildMakes(t, r, n, 0)
  BY NewChildIs
<1>. HIDE DEF r
<1>2. /\ r \in Tree
      /\ r[n].open /\ ~r[n].vis /\ r[n].dseq = 0 /\ r[n].nseq = 0 /\ r[n].tseq = 0
      /\ \A m \in Nodes \ {n} : /\ r[m].open = t[m].open /\ r[m].vis = t[m].vis
                                /\ r[m].dseq = t[m].dseq /\ r[m].nseq = t[m].nseq
                                /\ r[m].tseq = t[m].tseq \/ (t[m].tseq <= 0 /\ r[m].tseq = 0)
  BY <1>1 DEF NewChildMakes
<1>3. \A m \in Nodes : r[m] \in Node /\ t[m] \in Node
  BY <1>2, Trees
<1>4. r[n] = Fresh
  BY <1>2, <1>3, FreshIs, NodeEqual, Fields
<1>5. \A m \in Nodes \ {n} : r[m] = t[m]
  <2>1. \A m \in Nodes : t[m].tseq \in Nat
    BY <1>3, Fields
  <2>2. \A m \in Nodes \ {n} : r[m].tseq = t[m].tseq
    BY <1>2, <2>1
  <2>. QED  BY <1>2, <1>3, <2>2, NodeEqual
<1>6. r = [t EXCEPT ![n] = Fresh]
  BY <1>2, <1>4, <1>5, Trees
<1>. QED  BY <1>6 DEF r

-----------------------------------------------------------------------------
(* The proxy reads a list of children.                                      *)

\* A child that the proxy does not have, or that may have changed.
Suspect(w, k) == ~w.t[k.path].open \/ k.tseq # w.t[k.path].tseq \/ w.t[k.path].tseq > w.h.g

\* The children of P are there in v, and those of A are asked for.
ChecksTo(w, v, P, A) ==
  /\ v \in Record /\ v.h = w.h /\ (~w.sync => ~v.sync)
  /\ \A m \in Nodes : v.t[m] = IF m \in P /\ ~w.t[m].open THEN Fresh ELSE w.t[m]
  /\ v.treqs = w.treqs \cup A /\ v.dreqs = w.dreqs \cup A

LEMMA MadeIs ==
  ASSUME NEW w \in Record, NEW c \in Nodes
  PROVE  LET u == [w EXCEPT !.t = NewChild(@, c, 0), !.sync = FALSE] IN
         /\ u \in Record /\ u.h = w.h /\ ~u.sync /\ u.t = [w.t EXCEPT ![c] = Fresh]
         /\ u.treqs = w.treqs /\ u.dreqs = w.dreqs
<1>. DEFINE u == [w EXCEPT !.t = NewChild(@, c, 0), !.sync = FALSE]
<1>1. w.t \in Tree
  BY RecordIs
<1>2. PICK x \in Tree : x = NewChild(w.t, c, 0)
  BY <1>1, NewChildIs DEF NewChildMakes
<1>3. u = [w EXCEPT !.t = x, !.sync = FALSE]
  BY <1>2
<1>4. x = [w.t EXCEPT ![c] = Fresh]
  BY <1>1, <1>2, NewChildFresh
<1>. QED  BY <1>3, <1>4 DEF Record

LEMMA CheckIs ==
  ASSUME NEW w \in Record, NEW k \in Kid
  PROVE  ChecksTo(w, Check(w, k), {k.path}, {c \in {k.path} : Suspect(w, k)})
<1>. DEFINE c == k.path
            A == {x \in {c} : Suspect(w, k)}
<1>1. c \in Nodes
  BY DEF Kid
<1>2. \A v, B : Asks(w, v, B, B) /\ B = A /\ w.t[c].open => ChecksTo(w, v, {c}, A)
  <2>. SUFFICES ASSUME NEW v, NEW B, Asks(w, v, B, B), B = A, w.t[c].open
                PROVE  ChecksTo(w, v, {c}, A)
    OBVIOUS
  <2>. QED  BY DEF Asks, ChecksTo
<1>3. CASE w.t[c].open
  <2>. DEFINE a == IF k.tseq # w.t[c].tseq \/ w.t[c].tseq > w.h.g
                     THEN AskTree(AskData(w, c), c) ELSE w
  <2>1. Check(w, k) = IF w.t[c].vis THEN a ELSE AskFast(a, c)
    BY <1>3 DEF Check
  <2>2. Suspect(w, k) <=> (k.tseq # w.t[c].tseq \/ w.t[c].tseq > w.h.g)
    BY <1>3 DEF Suspect
  <2>3. Asks(w, a, A, A)
    <3>1. CASE Suspect(w, k)
      <4>1. A = {c}
        BY <3>1
      <4>. QED  BY <1>1, <2>2, <3>1, <4>1, AskBothIs
    <3>2. CASE ~Suspect(w, k)
      <4>1. A = {}
        BY <3>2
      <4>. QED  BY <2>2, <3>2, <4>1, AsksNothing
    <3>. QED  BY <3>1, <3>2
  <2>. HIDE DEF a, A
  <2>4. a \in Record
    BY <2>3 DEF Asks
  <2>5. Asks(a, AskFast(a, c), {}, {})
    BY <1>1, <2>4, SayIs DEF AskFast
  <2>6. Asks(w, AskFast(a, c), A \cup {}, A \cup {})
    BY <2>3, <2>5, AsksBoth
  <2>7. A \cup {} = A
    OBVIOUS
  <2>8. Asks(w, AskFast(a, c), A, A)
    BY <2>6, <2>7
  <2>9. ChecksTo(w, a, {c}, A) /\ ChecksTo(w, AskFast(a, c), {c}, A)
    BY <1>2, <1>3, <2>3, <2>8
  <2>. QED  BY <2>1, <2>9 DEF A
<1>4. CASE ~w.t[c].open
  <2>. DEFINE u == [w EXCEPT !.t = NewChild(@, c, 0), !.sync = FALSE]
  <2>1. /\ u \in Record /\ u.h = w.h /\ ~u.sync /\ u.t = [w.t EXCEPT ![c] = Fresh]
        /\ u.treqs = w.treqs /\ u.dreqs = w.dreqs
    BY <1>1, MadeIs
  <2>2. Check(w, k) = AskTree(AskData(u, c), c)
    BY <1>4 DEF Check
  <2>. HIDE DEF u
  <2>3. Asks(u, Check(w, k), {c}, {c})
    BY <1>1, <2>1, <2>2, AskBothIs
  <2>4. A = {c}
    BY <1>4 DEF Suspect
  <2>5. w.t \in [Nodes -> Node]
    BY RecordIs, Trees
  <2>6. \A m \in Nodes : u.t[m] = IF m \in {c} /\ ~w.t[m].open THEN Fresh ELSE w.t[m]
    BY <1>4, <2>1, <2>5
  <2>. QED  BY <2>1, <2>3, <2>4, <2>6 DEF Asks, ChecksTo
<1>. QED  BY <1>3, <1>4

\* The steps of Checked().
CheckedSteps(F, w, kids) ==
  /\ F \in [0..Len(kids) -> Record]
  /\ F[0] = w
  /\ \A i \in 1..Len(kids) : F[i] = Check(F[i - 1], kids[i])
  /\ Checked(w, kids) = F[Len(kids)]

LEMMA CheckedFolds ==
  ASSUME NEW w, NEW kids,
         Len(kids) \in Nat, w \in Record,
         \A i \in 1..Len(kids), v \in Record : Check(v, kids[i]) \in Record
  PROVE  \E F : CheckedSteps(F, w, kids)
<1>. DEFINE b == w
            Step(v, i) == Check(v, kids[i])
            F == CHOOSE f : f = [i \in 0..Len(kids) |->
                   IF i = 0 THEN w
                   ELSE Check(f[i - 1], kids[i])]
            g == [i \in 1..Len(kids) |-> [v \in Record |-> Step(v, i)]]
<1>1. PICK k \in Nat : k = Len(kids)
  OBVIOUS
<1>2. b \in Record /\ \A i \in 1..k, v \in Record : Step(v, i) \in Record
  BY <1>1
<1>3. Checked(w, kids) = F[Len(kids)]
  BY DEF Checked
<1>4. F = CHOOSE f : f = [i \in 0..k |-> IF i = 0 THEN b ELSE Step(f[i - 1], i)]
  BY <1>1
<1>5. g = [i \in 1..k |-> [v \in Record |-> Step(v, i)]]
  BY <1>1
<1>6. \A f : f[0] = b => f[0] = w
  OBVIOUS
<1>7. \A f, i : f[i] = Step(f[i - 1], i) => f[i] = Check(f[i - 1], kids[i])
  OBVIOUS
<1>. HIDE DEF F, Step, b, g
<1>8. g \in [1..k -> [Record -> Record]] /\ \A i \in 1..k, v \in Record : g[i][v] = Step(v, i)
  BY <1>2, <1>5
<1>9. PICK f : IsFold(f, k, Record, b, g)
  BY <1>2, <1>8, FoldExists
<1>10. f \in [0..k -> Record] /\ f[0] = b /\ \A i \in 1..k : f[i] = Step(f[i - 1], i)
  <2>1. \A i \in 1..k : i - 1 \in 0..k
    OBVIOUS
  <2>2. f \in [0..k -> Record] /\ f[0] = b /\ \A i \in 1..k : f[i] = g[i][f[i - 1]]
    BY <1>9 DEF IsFold
  <2>. QED  BY <1>8, <2>1, <2>2
<1>11. f = [i \in 0..k |-> IF i = 0 THEN b ELSE Step(f[i - 1], i)]
  <2>1. \A i \in 0..k : i = 0 \/ i \in 1..k
    OBVIOUS
  <2>2. \A i \in 0..k : f[i] = IF i = 0 THEN b ELSE Step(f[i - 1], i)
    BY <1>10, <2>1
  <2>. QED  BY <1>10, <2>2
<1>12. F = [i \in 0..k |-> IF i = 0 THEN b ELSE Step(F[i - 1], i)]
  BY <1>4, <1>11
<1>13. F \in [0..k -> Record] /\ F[0] = b /\ \A i \in 1..k : F[i] = Step(F[i - 1], i)
  <2>. DEFINE Q == {i \in 0..k : F[i] \in Record}
  <2>1. F[0] = b /\ \A i \in 1..k : F[i] = Step(F[i - 1], i)
    BY <1>12
  <2>2. 0 \in Q
    BY <1>2, <2>1
  <2>3. \A i \in 1..k : i - 1 \in Q => i \in Q
    BY <1>2, <2>1
  <2>. HIDE DEF Q
  <2>4. \A i \in 0..k : i \in Q
    BY <2>2, <2>3, UpTo
  <2>5. \A i \in 0..k : F[i] \in Record
    BY <2>4 DEF Q
  <2>. QED  BY <1>12, <2>1, <2>5
<1>14. F[0] = w
       /\ \A i \in 1..k : F[i] = Check(F[i - 1], kids[i])
  BY <1>6, <1>7, <1>13
<1>. QED  BY <1>1, <1>3, <1>13, <1>14 DEF CheckedSteps

Listed(kids) == {c \in Nodes : \E i \in 1..Len(kids) : c = kids[i].path}
Suspects(w, kids) == {c \in Nodes : \E i \in 1..Len(kids) : c = kids[i].path /\ Suspect(w, kids[i])}

LEMMA ChecksNext ==
  ASSUME NEW w \in Record, NEW v, NEW P, NEW A, ChecksTo(w, v, P, A), NEW k \in Kid, k.path \notin P
  PROVE  ChecksTo(w, Check(v, k), P \cup {k.path}, A \cup {c \in {k.path} : Suspect(w, k)})
<1>. DEFINE c == k.path
            B == {x \in {c} : Suspect(v, k)}
            u == Check(v, k)
<1>1. c \in Nodes
  BY DEF Kid
<1>2. v \in Record /\ v.h = w.h /\ v.t[c] = w.t[c]
  BY <1>1 DEF ChecksTo
<1>3. Suspect(v, k) <=> Suspect(w, k)
  BY <1>2 DEF Suspect
<1>4. ChecksTo(v, u, {c}, B)
  BY <1>2, CheckIs
<1>5. B = {x \in {c} : Suspect(w, k)}
  BY <1>3
<1>. HIDE DEF B, u, c
<1>6. \A m \in Nodes : u.t[m] = IF m \in P \cup {c} /\ ~w.t[m].open THEN Fresh ELSE w.t[m]
  <2>. SUFFICES ASSUME NEW m \in Nodes
                PROVE  u.t[m] = IF m \in P \cup {c} /\ ~w.t[m].open THEN Fresh ELSE w.t[m]
    OBVIOUS
  <2>1. u.t[m] = IF m \in {c} /\ ~v.t[m].open THEN Fresh ELSE v.t[m]
    BY <1>4 DEF ChecksTo
  <2>2. v.t[m] = IF m \in P /\ ~w.t[m].open THEN Fresh ELSE w.t[m]
    BY DEF ChecksTo
  <2>3. CASE m = c
    BY <1>2, <2>1, <2>3
  <2>4. CASE m # c
    BY <2>1, <2>2, <2>4
  <2>. QED  BY <2>3, <2>4
<1>7. u.treqs = w.treqs \cup (A \cup B) /\ u.dreqs = w.dreqs \cup (A \cup B)
  BY <1>4 DEF ChecksTo
<1>8. u \in Record /\ u.h = w.h /\ (~w.sync => ~u.sync)
  BY <1>4 DEF ChecksTo
<1>9. ChecksTo(w, u, P \cup {c}, A \cup B)
  BY <1>6, <1>7, <1>8 DEF ChecksTo
<1>. QED  BY <1>5, <1>9 DEF u, c

LEMMA CheckedIs ==
  ASSUME NEW w \in Record, NEW kids \in Seq(Kid),
         \A i, j \in 1..Len(kids) : kids[i].path = kids[j].path => i = j
  PROVE  ChecksTo(w, Checked(w, kids), Listed(kids), Suspects(w, kids))
<1>. DEFINE N == Len(kids)
            P(i) == {c \in Nodes : \E j \in 1..N : j <= i /\ c = kids[j].path}
            A(i) == {c \in Nodes : \E j \in 1..N : j <= i /\ c = kids[j].path /\ Suspect(w, kids[j])}
<1>1. N \in Nat /\ \A i \in 1..N : kids[i] \in Kid /\ kids[i].path \in Nodes
  <2>1. N \in Nat /\ \A i \in 1..N : kids[i] \in Kid
    OBVIOUS
  <2>2. \A k \in Kid : k.path \in Nodes
    BY DEF Kid
  <2>. QED  BY <2>1, <2>2
<1>2. PICK F : CheckedSteps(F, w, kids)
  <2>1. \A i \in 1..N, v \in Record : Check(v, kids[i]) \in Record
    BY <1>1, CheckIs DEF ChecksTo
  <2>. QED  BY <1>1, <2>1, CheckedFolds
<1>3. /\ F[0] = w /\ Checked(w, kids) = F[N]
      /\ \A i \in 1..N : F[i] = Check(F[i - 1], kids[i])
  BY <1>2 DEF CheckedSteps
<1>. DEFINE H == {i \in 0..N : ChecksTo(w, F[i], P(i), A(i))}
<1>4. 0 \in H
  <2>1. P(0) = {} /\ A(0) = {}
    BY <1>1
  <2>2. ChecksTo(w, F[0], {}, {})
    BY <1>3 DEF ChecksTo
  <2>3. 0 \in 0..N
    BY <1>1
  <2>. HIDE DEF P, A
  <2>. QED  BY <2>1, <2>2, <2>3
<1>5. ASSUME NEW i \in 1..N, i - 1 \in H  PROVE i \in H
  <2>. DEFINE k == kids[i]
  <2>1. ChecksTo(w, F[i - 1], P(i - 1), A(i - 1))
    BY <1>5
  <2>2. k.path \notin P(i - 1)
    <3>1. SUFFICES ASSUME NEW j \in 1..N, j <= i - 1, k.path = kids[j].path PROVE FALSE
      OBVIOUS
    <3>2. j = i
      BY <3>1
    <3>. QED  BY <1>1, <3>1, <3>2
  <2>3. ChecksTo(w, F[i], P(i - 1) \cup {k.path}, A(i - 1) \cup {c \in {k.path} : Suspect(w, k)})
    <3>1. k \in Kid
      BY <1>1
    <3>. HIDE DEF P, A, H, k
    <3>2. ChecksTo(w, Check(F[i - 1], k), P(i - 1) \cup {k.path}, A(i - 1) \cup {c \in {k.path} : Suspect(w, k)})
      BY <2>1, <2>2, <3>1, ChecksNext
    <3>. QED  BY <1>3, <3>2 DEF k
  <2>4. \A j \in 1..N : j <= i <=> (j <= i - 1 \/ j = i)
    BY <1>1
  <2>5. P(i) = P(i - 1) \cup {k.path}
    BY <1>1, <2>4
  <2>6. A(i) = A(i - 1) \cup {c \in {k.path} : Suspect(w, k)}
    BY <1>1, <2>4
  <2>. HIDE DEF P, A, k
  <2>7. ChecksTo(w, F[i], P(i), A(i))
    BY <2>3, <2>5, <2>6
  <2>8. i \in 0..N
    BY <1>1
  <2>. QED  BY <2>7, <2>8
<1>6. N \in H
  <2>. HIDE DEF H
  <2>1. \A i \in 0..N : i \in H
    BY <1>1, <1>4, <1>5, UpTo
  <2>. QED  BY <1>1, <2>1
<1>7. P(N) = Listed(kids) /\ A(N) = Suspects(w, kids)
  BY <1>1 DEF Listed, Suspects
<1>. QED  BY <1>3, <1>6, <1>7

-----------------------------------------------------------------------------
(* The proxy closes nodes.                                                  *)

\* The nodes of D are gone in v, and only the tseq_ of nodes of U may have
\* changed besides.
Leaves(w, v, D, U) ==
  /\ v \in Record /\ v.h = w.h /\ v.sync = w.sync
  /\ \A m \in D \cap Nodes : v.t[m] = Absent
  /\ \A m \in Nodes \ D : /\ v.t[m].open = w.t[m].open /\ v.t[m].vis = w.t[m].vis
                          /\ v.t[m].dseq = w.t[m].dseq /\ v.t[m].nseq = w.t[m].nseq
                          /\ m \notin U => v.t[m] = w.t[m]
  /\ NumsFrom(w.t, v.t, {0})
  /\ v.treqs = w.treqs \ D /\ v.dreqs = w.dreqs \ D

LEMMA LeavesNothing ==
  ASSUME NEW w \in Record, NEW U
  PROVE  Leaves(w, w, {}, U)
  BY NumsSame DEF Leaves

LEMMA LeavesBoth ==
  ASSUME NEW w, NEW v, NEW u, NEW D, NEW U, NEW E, NEW X, Leaves(w, v, D, U), Leaves(v, u, E, X),
         D \cap X = {}
  PROVE  Leaves(w, u, D \cup E, U \cup X)
<1>1. NumsFrom(w.t, u.t, {0})
  BY NumsStep DEF Leaves
<1>2. \A m \in (D \cup E) \cap Nodes : u.t[m] = Absent
  <2>1. \A m \in E \cap Nodes : u.t[m] = Absent
    BY DEF Leaves
  <2>2. \A m \in (D \cap Nodes) \ E : u.t[m] = v.t[m] /\ v.t[m] = Absent
    BY DEF Leaves
  <2>. QED  BY <2>1, <2>2
<1>3. \A m \in Nodes \ (D \cup E) :
        /\ u.t[m].open = w.t[m].open /\ u.t[m].vis = w.t[m].vis
        /\ u.t[m].dseq = w.t[m].dseq /\ u.t[m].nseq = w.t[m].nseq
        /\ m \notin U \cup X => u.t[m] = w.t[m]
  BY DEF Leaves
<1>4. u \in Record /\ u.h = w.h /\ u.sync = w.sync
  BY DEF Leaves
<1>5. u.treqs = w.treqs \ (D \cup E) /\ u.dreqs = w.dreqs \ (D \cup E)
  BY DEF Leaves
<1>. QED  BY <1>1, <1>2, <1>3, <1>4, <1>5 DEF Leaves

LEMMA AbsentNums ==
  Nums(Absent) = {0}
  BY Trees DEF Nums

\* close(), when the children are gone.
LEMMA LeaveIs ==
  ASSUME NEW w \in Record, NEW n \in Nodes \ {Root}
  PROVE  Leaves(w, Leave(w, n), {n}, Way[n] \ {n})
<1>. DEFINE e == Erase(w.t, n)
            t == IF e[n].vis THEN ChildGone(e, n) ELSE e
            r == [t EXCEPT ![n] = Absent]
<1>1. w.t \in Tree
  BY RecordIs
<1>2. /\ e \in Tree /\ NumsFrom(w.t, e, {})
      /\ \A m \in Nodes \ {n} : e[m] = w.t[m]
  BY <1>1, EraseIs
<1>3. Leave(w, n) = [w EXCEPT !.t = r, !.treqs = @ \ {n}, !.dreqs = @ \ {n}]
  BY DEF Leave
<1>. HIDE DEF e
<1>4. Settled(e, t, n)
  <2>1. Settled(e, ChildGone(e, n), n)
    BY <1>2, ChildGoneIs
  <2>2. Settled(e, e, n)
    BY <1>2, SettledSame
  <2>. QED  BY <2>1, <2>2
<1>. HIDE DEF t
<1>5. t \in Tree /\ NumsFrom(e, t, {0}) /\ SameButTseq(e, t)
      /\ \A m \in Nodes : m \notin Way[n] \ {n} => t[m] = e[m]
  BY <1>4 DEF Settled
<1>6. r \in Tree /\ r[n] = Absent /\ \A m \in Nodes \ {n} : r[m] = t[m]
  BY <1>5, Trees
<1>. HIDE DEF r
<1>7. NumsFrom(t, r, {0})
  <2>1. \A m \in Nodes : Nums(r[m]) \subseteq Nums(t[m]) \cup {0}
    BY <1>6, AbsentNums
  <2>. QED  BY <2>1, NumsNode
<1>8. NumsFrom(w.t, r, {0})
  <2>1. NumsFrom(w.t, t, {0})
    BY <1>2, <1>5, NumsStep
  <2>. QED  BY <1>7, <2>1, NumsStep
<1>9. \A m \in Nodes \ {n} : /\ r[m].open = w.t[m].open /\ r[m].vis = w.t[m].vis
                             /\ r[m].dseq = w.t[m].dseq /\ r[m].nseq = w.t[m].nseq
                             /\ m \notin Way[n] \ {n} => r[m] = w.t[m]
  BY <1>2, <1>5, <1>6 DEF SameButTseq
<1>. DEFINE v == Leave(w, n)
<1>10. /\ v \in Record /\ v.h = w.h /\ v.sync = w.sync /\ v.t = r
       /\ v.treqs = w.treqs \ {n} /\ v.dreqs = w.dreqs \ {n}
  <2>1. PICK X \in SUBSET Nodes, Y \in SUBSET Nodes : X = w.treqs \ {n} /\ Y = w.dreqs \ {n}
    BY RecordIs
  <2>2. v = [w EXCEPT !.t = r, !.treqs = X, !.dreqs = Y]
    BY <1>3, <2>1
  <2>. QED  BY <1>6, <2>1, <2>2 DEF Record
<1>. HIDE DEF v
<1>. QED  BY <1>6, <1>8, <1>9, <1>10 DEF Leaves, v

\* The steps of Drop().
DropSteps(F, w, n) ==
  /\ F \in [0..Len(Children(w.t, n)) -> Record]
  /\ F[0] = [w EXCEPT !.t = Erase(@, n)]
  /\ \A i \in 1..Len(Children(w.t, n)) : F[i] = Leave(F[i - 1], Children(w.t, n)[i])
  /\ Drop(w, n) = Leave(F[Len(Children(w.t, n))], n)

LEMMA DropFolds ==
  ASSUME NEW w, NEW n,
         Len(Children(w.t, n)) \in Nat, [w EXCEPT !.t = Erase(@, n)] \in Record,
         \A i \in 1..Len(Children(w.t, n)), v \in Record : Leave(v, Children(w.t, n)[i]) \in Record
  PROVE  \E F : DropSteps(F, w, n)
<1>. DEFINE b == [w EXCEPT !.t = Erase(@, n)]
            Step(v, i) == Leave(v, Children(w.t, n)[i])
            F == CHOOSE f : f = [i \in 0..Len(Children(w.t, n)) |->
                   IF i = 0 THEN [w EXCEPT !.t = Erase(@, n)]
                   ELSE Leave(f[i - 1], Children(w.t, n)[i])]
            g == [i \in 1..Len(Children(w.t, n)) |-> [v \in Record |-> Step(v, i)]]
<1>1. PICK k \in Nat : k = Len(Children(w.t, n))
  OBVIOUS
<1>2. b \in Record /\ \A i \in 1..k, v \in Record : Step(v, i) \in Record
  BY <1>1
<1>3. Drop(w, n) = Leave(F[Len(Children(w.t, n))], n)
  BY DEF Drop
<1>4. F = CHOOSE f : f = [i \in 0..k |-> IF i = 0 THEN b ELSE Step(f[i - 1], i)]
  BY <1>1
<1>5. g = [i \in 1..k |-> [v \in Record |-> Step(v, i)]]
  BY <1>1
<1>6. \A f : f[0] = b => f[0] = [w EXCEPT !.t = Erase(@, n)]
  OBVIOUS
<1>7. \A f, i : f[i] = Step(f[i - 1], i) => f[i] = Leave(f[i - 1], Children(w.t, n)[i])
  OBVIOUS
<1>. HIDE DEF F, Step, b, g
<1>8. g \in [1..k -> [Record -> Record]] /\ \A i \in 1..k, v \in Record : g[i][v] = Step(v, i)
  BY <1>2, <1>5
<1>9. PICK f : IsFold(f, k, Record, b, g)
  BY <1>2, <1>8, FoldExists
<1>10. f \in [0..k -> Record] /\ f[0] = b /\ \A i \in 1..k : f[i] = Step(f[i - 1], i)
  <2>1. \A i \in 1..k : i - 1 \in 0..k
    OBVIOUS
  <2>2. f \in [0..k -> Record] /\ f[0] = b /\ \A i \in 1..k : f[i] = g[i][f[i - 1]]
    BY <1>9 DEF IsFold
  <2>. QED  BY <1>8, <2>1, <2>2
<1>11. f = [i \in 0..k |-> IF i = 0 THEN b ELSE Step(f[i - 1], i)]
  <2>1. \A i \in 0..k : i = 0 \/ i \in 1..k
    OBVIOUS
  <2>2. \A i \in 0..k : f[i] = IF i = 0 THEN b ELSE Step(f[i - 1], i)
    BY <1>10, <2>1
  <2>. QED  BY <1>10, <2>2
<1>12. F = [i \in 0..k |-> IF i = 0 THEN b ELSE Step(F[i - 1], i)]
  BY <1>4, <1>11
<1>13. F \in [0..k -> Record] /\ F[0] = b /\ \A i \in 1..k : F[i] = Step(F[i - 1], i)
  <2>. DEFINE Q == {i \in 0..k : F[i] \in Record}
  <2>1. F[0] = b /\ \A i \in 1..k : F[i] = Step(F[i - 1], i)
    BY <1>12
  <2>2. 0 \in Q
    BY <1>2, <2>1
  <2>3. \A i \in 1..k : i - 1 \in Q => i \in Q
    BY <1>2, <2>1
  <2>. HIDE DEF Q
  <2>4. \A i \in 0..k : i \in Q
    BY <2>2, <2>3, UpTo
  <2>5. \A i \in 0..k : F[i] \in Record
    BY <2>4 DEF Q
  <2>. QED  BY <1>12, <2>1, <2>5
<1>14. F[0] = [w EXCEPT !.t = Erase(@, n)]
       /\ \A i \in 1..k : F[i] = Leave(F[i - 1], Children(w.t, n)[i])
  BY <1>6, <1>7, <1>13
<1>. QED  BY <1>1, <1>3, <1>13, <1>14 DEF DropSteps

LEMMA ErasedIs ==
  ASSUME NEW w \in Record, NEW n \in Nodes
  PROVE  LET u == [w EXCEPT !.t = Erase(@, n)] IN
         /\ u \in Record /\ u.t = Erase(w.t, n) /\ u.h = w.h /\ u.sync = w.sync
         /\ u.treqs = w.treqs /\ u.dreqs = w.dreqs
<1>. DEFINE u == [w EXCEPT !.t = Erase(@, n)]
<1>1. PICK x \in Tree : x = Erase(w.t, n)
  BY RecordIs, EraseIs
<1>2. u = [w EXCEPT !.t = x]
  BY <1>1
<1>. QED  BY <1>1, <1>2 DEF Record

LEMMA ChildWay ==
  \A n \in Nodes : \A c \in Below[n] : /\ c \in Nodes \ {Root} /\ c # n /\ Way[c] = Way[n] \cup {c}
                                       /\ Way[c] \ {c} = Way[n] /\ c \notin Way[n]
<1>. SUFFICES ASSUME NEW n \in Nodes, NEW c \in Below[n]
              PROVE  /\ c \in Nodes \ {Root} /\ c # n /\ Way[c] = Way[n] \cup {c}
                     /\ Way[c] \ {c} = Way[n] /\ c \notin Way[n]
  OBVIOUS
<1>1. c \in Nodes \ {Root} /\ ParentOf(c) = n
  BY Belows
<1>2. Way[c] = Way[n] \cup {c} /\ c \notin Way[n] /\ n # c
  BY <1>1, WayFacts
<1>. QED  BY <1>1, <1>2

\* close() of a node whose children have none.
LEMMA DropLeaves ==
  ASSUME NEW w \in Record, NEW n \in Nodes \ {Root}
  PROVE  Leaves(w, Drop(w, n), Kids(w.t, n) \cup {n}, Way[n] \ {n})
<1>. DEFINE list == Children(w.t, n)
            N == Len(list)
            u == [w EXCEPT !.t = Erase(@, n)]
            D(i) == {c \in Nodes : \E j \in 1..N : j <= i /\ c = list[j]}
<1>1. /\ N \in Nat
      /\ \A i \in 1..N : list[i] \in Below[n] /\ list[i] \in Nodes \ {Root} /\ list[i] # n /\ w.t[list[i]].open
      /\ \A c \in Below[n] : w.t[c].open => \E i \in 1..N : list[i] = c
  BY ChildrenAre
<1>2. u \in Record /\ u.t = Erase(w.t, n) /\ u.h = w.h /\ u.sync = w.sync
      /\ u.treqs = w.treqs /\ u.dreqs = w.dreqs
  BY ErasedIs
<1>3. PICK F : DropSteps(F, w, n)
  <2>1. \A i \in 1..N, v \in Record : Leave(v, list[i]) \in Record
    BY <1>1, LeaveIs DEF Leaves
  <2>. QED  BY <1>1, <1>2, <2>1, DropFolds
<1>4. /\ F[0] = u /\ Drop(w, n) = Leave(F[N], n)
      /\ \A i \in 1..N : F[i] = Leave(F[i - 1], list[i])
  BY <1>3 DEF DropSteps
<1>. HIDE DEF list, u
<1>. DEFINE H == {i \in 0..N : Leaves(u, F[i], D(i), Way[n])}
<1>5. 0 \in H
  <2>1. D(0) = {}
    BY <1>1
  <2>2. Leaves(u, F[0], {}, Way[n])
    BY <1>2, <1>4, LeavesNothing
  <2>3. 0 \in 0..N
    BY <1>1
  <2>. HIDE DEF D
  <2>. QED  BY <2>1, <2>2, <2>3
<1>6. ASSUME NEW i \in 1..N, i - 1 \in H  PROVE i \in H
  <2>. DEFINE c == list[i]
  <2>1. Leaves(u, F[i - 1], D(i - 1), Way[n]) /\ F[i - 1] \in Record
    BY <1>6 DEF Leaves
  <2>2. c \in Nodes \ {Root} /\ c \in Below[n] /\ Way[c] \ {c} = Way[n]
    BY <1>1, ChildWay
  <2>3. Leaves(F[i - 1], F[i], {c}, Way[n])
    BY <1>4, <2>1, <2>2, LeaveIs
  <2>4. D(i - 1) \cap Way[n] = {}
    BY <1>1, ChildWay
  <2>5. Leaves(u, F[i], D(i - 1) \cup {c}, Way[n] \cup Way[n])
    BY <2>1, <2>3, <2>4, LeavesBoth
  <2>6. D(i) = D(i - 1) \cup {c}
    <3>1. \A j \in 1..N : j <= i <=> (j <= i - 1 \/ j = i)
      BY <1>1
    <3>. QED  BY <1>1, <3>1
  <2>7. i \in 0..N
    BY <1>1
  <2>. HIDE DEF D, c
  <2>8. Leaves(u, F[i], D(i), Way[n])
    BY <2>5, <2>6
  <2>. QED  BY <2>7, <2>8
<1>7. Leaves(u, F[N], D(N), Way[n])
  <2>. HIDE DEF H
  <2>1. \A i \in 0..N : i \in H
    BY <1>1, <1>5, <1>6, UpTo
  <2>2. N \in H
    BY <1>1, <2>1
  <2>. QED  BY <2>2 DEF H
<1>8. D(N) = Kids(w.t, n)
  <2>1. D(N) = {c \in Nodes : \E j \in 1..N : c = list[j]}
    BY <1>1
  <2>2. Below[n] \subseteq Nodes
    BY Belows
  <2>. QED  BY <1>1, <2>1, <2>2 DEF Kids
<1>. DEFINE v == Drop(w, n)
            K == Kids(w.t, n)
<1>9. Leaves(F[N], v, {n}, Way[n] \ {n})
  BY <1>4, <1>7, LeaveIs, SMTT(30) DEF Leaves
<1>10. K \cap (Way[n] \ {n}) = {}
  BY ChildWay DEF Kids
<1>. HIDE DEF v, K, D
<1>11. Leaves(u, v, K \cup {n}, Way[n] \cup (Way[n] \ {n}))
  BY <1>7, <1>8, <1>9, <1>10, LeavesBoth DEF K
<1>12. w.t \in Tree
  BY RecordIs
<1>13. NumsFrom(w.t, u.t, {}) /\ \A m \in Nodes \ {n} : u.t[m] = w.t[m]
  BY <1>2, <1>12, EraseIs
<1>14. NumsFrom(w.t, v.t, {0})
  BY <1>11, <1>13, NumsStep DEF Leaves
<1>15. Leaves(w, v, K \cup {n}, Way[n] \ {n})
  <2>1. /\ v \in Record /\ v.h = w.h /\ v.sync = w.sync
        /\ v.treqs = w.treqs \ (K \cup {n}) /\ v.dreqs = w.dreqs \ (K \cup {n})
        /\ \A m \in (K \cup {n}) \cap Nodes : v.t[m] = Absent
    BY <1>2, <1>11 DEF Leaves
  <2>2. ASSUME NEW m \in Nodes \ (K \cup {n})
        PROVE  /\ v.t[m].open = w.t[m].open /\ v.t[m].vis = w.t[m].vis
               /\ v.t[m].dseq = w.t[m].dseq /\ v.t[m].nseq = w.t[m].nseq
               /\ m \notin Way[n] \ {n} => v.t[m] = w.t[m]
    <3>1. u.t[m] = w.t[m]
      BY <1>13
    <3>2. /\ v.t[m].open = u.t[m].open /\ v.t[m].vis = u.t[m].vis
          /\ v.t[m].dseq = u.t[m].dseq /\ v.t[m].nseq = u.t[m].nseq
          /\ m \notin Way[n] \cup (Way[n] \ {n}) => v.t[m] = u.t[m]
      BY <1>11 DEF Leaves
    <3>. QED  BY <3>1, <3>2
  <2>. QED  BY <1>14, <2>1, <2>2 DEF Leaves
<1>. QED  BY <1>15 DEF v, K

LEMMA CopyIs ==
  ASSUME NEW w \in Copy
  PROVE  w \in Record /\ Standing(w.t) /\ w.t \in Tree /\ \A n \in w.treqs \cup w.dreqs : w.t[n].open
  BY RecordIs DEF Copy

\* The nodes from n downwards, and what is below some of S.
Subtree(n) == {m \in Nodes : n \in Way[m]}
Subtrees(S) == {m \in Nodes : \E n \in S : n \in Way[m]}

LEMMA CopyLeaves ==
  ASSUME NEW w \in Copy, NEW v, NEW D, NEW U, Leaves(w, v, D, U), Root \notin D,
         \A m \in Nodes \ {Root} : w.t[m].open /\ ParentOf(m) \in D => m \in D,
         \A m \in U : w.t[m].open
  PROVE  v \in Copy
<1>1. w \in Record /\ Standing(w.t) /\ \A n \in w.treqs \cup w.dreqs : w.t[n].open
  BY CopyIs
<1>2. /\ w.t[Root].open /\ w.t[Root].vis /\ Root \in Nodes
      /\ \A m \in Nodes : ~w.t[m].open => w.t[m] = Absent
      /\ \A m \in Nodes \ {Root} : w.t[m].open => w.t[ParentOf(m)].open
  BY <1>1, Levels DEF Standing
<1>3. /\ v \in Record
      /\ \A m \in D \cap Nodes : v.t[m] = Absent
      /\ \A m \in Nodes \ D : /\ v.t[m].open = w.t[m].open /\ v.t[m].vis = w.t[m].vis
                              /\ m \notin U => v.t[m] = w.t[m]
      /\ v.treqs = w.treqs \ D /\ v.dreqs = w.dreqs \ D
  BY DEF Leaves
<1>4. Absent.open = FALSE
  BY Trees
<1>5. v.t \in Tree /\ v.treqs \subseteq Nodes /\ v.dreqs \subseteq Nodes
  BY <1>3, RecordIs
<1>6. v.t[Root].open /\ v.t[Root].vis
  BY <1>2, <1>3
<1>7. \A m \in Nodes : ~v.t[m].open => v.t[m] = Absent
  BY <1>2, <1>3
<1>8. \A m \in Nodes \ {Root} : v.t[m].open => v.t[ParentOf(m)].open
  <2>. SUFFICES ASSUME NEW m \in Nodes \ {Root}, v.t[m].open  PROVE v.t[ParentOf(m)].open
    OBVIOUS
  <2>1. m \notin D /\ w.t[m].open
    BY <1>3, <1>4
  <2>2. ParentOf(m) \in Nodes /\ ParentOf(m) \notin D /\ w.t[ParentOf(m)].open
    BY <1>2, <2>1, WayFacts
  <2>. QED  BY <1>3, <2>2
<1>9. \A n \in v.treqs \cup v.dreqs : v.t[n].open
  BY <1>1, <1>3, <1>5
<1>. QED  BY <1>3, <1>5, <1>6, <1>7, <1>8, <1>9 DEF Copy, Standing

\* close() of a node and what is below it.
LEMMA DropIs ==
  ASSUME NEW w \in Copy, NEW n \in Nodes \ {Root}, w.t[n].open
  PROVE  Leaves(w, Drop(w, n), Subtree(n), Way[n] \ {n})
<1>. DEFINE v == Drop(w, n)
            D == Kids(w.t, n) \cup {n}
<1>1. w \in Record /\ Standing(w.t) /\ \A m \in w.treqs \cup w.dreqs : w.t[m].open
  BY CopyIs
<1>2. Leaves(w, v, D, Way[n] \ {n})
  BY <1>1, DropLeaves
<1>. HIDE DEF v
<1>3. D \subseteq Subtree(n)
  BY ChildWay, WayFacts DEF Kids, Subtree
<1>4. \A m \in Subtree(n) \ D : m \in Nodes /\ ~w.t[m].open
  <2>. SUFFICES ASSUME NEW m \in Nodes, n \in Way[m], m # n, w.t[m].open  PROVE m \in Kids(w.t, n)
    BY DEF Subtree
  <2>1. n = ParentOf(m) /\ m # Root
    <3>1. CASE m = Root
      BY <3>1, Ways
    <3>2. CASE m \in Top
      BY <3>2, Ways, Levels
    <3>3. CASE m \in Low
      BY <3>3, Ways, Levels
    <3>. QED  BY <3>1, <3>2, <3>3, Levels
  <2>. QED  BY <2>1, Belows DEF Kids
<1>. HIDE DEF D
<1>5. \A m \in Subtree(n) : m \notin Way[n] \ {n}
  <2>. SUFFICES ASSUME NEW m \in Nodes, n \in Way[m], m \in Way[n]  PROVE m = n
    BY DEF Subtree
  <2>. QED  BY Ways, Levels
<1>6. /\ v \in Record /\ v.h = w.h /\ v.sync = w.sync
      /\ \A m \in D \cap Nodes : v.t[m] = Absent
      /\ \A m \in Nodes \ D : /\ v.t[m].open = w.t[m].open /\ v.t[m].vis = w.t[m].vis
                              /\ v.t[m].dseq = w.t[m].dseq /\ v.t[m].nseq = w.t[m].nseq
                              /\ m \notin Way[n] \ {n} => v.t[m] = w.t[m]
      /\ NumsFrom(w.t, v.t, {0})
      /\ v.treqs = w.treqs \ D /\ v.dreqs = w.dreqs \ D
  BY <1>2 DEF Leaves
<1>7. \A m \in Subtree(n) : m \in Nodes
  BY DEF Subtree
<1>8. \A m \in Subtree(n) \cap Nodes : v.t[m] = Absent
  <2>1. \A m \in Subtree(n) \ D : v.t[m] = w.t[m] /\ w.t[m] = Absent
    BY <1>1, <1>4, <1>5, <1>6 DEF Standing
  <2>. QED  BY <1>6, <2>1
<1>9. w.treqs \ D = w.treqs \ Subtree(n) /\ w.dreqs \ D = w.dreqs \ Subtree(n)
  BY <1>1, <1>3, <1>4
<1>10. \A m \in Nodes \ Subtree(n) : m \notin D
  BY <1>3
<1>. QED  BY <1>6, <1>8, <1>9, <1>10 DEF Leaves, v

\* The steps of Dropped().
DroppedSteps(F, w, dead) ==
  /\ F \in [0..Len(dead) -> Record]
  /\ F[0] = w
  /\ \A i \in 1..Len(dead) : F[i] = Drop(F[i - 1], dead[i])
  /\ Dropped(w, dead) = F[Len(dead)]

LEMMA DroppedFolds ==
  ASSUME NEW w, NEW dead,
         Len(dead) \in Nat, w \in Record,
         \A i \in 1..Len(dead), v \in Record : Drop(v, dead[i]) \in Record
  PROVE  \E F : DroppedSteps(F, w, dead)
<1>. DEFINE b == w
            Step(v, i) == Drop(v, dead[i])
            F == CHOOSE f : f = [i \in 0..Len(dead) |->
                   IF i = 0 THEN w
                   ELSE Drop(f[i - 1], dead[i])]
            g == [i \in 1..Len(dead) |-> [v \in Record |-> Step(v, i)]]
<1>1. PICK k \in Nat : k = Len(dead)
  OBVIOUS
<1>2. b \in Record /\ \A i \in 1..k, v \in Record : Step(v, i) \in Record
  BY <1>1
<1>3. Dropped(w, dead) = F[Len(dead)]
  BY DEF Dropped
<1>4. F = CHOOSE f : f = [i \in 0..k |-> IF i = 0 THEN b ELSE Step(f[i - 1], i)]
  BY <1>1
<1>5. g = [i \in 1..k |-> [v \in Record |-> Step(v, i)]]
  BY <1>1
<1>6. \A f : f[0] = b => f[0] = w
  OBVIOUS
<1>7. \A f, i : f[i] = Step(f[i - 1], i) => f[i] = Drop(f[i - 1], dead[i])
  OBVIOUS
<1>. HIDE DEF F, Step, b, g
<1>8. g \in [1..k -> [Record -> Record]] /\ \A i \in 1..k, v \in Record : g[i][v] = Step(v, i)
  BY <1>2, <1>5
<1>9. PICK f : IsFold(f, k, Record, b, g)
  BY <1>2, <1>8, FoldExists
<1>10. f \in [0..k -> Record] /\ f[0] = b /\ \A i \in 1..k : f[i] = Step(f[i - 1], i)
  <2>1. \A i \in 1..k : i - 1 \in 0..k
    OBVIOUS
  <2>2. f \in [0..k -> Record] /\ f[0] = b /\ \A i \in 1..k : f[i] = g[i][f[i - 1]]
    BY <1>9 DEF IsFold
  <2>. QED  BY <1>8, <2>1, <2>2
<1>11. f = [i \in 0..k |-> IF i = 0 THEN b ELSE Step(f[i - 1], i)]
  <2>1. \A i \in 0..k : i = 0 \/ i \in 1..k
    OBVIOUS
  <2>2. \A i \in 0..k : f[i] = IF i = 0 THEN b ELSE Step(f[i - 1], i)
    BY <1>10, <2>1
  <2>. QED  BY <1>10, <2>2
<1>12. F = [i \in 0..k |-> IF i = 0 THEN b ELSE Step(F[i - 1], i)]
  BY <1>4, <1>11
<1>13. F \in [0..k -> Record] /\ F[0] = b /\ \A i \in 1..k : F[i] = Step(F[i - 1], i)
  <2>. DEFINE Q == {i \in 0..k : F[i] \in Record}
  <2>1. F[0] = b /\ \A i \in 1..k : F[i] = Step(F[i - 1], i)
    BY <1>12
  <2>2. 0 \in Q
    BY <1>2, <2>1
  <2>3. \A i \in 1..k : i - 1 \in Q => i \in Q
    BY <1>2, <2>1
  <2>. HIDE DEF Q
  <2>4. \A i \in 0..k : i \in Q
    BY <2>2, <2>3, UpTo
  <2>5. \A i \in 0..k : F[i] \in Record
    BY <2>4 DEF Q
  <2>. QED  BY <1>12, <2>1, <2>5
<1>14. F[0] = w
       /\ \A i \in 1..k : F[i] = Drop(F[i - 1], dead[i])
  BY <1>6, <1>7, <1>13
<1>. QED  BY <1>1, <1>3, <1>13, <1>14 DEF DroppedSteps


\* close() of children of p, in any order.
LEMMA DroppedIs ==
  ASSUME NEW w \in Copy, NEW p \in Nodes, w.t[p].open, NEW dead \in Seq(Nodes),
         \A i \in 1..Len(dead) : dead[i] \in Below[p] /\ w.t[dead[i]].open,
         \A i, j \in 1..Len(dead) : dead[i] = dead[j] => i = j
  PROVE  LET v == Dropped(w, dead) IN
         /\ Leaves(w, v, Subtrees({dead[i] : i \in 1..Len(dead)}), Way[p])
         /\ v \in Copy
<1>. DEFINE N == Len(dead)
            S(i) == {c \in Nodes : \E j \in 1..N : j <= i /\ c = dead[j]}
            D(i) == Subtrees(S(i))
<1>1. /\ N \in Nat
      /\ \A i \in 1..N : /\ dead[i] \in Below[p] /\ dead[i] \in Nodes \ {Root} /\ w.t[dead[i]].open
                         /\ Way[dead[i]] \ {dead[i]} = Way[p] /\ dead[i] \notin Way[p]
  BY ChildWay
<1>2. w \in Record /\ Standing(w.t)
  BY CopyIs
<1>3. \A m \in Way[p] : w.t[m].open
  BY <1>2, OpenWay
<1>4. PICK F : DroppedSteps(F, w, dead)
  <2>1. \A i \in 1..N, v \in Record : Drop(v, dead[i]) \in Record
    BY <1>1, DropLeaves DEF Leaves
  <2>. QED  BY <1>1, <1>2, <2>1, DroppedFolds
<1>5. /\ F[0] = w /\ Dropped(w, dead) = F[N]
      /\ \A i \in 1..N : F[i] = Drop(F[i - 1], dead[i])
  BY <1>4 DEF DroppedSteps
<1>6. \A i \in Nat : /\ Root \notin D(i)
                     /\ \A m \in Nodes \ {Root} : ParentOf(m) \in D(i) => m \in D(i)
                     /\ D(i) \cap Way[p] = {}
  <2>. SUFFICES ASSUME NEW i \in Nat
                PROVE  /\ Root \notin D(i)
                       /\ \A m \in Nodes \ {Root} : ParentOf(m) \in D(i) => m \in D(i)
                       /\ D(i) \cap Way[p] = {}
    OBVIOUS
  <2>1. \A c \in S(i) : c \in Nodes \ {Root} /\ c \notin Way[p]
    BY <1>1
  <2>. HIDE DEF S
  <2>2. Root \notin D(i)
    BY <2>1, Ways DEF Subtrees
  <2>3. \A m \in Nodes \ {Root} : ParentOf(m) \in D(i) => m \in D(i)
    BY WayFacts DEF Subtrees
  <2>4. D(i) \cap Way[p] = {}
    BY <2>1, WayFacts DEF Subtrees
  <2>. QED  BY <2>2, <2>3, <2>4
<1>. DEFINE H == {i \in 0..N : Leaves(w, F[i], D(i), Way[p])}
<1>7. 0 \in H
  <2>1. S(0) = {}
    BY <1>1
  <2>2. D(0) = {}
    BY <2>1 DEF Subtrees
  <2>3. Leaves(w, F[0], {}, Way[p])
    BY <1>2, <1>5, LeavesNothing
  <2>4. 0 \in 0..N
    BY <1>1
  <2>. HIDE DEF D
  <2>. QED  BY <2>2, <2>3, <2>4
<1>8. \A i \in 0..N : i \in H => F[i] \in Copy
  <2>. SUFFICES ASSUME NEW i \in 0..N, i \in H PROVE F[i] \in Copy
    OBVIOUS
  <2>1. Leaves(w, F[i], D(i), Way[p])
    OBVIOUS
  <2>2. i \in Nat
    BY <1>1
  <2>. HIDE DEF D, H
  <2>. QED  BY <1>3, <1>6, <2>1, <2>2, CopyLeaves
<1>9. ASSUME NEW i \in 1..N, i - 1 \in H  PROVE i \in H
  <2>. DEFINE c == dead[i]
  <2>1. Leaves(w, F[i - 1], D(i - 1), Way[p]) /\ F[i - 1] \in Copy
    <3>1. i - 1 \in 0..N
      BY <1>1
    <3>. QED  BY <1>8, <1>9, <3>1
  <2>2. c \in Nodes \ {Root} /\ Way[c] \ {c} = Way[p] /\ w.t[c].open
    BY <1>1
  <2>3. c \notin D(i - 1)
    <3>1. SUFFICES ASSUME NEW j \in 1..N, j <= i - 1, dead[j] \in Way[c] PROVE FALSE
      BY DEF Subtrees
    <3>2. dead[j] = c
      BY <1>1, <2>2, <3>1
    <3>3. j = i
      BY <3>2
    <3>. QED  BY <1>1, <3>1, <3>3
  <2>4. F[i - 1].t[c].open
    <3>. HIDE DEF D
    <3>. QED  BY <2>1, <2>2, <2>3 DEF Leaves
  <2>5. Leaves(F[i - 1], F[i], Subtree(c), Way[p])
    BY <1>5, <2>1, <2>2, <2>4, DropIs
  <2>6. i - 1 \in Nat /\ i \in 0..N
    BY <1>1
  <2>7. Leaves(w, F[i], D(i - 1) \cup Subtree(c), Way[p] \cup Way[p])
    <3>. HIDE DEF D
    <3>. QED  BY <1>6, <2>1, <2>5, <2>6, LeavesBoth
  <2>8. D(i) = D(i - 1) \cup Subtree(c)
    <3>1. \A j \in 1..N : j <= i <=> (j <= i - 1 \/ j = i)
      BY <1>1
    <3>2. S(i) = S(i - 1) \cup {c}
      BY <1>1, <3>1
    <3>. HIDE DEF S, c
    <3>. QED  BY <3>2 DEF Subtrees, Subtree
  <2>. HIDE DEF D, c
  <2>9. Leaves(w, F[i], D(i), Way[p])
    BY <2>7, <2>8
  <2>. QED  BY <2>6, <2>9
<1>10. N \in H /\ F[N] \in Copy
  <2>. HIDE DEF H
  <2>1. \A i \in 0..N : i \in H
    BY <1>1, <1>7, <1>9, UpTo
  <2>. QED  BY <1>1, <1>8, <2>1
<1>11. S(N) = {dead[i] : i \in 1..N}
  BY <1>1
<1>12. Leaves(w, F[N], Subtrees({dead[i] : i \in 1..N}), Way[p])
  BY <1>10, <1>11
<1>. QED  BY <1>5, <1>10, <1>12

\* The nodes that a list of children tells the proxy are gone.
Lost(w, z) == Subtrees({c \in Below[z.path] : w.t[c].open /\ c \notin Listed(z.kids)})

TreeMakes(w, r, z) ==
  /\ r \in Copy /\ r.h = w.h /\ ~r.sync
  /\ \A m \in Lost(w, z) : r.t[m] = Absent
  /\ \A m \in Nodes \ Lost(w, z) :
       /\ r.t[m].open = (w.t[m].open \/ m \in Listed(z.kids))
       /\ r.t[m].vis = w.t[m].vis /\ r.t[m].dseq = w.t[m].dseq
       /\ r.t[m].nseq = IF m = z.path THEN z.num ELSE w.t[m].nseq
  /\ NumsFrom(w.t, r.t, {0, z.num})
  /\ r.treqs = ((w.treqs \cup Suspects(w, z.kids)) \ Lost(w, z)) \ {z.path}
  /\ r.dreqs = (w.dreqs \cup Suspects(w, z.kids)) \ Lost(w, z)

LEMMA QuietIs ==
  ASSUME NEW w \in Copy
  PROVE  LET u == [w EXCEPT !.sync = FALSE] IN
         /\ u \in Copy /\ u.t = w.t /\ u.treqs = w.treqs /\ u.dreqs = w.dreqs /\ u.h = w.h /\ ~u.sync
         /\ \A kids : Suspects(u, kids) = Suspects(w, kids)
<1>. DEFINE u == [w EXCEPT !.sync = FALSE]
<1>1. w \in Record /\ w \in Copy
  BY CopyIs
<1>2. /\ u \in Record /\ u.t = w.t /\ u.treqs = w.treqs /\ u.dreqs = w.dreqs /\ u.h = w.h /\ ~u.sync
  BY <1>1 DEF Record
<1>. HIDE DEF u
<1>3. u \in Copy
  BY <1>1, <1>2 DEF Copy
<1>4. \A kids : Suspects(u, kids) = Suspects(w, kids)
  BY <1>2 DEF Suspects, Suspect
<1>. QED  BY <1>2, <1>3, <1>4 DEF u

\* The children of an open node are made.
LEMMA CopyChecks ==
  ASSUME NEW w \in Copy, NEW v, NEW P, NEW A, ChecksTo(w, v, P, A), A \subseteq P,
         NEW p \in Nodes, w.t[p].open, P \subseteq Below[p]
  PROVE  v \in Copy
<1>1. w \in Record /\ Standing(w.t) /\ \A n \in w.treqs \cup w.dreqs : w.t[n].open
  BY CopyIs
<1>2. /\ w.t[Root].open /\ w.t[Root].vis /\ Root \in Nodes
      /\ \A m \in Nodes : ~w.t[m].open => w.t[m] = Absent
      /\ \A m \in Nodes \ {Root} : w.t[m].open => w.t[ParentOf(m)].open
  BY <1>1, Levels DEF Standing
<1>3. /\ v \in Record
      /\ \A m \in Nodes : v.t[m] = IF m \in P /\ ~w.t[m].open THEN Fresh ELSE w.t[m]
      /\ v.treqs = w.treqs \cup A /\ v.dreqs = w.dreqs \cup A
  BY DEF ChecksTo
<1>4. v.t \in Tree /\ v.treqs \subseteq Nodes /\ v.dreqs \subseteq Nodes
  BY <1>3, RecordIs
<1>5. Fresh.open = TRUE
  BY FreshIs
<1>6. \A m \in Nodes : w.t[m].open => v.t[m] = w.t[m] /\ v.t[m].open
  BY <1>3
<1>7. \A m \in P : m \in Nodes \ {Root} /\ ParentOf(m) = p /\ v.t[m].open
  <2>1. \A m \in P : m \in Nodes \ {Root} /\ ParentOf(m) = p
    BY Belows
  <2>2. \A m \in P : v.t[m].open
    BY <1>3, <1>5, <2>1
  <2>. QED  BY <2>1, <2>2
<1>8. \A m \in Nodes : ~v.t[m].open => v.t[m] = Absent
  BY <1>2, <1>3, <1>5
<1>9. \A m \in Nodes \ {Root} : v.t[m].open => v.t[ParentOf(m)].open
  <2>. SUFFICES ASSUME NEW m \in Nodes \ {Root}, v.t[m].open  PROVE v.t[ParentOf(m)].open
    OBVIOUS
  <2>1. ParentOf(m) \in Nodes
    BY WayFacts
  <2>2. CASE w.t[m].open
    BY <1>2, <1>6, <2>1, <2>2
  <2>3. CASE ~w.t[m].open
    <3>1. m \in P
      BY <1>3, <2>3
    <3>. QED  BY <1>6, <1>7, <3>1
  <2>. QED  BY <2>2, <2>3
<1>10. \A n \in v.treqs \cup v.dreqs : v.t[n].open
  <2>1. \A n \in w.treqs \cup w.dreqs : n \in Nodes /\ w.t[n].open
    BY <1>1, RecordIs
  <2>. QED  BY <1>3, <1>6, <1>7, <2>1
<1>. QED  BY <1>2, <1>3, <1>4, <1>6, <1>8, <1>9, <1>10 DEF Copy, Standing

\* receive_tree(), for a node that the proxy has.
LEMMA TreeIs ==
  ASSUME NEW w \in Copy, NEW z \in Stanza, w.t[z.path].open
  PROVE  TreeMakes(w, ReceiveTree(w, z), z)
<1>. DEFINE p == z.path
            P == Listed(z.kids)
            A == Suspects(w, z.kids)
            u == [w EXCEPT !.sync = FALSE]
            a == Checked(u, z.kids)
            dead == Kids(a.t, p) \ {z.kids[i].path : i \in DOMAIN z.kids}
            list == Among(Order, dead)
            b == Dropped(a, list)
            L == Lost(w, z)
            x == SetNseq(b.t, p, z.num)
            r == ReceiveTree(w, z)
<1>1. /\ p \in Nodes /\ z.num \in Nat /\ z.kids \in Seq(Kid)
      /\ \A i \in 1..Len(z.kids) : z.kids[i].path \in Below[p]
      /\ \A i, k \in 1..Len(z.kids) : z.kids[i].path = z.kids[k].path => i = k
  <2>1. p \in Nodes /\ z.num \in Nat /\ z.kids \in Seq(Kid)
    BY DEF Stanza
  <2>2. DOMAIN z.kids = 1..Len(z.kids)
    BY <2>1
  <2>. QED  BY <2>1, <2>2 DEF Stanza
<1>2. /\ u \in Copy /\ u.t = w.t /\ u.treqs = w.treqs /\ u.dreqs = w.dreqs /\ u.h = w.h /\ ~u.sync
      /\ Suspects(u, z.kids) = A
  BY QuietIs
<1>3. r = [b EXCEPT !.t = SetNseq(@, p, z.num), !.treqs = @ \ {p}]
  BY DEF ReceiveTree
<1>4. P = {z.kids[i].path : i \in DOMAIN z.kids} /\ P \subseteq Below[p] /\ A \subseteq P
  <2>1. DOMAIN z.kids = 1..Len(z.kids) /\ Below[p] \subseteq Nodes
    BY <1>1, Belows
  <2>. QED  BY <1>1, <2>1 DEF Listed, Suspects
<1>. HIDE DEF u
<1>5. ChecksTo(u, a, P, A)
  <2>1. u \in Record
    BY <1>2, CopyIs
  <2>. QED  BY <1>1, <1>2, <2>1, CheckedIs
<1>. HIDE DEF a
<1>6. a \in Copy
  BY <1>1, <1>2, <1>4, <1>5, CopyChecks
<1>7. /\ a.h = w.h /\ ~a.sync
      /\ \A m \in Nodes : a.t[m] = IF m \in P /\ ~w.t[m].open THEN Fresh ELSE w.t[m]
      /\ a.treqs = w.treqs \cup A /\ a.dreqs = w.dreqs \cup A
  BY <1>2, <1>5 DEF ChecksTo
<1>8. dead = {c \in Below[p] : w.t[c].open /\ c \notin P}
  <2>1. \A c \in Below[p] : c \in Nodes
    BY Belows, <1>1
  <2>2. dead = Kids(a.t, p) \ P
    BY <1>4
  <2>. HIDE DEF P, dead
  <2>. QED  BY <1>7, <2>1, <2>2 DEF Kids
<1>9. L = Subtrees(dead)
  BY <1>8 DEF Lost
<1>. HIDE DEF dead, L, A, P
<1>10. /\ list \in Seq(Nodes \cap dead)
       /\ \A n \in Nodes \cap dead : \E i \in 1..Len(list) : list[i] = n
       /\ \A i, k \in 1..Len(list) : list[i] = list[k] => i = k
  BY AmongOrder
<1>. HIDE DEF list
<1>11. Nodes \cap dead = dead /\ \A c \in dead : c \in Below[p] /\ c \in Nodes /\ a.t[c].open
  <2>1. \A c \in Below[p] : c \in Nodes
    BY Belows, <1>1
  <2>. QED  BY <1>7, <1>8, <2>1
<1>12. /\ list \in Seq(Nodes)
       /\ \A i \in 1..Len(list) : list[i] \in Below[p] /\ a.t[list[i]].open
       /\ {list[i] : i \in 1..Len(list)} = dead
  <2>1. list \in Seq(dead) /\ \A n \in dead : \E i \in 1..Len(list) : list[i] = n
    BY <1>10, <1>11
  <2>2. \A i \in 1..Len(list) : list[i] \in dead
    BY <2>1
  <2>3. list \in Seq(Nodes)
    BY <1>11, <2>1
  <2>. QED  BY <1>11, <2>1, <2>2, <2>3
<1>13. a.t[p].open
  BY <1>1, <1>7
<1>14. Leaves(a, b, L, Way[p]) /\ b \in Copy
  BY <1>1, <1>6, <1>9, <1>10, <1>12, <1>13, DroppedIs
<1>. HIDE DEF b
<1>15. /\ b.h = w.h /\ ~b.sync
       /\ \A m \in L \cap Nodes : b.t[m] = Absent
       /\ \A m \in Nodes \ L : /\ b.t[m].open = a.t[m].open /\ b.t[m].vis = a.t[m].vis
                               /\ b.t[m].dseq = a.t[m].dseq /\ b.t[m].nseq = a.t[m].nseq
       /\ NumsFrom(a.t, b.t, {0})
       /\ b.treqs = (w.treqs \cup A) \ L /\ b.dreqs = (w.dreqs \cup A) \ L
  BY <1>7, <1>14 DEF Leaves
<1>16. b \in Record /\ b.t \in Tree /\ Standing(b.t) /\ \A m \in b.treqs \cup b.dreqs : b.t[m].open
  BY <1>14, CopyIs
<1>17. SetNseqMakes(b.t, x, p, z.num)
  BY <1>1, <1>16, SetNseqIs
<1>18. r = [b EXCEPT !.t = x, !.treqs = @ \ {p}]
  BY <1>3
<1>. HIDE DEF x, r
<1>19. /\ x \in Tree /\ NumsFrom(b.t, x, {z.num})
       /\ \A m \in Nodes : /\ x[m].open = b.t[m].open /\ x[m].vis = b.t[m].vis /\ x[m].dseq = b.t[m].dseq
                           /\ x[m].nseq = IF m = p THEN z.num ELSE b.t[m].nseq
                           /\ x[m].tseq = b.t[m].tseq \/ m \in Way[p]
  BY <1>17 DEF SetNseqMakes
<1>20. /\ r \in Record /\ r.t = x /\ r.treqs = b.treqs \ {p} /\ r.dreqs = b.dreqs /\ r.h = b.h /\ r.sync = b.sync
  <2>1. PICK X \in SUBSET Nodes : X = b.treqs \ {p}
    BY <1>16, RecordIs
  <2>2. r = [b EXCEPT !.t = x, !.treqs = X]
    BY <1>18, <2>1
  <2>. QED  BY <1>16, <1>19, <2>1, <2>2 DEF Record
<1>21. p \notin L /\ L \subseteq Nodes
  <2>1. \A c \in dead : c \notin Way[p]
    BY <1>1, <1>11, ChildWay
  <2>. QED  BY <1>9, <2>1 DEF Subtrees
<1>22. \A m \in Nodes : b.t[m].open => \A k \in Way[m] : b.t[k].open
  BY <1>16, OpenWay
<1>23. \A m \in Way[p] : b.t[m].open
  BY <1>1, <1>13, <1>15, <1>21, <1>22
<1>24. \A m \in Nodes : ~b.t[m].open => x[m] = Absent
  <2>. SUFFICES ASSUME NEW m \in Nodes, ~b.t[m].open  PROVE x[m] = Absent
    OBVIOUS
  <2>1. m \notin Way[p] /\ m # p
    BY <1>1, <1>23, WayFacts
  <2>2. x[m] \in Node /\ b.t[m] \in Node
    BY <1>16, <1>19, Trees
  <2>3. x[m] = b.t[m]
    BY <1>19, <2>1, <2>2, NodeEqual
  <2>. QED  BY <1>16, <2>3 DEF Standing
<1>25. Standing(x)
  <2>1. x[Root].open /\ x[Root].vis
    BY <1>16, <1>19, Levels DEF Standing
  <2>2. \A m \in Nodes : ~x[m].open => x[m] = Absent
    BY <1>19, <1>24
  <2>3. \A m \in Nodes \ {Root} : x[m].open => x[ParentOf(m)].open
    BY <1>16, <1>19, WayFacts DEF Standing
  <2>. QED  BY <1>19, <2>1, <2>2, <2>3 DEF Standing
<1>26. r \in Copy
  <2>1. \A m \in r.treqs \cup r.dreqs : m \in Nodes /\ r.t[m].open
    BY <1>16, <1>19, <1>20, RecordIs
  <2>. QED  BY <1>20, <1>25, <2>1 DEF Copy
<1>27. \A m \in L : r.t[m] = Absent
  BY <1>15, <1>20, <1>21, <1>24, Trees
<1>28. \A m \in Nodes \ L : /\ r.t[m].open = (w.t[m].open \/ m \in P)
                            /\ r.t[m].vis = w.t[m].vis /\ r.t[m].dseq = w.t[m].dseq
                            /\ r.t[m].nseq = IF m = p THEN z.num ELSE w.t[m].nseq
  <2>. SUFFICES ASSUME NEW m \in Nodes \ L
                PROVE  /\ r.t[m].open = (w.t[m].open \/ m \in P)
                       /\ r.t[m].vis = w.t[m].vis /\ r.t[m].dseq = w.t[m].dseq
                       /\ r.t[m].nseq = IF m = p THEN z.num ELSE w.t[m].nseq
    OBVIOUS
  <2>1. /\ r.t[m].open = a.t[m].open /\ r.t[m].vis = a.t[m].vis
        /\ r.t[m].dseq = a.t[m].dseq /\ r.t[m].nseq = IF m = p THEN z.num ELSE a.t[m].nseq
    BY <1>15, <1>19, <1>20
  <2>2. a.t[m] = IF m \in P /\ ~w.t[m].open THEN Fresh ELSE w.t[m]
    BY <1>7
  <2>3. w.t[m].open \in BOOLEAN
    BY CopyIs, Trees, Fields
  <2>4. CASE m \in P /\ ~w.t[m].open
    <3>1. w.t[m] = Absent
      BY <2>4, CopyIs DEF Standing
    <3>2. a.t[m] = Fresh
      BY <2>2, <2>4
    <3>3. /\ Fresh.open = TRUE /\ Fresh.vis = w.t[m].vis /\ Fresh.dseq = w.t[m].dseq
          /\ Fresh.nseq = w.t[m].nseq
      BY <3>1 DEF Fresh, Absent
    <3>. QED  BY <2>1, <2>4, <3>2, <3>3
  <2>5. CASE ~(m \in P /\ ~w.t[m].open)
    BY <2>1, <2>2, <2>3, <2>5
  <2>. QED  BY <2>4, <2>5
<1>29. NumsFrom(w.t, r.t, {0, z.num})
  <2>1. NumsFrom(w.t, a.t, {0})
    <3>1. Nums(Fresh) = {0}
      BY FreshIs DEF Nums
    <3>2. \A m \in Nodes : Nums(a.t[m]) \subseteq Nums(w.t[m]) \cup {0}
      BY <1>7, <3>1
    <3>. QED  BY <3>2, NumsNode
  <2>2. NumsFrom(w.t, b.t, {0})
    BY <1>15, <2>1, NumsStep
  <2>. QED  BY <1>19, <1>20, <2>2, NumsStep
<1>30. r.treqs = ((w.treqs \cup A) \ L) \ {p} /\ r.dreqs = (w.dreqs \cup A) \ L
  BY <1>15, <1>20
<1>31. r.h = w.h /\ ~r.sync
  BY <1>15, <1>20
<1>. QED  BY <1>26, <1>27, <1>28, <1>29, <1>30, <1>31 DEF TreeMakes, L, P, A, r

-----------------------------------------------------------------------------
(* The proxy reads a value.                                                 *)

\* find(): the deepest node on the way that is there.
LEMMA GoodIs ==
  ASSUME NEW t, Standing(t), NEW n \in Nodes
  PROVE  /\ Good(t, n) \in Way[n] /\ Good(t, n) \in Nodes /\ t[Good(t, n)].open
         /\ n # Root /\ ~t[n].open => (Good(t, n) = ParentOf(n) <=> t[ParentOf(n)].open)
<1>. DEFINE P(m) == m \in Way[n] /\ t[m].open /\ \A k \in Way[n] : t[k].open => Len(k) <= Len(m)
<1>1. t[Root].open /\ Root \in Nodes
  BY Levels DEF Standing
<1>2. /\ Len(Root) = 0 /\ \A m \in Top : Len(m) = 1
      /\ \A m \in Low : Len(m) = 2
  BY DEF Root, Top, Low
<1>3. \E m : P(m)
  <2>1. CASE n = Root
    <3>1. P(Root)
      BY <1>1, <1>2, <2>1, Ways
    <3>. QED  BY <3>1
  <2>2. CASE n \in Top
    <3>1. Way[n] = {Root, n} /\ Len(n) = 1
      BY <1>2, <2>2, Ways
    <3>2. CASE t[n].open
      <4>1. P(n)
        BY <1>2, <3>1, <3>2
      <4>. QED  BY <4>1
    <3>3. CASE ~t[n].open
      <4>1. P(Root)
        BY <1>1, <1>2, <3>1, <3>3
      <4>. QED  BY <4>1
    <3>. QED  BY <3>2, <3>3
  <2>3. CASE n \in Low
    <3>. DEFINE p == ParentOf(n)
    <3>1. Way[n] = {Root, p, n} /\ Len(n) = 2 /\ Len(p) = 1
      BY <1>2, <2>3, Ways, Levels
    <3>. HIDE DEF p
    <3>0. Len(Root) <= Len(n) /\ Len(p) <= Len(n) /\ Len(n) <= Len(n) /\ Len(Root) <= Len(p) /\ Len(p) <= Len(p)
      <4>1. Len(Root) = 0 /\ Len(n) = 2 /\ Len(p) = 1
        BY <1>2, <3>1
      <4>2. 0 <= 2 /\ 1 <= 2 /\ 2 <= 2 /\ 0 <= 1 /\ 1 <= 1
        OBVIOUS
      <4>. QED  BY <4>1, <4>2, Zenon
    <3>2. CASE t[n].open
      <4>1. n \in Way[n] /\ \A k \in Way[n] : Len(k) <= Len(n)
        BY <3>0, <3>1
      <4>2. P(n)
        BY <3>2, <4>1
      <4>. QED  BY <4>2
    <3>3. CASE ~t[n].open /\ t[p].open
      <4>1. p \in Way[n] /\ \A k \in Way[n] : k = n \/ Len(k) <= Len(p)
        BY <3>0, <3>1
      <4>2. P(p)
        BY <3>3, <4>1
      <4>. QED  BY <4>2
    <3>4. CASE ~t[n].open /\ ~t[p].open
      <4>1. P(Root)
        BY <1>1, <1>2, <3>1, <3>4
      <4>. QED  BY <4>1
    <3>. QED  BY <3>2, <3>3, <3>4
  <2>. QED  BY <2>1, <2>2, <2>3, Levels
<1>. DEFINE g == Good(t, n)
<1>4. g = CHOOSE m : P(m)
  BY DEF Good
<1>. HIDE DEF g
<1>5. P(g)
  BY <1>3, <1>4
<1>6. g \in Nodes
  BY <1>5, WayFacts
<1>7. ASSUME n # Root, ~t[n].open  PROVE g = ParentOf(n) <=> t[ParentOf(n)].open
  <2>. DEFINE p == ParentOf(n)
  <2>1. g # n
    BY <1>5, <1>7
  <2>2. p \in Way[n]
    BY <1>7, WayFacts
  <2>3. ASSUME t[p].open PROVE g = p
    <3>1. CASE n \in Top
      <4>1. Way[n] = {Root, n} /\ p = Root
        BY <3>1, Ways, Levels
      <4>. QED  BY <1>5, <2>1, <4>1
    <3>2. CASE n \in Low
      <4>1. Way[n] = {Root, p, n} /\ Len(p) = 1
        BY <1>2, <3>2, Ways, Levels
      <4>. HIDE DEF p
      <4>2. g = Root \/ g = p
        BY <1>5, <2>1, <4>1
      <4>3. g # Root
        BY <1>2, <1>5, <2>2, <2>3, <4>1
      <4>. QED  BY <4>2, <4>3
    <3>. QED  BY <1>7, <3>1, <3>2, Levels
  <2>. QED  BY <1>5, <2>3
<1>. QED  BY <1>5, <1>6, <1>7 DEF g

\* The value of a node that the proxy has.
KnownMakes(w, r, n, k) ==
  /\ r \in Copy /\ r.h = w.h
  /\ \A m \in Nodes : /\ r.t[m].open = w.t[m].open /\ r.t[m].nseq = w.t[m].nseq
                      /\ r.t[m].vis = (m = n \/ w.t[m].vis)
                      /\ r.t[m].dseq = IF m = n THEN k ELSE w.t[m].dseq
  /\ NumsFrom(w.t, r.t, {k})
  /\ r.treqs = w.treqs /\ r.dreqs = w.dreqs \ {n}
  /\ r.sync => /\ w.sync /\ w.t[n].vis /\ w.t[n].dseq = k
               /\ \/ r.t[Root].tseq = w.t[Root].tseq
                  \/ w.t[Root].tseq <= k /\ r.t[Root].tseq = k

\* The value of a child of a node that it has.
UnknownMakes(w, r, n, k) ==
  /\ r \in Copy /\ r.h = w.h /\ ~r.sync
  /\ \A m \in Nodes : /\ r.t[m].open = (m = n \/ w.t[m].open) /\ r.t[m].nseq = w.t[m].nseq
                      /\ r.t[m].vis = (m = n \/ w.t[m].vis)
                      /\ r.t[m].dseq = IF m = n THEN k ELSE w.t[m].dseq
  /\ NumsFrom(w.t, r.t, {0, k})
  /\ r.treqs = w.treqs \cup {n} /\ r.dreqs = w.dreqs

DataMakes(w, r, n, k) ==
  \/ w.t[n].open /\ KnownMakes(w, r, n, k)
  \/ n # Root /\ ~w.t[n].open /\ w.t[ParentOf(n)].open /\ UnknownMakes(w, r, n, k)
  \/ n # Root /\ ~w.t[n].open /\ ~w.t[ParentOf(n)].open
     /\ r \in Copy /\ \E g \in Nodes : w.t[g].open /\ Asks(w, r, {g}, {})

\* A tree whose nodes are those of another, or the one with a child.
LEMMA StandingSame ==
  ASSUME NEW t, Standing(t), NEW r \in Tree, NEW n \in Nodes,
         \A a \in Way[n] : a # n => t[a].open,
         \A m \in Nodes \ {n} : r[m].open = t[m].open,
         r[n].open,
         \A m \in Nodes \ Way[n] : ~t[m].open => r[m] = t[m],
         r[Root].vis
  PROVE  Standing(r)
<1>1. t[Root].open
  BY DEF Standing
<1>2. r[Root].open
  BY <1>1, Levels
<1>3. \A m \in Nodes : ~r[m].open => r[m] = Absent
  <2>. SUFFICES ASSUME NEW m \in Nodes, ~r[m].open PROVE r[m] = Absent
    OBVIOUS
  <2>1. m # n /\ ~t[m].open
    OBVIOUS
  <2>2. m \notin Way[n]
    BY <2>1
  <2>3. t[m] = Absent
    BY <2>1 DEF Standing
  <2>. QED  BY <2>1, <2>2, <2>3
<1>4. \A m \in Nodes \ {Root} : r[m].open => r[ParentOf(m)].open
  <2>. SUFFICES ASSUME NEW m \in Nodes \ {Root}, r[m].open PROVE r[ParentOf(m)].open
    OBVIOUS
  <2>1. ParentOf(m) \in Nodes /\ ParentOf(m) \in Way[m] /\ ParentOf(m) # m
    BY WayFacts
  <2>2. t[ParentOf(m)].open \/ ParentOf(m) = n
    <3>1. CASE m = n
      BY <2>1, <3>1
    <3>2. CASE m # n
      BY <3>2 DEF Standing
    <3>. QED  BY <3>1, <3>2
  <2>. QED  BY <2>1, <2>2
<1>. QED  BY <1>2, <1>3, <1>4 DEF Standing

LEMMA KnownIs ==
  ASSUME NEW w \in Copy, NEW z \in Stanza, w.t[z.path].open
  PROVE  KnownMakes(w, ReceiveData(w, z), z.path, z.num)
<1>. DEFINE n == z.path
            k == z.num
            same == w.t[n].vis /\ w.t[n].dseq = k
            t == Change(w.t, n, k)
            x == IF t[n].vis THEN t ELSE Show(t, n)
            r == ReceiveData(w, z)
<1>1. n \in Nodes /\ k \in Nat
  BY DEF Stanza
<1>2. w \in Record /\ Standing(w.t) /\ w.t \in Tree /\ \A m \in w.treqs \cup w.dreqs : w.t[m].open
  BY CopyIs
<1>3. r = [w EXCEPT !.t = x, !.sync = @ /\ same, !.dreqs = @ \ {n}]
  BY DEF ReceiveData
<1>4. ChangeMakes(w.t, t, n, k)
  BY <1>1, <1>2, ChangeIs
<1>. HIDE DEF r, t
<1>5. /\ t \in Tree /\ NumsFrom(w.t, t, {k})
      /\ \A m \in Nodes : /\ t[m].open = w.t[m].open /\ t[m].vis = w.t[m].vis /\ t[m].nseq = w.t[m].nseq
                          /\ t[m].dseq = IF m = n THEN k ELSE w.t[m].dseq
                          /\ t[m].tseq = w.t[m].tseq \/ (m \in Way[n] /\ w.t[m].tseq <= k /\ t[m].tseq = k)
  BY <1>4 DEF ChangeMakes
<1>6. /\ x \in Tree /\ NumsFrom(w.t, x, {k})
      /\ \A m \in Nodes : /\ x[m].open = w.t[m].open /\ x[m].nseq = w.t[m].nseq
                          /\ x[m].vis = (m = n \/ w.t[m].vis)
                          /\ x[m].dseq = IF m = n THEN k ELSE w.t[m].dseq
                          /\ x[m].tseq = w.t[m].tseq \/ m \in Way[n]
  <2>1. CASE t[n].vis
    <3>1. x = t
      BY <2>1
    <3>2. \A m \in Nodes : w.t[m].vis \in BOOLEAN
      BY <1>2, Trees, Fields
    <3>. HIDE DEF x
    <3>3. \A m \in Nodes : x[m].vis = (m = n \/ w.t[m].vis)
      BY <1>1, <1>5, <2>1, <3>1, <3>2
    <3>. QED  BY <1>5, <3>1, <3>3
  <2>2. CASE ~t[n].vis
    <3>1. x = Show(t, n)
      BY <2>2
    <3>2. ShowMakes(t, x, n)
      BY <1>1, <1>5, <3>1, ShowIs
    <3>. HIDE DEF x
    <3>3. /\ x \in Tree /\ NumsFrom(t, x, {})
          /\ \A m \in Nodes : /\ x[m].open = t[m].open /\ x[m].vis = (IF m = n THEN TRUE ELSE t[m].vis)
                              /\ x[m].dseq = t[m].dseq /\ x[m].nseq = t[m].nseq
                              /\ x[m].tseq = t[m].tseq \/ m \in Way[n]
      BY <3>2 DEF ShowMakes
    <3>4. NumsFrom(w.t, x, {k})
      BY <1>5, <3>3, NumsStep
    <3>5. \A m \in Nodes : w.t[m].vis \in BOOLEAN
      BY <1>2, Trees, Fields
    <3>6. \A m \in Nodes : x[m].vis = (m = n \/ w.t[m].vis)
      BY <1>5, <3>3, <3>5, ZenonT(40)
    <3>7. ASSUME NEW m \in Nodes
          PROVE  /\ x[m].open = w.t[m].open /\ x[m].nseq = w.t[m].nseq
                 /\ x[m].dseq = IF m = n THEN k ELSE w.t[m].dseq
                 /\ x[m].tseq = w.t[m].tseq \/ m \in Way[n]
      <4>1. x[m].open = t[m].open /\ x[m].nseq = t[m].nseq /\ x[m].dseq = t[m].dseq
            /\ (x[m].tseq = t[m].tseq \/ m \in Way[n])
        BY <3>3
      <4>2. t[m].open = w.t[m].open /\ t[m].nseq = w.t[m].nseq
            /\ t[m].dseq = (IF m = n THEN k ELSE w.t[m].dseq)
            /\ (t[m].tseq = w.t[m].tseq \/ m \in Way[n])
        BY <1>5
      <4>. QED  BY <4>1, <4>2
    <3>. QED  BY <3>3, <3>4, <3>6, <3>7
  <2>. QED  BY <2>1, <2>2
<1>7. same => x = t
  BY <1>1, <1>5
<1>. HIDE DEF x
<1>8. /\ r \in Record /\ r.t = x /\ r.treqs = w.treqs /\ r.dreqs = w.dreqs \ {n} /\ r.h = w.h
      /\ r.sync = (w.sync /\ same)
  <2>1. PICK X \in SUBSET Nodes, b \in BOOLEAN : X = w.dreqs \ {n} /\ b = (w.sync /\ same)
    BY <1>2, RecordIs
  <2>2. r = [w EXCEPT !.t = x, !.sync = b, !.dreqs = X]
    BY <1>3, <2>1
  <2>. HIDE DEF same
  <2>. QED  BY <1>2, <1>6, <2>1, <2>2 DEF Record
<1>9. Standing(x)
  <2>1. \A a \in Way[n] : w.t[a].open
    BY <1>1, <1>2, OpenWay
  <2>2. \A m \in Nodes \ Way[n] : x[m] = w.t[m]
    <3>. SUFFICES ASSUME NEW m \in Nodes \ Way[n] PROVE x[m] = w.t[m]
      OBVIOUS
    <3>1. m # n
      BY <1>1, WayFacts
    <3>2. x[m] \in Node /\ w.t[m] \in Node
      BY <1>2, <1>6, Trees
    <3>3. w.t[m].vis \in BOOLEAN
      BY <3>2, Fields
    <3>. QED  BY <1>6, <3>1, <3>2, <3>3, NodeEqual
  <2>3. x[Root].vis /\ x[n].open
    BY <1>1, <1>2, <1>6, Levels DEF Standing
  <2>4. \A m \in Nodes \ {n} : x[m].open = w.t[m].open
    BY <1>6
  <2>. QED  BY <1>1, <1>2, <1>6, <2>1, <2>2, <2>3, <2>4, StandingSame
<1>10. r \in Copy
  <2>1. \A m \in r.treqs \cup r.dreqs : m \in Nodes /\ r.t[m].open
    BY <1>2, <1>6, <1>8, RecordIs
  <2>. QED  BY <1>8, <1>9, <2>1 DEF Copy
<1>11. r.sync => /\ w.sync /\ w.t[n].vis /\ w.t[n].dseq = k
                 /\ \/ r.t[Root].tseq = w.t[Root].tseq
                    \/ w.t[Root].tseq <= k /\ r.t[Root].tseq = k
  <2>1. \/ t[Root].tseq = w.t[Root].tseq
        \/ w.t[Root].tseq <= k /\ t[Root].tseq = k
    BY <1>5, Levels
  <2>. QED  BY <1>7, <1>8, <2>1
<1>. HIDE DEF same, n, k
<1>. QED  BY <1>6, <1>8, <1>10, <1>11 DEF KnownMakes, n, k, r

LEMMA UnknownIs ==
  ASSUME NEW w \in Copy, NEW z \in Stanza, ~w.t[z.path].open, w.t[ParentOf(z.path)].open, z.path # Root
  PROVE  UnknownMakes(w, ReceiveData(w, z), z.path, z.num)
<1>. DEFINE n == z.path
            k == z.num
            t == NewChild(w.t, n, k)
            x == Show(t, n)
            r == ReceiveData(w, z)
<1>1. n \in Nodes /\ k \in Nat
  BY DEF Stanza
<1>2. w \in Record /\ Standing(w.t) /\ w.t \in Tree /\ \A m \in w.treqs \cup w.dreqs : w.t[m].open
  BY CopyIs
<1>3. Good(w.t, n) = ParentOf(n)
  BY <1>1, <1>2, GoodIs
<1>4. r = [w EXCEPT !.t = x, !.sync = FALSE, !.treqs = @ \cup {n}]
  BY <1>3 DEF ReceiveData
<1>5. NewChildMakes(w.t, t, n, k)
  BY <1>1, <1>2, NewChildIs
<1>. HIDE DEF r, t
<1>6. /\ t \in Tree /\ NumsFrom(w.t, t, {0, k})
      /\ t[n].open /\ ~t[n].vis /\ t[n].dseq = k /\ t[n].nseq = 0 /\ t[n].tseq = k
      /\ \A m \in Nodes \ {n} : /\ t[m].open = w.t[m].open /\ t[m].vis = w.t[m].vis
                                /\ t[m].dseq = w.t[m].dseq /\ t[m].nseq = w.t[m].nseq
                                /\ t[m].tseq = w.t[m].tseq \/ m \in Way[n]
  BY <1>5 DEF NewChildMakes
<1>7. ShowMakes(t, x, n)
  BY <1>1, <1>6, ShowIs
<1>. HIDE DEF x
<1>8. /\ x \in Tree /\ NumsFrom(t, x, {})
      /\ \A m \in Nodes : /\ x[m].open = t[m].open /\ x[m].vis = (IF m = n THEN TRUE ELSE t[m].vis)
                          /\ x[m].dseq = t[m].dseq /\ x[m].nseq = t[m].nseq
                          /\ x[m].tseq = t[m].tseq \/ m \in Way[n]
  BY <1>7 DEF ShowMakes
<1>9. w.t[n] = Absent
  BY <1>1, <1>2 DEF Standing
<1>10. \A m \in Nodes : w.t[m].vis \in BOOLEAN /\ w.t[m].open \in BOOLEAN /\ x[m].open \in BOOLEAN /\ x[m].vis \in BOOLEAN
  BY <1>2, <1>8, Trees, Fields
<1>11. \A m \in Nodes : /\ x[m].open = (m = n \/ w.t[m].open) /\ x[m].nseq = w.t[m].nseq
                        /\ x[m].vis = (m = n \/ w.t[m].vis)
                        /\ x[m].dseq = IF m = n THEN k ELSE w.t[m].dseq
  <2>. SUFFICES ASSUME NEW m \in Nodes
                PROVE  /\ x[m].open = (m = n \/ w.t[m].open) /\ x[m].nseq = w.t[m].nseq
                       /\ x[m].vis = (m = n \/ w.t[m].vis)
                       /\ x[m].dseq = IF m = n THEN k ELSE w.t[m].dseq
    OBVIOUS
  <2>1. CASE m = n
    <3>1. w.t[m].nseq = 0
      BY <1>9, <2>1, Trees
    <3>. QED  BY <1>1, <1>6, <1>8, <1>10, <2>1, <3>1
  <2>2. CASE m # n
    <3>1. x[m].open = t[m].open /\ x[m].nseq = t[m].nseq /\ x[m].dseq = t[m].dseq /\ x[m].vis = t[m].vis
      BY <1>8, <2>2
    <3>2. t[m].open = w.t[m].open /\ t[m].nseq = w.t[m].nseq /\ t[m].dseq = w.t[m].dseq /\ t[m].vis = w.t[m].vis
      BY <1>6, <2>2
    <3>. QED  BY <1>10, <2>2, <3>1, <3>2
  <2>. QED  BY <2>1, <2>2
<1>12. NumsFrom(w.t, x, {0, k})
  BY <1>6, <1>8, NumsStep
<1>13. /\ r \in Record /\ r.t = x /\ r.treqs = w.treqs \cup {n} /\ r.dreqs = w.dreqs /\ r.h = w.h /\ ~r.sync
  <2>1. PICK X \in SUBSET Nodes : X = w.treqs \cup {n}
    BY <1>1, <1>2, RecordIs
  <2>2. r = [w EXCEPT !.t = x, !.sync = FALSE, !.treqs = X]
    BY <1>4, <2>1
  <2>. QED  BY <1>2, <1>8, <2>1, <2>2 DEF Record
<1>14. Standing(x)
  <2>1. \A a \in Way[n] : a # n => w.t[a].open
    <3>1. ParentOf(n) \in Nodes /\ Way[n] = Way[ParentOf(n)] \cup {n}
      BY <1>1, WayFacts
    <3>. QED  BY <1>2, <3>1, OpenWay
  <2>2. \A m \in Nodes \ Way[n] : x[m] = w.t[m]
    <3>. SUFFICES ASSUME NEW m \in Nodes \ Way[n] PROVE x[m] = w.t[m]
      OBVIOUS
    <3>1. m # n
      BY <1>1, WayFacts
    <3>2. x[m] \in Node /\ w.t[m] \in Node
      BY <1>2, <1>8, Trees
    <3>3. x[m].open = t[m].open /\ x[m].nseq = t[m].nseq /\ x[m].dseq = t[m].dseq /\ x[m].vis = t[m].vis
          /\ x[m].tseq = t[m].tseq
      BY <1>8, <3>1
    <3>4. t[m].open = w.t[m].open /\ t[m].nseq = w.t[m].nseq /\ t[m].dseq = w.t[m].dseq /\ t[m].vis = w.t[m].vis
          /\ t[m].tseq = w.t[m].tseq
      BY <1>6, <3>1
    <3>. QED  BY <3>2, <3>3, <3>4, NodeEqual
  <2>3. x[Root].vis /\ x[n].open
    BY <1>1, <1>2, <1>11, Levels DEF Standing
  <2>4. \A m \in Nodes \ {n} : x[m].open = w.t[m].open
    BY <1>6, <1>8
  <2>. QED  BY <1>1, <1>2, <1>8, <2>1, <2>2, <2>3, <2>4, StandingSame
<1>15. r \in Copy
  <2>1. \A m \in r.treqs \cup r.dreqs : m \in Nodes /\ r.t[m].open
    BY <1>1, <1>2, <1>11, <1>13, RecordIs
  <2>. QED  BY <1>13, <1>14, <2>1 DEF Copy
<1>. HIDE DEF n, k
<1>. QED  BY <1>11, <1>12, <1>13, <1>15 DEF UnknownMakes, n, k, r

\* receive_data().
LEMMA DataIs ==
  ASSUME NEW w \in Copy, NEW z \in Stanza
  PROVE  DataMakes(w, ReceiveData(w, z), z.path, z.num)
<1>. DEFINE n == z.path
            r == ReceiveData(w, z)
            g == Good(w.t, n)
<1>1. n \in Nodes
  BY DEF Stanza
<1>2. w \in Record /\ Standing(w.t)
  BY CopyIs
<1>3. CASE w.t[n].open
  BY <1>3, KnownIs DEF DataMakes
<1>4. CASE ~w.t[n].open
  <2>1. n # Root
    BY <1>2, <1>4 DEF Standing
  <2>2. CASE w.t[ParentOf(n)].open
    BY <1>4, <2>1, <2>2, UnknownIs DEF DataMakes
  <2>3. CASE ~w.t[ParentOf(n)].open
    <3>1. g # ParentOf(n) /\ g \in Nodes /\ w.t[g].open
      BY <1>1, <1>2, <1>4, <2>1, <2>3, GoodIs
    <3>2. r = AskTree(w, g)
      BY <1>4, <3>1 DEF ReceiveData
    <3>. HIDE DEF g, r
    <3>3. Asks(w, r, {g}, {})
      BY <1>2, <3>1, <3>2, AskTreeIs
    <3>4. r \in Copy
      BY <3>1, <3>3, AsksCopy
    <3>. QED  BY <1>4, <2>1, <2>3, <3>1, <3>3, <3>4 DEF DataMakes, r
  <2>. QED  BY <2>2, <2>3
<1>. QED  BY <1>3, <1>4

\* A stanza leaves the proxy a copy that stands.
LEMMA ReceiveIs ==
  ASSUME NEW w \in Copy, NEW z \in Stanza
  PROVE  Receive(w, z) \in Copy /\ Receive(w, z).h = w.h
<1>. DEFINE r == Receive(w, z)
<1>1. CASE z.kind = "TREE"
  <2>1. r = ReceiveTree(w, z)
    BY <1>1 DEF Receive
  <2>2. CASE w.t[z.path].open
    <3>1. TreeMakes(w, ReceiveTree(w, z), z)
      BY <2>2, TreeIs
    <3>. QED  BY <2>1, <3>1 DEF TreeMakes
  <2>3. CASE ~w.t[z.path].open
    BY <2>1, <2>3 DEF ReceiveTree
  <2>. QED  BY <2>2, <2>3
<1>2. CASE z.kind # "TREE"
  <2>1. r = ReceiveData(w, z)
    BY <1>2 DEF Receive
  <2>. HIDE DEF r
  <2>2. DataMakes(w, r, z.path, z.num)
    BY <2>1, DataIs
  <2>3. r \in Copy
    BY <2>2 DEF DataMakes, KnownMakes, UnknownMakes
  <2>4. r.h = w.h
    BY <2>2 DEF DataMakes, KnownMakes, UnknownMakes, Asks
  <2>. QED  BY <2>3, <2>4 DEF r
<1>. QED  BY <1>1, <1>2

\* The steps of Received().
ReceivedSteps(F, w, body) ==
  /\ F \in [0..Len(body) -> Copy]
  /\ F[0] = w
  /\ \A i \in 1..Len(body) : F[i] = Receive(F[i - 1], body[i])
  /\ Received(w, body) = F[Len(body)]

LEMMA ReceivedFolds ==
  ASSUME NEW w, NEW body,
         Len(body) \in Nat, w \in Copy,
         \A i \in 1..Len(body), v \in Copy : Receive(v, body[i]) \in Copy
  PROVE  \E F : ReceivedSteps(F, w, body)
<1>. DEFINE b == w
            Step(v, i) == Receive(v, body[i])
            F == CHOOSE f : f = [i \in 0..Len(body) |->
                   IF i = 0 THEN w
                   ELSE Receive(f[i - 1], body[i])]
            g == [i \in 1..Len(body) |-> [v \in Copy |-> Step(v, i)]]
<1>1. PICK k \in Nat : k = Len(body)
  OBVIOUS
<1>2. b \in Copy /\ \A i \in 1..k, v \in Copy : Step(v, i) \in Copy
  BY <1>1
<1>3. Received(w, body) = F[Len(body)]
  BY DEF Received
<1>4. F = CHOOSE f : f = [i \in 0..k |-> IF i = 0 THEN b ELSE Step(f[i - 1], i)]
  BY <1>1
<1>5. g = [i \in 1..k |-> [v \in Copy |-> Step(v, i)]]
  BY <1>1
<1>6. \A f : f[0] = b => f[0] = w
  OBVIOUS
<1>7. \A f, i : f[i] = Step(f[i - 1], i) => f[i] = Receive(f[i - 1], body[i])
  OBVIOUS
<1>. HIDE DEF F, Step, b, g
<1>8. g \in [1..k -> [Copy -> Copy]] /\ \A i \in 1..k, v \in Copy : g[i][v] = Step(v, i)
  BY <1>2, <1>5
<1>9. PICK f : IsFold(f, k, Copy, b, g)
  BY <1>2, <1>8, FoldExists
<1>10. f \in [0..k -> Copy] /\ f[0] = b /\ \A i \in 1..k : f[i] = Step(f[i - 1], i)
  <2>1. \A i \in 1..k : i - 1 \in 0..k
    OBVIOUS
  <2>2. f \in [0..k -> Copy] /\ f[0] = b /\ \A i \in 1..k : f[i] = g[i][f[i - 1]]
    BY <1>9 DEF IsFold
  <2>. QED  BY <1>8, <2>1, <2>2
<1>11. f = [i \in 0..k |-> IF i = 0 THEN b ELSE Step(f[i - 1], i)]
  <2>1. \A i \in 0..k : i = 0 \/ i \in 1..k
    OBVIOUS
  <2>2. \A i \in 0..k : f[i] = IF i = 0 THEN b ELSE Step(f[i - 1], i)
    BY <1>10, <2>1
  <2>. QED  BY <1>10, <2>2
<1>12. F = [i \in 0..k |-> IF i = 0 THEN b ELSE Step(F[i - 1], i)]
  BY <1>4, <1>11
<1>13. F \in [0..k -> Copy] /\ F[0] = b /\ \A i \in 1..k : F[i] = Step(F[i - 1], i)
  <2>. DEFINE Q == {i \in 0..k : F[i] \in Copy}
  <2>1. F[0] = b /\ \A i \in 1..k : F[i] = Step(F[i - 1], i)
    BY <1>12
  <2>2. 0 \in Q
    BY <1>2, <2>1
  <2>3. \A i \in 1..k : i - 1 \in Q => i \in Q
    BY <1>2, <2>1
  <2>. HIDE DEF Q
  <2>4. \A i \in 0..k : i \in Q
    BY <2>2, <2>3, UpTo
  <2>5. \A i \in 0..k : F[i] \in Copy
    BY <2>4 DEF Q
  <2>. QED  BY <1>12, <2>1, <2>5
<1>14. F[0] = w
       /\ \A i \in 1..k : F[i] = Receive(F[i - 1], body[i])
  BY <1>6, <1>7, <1>13
<1>. QED  BY <1>1, <1>3, <1>13, <1>14 DEF ReceivedSteps

LEMMA ReceivedIs ==
  ASSUME NEW w \in Copy, NEW body \in Seq(Stanza)
  PROVE  \E F : /\ ReceivedSteps(F, w, body)
                /\ \A i \in 0..Len(body) : F[i] \in Copy /\ F[i].h = w.h
                /\ Received(w, body) = F[Len(body)] /\ Received(w, body) \in Copy
<1>. DEFINE N == Len(body)
<1>1. N \in Nat /\ \A i \in 1..N : body[i] \in Stanza
  OBVIOUS
<1>2. PICK F : ReceivedSteps(F, w, body)
  <2>1. \A i \in 1..N, v \in Copy : Receive(v, body[i]) \in Copy
    BY <1>1, ReceiveIs
  <2>. QED  BY <1>1, <2>1, ReceivedFolds
<1>3. /\ F \in [0..N -> Copy] /\ F[0] = w /\ Received(w, body) = F[N]
      /\ \A i \in 1..N : F[i] = Receive(F[i - 1], body[i])
  BY <1>2 DEF ReceivedSteps
<1>. DEFINE H == {i \in 0..N : F[i].h = w.h}
<1>4. 0 \in H
  BY <1>1, <1>3
<1>5. ASSUME NEW i \in 1..N, i - 1 \in H PROVE i \in H
  <2>1. F[i - 1] \in Copy /\ i \in 0..N /\ F[i - 1].h = w.h
    BY <1>1, <1>3, <1>5
  <2>2. Receive(F[i - 1], body[i]).h = F[i - 1].h
    BY <1>1, <2>1, ReceiveIs
  <2>. QED  BY <1>3, <2>1, <2>2
<1>6. \A i \in 0..N : i \in H
  <2>. HIDE DEF H
  <2>. QED  BY <1>1, <1>4, <1>5, UpTo
<1>7. F[N] \in Copy
  BY <1>1, <1>3
<1>. QED  BY <1>2, <1>3, <1>6, <1>7

-----------------------------------------------------------------------------
(* The proxy asks again, and compares the numbers of a header.              *)

\* The steps of Again().
AgainSteps(F, w) ==
  /\ F \in [0..Len(Among(Order, w.treqs \cup w.dreqs)) -> Record]
  /\ F[0] = w
  /\ \A i \in 1..Len(Among(Order, w.treqs \cup w.dreqs)) : F[i] = Repeat(F[i - 1], Among(Order, w.treqs \cup w.dreqs)[i])
  /\ Again(w) = F[Len(Among(Order, w.treqs \cup w.dreqs))]

LEMMA AgainFolds ==
  ASSUME NEW w,
         Len(Among(Order, w.treqs \cup w.dreqs)) \in Nat, w \in Record,
         \A i \in 1..Len(Among(Order, w.treqs \cup w.dreqs)), v \in Record : Repeat(v, Among(Order, w.treqs \cup w.dreqs)[i]) \in Record
  PROVE  \E F : AgainSteps(F, w)
<1>. DEFINE b == w
            Step(v, i) == Repeat(v, Among(Order, w.treqs \cup w.dreqs)[i])
            F == CHOOSE f : f = [i \in 0..Len(Among(Order, w.treqs \cup w.dreqs)) |->
                   IF i = 0 THEN w
                   ELSE Repeat(f[i - 1], Among(Order, w.treqs \cup w.dreqs)[i])]
            g == [i \in 1..Len(Among(Order, w.treqs \cup w.dreqs)) |-> [v \in Record |-> Step(v, i)]]
<1>1. PICK k \in Nat : k = Len(Among(Order, w.treqs \cup w.dreqs))
  OBVIOUS
<1>2. b \in Record /\ \A i \in 1..k, v \in Record : Step(v, i) \in Record
  BY <1>1
<1>3. Again(w) = F[Len(Among(Order, w.treqs \cup w.dreqs))]
  BY DEF Again
<1>4. F = CHOOSE f : f = [i \in 0..k |-> IF i = 0 THEN b ELSE Step(f[i - 1], i)]
  BY <1>1
<1>5. g = [i \in 1..k |-> [v \in Record |-> Step(v, i)]]
  BY <1>1
<1>6. \A f : f[0] = b => f[0] = w
  OBVIOUS
<1>7. \A f, i : f[i] = Step(f[i - 1], i) => f[i] = Repeat(f[i - 1], Among(Order, w.treqs \cup w.dreqs)[i])
  OBVIOUS
<1>. HIDE DEF F, Step, b, g
<1>8. g \in [1..k -> [Record -> Record]] /\ \A i \in 1..k, v \in Record : g[i][v] = Step(v, i)
  BY <1>2, <1>5
<1>9. PICK f : IsFold(f, k, Record, b, g)
  BY <1>2, <1>8, FoldExists
<1>10. f \in [0..k -> Record] /\ f[0] = b /\ \A i \in 1..k : f[i] = Step(f[i - 1], i)
  <2>1. \A i \in 1..k : i - 1 \in 0..k
    OBVIOUS
  <2>2. f \in [0..k -> Record] /\ f[0] = b /\ \A i \in 1..k : f[i] = g[i][f[i - 1]]
    BY <1>9 DEF IsFold
  <2>. QED  BY <1>8, <2>1, <2>2
<1>11. f = [i \in 0..k |-> IF i = 0 THEN b ELSE Step(f[i - 1], i)]
  <2>1. \A i \in 0..k : i = 0 \/ i \in 1..k
    OBVIOUS
  <2>2. \A i \in 0..k : f[i] = IF i = 0 THEN b ELSE Step(f[i - 1], i)
    BY <1>10, <2>1
  <2>. QED  BY <1>10, <2>2
<1>12. F = [i \in 0..k |-> IF i = 0 THEN b ELSE Step(F[i - 1], i)]
  BY <1>4, <1>11
<1>13. F \in [0..k -> Record] /\ F[0] = b /\ \A i \in 1..k : F[i] = Step(F[i - 1], i)
  <2>. DEFINE Q == {i \in 0..k : F[i] \in Record}
  <2>1. F[0] = b /\ \A i \in 1..k : F[i] = Step(F[i - 1], i)
    BY <1>12
  <2>2. 0 \in Q
    BY <1>2, <2>1
  <2>3. \A i \in 1..k : i - 1 \in Q => i \in Q
    BY <1>2, <2>1
  <2>. HIDE DEF Q
  <2>4. \A i \in 0..k : i \in Q
    BY <2>2, <2>3, UpTo
  <2>5. \A i \in 0..k : F[i] \in Record
    BY <2>4 DEF Q
  <2>. QED  BY <1>12, <2>1, <2>5
<1>14. F[0] = w
       /\ \A i \in 1..k : F[i] = Repeat(F[i - 1], Among(Order, w.treqs \cup w.dreqs)[i])
  BY <1>6, <1>7, <1>13
<1>. QED  BY <1>1, <1>3, <1>13, <1>14 DEF AgainSteps

LEMMA RepeatIs ==
  ASSUME NEW w \in Record, NEW n \in Nodes
  PROVE  Asks(w, Repeat(w, n), {}, {})
<1>. DEFINE a == IF n \in w.treqs THEN Say(w, "TREE_REQ", n) ELSE w
            b == IF n \in w.dreqs THEN Say(a, "DATA_REQ", n) ELSE a
<1>1. Asks(w, a, {}, {})
  BY SayIs, AsksNothing
<1>. HIDE DEF a
<1>2. a \in Record
  BY <1>1 DEF Asks
<1>3. Asks(a, b, {}, {})
  BY <1>2, SayIs, AsksNothing
<1>4. Repeat(w, n) = b
  BY DEF Repeat, a
<1>. HIDE DEF b
<1>5. Asks(w, b, {} \cup {}, {} \cup {})
  BY <1>1, <1>3, AsksBoth
<1>. QED  BY <1>4, <1>5

\* retransmit() marks nothing.
LEMMA AgainIs ==
  ASSUME NEW w \in Record
  PROVE  Asks(w, Again(w), {}, {})
<1>. DEFINE list == Among(Order, w.treqs \cup w.dreqs)
            N == Len(list)
<1>1. N \in Nat /\ \A i \in 1..N : list[i] \in Nodes
  <2>1. list \in Seq(Nodes \cap (w.treqs \cup w.dreqs))
    BY AmongOrder
  <2>. HIDE DEF list
  <2>. QED  BY <2>1
<1>2. PICK F : AgainSteps(F, w)
  <2>1. \A i \in 1..N, v \in Record : Repeat(v, list[i]) \in Record
    BY <1>1, RepeatIs DEF Asks
  <2>. QED  BY <1>1, <2>1, AgainFolds
<1>3. /\ F \in [0..N -> Record] /\ F[0] = w /\ Again(w) = F[N]
      /\ \A i \in 1..N : F[i] = Repeat(F[i - 1], list[i])
  BY <1>2 DEF AgainSteps
<1>. HIDE DEF list
<1>. DEFINE H == {i \in 0..N : Asks(w, F[i], {}, {})}
<1>4. 0 \in H
  BY <1>1, <1>3, AsksNothing
<1>5. ASSUME NEW i \in 1..N, i - 1 \in H PROVE i \in H
  <2>1. F[i - 1] \in Record /\ i \in 0..N /\ Asks(w, F[i - 1], {}, {})
    BY <1>1, <1>3, <1>5
  <2>2. Asks(F[i - 1], F[i], {}, {})
    BY <1>1, <1>3, <2>1, RepeatIs
  <2>3. Asks(w, F[i], {} \cup {}, {} \cup {})
    BY <2>1, <2>2, AsksBoth
  <2>4. Asks(w, F[i], {}, {})
    BY <2>3
  <2>. QED  BY <2>1, <2>4
<1>6. \A i \in 0..N : i \in H
  <2>. HIDE DEF H
  <2>. QED  BY <1>1, <1>4, <1>5, UpTo
<1>7. N \in H
  <2>. HIDE DEF H
  <2>. QED  BY <1>1, <1>6
<1>. QED  BY <1>3, <1>7

\* What check_sync() finds when the proxy is in sync.
Agreed(w) ==
  /\ w.treqs = {} /\ w.dreqs = {}
  /\ w.h.t = w.t[Root].tseq /\ w.h.n = w.t[Root].nseq /\ w.h.d = w.t[Root].dseq
  /\ w.h.s = w.t[Root].tseq

LEMMA CheckSyncIs ==
  ASSUME NEW w \in Copy, NEW rt \in BOOLEAN
  PROVE  LET r == CheckSync(w, rt) IN
         /\ r \in Copy /\ r.t = w.t
         /\ Agreed(w) => /\ r.treqs = {} /\ r.dreqs = {} /\ r.h = [w.h EXCEPT !.g = w.h.t] /\ r.sync
         /\ ~Agreed(w) => \E X, Y \in SUBSET {Root} : Asks(w, r, X, Y)
<1>. DEFINE root == w.t[Root]
            r == CheckSync(w, rt)
<1>1. w \in Record /\ Standing(w.t) /\ w.h \in Heads /\ root.open
  BY CopyIs, RecordIs DEF Standing
<1>2. CASE Agreed(w)
  <2>1. PICK h \in Heads : h = [w.h EXCEPT !.g = w.h.t]
    BY <1>1 DEF Heads
  <2>2. r = [w EXCEPT !.h.g = w.h.t, !.sync = TRUE]
    BY <1>2 DEF CheckSync, Agreed
  <2>3. r = [w EXCEPT !.h = h, !.sync = TRUE]
    BY <1>1, <2>1, <2>2 DEF Record, Heads
  <2>. HIDE DEF r
  <2>4. /\ r \in Record /\ r.t = w.t /\ r.treqs = w.treqs /\ r.dreqs = w.dreqs /\ r.h = h /\ r.sync
    BY <1>1, <2>3 DEF Record
  <2>5. r \in Copy
    BY <2>4, CopyIs DEF Copy
  <2>. QED  BY <1>2, <2>1, <2>4, <2>5 DEF Agreed, r
<1>3. CASE ~Agreed(w)
  <2>1. \E X, Y \in SUBSET {Root} : Asks(w, r, X, Y)
    <3>1. CASE w.treqs \cup w.dreqs # {}
      <4>1. r = w
        BY <3>1 DEF CheckSync
      <4>. QED  BY <1>1, <4>1, AsksNothing
    <3>2. CASE w.treqs \cup w.dreqs = {}
      <4>. DEFINE a == IF rt /\ (w.h.t # root.tseq \/ w.h.n # root.nseq) THEN AskTree(w, Root) ELSE w
                  b == IF rt /\ w.h.d # root.dseq THEN AskData(a, Root) ELSE a
      <4>1. ~(w.h.t = root.tseq /\ w.h.n = root.nseq /\ w.h.d = root.dseq /\ w.h.s = root.tseq)
        BY <1>3, <3>2 DEF Agreed
      <4>2. r = b
        BY <3>2, <4>1 DEF CheckSync
      <4>3. Root \in Nodes
        BY Levels
      <4>4. \E X \in SUBSET {Root} : Asks(w, a, X, {})
        BY <1>1, <4>3, AskTreeIs, AsksNothing
      <4>. HIDE DEF a
      <4>5. PICK X \in SUBSET {Root} : Asks(w, a, X, {})
        BY <4>4
      <4>6. a \in Record
        BY <4>5 DEF Asks
      <4>7. \E Y \in SUBSET {Root} : Asks(a, b, {}, Y)
        BY <4>3, <4>6, AskDataIs, AsksNothing
      <4>8. PICK Y \in SUBSET {Root} : Asks(a, b, {}, Y)
        BY <4>7
      <4>. HIDE DEF b
      <4>9. Asks(w, b, X \cup {}, {} \cup Y)
        BY <4>5, <4>8, AsksBoth
      <4>10. X \cup {} = X /\ {} \cup Y = Y
        OBVIOUS
      <4>11. Asks(w, b, X, Y)
        BY <4>9, <4>10
      <4>. QED  BY <4>2, <4>11
    <3>. QED  BY <3>1, <3>2
  <2>2. PICK X, Y \in SUBSET {Root} : Asks(w, r, X, Y)
    BY <2>1
  <2>. HIDE DEF r
  <2>3. \A n \in X \cup Y : w.t[n].open
    BY <1>1
  <2>4. r \in Copy
    BY <2>2, <2>3, AsksCopy
  <2>. QED  BY <1>3, <2>2, <2>4 DEF Asks, r
<1>. QED  BY <1>2, <1>3

LEMMA HeadSet ==
  ASSUME NEW w \in Copy, NEW h \in Heads
  PROVE  LET u == [w EXCEPT !.h = h] IN
         u \in Copy /\ u.t = w.t /\ u.treqs = w.treqs /\ u.dreqs = w.dreqs /\ u.sync = w.sync /\ u.h = h
<1>. DEFINE u == [w EXCEPT !.h = h]
<1>1. w \in Record
  BY CopyIs
<1>2. u \in Record /\ u.t = w.t /\ u.treqs = w.treqs /\ u.dreqs = w.dreqs /\ u.sync = w.sync /\ u.h = h
  BY <1>1 DEF Record
<1>. HIDE DEF u
<1>3. u \in Copy
  BY <1>2, CopyIs DEF Copy
<1>. QED  BY <1>2, <1>3 DEF u

Packets == [cookie : Nat, s : Nat, d : Nat, n : Nat, t : Nat, l : Nat, body : Seq(Stanza)]

\* What the end of buffer_receive_slow() makes of a copy.
Headed(w, r, p) ==
  /\ r \in Copy /\ r.t = w.t
  /\ r.h.s = p.s /\ r.h.d = p.d /\ r.h.n = p.n /\ r.h.t = p.t /\ r.h.l = p.t
  /\ p.l # w.h.l => /\ r.h.g = w.h.g /\ r.treqs = w.treqs \cup {Root} /\ r.dreqs = w.dreqs
                    /\ r.sync = w.sync
  /\ p.l = w.h.l =>
       \/ /\ w.treqs = {} /\ w.dreqs = {} /\ r.treqs = {} /\ r.dreqs = {}
          /\ p.t = w.t[Root].tseq /\ p.n = w.t[Root].nseq /\ p.d = w.t[Root].dseq /\ p.s = w.t[Root].tseq
          /\ r.h.g = p.t
       \/ /\ \E X, Y \in SUBSET {Root} : r.treqs = w.treqs \cup X /\ r.dreqs = w.dreqs \cup Y
          /\ r.h.g = (IF p.l = w.h.g THEN p.t ELSE w.h.g)
          /\ r.sync = w.sync

LEMMA HeadingIs ==
  ASSUME NEW w \in Copy, NEW p \in Packets
  PROVE  Headed(w, Heading(w, p), p)
<1>1. PICK H \in Heads : H = w.h
  BY CopyIs, RecordIs
<1>. DEFINE h == [H EXCEPT !.s = p.s, !.d = p.d, !.n = p.n, !.t = p.t]
            gg == IF p.l = H.g THEN p.t ELSE H.g
            h2 == [h EXCEPT !.g = gg]
            r == Heading(w, p)
<1>2. p.s \in Nat /\ p.d \in Nat /\ p.n \in Nat /\ p.t \in Nat /\ p.l \in Nat
  BY DEF Packets
<1>3. /\ h \in Heads /\ h.s = p.s /\ h.d = p.d /\ h.n = p.n /\ h.t = p.t /\ h.g = H.g /\ h.l = H.l
      /\ H.l \in Nat /\ H.g \in Nat
  BY <1>2 DEF Heads
<1>4. /\ h2 \in Heads /\ h2.s = p.s /\ h2.d = p.d /\ h2.n = p.n /\ h2.t = p.t /\ h2.g = gg /\ h2.l = H.l
  BY <1>2, <1>3 DEF Heads
<1>5. ASSUME NEW a \in Copy, r = [a EXCEPT !.h.l = p.t]
      PROVE  /\ r \in Copy /\ r.t = a.t /\ r.treqs = a.treqs /\ r.dreqs = a.dreqs /\ r.sync = a.sync
             /\ r.h.s = a.h.s /\ r.h.d = a.h.d /\ r.h.n = a.h.n /\ r.h.t = a.h.t /\ r.h.g = a.h.g
             /\ r.h.l = p.t
  <2>1. a \in Record
    BY CopyIs
  <2>2. PICK e \in Heads : e = [a.h EXCEPT !.l = p.t]
    BY <1>2, <2>1, RecordIs DEF Heads
  <2>3. /\ e.s = a.h.s /\ e.d = a.h.d /\ e.n = a.h.n /\ e.t = a.h.t /\ e.g = a.h.g /\ e.l = p.t
    BY <2>1, <2>2, RecordIs DEF Heads
  <2>4. r = [a EXCEPT !.h = e]
    BY <1>5, <2>2
  <2>. HIDE DEF r
  <2>5. r \in Copy /\ r.t = a.t /\ r.treqs = a.treqs /\ r.dreqs = a.dreqs /\ r.sync = a.sync /\ r.h = e
    BY <2>4, HeadSet
  <2>. QED  BY <2>3, <2>5
<1>. DEFINE f == [w.h EXCEPT !.s = p.s, !.d = p.d, !.n = p.n, !.t = p.t]
<1>6. f = h
  BY <1>1
<1>7. w.t[Root].open /\ w \in Record
  BY CopyIs DEF Standing
<1>8. CASE p.l # H.l
  <2>. DEFINE u == [w EXCEPT !.h = h]
              a == AskTree(u, Root)
  <2>1. r = [a EXCEPT !.h.l = p.t]
    <3>1. r = [AskTree([w EXCEPT !.h = f], Root) EXCEPT !.h.l = p.t]
      BY <1>1, <1>3, <1>6, <1>8 DEF Heading
    <3>. QED  BY <1>6, <3>1
  <2>. HIDE DEF h
  <2>2. u \in Copy /\ u.t = w.t /\ u.treqs = w.treqs /\ u.dreqs = w.dreqs /\ u.sync = w.sync /\ u.h = h
    BY <1>3, HeadSet
  <2>. HIDE DEF u
  <2>3. Asks(u, a, {Root}, {})
    BY <2>2, CopyIs, AskTreeIs, Levels
  <2>. HIDE DEF a
  <2>4. a \in Copy
    BY <1>7, <2>2, <2>3, AsksCopy
  <2>5. /\ a.t = w.t /\ a.treqs = w.treqs \cup {Root} /\ a.dreqs = w.dreqs /\ a.sync = w.sync /\ a.h = h
    BY <2>2, <2>3 DEF Asks
  <2>. HIDE DEF r
  <2>6. /\ r \in Copy /\ r.t = a.t /\ r.treqs = a.treqs /\ r.dreqs = a.dreqs /\ r.sync = a.sync
        /\ r.h.s = h.s /\ r.h.d = h.d /\ r.h.n = h.n /\ r.h.t = h.t /\ r.h.g = h.g
        /\ r.h.l = p.t
    BY <1>5, <2>1, <2>4, <2>5
  <2>7. w.h.l # p.l
    BY <1>1, <1>8
  <2>8. r.h.g = w.h.g
    BY <1>1, <1>3, <2>6
  <2>. QED  BY <1>3, <2>5, <2>6, <2>7, <2>8 DEF Headed, r
<1>9. CASE p.l = H.l
  <2>. DEFINE u == [w EXCEPT !.h = h2]
              a == CheckSync(u, FALSE)
  <2>1. r = [a EXCEPT !.h.l = p.t]
    <3>1. f.l = H.l
      BY <1>3, <1>6
    <3>2. r = [CheckSync([w EXCEPT !.h = [f EXCEPT !.g = IF p.l = @ THEN p.t ELSE @]], FALSE) EXCEPT !.h.l = p.t]
      BY <1>9, <3>1 DEF Heading
    <3>3. [f EXCEPT !.g = IF p.l = @ THEN p.t ELSE @] = h2
      BY <1>3, <1>6
    <3>. QED  BY <3>2, <3>3
  <2>. HIDE DEF h2
  <2>2. u \in Copy /\ u.t = w.t /\ u.treqs = w.treqs /\ u.dreqs = w.dreqs /\ u.sync = w.sync /\ u.h = h2
    BY <1>4, HeadSet
  <2>. HIDE DEF u
  <2>3. /\ a \in Copy /\ a.t = u.t
        /\ Agreed(u) => /\ a.treqs = {} /\ a.dreqs = {} /\ a.h = [u.h EXCEPT !.g = u.h.t] /\ a.sync
        /\ ~Agreed(u) => \E X, Y \in SUBSET {Root} : Asks(u, a, X, Y)
    BY <2>2, CheckSyncIs
  <2>. HIDE DEF a, r
  <2>4. /\ r \in Copy /\ r.t = a.t /\ r.treqs = a.treqs /\ r.dreqs = a.dreqs /\ r.sync = a.sync
        /\ r.h.s = a.h.s /\ r.h.d = a.h.d /\ r.h.n = a.h.n /\ r.h.t = a.h.t /\ r.h.g = a.h.g
        /\ r.h.l = p.t
    BY <1>5, <2>1, <2>3
  <2>5. /\ a.h.s = p.s /\ a.h.d = p.d /\ a.h.n = p.n /\ a.h.t = p.t
        /\ \/ /\ w.treqs = {} /\ w.dreqs = {} /\ a.treqs = {} /\ a.dreqs = {}
              /\ p.t = w.t[Root].tseq /\ p.n = w.t[Root].nseq /\ p.d = w.t[Root].dseq /\ p.s = w.t[Root].tseq
              /\ a.h.g = p.t
           \/ /\ \E X, Y \in SUBSET {Root} : a.treqs = w.treqs \cup X /\ a.dreqs = w.dreqs \cup Y
              /\ a.h.g = gg
              /\ a.sync = w.sync
    <3>1. CASE Agreed(u)
      <4>1. a.treqs = {} /\ a.dreqs = {} /\ a.h = [h2 EXCEPT !.g = p.t]
        BY <1>4, <2>2, <2>3, <3>1
      <4>2. a.h.s = p.s /\ a.h.d = p.d /\ a.h.n = p.n /\ a.h.t = p.t /\ a.h.g = p.t
        BY <1>4, <4>1 DEF Heads
      <4>3. /\ w.treqs = {} /\ w.dreqs = {}
            /\ p.t = w.t[Root].tseq /\ p.n = w.t[Root].nseq /\ p.d = w.t[Root].dseq /\ p.s = w.t[Root].tseq
        BY <1>4, <2>2, <3>1 DEF Agreed
      <4>. QED  BY <4>1, <4>2, <4>3
    <3>2. CASE ~Agreed(u)
      <4>1. PICK X, Y \in SUBSET {Root} : Asks(u, a, X, Y)
        BY <2>3, <3>2
      <4>2. a.h = h2 /\ a.sync = w.sync /\ a.treqs = w.treqs \cup X /\ a.dreqs = w.dreqs \cup Y
        BY <2>2, <4>1 DEF Asks
      <4>. HIDE DEF gg
      <4>. QED  BY <1>4, <4>2
    <3>. QED  BY <3>1, <3>2
  <2>6. gg = (IF p.l = w.h.g THEN p.t ELSE w.h.g) /\ p.l = w.h.l
    BY <1>1, <1>9
  <2>. HIDE DEF gg
  <2>. QED  BY <2>2, <2>3, <2>4, <2>5, <2>6 DEF Headed, r
<1>. QED  BY <1>8, <1>9

-----------------------------------------------------------------------------
(* What the server sends.                                                   *)

\* Stanzas of the tree as it is.
Telling(t) == {s \in Seq(Stanza) : \A i \in 1..Len(s) :
                 \E n \in Nodes : t[n].open /\ s[i] \in {TreeEvt(t, n), DataEvt(t, n)}}

\* The steps of Answers().
AnswersSteps(F, t, requests) ==
  /\ F \in [0..Len(requests) -> Telling(t)]
  /\ F[0] = <<>>
  /\ \A i \in 1..Len(requests) : F[i] = F[i - 1] \o Answer(t, requests[i])
  /\ Answers(t, requests) = F[Len(requests)]

LEMMA AnswersFolds ==
  ASSUME NEW t, NEW requests,
         Len(requests) \in Nat, <<>> \in Telling(t),
         \A i \in 1..Len(requests), v \in Telling(t) : v \o Answer(t, requests[i]) \in Telling(t)
  PROVE  \E F : AnswersSteps(F, t, requests)
<1>. DEFINE b == <<>>
            Step(v, i) == v \o Answer(t, requests[i])
            F == CHOOSE f : f = [i \in 0..Len(requests) |->
                   IF i = 0 THEN <<>>
                   ELSE f[i - 1] \o Answer(t, requests[i])]
            g == [i \in 1..Len(requests) |-> [v \in Telling(t) |-> Step(v, i)]]
<1>1. PICK k \in Nat : k = Len(requests)
  OBVIOUS
<1>2. b \in Telling(t) /\ \A i \in 1..k, v \in Telling(t) : Step(v, i) \in Telling(t)
  BY <1>1
<1>3. Answers(t, requests) = F[Len(requests)]
  BY DEF Answers
<1>4. F = CHOOSE f : f = [i \in 0..k |-> IF i = 0 THEN b ELSE Step(f[i - 1], i)]
  BY <1>1
<1>5. g = [i \in 1..k |-> [v \in Telling(t) |-> Step(v, i)]]
  BY <1>1
<1>6. \A f : f[0] = b => f[0] = <<>>
  OBVIOUS
<1>7. \A f, i : f[i] = Step(f[i - 1], i) => f[i] = f[i - 1] \o Answer(t, requests[i])
  OBVIOUS
<1>. HIDE DEF F, Step, b, g
<1>8. g \in [1..k -> [Telling(t) -> Telling(t)]] /\ \A i \in 1..k, v \in Telling(t) : g[i][v] = Step(v, i)
  BY <1>2, <1>5
<1>9. PICK f : IsFold(f, k, Telling(t), b, g)
  BY <1>2, <1>8, FoldExists
<1>10. f \in [0..k -> Telling(t)] /\ f[0] = b /\ \A i \in 1..k : f[i] = Step(f[i - 1], i)
  <2>1. \A i \in 1..k : i - 1 \in 0..k
    OBVIOUS
  <2>2. f \in [0..k -> Telling(t)] /\ f[0] = b /\ \A i \in 1..k : f[i] = g[i][f[i - 1]]
    BY <1>9 DEF IsFold
  <2>. QED  BY <1>8, <2>1, <2>2
<1>11. f = [i \in 0..k |-> IF i = 0 THEN b ELSE Step(f[i - 1], i)]
  <2>1. \A i \in 0..k : i = 0 \/ i \in 1..k
    OBVIOUS
  <2>2. \A i \in 0..k : f[i] = IF i = 0 THEN b ELSE Step(f[i - 1], i)
    BY <1>10, <2>1
  <2>. QED  BY <1>10, <2>2
<1>12. F = [i \in 0..k |-> IF i = 0 THEN b ELSE Step(F[i - 1], i)]
  BY <1>4, <1>11
<1>13. F \in [0..k -> Telling(t)] /\ F[0] = b /\ \A i \in 1..k : F[i] = Step(F[i - 1], i)
  <2>. DEFINE Q == {i \in 0..k : F[i] \in Telling(t)}
  <2>1. F[0] = b /\ \A i \in 1..k : F[i] = Step(F[i - 1], i)
    BY <1>12
  <2>2. 0 \in Q
    BY <1>2, <2>1
  <2>3. \A i \in 1..k : i - 1 \in Q => i \in Q
    BY <1>2, <2>1
  <2>. HIDE DEF Q
  <2>4. \A i \in 0..k : i \in Q
    BY <2>2, <2>3, UpTo
  <2>5. \A i \in 0..k : F[i] \in Telling(t)
    BY <2>4 DEF Q
  <2>. QED  BY <1>12, <2>1, <2>5
<1>14. F[0] = <<>>
       /\ \A i \in 1..k : F[i] = F[i - 1] \o Answer(t, requests[i])
  BY <1>6, <1>7, <1>13
<1>. QED  BY <1>1, <1>3, <1>13, <1>14 DEF AnswersSteps

LEMMA TellingBoth ==
  ASSUME NEW t, NEW a \in Telling(t), NEW b \in Telling(t)
  PROVE  a \o b \in Telling(t)
<1>1. a \in Seq(Stanza) /\ b \in Seq(Stanza)
  BY DEF Telling
<1>2. a \o b \in Seq(Stanza) /\ Len(a \o b) = Len(a) + Len(b)
      /\ \A i \in 1..Len(a \o b) : \/ i \in 1..Len(a) /\ (a \o b)[i] = a[i]
                                   \/ i - Len(a) \in 1..Len(b) /\ (a \o b)[i] = b[i - Len(a)]
  BY <1>1
<1>3. \A i \in 1..Len(a \o b) :
        \E n \in Nodes : t[n].open /\ (a \o b)[i] \in {TreeEvt(t, n), DataEvt(t, n)}
  BY <1>2 DEF Telling
<1>. QED  BY <1>2, <1>3 DEF Telling

LEMMA TellingOne ==
  ASSUME NEW t \in Tree, NEW n \in Nodes, t[n].open
  PROVE  <<TreeEvt(t, n)>> \in Telling(t) /\ <<DataEvt(t, n)>> \in Telling(t) /\ <<>> \in Telling(t)
<1>1. PICK a \in Stanza, b \in Stanza : a = TreeEvt(t, n) /\ b = DataEvt(t, n)
  BY TreeEvtIs, DataEvtIs
<1>2. <<a>> \in Seq(Stanza) /\ <<b>> \in Seq(Stanza) /\ <<>> \in Seq(Stanza)
      /\ Len(<<a>>) = 1 /\ Len(<<b>>) = 1 /\ Len(<<>>) = 0 /\ <<a>>[1] = a /\ <<b>>[1] = b
  OBVIOUS
<1>3. \A i \in 1..Len(<<a>>) : i = 1
  BY <1>2
<1>4. \A i \in 1..Len(<<b>>) : i = 1
  BY <1>2
<1>5. <<a>> \in Telling(t)
  BY <1>1, <1>2, <1>3 DEF Telling
<1>6. <<b>> \in Telling(t)
  BY <1>1, <1>2, <1>4 DEF Telling
<1>7. <<>> \in Telling(t)
  BY <1>2 DEF Telling
<1>. QED  BY <1>1, <1>5, <1>6, <1>7

\* A server that is there answers with what its tree has.
LEMMA AnswersIs ==
  ASSUME NEW t, Standing(t), NEW requests \in Seq(Requests)
  PROVE  Answers(t, requests) \in Telling(t)
<1>1. t \in Tree /\ t[Root].open /\ Root \in Nodes
  BY Levels DEF Standing
<1>2. Len(requests) \in Nat /\ \A i \in 1..Len(requests) : requests[i] \in Requests
  OBVIOUS
<1>3. <<>> \in Telling(t)
  BY <1>1, TellingOne
<1>4. ASSUME NEW r \in Requests PROVE Answer(t, r) \in Telling(t)
  <2>1. r.path \in Nodes
    BY DEF Requests
  <2>2. CASE ~t[r.path].open
    <3>1. Answer(t, r) = <<TreeEvt(t, Good(t, r.path))>>
      BY <2>2 DEF Answer
    <3>2. Good(t, r.path) \in Nodes /\ t[Good(t, r.path)].open
      BY <2>1, GoodIs
    <3>. QED  BY <1>1, <3>1, <3>2, TellingOne
  <2>3. CASE t[r.path].open
    <3>1. Answer(t, r) \in {<<TreeEvt(t, r.path)>>, <<DataEvt(t, r.path)>>, <<>>}
      BY <2>3 DEF Answer
    <3>. QED  BY <1>1, <2>1, <2>3, <3>1, TellingOne
  <2>. QED  BY <2>2, <2>3
<1>5. \A i \in 1..Len(requests), v \in Telling(t) : v \o Answer(t, requests[i]) \in Telling(t)
  BY <1>2, <1>4, TellingBoth
<1>6. PICK F : AnswersSteps(F, t, requests)
  BY <1>2, <1>3, <1>5, AnswersFolds
<1>. QED  BY <1>2, <1>6 DEF AnswersSteps

LEMMA PacketIs ==
  ASSUME NEW t \in Tree, NEW s \in Nat, NEW body \in Seq(Stanza), NEW l \in Nat, cookie \in Nat
  PROVE  LET q == Packet(t, s, body, l) IN
         /\ q \in Packets /\ q.cookie = cookie /\ q.body = body /\ q.s = s /\ q.l = l
         /\ q.t = t[Root].tseq /\ q.d = t[Root].dseq /\ q.n = t[Root].nseq
<1>1. PICK d, k, m \in Nat : d = t[Root].dseq /\ k = t[Root].nseq /\ m = t[Root].tseq
  BY Trees, Fields, Levels
<1>2. Packet(t, s, body, l) = [cookie |-> cookie, s |-> s, d |-> d, n |-> k, t |-> m, l |-> l, body |-> body]
  BY <1>1 DEF Packet
<1>. QED  BY <1>1, <1>2 DEF Packets

-----------------------------------------------------------------------------
(* The first invariant: both trees stand, and what is sent has its type.    *)

NoTree == [n \in Nodes |-> Absent]

ServerInv ==
  /\ {cookie, sequence, syncseq, oldtseq} \subseteq Nat /\ {up, insync, passive} \subseteq BOOLEAN
  /\ tree \in Tree /\ out \in Seq(Stanza)
  /\ up => Served(tree, sequence) /\ sequence > 0
  /\ ~up => tree = NoTree /\ sequence = 0

ProxyInv ==
  /\ {pcookie, ptick} \subseteq Nat /\ pup \in BOOLEAN
  /\ Working \in Record
  /\ pup => Working \in Copy
  /\ ~pup => ptree = NoTree /\ treqs = {} /\ dreqs = {}

NetInv == toServer \in Seq(Seq(Requests)) /\ toProxy \in Seq(Packets) /\ hidden \in BOOLEAN

ShapeInv == ServerInv /\ ProxyInv /\ NetInv

LEMMA NoTreeIs ==
  NoTree \in Tree /\ \A n \in Nodes : NoTree[n] = Absent
  BY Trees DEF NoTree

LEMMA WorkingIs ==
  /\ Working.t = ptree /\ Working.treqs = treqs /\ Working.dreqs = dreqs
  /\ Working.sync = psync /\ Working.h = head /\ Working.sent = <<>>
  BY DEF Working

LEMMA ProxyInvSame ==
  ASSUME ProxyInv, UNCHANGED proxyVars
  PROVE  ProxyInv'
  BY DEF ProxyInv, proxyVars, Working

\* buffer_transmit_slow().
LEMMA TransmitIs ==
  ASSUME ServerInv, NetInv, NEW t \in Tree, NEW s \in Nat, NEW z \in Seq(Stanza), NEW full \in BOOLEAN,
         Transmit(t, s, z, full)
  PROVE  out' \in Seq(Stanza) /\ oldtseq' \in Nat /\ toProxy' \in Seq(Packets) /\ hidden' \in BOOLEAN
<1>1. /\ out \in Seq(Stanza) /\ oldtseq \in Nat /\ cookie \in Nat /\ passive \in BOOLEAN
      /\ toProxy \in Seq(Packets) /\ hidden \in BOOLEAN
  BY DEF ServerInv, NetInv
<1>2. hidden' \in BOOLEAN
  BY <1>1 DEF Transmit
<1>3. PICK q \in Packets : q = Packet(t, s, out, oldtseq)
  BY <1>1, PacketIs
<1>4. t[Root].tseq \in Nat
  BY Trees, Fields, Levels
<1>5. CASE passive \/ z = <<>>
  BY <1>1, <1>2, <1>5 DEF Transmit
<1>6. CASE ~(passive \/ z = <<>>) /\ full /\ out # <<>>
  <2>1. toProxy' = Append(toProxy, q) /\ oldtseq' = t[Root].tseq /\ out' = z
    BY <1>3, <1>6 DEF Transmit
  <2>. QED  BY <1>1, <1>2, <1>4, <2>1
<1>7. CASE ~(passive \/ z = <<>>) /\ ~(full /\ out # <<>>)
  <2>1. out' = out \o z /\ oldtseq' = oldtseq /\ toProxy' = toProxy
    BY <1>7 DEF Transmit
  <2>. QED  BY <1>1, <1>2, <2>1
<1>. QED  BY <1>5, <1>6, <1>7

\* A change of the server's tree.
LEMMA OperationShape ==
  ASSUME ShapeInv, NEW t \in Tree, NEW z \in Seq(Stanza), NEW full \in BOOLEAN,
         Transmit(t, syncseq, z, full), Operation, sameServer,
         Served(tree', sequence'), sequence' > 0
  PROVE  ShapeInv'
<1>1. ServerInv /\ ProxyInv /\ NetInv
  BY DEF ShapeInv
<1>2. UNCHANGED <<cookie, up, syncseq, passive, proxyVars, toServer>> /\ insync' = FALSE /\ up
  BY DEF Operation, sameServer
<1>3. syncseq \in Nat
  BY <1>1 DEF ServerInv
<1>4. out' \in Seq(Stanza) /\ oldtseq' \in Nat /\ toProxy' \in Seq(Packets) /\ hidden' \in BOOLEAN
  BY <1>1, <1>3, TransmitIs
<1>5. tree' \in Tree /\ sequence' \in Nat
  BY DEF Served, Standing
<1>6. ServerInv'
  BY <1>1, <1>2, <1>4, <1>5 DEF ServerInv
<1>7. ProxyInv'
  BY <1>1, <1>2, ProxyInvSame
<1>8. NetInv'
  BY <1>1, <1>2, <1>4 DEF NetInv
<1>. QED  BY <1>6, <1>7, <1>8 DEF ShapeInv

\* What api_child_add() does to the tree, and says.
LEMMA ChildAddIs ==
  ASSUME ServerInv, NEW n \in Nodes, ChildAdd(n)
  PROVE  LET t == Added(tree, n, sequence) IN
         /\ n # Root /\ ~tree[n].open /\ tree[ParentOf(n)].open /\ Served(tree, sequence) /\ sequence \in Nat
         /\ Grown(tree, t[1], n, sequence + 1, sequence + 2)
         /\ Grown(tree, t[2], n, sequence + 1, sequence + 3)
         /\ tree' = t[2] /\ sequence' = sequence + 3
         /\ Served(t[1], sequence + 2) /\ Served(t[2], sequence + 3)
<1>1. /\ n # Root /\ ~tree[n].open /\ tree[ParentOf(n)].open /\ up
      /\ tree' = Added(tree, n, sequence)[2] /\ sequence' = sequence + 3
  BY DEF ChildAdd, Operation
<1>2. Served(tree, sequence) /\ sequence \in Nat /\ tree \in Tree /\ Bounded(tree, sequence)
  BY <1>1, ServedBounded DEF ServerInv
<1>3. /\ Grown(tree, Added(tree, n, sequence)[1], n, sequence + 1, sequence + 2)
      /\ Grown(tree, Added(tree, n, sequence)[2], n, sequence + 1, sequence + 3)
  BY <1>1, <1>2, AddedTree
<1>4. PICK a, b, c \in Nat : a = sequence + 1 /\ b = sequence + 2 /\ c = sequence + 3
                             /\ a > sequence /\ b > a /\ c > a
  BY <1>2
<1>5. /\ Served(Added(tree, n, sequence)[1], b)
      /\ Served(Added(tree, n, sequence)[2], c)
  BY <1>1, <1>2, <1>3, <1>4, ServedGrown
<1>. QED  BY <1>1, <1>2, <1>3, <1>4, <1>5

\* api_changed().
LEMMA ChangedIs ==
  ASSUME ServerInv, NEW n \in Nodes, Changed(n)
  PROVE  /\ tree[n].open /\ Served(tree, sequence) /\ sequence \in Nat
         /\ Valued(tree, tree', n, sequence + 1) /\ sequence' = sequence + 1
         /\ Served(tree', sequence + 1)
<1>1. tree[n].open /\ up /\ sequence' = sequence + 1 /\ tree' = Change(tree, n, sequence + 1)
  BY DEF Changed, Operation
<1>2. Served(tree, sequence) /\ sequence \in Nat /\ tree \in Tree /\ Bounded(tree, sequence)
  BY <1>1, ServedBounded DEF ServerInv
<1>3. Valued(tree, tree', n, sequence + 1)
  BY <1>1, <1>2, ChangedTree
<1>4. PICK a \in Nat : a = sequence + 1 /\ a > sequence
  BY <1>2
<1>5. Served(tree', a)
  BY <1>1, <1>2, <1>3, <1>4, ServedValued
<1>. QED  BY <1>1, <1>2, <1>3, <1>4, <1>5

LEMMA ClosingIs ==
  ASSUME ServerInv, up
  PROVE  /\ Closing \in Work /\ Closing.sent = <<>> /\ Closing.tree = tree /\ Closing.seq = sequence
         /\ Served(tree, sequence) /\ sequence \in Nat
<1>1. Served(tree, sequence) /\ sequence \in Nat /\ tree \in Tree /\ Bounded(tree, sequence)
  BY ServedBounded DEF ServerInv
<1>2. Closing = [tree |-> tree, seq |-> sequence, sent |-> <<>>, first |-> tree]
  BY DEF Closing
<1>. QED  BY <1>1, <1>2 DEF Work

\* api_close() of a child.
LEMMA ChildCloseIs ==
  ASSUME ServerInv, NEW n \in Nodes, ChildClose(n)
  PROVE  LET w == Shut(Closing, n) IN
         /\ n # Root /\ tree[n].open /\ Served(tree, sequence) /\ sequence \in Nat
         /\ tree' = w.tree /\ sequence' = w.seq
         /\ \E V : CloseChain(tree, sequence, w, V, Len(w.sent))
<1>1. n # Root /\ tree[n].open /\ up /\ tree' = Shut(Closing, n).tree /\ sequence' = Shut(Closing, n).seq
  BY DEF ChildClose, Operation
<1>2. /\ Closing \in Work /\ Closing.sent = <<>> /\ Closing.tree = tree /\ Closing.seq = sequence
      /\ Served(tree, sequence) /\ sequence \in Nat
  BY <1>1, ClosingIs
<1>3. Served(Closing.tree, Closing.seq) /\ Closing.tree[n].open
  BY <1>1, <1>2
<1>4. \E V : CloseChain(Closing.tree, Closing.seq, Shut(Closing, n), V, Len(Shut(Closing, n).sent))
  BY <1>1, <1>2, <1>3, ShutIs
<1>. QED  BY <1>1, <1>2, <1>4

LEMMA ChildAddShape ==
  ASSUME ShapeInv, NEW n \in Nodes, ChildAdd(n)
  PROVE  ShapeInv'
<1>. DEFINE t == Added(tree, n, sequence)
<1>1. ServerInv
  BY DEF ShapeInv
<1>2. /\ n # Root /\ sequence \in Nat
      /\ tree' = t[2] /\ sequence' = sequence + 3
      /\ Served(t[1], sequence + 2) /\ Served(t[2], sequence + 3)
  BY <1>1, ChildAddIs
<1>3. PICK full \in BOOLEAN : Transmit(t[1], syncseq, <<DataEvt(t[1], n)>>, full)
  BY DEF ChildAdd
<1>4. Operation /\ sameServer
  BY DEF ChildAdd
<1>. HIDE DEF t
<1>5. t[1] \in Tree
  BY <1>2 DEF Served, Standing
<1>6. PICK z \in Stanza : z = DataEvt(t[1], n)
  BY <1>5, DataEvtIs
<1>7. <<z>> \in Seq(Stanza)
  OBVIOUS
<1>8. Served(tree', sequence') /\ sequence' > 0
  BY <1>2
<1>. QED  BY <1>3, <1>4, <1>5, <1>6, <1>7, <1>8, OperationShape

LEMMA ChangedShape ==
  ASSUME ShapeInv, NEW n \in Nodes, Changed(n)
  PROVE  ShapeInv'
<1>1. ServerInv
  BY DEF ShapeInv
<1>2. Served(tree', sequence + 1) /\ sequence' = sequence + 1 /\ sequence \in Nat
  BY <1>1, ChangedIs
<1>3. PICK full \in BOOLEAN : Transmit(tree', syncseq, <<DataEvt(tree', n)>>, full)
  BY DEF Changed
<1>4. Operation /\ sameServer
  BY DEF Changed
<1>5. PICK t \in Tree : t = tree'
  BY <1>2 DEF Served, Standing
<1>6. PICK z \in Stanza : z = DataEvt(t, n)
  BY <1>5, DataEvtIs
<1>7. <<z>> \in Seq(Stanza)
  OBVIOUS
<1>8. Served(tree', sequence') /\ sequence' > 0
  BY <1>2
<1>. QED  BY <1>3, <1>4, <1>5, <1>6, <1>7, <1>8, OperationShape

LEMMA ChildCloseShape ==
  ASSUME ShapeInv, NEW n \in Nodes, ChildClose(n)
  PROVE  ShapeInv'
<1>. DEFINE w == Shut(Closing, n)
            K == Len(w.sent)
<1>1. ServerInv
  BY DEF ShapeInv
<1>2. tree' = w.tree /\ sequence' = w.seq /\ sequence \in Nat
  BY <1>1, ChildCloseIs
<1>3. PICK V : CloseChain(tree, sequence, w, V, K)
  BY <1>1, ChildCloseIs
<1>4. PICK full \in BOOLEAN : Transmit(w.first, syncseq, w.sent, full)
  BY DEF ChildClose
<1>5. Operation /\ sameServer
  BY DEF ChildClose
<1>. HIDE DEF w
<1>6. /\ K \in Nat /\ K >= 1 /\ V[K] = w.tree /\ w.seq = sequence + K
      /\ w.sent \in Seq(Stanza) /\ w.first \in Tree
      /\ \A i \in 0..K : Served(V[i], sequence + i)
  BY <1>3 DEF CloseChain
<1>. HIDE DEF K
<1>7. K \in 0..K
  BY <1>6
<1>8. Served(V[K], sequence + K)
  BY <1>6, <1>7
<1>9. Served(tree', sequence') /\ sequence' > 0
  BY <1>2, <1>6, <1>8
<1>. QED  BY <1>4, <1>5, <1>6, <1>9, OperationShape

LEMMA JobSyncShape ==
  ASSUME ShapeInv, JobSync
  PROVE  ShapeInv'
<1>1. /\ ServerInv /\ ProxyInv /\ NetInv
      /\ UNCHANGED <<cookie, up, tree, sequence, passive, proxyVars, toServer>>
      /\ syncseq' = tree[Root].tseq /\ insync' = TRUE
  BY DEF ShapeInv, JobSync
<1>2. PICK full \in BOOLEAN : Transmit(tree, syncseq', <<TreeEvt(tree, Root)>>, full)
  BY DEF JobSync
<1>3. tree \in Tree /\ tree[Root].tseq \in Nat
  BY <1>1, Trees, Fields, Levels DEF ServerInv
<1>4. PICK z \in Stanza : z = TreeEvt(tree, Root)
  BY <1>3, TreeEvtIs, Levels
<1>5. <<z>> \in Seq(Stanza)
  OBVIOUS
<1>6. out' \in Seq(Stanza) /\ oldtseq' \in Nat /\ toProxy' \in Seq(Packets) /\ hidden' \in BOOLEAN
  BY <1>1, <1>2, <1>3, <1>4, <1>5, TransmitIs
<1>7. ServerInv' /\ NetInv'
  BY <1>1, <1>3, <1>6 DEF ServerInv, NetInv
<1>8. ProxyInv'
  BY <1>1, ProxyInvSame
<1>. QED  BY <1>7, <1>8 DEF ShapeInv

LEMMA FlushShape ==
  ASSUME ShapeInv, Flush
  PROVE  ShapeInv'
<1>1. /\ ServerInv /\ ProxyInv /\ NetInv
      /\ UNCHANGED <<cookie, up, tree, sequence, syncseq, insync, passive, proxyVars, toServer, hidden>>
      /\ toProxy' = Append(toProxy, Packet(tree, syncseq, out, oldtseq))
      /\ oldtseq' = tree[Root].tseq /\ out' = <<>>
  BY DEF ShapeInv, Flush, history
<1>2. tree \in Tree /\ tree[Root].tseq \in Nat /\ out \in Seq(Stanza) /\ {cookie, syncseq, oldtseq} \subseteq Nat
  BY <1>1, Trees, Fields, Levels DEF ServerInv
<1>3. PICK q \in Packets : q = Packet(tree, syncseq, out, oldtseq)
  BY <1>2, PacketIs
<1>4. toProxy' \in Seq(Packets) /\ <<>> \in Seq(Stanza)
  BY <1>1, <1>3 DEF NetInv
<1>5. ServerInv' /\ NetInv'
  BY <1>1, <1>2, <1>4 DEF ServerInv, NetInv
<1>6. ProxyInv'
  BY <1>1, ProxyInvSame
<1>. QED  BY <1>5, <1>6 DEF ShapeInv

LEMMA ServerReceiveShape ==
  ASSUME ShapeInv, ServerReceive
  PROVE  ShapeInv'
<1>1. /\ ServerInv /\ ProxyInv /\ NetInv
      /\ toServer # <<>> /\ toServer' = Tail(toServer)
      /\ UNCHANGED <<cookie, up, tree, sequence, syncseq, insync, proxyVars, hidden>>
  BY DEF ShapeInv, ServerReceive, history
<1>2. toServer' \in Seq(Seq(Requests)) /\ Head(toServer) \in Seq(Requests)
  BY <1>1 DEF NetInv
<1>3. ProxyInv'
  BY <1>1, ProxyInvSame
<1>4. /\ out \in Seq(Stanza) /\ oldtseq \in Nat /\ cookie \in Nat /\ syncseq \in Nat /\ tree \in Tree
      /\ toProxy \in Seq(Packets) /\ tree[Root].tseq \in Nat
  BY <1>1, Trees, Fields, Levels DEF ServerInv, NetInv
<1>5. out' \in Seq(Stanza) /\ oldtseq' \in Nat /\ passive' \in BOOLEAN /\ toProxy' \in Seq(Packets)
  <2>1. CASE ~up
    BY <1>1, <1>4, <2>1 DEF ServerReceive, ServerInv
  <2>2. CASE up
    <3>. DEFINE answers == Answers(tree, Head(toServer))
                last == IF passive THEN tree[Root].tseq ELSE oldtseq
    <3>1. Standing(tree)
      BY <1>1, <2>2 DEF ServerInv, Served
    <3>2. answers \in Seq(Stanza)
      BY <1>2, <3>1, AnswersIs DEF Telling
    <3>3. last \in Nat
      BY <1>4
    <3>4. PICK full \in BOOLEAN :
            IF full /\ out # <<>> /\ answers # <<>>
              THEN /\ toProxy' = Append(toProxy, Packet(tree, syncseq, out, last))
                   /\ oldtseq' = tree[Root].tseq /\ out' = answers
              ELSE out' = out \o answers /\ oldtseq' = last /\ UNCHANGED toProxy
      BY <2>2 DEF ServerReceive
    <3>5. passive' = FALSE
      BY <2>2 DEF ServerReceive
    <3>. HIDE DEF answers, last
    <3>6. PICK q \in Packets : q = Packet(tree, syncseq, out, last)
      BY <1>4, <3>3, PacketIs
    <3>7. CASE full /\ out # <<>> /\ answers # <<>>
      <4>1. toProxy' = Append(toProxy, q) /\ oldtseq' = tree[Root].tseq /\ out' = answers
        BY <3>4, <3>6, <3>7
      <4>2. passive' \in BOOLEAN
        BY <3>5
      <4>3. toProxy' \in Seq(Packets)
        BY <1>4, <4>1
      <4>. QED  BY <1>4, <3>2, <4>1, <4>2, <4>3
    <3>8. CASE ~(full /\ out # <<>> /\ answers # <<>>)
      <4>1. out' = out \o answers /\ oldtseq' = last /\ toProxy' = toProxy
        BY <3>4, <3>8
      <4>2. passive' \in BOOLEAN
        BY <3>5
      <4>3. out' \in Seq(Stanza)
        BY <1>4, <3>2, <4>1
      <4>. QED  BY <1>4, <3>3, <4>1, <4>2, <4>3
    <3>. QED  BY <3>7, <3>8
  <2>. QED  BY <1>1, <2>1, <2>2 DEF ServerInv
<1>6. ServerInv'
  BY <1>1, <1>5 DEF ServerInv
<1>7. NetInv'
  BY <1>1, <1>2, <1>5 DEF NetInv
<1>. QED  BY <1>3, <1>6, <1>7 DEF ShapeInv

LEMMA GoPassiveShape ==
  ASSUME ShapeInv, GoPassive
  PROVE  ShapeInv'
<1>1. /\ ServerInv /\ ProxyInv /\ NetInv
      /\ UNCHANGED <<cookie, up, tree, sequence, syncseq, insync, out, oldtseq, proxyVars, toServer, toProxy, hidden>>
      /\ passive' = TRUE
  BY DEF ShapeInv, GoPassive, netVars, history
<1>2. ServerInv' /\ NetInv'
  BY <1>1 DEF ServerInv, NetInv
<1>. QED  BY <1>1, <1>2, ProxyInvSame DEF ShapeInv

LEMMA ServerOpenShape ==
  ASSUME ShapeInv, ServerOpen
  PROVE  ShapeInv'
<1>1. /\ ServerInv /\ ProxyInv /\ NetInv
      /\ UNCHANGED <<proxyVars, toServer, toProxy, hidden>>
      /\ up' = TRUE /\ cookie' = cookie + 1 /\ tree' = Opened[1] /\ sequence' = Opened[2]
      /\ syncseq' = 0 /\ insync' = FALSE /\ passive' = TRUE /\ out' = <<>> /\ oldtseq' = 0
  BY DEF ShapeInv, ServerOpen, netVars
<1>2. <<>> \in Seq(Stanza)
  OBVIOUS
<1>3. ServerInv' /\ NetInv'
  <2>1. up' \in BOOLEAN /\ insync' \in BOOLEAN /\ passive' \in BOOLEAN
    BY <1>1
  <2>2. cookie' \in Nat /\ sequence' \in Nat /\ syncseq' \in Nat /\ oldtseq' \in Nat
    BY <1>1, OpenedIs DEF ServerInv
  <2>3. tree' \in Tree /\ Served(tree', sequence') /\ sequence' > 0
    BY <1>1, OpenedIs
  <2>4. ServerInv'
    BY <1>1, <1>2, <2>1, <2>2, <2>3 DEF ServerInv
  <2>. QED  BY <1>1, <2>4 DEF NetInv
<1>. QED  BY <1>1, <1>3, ProxyInvSame DEF ShapeInv

LEMMA GoneShape ==
  ASSUME ShapeInv, serverGone, toProxy' \in Seq(Packets)
  PROVE  ShapeInv'
<1>1. /\ ServerInv /\ ProxyInv /\ NetInv
      /\ UNCHANGED <<cookie, proxyVars, toServer, hidden>>
      /\ up' = FALSE /\ tree' = NoTree /\ sequence' = 0
      /\ syncseq' = 0 /\ insync' = TRUE /\ passive' = TRUE /\ out' = <<>> /\ oldtseq' = 0
  BY DEF ShapeInv, serverGone, NoTree
<1>2. <<>> \in Seq(Stanza)
  OBVIOUS
<1>3. ServerInv' /\ NetInv'
  <2>1. up' \in BOOLEAN /\ insync' \in BOOLEAN /\ passive' \in BOOLEAN
    BY <1>1
  <2>2. cookie' \in Nat /\ sequence' \in Nat /\ syncseq' \in Nat /\ oldtseq' \in Nat
    BY <1>1 DEF ServerInv
  <2>3. tree' \in Tree
    BY <1>1, NoTreeIs
  <2>4. tree' = NoTree' /\ NoTree' = NoTree
    BY <1>1 DEF NoTree
  <2>5. ServerInv'
    BY <1>1, <1>2, <2>1, <2>2, <2>3, <2>4 DEF ServerInv
  <2>. QED  BY <1>1, <2>5 DEF NetInv
<1>. QED  BY <1>1, <1>3, ProxyInvSame DEF ShapeInv

LEMMA ServerCloseShape ==
  ASSUME ShapeInv, ServerClose
  PROVE  ShapeInv'
<1>. DEFINE w == Ended(Closing)
            sent == IF passive THEN out ELSE out \o w.sent
            bye == Packet(w.tree, syncseq, <<>>, w.tree[Root].tseq)
<1>1. /\ ServerInv /\ NetInv /\ serverGone /\ up
      /\ toProxy' = toProxy \o (IF sent = <<>> THEN <<bye>>
                                ELSE <<Packet(w.tree, syncseq, sent, oldtseq), bye>>)
  BY DEF ShapeInv, ServerClose
<1>2. Closing \in Work /\ Closing.tree = tree /\ Served(tree, sequence) /\ sequence > 0
  BY <1>1, ClosingIs DEF ServerInv
<1>3. w \in Work
  <2>1. Closing.tree[Root].tseq > 0
    BY <1>2 DEF Served
  <2>. QED  BY <1>2, <2>1, EndedWork
<1>. HIDE DEF w
<1>4. w.tree \in Tree /\ w.sent \in Seq(Stanza) /\ w.tree[Root].tseq \in Nat
  <2>1. w.tree \in Tree /\ w.sent \in Seq(Stanza)
    BY <1>3 DEF Work
  <2>. QED  BY <2>1, Trees, Fields, Levels
<1>5. /\ out \in Seq(Stanza) /\ oldtseq \in Nat /\ cookie \in Nat /\ syncseq \in Nat
      /\ toProxy \in Seq(Packets) /\ <<>> \in Seq(Stanza)
  BY <1>1 DEF ServerInv, NetInv
<1>6. sent \in Seq(Stanza)
  BY <1>4, <1>5
<1>. HIDE DEF sent
<1>7. PICK a \in Packets : a = bye
  BY <1>4, <1>5, PacketIs
<1>8. PICK b \in Packets : b = Packet(w.tree, syncseq, sent, oldtseq)
  BY <1>4, <1>5, <1>6, PacketIs
<1>9. toProxy' \in {toProxy \o <<a>>, toProxy \o <<b, a>>}
  BY <1>1, <1>7, <1>8
<1>10. toProxy' \in Seq(Packets)
  <2>1. <<a>> \in Seq(Packets) /\ <<b, a>> \in Seq(Packets)
    OBVIOUS
  <2>2. toProxy \o <<a>> \in Seq(Packets) /\ toProxy \o <<b, a>> \in Seq(Packets)
    BY <1>5, <2>1
  <2>. QED  BY <1>9, <2>2
<1>. QED  BY <1>1, <1>10, GoneShape

LEMMA ServerCrashShape ==
  ASSUME ShapeInv, ServerCrash
  PROVE  ShapeInv'
<1>1. toProxy' \in Seq(Packets) /\ serverGone
  BY DEF ShapeInv, NetInv, ServerCrash
<1>. QED  BY <1>1, GoneShape

LEMMA PutIs ==
  ASSUME NEW w \in Copy, Put(w), toServer \in Seq(Seq(Requests))
  PROVE  /\ ptree' = w.t /\ treqs' = w.treqs /\ dreqs' = w.dreqs /\ psync' = w.sync /\ head' = w.h
         /\ Working' \in Copy
         /\ toServer' \in Seq(Seq(Requests))
<1>1. /\ ptree' = w.t /\ treqs' = w.treqs /\ dreqs' = w.dreqs /\ psync' = w.sync /\ head' = w.h
      /\ toServer' = IF w.sent = <<>> THEN toServer ELSE Append(toServer, w.sent)
  BY DEF Put
<1>2. w \in Record /\ Standing(w.t) /\ \A n \in w.treqs \cup w.dreqs : w.t[n].open
  BY CopyIs
<1>3. /\ w.t \in Tree /\ w.treqs \subseteq Nodes /\ w.dreqs \subseteq Nodes /\ w.sync \in BOOLEAN
      /\ w.h \in Heads /\ w.sent \in Seq(Requests)
  BY <1>2, RecordIs
<1>4. Working' = [t |-> w.t, treqs |-> w.treqs, dreqs |-> w.dreqs, sync |-> w.sync, h |-> w.h, sent |-> <<>>]
  BY <1>1 DEF Working
<1>. DEFINE v == [t |-> w.t, treqs |-> w.treqs, dreqs |-> w.dreqs, sync |-> w.sync, h |-> w.h, sent |-> <<>>]
<1>5. <<>> \in Seq(Requests)
  OBVIOUS
<1>6. v \in Record /\ v.t = w.t /\ v.treqs = w.treqs /\ v.dreqs = w.dreqs
  BY <1>3, <1>5 DEF Record
<1>. HIDE DEF v
<1>7. v \in Copy
  BY <1>2, <1>6 DEF Copy
<1>8. toServer' \in Seq(Seq(Requests))
  BY <1>1, <1>3
<1>. QED  BY <1>1, <1>4, <1>7, <1>8 DEF v

\* No proxy.
LEMMA NoProxyShape ==
  ASSUME noProxy
  PROVE  ProxyInv'
<1>1. /\ pup' = FALSE /\ ptree' = NoTree /\ pcookie' = 0
      /\ treqs' = {} /\ dreqs' = {} /\ psync' = FALSE /\ head' = NoHead /\ ptick' = 0
  BY DEF noProxy, NoTree
<1>2. NoTree' = NoTree
  BY DEF NoTree
<1>3. NoHead \in Heads
  BY DEF NoHead, Heads
<1>4. Working' = [t |-> NoTree, treqs |-> {}, dreqs |-> {}, sync |-> FALSE, h |-> NoHead, sent |-> <<>>]
  BY <1>1 DEF Working
<1>5. <<>> \in Seq(Requests)
  OBVIOUS
<1>6. Working' \in Record
  BY <1>3, <1>4, <1>5, NoTreeIs DEF Record
<1>7. {pcookie', ptick'} \subseteq Nat /\ pup' \in BOOLEAN
  <2>1. {pcookie', ptick'} \subseteq Nat
    BY <1>1
  <2>2. pup' \in BOOLEAN
    BY <1>1
  <2>. QED  BY <2>1, <2>2
<1>. QED  BY <1>1, <1>2, <1>6, <1>7 DEF ProxyInv

LEMMA ServerInvSame ==
  ASSUME ServerInv, UNCHANGED serverVars
  PROVE  ServerInv'
  BY DEF ServerInv, serverVars, NoTree

\* A record that is put is the proxy's.
LEMMA PutShape ==
  ASSUME ShapeInv, NEW w \in Copy, Put(w), pup' = TRUE, {pcookie', ptick'} \subseteq Nat,
         UNCHANGED serverVars, toProxy' \in Seq(Packets), hidden' \in BOOLEAN
  PROVE  ShapeInv'
<1>1. ServerInv /\ NetInv
  BY DEF ShapeInv
<1>2. ServerInv'
  BY <1>1, ServerInvSame
<1>3. Working' \in Copy /\ toServer' \in Seq(Seq(Requests))
  BY <1>1, PutIs DEF NetInv
<1>4. ProxyInv'
  <2>1. Working' \in Record
    BY <1>3, CopyIs
  <2>2. pup' \in BOOLEAN
    OBVIOUS
  <2>. QED  BY <1>3, <2>1, <2>2 DEF ProxyInv
<1>. QED  BY <1>2, <1>3, <1>4 DEF ShapeInv, NetInv

LEMMA ProxyReceiveShape ==
  ASSUME ShapeInv, ProxyReceive
  PROVE  ShapeInv'
<1>. DEFINE p == Head(toProxy)
<1>1. /\ ServerInv /\ ProxyInv /\ NetInv
      /\ toProxy # <<>> /\ toProxy' = Tail(toProxy)
      /\ UNCHANGED serverVars /\ hidden' = hidden
  BY DEF ShapeInv, ProxyReceive, history
<1>2. toProxy' \in Seq(Packets) /\ p \in Packets /\ hidden' \in BOOLEAN
  BY <1>1 DEF NetInv
<1>3. p.cookie \in Nat /\ p.body \in Seq(Stanza)
  BY <1>2 DEF Packets
<1>4. CASE ~pup
  <2>1. UNCHANGED <<proxyVars, toServer>>
    BY <1>4 DEF ProxyReceive
  <2>. QED  BY <1>1, <1>2, <2>1, ProxyInvSame, ServerInvSame DEF ShapeInv, NetInv
<1>5. CASE pup /\ (pcookie \notin {0, p.cookie} \/ p.body = <<>>)
  <2>1. noProxy /\ UNCHANGED toServer
    BY <1>5 DEF ProxyReceive
  <2>. QED  BY <1>1, <1>2, <2>1, NoProxyShape, ServerInvSame DEF ShapeInv, NetInv
<1>6. CASE pup /\ ~(pcookie \notin {0, p.cookie} \/ p.body = <<>>)
  <2>. DEFINE w == Heading(Received(Working, p.body), p)
  <2>1. Put(w) /\ pcookie' = p.cookie /\ ptick' = 0 /\ pup' = TRUE
    BY <1>6 DEF ProxyReceive
  <2>2. Working \in Copy
    BY <1>1, <1>6 DEF ProxyInv
  <2>3. Received(Working, p.body) \in Copy
    BY <1>3, <2>2, ReceivedIs
  <2>4. w \in Copy
    BY <1>2, <2>3, HeadingIs DEF Headed
  <2>. HIDE DEF w
  <2>5. {pcookie', ptick'} \subseteq Nat
    BY <1>3, <2>1
  <2>. QED  BY <1>1, <1>2, <2>1, <2>4, <2>5, PutShape
<1>. QED  BY <1>4, <1>5, <1>6

\* A proxy that has been opened has its root alone.
LEMMA FirstCopy ==
  LET w == [t |-> OpenRoot, treqs |-> {Root}, dreqs |-> {Root}, sync |-> FALSE, h |-> NoHead,
            sent |-> <<Request("TREE_REQ", Root), Request("DATA_REQ", Root)>>]
  IN  w \in Copy
<1>. DEFINE s == <<Request("TREE_REQ", Root), Request("DATA_REQ", Root)>>
            w == [t |-> OpenRoot, treqs |-> {Root}, dreqs |-> {Root}, sync |-> FALSE, h |-> NoHead, sent |-> s]
<1>1. s \in Seq(Requests)
  <2>1. PICK a \in Requests, b \in Requests : a = Request("TREE_REQ", Root) /\ b = Request("DATA_REQ", Root)
    BY Levels DEF Request, Requests
  <2>2. s = <<a, b>>
    BY <2>1
  <2>. HIDE DEF s
  <2>. QED  BY <2>2
<1>2. NoHead \in Heads
  BY DEF NoHead, Heads
<1>. HIDE DEF s
<1>3. w \in Record /\ w.t = OpenRoot /\ w.treqs = {Root} /\ w.dreqs = {Root}
  BY <1>1, <1>2, OpenRootIs, Levels DEF Record
<1>4. Standing(OpenRoot)
  <2>1. \A m \in Nodes : ~OpenRoot[m].open => OpenRoot[m] = Absent
    BY OpenRootIs
  <2>2. \A m \in Nodes \ {Root} : ~OpenRoot[m].open
    BY OpenRootIs, Trees
  <2>. QED  BY <2>1, <2>2, OpenRootIs DEF Standing
<1>. HIDE DEF w
<1>5. w \in Copy
  BY <1>3, <1>4, OpenRootIs DEF Copy
<1>. QED  BY <1>5 DEF w, s

LEMMA ProxyOpenShape ==
  ASSUME ShapeInv, ProxyOpen
  PROVE  ShapeInv'
<1>. DEFINE w == [t |-> OpenRoot, treqs |-> {Root}, dreqs |-> {Root}, sync |-> FALSE, h |-> NoHead,
                  sent |-> <<Request("TREE_REQ", Root), Request("DATA_REQ", Root)>>]
<1>1. /\ Put(w) /\ pup' = TRUE /\ pcookie' = 0 /\ ptick' = Query + 1
      /\ UNCHANGED <<serverVars, toProxy, hidden>>
  BY DEF ProxyOpen, history
<1>2. w \in Copy
  BY FirstCopy
<1>. HIDE DEF w
<1>3. {pcookie', ptick'} \subseteq Nat
  BY <1>1, TicksAssumption
<1>4. toProxy' \in Seq(Packets) /\ hidden' \in BOOLEAN
  BY <1>1 DEF ShapeInv, NetInv
<1>. QED  BY <1>1, <1>2, <1>3, <1>4, PutShape

LEMMA LoseShape ==
  ASSUME ShapeInv, LoseToServer \/ LoseToProxy
  PROVE  ShapeInv'
<1>1. /\ ServerInv /\ ProxyInv /\ NetInv /\ UNCHANGED <<serverVars, proxyVars>>
  BY DEF ShapeInv, LoseToServer, LoseToProxy
<1>2. CASE LoseToServer
  <2>1. toServer' \in Seq(Seq(Requests)) /\ toProxy' = toProxy /\ hidden' = hidden
    BY <1>1, <1>2 DEF LoseToServer, NetInv, history
  <2>. QED  BY <1>1, <2>1, ProxyInvSame, ServerInvSame DEF ShapeInv, NetInv
<1>3. CASE LoseToProxy
  <2>1. toProxy' \in Seq(Packets) /\ toServer' = toServer /\ hidden' \in BOOLEAN
    BY <1>1, <1>3 DEF LoseToProxy, NetInv
  <2>. QED  BY <1>1, <2>1, ProxyInvSame, ServerInvSame DEF ShapeInv, NetInv
<1>. QED  BY <1>2, <1>3

\* job_timer() puts the copy back, with other requests or in sync.
LEMMA TimerIs ==
  ASSUME ProxyInv, ProxyTimer
  PROVE  \/ UNCHANGED <<proxyVars, toServer>>
         \/ noProxy /\ UNCHANGED toServer
         \/ /\ pup /\ pup' = TRUE /\ pcookie' = pcookie /\ ptick' \in Nat
            /\ \E a, w : /\ a \in Copy /\ Asks(Working, a, {}, {})
                         /\ Put(w) /\ w \in Copy
                         /\ \/ Asks(Working, w, {}, {})
                            \/ w = CheckSync(a, TRUE)
<1>1. CASE ~pup
  BY <1>1 DEF ProxyTimer
<1>2. CASE pup /\ ptick + 1 >= Close
  BY <1>2 DEF ProxyTimer
<1>3. CASE pup /\ ~(ptick + 1 >= Close)
  <2>. DEFINE a == IF ptick + 1 >= Query THEN Say(Working, "TREE_REQ", Root) ELSE Working
              w == IF treqs \cup dreqs # {} THEN Again(a) ELSE CheckSync(a, TRUE)
  <2>1. Put(w) /\ ptick' = ptick + 1 /\ UNCHANGED <<pup, pcookie>>
    BY <1>3 DEF ProxyTimer
  <2>2. Working \in Copy /\ Working \in Record /\ ptick \in Nat
    BY <1>3, CopyIs DEF ProxyInv
  <2>3. Asks(Working, a, {}, {})
    BY <2>2, SayIs, AsksNothing, Levels
  <2>. HIDE DEF a
  <2>4. a \in Copy
    BY <2>2, <2>3, AsksCopy
  <2>5. Asks(a, Again(a), {}, {})
    BY <2>4, CopyIs, AgainIs
  <2>6. Asks(Working, Again(a), {} \cup {}, {} \cup {})
    BY <2>3, <2>5, AsksBoth
  <2>7. Asks(Working, Again(a), {}, {})
    BY <2>6
  <2>8. Again(a) \in Copy
    BY <2>2, <2>7, AsksCopy
  <2>9. CheckSync(a, TRUE) \in Copy
    BY <2>4, CheckSyncIs
  <2>10. w \in Copy /\ (Asks(Working, w, {}, {}) \/ w = CheckSync(a, TRUE))
    BY <2>7, <2>8, <2>9
  <2>. HIDE DEF w
  <2>11. ptick' \in Nat /\ pup' = TRUE
    BY <1>3, <2>1, <2>2 DEF ProxyInv
  <2>. QED  BY <1>3, <2>1, <2>3, <2>4, <2>10, <2>11
<1>. QED  BY <1>1, <1>2, <1>3

LEMMA TickShape ==
  ASSUME ShapeInv, Tick
  PROVE  ShapeInv'
<1>1. /\ ServerInv /\ ProxyInv /\ NetInv /\ UNCHANGED <<serverVars, toProxy, hidden>> /\ ProxyTimer
  BY DEF ShapeInv, Tick, history
<1>2. CASE UNCHANGED <<proxyVars, toServer>>
  BY <1>1, <1>2, ProxyInvSame, ServerInvSame DEF ShapeInv, NetInv
<1>3. CASE noProxy /\ UNCHANGED toServer
  BY <1>1, <1>3, NoProxyShape, ServerInvSame DEF ShapeInv, NetInv
<1>4. CASE /\ pup' = TRUE /\ pcookie' = pcookie /\ ptick' \in Nat
           /\ \E w \in Copy : Put(w)
  <2>1. toProxy' \in Seq(Packets) /\ hidden' \in BOOLEAN /\ {pcookie', ptick'} \subseteq Nat
    BY <1>1, <1>4 DEF NetInv, ProxyInv
  <2>. QED  BY <1>1, <1>4, <2>1, PutShape
<1>. QED  BY <1>1, <1>2, <1>3, <1>4, TimerIs

LEMMA InitShape ==
  ASSUME Init
  PROVE  ShapeInv
<1>1. /\ cookie = 1 /\ up = TRUE /\ tree = Opened[1] /\ sequence = Opened[2] /\ insync = TRUE
      /\ treqs = {} /\ dreqs = {} /\ ptick = 0
      /\ out = <<>> /\ toServer = <<>> /\ toProxy = <<>> /\ hidden = FALSE
      /\ syncseq = sequence /\ passive \in BOOLEAN /\ (oldtseq = 0 \/ oldtseq = sequence)
      /\ pcookie \in {0, 1} /\ pup \in BOOLEAN
  BY DEF Init, Alone, Connected
<1>2. Served(tree, sequence) /\ tree \in Tree /\ sequence \in Nat /\ sequence > 0
  BY <1>1, OpenedIs
<1>3. <<>> \in Seq(Stanza) /\ <<>> \in Seq(Requests) /\ <<>> \in Seq(Seq(Requests)) /\ <<>> \in Seq(Packets)
  OBVIOUS
<1>4. ServerInv
  <2>1. up \in BOOLEAN /\ insync \in BOOLEAN
    BY <1>1
  <2>2. {cookie, sequence, syncseq, oldtseq} \subseteq Nat
    BY <1>1, <1>2
  <2>. QED  BY <1>1, <1>2, <1>3, <2>1, <2>2 DEF ServerInv
<1>5. NetInv
  <2>1. hidden \in BOOLEAN
    BY <1>1
  <2>. QED  BY <1>1, <1>3, <2>1 DEF NetInv
<1>6. ProxyInv
  <2>1. {pcookie, ptick} \subseteq Nat
    BY <1>1
  <2>2. CASE Alone
    <3>1. pup = FALSE /\ ptree = NoTree /\ psync = FALSE /\ head = NoHead
      BY <2>2 DEF Alone, NoTree
    <3>2. Working = [t |-> NoTree, treqs |-> {}, dreqs |-> {}, sync |-> FALSE, h |-> NoHead, sent |-> <<>>]
      BY <1>1, <3>1 DEF Working
    <3>3. NoHead \in Heads
      BY DEF NoHead, Heads
    <3>4. Working \in Record
      BY <1>3, <3>2, <3>3, NoTreeIs DEF Record
    <3>. QED  BY <1>1, <2>1, <3>1, <3>4 DEF ProxyInv
  <2>3. CASE Connected
    <3>1. pup = TRUE /\ ptree = tree /\ psync = TRUE
          /\ head = [s |-> sequence, d |-> tree[Root].dseq, n |-> tree[Root].nseq,
                     t |-> sequence, g |-> sequence, l |-> sequence]
      BY <2>3 DEF Connected
    <3>2. tree[Root].dseq \in Nat /\ tree[Root].nseq \in Nat
      BY <1>2, Trees, Fields, Levels
    <3>3. head \in Heads
      BY <1>2, <3>1, <3>2 DEF Heads
    <3>4. Working = [t |-> tree, treqs |-> {}, dreqs |-> {}, sync |-> TRUE, h |-> head, sent |-> <<>>]
      BY <1>1, <3>1 DEF Working
    <3>5. Working \in Record /\ Working.t = tree /\ Working.treqs = {} /\ Working.dreqs = {}
      BY <1>2, <1>3, <3>3, <3>4 DEF Record
    <3>6. Working \in Copy
      BY <1>2, <3>5 DEF Copy, Served
    <3>. QED  BY <1>1, <2>1, <3>1, <3>5, <3>6 DEF ProxyInv
  <2>. QED  BY <2>2, <2>3 DEF Init
<1>. QED  BY <1>4, <1>5, <1>6 DEF ShapeInv

LEMMA NextShape ==
  ASSUME ShapeInv, [Next]_vars
  PROVE  ShapeInv'
<1>1. CASE UNCHANGED vars
  BY <1>1, ProxyInvSame, ServerInvSame DEF vars, ShapeInv, NetInv, netVars, history
<1>2. CASE Next
  <2>1. ASSUME NEW n \in Nodes, ChildAdd(n) \/ Changed(n) \/ ChildClose(n)
        PROVE  ShapeInv'
    BY <2>1, ChildAddShape, ChangedShape, ChildCloseShape
  <2>2. CASE JobSync
    BY <2>2, JobSyncShape
  <2>3. CASE Flush
    BY <2>3, FlushShape
  <2>4. CASE ServerReceive
    BY <2>4, ServerReceiveShape
  <2>5. CASE GoPassive
    BY <2>5, GoPassiveShape
  <2>6. CASE ServerOpen
    BY <2>6, ServerOpenShape
  <2>7. CASE ServerClose
    BY <2>7, ServerCloseShape
  <2>8. CASE ServerCrash
    BY <2>8, ServerCrashShape
  <2>9. CASE ProxyReceive
    BY <2>9, ProxyReceiveShape
  <2>10. CASE ProxyOpen
    BY <2>10, ProxyOpenShape
  <2>11. CASE LoseToServer \/ LoseToProxy
    BY <2>11, LoseShape
  <2>12. CASE Tick
    BY <2>12, TickShape
  <2>. QED  BY <1>2, <2>1, <2>2, <2>3, <2>4, <2>5, <2>6, <2>7, <2>8, <2>9, <2>10, <2>11, <2>12
            DEF Next, Server, Proxy
<1>. QED  BY <1>1, <1>2

LEMMA ShapeType ==
  ASSUME ShapeInv
  PROVE  TypeOK
<1>1. ServerInv /\ ProxyInv /\ NetInv
  BY DEF ShapeInv
<1>2. ptree \in Tree /\ treqs \subseteq Nodes /\ dreqs \subseteq Nodes /\ psync \in BOOLEAN /\ head \in Heads
  <2>1. Working \in Record
    BY <1>1 DEF ProxyInv
  <2>. QED  BY <2>1, RecordIs, WorkingIs
<1>3. treqs \cup dreqs \subseteq {n \in Nodes : ptree[n].open}
  <2>1. CASE pup
    <3>1. Working \in Copy
      BY <1>1, <2>1 DEF ProxyInv
    <3>2. \A n \in treqs \cup dreqs : ptree[n].open
      BY <3>1, WorkingIs, CopyIs
    <3>. QED  BY <1>2, <3>2
  <2>2. CASE ~pup
    BY <1>1, <2>2 DEF ProxyInv
  <2>. QED  BY <2>1, <2>2
<1>4. \A i \in DOMAIN toServer : \A k \in DOMAIN toServer[i] : toServer[i][k].path \in Nodes
  <2>. SUFFICES ASSUME NEW i \in DOMAIN toServer, NEW k \in DOMAIN toServer[i]
                PROVE  toServer[i][k].path \in Nodes
    OBVIOUS
  <2>1. toServer \in Seq(Seq(Requests))
    BY <1>1 DEF NetInv
  <2>2. PICK r \in Seq(Requests) : r = toServer[i]
    BY <2>1
  <2>3. r[k] \in Requests
    BY <2>2
  <2>4. r[k].path \in Nodes
    BY <2>3 DEF Requests
  <2>. QED  BY <2>2, <2>4
<1>5. head \in [s : Nat, d : Nat, n : Nat, t : Nat, g : Nat, l : Nat]
  BY <1>2 DEF Heads
<1>6. tree \in Tree /\ {cookie, pcookie, sequence, syncseq, oldtseq, ptick} \subseteq Nat
  BY <1>1 DEF ServerInv, ProxyInv
<1>7. {up, pup, insync, psync, passive, hidden} \subseteq BOOLEAN
  BY <1>1, <1>2 DEF ServerInv, ProxyInv, NetInv
<1>. QED  BY <1>2, <1>3, <1>4, <1>5, <1>6, <1>7 DEF TypeOK

LEMMA ShapeHolds == Spec => []ShapeInv
<1>1. Init => ShapeInv
  BY InitShape
<1>2. ShapeInv /\ [Next]_vars => ShapeInv'
  BY NextShape
<1>. QED  BY <1>1, <1>2, PTL DEF Spec

\* The variables have their types; what the proxy asks for, and what it sends
\* for, are nodes that it has: whatever the server says of which nodes, the
\* copy stays a tree, and a node that is closed leaves the list of requests.
THEOREM MirrorTyped == Spec => []TypeOK
<1>1. ShapeInv => TypeOK
  BY ShapeType
<1>. QED  BY <1>1, ShapeHolds, PTL

-----------------------------------------------------------------------------
(* Whenever clients could see something else, the number is new.            *)

GrowStep ==
  up /\ up' /\ tree' # tree =>
    \A n \in Nodes : /\ tree[n].open /\ tree'[n].open /\ Seen(tree', n) # Seen(tree, n)
                     => tree'[n].tseq > sequence

LEMMA StepGrows ==
  ASSUME ShapeInv, Next
  PROVE  GrowStep
<1>. SUFFICES ASSUME up, up', tree' # tree  PROVE Grows(tree, tree', sequence)
  BY DEF GrowStep, Grows
<1>1. ServerInv
  BY DEF ShapeInv
<1>2. ASSUME NEW n \in Nodes, ChildAdd(n)  PROVE Grows(tree, tree', sequence)
  <2>1. /\ n # Root /\ ~tree[n].open /\ tree[ParentOf(n)].open /\ Served(tree, sequence) /\ sequence \in Nat
        /\ Grown(tree, tree', n, sequence + 1, sequence + 3)
    BY <1>1, <1>2, ChildAddIs
  <2>2. PICK d, k \in Nat : d = sequence + 1 /\ k = sequence + 3 /\ d > sequence /\ k > d
    BY <2>1
  <2>. QED  BY <2>1, <2>2, GrownGrows
<1>3. ASSUME NEW n \in Nodes, Changed(n)  PROVE Grows(tree, tree', sequence)
  <2>1. /\ tree[n].open /\ Served(tree, sequence) /\ sequence \in Nat
        /\ Valued(tree, tree', n, sequence + 1)
    BY <1>1, <1>3, ChangedIs
  <2>2. PICK k \in Nat : k = sequence + 1 /\ k > sequence
    BY <2>1
  <2>. QED  BY <2>1, <2>2, ValuedGrows
<1>4. ASSUME NEW n \in Nodes, ChildClose(n)  PROVE Grows(tree, tree', sequence)
  BY <1>1, <1>4, ChildCloseIs, ChainGrows
<1>5. CASE Proxy \/ LoseToServer \/ LoseToProxy \/ Tick
  BY <1>5 DEF Proxy, ProxyReceive, ProxyOpen, LoseToServer, LoseToProxy, Tick, serverVars
<1>6. CASE JobSync \/ Flush \/ ServerReceive \/ GoPassive
  BY <1>6 DEF JobSync, Flush, ServerReceive, GoPassive
<1>7. CASE ServerOpen \/ ServerClose \/ ServerCrash
  BY <1>7 DEF ServerOpen, ServerClose, ServerCrash, serverGone
<1>. QED  BY <1>2, <1>3, <1>4, <1>5, <1>6, <1>7 DEF Next, Server

\* A node below which a client could see something else - a value, a node
\* that has come or gone - has a tseq that no node had before: a proxy that
\* compares numbers cannot miss it.
THEOREM NumbersGrow == Spec => TseqGrows
<1>1. ShapeInv /\ [Next]_vars => [GrowStep]_vars
  BY StepGrows
<1>2. Spec => [][GrowStep]_vars
  BY <1>1, ShapeHolds, PTL DEF Spec
<1>. QED  BY <1>2 DEF TseqGrows, GrowStep

=============================================================================
