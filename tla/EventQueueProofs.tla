-------------------------- MODULE EventQueueProofs --------------------------
(***************************************************************************)
(* For any jobs, threads and cancellation points: the runner of the event  *)
(* queue never sleeps on posted jobs, cancellation is as final as the      *)
(* cancellation points promise, jobs begin in the order of their priority  *)
(* and of their posting, and timers are never early.                       *)
(***************************************************************************)
EXTENDS EventQueue, TLAPS, WellFoundedInduction

-----------------------------------------------------------------------------
(* The operators on sequences.  Each is a recursive function on 0..n: that  *)
(* it exists, and what it returns, follows from least counterexamples.      *)

LEMMA Least ==
  ASSUME NEW S \in SUBSET Nat, S # {}
  PROVE  \E m \in S : \A k \in S : m <= k
<1>. DEFINE R == OpToRel(<, Nat)
<1>1. IsWellFoundedOn(R, Nat)
  BY ONLY NatLessThanWellFounded, Zenon
<1>2. \A k, m \in Nat : k < m => <<k, m>> \in R
  BY DEF OpToRel
<1>. HIDE DEF R
<1>3. PICK m \in S : \A k \in S : <<k, m>> \notin R
  BY <1>1, WFMin
<1>4. \A k \in S : ~(k < m)
  BY <1>2, <1>3
<1>. QED  BY <1>3, <1>4

\* What holds of 0 and passes from each number to the next holds up to n.
LEMMA UpTo ==
  ASSUME NEW n \in Nat, NEW H \in SUBSET Nat, 0 \in H,
         \A i \in 1..n : i - 1 \in H => i \in H
  PROVE  \A i \in 0..n : i \in H
<1>. DEFINE S == {i \in 0..n : i \notin H}
<1>. SUFFICES ASSUME S # {}
              PROVE  FALSE
  OBVIOUS
<1>1. PICK m \in S : \A k \in S : m <= k
  <2>1. S \in SUBSET Nat
    OBVIOUS
  <2>. HIDE DEF S
  <2>. QED  BY <2>1, Least
<1>2. m \in 1..n /\ m - 1 \in 0..n /\ m - 1 \notin S
  BY <1>1
<1>. QED  BY <1>2

\* The function by which Those is defined.
Kept(s, T, n, g) ==
  /\ g \in [0..n -> Seq(Jobs)]
  /\ g[0] = <<>>
  /\ \A i \in 1..n : g[i] = IF s[i] \in T THEN Append(g[i - 1], s[i]) ELSE g[i - 1]

LEMMA KeptExists ==
  ASSUME NEW s \in Seq(Jobs), NEW T
  PROVE  \E g : Kept(s, T, Len(s), g)
<1>. DEFINE H == {n \in Nat : \E g : Kept(s, T, n, g)}
<1>1. 0 \in H
  <2>1. Kept(s, T, 0, [i \in 0..0 |-> <<>>])
    BY DEF Kept
  <2>. QED  BY <2>1
<1>2. ASSUME NEW n \in 1..Len(s), n - 1 \in H
      PROVE  n \in H
  <2>1. PICK g : Kept(s, T, n - 1, g)
    BY <1>2
  <2>. DEFINE e == IF s[n] \in T THEN Append(g[n - 1], s[n]) ELSE g[n - 1]
              g2 == [i \in 0..n |-> IF i = n THEN e ELSE g[i]]
  <2>2. e \in Seq(Jobs)
    <3>1. g[n - 1] \in Seq(Jobs) /\ s[n] \in Jobs
      BY <2>1 DEF Kept
    <3>. QED  BY <3>1
  <2>3. g2 \in [0..n -> Seq(Jobs)] /\ g2[0] = <<>> /\ g2[n] = e
        /\ \A i \in 0..(n - 1) : g2[i] = g[i]
    <3>. HIDE DEF e
    <3>. QED  BY <2>1, <2>2 DEF Kept
  <2>4. ASSUME NEW i \in 1..n
        PROVE  g2[i] = IF s[i] \in T THEN Append(g2[i - 1], s[i]) ELSE g2[i - 1]
    <3>. HIDE DEF g2
    <3>1. CASE i = n
      BY <2>3, <3>1
    <3>2. CASE i # n
      <4>1. i \in 1..(n - 1) /\ i \in 0..(n - 1) /\ i - 1 \in 0..(n - 1)
        BY <3>2
      <4>. QED  BY <2>1, <2>3, <4>1 DEF Kept
    <3>. QED  BY <3>1, <3>2
  <2>5. Kept(s, T, n, g2)
    <3>. HIDE DEF g2, e
    <3>. QED  BY <2>3, <2>4 DEF Kept
  <2>. QED  BY <2>5
<1>. HIDE DEF H
<1>3. Len(s) \in H
  <2>. H \in SUBSET Nat
    BY DEF H
  <2>. QED  BY <1>1, <1>2, UpTo
<1>. QED  BY <1>3 DEF H

LEMMA ThoseKept ==
  ASSUME NEW s \in Seq(Jobs), NEW T
  PROVE  \E g : Kept(s, T, Len(s), g) /\ Those(s, T) = g[Len(s)]
<1>. DEFINE Next1(f, i) == IF i = 0 THEN <<>>
                           ELSE IF s[i] \in T THEN Append(f[i - 1], s[i]) ELSE f[i - 1]
            Eqn(f) == f = [i \in 0..Len(s) |-> Next1(f, i)]
            g == CHOOSE f : Eqn(f)
<1>1. Those(s, T) = g[Len(s)]
  BY DEF Those
<1>2. PICK f : Kept(s, T, Len(s), f)
  BY KeptExists
<1>3. Eqn(f)
  <2>1. f = [i \in 0..Len(s) |-> f[i]]
    BY <1>2 DEF Kept
  <2>2. \A i \in 0..Len(s) : f[i] = Next1(f, i)
    <3>. SUFFICES ASSUME NEW i \in 0..Len(s)
                  PROVE  f[i] = Next1(f, i)
      OBVIOUS
    <3>1. CASE i = 0
      BY <1>2, <3>1 DEF Kept
    <3>2. CASE i # 0
      <4>1. i \in 1..Len(s)
        BY <3>2
      <4>. QED  BY <1>2, <3>2, <4>1 DEF Kept
    <3>. QED  BY <3>1, <3>2
  <2>. HIDE DEF Next1
  <2>. QED  BY <2>1, <2>2
<1>4. Eqn(g)
  <2>. HIDE DEF Eqn
  <2>. QED  BY <1>3
<1>. HIDE DEF g
<1>5. DOMAIN g = 0..Len(s) /\ g = [i \in DOMAIN g |-> g[i]]
      /\ \A i \in 0..Len(s) : g[i] = Next1(g, i)
  <2>. HIDE DEF Next1
  <2>. QED  BY <1>4
<1>6. g[0] = <<>>
      /\ \A i \in 1..Len(s) : g[i] = IF s[i] \in T THEN Append(g[i - 1], s[i]) ELSE g[i - 1]
  <2>1. 0 \in 0..Len(s) /\ \A i \in 1..Len(s) : i \in 0..Len(s) /\ i # 0
    OBVIOUS
  <2>. QED  BY <1>5, <2>1
<1>. HIDE DEF Eqn, Next1
<1>. DEFINE H == {i \in 0..Len(s) : g[i] \in Seq(Jobs)}
<1>7. \A i \in 0..Len(s) : i \in H
  <2>. Len(s) \in Nat /\ H \in SUBSET Nat
    OBVIOUS
  <2>1. 0 \in H
    <3>1. <<>> \in Seq(Jobs) /\ 0 \in 0..Len(s)
      OBVIOUS
    <3>. QED  BY <1>6, <3>1
  <2>2. ASSUME NEW i \in 1..Len(s), i - 1 \in H
        PROVE  i \in H
    <3>1. g[i - 1] \in Seq(Jobs) /\ s[i] \in Jobs
      BY <2>2
    <3>2. Append(g[i - 1], s[i]) \in Seq(Jobs)
      BY <3>1
    <3>3. g[i] = Append(g[i - 1], s[i]) \/ g[i] = g[i - 1]
      BY <1>6
    <3>4. g[i] \in Seq(Jobs)
      BY <3>1, <3>2, <3>3
    <3>. QED  BY <3>4
  <2>. HIDE DEF H
  <2>3. \A i \in 1..Len(s) : i - 1 \in H => i \in H
    BY <2>2
  <2>. QED  BY <2>1, <2>3, UpTo
<1>8. g \in [0..Len(s) -> Seq(Jobs)]
  BY <1>5, <1>7
<1>9. Kept(s, T, Len(s), g)
  BY <1>6, <1>8 DEF Kept
<1>. QED  BY <1>1, <1>9

\* r is what T leaves of the first n elements of s; at says where it was.
Picks(s, T, n, r, at) ==
  /\ r \in Seq(Jobs)
  /\ at \in [1..Len(r) -> 1..n]
  /\ \A i, h \in 1..Len(r) : i < h => at[i] < at[h]
  /\ \A i \in 1..Len(r) : r[i] = s[at[i]] /\ r[i] \in T
  /\ \A m \in 1..n : s[m] \in T => \E i \in 1..Len(r) : at[i] = m

\* Those keeps every element of s that is in T, and their order.
LEMMA ThosePicks ==
  ASSUME NEW s \in Seq(Jobs), NEW T
  PROVE  \E at : Picks(s, T, Len(s), Those(s, T), at)
<1>1. PICK g : Kept(s, T, Len(s), g) /\ Those(s, T) = g[Len(s)]
  BY ThoseKept
<1>. DEFINE H == {n \in Nat : n \in 0..Len(s) => \E at : Picks(s, T, n, g[n], at)}
<1>2. 0 \in H
  <2>1. g[0] = <<>>
    BY <1>1 DEF Kept
  <2>2. Picks(s, T, 0, <<>>, [i \in 1..0 |-> 0])
    BY DEF Picks
  <2>. QED  BY <2>1, <2>2
<1>3. ASSUME NEW n \in 1..Len(s), n - 1 \in H
      PROVE  n \in H
  <2>. DEFINE r == g[n - 1]
  <2>1. PICK at : Picks(s, T, n - 1, r, at)
    BY <1>3
  <2>2. CASE s[n] \in T
    <3>. DEFINE q == Append(r, s[n])
                at2 == [i \in 1..(Len(r) + 1) |-> IF i = Len(r) + 1 THEN n ELSE at[i]]
    <3>1. g[n] = q
      BY <1>1, <2>2 DEF Kept
    <3>. r \in Seq(Jobs) /\ s[n] \in Jobs /\ Len(r) \in Nat
      BY <2>1 DEF Picks
    <3>2. q \in Seq(Jobs) /\ Len(q) = Len(r) + 1 /\ q[Len(r) + 1] = s[n]
          /\ \A i \in 1..Len(r) : q[i] = r[i]
      OBVIOUS
    <3>. HIDE DEF q, r
    <3>0. \A i \in 1..Len(r) : at[i] \in 1..(n - 1)
      BY <2>1 DEF Picks
    <3>3. \A i \in 1..Len(r) : at2[i] = at[i]
      <4>1. \A i \in 1..Len(r) : i \in 1..(Len(r) + 1) /\ i # Len(r) + 1
        OBVIOUS
      <4>. QED  BY <4>1
    <3>4. at2[Len(r) + 1] = n /\ at2 \in [1..(Len(r) + 1) -> 1..n]
      <4>1. \A i \in 1..(Len(r) + 1) : at2[i] \in 1..n
        <5>. SUFFICES ASSUME NEW i \in 1..(Len(r) + 1), i # Len(r) + 1
                      PROVE  at[i] \in 1..n
          OBVIOUS
        <5>1. i \in 1..Len(r)
          OBVIOUS
        <5>2. n \in Nat /\ at[i] \in 1..(n - 1)
          BY <3>0, <5>1
        <5>. QED  BY <5>2
      <4>. QED  BY <4>1
    <3>. HIDE DEF at2
    <3>5. \A i, h \in 1..(Len(r) + 1) : i < h => at2[i] < at2[h]
      <4>. SUFFICES ASSUME NEW i \in 1..(Len(r) + 1), NEW h \in 1..(Len(r) + 1), i < h
                    PROVE  at2[i] < at2[h]
        OBVIOUS
      <4>1. i \in 1..Len(r)
        OBVIOUS
      <4>2. CASE h = Len(r) + 1
        BY <3>0, <3>3, <3>4, <4>1, <4>2, SMTT(30)
      <4>3. CASE h # Len(r) + 1
        <5>1. h \in 1..Len(r)
          BY <4>3
        <5>. QED  BY <2>1, <3>3, <4>1, <5>1 DEF Picks
      <4>. QED  BY <4>2, <4>3
    <3>6. \A i \in 1..(Len(r) + 1) : q[i] = s[at2[i]] /\ q[i] \in T
      <4>. SUFFICES ASSUME NEW i \in 1..(Len(r) + 1)
                    PROVE  q[i] = s[at2[i]] /\ q[i] \in T
        OBVIOUS
      <4>1. CASE i = Len(r) + 1
        BY <2>2, <3>2, <3>4, <4>1
      <4>2. CASE i # Len(r) + 1
        <5>1. i \in 1..Len(r)
          BY <4>2
        <5>. QED  BY <2>1, <3>2, <3>3, <5>1 DEF Picks
      <4>. QED  BY <4>1, <4>2
    <3>7. ASSUME NEW m \in 1..n, s[m] \in T
          PROVE  \E i \in 1..(Len(r) + 1) : at2[i] = m
      <4>1. CASE m = n
        BY <3>4, <4>1
      <4>2. CASE m # n
        <5>1. m \in 1..(n - 1)
          BY <4>2
        <5>2. PICK i \in 1..Len(r) : at[i] = m
          BY <2>1, <3>7, <5>1 DEF Picks
        <5>. QED  BY <3>3, <5>2
      <4>. QED  BY <4>1, <4>2
    <3>8. Picks(s, T, n, q, at2)
      BY <3>2, <3>4, <3>5, <3>6, <3>7 DEF Picks
    <3>. QED  BY <3>1, <3>8
  <2>3. CASE s[n] \notin T
    <3>1. g[n] = r
      BY <1>1, <2>3 DEF Kept
    <3>. HIDE DEF r
    <3>2. at \in [1..Len(r) -> 1..n]
      BY <2>1 DEF Picks
    <3>3. ASSUME NEW m \in 1..n, s[m] \in T
          PROVE  \E i \in 1..Len(r) : at[i] = m
      <4>1. m \in 1..(n - 1)
        BY <2>3, <3>3
      <4>. QED  BY <2>1, <3>3, <4>1 DEF Picks
    <3>4. Picks(s, T, n, r, at)
      BY <2>1, <3>2, <3>3 DEF Picks
    <3>. QED  BY <3>1, <3>4
  <2>. QED  BY <2>2, <2>3
<1>4. H \in SUBSET Nat /\ Len(s) \in 0..Len(s)
  OBVIOUS
<1>. HIDE DEF H
<1>5. Len(s) \in H
  <2>1. Len(s) \in Nat
    OBVIOUS
  <2>2. \A i \in 1..Len(s) : i - 1 \in H => i \in H
    BY <1>3
  <2>3. \A i \in 0..Len(s) : i \in H
    BY <2>1, <2>2, <1>2, <1>4, UpTo
  <2>. QED  BY <2>1, <2>3
<1>. QED  BY <1>1, <1>4, <1>5 DEF H

LEMMA ThoseSet ==
  ASSUME NEW s \in Seq(Jobs), NEW T
  PROVE  /\ Those(s, T) \in Seq(Jobs)
         /\ ToSet(Those(s, T)) = ToSet(s) \cap T
         /\ IsInjective(s) => IsInjective(Those(s, T))
<1>. DEFINE r == Those(s, T)
<1>1. PICK at : Picks(s, T, Len(s), r, at)
  BY ThosePicks
<1>. HIDE DEF r
<1>2. r \in Seq(Jobs) /\ \A i \in 1..Len(r) : at[i] \in 1..Len(s) /\ r[i] = s[at[i]] /\ r[i] \in T
  BY <1>1 DEF Picks
<1>3. ToSet(r) \subseteq ToSet(s) \cap T
  BY <1>2 DEF ToSet
<1>4. ASSUME NEW x \in ToSet(s) \cap T
      PROVE  x \in ToSet(r)
  <2>1. PICK m \in 1..Len(s) : s[m] = x
    BY DEF ToSet
  <2>2. PICK i \in 1..Len(r) : at[i] = m
    BY <1>1, <2>1 DEF Picks
  <2>. QED  BY <1>2, <2>1, <2>2 DEF ToSet
<1>5. ASSUME IsInjective(s)
      PROVE  IsInjective(r)
  <2>. SUFFICES ASSUME NEW i \in 1..Len(r), NEW h \in 1..Len(r), r[i] = r[h]
                PROVE  i = h
    BY <1>2 DEF IsInjective
  <2>1. at[i] = at[h]
    BY <1>2, <1>5 DEF IsInjective
  <2>2. at[i] \in Nat /\ at[h] \in Nat /\ i \in Nat /\ h \in Nat
    BY <1>2
  <2>3. ~(i < h) /\ ~(h < i)
    BY <1>1, <2>1, <2>2 DEF Picks
  <2>. QED  BY <2>2, <2>3
<1>. QED  BY <1>2, <1>3, <1>4, <1>5 DEF r

LEMMA SetIs ==
  ASSUME NEW p \in Seq(Jobs)
  PROVE  /\ \A i \in 1..Len(p) : p[i] \in ToSet(p)
         /\ \A x \in ToSet(p) : \E i \in 1..Len(p) : p[i] = x
  BY DEF ToSet

LEMMA JoinSet ==
  ASSUME NEW p \in Seq(Jobs), NEW q \in Seq(Jobs)
  PROVE  /\ p \o q \in Seq(Jobs)
         /\ ToSet(p \o q) = ToSet(p) \cup ToSet(q)
         /\ (IsInjective(p) /\ IsInjective(q) /\ ToSet(p) \cap ToSet(q) = {}) =>
              IsInjective(p \o q)
<1>. DEFINE r == p \o q
<1>. Len(p) \in Nat /\ Len(q) \in Nat
  OBVIOUS
<1>1. r \in Seq(Jobs) /\ Len(r) = Len(p) + Len(q)
      /\ (\A i \in 1..Len(p) : r[i] = p[i])
      /\ \A i \in 1..Len(r) : i \notin 1..Len(p) => i - Len(p) \in 1..Len(q) /\ r[i] = q[i - Len(p)]
  OBVIOUS
<1>2. \A i \in 1..Len(q) : i + Len(p) \in 1..Len(r) /\ r[i + Len(p)] = q[i]
  OBVIOUS
<1>. HIDE DEF r
<1>3. \A i \in 1..Len(p) : i \in 1..Len(r)
  BY <1>1
<1>4. ToSet(r) \subseteq ToSet(p) \cup ToSet(q)
  <2>. SUFFICES ASSUME NEW x \in ToSet(r)
                PROVE  x \in ToSet(p) \/ x \in ToSet(q)
    OBVIOUS
  <2>1. PICK i \in 1..Len(r) : r[i] = x
    BY <1>1, SetIs
  <2>. QED  BY <1>1, <2>1, SetIs
<1>5. ToSet(p) \subseteq ToSet(r) /\ ToSet(q) \subseteq ToSet(r)
  <2>1. \A x \in ToSet(p) : x \in ToSet(r)
    BY <1>1, <1>3, SetIs
  <2>2. ASSUME NEW x \in ToSet(q)
        PROVE  x \in ToSet(r)
    <3>1. PICK i \in 1..Len(q) : q[i] = x
      BY SetIs
    <3>2. i + Len(p) \in 1..Len(r) /\ r[i + Len(p)] = x
      BY <1>2, <3>1
    <3>. QED  BY <1>1, <3>2, SetIs
  <2>. QED  BY <2>1, <2>2
<1>6. ASSUME IsInjective(p), IsInjective(q), ToSet(p) \cap ToSet(q) = {}
      PROVE  IsInjective(r)
  <2>. SUFFICES ASSUME NEW i \in 1..Len(r), NEW h \in 1..Len(r), r[i] = r[h]
                PROVE  i = h
    BY <1>1 DEF IsInjective
  <2>1. CASE i \in 1..Len(p) /\ h \in 1..Len(p)
    BY <1>1, <1>6, <2>1, SMTT(30) DEF IsInjective
  <2>2. CASE i \notin 1..Len(p) /\ h \notin 1..Len(p)
    <3>1. i - Len(p) = h - Len(p)
      BY <1>1, <1>6, <2>2, SMTT(30) DEF IsInjective
    <3>. QED  BY <3>1
  <2>3. CASE i \in 1..Len(p) /\ h \notin 1..Len(p)
    BY <1>1, <1>6, <2>3, SetIs, SMTT(30)
  <2>4. CASE i \notin 1..Len(p) /\ h \in 1..Len(p)
    BY <1>1, <1>6, <2>4, SetIs, SMTT(30)
  <2>. QED  BY <2>1, <2>2, <2>3, <2>4
<1>. QED  BY <1>1, <1>4, <1>5, <1>6 DEF r

LEMMA OneSet ==
  ASSUME NEW j \in Jobs
  PROVE  <<j>> \in Seq(Jobs) /\ ToSet(<<j>>) = {j} /\ IsInjective(<<j>>)
  BY DEF ToSet, IsInjective

\* A timer that was not in the list is in it once; so are the others.
LEMMA InsertSet ==
  ASSUME NEW ts \in Seq(Jobs), IsInjective(ts), NEW s \in [Jobs -> Nat],
         NEW j \in Jobs, j \notin ToSet(ts)
  PROVE  /\ Insert(ts, s, j) \in Seq(Jobs) /\ IsInjective(Insert(ts, s, j))
         /\ ToSet(Insert(ts, s, j)) = ToSet(ts) \cup {j}
<1>. DEFINE A == {t \in Jobs : s[t] < s[j]}  B == {t \in Jobs : s[t] >= s[j]}
            p == Those(ts, A)  q == Those(ts, B)
<1>1. A \cap B = {} /\ Jobs = A \cup B /\ ToSet(ts) \subseteq Jobs
  <2>1. \A t \in Jobs : s[t] \in Nat
    OBVIOUS
  <2>2. ToSet(ts) \subseteq Jobs
    BY DEF ToSet
  <2>. QED  BY <2>1, <2>2
<1>2. Insert(ts, s, j) = (p \o <<j>>) \o q
  BY DEF Insert
<1>. HIDE DEF A, B
<1>3. /\ p \in Seq(Jobs) /\ ToSet(p) = ToSet(ts) \cap A /\ IsInjective(p)
      /\ q \in Seq(Jobs) /\ ToSet(q) = ToSet(ts) \cap B /\ IsInjective(q)
  BY ThoseSet
<1>. HIDE DEF p, q
<1>4. p \o <<j>> \in Seq(Jobs) /\ ToSet(p \o <<j>>) = ToSet(p) \cup {j} /\ IsInjective(p \o <<j>>)
  <2>. DEFINE o == <<j>>
  <2>1. o \in Seq(Jobs) /\ ToSet(o) = {j} /\ IsInjective(o)
    BY OneSet
  <2>. HIDE DEF o
  <2>2. ToSet(p) \cap ToSet(o) = {}
    BY <1>3, <2>1
  <2>3. p \o o \in Seq(Jobs) /\ ToSet(p \o o) = ToSet(p) \cup ToSet(o) /\ IsInjective(p \o o)
    BY <1>3, <2>1, <2>2, JoinSet
  <2>. QED  BY <2>1, <2>3 DEF o
<1>. DEFINE u == p \o <<j>>
<1>. HIDE DEF u
<1>5. ToSet(u) \cap ToSet(q) = {}
  BY <1>1, <1>3, <1>4 DEF u
<1>6. u \in Seq(Jobs) /\ IsInjective(u) /\ ToSet(u) \cup ToSet(q) = ToSet(ts) \cup {j}
  BY <1>1, <1>3, <1>4 DEF u
<1>7. /\ u \o q \in Seq(Jobs) /\ IsInjective(u \o q)
      /\ ToSet(u \o q) = ToSet(ts) \cup {j}
  BY <1>3, <1>5, <1>6, JoinSet
<1>. QED  BY <1>2, <1>7 DEF u


\* What InsertAll has done with the first i of the new timers.
Holds(ts, s, new, i, q) ==
  /\ q \in Seq(Jobs) /\ IsInjective(q)
  /\ ToSet(q) = ToSet(ts) \cup {new[h] : h \in 1..i}

\* The function by which InsertAll is defined.
Held(ts, s, new, n, g) ==
  /\ DOMAIN g = 0..n /\ g = [i \in 0..n |-> g[i]]
  /\ g[0] = ts
  /\ \A i \in 1..n : g[i] = Insert(g[i - 1], s, new[i])

LEMMA HeldExists ==
  ASSUME NEW ts, NEW s, NEW new \in Seq(Jobs)
  PROVE  \E g : Held(ts, s, new, Len(new), g)
<1>. DEFINE H == {n \in Nat : \E g : Held(ts, s, new, n, g)}
<1>1. 0 \in H
  <2>1. Held(ts, s, new, 0, [i \in 0..0 |-> ts])
    BY DEF Held
  <2>. QED  BY <2>1
<1>2. ASSUME NEW n \in 1..Len(new), n - 1 \in H
      PROVE  n \in H
  <2>1. PICK g : Held(ts, s, new, n - 1, g)
    BY <1>2
  <2>. DEFINE e == Insert(g[n - 1], s, new[n])
              g2 == [i \in 0..n |-> IF i = n THEN e ELSE g[i]]
  <2>. HIDE DEF e
  <2>2. DOMAIN g2 = 0..n /\ g2[n] = e /\ \A i \in 0..(n - 1) : g2[i] = g[i]
    OBVIOUS
  <2>3. g2 = [i \in 0..n |-> g2[i]]
    OBVIOUS
  <2>. HIDE DEF g2
  <2>4. g2[0] = ts
    BY <2>1, <2>2 DEF Held
  <2>5. ASSUME NEW i \in 1..n
        PROVE  g2[i] = Insert(g2[i - 1], s, new[i])
    <3>1. CASE i = n
      <4>1. g2[n - 1] = g[n - 1]
        BY <2>2
      <4>. QED  BY <2>2, <3>1, <4>1 DEF e
    <3>2. CASE i # n
      <4>1. i \in 1..(n - 1) /\ i \in 0..(n - 1) /\ i - 1 \in 0..(n - 1)
        BY <3>2
      <4>2. g2[i] = g[i] /\ g2[i - 1] = g[i - 1]
        BY <2>2, <4>1
      <4>3. g[i] = Insert(g[i - 1], s, new[i])
        BY <2>1, <4>1 DEF Held
      <4>. QED  BY <4>2, <4>3
    <3>. QED  BY <3>1, <3>2
  <2>6. Held(ts, s, new, n, g2)
    BY <2>2, <2>3, <2>4, <2>5 DEF Held
  <2>. QED  BY <2>6
<1>. HIDE DEF H
<1>3. Len(new) \in H
  <2>1. H \in SUBSET Nat /\ Len(new) \in Nat
    BY DEF H
  <2>2. \A n \in 1..Len(new) : n - 1 \in H => n \in H
    BY <1>2
  <2>3. \A n \in 0..Len(new) : n \in H
    BY <1>1, <2>1, <2>2, UpTo
  <2>. QED  BY <2>1, <2>3
<1>. QED  BY <1>3 DEF H

LEMMA InsertAllHeld ==
  ASSUME NEW ts, NEW s, NEW new \in Seq(Jobs)
  PROVE  \E g : Held(ts, s, new, Len(new), g) /\ InsertAll(ts, s, new) = g[Len(new)]
<1>. DEFINE Entry(f, i) == IF i = 0 THEN ts ELSE Insert(f[i - 1], s, new[i])
            Eqn(f) == f = [i \in 0..Len(new) |-> Entry(f, i)]
            g == CHOOSE f : Eqn(f)
<1>1. InsertAll(ts, s, new) = g[Len(new)]
  BY DEF InsertAll
<1>2. PICK f : Held(ts, s, new, Len(new), f)
  BY HeldExists
<1>3. Eqn(f)
  <2>1. f = [i \in 0..Len(new) |-> f[i]]
    BY <1>2 DEF Held
  <2>2. \A i \in 0..Len(new) : f[i] = Entry(f, i)
    <3>. SUFFICES ASSUME NEW i \in 0..Len(new)
                  PROVE  f[i] = Entry(f, i)
      OBVIOUS
    <3>1. CASE i = 0
      BY <1>2, <3>1 DEF Held
    <3>2. CASE i # 0
      <4>1. i \in 1..Len(new)
        BY <3>2
      <4>. QED  BY <1>2, <3>2, <4>1 DEF Held
    <3>. QED  BY <3>1, <3>2
  <2>. HIDE DEF Entry
  <2>. QED  BY <2>1, <2>2
<1>4. Eqn(g)
  <2>. HIDE DEF Eqn
  <2>. QED  BY <1>3
<1>. HIDE DEF g
<1>5. DOMAIN g = 0..Len(new) /\ g = [i \in 0..Len(new) |-> g[i]]
      /\ \A i \in 0..Len(new) : g[i] = Entry(g, i)
  <2>. HIDE DEF Entry
  <2>. QED  BY <1>4
<1>6. g[0] = ts /\ \A i \in 1..Len(new) : g[i] = Insert(g[i - 1], s, new[i])
  <2>1. 0 \in 0..Len(new) /\ \A i \in 1..Len(new) : i \in 0..Len(new) /\ i # 0
    OBVIOUS
  <2>. QED  BY <1>5, <2>1
<1>7. Held(ts, s, new, Len(new), g)
  BY <1>5, <1>6 DEF Held
<1>. QED  BY <1>1, <1>7

\* New timers are in the list once, beside those that were.
LEMMA InsertAllSet ==
  ASSUME NEW ts \in Seq(Jobs), IsInjective(ts), NEW s \in [Jobs -> Nat],
         NEW new \in Seq(Jobs), IsInjective(new), ToSet(new) \cap ToSet(ts) = {}
  PROVE  /\ InsertAll(ts, s, new) \in Seq(Jobs) /\ IsInjective(InsertAll(ts, s, new))
         /\ ToSet(InsertAll(ts, s, new)) = ToSet(ts) \cup ToSet(new)
<1>1. PICK g : Held(ts, s, new, Len(new), g) /\ InsertAll(ts, s, new) = g[Len(new)]
  BY InsertAllHeld
<1>. DEFINE H == {i \in 0..Len(new) : Holds(ts, s, new, i, g[i])}
<1>. Len(new) \in Nat
  OBVIOUS
<1>2. 0 \in H
  <2>1. {new[h] : h \in 1..0} = {} /\ g[0] = ts
    BY <1>1 DEF Held
  <2>. QED  BY <2>1 DEF Holds
<1>3. ASSUME NEW i \in 1..Len(new), i - 1 \in H
      PROVE  i \in H
  <2>. DEFINE q == g[i - 1]  r == Insert(q, s, new[i])
  <2>1. q \in Seq(Jobs) /\ IsInjective(q) /\ ToSet(q) = ToSet(ts) \cup {new[h] : h \in 1..(i - 1)}
    BY <1>3 DEF Holds
  <2>2. g[i] = r
    BY <1>1 DEF Held
  <2>. HIDE DEF q
  <2>3. new[i] \in Jobs /\ new[i] \notin ToSet(q)
    <3>1. new[i] \in ToSet(new)
      BY SetIs
    <3>2. ASSUME NEW h \in 1..(i - 1), new[h] = new[i]
          PROVE  FALSE
      <4>1. h \in 1..Len(new) /\ h # i
        OBVIOUS
      <4>. QED  BY <3>2, <4>1 DEF IsInjective
    <3>3. new[i] \notin {new[h] : h \in 1..(i - 1)} /\ new[i] \notin ToSet(ts)
      BY <3>1, <3>2
    <3>4. new[i] \in Jobs
      OBVIOUS
    <3>. QED  BY <2>1, <3>3, <3>4
  <2>4. r \in Seq(Jobs) /\ IsInjective(r) /\ ToSet(r) = ToSet(q) \cup {new[i]}
    BY <2>1, <2>3, InsertSet
  <2>. HIDE DEF r
  <2>5. {new[h] : h \in 1..(i - 1)} \cup {new[i]} = {new[h] : h \in 1..i}
    <3>1. \A h : h \in 1..i <=> (h \in 1..(i - 1) \/ h = i)
      OBVIOUS
    <3>. QED  BY <3>1
  <2>6. Holds(ts, s, new, i, r)
    BY <2>1, <2>4, <2>5 DEF Holds
  <2>. QED  BY <2>2, <2>6
<1>4. H \in SUBSET Nat
  OBVIOUS
<1>. HIDE DEF H
<1>5. \A i \in 0..Len(new) : i \in H
  <2>1. \A i \in 1..Len(new) : i - 1 \in H => i \in H
    BY <1>3
  <2>. QED  BY <1>2, <1>4, <2>1, UpTo
<1>6. Holds(ts, s, new, Len(new), g[Len(new)])
  BY <1>5 DEF H
<1>7. {new[h] : h \in 1..Len(new)} = ToSet(new)
  BY DEF ToSet
<1>. QED  BY <1>1, <1>6, <1>7 DEF Holds
-----------------------------------------------------------------------------
(* Nobody is stranded, and cancellation is final.                           *)

AllThreads == Threads \cup {Runner}

\* The part of TypeOK on which the argument rests.
Types ==
  /\ enabled \in [CPoints -> {"on", "closing", "off"}]
  /\ pinging \in [AllThreads -> BOOLEAN]
  /\ stage \in {"timers", "jobs"}

\* Posted jobs that the runner has not taken have opened its gate, or are
\* about to, or the runner is about to take them.
Noticed == safe # <<>> =>
             pinged \/ (\E t \in AllThreads : pinging[t]) \/ pc = "drain"

\* run() returns for good only when every list is empty.
Emptied == pc = "asleep" => \A k \in Classes : lists[k] = <<>>

Inv == Types /\ Noticed /\ Emptied /\ SyncCancelIsFinal

LEMMA InitInv == Init => Inv
  BY DEF Init, Inv, Types, AllThreads, Noticed, Emptied, SyncCancelIsFinal, Guarded

\* A thread that posts into the empty queue is going to open the gate.
LEMMA PostInv ==
  ASSUME Inv, NEW t \in AllThreads, NEW j \in Jobs, Post(t, j)
  PROVE  Inv'
<1> USE DEF Inv
<1>1. Types'
  BY DEF Post, Types, runnerVars
<1>2. Noticed'
  <2>1. CASE safe = <<>>
    <3>1. pinging'[t]
      BY <2>1 DEF Post, Types
    <3>. QED  BY <3>1 DEF Noticed
  <2>2. CASE safe # <<>> /\ pinged
    BY <2>2 DEF Post, Noticed
  <2>3. CASE safe # <<>> /\ pc = "drain"
    BY <2>3 DEF Post, Noticed, runnerVars
  <2>4. ASSUME NEW u \in AllThreads, pinging[u], safe # <<>>
        PROVE  Noticed'
    <3>1. pinging'[u]
      BY <2>4 DEF Post, Types, MayCall
    <3>. QED  BY <3>1 DEF Noticed
  <2>. QED  BY <2>1, <2>2, <2>3, <2>4 DEF Noticed
<1>3. Emptied' /\ SyncCancelIsFinal'
  BY DEF Post, runnerVars, Emptied, SyncCancelIsFinal, Guarded
<1>. QED  BY <1>1, <1>2, <1>3

\* The gate is open when add() returns.
LEMMA PingInv ==
  ASSUME Inv, NEW t \in AllThreads, Ping(t)
  PROVE  Inv'
<1> USE DEF Inv
<1>1. Types'
  BY DEF Ping, Types, runnerVars
<1>2. Noticed'
  BY DEF Ping, Noticed
<1>3. Emptied' /\ SyncCancelIsFinal'
  BY DEF Ping, runnerVars, Emptied, SyncCancelIsFinal, Guarded
<1>. QED  BY <1>1, <1>2, <1>3

\* disable() of an asynchronous point does not wait, and that of a
\* synchronous point has only begun.
LEMMA CancelInv ==
  ASSUME Inv, NEW t \in AllThreads, NEW c \in CPoints, Cancel(t, c)
  PROVE  Inv'
<1> USE DEF Inv
<1>1. Types'
  BY DEF Cancel, Types, runnerVars
<1>2. Noticed' /\ Emptied'
  BY DEF Cancel, runnerVars, Noticed, Emptied
<1>3. SyncCancelIsFinal'
  <2>. SUFFICES ASSUME NEW d \in Sync, enabled'[d] = "off"
                PROVE  ~Guarded(d)'
    BY DEF SyncCancelIsFinal
  <2>1. enabled[d] = "off"
    BY JobsAssumption DEF Cancel, Types
  <2>. QED  BY <2>1 DEF Cancel, runnerVars, SyncCancelIsFinal, Guarded
<1>. QED  BY <1>1, <1>2, <1>3

\* set() returns only when the runner's guard on TRUE is gone.
LEMMA CancelledInv ==
  ASSUME Inv, NEW c \in Sync, Cancelled(c)
  PROVE  Inv'
<1> USE DEF Inv
<1>1. Types'
  BY DEF Cancelled, Types, runnerVars
<1>2. Noticed' /\ Emptied'
  BY DEF Cancelled, runnerVars, Noticed, Emptied
<1>3. SyncCancelIsFinal'
  <2>. SUFFICES ASSUME NEW d \in Sync, enabled'[d] = "off"
                PROVE  ~Guarded(d)'
    BY DEF SyncCancelIsFinal
  <2>1. d = c \/ enabled[d] = "off"
    BY DEF Cancelled, Types
  <2>. QED  BY <2>1 DEF Cancelled, runnerVars, SyncCancelIsFinal, Guarded
<1>. QED  BY <1>1, <1>2, <1>3

\* The steps of the runner.
LEMMA RunnerInv ==
  ASSUME Inv, RunnerStep
  PROVE  Inv'
<1> USE DEF Inv, shared, Guarded
<1>1. CASE Wake
  BY <1>1 DEF Wake, Types, Noticed, Emptied, SyncCancelIsFinal
<1>2. CASE Drain
  <2>1. safe' = <<>> /\ pc' = stage /\ UNCHANGED <<enabled, pinging, stage>>
    BY <1>2 DEF Drain
  <2>. QED  BY <2>1 DEF Types, Noticed, Emptied, SyncCancelIsFinal
<1>3. CASE TakeTimer
  BY <1>3 DEF TakeTimer, Types, Noticed, Emptied, SyncCancelIsFinal
<1>4. CASE TimersDone
  BY <1>4 DEF TimersDone, Types, Noticed, Emptied, SyncCancelIsFinal
<1>5. CASE TakeJob
  BY <1>5 DEF TakeJob, Types, Noticed, Emptied, SyncCancelIsFinal
<1>6. CASE RunReturns
  BY <1>6 DEF RunReturns, Types, Noticed, Emptied, SyncCancelIsFinal
<1>7. CASE Enter
  BY <1>7 DEF Enter, Types, Noticed, Emptied, SyncCancelIsFinal
<1>8. CASE Skip
  BY <1>8 DEF Skip, Types, Noticed, Emptied, SyncCancelIsFinal
<1>9. CASE Leave
  BY <1>9 DEF Leave, Types, Noticed, Emptied, SyncCancelIsFinal
<1>. QED  BY <1>1, <1>2, <1>3, <1>4, <1>5, <1>6, <1>7, <1>8, <1>9 DEF RunnerStep

\* Inv is inductive.
THEOREM Invariance == Spec => []Inv
<1>1. Init => Inv
  BY InitInv
<1>2. Inv /\ [Next]_vars => Inv'
  <2>. SUFFICES ASSUME Inv, [Next]_vars
                PROVE  Inv'
    OBVIOUS
  <2>1. CASE Tick
    BY <2>1 DEF Tick, shared, runnerVars, Inv, Types, Noticed, Emptied,
                SyncCancelIsFinal, Guarded
  <2>2. CASE \E t \in AllThreads, j \in Jobs : Post(t, j)
    BY <2>2, PostInv
  <2>3. CASE \E t \in AllThreads : Ping(t)
    BY <2>3, PingInv
  <2>4. CASE \E t \in AllThreads, c \in CPoints : Cancel(t, c)
    BY <2>4, CancelInv
  <2>5. CASE \E c \in Sync : Cancelled(c)
    BY <2>5, CancelledInv
  <2>6. CASE RunnerStep
    BY <2>6, RunnerInv
  <2>7. CASE UNCHANGED vars
    BY <2>7 DEF vars, shared, runnerVars, Inv, Types, Noticed, Emptied,
                SyncCancelIsFinal, Guarded
  <2>. QED  BY <2>1, <2>2, <2>3, <2>4, <2>5, <2>6, <2>7 DEF Next, AllThreads
<1>. QED  BY <1>1, <1>2, PTL DEF Spec

\* The runner of an event queue never sleeps while jobs are posted that
\* nobody is going to wake it for, and never with jobs in its lists.
THEOREM NobodyStranded == Spec => []NoJobStranded
<1>1. Inv => NoJobStranded
  BY DEF Inv, Noticed, Emptied, NoJobStranded, AllThreads
<1>. QED  BY <1>1, Invariance, PTL

\* When disable() of a synchronous cancellation point has returned, none of
\* its jobs is being called back, so that what they use may be deleted.
THEOREM SyncCancelHolds == Spec => []SyncCancelIsFinal
<1>1. Inv => SyncCancelIsFinal
  BY DEF Inv
<1>. QED  BY <1>1, Invariance, PTL


-----------------------------------------------------------------------------
(* Types.                                                                   *)

\* What Drain inserts.
New == {j \in Jobs : \E i \in 1..Len(safe) : safe[i] = j /\ Class[j] = "timer"}

LEMMA TakenSet ==
  ASSUME safe \in Seq(Jobs), NEW k
  PROVE  Taken(k) \in Seq(Jobs) /\ ToSet(Taken(k)) = ToSet(safe) \cap Of(k)
         /\ (IsInjective(safe) => IsInjective(Taken(k)))
  BY ThoseSet DEF Taken

LEMMA InsertType ==
  ASSUME NEW ts \in Seq(Jobs), NEW s, NEW j \in Jobs
  PROVE  Insert(ts, s, j) \in Seq(Jobs)
<1>1. \A T : Those(ts, T) \in Seq(Jobs)
  BY ThoseSet
<1>2. \A p, q \in Seq(Jobs) : p \o q \in Seq(Jobs)
  OBVIOUS
<1>3. <<j>> \in Seq(Jobs)
  OBVIOUS
<1>. QED  BY <1>1, <1>2, <1>3 DEF Insert

LEMMA InsertAllType ==
  ASSUME NEW ts \in Seq(Jobs), NEW s, NEW new \in Seq(Jobs)
  PROVE  InsertAll(ts, s, new) \in Seq(Jobs)
<1>1. PICK g : Held(ts, s, new, Len(new), g) /\ InsertAll(ts, s, new) = g[Len(new)]
  BY InsertAllHeld
<1>. DEFINE H == {i \in 0..Len(new) : g[i] \in Seq(Jobs)}
<1>. Len(new) \in Nat /\ H \in SUBSET Nat
  OBVIOUS
<1>2. 0 \in H
  BY <1>1 DEF Held
<1>3. ASSUME NEW i \in 1..Len(new), i - 1 \in H
      PROVE  i \in H
  <2>1. g[i] = Insert(g[i - 1], s, new[i])
    BY <1>1 DEF Held
  <2>2. g[i - 1] \in Seq(Jobs) /\ new[i] \in Jobs
    BY <1>3
  <2>. QED  BY <2>1, <2>2, InsertType
<1>. HIDE DEF H
<1>4. \A i \in 0..Len(new) : i \in H
  <2>1. \A i \in 1..Len(new) : i - 1 \in H => i \in H
    BY <1>3
  <2>. QED  BY <1>2, <2>1, UpTo
<1>. QED  BY <1>1, <1>4 DEF H

LEMMA TypeStep ==
  ASSUME TypeOK, [Next]_vars
  PROVE  TypeOK'
<1>. USE JobsAssumption, TimeAssumption
<1>1. CASE Tick
  BY <1>1 DEF Tick, TypeOK, shared, runnerVars
<1>2. ASSUME NEW t \in AllThreads, NEW j \in Jobs, Post(t, j)
      PROVE  TypeOK'
  <2>1. safe' \in Seq(Jobs) /\ posted' \in Seq(Jobs)
    BY <1>2 DEF Post, TypeOK
  <2>2. pinging' \in [AllThreads -> BOOLEAN]
    BY <1>2 DEF Post, TypeOK, AllThreads
  <2>3. fate' \in [Jobs -> {"new", "queued", "ran", "dropped"}]
    BY <1>2 DEF Post, TypeOK
  <2>. QED  BY <1>2, <2>1, <2>2, <2>3 DEF Post, TypeOK, runnerVars, AllThreads
<1>3. ASSUME NEW t \in AllThreads, Ping(t)
      PROVE  TypeOK'
  BY <1>3 DEF Ping, TypeOK, runnerVars, history, AllThreads
<1>4. ASSUME NEW t \in AllThreads, NEW c \in CPoints, Cancel(t, c)
      PROVE  TypeOK'
  BY <1>4 DEF Cancel, TypeOK, runnerVars, history
<1>5. ASSUME NEW c \in Sync, Cancelled(c)
      PROVE  TypeOK'
  BY <1>5 DEF Cancelled, TypeOK, runnerVars, history
<1>6. CASE Wake
  <2>1. clock \in Nat
    BY DEF TypeOK
  <2>2. now' \in Nat /\ act' \in BOOLEAN /\ pinged' \in BOOLEAN
    BY <1>6, <2>1 DEF Wake
  <2>3. cur \in {NoJob}
    BY <1>6 DEF Wake, TypeOK
  <2>. QED  BY <1>6, <2>2, <2>3 DEF Wake, TypeOK, history
<1>7. CASE Drain
  <2>1. lists' \in [Classes -> Seq(Jobs)]
    <3>1. \A k \in Classes : lists[k] \in Seq(Jobs) /\ Taken(k) \in Seq(Jobs)
      BY TakenSet DEF TypeOK
    <3>2. \A p, q \in Seq(Jobs) : p \o q \in Seq(Jobs)
      OBVIOUS
    <3>3. lists' = [k \in Classes |-> lists[k] \o Taken(k)]
      BY <1>7 DEF Drain
    <3>. QED  BY <3>1, <3>2, <3>3
  <2>2. sched' \in [Jobs -> Nat] /\ start' \in [Jobs -> Nat]
    <3>1. /\ sched' = [j \in Jobs |-> IF j \in New THEN clock + Period ELSE sched[j]]
          /\ start' = [j \in Jobs |-> IF j \in New THEN clock ELSE start[j]]
      BY <1>7 DEF Drain, New
    <3>2. clock \in Nat /\ clock + Period \in Nat /\ sched \in [Jobs -> Nat] /\ start \in [Jobs -> Nat]
      BY DEF TypeOK
    <3>. QED  BY <3>1, <3>2
  <2>3. timers' \in Seq(Jobs)
    <3>1. timers' = InsertAll(timers, sched', Taken("timer"))
      BY <1>7 DEF Drain
    <3>2. timers \in Seq(Jobs) /\ Taken("timer") \in Seq(Jobs)
      BY TakenSet DEF TypeOK
    <3>. QED  BY <3>1, <3>2, InsertAllType
  <2>4. /\ safe' = <<>> /\ pc' = stage
        /\ UNCHANGED <<enabled, pinged, pinging, stage, cur, now, act, clock, posted, fate, calls>>
        /\ pc = "drain"
    BY <1>7 DEF Drain
  <2>. QED  BY <2>1, <2>2, <2>3, <2>4 DEF TypeOK
<1>8. CASE TakeTimer
  <2>1. cur' \in Jobs /\ timers' \in Seq(Jobs)
    BY <1>8 DEF TakeTimer, Due, TypeOK
  <2>. QED  BY <1>8, <2>1 DEF TakeTimer, TypeOK, shared, history
<1>9. CASE TimersDone
  BY <1>9 DEF TimersDone, TypeOK, shared, history
<1>10. CASE TakeJob
  <2>1. PICK k \in Classes : /\ lists[k] # <<>> /\ cur' = Head(lists[k])
                             /\ lists' = [lists EXCEPT ![k] = Tail(@)]
    BY <1>10 DEF TakeJob, Classes
  <2>2. lists[k] \in Seq(Jobs)
    BY DEF TypeOK
  <2>3. cur' \in Jobs /\ Tail(lists[k]) \in Seq(Jobs)
    BY <2>1, <2>2
  <2>4. lists' \in [Classes -> Seq(Jobs)]
    BY <2>1, <2>3 DEF TypeOK
  <2>5. pc' = "guard" /\ UNCHANGED <<shared, stage, timers, sched, now, act, history>>
    BY <1>10 DEF TakeJob
  <2>. QED  BY <2>3, <2>4, <2>5 DEF TypeOK, shared, history
<1>11. CASE RunReturns
  <2>1. clock \in Nat /\ cur \in {NoJob}
    BY <1>11 DEF RunReturns, TypeOK
  <2>2. CASE act
    BY <1>11, <2>1, <2>2 DEF RunReturns, TypeOK, shared, history
  <2>3. CASE ~act
    BY <1>11, <2>1, <2>3 DEF RunReturns, TypeOK, shared, history
  <2>. QED  BY <2>2, <2>3
<1>12. CASE Enter
  BY <1>12, SMTT(30) DEF Enter, TypeOK, shared
<1>13. CASE Skip
  BY <1>13 DEF Skip, TypeOK, shared
<1>14. CASE Leave
  <2>1. cur \in Jobs
    BY <1>14 DEF Leave, TypeOK
  <2>2. CASE Class[cur] = "timer"
    <3>1. sched' \in [Jobs -> Nat]
      <4>1. sched' = [sched EXCEPT ![cur] = sched[cur] + Period]
        BY <1>14, <2>2 DEF Leave
      <4>2. sched \in [Jobs -> Nat] /\ sched[cur] + Period \in Nat
        BY <2>1 DEF TypeOK
      <4>. QED  BY <4>1, <4>2
    <3>2. timers' \in Seq(Jobs)
      BY <1>14, <2>1, <2>2, InsertType DEF Leave, TypeOK
    <3>. QED  BY <1>14, <2>2, <3>1, <3>2 DEF Leave, TypeOK, shared
  <2>3. CASE Class[cur] # "timer"
    BY <1>14, <2>1, <2>3 DEF Leave, TypeOK, shared
  <2>. QED  BY <2>2, <2>3
<1>15. CASE UNCHANGED vars
  BY <1>15 DEF vars, shared, runnerVars, history, TypeOK
<1>. QED  BY <1>1, <1>2, <1>3, <1>4, <1>5, <1>6, <1>7, <1>8, <1>9, <1>10, <1>11, <1>12,
             <1>13, <1>14, <1>15 DEF Next, RunnerStep, AllThreads

-----------------------------------------------------------------------------
(* Order and time.                                                          *)

\* How many of the posted jobs the runner has moved to its own lists, and
\* which: the first that were posted.
Moved == Len(posted) - Len(safe)
MovedJobs == {posted[m] : m \in 1..Moved}

\* safe_ holds the last of the posted jobs.
Line ==
  /\ IsInjective(posted)
  /\ \A j \in Jobs : j \in ToSet(posted) <=> fate[j] # "new"
  /\ Len(safe) <= Len(posted)
  /\ \A i \in 1..Len(safe) : safe[i] = posted[Moved + i]

\* The runner's lists hold, in the order in which they were posted, jobs of
\* their class; and every job that was moved and has not begun.
InLists ==
  /\ \A k \in Classes : ToSet(lists[k]) \subseteq Of(k) \cap MovedJobs
  /\ \A k \in Classes : \A i, h \in 1..Len(lists[k]), m, n \in 1..Len(posted) :
       (i < h /\ posted[m] = lists[k][i] /\ posted[n] = lists[k][h]) => m < n
  /\ \A j \in MovedJobs :
       (Class[j] # "timer" /\ ~Begun(j)) => j \in ToSet(lists[Class[j]])

\* A timer is in the list once, and not while it is called.
InTimers ==
  /\ IsInjective(timers)
  /\ ToSet(timers) \subseteq Of("timer") \cap MovedJobs
  /\ cur \in Jobs => cur \in MovedJobs \ ToSet(timers)

\* A timer is scheduled for the period after its last call; while it is
\* called, for the call that it is.
Times ==
  /\ \A j \in ToSet(timers) : sched[j] = start[j] + (calls[j] + 1) * Period
  /\ \A j \in Jobs \ MovedJobs : calls[j] = 0 /\ start[j] = 0
  /\ now <= clock
  /\ \A j \in Jobs : Class[j] = "timer" => start[j] + calls[j] * Period <= clock
  /\ (cur \in Jobs /\ Class[cur] = "timer" /\ pc = "guard") =>
       sched[cur] = start[cur] + (calls[cur] + 1) * Period /\ sched[cur] <= now
  /\ (cur \in Jobs /\ Class[cur] = "timer" /\ pc = "callback") =>
       sched[cur] = start[cur] + calls[cur] * Period

Order == TypeOK /\ Line /\ InLists /\ InTimers /\ Times /\ RunsInOrder

LEMMA LineFacts ==
  ASSUME TypeOK, Line
  PROVE  /\ Moved \in Nat /\ Len(posted) = Moved + Len(safe)
         /\ \A m \in 1..Moved : m \in 1..Len(posted) /\ posted[m] \in MovedJobs
         /\ \A m \in 1..Len(posted) : posted[m] \in MovedJobs => m \in 1..Moved
         /\ MovedJobs \subseteq Jobs
         /\ IsInjective(safe)
         /\ ToSet(safe) \cap MovedJobs = {}
         /\ ToSet(posted) = MovedJobs \cup ToSet(safe)
         /\ \A j \in MovedJobs : fate[j] # "new"
<1>. safe \in Seq(Jobs) /\ posted \in Seq(Jobs)
  BY DEF TypeOK
<1>1. Moved \in Nat /\ Len(posted) = Moved + Len(safe) /\ Len(safe) \in Nat
  BY DEF Moved, Line
<1>2. \A m \in 1..Moved : m \in 1..Len(posted) /\ posted[m] \in MovedJobs
  BY <1>1 DEF MovedJobs
<1>3. \A m, n \in 1..Len(posted) : posted[m] = posted[n] => m = n
  BY DEF Line, IsInjective
<1>4. \A m \in 1..Len(posted) : posted[m] \in MovedJobs => m \in 1..Moved
  BY <1>2, <1>3 DEF MovedJobs
<1>5. MovedJobs \subseteq Jobs
  BY <1>2 DEF MovedJobs
<1>6. \A i \in 1..Len(safe) : Moved + i \in 1..Len(posted) /\ Moved + i \notin 1..Moved
                              /\ safe[i] = posted[Moved + i]
  BY <1>1 DEF Line
<1>7. IsInjective(safe)
  <2>. SUFFICES ASSUME NEW i \in 1..Len(safe), NEW h \in 1..Len(safe), safe[i] = safe[h]
                PROVE  i = h
    BY DEF IsInjective
  <2>1. Moved + i = Moved + h
    BY <1>3, <1>6
  <2>. QED  BY <1>1, <2>1
<1>8. ToSet(safe) \cap MovedJobs = {}
  <2>. SUFFICES ASSUME NEW x \in ToSet(safe), x \in MovedJobs
                PROVE  FALSE
    OBVIOUS
  <2>1. PICK i \in 1..Len(safe) : safe[i] = x
    BY SetIs
  <2>. QED  BY <1>4, <1>6, <2>1
<1>9. ToSet(posted) \subseteq MovedJobs \cup ToSet(safe)
  <2>. SUFFICES ASSUME NEW x \in ToSet(posted), x \notin MovedJobs
                PROVE  x \in ToSet(safe)
    OBVIOUS
  <2>1. PICK m \in 1..Len(posted) : posted[m] = x
    BY SetIs
  <2>2. m - Moved \in 1..Len(safe) /\ Moved + (m - Moved) = m
    BY <1>1, <1>2, <2>1
  <2>3. safe[m - Moved] = x
    BY <1>6, <2>1, <2>2
  <2>. QED  BY <2>2, <2>3, SetIs
<1>10. MovedJobs \subseteq ToSet(posted) /\ ToSet(safe) \subseteq ToSet(posted)
  <2>1. \A j \in MovedJobs : j \in ToSet(posted)
    BY <1>2, SetIs DEF MovedJobs
  <2>2. \A j \in ToSet(safe) : j \in ToSet(posted)
    BY <1>6, SetIs
  <2>. QED  BY <2>1, <2>2
<1>11. \A j \in MovedJobs : fate[j] # "new"
  BY <1>5, <1>10 DEF Line
<1>. QED  BY <1>1, <1>2, <1>4, <1>5, <1>7, <1>8, <1>9, <1>10, <1>11

\* Jobs other than timers that have begun.
BegunJobs == {j \in Jobs : Class[j] # "timer" /\ Begun(j)}

\* Steps that begin no job and move none.
LEMMA SameOrder ==
  ASSUME Order, TypeOK', UNCHANGED <<safe, posted, lists>>, BegunJobs' = BegunJobs,
         \A j \in Jobs : fate'[j] = "new" <=> fate[j] = "new"
  PROVE  Line' /\ InLists' /\ RunsInOrder' /\ MovedJobs' = MovedJobs
<1>1. Line' /\ MovedJobs' = MovedJobs /\ Moved' = Moved
  BY DEF Order, Line, Moved, MovedJobs
<1>2. \A j \in Jobs : Class[j] # "timer" => (Begun(j)' <=> Begun(j))
  BY DEF BegunJobs
<1>3. MovedJobs \subseteq Jobs
  BY LineFacts DEF Order
<1>4. InLists'
  <2>1. \A j \in MovedJobs' :
          (Class[j] # "timer" /\ ~Begun(j)') => j \in ToSet(lists'[Class[j]])
    BY <1>1, <1>2, <1>3 DEF Order, InLists
  <2>. QED  BY <1>1, <2>1 DEF Order, InLists, Of
<1>5. RunsInOrder'
  <2>1. \A i \in 1..Len(posted) : posted[i] \in Jobs
    BY DEF Order, TypeOK
  <2>2. \A k \in 1..Len(posted) : \A i \in 1..(k - 1) : i \in 1..Len(posted)
    BY DEF Order, TypeOK
  <2>. SUFFICES ASSUME NEW k \in 1..Len(posted), NEW i \in 1..(k - 1),
                       Class[posted[i]] # "timer", Class[posted[k]] # "timer",
                       Begun(posted[k])', Priority(posted[i]) <= Priority(posted[k])
                PROVE  Begun(posted[i])'
    BY DEF RunsInOrder, Priority, Begun
  <2>3. Begun(posted[k])
    BY <1>2, <2>1
  <2>4. Begun(posted[i])
    BY <2>3 DEF Order, RunsInOrder
  <2>. QED  BY <1>2, <2>1, <2>2, <2>4
<1>. QED  BY <1>1, <1>4, <1>5

LEMMA QuietOrder ==
  ASSUME Order, TypeOK',
         UNCHANGED <<safe, posted, lists, timers, sched, start, calls, fate, cur>>,
         clock' >= clock, now' <= clock', (pc' = pc /\ now' = now) \/ cur = NoJob
  PROVE  Order'
<1>1. BegunJobs' = BegunJobs
  BY DEF BegunJobs, Begun
<1>2. Line' /\ InLists' /\ RunsInOrder' /\ MovedJobs' = MovedJobs
  BY <1>1, SameOrder
<1>3. InTimers'
  BY <1>2 DEF Order, InTimers, Of
<1>4. Times'
  <2>1. ASSUME NEW j \in Jobs, Class[j] = "timer"
        PROVE  start[j] + calls[j] * Period <= clock'
    <3>1. start[j] + calls[j] * Period <= clock
      BY <2>1 DEF Order, Times
    <3>2. PICK e \in Int : e = start[j] + calls[j] * Period
      BY <2>1, TimeAssumption DEF Order, TypeOK
    <3>3. clock \in Int /\ clock' \in Int
      BY DEF Order, TypeOK
    <3>. QED  BY <3>1, <3>2, <3>3
  <2>2. cur = NoJob => cur \notin Jobs
    BY JobsAssumption
  <2>. QED  BY <1>2, <2>1, <2>2 DEF Order, Times
<1>. QED  BY <1>2, <1>3, <1>4 DEF Order

LEMMA PostOrder ==
  ASSUME Order, TypeOK', NEW t \in AllThreads, NEW j \in Jobs, Post(t, j)
  PROVE  Order'
<1>. TypeOK /\ Line /\ InLists /\ InTimers /\ Times /\ RunsInOrder
  BY DEF Order
<1>. posted \in Seq(Jobs) /\ safe \in Seq(Jobs)
  BY DEF TypeOK
<1>. Len(posted) \in Nat /\ Len(safe) \in Nat
  OBVIOUS
<1>1. posted' = Append(posted, j) /\ safe' = Append(safe, j) /\ fate[j] = "new"
      /\ fate' = [fate EXCEPT ![j] = "queued"]
  BY DEF Post
<1>2. UNCHANGED <<lists, timers, sched, cur, now, pc, clock, start, calls>>
  BY DEF Post, runnerVars
<1>3. /\ Len(posted') = Len(posted) + 1 /\ posted'[Len(posted) + 1] = j
      /\ \A i \in 1..Len(posted) : posted'[i] = posted[i]
      /\ Len(safe') = Len(safe) + 1 /\ safe'[Len(safe) + 1] = j
      /\ \A i \in 1..Len(safe) : safe'[i] = safe[i]
  BY <1>1
<1>4. j \notin ToSet(posted) /\ j \notin MovedJobs /\ \A i \in 1..Len(posted) : posted[i] # j
  BY <1>1, LineFacts, SetIs DEF Line
<1>5. Moved' = Moved /\ Moved \in Nat /\ Len(posted) = Moved + Len(safe)
  BY <1>3, LineFacts DEF Moved
<1>6. MovedJobs' = MovedJobs /\ MovedJobs \subseteq Jobs
  BY <1>3, <1>5, LineFacts DEF MovedJobs
<1>7. \A k \in Jobs \ {j} : fate'[k] = fate[k]
  BY <1>1 DEF TypeOK
<1>8. fate'[j] = "queued"
  BY <1>1 DEF TypeOK
<1>9. Line'
  <2>1. IsInjective(posted')
    <3>. SUFFICES ASSUME NEW i \in 1..(Len(posted) + 1), NEW h \in 1..(Len(posted) + 1),
                         posted'[i] = posted'[h]
                  PROVE  i = h
      BY <1>3 DEF IsInjective
    <3>1. CASE i \in 1..Len(posted) /\ h \in 1..Len(posted)
      <4>1. posted[i] = posted[h]
        BY <1>3, <3>1
      <4>2. \A m, n \in 1..Len(posted) : posted[m] = posted[n] => m = n
        BY DEF Line, IsInjective
      <4>. QED  BY <3>1, <4>1, <4>2
    <3>2. CASE i = Len(posted) + 1 \/ h = Len(posted) + 1
      BY <1>3, <1>4, <3>2
    <3>. QED  BY <3>1, <3>2
  <2>2. ASSUME NEW k \in Jobs
        PROVE  k \in ToSet(posted') <=> fate'[k] # "new"
    <3>1. ToSet(posted') = ToSet(posted) \cup {j}
      <4>1. posted' = posted \o <<j>>
        BY <1>1
      <4>. DEFINE o == <<j>>
      <4>2. o \in Seq(Jobs) /\ ToSet(o) = {j}
        BY OneSet
      <4>. HIDE DEF o
      <4>3. ToSet(posted \o o) = ToSet(posted) \cup {j}
        BY <4>2, JoinSet
      <4>. QED  BY <4>1, <4>3 DEF o
    <3>. QED  BY <1>7, <1>8, <3>1 DEF Line
  <2>3. Len(safe') <= Len(posted')
    BY <1>3 DEF Line
  <2>4. ASSUME NEW i \in 1..Len(safe')
        PROVE  safe'[i] = posted'[Moved' + i]
    <3>1. CASE i = Len(safe) + 1
      BY <1>3, <1>5, <3>1
    <3>2. CASE i \in 1..Len(safe)
      <4>1. Moved + i \in 1..Len(posted)
        BY <1>5, <3>2
      <4>2. safe[i] = posted[Moved + i]
        BY <3>2 DEF Line
      <4>. QED  BY <1>3, <1>5, <3>2, <4>1, <4>2
    <3>. QED  BY <1>3, <3>1, <3>2
  <2>. QED  BY <2>1, <2>2, <2>3, <2>4 DEF Line
<1>10. cur # j
  BY <1>4 DEF InTimers
<1>11. \A k \in Jobs : Begun(k)' <=> Begun(k)
  BY <1>1, <1>2, <1>7, <1>8, <1>10 DEF Begun
<1>12. InLists'
  <2>1. \A k \in Classes : ToSet(lists'[k]) \subseteq Of(k)' \cap MovedJobs'
    BY <1>2, <1>6 DEF InLists, Of
  <2>2. ASSUME NEW k \in Classes, NEW i \in 1..Len(lists[k]), NEW h \in 1..Len(lists[k]),
               NEW m \in 1..(Len(posted) + 1), NEW n \in 1..(Len(posted) + 1),
               i < h, posted'[m] = lists[k][i], posted'[n] = lists[k][h]
        PROVE  m < n
    <3>1. lists[k][i] \in MovedJobs /\ lists[k][h] \in MovedJobs
      BY SetIs DEF InLists, TypeOK
    <3>2. m # Len(posted) + 1 /\ n # Len(posted) + 1
      BY <1>3, <1>4, <2>2, <3>1
    <3>3. m \in 1..Len(posted) /\ n \in 1..Len(posted)
      BY <3>2
    <3>4. posted[m] = lists[k][i] /\ posted[n] = lists[k][h]
      BY <1>3, <2>2, <3>3
    <3>. QED  BY <2>2, <3>3, <3>4 DEF InLists
  <2>3. \A k \in MovedJobs' :
          (Class[k] # "timer" /\ ~Begun(k)') => k \in ToSet(lists'[Class[k]])
    BY <1>2, <1>6, <1>11 DEF InLists
  <2>. QED  BY <1>2, <1>3, <2>1, <2>2, <2>3 DEF InLists
<1>13. InTimers'
  BY <1>2, <1>6 DEF InTimers, Of
<1>14. Times'
  BY <1>2, <1>6 DEF Times
<1>15. RunsInOrder'
  <2>. SUFFICES ASSUME NEW k \in 1..(Len(posted) + 1), NEW i \in 1..(k - 1),
                       NEW a, NEW b, a = posted'[i], b = posted'[k],
                       Class[a] # "timer", Class[b] # "timer",
                       Begun(b)', Priority(a) <= Priority(b)
                PROVE  Begun(a)'
    BY <1>3 DEF RunsInOrder, Priority
  <2>1. k # Len(posted) + 1
    BY <1>1, <1>2, <1>3, <1>8, <1>10 DEF Begun
  <2>2. k \in 1..Len(posted) /\ i \in 1..Len(posted)
    BY <2>1
  <2>3. b = posted[k] /\ a = posted[i] /\ b \in Jobs /\ a \in Jobs
    BY <1>3, <2>2
  <2>4. Begun(b)
    BY <1>11, <2>3
  <2>5. Begun(a)
    BY <2>2, <2>3, <2>4 DEF RunsInOrder
  <2>. QED  BY <1>11, <2>3, <2>5
<1>. QED  BY <1>9, <1>12, <1>13, <1>14, <1>15 DEF Order

LEMMA TakeTimerOrder ==
  ASSUME Order, TypeOK', TakeTimer
  PROVE  Order'
<1>. TypeOK /\ Line /\ InLists /\ InTimers /\ Times /\ RunsInOrder
  BY DEF Order
<1>1. /\ pc = "timers" /\ timers # <<>> /\ sched[Head(timers)] <= now
      /\ cur' = Head(timers) /\ timers' = Tail(timers) /\ pc' = "guard"
      /\ UNCHANGED <<shared, stage, lists, sched, now, act, history>>
  BY DEF TakeTimer, Due
<1>2. timers \in Seq(Jobs) /\ cur = NoJob /\ cur \notin Jobs
  BY <1>1, JobsAssumption DEF TypeOK
<1>3. cur' \in Jobs /\ cur' \in ToSet(timers) /\ Class[cur'] = "timer"
  BY <1>1, <1>2, SetIs DEF InTimers, Of
<1>4. ToSet(timers') \subseteq ToSet(timers) /\ cur' \notin ToSet(timers') /\ IsInjective(timers')
  <2>1. /\ timers' \in Seq(Jobs) /\ Len(timers) \in Nat /\ Len(timers') = Len(timers) - 1
        /\ \A i \in 1..Len(timers') : i + 1 \in 1..Len(timers) /\ timers'[i] = timers[i + 1]
        /\ 1 \in 1..Len(timers) /\ cur' = timers[1]
    BY <1>1, <1>2
  <2>2. \A i, h \in 1..Len(timers) : timers[i] = timers[h] => i = h
    BY <1>2 DEF InTimers, IsInjective
  <2>3. IsInjective(timers')
    <3>. SUFFICES ASSUME NEW i \in 1..Len(timers'), NEW h \in 1..Len(timers'),
                         timers'[i] = timers'[h]
                  PROVE  i = h
      BY <2>1 DEF IsInjective
    <3>1. i + 1 = h + 1
      BY <2>1, <2>2
    <3>. QED  BY <3>1
  <2>4. ASSUME NEW x \in ToSet(timers')
        PROVE  x \in ToSet(timers) /\ x # cur'
    <3>1. PICK i \in 1..Len(timers') : timers'[i] = x
      BY <2>1, SetIs
    <3>2. i + 1 \in 1..Len(timers) /\ timers[i + 1] = x /\ i + 1 # 1
      BY <2>1, <3>1
    <3>3. x # timers[1]
      BY <2>1, <2>2, <3>2
    <3>. QED  BY <1>2, <2>1, <3>2, <3>3, SetIs
  <2>. QED  BY <2>3, <2>4
<1>5. BegunJobs' = BegunJobs
  BY <1>1, <1>2, <1>3 DEF BegunJobs, Begun, history
<1>6. Line' /\ InLists' /\ RunsInOrder' /\ MovedJobs' = MovedJobs
  BY <1>1, <1>5, SameOrder DEF shared, history
<1>7. InTimers'
  BY <1>3, <1>4, <1>6 DEF InTimers, Of
<1>8. Times'
  <2>1. sched[cur'] = start[cur'] + (calls[cur'] + 1) * Period /\ sched[cur'] <= now
    BY <1>1, <1>3 DEF Times
  <2>. QED  BY <1>1, <1>4, <1>6, <2>1 DEF Times, history
<1>. QED  BY <1>6, <1>7, <1>8 DEF Order

\* The call that begins is the one that the timer was scheduled for.
LEMMA EnterOrder ==
  ASSUME Order, TypeOK', Enter
  PROVE  Order'
<1>. TypeOK /\ Line /\ InLists /\ InTimers /\ Times /\ RunsInOrder
  BY DEF Order
<1>1. /\ pc = "guard" /\ pc' = "callback" /\ calls' = [calls EXCEPT ![cur] = calls[cur] + 1]
      /\ UNCHANGED <<shared, stage, cur, lists, timers, sched, now, clock, posted, fate, start>>
  BY DEF Enter
<1>2. cur \in Jobs /\ cur \in MovedJobs /\ cur \notin ToSet(timers)
  BY <1>1 DEF TypeOK, InTimers
<1>3. /\ calls[cur] \in Nat /\ calls'[cur] = calls[cur] + 1
      /\ \A j \in Jobs \ {cur} : calls'[j] = calls[j]
  BY <1>1, <1>2 DEF TypeOK
<1>4. BegunJobs' = BegunJobs
  BY <1>1 DEF BegunJobs, Begun
<1>5. Line' /\ InLists' /\ RunsInOrder' /\ MovedJobs' = MovedJobs
  BY <1>1, <1>4, SameOrder DEF shared
<1>6. InTimers'
  BY <1>1, <1>5 DEF InTimers, Of
<1>7. Times'
  <2>1. \A j \in ToSet(timers) : j \in Jobs /\ j # cur
    BY <1>2, LineFacts DEF InTimers
  <2>2. \A j \in ToSet(timers') : sched'[j] = start'[j] + (calls'[j] + 1) * Period
    BY <1>1, <1>3, <2>1 DEF Times
  <2>3. \A j \in Jobs \ MovedJobs' : calls'[j] = 0 /\ start'[j] = 0
    BY <1>1, <1>2, <1>3, <1>5 DEF Times
  <2>4. Class[cur] = "timer" => sched[cur] = start[cur] + calls'[cur] * Period /\ sched[cur] <= now
    BY <1>1, <1>2, <1>3 DEF Times
  <2>5. Class[cur] = "timer" => start[cur] + calls'[cur] * Period <= clock
    <3>1. sched[cur] \in Nat /\ now \in Nat /\ clock \in Nat /\ now <= clock
      BY <1>2 DEF TypeOK, Times
    <3>. QED  BY <2>4, <3>1
  <2>6. \A j \in Jobs : Class[j] = "timer" => start'[j] + calls'[j] * Period <= clock'
    BY <1>1, <1>3, <2>5 DEF Times
  <2>. QED  BY <1>1, <2>2, <2>3, <2>4, <2>6 DEF Times
<1>. QED  BY <1>5, <1>6, <1>7 DEF Order

LEMMA SkipOrder ==
  ASSUME Order, TypeOK', Skip
  PROVE  Order'
<1>. TypeOK /\ Line /\ InLists /\ InTimers /\ Times /\ RunsInOrder
  BY DEF Order
<1>1. /\ pc = "guard" /\ pc' = "drain" /\ cur' = NoJob /\ fate' = [fate EXCEPT ![cur] = "dropped"]
      /\ UNCHANGED <<shared, stage, lists, timers, sched, now, clock, posted, start, calls>>
  BY DEF Skip
<1>2. cur \in Jobs /\ fate[cur] # "new" /\ cur' \notin Jobs
  BY <1>1, LineFacts, JobsAssumption DEF TypeOK, InTimers
<1>3. fate'[cur] = "dropped" /\ \A j \in Jobs \ {cur} : fate'[j] = fate[j]
  BY <1>1, <1>2 DEF TypeOK
<1>4. BegunJobs' = BegunJobs
  BY <1>1, <1>2, <1>3 DEF BegunJobs, Begun
<1>5. Line' /\ InLists' /\ RunsInOrder' /\ MovedJobs' = MovedJobs
  BY <1>1, <1>2, <1>3, <1>4, SameOrder DEF shared
<1>6. InTimers'
  BY <1>1, <1>2, <1>5 DEF InTimers, Of
<1>7. Times'
  BY <1>1, <1>2, <1>5 DEF Times
<1>. QED  BY <1>5, <1>6, <1>7 DEF Order

\* A timer is scheduled for one period after the time it was called for.
LEMMA LeaveOrder ==
  ASSUME Order, TypeOK', Leave
  PROVE  Order'
<1>. TypeOK /\ Line /\ InLists /\ InTimers /\ Times /\ RunsInOrder
  BY DEF Order
<1>1. /\ pc = "callback" /\ pc' = "drain" /\ cur' = NoJob
      /\ UNCHANGED <<shared, stage, lists, now, act, clock, posted, start, calls>>
  BY DEF Leave
<1>2. cur \in Jobs /\ cur \in MovedJobs /\ fate[cur] # "new" /\ cur' \notin Jobs
      /\ cur \notin ToSet(timers) /\ timers \in Seq(Jobs)
  BY <1>1, LineFacts, JobsAssumption DEF TypeOK, InTimers
<1>3. CASE Class[cur] = "timer"
  <2>1. /\ sched' = [sched EXCEPT ![cur] = sched[cur] + Period] /\ fate' = fate
        /\ timers' = Insert(timers, sched', cur)
    BY <1>3 DEF Leave
  <2>2. ToSet(timers') = ToSet(timers) \cup {cur} /\ IsInjective(timers')
    <3>1. sched' \in [Jobs -> Nat]
      BY DEF TypeOK
    <3>. QED  BY <1>2, <2>1, <3>1, InsertSet DEF InTimers
  <2>3. BegunJobs' = BegunJobs
    BY <1>1, <1>2, <1>3, <2>1 DEF BegunJobs, Begun
  <2>4. Line' /\ InLists' /\ RunsInOrder' /\ MovedJobs' = MovedJobs
    BY <1>1, <2>1, <2>3, SameOrder DEF shared
  <2>5. InTimers'
    BY <1>2, <1>3, <2>2, <2>4 DEF InTimers, Of
  <2>6. sched'[cur] = start[cur] + (calls[cur] + 1) * Period
    <3>1. sched[cur] = start[cur] + calls[cur] * Period
      BY <1>1, <1>2, <1>3 DEF Times
    <3>2. sched'[cur] = sched[cur] + Period
      BY <1>2, <2>1 DEF TypeOK
    <3>3. PICK c \in Nat, s \in Nat : c = calls[cur] /\ s = start[cur]
      BY <1>2 DEF TypeOK
    <3>4. (s + c * Period) + Period = s + (c + 1) * Period
      BY TimeAssumption
    <3>. QED  BY <3>1, <3>2, <3>3, <3>4
  <2>7. \A j \in ToSet(timers') : sched'[j] = start'[j] + (calls'[j] + 1) * Period
    <3>1. \A j \in ToSet(timers) : j \in Jobs /\ j # cur
      BY <1>2, LineFacts DEF InTimers
    <3>2. \A j \in ToSet(timers) : sched'[j] = sched[j]
      BY <2>1, <3>1 DEF TypeOK
    <3>. QED  BY <1>1, <2>2, <2>6, <3>2 DEF Times
  <2>8. Times'
    BY <1>1, <1>2, <2>4, <2>7 DEF Times
  <2>. QED  BY <2>4, <2>5, <2>8 DEF Order
<1>4. CASE Class[cur] # "timer"
  <2>1. UNCHANGED <<timers, sched>> /\ fate' = [fate EXCEPT ![cur] = "ran"]
    BY <1>4 DEF Leave
  <2>2. fate'[cur] = "ran" /\ \A j \in Jobs \ {cur} : fate'[j] = fate[j]
    BY <1>2, <2>1 DEF TypeOK
  <2>3. BegunJobs' = BegunJobs
    BY <1>1, <1>2, <2>2 DEF BegunJobs, Begun
  <2>4. Line' /\ InLists' /\ RunsInOrder' /\ MovedJobs' = MovedJobs
    BY <1>1, <1>2, <2>2, <2>3, SameOrder DEF shared
  <2>5. InTimers' /\ Times'
    BY <1>1, <1>2, <2>1, <2>4 DEF InTimers, Of, Times
  <2>. QED  BY <2>4, <2>5 DEF Order
<1>. QED  BY <1>3, <1>4

LEMMA ListsApart == \A i, h \in 1..4 : Lists[i] = Lists[h] => i = h
  BY DEF Lists

LEMMA PriorityIs ==
  ASSUME NEW j \in Jobs, Class[j] # "timer"
  PROVE  Priority(j) \in 1..4 /\ Lists[Priority(j)] = Class[j]
<1>1. Class[j] \in Classes
  BY JobsAssumption
<1>2. \E i \in 1..4 : Lists[i] = Class[j]
  BY <1>1 DEF Classes
<1>. QED  BY <1>2 DEF Priority

LEMMA TakeJobOrder ==
  ASSUME Order, TypeOK', TakeJob
  PROVE  Order'
<1>. TypeOK /\ Line /\ InLists /\ InTimers /\ Times /\ RunsInOrder
  BY DEF Order
<1>1. /\ pc = "jobs" /\ pc' = "guard"
      /\ UNCHANGED <<shared, stage, timers, sched, now, act, history>>
  BY DEF TakeJob
<1>2. PICK p \in 1..4 : /\ lists[Lists[p]] # <<>>
                        /\ \A h \in 1..(p - 1) : lists[Lists[h]] = <<>>
                        /\ cur' = Head(lists[Lists[p]])
                        /\ lists' = [lists EXCEPT ![Lists[p]] = Tail(lists[Lists[p]])]
  BY DEF TakeJob
<1>. DEFINE k == Lists[p]  q == lists[k]
<1>3. k \in Classes
  BY DEF Classes
<1>. HIDE DEF k
<1>4. q \in Seq(Jobs) /\ cur = NoJob /\ cur \notin Jobs
  BY <1>1, <1>3, JobsAssumption DEF TypeOK
<1>5. q # <<>> /\ cur' = Head(q) /\ lists' = [lists EXCEPT ![k] = Tail(q)]
  BY <1>2 DEF k
<1>6. lists'[k] = Tail(q) /\ \A c \in Classes \ {k} : lists'[c] = lists[c]
  BY <1>3, <1>5 DEF TypeOK
<1>7. ToSet(q) \subseteq Of(k) \cap MovedJobs
  BY <1>3 DEF InLists
<1>8. \A i, h \in 1..Len(q), m, n \in 1..Len(posted) :
        (i < h /\ posted[m] = q[i] /\ posted[n] = q[h]) => m < n
  BY <1>3 DEF InLists
<1>. DEFINE r == Tail(q)
<1>. HIDE DEF q
<1>9. /\ r \in Seq(Jobs) /\ Len(q) \in Nat /\ Len(r) = Len(q) - 1
      /\ \A i \in 1..Len(r) : i + 1 \in 1..Len(q) /\ r[i] = q[i + 1]
      /\ 1 \in 1..Len(q) /\ cur' = q[1]
  BY <1>4, <1>5
<1>10. \A i \in 1..Len(q) : i # 1 => i - 1 \in 1..Len(r) /\ r[i - 1] = q[i]
  <2>1. \A i \in 1..Len(q) : i # 1 => i - 1 \in 1..Len(r)
    BY <1>9
  <2>. HIDE DEF r
  <2>2. \A i \in 1..Len(q) : (i - 1) + 1 = i
    BY <1>9
  <2>. QED  BY <1>9, <2>1, <2>2
<1>. HIDE DEF r
<1>11. cur' \in ToSet(q) /\ cur' \in Jobs /\ cur' \in MovedJobs /\ Class[cur'] = k
  BY <1>4, <1>7, <1>9, SetIs DEF Of
<1>12. ToSet(r) \subseteq ToSet(q) /\ \A x \in ToSet(q) : x # cur' => x \in ToSet(r)
  <2>1. ASSUME NEW x \in ToSet(r)
        PROVE  x \in ToSet(q)
    <3>1. PICK i \in 1..Len(r) : r[i] = x
      BY <1>9, SetIs
    <3>. QED  BY <1>4, <1>9, <3>1, SetIs
  <2>2. ASSUME NEW x \in ToSet(q), x # cur'
        PROVE  x \in ToSet(r)
    <3>1. PICK i \in 1..Len(q) : q[i] = x
      BY <1>4, SetIs
    <3>2. i # 1
      BY <1>9, <2>2, <3>1
    <3>. QED  BY <1>9, <1>10, <3>1, <3>2, SetIs
  <2>. QED  BY <2>1, <2>2
<1>13. UNCHANGED <<safe, posted, fate, start, calls, clock>>
  BY <1>1 DEF shared, history
<1>14. Line' /\ MovedJobs' = MovedJobs
  BY <1>13 DEF Line, Moved, MovedJobs
<1>15. \A j \in Jobs : Begun(j)' <=> (Begun(j) \/ j = cur')
  BY <1>4, <1>13 DEF Begun
<1>16. MovedJobs \subseteq Jobs /\ "timer" \notin Classes
  BY LineFacts DEF Classes, Lists
<1>17. InLists'
  <2>1. \A c \in Classes : ToSet(lists'[c]) \subseteq Of(c) \cap MovedJobs
    BY <1>6, <1>7, <1>12 DEF InLists, r
  <2>2. ASSUME NEW c \in Classes, NEW i \in 1..Len(lists'[c]), NEW h \in 1..Len(lists'[c]),
               NEW m \in 1..Len(posted), NEW n \in 1..Len(posted),
               i < h, posted[m] = lists'[c][i], posted[n] = lists'[c][h]
        PROVE  m < n
    <3>1. CASE c = k
      <4>1. lists'[c] = r
        BY <1>6, <3>1 DEF r
      <4>2. i \in 1..Len(r) /\ h \in 1..Len(r)
        BY <4>1
      <4>3. posted[m] = q[i + 1] /\ posted[n] = q[h + 1] /\ i + 1 < h + 1
        BY <1>9, <2>2, <4>1, <4>2
      <4>4. i + 1 \in 1..Len(q) /\ h + 1 \in 1..Len(q)
        BY <1>9, <4>2
      <4>. QED  BY <1>8, <4>3, <4>4
    <3>2. CASE c # k
      <4>1. lists'[c] = lists[c]
        BY <1>6, <3>2
      <4>. QED  BY <2>2, <4>1 DEF InLists
    <3>. QED  BY <3>1, <3>2
  <2>3. ASSUME NEW j \in MovedJobs, Class[j] # "timer", ~Begun(j)'
        PROVE  j \in ToSet(lists'[Class[j]])
    <3>1. j \in Jobs /\ ~Begun(j) /\ j # cur' /\ Class[j] \in Classes
      BY <1>15, <1>16, <2>3, JobsAssumption
    <3>2. j \in ToSet(lists[Class[j]])
      BY <2>3, <3>1 DEF InLists
    <3>3. CASE Class[j] = k
      <4>1. j \in ToSet(q)
        BY <3>2, <3>3 DEF q
      <4>2. j \in ToSet(r)
        BY <1>12, <3>1, <4>1
      <4>. QED  BY <1>6, <3>3, <4>2 DEF r
    <3>4. CASE Class[j] # k
      BY <1>6, <3>1, <3>2, <3>4
    <3>. QED  BY <3>3, <3>4
  <2>. QED  BY <1>13, <1>14, <2>1, <2>2, <2>3 DEF InLists, Of
<1>18. RunsInOrder'
  <2>. SUFFICES ASSUME NEW n \in 1..Len(posted), NEW m \in 1..(n - 1),
                       NEW a, NEW b, a = posted[m], b = posted[n],
                       Class[a] # "timer", Class[b] # "timer",
                       Begun(b)', Priority(a) <= Priority(b), ~Begun(a)'
                PROVE  FALSE
    BY <1>13 DEF RunsInOrder, Priority
  <2>1. posted \in Seq(Jobs) /\ m \in 1..Len(posted) /\ m < n
    BY DEF TypeOK
  <2>2. a \in Jobs /\ b \in Jobs
    BY <2>1
  <2>3. ~Begun(a) /\ a # cur'
    BY <1>15, <2>2
  <2>4. ~Begun(b)
    BY <2>3 DEF RunsInOrder
  <2>5. b = cur'
    BY <1>15, <2>2, <2>4
  <2>6. n \in 1..Moved /\ Moved \in Nat
    BY <1>11, <2>5, LineFacts
  <2>7. a \in MovedJobs
    <3>1. m \in 1..Moved
      BY <2>1, <2>6
    <3>. QED  BY <3>1, LineFacts
  <2>8. a \in ToSet(lists[Class[a]])
    BY <2>3, <2>7 DEF InLists
  <2>9. Priority(a) \in 1..4 /\ Lists[Priority(a)] = Class[a]
    BY <2>2, PriorityIs
  <2>10. Priority(b) = p
    <3>1. Priority(b) \in 1..4 /\ Lists[Priority(b)] = Lists[p]
      BY <1>11, <2>2, <2>5, PriorityIs DEF k
    <3>. QED  BY <3>1, ListsApart
  <2>11. CASE Priority(a) < p
    <3>1. lists[Class[a]] = <<>>
      <4>1. Priority(a) \in 1..(p - 1)
        BY <2>9, <2>11
      <4>. QED  BY <1>2, <2>9, <4>1
    <3>. QED  BY <2>8, <3>1 DEF ToSet
  <2>12. CASE Priority(a) = p
    <3>1. a \in ToSet(q)
      BY <2>8, <2>9, <2>12 DEF q, k
    <3>2. PICK x \in 1..Len(q) : q[x] = a
      BY <1>4, <3>1, SetIs
    <3>3. x # 1 /\ x \in Nat
      BY <1>9, <2>3, <3>2
    <3>4. n < m
      <4>1. 1 < x /\ posted[n] = q[1] /\ posted[m] = q[x]
        BY <1>9, <2>5, <3>2, <3>3
      <4>. QED  BY <1>8, <1>9, <2>1, <3>2, <4>1
    <3>. QED  BY <2>1, <3>4
  <2>. QED  BY <2>9, <2>10, <2>11, <2>12
<1>19. Class[cur'] # "timer"
  BY <1>3, <1>11, <1>16
<1>20. InTimers'
  <2>1. cur' \notin ToSet(timers)
    BY <1>19 DEF InTimers, Of
  <2>. QED  BY <1>1, <1>11, <1>14, <2>1 DEF InTimers, Of
<1>21. Times'
  BY <1>1, <1>13, <1>14, <1>19 DEF Times
<1>. QED  BY <1>14, <1>17, <1>18, <1>20, <1>21 DEF Order

\* What was taken from safe_ was posted after what the lists hold, and in
\* their order.
LEMMA DrainedInOrder ==
  ASSUME TypeOK, Line, InLists, NEW c \in Classes,
         NEW i \in 1..Len(lists[c] \o Taken(c)), NEW h \in 1..Len(lists[c] \o Taken(c)),
         NEW m \in 1..Len(posted), NEW n \in 1..Len(posted),
         i < h, posted[m] = (lists[c] \o Taken(c))[i], posted[n] = (lists[c] \o Taken(c))[h]
  PROVE  m < n
<1>. DEFINE p == lists[c]  r == Taken(c)  q == p \o r
<1>1. p \in Seq(Jobs) /\ safe \in Seq(Jobs) /\ posted \in Seq(Jobs)
  BY DEF TypeOK
<1>2. PICK at : Picks(safe, Of(c), Len(safe), r, at)
  BY <1>1, ThosePicks DEF Taken
<1>3. /\ \A x \in 1..Len(p) : p[x] \in MovedJobs
      /\ \A x, y \in 1..Len(p), d, e \in 1..Len(posted) :
           (x < y /\ posted[d] = p[x] /\ posted[e] = p[y]) => d < e
  <2>. HIDE DEF r, q
  <2>. QED  BY <1>1, SetIs DEF InLists
<1>. HIDE DEF p, r
<1>4. r \in Seq(Jobs) /\ \A x \in 1..Len(r) : at[x] \in 1..Len(safe) /\ r[x] = safe[at[x]]
  BY <1>2 DEF Picks
<1>5. \A x, y \in 1..Len(r) : x < y => at[x] < at[y]
  BY <1>2 DEF Picks
<1>6. /\ Len(p) \in Nat /\ Len(q) = Len(p) + Len(r) /\ Len(r) \in Nat
      /\ \A x \in 1..Len(p) : q[x] = p[x]
      /\ \A x \in 1..Len(q) : x \notin 1..Len(p) => x - Len(p) \in 1..Len(r) /\ q[x] = r[x - Len(p)]
  BY <1>1, <1>4
<1>7. i \in 1..Len(q) /\ h \in 1..Len(q) /\ posted[m] = q[i] /\ posted[n] = q[h]
  BY DEF p, r
<1>. HIDE DEF q
<1>8. Moved \in Nat /\ Len(posted) = Moved + Len(safe) /\ Len(safe) \in Nat
  BY <1>1, LineFacts
<1>9. \A d, e \in 1..Len(posted) : posted[d] = posted[e] => d = e
  BY <1>1 DEF Line, IsInjective
<1>10. ASSUME NEW x \in 1..Len(q), NEW d \in 1..Len(posted), x \notin 1..Len(p), posted[d] = q[x]
       PROVE  d = Moved + at[x - Len(p)]
  <2>1. q[x] = safe[at[x - Len(p)]] /\ at[x - Len(p)] \in 1..Len(safe)
    BY <1>4, <1>6, <1>10
  <2>2. Moved + at[x - Len(p)] \in 1..Len(posted)
    <3>1. PICK a \in 1..Len(safe) : a = at[x - Len(p)]
      BY <2>1
    <3>2. Moved + a \in 1..Len(posted)
      BY <1>8
    <3>. QED  BY <3>1, <3>2
  <2>3. safe[at[x - Len(p)]] = posted[Moved + at[x - Len(p)]]
    BY <2>1 DEF Line
  <2>. QED  BY <1>9, <1>10, <2>1, <2>2, <2>3
<1>11. CASE h \in 1..Len(p)
  <2>1. i \in 1..Len(p)
    BY <1>6, <1>7, <1>11
  <2>. QED  BY <1>3, <1>6, <1>7, <1>11, <2>1
<1>12. CASE h \notin 1..Len(p) /\ i \in 1..Len(p)
  <2>1. m \in 1..Moved
    <3>1. posted[m] \in MovedJobs
      BY <1>3, <1>6, <1>7, <1>12
    <3>. QED  BY <3>1, LineFacts
  <2>2. n = Moved + at[h - Len(p)]
    BY <1>7, <1>10, <1>12
  <2>3. at[h - Len(p)] \in 1..Len(safe)
    BY <1>4, <1>6, <1>7, <1>12
  <2>. QED  BY <1>8, <2>1, <2>2, <2>3
<1>13. CASE h \notin 1..Len(p) /\ i \notin 1..Len(p)
  <2>1. n = Moved + at[h - Len(p)] /\ m = Moved + at[i - Len(p)]
    BY <1>7, <1>10, <1>13
  <2>2. /\ h - Len(p) \in 1..Len(r) /\ i - Len(p) \in 1..Len(r)
        /\ i - Len(p) < h - Len(p)
    BY <1>6, <1>7, <1>13, SMTT(30)
  <2>3. at[i - Len(p)] < at[h - Len(p)]
    BY <1>5, <2>2
  <2>4. PICK a \in 1..Len(safe), b \in 1..Len(safe) : a = at[i - Len(p)] /\ b = at[h - Len(p)]
    BY <1>4, <2>2
  <2>5. Moved + a < Moved + b
    BY <1>8, <2>3, <2>4
  <2>. QED  BY <2>1, <2>4, <2>5
<1>. QED  BY <1>11, <1>12, <1>13

LEMMA DrainOrder ==
  ASSUME Order, TypeOK', Drain
  PROVE  Order'
<1>. TypeOK /\ Line /\ InLists /\ InTimers /\ Times /\ RunsInOrder
  BY DEF Order
<1>1. /\ pc = "drain" /\ safe' = <<>> /\ pc' = stage
      /\ lists' = [k \in Classes |-> lists[k] \o Taken(k)]
      /\ sched' = [j \in Jobs |-> IF j \in New THEN clock + Period ELSE sched[j]]
      /\ start' = [j \in Jobs |-> IF j \in New THEN clock ELSE start[j]]
      /\ timers' = InsertAll(timers, sched', Taken("timer"))
      /\ UNCHANGED <<cur, now, clock, posted, fate, calls>>
  BY DEF Drain, New
<1>2. cur = NoJob /\ cur \notin Jobs /\ safe \in Seq(Jobs) /\ posted \in Seq(Jobs)
      /\ timers \in Seq(Jobs)
  BY <1>1, JobsAssumption DEF TypeOK
<1>3. /\ Moved \in Nat /\ Len(posted) = Moved + Len(safe) /\ MovedJobs \subseteq Jobs
      /\ IsInjective(safe) /\ ToSet(safe) \cap MovedJobs = {}
      /\ ToSet(posted) = MovedJobs \cup ToSet(safe)
  BY LineFacts
<1>4. MovedJobs' = MovedJobs \cup ToSet(safe)
  <2>1. Moved' = Len(posted)
    <3>1. Len(<<>>) = 0 /\ Len(posted) \in Nat
      BY <1>2
    <3>. QED  BY <1>1, <3>1 DEF Moved
  <2>2. MovedJobs' = ToSet(posted)
    BY <1>1, <1>2, <2>1 DEF MovedJobs, ToSet
  <2>. QED  BY <1>3, <2>2
<1>5. Line'
  BY <1>1, <1>2 DEF Line, Moved
<1>6. New = ToSet(safe) \cap Of("timer")
  BY <1>2, SetIs DEF New, Of
<1>7. /\ Taken("timer") \in Seq(Jobs) /\ ToSet(Taken("timer")) = New
      /\ IsInjective(Taken("timer"))
  BY <1>2, <1>3, <1>6, TakenSet
<1>8. \A c \in Classes : ToSet(lists'[c]) = ToSet(lists[c]) \cup (ToSet(safe) \cap Of(c))
  <2>. SUFFICES ASSUME NEW c \in Classes
                PROVE  ToSet(lists[c] \o Taken(c)) = ToSet(lists[c]) \cup (ToSet(safe) \cap Of(c))
    BY <1>1
  <2>1. Taken(c) \in Seq(Jobs) /\ ToSet(Taken(c)) = ToSet(safe) \cap Of(c)
    BY <1>2, TakenSet
  <2>2. lists[c] \in Seq(Jobs)
    BY DEF TypeOK
  <2>. QED  BY <2>1, <2>2, JoinSet
<1>9. \A j \in Jobs : Begun(j)' <=> Begun(j)
  BY <1>1 DEF Begun
<1>10. InLists'
  <2>1. \A c \in Classes : ToSet(lists'[c]) \subseteq Of(c)' \cap MovedJobs'
    BY <1>4, <1>8 DEF InLists, Of
  <2>2. \A c \in Classes : \A i, h \in 1..Len(lists'[c]), m, n \in 1..Len(posted') :
          (i < h /\ posted'[m] = lists'[c][i] /\ posted'[n] = lists'[c][h]) => m < n
    <3>1. posted' = posted /\ \A c \in Classes : lists'[c] = lists[c] \o Taken(c)
      BY <1>1
    <3>. QED  BY <3>1, DrainedInOrder, ZenonT(60)
  <2>3. ASSUME NEW j \in MovedJobs', Class[j] # "timer", ~Begun(j)'
        PROVE  j \in ToSet(lists'[Class[j]])
    <3>1. j \in Jobs
      BY <1>2, <1>3, <1>4, SetIs
    <3>2. Class[j] \in Classes /\ ~Begun(j) /\ j \in Of(Class[j])
      BY <1>9, <2>3, <3>1, JobsAssumption DEF Of
    <3>3. j \in MovedJobs => j \in ToSet(lists[Class[j]])
      BY <2>3, <3>2 DEF InLists
    <3>. QED  BY <1>4, <1>8, <3>2, <3>3
  <2>. QED  BY <2>1, <2>2, <2>3 DEF InLists
<1>11. RunsInOrder'
  <2>. SUFFICES ASSUME NEW n \in 1..Len(posted), NEW m \in 1..(n - 1),
                       Class[posted[m]] # "timer", Class[posted[n]] # "timer",
                       Begun(posted[n]), Priority(posted[m]) <= Priority(posted[n])
                PROVE  Begun(posted[m])
    BY <1>1 DEF RunsInOrder, Priority, Begun
  <2>. QED  BY DEF RunsInOrder
<1>12. New \cap ToSet(timers) = {} /\ New \subseteq Jobs /\ New \cap MovedJobs = {}
  BY <1>3, <1>6 DEF InTimers, Of
<1>13. ToSet(timers') = ToSet(timers) \cup New /\ IsInjective(timers')
  <2>1. sched' \in [Jobs -> Nat]
    BY DEF TypeOK
  <2>. QED  BY <1>1, <1>2, <1>7, <1>12, <2>1, InsertAllSet DEF InTimers
<1>14. InTimers'
  <2>1. ToSet(timers') \subseteq Of("timer") \cap MovedJobs'
    BY <1>4, <1>6, <1>13 DEF InTimers
  <2>. QED  BY <1>1, <1>2, <1>13, <2>1 DEF InTimers, Of
<1>15. \A j \in New : sched'[j] = clock + Period /\ start'[j] = clock /\ calls[j] = 0
  BY <1>1, <1>12 DEF Times
<1>16. \A j \in Jobs \ New : sched'[j] = sched[j] /\ start'[j] = start[j]
  BY <1>1
<1>17. \A j \in ToSet(timers') : sched'[j] = start'[j] + (calls'[j] + 1) * Period
  <2>1. ASSUME NEW j \in New
        PROVE  sched'[j] = start'[j] + (calls[j] + 1) * Period
    <3>1. (0 + 1) * Period = Period
      BY TimeAssumption
    <3>. QED  BY <1>15, <3>1
  <2>2. ASSUME NEW j \in ToSet(timers)
        PROVE  sched'[j] = start'[j] + (calls[j] + 1) * Period
    <3>1. j \in Jobs \ New
      BY <1>3, <1>12 DEF InTimers
    <3>. QED  BY <1>16, <3>1 DEF Times
  <2>. QED  BY <1>1, <1>13, <2>1, <2>2
<1>18. \A j \in Jobs \ MovedJobs' : calls'[j] = 0 /\ start'[j] = 0
  <2>1. \A j \in Jobs \ MovedJobs' : j \in Jobs \ MovedJobs /\ j \in Jobs \ New
    BY <1>4, <1>6
  <2>. QED  BY <1>1, <1>16, <2>1 DEF Times
<1>19. \A j \in Jobs : Class[j] = "timer" => start'[j] + calls'[j] * Period <= clock'
  <2>1. ASSUME NEW j \in New
        PROVE  start'[j] + calls[j] * Period <= clock
    <3>1. 0 * Period = 0 /\ clock \in Nat
      BY TimeAssumption DEF TypeOK
    <3>. QED  BY <1>15, <3>1
  <2>2. ASSUME NEW j \in Jobs \ New, Class[j] = "timer"
        PROVE  start'[j] + calls[j] * Period <= clock
    BY <1>16, <2>2 DEF Times
  <2>. QED  BY <1>1, <2>1, <2>2
<1>20. Times'
  BY <1>1, <1>2, <1>17, <1>18, <1>19 DEF Times
<1>. QED  BY <1>5, <1>10, <1>11, <1>14, <1>20 DEF Order

LEMMA InitOrder == Init => Order
<1>. SUFFICES ASSUME Init
              PROVE  Order
  OBVIOUS
<1>1. TypeOK
  <2>1. safe \in Seq(Jobs) /\ posted \in Seq(Jobs) /\ timers \in Seq(Jobs)
        /\ lists \in [Classes -> Seq(Jobs)]
    BY DEF Init
  <2>2. /\ sched \in [Jobs -> Nat] /\ start \in [Jobs -> Nat] /\ calls \in [Jobs -> Nat]
        /\ now \in Nat /\ clock \in 0..MaxTime
    BY TimeAssumption DEF Init
  <2>. QED  BY <2>1, <2>2 DEF Init, TypeOK
<1>2. posted = <<>> /\ safe = <<>> /\ timers = <<>> /\ cur \notin Jobs /\ ToSet(<<>>) = {}
      /\ \A k \in Classes : lists[k] = <<>>
  BY JobsAssumption DEF Init, ToSet
<1>3. Moved = 0 /\ MovedJobs = {}
  BY <1>2 DEF Moved, MovedJobs
<1>4. Line
  BY <1>2, <1>3 DEF Init, Line, IsInjective
<1>5. InLists
  BY <1>2, <1>3 DEF InLists
<1>6. InTimers
  BY <1>2 DEF InTimers, IsInjective
<1>7. Times
  <2>1. 0 * Period = 0
    BY TimeAssumption
  <2>. QED  BY <1>2, <2>1 DEF Init, Times
<1>8. RunsInOrder
  BY <1>2 DEF RunsInOrder
<1>. QED  BY <1>1, <1>4, <1>5, <1>6, <1>7, <1>8 DEF Order

LEMMA OrderStep ==
  ASSUME Order, [Next]_vars
  PROVE  Order'
<1>1. TypeOK'
  BY TypeStep DEF Order
<1>2. clock \in Nat /\ now \in Nat /\ now <= clock /\ clock >= clock
      /\ (pc \notin {"guard", "callback"} => cur = NoJob)
  BY DEF Order, Times, TypeOK
<1>3. CASE Tick
  <2>1. clock' >= clock /\ now' <= clock' /\ pc' = pc /\ now' = now
        /\ UNCHANGED <<safe, posted, lists, timers, sched, start, calls, fate, cur>>
    BY <1>2, <1>3 DEF Tick, shared, runnerVars
  <2>. QED  BY <1>1, <2>1, QuietOrder
<1>4. ASSUME NEW t \in AllThreads, NEW j \in Jobs, Post(t, j)
      PROVE  Order'
  BY <1>1, <1>4, PostOrder
<1>5. ASSUME NEW t \in AllThreads, Ping(t)
      PROVE  Order'
  BY <1>1, <1>2, <1>5, QuietOrder DEF Ping, runnerVars, history
<1>6. ASSUME NEW t \in AllThreads, NEW c \in CPoints, Cancel(t, c)
      PROVE  Order'
  BY <1>1, <1>2, <1>6, QuietOrder DEF Cancel, runnerVars, history
<1>7. ASSUME NEW c \in Sync, Cancelled(c)
      PROVE  Order'
  BY <1>1, <1>2, <1>7, QuietOrder DEF Cancelled, runnerVars, history
<1>8. CASE Wake
  BY <1>1, <1>2, <1>8, QuietOrder DEF Wake, history
<1>9. CASE TimersDone
  BY <1>1, <1>2, <1>9, QuietOrder DEF TimersDone, shared, history
<1>10. CASE RunReturns
  BY <1>1, <1>2, <1>10, QuietOrder DEF RunReturns, shared, history
<1>11. CASE UNCHANGED vars
  BY <1>1, <1>2, <1>11, QuietOrder DEF vars, shared, runnerVars, history
<1>. QED  BY <1>1, <1>3, <1>4, <1>5, <1>6, <1>7, <1>8, <1>9, <1>10, <1>11, DrainOrder,
             TakeTimerOrder, TakeJobOrder, EnterOrder, SkipOrder, LeaveOrder
             DEF Next, RunnerStep, AllThreads

\* Order is inductive.
THEOREM OrderInvariance == Spec => []Order
<1>1. Order /\ [Next]_vars => Order'
  BY OrderStep
<1>. QED  BY <1>1, InitOrder, PTL DEF Spec

\* Whatever is posted by whom, the variables of the event queue keep their
\* types; in particular a callback or a guard always is for some job.
THEOREM TypesHold == Spec => []TypeOK
<1>1. Order => TypeOK
  BY DEF Order
<1>. QED  BY <1>1, OrderInvariance, PTL

\* No job begins before a job of the same or of a higher priority that was
\* posted earlier, though the runner looks at safe_ only between callbacks.
THEOREM JobsRunInOrder == Spec => []RunsInOrder
<1>1. Order => RunsInOrder
  BY DEF Order
<1>. QED  BY <1>1, OrderInvariance, PTL

\* A timer is never called before the number of periods it has been called
\* for has passed since it was inserted, however late earlier calls were.
THEOREM TimersAreKept == Spec => []TimersKeepTime
<1>1. Order => TimersKeepTime
  <2>. SUFFICES ASSUME Order
                PROVE  TimersKeepTime
    OBVIOUS
  <2>1. timers \in Seq(Jobs)
    BY DEF Order, TypeOK
  <2>2. \A i \in 1..Len(timers) : timers[i] \in ToSet(timers)
    BY <2>1, SetIs
  <2>. QED  BY <2>2 DEF Order, Times, TimersKeepTime
<1>. QED  BY <1>1, OrderInvariance, PTL
=============================================================================
