--------------------------- MODULE InSyncProofs ---------------------------
(***************************************************************************)
(* Proofs about what a proxy shows while it is in sync, for any tree of    *)
(* paths and any bounds.                                                   *)
(*                                                                         *)
(* Log: to the packets under way, and the one that is being filled, belong *)
(* the trees the server had between their stanzas.  Abreast: how the copy  *)
(* of the proxy compares to the last of these trees that it has read of,   *)
(* S.  It knows all numbers up to some a and none between a and mgseq_     *)
(* (Knows), and where it differs from S it is going to ask (Marked).  What *)
(* check_sync() compares then leaves no difference to S, and S is the tree *)
(* the server has, if their numbers are the same (Later).                  *)
(***************************************************************************)
EXTENDS MirrorProofs

-----------------------------------------------------------------------------
(* The versions of the server's tree, and what a later one may have.        *)

Number(t) == t[Root].tseq
Version(t) == Served(t, Number(t))

\* The children of m are as they were, or m is new and has none, or the
\* number of its list is new.
ListLater(A, B, m) ==
  \/ A[m].open /\ B[m].nseq = A[m].nseq /\ Kids(A, m) = Kids(B, m)
  \/ B[m].nseq > Number(A)
  \/ /\ B[m].nseq = 0 /\ Kids(B, m) = {} /\ B[m].dseq > Number(A)
     /\ A[m].open => B[m].dseq > Number(A) + 1
ValueLater(A, B, m) ==
  (A[m].open /\ B[m].dseq = A[m].dseq) \/ B[m].dseq > Number(A)
Later(A, B) ==
  /\ Number(A) <= Number(B) /\ (Number(A) = Number(B) => A = B)
  /\ \A m \in Nodes : B[m].open => ValueLater(A, B, m) /\ ListLater(A, B, m)

\* A step of the server, with the stanza that tells of it.
Step(A, B, z) ==
  \/ \E n \in Nodes : B[n].open /\ A = B /\ z \in {TreeEvt(B, n), DataEvt(B, n)}
  \/ CloseStep(A, B, z, Number(A) + 1)
  \/ \E n \in Nodes : A[n].open /\ Valued(A, B, n, Number(A) + 1) /\ z = DataEvt(B, n)
  \/ \E n \in Nodes \ {Root} : /\ ~A[n].open /\ A[ParentOf(n)].open
                               /\ Grown(A, B, n, Number(A) + 1, Number(A) + 3)
                               /\ z = DataEvt(B, n)

\* The numbers of B are numbers of A, or greater than all of them.
Newer(A, B) ==
  \A m \in Nodes : \A x \in Nums(B[m]) :
    x = 0 \/ x > Number(A) \/ \E k \in Nodes : x \in Nums(A[k])

LEMMA VersionIs ==
  ASSUME NEW t, Version(t)
  PROVE  /\ t \in Tree /\ Number(t) \in Nat /\ Standing(t) /\ Numbered(t) /\ Upward(t) /\ Unique(t)
         /\ \A m \in Nodes : /\ t[m].dseq <= Number(t) /\ t[m].nseq <= Number(t) /\ t[m].tseq <= Number(t)
                             /\ t[m].dseq \in Nat /\ t[m].nseq \in Nat /\ t[m].tseq \in Nat
<1>1. Served(t, Number(t))
  BY DEF Version
<1>2. Bounded(t, Number(t)) /\ t \in Tree
  BY <1>1, ServedBounded
<1>3. \A m \in Nodes : t[m].dseq \in Nat /\ t[m].nseq \in Nat /\ t[m].tseq \in Nat
  BY <1>2, Trees, Fields
<1>. QED  BY <1>1, <1>2, <1>3 DEF Served, Bounded

LEMMA LaterSame ==
  ASSUME NEW A, Version(A)
  PROVE  Later(A, A) /\ Newer(A, A)
  BY VersionIs DEF Later, ValueLater, ListLater, Newer

LEMMA LaterBoth ==
  ASSUME NEW A, NEW B, NEW C, Version(A), Version(B), Version(C), Later(A, B), Later(B, C)
  PROVE  Later(A, C)
<1>1. PICK a, b, c \in Nat : a = Number(A) /\ b = Number(B) /\ c = Number(C)
  BY VersionIs
<1>2. a <= b /\ b <= c /\ (a = b => A = B) /\ (b = c => B = C)
  BY <1>1 DEF Later
<1>3. a <= c /\ (a = c => A = C)
  <2>1. a = c => a = b /\ b = c
    BY <1>2
  <2>2. a <= c
    BY <1>2
  <2>. QED  BY <1>2, <2>1, <2>2
<1>4. ASSUME NEW m \in Nodes, C[m].open
      PROVE  ValueLater(A, C, m) /\ ListLater(A, C, m)
  <2>1. /\ A[m].dseq \in Nat /\ B[m].dseq \in Nat /\ C[m].dseq \in Nat
        /\ A[m].nseq \in Nat /\ B[m].nseq \in Nat /\ C[m].nseq \in Nat
        /\ B[m].dseq <= b
    BY <1>1, VersionIs
  <2>2. ValueLater(B, C, m) /\ ListLater(B, C, m)
    BY <1>4 DEF Later
  <2>3. B[m].open => ValueLater(A, B, m) /\ ListLater(A, B, m)
    BY DEF Later
  <2>4. ValueLater(A, C, m)
    <3>1. CASE B[m].open /\ C[m].dseq = B[m].dseq
      BY <2>3, <3>1 DEF ValueLater
    <3>2. CASE C[m].dseq > b
      <4>1. C[m].dseq > a
        BY <1>2, <2>1, <3>2
      <4>. QED  BY <1>1, <4>1 DEF ValueLater
    <3>. QED  BY <1>1, <2>2, <3>1, <3>2 DEF ValueLater
  <2>5. ListLater(A, C, m)
    <3>1. CASE B[m].open /\ C[m].nseq = B[m].nseq /\ Kids(B, m) = Kids(C, m)
      <4>1. CASE B[m].nseq > a
        BY <1>1, <3>1, <4>1 DEF ListLater
      <4>2. CASE A[m].open /\ B[m].nseq = A[m].nseq /\ Kids(A, m) = Kids(B, m)
        BY <3>1, <4>2 DEF ListLater
      <4>3. CASE /\ B[m].nseq = 0 /\ Kids(B, m) = {} /\ B[m].dseq > a
                 /\ A[m].open => B[m].dseq > a + 1
        <5>1. C[m].dseq >= B[m].dseq
          <6>1. C[m].dseq = B[m].dseq \/ C[m].dseq > b
            BY <1>1, <2>2 DEF ValueLater
          <6>. QED  BY <2>1, <6>1
        <5>2. C[m].dseq > a /\ (A[m].open => C[m].dseq > a + 1)
          BY <2>1, <4>3, <5>1
        <5>. QED  BY <1>1, <3>1, <4>3, <5>2 DEF ListLater
      <4>. QED  BY <1>1, <2>3, <3>1, <4>1, <4>2, <4>3 DEF ListLater
    <3>2. CASE C[m].nseq > b
      <4>1. C[m].nseq > a
        BY <1>2, <2>1, <3>2
      <4>. QED  BY <1>1, <4>1 DEF ListLater
    <3>3. CASE /\ C[m].nseq = 0 /\ Kids(C, m) = {} /\ C[m].dseq > b
               /\ B[m].open => C[m].dseq > b + 1
      <4>1. C[m].dseq > a
        BY <1>2, <2>1, <3>3
      <4>2. A[m].open => C[m].dseq > a + 1
        <5>1. CASE B[m].open
          BY <1>2, <2>1, <3>3, <5>1
        <5>2. CASE ~B[m].open
          <6>1. A[m].open => a # b
            BY <1>2, <5>2
          <6>. QED  BY <1>2, <2>1, <3>3, <6>1
        <5>. QED  BY <5>1, <5>2
      <4>. QED  BY <1>1, <3>3, <4>1, <4>2 DEF ListLater
    <3>. QED  BY <1>1, <2>2, <3>1, <3>2, <3>3 DEF ListLater
  <2>. QED  BY <2>4, <2>5
<1>. QED  BY <1>1, <1>3, <1>4 DEF Later

\* The three changes.
LEMMA ValuedLater ==
  ASSUME NEW A, Version(A), NEW B, NEW n \in Nodes, A[n].open, NEW k \in Nat, k > Number(A),
         Valued(A, B, n, k)
  PROVE  Later(A, B) /\ Version(B) /\ Number(B) = k /\ Newer(A, B)
<1>1. PICK a \in Nat : a = Number(A)
  BY VersionIs
<1>2. Served(B, k)
  BY <1>1, ServedValued DEF Version
<1>3. Number(B) = k /\ Version(B)
  BY <1>2 DEF Served, Version, Number
<1>4. \A m \in Nodes : /\ B[m].open = A[m].open /\ B[m].vis = A[m].vis /\ B[m].nseq = A[m].nseq
                       /\ B[m].dseq = IF m = n THEN k ELSE A[m].dseq
                       /\ B[m].tseq = IF m \in Way[n] THEN k ELSE A[m].tseq
  BY DEF Valued
<1>5. \A m \in Nodes : Kids(A, m) = Kids(B, m)
  <2>1. \A m \in Nodes : Below[m] \subseteq Nodes
    BY Belows
  <2>. QED  BY <1>4, <2>1 DEF Kids
<1>6. Later(A, B)
  <2>1. ASSUME NEW m \in Nodes, B[m].open PROVE ValueLater(A, B, m) /\ ListLater(A, B, m)
    BY <1>4, <1>5, <2>1 DEF ValueLater, ListLater
  <2>2. Number(A) <= Number(B) /\ Number(A) # Number(B)
    BY <1>1, <1>3
  <2>. QED  BY <2>1, <2>2 DEF Later
<1>7. Newer(A, B)
  <2>. SUFFICES ASSUME NEW m \in Nodes, NEW x \in Nums(B[m])
                PROVE  x > Number(A) \/ x \in Nums(A[m])
    BY DEF Newer
  <2>. QED  BY <1>4 DEF Nums
<1>. QED  BY <1>3, <1>6, <1>7

LEMMA GrownLater ==
  ASSUME NEW A, Version(A), NEW B, NEW n \in Nodes \ {Root}, ~A[n].open, A[ParentOf(n)].open,
         NEW d \in Nat, NEW k \in Nat, d > Number(A), k > d, Grown(A, B, n, d, k)
  PROVE  /\ Later(A, B) /\ Version(B) /\ Number(B) = k /\ Newer(A, B)
         /\ \A m \in Nodes : \A x \in Nums(B[m]) : x > Number(A) => x = d \/ x = k
<1>1. PICK a \in Nat : a = Number(A)
  BY VersionIs
<1>2. Served(B, k)
  BY <1>1, ServedGrown DEF Version
<1>3. Number(B) = k /\ Version(B)
  BY <1>2 DEF Served, Version, Number
<1>4. /\ B[n].open /\ B[n].dseq = d /\ B[n].nseq = 0 /\ B[n].tseq = d
      /\ \A m \in Nodes \ {n} : /\ B[m].open = A[m].open /\ B[m].dseq = A[m].dseq
                                /\ B[m].nseq = IF m = ParentOf(n) THEN k ELSE A[m].nseq
                                /\ B[m].tseq = IF m \in Way[ParentOf(n)] THEN k ELSE A[m].tseq
  BY DEF Grown
<1>5. \A m \in Nodes : m # ParentOf(n) => Kids(A, m) = Kids(B, m)
  <2>1. \A m \in Nodes : \A c \in Below[m] : c \in Nodes /\ (c = n => m = ParentOf(n))
    BY Belows
  <2>. QED  BY <1>4, <2>1 DEF Kids
<1>6. Kids(B, n) = {}
  <2>1. \A c \in Below[n] : c \in Nodes \ {Root} /\ ParentOf(c) = n /\ c # n
    BY ChildWay, Belows
  <2>2. Standing(A)
    BY VersionIs
  <2>3. \A c \in Below[n] : ~A[c].open
    BY <2>1, <2>2 DEF Standing
  <2>. QED  BY <1>4, <2>1, <2>3 DEF Kids
<1>7. d > a /\ k > a
  BY <1>1
<1>8. Later(A, B)
  <2>1. ASSUME NEW m \in Nodes, B[m].open PROVE ValueLater(A, B, m) /\ ListLater(A, B, m)
    <3>1. CASE m = n
      BY <1>1, <1>4, <1>6, <1>7, <3>1 DEF ValueLater, ListLater
    <3>2. CASE m # n /\ m = ParentOf(n)
      BY <1>1, <1>4, <1>7, <2>1, <3>2 DEF ValueLater, ListLater
    <3>3. CASE m # n /\ m # ParentOf(n)
      BY <1>4, <1>5, <2>1, <3>3 DEF ValueLater, ListLater
    <3>. QED  BY <3>1, <3>2, <3>3
  <2>2. Number(A) <= Number(B) /\ Number(A) # Number(B)
    BY <1>1, <1>3, <1>7
  <2>. QED  BY <2>1, <2>2 DEF Later
<1>9. ASSUME NEW m \in Nodes, NEW x \in Nums(B[m])
      PROVE  x = 0 \/ x = d \/ x = k \/ x \in Nums(A[m])
  <2>1. CASE m = n
    BY <1>4, <1>9, <2>1 DEF Nums
  <2>2. CASE m # n
    BY <1>4, <1>9, <2>2 DEF Nums
  <2>. QED  BY <2>1, <2>2
<1>10. \A m \in Nodes : \A x \in Nums(A[m]) : x \in Nat /\ x <= a
  BY <1>1, VersionIs DEF Nums
<1>11. Newer(A, B)
  <2>. SUFFICES ASSUME NEW m \in Nodes, NEW x \in Nums(B[m])
                PROVE  x = 0 \/ x > Number(A) \/ x \in Nums(A[m])
    BY DEF Newer
  <2>. QED  BY <1>1, <1>7, <1>9
<1>12. \A m \in Nodes : \A x \in Nums(B[m]) : x > Number(A) => x = d \/ x = k
  <2>. SUFFICES ASSUME NEW m \in Nodes, NEW x \in Nums(B[m]), x > a
                PROVE  x = d \/ x = k
    BY <1>1
  <2>1. x = 0 \/ x \in Nums(A[m]) => ~(x > a)
    BY <1>10
  <2>. QED  BY <1>9, <2>1
<1>. QED  BY <1>3, <1>8, <1>11, <1>12

LEMMA ShrunkLater ==
  ASSUME NEW A, Version(A), NEW B, NEW n \in Nodes \ {Root}, A[n].open, \A c \in Below[n] : ~A[c].open,
         NEW k \in Nat, k > Number(A), Shrunk(A, B, n, k)
  PROVE  Later(A, B) /\ Version(B) /\ Number(B) = k /\ Newer(A, B)
<1>1. PICK a \in Nat : a = Number(A)
  BY VersionIs
<1>2. Served(B, k)
  BY <1>1, ServedShrunk DEF Version
<1>3. Number(B) = k /\ Version(B)
  BY <1>2 DEF Served, Version, Number
<1>4. /\ B[n] = Absent
      /\ \A m \in Nodes \ {n} : /\ B[m].open = A[m].open /\ B[m].dseq = A[m].dseq
                                /\ B[m].nseq = IF m = ParentOf(n) THEN k ELSE A[m].nseq
                                /\ B[m].tseq = IF m \in Way[ParentOf(n)] THEN k ELSE A[m].tseq
  BY DEF Shrunk
<1>5. \A m \in Nodes : m # ParentOf(n) => Kids(A, m) = Kids(B, m)
  <2>1. \A m \in Nodes : \A c \in Below[m] : c \in Nodes /\ (c = n => m = ParentOf(n))
    BY Belows
  <2>. QED  BY <1>4, <2>1 DEF Kids
<1>6. Later(A, B)
  <2>1. ASSUME NEW m \in Nodes, B[m].open PROVE ValueLater(A, B, m) /\ ListLater(A, B, m)
    <3>1. m # n
      BY <1>4, <2>1, Trees
    <3>2. CASE m = ParentOf(n)
      BY <1>1, <1>4, <2>1, <3>1, <3>2 DEF ValueLater, ListLater
    <3>3. CASE m # ParentOf(n)
      BY <1>4, <1>5, <2>1, <3>1, <3>3 DEF ValueLater, ListLater
    <3>. QED  BY <3>2, <3>3
  <2>2. Number(A) <= Number(B) /\ Number(A) # Number(B)
    BY <1>1, <1>3
  <2>. QED  BY <2>1, <2>2 DEF Later
<1>7. Newer(A, B)
  <2>. SUFFICES ASSUME NEW m \in Nodes, NEW x \in Nums(B[m])
                PROVE  x = 0 \/ x > Number(A) \/ x \in Nums(A[m])
    BY DEF Newer
  <2>1. CASE m = n
    BY <1>4, <2>1, AbsentNums
  <2>2. CASE m # n
    BY <1>4, <2>2 DEF Nums
  <2>. QED  BY <2>1, <2>2
<1>. QED  BY <1>3, <1>6, <1>7

\* A stanza of a step tells of the tree after it.
Tells(B, z) == \E n \in Nodes : B[n].open /\ z \in {TreeEvt(B, n), DataEvt(B, n)}

LEMMA StepIs ==
  ASSUME NEW A, Version(A), NEW B, NEW z, Step(A, B, z)
  PROVE  Later(A, B) /\ Version(B) /\ Newer(A, B) /\ Tells(B, z) /\ z \in Stanza
<1>1. PICK a \in Nat : a = Number(A)
  BY VersionIs
<1>2. CASE \E n \in Nodes : B[n].open /\ A = B /\ z \in {TreeEvt(B, n), DataEvt(B, n)}
  <2>1. Tells(B, z) /\ A = B
    BY <1>2 DEF Tells
  <2>. QED  BY <2>1, LaterSame, VersionIs, DataEvtIs, TreeEvtIs DEF Tells
<1>3. CASE CloseStep(A, B, z, Number(A) + 1)
  <2>1. PICK c \in Nodes \ {Root} : /\ A[c].open /\ \A d \in Below[c] : ~A[d].open
                                    /\ Shrunk(A, B, c, a + 1) /\ z = TreeEvt(B, ParentOf(c))
    BY <1>1, <1>3 DEF CloseStep
  <2>2. a + 1 \in Nat /\ a + 1 > Number(A)
    BY <1>1
  <2>3. Later(A, B) /\ Version(B) /\ Newer(A, B)
    BY <2>1, <2>2, ShrunkLater
  <2>4. ParentOf(c) \in Nodes /\ ParentOf(c) # c /\ A[ParentOf(c)].open
    BY <2>1, VersionIs, WayFacts DEF Standing
  <2>5. B[ParentOf(c)].open
    BY <2>1, <2>4 DEF Shrunk
  <2>. QED  BY <2>1, <2>3, <2>4, <2>5, VersionIs, TreeEvtIs DEF Tells
<1>4. CASE \E n \in Nodes : A[n].open /\ Valued(A, B, n, Number(A) + 1) /\ z = DataEvt(B, n)
  <2>1. PICK n \in Nodes : A[n].open /\ Valued(A, B, n, a + 1) /\ z = DataEvt(B, n)
    BY <1>1, <1>4
  <2>2. a + 1 \in Nat /\ a + 1 > Number(A)
    BY <1>1
  <2>3. Later(A, B) /\ Version(B) /\ Newer(A, B)
    BY <2>1, <2>2, ValuedLater
  <2>4. B[n].open
    BY <2>1 DEF Valued
  <2>. QED  BY <2>1, <2>3, <2>4, VersionIs, DataEvtIs DEF Tells
<1>5. CASE \E n \in Nodes \ {Root} : /\ ~A[n].open /\ A[ParentOf(n)].open
                                     /\ Grown(A, B, n, Number(A) + 1, Number(A) + 3)
                                     /\ z = DataEvt(B, n)
  <2>1. PICK n \in Nodes \ {Root} : /\ ~A[n].open /\ A[ParentOf(n)].open
                                    /\ Grown(A, B, n, a + 1, a + 3) /\ z = DataEvt(B, n)
    BY <1>1, <1>5
  <2>2. a + 1 \in Nat /\ a + 1 > Number(A) /\ a + 3 \in Nat /\ a + 3 > a + 1
    BY <1>1
  <2>3. Later(A, B) /\ Version(B) /\ Newer(A, B)
    BY <2>1, <2>2, GrownLater
  <2>4. B[n].open
    BY <2>1 DEF Grown
  <2>. QED  BY <2>1, <2>3, <2>4, VersionIs, DataEvtIs DEF Tells
<1>. QED  BY <1>2, <1>3, <1>4, <1>5 DEF Step

\* Of the numbers after c the proxy has been told of none up to g, but perhaps
\* of the one that follows.
Skips(c, g, B) == \A m \in Nodes : \A x \in Nums(B[m]) : x > c /\ x <= g => x = c + 1

LEMMA NumsNat ==
  ASSUME NEW t \in Tree, NEW m \in Nodes, NEW x \in Nums(t[m])
  PROVE  x \in Nat
  BY Trees, Fields DEF Nums

LEMMA NewerBoth ==
  ASSUME NEW A, NEW B, NEW C, Version(A), Version(B), Version(C), Newer(A, B), Newer(B, C),
         Number(A) <= Number(B)
  PROVE  Newer(A, C)
<1>1. PICK a, b \in Nat : a = Number(A) /\ b = Number(B)
  BY VersionIs
<1>. SUFFICES ASSUME NEW m \in Nodes, NEW x \in Nums(C[m]), x # 0
              PROVE  x > a \/ \E k \in Nodes : x \in Nums(A[k])
  BY <1>1 DEF Newer
<1>2. x \in Nat
  BY NumsNat, VersionIs
<1>3. x > b \/ \E k \in Nodes : x \in Nums(B[k])
  BY <1>1 DEF Newer
<1>4. x > b => x > a
  BY <1>1, <1>2
<1>5. \A k \in Nodes : x \in Nums(B[k]) => x > a \/ \E j \in Nodes : x \in Nums(A[j])
  BY <1>1 DEF Newer
<1>. QED  BY <1>3, <1>4, <1>5

LEMMA SkipsNewer ==
  ASSUME NEW A, NEW B, Version(A), Version(B), Newer(A, B), NEW c \in Nat, NEW g \in Nat,
         Skips(c, g, A), g <= Number(A)
  PROVE  Skips(c, g, B)
<1>. SUFFICES ASSUME NEW m \in Nodes, NEW x \in Nums(B[m]), x > c, x <= g
              PROVE  x = c + 1
  BY DEF Skips
<1>1. PICK a \in Nat : a = Number(A)
  BY VersionIs
<1>2. x \in Nat
  BY NumsNat, VersionIs
<1>3. x # 0 /\ ~(x > a)
  BY <1>1, <1>2
<1>4. PICK k \in Nodes : x \in Nums(A[k])
  BY <1>1, <1>3 DEF Newer
<1>. QED  BY <1>4 DEF Skips

\* The trees between the stanzas of a body.
Runs(V, body) ==
  /\ V \in [0..Len(body) -> Tree] /\ Version(V[0])
  /\ \A k \in 1..Len(body) : Step(V[k - 1], V[k], body[k])

LEMMA RunsAre ==
  ASSUME NEW V, NEW body, Len(body) \in Nat, Runs(V, body)
  PROVE  \A k \in 0..Len(body) : Version(V[k]) /\ Later(V[0], V[k]) /\ Newer(V[0], V[k])
<1>. DEFINE H == {k \in 0..Len(body) : Version(V[k]) /\ Later(V[0], V[k]) /\ Newer(V[0], V[k])}
<1>1. 0 \in H
  BY LaterSame DEF Runs
<1>2. ASSUME NEW k \in 1..Len(body), k - 1 \in H
      PROVE  k \in H
  <2>1. Version(V[k - 1]) /\ Later(V[0], V[k - 1]) /\ Newer(V[0], V[k - 1]) /\ Version(V[0])
    BY <1>2 DEF Runs
  <2>2. Step(V[k - 1], V[k], body[k])
    BY <1>2 DEF Runs
  <2>3. Later(V[k - 1], V[k]) /\ Version(V[k]) /\ Newer(V[k - 1], V[k])
    BY <2>1, <2>2, StepIs
  <2>4. Later(V[0], V[k])
    BY <2>1, <2>3, LaterBoth
  <2>5. Newer(V[0], V[k])
    BY <2>1, <2>3, NewerBoth DEF Later
  <2>. QED  BY <2>3, <2>4, <2>5
<1>. HIDE DEF H
<1>3. \A k \in 0..Len(body) : k \in H
  BY <1>1, <1>2, UpTo
<1>. QED  BY <1>3 DEF H

-----------------------------------------------------------------------------
(* What the proxy's copy P has of a version S of the server's tree.  Of the *)
(* numbers up to c it knows all, and of those between c and g, the number   *)
(* at which it was in sync, none.                                           *)

Differs(P, S, n) == P[n].open /\ S[n].open /\ Kids(P, n) # Kids(S, n)
Outdated(P, S, n) == n # Root /\ P[n].open /\ S[n].open /\ P[n].dseq # S[n].dseq
Missing(P, S, n) == S[n].open /\ ~P[n].open

Knows(P, S, c, g) ==
  /\ c \in Nat /\ g \in Nat /\ c <= Number(S)
  /\ \A n \in Nodes : Differs(P, S, n) => S[n].nseq > c \/ (S[n].dseq > c /\ S[n].dseq > g)
  /\ \A n \in Nodes : Outdated(P, S, n) => S[n].dseq > c
  /\ \A n \in Nodes : Missing(P, S, n) => S[n].dseq > c /\ (S[n].nseq = 0 \/ S[n].nseq > c)
  /\ \A n \in Nodes : \A x \in Nums(P[n]) : x <= Number(S) /\ ~(x > c /\ x <= g)

\* Where the copy differs something is asked for.
Marked(P, tq, dq, S) ==
  /\ \A n \in Nodes : Differs(P, S, n) => \E a \in Way[n] : a \in tq
  /\ \A n \in Nodes : Outdated(P, S, n) => n \in dq \/ \E a \in Way[n] \ {n} : a \in tq

\* A node without a value has been asked for it.
Shown(P, dq) == \A n \in Nodes : P[n].open /\ ~P[n].vis => n \in dq

Agree(P, S) ==
  /\ \A n \in Nodes : P[n].open = S[n].open
  /\ \A n \in Nodes \ {Root} : P[n].dseq = S[n].dseq

\* Above a node that is there in one tree only the lists of children differ.
LEMMA Beyond ==
  ASSUME NEW P, Standing(P), NEW S, Standing(S), NEW n \in Nodes, P[n].open, ~S[n].open
  PROVE  \E m \in Way[n] \ {n} : Differs(P, S, m)
<1>1. n # Root
  BY DEF Standing
<1>2. ASSUME NEW c \in Nodes \ {Root}, P[c].open, ~S[c].open, S[ParentOf(c)].open
      PROVE  Differs(P, S, ParentOf(c))
  <2>1. ParentOf(c) \in Nodes /\ c \in Below[ParentOf(c)] /\ P[ParentOf(c)].open
    BY <1>2, WayFacts, Belows DEF Standing
  <2>2. c \in Kids(P, ParentOf(c)) /\ c \notin Kids(S, ParentOf(c))
    BY <1>2, <2>1 DEF Kids
  <2>. QED  BY <1>2, <2>1, <2>2 DEF Differs
<1>3. CASE S[ParentOf(n)].open
  BY <1>1, <1>2, <1>3, WayFacts
<1>4. CASE ~S[ParentOf(n)].open
  <2>1. ParentOf(n) \in Nodes \ {Root} /\ P[ParentOf(n)].open
    BY <1>1, <1>4, WayFacts DEF Standing
  <2>2. n \in Low
    BY <1>1, <2>1, Levels
  <2>3. ParentOf(n) \in Top /\ ParentOf(ParentOf(n)) = Root
    BY <2>2, Levels
  <2>4. Differs(P, S, Root)
    BY <1>2, <1>4, <2>1, <2>3 DEF Standing
  <2>. QED  BY <1>1, <2>4, WayFacts
<1>. QED  BY <1>3, <1>4

LEMMA DiffersBoth ==
  ASSUME NEW P, NEW S, NEW n
  PROVE  Differs(P, S, n) <=> Differs(S, P, n)
  BY DEF Differs

\* When all numbers are known, the same nodes are there.
LEMMA AllKnown ==
  ASSUME NEW P, Standing(P), NEW S, Version(S), NEW g, Knows(P, S, Number(S), g)
  PROVE  \A n \in Nodes : P[n].open <=> S[n].open
<1>1. Standing(S) /\ \A m \in Nodes : ~(S[m].dseq > Number(S)) /\ ~(S[m].nseq > Number(S))
  BY VersionIs
<1>2. \A n \in Nodes : ~Differs(P, S, n)
  BY <1>1 DEF Knows
<1>3. \A n \in Nodes : Way[n] \subseteq Nodes
  BY WayFacts
<1>. QED  BY <1>1, <1>2, <1>3, Beyond, DiffersBoth

\* A later version, of which stanzas may not have come.
LEMMA KnowsLater ==
  ASSUME NEW P, Standing(P), NEW S, Version(S), NEW A, Version(A), NEW c, NEW g, Knows(P, S, c, g),
         Later(S, A), Skips(c, g, A)
  PROVE  Knows(P, A, c, g)
<1>1. PICK s, a \in Nat : s = Number(S) /\ a = Number(A)
  BY VersionIs
<1>2. c \in Nat /\ g \in Nat /\ c <= s /\ s <= a
  BY <1>1 DEF Knows, Later
<1>3. \A n \in Nodes : /\ A[n].dseq \in Nat /\ A[n].nseq \in Nat /\ S[n].dseq \in Nat /\ S[n].nseq \in Nat
                       /\ S[n].dseq <= s /\ S[n].nseq <= s
  BY <1>1, VersionIs
<1>4. \A n \in Nodes : A[n].open => ValueLater(S, A, n) /\ ListLater(S, A, n)
  BY DEF Later
<1>5. ASSUME NEW n \in Nodes, Differs(P, A, n)
      PROVE  A[n].nseq > c \/ (A[n].dseq > c /\ A[n].dseq > g)
  <2>1. P[n].open /\ A[n].open /\ ValueLater(S, A, n)
    BY <1>4, <1>5 DEF Differs
  <2>2. CASE S[n].open /\ A[n].nseq = S[n].nseq /\ Kids(S, n) = Kids(A, n)
    <3>1. Differs(P, S, n)
      BY <1>5, <2>2 DEF Differs
    <3>2. S[n].nseq > c \/ (S[n].dseq > c /\ S[n].dseq > g)
      BY <3>1 DEF Knows
    <3>3. A[n].dseq >= S[n].dseq
      <4>1. A[n].dseq = S[n].dseq \/ A[n].dseq > s
        BY <1>1, <2>1 DEF ValueLater
      <4>. QED  BY <1>1, <1>3, <4>1
    <3>. QED  BY <1>2, <1>3, <2>2, <3>2, <3>3
  <2>3. CASE A[n].nseq > s
    BY <1>2, <1>3, <2>3
  <2>4. CASE A[n].nseq = 0 /\ A[n].dseq > s /\ (S[n].open => A[n].dseq > s + 1)
    <3>1. A[n].dseq > c
      BY <1>2, <1>3, <2>4
    <3>2. ASSUME A[n].dseq <= g
          PROVE  FALSE
      <4>1. A[n].dseq \in Nums(A[n])
        BY DEF Nums
      <4>2. A[n].dseq = c + 1
        BY <3>1, <3>2, <4>1 DEF Skips
      <4>3. s = c
        BY <1>1, <1>2, <2>4, <4>2
      <4>4. ~S[n].open
        BY <1>2, <2>4, <4>2, <4>3
      <4>5. Knows(P, S, Number(S), g)
        BY <1>1, <4>3
      <4>6. \A m \in Nodes : P[m].open <=> S[m].open
        BY <4>5, AllKnown
      <4>. QED  BY <2>1, <4>4, <4>6
    <3>. QED  BY <1>2, <1>3, <3>1, <3>2
  <2>. QED  BY <1>1, <1>4, <2>1, <2>2, <2>3, <2>4 DEF ListLater
<1>6. ASSUME NEW n \in Nodes, Outdated(P, A, n)
      PROVE  A[n].dseq > c
  <2>1. ValueLater(S, A, n)
    BY <1>4, <1>6 DEF Outdated
  <2>2. CASE S[n].open /\ A[n].dseq = S[n].dseq
    <3>1. Outdated(P, S, n)
      BY <1>6, <2>2 DEF Outdated
    <3>. QED  BY <2>2, <3>1 DEF Knows
  <2>3. CASE A[n].dseq > s
    BY <1>2, <1>3, <2>3
  <2>. QED  BY <1>1, <2>1, <2>2, <2>3 DEF ValueLater
<1>7. ASSUME NEW n \in Nodes, Missing(P, A, n)
      PROVE  A[n].dseq > c /\ (A[n].nseq = 0 \/ A[n].nseq > c)
  <2>1. ValueLater(S, A, n) /\ ListLater(S, A, n)
    BY <1>4, <1>7 DEF Missing
  <2>2. S[n].open => S[n].dseq > c /\ (S[n].nseq = 0 \/ S[n].nseq > c)
    BY <1>7 DEF Missing, Knows
  <2>3. A[n].dseq > s => A[n].dseq > c
    BY <1>2, <1>3
  <2>4. A[n].nseq > s => A[n].nseq > c
    BY <1>2, <1>3
  <2>. QED  BY <1>1, <2>1, <2>2, <2>3, <2>4 DEF ValueLater, ListLater
<1>8. ASSUME NEW n \in Nodes, NEW x \in Nums(P[n])
      PROVE  x <= Number(A) /\ ~(x > c /\ x <= g)
  <2>1. x <= s /\ ~(x > c /\ x <= g)
    BY <1>1 DEF Knows
  <2>2. x \in Nat
    BY NumsNat DEF Standing
  <2>. QED  BY <1>1, <1>2, <2>1, <2>2
<1>. QED  BY <1>1, <1>2, <1>5, <1>6, <1>7, <1>8 DEF Knows

LEMMA MarkedMore ==
  ASSUME NEW P, NEW S, NEW tq, NEW dq, NEW tr, NEW dr, Marked(P, tq, dq, S), tq \subseteq tr, dq \subseteq dr
  PROVE  Marked(P, tr, dr, S)
  BY DEF Marked

LEMMA KidsSame ==
  ASSUME NEW A, NEW B, NEW n \in Nodes, \A m \in Nodes \ {n} : A[m].open = B[m].open
  PROVE  \A m \in Nodes : n = Root \/ m # ParentOf(n) => Kids(A, m) = Kids(B, m)
<1>1. \A m \in Nodes : \A c \in Below[m] : c \in Nodes \ {Root} /\ (c = n => m = ParentOf(n))
  BY Belows
<1>. QED  BY <1>1 DEF Kids

LEMMA Kinds ==
  \A t, n : TreeEvt(t, n).kind = "TREE" /\ DataEvt(t, n).kind = "DATA"
            /\ TreeEvt(t, n).path = n /\ DataEvt(t, n).path = n
            /\ TreeEvt(t, n).num = t[n].nseq /\ DataEvt(t, n).num = t[n].dseq
  BY DEF TreeEvt, DataEvt

\* A step that is told by a list: the list's node would have to be asked for.
LEMMA StepMarksTree ==
  ASSUME NEW A, Version(A), NEW B, NEW z, Step(A, B, z), z.kind = "TREE",
         NEW P, NEW tq, NEW dq, Marked(P, tq, dq, A)
  PROVE  Marked(P, tq \cup {z.path}, dq, B)
<1>1. A = B \/ CloseStep(A, B, z, Number(A) + 1)
  BY Kinds DEF Step
<1>2. CASE A = B
  BY <1>2, MarkedMore
<1>3. CASE CloseStep(A, B, z, Number(A) + 1)
  <2>1. PICK c \in Nodes \ {Root} : Shrunk(A, B, c, Number(A) + 1) /\ z = TreeEvt(B, ParentOf(c))
    BY <1>3 DEF CloseStep
  <2>2. /\ B[c] = Absent
        /\ \A m \in Nodes \ {c} : B[m].open = A[m].open /\ B[m].dseq = A[m].dseq
    BY <2>1 DEF Shrunk
  <2>3. \A m \in Nodes : m # ParentOf(c) => Kids(A, m) = Kids(B, m)
    BY <2>2, KidsSame
  <2>4. ~B[c].open /\ z.path = ParentOf(c) /\ ParentOf(c) \in Nodes
    BY <2>1, <2>2, Trees, Kinds, WayFacts
  <2>5. ASSUME NEW n \in Nodes, Differs(P, B, n)
        PROVE  \E a \in Way[n] : a \in tq \cup {z.path}
    <3>1. CASE n = ParentOf(c)
      BY <2>4, <3>1, WayFacts
    <3>2. CASE n # ParentOf(c)
      <4>1. Differs(P, A, n)
        BY <2>2, <2>3, <2>4, <2>5, <3>2 DEF Differs
      <4>. QED  BY <4>1 DEF Marked
    <3>. QED  BY <3>1, <3>2
  <2>6. ASSUME NEW n \in Nodes, Outdated(P, B, n)
        PROVE  n \in dq \/ \E a \in Way[n] \ {n} : a \in tq \cup {z.path}
    <3>1. Outdated(P, A, n)
      BY <2>2, <2>4, <2>6 DEF Outdated
    <3>. QED  BY <3>1 DEF Marked
  <2>. QED  BY <2>5, <2>6 DEF Marked
<1>. QED  BY <1>1, <1>2, <1>3

\* A step that is told by a value: that of p, or of p as a new child.
MarkedBut(P, tq, dq, S, p) ==
  /\ \A n \in Nodes : Differs(P, S, n) =>
       \/ \E a \in Way[n] : a \in tq
       \/ n = ParentOf(p) /\ p # Root /\ ~P[p].open /\ Kids(P, n) \cup {p} = Kids(S, n)
  /\ \A n \in Nodes : Outdated(P, S, n) => n \in dq \cup {p} \/ \E a \in Way[n] \ {n} : a \in tq

LEMMA StepMarksData ==
  ASSUME NEW A, Version(A), NEW B, NEW z, Step(A, B, z), z.kind = "DATA",
         NEW P, Standing(P), NEW tq, NEW dq, Marked(P, tq, dq, A)
  PROVE  MarkedBut(P, tq, dq, B, z.path)
<1>1. \/ A = B
      \/ \E n \in Nodes : A[n].open /\ Valued(A, B, n, Number(A) + 1) /\ z = DataEvt(B, n)
      \/ \E n \in Nodes \ {Root} : /\ ~A[n].open /\ A[ParentOf(n)].open
                                   /\ Grown(A, B, n, Number(A) + 1, Number(A) + 3) /\ z = DataEvt(B, n)
  BY Kinds DEF Step, CloseStep
<1>2. CASE A = B
  BY <1>2 DEF Marked, MarkedBut
<1>3. CASE \E n \in Nodes : A[n].open /\ Valued(A, B, n, Number(A) + 1) /\ z = DataEvt(B, n)
  <2>1. PICK p \in Nodes : Valued(A, B, p, Number(A) + 1) /\ z = DataEvt(B, p)
    BY <1>3
  <2>2. /\ \A m \in Nodes : B[m].open = A[m].open /\ (m # p => B[m].dseq = A[m].dseq)
        /\ z.path = p
    BY <2>1, Kinds DEF Valued
  <2>3. \A m \in Nodes : Kids(A, m) = Kids(B, m)
    BY <2>2, Belows DEF Kids
  <2>4. \A n \in Nodes : Differs(P, B, n) => Differs(P, A, n)
    BY <2>2, <2>3 DEF Differs
  <2>5. \A n \in Nodes : Outdated(P, B, n) => n = p \/ Outdated(P, A, n)
    BY <2>2 DEF Outdated
  <2>. QED  BY <2>2, <2>4, <2>5 DEF Marked, MarkedBut
<1>4. CASE \E n \in Nodes \ {Root} : /\ ~A[n].open /\ A[ParentOf(n)].open
                                     /\ Grown(A, B, n, Number(A) + 1, Number(A) + 3) /\ z = DataEvt(B, n)
  <2>1. PICK p \in Nodes \ {Root} : /\ ~A[p].open /\ A[ParentOf(p)].open
                                    /\ Grown(A, B, p, Number(A) + 1, Number(A) + 3) /\ z = DataEvt(B, p)
    BY <1>4
  <2>2. /\ B[p].open /\ z.path = p
        /\ \A m \in Nodes \ {p} : B[m].open = A[m].open /\ B[m].dseq = A[m].dseq
    BY <2>1, Kinds DEF Grown
  <2>3. \A m \in Nodes : m # ParentOf(p) => Kids(A, m) = Kids(B, m)
    BY <2>2, KidsSame
  <2>4. Standing(A)
    BY VersionIs
  <2>5. P[p].open => \E a \in Way[p] : a \in tq
    <3>. SUFFICES ASSUME P[p].open
                  PROVE  \E a \in Way[p] : a \in tq
      OBVIOUS
    <3>1. PICK m \in Way[p] \ {p} : Differs(P, A, m)
      BY <2>1, <2>4, Beyond
    <3>2. m \in Nodes /\ Way[m] \subseteq Way[p]
      BY <3>1, WayFacts
    <3>. QED  BY <3>1, <3>2 DEF Marked
  <2>6. ASSUME NEW n \in Nodes, Differs(P, B, n)
        PROVE  \/ \E a \in Way[n] : a \in tq
               \/ n = ParentOf(p) /\ p # Root /\ ~P[p].open /\ Kids(P, n) \cup {p} = Kids(B, n)
    <3>1. CASE n = p
      BY <2>5, <2>6, <3>1 DEF Differs
    <3>2. CASE n # p /\ (n # ParentOf(p) \/ Kids(P, n) # Kids(A, n))
      <4>1. Differs(P, A, n)
        BY <2>2, <2>3, <2>6, <3>2 DEF Differs
      <4>. QED  BY <4>1 DEF Marked
    <3>3. CASE n = ParentOf(p) /\ Kids(P, n) = Kids(A, n)
      <4>1. p \in Below[n] /\ Below[n] \subseteq Nodes
        BY <2>1, <3>3, Belows, WayFacts
      <4>2. ~P[p].open
        BY <2>1, <3>3, <4>1 DEF Kids
      <4>3. Kids(A, n) \cup {p} = Kids(B, n)
        BY <2>2, <4>1 DEF Kids
      <4>. QED  BY <3>3, <4>2, <4>3
    <3>. QED  BY <3>1, <3>2, <3>3
  <2>7. \A n \in Nodes : Outdated(P, B, n) => n = p \/ Outdated(P, A, n)
    BY <2>2 DEF Outdated
  <2>. QED  BY <2>2, <2>6, <2>7 DEF Marked, MarkedBut
<1>. QED  BY <1>1, <1>2, <1>3, <1>4

\* The number k is read: it is the one after c, or c stays.
Counts(c, d, g, k) ==
  d \in Nat /\ \/ d = c /\ ~(k > c /\ k <= g)
               \/ d = c + 1 /\ k = d /\ d <= g

LEMMA CountsIs ==
  ASSUME NEW B \in Tree, NEW p \in Nodes, NEW k \in Nums(B[p]), NEW c \in Nat, NEW g \in Nat, Skips(c, g, B)
  PROVE  \E d : Counts(c, d, g, k) /\ \A A \in Tree : Skips(c, g, A) => Skips(d, g, A)
<1>1. k \in Nat
  BY NumsNat
<1>2. CASE k > c /\ k <= g
  <2>1. k = c + 1
    BY <1>2 DEF Skips
  <2>2. Counts(c, c + 1, g, k)
    BY <1>2, <2>1 DEF Counts
  <2>3. ASSUME NEW A \in Tree, Skips(c, g, A), NEW m \in Nodes, NEW x \in Nums(A[m]), x > c + 1, x <= g
        PROVE  FALSE
    <3>1. x \in Nat
      BY NumsNat
    <3>2. x > c
      BY <2>3, <3>1
    <3>. QED  BY <2>3, <3>1, <3>2 DEF Skips
  <2>. QED  BY <2>2, <2>3 DEF Skips
<1>3. CASE ~(k > c /\ k <= g)
  BY <1>3 DEF Counts
<1>. QED  BY <1>2, <1>3

\* What reading a stanza may do to a copy: k is the stanza's number, and a
\* node whose number it is neither differs nor is missing then.
LEMMA KnowsRead ==
  ASSUME NEW P \in Tree, NEW R \in Tree, NEW B, Version(B), NEW c, NEW g, NEW d, NEW k \in Nat,
         Knows(P, B, c, g), Counts(c, d, g, k), k <= Number(B), NumsFrom(P, R, {0, k}),
         \A m \in Nodes : Differs(R, B, m) =>
           /\ Differs(P, B, m) \/ (Missing(P, B, m) /\ Kids(B, m) # {})
           /\ k > 0 => B[m].nseq # k,
         \A m \in Nodes : Outdated(R, B, m) =>
           (Outdated(P, B, m) \/ Missing(P, B, m)) /\ (k > 0 => B[m].dseq # k),
         \A m \in Nodes : Missing(R, B, m) =>
           Missing(P, B, m) /\ (k > 0 => B[m].dseq # k /\ B[m].nseq # k)
  PROVE  Knows(R, B, d, g)
<1>1. PICK b \in Nat : b = Number(B)
  BY VersionIs
<1>2. c \in Nat /\ g \in Nat /\ d \in Nat /\ c <= b
  BY <1>1 DEF Knows, Counts
<1>3. (d = c /\ ~(k > c /\ k <= g)) \/ (d = c + 1 /\ k = d /\ k > 0 /\ d <= g)
  BY <1>2 DEF Counts
<1>4. \A m \in Nodes : B[m].dseq \in Nat /\ B[m].nseq \in Nat
  BY VersionIs
<1>5. \A x \in Nat : x > c /\ (k > 0 => x # k) => x > d
  BY <1>2, <1>3
<1>6. \A x \in Nat : x > c /\ x > g => x > d
  BY <1>2, <1>3
<1>7. ASSUME NEW m \in Nodes, Missing(P, B, m)
      PROVE  B[m].dseq > c /\ (B[m].nseq = 0 \/ B[m].nseq > c)
  BY <1>7 DEF Knows
<1>8. ASSUME NEW m \in Nodes, Differs(R, B, m)
      PROVE  B[m].nseq > d \/ (B[m].dseq > d /\ B[m].dseq > g)
  <2>1. CASE Differs(P, B, m)
    <3>1. B[m].nseq > c \/ (B[m].dseq > c /\ B[m].dseq > g)
      BY <2>1 DEF Knows
    <3>. QED  BY <1>4, <1>5, <1>6, <1>8, <3>1
  <2>2. CASE Missing(P, B, m) /\ Kids(B, m) # {}
    <3>1. PICK e \in Below[m] : B[e].open
      BY <2>2 DEF Kids
    <3>2. e \in Nodes \ {Root} /\ ParentOf(e) = m
      BY <3>1, Belows
    <3>3. B[m].nseq > 0
      BY <3>1, <3>2, VersionIs DEF Numbered
    <3>4. B[m].nseq > c
      BY <1>4, <1>7, <2>2, <3>3
    <3>. QED  BY <1>4, <1>5, <1>8, <3>4
  <2>. QED  BY <1>8, <2>1, <2>2
<1>9. ASSUME NEW m \in Nodes, Outdated(R, B, m)
      PROVE  B[m].dseq > d
  <2>1. B[m].dseq > c
    BY <1>7, <1>9 DEF Knows
  <2>. QED  BY <1>4, <1>5, <1>9, <2>1
<1>10. ASSUME NEW m \in Nodes, Missing(R, B, m)
       PROVE  B[m].dseq > d /\ (B[m].nseq = 0 \/ B[m].nseq > d)
  <2>1. Missing(P, B, m) /\ (k > 0 => B[m].dseq # k /\ B[m].nseq # k)
    BY <1>10
  <2>2. B[m].dseq > d
    BY <1>4, <1>5, <1>7, <2>1
  <2>3. B[m].nseq = 0 \/ B[m].nseq > d
    BY <1>4, <1>5, <1>7, <2>1
  <2>. QED  BY <2>2, <2>3
<1>11. ASSUME NEW m \in Nodes, NEW x \in Nums(R[m])
       PROVE  x <= Number(B) /\ ~(x > d /\ x <= g)
  <2>1. x \in {0, k} \/ \E e \in Nodes : x \in Nums(P[e])
    BY DEF NumsFrom
  <2>2. x \in Nat
    BY NumsNat
  <2>3. CASE \E e \in Nodes : x \in Nums(P[e])
    <3>1. x <= b /\ ~(x > c /\ x <= g)
      BY <1>1, <2>3 DEF Knows
    <3>. QED  BY <1>1, <1>2, <1>3, <2>2, <3>1
  <2>4. CASE x \in {0, k}
    BY <1>1, <1>2, <1>3, <2>4
  <2>. QED  BY <2>1, <2>3, <2>4
<1>12. d <= b
  BY <1>1, <1>2, <1>3
<1>. QED  BY <1>1, <1>2, <1>8, <1>9, <1>10, <1>11, <1>12 DEF Knows

-----------------------------------------------------------------------------
(* A list of children is read.                                              *)

\* A number of a subtree is at most the number of its top.
LEMMA UnderNums ==
  ASSUME NEW B, Version(B), NEW m \in Nodes, NEW a \in Way[m]
  PROVE  B[m].dseq <= B[a].tseq /\ B[m].nseq <= B[a].tseq
<1>1. a \in Nodes
  BY WayFacts
<1>2. /\ B[m].dseq \in Nat /\ B[m].nseq \in Nat /\ B[m].tseq \in Nat /\ B[a].tseq \in Nat
      /\ B[m].dseq <= B[m].tseq /\ B[m].nseq <= B[m].tseq /\ B[m].tseq <= B[a].tseq
  BY <1>1, VersionIs DEF Upward
<1>. QED  BY <1>2

\* Below a node there is a child on the way.
LEMMA WayChild ==
  ASSUME NEW m \in Nodes, NEW p \in Way[m], p # m
  PROVE  \E c \in Below[p] : c \in Way[m]
<1>1. CASE m \in Top
  BY <1>1, Ways, Levels, Belows, WayFacts
<1>2. CASE m \in Low /\ p = ParentOf(m)
  BY <1>2, Ways, Levels, Belows, WayFacts
<1>3. CASE m \in Low /\ p = Root
  BY <1>3, Ways, Levels, Belows, WayFacts
<1>4. m # Root
  BY Ways
<1>. QED  BY <1>1, <1>2, <1>3, <1>4, Ways, Levels

\* The stanza z of B is about p, which the copy w has: r is what it becomes.
ReadsTree(w, r, z, B, p) ==
  /\ w \in Copy /\ Version(B) /\ p \in Nodes /\ B[p].open /\ w.t[p].open
  /\ z = TreeEvt(B, p) /\ TreeMakes(w, r, z)

LEMMA TreeRead ==
  ASSUME NEW w, NEW r, NEW z, NEW B, NEW p, ReadsTree(w, r, z, B, p)
  PROVE  /\ Listed(z.kids) = Kids(B, p) /\ z.path = p /\ z.num = B[p].nseq
         /\ \A m \in Lost(w, z) : m \in Nodes /\ ~B[m].open /\ ~r.t[m].open
         /\ \A m \in Kids(B, p) : m \in Nodes /\ m # p /\ ParentOf(m) = p /\ B[m].open
         /\ Kids(r.t, p) = Kids(B, p)
<1>1. /\ w \in Copy /\ Version(B) /\ p \in Nodes /\ B[p].open /\ w.t[p].open
      /\ z = TreeEvt(B, p) /\ TreeMakes(w, r, z)
  BY DEF ReadsTree
<1>2. B \in Tree /\ Standing(B) /\ \A m \in Nodes : B[m].open => B[m].vis
  BY <1>1, VersionIs DEF Numbered
<1>3. /\ z \in Stanza /\ z.path = p /\ z.num = B[p].nseq
      /\ \A i \in DOMAIN z.kids : z.kids[i].path \in Below[p] /\ B[z.kids[i].path].open
      /\ \A c \in Below[p] : B[c].open /\ B[c].vis => \E i \in DOMAIN z.kids : z.kids[i].path = c
  BY <1>1, <1>2, TreeEvtIs
<1>4. DOMAIN z.kids = 1..Len(z.kids)
  BY <1>3 DEF Stanza
<1>5. \A c \in Below[p] : c \in Nodes \ {Root} /\ c # p /\ ParentOf(c) = p
  BY <1>1, ChildWay, Belows
<1>6. Listed(z.kids) = Kids(B, p)
  BY <1>2, <1>3, <1>4, <1>5 DEF Listed, Kids
<1>7. \A m \in Lost(w, z) : m \in Nodes /\ ~B[m].open /\ ~r.t[m].open
  <2>. SUFFICES ASSUME NEW m \in Lost(w, z)
                PROVE  m \in Nodes /\ ~B[m].open /\ ~r.t[m].open
    OBVIOUS
  <2>1. PICK c \in Below[p] : w.t[c].open /\ c \notin Kids(B, p) /\ c \in Way[m] /\ m \in Nodes
    BY <1>3, <1>6 DEF Lost, Subtrees
  <2>2. ~B[c].open
    BY <2>1 DEF Kids
  <2>3. ~B[m].open
    BY <1>2, <2>1, <2>2, OpenWay
  <2>4. r.t[m] = Absent
    BY <1>1 DEF TreeMakes
  <2>. QED  BY <2>1, <2>3, <2>4, Trees
<1>8. \A m \in Kids(B, p) : m \in Nodes /\ m # p /\ ParentOf(m) = p /\ B[m].open
  BY <1>5 DEF Kids
<1>9. ASSUME NEW c \in Below[p]
      PROVE  r.t[c].open <=> B[c].open
  <2>1. c \in Nodes /\ c \in Way[c]
    BY <1>5, WayFacts
  <2>2. CASE c \in Lost(w, z)
    BY <1>7, <2>2
  <2>3. CASE c \notin Lost(w, z)
    <3>1. r.t[c].open = (w.t[c].open \/ c \in Kids(B, p))
      BY <1>1, <1>6, <2>1, <2>3 DEF TreeMakes
    <3>2. w.t[c].open => c \in Kids(B, p)
      BY <1>3, <1>6, <2>1, <2>3 DEF Lost, Subtrees
    <3>. QED  BY <3>1, <3>2 DEF Kids
  <2>. QED  BY <2>2, <2>3
<1>10. Kids(r.t, p) = Kids(B, p)
  BY <1>9 DEF Kids
<1>. QED  BY <1>3, <1>6, <1>7, <1>8, <1>10

LEMMA TreeDiffers ==
  ASSUME NEW w, NEW r, NEW z, NEW B, NEW p, ReadsTree(w, r, z, B, p), NEW m \in Nodes
  PROVE  /\ Differs(r.t, B, m) =>
              /\ m # p
              /\ Differs(w.t, B, m) \/ (Missing(w.t, B, m) /\ Kids(B, m) # {} /\ m \in Kids(B, p))
         /\ Outdated(r.t, B, m) =>
              Outdated(w.t, B, m) \/ (Missing(w.t, B, m) /\ m \in Kids(B, p))
         /\ Missing(r.t, B, m) => Missing(w.t, B, m) /\ m # p
<1>1. /\ w \in Copy /\ Version(B) /\ p \in Nodes /\ B[p].open /\ w.t[p].open /\ TreeMakes(w, r, z)
  BY DEF ReadsTree
<1>2. Standing(w.t) /\ Standing(r.t) /\ Standing(B)
  BY <1>1, CopyIs, VersionIs DEF TreeMakes
<1>3. /\ Listed(z.kids) = Kids(B, p) /\ z.path = p
      /\ \A k \in Lost(w, z) : k \in Nodes /\ ~B[k].open /\ ~r.t[k].open
      /\ \A k \in Kids(B, p) : k \in Nodes /\ k # p /\ ParentOf(k) = p /\ B[k].open
      /\ Kids(r.t, p) = Kids(B, p)
  BY TreeRead
<1>4. \A k \in Nodes \ Lost(w, z) : /\ r.t[k].open = (w.t[k].open \/ k \in Kids(B, p))
                                    /\ r.t[k].dseq = w.t[k].dseq
  BY <1>1, <1>3 DEF TreeMakes
<1>5. B[m].open => m \notin Lost(w, z)
  BY <1>3
<1>6. m # p => \A c \in Below[m] : c \in Nodes /\ c \notin Kids(B, p)
  BY <1>3, Belows
<1>7. ASSUME B[m].open, w.t[m].open, m # p
      PROVE  Kids(r.t, m) = Kids(w.t, m)
  <2>1. ASSUME NEW c \in Below[m], w.t[c].open
        PROVE  c \notin Lost(w, z)
    <3>1. c \in Nodes \ {Root} /\ Way[c] = Way[m] \cup {c}
      BY ChildWay
    <3>2. c \notin Below[p]
      <4>1. ParentOf(c) = m
        BY Belows
      <4>2. \A e \in Below[p] : ParentOf(e) = p
        BY <1>1, Belows
      <4>. QED  BY <1>7, <4>1, <4>2
    <3>3. m \notin Lost(w, z)
      BY <1>5, <1>7
    <3>. QED  BY <1>3, <3>1, <3>2, <3>3 DEF Lost, Subtrees
  <2>2. \A c \in Below[m] : r.t[c].open <=> w.t[c].open
    BY <1>3, <1>4, <1>6, <1>7, <2>1
  <2>. QED  BY <2>2 DEF Kids
<1>8. ASSUME B[m].open, ~w.t[m].open, r.t[m].open
      PROVE  Missing(w.t, B, m) /\ m \in Kids(B, p) /\ m # p /\ Kids(r.t, m) = {}
  <2>1. m \in Kids(B, p) /\ m # p
    BY <1>3, <1>4, <1>5, <1>8
  <2>2. \A c \in Below[m] : ~w.t[c].open
    <3>1. \A c \in Below[m] : c \in Nodes \ {Root} /\ ParentOf(c) = m
      BY Belows
    <3>. QED  BY <1>2, <1>8, <3>1 DEF Standing
  <2>3. \A c \in Below[m] : ~r.t[c].open
    BY <1>3, <1>4, <1>6, <2>1, <2>2
  <2>. QED  BY <1>8, <2>1, <2>3 DEF Missing, Kids
<1>9. Differs(r.t, B, m) =>
        /\ m # p
        /\ Differs(w.t, B, m) \/ (Missing(w.t, B, m) /\ Kids(B, m) # {} /\ m \in Kids(B, p))
  BY <1>3, <1>7, <1>8 DEF Differs
<1>10. Outdated(r.t, B, m) => Outdated(w.t, B, m) \/ (Missing(w.t, B, m) /\ m \in Kids(B, p))
  BY <1>4, <1>5, <1>8 DEF Outdated
<1>11. Missing(r.t, B, m) => Missing(w.t, B, m) /\ m # p
  BY <1>1, <1>4, <1>5 DEF Missing
<1>. QED  BY <1>9, <1>10, <1>11

LEMMA KnowsTree ==
  ASSUME NEW w, NEW r, NEW z, NEW B, NEW p, ReadsTree(w, r, z, B, p),
         NEW c, NEW d, NEW g, Knows(w.t, B, c, g), Counts(c, d, g, z.num)
  PROVE  Knows(r.t, B, d, g)
<1>1. w \in Copy /\ Version(B) /\ p \in Nodes /\ TreeMakes(w, r, z)
  BY DEF ReadsTree
<1>2. z.num = B[p].nseq /\ z.num \in Nat /\ z.num <= Number(B) /\ Unique(B)
  BY <1>1, TreeRead, VersionIs
<1>3. w.t \in Tree /\ r.t \in Tree /\ NumsFrom(w.t, r.t, {0, z.num})
  BY <1>1, CopyIs DEF TreeMakes
<1>4. \A m \in Nodes : /\ z.num > 0 /\ m # p => B[m].nseq # z.num
                       /\ z.num > 0 => B[m].dseq # z.num
  BY <1>1, <1>2 DEF Unique
<1>5. \A m \in Nodes : Differs(r.t, B, m) =>
        /\ Differs(w.t, B, m) \/ (Missing(w.t, B, m) /\ Kids(B, m) # {})
        /\ z.num > 0 => B[m].nseq # z.num
  BY <1>4, TreeDiffers
<1>6. \A m \in Nodes : Outdated(r.t, B, m) =>
        (Outdated(w.t, B, m) \/ Missing(w.t, B, m)) /\ (z.num > 0 => B[m].dseq # z.num)
  BY <1>4, TreeDiffers
<1>7. \A m \in Nodes : Missing(r.t, B, m) =>
        Missing(w.t, B, m) /\ (z.num > 0 => B[m].dseq # z.num /\ B[m].nseq # z.num)
  BY <1>4, TreeDiffers
<1>. QED  BY <1>1, <1>2, <1>3, <1>5, <1>6, <1>7, KnowsRead

\* Below a child whose number the proxy has, and had when it was in sync,
\* nothing differs.
LEMMA Unsuspected ==
  ASSUME NEW w, NEW r, NEW z, NEW B, NEW p, ReadsTree(w, r, z, B, p),
         NEW c, Knows(w.t, B, c, w.h.g), NEW e \in Kids(B, p), e \notin Suspects(w, z.kids),
         NEW m \in Nodes, e \in Way[m]
  PROVE  w.t[e].open /\ ~Differs(w.t, B, m) /\ ~Outdated(w.t, B, m)
<1>1. w \in Copy /\ Version(B) /\ p \in Nodes /\ z = TreeEvt(B, p) /\ B \in Tree
  BY VersionIs DEF ReadsTree
<1>2. /\ Listed(z.kids) = Kids(B, p)
      /\ e \in Nodes
  BY TreeRead
<1>3. PICK i \in 1..Len(z.kids) : e = z.kids[i].path
  BY <1>2 DEF Listed
<1>4. i \in DOMAIN z.kids
  BY <1>1, <1>3, TreeEvtIs DEF Stanza
<1>5. z.kids[i].tseq = B[e].tseq
  BY <1>1, <1>3, <1>4, TreeEvtIs
<1>6. w.t[e].open /\ B[e].tseq = w.t[e].tseq /\ ~(w.t[e].tseq > w.h.g)
  BY <1>2, <1>3, <1>5 DEF Suspects, Suspect
<1>7. w.t[e].tseq \in Nums(w.t[e]) /\ w.t[e].tseq \in Nat /\ c \in Nat /\ w.h.g \in Nat
  BY <1>1, <1>2, CopyIs, NumsNat DEF Nums, Knows
<1>8. ~(w.t[e].tseq > c /\ w.t[e].tseq <= w.h.g)
  BY <1>2, <1>7 DEF Knows
<1>9. B[e].tseq <= c
  BY <1>6, <1>7, <1>8
<1>10. B[m].dseq <= c /\ B[m].nseq <= c /\ B[m].dseq \in Nat /\ B[m].nseq \in Nat
  <2>1. B[m].dseq <= B[e].tseq /\ B[m].nseq <= B[e].tseq
    BY <1>1, UnderNums
  <2>2. B[m].dseq \in Nat /\ B[m].nseq \in Nat /\ B[e].tseq \in Nat
    BY <1>1, <1>2, VersionIs
  <2>. QED  BY <1>7, <1>9, <2>1, <2>2
<1>11. ~(B[m].dseq > c) /\ ~(B[m].nseq > c)
  BY <1>7, <1>10
<1>. QED  BY <1>6, <1>11 DEF Knows

LEMMA MarkedTree ==
  ASSUME NEW w, NEW r, NEW z, NEW B, NEW p, ReadsTree(w, r, z, B, p),
         NEW c, Knows(w.t, B, c, w.h.g), Marked(w.t, w.treqs \cup {p}, w.dreqs, B)
  PROVE  Marked(r.t, r.treqs, r.dreqs, B)
<1>1. w \in Copy /\ Version(B) /\ p \in Nodes /\ TreeMakes(w, r, z) /\ Standing(B)
  BY VersionIs DEF ReadsTree
<1>2. /\ Listed(z.kids) = Kids(B, p) /\ z.path = p
      /\ \A k \in Lost(w, z) : k \in Nodes /\ ~B[k].open /\ ~r.t[k].open
      /\ \A k \in Kids(B, p) : k \in Nodes /\ k # p /\ B[k].open
  BY TreeRead
<1>3. /\ r.treqs = ((w.treqs \cup Suspects(w, z.kids)) \ Lost(w, z)) \ {p}
      /\ r.dreqs = (w.dreqs \cup Suspects(w, z.kids)) \ Lost(w, z)
  BY <1>1, <1>2 DEF TreeMakes
<1>4. \A k \in Kids(B, p) : k \in Suspects(w, z.kids) => k \in r.treqs /\ k \in r.dreqs
  BY <1>2, <1>3
<1>5. \A k \in Kids(B, p) : ~w.t[k].open => k \in Suspects(w, z.kids)
  BY <1>2 DEF Listed, Suspects, Suspect
<1>6. \A m \in Nodes : B[m].open => \A a \in Way[m] : a \in Nodes /\ B[a].open /\ a \notin Lost(w, z)
  BY <1>1, <1>2, OpenWay, WayFacts
<1>7. \A m \in Nodes : B[m].open /\ p \in Way[m] /\ m # p => \E e \in Kids(B, p) : e \in Way[m]
  <2>. SUFFICES ASSUME NEW m \in Nodes, B[m].open, p \in Way[m], m # p
                PROVE  \E e \in Kids(B, p) : e \in Way[m]
    OBVIOUS
  <2>1. PICK e \in Below[p] : e \in Way[m]
    BY WayChild
  <2>. QED  BY <1>6, <2>1 DEF Kids
<1>8. ASSUME NEW m \in Nodes, Differs(r.t, B, m)
      PROVE  \E a \in Way[m] : a \in r.treqs
  <2>1. /\ m # p /\ B[m].open
        /\ Differs(w.t, B, m) \/ (Missing(w.t, B, m) /\ m \in Kids(B, p))
    BY <1>8, TreeDiffers DEF Differs
  <2>2. CASE Missing(w.t, B, m) /\ m \in Kids(B, p)
    BY <1>4, <1>5, <2>2, WayFacts DEF Missing
  <2>3. CASE Differs(w.t, B, m)
    <3>1. PICK a \in Way[m] : a \in w.treqs \cup {p}
      BY <2>3 DEF Marked
    <3>2. CASE a # p
      BY <1>3, <1>6, <2>1, <3>1, <3>2
    <3>3. CASE a = p
      <4>1. PICK e \in Kids(B, p) : e \in Way[m]
        BY <1>7, <2>1, <3>1, <3>3
      <4>2. e \in Suspects(w, z.kids)
        BY <2>3, <4>1, Unsuspected
      <4>. QED  BY <1>4, <4>1, <4>2
    <3>. QED  BY <3>2, <3>3
  <2>. QED  BY <2>1, <2>2, <2>3
<1>9. ASSUME NEW m \in Nodes, Outdated(r.t, B, m)
      PROVE  m \in r.dreqs \/ \E a \in Way[m] \ {m} : a \in r.treqs
  <2>1. /\ B[m].open
        /\ Outdated(w.t, B, m) \/ (Missing(w.t, B, m) /\ m \in Kids(B, p))
    BY <1>9, TreeDiffers DEF Outdated
  <2>2. CASE Missing(w.t, B, m) /\ m \in Kids(B, p)
    BY <1>4, <1>5, <2>2 DEF Missing
  <2>3. CASE Outdated(w.t, B, m)
    <3>1. m \in w.dreqs \/ \E a \in Way[m] \ {m} : a \in w.treqs \cup {p}
      BY <2>3 DEF Marked
    <3>2. CASE m \in w.dreqs
      BY <1>3, <1>6, <2>1, <3>2, WayFacts
    <3>3. ASSUME NEW a \in Way[m] \ {m}, a \in w.treqs, a # p
          PROVE  a \in r.treqs
      BY <1>3, <1>6, <2>1, <3>3
    <3>4. CASE p \in Way[m] \ {m}
      <4>1. PICK e \in Kids(B, p) : e \in Way[m]
        BY <1>7, <2>1, <3>4
      <4>2. e \in Suspects(w, z.kids)
        BY <2>3, <4>1, Unsuspected
      <4>. QED  BY <1>4, <4>1, <4>2
    <3>. QED  BY <3>1, <3>2, <3>3, <3>4
  <2>. QED  BY <2>1, <2>2, <2>3
<1>. QED  BY <1>8, <1>9 DEF Marked

LEMMA ShownTree ==
  ASSUME NEW w, NEW r, NEW z, NEW B, NEW p, ReadsTree(w, r, z, B, p), Shown(w.t, w.dreqs)
  PROVE  Shown(r.t, r.dreqs)
<1>1. w \in Copy /\ p \in Nodes /\ TreeMakes(w, r, z)
  BY DEF ReadsTree
<1>2. /\ Listed(z.kids) = Kids(B, p) /\ z.path = p
      /\ \A k \in Lost(w, z) : ~r.t[k].open
  BY TreeRead
<1>. SUFFICES ASSUME NEW m \in Nodes, r.t[m].open, ~r.t[m].vis
              PROVE  m \in r.dreqs
  BY DEF Shown
<1>3. m \notin Lost(w, z)
  BY <1>2
<1>4. ~w.t[m].vis /\ (w.t[m].open \/ m \in Listed(z.kids))
  BY <1>1, <1>3 DEF TreeMakes
<1>5. r.dreqs = (w.dreqs \cup Suspects(w, z.kids)) \ Lost(w, z)
  BY <1>1 DEF TreeMakes
<1>6. ~w.t[m].open /\ m \in Listed(z.kids) => m \in Suspects(w, z.kids)
  BY DEF Listed, Suspects, Suspect
<1>. QED  BY <1>3, <1>4, <1>5, <1>6 DEF Shown

LEMMA Opens ==
  ASSUME NEW t \in Tree, NEW m \in Nodes
  PROVE  t[m].open \in BOOLEAN
  BY Trees, Fields

\* A list of a node that the proxy does not have is of no use to it.
LEMMA MarkedUnread ==
  ASSUME NEW P, Standing(P), NEW p \in Nodes, ~P[p].open, NEW S, NEW tq, NEW dq, Marked(P, tq \cup {p}, dq, S)
  PROVE  Marked(P, tq, dq, S)
<1>1. \A m \in Nodes : P[m].open => p \notin Way[m]
  BY OpenWay
<1>. QED  BY <1>1 DEF Marked, Differs, Outdated

-----------------------------------------------------------------------------
(* A value is read.                                                         *)

LEMMA KnownDiffers ==
  ASSUME NEW w, NEW r, NEW p \in Nodes, NEW B, w.t[p].open, KnownMakes(w, r, p, B[p].dseq), NEW m \in Nodes
  PROVE  /\ Differs(r.t, B, m) => Differs(w.t, B, m)
         /\ Outdated(r.t, B, m) => Outdated(w.t, B, m) /\ m # p
         /\ Missing(r.t, B, m) => Missing(w.t, B, m) /\ m # p
<1>1. \A k \in Nodes : r.t[k].open = w.t[k].open /\ r.t[k].dseq = IF k = p THEN B[p].dseq ELSE w.t[k].dseq
  BY DEF KnownMakes
<1>2. Kids(r.t, m) = Kids(w.t, m)
  BY <1>1, Belows DEF Kids
<1>. QED  BY <1>1, <1>2 DEF Differs, Outdated, Missing

LEMMA UnknownDiffers ==
  ASSUME NEW w \in Copy, NEW r, NEW p \in Nodes \ {Root}, NEW B, B[p].open,
         ~w.t[p].open, w.t[ParentOf(p)].open, UnknownMakes(w, r, p, B[p].dseq), NEW m \in Nodes
  PROVE  /\ Differs(r.t, B, m) =>
              \/ Differs(w.t, B, m) /\ ~(m = ParentOf(p) /\ Kids(w.t, m) \cup {p} = Kids(B, m))
              \/ m = p /\ Missing(w.t, B, m) /\ Kids(B, m) # {}
         /\ Outdated(r.t, B, m) => Outdated(w.t, B, m) /\ m # p
         /\ Missing(r.t, B, m) => Missing(w.t, B, m) /\ m # p
<1>1. \A k \in Nodes : /\ r.t[k].open = (k = p \/ w.t[k].open)
                       /\ r.t[k].dseq = IF k = p THEN B[p].dseq ELSE w.t[k].dseq
  BY DEF UnknownMakes
<1>2. m # ParentOf(p) => Kids(r.t, m) = Kids(w.t, m)
  <2>1. \A k \in Nodes \ {p} : w.t[k].open \in BOOLEAN
    BY Opens, CopyIs
  <2>2. \A k \in Nodes \ {p} : r.t[k].open = w.t[k].open
    BY <1>1, <2>1
  <2>. QED  BY <2>2, KidsSame, ZenonT(40)
<1>3. m = ParentOf(p) => Kids(r.t, m) = Kids(w.t, m) \cup {p} /\ p \in Kids(B, m) /\ p \notin Kids(w.t, m)
  <2>. SUFFICES ASSUME m = ParentOf(p)
                PROVE  Kids(r.t, m) = Kids(w.t, m) \cup {p} /\ p \in Kids(B, m) /\ p \notin Kids(w.t, m)
    OBVIOUS
  <2>1. p \in Below[m] /\ Below[m] \subseteq Nodes
    BY Belows
  <2>. QED  BY <1>1, <2>1 DEF Kids
<1>4. m = p => Kids(w.t, m) = {}
  <2>1. \A c \in Below[p] : c \in Nodes \ {Root} /\ ParentOf(c) = p
    BY Belows
  <2>2. \A c \in Below[p] : ~w.t[c].open
    BY <2>1, CopyIs DEF Standing
  <2>. QED  BY <2>2 DEF Kids
<1>5. ParentOf(p) # p
  BY WayFacts
<1>6. CASE m = p
  BY <1>1, <1>2, <1>4, <1>5, <1>6 DEF Differs, Outdated, Missing
<1>7. CASE m # p
  <2>1. r.t[m].open = w.t[m].open /\ r.t[m].dseq = w.t[m].dseq
    <3>1. w.t[m].open \in BOOLEAN
      BY Opens, CopyIs
    <3>2. r.t[m].open = w.t[m].open
      BY <1>1, <1>7, <3>1
    <3>. QED  BY <1>1, <1>7, <3>2
  <2>2. CASE m = ParentOf(p)
    BY <1>3, <1>7, <2>1, <2>2 DEF Differs, Outdated, Missing
  <2>3. CASE m # ParentOf(p)
    BY <1>2, <1>7, <2>1, <2>3 DEF Differs, Outdated, Missing
  <2>. QED  BY <2>2, <2>3
<1>. QED  BY <1>6, <1>7

\* The value p of B has been put into the copy.
ReadsData(w, r, B, p) ==
  /\ w \in Copy /\ Version(B) /\ p \in Nodes /\ B[p].open
  /\ \/ w.t[p].open /\ KnownMakes(w, r, p, B[p].dseq)
     \/ p # Root /\ ~w.t[p].open /\ w.t[ParentOf(p)].open /\ UnknownMakes(w, r, p, B[p].dseq)

LEMMA DataDiffers ==
  ASSUME NEW w, NEW r, NEW B, NEW p, ReadsData(w, r, B, p), NEW m \in Nodes
  PROVE  /\ Differs(r.t, B, m) => Differs(w.t, B, m) \/ (Missing(w.t, B, m) /\ Kids(B, m) # {})
         /\ Outdated(r.t, B, m) => Outdated(w.t, B, m) /\ m # p
         /\ Missing(r.t, B, m) => Missing(w.t, B, m) /\ m # p
  BY KnownDiffers, UnknownDiffers DEF ReadsData

LEMMA KnowsData ==
  ASSUME NEW w, NEW r, NEW B, NEW p, ReadsData(w, r, B, p),
         NEW c, NEW d, NEW g, Knows(w.t, B, c, g), Counts(c, d, g, B[p].dseq)
  PROVE  Knows(r.t, B, d, g)
<1>1. w \in Copy /\ Version(B) /\ p \in Nodes /\ r \in Copy
  BY DEF ReadsData, KnownMakes, UnknownMakes
<1>2. PICK k \in Nat : k = B[p].dseq
  BY <1>1, VersionIs
<1>3. k <= Number(B) /\ Unique(B)
  BY <1>1, <1>2, VersionIs
<1>4. w.t \in Tree /\ r.t \in Tree
  BY <1>1, CopyIs
<1>5. NumsFrom(w.t, r.t, {0, k})
  <2>1. NumsFrom(w.t, r.t, {k}) \/ NumsFrom(w.t, r.t, {0, k})
    BY <1>2 DEF ReadsData, KnownMakes, UnknownMakes
  <2>. QED  BY <2>1 DEF NumsFrom
<1>6. \A m \in Nodes : /\ k > 0 => B[m].nseq # k
                       /\ k > 0 /\ m # p => B[m].dseq # k
  BY <1>1, <1>2, <1>3 DEF Unique
<1>7. \A m \in Nodes : Differs(r.t, B, m) =>
        /\ Differs(w.t, B, m) \/ (Missing(w.t, B, m) /\ Kids(B, m) # {})
        /\ k > 0 => B[m].nseq # k
  BY <1>6, DataDiffers
<1>8. \A m \in Nodes : Outdated(r.t, B, m) =>
        (Outdated(w.t, B, m) \/ Missing(w.t, B, m)) /\ (k > 0 => B[m].dseq # k)
  BY <1>6, DataDiffers
<1>9. \A m \in Nodes : Missing(r.t, B, m) =>
        Missing(w.t, B, m) /\ (k > 0 => B[m].dseq # k /\ B[m].nseq # k)
  BY <1>6, DataDiffers
<1>10. Counts(c, d, g, k)
  BY <1>2
<1>. QED  BY <1>1, <1>3, <1>4, <1>5, <1>7, <1>8, <1>9, <1>10, KnowsRead

LEMMA MarkedData ==
  ASSUME NEW w, NEW r, NEW B, NEW p, ReadsData(w, r, B, p), MarkedBut(w.t, w.treqs, w.dreqs, B, p)
  PROVE  Marked(r.t, r.treqs, r.dreqs, B)
<1>1. w \in Copy /\ p \in Nodes /\ B[p].open
  BY DEF ReadsData
<1>2. CASE w.t[p].open /\ KnownMakes(w, r, p, B[p].dseq)
  <2>1. r.treqs = w.treqs /\ r.dreqs = w.dreqs \ {p}
    BY <1>2 DEF KnownMakes
  <2>2. \A m \in Nodes : Differs(r.t, B, m) => \E a \in Way[m] : a \in r.treqs
    BY <1>1, <1>2, <2>1, KnownDiffers DEF MarkedBut
  <2>3. \A m \in Nodes : Outdated(r.t, B, m) => m \in r.dreqs \/ \E a \in Way[m] \ {m} : a \in r.treqs
    BY <1>1, <1>2, <2>1, KnownDiffers DEF MarkedBut
  <2>. QED  BY <2>2, <2>3 DEF Marked
<1>3. CASE p # Root /\ ~w.t[p].open /\ w.t[ParentOf(p)].open /\ UnknownMakes(w, r, p, B[p].dseq)
  <2>1. r.treqs = w.treqs \cup {p} /\ r.dreqs = w.dreqs
    BY <1>3 DEF UnknownMakes
  <2>2. ASSUME NEW m \in Nodes, Differs(r.t, B, m)
        PROVE  \E a \in Way[m] : a \in r.treqs
    <3>1. CASE m = p
      BY <2>1, <3>1, WayFacts
    <3>2. CASE m # p
      <4>1. Differs(w.t, B, m) /\ ~(m = ParentOf(p) /\ Kids(w.t, m) \cup {p} = Kids(B, m))
        BY <1>1, <1>3, <2>2, <3>2, UnknownDiffers
      <4>2. \E a \in Way[m] : a \in w.treqs
        BY <4>1 DEF MarkedBut
      <4>. QED  BY <2>1, <4>2
    <3>. QED  BY <3>1, <3>2
  <2>3. ASSUME NEW m \in Nodes, Outdated(r.t, B, m)
        PROVE  m \in r.dreqs \/ \E a \in Way[m] \ {m} : a \in r.treqs
    <3>1. Outdated(w.t, B, m) /\ m # p
      BY <1>1, <1>3, <2>3, UnknownDiffers
    <3>. QED  BY <2>1, <3>1 DEF MarkedBut
  <2>. QED  BY <2>2, <2>3 DEF Marked
<1>. QED  BY <1>2, <1>3 DEF ReadsData

LEMMA ShownData ==
  ASSUME NEW w, NEW r, NEW B, NEW p, ReadsData(w, r, B, p), Shown(w.t, w.dreqs)
  PROVE  Shown(r.t, r.dreqs)
<1>1. CASE KnownMakes(w, r, p, B[p].dseq)
  <2>1. /\ \A m \in Nodes : r.t[m].open = w.t[m].open /\ r.t[m].vis = (m = p \/ w.t[m].vis)
        /\ r.dreqs = w.dreqs \ {p}
    BY <1>1 DEF KnownMakes
  <2>. QED  BY <2>1 DEF Shown
<1>2. CASE UnknownMakes(w, r, p, B[p].dseq)
  <2>1. /\ \A m \in Nodes : r.t[m].open = (m = p \/ w.t[m].open) /\ r.t[m].vis = (m = p \/ w.t[m].vis)
        /\ r.dreqs = w.dreqs
    BY <1>2 DEF UnknownMakes
  <2>. QED  BY <2>1 DEF Shown
<1>. QED  BY <1>1, <1>2 DEF ReadsData

\* A value that cannot be placed.
LEMMA MarkedUnplaced ==
  ASSUME NEW P, NEW p \in Nodes, ~P[p].open, p # Root, ~P[ParentOf(p)].open, NEW S, NEW tq, NEW dq,
         MarkedBut(P, tq, dq, S, p)
  PROVE  Marked(P, tq, dq, S)
  BY DEF MarkedBut, Marked, Differs, Outdated

-----------------------------------------------------------------------------
(* A copy that is the server's tree stays it while it reads every stanza.   *)

LEMMA AgreeTree ==
  ASSUME NEW w, NEW r, NEW z, NEW B, NEW p, ReadsTree(w, r, z, B, p),
         NEW A, Version(A), Step(A, B, z), Agree(w.t, A)
  PROVE  Agree(r.t, B)
<1>1. w \in Copy /\ Version(B) /\ p \in Nodes /\ TreeMakes(w, r, z) /\ z = TreeEvt(B, p)
  BY DEF ReadsTree
<1>2. Standing(B) /\ Standing(r.t)
  BY <1>1, CopyIs, VersionIs DEF TreeMakes
<1>3. /\ Listed(z.kids) = Kids(B, p) /\ z.path = p
      /\ \A k \in Lost(w, z) : k \in Nodes /\ ~B[k].open /\ ~r.t[k].open
      /\ \A k \in Kids(B, p) : B[k].open
  BY TreeRead
<1>4. \A k \in Nodes \ Lost(w, z) : /\ r.t[k].open = (w.t[k].open \/ k \in Kids(B, p))
                                    /\ r.t[k].dseq = w.t[k].dseq
  BY <1>1, <1>3 DEF TreeMakes
<1>5. \A m \in Lost(w, z) : r.t[m].open = B[m].open /\ r.t[m].dseq = B[m].dseq
  <2>1. \A m \in Lost(w, z) : r.t[m] = Absent /\ B[m] = Absent
    BY <1>2, <1>3 DEF Standing
  <2>. QED  BY <2>1
<1>6. \A m \in Nodes \ Lost(w, z) : /\ w.t[m].open = B[m].open
                                    /\ m # Root => w.t[m].dseq = B[m].dseq
  <2>1. A = B \/ CloseStep(A, B, z, Number(A) + 1)
    BY <1>1, Kinds DEF Step
  <2>2. CASE A = B
    BY <2>2 DEF Agree
  <2>3. CASE CloseStep(A, B, z, Number(A) + 1)
    <3>1. PICK c \in Nodes \ {Root} : /\ A[c].open /\ Shrunk(A, B, c, Number(A) + 1)
                                      /\ z = TreeEvt(B, ParentOf(c))
      BY <2>3 DEF CloseStep
    <3>2. p = ParentOf(c) /\ ~B[c].open
      <4>1. B[c] = Absent
        BY <3>1 DEF Shrunk
      <4>. QED  BY <1>3, <3>1, <4>1, Kinds, Trees
    <3>3. \A m \in Nodes \ {c} : B[m].open = A[m].open /\ B[m].dseq = A[m].dseq
      BY <3>1 DEF Shrunk
    <3>4. c \in Lost(w, z)
      <4>1. c \in Below[p] /\ w.t[c].open /\ c \notin Kids(B, p) /\ c \in Way[c]
        BY <3>1, <3>2, Belows, WayFacts DEF Agree, Kids
      <4>. QED  BY <1>3, <4>1 DEF Lost, Subtrees
    <3>. QED  BY <3>3, <3>4 DEF Agree
  <2>. QED  BY <2>1, <2>2, <2>3
<1>7. ASSUME NEW m \in Nodes
      PROVE  r.t[m].open = B[m].open /\ (m # Root => r.t[m].dseq = B[m].dseq)
  <2>1. CASE m \in Lost(w, z)
    BY <1>5, <2>1
  <2>2. CASE m \notin Lost(w, z)
    <3>1. w.t[m].open \in BOOLEAN
      BY <1>1, Opens, CopyIs
    <3>2. r.t[m].dseq = w.t[m].dseq /\ w.t[m].open = B[m].open /\ (m # Root => w.t[m].dseq = B[m].dseq)
      BY <1>4, <1>6, <2>2
    <3>3. m \in Kids(B, p) => w.t[m].open
      BY <1>3, <3>2
    <3>4. r.t[m].open = (w.t[m].open \/ m \in Kids(B, p))
      BY <1>4, <2>2
    <3>5. r.t[m].open = w.t[m].open
      BY <3>1, <3>3, <3>4
    <3>. QED  BY <3>2, <3>5
  <2>. QED  BY <2>1, <2>2
<1>. QED  BY <1>7 DEF Agree

LEMMA AgreeData ==
  ASSUME NEW w, NEW r, NEW B, NEW p, ReadsData(w, r, B, p),
         NEW A, Version(A), Step(A, B, DataEvt(B, p)), Agree(w.t, A)
  PROVE  Agree(r.t, B)
<1>1. /\ w \in Copy /\ Version(B) /\ p \in Nodes /\ B[p].open
      /\ \A m \in Nodes : w.t[m].open = A[m].open /\ (m # Root => w.t[m].dseq = A[m].dseq)
  BY DEF ReadsData, Agree
<1>2. \/ A = B
      \/ A[p].open /\ Valued(A, B, p, Number(A) + 1)
      \/ p # Root /\ ~A[p].open /\ Grown(A, B, p, Number(A) + 1, Number(A) + 3)
  <2>1. \A n : DataEvt(B, p) = DataEvt(B, n) => n = p
    BY Kinds
  <2>2. \A n : DataEvt(B, p) # TreeEvt(B, n)
    BY Kinds
  <2>. QED  BY <2>1, <2>2 DEF Step, CloseStep
<1>3. CASE A = B \/ (A[p].open /\ Valued(A, B, p, Number(A) + 1))
  <2>1. \A m \in Nodes : B[m].open = A[m].open /\ (m # p => B[m].dseq = A[m].dseq)
    BY <1>3 DEF Valued
  <2>2. w.t[p].open /\ KnownMakes(w, r, p, B[p].dseq)
    BY <1>1, <2>1 DEF ReadsData
  <2>3. \A m \in Nodes : r.t[m].open = w.t[m].open /\ r.t[m].dseq = IF m = p THEN B[p].dseq ELSE w.t[m].dseq
    BY <2>2 DEF KnownMakes
  <2>. QED  BY <1>1, <2>1, <2>3 DEF Agree
<1>4. CASE p # Root /\ ~A[p].open /\ Grown(A, B, p, Number(A) + 1, Number(A) + 3)
  <2>1. \A m \in Nodes \ {p} : B[m].open = A[m].open /\ B[m].dseq = A[m].dseq
    BY <1>4 DEF Grown
  <2>2. UnknownMakes(w, r, p, B[p].dseq)
    BY <1>1, <1>4 DEF ReadsData
  <2>3. \A m \in Nodes : /\ r.t[m].open = (m = p \/ w.t[m].open)
                         /\ r.t[m].dseq = IF m = p THEN B[p].dseq ELSE w.t[m].dseq
    BY <2>2 DEF UnknownMakes
  <2>4. ASSUME NEW m \in Nodes
        PROVE  r.t[m].open = B[m].open /\ (m # Root => r.t[m].dseq = B[m].dseq)
    <3>1. w.t[m].open \in BOOLEAN /\ B[p].open \in BOOLEAN
      BY <1>1, Opens, CopyIs, VersionIs
    <3>2. CASE m = p
      <4>1. r.t[m].dseq = B[m].dseq /\ r.t[m].open
        BY <2>3, <3>2
      <4>2. r.t[m].open = (m = p \/ w.t[m].open)
        BY <2>3
      <4>3. r.t[m].open = B[m].open
        BY <1>1, <3>1, <3>2, <4>2
      <4>. QED  BY <4>1, <4>3
    <3>3. CASE m # p
      <4>1. r.t[m].open = w.t[m].open
        BY <2>3, <3>1, <3>3
      <4>2. r.t[m].dseq = w.t[m].dseq
        BY <2>3, <3>3
      <4>. QED  BY <1>1, <2>1, <3>3, <4>1, <4>2
    <3>. QED  BY <3>2, <3>3
  <2>. QED  BY <2>4 DEF Agree
<1>. QED  BY <1>2, <1>3, <1>4

-----------------------------------------------------------------------------
(* A stanza, and a packet.                                                  *)

\* The copy w, when the server's tree is S and the proxy has read all stanzas
\* that tell of it, but for a gap.
Abreast(w, S, c, gap, ag) ==
  /\ w \in Copy /\ Version(S) /\ Knows(w.t, S, c, w.h.g) /\ Shown(w.t, w.dreqs)
  /\ ~gap => Marked(w.t, w.treqs, w.dreqs, S)
  /\ ag => Agree(w.t, S)

LEMMA ReceiveAbreast ==
  ASSUME NEW w, NEW A, NEW c, NEW gap, NEW ag, Abreast(w, A, c, gap, ag),
         NEW B, NEW z, Step(A, B, z), Skips(c, w.h.g, B)
  PROVE  \E d : /\ Abreast(Receive(w, z), B, d, gap, ag)
                /\ \A X \in Tree : Skips(c, w.h.g, X) => Skips(d, w.h.g, X)
<1>1. /\ w \in Copy /\ Version(A) /\ Knows(w.t, A, c, w.h.g) /\ Shown(w.t, w.dreqs)
      /\ ~gap => Marked(w.t, w.treqs, w.dreqs, A)
      /\ ag => Agree(w.t, A)
  BY DEF Abreast
<1>2. Later(A, B) /\ Version(B) /\ Tells(B, z) /\ z \in Stanza
  BY <1>1, StepIs
<1>3. Standing(w.t) /\ c \in Nat /\ w.h.g \in Nat /\ B \in Tree
  BY <1>1, <1>2, CopyIs, VersionIs DEF Knows
<1>4. Knows(w.t, B, c, w.h.g)
  BY <1>1, <1>2, <1>3, KnowsLater
<1>5. PICK p \in Nodes : B[p].open /\ z \in {TreeEvt(B, p), DataEvt(B, p)}
  BY <1>2 DEF Tells
<1>6. Receive(w, z) \in Copy /\ Receive(w, z).h = w.h
  BY <1>1, <1>2, ReceiveIs
<1>. DEFINE r == Receive(w, z)
<1>7. CASE z = TreeEvt(B, p)
  <2>1. z.kind = "TREE" /\ z.path = p /\ z.num = B[p].nseq
    BY <1>7, Kinds
  <2>2. r = ReceiveTree(w, z)
    BY <2>1 DEF Receive
  <2>3. ~gap => Marked(w.t, w.treqs \cup {p}, w.dreqs, B)
    BY <1>1, <2>1, StepMarksTree
  <2>. HIDE DEF r
  <2>4. CASE w.t[p].open
    <3>1. ReadsTree(w, r, z, B, p)
      BY <1>1, <1>2, <1>5, <1>7, <2>1, <2>2, <2>4, TreeIs DEF ReadsTree
    <3>2. PICK d : Counts(c, d, w.h.g, z.num) /\ \A X \in Tree : Skips(c, w.h.g, X) => Skips(d, w.h.g, X)
      <4>1. z.num \in Nums(B[p])
        BY <2>1 DEF Nums
      <4>. QED  BY <1>3, <4>1, CountsIs
    <3>3. Knows(r.t, B, d, w.h.g)
      BY <1>4, <3>1, <3>2, KnowsTree
    <3>4. ~gap => Marked(r.t, r.treqs, r.dreqs, B)
      BY <1>4, <2>3, <3>1, MarkedTree
    <3>5. Shown(r.t, r.dreqs)
      BY <1>1, <3>1, ShownTree
    <3>6. ag => Agree(r.t, B)
      BY <1>1, <3>1, AgreeTree
    <3>7. Abreast(r, B, d, gap, ag)
      BY <1>2, <1>6, <3>3, <3>4, <3>5, <3>6 DEF Abreast, r
    <3>. QED  BY <3>2, <3>7 DEF r
  <2>5. CASE ~w.t[p].open
    <3>1. r = w
      BY <2>1, <2>2, <2>5 DEF ReceiveTree
    <3>2. ~gap => Marked(w.t, w.treqs, w.dreqs, B)
      BY <1>3, <2>3, <2>5, MarkedUnread
    <3>3. ag => Agree(w.t, B)
      <4>. SUFFICES ASSUME ag
                    PROVE  Agree(w.t, B)
        OBVIOUS
      <4>1. A = B \/ CloseStep(A, B, z, Number(A) + 1)
        BY <1>7, Kinds DEF Step
      <4>2. ~CloseStep(A, B, z, Number(A) + 1)
        <5>. SUFFICES ASSUME NEW e \in Nodes \ {Root}, A[e].open, z = TreeEvt(B, ParentOf(e))
                      PROVE  FALSE
          BY DEF CloseStep
        <5>1. p = ParentOf(e)
          BY <2>1, Kinds
        <5>2. A[p].open
          BY <1>1, <5>1, VersionIs DEF Standing
        <5>. QED  BY <1>1, <2>5, <5>2 DEF Agree
      <4>. QED  BY <1>1, <4>1, <4>2
    <3>4. Abreast(r, B, c, gap, ag)
      BY <1>1, <1>2, <1>4, <3>1, <3>2, <3>3 DEF Abreast
    <3>. QED  BY <3>4 DEF r
  <2>. QED  BY <2>4, <2>5
<1>8. CASE z = DataEvt(B, p)
  <2>1. z.kind = "DATA" /\ z.path = p /\ z.num = B[p].dseq
    BY <1>8, Kinds
  <2>2. r = ReceiveData(w, z)
    BY <2>1 DEF Receive
  <2>3. ~gap => MarkedBut(w.t, w.treqs, w.dreqs, B, p)
    BY <1>1, <1>3, <2>1, StepMarksData
  <2>4. DataMakes(w, r, p, B[p].dseq)
    BY <1>1, <1>2, <2>1, <2>2, DataIs
  <2>. HIDE DEF r
  <2>5. CASE ReadsData(w, r, B, p)
    <3>2. PICK d : Counts(c, d, w.h.g, B[p].dseq) /\ \A X \in Tree : Skips(c, w.h.g, X) => Skips(d, w.h.g, X)
      <4>1. B[p].dseq \in Nums(B[p])
        BY DEF Nums
      <4>. QED  BY <1>3, <4>1, CountsIs
    <3>3. Knows(r.t, B, d, w.h.g)
      BY <1>4, <2>5, <3>2, KnowsData
    <3>4. ~gap => Marked(r.t, r.treqs, r.dreqs, B)
      BY <2>3, <2>5, MarkedData
    <3>5. Shown(r.t, r.dreqs)
      BY <1>1, <2>5, ShownData
    <3>6. ag => Agree(r.t, B)
      BY <1>1, <1>8, <2>5, AgreeData
    <3>7. Abreast(r, B, d, gap, ag)
      BY <1>2, <1>6, <3>3, <3>4, <3>5, <3>6 DEF Abreast, r
    <3>. QED  BY <3>2, <3>7 DEF r
  <2>6. CASE /\ p # Root /\ ~w.t[p].open /\ ~w.t[ParentOf(p)].open
             /\ \E g \in Nodes : w.t[g].open /\ Asks(w, r, {g}, {})
    <3>1. r.t = w.t /\ w.treqs \subseteq r.treqs /\ w.dreqs \subseteq r.dreqs
      BY <2>6 DEF Asks
    <3>2. ~gap => Marked(w.t, w.treqs, w.dreqs, B)
      BY <2>3, <2>6, MarkedUnplaced
    <3>3. ~gap => Marked(r.t, r.treqs, r.dreqs, B)
      BY <3>1, <3>2, MarkedMore
    <3>4. ag => Agree(r.t, B)
      <4>. SUFFICES ASSUME ag
                    PROVE  FALSE
        OBVIOUS
      <4>1. ~A[p].open /\ ~A[ParentOf(p)].open
        BY <1>1, <2>6, WayFacts DEF Agree
      <4>2. A # B
        BY <1>5, <4>1
      <4>3. \A n : z = DataEvt(B, n) => n = p
        BY <2>1, Kinds
      <4>. QED  BY <2>1, <4>1, <4>2, <4>3, Kinds DEF Step, CloseStep
    <3>5. Shown(r.t, r.dreqs)
      BY <1>1, <3>1 DEF Shown
    <3>6. Abreast(r, B, c, gap, ag)
      BY <1>2, <1>4, <1>6, <3>1, <3>3, <3>4, <3>5 DEF Abreast, r
    <3>. QED  BY <3>6 DEF r
  <2>. QED  BY <1>1, <1>2, <1>5, <2>4, <2>5, <2>6 DEF DataMakes, ReadsData
<1>. QED  BY <1>5, <1>7, <1>8

LEMMA ReceivedAbreast ==
  ASSUME NEW w, NEW V, NEW body \in Seq(Stanza), Runs(V, body),
         NEW c, NEW gap, NEW ag, Abreast(w, V[0], c, gap, ag),
         \A k \in 0..Len(body) : Skips(c, w.h.g, V[k])
  PROVE  \E d : /\ Abreast(Received(w, body), V[Len(body)], d, gap, ag)
                /\ \A X \in Tree : Skips(c, w.h.g, X) => Skips(d, w.h.g, X)
<1>1. w \in Copy /\ Len(body) \in Nat
  BY DEF Abreast
<1>2. PICK F : /\ ReceivedSteps(F, w, body)
               /\ \A i \in 0..Len(body) : F[i] \in Copy /\ F[i].h = w.h
               /\ Received(w, body) = F[Len(body)]
  BY <1>1, ReceivedIs
<1>. DEFINE Keeps(d) == \A X \in Tree : Skips(c, w.h.g, X) => Skips(d, w.h.g, X)
            H == {k \in 0..Len(body) : \E d : Abreast(F[k], V[k], d, gap, ag) /\ Keeps(d)}
<1>3. 0 \in H
  <2>1. F[0] = w /\ 0 \in 0..Len(body)
    BY <1>1, <1>2 DEF ReceivedSteps
  <2>2. Keeps(c)
    OBVIOUS
  <2>. QED  BY <2>1, <2>2
<1>4. ASSUME NEW k \in 1..Len(body), k - 1 \in H
      PROVE  k \in H
  <2>1. k - 1 \in 0..Len(body) /\ k \in 0..Len(body)
    BY <1>1
  <2>2. PICK d : Abreast(F[k - 1], V[k - 1], d, gap, ag) /\ Keeps(d)
    BY <1>4
  <2>3. V[k] \in Tree /\ Step(V[k - 1], V[k], body[k])
    BY <2>1 DEF Runs
  <2>4. F[k - 1].h = w.h /\ F[k] = Receive(F[k - 1], body[k])
    BY <1>2, <2>1 DEF ReceivedSteps
  <2>5. Skips(d, F[k - 1].h.g, V[k])
    BY <2>1, <2>2, <2>3, <2>4
  <2>6. PICK e : /\ Abreast(F[k], V[k], e, gap, ag)
                 /\ \A X \in Tree : Skips(d, w.h.g, X) => Skips(e, w.h.g, X)
    BY <2>2, <2>3, <2>4, <2>5, ReceiveAbreast
  <2>7. Keeps(e)
    BY <2>2, <2>6
  <2>. QED  BY <2>1, <2>6, <2>7
<1>. HIDE DEF H
<1>5. Len(body) \in H
  <2>1. \A k \in 0..Len(body) : k \in H
    BY <1>1, <1>3, <1>4, UpTo
  <2>. QED  BY <1>1, <2>1
<1>. QED  BY <1>2, <1>5 DEF H

-----------------------------------------------------------------------------
(* While the proxy stays in sync its clients see the same.                  *)

TopMost(t) == \A m \in Nodes : \A x \in Nums(t[m]) : x <= t[Root].tseq
Quiet(w, r) ==
  /\ w.sync /\ w.t[Root].tseq <= r.t[Root].tseq
  /\ TopMost(w.t) => /\ TopMost(r.t) /\ Seen(r.t, Root) = Seen(w.t, Root)
                     /\ r.t[Root].tseq = w.t[Root].tseq

LEMMA RootNumber ==
  ASSUME NEW w \in Copy
  PROVE  w.t[Root].tseq \in Nat
<1>1. w.t[Root] \in Node
  BY CopyIs, Trees, Paths
<1>. QED  BY <1>1, Fields

LEMMA QuietSame ==
  ASSUME NEW w \in Copy, w.sync, NEW r, r.t = w.t
  PROVE  Quiet(w, r)
  BY RootNumber DEF Quiet

LEMMA QuietBoth ==
  ASSUME NEW w \in Copy, NEW v \in Copy, NEW r \in Copy, Quiet(w, v), Quiet(v, r)
  PROVE  Quiet(w, r)
<1>1. w.t[Root].tseq \in Nat /\ v.t[Root].tseq \in Nat /\ r.t[Root].tseq \in Nat
  BY RootNumber
<1>2. w.t[Root].tseq <= r.t[Root].tseq
  BY <1>1 DEF Quiet
<1>. QED  BY <1>2 DEF Quiet

LEMMA KnownQuiet ==
  ASSUME NEW w \in Copy, NEW r, NEW p \in Nodes, NEW k \in Nat, KnownMakes(w, r, p, k), r.sync
  PROVE  Quiet(w, r)
<1>1. r \in Copy /\ w.sync /\ w.t[p].vis /\ w.t[p].dseq = k
  BY DEF KnownMakes
<1>2. PICK a, b \in Nat : a = w.t[Root].tseq /\ b = r.t[Root].tseq
  BY <1>1, RootNumber
<1>3. b = a \/ (a <= k /\ b = k)
  BY <1>2 DEF KnownMakes
<1>4. a <= b
  BY <1>2, <1>3
<1>5. ASSUME TopMost(w.t)
      PROVE  b = a /\ TopMost(r.t)
  <2>1. k \in Nums(w.t[p])
    BY <1>1 DEF Nums
  <2>2. k <= a
    BY <1>2, <1>5, <2>1 DEF TopMost
  <2>3. b = a
    BY <1>2, <1>3, <2>2
  <2>4. \A m \in Nodes : \A x \in Nums(r.t[m]) : x = k \/ \E j \in Nodes : x \in Nums(w.t[j])
    BY DEF KnownMakes, NumsFrom
  <2>5. \A m \in Nodes : \A x \in Nums(r.t[m]) : x <= a
    BY <1>2, <1>5, <2>2, <2>4 DEF TopMost
  <2>. QED  BY <1>2, <2>3, <2>5 DEF TopMost
<1>6. Seen(r.t, Root) = Seen(w.t, Root)
  <2>1. \A m \in Nodes : /\ r.t[m].open <=> w.t[m].open
                         /\ r.t[m].vis <=> w.t[m].vis
                         /\ r.t[m].dseq = w.t[m].dseq
    BY <1>1 DEF KnownMakes
  <2>2. \A m \in Under[Root] : m \in Nodes /\ Way[m] \subseteq Nodes
    BY Paths, Unders, WayFacts
  <2>3. {m \in Under[Root] : r.t[m].open /\ \A j \in Way[m] : r.t[j].vis}
          = {m \in Under[Root] : w.t[m].open /\ \A j \in Way[m] : w.t[j].vis}
    BY <2>1, <2>2
  <2>. QED  BY <2>1, <2>2, <2>3 DEF Seen
<1>. QED  BY <1>1, <1>2, <1>4, <1>5, <1>6 DEF Quiet

LEMMA ReceiveQuiet ==
  ASSUME NEW w \in Copy, NEW z \in Stanza, Receive(w, z).sync
  PROVE  Quiet(w, Receive(w, z))
<1>1. z.path \in Nodes /\ z.num \in Nat /\ z.kind \in {"TREE", "DATA"}
  BY DEF Stanza
<1>2. CASE z.kind = "TREE"
  <2>1. Receive(w, z) = ReceiveTree(w, z)
    BY <1>2 DEF Receive
  <2>2. CASE w.t[z.path].open
    <3>1. TreeMakes(w, ReceiveTree(w, z), z)
      BY <1>1, <1>2, <2>2, TreeIs
    <3>. QED  BY <2>1, <3>1 DEF TreeMakes
  <2>3. CASE ~w.t[z.path].open
    <3>1. Receive(w, z) = w
      BY <2>1, <2>3 DEF ReceiveTree
    <3>. QED  BY <3>1, QuietSame
  <2>. QED  BY <2>2, <2>3
<1>3. CASE z.kind = "DATA"
  <2>. DEFINE r == Receive(w, z)
  <2>1. DataMakes(w, r, z.path, z.num)
    BY <1>3, DataIs DEF Receive
  <2>. HIDE DEF r
  <2>2. CASE KnownMakes(w, r, z.path, z.num)
    BY <1>1, <2>2, KnownQuiet DEF r
  <2>3. CASE UnknownMakes(w, r, z.path, z.num)
    BY <2>3 DEF UnknownMakes, r
  <2>4. CASE \E g \in Nodes : w.t[g].open /\ Asks(w, r, {g}, {})
    <3>1. r.t = w.t /\ r.sync = w.sync
      BY <2>4 DEF Asks
    <3>. QED  BY <3>1, QuietSame DEF r
  <2>. QED  BY <2>1, <2>2, <2>3, <2>4 DEF DataMakes
<1>. QED  BY <1>1, <1>2, <1>3

LEMMA ReceivedQuiet ==
  ASSUME NEW w \in Copy, NEW body \in Seq(Stanza), Received(w, body).sync
  PROVE  Quiet(w, Received(w, body))
<1>1. Len(body) \in Nat
  OBVIOUS
<1>2. PICK F : /\ ReceivedSteps(F, w, body)
               /\ \A i \in 0..Len(body) : F[i] \in Copy
               /\ Received(w, body) = F[Len(body)]
  BY ReceivedIs
<1>. DEFINE H == {k \in 0..Len(body) : F[k].sync => Quiet(w, F[k])}
<1>3. 0 \in H
  <2>1. F[0] = w /\ 0 \in 0..Len(body)
    BY <1>1, <1>2 DEF ReceivedSteps
  <2>. QED  BY <2>1, QuietSame
<1>4. ASSUME NEW k \in 1..Len(body), k - 1 \in H
      PROVE  k \in H
  <2>1. k - 1 \in 0..Len(body) /\ k \in 0..Len(body) /\ body[k] \in Stanza
    BY <1>1
  <2>2. F[k - 1] \in Copy /\ F[k] \in Copy /\ F[k] = Receive(F[k - 1], body[k])
    BY <1>2, <2>1 DEF ReceivedSteps
  <2>3. F[k].sync => Quiet(F[k - 1], F[k])
    BY <2>1, <2>2, ReceiveQuiet
  <2>4. Quiet(F[k - 1], F[k]) => F[k - 1].sync
    BY DEF Quiet
  <2>5. F[k - 1].sync => Quiet(w, F[k - 1])
    BY <1>4
  <2>6. F[k].sync => Quiet(w, F[k])
    BY <2>2, <2>3, <2>4, <2>5, QuietBoth
  <2>. QED  BY <2>1, <2>6
<1>. HIDE DEF H
<1>5. \A k \in 0..Len(body) : k \in H
  BY <1>1, <1>3, <1>4, UpTo
<1>6. Len(body) \in 0..Len(body)
  BY <1>1
<1>. QED  BY <1>2, <1>5, <1>6 DEF H

-----------------------------------------------------------------------------
(* The copy that asks for nothing.                                          *)

LEMMA AbreastAsks ==
  ASSUME NEW w, NEW S, NEW c, NEW ag, Abreast(w, S, c, FALSE, ag),
         NEW r \in Copy, r.t = w.t, w.treqs \subseteq r.treqs, w.dreqs \subseteq r.dreqs, r.h.g = w.h.g
  PROVE  Abreast(r, S, c, FALSE, ag)
<1>1. Marked(w.t, w.treqs, w.dreqs, S) /\ Shown(w.t, w.dreqs)
  BY DEF Abreast
<1>2. Marked(r.t, r.treqs, r.dreqs, S)
  BY <1>1, MarkedMore
<1>3. Shown(r.t, r.dreqs)
  BY <1>1 DEF Shown
<1>. QED  BY <1>2, <1>3 DEF Abreast

LEMMA NothingAsked ==
  ASSUME NEW w \in Copy, NEW S, Version(S), Marked(w.t, {}, {}, S)
  PROVE  Agree(w.t, S)
<1>1. Standing(w.t) /\ Standing(S) /\ w.t \in Tree /\ S \in Tree
  BY CopyIs, VersionIs
<1>2. \A n \in Nodes : ~Differs(w.t, S, n) /\ ~Outdated(w.t, S, n)
  BY DEF Marked
<1>3. \A n \in Nodes : Way[n] \subseteq Nodes
  BY WayFacts
<1>4. \A n \in Nodes : w.t[n].open <=> S[n].open
  BY <1>1, <1>2, <1>3, Beyond, DiffersBoth
<1>5. ASSUME NEW n \in Nodes
      PROVE  w.t[n].open = S[n].open
  <2>1. w.t[n].open \in BOOLEAN /\ S[n].open \in BOOLEAN
    BY <1>1, Opens
  <2>. QED  BY <1>4, <2>1
<1>6. ASSUME NEW n \in Nodes \ {Root}
      PROVE  w.t[n].dseq = S[n].dseq
  <2>1. CASE w.t[n].open
    BY <1>2, <1>4, <2>1 DEF Outdated
  <2>2. CASE ~w.t[n].open
    <3>1. w.t[n] = Absent /\ S[n] = Absent
      BY <1>1, <1>4, <2>2 DEF Standing
    <3>. QED  BY <3>1
  <2>. QED  BY <2>1, <2>2
<1>. QED  BY <1>5, <1>6 DEF Agree

LEMMA AgreeKnows ==
  ASSUME NEW P \in Tree, NEW S, Version(S), Agree(P, S),
         \A n \in Nodes : \A x \in Nums(P[n]) : x <= Number(S), NEW g \in Nat
  PROVE  /\ Knows(P, S, Number(S), g)
         /\ \A tq, dq : Marked(P, tq, dq, S)
<1>1. PICK s \in Nat : s = Number(S)
  BY VersionIs
<1>2. \A n \in Nodes : (P[n].open <=> S[n].open) /\ (n # Root => P[n].dseq = S[n].dseq)
  BY DEF Agree
<1>3. \A n \in Nodes : Kids(P, n) = Kids(S, n)
  <2>1. \A n \in Nodes : Below[n] \subseteq Nodes
    BY Belows
  <2>. QED  BY <1>2, <2>1 DEF Kids
<1>4. \A n \in Nodes : ~Differs(P, S, n) /\ ~Outdated(P, S, n) /\ ~Missing(P, S, n)
  BY <1>2, <1>3 DEF Differs, Outdated, Missing
<1>5. \A n \in Nodes : \A x \in Nums(P[n]) : x <= s /\ ~(x > s /\ x <= g)
  <2>. SUFFICES ASSUME NEW n \in Nodes, NEW x \in Nums(P[n])
                PROVE  x <= s /\ ~(x > s /\ x <= g)
    OBVIOUS
  <2>1. x \in Nat /\ x <= s
    BY <1>1, NumsNat
  <2>. QED  BY <2>1
<1>6. Knows(P, S, Number(S), g)
  BY <1>1, <1>4, <1>5 DEF Knows
<1>7. \A tq, dq : Marked(P, tq, dq, S)
  BY <1>4 DEF Marked
<1>. QED  BY <1>6, <1>7

LEMMA SeenAgree ==
  ASSUME NEW w \in Copy, NEW S, Version(S), Agree(w.t, S), Shown(w.t, {}), w.t[Root].dseq = S[Root].dseq
  PROVE  Seen(w.t, Root) = Seen(S, Root)
<1>1. Standing(w.t) /\ Standing(S) /\ \A m \in Nodes : S[m].open => S[m].vis
  BY CopyIs, VersionIs DEF Numbered
<1>2. \A m \in Nodes : w.t[m].open => w.t[m].vis
  BY DEF Shown
<1>3. \A m \in Under[Root] : (S[m].open <=> w.t[m].open) /\ (S[m].open => S[m].dseq = w.t[m].dseq)
  BY Unders, Paths DEF Agree
<1>. QED  BY <1>1, <1>2, <1>3, SeenSame, Paths

\* A copy that asks for nothing, or was the server's tree when it was in
\* sync, has all numbers.
LEMMA AbreastAll ==
  ASSUME NEW w, NEW S, NEW c, NEW ag, Abreast(w, S, c, FALSE, ag),
         ag \/ (w.treqs = {} /\ w.dreqs = {}),
         NEW r \in Copy, r.t = w.t, w.dreqs \subseteq r.dreqs
  PROVE  Abreast(r, S, Number(S), FALSE, TRUE)
<1>1. w \in Copy /\ Version(S) /\ Shown(w.t, w.dreqs) /\ Marked(w.t, w.treqs, w.dreqs, S)
      /\ Knows(w.t, S, c, w.h.g) /\ w.t \in Tree
  BY CopyIs DEF Abreast
<1>2. Agree(w.t, S)
  BY <1>1, NothingAsked DEF Abreast
<1>3. r.h.g \in Nat
  BY CopyIs, RecordIs DEF Heads
<1>4. \A n \in Nodes : \A x \in Nums(w.t[n]) : x <= Number(S)
  BY <1>1 DEF Knows
<1>5. Knows(r.t, S, Number(S), r.h.g) /\ Marked(r.t, r.treqs, r.dreqs, S)
  BY <1>1, <1>2, <1>3, <1>4, AgreeKnows
<1>6. Shown(r.t, r.dreqs)
  BY <1>1 DEF Shown
<1>. QED  BY <1>1, <1>2, <1>5, <1>6 DEF Abreast

\* When the numbers of a header agree with the copy's, and nothing is asked
\* for, clients see what the server's saw at that number.
InStep(r, E, p) ==
  /\ p.t = Number(E) /\ p.s = p.t /\ r.t[Root].tseq = p.t /\ TopMost(r.t)
  /\ p.d = E[Root].dseq => Seen(r.t, Root) = Seen(E, Root)

LEMMA AgreedStep ==
  ASSUME NEW w, NEW S, NEW c, NEW ag, Abreast(w, S, c, FALSE, ag), w.treqs = {}, w.dreqs = {},
         NEW p, p.t = w.t[Root].tseq, p.s = p.t, p.d = w.t[Root].dseq, Number(S) <= p.t,
         NEW r, r.t = w.t
  PROVE  InStep(r, S, p)
<1>1. w \in Copy /\ Version(S) /\ Shown(w.t, {}) /\ Marked(w.t, {}, {}, S)
      /\ Knows(w.t, S, c, w.h.g)
  BY DEF Abreast
<1>2. PICK s \in Nat : s = Number(S)
  BY <1>1, VersionIs
<1>3. \A n \in Nodes : \A x \in Nums(w.t[n]) : x <= s
  BY <1>1, <1>2 DEF Knows
<1>4. w.t[Root].tseq \in Nums(w.t[Root]) /\ Root \in Nodes /\ w.t[Root].tseq \in Nat
  BY <1>1, Paths, RootNumber DEF Nums
<1>5. p.t = s
  BY <1>2, <1>3, <1>4
<1>6. TopMost(r.t)
  BY <1>3, <1>5 DEF TopMost
<1>7. Agree(w.t, S)
  BY <1>1, NothingAsked
<1>8. p.d = S[Root].dseq => Seen(r.t, Root) = Seen(S, Root)
  BY <1>1, <1>7, SeenAgree
<1>. QED  BY <1>2, <1>5, <1>6, <1>8 DEF InStep

\* The copy w begins to read the packet p, whose trees are V: w.h.l is the
\* number after which it should come.
Begins(w, p, V, S, c, ag) ==
  /\ w \in Copy /\ p \in Packets /\ Runs(V, p.body) /\ Abreast(w, S, c, FALSE, ag)
  /\ p.l = w.h.l => V[0] = S /\ (p.l = w.h.g => ag)
  /\ Later(S, V[0]) /\ \A k \in 0..Len(p.body) : Skips(c, w.h.g, V[k])
  /\ w.h.g <= w.h.l /\ w.h.l <= p.l /\ p.l <= p.t /\ Number(V[Len(p.body)]) <= p.t
\* And it has read it, up to the tree E.
Finishes(w, r, p, E, c) ==
  /\ r \in Copy /\ r.h.l = p.t /\ r.h.t = p.t /\ r.h.s = p.s /\ r.h.d = p.d /\ r.h.g <= p.t
  /\ \E d : /\ Abreast(r, E, d, FALSE, r.h.g = r.h.l)
            /\ \/ r.h.g = w.h.g /\ \A X \in Tree : Skips(c, w.h.g, X) => Skips(d, w.h.g, X)
               \/ r.h.g = p.t /\ d = Number(E)
  /\ r.sync => Quiet(w, r) \/ InStep(r, E, p)

LEMMA PacketRead ==
  ASSUME NEW w, NEW p, NEW V, NEW S, NEW c, NEW ag, Begins(w, p, V, S, c, ag),
         NEW E, E = V[Len(p.body)],
         NEW r, r = Heading(Received(w, p.body), p)
  PROVE  Finishes(w, r, p, E, c)
<1>0. /\ w \in Copy /\ p \in Packets /\ Runs(V, p.body) /\ Abreast(w, S, c, FALSE, ag)
      /\ p.l = w.h.l => V[0] = S /\ (p.l = w.h.g => ag)
      /\ Later(S, V[0]) /\ \A k \in 0..Len(p.body) : Skips(c, w.h.g, V[k])
      /\ w.h.g <= w.h.l /\ w.h.l <= p.l /\ p.l <= p.t /\ Number(V[Len(p.body)]) <= p.t
  BY DEF Begins
<1>. USE <1>0
<1>. SUFFICES /\ r \in Copy /\ r.h.l = p.t /\ r.h.t = p.t /\ r.h.s = p.s /\ r.h.d = p.d /\ r.h.g <= p.t
              /\ \E d : /\ Abreast(r, E, d, FALSE, r.h.g = r.h.l)
                        /\ \/ r.h.g = w.h.g /\ \A X \in Tree : Skips(c, w.h.g, X) => Skips(d, w.h.g, X)
                           \/ r.h.g = p.t /\ d = Number(E)
              /\ r.sync => Quiet(w, r) \/ InStep(r, E, p)
  BY DEF Finishes
<1>1. /\ p.body \in Seq(Stanza) /\ Len(p.body) \in Nat /\ p.l \in Nat /\ p.t \in Nat
      /\ w.h.g \in Nat /\ w.h.l \in Nat
  BY CopyIs, RecordIs DEF Packets, Heads
<1>2. /\ Version(S) /\ Knows(w.t, S, c, w.h.g) /\ Shown(w.t, w.dreqs) /\ Standing(w.t)
      /\ Version(V[0]) /\ V[0] \in Tree
  BY <1>1, CopyIs, RunsAre, VersionIs DEF Abreast, Runs
<1>. DEFINE v == Received(w, p.body)
<1>3. v \in Copy /\ v.h = w.h
  BY <1>1, ReceivedIs
<1>4. Headed(v, r, p)
  BY <1>3, HeadingIs
<1>5. v.sync => Quiet(w, v)
  BY <1>1, ReceivedQuiet
<1>. HIDE DEF v
<1>6. r \in Copy /\ r.t = v.t /\ r.h.l = p.t /\ r.h.t = p.t /\ r.h.s = p.s /\ r.h.d = p.d
  BY <1>4 DEF Headed
<1>7. Quiet(w, v) => Quiet(w, r)
  BY <1>6 DEF Quiet
<1>8. CASE p.l # w.h.l
  <2>1. Abreast(w, V[0], c, TRUE, FALSE)
    <3>1. Knows(w.t, V[0], c, w.h.g)
      <4>1. Skips(c, w.h.g, V[0])
        BY <1>1
      <4>. QED  BY <1>2, <4>1, KnowsLater
    <3>. QED  BY <1>2, <3>1 DEF Abreast
  <2>2. PICK d : /\ Abreast(v, E, d, TRUE, FALSE)
                 /\ \A X \in Tree : Skips(c, w.h.g, X) => Skips(d, w.h.g, X)
    BY <1>1, <2>1, ReceivedAbreast DEF v
  <2>3. r.h.g = w.h.g /\ r.treqs = v.treqs \cup {Root} /\ r.dreqs = v.dreqs /\ r.sync = v.sync
    BY <1>3, <1>4, <1>8 DEF Headed
  <2>4. r.h.g # r.h.l /\ r.h.g <= p.t
    BY <1>1, <1>6, <1>8, <2>3
  <2>5. Marked(r.t, r.treqs, r.dreqs, E)
    <3>1. \A n \in Nodes : Root \in Way[n]
      BY WayFacts
    <3>. QED  BY <2>3, <3>1 DEF Marked, Outdated
  <2>6. Abreast(r, E, d, FALSE, r.h.g = r.h.l)
    BY <1>3, <1>6, <2>2, <2>3, <2>4, <2>5 DEF Abreast
  <2>. QED  BY <1>5, <1>6, <1>7, <2>2, <2>3, <2>4, <2>6
<1>9. CASE p.l = w.h.l
  <2>0. Abreast(w, V[0], c, FALSE, ag)
    BY <1>9
  <2>1. PICK d : /\ Abreast(v, E, d, FALSE, ag)
                 /\ \A X \in Tree : Skips(c, w.h.g, X) => Skips(d, w.h.g, X)
    BY <1>1, <2>0, ReceivedAbreast DEF v
  <2>2. CASE /\ v.treqs = {} /\ v.dreqs = {} /\ r.treqs = {} /\ r.dreqs = {}
             /\ p.t = v.t[Root].tseq /\ p.d = v.t[Root].dseq /\ p.s = v.t[Root].tseq
             /\ r.h.g = p.t
    <3>1. Abreast(r, E, Number(E), FALSE, TRUE)
      BY <1>6, <2>1, <2>2, AbreastAll
    <3>2. Abreast(r, E, Number(E), FALSE, r.h.g = r.h.l)
      BY <3>1 DEF Abreast
    <3>3. InStep(r, E, p)
      BY <1>6, <2>1, <2>2, AgreedStep
    <3>4. r.h.g <= p.t /\ r.h.g = p.t
      BY <1>1, <2>2
    <3>5. \E e : /\ Abreast(r, E, e, FALSE, r.h.g = r.h.l)
                 /\ r.h.g = p.t /\ e = Number(E)
      BY <3>2, <3>4
    <3>. QED  BY <1>6, <3>3, <3>4, <3>5
  <2>3. CASE /\ \E X, Y \in SUBSET {Root} : r.treqs = v.treqs \cup X /\ r.dreqs = v.dreqs \cup Y
             /\ r.h.g = (IF p.l = v.h.g THEN p.t ELSE v.h.g)
             /\ r.sync = v.sync
    <3>1. v.treqs \subseteq r.treqs /\ v.dreqs \subseteq r.dreqs
      BY <2>3
    <3>2. CASE p.l = w.h.g
      <4>1. ag /\ r.h.g = p.t
        BY <1>3, <1>9, <2>3, <3>2
      <4>2. Abreast(r, E, Number(E), FALSE, TRUE)
        BY <1>6, <2>1, <3>1, <4>1, AbreastAll
      <4>3. Abreast(r, E, Number(E), FALSE, r.h.g = r.h.l)
        BY <4>2 DEF Abreast
      <4>4. r.h.g <= p.t
        BY <1>1, <4>1
      <4>5. \E e : /\ Abreast(r, E, e, FALSE, r.h.g = r.h.l)
                   /\ r.h.g = p.t /\ e = Number(E)
        BY <4>1, <4>3
      <4>. QED  BY <1>5, <1>6, <1>7, <2>3, <4>4, <4>5
    <3>3. CASE p.l # w.h.g
      <4>1. r.h.g = v.h.g /\ r.h.g = w.h.g
        BY <1>3, <2>3, <3>3
      <4>2. Abreast(r, E, d, FALSE, ag)
        BY <1>6, <2>1, <3>1, <4>1, AbreastAsks
      <4>3. r.h.g # r.h.l /\ r.h.g <= p.t
        BY <1>1, <1>6, <1>9, <3>3, <4>1
      <4>4. Abreast(r, E, d, FALSE, r.h.g = r.h.l)
        BY <4>2, <4>3 DEF Abreast
      <4>. QED  BY <1>5, <1>6, <1>7, <2>1, <2>3, <4>1, <4>3, <4>4
    <3>. QED  BY <3>2, <3>3
  <2>. QED  BY <1>3, <1>4, <1>9, <2>2, <2>3 DEF Headed
<1>. QED  BY <1>8, <1>9

\* A proxy that has been opened knows nothing, and has asked for all.
LEMMA FirstAbreast ==
  ASSUME NEW w \in Copy, w.t = OpenRoot, w.treqs = {Root}, w.h.g = 0, NEW S, Version(S)
  PROVE  Abreast(w, S, 0, FALSE, FALSE) /\ \A X \in Tree : Skips(0, 0, X)
<1>1. /\ Standing(S) /\ Numbered(S) /\ Number(S) \in Nat /\ S \in Tree
      /\ \A m \in Nodes : S[m].dseq \in Nat /\ S[m].nseq \in Nat
  BY VersionIs
<1>2. /\ OpenRoot[Root].vis /\ Root \in Nodes
      /\ \A m \in Nodes \ {Root} : ~OpenRoot[m].open
      /\ \A m \in Nodes : \A x \in Nums(OpenRoot[m]) : x = 0
  <2>1. \A m \in Nodes \ {Root} : OpenRoot[m] = Absent
    BY OpenRootIs
  <2>2. \A x \in Nums(OpenRoot[Root]) : x = 0
    BY OpenRootIs DEF Nums
  <2>3. \A m \in Nodes \ {Root} : \A x \in Nums(OpenRoot[m]) : x = 0
    BY <2>1, AbsentNums
  <2>. QED  BY <2>1, <2>2, <2>3, OpenRootIs, Paths, Trees
<1>3. \A n \in Nodes : Differs(OpenRoot, S, n) => S[n].nseq > 0
  <2>. SUFFICES ASSUME NEW n \in Nodes, Differs(OpenRoot, S, n)
                PROVE  S[n].nseq > 0
    OBVIOUS
  <2>1. \A c \in Below[n] : c \in Nodes \ {Root} /\ ParentOf(c) = n
    BY Belows
  <2>2. Kids(OpenRoot, n) = {}
    BY <1>2, <2>1 DEF Kids
  <2>3. PICK c \in Below[n] : S[c].open
    BY <2>2 DEF Differs, Kids
  <2>. QED  BY <1>1, <2>1, <2>3 DEF Numbered
<1>4. Knows(OpenRoot, S, 0, 0)
  <2>1. \A n \in Nodes : ~Outdated(OpenRoot, S, n)
    BY <1>2 DEF Outdated
  <2>2. \A n \in Nodes : Missing(OpenRoot, S, n) => S[n].dseq > 0 /\ (S[n].nseq = 0 \/ S[n].nseq > 0)
    BY <1>1 DEF Missing, Numbered
  <2>. QED  BY <1>1, <1>2, <1>3, <2>1, <2>2 DEF Knows
<1>5. Marked(OpenRoot, {Root}, w.dreqs, S)
  <2>1. \A n \in Nodes : Root \in Way[n]
    BY WayFacts
  <2>. QED  BY <2>1 DEF Marked, Outdated
<1>6. Shown(OpenRoot, w.dreqs)
  BY <1>2 DEF Shown
<1>7. \A X \in Tree : Skips(0, 0, X)
  <2>. SUFFICES ASSUME NEW X \in Tree, NEW m \in Nodes, NEW x \in Nums(X[m]), x > 0, x <= 0
                PROVE  x = 0 + 1
    BY DEF Skips
  <2>1. x \in Nat
    BY NumsNat
  <2>. QED  BY <2>1
<1>. QED  BY <1>4, <1>5, <1>6, <1>7 DEF Abreast

-----------------------------------------------------------------------------
(* The packets on their way to the proxy and the one that is being filled:  *)
(* Q has them, and W has for each the server's trees between its stanzas.   *)

End(q, V) == V[Len(q.body)]

\* What a packet and its header tell.
LogPacket(q, V, sn) ==
  /\ q \in Packets /\ Runs(V, q.body) /\ 1 <= q.l /\ q.l <= q.t
  /\ Number(End(q, V)) <= q.t
  /\ Number(End(q, V)) = q.t => q.d = End(q, V)[Root].dseq
  /\ q.s = Number(End(q, V)) => Seen(End(q, V), Root) \in sn

\* Either nothing is new in a packet, or who misses it will notice.
Notice(q, V) ==
  \/ Number(V[0]) >= q.l
  \/ Number(End(q, V)) > q.l
  \/ \E k \in 1..Len(q.body) : q.body[k].num = q.l

\* The packet that comes after the number l, when the tree was E.
Link(l, E, q, V) ==
  /\ l <= q.l /\ Later(E, V[0])
  /\ q.l = l => V[0] = E /\ Notice(q, V)

\* The packets from i on, for one that has read what was sent before them,
\* and knows the numbers up to a and none of those up to b.
Follows(l, E, a, b, Q, W, i) ==
  /\ Link(l, E, Q[i], W[i])
  /\ \A j \in i..Len(Q) : \A k \in 0..Len(Q[j].body) : Skips(a, b, W[j][k])

After(Q, W, i) ==
  Follows(Q[i].t, End(Q[i], W[i]), Number(End(Q[i], W[i])), Q[i].t, Q, W, i + 1)

\* c is the server's cookie, T its tree, and sn has what its clients saw.
Log(Q, W, c, T, sn) ==
  /\ Version(T) /\ Len(Q) \in Nat /\ Len(Q) >= 1
  /\ Q[Len(Q)].cookie = c /\ Q[Len(Q)].t = Number(T) /\ End(Q[Len(Q)], W[Len(Q)]) = T
  /\ \A i \in 1..Len(Q) : Q[i].cookie = c =>
       /\ LogPacket(Q[i], W[i], sn) /\ Q[i].t <= Number(T) /\ Later(End(Q[i], W[i]), T)
       /\ i < Len(Q) => Q[i + 1].cookie = c /\ After(Q, W, i)

\* What followed an earlier packet still does.
Keeps(T, c, Q, W, R, X) ==
  /\ Q[1].cookie = c => R[1].cookie = c
  /\ \A i \in 1..Len(Q), l, a, b \in Nat : \A E :
       /\ Version(E) /\ l <= Number(T) /\ b <= Number(T)
       /\ Follows(l, E, a, b, Q, W, i)
       => Follows(l, E, a, b, R, X, i)

\* The last packet has more stanzas, or another header.
Recast(T, q, V, r, U) ==
  /\ \A l \in Nat : \A E : Version(E) /\ l <= Number(T) /\ Link(l, E, q, V) => Link(l, E, r, U)
  /\ \A k \in 0..Len(r.body) : (\E j \in 0..Len(q.body) : U[k] = V[j]) \/ Newer(T, U[k])

LEMMA LogPacketIs ==
  ASSUME NEW q, NEW V, NEW sn, LogPacket(q, V, sn)
  PROVE  /\ q \in Packets /\ q.body \in Seq(Stanza) /\ Len(q.body) \in Nat /\ Len(q.body) \in 0..Len(q.body)
         /\ q.l \in Nat /\ q.t \in Nat /\ q.cookie \in Nat /\ Runs(V, q.body)
         /\ \A k \in 0..Len(q.body) : Version(V[k]) /\ Later(V[0], V[k]) /\ Newer(V[0], V[k])
         /\ Version(End(q, V)) /\ Later(V[0], End(q, V)) /\ Newer(V[0], End(q, V))
<1>1. q \in Packets /\ q.body \in Seq(Stanza) /\ Runs(V, q.body) /\ q.l \in Nat /\ q.t \in Nat /\ q.cookie \in Nat
  BY DEF LogPacket, Packets
<1>2. Len(q.body) \in Nat /\ Len(q.body) \in 0..Len(q.body)
  BY <1>1
<1>3. \A k \in 0..Len(q.body) : Version(V[k]) /\ Later(V[0], V[k]) /\ Newer(V[0], V[k])
  BY <1>1, <1>2, RunsAre
<1>. QED  BY <1>1, <1>2, <1>3 DEF End

\* N packets were there; the last has been recast, and one may be new.
Moved(Q, W, c, T, R, X, D, sm, N, M) ==
  /\ M = Len(R)
  /\ \A i \in 1..N : i < N => R[i] = Q[i] /\ X[i] = W[i]
  /\ Recast(T, Q[N], W[N], R[N], X[N])
  /\ R[N].cookie = c /\ LogPacket(R[N], X[N], sm) /\ R[N].t <= Number(D) /\ Later(End(R[N], X[N]), D)
  /\ R[M].cookie = c /\ R[M].t = Number(D) /\ End(R[M], X[M]) = D
  /\ M = N \/ /\ M = N + 1
              /\ LogPacket(R[M], X[M], sm)
              /\ Link(R[N].t, End(R[N], X[N]), R[M], X[M])
              /\ \A k \in 0..Len(R[M].body) :
                   Newer(T, X[M][k]) /\ Skips(Number(End(R[N], X[N])), R[N].t, X[M][k])

LEMMA MovedKeeps ==
  ASSUME NEW Q, NEW W, NEW c, NEW T, NEW sn, Log(Q, W, c, T, sn),
         NEW R, NEW X, NEW D, NEW sm, NEW N, N = Len(Q), NEW M, Moved(Q, W, c, T, R, X, D, sm, N, M)
  PROVE  Keeps(T, c, Q, W, R, X)
<1>1. N \in Nat /\ N >= 1 /\ Version(T) /\ End(Q[N], W[N]) = T /\ M \in {N, N + 1} /\ M = Len(R)
      /\ LogPacket(Q[N], W[N], sn)
  BY DEF Log, Moved
<1>2. Q[1].cookie = c => R[1].cookie = c
  <2>1. CASE N = 1
    BY <2>1 DEF Moved
  <2>2. CASE N # 1
    <3>1. 1 \in 1..N /\ 1 < N
      BY <1>1, <2>2
    <3>. QED  BY <3>1 DEF Moved
  <2>. QED  BY <2>1, <2>2
<1>3. ASSUME NEW i \in 1..N, NEW l \in Nat, NEW a \in Nat, NEW b \in Nat, NEW E, Version(E),
             l <= Number(T), b <= Number(T), Follows(l, E, a, b, Q, W, i)
      PROVE  Follows(l, E, a, b, R, X, i)
  <2>1. Link(l, E, R[i], X[i])
    <3>1. CASE i = N
      BY <1>3, <3>1 DEF Follows, Moved, Recast
    <3>2. CASE i # N
      <4>1. R[i] = Q[i] /\ X[i] = W[i]
        BY <1>1, <3>2 DEF Moved
      <4>. QED  BY <1>3, <4>1 DEF Follows
    <3>. QED  BY <3>1, <3>2
  <2>2. Skips(a, b, T)
    <3>1. N \in i..Len(Q) /\ Len(Q[N].body) \in 0..Len(Q[N].body)
      BY <1>1, LogPacketIs
    <3>. QED  BY <1>1, <1>3, <3>1 DEF Follows, End
  <2>3. \A B : Version(B) /\ Newer(T, B) => Skips(a, b, B)
    BY <1>1, <1>3, <2>2, SkipsNewer
  <2>4. ASSUME NEW j \in i..M, NEW k \in 0..Len(R[j].body)
        PROVE  Skips(a, b, X[j][k])
    <3>1. j \in 1..M /\ (j < N \/ j = N \/ (j = N + 1 /\ j = M))
      BY <1>1, <2>4
    <3>2. CASE j < N
      <4>1. j \in 1..N /\ j \in i..Len(Q)
        BY <1>1, <3>1, <3>2
      <4>2. R[j] = Q[j] /\ X[j] = W[j]
        BY <3>2, <4>1 DEF Moved
      <4>. QED  BY <1>3, <2>4, <4>1, <4>2 DEF Follows
    <3>3. CASE j = N
      <4>1. Version(X[N][k])
        BY <2>4, <3>3, LogPacketIs DEF Moved
      <4>2. (\E m \in 0..Len(Q[N].body) : X[N][k] = W[N][m]) \/ Newer(T, X[N][k])
        BY <2>4, <3>3 DEF Moved, Recast
      <4>3. N \in i..Len(Q)
        BY <1>1
      <4>. QED  BY <1>3, <2>3, <3>3, <4>1, <4>2, <4>3 DEF Follows
    <3>4. CASE j = N + 1 /\ j = M
      <4>1. M # N
        BY <1>1, <3>4
      <4>2. LogPacket(R[M], X[M], sm) /\ Newer(T, X[M][k])
        BY <2>4, <3>4, <4>1 DEF Moved
      <4>3. Version(X[M][k])
        BY <2>4, <3>4, <4>2, LogPacketIs
      <4>. QED  BY <2>3, <3>4, <4>2, <4>3
    <3>. QED  BY <3>1, <3>2, <3>3, <3>4
  <2>. QED  BY <1>1, <2>1, <2>4 DEF Follows
<1>. QED  BY <1>1, <1>2, <1>3 DEF Keeps

LEMMA MovedLog ==
  ASSUME NEW Q, NEW W, NEW c, NEW T, NEW sn, Log(Q, W, c, T, sn),
         NEW R, NEW X, NEW D, Version(D), Later(T, D), NEW sm, sn \subseteq sm,
         NEW N, N = Len(Q), NEW M, Moved(Q, W, c, T, R, X, D, sm, N, M)
  PROVE  Log(R, X, c, D, sm) /\ Keeps(T, c, Q, W, R, X)
<1>1. N \in Nat /\ N >= 1 /\ Version(T) /\ End(Q[N], W[N]) = T /\ M \in {N, N + 1} /\ M = Len(R)
      /\ LogPacket(Q[N], W[N], sn)
  BY DEF Log, Moved
<1>2. Keeps(T, c, Q, W, R, X)
  BY MovedKeeps
<1>3. PICK t, d \in Nat : t = Number(T) /\ d = Number(D) /\ t <= d
  BY <1>1, VersionIs DEF Later
<1>4. ASSUME NEW i \in 1..M, R[i].cookie = c
      PROVE  /\ LogPacket(R[i], X[i], sm) /\ R[i].t <= d /\ Later(End(R[i], X[i]), D)
             /\ i < M => R[i + 1].cookie = c /\ After(R, X, i)
  <2>1. i < N \/ i = N \/ (i = N + 1 /\ i = M)
    BY <1>1
  <2>2. CASE i < N
    <3>1. i \in 1..N /\ i \in 1..Len(Q) /\ i + 1 \in 1..N
      BY <1>1, <2>2
    <3>2. R[i] = Q[i] /\ X[i] = W[i]
      BY <2>2, <3>1 DEF Moved
    <3>3. /\ LogPacket(Q[i], W[i], sn) /\ Q[i].t <= t /\ Later(End(Q[i], W[i]), T)
          /\ Q[i + 1].cookie = c /\ After(Q, W, i)
      BY <1>3, <1>4, <2>2, <3>1, <3>2 DEF Log
    <3>4. Q[i].t \in Nat /\ Version(End(Q[i], W[i]))
      BY <3>3, LogPacketIs
    <3>5. LogPacket(R[i], X[i], sm)
      BY <3>2, <3>3 DEF LogPacket
    <3>6. R[i].t <= d
      BY <1>3, <3>2, <3>3, <3>4
    <3>7. Later(End(R[i], X[i]), D)
      BY <1>1, <3>2, <3>3, <3>4, LaterBoth
    <3>8. R[i + 1].cookie = c
      <4>1. CASE i + 1 = N
        BY <4>1 DEF Moved
      <4>2. CASE i + 1 # N
        <5>1. i + 1 < N
          BY <3>1, <4>2, <1>1
        <5>. QED  BY <3>1, <3>3, <5>1 DEF Moved
      <4>. QED  BY <4>1, <4>2
    <3>9. After(R, X, i)
      <4>1. PICK e \in Nat : e = Number(End(Q[i], W[i]))
        BY <3>4, VersionIs
      <4>2. Follows(Q[i].t, End(Q[i], W[i]), e, Q[i].t, Q, W, i + 1)
        BY <3>3, <4>1 DEF After
      <4>3. Follows(Q[i].t, End(Q[i], W[i]), e, Q[i].t, R, X, i + 1)
        BY <1>1, <1>2, <1>3, <3>1, <3>3, <3>4, <4>2 DEF Keeps
      <4>. QED  BY <3>2, <4>1, <4>3 DEF After
    <3>. QED  BY <3>5, <3>6, <3>7, <3>8, <3>9
  <2>3. CASE i = N
    <3>1. LogPacket(R[N], X[N], sm) /\ R[N].t <= d /\ Later(End(R[N], X[N]), D)
      BY <1>3 DEF Moved
    <3>2. ASSUME N < M
          PROVE  R[N + 1].cookie = c /\ After(R, X, N)
      <4>1. M = N + 1 /\ M # N
        BY <1>1, <3>2
      <4>2. /\ R[M].cookie = c /\ Link(R[N].t, End(R[N], X[N]), R[M], X[M])
            /\ \A k \in 0..Len(R[M].body) : Skips(Number(End(R[N], X[N])), R[N].t, X[M][k])
        BY <4>1 DEF Moved
      <4>3. \A j \in M..Len(R) : j = M
        BY <1>1
      <4>4. Follows(R[N].t, End(R[N], X[N]), Number(End(R[N], X[N])), R[N].t, R, X, M)
        BY <4>2, <4>3 DEF Follows
      <4>. QED  BY <4>1, <4>2, <4>4 DEF After
    <3>. QED  BY <2>3, <3>1, <3>2
  <2>4. CASE i = N + 1 /\ i = M
    <3>1. M # N /\ ~(i < M)
      BY <1>1, <2>4
    <3>2. LogPacket(R[M], X[M], sm) /\ R[M].t = d /\ End(R[M], X[M]) = D
      BY <1>3, <3>1 DEF Moved
    <3>3. R[M].t <= d /\ Later(End(R[M], X[M]), D)
      BY <1>3, <3>2, LaterSame
    <3>. QED  BY <2>4, <3>1, <3>2, <3>3
  <2>. QED  BY <2>1, <2>2, <2>3, <2>4
<1>5. M \in Nat /\ M >= 1
  BY <1>1
<1>6. R[M].cookie = c /\ R[M].t = Number(D) /\ End(R[M], X[M]) = D
  BY DEF Moved
<1>. QED  BY <1>1, <1>2, <1>3, <1>4, <1>5, <1>6 DEF Log

\* A body that goes on.
Joined(U, V, body, C, z, long) ==
  /\ Runs(U, long)
  /\ \A k \in 0..Len(body) : U[k] = V[k]
  /\ \A k \in 0..Len(z) : U[Len(body) + k] = C[k]

Joins(V, body, C, z, long) ==
  /\ body \in Seq(Stanza) /\ z \in Seq(Stanza) /\ long = body \o z
  /\ Runs(V, body) /\ Runs(C, z) /\ V[Len(body)] = C[0]

LEMMA RunsJoin ==
  ASSUME NEW V, NEW body, NEW C, NEW z, NEW long, Joins(V, body, C, z, long)
  PROVE  \E U : Joined(U, V, body, C, z, long)
<1>0. /\ body \in Seq(Stanza) /\ z \in Seq(Stanza) /\ long = body \o z
      /\ Runs(V, body) /\ Runs(C, z) /\ V[Len(body)] = C[0]
  BY DEF Joins
<1>1. PICK m, n \in Nat : m = Len(body) /\ n = Len(z)
  BY <1>0
<1>. DEFINE U == [k \in 0..(m + n) |-> IF k <= m THEN V[k] ELSE C[k - m]]
<1>2. /\ Len(long) = m + n
      /\ \A k \in 1..m : long[k] = body[k]
      /\ \A k \in 1..n : long[m + k] = z[k]
  BY <1>0, <1>1
<1>3. \A k \in 0..m : U[k] = V[k]
  OBVIOUS
<1>4. \A k \in 0..n : U[m + k] = C[k]
  <2>. SUFFICES ASSUME NEW k \in 0..n
                PROVE  U[m + k] = C[k]
    OBVIOUS
  <2>1. CASE k = 0
    BY <1>0, <1>1, <1>3, <2>1
  <2>2. CASE k # 0
    <3>1. m + k \in 0..(m + n) /\ ~(m + k <= m) /\ (m + k) - m = k
      BY <2>2
    <3>. QED  BY <3>1
  <2>. QED  BY <2>1, <2>2
<1>5. U \in [0..(m + n) -> Tree]
  <2>1. \A k \in 0..m : V[k] \in Tree
    BY <1>0, <1>1 DEF Runs
  <2>2. \A k \in 0..n : C[k] \in Tree
    BY <1>0, <1>1 DEF Runs
  <2>3. \A k \in 0..(m + n) : k <= m \/ k - m \in 0..n
    OBVIOUS
  <2>. QED  BY <2>1, <2>2, <2>3
<1>. HIDE DEF U
<1>6. ASSUME NEW k \in 1..(m + n)
      PROVE  Step(U[k - 1], U[k], long[k])
  <2>1. CASE k <= m
    <3>1. k \in 1..m /\ k \in 0..m /\ k - 1 \in 0..m
      BY <2>1
    <3>2. Step(V[k - 1], V[k], body[k])
      BY <1>0, <1>1, <3>1 DEF Runs
    <3>. QED  BY <1>2, <1>3, <3>1, <3>2
  <2>2. CASE ~(k <= m)
    <3>1. PICK j \in 1..n : k = m + j
      <4>1. k - m \in 1..n /\ k = m + (k - m)
        BY <2>2
      <4>. QED  BY <4>1
    <3>2. j \in 0..n /\ j - 1 \in 0..n /\ k - 1 = m + (j - 1)
      BY <3>1
    <3>3. Step(C[j - 1], C[j], z[j])
      BY <1>0, <1>1, <3>1 DEF Runs
    <3>4. U[k - 1] = C[j - 1] /\ U[k] = C[j] /\ long[k] = z[j]
      BY <1>2, <1>4, <3>1, <3>2
    <3>. QED  BY <3>3, <3>4
  <2>. QED  BY <2>1, <2>2
<1>7. Version(U[0])
  <2>1. U[0] = V[0]
    BY <1>3
  <2>. QED  BY <1>0, <2>1 DEF Runs
<1>8. Runs(U, long)
  BY <1>2, <1>5, <1>6, <1>7 DEF Runs
<1>. QED  BY <1>1, <1>3, <1>4, <1>8 DEF Joined

\* The stanzas z tell how T has become D; t is the tree whose numbers a packet
\* has that is sent before them.
Told(T, t, z, C, D) ==
  /\ z \in Seq(Stanza) /\ Runs(C, z) /\ C[0] = T /\ C[Len(z)] = D
  /\ t \in Tree /\ Number(T) <= Number(t) /\ Number(t) <= Number(D)
  /\ Number(T) = Number(t) => t[Root].dseq = T[Root].dseq
  /\ \A k \in 0..Len(z) : Skips(Number(T), Number(t), C[k])
  /\ \/ Number(T) >= Number(t)
     \/ Number(D) > Number(t)
     \/ \E k \in 1..Len(z) : z[k].num = Number(t)

LEMMA ToldIs ==
  ASSUME NEW T, Version(T), NEW t, NEW z, NEW C, NEW D, Told(T, t, z, C, D)
  PROVE  /\ Len(z) \in Nat /\ Number(T) \in Nat /\ Number(t) \in Nat /\ Number(D) \in Nat
         /\ Version(D) /\ Later(T, D)
         /\ \A k \in 0..Len(z) : Version(C[k]) /\ Newer(T, C[k])
<1>1. Len(z) \in Nat /\ Len(z) \in 0..Len(z)
  BY DEF Told
<1>2. \A k \in 0..Len(z) : Version(C[k]) /\ Later(T, C[k]) /\ Newer(T, C[k])
  BY <1>1, RunsAre DEF Told
<1>3. Version(D) /\ Later(T, D)
  BY <1>1, <1>2 DEF Told
<1>4. Number(t) \in Nat
  <2>1. t[Root] \in Node
    BY Trees, Paths DEF Told
  <2>. QED  BY <2>1, Fields DEF Number
<1>. QED  BY <1>1, <1>2, <1>3, <1>4, VersionIs

\* The last packet of a log.
LEMMA LogLast ==
  ASSUME NEW Q, NEW W, NEW c, NEW T, NEW sn, Log(Q, W, c, T, sn), NEW N, N = Len(Q)
  PROVE  /\ N \in Nat /\ N >= 1 /\ N \in 1..N /\ Version(T)
         /\ LogPacket(Q[N], W[N], sn) /\ End(Q[N], W[N]) = T /\ Q[N].cookie = c /\ Q[N].t = Number(T)
  BY DEF Log

\* The packet q gets the stanzas z, and may have another number to follow.
LEMMA RecastMore ==
  ASSUME NEW q, NEW V, NEW sn, LogPacket(q, V, sn), NEW T, T = End(q, V),
         NEW t, NEW z, NEW C, NEW D, Told(T, t, z, C, D),
         NEW r \in Packets, r.body = q.body \o z, q.l <= r.l,
         NEW U, \A k \in 0..Len(q.body) : U[k] = V[k],
         \A k \in 0..Len(z) : U[Len(q.body) + k] = C[k]
  PROVE  Recast(T, q, V, r, U) /\ End(r, U) = D
<1>1. /\ q.body \in Seq(Stanza) /\ Len(q.body) \in Nat /\ q.l \in Nat /\ Version(T)
  BY LogPacketIs
<1>2. PICK m, n \in Nat : m = Len(q.body) /\ n = Len(z)
  BY <1>1, ToldIs
<1>3. z \in Seq(Stanza) /\ C[0] = T /\ C[n] = D
  BY <1>2 DEF Told
<1>4. /\ Len(r.body) = m + n
      /\ \A k \in 1..m : k \in 1..(m + n) /\ r.body[k] = q.body[k]
  BY <1>1, <1>2, <1>3
<1>5. r.l \in Nat
  BY DEF Packets
<1>6. End(r, U) = D
  <2>1. n \in 0..n
    OBVIOUS
  <2>. QED  BY <1>2, <1>3, <1>4, <2>1 DEF End
<1>7. U[0] = V[0]
  BY <1>2
<1>8. Number(T) \in Nat /\ Number(D) \in Nat /\ Number(T) <= Number(D)
  BY <1>1, ToldIs DEF Later
<1>9. ASSUME NEW l \in Nat, NEW E, Link(l, E, q, V)
      PROVE  Link(l, E, r, U)
  <2>1. l <= q.l /\ Later(E, V[0])
    BY <1>9 DEF Link
  <2>2. l <= r.l /\ (r.l = l => q.l = l /\ r.l = q.l)
    BY <1>1, <1>5, <2>1
  <2>3. ASSUME Notice(q, V), r.l = q.l
        PROVE  Notice(r, U)
    <3>1. CASE Number(V[0]) >= q.l
      BY <1>7, <2>3, <3>1 DEF Notice
    <3>2. CASE Number(End(q, V)) > q.l
      <4>1. Number(D) > r.l
        BY <1>1, <1>8, <2>3, <3>2
      <4>. QED  BY <1>6, <4>1 DEF Notice
    <3>3. CASE \E k \in 1..m : q.body[k].num = q.l
      BY <1>4, <2>3, <3>3 DEF Notice
    <3>. QED  BY <1>2, <2>3, <3>1, <3>2, <3>3 DEF Notice
  <2>. QED  BY <1>7, <1>9, <2>1, <2>2, <2>3 DEF Link
<1>10. ASSUME NEW k \in 0..(m + n)
       PROVE  (\E j \in 0..m : U[k] = V[j]) \/ Newer(T, U[k])
  <2>1. CASE k <= m
    <3>1. k \in 0..m
      BY <2>1
    <3>. QED  BY <1>2, <3>1
  <2>2. CASE ~(k <= m)
    <3>1. k - m \in 0..n /\ m + (k - m) = k
      BY <2>2
    <3>2. U[k] = C[k - m]
      BY <1>2, <3>1
    <3>3. Newer(T, C[k - m])
      BY <1>1, <1>2, <3>1, ToldIs
    <3>. QED  BY <3>2, <3>3
  <2>. QED  BY <2>1, <2>2
<1>. QED  BY <1>2, <1>4, <1>6, <1>9, <1>10 DEF Recast

\* R is Q but for what comes from N on, and r is a packet that is sent when
\* the tree is D.
Before(Q, R, N) == \A i \in 1..N : i < N => R[i] = Q[i]
Newest(r, c, D, sm) ==
  /\ r \in Packets /\ r.cookie = c /\ r.t = Number(D) /\ r.d = D[Root].dseq
  /\ r.s = Number(D) => Seen(D, Root) \in sm

\* The stanzas go into the packet that is being filled.
Extends(Q, R, z, N, r) ==
  /\ Len(R) = N /\ Before(Q, R, N) /\ R[N] = r
  /\ r.body = Q[N].body \o z /\ Q[N].l <= r.l /\ r.l <= r.t

LEMMA LogExtend ==
  ASSUME NEW Q, NEW W, NEW c, NEW T, NEW sn, Log(Q, W, c, T, sn), NEW N, N = Len(Q),
         NEW t, NEW z, NEW C, NEW D, Told(T, t, z, C, D), NEW sm, sn \subseteq sm,
         NEW R, NEW r, Newest(r, c, D, sm), Extends(Q, R, z, N, r)
  PROVE  \E X : Log(R, X, c, D, sm) /\ Keeps(T, c, Q, W, R, X)
<1>0. /\ Len(R) = N /\ \A i \in 1..N : i < N => R[i] = Q[i]
      /\ r \in Packets /\ R[N] = r /\ r.cookie = c /\ r.body = Q[N].body \o z /\ Q[N].l <= r.l /\ r.l <= r.t
      /\ r.t = Number(D) /\ r.d = D[Root].dseq /\ (r.s = Number(D) => Seen(D, Root) \in sm)
  BY DEF Extends, Before, Newest
<1>1. /\ N \in Nat /\ N >= 1 /\ N \in 1..N /\ Version(T)
      /\ LogPacket(Q[N], W[N], sn) /\ End(Q[N], W[N]) = T
  BY LogLast
<1>2. Version(D) /\ Later(T, D) /\ Number(D) \in Nat /\ z \in Seq(Stanza) /\ Runs(C, z) /\ C[0] = T
  BY <1>1, ToldIs DEF Told
<1>3. /\ Q[N].body \in Seq(Stanza) /\ Runs(W[N], Q[N].body) /\ Q[N].l \in Nat /\ r.l \in Nat
      /\ 1 <= Q[N].l /\ W[N][Len(Q[N].body)] = T
  BY <1>0, <1>1, LogPacketIs DEF Packets, LogPacket, End
<1>. DEFINE q == Q[N]
            V == W[N]
<1>10. LogPacket(q, V, sn) /\ T = End(q, V) /\ r.body = q.body \o z /\ q.l <= r.l
  BY <1>0, <1>1
<1>11. Joins(V, q.body, C, z, r.body)
  BY <1>2, <1>3, <1>10 DEF Joins
<1>. HIDE DEF q, V
<1>12. PICK U : Joined(U, V, q.body, C, z, r.body)
  BY <1>11, RunsJoin
<1>4. /\ Runs(U, r.body)
      /\ \A k \in 0..Len(q.body) : U[k] = V[k]
      /\ \A k \in 0..Len(z) : U[Len(q.body) + k] = C[k]
  BY <1>12 DEF Joined
<1>5. Recast(T, q, V, r, U) /\ End(r, U) = D
  BY <1>0, <1>4, <1>10, RecastMore
<1>6. LogPacket(r, U, sm)
  <2>1. 1 <= r.l
    BY <1>0, <1>3
  <2>. QED  BY <1>0, <1>2, <1>4, <1>5, <1>10, <2>1 DEF LogPacket
<1>. DEFINE X == [i \in 1..N |-> IF i = N THEN U ELSE W[i]]
<1>7. X[N] = U /\ \A i \in 1..N : i < N => X[i] = W[i]
  BY <1>1
<1>. HIDE DEF X
<1>8. r.t <= Number(D) /\ Later(End(R[N], X[N]), D)
  BY <1>0, <1>2, <1>5, <1>7, LaterSame
<1>9. Moved(Q, W, c, T, R, X, D, sm, N, N)
  BY <1>0, <1>5, <1>6, <1>7, <1>8 DEF Moved, q, V
<1>. QED  BY <1>2, <1>9, MovedLog

\* The packet gets another number to follow, and no stanzas.
LEMMA RecastNumber ==
  ASSUME NEW q \in Packets, NEW r \in Packets, r.body = q.body, q.l <= r.l, NEW T, NEW V
  PROVE  Recast(T, q, V, r, V)
<1>1. q.l \in Nat /\ r.l \in Nat /\ End(r, V) = End(q, V)
  BY DEF Packets, End
<1>2. ASSUME NEW l \in Nat, NEW E, Link(l, E, q, V)
      PROVE  Link(l, E, r, V)
  <2>1. l <= q.l /\ Later(E, V[0])
    BY <1>2 DEF Link
  <2>2. l <= r.l /\ (r.l = l => q.l = l /\ r.l = q.l)
    BY <1>1, <2>1
  <2>3. Notice(q, V) /\ r.l = q.l => Notice(r, V)
    BY <1>1 DEF Notice
  <2>. QED  BY <1>2, <2>1, <2>2, <2>3 DEF Link
<1>. QED  BY <1>2 DEF Recast

\* The packet is sent, and the stanzas go into the next one.
Splits(Q, R, T, t, z, N, q, r) ==
  /\ Len(R) = N + 1 /\ Before(Q, R, N) /\ R[N] = q /\ R[N + 1] = r
  /\ q.body = Q[N].body /\ Q[N].l <= q.l /\ q.l <= Number(T)
  /\ q \in Packets /\ q.t = Number(t) /\ q.d = t[Root].dseq
  /\ r.body = z /\ r.l = Number(t) /\ 1 <= r.l

LEMMA LogSplit ==
  ASSUME NEW Q, NEW W, NEW c, NEW T, NEW sn, Log(Q, W, c, T, sn), NEW N, N = Len(Q),
         NEW t, NEW z, NEW C, NEW D, Told(T, t, z, C, D), NEW sm, sn \subseteq sm,
         NEW R, NEW q, q.cookie = c, q.s = Number(T) => Seen(T, Root) \in sm,
         NEW r, Newest(r, c, D, sm), Splits(Q, R, T, t, z, N, q, r)
  PROVE  \E X : Log(R, X, c, D, sm) /\ Keeps(T, c, Q, W, R, X)
<1>0. /\ Len(R) = N + 1 /\ \A i \in 1..N : i < N => R[i] = Q[i]
      /\ q \in Packets /\ R[N] = q /\ q.body = Q[N].body /\ Q[N].l <= q.l /\ q.l <= Number(T)
      /\ q.t = Number(t) /\ q.d = t[Root].dseq
      /\ r \in Packets /\ R[N + 1] = r /\ r.cookie = c /\ r.body = z /\ r.l = Number(t) /\ 1 <= r.l
      /\ r.t = Number(D) /\ r.d = D[Root].dseq /\ (r.s = Number(D) => Seen(D, Root) \in sm)
  BY DEF Splits, Before, Newest
<1>1. /\ N \in Nat /\ N >= 1 /\ N \in 1..N /\ Version(T)
      /\ LogPacket(Q[N], W[N], sn) /\ End(Q[N], W[N]) = T /\ Q[N].t = Number(T)
  BY LogLast
<1>2. /\ Version(D) /\ Later(T, D) /\ z \in Seq(Stanza) /\ Runs(C, z) /\ C[0] = T /\ C[Len(z)] = D
      /\ Number(T) \in Nat /\ Number(t) \in Nat /\ Number(D) \in Nat
      /\ Number(T) <= Number(t) /\ Number(t) <= Number(D)
      /\ Number(T) = Number(t) => t[Root].dseq = T[Root].dseq
      /\ \A k \in 0..Len(z) : Newer(T, C[k]) /\ Skips(Number(T), Number(t), C[k])
  BY <1>1, ToldIs DEF Told
<1>. DEFINE X == [i \in 1..(N + 1) |-> IF i = N + 1 THEN C ELSE W[i]]
<1>3. X[N + 1] = C /\ X[N] = W[N] /\ \A i \in 1..N : i < N => X[i] = W[i]
  BY <1>1
<1>. HIDE DEF X
<1>4. End(q, W[N]) = T /\ End(r, C) = D
  BY <1>0, <1>1, <1>2 DEF End
<1>5. LogPacket(q, W[N], sm)
  <2>1. 1 <= Q[N].l /\ Runs(W[N], q.body) /\ Q[N].l \in Nat /\ q.l \in Nat
    BY <1>0, <1>1, LogPacketIs DEF LogPacket, Packets
  <2>2. q.l <= q.t /\ 1 <= q.l
    BY <1>0, <1>1, <1>2, <2>1
  <2>. QED  BY <1>0, <1>2, <1>4, <2>1, <2>2 DEF LogPacket
<1>6. LogPacket(r, C, sm)
  BY <1>0, <1>2, <1>4 DEF LogPacket
<1>7. Recast(T, Q[N], W[N], q, W[N])
  BY <1>0, <1>1, LogPacketIs, RecastNumber
<1>8. Link(q.t, T, r, C)
  <2>1. Later(T, C[0])
    BY <1>1, <1>2, LaterSame
  <2>2. Notice(r, C)
    BY <1>0, <1>2, <1>4 DEF Notice, Told
  <2>. QED  BY <1>0, <1>2, <2>1, <2>2 DEF Link
<1>9. q.t <= Number(D) /\ N + 1 = Len(R)
  BY <1>0, <1>2
<1>10. Moved(Q, W, c, T, R, X, D, sm, N, N + 1)
  BY <1>0, <1>2, <1>3, <1>4, <1>5, <1>6, <1>7, <1>8, <1>9 DEF Moved
<1>. QED  BY <1>2, <1>10, MovedLog

\* Nobody listens, and the empty packet has the tree's number.
LEMMA LogReset ==
  ASSUME NEW Q, NEW W, NEW c, NEW T, NEW sn, Log(Q, W, c, T, sn), NEW N, N = Len(Q),
         Q[N].body = <<>>, Q[N].l = Number(T),
         NEW D, Version(D), Later(T, D), Newer(T, D), NEW sm, sn \subseteq sm,
         NEW R, Len(R) = N, \A i \in 1..N : i < N => R[i] = Q[i],
         NEW r \in Packets, R[N] = r, r.cookie = c, r.body = <<>>, r.l = Number(D),
         r.t = Number(D), r.d = D[Root].dseq, r.s = Number(D) => Seen(D, Root) \in sm
  PROVE  \E X : Log(R, X, c, D, sm) /\ Keeps(T, c, Q, W, R, X)
<1>1. /\ N \in Nat /\ N >= 1 /\ N \in 1..N /\ Version(T)
      /\ LogPacket(Q[N], W[N], sn) /\ End(Q[N], W[N]) = T
  BY LogLast
<1>. DEFINE U == [k \in 0..0 |-> D]
            X == [i \in 1..N |-> IF i = N THEN U ELSE W[i]]
<1>2. X[N] = U /\ \A i \in 1..N : i < N => X[i] = W[i]
  BY <1>1
<1>3. U[0] = D /\ U \in [0..0 -> Tree]
  BY VersionIs
<1>. HIDE DEF U, X
<1>4. Len(r.body) = 0 /\ End(r, U) = D /\ W[N][0] = T
  BY <1>1, <1>3 DEF End
<1>5. Number(T) \in Nat /\ Number(D) \in Nat /\ Number(T) <= Number(D) /\ (Number(T) = Number(D) => T = D)
      /\ 1 <= Number(T)
  BY <1>1, VersionIs DEF Later, LogPacket
<1>6. LogPacket(r, U, sm)
  <2>1. Runs(U, r.body)
    BY <1>3, <1>4 DEF Runs
  <2>. QED  BY <1>4, <1>5, <2>1 DEF LogPacket
<1>7. ASSUME NEW l \in Nat, NEW E, Version(E), Link(l, E, Q[N], W[N])
      PROVE  Link(l, E, r, U)
  <2>1. l <= Number(T) /\ Later(E, T) /\ (Number(T) = l => T = E)
    BY <1>4, <1>7 DEF Link
  <2>2. Later(E, D)
    BY <1>1, <1>7, <2>1, LaterBoth
  <2>3. l <= Number(D) /\ (Number(D) = l => D = E)
    BY <1>5, <2>1
  <2>4. Notice(r, U)
    BY <1>3, <1>5 DEF Notice
  <2>. QED  BY <1>3, <2>2, <2>3, <2>4 DEF Link
<1>8. Recast(T, Q[N], W[N], r, U)
  <2>1. \A k \in 0..Len(r.body) : Newer(T, U[k])
    BY <1>3, <1>4
  <2>. QED  BY <1>7, <2>1 DEF Recast
<1>9. r.t <= Number(D) /\ Later(End(R[N], X[N]), D)
  BY <1>2, <1>4, <1>5, LaterSame
<1>10. Moved(Q, W, c, T, R, X, D, sm, N, N)
  BY <1>2, <1>4, <1>6, <1>8, <1>9 DEF Moved
<1>. QED  BY <1>10, MovedLog

\* A packet is taken from the log.
LEMMA LogTail ==
  ASSUME NEW Q, NEW W, NEW c, NEW T, NEW sn, Log(Q, W, c, T, sn), NEW N, N = Len(Q), N >= 2,
         NEW R, Len(R) = N - 1, \A i \in 1..(N - 1) : R[i] = Q[i + 1]
  PROVE  \E X : /\ Log(R, X, c, T, sn)
                /\ \A i \in 2..N : \A l, E, a, b : Follows(l, E, a, b, Q, W, i) => Follows(l, E, a, b, R, X, i - 1)
<1>1. /\ N \in Nat /\ N >= 1 /\ N \in 1..N /\ Version(T)
  BY LogLast
<1>. DEFINE X == [i \in 1..(N - 1) |-> W[i + 1]]
<1>2. \A i \in 1..(N - 1) : X[i] = W[i + 1] /\ R[i] = Q[i + 1]
  OBVIOUS
<1>. HIDE DEF X
<1>3. ASSUME NEW i \in 2..N, NEW l, NEW E, NEW a, NEW b, Follows(l, E, a, b, Q, W, i)
      PROVE  Follows(l, E, a, b, R, X, i - 1)
  <2>1. i - 1 \in 1..(N - 1) /\ (i - 1) + 1 = i
    BY <1>1
  <2>2. R[i - 1] = Q[i] /\ X[i - 1] = W[i]
    BY <1>2, <2>1
  <2>3. ASSUME NEW j \in (i - 1)..(N - 1), NEW k \in 0..Len(R[j].body)
        PROVE  Skips(a, b, X[j][k])
    <3>1. j \in 1..(N - 1) /\ j + 1 \in i..N
      BY <1>1
    <3>2. R[j] = Q[j + 1] /\ X[j] = W[j + 1]
      BY <1>2, <3>1
    <3>. QED  BY <1>3, <2>3, <3>1, <3>2 DEF Follows
  <2>. QED  BY <1>3, <2>2, <2>3 DEF Follows
<1>4. ASSUME NEW i \in 1..(N - 1), R[i].cookie = c
      PROVE  /\ LogPacket(R[i], X[i], sn) /\ R[i].t <= Number(T) /\ Later(End(R[i], X[i]), T)
             /\ i < N - 1 => R[i + 1].cookie = c /\ After(R, X, i)
  <2>1. i + 1 \in 1..N /\ R[i] = Q[i + 1] /\ X[i] = W[i + 1]
    BY <1>1, <1>2
  <2>2. /\ LogPacket(Q[i + 1], W[i + 1], sn) /\ Q[i + 1].t <= Number(T) /\ Later(End(Q[i + 1], W[i + 1]), T)
        /\ i + 1 < N => Q[(i + 1) + 1].cookie = c /\ After(Q, W, i + 1)
    BY <1>4, <2>1 DEF Log
  <2>3. ASSUME i < N - 1
        PROVE  R[i + 1].cookie = c /\ After(R, X, i)
    <3>1. i + 1 \in 1..(N - 1) /\ i + 1 < N /\ (i + 1) + 1 \in 2..N /\ ((i + 1) + 1) - 1 = i + 1
      BY <1>1, <2>3
    <3>2. R[i + 1] = Q[(i + 1) + 1]
      BY <1>2, <3>1
    <3>3. Q[(i + 1) + 1].cookie = c /\ After(Q, W, i + 1)
      BY <2>2, <3>1
    <3>4. Follows(Q[i + 1].t, End(Q[i + 1], W[i + 1]), Number(End(Q[i + 1], W[i + 1])), Q[i + 1].t, R, X, i + 1)
      BY <1>3, <3>1, <3>3 DEF After
    <3>. QED  BY <2>1, <3>2, <3>3, <3>4 DEF After
  <2>. QED  BY <2>1, <2>2, <2>3
<1>5. /\ R[N - 1].cookie = c /\ R[N - 1].t = Number(T) /\ End(R[N - 1], X[N - 1]) = T
  <2>1. N - 1 \in 1..(N - 1) /\ (N - 1) + 1 = N
    BY <1>1
  <2>2. R[N - 1] = Q[N] /\ X[N - 1] = W[N]
    BY <1>2, <2>1
  <2>. QED  BY <2>2, LogLast
<1>6. N - 1 \in Nat /\ N - 1 >= 1
  BY <1>1
<1>7. Log(R, X, c, T, sn)
  BY <1>1, <1>4, <1>5, <1>6 DEF Log
<1>. QED  BY <1>3, <1>7

\* A packet is lost, and what it told had a number that will be missed.
LEMMA LogLose ==
  ASSUME NEW Q, NEW W, NEW c, NEW T, NEW sn, Log(Q, W, c, T, sn), Len(Q) >= 2, Q[1].cookie = c,
         NEW l \in Nat, NEW E, Version(E), NEW a, NEW b, Follows(l, E, a, b, Q, W, 1),
         ~(Q[1].l = Q[1].t /\ \E k \in 1..Len(Q[1].body) : Q[1].body[k].num = Q[1].t)
  PROVE  Follows(l, E, a, b, Q, W, 2) /\ Q[2].cookie = c
<1>1. Len(Q) \in Nat /\ 1 \in 1..Len(Q) /\ 1 < Len(Q) /\ 2 \in 1..Len(Q) /\ 1 + 1 = 2
  BY DEF Log
<1>2. /\ LogPacket(Q[1], W[1], sn) /\ Q[2].cookie = c /\ After(Q, W, 1)
  BY <1>1 DEF Log
<1>3. LogPacket(Q[2], W[2], sn)
  BY <1>1, <1>2 DEF Log
<1>. DEFINE F == End(Q[1], W[1])
<1>4. /\ Q[1].l \in Nat /\ Q[1].t \in Nat /\ Q[2].l \in Nat /\ Q[1].l <= Q[1].t
      /\ Version(W[1][0]) /\ Version(F) /\ Later(W[1][0], F) /\ Number(F) <= Q[1].t
      /\ Version(W[2][0])
  <2>1. 0 \in 0..Len(Q[2].body) /\ 0 \in 0..Len(Q[1].body)
    BY <1>2, <1>3, LogPacketIs
  <2>. QED  BY <1>2, <1>3, <2>1, LogPacketIs DEF LogPacket
<1>. HIDE DEF F
<1>5. Link(l, E, Q[1], W[1]) /\ Link(Q[1].t, F, Q[2], W[2])
  BY <1>1, <1>2 DEF Follows, After, F
<1>6. l <= Q[1].l /\ Q[1].t <= Q[2].l /\ Later(E, W[1][0]) /\ Later(F, W[2][0])
  BY <1>5 DEF Link
<1>7. Later(E, F) /\ Later(E, W[2][0])
  BY <1>4, <1>6, LaterBoth
<1>8. ASSUME Q[2].l = l
      PROVE  W[2][0] = E /\ Notice(Q[2], W[2])
  <2>1. Q[1].l = l /\ Q[1].t = l
    BY <1>4, <1>6, <1>8
  <2>2. W[1][0] = E /\ Notice(Q[1], W[1]) /\ W[2][0] = F /\ Notice(Q[2], W[2])
    BY <1>5, <1>8, <2>1 DEF Link
  <2>3. Number(E) >= Q[1].l
    <3>1. ~(Number(F) > Q[1].l)
      BY <1>4, <2>1, VersionIs
    <3>. QED  BY <2>1, <2>2, <3>1 DEF Notice, F
  <2>4. Number(E) = Number(F)
    <3>1. Number(E) \in Nat /\ Number(F) \in Nat /\ Number(E) <= Number(F)
      BY <1>4, <1>7, VersionIs DEF Later
    <3>. QED  BY <1>4, <2>1, <2>3, <3>1
  <2>5. E = F
    BY <1>7, <2>4 DEF Later
  <2>. QED  BY <2>2, <2>5
<1>9. Link(l, E, Q[2], W[2])
  <2>1. l <= Q[2].l
    BY <1>4, <1>6
  <2>. QED  BY <1>7, <1>8, <2>1 DEF Link
<1>10. \A j \in 2..Len(Q) : j \in 1..Len(Q)
  BY <1>1
<1>. QED  BY <1>2, <1>9, <1>10 DEF Follows

\* The log of a server that has just been opened.
LEMMA LogFirst ==
  ASSUME NEW R, NEW M \in Nat, M >= 1, Len(R) = M, NEW c, \A i \in 1..M : i < M => R[i].cookie # c,
         NEW T, Version(T), 1 <= Number(T), NEW sn,
         NEW r \in Packets, R[M] = r, r.cookie = c, r.body = <<>>, r.l = Number(T),
         r.t = Number(T), r.d = T[Root].dseq, r.s = Number(T) => Seen(T, Root) \in sn
  PROVE  \E X : Log(R, X, c, T, sn)
<1>. DEFINE U == [k \in 0..0 |-> T]
            X == [i \in 1..M |-> U]
<1>1. X[M] = U /\ U[0] = T /\ U \in [0..0 -> Tree]
  BY VersionIs
<1>. HIDE DEF U, X
<1>2. Len(r.body) = 0 /\ End(r, U) = T
  BY <1>1 DEF End
<1>3. Number(T) \in Nat
  BY VersionIs
<1>4. LogPacket(r, U, sn)
  <2>1. Runs(U, r.body)
    BY <1>1, <1>2 DEF Runs
  <2>. QED  BY <1>2, <1>3, <2>1 DEF LogPacket
<1>5. \A i \in 1..M : R[i].cookie = c => i = M
  OBVIOUS
<1>6. r.t <= Number(T) /\ Later(T, T)
  BY <1>3, LaterSame
<1>7. Log(R, X, c, T, sn)
  BY <1>1, <1>2, <1>4, <1>5, <1>6 DEF Log
<1>. QED  BY <1>7

-----------------------------------------------------------------------------
(* The server's steps.                                                      *)

PacketOf(c, t, s, body, l) ==
  [cookie |-> c, s |-> s, d |-> t[Root].dseq, n |-> t[Root].nseq, t |-> t[Root].tseq, l |-> l,
   body |-> body]

LEMMA PacketOfIs ==
  ASSUME NEW c \in Nat, NEW t \in Tree, NEW s \in Nat, NEW body \in Seq(Stanza), NEW l \in Nat,
         NEW q, q = PacketOf(c, t, s, body, l)
  PROVE  /\ q \in Packets /\ q.cookie = c /\ q.s = s /\ q.body = body /\ q.l = l
         /\ q.t = Number(t) /\ q.d = t[Root].dseq
<1>1. t[Root] \in Node
  BY Trees, Paths
<1>2. t[Root].dseq \in Nat /\ t[Root].nseq \in Nat /\ t[Root].tseq \in Nat
  BY <1>1, Fields
<1>. QED  BY <1>2 DEF PacketOf, Packets, Number

LEMMA RootFields ==
  ASSUME NEW t \in Tree
  PROVE  t[Root].dseq \in Nat /\ t[Root].nseq \in Nat /\ t[Root].tseq \in Nat
<1>1. t[Root] \in Node
  BY Trees, Paths
<1>. QED  BY <1>1, Fields

LEMMA PacketOfCookie ==
  \A t, s, body, l : Packet(t, s, body, l) = PacketOf(cookie, t, s, body, l)
  BY DEF Packet, PacketOf

LEMMA JoinEmpty ==
  ASSUME NEW x \in Seq(Stanza), NEW z \in Seq(Stanza), NEW long, long = x \o z, long = <<>>
  PROVE  x = <<>> /\ z = <<>>
<1>1. Len(x \o z) = Len(x) + Len(z)
  BY ConcatProperties
<1>2. /\ Len(long) = 0
      /\ x # <<>> => Len(x) \in Nat \ {0}
      /\ z # <<>> => Len(z) \in Nat \ {0}
      /\ Len(x) \in Nat /\ Len(z) \in Nat
  BY EmptySeq, LenProperties
<1>. QED  BY <1>1, <1>2

LEMMA AppendIs ==
  ASSUME NEW X, NEW s \in Seq(X), NEW x \in X
  PROVE  LET a == Append(s, x) IN
         /\ a \in Seq(X) /\ Len(s) \in Nat /\ Len(a) = Len(s) + 1 /\ a[Len(s) + 1] = x
         /\ \A i \in 1..(Len(s) + 1) : i < Len(s) + 1 => a[i] = s[i]
  OBVIOUS

\* The packet that is being filled, as it would be sent.
Filling == PacketOf(cookie, tree, syncseq, out, IF out = <<>> THEN tree[Root].tseq ELSE oldtseq)
Pending == Append(toProxy, Filling)

LogInv(W) ==
  /\ Log(Pending, W, cookie, tree, snaps)
  /\ syncseq <= Number(tree)
  /\ out = <<>> /\ ~passive => oldtseq = Number(tree)

LEMMA FillingIs ==
  ASSUME ServerInv
  PROVE  /\ Filling \in Packets /\ Filling.cookie = cookie /\ Filling.s = syncseq
         /\ Filling.body = out /\ Filling.t = Number(tree) /\ Filling.d = tree[Root].dseq
         /\ Filling.l = IF out = <<>> THEN Number(tree) ELSE oldtseq
<1>1. cookie \in Nat /\ tree \in Tree /\ syncseq \in Nat /\ out \in Seq(Stanza) /\ oldtseq \in Nat
  BY DEF ServerInv
<1>2. tree[Root].tseq \in Nat
  BY <1>1, Trees, Fields, Paths
<1>3. PICK l \in Nat : l = IF out = <<>> THEN tree[Root].tseq ELSE oldtseq
  BY <1>1, <1>2
<1>4. Filling = PacketOf(cookie, tree, syncseq, out, l)
  BY <1>3 DEF Filling
<1>5. l = IF out = <<>> THEN Number(tree) ELSE oldtseq
  BY <1>3 DEF Number
<1>. QED  BY <1>1, <1>4, <1>5, PacketOfIs

LEMMA PendingIs ==
  ASSUME ServerInv, NetInv
  PROVE  /\ Pending \in Seq(Packets) /\ Len(toProxy) \in Nat /\ Len(Pending) = Len(toProxy) + 1
         /\ Pending[Len(toProxy) + 1] = Filling
         /\ \A i \in 1..(Len(toProxy) + 1) : i < Len(toProxy) + 1 => Pending[i] = toProxy[i]
<1>1. toProxy \in Seq(Packets) /\ Filling \in Packets
  BY FillingIs DEF NetInv
<1>. QED  BY <1>1, AppendIs DEF Pending

\* What is known when the server's tree becomes D, and sync_seq_ is s then.
Synced(T, D, s, sm) ==
  /\ s \in Nat /\ s <= Number(D)
  /\ s = Number(T) => Seen(T, Root) \in sm
  /\ s = Number(D) => Seen(D, Root) \in sm

LEMMA SyncedHere ==
  ASSUME ServerInv, NetInv, NEW W, LogInv(W)
  PROVE  Synced(tree, tree, syncseq, snaps) /\ Version(tree) /\ 1 <= Filling.l /\ Filling.l <= Number(tree)
         /\ Number(tree) \in Nat /\ Filling.l \in Nat
<1>1. /\ LogPacket(Filling, W[Len(Pending)], snaps) /\ End(Filling, W[Len(Pending)]) = tree /\ Version(tree)
  BY PendingIs, LogLast DEF LogInv
<1>2. syncseq \in Nat /\ syncseq <= Number(tree)
  BY DEF LogInv, ServerInv
<1>. QED  BY <1>1, <1>2, FillingIs, LogPacketIs, VersionIs DEF Synced, LogPacket

\* The stanzas z go into the buffer, or the buffer is sent before them; last
\* is old_tseq_ as it is then.
Fills(t, z, last) ==
  \/ out' = out \o z /\ oldtseq' = last /\ toProxy' = toProxy
  \/ /\ toProxy' = Append(toProxy, PacketOf(cookie, t, syncseq', out, last))
     /\ oldtseq' = Number(t) /\ out' = z

LEMMA FillsLog ==
  ASSUME ServerInv, NetInv, ServerInv', NEW W, LogInv(W),
         NEW t, NEW z, NEW C, NEW D, Told(tree, t, z, C, D), tree' = D, cookie' = cookie,
         Synced(tree, D, syncseq', snaps'), snaps \subseteq snaps',
         NEW last \in Nat, Filling.l <= last, last <= Number(tree), Fills(t, z, last)
  PROVE  \E X : LogInv(X)' /\ Keeps(tree, cookie, Pending, W, Pending', X)
<1>. DEFINE N == Len(toProxy) + 1
            r == PacketOf(cookie', tree', syncseq', out', IF out' = <<>> THEN tree'[Root].tseq ELSE oldtseq')
<1>1. /\ Version(tree) /\ 1 <= Filling.l /\ Filling.l \in Nat /\ Number(tree) \in Nat /\ Filling.l <= Number(tree)
      /\ cookie \in Nat /\ syncseq' \in Nat /\ out \in Seq(Stanza) /\ out' \in Seq(Stanza) /\ oldtseq' \in Nat
      /\ tree' \in Tree /\ toProxy \in Seq(Packets)
  BY SyncedHere DEF ServerInv, NetInv
<1>2. /\ Version(D) /\ Number(D) \in Nat /\ Number(t) \in Nat /\ Number(tree) <= Number(t) /\ Number(t) <= Number(D)
      /\ t \in Tree /\ z \in Seq(Stanza) /\ (z = <<>> => D = tree)
  <2>1. z = <<>> => Len(z) = 0
    OBVIOUS
  <2>. QED  BY <1>1, <2>1, ToldIs DEF Told
<1>3. /\ r \in Packets /\ r.cookie = cookie /\ r.s = syncseq' /\ r.body = out'
      /\ r.t = Number(D) /\ r.d = D[Root].dseq
      /\ r.l = IF out' = <<>> THEN Number(D) ELSE oldtseq'
  <2>1. tree'[Root].tseq = Number(D)
    BY DEF Number
  <2>2. PICK l \in Nat : l = IF out' = <<>> THEN tree'[Root].tseq ELSE oldtseq'
    BY <1>1, <1>2, <2>1
  <2>3. r = PacketOf(cookie, D, syncseq', out', l)
    BY <2>2
  <2>4. D \in Tree
    BY <1>1
  <2>5. D[Root].dseq \in Nat /\ D[Root].nseq \in Nat /\ D[Root].tseq \in Nat
    BY <2>4, RootFields
  <2>. HIDE DEF r
  <2>. QED  BY <1>1, <2>1, <2>2, <2>3, <2>5 DEF PacketOf, Packets, Number
<1>4. Pending' = Append(toProxy', r)
  BY DEF Pending, Filling
<1>. HIDE DEF r
<1>5. /\ N = Len(Pending) /\ N \in Nat /\ Pending[N] = Filling
      /\ \A i \in 1..N : i < N => Pending[i] = toProxy[i]
  BY PendingIs
<1>6. Log(Pending, W, cookie, tree, snaps) /\ Filling.body = out
      /\ Filling.l = IF out = <<>> THEN Number(tree) ELSE oldtseq
  BY FillingIs DEF LogInv
<1>7. r.s = Number(D) => Seen(D, Root) \in snaps'
  BY <1>3 DEF Synced
<1>8. CASE out' = out \o z /\ oldtseq' = last /\ toProxy' = toProxy
  <2>1. /\ Len(Pending') = N /\ Pending'[N] = r
        /\ \A i \in 1..N : i < N => Pending'[i] = Pending[i]
    <3>1. LET a == Append(toProxy, r) IN
          /\ Len(a) = N /\ a[N] = r /\ \A i \in 1..N : i < N => a[i] = toProxy[i]
      BY <1>1, <1>3, AppendIs
    <3>. QED  BY <1>4, <1>5, <1>8, <3>1
  <2>2. out' = <<>> => out = <<>> /\ z = <<>>
    BY <1>1, <1>2, <1>8, JoinEmpty
  <2>3. Filling.l <= r.l /\ r.l <= r.t
    <3>1. CASE out' = <<>>
      BY <1>1, <1>2, <1>3, <3>1
    <3>2. CASE out' # <<>>
      BY <1>1, <1>2, <1>3, <1>8, <3>2
    <3>. QED  BY <3>1, <3>2
  <2>4. PICK X : Log(Pending', X, cookie, D, snaps') /\ Keeps(tree, cookie, Pending, W, Pending', X)
    <3>. DEFINE Q == Pending
                R == Pending'
    <3>1. Log(Q, W, cookie, tree, snaps) /\ N = Len(Q) /\ Extends(Q, R, z, N, r)
      BY <1>3, <1>5, <1>6, <1>8, <2>1, <2>3 DEF Extends, Before
    <3>2. Newest(r, cookie, D, snaps')
      BY <1>3, <1>7 DEF Newest
    <3>. HIDE DEF Q, R, N
    <3>3. \E X : Log(R, X, cookie, D, snaps') /\ Keeps(tree, cookie, Q, W, R, X)
      BY <3>1, <3>2, LogExtend
    <3>. QED  BY <3>3 DEF Q, R
  <2>5. out' = <<>> => oldtseq' = Number(D)
    <3>. SUFFICES ASSUME out' = <<>>
                  PROVE  oldtseq' = Number(D)
      OBVIOUS
    <3>1. D = tree /\ Filling.l = Number(tree)
      BY <1>2, <1>6, <2>2
    <3>. QED  BY <1>1, <1>8, <3>1
  <2>6. LogInv(X)'
    BY <2>4, <2>5 DEF LogInv, Synced
  <2>. QED  BY <2>4, <2>6
<1>9. CASE /\ toProxy' = Append(toProxy, PacketOf(cookie, t, syncseq', out, last))
           /\ oldtseq' = Number(t) /\ out' = z
  <2>. DEFINE q == PacketOf(cookie, t, syncseq', out, last)
  <2>1. /\ q \in Packets /\ q.cookie = cookie /\ q.s = syncseq' /\ q.body = out /\ q.l = last
        /\ q.t = Number(t) /\ q.d = t[Root].dseq
    <3>1. t[Root].dseq \in Nat /\ t[Root].nseq \in Nat /\ t[Root].tseq \in Nat
      BY <1>2, RootFields
    <3>. QED  BY <1>1, <3>1 DEF PacketOf, Packets, Number
  <2>. HIDE DEF q
  <2>2. /\ Len(Pending') = N + 1 /\ Pending'[N] = q /\ Pending'[N + 1] = r
        /\ \A i \in 1..N : i < N => Pending'[i] = Pending[i]
    <3>1. LET a == Append(toProxy, q) IN
          /\ a \in Seq(Packets) /\ Len(a) = N /\ a[N] = q /\ \A i \in 1..N : i < N => a[i] = toProxy[i]
      BY <1>1, <2>1, AppendIs
    <3>2. \A a \in Seq(Packets) : Len(a) = N =>
            LET b == Append(a, r) IN
            /\ Len(b) = N + 1 /\ b[N + 1] = r /\ \A i \in 1..(N + 1) : i < N + 1 => b[i] = a[i]
      BY <1>3, AppendIs
    <3>3. \A i \in 1..N : i \in 1..(N + 1) /\ i < N + 1
      BY <1>5
    <3>4. N \in 1..N
      BY <1>1
    <3>. QED  BY <1>4, <1>5, <1>9, <3>1, <3>2, <3>3, <3>4 DEF q
  <2>3. r.l = Number(t) /\ 1 <= r.l
    <3>1. z = <<>> => Number(D) = Number(t)
      BY <1>1, <1>2
    <3>2. r.l = Number(t)
      BY <1>3, <1>9, <3>1
    <3>. QED  BY <1>1, <1>2, <3>2
  <2>4. q.s = Number(tree) => Seen(tree, Root) \in snaps'
    BY <2>1 DEF Synced
  <2>5. PICK X : Log(Pending', X, cookie, D, snaps') /\ Keeps(tree, cookie, Pending, W, Pending', X)
    <3>. DEFINE Q == Pending
                R == Pending'
    <3>1. Log(Q, W, cookie, tree, snaps) /\ N = Len(Q) /\ Splits(Q, R, tree, t, z, N, q, r)
      BY <1>3, <1>5, <1>6, <1>9, <2>1, <2>2, <2>3 DEF Splits, Before
    <3>2. Newest(r, cookie, D, snaps')
      BY <1>3, <1>7 DEF Newest
    <3>. HIDE DEF Q, R, N
    <3>3. \E X : Log(R, X, cookie, D, snaps') /\ Keeps(tree, cookie, Q, W, R, X)
      BY <2>1, <2>4, <3>1, <3>2, LogSplit
    <3>. QED  BY <3>3 DEF Q, R
  <2>6. out' = <<>> => oldtseq' = Number(D)
    BY <1>1, <1>2, <1>9
  <2>7. LogInv(X)'
    BY <2>5, <2>6 DEF LogInv, Synced
  <2>. QED  BY <2>5, <2>7
<1>. QED  BY <1>8, <1>9 DEF Fills

\* buffer_transmit_slow().
LEMMA TransmitLog ==
  ASSUME ServerInv, NetInv, ServerInv', NEW W, LogInv(W),
         NEW t, NEW z, NEW C, NEW D, Told(tree, t, z, C, D), z # <<>>, tree' = D, cookie' = cookie,
         Synced(tree, D, syncseq', snaps'), snaps \subseteq snaps',
         NEW full \in BOOLEAN, Transmit(t, syncseq', z, full), passive' = passive, ~hidden'
  PROVE  \E X : LogInv(X)' /\ Keeps(tree, cookie, Pending, W, Pending', X)
<1>1. /\ Version(tree) /\ 1 <= Filling.l /\ Filling.l \in Nat /\ Number(tree) \in Nat /\ Filling.l <= Number(tree)
      /\ passive \in BOOLEAN /\ oldtseq \in Nat
  BY SyncedHere DEF ServerInv
<1>2. CASE ~passive
  <2>1. Filling.l <= oldtseq /\ oldtseq <= Number(tree)
    <3>1. Filling.l = oldtseq
      BY <1>2, FillingIs DEF LogInv
    <3>. QED  BY <1>1, <3>1
  <2>2. Fills(t, z, oldtseq)
    <3>1. CASE full /\ out # <<>>
      <4>1. /\ toProxy' = Append(toProxy, Packet(t, syncseq', out, oldtseq))
            /\ oldtseq' = t[Root].tseq /\ out' = z
        BY <1>2, <3>1 DEF Transmit
      <4>. QED  BY <4>1, PacketOfCookie DEF Fills, Number
    <3>2. CASE ~(full /\ out # <<>>)
      BY <1>2, <3>2 DEF Transmit, Fills
    <3>. QED  BY <3>1, <3>2
  <2>. QED  BY <1>1, <2>1, <2>2, FillsLog
<1>3. CASE passive
  <2>1. out = <<>> /\ UNCHANGED <<out, oldtseq, toProxy>>
    BY <1>3 DEF Transmit
  <2>. DEFINE N == Len(toProxy) + 1
              r == PacketOf(cookie', tree', syncseq', out', IF out' = <<>> THEN tree'[Root].tseq ELSE oldtseq')
  <2>2. /\ Version(D) /\ Number(D) \in Nat /\ Later(tree, D) /\ Newer(tree, D)
    <3>1. Len(z) \in 0..Len(z) /\ C[Len(z)] = D
      BY <1>1, ToldIs DEF Told
    <3>. QED  BY <1>1, <3>1, ToldIs
  <2>3. /\ r \in Packets /\ r.cookie = cookie /\ r.s = syncseq' /\ r.body = <<>>
        /\ r.t = Number(D) /\ r.d = D[Root].dseq /\ r.l = Number(D)
    <3>1. /\ cookie' \in Nat /\ D \in Tree /\ syncseq' \in Nat /\ out' \in Seq(Stanza) /\ out' = <<>>
      BY <2>1 DEF ServerInv
    <3>2. r = PacketOf(cookie', D, syncseq', out', Number(D))
      BY <3>1 DEF Number
    <3>3. D[Root].dseq \in Nat /\ D[Root].nseq \in Nat /\ D[Root].tseq \in Nat
      BY <3>1, RootFields
    <3>. HIDE DEF r
    <3>. QED  BY <2>2, <3>1, <3>2, <3>3 DEF PacketOf, Packets, Number
  <2>4. Pending' = Append(toProxy, r)
    BY <2>1 DEF Pending, Filling
  <2>. HIDE DEF r
  <2>5. /\ N = Len(Pending) /\ Pending[N] = Filling /\ \A i \in 1..N : i < N => Pending[i] = toProxy[i]
    BY PendingIs
  <2>6. /\ Len(Pending') = N /\ Pending'[N] = r /\ \A i \in 1..N : i < N => Pending'[i] = Pending[i]
    <3>1. LET a == Append(toProxy, r) IN
          /\ Len(a) = N /\ a[N] = r /\ \A i \in 1..N : i < N => a[i] = toProxy[i]
      BY <2>3, AppendIs DEF NetInv
    <3>. QED  BY <2>4, <2>5, <3>1
  <2>7. Filling.body = <<>> /\ Filling.l = Number(tree) /\ Log(Pending, W, cookie, tree, snaps)
    BY <2>1, FillingIs DEF LogInv
  <2>8. r.s = Number(D) => Seen(D, Root) \in snaps'
    BY <2>3 DEF Synced
  <2>9. PICK X : Log(Pending', X, cookie, D, snaps') /\ Keeps(tree, cookie, Pending, W, Pending', X)
    BY <2>2, <2>3, <2>5, <2>6, <2>7, <2>8, LogReset, ZenonT(40)
  <2>10. LogInv(X)'
    BY <1>3, <2>9 DEF LogInv, Synced
  <2>. QED  BY <2>9, <2>10
<1>. QED  BY <1>1, <1>2, <1>3

\* Stanzas of the tree as it is.
LEMMA TellingTold ==
  ASSUME NEW T, Version(T), NEW z \in Telling(T)
  PROVE  Told(T, T, z, [k \in 0..Len(z) |-> T], T)
<1>. DEFINE C == [k \in 0..Len(z) |-> T]
<1>1. z \in Seq(Stanza) /\ Len(z) \in Nat /\ T \in Tree /\ Number(T) \in Nat
  BY VersionIs DEF Telling
<1>2. \A k \in 0..Len(z) : C[k] = T
  OBVIOUS
<1>3. C \in [0..Len(z) -> Tree]
  BY <1>1
<1>. HIDE DEF C
<1>4. ASSUME NEW k \in 1..Len(z)
      PROVE  Step(C[k - 1], C[k], z[k])
  <2>1. k - 1 \in 0..Len(z) /\ k \in 0..Len(z)
    BY <1>1
  <2>2. \E n \in Nodes : T[n].open /\ z[k] \in {TreeEvt(T, n), DataEvt(T, n)}
    BY DEF Telling
  <2>. QED  BY <1>2, <2>1, <2>2 DEF Step
<1>5. 0 \in 0..Len(z) /\ Len(z) \in 0..Len(z)
  BY <1>1
<1>6. Runs(C, z)
  BY <1>2, <1>3, <1>4, <1>5 DEF Runs
<1>7. Skips(Number(T), Number(T), T)
  <2>1. \A m \in Nodes : \A x \in Nums(T[m]) : x \in Nat /\ x <= Number(T)
    BY VersionIs DEF Nums
  <2>. QED  BY <1>1, <2>1 DEF Skips
<1>. QED  BY <1>1, <1>2, <1>5, <1>6, <1>7 DEF Told, C

-----------------------------------------------------------------------------
(* What the server's operations say.                                        *)

LEMMA SkipsOne ==
  ASSUME NEW X \in Tree, NEW s \in Nat
  PROVE  Skips(s, s + 1, X)
<1>. SUFFICES ASSUME NEW m \in Nodes, NEW x \in Nums(X[m]), x > s, x <= s + 1
              PROVE  x = s + 1
  BY DEF Skips
<1>1. x \in Nat
  BY NumsNat
<1>. QED  BY <1>1

\* One step, with its stanza; the packet before has the numbers of t.
LEMMA ToldOne ==
  ASSUME NEW T, Version(T), NEW D, NEW e, Step(T, D, e),
         NEW t \in Tree, Number(T) < Number(t), Number(t) <= Number(D), Skips(Number(T), Number(t), D),
         Number(D) > Number(t) \/ e.num = Number(t)
  PROVE  \E C : Told(T, t, <<e>>, C, D)
<1>1. Version(D) /\ D \in Tree /\ e \in Stanza /\ T \in Tree /\ Number(T) \in Nat /\ Number(D) \in Nat
  BY StepIs, VersionIs
<1>2. Number(t) \in Nat
  BY RootFields DEF Number
<1>. DEFINE C == [k \in 0..1 |-> IF k = 0 THEN T ELSE D]
            z == <<e>>
<1>3. C \in [0..1 -> Tree] /\ C[0] = T /\ C[1] = D
  BY <1>1
<1>4. z \in Seq(Stanza) /\ Len(z) = 1 /\ z[1] = e
  BY <1>1
<1>. HIDE DEF C, z
<1>5. Runs(C, z)
  <2>1. \A k \in 1..Len(z) : k = 1
    BY <1>4
  <2>. QED  BY <1>3, <1>4, <2>1 DEF Runs
<1>6. \A k \in 0..Len(z) : Skips(Number(T), Number(t), C[k])
  <2>1. Skips(Number(T), Number(t), T)
    <3>. SUFFICES ASSUME NEW m \in Nodes, NEW x \in Nums(T[m]), x > Number(T)
                  PROVE  FALSE
      BY DEF Skips
    <3>1. x \in Nat /\ x <= Number(T)
      BY VersionIs DEF Nums
    <3>. QED  BY <1>1, <3>1
  <2>2. \A k \in 0..Len(z) : k = 0 \/ k = 1
    BY <1>4
  <2>. QED  BY <1>3, <2>1, <2>2
<1>7. Number(T) <= Number(t) /\ Number(T) # Number(t)
  BY <1>1, <1>2
<1>8. \/ Number(D) > Number(t)
      \/ \E k \in 1..Len(z) : z[k].num = Number(t)
  BY <1>4
<1>9. Told(T, t, z, C, D)
  BY <1>3, <1>4, <1>5, <1>6, <1>7, <1>8 DEF Told
<1>. QED  BY <1>9 DEF z

\* The number of the tree of a server that is there.
LEMMA ServedVersion ==
  ASSUME NEW t, NEW s, Served(t, s)
  PROVE  Version(t) /\ Number(t) = s /\ s \in Nat /\ t \in Tree
  BY ServedBounded DEF Served, Version, Number

\* An operation, that has told of what it has done.
LEMMA OperationLog ==
  ASSUME ServerInv, NetInv, ServerInv', NEW W, LogInv(W),
         NEW t, NEW z, NEW C, NEW D, Told(tree, t, z, C, D), z # <<>>, tree' = D, Number(tree) < Number(D),
         Operation, sameServer, NEW full \in BOOLEAN, Transmit(t, syncseq, z, full), ~hidden'
  PROVE  /\ Later(tree, tree')
         /\ \E X : LogInv(X)' /\ Keeps(tree, cookie, Pending, W, Pending', X)
<1>1. cookie' = cookie /\ syncseq' = syncseq /\ passive' = passive /\ snaps' = snaps
  BY DEF Operation, sameServer
<1>2. Transmit(t, syncseq', z, full)
  BY <1>1
<1>3. /\ Synced(tree, tree, syncseq, snaps) /\ Number(tree) \in Nat /\ Version(tree) /\ syncseq \in Nat
      /\ Number(D) \in Nat
  BY SyncedHere, ToldIs DEF ServerInv
<1>4. Synced(tree, D, syncseq', snaps')
  <2>1. syncseq <= Number(D) /\ syncseq # Number(D)
    BY <1>3 DEF Synced
  <2>. QED  BY <1>1, <1>3, <2>1 DEF Synced
<1>5. Later(tree, tree')
  BY <1>3, ToldIs
<1>6. \E X : LogInv(X)' /\ Keeps(tree, cookie, Pending, W, Pending', X)
  BY <1>1, <1>2, <1>4, TransmitLog
<1>. QED  BY <1>5, <1>6

LEMMA ChangedLog ==
  ASSUME ShapeInv, ServerInv', NEW W, LogInv(W), NEW n \in Nodes, Changed(n), ~hidden'
  PROVE  /\ Later(tree, tree')
         /\ \E X : LogInv(X)' /\ Keeps(tree, cookie, Pending, W, Pending', X)
<1>1. ServerInv /\ NetInv
  BY DEF ShapeInv
<1>2. PICK D : D = tree'
  OBVIOUS
<1>3. /\ tree[n].open /\ Served(tree, sequence) /\ sequence \in Nat
      /\ Valued(tree, D, n, sequence + 1) /\ Served(D, sequence + 1)
  BY <1>1, <1>2, ChangedIs
<1>4. /\ Version(tree) /\ Number(tree) = sequence
      /\ Version(D) /\ Number(D) = sequence + 1 /\ D \in Tree
  BY <1>3, ServedVersion
<1>5. PICK e : e = DataEvt(D, n)
  OBVIOUS
<1>6. e.num = Number(D)
  BY <1>3, <1>4, <1>5 DEF DataEvt, Valued
<1>7. Step(tree, D, e)
  BY <1>3, <1>4, <1>5 DEF Step
<1>8. Skips(Number(tree), Number(D), D)
  BY <1>3, <1>4, SkipsOne
<1>9. Number(tree) < Number(D) /\ Number(D) <= Number(D)
  BY <1>3, <1>4
<1>10. PICK C : Told(tree, D, <<e>>, C, D)
  BY <1>4, <1>6, <1>7, <1>8, <1>9, ToldOne
<1>11. PICK full \in BOOLEAN : Transmit(tree', syncseq, <<DataEvt(tree', n)>>, full)
  BY DEF Changed
<1>12. Transmit(D, syncseq, <<e>>, full)
  BY <1>2, <1>5, <1>11
<1>13. Operation /\ sameServer
  BY DEF Changed
<1>14. PICK z : z = <<e>>
  OBVIOUS
<1>15. z # <<>>
  BY <1>14
<1>. QED  BY <1>1, <1>2, <1>9, <1>10, <1>12, <1>13, <1>14, <1>15, OperationLog

LEMMA ChildAddLog ==
  ASSUME ShapeInv, ServerInv', NEW W, LogInv(W), NEW n \in Nodes, ChildAdd(n), ~hidden'
  PROVE  /\ Later(tree, tree')
         /\ \E X : LogInv(X)' /\ Keeps(tree, cookie, Pending, W, Pending', X)
<1>1. ServerInv /\ NetInv
  BY DEF ShapeInv
<1>2. PICK t, D : t = Added(tree, n, sequence)[1] /\ D = Added(tree, n, sequence)[2]
  OBVIOUS
<1>3. /\ n # Root /\ ~tree[n].open /\ tree[ParentOf(n)].open /\ Served(tree, sequence) /\ sequence \in Nat
      /\ Grown(tree, t, n, sequence + 1, sequence + 2)
      /\ Grown(tree, D, n, sequence + 1, sequence + 3)
      /\ tree' = D /\ Served(t, sequence + 2) /\ Served(D, sequence + 3)
  BY <1>1, <1>2, ChildAddIs
<1>4. /\ Version(tree) /\ Number(tree) = sequence /\ t \in Tree /\ Number(t) = sequence + 2
      /\ Version(D) /\ Number(D) = sequence + 3 /\ D \in Tree
  BY <1>3, ServedVersion
<1>5. PICK e : e = DataEvt(t, n)
  OBVIOUS
<1>6. e = DataEvt(D, n)
  BY <1>3, <1>5 DEF DataEvt, Grown
<1>7. Step(tree, D, e)
  BY <1>3, <1>4, <1>6 DEF Step
<1>8. PICK a, b \in Nat : a = sequence + 1 /\ b = sequence + 3
  BY <1>3
<1>9. \A m \in Nodes : \A x \in Nums(D[m]) : x > Number(tree) => x = a \/ x = b
  <2>1. a > Number(tree) /\ b > a /\ n \in Nodes \ {Root}
    BY <1>3, <1>4, <1>8
  <2>. QED  BY <1>3, <1>4, <1>8, <2>1, GrownLater
<1>10. Skips(Number(tree), Number(t), D)
  <2>1. \A x : (x = a \/ x = b) /\ x <= Number(t) => x = Number(tree) + 1
    BY <1>3, <1>4, <1>8
  <2>. QED  BY <1>9, <2>1 DEF Skips
<1>11. Number(tree) < Number(t) /\ Number(t) <= Number(D) /\ Number(D) > Number(t) /\ Number(tree) < Number(D)
  BY <1>3, <1>4
<1>12. PICK C : Told(tree, t, <<e>>, C, D)
  BY <1>4, <1>7, <1>10, <1>11, ToldOne
<1>13. PICK full \in BOOLEAN : Transmit(t, syncseq, <<e>>, full)
  BY <1>2, <1>5 DEF ChildAdd
<1>14. Operation /\ sameServer
  BY DEF ChildAdd
<1>15. PICK z : z = <<e>>
  OBVIOUS
<1>16. z # <<>>
  BY <1>15
<1>. QED  BY <1>1, <1>3, <1>11, <1>12, <1>13, <1>14, <1>15, <1>16, OperationLog

LEMMA ChainTold ==
  ASSUME NEW t, NEW s \in Nat, NEW w, NEW V, NEW K, CloseChain(t, s, w, V, K), Version(t), Number(t) = s
  PROVE  /\ Told(t, w.first, w.sent, V, w.tree) /\ w.sent # <<>>
         /\ Number(t) < Number(w.tree)
<1>1. /\ K \in Nat /\ K >= 1 /\ V \in [0..K -> Tree]
      /\ V[0] = t /\ V[K] = w.tree /\ w.sent \in Seq(Stanza) /\ Len(w.sent) = K
      /\ \A i \in 0..K : Served(V[i], s + i)
      /\ \A i \in 1..K : CloseStep(V[i - 1], V[i], w.sent[i], s + i)
      /\ w.first \in Tree /\ w.first[Root] = V[1][Root]
  BY DEF CloseChain
<1>2. \A i \in 0..K : Version(V[i]) /\ Number(V[i]) = s + i
  BY <1>1, ServedVersion
<1>3. ASSUME NEW i \in 1..K
      PROVE  Step(V[i - 1], V[i], w.sent[i])
  <2>1. i - 1 \in 0..K /\ Number(V[i - 1]) = s + (i - 1) /\ (s + (i - 1)) + 1 = s + i
    BY <1>1, <1>2
  <2>2. Number(V[i - 1]) + 1 = s + i
    BY <2>1
  <2>. QED  BY <1>1, <2>2 DEF Step
<1>4. Runs(V, w.sent)
  <2>1. Version(V[0])
    BY <1>1
  <2>. QED  BY <1>1, <1>3, <2>1 DEF Runs
<1>5. 1 \in 0..K /\ K \in 0..K /\ 1 \in 1..K
  BY <1>1
<1>6. Number(w.first) = s + 1 /\ Number(w.tree) = s + K
  <2>1. Number(V[1]) = s + 1 /\ Number(V[K]) = s + K
    BY <1>2, <1>5
  <2>2. Number(w.first) = Number(V[1])
    BY <1>1 DEF Number
  <2>. QED  BY <1>1, <2>1, <2>2
<1>7. \A k \in 0..K : Skips(s, s + 1, V[k])
  BY <1>1, SkipsOne
<1>8. w.sent[1].num = s + 1
  <2>1. CloseStep(V[0], V[1], w.sent[1], s + 1)
    BY <1>1, <1>5
  <2>2. PICK c \in Nodes \ {Root} : Shrunk(V[0], V[1], c, s + 1) /\ w.sent[1] = TreeEvt(V[1], ParentOf(c))
    BY <2>1 DEF CloseStep
  <2>3. ParentOf(c) \in Nodes \ {c}
    BY <2>2, WayFacts
  <2>4. V[1][ParentOf(c)].nseq = s + 1
    BY <2>2, <2>3 DEF Shrunk
  <2>. QED  BY <2>2, <2>4 DEF TreeEvt
<1>9. /\ Number(t) <= Number(w.first) /\ Number(w.first) <= Number(w.tree) /\ Number(t) # Number(w.first)
      /\ Number(t) < Number(w.tree)
  BY <1>1, <1>6
<1>10. Told(t, w.first, w.sent, V, w.tree)
  BY <1>1, <1>4, <1>5, <1>6, <1>7, <1>8, <1>9 DEF Told
<1>11. w.sent # <<>>
  <2>1. Len(<<>>) = 0
    OBVIOUS
  <2>. QED  BY <1>1, <2>1
<1>. QED  BY <1>9, <1>10, <1>11

LEMMA ChildCloseLog ==
  ASSUME ShapeInv, ServerInv', NEW W, LogInv(W), NEW n \in Nodes, ChildClose(n), ~hidden'
  PROVE  /\ Later(tree, tree')
         /\ \E X : LogInv(X)' /\ Keeps(tree, cookie, Pending, W, Pending', X)
<1>1. ServerInv /\ NetInv
  BY DEF ShapeInv
<1>2. PICK w : w = Shut(Closing, n)
  OBVIOUS
<1>3. tree' = w.tree /\ Served(tree, sequence) /\ sequence \in Nat
  BY <1>1, <1>2, ChildCloseIs
<1>4. PICK V : CloseChain(tree, sequence, w, V, Len(w.sent))
  BY <1>1, <1>2, ChildCloseIs
<1>5. Version(tree) /\ Number(tree) = sequence
  BY <1>3, ServedVersion
<1>6. /\ Told(tree, w.first, w.sent, V, w.tree) /\ w.sent # <<>>
      /\ Number(tree) < Number(w.tree)
  BY <1>3, <1>4, <1>5, ChainTold
<1>7. PICK full \in BOOLEAN : Transmit(w.first, syncseq, w.sent, full)
  BY <1>2 DEF ChildClose
<1>8. Operation /\ sameServer
  BY DEF ChildClose
<1>. QED  BY <1>1, <1>3, <1>6, <1>7, <1>8, OperationLog

LEMMA JobSyncLog ==
  ASSUME ShapeInv, ServerInv', NEW W, LogInv(W), JobSync, ~hidden'
  PROVE  \E X : LogInv(X)' /\ Keeps(tree, cookie, Pending, W, Pending', X)
<1>1. ServerInv /\ NetInv
  BY DEF ShapeInv
<1>2. /\ cookie' = cookie /\ tree' = tree /\ passive' = passive
      /\ syncseq' = Number(tree) /\ snaps' = snaps \cup {Seen(tree, Root)}
  BY DEF JobSync, Number
<1>3. Version(tree) /\ Number(tree) \in Nat /\ tree \in Tree /\ tree[Root].open /\ Root \in Nodes
  BY <1>1, SyncedHere, VersionIs, Paths DEF Standing
<1>4. PICK z : z = <<TreeEvt(tree, Root)>>
  OBVIOUS
<1>5. z \in Telling(tree) /\ z # <<>>
  BY <1>3, <1>4, TellingOne
<1>6. PICK C : Told(tree, tree, z, C, tree)
  BY <1>3, <1>5, TellingTold
<1>7. Synced(tree, tree, syncseq', snaps')
  BY <1>2, <1>3 DEF Synced
<1>8. PICK full \in BOOLEAN : Transmit(tree, syncseq', <<TreeEvt(tree, Root)>>, full)
  BY DEF JobSync
<1>9. Transmit(tree, syncseq', z, full)
  BY <1>4, <1>8
<1>10. snaps \subseteq snaps'
  BY <1>2
<1>. QED  BY <1>1, <1>2, <1>5, <1>6, <1>7, <1>9, <1>10, TransmitLog

LEMMA FlushLog ==
  ASSUME ShapeInv, ServerInv', NEW W, LogInv(W), Flush
  PROVE  \E X : LogInv(X)' /\ Keeps(tree, cookie, Pending, W, Pending', X)
<1>1. ServerInv /\ NetInv
  BY DEF ShapeInv
<1>2. /\ cookie' = cookie /\ tree' = tree /\ passive' = passive /\ syncseq' = syncseq /\ snaps' = snaps
      /\ out # <<>> /\ out' = <<>> /\ oldtseq' = Number(tree)
      /\ toProxy' = Append(toProxy, Packet(tree, syncseq, out, oldtseq))
  BY DEF Flush, history, Number
<1>3. /\ Version(tree) /\ Number(tree) \in Nat /\ tree \in Tree /\ tree[Root].open /\ Root \in Nodes
      /\ Synced(tree, tree, syncseq, snaps) /\ Filling.l <= Number(tree) /\ Filling.l \in Nat
  BY <1>1, SyncedHere, VersionIs, Paths DEF Standing
<1>4. Filling.l = oldtseq
  BY <1>1, <1>2, FillingIs
<1>5. PICK z : z = <<>>
  OBVIOUS
<1>6. PICK C : Told(tree, tree, z, C, tree)
  BY <1>3, <1>5, TellingOne, TellingTold
<1>7. Fills(tree, z, oldtseq)
  BY <1>2, <1>5, PacketOfCookie DEF Fills
<1>8. Synced(tree, tree, syncseq', snaps')
  BY <1>2, <1>3
<1>9. oldtseq \in Nat /\ Filling.l <= oldtseq /\ oldtseq <= Number(tree) /\ snaps \subseteq snaps'
  BY <1>2, <1>3, <1>4
<1>. QED  BY <1>1, <1>2, <1>6, <1>7, <1>8, <1>9, FillsLog

LEMMA ServerReceiveLog ==
  ASSUME ShapeInv, ServerInv', NEW W, LogInv(W), ServerReceive, up
  PROVE  \E X : LogInv(X)' /\ Keeps(tree, cookie, Pending, W, Pending', X)
<1>1. ServerInv /\ NetInv
  BY DEF ShapeInv
<1>2. /\ cookie' = cookie /\ tree' = tree /\ syncseq' = syncseq /\ snaps' = snaps
  BY DEF ServerReceive, history
<1>3. /\ Version(tree) /\ Number(tree) \in Nat /\ tree \in Tree /\ Standing(tree)
      /\ Synced(tree, tree, syncseq, snaps) /\ Filling.l <= Number(tree) /\ Filling.l \in Nat
  BY <1>1, SyncedHere, VersionIs
<1>4. Filling.l = (IF out = <<>> THEN Number(tree) ELSE oldtseq) /\ (out = <<>> /\ ~passive => oldtseq = Number(tree))
  BY <1>1, FillingIs DEF LogInv
<1>5. PICK last : last = IF passive THEN Number(tree) ELSE oldtseq
  OBVIOUS
<1>6. last \in Nat /\ Filling.l <= last /\ last <= Number(tree)
  <2>1. CASE passive
    BY <1>3, <1>5, <2>1
  <2>2. CASE ~passive
    <3>1. last = Filling.l
      BY <1>4, <1>5, <2>2
    <3>. QED  BY <1>3, <3>1
  <2>. QED  BY <2>1, <2>2
<1>7. PICK z : z = Answers(tree, Head(toServer))
  OBVIOUS
<1>8. z \in Telling(tree)
  <2>1. Head(toServer) \in Seq(Requests)
    BY <1>1 DEF ServerReceive, NetInv
  <2>. QED  BY <1>3, <1>7, <2>1, AnswersIs
<1>9. PICK C : Told(tree, tree, z, C, tree)
  BY <1>3, <1>8, TellingTold
<1>10. Fills(tree, z, last)
  <2>1. last = IF passive THEN tree[Root].tseq ELSE oldtseq
    BY <1>5 DEF Number
  <2>2. PICK full \in BOOLEAN :
          IF full /\ out # <<>> /\ z # <<>>
            THEN /\ toProxy' = Append(toProxy, Packet(tree, syncseq, out, last))
                 /\ oldtseq' = tree[Root].tseq /\ out' = z
            ELSE out' = out \o z /\ oldtseq' = last /\ UNCHANGED toProxy
    BY <1>7, <2>1 DEF ServerReceive
  <2>3. CASE full /\ out # <<>> /\ z # <<>>
    <3>1. /\ toProxy' = Append(toProxy, Packet(tree, syncseq, out, last))
          /\ oldtseq' = tree[Root].tseq /\ out' = z
      BY <2>2, <2>3
    <3>. QED  BY <1>2, <3>1, PacketOfCookie DEF Fills, Number
  <2>4. CASE ~(full /\ out # <<>> /\ z # <<>>)
    BY <2>2, <2>4 DEF Fills
  <2>. QED  BY <2>3, <2>4
<1>11. Synced(tree, tree, syncseq', snaps') /\ snaps \subseteq snaps'
  BY <1>2, <1>3
<1>. QED  BY <1>1, <1>2, <1>6, <1>9, <1>10, <1>11, FillsLog

LEMMA SameKeeps ==
  ASSUME NEW T, NEW c, NEW Q, NEW W
  PROVE  Keeps(T, c, Q, W, Q, W)
  BY DEF Keeps

\* Nothing is said.
LEMMA SameLog ==
  ASSUME NEW W, LogInv(W), UNCHANGED <<cookie, tree, syncseq, out, oldtseq, toProxy, snaps>>,
         passive' = passive \/ passive'
  PROVE  LogInv(W)' /\ Pending' = Pending
<1>1. Pending' = Pending
  BY DEF Pending, Filling
<1>. QED  BY <1>1 DEF LogInv

\* A server that has been opened has said nothing.
LEMMA ServerOpenLog ==
  ASSUME ShapeInv, ServerInv', ServerOpen, \A i \in DOMAIN toProxy : toProxy[i].cookie <= cookie
  PROVE  \E X : LogInv(X)'
<1>1. ServerInv /\ NetInv
  BY DEF ShapeInv
<1>2. /\ cookie' = cookie + 1 /\ cookie \in Nat /\ syncseq' = 0 /\ passive' /\ out' = <<>> /\ oldtseq' = 0
      /\ toProxy' = toProxy /\ snaps' = {} /\ toProxy \in Seq(Packets)
      /\ tree' = Opened[1]
  BY <1>1 DEF ServerOpen, netVars, ServerInv, NetInv
<1>3. PICK T : T = tree'
  OBVIOUS
<1>4. Served(T, Opened[2]) /\ Opened[2] \in Nat /\ Opened[2] > 0
  BY <1>2, <1>3, OpenedIs
<1>5. Version(T) /\ Number(T) = Opened[2] /\ T \in Tree
  BY <1>4, ServedVersion
<1>6. Number(T) \in Nat /\ 1 <= Number(T)
  BY <1>4, <1>5
<1>7. PICK r : r = PacketOf(cookie', T, syncseq', out', Number(T))
  OBVIOUS
<1>8. Pending' = Append(toProxy, r)
  BY <1>2, <1>3, <1>7 DEF Pending, Filling, Number
<1>9. /\ r \in Packets /\ r.cookie = cookie' /\ r.s = 0 /\ r.body = <<>> /\ r.t = Number(T)
      /\ r.d = T[Root].dseq /\ r.l = Number(T)
  <2>1. T[Root].dseq \in Nat /\ T[Root].nseq \in Nat /\ T[Root].tseq \in Nat
    BY <1>5, RootFields
  <2>2. cookie' \in Nat /\ <<>> \in Seq(Stanza)
    BY <1>2
  <2>. QED  BY <1>2, <1>6, <1>7, <2>1, <2>2 DEF PacketOf, Packets, Number
<1>. DEFINE N == Len(toProxy) + 1
            R == Pending'
<1>10. /\ Len(R) = N /\ N \in Nat /\ N >= 1 /\ R[N] = r
       /\ \A i \in 1..N : i < N => R[i].cookie # cookie'
  <2>1. LET a == Append(toProxy, r) IN
        /\ Len(toProxy) \in Nat /\ Len(a) = N /\ a[N] = r
        /\ \A i \in 1..N : i < N => a[i] = toProxy[i]
    BY <1>2, <1>9, AppendIs
  <2>2. \A i \in 1..N : i < N => toProxy[i].cookie # cookie'
    <3>. SUFFICES ASSUME NEW i \in 1..N, i < N
                  PROVE  toProxy[i].cookie # cookie'
      OBVIOUS
    <3>1. i \in 1..Len(toProxy)
      BY <2>1
    <3>2. i \in DOMAIN toProxy /\ toProxy[i] \in Packets
      BY <1>2, <3>1
    <3>3. toProxy[i].cookie <= cookie /\ toProxy[i].cookie \in Nat
      BY <3>2 DEF Packets
    <3>. QED  BY <1>2, <3>3
  <2>. QED  BY <1>8, <2>1, <2>2
<1>. HIDE DEF N, R
<1>11. r.s = Number(T) => Seen(T, Root) \in snaps'
  BY <1>6, <1>9
<1>12. PICK X : Log(R, X, cookie', T, snaps')
  BY <1>5, <1>6, <1>9, <1>10, <1>11, LogFirst
<1>13. syncseq' <= Number(T)
  BY <1>2, <1>6
<1>14. LogInv(X)'
  BY <1>2, <1>3, <1>12, <1>13 DEF LogInv, R
<1>. QED  BY <1>14

-----------------------------------------------------------------------------
(* What holds of packets and of the proxy whatever is lost.                 *)

\* Who sent the packets of Q, and that their trees had been changed.
Sent(Q, c) == \A i \in 1..Len(Q) : Q[i].cookie \in 1..c /\ Q[i].t >= 1
\* A proxy that has read nothing.
First == ptree = OpenRoot /\ treqs = {Root} /\ dreqs = {Root} /\ head = NoHead /\ ~psync
NetPast == cookie >= 1 /\ Sent(toProxy, cookie)
ProxyPast ==
  /\ pcookie <= cookie
  /\ pup /\ pcookie = 0 => First
  /\ pup /\ pcookie # 0 => head.t >= 1
  /\ psync => pup /\ pcookie # 0 /\ Number(ptree) >= 1
Idle == ~up => out = <<>>
PastInv == NetPast /\ ProxyPast /\ Idle

LEMMA SentMore ==
  ASSUME NEW Q \in Seq(Packets), NEW q \in Packets, NEW c \in Nat, Sent(Q, c), q.cookie = c, c >= 1,
         q.t >= 1
  PROVE  Sent(Append(Q, q), c)
<1>1. PICK R : R = Append(Q, q)
  OBVIOUS
<1>2. /\ Len(Q) \in Nat /\ Len(R) = Len(Q) + 1 /\ R[Len(Q) + 1] = q
      /\ \A i \in 1..(Len(Q) + 1) : i < Len(Q) + 1 => R[i] = Q[i]
  BY <1>1, AppendIs
<1>3. ASSUME NEW i \in 1..Len(R)
      PROVE  R[i].cookie \in 1..c /\ R[i].t >= 1
  <2>1. CASE i = Len(Q) + 1
    BY <1>2, <2>1
  <2>2. CASE i # Len(Q) + 1
    <3>1. i \in 1..Len(Q) /\ R[i] = Q[i]
      BY <1>2, <2>2
    <3>. QED  BY <3>1 DEF Sent
  <2>. QED  BY <2>1, <2>2
<1>. QED  BY <1>1, <1>3 DEF Sent

\* Either nothing is sent, or a packet of this server, or two.
Sends == \/ toProxy' = toProxy
         \/ \E q \in Packets : q.cookie = cookie /\ q.t >= 1 /\ toProxy' = Append(toProxy, q)
         \/ \E q, r \in Packets : /\ q.cookie = cookie /\ q.t >= 1 /\ r.cookie = cookie /\ r.t >= 1
                                  /\ toProxy' = Append(Append(toProxy, q), r)

LEMMA SendsPast ==
  ASSUME ShapeInv, NetPast, Sends, cookie' = cookie
  PROVE  NetPast'
<1>1. toProxy \in Seq(Packets) /\ cookie \in Nat /\ cookie >= 1 /\ Sent(toProxy, cookie)
  BY DEF ShapeInv, NetInv, ServerInv, NetPast
<1>2. CASE toProxy' = toProxy
  BY <1>2 DEF NetPast
<1>3. ASSUME NEW q \in Packets, q.cookie = cookie, q.t >= 1
      PROVE  Sent(Append(toProxy, q), cookie) /\ Append(toProxy, q) \in Seq(Packets)
  BY <1>1, <1>3, SentMore
<1>4. CASE \E q \in Packets : q.cookie = cookie /\ q.t >= 1 /\ toProxy' = Append(toProxy, q)
  BY <1>1, <1>3, <1>4 DEF NetPast
<1>5. CASE \E q, r \in Packets : /\ q.cookie = cookie /\ q.t >= 1 /\ r.cookie = cookie /\ r.t >= 1
                                 /\ toProxy' = Append(Append(toProxy, q), r)
  <2>1. PICK q, r \in Packets : /\ q.cookie = cookie /\ q.t >= 1 /\ r.cookie = cookie /\ r.t >= 1
                                /\ toProxy' = Append(Append(toProxy, q), r)
    BY <1>5
  <2>2. PICK Q : Q = Append(toProxy, q)
    OBVIOUS
  <2>3. Sent(Q, cookie) /\ Q \in Seq(Packets)
    BY <1>3, <2>1, <2>2
  <2>4. Sent(Append(Q, r), cookie)
    BY <1>1, <2>1, <2>3, SentMore
  <2>. QED  BY <1>1, <2>1, <2>2, <2>4 DEF NetPast
<1>. QED  BY <1>2, <1>4, <1>5 DEF Sends

LEMMA PacketSent ==
  ASSUME ServerInv, NEW t \in Tree, Number(t) >= 1, NEW s \in Nat, NEW body \in Seq(Stanza), NEW l \in Nat
  PROVE  LET q == Packet(t, s, body, l) IN q \in Packets /\ q.cookie = cookie /\ q.t >= 1
<1>1. cookie \in Nat
  BY DEF ServerInv
<1>. QED  BY <1>1, PacketIs DEF Number

LEMMA TransmitSends ==
  ASSUME ServerInv, NEW t, NEW k, Served(t, k), k >= 1, NEW s \in Nat, NEW z, NEW full \in BOOLEAN,
         Transmit(t, s, z, full)
  PROVE  Sends
<1>1. t \in Tree /\ Number(t) >= 1
  BY ServedVersion
<1>2. out \in Seq(Stanza) /\ oldtseq \in Nat
  BY DEF ServerInv
<1>3. PICK q : q = Packet(t, s, out, oldtseq)
  OBVIOUS
<1>4. q \in Packets /\ q.cookie = cookie /\ q.t >= 1
  BY <1>1, <1>2, <1>3, PacketSent
<1>5. toProxy' = toProxy \/ toProxy' = Append(toProxy, q)
  BY <1>3 DEF Transmit
<1>. QED  BY <1>4, <1>5 DEF Sends

LEMMA ServerSends ==
  ASSUME ShapeInv, Idle,
         \/ \E n \in Nodes : ChildAdd(n) \/ Changed(n) \/ ChildClose(n)
         \/ JobSync \/ Flush \/ ServerReceive \/ GoPassive \/ ServerClose \/ ServerCrash
  PROVE  Sends /\ cookie' = cookie /\ UNCHANGED proxyVars
<1>1. ServerInv /\ NetInv /\ syncseq \in Nat
  BY DEF ShapeInv, ServerInv
<1>2. ASSUME up
      PROVE  /\ Served(tree, sequence) /\ sequence \in Nat /\ sequence >= 1
             /\ tree \in Tree /\ Number(tree) = sequence
             /\ out \in Seq(Stanza) /\ oldtseq \in Nat
  <2>1. Served(tree, sequence) /\ sequence \in Nat /\ sequence > 0
    BY <1>1, <1>2 DEF ServerInv
  <2>2. sequence >= 1
    BY <2>1
  <2>. QED  BY <1>1, <2>1, <2>2, ServedVersion DEF ServerInv
<1>3. ASSUME NEW n \in Nodes, ChildAdd(n)
      PROVE  Sends
  <2>1. PICK t : t = Added(tree, n, sequence)[1]
    OBVIOUS
  <2>2. Served(t, sequence + 2) /\ sequence \in Nat
    BY <1>1, <1>3, <2>1, ChildAddIs
  <2>3. PICK full \in BOOLEAN : Transmit(t, syncseq, <<DataEvt(t, n)>>, full)
    BY <1>3, <2>1 DEF ChildAdd
  <2>4. sequence + 2 >= 1
    BY <2>2
  <2>. QED  BY <1>1, <2>2, <2>3, <2>4, TransmitSends
<1>4. ASSUME NEW n \in Nodes, Changed(n)
      PROVE  Sends
  <2>1. PICK t : t = tree'
    OBVIOUS
  <2>2. Served(t, sequence + 1) /\ sequence \in Nat
    BY <1>1, <1>4, <2>1, ChangedIs
  <2>3. PICK full \in BOOLEAN : Transmit(t, syncseq, <<DataEvt(t, n)>>, full)
    BY <1>4, <2>1 DEF Changed
  <2>4. sequence + 1 >= 1
    BY <2>2
  <2>. QED  BY <1>1, <2>2, <2>3, <2>4, TransmitSends
<1>5. ASSUME NEW n \in Nodes, ChildClose(n)
      PROVE  Sends
  <2>1. PICK w : w = Shut(Closing, n)
    OBVIOUS
  <2>2. /\ Served(tree, sequence) /\ sequence \in Nat
        /\ \E V : CloseChain(tree, sequence, w, V, Len(w.sent))
    BY <1>1, <1>5, <2>1, ChildCloseIs
  <2>3. PICK V : CloseChain(tree, sequence, w, V, Len(w.sent))
    BY <2>2
  <2>4. Served(V[1], sequence + 1) /\ w.first \in Tree /\ w.first[Root] = V[1][Root]
    BY <2>3 DEF CloseChain
  <2>5. Number(w.first) = sequence + 1
    BY <2>4 DEF Number, Served
  <2>6. PICK full \in BOOLEAN : Transmit(w.first, syncseq, w.sent, full)
    BY <1>5, <2>1 DEF ChildClose
  <2>7. Number(w.first) >= 1 /\ out \in Seq(Stanza) /\ oldtseq \in Nat
    BY <1>1, <2>2, <2>5 DEF ServerInv
  <2>8. PICK q : q = Packet(w.first, syncseq, out, oldtseq)
    OBVIOUS
  <2>9. q \in Packets /\ q.cookie = cookie /\ q.t >= 1
    BY <1>1, <2>4, <2>7, <2>8, PacketSent
  <2>10. toProxy' = toProxy \/ toProxy' = Append(toProxy, q)
    BY <2>6, <2>8 DEF Transmit
  <2>. QED  BY <2>9, <2>10 DEF Sends
<1>6. ASSUME JobSync
      PROVE  Sends
  <2>1. up /\ syncseq' = tree[Root].tseq
    BY <1>6 DEF JobSync
  <2>2. PICK full \in BOOLEAN : Transmit(tree, syncseq', <<TreeEvt(tree, Root)>>, full)
    BY <1>6 DEF JobSync
  <2>3. syncseq' \in Nat
    BY <1>2, <2>1 DEF Number
  <2>. QED  BY <1>1, <1>2, <2>1, <2>2, <2>3, TransmitSends
<1>7. ASSUME Flush
      PROVE  Sends
  <2>1. out # <<>> /\ toProxy' = Append(toProxy, Packet(tree, syncseq, out, oldtseq))
    BY <1>7 DEF Flush
  <2>2. up
    BY <2>1 DEF Idle
  <2>. QED  BY <1>1, <1>2, <2>1, <2>2, PacketSent DEF Sends
<1>8. ASSUME ServerReceive
      PROVE  Sends
  <2>1. CASE ~up
    BY <1>8, <2>1 DEF ServerReceive, Sends
  <2>2. CASE up
    <3>1. PICK last : last = IF passive THEN tree[Root].tseq ELSE oldtseq
      OBVIOUS
    <3>2. toProxy' = toProxy \/ toProxy' = Append(toProxy, Packet(tree, syncseq, out, last))
      BY <1>8, <2>2, <3>1 DEF ServerReceive
    <3>3. last \in Nat
      BY <1>2, <2>2, <3>1 DEF Number
    <3>4. PICK q : q = Packet(tree, syncseq, out, last)
      OBVIOUS
    <3>5. q \in Packets /\ q.cookie = cookie /\ q.t >= 1
      BY <1>1, <1>2, <2>2, <3>3, <3>4, PacketSent
    <3>. QED  BY <3>2, <3>4, <3>5 DEF Sends
  <2>. QED  BY <2>1, <2>2
<1>9. ASSUME ServerClose
      PROVE  Sends
  <2>1. PICK w : w = Ended(Closing)
    OBVIOUS
  <2>2. PICK sent : sent = IF passive THEN out ELSE out \o w.sent
    OBVIOUS
  <2>3. PICK bye : bye = Packet(w.tree, syncseq, <<>>, w.tree[Root].tseq)
    OBVIOUS
  <2>4. PICK q : q = Packet(w.tree, syncseq, sent, oldtseq)
    OBVIOUS
  <2>5. up /\ toProxy' = toProxy \o (IF sent = <<>> THEN <<bye>> ELSE <<q, bye>>)
    BY <1>9, <2>1, <2>2, <2>3, <2>4 DEF ServerClose
  <2>6. w \in Work /\ w.tree[Root].tseq > 0
    <3>1. Closing \in Work /\ Closing.tree = tree
      BY <1>1, <2>5, ClosingIs
    <3>2. Closing.tree[Root].tseq > 0
      BY <1>2, <2>5, <3>1 DEF Number
    <3>. QED  BY <2>1, <3>1, <3>2, EndedWork
  <2>7. w.tree \in Tree /\ w.sent \in Seq(Stanza)
    BY <2>6 DEF Work
  <2>8. w.tree[Root].tseq \in Nat /\ Number(w.tree) >= 1
    BY <2>6, <2>7, RootFields DEF Number
  <2>9. sent \in Seq(Stanza) /\ <<>> \in Seq(Stanza) /\ oldtseq \in Nat
    <3>1. out \o w.sent \in Seq(Stanza)
      BY <1>2, <2>5, <2>7
    <3>. QED  BY <1>2, <2>2, <2>5, <3>1
  <2>10. q \in Packets /\ q.cookie = cookie /\ q.t >= 1
    BY <1>1, <2>4, <2>7, <2>8, <2>9, PacketSent
  <2>11. bye \in Packets /\ bye.cookie = cookie /\ bye.t >= 1
    BY <1>1, <2>3, <2>7, <2>8, <2>9, PacketSent
  <2>12. toProxy \in Seq(Packets)
    BY <1>1 DEF NetInv
  <2>13. toProxy \o <<bye>> = Append(toProxy, bye)
    BY <2>11, <2>12
  <2>14. toProxy \o <<q, bye>> = Append(Append(toProxy, q), bye)
    BY <2>10, <2>11, <2>12
  <2>15. toProxy' = Append(toProxy, bye) \/ toProxy' = Append(Append(toProxy, q), bye)
    BY <2>5, <2>13, <2>14
  <2>. QED  BY <2>10, <2>11, <2>15 DEF Sends
<1>10. ASSUME ServerCrash \/ GoPassive
       PROVE  Sends
  BY <1>10 DEF ServerCrash, GoPassive, netVars, Sends
<1>11. cookie' = cookie /\ UNCHANGED proxyVars
  BY DEF ChildAdd, Changed, ChildClose, Operation, sameServer, JobSync, Flush, ServerReceive, GoPassive,
         ServerClose, ServerCrash, serverGone
<1>. QED  BY <1>3, <1>4, <1>5, <1>6, <1>7, <1>8, <1>9, <1>10, <1>11

\* What the timer does to the proxy.
Checks == /\ pup /\ pup' /\ pcookie' = pcookie /\ Working \in Copy /\ Working' \in Copy /\ ptree' = ptree
          /\ \/ /\ Agreed(Working) /\ treqs' = {} /\ dreqs' = {} /\ head' = [head EXCEPT !.g = head.t]
             \/ /\ \E X, Y \in SUBSET {Root} : treqs' = treqs \cup X /\ dreqs' = dreqs \cup Y
                /\ head' = head /\ psync' = psync

LEMMA TimerChecks ==
  ASSUME ShapeInv, ProxyTimer
  PROVE  UNCHANGED proxyVars \/ noProxy \/ Checks
<1>1. ProxyInv /\ toServer \in Seq(Seq(Requests))
  BY DEF ShapeInv, NetInv
<1>2. CASE UNCHANGED <<proxyVars, toServer>>
  BY <1>2
<1>3. CASE noProxy /\ UNCHANGED toServer
  BY <1>3
<1>4. CASE /\ pup /\ pup' = TRUE /\ pcookie' = pcookie
           /\ \E a, w : /\ a \in Copy /\ Asks(Working, a, {}, {})
                        /\ Put(w) /\ w \in Copy
                        /\ \/ Asks(Working, w, {}, {})
                           \/ w = CheckSync(a, TRUE)
  <2>1. PICK a, w : /\ a \in Copy /\ Asks(Working, a, {}, {})
                    /\ Put(w) /\ w \in Copy
                    /\ \/ Asks(Working, w, {}, {})
                       \/ w = CheckSync(a, TRUE)
    BY <1>4
  <2>2. /\ ptree' = w.t /\ treqs' = w.treqs /\ dreqs' = w.dreqs /\ psync' = w.sync /\ head' = w.h
        /\ Working' \in Copy
    BY <1>1, <2>1, PutIs
  <2>3. Working \in Copy
    BY <1>1, <1>4 DEF ProxyInv
  <2>4. /\ Working.t = ptree /\ Working.treqs = treqs /\ Working.dreqs = dreqs
        /\ Working.sync = psync /\ Working.h = head
    BY WorkingIs
  <2>5. a.t = ptree /\ a.treqs = treqs /\ a.dreqs = dreqs /\ a.sync = psync /\ a.h = head
    BY <2>1, <2>4 DEF Asks
  <2>6. CASE Asks(Working, w, {}, {})
    <3>1. w.t = ptree /\ w.treqs = treqs \cup {} /\ w.dreqs = dreqs \cup {} /\ w.sync = psync /\ w.h = head
      BY <2>4, <2>6 DEF Asks
    <3>2. {} \in SUBSET {Root}
      OBVIOUS
    <3>. QED  BY <1>4, <2>2, <2>3, <3>1, <3>2 DEF Checks
  <2>7. CASE w = CheckSync(a, TRUE)
    <3>1. /\ w.t = ptree
          /\ Agreed(a) => w.treqs = {} /\ w.dreqs = {} /\ w.h = [a.h EXCEPT !.g = a.h.t]
          /\ ~Agreed(a) => \E X, Y \in SUBSET {Root} : Asks(a, w, X, Y)
      BY <2>1, <2>5, <2>7, CheckSyncIs
    <3>2. CASE Agreed(a)
      <4>1. Agreed(Working)
        BY <2>4, <2>5, <3>2 DEF Agreed
      <4>. QED  BY <1>4, <2>2, <2>3, <2>5, <3>1, <3>2, <4>1 DEF Checks
    <3>3. CASE ~Agreed(a)
      <4>1. PICK X, Y \in SUBSET {Root} : Asks(a, w, X, Y)
        BY <3>1, <3>3
      <4>2. w.treqs = treqs \cup X /\ w.dreqs = dreqs \cup Y /\ w.sync = psync /\ w.h = head
        BY <2>5, <4>1 DEF Asks
      <4>. QED  BY <1>4, <2>2, <2>3, <3>1, <4>2 DEF Checks
    <3>. QED  BY <3>2, <3>3
  <2>. QED  BY <2>1, <2>6, <2>7
<1>. QED  BY <1>1, <1>2, <1>3, <1>4, TimerIs

\* What a packet does to it.
Reads(p) ==
  /\ pup /\ pup' /\ pcookie \in {0, p.cookie} /\ p.body # <<>> /\ pcookie' = p.cookie
  /\ Working \in Copy /\ Working' \in Copy
  /\ \E r : /\ r = Heading(Received(Working, p.body), p) /\ r \in Copy
            /\ ptree' = r.t /\ treqs' = r.treqs /\ dreqs' = r.dreqs /\ psync' = r.sync /\ head' = r.h

LEMMA ReceiveReads ==
  ASSUME ShapeInv, ProxyReceive
  PROVE  /\ toProxy # <<>> /\ toProxy' = Tail(toProxy) /\ Head(toProxy) \in Packets
         /\ UNCHANGED <<serverVars, history>>
         /\ (~pup /\ UNCHANGED proxyVars) \/ noProxy \/ Reads(Head(toProxy))
<1>. DEFINE p == Head(toProxy)
<1>1. /\ ProxyInv /\ NetInv /\ toProxy # <<>> /\ toProxy' = Tail(toProxy)
      /\ UNCHANGED <<serverVars, history>>
  BY DEF ShapeInv, ProxyReceive
<1>2. p \in Packets /\ toServer \in Seq(Seq(Requests))
  BY <1>1 DEF NetInv
<1>3. p.body \in Seq(Stanza)
  BY <1>2 DEF Packets
<1>4. CASE ~pup
  BY <1>1, <1>2, <1>4 DEF ProxyReceive
<1>5. CASE pup /\ (pcookie \notin {0, p.cookie} \/ p.body = <<>>)
  BY <1>1, <1>2, <1>5 DEF ProxyReceive
<1>6. CASE pup /\ ~(pcookie \notin {0, p.cookie} \/ p.body = <<>>)
  <2>1. PICK w : w = Heading(Received(Working, p.body), p)
    OBVIOUS
  <2>2. Put(w) /\ pcookie' = p.cookie /\ pup' = pup
    BY <1>6, <2>1 DEF ProxyReceive
  <2>3. Working \in Copy
    BY <1>1, <1>6 DEF ProxyInv
  <2>4. Received(Working, p.body) \in Copy
    BY <1>3, <2>3, ReceivedIs
  <2>5. w \in Copy
    BY <1>2, <2>1, <2>4, HeadingIs DEF Headed
  <2>6. /\ ptree' = w.t /\ treqs' = w.treqs /\ dreqs' = w.dreqs /\ psync' = w.sync /\ head' = w.h
        /\ Working' \in Copy
    BY <1>2, <2>2, <2>5, PutIs
  <2>7. Reads(p)
    BY <1>6, <2>1, <2>2, <2>3, <2>5, <2>6 DEF Reads
  <2>. QED  BY <1>1, <1>2, <2>7
<1>. QED  BY <1>4, <1>5, <1>6

LEMMA NoProxyPast ==
  ASSUME noProxy, cookie' = cookie, cookie >= 1, cookie \in Nat
  PROVE  ProxyPast'
<1>1. pup' = FALSE /\ pcookie' = 0 /\ psync' = FALSE /\ 0 <= cookie'
  BY DEF noProxy
<1>. QED  BY <1>1 DEF ProxyPast

LEMMA SamePast ==
  ASSUME ShapeInv, ProxyPast, UNCHANGED proxyVars, cookie' = cookie \/ cookie' = cookie + 1
  PROVE  ProxyPast'
<1>1. cookie \in Nat /\ pcookie \in Nat
  BY DEF ShapeInv, ServerInv, ProxyInv
<1>2. pcookie <= cookie'
  BY <1>1 DEF ProxyPast
<1>. QED  BY <1>2 DEF ProxyPast, proxyVars, First

LEMMA TailSent ==
  ASSUME NEW Q \in Seq(Packets), Q # <<>>, NEW c, Sent(Q, c)
  PROVE  Sent(Tail(Q), c) /\ Head(Q).cookie \in 1..c /\ Head(Q).t >= 1
<1>1. Len(Q) \in Nat /\ Len(Q) >= 1 /\ Len(Tail(Q)) = Len(Q) - 1
  OBVIOUS
<1>2. \A i \in 1..Len(Tail(Q)) : Tail(Q)[i] = Q[i + 1] /\ i + 1 \in 1..Len(Q)
  BY <1>1
<1>3. Head(Q) = Q[1] /\ 1 \in 1..Len(Q)
  BY <1>1
<1>. QED  BY <1>2, <1>3 DEF Sent

\* The numbers of a header that a proxy in sync has got.
LEMMA ReadsSync ==
  ASSUME NEW p \in Packets, p.t >= 1, Reads(p), ProxyPast
  PROVE  head'.t = p.t /\ (psync' => Number(ptree') >= 1)
<1>1. PICK r : /\ r = Heading(Received(Working, p.body), p) /\ r \in Copy
               /\ ptree' = r.t /\ treqs' = r.treqs /\ dreqs' = r.dreqs /\ psync' = r.sync /\ head' = r.h
  BY DEF Reads
<1>2. PICK v : v = Received(Working, p.body)
  OBVIOUS
<1>3. Working \in Copy /\ p.body \in Seq(Stanza)
  BY DEF Reads, Packets
<1>4. v \in Copy
  BY <1>2, <1>3, ReceivedIs
<1>5. Headed(v, r, p)
  BY <1>1, <1>2, <1>4, HeadingIs
<1>6. r.h.t = p.t /\ r.t = v.t /\ (r.sync = v.sync \/ p.t = v.t[Root].tseq)
  BY <1>5 DEF Headed
<1>7. ASSUME v.sync
      PROVE  Number(v.t) >= 1
  <2>1. Quiet(Working, v)
    BY <1>2, <1>3, <1>7, ReceivedQuiet
  <2>2. Working.sync = psync /\ Working.t = ptree
    BY WorkingIs
  <2>3. Working.sync /\ Number(Working.t) <= Number(v.t) /\ Number(Working.t) >= 1
    BY <2>1, <2>2 DEF Quiet, Number, ProxyPast
  <2>4. Number(Working.t) \in Nat /\ Number(v.t) \in Nat
    BY <1>3, <1>4, RootNumber DEF Number
  <2>. QED  BY <2>3, <2>4
<1>8. ASSUME psync'
      PROVE  Number(ptree') >= 1
  <2>1. r.sync /\ ptree' = v.t
    BY <1>1, <1>6, <1>8
  <2>2. CASE r.sync = v.sync
    BY <1>7, <2>1, <2>2
  <2>3. CASE p.t = v.t[Root].tseq
    BY <2>1, <2>3 DEF Number
  <2>. QED  BY <1>6, <2>2, <2>3
<1>. QED  BY <1>1, <1>6, <1>8

LEMMA ReceivePast ==
  ASSUME ShapeInv, PastInv, ProxyReceive
  PROVE  PastInv'
<1>1. /\ toProxy # <<>> /\ toProxy' = Tail(toProxy) /\ Head(toProxy) \in Packets
      /\ UNCHANGED <<serverVars, history>>
      /\ (~pup /\ UNCHANGED proxyVars) \/ noProxy \/ Reads(Head(toProxy))
  BY ReceiveReads
<1>2. PICK p : p = Head(toProxy)
  OBVIOUS
<1>3. /\ NetPast /\ ProxyPast /\ Idle /\ cookie >= 1 /\ cookie' = cookie /\ cookie \in Nat
      /\ up' = up /\ out' = out
      /\ toProxy \in Seq(Packets)
  BY <1>1 DEF PastInv, NetPast, serverVars, ShapeInv, NetInv, ServerInv
<1>4. Sent(toProxy', cookie) /\ p.cookie \in 1..cookie /\ p.t >= 1
  BY <1>1, <1>2, <1>3, TailSent DEF NetPast
<1>5. ProxyPast'
  <2>1. CASE UNCHANGED proxyVars
    BY <1>3, <2>1, SamePast
  <2>2. CASE noProxy
    BY <1>3, <2>2, NoProxyPast
  <2>3. CASE Reads(p)
    <3>1. head'.t = p.t /\ (psync' => Number(ptree') >= 1)
      BY <1>1, <1>2, <1>3, <1>4, <2>3, ReadsSync
    <3>2. pup' /\ pcookie' = p.cookie
      BY <2>3 DEF Reads
    <3>3. pcookie' <= cookie' /\ pcookie' # 0
      BY <1>3, <1>4, <3>2
    <3>4. Number(ptree)' = Number(ptree')
      BY DEF Number
    <3>. QED  BY <1>4, <3>1, <3>2, <3>3, <3>4 DEF ProxyPast
  <2>. QED  BY <1>1, <1>2, <2>1, <2>2, <2>3
<1>. QED  BY <1>3, <1>4, <1>5 DEF PastInv, NetPast, Idle

LEMMA TickPast ==
  ASSUME ShapeInv, PastInv, Tick
  PROVE  PastInv'
<1>1. /\ UNCHANGED <<serverVars, toProxy, history>> /\ ProxyTimer
  BY DEF Tick
<1>2. NetPast /\ ProxyPast /\ Idle /\ cookie >= 1 /\ cookie' = cookie /\ up' = up /\ out' = out
      /\ cookie \in Nat
  BY <1>1 DEF PastInv, NetPast, serverVars, ShapeInv, ServerInv
<1>3. ProxyPast'
  <2>1. CASE UNCHANGED proxyVars
    BY <1>2, <2>1, SamePast
  <2>2. CASE noProxy
    BY <1>2, <2>2, NoProxyPast
  <2>3. CASE Checks
    <3>1. /\ Working.t = ptree /\ Working.treqs = treqs /\ Working.h = head
      BY WorkingIs
    <3>2. ASSUME Agreed(Working)
          PROVE  pcookie # 0 /\ head.t = Number(ptree)
      <4>1. treqs # {Root} /\ head.t = Number(ptree)
        BY <3>1, <3>2 DEF Agreed, Number
      <4>. QED  BY <1>2, <2>3, <4>1 DEF ProxyPast, First, Checks
    <3>3. CASE /\ Agreed(Working) /\ head' = [head EXCEPT !.g = head.t]
      <4>1. pcookie # 0 /\ Number(ptree) >= 1 /\ head.t >= 1
        BY <1>2, <2>3, <3>2, <3>3 DEF ProxyPast, Checks
      <4>2. head \in Heads
        BY <2>3, <3>1, CopyIs, RecordIs DEF Checks
      <4>3. head'.t = head.t
        BY <3>3, <4>2 DEF Heads
      <4>. QED  BY <1>2, <2>3, <4>1, <4>3 DEF ProxyPast, Checks, Number
    <3>4. CASE /\ \E X, Y \in SUBSET {Root} : treqs' = treqs \cup X /\ dreqs' = dreqs \cup Y
               /\ head' = head /\ psync' = psync
      <4>1. ASSUME First
            PROVE  First'
        BY <2>3, <3>4, <4>1 DEF First, Checks, OpenRoot, NoHead
      <4>. QED  BY <1>2, <2>3, <3>4, <4>1 DEF ProxyPast, Checks, Number
    <3>. QED  BY <2>3, <3>3, <3>4 DEF Checks
  <2>. QED  BY <1>1, <2>1, <2>2, <2>3, TimerChecks
<1>. QED  BY <1>1, <1>2, <1>3 DEF PastInv, NetPast, Idle

LEMMA OpenPast ==
  ASSUME ShapeInv, PastInv, ProxyOpen
  PROVE  PastInv'
<1>1. /\ NetPast /\ ProxyPast /\ Idle /\ UNCHANGED <<serverVars, toProxy, history>>
      /\ pup' = TRUE /\ pcookie' = 0
      /\ ptree' = OpenRoot /\ treqs' = {Root} /\ dreqs' = {Root} /\ psync' = FALSE /\ head' = NoHead
  BY DEF PastInv, ProxyOpen, Put
<1>2. First'
  BY <1>1 DEF First, OpenRoot, NoHead
<1>3. cookie' = cookie /\ cookie >= 1 /\ toProxy' = toProxy /\ up' = up /\ out' = out
  BY <1>1 DEF serverVars, NetPast
<1>4. ProxyPast'
  <2>1. pcookie' <= cookie'
    BY <1>1, <1>3 DEF ShapeInv, ServerInv
  <2>. QED  BY <1>1, <1>2, <2>1 DEF ProxyPast
<1>. QED  BY <1>1, <1>3, <1>4 DEF PastInv, NetPast, Idle

LEMMA LosePast ==
  ASSUME ShapeInv, PastInv, LoseToServer \/ LoseToProxy
  PROVE  PastInv'
<1>1. /\ NetPast /\ ProxyPast /\ Idle /\ UNCHANGED <<serverVars, proxyVars>>
      /\ toProxy' = toProxy \/ (toProxy # <<>> /\ toProxy' = Tail(toProxy))
  BY DEF PastInv, LoseToServer, LoseToProxy
<1>2. /\ cookie' = cookie /\ cookie >= 1 /\ toProxy \in Seq(Packets) /\ Sent(toProxy, cookie)
      /\ up' = up /\ out' = out
  BY <1>1 DEF serverVars, NetPast, ShapeInv, NetInv
<1>3. Sent(toProxy', cookie)
  BY <1>1, <1>2, TailSent
<1>4. ProxyPast'
  BY <1>1, <1>2, SamePast
<1>. QED  BY <1>1, <1>2, <1>3, <1>4 DEF PastInv, NetPast, Idle

LEMMA ServerOpenPast ==
  ASSUME ShapeInv, PastInv, ServerOpen
  PROVE  PastInv'
<1>1. /\ NetPast /\ ProxyPast /\ UNCHANGED proxyVars /\ toProxy' = toProxy /\ cookie' = cookie + 1 /\ up'
      /\ cookie >= 1 /\ cookie \in Nat /\ Sent(toProxy, cookie)
  BY DEF PastInv, ServerOpen, netVars, NetPast, ShapeInv, ServerInv
<1>2. cookie + 1 >= 1 /\ \A x \in 1..cookie : x \in 1..(cookie + 1)
  BY <1>1
<1>3. Sent(toProxy, cookie + 1)
  BY <1>1, <1>2 DEF Sent
<1>4. ProxyPast'
  BY <1>1, SamePast
<1>. QED  BY <1>1, <1>2, <1>3, <1>4 DEF PastInv, NetPast, Idle

LEMMA ServerPast ==
  ASSUME ShapeInv, PastInv,
         \/ \E n \in Nodes : ChildAdd(n) \/ Changed(n) \/ ChildClose(n)
         \/ JobSync \/ Flush \/ ServerReceive \/ GoPassive \/ ServerClose \/ ServerCrash
  PROVE  PastInv'
<1>1. NetPast /\ ProxyPast /\ Idle
  BY DEF PastInv
<1>2. Sends /\ cookie' = cookie /\ UNCHANGED proxyVars
  BY <1>1, ServerSends
<1>3. NetPast'
  BY <1>1, <1>2, SendsPast
<1>4. ProxyPast'
  BY <1>1, <1>2, SamePast
<1>5. Idle'
  <2>1. CASE \E n \in Nodes : ChildAdd(n) \/ Changed(n) \/ ChildClose(n)
    BY <2>1 DEF Idle, ChildAdd, Changed, ChildClose, Operation, sameServer
  <2>2. CASE JobSync \/ GoPassive
    BY <2>2 DEF Idle, JobSync, GoPassive
  <2>3. CASE Flush
    BY <2>3 DEF Idle, Flush
  <2>4. CASE ServerReceive
    BY <1>1, <2>4 DEF Idle, ServerReceive
  <2>5. CASE ServerClose \/ ServerCrash
    BY <2>5 DEF Idle, ServerClose, ServerCrash, serverGone
  <2>. QED  BY <2>1, <2>2, <2>3, <2>4, <2>5
<1>. QED  BY <1>3, <1>4, <1>5 DEF PastInv

LEMMA PastInit ==
  ASSUME Init
  PROVE  PastInv
<1>1. cookie = 1 /\ up = TRUE /\ toProxy = <<>> /\ tree = Opened[1] /\ sequence = Opened[2]
  BY DEF Init
<1>2. Served(tree, sequence) /\ sequence \in Nat /\ sequence > 0
  BY <1>1, OpenedIs
<1>3. Number(tree) = sequence /\ sequence >= 1
  BY <1>2, ServedVersion
<1>4. Sent(toProxy, cookie)
  BY <1>1 DEF Sent
<1>5. CASE Alone
  <2>1. pup = FALSE /\ pcookie = 0 /\ psync = FALSE
    BY <1>5 DEF Alone
  <2>2. ProxyPast
    BY <1>1, <2>1 DEF ProxyPast
  <2>. QED  BY <1>1, <1>4, <2>2 DEF PastInv, NetPast, Idle
<1>6. CASE Connected
  <2>1. pup = TRUE /\ ptree = tree /\ pcookie = 1 /\ head.t = sequence
    BY <1>6 DEF Connected
  <2>2. ProxyPast
    BY <1>1, <1>3, <2>1 DEF ProxyPast
  <2>. QED  BY <1>1, <1>4, <2>2 DEF PastInv, NetPast, Idle
<1>. QED  BY <1>5, <1>6 DEF Init

LEMMA PastNext ==
  ASSUME ShapeInv, PastInv, Next
  PROVE  PastInv'
  BY ServerPast, ServerOpenPast, ReceivePast, OpenPast, LosePast, TickPast DEF Next, Server, Proxy

-----------------------------------------------------------------------------
(* The invariant: there is a log of what is on its way, and the copy that   *)
(* the proxy has follows it.                                                *)

\* The proxy has read what told of S; it knows the numbers up to a, and none
\* between a and mgseq_.
Proxied(W, S, a) ==
  /\ Pending[1].cookie = cookie
  /\ Abreast(Working, S, a, FALSE, head.g = head.l)
  /\ Follows(head.l, S, a, head.g, Pending, W, 1)
  /\ head.t = head.l /\ head.l <= Number(tree) /\ head.g <= head.l /\ Number(S) <= head.t
  /\ Later(S, tree)
  /\ head.t = Number(S) => head.d = S[Root].dseq
  /\ head.s = Number(S) => Seen(S, Root) \in snaps
\* What its clients see.
Shows ==
  psync => /\ TopMost(ptree) /\ Seen(ptree, Root) \in snaps
           /\ Number(ptree) = Number(tree) => Seen(ptree, Root) = Seen(tree, Root)
Follower(W) == pup /\ pcookie = cookie => Shows /\ \E S, a : Proxied(W, S, a)
HistInv == up /\ ~hidden => \E W : LogInv(W) /\ Follower(W)

LEMMA LogCookies ==
  ASSUME NEW Q, NEW W, NEW c, NEW T, NEW sn, Log(Q, W, c, T, sn), Q[1].cookie = c
  PROVE  /\ Version(T) /\ Len(Q) \in Nat /\ Len(Q) >= 1
         /\ \A i \in 1..Len(Q) :
              /\ LogPacket(Q[i], W[i], sn) /\ Q[i].t <= Number(T) /\ Later(End(Q[i], W[i]), T)
              /\ i < Len(Q) => After(Q, W, i)
              /\ \A k \in 0..Len(Q[i].body) : W[i][k] \in Tree
<1>1. /\ Version(T) /\ Len(Q) \in Nat /\ Len(Q) >= 1
      /\ \A i \in 1..Len(Q) : Q[i].cookie = c =>
           /\ LogPacket(Q[i], W[i], sn) /\ Q[i].t <= Number(T) /\ Later(End(Q[i], W[i]), T)
           /\ i < Len(Q) => Q[i + 1].cookie = c /\ After(Q, W, i)
  BY DEF Log
<1>. DEFINE n == Len(Q) - 1
            H == {i \in 0..n : Q[i + 1].cookie = c}
<1>2. n \in Nat /\ 0 \in H
  BY <1>1
<1>3. ASSUME NEW i \in 1..n, i - 1 \in H
      PROVE  i \in H
  <2>1. i - 1 + 1 = i /\ i \in 1..Len(Q) /\ i < Len(Q) /\ i \in 0..n
    BY <1>1
  <2>2. Q[i].cookie = c
    BY <1>3, <2>1
  <2>. QED  BY <1>1, <2>1, <2>2
<1>. HIDE DEF H
<1>4. \A i \in 0..n : i \in H
  BY <1>2, <1>3, UpTo
<1>5. ASSUME NEW i \in 1..Len(Q)
      PROVE  Q[i].cookie = c
  <2>1. i - 1 \in 0..n /\ i - 1 + 1 = i
    BY <1>1
  <2>. QED  BY <1>4, <2>1 DEF H
<1>6. ASSUME NEW i \in 1..Len(Q)
      PROVE  \A k \in 0..Len(Q[i].body) : W[i][k] \in Tree
  <2>1. LogPacket(Q[i], W[i], sn)
    BY <1>1, <1>5
  <2>. QED  BY <2>1, LogPacketIs, VersionIs
<1>. QED  BY <1>1, <1>5, <1>6

\* The numbers of what a proxy has read.
LEMMA AbreastNumbers ==
  ASSUME NEW w, NEW S, NEW c, NEW ag, Abreast(w, S, c, FALSE, ag)
  PROVE  /\ w \in Copy /\ Version(S) /\ Number(S) \in Nat /\ Number(w.t) \in Nat /\ c \in Nat
         /\ w.h \in Heads /\ Number(w.t) <= Number(S)
<1>1. w \in Copy /\ Version(S) /\ Knows(w.t, S, c, w.h.g)
  BY DEF Abreast
<1>2. w.h \in Heads
  BY <1>1, CopyIs, RecordIs
<1>3. Number(w.t) <= Number(S) /\ c \in Nat
  BY <1>1, Paths DEF Knows, Nums, Number
<1>. QED  BY <1>1, <1>2, <1>3, VersionIs, RootNumber DEF Number

\* The server goes on.
LEMMA KeepsFollower ==
  ASSUME NEW W, NEW X, Keeps(tree, cookie, Pending, W, Pending', X), cookie' = cookie,
         Version(tree), Version(tree)', Later(tree, tree'), snaps \subseteq snaps', UNCHANGED proxyVars,
         Len(Pending) \in Nat, Len(Pending) >= 1, Follower(W)
  PROVE  Follower(X)'
<1>. SUFFICES ASSUME pup, pcookie = cookie
              PROVE  Shows' /\ \E S, a : Proxied(X, S, a)'
  BY DEF Follower, proxyVars
<1>1. Shows
  BY DEF Follower
<1>2. PICK S, a : Proxied(W, S, a)
  BY DEF Follower
<1>3. /\ pup' = pup /\ pcookie' = pcookie /\ ptree' = ptree /\ psync' = psync /\ head' = head
      /\ Working' = Working
  BY DEF proxyVars, Working
<1>4. PICK D : D = tree'
  OBVIOUS
<1>5. Version(D) /\ Later(tree, D)
  BY <1>4 DEF Version, Number
<1>6. /\ Working.h = head /\ Working.t = ptree
      /\ Abreast(Working, S, a, FALSE, head.g = head.l)
      /\ head.t = head.l /\ head.l <= Number(tree) /\ head.g <= head.l /\ Number(S) <= head.t
      /\ Later(S, tree) /\ Follows(head.l, S, a, head.g, Pending, W, 1) /\ Pending[1].cookie = cookie
  BY <1>2, WorkingIs DEF Proxied
<1>7. /\ Version(S) /\ Number(S) \in Nat /\ Number(ptree) \in Nat /\ a \in Nat /\ head \in Heads
      /\ Number(ptree) <= Number(S)
  BY <1>6, AbreastNumbers
<1>8. Number(tree) \in Nat /\ Number(D) \in Nat /\ Number(tree) <= Number(D) /\ Number(S) <= Number(tree)
      /\ (Number(tree) = Number(D) => tree = D)
  BY <1>5, <1>6, VersionIs DEF Later
<1>9. head.l \in Nat /\ head.g \in Nat /\ head.g <= Number(tree) /\ head.l <= Number(D)
  BY <1>6, <1>7, <1>8 DEF Heads
<1>10. Pending'[1].cookie = cookie
  BY <1>6 DEF Keeps
<1>11. Follows(head.l, S, a, head.g, Pending', X, 1)
  <2>1. 1 \in 1..Len(Pending)
    OBVIOUS
  <2>. QED  BY <1>6, <1>7, <1>9, <2>1 DEF Keeps
<1>12. Later(S, D)
  BY <1>5, <1>6, <1>7, LaterBoth
<1>13. head.s = Number(S) => Seen(S, Root) \in snaps'
  BY <1>2 DEF Proxied
<1>14. head.t = Number(S) => head.d = S[Root].dseq
  BY <1>2 DEF Proxied
<1>15. Proxied(X, S, a)'
  BY <1>3, <1>4, <1>6, <1>9, <1>10, <1>11, <1>12, <1>13, <1>14 DEF Proxied, Number
<1>16. Shows'
  <2>1. ASSUME psync, Number(ptree) = Number(D)
        PROVE  Seen(ptree, Root) = Seen(D, Root)
    <3>1. Number(tree) = Number(D) /\ Number(ptree) = Number(tree)
      BY <1>7, <1>8, <2>1
    <3>. QED  BY <1>1, <1>8, <2>1, <3>1 DEF Shows
  <2>2. psync => TopMost(ptree) /\ Seen(ptree, Root) \in snaps'
    BY <1>1 DEF Shows
  <2>3. Number(D) = Number(tree)' /\ Number(ptree)' = Number(ptree)
    BY <1>3, <1>4 DEF Number
  <2>4. Seen(D, Root) = Seen(tree', Root)
    BY <1>4
  <2>. QED  BY <1>3, <1>4, <2>1, <2>2, <2>3, <2>4 DEF Shows
<1>. QED  BY <1>15, <1>16

LEMMA PendingLen ==
  ASSUME ShapeInv
  PROVE  Len(Pending) \in Nat /\ Len(Pending) >= 1
<1>1. Len(toProxy) \in Nat /\ Len(Pending) = Len(toProxy) + 1
  BY PendingIs DEF ShapeInv
<1>. QED  BY <1>1

\* An operation of the server, or nothing that it says.
LEMMA ServerHist ==
  ASSUME ShapeInv, ServerInv', up, ~hidden', HistInv, hidden => hidden',
         \/ \E n \in Nodes : ChildAdd(n) \/ Changed(n) \/ ChildClose(n)
         \/ JobSync \/ Flush \/ ServerReceive
  PROVE  HistInv'
<1>1. PICK W : LogInv(W) /\ Follower(W)
  BY DEF HistInv
<1>2. ServerInv /\ NetInv
  BY DEF ShapeInv
<1>3. Version(tree) /\ Number(tree) \in Nat
  BY <1>1, <1>2, SyncedHere
<1>4. CASE \E n \in Nodes : ChildAdd(n) \/ Changed(n) \/ ChildClose(n)
  <2>1. /\ Later(tree, tree')
        /\ \E X : LogInv(X)' /\ Keeps(tree, cookie, Pending, W, Pending', X)
    BY <1>1, <1>4, ChildAddLog, ChangedLog, ChildCloseLog
  <2>2. cookie' = cookie /\ UNCHANGED proxyVars /\ snaps' = snaps /\ up'
    BY <1>4 DEF ChildAdd, Changed, ChildClose, Operation, sameServer
  <2>3. PICK X : LogInv(X)' /\ Keeps(tree, cookie, Pending, W, Pending', X)
    BY <2>1
  <2>4. Version(tree)'
    BY <1>2, <2>2, ServedVersion DEF ServerInv
  <2>5. Follower(X)'
    BY <1>1, <1>3, <2>1, <2>2, <2>3, <2>4, PendingLen, KeepsFollower
  <2>. QED  BY <2>3, <2>5 DEF HistInv
<1>5. CASE JobSync \/ Flush \/ ServerReceive
  <2>1. \E X : LogInv(X)' /\ Keeps(tree, cookie, Pending, W, Pending', X)
    BY <1>1, <1>5, JobSyncLog, FlushLog, ServerReceiveLog
  <2>2. cookie' = cookie /\ UNCHANGED proxyVars /\ snaps \subseteq snaps' /\ tree' = tree
    BY <1>5 DEF JobSync, Flush, ServerReceive, history
  <2>3. PICK X : LogInv(X)' /\ Keeps(tree, cookie, Pending, W, Pending', X)
    BY <2>1
  <2>4. Version(tree)' /\ Later(tree, tree')
    BY <1>3, <2>2, LaterSame DEF Version, Number
  <2>5. Follower(X)'
    BY <1>1, <1>3, <2>2, <2>3, <2>4, PendingLen, KeepsFollower
  <2>. QED  BY <2>3, <2>5 DEF HistInv
<1>. QED  BY <1>4, <1>5

\* Neither the log nor the proxy changes.
LEMMA SameHist ==
  ASSUME ShapeInv, HistInv, UNCHANGED <<cookie, up, tree, syncseq, out, oldtseq, toProxy, snaps, hidden>>,
         passive' = passive \/ passive', UNCHANGED proxyVars
  PROVE  HistInv'
<1>. SUFFICES ASSUME up, ~hidden
              PROVE  \E W : LogInv(W)' /\ Follower(W)'
  BY DEF HistInv
<1>1. PICK W : LogInv(W) /\ Follower(W)
  BY DEF HistInv
<1>2. LogInv(W)' /\ Pending' = Pending
  BY <1>1, SameLog
<1>3. Keeps(tree, cookie, Pending, W, Pending', W)
  BY <1>2, SameKeeps
<1>4. Version(tree)
  BY <1>1, SyncedHere DEF ShapeInv
<1>5. Version(tree)' /\ Later(tree, tree') /\ snaps \subseteq snaps'
  BY <1>4, LaterSame DEF Version, Number
<1>6. Follower(W)'
  BY <1>1, <1>3, <1>4, <1>5, PendingLen, KeepsFollower
<1>. QED  BY <1>2, <1>6

LEMMA ServerOpenHist ==
  ASSUME ShapeInv, ServerInv', PastInv, ServerOpen
  PROVE  HistInv'
<1>1. /\ cookie' = cookie + 1 /\ cookie \in Nat /\ pcookie \in Nat /\ pcookie <= cookie
      /\ UNCHANGED proxyVars /\ Sent(toProxy, cookie)
  BY DEF ServerOpen, ShapeInv, ServerInv, ProxyInv, PastInv, ProxyPast, NetPast
<1>2. \A i \in DOMAIN toProxy : toProxy[i].cookie <= cookie
  <2>1. toProxy \in Seq(Packets)
    BY DEF ShapeInv, NetInv
  <2>2. \A i \in DOMAIN toProxy : i \in 1..Len(toProxy)
    BY <2>1
  <2>. QED  BY <1>1, <2>2 DEF Sent
<1>3. PICK X : LogInv(X)'
  BY <1>2, ServerOpenLog
<1>4. pcookie' # cookie'
  BY <1>1 DEF proxyVars
<1>5. Follower(X)'
  BY <1>4 DEF Follower
<1>. QED  BY <1>3, <1>5 DEF HistInv

\* The first packet is gone.
LEMMA TailPending ==
  ASSUME ShapeInv, toProxy # <<>>, toProxy' = Tail(toProxy), UNCHANGED serverVars
  PROVE  /\ Pending[1] = Head(toProxy) /\ Pending[1] \in Packets
         /\ Len(Pending) \in Nat /\ Len(Pending) >= 2 /\ Len(Pending') = Len(Pending) - 1
         /\ \A i \in 1..(Len(Pending) - 1) : Pending'[i] = Pending[i + 1]
<1>1. ServerInv /\ NetInv /\ toProxy \in Seq(Packets) /\ Filling \in Packets
  BY FillingIs DEF ShapeInv, NetInv
<1>2. Filling' = Filling
  BY DEF Filling, serverVars
<1>3. PICK q : q = Filling
  OBVIOUS
<1>4. Pending = Append(toProxy, q) /\ Pending' = Append(Tail(toProxy), q) /\ q \in Packets
  BY <1>1, <1>2, <1>3 DEF Pending
<1>5. PICK s \in Seq(Packets) : s = toProxy
  BY <1>1
<1>6. s # <<>> /\ Len(s) \in Nat /\ Len(s) >= 1
  BY <1>5
<1>7. /\ Append(s, q)[1] = Head(s) /\ Head(s) \in Packets
      /\ Len(Append(s, q)) = Len(s) + 1 /\ Len(Append(Tail(s), q)) = Len(s)
      /\ \A i \in 1..Len(s) : Append(Tail(s), q)[i] = Append(s, q)[i + 1]
  BY <1>4, <1>6
<1>8. Len(s) + 1 - 1 = Len(s) /\ Len(s) + 1 \in Nat /\ Len(s) + 1 >= 2
  BY <1>6
<1>9. PICK P, R : P = Append(s, q) /\ R = Append(Tail(s), q)
  OBVIOUS
<1>10. /\ P[1] = Head(s) /\ P[1] \in Packets /\ Len(P) = Len(s) + 1 /\ Len(R) = Len(s)
       /\ \A i \in 1..Len(s) : R[i] = P[i + 1]
  BY <1>7, <1>9
<1>11. /\ Len(P) \in Nat /\ Len(P) >= 2 /\ Len(R) = Len(P) - 1 /\ Len(P) - 1 = Len(s)
  BY <1>8, <1>10
<1>12. Pending = P /\ Pending' = R /\ Head(toProxy) = Head(s)
  BY <1>4, <1>5, <1>9
<1>. QED  BY <1>10, <1>11, <1>12

LEMMA LoseHist ==
  ASSUME ShapeInv, HistInv, LoseToProxy
  PROVE  HistInv'
<1>1. /\ toProxy # <<>> /\ toProxy' = Tail(toProxy) /\ UNCHANGED serverVars /\ UNCHANGED proxyVars
      /\ snaps' = snaps
  BY DEF LoseToProxy
<1>2. PICK p : p = Head(toProxy)
  OBVIOUS
<1>3. hidden' = (hidden \/ (p.l = p.t /\ \E i \in DOMAIN p.body : p.body[i].num = p.t))
  BY <1>2 DEF LoseToProxy
<1>4. /\ cookie' = cookie /\ up' = up /\ tree' = tree /\ syncseq' = syncseq /\ out' = out
      /\ passive' = passive /\ oldtseq' = oldtseq
  BY <1>1 DEF serverVars
<1>. SUFFICES ASSUME up, ~hidden'
              PROVE  \E X : LogInv(X)' /\ Follower(X)'
  BY <1>4 DEF HistInv
<1>5. ~hidden /\ hidden \in BOOLEAN
  BY <1>3 DEF ShapeInv, NetInv
<1>6. PICK W : LogInv(W) /\ Follower(W)
  BY <1>5 DEF HistInv
<1>7. /\ Pending[1] = p /\ p \in Packets
      /\ Len(Pending) \in Nat /\ Len(Pending) >= 2 /\ Len(Pending') = Len(Pending) - 1
      /\ \A i \in 1..(Len(Pending) - 1) : Pending'[i] = Pending[i + 1]
  BY <1>1, <1>2, TailPending
<1>8. Log(Pending, W, cookie, tree, snaps)
  BY <1>6 DEF LogInv
<1>9. PICK X : /\ Log(Pending', X, cookie, tree, snaps)
               /\ \A i \in 2..Len(Pending) : \A l, E, a, b :
                    Follows(l, E, a, b, Pending, W, i) => Follows(l, E, a, b, Pending', X, i - 1)
  BY <1>7, <1>8, LogTail
<1>10. LogInv(X)'
  BY <1>1, <1>4, <1>6, <1>9 DEF LogInv, Number
<1>11. ASSUME pup, pcookie = cookie
       PROVE  Shows' /\ \E S, a : Proxied(X, S, a)'
  <2>1. Shows
    BY <1>6, <1>11 DEF Follower
  <2>2. PICK S, a : Proxied(W, S, a)
    BY <1>6, <1>11 DEF Follower
  <2>3. /\ ptree' = ptree /\ psync' = psync /\ head' = head /\ Working' = Working
    BY <1>1 DEF proxyVars, Working
  <2>4. /\ Pending[1].cookie = cookie /\ Follows(head.l, S, a, head.g, Pending, W, 1)
        /\ Abreast(Working, S, a, FALSE, head.g = head.l) /\ Working.h = head
    BY <2>2, WorkingIs DEF Proxied
  <2>5. Version(S) /\ head.l \in Nat
    BY <2>4, AbreastNumbers DEF Heads
  <2>6. ~(p.l = p.t /\ \E k \in 1..Len(p.body) : p.body[k].num = p.t)
    <3>1. DOMAIN p.body = 1..Len(p.body)
      BY <1>7 DEF Packets
    <3>. QED  BY <1>3, <3>1
  <2>7. Follows(head.l, S, a, head.g, Pending, W, 2) /\ Pending[2].cookie = cookie
    <3>1. ~(Pending[1].l = Pending[1].t /\ \E k \in 1..Len(Pending[1].body) : Pending[1].body[k].num = Pending[1].t)
      BY <1>7, <2>6
    <3>2. Pending[1].cookie = cookie /\ Len(Pending) >= 2
      BY <1>7, <2>4
    <3>3. PICK l, b : l = head.l /\ b = head.g
      OBVIOUS
    <3>4. l \in Nat /\ Follows(l, S, a, b, Pending, W, 1)
      BY <2>4, <2>5, <3>3
    <3>5. Follows(l, S, a, b, Pending, W, 2) /\ Pending[2].cookie = cookie
      BY <1>8, <2>5, <3>1, <3>2, <3>4, LogLose
    <3>. QED  BY <3>3, <3>5
  <2>8. Follows(head.l, S, a, head.g, Pending', X, 1)
    <3>1. 2 \in 2..Len(Pending) /\ 2 - 1 = 1
      BY <1>7
    <3>. QED  BY <1>9, <2>7, <3>1
  <2>9. Pending'[1].cookie = cookie
    <3>1. 1 \in 1..(Len(Pending) - 1) /\ 1 + 1 = 2
      BY <1>7
    <3>. QED  BY <1>7, <2>7, <3>1
  <2>10. Proxied(X, S, a)'
    BY <1>1, <1>4, <2>2, <2>3, <2>8, <2>9 DEF Proxied, Number
  <2>11. Shows'
    BY <1>1, <1>4, <2>1, <2>3 DEF Shows, Number
  <2>. QED  BY <2>10, <2>11
<1>12. Follower(X)'
  BY <1>1, <1>4, <1>11 DEF Follower, proxyVars
<1>. QED  BY <1>10, <1>12

\* What the proxy is when it begins to read p, the first packet of the log: V
\* has the trees of p.
Ready(W, p, V, S, a, ag) ==
  /\ Abreast(Working, S, a, FALSE, ag)
  /\ p.l = head.l => V[0] = S /\ (p.l = head.g => ag)
  /\ Later(S, V[0]) /\ head.g <= head.l /\ head.l <= p.l
  /\ \A j \in 1..Len(Pending) : \A k \in 0..Len(Pending[j].body) : Skips(a, head.g, W[j][k])

LEMMA ReadyIs ==
  ASSUME NEW W, LogInv(W), Follower(W), ProxyPast, cookie >= 1, NEW p, p = Pending[1], p.cookie = cookie,
         Working \in Copy, pup, pcookie \in {0, cookie}
  PROVE  \E S, a, ag : Ready(W, p, W[1], S, a, ag)
<1>1. /\ Len(Pending) \in Nat /\ Len(Pending) >= 1 /\ 1 \in 1..Len(Pending)
      /\ \A j \in 1..Len(Pending) :
           /\ LogPacket(Pending[j], W[j], snaps)
           /\ \A k \in 0..Len(Pending[j].body) : W[j][k] \in Tree
  <2>1. Log(Pending, W, cookie, tree, snaps)
    BY DEF LogInv
  <2>2. PICK Q : Q = Pending
    OBVIOUS
  <2>3. Log(Q, W, cookie, tree, snaps) /\ Q[1].cookie = cookie
    BY <2>1, <2>2
  <2>4. /\ Len(Q) \in Nat /\ Len(Q) >= 1
        /\ \A j \in 1..Len(Q) :
             /\ LogPacket(Q[j], W[j], snaps)
             /\ \A k \in 0..Len(Q[j].body) : W[j][k] \in Tree
    BY <2>3, LogCookies
  <2>5. 1 \in 1..Len(Q)
    BY <2>4
  <2>. QED  BY <2>2, <2>4, <2>5
<1>2. Working.t = ptree /\ Working.treqs = treqs /\ Working.dreqs = dreqs /\ Working.h = head
  BY WorkingIs
<1>3. CASE pcookie = cookie
  <2>1. PICK S, a : Proxied(W, S, a)
    BY <1>3 DEF Follower
  <2>2. PICK V : V = W[1]
    OBVIOUS
  <2>3. /\ Abreast(Working, S, a, FALSE, head.g = head.l) /\ head.g <= head.l
        /\ Link(head.l, S, p, V)
        /\ \A j \in 1..Len(Pending) : \A k \in 0..Len(Pending[j].body) : Skips(a, head.g, W[j][k])
    BY <2>1, <2>2 DEF Proxied, Follows
  <2>4. head.l <= p.l /\ Later(S, V[0]) /\ (p.l = head.l => V[0] = S)
    BY <2>3 DEF Link
  <2>5. p.l = head.l => (p.l = head.g => (head.g = head.l))
    OBVIOUS
  <2>6. Ready(W, p, V, S, a, head.g = head.l)
    BY <2>3, <2>4, <2>5 DEF Ready
  <2>. QED  BY <2>2, <2>6
<1>4. CASE pcookie = 0
  <2>1. First
    BY <1>4 DEF ProxyPast
  <2>2. Working.t = OpenRoot /\ Working.treqs = {Root} /\ Working.h.g = 0 /\ head.g = 0 /\ head.l = 0
    BY <1>2, <2>1 DEF First, NoHead
  <2>3. PICK V, S : V = W[1] /\ S = V[0]
    OBVIOUS
  <2>4. LogPacket(p, V, snaps)
    BY <1>1, <2>3
  <2>5. Version(S) /\ 1 <= p.l /\ p.l \in Nat
    BY <2>3, <2>4, LogPacketIs DEF LogPacket, Runs
  <2>6. Abreast(Working, S, 0, FALSE, FALSE) /\ \A X \in Tree : Skips(0, 0, X)
    BY <2>2, <2>5, FirstAbreast
  <2>7. Later(S, S) /\ head.g <= head.l /\ head.l <= p.l /\ p.l # head.l
    BY <2>2, <2>5, LaterSame
  <2>8. Ready(W, p, V, S, 0, FALSE)
    BY <1>1, <2>2, <2>3, <2>6, <2>7 DEF Ready
  <2>. QED  BY <2>3, <2>8
<1>. QED  BY <1>3, <1>4

\* The first packet is read.
LEMMA ReadsFollower ==
  ASSUME ShapeInv, PastInv, NEW W, LogInv(W), Follower(W), toProxy # <<>>, toProxy' = Tail(toProxy),
         UNCHANGED <<serverVars, history>>, NEW p, p = Head(toProxy), Reads(p), p.cookie = cookie,
         NEW X, \A i \in 2..Len(Pending) : \A l, E, a, b :
                  Follows(l, E, a, b, Pending, W, i) => Follows(l, E, a, b, Pending', X, i - 1)
  PROVE  Follower(X)'
<1>1. /\ Pending[1] = p /\ p \in Packets
      /\ Len(Pending) \in Nat /\ Len(Pending) >= 2 /\ Len(Pending') = Len(Pending) - 1
      /\ \A i \in 1..(Len(Pending) - 1) : Pending'[i] = Pending[i + 1]
  BY TailPending
<1>2. /\ Working \in Copy /\ Working' \in Copy /\ pup /\ pcookie \in {0, p.cookie}
  BY DEF Reads
<1>3. ProxyPast /\ cookie >= 1 /\ p.body \in Seq(Stanza) /\ Len(p.body) \in Nat
  BY <1>1 DEF PastInv, NetPast, Packets
<1>4. PICK V : V = W[1]
  OBVIOUS
<1>5. PICK S, a, ag : Ready(W, p, V, S, a, ag)
  BY <1>1, <1>2, <1>3, <1>4, ReadyIs
<1>6. /\ Version(tree) /\ 1 \in 1..Len(Pending) /\ 1 < Len(Pending)
      /\ LogPacket(p, V, snaps) /\ p.t <= Number(tree) /\ Later(End(p, V), tree) /\ After(Pending, W, 1)
      /\ \A j \in 1..Len(Pending) : \A k \in 0..Len(Pending[j].body) : W[j][k] \in Tree
  <2>1. 1 \in 1..Len(Pending) /\ 1 < Len(Pending)
    BY <1>1
  <2>. QED  BY <1>1, <1>4, <2>1, LogCookies DEF LogInv
<1>7. Pending[2].cookie = cookie
  BY <1>1, <1>6 DEF LogInv, Log
<1>8. PICK E : E = V[Len(p.body)]
  OBVIOUS
<1>9. /\ End(p, V) = E /\ Version(E) /\ Number(E) <= p.t /\ p.l <= p.t /\ Runs(V, p.body)
      /\ Number(E) = p.t => p.d = E[Root].dseq
      /\ p.s = Number(E) => Seen(E, Root) \in snaps
      /\ Later(E, tree)
  <2>1. End(p, V) = E
    BY <1>8 DEF End
  <2>. QED  BY <1>6, <2>1, LogPacketIs DEF LogPacket
<1>10. PICK r : /\ r = Heading(Received(Working, p.body), p) /\ r \in Copy
                /\ ptree' = r.t /\ treqs' = r.treqs /\ dreqs' = r.dreqs /\ psync' = r.sync /\ head' = r.h
  BY DEF Reads
<1>11. /\ Abreast(Working, S, a, FALSE, ag)
       /\ p.l = head.l => V[0] = S /\ (p.l = head.g => ag)
       /\ Later(S, V[0]) /\ head.g <= head.l /\ head.l <= p.l
       /\ \A j \in 1..Len(Pending) : \A k \in 0..Len(Pending[j].body) : Skips(a, head.g, W[j][k])
  BY <1>5 DEF Ready
<1>12. Working.h = head /\ Working.t = ptree /\ Working.sync = psync
  BY WorkingIs
<1>13. /\ r.h.l = p.t /\ r.h.t = p.t /\ r.h.s = p.s /\ r.h.d = p.d /\ r.h.g <= p.t
       /\ \E d : /\ Abreast(r, E, d, FALSE, r.h.g = r.h.l)
                 /\ \/ r.h.g = head.g /\ \A Y \in Tree : Skips(a, head.g, Y) => Skips(d, head.g, Y)
                    \/ r.h.g = p.t /\ d = Number(E)
       /\ r.sync => Quiet(Working, r) \/ InStep(r, E, p)
  <2>1. \A k \in 0..Len(p.body) : Skips(a, Working.h.g, V[k])
    BY <1>1, <1>4, <1>6, <1>11, <1>12
  <2>2. Number(V[Len(p.body)]) <= p.t
    BY <1>8, <1>9
  <2>3. /\ p.l = Working.h.l => V[0] = S /\ (p.l = Working.h.g => ag)
        /\ Working.h.g <= Working.h.l /\ Working.h.l <= p.l
    BY <1>11, <1>12
  <2>4. PICK w : w = Working
    OBVIOUS
  <2>5. /\ w \in Copy /\ Abreast(w, S, a, FALSE, ag) /\ r = Heading(Received(w, p.body), p)
        /\ p.l = w.h.l => V[0] = S /\ (p.l = w.h.g => ag)
        /\ w.h.g <= w.h.l /\ w.h.l <= p.l
        /\ \A k \in 0..Len(p.body) : Skips(a, w.h.g, V[k])
    BY <1>2, <1>10, <1>11, <2>1, <2>3, <2>4
  <2>6. /\ p \in Packets /\ Runs(V, p.body) /\ Later(S, V[0]) /\ p.l <= p.t
    BY <1>1, <1>9, <1>11
  <2>7. Begins(w, p, V, S, a, ag)
    BY <2>2, <2>5, <2>6 DEF Begins
  <2>8. Finishes(w, r, p, E, a)
    BY <1>8, <2>5, <2>7, PacketRead
  <2>9. /\ r.h.l = p.t /\ r.h.t = p.t /\ r.h.s = p.s /\ r.h.d = p.d /\ r.h.g <= p.t
        /\ \E d : /\ Abreast(r, E, d, FALSE, r.h.g = r.h.l)
                  /\ \/ r.h.g = w.h.g /\ \A Y \in Tree : Skips(a, w.h.g, Y) => Skips(d, w.h.g, Y)
                     \/ r.h.g = p.t /\ d = Number(E)
        /\ r.sync => Quiet(w, r) \/ InStep(r, E, p)
    BY <2>8 DEF Finishes
  <2>. QED  BY <1>12, <2>4, <2>9
<1>14. PICK d : /\ Abreast(r, E, d, FALSE, r.h.g = r.h.l)
                /\ \/ r.h.g = head.g /\ \A Y \in Tree : Skips(a, head.g, Y) => Skips(d, head.g, Y)
                   \/ r.h.g = p.t /\ d = Number(E)
  BY <1>13
<1>15. /\ Working'.t = r.t /\ Working'.treqs = r.treqs /\ Working'.dreqs = r.dreqs /\ Working'.h = r.h
  BY <1>10 DEF Working
<1>16. Abreast(Working', E, d, FALSE, r.h.g = r.h.l)
  <2>1. PICK u : u = Working'
    OBVIOUS
  <2>2. u \in Copy /\ u.t = r.t /\ r.treqs \subseteq u.treqs /\ r.dreqs \subseteq u.dreqs /\ u.h.g = r.h.g
    BY <1>2, <1>15, <2>1
  <2>. QED  BY <1>14, <2>1, <2>2, AbreastAsks
<1>17. Follows(p.t, E, d, r.h.g, Pending, W, 2)
  <2>1. Follows(p.t, E, Number(E), p.t, Pending, W, 2)
    <3>1. Follows(Pending[1].t, End(Pending[1], W[1]), Number(End(Pending[1], W[1])), Pending[1].t, Pending, W, 1 + 1)
      BY <1>6 DEF After
    <3>2. 1 + 1 = 2 /\ End(Pending[1], W[1]) = E
      BY <1>1, <1>4, <1>9
    <3>. QED  BY <1>1, <3>1, <3>2
  <2>2. CASE r.h.g = p.t /\ d = Number(E)
    BY <2>1, <2>2
  <2>3. CASE r.h.g = head.g /\ \A Y \in Tree : Skips(a, head.g, Y) => Skips(d, head.g, Y)
    <3>1. \A j \in 2..Len(Pending) : j \in 1..Len(Pending)
      BY <1>1
    <3>2. \A j \in 2..Len(Pending) : \A k \in 0..Len(Pending[j].body) : Skips(d, r.h.g, W[j][k])
      BY <1>6, <1>11, <2>3, <3>1
    <3>. QED  BY <2>1, <3>2 DEF Follows
  <2>. QED  BY <1>14, <2>2, <2>3
<1>18. Follows(p.t, E, d, r.h.g, Pending', X, 1)
  <2>1. 2 \in 2..Len(Pending) /\ 2 - 1 = 1
    BY <1>1
  <2>. QED  BY <1>17, <2>1
<1>19. Pending'[1].cookie = cookie
  <2>1. 1 \in 1..(Len(Pending) - 1) /\ 1 + 1 = 2
    BY <1>1
  <2>. QED  BY <1>1, <1>7, <2>1
<1>20. cookie' = cookie /\ tree' = tree /\ snaps' = snaps
  BY DEF serverVars, history
<1>21. Proxied(X, E, d)'
  BY <1>6, <1>9, <1>10, <1>13, <1>16, <1>18, <1>19, <1>20 DEF Proxied, Number
<1>22. Shows'
  <2>1. ASSUME r.sync
        PROVE  /\ TopMost(r.t) /\ Seen(r.t, Root) \in snaps
               /\ Number(r.t) = Number(tree) => Seen(r.t, Root) = Seen(tree, Root)
    <3>1. CASE Quiet(Working, r)
      <4>1. psync
        BY <1>12, <3>1 DEF Quiet
      <4>2. pcookie = cookie
        BY <1>2, <1>3, <4>1 DEF ProxyPast
      <4>3. Shows
        BY <1>2, <4>2 DEF Follower
      <4>4. /\ TopMost(ptree) /\ Seen(ptree, Root) \in snaps
            /\ Number(ptree) = Number(tree) => Seen(ptree, Root) = Seen(tree, Root)
        BY <4>1, <4>3 DEF Shows
      <4>5. TopMost(r.t) /\ Seen(r.t, Root) = Seen(ptree, Root) /\ Number(r.t) = Number(ptree)
        BY <1>12, <3>1, <4>4 DEF Quiet, Number
      <4>. QED  BY <4>4, <4>5
    <3>2. CASE InStep(r, E, p)
      <4>1. /\ p.t = Number(E) /\ p.s = p.t /\ Number(r.t) = p.t /\ TopMost(r.t)
            /\ p.d = E[Root].dseq => Seen(r.t, Root) = Seen(E, Root)
        BY <3>2 DEF InStep, Number
      <4>2. Seen(r.t, Root) = Seen(E, Root) /\ Seen(E, Root) \in snaps
        BY <1>9, <4>1
      <4>3. Number(E) = Number(tree) => E = tree
        BY <1>9 DEF Later
      <4>. QED  BY <4>1, <4>2, <4>3
    <3>. QED  BY <1>13, <2>1, <3>1, <3>2
  <2>2. PICK P : P = r.t
    OBVIOUS
  <2>3. ptree' = P /\ psync' = r.sync
    BY <1>10, <2>2
  <2>. QED  BY <1>20, <2>1, <2>2, <2>3 DEF Shows, Number
<1>. QED  BY <1>21, <1>22 DEF Follower

LEMMA ReceiveHist ==
  ASSUME ShapeInv, PastInv, HistInv, ProxyReceive
  PROVE  HistInv'
<1>1. /\ toProxy # <<>> /\ toProxy' = Tail(toProxy) /\ Head(toProxy) \in Packets
      /\ UNCHANGED <<serverVars, history>>
      /\ (~pup /\ UNCHANGED proxyVars) \/ noProxy \/ Reads(Head(toProxy))
  BY ReceiveReads
<1>2. PICK p : p = Head(toProxy)
  OBVIOUS
<1>3. /\ cookie' = cookie /\ up' = up /\ tree' = tree /\ syncseq' = syncseq /\ out' = out
      /\ passive' = passive /\ oldtseq' = oldtseq /\ snaps' = snaps /\ hidden' = hidden
      /\ UNCHANGED serverVars
  BY <1>1 DEF serverVars, history
<1>. SUFFICES ASSUME up, ~hidden
              PROVE  \E X : LogInv(X)' /\ Follower(X)'
  BY <1>3 DEF HistInv
<1>4. PICK W : LogInv(W) /\ Follower(W)
  BY DEF HistInv
<1>5. /\ Len(Pending) \in Nat /\ Len(Pending) >= 2 /\ Len(Pending') = Len(Pending) - 1
      /\ \A i \in 1..(Len(Pending) - 1) : Pending'[i] = Pending[i + 1]
  BY <1>1, <1>3, TailPending
<1>6. PICK X : /\ Log(Pending', X, cookie, tree, snaps)
               /\ \A i \in 2..Len(Pending) : \A l, E, a, b :
                    Follows(l, E, a, b, Pending, W, i) => Follows(l, E, a, b, Pending', X, i - 1)
  BY <1>4, <1>5, LogTail DEF LogInv
<1>7. LogInv(X)'
  BY <1>3, <1>4, <1>6 DEF LogInv, Number
<1>8. CASE ~pup /\ UNCHANGED proxyVars
  <2>1. ~pup'
    BY <1>8 DEF proxyVars
  <2>. QED  BY <1>7, <2>1 DEF Follower
<1>9. CASE noProxy
  BY <1>7, <1>9 DEF Follower, noProxy
<1>10. CASE Reads(p)
  <2>1. CASE p.cookie = cookie
    <3>1. Follower(X)'
      BY <1>1, <1>2, <1>4, <1>6, <1>10, <2>1, ReadsFollower
    <3>. QED  BY <1>7, <3>1
  <2>2. CASE p.cookie # cookie
    <3>1. pcookie' # cookie'
      BY <1>3, <1>10, <2>2 DEF Reads
    <3>. QED  BY <1>7, <3>1 DEF Follower
  <2>. QED  BY <2>1, <2>2
<1>. QED  BY <1>1, <1>2, <1>8, <1>9, <1>10

\* The timer finds that the copy agrees with the last header, or asks for
\* more.
LEMMA ChecksFollower ==
  ASSUME ShapeInv, PastInv, NEW W, LogInv(W), Follower(W), UNCHANGED <<serverVars, toProxy, history>>,
         Checks
  PROVE  Follower(W)'
<1>. SUFFICES ASSUME pup, pcookie = cookie
              PROVE  Shows' /\ \E S, a : Proxied(W, S, a)'
  BY DEF Follower, Checks, serverVars
<1>1. /\ cookie' = cookie /\ tree' = tree /\ snaps' = snaps /\ Pending' = Pending
  BY DEF serverVars, history, Pending, Filling
<1>2. /\ Working \in Copy /\ Working' \in Copy /\ ptree' = ptree
  BY DEF Checks
<1>3. /\ Working.t = ptree /\ Working.treqs = treqs /\ Working.dreqs = dreqs /\ Working.h = head
      /\ Working'.t = ptree' /\ Working'.treqs = treqs' /\ Working'.dreqs = dreqs' /\ Working'.h = head'
  BY DEF Working
<1>4. Shows
  BY DEF Follower
<1>5. PICK S, a : Proxied(W, S, a)
  BY DEF Follower
<1>6. /\ Pending[1].cookie = cookie /\ Abreast(Working, S, a, FALSE, head.g = head.l)
      /\ Follows(head.l, S, a, head.g, Pending, W, 1)
      /\ head.t = head.l /\ head.l <= Number(tree) /\ head.g <= head.l /\ Number(S) <= head.t
      /\ Later(S, tree)
      /\ head.t = Number(S) => head.d = S[Root].dseq
      /\ head.s = Number(S) => Seen(S, Root) \in snaps
  BY <1>5 DEF Proxied
<1>7. PICK u : u = Working'
  OBVIOUS
<1>8. u \in Copy /\ u.t = Working.t /\ u.treqs = treqs' /\ u.dreqs = dreqs' /\ u.h = head'
  BY <1>2, <1>3, <1>7
<1>9. CASE /\ \E X, Y \in SUBSET {Root} : treqs' = treqs \cup X /\ dreqs' = dreqs \cup Y
           /\ head' = head /\ psync' = psync
  <2>1. Working.treqs \subseteq u.treqs /\ Working.dreqs \subseteq u.dreqs /\ u.h.g = Working.h.g
    BY <1>3, <1>8, <1>9
  <2>2. Abreast(u, S, a, FALSE, head.g = head.l)
    BY <1>6, <1>8, <2>1, AbreastAsks
  <2>3. Proxied(W, S, a)'
    BY <1>1, <1>6, <1>7, <1>9, <2>2 DEF Proxied, Number
  <2>4. Shows'
    BY <1>1, <1>2, <1>4, <1>9 DEF Shows, Number
  <2>. QED  BY <2>3, <2>4
<1>10. CASE /\ Agreed(Working) /\ treqs' = {} /\ dreqs' = {} /\ head' = [head EXCEPT !.g = head.t]
  <2>1. /\ Working.treqs = {} /\ Working.dreqs = {}
        /\ head.t = Working.t[Root].tseq /\ head.d = Working.t[Root].dseq /\ head.s = Working.t[Root].tseq
    BY <1>3, <1>10 DEF Agreed
  <2>2. /\ Version(S) /\ Number(S) \in Nat /\ head \in Heads /\ Number(Working.t) <= Number(S)
    BY <1>3, <1>6, AbreastNumbers
  <2>3. /\ head.t = Number(Working.t) /\ head.t \in Nat /\ head.s = head.t
        /\ head'.g = head.t /\ head'.t = head.t /\ head'.l = head.l /\ head'.s = head.s /\ head'.d = head.d
    BY <1>10, <2>1, <2>2 DEF Number, Heads
  <2>4. Number(S) = head.t
    BY <1>6, <2>2, <2>3
  <2>5. Abreast(u, S, Number(S), FALSE, TRUE)
    <3>1. Working.dreqs \subseteq u.dreqs
      BY <2>1
    <3>. QED  BY <1>6, <1>8, <2>1, <3>1, AbreastAll
  <2>6. head'.g = head'.l /\ head'.g <= head'.l
    <3>1. head.t = head.l /\ head.t <= head.t
      BY <1>6, <2>3
    <3>. QED  BY <2>3, <3>1
  <2>7. Abreast(u, S, Number(S), FALSE, head'.g = head'.l)
    BY <2>5 DEF Abreast
  <2>8. Follows(head'.l, S, Number(S), head'.g, Pending, W, 1)
    <3>1. PICK Q : Q = Pending
      OBVIOUS
    <3>2. Log(Q, W, cookie, tree, snaps) /\ Q[1].cookie = cookie
      BY <1>6, <3>1 DEF LogInv
    <3>3. \A j \in 1..Len(Q) : \A k \in 0..Len(Q[j].body) : W[j][k] \in Tree
      BY <3>2, LogCookies
    <3>4. ASSUME NEW B \in Tree
          PROVE  Skips(Number(S), head'.g, B)
      <4>. SUFFICES ASSUME NEW m \in Nodes, NEW x \in Nums(B[m]), x > Number(S), x <= head'.g
                    PROVE  FALSE
        BY DEF Skips
      <4>1. x \in Nat
        BY NumsNat
      <4>. QED  BY <2>2, <2>3, <2>4, <4>1
    <3>5. Link(head'.l, S, Q[1], W[1])
      BY <1>6, <2>3, <3>1 DEF Follows
    <3>6. Follows(head'.l, S, Number(S), head'.g, Q, W, 1)
      BY <3>3, <3>4, <3>5 DEF Follows
    <3>. QED  BY <3>1, <3>6
  <2>9. Proxied(W, S, Number(S))'
    <3>1. head'.t = head'.l /\ head'.l <= Number(tree) /\ Number(S) <= head'.t
      BY <1>6, <2>2, <2>3, <2>4
    <3>2. head'.t = Number(S) => head'.d = S[Root].dseq
      BY <1>6, <2>3
    <3>3. head'.s = Number(S) => Seen(S, Root) \in snaps
      BY <1>6, <2>3
    <3>. QED  BY <1>1, <1>6, <1>7, <2>6, <2>7, <2>8, <3>1, <3>2, <3>3 DEF Proxied, Number
  <2>10. Shows'
    <3>1. PICK w : w = Working
      OBVIOUS
    <3>2. /\ Abreast(w, S, a, FALSE, head.g = head.l) /\ w.treqs = {} /\ w.dreqs = {}
          /\ head.t = w.t[Root].tseq /\ head.s = head.t /\ head.d = w.t[Root].dseq /\ Number(S) <= head.t
      BY <1>6, <2>1, <2>3, <3>1
    <3>3. InStep(w, S, head)
      BY <3>2, AgreedStep
    <3>4. /\ TopMost(ptree) /\ Number(ptree) = Number(S) /\ head.s = Number(S)
          /\ head.d = S[Root].dseq => Seen(ptree, Root) = Seen(S, Root)
      BY <1>3, <3>1, <3>3 DEF InStep, Number
    <3>5. Seen(ptree, Root) = Seen(S, Root) /\ Seen(S, Root) \in snaps
      BY <1>6, <2>4, <3>4
    <3>6. Number(ptree) = Number(tree) => Seen(ptree, Root) = Seen(tree, Root)
      BY <1>6, <3>4, <3>5 DEF Later
    <3>. QED  BY <1>1, <1>2, <3>4, <3>5, <3>6 DEF Shows, Number
  <2>. QED  BY <2>9, <2>10
<1>. QED  BY <1>9, <1>10 DEF Checks

LEMMA TickHist ==
  ASSUME ShapeInv, PastInv, HistInv, Tick
  PROVE  HistInv'
<1>1. /\ UNCHANGED <<serverVars, toProxy, history>> /\ ProxyTimer
  BY DEF Tick
<1>2. /\ UNCHANGED <<cookie, up, tree, syncseq, out, oldtseq, toProxy, snaps, hidden>> /\ passive' = passive
  BY <1>1 DEF serverVars, history
<1>3. CASE UNCHANGED proxyVars
  BY <1>2, <1>3, SameHist
<1>4. CASE noProxy \/ Checks
  <2>. SUFFICES ASSUME up, ~hidden
                PROVE  \E W : LogInv(W)' /\ Follower(W)'
    BY <1>2 DEF HistInv
  <2>1. PICK W : LogInv(W) /\ Follower(W)
    BY DEF HistInv
  <2>2. LogInv(W)'
    BY <1>2, <2>1, SameLog
  <2>3. Follower(W)'
    <3>1. CASE noProxy
      BY <3>1 DEF noProxy, Follower
    <3>2. CASE Checks
      BY <1>1, <2>1, <3>2, ChecksFollower
    <3>. QED  BY <1>4, <3>1, <3>2
  <2>. QED  BY <2>2, <2>3
<1>. QED  BY <1>1, <1>3, <1>4, TimerChecks

LEMMA OpenHist ==
  ASSUME ShapeInv, PastInv, HistInv, ProxyOpen
  PROVE  HistInv'
<1>1. /\ UNCHANGED <<cookie, up, tree, syncseq, out, oldtseq, toProxy, snaps, hidden>> /\ passive' = passive
      /\ pcookie' = 0 /\ cookie >= 1 /\ cookie \in Nat
  BY DEF ProxyOpen, serverVars, history, PastInv, NetPast, ShapeInv, ServerInv
<1>. SUFFICES ASSUME up, ~hidden
              PROVE  \E W : LogInv(W)' /\ Follower(W)'
  BY <1>1 DEF HistInv
<1>2. PICK W : LogInv(W) /\ Follower(W)
  BY DEF HistInv
<1>3. LogInv(W)'
  BY <1>1, <1>2, SameLog
<1>4. pcookie' # cookie'
  BY <1>1
<1>. QED  BY <1>3, <1>4 DEF Follower

LEMMA HistNext ==
  ASSUME ShapeInv, ShapeInv', PastInv, HistInv, Next
  PROVE  HistInv'
<1>. SUFFICES ASSUME up', ~hidden'
              PROVE  HistInv'
  BY DEF HistInv
<1>1. ServerInv'
  BY DEF ShapeInv
<1>2. CASE \/ \E n \in Nodes : ChildAdd(n) \/ Changed(n) \/ ChildClose(n)
           \/ JobSync \/ Flush \/ ServerReceive
  <2>1. up
    BY <1>2 DEF ChildAdd, Changed, ChildClose, Operation, JobSync, Flush, ServerReceive
  <2>2. hidden => hidden'
    <3>1. CASE \E n \in Nodes : ChildAdd(n) \/ Changed(n) \/ ChildClose(n)
      BY <3>1 DEF ChildAdd, Changed, ChildClose, Transmit
    <3>2. CASE JobSync
      BY <3>2 DEF JobSync, Transmit
    <3>3. CASE Flush \/ ServerReceive
      BY <3>3 DEF Flush, ServerReceive, history
    <3>. QED  BY <1>2, <3>1, <3>2, <3>3
  <2>. QED  BY <1>1, <1>2, <2>1, <2>2, ServerHist
<1>3. CASE ServerOpen
  BY <1>1, <1>3, ServerOpenHist
<1>4. CASE ServerClose \/ ServerCrash
  BY <1>4 DEF ServerClose, ServerCrash, serverGone
<1>5. CASE GoPassive
  <2>1. /\ UNCHANGED <<cookie, up, tree, syncseq, out, oldtseq, toProxy, snaps, hidden>> /\ passive'
        /\ UNCHANGED proxyVars
    BY <1>5 DEF GoPassive, netVars, history
  <2>. QED  BY <2>1, SameHist
<1>6. CASE LoseToServer
  <2>1. /\ UNCHANGED <<cookie, up, tree, syncseq, out, oldtseq, toProxy, snaps, hidden>> /\ passive' = passive
        /\ UNCHANGED proxyVars
    BY <1>6 DEF LoseToServer, serverVars, history
  <2>. QED  BY <2>1, SameHist
<1>7. CASE LoseToProxy
  BY <1>7, LoseHist
<1>8. CASE Proxy \/ Tick
  BY <1>8, ReceiveHist, OpenHist, TickHist DEF Proxy
<1>. QED  BY <1>2, <1>3, <1>4, <1>5, <1>6, <1>7, <1>8 DEF Next, Server

LEMMA HistInit ==
  ASSUME Init, ShapeInv
  PROVE  HistInv
<1>1. /\ cookie = 1 /\ up = TRUE /\ tree = Opened[1] /\ sequence = Opened[2]
      /\ treqs = {} /\ dreqs = {} /\ out = <<>> /\ toProxy = <<>> /\ syncseq = sequence
      /\ snaps = {Seen(tree, Root)} /\ (Alone \/ Connected)
  BY DEF Init, Alone, Connected
<1>2. Served(tree, sequence) /\ sequence \in Nat /\ sequence > 0
  BY <1>1, OpenedIs
<1>3. Version(tree) /\ Number(tree) = sequence /\ tree \in Tree /\ 1 <= Number(tree) /\ Number(tree) \in Nat
  BY <1>2, ServedVersion
<1>4. /\ Filling \in Packets /\ Filling.cookie = cookie /\ Filling.s = Number(tree)
      /\ Filling.body = <<>> /\ Filling.t = Number(tree) /\ Filling.d = tree[Root].dseq
      /\ Filling.l = Number(tree)
  BY <1>1, <1>3, FillingIs DEF ShapeInv
<1>5. PICK R, r : R = Pending /\ r = Filling
  OBVIOUS
<1>6. Len(R) = 1 /\ R[1] = r
  <2>1. R = Append(<<>>, r) /\ r \in Packets
    BY <1>1, <1>4, <1>5 DEF Pending
  <2>. QED  BY <2>1
<1>7. \A i \in 1..1 : i < 1 => R[i].cookie # cookie
  OBVIOUS
<1>8. r.s = Number(tree) => Seen(tree, Root) \in snaps
  BY <1>1
<1>9. PICK W : Log(R, W, cookie, tree, snaps)
  <2>1. 1 \in Nat /\ 1 >= 1
    OBVIOUS
  <2>. QED  BY <1>3, <1>4, <1>5, <1>6, <1>7, <1>8, <2>1, LogFirst
<1>10. CASE Alone
  <2>1. ~pup /\ passive
    BY <1>10 DEF Alone
  <2>2. LogInv(W)
    BY <1>1, <1>3, <1>5, <1>9, <2>1 DEF LogInv
  <2>. QED  BY <2>1, <2>2 DEF HistInv, Follower
<1>11. CASE Connected
  <2>1. /\ oldtseq = sequence /\ pup = TRUE /\ ptree = tree /\ psync = TRUE
        /\ head = [s |-> sequence, d |-> tree[Root].dseq, n |-> tree[Root].nseq,
                   t |-> sequence, g |-> sequence, l |-> sequence]
    BY <1>11 DEF Connected
  <2>2. LogInv(W)
    BY <1>1, <1>3, <1>5, <1>9, <2>1 DEF LogInv
  <2>3. \A n \in Nodes : \A x \in Nums(tree[n]) : x <= Number(tree)
    BY <1>3, VersionIs DEF Nums
  <2>4. /\ Working.t = tree /\ Working.treqs = {} /\ Working.dreqs = {} /\ Working.h = head /\ Working \in Copy
    BY <1>1, <2>1, WorkingIs DEF ShapeInv, ProxyInv
  <2>5. /\ head.s = Number(tree) /\ head.d = tree[Root].dseq /\ head.t = Number(tree)
        /\ head.g = Number(tree) /\ head.l = Number(tree)
    BY <1>3, <2>1
  <2>6. Agree(tree, tree)
    BY DEF Agree
  <2>7. Knows(tree, tree, Number(tree), head.g) /\ Marked(tree, {}, {}, tree)
    BY <1>3, <2>3, <2>5, <2>6, AgreeKnows
  <2>8. Shown(tree, {})
    BY <1>3, VersionIs DEF Numbered, Shown
  <2>9. Abreast(Working, tree, Number(tree), FALSE, head.g = head.l)
    BY <1>3, <2>4, <2>6, <2>7, <2>8 DEF Abreast
  <2>10. Follows(head.l, tree, Number(tree), head.g, R, W, 1)
    <3>1. R[1].cookie = cookie
      BY <1>4, <1>5, <1>6
    <3>2. /\ \A j \in 1..Len(R) : \A k \in 0..Len(R[j].body) : W[j][k] \in Tree
      BY <1>9, <3>1, LogCookies
    <3>3. End(R[1], W[1]) = tree
      BY <1>6, <1>9 DEF Log
    <3>4. Len(R[1].body) = 0
      BY <1>4, <1>5, <1>6
    <3>5. W[1][0] = tree /\ R[1].l = Number(tree)
      BY <1>4, <1>5, <1>6, <3>3, <3>4 DEF End
    <3>6. Later(tree, tree)
      BY <1>3, LaterSame
    <3>7. Link(head.l, tree, R[1], W[1])
      BY <1>3, <2>5, <3>5, <3>6 DEF Link, Notice
    <3>8. ASSUME NEW B \in Tree
          PROVE  Skips(Number(tree), head.g, B)
      <4>. SUFFICES ASSUME NEW m \in Nodes, NEW x \in Nums(B[m]), x > Number(tree), x <= head.g
                    PROVE  FALSE
        BY DEF Skips
      <4>1. x \in Nat
        BY NumsNat
      <4>. QED  BY <1>3, <2>5, <4>1
    <3>. QED  BY <3>2, <3>7, <3>8 DEF Follows
  <2>11. Proxied(W, tree, Number(tree))
    <3>1. Pending[1].cookie = cookie
      BY <1>4, <1>5, <1>6
    <3>2. Later(tree, tree) /\ Number(tree) <= Number(tree)
      BY <1>3, LaterSame
    <3>. QED  BY <1>1, <1>5, <2>5, <2>9, <2>10, <3>1, <3>2 DEF Proxied
  <2>12. Shows
    BY <1>1, <2>1, <2>3 DEF Shows, TopMost, Number
  <2>. QED  BY <2>2, <2>11, <2>12 DEF HistInv, Follower
<1>. QED  BY <1>1, <1>10, <1>11

CopyInv == ShapeInv /\ PastInv /\ HistInv

LEMMA CopyHolds == Spec => []CopyInv
<1>1. Init => CopyInv
  BY InitShape, PastInit, HistInit DEF CopyInv
<1>2. CopyInv /\ [Next]_vars => CopyInv'
  <2>. SUFFICES ASSUME CopyInv, [Next]_vars
                PROVE  CopyInv'
    OBVIOUS
  <2>1. ShapeInv'
    BY NextShape DEF CopyInv
  <2>2. CASE Next
    BY <2>1, <2>2, PastNext, HistNext DEF CopyInv
  <2>3. CASE UNCHANGED vars
    <3>1. /\ UNCHANGED <<cookie, up, tree, syncseq, out, oldtseq, toProxy, snaps, hidden>>
          /\ passive' = passive /\ UNCHANGED proxyVars
      BY <2>3 DEF vars, serverVars, netVars, history
    <3>2. HistInv'
      BY <3>1, SameHist DEF CopyInv
    <3>3. ProxyPast'
      BY <3>1, SamePast DEF CopyInv, PastInv
    <3>4. PastInv'
      BY <3>1, <3>3 DEF CopyInv, PastInv, NetPast, Idle
    <3>. QED  BY <2>1, <3>2, <3>4 DEF CopyInv
  <2>. QED  BY <2>2, <2>3
<1>. QED  BY <1>1, <1>2, PTL DEF Spec

\* A proxy that says it is in sync, and has the number of the server's tree,
\* shows what the server has, whatever was lost before (but for the change
\* that hidden records): no packet is missing that a header would not have
\* shown to be, and what the copy lacks is being asked for.
THEOREM InSyncEqual == Spec => []InSyncIsEqual
<1>1. CopyInv => InSyncIsEqual
  <2>. SUFFICES ASSUME CopyInv, psync, Same, ~hidden
                PROVE  Seen(ptree, Root) = Seen(tree, Root)
    BY DEF InSyncIsEqual
  <2>1. /\ ServerInv /\ ProxyPast /\ HistInv /\ pup /\ pcookie = cookie
        /\ Number(ptree) = Number(tree) /\ Number(ptree) >= 1
    BY DEF CopyInv, ShapeInv, PastInv, ProxyPast, Same, Number
  <2>2. CASE up
    <3>1. Shows
      BY <2>1, <2>2 DEF HistInv, Follower
    <3>. QED  BY <2>1, <3>1 DEF Shows
  <2>3. CASE ~up
    <3>1. tree = NoTree
      BY <2>1, <2>3 DEF ServerInv
    <3>2. Number(tree) = 0
      BY <3>1, NoTreeIs, Trees, Paths DEF Number
    <3>. QED  BY <2>1, <3>2
  <2>. QED  BY <2>2, <2>3
<1>. QED  BY <1>1, CopyHolds, PTL

\* While a proxy says it is in sync, its clients see a state that the server
\* had between two operations: what was read of the next one has been taken
\* back to be asked for.
THEOREM InSyncSnapshot == Spec => []InSyncIsSnapshot
<1>1. CopyInv => InSyncIsSnapshot
  <2>. SUFFICES ASSUME CopyInv, psync, pcookie = cookie, up, ~hidden
                PROVE  Seen(ptree, Root) \in snaps
    BY DEF InSyncIsSnapshot
  <2>1. HistInv /\ pup
    BY DEF CopyInv, PastInv, ProxyPast
  <2>2. Shows
    BY <2>1 DEF HistInv, Follower
  <2>. QED  BY <2>2 DEF Shows
<1>. QED  BY <1>1, CopyHolds, PTL

=============================================================================
