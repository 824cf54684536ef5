--------------------------- MODULE DatabaseProofs ---------------------------
(***************************************************************************)
(* For any paths, values, agents and sizes of blocks, and whichever writes *)
(* fail: the file's records refer to earlier records only, objects in      *)
(* memory that say that they are saved are what their records have, and    *)
(* what opening the file would find is complete and stays; and the file is *)
(* the row of versions that VersionStore promises.                         *)
(*                                                                         *)
(* The invariant is Kept.  It is that the file, as it is or as the next    *)
(* program would open it, is Good, that each object is AgentOK with regard *)
(* to it, and, until a save is cut short, Rooted.  A save is a sequence of *)
(* writes, of which each is shown to lose nothing of the file (Goes).  So  *)
(* the histories, the documents and the versions read from a file are the  *)
(* same in all that it becomes, which is what the refinement comes to.     *)
(***************************************************************************)
EXTENDS Database, TLAPS, WellFoundedInduction, FiniteSetTheorems, SequenceTheorems

-----------------------------------------------------------------------------
(* Numbers: induction up to a bound, and places.                            *)

\* A set of numbers that is not empty has a least one.
LEMMA Least ==
  ASSUME NEW S \in SUBSET Nat, S # {}
  PROVE  \E m \in S : \A k \in S : m <= k
<1>. DEFINE R == OpToRel(<, Nat)
<1>1. IsWellFoundedOn(R, Nat)
  BY ONLY NatLessThanWellFounded, Zenon
<1>2. \A k, m \in Nat : k < m => <<k, m>> \in R
  BY DEF OpToRel
<1>. HIDE DEF R
<1>3. PICK m \in S : \A k \in S : <<k, m>> \notin R
  BY <1>1, WFMin
<1>4. \A k \in S : ~(k < m)
  BY <1>2, <1>3
<1>. QED  BY <1>3, <1>4

\* What holds of 0 and passes from each number to the next holds up to n.
LEMMA UpTo ==
  ASSUME NEW n \in Nat, NEW H \in SUBSET Nat, 0 \in H,
         \A i \in 1..n : i - 1 \in H => i \in H
  PROVE  \A i \in 0..n : i \in H
<1>. DEFINE S == {i \in 0..n : i \notin H}
<1>. SUFFICES ASSUME S # {}
              PROVE  FALSE
  OBVIOUS
<1>1. PICK m \in S : \A k \in S : m <= k
  <2>1. S \in SUBSET Nat
    OBVIOUS
  <2>. HIDE DEF S
  <2>. QED  BY <2>1, Least
<1>2. m \in 1..n /\ m - 1 \in 0..n /\ m - 1 \notin S
  BY <1>1
<1>. QED  BY <1>2

\* A block has room for a record.
LEMMA CapType == Cap \in Nat \ {0}
  BY SizesAssumption

\* A place is that of a slot of a block.
LEMMA PlaceParts ==
  ASSUME NEW p \in Nat \ {0}
  PROVE  BlockOf(p) \in Nat /\ SlotOf(p) \in 1..Cap /\ p = BlockOf(p) * Cap + SlotOf(p)
  BY CapType DEF BlockOf, SlotOf

\* The slot of a block has its place.
LEMMA PlaceMade ==
  ASSUME NEW b \in Nat, NEW s \in 1..Cap
  PROVE  /\ b * Cap + s \in Nat \ {0}
         /\ BlockOf(b * Cap + s) = b /\ SlotOf(b * Cap + s) = s
<1>1. b * Cap + s \in Nat \ {0}
  BY CapType
<1>2. BlockOf(b * Cap + s) = b /\ SlotOf(b * Cap + s) = s
  BY CapType DEF BlockOf, SlotOf
<1>. QED  BY <1>1, <1>2

\* Places are in the order of their blocks, and of their slots.
LEMMA PlacesInOrder ==
  ASSUME NEW p \in Nat \ {0}, NEW q \in Nat \ {0}
  PROVE  /\ BlockOf(p) < BlockOf(q) => p < q
         /\ (BlockOf(p) = BlockOf(q) /\ SlotOf(p) < SlotOf(q)) => p < q
         /\ p <= q => BlockOf(p) <= BlockOf(q)
<1>. DEFINE a == BlockOf(p)  b == BlockOf(q)  s == SlotOf(p)  u == SlotOf(q)
<1>1. a \in Nat /\ b \in Nat /\ s \in 1..Cap /\ u \in 1..Cap /\ p = a * Cap + s /\ q = b * Cap + u
  BY PlaceParts
<1>. HIDE DEF a, b, s, u
<1>2. ASSUME NEW x \in Nat, NEW y \in Nat, x < y
      PROVE  x * Cap + Cap <= y * Cap
  <2>1. PICK d \in Nat : y = x + 1 + d
    <3>1. y - x - 1 \in Nat /\ y = x + 1 + (y - x - 1)
      BY <1>2
    <3>. QED  BY <3>1
  <2>2. (x + 1 + d) * Cap = x * Cap + Cap + d * Cap /\ d * Cap \in Nat /\ x * Cap \in Nat
    BY CapType
  <2>. QED  BY <2>1, <2>2, CapType
<1>3. a * Cap \in Nat /\ b * Cap \in Nat /\ Cap \in Nat
  BY <1>1, CapType
<1>4. a < b => p < q
  BY <1>1, <1>2, <1>3
<1>5. b < a => q < p
  BY <1>1, <1>2, <1>3
<1>6. a = b /\ s < u => p < q
  BY <1>1, <1>3
<1>7. p <= q => a <= b
  BY <1>1, <1>5
<1>. QED  BY <1>4, <1>6, <1>7 DEF a, b, s, u

-----------------------------------------------------------------------------
(* The file.                                                                *)

\* The records, of which each is a node's, an agent's or a snapshot's.
Steps == {Last(p) : p \in Paths \ {<<>>}}
KidMaps == UNION {[D -> Nat] : D \in SUBSET Steps}
NodeRecords == [val : Values, kids : KidMaps]
AgentRecords == [name : Names, type : Types, root : Nat]
SnapRecords == [prev : Nat, agents : SUBSET Nat]
Records == NodeRecords \cup AgentRecords \cup SnapRecords

Blocks == {b \in [recs : Seq(Records), chk : Nat] :
             /\ Len(b.recs) <= Cap /\ b.chk <= Len(b.recs)
             /\ b.chk # 0 => b.recs[b.chk] \in SnapRecords
             /\ \A i \in 1..Len(b.recs) : b.recs[i] \in SnapRecords => i <= b.chk}
Files == [disk : Seq(Blocks), wblk : Nat, wbuf : Blocks, cpos : Nat,
          room : Int, ok : BOOLEAN]

\* The block that is being filled is on the disk or next to it, and no block
\* that is still to be overwritten has a mark.
FileOK(f) ==
  /\ f \in Files
  /\ f.wblk <= Len(f.disk)
  /\ \A b \in Marked(f.disk) : b <= f.wblk

Block(f, b) == IF b = f.wblk THEN f.wbuf ELSE f.disk[b + 1]

\* The places that have a record.
Recs(f) == {p \in Nat \ {0} : /\ BlockOf(p) <= f.wblk
                              /\ SlotOf(p) <= Len(Block(f, BlockOf(p)).recs)}

IsNode(f, p) == p \in Recs(f) /\ At(f, p) \in NodeRecords
IsAgent(f, p) == p \in Recs(f) /\ At(f, p) \in AgentRecords
IsSnap(f, p) == p \in Recs(f) /\ At(f, p) \in SnapRecords

\* What f has, g has as well.
Sees(g, f) == \A p \in Recs(f) : p \in Recs(g) /\ At(g, p) = At(f, p)

\* No record is of two kinds.
LEMMA KindsApart ==
  /\ NodeRecords \cap AgentRecords = {}
  /\ NodeRecords \cap SnapRecords = {}
  /\ AgentRecords \cap SnapRecords = {}
  BY DEF NodeRecords, AgentRecords, SnapRecords

\* A record is read from its block (read_payload()).
LEMMA BlockAt ==
  ASSUME NEW f, NEW p
  PROVE  At(f, p) = Block(f, BlockOf(p)).recs[SlotOf(p)]
  BY DEF At, Block

\* Each block up to the one that is being filled is one.
LEMMA BlockType ==
  ASSUME NEW f, FileOK(f), NEW b \in 0..f.wblk
  PROVE  Block(f, b) \in Blocks
<1>1. f.wblk \in Nat /\ f.disk \in Seq(Blocks) /\ f.wbuf \in Blocks /\ f.wblk <= Len(f.disk)
  BY DEF FileOK, Files
<1>2. b # f.wblk => b + 1 \in 1..Len(f.disk)
  BY <1>1
<1>. QED  BY <1>1, <1>2 DEF Block

\* An empty block is a block.
LEMMA EmptyBlockType == EmptyBlock \in Blocks
<1>1. <<>> \in Seq(Records) /\ Len(<<>>) = 0
  OBVIOUS
<1>. QED  BY <1>1, CapType DEF EmptyBlock, Blocks

\* A place with a record is not behind the last one.
LEMMA RecsType ==
  ASSUME NEW f, FileOK(f), NEW p \in Recs(f)
  PROVE  /\ At(f, p) \in Records /\ p \in Nat \ {0}
         /\ BlockOf(p) \in 0..f.wblk
         /\ p <= LastPlace(f) /\ LastPlace(f) \in Nat
<1>1. f.wblk \in Nat /\ f.wbuf \in Blocks
  BY DEF FileOK, Files
<1>2. p \in Nat \ {0} /\ BlockOf(p) \in Nat /\ SlotOf(p) \in 1..Cap /\ BlockOf(p) <= f.wblk
      /\ p = BlockOf(p) * Cap + SlotOf(p)
      /\ SlotOf(p) <= Len(Block(f, BlockOf(p)).recs)
  BY PlaceParts DEF Recs
<1>3. BlockOf(p) \in 0..f.wblk
  BY <1>1, <1>2
<1>4. Block(f, BlockOf(p)) \in Blocks
  BY <1>3, BlockType
<1>5. At(f, p) \in Records
  <2>1. Block(f, BlockOf(p)).recs \in Seq(Records)
    BY <1>4 DEF Blocks
  <2>2. SlotOf(p) \in 1..Len(Block(f, BlockOf(p)).recs)
    BY <1>2, <2>1
  <2>. QED  BY <2>1, <2>2, BlockAt
<1>6. p <= LastPlace(f) /\ LastPlace(f) \in Nat
  <2>1. Len(f.wbuf.recs) \in Nat
    BY <1>1 DEF Blocks
  <2>2. f.wblk * Cap \in Nat
    BY <1>1, CapType
  <2>3. CASE BlockOf(p) = f.wblk
    <3>1. SlotOf(p) <= Len(f.wbuf.recs)
      BY <1>2, <2>3 DEF Block
    <3>. QED  BY <1>2, <2>1, <2>2, <2>3, <3>1 DEF LastPlace
  <2>4. CASE BlockOf(p) < f.wblk
    <3>1. f.wblk * Cap + 1 \in Nat \ {0} /\ BlockOf(f.wblk * Cap + 1) = f.wblk
      BY <1>1, CapType, PlaceMade
    <3>2. p < f.wblk * Cap + 1
      BY <1>2, <2>4, <3>1, PlacesInOrder
    <3>. QED  BY <1>2, <2>1, <2>2, <3>2 DEF LastPlace
  <2>. QED  BY <1>1, <1>2, <2>3, <2>4
<1>. QED  BY <1>2, <1>3, <1>5, <1>6

\* Opening finds the last block with a mark, if there is one.
LEMMA FoundFacts ==
  ASSUME NEW d \in Seq(Blocks)
  PROVE  /\ FoundBlocks(d) \in 0..Len(d)
         /\ \A b \in Marked(d) : b <= FoundBlocks(d)
         /\ Marked(d) # {} => FoundBlocks(d) \in Marked(d)
         /\ Marked(d) = {} => FoundBlocks(d) = 0
<1>. Len(d) \in Nat /\ Marked(d) \in SUBSET (1..Len(d))
  BY DEF Marked
<1>1. CASE Marked(d) = {}
  BY <1>1 DEF FoundBlocks
<1>2. CASE Marked(d) # {}
  <2>. DEFINE S == {i \in 0..Len(d) : Len(d) - i \in Marked(d)}
  <2>1. S \in SUBSET Nat /\ S # {}
    <3>1. PICK b \in Marked(d) : TRUE
      BY <1>2
    <3>2. Len(d) - b \in S
      BY <3>1
    <3>. QED  BY <3>2
  <2>2. \A b \in Marked(d) : Len(d) - b \in S
    OBVIOUS
  <2>3. \A i \in S : i \in Nat /\ Len(d) - i \in Marked(d)
    OBVIOUS
  <2>. HIDE DEF S
  <2>4. PICK m \in S : \A i \in S : m <= i
    BY <2>1, Least
  <2>5. \E b \in Marked(d) : \A c \in Marked(d) : b >= c
    <3>1. \A c \in Marked(d) : Len(d) - m >= c
      BY <2>2, <2>3, <2>4
    <3>. QED  BY <2>3, <2>4, <3>1
  <2>6. /\ FoundBlocks(d) \in Marked(d)
        /\ \A c \in Marked(d) : FoundBlocks(d) >= c
    BY <1>2, <2>5 DEF FoundBlocks, Max
  <2>. QED  BY <1>2, <2>6
<1>. QED  BY <1>1, <1>2

\* What opening finds is the last snapshot of the last block with a mark.
LEMMA FoundPlaceFacts ==
  ASSUME NEW d \in Seq(Blocks)
  PROVE  /\ FoundPlace(d) \in Nat /\ (Marked(d) = {} => FoundPlace(d) = 0)
         /\ Marked(d) # {} =>
              /\ FoundBlocks(d) \in 1..Len(d) /\ d[FoundBlocks(d)] \in Blocks
              /\ d[FoundBlocks(d)].chk \in 1..Len(d[FoundBlocks(d)].recs)
              /\ d[FoundBlocks(d)].recs[d[FoundBlocks(d)].chk] \in SnapRecords
              /\ FoundPlace(d) # 0
              /\ BlockOf(FoundPlace(d)) = FoundBlocks(d) - 1
              /\ SlotOf(FoundPlace(d)) = d[FoundBlocks(d)].chk
<1>. DEFINE kept == FoundBlocks(d)
<1>1. CASE Marked(d) = {}
  BY <1>1 DEF FoundPlace, NoPlace
<1>2. CASE Marked(d) # {}
  <2>2. FoundPlace(d) = (kept - 1) * Cap + d[kept].chk
    BY <1>2 DEF FoundPlace
  <2>3. kept \in 1..Len(d) /\ d[kept].chk # 0
    BY <1>2, FoundFacts DEF Marked
  <2>4. d[kept] \in Blocks
    BY <2>3
  <2>. HIDE DEF kept
  <2>5. /\ d[kept].chk \in 1..Len(d[kept].recs) /\ d[kept].chk \in 1..Cap
        /\ d[kept].recs[d[kept].chk] \in SnapRecords
    <3>1. d[kept].recs \in Seq(Records) /\ Cap \in Nat
      BY <2>4, CapType DEF Blocks
    <3>2. Len(d[kept].recs) \in Nat
      BY <3>1
    <3>. QED  BY <2>3, <2>4, <3>1, <3>2 DEF Blocks
  <2>. DEFINE b == kept - 1  s == d[kept].chk
  <2>6. b \in Nat /\ s \in 1..Cap /\ FoundPlace(d) = b * Cap + s
    BY <2>2, <2>3, <2>5
  <2>. HIDE DEF b, s
  <2>9. /\ b * Cap + s \in Nat \ {0}
        /\ BlockOf(b * Cap + s) = b /\ SlotOf(b * Cap + s) = s
    BY <2>6, PlaceMade
  <2>. QED  BY <1>2, <2>3, <2>4, <2>5, <2>6, <2>9 DEF b, s, kept
<1>. QED  BY <1>1, <1>2

\* What is found of g is not behind what is found of f.
FoundOn(f, g) == 0..FoundPlace(f.disk) \subseteq 0..FoundPlace(g.disk)

\* g has the records of f and no other, and the same last snapshot.
SameRecs(f, g) ==
  Recs(g) = Recs(f) /\ Sees(g, f) /\ g.cpos = f.cpos /\ FoundOn(f, g)

\* A write that fails leaves the records as they are.
LEMMA FailedFacts ==
  ASSUME NEW f, FileOK(f)
  PROVE  /\ FileOK([f EXCEPT !.ok = FALSE]) /\ SameRecs(f, [f EXCEPT !.ok = FALSE])
         /\ ~[f EXCEPT !.ok = FALSE].ok
<1>. DEFINE g == [f EXCEPT !.ok = FALSE]
<1>1. /\ g \in Files /\ g.disk = f.disk /\ g.wblk = f.wblk /\ g.wbuf = f.wbuf
      /\ g.cpos = f.cpos /\ g.ok = FALSE
  BY DEF FileOK, Files
<1>. HIDE DEF g
<1>2. FileOK(g)
  BY <1>1 DEF FileOK
<1>3. \A b : Block(g, b) = Block(f, b)
  BY <1>1 DEF Block
<1>4. Recs(g) = Recs(f)
  BY <1>1, <1>3 DEF Recs
<1>5. \A p : At(g, p) = At(f, p)
  BY <1>3, BlockAt
<1>6. FoundOn(f, g)
  BY <1>1 DEF FoundOn
<1>. QED  BY <1>1, <1>2, <1>4, <1>5, <1>6 DEF SameRecs, Sees, g

\* A flush moves the records of a block from memory to the disk.
LEMMA FlushedFacts ==
  ASSUME NEW f, FileOK(f), f.ok
  PROVE  /\ FileOK(Flushed(f)) /\ SameRecs(f, Flushed(f))
         /\ Flushed(f).ok => /\ Flushed(f).wbuf = EmptyBlock
                             /\ Flushed(f).wblk = f.wblk + 1
<1>1. CASE f.room = 0
  BY <1>1, FailedFacts DEF Flushed
<1>2. CASE f.room # 0
  <2>. DEFINE d == IF f.wblk < Len(f.disk) THEN [f.disk EXCEPT ![f.wblk + 1] = f.wbuf]
                                           ELSE Append(f.disk, f.wbuf)
              g == Flushed(f)
  <2>1. g = [f EXCEPT !.disk = d, !.wblk = f.wblk + 1, !.wbuf = EmptyBlock, !.room = f.room - 1]
    BY <1>2 DEF Flushed
  <2>. f.disk \in Seq(Blocks) /\ f.wblk \in Nat /\ f.wbuf \in Blocks /\ f.room \in Int
       /\ f.wblk <= Len(f.disk) /\ f.cpos \in Nat /\ f.ok \in BOOLEAN
    BY DEF FileOK, Files
  <2>2. /\ d \in Seq(Blocks) /\ f.wblk + 1 \in 1..Len(d) /\ d[f.wblk + 1] = f.wbuf
        /\ \A b \in 1..Len(f.disk) : b \in 1..Len(d) /\ (b # f.wblk + 1 => d[b] = f.disk[b])
        /\ \A b \in 1..Len(d) : b # f.wblk + 1 => b \in 1..Len(f.disk) /\ d[b] = f.disk[b]
    <3>1. CASE f.wblk < Len(f.disk)
      <4>1. d = [f.disk EXCEPT ![f.wblk + 1] = f.wbuf] /\ f.wblk + 1 \in 1..Len(f.disk)
        BY <3>1
      <4>. HIDE DEF d
      <4>. QED  BY <4>1
    <3>2. CASE ~(f.wblk < Len(f.disk))
      <4>1. d = Append(f.disk, f.wbuf) /\ f.wblk = Len(f.disk)
        BY <3>2
      <4>. HIDE DEF d
      <4>. QED  BY <4>1
    <3>. QED  BY <3>1, <3>2
  <2>. HIDE DEF d
  <2>3. /\ g.disk = d /\ g.wblk = f.wblk + 1 /\ g.wbuf = EmptyBlock /\ g.cpos = f.cpos
        /\ g.ok = f.ok
    BY <2>1 DEF FileOK, Files
  <2>4. g \in Files
    <3>1. f.room - 1 \in Int /\ f.wblk + 1 \in Nat
      OBVIOUS
    <3>. QED  BY <2>1, <2>2, <3>1, EmptyBlockType DEF FileOK, Files
  <2>. HIDE DEF g
  <2>5. \A b \in Marked(d) : b <= f.wblk + 1
    <3>. SUFFICES ASSUME NEW b \in Marked(d), b # f.wblk + 1
                  PROVE  b <= f.wblk + 1
      BY <2>2
    <3>1. b \in 1..Len(d)
      BY <2>2 DEF Marked
    <3>2. b \in Marked(f.disk)
      BY <2>2, <3>1 DEF Marked
    <3>3. b <= f.wblk
      BY <3>2 DEF FileOK
    <3>. QED  BY <3>1, <3>3
  <2>6. FileOK(g)
    <3>1. f.wblk + 1 <= Len(d)
      BY <2>2
    <3>. QED  BY <2>3, <2>4, <2>5, <3>1 DEF FileOK
  <2>7. \A b \in 0..f.wblk : Block(g, b) = Block(f, b)
    <3>. SUFFICES ASSUME NEW b \in 0..f.wblk
                  PROVE  d[b + 1] = IF b = f.wblk THEN f.wbuf ELSE f.disk[b + 1]
      BY <2>3 DEF Block
    <3>1. b # f.wblk => b + 1 \in 1..Len(f.disk) /\ b + 1 # f.wblk + 1
      OBVIOUS
    <3>. QED  BY <2>2, <3>1
  <2>8. Block(g, f.wblk + 1) = EmptyBlock
    BY <2>3 DEF Block
  <2>9. \A p \in Nat \ {0} : p \in Recs(g) <=> p \in Recs(f)
    <3>. SUFFICES ASSUME NEW p \in Nat \ {0}
                  PROVE  p \in Recs(g) <=> p \in Recs(f)
      OBVIOUS
    <3>1. BlockOf(p) \in Nat /\ SlotOf(p) \in 1..Cap
      BY PlaceParts
    <3>2. CASE BlockOf(p) <= f.wblk
      BY <2>3, <2>7, <3>1, <3>2 DEF Recs
    <3>3. CASE BlockOf(p) = f.wblk + 1
      <4>1. Len(EmptyBlock.recs) = 0
        BY DEF EmptyBlock
      <4>2. ~(SlotOf(p) <= 0)
        BY <3>1, CapType
      <4>. QED  BY <2>8, <3>3, <4>1, <4>2 DEF Recs
    <3>4. CASE BlockOf(p) > f.wblk + 1
      BY <2>3, <3>1, <3>4 DEF Recs
    <3>. QED  BY <3>1, <3>2, <3>3, <3>4
  <2>10. Recs(g) = Recs(f)
    BY <2>9 DEF Recs
  <2>11. Sees(g, f)
    <3>1. ASSUME NEW p \in Recs(f)
          PROVE  At(g, p) = At(f, p)
      <4>1. BlockOf(p) \in 0..f.wblk
        BY RecsType
      <4>. QED  BY <2>7, <4>1, BlockAt
    <3>. QED  BY <2>10, <3>1 DEF Sees
  <2>12. FoundOn(f, g)
    <3>. DEFINE n == f.wblk + 1  d0 == f.disk
    <3>1. /\ Marked(d0) \subseteq Marked(d) /\ Marked(d) \subseteq Marked(d0) \cup {n}
          /\ \A b \in Marked(d0) : d[b] = d0[b] /\ b <= f.wblk /\ b \in 1..Len(d0)
      <4>1. \A b \in Marked(d0) : b \in 1..Len(d0) /\ b <= f.wblk /\ b # n
        BY DEF FileOK, Marked
      <4>2. \A b \in Marked(d0) : d[b] = d0[b] /\ b \in Marked(d)
        BY <2>2, <4>1 DEF Marked
      <4>3. \A b \in Marked(d) : b # n => b \in Marked(d0)
        BY <2>2 DEF Marked
      <4>. QED  BY <4>1, <4>2, <4>3
    <3>2. FoundPlace(d0) \in Nat /\ FoundPlace(d) \in Nat
      BY <2>2, FoundPlaceFacts
    <3>3. FoundPlace(d0) <= FoundPlace(d)
      <4>1. CASE Marked(d0) = {}
        BY <3>2, <4>1, FoundPlaceFacts
      <4>2. CASE Marked(d0) # {} /\ n \in Marked(d)
        <5>1. FoundBlocks(d0) \in Marked(d0)
          BY <4>2, FoundFacts
        <5>2. FoundBlocks(d) = n
          <6>1. FoundBlocks(d) \in Marked(d) /\ n <= FoundBlocks(d)
            BY <2>2, <4>2, FoundFacts
          <6>. QED  BY <3>1, <6>1
        <5>3. /\ BlockOf(FoundPlace(d0)) = FoundBlocks(d0) - 1 /\ FoundPlace(d0) # 0
              /\ BlockOf(FoundPlace(d)) = n - 1 /\ FoundPlace(d) # 0
          BY <2>2, <4>2, <5>2, FoundPlaceFacts
        <5>4. BlockOf(FoundPlace(d0)) < BlockOf(FoundPlace(d))
          BY <3>1, <5>1, <5>3
        <5>5. FoundPlace(d0) \in Nat \ {0} /\ FoundPlace(d) \in Nat \ {0}
          BY <3>2, <5>3
        <5>6. FoundPlace(d0) < FoundPlace(d)
          BY <5>4, <5>5, PlacesInOrder
        <5>. QED  BY <3>2, <5>6
      <4>3. CASE Marked(d0) # {} /\ n \notin Marked(d)
        <5>1. Marked(d) = Marked(d0)
          BY <3>1, <4>3
        <5>2. FoundBlocks(d) = FoundBlocks(d0) /\ FoundBlocks(d0) \in Marked(d0)
          BY <4>3, <5>1, FoundFacts DEF FoundBlocks
        <5>3. FoundPlace(d) = FoundPlace(d0)
          BY <3>1, <5>1, <5>2 DEF FoundPlace
        <5>. QED  BY <3>2, <5>3
      <4>. QED  BY <4>1, <4>2, <4>3
    <3>4. g.disk = d
      BY <2>3
    <3>. QED  BY <3>2, <3>3, <3>4 DEF FoundOn
  <2>. QED  BY <2>3, <2>6, <2>10, <2>11, <2>12 DEF SameRecs, g
<1>. QED  BY <1>1, <1>2

\* A record added to a block with room for it.
Added(h, rec, checkpoint) ==
  [h EXCEPT !.wbuf.recs = Append(@, rec),
            !.wbuf.chk = IF checkpoint THEN Len(h.wbuf.recs) + 1 ELSE @,
            !.cpos = IF checkpoint THEN NextPlace(h) ELSE @]

\* g is f with one record more, behind all of f's.
OneMore(f, g, rec) ==
  /\ LastPlace(g) \in Nat \ {0}
  /\ \A p \in Recs(f) : p < LastPlace(g)
  /\ Recs(g) = Recs(f) \cup {LastPlace(g)}
  /\ Sees(g, f) /\ At(g, LastPlace(g)) = rec
  /\ FoundOn(f, g)

\* A block with both fields changed.
LEMMA BlockEdited ==
  ASSUME NEW R, NEW C, NEW z \in [recs : R, chk : C], NEW x, NEW y
  PROVE  [z EXCEPT !.recs = x, !.chk = y] = [recs |-> x, chk |-> y]
<1>1. [z EXCEPT !.recs = x] = [recs |-> x, chk |-> z.chk]
  OBVIOUS
<1>2. PICK u : u = [z EXCEPT !.recs = x]
  OBVIOUS
<1>3. u = [recs |-> x, chk |-> z.chk]
  BY ONLY <1>1, <1>2
<1>4. [u EXCEPT !.chk = y] = [recs |-> x, chk |-> y]
  <2>1. u \in [recs : {x}, chk : {z.chk}]
    BY ONLY <1>3
  <2>2. [u EXCEPT !.chk = y] = [recs |-> u.recs, chk |-> y]
    BY ONLY <2>1
  <2>. QED  BY ONLY <2>2, <1>3
<1>5. [z EXCEPT !.recs = x, !.chk = y] = [u EXCEPT !.chk = y]
  BY ONLY <1>2, Zenon
<1>. QED  BY <1>4, <1>5

\* A record added to a block with room is behind all others.
LEMMA AddedFacts ==
  ASSUME NEW h, FileOK(h), Len(h.wbuf.recs) < Cap,
         NEW rec \in Records, NEW cp \in BOOLEAN, cp => rec \in SnapRecords, ~cp => rec \notin SnapRecords,
         NEW g, g = Added(h, rec, cp)
  PROVE  /\ FileOK(g) /\ OneMore(h, g, rec) /\ g.ok = h.ok
         /\ g.cpos = IF cp THEN LastPlace(g) ELSE h.cpos
<1>. h.disk \in Seq(Blocks) /\ h.wblk \in Nat /\ h.wbuf \in Blocks /\ h.wblk <= Len(h.disk)
  BY DEF FileOK, Files
<1>. h.wbuf.recs \in Seq(Records) /\ h.wbuf.chk \in Nat /\ h.wbuf.chk <= Len(h.wbuf.recs)
  BY DEF Blocks
<1>. Cap \in Nat \ {0}
  BY CapType
<1>. DEFINE n == Len(h.wbuf.recs)
            recs == Append(h.wbuf.recs, rec)
            chk == IF cp THEN n + 1 ELSE h.wbuf.chk
            buf == [recs |-> recs, chk |-> chk]
            last == h.wblk * Cap + n + 1
<1>1. n \in Nat /\ n + 1 \in 1..Cap
  BY DEF FileOK
<1>2. recs \in Seq(Records) /\ Len(recs) = n + 1 /\ recs[n + 1] = rec
      /\ \A i \in 1..n : recs[i] = h.wbuf.recs[i]
  OBVIOUS
<1>3. buf \in Blocks
  <2>1. chk \in Nat /\ chk <= n + 1
    BY <1>1
  <2>2. chk # 0 => recs[chk] \in SnapRecords
    <3>1. CASE cp
      BY <3>1, <1>2
    <3>2. CASE ~cp
      <4>1. SUFFICES ASSUME h.wbuf.chk # 0
                     PROVE  recs[h.wbuf.chk] \in SnapRecords
        BY <3>2
      <4>2. h.wbuf.chk \in 1..n
        BY <4>1
      <4>3. h.wbuf.recs[h.wbuf.chk] \in SnapRecords
        BY <4>1 DEF Blocks
      <4>. QED  BY <4>2, <4>3, <1>2
    <3>. QED  BY <3>1, <3>2
  <2>3. n + 1 <= Cap
    BY <1>1
  <2>4. ASSUME NEW i \in 1..(n + 1), recs[i] \in SnapRecords
        PROVE  i <= chk
    <3>1. CASE cp
      BY <3>1, <1>1
    <3>2. CASE ~cp
      <4>1. i # n + 1
        BY <1>2, <2>4, <3>2
      <4>2. i \in 1..n
        BY <1>1, <4>1
      <4>3. h.wbuf.recs[i] \in SnapRecords
        BY <1>2, <2>4, <4>2
      <4>. QED  BY <3>2, <4>2, <4>3 DEF Blocks
    <3>. QED  BY <3>1, <3>2
  <2>5. buf.recs = recs /\ buf.chk = chk
    OBVIOUS
  <2>6. buf \in [recs : Seq(Records), chk : Nat]
    BY <1>2, <2>1
  <2>. HIDE DEF recs, chk, n, buf
  <2>. QED  BY <1>2, <2>1, <2>2, <2>3, <2>4, <2>5, <2>6 DEF Blocks
<1>4. LastPlace(h) = h.wblk * Cap + n /\ NextPlace(h) = last
  BY DEF LastPlace, NextPlace
<1>5. h.wbuf = [recs |-> h.wbuf.recs, chk |-> h.wbuf.chk]
  BY DEF Blocks
<1>6. /\ g = [h EXCEPT !.wbuf = buf, !.cpos = IF cp THEN last ELSE h.cpos]
      /\ h \in Files
  <2>1. [h.wbuf EXCEPT !.recs = recs, !.chk = chk] = buf
    <3>1. h.wbuf \in [recs : Seq(Records), chk : Nat]
      BY DEF Blocks
    <3>. HIDE DEF recs, chk
    <3>. QED  BY <3>1, BlockEdited DEF buf
  <2>2. g = [h EXCEPT !.wbuf = [h.wbuf EXCEPT !.recs = recs, !.chk = chk],
                      !.cpos = IF cp THEN last ELSE h.cpos]
    BY <1>4 DEF Added, FileOK, Files
  <2>. QED  BY <2>1, <2>2 DEF FileOK
<1>. HIDE DEF recs, chk
<1>7. last \in Nat \ {0} /\ BlockOf(last) = h.wblk /\ SlotOf(last) = n + 1
  <2>. HIDE DEF n
  <2>1. last = h.wblk * Cap + (n + 1)
    <3>1. PICK k \in Nat : k = h.wblk * Cap
      <4>1. \A x, y \in Nat : x * y \in Nat
        OBVIOUS
      <4>. QED  BY <4>1
    <3>2. last = k + n + 1
      BY <3>1
    <3>. HIDE DEF last
    <3>3. last = k + (n + 1)
      BY ONLY <1>1, <3>1, <3>2
    <3>. QED  BY <3>1, <3>3
  <2>. QED  BY <1>1, <2>1, PlaceMade, ZenonT(60)
<1>. HIDE DEF last
<1>8. /\ g \in Files /\ g.disk = h.disk /\ g.wblk = h.wblk /\ g.wbuf = buf
      /\ g.cpos = (IF cp THEN last ELSE h.cpos) /\ g.ok = h.ok
  <2>1. h.cpos \in Nat
    BY <1>6 DEF Files
  <2>. HIDE DEF buf
  <2>. QED  BY <1>6, <1>3, <1>7, <2>1 DEF Files
<1>9. FileOK(g)
  BY <1>8 DEF FileOK
<1>10. LastPlace(g) = last
  <2>1. g.wblk = h.wblk /\ Len(g.wbuf.recs) = n + 1
    BY <1>2, <1>8
  <2>. DEFINE base == h.wblk * Cap
  <2>. HIDE DEF n, buf
  <2>2. LastPlace(g) = base + (n + 1) /\ last = base + n + 1 /\ base \in Nat
    BY <2>1 DEF LastPlace, last
  <2>. HIDE DEF base
  <2>. QED  BY <2>2, <1>1
<1>11. \A b \in 0..h.wblk : b # h.wblk => Block(g, b) = Block(h, b)
  BY <1>8 DEF Block
<1>12. Block(g, h.wblk) = buf /\ Block(h, h.wblk) = h.wbuf
  BY <1>8 DEF Block
<1>13. \A p \in Recs(h) : p < last /\ p \in Recs(g) /\ At(g, p) = At(h, p)
  <2>. SUFFICES ASSUME NEW p \in Recs(h)
                PROVE  p < last /\ p \in Recs(g) /\ At(g, p) = At(h, p)
    OBVIOUS
  <2>1. p \in Nat \ {0} /\ BlockOf(p) \in 0..h.wblk /\ p <= LastPlace(h)
    BY RecsType
  <2>2. p < last
    BY <2>1, <1>1, <1>4 DEF last
  <2>3. SlotOf(p) \in 1..Cap /\ SlotOf(p) <= Len(Block(h, BlockOf(p)).recs)
    BY <2>1, PlaceParts DEF Recs
  <2>4. CASE BlockOf(p) # h.wblk
    BY <2>1, <2>2, <2>3, <2>4, <1>8, <1>11, BlockAt DEF Recs
  <2>5. CASE BlockOf(p) = h.wblk
    <3>1. SlotOf(p) \in 1..n
      BY <2>3, <2>5, <1>1, <1>12
    <3>2. SlotOf(p) <= Len(buf.recs) /\ buf.recs[SlotOf(p)] = h.wbuf.recs[SlotOf(p)]
      BY <3>1, <1>1, <1>2
    <3>. QED  BY <2>1, <2>2, <2>5, <3>2, <1>8, <1>12, BlockAt DEF Recs
  <2>. QED  BY <2>4, <2>5
<1>14. last \in Recs(g) /\ At(g, last) = rec
  <2>1. At(g, last) = rec
    BY <1>2, <1>7, <1>12, BlockAt
  <2>2. n + 1 <= Len(buf.recs)
    BY <1>1, <1>2
  <2>3. h.wblk <= h.wblk
    OBVIOUS
  <2>. HIDE DEF buf, n
  <2>. QED  BY <2>1, <2>2, <2>3, <1>7, <1>8, <1>12 DEF Recs
<1>15. ASSUME NEW p \in Recs(g), p # last
       PROVE  p \in Recs(h)
  <2>1. p \in Nat \ {0} /\ BlockOf(p) \in 0..h.wblk /\ SlotOf(p) <= Len(Block(g, BlockOf(p)).recs)
    BY <1>8, <1>9, RecsType DEF Recs
  <2>2. SlotOf(p) \in 1..Cap /\ p = BlockOf(p) * Cap + SlotOf(p)
    BY <2>1, PlaceParts
  <2>3. CASE BlockOf(p) # h.wblk
    BY <2>1, <2>3, <1>11 DEF Recs
  <2>4. CASE BlockOf(p) = h.wblk
    <3>1. SlotOf(p) <= n + 1
      BY <2>1, <2>4, <1>2, <1>12
    <3>2. SlotOf(p) # n + 1
      <4>. DEFINE base == h.wblk * Cap
      <4>1. last = base + n + 1 /\ base \in Nat /\ p = base + SlotOf(p)
        BY <2>2, <2>4 DEF last
      <4>. HIDE DEF base, n
      <4>. QED  BY <2>2, <1>15, <4>1, <1>1
    <3>3. SlotOf(p) <= n
      BY <2>2, <3>1, <3>2, <1>1
    <3>. QED  BY <2>1, <2>4, <3>3, <1>12 DEF Recs
  <2>. QED  BY <2>3, <2>4
<1>16. OneMore(h, g, rec)
  <2>1. Recs(g) = Recs(h) \cup {last}
    BY <1>13, <1>14, <1>15
  <2>2. FoundOn(h, g)
    BY <1>8 DEF FoundOn
  <2>. QED  BY <2>1, <2>2, <1>7, <1>10, <1>13, <1>14 DEF OneMore, Sees
<1>. QED  BY <1>8, <1>9, <1>10, <1>16

\* A write that succeeds adds the record behind all others, one that fails
\* leaves the records as they are.
LEMMA WrittenFacts ==
  ASSUME NEW f, FileOK(f), f.ok, NEW rec \in Records, NEW cp \in BOOLEAN,
         cp => rec \in SnapRecords, ~cp => rec \notin SnapRecords, NEW g, g = Written(f, rec, cp)
  PROVE  /\ FileOK(g)
         /\ ~g.ok => SameRecs(f, g)
         /\ g.ok => /\ OneMore(f, g, rec)
                    /\ g.cpos = IF cp THEN LastPlace(g) ELSE f.cpos
<1>. DEFINE h == IF Len(f.wbuf.recs) = Cap THEN Flushed(f) ELSE f
<1>1. g = IF ~h.ok THEN h ELSE Added(h, rec, cp)
  BY DEF Written, Added
<1>2. /\ FileOK(h) /\ SameRecs(f, h)
      /\ h.ok => Len(h.wbuf.recs) < Cap
  <2>. Cap \in Nat \ {0}
    BY CapType
  <2>1. CASE Len(f.wbuf.recs) = Cap
    <3>1. Len(EmptyBlock.recs) = 0
      BY DEF EmptyBlock
    <3>. QED  BY <2>1, <3>1, FlushedFacts
  <2>2. CASE Len(f.wbuf.recs) # Cap
    <3>1. Len(f.wbuf.recs) <= Cap /\ Len(f.wbuf.recs) \in Nat
      BY DEF FileOK, Files, Blocks
    <3>. QED  BY <2>2, <3>1 DEF SameRecs, Sees, FoundOn
  <2>. QED  BY <2>1, <2>2
<1>. HIDE DEF h
<1>3. CASE ~h.ok
  BY <1>1, <1>2, <1>3
<1>4. CASE h.ok
  <2>. DEFINE a == Added(h, rec, cp)
  <2>1. g = a
    BY <1>1, <1>4
  <2>2. /\ FileOK(a) /\ OneMore(h, a, rec) /\ a.ok = h.ok
        /\ a.cpos = IF cp THEN LastPlace(a) ELSE h.cpos
    <3>. HIDE DEF a
    <3>1. a = Added(h, rec, cp)
      BY DEF a
    <3>2. FileOK(h) /\ Len(h.wbuf.recs) < Cap
      BY <1>2, <1>4
    <3>3. rec \in Records /\ cp \in BOOLEAN
      OBVIOUS
    <3>4. (cp => rec \in SnapRecords) /\ (~cp => rec \notin SnapRecords)
      OBVIOUS
    <3>. QED  BY ONLY <3>1, <3>2, <3>3, <3>4, AddedFacts
  <2>. HIDE DEF a
  <2>3. OneMore(f, a, rec)
    BY <2>2, <1>2 DEF OneMore, SameRecs, Sees, FoundOn
  <2>. QED  BY <2>1, <2>2, <2>3, <1>2, <1>4 DEF SameRecs
<1>. QED  BY <1>3, <1>4

-----------------------------------------------------------------------------
(* What the records refer to.                                               *)

\* w has the path at which the node of each node record was saved.  A record
\* refers to records before it, a node's to those of nodes one step below its
\* path, an agent's to one of a root.
NodeFits(f, w, p, rec) ==
  \A c \in DOMAIN rec.kids :
    /\ IsNode(f, rec.kids[c]) /\ rec.kids[c] < p
    /\ Append(w[p], c) \in Paths /\ w[rec.kids[c]] = Append(w[p], c)
AgentFits(f, w, p, rec) ==
  IsNode(f, rec.root) /\ rec.root < p /\ w[rec.root] = <<>>
SnapFits(f, p, rec) ==
  /\ rec.prev # NoPlace => IsSnap(f, rec.prev) /\ rec.prev < p
  /\ \A a \in rec.agents : IsAgent(f, a) /\ a < p
  /\ \A a, b \in rec.agents : At(f, a).name = At(f, b).name => a = b

Fits(f, w, p, rec) ==
  /\ rec \in NodeRecords => NodeFits(f, w, p, rec)
  /\ rec \in AgentRecords => AgentFits(f, w, p, rec)
  /\ rec \in SnapRecords => SnapFits(f, p, rec)

\* Each snapshot has the place of the one before it.
Chained(f) ==
  \A p : IsSnap(f, p) => /\ p <= f.cpos
                          /\ \A q : IsSnap(f, q) /\ q < p => q <= At(f, p).prev

Good(f, w) ==
  /\ FileOK(f) /\ w \in [Nat -> Paths] /\ Chained(f)
  /\ \A p \in Recs(f) : Fits(f, w, p, At(f, p))
  /\ f.cpos # NoPlace => IsSnap(f, f.cpos)

\* Nothing of f and w is lost in g and v.
Goes(f, w, g, v) ==
  Sees(g, f) /\ FoundOn(f, g) /\ \A p \in Recs(f) : v[p] = w[p]

\* A record of f is in g, and of the same kind.
LEMMA GoesAlong ==
  ASSUME NEW f, NEW w, NEW g, NEW v, Goes(f, w, g, v)
  PROVE  /\ \A p : IsNode(f, p) => IsNode(g, p) /\ At(g, p) = At(f, p) /\ v[p] = w[p]
         /\ \A p : IsAgent(f, p) => IsAgent(g, p) /\ At(g, p) = At(f, p)
         /\ \A p : IsSnap(f, p) => IsSnap(g, p) /\ At(g, p) = At(f, p)
  BY DEF Goes, Sees, IsNode, IsAgent, IsSnap

\* Nothing is lost in two steps if nothing is in each.
LEMMA GoesOn ==
  ASSUME NEW f, NEW w, NEW g, NEW v, NEW h, NEW u, Goes(f, w, g, v), Goes(g, v, h, u)
  PROVE  Goes(f, w, h, u)
  BY DEF Goes, Sees, FoundOn

\* Nothing is lost in none.
LEMMA GoesSame ==
  ASSUME NEW f, NEW w
  PROVE  Goes(f, w, f, w)
  BY DEF Goes, Sees, FoundOn

\* A record that fits goes on to fit.
LEMMA FitsAlong ==
  ASSUME NEW f, NEW w, NEW g, NEW v, Goes(f, w, g, v),
         NEW p, v[p] = w[p], NEW rec, Fits(f, w, p, rec)
  PROVE  Fits(g, v, p, rec)
<1>1. rec \in NodeRecords => NodeFits(g, v, p, rec)
  BY GoesAlong DEF Fits, NodeFits
<1>2. rec \in AgentRecords => AgentFits(g, v, p, rec)
  BY GoesAlong DEF Fits, AgentFits
<1>3. rec \in SnapRecords => SnapFits(g, p, rec)
  <2>. SUFFICES ASSUME rec \in SnapRecords
                PROVE  SnapFits(g, p, rec)
    OBVIOUS
  <2>1. SnapFits(f, p, rec)
    BY DEF Fits
  <2>. QED  BY <2>1, GoesAlong DEF SnapFits
<1>. QED  BY <1>1, <1>2, <1>3 DEF Fits

\* A file with the same records is as good.
LEMMA GoodSame ==
  ASSUME NEW f, NEW w, Good(f, w), NEW g, FileOK(g), SameRecs(f, g)
  PROVE  Good(g, w) /\ Goes(f, w, g, w)
<1>1. Goes(f, w, g, w)
  BY DEF Goes, SameRecs
<1>2. ASSUME NEW p \in Recs(g)
      PROVE  Fits(g, w, p, At(g, p))
  <2>1. p \in Recs(f) /\ At(g, p) = At(f, p)
    BY DEF SameRecs, Sees
  <2>2. Fits(f, w, p, At(f, p))
    BY <2>1 DEF Good
  <2>. QED  BY <2>1, <2>2, <1>1, FitsAlong
<1>3. g.cpos # NoPlace => IsSnap(g, g.cpos)
  BY <1>1, GoesAlong DEF SameRecs, Good
<1>4. \A p : IsSnap(g, p) <=> IsSnap(f, p)
  BY DEF SameRecs, Sees, IsSnap
<1>5. \A p : IsSnap(f, p) => At(g, p) = At(f, p)
  BY DEF SameRecs, Sees, IsSnap
<1>6. Chained(f) /\ g.cpos = f.cpos
  BY DEF Good, SameRecs
<1>7. Chained(g)
  BY <1>4, <1>5, <1>6 DEF Chained
<1>. QED  BY <1>1, <1>2, <1>3, <1>7 DEF Good

\* A record that fits, added behind the others.
LEMMA GoodMore ==
  ASSUME NEW f, NEW w, Good(f, w), NEW g, FileOK(g), NEW rec, OneMore(f, g, rec),
         NEW path \in Paths, NEW v, v = [w EXCEPT ![LastPlace(g)] = path],
         Fits(f, v, LastPlace(g), rec),
         rec \notin SnapRecords => g.cpos = f.cpos,
         rec \in SnapRecords => g.cpos = LastPlace(g) /\ rec.prev = f.cpos
  PROVE  Good(g, v) /\ Goes(f, w, g, v)
<1>. DEFINE last == LastPlace(g)
<1>1. /\ last \in Nat \ {0} /\ Recs(g) = Recs(f) \cup {last} /\ At(g, last) = rec
      /\ Sees(g, f) /\ FoundOn(f, g) /\ \A p \in Recs(f) : p < last
  BY DEF OneMore
<1>. HIDE DEF last
<1>2. v \in [Nat -> Paths] /\ \A p \in Nat : p # last => v[p] = w[p]
  BY <1>1 DEF Good, last
<1>3. Recs(f) \in SUBSET Nat
  BY DEF Recs
<1>4. Goes(f, w, g, v)
  <2>1. \A p \in Recs(f) : p # last
    BY <1>1, <1>3
  <2>. QED  BY <1>1, <1>2, <1>3, <2>1 DEF Goes
<1>5. Goes(f, v, g, v)
  BY <1>1 DEF Goes
<1>6. ASSUME NEW p \in Recs(g)
      PROVE  Fits(g, v, p, At(g, p))
  <2>1. CASE p = last
    BY <1>1, <1>5, <2>1, FitsAlong DEF last
  <2>2. CASE p # last
    <3>1. p \in Recs(f) /\ At(g, p) = At(f, p) /\ v[p] = w[p]
      BY <1>1, <1>4, <2>2 DEF Sees, Goes
    <3>2. Fits(f, w, p, At(f, p))
      BY <3>1 DEF Good
    <3>. QED  BY <3>1, <3>2, <1>4, FitsAlong
  <2>. QED  BY <2>1, <2>2
<1>7. g.cpos # NoPlace => IsSnap(g, g.cpos)
  <2>1. CASE rec \notin SnapRecords
    BY <2>1, <1>4, GoesAlong DEF Good
  <2>2. CASE rec \in SnapRecords
    BY <2>2, <1>1 DEF IsSnap, last
  <2>. QED  BY <2>1, <2>2
<1>8. Chained(g)
  <2>1. Chained(f)
    BY DEF Good
  <2>2. \A p : IsSnap(g, p) => (p = last /\ rec \in SnapRecords) \/ (IsSnap(f, p) /\ At(g, p) = At(f, p))
    BY <1>1 DEF IsSnap, Sees
  <2>3. \A p : IsSnap(f, p) => p \in Nat /\ p < last
    BY <1>1, <1>3 DEF IsSnap
  <2>4. CASE rec \notin SnapRecords
    BY <2>1, <2>2, <2>4 DEF Chained
  <2>5. CASE rec \in SnapRecords
    <3>1. g.cpos = last /\ rec.prev = f.cpos
      BY <2>5 DEF last
    <3>2. ASSUME NEW p, IsSnap(g, p)
          PROVE  p <= last
      BY <1>1, <2>2, <2>3, <3>2
    <3>3. ASSUME NEW p, IsSnap(g, p), NEW q, IsSnap(g, q), q < p
          PROVE  q <= At(g, p).prev
      <4>1. CASE p = last
        <5>1. q # last
          BY <1>1, <3>3, <4>1
        <5>2. IsSnap(f, q)
          BY <2>2, <3>3, <5>1
        <5>3. q <= f.cpos
          BY <2>1, <5>2 DEF Chained
        <5>. QED  BY <1>1, <3>1, <4>1, <5>3
      <4>2. CASE p # last
        <5>1. IsSnap(f, p) /\ At(g, p) = At(f, p) /\ p < last /\ p \in Nat
          BY <2>2, <2>3, <3>3, <4>2
        <5>2. q # last
          BY <1>1, <3>3, <5>1
        <5>3. IsSnap(f, q)
          BY <2>2, <3>3, <5>2
        <5>. QED  BY <2>1, <3>3, <5>1, <5>3 DEF Chained
      <4>. QED  BY <4>1, <4>2
    <3>. QED  BY <3>1, <3>2, <3>3 DEF Chained
  <2>. QED  BY <2>4, <2>5
<1>. QED  BY <1>2, <1>4, <1>6, <1>7, <1>8 DEF Good

\* Writing a record that fits.
LEMMA WrittenGood ==
  ASSUME NEW f, NEW w, Good(f, w), f.ok, NEW rec \in Records, NEW cp \in BOOLEAN,
         cp => rec \in SnapRecords /\ rec.prev = f.cpos, ~cp => rec \notin SnapRecords,
         NEW path \in Paths,
         NEW g, g = Written(f, rec, cp),
         \A last \in Nat : (\A p \in Recs(f) : p < last)
                             => Fits(f, [w EXCEPT ![last] = path], last, rec)
  PROVE  \E v : /\ Good(g, v) /\ Goes(f, w, g, v)
                /\ ~g.ok => SameRecs(f, g)
                /\ g.ok => /\ v = [w EXCEPT ![LastPlace(g)] = path] /\ OneMore(f, g, rec)
                           /\ g.cpos = IF cp THEN LastPlace(g) ELSE f.cpos
<1>1. FileOK(f)
  BY DEF Good
<1>2. /\ FileOK(g)
      /\ ~g.ok => SameRecs(f, g)
      /\ g.ok => /\ OneMore(f, g, rec)
                 /\ g.cpos = IF cp THEN LastPlace(g) ELSE f.cpos
  <2>1. (cp => rec \in SnapRecords) /\ (~cp => rec \notin SnapRecords)
    OBVIOUS
  <2>2. f.ok /\ rec \in Records /\ cp \in BOOLEAN /\ g = Written(f, rec, cp)
    OBVIOUS
  <2>. QED  BY ONLY <1>1, <2>1, <2>2, WrittenFacts
<1>3. CASE ~g.ok
  BY <1>2, <1>3, GoodSame
<1>4. CASE g.ok
  <2>. DEFINE v == [w EXCEPT ![LastPlace(g)] = path]
  <2>1. Fits(f, v, LastPlace(g), rec)
    BY <1>2, <1>4 DEF OneMore
  <2>2. /\ rec \notin SnapRecords => g.cpos = f.cpos
        /\ rec \in SnapRecords => g.cpos = LastPlace(g) /\ rec.prev = f.cpos
    BY <1>2, <1>4
  <2>3. v = [w EXCEPT ![LastPlace(g)] = path]
    OBVIOUS
  <2>. HIDE DEF v
  <2>4. Good(g, v) /\ Goes(f, w, g, v)
    BY <1>2, <1>4, <2>1, <2>2, <2>3, GoodMore
  <2>. QED  BY <1>2, <1>4, <2>3, <2>4
<1>. QED  BY <1>3, <1>4

-----------------------------------------------------------------------------
(* What opening the file finds.                                             *)

\* The file as opening it makes it of a disk.
Reopened(d) == [disk |-> d, wblk |-> FoundBlocks(d), wbuf |-> EmptyBlock,
                cpos |-> FoundPlace(d), room |-> 0, ok |-> TRUE]

\* Opening finds what is in the blocks before the one it goes on with.
LEMMA ReopenedRecs ==
  ASSUME NEW f, FileOK(f), NEW d, d = f.disk
  PROVE  /\ FileOK(Reopened(d))
         /\ Recs(Reopened(d)) = {p \in Recs(f) : BlockOf(p) < FoundBlocks(d)}
         /\ Sees(f, Reopened(d))
         /\ FoundBlocks(d) <= f.wblk
<1>. DEFINE r == Reopened(d)  kept == FoundBlocks(d)
<1>1. /\ d \in Seq(Blocks) /\ f.wblk \in Nat /\ f.wblk <= Len(d)
      /\ \A b \in Marked(d) : b <= f.wblk
  BY DEF FileOK, Files
<1>2. /\ kept \in 0..Len(d) /\ \A b \in Marked(d) : b <= kept
      /\ Marked(d) # {} => kept \in Marked(d)
      /\ Marked(d) = {} => kept = 0
  BY <1>1, FoundFacts
<1>3. kept <= f.wblk
  BY <1>1, <1>2
<1>4. FoundPlace(d) \in Nat
  BY <1>1, FoundPlaceFacts
<1>5. r \in Files
  BY <1>1, <1>2, <1>4, EmptyBlockType DEF Reopened, Files
<1>6. r.disk = d /\ r.wblk = kept /\ r.wbuf = EmptyBlock
  BY DEF Reopened
<1>. HIDE DEF r, kept
<1>7. FileOK(r)
  BY <1>1, <1>2, <1>5, <1>6 DEF FileOK
<1>8. \A b \in Nat : b < kept => Block(r, b) = Block(f, b)
  BY <1>1, <1>2, <1>3, <1>6 DEF Block
<1>9. Recs(r) = {p \in Recs(f) : BlockOf(p) < kept}
  <2>1. ASSUME NEW p \in Nat \ {0}
        PROVE  p \in Recs(r) <=> p \in Recs(f) /\ BlockOf(p) < kept
    <3>1. BlockOf(p) \in Nat /\ SlotOf(p) \in 1..Cap
      BY PlaceParts
    <3>2. CASE BlockOf(p) < kept
      BY <1>1, <1>2, <1>3, <1>6, <1>8, <3>1, <3>2 DEF Recs
    <3>3. CASE BlockOf(p) = kept
      <4>1. Len(Block(r, BlockOf(p)).recs) = 0
        BY <1>6, <3>3 DEF Block, EmptyBlock
      <4>2. ~(SlotOf(p) <= 0)
        BY <3>1, CapType
      <4>. QED  BY <3>1, <3>3, <4>1, <4>2, <1>2 DEF Recs
    <3>4. CASE BlockOf(p) > kept
      BY <1>2, <1>6, <3>1, <3>4 DEF Recs
    <3>. QED  BY <1>2, <3>1, <3>2, <3>3, <3>4
  <2>. QED  BY <2>1 DEF Recs
<1>10. Sees(f, r)
  <2>1. ASSUME NEW p \in Recs(r)
        PROVE  At(f, p) = At(r, p)
    <3>1. BlockOf(p) \in Nat /\ BlockOf(p) < kept
      BY <1>7, <1>9, RecsType
    <3>. QED  BY <1>8, <3>1, BlockAt
  <2>. QED  BY <1>9, <2>1 DEF Sees
<1>. QED  BY <1>3, <1>7, <1>9, <1>10 DEF r, kept

\* A file that is opened again refers to nothing that it has not found.
LEMMA ReopenedGood ==
  ASSUME NEW f, NEW w, Good(f, w), NEW d, d = f.disk
  PROVE  Good(Reopened(d), w) /\ Goes(Reopened(d), w, f, w)
<1>. DEFINE r == Reopened(d)  kept == FoundBlocks(d)
<1>1. FileOK(f) /\ d \in Seq(Blocks)
  BY DEF Good, FileOK, Files
<1>2. /\ FileOK(r) /\ Recs(r) = {p \in Recs(f) : BlockOf(p) < kept}
      /\ Sees(f, r) /\ kept <= f.wblk
  BY <1>1, ReopenedRecs
<1>. HIDE DEF r, kept
<1>3. ASSUME NEW p \in Recs(r), NEW k \in Recs(f), k < p
      PROVE  k \in Recs(r)
  <2>1. p \in Nat \ {0} /\ k \in Nat \ {0} /\ BlockOf(p) < kept
        /\ BlockOf(p) \in Int /\ BlockOf(k) \in Int
    BY <1>1, <1>2, RecsType
  <2>2. BlockOf(k) <= BlockOf(p)
    BY <2>1, <1>3, PlacesInOrder
  <2>3. kept \in Int
    BY <1>1, FoundFacts DEF kept
  <2>. QED  BY <1>2, <2>1, <2>2, <2>3
<1>4. ASSUME NEW p \in Recs(r), NEW k, k < p
      PROVE  /\ IsNode(f, k) => IsNode(r, k)
             /\ IsAgent(f, k) => IsAgent(r, k) /\ At(r, k) = At(f, k)
             /\ IsSnap(f, k) => IsSnap(r, k)
  BY <1>2, <1>3, <1>4 DEF Sees, IsNode, IsAgent, IsSnap
<1>5. ASSUME NEW p \in Recs(r)
      PROVE  Fits(r, w, p, At(r, p))
  <2>. DEFINE rec == At(r, p)
  <2>1. p \in Recs(f) /\ At(f, p) = rec
    BY <1>2 DEF Sees
  <2>. HIDE DEF rec
  <2>2. Fits(f, w, p, rec)
    BY <2>1 DEF Good
  <2>3. rec \in NodeRecords => NodeFits(r, w, p, rec)
    BY <2>2, <1>4 DEF Fits, NodeFits
  <2>4. rec \in AgentRecords => AgentFits(r, w, p, rec)
    BY <2>2, <1>4 DEF Fits, AgentFits
  <2>5. rec \in SnapRecords => SnapFits(r, p, rec)
    <3>. SUFFICES ASSUME rec \in SnapRecords
                  PROVE  SnapFits(r, p, rec)
      OBVIOUS
    <3>1. SnapFits(f, p, rec)
      BY <2>2 DEF Fits
    <3>2. \A a \in rec.agents : IsAgent(r, a) /\ a < p /\ At(r, a) = At(f, a)
      BY <3>1, <1>4 DEF SnapFits
    <3>3. rec.prev # NoPlace => IsSnap(r, rec.prev) /\ rec.prev < p
      BY <3>1, <1>4 DEF SnapFits
    <3>. QED  BY <3>1, <3>2, <3>3 DEF SnapFits
  <2>. QED  BY <2>3, <2>4, <2>5 DEF Fits, rec
<1>6. r.cpos # NoPlace => IsSnap(r, r.cpos)
  <2>1. r.cpos = FoundPlace(d)
    BY DEF r, Reopened
  <2>. SUFFICES ASSUME FoundPlace(d) # NoPlace
                PROVE  IsSnap(r, FoundPlace(d))
    BY <2>1
  <2>. DEFINE place == FoundPlace(d)
  <2>2. Marked(d) # {}
    BY <1>1, FoundPlaceFacts DEF NoPlace
  <2>3. /\ kept \in 1..Len(d) /\ place \in Nat \ {0}
        /\ d[kept].chk <= Len(d[kept].recs) /\ d[kept].recs[d[kept].chk] \in SnapRecords
        /\ BlockOf(place) = kept - 1 /\ SlotOf(place) = d[kept].chk
    BY <1>1, <2>2, FoundPlaceFacts DEF kept
  <2>. HIDE DEF place
  <2>4. r.wblk = kept /\ r.disk = d
    BY DEF r, Reopened, kept
  <2>5. Block(r, BlockOf(place)) = d[kept] /\ BlockOf(place) <= r.wblk
    BY <2>3, <2>4 DEF Block
  <2>6. place \in Recs(r) /\ At(r, place) = d[kept].recs[d[kept].chk]
    BY <2>3, <2>5, BlockAt DEF Recs
  <2>. QED  BY <2>3, <2>6 DEF IsSnap, place
<1>7. w \in [Nat -> Paths]
  BY DEF Good
<1>8. Goes(r, w, f, w)
  <2>1. r.disk = d
    BY DEF r, Reopened
  <2>. QED  BY <1>2, <2>1 DEF Goes, FoundOn
<1>9. Chained(r)
  <2>1. Chained(f)
    BY DEF Good
  <2>2. \A p : IsSnap(r, p) => IsSnap(f, p) /\ At(r, p) = At(f, p)
    BY <1>2 DEF IsSnap, Sees
  <2>3. ASSUME NEW p, IsSnap(r, p)
        PROVE  p <= FoundPlace(d)
    <3>. DEFINE b == BlockOf(p)  s == SlotOf(p)  place == FoundPlace(d)
    <3>1. p \in Recs(r) /\ At(r, p) \in SnapRecords
      BY <2>3 DEF IsSnap
    <3>2. p \in Nat \ {0} /\ b \in Nat /\ s \in 1..Cap /\ b < kept
          /\ s <= Len(Block(r, b).recs)
      BY <1>2, <3>1, PlaceParts DEF Recs
    <3>3. kept \in 0..Len(d)
      BY <1>1, FoundFacts DEF kept
    <3>4. r.wblk = kept /\ r.disk = d
      BY DEF r, Reopened, kept
    <3>5. Block(r, b) = d[b + 1] /\ b + 1 \in 1..Len(d)
      BY <3>2, <3>3, <3>4 DEF Block
    <3>6. Marked(d) # {}
      BY <1>1, <3>2, <3>3, FoundFacts DEF kept
    <3>7. /\ kept \in 1..Len(d) /\ place \in Nat \ {0}
          /\ BlockOf(place) = kept - 1 /\ SlotOf(place) = d[kept].chk
      BY <1>1, <3>6, FoundPlaceFacts DEF kept
    <3>. HIDE DEF b, s, place
    <3>8. CASE b # kept - 1
      <4>1. BlockOf(p) < BlockOf(place)
        BY <3>2, <3>7, <3>8 DEF b
      <4>2. p < place
        BY <3>2, <3>7, <4>1, PlacesInOrder
      <4>. QED  BY <3>2, <3>7, <4>2 DEF place
    <3>9. CASE b = kept - 1
      <4>1. d[kept] \in Blocks /\ s \in 1..Len(d[kept].recs) /\ d[kept].recs[s] \in SnapRecords
        <5>1. b + 1 = kept
          BY <3>7, <3>9
        <5>2. d[kept] \in Blocks
          BY <1>1, <3>7
        <5>3. d[kept].recs \in Seq(Records)
          BY <5>2 DEF Blocks
        <5>4. At(r, p) = d[kept].recs[s]
          BY <3>5, <5>1, BlockAt DEF b, s
        <5>. QED  BY <3>1, <3>2, <3>5, <5>1, <5>2, <5>3, <5>4
      <4>2. s <= d[kept].chk
        BY <4>1 DEF Blocks
      <4>3. SlotOf(place) \in 1..Cap /\ BlockOf(place) = BlockOf(p)
        BY <3>7, <3>9, PlaceParts DEF b
      <4>4. CASE s = SlotOf(place)
        <5>1. p = BlockOf(p) * Cap + SlotOf(p) /\ place = BlockOf(place) * Cap + SlotOf(place)
          BY <3>2, <3>7, PlaceParts
        <5>2. p = place
          BY <5>1, <4>3, <4>4 DEF s
        <5>. QED  BY <3>7, <5>2 DEF place
      <4>5. CASE s # SlotOf(place)
        <5>1. SlotOf(p) < SlotOf(place)
          BY <3>2, <3>7, <4>2, <4>3, <4>5 DEF s
        <5>2. p < place
          BY <3>2, <3>7, <4>3, <5>1, PlacesInOrder
        <5>. QED  BY <3>2, <3>7, <5>2 DEF place
      <4>. QED  BY <4>4, <4>5
    <3>. QED  BY <3>8, <3>9
  <2>4. r.cpos = FoundPlace(d)
    BY DEF r, Reopened
  <2>. QED  BY <2>1, <2>2, <2>3, <2>4 DEF Chained
<1>. QED  BY <1>2, <1>5, <1>6, <1>7, <1>8, <1>9 DEF Good, r

-----------------------------------------------------------------------------
(* Paths.                                                                   *)

\* Paths are sequences of numbers, closed under parents.
LEMMA PathsType ==
  /\ Paths \subseteq Seq(Nat) /\ <<>> \in Paths
  /\ \A p \in Paths : p # <<>> => Front(p) \in Paths
  BY PathsAssumption

\* A path that is not empty is its front and its last step.
LEMMA FrontLast ==
  ASSUME NEW p \in Seq(Nat), p # <<>>
  PROVE  /\ Len(p) \in Nat \ {0} /\ Front(p) \in Seq(Nat) /\ Len(Front(p)) = Len(p) - 1
         /\ \A i \in 1..(Len(p) - 1) : Front(p)[i] = p[i]
         /\ Last(p) \in Nat /\ Last(p) = p[Len(p)]
         /\ p = Append(Front(p), Last(p))
<1>1. Len(p) \in Nat \ {0}
  BY EmptySeq
<1>2. \A i \in 1..(Len(p) - 1) : p[i] \in Nat
  BY <1>1
<1>3. /\ SubSeq(p, 1, Len(p) - 1) \in Seq(Nat)
      /\ Len(SubSeq(p, 1, Len(p) - 1)) = IF 1 <= Len(p) - 1 THEN Len(p) - 1 - 1 + 1 ELSE 0
      /\ \A i \in 1..(Len(p) - 1 - 1 + 1) : SubSeq(p, 1, Len(p) - 1)[i] = p[1 + i - 1]
  BY <1>1, <1>2, SubSeqProperties
<1>4. /\ Front(p) \in Seq(Nat) /\ Len(Front(p)) = Len(p) - 1
      /\ \A i \in 1..(Len(p) - 1) : Front(p)[i] = p[i]
  <2>1. Front(p) = SubSeq(p, 1, Len(p) - 1)
    BY DEF Front
  <2>2. \A i \in 1..(Len(p) - 1) : i \in 1..(Len(p) - 1 - 1 + 1) /\ 1 + i - 1 = i
    BY <1>1
  <2>3. Len(Front(p)) = Len(p) - 1
    <3>1. \A n \in Nat \ {0} : (IF 1 <= n - 1 THEN n - 1 - 1 + 1 ELSE 0) = n - 1
      OBVIOUS
    <3>2. Len(Front(p)) = IF 1 <= Len(p) - 1 THEN Len(p) - 1 - 1 + 1 ELSE 0
      BY <1>3, <2>1
    <3>. QED  BY <1>1, <3>1, <3>2
  <2>. QED  BY <1>3, <2>1, <2>2, <2>3
<1>5. Last(p) \in Nat /\ Last(p) = p[Len(p)]
  BY <1>1 DEF Last
<1>6. p = Append(Front(p), Last(p))
  <2>1. /\ Append(Front(p), Last(p)) \in Seq(Nat)
        /\ Len(Append(Front(p), Last(p))) = Len(Front(p)) + 1
        /\ \A i \in 1..Len(Front(p)) : Append(Front(p), Last(p))[i] = Front(p)[i]
        /\ Append(Front(p), Last(p))[Len(Front(p)) + 1] = Last(p)
    BY <1>4, <1>5, AppendProperties
  <2>2. Len(p) = Len(Append(Front(p), Last(p)))
    BY <1>1, <1>4, <2>1
  <2>3. \A i \in 1..Len(p) : p[i] = Append(Front(p), Last(p))[i]
    BY <1>1, <1>4, <1>5, <2>1
  <2>. QED  BY <2>1, <2>2, <2>3, SeqEqual
<1>. QED  BY <1>1, <1>4, <1>5, <1>6

\* A path with a step more has a front and a last step.
LEMMA AppendedPath ==
  ASSUME NEW p \in Seq(Nat), NEW c \in Nat
  PROVE  /\ Append(p, c) \in Seq(Nat) /\ Append(p, c) # <<>>
         /\ Front(Append(p, c)) = p /\ Last(Append(p, c)) = c
<1>. DEFINE q == Append(p, c)
<1>1. /\ q \in Seq(Nat) /\ q # <<>> /\ Len(q) = Len(p) + 1
      /\ \A i \in 1..Len(p) : q[i] = p[i]
      /\ q[Len(p) + 1] = c
  BY AppendProperties
<1>. HIDE DEF q
<1>2. /\ Front(q) \in Seq(Nat) /\ Len(Front(q)) = Len(q) - 1
      /\ \A i \in 1..(Len(q) - 1) : Front(q)[i] = q[i]
      /\ Last(q) = q[Len(q)]
  BY <1>1, FrontLast
<1>3. Front(q) = p
  <2>1. Len(Front(q)) = Len(p) /\ \A i \in 1..Len(Front(q)) : Front(q)[i] = p[i]
    BY <1>1, <1>2
  <2>. QED  BY <1>2, <2>1, SeqEqual
<1>. QED  BY <1>1, <1>2, <1>3 DEF q

\* One path is above another if it agrees with its beginning.
LEMMA PrefixIs ==
  ASSUME NEW q \in Seq(Nat), NEW p \in Seq(Nat)
  PROVE  IsPrefix(q, p) <=> Len(q) <= Len(p) /\ \A i \in 1..Len(q) : q[i] = p[i]
<1>. Len(q) \in Nat /\ Len(p) \in Nat
  OBVIOUS
<1>. SUFFICES ASSUME Len(q) <= Len(p)
              PROVE  SubSeq(q, 1, Len(q)) = SubSeq(p, 1, Len(q)) <=> \A i \in 1..Len(q) : q[i] = p[i]
  BY DEF IsPrefix
<1>1. \A i \in 1..Len(q) : q[i] \in Nat /\ p[i] \in Nat
  OBVIOUS
<1>2. /\ SubSeq(q, 1, Len(q)) \in Seq(Nat)
      /\ Len(SubSeq(q, 1, Len(q))) = IF 1 <= Len(q) THEN Len(q) - 1 + 1 ELSE 0
      /\ \A i \in 1..(Len(q) - 1 + 1) : SubSeq(q, 1, Len(q))[i] = q[1 + i - 1]
  BY <1>1, SubSeqProperties
<1>3. /\ SubSeq(p, 1, Len(q)) \in Seq(Nat)
      /\ Len(SubSeq(p, 1, Len(q))) = IF 1 <= Len(q) THEN Len(q) - 1 + 1 ELSE 0
      /\ \A i \in 1..(Len(q) - 1 + 1) : SubSeq(p, 1, Len(q))[i] = p[1 + i - 1]
  BY <1>1, SubSeqProperties
<1>. DEFINE a == SubSeq(q, 1, Len(q))  b == SubSeq(p, 1, Len(q))
<1>4. /\ a \in Seq(Nat) /\ Len(a) = Len(q) /\ \A i \in 1..Len(q) : a[i] = q[i]
      /\ b \in Seq(Nat) /\ Len(b) = Len(q) /\ \A i \in 1..Len(q) : b[i] = p[i]
  <2>1. \A i \in 1..Len(q) : i \in 1..(Len(q) - 1 + 1) /\ 1 + i - 1 = i
    OBVIOUS
  <2>2. (IF 1 <= Len(q) THEN Len(q) - 1 + 1 ELSE 0) = Len(q)
    OBVIOUS
  <2>. QED  BY <1>2, <1>3, <2>1, <2>2
<1>. HIDE DEF a, b
<1>5. a = b <=> \A i \in 1..Len(q) : q[i] = p[i]
  BY <1>4, SeqEqual
<1>. QED  BY <1>5 DEF a, b

\* The prefixes of a path are it and what is above it.
LEMMA PrefixFacts ==
  ASSUME NEW p \in Seq(Nat), NEW q \in Seq(Nat)
  PROVE  /\ IsPrefix(p, p) /\ IsPrefix(<<>>, p)
         /\ p # <<>> => IsPrefix(Front(p), p) /\ Front(p) # p
         /\ q # <<>> /\ IsPrefix(q, p) => IsPrefix(Front(q), p)
         /\ p # <<>> /\ IsPrefix(q, Front(p)) => IsPrefix(q, p)
         /\ p # <<>> /\ IsPrefix(q, p) /\ q # p => IsPrefix(q, Front(p))
         /\ IsPrefix(p, q) /\ IsPrefix(q, p) => p = q
<1>. Len(p) \in Nat /\ Len(q) \in Nat
  OBVIOUS
<1>1. IsPrefix(p, p)
  BY PrefixIs
<1>2. IsPrefix(<<>>, p)
  <2>1. <<>> \in Seq(Nat) /\ Len(<<>>) = 0 /\ 1..0 = {}
    OBVIOUS
  <2>2. Len(<<>>) <= Len(p) /\ \A i \in 1..Len(<<>>) : <<>>[i] = p[i]
    BY <2>1
  <2>. QED  BY <2>1, <2>2, PrefixIs
<1>3. ASSUME p # <<>>
      PROVE  IsPrefix(Front(p), p) /\ Front(p) # p
  <2>1. Front(p) \in Seq(Nat) /\ Len(Front(p)) = Len(p) - 1
        /\ \A i \in 1..(Len(p) - 1) : Front(p)[i] = p[i]
    BY <1>3, FrontLast
  <2>2. Len(Front(p)) <= Len(p) /\ \A i \in 1..Len(Front(p)) : Front(p)[i] = p[i]
    BY <2>1
  <2>3. Len(Front(p)) # Len(p)
    BY <2>1
  <2>. QED  BY <2>1, <2>2, <2>3, PrefixIs
<1>4. ASSUME q # <<>>, IsPrefix(q, p)
      PROVE  IsPrefix(Front(q), p)
  <2>1. Len(q) <= Len(p) /\ \A i \in 1..Len(q) : q[i] = p[i]
    BY <1>4, PrefixIs
  <2>2. Front(q) \in Seq(Nat) /\ Len(Front(q)) = Len(q) - 1
        /\ \A i \in 1..(Len(q) - 1) : Front(q)[i] = q[i]
    BY <1>4, FrontLast
  <2>3. Len(Front(q)) <= Len(p) /\ \A i \in 1..Len(Front(q)) : Front(q)[i] = p[i]
    BY <2>1, <2>2
  <2>. QED  BY <2>2, <2>3, PrefixIs
<1>5. ASSUME p # <<>>, IsPrefix(q, Front(p))
      PROVE  IsPrefix(q, p)
  <2>1. Front(p) \in Seq(Nat) /\ Len(Front(p)) = Len(p) - 1
        /\ \A i \in 1..(Len(p) - 1) : Front(p)[i] = p[i]
    BY <1>5, FrontLast
  <2>2. Len(q) <= Len(Front(p)) /\ \A i \in 1..Len(q) : q[i] = Front(p)[i]
    BY <2>1, <1>5, PrefixIs
  <2>3. Len(q) <= Len(p) /\ \A i \in 1..Len(q) : q[i] = p[i]
    BY <2>1, <2>2
  <2>. QED  BY <2>3, PrefixIs
<1>6. ASSUME p # <<>>, IsPrefix(q, p), q # p
      PROVE  IsPrefix(q, Front(p))
  <2>1. Front(p) \in Seq(Nat) /\ Len(Front(p)) = Len(p) - 1
        /\ \A i \in 1..(Len(p) - 1) : Front(p)[i] = p[i]
    BY <1>6, FrontLast
  <2>2. Len(q) <= Len(p) /\ \A i \in 1..Len(q) : q[i] = p[i]
    BY <1>6, PrefixIs
  <2>3. Len(q) # Len(p)
    BY <2>2, <1>6, SeqEqual
  <2>4. Len(q) <= Len(Front(p)) /\ \A i \in 1..Len(q) : q[i] = Front(p)[i]
    BY <2>1, <2>2, <2>3
  <2>. QED  BY <2>1, <2>4, PrefixIs
<1>7. ASSUME IsPrefix(p, q), IsPrefix(q, p)
      PROVE  p = q
  <2>1. Len(p) = Len(q) /\ \A i \in 1..Len(q) : q[i] = p[i]
    BY <1>7, PrefixIs
  <2>. QED  BY <2>1, SeqEqual
<1>. QED  BY <1>1, <1>2, <1>3, <1>4, <1>5, <1>6, <1>7

\* The order has each path once, and what is above a path behind it.
LEMMA OrderFacts ==
  /\ Order \in Seq(Paths) /\ Len(Order) \in Nat
  /\ \A p \in Paths : \E i \in 1..Len(Order) : Order[i] = p
  /\ \A i, k \in 1..Len(Order) : Order[i] = Order[k] => i = k
  /\ \A i, k \in 1..Len(Order) : Order[i] # <<>> /\ Order[k] = Front(Order[i]) => i < k
<1>1. Order \in Seq(Paths) /\ Len(Order) \in Nat /\ DOMAIN Order = 1..Len(Order)
      /\ Range(Order) = Paths
      /\ \A i, k \in DOMAIN Order : IsPrefix(Order[i], Order[k]) => k <= i
  BY PathsAssumption
<1>2. \A i \in 1..Len(Order) : Order[i] \in Paths /\ Order[i] \in Seq(Nat)
  BY <1>1, PathsType
<1>3. \A p \in Paths : \E i \in 1..Len(Order) : Order[i] = p
  BY <1>1 DEF Range
<1>4. \A i, k \in 1..Len(Order) : Order[i] = Order[k] => i = k
  <2>. SUFFICES ASSUME NEW i \in 1..Len(Order), NEW k \in 1..Len(Order), Order[i] = Order[k]
                PROVE  i = k
    OBVIOUS
  <2>1. IsPrefix(Order[i], Order[k]) /\ IsPrefix(Order[k], Order[i])
    BY <1>2, PrefixFacts
  <2>2. k <= i /\ i <= k
    BY <1>1, <2>1
  <2>. QED  BY <2>2
<1>5. \A i, k \in 1..Len(Order) : Order[i] # <<>> /\ Order[k] = Front(Order[i]) => i < k
  <2>. SUFFICES ASSUME NEW i \in 1..Len(Order), NEW k \in 1..Len(Order),
                       Order[i] # <<>>, Order[k] = Front(Order[i])
                PROVE  i < k
    OBVIOUS
  <2>1. IsPrefix(Order[k], Order[i]) /\ Order[k] # Order[i]
    BY <1>2, PrefixFacts
  <2>2. i <= k /\ i # k
    BY <1>1, <2>1
  <2>. QED  BY <2>2
<1>. QED  BY <1>1, <1>3, <1>4, <1>5

-----------------------------------------------------------------------------
(* Trees in memory.                                                         *)

Nodes == [val : Values, pos : Nat]

IsTree(t) ==
  /\ DOMAIN t \subseteq Paths /\ t \in [DOMAIN t -> Nodes]
  /\ DOMAIN t # {} => <<>> \in DOMAIN t
  /\ \A p \in DOMAIN t : p # <<>> => Front(p) \in DOMAIN t

KidPlaces(t, p) == [c \in {Last(q) : q \in Kids(t, p)} |-> t[Append(p, c)].pos]

\* What a node has that says that it has not changed.
IsSaved(f, w, t, p) ==
  /\ IsNode(f, t[p].pos) /\ w[t[p].pos] = p
  /\ At(f, t[p].pos) = [val |-> t[p].val, kids |-> KidPlaces(t, p)]

TreeOK(f, w, t) ==
  IsTree(t) /\ \A p \in DOMAIN t : t[p].pos # NoPlace => IsSaved(f, w, t, p)

\* A child is one step below its parent.
LEMMA KidFacts ==
  ASSUME NEW t, DOMAIN t \subseteq Paths, NEW p \in Paths, NEW q \in Kids(t, p)
  PROVE  /\ q \in DOMAIN t /\ q \in Paths /\ q # <<>> /\ Front(q) = p
         /\ q = Append(p, Last(q)) /\ Last(q) \in Steps
<1>1. q \in DOMAIN t /\ q \in Paths /\ q # <<>> /\ Front(q) = p
  BY DEF Kids
<1>2. q \in Seq(Nat)
  BY <1>1, PathsType
<1>. QED  BY <1>1, <1>2, FrontLast DEF Steps

\* A step with a place is that of a child.
LEMMA KidAtPlace ==
  ASSUME NEW t, DOMAIN t \subseteq Paths, NEW p \in Paths, NEW c \in DOMAIN KidPlaces(t, p)
  PROVE  /\ Append(p, c) \in Kids(t, p) /\ Last(Append(p, c)) = c /\ c \in Steps
         /\ KidPlaces(t, p)[c] = t[Append(p, c)].pos
<1>1. c \in {Last(q) : q \in Kids(t, p)}
  BY DEF KidPlaces
<1>2. PICK q \in Kids(t, p) : c = Last(q)
  BY <1>1
<1>3. q = Append(p, Last(q)) /\ Last(q) \in Steps
  BY <1>2, KidFacts
<1>4. q = Append(p, c)
  BY <1>2, <1>3
<1>. QED  BY <1>1, <1>2, <1>3, <1>4 DEF KidPlaces

\* A child has its place among those of its parent.
LEMMA KidPlaceOf ==
  ASSUME NEW t, DOMAIN t \subseteq Paths, NEW p \in Paths, NEW q \in Kids(t, p)
  PROVE  Last(q) \in DOMAIN KidPlaces(t, p) /\ KidPlaces(t, p)[Last(q)] = t[q].pos
<1>1. Last(q) \in DOMAIN KidPlaces(t, p)
  BY DEF KidPlaces
<1>2. KidPlaces(t, p)[Last(q)] = t[Append(p, Last(q))].pos
  BY <1>1, KidAtPlace
<1>3. q = Append(p, Last(q))
  BY KidFacts
<1>. QED  BY <1>1, <1>2, <1>3

\* The places of the children are what a record may have.
LEMMA KidPlacesType ==
  ASSUME NEW t, IsTree(t), NEW p \in Paths
  PROVE  KidPlaces(t, p) \in KidMaps
<1>. DOMAIN t \subseteq Paths
  BY DEF IsTree
<1>1. DOMAIN KidPlaces(t, p) \subseteq Steps
  BY KidAtPlace
<1>2. \A c \in DOMAIN KidPlaces(t, p) : KidPlaces(t, p)[c] \in Nat
  <2>1. \A q \in Kids(t, p) : t[q].pos \in Nat
    BY KidFacts DEF IsTree, Nodes
  <2>2. \A c \in DOMAIN KidPlaces(t, p) : /\ Append(p, c) \in Kids(t, p)
                                         /\ KidPlaces(t, p)[c] = t[Append(p, c)].pos
    BY KidAtPlace
  <2>. QED  BY <2>1, <2>2
<1>3. KidPlaces(t, p) = [c \in DOMAIN KidPlaces(t, p) |-> KidPlaces(t, p)[c]]
  BY DEF KidPlaces
<1>. DEFINE k == KidPlaces(t, p)
<1>. HIDE DEF k
<1>4. k \in [DOMAIN k -> Nat] /\ DOMAIN k \subseteq Steps
  BY <1>1, <1>2, <1>3 DEF k
<1>. QED  BY <1>4 DEF KidMaps, k

\* The same children at the same places.
LEMMA SameKidPlaces ==
  ASSUME NEW t, DOMAIN t \subseteq Paths, NEW u, NEW p \in Paths, Kids(t, p) = Kids(u, p),
         \A q \in Kids(t, p) : t[q].pos = u[q].pos
  PROVE  KidPlaces(t, p) = KidPlaces(u, p)
<1>1. \A c \in {Last(q) : q \in Kids(t, p)} : Append(p, c) \in Kids(t, p)
  BY KidAtPlace DEF KidPlaces
<1>2. \A c \in {Last(q) : q \in Kids(t, p)} : t[Append(p, c)].pos = u[Append(p, c)].pos
  BY <1>1
<1>. QED  BY <1>2 DEF KidPlaces

\* The children of a node that has not changed have not changed.
LEMMA KidsAreSaved ==
  ASSUME NEW f, NEW w, Good(f, w), NEW t, TreeOK(f, w, t),
         NEW p \in DOMAIN t, t[p].pos # NoPlace, NEW q \in Kids(t, p)
  PROVE  t[q].pos # NoPlace
<1>. DEFINE place == t[p].pos  rec == At(f, place)
<1>1. DOMAIN t \subseteq Paths /\ p \in Paths
  BY DEF TreeOK, IsTree
<1>2. IsNode(f, place) /\ rec = [val |-> t[p].val, kids |-> KidPlaces(t, p)]
  BY DEF TreeOK, IsSaved
<1>3. place \in Recs(f) /\ rec \in NodeRecords
  BY <1>2 DEF IsNode
<1>4. NodeFits(f, w, place, rec)
  BY <1>3 DEF Good, Fits
<1>5. Last(q) \in DOMAIN rec.kids /\ rec.kids[Last(q)] = t[q].pos
  <2>1. rec.kids = KidPlaces(t, p)
    BY <1>2
  <2>2. Last(q) \in DOMAIN KidPlaces(t, p) /\ KidPlaces(t, p)[Last(q)] = t[q].pos
    BY <1>1, KidPlaceOf
  <2>. QED  BY <2>1, <2>2
<1>6. IsNode(f, t[q].pos)
  <2>. HIDE DEF rec
  <2>. QED  BY <1>4, <1>5 DEF NodeFits
<1>7. t[q].pos \in Nat \ {0}
  BY <1>6 DEF IsNode, Recs
<1>. QED  BY <1>7 DEF NoPlace

\* A node that is saved stays saved.
LEMMA SavedAlong ==
  ASSUME NEW f, NEW w, NEW g, NEW v, Goes(f, w, g, v), NEW t, NEW p, IsSaved(f, w, t, p)
  PROVE  IsSaved(g, v, t, p)
  BY GoesAlong DEF IsSaved

\* A tree of saved and unsaved nodes stays one.
LEMMA TreeAlong ==
  ASSUME NEW f, NEW w, NEW g, NEW v, Goes(f, w, g, v), NEW t, TreeOK(f, w, t)
  PROVE  TreeOK(g, v, t)
  BY SavedAlong DEF TreeOK

\* What does not say that it has changed has not, nor have its children.
LEMMA ChangedTree ==
  ASSUME NEW f, NEW w, NEW t, TreeOK(f, w, t), NEW u, IsTree(u),
         \A q \in DOMAIN u : u[q].pos # NoPlace =>
           /\ q \in DOMAIN t /\ u[q] = t[q] /\ Kids(u, q) = Kids(t, q)
           /\ \A k \in Kids(t, q) : u[k].pos = t[k].pos
  PROVE  TreeOK(f, w, u)
<1>. SUFFICES ASSUME NEW q \in DOMAIN u, u[q].pos # NoPlace
              PROVE  IsSaved(f, w, u, q)
  BY DEF TreeOK
<1>1. /\ q \in DOMAIN t /\ u[q] = t[q] /\ Kids(u, q) = Kids(t, q)
      /\ \A k \in Kids(t, q) : u[k].pos = t[k].pos
  OBVIOUS
<1>2. IsSaved(f, w, t, q)
  BY <1>1 DEF TreeOK
<1>3. KidPlaces(u, q) = KidPlaces(t, q)
  <2>1. q \in Paths /\ DOMAIN t \subseteq Paths
    BY <1>1 DEF TreeOK, IsTree
  <2>. QED  BY <1>1, <2>1, SameKidPlaces
<1>. QED  BY <1>1, <1>2, <1>3 DEF IsSaved

\* What dirty() does: values stay, and what is above loses its place.
LEMMA DirtiedIs ==
  ASSUME NEW t, IsTree(t), NEW p \in Paths
  PROVE  /\ IsTree(Dirtied(t, p)) /\ DOMAIN Dirtied(t, p) = DOMAIN t
         /\ \A q \in DOMAIN t : /\ Dirtied(t, p)[q].val = t[q].val
                                /\ IsPrefix(q, p) => Dirtied(t, p)[q].pos = NoPlace
                                /\ ~IsPrefix(q, p) => Dirtied(t, p)[q] = t[q]
<1>. DEFINE u == Dirtied(t, p)
<1>1. DOMAIN u = DOMAIN t
  BY DEF Dirtied
<1>2. \A q \in DOMAIN t : u[q] = IF IsPrefix(q, p) THEN [t[q] EXCEPT !.pos = NoPlace] ELSE t[q]
  BY DEF Dirtied
<1>3. \A q \in DOMAIN t : t[q] \in Nodes
  BY DEF IsTree
<1>4. \A n \in Nodes : /\ [n EXCEPT !.pos = NoPlace] \in Nodes
                       /\ [n EXCEPT !.pos = NoPlace].val = n.val
                       /\ [n EXCEPT !.pos = NoPlace].pos = NoPlace
  BY DEF Nodes, NoPlace
<1>5. u = [q \in DOMAIN u |-> u[q]]
  BY DEF Dirtied
<1>. HIDE DEF u
<1>6. u \in [DOMAIN u -> Nodes]
  BY <1>1, <1>2, <1>3, <1>4, <1>5
<1>7. IsTree(u)
  BY <1>1, <1>6 DEF IsTree
<1>8. \A q \in DOMAIN t : /\ u[q].val = t[q].val
                          /\ IsPrefix(q, p) => u[q].pos = NoPlace
                          /\ ~IsPrefix(q, p) => u[q] = t[q]
  BY <1>2, <1>3, <1>4
<1>. QED  BY <1>1, <1>7, <1>8 DEF u

\* After dirty() what says that it is saved still is.
LEMMA DirtiedOK ==
  ASSUME NEW f, NEW w, NEW t, TreeOK(f, w, t), NEW p \in Paths
  PROVE  TreeOK(f, w, Dirtied(t, p))
<1>. DEFINE u == Dirtied(t, p)
<1>1. IsTree(t)
  BY DEF TreeOK
<1>2. /\ IsTree(u) /\ DOMAIN u = DOMAIN t
      /\ \A q \in DOMAIN t : /\ IsPrefix(q, p) => u[q].pos = NoPlace
                             /\ ~IsPrefix(q, p) => u[q] = t[q]
  BY <1>1, DirtiedIs
<1>. HIDE DEF u
<1>3. ASSUME NEW q \in DOMAIN u, u[q].pos # NoPlace
      PROVE  /\ q \in DOMAIN t /\ u[q] = t[q] /\ Kids(u, q) = Kids(t, q)
             /\ \A k \in Kids(t, q) : u[k].pos = t[k].pos
  <2>1. q \in DOMAIN t /\ u[q] = t[q] /\ ~IsPrefix(q, p)
    BY <1>2, <1>3
  <2>2. Kids(u, q) = Kids(t, q)
    BY <1>2 DEF Kids
  <2>3. ASSUME NEW k \in Kids(t, q)
        PROVE  u[k].pos = t[k].pos
    <3>1. k \in DOMAIN t /\ k # <<>> /\ Front(k) = q /\ k \in Seq(Nat) /\ p \in Seq(Nat)
      BY <1>1, PathsType DEF Kids, IsTree
    <3>2. ~IsPrefix(k, p)
      BY <2>1, <3>1, PrefixFacts
    <3>. QED  BY <1>2, <3>1, <3>2
  <2>. QED  BY <2>1, <2>2, <2>3
<1>4. TreeOK(f, w, u)
  BY <1>2, <1>3, ChangedTree
<1>. QED  BY <1>4 DEF u

\* After set_data() what says that it is saved still is.
LEMMA WithValueOK ==
  ASSUME NEW f, NEW w, NEW t, TreeOK(f, w, t), <<>> \in DOMAIN t,
         NEW p \in Paths, p = <<>> \/ Front(p) \in DOMAIN t, NEW v \in Values
  PROVE  TreeOK(f, w, WithValue(t, p, v)) /\ <<>> \in DOMAIN WithValue(t, p, v)
<1>1. CASE p \in DOMAIN t /\ t[p].val = v
  BY <1>1 DEF WithValue
<1>2. CASE ~(p \in DOMAIN t /\ t[p].val = v)
  <2>. DEFINE new == [val |-> v, pos |-> NoPlace]  m == With(t, p, new)  u == Dirtied(m, p)
  <2>1. WithValue(t, p, v) = u
    BY <1>2 DEF WithValue
  <2>2. IsTree(t) /\ DOMAIN t \subseteq Paths
    BY DEF TreeOK, IsTree
  <2>3. new \in Nodes
    BY DEF Nodes, NoPlace
  <2>. HIDE DEF new
  <2>4. /\ DOMAIN m = DOMAIN t \cup {p} /\ m = [q \in DOMAIN m |-> m[q]]
        /\ \A q \in DOMAIN m : m[q] = IF q = p THEN new ELSE t[q]
    BY DEF With
  <2>. HIDE DEF m
  <2>5. IsTree(m)
    <3>1. \A q \in DOMAIN m : m[q] \in Nodes
      BY <2>2, <2>3, <2>4 DEF IsTree
    <3>2. m \in [DOMAIN m -> Nodes]
      BY <2>4, <3>1
    <3>3. \A q \in DOMAIN m : q # <<>> => Front(q) \in DOMAIN m
      BY <2>2, <2>4 DEF IsTree
    <3>4. DOMAIN m \subseteq Paths /\ <<>> \in DOMAIN m
      BY <2>2, <2>4
    <3>. QED  BY <3>2, <3>3, <3>4 DEF IsTree
  <2>6. /\ IsTree(u) /\ DOMAIN u = DOMAIN m
        /\ \A q \in DOMAIN m : /\ IsPrefix(q, p) => u[q].pos = NoPlace
                               /\ ~IsPrefix(q, p) => u[q] = m[q]
    BY <2>5, DirtiedIs
  <2>. HIDE DEF u
  <2>7. ASSUME NEW q \in DOMAIN u, u[q].pos # NoPlace
        PROVE  /\ q \in DOMAIN t /\ u[q] = t[q] /\ Kids(u, q) = Kids(t, q)
               /\ \A k \in Kids(t, q) : u[k].pos = t[k].pos
    <3>. p \in Seq(Nat) /\ q \in Seq(Nat) /\ q \in Paths
      BY <2>5, <2>6, PathsType DEF IsTree
    <3>1. q \in DOMAIN m /\ u[q] = m[q] /\ ~IsPrefix(q, p)
      BY <2>6, <2>7
    <3>2. q # p
      BY <3>1, PrefixFacts
    <3>3. q \in DOMAIN t /\ u[q] = t[q]
      BY <2>4, <3>1, <3>2
    <3>4. \A k \in Kids(u, q) : k # p /\ ~IsPrefix(k, p)
      <4>. SUFFICES ASSUME NEW k \in Kids(u, q)
                    PROVE  k # p /\ ~IsPrefix(k, p)
        OBVIOUS
      <4>1. k \in DOMAIN m /\ k # <<>> /\ Front(k) = q /\ k \in Seq(Nat)
        BY <2>5, <2>6, PathsType DEF Kids, IsTree
      <4>. QED  BY <3>1, <4>1, PrefixFacts
    <3>5. Kids(u, q) = Kids(t, q)
      BY <2>4, <2>6, <3>4 DEF Kids
    <3>6. \A k \in Kids(t, q) : u[k].pos = t[k].pos
      <4>. SUFFICES ASSUME NEW k \in Kids(t, q)
                    PROVE  u[k].pos = t[k].pos
        OBVIOUS
      <4>1. k \in DOMAIN t /\ k # p /\ ~IsPrefix(k, p)
        BY <3>4, <3>5 DEF Kids
      <4>. QED  BY <2>4, <2>6, <4>1
    <3>. QED  BY <3>3, <3>5, <3>6
  <2>8. TreeOK(f, w, u)
    BY <2>6, <2>7, ChangedTree
  <2>9. <<>> \in DOMAIN u
    BY <2>4, <2>6
  <2>. QED  BY <2>1, <2>8, <2>9
<1>. QED  BY <1>1, <1>2

\* After erase_child() what says that it is saved still is.
LEMMA WithoutOK ==
  ASSUME NEW f, NEW w, NEW t, TreeOK(f, w, t), <<>> \in DOMAIN t,
         NEW p \in DOMAIN t, p # <<>>
  PROVE  TreeOK(f, w, Without(t, p)) /\ <<>> \in DOMAIN Without(t, p)
<1>. DEFINE m == Dirtied(t, Front(p))  D == {q \in DOMAIN t : ~IsPrefix(p, q)}  u == Without(t, p)
<1>1. IsTree(t) /\ DOMAIN t \subseteq Paths /\ p \in Paths /\ p \in Seq(Nat)
  BY PathsType DEF TreeOK, IsTree
<1>2. Front(p) \in Paths
  BY <1>1, PathsType
<1>3. /\ IsTree(m) /\ DOMAIN m = DOMAIN t
      /\ \A q \in DOMAIN t : /\ IsPrefix(q, Front(p)) => m[q].pos = NoPlace
                             /\ ~IsPrefix(q, Front(p)) => m[q] = t[q]
  BY <1>1, <1>2, DirtiedIs
<1>. HIDE DEF m
<1>4. DOMAIN u = D /\ (\A q \in D : u[q] = m[q]) /\ u = [q \in D |-> m[q]]
  BY DEF Without, Restrict, m
<1>. HIDE DEF u
<1>5. \A q \in D : q \in DOMAIN t /\ q \in Paths /\ q \in Seq(Nat) /\ ~IsPrefix(p, q)
  BY <1>1, PathsType
<1>6. <<>> \in D
  <2>1. ~IsPrefix(p, <<>>)
    <3>1. <<>> \in Seq(Nat)
      OBVIOUS
    <3>. QED  BY <1>1, <3>1, PrefixFacts
  <2>. QED  BY <2>1
<1>7. \A q \in D : q # <<>> => Front(q) \in D
  <2>. SUFFICES ASSUME NEW q \in D, q # <<>>
                PROVE  Front(q) \in D
    OBVIOUS
  <2>1. Front(q) \in DOMAIN t
    BY <1>1 DEF IsTree
  <2>2. ~IsPrefix(p, Front(q))
    BY <1>1, <1>5, PrefixFacts
  <2>. QED  BY <2>1, <2>2
<1>8. IsTree(u)
  <2>1. \A q \in D : m[q] \in Nodes
    BY <1>3 DEF IsTree
  <2>2. u \in [D -> Nodes]
    BY <1>4, <2>1
  <2>. HIDE DEF D
  <2>. QED  BY <1>4, <1>5, <1>6, <1>7, <2>2 DEF IsTree
<1>9. ASSUME NEW q \in DOMAIN u, u[q].pos # NoPlace
      PROVE  /\ q \in DOMAIN t /\ u[q] = t[q] /\ Kids(u, q) = Kids(t, q)
             /\ \A k \in Kids(t, q) : u[k].pos = t[k].pos
  <2>1. /\ q \in D /\ q \in DOMAIN t /\ q \in Paths /\ q \in Seq(Nat)
        /\ ~IsPrefix(p, q) /\ ~IsPrefix(q, Front(p)) /\ u[q] = t[q]
    BY <1>3, <1>4, <1>5, <1>9
  <2>2. \A k \in Kids(t, q) : k \in D /\ u[k] = t[k]
    <3>. SUFFICES ASSUME NEW k \in Kids(t, q)
                  PROVE  k \in D /\ u[k] = t[k]
      OBVIOUS
    <3>1. k \in DOMAIN t /\ k \in Seq(Nat) /\ k # <<>> /\ Front(k) = q
      BY <1>1, PathsType DEF Kids
    <3>2. ~IsPrefix(p, k)
      <4>1. k # p
        <5>1. Front(p) \in Seq(Nat)
          BY <1>2, PathsType
        <5>2. IsPrefix(Front(p), Front(p))
          BY <5>1, PrefixFacts
        <5>. QED  BY <2>1, <3>1, <5>2
      <4>. QED  BY <1>1, <2>1, <3>1, <4>1, PrefixFacts
    <3>3. ~IsPrefix(k, Front(p))
      <4>1. Front(p) \in Seq(Nat)
        BY <1>2, PathsType
      <4>. QED  BY <2>1, <3>1, <4>1, PrefixFacts
    <3>4. k \in D
      BY <3>1, <3>2
    <3>. QED  BY <1>3, <1>4, <3>1, <3>3, <3>4
  <2>3. Kids(u, q) = Kids(t, q)
    <3>1. Kids(u, q) \subseteq Kids(t, q)
      BY <1>4, <1>5 DEF Kids
    <3>2. Kids(t, q) \subseteq Kids(u, q)
      BY <1>4, <2>2 DEF Kids
    <3>. QED  BY <3>1, <3>2
  <2>. QED  BY <2>1, <2>2, <2>3
<1>10. TreeOK(f, w, u)
  BY <1>8, <1>9, ChangedTree
<1>. QED  BY <1>4, <1>6, <1>10 DEF u

\* A copied tree is a tree of unsaved nodes.
LEMMA CopiedOK ==
  ASSUME NEW f, NEW w, NEW t, IsTree(t), <<>> \in DOMAIN t
  PROVE  TreeOK(f, w, Copied(t)) /\ <<>> \in DOMAIN Copied(t)
<1>. DEFINE u == Copied(t)
<1>1. /\ DOMAIN u = DOMAIN t /\ u = [p \in DOMAIN t |-> [val |-> t[p].val, pos |-> NoPlace]]
      /\ \A p \in DOMAIN t : u[p].pos = NoPlace
  BY DEF Copied
<1>2. \A p \in DOMAIN t : [val |-> t[p].val, pos |-> NoPlace] \in Nodes
  BY DEF IsTree, Nodes, NoPlace
<1>. HIDE DEF u
<1>3. u \in [DOMAIN u -> Nodes]
  BY <1>1, <1>2
<1>4. IsTree(u)
  BY <1>1, <1>3 DEF IsTree
<1>. QED  BY <1>1, <1>4 DEF TreeOK, u

\* That of a new agent is as well.
LEMMA NewTreeOK ==
  ASSUME NEW f, NEW w, NEW name, NEW type
  PROVE  /\ TreeOK(f, w, NewAgent(name, type).tree)
         /\ <<>> \in DOMAIN NewAgent(name, type).tree
<1>. DEFINE u == NewAgent(name, type).tree
<1>1. u = [p \in {<<>>} |-> NewNode]
  BY DEF NewAgent
<1>2. NewNode \in Nodes /\ NewNode.pos = NoPlace
  BY SizesAssumption DEF NewNode, Nodes, NoPlace
<1>. HIDE DEF u
<1>3. DOMAIN u = {<<>>} /\ u \in [DOMAIN u -> Nodes] /\ u[<<>>] = NewNode
  BY <1>1, <1>2
<1>4. IsTree(u)
  BY <1>3, PathsType DEF IsTree
<1>. QED  BY <1>2, <1>3, <1>4 DEF TreeOK, u

-----------------------------------------------------------------------------
(* Trees as they are loaded.                                                *)

\* The place of a path's record, from where a function has that of its parent.
PlaceBy(f, place, g, p) ==
  IF p = <<>> THEN place
  ELSE IF g[Front(p)] = NoPlace \/ Last(p) \notin DOMAIN At(f, g[Front(p)]).kids
         THEN NoPlace ELSE At(f, g[Front(p)]).kids[Last(p)]

\* What TreeAt defines by recursion exists: the places can be found path by
\* path, what is above a path before it.
LEMMA PlacesExist ==
  ASSUME NEW f, NEW place
  PROVE  \E g : g = [p \in Paths |-> PlaceBy(f, place, g, p)]
<1>. DEFINE N == Len(Order)
            Upto(g, j) == \A i \in 1..N : i > N - j => g[Order[i]] = PlaceBy(f, place, g, Order[i])
            Fun(g) == DOMAIN g = Paths /\ g = [p \in Paths |-> g[p]]
            H == {j \in Nat : \E g : Fun(g) /\ Upto(g, j)}
<1>. N \in Nat
  BY OrderFacts
<1>0. 0 \in H
  <2>1. Fun([p \in Paths |-> 0]) /\ Upto([p \in Paths |-> 0], 0)
    OBVIOUS
  <2>. QED  BY <2>1
<1>1. ASSUME NEW j \in 1..N, j - 1 \in H
      PROVE  j \in H
  <2>1. PICK g : Fun(g) /\ Upto(g, j - 1)
    BY <1>1
  <2>. DEFINE n == N - j + 1  x == PlaceBy(f, place, g, Order[n])
              h == [p \in Paths |-> IF p = Order[n] THEN x ELSE g[p]]
  <2>2. n \in 1..N
    OBVIOUS
  <2>. HIDE DEF x
  <2>3. ASSUME NEW i \in 1..N, i >= n
        PROVE  PlaceBy(f, place, h, Order[i]) = PlaceBy(f, place, g, Order[i])
    <3>1. CASE Order[i] = <<>>
      BY <3>1 DEF PlaceBy
    <3>2. CASE Order[i] # <<>>
      <4>1. Order[i] \in Paths /\ Front(Order[i]) \in Paths
        <5>1. Order[i] \in Paths
          BY OrderFacts
        <5>. QED  BY <3>2, <5>1, PathsType
      <4>2. Front(Order[i]) # Order[n]
        <5>. SUFFICES ASSUME Order[n] = Front(Order[i])
                      PROVE  FALSE
          OBVIOUS
        <5>1. i < n
          BY <2>2, <3>2, OrderFacts
        <5>. QED  BY <5>1, <2>2, <2>3
      <4>3. h[Front(Order[i])] = g[Front(Order[i])]
        BY <4>1, <4>2
      <4>. HIDE DEF h, n
      <4>. QED  BY <4>3, <3>2 DEF PlaceBy
    <3>. QED  BY <3>1, <3>2
  <2>4. ASSUME NEW i \in 1..N, i > N - j
        PROVE  h[Order[i]] = PlaceBy(f, place, h, Order[i])
    <3>1. i >= n /\ Order[i] \in Paths
      BY <2>4, OrderFacts
    <3>2. CASE i = n
      BY <2>3, <3>1, <3>2 DEF x
    <3>3. CASE i # n
      <4>1. Order[i] # Order[n]
        BY <2>2, <3>3, OrderFacts
      <4>2. h[Order[i]] = g[Order[i]]
        BY <3>1, <4>1
      <4>3. i > N - (j - 1)
        BY <3>1, <3>3
      <4>. HIDE DEF h
      <4>. QED  BY <2>1, <2>3, <3>1, <4>2, <4>3
    <3>. QED  BY <3>2, <3>3
  <2>5. Fun(h)
    OBVIOUS
  <2>. HIDE DEF h
  <2>. QED  BY <2>4, <2>5
<1>2. H \in SUBSET Nat
  OBVIOUS
<1>3. \A i \in 1..N : i - 1 \in H => i \in H
  BY <1>1
<1>4. N \in H
  <2>. HIDE DEF H, N
  <2>. QED  BY <1>0, <1>2, <1>3, UpTo
<1>5. PICK g : Fun(g) /\ Upto(g, N)
  BY <1>4
<1>6. \A p \in Paths : g[p] = PlaceBy(f, place, g, p)
  <2>. SUFFICES ASSUME NEW p \in Paths
                PROVE  g[p] = PlaceBy(f, place, g, p)
    OBVIOUS
  <2>1. PICK i \in 1..N : Order[i] = p
    BY OrderFacts
  <2>2. i > N - N
    OBVIOUS
  <2>. QED  BY <1>5, <2>1, <2>2
<1>7. g = [p \in Paths |-> PlaceBy(f, place, g, p)]
  <2>1. g = [p \in Paths |-> g[p]]
    BY <1>5
  <2>2. [p \in Paths |-> g[p]] = [p \in Paths |-> PlaceBy(f, place, g, p)]
    BY <1>6
  <2>. QED  BY ONLY <2>1, <2>2
<1>. QED  BY <1>7

\* A tree that is loaded is a function to nodes.
LEMMA TreeAtFun ==
  ASSUME NEW f, NEW place
  PROVE  /\ TreeAt(f, place) = [p \in DOMAIN TreeAt(f, place) |-> TreeAt(f, place)[p]]
         /\ \A p \in DOMAIN TreeAt(f, place) :
              TreeAt(f, place)[p] = [val |-> TreeAt(f, place)[p].val,
                                     pos |-> TreeAt(f, place)[p].pos]
  BY DEF TreeAt

\* g has the places of the paths of a tree.
HasPlaces(f, place, t, g) ==
  /\ \A p \in Paths : g[p] = PlaceBy(f, place, g, p)
  /\ DOMAIN t = {q \in Paths : g[q] # NoPlace}
  /\ \A p \in DOMAIN t : t[p].val = At(f, g[p]).val /\ t[p].pos = g[p]

\* A tree is read from the places of its paths.
LEMMA TreeAtIs ==
  ASSUME NEW f, NEW place
  PROVE  \E g : HasPlaces(f, place, TreeAt(f, place), g)
<1>. DEFINE Eqn(g) == g = [p \in Paths |->
              IF p = <<>> THEN place
              ELSE LET parent == g[Front(p)]
                   IN  IF parent = NoPlace \/ Last(p) \notin DOMAIN At(f, parent).kids
                         THEN NoPlace ELSE At(f, parent).kids[Last(p)]]
            g == CHOOSE g : Eqn(g)
<1>1. \E h : Eqn(h)
  <2>1. \A h, p : PlaceBy(f, place, h, p) =
          IF p = <<>> THEN place
          ELSE LET parent == h[Front(p)]
               IN  IF parent = NoPlace \/ Last(p) \notin DOMAIN At(f, parent).kids
                     THEN NoPlace ELSE At(f, parent).kids[Last(p)]
    BY DEF PlaceBy
  <2>2. PICK h : h = [p \in Paths |-> PlaceBy(f, place, h, p)]
    BY PlacesExist
  <2>3. Eqn(h)
    BY <2>1, <2>2
  <2>. QED  BY <2>3
<1>2. Eqn(g)
  BY <1>1
<1>3. TreeAt(f, place) = [p \in {q \in Paths : g[q] # NoPlace} |->
                            [val |-> At(f, g[p]).val, pos |-> g[p]]]
  BY DEF TreeAt
<1>. HIDE DEF g
<1>4. \A p \in Paths : g[p] = PlaceBy(f, place, g, p)
  BY <1>2 DEF PlaceBy
<1>. DEFINE t == TreeAt(f, place)
<1>5. t = [p \in {q \in Paths : g[q] # NoPlace} |-> [val |-> At(f, g[p]).val, pos |-> g[p]]]
  BY <1>3
<1>. HIDE DEF t
<1>6. /\ DOMAIN t = {q \in Paths : g[q] # NoPlace}
      /\ \A p \in DOMAIN t : t[p].val = At(f, g[p]).val /\ t[p].pos = g[p]
  BY <1>5
<1>7. HasPlaces(f, place, t, g)
  BY <1>4, <1>6 DEF HasPlaces
<1>. QED  BY <1>7 DEF t

\* What holds of the root and of each path below one of which it holds, holds
\* of all paths.
LEMMA FromAbove ==
  ASSUME NEW A \in SUBSET Paths, <<>> \in A,
         \A p \in Paths : p # <<>> /\ Front(p) \in A => p \in A
  PROVE  \A p \in Paths : p \in A
<1>. DEFINE S == {n \in Nat : \E p \in Paths : p \notin A /\ Len(p) = n}
<1>. SUFFICES ASSUME NEW bad \in Paths, bad \notin A
              PROVE  FALSE
  OBVIOUS
<1>1. S \in SUBSET Nat /\ S # {}
  <2>1. Len(bad) \in Nat
    BY PathsType
  <2>2. Len(bad) \in S
    BY <2>1
  <2>. QED  BY <2>2
<1>2. PICK m \in S : \A k \in S : m <= k
  <2>. HIDE DEF S
  <2>. QED  BY <1>1, Least
<1>3. PICK p \in Paths : p \notin A /\ Len(p) = m
  BY <1>2
<1>4. p # <<>> /\ p \in Seq(Nat)
  BY <1>3, PathsType
<1>5. Front(p) \in Paths /\ Len(Front(p)) = Len(p) - 1 /\ Len(p) \in Nat \ {0}
  BY <1>4, PathsType, FrontLast
<1>6. Front(p) \notin A
  BY <1>3, <1>4
<1>7. Len(p) - 1 \in S
  BY <1>5, <1>6
<1>. QED  BY <1>2, <1>3, <1>5, <1>7

\* What a node record has.
LEMMA NodeParts ==
  ASSUME NEW rec \in NodeRecords
  PROVE  /\ rec = [val |-> rec.val, kids |-> rec.kids] /\ rec.val \in Values
         /\ rec.kids = [c \in DOMAIN rec.kids |-> rec.kids[c]]
         /\ \A c \in DOMAIN rec.kids : rec.kids[c] \in Nat /\ c \in Steps
<1>1. rec = [val |-> rec.val, kids |-> rec.kids] /\ rec.val \in Values /\ rec.kids \in KidMaps
  BY DEF NodeRecords
<1>2. PICK D \in SUBSET Steps : rec.kids \in [D -> Nat]
  BY <1>1 DEF KidMaps
<1>. QED  BY <1>1, <1>2

\* A tree that is loaded is saved.
LEMMA TreeAtOK ==
  ASSUME NEW f, NEW w, Good(f, w), NEW place, IsNode(f, place), w[place] = <<>>
  PROVE  /\ TreeOK(f, w, TreeAt(f, place))
         /\ <<>> \in DOMAIN TreeAt(f, place) /\ TreeAt(f, place)[<<>>].pos = place
<1>. DEFINE t == TreeAt(f, place)
<1>0. /\ t = [p \in DOMAIN t |-> t[p]]
      /\ \A p \in DOMAIN t : t[p] = [val |-> t[p].val, pos |-> t[p].pos]
  BY TreeAtFun
<1>1. PICK g : HasPlaces(f, place, t, g)
  BY TreeAtIs
<1>. HIDE DEF t
<1>2. /\ DOMAIN t = {q \in Paths : g[q] # NoPlace}
      /\ \A p \in DOMAIN t : t[p].val = At(f, g[p]).val /\ t[p].pos = g[p]
      /\ \A p \in Paths : g[p] = PlaceBy(f, place, g, p)
  BY <1>1 DEF HasPlaces
<1>3. <<>> \in Paths /\ Paths \subseteq Seq(Nat)
  BY PathsType
<1>4. g[<<>>] = place
  BY <1>2, <1>3 DEF PlaceBy
<1>. DEFINE A == {p \in Paths : g[p] # NoPlace => IsNode(f, g[p]) /\ w[g[p]] = p}
<1>5. \A p \in Paths : p \in A
  <2>1. <<>> \in A
    BY <1>3, <1>4
  <2>2. ASSUME NEW p \in Paths, p # <<>>, Front(p) \in A
        PROVE  p \in A
    <3>. SUFFICES ASSUME g[p] # NoPlace
                  PROVE  IsNode(f, g[p]) /\ w[g[p]] = p
      OBVIOUS
    <3>. DEFINE parent == g[Front(p)]  rec == At(f, parent)  c == Last(p)
    <3>1. parent # NoPlace /\ c \in DOMAIN rec.kids /\ g[p] = rec.kids[c]
      BY <1>2, <2>2 DEF PlaceBy
    <3>2. IsNode(f, parent) /\ w[parent] = Front(p)
      BY <2>2, <3>1
    <3>3. parent \in Recs(f) /\ rec \in NodeRecords
      BY <3>2 DEF IsNode
    <3>4. NodeFits(f, w, parent, rec)
      BY <3>3 DEF Good, Fits
    <3>5. p = Append(Front(p), c)
      BY <1>3, <2>2, FrontLast
    <3>. HIDE DEF parent, rec, c
    <3>6. IsNode(f, rec.kids[c]) /\ w[rec.kids[c]] = Append(w[parent], c)
      BY <3>1, <3>4 DEF NodeFits
    <3>. QED  BY <3>1, <3>2, <3>5, <3>6
  <2>3. A \in SUBSET Paths
    OBVIOUS
  <2>. HIDE DEF A
  <2>. QED  BY <2>1, <2>2, <2>3, FromAbove
<1>6. \A p \in DOMAIN t : IsNode(f, g[p]) /\ w[g[p]] = p
  BY <1>2, <1>5
<1>7. \A p \in DOMAIN t : /\ g[p] \in Recs(f) /\ At(f, g[p]) \in NodeRecords
                          /\ g[p] \in Nat \ {0}
  BY <1>6 DEF IsNode, Recs
<1>8. \A p \in Paths : g[p] # NoPlace => p \in DOMAIN t
  BY <1>2
<1>9. <<>> \in DOMAIN t /\ t[<<>>].pos = place
  <2>1. place # NoPlace
    BY DEF IsNode, Recs, NoPlace
  <2>. QED  BY <1>2, <1>3, <1>4, <1>8, <2>1
<1>10. IsTree(t)
  <2>1. \A p \in DOMAIN t : t[p] \in Nodes
    <3>. SUFFICES ASSUME NEW p \in DOMAIN t
                  PROVE  t[p] \in Nodes
      OBVIOUS
    <3>1. At(f, g[p]).val \in Values
      BY <1>7, NodeParts
    <3>2. [val |-> At(f, g[p]).val, pos |-> g[p]] \in Nodes
      BY <1>7, <3>1 DEF Nodes
    <3>. QED  BY <1>0, <1>2, <3>2
  <2>2. t \in [DOMAIN t -> Nodes]
    BY <1>0, <2>1
  <2>3. \A p \in DOMAIN t : p # <<>> => Front(p) \in DOMAIN t
    <3>. SUFFICES ASSUME NEW p \in DOMAIN t, p # <<>>
                  PROVE  Front(p) \in DOMAIN t
      OBVIOUS
    <3>1. p \in Paths /\ g[p] # NoPlace /\ Front(p) \in Paths
      BY <1>2, PathsType
    <3>2. g[Front(p)] # NoPlace
      BY <1>2, <3>1 DEF PlaceBy
    <3>. QED  BY <1>8, <3>1, <3>2
  <2>4. DOMAIN t \subseteq Paths
    BY <1>2
  <2>. QED  BY <1>9, <2>2, <2>3, <2>4 DEF IsTree
<1>11. ASSUME NEW p \in DOMAIN t
       PROVE  IsSaved(f, w, t, p)
  <2>. DEFINE rec == At(f, g[p])
  <2>1. /\ p \in Paths /\ p \in Seq(Nat) /\ g[p] \in Recs(f) /\ rec \in NodeRecords /\ w[g[p]] = p
        /\ t[p].val = rec.val /\ t[p].pos = g[p] /\ IsNode(f, g[p])
        /\ g[p] # NoPlace
    BY <1>2, <1>3, <1>6, <1>7
  <2>2. NodeFits(f, w, g[p], rec)
    BY <2>1 DEF Good, Fits
  <2>. HIDE DEF rec
  <2>3. \A c \in DOMAIN rec.kids : /\ Append(p, c) \in Paths
                                   /\ rec.kids[c] # NoPlace /\ c \in Nat
    <3>. SUFFICES ASSUME NEW c \in DOMAIN rec.kids
                  PROVE  /\ Append(p, c) \in Paths
                         /\ rec.kids[c] # NoPlace /\ c \in Nat
      OBVIOUS
    <3>1. Append(p, c) \in Paths /\ IsNode(f, rec.kids[c])
      BY <2>1, <2>2 DEF NodeFits
    <3>2. rec.kids[c] # NoPlace
      BY <3>1 DEF IsNode, Recs, NoPlace
    <3>3. c \in Steps
      BY <2>1, NodeParts
    <3>4. c \in Nat
      <4>1. PICK q \in Paths \ {<<>>} : c = Last(q)
        BY <3>3 DEF Steps
      <4>. QED  BY <1>3, <4>1, FrontLast
    <3>. QED  BY <3>1, <3>2, <3>4
  <2>4. ASSUME NEW c \in DOMAIN rec.kids
        PROVE  Append(p, c) \in Kids(t, p) /\ c = Last(Append(p, c)) /\ t[Append(p, c)].pos = rec.kids[c]
    <3>. DEFINE q == Append(p, c)
    <3>1. q \in Paths /\ rec.kids[c] # NoPlace /\ c \in Nat
      BY <2>3
    <3>2. q # <<>> /\ Front(q) = p /\ Last(q) = c
      BY <2>1, <3>1, AppendedPath
    <3>. HIDE DEF q
    <3>3. g[q] = PlaceBy(f, place, g, q)
      BY <1>2, <3>1
    <3>4. g[q] = rec.kids[c]
      BY <2>1, <3>2, <3>3 DEF PlaceBy, rec
    <3>5. q \in DOMAIN t
      BY <1>8, <3>1, <3>4
    <3>6. t[q].pos = rec.kids[c]
      BY <1>2, <3>4, <3>5
    <3>. QED  BY <3>2, <3>5, <3>6 DEF Kids, q
  <2>5. ASSUME NEW q \in Kids(t, p)
        PROVE  Last(q) \in DOMAIN rec.kids
    <3>1. q \in Paths /\ g[q] # NoPlace /\ q # <<>> /\ Front(q) = p
      BY <1>2 DEF Kids
    <3>. QED  BY <1>2, <3>1 DEF PlaceBy, rec
  <2>6. DOMAIN rec.kids = {Last(q) : q \in Kids(t, p)}
    <3>1. \A c \in DOMAIN rec.kids : c \in {Last(q) : q \in Kids(t, p)}
      BY <2>4
    <3>. QED  BY <2>5, <3>1
  <2>7. rec.kids = KidPlaces(t, p)
    <3>1. rec.kids = [c \in DOMAIN rec.kids |-> rec.kids[c]]
      BY <2>1, NodeParts
    <3>2. [c \in DOMAIN rec.kids |-> rec.kids[c]] = [c \in DOMAIN rec.kids |-> t[Append(p, c)].pos]
      BY <2>4
    <3>. QED  BY <2>6, <3>1, <3>2 DEF KidPlaces
  <2>8. rec = [val |-> t[p].val, kids |-> KidPlaces(t, p)]
    <3>1. rec = [val |-> rec.val, kids |-> rec.kids]
      BY <2>1, NodeParts
    <3>. QED  BY <2>1, <2>7, <3>1
  <2>. QED  BY <2>1, <2>8 DEF IsSaved, rec
<1>. QED  BY <1>9, <1>10, <1>11 DEF TreeOK, t

-----------------------------------------------------------------------------
(* Agents in memory.                                                        *)

Trees == {t \in UNION {[D -> Nodes] : D \in SUBSET Paths} : IsTree(t)}
AgentObjs == [name : Names, type : Types, pos : Nat, chk : Nat, tree : Trees]

\* The agent's record, if it has one, is of its name and type.
AgentOK(f, w, a) ==
  /\ a \in AgentObjs /\ TreeOK(f, w, a.tree)
  /\ ~IsLoaded(a) => a.pos # NoPlace
  /\ a.pos # NoPlace => /\ IsAgent(f, a.pos)
                        /\ At(f, a.pos).name = a.name /\ At(f, a.pos).type = a.type
  /\ a.chk # NoPlace => IsAgent(f, a.chk)

\* If neither the agent nor its root has changed, its record has its root.
Rooted(f, a) ==
  a.pos # NoPlace /\ IsLoaded(a) /\ a.tree[<<>>].pos # NoPlace
    => At(f, a.pos).root = a.tree[<<>>].pos

\* Trees are the functions that are trees.
LEMMA TreesAre ==
  ASSUME NEW t
  PROVE  t \in Trees <=> IsTree(t)
<1>1. IsTree(t) => t \in [DOMAIN t -> Nodes] /\ DOMAIN t \in SUBSET Paths
  BY DEF IsTree
<1>2. IsTree(t) => t \in UNION {[D -> Nodes] : D \in SUBSET Paths}
  BY <1>1
<1>. QED  BY <1>2 DEF Trees

\* A tree that is loaded has a root.
LEMMA RootIs ==
  ASSUME NEW a, a \in AgentObjs
  PROVE  IsTree(a.tree) /\ (IsLoaded(a) <=> <<>> \in DOMAIN a.tree)
<1>1. IsTree(a.tree)
  BY TreesAre DEF AgentObjs
<1>. QED  BY <1>1 DEF IsTree, IsLoaded

\* An agent with one field changed.
LEMMA AgentEdits ==
  ASSUME NEW a \in AgentObjs
  PROVE  /\ \A t \in Trees :
              /\ [a EXCEPT !.tree = t] \in AgentObjs
              /\ [a EXCEPT !.tree = t].name = a.name /\ [a EXCEPT !.tree = t].type = a.type
              /\ [a EXCEPT !.tree = t].pos = a.pos /\ [a EXCEPT !.tree = t].chk = a.chk
              /\ [a EXCEPT !.tree = t].tree = t
         /\ \A n \in Nat :
              /\ [a EXCEPT !.pos = n] \in AgentObjs
              /\ [a EXCEPT !.pos = n].name = a.name /\ [a EXCEPT !.pos = n].type = a.type
              /\ [a EXCEPT !.pos = n].pos = n /\ [a EXCEPT !.pos = n].chk = a.chk
              /\ [a EXCEPT !.pos = n].tree = a.tree
         /\ \A n \in Nat :
              /\ [a EXCEPT !.chk = n] \in AgentObjs
              /\ [a EXCEPT !.chk = n].name = a.name /\ [a EXCEPT !.chk = n].type = a.type
              /\ [a EXCEPT !.chk = n].pos = a.pos /\ [a EXCEPT !.chk = n].chk = n
              /\ [a EXCEPT !.chk = n].tree = a.tree
         /\ \A n \in Types :
              /\ [a EXCEPT !.type = n] \in AgentObjs
              /\ [a EXCEPT !.type = n].name = a.name /\ [a EXCEPT !.type = n].type = n
              /\ [a EXCEPT !.type = n].pos = a.pos /\ [a EXCEPT !.type = n].chk = a.chk
              /\ [a EXCEPT !.type = n].tree = a.tree
  BY DEF AgentObjs

\* An agent whose record is in f has it in g.
LEMMA AgentAlong ==
  ASSUME NEW f, NEW w, NEW g, NEW v, Goes(f, w, g, v), NEW a, AgentOK(f, w, a)
  PROVE  AgentOK(g, v, a) /\ (Rooted(f, a) => Rooted(g, a))
<1>1. TreeOK(g, v, a.tree)
  BY TreeAlong DEF AgentOK
<1>2. a.pos # NoPlace => IsAgent(f, a.pos) /\ IsAgent(g, a.pos) /\ At(g, a.pos) = At(f, a.pos)
  BY GoesAlong DEF AgentOK
<1>3. a.chk # NoPlace => IsAgent(g, a.chk)
  BY GoesAlong DEF AgentOK
<1>4. AgentOK(g, v, a)
  BY <1>1, <1>2, <1>3 DEF AgentOK
<1>5. Rooted(f, a) => Rooted(g, a)
  BY <1>2 DEF Rooted
<1>. QED  BY <1>4, <1>5

\* What an agent record has.
LEMMA AgentParts ==
  ASSUME NEW rec \in AgentRecords
  PROVE  rec.name \in Names /\ rec.type \in Types /\ rec.root \in Nat
  BY DEF AgentRecords

\* Loading an agent's tree changes nothing else of it.
LEMMA LoadedOK ==
  ASSUME NEW f, NEW w, Good(f, w), NEW a, AgentOK(f, w, a)
  PROVE  /\ AgentOK(f, w, Loaded(f, a)) /\ IsLoaded(Loaded(f, a))
         /\ <<>> \in DOMAIN Loaded(f, a).tree
         /\ Loaded(f, a).name = a.name /\ Loaded(f, a).type = a.type
         /\ Loaded(f, a).pos = a.pos /\ Loaded(f, a).chk = a.chk
         /\ Rooted(f, a) => Rooted(f, Loaded(f, a))
         /\ IsDirty(Loaded(f, a)) <=> IsDirty(a)
         /\ IsLoaded(a) => Loaded(f, a) = a
<1>. a \in AgentObjs
  BY DEF AgentOK
<1>1. CASE IsLoaded(a)
  BY <1>1, RootIs DEF Loaded
<1>2. CASE ~IsLoaded(a)
  <2>. DEFINE root == At(f, a.pos).root  t == TreeAt(f, root)  b == [a EXCEPT !.tree = t]
  <2>1. Loaded(f, a) = b
    BY <1>2 DEF Loaded
  <2>2. a.pos # NoPlace /\ IsAgent(f, a.pos)
    BY <1>2 DEF AgentOK
  <2>3. a.pos \in Recs(f) /\ At(f, a.pos) \in AgentRecords
    BY <2>2 DEF IsAgent
  <2>4. Fits(f, w, a.pos, At(f, a.pos))
    BY <2>3 DEF Good
  <2>5. IsNode(f, root) /\ w[root] = <<>>
    BY <2>3, <2>4 DEF Fits, AgentFits
  <2>. HIDE DEF root
  <2>6. TreeOK(f, w, t) /\ <<>> \in DOMAIN t /\ t[<<>>].pos = root
    BY <2>5, TreeAtOK
  <2>. HIDE DEF t
  <2>7. t \in Trees
    BY <2>6, TreesAre DEF TreeOK
  <2>8. /\ b \in AgentObjs /\ b.name = a.name /\ b.type = a.type
        /\ b.pos = a.pos /\ b.chk = a.chk /\ b.tree = t
    BY <2>7, AgentEdits
  <2>. HIDE DEF b
  <2>9. AgentOK(f, w, b)
    BY <2>2, <2>6, <2>8 DEF AgentOK
  <2>10. IsLoaded(b) /\ <<>> \in DOMAIN b.tree
    BY <2>6, <2>8 DEF IsLoaded
  <2>11. root # NoPlace
    BY <2>5 DEF IsNode, Recs, NoPlace
  <2>12. Rooted(f, b)
    BY <2>6, <2>8 DEF Rooted, root
  <2>13. ~IsDirty(b) /\ ~IsDirty(a)
    BY <1>2, <2>2, <2>6, <2>8, <2>11 DEF IsDirty
  <2>. QED  BY <1>2, <2>1, <2>8, <2>9, <2>10, <2>12, <2>13
<1>. QED  BY <1>1, <1>2

\* An agent with another tree, and one with its record to be written again.
LEMMA NewTreeIn ==
  ASSUME NEW f, NEW w, NEW a, AgentOK(f, w, a), NEW t, TreeOK(f, w, t), <<>> \in DOMAIN t
  PROVE  AgentOK(f, w, [a EXCEPT !.tree = t])
<1>. DEFINE b == [a EXCEPT !.tree = t]
<1>1. a \in AgentObjs /\ t \in Trees
  BY TreesAre DEF AgentOK, TreeOK
<1>2. /\ b \in AgentObjs /\ b.name = a.name /\ b.type = a.type
      /\ b.pos = a.pos /\ b.chk = a.chk /\ b.tree = t
  BY <1>1, AgentEdits
<1>. HIDE DEF b
<1>3. IsLoaded(b)
  BY <1>2 DEF IsLoaded
<1>4. AgentOK(f, w, b)
  BY <1>2, <1>3 DEF AgentOK
<1>. QED  BY <1>4 DEF b

\* A new agent.
LEMMA NewAgentOK ==
  ASSUME NEW f, NEW w, NEW name \in Names, NEW type \in Types
  PROVE  /\ AgentOK(f, w, NewAgent(name, type)) /\ Rooted(f, NewAgent(name, type))
         /\ NewAgent(name, type).name = name
<1>. DEFINE a == NewAgent(name, type)
<1>1. TreeOK(f, w, a.tree) /\ <<>> \in DOMAIN a.tree
  BY NewTreeOK
<1>2. a.tree \in Trees
  BY <1>1, TreesAre DEF TreeOK
<1>3. a = [name |-> name, type |-> type, pos |-> NoPlace, chk |-> NoPlace, tree |-> a.tree]
  BY DEF NewAgent
<1>. HIDE DEF a
<1>4. a \in AgentObjs /\ a.pos = NoPlace /\ a.chk = NoPlace /\ a.name = name
  BY <1>2, <1>3 DEF AgentObjs, NoPlace
<1>5. IsLoaded(a)
  BY <1>1 DEF IsLoaded
<1>. QED  BY <1>1, <1>4, <1>5 DEF AgentOK, Rooted, a

\* An agent that is loaded from its record.
LEMMA AgentAtOK ==
  ASSUME NEW f, NEW w, Good(f, w), NEW place, IsAgent(f, place)
  PROVE  /\ AgentOK(f, w, AgentAt(f, place)) /\ Rooted(f, AgentAt(f, place))
         /\ AgentAt(f, place).name = At(f, place).name
         /\ AgentAt(f, place).pos = place /\ ~IsLoaded(AgentAt(f, place))
<1>. DEFINE a == AgentAt(f, place)
<1>1. a = [name |-> At(f, place).name, type |-> At(f, place).type,
           pos |-> place, chk |-> place, tree |-> <<>>]
  BY DEF AgentAt
<1>2. At(f, place) \in AgentRecords /\ place \in Nat \ {0}
  BY DEF IsAgent, Recs
<1>3. At(f, place).name \in Names /\ At(f, place).type \in Types
  BY <1>2, AgentParts
<1>4. DOMAIN <<>> = {} /\ <<>> \in [DOMAIN <<>> -> Nodes]
  OBVIOUS
<1>5. IsTree(<<>>)
  BY <1>4 DEF IsTree
<1>6. <<>> \in Trees
  BY <1>5, TreesAre
<1>7. TreeOK(f, w, <<>>)
  BY <1>4, <1>5 DEF TreeOK
<1>. HIDE DEF a
<1>8. /\ a \in AgentObjs /\ a.pos = place /\ a.chk = place /\ a.tree = <<>>
      /\ a.name = At(f, place).name /\ a.type = At(f, place).type
  BY <1>1, <1>2, <1>3, <1>6 DEF AgentObjs
<1>9. ~IsLoaded(a)
  BY <1>4, <1>8 DEF IsLoaded
<1>10. a.pos # NoPlace
  BY <1>2, <1>8 DEF NoPlace
<1>11. AgentOK(f, w, a)
  BY <1>7, <1>8, <1>10 DEF AgentOK
<1>. QED  BY <1>8, <1>9, <1>11 DEF Rooted, a

-----------------------------------------------------------------------------
(* What a document has of an agent.                                         *)

\* The values of a tree.
Vals(t) == [p \in DOMAIN t |-> t[p].val]

\* What a document has of an agent: its name, its type and the values of its tree.
LEMMA ContentIs ==
  ASSUME NEW f, NEW a
  PROVE  Content(f, a) = [name |-> a.name, type |-> a.type, tree |-> Vals(Loaded(f, a).tree)]
  BY DEF Content, Vals

\* A tree that is in f reads the same from what has the records of f.
LEMMA TreeStable ==
  ASSUME NEW f, NEW w, Good(f, w), NEW g, \A p \in Recs(f) : At(g, p) = At(f, p),
         NEW place, IsNode(f, place)
  PROVE  TreeAt(g, place) = TreeAt(f, place)
<1>. DEFINE t == TreeAt(f, place)  u == TreeAt(g, place)
<1>1. /\ t = [p \in DOMAIN t |-> t[p]] /\ u = [p \in DOMAIN u |-> u[p]]
      /\ \A p \in DOMAIN t : t[p] = [val |-> t[p].val, pos |-> t[p].pos]
      /\ \A p \in DOMAIN u : u[p] = [val |-> u[p].val, pos |-> u[p].pos]
  BY TreeAtFun
<1>2. PICK h : HasPlaces(f, place, t, h)
  BY TreeAtIs
<1>3. PICK k : HasPlaces(g, place, u, k)
  BY TreeAtIs
<1>. HIDE DEF t, u
<1>. DEFINE A == {p \in Paths : k[p] = h[p] /\ (h[p] # NoPlace => IsNode(f, h[p]))}
<1>4. <<>> \in A
  BY <1>2, <1>3, PathsType DEF HasPlaces, PlaceBy
<1>5. ASSUME NEW p \in Paths, p # <<>>, Front(p) \in A
      PROVE  p \in A
  <2>. DEFINE m == h[Front(p)]  c == Last(p)
  <2>1. /\ h[p] = IF m = NoPlace \/ c \notin DOMAIN At(f, m).kids THEN NoPlace
                  ELSE At(f, m).kids[c]
        /\ k[p] = IF m = NoPlace \/ c \notin DOMAIN At(g, m).kids THEN NoPlace
                  ELSE At(g, m).kids[c]
    BY <1>2, <1>3, <1>5 DEF HasPlaces, PlaceBy
  <2>2. m # NoPlace => IsNode(f, m)
    BY <1>5
  <2>. HIDE DEF m, c
  <2>3. m # NoPlace => At(g, m) = At(f, m) /\ NodeFits(f, w, m, At(f, m))
    BY <2>2 DEF IsNode, Good, Fits
  <2>4. k[p] = h[p]
    BY <2>1, <2>3
  <2>5. h[p] # NoPlace => IsNode(f, h[p])
    BY <2>1, <2>3 DEF NodeFits
  <2>. QED  BY <2>4, <2>5
<1>6. \A p \in Paths : p \in A
  <2>1. A \in SUBSET Paths
    OBVIOUS
  <2>2. \A p \in Paths : p # <<>> /\ Front(p) \in A => p \in A
    BY <1>5
  <2>. HIDE DEF A
  <2>. QED  BY <1>4, <2>1, <2>2, FromAbove
<1>7. \A p \in Paths : k[p] = h[p] /\ (h[p] # NoPlace => p \in Paths /\ h[p] \in Recs(f))
  BY <1>6 DEF IsNode
<1>8. DOMAIN u = DOMAIN t
  BY <1>2, <1>3, <1>7 DEF HasPlaces
<1>9. ASSUME NEW p \in DOMAIN t
      PROVE  u[p] = t[p]
  <2>1. p \in Paths /\ h[p] # NoPlace
    BY <1>2 DEF HasPlaces
  <2>2. t[p].val = At(f, h[p]).val /\ t[p].pos = h[p]
    BY <1>2 DEF HasPlaces
  <2>3. u[p].val = At(g, k[p]).val /\ u[p].pos = k[p]
    BY <1>3, <1>8 DEF HasPlaces
  <2>. QED  BY <1>1, <1>7, <1>8, <2>1, <2>2, <2>3
<1>10. u = t
  BY <1>1, <1>8, <1>9
<1>. QED  BY <1>10 DEF t, u

\* What an agent's record has is in the file.
LEMMA RootOf ==
  ASSUME NEW f, NEW w, Good(f, w), NEW p, IsAgent(f, p)
  PROVE  IsNode(f, At(f, p).root) /\ w[At(f, p).root] = <<>>
<1>1. p \in Recs(f) /\ At(f, p) \in AgentRecords
  BY DEF IsAgent
<1>. QED  BY <1>1 DEF Good, Fits, AgentFits

\* An agent is loaded as it was.
LEMMA LoadedStable ==
  ASSUME NEW f, NEW w, Good(f, w), NEW g, \A p \in Recs(f) : At(g, p) = At(f, p),
         NEW a, ~IsLoaded(a) => IsAgent(f, a.pos)
  PROVE  Loaded(g, a) = Loaded(f, a) /\ Content(g, a) = Content(f, a)
<1>1. Loaded(g, a) = Loaded(f, a)
  <2>1. CASE IsLoaded(a)
    BY <2>1 DEF Loaded
  <2>2. CASE ~IsLoaded(a)
    <3>1. IsAgent(f, a.pos)
      BY <2>2
    <3>2. At(g, a.pos) = At(f, a.pos) /\ IsNode(f, At(f, a.pos).root)
      BY <3>1, RootOf DEF IsAgent
    <3>3. TreeAt(g, At(f, a.pos).root) = TreeAt(f, At(f, a.pos).root)
      BY <3>2, TreeStable
    <3>. QED  BY <2>2, <3>2, <3>3 DEF Loaded
  <2>. QED  BY <2>1, <2>2
<1>. QED  BY <1>1 DEF Content

\* An agent has the same content in a file that goes on.
LEMMA ContentAlong ==
  ASSUME NEW f, NEW w, Good(f, w), NEW g, NEW v, Goes(f, w, g, v), NEW a, AgentOK(f, w, a)
  PROVE  Content(g, a) = Content(f, a)
<1>1. \A p \in Recs(f) : At(g, p) = At(f, p)
  BY DEF Goes, Sees
<1>2. ~IsLoaded(a) => IsAgent(f, a.pos)
  BY DEF AgentOK
<1>. QED  BY <1>1, <1>2, LoadedStable

\* Loading an agent does not change what it has.
LEMMA ContentLoaded ==
  ASSUME NEW f, NEW w, Good(f, w), NEW a, AgentOK(f, w, a)
  PROVE  Content(f, Loaded(f, a)) = Content(f, a)
<1>1. /\ IsLoaded(Loaded(f, a))
      /\ Loaded(f, a).name = a.name /\ Loaded(f, a).type = a.type
  BY LoadedOK
<1>2. Loaded(f, Loaded(f, a)) = Loaded(f, a)
  BY <1>1 DEF Loaded
<1>. QED  BY <1>1, <1>2, ContentIs

\* Nor does another place for what has the same values.
LEMMA ContentSame ==
  ASSUME NEW f, NEW g, NEW a, NEW b, IsLoaded(a), IsLoaded(b),
         b.name = a.name, b.type = a.type, DOMAIN b.tree = DOMAIN a.tree,
         \A p \in DOMAIN a.tree : b.tree[p].val = a.tree[p].val
  PROVE  Content(g, b) = Content(f, a)
<1>1. Loaded(f, a) = a /\ Loaded(g, b) = b
  BY DEF Loaded
<1>2. Vals(b.tree) = Vals(a.tree)
  BY DEF Vals
<1>. QED  BY <1>1, <1>2, ContentIs

\* Nor does what the agent's checkpoint is.
LEMMA ContentApart ==
  ASSUME NEW f, NEW a \in AgentObjs, NEW b \in AgentObjs, b.tree = a.tree,
         b.name = a.name, b.type = a.type, b.pos = a.pos
  PROVE  Content(f, b) = Content(f, a)
<1>1. CASE IsLoaded(a)
  <2>1. IsLoaded(b)
    BY <1>1 DEF IsLoaded
  <2>. QED  BY <1>1, <2>1, ContentSame
<1>2. CASE ~IsLoaded(a)
  <2>1. ~IsLoaded(b)
    BY <1>2 DEF IsLoaded
  <2>2. Loaded(f, b).tree = TreeAt(f, At(f, b.pos).root)
    BY <2>1 DEF Loaded, AgentObjs
  <2>3. Loaded(f, a).tree = TreeAt(f, At(f, a.pos).root)
    BY <1>2 DEF Loaded, AgentObjs
  <2>. QED  BY <2>2, <2>3, ContentIs
<1>. QED  BY <1>1, <1>2

\* A tree whose root has not changed is what is read from the root's record.
LEMMA SavedTree ==
  ASSUME NEW f, NEW w, Good(f, w), NEW t, TreeOK(f, w, t), <<>> \in DOMAIN t,
         NEW place, place = t[<<>>].pos, place # NoPlace
  PROVE  Vals(TreeAt(f, place)) = Vals(t)
<1>. DEFINE u == TreeAt(f, place)
<1>1. PICK h : HasPlaces(f, place, u, h)
  BY TreeAtIs
<1>. HIDE DEF u
<1>2. IsTree(t) /\ DOMAIN t \subseteq Paths
  BY DEF TreeOK, IsTree
<1>. DEFINE A == {p \in Paths : /\ p \in DOMAIN t => t[p].pos # NoPlace /\ h[p] = t[p].pos
                                /\ p \notin DOMAIN t => h[p] = NoPlace}
<1>3. <<>> \in A
  BY <1>1, PathsType DEF HasPlaces, PlaceBy
<1>4. ASSUME NEW p \in Paths, p # <<>>, Front(p) \in A
      PROVE  p \in A
  <2>. DEFINE m == Front(p)  c == Last(p)
  <2>1. h[p] = IF h[m] = NoPlace \/ c \notin DOMAIN At(f, h[m]).kids THEN NoPlace
               ELSE At(f, h[m]).kids[c]
    BY <1>1, <1>4 DEF HasPlaces, PlaceBy
  <2>2. m \in Paths /\ (p \in DOMAIN t => m \in DOMAIN t)
    BY <1>2, <1>4, PathsType DEF IsTree
  <2>3. CASE m \notin DOMAIN t
    BY <1>4, <2>1, <2>2, <2>3
  <2>4. CASE m \in DOMAIN t
    <3>1. t[m].pos # NoPlace /\ h[m] = t[m].pos
      BY <1>4, <2>4
    <3>2. At(f, h[m]).kids = KidPlaces(t, m)
      <4>. HIDE DEF m
      <4>1. IsSaved(f, w, t, m)
        BY <2>4, <3>1 DEF TreeOK
      <4>. QED  BY <3>1, <4>1 DEF IsSaved
    <3>3. CASE p \in DOMAIN t
      <4>1. p \in Kids(t, m)
        BY <1>4, <3>3 DEF Kids
      <4>2. c \in DOMAIN KidPlaces(t, m) /\ KidPlaces(t, m)[c] = t[p].pos
        BY <1>2, <2>2, <4>1, KidPlaceOf
      <4>3. t[p].pos # NoPlace
        BY <2>4, <3>1, <4>1, KidsAreSaved
      <4>. QED  BY <2>1, <3>1, <3>2, <3>3, <4>2, <4>3
    <3>4. CASE p \notin DOMAIN t
      <4>1. c \notin DOMAIN KidPlaces(t, m)
        <5>. SUFFICES ASSUME c \in DOMAIN KidPlaces(t, m) PROVE FALSE
          OBVIOUS
        <5>1. Append(m, c) \in Kids(t, m)
          BY <1>2, <2>2, KidAtPlace
        <5>2. p = Append(m, c)
          BY <1>4, PathsType, FrontLast
        <5>. QED  BY <3>4, <5>1, <5>2 DEF Kids
      <4>. QED  BY <2>1, <3>2, <3>4, <4>1
    <3>. QED  BY <3>3, <3>4
  <2>. QED  BY <2>3, <2>4
<1>5. \A p \in Paths : p \in A
  <2>1. A \in SUBSET Paths
    OBVIOUS
  <2>2. \A p \in Paths : p # <<>> /\ Front(p) \in A => p \in A
    BY <1>4
  <2>. HIDE DEF A
  <2>. QED  BY <1>3, <2>1, <2>2, FromAbove
<1>6. DOMAIN u = DOMAIN t
  BY <1>1, <1>2, <1>5 DEF HasPlaces
<1>7. ASSUME NEW p \in DOMAIN t
      PROVE  u[p].val = t[p].val
  <2>1. t[p].pos # NoPlace /\ h[p] = t[p].pos
    BY <1>2, <1>5
  <2>2. u[p].val = At(f, h[p]).val
    BY <1>1, <1>6 DEF HasPlaces
  <2>3. At(f, t[p].pos) = [val |-> t[p].val, kids |-> KidPlaces(t, p)]
    BY <2>1 DEF TreeOK, IsSaved
  <2>. QED  BY <2>1, <2>2, <2>3
<1>8. Vals(u) = Vals(t)
  BY <1>6, <1>7 DEF Vals
<1>. QED  BY <1>8 DEF u

\* An agent that has not changed is what is read from its record.
LEMMA CleanContent ==
  ASSUME NEW f, NEW w, Good(f, w), NEW a, AgentOK(f, w, a), Rooted(f, a), ~IsDirty(a)
  PROVE  Content(f, AgentAt(f, a.pos)) = Content(f, a)
<1>. DEFINE b == AgentAt(f, a.pos)  root == At(f, a.pos).root
<1>1. a.pos # NoPlace /\ IsAgent(f, a.pos) /\ a \in AgentObjs
  BY DEF AgentOK, IsDirty
<1>2. b.name = a.name /\ b.type = a.type
  BY <1>1 DEF AgentOK, AgentAt
<1>3. Loaded(f, b).tree = TreeAt(f, root)
  BY DEF Loaded, AgentAt, IsLoaded
<1>4. Vals(Loaded(f, b).tree) = Vals(Loaded(f, a).tree)
  <2>1. CASE IsLoaded(a)
    <3>1. <<>> \in DOMAIN a.tree /\ TreeOK(f, w, a.tree)
      BY <1>1, <2>1, RootIs DEF AgentOK
    <3>2. a.tree[<<>>].pos # NoPlace
      BY <2>1 DEF IsDirty
    <3>3. root = a.tree[<<>>].pos
      BY <1>1, <2>1, <3>2 DEF Rooted
    <3>. HIDE DEF root
    <3>4. Vals(TreeAt(f, root)) = Vals(a.tree)
      BY <3>1, <3>2, <3>3, SavedTree
    <3>. QED  BY <1>3, <2>1, <3>4 DEF Loaded
  <2>2. CASE ~IsLoaded(a)
    <3>1. Loaded(f, a).tree = TreeAt(f, root)
      BY <1>1, <2>2 DEF Loaded, AgentObjs
    <3>. QED  BY <1>3, <3>1
  <2>. QED  BY <2>1, <2>2
<1>. HIDE DEF b
<1>. QED  BY <1>2, <1>4, ContentIs DEF b

-----------------------------------------------------------------------------
(* Saving a tree.                                                           *)

\* A node that is saved gets the place of its record.
LEMMA NodeSavedOK ==
  ASSUME NEW g, NEW v, Good(g, v), NEW t, TreeOK(g, v, t),
         NEW p \in DOMAIN t, t[p].pos = NoPlace, NEW x, IsNode(g, x), v[x] = p,
         At(g, x) = [val |-> t[p].val, kids |-> KidPlaces(t, p)],
         NEW u, u = [t EXCEPT ![p].pos = x]
  PROVE  /\ TreeOK(g, v, u) /\ DOMAIN u = DOMAIN t
         /\ u[p].val = t[p].val /\ u[p].pos = x
         /\ \A q \in DOMAIN t : q # p => u[q] = t[q]
<1>. DEFINE n == [t[p] EXCEPT !.pos = x]
<1>1. IsTree(t) /\ DOMAIN t \subseteq Paths /\ t \in [DOMAIN t -> Nodes] /\ t[p] \in Nodes
  BY DEF TreeOK, IsTree
<1>2. x \in Nat \ {0} /\ x # NoPlace
  BY DEF IsNode, Recs, NoPlace
<1>3. n \in Nodes /\ n.val = t[p].val /\ n.pos = x
  BY <1>1, <1>2 DEF Nodes
<1>4. u = [t EXCEPT ![p] = n]
  OBVIOUS
<1>. HIDE DEF n
<1>5. DOMAIN u = DOMAIN t /\ u \in [DOMAIN u -> Nodes] /\ u[p] = n
      /\ \A q \in DOMAIN t : q # p => u[q] = t[q]
  BY <1>1, <1>3, <1>4
<1>6. IsTree(u)
  BY <1>1, <1>5 DEF IsTree
<1>7. \A q : Kids(u, q) = Kids(t, q)
  BY <1>5 DEF Kids
<1>8. ASSUME NEW q \in DOMAIN t, p \notin Kids(t, q)
      PROVE  KidPlaces(u, q) = KidPlaces(t, q)
  <2>1. \A k \in Kids(t, q) : t[k].pos = u[k].pos
    BY <1>5, <1>8 DEF Kids
  <2>2. q \in Paths
    BY <1>1
  <2>3. Kids(t, q) = Kids(u, q)
    BY <1>7
  <2>4. KidPlaces(t, q) = KidPlaces(u, q)
    <3>1. DOMAIN t \subseteq Paths
      BY <1>1
    <3>. QED  BY ONLY <2>1, <2>2, <2>3, <3>1, SameKidPlaces
  <2>. QED  BY <2>4
<1>9. p \notin Kids(t, p)
  <2>1. p \in Seq(Nat)
    BY <1>1, PathsType
  <2>. QED  BY <2>1, PrefixFacts DEF Kids
<1>10. ASSUME NEW q \in DOMAIN u, u[q].pos # NoPlace
       PROVE  IsSaved(g, v, u, q)
  <2>1. CASE q = p
    <3>1. KidPlaces(u, p) = KidPlaces(t, p)
      BY <1>8, <1>9
    <3>. QED  BY <1>3, <1>5, <2>1, <3>1 DEF IsSaved
  <2>2. CASE q # p
    <3>1. q \in DOMAIN t /\ u[q] = t[q] /\ t[q].pos # NoPlace
      BY <1>5, <1>10, <2>2
    <3>2. p \notin Kids(t, q)
      BY <3>1, KidsAreSaved
    <3>3. KidPlaces(u, q) = KidPlaces(t, q)
      BY <1>8, <3>1, <3>2
    <3>4. IsSaved(g, v, t, q)
      BY <3>1 DEF TreeOK
    <3>. QED  BY <3>1, <3>3, <3>4 DEF IsSaved
  <2>. QED  BY <2>1, <2>2
<1>. QED  BY <1>3, <1>5, <1>6, <1>10 DEF TreeOK

\* What a save works on: the file and the objects that are in memory.
States(D) == [file : Files, obj : [D -> AgentObjs]]

SaveOK(D, s, w) ==
  /\ s \in States(D) /\ Good(s.file, w)
  /\ \A o \in D : AgentOK(s.file, w, s.obj[o])

\* What saving the nodes of o's tree leaves as it was.
TreeMoves(D, s, w, r, v, o) ==
  /\ SaveOK(D, r, v) /\ Goes(s.file, w, r.file, v) /\ r.file.cpos = s.file.cpos
  /\ \A x \in D : x # o => r.obj[x] = s.obj[x]
  /\ r.obj[o].name = s.obj[o].name /\ r.obj[o].type = s.obj[o].type
  /\ r.obj[o].pos = s.obj[o].pos /\ r.obj[o].chk = s.obj[o].chk
  /\ DOMAIN r.obj[o].tree = DOMAIN s.obj[o].tree
  /\ \A q \in DOMAIN s.obj[o].tree :
       /\ r.obj[o].tree[q].val = s.obj[o].tree[q].val
       /\ s.obj[o].tree[q].pos # NoPlace => r.obj[o].tree[q] = s.obj[o].tree[q]

\* Two steps of saving a tree.
LEMMA TreeMovesOn ==
  ASSUME NEW D, NEW s, NEW w, NEW r, NEW v, NEW q, NEW u, NEW o,
         TreeMoves(D, s, w, r, v, o), TreeMoves(D, r, v, q, u, o)
  PROVE  TreeMoves(D, s, w, q, u, o)
<1>1. Goes(s.file, w, q.file, u)
  BY GoesOn DEF TreeMoves
<1>2. \A p \in DOMAIN s.obj[o].tree :
        /\ q.obj[o].tree[p].val = s.obj[o].tree[p].val
        /\ s.obj[o].tree[p].pos # NoPlace => q.obj[o].tree[p] = s.obj[o].tree[p]
  BY DEF TreeMoves
<1>. QED  BY <1>1, <1>2 DEF TreeMoves

\* None.
LEMMA TreeMovesSame ==
  ASSUME NEW D, NEW s, NEW w, NEW o, SaveOK(D, s, w)
  PROVE  TreeMoves(D, s, w, s, w, o)
  BY GoesSame DEF TreeMoves

\* A state of a save with another file.
LEMMA FileEdited ==
  ASSUME NEW D, NEW s \in States(D), NEW g \in Files
  PROVE  /\ [s EXCEPT !.file = g] \in States(D)
         /\ [s EXCEPT !.file = g].file = g /\ [s EXCEPT !.file = g].obj = s.obj
  BY DEF States

\* Saving a node whose children are saved.
LEMMA SaveNodeOK ==
  ASSUME NEW D, NEW s, NEW w, SaveOK(D, s, w), s.file.ok, NEW o \in D,
         NEW p \in DOMAIN s.obj[o].tree, s.obj[o].tree[p].pos = NoPlace,
         \A k \in Kids(s.obj[o].tree, p) : s.obj[o].tree[k].pos # NoPlace,
         NEW r, r = SaveNode(s, o, p)
  PROVE  /\ \E v : TreeMoves(D, s, w, r, v, o)
         /\ r.file.ok => r.obj[o].tree[p].pos # NoPlace
         /\ \A q \in DOMAIN s.obj[o].tree : q # p => r.obj[o].tree[q] = s.obj[o].tree[q]
<1>. DEFINE a == s.obj[o]  t == a.tree
            rec == [val |-> t[p].val, kids |-> KidPlaces(t, p)]
            f == Written(s.file, rec, FALSE)
<1>1. s \in States(D) /\ Good(s.file, w) /\ AgentOK(s.file, w, a) /\ TreeOK(s.file, w, t)
      /\ IsTree(t) /\ a \in AgentObjs /\ t[p] \in Nodes /\ p \in Paths
      /\ s.obj \in [D -> AgentObjs]
  BY DEF SaveOK, AgentOK, TreeOK, IsTree, States
<1>2. r = IF ~f.ok THEN [s EXCEPT !.file = f]
          ELSE [s EXCEPT !.file = f, !.obj[o].tree[p].pos = LastPlace(f)]
  BY DEF SaveNode, KidPlaces
<1>3. rec \in NodeRecords /\ rec \in Records
  <2>1. KidPlaces(t, p) \in KidMaps
    BY <1>1, KidPlacesType
  <2>2. t[p].val \in Values
    BY <1>1 DEF Nodes
  <2>. QED  BY <2>1, <2>2 DEF NodeRecords, Records
<1>4. ASSUME NEW last \in Nat, \A x \in Recs(s.file) : x < last
      PROVE  Fits(s.file, [w EXCEPT ![last] = p], last, rec)
  <2>. DEFINE v == [w EXCEPT ![last] = p]
  <2>1. v[last] = p /\ \A x \in Recs(s.file) : v[x] = w[x]
    <3>1. w \in [Nat -> Paths]
      BY <1>1 DEF Good
    <3>2. \A x \in Recs(s.file) : x \in Nat /\ x # last
      BY <1>4 DEF Recs
    <3>. QED  BY <3>1, <3>2
  <2>. HIDE DEF v
  <2>2. ASSUME NEW c \in DOMAIN rec.kids
        PROVE  /\ IsNode(s.file, rec.kids[c]) /\ rec.kids[c] < last
               /\ Append(v[last], c) \in Paths /\ v[rec.kids[c]] = Append(v[last], c)
    <3>. DEFINE k == Append(p, c)
    <3>1. c \in DOMAIN KidPlaces(t, p) /\ rec.kids[c] = KidPlaces(t, p)[c]
      OBVIOUS
    <3>2. DOMAIN t \subseteq Paths
      BY <1>1 DEF IsTree
    <3>3. k \in Kids(t, p) /\ KidPlaces(t, p)[c] = t[k].pos
      BY <1>1, <3>1, <3>2, KidAtPlace
    <3>. HIDE DEF k
    <3>4. k \in DOMAIN t /\ k \in Paths /\ t[k].pos # NoPlace
      BY <3>2, <3>3 DEF Kids
    <3>5. IsNode(s.file, t[k].pos) /\ w[t[k].pos] = k
      BY <1>1, <3>4 DEF TreeOK, IsSaved
    <3>6. t[k].pos \in Recs(s.file)
      BY <3>5 DEF IsNode
    <3>7. v[t[k].pos] = k /\ t[k].pos < last
      BY <1>4, <2>1, <3>5, <3>6
    <3>. QED  BY <2>1, <3>1, <3>3, <3>4, <3>5, <3>7 DEF k
  <2>3. NodeFits(s.file, v, last, rec)
    <3>. HIDE DEF rec
    <3>. QED  BY <2>2 DEF NodeFits
  <2>. QED  BY <1>3, <2>3, KindsApart DEF Fits, v
<1>. HIDE DEF rec
<1>5. PICK v : /\ Good(f, v) /\ Goes(s.file, w, f, v)
               /\ ~f.ok => SameRecs(s.file, f)
               /\ f.ok => /\ v = [w EXCEPT ![LastPlace(f)] = p] /\ OneMore(s.file, f, rec)
                          /\ f.cpos = s.file.cpos
  <2>1. PICK cp \in BOOLEAN : cp = FALSE
    OBVIOUS
  <2>2. /\ f = Written(s.file, rec, cp) /\ (~cp => rec \notin SnapRecords)
        /\ cp => rec \in SnapRecords /\ rec.prev = s.file.cpos
    BY <1>3, <2>1, KindsApart
  <2>. HIDE DEF f
  <2>3. \A last \in Nat : (\A x \in Recs(s.file) : x < last)
                           => Fits(s.file, [w EXCEPT ![last] = p], last, rec)
    BY <1>4
  <2>4. \E v : /\ Good(f, v) /\ Goes(s.file, w, f, v)
               /\ ~f.ok => SameRecs(s.file, f)
               /\ f.ok => /\ v = [w EXCEPT ![LastPlace(f)] = p] /\ OneMore(s.file, f, rec)
                          /\ f.cpos = IF cp THEN LastPlace(f) ELSE s.file.cpos
    <3>1. /\ s.file.ok /\ Good(s.file, w) /\ rec \in Records /\ cp \in BOOLEAN
          /\ p \in Paths
      BY <1>1, <1>3
    <3>. QED  BY ONLY <2>2, <2>3, <3>1, WrittenGood
  <2>. QED  BY <2>1, <2>4
<1>. HIDE DEF f
<1>6. f \in Files
  BY <1>5 DEF Good, FileOK
<1>7. f.cpos = s.file.cpos
  BY <1>5 DEF SameRecs
<1>8. \A x \in D : AgentOK(f, v, s.obj[x])
  BY <1>5, AgentAlong DEF SaveOK
<1>9. CASE ~f.ok
  <2>1. r \in States(D) /\ r.file = f /\ r.obj = s.obj
    BY <1>1, <1>2, <1>6, <1>9, FileEdited
  <2>2. SaveOK(D, r, v)
    BY <1>5, <1>8, <2>1 DEF SaveOK
  <2>3. TreeMoves(D, s, w, r, v, o)
    BY <1>5, <1>7, <2>1, <2>2 DEF TreeMoves
  <2>. QED  BY <1>9, <2>1, <2>3
<1>10. CASE f.ok
  <2>. DEFINE x == LastPlace(f)  u == [t EXCEPT ![p].pos = x]  b == [a EXCEPT !.tree = u]
  <2>1. IsNode(f, x) /\ v[x] = p /\ At(f, x) = rec
    <3>1. x \in Recs(f) /\ At(f, x) = rec /\ x \in Nat
      BY <1>5, <1>10 DEF OneMore
    <3>2. w \in [Nat -> Paths]
      BY <1>1 DEF Good
    <3>. QED  BY <1>3, <1>5, <1>10, <3>1, <3>2 DEF IsNode
  <2>. HIDE DEF x
  <2>2. TreeOK(f, v, t)
    BY <1>1, <1>5, TreeAlong
  <2>3. u = [t EXCEPT ![p].pos = x]
    OBVIOUS
  <2>4. t[p].pos = NoPlace /\ At(f, x) = [val |-> t[p].val, kids |-> KidPlaces(t, p)]
    BY <2>1 DEF rec
  <2>. HIDE DEF u
  <2>5. /\ TreeOK(f, v, u) /\ DOMAIN u = DOMAIN t
        /\ u[p].val = t[p].val /\ u[p].pos = x
        /\ \A q \in DOMAIN t : q # p => u[q] = t[q]
    <3>. HIDE DEF t
    <3>. QED  BY <1>5, <2>1, <2>2, <2>3, <2>4, NodeSavedOK DEF t
  <2>6. u \in Trees
    BY <2>5, TreesAre DEF TreeOK
  <2>7. /\ b \in AgentObjs /\ b.name = a.name /\ b.type = a.type
        /\ b.pos = a.pos /\ b.chk = a.chk /\ b.tree = u
    BY <1>1, <2>6, AgentEdits
  <2>8. r = [s EXCEPT !.file = f, !.obj = [s.obj EXCEPT ![o] = b]]
    BY <1>2, <1>10, <2>3 DEF x, States
  <2>. HIDE DEF b
  <2>9. /\ r \in States(D) /\ r.file = f /\ r.obj[o] = b
        /\ \A y \in D : y # o => r.obj[y] = s.obj[y]
    <3>. DEFINE m == [s.obj EXCEPT ![o] = b]
    <3>1. m \in [D -> AgentObjs] /\ m[o] = b /\ \A y \in D : y # o => m[y] = s.obj[y]
      BY <1>1, <2>7
    <3>2. r = [s EXCEPT !.file = f, !.obj = m]
      BY <2>8
    <3>. HIDE DEF m
    <3>3. r \in States(D) /\ r.file = f /\ r.obj = m
      BY <1>1, <1>6, <3>1, <3>2 DEF States
    <3>. QED  BY <3>1, <3>3
  <2>10. AgentOK(f, v, b)
    <3>1. <<>> \in DOMAIN u
      BY <2>5 DEF TreeOK, IsTree
    <3>2. IsLoaded(b)
      BY <2>7, <3>1 DEF IsLoaded
    <3>. QED  BY <1>8, <2>5, <2>7, <3>2 DEF AgentOK
  <2>11. SaveOK(D, r, v)
    BY <1>5, <1>8, <2>9, <2>10 DEF SaveOK
  <2>12. \A q \in DOMAIN t : u[q].val = t[q].val /\ (t[q].pos # NoPlace => u[q] = t[q])
    BY <2>5
  <2>13. TreeMoves(D, s, w, r, v, o)
    BY <1>5, <1>7, <2>5, <2>7, <2>9, <2>11, <2>12 DEF TreeMoves
  <2>14. u[p].pos # NoPlace
    BY <2>1, <2>5 DEF IsNode, Recs, NoPlace
  <2>. QED  BY <2>5, <2>7, <2>9, <2>13, <2>14
<1>. QED  BY <1>9, <1>10

\* One step of SaveNodes, and the steps up to the n-th.
NodeStep(r, o, p, unsaved) ==
  IF r.file.ok /\ p \in unsaved THEN SaveNode(r, o, p) ELSE r
NodeSteps(g, s, o, order, unsaved, n) ==
  /\ g = [i \in 0..n |-> g[i]] /\ g[0] = s
  /\ \A i \in 1..n : g[i] = NodeStep(g[i - 1], o, order[i], unsaved)

\* What SaveNodes defines by recursion exists.
LEMMA NodeStepsExist ==
  ASSUME NEW s, NEW o, NEW order, NEW unsaved, NEW N \in Nat
  PROVE  \E g : NodeSteps(g, s, o, order, unsaved, N)
<1>. DEFINE H == {n \in Nat : \E g : NodeSteps(g, s, o, order, unsaved, n)}
<1>1. 0 \in H
  <2>1. NodeSteps([i \in 0..0 |-> s], s, o, order, unsaved, 0)
    BY DEF NodeSteps
  <2>. QED  BY <2>1
<1>2. ASSUME NEW n \in 1..N, n - 1 \in H
      PROVE  n \in H
  <2>1. PICK g : NodeSteps(g, s, o, order, unsaved, n - 1)
    BY <1>2
  <2>. DEFINE e == NodeStep(g[n - 1], o, order[n], unsaved)
              h == [i \in 0..n |-> IF i = n THEN e ELSE g[i]]
  <2>. HIDE DEF e
  <2>2. h[n] = e /\ h = [i \in 0..n |-> h[i]] /\ \A i \in 0..(n - 1) : h[i] = g[i]
    OBVIOUS
  <2>. HIDE DEF h
  <2>3. h[0] = s
    BY <2>1, <2>2 DEF NodeSteps
  <2>4. ASSUME NEW i \in 1..n
        PROVE  h[i] = NodeStep(h[i - 1], o, order[i], unsaved)
    <3>1. CASE i = n
      <4>1. h[n - 1] = g[n - 1]
        BY <2>2, SMTT(30)
      <4>. QED  BY <2>2, <3>1, <4>1 DEF e
    <3>2. CASE i # n
      <4>1. i \in 1..(n - 1) /\ i \in 0..(n - 1) /\ i - 1 \in 0..(n - 1)
        BY <3>2
      <4>2. h[i] = g[i] /\ h[i - 1] = g[i - 1]
        BY <2>2, <4>1
      <4>. QED  BY <2>1, <4>1, <4>2 DEF NodeSteps
    <3>. QED  BY <3>1, <3>2
  <2>5. NodeSteps(h, s, o, order, unsaved, n)
    BY <2>2, <2>3, <2>4 DEF NodeSteps
  <2>. QED  BY <2>5
<1>3. H \in SUBSET Nat
  OBVIOUS
<1>4. \A n \in 1..N : n - 1 \in H => n \in H
  BY <1>2
<1>5. N \in H
  <2>. HIDE DEF H
  <2>. QED  BY <1>1, <1>3, <1>4, UpTo
<1>. QED  BY <1>5

\* What SaveNodes comes to is reached step by step.
LEMMA SaveNodesIs ==
  ASSUME NEW s, NEW o, NEW order, Len(order) \in Nat, NEW unsaved
  PROVE  \E g : /\ NodeSteps(g, s, o, order, unsaved, Len(order))
                /\ SaveNodes(s, o, order, unsaved) = g[Len(order)]
<1>. DEFINE N == Len(order)
            Eqn(g) == g = [i \in 0..N |->
              IF i = 0 THEN s
              ELSE LET r == g[i - 1]
                   IN  IF r.file.ok /\ order[i] \in unsaved
                         THEN SaveNode(r, o, order[i]) ELSE r]
            g == CHOOSE g : Eqn(g)
<1>1. \E h : Eqn(h)
  <2>1. PICK h : NodeSteps(h, s, o, order, unsaved, N)
    BY NodeStepsExist
  <2>2. \A i \in 0..N : h[i] = IF i = 0 THEN s
              ELSE LET r == h[i - 1]
                   IN  IF r.file.ok /\ order[i] \in unsaved
                         THEN SaveNode(r, o, order[i]) ELSE r
    <3>1. \A i \in 0..N : i # 0 => i \in 1..N
      OBVIOUS
    <3>. QED  BY <2>1, <3>1 DEF NodeSteps, NodeStep
  <2>3. h = [i \in 0..N |-> h[i]]
    BY <2>1 DEF NodeSteps
  <2>. HIDE DEF N
  <2>4. Eqn(h)
    BY <2>2, <2>3
  <2>. QED  BY <2>4
<1>2. Eqn(g)
  BY <1>1
<1>3. SaveNodes(s, o, order, unsaved) = g[N]
  BY DEF SaveNodes
<1>. HIDE DEF g
<1>4. NodeSteps(g, s, o, order, unsaved, N)
  <2>1. g = [i \in 0..N |-> g[i]]
    BY <1>2
  <2>2. g[0] = s
    BY <1>2
  <2>3. ASSUME NEW i \in 1..N
        PROVE  g[i] = NodeStep(g[i - 1], o, order[i], unsaved)
    <3>1. i \in 0..N /\ i # 0
      OBVIOUS
    <3>. QED  BY <1>2, <3>1 DEF NodeStep
  <2>. QED  BY <2>1, <2>2, <2>3 DEF NodeSteps
<1>. QED  BY <1>3, <1>4

\* Saving a tree from a node down leaves none of it unsaved, unless a write
\* fails, and the rest as it was.
LEMMA SaveTreeOK ==
  ASSUME NEW D, NEW s, NEW w, SaveOK(D, s, w), NEW o \in D, NEW top \in Paths,
         NEW r, r = SaveTree(s, o, top)
  PROVE  /\ \E v : TreeMoves(D, s, w, r, v, o)
         /\ r.file.ok => \A q \in DOMAIN s.obj[o].tree :
                           IsPrefix(top, q) => r.obj[o].tree[q].pos # NoPlace
<1>. DEFINE t == s.obj[o].tree  N == Len(Order)  U == Unsaved(t, top)
<1>1. N \in Nat
  BY OrderFacts
<1>2. PICK g : NodeSteps(g, s, o, Order, U, N) /\ r = g[N]
  BY <1>1, SaveNodesIs DEF SaveTree
<1>3. /\ g[0] = s /\ \A i \in 1..N : g[i] = NodeStep(g[i - 1], o, Order[i], U)
  BY <1>2 DEF NodeSteps
<1>4. DOMAIN t \subseteq Paths
  BY DEF SaveOK, AgentOK, TreeOK, IsTree
<1>5. \A p \in U : p \in DOMAIN t /\ p \in Paths /\ p \in Seq(Nat)
                   /\ t[p].pos = NoPlace /\ IsPrefix(top, p)
  BY <1>4, PathsType DEF Unsaved
<1>6. \A p \in DOMAIN t : t[p].pos = NoPlace /\ IsPrefix(top, p) => p \in U
  BY DEF Unsaved
<1>. HIDE DEF N, U, t
<1>. DEFINE OK(i) == /\ \E v : TreeMoves(D, s, w, g[i], v, o)
                     /\ g[i].file.ok => \A k \in 1..i : Order[k] \in U
                                          => g[i].obj[o].tree[Order[k]].pos # NoPlace
                     /\ \A k \in (i + 1)..N : Order[k] \in DOMAIN t
                                          => g[i].obj[o].tree[Order[k]] = t[Order[k]]
            H == {i \in 0..N : OK(i)}
<1>7. 0 \in H
  <2>1. TreeMoves(D, s, w, g[0], w, o)
    BY <1>3, TreeMovesSame
  <2>. QED  BY <1>1, <1>3, <2>1 DEF t
<1>8. ASSUME NEW i \in 1..N, i - 1 \in H
      PROVE  i \in H
  <2>. DEFINE a == g[i - 1]  b == g[i]  p == Order[i]  ta == a.obj[o].tree
  <2>1. b = NodeStep(a, o, p, U)
    BY <1>3
  <2>2. PICK v : TreeMoves(D, s, w, a, v, o)
    BY <1>8
  <2>3. a.file.ok => \A k \in 1..(i - 1) : Order[k] \in U => ta[Order[k]].pos # NoPlace
    BY <1>8
  <2>4. \A k \in i..N : Order[k] \in DOMAIN t => ta[Order[k]] = t[Order[k]]
    <3>1. \A k \in (i - 1 + 1)..N : Order[k] \in DOMAIN t => ta[Order[k]] = t[Order[k]]
      BY <1>8
    <3>2. i - 1 + 1 = i
      BY <1>1
    <3>. QED  BY <3>1, <3>2
  <2>5. SaveOK(D, a, v) /\ DOMAIN ta = DOMAIN t
        /\ \A q \in DOMAIN t : t[q].pos # NoPlace => ta[q] = t[q]
    BY <2>2 DEF TreeMoves, t
  <2>. HIDE DEF a, b, p
  <2>6. \A k \in 1..N : Order[k] = p => k = i
    BY OrderFacts DEF N, p
  <2>7. CASE ~(a.file.ok /\ p \in U)
    <3>1. b = a
      BY <2>1, <2>7 DEF NodeStep
    <3>2. a.file.ok => \A k \in 1..i : Order[k] \in U => ta[Order[k]].pos # NoPlace
      <4>1. \A k \in 1..i : k = i \/ k \in 1..(i - 1)
        BY <1>1
      <4>. QED  BY <2>3, <2>7, <4>1 DEF p
    <3>3. \A k \in (i + 1)..N : Order[k] \in DOMAIN t => ta[Order[k]] = t[Order[k]]
      BY <1>1, <2>4
    <3>4. OK(i)
      BY <2>2, <3>1, <3>2, <3>3 DEF b
    <3>. QED  BY <1>1, <3>4
  <2>8. CASE a.file.ok /\ p \in U
    <3>1. b = SaveNode(a, o, p)
      BY <2>1, <2>8 DEF NodeStep
    <3>2. p \in DOMAIN ta /\ ta[p].pos = NoPlace
      <4>1. i \in i..N /\ Order[i] = p
        BY <1>1 DEF p
      <4>. QED  BY <1>5, <2>4, <2>5, <2>8, <4>1
    <3>3. ASSUME NEW k \in Kids(ta, p)
          PROVE  ta[k].pos # NoPlace
      <4>1. k \in DOMAIN t /\ k \in Paths /\ k \in Seq(Nat) /\ k # <<>> /\ Front(k) = p
        BY <1>4, <2>5, PathsType DEF Kids
      <4>2. CASE t[k].pos # NoPlace
        BY <2>5, <4>1, <4>2
      <4>3. CASE t[k].pos = NoPlace
        <5>1. IsPrefix(top, k)
          <6>1. top \in Seq(Nat)
            BY PathsType
          <6>. QED  BY <1>5, <2>8, <4>1, <6>1, PrefixFacts
        <5>2. k \in U
          BY <1>6, <4>1, <4>3, <5>1
        <5>3. PICK j \in 1..N : Order[j] = k
          BY <4>1, OrderFacts DEF N
        <5>4. j < i
          BY <4>1, <5>3, OrderFacts DEF N, p
        <5>5. j \in 1..(i - 1)
          BY <1>1, <5>4
        <5>. QED  BY <2>3, <2>8, <5>2, <5>3, <5>5
      <4>. QED  BY <4>2, <4>3
    <3>4. /\ \E u : TreeMoves(D, a, v, b, u, o)
          /\ b.file.ok => b.obj[o].tree[p].pos # NoPlace
          /\ \A q \in DOMAIN ta : q # p => b.obj[o].tree[q] = ta[q]
      BY <2>5, <2>8, <3>1, <3>2, <3>3, SaveNodeOK
    <3>5. PICK u : TreeMoves(D, a, v, b, u, o)
      BY <3>4
    <3>6. TreeMoves(D, s, w, b, u, o)
      BY <2>2, <3>5, TreeMovesOn
    <3>. DEFINE tb == b.obj[o].tree
    <3>7. /\ b.file.ok => tb[p].pos # NoPlace
          /\ \A q \in DOMAIN t : q # p => tb[q] = ta[q]
      BY <2>5, <3>4
    <3>. HIDE DEF ta, tb
    <3>8. b.file.ok => \A k \in 1..i : Order[k] \in U => tb[Order[k]].pos # NoPlace
      <4>. SUFFICES ASSUME b.file.ok, NEW k \in 1..i, Order[k] \in U
                    PROVE  tb[Order[k]].pos # NoPlace
        OBVIOUS
      <4>1. CASE Order[k] = p
        BY <3>7, <4>1
      <4>2. CASE Order[k] # p
        <5>1. k \in 1..(i - 1)
          BY <1>1, <4>2 DEF p
        <5>2. ta[Order[k]].pos # NoPlace
          BY <2>3, <2>8, <5>1
        <5>3. tb[Order[k]] = ta[Order[k]]
          BY <1>5, <3>7, <4>2
        <5>. QED  BY <5>2, <5>3
      <4>. QED  BY <4>1, <4>2
    <3>9. \A k \in (i + 1)..N : Order[k] \in DOMAIN t => tb[Order[k]] = t[Order[k]]
      <4>. SUFFICES ASSUME NEW k \in (i + 1)..N, Order[k] \in DOMAIN t
                    PROVE  tb[Order[k]] = t[Order[k]]
        OBVIOUS
      <4>1. k \in i..N /\ k \in 1..N /\ k # i
        BY <1>1
      <4>2. Order[k] # p
        BY <2>6, <4>1
      <4>. QED  BY <2>4, <3>7, <4>1, <4>2
    <3>10. OK(i)
      BY <3>6, <3>8, <3>9 DEF b, tb
    <3>. QED  BY <1>1, <3>10
  <2>. QED  BY <2>7, <2>8
<1>9. N \in H
  <2>1. H \in SUBSET Nat
    BY <1>1
  <2>2. \A i \in 1..N : i - 1 \in H => i \in H
    BY <1>8
  <2>. HIDE DEF H
  <2>3. \A i \in 0..N : i \in H
    BY <1>1, <1>7, <2>1, <2>2, UpTo
  <2>. QED  BY <1>1, <2>3
<1>10. PICK v : TreeMoves(D, s, w, r, v, o)
  BY <1>2, <1>9
<1>11. r.file.ok => \A k \in 1..N : Order[k] \in U => r.obj[o].tree[Order[k]].pos # NoPlace
  BY <1>2, <1>9
<1>12. ASSUME r.file.ok, NEW q \in DOMAIN t, IsPrefix(top, q)
       PROVE  r.obj[o].tree[q].pos # NoPlace
  <2>1. CASE t[q].pos # NoPlace
    <3>1. r.obj[o].tree[q] = t[q]
      BY <1>10, <2>1 DEF TreeMoves, t
    <3>. QED  BY <2>1, <3>1
  <2>2. CASE t[q].pos = NoPlace
    <3>1. q \in U /\ q \in Paths
      BY <1>4, <1>6, <1>12, <2>2
    <3>2. PICK k \in 1..N : Order[k] = q
      BY <3>1, OrderFacts DEF N
    <3>. QED  BY <1>11, <1>12, <3>1, <3>2
  <2>. QED  BY <2>1, <2>2
<1>. QED  BY <1>10, <1>12 DEF t

-----------------------------------------------------------------------------
(* Saving agents.                                                           *)

\* How an agent comes out of a save: either it has the record that it had, and
\* is unchanged and has its root there if it did before, or it has a new one.
Reach(f, a, g, b) ==
  \/ /\ b.pos = a.pos
     /\ ~IsDirty(a) /\ Rooted(f, a) => ~IsDirty(b) /\ Rooted(g, b)
  \/ b.pos # NoPlace /\ ~IsDirty(b) /\ Rooted(g, b)

AgentsMove(D, s, w, r, v) ==
  /\ SaveOK(D, r, v) /\ Goes(s.file, w, r.file, v)
  /\ \A x \in D : /\ r.obj[x].name = s.obj[x].name /\ r.obj[x].type = s.obj[x].type
                  /\ r.obj[x].chk = s.obj[x].chk
                  /\ Content(r.file, r.obj[x]) = Content(s.file, s.obj[x])
                  /\ Reach(s.file, s.obj[x], r.file, r.obj[x])

\* An agent in two saves.
LEMMA ReachOn ==
  ASSUME NEW f, NEW a, NEW g, NEW b, NEW h, NEW c, Reach(f, a, g, b), Reach(g, b, h, c)
  PROVE  Reach(f, a, h, c)
  BY DEF Reach

\* Two steps of saving agents.
LEMMA AgentsMoveOn ==
  ASSUME NEW D, NEW s, NEW w, NEW r, NEW v, NEW q, NEW u,
         AgentsMove(D, s, w, r, v), AgentsMove(D, r, v, q, u)
  PROVE  AgentsMove(D, s, w, q, u)
<1>1. Goes(s.file, w, q.file, u)
  BY GoesOn DEF AgentsMove
<1>2. \A x \in D : Reach(s.file, s.obj[x], q.file, q.obj[x])
  <2>1. \A x \in D : /\ Reach(s.file, s.obj[x], r.file, r.obj[x])
                     /\ Reach(r.file, r.obj[x], q.file, q.obj[x])
    BY DEF AgentsMove
  <2>. QED  BY <2>1, ReachOn
<1>. QED  BY <1>1, <1>2 DEF AgentsMove

\* The file goes on, and the agents stay.
LEMMA FileMoves ==
  ASSUME NEW D, NEW s, NEW w, SaveOK(D, s, w), NEW r, NEW v, r \in States(D),
         r.obj = s.obj, Good(r.file, v), Goes(s.file, w, r.file, v)
  PROVE  AgentsMove(D, s, w, r, v)
<1>1. \A x \in D : AgentOK(r.file, v, s.obj[x])
                   /\ (Rooted(s.file, s.obj[x]) => Rooted(r.file, s.obj[x]))
                   /\ Content(r.file, s.obj[x]) = Content(s.file, s.obj[x])
  BY AgentAlong, ContentAlong DEF SaveOK
<1>2. SaveOK(D, r, v)
  BY <1>1 DEF SaveOK
<1>3. \A x \in D : Reach(s.file, s.obj[x], r.file, r.obj[x])
  BY <1>1 DEF Reach
<1>. QED  BY <1>1, <1>2, <1>3 DEF AgentsMove

\* None.
LEMMA AgentsMoveSame ==
  ASSUME NEW D, NEW s, NEW w, SaveOK(D, s, w)
  PROVE  AgentsMove(D, s, w, s, w)
<1>1. s \in States(D) /\ Good(s.file, w)
  BY DEF SaveOK
<1>. QED  BY <1>1, GoesSame, FileMoves

WithObj(s, o, b) == [s EXCEPT !.obj = [s.obj EXCEPT ![o] = b]]

\* A state of a save with another agent.
LEMMA ObjEdited ==
  ASSUME NEW D, NEW s \in States(D), NEW o \in D, NEW b \in AgentObjs,
         NEW r, r = WithObj(s, o, b)
  PROVE  /\ r \in States(D) /\ r.file = s.file /\ r.obj[o] = b
         /\ \A x \in D : x # o => r.obj[x] = s.obj[x]
<1>. DEFINE m == [s.obj EXCEPT ![o] = b]
<1>1. s.obj \in [D -> AgentObjs]
  BY DEF States
<1>2. m \in [D -> AgentObjs] /\ m[o] = b /\ \A x \in D : x # o => m[x] = s.obj[x]
  BY <1>1
<1>3. r = [s EXCEPT !.obj = m]
  BY DEF WithObj
<1>. HIDE DEF m
<1>4. r \in States(D) /\ r.file = s.file /\ r.obj = m
  BY <1>2, <1>3 DEF States
<1>. QED  BY <1>2, <1>4

\* One agent changes.
LEMMA AgentMoves ==
  ASSUME NEW D, NEW s, NEW w, SaveOK(D, s, w), NEW r, NEW v, r \in States(D),
         Good(r.file, v), Goes(s.file, w, r.file, v), NEW o \in D,
         \A x \in D : x # o => r.obj[x] = s.obj[x],
         AgentOK(r.file, v, r.obj[o]),
         r.obj[o].name = s.obj[o].name, r.obj[o].type = s.obj[o].type,
         r.obj[o].chk = s.obj[o].chk, Reach(s.file, s.obj[o], r.file, r.obj[o]),
         Content(r.file, r.obj[o]) = Content(s.file, s.obj[o])
  PROVE  AgentsMove(D, s, w, r, v)
<1>1. \A x \in D : AgentOK(r.file, v, s.obj[x])
                   /\ (Rooted(s.file, s.obj[x]) => Rooted(r.file, s.obj[x]))
                   /\ Content(r.file, s.obj[x]) = Content(s.file, s.obj[x])
  BY AgentAlong, ContentAlong DEF SaveOK
<1>2. SaveOK(D, r, v)
  BY <1>1 DEF SaveOK
<1>3. \A x \in D : Reach(s.file, s.obj[x], r.file, r.obj[x])
  BY <1>1 DEF Reach
<1>. QED  BY <1>1, <1>2, <1>3 DEF AgentsMove

\* Saving the tree of an agent is a step of saving agents.
LEMMA TreeMovesAgent ==
  ASSUME NEW D, NEW s, NEW w, SaveOK(D, s, w), NEW r, NEW v, NEW o \in D,
         TreeMoves(D, s, w, r, v, o)
  PROVE  AgentsMove(D, s, w, r, v)
<1>. DEFINE a == s.obj[o]  b == r.obj[o]  f == s.file  g == r.file
<1>1. /\ b.pos = a.pos /\ DOMAIN b.tree = DOMAIN a.tree
      /\ \A q \in DOMAIN a.tree : a.tree[q].pos # NoPlace => b.tree[q] = a.tree[q]
      /\ Goes(f, w, g, v) /\ SaveOK(D, r, v)
  BY DEF TreeMoves
<1>2. AgentOK(f, w, a) /\ a \in AgentObjs /\ AgentOK(g, v, b)
  BY <1>1 DEF SaveOK, AgentOK
<1>3. Reach(f, a, g, b)
  <2>. SUFFICES ASSUME ~IsDirty(a), Rooted(f, a)
                PROVE  ~IsDirty(b) /\ Rooted(g, b)
    BY <1>1 DEF Reach
  <2>1. IsLoaded(b) <=> IsLoaded(a)
    BY <1>1 DEF IsLoaded
  <2>2. IsLoaded(a) => <<>> \in DOMAIN a.tree /\ a.tree[<<>>].pos # NoPlace
                       /\ b.tree[<<>>] = a.tree[<<>>]
    BY <1>1, <1>2, RootIs DEF IsDirty
  <2>3. a.pos # NoPlace
    BY DEF IsDirty
  <2>4. At(g, a.pos) = At(f, a.pos)
    BY <1>1, <1>2, <2>3, GoesAlong DEF AgentOK
  <2>. HIDE DEF a, b, f, g
  <2>5. ~IsDirty(b)
    BY <1>1, <2>1, <2>2, <2>3 DEF IsDirty
  <2>6. Rooted(g, b)
    BY <1>1, <2>1, <2>2, <2>3, <2>4 DEF Rooted
  <2>. QED  BY <2>5, <2>6
<1>4. r \in States(D) /\ Good(r.file, v)
  BY <1>1 DEF SaveOK
<1>5. Content(g, b) = Content(f, a)
  <2>1. b.name = a.name /\ b.type = a.type /\ b.pos = a.pos
    BY DEF TreeMoves
  <2>2. \A q \in DOMAIN a.tree : b.tree[q].val = a.tree[q].val
    BY DEF TreeMoves
  <2>3. Content(g, a) = Content(f, a)
    <3>1. Good(f, w)
      BY DEF SaveOK
    <3>. HIDE DEF a, b, f, g
    <3>. QED  BY <1>1, <1>2, <3>1, ContentAlong
  <2>. HIDE DEF a, b, f, g
  <2>4. CASE IsLoaded(a)
    <3>1. IsLoaded(b)
      BY <1>1, <2>4 DEF IsLoaded
    <3>. QED  BY <1>1, <2>1, <2>2, <2>4, <3>1, ContentSame
  <2>5. CASE ~IsLoaded(a)
    <3>1. ~IsLoaded(b)
      BY <1>1, <2>5 DEF IsLoaded
    <3>2. Loaded(g, b).tree = TreeAt(g, At(g, b.pos).root)
      BY <1>2, <3>1 DEF Loaded, AgentOK, AgentObjs
    <3>3. Loaded(g, a).tree = TreeAt(g, At(g, a.pos).root)
      BY <1>2, <2>5 DEF Loaded, AgentOK, AgentObjs
    <3>4. Loaded(g, b).tree = Loaded(g, a).tree
      BY <2>1, <3>2, <3>3
    <3>5. Content(g, b) = Content(g, a)
      BY <2>1, <3>4, ContentIs
    <3>. QED  BY <2>3, <3>5
  <2>. QED  BY <2>4, <2>5
<1>. QED  BY <1>1, <1>2, <1>3, <1>4, <1>5, AgentMoves DEF TreeMoves

RecordOf(a) == [name |-> a.name, type |-> a.type, root |-> a.tree[<<>>].pos]
AfterWrite(s, o, f) == IF ~f.ok THEN [s EXCEPT !.file = f]
                       ELSE [s EXCEPT !.file = f, !.obj[o].pos = LastPlace(f)]

\* What saving o comes to.
AgentSaved(D, s, w, r, o) ==
  /\ \E v : AgentsMove(D, s, w, r, v)
  /\ r.file.cpos = s.file.cpos
  /\ r.file.ok => ~IsDirty(r.obj[o])
  /\ \A x \in D : x # o => r.obj[x] = s.obj[x]

\* Writing the record of an agent that has no change in its tree.
LEMMA AgentWritten ==
  ASSUME NEW D, NEW s, NEW w, SaveOK(D, s, w), s.file.ok, NEW o \in D,
         <<>> \in DOMAIN s.obj[o].tree, s.obj[o].tree[<<>>].pos # NoPlace,
         NEW f, f = Written(s.file, RecordOf(s.obj[o]), FALSE),
         NEW r, r = AfterWrite(s, o, f)
  PROVE  AgentSaved(D, s, w, r, o)
<1>. DEFINE a == s.obj[o]  root == a.tree[<<>>].pos
            rec == [name |-> a.name, type |-> a.type, root |-> root]
<1>1. s \in States(D) /\ Good(s.file, w) /\ AgentOK(s.file, w, a) /\ TreeOK(s.file, w, a.tree)
      /\ a \in AgentObjs /\ s.obj \in [D -> AgentObjs]
  BY DEF SaveOK, AgentOK, States
<1>2. IsNode(s.file, root) /\ w[root] = <<>>
  BY <1>1 DEF TreeOK, IsSaved
<1>3. root \in Recs(s.file) /\ root \in Nat
  BY <1>2 DEF IsNode, Recs
<1>4. rec \in AgentRecords /\ rec \in Records /\ rec.root = root
      /\ rec.name = a.name /\ rec.type = a.type
  <2>1. a.name \in Names /\ a.type \in Types
    BY <1>1 DEF AgentObjs
  <2>. HIDE DEF a, root
  <2>. QED  BY <1>3, <2>1 DEF AgentRecords, Records
<1>. HIDE DEF rec
<1>5. \A last \in Nat : (\A x \in Recs(s.file) : x < last)
                         => Fits(s.file, [w EXCEPT ![last] = <<>>], last, rec)
  <2>. SUFFICES ASSUME NEW last \in Nat, \A x \in Recs(s.file) : x < last
                PROVE  Fits(s.file, [w EXCEPT ![last] = <<>>], last, rec)
    OBVIOUS
  <2>. DEFINE v == [w EXCEPT ![last] = <<>>]
  <2>1. v[root] = <<>>
    BY <1>1, <1>2, <1>3 DEF Good
  <2>. HIDE DEF v, root
  <2>2. AgentFits(s.file, v, last, rec)
    BY <1>2, <1>3, <1>4, <2>1 DEF AgentFits
  <2>. QED  BY <1>4, <2>2, KindsApart DEF Fits, v
<1>6. PICK v : /\ Good(f, v) /\ Goes(s.file, w, f, v)
               /\ ~f.ok => SameRecs(s.file, f)
               /\ f.ok => OneMore(s.file, f, rec) /\ f.cpos = s.file.cpos
  <2>1. PICK cp \in BOOLEAN : cp = FALSE
    OBVIOUS
  <2>2. /\ f = Written(s.file, rec, cp) /\ (~cp => rec \notin SnapRecords)
        /\ cp => rec \in SnapRecords /\ rec.prev = s.file.cpos
    <3>1. f = Written(s.file, rec, cp)
      BY <2>1 DEF rec, RecordOf
    <3>2. rec \in AgentRecords
      BY <1>4
    <3>. QED  BY <2>1, <3>1, <3>2, KindsApart
  <2>3. <<>> \in Paths
    BY PathsType
  <2>4. \E v : /\ Good(f, v) /\ Goes(s.file, w, f, v)
               /\ ~f.ok => SameRecs(s.file, f)
               /\ f.ok => /\ v = [w EXCEPT ![LastPlace(f)] = <<>>] /\ OneMore(s.file, f, rec)
                          /\ f.cpos = IF cp THEN LastPlace(f) ELSE s.file.cpos
    <3>1. s.file.ok /\ Good(s.file, w) /\ rec \in Records
      BY <1>1, <1>4
    <3>. HIDE DEF a, root
    <3>. QED  BY ONLY <1>5, <2>2, <2>3, <3>1, cp \in BOOLEAN, WrittenGood
  <2>. QED  BY <2>1, <2>4
<1>7. f \in Files /\ f.cpos = s.file.cpos
  BY <1>6 DEF Good, FileOK, SameRecs
<1>8. CASE ~f.ok
  <2>1. r \in States(D) /\ r.file = f /\ r.obj = s.obj
    <3>1. r = [s EXCEPT !.file = f]
      BY <1>8 DEF AfterWrite
    <3>. QED  BY ONLY <1>1, <1>7, <3>1, FileEdited
  <2>2. AgentsMove(D, s, w, r, v)
    BY <1>6, <2>1, FileMoves
  <2>. QED  BY <1>7, <1>8, <2>1, <2>2 DEF AgentSaved
<1>9. CASE f.ok
  <2>. DEFINE x == LastPlace(f)  b == [a EXCEPT !.pos = x]  m == [s.obj EXCEPT ![o] = b]
  <2>1. x \in Recs(f) /\ At(f, x) = rec /\ x \in Nat \ {0}
    BY <1>6, <1>9 DEF OneMore
  <2>. HIDE DEF x
  <2>2. IsAgent(f, x) /\ x # NoPlace
    BY <1>4, <2>1 DEF IsAgent, NoPlace
  <2>3. /\ b \in AgentObjs /\ b.name = a.name /\ b.type = a.type
        /\ b.pos = x /\ b.chk = a.chk /\ b.tree = a.tree
    BY <1>1, <2>1, AgentEdits
  <2>4. r = [s EXCEPT !.file = f, !.obj = m]
    BY <1>1, <1>9 DEF x, States, AfterWrite
  <2>. HIDE DEF b
  <2>5. m \in [D -> AgentObjs] /\ m[o] = b /\ \A y \in D : y # o => m[y] = s.obj[y]
    BY <1>1, <2>3
  <2>. HIDE DEF m
  <2>6. r \in States(D) /\ r.file = f /\ r.obj = m
    BY <1>1, <1>7, <2>4, <2>5 DEF States
  <2>7. AgentOK(f, v, a)
    <3>. HIDE DEF a
    <3>1. Goes(s.file, w, f, v) /\ AgentOK(s.file, w, a)
      BY <1>1, <1>6
    <3>. QED  BY ONLY <3>1, AgentAlong
  <2>. HIDE DEF a
  <2>8. AgentOK(f, v, b)
    BY <1>4, <2>1, <2>2, <2>3, <2>7 DEF AgentOK
  <2>9. Rooted(f, b)
    BY <1>4, <2>1, <2>3 DEF Rooted, root
  <2>10. ~IsDirty(b)
    BY <2>2, <2>3 DEF IsDirty, a
  <2>11. Reach(s.file, a, f, b)
    BY <2>2, <2>3, <2>9, <2>10 DEF Reach
  <2>12. Content(f, b) = Content(s.file, a)
    <3>1. <<>> \in DOMAIN a.tree
      BY DEF a
    <3>2. IsLoaded(a) /\ IsLoaded(b)
      BY <2>3, <3>1 DEF IsLoaded
    <3>. QED  BY ONLY <2>3, <3>2, ContentSame
  <2>13. AgentsMove(D, s, w, r, v)
    <3>1. r.file = f /\ r.obj[o] = b /\ s.obj[o] = a
      BY <2>5, <2>6 DEF a
    <3>2. \A x1 \in D : x1 # o => r.obj[x1] = s.obj[x1]
      BY <2>5, <2>6
    <3>3. Good(r.file, v) /\ Goes(s.file, w, r.file, v) /\ AgentOK(r.file, v, r.obj[o])
      BY <1>6, <2>8, <3>1
    <3>4. /\ r.obj[o].name = s.obj[o].name /\ r.obj[o].type = s.obj[o].type
          /\ r.obj[o].chk = s.obj[o].chk
      BY <2>3, <3>1
    <3>5. /\ Reach(s.file, s.obj[o], r.file, r.obj[o])
          /\ Content(r.file, r.obj[o]) = Content(s.file, s.obj[o])
      BY <2>11, <2>12, <3>1
    <3>6. SaveOK(D, s, w) /\ o \in D /\ r \in States(D)
      BY <2>6
    <3>. QED  BY ONLY <3>2, <3>3, <3>4, <3>5, <3>6, AgentMoves
  <2>. QED  BY <1>7, <2>5, <2>6, <2>10, <2>13 DEF AgentSaved
<1>. QED  BY <1>8, <1>9

\* Saving an agent gives it a record, unless a write fails.
LEMMA SaveAgentOK ==
  ASSUME NEW D, NEW s0, NEW w, SaveOK(D, s0, w), NEW o \in D,
         NEW r, r = SaveAgent(s0, o)
  PROVE  AgentSaved(D, s0, w, r, o)
<1>. DEFINE a0 == s0.obj[o]  f0 == s0.file  b0 == Loaded(f0, a0)
            s == [s0 EXCEPT !.obj = [s0.obj EXCEPT ![o] = b0]]
            q == SaveTree(s, o, <<>>)  a == q.obj[o]
            f == Written(q.file, [name |-> a.name, type |-> a.type,
                                  root |-> a.tree[<<>>].pos], FALSE)
            e == IF ~f.ok THEN [q EXCEPT !.file = f]
                 ELSE [q EXCEPT !.file = f, !.obj[o].pos = LastPlace(f)]
<1>1. s0 \in States(D) /\ Good(f0, w) /\ AgentOK(f0, w, a0)
  BY DEF SaveOK
<1>2. s = [s0 EXCEPT !.obj[o] = Loaded(s0.file, @)]
  BY <1>1 DEF States
<1>3. r = IF ~IsDirty(s.obj[o]) THEN s ELSE IF ~q.file.ok THEN q ELSE e
  BY <1>2 DEF SaveAgent
<1>4. /\ AgentOK(f0, w, b0) /\ IsLoaded(b0) /\ <<>> \in DOMAIN b0.tree
      /\ b0.name = a0.name /\ b0.type = a0.type /\ b0.pos = a0.pos /\ b0.chk = a0.chk
      /\ Rooted(f0, a0) => Rooted(f0, b0)
      /\ IsDirty(b0) <=> IsDirty(a0)
  <2>. HIDE DEF a0, f0
  <2>. QED  BY <1>1, LoadedOK
<1>. HIDE DEF b0
<1>5. s = [s0 EXCEPT !.obj = [s0.obj EXCEPT ![o] = b0]]
  OBVIOUS
<1>. HIDE DEF s
<1>6. s \in States(D) /\ s.file = f0 /\ s.obj[o] = b0 /\ \A x \in D : x # o => s.obj[x] = s0.obj[x]
  <2>1. b0 \in AgentObjs
    BY <1>4 DEF AgentOK
  <2>2. s0 \in States(D) /\ o \in D
    BY <1>1
  <2>3. s = WithObj(s0, o, b0)
    BY <1>5 DEF WithObj
  <2>. QED  BY <2>1, <2>2, <2>3, ObjEdited
<1>7. AgentsMove(D, s0, w, s, w)
  <2>1. Reach(f0, a0, f0, b0)
    BY <1>4 DEF Reach
  <2>2. Goes(f0, w, f0, w)
    BY GoesSame
  <2>3. Content(f0, b0) = Content(f0, a0)
    <3>. HIDE DEF f0, a0
    <3>. QED  BY <1>1, ContentLoaded DEF b0
  <2>. QED  BY <1>1, <1>4, <1>6, <2>1, <2>2, <2>3, AgentMoves
<1>8. SaveOK(D, s, w)
  BY <1>7 DEF AgentsMove
<1>9. CASE ~IsDirty(s.obj[o])
  <2>1. r = s
    BY <1>3, <1>9
  <2>. QED  BY <1>6, <1>7, <1>9, <2>1 DEF AgentSaved
<1>. HIDE DEF q
<1>10. PICK v : TreeMoves(D, s, w, q, v, o)
  BY <1>8, PathsType, SaveTreeOK DEF q
<1>11. q.file.ok => \A p \in DOMAIN b0.tree : IsPrefix(<<>>, p) => q.obj[o].tree[p].pos # NoPlace
  BY <1>6, <1>8, PathsType, SaveTreeOK DEF q
<1>12. AgentsMove(D, s0, w, q, v)
  BY <1>7, <1>8, <1>10, TreeMovesAgent, AgentsMoveOn
<1>13. q.file.cpos = f0.cpos /\ \A x \in D : x # o => q.obj[x] = s0.obj[x]
  BY <1>6, <1>10 DEF TreeMoves
<1>14. CASE IsDirty(s.obj[o]) /\ ~q.file.ok
  <2>1. r = q
    BY <1>3, <1>14
  <2>. QED  BY <1>12, <1>13, <1>14, <2>1 DEF AgentSaved
<1>15. CASE IsDirty(s.obj[o]) /\ q.file.ok
  <2>1. r = e
    BY <1>3, <1>15
  <2>2. <<>> \in DOMAIN q.obj[o].tree /\ q.obj[o].tree[<<>>].pos # NoPlace
    <3>1. <<>> \in Seq(Nat)
      OBVIOUS
    <3>2. IsPrefix(<<>>, <<>>)
      BY <3>1, PrefixFacts
    <3>3. DOMAIN q.obj[o].tree = DOMAIN b0.tree
      BY <1>6, <1>10 DEF TreeMoves
    <3>. QED  BY <1>4, <1>11, <1>15, <3>2, <3>3
  <2>3. SaveOK(D, q, v)
    BY <1>12 DEF AgentsMove
  <2>4. AgentSaved(D, q, v, r, o)
    <3>1. f = Written(q.file, RecordOf(q.obj[o]), FALSE)
      BY DEF RecordOf
    <3>2. e = AfterWrite(q, o, f)
      BY DEF AfterWrite
    <3>. HIDE DEF f, e
    <3>3. q.file.ok /\ o \in D
      BY <1>15
    <3>4. r = AfterWrite(q, o, f)
      BY <2>1, <3>2
    <3>. QED  BY ONLY <2>2, <2>3, <3>1, <3>3, <3>4, AgentWritten
  <2>5. \E u : AgentsMove(D, s0, w, r, u)
    BY <1>12, <2>4, AgentsMoveOn DEF AgentSaved
  <2>. QED  BY <1>13, <2>4, <2>5 DEF AgentSaved
<1>. QED  BY <1>9, <1>14, <1>15

\* One step of SaveAgents, and the steps up to the n-th.
AgentStep(r, o) == IF r.file.ok THEN SaveAgent(r, o) ELSE r
AgentSteps(g, s, order, n) ==
  /\ g = [i \in 0..n |-> g[i]] /\ g[0] = s
  /\ \A i \in 1..n : g[i] = AgentStep(g[i - 1], order[i])

\* What SaveAgents defines by recursion exists.
LEMMA AgentStepsExist ==
  ASSUME NEW s, NEW order, NEW N \in Nat
  PROVE  \E g : AgentSteps(g, s, order, N)
<1>. DEFINE H == {n \in Nat : \E g : AgentSteps(g, s, order, n)}
<1>1. 0 \in H
  <2>1. AgentSteps([i \in 0..0 |-> s], s, order, 0)
    BY DEF AgentSteps
  <2>. QED  BY <2>1
<1>2. ASSUME NEW n \in 1..N, n - 1 \in H
      PROVE  n \in H
  <2>1. PICK g : AgentSteps(g, s, order, n - 1)
    BY <1>2
  <2>. DEFINE e == AgentStep(g[n - 1], order[n])
              h == [i \in 0..n |-> IF i = n THEN e ELSE g[i]]
  <2>. HIDE DEF e
  <2>2. h[n] = e /\ h = [i \in 0..n |-> h[i]] /\ \A i \in 0..(n - 1) : h[i] = g[i]
    OBVIOUS
  <2>. HIDE DEF h
  <2>3. h[0] = s
    BY <2>1, <2>2 DEF AgentSteps
  <2>4. ASSUME NEW i \in 1..n
        PROVE  h[i] = AgentStep(h[i - 1], order[i])
    <3>1. CASE i = n
      <4>1. h[n - 1] = g[n - 1]
        BY <2>2, SMTT(30)
      <4>. QED  BY <2>2, <3>1, <4>1 DEF e
    <3>2. CASE i # n
      <4>1. i \in 1..(n - 1) /\ i \in 0..(n - 1) /\ i - 1 \in 0..(n - 1)
        BY <3>2
      <4>2. h[i] = g[i] /\ h[i - 1] = g[i - 1]
        BY <2>2, <4>1
      <4>. QED  BY <2>1, <4>1, <4>2 DEF AgentSteps
    <3>. QED  BY <3>1, <3>2
  <2>5. AgentSteps(h, s, order, n)
    BY <2>2, <2>3, <2>4 DEF AgentSteps
  <2>. QED  BY <2>5
<1>3. H \in SUBSET Nat
  OBVIOUS
<1>4. \A n \in 1..N : n - 1 \in H => n \in H
  BY <1>2
<1>5. N \in H
  <2>. HIDE DEF H
  <2>. QED  BY <1>1, <1>3, <1>4, UpTo
<1>. QED  BY <1>5

\* What SaveAgents comes to is reached step by step.
LEMMA SaveAgentsIs ==
  ASSUME NEW s, NEW order, Len(order) \in Nat
  PROVE  \E g : AgentSteps(g, s, order, Len(order)) /\ SaveAgents(s, order) = g[Len(order)]
<1>. DEFINE N == Len(order)
            Eqn(g) == g = [i \in 0..N |->
              IF i = 0 THEN s
              ELSE LET r == g[i - 1]
                   IN  IF r.file.ok THEN SaveAgent(r, order[i]) ELSE r]
            g == CHOOSE g : Eqn(g)
<1>1. \E h : Eqn(h)
  <2>1. PICK h : AgentSteps(h, s, order, N)
    BY AgentStepsExist
  <2>2. \A i \in 0..N : h[i] = IF i = 0 THEN s
              ELSE LET r == h[i - 1]
                   IN  IF r.file.ok THEN SaveAgent(r, order[i]) ELSE r
    <3>1. \A i \in 0..N : i # 0 => i \in 1..N
      OBVIOUS
    <3>. QED  BY <2>1, <3>1 DEF AgentSteps, AgentStep
  <2>3. h = [i \in 0..N |-> h[i]]
    BY <2>1 DEF AgentSteps
  <2>. HIDE DEF N
  <2>4. Eqn(h)
    BY <2>2, <2>3
  <2>. QED  BY <2>4
<1>2. Eqn(g)
  BY <1>1
<1>3. SaveAgents(s, order) = g[N]
  BY DEF SaveAgents
<1>. HIDE DEF g
<1>4. AgentSteps(g, s, order, N)
  <2>1. g = [i \in 0..N |-> g[i]]
    BY <1>2
  <2>2. g[0] = s
    BY <1>2
  <2>3. ASSUME NEW i \in 1..N
        PROVE  g[i] = AgentStep(g[i - 1], order[i])
    <3>1. i \in 0..N /\ i # 0
      OBVIOUS
    <3>. QED  BY <1>2, <3>1 DEF AgentStep
  <2>. QED  BY <2>1, <2>2, <2>3 DEF AgentSteps
<1>. QED  BY <1>3, <1>4

\* Saving agents gives each a record, unless a write fails.
LEMMA SaveAgentsOK ==
  ASSUME NEW D, NEW s, NEW w, SaveOK(D, s, w), NEW order, Len(order) \in Nat,
         \A i \in 1..Len(order) : order[i] \in D, NEW r, r = SaveAgents(s, order)
  PROVE  /\ \E v : AgentsMove(D, s, w, r, v)
         /\ r.file.cpos = s.file.cpos
         /\ r.file.ok => \A i \in 1..Len(order) : ~IsDirty(r.obj[order[i]])
<1>. DEFINE N == Len(order)
<1>1. PICK g : AgentSteps(g, s, order, N) /\ r = g[N]
  BY SaveAgentsIs
<1>2. g[0] = s /\ \A i \in 1..N : g[i] = AgentStep(g[i - 1], order[i]) /\ order[i] \in D
  BY <1>1 DEF AgentSteps
<1>. N \in Nat
  OBVIOUS
<1>. HIDE DEF N
<1>. DEFINE OK(i) == /\ \E v : AgentsMove(D, s, w, g[i], v)
                     /\ g[i].file.cpos = s.file.cpos
                     /\ g[i].file.ok => \A k \in 1..i : ~IsDirty(g[i].obj[order[k]])
            H == {i \in 0..N : OK(i)}
<1>3. 0 \in H
  <2>1. AgentsMove(D, s, w, g[0], w)
    BY <1>2, AgentsMoveSame
  <2>. QED  BY <1>2, <2>1
<1>4. ASSUME NEW i \in 1..N, i - 1 \in H
      PROVE  i \in H
  <2>. DEFINE a == g[i - 1]  b == g[i]  o == order[i]
  <2>1. b = AgentStep(a, o) /\ o \in D
    BY <1>2
  <2>2. /\ \E v : AgentsMove(D, s, w, a, v)
        /\ a.file.cpos = s.file.cpos
        /\ a.file.ok => \A k \in 1..(i - 1) : ~IsDirty(a.obj[order[k]])
    BY <1>4
  <2>3. PICK v : AgentsMove(D, s, w, a, v)
    BY <2>2
  <2>4. \A k \in 1..i : (k = i \/ k \in 1..(i - 1)) /\ order[k] \in D
    BY <1>2
  <2>5. i \in 0..N
    OBVIOUS
  <2>. HIDE DEF a, b, o
  <2>6. CASE ~a.file.ok
    <3>1. b = a
      BY <2>1, <2>6 DEF AgentStep
    <3>2. OK(i)
      BY <2>2, <2>6, <3>1 DEF b
    <3>. QED  BY <2>5, <3>2
  <2>7. CASE a.file.ok
    <3>1. b = SaveAgent(a, o) /\ SaveOK(D, a, v)
      BY <2>1, <2>3, <2>7 DEF AgentStep, AgentsMove
    <3>2. /\ \E u : AgentsMove(D, a, v, b, u)
          /\ b.file.cpos = a.file.cpos
          /\ b.file.ok => ~IsDirty(b.obj[o])
          /\ \A x \in D : x # o => b.obj[x] = a.obj[x]
      BY <2>1, <3>1, SaveAgentOK DEF AgentSaved
    <3>3. PICK u : AgentsMove(D, a, v, b, u)
      BY <3>2
    <3>4. AgentsMove(D, s, w, b, u)
      BY <2>3, <3>3, AgentsMoveOn
    <3>5. b.file.ok => \A k \in 1..i : ~IsDirty(b.obj[order[k]])
      <4>. SUFFICES ASSUME b.file.ok, NEW k \in 1..i
                    PROVE  ~IsDirty(b.obj[order[k]])
        OBVIOUS
      <4>1. CASE order[k] = o
        BY <3>2, <4>1
      <4>2. CASE order[k] # o
        <5>1. k # i
          BY <4>2 DEF o
        <5>2. order[k] \in D /\ ~IsDirty(a.obj[order[k]])
          BY <2>2, <2>4, <2>7, <5>1
        <5>. QED  BY <3>2, <4>2, <5>2
      <4>. QED  BY <4>1, <4>2
    <3>6. OK(i)
      BY <2>2, <3>2, <3>4, <3>5 DEF b
    <3>. QED  BY <2>5, <3>6
  <2>. QED  BY <2>6, <2>7
<1>5. N \in H
  <2>1. H \in SUBSET Nat
    OBVIOUS
  <2>2. \A i \in 1..N : i - 1 \in H => i \in H
    BY <1>4
  <2>. HIDE DEF H
  <2>3. \A i \in 0..N : i \in H
    BY <1>3, <2>1, <2>2, UpTo
  <2>. QED  BY <2>3
<1>. QED  BY <1>1, <1>5 DEF N

\* An order of a set goes through all of it.
LEMMA SeqsFacts ==
  ASSUME NEW S, IsFiniteSet(S), NEW order \in SetToSeqs(S)
  PROVE  /\ Len(order) \in Nat
         /\ \A i \in 1..Len(order) : order[i] \in S
         /\ \A x \in S : \E i \in 1..Len(order) : order[i] = x
<1>. DEFINE n == Cardinality(S)
<1>1. n \in Nat
  BY FS_CardinalityType
<1>2. order \in [1..n -> S] /\ \A i, j \in 1..n : i # j => order[i] # order[j]
  BY DEF SetToSeqs
<1>3. IsFiniteSet(1..n) /\ Cardinality(1..n) = n
  <2>1. IsFiniteSet(1..n) /\ Cardinality(1..n) = IF 1 > n THEN 0 ELSE n - 1 + 1
    BY <1>1, FS_Interval
  <2>. QED  BY <1>1, <2>1
<1>. HIDE DEF n
<1>4. order \in Injection(1..n, S)
  <2>1. \A a, b \in DOMAIN order : order[a] = order[b] => a = b
    BY <1>2
  <2>2. IsInjective(order)
    BY <2>1 DEF IsInjective
  <2>. QED  BY <1>2, <2>2 DEF Injection
<1>5. order \in Surjection(1..n, S)
  <2>1. Cardinality(1..n) = Cardinality(S)
    BY <1>3 DEF n
  <2>. QED  BY <1>3, <1>4, <2>1, FS_Injection
<1>6. \A x \in S : \E i \in 1..n : order[i] = x
  BY <1>5 DEF Surjection
<1>7. order \in Seq(S) /\ Len(order) = n
  BY <1>1, <1>2
<1>. QED  BY <1>1, <1>2, <1>6, <1>7

SnapOf(s, r) == [prev |-> s.file.cpos, agents |-> {r.obj[o].pos : o \in agents}]
AfterSnap(s, r) == [r EXCEPT !.file = Written(r.file, SnapOf(s, r), TRUE)]

\* A snapshot of the agents has been written behind the last one, and they
\* are what their records say.
SnapDone(s, q) ==
  /\ q.file.cpos # NoPlace
  /\ At(q.file, q.file.cpos) = [prev |-> s.file.cpos, agents |-> {q.obj[o].pos : o \in agents}]
  /\ \A o \in agents : ~IsDirty(q.obj[o])

\* Saving a snapshot.
LEMMA SaveSnapshotOK ==
  ASSUME NEW D, NEW s, NEW w, SaveOK(D, s, w), agents \subseteq D, IsFiniteSet(agents),
         \A o, a \in agents : s.obj[o].name = s.obj[a].name => o = a,
         NEW order \in SetToSeqs(agents), NEW q, q = SaveSnapshot(s, order)
  PROVE  /\ \E v : AgentsMove(D, s, w, q, v)
         /\ q.file.cpos = s.file.cpos \/ SnapDone(s, q)
<1>1. PICK r : r = SaveAgents(s, order)
  OBVIOUS
<1>2. q = IF ~r.file.ok THEN r ELSE AfterSnap(s, r)
  BY <1>1 DEF SaveSnapshot, AfterSnap, SnapOf
<1>3. /\ Len(order) \in Nat /\ \A i \in 1..Len(order) : order[i] \in agents
      /\ \A x \in agents : \E i \in 1..Len(order) : order[i] = x
  BY SeqsFacts
<1>4. /\ \E v : AgentsMove(D, s, w, r, v)
      /\ r.file.cpos = s.file.cpos
      /\ r.file.ok => \A i \in 1..Len(order) : ~IsDirty(r.obj[order[i]])
  <2>1. \A i \in 1..Len(order) : order[i] \in D
    BY <1>3
  <2>2. Len(order) \in Nat /\ SaveOK(D, s, w)
    BY <1>3
  <2>. QED  BY ONLY <1>1, <2>1, <2>2, SaveAgentsOK
<1>5. PICK v : AgentsMove(D, s, w, r, v)
  BY <1>4
<1>6. r \in States(D) /\ Good(r.file, v) /\ SaveOK(D, r, v)
      /\ \A o \in D : AgentOK(r.file, v, r.obj[o])
  BY <1>5 DEF AgentsMove, SaveOK
<1>7. CASE ~r.file.ok
  BY <1>2, <1>4, <1>5, <1>7
<1>8. CASE r.file.ok
  <2>. DEFINE rec == SnapOf(s, r)  f == Written(r.file, rec, TRUE)
  <2>1. \A o \in agents : /\ IsAgent(r.file, r.obj[o].pos)
                          /\ At(r.file, r.obj[o].pos).name = s.obj[o].name
    <3>. SUFFICES ASSUME NEW o \in agents
                  PROVE  /\ IsAgent(r.file, r.obj[o].pos)
                         /\ At(r.file, r.obj[o].pos).name = s.obj[o].name
      OBVIOUS
    <3>1. r.obj[o].pos # NoPlace
      BY <1>3, <1>4, <1>8 DEF IsDirty
    <3>2. o \in D
      OBVIOUS
    <3>3. AgentOK(r.file, v, r.obj[o]) /\ r.obj[o].name = s.obj[o].name
      BY <1>5, <1>6, <3>2 DEF AgentsMove
    <3>. QED  BY <3>1, <3>3 DEF AgentOK
  <2>2. rec.prev = r.file.cpos /\ rec.agents = {r.obj[o].pos : o \in agents}
    BY <1>4 DEF SnapOf
  <2>3. rec \in SnapRecords /\ rec \in Records
    <3>1. r.file.cpos \in Nat
      BY <1>6 DEF Good, FileOK, Files
    <3>2. \A o \in agents : r.obj[o].pos \in Nat
      BY <2>1 DEF IsAgent, Recs
    <3>3. rec = [prev |-> r.file.cpos, agents |-> {r.obj[o].pos : o \in agents}]
      BY <1>4 DEF SnapOf
    <3>. HIDE DEF rec
    <3>4. rec \in SnapRecords
      BY <3>1, <3>2, <3>3 DEF SnapRecords
    <3>. QED  BY <3>4 DEF Records
  <2>. HIDE DEF rec
  <2>4. ASSUME NEW last \in Nat, \A x \in Recs(r.file) : x < last
        PROVE  Fits(r.file, [v EXCEPT ![last] = <<>>], last, rec)
    <3>1. \A a \in rec.agents : \E o \in agents : a = r.obj[o].pos
      BY <2>2
    <3>2. \A a \in rec.agents : IsAgent(r.file, a) /\ a < last
      BY <2>1, <2>4, <3>1 DEF IsAgent
    <3>3. \A a, b \in rec.agents : At(r.file, a).name = At(r.file, b).name => a = b
      <4>. SUFFICES ASSUME NEW a \in rec.agents, NEW b \in rec.agents,
                           At(r.file, a).name = At(r.file, b).name
                    PROVE  a = b
        OBVIOUS
      <4>1. PICK o \in agents : a = r.obj[o].pos
        BY <3>1
      <4>2. PICK x \in agents : b = r.obj[x].pos
        BY <3>1
      <4>3. s.obj[o].name = s.obj[x].name
        BY <2>1, <4>1, <4>2
      <4>4. o = x
        BY <4>3
      <4>. QED  BY <4>1, <4>2, <4>4
    <3>4. rec.prev # NoPlace => IsSnap(r.file, rec.prev) /\ rec.prev < last
      BY <1>6, <2>2, <2>4 DEF Good, IsSnap
    <3>5. SnapFits(r.file, last, rec)
      BY <3>2, <3>3, <3>4 DEF SnapFits
    <3>. QED  BY <2>3, <3>5, KindsApart DEF Fits
  <2>5. \E u : /\ Good(f, u) /\ Goes(r.file, v, f, u)
               /\ ~f.ok => SameRecs(r.file, f)
               /\ f.ok => OneMore(r.file, f, rec) /\ f.cpos = LastPlace(f)
    <3>1. PICK cp \in BOOLEAN : cp = TRUE
      OBVIOUS
    <3>2. /\ f = Written(r.file, rec, cp) /\ (~cp => rec \notin SnapRecords)
          /\ cp => rec \in SnapRecords /\ rec.prev = r.file.cpos
      BY <2>2, <2>3, <3>1
    <3>3. <<>> \in Paths
      BY PathsType
    <3>4. \A last \in Nat : (\A x \in Recs(r.file) : x < last)
                             => Fits(r.file, [v EXCEPT ![last] = <<>>], last, rec)
      BY <2>4
    <3>5. Good(r.file, v) /\ r.file.ok /\ rec \in Records /\ cp \in BOOLEAN
      BY <1>6, <1>8, <2>3
    <3>. HIDE DEF f
    <3>6. \E u : /\ Good(f, u) /\ Goes(r.file, v, f, u)
                 /\ ~f.ok => SameRecs(r.file, f)
                 /\ f.ok => /\ u = [v EXCEPT ![LastPlace(f)] = <<>>] /\ OneMore(r.file, f, rec)
                            /\ f.cpos = IF cp THEN LastPlace(f) ELSE r.file.cpos
      BY ONLY <3>2, <3>3, <3>4, <3>5, WrittenGood
    <3>. QED  BY <3>1, <3>6
  <2>6. q = [r EXCEPT !.file = f]
    BY <1>2, <1>8 DEF AfterSnap, rec
  <2>. HIDE DEF f
  <2>7. PICK u : /\ Good(f, u) /\ Goes(r.file, v, f, u)
                 /\ ~f.ok => SameRecs(r.file, f)
                 /\ f.ok => OneMore(r.file, f, rec) /\ f.cpos = LastPlace(f)
    BY <2>5
  <2>8. f \in Files
    BY <2>7 DEF Good, FileOK
  <2>9. q \in States(D) /\ q.file = f /\ q.obj = r.obj
    BY <1>6, <2>6, <2>8, FileEdited
  <2>10. AgentsMove(D, r, v, q, u)
    BY <1>6, <2>7, <2>9, FileMoves
  <2>11. AgentsMove(D, s, w, q, u)
    BY <1>5, <2>10, AgentsMoveOn
  <2>12. q.file.cpos = s.file.cpos \/ SnapDone(s, q)
    <3>1. CASE ~f.ok
      BY <1>4, <2>7, <2>9, <3>1 DEF SameRecs
    <3>2. CASE f.ok
      <4>1. f.cpos # NoPlace /\ At(f, f.cpos) = rec
        BY <2>7, <3>2 DEF OneMore, NoPlace
      <4>2. \A o \in agents : ~IsDirty(r.obj[o])
        BY <1>3, <1>4, <1>8
      <4>3. rec = [prev |-> s.file.cpos, agents |-> {q.obj[o].pos : o \in agents}]
        BY <2>9 DEF rec, SnapOf
      <4>. QED  BY <2>9, <4>1, <4>2, <4>3 DEF SnapDone
    <3>. QED  BY <3>1, <3>2
  <2>. QED  BY <2>11, <2>12
<1>. QED  BY <1>7, <1>8

-----------------------------------------------------------------------------
(* The invariant.                                                           *)

\* The file as it is, or as opening it would make it.
View == IF isopen THEN Here(0) ELSE Reopened(disk)

\* Objects are in memory, and the names of a snapshot's are different.
ObjsOK(O, A) ==
  /\ DOMAIN O \subseteq Objs /\ O = [o \in DOMAIN O |-> O[o]] /\ A \subseteq DOMAIN O
  /\ \A o, a \in A : O[o].name = O[a].name => o = a

AllOK(f, w, O) == Good(f, w) /\ \A o \in DOMAIN O : AgentOK(f, w, O[o])
AllRooted(f, O) == \A o \in DOMAIN O : Rooted(f, O[o])

Kept ==
  /\ isopen \in BOOLEAN /\ cut \in BOOLEAN
  /\ ObjsOK(obj, agents)
  /\ \E w : AllOK(View, w, obj)
  /\ ~cut => AllRooted(View, obj)
  /\ ~isopen => /\ obj = <<>> /\ agents = {}
                /\ wblk = 0 /\ wbuf = EmptyBlock /\ cpos = NoPlace

\* The same file, whatever there is room for.
SameFile(f, g) ==
  g.disk = f.disk /\ g.wblk = f.wblk /\ g.wbuf = f.wbuf /\ g.cpos = f.cpos

\* The room for writes has no part in what is read.
LEMMA SameFileFacts ==
  ASSUME NEW f, NEW g, SameFile(f, g), FileOK(f), g \in Files
  PROVE  FileOK(g) /\ SameRecs(f, g) /\ \A p : At(g, p) = At(f, p)
<1>1. \A b : Block(g, b) = Block(f, b)
  BY DEF SameFile, Block
<1>2. \A p : At(g, p) = At(f, p)
  BY <1>1, BlockAt
<1>3. Recs(g) = Recs(f)
  BY <1>1 DEF Recs, SameFile
<1>4. FileOK(g)
  BY DEF FileOK, SameFile
<1>. QED  BY <1>2, <1>3, <1>4 DEF SameRecs, Sees, SameFile, FoundOn

\* All objects, when nothing of the file is lost.
LEMMA AllAlong ==
  ASSUME NEW f, NEW w, NEW g, NEW v, NEW O, AllOK(f, w, O), Good(g, v), Goes(f, w, g, v)
  PROVE  AllOK(g, v, O) /\ (AllRooted(f, O) => AllRooted(g, O))
  BY AgentAlong DEF AllOK, AllRooted

\* All objects, when only the room is another.
LEMMA SameFileAll ==
  ASSUME NEW f, NEW g, SameFile(f, g), g \in Files, NEW w, NEW O, AllOK(f, w, O)
  PROVE  AllOK(g, w, O) /\ (AllRooted(f, O) => AllRooted(g, O))
<1>1. Good(f, w) /\ FileOK(f)
  BY DEF AllOK, Good
<1>2. Good(g, w) /\ Goes(f, w, g, w)
  BY <1>1, SameFileFacts, GoodSame
<1>. QED  BY <1>2, AllAlong

\* One more object, one that has changed, and one less.
LEMMA MoreObjs ==
  ASSUME NEW f, NEW w, NEW O, NEW A, ObjsOK(O, A), AllOK(f, w, O),
         NEW x \in Objs \ DOMAIN O, NEW b, AgentOK(f, w, b), Rooted(f, b),
         NEW P, P = With(O, x, b)
  PROVE  /\ AllOK(f, w, P) /\ (AllRooted(f, O) => AllRooted(f, P))
         /\ DOMAIN P = DOMAIN O \cup {x} /\ P[x] = b /\ \A o \in DOMAIN O : P[o] = O[o]
         /\ ObjsOK(P, A)
<1>1. /\ DOMAIN P = DOMAIN O \cup {x} /\ P[x] = b /\ \A o \in DOMAIN O : P[o] = O[o]
      /\ P = [o \in DOMAIN P |-> P[o]]
  BY DEF With
<1>2. AllOK(f, w, P) /\ (AllRooted(f, O) => AllRooted(f, P))
  BY <1>1 DEF AllOK, AllRooted
<1>3. A \subseteq DOMAIN O /\ DOMAIN O \subseteq Objs
      /\ \A o, a \in A : O[o].name = O[a].name => o = a
  BY DEF ObjsOK
<1>4. \A o, a \in A : P[o].name = P[a].name => o = a
  BY <1>1, <1>3
<1>5. ObjsOK(P, A)
  BY <1>1, <1>3, <1>4 DEF ObjsOK
<1>. QED  BY <1>1, <1>2, <1>5

\* An object that has changed.
LEMMA ChangedObj ==
  ASSUME NEW f, NEW w, NEW O, NEW A, ObjsOK(O, A), AllOK(f, w, O),
         NEW x \in DOMAIN O, NEW b, AgentOK(f, w, b), b.name = O[x].name,
         Rooted(f, O[x]) => Rooted(f, b), NEW P, P = [O EXCEPT ![x] = b]
  PROVE  /\ AllOK(f, w, P) /\ (AllRooted(f, O) => AllRooted(f, P)) /\ ObjsOK(P, A)
<1>1. /\ DOMAIN P = DOMAIN O /\ P[x] = b /\ \A o \in DOMAIN O : o # x => P[o] = O[o]
      /\ P = [o \in DOMAIN P |-> P[o]]
  BY DEF ObjsOK
<1>2. AllOK(f, w, P) /\ (AllRooted(f, O) => AllRooted(f, P))
  BY <1>1 DEF AllOK, AllRooted
<1>3. \A o \in DOMAIN O : P[o].name = O[o].name
  BY <1>1
<1>4. A \subseteq DOMAIN O /\ DOMAIN O \subseteq Objs
      /\ \A o, a \in A : O[o].name = O[a].name => o = a
  BY DEF ObjsOK
<1>5. \A o, a \in A : P[o].name = P[a].name => o = a
  BY <1>3, <1>4
<1>6. ObjsOK(P, A)
  BY <1>1, <1>4, <1>5 DEF ObjsOK
<1>. QED  BY <1>2, <1>6

\* An object less.
LEMMA FewerObjs ==
  ASSUME NEW f, NEW w, NEW O, NEW A, ObjsOK(O, A), AllOK(f, w, O),
         NEW x, x \notin A, NEW P, P = Restrict(O, DOMAIN O \ {x})
  PROVE  /\ AllOK(f, w, P) /\ (AllRooted(f, O) => AllRooted(f, P)) /\ ObjsOK(P, A)
<1>1. /\ DOMAIN P = DOMAIN O \ {x} /\ \A o \in DOMAIN P : P[o] = O[o]
      /\ P = [o \in DOMAIN P |-> P[o]]
  BY DEF Restrict
<1>2. AllOK(f, w, P) /\ (AllRooted(f, O) => AllRooted(f, P))
  BY <1>1 DEF AllOK, AllRooted
<1>3. A \subseteq DOMAIN O /\ DOMAIN O \subseteq Objs
      /\ \A o, a \in A : O[o].name = O[a].name => o = a
  BY DEF ObjsOK
<1>4. A \subseteq DOMAIN P /\ DOMAIN P \subseteq Objs
  BY <1>1, <1>3
<1>5. \A o, a \in A : P[o].name = P[a].name => o = a
  BY <1>1, <1>3, <1>4, ZenonT(60)
<1>6. ObjsOK(P, A)
  BY <1>1, <1>4, <1>5 DEF ObjsOK
<1>. QED  BY <1>2, <1>6

\* The room for writes is a number.
LEMMA RoomsType == \A room \in Rooms : room \in Int
<1>1. Cardinality(Objs) \in Nat
  BY SizesAssumption, FS_CardinalityType
<1>2. Cardinality(Paths) \in Nat
  BY PathsAssumption, OrderFacts
<1>. DEFINE c == Cardinality(Objs)  p == Cardinality(Paths)
<1>. HIDE DEF c, p
<1>3. c * (p + 1) + 1 \in Nat
  BY <1>1, <1>2 DEF c, p
<1>4. \A n \in Nat : n \div Cap + 1 \in Int
  BY CapType
<1>5. Ample \in Int
  BY <1>3, <1>4 DEF Ample, c, p
<1>. QED  BY <1>5 DEF Rooms

\* The file with other room.
LEMMA HereFacts ==
  ASSUME NEW f \in Files, SameFile(f, Here(0)), NEW room \in Int
  PROVE  /\ Here(room) \in Files /\ SameFile(Here(0), Here(room))
         /\ Here(room).room = room /\ Here(room).ok = TRUE
<1>1. f.disk = disk /\ f.wblk = wblk /\ f.wbuf = wbuf /\ f.cpos = cpos
  BY DEF SameFile, Here
<1>2. disk \in Seq(Blocks) /\ wblk \in Nat /\ wbuf \in Blocks /\ cpos \in Nat
  BY <1>1 DEF Files
<1>. QED  BY <1>2 DEF Files, Here, SameFile

\* What the invariant says of the open file.
LEMMA OpenFacts ==
  ASSUME Kept, isopen
  PROVE  /\ View = Here(0) /\ ObjsOK(obj, agents)
         /\ \E w : AllOK(Here(0), w, obj)
         /\ ~cut => AllRooted(Here(0), obj)
         /\ Here(0) \in Files /\ FileOK(Here(0))
  BY DEF Kept, View, AllOK, Good, FileOK

\* While the file is open and does not change.
LEMMA StillOpen ==
  ASSUME Kept, isopen, isopen', UNCHANGED <<fileVars, cut>>,
         ObjsOK(obj, agents)', NEW w, AllOK(Here(0), w, obj'),
         ~cut => AllRooted(Here(0), obj')
  PROVE  Kept'
<1>1. View' = Here(0)
  BY DEF View, fileVars, Here
<1>2. isopen' \in BOOLEAN /\ cut' \in BOOLEAN
  BY DEF Kept
<1>. QED  BY <1>1, <1>2 DEF Kept

-----------------------------------------------------------------------------
(* The steps that only change what is in memory.                            *)

\* A file without a block has no records.
LEMMA NoRecs ==
  \E w : AllOK(Reopened(<<>>), w, <<>>) /\ AllRooted(Reopened(<<>>), <<>>)
<1>. DEFINE f == Reopened(<<>>)
<1>1. <<>> \in Seq(Blocks) /\ DOMAIN <<>> = {}
  OBVIOUS
<1>2. Marked(<<>>) = {}
  BY <1>1 DEF Marked
<1>3. FoundBlocks(<<>>) = 0 /\ FoundPlace(<<>>) = 0
  BY <1>2 DEF FoundBlocks, FoundPlace, NoPlace
<1>4. /\ f = [disk |-> <<>>, wblk |-> 0, wbuf |-> EmptyBlock, cpos |-> 0, room |-> 0, ok |-> TRUE]
  BY <1>3 DEF Reopened
<1>. HIDE DEF f
<1>5. FileOK(f)
  BY <1>1, <1>2, <1>4, EmptyBlockType DEF FileOK, Files
<1>6. Recs(f) = {}
  <2>. SUFFICES ASSUME NEW p \in Recs(f) PROVE FALSE
    OBVIOUS
  <2>1. p \in Nat \ {0} /\ BlockOf(p) <= 0 /\ SlotOf(p) <= Len(Block(f, BlockOf(p)).recs)
    BY <1>4 DEF Recs
  <2>2. BlockOf(p) = 0 /\ SlotOf(p) \in 1..Cap
    BY <2>1, PlaceParts
  <2>3. Block(f, BlockOf(p)).recs = <<>>
    BY <2>2, <1>4 DEF Block, EmptyBlock
  <2>. QED  BY <2>1, <2>2, <2>3, CapType
<1>7. \E w : w \in [Nat -> Paths]
  <2>1. [n \in Nat |-> <<>>] \in [Nat -> Paths]
    BY PathsType
  <2>. QED  BY <2>1
<1>8. PICK w : w \in [Nat -> Paths]
  BY <1>7
<1>9. Good(f, w)
  <2>1. Chained(f)
    BY <1>6 DEF Chained, IsSnap
  <2>. QED  BY <1>4, <1>5, <1>6, <1>8, <2>1 DEF Good, NoPlace
<1>. QED  BY <1>1, <1>9 DEF AllOK, AllRooted, f

\* The initial states satisfy Kept.
LEMMA InitKept == Init => Kept
<1>. SUFFICES ASSUME Init PROVE Kept
  OBVIOUS
<1>1. View = Reopened(<<>>) /\ obj = <<>> /\ agents = {}
  BY DEF Init, View
<1>2. ObjsOK(<<>>, {})
  BY DEF ObjsOK
<1>. QED  BY <1>1, <1>2, NoRecs DEF Kept, Init

\* create_sink() keeps it.
LEMMA SinkKept ==
  ASSUME Kept, NEW name \in Names, Sink(name)
  PROVE  Kept'
<1>1. PICK w : AllOK(Here(0), w, obj)
  BY OpenFacts DEF Sink
<1>2. PICK o \in Free : obj' = With(obj, o, NewAgent(name, 0)) /\ agents' = agents \cup {o}
  BY DEF Sink
<1>3. /\ isopen /\ isopen' /\ UNCHANGED <<fileVars, cut>>
      /\ \A a \in agents : obj[a].name # name
  BY DEF Sink
<1>4. AgentOK(Here(0), w, NewAgent(name, 0)) /\ Rooted(Here(0), NewAgent(name, 0))
      /\ NewAgent(name, 0).name = name
  BY NewAgentOK, SizesAssumption
<1>5. o \in Objs \ DOMAIN obj
  BY DEF Free, Live
<1>6. ObjsOK(obj, agents) /\ (~cut => AllRooted(Here(0), obj))
  BY <1>3, OpenFacts
<1>7. /\ AllOK(Here(0), w, obj') /\ (AllRooted(Here(0), obj) => AllRooted(Here(0), obj'))
      /\ DOMAIN obj' = DOMAIN obj \cup {o} /\ obj'[o] = NewAgent(name, 0)
      /\ \A x \in DOMAIN obj : obj'[x] = obj[x]
      /\ ObjsOK(obj', agents)
  BY <1>1, <1>2, <1>4, <1>5, <1>6, MoreObjs, SMTT(30)
<1>8. ObjsOK(obj', agents')
  <2>1. agents \subseteq DOMAIN obj
    BY <1>6 DEF ObjsOK
  <2>2. \A a \in agents : obj'[a].name # obj'[o].name
    BY <2>1, <1>3, <1>4, <1>7
  <2>. QED  BY <1>2, <1>7, <2>2 DEF ObjsOK
<1>. QED  BY <1>3, <1>6, <1>7, <1>8, StillOpen

\* An operation that gives an agent another tree keeps it.
LEMMA ChangeTreeKept ==
  ASSUME Kept, NEW o \in Live, NEW t, ChangeTree(o, t),
         \A w : AllOK(Here(0), w, obj) => TreeOK(Here(0), w, t),
         <<>> \in DOMAIN t, t = Tree(o) \/ t[<<>>].pos = NoPlace
  PROVE  Kept'
<1>1. PICK w : AllOK(Here(0), w, obj)
  BY OpenFacts DEF ChangeTree
<1>. DEFINE a == Loaded(Here(0), obj[o])  b == [a EXCEPT !.tree = t]
<1>2. /\ isopen /\ isopen' /\ UNCHANGED <<fileVars, cut, agents>>
      /\ obj' = [obj EXCEPT ![o] = b]
  BY DEF ChangeTree
<1>3. Good(Here(0), w) /\ AgentOK(Here(0), w, obj[o])
  BY <1>1 DEF AllOK, Live
<1>4. /\ AgentOK(Here(0), w, a) /\ a.name = obj[o].name
      /\ Rooted(Here(0), obj[o]) => Rooted(Here(0), a)
  BY <1>3, LoadedOK
<1>5. TreeOK(Here(0), w, t)
  BY <1>1
<1>6. Tree(o) = a.tree
  BY DEF Tree
<1>. HIDE DEF a
<1>7. AgentOK(Here(0), w, b)
  BY <1>4, <1>5, NewTreeIn
<1>8. b.name = a.name /\ b.tree = t /\ b.pos = a.pos
  <2>1. a \in AgentObjs /\ t \in Trees
    BY <1>4, <1>5, TreesAre DEF AgentOK, TreeOK
  <2>. QED  BY <2>1, AgentEdits
<1>. HIDE DEF b
<1>9. Rooted(Here(0), obj[o]) => Rooted(Here(0), b)
  <2>1. CASE t = a.tree
    BY <2>1, <1>4, <1>8 DEF Rooted, IsLoaded
  <2>2. CASE t[<<>>].pos = NoPlace
    BY <2>2, <1>8 DEF Rooted
  <2>. QED  BY <2>1, <2>2, <1>6
<1>10. ObjsOK(obj, agents) /\ (~cut => AllRooted(Here(0), obj))
  BY <1>2, OpenFacts
<1>11. /\ AllOK(Here(0), w, obj') /\ (AllRooted(Here(0), obj) => AllRooted(Here(0), obj'))
       /\ ObjsOK(obj', agents)
  <2>1. o \in DOMAIN obj /\ b.name = obj[o].name
    BY <1>4, <1>8 DEF Live
  <2>. QED  BY <2>1, <1>1, <1>2, <1>7, <1>9, <1>10, ChangedObj
<1>. QED  BY <1>2, <1>10, <1>11, StillOpen

\* The tree of an object.
LEMMA TreeFacts ==
  ASSUME NEW o \in Live, NEW w, AllOK(Here(0), w, obj)
  PROVE  TreeOK(Here(0), w, Tree(o)) /\ <<>> \in DOMAIN Tree(o) /\ IsTree(Tree(o))
<1>1. Good(Here(0), w) /\ AgentOK(Here(0), w, obj[o])
  BY DEF AllOK, Live
<1>2. AgentOK(Here(0), w, Loaded(Here(0), obj[o])) /\ <<>> \in DOMAIN Loaded(Here(0), obj[o]).tree
  BY <1>1, LoadedOK
<1>. QED  BY <1>2 DEF Tree, AgentOK, TreeOK

\* set_data() keeps it.
LEMMA EditKept ==
  ASSUME Kept, NEW o \in Live, NEW p \in Paths, NEW v \in Values, Edit(o, p, v)
  PROVE  Kept'
<1>. DEFINE t == Tree(o)  u == WithValue(t, p, v)
<1>1. (p = <<>> \/ Front(p) \in DOMAIN t) /\ ChangeTree(o, u)
  BY DEF Edit
<1>2. PICK w : AllOK(Here(0), w, obj)
  BY OpenFacts, <1>1 DEF ChangeTree
<1>3. IsTree(t) /\ <<>> \in DOMAIN t
  BY <1>2, TreeFacts
<1>4. \A x : AllOK(Here(0), x, obj) => TreeOK(Here(0), x, u) /\ <<>> \in DOMAIN u
  <2>. SUFFICES ASSUME NEW x, AllOK(Here(0), x, obj)
                PROVE  TreeOK(Here(0), x, u) /\ <<>> \in DOMAIN u
    OBVIOUS
  <2>1. TreeOK(Here(0), x, t)
    BY TreeFacts
  <2>. HIDE DEF t
  <2>. QED  BY <2>1, <1>1, <1>3, WithValueOK
<1>. HIDE DEF t
<1>5. u = t \/ u[<<>>].pos = NoPlace
  <2>1. CASE u = t
    BY <2>1
  <2>2. CASE u # t
    <3>. DEFINE z == With(t, p, [val |-> v, pos |-> NoPlace])
    <3>1. u = Dirtied(z, p)
      BY <2>2 DEF WithValue
    <3>2. <<>> \in DOMAIN z
      BY <1>3 DEF With
    <3>3. t[<<>>] \in Nodes
      BY <1>3 DEF IsTree
    <3>4. z[<<>>] \in [val : Values, pos : Nat]
      BY <1>3, <3>3 DEF With, Nodes, NoPlace
    <3>. HIDE DEF z, u
    <3>5. p \in Seq(Nat)
      BY PathsType
    <3>6. IsPrefix(<<>>, p)
      BY <3>5, PrefixFacts
    <3>7. Dirtied(z, p)[<<>>] = [z[<<>>] EXCEPT !.pos = NoPlace]
      BY <3>2, <3>6 DEF Dirtied
    <3>8. [z[<<>>] EXCEPT !.pos = NoPlace].pos = NoPlace
      BY <3>4
    <3>. QED  BY <3>1, <3>7, <3>8
  <2>. QED  BY <2>1, <2>2
<1>. HIDE DEF u
<1>6. u = Tree(o) \/ u[<<>>].pos = NoPlace
  BY <1>5 DEF t
<1>7. <<>> \in DOMAIN u
  BY <1>2, <1>4
<1>. QED  BY <1>1, <1>4, <1>6, <1>7, ChangeTreeKept

\* erase_child() keeps it.
LEMMA EraseKept ==
  ASSUME Kept, NEW o \in Live, NEW p \in Paths, Erase(o, p)
  PROVE  Kept'
<1>. DEFINE t == Tree(o)  u == Without(t, p)
<1>1. p # <<>> /\ p \in DOMAIN t /\ ChangeTree(o, u)
  BY DEF Erase
<1>2. PICK w : AllOK(Here(0), w, obj)
  BY OpenFacts, <1>1 DEF ChangeTree
<1>3. IsTree(t) /\ <<>> \in DOMAIN t
  BY <1>2, TreeFacts
<1>4. \A x : AllOK(Here(0), x, obj) => TreeOK(Here(0), x, u) /\ <<>> \in DOMAIN u
  <2>. SUFFICES ASSUME NEW x, AllOK(Here(0), x, obj)
                PROVE  TreeOK(Here(0), x, u) /\ <<>> \in DOMAIN u
    OBVIOUS
  <2>1. TreeOK(Here(0), x, t)
    BY TreeFacts
  <2>. HIDE DEF t
  <2>. QED  BY <2>1, <1>1, <1>3, WithoutOK
<1>7. <<>> \in DOMAIN u
  BY <1>2, <1>4
<1>. HIDE DEF t
<1>5. u[<<>>].pos = NoPlace
  <2>. DEFINE z == Dirtied(t, Front(p))
  <2>1. Front(p) \in Paths
    BY <1>1, PathsType
  <2>2. Front(p) \in Seq(Nat)
    BY <2>1, PathsType
  <2>3. IsPrefix(<<>>, Front(p))
    BY <2>2, PrefixFacts
  <2>4. z[<<>>].pos = NoPlace
    BY <2>1, <2>3, <1>3, DirtiedIs
  <2>5. u[<<>>] = z[<<>>]
    BY <1>7 DEF Without, Restrict
  <2>. QED  BY <2>4, <2>5
<1>. HIDE DEF u
<1>. QED  BY <1>1, <1>4, <1>5, <1>7, ChangeTreeKept

\* copy() keeps it.
LEMMA CopyKept ==
  ASSUME Kept, NEW o \in Live, NEW src \in Live, Copy(o, src)
  PROVE  Kept'
<1>. DEFINE t == Tree(src)  u == Copied(t)
<1>1. ChangeTree(o, u)
  BY DEF Copy
<1>2. PICK w : AllOK(Here(0), w, obj)
  BY OpenFacts, <1>1 DEF ChangeTree
<1>3. IsTree(t) /\ <<>> \in DOMAIN t
  BY <1>2, TreeFacts
<1>. HIDE DEF t
<1>4. \A x : TreeOK(Here(0), x, u) /\ <<>> \in DOMAIN u
  BY <1>3, CopiedOK
<1>5. u[<<>>].pos = NoPlace
  BY <1>3 DEF Copied
<1>. HIDE DEF u
<1>. QED  BY <1>1, <1>4, <1>5, ChangeTreeKept

\* An agent of another type, to be written again.
LEMMA AgentRetyped ==
  ASSUME NEW a \in AgentObjs, NEW n \in Types
  PROVE  /\ [a EXCEPT !.type = n, !.pos = NoPlace] \in AgentObjs
         /\ [a EXCEPT !.type = n, !.pos = NoPlace].name = a.name
         /\ [a EXCEPT !.type = n, !.pos = NoPlace].type = n
         /\ [a EXCEPT !.type = n, !.pos = NoPlace].pos = NoPlace
         /\ [a EXCEPT !.type = n, !.pos = NoPlace].chk = a.chk
         /\ [a EXCEPT !.type = n, !.pos = NoPlace].tree = a.tree
<1>1. NoPlace \in Nat
  BY DEF NoPlace
<1>. QED  BY <1>1 DEF AgentObjs

\* set_type() keeps it.
LEMMA SetTypeKept ==
  ASSUME Kept, NEW o \in Live, NEW type \in Types, SetType(o, type)
  PROVE  Kept'
<1>1. PICK w : AllOK(Here(0), w, obj)
  BY OpenFacts DEF SetType
<1>. DEFINE a == Loaded(Here(0), obj[o])
            b == [a EXCEPT !.type = type, !.pos = NoPlace]
<1>2. /\ isopen /\ isopen' /\ UNCHANGED <<fileVars, cut, agents>>
      /\ obj' = [obj EXCEPT ![o] = b]
  BY DEF SetType
<1>3. Good(Here(0), w) /\ AgentOK(Here(0), w, obj[o])
  BY <1>1 DEF AllOK, Live
<1>4. /\ AgentOK(Here(0), w, a) /\ a.name = obj[o].name
      /\ <<>> \in DOMAIN a.tree
  BY <1>3, LoadedOK
<1>. HIDE DEF a
<1>5. /\ b \in AgentObjs /\ b.name = a.name /\ b.type = type /\ b.pos = NoPlace
      /\ b.chk = a.chk /\ b.tree = a.tree
  BY <1>4, AgentRetyped DEF AgentOK
<1>. HIDE DEF b
<1>6. AgentOK(Here(0), w, b)
  BY <1>4, <1>5 DEF AgentOK, IsLoaded
<1>7. Rooted(Here(0), b)
  BY <1>5 DEF Rooted
<1>10. ObjsOK(obj, agents) /\ (~cut => AllRooted(Here(0), obj))
  BY <1>2, OpenFacts
<1>11. /\ AllOK(Here(0), w, obj') /\ (AllRooted(Here(0), obj) => AllRooted(Here(0), obj'))
       /\ ObjsOK(obj', agents)
  <2>1. o \in DOMAIN obj /\ b.name = obj[o].name
    BY <1>4, <1>5 DEF Live
  <2>. QED  BY <2>1, <1>1, <1>2, <1>6, <1>7, <1>10, ChangedObj
<1>. QED  BY <1>2, <1>10, <1>11, StillOpen

\* checkpoint() keeps it.
LEMMA CheckpointKept ==
  ASSUME Kept, NEW o \in Live, Checkpoint(o)
  PROVE  Kept'
<1>1. PICK w : AllOK(Here(0), w, obj)
  BY OpenFacts DEF Checkpoint
<1>. DEFINE a == IF obj[o].chk = NoPlace THEN NewAgent(obj[o].name, obj[o].type)
                 ELSE AgentAt(Here(0), obj[o].chk)
<1>2. PICK c \in Free : obj' = With(obj, c, a)
  BY DEF Checkpoint
<1>3. isopen /\ isopen' /\ UNCHANGED <<fileVars, cut, agents>>
  BY DEF Checkpoint
<1>4. Good(Here(0), w) /\ AgentOK(Here(0), w, obj[o])
  BY <1>1 DEF AllOK, Live
<1>5. obj[o].name \in Names /\ obj[o].type \in Types
  BY <1>4 DEF AgentOK, AgentObjs
<1>6. AgentOK(Here(0), w, a) /\ Rooted(Here(0), a)
  <2>1. CASE obj[o].chk = NoPlace
    BY <2>1, <1>5, NewAgentOK
  <2>2. CASE obj[o].chk # NoPlace
    <3>1. IsAgent(Here(0), obj[o].chk)
      BY <2>2, <1>4 DEF AgentOK
    <3>. QED  BY <3>1, <2>2, <1>4, AgentAtOK
  <2>. QED  BY <2>1, <2>2
<1>. HIDE DEF a
<1>7. c \in Objs \ DOMAIN obj
  BY DEF Free, Live
<1>10. ObjsOK(obj, agents) /\ (~cut => AllRooted(Here(0), obj))
  BY <1>3, OpenFacts
<1>11. /\ AllOK(Here(0), w, obj') /\ (AllRooted(Here(0), obj) => AllRooted(Here(0), obj'))
       /\ ObjsOK(obj', agents)
  BY <1>1, <1>2, <1>6, <1>7, <1>10, MoreObjs
<1>. QED  BY <1>3, <1>10, <1>11, StillOpen

\* set_agent() keeps it.
LEMMA SetAgentKept ==
  ASSUME Kept, NEW o \in Live, SetAgent(o)
  PROVE  Kept'
<1>1. PICK w : AllOK(Here(0), w, obj)
  BY OpenFacts DEF SetAgent
<1>2. /\ isopen /\ isopen' /\ UNCHANGED <<fileVars, cut, obj>>
      /\ agents' = {a \in agents : obj[a].name # obj[o].name} \cup {o}
  BY DEF SetAgent
<1>3. ObjsOK(obj, agents) /\ (~cut => AllRooted(Here(0), obj))
  BY <1>2, OpenFacts
<1>4. ObjsOK(obj', agents')
  <2>1. agents' \subseteq DOMAIN obj
    BY <1>2, <1>3 DEF ObjsOK, Live
  <2>2. \A x, a \in agents' : obj[x].name = obj[a].name => x = a
    BY <1>2, <1>3 DEF ObjsOK
  <2>. QED  BY <2>1, <2>2, <1>2, <1>3 DEF ObjsOK
<1>. QED  BY <1>1, <1>2, <1>3, <1>4, StillOpen

\* erase_agent() keeps it.
LEMMA EraseAgentKept ==
  ASSUME Kept, NEW o \in Live, EraseAgent(o)
  PROVE  Kept'
<1>1. PICK w : AllOK(Here(0), w, obj)
  BY OpenFacts DEF EraseAgent
<1>2. isopen /\ isopen' /\ UNCHANGED <<fileVars, cut, obj>> /\ agents' = agents \ {o}
  BY DEF EraseAgent
<1>3. ObjsOK(obj, agents) /\ (~cut => AllRooted(Here(0), obj))
  BY <1>2, OpenFacts
<1>4. ObjsOK(obj', agents')
  BY <1>2, <1>3 DEF ObjsOK
<1>. QED  BY <1>1, <1>2, <1>3, <1>4, StillOpen

\* The end of an object keeps it.
LEMMA DropKept ==
  ASSUME Kept, NEW o \in Live, Drop(o)
  PROVE  Kept'
<1>1. PICK w : AllOK(Here(0), w, obj)
  BY OpenFacts DEF Drop
<1>2. /\ isopen /\ isopen' /\ UNCHANGED <<fileVars, cut, agents>> /\ o \notin agents
      /\ obj' = Restrict(obj, DOMAIN obj \ {o})
  BY DEF Drop, Live
<1>3. ObjsOK(obj, agents) /\ (~cut => AllRooted(Here(0), obj))
  BY <1>2, OpenFacts
<1>4. /\ AllOK(Here(0), w, obj') /\ (AllRooted(Here(0), obj) => AllRooted(Here(0), obj'))
      /\ ObjsOK(obj', agents)
  BY <1>1, <1>2, <1>3, FewerObjs
<1>. QED  BY <1>2, <1>3, <1>4, StillOpen

-----------------------------------------------------------------------------
(* The steps that open, write and close the file.                           *)

\* Each new object is that of one place.
LEMMA AntiFacts ==
  ASSUME NEW S, NEW T, NEW new \in Injection(S, T)
  PROVE  /\ Range(new) \subseteq T
         /\ \A o \in Range(new) : /\ AntiFunction(new)[o] \in S
                                  /\ new[AntiFunction(new)[o]] = o
<1>1. new \in [S -> T]
  BY DEF Injection
<1>2. Range(new) \subseteq T
  BY <1>1 DEF Range
<1>3. ASSUME NEW o \in Range(new)
      PROVE  AntiFunction(new)[o] \in S /\ new[AntiFunction(new)[o]] = o
  <2>1. \E s \in S : new[s] = o
    BY <1>1, <1>3 DEF Range
  <2>2. AntiFunction(new)[o] = CHOOSE s \in S : o \in Range(new) => new[s] = o
    BY <1>1, <1>3 DEF AntiFunction, Inverse
  <2>. QED  BY <2>1, <2>2, <1>3
<1>. QED  BY <1>2, <1>3

\* The agents of a snapshot as new objects.
LEMMA NewObjs ==
  ASSUME NEW f, NEW w, Good(f, w), NEW S, \A p \in S : IsAgent(f, p),
         \A p, q \in S : At(f, p).name = At(f, q).name => p = q,
         NEW T, T \subseteq Objs, NEW new \in Injection(S, T),
         NEW O, O = [o \in Range(new) |-> AgentAt(f, AntiFunction(new)[o])]
  PROVE  ObjsOK(O, Range(new)) /\ AllOK(f, w, O) /\ AllRooted(f, O)
<1>. DEFINE A == Range(new)  F == AntiFunction(new)
<1>1. A \subseteq T /\ \A o \in A : F[o] \in S /\ new[F[o]] = o
  BY AntiFacts
<1>2. DOMAIN O = A /\ \A o \in A : O[o] = AgentAt(f, F[o])
  OBVIOUS
<1>2a. O = [o \in DOMAIN O |-> O[o]]
  OBVIOUS
<1>. HIDE DEF A, F
<1>3. \A o \in A : /\ AgentOK(f, w, O[o]) /\ Rooted(f, O[o])
                   /\ O[o].name = At(f, F[o]).name
  BY <1>1, <1>2, AgentAtOK
<1>4. \A o, a \in A : O[o].name = O[a].name => o = a
  <2>. SUFFICES ASSUME NEW o \in A, NEW a \in A, O[o].name = O[a].name PROVE o = a
    OBVIOUS
  <2>1. F[o] = F[a]
    BY <1>1, <1>3
  <2>. QED  BY <2>1, <1>1
<1>5. ObjsOK(O, A)
  BY <1>1, <1>2, <1>2a, <1>4 DEF ObjsOK
<1>. QED  BY <1>2, <1>3, <1>5 DEF AllOK, AllRooted, A

\* What is found is read from the disk.
LEMMA OnDiskAt ==
  ASSUME NEW d \in Seq(Blocks), NEW p \in Recs(Reopened(d)), NEW f, f.disk = d, f.wblk = Len(d)
  PROVE  /\ At(f, p) = At(Reopened(d), p) /\ p \in Nat \ {0}
         /\ BlockOf(p) \in Nat /\ BlockOf(p) < FoundBlocks(d)
<1>1. FoundBlocks(d) \in 0..Len(d) /\ Len(d) \in Nat
  BY FoundFacts
<1>2. p \in Nat \ {0} /\ BlockOf(p) <= FoundBlocks(d)
      /\ SlotOf(p) <= Len(Block(Reopened(d), BlockOf(p)).recs)
  BY DEF Recs, Reopened
<1>3. BlockOf(p) \in Nat /\ SlotOf(p) \in 1..Cap
  BY <1>2, PlaceParts
<1>4. BlockOf(p) # FoundBlocks(d)
  <2>. SUFFICES ASSUME BlockOf(p) = FoundBlocks(d) PROVE FALSE
    OBVIOUS
  <2>1. Block(Reopened(d), BlockOf(p)).recs = <<>>
    BY DEF Block, Reopened, EmptyBlock
  <2>. QED  BY <2>1, <1>2, <1>3, CapType
<1>5. BlockOf(p) < FoundBlocks(d) /\ BlockOf(p) # Len(d)
  BY <1>1, <1>2, <1>3, <1>4
<1>6. Block(f, BlockOf(p)) = Block(Reopened(d), BlockOf(p))
  BY <1>4, <1>5 DEF Block, Reopened
<1>. QED  BY <1>2, <1>3, <1>5, <1>6, BlockAt

\* The agents of a place become objects.
Loads(f, S, new, O) ==
  /\ new \in Injection(S, Free)
  /\ O = [o \in Range(new) |-> AgentAt(f, AntiFunction(new)[o])]

\* The places that opening a file makes objects of.
FoundAgents(f) == IF f.cpos = NoPlace THEN {} ELSE At(f, f.cpos).agents

\* What opening the file makes of it: its view stays, and objects are read.
LEMMA OpenLoads ==
  ASSUME Kept, Open
  PROVE  /\ ~isopen /\ isopen' = TRUE /\ UNCHANGED <<disk, cut>>
         /\ View = Reopened(disk) /\ View' = Reopened(disk)
         /\ \E w : Good(Reopened(disk), w)
         /\ \E new : /\ Loads(Reopened(disk), FoundAgents(Reopened(disk)), new, obj')
                     /\ agents' = Range(new)
<1>. DEFINE d == disk  f == Reopened(d)  g == [Here(0) EXCEPT !.wblk = Len(disk)]
            S == IF FoundPlace(disk) = NoPlace THEN {} ELSE At(g, FoundPlace(disk)).agents
<1>1. /\ isopen' = TRUE /\ cpos' = FoundPlace(disk) /\ wblk' = FoundBlocks(disk)
      /\ wbuf' = EmptyBlock /\ UNCHANGED <<disk, cut>>
      /\ LoadAgents(g, FoundPlace(disk)) /\ ~isopen
  BY DEF Open
<1>2. View = f
  BY <1>1 DEF View
<1>3. PICK w : Good(f, w)
  BY <1>2 DEF Kept, AllOK
<1>4. d \in Seq(Blocks) /\ f.cpos = FoundPlace(d)
  BY <1>3 DEF Good, FileOK, Files, Reopened
<1>5. g.disk = d /\ g.wblk = Len(d)
  BY DEF Here
<1>. HIDE DEF g
<1>6. FoundPlace(d) # NoPlace => IsSnap(f, FoundPlace(d))
  BY <1>3 DEF Good, Reopened
<1>7. FoundPlace(d) # NoPlace => At(g, FoundPlace(d)) = At(f, FoundPlace(d))
  BY <1>4, <1>5, <1>6, OnDiskAt DEF IsSnap
<1>8. FoundPlace(d) # NoPlace => SnapFits(f, FoundPlace(d), At(f, FoundPlace(d)))
  BY <1>3, <1>6 DEF Good, Fits, IsSnap
<1>9. PICK new \in Injection(S, Free) :
        /\ agents' = Range(new)
        /\ obj' = [o \in Range(new) |-> AgentAt(g, AntiFunction(new)[o])]
  BY <1>1 DEF LoadAgents
<1>10. \A p \in S : IsAgent(f, p)
  BY <1>7, <1>8 DEF SnapFits
<1>11. S = FoundAgents(f)
  BY <1>4, <1>7 DEF FoundAgents
<1>. HIDE DEF S
<1>12. \A o \in Range(new) : AgentAt(g, AntiFunction(new)[o]) = AgentAt(f, AntiFunction(new)[o])
  <2>. SUFFICES ASSUME NEW o \in Range(new)
                PROVE  AgentAt(g, AntiFunction(new)[o]) = AgentAt(f, AntiFunction(new)[o])
    OBVIOUS
  <2>1. AntiFunction(new)[o] \in S
    BY AntiFacts
  <2>2. AntiFunction(new)[o] \in Recs(f)
    BY <2>1, <1>10 DEF IsAgent
  <2>. DEFINE p == AntiFunction(new)[o]
  <2>. HIDE DEF p
  <2>3. At(g, p) = At(f, p)
    BY <2>2, <1>4, <1>5, OnDiskAt DEF p
  <2>4. AgentAt(g, p) = AgentAt(f, p)
    BY <2>3 DEF AgentAt
  <2>. QED  BY <2>4 DEF p
<1>13. obj' = [o \in Range(new) |-> AgentAt(f, AntiFunction(new)[o])]
  BY <1>9, <1>12
<1>14. View' = f
  BY <1>1 DEF View, Here, Reopened
<1>15. Loads(f, FoundAgents(f), new, obj') /\ agents' = Range(new)
  BY <1>9, <1>11, <1>13 DEF Loads
<1>. QED  BY <1>1, <1>2, <1>3, <1>14, <1>15

\* Opening the file keeps it.
LEMMA OpenKept ==
  ASSUME Kept, Open
  PROVE  Kept'
<1>. DEFINE f == Reopened(disk)  S == FoundAgents(f)
<1>1. /\ isopen' = TRUE /\ UNCHANGED <<disk, cut>> /\ View' = f
  BY OpenLoads
<1>2. PICK w : Good(f, w)
  BY OpenLoads
<1>3. PICK new : Loads(f, S, new, obj') /\ agents' = Range(new)
  BY OpenLoads
<1>. HIDE DEF f
<1>4. f.cpos # NoPlace => SnapFits(f, f.cpos, At(f, f.cpos))
  BY <1>2 DEF Good, Fits, IsSnap
<1>5. /\ \A p \in S : IsAgent(f, p)
      /\ \A p, q \in S : At(f, p).name = At(f, q).name => p = q
  BY <1>4 DEF SnapFits, FoundAgents
<1>6. Free \subseteq Objs /\ new \in Injection(S, Free)
      /\ obj' = [o \in Range(new) |-> AgentAt(f, AntiFunction(new)[o])]
  BY <1>3 DEF Free, Loads
<1>. HIDE DEF S
<1>7. ObjsOK(obj', agents') /\ AllOK(f, w, obj') /\ AllRooted(f, obj')
  BY <1>2, <1>3, <1>5, <1>6, NewObjs
<1>8. cut' \in BOOLEAN
  BY <1>1 DEF Kept
<1>. QED  BY <1>1, <1>7, <1>8 DEF Kept

\* The file as an operation has left it.
LEMMA NewFile ==
  ASSUME isopen', NEW g, SetFile(g), isopen' \in BOOLEAN, cut' \in BOOLEAN,
         ObjsOK(obj', agents'), NEW v, AllOK(g, v, obj'),
         ~cut' => AllRooted(g, obj')
  PROVE  Kept'
<1>1. /\ Here(0)' = [disk |-> g.disk, wblk |-> g.wblk, wbuf |-> g.wbuf,
                     cpos |-> g.cpos, room |-> 0, ok |-> TRUE]
      /\ View' = Here(0)'
  BY DEF SetFile, Here, View
<1>2. g \in Files
  BY DEF AllOK, Good, FileOK
<1>3. SameFile(g, Here(0)') /\ Here(0)' \in Files
  <2>. DEFINE h == [disk |-> g.disk, wblk |-> g.wblk, wbuf |-> g.wbuf,
                    cpos |-> g.cpos, room |-> 0, ok |-> TRUE]
  <2>1. SameFile(g, h) /\ h \in Files
    BY <1>2 DEF SameFile, Files
  <2>2. Here(0)' = h
    BY <1>1
  <2>. QED  BY <2>1, <2>2
<1>4. AllOK(Here(0)', v, obj') /\ (AllRooted(g, obj') => AllRooted(Here(0)', obj'))
  BY <1>3, SameFileAll
<1>. QED  BY <1>1, <1>4 DEF Kept

\* A flush of the open file.
LEMMA FlushFacts ==
  ASSUME Kept, isopen, NEW w, AllOK(Here(0), w, obj)
  PROVE  /\ AllOK(Flushed(Here(1)), w, obj)
         /\ AllRooted(Here(0), obj) => AllRooted(Flushed(Here(1)), obj)
         /\ Goes(Here(0), w, Flushed(Here(1)), w) /\ Flushed(Here(1)).cpos = cpos
<1>1. Here(0) \in Files
  BY OpenFacts
<1>2. SameFile(Here(0), Here(0))
  BY DEF SameFile
<1>3. Here(1) \in Files /\ SameFile(Here(0), Here(1)) /\ Here(1).ok = TRUE
  <2>1. PICK f : f = Here(0)
    OBVIOUS
  <2>2. PICK one \in Int : one = 1
    OBVIOUS
  <2>3. Here(one) \in Files /\ SameFile(Here(0), Here(one)) /\ Here(one).ok = TRUE
    BY <1>1, <1>2, <2>1, HereFacts
  <2>. QED  BY <2>2, <2>3
<1>4. AllOK(Here(1), w, obj) /\ (AllRooted(Here(0), obj) => AllRooted(Here(1), obj))
  BY <1>3, SameFileAll
<1>5. FileOK(Here(1)) /\ Good(Here(1), w)
  BY <1>4 DEF AllOK, Good
<1>6. FileOK(Flushed(Here(1))) /\ SameRecs(Here(1), Flushed(Here(1)))
  BY <1>3, <1>5, FlushedFacts
<1>7. Good(Flushed(Here(1)), w) /\ Goes(Here(1), w, Flushed(Here(1)), w)
  BY <1>5, <1>6, GoodSame
<1>8. Goes(Here(0), w, Here(1), w)
  <2>1. FileOK(Here(0)) /\ Good(Here(0), w)
    BY OpenFacts DEF AllOK
  <2>2. SameRecs(Here(0), Here(1))
    BY <1>3, <2>1, SameFileFacts
  <2>. QED  BY <1>5, <2>1, <2>2, GoodSame
<1>9. Goes(Here(0), w, Flushed(Here(1)), w)
  BY <1>7, <1>8, GoesOn
<1>10. Flushed(Here(1)).cpos = Here(1).cpos
  BY <1>6 DEF SameRecs
<1>11. Here(1).cpos = cpos
  BY DEF Here
<1>12. /\ AllOK(Flushed(Here(1)), w, obj)
       /\ AllRooted(Here(0), obj) => AllRooted(Flushed(Here(1)), obj)
  BY <1>4, <1>7, AllAlong
<1>. QED  BY <1>9, <1>10, <1>11, <1>12

\* flush() keeps it.
LEMMA FlushKept ==
  ASSUME Kept, Flush
  PROVE  Kept'
<1>1. /\ isopen /\ isopen' /\ SetFile(Flushed(Here(1)))
      /\ UNCHANGED <<obj, agents, cut, isopen>>
  BY DEF Flush
<1>2. PICK w : AllOK(Here(0), w, obj)
  BY <1>1, OpenFacts
<1>3. /\ AllOK(Flushed(Here(1)), w, obj)
      /\ AllRooted(Here(0), obj) => AllRooted(Flushed(Here(1)), obj)
  BY <1>1, <1>2, FlushFacts
<1>4. ObjsOK(obj, agents) /\ (~cut => AllRooted(Here(0), obj))
  BY <1>1, OpenFacts
<1>5. cut' \in BOOLEAN /\ isopen' \in BOOLEAN
  BY <1>1 DEF Kept
<1>. QED  BY <1>1, <1>3, <1>4, <1>5, NewFile

\* The program ends.
LEMMA GoneKept ==
  ASSUME Kept, Gone, NEW f, NEW w, Good(f, w), disk' = f.disk
  PROVE  Kept'
<1>1. /\ isopen' = FALSE /\ UNCHANGED cut /\ obj' = <<>> /\ agents' = {}
      /\ wblk' = 0 /\ wbuf' = EmptyBlock /\ cpos' = NoPlace
  BY DEF Gone
<1>2. Good(Reopened(disk'), w)
  BY ReopenedGood
<1>3. View' = Reopened(disk')
  BY <1>1 DEF View, Reopened, FoundBlocks, FoundPlace
<1>4. ObjsOK(<<>>, {})
  BY DEF ObjsOK
<1>5. DOMAIN <<>> = {}
  OBVIOUS
<1>6. AllOK(View', w, obj') /\ AllRooted(View', obj')
  BY <1>1, <1>2, <1>3, <1>5 DEF AllOK, AllRooted
<1>7. cut' \in BOOLEAN
  BY <1>1 DEF Kept
<1>. QED  BY <1>1, <1>4, <1>6, <1>7 DEF Kept

\* The end of the program without a flush keeps it.
LEMMA CrashKept ==
  ASSUME Kept, Crash
  PROVE  Kept'
<1>1. Gone /\ disk' = disk /\ isopen
  BY DEF Crash, Gone
<1>2. PICK w : AllOK(Here(0), w, obj)
  BY <1>1, OpenFacts
<1>3. Good(Here(0), w) /\ Here(0).disk = disk
  BY <1>2 DEF AllOK, Here
<1>. QED  BY <1>1, <1>3, GoneKept

\* The end of the program with a flush keeps it.
LEMMA CloseKept ==
  ASSUME Kept, Close
  PROVE  Kept'
<1>1. Gone /\ isopen /\ disk' = IF ToWrite THEN Flushed(Here(1)).disk ELSE disk
  BY DEF Close, Gone
<1>2. PICK w : AllOK(Here(0), w, obj)
  BY <1>1, OpenFacts
<1>3. Good(Here(0), w) /\ Here(0).disk = disk
  BY <1>2 DEF AllOK, Here
<1>4. Good(Flushed(Here(1)), w)
  BY <1>1, <1>2, FlushFacts DEF AllOK
<1>5. CASE ToWrite
  BY <1>1, <1>4, <1>5, GoneKept
<1>6. CASE ~ToWrite
  BY <1>1, <1>3, <1>6, GoneKept
<1>. QED  BY <1>5, <1>6

-----------------------------------------------------------------------------
(* The steps that save.                                                     *)

\* What a save that starts from the state comes to.
Outcome(room, w, s) ==
  /\ \E v : SaveOK(Live, s, v) /\ Goes(Here(room), w, s.file, v)
  /\ \A x \in Live : /\ s.obj[x].name = obj[x].name
                     /\ Content(s.file, s.obj[x]) = Content(Here(room), obj[x])
                     /\ Reach(Here(room), obj[x], s.file, s.obj[x])

\* What a save starts from.
LEMMA SavingOK ==
  ASSUME Kept, isopen, NEW room \in Int, NEW w, AllOK(Here(0), w, obj)
  PROVE  /\ SaveOK(Live, Saving(room), w)
         /\ Saving(room).file = Here(room) /\ Saving(room).obj = obj
         /\ AllRooted(Here(0), obj) => AllRooted(Here(room), obj)
<1>1. PICK f \in Files : f = Here(0)
  BY OpenFacts
<1>2. SameFile(f, Here(0))
  BY <1>1 DEF SameFile
<1>3. Here(room) \in Files /\ SameFile(Here(0), Here(room))
  BY <1>2, HereFacts
<1>4. AllOK(Here(room), w, obj) /\ (AllRooted(Here(0), obj) => AllRooted(Here(room), obj))
  BY <1>3, SameFileAll
<1>5. Saving(room).file = Here(room) /\ Saving(room).obj = obj
  BY DEF Saving
<1>6. obj = [o \in Live |-> obj[o]] /\ \A o \in Live : obj[o] \in AgentObjs
  BY <1>4, OpenFacts DEF ObjsOK, AllOK, AgentOK, Live
<1>7. obj \in [Live -> AgentObjs]
  BY <1>6
<1>8. Saving(room) \in States(Live)
  BY <1>3, <1>7 DEF Saving, States
<1>9. SaveOK(Live, Saving(room), w)
  BY <1>4, <1>5, <1>8 DEF SaveOK, AllOK, Live
<1>. QED  BY <1>4, <1>5, <1>9

\* What RootAhead does not describe is as before.
LEMMA SavedKept ==
  ASSUME Kept, isopen, NEW room \in Int, NEW w, AllOK(Here(0), w, obj),
         NEW s, Outcome(room, w, s), Saved(s)
  PROVE  Kept'
<1>1. PICK v : SaveOK(Live, s, v) /\ Goes(Here(room), w, s.file, v)
  BY DEF Outcome
<1>2. \A x \in Live : /\ s.obj[x].name = obj[x].name
                      /\ Reach(Here(room), obj[x], s.file, s.obj[x])
  BY DEF Outcome
<1>3. /\ isopen' /\ isopen' \in BOOLEAN /\ agents' = agents /\ obj' = s.obj
      /\ SetFile(s.file) /\ cut' = (cut \/ RootAhead(s))
  BY DEF Saved, Kept
<1>4. cut \in BOOLEAN /\ ObjsOK(obj, agents) /\ (~cut => AllRooted(Here(room), obj))
  BY OpenFacts, SavingOK DEF Kept
<1>5. cut' \in BOOLEAN
  BY <1>3, <1>4 DEF RootAhead
<1>6. s.obj \in [Live -> AgentObjs]
  BY <1>1 DEF SaveOK, States
<1>7. ObjsOK(s.obj, agents)
  <2>1. /\ DOMAIN s.obj = Live /\ s.obj = [o \in DOMAIN s.obj |-> s.obj[o]]
    BY <1>6
  <2>2. /\ Live \subseteq Objs /\ agents \subseteq Live
        /\ \A o, a \in agents : obj[o].name = obj[a].name => o = a
    BY <1>4 DEF ObjsOK, Live
  <2>3. \A o, a \in agents : s.obj[o].name = s.obj[a].name => o = a
    BY <1>2, <2>2
  <2>. QED  BY <2>1, <2>2, <2>3 DEF ObjsOK
<1>8. AllOK(s.file, v, s.obj)
  BY <1>1, <1>6 DEF SaveOK, AllOK
<1>9. ASSUME ~cut' PROVE AllRooted(s.file, s.obj)
  <2>1. ~cut /\ ~RootAhead(s)
    BY <1>3, <1>9
  <2>. SUFFICES ASSUME NEW x \in Live PROVE Rooted(s.file, s.obj[x])
    BY <1>6 DEF AllRooted
  <2>. DEFINE a == obj[x]  b == s.obj[x]
  <2>2. Rooted(Here(room), a) /\ Reach(Here(room), a, s.file, b)
    BY <1>2, <1>4, <2>1 DEF AllRooted, Live
  <2>3. ~(a.pos # NoPlace /\ b.pos = a.pos /\ IsDirty(a) /\ ~IsDirty(b))
    BY <2>1 DEF RootAhead
  <2>. HIDE DEF a, b
  <2>4. Rooted(s.file, b)
    <3>1. CASE b.pos = a.pos /\ ~IsDirty(a)
      BY <2>2, <3>1 DEF Reach
    <3>2. CASE b.pos = a.pos /\ IsDirty(a)
      <4>1. a.pos # NoPlace => IsDirty(b)
        BY <2>3, <3>2
      <4>2. a.pos = NoPlace => IsDirty(b)
        BY <3>2 DEF IsDirty
      <4>. QED  BY <4>1, <4>2 DEF IsDirty, Rooted
    <3>3. CASE b.pos # a.pos
      BY <2>2, <3>3 DEF Reach
    <3>. QED  BY <3>1, <3>2, <3>3
  <2>. QED  BY <2>4 DEF b
<1>. QED  BY <1>3, <1>5, <1>7, <1>8, <1>9, NewFile

\* Saving agents is the outcome of a save.
LEMMA MoveOutcome ==
  ASSUME NEW room, NEW w, NEW s, NEW v, AgentsMove(Live, Saving(room), w, s, v),
         Saving(room).file = Here(room), Saving(room).obj = obj
  PROVE  Outcome(room, w, s)
  BY DEF AgentsMove, Outcome

WithChk(s, o) == [s EXCEPT !.obj[o].chk = s.obj[o].pos]

\* So is noting the checkpoint.
LEMMA CheckpointOutcome ==
  ASSUME NEW room, NEW w, NEW s, Outcome(room, w, s), NEW o \in Live,
         NEW r, r = WithChk(s, o)
  PROVE  Outcome(room, w, r)
<1>1. PICK v : SaveOK(Live, s, v) /\ Goes(Here(room), w, s.file, v)
  BY DEF Outcome
<1>2. \A x \in Live : /\ s.obj[x].name = obj[x].name
                      /\ Content(s.file, s.obj[x]) = Content(Here(room), obj[x])
                      /\ Reach(Here(room), obj[x], s.file, s.obj[x])
  BY DEF Outcome
<1>. DEFINE a == s.obj[o]  b == [a EXCEPT !.chk = a.pos]  m == [s.obj EXCEPT ![o] = b]
<1>3. s \in States(Live) /\ s.obj \in [Live -> AgentObjs] /\ s.file \in Files
      /\ a \in AgentObjs /\ AgentOK(s.file, v, a)
  BY <1>1 DEF SaveOK, States
<1>4. a.pos \in Nat
  BY <1>3 DEF AgentObjs
<1>5. /\ b \in AgentObjs /\ b.name = a.name /\ b.type = a.type
      /\ b.pos = a.pos /\ b.chk = a.pos /\ b.tree = a.tree
  BY <1>3, <1>4, AgentEdits
<1>6. r = [s EXCEPT !.obj = m]
  BY <1>3 DEF WithChk, States
<1>. HIDE DEF b
<1>7. m \in [Live -> AgentObjs] /\ m[o] = b /\ \A y \in Live : y # o => m[y] = s.obj[y]
  BY <1>3, <1>5
<1>. HIDE DEF m
<1>8. r \in States(Live) /\ r.file = s.file /\ r.obj = m
  BY <1>3, <1>6, <1>7 DEF States
<1>. HIDE DEF a
<1>9. AgentOK(s.file, v, b)
  BY <1>3, <1>5 DEF AgentOK, IsLoaded
<1>10. SaveOK(Live, r, v)
  <2>1. \A x \in Live : AgentOK(s.file, v, s.obj[x])
    BY <1>1 DEF SaveOK
  <2>2. \A x \in Live : AgentOK(s.file, v, m[x])
    BY <1>7, <1>9, <2>1
  <2>3. Good(s.file, v)
    BY <1>1 DEF SaveOK
  <2>. QED  BY <1>8, <2>2, <2>3 DEF SaveOK
<1>11. (IsDirty(b) <=> IsDirty(a)) /\ (Rooted(s.file, b) <=> Rooted(s.file, a))
  BY <1>5 DEF IsDirty, Rooted, IsLoaded
<1>12. ASSUME NEW x \in Live
       PROVE  /\ m[x].name = obj[x].name /\ Reach(Here(room), obj[x], s.file, m[x])
              /\ Content(s.file, m[x]) = Content(Here(room), obj[x])
  <2>1. CASE x # o
    BY <2>1, <1>2, <1>7
  <2>2. CASE x = o
    <3>1. /\ a.name = obj[o].name /\ Reach(Here(room), obj[o], s.file, a)
          /\ Content(s.file, a) = Content(Here(room), obj[o])
      BY <1>2 DEF a
    <3>3. Content(s.file, b) = Content(s.file, a)
      BY <1>3, <1>5, ContentApart
    <3>2. Reach(Here(room), obj[o], s.file, b)
      BY <3>1, <1>5, <1>11 DEF Reach
    <3>. QED  BY <2>2, <3>1, <3>2, <3>3, <1>5, <1>7
  <2>. QED  BY <2>1, <2>2
<1>. QED  BY <1>1, <1>8, <1>10, <1>12 DEF Outcome

\* A step that saves, and what it comes to.
SaveStep(room, w, s) ==
  /\ isopen /\ room \in Int /\ AllOK(Here(0), w, obj)
  /\ Outcome(room, w, s) /\ Saved(s)

\* A step that saves keeps the invariant.
LEMMA SaveStepKept ==
  ASSUME Kept, NEW room, NEW w, NEW s, SaveStep(room, w, s)
  PROVE  Kept'
  BY SavedKept DEF SaveStep

\* set_checkpoint() is a step that saves, and not a snapshot.
LEMMA SetCheckpointStep ==
  ASSUME Kept, NEW o \in Live, SetCheckpoint(o)
  PROVE  \E room, w, s : SaveStep(room, w, s) /\ s.file.cpos = cpos
<1>1. PICK room \in Rooms :
        LET s == SaveAgent(Saving(room), o)
        IN  Saved(IF s.file.ok THEN [s EXCEPT !.obj[o].chk = s.obj[o].pos] ELSE s)
  BY DEF SetCheckpoint
<1>2. room \in Int
  BY RoomsType
<1>. DEFINE s == SaveAgent(Saving(room), o)  r == IF s.file.ok THEN WithChk(s, o) ELSE s
<1>3. Saved(r)
  BY <1>1 DEF WithChk
<1>4. isopen
  BY <1>3 DEF Saved
<1>5. PICK w : AllOK(Here(0), w, obj)
  BY <1>4, OpenFacts
<1>6. /\ SaveOK(Live, Saving(room), w)
      /\ Saving(room).file = Here(room) /\ Saving(room).obj = obj
  BY <1>2, <1>4, <1>5, SavingOK
<1>7. /\ \E v : AgentsMove(Live, Saving(room), w, s, v)
      /\ s.file.cpos = Here(room).cpos
  BY <1>6, SaveAgentOK DEF AgentSaved
<1>. HIDE DEF s
<1>8. Outcome(room, w, s)
  BY <1>6, <1>7, MoveOutcome
<1>9. Outcome(room, w, r)
  BY <1>8, CheckpointOutcome
<1>10. s \in States(Live)
  BY <1>7 DEF AgentsMove, SaveOK
<1>11. r.file.cpos = cpos
  <2>1. WithChk(s, o).file = s.file
    BY <1>10 DEF WithChk, States
  <2>. QED  BY <1>7, <2>1 DEF Here
<1>. HIDE DEF r
<1>. QED  BY <1>2, <1>3, <1>4, <1>5, <1>9, <1>11 DEF SaveStep

\* So is snapshot() of a node.
LEMMA SnapshotNodeStep ==
  ASSUME Kept, NEW o \in Live, NEW p \in Paths, SnapshotNode(o, p)
  PROVE  \E room, w, s : SaveStep(room, w, s) /\ s.file.cpos = cpos
<1>1. PICK room \in Rooms : Saved(SaveTree(Saving(room), o, p))
  BY DEF SnapshotNode
<1>2. room \in Int
  BY RoomsType
<1>. DEFINE s == SaveTree(Saving(room), o, p)
<1>4. isopen
  BY <1>1 DEF Saved
<1>5. PICK w : AllOK(Here(0), w, obj)
  BY <1>4, OpenFacts
<1>6. /\ SaveOK(Live, Saving(room), w)
      /\ Saving(room).file = Here(room) /\ Saving(room).obj = obj
  BY <1>2, <1>4, <1>5, SavingOK
<1>7. \E v : TreeMoves(Live, Saving(room), w, s, v, o)
  BY <1>6, SaveTreeOK
<1>3. Saved(s)
  BY <1>1
<1>. HIDE DEF s
<1>8. \E v : AgentsMove(Live, Saving(room), w, s, v)
  BY <1>6, <1>7, TreeMovesAgent
<1>9. Outcome(room, w, s)
  BY <1>6, <1>8, MoveOutcome
<1>10. s.file.cpos = cpos
  BY <1>6, <1>7 DEF TreeMoves, Here
<1>. QED  BY <1>2, <1>3, <1>4, <1>5, <1>9, <1>10 DEF SaveStep

\* Saving the trunk is one, and is a snapshot unless a write fails.
LEMMA SaveTrunkStep ==
  ASSUME Kept, SaveTrunk
  PROVE  \E room, w, s : /\ SaveStep(room, w, s)
                         /\ s.file.cpos = cpos \/ SnapDone(Saving(room), s)
<1>1. PICK room \in Rooms, order \in SetToSeqs(agents) :
        Saved(SaveSnapshot(Saving(room), order))
  BY DEF SaveTrunk
<1>2. room \in Int
  BY RoomsType
<1>. DEFINE s == SaveSnapshot(Saving(room), order)
<1>3. Saved(s)
  BY <1>1
<1>4. isopen
  BY <1>3 DEF Saved
<1>5. PICK w : AllOK(Here(0), w, obj)
  BY <1>4, OpenFacts
<1>6. /\ SaveOK(Live, Saving(room), w)
      /\ Saving(room).file = Here(room) /\ Saving(room).obj = obj
  BY <1>2, <1>4, <1>5, SavingOK
<1>7. /\ agents \subseteq Live /\ Live \subseteq Objs
      /\ \A o, a \in agents : obj[o].name = obj[a].name => o = a
  BY <1>4, OpenFacts DEF ObjsOK, Live
<1>8. IsFiniteSet(agents)
  BY <1>7, SizesAssumption, FS_Subset
<1>9. /\ \E v : AgentsMove(Live, Saving(room), w, s, v)
      /\ s.file.cpos = Here(room).cpos \/ SnapDone(Saving(room), s)
  BY <1>6, <1>7, <1>8, SaveSnapshotOK
<1>. HIDE DEF s
<1>10. Outcome(room, w, s)
  BY <1>6, <1>9, MoveOutcome
<1>11. s.file.cpos = cpos \/ SnapDone(Saving(room), s)
  BY <1>9 DEF Here
<1>. QED  BY <1>2, <1>3, <1>4, <1>5, <1>10, <1>11 DEF SaveStep

-----------------------------------------------------------------------------

\* The invariant: whatever is in memory and on the disk, records refer to earlier
\* records of the right kind, and objects are what their records say (xfile_t,
\* xnode_t::dirty(), xagent_t::save(), xsnapshot_t::save()).
THEOREM KeptHolds == Spec => []Kept
<1>1. Init => Kept
  BY InitKept
<1>2. Kept /\ [Next]_vars => Kept'
  <2>. SUFFICES ASSUME Kept, [Next]_vars PROVE Kept'
    OBVIOUS
  <2>1. CASE UNCHANGED vars
    BY <2>1 DEF vars, fileVars, Kept, View, Here, Reopened, FoundBlocks, FoundPlace
  <2>2. CASE Open
    BY <2>2, OpenKept
  <2>3. CASE Flush
    BY <2>3, FlushKept
  <2>4. CASE Close
    BY <2>4, CloseKept
  <2>5. CASE Crash
    BY <2>5, CrashKept
  <2>6. CASE SaveTrunk
    BY <2>6, SaveTrunkStep, SaveStepKept
  <2>7. ASSUME NEW name \in Names, Sink(name) PROVE Kept'
    BY <2>7, SinkKept
  <2>8. ASSUME NEW o \in Live, NEW p \in Paths, NEW v \in Values, Edit(o, p, v) PROVE Kept'
    BY <2>8, EditKept
  <2>9. ASSUME NEW o \in Live, NEW p \in Paths, Erase(o, p) PROVE Kept'
    BY <2>9, EraseKept
  <2>10. ASSUME NEW o \in Live, NEW p \in Paths, SnapshotNode(o, p) PROVE Kept'
    BY <2>10, SnapshotNodeStep, SaveStepKept
  <2>11. ASSUME NEW o \in Live, NEW src \in Live, Copy(o, src) PROVE Kept'
    BY <2>11, CopyKept
  <2>12. ASSUME NEW o \in Live, NEW type \in Types, SetType(o, type) PROVE Kept'
    BY <2>12, SetTypeKept
  <2>13. ASSUME NEW o \in Live, Checkpoint(o) PROVE Kept'
    BY <2>13, CheckpointKept
  <2>14. ASSUME NEW o \in Live, SetCheckpoint(o) PROVE Kept'
    BY <2>14, SetCheckpointStep, SaveStepKept
  <2>15. ASSUME NEW o \in Live, SetAgent(o) PROVE Kept'
    BY <2>15, SetAgentKept
  <2>16. ASSUME NEW o \in Live, EraseAgent(o) PROVE Kept'
    BY <2>16, EraseAgentKept
  <2>17. ASSUME NEW o \in Live, Drop(o) PROVE Kept'
    BY <2>17, DropKept
  <2>. QED
    BY <2>1, <2>2, <2>3, <2>4, <2>5, <2>6, <2>7, <2>8, <2>9, <2>10, <2>11, <2>12,
       <2>13, <2>14, <2>15, <2>16, <2>17 DEF Next
<1>. QED  BY <1>1, <1>2, PTL DEF Spec

-----------------------------------------------------------------------------
(* What the invariant says.                                                 *)

\* The types of the file.
LEMMA FileType ==
  ASSUME Kept
  PROVE  /\ disk \in Seq(Blocks) /\ wblk \in 0..Len(disk) /\ wbuf \in Blocks /\ cpos \in Nat
         /\ isopen => FoundBlocks(disk) <= wblk
<1>1. CASE isopen
  <2>1. FileOK(Here(0)) /\ Here(0) \in Files
    BY <1>1, OpenFacts
  <2>2. disk \in Seq(Blocks) /\ wblk \in Nat /\ wbuf \in Blocks /\ cpos \in Nat
    BY <2>1 DEF Files, Here
  <2>3. wblk <= Len(disk) /\ Len(disk) \in Nat
    BY <2>1, <2>2 DEF FileOK, Here
  <2>4. Here(0).disk = disk /\ Here(0).wblk = wblk
    BY DEF Here
  <2>5. FoundBlocks(disk) <= wblk
    BY <2>1, <2>4, ReopenedRecs
  <2>. QED  BY <2>2, <2>3, <2>5
<1>2. CASE ~isopen
  <2>1. wblk = 0 /\ wbuf = EmptyBlock /\ cpos = NoPlace /\ FileOK(Reopened(disk))
    BY <1>2 DEF Kept, View, AllOK, Good
  <2>2. disk \in Seq(Blocks)
    BY <2>1 DEF FileOK, Files, Reopened
  <2>. QED  BY <1>2, <2>1, <2>2, EmptyBlockType DEF NoPlace
<1>3. isopen \in BOOLEAN
  BY DEF Kept
<1>. QED  BY <1>1, <1>2, <1>3

\* No object outlives the program.
LEMMA NoObjs == ASSUME Kept, ~isopen PROVE Live = {}
  BY DEF Kept, Live

\* The invariant has the types.
LEMMA KeptTypeOK == ASSUME Kept PROVE TypeOK
<1>1. /\ disk \in Seq(Blocks) /\ wblk \in 0..Len(disk) /\ wbuf \in Blocks /\ cpos \in Nat
  BY FileType
<1>2. \A b \in Range(disk) \cup {wbuf} :
        Len(b.recs) <= Cap /\ b.chk \in 0..Len(b.recs)
  <2>. SUFFICES ASSUME NEW b \in Range(disk) \cup {wbuf}
                PROVE  Len(b.recs) <= Cap /\ b.chk \in 0..Len(b.recs)
    OBVIOUS
  <2>1. b \in Blocks
    <3>1. \A i \in DOMAIN disk : disk[i] \in Blocks
      BY <1>1
    <3>. QED  BY <1>1, <3>1 DEF Range
  <2>2. b.recs \in Seq(Records) /\ b.chk \in Nat /\ Len(b.recs) <= Cap /\ b.chk <= Len(b.recs)
    BY <2>1 DEF Blocks
  <2>. QED  BY <2>2
<1>3. /\ Live \subseteq Objs /\ agents \subseteq Live
      /\ \A o, a \in agents : obj[o].name = obj[a].name => o = a
  BY DEF Kept, ObjsOK, Live
<1>4. ASSUME NEW o \in Live
      PROVE  LET t == obj[o].tree
             IN  /\ obj[o].name \in Names /\ obj[o].type \in Types
                 /\ {obj[o].pos, obj[o].chk} \subseteq 0..LastPlace(Here(0))
                 /\ DOMAIN t \subseteq Paths
                 /\ \A p \in DOMAIN t : /\ t[p].val \in Values
                                        /\ t[p].pos \in 0..LastPlace(Here(0))
                                        /\ p # <<>> => Front(p) \in DOMAIN t
  <2>1. isopen
    BY NoObjs
  <2>2. PICK w : AllOK(Here(0), w, obj)
    BY <2>1, OpenFacts
  <2>. DEFINE f == Here(0)  a == obj[o]  t == a.tree
  <2>3. FileOK(f) /\ AgentOK(f, w, a) /\ TreeOK(f, w, t) /\ a \in AgentObjs
    BY <2>2 DEF AllOK, Good, AgentOK, Live
  <2>4. \A p \in Recs(f) : p \in 0..LastPlace(f)
    BY <2>3, RecsType
  <2>5. LastPlace(f) \in Nat
    <3>1. wbuf.recs \in Seq(Records) /\ wblk \in Nat
      BY <1>1 DEF Blocks
    <3>2. wblk * Cap \in Nat
      BY <3>1, CapType
    <3>. QED  BY <3>1, <3>2 DEF LastPlace, Here
  <2>6. NoPlace \in 0..LastPlace(f)
    BY <2>5 DEF NoPlace
  <2>. HIDE DEF f, a
  <2>7. a.pos \in 0..LastPlace(f) /\ a.chk \in 0..LastPlace(f)
    BY <2>3, <2>4, <2>6 DEF AgentOK, IsAgent
  <2>8. a.name \in Names /\ a.type \in Types
    BY <2>3 DEF AgentObjs
  <2>9. /\ DOMAIN t \subseteq Paths
        /\ \A p \in DOMAIN t : t[p] \in Nodes /\ (p # <<>> => Front(p) \in DOMAIN t)
        /\ \A p \in DOMAIN t : t[p].pos # NoPlace => t[p].pos \in Recs(f)
    BY <2>3 DEF TreeOK, IsTree, IsSaved, IsNode
  <2>10. \A p \in DOMAIN t : t[p].val \in Values /\ t[p].pos \in 0..LastPlace(f)
    BY <2>4, <2>6, <2>9 DEF Nodes
  <2>. QED  BY <2>7, <2>8, <2>9, <2>10 DEF f, a
<1>5. isopen \in BOOLEAN
  BY DEF Kept
<1>. QED  BY <1>1, <1>2, <1>3, <1>4, <1>5 DEF TypeOK

\* The invariant has what CleanMeansSaved says.
LEMMA KeptCleanMeansSaved == ASSUME Kept PROVE CleanMeansSaved
<1>. SUFFICES ASSUME isopen, ~cut, NEW o \in Live
              PROVE  LET a == obj[o]
                     IN  /\ \A p \in DOMAIN a.tree : a.tree[p].pos # NoPlace =>
                              At(Here(0), a.tree[p].pos) =
                                [val |-> a.tree[p].val,
                                 kids |-> [c \in {Last(q) : q \in Kids(a.tree, p)} |->
                                             a.tree[Append(p, c)].pos]]
                         /\ ~IsDirty(a) =>
                              LET r == At(Here(0), a.pos)
                              IN  /\ r.name = a.name /\ r.type = a.type
                                  /\ IsLoaded(a) => r.root = a.tree[<<>>].pos
  BY DEF CleanMeansSaved
<1>1. PICK w : AllOK(Here(0), w, obj)
  BY OpenFacts
<1>. DEFINE f == Here(0)  a == obj[o]  t == a.tree
<1>2. AgentOK(f, w, a) /\ Rooted(f, a)
  BY <1>1, OpenFacts DEF AllOK, AllRooted, Live
<1>. HIDE DEF f, a
<1>3. \A p \in DOMAIN t : t[p].pos # NoPlace =>
        At(f, t[p].pos) = [val |-> t[p].val, kids |-> KidPlaces(t, p)]
  BY <1>2 DEF AgentOK, TreeOK, IsSaved
<1>4. ~IsDirty(a) => /\ At(f, a.pos).name = a.name /\ At(f, a.pos).type = a.type
                     /\ IsLoaded(a) => At(f, a.pos).root = t[<<>>].pos
  BY <1>2 DEF AgentOK, Rooted, IsDirty
<1>. QED  BY <1>3, <1>4 DEF f, a, KidPlaces

\* What opening the file would find.
LEMMA FoundGood ==
  ASSUME Kept
  PROVE  \E w : Good(Reopened(disk), w)
<1>1. CASE isopen
  <2>1. PICK w : Good(Here(0), w)
    BY <1>1, OpenFacts DEF AllOK
  <2>2. disk = Here(0).disk
    BY DEF Here
  <2>. QED  BY <2>1, <2>2, ReopenedGood
<1>2. CASE ~isopen
  BY <1>2 DEF Kept, View, AllOK
<1>. QED  BY <1>1, <1>2

-----------------------------------------------------------------------------
(* Histories.                                                               *)

\* One step of HistoryTo, and all of them.
HistoryStep(f, g, p) ==
  IF p = NoPlace THEN <<>>
  ELSE IF At(f, p).prev \in 0..(p - 1) THEN Append(g[At(f, p).prev], p) ELSE <<>>

\* What HistoryTo defines by recursion exists.
LEMMA HistoriesExist ==
  ASSUME NEW f, NEW place \in Nat
  PROVE  \E g : g = [p \in 0..place |-> HistoryStep(f, g, p)]
<1>. DEFINE H == {n \in Nat : \E g : g = [p \in 0..n |-> HistoryStep(f, g, p)]}
<1>1. 0 \in H
  <2>. DEFINE g == [p \in 0..0 |-> <<>>]
  <2>1. \A h : \A p \in 0..0 : HistoryStep(f, h, p) = <<>>
    BY DEF HistoryStep, NoPlace
  <2>2. g = [p \in 0..0 |-> HistoryStep(f, g, p)]
    BY <2>1
  <2>. QED  BY <2>2
<1>2. ASSUME NEW n \in 1..place, n - 1 \in H
      PROVE  n \in H
  <2>1. PICK g : g = [p \in 0..(n - 1) |-> HistoryStep(f, g, p)]
    BY <1>2
  <2>. DEFINE e == HistoryStep(f, g, n)
              h == [p \in 0..n |-> IF p = n THEN e ELSE g[p]]
  <2>. HIDE DEF e
  <2>2. h[n] = e /\ h = [p \in 0..n |-> h[p]] /\ \A p \in 0..(n - 1) : h[p] = g[p]
    OBVIOUS
  <2>. HIDE DEF h
  <2>3. ASSUME NEW p \in 0..n
        PROVE  HistoryStep(f, h, p) = HistoryStep(f, g, p)
    <3>1. At(f, p).prev \in 0..(p - 1) => h[At(f, p).prev] = g[At(f, p).prev]
      <4>. SUFFICES ASSUME At(f, p).prev \in 0..(p - 1)
                    PROVE  h[At(f, p).prev] = g[At(f, p).prev]
        OBVIOUS
      <4>1. At(f, p).prev \in 0..(n - 1)
        OBVIOUS
      <4>. QED  BY <4>1, <2>2
    <3>. QED  BY <3>1 DEF HistoryStep
  <2>4. ASSUME NEW p \in 0..n
        PROVE  h[p] = HistoryStep(f, h, p)
    <3>1. CASE p = n
      BY <3>1, <2>2, <2>3 DEF e
    <3>2. CASE p # n
      <4>1. p \in 0..(n - 1)
        BY <3>2
      <4>2. g[p] = HistoryStep(f, g, p)
        BY <2>1, <4>1
      <4>. QED  BY <2>2, <2>3, <4>1, <4>2
    <3>. QED  BY <3>1, <3>2
  <2>5. h = [p \in 0..n |-> HistoryStep(f, h, p)]
    BY <2>2, <2>4
  <2>. QED  BY <2>5
<1>3. H \in SUBSET Nat
  OBVIOUS
<1>4. \A n \in 1..place : n - 1 \in H => n \in H
  BY <1>2
<1>5. place \in H
  <2>. HIDE DEF H
  <2>. QED  BY <1>1, <1>3, <1>4, UpTo
<1>. QED  BY <1>5

\* A history is reached snapshot by snapshot.
LEMMA HistoryIs ==
  ASSUME NEW f, NEW place \in Nat
  PROVE  \E g : /\ \A p \in 0..place : g[p] = HistoryStep(f, g, p)
                /\ HistoryTo(f, place) = g[place]
<1>. DEFINE Eqn(g) == g = [p \in 0..place |->
              IF p = NoPlace THEN <<>>
              ELSE LET prev == At(f, p).prev
                   IN  IF prev \in 0..(p - 1) THEN Append(g[prev], p) ELSE <<>>]
            g == CHOOSE g : Eqn(g)
<1>1. \E h : Eqn(h)
  <2>1. \A h, p : HistoryStep(f, h, p) =
          IF p = NoPlace THEN <<>>
          ELSE LET prev == At(f, p).prev
               IN  IF prev \in 0..(p - 1) THEN Append(h[prev], p) ELSE <<>>
    BY DEF HistoryStep
  <2>2. PICK h : h = [p \in 0..place |-> HistoryStep(f, h, p)]
    BY HistoriesExist
  <2>3. Eqn(h)
    BY <2>1, <2>2
  <2>. QED  BY <2>3
<1>2. Eqn(g)
  BY <1>1
<1>3. HistoryTo(f, place) = g[place]
  BY DEF HistoryTo
<1>. HIDE DEF g
<1>4. \A p \in 0..place : g[p] = HistoryStep(f, g, p)
  BY <1>2 DEF HistoryStep
<1>. QED  BY <1>3, <1>4

\* The history of a snapshot is of snapshots, all of them in the file.
LEMMA HistoryFound ==
  ASSUME NEW f, NEW w, Good(f, w), NEW g, \A p \in Recs(f) : At(g, p) = At(f, p),
         NEW place \in Nat, place # NoPlace => IsSnap(f, place)
  PROVE  /\ HistoryTo(g, place) \in Seq(Nat)
         /\ \A i \in 1..Len(HistoryTo(g, place)) : IsSnap(f, HistoryTo(g, place)[i])
<1>1. PICK h : /\ \A p \in 0..place : h[p] = HistoryStep(g, h, p)
               /\ HistoryTo(g, place) = h[place]
  BY HistoryIs
<1>. DEFINE OK(p) == h[p] \in Seq(Nat) /\ \A i \in 1..Len(h[p]) : IsSnap(f, h[p][i])
            S == {p \in 0..place : (p # NoPlace => IsSnap(f, p)) /\ ~OK(p)}
<1>2. S = {}
  <2>. SUFFICES ASSUME S # {} PROVE FALSE
    OBVIOUS
  <2>1. PICK m \in S : \A k \in S : m <= k
    <3>1. S \in SUBSET Nat
      OBVIOUS
    <3>. HIDE DEF S
    <3>. QED  BY <3>1, Least
  <2>2. m \in 0..place /\ (m # NoPlace => IsSnap(f, m)) /\ ~OK(m)
    OBVIOUS
  <2>3. h[m] = HistoryStep(g, h, m)
    BY <1>1, <2>2
  <2>4. CASE h[m] = <<>>
    BY <2>2, <2>4
  <2>5. CASE h[m] # <<>>
    <3>. DEFINE q == At(g, m).prev
    <3>1. m # NoPlace /\ q \in 0..(m - 1) /\ h[m] = Append(h[q], m)
      BY <2>3, <2>5 DEF HistoryStep
    <3>2. IsSnap(f, m) /\ m \in Recs(f) /\ At(g, m) = At(f, m)
      BY <2>2, <3>1 DEF IsSnap
    <3>3. SnapFits(f, m, At(f, m))
      BY <3>2 DEF Good, Fits, IsSnap
    <3>4. q # NoPlace => IsSnap(f, q)
      BY <3>2, <3>3 DEF SnapFits
    <3>. HIDE DEF q
    <3>5. q \in 0..place /\ q < m
      BY <2>2, <3>1
    <3>6. OK(q)
      <4>1. q \notin S
        BY <2>1, <2>2, <3>5
      <4>. QED  BY <3>4, <3>5, <4>1
    <3>7. PICK s \in Seq(Nat) : s = h[q]
      BY <3>6
    <3>8. \A i \in 1..Len(s) : IsSnap(f, s[i])
      BY <3>6, <3>7
    <3>9. m \in Nat
      BY <2>2
    <3>10. /\ Append(s, m) \in Seq(Nat) /\ Len(Append(s, m)) = Len(s) + 1
           /\ \A i \in 1..(Len(s) + 1) : Append(s, m)[i] = IF i <= Len(s) THEN s[i] ELSE m
      BY <3>9
    <3>11. Len(s) \in Nat
      OBVIOUS
    <3>12. \A i \in 1..Len(Append(s, m)) : IsSnap(f, Append(s, m)[i])
      BY <3>2, <3>8, <3>10, <3>11
    <3>13. h[m] = Append(s, m)
      BY <3>1, <3>7
    <3>14. OK(m)
      BY <3>10, <3>12, <3>13
    <3>. QED  BY <2>2, <3>14
  <2>. QED  BY <2>4, <2>5
<1>3. OK(place)
  <2>1. place \in 0..place /\ place \notin S
    BY <1>2
  <2>. QED  BY <2>1
<1>. QED  BY <1>1, <1>3

\* The nodes of a tree that is read are in the file it is read from.
LEMMA TreeFound ==
  ASSUME NEW f, NEW w, Good(f, w), NEW g, \A p \in Recs(f) : At(g, p) = At(f, p),
         NEW place, IsNode(f, place)
  PROVE  \A n \in Range(TreeAt(g, place)) : IsNode(f, n.pos)
<1>1. PICK h : HasPlaces(g, place, TreeAt(g, place), h)
  BY TreeAtIs
<1>. DEFINE A == {p \in Paths : h[p] # NoPlace => IsNode(f, h[p])}
<1>2. <<>> \in A
  BY <1>1, PathsType DEF HasPlaces, PlaceBy
<1>3. ASSUME NEW p \in Paths, p # <<>>, Front(p) \in A
      PROVE  p \in A
  <2>. SUFFICES ASSUME h[p] # NoPlace PROVE IsNode(f, h[p])
    OBVIOUS
  <2>. DEFINE m == h[Front(p)]  c == Last(p)
  <2>1. /\ m # NoPlace /\ c \in DOMAIN At(g, m).kids /\ h[p] = At(g, m).kids[c]
    BY <1>1, <1>3 DEF HasPlaces, PlaceBy
  <2>2. IsNode(f, m)
    BY <1>3, <2>1
  <2>. HIDE DEF m, c
  <2>3. At(g, m) = At(f, m) /\ NodeFits(f, w, m, At(f, m))
    BY <2>2 DEF IsNode, Good, Fits
  <2>. QED  BY <2>1, <2>3 DEF NodeFits
<1>4. \A p \in Paths : p \in A
  <2>1. A \in SUBSET Paths
    OBVIOUS
  <2>2. \A p \in Paths : p # <<>> /\ Front(p) \in A => p \in A
    BY <1>3
  <2>. HIDE DEF A
  <2>. QED  BY <1>2, <2>1, <2>2, FromAbove
<1>. SUFFICES ASSUME NEW n \in Range(TreeAt(g, place)) PROVE IsNode(f, n.pos)
  OBVIOUS
<1>. DEFINE t == TreeAt(g, place)
<1>5. PICK p \in DOMAIN t : n = t[p]
  BY DEF Range
<1>6. n.pos = h[p] /\ h[p] # NoPlace /\ p \in Paths
  <2>. HIDE DEF t
  <2>1. HasPlaces(g, place, t, h)
    BY <1>1 DEF t
  <2>. QED  BY <1>5, <2>1 DEF HasPlaces
<1>. QED  BY <1>4, <1>6

\* The invariant has what FoundIsKept says.
LEMMA KeptFoundIsKept == ASSUME Kept PROVE FoundIsKept
<1>. DEFINE f == Reopened(disk)  g == OnDisk  kept == FoundBlocks(disk)  place == FoundPlace(disk)
<1>1. disk \in Seq(Blocks) /\ (isopen => kept <= wblk)
  BY FileType
<1>2. PICK w : Good(f, w)
  BY FoundGood
<1>3. g.disk = disk /\ g.wblk = Len(disk)
  BY DEF OnDisk, Here
<1>4. place \in Nat /\ (place # NoPlace => IsSnap(f, place))
  <2>1. f.cpos = place
    BY DEF Reopened
  <2>. QED  BY <1>2, <2>1 DEF Good, FileOK, Files
<1>. HIDE DEF g, place
<1>5. \A p \in Recs(f) : At(g, p) = At(f, p) /\ BlockOf(p) < kept
  BY <1>1, <1>3, OnDiskAt
<1>. HIDE DEF f, kept
<1>6. \A p \in Range(HistoryTo(g, place)) : IsSnap(f, p)
  <2>1. /\ HistoryTo(g, place) \in Seq(Nat)
        /\ \A i \in 1..Len(HistoryTo(g, place)) : IsSnap(f, HistoryTo(g, place)[i])
    BY <1>2, <1>4, <1>5, HistoryFound
  <2>. QED  BY <2>1 DEF Range
<1>7. ASSUME NEW p \in NeededBy(g, place)
      PROVE  p \in Recs(f)
  <2>1. PICK s \in Range(HistoryTo(g, place)) :
          p \in {s} \cup UNION {{a.pos} \cup {n.pos : n \in Range(Loaded(g, a).tree)} :
                                  a \in AgentsAt(g, s)}
    BY <1>7 DEF NeededBy
  <2>2. IsSnap(f, s)
    BY <1>6, <2>1
  <2>3. CASE p = s
    BY <2>2, <2>3 DEF IsSnap
  <2>4. CASE p # s
    <3>1. PICK a \in AgentsAt(g, s) : p = a.pos \/ p \in {n.pos : n \in Range(Loaded(g, a).tree)}
      BY <2>1, <2>4
    <3>2. PICK q \in At(g, s).agents : a = AgentAt(g, q)
      BY <3>1 DEF AgentsAt
    <3>3. IsAgent(f, q)
      <4>1. At(g, s) = At(f, s) /\ SnapFits(f, s, At(f, s))
        BY <1>2, <1>5, <2>2 DEF IsSnap, Good, Fits
      <4>. QED  BY <3>2, <4>1 DEF SnapFits
    <3>4. a.pos = q /\ ~IsLoaded(a)
      BY <3>2 DEF AgentAt, IsLoaded
    <3>5. CASE p = a.pos
      BY <3>3, <3>4, <3>5 DEF IsAgent
    <3>6. CASE p # a.pos
      <4>1. At(g, q) = At(f, q) /\ AgentFits(f, w, q, At(f, q))
        BY <1>2, <1>5, <3>3 DEF IsAgent, Good, Fits
      <4>2. IsNode(f, At(g, q).root)
        BY <4>1 DEF AgentFits
      <4>3. Loaded(g, a).tree = TreeAt(g, At(g, q).root)
        BY <3>2, <3>4 DEF Loaded, AgentAt
      <4>4. \A n \in Range(TreeAt(g, At(g, q).root)) : IsNode(f, n.pos)
        BY <1>2, <1>5, <4>2, TreeFound
      <4>. QED  BY <3>1, <3>6, <4>3, <4>4 DEF IsNode
    <3>. QED  BY <3>5, <3>6
  <2>. QED  BY <2>3, <2>4
<1>8. \A p \in NeededBy(g, place) : BlockOf(p) < kept
  BY <1>5, <1>7
<1>. QED  BY <1>1, <1>8 DEF FoundIsKept, g, kept, place

-----------------------------------------------------------------------------

\* The state is well-formed: objects, names, trees and places.
THEOREM TypesHold == Spec => []TypeOK
  BY KeptHolds, KeptTypeOK, PTL

\* An object that says that it has not changed is what its record has, so that
\* the next version does not have an old value (xnode_t::dirty(), save()).
THEOREM CleanIsSaved == Spec => []CleanMeansSaved
  BY KeptHolds, KeptCleanMeansSaved, PTL

\* What the next program would find is complete in blocks that neither this
\* program nor the next will write again (xfile_t::xfile_t(), flush()).
THEOREM FoundStays == Spec => []FoundIsKept
  BY KeptHolds, KeptFoundIsKept, PTL

-----------------------------------------------------------------------------
(* The history of a file that goes on.                                      *)

\* A place that has a snapshot, or none.
IsVersion(f, p) == p \in Nat /\ (p # NoPlace => IsSnap(f, p))

\* g has what is at the places of f.
Reads(g, f) == \A p \in Recs(f) : At(g, p) = At(f, p)

\* The histories of the places up to m.
Histories(f, m, h) == \A p \in 0..m : h[p] = HistoryStep(f, h, p)

\* Histories are those of the records that they are of.
LEMMA SameHistories ==
  ASSUME NEW f, NEW w, Good(f, w), NEW g, Reads(g, f),
         NEW m \in Nat, NEW h, Histories(f, m, h),
         NEW n \in Nat, NEW k, Histories(g, n, k)
  PROVE  \A p \in 0..m : p <= n /\ IsVersion(f, p) => k[p] = h[p]
<1>. DEFINE S == {p \in 0..m : p <= n /\ IsVersion(f, p) /\ k[p] # h[p]}
<1>. SUFFICES ASSUME S # {} PROVE FALSE
  OBVIOUS
<1>1. PICK p \in S : \A q \in S : p <= q
  <2>1. S \in SUBSET Nat
    OBVIOUS
  <2>. HIDE DEF S
  <2>. QED  BY <2>1, Least
<1>2. p \in 0..m /\ p \in 0..n /\ IsVersion(f, p) /\ k[p] # h[p]
  BY <1>1
<1>3. h[p] = HistoryStep(f, h, p) /\ k[p] = HistoryStep(g, k, p)
  BY <1>2 DEF Histories
<1>4. CASE p = NoPlace
  BY <1>2, <1>3, <1>4 DEF HistoryStep
<1>5. CASE p # NoPlace
  <2>1. p \in Recs(f) /\ At(f, p) \in SnapRecords /\ SnapFits(f, p, At(f, p))
    BY <1>2, <1>5 DEF IsVersion, IsSnap, Good, Fits
  <2>. DEFINE q == At(f, p).prev
  <2>2. At(g, p).prev = q
    BY <2>1 DEF Reads
  <2>3. q \in Nat /\ IsVersion(f, q)
    BY <2>1 DEF SnapRecords, SnapFits, IsVersion
  <2>. HIDE DEF q
  <2>4. CASE q \notin 0..(p - 1)
    BY <1>2, <1>3, <1>5, <2>2, <2>4 DEF HistoryStep, q
  <2>5. CASE q \in 0..(p - 1)
    <3>1. q \in 0..m /\ q <= n /\ q < p
      BY <1>2, <2>5
    <3>2. q \notin S
      BY <1>1, <1>2, <3>1
    <3>3. k[q] = h[q]
      BY <2>3, <3>1, <3>2
    <3>. QED  BY <1>2, <1>3, <1>5, <2>2, <2>5, <3>3 DEF HistoryStep, q
  <2>. QED  BY <2>4, <2>5
<1>. QED  BY <1>4, <1>5

\* A history is the same in all files that have its records.
LEMMA HistoryStable ==
  ASSUME NEW f, NEW w, Good(f, w), NEW g, Reads(g, f),
         NEW place, IsVersion(f, place)
  PROVE  HistoryTo(g, place) = HistoryTo(f, place)
<1>. place \in Nat
  BY DEF IsVersion
<1>1. PICK h : /\ \A p \in 0..place : h[p] = HistoryStep(f, h, p)
               /\ HistoryTo(f, place) = h[place]
  BY HistoryIs
<1>2. PICK k : /\ \A p \in 0..place : k[p] = HistoryStep(g, k, p)
               /\ HistoryTo(g, place) = k[place]
  BY HistoryIs
<1>3. \A p \in 0..place : p <= place /\ IsVersion(f, p) => k[p] = h[p]
  <2>1. Histories(f, place, h) /\ Histories(g, place, k)
    BY <1>1, <1>2 DEF Histories
  <2>. QED  BY <2>1, SameHistories
<1>. QED  BY <1>1, <1>2, <1>3

\* The first version has none before it, a later one the one before it.
LEMMA HistoryNext ==
  ASSUME NEW f, NEW w, Good(f, w)
  PROVE  /\ HistoryTo(f, NoPlace) = <<>>
         /\ \A p : IsSnap(f, p) =>
              /\ p \in Nat \ {0} /\ At(f, p).prev \in 0..(p - 1)
              /\ IsVersion(f, At(f, p).prev)
              /\ HistoryTo(f, p) = Append(HistoryTo(f, At(f, p).prev), p)
<1>1. HistoryTo(f, NoPlace) = <<>>
  <2>1. PICK zero \in Nat : zero = NoPlace
    BY DEF NoPlace
  <2>2. PICK h : /\ \A p \in 0..zero : h[p] = HistoryStep(f, h, p)
                 /\ HistoryTo(f, zero) = h[zero]
    BY HistoryIs
  <2>. QED  BY <2>1, <2>2 DEF HistoryStep
<1>2. ASSUME NEW p, IsSnap(f, p)
      PROVE  /\ p \in Nat \ {0} /\ At(f, p).prev \in 0..(p - 1)
             /\ IsVersion(f, At(f, p).prev)
             /\ HistoryTo(f, p) = Append(HistoryTo(f, At(f, p).prev), p)
  <2>. DEFINE q == At(f, p).prev
  <2>1. p \in Recs(f) /\ At(f, p) \in SnapRecords /\ SnapFits(f, p, At(f, p))
    BY <1>2 DEF IsSnap, Good, Fits
  <2>2. q \in Nat /\ IsVersion(f, q) /\ (q # NoPlace => q < p) /\ p \in Nat \ {0}
    BY <2>1 DEF SnapRecords, SnapFits, IsVersion, Recs
  <2>. HIDE DEF q
  <2>3. q \in 0..(p - 1)
    BY <2>2 DEF NoPlace
  <2>4. PICK h : /\ \A x \in 0..p : h[x] = HistoryStep(f, h, x)
                 /\ HistoryTo(f, p) = h[p]
    BY <2>2, HistoryIs
  <2>5. PICK k : /\ \A x \in 0..q : k[x] = HistoryStep(f, k, x)
                 /\ HistoryTo(f, q) = k[q]
    BY <2>2, HistoryIs
  <2>6. \A x \in 0..p : x <= q /\ IsVersion(f, x) => k[x] = h[x]
    <3>1. Reads(f, f)
      BY DEF Reads
    <3>2. Histories(f, p, h) /\ Histories(f, q, k)
      BY <2>4, <2>5 DEF Histories
    <3>. QED  BY <2>2, <3>1, <3>2, SameHistories
  <2>7. k[q] = h[q]
    BY <2>2, <2>3, <2>6
  <2>8. h[p] = Append(h[q], p)
    <3>1. p \in 0..p /\ p # NoPlace
      BY <2>2 DEF NoPlace
    <3>2. h[p] = HistoryStep(f, h, p)
      BY <2>4, <3>1
    <3>. QED  BY <2>3, <3>1, <3>2 DEF HistoryStep, q
  <2>. QED  BY <2>2, <2>3, <2>4, <2>5, <2>7, <2>8 DEF q
<1>. QED  BY <1>1, <1>2

\* The first of a sequence's elements.
Begins(a, b) == Len(a) <= Len(b) /\ \A i \in 1..Len(a) : b[i] = a[i]

\* What was saved before is the beginning of what is saved later.
LEMMA HistoryBegins ==
  ASSUME NEW f, NEW w, Good(f, w), NEW q, IsVersion(f, q), NEW place, IsVersion(f, place),
         q <= place
  PROVE  Begins(HistoryTo(f, q), HistoryTo(f, place))
<1>. q \in Nat /\ place \in Nat
  BY DEF IsVersion
<1>. DEFINE S == {p \in q..place : IsVersion(f, p) /\ ~Begins(HistoryTo(f, q), HistoryTo(f, p))}
<1>. SUFFICES ASSUME S # {} PROVE FALSE
  OBVIOUS
<1>1. PICK p \in S : \A x \in S : p <= x
  <2>1. S \in SUBSET Nat
    OBVIOUS
  <2>. HIDE DEF S
  <2>. QED  BY <2>1, Least
<1>2. p \in q..place /\ IsVersion(f, p) /\ ~Begins(HistoryTo(f, q), HistoryTo(f, p))
  BY <1>1
<1>3. \A x : IsVersion(f, x) => HistoryTo(f, x) \in Seq(Nat)
  <2>1. \A x \in Recs(f) : At(f, x) = At(f, x)
    OBVIOUS
  <2>. QED  BY <2>1, HistoryFound DEF IsVersion
<1>4. CASE p = q
  <2>1. HistoryTo(f, q) \in Seq(Nat)
    BY <1>3
  <2>. QED  BY <1>2, <1>4, <2>1 DEF Begins
<1>5. CASE p # q
  <2>1. q < p /\ p # NoPlace /\ IsSnap(f, p)
    BY <1>2, <1>5 DEF IsVersion, NoPlace
  <2>. DEFINE r == At(f, p).prev
  <2>2. r \in 0..(p - 1) /\ IsVersion(f, r) /\ HistoryTo(f, p) = Append(HistoryTo(f, r), p)
    BY <2>1, HistoryNext
  <2>3. q <= r
    <3>1. CASE q = NoPlace
      BY <2>2, <3>1 DEF NoPlace
    <3>2. CASE q # NoPlace
      BY <2>1, <3>2 DEF IsVersion, Good, Chained
    <3>. QED  BY <3>1, <3>2
  <2>. HIDE DEF r
  <2>4. r \in q..place /\ r < p
    BY <1>2, <2>2, <2>3
  <2>5. r \notin S
    BY <1>1, <1>2, <2>4
  <2>6. Begins(HistoryTo(f, q), HistoryTo(f, r))
    BY <2>2, <2>4, <2>5
  <2>. DEFINE a == HistoryTo(f, q)  b == HistoryTo(f, r)
  <2>7. a \in Seq(Nat) /\ b \in Seq(Nat) /\ p \in Nat
    BY <1>2, <1>3, <2>2
  <2>. HIDE DEF a, b
  <2>8. Begins(a, Append(b, p))
    BY <2>6, <2>7 DEF Begins, a, b
  <2>. QED  BY <1>2, <2>2, <2>8 DEF a, b
<1>. QED  BY <1>4, <1>5

-----------------------------------------------------------------------------
(* Versions.                                                                *)

\* So is the document of a snapshot.
LEMMA DocumentStable ==
  ASSUME NEW f, NEW w, Good(f, w), NEW g, Reads(g, f), NEW s, IsSnap(f, s)
  PROVE  DocumentAt(g, s) = DocumentAt(f, s)
<1>1. At(g, s) = At(f, s) /\ SnapFits(f, s, At(f, s))
  BY DEF IsSnap, Reads, Good, Fits
<1>2. ASSUME NEW p \in At(f, s).agents
      PROVE  /\ AgentAt(g, p) = AgentAt(f, p)
             /\ Content(g, AgentAt(f, p)) = Content(f, AgentAt(f, p))
  <2>1. IsAgent(f, p)
    BY <1>1, <1>2 DEF SnapFits
  <2>2. At(g, p) = At(f, p)
    BY <2>1 DEF IsAgent, Reads
  <2>3. AgentAt(g, p) = AgentAt(f, p) /\ AgentAt(f, p).pos = p
    BY <2>2 DEF AgentAt
  <2>4. \A x \in Recs(f) : At(g, x) = At(f, x)
    BY DEF Reads
  <2>. QED  BY <2>1, <2>3, <2>4, LoadedStable
<1>3. AgentsAt(g, s) = AgentsAt(f, s)
  BY <1>1, <1>2 DEF AgentsAt
<1>4. \A a \in AgentsAt(f, s) : Content(g, a) = Content(f, a)
  BY <1>2 DEF AgentsAt
<1>. QED  BY <1>3, <1>4 DEF DocumentAt

\* The history of a file's version.
LEMMA HistoryType ==
  ASSUME NEW f, NEW w, Good(f, w), NEW place, IsVersion(f, place)
  PROVE  /\ HistoryTo(f, place) \in Seq(Nat)
         /\ \A i \in 1..Len(HistoryTo(f, place)) : IsSnap(f, HistoryTo(f, place)[i])
<1>1. \A p \in Recs(f) : At(f, p) = At(f, p)
  OBVIOUS
<1>. QED  BY <1>1, HistoryFound DEF IsVersion

\* So are the versions up to it.
LEMMA VersionsStable ==
  ASSUME NEW f, NEW w, Good(f, w), NEW g, Reads(g, f), NEW place, IsVersion(f, place)
  PROVE  VersionsAt(g, place) = VersionsAt(f, place)
<1>1. HistoryTo(g, place) = HistoryTo(f, place)
  BY HistoryStable
<1>2. /\ HistoryTo(f, place) \in Seq(Nat)
      /\ \A i \in 1..Len(HistoryTo(f, place)) : IsSnap(f, HistoryTo(f, place)[i])
  BY HistoryType
<1>3. \A i \in DOMAIN HistoryTo(f, place) :
        DocumentAt(g, HistoryTo(f, place)[i]) = DocumentAt(f, HistoryTo(f, place)[i])
  BY <1>2, DocumentStable
<1>. QED  BY <1>1, <1>3 DEF VersionsAt

\* Mapping the elements of a sequence.
Mapped(F, a) == [i \in DOMAIN a |-> F[a[i]]]

\* Mapping the elements keeps their number and their order.
LEMMA MappedFacts ==
  ASSUME NEW S, NEW F \in [Nat -> S], NEW a \in Seq(Nat)
  PROVE  /\ Mapped(F, a) \in Seq(S) /\ Len(Mapped(F, a)) = Len(a)
         /\ \A i \in 1..Len(a) : Mapped(F, a)[i] = F[a[i]]
         /\ \A p \in Nat : Mapped(F, Append(a, p)) = Append(Mapped(F, a), F[p])
<1>. DEFINE m == Mapped(F, a)
<1>1. /\ m = [i \in 1..Len(a) |-> F[a[i]]] /\ Len(a) \in Nat
      /\ \A i \in 1..Len(a) : F[a[i]] \in S
  BY DEF Mapped
<1>2. m \in Seq(S) /\ Len(m) = Len(a) /\ \A i \in 1..Len(a) : m[i] = F[a[i]]
  BY <1>1
<1>. HIDE DEF m
<1>3. ASSUME NEW p \in Nat
      PROVE  Mapped(F, Append(a, p)) = Append(m, F[p])
  <2>. DEFINE b == Append(a, p)  l == Mapped(F, b)  r == Append(m, F[p])
  <2>1. /\ b \in Seq(Nat) /\ Len(b) = Len(a) + 1 /\ b[Len(a) + 1] = p
        /\ \A i \in 1..Len(a) : b[i] = a[i]
    OBVIOUS
  <2>. HIDE DEF b
  <2>2. l = [i \in 1..Len(b) |-> F[b[i]]] /\ \A i \in 1..Len(b) : F[b[i]] \in S
    BY <2>1 DEF Mapped
  <2>3. l \in Seq(S) /\ Len(l) = Len(a) + 1 /\ \A i \in 1..(Len(a) + 1) : l[i] = F[b[i]]
    BY <1>1, <2>1, <2>2
  <2>4. F[p] \in S
    OBVIOUS
  <2>5. /\ r \in Seq(S) /\ Len(r) = Len(a) + 1 /\ r[Len(a) + 1] = F[p]
        /\ \A i \in 1..Len(a) : r[i] = m[i]
    BY <1>2, <2>4
  <2>. HIDE DEF l, r
  <2>6. \A i \in 1..(Len(a) + 1) : l[i] = r[i]
    <3>. SUFFICES ASSUME NEW i \in 1..(Len(a) + 1) PROVE l[i] = r[i]
      OBVIOUS
    <3>1. CASE i = Len(a) + 1
      BY <2>1, <2>3, <2>5, <3>1
    <3>2. CASE i # Len(a) + 1
      <4>1. i \in 1..Len(a)
        BY <1>1, <3>2
      <4>2. l[i] = F[b[i]] /\ b[i] = a[i]
        BY <2>1, <2>3, <4>1
      <4>3. r[i] = m[i] /\ m[i] = F[a[i]]
        BY <1>2, <2>5, <4>1
      <4>. QED  BY <4>2, <4>3
    <3>. QED  BY <3>1, <3>2
  <2>7. l = r
    BY <2>3, <2>5, <2>6
  <2>. QED  BY <2>7 DEF l, r, b
<1>. QED  BY <1>2, <1>3 DEF m

\* The documents of a file by their places.
DocsOf(f) == [p \in Nat |-> DocumentAt(f, p)]

\* Versions are the documents of a history.
LEMMA VersionsAre ==
  ASSUME NEW f, NEW w, Good(f, w), NEW place, IsVersion(f, place)
  PROVE  /\ VersionsAt(f, place) = Mapped(DocsOf(f), HistoryTo(f, place))
         /\ VersionsAt(f, place) \in Seq({DocumentAt(f, p) : p \in Nat})
         /\ Len(VersionsAt(f, place)) = Len(HistoryTo(f, place))
         /\ Len(HistoryTo(f, place)) \in Nat
<1>. DEFINE a == HistoryTo(f, place)  F == DocsOf(f)  S == {DocumentAt(f, p) : p \in Nat}
<1>1. a \in Seq(Nat) /\ Len(a) \in Nat /\ \A i \in DOMAIN a : a[i] \in Nat
  BY HistoryType
<1>2. F \in [Nat -> S] /\ \A p \in Nat : F[p] = DocumentAt(f, p)
  BY DEF DocsOf
<1>3. VersionsAt(f, place) = [i \in DOMAIN a |-> DocumentAt(f, a[i])]
  BY DEF VersionsAt
<1>. HIDE DEF a, F, S
<1>4. VersionsAt(f, place) = Mapped(F, a)
  BY <1>1, <1>2, <1>3 DEF Mapped
<1>5. Mapped(F, a) \in Seq(S) /\ Len(Mapped(F, a)) = Len(a)
  BY <1>1, <1>2, MappedFacts
<1>. QED  BY <1>1, <1>4, <1>5 DEF a, F, S

\* A snapshot adds its document.
LEMMA VersionsNext ==
  ASSUME NEW f, NEW w, Good(f, w)
  PROVE  /\ VersionsAt(f, NoPlace) = <<>>
         /\ \A p : IsSnap(f, p) =>
              /\ IsVersion(f, At(f, p).prev)
              /\ VersionsAt(f, p) = Append(VersionsAt(f, At(f, p).prev), DocumentAt(f, p))
<1>1. VersionsAt(f, NoPlace) = <<>>
  <2>1. HistoryTo(f, NoPlace) = <<>>
    BY HistoryNext
  <2>. QED  BY <2>1 DEF VersionsAt
<1>2. ASSUME NEW p, IsSnap(f, p)
      PROVE  /\ IsVersion(f, At(f, p).prev)
             /\ VersionsAt(f, p) = Append(VersionsAt(f, At(f, p).prev), DocumentAt(f, p))
  <2>. DEFINE q == At(f, p).prev  a == HistoryTo(f, q)  F == DocsOf(f)
              S == {DocumentAt(f, x) : x \in Nat}
  <2>1. IsVersion(f, q) /\ p \in Nat /\ HistoryTo(f, p) = Append(a, p)
    BY <1>2, HistoryNext
  <2>2. IsVersion(f, p)
    BY <1>2, <2>1 DEF IsVersion
  <2>3. VersionsAt(f, p) = Mapped(F, Append(a, p)) /\ VersionsAt(f, q) = Mapped(F, a)
    <3>. HIDE DEF F, q
    <3>1. VersionsAt(f, q) = Mapped(DocsOf(f), HistoryTo(f, q))
      BY <2>1, VersionsAre
    <3>2. VersionsAt(f, p) = Mapped(DocsOf(f), HistoryTo(f, p))
      BY <2>2, VersionsAre
    <3>. QED  BY <2>1, <3>1, <3>2 DEF F
  <2>4. F \in [Nat -> S] /\ F[p] = DocumentAt(f, p)
    BY <2>1 DEF DocsOf
  <2>5. a \in Seq(Nat)
    BY <2>1, HistoryType
  <2>. HIDE DEF F, S, a, q
  <2>6. Mapped(F, Append(a, p)) = Append(Mapped(F, a), F[p])
    BY <2>1, <2>4, <2>5, MappedFacts
  <2>. QED  BY <2>1, <2>3, <2>4, <2>6 DEF q
<1>. QED  BY <1>1, <1>2

\* Earlier versions are the beginning of later ones.
LEMMA VersionsBegin ==
  ASSUME NEW f, NEW w, Good(f, w), NEW q, IsVersion(f, q), NEW place, IsVersion(f, place),
         q <= place
  PROVE  /\ Len(HistoryTo(f, q)) \in 0..Len(VersionsAt(f, place))
         /\ VersionsAt(f, q) = SubSeq(VersionsAt(f, place), 1, Len(HistoryTo(f, q)))
<1>. DEFINE a == HistoryTo(f, q)  b == HistoryTo(f, place)  F == DocsOf(f)
            S == {DocumentAt(f, x) : x \in Nat}
            l == VersionsAt(f, q)  r == VersionsAt(f, place)
<1>1. /\ l = Mapped(F, a) /\ r = Mapped(F, b) /\ l \in Seq(S) /\ r \in Seq(S)
      /\ Len(l) = Len(a) /\ Len(r) = Len(b) /\ Len(a) \in Nat /\ Len(b) \in Nat
  BY VersionsAre
<1>2. Begins(a, b)
  BY HistoryBegins
<1>3. a \in Seq(Nat) /\ b \in Seq(Nat) /\ F \in [Nat -> S]
  BY HistoryType DEF DocsOf
<1>. HIDE DEF a, b, F, S, l, r
<1>4. \A i \in 1..Len(a) : l[i] = F[a[i]]
  BY <1>1, <1>3, MappedFacts
<1>5. \A i \in 1..Len(b) : r[i] = F[b[i]]
  BY <1>1, <1>3, MappedFacts
<1>6. Len(a) <= Len(b) /\ \A i \in 1..Len(a) : l[i] = r[i]
  BY <1>1, <1>2, <1>4, <1>5 DEF Begins
<1>7. l = SubSeq(r, 1, Len(a))
  <2>. DEFINE z == SubSeq(r, 1, Len(a))
  <2>1. z \in Seq(S) /\ Len(z) = Len(a) /\ \A i \in 1..Len(a) : z[i] = r[i]
    BY <1>1, <1>6
  <2>. HIDE DEF z
  <2>2. l = z
    BY <1>1, <1>6, <2>1
  <2>. QED  BY <2>2 DEF z
<1>. QED  BY <1>1, <1>6, <1>7 DEF a, l, r

\* The versions of a file, and how many of them opening it would find.
Vers(f) == VersionsAt(f, f.cpos)
Dur(d) == Len(HistoryTo(Reopened(d), FoundPlace(d)))

\* What opening the file finds is a version of it, at most the last.
LEMMA FoundIs ==
  ASSUME NEW f, NEW w, Good(f, w), NEW d, d = f.disk
  PROVE  /\ Good(Reopened(d), w) /\ Reads(f, Reopened(d))
         /\ IsVersion(Reopened(d), FoundPlace(d)) /\ IsVersion(f, FoundPlace(d))
         /\ IsVersion(f, f.cpos) /\ FoundPlace(d) <= f.cpos
<1>1. Good(Reopened(d), w) /\ Goes(Reopened(d), w, f, w)
  BY ReopenedGood
<1>2. Reads(f, Reopened(d))
  BY <1>1 DEF Goes, Sees, Reads
<1>3. \A g : Good(g, w) => IsVersion(g, g.cpos)
  BY DEF Good, FileOK, Files, IsVersion
<1>4. IsVersion(Reopened(d), FoundPlace(d))
  <2>1. Reopened(d).cpos = FoundPlace(d)
    BY DEF Reopened
  <2>. QED  BY <1>1, <1>3, <2>1
<1>5. IsVersion(f, FoundPlace(d))
  BY <1>1, <1>4, GoesAlong DEF IsVersion
<1>6. IsVersion(f, f.cpos)
  BY <1>3
<1>7. FoundPlace(d) <= f.cpos
  BY <1>5, <1>6 DEF IsVersion, Good, Chained, NoPlace
<1>. QED  BY <1>1, <1>2, <1>4, <1>5, <1>6, <1>7

\* What opening a file finds is the beginning of its versions.
LEMMA DurableIs ==
  ASSUME NEW f, NEW w, Good(f, w), NEW d, d = f.disk
  PROVE  /\ Len(Vers(f)) \in Nat /\ Dur(d) \in 0..Len(Vers(f))
         /\ VersionsAt(Reopened(d), FoundPlace(d)) = SubSeq(Vers(f), 1, Dur(d))
         /\ Dur(d) = Len(HistoryTo(f, FoundPlace(d)))
<1>. DEFINE r == Reopened(d)  p == FoundPlace(d)
<1>1. /\ Good(r, w) /\ Reads(f, r) /\ IsVersion(r, p) /\ IsVersion(f, p)
      /\ IsVersion(f, f.cpos) /\ p <= f.cpos
  BY FoundIs
<1>. HIDE DEF r, p
<1>2. HistoryTo(f, p) = HistoryTo(r, p) /\ VersionsAt(f, p) = VersionsAt(r, p)
  BY <1>1, HistoryStable, VersionsStable
<1>3. /\ Len(HistoryTo(f, p)) \in 0..Len(Vers(f))
      /\ VersionsAt(f, p) = SubSeq(Vers(f), 1, Len(HistoryTo(f, p)))
  BY <1>1, VersionsBegin DEF Vers
<1>4. Len(Vers(f)) \in Nat
  <2>1. /\ Len(VersionsAt(f, f.cpos)) = Len(HistoryTo(f, f.cpos))
        /\ Len(HistoryTo(f, f.cpos)) \in Nat
    BY <1>1, VersionsAre
  <2>. QED  BY <2>1 DEF Vers
<1>. QED  BY <1>2, <1>3, <1>4 DEF Dur, r, p

\* As long as nothing of the file is lost, opening it finds as much.
LEMMA DurableGrows ==
  ASSUME NEW f, NEW w, Good(f, w), NEW g, NEW v, Good(g, v), Goes(f, w, g, v)
  PROVE  /\ Dur(f.disk) \in Nat /\ Dur(g.disk) \in Nat
         /\ Dur(f.disk) <= Dur(g.disk)
<1>. DEFINE p == FoundPlace(f.disk)  q == FoundPlace(g.disk)
<1>1. IsVersion(f, p) /\ IsVersion(g, q)
  BY FoundIs
<1>2. /\ Dur(f.disk) = Len(HistoryTo(f, p)) /\ Dur(g.disk) = Len(HistoryTo(g, q))
      /\ Dur(f.disk) \in Nat /\ Dur(g.disk) \in Nat
  <2>1. /\ Len(Vers(f)) \in Nat /\ Dur(f.disk) \in 0..Len(Vers(f))
        /\ Dur(f.disk) = Len(HistoryTo(f, p))
    BY DurableIs
  <2>2. /\ Len(Vers(g)) \in Nat /\ Dur(g.disk) \in 0..Len(Vers(g))
        /\ Dur(g.disk) = Len(HistoryTo(g, q))
    BY DurableIs
  <2>. QED  BY <2>1, <2>2
<1>3. Reads(g, f) /\ 0..p \subseteq 0..q
  BY DEF Goes, Sees, Reads, FoundOn
<1>. HIDE DEF p, q
<1>4. p <= q
  <2>1. p \in Nat /\ q \in Nat
    BY <1>1 DEF IsVersion
  <2>2. p \in 0..p
    BY <2>1
  <2>3. p \in 0..q
    BY <1>3, <2>2
  <2>. QED  BY <2>1, <2>3
<1>5. IsVersion(g, p)
  BY <1>1, GoesAlong DEF IsVersion
<1>6. HistoryTo(g, p) = HistoryTo(f, p)
  BY <1>1, <1>3, HistoryStable
<1>7. Begins(HistoryTo(g, p), HistoryTo(g, q))
  BY <1>1, <1>4, <1>5, HistoryBegins
<1>. QED  BY <1>2, <1>6, <1>7 DEF Begins

\* Its versions stay, and a snapshot adds one.
LEMMA VersionsGo ==
  ASSUME NEW f, NEW w, Good(f, w), NEW g, NEW v, Good(g, v), Goes(f, w, g, v)
  PROVE  /\ g.cpos = f.cpos => Vers(g) = Vers(f)
         /\ (g.cpos # NoPlace /\ At(g, g.cpos).prev = f.cpos)
              => Vers(g) = Append(Vers(f), DocumentAt(g, g.cpos))
<1>1. Reads(g, f)
  BY DEF Goes, Sees, Reads
<1>2. IsVersion(f, f.cpos)
  BY FoundIs
<1>3. VersionsAt(g, f.cpos) = Vers(f)
  BY <1>1, <1>2, VersionsStable DEF Vers
<1>4. ASSUME g.cpos # NoPlace, At(g, g.cpos).prev = f.cpos
      PROVE  Vers(g) = Append(Vers(f), DocumentAt(g, g.cpos))
  <2>1. IsSnap(g, g.cpos)
    BY <1>4 DEF Good
  <2>2. VersionsAt(g, g.cpos) = Append(VersionsAt(g, At(g, g.cpos).prev), DocumentAt(g, g.cpos))
    BY <2>1, VersionsNext
  <2>. QED  BY <1>3, <1>4, <2>2 DEF Vers
<1>. QED  BY <1>3, <1>4 DEF Vers

\* The last version is that of the last snapshot.
LEMMA LastVersion ==
  ASSUME NEW f, NEW w, Good(f, w)
  PROVE  /\ f.cpos = NoPlace => Vers(f) = <<>>
         /\ f.cpos # NoPlace => /\ Vers(f) # <<>>
                                /\ Vers(f)[Len(Vers(f))] = DocumentAt(f, f.cpos)
<1>1. f.cpos = NoPlace => Vers(f) = <<>>
  BY VersionsNext DEF Vers
<1>2. ASSUME f.cpos # NoPlace
      PROVE  Vers(f) # <<>> /\ Vers(f)[Len(Vers(f))] = DocumentAt(f, f.cpos)
  <2>. DEFINE p == At(f, f.cpos).prev  x == DocumentAt(f, f.cpos)  u == VersionsAt(f, p)
              S == {DocumentAt(f, q) : q \in Nat}
  <2>1. IsSnap(f, f.cpos) /\ f.cpos \in Nat
    BY <1>2 DEF Good, FileOK, Files
  <2>2. IsVersion(f, p) /\ Vers(f) = Append(u, x)
    BY <2>1, VersionsNext DEF Vers
  <2>3. u \in Seq(S)
    <3>. HIDE DEF p
    <3>. QED  BY <2>2, VersionsAre
  <2>4. x \in S
    BY <2>1
  <2>. HIDE DEF p, x, u, S
  <2>5. Append(u, x) # <<>> /\ Append(u, x)[Len(Append(u, x))] = x
    BY <2>3, <2>4
  <2>. QED  BY <2>2, <2>5 DEF x
<1>. QED  BY <1>1, <1>2

\* What is read from the disk is what opening it would find.
LEMMA OnDiskIs ==
  ASSUME NEW d \in Seq(Blocks), NEW w, Good(Reopened(d), w),
         NEW f, f.disk = d, f.wblk = Len(d)
  PROVE  /\ VersionsAt(f, FoundPlace(d)) = VersionsAt(Reopened(d), FoundPlace(d))
         /\ Len(HistoryTo(f, FoundPlace(d))) = Dur(d)
<1>. DEFINE r == Reopened(d)  p == FoundPlace(d)
<1>1. Reads(f, r)
  BY OnDiskAt DEF Reads
<1>2. IsVersion(r, p)
  <2>1. r.cpos = p
    BY DEF Reopened
  <2>2. IsVersion(r, r.cpos)
    <3>. HIDE DEF r
    <3>. QED  BY DEF Good, FileOK, Files, IsVersion, r
  <2>. QED  BY <2>1, <2>2
<1>3. Good(r, w)
  OBVIOUS
<1>. HIDE DEF r, p
<1>4. VersionsAt(f, p) = VersionsAt(r, p) /\ HistoryTo(f, p) = HistoryTo(r, p)
  BY <1>1, <1>2, <1>3, VersionsStable, HistoryStable
<1>. QED  BY <1>4 DEF Dur, r, p

\* Other room for writes is no other file.
LEMMA SameFileGoes ==
  ASSUME NEW f, NEW w, Good(f, w), NEW g \in Files, SameFile(f, g)
  PROVE  Good(g, w) /\ Goes(f, w, g, w) /\ Goes(g, w, f, w)
         /\ \A p : At(g, p) = At(f, p)
<1>1. FileOK(f) /\ f \in Files
  BY DEF Good, FileOK
<1>2. FileOK(g) /\ SameRecs(f, g) /\ \A p : At(g, p) = At(f, p)
  BY <1>1, SameFileFacts
<1>3. Good(g, w) /\ Goes(f, w, g, w)
  BY <1>2, GoodSame
<1>4. SameFile(g, f)
  BY DEF SameFile
<1>5. SameRecs(g, f)
  BY <1>1, <1>2, <1>4, SameFileFacts
<1>6. Goes(g, w, f, w)
  BY <1>1, <1>3, <1>5, GoodSame
<1>. QED  BY <1>2, <1>3, <1>6

-----------------------------------------------------------------------------
(* Documents.                                                               *)

DocOf(f, O, A) == {Content(f, O[o]) : o \in A}

\* What is in memory is a document.
LEMMA DocumentType ==
  ASSUME NEW f, NEW w, NEW O, AllOK(f, w, O), NEW A, A \subseteq DOMAIN O
  PROVE  DocOf(f, O, A) \in Documents
<1>. DEFINE T == UNION {[D -> Values] : D \in SUBSET Paths}
<1>1. ASSUME NEW o \in A
      PROVE  Content(f, O[o]) \in [name : Names, type : Types, tree : T]
  <2>. DEFINE a == O[o]  t == Loaded(f, a).tree
  <2>1. Good(f, w) /\ AgentOK(f, w, a)
    BY DEF AllOK
  <2>. HIDE DEF a
  <2>2. AgentOK(f, w, Loaded(f, a))
    BY <2>1, LoadedOK
  <2>3. a.name \in Names /\ a.type \in Types
    BY <2>1 DEF AgentOK, AgentObjs
  <2>4. IsTree(t)
    BY <2>2 DEF AgentOK, TreeOK
  <2>. HIDE DEF t
  <2>5. DOMAIN t \in SUBSET Paths /\ \A p \in DOMAIN t : t[p].val \in Values
    BY <2>4 DEF IsTree, Nodes
  <2>6. Vals(t) \in [DOMAIN t -> Values]
    BY <2>5 DEF Vals
  <2>7. Vals(t) \in T
    BY <2>5, <2>6
  <2>8. Content(f, a) = [name |-> a.name, type |-> a.type, tree |-> Vals(t)]
    BY ContentIs DEF t
  <2>. HIDE DEF T
  <2>9. Content(f, a) \in [name : Names, type : Types, tree : T]
    BY <2>3, <2>7, <2>8
  <2>. QED  BY <2>9 DEF a
<1>. QED  BY <1>1 DEF DocOf, Documents

\* Agents that have not changed are what a snapshot of their places has.
LEMMA DocumentSaved ==
  ASSUME NEW f, NEW w, NEW O, AllOK(f, w, O), AllRooted(f, O), NEW A, A \subseteq DOMAIN O,
         \A o \in A : ~IsDirty(O[o]), NEW s, At(f, s).agents = {O[o].pos : o \in A}
  PROVE  DocumentAt(f, s) = DocOf(f, O, A)
<1>1. \A o \in A : Content(f, AgentAt(f, O[o].pos)) = Content(f, O[o])
  BY CleanContent DEF AllOK, AllRooted
<1>2. AgentsAt(f, s) = {AgentAt(f, O[o].pos) : o \in A}
  BY DEF AgentsAt
<1>3. DocumentAt(f, s) = {Content(f, AgentAt(f, O[o].pos)) : o \in A}
  BY <1>2 DEF DocumentAt
<1>. QED  BY <1>1, <1>3 DEF DocOf

-----------------------------------------------------------------------------
(* The versions of the state.                                               *)

\* What Promise is of.
pDoc == {Content(Here(0), obj[o]) : o \in agents}
pVersions == IF isopen THEN VersionsAt(Here(0), cpos)
                       ELSE VersionsAt(OnDisk, FoundPlace(disk))
pDurable == Len(HistoryTo(OnDisk, FoundPlace(disk)))

\* The same of the file that View is.
Shown ==
  /\ isopen \in BOOLEAN /\ View.disk = disk
  /\ pDoc = DocOf(View, obj, agents) /\ pDoc \in Documents
  /\ pVersions = Vers(View) /\ pDurable = Dur(disk)
  /\ ~isopen => agents = {}
  /\ (~cut => AllRooted(View, obj)) /\ ObjsOK(obj, agents)
  /\ \E w : AllOK(View, w, obj)

\* The mapping, in terms of the file that the invariant is about.
LEMMA KeptShown == Kept => Shown
<1>. SUFFICES ASSUME Kept PROVE Shown
  OBVIOUS
<1>1. PICK w : AllOK(View, w, obj)
  BY DEF Kept
<1>2. /\ isopen \in BOOLEAN /\ ObjsOK(obj, agents) /\ (~cut => AllRooted(View, obj))
      /\ (~isopen => agents = {}) /\ agents \subseteq DOMAIN obj
  BY DEF Kept, ObjsOK
<1>3. View.disk = disk
  BY DEF View, Here, Reopened
<1>4. pDoc = DocOf(View, obj, agents)
  <2>1. CASE isopen
    BY <2>1 DEF pDoc, DocOf, View
  <2>2. CASE ~isopen
    BY <2>2, <1>2 DEF pDoc, DocOf
  <2>. QED  BY <2>1, <2>2
<1>5. DocOf(View, obj, agents) \in Documents
  BY <1>1, <1>2, DocumentType
<1>6. disk \in Seq(Blocks)
  BY FileType
<1>7. /\ VersionsAt(OnDisk, FoundPlace(disk)) = VersionsAt(Reopened(disk), FoundPlace(disk))
      /\ pDurable = Dur(disk)
  <2>1. PICK v : Good(Reopened(disk), v)
    BY FoundGood
  <2>2. OnDisk.disk = disk /\ OnDisk.wblk = Len(disk)
    BY DEF OnDisk, Here
  <2>3. PICK d \in Seq(Blocks) : d = disk
    BY <1>6
  <2>4. PICK f : f = OnDisk
    OBVIOUS
  <2>5. /\ VersionsAt(f, FoundPlace(d)) = VersionsAt(Reopened(d), FoundPlace(d))
        /\ Len(HistoryTo(f, FoundPlace(d))) = Dur(d)
    BY <2>1, <2>2, <2>3, <2>4, OnDiskIs
  <2>. QED  BY <2>3, <2>4, <2>5 DEF pDurable
<1>8. pVersions = Vers(View)
  <2>1. CASE isopen
    <3>1. View = Here(0) /\ Here(0).cpos = cpos
      BY <2>1 DEF View, Here
    <3>. QED  BY <2>1, <3>1 DEF pVersions, Vers
  <2>2. CASE ~isopen
    <3>1. View = Reopened(disk) /\ Reopened(disk).cpos = FoundPlace(disk)
      BY <2>2 DEF View, Reopened
    <3>. QED  BY <2>2, <3>1, <1>7 DEF pVersions, Vers
  <2>. QED  BY <2>1, <2>2, <1>2
<1>. QED  BY <1>1, <1>2, <1>3, <1>4, <1>5, <1>7, <1>8 DEF Shown

\* The same of the next state.
LEMMA KeptShownNext == (Kept => Shown)'
  BY KeptShown, PTL

\* The steps of the promise.
LEMMA IsStutter ==
  ASSUME isopen' = isopen, pDoc' = pDoc, pVersions' = pVersions, pDurable' = pDurable
  PROVE  UNCHANGED Promise!vsVars
  BY DEF Promise!vsVars, pDoc, pVersions, pDurable

\* The document changes, and nothing else.
LEMMA IsModify ==
  ASSUME isopen, isopen' = isopen, pDoc' \in Documents,
         pVersions' = pVersions, pDurable' = pDurable
  PROVE  Promise!VSNext
  BY DEF Promise!VSNext, Promise!Modify, pDoc, pVersions, pDurable

\* More of the versions may be durable, and nothing else changes.
LEMMA IsSettle ==
  ASSUME isopen, isopen' = isopen, pDoc' = pDoc, pVersions' = pVersions,
         pDurable' \in pDurable..Len(pVersions), pDurable <= pDurable'
  PROVE  Promise!VSNext
  BY DEF Promise!VSNext, Promise!Settle, Promise!SinkTo, pDoc, pVersions, pDurable

\* The document becomes a version.
LEMMA IsSave ==
  ASSUME isopen, isopen' = isopen, pDoc' = pDoc, pVersions' = Append(pVersions, pDoc),
         pDurable' \in pDurable..Len(pVersions'), pDurable <= pDurable'
  PROVE  Promise!VSNext
  BY DEF Promise!VSNext, Promise!SaveVersion, Promise!SinkTo, pDoc, pVersions, pDurable

\* The last version becomes the document.
LEMMA IsOpen ==
  ASSUME ~isopen, isopen' = TRUE, pVersions' = pVersions, pDurable' = pDurable,
         pDoc' = IF pVersions = <<>> THEN {} ELSE pVersions[Len(pVersions)]
  PROVE  Promise!VSNext
  BY DEF Promise!VSNext, Promise!OpenStore, Promise!Latest, pDoc, pVersions, pDurable

\* What is durable is left.
LEMMA IsStop ==
  ASSUME isopen, isopen' = FALSE, pDoc' = {},
         pDurable' \in pDurable..Len(pVersions), pDurable <= pDurable',
         pVersions' = SubSeq(pVersions, 1, pDurable')
  PROVE  Promise!VSNext
  BY DEF Promise!VSNext, Promise!Stop, Promise!SinkTo, pDoc, pVersions, pDurable

\* The state's file in full.
LEMMA ShownOpen ==
  ASSUME Kept, isopen
  PROVE  /\ pDoc = DocOf(Here(0), obj, agents) /\ pVersions = Vers(Here(0))
         /\ pDurable = Dur(Here(0).disk) /\ View = Here(0) /\ agents \subseteq Live
<1>1. View = Here(0) /\ Here(0).disk = disk
  BY DEF View, Here
<1>. QED  BY <1>1, KeptShown DEF Shown, ObjsOK, Live

\* What a file that goes on has of versions.
LEMMA FileGoesOn ==
  ASSUME NEW f, NEW w, Good(f, w), NEW g, NEW v, Good(g, v), Goes(f, w, g, v)
  PROVE  /\ Dur(f.disk) <= Dur(g.disk) /\ Dur(f.disk) \in Nat /\ Dur(g.disk) \in Nat
         /\ Len(Vers(g)) \in Nat /\ Dur(g.disk) <= Len(Vers(g))
         /\ Dur(g.disk) \in Dur(f.disk)..Len(Vers(g))
<1>1. /\ Dur(f.disk) \in Nat /\ Dur(g.disk) \in Nat /\ Dur(f.disk) <= Dur(g.disk)
  BY DurableGrows
<1>2. Len(Vers(g)) \in Nat /\ Dur(g.disk) \in 0..Len(Vers(g))
  BY DurableIs
<1>. QED  BY <1>1, <1>2

\* The file that an operation has left, with no room.
LEMMA ViewAfter ==
  ASSUME isopen', NEW g, NEW v, Good(g, v), SetFile(g)
  PROVE  /\ Good(View', v) /\ Goes(g, v, View', v) /\ View'.cpos = g.cpos
         /\ View'.disk = g.disk /\ \A p : At(View', p) = At(g, p)
<1>. DEFINE h == [disk |-> g.disk, wblk |-> g.wblk, wbuf |-> g.wbuf,
                  cpos |-> g.cpos, room |-> 0, ok |-> TRUE]
<1>1. View' = h
  BY DEF View, Here, SetFile
<1>2. g \in Files
  BY DEF Good, FileOK
<1>3. SameFile(g, h) /\ h \in Files /\ h.cpos = g.cpos /\ h.disk = g.disk
  BY <1>2 DEF SameFile, Files
<1>. HIDE DEF h
<1>4. Good(h, v) /\ Goes(g, v, h, v) /\ \A p : At(h, p) = At(g, p)
  BY <1>3, SameFileGoes
<1>. QED  BY <1>1, <1>3, <1>4

-----------------------------------------------------------------------------
(* Every step is one of the promise.                                        *)

\* The initial states are those of the promise.
LEMMA InitShows == Init => Promise!VSInit
<1>. SUFFICES ASSUME Init PROVE Promise!VSInit
  OBVIOUS
<1>1. Kept /\ ~isopen /\ isopen = FALSE /\ disk = <<>> /\ agents = {}
  BY InitKept DEF Init
<1>2. pVersions = Vers(View) /\ pDurable = Dur(disk) /\ View = Reopened(disk)
  BY <1>1, KeptShown DEF Shown, View
<1>3. PICK w : Good(Reopened(disk), w)
  BY <1>1, FoundGood
<1>4. FoundPlace(disk) = NoPlace
  BY <1>1 DEF FoundPlace, Marked
<1>. DEFINE r == Reopened(disk)
<1>5. r.cpos = NoPlace
  BY <1>4 DEF Reopened
<1>. HIDE DEF r
<1>6. Vers(r) = <<>>
  BY <1>3, <1>5, LastVersion DEF r
<1>7. HistoryTo(r, NoPlace) = <<>>
  BY <1>3, HistoryNext DEF r
<1>8. Dur(disk) = 0
  BY <1>4, <1>7 DEF Dur, r
<1>9. pDoc = {}
  BY <1>1 DEF pDoc
<1>10. pVersions = <<>> /\ pDurable = 0
  BY <1>2, <1>6, <1>8 DEF r
<1>. QED  BY <1>1, <1>9, <1>10 DEF Promise!VSInit, pDoc, pVersions, pDurable

\* A step that does not write.
LEMMA EditShows ==
  ASSUME Kept, Kept', isopen, isopen', UNCHANGED <<fileVars, isopen>>
  PROVE  Promise!VSNext
<1>1. View' = View /\ disk' = disk
  BY DEF View, Here, fileVars
<1>2. /\ pVersions = Vers(View) /\ pDurable = Dur(disk)
  BY KeptShown DEF Shown
<1>3. /\ pVersions' = Vers(View') /\ pDurable' = Dur(disk') /\ pDoc' \in Documents
  BY KeptShownNext DEF Shown
<1>. QED  BY <1>1, <1>2, <1>3, IsModify

\* A stuttering step.
LEMMA StutterShows ==
  ASSUME UNCHANGED vars
  PROVE  UNCHANGED Promise!vsVars
<1>1. Here(0)' = Here(0) /\ OnDisk' = OnDisk
      /\ UNCHANGED <<disk, isopen, cpos, obj, agents>>
  BY DEF vars, fileVars, Here, OnDisk
<1>2. pVersions' = pVersions /\ pDurable' = pDurable /\ pDoc' = pDoc
  BY <1>1 DEF pVersions, pDurable, pDoc
<1>. QED  BY <1>1, <1>2, IsStutter

\* flush() makes versions durable.
LEMMA FlushShows ==
  ASSUME Kept, Kept', Flush
  PROVE  Promise!VSNext
<1>1. /\ isopen /\ isopen' /\ SetFile(Flushed(Here(1)))
      /\ UNCHANGED <<obj, agents, cut, isopen>>
  BY DEF Flush
<1>2. PICK w : AllOK(Here(0), w, obj)
  BY <1>1, OpenFacts
<1>3. /\ Good(Here(0), w) /\ Good(Flushed(Here(1)), w)
      /\ Goes(Here(0), w, Flushed(Here(1)), w) /\ Flushed(Here(1)).cpos = cpos
  BY <1>1, <1>2, FlushFacts DEF AllOK
<1>4. PICK h : h = View'
  OBVIOUS
<1>5. PICK f : f = Here(0) /\ f.cpos = cpos
  <2>1. Here(0).cpos = cpos
    BY DEF Here
  <2>. QED  BY <2>1
<1>6. Good(h, w) /\ Goes(Flushed(Here(1)), w, h, w) /\ h.cpos = cpos
  BY <1>1, <1>3, <1>4, ViewAfter
<1>7. Goes(f, w, h, w) /\ Good(f, w)
  BY <1>3, <1>5, <1>6, GoesOn
<1>8. Vers(h) = Vers(f)
  BY <1>5, <1>6, <1>7, VersionsGo
<1>9. /\ Dur(f.disk) <= Dur(h.disk)
      /\ Dur(h.disk) \in Dur(f.disk)..Len(Vers(h))
  BY <1>6, <1>7, FileGoesOn
<1>10. /\ pDoc = DocOf(f, obj, agents) /\ pVersions = Vers(f)
       /\ pDurable = Dur(f.disk) /\ agents \subseteq Live
  BY <1>1, <1>5, ShownOpen
<1>11. /\ pDoc' = DocOf(h, obj', agents') /\ pVersions' = Vers(h)
       /\ pDurable' = Dur(h.disk)
  BY <1>4, KeptShownNext DEF Shown
<1>12. \A o \in agents : Content(h, obj[o]) = Content(f, obj[o])
  BY <1>2, <1>5, <1>7, <1>10, ContentAlong DEF AllOK, Live
<1>13. pDoc' = pDoc
  BY <1>1, <1>10, <1>11, <1>12 DEF DocOf
<1>. QED  BY <1>1, <1>8, <1>9, <1>10, <1>11, <1>13, IsSettle

\* The program ends, and the disk is that of a file that goes on from this one.
LEMMA GoneShows ==
  ASSUME Kept, Kept', Gone, NEW w, AllOK(Here(0), w, obj), NEW g, Good(g, w),
         Goes(Here(0), w, g, w), g.cpos = cpos, disk' = g.disk
  PROVE  Promise!VSNext
<1>1. isopen /\ isopen' = FALSE /\ agents' = {}
  BY DEF Gone
<1>2. PICK f : f = Here(0) /\ f.cpos = cpos
  <2>1. Here(0).cpos = cpos
    BY DEF Here
  <2>. QED  BY <2>1
<1>3. Good(f, w) /\ Goes(f, w, g, w)
  BY <1>2 DEF AllOK
<1>4. Vers(g) = Vers(f)
  BY <1>2, <1>3, VersionsGo
<1>5. Dur(f.disk) <= Dur(g.disk) /\ Dur(g.disk) \in Dur(f.disk)..Len(Vers(g))
  BY <1>3, FileGoesOn
<1>6. PICK d : d = g.disk
  OBVIOUS
<1>7. VersionsAt(Reopened(d), FoundPlace(d)) = SubSeq(Vers(g), 1, Dur(d))
  BY <1>6, DurableIs
<1>8. pVersions = Vers(f) /\ pDurable = Dur(f.disk)
  BY <1>1, <1>2, ShownOpen
<1>9. pVersions' = Vers(View') /\ pDurable' = Dur(disk')
  BY KeptShownNext DEF Shown
<1>10. View' = Reopened(d)
  BY <1>1, <1>6 DEF View, Reopened
<1>11. Vers(Reopened(d)) = VersionsAt(Reopened(d), FoundPlace(d))
  BY DEF Vers, Reopened
<1>12. pVersions' = SubSeq(pVersions, 1, pDurable')
  BY <1>4, <1>6, <1>7, <1>8, <1>9, <1>10, <1>11
<1>13. pDoc' = {}
  BY <1>1 DEF pDoc
<1>. QED  BY <1>1, <1>4, <1>5, <1>6, <1>8, <1>9, <1>12, <1>13, IsStop

\* The end of the program without a flush.
LEMMA CrashShows ==
  ASSUME Kept, Kept', Crash
  PROVE  Promise!VSNext
<1>1. Gone /\ disk' = disk /\ isopen
  BY DEF Crash, Gone
<1>2. PICK w : AllOK(Here(0), w, obj)
  BY <1>1, OpenFacts
<1>3. PICK g : g = Here(0)
  OBVIOUS
<1>4. Good(g, w) /\ g.disk = disk /\ g.cpos = cpos
  BY <1>2, <1>3 DEF AllOK, Here
<1>5. Goes(Here(0), w, g, w)
  BY <1>3, <1>4, GoesSame
<1>. QED  BY <1>1, <1>2, <1>4, <1>5, GoneShows

\* The end of the program with a flush.
LEMMA CloseShows ==
  ASSUME Kept, Kept', Close
  PROVE  Promise!VSNext
<1>1. Gone /\ isopen /\ disk' = IF ToWrite THEN Flushed(Here(1)).disk ELSE disk
  BY DEF Close, Gone
<1>2. PICK w : AllOK(Here(0), w, obj)
  BY <1>1, OpenFacts
<1>3. CASE ToWrite
  <2>1. /\ Good(Flushed(Here(1)), w) /\ Goes(Here(0), w, Flushed(Here(1)), w)
        /\ Flushed(Here(1)).cpos = cpos
    BY <1>1, <1>2, FlushFacts DEF AllOK
  <2>. QED  BY <1>1, <1>2, <1>3, <2>1, GoneShows
<1>4. CASE ~ToWrite
  <2>1. Crash
    BY <1>1, <1>4 DEF Crash
  <2>. QED  BY <2>1, CrashShows
<1>. QED  BY <1>3, <1>4

\* What a step that saves leaves, in the file that the state has then.
LEMMA SaveStepGoes ==
  ASSUME Kept, NEW room, NEW w, NEW s, SaveStep(room, w, s), NEW h, h = View',
         NEW f, f = Here(0)
  PROVE  /\ isopen /\ isopen' = isopen /\ agents' = agents /\ obj' = s.obj
         /\ Good(f, w) /\ h.cpos = s.file.cpos /\ \A p : At(h, p) = At(s.file, p)
         /\ \E v : AllOK(h, v, obj') /\ Goes(f, w, h, v)
         /\ \A o \in Live : Content(h, obj'[o]) = Content(f, obj[o])
<1>1. /\ isopen /\ room \in Int /\ AllOK(f, w, obj)
      /\ Outcome(room, w, s) /\ Saved(s)
  BY DEF SaveStep
<1>2. isopen' = isopen /\ agents' = agents /\ obj' = s.obj /\ SetFile(s.file)
  BY <1>1 DEF Saved
<1>3. PICK v : SaveOK(Live, s, v) /\ Goes(Here(room), w, s.file, v)
  BY <1>1 DEF Outcome
<1>4. \A o \in Live : Content(s.file, s.obj[o]) = Content(Here(room), obj[o])
  BY <1>1 DEF Outcome
<1>5. Good(s.file, v) /\ DOMAIN s.obj = Live /\ \A o \in Live : AgentOK(s.file, v, s.obj[o])
  BY <1>3 DEF SaveOK, States
<1>6. isopen'
  BY <1>1, <1>2
<1>7. /\ Good(h, v) /\ Goes(s.file, v, h, v) /\ h.cpos = s.file.cpos
      /\ \A p : At(h, p) = At(s.file, p)
  BY <1>2, <1>5, <1>6, ViewAfter
<1>8. PICK g : g = Here(room)
  OBVIOUS
<1>9. Good(f, w) /\ Goes(f, w, g, w) /\ Good(g, w)
  <2>1. Good(f, w) /\ f \in Files /\ SameFile(f, Here(0))
    BY <1>1 DEF AllOK, Good, FileOK, SameFile
  <2>2. g \in Files /\ SameFile(f, g)
    BY <1>1, <1>8, <2>1, HereFacts
  <2>. QED  BY <2>1, <2>2, SameFileGoes
<1>10. Goes(f, w, s.file, v)
  BY <1>3, <1>8, <1>9, GoesOn
<1>11. Goes(f, w, h, v)
  BY <1>7, <1>10, GoesOn
<1>12. AllOK(h, v, obj')
  <2>1. AllOK(s.file, v, s.obj)
    BY <1>5 DEF AllOK
  <2>. QED  BY <1>2, <1>7, <2>1, AllAlong
<1>13. ASSUME NEW o \in Live
       PROVE  Content(h, obj'[o]) = Content(f, obj[o])
  <2>1. Content(h, s.obj[o]) = Content(s.file, s.obj[o])
    BY <1>5, <1>7, ContentAlong
  <2>2. AgentOK(f, w, obj[o])
    BY <1>1 DEF AllOK, Live
  <2>3. Content(g, obj[o]) = Content(f, obj[o])
    BY <1>9, <2>2, ContentAlong
  <2>. QED  BY <1>2, <1>4, <1>8, <2>1, <2>3
<1>. QED  BY <1>1, <1>2, <1>7, <1>9, <1>11, <1>12, <1>13

\* A save does not change the document, and none of the versions.
LEMMA SaveStepShows ==
  ASSUME Kept, Kept', NEW room, NEW w, NEW s, SaveStep(room, w, s)
  PROVE  /\ isopen /\ isopen' = isopen /\ pDoc' = pDoc
         /\ pDurable <= pDurable' /\ pDurable' \in pDurable..Len(pVersions')
         /\ s.file.cpos = cpos => pVersions' = pVersions
<1>1. PICK h : h = View'
  OBVIOUS
<1>2. PICK f : f = Here(0) /\ f.cpos = cpos
  <2>1. Here(0).cpos = cpos
    BY DEF Here
  <2>. QED  BY <2>1
<1>3. /\ isopen /\ isopen' = isopen /\ agents' = agents /\ Good(f, w)
      /\ h.cpos = s.file.cpos
      /\ \A o \in Live : Content(h, obj'[o]) = Content(f, obj[o])
  BY <1>1, <1>2, SaveStepGoes
<1>4. PICK v : AllOK(h, v, obj') /\ Goes(f, w, h, v)
  BY <1>1, <1>2, SaveStepGoes
<1>5. Good(h, v)
  BY <1>4 DEF AllOK
<1>6. /\ pDoc = DocOf(f, obj, agents) /\ pVersions = Vers(f)
      /\ pDurable = Dur(f.disk) /\ agents \subseteq Live
  BY <1>2, <1>3, ShownOpen
<1>7. /\ pDoc' = DocOf(h, obj', agents') /\ pVersions' = Vers(h)
      /\ pDurable' = Dur(h.disk)
  BY <1>1, KeptShownNext DEF Shown
<1>8. pDoc' = pDoc
  BY <1>3, <1>6, <1>7 DEF DocOf
<1>9. h.cpos = f.cpos => Vers(h) = Vers(f)
  BY <1>3, <1>4, <1>5, VersionsGo
<1>10. /\ Dur(f.disk) <= Dur(h.disk)
       /\ Dur(h.disk) \in Dur(f.disk)..Len(Vers(h))
  BY <1>3, <1>4, <1>5, FileGoesOn
<1>. QED  BY <1>2, <1>3, <1>6, <1>7, <1>8, <1>9, <1>10

\* A save that makes no snapshot writes records, and changes no version.
LEMMA SettleShows ==
  ASSUME Kept, Kept', NEW room, NEW w, NEW s, SaveStep(room, w, s), s.file.cpos = cpos
  PROVE  Promise!VSNext
<1>1. /\ isopen /\ isopen' = isopen /\ pDoc' = pDoc /\ pVersions' = pVersions
      /\ pDurable <= pDurable' /\ pDurable' \in pDurable..Len(pVersions')
  BY SaveStepShows
<1>2. pDurable' \in pDurable..Len(pVersions)
  BY <1>1
<1>. QED  BY <1>1, <1>2, IsSettle

\* A whole save makes the document a version.
LEMMA VersionShows ==
  ASSUME Kept, Kept', NEW room, NEW w, NEW s, SaveStep(room, w, s),
         SnapDone(Saving(room), s), ~cut'
  PROVE  Promise!VSNext
<1>1. PICK h : h = View'
  OBVIOUS
<1>2. PICK f : f = Here(0) /\ f.cpos = cpos
  <2>1. Here(0).cpos = cpos
    BY DEF Here
  <2>. QED  BY <2>1
<1>3. /\ isopen /\ agents' = agents /\ Good(f, w) /\ obj' = s.obj
      /\ h.cpos = s.file.cpos /\ \A p : At(h, p) = At(s.file, p)
  BY <1>1, <1>2, SaveStepGoes
<1>4. PICK v : AllOK(h, v, obj') /\ Goes(f, w, h, v)
  BY <1>1, <1>2, SaveStepGoes
<1>5. Good(h, v)
  BY <1>4 DEF AllOK
<1>6. Saving(room).file.cpos = cpos
  BY DEF Saving, Here
<1>7. /\ h.cpos # NoPlace
      /\ At(h, h.cpos) = [prev |-> cpos, agents |-> {obj'[o].pos : o \in agents}]
      /\ \A o \in agents : ~IsDirty(obj'[o])
  BY <1>3, <1>6 DEF SnapDone
<1>8. At(h, h.cpos).prev = f.cpos /\ At(h, h.cpos).agents = {obj'[o].pos : o \in agents}
  BY <1>2, <1>7
<1>9. Vers(h) = Append(Vers(f), DocumentAt(h, h.cpos))
  BY <1>3, <1>4, <1>5, <1>7, <1>8, VersionsGo
<1>10. /\ pDoc' = DocOf(h, obj', agents') /\ pVersions' = Vers(h)
       /\ AllRooted(h, obj') /\ ObjsOK(obj', agents')
  BY <1>1, KeptShownNext DEF Shown
<1>11. agents \subseteq DOMAIN obj'
  BY <1>3, <1>10 DEF ObjsOK
<1>12. PICK O : O = obj'
  OBVIOUS
<1>13. DocumentAt(h, h.cpos) = DocOf(h, O, agents)
  <2>1. AllOK(h, v, O) /\ AllRooted(h, O) /\ agents \subseteq DOMAIN O
    BY <1>4, <1>10, <1>11, <1>12
  <2>2. \A o \in agents : ~IsDirty(O[o])
    BY <1>7, <1>12
  <2>3. At(h, h.cpos).agents = {O[o].pos : o \in agents}
    BY <1>8, <1>12
  <2>. QED  BY <2>1, <2>2, <2>3, DocumentSaved
<1>14. pVersions = Vers(f)
  BY <1>2, <1>3, ShownOpen
<1>15. /\ isopen' = isopen /\ pDoc' = pDoc
       /\ pDurable <= pDurable' /\ pDurable' \in pDurable..Len(pVersions')
  BY SaveStepShows
<1>16. pVersions' = Append(pVersions, pDoc)
  BY <1>3, <1>9, <1>10, <1>12, <1>13, <1>14, <1>15
<1>. QED  BY <1>3, <1>15, <1>16, IsSave

\* Saving the trunk is one or the other.
LEMMA SaveTrunkShows ==
  ASSUME Kept, Kept', SaveTrunk, ~cut'
  PROVE  Promise!VSNext
<1>1. PICK room, w, s : /\ SaveStep(room, w, s)
                        /\ s.file.cpos = cpos \/ SnapDone(Saving(room), s)
  BY SaveTrunkStep
<1>2. CASE s.file.cpos = cpos
  BY <1>1, <1>2, SettleShows
<1>3. CASE SnapDone(Saving(room), s)
  BY <1>1, <1>3, VersionShows
<1>. QED  BY <1>1, <1>2, <1>3

\* New objects are what the places have that they are read from.
LEMMA LoadedDocument ==
  ASSUME NEW f, NEW S, NEW new, NEW O, Loads(f, S, new, O)
  PROVE  DocOf(f, O, Range(new)) = {Content(f, AgentAt(f, p)) : p \in S}
<1>. DEFINE F == AntiFunction(new)
<1>1. new \in Injection(S, Free) /\ O = [o \in Range(new) |-> AgentAt(f, F[o])]
  BY DEF Loads
<1>2. \A o \in Range(new) : F[o] \in S /\ new[F[o]] = o
  BY <1>1, AntiFacts
<1>3. /\ \A p \in S : new[p] \in Range(new)
      /\ \A p, q \in S : new[p] = new[q] => p = q
  BY <1>1 DEF Injection, IsInjective, Range
<1>. HIDE DEF F
<1>4. \A p \in S : F[new[p]] = p
  BY <1>2, <1>3
<1>5. \A o \in Range(new) : O[o] = AgentAt(f, F[o])
  BY <1>1
<1>6. \A o \in Range(new) : \E p \in S : Content(f, O[o]) = Content(f, AgentAt(f, p))
  BY <1>2, <1>5
<1>7. \A p \in S : \E o \in Range(new) : Content(f, O[o]) = Content(f, AgentAt(f, p))
  BY <1>3, <1>4, <1>5
<1>. QED  BY <1>6, <1>7 DEF DocOf

\* Opening the file gives the last version that was durable.
LEMMA OpenShows ==
  ASSUME Kept, Kept', Open
  PROVE  Promise!VSNext
<1>1. /\ ~isopen /\ isopen' = TRUE /\ disk' = disk
      /\ View = Reopened(disk) /\ View' = Reopened(disk)
  BY OpenLoads
<1>2. PICK f : f = Reopened(disk)
  OBVIOUS
<1>3. PICK w : Good(f, w)
  BY <1>2, OpenLoads
<1>4. PICK new : Loads(f, FoundAgents(f), new, obj') /\ agents' = Range(new)
  BY <1>2, OpenLoads
<1>5. pVersions = Vers(f) /\ pDurable = Dur(disk)
  BY <1>1, <1>2, KeptShown DEF Shown
<1>6. pVersions' = Vers(f) /\ pDurable' = Dur(disk') /\ pDoc' = DocOf(f, obj', agents')
  BY <1>1, <1>2, KeptShownNext DEF Shown
<1>7. PICK O : O = obj'
  OBVIOUS
<1>8. DocOf(f, O, Range(new)) = {Content(f, AgentAt(f, p)) : p \in FoundAgents(f)}
  BY <1>4, <1>7, LoadedDocument
<1>9. pDoc' = {Content(f, AgentAt(f, p)) : p \in FoundAgents(f)}
  BY <1>4, <1>6, <1>7, <1>8
<1>10. f.cpos = NoPlace => Vers(f) = <<>>
  BY <1>3, LastVersion
<1>11. f.cpos # NoPlace => Vers(f) # <<>> /\ Vers(f)[Len(Vers(f))] = DocumentAt(f, f.cpos)
  BY <1>3, LastVersion
<1>12. DocumentAt(f, f.cpos) = {Content(f, AgentAt(f, p)) : p \in At(f, f.cpos).agents}
  BY DEF DocumentAt, AgentsAt
<1>13. pDoc' = IF pVersions = <<>> THEN {} ELSE pVersions[Len(pVersions)]
  <2>1. CASE f.cpos = NoPlace
    <3>1. FoundAgents(f) = {}
      BY <2>1 DEF FoundAgents
    <3>. QED  BY <2>1, <3>1, <1>5, <1>9, <1>10
  <2>2. CASE f.cpos # NoPlace
    <3>1. FoundAgents(f) = At(f, f.cpos).agents
      BY <2>2 DEF FoundAgents
    <3>. QED  BY <2>2, <3>1, <1>5, <1>9, <1>11, <1>12
  <2>. QED  BY <2>1, <2>2
<1>. QED  BY <1>1, <1>5, <1>6, <1>13, IsOpen

\* Each step of the database, as long as no save is cut short.
LEMMA NextShows ==
  ASSUME Kept, Kept', Next, ~cut'
  PROVE  Promise!VSNext
<1>1. CASE Open
  BY <1>1, OpenShows
<1>2. CASE Flush
  BY <1>2, FlushShows
<1>3. CASE Close
  BY <1>3, CloseShows
<1>4. CASE Crash
  BY <1>4, CrashShows
<1>5. CASE SaveTrunk
  BY <1>5, SaveTrunkShows
<1>6. ASSUME NEW name \in Names, Sink(name) PROVE Promise!VSNext
  BY <1>6, EditShows DEF Sink
<1>7. ASSUME NEW o \in Live, NEW p \in Paths, NEW v \in Values, Edit(o, p, v)
      PROVE  Promise!VSNext
  BY <1>7, EditShows DEF Edit, ChangeTree
<1>8. ASSUME NEW o \in Live, NEW p \in Paths, Erase(o, p) PROVE Promise!VSNext
  BY <1>8, EditShows DEF Erase, ChangeTree
<1>9. ASSUME NEW o \in Live, NEW p \in Paths, SnapshotNode(o, p) PROVE Promise!VSNext
  BY <1>9, SnapshotNodeStep, SettleShows
<1>10. ASSUME NEW o \in Live, NEW src \in Live, Copy(o, src) PROVE Promise!VSNext
  BY <1>10, EditShows DEF Copy, ChangeTree
<1>11. ASSUME NEW o \in Live, NEW type \in Types, SetType(o, type) PROVE Promise!VSNext
  BY <1>11, EditShows DEF SetType
<1>12. ASSUME NEW o \in Live, Checkpoint(o) PROVE Promise!VSNext
  BY <1>12, EditShows DEF Checkpoint
<1>13. ASSUME NEW o \in Live, SetCheckpoint(o) PROVE Promise!VSNext
  BY <1>13, SetCheckpointStep, SettleShows
<1>14. ASSUME NEW o \in Live, SetAgent(o) PROVE Promise!VSNext
  BY <1>14, EditShows DEF SetAgent
<1>15. ASSUME NEW o \in Live, EraseAgent(o) PROVE Promise!VSNext
  BY <1>15, EditShows DEF EraseAgent
<1>16. ASSUME NEW o \in Live, Drop(o) PROVE Promise!VSNext
  BY <1>16, EditShows DEF Drop
<1>. QED
  BY <1>1, <1>2, <1>3, <1>4, <1>5, <1>6, <1>7, <1>8, <1>9, <1>10, <1>11, <1>12,
     <1>13, <1>14, <1>15, <1>16 DEF Next

-----------------------------------------------------------------------------

\* The file is a row of versions: saving adds what the document is, no
\* operation and no end of the program changes an earlier one, and what is
\* left when it ends is a beginning of them (get_trunk(), save(), previous()).
THEOREM VersionsAreKept == Spec => ImplementsVersionStore
<1>1. Init => Promise!VSInit
  BY InitShows
<1>2. Kept /\ Kept' /\ [Next]_vars => [~cut' => Promise!VSNext]_(Promise!vsVars)
  BY NextShows, StutterShows
<1>3. Spec => []Kept
  BY KeptHolds
<1>. QED  BY <1>1, <1>2, <1>3, PTL DEF Spec, ImplementsVersionStore
=============================================================================
