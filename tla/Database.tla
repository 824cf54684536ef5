------------------------------ MODULE Database ------------------------------
(***************************************************************************)
(* The state database of the agent manager (pi/src/state/sng_file.cpp and  *)
(* sng_database.cpp): agents, each a tree of nodes with values, of which   *)
(* snapshots are saved into a file that is only appended to.               *)
(*                                                                         *)
(* The file is a row of blocks of records.  The block that is being filled *)
(* is kept in memory and written when it is full or at flush().  A header  *)
(* in each block has the place of the last snapshot in it, if there is     *)
(* one; opening the file looks for it from the end and goes on from there. *)
(*                                                                         *)
(* Nodes, agents and snapshots are written below each other, and each      *)
(* object in memory has the place of its record, or 0 when it has changed  *)
(* since.  Saving writes what has changed, children first.                 *)
(*                                                                         *)
(* A place is a number: the records of block b have b * Cap + 1 to         *)
(* b * Cap + Cap, whatever their sizes; 0 is no place.                     *)
(***************************************************************************)
EXTENDS Integers, Sequences, FiniteSets, SequencesExt, Functions

CONSTANTS Paths,      \* the nodes a tree may have: sequences of child numbers
          Order,      \* Paths, children before their parents
          Values,     \* values of nodes
          NoValue,    \* that of a node nobody has set
          Names,      \* addresses of agents
          Types,      \* of agents
          Objs,       \* agent objects in memory
          Cap,        \* records to a block
          MaxEdits, MaxSaves, MaxStops, MaxFailures   \* bounds

ASSUME PathsAssumption ==
  /\ Paths \subseteq Seq(Nat) /\ Order \in Seq(Paths)
  /\ <<>> \in Paths /\ \A p \in Paths \ {<<>>} : Front(p) \in Paths
  /\ Range(Order) = Paths /\ Len(Order) = Cardinality(Paths)
  /\ \A i, k \in DOMAIN Order : IsPrefix(Order[i], Order[k]) => k <= i
ASSUME SizesAssumption ==
  /\ Cap \in Nat \ {0} /\ IsFiniteSet(Objs)
  /\ NoValue \in Values /\ 0 \in Types
  /\ {MaxEdits, MaxSaves, MaxStops, MaxFailures} \subseteq Nat

VARIABLES
  disk,      \* the file: a sequence of blocks
  isopen,
  wblk,      \* wblk_: the block that is being filled
  wbuf,      \* wbuffer_: its records and the mark of a snapshot
  cpos,      \* cpos_: the last snapshot
  obj,       \* the agent objects in memory
  agents,    \* those in the trunk snapshot: agents_
  cut,       \* history: see RootAhead
  left       \* what is left of the bounds

fileVars == <<disk, wblk, wbuf, cpos>>
vars == <<fileVars, isopen, obj, agents, cut, left>>

-----------------------------------------------------------------------------
(* The file.                                                                *)

NoPlace == 0
BlockOf(p) == (p - 1) \div Cap
SlotOf(p) == ((p - 1) % Cap) + 1

EmptyBlock == [recs |-> <<>>, chk |-> 0]

\* The file as an operation changes it: room is the number of writes that
\* still succeed, ok is FALSE once one has failed.
Here(room) == [disk |-> disk, wblk |-> wblk, wbuf |-> wbuf, cpos |-> cpos,
               room |-> room, ok |-> TRUE]

\* read_payload()
At(f, p) == IF BlockOf(p) = f.wblk THEN f.wbuf.recs[SlotOf(p)]
                                   ELSE f.disk[BlockOf(p) + 1].recs[SlotOf(p)]

\* flush() when there is something to write: the block goes to its place,
\* over an old one if there is one.  A write that fails throws, and changes
\* nothing.
Flushed(f) ==
  IF f.room = 0 THEN [f EXCEPT !.ok = FALSE]
  ELSE [f EXCEPT !.disk = IF f.wblk < Len(f.disk)
                            THEN [@ EXCEPT ![f.wblk + 1] = f.wbuf]
                            ELSE Append(@, f.wbuf),
                 !.wblk = @ + 1, !.wbuf = EmptyBlock, !.room = @ - 1]

\* The place of the last record, and that of the next if it needs no flush.
LastPlace(f) == f.wblk * Cap + Len(f.wbuf.recs)
NextPlace(f) == LastPlace(f) + 1

\* write_payload(): a full block is flushed before the record is added.  The
\* record of a snapshot is marked in the header, and is the last snapshot.
Written(f, rec, checkpoint) ==
  LET g == IF Len(f.wbuf.recs) = Cap THEN Flushed(f) ELSE f
  IN  IF ~g.ok THEN g
      ELSE [g EXCEPT !.wbuf.recs = Append(@, rec),
                     !.wbuf.chk = IF checkpoint THEN Len(g.wbuf.recs) + 1 ELSE @,
                     !.cpos = IF checkpoint THEN NextPlace(g) ELSE @]

\* What opening the file finds on a disk: the last block with a mark.
Marked(d) == {b \in DOMAIN d : d[b].chk # 0}
FoundBlocks(d) == IF Marked(d) = {} THEN 0 ELSE Max(Marked(d))
FoundPlace(d) == IF Marked(d) = {} THEN NoPlace
                 ELSE (FoundBlocks(d) - 1) * Cap + d[FoundBlocks(d)].chk

-----------------------------------------------------------------------------
(* Agents and their trees in memory.                                        *)

\* f with x mapped to y.
With(f, x, y) == [z \in DOMAIN f \cup {x} |-> IF z = x THEN y ELSE f[z]]

Kids(t, p) == {q \in DOMAIN t : q # <<>> /\ Front(q) = p}

NewNode == [val |-> NoValue, pos |-> NoPlace]
NewAgent(name, type) == [name |-> name, type |-> type, pos |-> NoPlace,
                         chk |-> NoPlace, tree |-> [p \in {<<>>} |-> NewNode]]

\* load1__() and load2__() of a node and of all that are below it: the place
\* of a path is found from the record of its parent.  (The code reads a node's
\* children when they are asked for; records do not change in between.)
TreeAt(f, place) ==
  LET placeOf[p \in Paths] ==
        IF p = <<>> THEN place
        ELSE LET parent == placeOf[Front(p)]
             IN  IF parent = NoPlace \/ Last(p) \notin DOMAIN At(f, parent).kids
                   THEN NoPlace ELSE At(f, parent).kids[Last(p)]
  IN  [p \in {q \in Paths : placeOf[q] # NoPlace} |->
         [val |-> At(f, placeOf[p]).val, pos |-> placeOf[p]]]

\* load1__() of an agent: its tree is not there before somebody asks for it.
AgentAt(f, place) == [name |-> At(f, place).name, type |-> At(f, place).type,
                      pos |-> place, chk |-> place, tree |-> <<>>]

\* xagent_t::load__()
IsLoaded(a) == DOMAIN a.tree # {}
Loaded(f, a) == IF IsLoaded(a) THEN a
                ELSE [a EXCEPT !.tree = TreeAt(f, At(f, a.pos).root)]

IsDirty(a) == a.pos = NoPlace \/ (IsLoaded(a) /\ a.tree[<<>>].pos = NoPlace)

\* Mutant of Dirtied: the node alone is marked, not what is above it.
DirtiedAlone(t, p) ==
  [q \in DOMAIN t |-> IF q = p THEN [t[q] EXCEPT !.pos = NoPlace] ELSE t[q]]

\* dirty(): the node and all above it have to be written again.
Dirtied(t, p) ==
  [q \in DOMAIN t |-> IF IsPrefix(q, p) THEN [t[q] EXCEPT !.pos = NoPlace]
                                        ELSE t[q]]

\* get_child(), which makes the node if there is none, and set_data().
WithValue(t, p, v) ==
  IF p \in DOMAIN t /\ t[p].val = v THEN t
  ELSE Dirtied(With(t, p, [val |-> v, pos |-> NoPlace]), p)

\* erase_child(), or erase() of the node.
Without(t, p) ==
  Restrict(Dirtied(t, Front(p)), {q \in DOMAIN t : ~IsPrefix(p, q)})

\* A tree as copy() leaves it: the nodes are new.
Copied(t) == [p \in DOMAIN t |-> [val |-> t[p].val, pos |-> NoPlace]]

-----------------------------------------------------------------------------
(* Saving.  What a save works on is the file and the objects; when a write  *)
(* fails it goes no further, and what it has done stays.                    *)

\* save__() of a node whose children have been saved.
SaveNode(s, o, p) ==
  LET t == s.obj[o].tree
      kids == [c \in {Last(q) : q \in Kids(t, p)} |-> t[Append(p, c)].pos]
      f == Written(s.file, [val |-> t[p].val, kids |-> kids], FALSE)
  IN  IF ~f.ok THEN [s EXCEPT !.file = f]
      ELSE [s EXCEPT !.file = f, !.obj[o].tree[p].pos = LastPlace(f)]

\* The unsaved nodes, in an order, as long as writing succeeds.
SaveNodes(s, o, order, unsaved) ==
  LET saved[i \in 0..Len(order)] ==
        IF i = 0 THEN s
        ELSE LET r == saved[i - 1]
             IN  IF r.file.ok /\ order[i] \in unsaved
                   THEN SaveNode(r, o, order[i]) ELSE r
  IN  saved[Len(order)]

Unsaved(t, top) == {p \in DOMAIN t : t[p].pos = NoPlace /\ IsPrefix(top, p)}

\* Mutant of SaveTree: parents are written before their children.
SaveTreeTopDown(s, o, top) ==
  SaveNodes(s, o, Reverse(Order), Unsaved(s.obj[o].tree, top))

\* save() of a node: what has changed below it and itself, children first.
SaveTree(s, o, top) == SaveNodes(s, o, Order, Unsaved(s.obj[o].tree, top))

\* xagent_t::save()
SaveAgent(s0, o) ==
  LET s == [s0 EXCEPT !.obj[o] = Loaded(s0.file, @)]
      r == SaveTree(s, o, <<>>)
      a == r.obj[o]
      f == Written(r.file, [name |-> a.name, type |-> a.type,
                            root |-> a.tree[<<>>].pos], FALSE)
  IN  IF ~IsDirty(s.obj[o]) THEN s
      ELSE IF ~r.file.ok THEN r
      ELSE IF ~f.ok THEN [r EXCEPT !.file = f]
      ELSE [r EXCEPT !.file = f, !.obj[o].pos = LastPlace(f)]

SaveAgents(s, order) ==
  LET saved[i \in 0..Len(order)] ==
        IF i = 0 THEN s
        ELSE LET r == saved[i - 1]
             IN  IF r.file.ok THEN SaveAgent(r, order[i]) ELSE r
  IN  saved[Len(order)]

\* xsnapshot_t::save(): the agents, in the order of their addresses in
\* memory, then the snapshot, with the place of the one before.
SaveSnapshot(s, order) ==
  LET r == SaveAgents(s, order)
  IN  IF ~r.file.ok THEN r
      ELSE [r EXCEPT !.file =
              Written(@, [prev |-> s.file.cpos,
                          agents |-> {r.obj[o].pos : o \in agents}], TRUE)]

\* What a save starts from.  It writes at most Ample blocks.
Ample == (Cardinality(Objs) * (Cardinality(Paths) + 1) + 1) \div Cap + 1
Rooms == IF left.failures > 0 THEN 0..Ample ELSE {Ample}
Saving(room) == [file |-> Here(room), obj |-> obj]

-----------------------------------------------------------------------------
(* Steps.                                                                   *)

Init == /\ disk = <<>> /\ isopen = FALSE
        /\ wblk = 0 /\ wbuf = EmptyBlock /\ cpos = NoPlace
        /\ obj = <<>> /\ agents = {} /\ cut = FALSE
        /\ left = [edits |-> MaxEdits, saves |-> MaxSaves,
                   stops |-> MaxStops, failures |-> MaxFailures]

Live == DOMAIN obj
Free == Objs \ Live
Spend(kind) == left[kind] > 0 /\ left' = [left EXCEPT ![kind] = @ - 1]

SetFile(f) == /\ disk' = f.disk /\ wblk' = f.wblk
              /\ wbuf' = f.wbuf /\ cpos' = f.cpos

\* The agents of a snapshot as new objects.
LoadAgents(f, place) ==
  LET places == IF place = NoPlace THEN {} ELSE At(f, place).agents
  IN  \E new \in Injection(places, Free) :
        /\ agents' = Range(new)
        /\ obj' = [o \in Range(new) |-> AgentAt(f, AntiFunction(new)[o])]

\* Mutant of Open: writing goes on with the block that has the snapshot.
OpenSameBlock ==
  /\ ~isopen /\ isopen' = TRUE
  /\ cpos' = FoundPlace(disk)
  /\ wblk' = IF FoundBlocks(disk) = 0 THEN 0 ELSE FoundBlocks(disk) - 1
  /\ wbuf' = EmptyBlock
  /\ LoadAgents([Here(0) EXCEPT !.wblk = Len(disk)], FoundPlace(disk))
  /\ UNCHANGED <<disk, cut, left>>

\* xfile_t::xfile_t(), and get_trunk() with load__() of the snapshot, which
\* the agent manager does at once.
Open ==
  /\ ~isopen /\ isopen' = TRUE
  /\ cpos' = FoundPlace(disk) /\ wblk' = FoundBlocks(disk)
  /\ wbuf' = EmptyBlock
  /\ LoadAgents([Here(0) EXCEPT !.wblk = Len(disk)], FoundPlace(disk))
  /\ UNCHANGED <<disk, cut, left>>

\* create_sink(), which is get_agent_address() of a name that is not there.
Sink(name) ==
  /\ isopen /\ Spend("edits")
  /\ \A o \in agents : obj[o].name # name
  /\ \E o \in Free : /\ obj' = With(obj, o, NewAgent(name, 0))
                     /\ agents' = agents \cup {o}
  /\ UNCHANGED <<fileVars, isopen, cut>>

\* The tree of an agent, which is loaded for every operation on it, and the
\* agent with another one.
Tree(o) == Loaded(Here(0), obj[o]).tree

ChangeTree(o, tree) ==
  /\ isopen /\ Spend("edits")
  /\ obj' = [obj EXCEPT ![o] = [Loaded(Here(0), @) EXCEPT !.tree = tree]]
  /\ UNCHANGED <<fileVars, isopen, agents, cut>>

Edit(o, p, v) == /\ p = <<>> \/ Front(p) \in DOMAIN Tree(o)
                 /\ ChangeTree(o, WithValue(Tree(o), p, v))

Erase(o, p) == /\ p # <<>> /\ p \in DOMAIN Tree(o)
               /\ ChangeTree(o, Without(Tree(o), p))

\* copy() of another agent's tree over a root: what was there goes.
Copy(o, src) == o # src /\ ChangeTree(o, Copied(Tree(src)))

\* xagent_t::set_type(): the agent's record has to be written again.
SetType(o, type) ==
  /\ isopen /\ Spend("edits")
  /\ obj' = [obj EXCEPT ![o] = [Loaded(Here(0), @) EXCEPT !.type = type,
                                                          !.pos = NoPlace]]
  /\ UNCHANGED <<fileVars, isopen, agents, cut>>

\* xagent_t::checkpoint(): another object, as of the checkpoint.
Checkpoint(o) ==
  /\ isopen /\ Spend("edits")
  /\ LET a == IF obj[o].chk = NoPlace THEN NewAgent(obj[o].name, obj[o].type)
              ELSE AgentAt(Here(0), obj[o].chk)
     IN  \E c \in Free : obj' = With(obj, c, a)
  /\ UNCHANGED <<fileVars, isopen, agents, cut>>

\* Mutant of SetAgent: beside one of the same name.
SetAgentBeside(o) ==
  /\ isopen /\ o \notin agents /\ Spend("edits")
  /\ agents' = agents \cup {o}
  /\ UNCHANGED <<fileVars, isopen, obj, cut>>

\* xsnapshot_t::set_agent(): in the place of one of the same name.
SetAgent(o) ==
  /\ isopen /\ o \notin agents /\ Spend("edits")
  /\ agents' = {a \in agents : obj[a].name # obj[o].name} \cup {o}
  /\ UNCHANGED <<fileVars, isopen, obj, cut>>

EraseAgent(o) ==
  /\ isopen /\ o \in agents /\ Spend("edits")
  /\ agents' = agents \ {o}
  /\ UNCHANGED <<fileVars, isopen, obj, cut>>

\* The last reference to an agent outside the trunk goes.
Drop(o) ==
  /\ isopen /\ o \notin agents
  /\ obj' = Restrict(obj, Live \ {o})
  /\ UNCHANGED <<fileVars, isopen, agents, cut, left>>

\* The root of an agent has been written again, and the agent's record, that
\* has the place of its root, has not: a save was cut short between the two,
\* or was a snapshot() of the root.  isdirty() does not see this, and the
\* change stays out of what is saved until there is another.
RootAhead(s) ==
  \E o \in Live : /\ obj[o].pos # NoPlace /\ s.obj[o].pos = obj[o].pos
                 /\ IsDirty(obj[o]) /\ ~IsDirty(s.obj[o])

\* What a save leaves behind, whole or cut short.
Saved(s) ==
  /\ isopen /\ left.saves > 0
  /\ cut' = (cut \/ RootAhead(s))
  /\ left' = [left EXCEPT !.saves = @ - 1,
                          !.failures = IF s.file.ok THEN @ ELSE @ - 1]
  /\ SetFile(s.file) /\ obj' = s.obj
  /\ UNCHANGED <<isopen, agents>>

\* xagent_t::set_checkpoint()
SetCheckpoint(o) ==
  \E room \in Rooms :
    LET s == SaveAgent(Saving(room), o)
    IN  Saved(IF s.file.ok THEN [s EXCEPT !.obj[o].chk = s.obj[o].pos] ELSE s)

\* snapshot() of a node, whose result is a node of its own.
SnapshotNode(o, p) ==
  /\ p \in DOMAIN obj[o].tree
  /\ \E room \in Rooms : Saved(SaveTree(Saving(room), o, p))

SaveTrunk == \E room \in Rooms, order \in SetToSeqs(agents) :
               Saved(SaveSnapshot(Saving(room), order))

\* flush().  The first block has a longer header, for which it is written
\* even if it is empty.
ToWrite == wbuf.recs # <<>> \/ wblk = 0

Flush ==
  /\ isopen /\ ToWrite
  /\ SetFile(Flushed(Here(1)))
  /\ UNCHANGED <<isopen, obj, agents, cut, left>>

\* The program ends; what was in memory is lost.
Gone ==
  /\ isopen /\ isopen' = FALSE /\ Spend("stops")
  /\ wblk' = 0 /\ wbuf' = EmptyBlock /\ cpos' = NoPlace
  /\ obj' = <<>> /\ agents' = {} /\ UNCHANGED cut

Close == Gone /\ disk' = IF ToWrite THEN Flushed(Here(1)).disk ELSE disk
Crash == Gone /\ UNCHANGED disk

Next ==
  \/ Open \/ Flush \/ Close \/ Crash \/ SaveTrunk
  \/ \E name \in Names : Sink(name)
  \/ \E o \in Live :
       \/ \E p \in Paths : \/ \E v \in Values : Edit(o, p, v)
                           \/ Erase(o, p) \/ SnapshotNode(o, p)
       \/ \E src \in Live : Copy(o, src)
       \/ \E type \in Types : SetType(o, type)
       \/ Checkpoint(o) \/ SetCheckpoint(o)
       \/ SetAgent(o) \/ EraseAgent(o) \/ Drop(o)

Spec == Init /\ [][Next]_vars

-----------------------------------------------------------------------------
(* Properties.                                                              *)

\* The state is well-formed: the trunk's agents are objects in memory, each
\* name is there once, a tree has the parents of its nodes, places are those
\* of records, and no block is longer than it may be.
TypeOK ==
  /\ isopen \in BOOLEAN /\ wblk \in 0..Len(disk) /\ cpos \in Nat
  /\ \A b \in Range(disk) \cup {wbuf} :
       /\ Len(b.recs) <= Cap /\ b.chk \in 0..Len(b.recs)
  /\ Live \subseteq Objs /\ agents \subseteq Live
  /\ \A o \in Live :
       LET t == obj[o].tree
       IN  /\ obj[o].name \in Names /\ obj[o].type \in Types
           /\ {obj[o].pos, obj[o].chk} \subseteq 0..LastPlace(Here(0))
           /\ DOMAIN t \subseteq Paths
           /\ \A p \in DOMAIN t : /\ t[p].val \in Values
                                  /\ t[p].pos \in 0..LastPlace(Here(0))
                                  /\ p # <<>> => Front(p) \in DOMAIN t
  /\ \A o, a \in agents : obj[o].name = obj[a].name => o = a

\* What an object that says that it has not changed was read from or saved to
\* is what it is now: a node's record has its value, its children and the
\* places they have, an agent's record its name, its type and its root.  If
\* not, the next version would have an old value (xnode_t::dirty(), save()).
\* Except after what RootAhead describes.
CleanMeansSaved ==
  isopen /\ ~cut => \A o \in Live :
    LET a == obj[o]
    IN  /\ \A p \in DOMAIN a.tree : a.tree[p].pos # NoPlace =>
             At(Here(0), a.tree[p].pos) =
               [val |-> a.tree[p].val,
                kids |-> [c \in {Last(q) : q \in Kids(a.tree, p)} |->
                            a.tree[Append(p, c)].pos]]
        /\ ~IsDirty(a) =>
             LET r == At(Here(0), a.pos)
             IN  /\ r.name = a.name /\ r.type = a.type
                 /\ IsLoaded(a) => r.root = a.tree[<<>>].pos

-----------------------------------------------------------------------------
(* Versions, and what is kept of them.                                      *)

\* The file as it is on the disk.
OnDisk == [Here(0) EXCEPT !.wblk = Len(disk)]

\* The places of the snapshots from the first to the one at a place.  Each
\* was written behind the one before it.
HistoryTo(f, place) ==
  LET history[p \in 0..place] ==
        IF p = NoPlace THEN <<>>
        ELSE LET prev == At(f, p).prev
             IN  IF prev \in 0..(p - 1) THEN Append(history[prev], p) ELSE <<>>
  IN  history[place]

Content(f, a) == LET t == Loaded(f, a).tree
                 IN  [name |-> a.name, type |-> a.type,
                      tree |-> [p \in DOMAIN t |-> t[p].val]]

AgentsAt(f, place) == {AgentAt(f, p) : p \in At(f, place).agents}
DocumentAt(f, place) == {Content(f, a) : a \in AgentsAt(f, place)}
VersionsAt(f, place) == LET h == HistoryTo(f, place)
                        IN  [i \in DOMAIN h |-> DocumentAt(f, h[i])]

\* The places that the snapshot at a place needs, and those before it.
NeededBy(f, place) ==
  UNION {{p} \cup UNION {{a.pos} \cup {n.pos : n \in Range(Loaded(f, a).tree)} :
                           a \in AgentsAt(f, p)} :
           p \in Range(HistoryTo(f, place))}

\* What opening the file would find, should the program end now, is complete
\* in blocks that will not be written again, neither by the program that has
\* the file open nor by the next, which goes on behind the block with the last
\* mark (xfile_t::xfile_t(), flush()).
FoundIsKept ==
  LET kept == FoundBlocks(disk)
  IN  /\ isopen => kept <= wblk
      /\ \A p \in NeededBy(OnDisk, FoundPlace(disk)) : BlockOf(p) < kept

Documents ==
  SUBSET [name : Names, type : Types,
          tree : UNION {[D -> Values] : D \in SUBSET Paths}]

Promise == INSTANCE VersionStore WITH
  Documents <- Documents, EmptyDocument <- {},
  doc <- {Content(Here(0), obj[o]) : o \in agents},
  versions <- IF isopen THEN VersionsAt(Here(0), cpos)
                        ELSE VersionsAt(OnDisk, FoundPlace(disk)),
  durable <- Len(HistoryTo(OnDisk, FoundPlace(disk))),
  up <- isopen

\* The file with its lazily loaded, partly written and partly forgotten trees
\* is a row of versions: saving appends what the document is, no operation
\* changes an earlier version, and a program that ends leaves a prefix, from
\* which the next goes on.  (get_trunk(), save(), previous().)  Except after what
\* RootAhead describes.
ImplementsVersionStore ==
  Promise!VSInit /\ [][~cut' => Promise!VSNext]_(Promise!vsVars)
=============================================================================
