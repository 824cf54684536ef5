--------------------------- MODULE BkernelProofs ----------------------------
(***************************************************************************)
(* For any users, names and slots, and any periods: the counts of the bus  *)
(* are exact, what a thread has counted is there when it is used (but for  *)
(* the two exceptions that NobodyDangles names), every live group has      *)
(* joined on every device, and a group's packets follow what other         *)
(* processes announce.                                                     *)
(***************************************************************************)
EXTENDS Bkernel, FiniteSetTheorems, WellFoundedInduction, TLAPS

WithEndpoint == {"announce", "route", "open", "closing", "write"}

\* Devices that somebody may have counted: one more than the table has while
\* one is removed.
Countable == DevicesThere \cup ({gone.dev} \ {None})

PlacesOf(t) ==
  IF t = Net THEN {"idle", "announce", "route", "data", "hear", "heard", "adding", "removing"}
  ELSE IF t = Ticker THEN {"idle", "announce", "route", "expire", "account"}
  ELSE WithEndpoint \cup {"idle", "join", "slot"}

\* Which part of a thread's record is in use at which place.
Shape(t) ==
  /\ loc[t].at \in PlacesOf(t)
  /\ loc[t].eps # {} => loc[t].at \in {"write", "data"}
  /\ loc[t].devs # {} => loc[t].at \in {"join", "route", "write"}
  /\ loc[t].groups # {} => loc[t].at \in {"route", "adding"}
  /\ loc[t].dead # {} => loc[t].at = "route"
  /\ loc[t].lost \subseteq loc[t].dead
  /\ loc[t].g # None <=> \/ loc[t].at \in {"join", "slot", "write", "hear", "heard"}
                         \/ t = Net /\ loc[t].at \in {"announce", "route"}

\* What a thread has counted is there; a group is dead only if it was at the
\* time.
Held(t) ==
  /\ loc[t].groups \ loc[t].lost \subseteq GroupsThere
  /\ (loc[t].groups \ loc[t].lost) \ Live \subseteq loc[t].dead
  /\ loc[t].g # None => loc[t].g \in Live
  /\ loc[t].eps \subseteq EndpointsThere
  /\ loc[t].devs \subseteq Countable
  /\ t = Net /\ loc[t].at \in {"hear", "adding"} => loc[t].h \in DevicesThere

\* A user's endpoint is in its group until it is closed.
Linked(u) ==
  /\ loc[u].at \in WithEndpoint => loc[u].h \in EndpointsThere
  /\ loc[u].at \in WithEndpoint \ {"closing"} =>
       /\ etab[loc[u].h].group \in Live
       /\ loc[u].h \in gtab[etab[loc[u].h].group].eps
  /\ loc[u].at = "closing" => etab[loc[u].h].group = None
  /\ loc[u].at = "write" => loc[u].g = etab[loc[u].h].group

Sound(t) == Shape(t) /\ Held(t) /\ (t \in Users => Linked(t))

\* Every user has an endpoint of its own.
Distinct ==
  \A u, v \in Users :
    loc[u].at \in WithEndpoint /\ loc[v].at \in WithEndpoint /\ u # v => loc[u].h # loc[v].h

Members ==
  \A g \in GroupsThere : \A h \in gtab[g].eps : h \in EndpointsThere /\ etab[h].group = g

Masks ==
  /\ gone.dev \notin DevicesThere
  /\ gone.dev # None <=> loc[Net].at = "removing"
  /\ \A g \in GroupsThere : gtab[g].attachs \subseteq Countable
  /\ \A g \in Live : gtab[g].devs \cup gtab[g].acc \cup gtab[g].attachs \subseteq DevicesThere

Joined ==
  \A g \in Live, d \in DevicesThere :
    \/ d \in gtab[g].attachs
    \/ loc[Net].at = "adding" /\ loc[Net].h = d /\ g \in loc[Net].groups

\* Dead groups are freed before the ticker goes on.
Buried == loc[Ticker].at # "expire" => GroupsThere = Live

\* The announcement periods that have been accounted for since the last time
\* that the devices were replaced.
Phase ==
  IF loc[Ticker].at \in {"expire", "account"}
  THEN IF divider = 0 THEN 2 * Life - 1 ELSE divider - 1
  ELSE divider

Routed ==
  \A g \in Live, d \in Devices :
    /\ d \in gtab[g].acc <=> since[g][d] <= Phase
    /\ d \in gtab[g].devs <=> since[g][d] <= 2 * Life + Phase
    /\ d \notin DevicesThere => since[g][d] = Forgotten

\* The parts of CountsExact.
EpsUsers(h) == {t \in Threads : h \in loc[t].eps}
DevUsers(d) == {t \in Threads : d \in loc[t].devs}
GroupUsers(g) == {t \in Threads : g \in loc[t].groups \ loc[t].lost}
Owners(g) == {t \in Threads : loc[t].at # "write" /\ loc[t].g = g}
DeadAt(d) == {g \in GroupsThere \ Live : d \in gtab[g].attachs}
One(b) == IF b THEN 1 ELSE 0
Adding(d) == One(loc[Net].at = "adding" /\ loc[Net].h = d)
InUse(d) == IF d = gone.dev THEN gone.inuse ELSE dtab[d].inuse

EpsCounts == \A h \in EndpointsThere : etab[h].inuse = Cardinality(EpsUsers(h))
DevCounts == \A d \in Countable :
  InUse(d) = Cardinality(DevUsers(d)) + Cardinality(DeadAt(d)) + Adding(d)
GroupCounts == \A g \in GroupsThere :
  gtab[g].inuse = kept[g] + Cardinality(GroupUsers(g)) + Cardinality(Owners(g))

Core ==
  /\ \A t \in Threads : Sound(t)
  /\ Distinct /\ Members /\ Masks /\ Joined /\ Buried /\ Routed
  /\ EpsCounts /\ DevCounts /\ GroupCounts

Inv == TypeOK /\ (up => Core)

-----------------------------------------------------------------------------
(* Counting.                                                                *)

LEMMA CountType ==
  ASSUME NEW A \in SUBSET Threads
  PROVE  IsFiniteSet(A) /\ Cardinality(A) \in Nat
<1>1. IsFiniteSet({Ticker, Net})
  <2>1. IsFiniteSet({Ticker} \cup {Net})
    BY FS_Singleton, FS_Union
  <2>. QED  BY <2>1, {Ticker, Net} = {Ticker} \cup {Net}
<1>2. IsFiniteSet(Threads)
  BY <1>1, SlotsAssumption, FS_Union DEF Threads
<1>. QED  BY <1>2, FS_Subset, FS_CardinalityType

\* If one thread enters or leaves a set, or neither, the count follows.
LEMMA CountMoves ==
  ASSUME NEW t \in Threads, NEW A \in SUBSET Threads, NEW B \in SUBSET Threads,
         \A u \in Threads \ {t} : u \in A <=> u \in B
  PROVE  Cardinality(B) = Cardinality(A) + One(t \in B) - One(t \in A)
<1>1. Cardinality(A) \in Nat /\ Cardinality(B) \in Nat /\ IsFiniteSet(A) /\ IsFiniteSet(B)
  BY CountType
<1>2. CASE t \in A <=> t \in B
  <2>1. A = B
    BY <1>2
  <2>. QED  BY <1>1, <2>1 DEF One
<1>3. CASE t \in B /\ t \notin A
  <2>1. B = A \cup {t}
    BY <1>3
  <2>. QED  BY <1>1, <1>3, <2>1, FS_AddElement DEF One
<1>4. CASE t \in A /\ t \notin B
  <2>1. A = B \cup {t}
    BY <1>4
  <2>2. Cardinality(A) = Cardinality(B) + 1
    BY <1>1, <1>4, <2>1, FS_AddElement
  <2>. QED  BY <1>1, <1>4, <2>2 DEF One
<1>. QED  BY <1>2, <1>3, <1>4

\* Somebody who is in a set counts.
LEMMA CountPositive ==
  ASSUME NEW A \in SUBSET Threads, NEW t \in A
  PROVE  Cardinality(A) > 0
  BY CountType, FS_EmptySet

LEMMA UsersType ==
  /\ \A i : /\ EpsUsers(i) \in SUBSET Threads /\ DevUsers(i) \in SUBSET Threads
            /\ GroupUsers(i) \in SUBSET Threads /\ Owners(i) \in SUBSET Threads
  /\ \A i : /\ Cardinality(EpsUsers(i)) \in Nat /\ Cardinality(DevUsers(i)) \in Nat
            /\ Cardinality(GroupUsers(i)) \in Nat /\ Cardinality(Owners(i)) \in Nat
<1>1. \A i : /\ EpsUsers(i) \in SUBSET Threads /\ DevUsers(i) \in SUBSET Threads
             /\ GroupUsers(i) \in SUBSET Threads /\ Owners(i) \in SUBSET Threads
  BY DEF EpsUsers, DevUsers, GroupUsers, Owners
<1>. QED  BY <1>1, CountType

\* Where only one thread moves, a count changes by what the thread does.
LEMMA UsersMove ==
  ASSUME NEW t \in Threads, \A u \in Threads \ {t} : loc'[u] = loc[u]
  PROVE  \A i :
    /\ Cardinality(EpsUsers(i)') =
         Cardinality(EpsUsers(i)) + One(i \in loc'[t].eps) - One(i \in loc[t].eps)
    /\ Cardinality(DevUsers(i)') =
         Cardinality(DevUsers(i)) + One(i \in loc'[t].devs) - One(i \in loc[t].devs)
    /\ Cardinality(GroupUsers(i)') =
         Cardinality(GroupUsers(i)) + One(i \in loc'[t].groups \ loc'[t].lost)
                                    - One(i \in loc[t].groups \ loc[t].lost)
    /\ Cardinality(Owners(i)') =
         Cardinality(Owners(i)) + One(loc'[t].at # "write" /\ loc'[t].g = i)
                                - One(loc[t].at # "write" /\ loc[t].g = i)
<1>. TAKE i
<1>1. /\ EpsUsers(i)' \in SUBSET Threads /\ DevUsers(i)' \in SUBSET Threads
      /\ GroupUsers(i)' \in SUBSET Threads /\ Owners(i)' \in SUBSET Threads
  BY DEF EpsUsers, DevUsers, GroupUsers, Owners
<1>2. \A u \in Threads \ {t} :
        /\ u \in EpsUsers(i) <=> u \in EpsUsers(i)'
        /\ u \in DevUsers(i) <=> u \in DevUsers(i)'
        /\ u \in GroupUsers(i) <=> u \in GroupUsers(i)'
        /\ u \in Owners(i) <=> u \in Owners(i)'
  BY DEF EpsUsers, DevUsers, GroupUsers, Owners
<1>3. /\ t \in EpsUsers(i) <=> i \in loc[t].eps
      /\ t \in EpsUsers(i)' <=> i \in loc'[t].eps
      /\ t \in DevUsers(i) <=> i \in loc[t].devs
      /\ t \in DevUsers(i)' <=> i \in loc'[t].devs
      /\ t \in GroupUsers(i) <=> i \in loc[t].groups \ loc[t].lost
      /\ t \in GroupUsers(i)' <=> i \in loc'[t].groups \ loc'[t].lost
      /\ t \in Owners(i) <=> loc[t].at # "write" /\ loc[t].g = i
      /\ t \in Owners(i)' <=> loc'[t].at # "write" /\ loc'[t].g = i
  BY DEF EpsUsers, DevUsers, GroupUsers, Owners
<1>4. /\ Cardinality(EpsUsers(i)') =
           Cardinality(EpsUsers(i)) + One(t \in EpsUsers(i)') - One(t \in EpsUsers(i))
      /\ Cardinality(DevUsers(i)') =
           Cardinality(DevUsers(i)) + One(t \in DevUsers(i)') - One(t \in DevUsers(i))
  BY <1>1, <1>2, UsersType, CountMoves
<1>5. /\ Cardinality(GroupUsers(i)') =
           Cardinality(GroupUsers(i)) + One(t \in GroupUsers(i)') - One(t \in GroupUsers(i))
      /\ Cardinality(Owners(i)') =
           Cardinality(Owners(i)) + One(t \in Owners(i)') - One(t \in Owners(i))
  BY <1>1, <1>2, UsersType, CountMoves
<1>. QED  BY <1>3, <1>4, <1>5 DEF One

\* A slot that is taken out of a nonempty set is in it.
LEMMA MinIn ==
  ASSUME NEW S \in SUBSET Nat, IsFiniteSet(S), S # {}
  PROVE  Min(S) \in S
<1>. DEFINE Below(x) == {y \in S : y < x}
            T == {Below(x) : x \in S}
<1>1. T \subseteq FiniteSubsetsOf(S) /\ T # {}
  <2>. SUFFICES ASSUME NEW x \in S
                PROVE  IsFiniteSet(Below(x))
    BY DEF FiniteSubsetsOf
  <2>. QED  BY FS_Subset
<1>2. PICK x \in S : \A y \in S : <<Below(y), Below(x)>> \notin StrictSubsetOrdering(S)
  <2>1. PICK m \in T : \A k \in T : <<k, m>> \notin StrictSubsetOrdering(S)
    BY <1>1, FS_StrictSubsetOrderingWellFounded, WFMin
  <2>. QED  BY <2>1
<1>3. ASSUME NEW y \in S, y < x
      PROVE  FALSE
  <2>1. \A z \in S : z < y => z < x
    <3>1. x \in Nat /\ y \in Nat /\ \A z \in S : z \in Nat
      OBVIOUS
    <3>. QED  BY <1>3, <3>1
  <2>2. Below(y) \subseteq Below(x)
    BY <2>1
  <2>3. y \in Below(x) /\ y \notin Below(y)
    BY <1>3
  <2>. QED  BY <1>2, <2>2, <2>3 DEF StrictSubsetOrdering
<1>4. \A y \in S : x <= y
  BY <1>3
<1>. QED  BY <1>4 DEF Min

-----------------------------------------------------------------------------
(* Tables.                                                                  *)

\* What the tables say apart from in_use.
Alike(q, r) ==
  /\ q.name = r.name /\ q.eps = r.eps /\ q.devs = r.devs /\ q.acc = r.acc
  /\ q.attachs = r.attachs /\ q.dead = r.dead
SameGroups ==
  /\ gtab' \in [Groups -> GroupRecords \cup {NoGroup}]
  /\ GroupsThere' = GroupsThere /\ Live' = Live
  /\ \A g \in GroupsThere : Alike(gtab'[g], gtab[g])
SameEndpoints ==
  /\ etab' \in [Endpoints -> EndpointRecords \cup {NoEndpoint}]
  /\ EndpointsThere' = EndpointsThere
  /\ \A h \in EndpointsThere : etab'[h].group = etab[h].group
SameDevices ==
  /\ dtab' \in [Devices -> DeviceRecords \cup {NoDevice}]
  /\ DevicesThere' = DevicesThere /\ gone' = gone

LEMMA GroupNames ==
  \A r \in GroupRecords : r # NoGroup /\ r.inuse \in Nat
<1>1. NoGroup.name = None
  BY DEF NoGroup
<1>2. \A r \in GroupRecords : r.name # None /\ r.inuse \in Nat
  BY SlotsAssumption DEF GroupRecords, None
<1>. QED  BY <1>1, <1>2

LEMMA EndpointNames ==
  \A r \in EndpointRecords :
    r # NoEndpoint /\ r.inuse \in Nat /\ r.group \in Groups \cup {None}
<1>1. NoEndpoint.inuse \notin Nat
  BY DEF NoEndpoint, None
<1>. QED  BY <1>1 DEF EndpointRecords

LEMMA DeviceNames ==
  \A r \in DeviceRecords : r # NoDevice /\ r.inuse \in Nat
<1>1. NoDevice.inuse \notin Nat
  BY DEF NoDevice, None
<1>. QED  BY <1>1 DEF DeviceRecords

LEMMA TablesType ==
  ASSUME TypeOK
  PROVE  /\ GroupsThere \subseteq Groups /\ Live \subseteq GroupsThere
         /\ \A g \in GroupsThere : gtab[g] \in GroupRecords /\ gtab[g].inuse \in Nat
         /\ EndpointsThere \subseteq Endpoints
         /\ \A h \in EndpointsThere : etab[h] \in EndpointRecords /\ etab[h].inuse \in Nat
         /\ DevicesThere \subseteq Devices
         /\ \A d \in DevicesThere : dtab[d] \in DeviceRecords /\ dtab[d].inuse \in Nat
  BY GroupNames, EndpointNames, DeviceNames
     DEF TypeOK, GroupsThere, Live, EndpointsThere, DevicesThere, EndpointRecords, DeviceRecords

LEMMA GroupRecount ==
  ASSUME NEW r \in GroupRecords, NEW n \in Int, r.inuse + n \in Nat
  PROVE  LET q == [r EXCEPT !.inuse = @ + n]
         IN  q \in GroupRecords /\ Alike(q, r) /\ q.inuse = r.inuse + n
  BY DEF GroupRecords, Alike

LEMMA CountGroups ==
  ASSUME TypeOK, NEW S \in SUBSET GroupsThere, NEW n \in Int, gtab' = Count(gtab, S, n),
         \A g \in S : gtab[g].inuse + n \in Nat
  PROVE  SameGroups /\ \A g \in GroupsThere :
                           gtab'[g].inuse = gtab[g].inuse + IF g \in S THEN n ELSE 0
<1>1. /\ gtab' = [g \in Groups |-> IF g \in S THEN [gtab[g] EXCEPT !.inuse = @ + n] ELSE gtab[g]]
      /\ S \subseteq Groups
  BY TablesType DEF Count, TypeOK
<1>2. ASSUME NEW g \in S
      PROVE  /\ gtab'[g] \in GroupRecords /\ Alike(gtab'[g], gtab[g])
             /\ gtab'[g].inuse = gtab[g].inuse + n
             /\ gtab[g] # NoGroup /\ gtab'[g] # NoGroup
  <2>1. gtab[g] \in GroupRecords /\ gtab'[g] = [gtab[g] EXCEPT !.inuse = @ + n]
    BY <1>1, TablesType
  <2>2. /\ gtab'[g] \in GroupRecords /\ Alike(gtab'[g], gtab[g])
        /\ gtab'[g].inuse = gtab[g].inuse + n
    BY <2>1, GroupRecount
  <2>. QED  BY <2>1, <2>2, GroupNames
<1>3. ASSUME NEW g \in Groups \ S
      PROVE  gtab'[g] = gtab[g] /\ gtab'[g] \in GroupRecords \cup {NoGroup}
  BY <1>1 DEF TypeOK
<1>4. GroupsThere' = GroupsThere
  BY <1>2, <1>3 DEF GroupsThere
<1>5. \A g \in GroupsThere : Alike(gtab'[g], gtab[g])
  BY <1>2, <1>3 DEF GroupsThere, Alike
<1>6. Live' = Live
  BY <1>4, <1>5 DEF Live, Alike
<1>7. \A g \in GroupsThere : gtab'[g].inuse = gtab[g].inuse + IF g \in S THEN n ELSE 0
  BY <1>2, <1>3, TablesType
<1>8. gtab' \in [Groups -> GroupRecords \cup {NoGroup}]
  BY <1>1, <1>2, <1>3
<1>. QED  BY <1>4, <1>5, <1>6, <1>7, <1>8 DEF SameGroups

LEMMA CountEndpoints ==
  ASSUME TypeOK, NEW S \in SUBSET EndpointsThere, NEW n \in Int, etab' = Count(etab, S, n),
         \A h \in S : etab[h].inuse + n \in Nat
  PROVE  SameEndpoints /\ \A h \in EndpointsThere :
                              etab'[h].inuse = etab[h].inuse + IF h \in S THEN n ELSE 0
<1>1. /\ etab' = [h \in Endpoints |-> IF h \in S THEN [etab[h] EXCEPT !.inuse = @ + n] ELSE etab[h]]
      /\ S \subseteq Endpoints
  BY TablesType DEF Count, TypeOK
<1>2. ASSUME NEW h \in S
      PROVE  /\ etab'[h] \in EndpointRecords /\ etab'[h].group = etab[h].group
             /\ etab'[h].inuse = etab[h].inuse + n
             /\ etab[h] # NoEndpoint /\ etab'[h] # NoEndpoint
  <2>1. /\ etab[h] \in EndpointRecords
        /\ etab'[h] = [etab[h] EXCEPT !.inuse = @ + n]
    BY <1>1, TablesType
  <2>2. /\ etab'[h] \in EndpointRecords /\ etab'[h].group = etab[h].group
        /\ etab'[h].inuse = etab[h].inuse + n
    BY <2>1 DEF EndpointRecords
  <2>. QED  BY <2>1, <2>2, EndpointNames
<1>3. ASSUME NEW h \in Endpoints \ S
      PROVE  etab'[h] = etab[h] /\ etab'[h] \in EndpointRecords \cup {NoEndpoint}
  BY <1>1 DEF TypeOK, EndpointRecords
<1>4. EndpointsThere' = EndpointsThere
  BY <1>2, <1>3 DEF EndpointsThere
<1>5. \A h \in EndpointsThere :
        /\ etab'[h].group = etab[h].group
        /\ etab'[h].inuse = etab[h].inuse + IF h \in S THEN n ELSE 0
  BY <1>2, <1>3, TablesType
<1>6. etab' \in [Endpoints -> EndpointRecords \cup {NoEndpoint}]
  BY <1>1, <1>2, <1>3
<1>. QED  BY <1>4, <1>5, <1>6 DEF SameEndpoints

LEMMA CountDevices ==
  ASSUME TypeOK, NEW S \in SUBSET DevicesThere, NEW n \in Int, dtab' = Count(dtab, S, n),
         \A d \in S : dtab[d].inuse + n \in Nat, gone' = gone
  PROVE  SameDevices /\ \A d \in DevicesThere :
                              dtab'[d].inuse = dtab[d].inuse + IF d \in S THEN n ELSE 0
<1>1. /\ dtab' = [d \in Devices |-> IF d \in S THEN [dtab[d] EXCEPT !.inuse = @ + n] ELSE dtab[d]]
      /\ S \subseteq Devices
  BY TablesType DEF Count, TypeOK
<1>2. ASSUME NEW d \in S
      PROVE  /\ dtab'[d] \in DeviceRecords /\ dtab'[d].inuse = dtab[d].inuse + n
             /\ dtab[d] # NoDevice /\ dtab'[d] # NoDevice
  <2>1. dtab[d] \in DeviceRecords /\ dtab'[d] = [dtab[d] EXCEPT !.inuse = @ + n]
    BY <1>1, TablesType
  <2>2. dtab'[d] \in DeviceRecords /\ dtab'[d].inuse = dtab[d].inuse + n
    BY <2>1 DEF DeviceRecords
  <2>. QED  BY <2>1, <2>2, DeviceNames
<1>3. ASSUME NEW d \in Devices \ S
      PROVE  dtab'[d] = dtab[d] /\ dtab'[d] \in DeviceRecords \cup {NoDevice}
  BY <1>1 DEF TypeOK, DeviceRecords
<1>4. DevicesThere' = DevicesThere
  BY <1>2, <1>3 DEF DevicesThere
<1>5. \A d \in DevicesThere : dtab'[d].inuse = dtab[d].inuse + IF d \in S THEN n ELSE 0
  BY <1>2, <1>3, TablesType
<1>6. dtab' \in [Devices -> DeviceRecords \cup {NoDevice}]
  BY <1>1, <1>2, <1>3
<1>. QED  BY <1>4, <1>5, <1>6 DEF SameDevices

\* A table that stays is a special case.
LEMMA NoCount ==
  ASSUME TypeOK
  PROVE  /\ gtab' = gtab => SameGroups /\ \A g \in GroupsThere : gtab'[g].inuse = gtab[g].inuse
         /\ etab' = etab => SameEndpoints /\ \A h \in EndpointsThere : etab'[h].inuse = etab[h].inuse
         /\ dtab' = dtab /\ gone' = gone =>
              SameDevices /\ \A d \in DevicesThere : dtab'[d].inuse = dtab[d].inuse
  BY DEF SameGroups, SameEndpoints, SameDevices, Alike, TypeOK, GroupsThere, Live, EndpointsThere,
         DevicesThere, EndpointRecords, DeviceRecords

LEMMA DeadType ==
  ASSUME TypeOK
  PROVE  \A d : Cardinality(DeadAt(d)) \in Nat /\ Adding(d) \in {0, 1}
<1>1. \A d : DeadAt(d) \subseteq Groups
  BY TablesType DEF DeadAt
<1>. QED  BY <1>1, SlotsAssumption, FS_Subset, FS_CardinalityType DEF Adding, One

\* What a thread has counted is in use.
LEMMA CountedIsInUse ==
  ASSUME TypeOK, Core, NEW t \in Threads
  PROVE  /\ \A h \in loc[t].eps : h \in EndpointsThere /\ etab[h].inuse > 0
         /\ \A d \in loc[t].devs : d \in Countable /\ InUse(d) > 0
         /\ \A d \in loc[t].devs \cap DevicesThere : dtab[d].inuse > 0
         /\ \A g \in loc[t].groups \ loc[t].lost : g \in GroupsThere /\ gtab[g].inuse > 0
         /\ loc[t].g # None /\ loc[t].at # "write" =>
              loc[t].g \in GroupsThere /\ gtab[loc[t].g].inuse > 0
<1>. Sound(t) /\ kept \in [Groups -> Nat]
  BY DEF Core, TypeOK
<1>1. \A h \in loc[t].eps : h \in EndpointsThere /\ etab[h].inuse > 0
  BY UsersType, CountPositive DEF Core, Sound, Held, EpsCounts, EpsUsers
<1>2. \A d \in loc[t].devs : d \in Countable /\ InUse(d) > 0
  <2>. SUFFICES ASSUME NEW d \in loc[t].devs
                PROVE  d \in Countable /\ InUse(d) > 0
    OBVIOUS
  <2>1. Cardinality(DevUsers(d)) > 0 /\ Cardinality(DevUsers(d)) \in Nat
    BY UsersType, CountPositive DEF DevUsers
  <2>2. d \in Countable
    BY DEF Sound, Held
  <2>3. InUse(d) = Cardinality(DevUsers(d)) + Cardinality(DeadAt(d)) + Adding(d)
    BY <2>2 DEF Core, DevCounts
  <2>. QED  BY <2>1, <2>2, <2>3, DeadType
<1>3. \A d \in loc[t].devs \cap DevicesThere : dtab[d].inuse > 0
  BY <1>2 DEF Core, Masks, InUse
<1>4. \A g \in loc[t].groups \ loc[t].lost : g \in GroupsThere /\ gtab[g].inuse > 0
  <2>. SUFFICES ASSUME NEW g \in loc[t].groups \ loc[t].lost
                PROVE  g \in GroupsThere /\ gtab[g].inuse > 0
    OBVIOUS
  <2>1. Cardinality(GroupUsers(g)) > 0
    BY UsersType, CountPositive DEF GroupUsers
  <2>2. g \in GroupsThere /\ kept[g] \in Nat
    BY TablesType DEF Sound, Held
  <2>3. gtab[g].inuse = kept[g] + Cardinality(GroupUsers(g)) + Cardinality(Owners(g))
    BY <2>2 DEF Core, GroupCounts
  <2>. QED  BY <2>1, <2>2, <2>3, UsersType
<1>5. ASSUME loc[t].g # None, loc[t].at # "write"
      PROVE  loc[t].g \in GroupsThere /\ gtab[loc[t].g].inuse > 0
  <2>. DEFINE g == loc[t].g
  <2>1. Cardinality(Owners(g)) > 0
    <3>1. t \in Owners(g)
      BY <1>5 DEF Owners
    <3>. QED  BY <3>1, UsersType, CountPositive
  <2>2. g \in GroupsThere /\ kept[g] \in Nat
    BY <1>5, TablesType DEF Sound, Held
  <2>3. gtab[g].inuse = kept[g] + Cardinality(GroupUsers(g)) + Cardinality(Owners(g))
    BY <2>2 DEF Core, GroupCounts
  <2>. QED  BY <2>1, <2>2, <2>3, UsersType
<1>. QED  BY <1>1, <1>2, <1>3, <1>4, <1>5

-----------------------------------------------------------------------------
(* Steps that change what one thread has counted and nothing else.          *)

Quiet(t) ==
  /\ SameGroups /\ SameEndpoints /\ SameDevices
  /\ loc' \in [Threads -> ThreadRecords]
  /\ \A u \in Threads \ {t} : loc'[u] = loc[u]
  /\ loc'[t].at \notin {"adding", "removing"} /\ loc[t].at \notin {"adding", "removing"}
  /\ loc'[t].at \notin {"expire", "account"} /\ loc[t].at \notin {"expire", "account"}
  /\ UNCHANGED <<divider, up, kept, since>> /\ opens' \in 0 .. MaxOpens
  /\ t \in Users /\ loc'[t].at \in WithEndpoint =>
       loc[t].at \in WithEndpoint /\ loc'[t].h = loc[t].h

Balance(t) ==
  /\ \A h \in EndpointsThere :
       etab'[h].inuse = etab[h].inuse + One(h \in loc'[t].eps) - One(h \in loc[t].eps)
  /\ \A d \in DevicesThere :
       dtab'[d].inuse = dtab[d].inuse + One(d \in loc'[t].devs) - One(d \in loc[t].devs)
  /\ gone.dev # None => (gone.dev \in loc'[t].devs <=> gone.dev \in loc[t].devs)
  /\ \A g \in GroupsThere :
       gtab'[g].inuse = gtab[g].inuse + One(g \in loc'[t].groups \ loc'[t].lost)
                                      - One(g \in loc[t].groups \ loc[t].lost)
                                      + One(loc'[t].at # "write" /\ loc'[t].g = g)
                                      - One(loc[t].at # "write" /\ loc[t].g = g)

\* Threads that do not move stay sound when the tables keep their fields.
LEMMA OthersSound ==
  ASSUME TypeOK, SameGroups, SameEndpoints, SameDevices, NEW u \in Threads, Sound(u), loc'[u] = loc[u]
  PROVE  Sound(u)'
<1>1. Shape(u)'
  BY DEF Sound, Shape
<1>2. Held(u)'
  BY DEF Sound, Held, SameGroups, SameEndpoints, SameDevices, Countable
<1>3. ASSUME u \in Users
      PROVE  Linked(u)'
  <2>1. loc[u].at \in WithEndpoint => etab'[loc[u].h].group = etab[loc[u].h].group
    BY <1>3 DEF Sound, Linked, SameEndpoints
  <2>2. \A g \in Live : gtab'[g].eps = gtab[g].eps
    BY TablesType DEF SameGroups, Alike
  <2>. QED  BY <1>3, <2>1, <2>2 DEF Sound, Linked, SameGroups, SameEndpoints, WithEndpoint
<1>. QED  BY <1>1, <1>2, <1>3 DEF Sound

LEMMA QuietInv ==
  ASSUME TypeOK, Core, NEW t \in Threads, Quiet(t), Balance(t), Sound(t)'
  PROVE  TypeOK' /\ Core'
<1>1. TypeOK'
  BY DEF TypeOK, Quiet, SameGroups, SameEndpoints, SameDevices, EndpointRecords, DeviceRecords
<1>2. \A u \in Threads : Sound(u)'
  BY OthersSound DEF Core, Quiet
<1>3. Distinct'
  <2>. SUFFICES ASSUME NEW u \in Users, NEW v \in Users, u # v,
                       loc'[u].at \in WithEndpoint, loc'[v].at \in WithEndpoint
                PROVE  loc'[u].h # loc'[v].h
    BY DEF Distinct
  <2>1. u \in Threads /\ v \in Threads
    BY DEF Threads
  <2>2. /\ loc[u].at \in WithEndpoint /\ loc'[u].h = loc[u].h
        /\ loc[v].at \in WithEndpoint /\ loc'[v].h = loc[v].h
    BY <2>1 DEF Quiet
  <2>. QED  BY <2>2 DEF Core, Distinct
<1>4. Members'
  BY DEF Core, Members, Quiet, SameGroups, SameEndpoints, Alike
<1>. Net \in Threads /\ Ticker \in Threads
  BY DEF Threads
<1>5. Masks'
  BY TablesType DEF Core, Masks, Quiet, SameGroups, SameDevices, Alike, Countable
<1>6. Joined'
  BY TablesType DEF Core, Joined, Quiet, SameGroups, SameDevices, Alike
<1>7. Buried' /\ Phase' = Phase
  BY DEF Core, Buried, Quiet, SameGroups, Phase
<1>8. Routed'
  BY <1>7, TablesType DEF Core, Routed, Quiet, SameGroups, SameDevices, Alike
<1>9. EpsCounts'
  <2>. SUFFICES ASSUME NEW h \in EndpointsThere
                PROVE  etab'[h].inuse = Cardinality(EpsUsers(h)')
    BY DEF EpsCounts, Quiet, SameEndpoints
  <2>1. Cardinality(EpsUsers(h)') =
          Cardinality(EpsUsers(h)) + One(h \in loc'[t].eps) - One(h \in loc[t].eps)
    BY UsersMove DEF Quiet
  <2>. QED  BY <2>1 DEF Core, EpsCounts, Balance
<1>10. DevCounts'
  <2>. SUFFICES ASSUME NEW d \in Countable
                PROVE  InUse(d)' = Cardinality(DevUsers(d)') + Cardinality(DeadAt(d)') + Adding(d)'
    BY DEF DevCounts, Quiet, SameDevices, Countable
  <2>1. Cardinality(DevUsers(d)') =
          Cardinality(DevUsers(d)) + One(d \in loc'[t].devs) - One(d \in loc[t].devs)
    BY UsersMove DEF Quiet
  <2>2. DeadAt(d)' = DeadAt(d) /\ Adding(d)' = Adding(d)
    BY DEF DeadAt, Adding, Quiet, SameGroups, Alike
  <2>3. InUse(d)' = InUse(d) + One(d \in loc'[t].devs) - One(d \in loc[t].devs)
    <3>1. CASE d = gone.dev
      <4>1. d \in loc'[t].devs <=> d \in loc[t].devs
        BY <3>1, TablesType, SlotsAssumption DEF Balance, Countable, Core, Masks, None
      <4>2. InUse(d)' = InUse(d) /\ InUse(d) \in Nat
        BY <3>1 DEF InUse, Quiet, SameDevices, TypeOK
      <4>. QED  BY <4>1, <4>2 DEF One
    <3>2. CASE d # gone.dev
      BY <3>2 DEF InUse, Balance, Quiet, SameDevices, Countable
    <3>. QED  BY <3>1, <3>2
  <2>4. InUse(d) = Cardinality(DevUsers(d)) + Cardinality(DeadAt(d)) + Adding(d)
    BY DEF Core, DevCounts
  <2>. QED  BY <2>1, <2>2, <2>3, <2>4, UsersType, DeadType DEF One
<1>11. GroupCounts'
  <2>. SUFFICES ASSUME NEW g \in GroupsThere
                PROVE  gtab'[g].inuse = kept[g] + Cardinality(GroupUsers(g)') + Cardinality(Owners(g)')
    BY DEF GroupCounts, Quiet, SameGroups
  <2>1. /\ Cardinality(GroupUsers(g)') =
             Cardinality(GroupUsers(g)) + One(g \in loc'[t].groups \ loc'[t].lost)
                                        - One(g \in loc[t].groups \ loc[t].lost)
        /\ Cardinality(Owners(g)') =
             Cardinality(Owners(g)) + One(loc'[t].at # "write" /\ loc'[t].g = g)
                                    - One(loc[t].at # "write" /\ loc[t].g = g)
    BY UsersMove DEF Quiet
  <2>2. gtab[g].inuse = kept[g] + Cardinality(GroupUsers(g)) + Cardinality(Owners(g))
    BY DEF Core, GroupCounts
  <2>3. kept[g] \in Nat
    BY TablesType DEF TypeOK
  <2>. QED  BY <2>1, <2>2, <2>3, UsersType DEF Balance, One
<1>. QED  BY <1>1, <1>2, <1>3, <1>4, <1>5, <1>6, <1>7, <1>8, <1>9, <1>10, <1>11 DEF Core

\* Counting and uncounting, as one more and one less.
LEMMA CountUp ==
  ASSUME TypeOK
  PROVE  /\ \A S \in SUBSET GroupsThere : gtab' = Count(gtab, S, 1) =>
              SameGroups /\ \A g \in GroupsThere : gtab'[g].inuse = gtab[g].inuse + One(g \in S)
         /\ \A S \in SUBSET EndpointsThere : etab' = Count(etab, S, 1) =>
              SameEndpoints /\ \A h \in EndpointsThere : etab'[h].inuse = etab[h].inuse + One(h \in S)
         /\ \A S \in SUBSET DevicesThere : dtab' = Count(dtab, S, 1) /\ gone' = gone =>
              SameDevices /\ \A d \in DevicesThere : dtab'[d].inuse = dtab[d].inuse + One(d \in S)
<1>1. ASSUME NEW S \in SUBSET GroupsThere, gtab' = Count(gtab, S, 1)
      PROVE  SameGroups /\ \A g \in GroupsThere : gtab'[g].inuse = gtab[g].inuse + One(g \in S)
  BY <1>1, TablesType, CountGroups DEF One
<1>2. ASSUME NEW S \in SUBSET EndpointsThere, etab' = Count(etab, S, 1)
      PROVE  SameEndpoints /\ \A h \in EndpointsThere : etab'[h].inuse = etab[h].inuse + One(h \in S)
  BY <1>2, TablesType, CountEndpoints DEF One
<1>3. ASSUME NEW S \in SUBSET DevicesThere, dtab' = Count(dtab, S, 1), gone' = gone
      PROVE  SameDevices /\ \A d \in DevicesThere : dtab'[d].inuse = dtab[d].inuse + One(d \in S)
  BY <1>3, TablesType, CountDevices DEF One
<1>. QED  BY <1>1, <1>2, <1>3

LEMMA CountDown ==
  ASSUME TypeOK, Core, NEW t \in Threads
  PROVE  /\ \A S \in SUBSET (loc[t].groups \ loc[t].lost) : gtab' = Count(gtab, S, -1) =>
              SameGroups /\ \A g \in GroupsThere : gtab'[g].inuse = gtab[g].inuse - One(g \in S)
         /\ loc[t].g # None /\ loc[t].at # "write" /\ gtab' = Count(gtab, {loc[t].g}, -1) =>
              SameGroups /\ \A g \in GroupsThere : gtab'[g].inuse = gtab[g].inuse - One(g = loc[t].g)
         /\ \A S \in SUBSET loc[t].eps : etab' = Count(etab, S, -1) =>
              SameEndpoints /\ \A h \in EndpointsThere : etab'[h].inuse = etab[h].inuse - One(h \in S)
         /\ \A S \in SUBSET (loc[t].devs \cap DevicesThere) : dtab' = Count(dtab, S, -1) /\ gone' = gone =>
              SameDevices /\ \A d \in DevicesThere : dtab'[d].inuse = dtab[d].inuse - One(d \in S)
<1>1. ASSUME NEW S \in SUBSET GroupsThere, gtab' = Count(gtab, S, -1), \A g \in S : gtab[g].inuse > 0
      PROVE  SameGroups /\ \A g \in GroupsThere : gtab'[g].inuse = gtab[g].inuse - One(g \in S)
  <2>1. SameGroups /\ \A g \in GroupsThere : gtab'[g].inuse = gtab[g].inuse + IF g \in S THEN -1 ELSE 0
    BY <1>1, TablesType, CountGroups
  <2>. QED  BY <2>1, TablesType DEF One
<1>2. ASSUME NEW S \in SUBSET loc[t].eps, etab' = Count(etab, S, -1)
      PROVE  SameEndpoints /\ \A h \in EndpointsThere : etab'[h].inuse = etab[h].inuse - One(h \in S)
  <2>1. SameEndpoints /\ \A h \in EndpointsThere : etab'[h].inuse = etab[h].inuse + IF h \in S THEN -1 ELSE 0
    BY <1>2, TablesType, CountEndpoints, CountedIsInUse
  <2>. QED  BY <2>1, TablesType DEF One
<1>3. ASSUME NEW S \in SUBSET (loc[t].devs \cap DevicesThere), dtab' = Count(dtab, S, -1), gone' = gone
      PROVE  SameDevices /\ \A d \in DevicesThere : dtab'[d].inuse = dtab[d].inuse - One(d \in S)
  <2>1. SameDevices /\ \A d \in DevicesThere : dtab'[d].inuse = dtab[d].inuse + IF d \in S THEN -1 ELSE 0
    BY <1>3, TablesType, CountDevices, CountedIsInUse
  <2>. QED  BY <2>1, TablesType DEF One
<1>4. ASSUME NEW S \in SUBSET (loc[t].groups \ loc[t].lost), gtab' = Count(gtab, S, -1)
      PROVE  SameGroups /\ \A g \in GroupsThere : gtab'[g].inuse = gtab[g].inuse - One(g \in S)
  BY <1>1, <1>4, CountedIsInUse
<1>5. ASSUME loc[t].g # None, loc[t].at # "write", gtab' = Count(gtab, {loc[t].g}, -1)
      PROVE  SameGroups /\ \A g \in GroupsThere : gtab'[g].inuse = gtab[g].inuse - One(g = loc[t].g)
  <2>. DEFINE S == {loc[t].g}
  <2>1. S \in SUBSET GroupsThere /\ \A g \in S : gtab[g].inuse > 0
    BY <1>5, CountedIsInUse
  <2>2. SameGroups /\ \A g \in GroupsThere : gtab'[g].inuse = gtab[g].inuse - One(g \in S)
    BY <1>1, <1>5, <2>1
  <2>. QED  BY <2>2
<1>. QED  BY <1>2, <1>3, <1>4, <1>5

-----------------------------------------------------------------------------
(* The quiet steps.                                                         *)

LEMMA Apart ==
  /\ \A u \in Users : u \in Threads /\ u # Net /\ u # Ticker
  /\ Net \in Threads /\ Ticker \in Threads /\ Net # Ticker
  BY SlotsAssumption DEF Threads

LEMMA RouteCountInv ==
  ASSUME TypeOK, Core, NEW t \in Threads, RouteCount(t)
  PROVE  TypeOK' /\ Core'
<1>1. /\ loc[t].at = "announce" /\ loc[t].eps = {} /\ loc[t].devs = {} /\ loc[t].groups = {}
      /\ loc[t].dead = {} /\ loc[t].lost = {} /\ Sound(t)
  BY DEF RouteCount, At, Core, Sound, Shape
<1>2. /\ loc' \in [Threads -> ThreadRecords] /\ \A u \in Threads \ {t} : loc'[u] = loc[u]
      /\ loc'[t].at = "route" /\ loc'[t].eps = {} /\ loc'[t].devs = DevicesThere
      /\ loc'[t].groups = GroupsThere /\ loc'[t].dead = GroupsThere \ Live
      /\ loc'[t].lost = {} /\ loc'[t].g = loc[t].g /\ loc'[t].h = loc[t].h
  <2>1. loc[t] \in ThreadRecords
    BY DEF TypeOK
  <2>. QED  BY <1>1, <2>1, TablesType DEF RouteCount, TypeOK, ThreadRecords, Places
<1>3. /\ SameGroups
      /\ \A g \in GroupsThere : gtab'[g].inuse = gtab[g].inuse + 1
  BY TablesType, CountGroups DEF RouteCount
<1>4. /\ SameDevices
      /\ \A d \in DevicesThere : dtab'[d].inuse = dtab[d].inuse + 1
  <2>1. gone' = gone /\ dtab' = Count(dtab, DevicesThere, 1)
    BY DEF RouteCount, others
  <2>. QED  BY <2>1, TablesType, CountDevices
<1>5. SameEndpoints /\ \A h \in EndpointsThere : etab'[h].inuse = etab[h].inuse
  BY NoCount DEF RouteCount
<1>6. Quiet(t)
  BY <1>1, <1>2, <1>3, <1>4, <1>5, TablesType
     DEF Quiet, TypeOK, Places, WithEndpoint, RouteCount, others, history
<1>7. Balance(t)
  BY <1>1, <1>2, <1>3, <1>4, <1>5, TablesType DEF Balance, One, Core, Masks
<1>8. Sound(t)'
  BY <1>1, <1>2, <1>3, <1>4, <1>5, TablesType
     DEF Sound, Shape, Held, Linked, SameGroups, SameEndpoints, SameDevices, Countable, PlacesOf,
         WithEndpoint, Alike
<1>. QED  BY <1>6, <1>7, <1>8, QuietInv

LEMMA RouteDoneInv ==
  ASSUME TypeOK, Core, NEW t \in Threads, RouteDone(t)
  PROVE  TypeOK' /\ Core'
<1>1. /\ loc[t].at = "route" /\ loc[t].eps = {} /\ loc[t].devs \subseteq DevicesThere
      /\ loc[t].groups \subseteq GroupsThere /\ loc[t].lost = {} /\ Sound(t)
  BY DEF RouteDone, At, Core, Sound, Shape, Held
<1>2. /\ loc' \in [Threads -> ThreadRecords] /\ \A u \in Threads \ {t} : loc'[u] = loc[u]
      /\ loc'[t].at = IF t = Net THEN "heard" ELSE IF t = Ticker THEN "idle" ELSE "open"
      /\ loc'[t].eps = {} /\ loc'[t].devs = {} /\ loc'[t].groups = {} /\ loc'[t].dead = {}
      /\ loc'[t].lost = {} /\ loc'[t].g = loc[t].g /\ loc'[t].h = loc[t].h
  <2>1. loc[t] \in ThreadRecords
    BY DEF TypeOK
  <2>. QED  BY <1>1, <2>1 DEF RouteDone, Idle, TypeOK, ThreadRecords, Places
<1>3. /\ SameGroups
      /\ \A g \in GroupsThere : gtab'[g].inuse = gtab[g].inuse - One(g \in loc[t].groups)
  BY <1>1, CountDown DEF RouteDone
<1>4. /\ SameDevices
      /\ \A d \in DevicesThere : dtab'[d].inuse = dtab[d].inuse - One(d \in loc[t].devs)
  <2>1. gone' = gone /\ dtab' = Count(dtab, loc[t].devs, -1)
    BY DEF RouteDone, others
  <2>. QED  BY <1>1, <2>1, CountDown
<1>5. SameEndpoints /\ \A h \in EndpointsThere : etab'[h].inuse = etab[h].inuse
  BY NoCount DEF RouteDone
<1>6. Quiet(t)
  BY <1>1, <1>2, <1>3, <1>4, <1>5
     DEF Quiet, TypeOK, Places, WithEndpoint, RouteDone, others, history
<1>7. Balance(t)
  BY <1>1, <1>2, <1>3, <1>4, <1>5, TablesType DEF Balance, One, Core, Masks
<1>8. Sound(t)'
  BY <1>1, <1>2, <1>3, <1>4, <1>5, TablesType
     DEF Sound, Shape, Held, Linked, SameGroups, SameEndpoints, SameDevices, Countable, PlacesOf,
         WithEndpoint, Alike, Threads
<1>. QED  BY <1>6, <1>7, <1>8, QuietInv

LEMMA FoundLive ==
  ASSUME TypeOK, NEW name, Found(name) # {}
  PROVE  Min(Found(name)) \in Live /\ Min(Found(name)) # None
<1>1. Found(name) \subseteq Live /\ Live \subseteq Nat /\ IsFiniteSet(Live)
  BY TablesType, SlotsAssumption, FS_Subset DEF Found
<1>. QED  BY <1>1, FS_Subset, MinIn DEF None

LEMMA OpenFoundInv ==
  ASSUME TypeOK, Core, NEW t \in Users, NEW name \in Names, OpenFound(t, name)
  PROVE  TypeOK' /\ Core'
<1>. t \in Threads
  BY Apart
<1>. DEFINE g0 == Min(Found(name))
<1>. g0 \in Live /\ g0 # None
  BY FoundLive DEF OpenFound
<1>. HIDE DEF g0
<1>1. /\ loc[t].at = "idle" /\ loc[t].eps = {} /\ loc[t].devs = {} /\ loc[t].groups = {}
      /\ loc[t].dead = {} /\ loc[t].lost = {} /\ loc[t].g = None /\ Sound(t)
  BY DEF OpenFound, At, Core, Sound, Shape
<1>2. /\ loc' \in [Threads -> ThreadRecords] /\ \A u \in Threads \ {t} : loc'[u] = loc[u]
      /\ loc'[t].at = "slot" /\ loc'[t].eps = {} /\ loc'[t].devs = {} /\ loc'[t].groups = {}
      /\ loc'[t].dead = {} /\ loc'[t].lost = {} /\ loc'[t].g = g0 /\ loc'[t].h = None
  <2>1. loc[t] \in ThreadRecords
    BY DEF TypeOK
  <2>. QED  BY <1>1, <2>1, TablesType, ZenonT(40) DEF g0, OpenFound, Idle, TypeOK, ThreadRecords, Places
<1>3. SameGroups /\ \A g \in GroupsThere : gtab'[g].inuse = gtab[g].inuse + One(g \in {g0})
  BY TablesType, CountUp DEF g0, OpenFound
<1>4. SameDevices /\ \A d \in DevicesThere : dtab'[d].inuse = dtab[d].inuse
  BY NoCount DEF OpenFound, others
<1>5. SameEndpoints /\ \A h \in EndpointsThere : etab'[h].inuse = etab[h].inuse
  BY NoCount DEF OpenFound
<1>9. UNCHANGED <<divider, up, kept, since>> /\ opens' \in 0 .. MaxOpens
  BY TimesAssumption DEF OpenFound, TypeOK, others, history
<1>6. Quiet(t)
  BY <1>1, <1>2, <1>3, <1>4, <1>5, <1>9
     DEF Quiet, WithEndpoint
<1>7. Balance(t)
  BY <1>1, <1>2, <1>3, <1>4, <1>5, TablesType, SlotsAssumption DEF Balance, One, Core, Masks, None
<1>8. Sound(t)'
  <2>1. Shape(t)'
    BY <1>1, <1>2, Apart DEF Sound, Shape, PlacesOf, WithEndpoint
  <2>2. Held(t)'
    BY <1>1, <1>2, <1>3, <1>4, <1>5, TablesType DEF Sound, Held, SameGroups, SameEndpoints, SameDevices, Countable
  <2>3. t \in Users => Linked(t)'
    BY <1>1, <1>2, <1>3, <1>4, <1>5, TablesType
       DEF Sound, Linked, WithEndpoint, SameGroups, SameEndpoints, Alike
  <2>. QED  BY <2>1, <2>2, <2>3 DEF Sound
<1>. QED  BY <1>6, <1>7, <1>8, QuietInv

LEMMA JoinInv ==
  ASSUME TypeOK, Core, NEW t \in Users, Join(t)
  PROVE  TypeOK' /\ Core'
<1>. t \in Threads
  BY Apart
<1>1. /\ loc[t].at = "join" /\ loc[t].eps = {} /\ loc[t].devs \subseteq DevicesThere
      /\ loc[t].groups = {} /\ loc[t].dead = {} /\ loc[t].lost = {} /\ loc[t].g # None /\ Sound(t)
  BY DEF Join, At, Core, Sound, Shape
<1>2. /\ loc' \in [Threads -> ThreadRecords] /\ \A u \in Threads \ {t} : loc'[u] = loc[u]
      /\ loc'[t].at = "slot" /\ loc'[t].eps = {} /\ loc'[t].devs = {} /\ loc'[t].groups = {}
      /\ loc'[t].dead = {} /\ loc'[t].lost = {} /\ loc'[t].g = loc[t].g /\ loc'[t].h = loc[t].h
  <2>1. loc[t] \in ThreadRecords
    BY DEF TypeOK
  <2>. QED  BY <1>1, <2>1, TablesType DEF Join, Idle, TypeOK, ThreadRecords, Places
<1>3. SameGroups /\ \A g \in GroupsThere : gtab'[g].inuse = gtab[g].inuse
  BY NoCount DEF Join
<1>4. SameDevices /\ \A d \in DevicesThere : dtab'[d].inuse = dtab[d].inuse - One(d \in loc[t].devs)
  <2>1. gone' = gone /\ dtab' = Count(dtab, loc[t].devs, -1)
    BY DEF Join, others
  <2>. QED  BY <1>1, <2>1, CountDown
<1>5. SameEndpoints /\ \A h \in EndpointsThere : etab'[h].inuse = etab[h].inuse
  BY NoCount DEF Join
<1>9. UNCHANGED <<divider, up, kept, since>> /\ opens' \in 0 .. MaxOpens
  BY TimesAssumption DEF Join, TypeOK, others, history
<1>6. Quiet(t)
  BY <1>1, <1>2, <1>3, <1>4, <1>5, <1>9
     DEF Quiet, WithEndpoint
<1>7. Balance(t)
  BY <1>1, <1>2, <1>3, <1>4, <1>5, TablesType, SlotsAssumption DEF Balance, One, Core, Masks, None
<1>8. Sound(t)'
  <2>1. Shape(t)'
    BY <1>1, <1>2, Apart DEF Sound, Shape, PlacesOf, WithEndpoint
  <2>2. Held(t)'
    BY <1>1, <1>2, <1>3, <1>4, <1>5, TablesType DEF Sound, Held, SameGroups, SameEndpoints, SameDevices, Countable
  <2>3. t \in Users => Linked(t)'
    BY <1>1, <1>2, <1>3, <1>4, <1>5, TablesType
       DEF Sound, Linked, WithEndpoint, SameGroups, SameEndpoints, Alike
  <2>. QED  BY <2>1, <2>2, <2>3 DEF Sound
<1>. QED  BY <1>6, <1>7, <1>8, QuietInv

LEMMA OpenFailsInv ==
  ASSUME TypeOK, Core, NEW t \in Users, OpenFails(t)
  PROVE  TypeOK' /\ Core'
<1>. t \in Threads
  BY Apart
<1>1. /\ loc[t].at = "slot" /\ loc[t].eps = {} /\ loc[t].devs = {} /\ loc[t].groups = {}
      /\ loc[t].dead = {} /\ loc[t].lost = {} /\ loc[t].g # None /\ Sound(t)
  BY DEF OpenFails, At, Core, Sound, Shape
<1>2. /\ loc' \in [Threads -> ThreadRecords] /\ \A u \in Threads \ {t} : loc'[u] = loc[u]
      /\ loc'[t].at = "idle" /\ loc'[t].eps = {} /\ loc'[t].devs = {} /\ loc'[t].groups = {}
      /\ loc'[t].dead = {} /\ loc'[t].lost = {} /\ loc'[t].g = None /\ loc'[t].h = None
  <2>1. loc[t] \in ThreadRecords
    BY DEF TypeOK
  <2>. QED  BY <1>1, <2>1, TablesType DEF OpenFails, Idle, TypeOK, ThreadRecords, Places
<1>3. SameGroups /\ \A g \in GroupsThere : gtab'[g].inuse = gtab[g].inuse - One(g = loc[t].g)
  BY <1>1, CountDown DEF OpenFails
<1>4. SameDevices /\ \A d \in DevicesThere : dtab'[d].inuse = dtab[d].inuse
  BY NoCount DEF OpenFails, others
<1>5. SameEndpoints /\ \A h \in EndpointsThere : etab'[h].inuse = etab[h].inuse
  BY NoCount DEF OpenFails
<1>9. UNCHANGED <<divider, up, kept, since>> /\ opens' \in 0 .. MaxOpens
  BY TimesAssumption DEF OpenFails, TypeOK, others, history
<1>6. Quiet(t)
  BY <1>1, <1>2, <1>3, <1>4, <1>5, <1>9
     DEF Quiet, WithEndpoint
<1>7. Balance(t)
  BY <1>1, <1>2, <1>3, <1>4, <1>5, TablesType, SlotsAssumption DEF Balance, One, Core, Masks, None
<1>8. Sound(t)'
  <2>1. Shape(t)'
    BY <1>1, <1>2, Apart DEF Sound, Shape, PlacesOf, WithEndpoint
  <2>2. Held(t)'
    BY <1>1, <1>2, <1>3, <1>4, <1>5, TablesType DEF Sound, Held, SameGroups, SameEndpoints, SameDevices, Countable
  <2>3. t \in Users => Linked(t)'
    BY <1>1, <1>2, <1>3, <1>4, <1>5, TablesType
       DEF Sound, Linked, WithEndpoint, SameGroups, SameEndpoints, Alike
  <2>. QED  BY <2>1, <2>2, <2>3 DEF Sound
<1>. QED  BY <1>6, <1>7, <1>8, QuietInv

LEMMA WriteInv ==
  ASSUME TypeOK, Core, NEW t \in Users, Write(t)
  PROVE  TypeOK' /\ Core'
<1>. t \in Threads
  BY Apart
<1>. DEFINE g0 == etab[loc[t].h].group
<1>0. /\ g0 \in Live /\ g0 # None /\ loc[t].h \in EndpointsThere
      /\ gtab[g0].eps \subseteq EndpointsThere /\ gtab[g0].devs \subseteq DevicesThere
  <2>0. loc[t].h \in EndpointsThere
    BY DEF Core, Sound, Linked, Write, At, WithEndpoint
  <2>1. g0 \in Live
    BY DEF Core, Sound, Linked, Write, At, WithEndpoint
  <2>. QED  BY <2>0, <2>1, TablesType, SlotsAssumption DEF Core, Members, Masks, None
<1>10. etab' = Count(etab, gtab[g0].eps, 1) /\ dtab' = Count(dtab, gtab[g0].devs, 1)
  BY DEF Write
<1>11. loc' = [loc EXCEPT ![t].at = "write", ![t].g = g0,
                          ![t].eps = gtab[g0].eps, ![t].devs = gtab[g0].devs]
  BY DEF Write
<1>12. /\ g0 = etab[loc[t].h].group /\ g0 \in Groups
       /\ gtab[g0].eps \in SUBSET Endpoints /\ gtab[g0].devs \in SUBSET Devices
  BY <1>0, TablesType
<1>. HIDE DEF g0
<1>1. /\ loc[t].at = "open" /\ loc[t].eps = {} /\ loc[t].devs = {} /\ loc[t].groups = {}
      /\ loc[t].dead = {} /\ loc[t].lost = {} /\ loc[t].g = None /\ Sound(t)
  BY Apart DEF Write, At, Core, Sound, Shape
<1>2. /\ loc' \in [Threads -> ThreadRecords] /\ \A u \in Threads \ {t} : loc'[u] = loc[u]
      /\ loc'[t].at = "write" /\ loc'[t].eps = gtab[g0].eps /\ loc'[t].devs = gtab[g0].devs /\ loc'[t].groups = {}
      /\ loc'[t].dead = {} /\ loc'[t].lost = {} /\ loc'[t].g = g0 /\ loc'[t].h = loc[t].h
  <2>1. loc[t] \in ThreadRecords
    BY DEF TypeOK
  <2>. QED  BY <1>1, <1>11, <1>12, <2>1 DEF TypeOK, ThreadRecords, Places
<1>3. SameGroups /\ \A g \in GroupsThere : gtab'[g].inuse = gtab[g].inuse
  BY NoCount DEF Write
<1>4. /\ SameDevices
      /\ \A d \in DevicesThere :
           dtab'[d].inuse = dtab[d].inuse + One(d \in gtab[g0].devs)
  <2>1. gone' = gone /\ dtab' = Count(dtab, gtab[g0].devs, 1)
    BY <1>10 DEF Write, others
  <2>. QED  BY <1>0, <2>1, CountUp
<1>5. /\ SameEndpoints
      /\ \A h \in EndpointsThere :
           etab'[h].inuse = etab[h].inuse + One(h \in gtab[g0].eps)
  BY <1>0, <1>10, CountUp
<1>9. UNCHANGED <<divider, up, kept, since>> /\ opens' \in 0 .. MaxOpens
  BY TimesAssumption DEF Write, TypeOK, others, history
<1>6. Quiet(t)
  BY <1>0, <1>12, <1>1, <1>2, <1>3, <1>4, <1>5, <1>9
     DEF Quiet, WithEndpoint
<1>7. Balance(t)
  <2>1. \A h \in EndpointsThere :
          etab'[h].inuse = etab[h].inuse + One(h \in loc'[t].eps) - One(h \in loc[t].eps)
    BY <1>1, <1>2, <1>5, TablesType DEF One
  <2>2. \A d \in DevicesThere :
          dtab'[d].inuse = dtab[d].inuse + One(d \in loc'[t].devs) - One(d \in loc[t].devs)
    BY <1>1, <1>2, <1>4, TablesType DEF One
  <2>3. gone.dev \notin loc'[t].devs /\ gone.dev \notin loc[t].devs
    BY <1>0, <1>1, <1>2 DEF Core, Masks
  <2>4. \A g \in GroupsThere : g # None
    BY TablesType, SlotsAssumption DEF None
  <2>. QED  BY <1>1, <1>2, <1>3, <2>1, <2>2, <2>3, <2>4, TablesType DEF Balance, One
<1>8. Sound(t)'
  <2>1. Shape(t)'
    BY <1>0, <1>1, <1>2, Apart DEF Sound, Shape, PlacesOf, WithEndpoint
  <2>2. Held(t)'
    BY <1>0, <1>12, <1>1, <1>2, <1>3, <1>4, <1>5, TablesType DEF Sound, Held, SameGroups, SameEndpoints, SameDevices, Countable
  <2>3. t \in Users => Linked(t)'
    <3>1. etab'[loc[t].h].group = g0 /\ Live' = Live
      BY <1>0, <1>3, <1>5, <1>12 DEF SameEndpoints, SameGroups
    <3>2. gtab'[g0].eps = gtab[g0].eps /\ loc[t].h \in gtab[g0].eps
      BY <1>0, <1>1, <1>3, <1>12, TablesType DEF SameGroups, Alike, Sound, Linked, WithEndpoint
    <3>. QED  BY <1>0, <1>1, <1>2, <1>5, <3>1, <3>2 DEF Linked, SameEndpoints, WithEndpoint
  <2>. QED  BY <2>1, <2>2, <2>3 DEF Sound
<1>. QED  BY <1>6, <1>7, <1>8, QuietInv

LEMMA DataInInv ==
  ASSUME TypeOK, Core, NEW name \in Names, DataIn(name)
  PROVE  TypeOK' /\ Core'
<1>. Net \in Threads
  BY Apart
<1>. gtab[Min(Found(name))].eps \subseteq EndpointsThere
  <2>1. Min(Found(name)) \in Live
    BY FoundLive DEF DataIn
  <2>. QED  BY <2>1, TablesType DEF Core, Members
<1>1. /\ loc[Net].at = "idle" /\ loc[Net].eps = {} /\ loc[Net].devs = {} /\ loc[Net].groups = {}
      /\ loc[Net].dead = {} /\ loc[Net].lost = {} /\ loc[Net].g = None /\ Sound(Net)
  BY Apart DEF DataIn, At, Core, Sound, Shape
<1>2. /\ loc' \in [Threads -> ThreadRecords] /\ \A u \in Threads \ {Net} : loc'[u] = loc[u]
      /\ loc'[Net].at = "data" /\ loc'[Net].eps = gtab[Min(Found(name))].eps /\ loc'[Net].devs = {} /\ loc'[Net].groups = {}
      /\ loc'[Net].dead = {} /\ loc'[Net].lost = {} /\ loc'[Net].g = None /\ loc'[Net].h = loc[Net].h
  <2>1. loc[Net] \in ThreadRecords
    BY DEF TypeOK
  <2>. QED  BY <1>1, <2>1, TablesType DEF DataIn, Idle, TypeOK, ThreadRecords, Places
<1>3. SameGroups /\ \A g \in GroupsThere : gtab'[g].inuse = gtab[g].inuse
  BY NoCount DEF DataIn
<1>4. /\ SameEndpoints
      /\ \A h \in EndpointsThere :
           etab'[h].inuse = etab[h].inuse + One(h \in gtab[Min(Found(name))].eps)
  BY CountUp DEF DataIn
<1>5. SameDevices /\ \A d \in DevicesThere : dtab'[d].inuse = dtab[d].inuse
  BY NoCount DEF DataIn, others
<1>9. UNCHANGED <<divider, up, kept, since>> /\ opens' \in 0 .. MaxOpens
  BY TimesAssumption DEF DataIn, TypeOK, others, history
<1>6. Quiet(Net)
  BY <1>1, <1>2, <1>3, <1>4, <1>5, <1>9
     DEF Quiet, WithEndpoint
<1>7. Balance(Net)
  BY <1>1, <1>2, <1>3, <1>4, <1>5, TablesType, SlotsAssumption DEF Balance, One, Core, Masks, None
<1>8. Sound(Net)'
  <2>1. Shape(Net)'
    BY <1>1, <1>2, Apart DEF Sound, Shape, PlacesOf, WithEndpoint
  <2>2. Held(Net)'
    BY <1>1, <1>2, <1>3, <1>4, <1>5, TablesType DEF Sound, Held, SameGroups, SameEndpoints, SameDevices, Countable
  <2>3. Net \in Users => Linked(Net)'
    BY <1>1, <1>2, <1>3, <1>4, <1>5, TablesType
       DEF Sound, Linked, WithEndpoint, SameGroups, SameEndpoints, Alike
  <2>. QED  BY <2>1, <2>2, <2>3 DEF Sound
<1>. QED  BY <1>6, <1>7, <1>8, QuietInv

LEMMA RouteInInv ==
  ASSUME TypeOK, Core, NEW name \in Names, NEW d \in Devices, RouteIn(name, d)
  PROVE  TypeOK' /\ Core'
<1>. Net \in Threads
  BY Apart
<1>. Min(Found(name)) \in Live /\ Min(Found(name)) # None /\ d \in DevicesThere
  BY FoundLive DEF RouteIn
<1>1. /\ loc[Net].at = "idle" /\ loc[Net].eps = {} /\ loc[Net].devs = {} /\ loc[Net].groups = {}
      /\ loc[Net].dead = {} /\ loc[Net].lost = {} /\ loc[Net].g = None /\ Sound(Net)
  BY Apart DEF RouteIn, At, Core, Sound, Shape
<1>2. /\ loc' \in [Threads -> ThreadRecords] /\ \A u \in Threads \ {Net} : loc'[u] = loc[u]
      /\ loc'[Net].at = "hear" /\ loc'[Net].eps = {} /\ loc'[Net].devs = {} /\ loc'[Net].groups = {}
      /\ loc'[Net].dead = {} /\ loc'[Net].lost = {} /\ loc'[Net].g = Min(Found(name)) /\ loc'[Net].h = d
  <2>1. loc[Net] \in ThreadRecords
    BY DEF TypeOK
  <2>. QED  BY <1>1, <2>1, TablesType DEF RouteIn, Idle, TypeOK, ThreadRecords, Places
<1>3. SameGroups /\ \A g \in GroupsThere : gtab'[g].inuse = gtab[g].inuse + One(g \in {Min(Found(name))})
  BY TablesType, CountUp DEF RouteIn
<1>4. SameDevices /\ \A i \in DevicesThere : dtab'[i].inuse = dtab[i].inuse
  BY NoCount DEF RouteIn, others
<1>5. SameEndpoints /\ \A h \in EndpointsThere : etab'[h].inuse = etab[h].inuse
  BY NoCount DEF RouteIn
<1>9. UNCHANGED <<divider, up, kept, since>> /\ opens' \in 0 .. MaxOpens
  BY TimesAssumption DEF RouteIn, TypeOK, others, history
<1>6. Quiet(Net)
  BY <1>1, <1>2, <1>3, <1>4, <1>5, <1>9
     DEF Quiet, WithEndpoint
<1>7. Balance(Net)
  BY <1>1, <1>2, <1>3, <1>4, <1>5, TablesType, SlotsAssumption DEF Balance, One, Core, Masks, None
<1>8. Sound(Net)'
  <2>1. Shape(Net)'
    BY <1>1, <1>2, Apart DEF Sound, Shape, PlacesOf, WithEndpoint
  <2>2. Held(Net)'
    BY <1>1, <1>2, <1>3, <1>4, <1>5, TablesType DEF Sound, Held, SameGroups, SameEndpoints, SameDevices, Countable
  <2>3. Net \in Users => Linked(Net)'
    BY <1>1, <1>2, <1>3, <1>4, <1>5, TablesType
       DEF Sound, Linked, WithEndpoint, SameGroups, SameEndpoints, Alike
  <2>. QED  BY <2>1, <2>2, <2>3 DEF Sound
<1>. QED  BY <1>6, <1>7, <1>8, QuietInv

LEMMA HeardInv ==
  ASSUME TypeOK, Core, Heard
  PROVE  TypeOK' /\ Core'
<1>. Net \in Threads
  BY Apart
<1>1. /\ loc[Net].at = "heard" /\ loc[Net].eps = {} /\ loc[Net].devs = {} /\ loc[Net].groups = {}
      /\ loc[Net].dead = {} /\ loc[Net].lost = {} /\ loc[Net].g # None /\ Sound(Net)
  BY Apart DEF Heard, At, Core, Sound, Shape
<1>2. /\ loc' \in [Threads -> ThreadRecords] /\ \A u \in Threads \ {Net} : loc'[u] = loc[u]
      /\ loc'[Net].at = "idle" /\ loc'[Net].eps = {} /\ loc'[Net].devs = {} /\ loc'[Net].groups = {}
      /\ loc'[Net].dead = {} /\ loc'[Net].lost = {} /\ loc'[Net].g = None /\ loc'[Net].h = None
  <2>1. loc[Net] \in ThreadRecords
    BY DEF TypeOK
  <2>. QED  BY <1>1, <2>1, TablesType DEF Heard, Idle, TypeOK, ThreadRecords, Places
<1>3. SameGroups /\ \A g \in GroupsThere : gtab'[g].inuse = gtab[g].inuse - One(g = loc[Net].g)
  BY <1>1, CountDown DEF Heard
<1>4. SameDevices /\ \A d \in DevicesThere : dtab'[d].inuse = dtab[d].inuse
  BY NoCount DEF Heard, others
<1>5. SameEndpoints /\ \A h \in EndpointsThere : etab'[h].inuse = etab[h].inuse
  BY NoCount DEF Heard
<1>9. UNCHANGED <<divider, up, kept, since>> /\ opens' \in 0 .. MaxOpens
  BY TimesAssumption DEF Heard, TypeOK, others, history
<1>6. Quiet(Net)
  BY <1>1, <1>2, <1>3, <1>4, <1>5, <1>9
     DEF Quiet, WithEndpoint
<1>7. Balance(Net)
  BY <1>1, <1>2, <1>3, <1>4, <1>5, TablesType, SlotsAssumption DEF Balance, One, Core, Masks, None
<1>8. Sound(Net)'
  <2>1. Shape(Net)'
    BY <1>1, <1>2, Apart DEF Sound, Shape, PlacesOf, WithEndpoint
  <2>2. Held(Net)'
    BY <1>1, <1>2, <1>3, <1>4, <1>5, TablesType DEF Sound, Held, SameGroups, SameEndpoints, SameDevices, Countable
  <2>3. Net \in Users => Linked(Net)'
    BY <1>1, <1>2, <1>3, <1>4, <1>5, TablesType
       DEF Sound, Linked, WithEndpoint, SameGroups, SameEndpoints, Alike
  <2>. QED  BY <2>1, <2>2, <2>3 DEF Sound
<1>. QED  BY <1>6, <1>7, <1>8, QuietInv

LEMMA DeliverInv ==
  ASSUME TypeOK, Core, NEW t \in Threads, Deliver(t)
  PROVE  TypeOK' /\ Core'
<1>. DEFINE e == Min(loc[t].eps)
<1>. e \in loc[t].eps
  <2>1. loc[t].eps \subseteq Endpoints
    BY DEF TypeOK, ThreadRecords
  <2>. QED  BY <2>1, SlotsAssumption, FS_Subset, MinIn DEF Deliver
<1>1. /\ loc[t].at \in {"write", "data"} /\ loc[t].groups = {} /\ loc[t].dead = {}
      /\ loc[t].lost = {} /\ Sound(t)
      /\ (loc[t].g # None <=> loc[t].at = "write")
  BY DEF Deliver, At, Core, Sound, Shape
<1>2. /\ loc' \in [Threads -> ThreadRecords] /\ \A u \in Threads \ {t} : loc'[u] = loc[u]
      /\ loc'[t].at = loc[t].at /\ loc'[t].eps = loc[t].eps \ {e} /\ loc'[t].devs = loc[t].devs
      /\ loc'[t].groups = {}
      /\ loc'[t].dead = {} /\ loc'[t].lost = {} /\ loc'[t].g = loc[t].g /\ loc'[t].h = loc[t].h
  <2>1. loc[t] \in ThreadRecords
    BY DEF TypeOK
  <2>. QED  BY <1>1, <2>1, TablesType DEF Deliver, Idle, TypeOK, ThreadRecords, Places
<1>3. SameGroups /\ \A g \in GroupsThere : gtab'[g].inuse = gtab[g].inuse
  BY NoCount DEF Deliver
<1>4. SameDevices /\ \A d \in DevicesThere : dtab'[d].inuse = dtab[d].inuse
  BY NoCount DEF Deliver, others
<1>5. SameEndpoints /\ \A h \in EndpointsThere : etab'[h].inuse = etab[h].inuse - One(h \in {e})
  BY CountDown, ZenonT(40) DEF Deliver
<1>9. UNCHANGED <<divider, up, kept, since>> /\ opens' \in 0 .. MaxOpens
  BY TimesAssumption DEF Deliver, TypeOK, others, history
<1>6. Quiet(t)
  BY <1>1, <1>2, <1>3, <1>4, <1>5, <1>9
     DEF Quiet, WithEndpoint
<1>7. Balance(t)
  BY <1>1, <1>2, <1>3, <1>4, <1>5, TablesType, SlotsAssumption DEF Balance, One, Core, Masks, None
<1>8. Sound(t)'
  <2>1. Shape(t)'
    BY <1>1, <1>2, Apart DEF Sound, Shape, PlacesOf, WithEndpoint
  <2>2. Held(t)'
    BY <1>1, <1>2, <1>3, <1>4, <1>5, TablesType DEF Sound, Held, SameGroups, SameEndpoints, SameDevices, Countable
  <2>3. t \in Users => Linked(t)'
    BY <1>1, <1>2, <1>3, <1>4, <1>5, TablesType
       DEF Sound, Linked, WithEndpoint, SameGroups, SameEndpoints, Alike
  <2>. QED  BY <2>1, <2>2, <2>3 DEF Sound
<1>. QED  BY <1>6, <1>7, <1>8, QuietInv

LEMMA TransmitInv ==
  ASSUME TypeOK, Core, NEW t \in Users, Transmit(t)
  PROVE  TypeOK' /\ Core'
<1>. t \in Threads
  BY Apart
<1>. DEFINE d0 == Min(loc[t].devs)
<1>. d0 \in loc[t].devs /\ d0 \in DevicesThere
  <2>1. loc[t].devs \subseteq Devices
    BY DEF TypeOK, ThreadRecords
  <2>. QED  BY <2>1, SlotsAssumption, FS_Subset, MinIn DEF Transmit
<1>1. /\ loc[t].at = "write" /\ loc[t].eps = {} /\ loc[t].groups = {} /\ loc[t].dead = {}
      /\ loc[t].lost = {} /\ Sound(t) /\ loc[t].g # None
  BY DEF Transmit, At, Core, Sound, Shape
<1>2. /\ loc' \in [Threads -> ThreadRecords] /\ \A u \in Threads \ {t} : loc'[u] = loc[u]
      /\ loc'[t].at = "write" /\ loc'[t].eps = {} /\ loc'[t].devs = loc[t].devs \ {d0} /\ loc'[t].groups = {}
      /\ loc'[t].dead = {} /\ loc'[t].lost = {} /\ loc'[t].g = loc[t].g /\ loc'[t].h = loc[t].h
  <2>1. loc[t] \in ThreadRecords
    BY DEF TypeOK
  <2>. QED  BY <1>1, <2>1, TablesType DEF Transmit, Idle, TypeOK, ThreadRecords, Places
<1>3. SameGroups /\ \A g \in GroupsThere : gtab'[g].inuse = gtab[g].inuse
  BY NoCount DEF Transmit
<1>4. SameDevices /\ \A d \in DevicesThere : dtab'[d].inuse = dtab[d].inuse - One(d \in {d0})
  <2>1. gone' = gone /\ dtab' = Count(dtab, {d0}, -1)
    BY DEF Transmit, others
  <2>. QED  BY <2>1, CountDown
<1>5. SameEndpoints /\ \A h \in EndpointsThere : etab'[h].inuse = etab[h].inuse
  BY NoCount DEF Transmit
<1>9. UNCHANGED <<divider, up, kept, since>> /\ opens' \in 0 .. MaxOpens
  BY TimesAssumption DEF Transmit, TypeOK, others, history
<1>6. Quiet(t)
  BY <1>1, <1>2, <1>3, <1>4, <1>5, <1>9
     DEF Quiet, WithEndpoint
<1>7. Balance(t)
  BY <1>1, <1>2, <1>3, <1>4, <1>5, TablesType, SlotsAssumption DEF Balance, One, Core, Masks, None
<1>8. Sound(t)'
  <2>1. Shape(t)'
    BY <1>1, <1>2, Apart DEF Sound, Shape, PlacesOf, WithEndpoint
  <2>2. Held(t)'
    BY <1>1, <1>2, <1>3, <1>4, <1>5, TablesType DEF Sound, Held, SameGroups, SameEndpoints, SameDevices, Countable
  <2>3. t \in Users => Linked(t)'
    BY <1>1, <1>2, <1>3, <1>4, <1>5, TablesType
       DEF Sound, Linked, WithEndpoint, SameGroups, SameEndpoints, Alike
  <2>. QED  BY <2>1, <2>2, <2>3 DEF Sound
<1>. QED  BY <1>6, <1>7, <1>8, QuietInv

LEMMA DeliveredInv ==
  ASSUME TypeOK, Core, NEW t \in Threads, Delivered(t)
  PROVE  TypeOK' /\ Core'
<1>1. /\ loc[t].at \in {"write", "data"} /\ loc[t].eps = {} /\ loc[t].devs = {} /\ loc[t].groups = {}
      /\ loc[t].dead = {} /\ loc[t].lost = {} /\ Sound(t)
      /\ (loc[t].g # None <=> loc[t].at = "write") /\ (loc[t].at = "data" <=> t = Net)
  BY Apart DEF Delivered, At, Core, Sound, Shape, PlacesOf, WithEndpoint
<1>2. /\ loc' \in [Threads -> ThreadRecords] /\ \A u \in Threads \ {t} : loc'[u] = loc[u]
      /\ loc'[t].at = IF t = Net THEN "idle" ELSE "open"
      /\ loc'[t].eps = {} /\ loc'[t].devs = {} /\ loc'[t].groups = {}
      /\ loc'[t].dead = {} /\ loc'[t].lost = {} /\ loc'[t].g = None /\ loc'[t].h = IF t = Net THEN None ELSE loc[t].h
  <2>1. loc[t] \in ThreadRecords
    BY DEF TypeOK
  <2>. QED  BY <1>1, <2>1, TablesType DEF Delivered, Idle, TypeOK, ThreadRecords, Places
<1>3. SameGroups /\ \A g \in GroupsThere : gtab'[g].inuse = gtab[g].inuse
  BY NoCount DEF Delivered
<1>4. SameDevices /\ \A d \in DevicesThere : dtab'[d].inuse = dtab[d].inuse
  BY NoCount DEF Delivered, others
<1>5. SameEndpoints /\ \A h \in EndpointsThere : etab'[h].inuse = etab[h].inuse
  BY NoCount DEF Delivered
<1>9. UNCHANGED <<divider, up, kept, since>> /\ opens' \in 0 .. MaxOpens
  BY TimesAssumption DEF Delivered, TypeOK, others, history
<1>6. Quiet(t)
  BY <1>1, <1>2, <1>3, <1>4, <1>5, <1>9
     DEF Quiet, WithEndpoint
<1>7. Balance(t)
  BY <1>1, <1>2, <1>3, <1>4, <1>5, TablesType, SlotsAssumption DEF Balance, One, Core, Masks, None
<1>8. Sound(t)'
  <2>1. Shape(t)'
    BY <1>1, <1>2, Apart DEF Sound, Shape, PlacesOf, WithEndpoint
  <2>2. Held(t)'
    BY <1>1, <1>2, <1>3, <1>4, <1>5, TablesType DEF Sound, Held, SameGroups, SameEndpoints, SameDevices, Countable
  <2>3. t \in Users => Linked(t)'
    BY <1>1, <1>2, <1>3, <1>4, <1>5, TablesType
       DEF Sound, Linked, WithEndpoint, SameGroups, SameEndpoints, Alike
  <2>. QED  BY <2>1, <2>2, <2>3 DEF Sound
<1>. QED  BY <1>6, <1>7, <1>8, QuietInv

-----------------------------------------------------------------------------
(* Steps that change the tables.                                            *)

LEMMA PhaseType ==
  ASSUME TypeOK
  PROVE  Phase \in 0 .. 2 * Life - 1
<1>1. divider \in Int /\ 0 <= divider /\ divider <= 2 * Life - 1
  BY TimesAssumption DEF TypeOK
<1>2. 2 * Life - 1 \in Int /\ 0 <= 2 * Life - 1
  BY TimesAssumption
<1>. QED  BY <1>1, <1>2 DEF Phase

LEMMA OpenNewInv ==
  ASSUME TypeOK, Core, NEW t \in Users, NEW name \in Names, NEW p \in BOOLEAN, OpenNew(t, name, p)
  PROVE  TypeOK' /\ Core'
<1>. DEFINE routes == IF p THEN DevicesThere ELSE {}
<1>0. PICK g0 \in Groups :
        g0 = Min(Free(gtab, NoGroup)) /\ g0 \notin GroupsThere /\ g0 # None
  <2>1. Free(gtab, NoGroup) \subseteq Groups /\ Free(gtab, NoGroup) # {}
    BY TablesType DEF Free, OpenNew, GroupsThere, TypeOK
  <2>2. Min(Free(gtab, NoGroup)) \in Free(gtab, NoGroup)
    BY <2>1, SlotsAssumption, FS_Subset, MinIn
  <2>. DEFINE m == Min(Free(gtab, NoGroup))
  <2>3. m \in Groups /\ gtab[m] = NoGroup
    BY <2>1, <2>2 DEF Free
  <2>. HIDE DEF m
  <2>4. m \notin GroupsThere /\ m # None
    BY <2>3, SlotsAssumption DEF GroupsThere, None
  <2>. QED  BY <2>3, <2>4 DEF m
<1>1. gtab' = [gtab EXCEPT ![g0] =
                 [name |-> name, eps |-> {}, devs |-> routes, acc |-> routes,
                  attachs |-> DevicesThere, inuse |-> 1, tick |-> 0, dead |-> FALSE]]
  BY <1>0 DEF OpenNew
<1>2. /\ kept' = [kept EXCEPT ![g0] = 0]
      /\ since' = [since EXCEPT ![g0] = [d \in Devices |-> IF d \in routes THEN 0 ELSE Forgotten]]
      /\ loc' = [loc EXCEPT ![t] = [Idle EXCEPT !.at = "join", !.g = g0, !.devs = DevicesThere]]
  BY <1>0 DEF OpenNew
<1>3. routes \subseteq DevicesThere
  OBVIOUS
<1>. HIDE DEF routes
<1>4. /\ gtab' \in [Groups -> GroupRecords \cup {NoGroup}]
      /\ \A g \in Groups \ {g0} : gtab'[g] = gtab[g]
      /\ gtab'[g0].eps = {} /\ gtab'[g0].devs = routes /\ gtab'[g0].acc = routes
      /\ gtab'[g0].attachs = DevicesThere /\ gtab'[g0].inuse = 1 /\ gtab'[g0].dead = FALSE
      /\ gtab'[g0] # NoGroup
  <2>1. gtab'[g0] \in GroupRecords
    BY <1>0, <1>1, <1>3, TablesType, TimesAssumption DEF GroupRecords, TypeOK
  <2>2. \A g \in Groups \ {g0} : gtab'[g] = gtab[g]
    BY <1>1
  <2>3. /\ gtab'[g0].eps = {} /\ gtab'[g0].devs = routes /\ gtab'[g0].acc = routes
        /\ gtab'[g0].attachs = DevicesThere /\ gtab'[g0].inuse = 1 /\ gtab'[g0].dead = FALSE
    BY <1>0, <1>1 DEF TypeOK
  <2>4. gtab' \in [Groups -> GroupRecords \cup {NoGroup}]
    BY <1>1, <2>1, <2>2 DEF TypeOK
  <2>. QED  BY <2>1, <2>2, <2>3, <2>4, GroupNames
<1>5. GroupsThere' = GroupsThere \cup {g0} /\ Live' = Live \cup {g0}
  <2>1. GroupsThere' = GroupsThere \cup {g0}
    BY <1>0, <1>4 DEF GroupsThere
  <2>2. \A g \in GroupsThere : gtab'[g] = gtab[g]
    BY <1>0, <1>4, TablesType
  <2>. QED  BY <1>4, <2>1, <2>2 DEF Live
<1>6. /\ loc[t].at = "idle" /\ loc[t].eps = {} /\ loc[t].devs = {} /\ loc[t].groups = {}
      /\ loc[t].lost = {} /\ loc[t].g = None /\ t \in Threads
  BY Apart DEF OpenNew, At, Core, Sound, Shape
<1>7. /\ loc' \in [Threads -> ThreadRecords] /\ \A u \in Threads \ {t} : loc'[u] = loc[u]
      /\ loc'[t].at = "join" /\ loc'[t].eps = {} /\ loc'[t].devs = DevicesThere
      /\ loc'[t].groups = {} /\ loc'[t].dead = {} /\ loc'[t].lost = {} /\ loc'[t].g = g0
  BY <1>0, <1>2, <1>6, TablesType DEF Idle, TypeOK, ThreadRecords, Places
<1>8. SameDevices /\ \A d \in DevicesThere : dtab'[d].inuse = dtab[d].inuse + 1
  <2>1. gone' = gone /\ dtab' = Count(dtab, DevicesThere, 1)
    BY DEF OpenNew, others
  <2>. QED  BY <2>1, CountUp DEF One
<1>9. SameEndpoints /\ etab' = etab
  BY NoCount DEF OpenNew
<1>10. UNCHANGED <<divider, up>> /\ opens' \in 0 .. MaxOpens
  BY TimesAssumption DEF OpenNew, others, TypeOK
<1>11. /\ kept' \in [Groups -> Nat] /\ kept'[g0] = 0 /\ \A g \in GroupsThere : kept'[g] = kept[g]
       /\ since' \in [Groups -> [Devices -> 0 .. Forgotten]]
       /\ \A g \in GroupsThere : since'[g] = since[g]
       /\ \A d \in Devices : since'[g0][d] = IF d \in routes THEN 0 ELSE Forgotten
  BY <1>0, <1>2, TablesType, TimesAssumption DEF TypeOK, Forgotten
<1>12. TypeOK'
  BY <1>4, <1>7, <1>8, <1>9, <1>10, <1>11 DEF TypeOK, SameDevices, SameEndpoints
<1>13. ASSUME NEW u \in Threads
       PROVE  Sound(u)'
  <2>1. CASE u = t
    BY <1>0, <1>5, <1>6, <1>7, <1>8, <2>1, Apart
       DEF Sound, Shape, Held, Linked, PlacesOf, WithEndpoint, SameDevices, Countable
  <2>2. CASE u # t
    <3>. loc'[u] = loc[u] /\ Sound(u)
      BY <1>7, <2>2 DEF Core
    <3>1. Shape(u)' /\ Held(u)'
      BY <1>5, <1>8, <1>9 DEF Sound, Shape, Held, SameDevices, SameEndpoints, Countable
    <3>2. u \in Users => Linked(u)'
      BY <1>0, <1>4, <1>5, <1>9, TablesType DEF Sound, Linked, SameEndpoints
    <3>. QED  BY <3>1, <3>2 DEF Sound
  <2>. QED  BY <2>1, <2>2
<1>14. Distinct'
  BY <1>7, Apart DEF Core, Distinct, WithEndpoint
<1>15. Members' /\ Masks' /\ Joined'
  <2>1. \A g \in GroupsThere : gtab'[g] = gtab[g] /\ g # g0
    BY <1>0, <1>4, TablesType
  <2>2. loc'[Net] = loc[Net]
    BY <1>7, Apart
  <2>3. Members'
    BY <1>4, <1>5, <1>9, <2>1 DEF Core, Members, SameEndpoints
  <2>4. Masks'
    BY <1>3, <1>4, <1>5, <1>8, <2>1, <2>2, TablesType DEF Core, Masks, SameDevices, Countable
  <2>5. Joined'
    BY <1>4, <1>5, <1>8, <2>1, <2>2, TablesType DEF Core, Joined, SameDevices
  <2>. QED  BY <2>3, <2>4, <2>5
<1>16. Buried' /\ Phase' = Phase
  BY <1>5, <1>7, <1>10, Apart DEF Core, Buried, Phase
<1>17. Routed'
  <2>. SUFFICES ASSUME NEW g \in Live \cup {g0}, NEW d \in Devices
                PROVE  /\ d \in gtab'[g].acc <=> since'[g][d] <= Phase
                       /\ d \in gtab'[g].devs <=> since'[g][d] <= 2 * Life + Phase
                       /\ d \notin DevicesThere => since'[g][d] = Forgotten
    BY <1>5, <1>8, <1>16 DEF Routed, SameDevices
  <2>1. CASE g = g0
    <3>1. Forgotten > 2 * Life + Phase /\ Forgotten > Phase /\ 0 <= Phase /\ 0 <= 2 * Life + Phase
      BY PhaseType, TimesAssumption DEF Forgotten
    <3>2. CASE d \in routes
      BY <1>3, <1>4, <1>11, <2>1, <3>1, <3>2
    <3>3. CASE d \notin routes
      <4>1. since'[g][d] = Forgotten /\ Forgotten \in Int /\ Phase \in Int /\ 2 * Life \in Int
        BY <1>11, <2>1, <3>3, PhaseType, TimesAssumption DEF Forgotten
      <4>. QED  BY <1>4, <2>1, <3>1, <3>3, <4>1
    <3>. QED  BY <3>2, <3>3
  <2>2. CASE g \in Live
    BY <1>0, <1>4, <1>11, <2>2, TablesType DEF Core, Routed
  <2>. QED  BY <2>1, <2>2
<1>18. EpsCounts'
  <2>1. \A h : Cardinality(EpsUsers(h)') = Cardinality(EpsUsers(h)) + 0 - 0
    BY <1>6, <1>7, UsersMove DEF One
  <2>. QED  BY <1>9, <2>1, UsersType DEF Core, EpsCounts, SameEndpoints
<1>19. DevCounts'
  <2>. SUFFICES ASSUME NEW d \in Countable
                PROVE  InUse(d)' = Cardinality(DevUsers(d)') + Cardinality(DeadAt(d)') + Adding(d)'
    BY <1>8 DEF DevCounts, SameDevices, Countable
  <2>1. Cardinality(DevUsers(d)') = Cardinality(DevUsers(d)) + One(d \in DevicesThere) - 0
    BY <1>6, <1>7, UsersMove DEF One
  <2>2. DeadAt(d)' = DeadAt(d) /\ Adding(d)' = Adding(d)
    <3>1. \A g \in GroupsThere : gtab'[g] = gtab[g]
      BY <1>0, <1>4, TablesType
    <3>. QED  BY <1>0, <1>5, <1>7, <3>1, Apart, TablesType DEF DeadAt, Adding
  <2>3. InUse(d)' = InUse(d) + One(d \in DevicesThere)
    BY <1>8, TablesType DEF InUse, SameDevices, Countable, One, Core, Masks, TypeOK
  <2>4. InUse(d) = Cardinality(DevUsers(d)) + Cardinality(DeadAt(d)) + Adding(d)
    BY DEF Core, DevCounts
  <2>. QED  BY <2>1, <2>2, <2>3, <2>4, UsersType, DeadType DEF One
<1>20. GroupCounts'
  <2>1. \A g : /\ Cardinality(GroupUsers(g)') = Cardinality(GroupUsers(g)) + 0 - 0
               /\ Cardinality(Owners(g)') = Cardinality(Owners(g)) + One(g = g0) - One(g = None)
    BY <1>6, <1>7, UsersMove DEF One
  <2>2. GroupUsers(g0) = {} /\ Owners(g0) = {}
    BY <1>0, TablesType DEF GroupUsers, Owners, Core, Sound, Held
  <2>3. gtab'[g0].inuse = kept'[g0] + Cardinality(GroupUsers(g0)') + Cardinality(Owners(g0)')
    <3>1. Cardinality(GroupUsers(g0)) = 0 /\ Cardinality(Owners(g0)) = 0
      BY <2>2, FS_EmptySet
    <3>2. Cardinality(GroupUsers(g0)') = 0 /\ Cardinality(Owners(g0)') = 1
      BY <1>0, <2>1, <3>1 DEF One
    <3>. QED  BY <1>4, <1>11, <3>2
  <2>4. ASSUME NEW g \in GroupsThere
        PROVE  gtab'[g].inuse = kept'[g] + Cardinality(GroupUsers(g)') + Cardinality(Owners(g)')
    <3>1. g # g0 /\ g # None /\ gtab'[g] = gtab[g] /\ kept'[g] = kept[g]
      <4>1. g \in Groups \ {g0} /\ g # None
        BY <1>0, TablesType, SlotsAssumption DEF None
      <4>. QED  BY <1>4, <1>11, <4>1
    <3>2. kept[g] \in Nat
      BY TablesType DEF TypeOK
    <3>. QED  BY <2>1, <3>1, <3>2, UsersType DEF One, Core, GroupCounts
  <2>5. \A g \in GroupsThere' :
          gtab'[g].inuse = kept'[g] + Cardinality(GroupUsers(g)') + Cardinality(Owners(g)')
    BY <1>5, <2>3, <2>4
  <2>. QED  BY <2>5 DEF GroupCounts
<1>. QED  BY <1>12, <1>13, <1>14, <1>15, <1>16, <1>17, <1>18, <1>19, <1>20 DEF Core

LEMMA FreeSlot ==
  ASSUME TypeOK
  PROVE  /\ EndpointsThere # Endpoints =>
              \E h \in Endpoints : h = Min(Free(etab, NoEndpoint)) /\ h \notin EndpointsThere
         /\ DevicesThere # Devices =>
              \E d \in Devices : d = Min(Free(dtab, NoDevice)) /\ d \notin DevicesThere
<1>1. ASSUME EndpointsThere # Endpoints
      PROVE  \E h \in Endpoints : h = Min(Free(etab, NoEndpoint)) /\ h \notin EndpointsThere
  <2>1. Free(etab, NoEndpoint) = Endpoints \ EndpointsThere
    BY DEF Free, EndpointsThere, TypeOK
  <2>2. Free(etab, NoEndpoint) \in SUBSET Nat /\ Free(etab, NoEndpoint) # {}
    BY <1>1, <2>1, TablesType, SlotsAssumption
  <2>3. IsFiniteSet(Free(etab, NoEndpoint))
    BY <2>1, SlotsAssumption, FS_Subset
  <2>4. Min(Free(etab, NoEndpoint)) \in Free(etab, NoEndpoint)
    BY <2>2, <2>3, MinIn
  <2>. QED  BY <2>1, <2>4
<1>2. ASSUME DevicesThere # Devices
      PROVE  \E d \in Devices : d = Min(Free(dtab, NoDevice)) /\ d \notin DevicesThere
  <2>1. Free(dtab, NoDevice) = Devices \ DevicesThere
    BY DEF Free, DevicesThere, TypeOK
  <2>2. Free(dtab, NoDevice) \in SUBSET Nat /\ Free(dtab, NoDevice) # {}
    BY <1>2, <2>1, TablesType, SlotsAssumption
  <2>3. IsFiniteSet(Free(dtab, NoDevice))
    BY <2>1, SlotsAssumption, FS_Subset
  <2>4. Min(Free(dtab, NoDevice)) \in Free(dtab, NoDevice)
    BY <2>2, <2>3, MinIn
  <2>. QED  BY <2>1, <2>4
<1>. QED  BY <1>1, <1>2

LEMMA OpenSlotInv ==
  ASSUME TypeOK, Core, NEW t \in Users, OpenSlot(t)
  PROVE  TypeOK' /\ Core'
<1>1. PICK h0 \in Endpoints : h0 = Min(Free(etab, NoEndpoint)) /\ h0 \notin EndpointsThere
  BY FreeSlot DEF OpenSlot
<1>2. /\ loc[t].at = "slot" /\ loc[t].eps = {} /\ loc[t].devs = {} /\ loc[t].groups = {}
      /\ loc[t].lost = {} /\ loc[t].g # None /\ t \in Threads /\ loc[t].g \in Live /\ Sound(t)
  BY Apart DEF OpenSlot, At, Core, Sound, Shape, Held
<1>3. PICK g0 \in Live : g0 = loc[t].g
  BY <1>2
<1>4. /\ etab' = [etab EXCEPT ![h0] = [group |-> g0, inuse |-> 0]]
      /\ gtab' = [gtab EXCEPT ![g0].eps = @ \cup {h0}]
      /\ kept' = [kept EXCEPT ![g0] = @ + 1]
      /\ loc' = [loc EXCEPT ![t] = [Idle EXCEPT !.h = h0,
                   !.at = IF gtab[g0].eps = {} THEN "announce" ELSE "open"]]
  BY <1>1, <1>3 DEF OpenSlot
<1>5. g0 \in Groups /\ g0 \in GroupsThere /\ g0 # None /\ gtab[g0] \in GroupRecords
  BY TablesType, SlotsAssumption DEF None
<1>6. /\ gtab'[g0] \in GroupRecords /\ gtab'[g0].eps = gtab[g0].eps \cup {h0}
      /\ gtab'[g0].devs = gtab[g0].devs /\ gtab'[g0].acc = gtab[g0].acc
      /\ gtab'[g0].attachs = gtab[g0].attachs /\ gtab'[g0].inuse = gtab[g0].inuse
      /\ gtab'[g0].dead = gtab[g0].dead
      /\ \A g \in Groups \ {g0} : gtab'[g] = gtab[g]
  BY <1>4, <1>5 DEF GroupRecords, TypeOK
<1>7. /\ gtab' \in [Groups -> GroupRecords \cup {NoGroup}]
      /\ GroupsThere' = GroupsThere /\ Live' = Live
  <2>1. gtab' \in [Groups -> GroupRecords \cup {NoGroup}]
    BY <1>4, <1>6 DEF TypeOK
  <2>2. GroupsThere' = GroupsThere
    BY <1>5, <1>6, GroupNames DEF GroupsThere
  <2>3. \A g \in GroupsThere : gtab'[g].dead = gtab[g].dead
    BY <1>6, TablesType
  <2>. QED  BY <2>1, <2>2, <2>3 DEF Live
<1>8. /\ etab' \in [Endpoints -> EndpointRecords \cup {NoEndpoint}]
      /\ EndpointsThere' = EndpointsThere \cup {h0}
      /\ etab'[h0].group = g0 /\ etab'[h0].inuse = 0
      /\ \A h \in Endpoints \ {h0} : etab'[h] = etab[h]
  <2>1. etab'[h0] \in EndpointRecords /\ etab'[h0].group = g0 /\ etab'[h0].inuse = 0
    BY <1>4, <1>5 DEF TypeOK, EndpointRecords
  <2>2. \A h \in Endpoints \ {h0} : etab'[h] = etab[h]
    BY <1>4
  <2>3. etab' \in [Endpoints -> EndpointRecords \cup {NoEndpoint}]
    BY <1>4, <2>1, <2>2 DEF TypeOK
  <2>. QED  BY <2>1, <2>2, <2>3, EndpointNames DEF EndpointsThere
<1>9. /\ loc' \in [Threads -> ThreadRecords] /\ \A u \in Threads \ {t} : loc'[u] = loc[u]
      /\ loc'[t].at \in {"announce", "open"} /\ loc'[t].eps = {} /\ loc'[t].devs = {}
      /\ loc'[t].groups = {} /\ loc'[t].dead = {} /\ loc'[t].lost = {} /\ loc'[t].g = None
      /\ loc'[t].h = h0
  BY <1>2, <1>4 DEF Idle, TypeOK, ThreadRecords, Places
<1>10. UNCHANGED <<dtab, gone, divider, up, since, DevicesThere, Countable>>
       /\ opens' \in 0 .. MaxOpens
  BY DEF OpenSlot, others, TypeOK, DevicesThere, Countable
<1>11. /\ kept' \in [Groups -> Nat] /\ kept'[g0] = kept[g0] + 1
       /\ \A g \in Groups \ {g0} : kept'[g] = kept[g]
  BY <1>4, <1>5 DEF TypeOK
<1>12. TypeOK'
  BY <1>7, <1>8, <1>9, <1>10, <1>11 DEF TypeOK
<1>13. ASSUME NEW u \in Threads
       PROVE  Sound(u)'
  <2>1. CASE u = t
    BY <1>6, <1>7, <1>8, <1>9, <2>1, Apart
       DEF Sound, Shape, Held, Linked, PlacesOf, WithEndpoint
  <2>2. CASE u # t
    <3>. loc'[u] = loc[u] /\ Sound(u)
      BY <1>9, <2>2 DEF Core
    <3>1. Shape(u)' /\ Held(u)'
      BY <1>7, <1>8, <1>10 DEF Sound, Shape, Held
    <3>2. u \in Users => Linked(u)'
      BY <1>1, <1>6, <1>7, <1>8, TablesType DEF Sound, Linked, WithEndpoint
    <3>. QED  BY <3>1, <3>2 DEF Sound
  <2>. QED  BY <2>1, <2>2
<1>14. Distinct'
  <2>1. \A u \in Users \ {t} : /\ loc'[u] = loc[u]
                               /\ loc[u].at \in WithEndpoint => loc[u].h # h0
    BY <1>1, <1>9, Apart DEF Core, Sound, Linked
  <2>. QED  BY <1>9, <2>1 DEF Core, Distinct
<1>15. Members'
  <2>1. \A g \in GroupsThere : \A h \in gtab[g].eps : h \in EndpointsThere /\ etab[h].group = g
    BY DEF Core, Members
  <2>2. \A g \in GroupsThere \ {g0} : gtab'[g] = gtab[g]
    BY <1>6, TablesType
  <2>3. \A h \in EndpointsThere : etab'[h] = etab[h]
    BY <1>1, <1>8, TablesType
  <2>. QED  BY <1>6, <1>7, <1>8, <2>1, <2>2, <2>3 DEF Members
<1>16. /\ loc'[Net] = loc[Net] /\ loc'[Ticker] = loc[Ticker]
       /\ \A g \in GroupsThere : /\ gtab'[g].devs = gtab[g].devs /\ gtab'[g].acc = gtab[g].acc
                                 /\ gtab'[g].attachs = gtab[g].attachs
                                 /\ gtab'[g].inuse = gtab[g].inuse
  BY <1>6, <1>9, Apart, TablesType
<1>17. Masks' /\ Joined' /\ Buried' /\ Phase' = Phase
  BY <1>7, <1>10, <1>16, TablesType DEF Core, Masks, Joined, Buried, Phase
<1>18. Routed'
  BY <1>7, <1>10, <1>16, <1>17, TablesType DEF Core, Routed
<1>19. EpsCounts'
  <2>1. \A h : Cardinality(EpsUsers(h)') = Cardinality(EpsUsers(h)) + 0 - 0
    BY <1>2, <1>9, UsersMove DEF One
  <2>2. EpsUsers(h0) = {}
    BY <1>1 DEF EpsUsers, Core, Sound, Held
  <2>3. Cardinality(EpsUsers(h0)') = 0
    BY <2>1, <2>2, FS_EmptySet
  <2>4. \A h \in EndpointsThere : etab'[h].inuse = Cardinality(EpsUsers(h)')
    BY <1>1, <1>8, <2>1, UsersType, TablesType DEF Core, EpsCounts
  <2>. QED  BY <1>8, <2>3, <2>4 DEF EpsCounts
<1>20. DevCounts'
  <2>. SUFFICES ASSUME NEW d \in Countable
                PROVE  InUse(d)' = Cardinality(DevUsers(d)') + Cardinality(DeadAt(d)') + Adding(d)'
    BY <1>10 DEF DevCounts
  <2>1. Cardinality(DevUsers(d)') = Cardinality(DevUsers(d)) + 0 - 0
    BY <1>2, <1>9, UsersMove DEF One
  <2>2. DeadAt(d)' = DeadAt(d) /\ Adding(d)' = Adding(d) /\ InUse(d)' = InUse(d)
    BY <1>7, <1>10, <1>16 DEF DeadAt, Adding, InUse
  <2>. QED  BY <2>1, <2>2, UsersType DEF Core, DevCounts
<1>21. GroupCounts'
  <2>. SUFFICES ASSUME NEW g \in GroupsThere
                PROVE  gtab'[g].inuse = kept'[g] + Cardinality(GroupUsers(g)') + Cardinality(Owners(g)')
    BY <1>7 DEF GroupCounts
  <2>0. g \in Groups /\ g # None
    BY TablesType, SlotsAssumption DEF None
  <2>1. g \in Groups /\ g # None /\ kept[g] \in Nat
    BY <2>0 DEF TypeOK
  <2>2. /\ Cardinality(GroupUsers(g)') = Cardinality(GroupUsers(g)) + 0 - 0
        /\ Cardinality(Owners(g)') = Cardinality(Owners(g)) + 0 - One(g = g0)
    BY <1>2, <1>3, <1>9, <2>1, UsersMove DEF One
  <2>3. kept'[g] = kept[g] + One(g = g0)
    BY <1>11, <2>1 DEF One
  <2>4. gtab'[g].inuse = kept[g] + Cardinality(GroupUsers(g)) + Cardinality(Owners(g))
    BY <1>16 DEF Core, GroupCounts
  <2>. QED  BY <2>1, <2>2, <2>3, <2>4, UsersType DEF One
<1>. QED  BY <1>12, <1>13, <1>14, <1>15, <1>17, <1>18, <1>19, <1>20, <1>21 DEF Core

LEMMA CloseBeginInv ==
  ASSUME TypeOK, Core, NEW t \in Users, CloseBegin(t)
  PROVE  TypeOK' /\ Core'
<1>1. /\ loc[t].at = "open" /\ loc[t].eps = {} /\ loc[t].devs = {} /\ loc[t].groups = {}
      /\ loc[t].dead = {} /\ loc[t].lost = {} /\ loc[t].g = None /\ t \in Threads /\ Sound(t)
  BY Apart DEF CloseBegin, At, Core, Sound, Shape
<1>2. PICK h0 \in EndpointsThere : h0 = loc[t].h
  BY <1>1 DEF Sound, Linked, WithEndpoint
<1>3. PICK g0 \in Live : g0 = etab[h0].group
  BY <1>1, <1>2 DEF Sound, Linked, WithEndpoint
<1>4. /\ etab' = [etab EXCEPT ![h0].group = None]
      /\ gtab' = [gtab EXCEPT ![g0].eps = @ \ {h0}]
      /\ loc' = [loc EXCEPT ![t].at = "closing"]
  BY <1>2, <1>3 DEF CloseBegin
<1>5. /\ g0 \in Groups /\ g0 \in GroupsThere /\ gtab[g0] \in GroupRecords
      /\ h0 \in Endpoints /\ etab[h0] \in EndpointRecords
  BY TablesType
<1>6. /\ gtab'[g0] \in GroupRecords /\ gtab'[g0].eps = gtab[g0].eps \ {h0}
      /\ gtab'[g0].devs = gtab[g0].devs /\ gtab'[g0].acc = gtab[g0].acc
      /\ gtab'[g0].attachs = gtab[g0].attachs /\ gtab'[g0].inuse = gtab[g0].inuse
      /\ gtab'[g0].dead = gtab[g0].dead
      /\ \A g \in Groups \ {g0} : gtab'[g] = gtab[g]
  BY <1>4, <1>5 DEF GroupRecords, TypeOK
<1>7. /\ gtab' \in [Groups -> GroupRecords \cup {NoGroup}]
      /\ GroupsThere' = GroupsThere /\ Live' = Live
  <2>1. gtab' \in [Groups -> GroupRecords \cup {NoGroup}]
    BY <1>4, <1>6 DEF TypeOK
  <2>2. GroupsThere' = GroupsThere
    BY <1>5, <1>6, GroupNames DEF GroupsThere
  <2>3. \A g \in GroupsThere : gtab'[g].dead = gtab[g].dead
    BY <1>6, TablesType
  <2>. QED  BY <2>1, <2>2, <2>3 DEF Live
<1>8. /\ etab' \in [Endpoints -> EndpointRecords \cup {NoEndpoint}]
      /\ EndpointsThere' = EndpointsThere
      /\ etab'[h0].group = None /\ etab'[h0].inuse = etab[h0].inuse
      /\ \A h \in Endpoints \ {h0} : etab'[h] = etab[h]
  <2>1. /\ etab'[h0] \in EndpointRecords /\ etab'[h0].group = None
        /\ etab'[h0].inuse = etab[h0].inuse
    BY <1>4, <1>5 DEF TypeOK, EndpointRecords
  <2>2. \A h \in Endpoints \ {h0} : etab'[h] = etab[h]
    BY <1>4
  <2>3. etab' \in [Endpoints -> EndpointRecords \cup {NoEndpoint}]
    BY <1>4, <2>1, <2>2 DEF TypeOK
  <2>. QED  BY <2>1, <2>2, <2>3, EndpointNames DEF EndpointsThere
<1>9. /\ loc' \in [Threads -> ThreadRecords] /\ \A u \in Threads \ {t} : loc'[u] = loc[u]
      /\ loc'[t].at = "closing" /\ loc'[t].eps = {} /\ loc'[t].devs = {}
      /\ loc'[t].groups = {} /\ loc'[t].dead = {} /\ loc'[t].lost = {} /\ loc'[t].g = None
      /\ loc'[t].h = h0
  BY <1>1, <1>2, <1>4, SMTT(30) DEF TypeOK, ThreadRecords, Places
<1>10. UNCHANGED <<dtab, gone, divider, up, kept, since, opens, DevicesThere, Countable>>
  BY DEF CloseBegin, others, history, DevicesThere, Countable
<1>12. TypeOK'
  BY <1>7, <1>8, <1>9, <1>10 DEF TypeOK
<1>13. ASSUME NEW u \in Threads
       PROVE  Sound(u)'
  <2>1. CASE u = t
    BY <1>2, <1>7, <1>8, <1>9, <2>1, Apart
       DEF Sound, Shape, Held, Linked, PlacesOf, WithEndpoint
  <2>2. CASE u # t
    <3>. loc'[u] = loc[u] /\ Sound(u)
      BY <1>9, <2>2 DEF Core
    <3>1. Shape(u)' /\ Held(u)'
      BY <1>7, <1>8, <1>10 DEF Sound, Shape, Held
    <3>2. ASSUME u \in Users
          PROVE  Linked(u)'
      <4>1. loc[u].at \in WithEndpoint => loc[u].h # h0
        BY <1>1, <1>2, <2>2, <3>2 DEF Core, Distinct, WithEndpoint
      <4>2. \A h : h # h0 => \A g \in Live : h \in gtab'[g].eps <=> h \in gtab[g].eps
        BY <1>6, TablesType
      <4>. QED  BY <1>7, <1>8, <3>2, <4>1, <4>2, TablesType DEF Sound, Linked, WithEndpoint
    <3>. QED  BY <3>1, <3>2 DEF Sound
  <2>. QED  BY <2>1, <2>2
<1>14. Distinct'
  <2>1. \A u \in Users : loc'[u].h = loc[u].h /\ (loc'[u].at \in WithEndpoint => loc[u].at \in WithEndpoint)
    BY <1>1, <1>2, <1>9, Apart DEF WithEndpoint
  <2>. QED  BY <2>1 DEF Core, Distinct
<1>15. Members'
  <2>. SUFFICES ASSUME NEW g \in GroupsThere, NEW h \in gtab'[g].eps
                PROVE  h \in EndpointsThere /\ etab'[h].group = g
    BY <1>7, <1>8 DEF Members
  <2>1. h \in gtab[g].eps /\ (g = g0 => h # h0)
    BY <1>6, TablesType
  <2>2. h \in EndpointsThere /\ etab[h].group = g
    BY <2>1 DEF Core, Members
  <2>3. h # h0
    BY <1>3, <2>1, <2>2
  <2>. QED  BY <1>8, <2>2, <2>3, TablesType
<1>16. /\ loc'[Net] = loc[Net] /\ loc'[Ticker] = loc[Ticker]
       /\ \A g \in GroupsThere : /\ gtab'[g].devs = gtab[g].devs /\ gtab'[g].acc = gtab[g].acc
                                 /\ gtab'[g].attachs = gtab[g].attachs
                                 /\ gtab'[g].inuse = gtab[g].inuse
  BY <1>6, <1>9, Apart, TablesType
<1>17. Masks' /\ Joined' /\ Buried' /\ Phase' = Phase
  BY <1>7, <1>10, <1>16, TablesType DEF Core, Masks, Joined, Buried, Phase
<1>18. Routed'
  BY <1>7, <1>10, <1>16, <1>17, TablesType DEF Core, Routed
<1>19. EpsCounts'
  <2>1. \A h : Cardinality(EpsUsers(h)') = Cardinality(EpsUsers(h)) + 0 - 0
    BY <1>1, <1>9, UsersMove DEF One
  <2>2. \A h \in EndpointsThere : etab'[h].inuse = etab[h].inuse
    BY <1>8, TablesType
  <2>. QED  BY <1>8, <2>1, <2>2, UsersType DEF Core, EpsCounts
<1>20. DevCounts'
  <2>. SUFFICES ASSUME NEW d \in Countable
                PROVE  InUse(d)' = Cardinality(DevUsers(d)') + Cardinality(DeadAt(d)') + Adding(d)'
    BY <1>10 DEF DevCounts
  <2>1. Cardinality(DevUsers(d)') = Cardinality(DevUsers(d)) + 0 - 0
    BY <1>1, <1>9, UsersMove DEF One
  <2>2. DeadAt(d)' = DeadAt(d) /\ Adding(d)' = Adding(d) /\ InUse(d)' = InUse(d)
    BY <1>7, <1>10, <1>16 DEF DeadAt, Adding, InUse
  <2>. QED  BY <2>1, <2>2, UsersType DEF Core, DevCounts
<1>21. GroupCounts'
  <2>. SUFFICES ASSUME NEW g \in GroupsThere
                PROVE  gtab'[g].inuse = kept[g] + Cardinality(GroupUsers(g)') + Cardinality(Owners(g)')
    BY <1>7, <1>10 DEF GroupCounts
  <2>0. g \in Groups /\ g # None
    BY TablesType, SlotsAssumption DEF None
  <2>2. /\ Cardinality(GroupUsers(g)') = Cardinality(GroupUsers(g)) + 0 - 0
        /\ Cardinality(Owners(g)') = Cardinality(Owners(g)) + 0 - 0
    BY <1>1, <1>9, <2>0, UsersMove DEF One
  <2>. QED  BY <1>16, <2>2, UsersType DEF Core, GroupCounts
<1>. QED  BY <1>12, <1>13, <1>14, <1>15, <1>17, <1>18, <1>19, <1>20, <1>21 DEF Core

LEMMA CloseEndInv ==
  ASSUME TypeOK, Core, NEW t \in Users, CloseEnd(t)
  PROVE  TypeOK' /\ Core'
<1>1. /\ loc[t].at = "closing" /\ loc[t].eps = {} /\ loc[t].devs = {} /\ loc[t].groups = {}
      /\ loc[t].dead = {} /\ loc[t].lost = {} /\ loc[t].g = None /\ t \in Threads /\ Sound(t)
  BY Apart DEF CloseEnd, At, Core, Sound, Shape
<1>2. PICK h0 \in EndpointsThere : h0 = loc[t].h
  BY <1>1 DEF Sound, Linked, WithEndpoint
<1>3. etab[h0].group = None /\ etab[h0].inuse = 0 /\ h0 \in Endpoints
  BY <1>1, <1>2, TablesType DEF Sound, Linked, CloseEnd
<1>4. /\ etab' = [etab EXCEPT ![h0] = NoEndpoint]
      /\ loc' = [loc EXCEPT ![t] = Idle]
  BY <1>2 DEF CloseEnd
<1>5. SameGroups /\ gtab' = gtab
  BY NoCount DEF CloseEnd
<1>6. /\ etab' \in [Endpoints -> EndpointRecords \cup {NoEndpoint}]
      /\ EndpointsThere' = EndpointsThere \ {h0}
      /\ \A h \in EndpointsThere \ {h0} : etab'[h] = etab[h]
  BY <1>3, <1>4, TablesType DEF TypeOK, EndpointsThere
<1>7. /\ loc' \in [Threads -> ThreadRecords] /\ \A u \in Threads \ {t} : loc'[u] = loc[u]
      /\ loc'[t].at = "idle" /\ loc'[t].eps = {} /\ loc'[t].devs = {}
      /\ loc'[t].groups = {} /\ loc'[t].dead = {} /\ loc'[t].lost = {} /\ loc'[t].g = None
  BY <1>1, <1>4 DEF Idle, TypeOK, ThreadRecords, Places
<1>8. UNCHANGED <<dtab, gone, divider, up, kept, since, opens, DevicesThere, Countable>>
  BY DEF CloseEnd, others, history, DevicesThere, Countable
<1>9. TypeOK'
  BY <1>5, <1>6, <1>7, <1>8 DEF TypeOK
<1>10. \A g \in GroupsThere : h0 \notin gtab[g].eps
  BY <1>3, TablesType, SlotsAssumption DEF Core, Members, None
<1>11. \A u \in Threads : h0 \notin loc[u].eps
  BY <1>3, CountedIsInUse
<1>12. ASSUME NEW u \in Threads
       PROVE  Sound(u)'
  <2>1. CASE u = t
    BY <1>7, <2>1, Apart DEF Sound, Shape, Held, Linked, PlacesOf, WithEndpoint
  <2>2. CASE u # t
    <3>. loc'[u] = loc[u] /\ Sound(u)
      BY <1>7, <2>2 DEF Core
    <3>1. Shape(u)' /\ Held(u)'
      BY <1>5, <1>6, <1>8, <1>11 DEF Sound, Shape, Held, SameGroups
    <3>2. ASSUME u \in Users
          PROVE  Linked(u)'
      <4>1. loc[u].at \in WithEndpoint => loc[u].h # h0
        BY <1>1, <1>2, <2>2, <3>2 DEF Core, Distinct, WithEndpoint
      <4>. QED  BY <1>5, <1>6, <3>2, <4>1 DEF Sound, Linked, SameGroups, WithEndpoint
    <3>. QED  BY <3>1, <3>2 DEF Sound
  <2>. QED  BY <2>1, <2>2
<1>13. Distinct'
  BY <1>7, Apart DEF Core, Distinct, WithEndpoint
<1>14. Members'
  BY <1>5, <1>6, <1>10 DEF Core, Members, SameGroups
<1>15. loc'[Net] = loc[Net] /\ loc'[Ticker] = loc[Ticker]
  BY <1>7, Apart
<1>16. Masks' /\ Joined' /\ Buried' /\ Phase' = Phase /\ Routed'
  BY <1>5, <1>8, <1>15 DEF Core, Masks, Joined, Buried, Phase, Routed, SameGroups
<1>17. EpsCounts'
  <2>1. \A h : Cardinality(EpsUsers(h)') = Cardinality(EpsUsers(h)) + 0 - 0
    BY <1>1, <1>7, UsersMove DEF One
  <2>. QED  BY <1>6, <2>1, UsersType DEF Core, EpsCounts
<1>18. DevCounts'
  <2>. SUFFICES ASSUME NEW d \in Countable
                PROVE  InUse(d)' = Cardinality(DevUsers(d)') + Cardinality(DeadAt(d)') + Adding(d)'
    BY <1>8 DEF DevCounts
  <2>1. Cardinality(DevUsers(d)') = Cardinality(DevUsers(d)) + 0 - 0
    BY <1>1, <1>7, UsersMove DEF One
  <2>2. DeadAt(d)' = DeadAt(d) /\ Adding(d)' = Adding(d) /\ InUse(d)' = InUse(d)
    BY <1>5, <1>8, <1>15 DEF DeadAt, Adding, InUse, SameGroups
  <2>. QED  BY <2>1, <2>2, UsersType DEF Core, DevCounts
<1>19. GroupCounts'
  <2>. SUFFICES ASSUME NEW g \in GroupsThere
                PROVE  gtab'[g].inuse = kept[g] + Cardinality(GroupUsers(g)') + Cardinality(Owners(g)')
    BY <1>5, <1>8 DEF GroupCounts, SameGroups
  <2>0. g \in Groups /\ g # None
    BY TablesType, SlotsAssumption DEF None
  <2>2. /\ Cardinality(GroupUsers(g)') = Cardinality(GroupUsers(g)) + 0 - 0
        /\ Cardinality(Owners(g)') = Cardinality(Owners(g)) + 0 - 0
    BY <1>1, <1>7, <2>0, UsersMove DEF One
  <2>. QED  BY <1>5, <2>2, UsersType DEF Core, GroupCounts
<1>. QED  BY <1>9, <1>12, <1>13, <1>14, <1>16, <1>17, <1>18, <1>19 DEF Core

LEMMA HearInv ==
  ASSUME TypeOK, Core, Hear
  PROVE  TypeOK' /\ Core'
<1>1. /\ loc[Net].at = "hear" /\ loc[Net].eps = {} /\ loc[Net].devs = {} /\ loc[Net].groups = {}
      /\ loc[Net].dead = {} /\ loc[Net].lost = {} /\ loc[Net].g \in Live /\ Sound(Net)
      /\ loc[Net].h \in DevicesThere /\ Net \in Threads
  BY Apart DEF Hear, At, Core, Sound, Shape, Held
<1>2. PICK g0 \in Live, d0 \in DevicesThere : g0 = loc[Net].g /\ d0 = loc[Net].h
  BY <1>1
<1>3. /\ gtab' = [gtab EXCEPT ![g0].devs = @ \cup {d0}, ![g0].acc = @ \cup {d0}]
      /\ since' = [since EXCEPT ![g0][d0] = 0]
      /\ loc' = [loc EXCEPT ![Net].at = IF d0 \in gtab[g0].devs THEN "heard" ELSE "announce"]
  BY <1>2 DEF Hear
<1>4. /\ g0 \in Groups /\ g0 \in GroupsThere /\ gtab[g0] \in GroupRecords /\ d0 \in Devices
      /\ g0 # None
  BY TablesType, SlotsAssumption DEF None
<1>5. /\ gtab'[g0] \in GroupRecords /\ gtab'[g0].eps = gtab[g0].eps
      /\ gtab'[g0].devs = gtab[g0].devs \cup {d0} /\ gtab'[g0].acc = gtab[g0].acc \cup {d0}
      /\ gtab'[g0].attachs = gtab[g0].attachs /\ gtab'[g0].inuse = gtab[g0].inuse
      /\ gtab'[g0].dead = gtab[g0].dead
      /\ \A g \in Groups \ {g0} : gtab'[g] = gtab[g]
  BY <1>3, <1>4 DEF GroupRecords, TypeOK
<1>6. /\ gtab' \in [Groups -> GroupRecords \cup {NoGroup}]
      /\ GroupsThere' = GroupsThere /\ Live' = Live
  <2>1. gtab' \in [Groups -> GroupRecords \cup {NoGroup}]
    BY <1>3, <1>5 DEF TypeOK
  <2>2. GroupsThere' = GroupsThere
    BY <1>4, <1>5, GroupNames DEF GroupsThere
  <2>3. \A g \in GroupsThere : gtab'[g].dead = gtab[g].dead
    BY <1>5, TablesType
  <2>. QED  BY <2>1, <2>2, <2>3 DEF Live
<1>7. /\ loc' \in [Threads -> ThreadRecords] /\ \A u \in Threads \ {Net} : loc'[u] = loc[u]
      /\ loc'[Net].at \in {"heard", "announce"} /\ loc'[Net].eps = {} /\ loc'[Net].devs = {}
      /\ loc'[Net].groups = {} /\ loc'[Net].dead = {} /\ loc'[Net].lost = {}
      /\ loc'[Net].g = g0
  BY <1>1, <1>2, <1>3 DEF TypeOK, ThreadRecords, Places
<1>8. /\ UNCHANGED <<etab, dtab, gone, divider, up, kept, opens>>
      /\ UNCHANGED <<EndpointsThere, DevicesThere, Countable>>
  BY DEF Hear, others, EndpointsThere, DevicesThere, Countable
<1>9. /\ since' \in [Groups -> [Devices -> 0 .. Forgotten]] /\ since'[g0][d0] = 0
      /\ \A g \in Groups, d \in Devices : g # g0 \/ d # d0 => since'[g][d] = since[g][d]
  BY <1>3, <1>4, TimesAssumption DEF TypeOK, Forgotten
<1>10. TypeOK'
  BY <1>6, <1>7, <1>8, <1>9 DEF TypeOK
<1>11. \A g \in GroupsThere : /\ gtab'[g].eps = gtab[g].eps /\ gtab'[g].attachs = gtab[g].attachs
                              /\ gtab'[g].inuse = gtab[g].inuse
  BY <1>5, TablesType
<1>12. ASSUME NEW u \in Threads
       PROVE  Sound(u)'
  <2>1. CASE u = Net
    BY <1>4, <1>6, <1>7, <2>1, Apart DEF Sound, Shape, Held, PlacesOf, WithEndpoint
  <2>2. CASE u # Net
    <3>. loc'[u] = loc[u] /\ Sound(u)
      BY <1>7, <2>2 DEF Core
    <3>. QED  BY <1>6, <1>8, <1>11, TablesType DEF Sound, Shape, Held, Linked
  <2>. QED  BY <2>1, <2>2
<1>13. Distinct' /\ Members' /\ Buried' /\ Phase' = Phase
  BY <1>6, <1>7, <1>8, <1>11, Apart, TablesType DEF Core, Distinct, Members, Buried, Phase
<1>14. Masks' /\ Joined'
  <2>1. \A g \in Live : gtab'[g].devs \cup gtab'[g].acc \subseteq gtab[g].devs \cup gtab[g].acc \cup {d0}
    BY <1>5, TablesType
  <2>2. loc'[Net].at \notin {"removing", "adding"} /\ loc[Net].at \notin {"removing", "adding"}
    BY <1>1, <1>7
  <2>. QED  BY <1>6, <1>8, <1>11, <2>1, <2>2, TablesType DEF Core, Masks, Joined
<1>15. Routed'
  <2>. SUFFICES ASSUME NEW g \in Live, NEW d \in Devices
                PROVE  /\ d \in gtab'[g].acc <=> since'[g][d] <= Phase
                       /\ d \in gtab'[g].devs <=> since'[g][d] <= 2 * Life + Phase
                       /\ d \notin DevicesThere => since'[g][d] = Forgotten
    BY <1>6, <1>8, <1>13 DEF Routed
  <2>1. CASE g = g0 /\ d = d0
    <3>1. 0 <= Phase /\ 0 <= 2 * Life + Phase
      BY PhaseType, TimesAssumption
    <3>. QED  BY <1>5, <1>9, <2>1, <3>1
  <2>2. CASE g # g0 \/ d # d0
    BY <1>5, <1>9, <2>2, TablesType DEF Core, Routed
  <2>. QED  BY <2>1, <2>2
<1>16. EpsCounts'
  <2>1. \A h : Cardinality(EpsUsers(h)') = Cardinality(EpsUsers(h)) + 0 - 0
    BY <1>1, <1>7, UsersMove DEF One
  <2>. QED  BY <1>8, <2>1, UsersType DEF Core, EpsCounts
<1>17. DevCounts'
  <2>. SUFFICES ASSUME NEW d \in Countable
                PROVE  InUse(d)' = Cardinality(DevUsers(d)') + Cardinality(DeadAt(d)') + Adding(d)'
    BY <1>8 DEF DevCounts
  <2>1. Cardinality(DevUsers(d)') = Cardinality(DevUsers(d)) + 0 - 0
    BY <1>1, <1>7, UsersMove DEF One
  <2>2. DeadAt(d)' = DeadAt(d) /\ Adding(d)' = Adding(d) /\ InUse(d)' = InUse(d)
    BY <1>1, <1>6, <1>7, <1>8, <1>11 DEF DeadAt, Adding, InUse
  <2>. QED  BY <2>1, <2>2, UsersType DEF Core, DevCounts
<1>18. GroupCounts'
  <2>. SUFFICES ASSUME NEW g \in GroupsThere
                PROVE  gtab'[g].inuse = kept[g] + Cardinality(GroupUsers(g)') + Cardinality(Owners(g)')
    BY <1>6, <1>8 DEF GroupCounts
  <2>1. g \in Groups /\ kept[g] \in Nat
    BY TablesType DEF TypeOK
  <2>2. /\ Cardinality(GroupUsers(g)') = Cardinality(GroupUsers(g)) + 0 - 0
        /\ Cardinality(Owners(g)') = Cardinality(Owners(g)) + One(g = g0) - One(g = g0)
    BY <1>1, <1>2, <1>7, UsersMove DEF One
  <2>. QED  BY <1>11, <2>1, <2>2, UsersType DEF Core, GroupCounts, One
<1>. QED  BY <1>10, <1>12, <1>13, <1>14, <1>15, <1>16, <1>17, <1>18 DEF Core

LEMMA AddBeginInv ==
  ASSUME TypeOK, Core, AddBegin
  PROVE  TypeOK' /\ Core'
<1>1. /\ loc[Net].at = "idle" /\ loc[Net].eps = {} /\ loc[Net].devs = {} /\ loc[Net].groups = {}
      /\ loc[Net].dead = {} /\ loc[Net].lost = {} /\ loc[Net].g = None
      /\ Net \in Threads
  BY Apart DEF AddBegin, At, Core, Sound, Shape
<1>2. PICK d0 \in Devices : d0 = Min(Free(dtab, NoDevice)) /\ d0 \notin DevicesThere
  BY FreeSlot DEF AddBegin
<1>3. /\ dtab' = [dtab EXCEPT ![d0] = [inuse |-> 1]]
      /\ loc' = [loc EXCEPT ![Net] = [Idle EXCEPT !.at = "adding", !.groups = Live, !.h = d0]]
  BY <1>2 DEF AddBegin
<1>4. gone.dev = None /\ d0 # None /\ Countable = DevicesThere
  BY <1>1, SlotsAssumption DEF Core, Masks, None, Countable
<1>5. SameGroups /\ \A g \in GroupsThere : gtab'[g].inuse = gtab[g].inuse + One(g \in Live)
  BY TablesType, CountUp DEF AddBegin
<1>6. /\ dtab' \in [Devices -> DeviceRecords \cup {NoDevice}]
      /\ DevicesThere' = DevicesThere \cup {d0} /\ dtab'[d0].inuse = 1
      /\ \A d \in DevicesThere : dtab'[d] = dtab[d]
  <2>1. dtab'[d0] = [inuse |-> 1] /\ dtab'[d0] \in DeviceRecords /\ dtab'[d0].inuse = 1
    BY <1>3 DEF TypeOK, DeviceRecords
  <2>2. \A d \in Devices \ {d0} : dtab'[d] = dtab[d]
    BY <1>3
  <2>3. dtab' \in [Devices -> DeviceRecords \cup {NoDevice}]
    BY <1>3, <2>1, <2>2 DEF TypeOK
  <2>. QED  BY <1>2, <2>1, <2>2, <2>3, DeviceNames DEF DevicesThere
<1>7. /\ loc' \in [Threads -> ThreadRecords] /\ \A u \in Threads \ {Net} : loc'[u] = loc[u]
      /\ loc'[Net].at = "adding" /\ loc'[Net].eps = {} /\ loc'[Net].devs = {}
      /\ loc'[Net].groups = Live /\ loc'[Net].dead = {} /\ loc'[Net].lost = {}
      /\ loc'[Net].g = None /\ loc'[Net].h = d0
  BY <1>1, <1>3, TablesType, ZenonT(40) DEF Idle, TypeOK, ThreadRecords, Places
<1>8. /\ UNCHANGED <<etab, gone, divider, up, kept, since, opens, EndpointsThere>>
      /\ Countable' = DevicesThere \cup {d0}
  BY <1>4, <1>6 DEF AddBegin, others, history, EndpointsThere, Countable
<1>9. TypeOK'
  BY <1>5, <1>6, <1>7, <1>8 DEF TypeOK, SameGroups
<1>10. \A g \in GroupsThere : Alike(gtab'[g], gtab[g])
  BY <1>5 DEF SameGroups
<1>11. GroupsThere' = GroupsThere /\ Live' = Live
  BY <1>5 DEF SameGroups
<1>12. ASSUME NEW u \in Threads
       PROVE  Sound(u)'
  <2>1. CASE u = Net
    BY <1>6, <1>7, <1>11, <2>1, Apart, TablesType DEF Sound, Shape, Held, PlacesOf
  <2>2. CASE u # Net
    <3>. loc'[u] = loc[u] /\ Sound(u)
      BY <1>7, <2>2 DEF Core
    <3>1. Shape(u)' /\ Held(u)'
      BY <1>4, <1>8, <1>11, <2>2 DEF Sound, Shape, Held
    <3>2. u \in Users => Linked(u)'
      BY <1>8, <1>10, <1>11, TablesType DEF Sound, Linked, Alike
    <3>. QED  BY <3>1, <3>2 DEF Sound
  <2>. QED  BY <2>1, <2>2
<1>13. Distinct' /\ Buried' /\ Phase' = Phase
  BY <1>7, <1>8, <1>11, Apart DEF Core, Distinct, Buried, Phase
<1>14. Members'
  BY <1>8, <1>10, <1>11 DEF Core, Members, Alike
<1>15. Masks'
  BY <1>1, <1>2, <1>4, <1>6, <1>7, <1>8, <1>10, <1>11, TablesType DEF Core, Masks, Alike
<1>16. Joined'
  BY <1>6, <1>7, <1>10, <1>11, <1>1, TablesType DEF Core, Joined, Alike
<1>17. Routed'
  BY <1>6, <1>8, <1>10, <1>11, <1>13, TablesType DEF Core, Routed, Alike
<1>18. EpsCounts'
  <2>1. \A h : Cardinality(EpsUsers(h)') = Cardinality(EpsUsers(h)) + 0 - 0
    BY <1>1, <1>7, UsersMove DEF One
  <2>. QED  BY <1>8, <2>1, UsersType DEF Core, EpsCounts
<1>19. DevCounts'
  <2>1. \A d : Cardinality(DevUsers(d)') = Cardinality(DevUsers(d)) + 0 - 0
    BY <1>1, <1>7, UsersMove DEF One
  <2>2. \A d : DeadAt(d)' = DeadAt(d)
    BY <1>10, <1>11 DEF DeadAt, Alike
  <2>3. \A d \in DevicesThere : /\ Adding(d)' = 0 /\ Adding(d) = 0 /\ InUse(d)' = dtab[d].inuse
                                /\ InUse(d) = dtab[d].inuse
    BY <1>1, <1>2, <1>4, <1>6, <1>7, <1>8, TablesType, SlotsAssumption DEF Adding, One, InUse, None
  <2>4. \A d \in DevicesThere :
          InUse(d)' = Cardinality(DevUsers(d)') + Cardinality(DeadAt(d)') + Adding(d)'
    BY <1>4, <2>1, <2>2, <2>3, UsersType, DeadType DEF Core, DevCounts
  <2>5. DevUsers(d0) = {} /\ DeadAt(d0) = {}
    BY <1>2, <1>4 DEF DevUsers, DeadAt, Core, Sound, Held, Masks
  <2>6. InUse(d0)' = Cardinality(DevUsers(d0)') + Cardinality(DeadAt(d0)') + Adding(d0)'
    <3>1. Cardinality(DevUsers(d0)') = 0 /\ Cardinality(DeadAt(d0)') = 0
      BY <2>1, <2>2, <2>5, FS_EmptySet
    <3>2. Adding(d0)' = 1 /\ InUse(d0)' = 1
      BY <1>4, <1>6, <1>7, <1>8 DEF Adding, One, InUse
    <3>. QED  BY <3>1, <3>2
  <2>. QED  BY <1>8, <2>4, <2>6 DEF DevCounts
<1>20. GroupCounts'
  <2>. SUFFICES ASSUME NEW g \in GroupsThere
                PROVE  gtab'[g].inuse = kept[g] + Cardinality(GroupUsers(g)') + Cardinality(Owners(g)')
    BY <1>8, <1>11 DEF GroupCounts
  <2>0. g \in Groups /\ g # None
    BY TablesType, SlotsAssumption DEF None
  <2>1. kept[g] \in Nat
    BY <2>0 DEF TypeOK
  <2>2. /\ Cardinality(GroupUsers(g)') = Cardinality(GroupUsers(g)) + One(g \in Live) - 0
        /\ Cardinality(Owners(g)') = Cardinality(Owners(g)) + 0 - 0
    BY <1>1, <1>7, <2>0, UsersMove DEF One
  <2>. QED  BY <1>5, <2>1, <2>2, UsersType DEF Core, GroupCounts, One
<1>. QED  BY <1>9, <1>12, <1>13, <1>14, <1>15, <1>16, <1>17, <1>18, <1>19, <1>20 DEF Core

LEMMA AddEndInv ==
  ASSUME TypeOK, Core, AddEnd
  PROVE  TypeOK' /\ Core'
<1>1. /\ loc[Net].at = "adding" /\ loc[Net].eps = {} /\ loc[Net].devs = {}
      /\ loc[Net].dead = {} /\ loc[Net].lost = {} /\ loc[Net].g = None
      /\ loc[Net].h \in DevicesThere /\ loc[Net].groups \subseteq Live
      /\ Net \in Threads
  BY Apart DEF AddEnd, At, Core, Sound, Shape, Held
<1>2. PICK d0 \in DevicesThere, S \in SUBSET Live : d0 = loc[Net].h /\ S = loc[Net].groups
  BY <1>1
<1>3. /\ gtab' = Count([g \in Groups |-> IF g \in S THEN [gtab[g] EXCEPT !.attachs = @ \cup {d0}]
                                         ELSE gtab[g]], S, -1)
      /\ dtab' = [dtab EXCEPT ![d0] = [inuse |-> IF @ = NoDevice THEN 0 ELSE @.inuse - 1]]
      /\ loc' = [loc EXCEPT ![Net] = Idle]
  BY <1>2 DEF AddEnd
<1>4. gone.dev = None /\ Countable = DevicesThere /\ d0 \in Devices /\ dtab[d0] \in DeviceRecords
  BY <1>1, TablesType DEF Core, Masks, Countable
<1>5. ASSUME NEW g \in S
      PROVE  /\ gtab'[g] \in GroupRecords /\ gtab'[g].inuse = gtab[g].inuse - 1
             /\ gtab'[g].attachs = gtab[g].attachs \cup {d0}
             /\ gtab'[g].eps = gtab[g].eps /\ gtab'[g].devs = gtab[g].devs
             /\ gtab'[g].acc = gtab[g].acc /\ gtab'[g].dead = gtab[g].dead
  <2>1. gtab[g] \in GroupRecords /\ g \in Groups /\ gtab[g].inuse > 0
    BY <1>1, <1>2, TablesType, CountedIsInUse
  <2>2. gtab'[g] = [[gtab[g] EXCEPT !.attachs = @ \cup {d0}] EXCEPT !.inuse = @ + (-1)]
    BY <1>3, <2>1 DEF Count
  <2>3. gtab[g].inuse + (-1) \in Nat
    BY <2>1, TablesType
  <2>. DEFINE q == [gtab[g] EXCEPT !.attachs = @ \cup {d0}]
  <2>4. /\ q \in GroupRecords /\ q.inuse = gtab[g].inuse
        /\ q.attachs = gtab[g].attachs \cup {d0}
        /\ q.eps = gtab[g].eps /\ q.devs = gtab[g].devs
        /\ q.acc = gtab[g].acc /\ q.dead = gtab[g].dead
    BY <1>4, <2>1 DEF GroupRecords
  <2>5. q.inuse + (-1) \in Nat
    BY <2>3, <2>4
  <2>6. gtab'[g] = [q EXCEPT !.inuse = @ + (-1)]
    BY <2>2
  <2>. HIDE DEF q
  <2>7. gtab'[g] \in GroupRecords /\ Alike(gtab'[g], q) /\ gtab'[g].inuse = q.inuse + (-1)
    BY <2>4, <2>5, <2>6, GroupRecount
  <2>. QED  BY <2>4, <2>7, TablesType, <2>1 DEF Alike
<1>6. \A g \in Groups \ S : gtab'[g] = gtab[g]
  BY <1>3 DEF Count
<1>7. /\ gtab' \in [Groups -> GroupRecords \cup {NoGroup}]
      /\ GroupsThere' = GroupsThere /\ Live' = Live
  <2>1. gtab' \in [Groups -> GroupRecords \cup {NoGroup}]
    BY <1>3, <1>5, <1>6 DEF TypeOK, Count
  <2>2. GroupsThere' = GroupsThere
    BY <1>5, <1>6, GroupNames, TablesType DEF GroupsThere
  <2>3. \A g \in GroupsThere : gtab'[g].dead = gtab[g].dead
    BY <1>5, <1>6, TablesType
  <2>. QED  BY <2>1, <2>2, <2>3 DEF Live
<1>8. \A g \in GroupsThere :
        /\ gtab'[g].eps = gtab[g].eps /\ gtab'[g].devs = gtab[g].devs
        /\ gtab'[g].acc = gtab[g].acc
        /\ gtab'[g].attachs = IF g \in S THEN gtab[g].attachs \cup {d0} ELSE gtab[g].attachs
        /\ gtab'[g].inuse = gtab[g].inuse - One(g \in S)
  <2>. SUFFICES ASSUME NEW g \in GroupsThere
                PROVE  /\ gtab'[g].eps = gtab[g].eps /\ gtab'[g].devs = gtab[g].devs
                       /\ gtab'[g].acc = gtab[g].acc
                       /\ gtab'[g].attachs = IF g \in S THEN gtab[g].attachs \cup {d0}
                                             ELSE gtab[g].attachs
                       /\ gtab'[g].inuse = gtab[g].inuse - One(g \in S)
    OBVIOUS
  <2>1. CASE g \in S
    BY <1>5, <2>1 DEF One
  <2>2. CASE g \notin S
    <3>1. gtab'[g] = gtab[g] /\ gtab[g].inuse \in Nat
      BY <1>6, <2>2, TablesType
    <3>. QED  BY <2>2, <3>1 DEF One
  <2>. QED  BY <2>1, <2>2
<1>9. /\ dtab' \in [Devices -> DeviceRecords \cup {NoDevice}]
      /\ DevicesThere' = DevicesThere /\ dtab'[d0].inuse = dtab[d0].inuse - 1
      /\ \A d \in DevicesThere \ {d0} : dtab'[d] = dtab[d]
  <2>1. dtab[d0].inuse > 0 /\ dtab[d0].inuse \in Nat
    <3>1. dtab[d0].inuse = Cardinality(DevUsers(d0)) + Cardinality(DeadAt(d0)) + 1
      BY <1>1, <1>2, <1>4, SlotsAssumption DEF Core, DevCounts, InUse, Adding, One, None
    <3>. QED  BY <3>1, UsersType, DeadType
  <2>2. dtab'[d0] \in DeviceRecords /\ dtab'[d0].inuse = dtab[d0].inuse - 1
    BY <1>3, <1>4, <2>1, DeviceNames DEF TypeOK, DeviceRecords
  <2>3. \A d \in Devices \ {d0} : dtab'[d] = dtab[d]
    BY <1>3
  <2>4. dtab' \in [Devices -> DeviceRecords \cup {NoDevice}]
    BY <1>3, <2>2, <2>3 DEF TypeOK
  <2>. QED  BY <1>4, <2>2, <2>3, <2>4, DeviceNames DEF DevicesThere
<1>10. /\ loc' \in [Threads -> ThreadRecords] /\ \A u \in Threads \ {Net} : loc'[u] = loc[u]
       /\ loc'[Net].at = "idle" /\ loc'[Net].eps = {} /\ loc'[Net].devs = {}
       /\ loc'[Net].groups = {} /\ loc'[Net].dead = {} /\ loc'[Net].lost = {}
       /\ loc'[Net].g = None
  BY <1>1, <1>3 DEF Idle, TypeOK, ThreadRecords, Places
<1>11. /\ UNCHANGED <<etab, gone, divider, up, kept, since, opens, EndpointsThere>>
       /\ Countable' = DevicesThere
  BY <1>4, <1>9 DEF AddEnd, others, history, EndpointsThere, Countable
<1>12. TypeOK'
  BY <1>7, <1>9, <1>10, <1>11 DEF TypeOK
<1>13. ASSUME NEW u \in Threads
       PROVE  Sound(u)'
  <2>1. CASE u = Net
    BY <1>10, <2>1, Apart DEF Sound, Shape, Held, PlacesOf
  <2>2. CASE u # Net
    <3>. loc'[u] = loc[u] /\ Sound(u)
      BY <1>10, <2>2 DEF Core
    <3>1. Shape(u)' /\ Held(u)'
      BY <1>4, <1>7, <1>11, <2>2 DEF Sound, Shape, Held
    <3>2. u \in Users => Linked(u)'
      BY <1>7, <1>8, <1>11, TablesType DEF Sound, Linked
    <3>. QED  BY <3>1, <3>2 DEF Sound
  <2>. QED  BY <2>1, <2>2
<1>14. Distinct' /\ Buried' /\ Phase' = Phase
  BY <1>7, <1>10, <1>11, Apart DEF Core, Distinct, Buried, Phase
<1>15. Members'
  BY <1>7, <1>8, <1>11 DEF Core, Members
<1>16. Masks'
  <2>1. \A g \in GroupsThere : gtab'[g].attachs \subseteq gtab[g].attachs \cup {d0}
    BY <1>8
  <2>2. \A g \in GroupsThere : gtab'[g].attachs \subseteq DevicesThere
    BY <1>4, <2>1 DEF Core, Masks
  <2>3. \A g \in Live : gtab'[g].devs \cup gtab'[g].acc \subseteq DevicesThere
    BY <1>8, TablesType DEF Core, Masks
  <2>4. gone'.dev = None /\ None \notin DevicesThere /\ loc'[Net].at # "removing"
    BY <1>4, <1>10, <1>11, TablesType, SlotsAssumption DEF None
  <2>. QED  BY <1>7, <1>9, <1>11, <2>2, <2>3, <2>4, TablesType DEF Masks
<1>17. Joined'
  BY <1>2, <1>7, <1>8, <1>9, TablesType, ZenonT(40) DEF Core, Joined
<1>18. Routed'
  BY <1>7, <1>8, <1>9, <1>11, <1>14, TablesType DEF Core, Routed
<1>19. EpsCounts'
  <2>1. \A h : Cardinality(EpsUsers(h)') = Cardinality(EpsUsers(h)) + 0 - 0
    BY <1>1, <1>10, UsersMove DEF One
  <2>. QED  BY <1>11, <2>1, UsersType DEF Core, EpsCounts
<1>20. DevCounts'
  <2>. SUFFICES ASSUME NEW d \in DevicesThere
                PROVE  InUse(d)' = Cardinality(DevUsers(d)') + Cardinality(DeadAt(d)') + Adding(d)'
    BY <1>11 DEF DevCounts
  <2>1. Cardinality(DevUsers(d)') = Cardinality(DevUsers(d)) + 0 - 0
    BY <1>1, <1>10, UsersMove DEF One
  <2>2. DeadAt(d)' = DeadAt(d)
    BY <1>7, <1>8 DEF DeadAt
  <2>3. Adding(d) = One(d = d0) /\ Adding(d)' = 0
    BY <1>1, <1>2, <1>10 DEF Adding, One
  <2>4. InUse(d) = dtab[d].inuse /\ InUse(d)' = dtab'[d].inuse
    BY <1>4, <1>11, TablesType, SlotsAssumption DEF InUse, None
  <2>5. dtab'[d].inuse = dtab[d].inuse - One(d = d0)
    BY <1>9, TablesType DEF One
  <2>6. InUse(d) = Cardinality(DevUsers(d)) + Cardinality(DeadAt(d)) + Adding(d)
    BY <1>4 DEF Core, DevCounts
  <2>. QED  BY <2>1, <2>2, <2>3, <2>4, <2>5, <2>6, UsersType, DeadType, TablesType DEF One
<1>21. GroupCounts'
  <2>. SUFFICES ASSUME NEW g \in GroupsThere
                PROVE  gtab'[g].inuse = kept[g] + Cardinality(GroupUsers(g)') + Cardinality(Owners(g)')
    BY <1>7, <1>11 DEF GroupCounts
  <2>0. g \in Groups /\ g # None
    BY TablesType, SlotsAssumption DEF None
  <2>1. kept[g] \in Nat
    BY <2>0 DEF TypeOK
  <2>2. /\ Cardinality(GroupUsers(g)') = Cardinality(GroupUsers(g)) + 0 - One(g \in S)
        /\ Cardinality(Owners(g)') = Cardinality(Owners(g)) + 0 - 0
    BY <1>1, <1>2, <1>10, <2>0, UsersMove DEF One
  <2>3. /\ gtab'[g].inuse = gtab[g].inuse - One(g \in S)
        /\ gtab[g].inuse = kept[g] + Cardinality(GroupUsers(g)) + Cardinality(Owners(g))
    BY <1>8 DEF Core, GroupCounts
  <2>. QED  BY <2>1, <2>2, <2>3, UsersType DEF One
<1>. QED  BY <1>12, <1>13, <1>14, <1>15, <1>16, <1>17, <1>18, <1>19, <1>20, <1>21 DEF Core

LEMMA RemoveBeginInv ==
  ASSUME TypeOK, Core, NEW d0 \in Devices, RemoveBegin(d0)
  PROVE  TypeOK' /\ Core'
<1>1. /\ loc[Net].at = "idle" /\ loc[Net].eps = {} /\ loc[Net].devs = {} /\ loc[Net].groups = {}
      /\ loc[Net].dead = {} /\ loc[Net].lost = {} /\ loc[Net].g = None
      /\ d0 \in DevicesThere /\ Net \in Threads
  BY Apart DEF RemoveBegin, At, Core, Sound, Shape
<1>2. /\ gtab' = [g \in Groups |-> IF g \in Live
            THEN [gtab[g] EXCEPT !.devs = @ \ {d0}, !.acc = @ \ {d0}, !.attachs = @ \ {d0}]
            ELSE gtab[g]]
      /\ dtab' = [dtab EXCEPT ![d0] = NoDevice]
      /\ gone' = [dev |-> d0, inuse |-> dtab[d0].inuse]
      /\ loc' = [loc EXCEPT ![Net].at = "removing"]
      /\ since' = [g \in Groups |-> [since[g] EXCEPT ![d0] = Forgotten]]
      /\ UNCHANGED <<etab, divider, up, kept, opens>>
  BY DEF RemoveBegin
<1>3. /\ gone.dev = None /\ Countable = DevicesThere /\ d0 # None
      /\ dtab[d0].inuse \in Nat
  BY <1>1, TablesType, SlotsAssumption DEF Core, Masks, Countable, None
<1>4. ASSUME NEW g \in Live
      PROVE  /\ gtab'[g] \in GroupRecords /\ gtab'[g].inuse = gtab[g].inuse
             /\ gtab'[g].attachs = gtab[g].attachs \ {d0}
             /\ gtab'[g].devs = gtab[g].devs \ {d0} /\ gtab'[g].acc = gtab[g].acc \ {d0}
             /\ gtab'[g].eps = gtab[g].eps /\ gtab'[g].dead = gtab[g].dead
  <2>1. gtab[g] \in GroupRecords /\ g \in Groups
    BY TablesType
  <2>. QED  BY <1>2, <2>1 DEF GroupRecords
<1>5. \A g \in Groups \ Live : gtab'[g] = gtab[g]
  BY <1>2
<1>6. /\ gtab' \in [Groups -> GroupRecords \cup {NoGroup}]
      /\ GroupsThere' = GroupsThere /\ Live' = Live
  <2>1. gtab' \in [Groups -> GroupRecords \cup {NoGroup}]
    BY <1>2, <1>4, <1>5 DEF TypeOK
  <2>2. GroupsThere' = GroupsThere
    BY <1>4, <1>5, GroupNames, TablesType DEF GroupsThere
  <2>3. \A g \in GroupsThere : gtab'[g].dead = gtab[g].dead
    BY <1>4, <1>5, TablesType
  <2>. QED  BY <2>1, <2>2, <2>3 DEF Live
<1>7. \A g \in GroupsThere : gtab'[g].eps = gtab[g].eps /\ gtab'[g].inuse = gtab[g].inuse
  BY <1>4, <1>5, TablesType
<1>8. /\ dtab' \in [Devices -> DeviceRecords \cup {NoDevice}]
      /\ DevicesThere' = DevicesThere \ {d0}
      /\ \A d \in DevicesThere \ {d0} : dtab'[d] = dtab[d]
  BY <1>2 DEF TypeOK, DevicesThere
<1>9. /\ loc' \in [Threads -> ThreadRecords] /\ \A u \in Threads \ {Net} : loc'[u] = loc[u]
      /\ loc'[Net].at = "removing" /\ loc'[Net].eps = {} /\ loc'[Net].devs = {}
      /\ loc'[Net].groups = {} /\ loc'[Net].dead = {} /\ loc'[Net].lost = {}
      /\ loc'[Net].g = None
  <2>1. loc[Net] \in ThreadRecords
    BY <1>1 DEF TypeOK
  <2>. QED  BY <1>1, <1>2, <2>1 DEF TypeOK, ThreadRecords, Places
<1>10. /\ gone'.dev = d0 /\ gone'.inuse = dtab[d0].inuse /\ EndpointsThere' = EndpointsThere
       /\ gone' \in [dev : Devices \cup {None}, inuse : Nat]
       /\ Countable' = Countable
  BY <1>1, <1>2, <1>3, <1>8 DEF EndpointsThere, Countable
<1>11. /\ since' \in [Groups -> [Devices -> 0 .. Forgotten]]
       /\ \A g \in Groups : since'[g][d0] = Forgotten
       /\ \A g \in Groups, d \in Devices \ {d0} : since'[g][d] = since[g][d]
  <2>1. \A g \in Groups : /\ since'[g] = [since[g] EXCEPT ![d0] = Forgotten]
                           /\ since[g] \in [Devices -> 0 .. Forgotten]
    BY <1>2 DEF TypeOK
  <2>2. Forgotten \in 0 .. Forgotten
    BY TimesAssumption DEF Forgotten
  <2>3. \A g \in Groups : /\ since'[g] \in [Devices -> 0 .. Forgotten]
                           /\ since'[g][d0] = Forgotten
                           /\ \A d \in Devices \ {d0} : since'[g][d] = since[g][d]
    BY <2>1, <2>2, ZenonT(40)
  <2>. QED  BY <1>2, <2>3
<1>12. TypeOK'
  BY <1>2, <1>6, <1>8, <1>9, <1>10, <1>11 DEF TypeOK
<1>22. UNCHANGED <<etab, kept>>
  BY <1>2
<1>13. ASSUME NEW u \in Threads
       PROVE  Sound(u)'
  <2>1. CASE u = Net
    BY <1>9, <2>1, Apart DEF Sound, Shape, Held, PlacesOf
  <2>2. CASE u # Net
    <3>. loc'[u] = loc[u] /\ Sound(u)
      BY <1>9, <2>2 DEF Core
    <3>1. Shape(u)' /\ Held(u)'
      BY <1>6, <1>10, <2>2 DEF Sound, Shape, Held
    <3>2. u \in Users => Linked(u)'
      BY <1>6, <1>7, <1>10, <1>22, TablesType DEF Sound, Linked
    <3>. QED  BY <3>1, <3>2 DEF Sound
  <2>. QED  BY <2>1, <2>2
<1>14. Distinct' /\ Buried' /\ Phase' = Phase
  BY <1>2, <1>6, <1>9, Apart DEF Core, Distinct, Buried, Phase
<1>15. Members'
  BY <1>2, <1>6, <1>7, <1>10 DEF Core, Members
<1>16. Masks'
  <2>1. \A g \in GroupsThere : gtab'[g].attachs \subseteq Countable
    BY <1>4, <1>5, TablesType DEF Core, Masks
  <2>2. \A g \in Live : gtab'[g].devs \cup gtab'[g].acc \cup gtab'[g].attachs \subseteq DevicesThere'
    BY <1>4, <1>8 DEF Core, Masks
  <2>. QED  BY <1>3, <1>6, <1>8, <1>9, <1>10, <2>1, <2>2 DEF Masks
<1>17. Joined'
  BY <1>1, <1>4, <1>6, <1>8 DEF Core, Joined
<1>18. Routed'
  <2>. SUFFICES ASSUME NEW g \in Live, NEW d \in Devices
                PROVE  /\ d \in gtab'[g].acc <=> since'[g][d] <= Phase
                       /\ d \in gtab'[g].devs <=> since'[g][d] <= 2 * Life + Phase
                       /\ d \notin DevicesThere' => since'[g][d] = Forgotten
    BY <1>6, <1>14 DEF Routed
  <2>1. CASE d = d0
    <3>1. ~(Forgotten <= Phase) /\ ~(Forgotten <= 2 * Life + Phase)
      BY PhaseType, TimesAssumption DEF Forgotten
    <3>. QED  BY <1>4, <1>11, <2>1, <3>1, TablesType
  <2>2. CASE d # d0
    BY <1>4, <1>8, <1>11, <2>2, TablesType DEF Core, Routed
  <2>. QED  BY <2>1, <2>2
<1>19. EpsCounts'
  <2>1. \A h : Cardinality(EpsUsers(h)') = Cardinality(EpsUsers(h)) + 0 - 0
    BY <1>1, <1>9, UsersMove DEF One
  <2>. QED  BY <1>10, <1>22, <2>1, UsersType DEF Core, EpsCounts
<1>20. DevCounts'
  <2>. SUFFICES ASSUME NEW d \in DevicesThere
                PROVE  InUse(d)' = Cardinality(DevUsers(d)') + Cardinality(DeadAt(d)') + Adding(d)'
    BY <1>3, <1>10 DEF DevCounts
  <2>1. Cardinality(DevUsers(d)') = Cardinality(DevUsers(d)) + 0 - 0
    BY <1>1, <1>9, UsersMove DEF One
  <2>2. DeadAt(d)' = DeadAt(d)
    BY <1>5, <1>6, TablesType DEF DeadAt
  <2>3. Adding(d) = 0 /\ Adding(d)' = 0
    BY <1>1, <1>9 DEF Adding, One
  <2>4. InUse(d) = dtab[d].inuse
    BY <1>3, TablesType, SlotsAssumption DEF InUse, None
  <2>5. InUse(d)' = dtab[d].inuse
    BY <1>8, <1>10 DEF InUse
  <2>6. InUse(d) = Cardinality(DevUsers(d)) + Cardinality(DeadAt(d)) + Adding(d)
    BY <1>3 DEF Core, DevCounts
  <2>. QED  BY <2>1, <2>2, <2>3, <2>4, <2>5, <2>6, UsersType
<1>21. GroupCounts'
  <2>. SUFFICES ASSUME NEW g \in GroupsThere
                PROVE  gtab'[g].inuse = kept[g] + Cardinality(GroupUsers(g)') + Cardinality(Owners(g)')
    BY <1>6, <1>22 DEF GroupCounts
  <2>0. g \in Groups /\ g # None
    BY TablesType, SlotsAssumption DEF None
  <2>2. /\ Cardinality(GroupUsers(g)') = Cardinality(GroupUsers(g)) + 0 - 0
        /\ Cardinality(Owners(g)') = Cardinality(Owners(g)) + 0 - 0
    BY <1>1, <1>9, <2>0, UsersMove DEF One
  <2>. QED  BY <1>7, <2>2, UsersType DEF Core, GroupCounts
<1>. QED  BY <1>12, <1>13, <1>14, <1>15, <1>16, <1>17, <1>18, <1>19, <1>20, <1>21 DEF Core

LEMMA RemoveEndInv ==
  ASSUME TypeOK, Core, RemoveEnd
  PROVE  TypeOK' /\ Core'
<1>1. /\ loc[Net].at = "removing" /\ loc[Net].eps = {} /\ loc[Net].devs = {}
      /\ loc[Net].groups = {} /\ loc[Net].dead = {} /\ loc[Net].lost = {}
      /\ loc[Net].g = None /\ gone.inuse = 0 /\ Net \in Threads
  BY Apart DEF RemoveEnd, At, Core, Sound, Shape
<1>2. PICK d0 \in Countable : d0 = gone.dev /\ d0 \notin DevicesThere
  BY <1>1 DEF Core, Masks, Countable
<1>3. DevUsers(d0) = {} /\ DeadAt(d0) = {}
  <2>1. InUse(d0) = Cardinality(DevUsers(d0)) + Cardinality(DeadAt(d0)) + Adding(d0)
    BY DEF Core, DevCounts
  <2>2. InUse(d0) = 0
    BY <1>1, <1>2 DEF InUse
  <2>3. Cardinality(DevUsers(d0)) = 0 /\ Cardinality(DeadAt(d0)) = 0
    BY <2>1, <2>2, UsersType, DeadType
  <2>4. IsFiniteSet(DevUsers(d0)) /\ IsFiniteSet(DeadAt(d0))
    <3>1. DeadAt(d0) \subseteq Groups
      BY TablesType DEF DeadAt
    <3>. QED  BY <3>1, UsersType, CountType, SlotsAssumption, FS_Subset
  <2>. QED  BY <2>3, <2>4, FS_EmptySet
<1>4. /\ loc' = [loc EXCEPT ![Net] = Idle] /\ gone' = [dev |-> None, inuse |-> 0]
      /\ UNCHANGED <<gtab, etab, dtab, divider, up, kept, since, opens>>
      /\ UNCHANGED <<GroupsThere, Live, EndpointsThere, DevicesThere>>
  BY DEF RemoveEnd, history, GroupsThere, Live, EndpointsThere, DevicesThere
<1>5. /\ loc' \in [Threads -> ThreadRecords] /\ \A u \in Threads \ {Net} : loc'[u] = loc[u]
      /\ loc'[Net].at = "idle" /\ loc'[Net].eps = {} /\ loc'[Net].devs = {}
      /\ loc'[Net].groups = {} /\ loc'[Net].dead = {} /\ loc'[Net].lost = {}
      /\ loc'[Net].g = None
  BY <1>1, <1>4 DEF Idle, TypeOK, ThreadRecords, Places
<1>6. /\ gone'.dev = None /\ gone' \in [dev : Devices \cup {None}, inuse : Nat]
      /\ Countable' = DevicesThere /\ Countable = DevicesThere \cup {d0}
      /\ None \notin DevicesThere
  BY <1>2, <1>4, TablesType, SlotsAssumption DEF Countable, None
<1>7. TypeOK'
  BY <1>4, <1>5, <1>6 DEF TypeOK
<1>8. ASSUME NEW u \in Threads
      PROVE  Sound(u)'
  <2>1. CASE u = Net
    BY <1>5, <2>1, Apart DEF Sound, Shape, Held, PlacesOf
  <2>2. CASE u # Net
    <3>. loc'[u] = loc[u] /\ Sound(u)
      BY <1>5, <2>2 DEF Core
    <3>1. d0 \notin loc[u].devs
      BY <1>3 DEF DevUsers
    <3>2. Shape(u)' /\ Held(u)'
      BY <1>4, <1>6, <2>2, <3>1 DEF Sound, Shape, Held
    <3>3. u \in Users => Linked(u)'
      BY <1>4 DEF Sound, Linked
    <3>. QED  BY <3>2, <3>3 DEF Sound
  <2>. QED  BY <2>1, <2>2
<1>9. Distinct' /\ Members' /\ Buried' /\ Phase' = Phase
  BY <1>4, <1>5, Apart DEF Core, Distinct, Members, Buried, Phase
<1>10. Masks'
  <2>1. \A g \in GroupsThere : gtab[g].attachs \subseteq DevicesThere
    BY <1>3, <1>6 DEF Core, Masks, DeadAt
  <2>. QED  BY <1>4, <1>5, <1>6, <2>1 DEF Core, Masks
<1>11. Joined' /\ Routed'
  BY <1>1, <1>4, <1>5, <1>9 DEF Core, Joined, Routed
<1>12. EpsCounts'
  <2>1. \A h : Cardinality(EpsUsers(h)') = Cardinality(EpsUsers(h)) + 0 - 0
    BY <1>1, <1>5, UsersMove DEF One
  <2>. QED  BY <1>4, <2>1, UsersType DEF Core, EpsCounts
<1>13. DevCounts'
  <2>. SUFFICES ASSUME NEW d \in DevicesThere
                PROVE  InUse(d)' = Cardinality(DevUsers(d)') + Cardinality(DeadAt(d)') + Adding(d)'
    BY <1>6 DEF DevCounts
  <2>1. Cardinality(DevUsers(d)') = Cardinality(DevUsers(d)) + 0 - 0
    BY <1>1, <1>5, UsersMove DEF One
  <2>2. DeadAt(d)' = DeadAt(d) /\ Adding(d) = 0 /\ Adding(d)' = 0
    BY <1>1, <1>4, <1>5 DEF DeadAt, Adding, One
  <2>3. InUse(d)' = InUse(d)
    BY <1>2, <1>4, <1>6 DEF InUse
  <2>4. InUse(d) = Cardinality(DevUsers(d)) + Cardinality(DeadAt(d)) + Adding(d)
    BY <1>6 DEF Core, DevCounts
  <2>. QED  BY <2>1, <2>2, <2>3, <2>4, UsersType
<1>14. GroupCounts'
  <2>. SUFFICES ASSUME NEW g \in GroupsThere
                PROVE  gtab[g].inuse = kept[g] + Cardinality(GroupUsers(g)') + Cardinality(Owners(g)')
    BY <1>4 DEF GroupCounts
  <2>0. g \in Groups /\ g # None
    BY TablesType, SlotsAssumption DEF None
  <2>2. /\ Cardinality(GroupUsers(g)') = Cardinality(GroupUsers(g)) + 0 - 0
        /\ Cardinality(Owners(g)') = Cardinality(Owners(g)) + 0 - 0
    BY <1>1, <1>5, <2>0, UsersMove DEF One
  <2>. QED  BY <2>2, UsersType DEF Core, GroupCounts
<1>. QED  BY <1>7, <1>8, <1>9, <1>10, <1>11, <1>12, <1>13, <1>14 DEF Core

LEMMA MinOfTwo ==
  ASSUME NEW a \in Nat, NEW b \in Nat
  PROVE  Min({a, b}) = IF a <= b THEN a ELSE b
<1>1. CASE a <= b
  <2>1. a \in {a, b} /\ \A y \in {a, b} : a <= y
    BY <1>1
  <2>2. \A x \in {a, b} : (\A y \in {a, b} : x <= y) => x = a
    BY <1>1
  <2>. QED  BY <1>1, <2>1, <2>2 DEF Min
<1>2. CASE ~(a <= b)
  <2>1. b \in {a, b} /\ \A y \in {a, b} : b <= y
    BY <1>2
  <2>2. \A x \in {a, b} : (\A y \in {a, b} : x <= y) => x = b
    BY <1>2
  <2>. QED  BY <1>2, <2>1, <2>2 DEF Min
<1>. QED  BY <1>1, <1>2

\* The divider is counted up and wraps.
LEMMA Wraps ==
  ASSUME NEW n \in Nat \ {0}, NEW i \in 0 .. n - 1
  PROVE  (i + 1) % n = IF i + 1 = n THEN 0 ELSE i + 1
<1>1. n \in Nat /\ n > 0 /\ i + 1 \in Nat /\ i + 1 <= n
  OBVIOUS
<1>2. CASE i + 1 = n
  BY <1>1, <1>2
<1>3. CASE i + 1 < n
  BY <1>1, <1>3
<1>. QED  BY <1>1, <1>2, <1>3

\* A group that somebody uses does not expire.
LEMMA Unexpired ==
  ASSUME TypeOK, Core, NEW t \in Threads
  PROVE  /\ (loc[t].groups \ loc[t].lost) \cap Expiring = {}
         /\ loc[t].g \notin Expiring
         /\ t \in Users /\ loc[t].at \in WithEndpoint \ {"closing"} =>
              etab[loc[t].h].group \notin Expiring
<1>. Sound(t)
  BY DEF Core
<1>1. \A g \in Expiring : gtab[g].inuse = 0 /\ gtab[g].eps = {} /\ g \in GroupsThere
  BY DEF Expiring
<1>2. (loc[t].groups \ loc[t].lost) \cap Expiring = {}
  BY <1>1, CountedIsInUse
<1>3. t \in Users /\ loc[t].at \in WithEndpoint \ {"closing"} =>
        etab[loc[t].h].group \notin Expiring
  BY <1>1 DEF Sound, Linked
<1>4. loc[t].g \notin Expiring
  <2>1. CASE loc[t].at = "write"
    <3>1. t \in Users
      BY <2>1 DEF Sound, Shape, PlacesOf, Threads
    <3>. QED  BY <1>3, <2>1, <3>1 DEF Sound, Linked, WithEndpoint
  <2>2. CASE loc[t].at # "write"
    <3>1. None \notin Expiring
      BY <1>1, TablesType, SlotsAssumption DEF None
    <3>. QED  BY <1>1, <2>2, <3>1, CountedIsInUse
  <2>. QED  BY <2>1, <2>2
<1>. QED  BY <1>2, <1>3, <1>4

LEMMA TickInv ==
  ASSUME TypeOK, Core, Tick
  PROVE  TypeOK' /\ Core'
<1>1. /\ loc[Ticker].at = "idle" /\ loc[Ticker].eps = {} /\ loc[Ticker].devs = {}
      /\ loc[Ticker].groups = {} /\ loc[Ticker].dead = {} /\ loc[Ticker].lost = {}
      /\ loc[Ticker].g = None /\ Ticker \in Threads /\ GroupsThere = Live
  BY Apart DEF Tick, At, Core, Sound, Shape, Buried
<1>2. PICK E \in SUBSET GroupsThere : E = Expiring
  BY DEF Expiring
<1>3. /\ divider' = (divider + 1) % (2 * Life)
      /\ gtab' = [g \in Groups |-> IF g \in GroupsThere
                    THEN [gtab[g] EXCEPT !.tick = Aged(g), !.dead = g \in E] ELSE gtab[g]]
      /\ dtab' = [d \in Devices |-> IF d \in DevicesThere
                    THEN [inuse |-> dtab[d].inuse + Cardinality({g \in E : d \in gtab[g].attachs})]
                    ELSE dtab[d]]
      /\ loc' = [loc EXCEPT ![Ticker].at = "expire"]
  BY <1>2 DEF Tick
<1>4. UNCHANGED <<etab, gone, up, kept, since, opens, EndpointsThere>>
  BY DEF Tick, history, EndpointsThere
<1>5. ASSUME NEW g \in GroupsThere
      PROVE  /\ gtab'[g] \in GroupRecords /\ gtab'[g].inuse = gtab[g].inuse
             /\ gtab'[g].attachs = gtab[g].attachs /\ gtab'[g].devs = gtab[g].devs
             /\ gtab'[g].acc = gtab[g].acc /\ gtab'[g].eps = gtab[g].eps
             /\ gtab'[g].dead = (g \in E)
  <2>1. gtab[g] \in GroupRecords /\ g \in Groups /\ gtab[g].tick \in Nat
    BY TablesType DEF GroupRecords
  <2>2. Aged(g) \in 0 .. Death
    BY <2>1, MinOfTwo, TimesAssumption DEF Aged
  <2>3. gtab'[g] = [gtab[g] EXCEPT !.tick = Aged(g), !.dead = g \in E]
    BY <1>3, <2>1
  <2>4. PICK a \in 0 .. Death : a = Aged(g)
    BY <2>2
  <2>5. gtab'[g] = [gtab[g] EXCEPT !.tick = a, !.dead = g \in E]
    BY <2>3, <2>4
  <2>6. CASE g \in E
    <3>1. gtab'[g] = [gtab[g] EXCEPT !.tick = a, !.dead = TRUE]
      BY <2>5, <2>6
    <3>. QED  BY <2>1, <2>6, <3>1 DEF GroupRecords
  <2>7. CASE g \notin E
    <3>1. (g \in E) = FALSE
      BY <2>7
    <3>2. gtab'[g] = [gtab[g] EXCEPT !.tick = a, !.dead = FALSE]
      BY <2>5, <3>1, Zenon
    <3>3. /\ gtab'[g] \in GroupRecords /\ gtab'[g].inuse = gtab[g].inuse
          /\ gtab'[g].attachs = gtab[g].attachs /\ gtab'[g].devs = gtab[g].devs
          /\ gtab'[g].acc = gtab[g].acc /\ gtab'[g].eps = gtab[g].eps
          /\ gtab'[g].dead = FALSE
      BY <2>1, <3>2 DEF GroupRecords
    <3>. QED  BY <3>1, <3>3, Zenon
  <2>. QED  BY <2>6, <2>7
<1>6. /\ gtab' \in [Groups -> GroupRecords \cup {NoGroup}]
      /\ GroupsThere' = GroupsThere /\ Live' = GroupsThere \ E
  <2>1. \A g \in Groups \ GroupsThere : gtab'[g] = gtab[g]
    BY <1>3
  <2>2. gtab' \in [Groups -> GroupRecords \cup {NoGroup}]
    BY <1>3, <1>5, <2>1 DEF TypeOK
  <2>3. GroupsThere' = GroupsThere
    BY <1>5, <2>1, GroupNames, TablesType DEF GroupsThere
  <2>. QED  BY <1>5, <2>2, <2>3 DEF Live
<1>7. \A d : DeadAt(d)' = {g \in E : d \in gtab[g].attachs} /\ DeadAt(d) = {}
  BY <1>1, <1>5, <1>6 DEF DeadAt
<1>8. \A d : Cardinality(DeadAt(d)') \in Nat
  <2>1. \A d : DeadAt(d)' \subseteq Groups
    BY <1>7, TablesType
  <2>. QED  BY <2>1, SlotsAssumption, FS_Subset, FS_CardinalityType
<1>9. /\ dtab' \in [Devices -> DeviceRecords \cup {NoDevice}]
      /\ DevicesThere' = DevicesThere /\ Countable' = Countable
      /\ \A d \in DevicesThere : dtab'[d].inuse = dtab[d].inuse + Cardinality(DeadAt(d)')
  <2>1. \A d \in Devices \ DevicesThere : dtab'[d] = dtab[d]
    BY <1>3
  <2>2. ASSUME NEW d \in DevicesThere
        PROVE  dtab'[d] \in DeviceRecords /\ dtab'[d].inuse = dtab[d].inuse + Cardinality(DeadAt(d)')
    <3>1. dtab'[d] = [inuse |-> dtab[d].inuse + Cardinality(DeadAt(d)')]
      BY <1>3, <1>7, TablesType
    <3>2. dtab[d].inuse + Cardinality(DeadAt(d)') \in Nat
      BY <1>8, TablesType
    <3>. QED  BY <3>1, <3>2 DEF DeviceRecords
  <2>3. dtab' \in [Devices -> DeviceRecords \cup {NoDevice}]
    BY <1>3, <2>1, <2>2 DEF TypeOK
  <2>4. DevicesThere' = DevicesThere
    BY <2>1, <2>2, DeviceNames, TablesType DEF DevicesThere
  <2>. QED  BY <1>4, <2>2, <2>3, <2>4 DEF Countable
<1>10. /\ loc' \in [Threads -> ThreadRecords] /\ \A u \in Threads \ {Ticker} : loc'[u] = loc[u]
       /\ loc'[Ticker].at = "expire" /\ loc'[Ticker].eps = {} /\ loc'[Ticker].devs = {}
       /\ loc'[Ticker].groups = {} /\ loc'[Ticker].dead = {} /\ loc'[Ticker].lost = {}
       /\ loc'[Ticker].g = None
  <2>1. loc[Ticker] \in ThreadRecords
    BY <1>1 DEF TypeOK
  <2>. QED  BY <1>1, <1>3, <2>1 DEF TypeOK, ThreadRecords, Places
<1>11. /\ divider' = IF divider + 1 = 2 * Life THEN 0 ELSE divider + 1
       /\ divider' \in 0 .. 2 * Life - 1 /\ divider \in 0 .. 2 * Life - 1
  <2>1. 2 * Life \in Nat \ {0} /\ divider \in 0 .. 2 * Life - 1
    BY TimesAssumption DEF TypeOK
  <2>2. divider' = IF divider + 1 = 2 * Life THEN 0 ELSE divider + 1
    BY <1>3, <2>1, Wraps
  <2>. QED  BY <2>1, <2>2
<1>12. TypeOK'
  BY <1>4, <1>6, <1>9, <1>10, <1>11 DEF TypeOK
<1>13. ASSUME NEW u \in Threads
       PROVE  Sound(u)'
  <2>1. CASE u = Ticker
    BY <1>10, <2>1, Apart DEF Sound, Shape, Held, PlacesOf
  <2>2. CASE u # Ticker
    <3>. loc'[u] = loc[u] /\ Sound(u)
      BY <1>10, <2>2 DEF Core
    <3>1. Shape(u)'
      BY DEF Sound, Shape
    <3>2. Held(u)'
      BY <1>1, <1>2, <1>4, <1>6, <1>9, Unexpired DEF Sound, Held
    <3>3. u \in Users => Linked(u)'
      BY <1>1, <1>2, <1>4, <1>5, <1>6, Unexpired DEF Sound, Linked
    <3>. QED  BY <3>1, <3>2, <3>3 DEF Sound
  <2>. QED  BY <2>1, <2>2
<1>14. Distinct' /\ Buried'
  BY <1>10, Apart DEF Core, Distinct, Buried
<1>15. Members'
  BY <1>4, <1>5, <1>6 DEF Core, Members
<1>16. loc'[Net] = loc[Net]
  BY <1>10, Apart
<1>17. Masks' /\ Joined'
  BY <1>1, <1>4, <1>5, <1>6, <1>9, <1>16 DEF Core, Masks, Joined
<1>18. Routed'
  <2>1. Phase' = Phase
    BY <1>1, <1>10, <1>11, TimesAssumption DEF Phase
  <2>. QED  BY <1>1, <1>4, <1>5, <1>6, <1>9, <2>1 DEF Core, Routed
<1>19. EpsCounts'
  <2>1. \A h : Cardinality(EpsUsers(h)') = Cardinality(EpsUsers(h)) + 0 - 0
    BY <1>1, <1>10, UsersMove DEF One
  <2>. QED  BY <1>4, <2>1, UsersType DEF Core, EpsCounts
<1>20. DevCounts'
  <2>. SUFFICES ASSUME NEW d \in Countable
                PROVE  InUse(d)' = Cardinality(DevUsers(d)') + Cardinality(DeadAt(d)') + Adding(d)'
    BY <1>9 DEF DevCounts
  <2>1. Cardinality(DevUsers(d)') = Cardinality(DevUsers(d)) + 0 - 0
    BY <1>1, <1>10, UsersMove DEF One
  <2>2. Cardinality(DeadAt(d)) = 0 /\ Adding(d)' = Adding(d)
    BY <1>7, <1>16, FS_EmptySet DEF Adding
  <2>3. InUse(d)' = InUse(d) + Cardinality(DeadAt(d)') /\ InUse(d) \in Nat
    <3>1. CASE d = gone.dev
      <4>1. DeadAt(d)' = {}
        BY <1>1, <1>7, <3>1 DEF Core, Masks
      <4>2. InUse(d)' = InUse(d) /\ InUse(d) \in Nat
        BY <1>4, <3>1 DEF InUse, TypeOK
      <4>. QED  BY <4>1, <4>2, FS_EmptySet
    <3>2. CASE d # gone.dev
      <4>1. d \in DevicesThere
        BY <3>2 DEF Countable
      <4>. QED  BY <1>4, <1>9, <3>2, <4>1, TablesType DEF InUse
    <3>. QED  BY <3>1, <3>2
  <2>4. InUse(d) = Cardinality(DevUsers(d)) + Cardinality(DeadAt(d)) + Adding(d)
    BY DEF Core, DevCounts
  <2>. QED  BY <1>8, <2>1, <2>2, <2>3, <2>4, UsersType, DeadType
<1>21. GroupCounts'
  <2>. SUFFICES ASSUME NEW g \in GroupsThere
                PROVE  gtab'[g].inuse = kept[g] + Cardinality(GroupUsers(g)') + Cardinality(Owners(g)')
    BY <1>4, <1>6 DEF GroupCounts
  <2>0. g \in Groups /\ g # None
    BY TablesType, SlotsAssumption DEF None
  <2>2. /\ Cardinality(GroupUsers(g)') = Cardinality(GroupUsers(g)) + 0 - 0
        /\ Cardinality(Owners(g)') = Cardinality(Owners(g)) + 0 - 0
    BY <1>1, <1>10, <2>0, UsersMove DEF One
  <2>. QED  BY <1>5, <2>2, UsersType DEF Core, GroupCounts
<1>. QED  BY <1>12, <1>13, <1>14, <1>15, <1>17, <1>18, <1>19, <1>20, <1>21 DEF Core

LEMMA ExpireInv ==
  ASSUME TypeOK, Core, Expire
  PROVE  TypeOK' /\ Core'
<1>1. /\ loc[Ticker].at = "expire" /\ loc[Ticker].eps = {} /\ loc[Ticker].devs = {}
      /\ loc[Ticker].groups = {} /\ loc[Ticker].dead = {} /\ loc[Ticker].lost = {}
      /\ loc[Ticker].g = None /\ Ticker \in Threads
  BY Apart DEF Expire, At, Core, Sound, Shape
<1>2. PICK B \in SUBSET Groups : B = GroupsThere \ Live
  BY TablesType
<1>3. /\ \A g \in B : gtab[g].attachs \subseteq DevicesThere
      /\ gtab' = [g \in Groups |-> IF g \in B THEN NoGroup ELSE gtab[g]]
      /\ dtab' = [d \in Devices |-> IF d \in DevicesThere
                    THEN [inuse |-> dtab[d].inuse - Cardinality({g \in B : d \in gtab[g].attachs})]
                    ELSE dtab[d]]
      /\ loc' = [t \in Threads |->
                    IF t = Ticker THEN [Idle EXCEPT !.at = "account"]
                    ELSE [loc[t] EXCEPT !.lost = @ \cup
                           ((loc[t].groups \cup IF loc[t].at = "write" THEN {loc[t].g} ELSE {}) \cap B)]]
  BY <1>2 DEF Expire
<1>4. UNCHANGED <<etab, divider, gone, up, kept, since, opens, EndpointsThere>>
  BY DEF Expire, others, history, EndpointsThere
<1>5. /\ gtab' \in [Groups -> GroupRecords \cup {NoGroup}]
      /\ GroupsThere' = Live /\ Live' = Live
      /\ \A g \in Live : gtab'[g] = gtab[g]
  <2>1. \A g \in Live : gtab'[g] = gtab[g] /\ g \in Groups
    BY <1>2, <1>3, TablesType
  <2>2. GroupsThere' = Live
    BY <1>2, <1>3 DEF GroupsThere, Live
  <2>3. gtab' \in [Groups -> GroupRecords \cup {NoGroup}]
    BY <1>3 DEF TypeOK
  <2>. QED  BY <2>1, <2>2, <2>3 DEF Live
<1>6. ASSUME NEW u \in Threads \ {Ticker}
      PROVE  /\ loc'[u] \in ThreadRecords /\ loc'[u].at = loc[u].at /\ loc'[u].eps = loc[u].eps
             /\ loc'[u].devs = loc[u].devs /\ loc'[u].groups = loc[u].groups
             /\ loc'[u].dead = loc[u].dead /\ loc'[u].g = loc[u].g /\ loc'[u].h = loc[u].h
             /\ loc'[u].lost = loc[u].lost \cup (loc[u].groups \cap B)
  <2>1. loc[u] \in ThreadRecords /\ Sound(u)
    BY DEF TypeOK, Core
  <2>2. loc[u].at = "write" => loc[u].g \notin B
    <3>1. loc[u].at = "write" => u \in Users
      BY DEF Sound, Shape, PlacesOf, Threads, Core
    <3>. QED  BY <1>2, <2>1, <3>1 DEF Sound, Linked, WithEndpoint
  <2>3. (loc[u].groups \cup IF loc[u].at = "write" THEN {loc[u].g} ELSE {}) \cap B
          = loc[u].groups \cap B
    BY <2>2
  <2>4. loc'[u] = [loc[u] EXCEPT !.lost = @ \cup (loc[u].groups \cap B)]
    BY <1>3, <2>3
  <2>. QED  BY <2>1, <2>4 DEF ThreadRecords
<1>7. /\ loc'[Ticker] \in ThreadRecords /\ loc'[Ticker].at = "account"
      /\ loc'[Ticker].eps = {} /\ loc'[Ticker].devs = {}
      /\ loc'[Ticker].groups = {} /\ loc'[Ticker].dead = {} /\ loc'[Ticker].lost = {}
      /\ loc'[Ticker].g = None
  BY <1>1, <1>3 DEF Idle, ThreadRecords, Places
<1>8. loc' \in [Threads -> ThreadRecords]
  BY <1>3, <1>6, <1>7
<1>9. \A d : DeadAt(d) = {g \in B : d \in gtab[g].attachs} /\ DeadAt(d)' = {}
  BY <1>2, <1>5 DEF DeadAt
<1>10. ASSUME NEW d \in DevicesThere
       PROVE  /\ dtab'[d] \in DeviceRecords
              /\ dtab'[d].inuse = dtab[d].inuse - Cardinality(DeadAt(d))
  <2>1. dtab'[d] = [inuse |-> dtab[d].inuse - Cardinality(DeadAt(d))]
    BY <1>3, <1>9, TablesType
  <2>2. dtab[d].inuse = Cardinality(DevUsers(d)) + Cardinality(DeadAt(d)) + Adding(d)
    BY DEF Core, DevCounts, Masks, InUse, Countable
  <2>3. dtab[d].inuse - Cardinality(DeadAt(d)) \in Nat
    BY <2>2, UsersType, DeadType
  <2>. QED  BY <2>1, <2>3 DEF DeviceRecords
<1>11. /\ dtab' \in [Devices -> DeviceRecords \cup {NoDevice}]
       /\ DevicesThere' = DevicesThere /\ Countable' = Countable
  <2>1. \A d \in Devices \ DevicesThere : dtab'[d] = dtab[d]
    BY <1>3
  <2>2. dtab' \in [Devices -> DeviceRecords \cup {NoDevice}]
    BY <1>3, <1>10, <2>1 DEF TypeOK
  <2>3. DevicesThere' = DevicesThere
    BY <1>10, <2>1, DeviceNames, TablesType DEF DevicesThere
  <2>. QED  BY <1>4, <2>2, <2>3 DEF Countable
<1>12. TypeOK'
  BY <1>4, <1>5, <1>8, <1>11 DEF TypeOK
<1>13. ASSUME NEW u \in Threads
       PROVE  Sound(u)'
  <2>1. CASE u = Ticker
    BY <1>7, <2>1, Apart DEF Sound, Shape, Held, PlacesOf
  <2>2. CASE u # Ticker
    <3>. Sound(u)
      BY DEF Core
    <3>1. loc[u].groups \cap B \subseteq loc[u].dead \cup loc[u].lost
      BY <1>2 DEF Sound, Held
    <3>2. Shape(u)'
      BY <1>6, <2>2, <3>1 DEF Sound, Shape
    <3>3. Held(u)'
      BY <1>2, <1>4, <1>5, <1>6, <1>11, <2>2 DEF Sound, Held
    <3>4. u \in Users => Linked(u)'
      BY <1>4, <1>5, <1>6, <2>2 DEF Sound, Linked
    <3>. QED  BY <3>2, <3>3, <3>4 DEF Sound
  <2>. QED  BY <2>1, <2>2
<1>14. Distinct' /\ Buried'
  <2>1. \A u \in Users : loc'[u].at = loc[u].at /\ loc'[u].h = loc[u].h
    BY <1>6, Apart
  <2>. QED  BY <1>5, <2>1 DEF Core, Distinct, Buried
<1>15. Members'
  BY <1>4, <1>5, TablesType DEF Core, Members
<1>16. /\ loc'[Net].at = loc[Net].at /\ loc'[Net].h = loc[Net].h
       /\ loc'[Net].groups = loc[Net].groups
  BY <1>6, Apart
<1>17. Masks' /\ Joined'
  BY <1>4, <1>5, <1>11, <1>16, TablesType DEF Core, Masks, Joined
<1>18. Routed'
  <2>1. Phase' = Phase
    BY <1>1, <1>4, <1>7 DEF Phase
  <2>. QED  BY <1>4, <1>5, <1>11, <2>1 DEF Core, Routed
<1>19. /\ \A i : EpsUsers(i)' = EpsUsers(i) /\ DevUsers(i)' = DevUsers(i)
       /\ \A g \in Live : GroupUsers(g)' = GroupUsers(g) /\ Owners(g)' = Owners(g)
  <2>1. \A i : EpsUsers(i)' = EpsUsers(i) /\ DevUsers(i)' = DevUsers(i)
    BY <1>1, <1>6, <1>7 DEF EpsUsers, DevUsers
  <2>2. \A g \in Live : g \notin B /\ g # None
    BY <1>2, TablesType, SlotsAssumption DEF None
  <2>3. \A g \in Live : GroupUsers(g)' = GroupUsers(g)
    BY <1>1, <1>6, <1>7, <2>2 DEF GroupUsers
  <2>4. \A g \in Live : Owners(g)' = Owners(g)
    BY <1>1, <1>6, <1>7, <2>2 DEF Owners
  <2>. QED  BY <2>1, <2>3, <2>4
<1>20. EpsCounts' /\ GroupCounts'
  BY <1>4, <1>5, <1>19, TablesType DEF Core, EpsCounts, GroupCounts
<1>21. DevCounts'
  <2>. SUFFICES ASSUME NEW d \in Countable
                PROVE  InUse(d)' = Cardinality(DevUsers(d)') + Cardinality(DeadAt(d)') + Adding(d)'
    BY <1>11 DEF DevCounts
  <2>1. DevUsers(d)' = DevUsers(d) /\ Cardinality(DeadAt(d)') = 0 /\ Adding(d)' = Adding(d)
    BY <1>9, <1>16, <1>19, FS_EmptySet DEF Adding
  <2>2. InUse(d)' = InUse(d) - Cardinality(DeadAt(d)) /\ InUse(d) \in Nat
    <3>1. CASE d = gone.dev
      <4>1. DeadAt(d) = {}
        BY <1>3, <1>9, <3>1 DEF Core, Masks
      <4>2. InUse(d)' = InUse(d) /\ InUse(d) \in Nat
        BY <1>4, <3>1 DEF InUse, TypeOK
      <4>. QED  BY <4>1, <4>2, FS_EmptySet
    <3>2. CASE d # gone.dev
      <4>1. d \in DevicesThere
        BY <3>2 DEF Countable
      <4>. QED  BY <1>4, <1>10, <3>2, <4>1, TablesType DEF InUse
    <3>. QED  BY <3>1, <3>2
  <2>3. InUse(d) = Cardinality(DevUsers(d)) + Cardinality(DeadAt(d)) + Adding(d)
    BY DEF Core, DevCounts
  <2>. QED  BY <2>1, <2>2, <2>3, UsersType, DeadType
<1>. QED  BY <1>12, <1>13, <1>14, <1>15, <1>17, <1>18, <1>20, <1>21 DEF Core

LEMMA AccountInv ==
  ASSUME TypeOK, Core, Account
  PROVE  TypeOK' /\ Core'
<1>1. /\ loc[Ticker].at = "account" /\ loc[Ticker].eps = {} /\ loc[Ticker].devs = {}
      /\ loc[Ticker].groups = {} /\ loc[Ticker].dead = {} /\ loc[Ticker].lost = {}
      /\ loc[Ticker].g = None /\ Ticker \in Threads /\ GroupsThere = Live
  BY Apart DEF Account, At, Core, Sound, Shape, Buried
<1>2. /\ gtab' = [g \in Groups |-> IF g \in GroupsThere /\ divider = 0
                    THEN [gtab[g] EXCEPT !.devs = gtab[g].acc, !.acc = {}] ELSE gtab[g]]
      /\ since' = [g \in Groups |-> [d \in Devices |-> Min({since[g][d] + 1, Forgotten})]]
      /\ loc' = [loc EXCEPT ![Ticker].at = IF divider % Life = 0 THEN "announce" ELSE "idle"]
  BY DEF Account
<1>3. /\ UNCHANGED <<etab, dtab, divider, gone, up, kept, opens>>
      /\ UNCHANGED <<EndpointsThere, DevicesThere, Countable>>
  BY DEF Account, others, EndpointsThere, DevicesThere, Countable
<1>4. ASSUME NEW g \in GroupsThere
      PROVE  /\ gtab'[g] \in GroupRecords /\ gtab'[g].inuse = gtab[g].inuse
             /\ gtab'[g].attachs = gtab[g].attachs /\ gtab'[g].eps = gtab[g].eps
             /\ gtab'[g].dead = gtab[g].dead
             /\ gtab'[g].devs = IF divider = 0 THEN gtab[g].acc ELSE gtab[g].devs
             /\ gtab'[g].acc = IF divider = 0 THEN {} ELSE gtab[g].acc
  <2>1. gtab[g] \in GroupRecords /\ g \in Groups
    BY TablesType
  <2>2. CASE divider = 0
    <3>1. gtab'[g] = [gtab[g] EXCEPT !.devs = gtab[g].acc, !.acc = {}]
      BY <1>2, <2>1, <2>2
    <3>. QED  BY <2>1, <2>2, <3>1 DEF GroupRecords
  <2>3. CASE divider # 0
    BY <1>2, <2>1, <2>3
  <2>. QED  BY <2>2, <2>3
<1>5. /\ gtab' \in [Groups -> GroupRecords \cup {NoGroup}]
      /\ GroupsThere' = GroupsThere /\ Live' = Live
  <2>1. \A g \in Groups \ GroupsThere : gtab'[g] = gtab[g]
    BY <1>2
  <2>2. gtab' \in [Groups -> GroupRecords \cup {NoGroup}]
    BY <1>2, <1>4, <2>1 DEF TypeOK
  <2>3. GroupsThere' = GroupsThere
    BY <1>4, <2>1, GroupNames, TablesType DEF GroupsThere
  <2>. QED  BY <1>4, <2>2, <2>3 DEF Live
<1>6. ASSUME NEW g \in Groups, NEW d \in Devices
      PROVE  /\ since[g][d] \in 0 .. Forgotten
             /\ since'[g][d] = IF since[g][d] + 1 <= Forgotten THEN since[g][d] + 1 ELSE Forgotten
  <2>1. since[g][d] \in 0 .. Forgotten /\ Forgotten \in Nat
    BY TimesAssumption DEF TypeOK, Forgotten
  <2>2. since'[g][d] = Min({since[g][d] + 1, Forgotten})
    BY <1>2
  <2>. QED  BY <2>1, <2>2, MinOfTwo
<1>7. since' \in [Groups -> [Devices -> 0 .. Forgotten]]
  <2>1. \A g \in Groups, d \in Devices : Min({since[g][d] + 1, Forgotten}) \in 0 .. Forgotten
    <3>. SUFFICES ASSUME NEW g \in Groups, NEW d \in Devices
                  PROVE  Min({since[g][d] + 1, Forgotten}) \in 0 .. Forgotten
      OBVIOUS
    <3>1. since[g][d] \in 0 .. Forgotten /\ Forgotten \in Nat
      BY TimesAssumption DEF TypeOK, Forgotten
    <3>. QED  BY <3>1, MinOfTwo
  <2>. QED  BY <1>2, <2>1
<1>8. /\ loc' \in [Threads -> ThreadRecords] /\ \A u \in Threads \ {Ticker} : loc'[u] = loc[u]
      /\ loc'[Ticker].at \in {"idle", "announce"} /\ loc'[Ticker].eps = {}
      /\ loc'[Ticker].devs = {} /\ loc'[Ticker].groups = {} /\ loc'[Ticker].dead = {}
      /\ loc'[Ticker].lost = {} /\ loc'[Ticker].g = None
  <2>1. loc[Ticker] \in ThreadRecords
    BY <1>1 DEF TypeOK
  <2>. QED  BY <1>1, <1>2, <2>1 DEF TypeOK, ThreadRecords, Places
<1>9. TypeOK'
  BY <1>3, <1>5, <1>7, <1>8 DEF TypeOK
<1>10. ASSUME NEW u \in Threads
       PROVE  Sound(u)'
  <2>1. CASE u = Ticker
    BY <1>8, <2>1, Apart DEF Sound, Shape, Held, PlacesOf
  <2>2. CASE u # Ticker
    <3>. loc'[u] = loc[u] /\ Sound(u)
      BY <1>8, <2>2 DEF Core
    <3>1. Shape(u)' /\ Held(u)'
      BY <1>3, <1>5 DEF Sound, Shape, Held
    <3>2. u \in Users => Linked(u)'
      BY <1>3, <1>4, <1>5, TablesType DEF Sound, Linked
    <3>. QED  BY <3>1, <3>2 DEF Sound
  <2>. QED  BY <2>1, <2>2
<1>11. Distinct' /\ Buried'
  BY <1>1, <1>5, <1>8, Apart DEF Core, Distinct, Buried
<1>12. Members'
  BY <1>3, <1>4, <1>5 DEF Core, Members
<1>13. loc'[Net] = loc[Net]
  BY <1>8, Apart
<1>14. Masks'
  <2>1. \A g \in GroupsThere : gtab'[g].devs \cup gtab'[g].acc \subseteq gtab[g].devs \cup gtab[g].acc
    BY <1>4
  <2>. QED  BY <1>3, <1>4, <1>5, <1>13, <2>1, TablesType DEF Core, Masks
<1>15. Joined'
  BY <1>3, <1>4, <1>5, <1>13, TablesType DEF Core, Joined
<1>16. Routed'
  <2>. SUFFICES ASSUME NEW g \in Live, NEW d \in Devices
                PROVE  /\ d \in gtab'[g].acc <=> since'[g][d] <= Phase'
                       /\ d \in gtab'[g].devs <=> since'[g][d] <= 2 * Life + Phase'
                       /\ d \notin DevicesThere => since'[g][d] = Forgotten
    BY <1>3, <1>5 DEF Routed
  <2>1. PICK s \in Nat, s1 \in Nat : s = since[g][d] /\ s1 = since'[g][d]
    BY <1>6, <1>7, TablesType
  <2>2. /\ Phase' = divider /\ divider \in 0 .. 2 * Life - 1 /\ Life \in Nat \ {0}
        /\ Phase = IF divider = 0 THEN 2 * Life - 1 ELSE divider - 1
        /\ s <= 4 * Life /\ s1 = IF s + 1 <= 4 * Life THEN s + 1 ELSE 4 * Life
    BY <1>1, <1>3, <1>6, <1>8, <2>1, TablesType, TimesAssumption DEF Phase, TypeOK, Forgotten
  <2>3. /\ d \in gtab[g].acc <=> s <= Phase
        /\ d \in gtab[g].devs <=> s <= 2 * Life + Phase
        /\ d \notin DevicesThere => s = Forgotten
    BY <2>1 DEF Core, Routed
  <2>4. d \notin DevicesThere => s1 = Forgotten
    BY <2>2, <2>3 DEF Forgotten
  <2>5. CASE divider = 0
    <3>1. d \notin gtab'[g].acc /\ (d \in gtab'[g].devs <=> d \in gtab[g].acc)
      BY <1>4, <2>5, TablesType
    <3>2. ~(s1 <= Phase') /\ (s <= Phase <=> s1 <= 2 * Life + Phase')
      BY <2>2, <2>5
    <3>. QED  BY <2>1, <2>3, <2>4, <3>1, <3>2
  <2>6. CASE divider # 0
    <3>1. gtab'[g].acc = gtab[g].acc /\ gtab'[g].devs = gtab[g].devs
      BY <1>4, <2>6, TablesType
    <3>2. (s <= Phase <=> s1 <= Phase') /\ (s <= 2 * Life + Phase <=> s1 <= 2 * Life + Phase')
      BY <2>2, <2>6
    <3>. QED  BY <2>1, <2>3, <2>4, <3>1, <3>2
  <2>. QED  BY <2>5, <2>6
<1>17. EpsCounts'
  <2>1. \A h : Cardinality(EpsUsers(h)') = Cardinality(EpsUsers(h)) + 0 - 0
    BY <1>1, <1>8, UsersMove DEF One
  <2>. QED  BY <1>3, <2>1, UsersType DEF Core, EpsCounts
<1>18. DevCounts'
  <2>. SUFFICES ASSUME NEW d \in Countable
                PROVE  InUse(d)' = Cardinality(DevUsers(d)') + Cardinality(DeadAt(d)') + Adding(d)'
    BY <1>3 DEF DevCounts
  <2>1. Cardinality(DevUsers(d)') = Cardinality(DevUsers(d)) + 0 - 0
    BY <1>1, <1>8, UsersMove DEF One
  <2>2. DeadAt(d)' = DeadAt(d) /\ Adding(d)' = Adding(d) /\ InUse(d)' = InUse(d)
    BY <1>1, <1>3, <1>5, <1>13 DEF DeadAt, Adding, InUse
  <2>. QED  BY <2>1, <2>2, UsersType DEF Core, DevCounts
<1>19. GroupCounts'
  <2>. SUFFICES ASSUME NEW g \in GroupsThere
                PROVE  gtab'[g].inuse = kept[g] + Cardinality(GroupUsers(g)') + Cardinality(Owners(g)')
    BY <1>3, <1>5 DEF GroupCounts
  <2>0. g \in Groups /\ g # None
    BY TablesType, SlotsAssumption DEF None
  <2>2. /\ Cardinality(GroupUsers(g)') = Cardinality(GroupUsers(g)) + 0 - 0
        /\ Cardinality(Owners(g)') = Cardinality(Owners(g)) + 0 - 0
    BY <1>1, <1>8, <2>0, UsersMove DEF One
  <2>. QED  BY <1>4, <2>2, UsersType DEF Core, GroupCounts
<1>. QED  BY <1>9, <1>10, <1>11, <1>12, <1>14, <1>15, <1>16, <1>17, <1>18, <1>19 DEF Core

-----------------------------------------------------------------------------
(* The theorems.                                                            *)

LEMMA InitInv == Init => Inv
<1>. SUFFICES ASSUME Init
              PROVE  TypeOK /\ Core
  BY DEF Inv
<1>1. /\ GroupsThere = {} /\ Live = {} /\ EndpointsThere = {} /\ DevicesThere = {}
      /\ Countable = {}
  BY DEF Init, GroupsThere, Live, EndpointsThere, DevicesThere, Countable
<1>2. /\ Life \in Nat /\ Life > 0 /\ Forgotten \in 0 .. Forgotten /\ 0 \in 0 .. 2 * Life - 1
      /\ 0 <= MaxOpens /\ MaxOpens \in Nat
  BY TimesAssumption DEF Forgotten
<1>3. \A t \in Threads : loc[t] = Idle
  BY DEF Init
<1>4. Idle \in ThreadRecords
  BY DEF Idle, ThreadRecords, Places
<1>5. TypeOK
  BY <1>2, <1>4 DEF Init, TypeOK
<1>6. \A t \in Threads : Sound(t)
  BY <1>3 DEF Sound, Shape, Held, Linked, Idle, PlacesOf, WithEndpoint
<1>7. Distinct /\ Members /\ Masks /\ Joined /\ Buried /\ Routed
  BY <1>1, <1>3, Apart
     DEF Init, Idle, Distinct, WithEndpoint, Members, Masks, Joined, Buried, Routed
<1>8. EpsCounts /\ DevCounts /\ GroupCounts
  BY <1>1 DEF EpsCounts, DevCounts, GroupCounts
<1>. QED  BY <1>5, <1>6, <1>7, <1>8 DEF Core

\* A crash leaves everything but up.
LEMMA CrashInv ==
  ASSUME TypeOK, NEW t \in Threads, Crash(t)
  PROVE  TypeOK' /\ ~up'
  BY DEF Crash, TypeOK, history, EndpointRecords, DeviceRecords

LEMMA ContinueInv ==
  ASSUME Inv, NEW t \in Threads, Continue(t)
  PROVE  Inv'
<1>1. up
  BY DEF Continue, RouteCount, RouteDone, Deliver, Delivered, Crash, Join, OpenSlot, OpenFails,
         CloseEnd, Transmit, Hear, Heard, AddEnd, RemoveEnd, Tick, Expire, Account, At
<1>. TypeOK /\ Core
  BY <1>1 DEF Inv
<1>2. CASE RouteCount(t)
  BY <1>2, RouteCountInv DEF Inv
<1>3. CASE RouteDone(t)
  BY <1>3, RouteDoneInv DEF Inv
<1>4. CASE Deliver(t)
  BY <1>4, DeliverInv DEF Inv
<1>5. CASE Delivered(t)
  BY <1>5, DeliveredInv DEF Inv
<1>6. CASE Crash(t)
  BY <1>6, CrashInv DEF Inv
<1>7. CASE t \in Users /\ Join(t)
  BY <1>7, JoinInv DEF Inv
<1>8. CASE t \in Users /\ OpenSlot(t)
  BY <1>8, OpenSlotInv DEF Inv
<1>9. CASE t \in Users /\ OpenFails(t)
  BY <1>9, OpenFailsInv DEF Inv
<1>10. CASE t \in Users /\ CloseEnd(t)
  BY <1>10, CloseEndInv DEF Inv
<1>11. CASE t \in Users /\ Transmit(t)
  BY <1>11, TransmitInv DEF Inv
<1>12. CASE Hear
  BY <1>12, HearInv DEF Inv
<1>13. CASE Heard
  BY <1>13, HeardInv DEF Inv
<1>14. CASE AddEnd
  BY <1>14, AddEndInv DEF Inv
<1>15. CASE RemoveEnd
  BY <1>15, RemoveEndInv DEF Inv
<1>16. CASE Tick
  BY <1>16, TickInv DEF Inv
<1>17. CASE Expire
  BY <1>17, ExpireInv DEF Inv
<1>18. CASE Account
  BY <1>18, AccountInv DEF Inv
<1>. QED  BY <1>2, <1>3, <1>4, <1>5, <1>6, <1>7, <1>8, <1>9, <1>10, <1>11, <1>12, <1>13, <1>14,
             <1>15, <1>16, <1>17, <1>18 DEF Continue

LEMMA CallInv ==
  ASSUME Inv, Call
  PROVE  Inv'
<1>1. up
  BY DEF Call, CloseBegin, Write, OpenFound, OpenNew, DataIn, RouteIn, AddBegin, RemoveBegin, At
<1>. TypeOK /\ Core
  BY <1>1 DEF Inv
<1>2. ASSUME NEW u \in Users, CloseBegin(u)
      PROVE  Inv'
  BY <1>2, CloseBeginInv DEF Inv
<1>3. ASSUME NEW u \in Users, Write(u)
      PROVE  Inv'
  BY <1>3, WriteInv DEF Inv
<1>4. ASSUME NEW u \in Users, NEW n \in Names, OpenFound(u, n)
      PROVE  Inv'
  BY <1>4, OpenFoundInv DEF Inv
<1>5. ASSUME NEW u \in Users, NEW n \in Names, NEW p \in BOOLEAN, OpenNew(u, n, p)
      PROVE  Inv'
  BY <1>5, OpenNewInv DEF Inv
<1>6. ASSUME NEW n \in Names, DataIn(n)
      PROVE  Inv'
  BY <1>6, DataInInv DEF Inv
<1>7. ASSUME NEW n \in Names, NEW d \in Devices, RouteIn(n, d)
      PROVE  Inv'
  BY <1>7, RouteInInv DEF Inv
<1>8. CASE AddBegin
  BY <1>8, AddBeginInv DEF Inv
<1>9. ASSUME NEW d \in Devices, RemoveBegin(d)
      PROVE  Inv'
  BY <1>9, RemoveBeginInv DEF Inv
<1>. QED  BY <1>2, <1>3, <1>4, <1>5, <1>6, <1>7, <1>8, <1>9 DEF Call

LEMMA StutterInv ==
  ASSUME Inv, UNCHANGED vars
  PROVE  Inv'
<1>1. /\ gtab' = gtab /\ etab' = etab /\ dtab' = dtab /\ divider' = divider /\ loc' = loc
      /\ gone' = gone /\ up' = up /\ kept' = kept /\ since' = since /\ opens' = opens
  BY DEF vars
<1>2. TypeOK'
  BY <1>1 DEF Inv, TypeOK, EndpointRecords, DeviceRecords
<1>3. ASSUME up
      PROVE  Core'
  <2>. TypeOK /\ Core
    BY <1>3 DEF Inv
  <2>1. SameGroups /\ SameEndpoints /\ SameDevices
    BY <1>1, NoCount
  <2>2. \A t \in Threads : Sound(t)'
    BY <1>1, <2>1, OthersSound DEF Core
  <2>3. /\ Distinct' /\ Members' /\ Masks' /\ Joined' /\ Buried' /\ Routed'
    BY <1>1, <2>1 DEF Core, Distinct, Members, Masks, Joined, Buried, Routed, Phase, Countable,
                      SameGroups, SameEndpoints, SameDevices
  <2>4. EpsCounts' /\ DevCounts' /\ GroupCounts'
    BY <1>1, <2>1 DEF Core, EpsCounts, DevCounts, GroupCounts, EpsUsers, DevUsers, GroupUsers,
                      Owners, DeadAt, Adding, InUse, Countable, SameGroups, SameEndpoints,
                      SameDevices
  <2>. QED  BY <2>2, <2>3, <2>4 DEF Core
<1>. QED  BY <1>1, <1>2, <1>3 DEF Inv

\* Every step of the bus keeps its tables and its threads in agreement: the
\* inductive invariant behind the theorems below.
THEOREM Invariance == Spec => []Inv
<1>1. Inv /\ [Next]_vars => Inv'
  BY CallInv, ContinueInv, StutterInv DEF Next
<1>. QED  BY InitInv, <1>1, PTL DEF Spec

\* The tables, what the threads have counted and the histories stay of their
\* types; no in_use falls below zero and no announcement period is left out.
THEOREM TypeCorrect == Spec => []TypeOK
<1>1. Inv => TypeOK
  BY DEF Inv
<1>. QED  BY Invariance, <1>1, PTL

\* in_use of an endpoint, a device and a group, which pie_bkwrite(),
\* bk_route_send(), bk_expire_group() and the others raise under the lock and
\* lower without it, is exactly the number of threads that have yet to lower it,
\* and for a group the opens that leave it raised.
THEOREM CountsAreExact == Spec => []CountsExact
<1>1. Inv => CountsExact
  <2>. SUFFICES ASSUME TypeOK, Core
                PROVE  CountsExact
    BY DEF Inv, CountsExact
  <2>1. ASSUME NEW h \in EndpointsThere
        PROVE  etab[h].inuse = Cardinality({t \in Threads : h \in loc[t].eps})
    BY DEF Core, EpsCounts, EpsUsers
  <2>2. ASSUME NEW d \in DevicesThere \cup ({gone.dev} \ {None})
        PROVE  (IF d = gone.dev THEN gone.inuse ELSE dtab[d].inuse)
                 = Cardinality({t \in Threads : d \in loc[t].devs})
                   + Cardinality({g \in GroupsThere \ Live : d \in gtab[g].attachs})
                   + IF loc[Net].at = "adding" /\ loc[Net].h = d THEN 1 ELSE 0
    BY DEF Core, DevCounts, DevUsers, DeadAt, Adding, One, InUse, Countable
  <2>3. ASSUME NEW g \in GroupsThere
        PROVE  gtab[g].inuse = kept[g]
                 + Cardinality({t \in Threads : g \in loc[t].groups \ loc[t].lost})
                 + Cardinality({t \in Threads : loc[t].at # "write" /\ loc[t].g = g})
    BY DEF Core, GroupCounts, GroupUsers, Owners
  <2>. QED  BY <2>1, <2>2, <2>3 DEF CountsExact
<1>. QED  BY Invariance, <1>1, PTL

\* Whatever a thread has counted under the lock is still in its table when the
\* thread looks there later without it, as deliver(), transmit() and
\* bk_route_send() do: but for the device that pie_bkremovedevice() has just
\* taken out, and for a group that was dead when it was counted.
THEOREM NobodyDanglesEver == Spec => []NobodyDangles
<1>1. Inv => NobodyDangles
  <2>. SUFFICES ASSUME TypeOK, Core, NEW t \in Threads
                PROVE  /\ loc[t].eps \subseteq EndpointsThere
                       /\ loc[t].devs \subseteq DevicesThere \cup {gone.dev}
                       /\ loc[t].lost \subseteq loc[t].dead
                       /\ t \in Users /\ loc[t].at \in {"join", "slot"} => loc[t].g \in Live
                       /\ t \in Users /\ loc[t].at \in {"announce", "route", "open", "write"} =>
                            /\ loc[t].h \in EndpointsThere
                            /\ etab[loc[t].h].group \in Live
                            /\ loc[t].h \in gtab[etab[loc[t].h].group].eps
    BY DEF Inv, NobodyDangles
  <2>1. Shape(t) /\ Held(t) /\ (t \in Users => Linked(t))
    BY DEF Core, Sound
  <2>. QED  BY <2>1 DEF Shape, Held, Linked, Countable, WithEndpoint
<1>. QED  BY Invariance, <1>1, PTL

\* Whichever of pie_bkernel_creategroup() and pie_bkadddevice() comes first,
\* and whatever happens between their steps, every live group is joined on
\* every device, and no mask names a device that was removed.
THEOREM EveryGroupAttached == Spec => []AllAttached
<1>1. Inv => AllAttached
  BY DEF Inv, Core, Joined, Masks, AllAttached
<1>. QED  BY Invariance, <1>1, PTL

\* bk_route_in_group() notes an announcement in two masks and
\* bk_route_accumulate() shifts them: for any period, a device gets a group's
\* packets for at least two periods after the last announcement there and for
\* at most four.
THEOREM RoutesFollow == Spec => []RouteFollowsPeers
<1>1. Inv => RouteFollowsPeers
  <2>. SUFFICES ASSUME TypeOK, Core, NEW g \in Live, NEW d \in DevicesThere
                PROVE  /\ since[g][d] <= 2 * Life => d \in gtab[g].devs
                       /\ since[g][d] >= 4 * Life => d \notin gtab[g].devs
    BY DEF Inv, RouteFollowsPeers
  <2>1. d \in gtab[g].devs <=> since[g][d] <= 2 * Life + Phase
    BY TablesType DEF Core, Routed
  <2>2. /\ Phase \in 0 .. 2 * Life - 1 /\ Life \in Nat
        /\ since[g][d] \in Nat
    <3>1. g \in Groups /\ d \in Devices
      BY TablesType
    <3>2. since[g][d] \in 0 .. Forgotten
      BY <3>1 DEF TypeOK
    <3>. QED  BY <3>2, PhaseType, TimesAssumption DEF Forgotten
  <2>. QED  BY <2>1, <2>2
<1>. QED  BY Invariance, <1>1, PTL
=============================================================================
