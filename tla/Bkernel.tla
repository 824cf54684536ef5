------------------------------ MODULE Bkernel -------------------------------
(***************************************************************************)
(* The bus of a process (piagent/src/pia_bkernel.cpp): endpoints in named  *)
(* groups, and devices, the network interfaces, to which a group's packets *)
(* go if another process has announced that it wants them.                 *)
(*                                                                         *)
(* Endpoints, groups and devices are kept in three tables under one lock.  *)
(* Callbacks are made without the lock: what they are made for is counted  *)
(* in in_use before the lock is released, and looked up in the table again *)
(* for each.  A step is what is done under the lock, or one callback.      *)
(*                                                                         *)
(* Threads are the users', each with an endpoint that it opens, writes to  *)
(* and closes; Ticker, which calls pie_bktick() every second; and Net,     *)
(* which receives packets and, with PI_FULLNET, adds and removes           *)
(* interfaces as they come and go (pia_udpnet_linux.cpp).  Only Ticker     *)
(* frees groups, and only Net touches the table of devices.                *)
(***************************************************************************)
EXTENDS Integers, FiniteSets, FiniteSetsExt

CONSTANTS Users, Ticker, Net,
          Names,      \* of groups
          Groups, Endpoints, Devices,   \* the slots of the three tables
          Life,       \* BK_TICKS_ROUTE_LIFE
          Death,      \* BK_TICKS_GROUP_DEATH
          MaxOpens    \* bound

ASSUME SlotsAssumption ==
  /\ Groups \subseteq Nat /\ Endpoints \subseteq Nat /\ Devices \subseteq Nat
  /\ IsFiniteSet(Groups) /\ IsFiniteSet(Endpoints) /\ IsFiniteSet(Devices)
  /\ Ticker # Net /\ Users \cap {Ticker, Net} = {} /\ IsFiniteSet(Users)
  /\ -1 \notin Names
ASSUME TimesAssumption == Life \in Nat \ {0} /\ Death \in Nat \ {0} /\ MaxOpens \in Nat

VARIABLES
  gtab,     \* __BkGroups
  etab,     \* __BkEndpoints
  dtab,     \* __BkDevices
  divider,  \* __BkDivider, modulo 2 * Life
  loc,      \* what each thread is doing
  gone,     \* the device that Net has taken out of the table, and its in_use
  up,       \* FALSE once a thread has used a slot that was cleared under it
  kept,     \* history: opens that raised a group's in_use for good, by slot
  since,    \* history: ticks since a device announced a group, by slots
  opens     \* opens left

vars == <<gtab, etab, dtab, divider, loc, gone, up, kept, since, opens>>

Threads == Users \cup {Ticker, Net}
None == -1

\* Empty slots, as records without content.
NoGroup == [name |-> None]
NoEndpoint == [group |-> None, inuse |-> None]
NoDevice == [inuse |-> None]
GroupsThere == {g \in Groups : gtab[g] # NoGroup}
EndpointsThere == {h \in Endpoints : etab[h] # NoEndpoint}
DevicesThere == {d \in Devices : dtab[d] # NoDevice}
Live == {g \in GroupsThere : ~gtab[g].dead}

\* What is left of a thread's operation: the endpoints, devices and groups
\* that it has counted and not yet uncounted; the groups among them that were
\* dead when it counted them; those that were freed since; its group, which it
\* has counted for itself unless it is writing; its endpoint (Net: its device).
Idle == [at |-> "idle", eps |-> {}, devs |-> {}, groups |-> {}, dead |-> {},
         lost |-> {}, g |-> None, h |-> None]

\* Longest time that since tells apart.
Forgotten == 4 * Life

Init ==
  /\ gtab = [g \in Groups |-> NoGroup]
  /\ etab = [h \in Endpoints |-> NoEndpoint]
  /\ dtab = [d \in Devices |-> NoDevice]
  /\ divider = 0 /\ up = TRUE
  /\ loc = [t \in Threads |-> Idle] /\ gone = [dev |-> None, inuse |-> 0]
  /\ kept = [g \in Groups |-> 0]
  /\ since = [g \in Groups |-> [d \in Devices |-> Forgotten]]
  /\ opens = MaxOpens

\* pic_atomicinc() or pic_atomicdec() of in_use in some slots.
Count(tab, slots, n) ==
  [i \in DOMAIN tab |-> IF i \in slots THEN [tab[i] EXCEPT !.inuse = @ + n] ELSE tab[i]]

At(t, place) == up /\ loc[t].at = place
history == <<kept, since, opens>>
others == <<divider, gone, up>>

-----------------------------------------------------------------------------
(* bk_route_send(): the groups with endpoints are announced to all devices. *)

\* Under the lock every group is counted, a dead one as well, and every device.
RouteCount(t) ==
  /\ At(t, "announce")
  /\ gtab' = Count(gtab, GroupsThere, 1)
  /\ dtab' = Count(dtab, DevicesThere, 1)
  /\ loc' = [loc EXCEPT ![t].at = "route", ![t].groups = GroupsThere,
                        ![t].devs = DevicesThere, ![t].dead = GroupsThere \ Live]
  /\ UNCHANGED <<etab, others, history>>

\* The packets are built and written to the devices.  What the thread then
\* does depends on the caller: a user has opened its endpoint, Net goes on
\* with bk_route_in_group(), Ticker has finished.
RouteDone(t) ==
  /\ At(t, "route")
  /\ loc[t].lost = {} /\ loc[t].devs \subseteq DevicesThere
  /\ gtab' = Count(gtab, loc[t].groups, -1)
  /\ dtab' = Count(dtab, loc[t].devs, -1)
  /\ loc' = [loc EXCEPT ![t] =
       [Idle EXCEPT !.at = IF t = Net THEN "heard" ELSE IF t = Ticker THEN "idle" ELSE "open",
                    !.g = loc[t].g, !.h = loc[t].h]]
  /\ UNCHANGED <<etab, others, history>>

-----------------------------------------------------------------------------
(* pie_bkopen()                                                             *)

Free(tab, none) == {i \in DOMAIN tab : tab[i] = none}
Found(name) == {g \in Live : gtab[g].name = name}

\* pie_bkernel_creategroup() finds the group and counts it.
OpenFound(u, name) ==
  /\ At(u, "idle") /\ opens > 0 /\ Found(name) # {}
  /\ gtab' = Count(gtab, {Min(Found(name))}, 1)
  /\ loc' = [loc EXCEPT ![u] = [Idle EXCEPT !.at = "slot", !.g = Min(Found(name))]]
  /\ opens' = opens - 1
  /\ UNCHANGED <<etab, dtab, others, kept, since>>

\* pie_bkernel_creategroup() makes the group.  A promiscuous open begins as
\* if all devices had announced it.
OpenNew(u, name, promisc) ==
  /\ At(u, "idle") /\ opens > 0
  /\ Found(name) = {} /\ GroupsThere # Groups
  /\ LET g == Min(Free(gtab, NoGroup))
         routes == IF promisc THEN DevicesThere ELSE {}
     IN  /\ gtab' = [gtab EXCEPT ![g] =
               [name |-> name, eps |-> {}, devs |-> routes, acc |-> routes,
                attachs |-> DevicesThere, inuse |-> 1, tick |-> 0, dead |-> FALSE]]
         /\ loc' = [loc EXCEPT ![u] = [Idle EXCEPT !.at = "join", !.g = g,
                                                   !.devs = DevicesThere]]
         /\ kept' = [kept EXCEPT ![g] = 0]
         /\ since' = [since EXCEPT ![g] = [d \in Devices |->
                        IF d \in routes THEN 0 ELSE Forgotten]]
  /\ dtab' = Count(dtab, DevicesThere, 1)
  /\ opens' = opens - 1
  /\ UNCHANGED <<etab, others>>

\* addgroup_callback() of the devices: they join the multicast group.
Join(u) ==
  /\ At(u, "join") /\ loc[u].devs \subseteq DevicesThere
  /\ dtab' = Count(dtab, loc[u].devs, -1)
  /\ loc' = [loc EXCEPT ![u].at = "slot", ![u].devs = {}]
  /\ UNCHANGED <<gtab, etab, others, history>>

\* The endpoint gets a slot and is put into its group, which stays counted
\* for good.  The first of a group is announced.
OpenSlot(u) ==
  /\ At(u, "slot") /\ EndpointsThere # Endpoints
  /\ LET h == Min(Free(etab, NoEndpoint))  g == loc[u].g
     IN  /\ etab' = [etab EXCEPT ![h] = [group |-> g, inuse |-> 0]]
         /\ gtab' = [gtab EXCEPT ![g].eps = @ \cup {h}]
         /\ kept' = [kept EXCEPT ![g] = @ + 1]
         /\ loc' = [loc EXCEPT ![u] = [Idle EXCEPT !.h = h,
                      !.at = IF gtab[g].eps = {} THEN "announce" ELSE "open"]]
  /\ UNCHANGED <<dtab, others, since, opens>>

\* Mutant of OpenFails: the group is uncounted twice, with and without the lock.
OpenFailsTwice(u) ==
  /\ At(u, "slot")
  /\ gtab' = Count(gtab, {loc[u].g}, -2)
  /\ loc' = [loc EXCEPT ![u] = Idle]
  /\ UNCHANGED <<etab, dtab, others, history>>

\* There is no memory or no slot: the group is uncounted.
OpenFails(u) ==
  /\ At(u, "slot")
  /\ gtab' = Count(gtab, {loc[u].g}, -1)
  /\ loc' = [loc EXCEPT ![u] = Idle]
  /\ UNCHANGED <<etab, dtab, others, history>>

-----------------------------------------------------------------------------
(* pie_bkclose()                                                            *)

\* Mutant of CloseBegin: the endpoint stays in the mask of its group.
CloseBeginMasked(u) ==
  /\ At(u, "open")
  /\ etab' = [etab EXCEPT ![loc[u].h].group = None]
  /\ loc' = [loc EXCEPT ![u].at = "closing"]
  /\ UNCHANGED <<gtab, dtab, others, history>>

\* The endpoint is taken out of its group: nobody counts it any more.
CloseBegin(u) ==
  /\ At(u, "open")
  /\ LET h == loc[u].h
     IN  /\ gtab' = [gtab EXCEPT ![etab[h].group].eps = @ \ {h}]
         /\ etab' = [etab EXCEPT ![h].group = None]
  /\ loc' = [loc EXCEPT ![u].at = "closing"]
  /\ UNCHANGED <<dtab, others, history>>

\* Mutant of CloseEnd: it does not wait.
CloseEndAtOnce(u) ==
  /\ At(u, "closing")
  /\ etab' = [etab EXCEPT ![loc[u].h] = NoEndpoint]
  /\ loc' = [loc EXCEPT ![u] = Idle]
  /\ UNCHANGED <<gtab, dtab, others, history>>

\* Nobody has it counted: it is freed.
CloseEnd(u) ==
  /\ At(u, "closing") /\ etab[loc[u].h].inuse = 0
  /\ etab' = [etab EXCEPT ![loc[u].h] = NoEndpoint]
  /\ loc' = [loc EXCEPT ![u] = Idle]
  /\ UNCHANGED <<gtab, dtab, others, history>>

-----------------------------------------------------------------------------
(* pie_bkwrite() and pie_bkdata()                                           *)

\* Under the lock the group's endpoints and devices are counted.
Write(u) ==
  /\ At(u, "open")
  /\ LET g == etab[loc[u].h].group
     IN  /\ etab' = Count(etab, gtab[g].eps, 1)
         /\ dtab' = Count(dtab, gtab[g].devs, 1)
         /\ loc' = [loc EXCEPT ![u].at = "write", ![u].g = g,
                               ![u].eps = gtab[g].eps, ![u].devs = gtab[g].devs]
  /\ UNCHANGED <<gtab, others, history>>

\* A packet arrives for a group that is there: its endpoints are counted.
DataIn(name) ==
  /\ At(Net, "idle") /\ Found(name) # {}
  /\ LET eps == gtab[Min(Found(name))].eps
     IN  /\ etab' = Count(etab, eps, 1)
         /\ loc' = [loc EXCEPT ![Net].at = "data", ![Net].eps = eps]
  /\ UNCHANGED <<gtab, dtab, others, history>>

\* Mutant of Deliver: a writer leaves out its own endpoint, count included.
DeliverToOthers(t) ==
  /\ up /\ loc[t].at \in {"write", "data"} /\ loc[t].eps # {} /\ loc[t].lost = {}
  /\ etab' = Count(etab, {Min(loc[t].eps)} \ {loc[t].h}, -1)
  /\ loc' = [loc EXCEPT ![t].eps = @ \ {Min(@)}]
  /\ UNCHANGED <<gtab, dtab, others, history>>

\* data_callback() of the next endpoint (not of the writer's), without the
\* lock.  The header of a writer's packet has the name of its group.
Deliver(t) ==
  /\ up /\ loc[t].at \in {"write", "data"} /\ loc[t].eps # {} /\ loc[t].lost = {}
  /\ etab' = Count(etab, {Min(loc[t].eps)}, -1)
  /\ loc' = [loc EXCEPT ![t].eps = @ \ {Min(@)}]
  /\ UNCHANGED <<gtab, dtab, others, history>>

\* write_callback() of the next device, with the group's name again.
Transmit(u) ==
  /\ At(u, "write") /\ loc[u].eps = {} /\ loc[u].devs # {} /\ loc[u].lost = {}
  /\ Min(loc[u].devs) \in DevicesThere
  /\ dtab' = Count(dtab, {Min(loc[u].devs)}, -1)
  /\ loc' = [loc EXCEPT ![u].devs = @ \ {Min(@)}]
  /\ UNCHANGED <<gtab, etab, others, history>>

Delivered(t) ==
  /\ up /\ loc[t].at \in {"write", "data"} /\ loc[t].eps = {} /\ loc[t].devs = {}
  /\ loc' = [loc EXCEPT ![t] = IF t = Net THEN Idle
                               ELSE [Idle EXCEPT !.at = "open", !.h = loc[t].h]]
  /\ UNCHANGED <<gtab, etab, dtab, others, history>>

-----------------------------------------------------------------------------
(* bk_route_in_group(): another process has announced a group on a device.  *)

RouteIn(name, d) ==
  /\ At(Net, "idle") /\ Found(name) # {} /\ d \in DevicesThere
  /\ gtab' = Count(gtab, {Min(Found(name))}, 1)
  /\ loc' = [loc EXCEPT ![Net] = [Idle EXCEPT !.at = "hear", !.g = Min(Found(name)), !.h = d]]
  /\ UNCHANGED <<etab, dtab, others, history>>

\* Mutant of Hear: only the devices in use are noted, not those of the next
\* period.
HearNow ==
  /\ At(Net, "hear")
  /\ LET g == loc[Net].g  d == loc[Net].h
     IN  /\ gtab' = [gtab EXCEPT ![g].devs = @ \cup {d}]
         /\ since' = [since EXCEPT ![g][d] = 0]
         /\ loc' = [loc EXCEPT ![Net].at = IF d \in gtab[g].devs THEN "heard" ELSE "announce"]
  /\ UNCHANGED <<etab, dtab, others, kept, opens>>

\* The device is noted; if that is new, the announcement is returned.
Hear ==
  /\ At(Net, "hear")
  /\ LET g == loc[Net].g  d == loc[Net].h
     IN  /\ gtab' = [gtab EXCEPT ![g].devs = @ \cup {d}, ![g].acc = @ \cup {d}]
         /\ since' = [since EXCEPT ![g][d] = 0]
         /\ loc' = [loc EXCEPT ![Net].at = IF d \in gtab[g].devs THEN "heard" ELSE "announce"]
  /\ UNCHANGED <<etab, dtab, others, kept, opens>>

Heard ==
  /\ At(Net, "heard")
  /\ gtab' = Count(gtab, {loc[Net].g}, -1)
  /\ loc' = [loc EXCEPT ![Net] = Idle]
  /\ UNCHANGED <<etab, dtab, others, history>>

-----------------------------------------------------------------------------
(* pie_bkadddevice() and pie_bkremovedevice(), as interface_t calls it,     *)
(* without unhook.                                                          *)

\* Mutant of AddBegin: the device is put into the table when it has joined.
AddBeginHidden ==
  /\ At(Net, "idle") /\ DevicesThere # Devices
  /\ gtab' = Count(gtab, Live, 1)
  /\ loc' = [loc EXCEPT ![Net] = [Idle EXCEPT !.at = "adding", !.groups = Live,
                                              !.h = Min(Free(dtab, NoDevice))]]
  /\ UNCHANGED <<etab, dtab, others, history>>

\* The device gets a slot; the groups that it has to join are counted.
AddBegin ==
  /\ At(Net, "idle") /\ DevicesThere # Devices
  /\ LET d == Min(Free(dtab, NoDevice))
     IN  /\ dtab' = [dtab EXCEPT ![d] = [inuse |-> 1]]
         /\ loc' = [loc EXCEPT ![Net] = [Idle EXCEPT !.at = "adding", !.groups = Live, !.h = d]]
  /\ gtab' = Count(gtab, Live, 1)
  /\ UNCHANGED <<etab, others, history>>

\* It has joined them, and they note it.
AddEnd ==
  /\ At(Net, "adding")
  /\ LET d == loc[Net].h
         noted == [g \in Groups |-> IF g \in loc[Net].groups
                                    THEN [gtab[g] EXCEPT !.attachs = @ \cup {d}] ELSE gtab[g]]
     IN  /\ gtab' = Count(noted, loc[Net].groups, -1)
         /\ dtab' = [dtab EXCEPT ![d] = [inuse |-> IF @ = NoDevice THEN 0 ELSE @.inuse - 1]]
  /\ loc' = [loc EXCEPT ![Net] = Idle]
  /\ UNCHANGED <<etab, others, history>>

\* The device is taken out of the live groups and of the table at once.
RemoveBegin(d) ==
  /\ At(Net, "idle") /\ d \in DevicesThere
  /\ gtab' = [g \in Groups |-> IF g \in Live
                THEN [gtab[g] EXCEPT !.devs = @ \ {d}, !.acc = @ \ {d}, !.attachs = @ \ {d}]
                ELSE gtab[g]]
  /\ dtab' = [dtab EXCEPT ![d] = NoDevice]
  /\ gone' = [dev |-> d, inuse |-> dtab[d].inuse]
  /\ loc' = [loc EXCEPT ![Net].at = "removing"]
  /\ since' = [g \in Groups |-> [since[g] EXCEPT ![d] = Forgotten]]
  /\ UNCHANGED <<etab, divider, up, kept, opens>>

\* Nobody has it counted: it is freed.
RemoveEnd ==
  /\ At(Net, "removing") /\ gone.inuse = 0
  /\ gone' = [dev |-> None, inuse |-> 0]
  /\ loc' = [loc EXCEPT ![Net] = Idle]
  /\ UNCHANGED <<gtab, etab, dtab, divider, up, history>>

-----------------------------------------------------------------------------
(* pie_bktick()                                                             *)

\* death_tick is counted up to Death, beyond which it makes no difference.
Aged(g) == IF gtab[g].eps # {} THEN 0 ELSE Min({gtab[g].tick + 1, Death})
Expiring == {g \in GroupsThere : gtab[g].eps = {} /\ Aged(g) = Death /\ gtab[g].inuse = 0}

\* bk_expire_group(): groups that nobody has opened for a while are dead.
\* Their devices are counted, one time for each group; delgroup_callback().
Tick ==
  /\ At(Ticker, "idle")
  /\ divider' = (divider + 1) % (2 * Life)
  /\ gtab' = [g \in Groups |-> IF g \in GroupsThere
                THEN [gtab[g] EXCEPT !.tick = Aged(g), !.dead = g \in Expiring] ELSE gtab[g]]
  /\ dtab' = [d \in Devices |-> IF d \in DevicesThere
                THEN [inuse |-> dtab[d].inuse
                        + Cardinality({g \in Expiring : d \in gtab[g].attachs})] ELSE dtab[d]]
  /\ loc' = [loc EXCEPT ![Ticker].at = "expire"]
  /\ UNCHANGED <<etab, gone, up, history>>

\* Their devices are uncounted, and the dead groups freed.
Expire ==
  /\ At(Ticker, "expire")
  /\ LET buried == GroupsThere \ Live
         Using(t) == loc[t].groups \cup (IF loc[t].at = "write" THEN {loc[t].g} ELSE {})
     IN  /\ UNION {gtab[g].attachs : g \in buried} \subseteq DevicesThere
         /\ gtab' = [g \in Groups |-> IF g \in buried THEN NoGroup ELSE gtab[g]]
         /\ dtab' = [d \in Devices |-> IF d \in DevicesThere
                THEN [inuse |-> dtab[d].inuse
                        - Cardinality({g \in buried : d \in gtab[g].attachs})] ELSE dtab[d]]
         /\ loc' = [t \in Threads |->
                IF t = Ticker THEN [Idle EXCEPT !.at = "account"]
                ELSE [loc[t] EXCEPT !.lost = @ \cup (Using(t) \cap buried)]]
  /\ UNCHANGED <<etab, others, history>>

\* bk_route_accumulate(), every second time that the groups are announced.
Account ==
  /\ At(Ticker, "account")
  /\ gtab' = [g \in Groups |-> IF g \in GroupsThere /\ divider = 0
                THEN [gtab[g] EXCEPT !.devs = gtab[g].acc, !.acc = {}] ELSE gtab[g]]
  /\ since' = [g \in Groups |-> [d \in Devices |-> Min({since[g][d] + 1, Forgotten})]]
  /\ loc' = [loc EXCEPT ![Ticker].at = IF divider % Life = 0 THEN "announce" ELSE "idle"]
  /\ UNCHANGED <<etab, dtab, others, kept, opens>>

-----------------------------------------------------------------------------
(* A thread uses a slot that was cleared while it had the content counted:  *)
(* a null pointer, or another group's memory.                               *)
Crash(t) ==
  /\ up
  /\ \/ loc[t].lost # {}
     \/ ~(loc[t].devs \subseteq DevicesThere)
     \/ t = Ticker /\ loc[t].at = "expire" /\ \E g \in GroupsThere \ Live :
                        ~(gtab[g].attachs \subseteq DevicesThere)
  /\ up' = FALSE
  /\ UNCHANGED <<gtab, etab, dtab, divider, loc, gone, history>>

\* What a thread does without a new call from outside.
Continue(t) ==
  \/ RouteCount(t) \/ RouteDone(t) \/ Deliver(t) \/ Delivered(t) \/ Crash(t)
  \/ t \in Users /\ (Join(t) \/ OpenSlot(t) \/ OpenFails(t) \/ CloseEnd(t) \/ Transmit(t))
  \/ t = Net /\ (Hear \/ Heard \/ AddEnd \/ RemoveEnd)
  \/ t = Ticker /\ (Tick \/ Expire \/ Account)

Call ==
  \/ \E u \in Users : CloseBegin(u) \/ Write(u)
  \/ \E u \in Users, n \in Names : OpenFound(u, n) \/ \E p \in BOOLEAN : OpenNew(u, n, p)
  \/ \E n \in Names : DataIn(n)
  \/ \E n \in Names, d \in Devices : RouteIn(n, d)
  \/ AddBegin \/ \E d \in Devices : RemoveBegin(d)

Next == Call \/ \E t \in Threads : Continue(t)

Spec == Init /\ [][Next]_vars

\* Threads are scheduled and callbacks return; nobody has to call.
FairSpec == Spec /\ \A t \in Threads : WF_vars(Continue(t))

-----------------------------------------------------------------------------
(* Properties                                                               *)

Places == {"idle", "announce", "route", "join", "slot", "open", "closing", "write", "data",
           "hear", "heard", "adding", "removing", "expire", "account"}
GroupRecords ==
  [name : Names, eps : SUBSET Endpoints, devs : SUBSET Devices, acc : SUBSET Devices,
   attachs : SUBSET Devices, inuse : Nat, tick : 0 .. Death, dead : BOOLEAN]
EndpointRecords == [group : Groups \cup {None}, inuse : Nat]
DeviceRecords == [inuse : Nat]
ThreadRecords ==
  [at : Places, eps : SUBSET Endpoints, devs : SUBSET Devices,
   groups : SUBSET Groups, dead : SUBSET Groups, lost : SUBSET Groups,
   g : Groups \cup {None}, h : Endpoints \cup Devices \cup {None}]

TypeOK ==
  /\ gtab \in [Groups -> GroupRecords \cup {NoGroup}]
  /\ etab \in [Endpoints -> EndpointRecords \cup {NoEndpoint}]
  /\ dtab \in [Devices -> DeviceRecords \cup {NoDevice}]
  /\ loc \in [Threads -> ThreadRecords]
  /\ gone \in [dev : Devices \cup {None}, inuse : Nat]
  /\ divider \in 0 .. 2 * Life - 1 /\ up \in BOOLEAN
  /\ kept \in [Groups -> Nat] /\ since \in [Groups -> [Devices -> 0 .. Forgotten]]
  /\ opens \in 0 .. MaxOpens

\* in_use is raised and lowered by every thread, with and without the lock, and
\* is always the number of those that still have something to do, and of the
\* opens that leave a group's raised.
CountsExact ==
  LET InUse(d) == IF d = gone.dev THEN gone.inuse ELSE dtab[d].inuse
  IN  up => /\ \A h \in EndpointsThere :
                 etab[h].inuse = Cardinality({t \in Threads : h \in loc[t].eps})
            /\ \A d \in DevicesThere \cup ({gone.dev} \ {None}) :
                 InUse(d) = Cardinality({t \in Threads : d \in loc[t].devs})
                   + Cardinality({g \in GroupsThere \ Live : d \in gtab[g].attachs})
                   + IF loc[Net].at = "adding" /\ loc[Net].h = d THEN 1 ELSE 0
            /\ \A g \in GroupsThere :
                 gtab[g].inuse = kept[g]
                   + Cardinality({t \in Threads : g \in loc[t].groups \ loc[t].lost})
                   + Cardinality({t \in Threads : loc[t].at # "write" /\ loc[t].g = g})

\* Whatever a thread has counted under the lock is in its table when it looks
\* there later without it: an endpoint that is closed, a group that expires (but
\* for a group that was dead already), the group of a writer, whose name is
\* read again for each device; a device unless Net has just removed it.
NobodyDangles ==
  up => \A t \in Threads :
          /\ loc[t].eps \subseteq EndpointsThere
          /\ loc[t].devs \subseteq DevicesThere \cup {gone.dev}
          /\ loc[t].lost \subseteq loc[t].dead
          /\ t \in Users /\ loc[t].at \in {"join", "slot"} => loc[t].g \in Live
          /\ t \in Users /\ loc[t].at \in {"announce", "route", "open", "write"} =>
               /\ loc[t].h \in EndpointsThere
               /\ etab[loc[t].h].group \in Live
               /\ loc[t].h \in gtab[etab[loc[t].h].group].eps

\* A group that is created while a device is added, or the other way round,
\* is joined by it: packets for the group are received on every device; and
\* masks name no device that is not there.
AllAttached ==
  up => \A g \in Live :
          /\ \A d \in DevicesThere :
               d \in gtab[g].attachs \/ (loc[Net].at = "adding" /\ loc[Net].h = d)
          /\ gtab[g].devs \cup gtab[g].acc \cup gtab[g].attachs \subseteq DevicesThere

\* A group's packets go to a device for two announcement periods at least
\* after another process announced the group there, so that one announcement
\* may be lost, and for four at most.
RouteFollowsPeers ==
  up => \A g \in Live, d \in DevicesThere :
          /\ since[g][d] <= 2 * Life => d \in gtab[g].devs
          /\ since[g][d] >= 4 * Life => d \notin gtab[g].devs

\* pie_bkclose() spins until nobody uses the endpoint; others that write to the
\* group again and again cannot keep it there for ever.
CloseReturns == \A u \in Users : []<>(up => loc[u].at # "closing")
=============================================================================
