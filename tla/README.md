# Verification of EigenD's run-time core

EigenD is the software of a musical instrument: a set of *agents* (plug-ins in
C++ or Python, each in a context of its own) that run in one or several
processes, publish trees of state, connect to each other's trees, send each
other remote procedure calls and, on a fast path that may not wait, audio and
control data.  The agents are many and mostly arithmetic; what they stand on is
small, concurrent and hard to test: `picross` (threads and lock-free
structures), `piagent` (event queues, contexts, replication of trees, calls,
the fast path, the bus between processes), with `piw` and `pi` as its C++ and
Python faces.  That core is what this project is about.

Contents: [inventory](#inventory), [modules](#modules),
[runs](#runs-what-each-shows-and-within-which-bounds),
[fairness](#fairness), [proofs](#proofs), [findings](#findings),
[what is not modelled](#what-is-not-modelled), [plan](#plan).

## Inventory

### Modelled

| Component | State | Operations | What is hard | What makes it correct |
|---|---|---|---|---|
| **Gates, semaphores, threads** `picross/src/pic_thread_posix.cpp` | `xgate_t`: a flag, a semaphore | `open()`, `pass_and_shut()` with or without a time limit | openers raise the semaphore only on the way from 0 to 1 while the sleeper clears the flag | no wake-up is lost; a surplus of the semaphore only wakes once too often |
| **Safe queue, safe worker** `picross/src/pic_safeq.cpp` | a lock-free list of jobs, a gate, a thread, `quit_` | `add()` by any thread, `run()`, `quit()` | compare-and-swap on addresses that are freed and used again; the list is reversed while others push | each job is called once, in the order of `add()`; the worker sleeps only when it has nothing to do; `quit()` runs what came before it |
| **Flipflop** `picross/pic_flipflop.h` | two sides, two counts of readers, `_alternate` | `set()` by one writer, read guards of any thread | a reader holds the number of a side that the writer has since made its own | no reader sees a value while it is written; readers never wait; `set()` returns when the old value is unread |
| **Datadrop** `picross/pic_flipflop.h` | a pointer with a mark, reference counts | `set()` by the owner, `get()` by any thread | pointer and count are separate words; addresses come back | counts are exact: nothing is freed while referred to, nothing leaks |
| **Event queue** `piagent/src/pia_eventq.cpp` | posted jobs, four lists by priority, timers, cancellation points | `fast`, `idle`, `idlecall`, `slow`, `timer`, `run()`, `disable()` | jobs are posted and cancelled by other threads and by the callbacks themselves while `run()` is under way | nothing is stranded; priorities and order hold; a job that was cancelled does not run |
| **Contexts, dispatch** `piagent/src/pia_glue.cpp`, `pia_scaffold.cpp` | contexts with `queued_` and `busy_`, the list of contexts, gates of the context threads, the global lock, `auxq` | `process_ctx()`, `service_ctx()`, `lock()`/`unlock()`, `enter()`/`leave()`, `global_lock()` | a flag that is lowered by a thread which then does not get in; threads that come from outside | a context is run by one thread at a time, and every job that is posted is called |
| **Remote procedure calls** `piagent/src/pia_rpc.cpp` | at the client: stage, timer, attempts; at the server: invocations, results kept for later | REQ, GET, DUN, ACK, RSP; timers; closing either end | the network loses messages; answers cross retransmissions; a server dies or detaches in between | a call is carried out at most once, ends, and ends with the application's answer |
| **Tree replication** `piagent/src/pia_server.cpp`, `pia_local.cpp`, `pia_proxy.cpp`, `pia_buffer.cpp` | at the server: a tree of values with three numbers per node, a buffer, a mark between changes; at the proxy: a copy, outstanding requests, the numbers of the last header | add, change and close a node; multicast; TREE_REQ, DATA_REQ and their answers; timers; open, close and restart | changes are multicast without acknowledgement; a packet that is missing shows only in the numbers of the next; servers come back under the same name | a proxy that says it is in sync has what the server has, between two changes; it comes to be in sync |
| **Bus kernel** `piagent/src/pia_bkernel.cpp` | three tables under one lock: endpoints, groups, devices (network interfaces), each entry with `in_use` | open, close and write of an endpoint; data and announcements that arrive; devices that come and go; a tick every second | callbacks are made without the lock, on what was counted under it; groups expire; announcements may be lost | what is counted stays in its table; a group is on every device and its packets go where it was announced; a close returns |
| **State database** `pi/src/state` | agents with trees of nodes in memory, each with the place of its record; a file of blocks of records, only appended to | edit, save, `checkpoint()`, `park()`, `snapshot()`, `flush()`, open | what is saved must be complete on disk before the header says so; writes fail; blocks are in memory until they are full | what is clean in memory is in the file; what opening finds is complete; the file is a row of versions |

They are layered: a job queue wakes a thread through a gate; an event queue is
filled through a safe queue's list and run by whichever context thread
`process_ctx()` sends there; calls and trees live in a context and use its
event queue for everything they do, messages and timers included, and send and
receive through endpoints of the bus kernel; flipflops and datadrops carry
values from the contexts to the fast thread and back.  The state database is
the agent manager's: it takes the trees of the agents into a file and gives
them back.

### Not modelled

The rows of PROJECT.json's `components` with status `not_modelled` name their
sources and the reason.  In short:

* **Index** (`pia_index.cpp`): names and addresses of the servers on the bus,
  announced every five seconds and forgotten after ten missed announcements.
  State: records with a count of missed ticks.  Hard: a record that is deleted
  while an announcement is under way.  Planned.
* **Fast data, data queues, clocks** (`pia_fastdata.cpp`, `pia_dataqueue.cpp`,
  `pia_clock.cpp`, `pia_bclock.cpp`): the fast path.  State: chains of events
  with reference counts, subscribers, clock sinks sorted by dependency.
  Planned next.
* **Memory** (`pia_fastalloc.cpp`, `picross/pic_stack.h`, `pic_ilist.h`): slabs
  and intrusive lists; single-threaded by construction, apart from the stack.
* **Windows, things, manager, data values** (`pia_window.cpp`, `pia_thing.cpp`,
  `pia_manager.h`, `pia_data.cpp`): thin wrappers over contexts and queues, and
  an encoding of values.
* **Network transport** (`pia_udpnet_*.cpp`): multicast sockets, and, if built
  with `PI_FULLNET`, interfaces that come and go (`Bkernel` has them); the
  models of what runs over it state what they assume of it.
* **Python agents** (`pi/*.py`, `pisession`, `app_*`): the agent framework,
  the language, sessions and the applications.  `pi/rpc.py` and `pi/async.py`
  are used as documentation of what a call's status means.
* **Plug-ins, drivers, DSP** (`piw/src`, `plg_*`, `lib_alpha1`, `lib_alpha2`,
  `lib_pico`, `lib_micro`, `piembedded`): signal processing and USB protocols.
* **Vendored** (`lib_juce`, `lib_lo`, `lib_fftw`, `lib_samplerate`) and build
  tools (`tools`).

## Modules

| Module | Code | State and actions |
|---|---|---|
| `FlipFlop` | `picross/pic_flipflop.h` | `count[s]` is `_state[s]`, `data[s]` `_data[s]`, `alternate` `_alternate`. The writer's `set()` is StartFill, Fill, Open, Flip, Drain, Copy; a guard is its own process with one action per read and compare-and-swap. |
| `Publication` | what the users of a flipflop rely on | versions of a value, what guards may see, when `set()` may return. `FlipFlop` implements it (`ImplementsPublication`); `EventQueue` uses its promise for synchronous cancellation points. |
| `DataDrop` | `picross/pic_flipflop.h`, `datadrop_t` | `slot` is the pointer with its mark; `set()` and `get()` access by access, with objects that are freed and come back at the same address. |
| `SafeWorker` | `picross/src/pic_safeq.cpp`, `xgate_t` in `pic_thread_posix.cpp` | the list as `head` and `next`, nodes with addresses, the gate's counter and its semaphore; one action per atomic access of `add()`, `run()`, `open()`, `pass_and_shut()`. |
| `JobFifo` | what `safe_worker_t` promises | a sequence of jobs; `SafeWorker` implements it (`ImplementsFifo`), `EventQueue` builds on it. |
| `EventQueue` | `piagent/src/pia_eventq.cpp`, `.h` | `safe`, the lists by priority, timers with their schedule, `enabled` of each cancellation point; posting, cancelling, and the runner's steps from draining `safe_` to deleting a job. |
| `Dispatch` | `piagent/src/pia_glue.cpp`, `pia_scaffold.cpp` | each thread's place in `process_ctx()`, `queued_` (`flag`), `busy_`, `auxflag_`, the gates, the global lock; a queue is two counts, of posted and of taken jobs. |
| `Rpc` | `piagent/src/pia_rpc.cpp` | one call: the client's `cproxy_t` (stage, attempts, timer), the server's `sproxy_t`, the application, two ordered and lossy channels. |
| `RpcShared` | the same | extends `Rpc` with a process that hears the call's messages without being part of it. |
| `Tree` | `piagent/src/pia_server.cpp` | operators only: how `dseq_`, `nseq_`, `tseq_` move when a value changes, a child comes or goes. |
| `Mirror` | `piagent/src/pia_local.cpp`, `pia_proxy.cpp`, `pia_buffer.cpp` | the server's tree, its buffer and marks; the proxy's copy, its outstanding requests and the numbers of the last header; packets on their way. |
| `Bkernel` | `piagent/src/pia_bkernel.cpp` | `gtab`, `etab`, `dtab` are the tables, `loc[t]` what a thread has counted and where it is; opening, closing, writing, receiving, devices, the tick, each split where the lock is released. |
| `Database` | `pi/src/state/sng_database.cpp`, `sng_file.cpp` | `disk` is the file, `wblk` and `wbuf` the block being filled, `obj` the agents in memory with the places of their records, `agents` the trunk snapshot. |
| `VersionStore` | what the users of a state file rely on | versions, each a map from agents to trees; the last one on disk is found again. `Database` implements it (`ImplementsVersionStore`). |
| `PicrossProofs` (of `FlipFlop`, `DataDrop` and `SafeWorker`), `EventQueueProofs`, `DispatchProofs`, `RpcProofs`, `MirrorProofs` and `InSyncProofs` (of `Tree` and `Mirror`), `BkernelProofs`, `DatabaseProofs` | | theorems about the modules they extend. |
| `MC*` | | instances for TLC; nothing of the model is redefined there. |

`PROJECT.json` maps every definition to the lines it translates.  In every
module operators whose comment begins "Mutant of" are variants of a definition
with a plausible mistake; each property is known to fail for one of them.

What is one step differs by layer.  The lock-free structures (`FlipFlop`,
`DataDrop`, `SafeWorker`) have one action per access to shared memory,
sequentially consistent; a read of the flipflop's data is not atomic but spans the guard's stay.  From
`EventQueue` upwards a step is what the code does under a lock or on its own
data.  `EventQueue` takes `safe_` as a sequence, which is what `JobFifo` says
and `SafeWorker` is shown to implement, and `Dispatch` takes a queue as two
counts: `NoJobStranded` and `RunsInOrder` say that no job is left out of them.
`Rpc` and `Mirror` are event-driven: each callback is one step, since
`Dispatch` shows that callbacks of a context exclude each other and servers
and proxies do all their work under the main lock.  In `Bkernel` a step is what
is done while the lock is held, or one callback without it.  `Database` is
used by one thread: a step is a whole operation, which a failing write or a
crash may cut short after any of the records it writes.

Conventions of the models of the two protocols:

* *Network.*  Messages are lost or arrive in order; nothing is duplicated
  except by being sent again.  Every process is on one multicast segment.
  In `Rpc` a message arrives within `Delay` seconds or not at all.
* *Time.*  `Rpc` counts seconds, and `Tick` waits until what is due is done.
  In `Mirror` a second passes when posted jobs have run and packets have
  arrived; the exceptions, as the losses, are bounded by `MaxTroubles`.
* *Mirror.*  The requests that the proxy puts into its buffer in one callback
  leave as one packet; a buffer that overflows does so at the first stanza of
  an operation; requests are sent again parents first (the code: in the order
  of the list of outstanding nodes); the five empty packets of a server that
  closes are one; cookies are distinct (the code draws one of 65535); numbers
  do not wrap.  Every node of the server is visible.  `msseq_` to `mtseq_` are
  not initialised by the constructor, and nothing reads them before a packet
  has set them, since the root's requests are outstanding until then.

## Runs: what each shows, and within which bounds

| Run | Properties | Instance | States |
|---|---|---|---|
| `flipflop` | `NoTornRead`, `CountsExact`, refinement of `Publication`, `SetReturns` | 3 guards, 2 `set()` | 262 000 |
| `safe_worker` | `NoLostWakeup`, `QuitDrains`, refinement of `JobFifo`, `EveryJobRuns` | 2 producers, 2 addresses, 2 jobs each and `quit()`, with a ping interval | 504 000 |
| `data_drop` | `RefsExact`, `NoUseAfterFree`, `MarkHasOwner` | 3 threads, 2 addresses, symmetric | 3.3 million |
| `event_queue` | `NoJobStranded`, `RunsInOrder`, `SyncCancelIsFinal`, `TimersKeepTime`, `EveryJobSettles` | 1 thread and callbacks; a fast, two idle jobs, a timer of period 1 until time 2; one cancellation point of each kind | 1.27 million |
| `event_queue_cancel` | `CancelGuarantee` is violated | as `event_queue` | |
| `dispatch` | `TypeOK`, `NothingStranded`, `ContextsExclusive`, `EveryJobRuns` | two contexts in two groups with a thread each, one thread that posts and locks, the global lock | 872 000 |
| `dispatch_mt` | `EveryJobRuns` is violated | one context, two threads for its group, two jobs | |
| `rpc` | `TypeOK`, `AtMostOnce`, `ResultTrue`, `EveryCallEnds`, `ResultsForgotten` | one call, timers 1 and 2 s, 3 and 2 attempts, results kept 5 s, delays to 1 s, one crash | 249 000 |
| `rpc_shared` | `ResultTrue` is violated | the same, with a bystander | |
| `mirror` | `TypeOK`, `InSyncIsEqual`, `InSyncIsSnapshot`, `TseqGrows`, `Converges` | a root, a child, two grandchildren, one of them not there at the start; two changes, openings, closings or crashes; one loss, late timer or idle server | 1.3 million |
| `bkernel` | `TypeOK`, `CountsExact`, `NobodyDangles`, `AllAttached`, `RouteFollowsPeers`, `CloseReturns` | 2 users, 1 name, 2 slots for groups and endpoints, 1 device, periods of 1 and 2 ticks, 2 opens | 534 000 |
| `database` | `TypeOK`, `CleanMeansSaved`, `FoundIsKept`, refinement of `VersionStore` | trees of at most 3 nodes with 2 values, 2 names, 2 types, 2 objects, blocks of 2 records; 3 edits, 2 saves, 1 end of the program, 1 failing write | 167 000 |

Why the bounds are enough for what is asked:

* *Lock-free structures.*  What goes wrong there needs a thread with a stale
  value, a second one that changes what it was read from, and a third that
  puts something back: three threads, and two addresses or versions, so that
  one can be reused while the other is in place.  The proofs of `FlipFlop`,
  `DataDrop` and `SafeWorker` remove the bounds for the properties they cover.
* *Event queue.*  A job of every kind that is treated differently, and a timer
  that is put back into its list after its call.  Two periods show a drift.
  One thread posts, since callbacks post and cancel as well; its four safety
  properties are proved for any threads, jobs, priorities and periods.
* *Dispatch.*  A flag is lost between one thread that posts, one that serves
  and one that is in the way; two contexts show the order of the scan.  The
  safety properties are proved for any callers, contexts and groups.
* *Rpc.*  The timers of the code are 1, 5 and 60 seconds with ten attempts
  each; what matters is their order, which `KeepAssumption` states: the client
  has given up (11 attempts of 5 s and the delay) before the server forgets
  (60 s).  The instance keeps it, with 4 + 1 <= 5; the proofs of `AtMostOnce`
  and `ResultTrue` need nothing else.
* *Mirror.*  Both known ways to a stale proxy take one loss and two changes.
  A path of length two is the least at which a subtree has a number that is
  neither its root's nor a leaf's.  One of the initial states has a proxy that
  is in sync, the other has none yet.
* *Bkernel.*  Two slots for groups let a dead group and its successor of the
  same name be there together; two users open the same group, one closing
  while the other writes.  A period of one tick lets a group be announced,
  forgotten and expire.  All its safety properties are proved for any number
  of users, names, slots and devices and for any periods.
* *Database.*  Blocks of two records make every tree of more than one node
  span two of them, so that one may be on disk without the other.  Two saves
  and an edit between them share what has not changed; one name moves between
  two objects.  All its properties are proved for any trees, values, names,
  objects, sizes of blocks and bounds.

Deadlock is not checked where the system ends: when every job has been run or
both processes are gone.  In `flipflop`, `safe_worker` and `data_drop` it is.

## Fairness

* Flipflop, safe worker: each thread takes its next step; a guard that is
  inside leaves. (`WF` per thread.)
* Event queue: the runner runs, a thread that posted opens the gate, a
  `disable()` that can return does.
* Dispatch: threads are scheduled, callbacks return, a lock is released by its
  holder, and a thread that tries for the read lock again and again gets it at
  last (`SF`: pthreads queues waiters).  **The five-second timeouts of the
  gates are not fair.**  With them every lost wake-up would be repaired after
  five seconds and no property could see it.
* Rpc: a message is delivered *or lost*, timers run, time passes, the
  application answers.  Nothing makes the network deliver, so that a call that
  ends does so without its help.
* Mirror: the same, with at most `MaxTroubles` losses, as a proxy of a network
  that loses everything cannot converge.
* Bkernel: threads are scheduled and callbacks return.  Nobody has to call:
  `CloseReturns` holds whether or not others write for ever.

## Proofs

All for any values of the constants that satisfy the named assumptions.

* **`PicrossProofs`, the flipflop** (finite set of guards, any number of versions).
  `NoTornRead` is not inductive.  The invariant adds that a count is exactly
  the guards on its side and the writer's unit (`CountsExact`), that the
  closed side has count 0 outside the exchange (`ClosedSide`), that a guard
  about to raise a count has seen it above zero (`SeenPositive`), and which
  versions the sides hold at each place of `set()` (`Versions`).  From it
  follow type correctness, `NoTornRead`, `SidesAgree`, and that every step is
  a step of `Publication` or a stutter.
* **`EventQueueProofs`** (any threads, jobs, priorities, points and periods).
  `Noticed`: if `safe_` is not empty then the gate is open, or a thread is
  about to open it, or the runner is going to look.  `Emptied`: the runner
  sleeps only with empty lists.  `NoJobStranded` and `SyncCancelIsFinal`
  follow; the second rests on `Publication`, not on the flipflop's code.
  `RunsInOrder` needs that every list is in the order of posting, that what is
  in `safe_` was posted after what is in a list, and that what the runner has
  passed in a list has been called or is dead; `TimersKeepTime` that a timer that is not in
  its list is in the runner's hands, and that its next time is its start and a
  whole number of periods.  The operators that take apart and put together the
  lists are recursive functions; they are shown to exist one step at a time,
  and to keep order and elements by least counterexamples.
* **`PicrossProofs`, the safe worker** (any producers, any finite set of addresses
  (`AddrsAssumption`), any number of jobs).  `Announced`: a list
  with jobs that the worker will not look at by itself has a producer that is
  going to open the gate or an open gate; `Raised`: the gate's counter and its
  semaphore; `Drained`: what the worker has taken.  They give `NoLostWakeup`
  and `QuitDrains`.
  For `ImplementsFifo`, `ListInv`: there are sequences of nodes that `next`
  links from `head` and from the worker's local head (`Linked`); put together
  with what has been turned round they are allocated nodes, each with a job of
  its own that was pushed, while the node of a producer that has not pushed
  yet is allocated and in none of them.  So an address that is used again
  while a compare-and-swap waits for it changes nothing: what the swap finds
  is the node the list starts with now.  `ListFromLinked` says that the
  recursive walk of the refinement mapping finds the sequence (by a least
  counterexample), and `NextSteps` that every step leaves the queue of jobs as
  it is, appends a job that was never in it, or runs its first.
* **`PicrossProofs`, the data drop** (any finite set of threads, any addresses).  `RefsExact`
  is a sum of the sizes of five sets of threads.  `Share(t, o)` is what one
  thread contributes to the count of an object and `Total(o)` the sum;
  `TotalMoves` shows that a step of t changes the sum as it changes t's share,
  so that every step is checked by its own arithmetic (`Balanced`).  With
  `MarkHasOwner`, `AliveExact` (what is allocated is what is counted) and
  `GetOwnsNothing` that is inductive, and `NoUseAfterFree` follows: whoever
  looks at an object has a share in it, or the slot has, or the mark's owner.
* **`DispatchProofs`** (any callers, contexts, groups and threads).
  `ContextsExclusive` rests on: who holds a context is calling it, and has its
  `busy_` (`HolderCalls`, `HolderLocks`), threads serve their own groups
  (`OwnGroup`), a lock's readers are counted (`Counted`, `ReadLocked`).
  `NothingStranded` is proved under `OneThreadEach`, one service thread per
  group: then a job that is posted is on the list of its context (`Listed`),
  its flag is up until that thread has taken it (`FlagsSeen`) and the thread
  has been, or will be, woken (`Noticed`).  Without `OneThreadEach` it is
  false: finding 2.
* **`RpcProofs`** (any timers, attempts and delays that keep
  `KeepAssumption`).  The server forgets a call when its timer has been called
  twice, so that it still knows it for `Life` seconds.  `Outlives`: that is
  more than the client's `Patience`, the seconds in which it may still send
  REQ, with the delay of the last one.  Both fall by one in a second, an answer
  starts `Life` anew, and the assumption starts it high enough.  So when a call is
  forgotten nobody asks for it any more (`LastAsked`), and `AtMostOnce` follows
  from `Unasked`.  For `ResultTrue` the same is shown of GET (`Kept`): there an
  ACK that is under way may start the client's attempts anew, which is why
  it has a part in the invariant, and `Known` says that a waiting client has
  a server that knows the call and has sent only its result.

* **`MirrorProofs`** (any tree of paths of length at most two, any children at
  the start, ticks and bounds).  First what the operators of `Tree` do to the
  numbers: `Raise` lowers none and touches only the way to the root, and the
  recursive functions (`Among`, `ChildGone`, `Shut`, `Drop`, `Checked`,
  `Received`, ...) exist and move a tree one step at a time.  Type correctness
  needs more than types, since a record, a packet or a request that names a node without
  a parent would take a step outside them: `ShapeInv` says that open nodes are
  closed under parents, that the proxy's marks are on nodes that it has
  (`Copy`), and that packets are well formed (`Packets`).  A server's tree is
  `Served`: a node's number is the greatest of its own and its children's
  numbers, and no number exceeds `sequence`.  What an operation does to it is
  `ChildAddIs`, `ChangedIs` and `ChildCloseIs`; from them `TseqGrows`.

* **`InSyncProofs`** (as `MirrorProofs`; any losses, openings and restarts).
  `InSyncIsEqual` and `InSyncIsSnapshot` relate the proxy's copy to a tree
  that the server may have left behind, so that the invariant has to remember
  what the packets tell of.  `HistInv` says that there is a `W` which gives
  each packet under way, and the one that is being filled (`Pending`), the
  trees that the server had between its stanzas: each of them is one `Step`
  from the one before, and a packet whose `ltseq` is the number of the packet
  before starts with the tree at which that one ended (`Link`, `Log`).  `Later(A, B)` is what numbers show of two
  such trees: whatever of B has a number not above A's is as in A.
  Of the last tree S that the copy has been told of, `Abreast` says: up to a
  number a the copy has everything, it has no number between a and `mgseq_`,
  at which it was in sync (`Knows`), and where it differs from S it has marked
  a node to ask for (`Marked`; while a packet is read before which one was
  lost, only after its header was looked at).  Each of `received_tree_evt()`,
  `received_data_evt()` and `check_packet()` is shown to keep this when a
  stanza of the next tree is read (`ReceiveAbreast`, `PacketRead`), also from
  a packet that was sent before a request was answered, and each operation of
  the server to extend the log (`LogExtend`), a loss to take the packet from
  it.  When `check_sync()` finds nothing outstanding, `Marked` leaves no
  difference between copy and S (`Agree`), and the header's sync number makes
  S a tree between two operations (`Shows`).  `hidden` is needed where a
  header claims a change whose stanza is in the packet after it: were it lost,
  `Follows` would not hold.  `PastInv` keeps numbers of former servers and
  of a proxy that has heard nothing apart from the current ones.

* **`BkernelProofs`** (any finite sets of users and slots, any names, any
  periods).  `in_use` of an endpoint, a device and a group is the cardinality
  of a set of threads (`EpsUsers`, `DevUsers`, `GroupUsers` and `Owners`), to
  which the dead groups that are joined on a device (`DeadAt`), the device that
  is being added, and the opens that leave a group's count raised are added.  Most steps are
  `Quiet`: they move one thread and leave what the tables say; for those it is
  enough that counts and thread are in `Balance`.  The invariant `Core` says
  besides at which place a thread uses which part of its record (`Shape`), that
  what it has counted is there, a group only if it was alive at the time
  (`Held`), that a user's endpoint is in its group (`Linked`) and its own
  (`Distinct`), and that masks and members agree with the tables (`Masks`,
  `Members`).  That a group which somebody has counted does not expire follows
  from the counts (`Unexpired`), and so does `NobodyDangles`.  `Joined`: where a
  group has not yet noted a device, Net is about to note it.
  `RouteFollowsPeers` is made inductive by `Routed`, which says for each ticks
  count exactly which masks hold a device, with `Phase`, the ticks that have
  been accounted for in the current period: the tick counts the divider up
  first and shifts the masks two steps later.  A group that was dead when
  `bk_route_send()` counted it may be freed under the sender and its slot be
  taken by another group: from then on (`lost`) the sender is not
  among those that have that slot counted, and it crashes at its next step.

* **`DatabaseProofs`** (`PathsAssumption` and `SizesAssumption`: any finite
  trees of paths closed under parents and listed children first, any values,
  names and types, finitely many objects, blocks of any size, and any number
  of edits, saves, ends and failing writes).  The invariant `Kept` is about a
  file (`View`): the one that is open, or, while the program is down, the one that
  opening the disk would make.  The file is `Good`: there is a witness `w` of
  which path a node record was saved for, every record refers to earlier
  records of the right kind, a node's to nodes saved for its children's paths,
  and its snapshots are `Chained`, each to the one before.  An object is
  `AgentOK`: its tree is closed under parents, what has a place has its
  record there, and what is above something unsaved is unsaved, which is what
  `dirty()` is for.  It is `Rooted` when its agent's record has the place of
  its root; this is what `RootAhead` breaks and `cut` remembers.
  Every write is shown to lose nothing (`Goes`): records, blocks that are
  found, and `w` stay.  `Goes` is transitive, so that the recursive
  functions of a save (nodes, then agents, then the snapshot, each possibly
  cut short) are followed one step at a time.  Type correctness,
  `CleanMeansSaved` and `FoundIsKept` follow from `Kept`.
  For `ImplementsVersionStore`: histories, documents and versions read from a
  file are the same in every file that it becomes (`VersionsStable`), earlier
  histories are beginnings of later ones (`HistoryBegins`), a save changes no
  object's content (`SavedTree`: a tree whose root is saved is what is read from the
  root's record), and what the disk would give is the beginning of what the
  file has (`DurableIs`).

Type correctness is proved of each component; `PicrossProofs` also proves
`SidesAgree`: outside `set()` both sides hold the same version.

Only model-checked: all liveness (`SetReturns`, `EveryJobRuns`,
`EveryJobSettles`, `EveryCallEnds`, `ResultsForgotten`, `Converges`,
`CloseReturns`), since TLAPS proves no fairness.  Every safety property,
action property and refinement that a passing run checks is proved
(`NothingStranded` under `OneThreadEach`, which its run keeps).

## Findings

1. `event_queue_cancel`.  `pia_eventq.cpp:31` promises that on return from a
   cancel the job "is not currently and will not run", except from within a
   callback.  An asynchronous point stores a flag and returns; the runner may
   be past its test.  `cnode_t::close()` cancels from the main thread what a
   context thread runs.
2. `dispatch_mt`.  With `--mt 2` two threads serve one group.  A job that is
   posted after one of them has emptied the queue and before it leaves the
   context raises `queued_`; the other lowers it, fails to enter and goes on.
   The job is never called, nor are later ones, because only a post to an
   *empty* queue asks for service.  One thread per group, the default and what the
   graphical program has, is not affected (`dispatch`).
3. `rpc_shared`.  A process that has a network of the same server for a call
   of its own answers the client's GET with -1, "refused", although the server
   is carrying the call out: `decode_get()` does not ask for a server node, as
   `decode_req()` does.

Met while modelling, without a statement in the repository that they would
contradict:

* `buffer_transmit_slow()` sends a full buffer after the tree has taken the
  number of the change that did not fit.  The header then has that number, the
  next packet says `ltseq = tseq`, and if only that one is lost and another
  change follows within the second, the proxy reports that it is in sync with
  an old value; in a node below the first level it stays.  A server that goes
  passive with a filled buffer has the same effect.  TLC finds both when
  `hidden` is left out of `InSyncIsEqual`.
* `weak_`, a context's count of references, is raised and lowered by
  `enter()` and `leave()` outside the main lock and by others inside it.
* After a server's crash and restart a GET for an old call is answered -1: the
  call may have been carried out (`ResultTrue` excepts crashes).
* A call that reaches a server node between `detach()` and its deletion is
  ignored by `invoke()`; its client is answered ACK for ever (`Orphaned`).
* `xgate_t`'s semaphore may be one ahead of its flag: the sleeper wakes once
  for nothing, never the other way round.
* `isdirty()` asks a node's root for its place and does not see a root that was
  saved while its agent's record was not: after a save that a failing write
  cut short, or a `snapshot()` of a root, later saves leave that change out.
  `CleanMeansSaved` excepts it (`RootAhead`, `cut`); the applications never
  call `snapshot()`.
* `save()`, `clone()` and `copy()` of a snapshot look at `agents_` without
  `load__()` (`sng_database.cpp:476`, `647`): one that was not looked at
  before is taken to be empty.
* A file of the old format without a checkpoint gets the new signature, but
  keeps the old size of blocks (`sng_file.cpp:161`).  Blocks have no checksum:
  one that was dropped after a crash and is overwritten in part by the next
  run may be taken for a whole one (`sng_file.cpp:187`).
* A network interface that goes while a packet is on its way is cleared before
  its senders are waited for: the sender then follows a null pointer
  (`pia_bkernel.cpp:816`).  `bk_route_send()` counts groups that are dead
  already, and `bk_expire_group()` frees them (`pia_bkernel.cpp:986`).
  `Bkernel` has both as the action `Crash`.
* An open that succeeds leaves its group's `in_use` raised for good, so that a
  group expires only if every open of it has failed
  (`pia_bkernel.cpp:1276`; `kept` in `CountsExact`).
* `datadrop_t::get()` waits for another reader's mark to go: it is not
  lock-free as the flipflop is.

## What is not modelled

Besides the components above that have no module: in `EventQueue` the data of
jobs; in `Dispatch` the counts of references to contexts, `fastcall()` and
`fast_pause()`, kill and exit, the timer thread of the glue; in `Rpc` several
calls at once (the application names a call by its address), `kill()`, the
wire format; in `Mirror` fast data, flags and hidden nodes, the clients of a
tree and their calls to the server (TREE_SET, DATA_SET), several proxies of
one server, which do not influence each other except by the answers that all
of them hear; in `Bkernel` look-ups that change nothing, the layout of
packets, removal of a device without waiting, and what
happens after a failed assertion of the code; in `Database` the views of
`sng_mapping.cpp` and the copying of `sng_mirror.cpp`, the layout of records
and files of the old format.  Memory ordering weaker than sequential consistency is not
modelled: on x86 the atomic instructions are locked and act as barriers (on
PowerPC the counting ones of `pic_atomic.h` do not).

## Plan

Done: the lock-free structures, the event queue, dispatch, calls, the
replication of trees, the bus kernel and the state database.  What remains to
be modelled, in this order:

1. `FastData` and `DataQueue`: chains of events with reference counts between
   the fast thread and contexts, on top of `DataDrop` and `FlipFlop`, and the
   pause of the fast thread (`pia_glue.cpp:73`).
2. `Index`: announcements and expiry, on the network of `Mirror`; a server
   that is announced stays known.
3. `Mirror`: visibility and flags (`api_setflags()`, `api_set_source()`),
   clients of a tree and `cnode_t`'s sync callbacks; an abstract `Replica`
   that the proxy implements while it says that it is in sync.
4. `Contexts`: the life of a context, with `weak_`, kill and `auxq`.
5. `Rpc` with several calls, whose addresses come back.

Proofs: every module above first gets its safety properties checked, then the
inductive invariant behind them; the next are those of `FastData`.
